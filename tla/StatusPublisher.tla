-------------------------- MODULE StatusPublisher --------------------------
(***************************************************************************)
(* What the operator promises to whoever reads a PolarsCluster: users own  *)
(* the object and its spec, the operator only ever publishes verdicts, and *)
(* each verdict is about the generation the object has at that moment.     *)
(* There is no cache here, no queue and no pass; Reconcile implements it.  *)
(***************************************************************************)
EXTENDS Naturals

CONSTANT Conditions  \* the condition types that Ready sums up

VARIABLES
    object,  \* existence, incarnation and generation
    verdict  \* Ready, the generation it is about, and the False conditions

vars == <<object, verdict>>

Verdict == [ready : {"True", "False"}, gen : Nat, down : SUBSET Conditions]
NoVerdict == [ready |-> "Absent", gen |-> 0, down |-> {}]

Init ==
    /\ object = [exists |-> FALSE, uid |-> 0, gen |-> 0]
    /\ verdict = NoVerdict

\* A new incarnation has no verdict, whatever was said of its predecessor.
Create ==
    /\ ~object.exists
    /\ object' = [exists |-> TRUE, uid |-> object.uid + 1, gen |-> 1]
    /\ verdict' = NoVerdict

\* An edit leaves the verdict behind.
Edit ==
    /\ object.exists
    /\ object' = [exists |-> TRUE, uid |-> object.uid, gen |-> object.gen + 1]
    /\ UNCHANGED verdict

Delete ==
    /\ object.exists
    /\ object' = [exists |-> FALSE, uid |-> object.uid, gen |-> 0]
    /\ verdict' = NoVerdict

\* The operator's only step: nothing is down when it says Ready.
Publish ==
    /\ object.exists
    /\ verdict' \in Verdict
    /\ verdict'.gen = object.gen
    /\ verdict'.ready = "True" => verdict'.down = {}
    /\ UNCHANGED object

Next == Create \/ Edit \/ Delete \/ Publish

Spec == Init /\ [][Next]_vars

=============================================================================
