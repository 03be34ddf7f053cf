---------------------------- MODULE MCReconcile ----------------------------
(***************************************************************************)
(* Instances of Reconcile for TLC.                                         *)
(***************************************************************************)
EXTENDS Reconcile

Valid == [invalid |-> {}, routes |-> FALSE]
Routed == [invalid |-> {}, routes |-> TRUE]
BadVersion == [invalid |-> {"version"}, routes |-> TRUE]
BadScheduler == [invalid |-> {"scheduler"}, routes |-> FALSE]

MCSpecs == {Routed, BadScheduler, BadVersion}
MCIncarnationSpecs == {Valid}
MCLiveSpecs == {Routed, BadVersion}
=============================================================================
