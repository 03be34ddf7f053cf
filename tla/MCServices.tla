----------------------------- MODULE MCServices -----------------------------
(***************************************************************************)
(* Instances of Services for TLC: a headless Service that is asked to be   *)
(* exposed, with an address, and one of a given address whose settings or  *)
(* address become invalid.                                                 *)
(***************************************************************************)
EXTENDS Services

MCNames == {"scheduler", "internal"}

Asking(config, address) == [config |-> config, address |-> address]

MCFirstWant ==
    [n \in MCNames |-> IF n = "scheduler" THEN Asking("plain", "headless")
                                          ELSE Asking("plain", "given")]

MCAsks ==
    [n \in MCNames |->
        IF n = "scheduler"
        THEN {Asking("exposed", "auto")}
        ELSE {Asking("invalid", "given"), Asking("plain", "invalid")}]
=============================================================================
