------------------------------ MODULE MCRoutes ------------------------------
(***************************************************************************)
(* Instances of Routes for TLC.                                            *)
(***************************************************************************)
EXTENDS Routes

MCRouteSpecs == {"plain"}
=============================================================================
