----------------------------- MODULE MCOperator -----------------------------
(***************************************************************************)
(* Instances of Operator for TLC; its constants are given by the           *)
(* configurations.                                                         *)
(***************************************************************************)
EXTENDS Operator
=============================================================================
