--------------------------- MODULE MCSchedulerPod ---------------------------
(***************************************************************************)
(* Instances of SchedulerPod for TLC.                                      *)
(***************************************************************************)
EXTENDS SchedulerPod

CONSTANTS t1, t2
MCTemplates == {t1, t2}
MCUids == 1..4
=============================================================================
