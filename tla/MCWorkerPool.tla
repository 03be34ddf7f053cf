---------------------------- MODULE MCWorkerPool ----------------------------
(***************************************************************************)
(* Instances of WorkerPool for TLC.  Pods are interchangeable.             *)
(***************************************************************************)
EXTENDS WorkerPool, TLC

CONSTANTS p1, p2, p3, t1, t2
MCPods == {p1, p2, p3}
MCTemplates == {t1, t2}
MCSymmetry == Permutations({p1, p2, p3})
=============================================================================
