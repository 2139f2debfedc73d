------------------------------ MODULE MCTaskMgr -------------------------------
(***************************************************************************)
(* Two tasks, one with an interval of nothing.                             *)
(***************************************************************************)
EXTENDS TaskMgr

CONSTANTS t1, t2

MCInterval == [t \in Tasks |-> IF t = t1 THEN 0 ELSE 1]
=============================================================================
