---------------------------- MODULE MCTaskQueue ----------------------------
(***************************************************************************)
(* TaskQueue for TLC: the cfgs give every constant its value. There is no  *)
(* symmetry: rows are ordered, and the workers appear in the fairness      *)
(* conditions.                                                             *)
(***************************************************************************)
EXTENDS TaskQueue
=============================================================================
