---------------------------- MODULE MCTestBroker ----------------------------
(* Symmetry of TestBroker for TLC: no definition orders the tasks. *)
EXTENDS TestBroker, TLC

Symmetric == Permutations(Task)
=============================================================================
