---------------------------- MODULE MCSubscriber ----------------------------
(* Symmetry of rows and workers for the safety runs of Subscriber. *)
EXTENDS Subscriber, TLC

Symmetric == Permutations(Row) \cup Permutations(Worker)
=============================================================================
