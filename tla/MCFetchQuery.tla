---------------------------- MODULE MCFetchQuery ----------------------------
(* Deadlines for FetchQuery (two eligible, one in the future) and symmetry: *)
(* no definition of it orders queues or fetchers.                           *)
EXTENDS FetchQuery, TLC

MCDue == {0, 1, 2}
Symmetric == Permutations(Queue) \cup Permutations(Fetcher)
=============================================================================
