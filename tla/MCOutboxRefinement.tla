------------------------ MODULE MCOutboxRefinement ------------------------
(* OutboxTable and its refinement of AtLeastOnce on small instances. *)
EXTENDS OutboxRefinement

\* Delays: "now" and one tick.
MCDelay == {0, 1}
=============================================================================
