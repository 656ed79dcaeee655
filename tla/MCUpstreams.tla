----------------------------- MODULE MCUpstreams -----------------------------
(* Run slots and patterns are interchangeable. *)
EXTENDS Upstreams, TLC

Symmetry == Permutations(Run) \cup Permutations(Pattern)

=============================================================================
