--------------------------- MODULE MCLookupCache ---------------------------
(* Small instances of LookupCache for TLC. *)
EXTENDS LookupCache, TLC

CONSTANTS r1, r2, r3

\* A redirect, a reader and an editor meet on one pattern.
MixedOffers ==
  r1 :> {"resolve"} @@ r2 :> {"read"} @@ r3 :> EditOp
=============================================================================
