--------------------------- MODULE MCEventManager ---------------------------
(***************************************************************************)
(* EventManager for TLC, and what the docstring of _all_originals says.    *)
(***************************************************************************)
EXTENDS EventManager

(* At most this many remove() calls before a clear(): a bound on the       *)
(* exploration, two being enough to cut a Summary's tree in two places.    *)
MaxRemovals == 2
FewRemovals == Cardinality(removed) <= MaxRemovals

(* The documented promise of _all_originals, without exception: "This      *)
(* fully expands the tree, returning only non-summary events."             *)
SummaryAlwaysExpands ==
  removed = {} => \A t \in DOMAIN byTag : AllOriginals(t) = OriginalsOf(t)

=============================================================================
