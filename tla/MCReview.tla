-------------------------------- MODULE MCReview --------------------------------
(* The instance of Review for TLC: two defects of different severity on one
   layer, so that a selection can be mixed. *)
EXTENDS Review, TLC

CONSTANTS d1, d2, p1, p2

MCLayerOf == [d \in {d1, d2} |-> "top"]
MCSymmetry == Permutations({p1, p2})

=============================================================================
