--------------------------------- MODULE MCPool ---------------------------------
(* Model-checking instances of Pool and of its refinement to SessionLife. *)
EXTENDS PoolLife

(* Claims are interchangeable, and neither the invariants nor the mapping   *)
(* to SessionLife name one; used in the run without liveness properties.    *)
ClaimerSymmetry == Permutations(Claimers)
=============================================================================
