------------------------- MODULE MCPoolController -------------------------
(* Instances of PoolController for TLC. *)
EXTENDS PoolInvariant, TLC

CONSTANTS a1, a2

\* The two addresses play the same part unless one is outside the pool.
AddressSymmetry == Permutations(Addresses)
===========================================================================
