------------------------- MODULE MCArbitratorRouter -------------------------
(***************************************************************************)
(* Small instances of ArbitratorRouter; the symmetry is for the runs that  *)
(* check safety only.                                                      *)
(***************************************************************************)
EXTENDS ArbitratorRouter, TLC

\* Permuting keys, ids, handlers or stream calls maps behaviours to behaviours.
MCSymmetry == Permutations(Keys) \cup Permutations(RequestId)
              \cup Permutations(Posters) \cup Permutations(Streams)
=============================================================================
