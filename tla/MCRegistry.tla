----------------------------- MODULE MCRegistry ------------------------------
(* A small instance of Registry for TLC. *)
EXTENDS Registry, TLC

CONSTANTS t1, t2, t3, k1, k2, a, b

ThreeThreads == {t1, t2, t3}
TwoKeys == {k1, k2}
TwoShapes == {a, b}

Interchangeable == Permutations(ThreeThreads) \cup Permutations(TwoKeys) \cup Permutations(TwoShapes)
=============================================================================
