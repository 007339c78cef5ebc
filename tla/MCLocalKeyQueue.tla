--------------------------- MODULE MCLocalKeyQueue ---------------------------
(***************************************************************************)
(* Instances of LocalKeyQueue for TLC.                                     *)
(***************************************************************************)
EXTENDS LocalKeyQueue, TLC

CONSTANTS c1, c2, c3, c4, c5, k1, k2

\* Four calls contend for one key, a fifth uses another key.
MCKeyOf == [c \in Call |-> IF c = c5 THEN k2 ELSE k1]

\* The calls of k1 are interchangeable.
MCSymmetry == Permutations({c1, c2, c3, c4})

=============================================================================
