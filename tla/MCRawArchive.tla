---------------------------- MODULE MCRawArchive ----------------------------
(* A small instance of RawArchive for TLC.                                  *)
EXTENDS RawArchive, TLC

Symmetry == Permutations(Calls)

\* Lines of different lengths.
Lengths == [h \in Hashes |-> IF h = 1 THEN 3 ELSE 1]
=============================================================================
