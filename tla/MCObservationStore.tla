------------------------- MODULE MCObservationStore -------------------------
(* Small instances of ObservationStore for TLC, with the inductive invariant *)
(* its proofs rest on.                                                      *)
EXTENDS ObservationStoreProofs, TLC

Symmetry == Permutations(Keys) \cup Permutations(Contents)
            \cup Permutations(Runs) \cup Permutations(Operators)

\* Every run writes the same key, or all but one of them write every key.
SmallPayloads ==
  LET k == CHOOSE k \in Keys : TRUE
      q == CHOOSE q \in Runs : TRUE
  IN  {[r \in Runs |-> {k}], [r \in Runs |-> IF r = q THEN {} ELSE Keys]}

MCInit == Init /\ left \in SmallPayloads

MCFairSpec == MCInit /\ [][Next]_vars /\ Fairness
=============================================================================
