-------------------------- MODULE MCIngestPipeline --------------------------
(* A small instance of IngestPipeline for TLC: three periods, the first     *)
(* beyond the reach of a revision once the third is there (MaxBackward 2).  *)
EXTENDS IngestPipelineProofs, TLC

CONSTANTS first, revised, third, withdrawn, garbage, a, b

MCPeriods == 1..3

\* Two periods; the first revised; a third added to that, which rule 4 lets
\* through after revised and not after first; the second listed without a
\* value; and, not in the domain, bytes that do not decode.
MCDecode ==
  first :> (1 :> a @@ 2 :> a)
    @@ revised :> (1 :> b @@ 2 :> a)
    @@ third :> (1 :> b @@ 2 :> a @@ 3 :> b)
    @@ withdrawn :> (1 :> a @@ 2 :> NoValue)

MCPayloads == DOMAIN MCDecode \cup {garbage}

\* What two of them are enough for.
MCWithdrawal == [p \in {first, withdrawn} |-> MCDecode[p]]

Symmetry == Permutations(Calls)
=============================================================================
