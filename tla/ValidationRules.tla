--------------------------- MODULE ValidationRules ---------------------------
(***************************************************************************)
(* The validation rules that compare a payload with the vintage published  *)
(* before it, and the gate.  A vintage, like a payload, is a function from *)
(* its periods to contents; periods of one frequency are consecutive       *)
(* numbers.  Each rule is the set of the periods it reports.               *)
(***************************************************************************)
EXTENDS Naturals

LatestPeriod(S) == CHOOSE p \in S : \A q \in S : q <= p

\* Periods skipped between the published vintage and the payload's latest.
\* A first run has nothing to be continuous with.
Rule2Continuity(prior, incoming, documentedGaps) ==
  IF DOMAIN prior = {} \/ DOMAIN incoming = {} THEN {}
  ELSE {p \in LatestPeriod(DOMAIN prior) + 1 .. LatestPeriod(DOMAIN incoming) :
          p \notin DOMAIN incoming \cup documentedGaps}

\* Mutant of Rule4Revision: the window is one period longer.
Rule4RevisionOneLater(prior, incoming, maxBackward) ==
  {p \in DOMAIN prior \cap DOMAIN incoming :
     /\ prior[p] # incoming[p]
     /\ LatestPeriod(DOMAIN prior \cup DOMAIN incoming) - p > maxBackward}

\* Published values changed maxBackward or more periods before the latest
\* period known: a human has to sign them off.
Rule4Revision(prior, incoming, maxBackward) ==
  {p \in DOMAIN prior \cap DOMAIN incoming :
     /\ prior[p] # incoming[p]
     /\ LatestPeriod(DOMAIN prior \cup DOMAIN incoming) - p >= maxBackward}

\* Whether these rules let the gate publish; rule 6 refuses an empty payload.
Passes(prior, incoming, documentedGaps, maxBackward) ==
  /\ Rule2Continuity(prior, incoming, documentedGaps) = {}
  /\ Rule4Revision(prior, incoming, maxBackward) = {}
  /\ DOMAIN incoming # {}
=============================================================================
