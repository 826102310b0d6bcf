------------------------------ MODULE SixRules ------------------------------
(***************************************************************************)
(* The six validation rules and the gate, over lists of observations in    *)
(* the order the source or the database gave them.  A rule is the set of   *)
(* its findings; ctx is the context every rule is handed (SeriesContext).  *)
(***************************************************************************)
EXTENDS Periods, Sequences

CONSTANTS
  NoValue,   \* no value: of an observation, or a threshold left out
  MaxWalk    \* a walk from period to period longer than this never ends

NoPeriod == Period("", 0, 0)

Finding(rule, severity, period) ==
  [rule |-> rule, severity |-> severity, period |-> period]

Least(S) == CHOOSE i \in S : \A j \in S : i <= j

Greatest(S) == CHOOSE i \in S : \A j \in S : i >= j

Abs(n) == IF n < 0 THEN -n ELSE n

-----------------------------------------------------------------------------

\* What the payload exposed is not what the configuration declares.
Rule1Schema(ctx) ==
  {Finding("schema", "block", NoPeriod) :
     x \in (ctx.schema.expected \ ctx.observed.fields)
           \cup {part \in DOMAIN ctx.schema.workbook :
                   \/ part \notin DOMAIN ctx.observed.workbook
                   \/ ctx.observed.workbook[part] # ctx.schema.workbook[part]}}

\* Mutant of LatestPeriod: the payload's newest period comes last.
LatestListed(obs) == obs[Len(obs)].period

\* The latest period of a list: the first of those that no other is after.
LatestPeriod(obs) ==
  obs[Least({i \in DOMAIN obs :
               \A j \in DOMAIN obs : ~Before(obs[i].period, obs[j].period)})].period

HasPeriod(obs, p) == \E i \in DOMAIN obs : Same(obs[i].period, p)

\* The periods a cursor visits that starts at p and is advanced by one.
WalkFrom(p) == {Ahead(p, n) : n \in 0..MaxWalk}

\* Mutant of Skipped: one documented gap excuses the whole stretch.
SkippedUndocumented(prior, incoming, gaps) ==
  LET skipped == {p \in WalkFrom(Following(LatestPeriod(prior))) :
                    /\ ~Before(LatestPeriod(incoming), p)
                    /\ ~HasPeriod(prior \o incoming, p)}
  IN  IF skipped \cap gaps = {} THEN skipped ELSE {}

\* The periods between the published vintage and the payload's latest that
\* neither of them lists and nobody documented.
Skipped(prior, incoming, gaps) ==
  {p \in WalkFrom(Following(LatestPeriod(prior))) :
     /\ ~Before(LatestPeriod(incoming), p)
     /\ ~HasPeriod(prior \o incoming, p)
     /\ p \notin gaps}

\* A first run has nothing to be continuous with.
Rule2Continuity(ctx, incoming) ==
  IF ctx.prior = <<>> \/ incoming = <<>> THEN {}
  ELSE {Finding("continuity", "block", p) : p \in Skipped(ctx.prior, incoming, ctx.gaps)}

\* The value of the period before p: the published one, if there is one, even
\* where the payload revises it.
PreviousValue(all, p) ==
  LET found == {i \in DOMAIN all : /\ Same(all[i].period, Preceding(p))
                                   /\ all[i].value # NoValue}
  IN  IF found = {} THEN NoValue ELSE all[Least(found)].value

\* Mutant of Implausible: a break excuses the period after it too.
ImplausibleNearBreak(ctx, incoming, o) ==
  /\ o.value # NoValue
  /\ \/ ctx.min # NoValue /\ o.value < ctx.min
     \/ ctx.max # NoValue /\ o.value > ctx.max
     \/ /\ ctx.maxDelta # NoValue
        /\ LET previous == PreviousValue(ctx.prior \o incoming, o.period)
           IN  /\ previous # NoValue
               /\ Abs(o.value - previous) > ctx.maxDelta
        /\ ~\E b \in ctx.breaks : Same(b, o.period) \/ Same(b, Preceding(o.period))

Implausible(ctx, incoming, o) ==
  /\ o.value # NoValue
  /\ \/ ctx.min # NoValue /\ o.value < ctx.min
     \/ ctx.max # NoValue /\ o.value > ctx.max
     \/ /\ ctx.maxDelta # NoValue
        /\ LET previous == PreviousValue(ctx.prior \o incoming, o.period)
           IN  /\ previous # NoValue
               /\ Abs(o.value - previous) > ctx.maxDelta
        /\ ~\E b \in ctx.breaks : Same(b, o.period)

Rule3Plausibility(ctx, incoming) ==
  {Finding("plausibility", "block", incoming[i].period) :
     i \in {i \in DOMAIN incoming : Implausible(ctx, incoming, incoming[i])}}

DefaultMaxBackwardPeriods == 4

\* Steps from p to the latest period.  The loop stops at that period only:
\* where Following does not lead to it, it never returns.
Endless == MaxWalk + 1
BackDistance(p, latest) ==
  LET hits == {n \in 0..MaxWalk : Same(Ahead(p, n), latest)}
  IN  IF hits = {} THEN Endless ELSE Least(hits)

\* The payload's observations that change a published value.
Revisions(ctx, incoming) ==
  LET Known(o) == {j \in DOMAIN ctx.prior : Same(ctx.prior[j].period, o.period)}
  IN  {o \in {incoming[i] : i \in DOMAIN incoming} :
         /\ Known(o) # {}
         /\ ctx.prior[Least(Known(o))].value # o.value}

RevisionDistances(ctx, incoming) ==
  {<<o.period, BackDistance(o.period, latest)>> :
     o \in Revisions(ctx, incoming), latest \in {LatestPeriod(ctx.prior \o incoming)}}

Rule4Returns(ctx, incoming) ==
  \A d \in RevisionDistances(ctx, incoming) : d[2] # Endless

\* Mutant of Rule4Revision: the window is one period longer.
Rule4RevisionOneLater(ctx, incoming) ==
  LET n == IF ctx.maxBackward <= 0 THEN DefaultMaxBackwardPeriods
           ELSE ctx.maxBackward
  IN  {Finding("revision", "block-requires-signoff", d[1]) :
         d \in {d \in RevisionDistances(ctx, incoming) : d[2] > n}}

Rule4Revision(ctx, incoming) ==
  LET n == IF ctx.maxBackward <= 0 THEN DefaultMaxBackwardPeriods
           ELSE ctx.maxBackward
  IN  {Finding("revision", "block-requires-signoff", d[1]) :
         d \in {d \in RevisionDistances(ctx, incoming) : d[2] >= n}}

Rule5MetadataCompleteness(ctx) ==
  {Finding("metadata", "block", NoPeriod) :
     field \in {field \in {"source", "unit", "frequency", "licence"} :
                  ctx.series[field] = ""}}

Rule6NonEmpty(incoming) ==
  IF incoming = <<>> THEN {Finding("non-empty", "block", NoPeriod)} ELSE {}

SixRules(ctx, incoming) ==
  Rule1Schema(ctx) \cup Rule2Continuity(ctx, incoming)
    \cup Rule3Plausibility(ctx, incoming) \cup Rule4Revision(ctx, incoming)
    \cup Rule5MetadataCompleteness(ctx) \cup Rule6NonEmpty(incoming)

Gate(findings) ==
  IF \E f \in findings : f.severity \in {"block", "block-requires-signoff"}
  THEN "block" ELSE "publish"
=============================================================================
