---------------------------- MODULE SeriesIngest ----------------------------
(***************************************************************************)
(* The successive ingests of one series, from the request to the published *)
(* vintage: the source client, the decoders, the breaks, the six rules and *)
(* the gate, each with its data.  Calls do not overlap here; what overlap  *)
(* and crashes do to the same steps is the subject of IngestPipeline.      *)
(* Between two calls a new configuration may be deployed.                  *)
(***************************************************************************)
EXTENDS Integers, Sequences, FiniteSets

CONSTANTS
  Setups,        \* configurations of the series that may be deployed
  Bodies,        \* [kinds of source -> what that source may answer]
  MaxRuns,       \* ingestion runs (bound)
  MaxRedeploys,  \* configurations deployed after the first (bound)
  MaxAttempts, MaxWalk,
  NoBody, NoValue, Blank, Text

ASSUME MaxAttemptsAssumption == MaxAttempts \in Nat \ {0}

ASSUME BoundsAssumption == MaxRuns \in Nat /\ MaxRedeploys \in Nat /\ MaxWalk \in Nat

Kinds == {"ine-series-cod", "eurostat-dataset", "xlsx-url"}

IsList(s) == s \in Seq({s[i] : i \in DOMAIN s})

\* What a parser finds in a body is finite, and an index is a number.
ASSUME BodiesAssumption ==
  /\ \A b \in Bodies["ine-series-cod"] : IsList(b.data)
  /\ \A b \in Bodies["eurostat-dataset"] :
       /\ IsList(b.id)
       /\ \A dim \in DOMAIN b.category :
            /\ IsFiniteSet(DOMAIN b.category[dim])
            /\ \A label \in DOMAIN b.category[dim] : b.category[dim][label] \in Int
  /\ \A b \in Bodies["xlsx-url"] : IsList(b.rows)

\* The revision window of a configuration is a number; none or less is the
\* default.
ASSUME WindowAssumption == \A s \in Setups : s.maxBackward \in Int

VARIABLES
  setup,       \* the configuration of the binary that runs
  redeploys,   \* how often it was replaced
  pc,          \* what the call under way does next
  archive,     \* the bodies archived so far
  logged,      \* the outcome of the last download_attempt row
  runs,        \* ingestion_run: <<[body, setup, outcome], ...>>
  decoded,     \* what the payload of the call under way decodes to
  table,       \* current vintage: [period -> [value, run, since]]
  attempt, waiting, outcome, body, answers   \* the client (SourceClient)

clientVars == <<attempt, waiting, outcome, body, answers>>
vars == <<setup, redeploys, pc, archive, logged, runs, decoded, table, clientVars>>

Client == INSTANCE SourceClient
D == INSTANCE Decoders
R == INSTANCE SixRules

\* Before and after the decoding of a payload.
NoResult == D!Failed("none")

Init ==
  /\ setup \in Setups
  /\ redeploys = 0 /\ pc = "idle" /\ archive = {} /\ logged = "none"
  /\ runs = <<>> /\ decoded = NoResult /\ table = <<>>
  /\ Client!Init

\* A binary with another configuration replaces the one that runs.
Redeploy ==
  /\ pc = "idle" /\ redeploys < MaxRedeploys
  /\ setup' \in Setups \ {setup}
  /\ redeploys' = redeploys + 1
  /\ UNCHANGED <<pc, archive, logged, runs, decoded, table, clientVars>>

-----------------------------------------------------------------------------
(* The fetch *)

\* runIngest finds a client for the active source_ref and calls IngestSeries.
Begin ==
  /\ pc = "idle" /\ Len(runs) < MaxRuns
  /\ setup.kind \in Kinds
  /\ pc' = "fetch" /\ logged' = "none"
  /\ Client!Fetch
  /\ UNCHANGED <<setup, redeploys, archive, runs, decoded, table>>

Fetching ==
  /\ pc = "fetch"
  /\ Client!Step(Bodies[setup.kind])
  /\ UNCHANGED <<setup, redeploys, pc, archive, logged, runs, decoded, table>>

FetchFailed ==
  /\ pc = "fetch" /\ outcome \notin {"none", "ok"}
  /\ logged' = outcome
  /\ pc' = "idle"
  /\ UNCHANGED <<setup, redeploys, archive, runs, decoded, table, clientVars>>

\* The payload is archived, the attempt is logged and the run is created, all
\* of it before anything looks into the payload.
Archive ==
  /\ pc = "fetch" /\ outcome = "ok"
  /\ archive' = archive \cup {body}
  /\ logged' = IF body \in archive THEN "unchanged" ELSE "new-file"
  /\ runs' = Append(runs, [body |-> body, setup |-> setup, outcome |-> "pending"])
  /\ pc' = "decode"
  /\ UNCHANGED <<setup, redeploys, decoded, table, clientVars>>

-----------------------------------------------------------------------------
(* Decoding *)

\* What the client of a configuration makes of the bytes b.
Decoding(s, b) ==
  CASE s.kind = "ine-series-cod" -> D!DecodeINE(b, s.frequency)
    [] s.kind = "eurostat-dataset" -> D!DecodeEurostat(b, s.frequency)
    [] s.kind = "xlsx-url" -> D!DecodeXLSX(b, s.layout, s.frequency)

EndRun(recorded) ==
  /\ runs' = [runs EXCEPT ![Len(runs)].outcome = recorded]
  /\ pc' = "idle"
  /\ Client!Forget

Decode ==
  /\ pc = "decode"
  /\ decoded' = Decoding(setup, body)
  /\ pc' = "rules"
  /\ UNCHANGED <<setup, redeploys, archive, logged, runs, table, clientVars>>

DecodeFailed ==
  /\ pc = "rules" /\ decoded.class # "none"
  /\ EndRun("validation-failed")
  /\ decoded' = NoResult
  /\ UNCHANGED <<setup, redeploys, archive, logged, table>>

-----------------------------------------------------------------------------
(* The rules and the gate *)

FrequenciesOf(periods) == {p.freq : p \in periods}

InSomeOrder(S) ==
  CHOOSE s \in [1..Cardinality(S) -> S] : \A i, j \in DOMAIN s : i < j => s[i] # s[j]

\* The published vintage, in whatever order the query returns its rows.  The
\* order tells only which of the rows of one ordinal (but of two frequencies)
\* comes first.
Listings ==
  {[i \in DOMAIN s |-> [period |-> s[i], value |-> table[s[i]].value]] :
     s \in {InSomeOrder(P) \o InSomeOrder(DOMAIN table \ P) :
              P \in {P \in SUBSET DOMAIN table : \A p \in DOMAIN table :
                       Cardinality({q \in P : R!Same(p, q)}) = 1}}}

\* The active breaks of the series, as periods of its frequency.
ResolveBreaks == {R!PeriodFromDate(date, setup.frequency) : date \in setup.breaks}

Context(prior) ==
  [series |-> [source |-> setup.source, unit |-> setup.unit,
               frequency |-> setup.frequency, licence |-> setup.licence],
   schema |-> setup.schema, observed |-> decoded.observed,
   prior |-> prior, breaks |-> ResolveBreaks, gaps |-> setup.gaps,
   min |-> setup.min, max |-> setup.max, maxDelta |-> setup.maxDelta,
   maxBackward |-> setup.maxBackward]

Incoming == decoded.observations

\* What the gate makes of the findings; none if a rule does not return.
Verdicts ==
  LET contexts == {Context(prior) : prior \in Listings}
  IN  {R!Gate(R!SixRules(ctx, Incoming)) :
         ctx \in {ctx \in contexts : R!Rule4Returns(ctx, Incoming)}}

Block ==
  /\ pc = "rules" /\ decoded.class = "none" /\ "block" \in Verdicts
  /\ EndRun("validation-failed")
  /\ decoded' = NoResult
  /\ UNCHANGED <<setup, redeploys, archive, logged, table>>

\* The candidates up to the first one the table refuses: it has no value.
Writable(obs) ==
  LET empty == {i \in DOMAIN obs : obs[i].value = NoValue}
  IN  SubSeq(obs, 1, IF empty = {} THEN Len(obs) ELSE R!Least(empty) - 1)

\* The vintage after the candidates, one after the other: a row for every one
\* that does not say what is published.
Written(candidates) ==
  LET Of(p) == {i \in DOMAIN candidates : candidates[i].period = p}
      Kept(p) == p \in DOMAIN table /\
        \A i \in Of(p) : candidates[i].value = table[p].value
  IN  [p \in DOMAIN table \cup {candidates[i].period : i \in DOMAIN candidates} |->
         IF Kept(p) THEN table[p]
         ELSE [value |-> candidates[R!Greatest(Of(p))].value, run |-> Len(runs),
               since |-> IF p \in DOMAIN table THEN table[p].since ELSE Len(runs)]]

Publish ==
  /\ pc = "rules" /\ decoded.class = "none" /\ "publish" \in Verdicts
  /\ table' = Written(Writable(Incoming))
  /\ EndRun(IF Writable(Incoming) = Incoming THEN "succeeded" ELSE "pending")
  /\ decoded' = NoResult
  /\ UNCHANGED <<setup, redeploys, archive, logged>>

CallStep ==
  Fetching \/ FetchFailed \/ Archive \/ Decode \/ DecodeFailed
    \/ Block \/ Publish

Next == Redeploy \/ Begin \/ CallStep

Spec == Init /\ [][Next]_vars

\* A request ends with its timeout, a back-off with the clock.
FairSpec == Spec /\ WF_vars(CallStep)

-----------------------------------------------------------------------------
(* Properties *)

\* Every variable has the type its declaration describes.
TypeOK ==
  /\ setup \in Setups /\ redeploys \in 0..MaxRedeploys
  /\ pc \in {"idle", "fetch", "decode", "rules"}
  /\ archive \subseteq UNION {Bodies[k] : k \in Kinds}
  /\ logged \in {"none", "new-file", "unchanged", "retryable-transport",
                 "response-too-large", "schema-drift"}
  /\ \A i \in DOMAIN runs :
       runs[i].outcome \in {"pending", "succeeded", "validation-failed"}
  /\ \A p \in DOMAIN table : /\ p.freq \in R!Frequencies
                             /\ table[p].value # NoValue
                             /\ table[p].since \in 1..table[p].run
                             /\ table[p].run \in DOMAIN runs
  /\ Client!TypeOK

\* What a download_attempt row says is what happened on the wire: a fetch goes
\* on only after a transport failure, an exhausted budget is told from a
\* refusal to go on, and a new or an unchanged file is logged exactly for a
\* body that arrived (client.go:219, ingest.go:334).
AttemptsTellTheFetch ==
  /\ \A i \in 1..(Len(answers) - 1) : answers[i] \in Client!Retryable
  /\ logged # "none" /\ answers # <<>> =>
       LET last == answers[Len(answers)]
       IN  CASE logged \in {"new-file", "unchanged"} -> last = "ok"
             [] logged = "retryable-transport" ->
                  last \in Client!Retryable /\ Len(answers) = MaxAttempts
             [] OTHER -> last \in {"too large", "other status"}

\* Every published value is what the source said of that period in the payload
\* its run names, through whichever decoder it came: a moved column, a period
\* of another shape or a cut publication never puts a figure at the wrong
\* period (decode.go:198, envelope.go:133).
PublishedIsTheSourcesWord ==
  \A p \in DOMAIN table :
    LET says == runs[table[p].run].body.says
    IN  p \in DOMAIN says /\ says[p] = table[p].value

\* The source says v of p in the body b.
Says(b, p, v) == p \in DOMAIN b.says /\ b.says[p] = v

\* Of a period listed twice the last value counts, and nothing after the first
\* period without a value.
ListsWhatItSays(b, listed) ==
  LET W == Writable(listed)
  IN  \A i \in DOMAIN W :
        (\A j \in DOMAIN W : W[j].period = W[i].period => j <= i)
          => Says(b, W[i].period, W[i].value)

\* What the code takes for granted of a source: the INE lists a value next to
\* its year and code; the one cell a pinned cube has for a time label is that
\* label's; a workbook row whose total is the sum of its components has the
\* total where the configuration looks for it.
SourcesKeepTheirForm ==
  /\ \A b \in Bodies["ine-series-cod"] :
       ListsWhatItSays(b, [i \in DOMAIN b.data |->
         [period |-> D!Period(IF b.data[i].periodo = "Mnn" THEN "M" ELSE "Q",
                              b.data[i].anyo, b.data[i].ordinal),
          value |-> b.data[i].valor]])
  /\ \A b \in Bodies["eurostat-dataset"] :
       (\A k \in DOMAIN b.id :
          b.id[k] # "time" => Cardinality(DOMAIN D!Categories(b, b.id[k])) = 1) =>
         \A label \in DOMAIN D!Categories(b, "time") :
           LET pos == D!CubePosition(b, D!Categories(b, "time")[label])
           IN  label.form \in DOMAIN D!FrequencyOf /\ pos \in DOMAIN b.value =>
                 Says(b, D!NormalizePeriodLabel(label), b.value[pos])
  /\ \A s \in Setups, b \in Bodies["xlsx-url"] :
       s.kind = "xlsx-url" => \A i \in DOMAIN b.rows :
         LET row == b.rows[i]
             total == row.cells[s.layout.total]
             tolerance == D!Tolerance(s.layout)
         IN  /\ total \notin {Blank, Text}
             /\ \A c \in DOMAIN s.layout.components :
                  row.cells[s.layout.components[c]] # Text
             /\ total - D!ComponentSum(row, s.layout.components) <= tolerance
             /\ -(total - D!ComponentSum(row, s.layout.components)) <= tolerance
             => Says(b, D!Period("M", row.label.year, row.label.ordinal), total)

\* The periods of the vintage, and of the payload the rules look at, have one
\* frequency (the comparisons of period.go:106 rely on it).
OneFrequency ==
  Cardinality(FrequenciesOf(DOMAIN table \cup
    {Incoming[i].period : i \in DOMAIN Incoming})) <= 1

\* What the payload of run r lists.
Listed(r) == Decoding(runs[r].setup, runs[r].body).observations

\* After the first publication no run leaves a hole behind.  A period between
\* the vintage a run found and one that this run added is published too, or
\* documented, or the payload lists it and the run was cut off at a period
\* without a value before it published it (rule2_continuity.go:57).
HolesExplained ==
  OneFrequency => \A q \in DOMAIN table :
    LET run == runs[table[q].since]
        earlier == {p \in DOMAIN table : table[p].since < table[q].since}
        after == {p \in earlier : \A o \in earlier : ~R!Before(p, o)}
    IN  \A p \in after : \A hole \in R!WalkFrom(p) :
          R!Before(hole, q) /\ hole \notin DOMAIN table =>
            \/ hole \in run.setup.gaps
            \/ run.outcome = "pending" /\ R!HasPeriod(Listed(table[q].since), hole)

\* p and the period after it are published with values further apart than the
\* configuration allows, and no break is recorded there.
Jump(p, q) ==
  LET s == runs[table[q].run].setup
  IN  /\ q = R!Following(p)
      /\ s.maxDelta # NoValue
      /\ R!Abs(table[q].value - table[p].value) > s.maxDelta
      /\ q \notin {R!PeriodFromDate(date, s.frequency) : date \in s.breaks}

\* The payload of run r lists p with two values.
Contradictory(r, p) ==
  \E i, j \in DOMAIN Listed(r) :
    /\ Listed(r)[i].period = p /\ Listed(r)[j].period = p
    /\ Listed(r)[i].value # Listed(r)[j].value

\* A jump is published away from a break only if the earlier of the two values
\* is a revision made with the later one or after it: the rule measures a
\* change against the value published before the run, and only for the
\* periods of the payload; or the payload listed the earlier one twice, and
\* the rule looked at the first value and the last was published
\* (rule3_plausibility.go:80).
JumpsExplained ==
  OneFrequency => \A p, q \in DOMAIN table :
    Jump(p, q) =>
      \/ table[p].run > table[q].run
      \/ table[p].run = table[q].run /\ table[p].since < table[p].run
      \/ table[p].run = table[q].run /\ Contradictory(table[p].run, p)

\* A published value changes only at a period with fewer than the configured
\* number of periods known after it, published or in the payload that revises
\* it: an older revision needs a signature (rule4_revision.go:91).
RevisionsAreRecent ==
  [][OneFrequency => \A p \in DOMAIN table :
       table'[p].value # table[p].value =>
         LET window == IF setup.maxBackward <= 0 THEN R!DefaultMaxBackwardPeriods
                       ELSE setup.maxBackward
         IN  \A q \in DOMAIN table \cup {Incoming[i].period : i \in DOMAIN Incoming} :
               ~R!Before(R!Ahead(p, window - 1), q)]_vars

\* Every call ends, and if one does not, it is in the revision rule with
\* periods of two frequencies, counting its way past the latest period for
\* ever (rule4_revision.go:60).
CallsEnd ==
  pc # "idle" ~> (pc = "idle" \/ (pc = "rules" /\ ~OneFrequency))

-----------------------------------------------------------------------------
(* What the documents of the code say and the code does not do *)

\* data-validation: an equally large change at a period with no recorded break
\* fails rule 3, so none is ever published (rule3_plausibility.go:55).
NoUnexplainedJump == \A p, q \in DOMAIN table : ~Jump(p, q)
=============================================================================
