----------------------------- MODULE Scheduler -----------------------------
(***************************************************************************)
(* The scheduler inside serve: runScheduler's loop, one Runner per source, *)
(* the job it runs (the ingest of every series of the source), what        *)
(* survives in download_attempt when the process does not, and the ingest  *)
(* command an operator runs beside it.                                     *)
(*                                                                         *)
(* Time is counted in scheduleCheckInterval.  A job may last any number of *)
(* ticks, and until it ends the loop serves no other source; the ticker's  *)
(* channel holds one tick and drops the others, so the `now' of the loop   *)
(* may be long past.                                                       *)
(***************************************************************************)
EXTENDS Naturals, FiniteSets

CONSTANTS
  Sources,
  SeriesOf,   \* the series configured for each source
  ByHand,     \* the sources an operator also ingests with the ingest command
  NoSource,
  Interval,   \* APP_SCHEDULE_INTERVAL, from a success to the next job
  BackoffUnit,\* defaultBackoff's hour
  Window,     \* freshness.Window
  MaxTime     \* bound on the clock, for TLC

ASSUME DurationsAssumption ==
  {Interval, BackoffUnit, Window, MaxTime} \subseteq Nat \ {0}
ASSUME SourcesAssumption ==
  /\ NoSource \notin Sources
  /\ ByHand \subseteq Sources
  /\ DOMAIN SeriesOf = Sources

Never == 0  \* the zero time, the absent time and the empty channel

VARIABLES
  clock,       \* the wall clock
  attempts,    \* per source, its latest successful download_attempt
  up,          \* whether serve runs
  ticker,      \* the tick in the channel
  tick,        \* now, in the loop
  todo,        \* due sources of this tick not attempted yet
  job,         \* the source whose job runs
  started,     \* the job's own now
  pending,     \* its series not ingested yet
  failed,      \* whether one of them failed
  lastSuccess, seeded, next, \* runScheduler's maps
  failures,    \* consecutiveFailures of each Runner
  incidents,   \* per source, the tick of the last source-down incident
  complete,    \* history: tick of the last job without a failed series
  blind        \* history: sources whose last success could not be looked up

loop == <<ticker, tick, todo>>
running == <<job, started, pending, failed>>
memory == <<lastSuccess, seeded, next, failures>>
vars == <<clock, attempts, up, loop, running, memory, incidents, complete, blind>>

\* freshness.Resolve, for the scheduler's incidents and for the amber of the
\* pages alike.
Resolve(last, asOf) ==
  IF last = Never \/ asOf > last + Window THEN "failed" ELSE "fresh"

Later(t, u) == IF t < u THEN u ELSE t

Zeros == [s \in Sources |-> Never]

Init ==
  /\ clock = 1
  /\ up = FALSE
  /\ ticker = Never /\ tick = Never /\ todo = {}
  /\ job = NoSource /\ started = Never /\ pending = {} /\ failed = FALSE
  /\ lastSuccess = Zeros /\ next = Zeros /\ failures = Zeros
  /\ seeded = [s \in Sources |-> FALSE]
  /\ attempts = Zeros /\ incidents = Zeros /\ complete = Zeros
  /\ blind = {}

-----------------------------------------------------------------------------
(* Around the loop *)

\* The ticker offers the new time; a full channel drops it.
Advance ==
  /\ clock < MaxTime
  /\ clock' = clock + 1
  /\ ticker' = IF up /\ ticker = Never THEN clock' ELSE ticker
  /\ UNCHANGED <<attempts, up, tick, todo, running, memory, incidents, complete,
                 blind>>

\* serve starts, and the maps and Runners with it.
Start ==
  /\ ~up
  /\ up' = TRUE
  /\ UNCHANGED <<clock, attempts, loop, running, memory, incidents, complete,
                 blind>>

\* serve is stopped or dies, whatever it was doing.
Die ==
  /\ up
  /\ up' = FALSE
  /\ ticker' = Never /\ tick' = Never /\ todo' = {}
  /\ job' = NoSource /\ started' = Never /\ pending' = {} /\ failed' = FALSE
  /\ lastSuccess' = Zeros /\ next' = Zeros /\ failures' = Zeros
  /\ seeded' = [s \in Sources |-> FALSE]
  /\ blind' = {}
  /\ UNCHANGED <<clock, attempts, incidents, complete>>

\* The ingest command, started at t, logs the download of a series of s.
ManualIngest(s, t) ==
  /\ SeriesOf[s] # {}
  /\ attempts' = [attempts EXCEPT ![s] = Later(@, t)]
  /\ UNCHANGED <<clock, up, loop, running, memory, incidents, complete, blind>>

-----------------------------------------------------------------------------
(* The loop *)

ReceiveTick ==
  /\ job = NoSource /\ todo = {}
  /\ ticker # Never
  /\ tick' = ticker
  /\ ticker' = Never
  /\ todo' = {s \in Sources : next[s] <= tick'}
  /\ UNCHANGED <<clock, attempts, up, running, memory, incidents, complete, blind>>

\* Mutant of Seed: a restart forgets the last success.
SeedForgotten(s) ==
  /\ seeded' = [seeded EXCEPT ![s] = TRUE]
  /\ UNCHANGED <<lastSuccess, blind>>

\* The first job of a source in this process recovers its last success from
\* download_attempt; when the query fails there is none.
Seed(s) ==
  /\ seeded' = [seeded EXCEPT ![s] = TRUE]
  /\ IF seeded[s]
       THEN UNCHANGED <<lastSuccess, blind>>
       ELSE \/ /\ lastSuccess' = [lastSuccess EXCEPT ![s] = attempts[s]]
               /\ UNCHANGED blind
            \/ /\ blind' = blind \cup {s}
               /\ UNCHANGED lastSuccess

\* Mutant of StartJob: a source without series is a success.
StartJobUnguarded(s) ==
  /\ job = NoSource
  /\ s \in todo
  /\ Seed(s)
  /\ job' = s
  /\ started' = clock
  /\ \/ pending' = SeriesOf[s] /\ failed' = FALSE
     \/ pending' = {} /\ failed' = TRUE
  /\ UNCHANGED <<clock, attempts, up, loop, next, failures, incidents, complete>>

StartJob(s) ==
  /\ job = NoSource
  /\ s \in todo
  /\ Seed(s)
  /\ job' = s
  /\ started' = clock
  /\ \/ /\ pending' = SeriesOf[s]
        /\ failed' = (SeriesOf[s] = {})
     \/ /\ pending' = {}      \* ReconcileDimensions returns an error
        /\ failed' = TRUE
  /\ UNCHANGED <<clock, attempts, up, loop, next, failures, incidents, complete>>

\* One series.  What fails after the download has been logged (a decode, a
\* statement) fails the series all the same; a failed validation does not.
IngestSeries(x) ==
  /\ job # NoSource
  /\ x \in pending
  /\ pending' = pending \ {x}
  /\ \/ /\ attempts' = [attempts EXCEPT ![job] = Later(@, started)]
        /\ failed' \in {failed, TRUE}
     \/ /\ failed' = TRUE
        /\ UNCHANGED attempts
  /\ UNCHANGED <<clock, up, loop, job, started, memory, incidents, complete,
                 blind>>

\* Mutant of JobEnds: a failure abandons the rest of the tick.
JobEndsTick(s) ==
  /\ job = s /\ s # NoSource
  /\ pending = {}
  /\ job' = NoSource
  /\ todo' = IF failed THEN {} ELSE todo \ {s}
  /\ started' = Never
  /\ failed' = FALSE
  /\ UNCHANGED <<clock, attempts, up, ticker, tick, pending, seeded, blind>>

JobEnds(s) ==
  /\ job = s /\ s # NoSource
  /\ pending = {}
  /\ job' = NoSource
  /\ todo' = todo \ {s}
  /\ started' = Never
  /\ failed' = FALSE
  /\ UNCHANGED <<clock, attempts, up, ticker, tick, pending, seeded, blind>>

\* Mutant of JobSucceeds: only a restart learns of the success.
JobSucceedsUnremembered(s) ==
  /\ JobEnds(s)
  /\ ~failed
  /\ failures' = [failures EXCEPT ![s] = 0]
  /\ next' = [next EXCEPT ![s] = tick + Interval]
  /\ complete' = [complete EXCEPT ![s] = tick]
  /\ UNCHANGED <<lastSuccess, incidents>>

JobSucceeds(s) ==
  /\ JobEnds(s)
  /\ ~failed
  /\ failures' = [failures EXCEPT ![s] = 0]
  /\ lastSuccess' = [lastSuccess EXCEPT ![s] = tick]
  /\ next' = [next EXCEPT ![s] = tick + Interval]
  /\ complete' = [complete EXCEPT ![s] = tick]
  /\ UNCHANGED incidents

JobFails(s) ==
  /\ JobEnds(s)
  /\ failed
  /\ failures' = [failures EXCEPT ![s] = @ + 1]
  /\ incidents' = IF Resolve(lastSuccess[s], tick) = "failed"
                    THEN [incidents EXCEPT ![s] = tick] ELSE incidents
  /\ next' = [next EXCEPT ![s] = tick + failures'[s] * BackoffUnit]
  /\ UNCHANGED <<lastSuccess, complete>>

Loop ==
  \/ ReceiveTick
  \/ \E s \in Sources : StartJob(s) \/ JobSucceeds(s) \/ JobFails(s)
  \/ \E s \in Sources : \E x \in SeriesOf[s] : IngestSeries(x)

Next ==
  \/ Advance \/ Start \/ Die
  \/ \E s \in ByHand, t \in 1..clock : ManualIngest(s, t)
  \/ Loop

Spec == Init /\ [][Next]_vars

\* The loop goes on, and no job lasts for ever: requests have timeouts and a
\* bounded number of retries.
FairSpec == Spec /\ WF_vars(Loop)

-----------------------------------------------------------------------------
(* Properties *)

Times == 0..MaxTime

\* Every variable has the type its declaration describes.
TypeOK ==
  /\ clock \in Times \ {Never}
  /\ attempts \in [Sources -> Times]
  /\ up \in BOOLEAN
  /\ {ticker, tick, started} \subseteq Times
  /\ todo \subseteq Sources
  /\ job \in Sources \cup {NoSource}
  /\ pending \subseteq UNION {SeriesOf[s] : s \in Sources}
  /\ failed \in BOOLEAN
  /\ lastSuccess \in [Sources -> Times]
  /\ seeded \in [Sources -> BOOLEAN]
  /\ next \in [Sources -> Nat]
  /\ failures \in [Sources -> Nat]
  /\ incidents \in [Sources -> Times]
  /\ complete \in [Sources -> Times]
  /\ blind \subseteq Sources

RaisesIncident(s) == incidents'[s] # incidents[s]

\* However stale its tick and whatever it remembers, the scheduler is never
\* more confident than the database: a job that fails while no download of the
\* source has succeeded within the window raises an incident
\* (scheduler.go:119, pipeline-operations).
NoMissedIncident ==
  [][\A s \in Sources :
       /\ failures'[s] > failures[s]
       /\ Resolve(attempts[s], tick) = "failed"
       => RaisesIncident(s)]_vars

\* No incident says that a source is down for a window in which one of its jobs
\* succeeded completely, not even when serve was restarted since
\* (schedule.go:111).
NoFalseIncident ==
  [][\A s \in Sources :
       RaisesIncident(s) /\ s \notin blind =>
         Resolve(complete[s], tick) = "failed"]_vars

\* A source whose turn has come gets its job, whatever the others of the same
\* tick do, unless serve stops (schedule.go:144).
DueSourcesRun ==
  \A s \in Sources : s \in todo ~> job = s \/ ~up

(* What the comments of the code say and the code does not do *)

\* NewRunner: two failures within an hour "never approach the 24h incident
\* window on their own".  Here every job runs on time: the source fails when its
\* Interval is over and again at the first retry, one BackoffUnit later.
TwoFailuresRaiseNoIncident ==
  [][\A s \in Sources :
       /\ RaisesIncident(s)
       /\ lastSuccess[s] = complete[s] /\ complete[s] # Never
       /\ tick = next[s]
       /\ tick = lastSuccess[s] + Interval + failures[s] * BackoffUnit
       => failures'[s] > 2]_vars

\* A source that is down for the scheduler and one that is stale for the amber
\* of its pages "are never two different facts": when an incident is raised the
\* database says the same, apart from what was downloaded since the job began.
IncidentsAgreeWithAmber ==
  [][\A s \in Sources :
       RaisesIncident(s) /\ s \notin blind /\ attempts[s] < started =>
         Resolve(attempts[s], tick) = "failed"]_vars
=============================================================================
