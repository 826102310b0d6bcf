-------------------------- MODULE SchedulerProofs --------------------------
(***************************************************************************)
(* The alarms of the scheduler, proved for every set of sources and series *)
(* and all durations.                                                      *)
(***************************************************************************)
EXTENDS Scheduler, TLAPS

\* Times are in order: ticks and downloads are not in the future, the tick in
\* the channel is newer than the loop's, and a source that is still to be
\* attempted in this tick has had no incident at it.
TimesInOrder ==
  /\ tick <= clock /\ ticker <= clock /\ started <= clock
  /\ ticker # Never => tick < ticker
  /\ \A s \in Sources :
       /\ attempts[s] <= clock
       /\ incidents[s] <= clock
       /\ ticker # Never => incidents[s] < ticker
       /\ s \in todo => incidents[s] < tick

\* What a running job has done: it belongs to the tick, and as long as no
\* series has failed, a series that is not pending has been downloaded.
JobInOrder ==
  job # NoSource =>
    /\ job \in todo
    /\ seeded[job]
    /\ tick <= started
    /\ pending \subseteq SeriesOf[job]
    /\ ~failed => /\ SeriesOf[job] # {}
                  /\ pending # SeriesOf[job] => started <= attempts[job]

\* What the scheduler remembers was recorded in the database before, and it
\* remembers every complete job unless its lookup failed.
MemoryBehindDatabase ==
  \A s \in Sources :
    /\ lastSuccess[s] <= attempts[s]
    /\ complete[s] <= attempts[s]
    /\ seeded[s] /\ s \notin blind => complete[s] <= lastSuccess[s]

InductiveInvariant ==
  TypeOK /\ TimesInOrder /\ JobInOrder /\ MemoryBehindDatabase

-----------------------------------------------------------------------------

USE DEF Never, Times

LEMMA Durations ==
  /\ Interval \in Nat \ {0} /\ BackoffUnit \in Nat \ {0}
  /\ Window \in Nat \ {0} /\ MaxTime \in Nat \ {0}
BY DurationsAssumption

USE Durations, SourcesAssumption

\* Of the type invariant, what the order of times is about.
LEMMA TimesAreNumbers ==
  ASSUME TypeOK
  PROVE  /\ clock \in Nat /\ ticker \in Nat /\ tick \in Nat /\ started \in Nat
         /\ attempts \in [Sources -> Nat] /\ incidents \in [Sources -> Nat]
         /\ lastSuccess \in [Sources -> Nat] /\ complete \in [Sources -> Nat]
BY DEF TypeOK

LEMMA InitInv == Init => InductiveInvariant
<1>1. SUFFICES ASSUME Init PROVE InductiveInvariant
  OBVIOUS
<1>2. Zeros \in [Sources -> {0}]
  BY DEF Zeros
<1>3. TypeOK
  <2>1. /\ Zeros \in [Sources -> Times] /\ Zeros \in [Sources -> Nat]
        /\ [s \in Sources |-> FALSE] \in [Sources -> BOOLEAN]
        /\ 1 \in Times \ {0} /\ 0 \in Times
    BY <1>2
  <2>2. /\ clock \in Times \ {Never} /\ {ticker, tick, started} \subseteq Times
        /\ attempts \in [Sources -> Times] /\ lastSuccess \in [Sources -> Times]
        /\ incidents \in [Sources -> Times] /\ complete \in [Sources -> Times]
        /\ next \in [Sources -> Nat] /\ failures \in [Sources -> Nat]
    BY <1>1, <2>1 DEF Init
  <2>3. /\ up \in BOOLEAN /\ failed \in BOOLEAN /\ seeded \in [Sources -> BOOLEAN]
        /\ todo \subseteq Sources /\ blind \subseteq Sources
        /\ job \in Sources \cup {NoSource} /\ pending = {}
    BY <1>1, <2>1 DEF Init
  <2>4. QED
    BY <2>2, <2>3 DEF TypeOK
<1>4. TimesInOrder /\ JobInOrder /\ MemoryBehindDatabase
  BY <1>1, <1>2 DEF Init, TimesInOrder, JobInOrder, MemoryBehindDatabase
<1>5. QED
  BY <1>3, <1>4 DEF InductiveInvariant

LEMMA AdvanceInv == InductiveInvariant /\ Advance => InductiveInvariant'
<1>1. SUFFICES ASSUME InductiveInvariant, Advance PROVE InductiveInvariant'
  OBVIOUS
<1> USE <1>1 DEF InductiveInvariant, Advance, memory, running
<1>2. TypeOK'
  BY DEF TypeOK
<1>3. TimesInOrder'
  BY TimesAreNumbers DEF TimesInOrder
<1>4. JobInOrder' /\ MemoryBehindDatabase'
  BY DEF JobInOrder, MemoryBehindDatabase
<1>5. QED
  BY <1>2, <1>3, <1>4

LEMMA StartInv == InductiveInvariant /\ Start => InductiveInvariant'
BY DEF InductiveInvariant, Start, loop, memory, running, TypeOK, TimesInOrder,
   JobInOrder, MemoryBehindDatabase

LEMMA DieInv == InductiveInvariant /\ Die => InductiveInvariant'
<1>1. SUFFICES ASSUME InductiveInvariant, Die PROVE InductiveInvariant'
  OBVIOUS
<1>2. Zeros \in [Sources -> {0}]
  BY DEF Zeros
<1> USE <1>1, <1>2 DEF InductiveInvariant, Die
<1>3. TypeOK'
  <2>1. /\ Zeros \in [Sources -> Times] /\ Zeros \in [Sources -> Nat]
        /\ [s \in Sources |-> FALSE] \in [Sources -> BOOLEAN]
        /\ 0 \in Times
    OBVIOUS
  <2>2. QED
    BY <2>1 DEF TypeOK
<1>4. TimesInOrder' /\ JobInOrder'
  BY DEF TypeOK, TimesInOrder, JobInOrder
<1>5. MemoryBehindDatabase'
  BY DEF TypeOK, MemoryBehindDatabase
<1>6. QED
  BY <1>3, <1>4, <1>5

LEMMA ManualIngestInv ==
  ASSUME InductiveInvariant, NEW s \in ByHand, NEW t \in 1..clock,
         ManualIngest(s, t)
  PROVE  InductiveInvariant'
<1> USE DEF InductiveInvariant, ManualIngest, loop, memory, running, Later
<1>1. t \in Times /\ t <= clock /\ clock \in Nat
  BY DEF TypeOK
<1>2. TypeOK'
  BY <1>1 DEF TypeOK
<1>3. attempts' \in [Sources -> Nat]
  BY <1>2 DEF TypeOK
<1>4. \A u \in Sources : attempts[u] <= attempts'[u] /\ attempts'[u] <= clock
  BY <1>1, <1>3 DEF TypeOK, TimesInOrder
<1>5. TimesInOrder'
  BY <1>4 DEF TypeOK, TimesInOrder
<1>6. JobInOrder'
  BY <1>3, <1>4 DEF TypeOK, JobInOrder
<1>7. MemoryBehindDatabase'
  BY <1>3, <1>4 DEF TypeOK, MemoryBehindDatabase
<1>8. QED
  BY <1>2, <1>5, <1>6, <1>7

LEMMA ReceiveTickInv == InductiveInvariant /\ ReceiveTick => InductiveInvariant'
<1>1. SUFFICES ASSUME InductiveInvariant, ReceiveTick PROVE InductiveInvariant'
  OBVIOUS
<1> USE <1>1 DEF InductiveInvariant, ReceiveTick, memory, running
<1>2. TypeOK'
  BY DEF TypeOK
<1>3. TimesInOrder'
  BY DEF TypeOK, TimesInOrder
<1>4. JobInOrder' /\ MemoryBehindDatabase'
  BY DEF JobInOrder, MemoryBehindDatabase
<1>5. QED
  BY <1>2, <1>3, <1>4

LEMMA StartJobInv ==
  ASSUME InductiveInvariant, NEW s \in Sources, StartJob(s)
  PROVE  InductiveInvariant'
<1> USE DEF InductiveInvariant, StartJob, loop
<1>1. TypeOK'
  <2>1. lastSuccess' \in [Sources -> Times] /\ blind' \subseteq Sources
    BY DEF Seed, TypeOK
  <2>2. seeded' \in [Sources -> BOOLEAN]
    BY DEF Seed, TypeOK
  <2>3. pending' \subseteq UNION {SeriesOf[q] : q \in Sources} /\ failed' \in BOOLEAN
    BY DEF TypeOK
  <2>4. QED
    BY <2>1, <2>2, <2>3 DEF TypeOK
<1>2. TimesInOrder'
  BY DEF TypeOK, TimesInOrder
<1>3. JobInOrder'
  BY DEF TypeOK, TimesInOrder, JobInOrder, Seed
<1>4. MemoryBehindDatabase'
  BY DEF TypeOK, MemoryBehindDatabase, Seed
<1>5. QED
  BY <1>1, <1>2, <1>3, <1>4

LEMMA IngestSeriesInv ==
  ASSUME InductiveInvariant, NEW x, IngestSeries(x)
  PROVE  InductiveInvariant'
<1> USE DEF InductiveInvariant, IngestSeries, loop, memory, Later
<1>1. job \in Sources
  BY DEF TypeOK
<1>2. \/ /\ attempts' = [attempts EXCEPT ![job] = Later(@, started)]
         /\ failed' \in {failed, TRUE}
      \/ /\ attempts' = attempts
         /\ failed' = TRUE
  OBVIOUS
<1>3. TypeOK'
  <2>1. attempts' \in [Sources -> Times]
    BY <1>1 DEF TypeOK
  <2>2. failed' \in BOOLEAN
    BY DEF TypeOK
  <2>3. QED
    BY <2>1, <2>2 DEF TypeOK
<1>4. \A u \in Sources : attempts[u] <= attempts'[u] /\ attempts'[u] <= clock
  <2>1. SUFFICES ASSUME NEW u \in Sources
                 PROVE  attempts[u] <= attempts'[u] /\ attempts'[u] <= clock
    OBVIOUS
  <2>2. /\ attempts[u] \in Nat /\ started \in Nat /\ clock \in Nat
        /\ attempts[u] <= clock /\ started <= clock
    BY TimesAreNumbers DEF TimesInOrder
  <2>3. attempts'[u] = attempts[u] \/ attempts'[u] = Later(attempts[u], started)
    <3>1. attempts \in [Sources -> Nat]
      BY TimesAreNumbers
    <3>2. CASE attempts' = attempts
      BY <3>2
    <3>3. CASE attempts' = [attempts EXCEPT ![job] = Later(@, started)]
      BY <3>1, <3>3
    <3>4. QED
      BY <1>2, <3>2, <3>3
  <2>4. QED
    BY <2>2, <2>3
<1>5. TimesInOrder'
  BY <1>4 DEF TypeOK, TimesInOrder
<1>6. JobInOrder'
  <2>1. attempts'[job] >= started \/ failed'
    <3>1. CASE attempts' = [attempts EXCEPT ![job] = Later(@, started)]
      BY <1>1, <3>1, TimesAreNumbers
    <3>2. QED
      BY <1>2, <3>1
  <2>2. failed' \/ ~failed
    BY DEF TypeOK
  <2>3. QED
    BY <1>1, <2>1, <2>2, TimesAreNumbers DEF JobInOrder
<1>7. MemoryBehindDatabase'
  BY <1>3, <1>4 DEF TypeOK, MemoryBehindDatabase
<1>8. QED
  BY <1>3, <1>5, <1>6, <1>7

LEMMA JobSucceedsInv ==
  ASSUME InductiveInvariant, NEW s \in Sources, JobSucceeds(s)
  PROVE  InductiveInvariant'
<1> USE DEF InductiveInvariant, JobSucceeds, JobEnds
<1>1. TypeOK'
  <2>1. /\ failures' \in [Sources -> Nat] /\ next' \in [Sources -> Nat]
        /\ lastSuccess' \in [Sources -> Times] /\ complete' \in [Sources -> Times]
    <3>1. tick + Interval \in Nat
      BY TimesAreNumbers
    <3>2. QED
      BY <3>1 DEF TypeOK
  <2>2. /\ UNCHANGED <<clock, attempts, up, ticker, tick, pending, seeded, blind,
                      incidents>>
        /\ job' = NoSource /\ todo' \subseteq todo /\ started' = 0
        /\ failed' = FALSE
    OBVIOUS
  <2>3. /\ clock' \in Times \ {Never} /\ {ticker', tick', started'} \subseteq Times
        /\ attempts' \in [Sources -> Times] /\ incidents' \in [Sources -> Times]
    <3>1. 0 \in Times
      OBVIOUS
    <3>2. QED
      BY <2>2, <3>1, Zenon DEF TypeOK
  <2>4. up' \in BOOLEAN /\ failed' \in BOOLEAN /\ seeded' \in [Sources -> BOOLEAN]
    BY <2>2, Zenon DEF TypeOK
  <2>5. /\ todo' \subseteq Sources /\ blind' \subseteq Sources
        /\ job' \in Sources \cup {NoSource}
        /\ pending' \subseteq UNION {SeriesOf[q] : q \in Sources}
    BY <2>2 DEF TypeOK
  <2>6. QED
    BY ONLY <2>1, <2>3, <2>4, <2>5 DEF TypeOK
<1>2. tick <= attempts[s]
  BY DEF TypeOK, JobInOrder
<1>3. TimesInOrder' /\ JobInOrder'
  BY DEF TypeOK, TimesInOrder, JobInOrder
<1>4. MemoryBehindDatabase'
  BY <1>2 DEF TypeOK, MemoryBehindDatabase
<1>5. QED
  BY <1>1, <1>3, <1>4

LEMMA JobFailsInv ==
  ASSUME InductiveInvariant, NEW s \in Sources, JobFails(s)
  PROVE  InductiveInvariant'
<1> USE DEF InductiveInvariant, JobFails, JobEnds
<1>1. TypeOK'
  <2>1. failures' \in [Sources -> Nat]
    BY DEF TypeOK
  <2>2. next' \in [Sources -> Nat]
    <3>1. tick + failures'[s] * BackoffUnit \in Nat
      BY <2>1 DEF TypeOK
    <3>2. QED
      BY <3>1 DEF TypeOK
  <2>3. incidents' \in [Sources -> Times]
    BY DEF TypeOK
  <2>4. /\ UNCHANGED <<clock, attempts, up, ticker, tick, pending, seeded, blind,
                      lastSuccess, complete>>
        /\ job' = NoSource /\ todo' \subseteq todo /\ started' = 0
        /\ failed' = FALSE
    OBVIOUS
  <2>5. /\ clock' \in Times \ {Never} /\ {ticker', tick', started'} \subseteq Times
        /\ attempts' \in [Sources -> Times] /\ lastSuccess' \in [Sources -> Times]
        /\ complete' \in [Sources -> Times]
    <3>1. 0 \in Times
      OBVIOUS
    <3>2. QED
      BY <2>4, <3>1, Zenon DEF TypeOK
  <2>6. up' \in BOOLEAN /\ failed' \in BOOLEAN /\ seeded' \in [Sources -> BOOLEAN]
    BY <2>4, Zenon DEF TypeOK
  <2>7. /\ todo' \subseteq Sources /\ blind' \subseteq Sources
        /\ job' \in Sources \cup {NoSource}
        /\ pending' \subseteq UNION {SeriesOf[q] : q \in Sources}
    BY <2>4 DEF TypeOK
  <2>8. QED
    BY ONLY <2>1, <2>2, <2>3, <2>5, <2>6, <2>7 DEF TypeOK
<1>2. TimesInOrder'
  BY DEF TypeOK, TimesInOrder
<1>3. JobInOrder' /\ MemoryBehindDatabase'
  BY DEF JobInOrder, MemoryBehindDatabase
<1>4. QED
  BY <1>1, <1>2, <1>3

\* The order of times, what a running job has done and what the scheduler
\* remembers hold together, for every interleaving of the loop with the clock,
\* restarts and ingest commands (schedule.go:141).
THEOREM Inductive == Spec => []InductiveInvariant
<1>1. Init => InductiveInvariant
  BY InitInv
<1>2. InductiveInvariant /\ [Next]_vars => InductiveInvariant'
  <2>1. SUFFICES ASSUME InductiveInvariant, [Next]_vars
                 PROVE  InductiveInvariant'
    OBVIOUS
  <2>2. CASE Advance \/ Start \/ Die
    BY <2>1, <2>2, AdvanceInv, StartInv, DieInv
  <2>3. CASE \E s \in ByHand, t \in 1..clock : ManualIngest(s, t)
    BY <2>1, <2>3, ManualIngestInv
  <2>4. CASE Loop
    <3>1. CASE ReceiveTick
      BY <2>1, <3>1, ReceiveTickInv
    <3>2. ASSUME NEW s \in Sources, StartJob(s) \/ JobSucceeds(s) \/ JobFails(s)
          PROVE  InductiveInvariant'
      BY <2>1, <3>2, StartJobInv, JobSucceedsInv, JobFailsInv
    <3>3. ASSUME NEW s \in Sources, NEW x \in SeriesOf[s], IngestSeries(x)
          PROVE  InductiveInvariant'
      BY <2>1, <3>3, IngestSeriesInv
    <3>4. QED
      BY <2>4, <3>1, <3>2, <3>3 DEF Loop
  <2>5. CASE UNCHANGED vars
    BY <2>1, <2>5 DEF vars, loop, running, memory, InductiveInvariant, TypeOK,
       TimesInOrder, JobInOrder, MemoryBehindDatabase
  <2>6. QED
    BY <2>1, <2>2, <2>3, <2>4, <2>5 DEF Next
<1>3. QED
  BY <1>1, <1>2, PTL DEF Spec

\* Every variable keeps the type its declaration describes, whatever the tick
\* the loop works on (schedule.go:141).
THEOREM TypeCorrect == Spec => []TypeOK
<1>1. InductiveInvariant => TypeOK
  BY DEF InductiveInvariant
<1>2. QED
  BY <1>1, Inductive, PTL

-----------------------------------------------------------------------------
(* The two promises of an incident *)

\* Only a job that fails counts a failure or raises an incident.
LEMMA FailuresAreJobs ==
  ASSUME InductiveInvariant, [Next]_vars, NEW s \in Sources,
         failures'[s] > failures[s] \/ RaisesIncident(s)
  PROVE  JobFails(s)
<1>1. CASE Advance \/ Start \/ ReceiveTick \/ UNCHANGED vars
  BY <1>1 DEF InductiveInvariant, TypeOK, RaisesIncident, Advance, Start,
     ReceiveTick, vars, loop, running, memory
<1>2. CASE Die
  BY <1>2 DEF InductiveInvariant, TypeOK, RaisesIncident, Die, Zeros
<1>3. CASE \E q \in ByHand, t \in 1..clock : ManualIngest(q, t)
  BY <1>3 DEF InductiveInvariant, TypeOK, RaisesIncident, ManualIngest, memory
<1>4. ASSUME NEW q \in Sources, StartJob(q) PROVE FALSE
  BY <1>4 DEF InductiveInvariant, TypeOK, RaisesIncident, StartJob
<1>5. ASSUME NEW x, IngestSeries(x) PROVE FALSE
  BY <1>5 DEF InductiveInvariant, TypeOK, RaisesIncident, IngestSeries, memory
<1>6. ASSUME NEW q \in Sources, JobSucceeds(q) PROVE FALSE
  BY <1>6 DEF InductiveInvariant, TypeOK, RaisesIncident, JobSucceeds
<1>7. ASSUME NEW q \in Sources, JobFails(q) PROVE q = s
  <2>1. CASE q # s
    BY <1>7, <2>1 DEF InductiveInvariant, TypeOK, RaisesIncident, JobFails
  <2>2. QED
    BY <2>1
<1>8. QED
  BY <1>1, <1>2, <1>3, <1>4, <1>5, <1>6, <1>7 DEF Next, Loop

LEMMA FailedEarlier ==
  ASSUME NEW t \in Nat, NEW u \in Nat, NEW asOf \in Nat, t <= u,
         Resolve(u, asOf) = "failed"
  PROVE  Resolve(t, asOf) = "failed"
BY DEF Resolve

\* Whatever the scheduler remembers, a job that fails during an outage the
\* database knows of raises an incident (scheduler.go:119).
THEOREM NoMissedIncidentHolds == Spec => NoMissedIncident
<1> DEFINE Raised == \A s \in Sources :
                       /\ failures'[s] > failures[s]
                       /\ Resolve(attempts[s], tick) = "failed"
                       => RaisesIncident(s)
<1>1. InductiveInvariant /\ [Next]_vars => Raised
  <2>1. SUFFICES ASSUME InductiveInvariant, [Next]_vars, NEW s \in Sources,
                        failures'[s] > failures[s],
                        Resolve(attempts[s], tick) = "failed"
                 PROVE  RaisesIncident(s)
    OBVIOUS
  <2>2. JobFails(s)
    BY <2>1, FailuresAreJobs
  <2>3. /\ lastSuccess[s] \in Nat /\ attempts[s] \in Nat /\ tick \in Nat
        /\ lastSuccess[s] <= attempts[s]
    BY <2>1, TimesAreNumbers DEF InductiveInvariant, MemoryBehindDatabase
  <2>4. Resolve(lastSuccess[s], tick) = "failed"
    BY <2>1, <2>3, FailedEarlier
  <2>5. incidents' = [incidents EXCEPT ![s] = tick]
    BY <2>2, <2>4 DEF JobFails
  <2>6. incidents[s] < tick
    BY <2>1, <2>2 DEF JobFails, JobEnds, InductiveInvariant, JobInOrder,
       TimesInOrder
  <2>7. QED
    BY <2>1, <2>3, <2>5, <2>6, TimesAreNumbers
    DEF RaisesIncident, InductiveInvariant
<1>2. QED
  BY <1>1, Inductive, PTL DEF NoMissedIncident, Spec

\* No incident contradicts a complete job within the window, whichever process
\* ran it (schedule.go:111).
THEOREM NoFalseIncidentHolds == Spec => NoFalseIncident
<1> DEFINE Deserved == \A s \in Sources :
                         RaisesIncident(s) /\ s \notin blind =>
                           Resolve(complete[s], tick) = "failed"
<1>1. InductiveInvariant /\ [Next]_vars => Deserved
  <2>1. SUFFICES ASSUME InductiveInvariant, [Next]_vars, NEW s \in Sources,
                        RaisesIncident(s), s \notin blind
                 PROVE  Resolve(complete[s], tick) = "failed"
    OBVIOUS
  <2>2. JobFails(s)
    BY <2>1, FailuresAreJobs
  <2>3. seeded[s]
    BY <2>1, <2>2 DEF JobFails, JobEnds, InductiveInvariant, JobInOrder
  <2>4. /\ lastSuccess[s] \in Nat /\ complete[s] \in Nat /\ tick \in Nat
        /\ complete[s] <= lastSuccess[s]
    BY <2>1, <2>3, TimesAreNumbers DEF InductiveInvariant, MemoryBehindDatabase
  <2>5. Resolve(lastSuccess[s], tick) = "failed"
    BY <2>1, <2>2 DEF JobFails, RaisesIncident
  <2>6. QED
    BY <2>4, <2>5, FailedEarlier
<1>2. QED
  BY <1>1, Inductive, PTL DEF NoFalseIncident, Spec

-----------------------------------------------------------------------------
(* When a source is served again *)

\* What NextAttemptAt was computed from: nothing yet in this process, the tick
\* of the last success, or the tick of the last failure and their number.
Planned(s) ==
  \/ next[s] = Never /\ failures[s] = 0
  \/ /\ seeded[s] /\ failures[s] = 0
     /\ lastSuccess[s] <= tick
     /\ next[s] = lastSuccess[s] + Interval
  \/ /\ seeded[s] /\ failures[s] # 0
     /\ \E t \in 1..tick : next[s] = t + failures[s] * BackoffUnit

\* A source is due at once, one interval after the success the scheduler
\* remembers, or one back-off unit per consecutive failure after a failed job:
\* no source is put off further than that, and none is served earlier
\* (schedule.go:164, scheduler.go:96).
SchedulePlanned == \A s \in Sources : Planned(s)

\* A plan stays one while the clock goes on.
LEMMA PlanStands ==
  ASSUME TypeOK, NEW s \in Sources, Planned(s), tick \in Nat, tick' \in Nat,
         tick <= tick',
         next'[s] = next[s], failures'[s] = failures[s],
         seeded[s] => seeded'[s] /\ lastSuccess'[s] = lastSuccess[s]
  PROVE  Planned(s)'
<1>1. CASE next[s] = Never /\ failures[s] = 0
  BY <1>1 DEF Planned
<1>2. CASE /\ seeded[s] /\ failures[s] = 0
           /\ lastSuccess[s] <= tick
           /\ next[s] = lastSuccess[s] + Interval
  <2>1. lastSuccess'[s] <= tick'
    BY <1>2 DEF TypeOK
  <2>2. QED
    BY <1>2, <2>1 DEF Planned
<1>3. CASE /\ seeded[s] /\ failures[s] # 0
           /\ \E t \in 1..tick : next[s] = t + failures[s] * BackoffUnit
  <2>1. PICK t \in 1..tick : next[s] = t + failures[s] * BackoffUnit
    BY <1>3
  <2>2. t \in 1..tick'
    BY <2>1
  <2>3. next'[s] = t + failures'[s] * BackoffUnit
    BY <2>1
  <2>4. QED
    BY <1>3, <2>2, <2>3 DEF Planned
<1>4. QED
  BY <1>1, <1>2, <1>3 DEF Planned

\* The plan is made anew when the job of the source ends.
LEMMA PlanMade ==
  ASSUME InductiveInvariant, NEW s \in Sources, JobSucceeds(s) \/ JobFails(s)
  PROVE  Planned(s)'
<1>1. /\ seeded[s] /\ seeded' = seeded /\ tick' = tick /\ tick \in Nat
      /\ s \in todo /\ incidents[s] \in Nat /\ incidents[s] < tick
      /\ failures \in [Sources -> Nat] /\ next \in [Sources -> Nat]
      /\ lastSuccess \in [Sources -> Nat]
  BY TimesAreNumbers
  DEF JobSucceeds, JobFails, JobEnds, InductiveInvariant, JobInOrder, TimesInOrder,
      TypeOK
<1>2. tick \in 1..tick
  BY <1>1
<1>3. CASE JobSucceeds(s)
  <2>1. /\ failures'[s] = 0 /\ lastSuccess'[s] = tick
        /\ next'[s] = tick + Interval
    BY <1>1, <1>3 DEF JobSucceeds
  <2>2. QED
    BY <1>1, <2>1 DEF Planned
<1>4. CASE JobFails(s)
  <2>1. /\ failures'[s] = failures[s] + 1
        /\ next'[s] = tick + failures'[s] * BackoffUnit
    BY <1>1, <1>4 DEF JobFails
  <2>2. failures'[s] # 0
    BY <1>1, <2>1
  <2>3. QED
    BY <1>1, <1>2, <2>1, <2>2 DEF Planned
<1>5. QED
  BY <1>3, <1>4

\* No source is put off beyond its interval or its back-off, and none is served
\* before, whatever ticks were dropped and whichever jobs were long
\* (schedule.go:164, scheduler.go:96).
THEOREM SchedulePlannedHolds == Spec => []SchedulePlanned
<1>1. Init => SchedulePlanned
  BY DEF Init, Zeros, SchedulePlanned, Planned
<1>2. InductiveInvariant /\ SchedulePlanned /\ [Next]_vars => SchedulePlanned'
  <2>1. SUFFICES ASSUME InductiveInvariant, SchedulePlanned, [Next]_vars,
                        NEW s \in Sources
                 PROVE  Planned(s)'
    BY DEF SchedulePlanned
  <2>2. TypeOK /\ Planned(s) /\ tick \in Nat /\ clock \in Nat /\ ticker \in Nat
    BY <2>1, TimesAreNumbers DEF InductiveInvariant, SchedulePlanned
  <2>3. CASE UNCHANGED <<memory, tick>>
    BY <2>2, <2>3, PlanStands DEF memory
  <2>4. CASE Die
    BY <2>4 DEF Die, Zeros, Planned
  <2>5. CASE ReceiveTick
    <3>1. tick < ticker /\ tick' = ticker
      BY <2>1, <2>5 DEF ReceiveTick, InductiveInvariant, TimesInOrder
    <3>2. tick <= tick'
      BY <2>2, <3>1
    <3>3. QED
      BY <2>2, <2>5, <3>1, <3>2, PlanStands DEF ReceiveTick, memory
  <2>6. ASSUME NEW q \in Sources, StartJob(q) PROVE Planned(s)'
    <3>1. /\ tick' = tick /\ next' = next /\ failures' = failures
          /\ seeded[s] => seeded'[s] /\ lastSuccess'[s] = lastSuccess[s]
      BY <2>2, <2>6 DEF StartJob, Seed, loop, TypeOK
    <3>2. tick <= tick'
      BY <2>2, <3>1
    <3>3. QED
      BY <2>2, <3>1, <3>2, PlanStands
  <2>7. ASSUME NEW q \in Sources, JobSucceeds(q) \/ JobFails(q) PROVE Planned(s)'
    <3>1. CASE q = s
      BY <2>1, <2>7, <3>1, PlanMade
    <3>2. CASE q # s
      <4>1. /\ tick' = tick /\ next'[s] = next[s] /\ failures'[s] = failures[s]
            /\ seeded' = seeded /\ lastSuccess'[s] = lastSuccess[s]
        BY <2>2, <2>7, <3>2 DEF JobSucceeds, JobFails, JobEnds, TypeOK
      <4>2. tick <= tick'
        BY <2>2, <4>1
      <4>3. QED
        BY <2>2, <4>1, <4>2, PlanStands
    <3>3. QED
      BY <3>1, <3>2
  <2>8. CASE \/ Advance \/ Start \/ UNCHANGED vars
             \/ \E q \in ByHand, t \in 1..clock : ManualIngest(q, t)
             \/ \E q \in Sources : \E x \in SeriesOf[q] : IngestSeries(x)
    BY <2>3, <2>8 DEF Advance, Start, ManualIngest, IngestSeries, vars, loop
  <2>9. QED
    BY <2>1, <2>4, <2>5, <2>6, <2>7, <2>8 DEF Next, Loop
<1>3. QED
  BY <1>1, <1>2, Inductive, PTL DEF Spec

-----------------------------------------------------------------------------
(* A tick ends *)

\* A source whose turn has come waits until its own job ends, or serve does.
StaysDue ==
  \A s \in todo : s \in todo' \/ (job = s /\ JobEnds(s)) \/ ~up'

\* The work of a tick: a job that starts is of a source that waits, a job in
\* hand has one series less to ingest, a job that ends is one source less.
TickShrinks ==
  Loop /\ ~ReceiveTick =>
    \/ job = NoSource /\ job' \in todo /\ todo' = todo
    \/ /\ job # NoSource /\ job' = job /\ todo' = todo
       /\ pending' # pending /\ pending' \subseteq pending
    \/ job \in todo /\ job' = NoSource /\ todo' = todo \ {job}

\* One source after another is served, and none is left out, whichever jobs of
\* the tick fail: between two ticks the loop only gets nearer to its end
\* (schedule.go:144).
THEOREM TicksServeEverySource == Spec => [][StaysDue /\ TickShrinks]_vars
<1>1. InductiveInvariant /\ [Next]_vars => StaysDue
  <2>1. SUFFICES ASSUME [Next]_vars, NEW s \in todo,
                        ~(job = s /\ JobEnds(s)), up'
                 PROVE  s \in todo'
    BY DEF StaysDue
  <2>2. CASE Advance \/ Start \/ Die \/ ReceiveTick \/ UNCHANGED vars
    BY <2>1, <2>2 DEF Advance, Start, Die, ReceiveTick, vars, loop
  <2>3. CASE \E q \in ByHand, t \in 1..clock : ManualIngest(q, t)
    BY <2>1, <2>3 DEF ManualIngest, loop
  <2>4. ASSUME NEW q \in Sources,
               \/ StartJob(q) \/ JobSucceeds(q) \/ JobFails(q)
               \/ \E x \in SeriesOf[q] : IngestSeries(x)
        PROVE  s \in todo'
    BY <2>1, <2>4 DEF StartJob, JobSucceeds, JobFails, JobEnds, IngestSeries, loop
  <2>5. QED
    BY <2>1, <2>2, <2>3, <2>4 DEF Next, Loop
<1>2. InductiveInvariant /\ [Next]_vars => TickShrinks
  <2>1. SUFFICES ASSUME InductiveInvariant, Loop, ~ReceiveTick
                 PROVE  \/ job = NoSource /\ job' \in todo /\ todo' = todo
                        \/ /\ job # NoSource /\ job' = job /\ todo' = todo
                           /\ pending' # pending /\ pending' \subseteq pending
                        \/ job \in todo /\ job' = NoSource /\ todo' = todo \ {job}
    BY DEF TickShrinks
  <2>2. ASSUME NEW s \in Sources, StartJob(s)
        PROVE  job = NoSource /\ job' \in todo /\ todo' = todo
    BY <2>2 DEF StartJob, loop
  <2>3. ASSUME NEW s \in Sources, JobSucceeds(s) \/ JobFails(s)
        PROVE  job \in todo /\ job' = NoSource /\ todo' = todo \ {job}
    BY <2>1, <2>3 DEF JobSucceeds, JobFails, JobEnds, InductiveInvariant, JobInOrder
  <2>4. ASSUME NEW x, IngestSeries(x)
        PROVE  /\ job # NoSource /\ job' = job /\ todo' = todo
               /\ pending' # pending /\ pending' \subseteq pending
    BY <2>4 DEF IngestSeries, loop
  <2>5. QED
    BY <2>1, <2>2, <2>3, <2>4 DEF Loop
<1>3. QED
  BY <1>1, <1>2, Inductive, PTL DEF Spec
=============================================================================
