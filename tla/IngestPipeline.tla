--------------------------- MODULE IngestPipeline ---------------------------
(***************************************************************************)
(* ingestion.IngestSeries for one series, statement by statement.          *)
(*                                                                         *)
(* A call is one invocation: by the scheduler inside serve or by the       *)
(* ingest command, so calls overlap; what they share is the disk archive   *)
(* and the database.  Every statement commits on its own, so a call that   *)
(* returns an error, or whose process dies, leaves all that it had written.*)
(* WriteRevision and RollbackRun are the atomic steps of VintageStore,     *)
(* which ObservationStore implements.                                      *)
(*                                                                         *)
(* Payloads are the byte strings the source may answer with (they stand    *)
(* for their SHA-256 hashes too).                                          *)
(***************************************************************************)
EXTENDS ValidationRules, Sequences

CONSTANTS
  Calls,          \* invocations; the run row of a call is named after it
  Payloads,       \* bytes
  Decode,         \* for the payloads that decode, the observations they hold
  Periods,        \* periods of the series
  Values,         \* numbers
  NoValue,        \* an observation the source lists without a value
  NoPayload,
  DocumentedGaps, \* periods allowed to be missing
  MaxBackward     \* how far back a revision may reach

Contents == Values \cup {NoValue}
Vintages == UNION {[S -> Contents] : S \in SUBSET Periods}

\* Any set of periods, there being finitely many, has a latest one.
ASSUME PeriodsAssumption ==
  /\ Periods \subseteq Nat
  /\ \A S \in SUBSET Periods : S # {} => \E p \in S : \A q \in S : q <= p
ASSUME DecodeAssumption ==
  /\ DOMAIN Decode \subseteq Payloads
  /\ \A p \in DOMAIN Decode : Decode[p] \in Vintages
ASSUME NoPayloadAssumption == NoPayload \notin Payloads
ASSUME NoValueAssumption == NoValue \notin Values
ASSUME MaxBackwardAssumption == MaxBackward \in Nat \ {0}

VARIABLES
  pc,       \* per call, the statement it executes next
  payload,  \* per call, the bytes fetched
  prior,    \* per call, the published vintage as it read it
  left,     \* per call, the candidates not written yet
  isNew,    \* per call, whether it inserted the raw_file row
  files,    \* payloads on disk
  rawFiles, \* raw_file rows
  attempts, \* per call, the outcome of its download_attempt row
  runs,     \* ingestion_run rows: their raw_file_hash and outcome
  chain, standing \* the observation table

store == <<chain, standing>>
rows == <<files, rawFiles, attempts, runs, store>>
vars == <<pc, payload, prior, left, isNew, rows>>

Store == INSTANCE VintageStore
           WITH Keys <- Periods, Contents <- Values, Runs <- Calls

Ended == {"done", "failed", "refused", "stopped"}
Stages == {"fetch", "recordFailure", "putFile", "recordFile", "recordAttempt",
           "publishListing", "createRun", "decode", "gate", "publish"} \cup Ended
AttemptOutcomes == {"none", "new-file", "unchanged", "failure"}
RunOutcomes == {"pending", "succeeded", "validation-failed"}

Init ==
  /\ pc = [c \in Calls |-> "fetch"]
  /\ payload = [c \in Calls |-> NoPayload]
  /\ prior = [c \in Calls |-> <<>>]
  /\ left = [c \in Calls |-> {}]
  /\ isNew = [c \in Calls |-> FALSE]
  /\ files = {}
  /\ rawFiles = {}
  /\ attempts = [c \in Calls |-> "none"]
  /\ runs = [c \in {} |-> NoPayload]
  /\ Store!Init

Goto(c, stage) == pc' = [pc EXCEPT ![c] = stage]

\* The published vintage.
Current == [k \in {q \in Periods : standing[q] > 0} |->
              chain[k][standing[k]].content]

-----------------------------------------------------------------------------
(* Fetching and archiving *)

Fetch(c, p) ==
  /\ pc[c] = "fetch"
  /\ payload' = [payload EXCEPT ![c] = p]
  /\ Goto(c, "putFile")
  /\ UNCHANGED <<prior, left, isNew, rows>>

FetchFails(c) ==
  /\ pc[c] = "fetch"
  /\ Goto(c, "recordFailure")
  /\ UNCHANGED <<payload, prior, left, isNew, rows>>

\* Mutant of RecordFailedAttempt: a failed check is logged as unchanged.
FailedAttemptAsUnchanged(c) ==
  /\ pc[c] = "recordFailure"
  /\ attempts' = [attempts EXCEPT ![c] = "unchanged"]
  /\ Goto(c, "failed")
  /\ UNCHANGED <<payload, prior, left, isNew, files, rawFiles, runs, store>>

RecordFailedAttempt(c) ==
  /\ pc[c] = "recordFailure"
  /\ attempts' = [attempts EXCEPT ![c] = "failure"]
  /\ Goto(c, "failed")
  /\ UNCHANGED <<payload, prior, left, isNew, files, rawFiles, runs, store>>

\* Mutant of PutFile: the bytes may not be on disk when it returns.
PutFileLater(c) ==
  /\ pc[c] = "putFile"
  /\ files' \in {files, files \cup {payload[c]}}
  /\ Goto(c, "recordFile")
  /\ UNCHANGED <<payload, prior, left, isNew, rawFiles, attempts, runs, store>>

\* A temporary file is renamed into place: the file is there whole or not at
\* all, and is never written twice.
PutFile(c) ==
  /\ pc[c] = "putFile"
  /\ files' = files \cup {payload[c]}
  /\ Goto(c, "recordFile")
  /\ UNCHANGED <<payload, prior, left, isNew, rawFiles, attempts, runs, store>>

\* Mutant of RecordRawFile: ON CONFLICT DO UPDATE, so a row is always affected.
RecordRawFileUpsert(c) ==
  /\ pc[c] = "recordFile"
  /\ isNew' = [isNew EXCEPT ![c] = TRUE]
  /\ rawFiles' = rawFiles \cup {payload[c]}
  /\ Goto(c, "recordAttempt")
  /\ UNCHANGED <<payload, prior, left, files, attempts, runs, store>>

\* INSERT ... ON CONFLICT (hash) DO NOTHING.
RecordRawFile(c) ==
  /\ pc[c] = "recordFile"
  /\ isNew' = [isNew EXCEPT ![c] = payload[c] \notin rawFiles]
  /\ rawFiles' = rawFiles \cup {payload[c]}
  /\ Goto(c, "recordAttempt")
  /\ UNCHANGED <<payload, prior, left, files, attempts, runs, store>>

RecordAttempt(c) ==
  /\ pc[c] = "recordAttempt"
  /\ attempts' = [attempts EXCEPT
                    ![c] = IF isNew[c] THEN "new-file" ELSE "unchanged"]
  /\ Goto(c, "publishListing")
  /\ UNCHANGED <<payload, prior, left, isNew, files, rawFiles, runs, store>>

\* The listing is written from raw_file to two files of its own.
PublishListing(c) ==
  /\ pc[c] = "publishListing"
  /\ Goto(c, "createRun")
  /\ UNCHANGED <<payload, prior, left, isNew, rows>>

-----------------------------------------------------------------------------
(* The run and its gate *)

CreateRun(c) ==
  /\ pc[c] = "createRun"
  /\ runs' = [d \in DOMAIN runs \cup {c} |->
                IF d = c THEN [hash |-> payload[c], outcome |-> "pending"]
                         ELSE runs[d]]
  /\ Goto(c, "decode")
  /\ UNCHANGED <<payload, prior, left, isNew, files, rawFiles, attempts, store>>

\* Mutant of RecordOutcome: the UPDATE finds no row and nobody notices.
OutcomeLost(c, outcome) ==
  UNCHANGED <<payload, prior, isNew, files, rawFiles, attempts, runs, store>>

RecordOutcome(c, outcome) ==
  /\ runs' = [runs EXCEPT ![c].outcome = outcome]
  /\ UNCHANGED <<payload, prior, isNew, files, rawFiles, attempts, store>>

\* The bytes do not decode: the run is blocked, the call returns the error.
DecodeFails(c) ==
  /\ pc[c] = "decode"
  /\ payload[c] \notin DOMAIN Decode
  /\ RecordOutcome(c, "validation-failed")
  /\ Goto(c, "failed")
  /\ UNCHANGED left

ReadPrior(c) ==
  /\ pc[c] = "decode"
  /\ payload[c] \in DOMAIN Decode
  /\ prior' = [prior EXCEPT ![c] = Current]
  /\ Goto(c, "gate")
  /\ UNCHANGED <<payload, left, isNew, rows>>

Incoming(c) == Decode[payload[c]]

\* Rules 1, 3 and 5, which are not modelled, may block any payload.
Block(c) ==
  /\ pc[c] = "gate"
  /\ RecordOutcome(c, "validation-failed")
  /\ Goto(c, "done")
  /\ UNCHANGED left

\* Mutant of Publish: nobody looks at the verdict.
PublishUnchecked(c) ==
  /\ pc[c] = "gate"
  /\ left' = [left EXCEPT ![c] = DOMAIN Incoming(c)]
  /\ Goto(c, "publish")
  /\ UNCHANGED <<payload, prior, isNew, rows>>

Publish(c) ==
  /\ pc[c] = "gate"
  /\ Passes(prior[c], Incoming(c), DocumentedGaps, MaxBackward)
  /\ left' = [left EXCEPT ![c] = DOMAIN Incoming(c)]
  /\ Goto(c, "publish")
  /\ UNCHANGED <<payload, prior, isNew, rows>>

Written(c, k) == left' = [left EXCEPT ![c] = @ \ {k}]

\* The candidate equals the published value, or becomes the next vintage.
WriteCandidate(c, k) ==
  /\ pc[c] = "publish"
  /\ k \in left[c]
  /\ \/ /\ k \in DOMAIN Current
        /\ Current[k] = Incoming(c)[k]
        /\ UNCHANGED store
     \/ Store!Revise(k, Incoming(c)[k], c)
  /\ Incoming(c)[k] # NoValue
  /\ Written(c, k)
  /\ UNCHANGED <<pc, payload, prior, isNew, files, rawFiles, attempts, runs>>

Frozen(k) == standing[k] < Len(chain[k])

\* Mutant of CandidateRefused: the loop goes on to the next candidate.
CandidateSkipped(c, k) ==
  /\ pc[c] = "publish"
  /\ k \in left[c]
  /\ k \in DOMAIN Current => Current[k] # Incoming(c)[k]
  /\ Incoming(c)[k] = NoValue \/ Frozen(k)
  /\ Written(c, k)
  /\ UNCHANGED <<pc, payload, prior, isNew, rows>>

\* The insert is refused: by CHECK (value IS NOT NULL OR status = 'W'), every
\* candidate being definitive; or by the primary key, after a rollback.
CandidateRefused(c, k) ==
  /\ pc[c] = "publish"
  /\ k \in left[c]
  /\ k \in DOMAIN Current => Current[k] # Incoming(c)[k]
  /\ Incoming(c)[k] = NoValue \/ Frozen(k)
  /\ Goto(c, "refused")
  /\ UNCHANGED <<payload, prior, left, isNew, rows>>

RecordSuccess(c) ==
  /\ pc[c] = "publish"
  /\ left[c] = {}
  /\ RecordOutcome(c, "succeeded")
  /\ Goto(c, "done")
  /\ UNCHANGED left

-----------------------------------------------------------------------------
(* What goes wrong, and what else happens to the table *)

\* A file operation or a statement returns an error, or the process dies.
Stop(c) ==
  /\ pc[c] \notin Ended
  /\ Goto(c, "stopped")
  /\ UNCHANGED <<payload, prior, left, isNew, rows>>

\* An operator rolls run r back.
RollBack(r) ==
  LET K == {k \in DOMAIN Current : chain[k][standing[k]].run = r}
  IN  /\ K # {}
      /\ Store!RollBack(r, K)
      /\ UNCHANGED <<pc, payload, prior, left, isNew, files, rawFiles, attempts,
                     runs>>

-----------------------------------------------------------------------------

Step(c) ==
  \/ FetchFails(c) \/ RecordFailedAttempt(c)
  \/ \E p \in Payloads : Fetch(c, p)
  \/ PutFile(c) \/ RecordRawFile(c) \/ RecordAttempt(c) \/ PublishListing(c)
  \/ CreateRun(c) \/ DecodeFails(c) \/ ReadPrior(c)
  \/ Block(c) \/ Publish(c)
  \/ \E k \in Periods : WriteCandidate(c, k) \/ CandidateRefused(c, k)
  \/ RecordSuccess(c)

Next ==
  \/ \E c \in Calls : Step(c) \/ Stop(c)
  \/ \E r \in Calls : RollBack(r)

Spec == Init /\ [][Next]_vars

\* A call whose process lives goes on to its next statement.
FairSpec == Spec /\ \A c \in Calls : WF_vars(Step(c))

-----------------------------------------------------------------------------
(* Properties *)

Vintage(k) == {chain[k][v] : v \in 1..Len(chain[k])}

\* Every variable has the type its declaration describes.
TypeOK ==
  /\ pc \in [Calls -> Stages]
  /\ payload \in [Calls -> Payloads \cup {NoPayload}]
  /\ prior \in [Calls -> Vintages]
  /\ left \in [Calls -> SUBSET Periods]
  /\ isNew \in [Calls -> BOOLEAN]
  /\ files \subseteq Payloads
  /\ rawFiles \subseteq Payloads
  /\ attempts \in [Calls -> AttemptOutcomes]
  /\ DOMAIN runs \subseteq Calls
  /\ runs \in [DOMAIN runs -> [hash : Payloads, outcome : RunOutcomes]]
  /\ Store!TypeOK

\* The chain of provenance resolves for every vintage ever published, whenever
\* a call stopped and whatever overlapped: its run has a row, the run's raw
\* file has a row and is on disk, and those bytes say what the vintage says
\* (ingest.go:109, provenance.go:27).
Traceable ==
  \A k \in Periods : \A w \in Vintage(k) :
    /\ w.run \in DOMAIN runs
    /\ LET hash == runs[w.run].hash
       IN  /\ hash \in rawFiles \cap files \cap DOMAIN Decode
           /\ k \in DOMAIN Decode[hash]
           /\ w.content = Decode[hash][k]

\* A run exists only for a download that was archived and logged, and a logged
\* download or a raw_file row always has its bytes on disk: a crash between
\* two of these statements loses the later record, never the earlier one
\* (rawfile.go:9).
ArchivedThenLoggedThenRun ==
  /\ rawFiles \subseteq files
  /\ \A c \in Calls :
       attempts[c] \in {"new-file", "unchanged"} => payload[c] \in rawFiles
  /\ \A c \in DOMAIN runs :
       /\ attempts[c] \in {"new-file", "unchanged"}
       /\ runs[c].hash = payload[c]

\* Exactly one call may log given bytes as a new file, however many download
\* them at once; another logs them as unchanged only after it
\* (rawfile.go:16).
NewFileOnce ==
  /\ \A p \in rawFiles : \E c \in Calls :
       /\ payload[c] = p /\ isNew[c]
       /\ \A d \in Calls : payload[d] = p /\ isNew[d] => d = c
  /\ \A c \in Calls : attempts[c] = "new-file" => isNew[c]

\* The outcome of a run can be believed, whatever ran beside it: a run recorded
\* as succeeded has each of its values in the chain, its own or an equal one,
\* and a run recorded as blocked has none (gate.go:120).
OutcomeTellsPublication ==
  \A c \in DOMAIN runs :
    /\ runs[c].outcome = "succeeded" =>
         \A k \in DOMAIN Incoming(c) :
           \E w \in Vintage(k) : w.content = Incoming(c)[k]
    /\ runs[c].outcome = "validation-failed" =>
         \A k \in Periods : \A w \in Vintage(k) : w.run # c

\* A revision deeper than the window is published without a sign-off only by a
\* call whose verdict was out of date: the published vintage, apart from what
\* the call itself wrote, is no longer the one the rules were given
\* (ingest.go:218, ingest.go:254).
Deep(k) ==
  /\ k \in DOMAIN Current
  /\ LatestPeriod(DOMAIN Current) - k >= MaxBackward
Overtaken(c) ==
  \E k \in DOMAIN Current :
    /\ chain[k][standing[k]].run # c
    /\ k \notin DOMAIN prior[c] \/ prior[c][k] # Current[k]
DeepRevisionsOnlyWhenOvertaken ==
  [][\A k \in Periods :
       Len(chain'[k]) > Len(chain[k]) /\ Deep(k) =>
         Overtaken(chain'[k][Len(chain'[k])].run)]_vars

\* A run row does not stay pending under a call that goes on: it gets its
\* outcome, or the call has stopped with an error (gate.go:42).
RunsAreDecided ==
  \A c \in Calls :
    c \in DOMAIN runs ~>
      \/ c \in DOMAIN runs /\ runs[c].outcome # "pending"
      \/ pc[c] \in Ended \ {"done"}

(* What the documents of the code say and the code does not do *)

\* data-model-vintages: a source withdrawing a period MUST be recorded as a new
\* version.  A publication that passed the rules is refused only where a
\* rollback has frozen a period.
WithdrawalsAreRecorded ==
  [][\A c \in Calls :
       pc[c] = "publish" /\ pc'[c] = "refused" =>
         \E k \in left[c] : Frozen(k)]_vars
=============================================================================
