------------------------ MODULE IngestPipelineProofs ------------------------
(***************************************************************************)
(* What the pipeline leaves behind, proved for every set of overlapping    *)
(* calls, every payload and every series.                                  *)
(***************************************************************************)
EXTENDS IngestPipeline, FiniteSetTheorems, TLAPS

Unlogged == {"fetch", "recordFailure", "putFile", "recordFile"}
Logged == {"new-file", "unchanged"}
InRun == {"decode", "gate", "publish"}

\* What a call has written when it comes to a statement.  A call that ended
\* may have written any of it.
CallRecords(c) ==
  /\ pc[c] \in {"putFile", "recordFile", "recordAttempt"} => payload[c] \in Payloads
  /\ pc[c] = "recordFile" => payload[c] \in files
  /\ pc[c] = "recordAttempt" => payload[c] \in rawFiles
  /\ pc[c] \in Unlogged => ~isNew[c]
  /\ pc[c] \in Unlogged \cup {"recordAttempt"} => attempts[c] = "none"
  /\ pc[c] \in Unlogged \cup {"recordAttempt", "publishListing", "createRun"} =>
       c \notin DOMAIN runs
  /\ pc[c] \in {"publishListing", "createRun"} => attempts[c] \in Logged
  /\ pc[c] \in InRun => c \in DOMAIN runs /\ runs[c].outcome = "pending"

\* How the records of a call lean on each other, for good.
CallTrail(c) ==
  /\ isNew[c] => payload[c] \in rawFiles
  /\ attempts[c] = "new-file" => isNew[c]
  /\ attempts[c] \in Logged => payload[c] \in rawFiles
  /\ c \in DOMAIN runs => attempts[c] \in Logged /\ runs[c].hash = payload[c]

Archive ==
  /\ rawFiles \subseteq files
  /\ \A c, d \in Calls :
       isNew[c] /\ isNew[d] /\ payload[c] = payload[d] => c = d
  /\ \A p \in rawFiles : \E c \in Calls : payload[c] = p /\ isNew[c]

RecordsInv ==
  /\ Archive
  /\ \A c \in Calls : CallRecords(c)
  /\ \A c \in Calls : CallTrail(c)

\* The value of period k in the payload of c is in the chain.
InChain(c, k) == \E w \in Vintage(k) : w.content = Incoming(c)[k]

CallPublication(c) ==
  /\ pc[c] \in {"gate", "publish"} => payload[c] \in DOMAIN Decode
  /\ pc[c] = "publish" =>
       /\ left[c] \subseteq DOMAIN Incoming(c)
       /\ \A k \in DOMAIN Incoming(c) \ left[c] : InChain(c, k)
  /\ c \in DOMAIN runs /\ runs[c].outcome = "succeeded" =>
       /\ payload[c] \in DOMAIN Decode
       /\ \A k \in DOMAIN Incoming(c) : InChain(c, k)

\* A vintage comes from a call that has passed the gate.
FromPayload(k, w) ==
  /\ w.run \in DOMAIN runs
  /\ runs[w.run].outcome # "validation-failed"
  /\ pc[w.run] \notin {"decode", "gate"}
  /\ payload[w.run] \in DOMAIN Decode
  /\ k \in DOMAIN Incoming(w.run)
  /\ w.content = Incoming(w.run)[k]

PublicationInv ==
  /\ \A c \in Calls : CallPublication(c)
  /\ \A k \in Periods : \A w \in Vintage(k) : FromPayload(k, w)

\* What stands is a prefix of the chain.
StandingInv == \A k \in Periods : standing[k] <= Len(chain[k])

\* Whoever publishes was let through.
VerdictInv ==
  \A c \in Calls : pc[c] = "publish" =>
    Passes(prior[c], Incoming(c), DocumentedGaps, MaxBackward)

InductiveInvariant ==
  TypeOK /\ StandingInv /\ RecordsInv /\ PublicationInv /\ VerdictInv

-----------------------------------------------------------------------------

LEMMA InitInv == Init => InductiveInvariant
<1>1. SUFFICES ASSUME Init PROVE InductiveInvariant
  OBVIOUS
<1>2. TypeOK
  <2>1. <<>> \in Vintages
    <3>1. {} \in SUBSET Periods
      OBVIOUS
    <3>2. <<>> \in [{} -> Contents]
      OBVIOUS
    <3>3. QED
      BY <3>1, <3>2 DEF Vintages
  <2>2. Store!TypeOK
    BY <1>1 DEF Init, Store!Init, Store!TypeOK
  <2>3. QED
    BY <1>1, <2>1, <2>2
    DEF Init, TypeOK, Stages, Ended, AttemptOutcomes, RunOutcomes
<1>3. RecordsInv
  BY <1>1 DEF Init, RecordsInv, Archive, CallRecords, CallTrail, Unlogged, InRun,
     Logged
<1>4. PublicationInv
  <2>1. \A k \in Periods : Vintage(k) = {}
    BY <1>1 DEF Init, Store!Init, Vintage
  <2>2. QED
    BY <1>1, <2>1 DEF Init, PublicationInv, CallPublication
<1>5. StandingInv
  BY <1>1 DEF Init, Store!Init, StandingInv
<1>6. VerdictInv
  BY <1>1 DEF Init, VerdictInv
<1>7. QED
  BY <1>2, <1>3, <1>4, <1>5, <1>6 DEF InductiveInvariant

-----------------------------------------------------------------------------
(* Types *)

\* A payload that decodes holds a vintage.
LEMMA DecodedIsVintage ==
  ASSUME NEW p \in DOMAIN Decode
  PROVE  /\ p \in Payloads
         /\ DOMAIN Decode[p] \subseteq Periods
         /\ \A k \in DOMAIN Decode[p] : Decode[p][k] \in Contents
BY DecodeAssumption DEF Vintages

LEMMA CurrentIsVintage ==
  ASSUME TypeOK, StandingInv PROVE Current \in Vintages
<1> DEFINE S == {q \in Periods : standing[q] > 0}
<1>1. \A k \in S : chain[k][standing[k]].content \in Contents
  <2>1. SUFFICES ASSUME NEW k \in S PROVE chain[k][standing[k]].content \in Contents
    OBVIOUS
  <2> DEFINE V == [content : Values, run : Calls]
  <2>2. /\ chain \in [Periods -> Seq(V)] /\ standing \in [Periods -> Nat]
        /\ k \in Periods /\ standing[k] > 0
    BY DEF TypeOK, Store!TypeOK, Store!Vintage
  <2>3. \A v \in V : v.content \in Contents
    BY DEF Contents
  <2> HIDE DEF V
  <2>4. chain[k] \in Seq(V) /\ standing[k] \in 1..Len(chain[k])
    BY <2>2 DEF StandingInv
  <2>5. QED
    BY <2>3, <2>4
<1>2. Current \in [S -> Contents]
  BY <1>1 DEF Current
<1>3. S \in SUBSET Periods
  OBVIOUS
<1>4. QED
  BY <1>2, <1>3 DEF Vintages

LEMMA ReviseStep ==
  ASSUME TypeOK, StandingInv, NEW k \in Periods, NEW x \in Values, NEW c \in Calls,
         Store!Revise(k, x, c)
  PROVE  /\ Store!TypeOK' /\ StandingInv'
         /\ \A q \in Periods \ {k} : Vintage(q)' = Vintage(q)
         /\ Vintage(k)' = Vintage(k) \cup {[content |-> x, run |-> c]}
<1> DEFINE w == [content |-> x, run |-> c]
<1> DEFINE V == [content : Values, run : Calls]
<1>1. chain \in [Periods -> Seq(V)] /\ standing \in [Periods -> Nat]
  BY DEF TypeOK, Store!TypeOK, Store!Vintage
<1>2. /\ chain' = [chain EXCEPT ![k] = Append(chain[k], w)]
      /\ standing' = [standing EXCEPT ![k] = standing[k] + 1]
  BY DEF Store!Revise
<1>3. w \in V
  OBVIOUS
<1>4. Store!TypeOK' <=> chain' \in [Periods -> Seq(V)] /\ standing' \in [Periods -> Nat]
  BY DEF Store!TypeOK, Store!Vintage
<1> HIDE DEF w, V
<1>5. chain' \in [Periods -> Seq(V)] /\ standing' \in [Periods -> Nat]
  BY <1>1, <1>2, <1>3
<1>6. /\ chain'[k] = Append(chain[k], w)
      /\ \A q \in Periods \ {k} : chain'[q] = chain[q]
  BY <1>1, <1>2
<1>7. /\ Len(chain'[k]) = Len(chain[k]) + 1
      /\ chain'[k][Len(chain[k]) + 1] = w
      /\ \A v \in 1..Len(chain[k]) : chain'[k][v] = chain[k][v]
      /\ Len(chain[k]) \in Nat
  BY <1>1, <1>3, <1>6
<1>8. Vintage(k)' = Vintage(k) \cup {w}
  <2>1. \A v \in 1..Len(chain'[k]) :
          v \in 1..Len(chain[k]) \/ v = Len(chain[k]) + 1
    BY <1>7
  <2>2. \A v \in 1..Len(chain[k]) : v \in 1..Len(chain'[k])
    BY <1>7
  <2>3. Len(chain[k]) + 1 \in 1..Len(chain'[k])
    BY <1>7
  <2>4. QED
    BY <1>7, <2>1, <2>2, <2>3 DEF Vintage
<1>9. \A q \in Periods \ {k} : Vintage(q)' = Vintage(q)
  BY <1>6 DEF Vintage
<1>10. StandingInv'
  <2>1. SUFFICES ASSUME NEW q \in Periods PROVE standing'[q] <= Len(chain'[q])
    BY DEF StandingInv
  <2>2. CASE q = k
    BY <1>1, <1>2, <1>7, <2>2 DEF StandingInv
  <2>3. CASE q # k
    BY <1>1, <1>2, <1>6, <2>3 DEF StandingInv
  <2>4. QED
    BY <2>2, <2>3
<1>11. Store!TypeOK'
  BY <1>4, <1>5
<1>12. QED
  BY <1>8, <1>9, <1>10, <1>11 DEF w

LEMMA RollBackStep ==
  ASSUME TypeOK, StandingInv, NEW r \in Calls, NEW K \in SUBSET Periods,
         Store!RollBack(r, K)
  PROVE  /\ Store!TypeOK' /\ StandingInv'
         /\ \A q \in Periods : Vintage(q)' = Vintage(q)
<1>1. /\ chain' = chain
      /\ chain \in [Periods -> Seq([content : Values, run : Calls])]
      /\ standing \in [Periods -> Nat]
  BY DEF Store!RollBack, TypeOK, Store!TypeOK, Store!Vintage
<1>2. \A q \in Periods : standing'[q] \in Nat /\ standing'[q] <= standing[q]
  BY <1>1 DEF Store!RollBack
<1>3. standing' \in [Periods -> Nat]
  BY <1>2 DEF Store!RollBack
<1>4. Store!TypeOK'
  BY <1>1, <1>3 DEF Store!TypeOK, Store!Vintage
<1>5. StandingInv'
  BY <1>1, <1>2 DEF StandingInv
<1>6. QED
  BY <1>1, <1>4, <1>5 DEF Vintage

LEMMA StoreUnchanged ==
  ASSUME TypeOK, StandingInv, UNCHANGED store
  PROVE  /\ Store!TypeOK' /\ StandingInv' /\ Current' = Current
         /\ \A q \in Periods : Vintage(q)' = Vintage(q)
BY DEF TypeOK, StandingInv, store, Store!TypeOK, Vintage, Current

LEMMA RunsTyped ==
  ASSUME TypeOK, NEW c \in DOMAIN runs
  PROVE  /\ c \in Calls
         /\ runs[c].hash \in Payloads /\ runs[c].outcome \in RunOutcomes
BY DEF TypeOK

LEMMA TypeStep ==
  ASSUME InductiveInvariant, NEW c \in Calls, Step(c)
  PROVE  TypeOK' /\ StandingInv'
<1> USE DEF InductiveInvariant
<1>1. ASSUME NEW stage \in Stages, Goto(c, stage)
      PROVE  pc' \in [Calls -> Stages]
  BY <1>1 DEF Goto, TypeOK
<1>2. CASE \E p \in Payloads : Fetch(c, p)
  BY <1>1, <1>2, StoreUnchanged DEF Fetch, TypeOK, rows, Stages
<1>3. CASE FetchFails(c) \/ PublishListing(c) \/ (\E k \in Periods : CandidateRefused(c, k))
  <2>1. pc' \in [Calls -> Stages]
    BY <1>1, <1>3 DEF FetchFails, PublishListing, CandidateRefused, Stages, Ended
  <2>2. QED
    BY <1>3, <2>1, StoreUnchanged
    DEF FetchFails, PublishListing, CandidateRefused, TypeOK, rows
<1>4. CASE RecordFailedAttempt(c) \/ RecordAttempt(c)
  BY <1>1, <1>4, StoreUnchanged
  DEF RecordFailedAttempt, RecordAttempt, TypeOK, Stages, Ended, AttemptOutcomes
<1>5. CASE PutFile(c) \/ RecordRawFile(c)
  <2>1. payload[c] \in Payloads
    BY <1>5 DEF PutFile, RecordRawFile, RecordsInv, CallRecords
  <2>2. pc' \in [Calls -> Stages]
    BY <1>1, <1>5 DEF PutFile, RecordRawFile, Stages
  <2>3. QED
    BY <1>5, <2>1, <2>2, StoreUnchanged DEF PutFile, RecordRawFile, TypeOK
<1>6. CASE CreateRun(c)
  <2>1. payload[c] \in Payloads
    BY <1>6 DEF CreateRun, RecordsInv, CallRecords, CallTrail, TypeOK, Logged
  <2>2. pc' \in [Calls -> Stages]
    BY <1>1, <1>6 DEF CreateRun, Stages
  <2>3. QED
    BY <1>6, <2>1, <2>2, StoreUnchanged DEF CreateRun, TypeOK, RunOutcomes
<1>7. CASE DecodeFails(c) \/ Block(c) \/ RecordSuccess(c)
  <2>1. pc' \in [Calls -> Stages]
    BY <1>1, <1>7 DEF DecodeFails, Block, RecordSuccess, Stages, Ended
  <2>2. PICK o \in RunOutcomes : RecordOutcome(c, o)
    BY <1>7 DEF DecodeFails, Block, RecordSuccess, RunOutcomes
  <2>3. /\ DOMAIN runs' \subseteq Calls
        /\ runs' \in [DOMAIN runs' -> [hash : Payloads, outcome : RunOutcomes]]
    BY <2>2 DEF RecordOutcome, TypeOK
  <2>4. QED
    BY <1>7, <2>1, <2>2, <2>3, StoreUnchanged
    DEF DecodeFails, Block, RecordSuccess, RecordOutcome, TypeOK
<1>8. CASE ReadPrior(c)
  BY <1>1, <1>8, StoreUnchanged, CurrentIsVintage
  DEF ReadPrior, TypeOK, rows, Stages
<1>9. CASE Publish(c)
  <2>1. DOMAIN Incoming(c) \subseteq Periods
    BY <1>9, DecodedIsVintage
    DEF Publish, Incoming, PublicationInv, CallPublication
  <2>2. QED
    BY <1>1, <1>9, <2>1, StoreUnchanged DEF Publish, TypeOK, rows, Stages
<1>10. ASSUME NEW k \in Periods, WriteCandidate(c, k)
       PROVE  TypeOK' /\ StandingInv'
  <2>1. Incoming(c)[k] \in Values
    BY <1>10, DecodedIsVintage
    DEF WriteCandidate, Incoming, PublicationInv, CallPublication, Contents
  <2>2. Store!TypeOK' /\ StandingInv'
    BY <1>10, <2>1, StoreUnchanged, ReviseStep DEF WriteCandidate
  <2>3. QED
    BY <1>10, <2>2 DEF WriteCandidate, Written, TypeOK
<1>11. QED
  BY <1>2, <1>3, <1>4, <1>5, <1>6, <1>7, <1>8, <1>9, <1>10 DEF Step

-----------------------------------------------------------------------------
(* Records.  A step of a call leaves the records of the others alone and    *)
(* takes nothing off the disk or out of raw_file.                          *)

Bystander(d) ==
  /\ pc'[d] = pc[d] /\ payload'[d] = payload[d] /\ left'[d] = left[d]
  /\ isNew'[d] = isNew[d] /\ attempts'[d] = attempts[d]
  /\ d \in DOMAIN runs' <=> d \in DOMAIN runs
  /\ d \in DOMAIN runs => runs'[d] = runs[d]

ArchiveGrows == files \subseteq files' /\ rawFiles \subseteq rawFiles'

LEMMA OthersStandBy ==
  ASSUME InductiveInvariant, NEW c \in Calls, Step(c), NEW d \in Calls \ {c}
  PROVE  Bystander(d) /\ ArchiveGrows
<1> USE DEF InductiveInvariant, TypeOK, Bystander, ArchiveGrows, Goto, rows
<1>1. CASE \E p \in Payloads : Fetch(c, p)
  BY <1>1 DEF Fetch
<1>2. CASE FetchFails(c) \/ PublishListing(c) \/ ReadPrior(c)
  BY <1>2 DEF FetchFails, PublishListing, ReadPrior
<1>3. CASE RecordFailedAttempt(c) \/ RecordAttempt(c)
  BY <1>3 DEF RecordFailedAttempt, RecordAttempt
<1>4. CASE PutFile(c) \/ RecordRawFile(c)
  BY <1>4 DEF PutFile, RecordRawFile
<1>5. CASE CreateRun(c)
  BY <1>5 DEF CreateRun
<1>6. CASE DecodeFails(c) \/ Block(c) \/ RecordSuccess(c)
  BY <1>6 DEF DecodeFails, Block, RecordSuccess, RecordOutcome
<1>7. CASE Publish(c)
  BY <1>7 DEF Publish
<1>8. ASSUME NEW k \in Periods, WriteCandidate(c, k) \/ CandidateRefused(c, k)
      PROVE  Bystander(d) /\ ArchiveGrows
  BY <1>8 DEF WriteCandidate, CandidateRefused, Written
<1>9. QED
  BY <1>1, <1>2, <1>3, <1>4, <1>5, <1>6, <1>7, <1>8 DEF Step

LEMMA BystanderKeepsRecords ==
  ASSUME RecordsInv, NEW d \in Calls, Bystander(d), ArchiveGrows
  PROVE  CallRecords(d)' /\ CallTrail(d)'
BY DEF RecordsInv, Bystander, ArchiveGrows, CallRecords, CallTrail

LEMMA OwnRecords ==
  ASSUME InductiveInvariant, NEW c \in Calls, Step(c)
  PROVE  CallRecords(c)' /\ CallTrail(c)'
<1>1. CallRecords(c) /\ CallTrail(c) /\ TypeOK /\ Archive
  BY DEF InductiveInvariant, RecordsInv
<1> USE <1>1 DEF TypeOK, CallRecords, CallTrail, Goto, Unlogged, Logged, InRun, rows
<1>2. CASE \E p \in Payloads : Fetch(c, p)
  BY <1>2 DEF Fetch
<1>3. CASE FetchFails(c) \/ PublishListing(c) \/ ReadPrior(c)
  BY <1>3 DEF FetchFails, PublishListing, ReadPrior
<1>4. CASE RecordFailedAttempt(c) \/ RecordAttempt(c)
  BY <1>4 DEF RecordFailedAttempt, RecordAttempt
<1>5. CASE PutFile(c) \/ RecordRawFile(c)
  BY <1>5 DEF PutFile, RecordRawFile
<1>6. CASE CreateRun(c)
  BY <1>6 DEF CreateRun
<1>7. CASE DecodeFails(c) \/ Block(c) \/ RecordSuccess(c)
  BY <1>7 DEF DecodeFails, Block, RecordSuccess, RecordOutcome, Ended
<1>8. CASE Publish(c)
  BY <1>8 DEF Publish
<1>9. ASSUME NEW k \in Periods, WriteCandidate(c, k) \/ CandidateRefused(c, k)
      PROVE  CallRecords(c)' /\ CallTrail(c)'
  BY <1>9 DEF WriteCandidate, CandidateRefused, Written
<1>10. QED
  BY <1>2, <1>3, <1>4, <1>5, <1>6, <1>7, <1>8, <1>9 DEF Step

LEMMA ArchiveStep ==
  ASSUME InductiveInvariant, NEW c \in Calls, Step(c)
  PROVE  Archive'
<1>1. CallRecords(c) /\ (\A d \in Calls : CallTrail(d)) /\ TypeOK /\ Archive
  BY DEF InductiveInvariant, RecordsInv
<1> USE <1>1 DEF Archive, rows
<1>2. CASE \E p \in Payloads : Fetch(c, p)
  <2>1. ~isNew[c]
    BY <1>2 DEF Fetch, CallRecords, Unlogged
  <2>2. QED
    BY <1>2, <2>1 DEF Fetch, TypeOK
<1>3. CASE PutFile(c)
  BY <1>3 DEF PutFile
<1>4. CASE RecordRawFile(c)
  <2>1. payload[c] \in files /\ ~isNew[c]
    BY <1>4 DEF RecordRawFile, CallRecords, Unlogged
  <2>2. /\ isNew'[c] = (payload[c] \notin rawFiles)
        /\ \A d \in Calls \ {c} : isNew'[d] = isNew[d]
        /\ rawFiles' = rawFiles \cup {payload[c]}
        /\ UNCHANGED <<files, payload>>
    BY <1>4 DEF RecordRawFile, TypeOK
  <2>3. \A d \in Calls : isNew[d] => payload[d] \in rawFiles
    BY DEF CallTrail
  <2>4. rawFiles' \subseteq files'
    BY <2>1, <2>2
  <2>5. ASSUME NEW d \in Calls, NEW e \in Calls, isNew'[d], isNew'[e],
               payload'[d] = payload'[e]
        PROVE  d = e
    BY <2>2, <2>3, <2>5
  <2>6. ASSUME NEW p \in rawFiles' PROVE \E d \in Calls : payload'[d] = p /\ isNew'[d]
    <3>1. CASE p \in rawFiles
      BY <2>1, <2>2, <3>1
    <3>2. CASE p \notin rawFiles
      BY <2>2, <2>6, <3>2
    <3>3. QED
      BY <3>1, <3>2
  <2>7. QED
    BY <2>4, <2>5, <2>6
<1>5. CASE UNCHANGED <<files, rawFiles, payload, isNew>>
  BY <1>5
<1>6. CASE \/ FetchFails(c) \/ RecordFailedAttempt(c) \/ RecordAttempt(c)
           \/ PublishListing(c) \/ CreateRun(c) \/ DecodeFails(c) \/ ReadPrior(c)
           \/ Block(c) \/ Publish(c) \/ RecordSuccess(c)
           \/ \E k \in Periods : WriteCandidate(c, k) \/ CandidateRefused(c, k)
  BY <1>5, <1>6 DEF FetchFails, RecordFailedAttempt, RecordAttempt, PublishListing,
     CreateRun, DecodeFails, ReadPrior, Block, Publish, RecordSuccess,
     WriteCandidate, CandidateRefused, RecordOutcome
<1>7. QED
  BY <1>2, <1>3, <1>4, <1>6 DEF Step

LEMMA RecordsStep ==
  ASSUME InductiveInvariant, NEW c \in Calls, Step(c)
  PROVE  RecordsInv'
<1>1. ASSUME NEW d \in Calls \ {c} PROVE CallRecords(d)' /\ CallTrail(d)'
  BY OthersStandBy, BystanderKeepsRecords DEF InductiveInvariant
<1>2. QED
  BY <1>1, OwnRecords, ArchiveStep DEF RecordsInv

-----------------------------------------------------------------------------
(* Publication *)

ChainGrows == \A k \in Periods : Vintage(k) \subseteq Vintage(k)'

\* Only the next candidate of a publishing call enters the chain.
LEMMA ChainStep ==
  ASSUME InductiveInvariant, NEW c \in Calls, Step(c)
  PROVE  /\ ChainGrows
         /\ \A k \in Periods : \A w \in Vintage(k)' \ Vintage(k) :
              /\ WriteCandidate(c, k)
              /\ w = [content |-> Incoming(c)[k], run |-> c]
<1> USE DEF InductiveInvariant
<1>1. CASE UNCHANGED store
  BY <1>1, StoreUnchanged DEF ChainGrows
<1>2. ASSUME NEW k \in Periods, WriteCandidate(c, k), ~UNCHANGED store
      PROVE  /\ ChainGrows
             /\ \A q \in Periods : \A w \in Vintage(q)' \ Vintage(q) :
                  /\ WriteCandidate(c, q)
                  /\ w = [content |-> Incoming(c)[q], run |-> c]
  <2>1. Incoming(c)[k] \in Values
    BY <1>2, DecodedIsVintage
    DEF WriteCandidate, Incoming, PublicationInv, CallPublication, Contents
  <2>2. /\ \A q \in Periods \ {k} : Vintage(q)' = Vintage(q)
        /\ Vintage(k)' = Vintage(k) \cup {[content |-> Incoming(c)[k], run |-> c]}
    BY <1>2, <2>1, ReviseStep DEF WriteCandidate
  <2>3. QED
    BY <1>2, <2>2 DEF ChainGrows
<1>3. CASE \A k \in Periods : ~WriteCandidate(c, k)
  BY <1>1, <1>3 DEF Step, Fetch, FetchFails, RecordFailedAttempt, PutFile,
     RecordRawFile, RecordAttempt, PublishListing, CreateRun, DecodeFails, ReadPrior,
     Block, Publish, RecordSuccess, CandidateRefused, RecordOutcome, rows
<1>4. QED
  BY <1>1, <1>2, <1>3

LEMMA InChainStays ==
  ASSUME InductiveInvariant, NEW d \in Calls, payload'[d] = payload[d], ChainGrows,
         payload[d] \in DOMAIN Decode, NEW k \in DOMAIN Incoming(d), InChain(d, k)
  PROVE  InChain(d, k)'
<1>1. k \in Periods
  BY DecodedIsVintage DEF Incoming
<1>2. QED
  BY <1>1 DEF InChain, Incoming, ChainGrows

LEMMA BystanderKeepsPublication ==
  ASSUME InductiveInvariant, NEW d \in Calls, Bystander(d), ChainGrows
  PROVE  CallPublication(d)'
<1>1. CallPublication(d)
  BY DEF InductiveInvariant, PublicationInv
<1>2. Incoming(d)' = Incoming(d)
  BY DEF Bystander, Incoming
<1>3. ASSUME payload[d] \in DOMAIN Decode, NEW k \in DOMAIN Incoming(d), InChain(d, k)
      PROVE  InChain(d, k)'
  BY <1>3, InChainStays DEF Bystander
<1>4. pc'[d] \in {"gate", "publish"} => payload'[d] \in DOMAIN Decode
  BY <1>1 DEF Bystander, CallPublication
<1>5. pc'[d] = "publish" =>
        /\ left'[d] \subseteq DOMAIN Incoming(d)'
        /\ \A k \in DOMAIN Incoming(d)' \ left'[d] : InChain(d, k)'
  BY <1>1, <1>2, <1>3 DEF Bystander, CallPublication
<1>6. d \in DOMAIN runs' /\ runs'[d].outcome = "succeeded" =>
        /\ payload'[d] \in DOMAIN Decode
        /\ \A k \in DOMAIN Incoming(d)' : InChain(d, k)'
  BY <1>1, <1>2, <1>3 DEF Bystander, CallPublication
<1>7. QED
  BY <1>4, <1>5, <1>6 DEF CallPublication

\* Before its verdict a call has nothing to answer for.
LEMMA OwnBeforeGate ==
  ASSUME InductiveInvariant, NEW c \in Calls, Step(c),
         pc[c] \notin {"gate", "publish"}
  PROVE  CallPublication(c)'
<1>1. CallRecords(c) /\ TypeOK
  BY DEF InductiveInvariant, RecordsInv
<1>2. /\ pc'[c] # "publish"
      /\ pc'[c] = "gate" => payload'[c] \in DOMAIN Decode
      /\ c \in DOMAIN runs' => runs'[c].outcome # "succeeded"
  <2> USE <1>1 DEF TypeOK, CallRecords, Goto, Unlogged, InRun, rows
  <2>1. CASE FetchFails(c) \/ PublishListing(c) \/ (\E p \in Payloads : Fetch(c, p))
    BY <2>1 DEF FetchFails, PublishListing, Fetch
  <2>2. CASE RecordFailedAttempt(c) \/ PutFile(c) \/ RecordRawFile(c) \/ RecordAttempt(c)
    BY <2>2 DEF RecordFailedAttempt, PutFile, RecordRawFile, RecordAttempt
  <2>3. CASE CreateRun(c) \/ DecodeFails(c) \/ ReadPrior(c)
    BY <2>3 DEF CreateRun, DecodeFails, ReadPrior, RecordOutcome
  <2>4. CASE Block(c) \/ Publish(c) \/ RecordSuccess(c)
    BY <2>4 DEF Block, Publish, RecordSuccess
  <2>5. CASE \E k \in Periods : WriteCandidate(c, k) \/ CandidateRefused(c, k)
    BY <2>5 DEF WriteCandidate, CandidateRefused
  <2>6. QED
    BY <2>1, <2>2, <2>3, <2>4, <2>5 DEF Step
<1>3. QED
  BY <1>2 DEF CallPublication

LEMMA CandidateInChain ==
  ASSUME InductiveInvariant, NEW c \in Calls, NEW k \in Periods, WriteCandidate(c, k)
  PROVE  InChain(c, k)'
<1> USE DEF InductiveInvariant
<1>1. Incoming(c)' = Incoming(c)
  BY DEF WriteCandidate, Incoming
<1>2. CASE k \in DOMAIN Current /\ Current[k] = Incoming(c)[k] /\ UNCHANGED store
  <2>1. standing[k] \in 1..Len(chain[k])
    <3>1. chain[k] \in Seq(Store!Vintage)
      BY DEF TypeOK, Store!TypeOK
    <3>2. standing[k] \in Nat /\ standing[k] > 0
      BY <1>2 DEF Current, TypeOK, Store!TypeOK
    <3>3. QED
      BY <3>1, <3>2 DEF StandingInv
  <2>2. chain[k][standing[k]] \in Vintage(k)
    BY <2>1 DEF Vintage
  <2>3. Vintage(k)' = Vintage(k)
    BY <1>2 DEF store, Vintage
  <2>4. chain[k][standing[k]].content = Incoming(c)[k]
    BY <1>2 DEF Current
  <2>5. QED
    BY <1>1, <2>2, <2>3, <2>4 DEF InChain
<1>3. CASE Store!Revise(k, Incoming(c)[k], c)
  <2>1. Incoming(c)[k] \in Values
    BY DecodedIsVintage
    DEF WriteCandidate, Incoming, PublicationInv, CallPublication, Contents
  <2>2. [content |-> Incoming(c)[k], run |-> c] \in Vintage(k)'
    BY <1>3, <2>1, ReviseStep
  <2>3. QED
    BY <1>1, <2>2 DEF InChain
<1>4. QED
  BY <1>2, <1>3 DEF WriteCandidate

\* What is left of the payload shrinks by what has entered the chain.
LEMMA OwnAfterGate ==
  ASSUME InductiveInvariant, NEW c \in Calls, Step(c),
         pc[c] \in {"gate", "publish"}
  PROVE  CallPublication(c)'
<1>1. /\ CallPublication(c) /\ TypeOK
      /\ c \in DOMAIN runs /\ runs[c].outcome = "pending"
      /\ payload[c] \in DOMAIN Decode
  BY DEF InductiveInvariant, RecordsInv, CallRecords, InRun, PublicationInv,
     CallPublication
<1>2. ASSUME NEW k \in DOMAIN Incoming(c), InChain(c, k), payload' = payload
      PROVE  InChain(c, k)'
  BY <1>1, <1>2, InChainStays, ChainStep
<1>3. payload' = payload => Incoming(c)' = Incoming(c)
  BY DEF Incoming
<1>4. CASE Publish(c)
  <2>1. /\ pc'[c] = "publish" /\ left'[c] = DOMAIN Incoming(c)
        /\ payload' = payload /\ runs' = runs
    BY <1>1, <1>4 DEF Publish, Goto, TypeOK, rows
  <2>2. QED
    BY <1>1, <1>3, <2>1 DEF CallPublication
<1>5. CASE Block(c)
  <2>1. /\ pc'[c] = "done" /\ runs'[c].outcome = "validation-failed"
    BY <1>1, <1>5 DEF Block, Goto, RecordOutcome, TypeOK
  <2>2. QED
    BY <2>1 DEF CallPublication
<1>6. ASSUME NEW k \in Periods, WriteCandidate(c, k)
      PROVE  CallPublication(c)'
  <2>1. /\ pc' = pc /\ pc[c] = "publish" /\ payload' = payload /\ runs' = runs
        /\ left'[c] = left[c] \ {k}
    BY <1>1, <1>6 DEF WriteCandidate, Written, TypeOK
  <2>2. ASSUME NEW q \in DOMAIN Incoming(c) \ left'[c] PROVE InChain(c, q)'
    <3>1. CASE q = k
      BY <1>6, <3>1, CandidateInChain
    <3>2. CASE q # k
      BY <1>1, <1>2, <2>1, <3>2 DEF CallPublication
    <3>3. QED
      BY <3>1, <3>2
  <2>3. QED
    BY <1>1, <1>3, <2>1, <2>2 DEF CallPublication
<1>7. CASE \E k \in Periods : CandidateRefused(c, k)
  <2>1. pc'[c] = "refused" /\ runs' = runs
    BY <1>1, <1>7 DEF CandidateRefused, Goto, TypeOK, rows
  <2>2. QED
    BY <1>1, <2>1 DEF CallPublication
<1>8. CASE RecordSuccess(c)
  <2>1. /\ pc'[c] = "done" /\ payload' = payload /\ left[c] = {} /\ pc[c] = "publish"
    BY <1>1, <1>8 DEF RecordSuccess, Goto, RecordOutcome, TypeOK
  <2>2. ASSUME NEW k \in DOMAIN Incoming(c) PROVE InChain(c, k)'
    BY <1>1, <1>2, <2>1 DEF CallPublication
  <2>3. QED
    BY <1>1, <1>3, <2>1, <2>2 DEF CallPublication
<1>9. QED
  BY <1>4, <1>5, <1>6, <1>7, <1>8 DEF Step, Fetch, FetchFails, RecordFailedAttempt,
     PutFile, RecordRawFile, RecordAttempt, PublishListing, CreateRun, DecodeFails,
     ReadPrior

\* A call that has vintages is publishing: only refusal and success remain.
LEMMA AuthorStays ==
  ASSUME InductiveInvariant, NEW c \in Calls, Step(c), c \in DOMAIN runs,
         pc[c] \notin {"decode", "gate"}
  PROVE  /\ pc'[c] \notin {"decode", "gate"}
         /\ c \in DOMAIN runs' /\ runs'[c].outcome # "validation-failed"
         /\ payload' = payload
<1>1. pc[c] = "publish" /\ runs[c].outcome = "pending" /\ TypeOK
  BY DEF InductiveInvariant, RecordsInv, CallRecords, InRun, Unlogged, TypeOK, Step,
     Fetch, FetchFails, RecordFailedAttempt, PutFile, RecordRawFile, RecordAttempt,
     PublishListing, CreateRun, DecodeFails, ReadPrior, Block, Publish,
     WriteCandidate, CandidateRefused, RecordSuccess
<1>2. CASE \E k \in Periods : WriteCandidate(c, k) \/ CandidateRefused(c, k)
  BY <1>1, <1>2 DEF WriteCandidate, CandidateRefused, Goto, TypeOK, rows
<1>3. CASE RecordSuccess(c)
  BY <1>1, <1>3 DEF RecordSuccess, RecordOutcome, Goto, TypeOK
<1>4. QED
  BY <1>1, <1>2, <1>3 DEF Step, Fetch, FetchFails, RecordFailedAttempt, PutFile,
     RecordRawFile, RecordAttempt, PublishListing, CreateRun, DecodeFails, ReadPrior,
     Block, Publish

LEMMA FromPayloadStep ==
  ASSUME InductiveInvariant, NEW c \in Calls, Step(c),
         NEW k \in Periods, NEW w \in Vintage(k)'
  PROVE  FromPayload(k, w)'
<1>1. CASE w \in Vintage(k)
  <2>1. FromPayload(k, w) /\ w.run \in Calls
    BY <1>1, RunsTyped DEF InductiveInvariant, PublicationInv, FromPayload
  <2>2. CASE w.run = c
    BY <2>1, <2>2, AuthorStays DEF FromPayload, Incoming
  <2>3. CASE w.run # c
    <3>1. Bystander(w.run)
      BY <2>1, <2>3, OthersStandBy
    <3>2. QED
      BY <2>1, <3>1 DEF FromPayload, Bystander, Incoming
  <2>4. QED
    BY <2>2, <2>3
<1>2. CASE w \notin Vintage(k)
  <2>1. WriteCandidate(c, k) /\ w = [content |-> Incoming(c)[k], run |-> c]
    BY <1>2, ChainStep
  <2>2. /\ pc[c] = "publish" /\ k \in left[c]
        /\ UNCHANGED <<pc, payload, runs>>
    BY <2>1 DEF WriteCandidate
  <2>3. /\ c \in DOMAIN runs /\ runs[c].outcome = "pending"
        /\ payload[c] \in DOMAIN Decode /\ k \in DOMAIN Incoming(c)
    BY <2>2 DEF InductiveInvariant, RecordsInv, CallRecords, InRun, PublicationInv,
       CallPublication
  <2>4. w.run = c /\ w.content = Incoming(c)[k]
    BY <2>1
  <2>5. QED
    BY <2>2, <2>3, <2>4 DEF FromPayload, Incoming
<1>3. QED
  BY <1>1, <1>2

LEMMA VerdictStep ==
  ASSUME InductiveInvariant, NEW c \in Calls, Step(c)
  PROVE  VerdictInv'
<1> DEFINE Verdict(d) ==
             Passes(prior[d], Incoming(d), DocumentedGaps, MaxBackward)
<1>1. SUFFICES ASSUME NEW d \in Calls, pc'[d] = "publish" PROVE Verdict(d)'
  BY DEF VerdictInv
<1>2. /\ prior'[d] = prior[d] /\ payload'[d] = payload[d]
      /\ pc[d] = "publish" \/ (d = c /\ Publish(c))
  BY <1>1 DEF InductiveInvariant, TypeOK, Goto, rows, Step, Fetch, FetchFails,
     RecordFailedAttempt, PutFile, RecordRawFile, RecordAttempt, PublishListing,
     CreateRun, DecodeFails, ReadPrior, Block, Publish, WriteCandidate,
     CandidateRefused, RecordSuccess, RecordOutcome, Written
<1>3. Verdict(d)
  BY <1>2 DEF InductiveInvariant, VerdictInv, Publish
<1>4. QED
  BY <1>2, <1>3 DEF Incoming

LEMMA StepInv ==
  ASSUME InductiveInvariant, NEW c \in Calls, Step(c)
  PROVE  InductiveInvariant'
<1>1. ASSUME NEW d \in Calls PROVE CallPublication(d)'
  <2>1. CASE d = c
    BY <2>1, OwnBeforeGate, OwnAfterGate
  <2>2. CASE d # c
    BY <2>2, OthersStandBy, ChainStep, BystanderKeepsPublication
  <2>3. QED
    BY <2>1, <2>2
<1>2. PublicationInv'
  BY <1>1, FromPayloadStep DEF PublicationInv
<1>3. QED
  BY <1>2, TypeStep, RecordsStep, VerdictStep DEF InductiveInvariant

LEMMA StopInv ==
  ASSUME InductiveInvariant, NEW c \in Calls, Stop(c)
  PROVE  InductiveInvariant'
<1> USE DEF InductiveInvariant, Stop, Goto, rows
<1>1. UNCHANGED <<payload, prior, left, isNew, files, rawFiles, attempts, runs, store>>
  OBVIOUS
<1>2. /\ pc' \in [Calls -> Stages] /\ pc'[c] = "stopped"
      /\ \A d \in Calls \ {c} : pc'[d] = pc[d]
  BY DEF TypeOK, Stages, Ended
<1>3. TypeOK' /\ StandingInv'
  BY <1>1, <1>2, StoreUnchanged DEF TypeOK
<1>4. RecordsInv'
  BY <1>1, <1>2 DEF RecordsInv, Archive, CallRecords, CallTrail, Unlogged, InRun
<1>5. /\ ChainGrows
      /\ \A k \in Periods : Vintage(k)' = Vintage(k)
      /\ \A d \in Calls : Incoming(d)' = Incoming(d)
  BY <1>1, StoreUnchanged DEF ChainGrows, Incoming
<1>6. ASSUME NEW d \in Calls PROVE CallPublication(d)'
  <2>1. CASE d # c
    <3>1. Bystander(d)
      BY <1>1, <1>2, <2>1 DEF Bystander
    <3>2. QED
      BY <1>5, <3>1, BystanderKeepsPublication
  <2>2. CASE d = c
    <3>1. CallPublication(c)
      BY DEF PublicationInv
    <3>2. ASSUME c \in DOMAIN runs, runs[c].outcome = "succeeded",
                 NEW k \in DOMAIN Incoming(c)
          PROVE  InChain(c, k)'
      BY <1>1, <1>5, <3>1, <3>2, InChainStays DEF CallPublication
    <3>3. QED
      BY <1>1, <1>2, <1>5, <2>2, <3>1, <3>2 DEF CallPublication
  <2>3. QED
    BY <2>1, <2>2
<1>7. ASSUME NEW k \in Periods, NEW w \in Vintage(k)' PROVE FromPayload(k, w)'
  <2>1. FromPayload(k, w) /\ w.run \in Calls
    BY <1>5, <1>7, RunsTyped DEF PublicationInv, FromPayload
  <2>2. QED
    BY <1>1, <1>2, <1>5, <2>1 DEF FromPayload
<1>8. VerdictInv'
  BY <1>1, <1>2, <1>5 DEF VerdictInv
<1>9. QED
  BY <1>3, <1>4, <1>6, <1>7, <1>8 DEF PublicationInv

LEMMA RollBackInv ==
  ASSUME InductiveInvariant, NEW r \in Calls, RollBack(r)
  PROVE  InductiveInvariant'
<1> USE DEF InductiveInvariant
<1>1. UNCHANGED <<pc, payload, prior, left, isNew, files, rawFiles, attempts, runs>>
  BY DEF RollBack
<1>2. PICK K \in SUBSET Periods : Store!RollBack(r, K)
  BY DEF RollBack, Current
<1>3. /\ Store!TypeOK' /\ StandingInv'
      /\ \A k \in Periods : Vintage(k)' = Vintage(k)
  BY <1>2, RollBackStep
<1>4. TypeOK'
  BY <1>1, <1>3 DEF TypeOK
<1>5. RecordsInv' /\ VerdictInv'
  BY <1>1 DEF RecordsInv, Archive, CallRecords, CallTrail, VerdictInv, Incoming
<1>6. ASSUME NEW d \in Calls PROVE CallPublication(d)'
  <2>1. Bystander(d) /\ ChainGrows
    BY <1>1, <1>3 DEF Bystander, ChainGrows
  <2>2. QED
    BY <2>1, BystanderKeepsPublication
<1>7. ASSUME NEW k \in Periods, NEW w \in Vintage(k)' PROVE FromPayload(k, w)'
  <2>1. FromPayload(k, w)
    BY <1>3, <1>7 DEF PublicationInv
  <2>2. QED
    BY <1>1, <2>1 DEF FromPayload, Incoming
<1>8. QED
  BY <1>3, <1>4, <1>5, <1>6, <1>7 DEF PublicationInv

LEMMA IdleInv ==
  ASSUME InductiveInvariant, UNCHANGED vars PROVE InductiveInvariant'
<1>1. UNCHANGED <<pc, payload, prior, left, isNew, files, rawFiles, attempts, runs,
                  store>>
  BY DEF vars, rows
<1>2. /\ TypeOK' /\ StandingInv'
      /\ \A k \in Periods : Vintage(k)' = Vintage(k)
  BY <1>1, StoreUnchanged DEF InductiveInvariant, TypeOK
<1>3. RecordsInv' /\ VerdictInv'
  BY <1>1 DEF InductiveInvariant, RecordsInv, Archive, CallRecords, CallTrail,
     VerdictInv, Incoming
<1>4. ASSUME NEW d \in Calls PROVE CallPublication(d)'
  BY <1>1, <1>2, BystanderKeepsPublication DEF Bystander, ChainGrows
<1>5. ASSUME NEW k \in Periods, NEW w \in Vintage(k)' PROVE FromPayload(k, w)'
  BY <1>1, <1>2, <1>5 DEF InductiveInvariant, PublicationInv, FromPayload, Incoming
<1>6. QED
  BY <1>2, <1>3, <1>4, <1>5 DEF InductiveInvariant, PublicationInv

\* The records of every call lean on earlier ones, and the chain on the records,
\* whichever calls overlap and wherever they stop (ingest.go:169).
THEOREM Inductive == Spec => []InductiveInvariant
<1>1. Init => InductiveInvariant
  BY InitInv
<1>2. InductiveInvariant /\ [Next]_vars => InductiveInvariant'
  BY StepInv, StopInv, RollBackInv, IdleInv DEF Next
<1>3. QED
  BY <1>1, <1>2, PTL DEF Spec

\* Every variable keeps the type its declaration describes (ingest.go:169).
THEOREM TypeCorrect == Spec => []TypeOK
<1>1. InductiveInvariant => TypeOK
  BY DEF InductiveInvariant
<1>2. QED
  BY <1>1, Inductive, PTL

\* From any vintage the chain of provenance leads to bytes on disk that say the
\* same (ingest.go:109, provenance.go:27).
THEOREM TraceableHolds == Spec => []Traceable
<1>1. InductiveInvariant => Traceable
  <2>1. SUFFICES ASSUME InductiveInvariant, NEW k \in Periods, NEW w \in Vintage(k)
                 PROVE  /\ w.run \in DOMAIN runs
                        /\ runs[w.run].hash \in rawFiles \cap files \cap DOMAIN Decode
                        /\ k \in DOMAIN Decode[runs[w.run].hash]
                        /\ w.content = Decode[runs[w.run].hash][k]
    BY DEF Traceable
  <2>2. FromPayload(k, w) /\ w.run \in Calls
    BY <2>1, RunsTyped DEF InductiveInvariant, PublicationInv, FromPayload
  <2>3. /\ runs[w.run].hash = payload[w.run]
        /\ payload[w.run] \in rawFiles /\ rawFiles \subseteq files
    BY <2>1, <2>2 DEF InductiveInvariant, RecordsInv, Archive, CallTrail, FromPayload
  <2>4. QED
    BY <2>2, <2>3 DEF FromPayload, Incoming
<1>2. QED
  BY <1>1, Inductive, PTL

\* A crash loses the later record, never the earlier one (rawfile.go:9).
THEOREM ArchivedThenLoggedThenRunHolds == Spec => []ArchivedThenLoggedThenRun
<1>1. InductiveInvariant => ArchivedThenLoggedThenRun
  BY RunsTyped DEF InductiveInvariant, RecordsInv, Archive, CallTrail, Logged,
     ArchivedThenLoggedThenRun
<1>2. QED
  BY <1>1, Inductive, PTL

\* Given bytes are a new file once, however many calls download them
\* (rawfile.go:16).
THEOREM NewFileOnceHolds == Spec => []NewFileOnce
<1>1. InductiveInvariant => NewFileOnce
  <2>1. SUFFICES ASSUME InductiveInvariant PROVE NewFileOnce
    OBVIOUS
  <2>2. Archive /\ \A c \in Calls : CallTrail(c)
    BY <2>1 DEF InductiveInvariant, RecordsInv
  <2>3. ASSUME NEW p \in rawFiles
        PROVE  \E c \in Calls : /\ payload[c] = p /\ isNew[c]
                                /\ \A d \in Calls : payload[d] = p /\ isNew[d] => d = c
    BY <2>2 DEF Archive
  <2>4. QED
    BY <2>2, <2>3 DEF NewFileOnce, CallTrail
<1>2. QED
  BY <1>1, Inductive, PTL

\* A run recorded as succeeded has all its values in the chain, one recorded as
\* blocked has none (gate.go:120).
THEOREM OutcomeTellsPublicationHolds == Spec => []OutcomeTellsPublication
<1>1. InductiveInvariant => OutcomeTellsPublication
  <2>1. SUFFICES ASSUME InductiveInvariant, NEW c \in DOMAIN runs
                 PROVE  /\ runs[c].outcome = "succeeded" =>
                             \A k \in DOMAIN Incoming(c) : InChain(c, k)
                        /\ runs[c].outcome = "validation-failed" =>
                             \A k \in Periods : \A w \in Vintage(k) : w.run # c
    BY DEF OutcomeTellsPublication, InChain
  <2>2. c \in Calls
    BY <2>1, RunsTyped DEF InductiveInvariant
  <2>3. QED
    BY <2>1, <2>2 DEF InductiveInvariant, PublicationInv, CallPublication, FromPayload
<1>2. QED
  BY <1>1, Inductive, PTL

-----------------------------------------------------------------------------
(* The revision rule *)

LEMMA LatestIsLatest ==
  ASSUME NEW S \in SUBSET Periods, S # {}
  PROVE  LatestPeriod(S) \in S /\ \A q \in S : q <= LatestPeriod(S)
BY PeriodsAssumption DEF LatestPeriod

\* A chain grows by a candidate that differs from the published value.
LEMMA GrowthIsRevision ==
  ASSUME InductiveInvariant, [Next]_vars, NEW k \in Periods,
         Len(chain'[k]) > Len(chain[k])
  PROVE  \E c \in Calls : /\ WriteCandidate(c, k)
                          /\ Store!Revise(k, Incoming(c)[k], c)
                          /\ chain'[k][Len(chain'[k])].run = c
<1> DEFINE V == Store!Vintage
<1>1. chain \in [Periods -> Seq(V)]
  BY DEF InductiveInvariant, TypeOK, Store!TypeOK
<1>2. Len(chain[k]) \in Nat
  BY <1>1
<1>3. chain'[k] # chain[k]
  BY <1>2
<1>4. ASSUME NEW c \in Calls, NEW q \in Periods, WriteCandidate(c, q)
      PROVE  /\ q = k /\ Store!Revise(k, Incoming(c)[k], c)
             /\ chain'[k][Len(chain'[k])].run = c
  <2>1. Store!Revise(q, Incoming(c)[q], c)
    BY <1>3, <1>4 DEF WriteCandidate, store
  <2>2. q = k
    BY <1>1, <1>3, <2>1 DEF Store!Revise
  <2> DEFINE w == [content |-> Incoming(c)[k], run |-> c]
  <2>3. Incoming(c)[k] \in Values
    BY <1>4, <2>2, DecodedIsVintage
    DEF InductiveInvariant, WriteCandidate, Incoming, PublicationInv, CallPublication,
        Contents
  <2>4. w \in V /\ w.run = c
    BY <2>3 DEF Store!Vintage
  <2>5. chain'[k] = Append(chain[k], w)
    BY <1>1, <2>1, <2>2 DEF Store!Revise
  <2> HIDE DEF w, V
  <2>6. chain'[k][Len(chain'[k])] = w
    BY <1>1, <2>4, <2>5
  <2>7. QED
    BY <2>1, <2>2, <2>4, <2>6
<1>5. \E c \in Calls, q \in Periods : WriteCandidate(c, q)
  BY <1>3 DEF Next, Step, Fetch, FetchFails, RecordFailedAttempt, PutFile,
     RecordRawFile, RecordAttempt, PublishListing, CreateRun, DecodeFails, ReadPrior,
     Block, Publish, RecordSuccess, CandidateRefused, RecordOutcome, Stop, RollBack,
     Store!RollBack, rows, store, vars
<1>6. QED
  BY <1>4, <1>5

\* What stands of a key comes from a call whose payload says it.
LEMMA PublishedFromPayload ==
  ASSUME InductiveInvariant, NEW k \in DOMAIN Current
  PROVE  /\ k \in Periods
         /\ FromPayload(k, chain[k][standing[k]])
         /\ Current[k] = chain[k][standing[k]].content
<1>1. k \in Periods /\ standing[k] > 0
  BY DEF Current
<1>2. chain \in [Periods -> Seq(Store!Vintage)] /\ standing \in [Periods -> Nat]
  BY DEF InductiveInvariant, TypeOK, Store!TypeOK
<1>3. standing[k] \in 1..Len(chain[k])
  BY <1>1, <1>2 DEF InductiveInvariant, StandingInv
<1>4. chain[k][standing[k]] \in Vintage(k)
  BY <1>3 DEF Vintage
<1>5. QED
  BY <1>1, <1>4 DEF InductiveInvariant, PublicationInv, Current

\* Without a sign-off, only an overtaken verdict publishes a revision deeper
\* than the window (ingest.go:218, ingest.go:254).
THEOREM DeepRevisionsHold == Spec => DeepRevisionsOnlyWhenOvertaken
<1> DEFINE Excused ==
      \A k \in Periods :
        Len(chain'[k]) > Len(chain[k]) /\ Deep(k) =>
          Overtaken(chain'[k][Len(chain'[k])].run)
<1>1. InductiveInvariant /\ [Next]_vars => Excused
  <2>1. SUFFICES ASSUME InductiveInvariant, [Next]_vars, NEW k \in Periods,
                        Len(chain'[k]) > Len(chain[k]), Deep(k)
                 PROVE  Overtaken(chain'[k][Len(chain'[k])].run)
    OBVIOUS
  <2>2. PICK c \in Calls : /\ WriteCandidate(c, k)
                           /\ Store!Revise(k, Incoming(c)[k], c)
                           /\ chain'[k][Len(chain'[k])].run = c
    BY <2>1, GrowthIsRevision
  <2>3. SUFFICES ASSUME ~Overtaken(c) PROVE FALSE
    BY <2>2
  <2> DEFINE Known == DOMAIN prior[c] \cup DOMAIN Incoming(c)
  <2>4. \A q \in DOMAIN Current :
          \/ chain[q][standing[q]].run = c
          \/ q \in DOMAIN prior[c] /\ prior[c][q] = Current[q]
    BY <2>3 DEF Overtaken
  <2>5. /\ k \in DOMAIN Incoming(c) /\ DOMAIN Incoming(c) \subseteq Periods
        /\ Passes(prior[c], Incoming(c), DocumentedGaps, MaxBackward)
    BY <2>1, <2>2, DecodedIsVintage
    DEF WriteCandidate, InductiveInvariant, PublicationInv, CallPublication,
        VerdictInv, Incoming
  <2>6. k \in DOMAIN Current /\ Current[k] # Incoming(c)[k]
    BY <2>1, <2>2 DEF Deep, Store!Revise, Current
  <2>7. k \in DOMAIN prior[c] /\ prior[c][k] # Incoming(c)[k]
    <3>1. chain[k][standing[k]].run # c
      BY <2>1, <2>6, PublishedFromPayload DEF FromPayload
    <3>2. QED
      BY <2>4, <2>6, <3>1
  <2>8. DOMAIN Current \subseteq Known
    BY <2>1, <2>4, PublishedFromPayload DEF FromPayload
  <2>9. DOMAIN prior[c] \subseteq Periods
    BY <2>1 DEF InductiveInvariant, TypeOK, Vintages
  <2>10. LatestPeriod(DOMAIN Current) <= LatestPeriod(Known)
    <3>1. DOMAIN Current \in SUBSET Periods /\ DOMAIN Current # {}
      BY <2>1, <2>6, PublishedFromPayload
    <3>2. Known \in SUBSET Periods /\ Known # {}
      BY <2>5, <2>9
    <3>3. QED
      BY <2>8, <3>1, <3>2, LatestIsLatest
  <2>11. /\ LatestPeriod(DOMAIN Current) \in Nat /\ LatestPeriod(Known) \in Nat
         /\ k \in Nat
    <3>1. DOMAIN Current \in SUBSET Periods /\ DOMAIN Current # {}
      BY <2>1, <2>6, PublishedFromPayload
    <3>2. Known \in SUBSET Periods /\ Known # {}
      BY <2>5, <2>9
    <3>3. QED
      BY <3>1, <3>2, LatestIsLatest, PeriodsAssumption
  <2>12. LatestPeriod(DOMAIN Current) - k >= MaxBackward
    BY <2>1 DEF Deep
  <2>13. ~(LatestPeriod(Known) - k >= MaxBackward)
    BY <2>5, <2>7 DEF Passes, Rule4Revision
  <2>14. QED
    BY <2>10, <2>11, <2>12, <2>13, MaxBackwardAssumption
<1>2. QED
  BY <1>1, Inductive, PTL DEF DeepRevisionsOnlyWhenOvertaken, Spec

-----------------------------------------------------------------------------
(* The store behind the pipeline *)

\* A statement of a call writes one revision of VintageStore, or nothing that
\* it can see.
LEMMA StepIsStoreStep ==
  ASSUME InductiveInvariant, NEW c \in Calls, Step(c)
  PROVE  Store!Next \/ UNCHANGED store
<1>1. ASSUME NEW k \in Periods, WriteCandidate(c, k)
      PROVE  Store!Next \/ UNCHANGED store
  <2>1. Incoming(c)[k] \in Values
    BY <1>1, DecodedIsVintage
    DEF InductiveInvariant, WriteCandidate, Incoming, PublicationInv, CallPublication,
        Contents
  <2>2. QED
    BY <1>1, <2>1 DEF WriteCandidate, Store!Next
<1>2. CASE \A k \in Periods : ~WriteCandidate(c, k)
  BY <1>2 DEF Step, Fetch, FetchFails, RecordFailedAttempt, PutFile,
     RecordRawFile, RecordAttempt, PublishListing, CreateRun, DecodeFails, ReadPrior,
     Block, Publish, RecordSuccess, CandidateRefused, RecordOutcome, rows
<1>3. QED
  BY <1>1, <1>2

\* Overlapping calls, stopped anywhere, with rollbacks between their
\* statements, use the observation table as VintageStore promises it: only
\* numbers that some payload holds are appended, to chains that nothing was
\* rolled back from, and a rollback takes the vintages of one run
\* (gate.go:130, observation.go:164).
THEOREM PipelineImplementsVintageStore == Spec => Store!Spec
<1>1. Init => Store!Init
  BY DEF Init
<1>2. InductiveInvariant /\ [Next]_vars => [Store!Next]_(Store!vars)
  <2>1. SUFFICES ASSUME InductiveInvariant, [Next]_vars
                 PROVE  Store!Next \/ UNCHANGED store
    BY DEF Store!vars, store
  <2>2. ASSUME NEW r \in Calls, RollBack(r) PROVE Store!Next
    <3>1. PICK K \in SUBSET Periods : Store!RollBack(r, K)
      BY <2>2 DEF RollBack, Current
    <3>2. QED
      BY <3>1 DEF Store!Next
  <2>3. ASSUME NEW c \in Calls, Stop(c) PROVE UNCHANGED store
    BY <2>3 DEF Stop, rows
  <2>4. CASE UNCHANGED vars
    BY <2>4 DEF vars, rows
  <2>5. QED
    BY <2>1, <2>2, <2>3, <2>4, StepIsStoreStep DEF Next
<1>3. QED
  BY <1>1, <1>2, Inductive, PTL DEF Spec, Store!Spec

-----------------------------------------------------------------------------
(* A run that stays pending *)

\* A call that returned, or failed in the decoder, left its run decided.
Settled(c) ==
  /\ pc[c] = "done" => c \in DOMAIN runs
  /\ pc[c] \in {"done", "failed"} /\ c \in DOMAIN runs =>
       runs[c].outcome # "pending"

\* A run row is pending only under a call that is still deciding, or that was
\* stopped or refused: whatever else a call does it gives its run an outcome
\* (gate.go:42).
PendingExplained ==
  \A c \in DOMAIN runs :
    runs[c].outcome = "pending" => pc[c] \in InRun \cup {"stopped", "refused"}

\* A step leaves the run of its own call settled.
LEMMA OwnSettled ==
  ASSUME InductiveInvariant, NEW c \in Calls, Step(c)
  PROVE  Settled(c)'
<1>1. CallRecords(c) /\ TypeOK
  BY DEF InductiveInvariant, RecordsInv
<1> USE <1>1 DEF TypeOK, CallRecords, Settled, Goto, Unlogged, InRun, rows
<1>2. CASE FetchFails(c) \/ PublishListing(c) \/ (\E p \in Payloads : Fetch(c, p))
  BY <1>2 DEF FetchFails, PublishListing, Fetch
<1>3. CASE RecordFailedAttempt(c) \/ PutFile(c) \/ RecordRawFile(c) \/ RecordAttempt(c)
  BY <1>3 DEF RecordFailedAttempt, PutFile, RecordRawFile, RecordAttempt
<1>4. CASE CreateRun(c) \/ ReadPrior(c) \/ Publish(c)
  BY <1>4 DEF CreateRun, ReadPrior, Publish
<1>5. CASE DecodeFails(c) \/ Block(c) \/ RecordSuccess(c)
  BY <1>5 DEF DecodeFails, Block, RecordSuccess, RecordOutcome
<1>6. CASE \E k \in Periods : WriteCandidate(c, k) \/ CandidateRefused(c, k)
  BY <1>6 DEF WriteCandidate, CandidateRefused
<1>7. QED
  BY <1>2, <1>3, <1>4, <1>5, <1>6 DEF Step

\* A run does not stay pending under a call that returned or whose bytes did
\* not decode (gate.go:42).
THEOREM PendingRunsAreExplained == Spec => []PendingExplained
<1> DEFINE AllSettled == \A c \in Calls : Settled(c)
<1>1. Init => AllSettled
  BY DEF Init, Settled
<1>2. InductiveInvariant /\ AllSettled /\ [Next]_vars => AllSettled'
  <2>1. SUFFICES ASSUME InductiveInvariant, AllSettled, [Next]_vars, NEW d \in Calls
                 PROVE  Settled(d)'
    OBVIOUS
  <2>2. ASSUME NEW c \in Calls, Step(c) PROVE Settled(d)'
    <3>1. CASE c = d
      BY <2>2, <3>1, <2>1, OwnSettled
    <3>2. CASE c # d
      BY <2>1, <2>2, <3>2, OthersStandBy DEF Bystander, Settled
    <3>3. QED
      BY <3>1, <3>2
  <2>3. ASSUME NEW c \in Calls, Stop(c) PROVE Settled(d)'
    BY <2>1, <2>3 DEF Stop, Goto, rows, Settled, InductiveInvariant, TypeOK
  <2>4. CASE UNCHANGED vars \/ \E r \in Calls : RollBack(r)
    BY <2>1, <2>4 DEF RollBack, vars, rows, Settled
  <2>5. QED
    BY <2>1, <2>2, <2>3, <2>4 DEF Next
<1>3. InductiveInvariant /\ AllSettled => PendingExplained
  <2>1. SUFFICES ASSUME InductiveInvariant, AllSettled, NEW c \in DOMAIN runs,
                        runs[c].outcome = "pending"
                 PROVE  pc[c] \in InRun \cup {"stopped", "refused"}
    BY DEF PendingExplained
  <2>2. /\ c \in Calls /\ pc[c] \in Stages
        /\ CallRecords(c) /\ Settled(c)
    BY <2>1 DEF InductiveInvariant, RecordsInv, TypeOK
  <2>3. QED
    BY <2>1, <2>2 DEF CallRecords, Settled, Stages, Ended, InRun, Unlogged
<1> HIDE DEF AllSettled
<1>4. QED
  BY <1>1, <1>2, <1>3, Inductive, PTL DEF Spec

-----------------------------------------------------------------------------
(* A call ends *)

\* Where a call is in the order of its statements.
PlaceOf ==
  [s \in Stages |->
     CASE s = "fetch" -> 9
       [] s = "putFile" -> 8
       [] s = "recordFile" -> 7
       [] s = "recordAttempt" -> 6
       [] s = "publishListing" -> 5
       [] s = "createRun" -> 4
       [] s = "decode" -> 3
       [] s = "gate" -> 2
       [] s \in {"publish", "recordFailure"} -> 1
       [] s \in Ended -> 0]

\* The statements that a call has still to execute, at most.
StatementsLeft(c) ==
  PlaceOf[pc[c]]
    + (IF pc[c] \in Ended \cup {"recordFailure"} THEN 0
       ELSE IF pc[c] = "publish" THEN Cardinality(left[c])
       ELSE Cardinality(Periods))

\* Whatever other calls and operators do, a call at its publish loop has for
\* every candidate left either the write or the refusal to do next: the loop
\* never waits (gate.go:130).
LoopGoesOn ==
  \A c \in Calls : pc[c] = "publish" =>
    \A k \in left[c] :
      \/ /\ k \in DOMAIN Current => Current[k] # Incoming(c)[k]
         /\ Incoming(c)[k] = NoValue \/ Frozen(k)
      \/ /\ Incoming(c)[k] # NoValue
         /\ \/ k \in DOMAIN Current /\ Current[k] = Incoming(c)[k]
            \/ /\ standing[k] = Len(chain[k])
               /\ standing[k] > 0 => chain[k][standing[k]].content # Incoming(c)[k]

\* Any set of periods has a greatest, so there are finitely many.
LEMMA PeriodsFinite == IsFiniteSet(Periods)
<1>1. CASE Periods = {}
  BY <1>1, FS_EmptySet
<1>2. CASE Periods # {}
  <2>1. PICK p \in Periods : \A q \in Periods : q <= p
    BY <1>2, PeriodsAssumption
  <2>2. QED
    BY <2>1, PeriodsAssumption, FS_BoundedSetOfNaturals
<1>3. QED
  BY <1>1, <1>2

\* Some of the periods are no more than all of them.
LEMMA SomePeriods ==
  ASSUME NEW S \in SUBSET Periods
  PROVE  /\ IsFiniteSet(S) /\ Cardinality(S) \in Nat
         /\ Cardinality(Periods) \in Nat
         /\ Cardinality(S) <= Cardinality(Periods)
BY PeriodsFinite, FS_Subset, FS_CardinalityType

\* A call has nine statements beside those of its loop.
LEMMA PlaceIsNumber == \A s \in Stages : PlaceOf[s] \in 0..9
BY DEF PlaceOf, Stages, Ended

\* One more than the place before, and the loop counted as long as it can be.
LEMMA StatementsLeftBounded ==
  ASSUME InductiveInvariant, NEW c \in Calls
  PROVE  /\ StatementsLeft(c) \in 0 .. 9 + Cardinality(Periods)
         /\ StatementsLeft(c) = 0 => pc[c] \in Ended
<1>1. pc[c] \in Stages /\ left[c] \in SUBSET Periods
  BY DEF InductiveInvariant, TypeOK
<1>2. /\ Cardinality(left[c]) \in 0 .. Cardinality(Periods)
      /\ Cardinality(Periods) \in Nat
  BY <1>1, SomePeriods
<1>3. PlaceOf[pc[c]] \in 0..9
  BY <1>1, PlaceIsNumber
<1>4. StatementsLeft(c) \in 0 .. 9 + Cardinality(Periods)
  BY <1>2, <1>3 DEF StatementsLeft
<1>5. pc[c] \notin Ended => PlaceOf[pc[c]] > 0
  BY <1>1 DEF PlaceOf, Stages, Ended
<1>6. QED
  BY <1>2, <1>3, <1>4, <1>5 DEF StatementsLeft

\* A statement moves its call on to a later place, or makes its loop shorter.
LEMMA StatementIsProgress ==
  ASSUME InductiveInvariant, NEW c \in Calls, Step(c)
  PROVE  StatementsLeft(c)' < StatementsLeft(c)
<1> DEFINE N == Cardinality(Periods)
<1>1. TypeOK /\ pc[c] \in Stages
  BY DEF InductiveInvariant, TypeOK
<1>2. left[c] \in SUBSET Periods /\ left'[c] \in SUBSET Periods
  BY TypeStep DEF InductiveInvariant, TypeOK
<1>3. /\ N \in Nat /\ IsFiniteSet(left[c])
      /\ Cardinality(left[c]) \in Nat
      /\ Cardinality(left'[c]) \in Nat /\ Cardinality(left'[c]) <= N
  BY <1>2, SomePeriods
<1>4. /\ PlaceOf["fetch"] = 9 /\ PlaceOf["putFile"] = 8
      /\ PlaceOf["recordFile"] = 7 /\ PlaceOf["recordAttempt"] = 6
      /\ PlaceOf["publishListing"] = 5 /\ PlaceOf["createRun"] = 4
      /\ PlaceOf["decode"] = 3 /\ PlaceOf["gate"] = 2
      /\ PlaceOf["publish"] = 1 /\ PlaceOf["recordFailure"] = 1
      /\ PlaceOf["done"] = 0 /\ PlaceOf["failed"] = 0 /\ PlaceOf["refused"] = 0
  BY DEF PlaceOf, Stages, Ended
<1> HIDE DEF N
<1>5. ASSUME NEW a \in {"fetch", "putFile", "recordFile", "recordAttempt",
                        "publishListing", "createRun", "decode"},
             NEW b \in {"putFile", "recordFile", "recordAttempt",
                        "publishListing", "createRun", "decode", "gate"},
             pc[c] = a, pc'[c] = b, PlaceOf[b] < PlaceOf[a]
      PROVE  StatementsLeft(c)' < StatementsLeft(c)
  <2>1. StatementsLeft(c) = PlaceOf[a] + N /\ StatementsLeft(c)' = PlaceOf[b] + N
    BY <1>5 DEF StatementsLeft, Ended, N
  <2>2. PlaceOf[a] \in Nat /\ PlaceOf[b] \in Nat
    BY <1>4
  <2>3. QED
    BY <1>3, <1>5, <2>1, <2>2
<1>6. ASSUME NEW b \in {"done", "failed", "refused"},
             pc[c] \in {"recordFailure", "decode", "gate", "publish"}, pc'[c] = b
      PROVE  StatementsLeft(c)' < StatementsLeft(c)
  <2>1. StatementsLeft(c)' = 0
    BY <1>4, <1>6 DEF StatementsLeft, Ended
  <2>2. StatementsLeft(c) \in Nat /\ StatementsLeft(c) # 0
    BY <1>3, <1>6, StatementsLeftBounded DEF Ended, N
  <2>3. QED
    BY <2>1, <2>2
<1>7. CASE FetchFails(c)
  <2>1. pc[c] = "fetch" /\ pc'[c] = "recordFailure"
    BY <1>1, <1>7 DEF FetchFails, Goto, TypeOK
  <2>2. StatementsLeft(c) = 9 + N /\ StatementsLeft(c)' = 1
    BY <1>4, <2>1 DEF StatementsLeft, Ended, N
  <2>3. QED
    BY <1>3, <2>2
<1>8. CASE \E p \in Payloads : Fetch(c, p)
  BY <1>1, <1>4, <1>5, <1>8 DEF Fetch, Goto, TypeOK
<1>9. CASE PutFile(c) \/ RecordRawFile(c)
  BY <1>1, <1>4, <1>5, <1>9 DEF PutFile, RecordRawFile, Goto, TypeOK
<1>10. CASE RecordAttempt(c) \/ PublishListing(c)
  BY <1>1, <1>4, <1>5, <1>10 DEF RecordAttempt, PublishListing, Goto, TypeOK
<1>11. CASE CreateRun(c) \/ ReadPrior(c)
  BY <1>1, <1>4, <1>5, <1>11 DEF CreateRun, ReadPrior, Goto, TypeOK
<1>12. CASE RecordFailedAttempt(c) \/ DecodeFails(c) \/ Block(c) \/ RecordSuccess(c)
  BY <1>1, <1>6, <1>12
  DEF RecordFailedAttempt, DecodeFails, Block, RecordSuccess, Goto, TypeOK
<1>13. CASE Publish(c)
  <2>1. pc[c] = "gate" /\ pc'[c] = "publish"
    BY <1>1, <1>13 DEF Publish, Goto, TypeOK
  <2>2. /\ StatementsLeft(c) = 2 + N
        /\ StatementsLeft(c)' = 1 + Cardinality(left'[c])
    BY <1>4, <2>1 DEF StatementsLeft, Ended, N
  <2>3. QED
    BY <1>3, <2>2
<1>14. ASSUME NEW k \in Periods, CandidateRefused(c, k)
       PROVE  StatementsLeft(c)' < StatementsLeft(c)
  BY <1>1, <1>6, <1>14 DEF CandidateRefused, Goto, TypeOK
<1>15. ASSUME NEW k \in Periods, WriteCandidate(c, k)
       PROVE  StatementsLeft(c)' < StatementsLeft(c)
  <2>1. /\ pc[c] = "publish" /\ pc'[c] = "publish" /\ k \in left[c]
        /\ left'[c] = left[c] \ {k}
    BY <1>1, <1>15 DEF WriteCandidate, Written, TypeOK
  <2>2. Cardinality(left'[c]) = Cardinality(left[c]) - 1
    BY <1>3, <2>1, FS_RemoveElement
  <2>3. /\ StatementsLeft(c) = 1 + Cardinality(left[c])
        /\ StatementsLeft(c)' = 1 + Cardinality(left'[c])
    BY <1>4, <2>1 DEF StatementsLeft, Ended
  <2>4. QED
    BY <1>3, <2>2, <2>3
<1>16. QED
  BY <1>7, <1>8, <1>9, <1>10, <1>11, <1>12, <1>13, <1>14, <1>15 DEF Step

\* Every statement of a call is one of at most 9 and one per period: no order
\* of overlapping calls and rollbacks lets it go round (ingest.go:169,
\* gate.go:130).
THEOREM CallsAreFinite ==
  Spec => [][\A c \in Calls : Step(c) =>
               /\ StatementsLeft(c) \in 1 .. 9 + Cardinality(Periods)
               /\ StatementsLeft(c)' \in 0 .. StatementsLeft(c) - 1]_vars
<1> DEFINE Shrinks == \A c \in Calls : Step(c) =>
                        /\ StatementsLeft(c) \in 1 .. 9 + Cardinality(Periods)
                        /\ StatementsLeft(c)' \in 0 .. StatementsLeft(c) - 1
<1>1. InductiveInvariant /\ [Next]_vars => Shrinks
  <2>1. SUFFICES ASSUME InductiveInvariant, NEW c \in Calls, Step(c)
                 PROVE  /\ StatementsLeft(c) \in 1 .. 9 + Cardinality(Periods)
                        /\ StatementsLeft(c)' \in 0 .. StatementsLeft(c) - 1
    OBVIOUS
  <2>2. /\ StatementsLeft(c) \in 0 .. 9 + Cardinality(Periods)
        /\ StatementsLeft(c)' < StatementsLeft(c)
    BY <2>1, StatementsLeftBounded, StatementIsProgress
  <2>3. pc'[c] \in Stages /\ left'[c] \in SUBSET Periods
    BY <2>1, TypeStep DEF TypeOK
  <2>4. /\ PlaceOf[pc'[c]] \in Nat /\ Cardinality(left'[c]) \in Nat
        /\ Cardinality(Periods) \in Nat
    BY <2>3, PlaceIsNumber, SomePeriods
  <2>5. StatementsLeft(c)' \in Nat
    BY <2>4 DEF StatementsLeft
  <2>6. QED
    BY <2>2, <2>4, <2>5
<1>2. QED
  BY <1>1, Inductive, PTL DEF Spec

\* A call in the publish loop always has a statement to execute: a candidate
\* is equal to the published value, refused, or the next vintage, and with
\* none left the run is recorded (gate.go:130).
THEOREM LoopGoesOnHolds == Spec => []LoopGoesOn
<1>1. InductiveInvariant => LoopGoesOn
  <2>1. SUFFICES ASSUME InductiveInvariant, NEW c \in Calls, pc[c] = "publish",
                        NEW k \in left[c],
                        ~ /\ k \in DOMAIN Current => Current[k] # Incoming(c)[k]
                          /\ Incoming(c)[k] = NoValue \/ Frozen(k)
                 PROVE  /\ Incoming(c)[k] # NoValue
                        /\ \/ k \in DOMAIN Current /\ Current[k] = Incoming(c)[k]
                           \/ /\ standing[k] = Len(chain[k])
                              /\ standing[k] > 0 =>
                                   chain[k][standing[k]].content # Incoming(c)[k]
    BY DEF LoopGoesOn
  <2>2. k \in Periods /\ standing[k] \in Nat /\ Len(chain[k]) \in Nat
    BY <2>1 DEF InductiveInvariant, TypeOK, Store!TypeOK
  <2>3. standing[k] <= Len(chain[k])
    BY <2>1, <2>2 DEF InductiveInvariant, StandingInv
  <2>4. CASE k \in DOMAIN Current /\ Current[k] = Incoming(c)[k]
    <3>1. chain[k][standing[k]] \in Store!Vintage
      BY <2>1, <2>2, <2>3, <2>4 DEF Current, InductiveInvariant, TypeOK, Store!TypeOK
    <3>2. Current[k] \in Values
      BY <2>4, <3>1 DEF Current, Store!Vintage
    <3>3. QED
      BY <2>4, <3>2, NoValueAssumption
  <2>5. CASE ~(k \in DOMAIN Current /\ Current[k] = Incoming(c)[k])
    <3>1. Incoming(c)[k] # NoValue /\ ~Frozen(k)
      BY <2>1, <2>5
    <3>2. standing[k] = Len(chain[k])
      BY <2>2, <2>3, <3>1 DEF Frozen
    <3>3. standing[k] > 0 => chain[k][standing[k]].content # Incoming(c)[k]
      BY <2>2, <2>5 DEF Current
    <3>4. QED
      BY <3>1, <3>2, <3>3
  <2>6. QED
    BY <2>4, <2>5
<1>2. QED
  BY <1>1, Inductive, PTL
=============================================================================
