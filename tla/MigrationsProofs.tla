-------------------------- MODULE MigrationsProofs --------------------------
(***************************************************************************)
(* What the migrate command keeps true of the database, proved for every   *)
(* number of files and every set of calls.                                 *)
(***************************************************************************)
EXTENDS Migrations, FiniteSetTheorems, WellFoundedInduction, TLAPS

AtAFile(c) == pc[c] \in {"schema", "record"}

\* A call at a file has one to run; Status never is; a call that was cut off
\* stays as it was, its target included.
CallShape ==
  /\ \A c \in Calls : AtAFile(c) => todo[c] # {} /\ kind[c] # "status"
  /\ \A c \in cuts : pc[c] = "stopped"
  /\ IsFiniteSet(cuts)

NoUpWithDown ==
  \A c, d \in Calls :
    UnderWay(c) /\ UnderWay(d) => ~(kind[c] = "up" /\ kind[d] = "down")

\* Only Ups are under way with an Up: what it did not have to do is still
\* recorded, and the file it has run is still in the schema.
UpKnows ==
  \A c \in Calls : AtAFile(c) /\ kind[c] = "up" =>
    /\ Versions \ todo[c] \subseteq recorded
    /\ pc[c] = "record" => Target(c) \in schema

\* Only Downs are under way with a Down: its one target is still the greatest
\* version recorded, and what it has taken away has not come back.
DownKnows ==
  \A c \in Calls : AtAFile(c) /\ kind[c] = "down" =>
    /\ todo[c] = {Target(c)}
    /\ \A v \in recorded : v <= Target(c)
    /\ pc[c] = "record" => Target(c) \notin schema

\* What is wrong with a version is the doing of a call cut off at it.
DriftCut == Drift \subseteq {Target(c) : c \in cuts}

MigrationInv ==
  /\ TypeOK
  /\ CallShape
  /\ ~mixed => NoUpWithDown /\ UpKnows /\ DownKnows /\ DriftCut

-----------------------------------------------------------------------------
(* Least and greatest elements: a smallest segment of the set exists, since *)
(* its subsets are well founded by inclusion.                              *)

\* A set of subsets of a finite set has one that contains no other.
LEMMA SmallestSegment ==
  ASSUME NEW T, IsFiniteSet(T), NEW F, F \subseteq SUBSET T, F # {}
  PROVE  \E A \in F : \A B \in F : <<B, A>> \notin StrictSubsetOrdering(T)
<1>1. F \subseteq FiniteSubsetsOf(T)
  BY FS_FiniteSubsetsOfFinite
<1>2. IsWellFoundedOn(StrictSubsetOrdering(T), FiniteSubsetsOf(T))
  BY FS_StrictSubsetOrderingWellFounded
<1>3. QED
  BY <1>1, <1>2, WFMin

\* A set of bounded numbers is finite.
LEMMA BoundedIsFinite ==
  ASSUME NEW n \in Nat, NEW T, T \subseteq 1..n
  PROVE  IsFiniteSet(T)
<1>1. IsFiniteSet(1..n)
  BY FS_Interval
<1>2. QED
  BY <1>1, FS_Subset

\* A set of bounded numbers has a greatest and a least.
LEMMA GreatestExists ==
  ASSUME NEW n \in Nat, NEW T, T \subseteq 1..n, T # {}
  PROVE  \E v \in T : \A w \in T : v >= w
<1> DEFINE From(v) == {w \in T : w >= v}
           F == {From(v) : v \in T}
<1>1. F \subseteq SUBSET T /\ F # {}
  OBVIOUS
<1>2. PICK A \in F : \A B \in F : <<B, A>> \notin StrictSubsetOrdering(T)
  <2>1. IsFiniteSet(T)
    BY BoundedIsFinite
  <2> HIDE DEF F
  <2>2. QED
    BY <1>1, <2>1, SmallestSegment
<1>3. PICK v \in T : A = From(v)
  OBVIOUS
<1>4. ASSUME NEW w \in T, ~(v >= w) PROVE FALSE
  <2>1. v \in Nat /\ w \in Nat /\ w > v
    BY <1>3, <1>4
  <2>2. v \in From(v) /\ v \notin From(w)
    BY <1>3, <2>1
  <2>3. ASSUME NEW x \in From(w) PROVE x \in From(v)
    <3>1. x \in T /\ x \in Nat /\ x >= w
      BY <2>3
    <3>2. x >= v
      BY <2>1, <3>1
    <3>3. QED
      BY <3>1, <3>2
  <2>4. From(w) \in F /\ <<From(w), A>> \in StrictSubsetOrdering(T)
    BY <1>3, <1>4, <2>2, <2>3 DEF StrictSubsetOrdering
  <2>5. QED
    BY <1>2, <2>4
<1>5. QED
  BY <1>4

LEMMA LeastExists ==
  ASSUME NEW n \in Nat, NEW T, T \subseteq 1..n, T # {}
  PROVE  \E v \in T : \A w \in T : v <= w
<1> DEFINE Upto(v) == {w \in T : w <= v}
           F == {Upto(v) : v \in T}
<1>1. F \subseteq SUBSET T /\ F # {}
  OBVIOUS
<1>2. PICK A \in F : \A B \in F : <<B, A>> \notin StrictSubsetOrdering(T)
  <2>1. IsFiniteSet(T)
    BY BoundedIsFinite
  <2> HIDE DEF F
  <2>2. QED
    BY <1>1, <2>1, SmallestSegment
<1>3. PICK v \in T : A = Upto(v)
  OBVIOUS
<1>4. ASSUME NEW w \in T, ~(v <= w) PROVE FALSE
  <2>1. v \in Nat /\ w \in Nat /\ w < v
    BY <1>3, <1>4
  <2>2. v \in Upto(v) /\ v \notin Upto(w)
    BY <1>3, <2>1
  <2>3. ASSUME NEW x \in Upto(w) PROVE x \in Upto(v)
    <3>1. x \in T /\ x \in Nat /\ x <= w
      BY <2>3
    <3>2. x <= v
      BY <2>1, <3>1
    <3>3. QED
      BY <3>1, <3>2
  <2>4. Upto(w) \in F /\ <<Upto(w), A>> \in StrictSubsetOrdering(T)
    BY <1>3, <1>4, <2>2, <2>3 DEF StrictSubsetOrdering
  <2>5. QED
    BY <1>2, <2>4
<1>5. QED
  BY <1>4

\* The greatest and the least of a set of versions are in it and bound it.
LEMMA MaxOfVersions ==
  ASSUME NEW T, T \subseteq Versions, T # {}
  PROVE  Max(T) \in T /\ \A v \in T : v <= Max(T)
<1>1. Last \in Nat /\ T \subseteq 1..Last
  BY LastAssumption DEF Versions
<1>2. \E v \in T : \A w \in T : v >= w
  BY <1>1, GreatestExists
<1>3. Max(T) \in T /\ \A w \in T : Max(T) >= w
  BY <1>2 DEF Max
<1>4. QED
  BY <1>1, <1>3

LEMMA MinOfVersions ==
  ASSUME NEW T, T \subseteq Versions, T # {}
  PROVE  Min(T) \in T
<1>1. Last \in Nat /\ T \subseteq 1..Last
  BY LastAssumption DEF Versions
<1>2. \E v \in T : \A w \in T : v <= w
  BY <1>1, LeastExists
<1>3. QED
  BY <1>2 DEF Min

\* A call at a file is at one it has to run.
LEMMA TargetIsToDo ==
  ASSUME TypeOK, CallShape, NEW c \in Calls, AtAFile(c)
  PROVE  Target(c) \in todo[c] /\ Target(c) \in Versions
<1>1. todo[c] \subseteq Versions /\ todo[c] # {}
  BY DEF TypeOK, CallShape
<1>2. QED
  BY <1>1, MinOfVersions DEF Target

\* A set of one version has that one for its least.
LEMMA SingleTarget ==
  ASSUME NEW v \in Versions
  PROVE  Min({v}) = v
BY MinOfVersions

-----------------------------------------------------------------------------

\* The invariant holds initially.
LEMMA InitInv == Init => MigrationInv
<1> SUFFICES ASSUME Init PROVE MigrationInv
  OBVIOUS
<1>1. TypeOK
  BY DEF Init, TypeOK, Kinds, Ended
<1>2. CallShape
  BY FS_EmptySet DEF Init, CallShape, AtAFile
<1>3. NoUpWithDown /\ UpKnows /\ DownKnows
  BY DEF Init, NoUpWithDown, UpKnows, DownKnows, AtAFile, UnderWay
<1>4. DriftCut
  BY DEF Init, DriftCut, Drift
<1>5. QED
  BY <1>1, <1>2, <1>3, <1>4 DEF MigrationInv

\* A step of one call leaves the others where they are.
LEMMA OthersStay ==
  ASSUME TypeOK, NEW c \in Calls, Step(c), NEW d \in Calls, d # c
  PROVE  UNCHANGED <<pc[d], todo[d], Target(d), AtAFile(d), UnderWay(d)>>
<1>1. pc'[d] = pc[d] /\ todo'[d] = todo[d]
  BY DEF TypeOK, Step, Begin, ReadApplied, RunFile, FileRefused, Record,
         RecordRefused, Stop, Goto
<1>2. QED
  BY <1>1 DEF Target, AtAFile, UnderWay

\* Every step of a call keeps the types.
LEMMA StepTypeOK ==
  ASSUME TypeOK, CallShape, NEW c \in Calls, Step(c)
  PROVE  TypeOK'
<1>1. CASE Begin(c)
  BY <1>1 DEF TypeOK, Begin, Goto, db
<1>2. CASE ReadApplied(c)
  <2>1. TargetsOf(kind[c], recorded) \subseteq Versions
    BY MaxOfVersions DEF TypeOK, TargetsOf, Kinds
  <2>2. todo' \in [Calls -> SUBSET Versions]
    BY <1>2, <2>1 DEF TypeOK, ReadApplied
  <2>3. pc' \in [Calls -> {"idle", "read", "schema", "record"} \cup Ended]
    BY <1>2 DEF TypeOK, ReadApplied, Goto, Ended
  <2>4. QED
    BY <1>2, <2>2, <2>3 DEF TypeOK, ReadApplied, db, history
<1>3. CASE RunFile(c)
  <2>1. Target(c) \in Versions
    BY <1>3, TargetIsToDo DEF RunFile, AtAFile
  <2>2. kind[c] = "up" \/ kind[c] = "down"
    BY <1>3 DEF TypeOK, CallShape, RunFile, AtAFile, Kinds
  <2>3. schema' \subseteq Versions
    BY <1>3, <2>1, <2>2 DEF TypeOK, RunFile, SchemaAfter
  <2>4. QED
    BY <1>3, <2>3 DEF TypeOK, RunFile, Goto, history
<1>4. CASE FileRefused(c) \/ RecordRefused(c)
  BY <1>4 DEF TypeOK, FileRefused, RecordRefused, Goto, Ended, db, history
<1>5. CASE Record(c)
  <2>1. Target(c) \in Versions
    BY <1>5, TargetIsToDo DEF Record, AtAFile
  <2>2. recorded' \subseteq Versions
    BY <1>5, <2>1 DEF TypeOK, Record
  <2>3. todo' \in [Calls -> SUBSET Versions]
    BY <1>5 DEF TypeOK, Record
  <2>4. pc' \in [Calls -> {"idle", "read", "schema", "record"} \cup Ended]
    BY <1>5 DEF TypeOK, Record, Goto, Ended
  <2>5. QED
    BY <1>5, <2>2, <2>3, <2>4 DEF TypeOK, Record, history
<1>6. CASE Stop(c)
  BY <1>6 DEF TypeOK, Stop, Goto, Ended, db
<1>7. QED
  BY <1>1, <1>2, <1>3, <1>4, <1>5, <1>6 DEF Step

\* A call at a file has one to run, and a call cut off stays as it was.
LEMMA StepCallShape ==
  ASSUME TypeOK, CallShape, NEW c \in Calls, Step(c)
  PROVE  CallShape'
<1>1. ASSUME NEW d \in Calls, AtAFile(d)'
      PROVE  todo'[d] # {} /\ kind'[d] # "status"
  <2>1. CASE d # c
    BY <1>1, <2>1, OthersStay
       DEF CallShape, Step, Begin, ReadApplied, RunFile, FileRefused, Record,
           RecordRefused, Stop
  <2>2. CASE d = c
    <3>1. CASE ReadApplied(c)
      <4>1. todo'[c] # {}
        BY <1>1, <2>2, <3>1 DEF TypeOK, ReadApplied, Goto, AtAFile
      <4>2. kind[c] # "status"
        BY <3>1, <4>1 DEF TypeOK, ReadApplied, TargetsOf
      <4>3. QED
        BY <2>2, <3>1, <4>1, <4>2 DEF ReadApplied
    <3>2. CASE RunFile(c) \/ Record(c)
      BY <1>1, <2>2, <3>2
         DEF TypeOK, CallShape, RunFile, Record, Goto, AtAFile
    <3>3. CASE Begin(c) \/ FileRefused(c) \/ RecordRefused(c) \/ Stop(c)
      BY <1>1, <2>2, <3>3
         DEF TypeOK, Begin, FileRefused, RecordRefused, Stop, Goto, AtAFile
    <3>4. QED
      BY <3>1, <3>2, <3>3 DEF Step
  <2>3. QED
    BY <2>1, <2>2
<1>2. (\A d \in cuts : pc[d] = "stopped")' /\ IsFiniteSet(cuts')
  <2>1. CASE Stop(c)
    <3>1. IsFiniteSet(cuts \cup {c})
      BY FS_AddElement DEF CallShape
    <3>2. \A d \in cuts : pc'[d] = "stopped"
      BY <2>1 DEF TypeOK, CallShape, Stop, Goto
    <3>3. QED
      BY <2>1, <3>1, <3>2 DEF TypeOK, CallShape, Stop, Goto
  <2>2. CASE ~Stop(c)
    <3>1. cuts' = cuts /\ pc[c] # "stopped"
      BY <2>2 DEF Step, Begin, ReadApplied, RunFile, FileRefused, Record,
                  RecordRefused, history
    <3>2. \A d \in cuts : d \in Calls /\ d # c
      BY <3>1 DEF TypeOK, CallShape
    <3>3. QED
      BY <3>1, <3>2, OthersStay DEF CallShape
  <2>3. QED
    BY <2>1, <2>2
<1>3. QED
  BY <1>1, <1>2 DEF CallShape

-----------------------------------------------------------------------------
(* What Ups and Downs know, as long as none of them overlaps the other.    *)

\* No Up is under way with a Down.
LEMMA StepApart ==
  ASSUME TypeOK, NoUpWithDown, NEW c \in Calls, Step(c), ~mixed'
  PROVE  NoUpWithDown'
<1>1. kind' = kind
  BY DEF Step, Begin, ReadApplied, RunFile, FileRefused, Record, RecordRefused,
         Stop
<1>2. ASSUME NEW d \in Calls, NEW e \in Calls, UnderWay(d)', UnderWay(e)',
             kind[d] = "up", kind[e] = "down"
      PROVE  FALSE
  <2>1. CASE d # c /\ e # c
    BY <1>2, <2>1, OthersStay DEF NoUpWithDown
  <2>2. CASE ~Begin(c)
    <3>1. UnderWay(c)
      BY <2>2 DEF Step, ReadApplied, RunFile, FileRefused, Record,
                  RecordRefused, Stop, UnderWay, Ended
    <3>2. UnderWay(d) /\ UnderWay(e)
      BY <1>2, <3>1, OthersStay
    <3>3. QED
      BY <1>2, <3>2 DEF NoUpWithDown
  <2>3. CASE Begin(c) /\ d = c
    <3>1. e # c /\ UnderWay(e)
      BY <1>2, <2>3, OthersStay
    <3>2. {kind[c], kind[e]} = {"up", "down"}
      BY <1>2, <2>3
    <3>3. QED
      BY <2>3, <3>1, <3>2 DEF Begin
  <2>4. CASE Begin(c) /\ e = c
    <3>1. d # c /\ UnderWay(d)
      BY <1>2, <2>4, OthersStay
    <3>2. {kind[c], kind[d]} = {"up", "down"}
      BY <1>2, <2>4
    <3>3. QED
      BY <2>4, <3>1, <3>2 DEF Begin
  <2>5. QED
    BY <2>1, <2>2, <2>3, <2>4
<1>3. QED
  BY <1>1, <1>2 DEF NoUpWithDown

\* Who changes the database is at a file, hence no Down while an Up is under
\* way and no Up while a Down is.
LEMMA DatabaseSteps ==
  ASSUME TypeOK, CallShape, NoUpWithDown, NEW c \in Calls, Step(c)
  PROVE  /\ \A d \in Calls : AtAFile(d) /\ kind[d] = "up" =>
              schema \subseteq schema' /\ recorded \subseteq recorded'
         /\ \A d \in Calls : AtAFile(d) /\ kind[d] = "down" =>
              schema' \subseteq schema /\ recorded' \subseteq recorded
<1>1. CASE RunFile(c) \/ Record(c)
  <2>1. AtAFile(c) /\ UnderWay(c)
    BY <1>1 DEF RunFile, Record, AtAFile, UnderWay, Ended
  <2>2. \A d \in Calls : AtAFile(d) => UnderWay(d)
    BY DEF AtAFile, UnderWay, Ended
  <2>3. kind[c] = "up" \/ kind[c] = "down"
    BY <2>1 DEF TypeOK, CallShape, Kinds
  <2>4. kind[c] = "up" => schema \subseteq schema' /\ recorded \subseteq recorded'
    BY <1>1 DEF RunFile, Record, SchemaAfter
  <2>5. kind[c] = "down" => schema' \subseteq schema /\ recorded' \subseteq recorded
    BY <1>1 DEF RunFile, Record, SchemaAfter
  <2>6. QED
    BY <2>1, <2>2, <2>3, <2>4, <2>5 DEF NoUpWithDown
<1>2. CASE ~(RunFile(c) \/ Record(c))
  BY <1>2 DEF Step, Begin, ReadApplied, FileRefused, RecordRefused, Stop, db
<1>3. QED
  BY <1>1, <1>2

\* What an Up relies on stays while it is under way.
LEMMA StepUpKnows ==
  ASSUME TypeOK, CallShape, NoUpWithDown, UpKnows, NEW c \in Calls, Step(c)
  PROVE  UpKnows'
<1>1. kind' = kind
  BY DEF Step, Begin, ReadApplied, RunFile, FileRefused, Record, RecordRefused,
         Stop
<1>2. ASSUME NEW d \in Calls, AtAFile(d)', kind[d] = "up"
      PROVE  /\ Versions \ todo'[d] \subseteq recorded'
             /\ pc'[d] = "record" => Target(d)' \in schema'
  <2>1. CASE d # c
    <3>1. AtAFile(d) /\ UNCHANGED <<pc[d], todo[d], Target(d)>>
      BY <1>2, <2>1, OthersStay
    <3>2. schema \subseteq schema' /\ recorded \subseteq recorded'
      BY <1>2, <3>1, DatabaseSteps
    <3>3. QED
      BY <1>2, <3>1, <3>2 DEF UpKnows
  <2>2. CASE d = c
    <3>1. CASE ReadApplied(c)
      BY <1>2, <2>2, <3>1 DEF TypeOK, ReadApplied, TargetsOf, Goto, db
    <3>2. CASE RunFile(c)
      <4>1. /\ UNCHANGED <<todo, recorded>> /\ AtAFile(c)
            /\ schema' = schema \cup {Target(c)}
        BY <1>2, <2>2, <3>2 DEF RunFile, SchemaAfter, AtAFile
      <4>2. Target(c)' = Target(c)
        BY <4>1 DEF Target
      <4>3. QED
        BY <1>2, <2>2, <4>1, <4>2 DEF UpKnows
    <3>3. CASE Record(c)
      <4>1. /\ recorded' = recorded \cup {Target(c)} /\ AtAFile(c)
            /\ todo'[c] = todo[c] \ {Target(c)} /\ pc'[c] # "record"
        BY <1>2, <2>2, <3>3 DEF TypeOK, Record, Goto, AtAFile
      <4>2. QED
        BY <1>2, <2>2, <4>1 DEF UpKnows
    <3>4. CASE Begin(c) \/ FileRefused(c) \/ RecordRefused(c) \/ Stop(c)
      BY <1>2, <2>2, <3>4
         DEF TypeOK, Begin, FileRefused, RecordRefused, Stop, Goto, AtAFile
    <3>5. QED
      BY <3>1, <3>2, <3>3, <3>4 DEF Step
  <2>3. QED
    BY <2>1, <2>2
<1>3. QED
  BY <1>1, <1>2 DEF UpKnows

\* What a Down relies on stays while it is under way.
LEMMA StepDownKnows ==
  ASSUME TypeOK, CallShape, NoUpWithDown, DownKnows, NEW c \in Calls, Step(c)
  PROVE  DownKnows'
<1>1. kind' = kind
  BY DEF Step, Begin, ReadApplied, RunFile, FileRefused, Record, RecordRefused,
         Stop
<1>2. ASSUME NEW d \in Calls, AtAFile(d)', kind[d] = "down"
      PROVE  /\ todo'[d] = {Target(d)'}
             /\ \A v \in recorded' : v <= Target(d)'
             /\ pc'[d] = "record" => Target(d)' \notin schema'
  <2>1. CASE d # c
    <3>1. AtAFile(d) /\ UNCHANGED <<pc[d], todo[d], Target(d)>>
      BY <1>2, <2>1, OthersStay
    <3>2. schema' \subseteq schema /\ recorded' \subseteq recorded
      BY <1>2, <3>1, DatabaseSteps
    <3>3. QED
      BY <1>2, <3>1, <3>2 DEF DownKnows
  <2>2. CASE d = c
    <3>1. CASE ReadApplied(c)
      <4>1. /\ pc'[c] = "schema" /\ recorded # {} /\ recorded' = recorded
            /\ todo'[c] = {Max(recorded)}
        BY <1>2, <2>2, <3>1
           DEF TypeOK, ReadApplied, TargetsOf, Goto, AtAFile, db
      <4>2. Max(recorded) \in Versions /\ \A v \in recorded : v <= Max(recorded)
        BY <4>1, MaxOfVersions DEF TypeOK
      <4>3. Target(c)' = Max(recorded)
        BY <4>1, <4>2, SingleTarget DEF Target
      <4>4. QED
        BY <2>2, <4>1, <4>2, <4>3
    <3>2. CASE RunFile(c)
      <4>1. /\ UNCHANGED <<todo, recorded>> /\ AtAFile(c)
            /\ Target(c) \notin schema'
        BY <1>2, <2>2, <3>2 DEF RunFile, SchemaAfter, AtAFile
      <4>2. Target(c)' = Target(c)
        BY <4>1 DEF Target
      <4>3. QED
        BY <1>2, <2>2, <4>1, <4>2 DEF DownKnows
    <3>3. CASE Record(c)
      <4>1. todo[c] = {Target(c)}
        BY <1>2, <2>2, <3>3 DEF DownKnows, Record, AtAFile
      <4>2. todo'[c] = {} /\ pc'[c] = "done"
        BY <3>3, <4>1 DEF TypeOK, Record, Goto
      <4>3. QED
        BY <1>2, <2>2, <4>2 DEF AtAFile
    <3>4. CASE Begin(c) \/ FileRefused(c) \/ RecordRefused(c) \/ Stop(c)
      BY <1>2, <2>2, <3>4
         DEF TypeOK, Begin, FileRefused, RecordRefused, Stop, Goto, AtAFile
    <3>5. QED
      BY <3>1, <3>2, <3>3, <3>4 DEF Step
  <2>3. QED
    BY <2>1, <2>2
<1>3. QED
  BY <1>1, <1>2 DEF DownKnows

-----------------------------------------------------------------------------
(* The versions the records are wrong about *)

Wrong(v) == ~(v \in schema <=> v \in recorded)

\* The drift is the set of versions the records are wrong about, before a
\* step and after it.
LEMMA DriftIs ==
  ASSUME TypeOK, NEW v
  PROVE  v \in Drift <=>
           /\ Wrong(v)
           /\ \A d \in Calls : pc[d] = "record" => Target(d) # v
BY DEF Drift, Wrong

LEMMA DriftNext ==
  ASSUME TypeOK', NEW v
  PROVE  v \in Drift' <=>
           /\ Wrong(v)'
           /\ \A d \in Calls : pc'[d] = "record" => Target(d)' # v
BY DEF Drift, Wrong

\* A version that a step has made wrong, or that it has left wrong while its
\* call went away from it, belongs to a call cut off there.
LEMMA StepDriftCut ==
  ASSUME TypeOK, TypeOK', CallShape, UpKnows, DownKnows, DriftCut,
         NEW c \in Calls, Step(c)
  PROVE  DriftCut'
<1>1. ASSUME NEW d \in cuts PROVE d \in cuts' /\ Target(d)' = Target(d)
  <2>1. d \in Calls /\ pc[d] = "stopped"
    BY <1>1 DEF TypeOK, CallShape
  <2>2. d # c
    BY <2>1 DEF Step, Begin, ReadApplied, RunFile, FileRefused, Record,
                RecordRefused, Stop, UnderWay, Ended
  <2>3. d \in cuts'
    BY <1>1 DEF Step, Begin, ReadApplied, RunFile, FileRefused, Record,
                RecordRefused, Stop, history
  <2>4. QED
    BY <2>1, <2>2, <2>3, OthersStay
<1>2. ASSUME NEW v \in Drift' PROVE v \in Drift \/ \E d \in cuts' : Target(d)' = v
  <2>1. /\ Wrong(v)'
        /\ \A d \in Calls : pc'[d] = "record" => Target(d)' # v
    BY <1>2, DriftNext
  <2>2. ASSUME NEW d \in Calls, d # c, pc[d] = "record" PROVE Target(d) # v
    BY <2>1, <2>2, OthersStay
  <2>3. CASE Begin(c) \/ ReadApplied(c) \/ FileRefused(c)
    <3>1. pc[c] # "record" /\ Wrong(v)
      BY <2>1, <2>3 DEF Begin, ReadApplied, FileRefused, db, Wrong
    <3>2. QED
      BY <2>2, <3>1, DriftIs
  <2>4. CASE RunFile(c)
    <3>1. AtAFile(c) /\ pc[c] # "record" /\ recorded' = recorded /\ todo' = todo
      BY <2>4 DEF RunFile, AtAFile
    <3>2. pc'[c] = "record" /\ Target(c)' = Target(c)
      BY <2>4, <3>1 DEF TypeOK, RunFile, Goto, Target
    <3>3. v # Target(c)
      BY <2>1, <3>2
    <3>4. Wrong(v)
      <4>1. CASE kind[c] = "up"
        <5>1. schema' = schema \cup {Target(c)}
          BY <2>4, <4>1 DEF RunFile, SchemaAfter
        <5>2. QED
          BY <2>1, <3>1, <3>3, <5>1 DEF Wrong
      <4>2. CASE kind[c] = "down" /\ Target(c) # 1
        <5>1. schema' = schema \ {Target(c)}
          BY <2>4, <4>2 DEF RunFile, SchemaAfter
        <5>2. QED
          BY <2>1, <3>1, <3>3, <5>1 DEF Wrong
      <4>3. CASE kind[c] = "down" /\ Target(c) = 1
        <5>1. schema' = {}
          BY <2>4, <4>3 DEF RunFile, SchemaAfter
        <5>2. v \in recorded
          BY <2>1, <3>1, <5>1 DEF Wrong
        <5>3. v <= 1 /\ v \in Versions
          BY <3>1, <4>3, <5>2 DEF DownKnows, TypeOK
        <5>4. v = 1
          BY <5>3, LastAssumption DEF Versions
        <5>5. QED
          BY <3>3, <4>3, <5>4
      <4>4. kind[c] = "up" \/ kind[c] = "down"
        BY <3>1 DEF TypeOK, CallShape, Kinds
      <4>5. QED
        BY <4>1, <4>2, <4>3, <4>4
    <3>5. QED
      BY <2>2, <3>1, <3>4, DriftIs
  <2>5. CASE Record(c)
    <3>1. AtAFile(c) /\ pc[c] = "record" /\ schema' = schema
      BY <2>5 DEF Record, AtAFile
    <3>2. kind[c] = "up" \/ kind[c] = "down"
      BY <3>1 DEF TypeOK, CallShape, Kinds
    <3>3. Target(c) \in schema' <=> Target(c) \in recorded'
      <4>1. CASE kind[c] = "up"
        <5>1. recorded' = recorded \cup {Target(c)} /\ Target(c) \in schema
          BY <2>5, <3>1, <4>1 DEF Record, UpKnows
        <5>2. QED
          BY <3>1, <5>1
      <4>2. CASE kind[c] = "down"
        <5>1. recorded' = recorded \ {Target(c)} /\ Target(c) \notin schema
          BY <2>5, <3>1, <4>2 DEF Record, DownKnows
        <5>2. QED
          BY <3>1, <5>1
      <4>3. QED
        BY <3>2, <4>1, <4>2
    <3>4. v # Target(c)
      BY <2>1, <3>3 DEF Wrong
    <3>5. Wrong(v)
      BY <2>1, <2>5, <3>1, <3>4 DEF Record, Wrong
    <3>6. QED
      BY <2>2, <3>4, <3>5, DriftIs
  <2>6. CASE RecordRefused(c)
    <3>1. AtAFile(c) /\ pc[c] = "record" /\ kind[c] = "up" /\ Wrong(v)
      BY <2>1, <2>6 DEF RecordRefused, AtAFile, db, Wrong
    <3>2. Target(c) \in schema /\ Target(c) \in recorded
      BY <2>6, <3>1 DEF UpKnows, RecordRefused
    <3>3. v # Target(c)
      BY <3>1, <3>2 DEF Wrong
    <3>4. QED
      BY <2>2, <3>1, <3>3, DriftIs
  <2>7. CASE Stop(c)
    <3>1. Wrong(v)
      BY <2>1, <2>7 DEF Stop, db, Wrong
    <3>2. CASE pc[c] = "record" /\ Target(c) = v
      <4>1. c \in cuts' /\ Target(c)' = v
        BY <2>7, <3>2 DEF Stop, Target
      <4>2. QED
        BY <4>1
    <3>3. CASE ~(pc[c] = "record" /\ Target(c) = v)
      BY <2>2, <3>1, <3>3, DriftIs
    <3>4. QED
      BY <3>2, <3>3
  <2>8. QED
    BY <2>3, <2>4, <2>5, <2>6, <2>7 DEF Step
<1>3. \A v \in Drift : \E d \in cuts : Target(d) = v
  BY DEF DriftCut
<1>4. \A v \in Drift' : \E d \in cuts' : Target(d)' = v
  BY <1>1, <1>2, <1>3
<1>5. QED
  BY <1>4 DEF DriftCut

\* Every step keeps the invariant.
LEMMA NextInv == MigrationInv /\ [Next]_vars => MigrationInv'
<1> SUFFICES ASSUME MigrationInv, [Next]_vars PROVE MigrationInv'
  OBVIOUS
<1>1. CASE UNCHANGED vars
  BY <1>1 DEF vars, db, history, MigrationInv, TypeOK, CallShape, NoUpWithDown,
              UpKnows, DownKnows, DriftCut, Drift, AtAFile, UnderWay, Target
<1>2. CASE Next
  <2>1. PICK c \in Calls : Step(c)
    BY <1>2 DEF Next
  <2>2. TypeOK' /\ CallShape'
    BY <2>1, StepTypeOK, StepCallShape DEF MigrationInv
  <2>3. ASSUME ~mixed'
        PROVE  NoUpWithDown' /\ UpKnows' /\ DownKnows' /\ DriftCut'
    <3>1. ~mixed
      BY <2>1, <2>3 DEF MigrationInv, TypeOK, Step, Begin, ReadApplied, RunFile,
                        FileRefused, Record, RecordRefused, Stop, history
    <3>2. /\ TypeOK /\ CallShape
          /\ NoUpWithDown /\ UpKnows /\ DownKnows /\ DriftCut
      BY <3>1 DEF MigrationInv
    <3>3. QED
      BY <2>1, <2>2, <2>3, <3>2, StepApart, StepUpKnows, StepDownKnows,
         StepDriftCut
  <2>4. QED
    BY <2>2, <2>3 DEF MigrationInv
<1>3. QED
  BY <1>1, <1>2

\* Whatever calls fail, stop or overlap, these facts about the database and
\* the calls under way hold.
THEOREM MigrationInvariant == Spec => []MigrationInv
BY InitInv, NextInv, PTL DEF Spec

-----------------------------------------------------------------------------

\* The records are wrong about at most one version per call that was cut off
\* between a file and its record (runner.go:154 and 201), unless an Up and a
\* Down overlapped.
THEOREM DriftTakesACutHolds == Spec => []DriftTakesACut
<1>1. MigrationInv => DriftTakesACut
  <2>1. SUFFICES ASSUME MigrationInv, ~mixed
                 PROVE  Cardinality(Drift) <= Cardinality(cuts)
    BY DEF DriftTakesACut
  <2> DEFINE f == [c \in cuts |-> Target(c)]
             T == {Target(c) : c \in cuts}
  <2>2. IsFiniteSet(cuts) /\ Drift \subseteq T
    BY <2>1 DEF MigrationInv, CallShape, DriftCut
  <2>3. f \in Surjection(cuts, T)
    BY DEF Surjection
  <2> HIDE DEF f, T
  <2>4. IsFiniteSet(T) /\ Cardinality(T) <= Cardinality(cuts)
    BY <2>2, <2>3, FS_Surjection
  <2>5. IsFiniteSet(Drift) /\ Cardinality(Drift) <= Cardinality(T)
    BY <2>2, <2>4, FS_Subset
  <2>6. /\ Cardinality(Drift) \in Nat /\ Cardinality(T) \in Nat
        /\ Cardinality(cuts) \in Nat
    BY <2>2, <2>4, <2>5, FS_CardinalityType
  <2>7. QED
    BY <2>4, <2>5, <2>6
<1>2. QED
  BY <1>1, MigrationInvariant, PTL

\* An Up that ends well has brought every version into the database, if no
\* call was cut off and no Down overlapped an Up (migrate.go:46).
THEOREM UpBringsEverythingHolds == Spec => UpBringsEverything
<1> DEFINE Brings == \A c \in Calls :
             pc'[c] = "done" /\ pc[c] # "done" /\ kind[c] = "up" /\ cuts = {} /\ ~mixed
               => schema' = Versions
<1>1. MigrationInv /\ [Next]_vars => Brings
  <2>1. SUFFICES ASSUME MigrationInv, [Next]_vars, NEW c \in Calls,
                        pc'[c] = "done", pc[c] # "done", kind[c] = "up",
                        cuts = {}, ~mixed
                 PROVE  schema' = Versions
    OBVIOUS
  <2>2. /\ TypeOK /\ CallShape /\ NoUpWithDown /\ UpKnows /\ Drift = {}
    BY <2>1 DEF MigrationInv, DriftCut
  <2>3. ReadApplied(c) \/ Record(c)
    <3>1. PICK d \in Calls : Step(d)
      BY <2>1 DEF Next, vars
    <3>2. d = c
      BY <2>1, <2>2, <3>1, OthersStay
    <3>3. QED
      BY <2>1, <2>2, <3>1, <3>2
         DEF TypeOK, Step, Begin, RunFile, FileRefused, RecordRefused, Stop, Goto
  <2>4. UnderWay(c)
    BY <2>3 DEF ReadApplied, Record, UnderWay, Ended
  \* A recorded version whose record is no Down's next statement is there.
  <2>5. recorded \subseteq schema
    <3>1. SUFFICES ASSUME NEW v \in recorded, v \notin schema PROVE FALSE
      OBVIOUS
    <3>2. PICK d \in Calls : pc[d] = "record" /\ Target(d) = v
      BY <2>2, <3>1, DriftIs DEF Wrong
    <3>3. AtAFile(d) /\ UnderWay(d)
      BY <3>2 DEF AtAFile, UnderWay, Ended
    <3>4. kind[d] = "up"
      BY <2>1, <2>2, <2>4, <3>3 DEF NoUpWithDown, CallShape, TypeOK, Kinds
    <3>5. QED
      BY <2>2, <3>1, <3>2, <3>3, <3>4 DEF UpKnows
  <2>6. schema' = schema /\ schema \subseteq Versions
    BY <2>2, <2>3 DEF TypeOK, ReadApplied, Record, db
  <2>7. CASE ReadApplied(c)
    <3>1. Versions \ recorded = {}
      BY <2>1, <2>2, <2>7 DEF TypeOK, ReadApplied, Goto, TargetsOf
    <3>2. QED
      BY <2>5, <2>6, <3>1
  <2>8. CASE Record(c)
    <3>1. AtAFile(c) /\ pc[c] = "record"
      BY <2>8 DEF Record, AtAFile
    <3>2. todo[c] \subseteq {Target(c)}
      BY <2>1, <2>2, <2>8 DEF TypeOK, Record, Goto
    <3>3. Versions \ todo[c] \subseteq recorded /\ Target(c) \in schema
      BY <2>1, <2>2, <3>1 DEF UpKnows
    <3>4. QED
      BY <2>5, <2>6, <3>2, <3>3
  <2>9. QED
    BY <2>3, <2>7, <2>8
<1>2. QED
  BY <1>1, MigrationInvariant, PTL DEF Spec, UpBringsEverything
=============================================================================
