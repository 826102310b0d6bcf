------------------------ MODULE ReconciliationProofs ------------------------
(***************************************************************************)
(* Proofs about the two reconciliations, for every number of calls and     *)
(* every set of configurations.                                            *)
(*                                                                         *)
(* First the dimensions, by MappingInv: the chain of a series' mappings    *)
(* and what a call that ends well has mapped.  Then the editorial tables,  *)
(* by EditorialInv: what a commit projects.  Both together give why a call *)
(* fails, and that the breaks reach the series they are declared for.      *)
(***************************************************************************)
EXTENDS Reconciliation, SequenceTheorems, FiniteSetTheorems, WellFoundedInduction, TLAPS

-----------------------------------------------------------------------------
(* The rows of series_source_mapping *)

\* The source_refs of all configurations, and what a mapping made of one holds.
Refs == UNION {ToSet(s.refs) : s \in UNION {ToSet(cfg.series) : cfg \in Configs \cup Bases}}
Names == {r.ref : r \in Refs}
Dates == {r.from : r \in Refs}
MappingRows == [ref : Names, from : Dates, to : Dates \cup {Missing}]

\* The mappings q of a series after its identifier has become r: the newest is
\* closed on the day r begins.
Extended(q, r) ==
  Append([i \in DOMAIN q |-> IF i = Len(q) THEN [q[i] EXCEPT !.to = r.from] ELSE q[i]],
         Dim!Mapping(r))

Chain(q) ==
  \A i \in DOMAIN q : q[i].to = IF i = Len(q) THEN Missing ELSE q[i + 1].from

NoRepeats(q) == \A i \in 2..Len(q) : q[i].ref # q[i - 1].ref

\* A date is not the absence of one.
LEMMA DatesAreDates == Missing \notin Dates
  BY ConfigsAssumption DEF IsConfig, Dates, Refs

\* The mapping of a source_ref is open and names it.
LEMMA MappingIs ==
  ASSUME NEW r \in Refs
  PROVE  /\ Dim!Mapping(r) \in MappingRows
         /\ Dim!Mapping(r).ref = r.ref /\ Dim!Mapping(r).from = r.from
         /\ Dim!Mapping(r).to = Missing
         /\ r.from \in Dates
  BY DEF Dim!Mapping, MappingRows, Names, Dates

\* Extending keeps every identifier and adds the new one at the end.
LEMMA ExtendedIs ==
  ASSUME NEW q \in Seq(MappingRows), NEW r \in Refs
  PROVE  /\ Extended(q, r) \in Seq(MappingRows)
         /\ Len(Extended(q, r)) = Len(q) + 1
         /\ Extended(q, r)[Len(q) + 1] = Dim!Mapping(r)
         /\ \A i \in 1..Len(q) :
              /\ Extended(q, r)[i].ref = q[i].ref
              /\ Extended(q, r)[i].from = q[i].from
              /\ Extended(q, r)[i].to = IF i = Len(q) THEN r.from ELSE q[i].to
<1> DEFINE n == Len(q)
           e(i) == IF i = n THEN [q[i] EXCEPT !.to = r.from] ELSE q[i]
           p == [i \in 1..n |-> e(i)]
<1>1. n \in Nat /\ DOMAIN q = 1..n
  BY LenProperties
<1>2. \A i \in 1..n : q[i] \in MappingRows
  BY ElementOfSeq
<1>3. \A i \in 1..n : /\ e(i) \in MappingRows
                      /\ e(i).ref = q[i].ref /\ e(i).from = q[i].from
                      /\ e(i).to = IF i = n THEN r.from ELSE q[i].to
  BY <1>2, MappingIs DEF MappingRows
<1>4. Extended(q, r) = Append(p, Dim!Mapping(r))
  BY <1>1 DEF Extended
<1> HIDE DEF e, n
<1>5. p \in Seq(MappingRows) /\ Len(p) = n
  BY <1>1, <1>3, IsASeq
<1>6. \A i \in 1..n : p[i] = e(i)
  OBVIOUS
<1> HIDE DEF p
<1>7. Dim!Mapping(r) \in MappingRows
  BY MappingIs
<1>8. /\ Append(p, Dim!Mapping(r)) \in Seq(MappingRows)
      /\ Len(Append(p, Dim!Mapping(r))) = n + 1
      /\ Append(p, Dim!Mapping(r))[n + 1] = Dim!Mapping(r)
      /\ \A i \in 1..n : Append(p, Dim!Mapping(r))[i] = p[i]
  BY <1>1, <1>5, <1>7, AppendProperties
<1>9. \A i \in 1..n : Extended(q, r)[i] = e(i)
  BY <1>4, <1>6, <1>8
<1> QED BY <1>3, <1>4, <1>8, <1>9 DEF n

\* A chain that is extended remains one.
LEMMA ExtendedChain ==
  ASSUME NEW q \in Seq(MappingRows), NEW r \in Refs, Chain(q)
  PROVE  Chain(Extended(q, r))
<1> DEFINE n == Len(q)
           x == Extended(q, r)
<1>1. n \in Nat /\ DOMAIN q = 1..n
  BY LenProperties
<1>2. x \in Seq(MappingRows) /\ Len(x) = n + 1 /\ x[n + 1] = Dim!Mapping(r)
  BY ExtendedIs
<1>3. \A i \in 1..n : x[i].from = q[i].from /\ x[i].to = IF i = n THEN r.from ELSE q[i].to
  BY ExtendedIs
<1>4. Dim!Mapping(r).from = r.from /\ Dim!Mapping(r).to = Missing
  BY MappingIs
<1>5. DOMAIN x = 1..(n + 1)
  BY <1>2, LenProperties
<1>6. \A i \in 1..n : q[i].to = IF i = n THEN Missing ELSE q[i + 1].from
  BY <1>1 DEF Chain
<1> HIDE DEF n, x
<1> SUFFICES ASSUME NEW i \in 1..(n + 1)
             PROVE  x[i].to = IF i = n + 1 THEN Missing ELSE x[i + 1].from
  BY <1>2, <1>5 DEF Chain, x
<1>7. CASE i = n + 1
  BY <1>2, <1>4, <1>7
<1>8. CASE i = n
  BY <1>1, <1>2, <1>3, <1>4, <1>8
<1>9. CASE i < n
  <2>1. i \in 1..n /\ i + 1 \in 1..n /\ i # n /\ i # n + 1
    BY <1>1, <1>9
  <2> QED BY <2>1, <1>3, <1>6
<1>10. i = n + 1 \/ i = n \/ i < n
  BY <1>1
<1> QED BY <1>7, <1>8, <1>9, <1>10

\* The only open mapping of a chain is its newest.
LEMMA OpenIsLast ==
  ASSUME NEW q \in Seq(MappingRows), Chain(q), NEW i \in DOMAIN q
  PROVE  q[i].to = Missing <=> i = Len(q)
<1>1. DOMAIN q = 1..Len(q) /\ Len(q) \in Nat
  BY LenProperties
<1>2. CASE i = Len(q)
  BY <1>2 DEF Chain
<1>3. CASE i # Len(q)
  <2>1. i + 1 \in 1..Len(q)
    BY <1>1, <1>3
  <2>2. q[i + 1] \in MappingRows
    BY <2>1, ElementOfSeq
  <2>3. q[i + 1].from \in Dates
    BY <2>2 DEF MappingRows
  <2>4. q[i].to = q[i + 1].from
    BY <1>3 DEF Chain
  <2> QED BY <1>3, <2>3, <2>4, DatesAreDates
<1> QED BY <1>2, <1>3

\* Extending with another identifier than the newest repeats none.
LEMMA ExtendedRepeats ==
  ASSUME NEW q \in Seq(MappingRows), NEW r \in Refs, NoRepeats(q),
         q # <<>> => q[Len(q)].ref # r.ref
  PROVE  NoRepeats(Extended(q, r))
<1> DEFINE n == Len(q)
           x == Extended(q, r)
<1>1. n \in Nat
  BY LenProperties
<1>2. Len(x) = n + 1 /\ x[n + 1] = Dim!Mapping(r) /\ \A i \in 1..n : x[i].ref = q[i].ref
  BY ExtendedIs
<1>3. x[n + 1].ref = r.ref
  BY <1>2, MappingIs
<1>4. n # 0 => q[n].ref # r.ref
  BY EmptySeq
<1>5. \A i \in 2..n : q[i].ref # q[i - 1].ref
  BY DEF NoRepeats
<1> HIDE DEF n, x
<1> SUFFICES ASSUME NEW i \in 2..(n + 1)
             PROVE  x[i].ref # x[i - 1].ref
  BY <1>2 DEF NoRepeats, x
<1>6. CASE i = n + 1
  <2>1. i - 1 = n /\ n \in 1..n /\ n # 0
    BY <1>1, <1>6
  <2> QED BY <2>1, <1>2, <1>3, <1>4, <1>6
<1>7. CASE i # n + 1
  <2>1. i \in 2..n /\ i \in 1..n /\ i - 1 \in 1..n
    BY <1>1, <1>7
  <2> QED BY <2>1, <1>2, <1>5
<1> QED BY <1>6, <1>7

-----------------------------------------------------------------------------
(* What the configurations and the walk through their series come to *)

\* A set of subsets of a finite set has one that contains no other.
LEMMA SmallestSegment ==
  ASSUME NEW T, IsFiniteSet(T), NEW F, F \subseteq SUBSET T, F # {}
  PROVE  \E A \in F : \A B \in F : <<B, A>> \notin StrictSubsetOrdering(T)
<1>1. F \subseteq FiniteSubsetsOf(T)
  BY FS_FiniteSubsetsOfFinite
<1>2. IsWellFoundedOn(StrictSubsetOrdering(T), FiniteSubsetsOf(T))
  BY FS_StrictSubsetOrderingWellFounded
<1>3. QED
  BY <1>1, <1>2, WFMin

\* A set of bounded numbers is finite.
LEMMA BoundedIsFinite ==
  ASSUME NEW n \in Nat, NEW T, T \subseteq 1..n
  PROVE  IsFiniteSet(T)
<1>1. IsFiniteSet(1..n)
  BY FS_Interval
<1>2. QED
  BY <1>1, FS_Subset

\* A set of bounded numbers has a least one.
LEMMA LeastExists ==
  ASSUME NEW n \in Nat, NEW T, T \subseteq 1..n, T # {}
  PROVE  \E v \in T : \A w \in T : v <= w
<1> DEFINE Upto(v) == {w \in T : w <= v}
           F == {Upto(v) : v \in T}
<1>1. F \subseteq SUBSET T /\ F # {}
  OBVIOUS
<1>2. PICK A \in F : \A B \in F : <<B, A>> \notin StrictSubsetOrdering(T)
  <2>1. IsFiniteSet(T)
    BY BoundedIsFinite
  <2> HIDE DEF F
  <2>2. QED
    BY <1>1, <2>1, SmallestSegment
<1>3. PICK v \in T : A = Upto(v)
  OBVIOUS
<1>4. ASSUME NEW w \in T, ~(v <= w) PROVE FALSE
  <2>1. v \in Nat /\ w \in Nat /\ w < v
    BY <1>3, <1>4
  <2>2. v \in Upto(v) /\ v \notin Upto(w)
    BY <1>3, <2>1
  <2>3. ASSUME NEW x \in Upto(w) PROVE x \in Upto(v)
    <3>1. x \in T /\ x \in Nat /\ x <= w
      BY <2>3
    <3>2. x <= v
      BY <2>1, <3>1
    <3>3. QED
      BY <3>1, <3>2
  <2>4. Upto(w) \in F /\ <<Upto(w), A>> \in StrictSubsetOrdering(T)
    BY <1>3, <1>4, <2>2, <2>3 DEF StrictSubsetOrdering
  <2>5. QED
    BY <1>2, <2>4
<1>5. QED
  BY <1>4

\* The first source_ref without an end is one of the series.
LEMMA ActiveRefIs ==
  ASSUME NEW cfg \in Configs \cup Bases, NEW s \in ToSet(cfg.series), Dim!ActiveRef(s) # Missing
  PROVE  Dim!ActiveRef(s) \in Refs
<1> DEFINE open == {i \in DOMAIN s.refs : s.refs[i].to = Missing}
           least == CHOOSE i \in open : \A j \in open : i <= j
<1>1. s.refs \in Seq(ToSet(s.refs))
  BY ConfigsAssumption DEF IsConfig
<1>2. DOMAIN s.refs = 1..Len(s.refs) /\ Len(s.refs) \in Nat
  BY <1>1, LenProperties
<1>3. open # {} /\ Dim!ActiveRef(s) = s.refs[least]
  BY DEF Dim!ActiveRef
<1>4. \E i \in open : \A j \in open : i <= j
  BY <1>2, <1>3, LeastExists
<1>5. least \in open
  BY <1>4
<1>6. s.refs[least] \in ToSet(s.refs)
  BY <1>5 DEF ToSet
<1> QED BY <1>3, <1>6 DEF Refs

\* The series of a call is one of its configuration.
LEMMA MineIs ==
  ASSUME NEW c, config[c] \in Configs, at[c] \in DOMAIN config[c].series
  PROVE  Dim!Mine(c) \in ToSet(config[c].series) /\ Dim!Mine(c).slug \in Slugs
BY DEF Dim!Mine, ToSet, Slugs

\* A series the walk stops at.
IsNamed(s) == s.source # Missing /\ s.dataset # Missing

\* The walk goes on to the next series that names a source and a dataset, and
\* ends when there is none.
LEMMA SkipIs ==
  ASSUME NEW c, config[c] \in Configs, NEW i \in Nat, Dim!SkipTo(c, i)
  PROVE  \/ /\ pc' = [pc EXCEPT ![c] = "done"] /\ at' = at
            /\ \A k \in DOMAIN config[c].series : k >= i => ~IsNamed(config[c].series[k])
         \/ \E j \in DOMAIN config[c].series :
              /\ pc' = [pc EXCEPT ![c] = "dataset"] /\ at' = [at EXCEPT ![c] = j]
              /\ j >= i /\ IsNamed(config[c].series[j])
              /\ \A k \in DOMAIN config[c].series :
                   k >= i /\ k < j => ~IsNamed(config[c].series[k])
<1> DEFINE wanted == {j \in DOMAIN config[c].series :
                        /\ j >= i
                        /\ config[c].series[j].source # Missing
                        /\ config[c].series[j].dataset # Missing}
           least == CHOOSE j \in wanted : \A k \in wanted : j <= k
<1>1. config[c].series \in Seq(ToSet(config[c].series))
  BY ConfigsAssumption DEF IsConfig
<1>2. DOMAIN config[c].series = 1..Len(config[c].series) /\ Len(config[c].series) \in Nat
  BY <1>1, LenProperties
<1>3. CASE wanted = {}
  <2>1. \A k \in DOMAIN config[c].series : k >= i => ~IsNamed(config[c].series[k])
    BY <1>3 DEF IsNamed
  <2> QED BY <1>3, <2>1 DEF Dim!SkipTo, Dim!Goto
<1>4. CASE wanted # {}
  <2>1. \E j \in wanted : \A k \in wanted : j <= k
    BY <1>2, <1>4, LeastExists
  <2>2. least \in wanted /\ \A k \in wanted : least <= k
    BY <2>1
  <2>3. pc' = [pc EXCEPT ![c] = "dataset"] /\ at' = [at EXCEPT ![c] = least]
    BY <1>4 DEF Dim!SkipTo, Dim!Goto
  <2> HIDE DEF least
  <2>4. ASSUME NEW k \in DOMAIN config[c].series, k >= i, k < least
        PROVE  ~IsNamed(config[c].series[k])
    <3>1. k \in Nat /\ least \in Nat
      BY <1>2, <2>2
    <3> QED BY <2>2, <2>4, <3>1 DEF IsNamed
  <2> QED BY <2>2, <2>3, <2>4 DEF IsNamed
<1> QED BY <1>3, <1>4

-----------------------------------------------------------------------------
(* The inductive invariant *)

AtMapping == {"mapping", "first", "close", "waiting", "open", "commitMapping"}
AtSeries == {"dataset", "series"} \cup AtMapping
Replacing == {"close", "waiting", "open", "commitMapping"}

\* The variables of the calls have their types, and the stage of a call is one
\* of its kind.
CallTypes ==
  /\ pc \in [Calls -> {"idle"} \cup Ended \cup Ed!EdStages \cup Dim!DimStages]
  /\ config \in [Calls -> Configs] /\ kind \in [Calls -> Kinds]
  /\ at \in [Calls -> Nat] /\ row \in [Calls -> Nat]
  /\ left = [c \in Calls |-> left[c]]
  /\ overlapped = [c \in Calls |-> overlapped[c]]
  /\ \A c \in Calls : /\ pc[c] \in Dim!DimStages => kind[c] = "dimensions"
                      /\ pc[c] \in Ed!EdStages => kind[c] = "editorial"
                      /\ left[c] \subseteq config[c].sources
                      /\ at[c] \in 1..(Len(config[c].series) + 1)

\* The rows the foreign keys of the next statement need are there.
Prerequisites ==
  /\ \A d \in DOMAIN datasets : datasets[d] \in sources
  /\ \A g \in DOMAIN series : series[g] \in DOMAIN datasets
  /\ \A g \in Slugs : mappings[g] # <<>> => g \in DOMAIN series
  /\ \A c \in Calls :
       /\ pc[c] \in {"idle", "sources"} => config[c].sources \ left[c] \subseteq sources
       /\ pc[c] \in AtSeries =>
            /\ config[c].sources \subseteq sources
            /\ at[c] \in DOMAIN config[c].series /\ IsNamed(Dim!Mine(c))
       /\ pc[c] = "series" => Dim!Mine(c).dataset \in DOMAIN datasets
       /\ pc[c] \in AtMapping =>
            /\ Dim!ActiveRef(Dim!Mine(c)) # Missing
            /\ Dim!Mine(c).slug \in DOMAIN series

\* The mappings of every series are a chain of rows.
Chains ==
  /\ mappings \in [Slugs -> Seq(MappingRows)]
  /\ \A g \in Slugs : Chain(mappings[g])

\* The row an UPDATE takes is there; in the transaction it is the newest, or it
\* was no longer open, and then the index refuses the insert.
ClosesTheNewest ==
  \A c \in Calls :
    /\ pc[c] \notin {"waiting", "open", "commitMapping", "failed", "stopped"} => row[c] = 0
    /\ row[c] # 0 => /\ at[c] \in DOMAIN config[c].series
                     /\ row[c] \in DOMAIN mappings[Dim!Mine(c).slug]
    /\ pc[c] \in Replacing => mappings[Dim!Mine(c).slug] # <<>>
    /\ pc[c] \in Dim!InTransaction /\ row[c] # 0 => row[c] = Len(mappings[Dim!Mine(c).slug])
    /\ pc[c] = "commitMapping" => row[c] # 0

\* No two transactions have written the mappings of one series.
OneWriter ==
  \A c, d \in Calls :
    /\ pc[c] \in Dim!InTransaction /\ pc[d] \in Dim!InTransaction
    /\ row[c] # 0 /\ row[d] # 0
    /\ Dim!Mine(c).slug = Dim!Mine(d).slug
    => c = d

\* Two calls of a kind that are under way have recorded each other, and a call
\* that has not begun nobody.
OverlapsAreKnown ==
  /\ \A c, d \in Calls :
       c # d /\ UnderWay(c) /\ UnderWay(d) /\ kind[c] = kind[d] => config[d] \in overlapped[c]
  /\ \A c \in Calls : pc[c] = "idle" => overlapped[c] = {}

NewestRef(g) == mappings[g][Len(mappings[g])].ref

\* A lone call finds no mapping where it inserts the first, closes the newest
\* where it replaces one, and what it replaces names another identifier.
LoneReplaces ==
  /\ \A c \in Calls :
       overlapped[c] = {} =>
         /\ pc[c] = "first" => mappings[Dim!Mine(c).slug] = <<>>
         /\ pc[c] \in Replacing =>
              NewestRef(Dim!Mine(c).slug) # Dim!ActiveRef(Dim!Mine(c)).ref
         /\ pc[c] \in {"waiting", "open", "commitMapping"} =>
              row[c] = Len(mappings[Dim!Mine(c).slug])
  /\ (\A c \in Calls : overlapped[c] = {}) => \A g \in Slugs : NoRepeats(mappings[g])

\* In the mappings m the series is mapped to its identifier in force.
MappedIn(m, s) == m[s.slug] # <<>> /\ m[s.slug][Len(m[s.slug])].ref = Dim!ActiveRef(s).ref

\* Those of the n first series of the configuration that can be, are mapped.
MappedBelow(m, cfg, n) ==
  \A j \in DOMAIN cfg.series :
    /\ j < n /\ IsNamed(cfg.series[j])
    /\ Dim!ActiveRef(cfg.series[j]) # Missing
    => MappedIn(m, cfg.series[j])

\* A call that only calls of its configuration overlap has mapped the series it
\* has passed.
MappedSoFar ==
  \A c \in Calls :
    /\ pc[c] \in AtSeries
    /\ overlapped[c] \subseteq {config[c]} /\ SlugsAreUnique(config[c])
    => MappedBelow(mappings, config[c], at[c])

MappingInv ==
  /\ CallTypes
  /\ Prerequisites
  /\ Chains
  /\ ClosesTheNewest
  /\ OneWriter
  /\ OverlapsAreKnown
  /\ LoneReplaces
  /\ MappedSoFar

-----------------------------------------------------------------------------
(* What one step of a call changes *)

Moves(f, c) == f' = [f EXCEPT ![c] = f'[c]]

\* A step changes what is local to its call, and the tables only grow.
LEMMA DimFrame ==
  ASSUME CallTypes, NEW c \in Calls, Dim!DimStep(c)
  PROVE  /\ config' = config
         /\ Moves(pc, c) /\ Moves(at, c) /\ Moves(row, c) /\ Moves(left, c)
         /\ pc[c] \in Dim!DimStages /\ pc'[c] \in Dim!DimStages \cup Ended
<1> USE DEF Moves, Dim!DimStages, Dim!InTransaction, Ended, Dim!local, Dim!tables, Dim!Goto
<1>1. /\ config[c] \in Configs /\ at[c] \in Nat
      /\ pc \in [Calls -> {"idle"} \cup Ended \cup Ed!EdStages \cup Dim!DimStages]
      /\ at \in [Calls -> Nat] /\ row \in [Calls -> Nat] /\ left = [d \in Calls |-> left[d]]
  BY DEF CallTypes
<1>2. ASSUME NEW i \in Nat, Dim!SkipTo(c, i)
      PROVE  Moves(pc, c) /\ Moves(at, c) /\ pc'[c] \in {"dataset", "done"}
  <2> HIDE DEF Dim!Goto
  <2> QED BY <1>1, <1>2, SkipIs
<1>3. CASE Dim!UpsertSource(c)
  BY <1>1, <1>3 DEF Dim!UpsertSource
<1>4. CASE Dim!SourcesDone(c)
  BY <1>1, <1>2, <1>4 DEF Dim!SourcesDone
<1>5. CASE Dim!UpsertDataset(c) \/ Dim!DatasetRefused(c)
  BY <1>1, <1>5 DEF Dim!UpsertDataset, Dim!DatasetRefused
<1>6. CASE Dim!UpsertSeries(c)
  BY <1>1, <1>2, <1>6 DEF Dim!UpsertSeries
<1>7. CASE Dim!ReadMapping(c)
  BY <1>1, <1>2, <1>7 DEF Dim!ReadMapping
<1>8. CASE Dim!InsertFirst(c)
  BY <1>1, <1>2, <1>8 DEF Dim!InsertFirst
<1>9. CASE Dim!FirstRefused(c) \/ Dim!Insert(c) \/ Dim!InsertRefused(c) \/ Dim!DimStop(c)
  BY <1>1, <1>9 DEF Dim!FirstRefused, Dim!Insert, Dim!InsertRefused, Dim!DimStop
<1>10. CASE Dim!Close(c) \/ Dim!CloseWaited(c)
  BY <1>1, <1>10 DEF Dim!Close, Dim!CloseWaited
<1>11. CASE Dim!CommitMapping(c)
  BY <1>1, <1>2, <1>11 DEF Dim!CommitMapping
<1> QED BY <1>3, <1>4, <1>5, <1>6, <1>7, <1>8, <1>9, <1>10, <1>11 DEF Dim!DimStep

\* What is local to another call, its series included, stays.
LEMMA OthersStay ==
  ASSUME CallTypes, NEW c \in Calls, Dim!DimStep(c), NEW d \in Calls, d # c
  PROVE  /\ pc'[d] = pc[d] /\ at'[d] = at[d] /\ row'[d] = row[d] /\ left'[d] = left[d]
         /\ config'[d] = config[d]
         /\ Dim!Mine(d)' = Dim!Mine(d)
<1>1. /\ config' = config /\ Moves(pc, c) /\ Moves(at, c) /\ Moves(row, c) /\ Moves(left, c)
  BY DimFrame
<1>2. pc'[d] = pc[d] /\ at'[d] = at[d] /\ row'[d] = row[d] /\ left'[d] = left[d]
  BY <1>1 DEF Moves, CallTypes
<1> QED BY <1>1, <1>2 DEF Dim!Mine

\* The identifier in force of a series that a call maps.
LEMMA ActiveIs ==
  ASSUME CallTypes, Prerequisites, NEW c \in Calls, pc[c] \in AtMapping
  PROVE  Dim!ActiveRef(Dim!Mine(c)) \in Refs /\ Dim!Mine(c).slug \in Slugs
<1>1. config[c] \in Configs /\ at[c] \in DOMAIN config[c].series
  BY DEF CallTypes, Prerequisites, AtSeries
<1>2. Dim!Mine(c) \in ToSet(config[c].series) /\ Dim!Mine(c).slug \in Slugs
  BY <1>1, MineIs
<1>3. Dim!ActiveRef(Dim!Mine(c)) # Missing
  BY DEF Prerequisites
<1> QED BY <1>1, <1>2, <1>3, ActiveRefIs

\* What is open of a series is its newest mapping.
LEMMA OpenIs ==
  ASSUME Chains, NEW g \in Slugs
  PROVE  /\ mappings[g] \in Seq(MappingRows) /\ Len(mappings[g]) \in Nat
         /\ DOMAIN mappings[g] = 1..Len(mappings[g])
         /\ mappings[g] = <<>> <=> Dim!Open(g) = {}
         /\ \A i : i \in Dim!Open(g) <=> mappings[g] # <<>> /\ i = Len(mappings[g])
<1> DEFINE q == mappings[g]
<1>1. q \in Seq(MappingRows) /\ Chain(q)
  BY DEF Chains
<1>2. Len(q) \in Nat /\ DOMAIN q = 1..Len(q) /\ (q # <<>> => Len(q) # 0) /\ Len(<<>>) = 0
  BY <1>1, LenProperties, EmptySeq
<1>3. Dim!Open(g) = {i \in DOMAIN q : q[i].to = Missing}
  BY DEF Dim!Open
<1> HIDE DEF q
<1>4. \A i \in DOMAIN q : q[i].to = Missing <=> i = Len(q)
  BY <1>1, OpenIsLast
<1>5. \A i : i \in Dim!Open(g) <=> q # <<>> /\ i = Len(q)
  <2> TAKE i
  <2>1. i \in Dim!Open(g) <=> i \in 1..Len(q) /\ i = Len(q)
    BY <1>2, <1>3, <1>4
  <2>2. Len(q) \in 1..Len(q) <=> q # <<>>
    BY <1>2
  <2> QED BY <2>1, <2>2
<1>6. q = <<>> <=> Dim!Open(g) = {}
  BY <1>5
<1> QED BY <1>1, <1>2, <1>5, <1>6 DEF q

\* The call adds its mapping, and closes what was the newest.
Extends(c) ==
  mappings' = [mappings EXCEPT ![Dim!Mine(c).slug] =
                 Extended(@, Dim!ActiveRef(Dim!Mine(c)))]

\* The first mapping extends the empty chain.
LEMMA FirstIsExtended ==
  ASSUME NEW r \in Refs
  PROVE  Append(<<>>, Dim!Mapping(r)) = Extended(<<>>, r)
<1>1. <<>> \in Seq(MappingRows) /\ Len(<<>>) = 0
  BY EmptySeq
<1>2. Dim!Mapping(r) \in MappingRows
  BY MappingIs
<1>3. /\ Append(<<>>, Dim!Mapping(r)) \in Seq(MappingRows)
      /\ Len(Append(<<>>, Dim!Mapping(r))) = 1
      /\ Append(<<>>, Dim!Mapping(r))[1] = Dim!Mapping(r)
  BY <1>1, <1>2, AppendProperties
<1>4. /\ Extended(<<>>, r) \in Seq(MappingRows)
      /\ Len(Extended(<<>>, r)) = 1
      /\ Extended(<<>>, r)[1] = Dim!Mapping(r)
  <2>1. Len(<<>>) + 1 = 1
    BY <1>1
  <2>2. /\ Extended(<<>>, r) \in Seq(MappingRows)
        /\ Len(Extended(<<>>, r)) = Len(<<>>) + 1
        /\ Extended(<<>>, r)[Len(<<>>) + 1] = Dim!Mapping(r)
    BY <1>1, ExtendedIs
  <2> QED BY <2>1, <2>2
<1>5. \A i \in 1..1 : Append(<<>>, Dim!Mapping(r))[i] = Extended(<<>>, r)[i]
  BY <1>3, <1>4
<1> QED BY <1>3, <1>4, <1>5, SeqEqual

\* The transaction that closes the newest row extends the chain.
LEMMA ReplacedIsExtended ==
  ASSUME Chains, NEW c \in Calls, Dim!Mine(c).slug \in Slugs,
         row[c] = Len(mappings[Dim!Mine(c).slug]), mappings' = Dim!Replaced(c)
  PROVE  Extends(c)
  BY DEF Extends, Extended, Dim!Replaced, Chains

\* No transaction but c's has written the mappings of c's series.
WritesAlone(c) ==
  \A d \in Calls \ {c} :
    ~(pc[d] \in Dim!InTransaction /\ Dim!Mine(d).slug = Dim!Mine(c).slug /\ row[d] # 0)

\* A step leaves the mappings or extends those of its series, which no other
\* transaction has written.
LEMMA MappingEffect ==
  ASSUME MappingInv, NEW c \in Calls, Dim!DimStep(c)
  PROVE  \/ mappings' = mappings
         \/ pc[c] \in {"first", "commitMapping"} /\ Extends(c) /\ WritesAlone(c)
<1> USE DEF Dim!local, Dim!tables
<1>1. CallTypes /\ Prerequisites /\ Chains /\ ClosesTheNewest /\ OneWriter
  BY DEF MappingInv
<1>2. ASSUME pc[c] = "commitMapping", mappings' = Dim!Replaced(c)
      PROVE  Extends(c) /\ WritesAlone(c)
  <2>1. Dim!Mine(c).slug \in Slugs
    BY <1>1, <1>2, ActiveIs DEF AtMapping
  <2>2. row[c] # 0 /\ row[c] = Len(mappings[Dim!Mine(c).slug])
    BY <1>1, <1>2 DEF ClosesTheNewest, Dim!InTransaction
  <2>3. Extends(c)
    BY <1>1, <1>2, <2>1, <2>2, ReplacedIsExtended
  <2>4. WritesAlone(c)
    BY <1>1, <1>2, <2>2 DEF OneWriter, WritesAlone, Dim!InTransaction
  <2> QED BY <2>3, <2>4
<1>3. CASE Dim!InsertFirst(c)
  <2>1. pc[c] = "first" /\ ~Dim!Writing(c, Dim!Mine(c).slug) /\ Dim!Open(Dim!Mine(c).slug) = {}
    BY <1>3 DEF Dim!InsertFirst
  <2>2. Dim!ActiveRef(Dim!Mine(c)) \in Refs /\ Dim!Mine(c).slug \in Slugs
    BY <1>1, <2>1, ActiveIs DEF AtMapping
  <2>3. mappings[Dim!Mine(c).slug] = <<>>
    BY <1>1, <2>1, <2>2, OpenIs
  <2>4. mappings' = [mappings EXCEPT ![Dim!Mine(c).slug] =
                       Append(@, Dim!Mapping(Dim!ActiveRef(Dim!Mine(c))))]
    BY <1>3 DEF Dim!InsertFirst
  <2>5. Extends(c)
    BY <2>2, <2>3, <2>4, FirstIsExtended DEF Extends
  <2>6. WritesAlone(c)
    BY <2>1 DEF WritesAlone, Dim!Writing
  <2> QED BY <2>1, <2>5, <2>6
<1>4. CASE Dim!CommitMapping(c)
  BY <1>2, <1>4 DEF Dim!CommitMapping
<1>5. CASE Dim!DimStop(c)
  BY <1>2, <1>5 DEF Dim!DimStop
<1>6. CASE Dim!UpsertSource(c) \/ Dim!SourcesDone(c) \/ Dim!UpsertDataset(c) \/ Dim!DatasetRefused(c)
  BY <1>6 DEF Dim!UpsertSource, Dim!SourcesDone, Dim!UpsertDataset, Dim!DatasetRefused
<1>7. CASE Dim!UpsertSeries(c) \/ Dim!ReadMapping(c) \/ Dim!FirstRefused(c)
  BY <1>7 DEF Dim!UpsertSeries, Dim!ReadMapping, Dim!FirstRefused
<1>8. CASE Dim!Close(c) \/ Dim!CloseWaited(c) \/ Dim!Insert(c) \/ Dim!InsertRefused(c)
  BY <1>8 DEF Dim!Close, Dim!CloseWaited, Dim!Insert, Dim!InsertRefused
<1> QED BY <1>3, <1>4, <1>5, <1>6, <1>7, <1>8 DEF Dim!DimStep

\* Mappings are added to the end of a series' own, never to others'.
LEMMA MappingsGrow ==
  ASSUME MappingInv, NEW c \in Calls, Dim!DimStep(c), NEW g \in Slugs
  PROVE  /\ mappings'[g] # mappings[g] =>
              /\ pc[c] \in {"first", "commitMapping"} /\ WritesAlone(c) /\ g = Dim!Mine(c).slug
              /\ Dim!ActiveRef(Dim!Mine(c)) \in Refs
              /\ mappings'[g] = Extended(mappings[g], Dim!ActiveRef(Dim!Mine(c)))
         /\ mappings[g] # <<>> => mappings'[g] # <<>>
         /\ DOMAIN mappings[g] \subseteq DOMAIN mappings'[g]
<1>1. CallTypes /\ Prerequisites /\ Chains
  BY DEF MappingInv
<1>2. mappings[g] \in Seq(MappingRows) /\ mappings \in [Slugs -> Seq(MappingRows)]
  BY <1>1 DEF Chains
<1>3. CASE mappings' = mappings
  BY <1>3
<1>4. CASE pc[c] \in {"first", "commitMapping"} /\ Extends(c) /\ WritesAlone(c)
  <2>1. Dim!ActiveRef(Dim!Mine(c)) \in Refs /\ Dim!Mine(c).slug \in Slugs
    BY <1>1, <1>4, ActiveIs DEF AtMapping
  <2> DEFINE q == mappings[g]
             x == Extended(q, Dim!ActiveRef(Dim!Mine(c)))
  <2>2. CASE g = Dim!Mine(c).slug
    <3>1. mappings'[g] = x
      BY <1>2, <1>4, <2>2 DEF Extends
    <3>2. x \in Seq(MappingRows) /\ Len(x) = Len(q) + 1
      BY <1>2, <2>1, ExtendedIs
    <3>3. Len(q) \in Nat /\ DOMAIN q = 1..Len(q) /\ DOMAIN x = 1..Len(x) /\ Len(<<>>) = 0
      BY <1>2, <3>2, LenProperties, EmptySeq
    <3>4. x # <<>> /\ DOMAIN q \subseteq DOMAIN x
      <4> HIDE DEF x, q
      <4> QED BY <3>2, <3>3
    <3> QED BY <1>4, <2>1, <2>2, <3>1, <3>4
  <2>3. CASE g # Dim!Mine(c).slug
    <3>1. mappings'[g] = mappings[g]
      BY <1>2, <1>4, <2>3 DEF Extends
    <3> QED BY <3>1
  <2> QED BY <2>2, <2>3
<1> QED BY <1>3, <1>4, MappingEffect

\* A step of the dimensions keeps the chains.
LEMMA ChainsStep ==
  ASSUME MappingInv, NEW c \in Calls, Dim!DimStep(c)
  PROVE  Chains'
<1>1. CallTypes /\ Prerequisites /\ Chains
  BY DEF MappingInv
<1>2. CASE mappings' = mappings
  BY <1>1, <1>2 DEF Chains
<1>3. CASE pc[c] \in {"first", "commitMapping"} /\ Extends(c)
  <2> DEFINE r == Dim!ActiveRef(Dim!Mine(c))
  <2>1. r \in Refs /\ Dim!Mine(c).slug \in Slugs
    BY <1>1, <1>3, ActiveIs DEF AtMapping
  <2>2. \A g \in Slugs : mappings[g] \in Seq(MappingRows) /\ Chain(mappings[g])
    BY <1>1 DEF Chains
  <2>3. \A g \in Slugs : Extended(mappings[g], r) \in Seq(MappingRows) /\ Chain(Extended(mappings[g], r))
    BY <2>1, <2>2, ExtendedIs, ExtendedChain
  <2> HIDE DEF r
  <2>4. mappings' = [mappings EXCEPT ![Dim!Mine(c).slug] = Extended(@, r)]
    BY <1>3 DEF Extends, r
  <2> QED BY <1>1, <2>2, <2>3, <2>4 DEF Chains
<1> QED BY <1>2, <1>3, MappingEffect

\* It keeps the types of the calls.
LEMMA CallTypesStep ==
  ASSUME MappingInv, NEW c \in Calls, Dim!DimStep(c), kind' = kind, overlapped' = overlapped
  PROVE  CallTypes'
<1> USE DEF Dim!local, Dim!tables, Dim!Goto
<1>1. CallTypes /\ Prerequisites /\ Chains /\ ClosesTheNewest
  BY DEF MappingInv
<1>2. /\ config' = config /\ Moves(pc, c) /\ Moves(at, c) /\ Moves(row, c) /\ Moves(left, c)
      /\ pc[c] \in Dim!DimStages /\ pc'[c] \in Dim!DimStages \cup Ended
  BY <1>1, DimFrame
<1>3. config[c] \in Configs /\ kind[c] = "dimensions" /\ at[c] \in Nat /\ row[c] \in Nat
  BY <1>1, <1>2 DEF CallTypes
<1>4. DOMAIN config[c].series = 1..Len(config[c].series) /\ Len(config[c].series) \in Nat
  BY <1>3, ConfigsAssumption, LenProperties DEF IsConfig
<1>5. at'[c] \in Nat /\ at'[c] \in 1..(Len(config[c].series) + 1)
  <2>1. at[c] \in 1..(Len(config[c].series) + 1)
    BY <1>1 DEF CallTypes
  <2>2. ASSUME NEW i \in Nat, Dim!SkipTo(c, i) PROVE at'[c] \in 1..(Len(config[c].series) + 1)
    <3> HIDE DEF Dim!Goto
    <3>1. at \in [Calls -> Nat]
      BY <1>1 DEF CallTypes
    <3>2. at' = at \/ \E j \in DOMAIN config[c].series : at' = [at EXCEPT ![c] = j]
      BY <1>3, <2>2, SkipIs
    <3> QED BY <1>4, <2>1, <3>1, <3>2
  <2>3. at' = at \/ \E i \in Nat : Dim!SkipTo(c, i)
    BY <1>3 DEF Dim!DimStep, Dim!UpsertSource, Dim!SourcesDone, Dim!UpsertDataset,
       Dim!DatasetRefused, Dim!UpsertSeries, Dim!ReadMapping, Dim!InsertFirst,
       Dim!FirstRefused, Dim!Close, Dim!CloseWaited, Dim!Insert, Dim!InsertRefused,
       Dim!CommitMapping, Dim!DimStop
  <2> QED BY <1>4, <2>1, <2>2, <2>3
<1>6. row'[c] \in Nat
  <2>1. CASE Dim!Close(c)
    <3>1. Dim!Mine(c).slug \in Slugs
      BY <1>1, <2>1, ActiveIs DEF Dim!Close, AtMapping
    <3>2. PICK i \in Dim!Open(Dim!Mine(c).slug) : row' = [row EXCEPT ![c] = i]
      BY <2>1 DEF Dim!Close
    <3>3. i \in Nat
      BY <1>1, <3>1, OpenIs
    <3> QED BY <1>1, <3>2, <3>3 DEF CallTypes
  <2>2. CASE Dim!CloseWaited(c) \/ Dim!CommitMapping(c)
    BY <1>1, <2>2 DEF CallTypes, Dim!CloseWaited, Dim!CommitMapping
  <2>3. CASE ~Dim!Close(c) /\ ~Dim!CloseWaited(c) /\ ~Dim!CommitMapping(c)
    <3>1. row' = row
      BY <2>3 DEF Dim!DimStep, Dim!UpsertSource, Dim!SourcesDone, Dim!UpsertDataset,
         Dim!DatasetRefused, Dim!UpsertSeries, Dim!ReadMapping, Dim!InsertFirst,
         Dim!FirstRefused, Dim!Insert, Dim!InsertRefused, Dim!DimStop
    <3> QED BY <1>3, <3>1
  <2> QED BY <2>1, <2>2, <2>3
<1>7. left'[c] \subseteq config[c].sources
  <2>1. left[c] \subseteq config[c].sources
    BY <1>1 DEF CallTypes
  <2>2. left' = left \/ Dim!UpsertSource(c)
    BY DEF Dim!DimStep, Dim!SourcesDone, Dim!UpsertDataset,
       Dim!DatasetRefused, Dim!UpsertSeries, Dim!ReadMapping, Dim!InsertFirst,
       Dim!FirstRefused, Dim!Close, Dim!CloseWaited, Dim!Insert, Dim!InsertRefused,
       Dim!CommitMapping, Dim!DimStop
  <2> QED BY <1>1, <2>1, <2>2 DEF CallTypes, Dim!UpsertSource
<1> QED
  <2>1. pc' \in [Calls -> {"idle"} \cup Ended \cup Ed!EdStages \cup Dim!DimStages]
    BY <1>1, <1>2 DEF CallTypes, Moves
  <2>2. at' \in [Calls -> Nat] /\ row' \in [Calls -> Nat] /\ left' = [d \in Calls |-> left'[d]]
    BY <1>1, <1>2, <1>5, <1>6 DEF CallTypes, Moves
  <2>3. ASSUME NEW d \in Calls
        PROVE  /\ pc'[d] \in Dim!DimStages => kind[d] = "dimensions"
               /\ pc'[d] \in Ed!EdStages => kind[d] = "editorial"
               /\ left'[d] \subseteq config[d].sources
               /\ at'[d] \in 1..(Len(config[d].series) + 1)
    <3>1. CASE d = c
      BY <1>2, <1>3, <1>5, <1>7, <3>1
         DEF Dim!DimStages, Dim!InTransaction, Ed!EdStages, Ended
    <3>2. CASE d # c
      BY <1>1, <3>2, OthersStay DEF CallTypes
    <3> QED BY <3>1, <3>2
  <2> QED BY <1>1, <1>2, <2>1, <2>2, <2>3 DEF CallTypes

\* The walk ends, or stops at a series that is named.
LEMMA SkipLands ==
  ASSUME CallTypes, NEW c \in Calls, NEW i \in Nat, Dim!SkipTo(c, i), config' = config
  PROVE  \/ pc'[c] = "done" /\ at' = at
         \/ /\ pc'[c] = "dataset" /\ at'[c] \in DOMAIN config[c].series
            /\ IsNamed(Dim!Mine(c)')
<1>1. config[c] \in Configs /\ at \in [Calls -> Nat]
  BY DEF CallTypes
<1>2. pc \in [Calls -> {"idle"} \cup Ended \cup Ed!EdStages \cup Dim!DimStages]
  BY DEF CallTypes
<1>3. Dim!Mine(c)' = config[c].series[at'[c]]
  BY DEF Dim!Mine
<1>4. CASE pc' = [pc EXCEPT ![c] = "done"] /\ at' = at
  BY <1>2, <1>4
<1>5. CASE \E j \in DOMAIN config[c].series :
              /\ pc' = [pc EXCEPT ![c] = "dataset"] /\ at' = [at EXCEPT ![c] = j]
              /\ j >= i /\ IsNamed(config[c].series[j])
  BY <1>1, <1>2, <1>3, <1>5
<1> QED BY <1>1, <1>4, <1>5, SkipIs

\* Rows of sources, datasets and series are never taken away, and each refers to
\* one there is.
LEMMA ParentsStep ==
  ASSUME CallTypes, Prerequisites, NEW c \in Calls, Dim!DimStep(c)
  PROVE  /\ sources \subseteq sources' /\ DOMAIN datasets \subseteq DOMAIN datasets'
         /\ DOMAIN series \subseteq DOMAIN series'
         /\ \A d \in DOMAIN datasets' : datasets'[d] \in sources'
         /\ \A g \in DOMAIN series' : series'[g] \in DOMAIN datasets'
<1> USE DEF Dim!local, Dim!tables
<1>1. /\ \A d \in DOMAIN datasets : datasets[d] \in sources
      /\ \A g \in DOMAIN series : series[g] \in DOMAIN datasets
      /\ pc[c] = "series" => Dim!Mine(c).dataset \in DOMAIN datasets
  BY DEF Prerequisites
<1>2. CASE Dim!UpsertSource(c)
  BY <1>1, <1>2 DEF Dim!UpsertSource
<1>3. CASE Dim!UpsertDataset(c)
  BY <1>1, <1>3 DEF Dim!UpsertDataset, Dim!Upsert
<1>4. CASE Dim!UpsertSeries(c)
  BY <1>1, <1>4 DEF Dim!UpsertSeries, Dim!Upsert
<1>5. CASE ~Dim!UpsertSource(c) /\ ~Dim!UpsertDataset(c) /\ ~Dim!UpsertSeries(c)
  <2>1. sources' = sources /\ datasets' = datasets /\ series' = series
    BY <1>5 DEF Dim!DimStep, Dim!SourcesDone, Dim!DatasetRefused, Dim!ReadMapping, Dim!InsertFirst,
       Dim!FirstRefused, Dim!Close, Dim!CloseWaited, Dim!Insert, Dim!InsertRefused,
       Dim!CommitMapping, Dim!DimStop
  <2> QED BY <1>1, <2>1
<1> QED BY <1>2, <1>3, <1>4, <1>5

\* It keeps what the foreign keys of the next statements need.
LEMMA PrerequisitesStep ==
  ASSUME MappingInv, NEW c \in Calls, Dim!DimStep(c)
  PROVE  Prerequisites'
<1> USE DEF Dim!local, Dim!tables
<1>1. CallTypes /\ Prerequisites
  BY DEF MappingInv
<1>2. /\ config' = config /\ Moves(pc, c) /\ Moves(at, c)
      /\ pc[c] \in Dim!DimStages /\ pc'[c] \in Dim!DimStages \cup Ended
  BY <1>1, DimFrame
<1>3. /\ sources \subseteq sources' /\ DOMAIN datasets \subseteq DOMAIN datasets'
      /\ DOMAIN series \subseteq DOMAIN series'
      /\ \A d \in DOMAIN datasets' : datasets'[d] \in sources'
      /\ \A g \in DOMAIN series' : series'[g] \in DOMAIN datasets'
  BY <1>1, ParentsStep
<1>4. ASSUME NEW g \in Slugs, mappings'[g] # <<>>
      PROVE  g \in DOMAIN series'
  <2>1. CASE mappings'[g] = mappings[g]
    BY <1>1, <1>3, <1>4, <2>1 DEF Prerequisites
  <2>2. CASE mappings'[g] # mappings[g]
    <3>1. pc[c] \in AtMapping /\ g = Dim!Mine(c).slug
      BY <2>2, MappingsGrow DEF AtMapping
    <3> QED BY <1>1, <1>3, <3>1 DEF Prerequisites
  <2> QED BY <2>1, <2>2
<1> DEFINE Ready(d) ==
       /\ pc'[d] \in {"idle", "sources"} => config[d].sources \ left'[d] \subseteq sources'
       /\ pc'[d] \in AtSeries =>
            /\ config[d].sources \subseteq sources'
            /\ at'[d] \in DOMAIN config[d].series /\ IsNamed(Dim!Mine(d)')
       /\ pc'[d] = "series" => Dim!Mine(d)'.dataset \in DOMAIN datasets'
       /\ pc'[d] \in AtMapping =>
            /\ Dim!ActiveRef(Dim!Mine(d)') # Missing
            /\ Dim!Mine(d)'.slug \in DOMAIN series'
<1>5. ASSUME NEW d \in Calls, d # c PROVE Ready(d)
  <2>1. pc'[d] = pc[d] /\ at'[d] = at[d] /\ left'[d] = left[d] /\ Dim!Mine(d)' = Dim!Mine(d)
    BY <1>1, <1>5, OthersStay
  <2> QED BY <1>1, <1>3, <2>1 DEF Prerequisites
<1>6. Ready(c)
  <2> USE DEF AtSeries, AtMapping
  <2>1. at[c] \in Nat /\ config[c] \in Configs /\ pc \in [Calls -> {"idle"} \cup Ended \cup Ed!EdStages \cup Dim!DimStages]
    BY <1>1 DEF CallTypes
  <2>2. /\ pc[c] \in {"idle", "sources"} => config[c].sources \ left[c] \subseteq sources
        /\ pc[c] \in AtSeries => /\ config[c].sources \subseteq sources
                                 /\ at[c] \in DOMAIN config[c].series /\ IsNamed(Dim!Mine(c))
        /\ pc[c] = "series" => Dim!Mine(c).dataset \in DOMAIN datasets
        /\ pc[c] \in AtMapping => /\ Dim!ActiveRef(Dim!Mine(c)) # Missing
                                  /\ Dim!Mine(c).slug \in DOMAIN series
    BY <1>1 DEF Prerequisites
  <2>3. ASSUME NEW i \in Nat, Dim!SkipTo(c, i), config[c].sources \subseteq sources'
        PROVE  Ready(c)
    <3>1. \/ pc'[c] = "done"
          \/ /\ pc'[c] = "dataset" /\ at'[c] \in DOMAIN config[c].series
             /\ IsNamed(Dim!Mine(c)')
      BY <1>1, <1>2, <2>3, SkipLands
    <3> QED BY <2>3, <3>1
  <2>4. ASSUME at' = at PROVE Dim!Mine(c)' = Dim!Mine(c)
    BY <1>2, <2>4 DEF Dim!Mine
  <2>5. CASE Dim!UpsertSource(c)
    <3>1. PICK id \in left[c] : sources' = sources \cup {id} /\ left' = [left EXCEPT ![c] = @ \ {id}]
      BY <2>5 DEF Dim!UpsertSource
    <3>2. left'[c] = left[c] \ {id}
      BY <1>1, <3>1 DEF CallTypes
    <3>3. pc'[c] = "sources"
      BY <2>5 DEF Dim!UpsertSource
    <3>4. config[c].sources \ left[c] \subseteq sources
      BY <2>2, <2>5 DEF Dim!UpsertSource
    <3> QED BY <3>1, <3>2, <3>3, <3>4
  <2>6. CASE Dim!SourcesDone(c)
    BY <1>3, <2>2, <2>3, <2>6 DEF Dim!SourcesDone
  <2>7. CASE Dim!UpsertDataset(c)
    <3>1. pc'[c] = "series" /\ at' = at
      BY <2>1, <2>7 DEF Dim!UpsertDataset, Dim!Goto
    <3>2. Dim!Mine(c).dataset \in DOMAIN datasets'
      BY <2>7 DEF Dim!UpsertDataset, Dim!Upsert
    <3> QED BY <1>3, <2>2, <2>4, <2>7, <3>1, <3>2 DEF Dim!UpsertDataset
  <2>8. CASE Dim!DatasetRefused(c) \/ Dim!FirstRefused(c) \/ Dim!InsertRefused(c) \/ Dim!DimStop(c)
    <3>1. pc'[c] \in {"failed", "stopped"}
      BY <2>1, <2>8 DEF Dim!DatasetRefused, Dim!FirstRefused, Dim!InsertRefused, Dim!DimStop, Dim!Goto
    <3> QED BY <3>1
  <2>9. CASE Dim!UpsertSeries(c)
    <3>1. pc[c] = "series"
      BY <2>9 DEF Dim!UpsertSeries
    <3>2. CASE Dim!ActiveRef(Dim!Mine(c)) = Missing
      BY <1>3, <2>1, <2>2, <2>3, <2>9, <3>1, <3>2 DEF Dim!UpsertSeries
    <3>3. CASE Dim!ActiveRef(Dim!Mine(c)) # Missing
      <4>1. pc'[c] = "mapping" /\ at' = at
        BY <2>1, <2>9, <3>3 DEF Dim!UpsertSeries, Dim!Goto
      <4>2. Dim!Mine(c).slug \in DOMAIN series'
        BY <2>9 DEF Dim!UpsertSeries, Dim!Upsert
      <4> QED BY <1>3, <2>2, <2>4, <3>1, <3>3, <4>1, <4>2
    <3> QED BY <3>2, <3>3
  <2>10. CASE Dim!ReadMapping(c) \/ Dim!InsertFirst(c) \/ Dim!CommitMapping(c)
    <3>1. pc[c] \in AtMapping
      BY <2>10 DEF Dim!ReadMapping, Dim!InsertFirst, Dim!CommitMapping
    <3>2. Dim!SkipTo(c, at[c] + 1) \/ (at' = at /\ pc'[c] \in {"first", "close"})
      BY <2>1, <2>10 DEF Dim!ReadMapping, Dim!InsertFirst, Dim!CommitMapping, Dim!Goto
    <3>3. CASE Dim!SkipTo(c, at[c] + 1)
      BY <1>3, <2>1, <2>2, <2>3, <3>1, <3>3
    <3>4. CASE at' = at /\ pc'[c] \in {"first", "close"}
      BY <1>3, <2>2, <2>4, <3>1, <3>4
    <3> QED BY <3>2, <3>3, <3>4
  <2>11. CASE Dim!Close(c) \/ Dim!CloseWaited(c) \/ Dim!Insert(c)
    <3>1. pc[c] \in AtMapping /\ at' = at /\ pc'[c] \in {"waiting", "open", "commitMapping"}
      BY <2>1, <2>11 DEF Dim!Close, Dim!CloseWaited, Dim!Insert, Dim!Goto
    <3> QED BY <1>3, <2>2, <2>4, <3>1
  <2> QED BY <2>5, <2>6, <2>7, <2>8, <2>9, <2>10, <2>11 DEF Dim!DimStep
<1>7. \A d \in Calls : Ready(d)
  BY <1>5, <1>6
<1> QED BY <1>2, <1>3, <1>4, <1>7 DEF Prerequisites

\* What the stage and the row of c are after a step, as far as closing goes.
LEMMA RowMoves ==
  ASSUME MappingInv, NEW c \in Calls, Dim!DimStep(c)
  PROVE  \/ pc'[c] \in {"sources", "dataset", "series", "mapping", "first", "done"} /\ row'[c] = 0
         \/ /\ pc'[c] = "close" /\ row'[c] = 0 /\ at' = at
            /\ mappings' = mappings /\ mappings[Dim!Mine(c).slug] # <<>>
         \/ /\ pc[c] = "close" /\ pc'[c] \in {"waiting", "open"} /\ at' = at /\ mappings' = mappings
            /\ row'[c] = Len(mappings[Dim!Mine(c).slug])
            /\ pc'[c] = "open" => ~Dim!Writing(c, Dim!Mine(c).slug)
         \/ /\ pc[c] = "waiting" /\ pc'[c] = "open" /\ at' = at /\ mappings' = mappings
            /\ row'[c] = (IF row[c] = Len(mappings[Dim!Mine(c).slug]) THEN row[c] ELSE 0)
            /\ ~Dim!Writing(c, Dim!Mine(c).slug)
         \/ /\ pc[c] = "open" /\ pc'[c] = "commitMapping" /\ at' = at /\ mappings' = mappings
            /\ row' = row /\ row[c] = Len(mappings[Dim!Mine(c).slug])
         \/ pc'[c] \in {"failed", "stopped"} /\ at' = at /\ row' = row
<1> USE DEF Dim!local, Dim!tables, Dim!Goto
<1>1. CallTypes /\ Prerequisites /\ Chains /\ ClosesTheNewest
  BY DEF MappingInv
<1>2. /\ pc \in [Calls -> {"idle"} \cup Ended \cup Ed!EdStages \cup Dim!DimStages]
      /\ row \in [Calls -> Nat] /\ at[c] \in Nat
  BY <1>1 DEF CallTypes
<1>3. pc[c] \notin {"waiting", "open", "commitMapping", "failed", "stopped"} => row[c] = 0
  BY <1>1 DEF ClosesTheNewest
<1>4. ASSUME NEW i \in Nat, Dim!SkipTo(c, i), config' = config
      PROVE  pc'[c] \in {"dataset", "done"}
  <2> HIDE DEF Dim!Goto
  <2> QED BY <1>1, <1>4, SkipLands
<1>5. ASSUME pc[c] \in AtMapping
      PROVE  /\ Dim!Mine(c).slug \in Slugs
             /\ mappings[Dim!Mine(c).slug] = <<>> <=> Dim!Open(Dim!Mine(c).slug) = {}
             /\ \A i : i \in Dim!Open(Dim!Mine(c).slug) <=>
                       /\ mappings[Dim!Mine(c).slug] # <<>>
                       /\ i = Len(mappings[Dim!Mine(c).slug])
  <2>1. Dim!Mine(c).slug \in Slugs
    BY <1>1, <1>5, ActiveIs
  <2> QED BY <1>1, <2>1, OpenIs
<1>6. CASE Dim!UpsertSource(c) \/ Dim!UpsertDataset(c)
  BY <1>2, <1>3, <1>6 DEF Dim!UpsertSource, Dim!UpsertDataset
<1>7. CASE Dim!SourcesDone(c)
  BY <1>2, <1>3, <1>4, <1>7 DEF Dim!SourcesDone
<1>8. CASE Dim!UpsertSeries(c)
  BY <1>2, <1>3, <1>4, <1>8 DEF Dim!UpsertSeries
<1>9. CASE Dim!ReadMapping(c)
  <2>1. pc[c] = "mapping" /\ row' = row /\ row[c] = 0 /\ mappings' = mappings /\ config' = config
    BY <1>3, <1>9 DEF Dim!ReadMapping
  <2>2. mappings[Dim!Mine(c).slug] = <<>> <=> Dim!Open(Dim!Mine(c).slug) = {}
    BY <1>5, <2>1 DEF AtMapping
  <2>3. \/ Dim!SkipTo(c, at[c] + 1)
        \/ pc' = [pc EXCEPT ![c] = "first"]
        \/ pc' = [pc EXCEPT ![c] = "close"] /\ at' = at /\ Dim!Open(Dim!Mine(c).slug) # {}
    BY <1>9 DEF Dim!ReadMapping
  <2> QED BY <1>2, <1>4, <2>1, <2>2, <2>3
<1>10. CASE Dim!InsertFirst(c)
  BY <1>2, <1>3, <1>4, <1>10 DEF Dim!InsertFirst
<1>11. CASE Dim!DatasetRefused(c) \/ Dim!FirstRefused(c) \/ Dim!InsertRefused(c) \/ Dim!DimStop(c)
  BY <1>2, <1>11 DEF Dim!DatasetRefused, Dim!FirstRefused, Dim!InsertRefused, Dim!DimStop
<1>12. CASE Dim!Close(c)
  <2>1. pc[c] = "close" /\ at' = at /\ mappings' = mappings
    BY <1>12 DEF Dim!Close
  <2>2. row'[c] = Len(mappings[Dim!Mine(c).slug])
    BY <1>2, <1>5, <1>12, <2>1 DEF Dim!Close, AtMapping
  <2>3. pc'[c] = IF Dim!Writing(c, Dim!Mine(c).slug) THEN "waiting" ELSE "open"
    BY <1>2, <1>12 DEF Dim!Close
  <2> QED BY <2>1, <2>2, <2>3
<1>13. CASE Dim!CloseWaited(c)
  <2>1. /\ pc[c] = "waiting" /\ at' = at /\ mappings' = mappings /\ pc'[c] = "open"
        /\ ~Dim!Writing(c, Dim!Mine(c).slug)
        /\ row'[c] = IF row[c] \in Dim!Open(Dim!Mine(c).slug) THEN row[c] ELSE 0
    BY <1>2, <1>13 DEF Dim!CloseWaited
  <2>2. mappings[Dim!Mine(c).slug] # <<>>
    BY <1>1, <2>1 DEF ClosesTheNewest, Replacing
  <2>3. row[c] \in Dim!Open(Dim!Mine(c).slug) <=> row[c] = Len(mappings[Dim!Mine(c).slug])
    BY <1>5, <2>1, <2>2 DEF AtMapping
  <2> QED BY <2>1, <2>3
<1>14. CASE Dim!Insert(c)
  <2>1. /\ pc[c] = "open" /\ at' = at /\ mappings' = mappings /\ pc'[c] = "commitMapping"
        /\ row' = row /\ Dim!Open(Dim!Mine(c).slug) \subseteq {row[c]}
    BY <1>2, <1>14 DEF Dim!Insert
  <2>2. mappings[Dim!Mine(c).slug] # <<>>
    BY <1>1, <2>1 DEF ClosesTheNewest, Replacing
  <2>3. Len(mappings[Dim!Mine(c).slug]) \in Dim!Open(Dim!Mine(c).slug)
    BY <1>5, <2>1, <2>2 DEF AtMapping
  <2> QED BY <2>1, <2>3
<1>15. CASE Dim!CommitMapping(c)
  BY <1>2, <1>4, <1>15 DEF Dim!CommitMapping
<1> QED BY <1>6, <1>7, <1>8, <1>9, <1>10, <1>11, <1>12, <1>13, <1>14, <1>15 DEF Dim!DimStep

\* It keeps what is known of the row an UPDATE has taken.
LEMMA ClosesStep ==
  ASSUME MappingInv, NEW c \in Calls, Dim!DimStep(c)
  PROVE  ClosesTheNewest'
<1>1. CallTypes /\ Prerequisites /\ Chains /\ ClosesTheNewest
  BY DEF MappingInv
<1>2. config' = config
  BY <1>1, DimFrame
<1> DEFINE Closes(d) ==
       /\ pc'[d] \notin {"waiting", "open", "commitMapping", "failed", "stopped"} => row'[d] = 0
       /\ row'[d] # 0 => /\ at'[d] \in DOMAIN config[d].series
                         /\ row'[d] \in DOMAIN mappings'[Dim!Mine(d)'.slug]
       /\ pc'[d] \in Replacing => mappings'[Dim!Mine(d)'.slug] # <<>>
       /\ pc'[d] \in Dim!InTransaction /\ row'[d] # 0 => row'[d] = Len(mappings'[Dim!Mine(d)'.slug])
       /\ pc'[d] = "commitMapping" => row'[d] # 0
<1>3. ASSUME NEW d \in Calls, pc[d] \in AtSeries \/ row[d] # 0
      PROVE  at[d] \in DOMAIN config[d].series /\ Dim!Mine(d).slug \in Slugs
  <2>1. at[d] \in DOMAIN config[d].series /\ config[d] \in Configs
    BY <1>1, <1>3 DEF Prerequisites, ClosesTheNewest, CallTypes
  <2> QED BY <2>1, MineIs
<1>4. ASSUME NEW d \in Calls, d # c PROVE Closes(d)
  <2>1. pc'[d] = pc[d] /\ at'[d] = at[d] /\ row'[d] = row[d] /\ Dim!Mine(d)' = Dim!Mine(d)
    BY <1>1, <1>4, OthersStay
  <2> DEFINE g == Dim!Mine(d).slug
  <2>2. CASE pc[d] \in Replacing \/ row[d] # 0
    <3>1. g \in Slugs
      BY <1>3, <2>2 DEF AtSeries, AtMapping, Replacing
    <3>2. /\ mappings[g] # <<>> => mappings'[g] # <<>>
          /\ DOMAIN mappings[g] \subseteq DOMAIN mappings'[g]
          /\ mappings'[g] # mappings[g] => WritesAlone(c) /\ g = Dim!Mine(c).slug
      BY <3>1, MappingsGrow
    <3>3. pc[d] \in Dim!InTransaction /\ row[d] # 0 => mappings'[g] = mappings[g]
      BY <1>4, <3>2 DEF WritesAlone
    <3> QED BY <1>1, <2>1, <3>2, <3>3 DEF ClosesTheNewest
  <2>3. CASE pc[d] \notin Replacing /\ row[d] = 0
    BY <1>1, <2>1, <2>3 DEF ClosesTheNewest, Replacing, Dim!InTransaction
  <2> QED BY <2>2, <2>3
<1>5. Closes(c)
  <2> USE DEF Replacing, Dim!InTransaction
  <2> DEFINE g == Dim!Mine(c).slug
  <2>1. at' = at => Dim!Mine(c)' = Dim!Mine(c)
    BY <1>2 DEF Dim!Mine
  <2>2. ASSUME pc[c] \in Replacing
        PROVE  /\ mappings[g] # <<>> /\ at[c] \in DOMAIN config[c].series
               /\ Len(mappings[g]) \in DOMAIN mappings[g]
    <3>1. g \in Slugs /\ at[c] \in DOMAIN config[c].series
      BY <1>3, <2>2 DEF AtSeries, AtMapping
    <3>2. mappings[g] # <<>>
      BY <1>1, <2>2 DEF ClosesTheNewest
    <3> QED BY <1>1, <3>1, <3>2, OpenIs DEF Dim!Open
  <2>3. CASE pc'[c] \in {"failed", "stopped"} /\ at' = at /\ row' = row
    <3>1. row[c] # 0 => /\ g \in Slugs /\ at[c] \in DOMAIN config[c].series
                        /\ row[c] \in DOMAIN mappings[g]
      BY <1>1, <1>3 DEF ClosesTheNewest
    <3>2. row[c] # 0 => row[c] \in DOMAIN mappings'[g]
      BY <3>1, MappingsGrow
    <3> QED BY <2>1, <2>3, <3>1, <3>2
  <2>4. CASE pc'[c] \in {"sources", "dataset", "series", "mapping", "first", "done"} /\ row'[c] = 0
    BY <2>4
  <2>5. CASE /\ pc'[c] = "close" /\ row'[c] = 0 /\ at' = at
             /\ mappings' = mappings /\ mappings[Dim!Mine(c).slug] # <<>>
    BY <2>1, <2>5
  <2>6. CASE /\ pc[c] = "close" /\ pc'[c] \in {"waiting", "open"} /\ at' = at /\ mappings' = mappings
             /\ row'[c] = Len(mappings[Dim!Mine(c).slug])
    BY <2>1, <2>2, <2>6
  <2>7. CASE /\ pc[c] = "waiting" /\ pc'[c] = "open" /\ at' = at /\ mappings' = mappings
             /\ row'[c] = (IF row[c] = Len(mappings[Dim!Mine(c).slug]) THEN row[c] ELSE 0)
    BY <2>1, <2>2, <2>7
  <2>8. CASE /\ pc[c] = "open" /\ pc'[c] = "commitMapping" /\ at' = at /\ mappings' = mappings
             /\ row' = row /\ row[c] = Len(mappings[Dim!Mine(c).slug])
    <3>1. g \in Slugs
      BY <1>3, <2>8 DEF AtSeries, AtMapping
    <3>2. DOMAIN mappings[g] = 1..Len(mappings[g]) /\ Len(mappings[g]) \in DOMAIN mappings[g]
      BY <1>1, <2>2, <2>8, <3>1, OpenIs
    <3>3. Len(mappings[g]) # 0
      BY <3>2
    <3> QED BY <2>1, <2>2, <2>8, <3>3
  <2> QED BY <2>3, <2>4, <2>5, <2>6, <2>7, <2>8, RowMoves
<1>6. \A d \in Calls : Closes(d)
  BY <1>4, <1>5
<1> QED BY <1>2, <1>6 DEF ClosesTheNewest

\* No second transaction gets hold of the mappings of a series.
LEMMA OneWriterStep ==
  ASSUME MappingInv, NEW c \in Calls, Dim!DimStep(c)
  PROVE  OneWriter'
<1> USE DEF Dim!InTransaction
<1>1. CallTypes /\ Prerequisites /\ Chains /\ ClosesTheNewest /\ OneWriter
  BY DEF MappingInv
<1>2. config' = config
  BY <1>1, DimFrame
<1>3. ASSUME NEW d \in Calls, d # c, pc'[c] \in Dim!InTransaction, row'[c] # 0,
             pc'[d] \in Dim!InTransaction, row'[d] # 0, Dim!Mine(c)'.slug = Dim!Mine(d)'.slug
      PROVE  FALSE
  <2>1. pc'[d] = pc[d] /\ row'[d] = row[d] /\ Dim!Mine(d)' = Dim!Mine(d)
    BY <1>1, <1>3, OthersStay
  <2>2. at' = at => Dim!Mine(c)' = Dim!Mine(c)
    BY <1>2 DEF Dim!Mine
  <2>3. \/ at' = at /\ ~Dim!Writing(c, Dim!Mine(c).slug)
        \/ at' = at /\ pc[c] = "open" /\ row' = row
    BY <1>3, RowMoves
  <2>4. CASE at' = at /\ ~Dim!Writing(c, Dim!Mine(c).slug)
    BY <1>3, <2>1, <2>2, <2>4 DEF Dim!Writing
  <2>5. CASE at' = at /\ pc[c] = "open" /\ row' = row
    BY <1>1, <1>3, <2>1, <2>2, <2>5 DEF OneWriter
  <2> QED BY <2>3, <2>4, <2>5
<1>4. ASSUME NEW d \in Calls, NEW e \in Calls, d # c, e # c, d # e,
             pc'[d] \in Dim!InTransaction, row'[d] # 0,
             pc'[e] \in Dim!InTransaction, row'[e] # 0, Dim!Mine(d)'.slug = Dim!Mine(e)'.slug
      PROVE  FALSE
  <2>1. /\ pc'[d] = pc[d] /\ row'[d] = row[d] /\ Dim!Mine(d)' = Dim!Mine(d)
        /\ pc'[e] = pc[e] /\ row'[e] = row[e] /\ Dim!Mine(e)' = Dim!Mine(e)
    BY <1>1, <1>4, OthersStay
  <2> QED BY <1>1, <1>4, <2>1 DEF OneWriter
<1> QED
  <2> SUFFICES ASSUME NEW d \in Calls, NEW e \in Calls, d # e,
                      pc'[d] \in Dim!InTransaction, row'[d] # 0,
                      pc'[e] \in Dim!InTransaction, row'[e] # 0,
                      Dim!Mine(d)'.slug = Dim!Mine(e)'.slug
               PROVE  FALSE
    BY DEF OneWriter
  <2> QED BY <1>3, <1>4

\* Two calls of a kind that are under way have recorded each other.
LEMMA BothAreKnown ==
  ASSUME MappingInv, NEW c \in Calls, NEW d \in Calls, c # d,
         pc[c] \in Dim!DimStages, pc[d] \in Dim!DimStages
  PROVE  config[c] \in overlapped[d]
  BY DEF MappingInv, CallTypes, OverlapsAreKnown, UnderWay, Dim!DimStages, Dim!InTransaction, Ended

\* What a lone call finds when it looks at the active mapping.
LEMMA LoneStep ==
  ASSUME MappingInv, NEW c \in Calls, Dim!DimStep(c), overlapped' = overlapped
  PROVE  LoneReplaces'
<1> USE DEF Dim!local, Dim!tables, Dim!Goto
<1>1. CallTypes /\ Prerequisites /\ Chains /\ ClosesTheNewest /\ LoneReplaces
  BY DEF MappingInv
<1>2. config' = config /\ pc[c] \in Dim!DimStages
  BY <1>1, DimFrame
<1> DEFINE Finds(d) ==
       /\ pc'[d] = "first" => mappings'[Dim!Mine(d)'.slug] = <<>>
       /\ pc'[d] \in Replacing => NewestRef(Dim!Mine(d).slug)' # Dim!ActiveRef(Dim!Mine(d)').ref
       /\ pc'[d] \in {"waiting", "open", "commitMapping"} =>
            row'[d] = Len(mappings'[Dim!Mine(d)'.slug])
<1>3. ASSUME NEW d \in Calls, d # c, overlapped[d] = {} PROVE Finds(d)
  <2>1. pc'[d] = pc[d]
    BY <1>1, <1>3, OthersStay
  <2>2. pc[d] \notin Dim!DimStages
    BY <1>2, <1>3, BothAreKnown
  <2> QED BY <2>1, <2>2 DEF Replacing, Dim!DimStages, Dim!InTransaction
<1>4. ASSUME overlapped[c] = {} PROVE Finds(c)
  <2> DEFINE g == Dim!Mine(c).slug
             r == Dim!ActiveRef(Dim!Mine(c))
  <2>1. /\ pc[c] \in Replacing => NewestRef(g) # r.ref
        /\ pc[c] \in {"waiting", "open", "commitMapping"} => row[c] = Len(mappings[g])
    BY <1>1, <1>4 DEF LoneReplaces
  <2>2. /\ pc \in [Calls -> {"idle"} \cup Ended \cup Ed!EdStages \cup Dim!DimStages]
        /\ row \in [Calls -> Nat] /\ at[c] \in Nat
    BY <1>1 DEF CallTypes
  <2>3. at' = at => Dim!Mine(c)' = Dim!Mine(c)
    BY <1>2 DEF Dim!Mine
  <2>4. CASE Dim!ReadMapping(c)
    <3>1. pc[c] = "mapping" /\ mappings' = mappings
      BY <2>4 DEF Dim!ReadMapping
    <3>2. g \in Slugs
      BY <1>1, <3>1, ActiveIs DEF AtMapping
    <3>3. /\ mappings[g] = <<>> <=> Dim!Open(g) = {}
          /\ Dim!Open(g) # {} => Len(mappings[g]) \in Dim!Open(g)
      BY <1>1, <3>2, OpenIs
    <3>4. CASE Dim!Open(g) = {}
      <4>1. pc'[c] = "first" /\ at' = at
        BY <2>2, <2>4, <3>4 DEF Dim!ReadMapping
      <4> QED BY <2>3, <3>1, <3>3, <3>4, <4>1 DEF Replacing
    <3>5. CASE Dim!Open(g) # {} /\ \E i \in Dim!Open(g) : mappings[g][i].ref = r.ref
      <4>1. Dim!SkipTo(c, at[c] + 1)
        BY <2>4, <3>5 DEF Dim!ReadMapping
      <4>2. pc'[c] \in {"dataset", "done"}
        <5> HIDE DEF Dim!Goto
        <5> QED BY <1>1, <1>2, <2>2, <4>1, SkipLands
      <4> QED BY <4>2 DEF Replacing
    <3>6. CASE Dim!Open(g) # {} /\ ~\E i \in Dim!Open(g) : mappings[g][i].ref = r.ref
      <4>1. pc'[c] = "close" /\ at' = at
        BY <2>2, <2>4, <3>6 DEF Dim!ReadMapping
      <4>2. NewestRef(g) # r.ref
        BY <3>3, <3>6 DEF NewestRef
      <4> QED BY <2>3, <3>1, <4>1, <4>2 DEF Replacing, NewestRef
    <3> QED BY <3>4, <3>5, <3>6
  <2>5. CASE ~Dim!ReadMapping(c)
    <3>1. pc'[c] \notin {"first", "close"}
      <4>1. ASSUME NEW i \in Nat, Dim!SkipTo(c, i) PROVE pc'[c] \in {"dataset", "done"}
        <5> HIDE DEF Dim!Goto
        <5> QED BY <1>1, <1>2, <4>1, SkipLands
      <4> QED BY <2>2, <2>5, <4>1 DEF Dim!DimStep, Dim!UpsertSource, Dim!SourcesDone,
             Dim!UpsertDataset, Dim!DatasetRefused, Dim!UpsertSeries, Dim!InsertFirst,
             Dim!FirstRefused, Dim!Close, Dim!CloseWaited, Dim!Insert, Dim!InsertRefused,
             Dim!CommitMapping, Dim!DimStop
    <3>2. ASSUME pc'[c] \in {"waiting", "open", "commitMapping"}
          PROVE  /\ pc[c] \in Replacing /\ at' = at /\ mappings' = mappings
                 /\ row'[c] = Len(mappings[g])
      BY <2>1, <3>2, RowMoves DEF Replacing
    <3> QED BY <2>1, <2>3, <3>1, <3>2 DEF Replacing, NewestRef
  <2> QED BY <2>4, <2>5
<1>5. ASSUME \A d \in Calls : overlapped[d] = {}, NEW g \in Slugs
      PROVE  NoRepeats(mappings'[g])
  <2>1. NoRepeats(mappings[g]) /\ mappings[g] \in Seq(MappingRows)
    BY <1>1, <1>5 DEF LoneReplaces, Chains
  <2>2. CASE mappings'[g] = mappings[g]
    BY <2>1, <2>2
  <2>3. CASE mappings'[g] # mappings[g]
    <3> DEFINE r == Dim!ActiveRef(Dim!Mine(c))
    <3>1. /\ pc[c] \in {"first", "commitMapping"} /\ g = Dim!Mine(c).slug /\ r \in Refs
          /\ mappings'[g] = Extended(mappings[g], r)
      BY <2>3, MappingsGrow
    <3>2. mappings[g] # <<>> => mappings[g][Len(mappings[g])].ref # r.ref
      BY <1>1, <1>5, <3>1 DEF LoneReplaces, Replacing, NewestRef
    <3> HIDE DEF r
    <3> QED BY <2>1, <3>1, <3>2, ExtendedRepeats
  <2> QED BY <2>2, <2>3
<1> QED BY <1>3, <1>4, <1>5 DEF LoneReplaces

\* The mapping a call adds is that of the identifier in force.
LEMMA ExtendedMaps ==
  ASSUME NEW q \in Seq(MappingRows), NEW r \in Refs
  PROVE  Extended(q, r) # <<>> /\ Extended(q, r)[Len(Extended(q, r))].ref = r.ref
<1>1. /\ Extended(q, r) \in Seq(MappingRows) /\ Len(Extended(q, r)) = Len(q) + 1
      /\ Extended(q, r)[Len(q) + 1] = Dim!Mapping(r)
  BY ExtendedIs
<1>2. Len(q) \in Nat /\ Len(<<>>) = 0
  BY LenProperties, EmptySeq
<1>3. Dim!Mapping(r).ref = r.ref
  BY MappingIs
<1> QED BY <1>1, <1>2, <1>3

\* A step of a call leaves the series of its configuration mapped that are, and
\* maps that of the call if it changes its mappings.
LEMMA MappedStays ==
  ASSUME MappingInv, NEW c \in Calls, Dim!DimStep(c), SlugsAreUnique(config[c]),
         NEW j \in DOMAIN config[c].series, MappedIn(mappings, config[c].series[j])
  PROVE  MappedIn(mappings', config[c].series[j])
<1> DEFINE g == config[c].series[j].slug
<1>1. CallTypes /\ Prerequisites /\ Chains
  BY DEF MappingInv
<1>2. config[c].series[j] \in ToSet(config[c].series) /\ config[c] \in Configs
  BY <1>1 DEF ToSet, CallTypes
<1>3. g \in Slugs
  BY <1>2 DEF Slugs
<1>4. CASE mappings'[g] = mappings[g]
  BY <1>4 DEF MappedIn
<1>5. CASE mappings'[g] # mappings[g]
  <2> DEFINE r == Dim!ActiveRef(Dim!Mine(c))
  <2>1. /\ pc[c] \in {"first", "commitMapping"} /\ g = Dim!Mine(c).slug /\ r \in Refs
        /\ mappings'[g] = Extended(mappings[g], r)
    BY <1>3, <1>5, MappingsGrow
  <2>2. at[c] \in DOMAIN config[c].series
    BY <1>1, <2>1 DEF Prerequisites, AtSeries, AtMapping
  <2>3. j = at[c]
    BY <2>1, <2>2 DEF SlugsAreUnique, Dim!Mine
  <2>4. Dim!ActiveRef(config[c].series[j]) = r
    BY <2>3 DEF Dim!Mine
  <2>5. mappings[g] \in Seq(MappingRows)
    BY <1>1, <1>3 DEF Chains
  <2> HIDE DEF r
  <2> QED BY <2>1, <2>4, <2>5, ExtendedMaps DEF MappedIn
<1> QED BY <1>4, <1>5

\* The walk to the next series leaves none behind that could be mapped.
LEMMA SkipMaps ==
  ASSUME CallTypes, NEW c \in Calls, NEW i \in Nat, Dim!SkipTo(c, i),
         NEW m, MappedBelow(m, config[c], i)
  PROVE  /\ pc'[c] = "dataset" => MappedBelow(m, config[c], at'[c])
         /\ pc'[c] = "done" => MappedBelow(m, config[c], Len(config[c].series) + 1)
<1> DEFINE cfg == config[c]
<1>1. cfg \in Configs /\ at \in [Calls -> Nat]
      /\ pc \in [Calls -> {"idle"} \cup Ended \cup Ed!EdStages \cup Dim!DimStages]
  BY DEF CallTypes
<1>2. DOMAIN cfg.series = 1..Len(cfg.series) /\ Len(cfg.series) \in Nat
  BY <1>1, ConfigsAssumption, LenProperties DEF IsConfig
<1>3. CASE /\ pc' = [pc EXCEPT ![c] = "done"] /\ at' = at
           /\ \A k \in DOMAIN cfg.series : k >= i => ~IsNamed(cfg.series[k])
  <2>1. pc'[c] = "done"
    BY <1>1, <1>3
  <2>2. \A k \in DOMAIN cfg.series : k < i \/ k >= i
    BY <1>2
  <2>3. MappedBelow(m, cfg, Len(cfg.series) + 1)
    BY <1>3, <2>2 DEF MappedBelow
  <2> QED BY <2>1, <2>3
<1>4. CASE \E j \in DOMAIN cfg.series :
              /\ pc' = [pc EXCEPT ![c] = "dataset"] /\ at' = [at EXCEPT ![c] = j]
              /\ j >= i /\ IsNamed(cfg.series[j])
              /\ \A k \in DOMAIN cfg.series : k >= i /\ k < j => ~IsNamed(cfg.series[k])
  <2>1. PICK j \in DOMAIN cfg.series :
              /\ pc' = [pc EXCEPT ![c] = "dataset"] /\ at' = [at EXCEPT ![c] = j]
              /\ j >= i /\ IsNamed(cfg.series[j])
              /\ \A k \in DOMAIN cfg.series : k >= i /\ k < j => ~IsNamed(cfg.series[k])
    BY <1>4
  <2>2. pc'[c] = "dataset" /\ at'[c] = j
    BY <1>1, <2>1
  <2>3. \A k \in DOMAIN cfg.series : k < i \/ k >= i
    BY <1>2
  <2>4. MappedBelow(m, cfg, j)
    BY <2>1, <2>3 DEF MappedBelow
  <2> QED BY <2>2, <2>4
<1> QED BY <1>1, <1>3, <1>4, SkipIs

\* A call that only calls of its configuration overlap has mapped what it passes.
LEMMA OwnMapped ==
  ASSUME MappingInv, NEW c \in Calls, Dim!DimStep(c),
         overlapped[c] \subseteq {config[c]}, SlugsAreUnique(config[c])
  PROVE  /\ pc'[c] \in AtSeries => MappedBelow(mappings', config[c], at'[c])
         /\ pc'[c] = "done" => MappedBelow(mappings', config[c], Len(config[c].series) + 1)
<1> USE DEF Dim!local, Dim!tables
<1> DEFINE cfg == config[c]
           s == Dim!Mine(c)
<1>1. CallTypes /\ Prerequisites /\ Chains /\ ClosesTheNewest /\ MappedSoFar
  BY DEF MappingInv
<1>2. /\ pc \in [Calls -> {"idle"} \cup Ended \cup Ed!EdStages \cup Dim!DimStages]
      /\ at[c] \in Nat /\ cfg \in Configs
  BY <1>1 DEF CallTypes
<1>3. DOMAIN cfg.series = 1..Len(cfg.series) /\ Len(cfg.series) \in Nat
  BY <1>2, ConfigsAssumption, LenProperties DEF IsConfig
<1>4. pc[c] \in AtSeries => MappedBelow(mappings', cfg, at[c])
  <2> SUFFICES ASSUME pc[c] \in AtSeries, NEW j \in DOMAIN cfg.series, j < at[c],
                      IsNamed(cfg.series[j]), Dim!ActiveRef(cfg.series[j]) # Missing
               PROVE  MappedIn(mappings', cfg.series[j])
    BY DEF MappedBelow
  <2>1. MappedBelow(mappings, cfg, at[c])
    BY <1>1 DEF MappedSoFar
  <2>2. MappedIn(mappings, cfg.series[j])
    BY <2>1 DEF MappedBelow
  <2> QED BY <2>2, MappedStays
<1>5. ASSUME pc[c] \in AtSeries, Dim!SkipTo(c, at[c] + 1),
             Dim!ActiveRef(s) # Missing => MappedIn(mappings', s)
      PROVE  /\ pc'[c] = "dataset" => MappedBelow(mappings', cfg, at'[c])
             /\ pc'[c] = "done" => MappedBelow(mappings', cfg, Len(cfg.series) + 1)
             /\ pc'[c] \in {"dataset", "done"}
  <2>1. cfg.series[at[c]] = s
    BY DEF Dim!Mine
  <2>2. \A j \in DOMAIN cfg.series : j < at[c] + 1 => j < at[c] \/ j = at[c]
    BY <1>2, <1>3
  <2>3. MappedBelow(mappings', cfg, at[c] + 1)
    BY <1>4, <1>5, <2>1, <2>2 DEF MappedBelow
  <2>4. at[c] + 1 \in Nat
    BY <1>2
  <2>5. config' = config
    BY <1>1, DimFrame
  <2> QED BY <1>1, <1>5, <2>3, <2>4, <2>5, SkipMaps, SkipLands
<1>6. CASE Dim!SourcesDone(c)
  <2>1. MappedBelow(mappings', cfg, 1)
    BY <1>3 DEF MappedBelow
  <2>2. Dim!SkipTo(c, 1) /\ config' = config
    BY <1>6 DEF Dim!SourcesDone
  <2>3. pc'[c] \in {"dataset", "done"}
    BY <1>1, <2>2, SkipLands
  <2> QED BY <1>1, <2>1, <2>2, <2>3, SkipMaps DEF AtSeries, AtMapping
<1>7. CASE Dim!UpsertSeries(c)
  <2>1. pc[c] \in AtSeries
    BY <1>7 DEF Dim!UpsertSeries, AtSeries
  <2>2. CASE Dim!ActiveRef(s) = Missing
    <3>1. Dim!SkipTo(c, at[c] + 1)
      BY <1>7, <2>2 DEF Dim!UpsertSeries
    <3> QED BY <1>5, <2>1, <2>2, <3>1 DEF AtSeries, AtMapping
  <2>3. CASE Dim!ActiveRef(s) # Missing
    <3>1. pc'[c] = "mapping" /\ at' = at
      BY <1>2, <1>7, <2>3 DEF Dim!UpsertSeries, Dim!Goto
    <3> QED BY <1>4, <2>1, <3>1
  <2> QED BY <2>2, <2>3
<1>8. CASE Dim!ReadMapping(c)
  <2>1. pc[c] = "mapping" /\ mappings' = mappings /\ pc[c] \in AtSeries
    BY <1>8 DEF Dim!ReadMapping, AtSeries, AtMapping
  <2>2. CASE Dim!Open(s.slug) # {} /\ \E i \in Dim!Open(s.slug) : mappings[s.slug][i].ref = Dim!ActiveRef(s).ref
    <3>1. Dim!SkipTo(c, at[c] + 1)
      BY <1>8, <2>2 DEF Dim!ReadMapping
    <3>2. s.slug \in Slugs
      BY <1>1, <2>1, ActiveIs DEF AtMapping
    <3>3. MappedIn(mappings', s)
      BY <1>1, <2>1, <2>2, <3>2, OpenIs DEF MappedIn
    <3> QED BY <1>5, <2>1, <3>1, <3>3 DEF AtSeries, AtMapping
  <2>3. CASE ~(Dim!Open(s.slug) # {} /\ \E i \in Dim!Open(s.slug) : mappings[s.slug][i].ref = Dim!ActiveRef(s).ref)
    <3>1. pc'[c] \in {"first", "close"} /\ at' = at
      BY <1>2, <1>8, <2>3 DEF Dim!ReadMapping, Dim!Goto
    <3> QED BY <1>4, <2>1, <3>1
  <2> QED BY <2>2, <2>3
<1>9. CASE Dim!InsertFirst(c) \/ Dim!CommitMapping(c)
  <2>1. pc[c] \in {"first", "commitMapping"} /\ Dim!SkipTo(c, at[c] + 1)
    BY <1>9 DEF Dim!InsertFirst, Dim!CommitMapping
  <2>2. pc[c] \in AtSeries /\ pc[c] \in AtMapping
    BY <2>1 DEF AtSeries, AtMapping
  <2>3. s.slug \in Slugs /\ Dim!ActiveRef(s) \in Refs
    BY <1>1, <2>2, ActiveIs
  <2>4. mappings[s.slug] \in Seq(MappingRows) /\ mappings \in [Slugs -> Seq(MappingRows)]
    BY <1>1, <2>3 DEF Chains
  <2>5. mappings'[s.slug] = Extended(mappings[s.slug], Dim!ActiveRef(s))
    <3>1. CASE Dim!InsertFirst(c)
      <4>1. /\ Dim!Open(s.slug) = {}
            /\ mappings' = [mappings EXCEPT ![s.slug] = Append(@, Dim!Mapping(Dim!ActiveRef(s)))]
        BY <3>1 DEF Dim!InsertFirst
      <4>2. mappings[s.slug] = <<>>
        BY <1>1, <2>3, <4>1, OpenIs
      <4> QED BY <2>3, <2>4, <4>1, <4>2, FirstIsExtended
    <3>2. CASE Dim!CommitMapping(c)
      <4>1. pc[c] = "commitMapping" /\ mappings' = Dim!Replaced(c)
        BY <3>2 DEF Dim!CommitMapping
      <4>2. row[c] = Len(mappings[s.slug])
        BY <1>1, <4>1 DEF ClosesTheNewest, Dim!InTransaction
      <4>3. Extends(c)
        BY <1>1, <2>3, <4>1, <4>2, ReplacedIsExtended
      <4> QED BY <2>3, <2>4, <4>3 DEF Extends
    <3> QED BY <1>9, <3>1, <3>2
  <2>6. MappedIn(mappings', s)
    BY <2>3, <2>4, <2>5, ExtendedMaps DEF MappedIn
  <2> QED BY <1>5, <2>1, <2>2, <2>6 DEF AtSeries, AtMapping
<1>10. CASE Dim!UpsertSource(c) \/ Dim!DatasetRefused(c) \/ Dim!FirstRefused(c) \/ Dim!InsertRefused(c) \/ Dim!DimStop(c)
  <2>1. pc'[c] \in {"sources", "failed", "stopped"}
    BY <1>2, <1>10 DEF Dim!UpsertSource, Dim!DatasetRefused, Dim!FirstRefused, Dim!InsertRefused,
       Dim!DimStop, Dim!Goto
  <2> QED BY <2>1 DEF AtSeries, AtMapping
<1>11. CASE Dim!UpsertDataset(c) \/ Dim!Close(c) \/ Dim!CloseWaited(c) \/ Dim!Insert(c)
  <2>1. pc'[c] \in {"series", "waiting", "open", "commitMapping"} /\ at' = at
    BY <1>2, <1>11 DEF Dim!UpsertDataset, Dim!Close, Dim!CloseWaited, Dim!Insert, Dim!Goto
  <2>2. pc[c] \in AtSeries
    BY <1>11 DEF Dim!UpsertDataset, Dim!Close, Dim!CloseWaited, Dim!Insert, AtSeries, AtMapping
  <2> QED BY <1>4, <2>1, <2>2
<1> QED BY <1>6, <1>7, <1>8, <1>9, <1>10, <1>11 DEF Dim!DimStep

\* It keeps what lone calls have mapped.
LEMMA MappedStep ==
  ASSUME MappingInv, NEW c \in Calls, Dim!DimStep(c), overlapped' = overlapped
  PROVE  MappedSoFar'
<1>1. CallTypes /\ MappedSoFar
  BY DEF MappingInv
<1>2. config' = config /\ pc[c] \in Dim!DimStages
  BY <1>1, DimFrame
<1> SUFFICES ASSUME NEW d \in Calls, pc'[d] \in AtSeries, overlapped[d] \subseteq {config[d]},
                    SlugsAreUnique(config[d])
             PROVE  MappedBelow(mappings', config[d], at'[d])
  BY <1>2 DEF MappedSoFar
<1>3. CASE d = c
  BY <1>3, OwnMapped
<1>4. CASE d # c
  <2>1. pc'[d] = pc[d] /\ at'[d] = at[d]
    BY <1>1, <1>4, OthersStay
  <2>2. pc[d] \in Dim!DimStages
    BY <2>1 DEF AtSeries, AtMapping, Dim!DimStages, Dim!InTransaction
  <2>3. config[d] = config[c]
    BY <1>2, <1>4, <2>2, BothAreKnown
  <2>4. MappedBelow(mappings, config[d], at[d])
    BY <1>1, <2>1 DEF MappedSoFar
  <2> SUFFICES ASSUME NEW j \in DOMAIN config[d].series, j < at[d],
                      IsNamed(config[d].series[j]), Dim!ActiveRef(config[d].series[j]) # Missing
               PROVE  MappedIn(mappings', config[d].series[j])
    BY <2>1 DEF MappedBelow
  <2>5. MappedIn(mappings, config[d].series[j])
    BY <2>4 DEF MappedBelow
  <2> QED BY <2>3, <2>5, MappedStays
<1> QED BY <1>3, <1>4

-----------------------------------------------------------------------------
(* The other steps, and the initial states *)

\* A database that calls of one valid configuration have left fits.
LEMMA BaseFits ==
  ASSUME NEW cfg \in Bases, Base(cfg)
  PROVE  /\ Chains
         /\ \A g \in Slugs : NoRepeats(mappings[g])
         /\ \A d \in DOMAIN datasets : datasets[d] \in sources
         /\ \A g \in DOMAIN series : series[g] \in DOMAIN datasets
         /\ \A g \in Slugs : mappings[g] # <<>> => g \in DOMAIN series
<1> DEFINE first(g) == Dim!ActiveRef(CHOOSE s \in Mapped(cfg) : s.slug = g)
<1>1. mappings = [g \in Slugs |-> IF g \in {s.slug : s \in Mapped(cfg)}
                                   THEN <<Dim!Mapping(first(g))>> ELSE <<>>]
  BY DEF Base
<1>2. ASSUME NEW g \in {s.slug : s \in Mapped(cfg)}
      PROVE  first(g) \in Refs
  <2> DEFINE s == CHOOSE s \in Mapped(cfg) : s.slug = g
  <2>1. s \in Mapped(cfg)
    OBVIOUS
  <2> HIDE DEF s
  <2>2. s \in ToSet(cfg.series) /\ Dim!ActiveRef(s) # Missing
    BY <2>1 DEF Mapped, Named
  <2>3. Dim!ActiveRef(s) \in Refs
    BY <2>2, ActiveRefIs
  <2> QED BY <2>3 DEF s
<1>3. ASSUME NEW g \in Slugs
      PROVE  mappings[g] \in Seq(MappingRows) /\ Chain(mappings[g]) /\ NoRepeats(mappings[g])
  <2>1. CASE g \in {s.slug : s \in Mapped(cfg)}
    <3> DEFINE m == Dim!Mapping(first(g))
    <3>1. m \in MappingRows /\ m.to = Missing
      BY <1>2, <2>1, MappingIs
    <3> HIDE DEF m
    <3>2. <<m>> \in Seq(MappingRows) /\ Len(<<m>>) = 1 /\ <<m>>[1] = m /\ DOMAIN <<m>> = 1..1
      BY <3>1
    <3>3. Chain(<<m>>) /\ NoRepeats(<<m>>)
      BY <3>1, <3>2 DEF Chain, NoRepeats
    <3>4. mappings[g] = <<m>>
      BY <1>1, <2>1 DEF m
    <3> QED BY <3>2, <3>3, <3>4
  <2>2. CASE g \notin {s.slug : s \in Mapped(cfg)}
    <3>1. mappings[g] = <<>>
      BY <1>1, <2>2
    <3>2. <<>> \in Seq(MappingRows) /\ Len(<<>>) = 0 /\ DOMAIN <<>> = {}
      BY EmptySeq
    <3>3. Chain(<<>>) /\ NoRepeats(<<>>)
      BY <3>2 DEF Chain, NoRepeats
    <3> QED BY <3>1, <3>2, <3>3
  <2> QED BY <2>1, <2>2
<1>4. Chains
  <2>1. mappings = [g \in Slugs |-> mappings[g]]
    BY <1>1
  <2> QED BY <1>3, <2>1 DEF Chains
<1>5. \A d \in DOMAIN datasets : datasets[d] \in sources
  <2> SUFFICES ASSUME NEW d \in {s.dataset : s \in Named(cfg)}
               PROVE  (CHOOSE s \in Named(cfg) : s.dataset = d).source \in cfg.sources
    BY DEF Base
  <2>1. \A s \in Named(cfg) : s.source \in cfg.sources
    BY ConfigsAssumption DEF Valid, ValidSeries, Named
  <2> QED BY <2>1
<1>6. \A g \in DOMAIN series : series[g] \in DOMAIN datasets
  <2> SUFFICES ASSUME NEW g \in {s.slug : s \in Named(cfg)}
               PROVE  (CHOOSE s \in Named(cfg) : s.slug = g).dataset \in {s.dataset : s \in Named(cfg)}
    BY DEF Base
  <2> QED OBVIOUS
<1>7. ASSUME NEW g \in Slugs, mappings[g] # <<>>
      PROVE  g \in DOMAIN series
  <2>1. g \in {s.slug : s \in Mapped(cfg)}
    BY <1>1, <1>7
  <2> QED BY <2>1 DEF Base, Mapped
<1> QED BY <1>3, <1>4, <1>5, <1>6, <1>7

\* The mapping invariant holds initially.
LEMMA InitMapping == Init => MappingInv
<1> SUFFICES ASSUME Init PROVE MappingInv
  OBVIOUS
<1> USE DEF Init, Ed!EdInit, Dim!DimInit
<1>1. PICK cfg \in Bases : Base(cfg)
  OBVIOUS
<1>2. /\ Chains
      /\ \A g \in Slugs : NoRepeats(mappings[g])
      /\ \A d \in DOMAIN datasets : datasets[d] \in sources
      /\ \A g \in DOMAIN series : series[g] \in DOMAIN datasets
      /\ \A g \in Slugs : mappings[g] # <<>> => g \in DOMAIN series
  BY <1>1, BaseFits
<1>3. CallTypes
  <2>1. \A c \in Calls : Len(config[c].series) \in Nat
    BY ConfigsAssumption, LenProperties DEF IsConfig
  <2> QED BY <2>1 DEF CallTypes, Dim!DimStages, Dim!InTransaction, Ed!EdStages
<1>4. Prerequisites
  BY <1>2 DEF Prerequisites, AtSeries, AtMapping
<1>5. ClosesTheNewest /\ OneWriter /\ OverlapsAreKnown
  BY DEF ClosesTheNewest, OneWriter, OverlapsAreKnown, UnderWay, Replacing, Dim!InTransaction
<1>6. LoneReplaces /\ MappedSoFar
  BY <1>2 DEF LoneReplaces, MappedSoFar, Replacing, AtSeries, AtMapping
<1> QED BY <1>2, <1>3, <1>4, <1>5, <1>6 DEF MappingInv

\* A step of the editorial reconciliation is a step of an editorial call.
LEMMA EdFrame ==
  ASSUME CallTypes, NEW c \in Calls, Ed!EdStep(c)
  PROVE  /\ config' = config /\ Moves(pc, c)
         /\ pc[c] \in Ed!EdStages /\ pc'[c] \in Ed!EdStages \cup Ended
<1>1. pc \in [Calls -> {"idle"} \cup Ended \cup Ed!EdStages \cup Dim!DimStages]
  BY DEF CallTypes
<1> QED BY <1>1 DEF Moves, Ended, Ed!EdStages, Ed!Goto, Ed!local, Ed!EdStep, Ed!ReadTable,
     Ed!WriteEntry, Ed!EntryRefused, Ed!AllWritten, Ed!Retire, Ed!TableDone, Ed!Commit, Ed!EdStop

\* The steps of the editorial reconciliation keep it.
LEMMA EditorialKeeps ==
  ASSUME MappingInv, NEW c \in Calls, Editorial(c)
  PROVE  MappingInv'
<1>1. CallTypes /\ Prerequisites /\ Chains /\ ClosesTheNewest /\ OneWriter
      /\ OverlapsAreKnown /\ LoneReplaces /\ MappedSoFar
  BY DEF MappingInv
<1>2. /\ Ed!EdStep(c) /\ kind' = kind /\ overlapped' = overlapped
      /\ left' = left /\ at' = at /\ row' = row
      /\ sources' = sources /\ datasets' = datasets /\ series' = series /\ mappings' = mappings
  BY DEF Editorial, dimensions
<1>3. /\ config' = config /\ Moves(pc, c)
      /\ pc[c] \in Ed!EdStages /\ pc'[c] \in Ed!EdStages \cup Ended
  BY <1>1, <1>2, EdFrame
<1>4. \A d \in Calls : d # c => pc'[d] = pc[d]
  BY <1>1, <1>3 DEF CallTypes, Moves
<1>5. \A d \in Calls : Dim!Mine(d)' = Dim!Mine(d)
  BY <1>2, <1>3 DEF Dim!Mine
<1>6. /\ pc[c] \in {"read", "write", "retire", "commit"}
      /\ pc'[c] \in {"read", "write", "retire", "commit", "done", "failed", "stopped"}
  BY <1>3 DEF Ed!EdStages, Ended
<1>7. CallTypes'
  <2>1. pc' \in [Calls -> {"idle"} \cup Ended \cup Ed!EdStages \cup Dim!DimStages]
    BY <1>1, <1>3 DEF CallTypes, Moves
  <2>2. \A d \in Calls : /\ pc'[d] \in Dim!DimStages => kind[d] = "dimensions"
                         /\ pc'[d] \in Ed!EdStages => kind[d] = "editorial"
    BY <1>1, <1>3, <1>4, <1>6 DEF CallTypes, Dim!DimStages, Dim!InTransaction
  <2> QED BY <1>1, <1>2, <1>3, <2>1, <2>2 DEF CallTypes
<1>8. Prerequisites'
  BY <1>1, <1>2, <1>3, <1>4, <1>5, <1>6 DEF Prerequisites, AtSeries, AtMapping
<1>9. Chains'
  BY <1>1, <1>2 DEF Chains
<1>10. ClosesTheNewest' /\ OneWriter'
  BY <1>1, <1>2, <1>3, <1>4, <1>5, <1>6 DEF ClosesTheNewest, OneWriter, Replacing, Dim!InTransaction
<1>11. OverlapsAreKnown'
  <2>1. \A d \in Calls : UnderWay(d)' => UnderWay(d)
    BY <1>4, <1>6 DEF UnderWay, Ended
  <2> QED BY <1>1, <1>2, <1>3, <1>4, <1>6, <2>1 DEF OverlapsAreKnown
<1>12. LoneReplaces'
  BY <1>1, <1>2, <1>4, <1>5, <1>6 DEF LoneReplaces, NewestRef, Replacing
<1>13. MappedSoFar'
  BY <1>1, <1>2, <1>3, <1>4, <1>6 DEF MappedSoFar, AtSeries, AtMapping
<1> QED BY <1>7, <1>8, <1>9, <1>10, <1>11, <1>12, <1>13 DEF MappingInv

\* A call begins where it has nothing yet to its name.
LEMMA BeginKeeps ==
  ASSUME MappingInv, NEW c \in Calls, Begin(c)
  PROVE  MappingInv'
<1>1. CallTypes /\ Prerequisites /\ Chains /\ ClosesTheNewest /\ OneWriter
      /\ OverlapsAreKnown /\ LoneReplaces /\ MappedSoFar
  BY DEF MappingInv
<1> DEFINE beside == {d \in Calls : UnderWay(d) /\ kind[d] = kind[c]}
<1>2. /\ pc[c] = "idle"
      /\ pc' = [pc EXCEPT ![c] = IF kind[c] = "editorial" THEN "read" ELSE "sources"]
      /\ kind' = kind /\ config' = config
      /\ left' = left /\ at' = at /\ row' = row
      /\ sources' = sources /\ datasets' = datasets /\ series' = series /\ mappings' = mappings
  BY DEF Begin, dimensions
<1>3. overlapped' = [d \in Calls |->
        IF d = c THEN {config[e] : e \in beside}
        ELSE overlapped[d] \cup (IF d \in beside THEN {config[c]} ELSE {})]
  BY DEF Begin
<1>4. pc'[c] \in {"read", "sources"} /\ (pc'[c] = "read" => kind[c] = "editorial")
      /\ (pc'[c] = "sources" => kind[c] = "dimensions")
  BY <1>1, <1>2 DEF CallTypes, Kinds
<1>5. \A d \in Calls : d # c => pc'[d] = pc[d]
  BY <1>1, <1>2 DEF CallTypes
<1>6. \A d \in Calls : Dim!Mine(d)' = Dim!Mine(d)
  BY <1>2 DEF Dim!Mine
<1>7. \A d \in Calls : overlapped[d] \subseteq overlapped'[d]
  BY <1>1, <1>2, <1>3 DEF OverlapsAreKnown
<1>8. CallTypes'
  <2>1. pc' \in [Calls -> {"idle"} \cup Ended \cup Ed!EdStages \cup Dim!DimStages]
    BY <1>1, <1>2 DEF CallTypes, Ed!EdStages, Dim!DimStages
  <2>2. \A d \in Calls : /\ pc'[d] \in Dim!DimStages => kind[d] = "dimensions"
                         /\ pc'[d] \in Ed!EdStages => kind[d] = "editorial"
    BY <1>1, <1>4, <1>5 DEF CallTypes, Dim!DimStages, Dim!InTransaction, Ed!EdStages
  <2>3. overlapped' = [d \in Calls |-> overlapped'[d]]
    BY <1>3
  <2> QED BY <1>1, <1>2, <2>1, <2>2, <2>3 DEF CallTypes
<1>9. Prerequisites'
  BY <1>1, <1>2, <1>4, <1>5, <1>6 DEF Prerequisites, AtSeries, AtMapping
<1>10. Chains'
  BY <1>1, <1>2 DEF Chains
<1>11. ClosesTheNewest' /\ OneWriter'
  BY <1>1, <1>2, <1>4, <1>5, <1>6 DEF ClosesTheNewest, OneWriter, Replacing, Dim!InTransaction
<1>12. OverlapsAreKnown'
  <2>1. \A d \in Calls : d # c => (UnderWay(d)' <=> UnderWay(d))
    BY <1>5 DEF UnderWay
  <2>2. ASSUME NEW d \in Calls, d # c, UnderWay(d)', kind[d] = kind[c]
        PROVE  config[d] \in overlapped'[c] /\ config[c] \in overlapped'[d]
    <3>1. d \in beside
      BY <2>1, <2>2
    <3> QED BY <1>3, <2>2, <3>1
  <2>3. ASSUME NEW d \in Calls, NEW e \in Calls, d # c, e # c, d # e,
               UnderWay(d)', UnderWay(e)', kind[d] = kind[e]
        PROVE  config[e] \in overlapped'[d]
    BY <1>1, <1>7, <2>1, <2>3 DEF OverlapsAreKnown
  <2>4. ASSUME NEW d \in Calls, pc'[d] = "idle"
        PROVE  overlapped'[d] = {}
    <3>1. d # c /\ pc[d] = "idle"
      BY <1>4, <1>5, <2>4
    <3>2. d \notin beside /\ overlapped[d] = {}
      BY <1>1, <3>1 DEF UnderWay, OverlapsAreKnown
    <3> QED BY <1>3, <3>1, <3>2
  <2> QED BY <1>2, <2>2, <2>3, <2>4 DEF OverlapsAreKnown
<1>13. LoneReplaces'
  BY <1>1, <1>2, <1>4, <1>5, <1>6, <1>7 DEF LoneReplaces, NewestRef, Replacing
<1>14. MappedSoFar'
  BY <1>1, <1>2, <1>4, <1>5, <1>7 DEF MappedSoFar, AtSeries, AtMapping
<1> QED BY <1>8, <1>9, <1>10, <1>11, <1>12, <1>13, <1>14 DEF MappingInv

\* The steps of the dimensions keep it.
LEMMA DimensionsKeeps ==
  ASSUME MappingInv, NEW c \in Calls, Dimensions(c)
  PROVE  MappingInv'
<1>1. Dim!DimStep(c) /\ kind' = kind /\ overlapped' = overlapped
  BY DEF Dimensions
<1>2. CallTypes' /\ Prerequisites' /\ Chains' /\ ClosesTheNewest' /\ OneWriter'
      /\ LoneReplaces' /\ MappedSoFar'
  BY <1>1, CallTypesStep, PrerequisitesStep, ChainsStep, ClosesStep, OneWriterStep, LoneStep, MappedStep
<1>3. OverlapsAreKnown'
  <2>1. CallTypes /\ OverlapsAreKnown
    BY DEF MappingInv
  <2>2. /\ config' = config /\ pc[c] \in Dim!DimStages /\ pc'[c] \in Dim!DimStages \cup Ended
        /\ \A d \in Calls : d # c => pc'[d] = pc[d]
    BY <1>1, <2>1, DimFrame, OthersStay
  <2>3. \A d \in Calls : /\ UnderWay(d)' => UnderWay(d)
                         /\ pc'[d] = "idle" => pc[d] = "idle"
    BY <2>2 DEF UnderWay, Ended, Dim!DimStages, Dim!InTransaction
  <2> QED BY <1>1, <2>1, <2>2, <2>3 DEF OverlapsAreKnown
<1> QED BY <1>2, <1>3 DEF MappingInv

\* So does a step that changes nothing.
LEMMA StutterMapping == MappingInv /\ UNCHANGED vars => MappingInv'
<1> SUFFICES ASSUME MappingInv, UNCHANGED vars PROVE MappingInv'
  OBVIOUS
<1>1. /\ pc' = pc /\ config' = config /\ kind' = kind /\ overlapped' = overlapped
      /\ left' = left /\ at' = at /\ row' = row
      /\ sources' = sources /\ datasets' = datasets /\ series' = series /\ mappings' = mappings
  BY DEF vars, call, dimensions
<1>2. \A d : Dim!Mine(d)' = Dim!Mine(d)
  BY <1>1 DEF Dim!Mine
<1>3. CallTypes' /\ Prerequisites' /\ Chains' /\ ClosesTheNewest' /\ OneWriter'
  BY <1>1, <1>2 DEF MappingInv, CallTypes, Prerequisites, Chains, ClosesTheNewest, OneWriter
<1>4. OverlapsAreKnown' /\ LoneReplaces' /\ MappedSoFar'
  BY <1>1, <1>2 DEF MappingInv, OverlapsAreKnown, LoneReplaces, NewestRef, MappedSoFar, UnderWay
<1> QED BY <1>3, <1>4 DEF MappingInv

-----------------------------------------------------------------------------
(* The theorems *)

\* The mapping invariant holds at every state.
THEOREM MappingInvariant == Spec => []MappingInv
<1>1. Init => MappingInv
  BY InitMapping
<1>2. MappingInv /\ [Next]_vars => MappingInv'
  BY BeginKeeps, EditorialKeeps, DimensionsKeeps, StutterMapping DEF Next
<1> QED BY <1>1, <1>2, PTL DEF Spec

\* The mappings of a series form a chain, whichever transactions close and open
\* them at once.
THEOREM MappingsChainHolds == Spec => []MappingsChain
<1>1. MappingInv => MappingsChain
  BY DEF MappingInv, Chains, Chain, MappingsChain
<1> QED BY <1>1, MappingInvariant, PTL

\* The same identifier opened twice in a row takes two overlapping calls.
THEOREM RepeatsTakeAnOverlapHolds == Spec => []RepeatsTakeAnOverlap
<1>1. MappingInv => RepeatsTakeAnOverlap
  BY DEF MappingInv, LoneReplaces, NoRepeats, RepeatsTakeAnOverlap
<1> QED BY <1>1, MappingInvariant, PTL

\* ReconcileDimensions that ends well has every series of its configuration
\* mapped to the identifier in force.
THEOREM MapsItsConfigHolds == Spec => MapsItsConfig
<1> DEFINE IsItsMapping(s) ==
      Dim!ActiveRef(s) # Missing /\ s.source # Missing /\ s.dataset # Missing =>
        /\ mappings'[s.slug] # <<>>
        /\ LET m == Last(mappings'[s.slug])
           IN  m.ref = Dim!ActiveRef(s).ref /\ m.to = Missing
<1>1. ASSUME MappingInv, [Next]_vars, NEW c \in Calls,
             kind[c] = "dimensions", pc[c] # "done", pc'[c] = "done",
             overlapped[c] \subseteq {config[c]}, SlugsAreUnique(config[c]),
             NEW s \in ToSet(config[c].series)
      PROVE  IsItsMapping(s)
  <2>1. CallTypes /\ config[c] \in Configs
    BY <1>1 DEF MappingInv, CallTypes
  <2>2. PICK d \in Calls : Begin(d) \/ Editorial(d) \/ Dimensions(d)
    BY <1>1 DEF Next, vars, call
  <2>3. d = c /\ Dimensions(c)
    <3>1. CASE Begin(d)
      BY <1>1, <2>1, <3>1 DEF Begin, CallTypes
    <3>2. CASE Editorial(d)
      <4>1. Moves(pc, d) /\ pc[d] \in Ed!EdStages
        BY <2>1, <3>2, EdFrame DEF Editorial
      <4>2. d = c
        BY <1>1, <2>1, <4>1 DEF CallTypes, Moves
      <4> QED BY <1>1, <2>1, <4>1, <4>2 DEF CallTypes
    <3>3. CASE Dimensions(d)
      <4>1. Moves(pc, d)
        BY <2>1, <3>3, DimFrame DEF Dimensions
      <4> QED BY <1>1, <2>1, <3>3, <4>1 DEF CallTypes, Moves
    <3> QED BY <2>2, <3>1, <3>2, <3>3
  <2>4. MappedBelow(mappings', config[c], Len(config[c].series) + 1)
    BY <1>1, <2>3, OwnMapped DEF Dimensions
  <2>5. PICK j \in DOMAIN config[c].series : s = config[c].series[j]
    BY DEF ToSet
  <2>6. DOMAIN config[c].series = 1..Len(config[c].series) /\ Len(config[c].series) \in Nat
    BY <2>1, ConfigsAssumption, LenProperties DEF IsConfig
  <2>7. ASSUME Dim!ActiveRef(s) # Missing, IsNamed(s)
        PROVE  MappedIn(mappings', s)
    <3>1. j < Len(config[c].series) + 1
      BY <2>6
    <3> QED BY <2>4, <2>5, <2>7, <3>1 DEF MappedBelow
  <2>8. s.slug \in Slugs
    BY <2>1 DEF Slugs
  <2>9. Chains'
    BY <1>1, <2>3, ChainsStep DEF Dimensions
  <2>10. mappings'[s.slug] # <<>> =>
           /\ Len(mappings'[s.slug]) \in DOMAIN mappings'[s.slug]
           /\ mappings'[s.slug][Len(mappings'[s.slug])].to = Missing
    <3> DEFINE q == mappings'[s.slug]
    <3>1. q \in Seq(MappingRows) /\ Chain(q)
      BY <2>8, <2>9 DEF Chains
    <3> HIDE DEF q
    <3>2. q # <<>> => Len(q) \in DOMAIN q
      BY <3>1, LenProperties, EmptySeq
    <3> QED BY <3>1, <3>2 DEF Chain, q
  <2> QED BY <2>7, <2>10 DEF IsNamed, MappedIn, Last
<1>2. MappingInv /\ [Next]_vars =>
        [\A c \in Calls :
           /\ kind[c] = "dimensions" /\ pc[c] # "done" /\ pc'[c] = "done"
           /\ overlapped[c] \subseteq {config[c]} /\ SlugsAreUnique(config[c])
           => \A s \in ToSet(config[c].series) : IsItsMapping(s)]_vars
  <2> HIDE DEF IsItsMapping
  <2> QED BY <1>1
<1> QED BY <1>2, MappingInvariant, PTL DEF Spec, MapsItsConfig

-----------------------------------------------------------------------------
(* The inductive invariant of the editorial tables *)

\* The keys and the digests of the dated entries of all configurations.
EdKeys == UNION {{p[1] : p \in Ed!Projection(cfg)} : cfg \in Configs \cup Bases}
EdDigests == UNION {{p[2] : p \in Ed!Projection(cfg)} : cfg \in Configs \cup Bases}
EdRows == [digest : EdDigests, live : BOOLEAN]

KeyAt(cfg, t, i) == Ed!Key(t, cfg[t][i])
Declares(cfg, key) ==
  \E i \in Ed!Desired(cfg, Ed!TableOf(key)) : KeyAt(cfg, Ed!TableOf(key), i) = key

\* The row r of a key says what the configuration says: it is live, with the
\* digest of the first entry of that key, or there is none and it is retired.
Fits(cfg, key, r) ==
  /\ \A i \in Ed!Desired(cfg, Ed!TableOf(key)) :
       KeyAt(cfg, Ed!TableOf(key), i) = key /\ ~Ed!Repeats(cfg, Ed!TableOf(key), i) =>
         r.live /\ r.digest = Ed!Digest(cfg[Ed!TableOf(key)][i])
  /\ ~Declares(cfg, key) => ~r.live

\* So do the rows m, which have a row of the key if it is declared.
FitsIn(cfg, key, m) == IF key \in DOMAIN m THEN Fits(cfg, key, m[key]) ELSE ~Declares(cfg, key)

\* Rows are rows of declared entries, and what a transaction has written fits
\* its configuration.
EdTypes ==
  /\ table \in [Calls -> Ed!Tables]
  /\ todo = [c \in Calls |-> todo[c]] /\ stale = [c \in Calls |-> stale[c]]
  /\ dirty = [c \in Calls |-> dirty[c]]
  /\ \A key \in DOMAIN rows : key \in EdKeys /\ rows[key] \in EdRows
  /\ \A c \in Calls :
       /\ \A key \in DOMAIN dirty[c] :
            key \in EdKeys /\ dirty[c][key] \in EdRows /\ Fits(config[c], key, dirty[c][key])
       /\ pc[c] \notin Ed!EdStages => DOMAIN dirty[c] = {}
       /\ pc[c] = "idle" => table[c] = "breaks"
       /\ pc[c] = "commit" => table[c] = "events"

\* What a call has still to do to a table: entries of it that are dated, those
\* that repeat a key among them, and rows that no entry names.
Batches ==
  \A c \in Calls :
    /\ pc[c] = "write" =>
         /\ DOMAIN todo[c] \subseteq Ed!Desired(config[c], table[c])
         /\ \A i \in Ed!Desired(config[c], table[c]) :
              Ed!Repeats(config[c], table[c], i) => i \in DOMAIN todo[c]
         /\ \A i \in DOMAIN todo[c] :
              /\ todo[c][i] = "duplicate" <=> Ed!Repeats(config[c], table[c], i)
              /\ todo[c][i] = "insert" /\ overlapped[c] = {} =>
                   KeyAt(config[c], table[c], i) \notin DOMAIN rows
    /\ pc[c] \in {"write", "retire"} =>
         \A key \in stale[c] : key \in DOMAIN rows /\ ~Declares(config[c], key)

\* The tables a call has read, and those whose entries it has written.
HasRead(c, t) ==
  \/ t = "breaks" /\ table[c] = "events"
  \/ t = table[c] /\ pc[c] \in {"write", "retire", "commit"}
HasWritten(c, t) ==
  \/ t = "breaks" /\ table[c] = "events"
  \/ t = table[c] /\ pc[c] \in {"retire", "commit"}

\* A call only gets past the entries of a table if none repeats a key.
WrittenOnce ==
  \A c \in Calls : pc[c] \in Ed!EdStages =>
    \A t \in Ed!Tables : HasWritten(c, t) =>
      \A i \in Ed!Desired(config[c], t) : ~Ed!Repeats(config[c], t, i)

Pending(c, key) ==
  \/ pc[c] = "write" /\ \E i \in DOMAIN todo[c] : KeyAt(config[c], table[c], i) = key
  \/ pc[c] \in {"write", "retire"} /\ key \in stale[c]

\* A call that only calls of its configuration overlap has done, or has still to
\* do, whatever a table needs that it has read: what the others do fits.
LoneFits ==
  \A c \in Calls :
    pc[c] \in Ed!EdStages /\ overlapped[c] \subseteq {config[c]} =>
      \A key \in EdKeys : HasRead(c, Ed!TableOf(key)) =>
        key \in DOMAIN dirty[c] \/ FitsIn(config[c], key, rows) \/ Pending(c, key)

\* All calls so far are of this configuration.
OnlyOf(cfg) == \A c \in Calls : pc[c] = "idle" \/ config[c] = cfg

OverlapsHaveBegun ==
  \A c \in Calls : \A f \in overlapped[c] : \E d \in Calls : pc[d] # "idle" /\ config[d] = f

\* Once one has ended well, the tables fit it and go on to.
ProjectionStays ==
  \A cfg \in Configs :
    OnlyOf(cfg) /\ (\E c \in Calls : kind[c] = "editorial" /\ pc[c] = "done") =>
      \A key \in EdKeys : FitsIn(cfg, key, rows)

\* In the rows q of series and d of datasets the series has its dataset and
\* source.
DatasetIn(d, s) == s.dataset \in DOMAIN d /\ d[s.dataset] = s.source
PlacedIn(q, d, s) == s.slug \in DOMAIN q /\ q[s.slug] = s.dataset /\ DatasetIn(d, s)

PlacedBelow(q, d, cfg, n) ==
  \A j \in DOMAIN cfg.series : j < n /\ IsNamed(cfg.series[j]) => PlacedIn(q, d, cfg.series[j])

\* No two series of the configuration contradict each other.
Consistent(cfg) == OneSourcePerDataset(cfg) /\ SlugsAreUnique(cfg)

\* Calls of one such configuration have placed the series they have passed.
PlacedSoFar ==
  \A cfg \in Configs :
    OnlyOf(cfg) /\ Consistent(cfg) =>
      \A c \in Calls :
        /\ pc[c] \in AtSeries => PlacedBelow(series, datasets, cfg, at[c])
        /\ pc[c] \in AtSeries \ {"dataset"} => DatasetIn(datasets, Dim!Mine(c))
        /\ pc[c] \in AtMapping => PlacedIn(series, datasets, Dim!Mine(c))
        /\ pc[c] = "done" /\ kind[c] = "dimensions" =>
             PlacedBelow(series, datasets, cfg, Len(cfg.series) + 1)

EditorialInv ==
  /\ EdTypes
  /\ Batches
  /\ WrittenOnce
  /\ LoneFits
  /\ OverlapsHaveBegun
  /\ ProjectionStays
  /\ PlacedSoFar

-----------------------------------------------------------------------------
(* Keys and rows *)

\* The key of an entry is one of its table, and its configuration declares it.
LEMMA KeyIs ==
  ASSUME NEW cfg \in Configs \cup Bases, NEW t \in Ed!Tables, NEW i \in Ed!Desired(cfg, t)
  PROVE  /\ Ed!TableOf(KeyAt(cfg, t, i)) = t
         /\ KeyAt(cfg, t, i) \in EdKeys
         /\ Ed!Digest(cfg[t][i]) \in EdDigests
         /\ Declares(cfg, KeyAt(cfg, t, i))
<1>1. Ed!TableOf(KeyAt(cfg, t, i)) = t
  BY DEF KeyAt, Ed!Key, Ed!TableOf, Ed!Tables
<1>2. <<KeyAt(cfg, t, i), Ed!Digest(cfg[t][i])>> \in Ed!Projection(cfg)
  BY DEF Ed!Projection, KeyAt
<1>3. KeyAt(cfg, t, i) \in EdKeys /\ Ed!Digest(cfg[t][i]) \in EdDigests
  BY <1>2 DEF EdKeys, EdDigests
<1> QED BY <1>1, <1>3 DEF Declares

\* A key is that of a dated entry of its table.
LEMMA KeyOf ==
  ASSUME NEW key \in EdKeys
  PROVE  /\ Ed!TableOf(key) \in Ed!Tables
         /\ \E cfg \in Configs \cup Bases : \E i \in Ed!Desired(cfg, Ed!TableOf(key)) :
              key = KeyAt(cfg, Ed!TableOf(key), i)
<1>1. PICK cfg \in Configs \cup Bases : \E p \in Ed!Projection(cfg) : key = p[1]
  BY DEF EdKeys
<1>2. PICK t \in Ed!Tables : \E i \in Ed!Desired(cfg, t) : key = KeyAt(cfg, t, i)
  BY <1>1 DEF Ed!Projection, KeyAt
<1> QED BY <1>2, KeyIs

-----------------------------------------------------------------------------
(* What a step of an editorial call changes *)

\* A step changes what is local to its call.
LEMMA EdLocals ==
  ASSUME EdTypes, NEW c \in Calls, Ed!EdStep(c)
  PROVE  Moves(table, c) /\ Moves(todo, c) /\ Moves(stale, c) /\ Moves(dirty, c)
<1>1. /\ table = [d \in Calls |-> table[d]] /\ todo = [d \in Calls |-> todo[d]]
      /\ stale = [d \in Calls |-> stale[d]] /\ dirty = [d \in Calls |-> dirty[d]]
  BY DEF EdTypes
<1> USE DEF Moves, Ed!local
<1>2. CASE Ed!ReadTable(c) \/ Ed!WriteEntry(c) \/ Ed!EntryRefused(c) \/ Ed!AllWritten(c)
  BY <1>1, <1>2 DEF Ed!ReadTable, Ed!WriteEntry, Ed!EntryRefused, Ed!AllWritten, Ed!Put, Ed!Rollback
<1>3. CASE Ed!Retire(c) \/ Ed!TableDone(c) \/ Ed!Commit(c) \/ Ed!EdStop(c)
  BY <1>1, <1>3 DEF Ed!Retire, Ed!TableDone, Ed!Commit, Ed!EdStop, Ed!Put, Ed!Rollback
<1> QED BY <1>2, <1>3 DEF Ed!EdStep

\* What is local to another call stays.
LEMMA EdOthersStay ==
  ASSUME CallTypes, EdTypes, NEW c \in Calls, Ed!EdStep(c), NEW d \in Calls, d # c
  PROVE  /\ pc'[d] = pc[d] /\ config'[d] = config[d]
         /\ table'[d] = table[d] /\ todo'[d] = todo[d] /\ stale'[d] = stale[d]
         /\ dirty'[d] = dirty[d]
<1>1. /\ config' = config /\ Moves(pc, c)
      /\ Moves(table, c) /\ Moves(todo, c) /\ Moves(stale, c) /\ Moves(dirty, c)
  BY EdFrame, EdLocals
<1> QED BY <1>1 DEF Moves, CallTypes, EdTypes

\* The tables change at a commit only, and then by what the call has written.
LEMMA RowsEffect ==
  ASSUME NEW c \in Calls, Ed!EdStep(c)
  PROVE  \/ rows' = rows
         \/ pc[c] = "commit" /\ rows' = Ed!Overlay(dirty[c], rows)
<1>1. CASE Ed!ReadTable(c) \/ Ed!WriteEntry(c) \/ Ed!EntryRefused(c) \/ Ed!AllWritten(c)
  BY <1>1 DEF Ed!ReadTable, Ed!WriteEntry, Ed!EntryRefused, Ed!AllWritten
<1>2. CASE Ed!Retire(c) \/ Ed!TableDone(c) \/ Ed!Commit(c)
  BY <1>2 DEF Ed!Retire, Ed!TableDone, Ed!Commit
<1>3. CASE Ed!EdStop(c)
  <2>1. rows' \in IF pc[c] = "commit" THEN {rows, Ed!Overlay(dirty[c], rows)} ELSE {rows}
    BY <1>3 DEF Ed!EdStop
  <2> QED BY <2>1
<1> QED BY <1>1, <1>2, <1>3 DEF Ed!EdStep

\* They keep their keys, their types, and what fits the configuration of the
\* call that commits.
LEMMA RowsGrow ==
  ASSUME EdTypes, NEW c \in Calls, Ed!EdStep(c)
  PROVE  /\ DOMAIN rows \subseteq DOMAIN rows'
         /\ \A key \in DOMAIN rows' : key \in EdKeys /\ rows'[key] \in EdRows
         /\ \A key : FitsIn(config[c], key, rows) => FitsIn(config[c], key, rows')
<1>1. CASE rows' = rows
  BY <1>1 DEF EdTypes
<1>2. CASE rows' = Ed!Overlay(dirty[c], rows)
  <2>1. /\ DOMAIN rows' = DOMAIN dirty[c] \cup DOMAIN rows
        /\ \A key \in DOMAIN dirty[c] : rows'[key] = dirty[c][key]
        /\ \A key \in DOMAIN rows \ DOMAIN dirty[c] : rows'[key] = rows[key]
    BY <1>2 DEF Ed!Overlay
  <2>2. \A key \in DOMAIN rows' : key \in EdKeys /\ rows'[key] \in EdRows
    BY <2>1 DEF EdTypes
  <2>3. ASSUME NEW key, FitsIn(config[c], key, rows)
        PROVE  FitsIn(config[c], key, rows')
    <3>1. CASE key \in DOMAIN dirty[c]
      BY <2>1, <3>1 DEF FitsIn, EdTypes
    <3>2. CASE key \notin DOMAIN dirty[c]
      BY <2>1, <2>3, <3>2 DEF FitsIn
    <3> QED BY <3>1, <3>2
  <2> QED BY <2>1, <2>2, <2>3
<1> QED BY <1>1, <1>2, RowsEffect

\* The positions of the entries are numbers.
LEMMA PositionsAre ==
  ASSUME NEW cfg \in Configs \cup Bases, NEW t \in Ed!Tables
  PROVE  /\ Len(cfg[t]) \in Nat
         /\ Ed!Desired(cfg, t) \subseteq 1..Len(cfg[t]) /\ Ed!Desired(cfg, t) \subseteq Nat
<1>1. cfg[t] \in Seq(ToSet(cfg[t]))
  BY ConfigsAssumption DEF IsConfig
<1>2. DOMAIN cfg[t] = 1..Len(cfg[t]) /\ Len(cfg[t]) \in Nat
  BY <1>1, LenProperties
<1> QED BY <1>2 DEF Ed!Desired

\* The entry that is due is a dated one of the table.
LEMMA DueIs ==
  ASSUME CallTypes, EdTypes, Batches, NEW c \in Calls, pc[c] = "write", DOMAIN todo[c] # {}
  PROVE  /\ Ed!Due(c) \in DOMAIN todo[c]
         /\ Ed!Due(c) \in Ed!Desired(config[c], table[c])
         /\ Ed!DueKey(c) = KeyAt(config[c], table[c], Ed!Due(c))
         /\ Ed!Entry(c) = config[c][table[c]][Ed!Due(c)]
<1>1. config[c] \in Configs /\ table[c] \in Ed!Tables
  BY DEF CallTypes, EdTypes
<1>2. DOMAIN todo[c] \subseteq Ed!Desired(config[c], table[c])
  BY DEF Batches
<1>3. DOMAIN todo[c] \subseteq 1..Len(config[c][table[c]]) /\ Len(config[c][table[c]]) \in Nat
  BY <1>1, <1>2, PositionsAre
<1>4. \E i \in DOMAIN todo[c] : \A j \in DOMAIN todo[c] : i <= j
  BY <1>3, LeastExists
<1>5. Ed!Due(c) \in DOMAIN todo[c]
  BY <1>4 DEF Ed!Due
<1> QED BY <1>2, <1>5 DEF Ed!DueKey, Ed!Entry, KeyAt

\* The row written for the first entry of a key fits.
LEMMA WrittenFits ==
  ASSUME NEW cfg \in Configs \cup Bases, NEW t \in Ed!Tables, NEW i \in Ed!Desired(cfg, t),
         ~Ed!Repeats(cfg, t, i)
  PROVE  Fits(cfg, KeyAt(cfg, t, i), [digest |-> Ed!Digest(cfg[t][i]), live |-> TRUE])
<1>1. Ed!TableOf(KeyAt(cfg, t, i)) = t /\ Declares(cfg, KeyAt(cfg, t, i))
  BY KeyIs
<1>2. ASSUME NEW j \in Ed!Desired(cfg, t), KeyAt(cfg, t, j) = KeyAt(cfg, t, i),
             ~Ed!Repeats(cfg, t, j)
      PROVE  j = i
  <2>1. i \in Nat /\ j \in Nat
    BY PositionsAre
  <2>2. ~(j < i) /\ ~(i < j)
    BY <1>2 DEF Ed!Repeats, KeyAt
  <2> QED BY <2>1, <2>2
<1> QED BY <1>1, <1>2 DEF Fits

\* A retired row fits where no entry names it.
LEMMA RetiredFits ==
  ASSUME NEW cfg, NEW key, ~Declares(cfg, key), NEW r \in EdRows
  PROVE  /\ [r EXCEPT !.live = FALSE] \in EdRows
         /\ Fits(cfg, key, [r EXCEPT !.live = FALSE])
<1>1. [r EXCEPT !.live = FALSE] \in EdRows /\ [r EXCEPT !.live = FALSE].live = FALSE
  BY DEF EdRows
<1> QED BY <1>1 DEF Fits, Declares

\* What a call adds to the rows it has written.
Puts(c, key, r) == dirty'[c] = Ed!Overlay([k \in {key} |-> r], dirty[c])

\* The rows a call has written after one more.
LEMMA PutsIs ==
  ASSUME NEW c \in Calls, NEW key, NEW r, Puts(c, key, r)
  PROVE  /\ DOMAIN dirty'[c] = {key} \cup DOMAIN dirty[c]
         /\ dirty'[c][key] = r
         /\ \A k \in DOMAIN dirty[c] : k # key => dirty'[c][k] = dirty[c][k]
BY DEF Puts, Ed!Overlay

\* The write of the entry that is due: the first of its key, as it is
\* declared.
LEMMA WritePuts ==
  ASSUME CallTypes, EdTypes, Batches, NEW c \in Calls, Ed!WriteEntry(c)
  PROVE  /\ pc[c] = "write" /\ Ed!Due(c) \in DOMAIN todo[c]
         /\ Ed!Due(c) \in Ed!Desired(config[c], table[c])
         /\ ~Ed!Repeats(config[c], table[c], Ed!Due(c))
         /\ Puts(c, KeyAt(config[c], table[c], Ed!Due(c)),
                 [digest |-> Ed!Digest(config[c][table[c]][Ed!Due(c)]), live |-> TRUE])
         /\ todo'[c] = [i \in DOMAIN todo[c] \ {Ed!Due(c)} |-> todo[c][i]]
         /\ pc' = pc /\ table' = table /\ stale' = stale
<1>1. pc[c] = "write" /\ DOMAIN todo[c] # {}
  BY DEF Ed!WriteEntry
<1>2. /\ Ed!Due(c) \in DOMAIN todo[c]
      /\ Ed!Due(c) \in Ed!Desired(config[c], table[c])
      /\ Ed!DueKey(c) = KeyAt(config[c], table[c], Ed!Due(c))
      /\ Ed!Entry(c) = config[c][table[c]][Ed!Due(c)]
  BY <1>1, DueIs
<1>3. todo[c][Ed!Due(c)] # "duplicate"
  BY DEF Ed!WriteEntry
<1>4. ~Ed!Repeats(config[c], table[c], Ed!Due(c))
  BY <1>1, <1>2, <1>3 DEF Batches
<1>5. /\ todo = [d \in Calls |-> todo[d]] /\ dirty = [d \in Calls |-> dirty[d]]
  BY DEF EdTypes
<1>6. Puts(c, Ed!DueKey(c), [digest |-> Ed!Digest(Ed!Entry(c)), live |-> TRUE])
  BY <1>5 DEF Ed!WriteEntry, Ed!Put, Puts
<1>7. /\ todo'[c] = [i \in DOMAIN todo[c] \ {Ed!Due(c)} |-> todo[c][i]]
      /\ pc' = pc /\ table' = table /\ stale' = stale
  BY <1>5 DEF Ed!WriteEntry
<1> QED BY <1>1, <1>2, <1>4, <1>6, <1>7

\* The retirement of a row that no entry names.
LEMMA RetirePuts ==
  ASSUME EdTypes, Batches, NEW c \in Calls, Ed!Retire(c)
  PROVE  \E key \in stale[c] :
           /\ key \in DOMAIN rows /\ ~Declares(config[c], key)
           /\ Puts(c, key, [rows[key] EXCEPT !.live = FALSE])
           /\ stale'[c] = stale[c] \ {key}
           /\ pc[c] = "retire" /\ pc' = pc /\ table' = table /\ todo' = todo
<1>1. /\ stale = [d \in Calls |-> stale[d]] /\ dirty = [d \in Calls |-> dirty[d]]
  BY DEF EdTypes
<1>2. PICK key \in stale[c] :
        /\ Ed!Put(c, key, [rows[key] EXCEPT !.live = FALSE])
        /\ stale' = [stale EXCEPT ![c] = @ \ {key}]
  BY DEF Ed!Retire
<1>3. pc[c] = "retire" /\ pc' = pc /\ table' = table /\ todo' = todo
  BY DEF Ed!Retire
<1>4. key \in DOMAIN rows /\ ~Declares(config[c], key)
  BY <1>2, <1>3 DEF Batches
<1>5. Puts(c, key, [rows[key] EXCEPT !.live = FALSE])
  BY <1>1, <1>2 DEF Ed!Put, Puts
<1>6. stale'[c] = stale[c] \ {key}
  BY <1>1, <1>2
<1> QED BY <1>2, <1>3, <1>4, <1>5, <1>6

-----------------------------------------------------------------------------
(* The steps of a call keep the editorial invariant *)

\* What a transaction has written is of declared keys and fits.
LEMMA EdTypesStep ==
  ASSUME CallTypes, EdTypes, Batches, NEW c \in Calls, Ed!EdStep(c)
  PROVE  EdTypes'
<1> USE DEF Ed!local, Ed!Goto
<1>1. /\ config' = config /\ Moves(pc, c)
      /\ pc[c] \in Ed!EdStages /\ pc'[c] \in Ed!EdStages \cup Ended
      /\ Moves(table, c) /\ Moves(todo, c) /\ Moves(stale, c) /\ Moves(dirty, c)
  BY EdFrame, EdLocals
<1>2. pc'[c] # "idle"
  BY <1>1 DEF Ed!EdStages, Ended
<1>3. config[c] \in Configs /\ table[c] \in Ed!Tables
  BY DEF CallTypes, EdTypes
<1> DEFINE HasWrittenWell(d) ==
             \A key \in DOMAIN dirty'[d] :
               key \in EdKeys /\ dirty'[d][key] \in EdRows /\ Fits(config[d], key, dirty'[d][key])
<1>4. /\ table'[c] \in Ed!Tables
      /\ pc'[c] = "commit" => table'[c] = "events"
      /\ HasWrittenWell(c)
      /\ pc'[c] \notin Ed!EdStages => DOMAIN dirty'[c] = {}
  <2>1. dirty'[c] = dirty[c] => HasWrittenWell(c)
    BY DEF EdTypes
  <2>2. CASE Ed!ReadTable(c) \/ Ed!AllWritten(c) \/ Ed!TableDone(c)
    <3>1. dirty' = dirty /\ pc'[c] \in Ed!EdStages
      BY <1>1, <2>2 DEF CallTypes, Ed!ReadTable, Ed!AllWritten, Ed!TableDone, Ed!EdStages
    <3>2. table'[c] \in Ed!Tables /\ (pc'[c] = "commit" => table'[c] = "events")
      BY <1>3, <2>2 DEF CallTypes, EdTypes, Ed!ReadTable, Ed!AllWritten, Ed!TableDone, Ed!Tables
    <3> QED BY <2>1, <3>1, <3>2
  <2>3. CASE Ed!WriteEntry(c)
    <3> DEFINE i == Ed!Due(c)
               key == KeyAt(config[c], table[c], i)
               r == [digest |-> Ed!Digest(config[c][table[c]][i]), live |-> TRUE]
    <3>1. /\ pc[c] = "write" /\ i \in Ed!Desired(config[c], table[c])
          /\ ~Ed!Repeats(config[c], table[c], i)
          /\ Puts(c, key, r) /\ pc' = pc /\ table' = table
      BY <2>3, WritePuts
    <3> HIDE DEF i
    <3>2. key \in EdKeys /\ Ed!Digest(config[c][table[c]][i]) \in EdDigests
      BY <1>3, <3>1, KeyIs
    <3>3. r \in EdRows
      BY <3>2 DEF EdRows
    <3>4. Fits(config[c], key, r)
      BY <1>3, <3>1, WrittenFits
    <3> HIDE DEF key, r
    <3>5. HasWrittenWell(c)
      BY <3>1, <3>2, <3>3, <3>4, PutsIs DEF EdTypes
    <3> QED BY <1>3, <3>1, <3>5 DEF Ed!EdStages
  <2>4. CASE Ed!Retire(c)
    <3>1. PICK key \in stale[c] :
            /\ key \in DOMAIN rows /\ ~Declares(config[c], key)
            /\ Puts(c, key, [rows[key] EXCEPT !.live = FALSE])
            /\ pc[c] = "retire" /\ pc' = pc /\ table' = table
      BY <2>4, RetirePuts
    <3> DEFINE r == [rows[key] EXCEPT !.live = FALSE]
    <3>2. key \in EdKeys /\ rows[key] \in EdRows
      BY <3>1 DEF EdTypes
    <3>3. r \in EdRows /\ Fits(config[c], key, r)
      BY <3>1, <3>2, RetiredFits
    <3> HIDE DEF r
    <3>4. Puts(c, key, r)
      BY <3>1 DEF r
    <3>5. HasWrittenWell(c)
      BY <3>2, <3>3, <3>4, PutsIs DEF EdTypes
    <3> QED BY <1>3, <3>1, <3>5 DEF Ed!EdStages
  <2>5. CASE Ed!EntryRefused(c) \/ Ed!Commit(c) \/ Ed!EdStop(c)
    <3>1. dirty'[c] = <<>> /\ table' = table
      BY <2>5 DEF EdTypes, Ed!EntryRefused, Ed!Commit, Ed!EdStop, Ed!Rollback
    <3>2. DOMAIN dirty'[c] = {}
      BY <3>1
    <3>3. pc'[c] # "commit"
      BY <2>5 DEF CallTypes, Ed!EntryRefused, Ed!Commit, Ed!EdStop
    <3> QED BY <1>3, <3>1, <3>2, <3>3
  <2> QED BY <2>2, <2>3, <2>4, <2>5 DEF Ed!EdStep
<1>5. ASSUME NEW d \in Calls
      PROVE  /\ HasWrittenWell(d)
             /\ pc'[d] \notin Ed!EdStages => DOMAIN dirty'[d] = {}
             /\ pc'[d] = "idle" => table'[d] = "breaks"
             /\ pc'[d] = "commit" => table'[d] = "events"
  <2>1. CASE d = c
    BY <1>2, <1>4, <2>1
  <2>2. CASE d # c
    <3>1. pc'[d] = pc[d] /\ table'[d] = table[d] /\ dirty'[d] = dirty[d]
      BY <2>2, EdOthersStay
    <3> QED BY <3>1 DEF EdTypes
  <2> QED BY <2>1, <2>2
<1>6. /\ table' \in [Calls -> Ed!Tables]
      /\ todo' = [d \in Calls |-> todo'[d]] /\ stale' = [d \in Calls |-> stale'[d]]
      /\ dirty' = [d \in Calls |-> dirty'[d]]
  BY <1>1, <1>4 DEF Moves, EdTypes
<1>7. \A key \in DOMAIN rows' : key \in EdKeys /\ rows'[key] \in EdRows
  BY RowsGrow
<1> QED BY <1>1, <1>5, <1>6, <1>7 DEF EdTypes

\* A lone editorial call sees no other one commit.
LEMMA LoneSeesNoCommit ==
  ASSUME CallTypes, OverlapsAreKnown, NEW c \in Calls, Ed!EdStep(c),
         NEW d \in Calls, d # c, pc[d] \in Ed!EdStages
  PROVE  /\ config[c] \in overlapped[d]
         /\ overlapped[d] \subseteq {config[d]} => config[c] = config[d]
<1>1. pc[c] \in Ed!EdStages
  BY EdFrame
<1>2. UnderWay(c) /\ UnderWay(d) /\ kind[c] = "editorial" /\ kind[d] = "editorial"
  BY <1>1 DEF CallTypes, UnderWay, Ended, Ed!EdStages
<1>3. config[c] \in overlapped[d]
  BY <1>2 DEF OverlapsAreKnown
<1> QED BY <1>3

\* What a call has still to do stays what its reading asked for.
LEMMA BatchesStep ==
  ASSUME CallTypes, OverlapsAreKnown, EdTypes, Batches, NEW c \in Calls, Ed!EdStep(c),
         overlapped' = overlapped
  PROVE  Batches'
<1> USE DEF Ed!local, Ed!Goto
<1>1. /\ config' = config /\ Moves(pc, c)
      /\ pc[c] \in Ed!EdStages /\ pc'[c] \in Ed!EdStages \cup Ended
  BY EdFrame
<1>2. DOMAIN rows \subseteq DOMAIN rows'
  BY RowsGrow
<1>3. /\ pc = [d \in Calls |-> pc[d]] /\ table = [d \in Calls |-> table[d]]
      /\ todo = [d \in Calls |-> todo[d]] /\ stale = [d \in Calls |-> stale[d]]
  BY DEF CallTypes, EdTypes
<1> DEFINE cfg(d) == config[d]
           Writing(d) ==
             /\ DOMAIN todo'[d] \subseteq Ed!Desired(cfg(d), table'[d])
             /\ \A i \in Ed!Desired(cfg(d), table'[d]) :
                  Ed!Repeats(cfg(d), table'[d], i) => i \in DOMAIN todo'[d]
             /\ \A i \in DOMAIN todo'[d] :
                  /\ todo'[d][i] = "duplicate" <=> Ed!Repeats(cfg(d), table'[d], i)
                  /\ todo'[d][i] = "insert" /\ overlapped[d] = {} =>
                       KeyAt(cfg(d), table'[d], i) \notin DOMAIN rows'
           Retiring(d) == \A key \in stale'[d] : key \in DOMAIN rows' /\ ~Declares(cfg(d), key)
<1>4. ASSUME NEW d \in Calls, d # c
      PROVE  /\ pc'[d] = "write" => Writing(d)
             /\ pc'[d] \in {"write", "retire"} => Retiring(d)
  <2>1. pc'[d] = pc[d] /\ table'[d] = table[d] /\ todo'[d] = todo[d] /\ stale'[d] = stale[d]
    BY <1>4, EdOthersStay
  <2>2. pc[d] = "write" /\ overlapped[d] = {} => FALSE
    BY <1>4, LoneSeesNoCommit DEF Ed!EdStages
  <2> QED BY <1>2, <2>1, <2>2 DEF Batches
<1>5. /\ pc'[c] = "write" => Writing(c)
      /\ pc'[c] \in {"write", "retire"} => Retiring(c)
  <2>1. CASE Ed!ReadTable(c)
    <3>1. /\ todo'[c] = Ed!Writes(cfg(c), table[c], rows)
          /\ stale'[c] = Ed!Stale(cfg(c), table[c], rows)
          /\ table' = table /\ rows' = rows
      BY <1>3, <2>1 DEF Ed!ReadTable
    <3>2. Retiring(c)
      BY <3>1 DEF Ed!Stale, Declares, KeyAt
    <3>3. Writing(c)
      BY <3>1 DEF Ed!Writes, KeyAt
    <3> QED BY <3>2, <3>3
  <2>2. CASE Ed!WriteEntry(c)
    <3>1. /\ pc[c] = "write" /\ Ed!Due(c) \in DOMAIN todo[c]
          /\ ~Ed!Repeats(config[c], table[c], Ed!Due(c))
          /\ todo'[c] = [i \in DOMAIN todo[c] \ {Ed!Due(c)} |-> todo[c][i]]
          /\ pc' = pc /\ table' = table /\ stale' = stale
      BY <2>2, WritePuts
    <3>2. rows' = rows
      BY <2>2 DEF Ed!WriteEntry
    <3>3. DOMAIN todo'[c] = DOMAIN todo[c] \ {Ed!Due(c)}
          /\ \A i \in DOMAIN todo'[c] : todo'[c][i] = todo[c][i]
      BY <3>1
    <3>4. /\ DOMAIN todo[c] \subseteq Ed!Desired(config[c], table[c])
          /\ \A i \in Ed!Desired(config[c], table[c]) :
               Ed!Repeats(config[c], table[c], i) => i \in DOMAIN todo[c]
          /\ \A i \in DOMAIN todo[c] :
               /\ todo[c][i] = "duplicate" <=> Ed!Repeats(config[c], table[c], i)
               /\ todo[c][i] = "insert" /\ overlapped[c] = {} =>
                    KeyAt(config[c], table[c], i) \notin DOMAIN rows
          /\ \A key \in stale[c] : key \in DOMAIN rows /\ ~Declares(config[c], key)
      BY <3>1 DEF Batches
    <3> QED BY <3>1, <3>2, <3>3, <3>4
  <2>3. CASE Ed!AllWritten(c)
    BY <1>3, <2>3 DEF Batches, Ed!AllWritten
  <2>4. CASE Ed!Retire(c)
    <3>1. /\ pc[c] = "retire" /\ pc' = pc /\ stale'[c] \subseteq stale[c]
      BY <2>4, RetirePuts
    <3> QED BY <1>2, <3>1 DEF Batches
  <2>5. CASE Ed!TableDone(c) \/ Ed!EntryRefused(c) \/ Ed!Commit(c) \/ Ed!EdStop(c)
    <3>1. pc'[c] \notin {"write", "retire"}
      BY <1>3, <2>5 DEF Ed!TableDone, Ed!EntryRefused, Ed!Commit, Ed!EdStop
    <3> QED BY <3>1
  <2> QED BY <2>1, <2>2, <2>3, <2>4, <2>5 DEF Ed!EdStep
<1>6. ASSUME NEW d \in Calls
      PROVE  /\ pc'[d] = "write" => Writing(d)
             /\ pc'[d] \in {"write", "retire"} => Retiring(d)
  <2> HIDE DEF Writing, Retiring
  <2> QED BY <1>4, <1>5
<1> QED BY <1>1, <1>6 DEF Batches

\* A repeated key keeps a call from getting past the entries of its table.
LEMMA WrittenOnceStep ==
  ASSUME CallTypes, EdTypes, Batches, WrittenOnce, NEW c \in Calls, Ed!EdStep(c)
  PROVE  WrittenOnce'
<1> USE DEF Ed!local, Ed!Goto
<1>1. /\ config' = config /\ Moves(pc, c)
      /\ pc[c] \in Ed!EdStages /\ pc'[c] \in Ed!EdStages \cup Ended
  BY EdFrame
<1>2. pc = [d \in Calls |-> pc[d]] /\ table = [d \in Calls |-> table[d]]
  BY DEF CallTypes, EdTypes
<1> DEFINE Once(d) == pc'[d] \in Ed!EdStages =>
             \A t \in Ed!Tables : HasWritten(d, t)' =>
               \A i \in Ed!Desired(config[d], t) : ~Ed!Repeats(config[d], t, i)
<1>3. ASSUME NEW d \in Calls, d # c PROVE Once(d)
  <2>1. pc'[d] = pc[d] /\ table'[d] = table[d]
    BY <1>3, EdOthersStay
  <2> QED BY <2>1 DEF WrittenOnce, HasWritten
<1>4. Once(c)
  <2>1. CASE Ed!AllWritten(c)
    <3>1. pc[c] = "write" /\ DOMAIN todo[c] = {} /\ table' = table
      BY <2>1 DEF Ed!AllWritten
    <3>2. \A i \in Ed!Desired(config[c], table[c]) : ~Ed!Repeats(config[c], table[c], i)
      BY <3>1 DEF Batches
    <3>3. \A t \in Ed!Tables : HasWritten(c, t)' => t = table[c] \/ HasWritten(c, t)
      BY <3>1 DEF HasWritten
    <3> QED BY <1>1, <3>2, <3>3 DEF WrittenOnce
  <2>2. CASE ~Ed!AllWritten(c)
    <3>1. \A t \in Ed!Tables : pc'[c] \in Ed!EdStages /\ HasWritten(c, t)' => HasWritten(c, t)
      <4>1. CASE Ed!ReadTable(c) \/ Ed!WriteEntry(c)
        BY <1>2, <4>1 DEF HasWritten, Ed!ReadTable, Ed!WriteEntry
      <4>2. CASE Ed!Retire(c)
        BY <4>2 DEF HasWritten, Ed!Retire
      <4>3. CASE Ed!TableDone(c)
        <5>1. pc[c] = "retire" /\ table[c] \in Ed!Tables /\ table'[c] = "events"
              /\ pc'[c] = IF table[c] = "breaks" THEN "read" ELSE "commit"
          BY <1>2, <4>3 DEF Ed!TableDone, EdTypes
        <5> QED BY <5>1 DEF HasWritten, Ed!Tables
      <4>4. CASE Ed!EntryRefused(c) \/ Ed!Commit(c) \/ Ed!EdStop(c)
        <5>1. pc'[c] \notin Ed!EdStages
          BY <1>2, <4>4 DEF Ed!EntryRefused, Ed!Commit, Ed!EdStop, Ed!EdStages
        <5> QED BY <5>1
      <4> QED BY <2>2, <4>1, <4>2, <4>3, <4>4 DEF Ed!EdStep
    <3> QED BY <1>1, <3>1 DEF WrittenOnce
  <2> QED BY <2>1, <2>2
<1>5. \A d \in Calls : Once(d)
  <2> HIDE DEF Once
  <2> QED BY <1>3, <1>4
<1> QED BY <1>1, <1>5 DEF WrittenOnce

\* What a table needs that does not fit is in the diff of its reading.
LEMMA DiffIsComplete ==
  ASSUME NEW cfg \in Configs, NEW key \in EdKeys, EdTypes, ~FitsIn(cfg, key, rows)
  PROVE  \/ \E i \in DOMAIN Ed!Writes(cfg, Ed!TableOf(key), rows) : KeyAt(cfg, Ed!TableOf(key), i) = key
         \/ key \in Ed!Stale(cfg, Ed!TableOf(key), rows)
<1> DEFINE t == Ed!TableOf(key)
<1>1. CASE key \notin DOMAIN rows
  <2>1. PICK i \in Ed!Desired(cfg, t) : KeyAt(cfg, t, i) = key
    BY <1>1 DEF FitsIn, Declares
  <2>2. Ed!NeedsWrite(t, cfg[t][i], rows)
    BY <1>1, <2>1 DEF Ed!NeedsWrite, KeyAt
  <2> QED BY <2>1, <2>2 DEF Ed!Writes
<1>2. CASE key \in DOMAIN rows
  <2>1. ~Fits(cfg, key, rows[key])
    BY <1>2 DEF FitsIn
  <2>2. CASE ~Declares(cfg, key)
    <3>1. rows[key].live
      BY <2>1, <2>2 DEF Fits, Declares
    <3> QED BY <1>2, <2>2, <3>1 DEF Ed!Stale, Declares, KeyAt
  <2>3. CASE Declares(cfg, key)
    <3>1. PICK i \in Ed!Desired(cfg, t) :
            /\ KeyAt(cfg, t, i) = key
            /\ ~(rows[key].live /\ rows[key].digest = Ed!Digest(cfg[t][i]))
      BY <2>1, <2>3 DEF Fits
    <3>2. Ed!NeedsWrite(t, cfg[t][i], rows)
      BY <3>1 DEF Ed!NeedsWrite, KeyAt
    <3> QED BY <3>1, <3>2 DEF Ed!Writes
  <2> QED BY <2>2, <2>3
<1> QED BY <1>1, <1>2

\* A lone call loses sight of nothing that does not fit.
LEMMA LoneFitsStep ==
  ASSUME CallTypes, OverlapsAreKnown, EdTypes, Batches, LoneFits,
         NEW c \in Calls, Ed!EdStep(c), overlapped' = overlapped
  PROVE  LoneFits'
<1> USE DEF Ed!local, Ed!Goto
<1>1. /\ config' = config /\ Moves(pc, c)
      /\ pc[c] \in Ed!EdStages /\ pc'[c] \in Ed!EdStages \cup Ended
  BY EdFrame
<1>2. /\ pc = [d \in Calls |-> pc[d]] /\ table = [d \in Calls |-> table[d]]
      /\ todo = [d \in Calls |-> todo[d]] /\ stale = [d \in Calls |-> stale[d]]
      /\ \A d \in Calls : config[d] \in Configs /\ table[d] \in Ed!Tables
  BY DEF CallTypes, EdTypes
<1> DEFINE Settles(d, key) ==
             key \in DOMAIN dirty[d] \/ FitsIn(config[d], key, rows) \/ Pending(d, key)
           Fit(d) ==
             pc'[d] \in Ed!EdStages /\ overlapped[d] \subseteq {config[d]} =>
               \A key \in EdKeys : HasRead(d, Ed!TableOf(key))' =>
                 \/ key \in DOMAIN dirty'[d]
                 \/ FitsIn(config[d], key, rows')
                 \/ Pending(d, key)'
<1>3. ASSUME NEW d \in Calls, d # c PROVE Fit(d)
  <2>1. /\ pc'[d] = pc[d] /\ table'[d] = table[d] /\ todo'[d] = todo[d]
        /\ stale'[d] = stale[d] /\ dirty'[d] = dirty[d]
    BY <1>3, EdOthersStay
  <2>2. ASSUME pc[d] \in Ed!EdStages, overlapped[d] \subseteq {config[d]}
        PROVE  \A key : FitsIn(config[d], key, rows) => FitsIn(config[d], key, rows')
    <3>1. config[c] = config[d]
      BY <1>3, <2>2, LoneSeesNoCommit
    <3> QED BY <3>1, RowsGrow
  <2>3. \A key : /\ Pending(d, key)' <=> Pending(d, key)
                 /\ HasRead(d, Ed!TableOf(key))' <=> HasRead(d, Ed!TableOf(key))
    BY <1>1, <2>1 DEF Pending, HasRead
  <2> QED BY <2>1, <2>2, <2>3 DEF LoneFits
<1>4. ASSUME pc'[c] \in Ed!EdStages, overlapped[c] \subseteq {config[c]}, NEW key \in EdKeys,
             HasRead(c, Ed!TableOf(key))'
      PROVE  \/ key \in DOMAIN dirty'[c]
             \/ FitsIn(config[c], key, rows')
             \/ Pending(c, key)'
  <2> DEFINE t == Ed!TableOf(key)
  <2>1. HasRead(c, t) => Settles(c, key)
    BY <1>1, <1>4 DEF LoneFits
  <2>2. CASE Ed!ReadTable(c)
    <3>1. /\ pc[c] = "read" /\ pc'[c] = "write"
          /\ todo'[c] = Ed!Writes(config[c], table[c], rows)
          /\ stale'[c] = Ed!Stale(config[c], table[c], rows)
          /\ table' = table /\ rows' = rows /\ dirty' = dirty
      BY <1>2, <2>2 DEF Ed!ReadTable
    <3>2. CASE HasRead(c, t)
      <4>1. ~Pending(c, key)
        BY <3>1 DEF Pending
      <4> QED BY <2>1, <3>1, <3>2, <4>1
    <3>3. CASE ~HasRead(c, t)
      <4>1. t = table[c]
        BY <1>4, <3>1, <3>3 DEF HasRead
      <4>2. CASE FitsIn(config[c], key, rows)
        BY <3>1, <4>2
      <4>3. CASE ~FitsIn(config[c], key, rows)
        <5>1. \/ \E i \in DOMAIN todo'[c] : KeyAt(config[c], table[c], i) = key
              \/ key \in stale'[c]
          BY <1>2, <3>1, <4>1, <4>3, DiffIsComplete
        <5> QED BY <1>1, <3>1, <5>1 DEF Pending
      <4> QED BY <4>2, <4>3
    <3> QED BY <3>2, <3>3
  <2>3. CASE Ed!WriteEntry(c)
    <3>1. /\ pc[c] = "write" /\ Ed!Due(c) \in DOMAIN todo[c]
          /\ Puts(c, KeyAt(config[c], table[c], Ed!Due(c)),
                  [digest |-> Ed!Digest(config[c][table[c]][Ed!Due(c)]), live |-> TRUE])
          /\ todo'[c] = [i \in DOMAIN todo[c] \ {Ed!Due(c)} |-> todo[c][i]]
          /\ pc' = pc /\ table' = table /\ stale' = stale
      BY <2>3, WritePuts
    <3>2. rows' = rows
      BY <2>3 DEF Ed!WriteEntry
    <3>3. DOMAIN dirty'[c] = {KeyAt(config[c], table[c], Ed!Due(c))} \cup DOMAIN dirty[c]
      BY <3>1, PutsIs
    <3>4. HasRead(c, t)
      BY <1>4, <3>1 DEF HasRead
    <3>5. ASSUME Pending(c, key), key # KeyAt(config[c], table[c], Ed!Due(c))
          PROVE  Pending(c, key)'
      <4>1. CASE \E i \in DOMAIN todo[c] : KeyAt(config[c], table[c], i) = key
        <5>1. PICK i \in DOMAIN todo[c] : KeyAt(config[c], table[c], i) = key
          BY <4>1
        <5>2. i \in DOMAIN todo'[c]
          BY <3>1, <3>5, <5>1
        <5> QED BY <1>1, <3>1, <5>1, <5>2 DEF Pending
      <4>2. CASE key \in stale[c]
        BY <3>1, <4>2 DEF Pending
      <4> QED BY <3>5, <4>1, <4>2 DEF Pending
    <3> QED BY <2>1, <3>2, <3>3, <3>4, <3>5
  <2>4. CASE Ed!AllWritten(c)
    <3>1. pc[c] = "write" /\ pc'[c] = "retire" /\ DOMAIN todo[c] = {}
          /\ table' = table /\ stale' = stale /\ dirty' = dirty /\ rows' = rows
      BY <1>2, <2>4 DEF Ed!AllWritten
    <3>2. HasRead(c, t)
      BY <1>4, <3>1 DEF HasRead
    <3>3. Pending(c, key) => Pending(c, key)'
      BY <3>1 DEF Pending
    <3> QED BY <2>1, <3>1, <3>2, <3>3
  <2>5. CASE Ed!Retire(c)
    <3>1. PICK k \in stale[c] :
            /\ Puts(c, k, [rows[k] EXCEPT !.live = FALSE])
            /\ stale'[c] = stale[c] \ {k}
            /\ pc[c] = "retire" /\ pc' = pc /\ table' = table
      BY <2>5, RetirePuts
    <3>2. rows' = rows
      BY <2>5 DEF Ed!Retire
    <3>3. DOMAIN dirty'[c] = {k} \cup DOMAIN dirty[c]
      BY <3>1, PutsIs
    <3>4. HasRead(c, t)
      BY <1>4, <3>1 DEF HasRead
    <3>5. Pending(c, key) => key = k \/ Pending(c, key)'
      BY <3>1 DEF Pending
    <3> QED BY <2>1, <3>2, <3>3, <3>4, <3>5
  <2>6. CASE Ed!TableDone(c)
    <3>1. /\ pc[c] = "retire" /\ stale[c] = {} /\ dirty' = dirty /\ rows' = rows
          /\ table'[c] = "events"
          /\ pc'[c] = IF table[c] = "breaks" THEN "read" ELSE "commit"
      BY <1>2, <2>6 DEF Ed!TableDone
    <3>2. ~Pending(c, key)
      BY <3>1 DEF Pending
    <3>3. HasRead(c, t)
      BY <1>2, <1>4, <3>1 DEF HasRead, Ed!Tables
    <3> QED BY <2>1, <3>1, <3>2, <3>3
  <2>7. CASE Ed!EntryRefused(c) \/ Ed!Commit(c) \/ Ed!EdStop(c)
    BY <1>2, <1>4, <2>7 DEF Ed!EntryRefused, Ed!Commit, Ed!EdStop, Ed!EdStages
  <2> QED BY <2>2, <2>3, <2>4, <2>5, <2>6, <2>7 DEF Ed!EdStep
<1>5. \A d \in Calls : Fit(d)
  <2>1. Fit(c)
    BY <1>4
  <2> HIDE DEF Fit
  <2> QED BY <1>3, <2>1
<1> QED BY <1>1, <1>5 DEF LoneFits

\* A lone call that commits leaves tables that fit its configuration.
LEMMA CommitFits ==
  ASSUME CallTypes, EdTypes, LoneFits, NEW c \in Calls, Ed!Commit(c),
         overlapped[c] \subseteq {config[c]}
  PROVE  \A key \in EdKeys : FitsIn(config[c], key, rows')
<1> SUFFICES ASSUME NEW key \in EdKeys PROVE FitsIn(config[c], key, rows')
  OBVIOUS
<1>1. pc[c] = "commit" /\ rows' = Ed!Overlay(dirty[c], rows)
  BY DEF Ed!Commit
<1>2. HasRead(c, Ed!TableOf(key))
  BY <1>1, KeyOf DEF EdTypes, HasRead, Ed!Tables
<1>3. ~Pending(c, key)
  BY <1>1 DEF Pending
<1>4. key \in DOMAIN dirty[c] \/ FitsIn(config[c], key, rows)
  BY <1>1, <1>2, <1>3 DEF LoneFits, Ed!EdStages
<1>5. CASE key \in DOMAIN dirty[c]
  <2>1. key \in DOMAIN rows' /\ rows'[key] = dirty[c][key]
    BY <1>1, <1>5 DEF Ed!Overlay
  <2> QED BY <1>5, <2>1 DEF EdTypes, FitsIn
<1>6. CASE FitsIn(config[c], key, rows)
  BY <1>6, RowsGrow DEF Ed!EdStep
<1> QED BY <1>4, <1>5, <1>6

\* The only step by which an editorial call ends well is its commit.
LEMMA DoneIsCommit ==
  ASSUME CallTypes, NEW c \in Calls, Ed!EdStep(c), pc'[c] = "done"
  PROVE  Ed!Commit(c)
<1>1. pc = [d \in Calls |-> pc[d]]
  BY DEF CallTypes
<1>2. CASE Ed!ReadTable(c) \/ Ed!WriteEntry(c) \/ Ed!EntryRefused(c) \/ Ed!AllWritten(c)
  BY <1>1, <1>2 DEF Ed!ReadTable, Ed!WriteEntry, Ed!EntryRefused, Ed!AllWritten, Ed!Goto
<1>3. CASE Ed!Retire(c) \/ Ed!TableDone(c) \/ Ed!EdStop(c)
  BY <1>1, <1>3 DEF Ed!Retire, Ed!TableDone, Ed!EdStop, Ed!Goto
<1> QED BY <1>2, <1>3 DEF Ed!EdStep

\* Calls of one configuration do not undo what one of them has committed.
LEMMA ProjectionStaysStep ==
  ASSUME CallTypes, EdTypes, LoneFits, OverlapsHaveBegun, ProjectionStays,
         NEW c \in Calls, Ed!EdStep(c), kind' = kind
  PROVE  ProjectionStays'
<1>1. /\ config' = config /\ pc[c] \in Ed!EdStages /\ pc'[c] \in Ed!EdStages \cup Ended
  BY EdFrame
<1>2. \A d \in Calls : d # c => pc'[d] = pc[d]
  BY EdOthersStay
<1>3. pc[c] # "idle" /\ pc'[c] # "idle"
  BY <1>1 DEF Ed!EdStages, Ended
<1> SUFFICES ASSUME NEW cfg \in Configs, OnlyOf(cfg)',
                    NEW e \in Calls, kind[e] = "editorial", pc'[e] = "done", NEW key \in EdKeys
             PROVE  FitsIn(cfg, key, rows')
  BY DEF ProjectionStays
<1>4. OnlyOf(cfg) /\ config[c] = cfg
  BY <1>1, <1>2, <1>3 DEF OnlyOf
<1>5. CASE e # c
  <2>1. FitsIn(cfg, key, rows)
    BY <1>2, <1>4, <1>5 DEF ProjectionStays
  <2> QED BY <1>4, <2>1, RowsGrow
<1>6. CASE e = c
  <2>1. Ed!Commit(c)
    BY <1>6, DoneIsCommit
  <2>2. overlapped[c] \subseteq {config[c]}
    BY <1>4 DEF OverlapsHaveBegun, OnlyOf
  <2> QED BY <1>4, <2>1, <2>2, CommitFits
<1> QED BY <1>5, <1>6

-----------------------------------------------------------------------------
(* The steps of the dimensions *)

\* What contradicts no other series stays in its place.
LEMMA PlacedStays ==
  ASSUME CallTypes, Prerequisites, NEW c \in Calls, Dim!DimStep(c), Consistent(config[c]),
         NEW s \in ToSet(config[c].series)
  PROVE  /\ DatasetIn(datasets, s) => DatasetIn(datasets', s)
         /\ PlacedIn(series, datasets, s) => PlacedIn(series', datasets', s)
<1> USE DEF Dim!local, Dim!tables
<1>1. pc[c] \in AtSeries => Dim!Mine(c) \in ToSet(config[c].series)
  BY DEF Prerequisites, Dim!Mine, ToSet
<1>2. CASE Dim!UpsertDataset(c)
  <2>1. /\ Dim!Mine(c) \in ToSet(config[c].series) /\ series' = series
        /\ datasets' = Dim!Upsert(datasets, Dim!Mine(c).dataset, Dim!Mine(c).source)
    BY <1>1, <1>2 DEF Dim!UpsertDataset, AtSeries
  <2>2. s.dataset = Dim!Mine(c).dataset => s.source = Dim!Mine(c).source
    BY <2>1 DEF Consistent, OneSourcePerDataset
  <2> QED BY <2>1, <2>2 DEF Dim!Upsert, DatasetIn, PlacedIn
<1>3. CASE Dim!UpsertSeries(c)
  <2>1. /\ Dim!Mine(c) \in ToSet(config[c].series) /\ datasets' = datasets
        /\ series' = Dim!Upsert(series, Dim!Mine(c).slug, Dim!Mine(c).dataset)
    BY <1>1, <1>3 DEF Dim!UpsertSeries, AtSeries
  <2>2. s.slug = Dim!Mine(c).slug => s = Dim!Mine(c)
    BY <2>1 DEF Consistent, SlugsAreUnique, ToSet
  <2> QED BY <2>1, <2>2 DEF Dim!Upsert, DatasetIn, PlacedIn
<1>4. CASE ~Dim!UpsertDataset(c) /\ ~Dim!UpsertSeries(c)
  <2>1. datasets' = datasets /\ series' = series
    BY <1>4 DEF Dim!DimStep, Dim!UpsertSource, Dim!SourcesDone, Dim!DatasetRefused, Dim!ReadMapping,
       Dim!InsertFirst, Dim!FirstRefused, Dim!Close, Dim!CloseWaited, Dim!Insert,
       Dim!InsertRefused, Dim!CommitMapping, Dim!DimStop
  <2> QED BY <2>1
<1> QED BY <1>2, <1>3, <1>4

\* The walk to the next series leaves none behind that is named.
LEMMA SkipPlaces ==
  ASSUME CallTypes, NEW c \in Calls, NEW i \in Nat, Dim!SkipTo(c, i),
         NEW q, NEW d, PlacedBelow(q, d, config[c], i)
  PROVE  /\ pc'[c] = "dataset" => PlacedBelow(q, d, config[c], at'[c])
         /\ pc'[c] = "done" => PlacedBelow(q, d, config[c], Len(config[c].series) + 1)
         /\ pc'[c] \in {"dataset", "done"}
<1> DEFINE cfg == config[c]
<1>1. cfg \in Configs /\ at \in [Calls -> Nat]
      /\ pc \in [Calls -> {"idle"} \cup Ended \cup Ed!EdStages \cup Dim!DimStages]
  BY DEF CallTypes
<1>2. DOMAIN cfg.series = 1..Len(cfg.series) /\ Len(cfg.series) \in Nat
  BY <1>1, ConfigsAssumption, LenProperties DEF IsConfig
<1>3. \A k \in DOMAIN cfg.series : k < i \/ k >= i
  BY <1>2
<1>4. CASE /\ pc' = [pc EXCEPT ![c] = "done"] /\ at' = at
           /\ \A k \in DOMAIN cfg.series : k >= i => ~IsNamed(cfg.series[k])
  <2>1. pc'[c] = "done"
    BY <1>1, <1>4
  <2>2. PlacedBelow(q, d, cfg, Len(cfg.series) + 1)
    BY <1>3, <1>4 DEF PlacedBelow
  <2> QED BY <2>1, <2>2
<1>5. CASE \E j \in DOMAIN cfg.series :
              /\ pc' = [pc EXCEPT ![c] = "dataset"] /\ at' = [at EXCEPT ![c] = j]
              /\ j >= i /\ IsNamed(cfg.series[j])
              /\ \A k \in DOMAIN cfg.series : k >= i /\ k < j => ~IsNamed(cfg.series[k])
  <2>1. PICK j \in DOMAIN cfg.series :
              /\ pc' = [pc EXCEPT ![c] = "dataset"] /\ at' = [at EXCEPT ![c] = j]
              /\ \A k \in DOMAIN cfg.series : k >= i /\ k < j => ~IsNamed(cfg.series[k])
    BY <1>5
  <2>2. pc'[c] = "dataset" /\ at'[c] = j
    BY <1>1, <2>1
  <2>3. PlacedBelow(q, d, cfg, j)
    BY <1>3, <2>1 DEF PlacedBelow
  <2> QED BY <2>2, <2>3
<1> QED BY <1>1, <1>4, <1>5, SkipIs

\* What a call has placed after its step, cfg being the configuration of all.
PlacedBy(cfg, c) ==
  /\ pc[c] \in AtSeries => PlacedBelow(series, datasets, cfg, at[c])
  /\ pc[c] \in AtSeries \ {"dataset"} => DatasetIn(datasets, Dim!Mine(c))
  /\ pc[c] \in AtMapping => PlacedIn(series, datasets, Dim!Mine(c))
  /\ pc[c] = "done" /\ kind[c] = "dimensions" =>
       PlacedBelow(series, datasets, cfg, Len(cfg.series) + 1)

\* What is placed below a position stays.
LEMMA BelowStays ==
  ASSUME CallTypes, Prerequisites, NEW c \in Calls, Dim!DimStep(c), Consistent(config[c]),
         NEW n, PlacedBelow(series, datasets, config[c], n)
  PROVE  PlacedBelow(series', datasets', config[c], n)
<1> SUFFICES ASSUME NEW j \in DOMAIN config[c].series, j < n, IsNamed(config[c].series[j])
             PROVE  PlacedIn(series', datasets', config[c].series[j])
  BY DEF PlacedBelow
<1>1. PlacedIn(series, datasets, config[c].series[j])
  BY DEF PlacedBelow
<1>2. config[c].series[j] \in ToSet(config[c].series)
  BY DEF ToSet
<1> QED BY <1>1, <1>2, PlacedStays

\* A call places the series it passes.
LEMMA OwnPlaced ==
  ASSUME CallTypes, Prerequisites, NEW c \in Calls, Dim!DimStep(c),
         Consistent(config[c]), PlacedBy(config[c], c)
  PROVE  PlacedBy(config[c], c)'
<1> USE DEF Dim!local, Dim!tables
<1> DEFINE cfg == config[c]
           s == Dim!Mine(c)
<1>1. /\ pc \in [Calls -> {"idle"} \cup Ended \cup Ed!EdStages \cup Dim!DimStages]
      /\ at[c] \in Nat /\ cfg \in Configs /\ config' = config
  BY DimFrame DEF CallTypes
<1>2. DOMAIN cfg.series = 1..Len(cfg.series) /\ Len(cfg.series) \in Nat
  BY <1>1, ConfigsAssumption, LenProperties DEF IsConfig
<1>3. pc[c] \in AtSeries => /\ s \in ToSet(cfg.series) /\ s = cfg.series[at[c]]
                            /\ PlacedBelow(series', datasets', cfg, at[c])
  <2>1. pc[c] \in AtSeries => s \in ToSet(cfg.series) /\ s = cfg.series[at[c]]
    BY DEF Prerequisites, Dim!Mine, ToSet
  <2> QED BY <2>1, BelowStays DEF PlacedBy
<1>4. ASSUME pc[c] \in AtSeries, Dim!SkipTo(c, at[c] + 1), PlacedIn(series', datasets', s)
      PROVE  PlacedBy(cfg, c)'
  <2>1. \A j \in DOMAIN cfg.series : j < at[c] + 1 => j < at[c] \/ j = at[c]
    BY <1>1, <1>2
  <2>2. PlacedBelow(series', datasets', cfg, at[c] + 1)
    BY <1>3, <1>4, <2>1 DEF PlacedBelow
  <2>3. at[c] + 1 \in Nat
    BY <1>1
  <2>4. /\ pc'[c] = "dataset" => PlacedBelow(series', datasets', cfg, at'[c])
        /\ pc'[c] = "done" => PlacedBelow(series', datasets', cfg, Len(cfg.series) + 1)
        /\ pc'[c] \in {"dataset", "done"}
    BY <1>4, <2>2, <2>3, SkipPlaces
  <2> QED BY <1>1, <2>4 DEF PlacedBy, AtSeries, AtMapping
<1>5. ASSUME pc[c] \in AtSeries, at' = at, pc'[c] \in AtMapping, PlacedIn(series', datasets', s)
      PROVE  PlacedBy(cfg, c)'
  <2>1. Dim!Mine(c)' = s
    BY <1>1, <1>5 DEF Dim!Mine
  <2>2. pc'[c] # "done" /\ DatasetIn(datasets', s)
    BY <1>5 DEF AtMapping, PlacedIn
  <2> QED BY <1>1, <1>3, <1>5, <2>1, <2>2 DEF PlacedBy
<1>6. CASE Dim!SourcesDone(c)
  <2>1. PlacedBelow(series', datasets', cfg, 1)
    BY <1>2 DEF PlacedBelow
  <2>2. Dim!SkipTo(c, 1)
    BY <1>6 DEF Dim!SourcesDone
  <2>3. /\ pc'[c] = "dataset" => PlacedBelow(series', datasets', cfg, at'[c])
        /\ pc'[c] = "done" => PlacedBelow(series', datasets', cfg, Len(cfg.series) + 1)
        /\ pc'[c] \in {"dataset", "done"}
    BY <2>1, <2>2, SkipPlaces
  <2> QED BY <1>1, <2>3 DEF PlacedBy, AtSeries, AtMapping
<1>7. CASE Dim!UpsertDataset(c)
  <2>1. /\ pc[c] = "dataset" /\ pc'[c] = "series" /\ at' = at
        /\ datasets' = Dim!Upsert(datasets, s.dataset, s.source)
    BY <1>1, <1>7 DEF Dim!UpsertDataset, Dim!Goto
  <2>2. DatasetIn(datasets', s)
    BY <2>1 DEF Dim!Upsert, DatasetIn
  <2>3. Dim!Mine(c)' = s
    BY <1>1, <2>1 DEF Dim!Mine
  <2> QED BY <1>1, <1>3, <2>1, <2>2, <2>3 DEF PlacedBy, AtSeries, AtMapping
<1>8. CASE Dim!UpsertSeries(c)
  <2>1. /\ pc[c] = "series" /\ datasets' = datasets
        /\ series' = Dim!Upsert(series, s.slug, s.dataset)
    BY <1>8 DEF Dim!UpsertSeries
  <2>2. pc[c] \in AtSeries /\ pc[c] # "dataset"
    BY <2>1 DEF AtSeries
  <2>3. DatasetIn(datasets, s)
    BY <2>2 DEF PlacedBy
  <2>4. PlacedIn(series', datasets', s)
    BY <2>1, <2>3 DEF Dim!Upsert, PlacedIn
  <2>5. CASE Dim!ActiveRef(s) = Missing
    BY <1>4, <1>8, <2>2, <2>4, <2>5 DEF Dim!UpsertSeries
  <2>6. CASE Dim!ActiveRef(s) # Missing
    <3>1. pc'[c] = "mapping" /\ at' = at
      BY <1>1, <1>8, <2>6 DEF Dim!UpsertSeries, Dim!Goto
    <3> QED BY <1>5, <2>2, <2>4, <3>1 DEF AtMapping
  <2> QED BY <2>5, <2>6
<1>9. pc[c] \in AtMapping => pc[c] \in AtSeries /\ PlacedIn(series', datasets', s)
  BY <1>3, PlacedStays DEF PlacedBy, AtSeries
<1>10. CASE Dim!ReadMapping(c)
  <2>1. pc[c] \in AtMapping
    BY <1>10 DEF Dim!ReadMapping, AtMapping
  <2>2. \/ Dim!SkipTo(c, at[c] + 1)
        \/ pc'[c] \in {"first", "close"} /\ at' = at
    BY <1>1, <1>10 DEF Dim!ReadMapping, Dim!Goto
  <2> QED BY <1>4, <1>5, <1>9, <2>1, <2>2 DEF AtMapping
<1>11. CASE Dim!InsertFirst(c) \/ Dim!CommitMapping(c)
  <2>1. pc[c] \in {"first", "commitMapping"} /\ Dim!SkipTo(c, at[c] + 1)
    BY <1>11 DEF Dim!InsertFirst, Dim!CommitMapping
  <2> QED BY <1>4, <1>9, <2>1 DEF AtMapping
<1>12. CASE Dim!UpsertSource(c) \/ Dim!DatasetRefused(c) \/ Dim!FirstRefused(c) \/ Dim!InsertRefused(c) \/ Dim!DimStop(c)
  <2>1. pc'[c] \in {"sources", "failed", "stopped"}
    BY <1>1, <1>12 DEF Dim!UpsertSource, Dim!DatasetRefused, Dim!FirstRefused, Dim!InsertRefused,
       Dim!DimStop, Dim!Goto
  <2> QED BY <2>1 DEF PlacedBy, AtSeries, AtMapping
<1>13. CASE Dim!Close(c) \/ Dim!CloseWaited(c) \/ Dim!Insert(c)
  <2>1. pc[c] \in AtMapping /\ pc'[c] \in {"waiting", "open", "commitMapping"} /\ at' = at
    BY <1>1, <1>13 DEF Dim!Close, Dim!CloseWaited, Dim!Insert, Dim!Goto, AtMapping
  <2> QED BY <1>5, <1>9, <2>1 DEF AtMapping
<1> QED BY <1>6, <1>7, <1>8, <1>10, <1>11, <1>12, <1>13 DEF Dim!DimStep

\* What calls of one configuration have placed stays.
LEMMA PlacedStep ==
  ASSUME CallTypes, Prerequisites, PlacedSoFar, NEW c \in Calls, Dim!DimStep(c), kind' = kind
  PROVE  PlacedSoFar'
<1>1. /\ config' = config /\ pc[c] \in Dim!DimStages /\ pc'[c] \in Dim!DimStages \cup Ended
  BY DimFrame
<1>2. pc[c] # "idle" /\ pc'[c] # "idle"
  BY <1>1 DEF Dim!DimStages, Dim!InTransaction, Ended
<1>3. \A d \in Calls : d # c => pc'[d] = pc[d] /\ at'[d] = at[d] /\ Dim!Mine(d)' = Dim!Mine(d)
  BY OthersStay
<1> SUFFICES ASSUME NEW cfg \in Configs, OnlyOf(cfg)', Consistent(cfg), NEW d \in Calls
             PROVE  PlacedBy(cfg, d)'
  BY DEF PlacedSoFar, PlacedBy
<1>4. OnlyOf(cfg) /\ config[c] = cfg
  BY <1>1, <1>2, <1>3 DEF OnlyOf
<1>5. PlacedBy(cfg, d)
  BY <1>4 DEF PlacedSoFar, PlacedBy
<1>6. CASE d = c
  BY <1>1, <1>4, <1>5, <1>6, OwnPlaced
<1>7. CASE d # c
  <2>2. \A n : PlacedBelow(series, datasets, cfg, n) => PlacedBelow(series', datasets', cfg, n)
    BY <1>4, BelowStays
  <2>3. ASSUME pc[d] \in AtSeries
        PROVE  Dim!Mine(d) \in ToSet(cfg.series)
    <3>1. config[d] = cfg
      BY <1>4, <2>3 DEF OnlyOf, AtSeries, AtMapping
    <3> QED BY <2>3, <3>1 DEF Prerequisites, Dim!Mine, ToSet
  <2>4. pc[d] \in AtMapping => pc[d] \in AtSeries
    BY DEF AtSeries
  <2>5. /\ pc[d] \in AtSeries \ {"dataset"} => DatasetIn(datasets', Dim!Mine(d))
        /\ pc[d] \in AtMapping => PlacedIn(series', datasets', Dim!Mine(d))
    BY <1>4, <1>5, <2>3, <2>4, PlacedStays DEF PlacedBy
  <2> QED BY <1>3, <1>5, <1>7, <2>2, <2>5 DEF PlacedBy
<1> QED BY <1>6, <1>7

-----------------------------------------------------------------------------
(* The other steps, and the initial states, of the editorial invariant *)

\* The editorial invariant holds initially.
LEMMA InitEditorial == Init => EditorialInv
<1> SUFFICES ASSUME Init PROVE EditorialInv
  OBVIOUS
<1> USE DEF Init, Ed!EdInit
<1>1. PICK cfg \in Bases : Base(cfg)
  OBVIOUS
<1> DEFINE entry(key) == CHOOSE p \in Ed!Projection(cfg) : p[1] = key
<1>2. rows = [key \in {p[1] : p \in Ed!Projection(cfg)} |-> [digest |-> entry(key)[2], live |-> TRUE]]
  BY <1>1 DEF Base
<1>3. ASSUME NEW key \in DOMAIN rows
      PROVE  key \in EdKeys /\ rows[key] \in EdRows
  <2>1. PICK p \in Ed!Projection(cfg) : p[1] = key
    BY <1>2
  <2>2. entry(key) \in Ed!Projection(cfg)
    BY <2>1
  <2>3. PICK e \in Ed!Projection(cfg) : rows[key] = [digest |-> e[2], live |-> TRUE]
    BY <1>2, <2>2
  <2>4. key \in EdKeys
    BY <2>1 DEF EdKeys
  <2>5. e[2] \in EdDigests
    BY <2>3 DEF EdDigests
  <2> QED BY <2>3, <2>4, <2>5 DEF EdRows
<1>4. EdTypes
  <2>1. \A c \in Calls : DOMAIN dirty[c] = {}
    OBVIOUS
  <2> QED BY <1>3, <2>1 DEF EdTypes, Ed!Tables
<1>5. Batches /\ WrittenOnce /\ LoneFits
  BY DEF Batches, WrittenOnce, LoneFits, Ed!EdStages
<1>6. OverlapsHaveBegun /\ ProjectionStays /\ PlacedSoFar
  BY DEF OverlapsHaveBegun, ProjectionStays, PlacedSoFar, AtSeries, AtMapping
<1> QED BY <1>4, <1>5, <1>6 DEF EditorialInv

\* The steps of the editorial reconciliation keep it.
LEMMA EditorialInvByEditorial ==
  ASSUME MappingInv, EditorialInv, NEW c \in Calls, Editorial(c)
  PROVE  EditorialInv'
<1>1. /\ CallTypes /\ OverlapsAreKnown
      /\ EdTypes /\ Batches /\ WrittenOnce /\ LoneFits
      /\ OverlapsHaveBegun /\ ProjectionStays /\ PlacedSoFar
  BY DEF MappingInv, EditorialInv
<1>2. /\ Ed!EdStep(c) /\ kind' = kind /\ overlapped' = overlapped
      /\ at' = at /\ datasets' = datasets /\ series' = series
  BY DEF Editorial, dimensions
<1>3. /\ config' = config /\ pc[c] \in Ed!EdStages /\ pc'[c] \in Ed!EdStages \cup Ended
  BY <1>1, <1>2, EdFrame
<1>4. \A d \in Calls : d # c => pc'[d] = pc[d]
  BY <1>1, <1>2, EdOthersStay
<1>5. pc[c] # "idle" /\ pc'[c] # "idle"
  BY <1>3 DEF Ed!EdStages, Ended
<1>6. EdTypes' /\ Batches' /\ WrittenOnce' /\ LoneFits' /\ ProjectionStays'
  BY <1>1, <1>2, EdTypesStep, BatchesStep, WrittenOnceStep, LoneFitsStep, ProjectionStaysStep
<1>7. OverlapsHaveBegun'
  BY <1>1, <1>2, <1>3, <1>4, <1>5 DEF OverlapsHaveBegun
<1>8. PlacedSoFar'
  <2>1. \A d \in Calls : Dim!Mine(d)' = Dim!Mine(d)
    BY <1>2, <1>3 DEF Dim!Mine
  <2>2. \A cfg : OnlyOf(cfg)' => OnlyOf(cfg)
    BY <1>3, <1>4, <1>5 DEF OnlyOf
  <2>3. pc'[c] \notin AtSeries /\ kind[c] = "editorial"
    BY <1>1, <1>3 DEF CallTypes, AtSeries, AtMapping, Ed!EdStages, Ended
  <2>4. \A d \in Calls : /\ pc'[d] \in AtSeries => pc'[d] = pc[d]
                         /\ pc'[d] \in AtMapping => pc'[d] = pc[d]
                         /\ pc'[d] = "done" /\ kind[d] = "dimensions" => pc'[d] = pc[d]
    BY <1>4, <2>3 DEF AtSeries
  <2> QED BY <1>1, <1>2, <2>1, <2>2, <2>4 DEF PlacedSoFar
<1> QED BY <1>6, <1>7, <1>8 DEF EditorialInv

\* What no step of another kind touches.
LEMMA EdUntouched ==
  ASSUME CallTypes, EdTypes, Batches, WrittenOnce, LoneFits, editorial' = editorial,
         config' = config,
         \A d \in Calls : /\ pc'[d] = pc[d] \/ pc'[d] \notin Ed!EdStages \/ (pc[d] = "idle" /\ pc'[d] = "read")
                          /\ pc[d] \notin Ed!EdStages \/ pc'[d] = pc[d]
                          /\ pc'[d] = "idle" => pc[d] = "idle"
                          /\ overlapped[d] \subseteq overlapped'[d]
  PROVE  EdTypes' /\ Batches' /\ WrittenOnce' /\ LoneFits'
<1>1. /\ table' = table /\ todo' = todo /\ stale' = stale /\ dirty' = dirty /\ rows' = rows
  BY DEF editorial
<1>2. \A d \in Calls : /\ pc'[d] \in {"write", "retire", "commit"} => pc'[d] = pc[d]
                       /\ pc'[d] \in Ed!EdStages /\ pc'[d] # pc[d] => pc'[d] = "read" /\ table[d] = "breaks"
  BY DEF Ed!EdStages, EdTypes
<1>3. EdTypes'
  BY <1>1, <1>2 DEF EdTypes
<1>4. Batches'
  BY <1>1, <1>2 DEF Batches
<1>5. \A d \in Calls : \A t : pc'[d] \in Ed!EdStages =>
        /\ HasWritten(d, t)' => HasWritten(d, t) /\ pc'[d] = pc[d]
        /\ HasRead(d, t)' => HasRead(d, t) /\ pc'[d] = pc[d]
  BY <1>1, <1>2 DEF HasWritten, HasRead
<1>6. WrittenOnce'
  BY <1>5 DEF WrittenOnce
<1>7. LoneFits'
  <2>1. \A d \in Calls : \A key : pc'[d] = pc[d] /\ Pending(d, key) => Pending(d, key)'
    BY <1>1 DEF Pending
  <2> QED BY <1>1, <1>5, <2>1 DEF LoneFits
<1> QED BY <1>3, <1>4, <1>6, <1>7

\* The steps of the dimensions keep it.
LEMMA DimensionsKeepEditorial ==
  ASSUME MappingInv, EditorialInv, NEW c \in Calls, Dimensions(c)
  PROVE  EditorialInv'
<1>1. /\ CallTypes /\ Prerequisites
      /\ EdTypes /\ Batches /\ WrittenOnce /\ LoneFits
      /\ OverlapsHaveBegun /\ ProjectionStays /\ PlacedSoFar
  BY DEF MappingInv, EditorialInv
<1>2. Dim!DimStep(c) /\ kind' = kind /\ overlapped' = overlapped /\ editorial' = editorial
  BY DEF Dimensions
<1>3. /\ config' = config /\ pc[c] \in Dim!DimStages /\ pc'[c] \in Dim!DimStages \cup Ended
      /\ \A d \in Calls : d # c => pc'[d] = pc[d]
  BY <1>1, <1>2, DimFrame, OthersStay
<1>4. /\ pc[c] # "idle" /\ pc'[c] # "idle"
      /\ pc[c] \notin Ed!EdStages /\ pc'[c] \notin Ed!EdStages
  BY <1>3 DEF Dim!DimStages, Dim!InTransaction, Ended, Ed!EdStages
<1>5. EdTypes' /\ Batches' /\ WrittenOnce' /\ LoneFits'
  <2>1. \A d \in Calls : /\ pc'[d] = pc[d] \/ pc'[d] \notin Ed!EdStages \/ (pc[d] = "idle" /\ pc'[d] = "read")
                         /\ pc[d] \notin Ed!EdStages \/ pc'[d] = pc[d]
                         /\ pc'[d] = "idle" => pc[d] = "idle"
                         /\ overlapped[d] \subseteq overlapped'[d]
    BY <1>2, <1>3, <1>4
  <2> QED BY <1>1, <1>2, <1>3, <2>1, EdUntouched
<1>6. OverlapsHaveBegun'
  BY <1>1, <1>2, <1>3, <1>4 DEF OverlapsHaveBegun
<1>7. ProjectionStays'
  <2>1. \A cfg : OnlyOf(cfg)' => OnlyOf(cfg)
    BY <1>3, <1>4 DEF OnlyOf
  <2>2. \A d \in Calls : kind[d] = "editorial" => pc'[d] = pc[d]
    BY <1>1, <1>3 DEF CallTypes
  <2>3. rows' = rows
    BY <1>2 DEF editorial
  <2> QED BY <1>1, <1>2, <2>1, <2>2, <2>3 DEF ProjectionStays
<1>8. PlacedSoFar'
  BY <1>1, <1>2, PlacedStep
<1> QED BY <1>5, <1>6, <1>7, <1>8 DEF EditorialInv

\* So does the beginning of a call.
LEMMA BeginKeepsEditorial ==
  ASSUME MappingInv, EditorialInv, NEW c \in Calls, Begin(c)
  PROVE  EditorialInv'
<1>1. /\ CallTypes /\ OverlapsAreKnown
      /\ EdTypes /\ Batches /\ WrittenOnce /\ LoneFits
      /\ OverlapsHaveBegun /\ ProjectionStays /\ PlacedSoFar
  BY DEF MappingInv, EditorialInv
<1> DEFINE beside == {d \in Calls : UnderWay(d) /\ kind[d] = kind[c]}
<1>2. /\ pc[c] = "idle"
      /\ pc' = [pc EXCEPT ![c] = IF kind[c] = "editorial" THEN "read" ELSE "sources"]
      /\ kind' = kind /\ config' = config /\ editorial' = editorial /\ dimensions' = dimensions
  BY DEF Begin
<1>3. overlapped' = [d \in Calls |->
        IF d = c THEN {config[e] : e \in beside}
        ELSE overlapped[d] \cup (IF d \in beside THEN {config[c]} ELSE {})]
  BY DEF Begin
<1>4. /\ pc'[c] \in {"read", "sources"}
      /\ \A d \in Calls : d # c => pc'[d] = pc[d]
      /\ \A d \in Calls : overlapped[d] \subseteq overlapped'[d]
  BY <1>1, <1>2, <1>3 DEF CallTypes, OverlapsAreKnown
<1>5. EdTypes' /\ Batches' /\ WrittenOnce' /\ LoneFits'
  <2>1. pc[c] \notin Ed!EdStages /\ pc'[c] # "idle" /\ (pc'[c] = "read" \/ pc'[c] \notin Ed!EdStages)
    BY <1>2, <1>4 DEF Ed!EdStages
  <2>2. \A d \in Calls : /\ pc'[d] = pc[d] \/ pc'[d] \notin Ed!EdStages \/ (pc[d] = "idle" /\ pc'[d] = "read")
                         /\ pc[d] \notin Ed!EdStages \/ pc'[d] = pc[d]
                         /\ pc'[d] = "idle" => pc[d] = "idle"
                         /\ overlapped[d] \subseteq overlapped'[d]
    BY <1>2, <1>4, <2>1
  <2> QED BY <1>1, <1>2, <2>2, EdUntouched
<1>6. OverlapsHaveBegun'
  <2>1. \A d \in Calls : pc[d] # "idle" => pc'[d] # "idle"
    BY <1>2, <1>4
  <2>2. ASSUME NEW f \in overlapped'[c]
        PROVE  \E e \in Calls : pc'[e] # "idle" /\ config[e] = f
    <3>1. PICK e \in beside : config[e] = f
      BY <1>3
    <3>2. pc[e] # "idle"
      BY <3>1 DEF UnderWay
    <3> QED BY <2>1, <3>1, <3>2
  <2>3. ASSUME NEW d \in Calls, d # c, NEW f \in overlapped'[d]
        PROVE  \E e \in Calls : pc'[e] # "idle" /\ config[e] = f
    <3>1. f \in overlapped[d] \/ f = config[c]
      BY <1>3, <2>3
    <3> QED BY <1>1, <1>4, <2>1, <3>1 DEF OverlapsHaveBegun
  <2> QED BY <1>2, <2>2, <2>3 DEF OverlapsHaveBegun
<1>7. \A cfg : OnlyOf(cfg)' => OnlyOf(cfg)
  BY <1>2, <1>4 DEF OnlyOf
<1>8. /\ rows' = rows /\ at' = at /\ series' = series /\ datasets' = datasets
      /\ \A d \in Calls : Dim!Mine(d)' = Dim!Mine(d)
  BY <1>2 DEF editorial, dimensions, Dim!Mine
<1>9. \A d \in Calls : pc'[d] = "done" \/ pc'[d] \in AtSeries \/ pc'[d] \in AtMapping => pc'[d] = pc[d]
  BY <1>4 DEF AtSeries, AtMapping
<1>10. ProjectionStays' /\ PlacedSoFar'
  BY <1>1, <1>2, <1>7, <1>8, <1>9 DEF ProjectionStays, PlacedSoFar
<1> QED BY <1>5, <1>6, <1>10 DEF EditorialInv

\* So does a step that changes nothing.
LEMMA StutterEditorial == EditorialInv /\ UNCHANGED vars => EditorialInv'
<1> SUFFICES ASSUME EditorialInv, UNCHANGED vars PROVE EditorialInv'
  OBVIOUS
<1>1. /\ pc' = pc /\ config' = config /\ kind' = kind /\ overlapped' = overlapped
      /\ table' = table /\ todo' = todo /\ stale' = stale /\ dirty' = dirty /\ rows' = rows
      /\ at' = at /\ datasets' = datasets /\ series' = series
  BY DEF vars, call, editorial, dimensions
<1>2. \A d : Dim!Mine(d)' = Dim!Mine(d)
  BY <1>1 DEF Dim!Mine
<1>3. EdTypes' /\ Batches'
  BY <1>1 DEF EditorialInv, EdTypes, Batches
<1>4. WrittenOnce' /\ LoneFits'
  BY <1>1 DEF EditorialInv, WrittenOnce, LoneFits, HasRead, HasWritten, Pending
<1>5. OverlapsHaveBegun' /\ ProjectionStays' /\ PlacedSoFar'
  BY <1>1, <1>2 DEF EditorialInv, OverlapsHaveBegun, ProjectionStays, PlacedSoFar, OnlyOf
<1> QED BY <1>3, <1>4, <1>5 DEF EditorialInv

\* The editorial invariant holds at every state.
THEOREM EditorialInvariant == Spec => []EditorialInv
<1>1. Init => EditorialInv
  BY InitEditorial
<1>2. MappingInv /\ EditorialInv /\ [Next]_vars => EditorialInv'
  BY BeginKeepsEditorial, EditorialInvByEditorial, DimensionsKeepEditorial, StutterEditorial DEF Next
<1> QED BY <1>1, <1>2, MappingInvariant, PTL DEF Spec

-----------------------------------------------------------------------------
(* What it comes to *)

\* The reconciliations keep their variables in their types, and the foreign
\* keys of the dimensions whole.
THEOREM TypesHold == Spec => []TypeOK
<1>1. ASSUME MappingInv, EditorialInv
      PROVE  TypeOK
  <2>1. CallTypes /\ Prerequisites /\ ClosesTheNewest /\ EdTypes
    BY <1>1 DEF MappingInv, EditorialInv
  <2>2. /\ \A key \in DOMAIN rows : rows[key].live \in BOOLEAN
        /\ \A c \in Calls : DOMAIN dirty[c] # {} => pc[c] \in Ed!EdStages
        /\ table \in [Calls -> Ed!Tables]
    BY <2>1 DEF EdTypes, EdRows
  <2>3. \A c \in Calls : row[c] = 0 \/ row[c] \in DOMAIN mappings[Dim!Mine(c).slug]
    BY <2>1 DEF ClosesTheNewest
  <2> QED BY <2>1, <2>2, <2>3 DEF TypeOK, CallTypes, Prerequisites
<1> QED BY <1>1, MappingInvariant, EditorialInvariant, PTL

\* Rows that fit a configuration without repeated keys have its entries, all of
\* them live, and no others live.
LEMMA FitHasEntries ==
  ASSUME NEW cfg \in Configs, NEW m, \A key \in DOMAIN m : key \in EdKeys,
         \A key \in EdKeys : FitsIn(cfg, key, m),
         \A t \in Ed!Tables : \A i \in Ed!Desired(cfg, t) : ~Ed!Repeats(cfg, t, i)
  PROVE  /\ \A t \in Ed!Tables : \A i \in Ed!Desired(cfg, t) :
              /\ KeyAt(cfg, t, i) \in DOMAIN m
              /\ m[KeyAt(cfg, t, i)].live
              /\ m[KeyAt(cfg, t, i)].digest = Ed!Digest(cfg[t][i])
         /\ \A key \in DOMAIN m : m[key].live =>
              /\ Ed!TableOf(key) \in Ed!Tables
              /\ \E i \in Ed!Desired(cfg, Ed!TableOf(key)) : KeyAt(cfg, Ed!TableOf(key), i) = key
<1>1. ASSUME NEW t \in Ed!Tables, NEW i \in Ed!Desired(cfg, t)
      PROVE  /\ KeyAt(cfg, t, i) \in DOMAIN m
             /\ m[KeyAt(cfg, t, i)].live
             /\ m[KeyAt(cfg, t, i)].digest = Ed!Digest(cfg[t][i])
  <2> DEFINE key == KeyAt(cfg, t, i)
  <2>1. Ed!TableOf(key) = t /\ key \in EdKeys /\ Declares(cfg, key)
    BY KeyIs
  <2>2. key \in DOMAIN m /\ Fits(cfg, key, m[key])
    BY <2>1 DEF FitsIn
  <2> QED BY <2>1, <2>2 DEF Fits
<1>2. ASSUME NEW key \in DOMAIN m, m[key].live
      PROVE  /\ Ed!TableOf(key) \in Ed!Tables
             /\ \E i \in Ed!Desired(cfg, Ed!TableOf(key)) : KeyAt(cfg, Ed!TableOf(key), i) = key
  <2>1. key \in EdKeys /\ Fits(cfg, key, m[key])
    BY DEF FitsIn
  <2>2. Declares(cfg, key)
    BY <1>2, <2>1 DEF Fits
  <2> QED BY <2>1, <2>2, KeyOf DEF Declares
<1> QED BY <1>1, <1>2

\* Such rows are the projection of the configuration, and the same reconcile
\* finds nothing to do about them.
LEMMA FitIsProjection ==
  ASSUME NEW cfg \in Configs, NEW m, \A key \in DOMAIN m : key \in EdKeys,
         \A key \in EdKeys : FitsIn(cfg, key, m),
         \A t \in Ed!Tables : \A i \in Ed!Desired(cfg, t) : ~Ed!Repeats(cfg, t, i)
  PROVE  /\ Ed!Live(m) = Ed!Projection(cfg)
         /\ \A t \in Ed!Tables : DOMAIN Ed!Writes(cfg, t, m) = {} /\ Ed!Stale(cfg, t, m) = {}
<1>1. \A t \in Ed!Tables : \A i \in Ed!Desired(cfg, t) :
        /\ KeyAt(cfg, t, i) \in DOMAIN m
        /\ m[KeyAt(cfg, t, i)].live
        /\ m[KeyAt(cfg, t, i)].digest = Ed!Digest(cfg[t][i])
  BY FitHasEntries
<1>2. \A key \in DOMAIN m : m[key].live =>
        /\ Ed!TableOf(key) \in Ed!Tables
        /\ \E i \in Ed!Desired(cfg, Ed!TableOf(key)) : KeyAt(cfg, Ed!TableOf(key), i) = key
  BY FitHasEntries
<1>3. ASSUME NEW p \in Ed!Live(m) PROVE p \in Ed!Projection(cfg)
  <2>1. PICK key \in DOMAIN m : m[key].live /\ p = <<key, m[key].digest>>
    BY DEF Ed!Live
  <2>2. PICK t \in Ed!Tables : \E i \in Ed!Desired(cfg, t) : KeyAt(cfg, t, i) = key
    BY <1>2, <2>1
  <2>3. PICK i \in Ed!Desired(cfg, t) : KeyAt(cfg, t, i) = key
    BY <2>2
  <2>4. p = <<Ed!Key(t, cfg[t][i]), Ed!Digest(cfg[t][i])>>
    BY <1>1, <2>1, <2>3 DEF KeyAt
  <2> QED BY <2>4 DEF Ed!Projection
<1>4. ASSUME NEW p \in Ed!Projection(cfg) PROVE p \in Ed!Live(m)
  <2>1. PICK t \in Ed!Tables : \E i \in Ed!Desired(cfg, t) :
          p = <<KeyAt(cfg, t, i), Ed!Digest(cfg[t][i])>>
    BY DEF Ed!Projection, KeyAt
  <2>2. PICK i \in Ed!Desired(cfg, t) : p = <<KeyAt(cfg, t, i), Ed!Digest(cfg[t][i])>>
    BY <2>1
  <2> DEFINE key == KeyAt(cfg, t, i)
  <2>3. key \in DOMAIN m /\ m[key].live /\ p = <<key, m[key].digest>>
    BY <1>1, <2>2
  <2> HIDE DEF key
  <2> QED BY <2>3 DEF Ed!Live
<1>5. ASSUME NEW t \in Ed!Tables
      PROVE  DOMAIN Ed!Writes(cfg, t, m) = {} /\ Ed!Stale(cfg, t, m) = {}
  <2>1. \A i \in Ed!Desired(cfg, t) : ~Ed!Repeats(cfg, t, i) /\ ~Ed!NeedsWrite(t, cfg[t][i], m)
    BY <1>1 DEF Ed!NeedsWrite, KeyAt
  <2>2. DOMAIN Ed!Writes(cfg, t, m) = {}
    BY <2>1 DEF Ed!Writes
  <2>3. Ed!Stale(cfg, t, m) = {}
    BY <1>2 DEF Ed!Stale, KeyAt
  <2> QED BY <2>2, <2>3
<1> QED BY <1>3, <1>4, <1>5

\* A step moves one call, and beginning does not end it.
LEMMA OneMoves ==
  ASSUME CallTypes, NEW c \in Calls, NEW d \in Calls,
         Begin(d) \/ Editorial(d) \/ Dimensions(d), pc'[c] # pc[c]
  PROVE  /\ d = c
         /\ pc'[c] \in Ended => Editorial(c) \/ Dimensions(c)
<1>1. pc = [e \in Calls |-> pc[e]]
  BY DEF CallTypes
<1>2. CASE Begin(d)
  BY <1>1, <1>2 DEF Begin, Ended
<1>3. CASE Editorial(d)
  <2>1. Moves(pc, d)
    BY <1>3, EdFrame DEF Editorial
  <2> QED BY <1>1, <1>3, <2>1 DEF Moves
<1>4. CASE Dimensions(d)
  <2>1. Moves(pc, d)
    BY <1>4, DimFrame DEF Dimensions
  <2> QED BY <1>1, <1>4, <2>1 DEF Moves
<1> QED BY <1>2, <1>3, <1>4

\* An editorial reconcile that commits leaves the dated entries of its
\* configuration live, and nothing for the same reconcile to do again, unless
\* one with another configuration overlapped it.
THEOREM ProjectsItsConfigHolds == Spec => ProjectsItsConfig
<1> DEFINE Projects(c) ==
      /\ Ed!Live(rows') = Ed!Projection(config[c])
      /\ \A t \in Ed!Tables : /\ DOMAIN Ed!Writes(config[c], t, rows') = {}
                             /\ Ed!Stale(config[c], t, rows') = {}
<1>1. ASSUME MappingInv, EditorialInv, [Next]_vars, NEW c \in Calls,
             pc[c] = "commit", pc'[c] = "done", overlapped[c] \subseteq {config[c]}
      PROVE  Projects(c)
  <2>1. CallTypes /\ EdTypes /\ Batches /\ WrittenOnce /\ LoneFits /\ config[c] \in Configs
    BY <1>1 DEF MappingInv, EditorialInv, CallTypes
  <2>2. PICK d \in Calls : Begin(d) \/ Editorial(d) \/ Dimensions(d)
    BY <1>1 DEF Next, vars, call
  <2>3. Editorial(c) \/ Dimensions(c)
    BY <1>1, <2>1, <2>2, OneMoves DEF Ended
  <2>4. Ed!EdStep(c)
    BY <1>1, <2>1, <2>3, DimFrame DEF Editorial, Dimensions, Dim!DimStages, Dim!InTransaction
  <2>5. Ed!Commit(c)
    BY <1>1, <2>1, <2>4, DoneIsCommit
  <2>6. \A key \in EdKeys : FitsIn(config[c], key, rows')
    BY <1>1, <2>1, <2>5, CommitFits
  <2>7. \A key \in DOMAIN rows' : key \in EdKeys
    BY <2>1, <2>4, RowsGrow
  <2>8. \A t \in Ed!Tables : \A i \in Ed!Desired(config[c], t) : ~Ed!Repeats(config[c], t, i)
    <3>1. \A t \in Ed!Tables : HasWritten(c, t)
      BY <1>1, <2>1 DEF EdTypes, HasWritten, Ed!Tables
    <3> QED BY <1>1, <2>1, <3>1 DEF WrittenOnce, Ed!EdStages
  <2> QED BY <2>1, <2>6, <2>7, <2>8, FitIsProjection
<1>2. MappingInv /\ EditorialInv /\ [Next]_vars =>
        [\A c \in Calls :
           /\ pc[c] = "commit" /\ pc'[c] = "done"
           /\ overlapped[c] \subseteq {config[c]}
           => Projects(c)]_vars
  <2> HIDE DEF Projects
  <2> QED BY <1>1
<1> QED BY <1>2, MappingInvariant, EditorialInvariant, PTL DEF Spec, ProjectsItsConfig

\* Entries of a valid configuration repeat no key.
LEMMA ValidRepeatsNone ==
  ASSUME NEW cfg \in Configs, Valid(cfg), NEW t \in Ed!Tables, NEW i \in Ed!Desired(cfg, t)
  PROVE  ~Ed!Repeats(cfg, t, i)
<1> SUFFICES ASSUME NEW j \in Ed!Desired(cfg, t), j < i,
                    Ed!Key(t, cfg[t][j]) = Ed!Key(t, cfg[t][i])
             PROVE  FALSE
  BY DEF Ed!Repeats
<1>1. i \in Nat /\ j \in Nat /\ i \in DOMAIN cfg[t] /\ j \in DOMAIN cfg[t]
  BY PositionsAre DEF Ed!Desired
<1>2. cfg[t][j].id = cfg[t][i].id
  BY DEF Ed!Key
<1>3. NoDuplicates(cfg[t])
  BY DEF Valid, Ed!Tables
<1>4. j = i
  BY <1>1, <1>2, <1>3 DEF NoDuplicates
<1> QED BY <1>1, <1>4

\* An editorial call is refused an entry if it repeats a key, or if another
\* call overlapped it.
LEMMA EditorialFails ==
  ASSUME CallTypes, EdTypes, Batches, NEW c \in Calls, Ed!EdStep(c), pc'[c] = "failed",
         Valid(config[c])
  PROVE  overlapped[c] # {}
<1> SUFFICES ASSUME overlapped[c] = {} PROVE FALSE
  OBVIOUS
<1>1. pc = [d \in Calls |-> pc[d]] /\ config[c] \in Configs /\ table[c] \in Ed!Tables
  BY DEF CallTypes, EdTypes
<1>2. CASE Ed!ReadTable(c) \/ Ed!WriteEntry(c) \/ Ed!AllWritten(c) \/ Ed!Retire(c)
  <2>1. pc' = pc \/ pc'[c] \in {"write", "retire"}
    BY <1>1, <1>2 DEF Ed!ReadTable, Ed!WriteEntry, Ed!AllWritten, Ed!Retire, Ed!Goto
  <2>2. pc[c] # "failed"
    BY EdFrame DEF Ed!EdStages
  <2> QED BY <2>1, <2>2
<1>3. CASE Ed!TableDone(c) \/ Ed!Commit(c) \/ Ed!EdStop(c)
  BY <1>1, <1>3 DEF Ed!TableDone, Ed!Commit, Ed!EdStop, Ed!Goto
<1>4. CASE Ed!EntryRefused(c)
  <2>1. /\ pc[c] = "write" /\ DOMAIN todo[c] # {}
        /\ \/ todo[c][Ed!Due(c)] = "duplicate"
           \/ todo[c][Ed!Due(c)] = "insert" /\ Ed!DueKey(c) \in DOMAIN rows
    BY <1>4 DEF Ed!EntryRefused
  <2>2. /\ Ed!Due(c) \in DOMAIN todo[c] /\ Ed!Due(c) \in Ed!Desired(config[c], table[c])
        /\ Ed!DueKey(c) = KeyAt(config[c], table[c], Ed!Due(c))
    BY <2>1, DueIs
  <2>3. /\ todo[c][Ed!Due(c)] = "duplicate" <=> Ed!Repeats(config[c], table[c], Ed!Due(c))
        /\ todo[c][Ed!Due(c)] = "insert" => Ed!DueKey(c) \notin DOMAIN rows
    BY <2>1, <2>2 DEF Batches
  <2>4. ~Ed!Repeats(config[c], table[c], Ed!Due(c))
    BY <1>1, <2>2, ValidRepeatsNone
  <2> QED BY <2>1, <2>3, <2>4
<1> QED BY <1>2, <1>3, <1>4 DEF Ed!EdStep

\* The dimensions are refused a row if a series names a source that is not
\* there, or if another call overlapped.
LEMMA DimensionsFail ==
  ASSUME MappingInv, NEW c \in Calls, Dim!DimStep(c), pc'[c] = "failed", Valid(config[c])
  PROVE  overlapped[c] # {}
<1> SUFFICES ASSUME overlapped[c] = {} PROVE FALSE
  OBVIOUS
<1> USE DEF Dim!Goto
<1>1. /\ CallTypes /\ Prerequisites /\ Chains /\ LoneReplaces
      /\ pc = [d \in Calls |-> pc[d]] /\ config[c] \in Configs /\ at[c] \in Nat
  BY DEF MappingInv, CallTypes
<1>2. ASSUME NEW i \in Nat, Dim!SkipTo(c, i) PROVE FALSE
  <2>1. pc'[c] \in {"dataset", "done"}
    BY <1>1, <1>2, SkipIs
  <2> QED BY <2>1
<1>3. CASE Dim!DatasetRefused(c)
  <2>1. pc[c] \in AtSeries /\ Dim!Mine(c).source \notin sources
    BY <1>3 DEF Dim!DatasetRefused, AtSeries
  <2>2. /\ config[c].sources \subseteq sources /\ IsNamed(Dim!Mine(c))
        /\ Dim!Mine(c) \in ToSet(config[c].series)
    BY <1>1, <2>1, MineIs DEF Prerequisites
  <2> QED BY <2>1, <2>2 DEF Valid, ValidSeries, IsNamed
<1>4. CASE Dim!FirstRefused(c)
  <2>1. pc[c] = "first" /\ Dim!Open(Dim!Mine(c).slug) # {}
    BY <1>4 DEF Dim!FirstRefused
  <2>2. Dim!Mine(c).slug \in Slugs /\ mappings[Dim!Mine(c).slug] = <<>>
    BY <1>1, <2>1, ActiveIs DEF LoneReplaces, AtMapping
  <2> QED BY <1>1, <2>1, <2>2, OpenIs
<1>5. CASE Dim!InsertRefused(c)
  <2>1. pc[c] = "open" /\ ~(Dim!Open(Dim!Mine(c).slug) \subseteq {row[c]})
    BY <1>5 DEF Dim!InsertRefused
  <2>2. Dim!Mine(c).slug \in Slugs /\ row[c] = Len(mappings[Dim!Mine(c).slug])
    BY <1>1, <2>1, ActiveIs DEF LoneReplaces, AtMapping
  <2> QED BY <1>1, <2>1, <2>2, OpenIs
<1>6. CASE Dim!UpsertSource(c) \/ Dim!SourcesDone(c) \/ Dim!UpsertDataset(c)
  BY <1>1, <1>2, <1>6 DEF Dim!UpsertSource, Dim!SourcesDone, Dim!UpsertDataset
<1>7. CASE Dim!UpsertSeries(c)
  BY <1>1, <1>2, <1>7 DEF Dim!UpsertSeries
<1>8. CASE Dim!ReadMapping(c)
  BY <1>1, <1>2, <1>8 DEF Dim!ReadMapping
<1>9. CASE Dim!InsertFirst(c) \/ Dim!CommitMapping(c)
  BY <1>1, <1>2, <1>9 DEF Dim!InsertFirst, Dim!CommitMapping
<1>10. CASE Dim!Close(c) \/ Dim!CloseWaited(c) \/ Dim!Insert(c) \/ Dim!DimStop(c)
  BY <1>1, <1>10 DEF Dim!Close, Dim!CloseWaited, Dim!Insert, Dim!DimStop
<1> QED BY <1>3, <1>4, <1>5, <1>6, <1>7, <1>8, <1>9, <1>10 DEF Dim!DimStep

\* A reconciliation only fails if its configuration is not valid or another
\* one of its kind overlapped it.
THEOREM FailuresExplainedHolds == Spec => FailuresExplained
<1>1. ASSUME MappingInv, EditorialInv, [Next]_vars, NEW c \in Calls,
             pc[c] # "failed", pc'[c] = "failed", Valid(config[c])
      PROVE  overlapped[c] # {}
  <2>1. CallTypes /\ EdTypes /\ Batches
    BY <1>1 DEF MappingInv, EditorialInv
  <2>2. PICK d \in Calls : Begin(d) \/ Editorial(d) \/ Dimensions(d)
    BY <1>1 DEF Next, vars, call
  <2>3. Editorial(c) \/ Dimensions(c)
    BY <1>1, <2>1, <2>2, OneMoves DEF Ended
  <2>4. CASE Editorial(c)
    BY <1>1, <2>1, <2>4, EditorialFails DEF Editorial
  <2>5. CASE Dimensions(c)
    BY <1>1, <2>5, DimensionsFail DEF Dimensions
  <2> QED BY <2>3, <2>4, <2>5
<1>2. MappingInv /\ EditorialInv /\ [Next]_vars =>
        [\A c \in Calls :
           pc[c] # "failed" /\ pc'[c] = "failed" => ~Valid(config[c]) \/ overlapped[c] # {}]_vars
  BY <1>1
<1> QED BY <1>2, MappingInvariant, EditorialInvariant, PTL DEF Spec, FailuresExplained

\* The breaks that an ingest finds for a series are those its configuration
\* declares for it, once both reconciliations have ended well.
THEOREM BreaksReachTheirSeriesHolds == Spec => []BreaksReachTheirSeries
<1>1. ASSUME MappingInv, EditorialInv, NEW cfg \in Configs,
             Valid(cfg), OneSourcePerDataset(cfg), SlugsAreUnique(cfg),
             \A c \in Calls : pc[c] = "idle" \/ config[c] = cfg,
             \A k \in Kinds : \E c \in Calls : kind[c] = k /\ pc[c] = "done",
             NEW s \in ToSet(cfg.series), s.source # Missing, s.dataset # Missing
      PROVE  ResolveActiveBreaks(s.slug) = DeclaredBreaks(cfg, s)
  <2>1. EdTypes /\ ProjectionStays /\ PlacedSoFar /\ OnlyOf(cfg) /\ Consistent(cfg)
    BY <1>1 DEF EditorialInv, OnlyOf, Consistent
  <2>2. /\ \E c \in Calls : kind[c] = "editorial" /\ pc[c] = "done"
        /\ \E c \in Calls : kind[c] = "dimensions" /\ pc[c] = "done"
    BY <1>1 DEF Kinds
  <2>3. /\ \A key \in EdKeys : FitsIn(cfg, key, rows)
        /\ PlacedBelow(series, datasets, cfg, Len(cfg.series) + 1)
    BY <2>1, <2>2 DEF ProjectionStays, PlacedSoFar
  <2>4. series[s.slug] = s.dataset /\ datasets[s.dataset] = s.source
    <3>1. PICK j \in DOMAIN cfg.series : s = cfg.series[j]
      BY DEF ToSet
    <3>2. DOMAIN cfg.series = 1..Len(cfg.series) /\ Len(cfg.series) \in Nat
      BY ConfigsAssumption, LenProperties DEF IsConfig
    <3>3. j < Len(cfg.series) + 1 /\ IsNamed(s)
      BY <1>1, <3>2 DEF IsNamed
    <3> QED BY <2>3, <3>1, <3>3 DEF PlacedBelow, PlacedIn, DatasetIn
  <2> DEFINE scopes == {<<"series", s.slug>>, <<"dataset", s.dataset>>, <<"source", s.source>>}
  <2>5. ResolveActiveBreaks(s.slug) =
          {key \in DOMAIN rows : /\ Ed!TableOf(key) = "breaks" /\ rows[key].live
                                 /\ <<key[2], key[3]>> \in scopes}
    BY <2>4 DEF ResolveActiveBreaks
  <2>6. ASSUME NEW i \in Ed!Desired(cfg, "breaks")
        PROVE  LET key == KeyAt(cfg, "breaks", i)
               IN  /\ key = Ed!Key("breaks", cfg.breaks[i])
                   /\ Covers(cfg.breaks[i], s) <=> <<key[2], key[3]>> \in scopes
    BY DEF KeyAt, Ed!Key, Covers
  <2>7. DeclaredBreaks(cfg, s) =
          {KeyAt(cfg, "breaks", i) : i \in {j \in Ed!Desired(cfg, "breaks") : Covers(cfg.breaks[j], s)}}
    BY DEF DeclaredBreaks, KeyAt
  <2> HIDE DEF scopes
  <2>8. "breaks" \in Ed!Tables
    BY DEF Ed!Tables
  <2>9. /\ \A key \in DOMAIN rows : key \in EdKeys
        /\ \A t \in Ed!Tables : \A i \in Ed!Desired(cfg, t) : ~Ed!Repeats(cfg, t, i)
    BY <1>1, <2>1, ValidRepeatsNone DEF EdTypes
  <2>10. /\ \A i \in Ed!Desired(cfg, "breaks") :
              KeyAt(cfg, "breaks", i) \in DOMAIN rows /\ rows[KeyAt(cfg, "breaks", i)].live
         /\ \A key \in DOMAIN rows : rows[key].live /\ Ed!TableOf(key) = "breaks" =>
              \E i \in Ed!Desired(cfg, "breaks") : KeyAt(cfg, "breaks", i) = key
    BY <2>3, <2>8, <2>9, FitHasEntries
  <2>11. \A i \in Ed!Desired(cfg, "breaks") : Ed!TableOf(KeyAt(cfg, "breaks", i)) = "breaks"
    BY <2>8, KeyIs
  <2>12. ASSUME NEW key \in ResolveActiveBreaks(s.slug) PROVE key \in DeclaredBreaks(cfg, s)
    <3>1. /\ key \in DOMAIN rows /\ Ed!TableOf(key) = "breaks" /\ rows[key].live
          /\ <<key[2], key[3]>> \in scopes
      BY <2>5
    <3>2. PICK i \in Ed!Desired(cfg, "breaks") : KeyAt(cfg, "breaks", i) = key
      BY <2>10, <3>1
    <3>3. Covers(cfg.breaks[i], s)
      BY <2>6, <3>1, <3>2
    <3> QED BY <2>7, <3>2, <3>3
  <2>13. ASSUME NEW key \in DeclaredBreaks(cfg, s) PROVE key \in ResolveActiveBreaks(s.slug)
    <3>1. PICK i \in Ed!Desired(cfg, "breaks") : Covers(cfg.breaks[i], s) /\ key = KeyAt(cfg, "breaks", i)
      BY <2>7
    <3>2. <<key[2], key[3]>> \in scopes
      BY <2>6, <3>1
    <3>3. key \in DOMAIN rows /\ rows[key].live /\ Ed!TableOf(key) = "breaks"
      BY <2>10, <2>11, <3>1
    <3> QED BY <2>5, <3>2, <3>3
  <2> QED BY <2>12, <2>13
<1>2. MappingInv /\ EditorialInv => BreaksReachTheirSeries
  BY <1>1 DEF BreaksReachTheirSeries
<1> QED BY <1>2, MappingInvariant, EditorialInvariant, PTL
=============================================================================
