----------------------- MODULE ObservationStoreChains -----------------------
(***************************************************************************)
(* The versions of a key are 1, ..., n at all times.  From that: the       *)
(* transactions of ObservationStore implement the atomic revisions and     *)
(* rollbacks of VintageStore, a unique violation always has a cause        *)
(* outside the call it refuses, and runs lock rows in a cycle only on a    *)
(* key with a rolled-back row.  At the end, what is left of a call shrinks  *)
(* with its statements, and some statement can always be executed.          *)
(***************************************************************************)
EXTENDS ObservationStoreProofs, SequenceTheorems, WellFoundedInduction

\* A key's rows are a chain.  The rows an operator has listed are one run's.
IsChain(k, n) == Versions(k) = 1..n
Chains == \A k \in Keys : \E n \in Nat : IsChain(k, n)
TargetsOfOneRun ==
  \A o \in Operators : \A p, q \in targets[o] : table[p].run = table[q].run

ChainInv == InductiveInvariant /\ Chains /\ TargetsOfOneRun

\* An interval and the number after it are an interval.
LEMMA OneMore ==
  ASSUME NEW n \in Nat, NEW T,
         \A v : v \in T <=> v \in 1..n \/ v = n + 1
  PROVE  T = 1..(n + 1)
<1>1. ASSUME NEW v \in T PROVE v \in 1..(n + 1)
  <2>1. v \in 1..n \/ v = n + 1
    BY <1>1
  <2>2. QED
    BY <2>1
<1>2. ASSUME NEW v \in 1..(n + 1) PROVE v \in T
  <2>1. v \in 1..n \/ v = n + 1
    BY <1>2
  <2>2. QED
    BY <2>1
<1>3. QED
  BY <1>1, <1>2

\* The latest version of a key is the end of its chain.
LEMMA LatestOfChain ==
  ASSUME NEW k, NEW n \in Nat, IsChain(k, n)
  PROVE  Latest(k) = n
<1>1. CASE n = 0
  BY <1>1 DEF Latest, IsChain
<1>2. CASE n > 0
  <2>1. n \in 1..n /\ \A u \in 1..n : u <= n
    BY <1>2
  <2>2. \A v \in 1..n : (\A u \in 1..n : u <= v) => v = n
    BY <2>1
  <2>3. Versions(k) # {}
    BY <2>1 DEF IsChain
  <2>4. Latest(k) = CHOOSE v \in 1..n : \A u \in 1..n : u <= v
    BY <2>3 DEF Latest, IsChain
  <2>5. QED
    BY <2>1, <2>2, <2>4
<1>3. QED
  BY <1>1, <1>2

\* A version of a key is one that has a row, before a step and after it.
LEMMA VersionIn ==
  ASSUME TypeInv, NEW k, NEW v
  PROVE  v \in Versions(k) <=> <<k, v>> \in DOMAIN table
<1>1. \A p \in DOMAIN table : p = <<p[1], p[2]>>
  BY DEF TypeInv, TypeOK, IsTable
<1>2. QED
  BY <1>1 DEF Versions

LEMMA VersionInNext ==
  ASSUME TypeInv', NEW k, NEW v
  PROVE  v \in Versions(k)' <=> <<k, v>> \in DOMAIN table'
<1>1. \A p \in DOMAIN table' : p = <<p[1], p[2]>>
  BY DEF TypeInv, TypeOK, IsTable
<1>2. QED
  BY <1>1 DEF Versions

\* With no gap below it, the row before a missing one is the end of the chain.
LEMMA ChainEnd ==
  ASSUME TypeInv, NEW k \in Keys, NEW n \in Nat,
         n > 0 => <<k, n>> \in DOMAIN table,
         <<k, n + 1>> \notin DOMAIN table
  PROVE  IsChain(k, n)
<1>1. ASSUME NEW v \in Versions(k) PROVE v \in 1..n
  <2>1. <<k, v>> \in DOMAIN table /\ v \in Version
    BY <1>1, VersionIn DEF TypeInv, TypeOK, IsTable
  <2>2. CASE v > n
    <3>1. n + 1 \in 1..v
      BY <2>1, <2>2 DEF Version
    <3>2. <<k, n + 1>> \in DOMAIN table
      BY <2>1, <3>1 DEF TypeInv, Shape, NoGap
    <3>3. QED
      BY <3>2
  <2>3. QED
    BY <2>1, <2>2 DEF Version
<1>2. ASSUME NEW v \in 1..n PROVE v \in Versions(k)
  <2>1. <<k, n>> \in DOMAIN table
    BY <1>2
  <2>2. <<k, v>> \in DOMAIN table
    BY <1>2, <2>1 DEF TypeInv, Shape, NoGap
  <2>3. QED
    BY <2>2, VersionIn
<1>3. QED
  BY <1>1, <1>2 DEF IsChain

-----------------------------------------------------------------------------
(* What a commit does to the table *)

\* The row an INSERT of run r writes.
NewRow(c, r) == [content |-> c, run |-> r, current |-> TRUE,
                 superseded |-> FALSE, rolledBack |-> FALSE]

\* A run at its commit adds the row after its target, which is the published
\* one and the last, or the first row of a key that has none.
LEMMA RunCommit ==
  ASSUME InductiveInvariant, NEW r \in Runs, pc[r] = "commit",
         NEW k \in Keys, NEW n \in Nat, target[r] = <<k, n>>
  PROVE  /\ input[r] \in Contents
         /\ DOMAIN View(r) = DOMAIN table \cup {<<k, n + 1>>}
         /\ <<k, n + 1>> \notin DOMAIN table
         /\ IsChain(k, n)
         /\ n > 0 => /\ <<k, n>> \in DOMAIN table
                     /\ table[<<k, n>>].current
                     /\ table[<<k, n>>].content # input[r]
         /\ View(r)[<<k, n + 1>>] = NewRow(input[r], r)
<1> DEFINE t == target[r]
<1>1. /\ t \in Keys \X Nat /\ input[r] \in Contents /\ t = <<k, n>>
      /\ n > 0 => t \in DOMAIN table
      /\ DOMAIN dirty[r] \subseteq {t, <<k, n + 1>>}
      /\ IsTable(dirty[r])
  BY DEF InductiveInvariant, TypeInv, TypeOK, Shape, RunShape, Sessions, NextRow
<1>2. /\ <<k, n + 1>> \in DOMAIN dirty[r] /\ <<k, n + 1>> \notin DOMAIN table
      /\ dirty[r][<<k, n + 1>>] = NewRow(input[r], r)
      /\ n > 0 => table[t].current /\ table[t].content # input[r]
  BY DEF InductiveInvariant, PubInv, RunPub, NextRow, NewRow
<1>3. n = 0 => t \notin DOMAIN dirty[r]
  BY <1>1 DEF IsTable, Version
<1>4. IsChain(k, n)
  BY <1>1, <1>2, ChainEnd DEF InductiveInvariant
<1>5. DOMAIN View(r) = DOMAIN dirty[r] \cup DOMAIN table
  BY DEF View, Overlay
<1>6. DOMAIN View(r) = DOMAIN table \cup {<<k, n + 1>>}
  BY <1>1, <1>2, <1>3, <1>5
<1>7. View(r)[<<k, n + 1>>] = dirty[r][<<k, n + 1>>]
  BY <1>2 DEF View, Overlay
<1>8. QED
  BY <1>1, <1>2, <1>4, <1>6, <1>7

\* A run's commit leaves every row but its target as it was.
LEMMA RunCommitOthers ==
  ASSUME InductiveInvariant, NEW r \in Runs, pc[r] = "commit",
         NEW p \in DOMAIN table, p # target[r]
  PROVE  View(r)[p] = table[p]
<1>1. p \notin DOMAIN dirty[r]
  BY DEF InductiveInvariant, TypeInv, Shape, RunShape, PubInv, RunPub, NextRow
<1>2. QED
  BY <1>1 DEF View, Overlay

\* An operator's commit adds no row.
LEMMA OperatorCommitDomain ==
  ASSUME InductiveInvariant, NEW o \in Operators, table' = View(o)
  PROVE  DOMAIN table' = DOMAIN table
BY DEF InductiveInvariant, TypeInv, Shape, OperatorShape, View, Overlay

\* No commit alters the content or the run of a row.
LEMMA CommitsPreserve ==
  ASSUME InductiveInvariant, [Next]_vars
  PROVE  Preserves(table, table')
<1>1. CASE table' = table
  BY <1>1 DEF Preserves
<1>2. CASE table' # table
  <2>1. PICK s \in Sessions : pc[s] = "commit" /\ table' = View(s)
    BY <1>2, TableChanges
  <2>2. QED
    BY <2>1, CommitRows DEF InductiveInvariant
<1>3. QED
  BY <1>1, <1>2

\* No step leaves a gap in the versions of a key.
LEMMA NextChains ==
  ASSUME InductiveInvariant, Chains, [Next]_vars
  PROVE  Chains'
<1>0. TypeInv /\ TypeInv'
  BY NextTypeInv DEF InductiveInvariant
<1>1. CASE table' = table
  BY <1>1 DEF Chains, IsChain, Versions
<1>2. CASE table' # table
  <2>1. PICK s \in Sessions : pc[s] = "commit" /\ table' = View(s)
    BY <1>2, TableChanges
  <2>2. CASE s \in Operators
    <3>1. DOMAIN table' = DOMAIN table
      BY <2>1, <2>2, OperatorCommitDomain
    <3>2. QED
      BY <3>1 DEF Chains, IsChain, Versions
  <2>3. CASE s \in Runs
    <3>0. PICK k \in Keys, n \in Nat : target[s] = <<k, n>>
      BY <2>1, <2>3 DEF InductiveInvariant, TypeInv, Shape, RunShape
    <3>1. /\ DOMAIN table' = DOMAIN table \cup {<<k, n + 1>>}
          /\ IsChain(k, n)
      BY <2>1, <2>3, <3>0, RunCommit
    <3>2. IsChain(k, n + 1)'
      <4>1. ASSUME NEW v
            PROVE  v \in Versions(k)' <=> v \in Versions(k) \/ v = n + 1
        <5>1. v \in Versions(k)' <=> <<k, v>> \in DOMAIN table'
          BY <1>0, VersionInNext
        <5>2. v \in Versions(k) <=> <<k, v>> \in DOMAIN table
          BY <1>0, VersionIn
        <5>3. <<k, v>> \in DOMAIN table' <=>
                <<k, v>> \in DOMAIN table \/ v = n + 1
          BY <3>1
        <5>4. QED
          BY <5>1, <5>2, <5>3
      <4>2. \A v : v \in Versions(k)' <=> v \in 1..n \/ v = n + 1
        BY <3>1, <4>1, Zenon DEF IsChain
      <4>3. Versions(k)' = 1..(n + 1)
        BY <3>0, <4>2, OneMore
      <4>4. QED
        BY <4>3, Zenon DEF IsChain
    <3>4. ASSUME NEW j \in Keys, j # k 
          PROVE  \A m : IsChain(j, m)' <=> IsChain(j, m)
      BY <3>1, <3>4 DEF Versions, IsChain
    <3>5. QED
      BY <3>0, <3>2, <3>4 DEF Chains
  <2>4. QED
    BY <2>1, <2>2, <2>3 DEF Sessions
<1>3. QED
  BY <1>1, <1>2

\* No step makes an operator list rows of different runs.
LEMMA NextTargetsOfOneRun ==
  ASSUME InductiveInvariant, TargetsOfOneRun, [Next]_vars
  PROVE  TargetsOfOneRun'
<1>1. SUFFICES ASSUME NEW o \in Operators,
                      NEW p \in targets'[o], NEW q \in targets'[o]
               PROVE  table'[p].run = table'[q].run
  BY DEF TargetsOfOneRun
<1>2. o \in Sessions /\ DOMAIN targets = Sessions
  BY DEF InductiveInvariant, TypeInv, TypeOK, Sessions
<1>3. CASE \E r \in Runs : SelectTargets(o, r)
  <2>1. PICK r \in Runs : SelectTargets(o, r)
    BY <1>3
  <2>2. targets'[o] =
          {w \in DOMAIN table : table[w].current /\ table[w].run = r}
    BY <2>1, <1>2 DEF SelectTargets
  <2>3. table' = table
    BY <2>1 DEF SelectTargets
  <2>4. QED
    BY <1>1, <2>2, <2>3
<1>4. CASE ~ \E r \in Runs : SelectTargets(o, r)
  <2>1. targets'[o] \subseteq targets[o]
    BY <1>2, <1>4
       DEF Next, vars, Statement, WriteUnchanged, ReadCurrent, SelectTargets,
           Demote, Insert, RbDemote, RbPromote, NoPrior, UniqueViolation, Lose,
           DeadlockVictim, Commit, CommitUnacknowledged, End
  <2>2. p \in targets[o] /\ q \in targets[o]
    BY <1>1, <2>1
  <2>3. p \in DOMAIN table /\ q \in DOMAIN table
    BY <2>2 DEF InductiveInvariant, TypeInv, Shape, OperatorShape
  <2>4. Preserves(table, table')
    BY CommitsPreserve
  <2>5. QED
    BY <2>2, <2>3, <2>4 DEF Preserves, TargetsOfOneRun
<1>5. QED
  BY <1>3, <1>4

\* The versions of every key are 1, ..., n for some n.
THEOREM ChainInvariant == Spec => []ChainInv
<1>1. Init => ChainInv
  <2>1. Init => InductiveInvariant
    BY InitTypeInv, InitPubInv DEF InductiveInvariant
  <2>2. ASSUME Init PROVE Chains
    <3>1. 1..0 = {} /\ 0 \in Nat
      OBVIOUS
    <3>2. \A k \in Keys : Versions(k) = {}
      BY <2>2 DEF Init, NoRows, Versions
    <3>3. QED
      BY <3>1, <3>2 DEF Chains, IsChain
  <2>3. Init => TargetsOfOneRun
    BY DEF Init, TargetsOfOneRun, Sessions
  <2>4. QED
    BY <2>1, <2>2, <2>3 DEF ChainInv
<1>2. ChainInv /\ [Next]_vars => ChainInv'
  BY NextTypeInv, NextPubInv, NextChains, NextTargetsOfOneRun
     DEF ChainInv, InductiveInvariant
<1>3. QED
  BY <1>1, <1>2, PTL DEF Spec

-----------------------------------------------------------------------------
(* The refinement.  The vintages of a key are its rows in order, and as    *)
(* many of them stand as the version number of the published row.          *)

VintageOf(row) == [content |-> row.content, run |-> row.run]
Vintages(f, k, n) == [v \in 1..n |-> VintageOf(f[<<k, v>>])]

\* What a row says is a vintage of the abstract store.
LEMMA VintageOfRow ==
  ASSUME NEW row \in Row
  PROVE  VintageOf(row) \in Store!Vintage
BY DEF Row, VintageOf, Store!Vintage

\* The greatest number of an interval is its end.
LEMMA GreatestOfInterval ==
  ASSUME NEW n \in Nat, n > 0
  PROVE  (CHOOSE v \in 1..n : \A u \in 1..n : u <= v) = n
<1>1. n \in 1..n /\ \A u \in 1..n : u <= n
  OBVIOUS
<1>2. \A v \in 1..n : (\A u \in 1..n : u <= v) => v = n
  BY <1>1
<1>3. QED
  BY <1>1, <1>2

\* LatestOfChain, after a step.
LEMMA LatestNext ==
  ASSUME NEW k, NEW n \in Nat, IsChain(k, n)'
  PROVE  Latest(k)' = n
<1>1. CASE n = 0
  BY <1>1 DEF Latest, IsChain
<1>2. CASE n > 0
  <2>1. Versions(k)' # {}
    <3>1. n \in 1..n
      BY <1>2
    <3>2. QED
      BY <3>1 DEF IsChain
  <2>2. Latest(k)' = CHOOSE v \in 1..n : \A u \in 1..n : u <= v
    BY <2>1 DEF Latest, IsChain
  <2>3. QED
    BY <1>2, <2>2, GreatestOfInterval
<1>3. QED
  BY <1>1, <1>2

\* The vintages of a key are a sequence with one of them for each version.
LEMMA VintagesIsSeq ==
  ASSUME NEW f, IsTable(f), NEW k, NEW n \in Nat,
         \A v \in 1..n : <<k, v>> \in DOMAIN f
  PROVE  /\ Vintages(f, k, n) \in Seq(Store!Vintage)
         /\ Len(Vintages(f, k, n)) = n
         /\ \A v \in 1..n : Vintages(f, k, n)[v] = VintageOf(f[<<k, v>>])
<1> DEFINE s == Vintages(f, k, n)
<1>1. ASSUME NEW v \in 1..n PROVE VintageOf(f[<<k, v>>]) \in Store!Vintage
  BY <1>1, VintageOfRow DEF IsTable
<1>2. s \in [1..n -> Store!Vintage]
  BY <1>1 DEF Vintages
<1>3. /\ DOMAIN s = 1..n
      /\ \A v \in 1..n : s[v] = VintageOf(f[<<k, v>>])
  BY DEF Vintages
<1> HIDE DEF s
<1>4. s \in Seq(Store!Vintage)
  <2>1. [1..n -> Store!Vintage] \in {[1..m -> Store!Vintage] : m \in Nat}
    OBVIOUS
  <2>2. Seq(Store!Vintage) = UNION {[1..m -> Store!Vintage] : m \in Nat}
    BY SeqDef
  <2>3. QED
    BY <1>2, <2>1, <2>2
<1>5. Len(s) = n
  BY <1>3, <1>4, LenProperties
<1>6. QED
  BY <1>3, <1>4, <1>5 DEF s

\* Two tables that say the same of the rows of a key have the same vintages,
\* and one with a row more has that vintage more.
LEMMA VintagesEqual ==
  ASSUME NEW f, NEW g, NEW k, NEW n,
         \A v \in 1..n : VintageOf(g[<<k, v>>]) = VintageOf(f[<<k, v>>])
  PROVE  Vintages(g, k, n) = Vintages(f, k, n)
BY DEF Vintages

OneRowMore(f, g, k, n) ==
  /\ \A v \in 1..n : <<k, v>> \in DOMAIN f
  /\ \A v \in 1..(n + 1) : <<k, v>> \in DOMAIN g
  /\ \A v \in 1..n : VintageOf(g[<<k, v>>]) = VintageOf(f[<<k, v>>])

\* A row more is a vintage more.
LEMMA VintagesAppend ==
  ASSUME NEW f, NEW g, IsTable(f), IsTable(g), NEW k, NEW n \in Nat,
         OneRowMore(f, g, k, n)
  PROVE  Vintages(g, k, n + 1) =
           Append(Vintages(f, k, n), VintageOf(g[<<k, n + 1>>]))
<1> DEFINE s == Vintages(f, k, n)
           t == Vintages(g, k, n + 1)
           e == VintageOf(g[<<k, n + 1>>])
<1>0. /\ \A v \in 1..n : <<k, v>> \in DOMAIN f
      /\ \A v \in 1..(n + 1) : <<k, v>> \in DOMAIN g
      /\ \A v \in 1..n : VintageOf(g[<<k, v>>]) = VintageOf(f[<<k, v>>])
  BY DEF OneRowMore
<1>1. /\ s \in Seq(Store!Vintage) /\ Len(s) = n
      /\ \A v \in 1..n : s[v] = VintageOf(f[<<k, v>>])
  BY <1>0, VintagesIsSeq
<1>2. /\ t \in Seq(Store!Vintage) /\ Len(t) = n + 1
      /\ \A v \in 1..(n + 1) : t[v] = VintageOf(g[<<k, v>>])
  <2>1. n + 1 \in Nat
    OBVIOUS
  <2> DEFINE m == n + 1
  <2> HIDE DEF m
  <2>2. m \in Nat /\ \A v \in 1..m : <<k, v>> \in DOMAIN g
    BY <1>0, <2>1 DEF m
  <2>3. /\ Vintages(g, k, m) \in Seq(Store!Vintage)
        /\ Len(Vintages(g, k, m)) = m
        /\ \A v \in 1..m : Vintages(g, k, m)[v] = VintageOf(g[<<k, v>>])
    BY <2>2, VintagesIsSeq
  <2>4. QED
    BY <2>3 DEF m
<1>3. e \in Store!Vintage
  <2>1. n + 1 \in 1..(n + 1)
    OBVIOUS
  <2>2. QED
    BY <1>0, <2>1, VintageOfRow DEF IsTable
<1> HIDE DEF s, t, e
<1>4. /\ Append(s, e) \in Seq(Store!Vintage) /\ Len(Append(s, e)) = n + 1
      /\ \A i \in 1..n : Append(s, e)[i] = s[i]
      /\ Append(s, e)[n + 1] = e
  BY <1>1, <1>3, AppendProperties
<1>5. ASSUME NEW i \in 1..(n + 1) PROVE t[i] = Append(s, e)[i]
  <2>1. CASE i \in 1..n
    <3>1. t[i] = VintageOf(g[<<k, i>>]) /\ s[i] = VintageOf(f[<<k, i>>])
      BY <1>1, <1>2, <1>5, <2>1
    <3>2. Append(s, e)[i] = s[i]
      BY <1>4, <2>1
    <3>3. QED
      BY <1>0, <2>1, <3>1, <3>2
  <2>2. CASE i = n + 1
    <3>1. t[n + 1] = e
      BY <1>2, <1>5, <2>2 DEF e
    <3>2. QED
      BY <1>4, <2>2, <3>1
  <2>3. i \in 1..n \/ i = n + 1
    BY <1>5
  <2>4. QED
    BY <2>1, <2>2, <2>3
<1>6. t = Append(s, e)
  BY <1>2, <1>4, <1>5, SeqEqual
<1>7. QED
  BY <1>6 DEF s, t, e

\* The mapping at a key whose chain has n rows, before a step and after it.
LEMMA ChainAt ==
  ASSUME NEW k \in Keys, NEW n \in Nat, IsChain(k, n)
  PROVE  Chain[k] = Vintages(table, k, n)
<1>1. Latest(k) = n
  BY LatestOfChain
<1>2. QED
  BY <1>1 DEF Chain, Vintages, VintageOf

\* ChainAt, after a step.
LEMMA ChainNext ==
  ASSUME NEW k \in Keys, NEW n \in Nat, IsChain(k, n)'
  PROVE  Chain'[k] = Vintages(table', k, n)
<1>1. Latest(k)' = n
  BY LatestNext
<1>2. QED
  BY <1>1 DEF Chain, Vintages, VintageOf

\* The rows of a key are those of its chain, before a step and after it.
LEMMA ChainRows ==
  ASSUME TypeInv, NEW k \in Keys, NEW n \in Nat, IsChain(k, n)
  PROVE  \A v : <<k, v>> \in DOMAIN table <=> v \in 1..n
<1>1. ASSUME NEW v PROVE <<k, v>> \in DOMAIN table <=> v \in Versions(k)
  BY VersionIn
<1>2. QED
  BY <1>1, Zenon DEF IsChain

LEMMA ChainRowsNext ==
  ASSUME TypeInv', NEW k \in Keys, NEW n \in Nat, IsChain(k, n)'
  PROVE  \A v : <<k, v>> \in DOMAIN table' <=> v \in 1..n
<1>1. ASSUME NEW v PROVE <<k, v>> \in DOMAIN table' <=> v \in Versions(k)'
  BY VersionInNext
<1>2. QED
  BY <1>1, Zenon DEF IsChain

\* A step leaves the vintages of a key alone when it leaves its rows alone.
LEMMA KeyUntouched ==
  ASSUME TypeInv, Chains, NEW k \in Keys,
         \A p : p[1] = k => (p \in DOMAIN table' <=> p \in DOMAIN table),
         \A p \in DOMAIN table : p[1] = k => table'[p] = table[p]
  PROVE  Chain'[k] = Chain[k] /\ Standing'[k] = Standing[k]
<1>1. PICK n \in Nat : IsChain(k, n)
  BY DEF Chains
<1>2. Versions(k)' = Versions(k) /\ CurrentRows(k)' = CurrentRows(k)
  BY DEF Versions, CurrentRows
<1>3. Standing'[k] = Standing[k]
  BY <1>2 DEF Published, Standing
<1>4. IsChain(k, n)'
  BY <1>1, <1>2 DEF IsChain
<1>5. ASSUME NEW v \in 1..n
      PROVE  VintageOf(table'[<<k, v>>]) = VintageOf(table[<<k, v>>])
  <2>1. <<k, v>> \in DOMAIN table
    BY <1>1, <1>5, ChainRows
  <2>2. QED
    BY <2>1
<1>6. Vintages(table', k, n) = Vintages(table, k, n)
  BY <1>5, VintagesEqual
<1>7. QED
  BY <1>1, <1>3, <1>4, <1>6, ChainAt, ChainNext

\* The published version of a key is that of its current row.
LEMMA PublishedIs ==
  ASSUME InductiveInvariant, NEW p \in DOMAIN table, table[p].current
  PROVE  CurrentRows(p[1]) = {p} /\ Published(p[1]) = p[2]
<1>1. CurrentRows(p[1]) = {p}
  BY DEF InductiveInvariant, PubInv, TablePublished, OneCurrent, CurrentRows
<1>2. QED
  BY <1>1 DEF Published

\* PublishedIs, after a step.
LEMMA PublishedNext ==
  ASSUME InductiveInvariant', NEW p \in DOMAIN table', table'[p].current
  PROVE  Published(p[1])' = p[2]
<1>1. CurrentRows(p[1])' = {p}
  BY DEF InductiveInvariant, PubInv, TablePublished, OneCurrent, CurrentRows
<1>2. QED
  BY <1>1 DEF Published

\* A key without rows has nothing published.
LEMMA NothingPublished ==
  ASSUME TypeInv, NEW k \in Keys, IsChain(k, 0)
  PROVE  CurrentRows(k) = {} /\ Published(k) = 0
<1>1. \A v : <<k, v>> \notin DOMAIN table
  <2>1. 1..0 = {} /\ 0 \in Nat
    OBVIOUS
  <2>2. QED
    BY <2>1, ChainRows
<1>2. \A p \in DOMAIN table : p = <<p[1], p[2]>>
  BY DEF TypeInv, TypeOK, IsTable
<1>3. CurrentRows(k) = {}
  BY <1>1, <1>2 DEF CurrentRows
<1>4. QED
  BY <1>3 DEF Published

-----------------------------------------------------------------------------

\* The commit of a run is one revision of its key.
LEMMA RunCommitRevises ==
  ASSUME ChainInv, ChainInv', NEW r \in Runs, pc[r] = "commit",
         table' = View(r)
  PROVE  Store!Revise(target[r][1], input[r], r)
<1>1. InductiveInvariant /\ TypeInv /\ TypeInv' /\ Chains /\ Chains'
  BY DEF ChainInv, InductiveInvariant
<1>2. PICK k \in Keys, n \in Nat : target[r] = <<k, n>>
  BY <1>1 DEF TypeInv, Shape, RunShape
<1> DEFINE new == <<k, n + 1>>
           e == [content |-> input[r], run |-> r]
<1>3. /\ input[r] \in Contents
      /\ DOMAIN View(r) = DOMAIN table \cup {new}
      /\ new \notin DOMAIN table
      /\ IsChain(k, n)
      /\ n > 0 => /\ <<k, n>> \in DOMAIN table
                  /\ table[<<k, n>>].current
                  /\ table[<<k, n>>].content # input[r]
      /\ View(r)[new] = NewRow(input[r], r)
  <2>1. /\ input[r] \in Contents
        /\ DOMAIN View(r) = DOMAIN table \cup {<<k, n + 1>>}
        /\ <<k, n + 1>> \notin DOMAIN table
        /\ IsChain(k, n)
        /\ n > 0 => /\ <<k, n>> \in DOMAIN table
                    /\ table[<<k, n>>].current
                    /\ table[<<k, n>>].content # input[r]
        /\ View(r)[<<k, n + 1>>] = NewRow(input[r], r)
    <3> HIDE DEF new, e
    <3> QED BY ONLY <1>1, <1>2, pc[r] = "commit", RunCommit
  <2>2. QED
    BY <2>1
<1>4. Preserves(table, table')
  BY <1>1, CommitRows DEF InductiveInvariant, Sessions
<1>5. Published(k) = n
  <2>1. CASE n = 0
    BY <1>1, <1>2, <1>3, <2>1, NothingPublished
  <2>2. CASE n > 0
    BY <1>1, <1>3, <2>2, PublishedIs
  <2>3. QED
    BY <1>2, <2>1, <2>2
<1>6. Published(k)' = n + 1
  <2>1. new \in DOMAIN table' /\ table'[new].current
    BY <1>3 DEF NewRow
  <2>2. QED
    BY <1>1, <2>1, PublishedNext DEF ChainInv
<1>7. IsChain(k, n + 1)'
  <2>1. PICK m \in Nat : IsChain(k, m)'
    BY <1>1, <1>2 DEF Chains
  <2>2. \A v : <<k, v>> \in DOMAIN table' <=> v \in 1..m
    BY <1>1, <1>2, <2>1, ChainRowsNext
  <2>3. \A v : <<k, v>> \in DOMAIN table <=> v \in 1..n
    BY <1>1, <1>2, <1>3, ChainRows
  <2>4. n + 1 \in 1..m
    BY <1>3, <2>2
  <2>5. ASSUME m > n + 1 PROVE FALSE
    <3>1. n + 2 \in 1..m /\ n + 2 \notin 1..n /\ n + 2 # n + 1
      BY <1>2, <2>1, <2>5
    <3>2. <<k, n + 2>> \in DOMAIN table' /\ <<k, n + 2>> \notin DOMAIN table
      BY <2>2, <2>3, <3>1
    <3>3. <<k, n + 2>> = new
      BY <1>3, <3>2
    <3>4. QED
      BY <3>1, <3>3
  <2>6. m = n + 1
    BY <1>2, <2>1, <2>4, <2>5
  <2>7. QED
    BY <2>1, <2>6
<1>8. Chain[k] = Vintages(table, k, n) /\ Chain'[k] = Vintages(table', k, n + 1)
  <2>1. n + 1 \in Nat
    BY <1>2
  <2>2. QED
    BY <1>2, <1>3, <1>7, <2>1, ChainAt, ChainNext
<1>9. Chain'[k] = Append(Chain[k], e) /\ Len(Chain[k]) = n
  <2>1. IsTable(table) /\ IsTable(table')
    BY <1>1 DEF TypeInv, TypeOK, IsTable
  <2>2. \A v \in 1..n : <<k, v>> \in DOMAIN table
    BY <1>1, <1>2, <1>3, ChainRows
  <2>3. \A v \in 1..(n + 1) : <<k, v>> \in DOMAIN table'
    <3>1. \A v \in 1..(n + 1) : v \in 1..n \/ v = n + 1
      BY <1>2
    <3>2. QED
      BY <1>3, <2>2, <3>1
  <2>4. ASSUME NEW v \in 1..n
        PROVE  VintageOf(table'[<<k, v>>]) = VintageOf(table[<<k, v>>])
    BY <1>4, <2>2, <2>4 DEF Preserves, VintageOf
  <2>5. Len(Vintages(table, k, n)) = n
    BY <1>2, <2>1, <2>2, VintagesIsSeq
  <2>6. Vintages(table', k, n + 1) =
          Append(Vintages(table, k, n), VintageOf(table'[<<k, n + 1>>]))
    <3>1. OneRowMore(table, table', k, n)
      BY <2>2, <2>3, <2>4 DEF OneRowMore
    <3>2. QED
      BY <1>2, <2>1, <3>1, VintagesAppend
  <2>7. VintageOf(table'[<<k, n + 1>>]) = e
    BY <1>3 DEF VintageOf, NewRow
  <2>8. QED
    BY <1>8, <2>5, <2>6, <2>7
<1>10. n > 0 => Chain[k][n].content # input[r]
  <2>1. SUFFICES ASSUME n > 0 PROVE Chain[k][n].content # input[r]
    OBVIOUS
  <2>2. n \in 1..n
    BY <1>2, <2>1
  <2>3. Vintages(table, k, n)[n] = VintageOf(table[<<k, n>>])
    BY <2>2 DEF Vintages
  <2>4. QED
    BY <1>3, <1>8, <2>1, <2>3 DEF VintageOf
<1>11. ASSUME NEW j \in Keys, j # k
       PROVE  Chain'[j] = Chain[j] /\ Standing'[j] = Standing[j]
  <2>1. \A p : p[1] = j => (p \in DOMAIN table' <=> p \in DOMAIN table)
    BY <1>3, <1>11
  <2>2. \A p \in DOMAIN table : p[1] = j => table'[p] = table[p]
    BY <1>1, <1>2, <1>11, RunCommitOthers
  <2>3. QED
    BY <1>1, <2>1, <2>2, KeyUntouched
<1>12. Chain' = [Chain EXCEPT ![k] = Append(@, e)]
  BY <1>9, <1>11 DEF Chain
<1>13. Standing[k] = n /\ Standing' = [Standing EXCEPT ![k] = @ + 1]
  <2>1. Standing[k] = n /\ Standing'[k] = n + 1
    BY <1>5, <1>6 DEF Standing
  <2>2. QED
    BY <1>11, <2>1 DEF Standing
<1>14. Store!Revise(k, input[r], r)
  BY <1>9, <1>10, <1>12, <1>13 DEF Store!Revise
<1>15. QED
  BY <1>2, <1>14

-----------------------------------------------------------------------------

\* What the commit of an operator does to the rows it listed and to others.
LEMMA OperatorCommit ==
  ASSUME InductiveInvariant, NEW o \in Operators, pc[o] = "commit",
         NEW p \in targets[o]
  PROVE  /\ p \in Keys \X Version /\ p[2] > 1 /\ p \in DOMAIN table
         /\ PriorRow(p) \in DOMAIN table
         /\ View(o)[PriorRow(p)].current
         /\ table[p].current \/ table[PriorRow(p)].current
<1>1. /\ p \in DOMAIN dirty[o] /\ p[2] > 1
      /\ PriorRow(p) \in DOMAIN dirty[o]
      /\ dirty[o][PriorRow(p)] = Restored(table[PriorRow(p)])
      /\ table[p].current \/ table[PriorRow(p)].current
  BY DEF InductiveInvariant, PubInv, OperatorPub
<1>2. p \in DOMAIN table /\ PriorRow(p) \in DOMAIN table
  BY <1>1 DEF InductiveInvariant, TypeInv, Shape, OperatorShape
<1>3. p \in Keys \X Version /\ table[PriorRow(p)] \in Row
  BY <1>2 DEF InductiveInvariant, TypeInv, TypeOK, IsTable
<1>4. View(o)[PriorRow(p)] = Restored(table[PriorRow(p)])
  BY <1>1 DEF View, Overlay
<1>5. QED
  BY <1>1, <1>2, <1>3, <1>4, ImageFields

\* An operator's commit leaves the keys it has not listed alone.
LEMMA OperatorCommitOthers ==
  ASSUME InductiveInvariant, NEW o \in Operators, NEW q \in DOMAIN table,
         \A p \in targets[o] : p[1] # q[1]
  PROVE  View(o)[q] = table[q]
<1>1. q \notin DOMAIN dirty[o]
  BY DEF InductiveInvariant, PubInv, OperatorPub, PriorRow
<1>2. QED
  BY <1>1 DEF View, Overlay

\* The published version of the key of a listed row, around the commit: a row
\* that another rollback of the run has refused already stays refused.
LEMMA OperatorCommitStanding ==
  ASSUME InductiveInvariant, InductiveInvariant', NEW o \in Operators,
         pc[o] = "commit", table' = View(o), NEW p \in targets[o]
  PROVE  /\ Published(p[1])' = p[2] - 1
         /\ table[p].current => Published(p[1]) = p[2]
         /\ ~table[p].current => Published(p[1]) = p[2] - 1
<1> DEFINE q == PriorRow(p)
<1>1. /\ p \in DOMAIN table /\ q \in DOMAIN table
      /\ View(o)[q].current
      /\ table[p].current \/ table[q].current
  BY OperatorCommit
<1>2. q[1] = p[1] /\ q[2] = p[2] - 1
  BY DEF PriorRow
<1>3. q \in DOMAIN table' /\ table'[q].current
  BY <1>1, OperatorCommitDomain
<1> HIDE DEF q
<1>4. Published(q[1])' = q[2]
  BY <1>3, PublishedNext
<1>5. table[p].current => Published(p[1]) = p[2]
  BY <1>1, PublishedIs
<1>6. table[q].current => Published(q[1]) = q[2]
  BY <1>1, PublishedIs
<1>7. QED
  BY <1>1, <1>2, <1>4, <1>5, <1>6

\* The commit of an operator changes no chain, and is one rollback of a run,
\* or of nothing when another rollback has refused all its rows already.
LEMMA OperatorCommitRollsBack ==
  ASSUME ChainInv, ChainInv', NEW o \in Operators, pc[o] = "commit",
         table' = View(o)
  PROVE  /\ Chain' = Chain
         /\ \/ Standing' = Standing
            \/ \E r \in Runs, K \in SUBSET Keys : Store!RollBack(r, K)
<1>1. /\ InductiveInvariant /\ InductiveInvariant' /\ TypeInv /\ TypeInv'
      /\ Chains /\ TargetsOfOneRun
  BY DEF ChainInv, InductiveInvariant
<1>2. DOMAIN table' = DOMAIN table
  BY <1>1, OperatorCommitDomain
<1>3. Chain' = Chain
  <2>1. ASSUME NEW k \in Keys PROVE Chain'[k] = Chain[k]
    <3>1. PICK n \in Nat : IsChain(k, n)
      BY <1>1, <2>1 DEF Chains
    <3>2. IsChain(k, n)'
      BY <1>2, <3>1 DEF IsChain, Versions
    <3>3. Preserves(table, table')
      BY <1>1, CommitRows DEF InductiveInvariant, Sessions
    <3>4. ASSUME NEW v \in 1..n
          PROVE  VintageOf(table'[<<k, v>>]) = VintageOf(table[<<k, v>>])
      <4>1. <<k, v>> \in DOMAIN table
        BY <1>1, <3>1, <3>4, ChainRows
      <4>2. QED
        BY <3>3, <4>1 DEF Preserves, VintageOf
    <3>5. Vintages(table', k, n) = Vintages(table, k, n)
      BY <3>4, VintagesEqual
    <3>6. QED
      BY <3>1, <3>2, <3>5, ChainAt, ChainNext
  <2>2. QED
    BY <2>1 DEF Chain
<1> DEFINE K == {k \in Keys : \E p \in targets[o] :
                   p[1] = k /\ table[p].current}
<1>4. ASSUME NEW k \in Keys, k \notin K PROVE Published(k)' = Published(k)
  <2>1. CASE \E p \in targets[o] : p[1] = k
    <3>1. PICK p \in targets[o] : p[1] = k
      BY <2>1
    <3>2. ~table[p].current
      BY <1>4, <3>1
    <3>3. QED
      BY <1>1, <3>1, <3>2, OperatorCommitStanding
  <2>2. CASE ~ \E p \in targets[o] : p[1] = k
    <3>1. \A p \in DOMAIN table : p[1] = k => table'[p] = table[p]
      BY <1>1, <2>2, OperatorCommitOthers
    <3>2. CurrentRows(k)' = CurrentRows(k)
      BY <1>2, <3>1 DEF CurrentRows
    <3>3. QED
      BY <3>2 DEF Published
  <2>3. QED
    BY <2>1, <2>2
<1>5. ASSUME NEW k \in K
      PROVE  \E p \in targets[o] :
               /\ p \in DOMAIN table /\ p[1] = k /\ p[2] \in Nat /\ p[2] > 1
               /\ Standing[k] = p[2] /\ Standing'[k] = p[2] - 1
               /\ Chain[k][p[2]].run = table[p].run
  <2>1. PICK p \in targets[o] : p[1] = k /\ table[p].current
    BY <1>5
  <2>2. p \in Keys \X Version /\ p[2] > 1 /\ p \in DOMAIN table
    BY <1>1, OperatorCommit
  <2>3. Standing[k] = p[2] /\ Standing'[k] = p[2] - 1
    BY <1>1, <2>1, OperatorCommitStanding DEF Standing
  <2>4. Chain[k][p[2]].run = table[p].run
    <3>1. PICK n \in Nat : IsChain(k, n)
      BY <1>1, <1>5 DEF Chains
    <3>2. p = <<k, p[2]>>
      BY <2>1, <2>2
    <3>3. p[2] \in 1..n
      BY <1>1, <1>5, <2>2, <3>1, <3>2, ChainRows
    <3>4. Chain[k] = Vintages(table, k, n)
      BY <1>5, <3>1, ChainAt
    <3>5. Vintages(table, k, n)[p[2]] = VintageOf(table[p])
      BY <3>2, <3>3 DEF Vintages
    <3>6. QED
      BY <3>4, <3>5 DEF VintageOf
  <2>5. QED
    BY <2>1, <2>2, <2>3, <2>4 DEF Version
<1>6. ASSUME NEW k \in Keys, k \notin K PROVE Standing'[k] = Standing[k]
  BY <1>4, <1>6 DEF Standing
<1> HIDE DEF K
<1>7. CASE K = {}
  BY <1>3, <1>6, <1>7 DEF Standing
<1>8. CASE K # {}
  <2>1. PICK k0 \in K : TRUE
    BY <1>8
  <2>2. PICK p0 \in targets[o] : p0 \in DOMAIN table
    BY <1>5, <2>1
  <2> DEFINE r == table[p0].run
  <2>3. r \in Runs /\ K \in SUBSET Keys
    <3>1. table[p0] \in Row
      BY <1>1, <2>2 DEF TypeInv, TypeOK, IsTable
    <3>2. QED
      BY <3>1 DEF Row, K
  <2>4. \A p \in targets[o] : table[p].run = r
    BY <1>1, <2>2 DEF TargetsOfOneRun
  <2> HIDE DEF r
  <2>5. ASSUME NEW k \in K
        PROVE  /\ Standing[k] > 1 /\ Chain[k][Standing[k]].run = r
               /\ Standing'[k] = Standing[k] - 1
    BY <1>5, <2>4, <2>5
  <2>6. Standing' = [k \in Keys |-> IF k \in K THEN Standing[k] - 1
                                              ELSE Standing[k]]
    BY <1>6, <2>5 DEF Standing
  <2>7. Store!RollBack(r, K)
    BY <1>3, <2>5, <2>6 DEF Store!RollBack
  <2>8. QED
    BY <1>3, <2>3, <2>7
<1>9. QED
  BY <1>7, <1>8

\* The empty table is the empty abstract store.
LEMMA InitRefines == Init => Store!Init
<1> SUFFICES ASSUME Init PROVE Store!Init
  OBVIOUS
<1>1. ASSUME NEW k \in Keys PROVE Latest(k) = 0 /\ Published(k) = 0
  BY DEF Init, NoRows, Latest, Published, Versions, CurrentRows
<1>2. Standing = [k \in Keys |-> 0]
  BY <1>1 DEF Standing
<1>3. ASSUME NEW k \in Keys PROVE Chain[k] = << >>
  <2>1. IsTable(table) /\ 0 \in Nat /\ 1..0 = {}
    BY DEF Init, NoRows, IsTable
  <2>2. Vintages(table, k, 0) \in Seq(Store!Vintage)
        /\ Len(Vintages(table, k, 0)) = 0
    BY <2>1, VintagesIsSeq
  <2>3. Vintages(table, k, 0) = << >>
    BY <2>2, EmptySeq
  <2>4. Chain[k] = Vintages(table, k, 0)
    BY <1>1 DEF Chain, Vintages, VintageOf
  <2>5. QED
    BY <2>3, <2>4
<1>4. Chain = [k \in Keys |-> << >>]
  BY <1>3 DEF Chain
<1>5. QED
  BY <1>2, <1>4 DEF Store!Init

\* Every step is a step of the abstract store or changes nothing it can see.
LEMMA NextRefines ==
  ASSUME ChainInv, ChainInv', [Next]_vars
  PROVE  [Store!Next]_(Store!vars)
<1>1. InductiveInvariant /\ TypeInv
  BY DEF ChainInv, InductiveInvariant
<1>2. CASE table' = table
  <2>1. Chain' = Chain /\ Standing' = Standing
    BY <1>2 DEF Chain, Standing, Latest, Published, Versions, CurrentRows
  <2>2. QED
    BY <2>1 DEF Store!vars
<1>3. CASE table' # table
  <2>1. PICK s \in Sessions : pc[s] = "commit" /\ table' = View(s)
    BY <1>1, <1>3, TableChanges
  <2>2. CASE s \in Runs
    <3>1. target[s][1] \in Keys /\ input[s] \in Contents
      BY <1>1, <2>1, <2>2 DEF TypeInv, Shape, RunShape
    <3>2. Store!Revise(target[s][1], input[s], s)
      BY <2>1, <2>2, RunCommitRevises
    <3>3. QED
      BY <2>2, <3>1, <3>2 DEF Store!Next
  <2>3. CASE s \in Operators
    <3>1. /\ Chain' = Chain
          /\ \/ Standing' = Standing
             \/ \E r \in Runs, K \in SUBSET Keys : Store!RollBack(r, K)
      BY <2>1, <2>3, OperatorCommitRollsBack
    <3>2. QED
      BY <3>1 DEF Store!Next, Store!vars
  <2>4. QED
    BY <2>1, <2>2, <2>3 DEF Sessions
<1>4. QED
  BY <1>2, <1>3

\* The statements of overlapping transactions add up to atomic revisions and
\* atomic rollbacks, each accepted only where VintageStore accepts it
\* (observation.go:160 and 211, one transaction around each call).
THEOREM ImplementsVintageStoreHolds == Spec => ImplementsVintageStore
<1>1. Init => Store!Init
  BY InitRefines
<1>2. ChainInv /\ ChainInv' /\ [Next]_vars => [Store!Next]_(Store!vars)
  BY NextRefines
<1>3. QED
  BY <1>1, <1>2, ChainInvariant, PTL
     DEF Spec, ImplementsVintageStore, Store!Spec

\* A key with a rejected row stands before the end of its chain.
LEMMA RejectedIsFrozen ==
  ASSUME ChainInv, NEW p \in DOMAIN table, table[p].rolledBack
  PROVE  Published(p[1]) # Latest(p[1])
<1>1. InductiveInvariant /\ TypeInv /\ Chains /\ IsTable(table)
  BY DEF ChainInv, InductiveInvariant, TypeInv, TypeOK
<1>2. PICK k \in Keys, v \in Version : p = <<k, v>>
  BY <1>1 DEF IsTable
<1>3. PICK n \in Nat : IsChain(k, n)
  BY <1>1 DEF Chains
<1>4. v \in 1..n
  BY <1>1, <1>2, <1>3, ChainRows
<1>5. Latest(k) = n
  BY <1>3, LatestOfChain
<1>6. PICK q \in DOMAIN table : q[1] = k /\ table[q].current
  BY <1>1, <1>2 DEF InductiveInvariant, PubInv, TablePublished, SomeCurrent
<1>7. Published(k) = q[2]
  BY <1>1, <1>6, PublishedIs
<1>8. q[2] < v
  BY <1>1, <1>2, <1>6 DEF InductiveInvariant, PubInv, TablePublished, ReasonsAfterCurrent
<1>9. QED
  BY <1>1, <1>2, <1>4, <1>5, <1>7, <1>8, <1>6 DEF IsTable

\* Once a vintage of a key is rejected, its chain is closed for good: the
\* version the next revision would take is the rejected row's
\* (observation.go:180).
THEOREM RejectedKeysFreezeHolds == Spec => RejectedKeysFreeze
<1> DEFINE Closed(p) == /\ Versions(p[1])' = Versions(p[1])
                        /\ Published(p[1])' <= Published(p[1])
<1>1. ASSUME ChainInv, ChainInv', [Next]_vars,
             NEW p \in DOMAIN table, table[p].rolledBack
      PROVE  Closed(p)
  <2>1. /\ InductiveInvariant /\ InductiveInvariant' /\ TypeInv /\ TypeInv'
        /\ IsTable(table) /\ IsTable(table')
    BY <1>1 DEF ChainInv, InductiveInvariant, TypeInv, TypeOK
  <2>2. PICK k \in Keys, n \in Nat : p[1] = k /\ IsChain(k, n)
    BY <1>1, <2>1 DEF IsTable, ChainInv, Chains
  <2>3. Published(k) \in Nat
    BY <2>1 DEF Published, CurrentRows, IsTable, Version
  <2>4. CASE table' = table
    BY <2>2, <2>3, <2>4 DEF Versions, Published, CurrentRows
  <2>5. ASSUME NEW s \in Sessions, pc[s] = "commit", table' = View(s), s \in Runs
        PROVE  Closed(p)
    <3>1. PICK m \in Keys, j \in Nat : target[s] = <<m, j>>
      BY <2>1, <2>5 DEF TypeInv, Shape, RunShape
    <3>2. IsChain(m, j) /\ (j > 0 => <<m, j>> \in DOMAIN table /\ table[<<m, j>>].current)
      BY <2>1, <2>5, <3>1, RunCommit
    <3>3. m # k
      <4>1. SUFFICES ASSUME m = k PROVE FALSE
        OBVIOUS
      <4>2. Latest(k) = j
        BY <3>2, <4>1, LatestOfChain
      <4>3. CASE j > 0
        BY <1>1, <2>1, <2>2, <3>2, <4>1, <4>2, <4>3, PublishedIs, RejectedIsFrozen
      <4>4. CASE j = 0
        BY <1>1, <2>1, <2>2, <3>2, <4>1, <4>2, <4>4, NothingPublished, RejectedIsFrozen
      <4>5. QED
        BY <4>3, <4>4
    <3>4. /\ \A q \in DOMAIN table : q[1] = k => table'[q] = table[q]
          /\ \A q : q[1] = k => (q \in DOMAIN table' <=> q \in DOMAIN table)
      <4>1. DOMAIN table' = DOMAIN table \cup {<<m, j + 1>>}
        BY <2>1, <2>5, <3>1, RunCommit
      <4>2. \A q \in DOMAIN table : q[1] = k => table'[q] = table[q]
        BY <2>1, <2>5, <3>1, <3>3, RunCommitOthers
      <4>3. QED
        BY <3>3, <4>1, <4>2
    <3>5. Versions(k)' = Versions(k) /\ CurrentRows(k)' = CurrentRows(k)
      BY <3>4 DEF Versions, CurrentRows
    <3>6. QED
      BY <2>2, <2>3, <3>5 DEF Published
  <2>6. ASSUME NEW s \in Sessions, pc[s] = "commit", table' = View(s), s \in Operators
        PROVE  Closed(p)
    <3>1. DOMAIN table' = DOMAIN table
      BY <2>1, <2>6, OperatorCommitDomain
    <3>2. Versions(k)' = Versions(k)
      BY <3>1 DEF Versions
    <3>3. CASE \E q \in targets[s] : q[1] = k
      <4>1. PICK q \in targets[s] : q[1] = k
        BY <3>3
      <4>2. q[2] \in Nat /\ q \in DOMAIN table /\ table[q] \in Row
        BY <2>1, <2>6, <4>1, OperatorCommit DEF IsTable, Version
      <4>3. /\ Published(k)' = q[2] - 1
            /\ table[q].current => Published(k) = q[2]
            /\ ~table[q].current => Published(k) = q[2] - 1
        BY <2>1, <2>6, <4>1, OperatorCommitStanding
      <4>4. Published(k)' <= Published(k)
        BY <4>2, <4>3
      <4>5. QED
        BY <2>2, <3>2, <4>4
    <3>4. CASE \A q \in targets[s] : q[1] # k
      <4>1. \A q \in DOMAIN table : q[1] = k => table'[q] = table[q]
        BY <2>1, <2>6, <3>4, OperatorCommitOthers
      <4>2. CurrentRows(k)' = CurrentRows(k)
        BY <3>1, <4>1 DEF CurrentRows
      <4>3. QED
        BY <2>2, <2>3, <3>2, <4>2 DEF Published
    <3>5. QED
      BY <3>3, <3>4
  <2>7. QED
    BY <1>1, <2>1, <2>4, <2>5, <2>6, TableChanges DEF Sessions
<1>2. ChainInv /\ ChainInv' /\ [Next]_vars =>
        [\A p \in DOMAIN table : table[p].rolledBack => Closed(p)]_vars
  BY <1>1
<1>3. QED
  BY <1>2, ChainInvariant, PTL DEF Spec, RejectedKeysFreeze

-----------------------------------------------------------------------------
(* Unique violations.  A refused statement has met a current row of its    *)
(* key that its own transaction has not written, or a row after its        *)
(* target: the published version is not the target, or not the latest.     *)

\* The current row a run meets at its INSERT is not its target.
LEMMA OtherCurrentOfRun ==
  ASSUME InductiveInvariant, NEW r \in Runs, pc[r] = "insert", OtherCurrent(r)
  PROVE  Published(target[r][1]) # target[r][2]
<1> DEFINE t == target[r]
<1>1. /\ t \in Keys \X Nat /\ DOMAIN dirty[r] \subseteq {t}
      /\ Written(r) = NextRow(t)
      /\ t[2] > 0 => /\ t \in DOMAIN table /\ t \in DOMAIN dirty[r]
                     /\ dirty[r][t] = Demoted(table[t])
      /\ IsTable(dirty[r]) /\ IsTable(table)
  BY DEF InductiveInvariant, TypeInv, TypeOK, Shape, RunShape, PubInv, RunPub,
         Written, NextRow, Sessions
<1>2. PICK q \in DOMAIN View(r) : q[1] = t[1] /\ View(r)[q].current
  BY DEF OtherCurrent
<1>3. q # t
  <2>1. CASE t[2] > 0
    <3>1. View(r)[t] = Demoted(table[t]) /\ table[t] \in Row
      BY <1>1, <2>1 DEF View, Overlay, IsTable
    <3>2. ~View(r)[t].current
      BY <3>1, ImageFields
    <3>3. QED
      BY <1>2, <3>2
  <2>2. CASE t[2] = 0
    <3>1. q \in DOMAIN dirty[r] \cup DOMAIN table
      BY <1>2 DEF View, Overlay
    <3>2. q[2] \in Version
      BY <1>1, <3>1 DEF IsTable
    <3>3. QED
      BY <2>2, <3>2 DEF Version
  <2>3. QED
    BY <1>1, <2>1, <2>2
<1>4. q \in DOMAIN table /\ table[q].current
  BY <1>1, <1>2, <1>3 DEF View, Overlay
<1>5. Published(q[1]) = q[2]
  BY <1>4, PublishedIs
<1>6. q[2] # t[2]
  <2>1. q \in Keys \X Version
    BY <1>1, <1>4 DEF IsTable
  <2>2. QED
    BY <1>1, <1>2, <1>3, <2>1
<1>7. QED
  BY <1>2, <1>5, <1>6

\* The current row an operator meets is not the one it rolls back.
LEMMA OtherCurrentOfOperator ==
  ASSUME InductiveInvariant, NEW o \in Operators, pc[o] = "rbPromote",
         OtherCurrent(o)
  PROVE  Published(target[o][1]) # target[o][2]
<1> DEFINE p == target[o]
<1>1. /\ p \in targets[o] /\ p \in DOMAIN dirty[o] /\ p \in DOMAIN table
      /\ dirty[o][p] = Rejected(table[p])
      /\ Written(o) = PriorRow(p)
      /\ IsTable(table)
  BY DEF InductiveInvariant, TypeInv, TypeOK, Shape, OperatorShape, PubInv,
         OperatorPub, Written, PriorRow
<1>2. PICK q \in DOMAIN View(o) :
        q # PriorRow(p) /\ q[1] = p[1] /\ View(o)[q].current
  BY <1>1 DEF OtherCurrent
<1>3. q # p
  <2>1. View(o)[p] = Rejected(table[p]) /\ table[p] \in Row
    BY <1>1 DEF View, Overlay, IsTable
  <2>2. ~View(o)[p].current
    BY <2>1, ImageFields
  <2>3. QED
    BY <1>2, <2>2
<1>4. q \notin DOMAIN dirty[o]
  <2>1. SUFFICES ASSUME q \in DOMAIN dirty[o] PROVE FALSE
    OBVIOUS
  <2>2. PICK w \in targets[o] : q = w \/ q = PriorRow(w)
    BY <2>1 DEF InductiveInvariant, PubInv, OperatorPub
  <2>3. w[1] = p[1]
    BY <1>2, <2>2 DEF PriorRow
  <2>4. w = p
    BY <1>1, <2>3 DEF InductiveInvariant, PubInv, OperatorPub
  <2>5. QED
    BY <1>2, <1>3, <2>2, <2>4
<1>5. q \in DOMAIN table /\ table[q].current
  BY <1>2, <1>4 DEF View, Overlay
<1>6. Published(q[1]) = q[2]
  BY <1>5, PublishedIs
<1>7. q[2] # p[2]
  <2>1. q \in Keys \X Version /\ p \in Keys \X Version
    BY <1>1, <1>5 DEF IsTable
  <2>2. QED
    BY <1>2, <1>3, <2>1
<1>8. QED
  BY <1>2, <1>6, <1>7

\* A session is refused by a unique index only when another call has changed
\* what it read, or when a rollback has left rows behind the published one
\* (observation.go:160 and 211).
THEOREM ViolationsExplainedHolds == Spec => ViolationsExplained
<1> DEFINE Explained == \A s \in Sessions :
             failure'[s] = "unique" /\ failure[s] # "unique" =>
               LET k == target[s][1]
               IN  Published(k) # target[s][2] \/ Latest(k) # target[s][2]
<1>1. ChainInv /\ [Next]_vars => Explained
  <2>1. SUFFICES ASSUME ChainInv, [Next]_vars, NEW s \in Sessions,
                        failure'[s] = "unique", failure[s] # "unique"
                 PROVE  \/ Published(target[s][1]) # target[s][2]
                        \/ Latest(target[s][1]) # target[s][2]
    OBVIOUS
  <2>2. InductiveInvariant /\ TypeInv /\ Chains
    BY <2>1 DEF ChainInv, InductiveInvariant
  <2>3. UniqueViolation(s)
    <3>1. ASSUME NEW t \in Sessions, NEW f, End(t, f), f # "unique"
          PROVE  FALSE
      BY <2>1, <2>2, <3>1 DEF End, TypeInv, TypeOK
    <3>2. ASSUME NEW t \in Sessions, UniqueViolation(t)
          PROVE  UniqueViolation(s)
      <4>1. s = t
        BY <2>1, <2>2, <3>2 DEF UniqueViolation, End, TypeInv, TypeOK
      <4>2. QED
        BY <3>2, <4>1
    <3>3. ASSUME UNCHANGED failure PROVE FALSE
      BY <2>1, <3>3
    <3>4. ASSUME NEW o \in Operators, NEW r \in Runs, SelectTargets(o, r)
          PROVE  FALSE
      BY <2>1, <2>2, <3>4 DEF SelectTargets, TypeInv, TypeOK
    <3>5. CASE Next
      <4>1. ASSUME NEW t \in Sessions, Statement(t) PROVE UniqueViolation(s)
        BY <3>1, <3>2, <3>3, <4>1
           DEF Statement, Demote, Insert, RbDemote, RbPromote, NoPrior, Commit
      <4>2. ASSUME NEW t \in Sessions,
                   CommitUnacknowledged(t) \/ Lose(t) \/ DeadlockVictim(t)
            PROVE  FALSE
        BY <3>1, <4>2 DEF CommitUnacknowledged, Lose, DeadlockVictim
      <4>3. ASSUME NEW r \in Runs, NEW k \in Keys, NEW c \in Contents,
                   WriteUnchanged(r, k, c) \/ ReadCurrent(r, k, c)
            PROVE  FALSE
        BY <3>3, <4>3 DEF WriteUnchanged, ReadCurrent
      <4>4. QED
        BY <3>4, <3>5, <4>1, <4>2, <4>3 DEF Next
    <3>6. QED
      BY <2>1, <3>3, <3>5 DEF vars
  <2>4. CASE s \in Runs
    <3>1. pc[s] = "insert"
      BY <2>2, <2>3, <2>4 DEF UniqueViolation, MakesCurrent, TypeInv, Shape,
                              RunShape
    <3>2. CASE OtherCurrent(s)
      BY <2>2, <2>4, <3>1, <3>2, OtherCurrentOfRun
    <3>3. CASE PrimaryKeyTaken(s)
      <4>1. PICK k \in Keys, n \in Nat : target[s] = <<k, n>>
        BY <2>2, <2>4, <3>1 DEF TypeInv, Shape, RunShape
      <4>2. <<k, n + 1>> \in DOMAIN table
        BY <3>1, <3>3, <4>1 DEF PrimaryKeyTaken, Written
      <4>3. PICK m \in Nat : IsChain(k, m)
        BY <2>2, <4>1 DEF Chains
      <4>4. n + 1 \in 1..m
        BY <2>2, <4>1, <4>2, <4>3, ChainRows
      <4>5. Latest(k) = m
        BY <4>1, <4>3, LatestOfChain
      <4>6. m # n
        BY <4>1, <4>3, <4>4
      <4>7. QED
        BY <4>1, <4>5, <4>6
    <3>4. QED
      BY <2>3, <3>2, <3>3 DEF UniqueViolation
  <2>5. CASE s \in Operators
    <3>1. pc[s] = "rbPromote"
      BY <2>2, <2>3, <2>5 DEF UniqueViolation, MakesCurrent, TypeInv, Shape,
                              OperatorShape
    <3>2. OtherCurrent(s)
      BY <2>3, <3>1 DEF UniqueViolation, PrimaryKeyTaken
    <3>3. QED
      BY <2>2, <2>5, <3>1, <3>2, OtherCurrentOfOperator
  <2>6. QED
    BY <2>4, <2>5 DEF Sessions
<1>2. QED
  BY <1>1, ChainInvariant, PTL DEF Spec, ViolationsExplained

-----------------------------------------------------------------------------
(* Deadlocks between runs.  A run that others wait for has superseded its  *)
(* target and not yet inserted the next row.  On a key without a           *)
(* rolled-back row its target is the last row, so whoever waits for the    *)
(* index works from the same row and would have had to lock it: every wait *)
(* is for a row, and climbs the versions of one key, of which one is last. *)

\* A set of bounded numbers has one that is followed by none.
LEMMA LastElement ==
  ASSUME NEW n \in Nat, NEW T, T \subseteq 1..n, T # {}
  PROVE  \E v \in T : v + 1 \notin T
<1> DEFINE From(v) == {w \in T : w >= v}
           S == 1..n
           F == {From(v) : v \in T}
<1>1. F \subseteq FiniteSubsetsOf(S) /\ F # {}
  <2>1. IsFiniteSet(S)
    BY FS_Interval
  <2>2. FiniteSubsetsOf(S) = SUBSET S
    BY <2>1, FS_FiniteSubsetsOfFinite
  <2>3. \A v \in T : From(v) \in SUBSET S
    OBVIOUS
  <2>4. PICK v \in T : TRUE
    OBVIOUS
  <2> HIDE DEF From, S
  <2>5. From(v) \in F
    BY <2>4
  <2>6. QED
    BY <2>2, <2>3, <2>5
<1>2. PICK A \in F : \A B \in F : <<B, A>> \notin StrictSubsetOrdering(S)
  <2> HIDE DEF F, S
  <2>1. IsWellFoundedOn(StrictSubsetOrdering(S), FiniteSubsetsOf(S))
    BY FS_StrictSubsetOrderingWellFounded
  <2>2. QED
    BY <1>1, <2>1, WFMin
<1>3. PICK v \in T : A = From(v)
  OBVIOUS
<1>4. ASSUME v + 1 \in T PROVE FALSE
  <2>1. From(v + 1) \in F
    BY <1>4
  <2>2. v \in From(v) /\ v \notin From(v + 1) /\ From(v + 1) \subseteq From(v)
    <3>1. T \subseteq Nat
      OBVIOUS
    <3>2. v \in Nat /\ v \in T /\ v >= v /\ ~(v >= v + 1)
      BY <1>3, <3>1
    <3>3. v \in From(v) /\ v \notin From(v + 1)
      BY <3>2
    <3>4. ASSUME NEW w \in From(v + 1) PROVE w \in From(v)
      <4>1. w \in T /\ w \in Nat /\ w >= v + 1
        BY <3>1, <3>4
      <4>2. w >= v
        BY <3>2, <4>1
      <4>3. QED
        BY <4>1, <4>2
    <3>5. QED
      BY <3>3, <3>4
  <2>3. <<From(v + 1), A>> \in StrictSubsetOrdering(S)
    BY <1>3, <2>2 DEF StrictSubsetOrdering
  <2>4. QED
    BY <1>2, <2>1, <2>3
<1>5. QED
  BY <1>4

\* A run that somebody waits for is at its INSERT and has locked its target
\* and nothing else.
LEMMA RunHolds ==
  ASSUME InductiveInvariant, NEW u \in Runs, Waits(u) # {},
         NEW q \in DOMAIN dirty[u]
  PROVE  /\ pc[u] = "insert" /\ q = target[u]
         /\ q \in DOMAIN table /\ q \in Keys \X Version
         /\ ~dirty[u][q].current
<1>1. pc[u] \in {"demote", "insert"}
  BY DEF InductiveInvariant, TypeInv, Shape, RunShape, Waits
<1>2. pc[u] = "insert" /\ q = target[u]
  BY <1>1 DEF InductiveInvariant, TypeInv, Shape, RunShape
<1>3. q \in Keys \X Version
  BY DEF InductiveInvariant, TypeInv, TypeOK, IsTable, Sessions
<1>4. q \in DOMAIN table /\ dirty[u][q] = Demoted(table[q])
  <2>1. target[u][2] > 0
    BY <1>2, <1>3 DEF Version
  <2>2. RunShape(u) /\ RunPub(u)
    BY DEF InductiveInvariant, TypeInv, Shape, PubInv
  <2>3. QED
    BY <1>2, <2>1, <2>2 DEF RunShape, RunPub
<1>5. table[q] \in Row
  BY <1>4 DEF InductiveInvariant, TypeInv, TypeOK, IsTable
<1>6. QED
  BY <1>2, <1>3, <1>4, <1>5, ImageFields

\* Without a rolled-back row no run waits for another on the index.
LEMMA NoIndexWait ==
  ASSUME InductiveInvariant, NEW t \in Runs, NEW u \in Runs, Waits(u) # {},
         u \in IndexHolders(t, target[t][1]),
         pc[t] = "insert", ~PrimaryKeyTaken(t),
         \A p \in DOMAIN table : p[1] = target[u][1] => ~table[p].rolledBack
  PROVE  FALSE
<1>1. u # t
  BY DEF IndexHolders
<1>2. PICK q \in DOMAIN dirty[u] :
        /\ q[1] = target[t][1]
        /\ dirty[u][q].current \/ (q \in DOMAIN table /\ table[q].current)
  BY DEF IndexHolders
<1>3. /\ q = target[u] /\ q \in DOMAIN table /\ q \in Keys \X Version
      /\ table[q].current
  BY <1>2, RunHolds
<1>4. \A p \in DOMAIN table : p[1] = q[1] => ~(p[2] > q[2])
  BY <1>3 DEF InductiveInvariant, PubInv, TablePublished, ReasonsAfterCurrent
<1>5. PICK k \in Keys, n \in Nat : target[t] = <<k, n>>
  BY DEF InductiveInvariant, TypeInv, Shape, RunShape
<1>6. <<k, n + 1>> \notin DOMAIN table
  BY <1>5 DEF PrimaryKeyTaken, Written
<1>7. ~(q[2] > n)
  <2>1. SUFFICES ASSUME q[2] > n PROVE FALSE
    OBVIOUS
  <2>2. n + 1 \in 1..q[2]
    BY <1>3, <1>5, <2>1 DEF Version
  <2>3. <<q[1], n + 1>> \in DOMAIN table
    BY <1>3, <2>2 DEF InductiveInvariant, TypeInv, Shape, NoGap
  <2>4. QED
    BY <1>2, <1>5, <1>6, <2>3
<1>8. n > 0
  BY <1>3, <1>5, <1>7 DEF Version
<1>9. target[t] \in DOMAIN table /\ target[t] \in DOMAIN dirty[t]
  <2>1. target[t][2] > 0
    BY <1>5, <1>8
  <2>2. RunShape(t) /\ RunPub(t)
    BY DEF InductiveInvariant, TypeInv, Shape, PubInv
  <2>3. QED
    BY <2>1, <2>2 DEF RunShape, RunPub
<1>10. n = q[2]
  BY <1>2, <1>3, <1>4, <1>5, <1>7, <1>9 DEF Version
<1>11. target[t] = q
  BY <1>2, <1>3, <1>5, <1>10
<1>12. QED
  BY <1>1, <1>2, <1>9, <1>11
     DEF InductiveInvariant, PubInv, RowLocks, Sessions

\* In a stuck set of such runs whoever others wait for waits for the row after
\* its own target.
LEMMA WaitsClimb ==
  ASSUME InductiveInvariant, NEW C \in SUBSET Runs, Stuck(C),
         \A r \in C, p \in DOMAIN table :
           p[1] = target[r][1] => ~table[p].rolledBack,
         NEW t \in C
  PROVE  \E u \in C :
           /\ pc[u] = "insert" /\ target[u] \in DOMAIN table
           /\ pc[t] = "insert" => target[u] = NextRow(target[t])
<1>1. PICK u \in Waits(t) : u \in C
  BY DEF Stuck
<1>2. Waits(u) # {}
  BY <1>1 DEF Stuck
<1>3. pc[t] \in {"demote", "insert"}
  BY <1>1 DEF InductiveInvariant, TypeInv, Shape, RunShape, Waits
<1>4. CASE RowHolders(t, Written(t)) # {}
  <2>1. Written(t) \in DOMAIN dirty[u]
    BY <1>1, <1>3, <1>4 DEF Waits, RowHolders
  <2>2. /\ pc[u] = "insert" /\ Written(t) = target[u]
        /\ target[u] \in DOMAIN table
    BY <1>1, <1>2, <2>1, RunHolds
  <2>3. pc[t] = "insert" => Written(t) = NextRow(target[t])
    BY DEF Written, NextRow
  <2>4. QED
    BY <1>1, <2>2, <2>3
<1>5. CASE RowHolders(t, Written(t)) = {}
  <2>1. /\ u \in IndexHolders(t, target[t][1])
        /\ MakesCurrent(t) /\ ~PrimaryKeyTaken(t)
    BY <1>1, <1>3, <1>5 DEF Waits
  <2>2. pc[t] = "insert"
    BY <1>3, <2>1 DEF MakesCurrent
  <2>3. QED
    BY <1>1, <1>2, <2>1, <2>2, NoIndexWait
<1>6. QED
  BY <1>4, <1>5

\* Without rollbacks ingestion runs never lock the rows of a key in a cycle
\* (observation.go:160: a run demotes the published row, then inserts the
\* next one, and every transaction writes one key).
THEOREM RunsDeadlockOnlyAfterRollbackHolds ==
  Spec => []RunsDeadlockOnlyAfterRollback
<1>1. ChainInv => RunsDeadlockOnlyAfterRollback
  <2>1. SUFFICES ASSUME ChainInv, NEW C \in SUBSET Runs, Stuck(C),
                        \A r \in C, p \in DOMAIN table :
                          p[1] = target[r][1] => ~table[p].rolledBack
                 PROVE  FALSE
    BY DEF RunsDeadlockOnlyAfterRollback
  <2>2. InductiveInvariant /\ TypeInv /\ Chains
    BY <2>1 DEF ChainInv, InductiveInvariant
  <2>3. PICK t \in C : TRUE
    BY <2>1 DEF Stuck
  <2>4. PICK u \in C : pc[u] = "insert" /\ target[u] \in DOMAIN table
    BY <2>1, <2>2, <2>3, WaitsClimb
  <2>5. PICK k \in Keys, m \in Nat : target[u] = <<k, m>>
    BY <2>1, <2>2, <2>4 DEF TypeInv, Shape, RunShape
  <2>6. PICK n \in Nat : IsChain(k, n)
    BY <2>2, <2>5 DEF Chains
  <2> DEFINE T == {v \in 1..n : \E w \in C : pc[w] = "insert"
                                             /\ target[w] = <<k, v>>}
  <2>7. m \in T
    <3>1. m \in 1..n
      BY <2>2, <2>4, <2>5, <2>6, ChainRows
    <3>2. QED
      BY <2>4, <2>5, <3>1
  <2>8. PICK v \in T : v + 1 \notin T
    <3> HIDE DEF T
    <3>1. T \subseteq 1..n
      BY DEF T
    <3>2. QED
      BY <2>6, <2>7, <3>1, LastElement
  <2>9. PICK w \in C : pc[w] = "insert" /\ target[w] = <<k, v>>
    BY <2>8
  <2>10. PICK x \in C : /\ pc[x] = "insert" /\ target[x] \in DOMAIN table
                        /\ target[x] = NextRow(target[w])
    BY <2>1, <2>2, <2>9, WaitsClimb
  <2>11. target[x] = <<k, v + 1>>
    BY <2>9, <2>10 DEF NextRow
  <2>12. v + 1 \in 1..n
    BY <2>2, <2>5, <2>6, <2>10, <2>11, ChainRows
  <2>13. QED
    BY <2>8, <2>10, <2>11, <2>12
<1>2. QED
  BY <1>1, ChainInvariant, PTL

-----------------------------------------------------------------------------
(* Calls end.  What a prover can say of it: the server always finds        *)
(* something to do for the calls under way, and what it does brings a call *)
(* nearer to its end.                                                      *)

\* The next statement of s can be executed, or be refused.
CanGoOn(s) == InTransaction(s) /\ Waits(s) = {}

\* As long as a call is under way, the next statement of some call waits for
\* nobody, or the deadlock detector has a victim.
SomebodyGoesOn ==
  \A s \in Sessions : InTransaction(s) =>
    \E t \in Sessions : InTransaction(t) /\ (CanGoOn(t) \/ InCycle(t))

\* Only calls under way have written anything.
LEMMA WritersAreOpen ==
  ASSUME InductiveInvariant, NEW s \in Sessions, DOMAIN dirty[s] # {}
  PROVE  InTransaction(s)
<1>1. CASE s \in Runs
  BY <1>1 DEF InductiveInvariant, TypeInv, Shape, RunShape, InTransaction
<1>2. CASE s \in Operators
  <2>1. pc[s] \in {"idle", "rbDemote", "rbPromote", "commit"}
    BY <1>2 DEF InductiveInvariant, TypeInv, Shape, OperatorShape
  <2>2. pc[s] = "idle" => DOMAIN dirty[s] = {}
    BY <1>2 DEF InductiveInvariant, PubInv, OperatorPub
  <2>3. QED
    BY <2>1, <2>2 DEF InTransaction
<1>3. QED
  BY <1>1, <1>2 DEF Sessions

\* Whoever is waited for has written something.
LEMMA WaitsForWriters ==
  ASSUME NEW s \in Sessions, NEW t \in Waits(s)
  PROVE  t \in Sessions /\ DOMAIN dirty[t] # {}
BY DEF Waits, RowHolders, IndexHolders

\* Of the sessions that wait in a cycle some are a smallest such set.
LEMMA StuckHasCycle ==
  ASSUME IsFiniteSet(Sessions), NEW B \in SUBSET Sessions, Stuck(B)
  PROVE  \E t \in B : InCycle(t)
<1> DEFINE F == {C \in SUBSET B : Stuck(C)}
<1>1. F \subseteq FiniteSubsetsOf(Sessions) /\ F # {}
  <2>1. FiniteSubsetsOf(Sessions) = SUBSET Sessions
    BY FS_FiniteSubsetsOfFinite
  <2>2. B \in F
    OBVIOUS
  <2>3. QED
    BY <2>1, <2>2
<1>2. PICK C \in F : \A D \in F : <<D, C>> \notin StrictSubsetOrdering(Sessions)
  <2> HIDE DEF F
  <2>1. IsWellFoundedOn(StrictSubsetOrdering(Sessions), FiniteSubsetsOf(Sessions))
    BY FS_StrictSubsetOrderingWellFounded
  <2>2. QED
    BY <1>1, <2>1, WFMin
<1>3. C \in SUBSET B /\ Stuck(C)
  OBVIOUS
<1>4. ASSUME NEW D \in SUBSET C, Stuck(D) PROVE D = C
  <2>1. D \in F
    BY <1>3, <1>4
  <2>2. <<D, C>> \notin StrictSubsetOrdering(Sessions)
    BY <1>2, <2>1
  <2>3. D \in SUBSET Sessions /\ C \in SUBSET Sessions
    BY <1>3
  <2>4. QED
    BY <2>2, <2>3 DEF StrictSubsetOrdering
<1>5. PICK t \in C : TRUE
  BY <1>3 DEF Stuck
<1>6. InCycle(t)
  <2>1. C \in SUBSET Sessions
    BY <1>3
  <2>2. QED
    BY <1>3, <1>4, <1>5, <2>1 DEF InCycle
<1>7. QED
  BY <1>3, <1>5, <1>6

\* Calls never wait for one another with nothing left to do: if nobody's
\* statement can go on, some of them wait in a cycle, which is what the deadlock
\* detector looks for.  No call waits for one that has ended
\* (observation.go:160, observation.go:211).
THEOREM SomebodyGoesOnHolds ==
  IsFiniteSet(Sessions) => (Spec => []SomebodyGoesOn)
<1> SUFFICES ASSUME IsFiniteSet(Sessions) PROVE Spec => []SomebodyGoesOn
  OBVIOUS
<1>1. ChainInv => SomebodyGoesOn
  <2> SUFFICES ASSUME ChainInv, NEW s \in Sessions, InTransaction(s),
                      \A t \in Sessions : ~CanGoOn(t)
               PROVE  \E t \in Sessions : InTransaction(t) /\ InCycle(t)
    BY DEF SomebodyGoesOn, CanGoOn
  <2> DEFINE B == {t \in Sessions : InTransaction(t)}
  <2>1. InductiveInvariant
    BY DEF ChainInv
  <2>2. ASSUME NEW t \in B PROVE Waits(t) \cap B # {}
    <3>1. Waits(t) # {}
      BY <2>2 DEF CanGoOn
    <3>2. PICK u \in Waits(t) : TRUE
      BY <3>1
    <3>3. u \in Sessions /\ InTransaction(u)
      BY <2>1, <2>2, <3>2, WaitsForWriters, WritersAreOpen
    <3>4. QED
      BY <3>2, <3>3
  <2>3. Stuck(B)
    BY <2>2 DEF Stuck
  <2>4. PICK t \in B : InCycle(t)
    <3>1. B \in SUBSET Sessions
      OBVIOUS
    <3> HIDE DEF B
    <3>2. QED
      BY <2>3, <3>1, StuckHasCycle
  <2>5. QED
    BY <2>4
<1>2. QED
  BY <1>1, ChainInvariant, PTL

-----------------------------------------------------------------------------
(* Each statement of a call is followed by fewer. *)

\* The rows RollbackRun has still to demote.
Listed(s) == targets[s] \ DOMAIN dirty[s]

\* The statements that may follow, the COMMIT included.
StatementsLeft(s) ==
  CASE pc[s] = "demote" -> 3
    [] pc[s] = "insert" -> 2
    [] pc[s] = "commit" -> 1
    [] pc[s] = "rbDemote" -> 2 * Cardinality(Listed(s)) + 1
    [] pc[s] = "rbPromote" -> 2 * Cardinality(Listed(s)) + 2
    [] OTHER -> 0

\* A statement of a call leaves it fewer; whatever else happens, the calls of
\* the others included, leaves it no more.
CallsShrink ==
  \A s \in Sessions : InTransaction(s) =>
    /\ StatementsLeft(s) \in Nat \ {0}
    /\ StatementsLeft(s)' \in 0..StatementsLeft(s)
    /\ Statement(s) => StatementsLeft(s)' # StatementsLeft(s)

FiniteRows ==
  /\ IsFiniteSet(DOMAIN table)
  /\ \A s \in Sessions : IsFiniteSet(targets[s])

\* The table has finitely many rows, and so has a rollback.
LEMMA RowsStayFinite == Spec => []FiniteRows
<1>1. Init => FiniteRows
  BY FS_EmptySet DEF Init, FiniteRows, NoRows
<1>2. ChainInv /\ FiniteRows /\ [Next]_vars => FiniteRows'
  <2> SUFFICES ASSUME ChainInv, FiniteRows, [Next]_vars PROVE FiniteRows'
    OBVIOUS
  <2>1. InductiveInvariant
    BY DEF ChainInv
  <2>2. IsFiniteSet(DOMAIN table')
    <3>1. CASE table' = table
      BY <3>1 DEF FiniteRows
    <3>2. CASE table' # table
      <4>1. PICK s \in Sessions : pc[s] = "commit" /\ table' = View(s)
        BY <2>1, <3>2, TableChanges
      <4>2. CASE s \in Runs
        <5>1. PICK k \in Keys, n \in Nat : target[s] = <<k, n>>
          BY <2>1, <4>1, <4>2 DEF InductiveInvariant, TypeInv, Shape, RunShape
        <5>2. DOMAIN table' = DOMAIN table \cup {<<k, n + 1>>}
          BY <2>1, <4>1, <4>2, <5>1, RunCommit
        <5>3. QED
          BY <5>2, FS_AddElement DEF FiniteRows
      <4>3. CASE s \in Operators
        BY <2>1, <4>1, <4>3, OperatorCommitDomain DEF FiniteRows
      <4>4. QED
        BY <4>2, <4>3 DEF Sessions
    <3>3. QED
      BY <3>1, <3>2
  <2>3. ASSUME NEW s \in Sessions PROVE IsFiniteSet(targets'[s])
    <3>1. targets \in [Sessions -> SUBSET (Keys \X Version)]
      BY <2>1 DEF InductiveInvariant, TypeInv, TypeOK
    <3>2. CASE targets' = targets
      BY <3>2 DEF FiniteRows
    <3>3. ASSUME NEW o \in Operators, NEW r \in Runs, SelectTargets(o, r)
          PROVE  IsFiniteSet(targets'[s])
      <4>1. PICK rows \in SUBSET DOMAIN table : targets' = [targets EXCEPT ![o] = rows]
        BY <3>3 DEF SelectTargets
      <4>2. IsFiniteSet(rows)
        BY FS_Subset DEF FiniteRows
      <4>3. QED
        BY <3>1, <4>1, <4>2 DEF FiniteRows
    <3>4. ASSUME NEW t \in Sessions, NEW f, End(t, f) PROVE IsFiniteSet(targets'[s])
      BY <3>1, <3>4, FS_EmptySet DEF End, FiniteRows
    <3>5. CASE Next
      <4>1. CASE \E r \in Runs, k \in Keys, c \in Contents :
                   WriteUnchanged(r, k, c) \/ ReadCurrent(r, k, c)
        BY <3>2, <4>1 DEF WriteUnchanged, ReadCurrent
      <4>2. CASE \E o \in Operators, r \in Runs : SelectTargets(o, r)
        BY <3>3, <4>2
      <4>3. ASSUME NEW t \in Sessions,
                   Statement(t) \/ CommitUnacknowledged(t) \/ Lose(t) \/ DeadlockVictim(t)
            PROVE  IsFiniteSet(targets'[s])
        <5>1. CASE Demote(t) \/ Insert(t) \/ RbDemote(t) \/ RbPromote(t)
          BY <3>2, <5>1 DEF Demote, Insert, RbDemote, RbPromote
        <5>2. CASE NoPrior(t) \/ UniqueViolation(t) \/ Commit(t)
                     \/ CommitUnacknowledged(t) \/ Lose(t) \/ DeadlockVictim(t)
          BY <3>4, <5>2 DEF NoPrior, UniqueViolation, Commit, CommitUnacknowledged,
                            Lose, DeadlockVictim
        <5>3. QED
          BY <4>3, <5>1, <5>2 DEF Statement
      <4>4. QED
        BY <3>5, <4>1, <4>2, <4>3 DEF Next
    <3>6. CASE UNCHANGED vars
      BY <3>2, <3>6 DEF vars
    <3>7. QED
      BY <3>5, <3>6
  <2>4. QED
    BY <2>2, <2>3 DEF FiniteRows
<1>3. QED
  BY <1>1, <1>2, ChainInvariant, PTL DEF Spec

LEMMA CountsAreNumbers ==
  ASSUME FiniteRows, NEW s \in Sessions
  PROVE  IsFiniteSet(Listed(s)) /\ Cardinality(Listed(s)) \in Nat
<1>1. IsFiniteSet(targets[s])
  BY DEF FiniteRows
<1>2. Listed(s) \subseteq targets[s]
  BY DEF Listed
<1>3. IsFiniteSet(Listed(s))
  BY <1>1, <1>2, FS_Subset
<1>4. QED
  BY <1>3, FS_CardinalityType

\* A call under way has at least one statement to come.
LEMMA SomethingIsLeft ==
  ASSUME InductiveInvariant, FiniteRows, NEW s \in Sessions, InTransaction(s)
  PROVE  StatementsLeft(s) \in Nat \ {0}
<1> DEFINE n == Cardinality(Listed(s))
<1>1. n \in Nat
  BY CountsAreNumbers
<1>2. pc[s] \in {"demote", "insert", "commit", "rbDemote", "rbPromote"}
  <2>1. CASE s \in Runs
    BY <2>1 DEF InductiveInvariant, TypeInv, Shape, RunShape, InTransaction
  <2>2. CASE s \in Operators
    BY <2>2 DEF InductiveInvariant, TypeInv, Shape, OperatorShape, InTransaction
  <2>3. QED
    BY <2>1, <2>2 DEF Sessions
<1>3. StatementsLeft(s) \in {3, 2, 1, 2 * n + 1, 2 * n + 2}
  BY <1>2 DEF StatementsLeft
<1> HIDE DEF n
<1>4. QED
  BY <1>1, <1>3

\* A call that has ended has none.
LEMMA NothingIsLeft ==
  ASSUME TypeOK, NEW s \in Sessions, NEW f, End(s, f)
  PROVE  StatementsLeft(s)' = 0
<1>1. pc'[s] \in {"stopped", "idle"}
  BY DEF End, TypeOK
<1>2. QED
  BY <1>1 DEF StatementsLeft

\* The row a rollback demotes comes off the list; the one it promotes was
\* never on it.
LEMMA ListedNext ==
  ASSUME InductiveInvariant, NEW o \in Operators
  PROVE  /\ RbDemote(o) => target[o] \in Listed(o) /\ Listed(o)' = Listed(o) \ {target[o]}
         /\ RbPromote(o) => Listed(o)' = Listed(o)
<1> USE DEF InductiveInvariant
<1>1. o \in Sessions /\ OperatorShape(o) /\ OperatorPub(o)
  BY DEF Sessions, TypeInv, Shape, PubInv
<1>2. ASSUME NEW p, NEW image, Write(o, p, image)
      PROVE  DOMAIN dirty'[o] = DOMAIN dirty[o] \cup {p}
  <2> DEFINE d == [q \in {p} |-> image]
  <2>1. dirty'[o] = Overlay(d, dirty[o])
    BY <1>1, <1>2 DEF Write, TypeInv, TypeOK
  <2>2. DOMAIN d = {p}
    OBVIOUS
  <2> HIDE DEF d
  <2>3. QED
    BY <2>1, <2>2 DEF Overlay
<1>3. ASSUME RbDemote(o)
      PROVE  target[o] \in Listed(o) /\ Listed(o)' = Listed(o) \ {target[o]}
  <2>1. target[o] \in targets[o] /\ target[o] \notin DOMAIN dirty[o]
    BY <1>1, <1>3 DEF RbDemote, OperatorShape, OperatorPub
  <2>2. DOMAIN dirty'[o] = DOMAIN dirty[o] \cup {target[o]} /\ targets' = targets
    BY <1>2, <1>3 DEF RbDemote
  <2>3. QED
    BY <2>1, <2>2 DEF Listed
<1>4. ASSUME RbPromote(o) PROVE Listed(o)' = Listed(o)
  <2>1. /\ target[o] \in targets[o] /\ target[o] \in Keys \X Version
        /\ Written(o) = PriorRow(target[o])
    BY <1>1, <1>4 DEF RbPromote, OperatorShape, TypeInv, TypeOK, Written, PriorRow
  <2>2. Written(o) \notin targets[o]
    BY <1>1, <2>1 DEF OperatorPub, PriorRow, Version
  <2>3. DOMAIN dirty'[o] = DOMAIN dirty[o] \cup {Written(o)} /\ targets' = targets
    BY <1>2, <1>4 DEF RbPromote
  <2>4. QED
    BY <2>2, <2>3 DEF Listed
<1>5. QED
  BY <1>3, <1>4

LEMMA StatementsShrink ==
  ASSUME InductiveInvariant, FiniteRows, NEW s \in Sessions, InTransaction(s),
         Statement(s)
  PROVE  StatementsLeft(s)' \in 0..(StatementsLeft(s) - 1)
<1>1. TypeOK /\ StatementsLeft(s) \in Nat \ {0}
  BY SomethingIsLeft DEF InductiveInvariant, TypeInv
<1>2. ASSUME NEW f, End(s, f) PROVE StatementsLeft(s)' \in 0..(StatementsLeft(s) - 1)
  BY <1>1, <1>2, NothingIsLeft
<1>3. CASE s \in Runs /\ Demote(s)
  <2>1. pc[s] = "demote" /\ pc'[s] = "insert"
    BY <1>1, <1>3 DEF Demote, Goto, TypeOK
  <2>2. QED
    BY <2>1 DEF StatementsLeft
<1>4. CASE s \in Runs /\ Insert(s)
  <2>1. pc[s] = "insert" /\ pc'[s] = "commit"
    BY <1>1, <1>4 DEF Insert, Goto, TypeOK
  <2>2. QED
    BY <2>1 DEF StatementsLeft
<1>5. CASE s \in Operators /\ RbDemote(s)
  <2> DEFINE n == Cardinality(Listed(s))
             m == Cardinality(Listed(s)')
  <2>1. n \in Nat /\ m = n - 1 /\ m \in Nat
    <3>1. IsFiniteSet(Listed(s)) /\ n \in Nat
      BY CountsAreNumbers
    <3>2. target[s] \in Listed(s) /\ Listed(s)' = Listed(s) \ {target[s]}
      BY <1>5, ListedNext
    <3>3. IsFiniteSet(Listed(s) \ {target[s]})
      BY <3>1, FS_RemoveElement
    <3>4. m = n - 1
      BY <3>1, <3>2, FS_RemoveElement
    <3>5. m \in Nat
      BY <3>2, <3>3, FS_CardinalityType
    <3>6. QED
      BY <3>1, <3>4, <3>5
  <2>2. pc[s] = "rbDemote" /\ pc'[s] = "rbPromote"
    BY <1>1, <1>5 DEF RbDemote, Goto, TypeOK
  <2>3. StatementsLeft(s) = 2 * n + 1 /\ StatementsLeft(s)' = 2 * m + 2
    BY <2>2 DEF StatementsLeft
  <2> HIDE DEF n, m
  <2>4. QED
    BY <2>1, <2>3
<1>6. CASE s \in Operators /\ RbPromote(s)
  <2> DEFINE n == Cardinality(Listed(s))
  <2>1. n \in Nat /\ Cardinality(Listed(s)') = n
    BY <1>6, CountsAreNumbers, ListedNext
  <2>2. pc[s] = "rbPromote" /\ pc'[s] \in {"commit", "rbDemote"}
    BY <1>1, <1>6 DEF RbPromote, Take, Goto, TypeOK
  <2>3. StatementsLeft(s) = 2 * n + 2 /\ StatementsLeft(s)' \in {1, 2 * n + 1}
    BY <2>1, <2>2 DEF StatementsLeft
  <2> HIDE DEF n
  <2>4. QED
    BY <2>1, <2>3
<1>7. CASE NoPrior(s) \/ UniqueViolation(s) \/ Commit(s)
  BY <1>2, <1>7 DEF NoPrior, UniqueViolation, Commit
<1>8. QED
  BY <1>3, <1>4, <1>5, <1>6, <1>7 DEF Statement

\* A call under way is left alone by a step of anybody else, or ends, or
\* executes a statement.
LEMMA StepOfACall ==
  ASSUME TypeOK, NEW s \in Sessions, InTransaction(s), [Next]_vars
  PROVE  \/ Statement(s)
         \/ \E f : End(s, f)
         \/ UNCHANGED <<pc[s], targets[s], dirty[s]>>
<1>1. CASE \E r \in Runs, k \in Keys, c \in Contents :
             WriteUnchanged(r, k, c) \/ ReadCurrent(r, k, c)
  <2>1. PICK r \in Runs : pc[r] = "idle" /\ UNCHANGED <<dirty, targets>>
                         /\ (pc' = pc \/ \E v : pc' = [pc EXCEPT ![r] = v])
    BY <1>1 DEF WriteUnchanged, ReadCurrent, Goto
  <2>2. s # r
    BY <2>1 DEF InTransaction
  <2>3. QED
    BY <2>1, <2>2 DEF TypeOK
<1>2. CASE \E o \in Operators, r \in Runs : SelectTargets(o, r)
  <2>1. PICK o \in Operators : /\ pc[o] = "idle" /\ UNCHANGED dirty
                              /\ \E v : targets' = [targets EXCEPT ![o] = v]
                              /\ pc' = [pc EXCEPT ![o] = "rbDemote"]
    BY <1>2 DEF SelectTargets, Take, Goto
  <2>2. s # o
    BY <2>1 DEF InTransaction
  <2>3. QED
    BY <2>1, <2>2 DEF TypeOK
<1>3. ASSUME NEW t \in Sessions,
             Statement(t) \/ CommitUnacknowledged(t) \/ Lose(t) \/ DeadlockVictim(t)
      PROVE  \/ Statement(s)
             \/ \E f : End(s, f)
             \/ UNCHANGED <<pc[s], targets[s], dirty[s]>>
  <2>1. CASE t = s
    BY <1>3, <2>1 DEF CommitUnacknowledged, Lose, DeadlockVictim
  <2>2. CASE t # s
    <3>1. ASSUME NEW f, End(t, f) PROVE UNCHANGED <<pc[s], targets[s], dirty[s]>>
      BY <2>2, <3>1 DEF End, TypeOK
    <3>2. CASE Demote(t) \/ Insert(t) \/ RbDemote(t) \/ RbPromote(t)
      BY <2>2, <3>2 DEF Demote, Insert, RbDemote, RbPromote, Write, Take, Goto, TypeOK
    <3>3. CASE NoPrior(t) \/ UniqueViolation(t) \/ Commit(t)
                 \/ CommitUnacknowledged(t) \/ Lose(t) \/ DeadlockVictim(t)
      BY <3>1, <3>3 DEF NoPrior, UniqueViolation, Commit, CommitUnacknowledged,
                        Lose, DeadlockVictim
    <3>4. QED
      BY <1>3, <3>2, <3>3 DEF Statement
  <2>3. QED
    BY <2>1, <2>2
<1>4. CASE UNCHANGED vars
  BY <1>4 DEF vars
<1>5. QED
  BY <1>1, <1>2, <1>3, <1>4 DEF Next

\* No step gives a call more to do, and every statement executed leaves it
\* less: whatever the others write, a call ends after a number of statements
\* bounded when it began (observation.go:160, observation.go:243).
THEOREM CallsShrinkHolds == Spec => [][CallsShrink]_vars
<1>1. ChainInv /\ FiniteRows /\ [Next]_vars => [CallsShrink]_vars
  <2> SUFFICES ASSUME ChainInv, FiniteRows, [Next]_vars,
                      NEW s \in Sessions, InTransaction(s)
               PROVE  /\ StatementsLeft(s) \in Nat \ {0}
                      /\ StatementsLeft(s)' \in 0..StatementsLeft(s)
                      /\ Statement(s) => StatementsLeft(s)' # StatementsLeft(s)
    BY DEF CallsShrink
  <2>1. InductiveInvariant /\ TypeOK
    BY DEF ChainInv, InductiveInvariant, TypeInv
  <2>2. StatementsLeft(s) \in Nat \ {0}
    BY <2>1, SomethingIsLeft
  <2>3. CASE Statement(s)
    <3>1. StatementsLeft(s)' \in 0..(StatementsLeft(s) - 1)
      BY <2>1, <2>3, StatementsShrink
    <3>2. QED
      BY <2>2, <3>1
  <2>4. CASE ~Statement(s) /\ \E f : End(s, f)
    <3>1. StatementsLeft(s)' = 0
      BY <2>1, <2>4, NothingIsLeft
    <3>2. QED
      BY <2>2, <2>4, <3>1
  <2>5. CASE ~Statement(s) /\ UNCHANGED <<pc[s], targets[s], dirty[s]>>
    <3>1. StatementsLeft(s)' = StatementsLeft(s)
      BY <2>5 DEF StatementsLeft, Listed
    <3>2. QED
      BY <2>2, <2>5, <3>1
  <2>6. QED
    BY <2>1, <2>3, <2>4, <2>5, StepOfACall
<1>2. QED
  BY <1>1, ChainInvariant, RowsStayFinite, PTL DEF Spec
=============================================================================
