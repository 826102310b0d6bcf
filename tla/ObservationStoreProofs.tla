----------------------- MODULE ObservationStoreProofs -----------------------
(***************************************************************************)
(* Invariants of ObservationStore, proved for every set of keys, contents, *)
(* runs and operators.                                                     *)
(***************************************************************************)
EXTENDS ObservationStore, FiniteSetTheorems, TLAPS

NextRow(p) == <<p[1], p[2] + 1>>
PriorRow(p) == <<p[1], p[2] - 1>>

-----------------------------------------------------------------------------
(* The shape of the table and of the open transactions.  TypeOK alone is   *)
(* not inductive: RbPromote reads the row before its target, which exists  *)
(* because the versions of a key have no gap, and they have none because   *)
(* an insert follows a row that exists.                                    *)

NoGap(f) == \A p \in DOMAIN f : \A v \in 1..p[2] : <<p[1], v>> \in DOMAIN f

RunShape(r) ==
  /\ pc[r] \in {"idle", "demote", "insert", "commit", "stopped"}
  /\ pc[r] \in {"demote", "insert", "commit"} =>
       /\ target[r] \in Keys \X Nat
       /\ input[r] \in Contents
       /\ target[r][2] > 0 => target[r] \in DOMAIN table
  /\ pc[r] = "demote" => target[r][2] > 0
  /\ pc[r] \in {"idle", "demote", "stopped"} => DOMAIN dirty[r] = {}
  /\ pc[r] = "insert" => DOMAIN dirty[r] \subseteq {target[r]}
  /\ pc[r] = "commit" =>
       DOMAIN dirty[r] \subseteq {target[r], NextRow(target[r])}

OperatorShape(o) ==
  /\ pc[o] \in {"idle", "rbDemote", "rbPromote", "commit"}
  /\ targets[o] \subseteq DOMAIN table
  /\ pc[o] \in {"rbDemote", "rbPromote"} => target[o] \in targets[o]
  /\ pc[o] = "rbPromote" => target[o][2] > 1
  /\ DOMAIN dirty[o] \subseteq DOMAIN table

Shape ==
  /\ NoGap(table)
  /\ \A r \in Runs : RunShape(r)
  /\ \A o \in Operators : OperatorShape(o)

TypeInv == TypeOK /\ Shape

LEMMA OverlayDomain ==
  ASSUME NEW d, NEW f
  PROVE  DOMAIN Overlay(d, f) = DOMAIN d \cup DOMAIN f
BY DEF Overlay

LEMMA OverlayApply ==
  ASSUME NEW d, NEW f, NEW p \in DOMAIN d \cup DOMAIN f
  PROVE  Overlay(d, f)[p] = IF p \in DOMAIN d THEN d[p] ELSE f[p]
BY DEF Overlay

LEMMA OverlayIsTable ==
  ASSUME NEW d, NEW f, IsTable(d), IsTable(f)
  PROVE  IsTable(Overlay(d, f))
BY DEF Overlay, IsTable

LEMMA ImagesAreRows ==
  ASSUME NEW row \in Row
  PROVE  /\ Demoted(row) \in Row
         /\ Rejected(row) \in Row
         /\ Restored(row) \in Row
BY DEF Row, Demoted, Rejected, Restored

\* Writing a row image keeps the images of every session a table.
LEMMA WriteKeepsTables ==
  ASSUME TypeInv, NEW s \in Sessions, NEW p \in Keys \X Version, NEW image \in Row,
         Write(s, p, image)
  PROVE  /\ DOMAIN dirty' = Sessions
         /\ \A t \in Sessions : IsTable(dirty'[t])
         /\ dirty'[s] = Overlay([q \in {p} |-> image], dirty[s])
         /\ DOMAIN dirty'[s] = DOMAIN dirty[s] \cup {p}
         /\ \A t \in Sessions \ {s} : dirty'[t] = dirty[t]
<1>0. DOMAIN dirty = Sessions /\ \A t \in Sessions : IsTable(dirty[t])
  BY DEF TypeInv, TypeOK
<1>1. IsTable([q \in {p} |-> image])
  BY DEF IsTable
<1>2. dirty' = [dirty EXCEPT ![s] = Overlay([q \in {p} |-> image], @)]
  BY DEF Write
<1>3. /\ DOMAIN dirty' = Sessions
      /\ dirty'[s] = Overlay([q \in {p} |-> image], dirty[s])
      /\ \A t \in Sessions \ {s} : dirty'[t] = dirty[t]
  BY <1>0, <1>2
<1>4. IsTable(dirty'[s])
  BY <1>0, <1>1, <1>3, OverlayIsTable
<1>5. DOMAIN dirty'[s] = DOMAIN dirty[s] \cup {p}
  BY <1>3 DEF Overlay
<1>6. QED
  BY <1>0, <1>3, <1>4, <1>5

-----------------------------------------------------------------------------

LEMMA InitTypeInv == Init => TypeInv
BY DEF Init, TypeInv, TypeOK, Shape, NoGap, RunShape, OperatorShape, IsTable,
       NoRows, NoTarget, Sessions, Statements, Failures, Version

\* A step that only ends transaction s, whatever its outcome, keeps the shape
\* of the table it leaves behind.
LEMMA EndTypeInv ==
  ASSUME TypeInv, NEW s \in Sessions, NEW f \in Failures, End(s, f),
         UNCHANGED table
  PROVE  TypeInv'
<1>1. TypeOK'
  BY DEF TypeInv, TypeOK, End, IsTable, NoRows, NoTarget, Statements, Sessions
<1>2. NoGap(table)'
  BY DEF TypeInv, Shape, NoGap
<1>3. ASSUME NEW r \in Runs PROVE RunShape(r)'
  BY <1>3, SessionsAssumption
     DEF TypeInv, TypeOK, Shape, RunShape, End, NoRows, Sessions, NextRow
<1>4. ASSUME NEW o \in Operators PROVE OperatorShape(o)'
  BY <1>4, SessionsAssumption
     DEF TypeInv, TypeOK, Shape, OperatorShape, End, NoRows, Sessions
<1>5. QED
  BY <1>1, <1>2, <1>3, <1>4 DEF TypeInv, Shape

LEMMA ReadsTypeInv ==
  ASSUME TypeInv, NEW r \in Runs, NEW k \in Keys, NEW c \in Contents,
         WriteUnchanged(r, k, c) \/ ReadCurrent(r, k, c)
  PROVE  TypeInv'
<1>1. TypeOK'
  <2>1. CASE WriteUnchanged(r, k, c)
    BY <2>1 DEF TypeInv, TypeOK, WriteUnchanged, IsTable
  <2>2. CASE ReadCurrent(r, k, c)
    <3>1. CurrentRows(k) \subseteq DOMAIN table
      BY DEF CurrentRows
    <3>2. r \in Sessions
      BY DEF Sessions
    <3>3. target'[r] \in Keys \X Nat
      BY <2>2, <3>1, <3>2 DEF TypeInv, TypeOK, ReadCurrent, IsTable, Version
    <3>4. QED
      BY <2>2, <3>2, <3>3
         DEF TypeInv, TypeOK, ReadCurrent, IsTable, Goto, Statements
  <2>3. QED
    BY <2>1, <2>2
<1>2. NoGap(table)'
  BY DEF TypeInv, Shape, NoGap, WriteUnchanged, ReadCurrent
<1>3. ASSUME NEW q \in Runs PROVE RunShape(q)'
  <2>1. CASE WriteUnchanged(r, k, c)
    BY <1>3, <2>1 DEF TypeInv, Shape, RunShape, WriteUnchanged, NextRow
  <2>2. CASE ReadCurrent(r, k, c)
    <3>1. CurrentRows(k) \subseteq DOMAIN table
      BY DEF CurrentRows
    <3>2. r \in Sessions
      BY DEF Sessions
    <3>3. CASE q = r
      BY <2>2, <3>1, <3>2, <3>3
         DEF TypeInv, TypeOK, Shape, RunShape, ReadCurrent, Goto, IsTable, Version
    <3>4. CASE q # r
      <4>1. /\ RunShape(q)
            /\ UNCHANGED <<pc[q], target[q], input[q], dirty[q], table>>
        BY <1>3, <2>2, <3>2, <3>4
           DEF TypeInv, TypeOK, Shape, ReadCurrent, Goto, Sessions
      <4>2. QED
        BY <4>1 DEF RunShape, NextRow
    <3>5. QED
      BY <3>3, <3>4
  <2>3. QED
    BY <2>1, <2>2
<1>4. ASSUME NEW o \in Operators PROVE OperatorShape(o)'
  BY <1>4, SessionsAssumption
     DEF TypeInv, TypeOK, Shape, OperatorShape, WriteUnchanged, ReadCurrent,
         Goto, Sessions
<1>5. QED
  BY <1>1, <1>2, <1>3, <1>4 DEF TypeInv, Shape

LEMMA DemoteTypeInv ==
  ASSUME TypeInv, NEW r \in Runs, Demote(r)
  PROVE  TypeInv'
<1> DEFINE image == Demoted(View(r)[target[r]])
<1>1. r \in Sessions /\ target[r] \in DOMAIN table /\ DOMAIN dirty[r] = {}
  BY DEF TypeInv, TypeOK, Shape, RunShape, Demote, Sessions
<1>2. View(r)[target[r]] = table[target[r]]
  BY <1>1 DEF View, Overlay
<1>3. target[r] \in Keys \X Version /\ table[target[r]] \in Row
  BY <1>1 DEF TypeInv, TypeOK, IsTable
<1>4. image \in Row
  BY <1>2, <1>3, ImagesAreRows
<1>5. Write(r, target[r], image)
  BY DEF Demote
<1> HIDE DEF image
<1>6. /\ DOMAIN dirty' = Sessions
      /\ \A t \in Sessions : IsTable(dirty'[t])
      /\ DOMAIN dirty'[r] = {target[r]}
      /\ \A t \in Sessions \ {r} : dirty'[t] = dirty[t]
  BY <1>1, <1>3, <1>4, <1>5, WriteKeepsTables
<1>7. TypeOK'
  BY <1>1, <1>6 DEF TypeInv, TypeOK, Demote, IsTable, Goto, Statements
<1>8. ASSUME NEW q \in Runs PROVE RunShape(q)'
  BY <1>1, <1>6, <1>8
     DEF TypeInv, TypeOK, Shape, RunShape, Demote, Goto, Sessions, NextRow
<1>9. ASSUME NEW o \in Operators PROVE OperatorShape(o)'
  BY <1>1, <1>6, <1>9, SessionsAssumption
     DEF TypeInv, TypeOK, Shape, OperatorShape, Demote, Goto, Sessions
<1>10. NoGap(table)'
  BY DEF TypeInv, Shape, NoGap, Demote
<1>11. QED
  BY <1>7, <1>8, <1>9, <1>10 DEF TypeInv, Shape

LEMMA InsertTypeInv ==
  ASSUME TypeInv, NEW r \in Runs, Insert(r)
  PROVE  TypeInv'
<1> DEFINE image == [content |-> input[r], run |-> r, current |-> TRUE,
                     superseded |-> FALSE, rolledBack |-> FALSE]
<1>1. /\ r \in Sessions
      /\ target[r] \in Keys \X Nat
      /\ input[r] \in Contents
      /\ Written(r) = NextRow(target[r])
      /\ DOMAIN dirty[r] \subseteq {target[r]}
  BY DEF TypeInv, TypeOK, Shape, RunShape, Insert, Sessions, Written, NextRow
<1>2. Written(r) \in Keys \X Version
  BY <1>1 DEF NextRow, Version
<1>3. image \in Row
  BY <1>1 DEF Row
<1>4. Write(r, Written(r), image)
  BY DEF Insert
<1> HIDE DEF image
<1>5. /\ DOMAIN dirty' = Sessions
      /\ \A t \in Sessions : IsTable(dirty'[t])
      /\ DOMAIN dirty'[r] \subseteq {target[r], NextRow(target[r])}
      /\ \A t \in Sessions \ {r} : dirty'[t] = dirty[t]
  <2>1. r \in Sessions
    BY <1>1
  <2>2. /\ DOMAIN dirty' = Sessions
        /\ \A t \in Sessions : IsTable(dirty'[t])
        /\ DOMAIN dirty'[r] = DOMAIN dirty[r] \cup {Written(r)}
        /\ \A t \in Sessions \ {r} : dirty'[t] = dirty[t]
    BY <2>1, <1>2, <1>3, <1>4, WriteKeepsTables
  <2>3. QED
    BY <1>1, <2>2
<1>6. TypeOK'
  BY <1>1, <1>5 DEF TypeInv, TypeOK, Insert, IsTable, Goto, Statements
<1>7. ASSUME NEW q \in Runs PROVE RunShape(q)'
  BY <1>1, <1>5, <1>7
     DEF TypeInv, TypeOK, Shape, RunShape, Insert, Goto, Sessions, NextRow
<1>8. ASSUME NEW o \in Operators PROVE OperatorShape(o)'
  BY <1>1, <1>5, <1>8, SessionsAssumption
     DEF TypeInv, TypeOK, Shape, OperatorShape, Insert, Goto, Sessions
<1>9. NoGap(table)'
  BY DEF TypeInv, Shape, NoGap, Insert
<1>10. QED
  BY <1>6, <1>7, <1>8, <1>9 DEF TypeInv, Shape

LEMMA SelectTargetsTypeInv ==
  ASSUME TypeInv, NEW o \in Operators, NEW r \in Runs, SelectTargets(o, r)
  PROVE  TypeInv'
<1>1. o \in Sessions
  BY DEF Sessions
<1>2. PICK rows \in SUBSET DOMAIN table :
        /\ targets' = [targets EXCEPT ![o] = rows]
        /\ \E p \in rows : Take(o, p)
  BY DEF SelectTargets
<1>3. PICK p \in rows : target' = [target EXCEPT ![o] = p]
                       /\ pc' = [pc EXCEPT ![o] = "rbDemote"]
  BY <1>2 DEF Take, Goto
<1>4. rows \subseteq Keys \X Version /\ p \in Keys \X Nat
  BY <1>2, <1>3 DEF TypeInv, TypeOK, IsTable, Version
<1>5. TypeOK'
  BY <1>1, <1>2, <1>3, <1>4
     DEF TypeInv, TypeOK, SelectTargets, Statements, Failures, IsTable
<1>6. ASSUME NEW q \in Runs PROVE RunShape(q)'
  <2>1. /\ RunShape(q)
        /\ UNCHANGED <<pc[q], target[q], input[q], dirty[q], table>>
    BY <1>1, <1>3, <1>6, SessionsAssumption
       DEF TypeInv, TypeOK, Shape, SelectTargets, Sessions
  <2>2. QED
    BY <2>1 DEF RunShape, NextRow
<1>7. ASSUME NEW q \in Operators PROVE OperatorShape(q)'
  BY <1>1, <1>2, <1>3, <1>7
     DEF TypeInv, TypeOK, Shape, OperatorShape, SelectTargets, Sessions
<1>8. NoGap(table)'
  BY DEF TypeInv, Shape, NoGap, SelectTargets
<1>9. QED
  BY <1>5, <1>6, <1>7, <1>8 DEF TypeInv, Shape

LEMMA RbDemoteTypeInv ==
  ASSUME TypeInv, NEW o \in Operators, RbDemote(o)
  PROVE  TypeInv'
<1> DEFINE image == Rejected(View(o)[target[o]])
<1>1. o \in Sessions /\ target[o] \in DOMAIN table
  BY DEF TypeInv, TypeOK, Shape, OperatorShape, RbDemote, Sessions
<1>2. target[o] \in Keys \X Version /\ View(o)[target[o]] \in Row
  <2>1. IsTable(View(o))
    BY <1>1, OverlayIsTable DEF TypeInv, TypeOK, View
  <2>2. target[o] \in DOMAIN View(o)
    BY <1>1, OverlayDomain DEF View
  <2>3. QED
    BY <2>1, <2>2 DEF IsTable
<1>3. image \in Row
  BY <1>2, ImagesAreRows
<1>4. Write(o, target[o], image)
  BY DEF RbDemote
<1> HIDE DEF image
<1>5. /\ DOMAIN dirty' = Sessions
      /\ \A t \in Sessions : IsTable(dirty'[t])
      /\ DOMAIN dirty'[o] = DOMAIN dirty[o] \cup {target[o]}
      /\ \A t \in Sessions \ {o} : dirty'[t] = dirty[t]
  BY <1>1, <1>2, <1>3, <1>4, WriteKeepsTables
<1>6. TypeOK'
  BY <1>1, <1>5 DEF TypeInv, TypeOK, RbDemote, IsTable, Goto, Statements
<1>7. ASSUME NEW q \in Runs PROVE RunShape(q)'
  <2>1. /\ RunShape(q)
        /\ UNCHANGED <<pc[q], target[q], input[q], dirty[q], table>>
    BY <1>1, <1>5, <1>7, SessionsAssumption
       DEF TypeInv, TypeOK, Shape, RbDemote, Goto, Sessions
  <2>2. QED
    BY <2>1 DEF RunShape, NextRow
<1>8. ASSUME NEW q \in Operators PROVE OperatorShape(q)'
  BY <1>1, <1>5, <1>8
     DEF TypeInv, TypeOK, Shape, OperatorShape, RbDemote, Goto, Sessions
<1>9. NoGap(table)'
  BY DEF TypeInv, Shape, NoGap, RbDemote
<1>10. QED
  BY <1>6, <1>7, <1>8, <1>9 DEF TypeInv, Shape

LEMMA RbPromoteTypeInv ==
  ASSUME TypeInv, NEW o \in Operators, RbPromote(o)
  PROVE  TypeInv'
<1> DEFINE image == Restored(View(o)[Written(o)])
<1>1. /\ o \in Sessions
      /\ target[o] \in DOMAIN table
      /\ target[o] \in Keys \X Version
      /\ target[o][2] > 1
      /\ Written(o) = PriorRow(target[o])
  BY DEF TypeInv, TypeOK, Shape, OperatorShape, RbPromote, Sessions, IsTable,
         Written, PriorRow
<1>2. Written(o) \in DOMAIN table
  <2>1. target[o][2] - 1 \in 1..target[o][2]
    BY <1>1 DEF Version
  <2>2. QED
    BY <1>1, <2>1 DEF TypeInv, Shape, NoGap, PriorRow
<1>3. Written(o) \in Keys \X Version /\ View(o)[Written(o)] \in Row
  <2>1. IsTable(View(o))
    BY <1>1, OverlayIsTable DEF TypeInv, TypeOK, View
  <2>2. Written(o) \in DOMAIN View(o)
    BY <1>2, OverlayDomain DEF View
  <2>3. QED
    BY <2>1, <2>2 DEF IsTable
<1>4. image \in Row
  BY <1>3, ImagesAreRows
<1>5. Write(o, Written(o), image)
  BY DEF RbPromote
<1> HIDE DEF image
<1>6. /\ DOMAIN dirty' = Sessions
      /\ \A t \in Sessions : IsTable(dirty'[t])
      /\ DOMAIN dirty'[o] = DOMAIN dirty[o] \cup {Written(o)}
      /\ \A t \in Sessions \ {o} : dirty'[t] = dirty[t]
  BY <1>1, <1>3, <1>4, <1>5, WriteKeepsTables
<1>7. \/ pc' = [pc EXCEPT ![o] = "commit"] /\ UNCHANGED target
      \/ \E p \in targets[o] : /\ target' = [target EXCEPT ![o] = p]
                              /\ pc' = [pc EXCEPT ![o] = "rbDemote"]
  BY DEF RbPromote, Take, Goto
<1>8. targets[o] \subseteq DOMAIN table /\ targets[o] \subseteq Keys \X Nat
  BY <1>1 DEF TypeInv, TypeOK, Shape, OperatorShape, IsTable, Version
<1>9. TypeOK'
  <2>1. target' \in [Sessions -> (Keys \X Nat) \cup {NoTarget}]
    BY <1>1, <1>7, <1>8 DEF TypeInv, TypeOK
  <2>2. pc' \in [Sessions -> Statements]
    BY <1>1, <1>7 DEF TypeInv, TypeOK, Statements
  <2>3. QED
    BY <1>6, <2>1, <2>2 DEF TypeInv, TypeOK, RbPromote, IsTable
<1>10. ASSUME NEW q \in Runs PROVE RunShape(q)'
  <2>1. /\ RunShape(q)
        /\ UNCHANGED <<pc[q], target[q], input[q], dirty[q], table>>
    BY <1>1, <1>6, <1>7, <1>10, SessionsAssumption
       DEF TypeInv, TypeOK, Shape, RbPromote, Sessions
  <2>2. QED
    BY <2>1 DEF RunShape, NextRow
<1>11. ASSUME NEW q \in Operators PROVE OperatorShape(q)'
  BY <1>1, <1>2, <1>6, <1>7, <1>8, <1>11
     DEF TypeInv, TypeOK, Shape, OperatorShape, RbPromote, Sessions
<1>12. NoGap(table)'
  BY DEF TypeInv, Shape, NoGap, RbPromote
<1>13. QED
  BY <1>9, <1>10, <1>11, <1>12 DEF TypeInv, Shape

\* A commit adds at most the version after one that exists.
LEMMA CommitTypeInv ==
  ASSUME TypeInv, NEW s \in Sessions, NEW f \in Failures,
         pc[s] = "commit", table' = View(s), End(s, f)
  PROVE  TypeInv'
<1>1. IsTable(table') /\ DOMAIN table' = DOMAIN dirty[s] \cup DOMAIN table
  BY OverlayIsTable, OverlayDomain DEF TypeInv, TypeOK, View
<1>2. TypeOK'
  BY <1>1
     DEF TypeInv, TypeOK, End, IsTable, NoRows, NoTarget, Statements, Sessions
<1>3. NoGap(table)'
  <2>1. ASSUME NEW p \in DOMAIN table', NEW v \in 1..p[2]
        PROVE  <<p[1], v>> \in DOMAIN table'
    <3>1. CASE p \in DOMAIN table
      BY <1>1, <2>1, <3>1 DEF TypeInv, Shape, NoGap
    <3>2. CASE p \notin DOMAIN table
      <4>1. s \in Runs /\ p \in {target[s], NextRow(target[s])}
        BY <1>1, <2>1, <3>2 DEF TypeInv, Shape, RunShape, OperatorShape, Sessions
      <4>2. /\ target[s] \in Keys \X Nat
            /\ target[s][2] > 0 => target[s] \in DOMAIN table
        BY <4>1 DEF TypeInv, Shape, RunShape
      <4>3. p \in Keys \X Version
        BY <1>1, <2>1 DEF IsTable
      <4>4. p = NextRow(target[s])
        BY <3>2, <4>1, <4>2, <4>3 DEF Version
      <4>5. CASE v = p[2]
        BY <2>1, <4>3, <4>5
      <4>6. CASE v # p[2]
        <5>1. v \in 1..target[s][2] /\ target[s] \in DOMAIN table
          BY <4>2, <4>3, <4>4, <4>6 DEF NextRow, Version
        <5>2. <<target[s][1], v>> \in DOMAIN table
          BY <5>1 DEF TypeInv, Shape, NoGap
        <5>3. QED
          BY <1>1, <4>2, <4>4, <5>2 DEF NextRow
      <4>7. QED
        BY <4>5, <4>6
    <3>3. QED
      BY <3>1, <3>2
  <2>2. QED
    BY <2>1 DEF NoGap
<1>4. DOMAIN table \subseteq DOMAIN table'
  BY <1>1
<1>5. ASSUME NEW r \in Runs PROVE RunShape(r)'
  <2>1. CASE r = s
    BY <1>5, <2>1 DEF TypeInv, TypeOK, RunShape, End, NoRows
  <2>2. CASE r # s
    <3>1. /\ RunShape(r)
          /\ UNCHANGED <<pc[r], target[r], input[r], dirty[r]>>
      BY <1>5, <2>2 DEF TypeInv, TypeOK, Shape, End, Sessions
    <3>2. QED
      BY <1>4, <3>1 DEF RunShape, NextRow
  <2>3. QED
    BY <2>1, <2>2
<1>6. ASSUME NEW o \in Operators PROVE OperatorShape(o)'
  BY <1>4, <1>6, SessionsAssumption
     DEF TypeInv, TypeOK, Shape, OperatorShape, End, NoRows, Sessions
<1>7. QED
  BY <1>2, <1>3, <1>5, <1>6 DEF TypeInv, Shape

-----------------------------------------------------------------------------

LEMMA NextTypeInv == TypeInv /\ [Next]_vars => TypeInv'
<1> SUFFICES ASSUME TypeInv, [Next]_vars PROVE TypeInv'
  OBVIOUS
<1>1. ASSUME NEW r \in Runs, NEW k \in Keys, NEW c \in Contents,
             WriteUnchanged(r, k, c) \/ ReadCurrent(r, k, c)
      PROVE  TypeInv'
  BY <1>1, ReadsTypeInv
<1>2. ASSUME NEW o \in Operators, NEW r \in Runs, SelectTargets(o, r)
      PROVE  TypeInv'
  BY <1>2, SelectTargetsTypeInv
<1>3. ASSUME NEW s \in Sessions, Statement(s) PROVE TypeInv'
  <2>1. CASE s \in Runs /\ Demote(s)
    BY <2>1, DemoteTypeInv
  <2>2. CASE s \in Runs /\ Insert(s)
    BY <2>2, InsertTypeInv
  <2>3. CASE s \in Operators /\ RbDemote(s)
    BY <2>3, RbDemoteTypeInv
  <2>4. CASE s \in Operators /\ RbPromote(s)
    BY <2>4, RbPromoteTypeInv
  <2>5. CASE s \in Operators /\ NoPrior(s)
    BY <1>3, <2>5, EndTypeInv DEF NoPrior, Failures
  <2>6. CASE UniqueViolation(s)
    BY <1>3, <2>6, EndTypeInv DEF UniqueViolation, Failures
  <2>7. CASE Commit(s)
    BY <1>3, <2>7, CommitTypeInv DEF Commit, Failures
  <2>8. QED
    BY <1>3, <2>1, <2>2, <2>3, <2>4, <2>5, <2>6, <2>7 DEF Statement
<1>4. ASSUME NEW s \in Sessions, CommitUnacknowledged(s) PROVE TypeInv'
  BY <1>4, CommitTypeInv DEF CommitUnacknowledged, Failures
<1>5. ASSUME NEW s \in Sessions, Lose(s) \/ DeadlockVictim(s) PROVE TypeInv'
  BY <1>5, EndTypeInv DEF Lose, DeadlockVictim, Failures
<1>6. CASE UNCHANGED vars
  BY <1>6 DEF vars, TypeInv, TypeOK, Shape, NoGap, RunShape, OperatorShape,
              IsTable
<1>7. QED
  BY <1>1, <1>2, <1>3, <1>4, <1>5, <1>6 DEF Next

\* Every reachable state is well typed: in particular every row image a
\* statement computes comes from a row that exists, so RollbackRun never finds
\* the version before its target missing (observation.go:252).
THEOREM TypeCorrect == Spec => []TypeOK
<1>1. Init => TypeInv
  BY InitTypeInv
<1>2. TypeInv /\ [Next]_vars => TypeInv'
  BY NextTypeInv
<1>3. TypeInv => TypeOK
  BY DEF TypeInv
<1>4. QED
  BY <1>1, <1>2, <1>3, PTL DEF Spec

-----------------------------------------------------------------------------
(* What is published.  A transaction that commits replaces the published   *)
(* row of a key correctly because of what it knows of the committed table, *)
(* and it knows it still at its commit because the rows it depends on are  *)
(* locked: PubInv relates the images of every open transaction to the      *)
(* committed rows they were computed from.                                 *)

OneCurrent(f) ==
  \A p, q \in DOMAIN f :
    p[1] = q[1] /\ f[p].current /\ f[q].current => p = q

SomeCurrent(f) ==
  \A p \in DOMAIN f : \E q \in DOMAIN f : q[1] = p[1] /\ f[q].current

ReasonsAfterCurrent(f) ==
  \A p, q \in DOMAIN f :
    p[1] = q[1] /\ f[q].current => (f[p].rolledBack <=> p[2] > q[2])

SupersededNotCurrent(f) ==
  \A p \in DOMAIN f : f[p].superseded <=> ~f[p].current

SuccessiveDiffer(f) ==
  \A p \in DOMAIN f :
    NextRow(p) \in DOMAIN f => f[p].content # f[NextRow(p)].content

TablePublished(f) ==
  /\ OneCurrent(f)
  /\ SomeCurrent(f)
  /\ ReasonsAfterCurrent(f)
  /\ SupersededNotCurrent(f)
  /\ SuccessiveDiffer(f)

RowLocks ==
  \A s, t \in Sessions : s # t => DOMAIN dirty[s] \cap DOMAIN dirty[t] = {}

RunPub(r) ==
  LET t == target[r]
      n == NextRow(t)
  IN  /\ pc[r] \in {"demote", "insert", "commit"} /\ t[2] > 0 =>
           table[t].content # input[r]
      /\ pc[r] \in {"insert", "commit"} /\ t[2] > 0 =>
           t \in DOMAIN dirty[r] /\ dirty[r][t] = Demoted(table[t])
      /\ pc[r] = "insert" => n \notin DOMAIN dirty[r]
      /\ pc[r] = "commit" =>
           /\ n \in DOMAIN dirty[r] /\ n \notin DOMAIN table
           /\ dirty[r][n] = [content |-> input[r], run |-> r, current |-> TRUE,
                             superseded |-> FALSE, rolledBack |-> FALSE]
           /\ t[2] > 0 => table[t].current

OperatorPub(o) ==
  /\ \A p, q \in targets[o] : p[1] = q[1] => p = q
  /\ \A q \in DOMAIN dirty[o] :
       \E p \in targets[o] : q = p \/ (p[2] > 1 /\ q = PriorRow(p))
  /\ \A p \in targets[o] :
       p \in DOMAIN dirty[o] =>
         /\ p[2] > 1
         /\ dirty[o][p] = Rejected(table[p])
         /\ PriorRow(p) \in DOMAIN dirty[o] \/ (pc[o] = "rbPromote" /\ target[o] = p)
  /\ \A p \in targets[o] :
       PriorRow(p) \in DOMAIN dirty[o] =>
         /\ p \in DOMAIN dirty[o]
         /\ dirty[o][PriorRow(p)] = Restored(table[PriorRow(p)])
         /\ table[p].current \/ table[PriorRow(p)].current
         /\ ~(pc[o] = "rbPromote" /\ target[o] = p)
  /\ pc[o] = "idle" => targets[o] = {}
  /\ pc[o] = "rbDemote" => target[o] \notin DOMAIN dirty[o]
  /\ pc[o] = "rbPromote" => target[o] \in DOMAIN dirty[o]
  /\ pc[o] = "commit" => targets[o] \subseteq DOMAIN dirty[o]

PubInv ==
  /\ TablePublished(table)
  /\ RowLocks
  /\ \A r \in Runs : RunPub(r)
  /\ \A o \in Operators : OperatorPub(o)

LEMMA InitPubInv == Init => PubInv
<1> SUFFICES ASSUME Init PROVE PubInv
  OBVIOUS
<1>1. TablePublished(table)
  BY DEF Init, TablePublished, OneCurrent, SomeCurrent, ReasonsAfterCurrent,
         SupersededNotCurrent, SuccessiveDiffer, NoRows
<1>2. RowLocks
  BY DEF Init, RowLocks, NoRows
<1>3. ASSUME NEW r \in Runs PROVE RunPub(r)
  BY <1>3 DEF Init, RunPub, Sessions
<1>4. ASSUME NEW o \in Operators PROVE OperatorPub(o)
  BY <1>4 DEF Init, OperatorPub, Sessions, NoRows
<1>5. QED
  BY <1>1, <1>2, <1>3, <1>4 DEF PubInv

\* A statement that does not wait writes a row nobody else has written.
LEMMA WriteKeepsRowLocks ==
  ASSUME TypeInv, RowLocks, NEW s \in Sessions, NEW p \in Keys \X Version,
         NEW image \in Row, Write(s, p, image), RowHolders(s, p) = {}
  PROVE  RowLocks'
<1>1. /\ DOMAIN dirty'[s] = DOMAIN dirty[s] \cup {p}
      /\ \A t \in Sessions \ {s} : dirty'[t] = dirty[t]
  BY WriteKeepsTables
<1>2. \A t \in Sessions \ {s} : p \notin DOMAIN dirty[t]
  BY DEF RowHolders
<1>3. QED
  BY <1>1, <1>2 DEF RowLocks

LEMMA NoWaitNoHolder ==
  ASSUME NEW s, Waits(s) = {}, pc[s] \in {"demote", "insert", "rbDemote", "rbPromote"}
  PROVE  RowHolders(s, Written(s)) = {}
BY DEF Waits

\* The conditions on a session mention only the rows it has locked, its
\* target's content and the absence of a row it is about to add; they survive
\* a step that leaves the session and those rows alone.
LEMMA OtherRunKeepsPub ==
  ASSUME NEW r \in Runs, RunPub(r), RunShape(r),
         UNCHANGED <<pc[r], target[r], input[r], dirty[r]>>,
         \A p \in DOMAIN table :
           p \in DOMAIN table' /\ table'[p].content = table[p].content,
         \A p \in DOMAIN dirty[r] :
           /\ p \in DOMAIN table => table'[p] = table[p]
           /\ p \notin DOMAIN table => p \notin DOMAIN table'
  PROVE  RunPub(r)'
BY DEF RunPub, RunShape, NextRow

LEMMA OtherOperatorKeepsPub ==
  ASSUME NEW o \in Operators, OperatorPub(o), OperatorShape(o),
         UNCHANGED <<pc[o], target[o], targets[o], dirty[o]>>,
         \A p \in DOMAIN dirty[o] : table'[p] = table[p]
  PROVE  OperatorPub(o)'
BY DEF OperatorPub, OperatorShape, PriorRow

\* The same for every session but s, after a step that leaves the table alone.
LEMMA OthersKeepPub ==
  ASSUME TypeInv, PubInv, NEW s \in Sessions, UNCHANGED table,
         \A t \in Sessions \ {s} :
           UNCHANGED <<pc[t], target[t], input[t], targets[t], dirty[t]>>
  PROVE  /\ \A r \in Runs \ {s} : RunPub(r)'
         /\ \A o \in Operators \ {s} : OperatorPub(o)'
<1>1. ASSUME NEW r \in Runs \ {s} PROVE RunPub(r)'
  <2>1. RunPub(r) /\ RunShape(r) /\ r \in Sessions \ {s}
    BY <1>1 DEF TypeInv, Shape, PubInv, Sessions
  <2>2. QED
    BY <2>1, OtherRunKeepsPub
<1>2. ASSUME NEW o \in Operators \ {s} PROVE OperatorPub(o)'
  <2>1. OperatorPub(o) /\ OperatorShape(o) /\ o \in Sessions \ {s}
    BY <1>2 DEF TypeInv, Shape, PubInv, Sessions
  <2>2. QED
    BY <2>1, OtherOperatorKeepsPub
<1>3. QED
  BY <1>1, <1>2

LEMMA ReadsPubInv ==
  ASSUME TypeInv, PubInv, NEW r \in Runs, NEW k \in Keys, NEW c \in Contents,
         WriteUnchanged(r, k, c) \/ ReadCurrent(r, k, c)
  PROVE  PubInv'
<1>1. r \in Sessions /\ r \notin Operators /\ UNCHANGED <<table, dirty>>
  BY SessionsAssumption DEF Sessions, WriteUnchanged, ReadCurrent
<1>2. TablePublished(table)' /\ RowLocks'
  BY <1>1 DEF PubInv, TablePublished, OneCurrent, SomeCurrent,
     ReasonsAfterCurrent, SupersededNotCurrent, SuccessiveDiffer, RowLocks
<1>3. \A t \in Sessions \ {r} :
        UNCHANGED <<pc[t], target[t], input[t], targets[t], dirty[t]>>
  BY <1>1 DEF TypeInv, TypeOK, WriteUnchanged, ReadCurrent, Goto
<1>4. /\ \A q \in Runs \ {r} : RunPub(q)'
      /\ \A o \in Operators \ {r} : OperatorPub(o)'
  BY <1>1, <1>3, OthersKeepPub
<1>5. RunPub(r)'
  <2>1. CASE WriteUnchanged(r, k, c)
    BY <2>1 DEF PubInv, RunPub, WriteUnchanged
  <2>2. CASE ReadCurrent(r, k, c) /\ CurrentRows(k) = {}
    <3>1. pc'[r] = "insert" /\ target'[r] = <<k, 0>> /\ DOMAIN dirty'[r] = {}
      BY <1>1, <2>2 DEF TypeInv, TypeOK, Shape, RunShape, ReadCurrent, Goto
    <3>2. QED
      BY <3>1 DEF RunPub
  <2>3. CASE ReadCurrent(r, k, c) /\ CurrentRows(k) # {}
    <3>1. PICK p \in CurrentRows(k) : /\ ~Unchanged(table[p], c)
                                     /\ target' = [target EXCEPT ![r] = p]
                                     /\ pc' = [pc EXCEPT ![r] = "demote"]
      BY <2>3 DEF ReadCurrent, Goto
    <3>2. /\ pc'[r] = "demote" /\ target'[r] = p /\ input'[r] = c
          /\ table'[p].content # c
      BY <1>1, <2>3, <3>1 DEF TypeInv, TypeOK, ReadCurrent, Unchanged
    <3>3. QED
      BY <3>2 DEF RunPub
  <2>4. QED
    BY <2>1, <2>2, <2>3
<1>6. QED
  BY <1>1, <1>2, <1>4, <1>5 DEF PubInv

\* A transaction that ends with the table as it was releases its locks.
LEMMA EndPubInv ==
  ASSUME TypeInv, PubInv, NEW s \in Sessions, NEW f, End(s, f), UNCHANGED table
  PROVE  PubInv'
<1>1. /\ \A t \in Sessions \ {s} :
           UNCHANGED <<pc[t], target[t], input[t], targets[t], dirty[t]>>
      /\ DOMAIN dirty'[s] = {} /\ targets'[s] = {}
      /\ pc'[s] \in {"idle", "stopped"}
  BY DEF TypeInv, TypeOK, End, NoRows
<1>2. TablePublished(table)'
  BY DEF PubInv, TablePublished, OneCurrent, SomeCurrent,
     ReasonsAfterCurrent, SupersededNotCurrent, SuccessiveDiffer
<1>3. RowLocks'
  BY <1>1 DEF PubInv, RowLocks
<1>4. /\ \A q \in Runs \ {s} : RunPub(q)'
      /\ \A o \in Operators \ {s} : OperatorPub(o)'
  BY <1>1, OthersKeepPub
<1>5. s \in Runs => RunPub(s)'
  BY <1>1 DEF RunPub
<1>6. s \in Operators => OperatorPub(s)'
  BY <1>1 DEF OperatorPub
<1>7. QED
  BY <1>2, <1>3, <1>4, <1>5, <1>6 DEF PubInv

LEMMA DemotePubInv ==
  ASSUME TypeInv, PubInv, NEW r \in Runs, Demote(r)
  PROVE  PubInv'
<1> DEFINE image == Demoted(View(r)[target[r]])
<1>1. /\ r \in Sessions /\ r \notin Operators
      /\ target[r] \in DOMAIN table /\ DOMAIN dirty[r] = {}
      /\ target[r] \in Keys \X Nat
  BY SessionsAssumption
     DEF TypeInv, TypeOK, Shape, RunShape, Demote, Sessions
<1>2. image = Demoted(table[target[r]])
  BY <1>1 DEF View, Overlay
<1>3. target[r] \in Keys \X Version /\ table[target[r]] \in Row
  BY <1>1 DEF TypeInv, TypeOK, IsTable
<1>4. image \in Row
  BY <1>2, <1>3, ImagesAreRows
<1>5. Write(r, target[r], image)
  BY DEF Demote
<1> HIDE DEF image
<1>6. /\ dirty'[r] = Overlay([q \in {target[r]} |-> image], dirty[r])
      /\ DOMAIN dirty'[r] = {target[r]}
      /\ \A t \in Sessions \ {r} : dirty'[t] = dirty[t]
  <2>1. r \in Sessions /\ target[r] \in Keys \X Version
    BY <1>1, <1>3
  <2>2. /\ dirty'[r] = Overlay([q \in {target[r]} |-> image], dirty[r])
        /\ DOMAIN dirty'[r] = DOMAIN dirty[r] \cup {target[r]}
        /\ \A t \in Sessions \ {r} : dirty'[t] = dirty[t]
    BY <1>4, <1>5, <2>1, WriteKeepsTables
  <2>3. QED
    BY <1>1, <2>2
<1>7. dirty'[r][target[r]] = Demoted(table[target[r]])
  BY <1>2, <1>6 DEF Overlay
<1>8. RowLocks'
  <2>1. RowHolders(r, target[r]) = {}
    BY NoWaitNoHolder DEF Demote, Written
  <2>2. QED
    BY <1>1, <1>3, <1>4, <1>5, <2>1, WriteKeepsRowLocks DEF PubInv
<1>9. /\ UNCHANGED <<table, target, input, targets>>
      /\ pc' = [pc EXCEPT ![r] = "insert"]
  BY DEF Demote, Goto
<1>10. TablePublished(table)'
  BY <1>9 DEF PubInv, TablePublished, OneCurrent, SomeCurrent,
     ReasonsAfterCurrent, SupersededNotCurrent, SuccessiveDiffer
<1>11. \A t \in Sessions \ {r} :
         UNCHANGED <<pc[t], target[t], input[t], targets[t], dirty[t]>>
  BY <1>1, <1>6, <1>9 DEF TypeInv, TypeOK
<1>12. /\ \A q \in Runs \ {r} : RunPub(q)'
       /\ \A o \in Operators \ {r} : OperatorPub(o)'
  BY <1>1, <1>9, <1>11, OthersKeepPub
<1>13. RunPub(r)'
  <2>1. /\ pc[r] = "demote" /\ pc'[r] = "insert"
        /\ target[r][2] > 0 => table[target[r]].content # input[r]
    BY <1>1, <1>9 DEF TypeInv, TypeOK, PubInv, RunPub, Demote
  <2>2. NextRow(target[r]) # target[r]
    BY <1>1 DEF NextRow
  <2>3. QED
    BY <1>6, <1>7, <1>9, <2>1, <2>2 DEF RunPub
<1>14. QED
  BY <1>1, <1>8, <1>10, <1>12, <1>13 DEF PubInv

LEMMA InsertPubInv ==
  ASSUME TypeInv, PubInv, NEW r \in Runs, Insert(r)
  PROVE  PubInv'
<1> DEFINE t == target[r]
           n == NextRow(t)
           image == [content |-> input[r], run |-> r, current |-> TRUE,
                     superseded |-> FALSE, rolledBack |-> FALSE]
<1>1. /\ r \in Sessions /\ r \notin Operators
      /\ t \in Keys \X Nat /\ n \in Keys \X Version /\ n # t
      /\ t[2] > 0 => t \in DOMAIN table
      /\ input[r] \in Contents
      /\ DOMAIN dirty[r] \subseteq {t}
      /\ Written(r) = n
      /\ pc[r] = "insert"
  BY SessionsAssumption DEF TypeInv, TypeOK, Shape, RunShape, Insert, Sessions,
     Written, NextRow, Version
<1>2. image \in Row
  BY <1>1 DEF Row
<1>3. Write(r, n, image)
  BY <1>1 DEF Insert
<1>4. n \notin DOMAIN table
  BY <1>1 DEF Insert, PrimaryKeyTaken
<1>5. RunPub(r)
  BY DEF PubInv
<1>6. t[2] > 0 => table[t].current
  <2>1. SUFFICES ASSUME t[2] > 0 PROVE table[t].current
    OBVIOUS
  <2>2. t \in DOMAIN table /\ t \in DOMAIN dirty[r]
    BY <1>1, <1>5, <2>1 DEF RunPub
  <2>3. PICK q \in DOMAIN table : q[1] = t[1] /\ table[q].current
    BY <2>2 DEF PubInv, TablePublished, SomeCurrent
  <2>4. CASE q # t
    <3>1. q \in DOMAIN View(r) /\ View(r)[q] = table[q]
      BY <1>1, <2>3, <2>4 DEF View, Overlay
    <3>2. OtherCurrent(r)
      BY <1>1, <1>4, <2>3, <3>1 DEF OtherCurrent
    <3>3. QED
      BY <3>2 DEF Insert
  <2>5. QED
    BY <2>3, <2>4
<1> HIDE DEF image
<1>7. /\ dirty'[r] = Overlay([q \in {n} |-> image], dirty[r])
      /\ DOMAIN dirty'[r] = DOMAIN dirty[r] \cup {n}
      /\ \A s \in Sessions \ {r} : dirty'[s] = dirty[s]
  <2>1. r \in Sessions /\ n \in Keys \X Version
    BY <1>1
  <2> HIDE DEF t, n
  <2>2. QED
    BY <1>2, <1>3, <2>1, WriteKeepsTables
<1>8. /\ dirty'[r][n] = image
      /\ t \in DOMAIN dirty[r] => dirty'[r][t] = dirty[r][t]
  BY <1>1, <1>7 DEF Overlay
<1>9. RowLocks'
  <2>1. RowHolders(r, n) = {}
    BY <1>1, NoWaitNoHolder DEF Insert
  <2>2. RowLocks
    BY DEF PubInv
  <2>3. QED
    BY <1>1, <1>2, <1>3, <2>1, <2>2, WriteKeepsRowLocks
<1>10. /\ UNCHANGED <<table, target, input, targets>>
       /\ pc' = [pc EXCEPT ![r] = "commit"]
  BY DEF Insert, Goto
<1>11. TablePublished(table)'
  BY <1>10 DEF PubInv, TablePublished, OneCurrent, SomeCurrent,
     ReasonsAfterCurrent, SupersededNotCurrent, SuccessiveDiffer
<1>12. \A s \in Sessions \ {r} :
         UNCHANGED <<pc[s], target[s], input[s], targets[s], dirty[s]>>
  BY <1>1, <1>7, <1>10 DEF TypeInv, TypeOK
<1>13. /\ \A q \in Runs \ {r} : RunPub(q)'
       /\ \A o \in Operators \ {r} : OperatorPub(o)'
  BY <1>1, <1>10, <1>12, OthersKeepPub
<1>14. RunPub(r)'
  <2>1. /\ t[2] > 0 => table[t].content # input[r]
        /\ t[2] > 0 => t \in DOMAIN dirty[r] /\ dirty[r][t] = Demoted(table[t])
    BY <1>1, <1>5 DEF RunPub
  <2>2. pc'[r] = "commit"
    BY <1>1, <1>10 DEF TypeInv, TypeOK
  <2>3. n \in DOMAIN dirty'[r] /\ n \notin DOMAIN table'
    BY <1>4, <1>7, <1>10
  <2>4. dirty'[r][n] = [content |-> input'[r], run |-> r, current |-> TRUE,
                        superseded |-> FALSE, rolledBack |-> FALSE]
    BY <1>8, <1>10 DEF image
  <2>5. t[2] > 0 => /\ table'[t].current
                    /\ table'[t].content # input'[r]
                    /\ t \in DOMAIN dirty'[r]
                    /\ dirty'[r][t] = Demoted(table'[t])
    BY <1>6, <1>7, <1>8, <1>10, <2>1
  <2>6. target'[r] = t
    BY <1>10
  <2>7. QED
    BY <2>2, <2>3, <2>4, <2>5, <2>6 DEF RunPub
<1>15. QED
  BY <1>1, <1>9, <1>11, <1>13, <1>14 DEF PubInv

LEMMA SelectTargetsPubInv ==
  ASSUME TypeInv, PubInv, NEW o \in Operators, NEW r \in Runs,
         SelectTargets(o, r)
  PROVE  PubInv'
<1>1. o \in Sessions /\ o \notin Runs
  BY SessionsAssumption DEF Sessions
<1>2. /\ targets' = [targets EXCEPT ![o] =
                       {p \in DOMAIN table : table[p].current /\ table[p].run = r}]
      /\ \E p \in targets'[o] : /\ target' = [target EXCEPT ![o] = p]
                              /\ pc' = [pc EXCEPT ![o] = "rbDemote"]
      /\ UNCHANGED <<table, dirty, input>>
  BY <1>1 DEF TypeInv, TypeOK, SelectTargets, Take, Goto
<1>3. DOMAIN dirty[o] = {}
  <2>1. pc[o] = "idle" /\ OperatorPub(o)
    BY DEF SelectTargets, PubInv
  <2>2. QED
    BY <2>1 DEF OperatorPub
<1>4. TablePublished(table)' /\ RowLocks'
  BY <1>2 DEF PubInv, TablePublished, OneCurrent, SomeCurrent,
     ReasonsAfterCurrent, SupersededNotCurrent, SuccessiveDiffer, RowLocks
<1>5. \A s \in Sessions \ {o} :
        UNCHANGED <<pc[s], target[s], input[s], targets[s], dirty[s]>>
  BY <1>1, <1>2 DEF TypeInv, TypeOK
<1>6. /\ \A q \in Runs \ {o} : RunPub(q)'
      /\ \A q \in Operators \ {o} : OperatorPub(q)'
  BY <1>1, <1>2, <1>5, OthersKeepPub
<1>7. OperatorPub(o)'
  <2>1. pc'[o] = "rbDemote" /\ DOMAIN dirty'[o] = {}
    BY <1>1, <1>2, <1>3 DEF TypeInv, TypeOK
  <2>2. \A p, q \in targets'[o] : p[1] = q[1] => p = q
    BY <1>1, <1>2 DEF TypeInv, TypeOK, PubInv, TablePublished, OneCurrent
  <2>3. QED
    BY <2>1, <2>2 DEF OperatorPub
<1>8. QED
  BY <1>1, <1>4, <1>6, <1>7 DEF PubInv

\* Distinct targets, and the rows before them, are rows of distinct keys.
LEMMA TargetsApart ==
  ASSUME TypeInv, PubInv, NEW o \in Operators,
         NEW p \in targets[o], NEW q \in targets[o], p # q
  PROVE  /\ p # PriorRow(p) /\ q # PriorRow(p) /\ PriorRow(q) # PriorRow(p)
         /\ PriorRow(q) # p
<1>1. p[1] # q[1]
  BY DEF PubInv, OperatorPub
<1>2. p \in Keys \X Version /\ q \in Keys \X Version
  BY DEF TypeInv, TypeOK, Shape, OperatorShape, IsTable
<1>3. QED
  BY <1>1, <1>2 DEF PriorRow, Version

LEMMA RbDemotePubInv ==
  ASSUME TypeInv, PubInv, NEW o \in Operators, RbDemote(o)
  PROVE  PubInv'
<1> DEFINE t == target[o]
           image == Rejected(View(o)[t])
<1>1. /\ o \in Sessions /\ o \notin Runs
      /\ t \in targets[o] /\ t \in DOMAIN table /\ t \notin DOMAIN dirty[o]
      /\ t \in Keys \X Version /\ t[2] > 1
      /\ pc[o] = "rbDemote" /\ Written(o) = t
  BY SessionsAssumption DEF TypeInv, TypeOK, Shape, OperatorShape, RbDemote,
     Sessions, IsTable, PubInv, OperatorPub, Written
<1>2. image = Rejected(table[t])
  BY <1>1 DEF View, Overlay
<1>3. image \in Row
  BY <1>1, <1>2, ImagesAreRows DEF TypeInv, TypeOK, IsTable
<1>4. Write(o, t, image)
  BY DEF RbDemote
<1> HIDE DEF image
<1>5. /\ dirty'[o] = Overlay([q \in {t} |-> image], dirty[o])
      /\ DOMAIN dirty'[o] = DOMAIN dirty[o] \cup {t}
      /\ \A s \in Sessions \ {o} : dirty'[s] = dirty[s]
  <2>1. o \in Sessions /\ t \in Keys \X Version
    BY <1>1
  <2> HIDE DEF t
  <2>2. QED
    BY <1>3, <1>4, <2>1, WriteKeepsTables
<1>6. /\ dirty'[o][t] = image
      /\ \A q \in DOMAIN dirty[o] : dirty'[o][q] = dirty[o][q]
  BY <1>1, <1>5 DEF Overlay
<1>7. RowLocks'
  <2>1. RowHolders(o, t) = {}
    BY <1>1, NoWaitNoHolder DEF RbDemote
  <2>2. RowLocks
    BY DEF PubInv
  <2>3. QED
    BY <1>1, <1>3, <1>4, <2>1, <2>2, WriteKeepsRowLocks
<1>8. /\ UNCHANGED <<table, target, input, targets>>
      /\ pc' = [pc EXCEPT ![o] = "rbPromote"]
  BY DEF RbDemote, Goto
<1>9. TablePublished(table)'
  BY <1>8 DEF PubInv, TablePublished, OneCurrent, SomeCurrent,
     ReasonsAfterCurrent, SupersededNotCurrent, SuccessiveDiffer
<1>10. \A s \in Sessions \ {o} :
         UNCHANGED <<pc[s], target[s], input[s], targets[s], dirty[s]>>
  BY <1>1, <1>5, <1>8 DEF TypeInv, TypeOK
<1>11. /\ \A q \in Runs \ {o} : RunPub(q)'
       /\ \A q \in Operators \ {o} : OperatorPub(q)'
  BY <1>1, <1>8, <1>10, OthersKeepPub
<1>12. OperatorPub(o)'
  <2>1. OperatorPub(o)
    BY DEF PubInv
  <2>2. pc'[o] = "rbPromote"
    BY <1>1, <1>8 DEF TypeInv, TypeOK
  <2>3. ASSUME NEW p \in targets[o], p # t, p \in DOMAIN dirty'[o]
        PROVE  /\ p[2] > 1
               /\ dirty'[o][p] = Rejected(table[p])
               /\ PriorRow(p) \in DOMAIN dirty'[o]
    BY <1>1, <1>5, <1>6, <2>1, <2>3 DEF OperatorPub
  <2>4. ASSUME NEW p \in targets[o], PriorRow(p) \in DOMAIN dirty'[o]
        PROVE  /\ p # t
               /\ p \in DOMAIN dirty'[o]
               /\ dirty'[o][PriorRow(p)] = Restored(table[PriorRow(p)])
               /\ table[p].current \/ table[PriorRow(p)].current
    <3>1. PriorRow(p) # t
      BY <1>1, TargetsApart DEF PriorRow, Version
    <3>2. PriorRow(p) \in DOMAIN dirty[o]
      BY <1>5, <2>4, <3>1
    <3>3. QED
      BY <1>1, <1>5, <1>6, <2>1, <2>4, <3>2 DEF OperatorPub
  <2>5. \A q \in DOMAIN dirty'[o] :
          \E p \in targets[o] : q = p \/ (p[2] > 1 /\ q = PriorRow(p))
    BY <1>1, <1>5, <2>1 DEF OperatorPub
  <2>6. \A p, q \in targets[o] : p[1] = q[1] => p = q
    BY <2>1 DEF OperatorPub
  <2>7. t \in DOMAIN dirty'[o] /\ dirty'[o][t] = Rejected(table[t])
    BY <1>2, <1>5, <1>6
  <2>8. target'[o] = t /\ targets'[o] = targets[o] /\ table' = table
    BY <1>8
  <2>9. QED
    BY <1>1, <2>2, <2>3, <2>4, <2>5, <2>6, <2>7, <2>8 DEF OperatorPub
<1>13. QED
  BY <1>1, <1>7, <1>9, <1>11, <1>12 DEF PubInv

LEMMA RbPromotePubInv ==
  ASSUME TypeInv, PubInv, NEW o \in Operators, RbPromote(o)
  PROVE  PubInv'
<1> DEFINE t == target[o]
           w == PriorRow(t)
           image == Restored(View(o)[w])
           rest == {p \in targets[o] : p \notin DOMAIN dirty[o]}
<1>1. /\ o \in Sessions /\ o \notin Runs
      /\ t \in targets[o] /\ t \in DOMAIN table /\ t \in DOMAIN dirty[o]
      /\ t \in Keys \X Version /\ t[2] > 1
      /\ pc[o] = "rbPromote" /\ Written(o) = w
  BY SessionsAssumption DEF TypeInv, TypeOK, Shape, OperatorShape, RbPromote,
     Sessions, IsTable, PubInv, OperatorPub, Written, PriorRow
<1>2. OperatorPub(o)
  BY DEF PubInv
<1>3. w \in DOMAIN table /\ w \in Keys \X Version /\ w # t
  <2>1. t[2] - 1 \in 1..t[2]
    BY <1>1 DEF Version
  <2>2. QED
    BY <1>1, <2>1 DEF TypeInv, Shape, NoGap, PriorRow, Version
<1>4. w \notin DOMAIN dirty[o]
  BY <1>1, <1>2 DEF OperatorPub
<1>5. image = Restored(table[w])
  BY <1>3, <1>4 DEF View, Overlay
<1>6. image \in Row
  BY <1>3, <1>5, ImagesAreRows DEF TypeInv, TypeOK, IsTable
<1>7. Write(o, w, image)
  BY <1>1 DEF RbPromote
<1>8. table[t].current \/ table[w].current
  <2>1. PICK c \in DOMAIN table : c[1] = t[1] /\ table[c].current
    BY <1>1 DEF PubInv, TablePublished, SomeCurrent
  <2>2. CASE c \in {t, w}
    BY <2>1, <2>2
  <2>3. CASE c \notin {t, w}
    <3>1. c \notin DOMAIN dirty[o]
      <4>1. SUFFICES ASSUME c \in DOMAIN dirty[o] PROVE FALSE
        OBVIOUS
      <4>2. PICK p \in targets[o] : c = p \/ c = PriorRow(p)
        BY <1>2, <4>1 DEF OperatorPub
      <4>3. p[1] = t[1]
        BY <2>1, <4>2 DEF PriorRow
      <4>4. p = t
        BY <1>1, <1>2, <4>3 DEF OperatorPub
      <4>5. QED
        BY <2>3, <4>2, <4>4
    <3>2. c \in DOMAIN View(o) /\ View(o)[c].current
      BY <2>1, <3>1 DEF View, Overlay
    <3>3. OtherCurrent(o)
      BY <1>1, <2>1, <2>3, <3>2 DEF OtherCurrent
    <3>4. QED
      BY <3>3 DEF RbPromote
  <2>4. QED
    BY <2>2, <2>3
<1> HIDE DEF image
<1>9. /\ dirty'[o] = Overlay([q \in {w} |-> image], dirty[o])
      /\ DOMAIN dirty'[o] = DOMAIN dirty[o] \cup {w}
      /\ \A s \in Sessions \ {o} : dirty'[s] = dirty[s]
  <2>1. o \in Sessions /\ w \in Keys \X Version
    BY <1>1, <1>3
  <2> HIDE DEF t, w, rest
  <2>2. QED
    BY <1>6, <1>7, <2>1, WriteKeepsTables
<1>10. /\ dirty'[o][w] = image
       /\ \A q \in DOMAIN dirty[o] : dirty'[o][q] = dirty[o][q]
  BY <1>4, <1>9 DEF Overlay
<1>11. RowLocks'
  <2>1. RowHolders(o, w) = {}
    BY <1>1, NoWaitNoHolder DEF RbPromote
  <2>2. RowLocks
    BY DEF PubInv
  <2>3. QED
    BY <1>1, <1>3, <1>6, <1>7, <2>1, <2>2, WriteKeepsRowLocks
<1>12. /\ UNCHANGED <<table, input, targets>>
       /\ \/ /\ rest = {}
             /\ pc' = [pc EXCEPT ![o] = "commit"]
             /\ UNCHANGED target
          \/ \E p \in rest : /\ target' = [target EXCEPT ![o] = p]
                           /\ pc' = [pc EXCEPT ![o] = "rbDemote"]
  BY DEF RbPromote, Take, Goto
<1>13. TablePublished(table)'
  BY <1>12 DEF PubInv, TablePublished, OneCurrent, SomeCurrent,
     ReasonsAfterCurrent, SupersededNotCurrent, SuccessiveDiffer
<1>14. \A s \in Sessions \ {o} :
         UNCHANGED <<pc[s], target[s], input[s], targets[s], dirty[s]>>
  BY <1>1, <1>9, <1>12 DEF TypeInv, TypeOK
<1>15. /\ \A q \in Runs \ {o} : RunPub(q)'
       /\ \A q \in Operators \ {o} : OperatorPub(q)'
  BY <1>1, <1>12, <1>14, OthersKeepPub
<1>16. OperatorPub(o)'
  <2>1. table' = table /\ targets'[o] = targets[o]
    BY <1>12
  <2>2. ASSUME NEW p \in targets[o], p \in DOMAIN dirty'[o]
        PROVE  /\ p[2] > 1
               /\ dirty'[o][p] = Rejected(table[p])
               /\ PriorRow(p) \in DOMAIN dirty'[o]
    <3>1. p \in DOMAIN dirty[o]
      <4>1. p # w
        BY <1>1, <1>3, TargetsApart
      <4>2. QED
        BY <1>9, <2>2, <4>1
    <3>2. QED
      BY <1>2, <1>9, <1>10, <3>1 DEF OperatorPub
  <2>3. ASSUME NEW p \in targets[o], PriorRow(p) \in DOMAIN dirty'[o]
        PROVE  /\ p \in DOMAIN dirty'[o]
               /\ dirty'[o][PriorRow(p)] = Restored(table[PriorRow(p)])
               /\ table[p].current \/ table[PriorRow(p)].current
    <3>1. CASE p = t
      BY <1>1, <1>5, <1>8, <1>9, <1>10, <3>1
    <3>2. CASE p # t
      <4>1. PriorRow(p) # w
        BY <1>1, <3>2, TargetsApart
      <4>2. PriorRow(p) \in DOMAIN dirty[o]
        BY <1>9, <2>3, <4>1
      <4>3. QED
        BY <1>2, <1>9, <1>10, <4>2 DEF OperatorPub
    <3>3. QED
      BY <3>1, <3>2
  <2>4. \A q \in DOMAIN dirty'[o] :
          \E p \in targets[o] : q = p \/ (p[2] > 1 /\ q = PriorRow(p))
    BY <1>1, <1>2, <1>9 DEF OperatorPub
  <2>5. \A p, q \in targets[o] : p[1] = q[1] => p = q
    BY <1>2 DEF OperatorPub
  <2>6. \/ pc'[o] = "commit" /\ targets[o] \subseteq DOMAIN dirty'[o]
        \/ pc'[o] = "rbDemote" /\ target'[o] \notin DOMAIN dirty'[o]
    <3>1. CASE rest = {} /\ pc' = [pc EXCEPT ![o] = "commit"]
      BY <1>1, <1>9, <3>1 DEF TypeInv, TypeOK
    <3>2. ASSUME NEW p \in rest, target' = [target EXCEPT ![o] = p],
                 pc' = [pc EXCEPT ![o] = "rbDemote"]
          PROVE  pc'[o] = "rbDemote" /\ target'[o] \notin DOMAIN dirty'[o]
      <4>1. p \in targets[o] /\ p # t /\ p \notin DOMAIN dirty[o]
        BY <1>1
      <4>2. p # w
        BY <1>1, <4>1, TargetsApart
      <4>3. target'[o] = p /\ pc'[o] = "rbDemote"
        BY <1>1, <3>2 DEF TypeInv, TypeOK
      <4>4. QED
        BY <1>9, <4>1, <4>2, <4>3
    <3>3. QED
      BY <1>12, <3>1, <3>2
  <2>7. QED
    BY <2>1, <2>2, <2>3, <2>4, <2>5, <2>6 DEF OperatorPub
<1>17. QED
  BY <1>1, <1>11, <1>13, <1>15, <1>16 DEF PubInv

LEMMA ImageFields ==
  ASSUME NEW row \in Row
  PROVE  /\ Demoted(row).content = row.content
         /\ Demoted(row).run = row.run
         /\ ~Demoted(row).current
         /\ Demoted(row).superseded
         /\ (Demoted(row).rolledBack <=> row.rolledBack)
         /\ Rejected(row).content = row.content
         /\ Rejected(row).run = row.run
         /\ ~Rejected(row).current
         /\ Rejected(row).superseded
         /\ Rejected(row).rolledBack
         /\ Restored(row).content = row.content
         /\ Restored(row).run = row.run
         /\ Restored(row).current
         /\ ~Restored(row).superseded
         /\ (Restored(row).rolledBack <=> row.rolledBack)
BY DEF Row, Demoted, Rejected, Restored

\* What a commit does to the committed rows: none disappears, what they say
\* stays, and a recorded rollback stays recorded.
Preserves(f, g) ==
  \A p \in DOMAIN f :
    /\ p \in DOMAIN g
    /\ g[p].content = f[p].content
    /\ g[p].run = f[p].run
    /\ f[p].rolledBack => g[p].rolledBack

LEMMA RunCommitRows ==
  ASSUME TypeInv, PubInv, NEW r \in Runs, pc[r] = "commit"
  PROVE  TablePublished(View(r)) /\ Preserves(table, View(r))
<1> DEFINE t == target[r]
           n == NextRow(t)
           k == t[1]
           V == View(r)
<1>1. /\ t \in Keys \X Nat /\ n # t /\ n = <<k, t[2] + 1>>
      /\ t[2] > 0 => /\ t \in DOMAIN table /\ table[t].current
                     /\ t \in DOMAIN dirty[r] /\ dirty[r][t] = Demoted(table[t])
                     /\ table[t].content # input[r]
      /\ n \in DOMAIN dirty[r] /\ n \notin DOMAIN table
      /\ DOMAIN dirty[r] \subseteq {t, n}
      /\ dirty[r][n] = [content |-> input[r], run |-> r, current |-> TRUE,
                        superseded |-> FALSE, rolledBack |-> FALSE]
  BY DEF TypeInv, Shape, RunShape, PubInv, RunPub, NextRow
<1>2. IsTable(table) /\ NoGap(table) /\ IsTable(dirty[r])
  BY DEF TypeInv, TypeOK, Shape, Sessions
<1>3. t[2] = 0 => \A p \in DOMAIN table : p[1] # k
  <2>1. SUFFICES ASSUME t[2] = 0, NEW p \in DOMAIN table, p[1] = k PROVE FALSE
    OBVIOUS
  <2>2. p \in Keys \X Version /\ 1 \in 1..p[2]
    BY <1>2 DEF IsTable, Version
  <2>3. QED
    BY <1>1, <1>2, <2>1, <2>2 DEF NoGap
<1>4. \A p \in DOMAIN table : p[1] = k => p[2] <= t[2]
  <2>1. SUFFICES ASSUME NEW p \in DOMAIN table, p[1] = k, ~(p[2] <= t[2])
                 PROVE  FALSE
    OBVIOUS
  <2>2. p \in Keys \X Version /\ t[2] + 1 \in 1..p[2]
    BY <1>1, <1>2, <2>1 DEF IsTable, Version
  <2>3. QED
    BY <1>1, <1>2, <2>1, <2>2 DEF NoGap
<1>5. t[2] = 0 => t \notin DOMAIN dirty[r]
  BY <1>2 DEF IsTable, Version
<1>6. /\ DOMAIN V = DOMAIN table \cup {n}
      /\ V[n] = [content |-> input[r], run |-> r, current |-> TRUE,
                 superseded |-> FALSE, rolledBack |-> FALSE]
      /\ t[2] > 0 => V[t] = Demoted(table[t])
      /\ \A p \in DOMAIN table : p # t => V[p] = table[p]
  <2>1. DOMAIN V = DOMAIN table \cup {n}
    BY <1>1, <1>5 DEF View, Overlay
  <2>2. \A p \in DOMAIN table \cup {n} :
          V[p] = IF p \in DOMAIN dirty[r] THEN dirty[r][p] ELSE table[p]
    BY <1>1, <2>1 DEF View, Overlay
  <2>3. QED
    BY <1>1, <2>1, <2>2
<1>7. t[2] > 0 => /\ V[t].content = table[t].content /\ V[t].run = table[t].run
                  /\ ~V[t].current /\ V[t].superseded
                  /\ V[t].rolledBack <=> table[t].rolledBack
  <2>1. SUFFICES ASSUME t[2] > 0
                 PROVE  /\ V[t].content = table[t].content
                        /\ V[t].run = table[t].run
                        /\ ~V[t].current /\ V[t].superseded
                        /\ V[t].rolledBack <=> table[t].rolledBack
    OBVIOUS
  <2>2. table[t] \in Row
    BY <1>1, <1>2, <2>1 DEF IsTable
  <2>3. V[t] = Demoted(table[t])
    BY <1>6, <2>1
  <2>4. QED
    BY <2>2, <2>3, ImageFields
<1>8. \A p \in DOMAIN table : p = t => t[2] > 0
  BY <1>2, <1>1 DEF IsTable, Version
<1>9. \A p \in DOMAIN V : p[1] = k /\ V[p].current => p = n
  <2>1. SUFFICES ASSUME NEW p \in DOMAIN table, p[1] = k, V[p].current, p # n
                 PROVE  FALSE
    BY <1>6
  <2>2. p # t
    BY <1>7, <1>8, <2>1
  <2>3. table[p].current
    BY <1>6, <2>1, <2>2
  <2>4. t[2] > 0
    BY <1>1, <1>3, <2>1
  <2>5. p = t
    BY <1>1, <2>1, <2>3, <2>4 DEF PubInv, TablePublished, OneCurrent
  <2>6. QED
    BY <2>2, <2>5
<1>10. \A p \in DOMAIN V : p[1] # k => p \in DOMAIN table /\ V[p] = table[p]
  BY <1>1, <1>6
<1> HIDE DEF V
<1>11. OneCurrent(V)
  BY <1>9, <1>10 DEF PubInv, TablePublished, OneCurrent
<1>12. SomeCurrent(V)
  <2>1. ASSUME NEW p \in DOMAIN V
        PROVE  \E q \in DOMAIN V : q[1] = p[1] /\ V[q].current
    <3>1. CASE p[1] = k
      BY <1>1, <1>6, <3>1
    <3>2. CASE p[1] # k
      <4>1. PICK q \in DOMAIN table : q[1] = p[1] /\ table[q].current
        BY <1>10, <3>2 DEF PubInv, TablePublished, SomeCurrent
      <4>2. q \in DOMAIN V /\ V[q] = table[q]
        BY <1>6, <1>10, <3>2, <4>1
      <4>3. QED
        BY <4>1, <4>2
    <3>3. QED
      BY <3>1, <3>2
  <2>2. QED
    BY <2>1 DEF SomeCurrent
<1>13. ReasonsAfterCurrent(V)
  <2>1. ASSUME NEW p \in DOMAIN V, NEW q \in DOMAIN V,
               p[1] = q[1], V[q].current
        PROVE  V[p].rolledBack <=> p[2] > q[2]
    <3>1. CASE p[1] # k
      BY <1>10, <2>1, <3>1 DEF PubInv, TablePublished, ReasonsAfterCurrent
    <3>2. CASE p[1] = k
      <4>1. q = n
        BY <1>9, <2>1, <3>2
      <4>2. CASE p = n
        BY <1>1, <1>6, <4>1, <4>2
      <4>3. CASE p # n
        <5>1. p \in DOMAIN table /\ p[2] <= t[2] /\ p \in Keys \X Version
          BY <1>2, <1>4, <1>6, <3>2, <4>3 DEF IsTable
        <5>2. t[2] > 0
          BY <1>1, <5>1 DEF Version
        <5>3. table[p].rolledBack <=> p[2] > t[2]
          BY <1>1, <3>2, <5>1, <5>2
             DEF PubInv, TablePublished, ReasonsAfterCurrent
        <5>4. V[p].rolledBack <=> table[p].rolledBack
          BY <1>6, <1>7, <5>1, <5>2
        <5>5. ~(p[2] > t[2]) /\ ~(p[2] > q[2])
          BY <1>1, <4>1, <5>1 DEF Version
        <5>6. QED
          BY <5>3, <5>4, <5>5
      <4>4. QED
        BY <4>2, <4>3
    <3>3. QED
      BY <3>1, <3>2
  <2>2. QED
    BY <2>1 DEF ReasonsAfterCurrent
<1>14. SupersededNotCurrent(V)
  <2>1. ASSUME NEW p \in DOMAIN V PROVE V[p].superseded <=> ~V[p].current
    <3>1. CASE p = n
      BY <1>6, <3>1
    <3>2. CASE p = t /\ p \in DOMAIN table
      BY <1>7, <1>8, <3>2
    <3>3. CASE p # t /\ p \in DOMAIN table
      BY <1>6, <3>3 DEF PubInv, TablePublished, SupersededNotCurrent
    <3>4. QED
      BY <1>6, <3>1, <3>2, <3>3
  <2>2. QED
    BY <2>1 DEF SupersededNotCurrent
<1>15. Preserves(table, V)
  BY <1>6, <1>7, <1>8 DEF Preserves
<1>16. SuccessiveDiffer(V)
  <2>1. ASSUME NEW p \in DOMAIN V, NextRow(p) \in DOMAIN V
        PROVE  V[p].content # V[NextRow(p)].content
    <3>1. p \in Keys \X Nat
      BY <1>1, <1>2, <1>6, <2>1 DEF IsTable, Version
    <3>2. p # n
      <4>1. SUFFICES ASSUME p = n PROVE FALSE
        OBVIOUS
      <4>2. NextRow(n) \in DOMAIN table
        BY <1>1, <1>6, <2>1, <4>1 DEF NextRow
      <4>3. QED
        BY <1>1, <1>4, <4>2 DEF NextRow
    <3>3. p \in DOMAIN table
      BY <1>6, <2>1, <3>2
    <3>4. CASE NextRow(p) = n
      <4>1. p = t
        BY <1>1, <3>1, <3>4 DEF NextRow
      <4>2. QED
        BY <1>1, <1>6, <1>7, <1>8, <3>3, <3>4, <4>1
    <3>5. CASE NextRow(p) # n
      <4>1. NextRow(p) \in DOMAIN table
        BY <1>6, <2>1, <3>5
      <4>2. table[p].content # table[NextRow(p)].content
        BY <3>3, <4>1 DEF PubInv, TablePublished, SuccessiveDiffer
      <4>3. QED
        BY <1>15, <3>3, <4>1, <4>2 DEF Preserves
    <3>6. QED
      BY <3>4, <3>5
  <2>2. QED
    BY <2>1 DEF SuccessiveDiffer
<1>17. QED
  BY <1>11, <1>12, <1>13, <1>14, <1>15, <1>16 DEF TablePublished, V

LEMMA OperatorCommitRows ==
  ASSUME TypeInv, PubInv, NEW o \in Operators, pc[o] = "commit"
  PROVE  TablePublished(View(o)) /\ Preserves(table, View(o))
<1> DEFINE V == View(o)
<1>1. /\ \A p, q \in targets[o] : p[1] = q[1] => p = q
      /\ \A q \in DOMAIN dirty[o] :
           \E p \in targets[o] : q = p \/ (p[2] > 1 /\ q = PriorRow(p))
      /\ \A p \in targets[o] :
           /\ p \in DOMAIN dirty[o] /\ PriorRow(p) \in DOMAIN dirty[o]
           /\ p[2] > 1
           /\ dirty[o][p] = Rejected(table[p])
           /\ dirty[o][PriorRow(p)] = Restored(table[PriorRow(p)])
           /\ table[p].current \/ table[PriorRow(p)].current
  BY DEF PubInv, OperatorPub
<1>2. /\ IsTable(table)
      /\ DOMAIN dirty[o] \subseteq DOMAIN table
      /\ targets[o] \subseteq DOMAIN table
  BY DEF TypeInv, TypeOK, Shape, OperatorShape
<1>3. /\ DOMAIN V = DOMAIN table
      /\ \A p \in DOMAIN table :
           V[p] = IF p \in DOMAIN dirty[o] THEN dirty[o][p] ELSE table[p]
  BY <1>2 DEF View, Overlay
<1>4. ASSUME NEW p \in targets[o]
      PROVE  /\ p \in DOMAIN table /\ PriorRow(p) \in DOMAIN table
             /\ p \in Keys \X Version /\ p[2] > 1 /\ PriorRow(p) # p
             /\ V[p] = Rejected(table[p])
             /\ V[PriorRow(p)] = Restored(table[PriorRow(p)])
             /\ \A q \in DOMAIN table :
                  q[1] = p[1] /\ q # p /\ q # PriorRow(p) => V[q] = table[q]
  <2>1. /\ p \in DOMAIN table /\ PriorRow(p) \in DOMAIN table
        /\ V[p] = Rejected(table[p])
        /\ V[PriorRow(p)] = Restored(table[PriorRow(p)])
        /\ p[2] > 1
    BY <1>1, <1>2, <1>3, <1>4
  <2>2. p \in Keys \X Version /\ PriorRow(p) # p
    BY <1>2, <2>1 DEF IsTable, PriorRow, Version
  <2>3. ASSUME NEW q \in DOMAIN table, q[1] = p[1], q # p, q # PriorRow(p)
        PROVE  V[q] = table[q]
    <3>1. q \notin DOMAIN dirty[o]
      <4>1. SUFFICES ASSUME q \in DOMAIN dirty[o] PROVE FALSE
        OBVIOUS
      <4>2. PICK u \in targets[o] : q = u \/ q = PriorRow(u)
        BY <1>1, <4>1
      <4>3. u[1] = p[1]
        BY <2>3, <4>2 DEF PriorRow
      <4>4. u = p
        BY <1>1, <1>4, <4>3
      <4>5. QED
        BY <2>3, <4>2, <4>4
    <3>2. QED
      BY <1>3, <3>1
  <2>4. QED
    BY <2>1, <2>2, <2>3
<1>5. ASSUME NEW q \in DOMAIN table, \A p \in targets[o] : p[1] # q[1]
      PROVE  V[q] = table[q]
  <2>1. q \notin DOMAIN dirty[o]
    BY <1>1, <1>5 DEF PriorRow
  <2>2. QED
    BY <1>3, <2>1
<1> HIDE DEF V
<1>6. \A p \in DOMAIN table : table[p] \in Row
  BY <1>2 DEF IsTable
\* In the key of a target only the row before it is current afterwards.
<1>7. ASSUME NEW p \in targets[o], NEW q \in DOMAIN table, q[1] = p[1],
             V[q].current
      PROVE  q = PriorRow(p)
  <2>1. SUFFICES ASSUME q # PriorRow(p) PROVE FALSE
    OBVIOUS
  <2>2. q # p
    <3>1. table[p] \in Row /\ V[p] = Rejected(table[p])
      BY <1>4, <1>6, <1>7
    <3>2. ~V[p].current
      BY <3>1, ImageFields
    <3>3. QED
      BY <1>7, <3>2
  <2>3. table[q].current
    BY <1>4, <1>7, <2>1, <2>2
  <2>4. PriorRow(p)[1] = p[1]
    BY DEF PriorRow
  <2>5. QED
    BY <1>1, <1>4, <1>7, <2>1, <2>2, <2>3, <2>4
       DEF PubInv, TablePublished, OneCurrent
<1>8. OneCurrent(V)
  <2>1. ASSUME NEW a \in DOMAIN table, NEW b \in DOMAIN table,
               a[1] = b[1], V[a].current, V[b].current
        PROVE  a = b
    <3>1. CASE \E p \in targets[o] : p[1] = a[1]
      BY <1>7, <2>1, <3>1
    <3>2. CASE \A p \in targets[o] : p[1] # a[1]
      BY <1>5, <2>1, <3>2 DEF PubInv, TablePublished, OneCurrent
    <3>3. QED
      BY <3>1, <3>2
  <2>2. QED
    BY <1>3, <2>1 DEF OneCurrent
<1>9. SomeCurrent(V)
  <2>1. ASSUME NEW a \in DOMAIN table
        PROVE  \E b \in DOMAIN table : b[1] = a[1] /\ V[b].current
    <3>1. ASSUME NEW p \in targets[o], p[1] = a[1]
          PROVE  \E b \in DOMAIN table : b[1] = a[1] /\ V[b].current
      <4>1. PriorRow(p) \in DOMAIN table /\ V[PriorRow(p)].current
        <5>1. /\ PriorRow(p) \in DOMAIN table
              /\ V[PriorRow(p)] = Restored(table[PriorRow(p)])
          BY <1>4, <3>1
        <5>2. table[PriorRow(p)] \in Row
          BY <1>6, <5>1
        <5>3. QED
          BY <5>1, <5>2, ImageFields
      <4>2. PriorRow(p)[1] = a[1]
        BY <3>1 DEF PriorRow
      <4>3. QED
        BY <4>1, <4>2
    <3>2. CASE \A p \in targets[o] : p[1] # a[1]
      <4>1. PICK b \in DOMAIN table : b[1] = a[1] /\ table[b].current
        BY DEF PubInv, TablePublished, SomeCurrent
      <4>2. V[b] = table[b]
        BY <1>5, <3>2, <4>1
      <4>3. QED
        BY <4>1, <4>2
    <3>3. QED
      BY <3>1, <3>2
  <2>2. QED
    BY <1>3, <2>1 DEF SomeCurrent
<1>10. ReasonsAfterCurrent(V)
  <2>1. ASSUME NEW a \in DOMAIN table, NEW b \in DOMAIN table,
               a[1] = b[1], V[b].current
        PROVE  V[a].rolledBack <=> a[2] > b[2]
    <3>1. CASE \A p \in targets[o] : p[1] # a[1]
      BY <1>5, <2>1, <3>1 DEF PubInv, TablePublished, ReasonsAfterCurrent
    <3>2. ASSUME NEW p \in targets[o], p[1] = a[1]
          PROVE  V[a].rolledBack <=> a[2] > b[2]
      <4>1. b = PriorRow(p)
        BY <1>7, <2>1, <3>2
      <4>2. a \in Keys \X Version /\ p \in Keys \X Version /\ b[2] = p[2] - 1
        BY <1>2, <1>4, <4>1 DEF IsTable, PriorRow
      \* The row published before is the target or, after another rollback of
      \* the same run, the row before it already.
      <4>3. PICK c \in {p, b} : table[c].current
        BY <1>1, <4>1
      <4>4. table[a].rolledBack <=> a[2] > c[2]
        BY <1>4, <2>1, <3>2, <4>1, <4>3
           DEF PubInv, TablePublished, ReasonsAfterCurrent
      <4>5. c[2] \in {p[2], p[2] - 1}
        BY <4>2, <4>3
      <4>6. CASE a = p
        <5>1. V[a].rolledBack
          <6>1. table[p] \in Row /\ V[p] = Rejected(table[p])
            BY <1>4, <1>6, <3>2
          <6>2. QED
            BY <4>6, <6>1, ImageFields
        <5>2. a[2] > b[2]
          BY <4>2, <4>6 DEF Version
        <5>3. QED
          BY <5>1, <5>2
      <4>7. CASE a = b
        <5>1. V[a].rolledBack <=> table[a].rolledBack
          <6>1. table[a] \in Row /\ V[a] = Restored(table[a])
            BY <1>4, <1>6, <2>1, <3>2, <4>1, <4>7
          <6>2. QED
            BY <6>1, ImageFields
        <5>2. ~(a[2] > c[2]) /\ ~(a[2] > b[2])
          BY <4>2, <4>5, <4>7 DEF Version
        <5>3. QED
          BY <4>4, <5>1, <5>2
      <4>8. CASE a # p /\ a # b
        <5>1. V[a] = table[a]
          BY <1>4, <3>2, <4>1, <4>8
        <5>2. a[2] # p[2] /\ a[2] # b[2]
          BY <3>2, <4>1, <4>2, <4>8 DEF PriorRow
        <5>3. a[2] > c[2] <=> a[2] > b[2]
          BY <4>2, <4>5, <5>2 DEF Version
        <5>4. QED
          BY <4>4, <5>1, <5>3
      <4>9. QED
        BY <4>6, <4>7, <4>8
    <3>3. QED
      BY <3>1, <3>2
  <2>2. QED
    BY <1>3, <2>1 DEF ReasonsAfterCurrent
<1>11. ASSUME NEW a \in DOMAIN table
       PROVE  /\ V[a].superseded <=> ~V[a].current
              /\ V[a].content = table[a].content
              /\ V[a].run = table[a].run
              /\ table[a].rolledBack => V[a].rolledBack
  <2>1. ASSUME NEW p \in targets[o], p[1] = a[1]
        PROVE  V[a] \in {table[a], Rejected(table[a]), Restored(table[a])}
    BY <1>4, <2>1
  <2>2. V[a] \in {table[a], Rejected(table[a]), Restored(table[a])}
    BY <1>5, <2>1
  <2>3. table[a].superseded <=> ~table[a].current
    BY DEF PubInv, TablePublished, SupersededNotCurrent
  <2>4. QED
    BY <1>6, <2>2, <2>3, ImageFields
<1>12. SupersededNotCurrent(V) /\ Preserves(table, V)
  BY <1>3, <1>11 DEF SupersededNotCurrent, Preserves
<1>13. SuccessiveDiffer(V)
  BY <1>3, <1>11 DEF PubInv, TablePublished, SuccessiveDiffer
<1>14. QED
  BY <1>8, <1>9, <1>10, <1>12, <1>13 DEF TablePublished, V

LEMMA CommitRows ==
  ASSUME TypeInv, PubInv, NEW s \in Sessions, pc[s] = "commit"
  PROVE  TablePublished(View(s)) /\ Preserves(table, View(s))
BY RunCommitRows, OperatorCommitRows DEF Sessions

LEMMA CommitPubInv ==
  ASSUME TypeInv, PubInv, NEW s \in Sessions, NEW f,
         pc[s] = "commit", table' = View(s), End(s, f)
  PROVE  PubInv'
<1>1. TablePublished(table') /\ Preserves(table, table')
  BY CommitRows
<1>2. TablePublished(table)'
  BY <1>1 DEF TablePublished, OneCurrent, SomeCurrent, ReasonsAfterCurrent,
     SupersededNotCurrent, SuccessiveDiffer
<1>3. /\ \A t \in Sessions \ {s} :
           UNCHANGED <<pc[t], target[t], input[t], targets[t], dirty[t]>>
      /\ DOMAIN dirty'[s] = {} /\ targets'[s] = {}
      /\ pc'[s] \in {"idle", "stopped"}
  BY DEF TypeInv, TypeOK, End, NoRows
<1>4. RowLocks'
  BY <1>3 DEF PubInv, RowLocks
<1>5. ASSUME NEW t \in Sessions \ {s}, NEW p \in DOMAIN dirty[t]
      PROVE  /\ p \in DOMAIN table => table'[p] = table[p]
             /\ p \notin DOMAIN table => p \notin DOMAIN table'
  <2>1. p \notin DOMAIN dirty[s]
    BY <1>5 DEF PubInv, RowLocks
  <2>2. QED
    BY <2>1 DEF View, Overlay
<1>6. ASSUME NEW r \in Runs \ {s} PROVE RunPub(r)'
  <2>1. RunPub(r) /\ RunShape(r) /\ r \in Sessions \ {s}
    BY <1>6 DEF TypeInv, Shape, PubInv, Sessions
  <2>2. \A p \in DOMAIN table :
          p \in DOMAIN table' /\ table'[p].content = table[p].content
    BY <1>1 DEF Preserves
  <2>3. QED
    BY <1>3, <1>5, <2>1, <2>2, OtherRunKeepsPub
<1>7. ASSUME NEW o \in Operators \ {s} PROVE OperatorPub(o)'
  <2>1. OperatorPub(o) /\ OperatorShape(o) /\ o \in Sessions \ {s}
    BY <1>7 DEF TypeInv, Shape, PubInv, Sessions
  <2>2. \A p \in DOMAIN dirty[o] : table'[p] = table[p]
    BY <1>5, <2>1 DEF OperatorShape
  <2>3. QED
    BY <1>3, <2>1, <2>2, OtherOperatorKeepsPub
<1>8. s \in Runs => RunPub(s)'
  BY <1>3 DEF RunPub
<1>9. s \in Operators => OperatorPub(s)'
  BY <1>3 DEF OperatorPub
<1>10. QED
  BY <1>2, <1>4, <1>6, <1>7, <1>8, <1>9 DEF PubInv

-----------------------------------------------------------------------------

InductiveInvariant == TypeInv /\ PubInv

LEMMA NextPubInv == InductiveInvariant /\ [Next]_vars => PubInv'
<1> SUFFICES ASSUME TypeInv, PubInv, [Next]_vars PROVE PubInv'
  BY DEF InductiveInvariant
<1>1. ASSUME NEW r \in Runs, NEW k \in Keys, NEW c \in Contents,
             WriteUnchanged(r, k, c) \/ ReadCurrent(r, k, c)
      PROVE  PubInv'
  BY <1>1, ReadsPubInv
<1>2. ASSUME NEW o \in Operators, NEW r \in Runs, SelectTargets(o, r)
      PROVE  PubInv'
  BY <1>2, SelectTargetsPubInv
<1>3. ASSUME NEW s \in Sessions, Statement(s) PROVE PubInv'
  <2>1. CASE s \in Runs /\ Demote(s)
    BY <2>1, DemotePubInv
  <2>2. CASE s \in Runs /\ Insert(s)
    BY <2>2, InsertPubInv
  <2>3. CASE s \in Operators /\ RbDemote(s)
    BY <2>3, RbDemotePubInv
  <2>4. CASE s \in Operators /\ RbPromote(s)
    BY <2>4, RbPromotePubInv
  <2>5. CASE s \in Operators /\ NoPrior(s)
    BY <1>3, <2>5, EndPubInv DEF NoPrior
  <2>6. CASE UniqueViolation(s)
    BY <1>3, <2>6, EndPubInv DEF UniqueViolation
  <2>7. CASE Commit(s)
    BY <1>3, <2>7, CommitPubInv DEF Commit
  <2>8. QED
    BY <1>3, <2>1, <2>2, <2>3, <2>4, <2>5, <2>6, <2>7 DEF Statement
<1>4. ASSUME NEW s \in Sessions, CommitUnacknowledged(s) PROVE PubInv'
  BY <1>4, CommitPubInv DEF CommitUnacknowledged
<1>5. ASSUME NEW s \in Sessions, Lose(s) \/ DeadlockVictim(s) PROVE PubInv'
  BY <1>5, EndPubInv DEF Lose, DeadlockVictim
<1>6. CASE UNCHANGED vars
  BY <1>6 DEF vars, PubInv, TablePublished, OneCurrent, SomeCurrent,
     ReasonsAfterCurrent, SupersededNotCurrent, SuccessiveDiffer, RowLocks,
     RunPub, OperatorPub
<1>7. QED
  BY <1>1, <1>2, <1>3, <1>4, <1>5, <1>6 DEF Next

\* The conditions under which every transaction may commit hold for ever.
THEOREM Inductive == Spec => []InductiveInvariant
<1>1. Init => InductiveInvariant
  BY InitTypeInv, InitPubInv DEF InductiveInvariant
<1>2. InductiveInvariant /\ [Next]_vars => InductiveInvariant'
  BY NextTypeInv, NextPubInv DEF InductiveInvariant
<1>3. QED
  BY <1>1, <1>2, PTL DEF Spec

LEMMA PublishedRow ==
  ASSUME InductiveInvariant, NEW p \in DOMAIN table
  PROVE  \E q \in DOMAIN table :
           /\ q[1] = p[1] /\ table[q].current
           /\ CurrentRows(p[1]) = {q}
           /\ Published(p[1]) = q[2]
<1>1. PICK q \in DOMAIN table : q[1] = p[1] /\ table[q].current
  BY DEF InductiveInvariant, PubInv, TablePublished, SomeCurrent
<1>2. CurrentRows(p[1]) = {q}
  BY <1>1 DEF InductiveInvariant, PubInv, TablePublished, OneCurrent, CurrentRows
<1>3. Published(p[1]) = q[2]
  BY <1>2 DEF Published
<1>4. QED
  BY <1>1, <1>2, <1>3

\* Whatever runs and rollbacks overlap, a key with any row has exactly one
\* published row (observation.go:10).
THEOREM OnePublishedRowHolds == Spec => []OnePublishedRow
<1>1. InductiveInvariant => OnePublishedRow
  <2>1. SUFFICES ASSUME InductiveInvariant, NEW p \in DOMAIN table
                 PROVE  Cardinality(CurrentRows(p[1])) = 1
    BY DEF OnePublishedRow
  <2>2. PICK q : CurrentRows(p[1]) = {q}
    BY <2>1, PublishedRow
  <2>3. QED
    BY <2>2, FS_Singleton
<1>2. QED
  BY <1>1, Inductive, PTL

\* The versions of a key have no gap and successive ones differ, so a version
\* number counts the times the source changed its mind (observation.go:156).
THEOREM ChainWellFormedHolds == Spec => []ChainWellFormed
<1>1. InductiveInvariant => ChainWellFormed
  <2>1. SUFFICES ASSUME InductiveInvariant,
                        NEW p \in DOMAIN table, NEW v \in 1..(p[2] - 1)
                 PROVE  /\ <<p[1], v>> \in DOMAIN table
                        /\ v = p[2] - 1 =>
                             table[<<p[1], v>>].content # table[p].content
    BY DEF ChainWellFormed
  <2>2. p \in Keys \X Version
    BY <2>1 DEF InductiveInvariant, TypeInv, TypeOK, IsTable
  <2>3. <<p[1], v>> \in DOMAIN table
    <3>1. v \in 1..p[2]
      BY <2>1, <2>2 DEF Version
    <3>2. QED
      BY <2>1, <3>1 DEF InductiveInvariant, TypeInv, Shape, NoGap
  <2>4. CASE v = p[2] - 1
    <3>1. NextRow(<<p[1], v>>) = p
      BY <2>2, <2>4 DEF NextRow, Version
    <3>2. QED
      BY <2>1, <2>3, <3>1
         DEF InductiveInvariant, PubInv, TablePublished, SuccessiveDiffer
  <2>5. QED
    BY <2>3, <2>4
<1>2. QED
  BY <1>1, Inductive, PTL

\* The published row is the latest one that was not rolled back
\* (observation.go:206).
THEOREM PublishedIsLatestStandingHolds == Spec => []PublishedIsLatestStanding
<1>1. InductiveInvariant => PublishedIsLatestStanding
  <2>1. SUFFICES ASSUME InductiveInvariant, NEW p \in DOMAIN table
                 PROVE  /\ table[p].rolledBack <=> p[2] > Published(p[1])
                        /\ table[p].superseded <=> ~table[p].current
    BY DEF PublishedIsLatestStanding
  <2>2. PICK q \in DOMAIN table : /\ q[1] = p[1] /\ table[q].current
                                 /\ Published(p[1]) = q[2]
    BY <2>1, PublishedRow
  <2>3. QED
    BY <2>1, <2>2 DEF InductiveInvariant, PubInv, TablePublished,
       ReasonsAfterCurrent, SupersededNotCurrent
<1>2. QED
  BY <1>1, Inductive, PTL

\* The table changes by commits only.
LEMMA TableChanges ==
  ASSUME InductiveInvariant, [Next]_vars, table' # table
  PROVE  \E s \in Sessions : /\ pc[s] = "commit" /\ table' = View(s)
                            /\ \E f : End(s, f)
<1>1. Next
  BY DEF vars
<1>2. PICK s \in Sessions : Commit(s) \/ CommitUnacknowledged(s)
  BY <1>1 DEF Next, Statement, WriteUnchanged, ReadCurrent, SelectTargets,
     Demote, Insert, RbDemote, RbPromote, NoPrior, UniqueViolation, Lose,
     DeadlockVictim
<1>3. QED
  BY <1>2 DEF Commit, CommitUnacknowledged

\* No step deletes a row or alters what it says, whoever takes it
\* (observation.go:153, observation.go:208).
THEOREM AppendOnlyHolds == Spec => AppendOnly
<1>1. InductiveInvariant /\ [Next]_vars => RowsPreserved
  <2>1. SUFFICES ASSUME InductiveInvariant, [Next]_vars PROVE RowsPreserved
    OBVIOUS
  <2>2. CASE table' = table
    BY <2>2 DEF RowsPreserved
  <2>3. CASE table' # table
    <3>1. PICK s \in Sessions : pc[s] = "commit" /\ table' = View(s)
      BY <2>1, <2>3, TableChanges
    <3>2. Preserves(table, View(s))
      BY <2>1, <3>1, CommitRows DEF InductiveInvariant
    <3>3. QED
      BY <3>1, <3>2 DEF Preserves, RowsPreserved
  <2>4. QED
    BY <2>2, <2>3
<1>2. QED
  BY <1>1, Inductive, PTL DEF Spec, AppendOnly

\* A rollback that takes effect takes effect for all the rows of its run it
\* listed (observation.go:242, one transaction around the loop).
THEOREM RollbackAllOrNothingHolds == Spec => RollbackAllOrNothing
<1> DEFINE Whole == \A o \in Operators :
                      InTransaction(o) /\ ~InTransaction(o)' =>
                        table' = table \/ RollbackWhole(o)
<1>1. InductiveInvariant /\ [Next]_vars => Whole
  <2>1. SUFFICES ASSUME InductiveInvariant, [Next]_vars, NEW o \in Operators,
                        InTransaction(o), ~InTransaction(o)', table' # table
                 PROVE  RollbackWhole(o)
    OBVIOUS
  <2>2. PICK s \in Sessions : /\ pc[s] = "commit" /\ table' = View(s)
                             /\ \E f : End(s, f)
    BY <2>1, TableChanges
  <2>3. s = o
    BY <2>1, <2>2 DEF InductiveInvariant, TypeInv, TypeOK, End, InTransaction,
       Sessions
  <2>4. ASSUME NEW p \in targets[o]
        PROVE  table'[p].rolledBack /\ table'[PriorRow(p)].current
    <3>1. /\ p \in DOMAIN dirty[o] /\ PriorRow(p) \in DOMAIN dirty[o]
          /\ dirty[o][p] = Rejected(table[p])
          /\ dirty[o][PriorRow(p)] = Restored(table[PriorRow(p)])
      BY <2>1, <2>2, <2>3 DEF InductiveInvariant, PubInv, OperatorPub
    <3>2. p \in DOMAIN table /\ PriorRow(p) \in DOMAIN table
      BY <2>1, <3>1 DEF InductiveInvariant, TypeInv, Shape, OperatorShape
    <3>3. table[p] \in Row /\ table[PriorRow(p)] \in Row
      BY <2>1, <3>2 DEF InductiveInvariant, TypeInv, TypeOK, IsTable
    <3>4. /\ table'[p] = Rejected(table[p])
          /\ table'[PriorRow(p)] = Restored(table[PriorRow(p)])
      BY <2>2, <2>3, <3>1 DEF View, Overlay
    <3>5. QED
      BY <3>3, <3>4, ImageFields
  <2>5. QED
    BY <2>4 DEF RollbackWhole, PriorRow
<1>2. QED
  BY <1>1, Inductive, PTL DEF Spec, RollbackAllOrNothing
=============================================================================
