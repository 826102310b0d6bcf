------------------------- MODULE DimensionReconcile -------------------------
(***************************************************************************)
(* ReconcileDimensions, which every ingest runs first: sources, datasets   *)
(* and series are upserted one statement at a time, and the active mapping *)
(* of each series onto its identifier at the source is replaced when the   *)
(* configuration names another one.                                        *)
(*                                                                         *)
(* Each upsert commits by itself.  The active mapping is read outside the  *)
(* transaction that replaces it (close the active row, insert the next):   *)
(* an UPDATE that waited for another transaction looks again at the row it *)
(* waited for and at no other, and the partial unique index                *)
(* one_active_mapping refuses a second open row.                           *)
(***************************************************************************)
EXTENDS ConfigRules, FiniteSets

CONSTANT Calls

VARIABLES
  pc,      \* per call, its next step
  config,  \* per call, the configuration of its binary
  left,    \* per call, the sources it has still to upsert
  at,      \* per call, the position of its series in the configuration
  row,     \* per call, the mapping its UPDATE closes; 0: none
  sources, \* ids with a source row
  datasets, \* per dataset row, its source
  series,   \* per series row, its dataset
  mappings  \* per series, its mappings, oldest first

local == <<left, at, row>>
tables == <<sources, datasets, series, mappings>>

\* The transaction of ReplaceActiveMapping, from its UPDATE on.
InTransaction == {"open", "commitMapping"}
DimStages == {"sources", "dataset", "series", "mapping", "first", "close", "waiting"}
               \cup InTransaction

DimInit ==
  /\ left = [c \in Calls |-> config[c].sources]
  /\ at = [c \in Calls |-> 1]
  /\ row = [c \in Calls |-> 0]

Goto(c, stage) == pc' = [pc EXCEPT ![c] = stage]
Mine(c) == config[c].series[at[c]]

Open(s) == {i \in DOMAIN mappings[s] : mappings[s][i].to = Missing}

\* ActiveSourceRef: the first source_ref without an end.
ActiveRef(s) ==
  LET open == {i \in DOMAIN s.refs : s.refs[i].to = Missing}
  IN  IF open = {} THEN Missing ELSE s.refs[CHOOSE i \in open : \A j \in open : i <= j]

Mapping(ref) == [ref |-> ref.ref, from |-> ref.from, to |-> Missing]

\* INSERT ... ON CONFLICT (id) DO UPDATE of the column that refers to a parent.
Upsert(rows, id, parent) ==
  [k \in DOMAIN rows \cup {id} |-> IF k = id THEN parent ELSE rows[k]]

UpsertSource(c) ==
  /\ pc[c] = "sources"
  /\ \E id \in left[c] :
       /\ sources' = sources \cup {id}
       /\ left' = [left EXCEPT ![c] = @ \ {id}]
  /\ UNCHANGED <<pc, config, at, row, datasets, series, mappings>>

\* The next series that names a source and a dataset, or the end.
SkipTo(c, i) ==
  LET wanted == {j \in DOMAIN config[c].series :
                   /\ j >= i
                   /\ config[c].series[j].source # Missing
                   /\ config[c].series[j].dataset # Missing}
  IN  IF wanted = {}
        THEN Goto(c, "done") /\ UNCHANGED at
        ELSE /\ Goto(c, "dataset")
             /\ at' = [at EXCEPT ![c] = CHOOSE j \in wanted : \A k \in wanted : j <= k]

SourcesDone(c) ==
  /\ pc[c] = "sources" /\ left[c] = {}
  /\ SkipTo(c, 1)
  /\ UNCHANGED <<config, left, row, tables>>

UpsertDataset(c) ==
  /\ pc[c] = "dataset"
  /\ Mine(c).source \in sources
  /\ datasets' = Upsert(datasets, Mine(c).dataset, Mine(c).source)
  /\ Goto(c, "series")
  /\ UNCHANGED <<config, local, sources, series, mappings>>

\* The foreign key refuses a source that has no row.
DatasetRefused(c) ==
  /\ pc[c] = "dataset"
  /\ Mine(c).source \notin sources
  /\ Goto(c, "failed")
  /\ UNCHANGED <<config, local, tables>>

UpsertSeries(c) ==
  /\ pc[c] = "series"
  /\ series' = Upsert(series, Mine(c).slug, Mine(c).dataset)
  /\ IF ActiveRef(Mine(c)) = Missing
       THEN SkipTo(c, at[c] + 1)
       ELSE Goto(c, "mapping") /\ UNCHANGED at
  /\ UNCHANGED <<config, left, row, sources, datasets, mappings>>

-----------------------------------------------------------------------------
(* reconcileActiveMapping *)

\* Mutant of ReadMapping: a series that has a mapping is passed over.
ReadMappingOnce(c) ==
  /\ pc[c] = "mapping"
  /\ IF Open(Mine(c).slug) = {} THEN Goto(c, "first") /\ UNCHANGED at ELSE SkipTo(c, at[c] + 1)
  /\ UNCHANGED <<config, left, row, tables>>

\* Mutant of ReadMapping: the active mapping is replaced without comparing it.
ReadMappingAlways(c) ==
  /\ pc[c] = "mapping"
  /\ Goto(c, IF Open(Mine(c).slug) = {} THEN "first" ELSE "close")
  /\ UNCHANGED <<config, local, tables>>

ReadMapping(c) ==
  /\ pc[c] = "mapping"
  /\ LET s == Mine(c).slug IN
       IF Open(s) = {} THEN Goto(c, "first") /\ UNCHANGED at
       ELSE IF \E i \in Open(s) : mappings[s][i].ref = ActiveRef(Mine(c)).ref
              THEN SkipTo(c, at[c] + 1)
              ELSE Goto(c, "close") /\ UNCHANGED at
  /\ UNCHANGED <<config, left, row, tables>>

\* An open transaction of another call has written this series' mappings.
Writing(c, s) ==
  \E d \in Calls \ {c} : pc[d] \in InTransaction /\ Mine(d).slug = s /\ row[d] # 0

InsertFirst(c) ==
  /\ pc[c] = "first"
  /\ LET s == Mine(c).slug IN
       /\ ~Writing(c, s) /\ Open(s) = {}
       /\ mappings' = [mappings EXCEPT ![s] = Append(@, Mapping(ActiveRef(Mine(c))))]
  /\ SkipTo(c, at[c] + 1)
  /\ UNCHANGED <<config, left, row, sources, datasets, series>>

\* Another call has inserted the first mapping since this one looked.
FirstRefused(c) ==
  /\ pc[c] = "first"
  /\ ~Writing(c, Mine(c).slug) /\ Open(Mine(c).slug) # {}
  /\ Goto(c, "failed")
  /\ UNCHANGED <<config, local, tables>>

\* The UPDATE of ReplaceActiveMapping takes the active row of now.
Close(c) ==
  /\ pc[c] = "close"
  /\ \E i \in Open(Mine(c).slug) : row' = [row EXCEPT ![c] = i]
  /\ Goto(c, IF Writing(c, Mine(c).slug) THEN "waiting" ELSE "open")
  /\ UNCHANGED <<config, left, at, tables>>

CloseWaited(c) ==
  /\ pc[c] = "waiting"
  /\ ~Writing(c, Mine(c).slug)
  /\ row' = [row EXCEPT ![c] = IF @ \in Open(Mine(c).slug) THEN @ ELSE 0]
  /\ Goto(c, "open")
  /\ UNCHANGED <<config, left, at, tables>>

\* Mutant of Insert: no unique index.
InsertUnchecked(c) ==
  /\ pc[c] = "open"
  /\ Goto(c, "commitMapping")
  /\ UNCHANGED <<config, local, tables>>

\* The index looks at what is open apart from the row just closed.
Insert(c) ==
  /\ pc[c] = "open"
  /\ Open(Mine(c).slug) \subseteq {row[c]}
  /\ Goto(c, "commitMapping")
  /\ UNCHANGED <<config, local, tables>>

InsertRefused(c) ==
  /\ pc[c] = "open"
  /\ ~Writing(c, Mine(c).slug) /\ ~(Open(Mine(c).slug) \subseteq {row[c]})
  /\ Goto(c, "failed")
  /\ UNCHANGED <<config, local, tables>>

Replaced(c) ==
  [mappings EXCEPT ![Mine(c).slug] =
     Append([i \in DOMAIN @ |-> IF i = row[c] THEN [@[i] EXCEPT !.to = ActiveRef(Mine(c)).from]
                                              ELSE @[i]],
            Mapping(ActiveRef(Mine(c))))]

CommitMapping(c) ==
  /\ pc[c] = "commitMapping"
  /\ mappings' = Replaced(c)
  /\ row' = [row EXCEPT ![c] = 0]
  /\ SkipTo(c, at[c] + 1)
  /\ UNCHANGED <<config, left, sources, datasets, series>>

\* A statement fails, the connection or the process goes away; at the commit,
\* before or after it has taken effect.
DimStop(c) ==
  /\ pc[c] \in DimStages
  /\ mappings' \in IF pc[c] = "commitMapping" THEN {mappings, Replaced(c)} ELSE {mappings}
  /\ Goto(c, "stopped")
  /\ UNCHANGED <<config, local, sources, datasets, series>>

DimStep(c) ==
  \/ UpsertSource(c) \/ SourcesDone(c) \/ UpsertDataset(c) \/ DatasetRefused(c)
  \/ UpsertSeries(c) \/ ReadMapping(c) \/ InsertFirst(c) \/ FirstRefused(c)
  \/ Close(c) \/ CloseWaited(c) \/ Insert(c) \/ InsertRefused(c)
  \/ CommitMapping(c) \/ DimStop(c)
=============================================================================
