------------------------- MODULE EditorialReconcile -------------------------
(***************************************************************************)
(* ingest --reconcile: ReconcileEditorial projects the breaks and the      *)
(* events of the configuration into series_break and event, in one READ    *)
(* COMMITTED transaction.                                                  *)
(*                                                                         *)
(* The two tables are treated alike: all rows are read, retired ones       *)
(* included; the entries are compared with that reading in file order and  *)
(* inserted or updated; then the live rows that no entry names are retired *)
(* in the order of a Go map, that is in any order.  A statement waits for  *)
(* the row that another open transaction has written.  A deadlock has one  *)
(* of its transactions aborted, which is a case of Stop.                   *)
(***************************************************************************)
EXTENDS ConfigRules, FiniteSets

CONSTANT Calls

VARIABLES
  pc,     \* per call, its next step
  config, \* per call, the configuration of its binary
  table,  \* per call, the table it is at
  todo,   \* per call, what it has still to do to entries, by their position
  stale,  \* per call, the keys it has still to retire
  dirty,  \* per call, the rows its transaction has written
  rows    \* the committed rows of both tables, by natural key

local == <<table, todo, stale, dirty>>

Tables == {"breaks", "events"}
EdStages == {"read", "write", "retire", "commit"}

Key(t, e) == IF t = "breaks" THEN <<e.id, e.kind, e.ref>> ELSE <<e.id>>
Digest(e) == <<e.date, e.text>>
TableOf(key) == IF Len(key) = 3 THEN "breaks" ELSE "events"

EdInit ==
  /\ table = [c \in Calls |-> "breaks"]
  /\ todo = [c \in Calls |-> <<>>]
  /\ stale = [c \in Calls |-> {}]
  /\ dirty = [c \in Calls |-> <<>>]

Goto(c, stage) == pc' = [pc EXCEPT ![c] = stage]

\* The positions of the entries that are projected: those with a date.
Desired(cfg, t) == {i \in DOMAIN cfg[t] : cfg[t][i].date # Missing}

\* Mutant of NeedsWrite: a retired row counts as present.
NeedsWriteIgnoresRetired(t, e, seen) ==
  Key(t, e) \in DOMAIN seen => seen[Key(t, e)].digest # Digest(e)

NeedsWrite(t, e, seen) ==
  Key(t, e) \in DOMAIN seen =>
    seen[Key(t, e)].digest # Digest(e) \/ ~seen[Key(t, e)].live

\* What the diff of a table comes to: writes, and rows to retire.  An entry
\* that repeats a key is among them, for the batch to fail on.
Repeats(cfg, t, i) ==
  \E j \in Desired(cfg, t) : j < i /\ Key(t, cfg[t][j]) = Key(t, cfg[t][i])

Writes(cfg, t, seen) ==
  [i \in {j \in Desired(cfg, t) : Repeats(cfg, t, j) \/ NeedsWrite(t, cfg[t][j], seen)} |->
     IF Repeats(cfg, t, i) THEN "duplicate"
     ELSE IF Key(t, cfg[t][i]) \in DOMAIN seen THEN "update" ELSE "insert"]

Stale(cfg, t, seen) ==
  {key \in DOMAIN seen : /\ TableOf(key) = t /\ seen[key].live
                         /\ \A i \in Desired(cfg, t) : Key(t, cfg[t][i]) # key}

\* Mutant of ReadTable: only the live rows are read.
ReadLiveRows(c) ==
  /\ pc[c] = "read"
  /\ LET live == [key \in {k \in DOMAIN rows : rows[k].live} |-> rows[key]] IN
       /\ todo' = [todo EXCEPT ![c] = Writes(config[c], table[c], live)]
       /\ stale' = [stale EXCEPT ![c] = Stale(config[c], table[c], live)]
  /\ Goto(c, "write")
  /\ UNCHANGED <<config, table, dirty, rows>>

ReadTable(c) ==
  /\ pc[c] = "read"
  /\ todo' = [todo EXCEPT ![c] = Writes(config[c], table[c], rows)]
  /\ stale' = [stale EXCEPT ![c] = Stale(config[c], table[c], rows)]
  /\ Goto(c, "write")
  /\ UNCHANGED <<config, table, dirty, rows>>

Held(c, key) == \E d \in Calls \ {c} : key \in DOMAIN dirty[d]

\* Mutant of Rollback: the transaction is left open.
NoRollback(c) == UNCHANGED dirty

Rollback(c) == dirty' = [dirty EXCEPT ![c] = <<>>]

\* The rows under a transaction that has written those of top, as it sees them.
Overlay(top, under) ==
  [key \in DOMAIN top \cup DOMAIN under |-> IF key \in DOMAIN top THEN top[key] ELSE under[key]]

Put(c, key, row) == dirty' = [dirty EXCEPT ![c] = Overlay([k \in {key} |-> row], @)]

\* The entry that is due, in file order.
Due(c) == CHOOSE i \in DOMAIN todo[c] : \A j \in DOMAIN todo[c] : i <= j
Entry(c) == config[c][table[c]][Due(c)]
DueKey(c) == Key(table[c], Entry(c))

WriteEntry(c) ==
  /\ pc[c] = "write" /\ DOMAIN todo[c] # {}
  /\ ~Held(c, DueKey(c))
  /\ \/ todo[c][Due(c)] = "update"
     \/ todo[c][Due(c)] = "insert" /\ DueKey(c) \notin DOMAIN rows
  /\ Put(c, DueKey(c), [digest |-> Digest(Entry(c)), live |-> TRUE])
  /\ todo' = [todo EXCEPT ![c] = [i \in DOMAIN @ \ {Due(c)} |-> @[i]]]
  /\ UNCHANGED <<pc, config, table, stale, rows>>

\* A repeated key, or a row that another call has inserted since the reading.
EntryRefused(c) ==
  /\ pc[c] = "write" /\ DOMAIN todo[c] # {}
  /\ \/ todo[c][Due(c)] = "duplicate"
     \/ todo[c][Due(c)] = "insert" /\ ~Held(c, DueKey(c)) /\ DueKey(c) \in DOMAIN rows
  /\ Rollback(c)
  /\ Goto(c, "failed")
  /\ UNCHANGED <<config, table, todo, stale, rows>>

AllWritten(c) ==
  /\ pc[c] = "write" /\ DOMAIN todo[c] = {}
  /\ Goto(c, "retire")
  /\ UNCHANGED <<config, local, rows>>

\* The row is retired as it is now, which may not be as it was read.
Retire(c) ==
  /\ pc[c] = "retire"
  /\ \E key \in stale[c] :
       /\ ~Held(c, key)
       /\ Put(c, key, [rows[key] EXCEPT !.live = FALSE])
       /\ stale' = [stale EXCEPT ![c] = @ \ {key}]
  /\ UNCHANGED <<pc, config, table, todo, rows>>

TableDone(c) ==
  /\ pc[c] = "retire" /\ stale[c] = {}
  /\ table' = [table EXCEPT ![c] = "events"]
  /\ Goto(c, IF table[c] = "breaks" THEN "read" ELSE "commit")
  /\ UNCHANGED <<config, todo, stale, dirty, rows>>

Commit(c) ==
  /\ pc[c] = "commit"
  /\ rows' = Overlay(dirty[c], rows)
  /\ Rollback(c)
  /\ Goto(c, "done")
  /\ UNCHANGED <<config, table, todo, stale>>

\* The connection is lost, the process ends, or a deadlock is resolved; at
\* the commit, before or after it has taken effect.
EdStop(c) ==
  /\ pc[c] \in EdStages
  /\ rows' \in IF pc[c] = "commit" THEN {rows, Overlay(dirty[c], rows)} ELSE {rows}
  /\ Rollback(c)
  /\ Goto(c, "stopped")
  /\ UNCHANGED <<config, table, todo, stale>>

EdStep(c) ==
  \/ ReadTable(c) \/ WriteEntry(c) \/ EntryRefused(c) \/ AllWritten(c)
  \/ Retire(c) \/ TableDone(c) \/ Commit(c) \/ EdStop(c)

-----------------------------------------------------------------------------

\* What the tables should hold live for a configuration.
Projection(cfg) ==
  UNION {{<<Key(t, cfg[t][i]), Digest(cfg[t][i])>> : i \in Desired(cfg, t)} : t \in Tables}

Live(table_) == {<<key, table_[key].digest>> : key \in {k \in DOMAIN table_ : table_[k].live}}
=============================================================================
