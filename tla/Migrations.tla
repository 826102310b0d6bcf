----------------------------- MODULE Migrations -----------------------------
(***************************************************************************)
(* The migrate command: postgres.Runner's Up, Down and Status.             *)
(*                                                                         *)
(* A migration file runs in one statement (sent without arguments, so as   *)
(* one implicit transaction) and its record in schema_migrations is        *)
(* written by the next one; nothing joins the two and nothing locks out a  *)
(* second invocation.  The first file creates every table and the later    *)
(* ones alter them, so undoing the first takes the others along.           *)
(***************************************************************************)
EXTENDS Naturals, FiniteSets, FiniteSetsExt

CONSTANTS
  Calls, \* invocations of the command
  Last   \* the files are numbered 1..Last; the repository has two

ASSUME LastAssumption == Last \in Nat \ {0}

VARIABLES
  pc,       \* per call, its next statement
  kind,     \* per call, the subcommand
  todo,     \* per call, the versions it has still to apply or to undo
  schema,   \* versions whose changes are in the database
  recorded, \* versions in schema_migrations
  cuts,     \* history: calls cut off between a file and its record
  mixed     \* history: an Up and a Down were under way together

db == <<schema, recorded>>
history == <<cuts, mixed>>
vars == <<pc, kind, todo, db, history>>

Versions == 1..Last
Kinds == {"up", "down", "status"}
Ended == {"done", "failed", "stopped"}

Init ==
  /\ pc = [c \in Calls |-> "idle"]
  /\ kind \in [Calls -> Kinds]
  /\ todo = [c \in Calls |-> {}]
  /\ schema = {} /\ recorded = {}
  /\ cuts = {} /\ mixed = FALSE

Goto(c, stage) == pc' = [pc EXCEPT ![c] = stage]

UnderWay(c) == pc[c] \notin {"idle"} \cup Ended

\* The command connects and makes sure that the tracking table exists.
Begin(c) ==
  /\ pc[c] = "idle"
  /\ Goto(c, "read")
  /\ mixed' = (mixed \/ \E d \in Calls : UnderWay(d) /\ {kind[c], kind[d]} = {"up", "down"})
  /\ UNCHANGED <<kind, todo, db, cuts>>

\* Mutant of TargetsOf: Down undoes everything that is recorded.
TargetsOfAll(k, applied) ==
  CASE k = "up" -> Versions \ applied
    [] k = "down" -> applied
    [] k = "status" -> {}

\* What is left to do for a call that has read these applied versions.
TargetsOf(k, applied) ==
  CASE k = "up" -> Versions \ applied
    [] k = "down" -> IF applied = {} THEN {} ELSE {Max(applied)}
    [] k = "status" -> {}

ReadApplied(c) ==
  /\ pc[c] = "read"
  /\ todo' = [todo EXCEPT ![c] = TargetsOf(kind[c], recorded)]
  /\ Goto(c, IF todo'[c] # {} THEN "schema"
             ELSE IF kind[c] = "down" THEN "failed" ELSE "done")
  /\ UNCHANGED <<kind, db, history>>

Target(c) == Min(todo[c])

\* CREATE TABLE and ADD COLUMN refuse what is there already; ADD COLUMN
\* needs the tables, and so do DROP TABLE and DROP COLUMN.
FileWorks(c) ==
  CASE kind[c] = "up" -> Target(c) \notin schema /\ (Target(c) = 1 \/ 1 \in schema)
    [] kind[c] = "down" -> Target(c) \in schema

SchemaAfter(c) ==
  CASE kind[c] = "up" -> schema \cup {Target(c)}
    [] kind[c] = "down" -> IF Target(c) = 1 THEN {} ELSE schema \ {Target(c)}

RunFile(c) ==
  /\ pc[c] = "schema"
  /\ FileWorks(c)
  /\ schema' = SchemaAfter(c)
  /\ Goto(c, "record")
  /\ UNCHANGED <<kind, todo, recorded, history>>

FileRefused(c) ==
  /\ pc[c] = "schema"
  /\ ~FileWorks(c)
  /\ Goto(c, "failed")
  /\ UNCHANGED <<kind, todo, db, history>>

\* Mutant of Record: Up returns after the first file.
RecordFirstOnly(c) ==
  /\ pc[c] = "record"
  /\ recorded' = IF kind[c] = "up" THEN recorded \cup {Target(c)} ELSE recorded \ {Target(c)}
  /\ todo' = [todo EXCEPT ![c] = {}]
  /\ Goto(c, "done")
  /\ UNCHANGED <<kind, schema, history>>

\* The record of the file that has just run; Up goes on with the next one.
Record(c) ==
  /\ pc[c] = "record"
  /\ kind[c] = "up" => Target(c) \notin recorded
  /\ recorded' = IF kind[c] = "up" THEN recorded \cup {Target(c)} ELSE recorded \ {Target(c)}
  /\ todo' = [todo EXCEPT ![c] = @ \ {Target(c)}]
  /\ Goto(c, IF todo'[c] = {} THEN "done" ELSE "schema")
  /\ UNCHANGED <<kind, schema, history>>

\* The primary key of schema_migrations refuses a second record.
RecordRefused(c) ==
  /\ pc[c] = "record"
  /\ kind[c] = "up" /\ Target(c) \in recorded
  /\ Goto(c, "failed")
  /\ UNCHANGED <<kind, todo, db, history>>

\* The process, its connection or the database goes away.
Stop(c) ==
  /\ UnderWay(c)
  /\ Goto(c, "stopped")
  /\ cuts' = IF pc[c] = "record" THEN cuts \cup {c} ELSE cuts
  /\ UNCHANGED <<kind, todo, db, mixed>>

Step(c) ==
  \/ Begin(c) \/ ReadApplied(c) \/ RunFile(c) \/ FileRefused(c)
  \/ Record(c) \/ RecordRefused(c) \/ Stop(c)

Next == \E c \in Calls : Step(c)

Spec == Init /\ [][Next]_vars

-----------------------------------------------------------------------------
(* Properties *)

TypeOK ==
  /\ pc \in [Calls -> {"idle", "read", "schema", "record"} \cup Ended]
  /\ kind \in [Calls -> Kinds]
  /\ todo \in [Calls -> SUBSET Versions]
  /\ schema \subseteq Versions /\ recorded \subseteq Versions
  /\ cuts \subseteq Calls /\ mixed \in BOOLEAN

\* The versions the database and its records disagree about, apart from
\* those whose record is the next statement of a call.
Drift ==
  LET inFlight == {Target(c) : c \in {d \in Calls : pc[d] = "record"}}
  IN  ((schema \ recorded) \cup (recorded \ schema)) \ inFlight

\* Every version that schema_migrations is wrong about takes a call of its
\* own that was cut off between a file and its record (Up, runner.go:154;
\* Down, runner.go:201): neither calls that fail elsewhere nor two Ups or
\* two Downs that read the same applied versions add to it, as long as no Up
\* overlaps a Down.
DriftTakesACut == ~mixed => Cardinality(Drift) <= Cardinality(cuts)

\* An Up that ends well (migrate.go:46, "migrated up") has every version in
\* the database, whatever other Ups it overlapped and wherever earlier calls
\* failed, unless one was cut off before its record.
UpBringsEverything ==
  [][\A c \in Calls :
       pc'[c] = "done" /\ pc[c] # "done" /\ kind[c] = "up" /\ cuts = {} /\ ~mixed
         => schema' = Versions]_vars

\* runner.go:169: "Down rolls back exactly one migration step: the most
\* recently applied version."  After an Up that was cut off before its record,
\* Down undoes an earlier one, and with the first all the tables.
DownUndoesLatest ==
  [][~mixed => \A v \in schema \ schema' : \A w \in schema : w <= v]_vars
=============================================================================
