-------------------------- MODULE ObservationStore --------------------------
(***************************************************************************)
(* The observation table and the transactions of postgres.ObservationWriter*)
(* on it, statement by statement, as READ COMMITTED sessions of PostgreSQL *)
(* run them.                                                               *)
(*                                                                         *)
(* A session is an ingestion run, which calls WriteRevision for its        *)
(* candidates one after the other and stops at the first error, or an      *)
(* operator, who calls RollbackRun.  The runs of one process and those of  *)
(* another (the scheduler inside serve, the ingest command) share only the *)
(* table, so nothing orders their statements.                              *)
(*                                                                         *)
(* Of PostgreSQL the module keeps what the writer relies on: a SELECT sees *)
(* committed rows; an UPDATE waits for the transaction that has updated    *)
(* the row and then applies to its latest image; an INSERT or an UPDATE    *)
(* that makes a row current is refused by the primary key or by the        *)
(* partial unique index one_current_row, and waits while a transaction in  *)
(* progress may still decide whether there is a conflict; a COMMIT         *)
(* installs all the images at once; an error, a lost connection or a       *)
(* deadlock victim installs none of them.                                  *)
(***************************************************************************)
EXTENDS Naturals, FiniteSets

CONSTANTS Keys,      \* (series_id, period) pairs
          Contents,  \* (value, status) pairs; a withdrawal is one of them
          Runs,      \* ingestion runs, each with a session of its own
          Operators, \* sessions that call RollbackRun
          NoKey, NoContent

ASSUME SessionsAssumption == Runs \cap Operators = {}
ASSUME NullsAssumption == NoKey \notin Keys /\ NoContent \notin Contents

Sessions == Runs \cup Operators
Version == Nat \ {0}

VARIABLES
  table,   \* committed rows: a function on a set of <<key, version>> pairs
  dirty,   \* per session, the row images its open transaction has written
  pc,      \* per session, the next statement of its open transaction
  target,  \* per session, the <<key, version>> the transaction works from
  input,   \* per session, the content of the revision being written
  targets, \* per session, the rows RollbackRun has listed for its run
  left,    \* per run, the keys its publish loop has not come to yet
  failure  \* per session, the error of its last call

vars == <<table, dirty, pc, target, input, targets, left, failure>>

Row == [content: Contents, run: Runs, current: BOOLEAN,
        superseded: BOOLEAN, rolledBack: BOOLEAN]
NoRows == [p \in {} |-> NoKey]
NoTarget == <<NoKey, 0>>

Statements == {"idle", "demote", "insert", "rbDemote", "rbPromote", "commit",
               "stopped"}
Failures == {"none", "unique", "noPrior", "lost"}

-----------------------------------------------------------------------------
(* Reading the table *)

Versions(k) == {p[2] : p \in {q \in DOMAIN table : q[1] = k}}
CurrentRows(k) == {p \in DOMAIN table : p[1] = k /\ table[p].current}

\* The version a reader is served, and the greatest one stored; 0 for none.
Published(k) ==
  IF CurrentRows(k) = {} THEN 0 ELSE (CHOOSE p \in CurrentRows(k) : TRUE)[2]
Latest(k) ==
  IF Versions(k) = {} THEN 0
  ELSE CHOOSE v \in Versions(k) : \A u \in Versions(k) : u <= v

\* f with the images of d laid over it.
Overlay(d, f) == [p \in DOMAIN d \cup DOMAIN f |->
                    IF p \in DOMAIN d THEN d[p] ELSE f[p]]
View(s) == Overlay(dirty[s], table)

-----------------------------------------------------------------------------
(* Locks and unique indexes *)

InTransaction(s) == pc[s] \notin {"idle", "stopped"}

\* The row the next statement of session s writes.
Written(s) ==
  CASE pc[s] = "insert"    -> <<target[s][1], target[s][2] + 1>>
    [] pc[s] = "rbPromote" -> <<target[s][1], target[s][2] - 1>>
    [] OTHER               -> target[s]

\* Transactions that have written row p (it is locked), or that have put a
\* row of key k into one_current_row or taken one out of it.
RowHolders(s, p) == {t \in Sessions \ {s} : p \in DOMAIN dirty[t]}
IndexHolders(s, k) ==
  {t \in Sessions \ {s} : \E q \in DOMAIN dirty[t] :
     /\ q[1] = k
     /\ dirty[t][q].current \/ (q \in DOMAIN table /\ table[q].current)}

MakesCurrent(s) == pc[s] \in {"insert", "rbPromote"}
\* Mutant: INSERT ... ON CONFLICT DO UPDATE.
PrimaryKeyIgnored(s) == FALSE

PrimaryKeyTaken(s) == pc[s] = "insert" /\ Written(s) \in DOMAIN table
\* Mutant: the partial unique index is missing.
OtherCurrentIgnored(s) == FALSE

OtherCurrent(s) ==
  \E q \in DOMAIN View(s) :
    q # Written(s) /\ q[1] = target[s][1] /\ View(s)[q].current

\* The transactions session s waits for: the row's first, then, unless the
\* primary key has refused the row already, those of one_current_row.
Waits(s) ==
  IF pc[s] \notin {"demote", "insert", "rbDemote", "rbPromote"} THEN {}
  ELSE IF RowHolders(s, Written(s)) # {} THEN RowHolders(s, Written(s))
  ELSE IF MakesCurrent(s) /\ ~PrimaryKeyTaken(s)
       THEN IndexHolders(s, target[s][1])
  ELSE {}

\* s is on a cycle of waiting sessions: it belongs to a smallest set in which
\* every session waits for another of the set.
Stuck(C) == C # {} /\ \A t \in C : Waits(t) \cap C # {}
InCycle(s) == \E C \in SUBSET Sessions :
  s \in C /\ Stuck(C) /\ \A D \in SUBSET C : Stuck(D) => D = C

-----------------------------------------------------------------------------
(* How a transaction writes and ends *)

Write(s, p, image) ==
  dirty' = [dirty EXCEPT ![s] = Overlay([q \in {p} |-> image], @)]

End(s, f) ==
  /\ dirty' = [dirty EXCEPT ![s] = NoRows]
  /\ pc' = [pc EXCEPT ![s] = IF s \in Runs /\ f # "none" THEN "stopped"
                                                         ELSE "idle"]
  /\ target' = [target EXCEPT ![s] = NoTarget]
  /\ input' = [input EXCEPT ![s] = NoContent]
  /\ targets' = [targets EXCEPT ![s] = {}]
  /\ failure' = [failure EXCEPT ![s] = f]
  /\ UNCHANGED left

\* Mutants: is_current=false, the reason, or is_current=true is not written;
\* every payload is taken for a revision.
DemotedStillCurrent(row) == [row EXCEPT !.superseded = TRUE]
RejectedWithoutReason(row) == [row EXCEPT !.current = FALSE,
                                          !.superseded = TRUE]
RestoredNotCurrent(row) == [row EXCEPT !.superseded = FALSE]
NeverUnchanged(row, c) == FALSE

\* The images the statements write: a row superseded, refused and restored.
Demoted(row) == [row EXCEPT !.current = FALSE, !.superseded = TRUE]
Rejected(row) == [Demoted(row) EXCEPT !.rolledBack = TRUE]
Restored(row) == [row EXCEPT !.current = TRUE, !.superseded = FALSE]

\* sameValue and equal status: nothing for WriteRevision to add.
Unchanged(row, c) == row.content = c

Goto(s, statement) == pc' = [pc EXCEPT ![s] = statement]

\* The payload of a run lists some of the periods.
Init ==
  /\ table = NoRows
  /\ dirty = [s \in Sessions |-> NoRows]
  /\ pc = [s \in Sessions |-> "idle"]
  /\ target = [s \in Sessions |-> NoTarget]
  /\ input = [s \in Sessions |-> NoContent]
  /\ targets = [s \in Sessions |-> {}]
  /\ left \in [Runs -> SUBSET Keys]
  /\ failure = [s \in Sessions |-> "none"]

-----------------------------------------------------------------------------
(* WriteRevision, called for the next candidate of run r.  The order of the *)
(* candidates and their contents are those of the payload: any.            *)

\* The candidate equals the published row: the transaction commits nothing.
WriteUnchanged(r, k, c) ==
  /\ pc[r] = "idle"
  /\ k \in left[r]
  /\ \E p \in CurrentRows(k) : Unchanged(table[p], c)
  /\ left' = [left EXCEPT ![r] = @ \ {k}]
  /\ UNCHANGED <<table, dirty, pc, target, input, targets, failure>>

ReadCurrent(r, k, c) ==
  /\ pc[r] = "idle"
  /\ k \in left[r]
  /\ \/ /\ CurrentRows(k) = {}
        /\ target' = [target EXCEPT ![r] = <<k, 0>>]
        /\ Goto(r, "insert")
     \/ \E p \in CurrentRows(k) :
          /\ ~Unchanged(table[p], c)
          /\ target' = [target EXCEPT ![r] = p]
          /\ Goto(r, "demote")
  /\ input' = [input EXCEPT ![r] = c]
  /\ left' = [left EXCEPT ![r] = @ \ {k}]
  /\ UNCHANGED <<table, dirty, targets, failure>>

\* UPDATE ... SET is_current=false by primary key: whatever has become of the
\* row since it was read.
Demote(r) ==
  /\ pc[r] = "demote"
  /\ Waits(r) = {}
  /\ Write(r, target[r], Demoted(View(r)[target[r]]))
  /\ Goto(r, "insert")
  /\ UNCHANGED <<table, target, input, targets, left, failure>>

Insert(r) ==
  /\ pc[r] = "insert"
  /\ Waits(r) = {}
  /\ ~PrimaryKeyTaken(r)
  /\ ~OtherCurrent(r)
  /\ Write(r, Written(r), [content |-> input[r], run |-> r, current |-> TRUE,
                           superseded |-> FALSE, rolledBack |-> FALSE])
  /\ Goto(r, "commit")
  /\ UNCHANGED <<table, target, input, targets, left, failure>>

-----------------------------------------------------------------------------
(* RollbackRun of run r by operator o.  Nothing orders the rows of the     *)
(* SELECT.                                                                 *)

Take(o, p) ==
  /\ target' = [target EXCEPT ![o] = p]
  /\ Goto(o, "rbDemote")

SelectTargets(o, r) ==
  /\ pc[o] = "idle"
  /\ LET rows == {p \in DOMAIN table : table[p].current /\ table[p].run = r}
     IN  /\ targets' = [targets EXCEPT ![o] = rows]
         /\ \E p \in rows : Take(o, p)
  /\ failure' = [failure EXCEPT ![o] = "none"]
  /\ UNCHANGED <<table, dirty, input, left>>

\* ErrNoPriorVersion, also after other rows have been rolled back.
NoPrior(o) ==
  /\ pc[o] = "rbDemote"
  /\ target[o][2] = 1
  /\ End(o, "noPrior")
  /\ UNCHANGED table

RbDemote(o) ==
  /\ pc[o] = "rbDemote"
  /\ target[o][2] > 1
  /\ Waits(o) = {}
  /\ Write(o, target[o], Rejected(View(o)[target[o]]))
  /\ Goto(o, "rbPromote")
  /\ UNCHANGED <<table, target, input, targets, left, failure>>

\* Mutant: RollbackRun commits after its first row.
RbPromoteFirstOnly(o) ==
  /\ pc[o] = "rbPromote"
  /\ Waits(o) = {}
  /\ ~OtherCurrent(o)
  /\ Write(o, Written(o), Restored(View(o)[Written(o)]))
  /\ Goto(o, "commit")
  /\ UNCHANGED <<table, target, input, targets, left, failure>>

RbPromote(o) ==
  /\ pc[o] = "rbPromote"
  /\ Waits(o) = {}
  /\ ~OtherCurrent(o)
  /\ Write(o, Written(o), Restored(View(o)[Written(o)]))
  /\ LET rest == {p \in targets[o] : p \notin DOMAIN dirty[o]}
     IN  \/ rest = {} /\ Goto(o, "commit") /\ UNCHANGED target
         \/ \E p \in rest : Take(o, p)
  /\ UNCHANGED <<table, input, targets, left, failure>>

-----------------------------------------------------------------------------
(* Ends common to both calls *)

\* SQLSTATE 23505 from the primary key or from one_current_row.
UniqueViolation(s) ==
  /\ MakesCurrent(s)
  /\ Waits(s) = {}
  /\ PrimaryKeyTaken(s) \/ OtherCurrent(s)
  /\ End(s, "unique")
  /\ UNCHANGED table

Commit(s) ==
  /\ pc[s] = "commit"
  /\ table' = View(s)
  /\ End(s, "none")

\* The commit happened, its acknowledgement did not arrive.
CommitUnacknowledged(s) ==
  /\ pc[s] = "commit"
  /\ table' = View(s)
  /\ End(s, "lost")

\* The process, its context or its connection is gone: the server rolls back.
Lose(s) ==
  /\ InTransaction(s)
  /\ End(s, "lost")
  /\ UNCHANGED table

\* Mutant: the statement is not refused, the transaction goes on waiting.
DeadlockUnresolved(s) ==
  /\ InCycle(s)
  /\ UNCHANGED vars

DeadlockVictim(s) ==
  /\ InCycle(s)
  /\ End(s, "lost")
  /\ UNCHANGED table

-----------------------------------------------------------------------------

\* What the server does for session s of its own accord.
Statement(s) ==
  \/ s \in Runs /\ (Demote(s) \/ Insert(s))
  \/ s \in Operators /\ (RbDemote(s) \/ RbPromote(s) \/ NoPrior(s))
  \/ UniqueViolation(s)
  \/ Commit(s)

Next ==
  \/ \E r \in Runs, k \in Keys, c \in Contents :
       WriteUnchanged(r, k, c) \/ ReadCurrent(r, k, c)
  \/ \E o \in Operators, r \in Runs : SelectTargets(o, r)
  \/ \E s \in Sessions :
       Statement(s) \/ CommitUnacknowledged(s) \/ Lose(s) \/ DeadlockVictim(s)

Spec == Init /\ [][Next]_vars

\* A released row is handed to somebody who waits for it, so a statement that
\* keeps becoming possible is executed; the server looks for deadlocks.
Fairness == \A s \in Sessions :
  SF_vars(Statement(s)) /\ WF_vars(DeadlockVictim(s))

FairSpec == Spec /\ Fairness

-----------------------------------------------------------------------------
(* Properties *)

IsTable(f) == DOMAIN f \subseteq Keys \X Version /\ f \in [DOMAIN f -> Row]

\* Every variable has the type its declaration describes.
TypeOK ==
  /\ IsTable(table)
  /\ \A s \in Sessions : IsTable(dirty[s])
  /\ DOMAIN dirty = Sessions
  /\ pc \in [Sessions -> Statements]
  /\ target \in [Sessions -> (Keys \X Nat) \cup {NoTarget}]
  /\ input \in [Sessions -> Contents \cup {NoContent}]
  /\ targets \in [Sessions -> SUBSET (Keys \X Version)]
  /\ left \in [Runs -> SUBSET Keys]
  /\ failure \in [Sessions -> Failures]

\* No key ever has two published rows, whatever transactions overlap
\* (observation.go:10, one_current_row), and a key that has any row has one
\* published: no interleaving and no partial failure leaves a hole.
OnePublishedRow ==
  \A p \in DOMAIN table : Cardinality(CurrentRows(p[1])) = 1

\* The versions of a key are 1, 2, 3, ... with no gap, and two consecutive
\* ones differ: a run that raced another with the same value added nothing
\* (observation.go:156).
ChainWellFormed ==
  \A p \in DOMAIN table : \A v \in 1..(p[2] - 1) :
    /\ <<p[1], v>> \in DOMAIN table
    /\ v = p[2] - 1 => table[<<p[1], v>>].content # table[p].content

\* The rows after the published one are exactly those a rollback recorded its
\* reason on, and superseded_at is set exactly on what is not published: the
\* published row is the latest one that was never rolled back.
PublishedIsLatestStanding ==
  \A p \in DOMAIN table :
    /\ table[p].rolledBack <=> p[2] > Published(p[1])
    /\ table[p].superseded <=> ~table[p].current

\* The table is append-only: no step of any session removes a row, changes
\* what a row says or which run said it, or erases the record of a rollback.
RowsPreserved ==
  \A p \in DOMAIN table :
    /\ p \in DOMAIN table'
    /\ table'[p].content = table[p].content
    /\ table'[p].run = table[p].run
    /\ table[p].rolledBack => table'[p].rolledBack
AppendOnly == [][RowsPreserved]_vars

\* A rejected vintage is the end of its key: it keeps its version number, so no
\* run ever adds a row to the key again, and what is published of it can only
\* go further back (observation.go:180, observation.go:252).
RejectedKeysFreeze ==
  [][\A p \in DOMAIN table : table[p].rolledBack =>
       /\ Versions(p[1])' = Versions(p[1])
       /\ Published(p[1])' <= Published(p[1])]_vars

\* A unique violation always has a cause outside the call: the published row
\* is no longer the one it read, or a rollback had left the published row
\* behind the latest one before it was read.
ViolationsExplained ==
  [][\A s \in Sessions :
       failure'[s] = "unique" /\ failure[s] # "unique" =>
         LET k == target[s][1]
         IN  Published(k) # target[s][2] \/ Latest(k) # target[s][2]]_vars

\* Without rollbacks ingestion alone never loses a transaction to the
\* deadlock detector: runs that wait for each other in a cycle work on a key
\* that has a rolled-back row (there two writers, one that read the row before
\* the rollback and one after it, do lock the rows in opposite orders).
RunsDeadlockOnlyAfterRollback ==
  \A C \in SUBSET Runs : Stuck(C) =>
    \E r \in C, p \in DOMAIN table :
      p[1] = target[r][1] /\ table[p].rolledBack

\* A RollbackRun that ends has rolled back every row it listed, each of them
\* with the row before it published again, or none: a failure at one row, or
\* another session in between, never leaves the run half rolled back.
RollbackWhole(o) ==
  \A p \in targets[o] :
    table'[p].rolledBack /\ table'[<<p[1], p[2] - 1>>].current
RollbackAllOrNothing ==
  [][\A o \in Operators :
       InTransaction(o) /\ ~InTransaction(o)' =>
         table' = table \/ RollbackWhole(o)]_vars

\* Every call ends: no interleaving of locks and waits blocks a session for
\* ever.
CallsEnd == \A s \in Sessions : InTransaction(s) ~> ~InTransaction(s)

(* Refinement *)

Chain == [k \in Keys |-> [v \in 1..Latest(k) |->
           [content |-> table[<<k, v>>].content, run |-> table[<<k, v>>].run]]]
Standing == [k \in Keys |-> Published(k)]

Store == INSTANCE VintageStore WITH chain <- Chain, standing <- Standing

\* The statements of overlapping transactions add up to atomic revisions and
\* rollbacks.
ImplementsVintageStore == Store!Spec

-----------------------------------------------------------------------------
(* What the documents of the code say and the code does not do *)

\* data-model-vintages: a revision from the source MUST insert a new row.  The
\* transaction is refused only if the published row moved since it was read.
RevisionsAreAccepted ==
  [][\A r \in Runs :
       failure'[r] = "unique" /\ failure[r] # "unique" =>
         Published(target[r][1]) # target[r][2]]_vars

\* VintageAsOf for the present date: the greatest version, every run having
\* started before it.  It is the published row.
VintageAsOfNowIsPublished ==
  \A k \in Keys : Latest(k) = Published(k)
=============================================================================
