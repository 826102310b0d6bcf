---------------------------- MODULE VintageStore ----------------------------
(***************************************************************************)
(* What the observation table promises its readers, one step per call: a   *)
(* chain of vintages for every key (a series and a period), of which a     *)
(* prefix stands and the rest was rolled back.  The last standing vintage  *)
(* is the published one.                                                   *)
(*                                                                         *)
(*   Revise    a WriteRevision that inserted a row                         *)
(*   RollBack  a RollbackRun that succeeded, for all its rows at once      *)
(*                                                                         *)
(* Calls that fail, and revisions equal to the published value, change     *)
(* nothing here.                                                           *)
(***************************************************************************)
EXTENDS Naturals, Sequences

CONSTANTS Keys,     \* (series_id, period) pairs
          Contents, \* (value, status) pairs
          Runs      \* ingestion runs

VARIABLES chain,    \* every vintage ever accepted, oldest first
          standing  \* how many of them stand; the published one is the last

vars == <<chain, standing>>

Vintage == [content: Contents, run: Runs]

TypeOK ==
  /\ chain \in [Keys -> Seq(Vintage)]
  /\ standing \in [Keys -> Nat]

Init ==
  /\ chain = [k \in Keys |-> <<>>]
  /\ standing = [k \in Keys |-> 0]

\* A revision is accepted only on top of an untouched chain: once a vintage
\* of the key has been rolled back no other is ever added.
Revise(k, c, r) ==
  /\ standing[k] = Len(chain[k])
  /\ standing[k] > 0 => chain[k][standing[k]].content # c
  /\ chain' = [chain EXCEPT ![k] = Append(@, [content |-> c, run |-> r])]
  /\ standing' = [standing EXCEPT ![k] = @ + 1]

\* The vintages of run r published for the keys K stop standing together.
RollBack(r, K) ==
  /\ \A k \in K : standing[k] > 1 /\ chain[k][standing[k]].run = r
  /\ standing' = [k \in Keys |-> IF k \in K THEN standing[k] - 1
                                            ELSE standing[k]]
  /\ UNCHANGED chain

Next ==
  \/ \E k \in Keys, c \in Contents, r \in Runs : Revise(k, c, r)
  \/ \E r \in Runs, K \in SUBSET Keys : RollBack(r, K)

Spec == Init /\ [][Next]_vars
=============================================================================
