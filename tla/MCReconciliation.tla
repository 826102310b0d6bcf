-------------------------- MODULE MCReconciliation --------------------------
(* A small instance of Reconciliation for TLC: two valid configurations, of *)
(* which the second moves the series to another dataset and identifier,     *)
(* edits an event, drops a break and dates one that was pending; and one    *)
(* that repeats a break and whose series names a source it does not have.   *)
EXTENDS Reconciliation, TLC

BreakOf(id, kind_, ref, date, text) ==
  [id |-> id, kind |-> kind_, ref |-> ref, date |-> date, text |-> text,
   status |-> IF date = Missing THEN "unconfirmed" ELSE Missing,
   refStatus |-> Missing, todo |-> TRUE]

EventOf(id, date, text) ==
  [id |-> id, date |-> date, text |-> text,
   status |-> IF date = Missing THEN "unconfirmed" ELSE Missing, todo |-> TRUE]

SeriesOf(source, dataset, refs) ==
  [slug |-> "paro", source |-> source, dataset |-> dataset, refs |-> refs]

Ref(ref, from, to) == [ref |-> ref, from |-> from, to |-> to]

Empty == [sources |-> {}, series |-> <<>>, breaks |-> <<>>, events |-> <<>>]

First ==
  [sources |-> {"ine"},
   series |-> <<SeriesOf("ine", "epa", <<Ref("EPA1", 1, Missing)>>)>>,
   breaks |-> <<BreakOf("base", "source", "ine", 1, "x"),
                BreakOf("method", "series", "paro", Missing, "x")>>,
   events |-> <<EventOf("covid", 1, "x")>>]

Second ==
  [sources |-> {"ine"},
   series |-> <<SeriesOf("ine", "epa2", <<Ref("EPA1", 1, 2), Ref("EPA2", 2, Missing)>>)>>,
   breaks |-> <<BreakOf("method", "series", "paro", 2, "x"),
                BreakOf("sample", "dataset", "epa2", 2, "x")>>,
   events |-> <<EventOf("covid", 1, "y")>>]

Invalid ==
  [First EXCEPT
     !.series = <<SeriesOf("seg-social", "epa2", <<Ref("EPA2", 2, Missing)>>)>>,
     !.breaks = Append(@, BreakOf("base", "source", "ine", 2, "y"))]

MCConfigs == {First, Second, Invalid}
MCBases == {Empty, First, Second}

Symmetry == Permutations(Calls)
=============================================================================
