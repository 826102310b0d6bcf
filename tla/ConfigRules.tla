---------------------------- MODULE ConfigRules -----------------------------
(***************************************************************************)
(* What validate-config accepts (config.Validate) of the part of the       *)
(* configuration that is reconciled into the database.                     *)
(*                                                                         *)
(* A configuration is a record with the sources (a set of ids) and, in     *)
(* file order, the series and the entries of the two editorial tables,     *)
(* "breaks" and "events".  It is embedded in the binary; the commands that *)
(* use it load it and do not validate it again.                            *)
(***************************************************************************)
EXTENDS Naturals, Sequences, SequencesExt

CONSTANT Missing \* an empty string, a nil date, no active source_ref

NoDuplicates(entries) ==
  \A i, j \in DOMAIN entries : entries[i].id = entries[j].id => i = j

\* Either a date or the admission that there is none, with what to consult.
DateDeclared(e) ==
  \/ e.status = Missing /\ e.date # Missing
  \/ e.status = "unconfirmed" /\ e.todo

\* The series that a scope covers, as the configuration declares them.
Covers(b, s) ==
  \/ b.kind = "series" /\ b.ref = s.slug
  \/ b.kind = "dataset" /\ b.ref = s.dataset
  \/ b.kind = "source" /\ b.ref = s.source

ScopeResolves(cfg, b) ==
  CASE b.refStatus = "pending" -> b.todo
    [] b.refStatus = Missing ->
         CASE b.kind = "source" -> b.ref \in cfg.sources
           [] b.kind \in {"dataset", "series"} -> \E s \in ToSet(cfg.series) : Covers(b, s)
           [] OTHER -> TRUE
    [] OTHER -> FALSE

ValidBreak(cfg, b) ==
  /\ b.id # Missing /\ b.kind # Missing /\ b.ref # Missing
  /\ DateDeclared(b)
  /\ ScopeResolves(cfg, b)

ValidEvent(e) == e.id # Missing /\ DateDeclared(e)

\* A series may leave its source out; one that names it needs the file.
ValidSeries(cfg, s) == s.refs # <<>> /\ (s.source # Missing => s.source \in cfg.sources)

Valid(cfg) ==
  /\ \A s \in ToSet(cfg.series) : ValidSeries(cfg, s)
  /\ \A b \in ToSet(cfg.breaks) : ValidBreak(cfg, b)
  /\ \A e \in ToSet(cfg.events) : ValidEvent(e)
  /\ NoDuplicates(cfg.breaks) /\ NoDuplicates(cfg.events)
=============================================================================
