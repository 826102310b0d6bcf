--------------------------- MODULE Reconciliation ---------------------------
(***************************************************************************)
(* The two reconciliations against one database: ReconcileDimensions at    *)
(* the start of every ingest, and ingest --reconcile for the editorial     *)
(* tables.  They meet in ResolveActiveBreaksForSeries, by which an ingest  *)
(* finds the breaks that apply to its series.                              *)
(*                                                                         *)
(* Calls may overlap and may come from binaries with different embedded    *)
(* configurations (a deployment while a command or the scheduler of the    *)
(* former container is still running).                                     *)
(***************************************************************************)
EXTENDS ConfigRules, FiniteSets

CONSTANTS
  Calls,
  Configs, \* configurations of the binaries that call
  Bases    \* valid ones the database may have been reconciled with before

VARIABLES
  pc, config, kind,
  table, todo, stale, dirty, rows,
  left, at, row, sources, datasets, series, mappings,
  overlapped \* history: per call, the configurations of those it overlapped

call == <<pc, config, kind>>
editorial == <<table, todo, stale, dirty, rows>>
dimensions == <<left, at, row, sources, datasets, series, mappings>>
vars == <<call, editorial, dimensions, overlapped>>

Ed == INSTANCE EditorialReconcile
Dim == INSTANCE DimensionReconcile

\* A configuration lists its breaks, events and series in file order, and a
\* series its source_refs, each valid from a date.
IsConfig(cfg) ==
  /\ \A t \in Ed!Tables : cfg[t] \in Seq(ToSet(cfg[t]))
  /\ cfg.series \in Seq(ToSet(cfg.series))
  /\ \A s \in ToSet(cfg.series) :
       /\ s.refs \in Seq(ToSet(s.refs))
       /\ \A r \in ToSet(s.refs) : r # Missing /\ r.from # Missing

ASSUME ConfigsAssumption ==
  /\ \A cfg \in Configs \cup Bases : IsConfig(cfg)
  /\ \A cfg \in Bases : Valid(cfg)

Kinds == {"editorial", "dimensions"}
Ended == {"done", "failed", "stopped"}
UnderWay(c) == pc[c] \notin {"idle"} \cup Ended

Slugs == UNION {{s.slug : s \in ToSet(cfg.series)} : cfg \in Configs \cup Bases}

\* The series of a configuration that name a source and a dataset.
Named(cfg) == {s \in ToSet(cfg.series) : s.source # Missing /\ s.dataset # Missing}
Mapped(cfg) == {s \in Named(cfg) : Dim!ActiveRef(s) # Missing}

\* The database as calls with this configuration have left it.
Base(cfg) ==
  /\ rows = [key \in {p[1] : p \in Ed!Projection(cfg)} |->
               [digest |-> (CHOOSE p \in Ed!Projection(cfg) : p[1] = key)[2], live |-> TRUE]]
  /\ sources = cfg.sources
  /\ datasets = [d \in {s.dataset : s \in Named(cfg)} |->
                   (CHOOSE s \in Named(cfg) : s.dataset = d).source]
  /\ series = [g \in {s.slug : s \in Named(cfg)} |->
                 (CHOOSE s \in Named(cfg) : s.slug = g).dataset]
  /\ mappings = [g \in Slugs |->
                   IF g \in {s.slug : s \in Mapped(cfg)}
                     THEN <<Dim!Mapping(Dim!ActiveRef(CHOOSE s \in Mapped(cfg) : s.slug = g))>>
                     ELSE <<>>]

Init ==
  /\ pc = [c \in Calls |-> "idle"]
  /\ config \in [Calls -> Configs]
  /\ kind \in [Calls -> Kinds]
  /\ Ed!EdInit /\ Dim!DimInit
  /\ \E cfg \in Bases : Base(cfg)
  /\ overlapped = [c \in Calls |-> {}]

\* The command, or the job of the scheduler, starts with its configuration.
Begin(c) ==
  /\ pc[c] = "idle"
  /\ pc' = [pc EXCEPT ![c] = IF kind[c] = "editorial" THEN "read" ELSE "sources"]
  /\ LET beside == {d \in Calls : UnderWay(d) /\ kind[d] = kind[c]} IN
       overlapped' = [d \in Calls |->
         IF d = c THEN {config[e] : e \in beside}
         ELSE overlapped[d] \cup (IF d \in beside THEN {config[c]} ELSE {})]
  /\ UNCHANGED <<config, kind, editorial, dimensions>>

Editorial(c) == Ed!EdStep(c) /\ UNCHANGED <<kind, dimensions, overlapped>>
Dimensions(c) == Dim!DimStep(c) /\ UNCHANGED <<kind, editorial, overlapped>>

Next == \E c \in Calls : Begin(c) \/ Editorial(c) \/ Dimensions(c)

Spec == Init /\ [][Next]_vars

-----------------------------------------------------------------------------
(* What an ingest reads *)

\* Mutant of ResolveActiveBreaks: retired breaks are not left out.
ResolveBreaks(slug) ==
  {key \in DOMAIN rows :
     /\ Ed!TableOf(key) = "breaks"
     /\ <<key[2], key[3]>> \in {<<"series", slug>>, <<"dataset", series[slug]>>,
                                <<"source", datasets[series[slug]]>>}}

\* The live breaks of the series, of its dataset and of its source.
ResolveActiveBreaks(slug) ==
  {key \in DOMAIN rows :
     /\ Ed!TableOf(key) = "breaks" /\ rows[key].live
     /\ <<key[2], key[3]>> \in {<<"series", slug>>, <<"dataset", series[slug]>>,
                                <<"source", datasets[series[slug]]>>}}

-----------------------------------------------------------------------------
(* Properties *)

TypeOK ==
  /\ pc \in [Calls -> {"idle"} \cup Ended \cup Ed!EdStages \cup Dim!DimStages]
  /\ config \in [Calls -> Configs] /\ kind \in [Calls -> Kinds]
  /\ table \in [Calls -> Ed!Tables]
  /\ \A key \in DOMAIN rows : rows[key].live \in BOOLEAN
  /\ \A c \in Calls : DOMAIN dirty[c] # {} => pc[c] \in Ed!EdStages
  /\ \A c \in Calls : left[c] \subseteq config[c].sources
  /\ \A c \in Calls : at[c] \in 1..(Len(config[c].series) + 1)
  /\ \A c \in Calls : row[c] = 0 \/ row[c] \in DOMAIN mappings[Dim!Mine(c).slug]
  /\ \A d \in DOMAIN datasets : datasets[d] \in sources
  /\ \A g \in DOMAIN series : series[g] \in DOMAIN datasets
  /\ \A g \in Slugs : mappings[g] # <<>> => g \in DOMAIN series

\* No two series files give the same slug, which nothing checks.
SlugsAreUnique(cfg) ==
  \A i, j \in DOMAIN cfg.series : cfg.series[i].slug = cfg.series[j].slug => i = j

\* An editorial reconcile that commits leaves exactly the dated entries of its
\* configuration live, and nothing for the same reconcile to do again, unless
\* one with another configuration overlapped it (spec editorial-config,
\* "Re-running the reconcile changes nothing", "Reverting the YAML restores
\* the prior projection").
ProjectsItsConfig ==
  [][\A c \in Calls :
       /\ pc[c] = "commit" /\ pc'[c] = "done"
       /\ overlapped[c] \subseteq {config[c]}
       => /\ Ed!Live(rows') = Ed!Projection(config[c])
          /\ \A t \in Ed!Tables : /\ DOMAIN Ed!Writes(config[c], t, rows') = {}
                                 /\ Ed!Stale(config[c], t, rows') = {}]_vars

\* ReconcileDimensions that ends well has every series of its configuration
\* mapped to the identifier in force, whatever calls of the same
\* configuration ran beside it and wherever earlier ones stopped, if no two
\* series of the configuration share a slug.
MapsItsConfig ==
  [][\A c \in Calls :
       /\ kind[c] = "dimensions" /\ pc[c] # "done" /\ pc'[c] = "done"
       /\ overlapped[c] \subseteq {config[c]} /\ SlugsAreUnique(config[c])
       => \A s \in ToSet(config[c].series) :
            Dim!ActiveRef(s) # Missing /\ s.source # Missing /\ s.dataset # Missing =>
              /\ mappings'[s.slug] # <<>>
              /\ LET m == Last(mappings'[s.slug])
                 IN  m.ref = Dim!ActiveRef(s).ref /\ m.to = Missing]_vars

\* The mappings of a series form a chain: each ends on the day the next one
\* begins, and the newest is open, whichever transactions close and open them
\* at once (spec data-model-vintages, "An identifier change adds a mapping
\* instead of replacing one").
MappingsChain ==
  \A g \in Slugs : \A i \in DOMAIN mappings[g] :
    mappings[g][i].to = IF i = Len(mappings[g]) THEN Missing ELSE mappings[g][i + 1].from

\* A reconciliation only fails (apart from lost connections) if its
\* configuration would not have passed validate-config or another one of its
\* kind overlapped it.
FailuresExplained ==
  [][\A c \in Calls :
       pc[c] # "failed" /\ pc'[c] = "failed" => ~Valid(config[c]) \/ overlapped[c] # {}]_vars

\* The same identifier opened twice in a row, which leaves an interval of no
\* length between the two (dimensions.go:125), takes two overlapping calls.
RepeatsTakeAnOverlap ==
  (\A c \in Calls : overlapped[c] = {}) =>
    \A g \in Slugs : \A i \in 2..Len(mappings[g]) :
      mappings[g][i].ref # mappings[g][i - 1].ref

\* Once both reconciliations of a valid configuration have ended well, the
\* breaks that an ingest finds for a series are the dated ones the
\* configuration declares for it, its dataset or its source, however many
\* calls of that configuration overlapped, failed or stopped.
OneSourcePerDataset(cfg) ==
  \A s, r \in ToSet(cfg.series) : s.dataset = r.dataset => s.source = r.source

DeclaredBreaks(cfg, s) ==
  {Ed!Key("breaks", cfg.breaks[i]) :
     i \in {j \in Ed!Desired(cfg, "breaks") : Covers(cfg.breaks[j], s)}}

BreaksReachTheirSeries ==
  \A cfg \in Configs :
    /\ Valid(cfg) /\ OneSourcePerDataset(cfg) /\ SlugsAreUnique(cfg)
    /\ \A c \in Calls : pc[c] = "idle" \/ config[c] = cfg
    /\ \A k \in Kinds : \E c \in Calls : kind[c] = k /\ pc[c] = "done"
    => \A s \in ToSet(cfg.series) :
         s.source # Missing /\ s.dataset # Missing =>
           ResolveActiveBreaks(s.slug) = DeclaredBreaks(cfg, s)
=============================================================================
