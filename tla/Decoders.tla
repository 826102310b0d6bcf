------------------------------ MODULE Decoders ------------------------------
(***************************************************************************)
(* What the three adapters make of the bytes of a response: observations   *)
(* in the order of the response, or the class of the failure.  The bytes   *)
(* themselves are abstract; a body is a record of what its parser finds.   *)
(***************************************************************************)
EXTENDS Periods, Sequences, FiniteSets

LOCAL Seqs == INSTANCE SequencesExt

CONSTANTS
  NoValue,  \* a period listed without a value
  Blank,    \* an empty cell
  Text      \* a cell that holds no number

\* What a payload exposes for rule 1; the JSON adapters report nothing.
NothingObserved == [fields |-> {}, workbook |-> <<>>]

Decoded(obs, observed) ==
  [class |-> "none", observations |-> obs, observed |-> observed]

Failed(class) ==
  [class |-> class, observations |-> <<>>, observed |-> NothingObserved]

Observation(p, v) == [period |-> p, value |-> v]

\* The first check that fails decides; checks are pairs <<failed, class>>.
FirstFailure(checks) ==
  LET failing == {i \in DOMAIN checks : checks[i][1]}
  IN  IF failing = {} THEN "none"
      ELSE checks[CHOOSE i \in failing : \A j \in failing : i <= j][2]

-----------------------------------------------------------------------------
(* INE: a status, or a list of years, period codes and values *)

DetectPeriodicity(periodo) ==
  CASE periodo \in {"Tn", "d de mes de"} -> "Q"
    [] periodo = "Mnn" -> "M"
    [] OTHER -> ""

\* The label the year and the code are joined into; no other code makes one.
INELabel(d) ==
  [form |-> CASE d.periodo \in {"Tn", "d de mes de"} -> "Tn yyyy"
              [] d.periodo = "Mnn" -> "Mmm yyyy"
              [] OTHER -> "",
   year |-> d.anyo, ordinal |-> d.ordinal]

DecodeINE(body, frequency) ==
  LET labels == [i \in DOMAIN body.data |-> INELabel(body.data[i])]
      failure == FirstFailure(<<
        <<~body.parses, "unclassified">>,
        <<body.status, "source-refusal">>,
        <<body.data = <<>>, "silent-empty">>,
        <<\E i \in DOMAIN labels :
            i = 1 /\ DetectPeriodicity(body.data[i].periodo) # frequency,
          "schema-drift">>,
        <<\E i \in DOMAIN labels : ~Normalisable(labels[i]), "unclassified">> >>)
  IN  IF failure # "none" THEN Failed(failure)
      ELSE Decoded([i \in DOMAIN labels |->
                      Observation(NormalizePeriodLabel(labels[i]),
                                  body.data[i].valor)],
                   NothingObserved)

-----------------------------------------------------------------------------
(* Eurostat: a JSON-stat cube, every dimension but time pinned *)

SizeOf(body, dim) ==
  LET places == {i \in DOMAIN body.id : body.id[i] = dim /\ i <= Len(body.size)}
  IN  IF places = {} THEN 0
      ELSE body.size[CHOOSE i \in places : \A j \in places : j <= i]

Categories(body, dim) ==
  IF dim \in DOMAIN body.category THEN body.category[dim] ELSE <<>>

PinningFailure(body, dim) ==
  FirstFailure(<<
    <<dim = "time", "none">>,
    <<dim \notin DOMAIN body.category, "unclassified">>,
    <<DOMAIN Categories(body, dim) = {}, "silent-empty">>,
    <<Cardinality(DOMAIN Categories(body, dim)) > 1, "schema-drift">> >>)

\* The labels in the order of their indices; of equal ones, in any.
InIndexOrder(times) ==
  CHOOSE s \in [1..Cardinality(DOMAIN times) -> DOMAIN times] :
    \A i, j \in DOMAIN s : i < j => s[i] # s[j] /\ times[s[i]] <= times[s[j]]

\* Row-major: pos = pos * size + index, dimension by dimension.
CubePosition(body, index) ==
  LET Selected(dim) ==
        IF dim = "time" THEN index
        ELSE CHOOSE i \in {Categories(body, dim)[c] :
                             c \in DOMAIN Categories(body, dim)} : TRUE
      Step(pos, dim) == pos * SizeOf(body, dim) + Selected(dim)
  IN  Seqs!FoldLeft(Step, 0, body.id)

DecodeEurostat(body, frequency) ==
  LET times == Categories(body, "time")
      slots == InIndexOrder(times)
      pinning == FirstFailure([i \in DOMAIN body.id |->
        <<PinningFailure(body, body.id[i]) # "none", PinningFailure(body, body.id[i])>>])
      failure == FirstFailure(<<
        <<~body.parses, "unclassified">>,
        <<slots = <<>>, "silent-empty">>,
        <<pinning # "none", pinning>>,
        <<\E i \in DOMAIN slots : ~Normalisable(slots[i]), "unclassified">>,
        <<\E i \in DOMAIN slots :
            i = 1 /\ FrequencyOf[slots[i].form] # frequency, "schema-drift">> >>)
      Value(slot) ==
        LET pos == CubePosition(body, times[slot])
        IN  IF pos \in DOMAIN body.value THEN body.value[pos] ELSE NoValue
  IN  IF failure # "none" THEN Failed(failure)
      ELSE Decoded([i \in DOMAIN slots |->
                      Observation(NormalizePeriodLabel(slots[i]), Value(slots[i]))],
                   NothingObserved)

-----------------------------------------------------------------------------
(* Workbook: rows of cells addressed by the letters the configuration names *)

\* The rows before the first blank label or footnote.
DataRows(body) ==
  LET ends == {i \in DOMAIN body.rows : body.rows[i].label.form \in {"blank", "footnote"}}
  IN  SubSeq(body.rows, 1,
             IF ends = {} THEN Len(body.rows)
             ELSE (CHOOSE i \in ends : \A j \in ends : i <= j) - 1)

ComponentSum(row, columns) ==
  LET Add(sum, col) ==
        IF row.cells[col] = Blank THEN sum ELSE sum + row.cells[col]
  IN  Seqs!FoldLeft(Add, 0, columns)

Tolerance(layout) == IF layout.tolerance <= 0 THEN 1 ELSE layout.tolerance

\* Mutant of AddsUp: the cross-check is left out.
NothingToAddUp(row, layout) == TRUE

\* The row's total is the sum of its components: the columns have not moved.
AddsUp(row, layout) ==
  LET diff == row.cells[layout.total] - ComponentSum(row, layout.components)
  IN  diff <= Tolerance(layout) /\ -diff <= Tolerance(layout)

\* The name of a month and four digits.
MonthOfYear(label) ==
  /\ label.form = "Mes yyyy"
  /\ label.year \in Years
  /\ label.ordinal \in 1..StepsPerYear("M")

ReadableRow(row, layout) ==
  /\ MonthOfYear(row.label)
  /\ row.cells[layout.total] \notin {Blank, Text}
  /\ \A i \in DOMAIN layout.components : row.cells[layout.components[i]] # Text
  /\ AddsUp(row, layout)

\* The header cells the adapter reads, without the whitespace around them.
Fingerprint(body, layout) ==
  [i \in 1..(2 + Len(layout.components)) |->
     body.header[(<<layout.period, layout.total>> \o layout.components)[i]].words]

DecodeXLSX(body, layout, frequency) ==
  LET rows == DataRows(body)
      failure == FirstFailure(<<
        <<layout.period = "" \/ layout.total = "" \/ layout.components = <<>>
            \/ layout.headerRow <= 0, "unclassified">>,
        <<~body.parses \/ layout.sheet \notin body.sheets, "schema-drift">>,
        <<\E i \in DOMAIN rows : ~ReadableRow(rows[i], layout), "schema-drift">>,
        <<rows = <<>>, "silent-empty">>,
        <<frequency # "M", "schema-drift">> >>)
  IN  IF failure # "none" THEN Failed(failure)
      ELSE Decoded([i \in DOMAIN rows |->
                      Observation(Period("M", rows[i].label.year, rows[i].label.ordinal),
                                  rows[i].cells[layout.total])],
                   [fields |-> {},
                    workbook |-> [sheet |-> layout.sheet,
                                  headerRow |-> layout.headerRow,
                                  fingerprint |-> Fingerprint(body, layout),
                                  anchors |-> <<layout.period, layout.total>>]])
=============================================================================
