--------------------------- MODULE MCSeriesIngest ---------------------------
(* A small instance of SeriesIngest for TLC: a quarterly series of the INE  *)
(* with and without a break, and the same series monthly, from Eurostat and *)
(* from a workbook.  Every body carries what the source says in it.         *)
EXTENDS SeriesIngest, TLC

P == INSTANCE Periods

Quarter(i) == P!Period("Q", 2025 + (i + 2) \div 4, ((i + 2) % 4) + 1)
Month(i) == P!Period("M", 2025, 3 + i)

\* The n-th following period is the one that n steps of the code's loops reach.
ASSUME AheadIsFollowing ==
  \A p \in {Quarter(i) : i \in 1..4} \cup {Month(i) : i \in 1..3} :
    /\ P!Ahead(p, 0) = p
    /\ \A n \in 0..MaxWalk : P!Ahead(p, n + 1) = P!Following(P!Ahead(p, n))
    /\ P!Preceding(P!Following(p)) = p

-----------------------------------------------------------------------------
(* INE *)

\* The i-th element lists a quarter, in the code of the series.
Element(code, i, value) ==
  [periodo |-> code, anyo |-> Quarter(i).year, ordinal |-> Quarter(i).ordinal,
   valor |-> value]

InMonth(i, value) ==
  [periodo |-> "Mnn", anyo |-> 2025, ordinal |-> 3 + i, valor |-> value]

SaysINE(data) ==
  LET PeriodOf(d) == P!Period(IF d.periodo = "Mnn" THEN "M" ELSE "Q", d.anyo, d.ordinal)
  IN  [p \in {PeriodOf(data[i]) : i \in DOMAIN data} |->
         data[CHOOSE i \in DOMAIN data :
                PeriodOf(data[i]) = p /\ \A j \in DOMAIN data :
                  PeriodOf(data[j]) = p => j <= i].valor]

INE(data) ==
  [parses |-> TRUE, status |-> FALSE, data |-> data, says |-> SaysINE(data)]

T(i, value) == Element("Tn", i, value)

INEBodies ==
  {INE(<<T(1, 0), T(2, 4)>>),
   INE(<<T(1, 0), T(2, 4), T(3, 8)>>),
   INE(<<T(1, 4), T(2, 8), T(3, 4)>>),
   INE(<<T(1, 0), T(2, 8)>>),
   INE(<<Element("d de mes de", 2, 4), Element("d de mes de", 3, 0)>>),
   INE(<<T(4, 4)>>),
   INE(<<T(1, 4)>>),
   INE(<<T(4, 8), T(3, NoValue), T(2, 4)>>),
   INE(<<T(2, 8), T(1, 4)>>),
   INE(<<T(1, 0), InMonth(2, 4)>>),
   INE(<<T(1, 0), Element("A", 2, 4)>>),
   INE(<<T(1, 0), [T(2, 4) EXCEPT !.ordinal = 5]>>),
   INE(<<T(1, 0), T(1, 9), T(2, 3)>>),
   INE(<<Element("A", 1, 4)>>),
   INE(<<>>),
   [INE(<<>>) EXCEPT !.status = TRUE]}

-----------------------------------------------------------------------------
(* Eurostat *)

\* Time and place in either order; a month that is not listed in values is
\* there without one.
Cube(id, months, values) ==
  LET Label(i) == [form |-> "yyyy-mm", year |-> 2025, ordinal |-> 3 + i]
      first == CHOOSE i \in months : \A j \in months : i <= j
  IN  [parses |-> TRUE, id |-> id,
       size |-> [k \in DOMAIN id |->
                   IF id[k] = "time" THEN Cardinality(months) ELSE 1],
       category |-> [dim \in {"time", "geo"} |->
          IF dim = "time"
          THEN [l \in {Label(i) : i \in months} |-> l.ordinal - 3 - first]
          ELSE [l \in {"ES"} |-> 0]],
       value |-> [pos \in {i - first : i \in DOMAIN values} |-> values[pos + first]],
       says |-> [p \in {Month(i) : i \in months} |->
                   IF p.ordinal - 3 \in DOMAIN values
                   THEN values[p.ordinal - 3] ELSE NoValue]]

Unpinned(cube) ==
  [cube EXCEPT !.category["geo"] = [l \in {"ES", "FR"} |-> IF l = "ES" THEN 0 ELSE 1]]

EurostatBodies ==
  {Cube(<<"geo", "time">>, {1, 2}, 1 :> 0 @@ 2 :> 4),
   Cube(<<"time", "geo">>, {1, 2, 3}, 1 :> 0 @@ 2 :> 4 @@ 3 :> 8),
   Cube(<<"geo", "time">>, {2, 3}, 3 :> 4),
   Cube(<<"geo", "time">>, {3}, 3 :> 4),
   Unpinned(Cube(<<"geo", "time">>, {1, 2}, 1 :> 0 @@ 2 :> 4))}

-----------------------------------------------------------------------------
(* Workbook *)

Layout ==
  [period |-> "A", total |-> "N", components |-> <<"B", "C">>,
   headerRow |-> 3, sheet |-> "Hoja1", tolerance |-> 0]

Row(i, b, c, n) ==
  [label |-> [form |-> "Mes yyyy", year |-> 2025, ordinal |-> 3 + i],
   cells |-> [col \in {"B", "C", "N"} |->
                IF col = "B" THEN b ELSE IF col = "C" THEN c ELSE n]]

End(form) == [Row(1, Blank, Blank, Blank) EXCEPT !.label.form = form]

Header(total) ==
  [col \in {"A", "B", "C", "N"} |->
     [words |-> IF col = "N" THEN total ELSE col, newline |-> col # "A"]]

\* says: the components added up, wherever the cells have moved.
Workbook(rows, values, total) ==
  [parses |-> TRUE, sheets |-> {"Hoja1"}, header |-> Header(total), rows |-> rows,
   says |-> [p \in {Month(i) : i \in DOMAIN values} |-> values[p.ordinal - 3]]]

XLSXBodies ==
  {Workbook(<<Row(1, Blank, 0, 0), Row(2, 1, 4, 4), End("footnote"), Row(3, 9, 9, 9)>>,
            1 :> 0 @@ 2 :> 4, "TOTAL"),
   Workbook(<<Row(1, 0, 0, 0), Row(2, 1, 3, 4), Row(3, 1, 3, 4)>>,
            1 :> 0 @@ 2 :> 4 @@ 3 :> 4, "TOTAL"),
   Workbook(<<Row(1, Blank, 1, 3)>>, 1 :> 4, "TOTAL"),
   Workbook(<<Row(1, 1, 3, 4)>>, 1 :> 4, "PARO"),
   Workbook(<<Row(1, 1, 3, Text)>>, 1 :> 4, "TOTAL"),
   Workbook(<<End("blank")>>, <<>>, "TOTAL")}

-----------------------------------------------------------------------------

MCBodies ==
  "ine-series-cod" :> INEBodies @@ "eurostat-dataset" :> EurostatBodies
    @@ "xlsx-url" :> XLSXBodies

Quarterly ==
  [kind |-> "ine-series-cod", frequency |-> "Q",
   source |-> "ine", unit |-> "%", licence |-> "CC BY 4.0",
   schema |-> [expected |-> {}, workbook |-> <<>>], layout |-> Layout,
   breaks |-> {}, gaps |-> {}, min |-> 0, max |-> NoValue, maxDelta |-> 5,
   maxBackward |-> 2]

\* A break in the second quarter of 2026, the default revision window, a gap.
WithBreak ==
  [Quarterly EXCEPT !.breaks = {[year |-> 2026, month |-> 4]}, !.maxBackward = 0,
                    !.gaps = {Quarter(3)}]

Monthly == [Quarterly EXCEPT !.kind = "eurostat-dataset", !.frequency = "M"]

FromWorkbook ==
  [Quarterly EXCEPT !.kind = "xlsx-url", !.frequency = "M",
     !.schema.workbook = [sheet |-> "Hoja1", headerRow |-> 3,
                          fingerprint |-> <<"A", "TOTAL", "B", "C">>,
                          anchors |-> <<"A", "N">>]]

Unlicensed == [FromWorkbook EXCEPT !.licence = "", !.max = 5]

MCSetups == {Quarterly, WithBreak, Monthly, FromWorkbook, Unlicensed}

\* The bodies above keep the form that the decoders rely on.
ASSUME FormAssumption == SourcesKeepTheirForm
=============================================================================
