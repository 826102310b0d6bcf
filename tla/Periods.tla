------------------------------- MODULE Periods -------------------------------
(***************************************************************************)
(* The arithmetic of reporting periods (indicators/period.go): a year and  *)
(* an ordinal within it, tied to a frequency that the comparisons ignore.  *)
(***************************************************************************)
EXTENDS Integers

Frequencies == {"Q", "M", "A"}

StepsPerYear(f) ==
  CASE f = "Q" -> 4 [] f = "M" -> 12 [] f = "A" -> 1 [] OTHER -> 0

Period(f, year, ordinal) == [freq |-> f, year |-> year, ordinal |-> ordinal]

Following(p) ==
  IF p.ordinal >= StepsPerYear(p.freq)
  THEN Period(p.freq, p.year + 1, 1)
  ELSE Period(p.freq, p.year, p.ordinal + 1)

\* Following, n times over.
Ahead(p, n) ==
  LET steps == p.ordinal - 1 + n
  IN  Period(p.freq, p.year + steps \div StepsPerYear(p.freq),
             (steps % StepsPerYear(p.freq)) + 1)

Preceding(p) ==
  IF p.ordinal <= 1
  THEN Period(p.freq, p.year - 1, StepsPerYear(p.freq))
  ELSE Period(p.freq, p.year, p.ordinal - 1)

Before(p, q) ==
  \/ p.year < q.year
  \/ p.year = q.year /\ p.ordinal < q.ordinal

Same(p, q) == p.year = q.year /\ p.ordinal = q.ordinal

\* What four digits say.
LastYear == 9999
Years == 0..LastYear

\* The label shapes the parser knows, and the frequency each of them means.
FrequencyOf ==
  [form \in {"yyyy-Qn", "yyyy-mm", "yyyy", "Tn yyyy", "Mmm yyyy"} |->
     CASE form \in {"yyyy-Qn", "Tn yyyy"} -> "Q"
       [] form \in {"yyyy-mm", "Mmm yyyy"} -> "M"
       [] form = "yyyy" -> "A"]

\* What the patterns of the labels match: four digits of a year, and an
\* ordinal that the year has.
Normalisable(label) ==
  /\ label.form \in DOMAIN FrequencyOf
  /\ label.year \in Years
  /\ label.ordinal \in 1..StepsPerYear(FrequencyOf[label.form])

NormalizePeriodLabel(label) ==
  Period(FrequencyOf[label.form], label.year, label.ordinal)

\* The period a calendar date falls in.
PeriodFromDate(date, f) ==
  Period(f, date.year,
         CASE f = "Q" -> (date.month - 1) \div 3 + 1
           [] f = "A" -> 1
           [] OTHER -> date.month)
=============================================================================
