------------------------- MODULE SeriesIngestProofs -------------------------
(***************************************************************************)
(* What holds of the ingests of a series for all configurations and all    *)
(* bodies: the types, what the log says of a fetch, and what the rules     *)
(* leave unexamined.  A decoder lets only periods through whose ordinal    *)
(* their year has, and those of a published vintage are of them; of such   *)
(* periods the walks of the rules are the calendar's, and what rules 2 and *)
(* 3 found nothing in is kept by every later run.                          *)
(***************************************************************************)
EXTENDS SeriesIngest, SequenceTheorems, FiniteSetTheorems, TLAPS

-----------------------------------------------------------------------------
(* Sets of numbers, lists and orders *)

\* A family of subsets of a finite set has a smallest one.
LEMMA SmallestSegment ==
  ASSUME NEW T, IsFiniteSet(T), NEW F, F \subseteq SUBSET T, F # {}
  PROVE  \E A \in F : \A B \in F : <<B, A>> \notin StrictSubsetOrdering(T)
<1>1. F \subseteq FiniteSubsetsOf(T)
  BY FS_FiniteSubsetsOfFinite
<1>2. IsWellFoundedOn(StrictSubsetOrdering(T), FiniteSubsetsOf(T))
  BY FS_StrictSubsetOrderingWellFounded
<1>3. QED
  BY <1>1, <1>2, WFMin

\* A finite set of numbers has a least one.
LEMMA FiniteHasLeast ==
  ASSUME NEW T \in SUBSET Int, IsFiniteSet(T), T # {}
  PROVE  \E v \in T : \A w \in T : v <= w
<1> DEFINE Upto(v) == {w \in T : w <= v}
           F == {Upto(v) : v \in T}
<1>1. F \subseteq SUBSET T /\ F # {}
  OBVIOUS
<1>2. PICK A \in F : \A B \in F : <<B, A>> \notin StrictSubsetOrdering(T)
  <2> HIDE DEF F
  <2>1. QED
    BY <1>1, SmallestSegment
<1>3. PICK v \in T : A = Upto(v)
  OBVIOUS
<1>4. ASSUME NEW w \in T, ~(v <= w) PROVE FALSE
  <2>0. v \in Int /\ w \in Int
    BY <1>3, <1>4
  <2>1. v \in Int /\ w \in Int /\ w < v
    BY <1>4, <2>0
  <2>2. v \in Upto(v) /\ v \notin Upto(w)
    BY <1>3, <2>1
  <2>3. ASSUME NEW x \in Upto(w) PROVE x \in Upto(v)
    <3>1. x \in T /\ x \in Int /\ x <= w
      BY <2>3
    <3>2. x <= v
      BY <2>1, <3>1
    <3>3. QED
      BY <3>1, <3>2
  <2>4. Upto(w) \in F /\ <<Upto(w), A>> \in StrictSubsetOrdering(T)
    BY <1>3, <1>4, <2>2, <2>3 DEF StrictSubsetOrdering
  <2>5. QED
    BY <1>2, <2>4
<1>5. QED
  BY <1>4

\* ... and a greatest.
LEMMA FiniteHasGreatest ==
  ASSUME NEW T \in SUBSET Int, IsFiniteSet(T), T # {}
  PROVE  \E v \in T : \A w \in T : v >= w
<1> DEFINE From(v) == {w \in T : w >= v}
           F == {From(v) : v \in T}
<1>1. F \subseteq SUBSET T /\ F # {}
  OBVIOUS
<1>2. PICK A \in F : \A B \in F : <<B, A>> \notin StrictSubsetOrdering(T)
  <2> HIDE DEF F
  <2>1. QED
    BY <1>1, SmallestSegment
<1>3. PICK v \in T : A = From(v)
  OBVIOUS
<1>4. ASSUME NEW w \in T, ~(v >= w) PROVE FALSE
  <2>0. v \in Int /\ w \in Int
    BY <1>3, <1>4
  <2>1. v \in Int /\ w \in Int /\ w > v
    BY <1>4, <2>0
  <2>2. v \in From(v) /\ v \notin From(w)
    BY <1>3, <2>1
  <2>3. ASSUME NEW x \in From(w) PROVE x \in From(v)
    <3>1. x \in T /\ x \in Int /\ x >= w
      BY <2>3
    <3>2. x >= v
      BY <2>1, <3>1
    <3>3. QED
      BY <3>1, <3>2
  <2>4. From(w) \in F /\ <<From(w), A>> \in StrictSubsetOrdering(T)
    BY <1>3, <1>4, <2>2, <2>3 DEF StrictSubsetOrdering
  <2>5. QED
    BY <1>2, <2>4
<1>5. QED
  BY <1>4

\* Positions of a list are finitely many.
LEMMA PositionsAreFinite ==
  ASSUME NEW n \in Nat, NEW T, T \subseteq 1..n
  PROVE  T \in SUBSET Int /\ IsFiniteSet(T)
<1>1. IsFiniteSet(1..n)
  BY FS_Interval
<1>2. T \in SUBSET Int /\ T \in SUBSET (1..n)
  OBVIOUS
<1>3. QED
  BY <1>1, <1>2, FS_Subset

\* The least and the greatest of some positions of a list are among them and
\* bound them.
LEMMA LeastOf ==
  ASSUME NEW n \in Nat, NEW T, T \subseteq 1..n, T # {}
  PROVE  R!Least(T) \in T /\ \A i \in T : R!Least(T) <= i
<1>1. \E v \in T : \A w \in T : v <= w
  BY PositionsAreFinite, FiniteHasLeast
<1>2. QED
  BY <1>1 DEF R!Least

\* A set of places of a list has a greatest one.
LEMMA GreatestOf ==
  ASSUME NEW n \in Nat, NEW T, T \subseteq 1..n, T # {}
  PROVE  R!Greatest(T) \in T /\ \A i \in T : R!Greatest(T) >= i
<1>1. \E v \in T : \A w \in T : v >= w
  BY PositionsAreFinite, FiniteHasGreatest
<1>2. QED
  BY <1>1 DEF R!Greatest

\* Positions under a strict order, which need not be that of the list, can be
\* gone through in that order.
LEMMA InOrder ==
  ASSUME NEW n \in Nat, NEW lt,
         \A i \in 1..n : <<i, i>> \notin lt,
         \A i, j, k \in 1..n : <<i, j>> \in lt /\ <<j, k>> \in lt => <<i, k>> \in lt,
         \A i, j \in 1..n : i = j \/ <<i, j>> \in lt \/ <<j, i>> \in lt
  PROVE  \E s \in [1..n -> 1..n] : \A a, b \in 1..n : a < b => <<s[a], s[b]>> \in lt
<1> DEFINE S == 1..n
           Below(i) == {j \in S : <<j, i>> \in lt}
           rank == [i \in S |-> Cardinality(Below(i))]
<1>1. IsFiniteSet(S) /\ Cardinality(S) = n
  BY FS_Interval
<1>2. \A i \in S : IsFiniteSet(Below(i)) /\ Cardinality(Below(i)) \in Nat
  <2> TAKE i \in S
  <2>1. Below(i) \in SUBSET S
    OBVIOUS
  <2>2. QED
    BY <1>1, <2>1, FS_Subset, FS_CardinalityType
<1>3. \A i \in S : Cardinality(Below(i)) < n
  <2> TAKE i \in S
  <2>1. Below(i) \in SUBSET S /\ i \notin Below(i)
    OBVIOUS
  <2>2. Below(i) # S
    BY <2>1
  <2> HIDE DEF Below, S
  <2>3. Cardinality(Below(i)) <= Cardinality(S) /\ Cardinality(Below(i)) # Cardinality(S)
    BY <1>1, <2>1, <2>2, FS_Subset
  <2>4. QED
    BY <1>1, <1>2, <2>3
<1>4. \A i, j \in S : <<i, j>> \in lt => rank[i] < rank[j]
  <2> SUFFICES ASSUME NEW i \in S, NEW j \in S, <<i, j>> \in lt
               PROVE  rank[i] < rank[j]
    OBVIOUS
  <2>1. Below(i) \in SUBSET Below(j) /\ i \in Below(j) /\ i \notin Below(i)
    OBVIOUS
  <2>2. rank[i] = Cardinality(Below(i)) /\ rank[j] = Cardinality(Below(j))
    OBVIOUS
  <2> HIDE DEF Below, S, rank
  <2>3. Below(i) # Below(j)
    BY <2>1
  <2>4. Cardinality(Below(i)) <= Cardinality(Below(j))
          /\ Cardinality(Below(i)) # Cardinality(Below(j))
    BY <1>2, <2>1, <2>3, FS_Subset
  <2>5. QED
    BY <1>2, <2>2, <2>4
<1>5. rank \in [S -> 0..(n - 1)]
  <2>1. \A i \in S : Cardinality(Below(i)) \in 0..(n - 1)
    <3> TAKE i \in S
    <3>1. Cardinality(Below(i)) \in Nat /\ Cardinality(Below(i)) < n
      BY <1>2, <1>3
    <3>2. QED
      BY <3>1
  <2> HIDE DEF Below, S
  <2>2. QED
    BY <2>1
<1>6. \A i, j \in S : rank[i] = rank[j] => i = j
  <2> SUFFICES ASSUME NEW i \in S, NEW j \in S, rank[i] = rank[j], i # j
               PROVE  FALSE
    OBVIOUS
  <2>1. rank[i] < rank[j] \/ rank[j] < rank[i]
    BY <1>4
  <2>2. rank[i] \in Int /\ rank[j] \in Int
    BY <1>5
  <2>3. QED
    BY <2>1, <2>2
<1>7. rank \in Surjection(S, 0..(n - 1))
  <2>1. rank \in Injection(S, 0..(n - 1))
    BY <1>5, <1>6 DEF Injection, IsInjective
  <2>2. 0 \in Int /\ n - 1 \in Int
    OBVIOUS
  <2>3. IsFiniteSet(0..(n - 1)) /\ Cardinality(0..(n - 1)) = n
    BY <2>2, FS_Interval
  <2> HIDE DEF rank, S
  <2>4. QED
    BY <1>1, <2>1, <2>3, FS_Injection
<1>8. \A a \in S : \E i \in S : rank[i] = a - 1
  <2> TAKE a \in S
  <2>1. a - 1 \in 0..(n - 1)
    OBVIOUS
  <2> HIDE DEF rank, S
  <2>2. QED
    BY <1>7, <2>1 DEF Surjection
<1> DEFINE s == [a \in S |-> CHOOSE i \in S : rank[i] = a - 1]
<1>9. \A a \in S : s[a] \in S /\ rank[s[a]] = a - 1
  <2> HIDE DEF rank
  <2>1. QED
    BY <1>8
<1>10. \A a, b \in S : a < b => <<s[a], s[b]>> \in lt
  <2> SUFFICES ASSUME NEW a \in S, NEW b \in S, a < b, <<s[a], s[b]>> \notin lt
               PROVE  FALSE
    OBVIOUS
  <2> HIDE DEF s, rank
  <2>1. s[a] \in 1..n /\ s[b] \in 1..n /\ rank[s[a]] = a - 1 /\ rank[s[b]] = b - 1
    BY <1>9
  <2>2. s[a] = s[b] \/ <<s[b], s[a]>> \in lt
    BY <2>1
  <2>3. rank[s[a]] = rank[s[b]] \/ rank[s[b]] < rank[s[a]]
    BY <1>4, <2>1, <2>2
  <2>4. QED
    BY <2>1, <2>3
<1>11. s \in [1..n -> 1..n]
  BY <1>9
<1>12. QED
  BY <1>10, <1>11

-----------------------------------------------------------------------------
(* Periods *)

\* The periods a label can denote.
ValidPeriods ==
  {p \in [freq : R!Frequencies, year : R!Years, ordinal : 1..12] :
     p.ordinal <= R!StepsPerYear(p.freq)}

\* The years of labels are numbers up to a last one.
LEMMA YearsAreNumbers ==
  R!LastYear \in Int /\ \A y \in R!Years : y \in Int /\ 0 <= y /\ y <= R!LastYear
<1>1. R!LastYear \in Int
  BY DEF R!LastYear
<1>2. QED
  BY <1>1 DEF R!Years

\* How many periods a year has.
LEMMA StepsOf ==
  R!StepsPerYear("Q") = 4 /\ R!StepsPerYear("M") = 12 /\ R!StepsPerYear("A") = 1
BY DEF R!StepsPerYear

\* A valid period has an ordinal of its year.
LEMMA ValidSteps ==
  ASSUME NEW p \in ValidPeriods
  PROVE  /\ R!StepsPerYear(p.freq) \in {1, 4, 12}
         /\ p.year \in Int /\ p.ordinal \in 1..R!StepsPerYear(p.freq)
<1>1. /\ p.freq \in {"Q", "M", "A"} /\ p.year \in R!Years
      /\ p.ordinal \in 1..12 /\ p.ordinal <= R!StepsPerYear(p.freq)
  BY DEF ValidPeriods, R!Frequencies
<1>2. R!StepsPerYear(p.freq) \in {1, 4, 12}
  BY <1>1, StepsOf
<1>3. p.year \in Int /\ p.ordinal \in Int /\ p.ordinal >= 1
  BY <1>1, YearsAreNumbers
<1>4. R!StepsPerYear(p.freq) \in Int
  BY <1>2
<1>5. p.ordinal \in 1..R!StepsPerYear(p.freq)
  BY <1>1, <1>3, <1>4
<1>6. QED
  BY <1>2, <1>3, <1>5

\* Valid periods of one frequency and one place in the calendar are the same.
LEMMA SameIsEqual ==
  ASSUME NEW p \in ValidPeriods, NEW q \in ValidPeriods,
         R!Same(p, q), p.freq = q.freq
  PROVE  p = q
BY DEF ValidPeriods, R!Same

\* The period before the following one is the period itself (period.go:98).
LEMMA PrecedingFollowing ==
  ASSUME NEW p \in ValidPeriods
  PROVE  R!Same(R!Preceding(R!Following(p)), p)
<1> DEFINE n == R!StepsPerYear(p.freq)
<1>1. n \in {1, 4, 12} /\ p.year \in Int /\ p.ordinal \in 1..n
  BY ValidSteps
<1>2. CASE p.ordinal >= n
  <2>1. R!Following(p) = [freq |-> p.freq, year |-> p.year + 1, ordinal |-> 1]
    BY <1>2 DEF R!Following, R!Period
  <2>2. R!Preceding(R!Following(p))
          = [freq |-> p.freq, year |-> p.year + 1 - 1, ordinal |-> n]
    <3> DEFINE q == R!Following(p)
    <3>1. q.freq = p.freq /\ q.year = p.year + 1 /\ q.ordinal = 1
      BY <2>1
    <3> HIDE DEF q
    <3>2. q.ordinal <= 1
      BY <3>1
    <3>3. R!Preceding(q) = [freq |-> q.freq, year |-> q.year - 1,
                            ordinal |-> R!StepsPerYear(q.freq)]
      BY <3>2 DEF R!Preceding, R!Period
    <3>4. R!Preceding(q) = [freq |-> p.freq, year |-> p.year + 1 - 1, ordinal |-> n]
      BY <1>1, <3>1, <3>3
    <3>5. QED
      BY <3>4 DEF q
  <2>3. QED
    BY <1>1, <1>2, <2>2 DEF R!Same
<1>3. CASE ~(p.ordinal >= n)
  <2>1. R!Following(p)
          = [freq |-> p.freq, year |-> p.year, ordinal |-> p.ordinal + 1]
    BY <1>3 DEF R!Following, R!Period
  <2>2. R!Preceding(R!Following(p))
          = [freq |-> p.freq, year |-> p.year, ordinal |-> p.ordinal + 1 - 1]
    BY <1>1, <2>1 DEF R!Preceding, R!Period
  <2>3. QED
    BY <1>1, <1>3, <2>2 DEF R!Same
<1>4. QED
  BY <1>2, <1>3

\* A walk that starts at the following period is the same walk a step later.
LEMMA AheadFollowing ==
  ASSUME NEW p \in ValidPeriods, NEW k \in Nat
  PROVE  R!Ahead(R!Following(p), k) = R!Ahead(p, k + 1)
<1> DEFINE n == R!StepsPerYear(p.freq)
           o == p.ordinal
           y == p.year
<1>1. n \in {1, 4, 12} /\ y \in Int /\ o \in 1..n
  BY ValidSteps
<1>2. R!Ahead(p, k + 1)
        = [freq |-> p.freq, year |-> y + ((o - 1 + (k + 1)) \div n),
           ordinal |-> ((o - 1 + (k + 1)) % n) + 1]
  BY DEF R!Ahead, R!Period
<1>3. CASE o >= n
  <2>1. R!Following(p) = [freq |-> p.freq, year |-> y + 1, ordinal |-> 1]
    BY <1>3 DEF R!Following, R!Period
  <2>2. R!Ahead(R!Following(p), k)
          = [freq |-> p.freq, year |-> (y + 1) + ((1 - 1 + k) \div n),
             ordinal |-> ((1 - 1 + k) % n) + 1]
    BY <2>1 DEF R!Ahead, R!Period
  <2>3. o = n
    BY <1>1, <1>3
  <2> HIDE DEF y, o, n
  <2>4. /\ ((n - 1 + (k + 1)) \div n) = 1 + ((1 - 1 + k) \div n)
        /\ ((n - 1 + (k + 1)) % n) = ((1 - 1 + k) % n)
    <3>1. CASE n = 1
      BY <3>1
    <3>2. CASE n = 4
      BY <3>2
    <3>3. CASE n = 12
      BY <3>3
    <3>4. QED
      BY <1>1, <3>1, <3>2, <3>3
  <2>5. (1 - 1 + k) \div n \in Int
    BY <1>1
  <2>6. y + ((o - 1 + (k + 1)) \div n) = (y + 1) + ((1 - 1 + k) \div n)
    BY <1>1, <2>3, <2>4, <2>5
  <2>7. QED
    BY <1>2, <2>2, <2>3, <2>4, <2>6
<1>4. CASE ~(o >= n)
  <2>1. R!Following(p) = [freq |-> p.freq, year |-> y, ordinal |-> o + 1]
    BY <1>4 DEF R!Following, R!Period
  <2>2. /\ R!Following(p).freq = p.freq /\ R!Following(p).year = y
        /\ R!Following(p).ordinal = o + 1
    BY <2>1
  <2>3. R!Ahead(R!Following(p), k)
          = [freq |-> p.freq, year |-> y + ((o + 1 - 1 + k) \div n),
             ordinal |-> ((o + 1 - 1 + k) % n) + 1]
    <3> DEFINE q == R!Following(p)
    <3>1. R!Ahead(q, k)
            = [freq |-> q.freq,
               year |-> q.year + ((q.ordinal - 1 + k) \div R!StepsPerYear(q.freq)),
               ordinal |-> ((q.ordinal - 1 + k) % R!StepsPerYear(q.freq)) + 1]
      BY DEF R!Ahead, R!Period
    <3>2. q.freq = p.freq /\ q.year = y /\ q.ordinal = o + 1
      BY <2>2
    <3> HIDE DEF q
    <3>3. R!Ahead(q, k)
            = [freq |-> p.freq, year |-> y + ((o + 1 - 1 + k) \div n),
               ordinal |-> ((o + 1 - 1 + k) % n) + 1]
      BY <1>1, <3>1, <3>2
    <3>4. QED
      BY <3>3 DEF q
  <2>4. o + 1 - 1 + k = o - 1 + (k + 1)
    BY <1>1
  <2>5. QED
    BY <1>2, <2>3, <2>4
<1>5. QED
  BY <1>3, <1>4

\* A walk starts where it starts, and stays on one frequency.
LEMMA AheadOfItself ==
  ASSUME NEW p \in ValidPeriods
  PROVE  R!Ahead(p, 0) = p
<1> DEFINE n == R!StepsPerYear(p.freq)
<1>1. n \in {1, 4, 12} /\ p.year \in Int /\ p.ordinal \in 1..n
  BY ValidSteps
<1>2. R!Ahead(p, 0)
        = [freq |-> p.freq, year |-> p.year + ((p.ordinal - 1 + 0) \div n),
           ordinal |-> ((p.ordinal - 1 + 0) % n) + 1]
  BY DEF R!Ahead, R!Period
<1>3. p = [freq |-> p.freq, year |-> p.year, ordinal |-> p.ordinal]
  BY DEF ValidPeriods
<1> HIDE DEF n
<1>4. (p.ordinal - 1 + 0) \div n = 0 /\ (p.ordinal - 1 + 0) % n = p.ordinal - 1
  <2>1. CASE n = 1
    BY <1>1, <2>1
  <2>2. CASE n = 4
    BY <1>1, <2>2
  <2>3. CASE n = 12
    BY <1>1, <2>3
  <2>4. QED
    BY <1>1, <2>1, <2>2, <2>3
<1>5. QED
  BY <1>1, <1>2, <1>3, <1>4

\* The places of periods in the calendar can be counted.
LEMMA Calendar ==
  ASSUME NEW p \in ValidPeriods, NEW q \in ValidPeriods
  PROVE  R!Before(p, q) <=> 13 * p.year + p.ordinal < 13 * q.year + q.ordinal
<1>1. /\ p.year \in Int /\ p.ordinal \in 1..12
      /\ q.year \in Int /\ q.ordinal \in 1..12
  <2>1. \A r \in ValidPeriods : r.year \in R!Years /\ r.ordinal \in 1..12
    BY DEF ValidPeriods
  <2>2. QED
    BY <2>1, YearsAreNumbers
<1>2. QED
  BY <1>1 DEF R!Before

-----------------------------------------------------------------------------
(* What the decoders return *)

\* The decoders count as everyone does.
LEMMA DCardinality == ASSUME NEW S PROVE D!Cardinality(S) = Cardinality(S)
BY DEF D!Cardinality, Cardinality

\* If no check of a list failed, then each of them passed.
LEMMA NoFailure ==
  ASSUME NEW n \in Nat, NEW checks, DOMAIN checks = 1..n,
         \A i \in 1..n : checks[i][1] => checks[i][2] # "none",
         D!FirstFailure(checks) = "none"
  PROVE  \A i \in 1..n : ~checks[i][1]
<1> DEFINE failing == {i \in 1..n : checks[i][1]}
<1> SUFFICES ASSUME failing # {} PROVE FALSE
  OBVIOUS
<1>1. failing = {i \in DOMAIN checks : checks[i][1]}
  OBVIOUS
<1>2. PICK i \in failing : \A j \in failing : i <= j
  <2> HIDE DEF failing
  <2>1. failing \subseteq 1..n
    BY DEF failing
  <2>2. QED
    BY <2>1, PositionsAreFinite, FiniteHasLeast
<1> DEFINE first == CHOOSE k \in failing : \A j \in failing : k <= j
<1>3. first \in failing
  <2> HIDE DEF failing
  <2>1. QED
    BY <1>2
<1>4. D!FirstFailure(checks) = checks[first][2]
  BY <1>1 DEF D!FirstFailure
<1>5. checks[first][2] # "none"
  <2> HIDE DEF first
  <2>1. QED
    BY <1>3
<1>6. QED
  BY <1>4, <1>5

\* A list of observations of valid periods, the first of frequency f.
Legible(obs, f) ==
  /\ IsList(obs) /\ Len(obs) # 0
  /\ \A i \in DOMAIN obs : obs[i].period \in ValidPeriods
  /\ obs[1].period.freq = f

\* A decoding that fails has no observations, one that succeeds legible ones.
Readable(d, f) ==
  IF d.class = "none" THEN Legible(d.observations, f) ELSE d.observations = <<>>

\* A failed decoding has no observations.
LEMMA FailedIsReadable ==
  ASSUME NEW class, class # "none", NEW f
  PROVE  Readable(D!Failed(class), f)
BY DEF Readable, D!Failed

\* A list of valid periods that starts with one of frequency f is legible.
LEMMA DecodedIsReadable ==
  ASSUME NEW n \in Nat \ {0}, NEW X, NEW obs \in [1..n -> X], NEW observed, NEW f,
         \A i \in 1..n : obs[i].period \in ValidPeriods,
         obs[1].period.freq = f
  PROVE  Readable(D!Decoded(obs, observed), f)
<1>1. Seq(X) = UNION {[1..m -> X] : m \in Nat}
  BY SeqDef
<1>2. obs \in Seq(X)
  BY <1>1
<1>3. DOMAIN obs = 1..n /\ DOMAIN obs = 1..Len(obs) /\ Len(obs) = n
  BY <1>2
<1>4. IsList(obs)
  <2> DEFINE Y == {obs[i] : i \in DOMAIN obs}
  <2>1. obs \in [1..n -> Y]
    BY <1>3
  <2> HIDE DEF Y
  <2>2. Seq(Y) = UNION {[1..m -> Y] : m \in Nat}
    BY SeqDef
  <2>3. obs \in Seq(Y)
    BY <2>1, <2>2
  <2>4. QED
    BY <2>3 DEF Y, IsList
<1>5. Legible(obs, f)
  BY <1>3, <1>4 DEF Legible
<1>6. /\ D!Decoded(obs, observed).class = "none"
      /\ D!Decoded(obs, observed).observations = obs
  BY DEF D!Decoded
<1>7. QED
  BY <1>5, <1>6 DEF Readable

\* The parser makes of a label it knows a valid period of the frequency the
\* label's shape means (period.go:164).
LEMMA NormalisedIsValid ==
  ASSUME NEW label, D!Normalisable(label)
  PROVE  /\ D!NormalizePeriodLabel(label) \in ValidPeriods
         /\ D!NormalizePeriodLabel(label).freq = D!FrequencyOf[label.form]
<1> DEFINE f == D!FrequencyOf[label.form]
<1>1. /\ label.form \in {"yyyy-Qn", "yyyy-mm", "yyyy", "Tn yyyy", "Mmm yyyy"}
      /\ label.year \in D!Years /\ label.ordinal \in 1..D!StepsPerYear(f)
  BY DEF D!Normalisable, D!FrequencyOf
<1>2. f \in {"Q", "M", "A"}
  BY <1>1 DEF D!FrequencyOf
<1>3. D!NormalizePeriodLabel(label)
        = [freq |-> f, year |-> label.year, ordinal |-> label.ordinal]
  BY DEF D!NormalizePeriodLabel, D!Period
<1>4. D!StepsPerYear(f) = R!StepsPerYear(f) /\ D!Years = R!Years
  BY DEF D!StepsPerYear, R!StepsPerYear, D!Years, R!Years, D!LastYear, R!LastYear
<1>5. R!StepsPerYear(f) \in {1, 4, 12}
  BY <1>2, StepsOf
<1> HIDE DEF f
<1>6. label.ordinal \in 1..R!StepsPerYear(f)
  BY <1>1, <1>4
<1>7. label.ordinal \in 1..12 /\ label.ordinal <= R!StepsPerYear(f)
  <2>1. CASE R!StepsPerYear(f) = 1
    BY <1>6, <2>1
  <2>2. CASE R!StepsPerYear(f) = 4
    BY <1>6, <2>2
  <2>3. CASE R!StepsPerYear(f) = 12
    BY <1>6, <2>3
  <2>4. QED
    BY <1>5, <2>1, <2>2, <2>3
<1> DEFINE p == D!NormalizePeriodLabel(label)
<1>8. /\ p = [freq |-> f, year |-> label.year, ordinal |-> label.ordinal]
      /\ p.freq = f /\ p.year = label.year /\ p.ordinal = label.ordinal
  BY <1>3
<1> HIDE DEF p
<1>9. p \in [freq : R!Frequencies, year : R!Years, ordinal : 1..12]
  BY <1>1, <1>2, <1>4, <1>7, <1>8 DEF R!Frequencies
<1>10. p \in ValidPeriods
  BY <1>7, <1>8, <1>9 DEF ValidPeriods
<1>11. QED
  BY <1>8, <1>10 DEF p, f

\* The label the INE client makes of a year and a code is of the periodicity it
\* detects in the code (period.go:21, periodicity.go:56).
LEMMA INEForm ==
  ASSUME NEW d, D!INELabel(d).form \in DOMAIN D!FrequencyOf
  PROVE  D!FrequencyOf[D!INELabel(d).form] = D!DetectPeriodicity(d.periodo)
<1>1. CASE d.periodo \in {"Tn", "d de mes de"}
  <2>1. D!INELabel(d).form = "Tn yyyy"
    BY <1>1 DEF D!INELabel
  <2>2. QED
    BY <1>1, <2>1 DEF D!FrequencyOf, D!DetectPeriodicity
<1>2. CASE d.periodo = "Mnn"
  <2>1. D!INELabel(d).form = "Mmm yyyy"
    BY <1>2 DEF D!INELabel
  <2>2. QED
    BY <1>2, <2>1 DEF D!FrequencyOf, D!DetectPeriodicity
<1>3. CASE d.periodo \notin {"Tn", "d de mes de", "Mnn"}
  <2>1. D!INELabel(d).form = ""
    BY <1>3 DEF D!INELabel
  <2>2. QED
    BY <2>1 DEF D!FrequencyOf
<1>4. QED
  BY <1>1, <1>2, <1>3

\* A decoded INE series is legible (envelope.go:29).
LEMMA INEIsReadable ==
  ASSUME NEW b, IsList(b.data), NEW f
  PROVE  Readable(D!DecodeINE(b, f), f)
<1> DEFINE n == Len(b.data)
           labels == [i \in DOMAIN b.data |-> D!INELabel(b.data[i])]
           checks == <<
        <<~b.parses, "unclassified">>,
        <<b.status, "source-refusal">>,
        <<b.data = <<>>, "silent-empty">>,
        <<\E i \in DOMAIN labels :
            i = 1 /\ D!DetectPeriodicity(b.data[i].periodo) # f,
          "schema-drift">>,
        <<\E i \in DOMAIN labels : ~D!Normalisable(labels[i]), "unclassified">> >>
           failure == D!FirstFailure(checks)
<1>1. n \in Nat /\ DOMAIN b.data = 1..n /\ (n = 0 => b.data = <<>>)
  BY EmptySeq DEF IsList
<1>2. CASE failure # "none"
  <2>1. D!DecodeINE(b, f) = D!Failed(failure)
    BY <1>2 DEF D!DecodeINE
  <2> HIDE DEF failure
  <2>2. QED
    BY <1>2, <2>1, FailedIsReadable
<1>3. CASE failure = "none"
  <2>1. D!DecodeINE(b, f)
          = D!Decoded([i \in DOMAIN labels |->
                         D!Observation(D!NormalizePeriodLabel(labels[i]),
                                       b.data[i].valor)],
                      D!NothingObserved)
    BY <1>3 DEF D!DecodeINE
  <2>2. \A i \in 1..5 : ~checks[i][1]
    <3>1. DOMAIN checks = 1..5
      OBVIOUS
    <3>2. \A i \in 1..5 : checks[i][2] # "none"
      OBVIOUS
    <3> HIDE DEF checks
    <3>3. QED
      BY <1>3, <3>1, <3>2, NoFailure
  <2>3. /\ ~(b.data = <<>>)
        /\ ~\E i \in DOMAIN labels : i = 1 /\ D!DetectPeriodicity(b.data[i].periodo) # f
        /\ ~\E i \in DOMAIN labels : ~D!Normalisable(labels[i])
    <3>1. ~checks[3][1] /\ ~checks[4][1] /\ ~checks[5][1]
      BY <2>2
    <3>2. QED
      BY <3>1
  <2> DEFINE obs == [i \in 1..n |-> [period |-> D!NormalizePeriodLabel(labels[i]),
                                     value |-> b.data[i].valor]]
             X == {obs[i] : i \in 1..n}
  <2>4. n \in Nat \ {0} /\ 1 \in 1..n
    BY <1>1, <2>3
  <2>5. \A i \in 1..n : labels[i] = D!INELabel(b.data[i]) /\ D!Normalisable(labels[i])
    BY <1>1, <2>3
  <2>6. \A i \in 1..n : obs[i].period = D!NormalizePeriodLabel(labels[i])
    OBVIOUS
  <2>7. obs \in [1..n -> X]
    OBVIOUS
  <2>8. D!DecodeINE(b, f) = D!Decoded(obs, D!NothingObserved)
    BY <1>1, <2>1 DEF D!Observation
  <2> HIDE DEF X, obs, labels, n
  <2>9. \A i \in 1..n : /\ obs[i].period \in ValidPeriods
                        /\ obs[i].period.freq = D!FrequencyOf[labels[i].form]
    <3> TAKE i \in 1..n
    <3>1. obs[i].period = D!NormalizePeriodLabel(labels[i])
      BY <2>6
    <3>2. D!Normalisable(labels[i])
      BY <2>5
    <3>3. QED
      BY <3>1, <3>2, NormalisedIsValid
  <2>10. obs[1].period.freq = f
    <3>1. D!DetectPeriodicity(b.data[1].periodo) = f
      BY <1>1, <2>3, <2>4 DEF labels, n
    <3>2. labels[1].form \in DOMAIN D!FrequencyOf
      BY <2>4, <2>5 DEF D!Normalisable
    <3>3. labels[1] = D!INELabel(b.data[1])
      BY <2>4, <2>5
    <3>4. D!FrequencyOf[labels[1].form] = D!DetectPeriodicity(b.data[1].periodo)
      BY <3>2, <3>3, INEForm
    <3>5. QED
      BY <2>4, <2>9, <3>1, <3>4
  <2> HIDE DEF checks, failure
  <2>11. Readable(D!Decoded(obs, D!NothingObserved), f)
    BY <2>4, <2>7, <2>9, <2>10, DecodedIsReadable
  <2>12. QED
    BY <2>8, <2>11
<1>4. QED
  BY <1>2, <1>3

\* The labels of a dimension can be listed in the order of their indices, so
\* the list is one (envelope.go:109).
LEMMA IndexOrderExists ==
  ASSUME NEW times, IsFiniteSet(DOMAIN times),
         \A label \in DOMAIN times : times[label] \in Int
  PROVE  /\ Cardinality(DOMAIN times) \in Nat
         /\ D!InIndexOrder(times) \in [1..Cardinality(DOMAIN times) -> DOMAIN times]
<1> DEFINE L == DOMAIN times
           n == Cardinality(L)
           Ordered(s) == \A i, j \in DOMAIN s :
                           i < j => s[i] # s[j] /\ times[s[i]] <= times[s[j]]
<1>1. n \in Nat
  BY FS_CardinalityType
<1>2. PICK f : f \in Bijection(1..n, L)
  BY FS_CardinalityType DEF ExistsBijection
<1>3. /\ f \in [1..n -> L]
      /\ \A i, j \in 1..n : f[i] = f[j] => i = j
  BY <1>2 DEF Bijection, Injection, IsInjective
<1> DEFINE Lt(i, j) == \/ times[f[i]] < times[f[j]]
                       \/ times[f[i]] = times[f[j]] /\ i < j
           lt == {e \in (1..n) \X (1..n) : Lt(e[1], e[2])}
<1>4. \A i, j \in 1..n : <<i, j>> \in lt <=> Lt(i, j)
  OBVIOUS
<1>5. \A i \in 1..n : times[f[i]] \in Int
  BY <1>3
<1>6. PICK s \in [1..n -> 1..n] : \A i, j \in 1..n : i < j => <<s[i], s[j]>> \in lt
  <2> HIDE DEF lt, n
  <2>1. \A i \in 1..n : <<i, i>> \notin lt
    BY <1>4, <1>5
  <2>2. \A i, j, k \in 1..n : <<i, j>> \in lt /\ <<j, k>> \in lt => <<i, k>> \in lt
    BY <1>4, <1>5
  <2>3. \A i, j \in 1..n : i = j \/ <<i, j>> \in lt \/ <<j, i>> \in lt
    <3> TAKE i, j \in 1..n
    <3>1. i \in Int /\ j \in Int /\ times[f[i]] \in Int /\ times[f[j]] \in Int
      BY <1>1, <1>5
    <3>2. i = j \/ Lt(i, j) \/ Lt(j, i)
      BY <3>1
    <3>3. QED
      BY <1>4, <3>2
  <2>4. QED
    BY <1>1, <2>1, <2>2, <2>3, InOrder
<1> DEFINE g == [i \in 1..n |-> f[s[i]]]
<1>7. g \in [1..n -> L] /\ DOMAIN g = 1..n
  BY <1>3, <1>6
<1>8. Ordered(g)
  <2> HIDE DEF lt, n
  <2>1. SUFFICES ASSUME NEW i \in 1..n, NEW j \in 1..n, i < j
                 PROVE  g[i] # g[j] /\ times[g[i]] <= times[g[j]]
    BY <1>7
  <2>2. s[i] \in 1..n /\ s[j] \in 1..n /\ Lt(s[i], s[j])
    BY <1>4, <1>6, <2>1
  <2>3. g[i] = f[s[i]] /\ g[j] = f[s[j]]
    OBVIOUS
  <2>4. s[i] # s[j] /\ times[f[s[i]]] <= times[f[s[j]]]
    BY <1>5, <2>2
  <2>5. QED
    BY <1>3, <2>2, <2>3, <2>4
<1> DEFINE m == D!Cardinality(L)
<1>9. m = n
  BY DCardinality
<1>10. \E t \in [1..m -> L] :
         \A i, j \in DOMAIN t : i < j => t[i] # t[j] /\ times[t[i]] <= times[t[j]]
  <2> HIDE DEF g, m, n
  <2>1. QED
    BY <1>7, <1>8, <1>9
<1>11. D!InIndexOrder(times) \in [1..m -> L]
  BY <1>10 DEF D!InIndexOrder
<1>12. QED
  <2> HIDE DEF m
  <2>1. QED
    BY <1>1, <1>9, <1>11

\* A decoded Eurostat cube is legible (envelope.go:57).
LEMMA EurostatIsReadable ==
  ASSUME NEW b, NEW f,
         \A dim \in DOMAIN b.category :
           /\ IsFiniteSet(DOMAIN b.category[dim])
           /\ \A label \in DOMAIN b.category[dim] : b.category[dim][label] \in Int
  PROVE  Readable(D!DecodeEurostat(b, f), f)
<1> DEFINE times == D!Categories(b, "time")
           n == Cardinality(DOMAIN times)
           slots == D!InIndexOrder(times)
           pinning == D!FirstFailure([i \in DOMAIN b.id |->
             <<D!PinningFailure(b, b.id[i]) # "none", D!PinningFailure(b, b.id[i])>>])
           checks == <<
        <<~b.parses, "unclassified">>,
        <<slots = <<>>, "silent-empty">>,
        <<pinning # "none", pinning>>,
        <<\E i \in DOMAIN slots : ~D!Normalisable(slots[i]), "unclassified">>,
        <<\E i \in DOMAIN slots :
            i = 1 /\ D!FrequencyOf[slots[i].form] # f, "schema-drift">> >>
           failure == D!FirstFailure(checks)
           Value(slot) ==
             IF D!CubePosition(b, times[slot]) \in DOMAIN b.value
             THEN b.value[D!CubePosition(b, times[slot])] ELSE NoValue
<1>1. n \in Nat /\ slots \in [1..n -> DOMAIN times] /\ DOMAIN slots = 1..n
  <2>1. IsFiniteSet(DOMAIN times) /\ \A label \in DOMAIN times : times[label] \in Int
    <3>1. CASE "time" \in DOMAIN b.category
      BY <3>1 DEF D!Categories
    <3>2. CASE "time" \notin DOMAIN b.category
      <4>1. times = <<>>
        BY <3>2 DEF D!Categories
      <4>2. DOMAIN times = {}
        BY <4>1
      <4>3. QED
        BY <4>2, FS_EmptySet
    <3>3. QED
      BY <3>1, <3>2
  <2> HIDE DEF times
  <2>2. QED
    BY <2>1, IndexOrderExists
<1>2. CASE failure # "none"
  <2>1. D!DecodeEurostat(b, f) = D!Failed(failure)
    BY <1>2 DEF D!DecodeEurostat
  <2> HIDE DEF failure
  <2>2. QED
    BY <1>2, <2>1, FailedIsReadable
<1>3. CASE failure = "none"
  <2> DEFINE obs == [i \in DOMAIN slots |->
                       [period |-> D!NormalizePeriodLabel(slots[i]),
                        value |-> Value(slots[i])]]
             X == {obs[i] : i \in 1..n}
  <2>1. D!DecodeEurostat(b, f) = D!Decoded(obs, D!NothingObserved)
    BY <1>3 DEF D!DecodeEurostat, D!Observation
  <2>2. ~checks[2][1] /\ ~checks[4][1] /\ ~checks[5][1]
    <3>1. DOMAIN checks = 1..5
      OBVIOUS
    <3>2. \A i \in 1..5 : checks[i][1] => checks[i][2] # "none"
      <4> HIDE DEF pinning
      <4>1. \A i \in {1, 2, 4, 5} : checks[i][2] # "none"
        OBVIOUS
      <4>2. checks[3][1] = (pinning # "none") /\ checks[3][2] = pinning
        OBVIOUS
      <4>3. 1..5 = {1, 2, 3, 4, 5}
        OBVIOUS
      <4> HIDE DEF checks
      <4>4. checks[3][1] => checks[3][2] # "none"
        BY <4>2
      <4>5. QED
        BY <4>1, <4>3, <4>4
    <3> HIDE DEF checks
    <3>3. \A i \in 1..5 : ~checks[i][1]
      BY <1>3, <3>1, <3>2, NoFailure
    <3>4. QED
      BY <3>3
  <2>3. /\ slots # <<>>
        /\ \A i \in DOMAIN slots : D!Normalisable(slots[i])
        /\ \A i \in DOMAIN slots : i = 1 => D!FrequencyOf[slots[i].form] = f
    BY <2>2
  <2> HIDE DEF checks, failure, pinning
  <2>4. obs \in [1..n -> X] /\ DOMAIN obs = 1..n
    BY <1>1
  <2>5. \A i \in 1..n : obs[i].period = D!NormalizePeriodLabel(slots[i])
    BY <1>1
  <2> HIDE DEF obs, X, times, slots, n
  <2>6. n \in Nat \ {0} /\ 1 \in 1..n
    <3>1. n # 0
      <4> SUFFICES ASSUME n = 0 PROVE FALSE
        OBVIOUS
      <4>1. Seq(DOMAIN times) = UNION {[1..m -> DOMAIN times] : m \in Nat}
        BY SeqDef
      <4>2. slots \in Seq(DOMAIN times)
        BY <1>1, <4>1
      <4>3. Len(slots) = 0
        BY <1>1, <4>2
      <4>4. QED
        BY <2>3, <4>2, <4>3, EmptySeq
    <3>2. QED
      BY <1>1, <3>1
  <2>7. \A i \in 1..n : /\ obs[i].period \in ValidPeriods
                        /\ obs[i].period.freq = D!FrequencyOf[slots[i].form]
    <3> TAKE i \in 1..n
    <3>1. obs[i].period = D!NormalizePeriodLabel(slots[i])
      BY <2>5
    <3>2. D!Normalisable(slots[i])
      BY <1>1, <2>3
    <3>3. QED
      BY <3>1, <3>2, NormalisedIsValid
  <2>8. obs[1].period.freq = f
    BY <1>1, <2>3, <2>6, <2>7
  <2>9. Readable(D!Decoded(obs, D!NothingObserved), f)
    BY <2>4, <2>6, <2>7, <2>8, DecodedIsReadable
  <2>10. QED
    BY <2>1, <2>9
<1>4. QED
  BY <1>2, <1>3

\* The rows that are read are a list.
LEMMA DataRowsAreRows ==
  ASSUME NEW b, IsList(b.rows)
  PROVE  /\ D!DataRows(b) \in Seq({b.rows[i] : i \in DOMAIN b.rows})
         /\ Len(D!DataRows(b)) \in Nat
         /\ DOMAIN D!DataRows(b) = 1..Len(D!DataRows(b))
<1> DEFINE S == {b.rows[i] : i \in DOMAIN b.rows}
           ends == {i \in DOMAIN b.rows : b.rows[i].label.form \in {"blank", "footnote"}}
           first == CHOOSE i \in ends : \A j \in ends : i <= j
           k == IF ends = {} THEN Len(b.rows) ELSE first - 1
<1>1. b.rows \in Seq(S)
  BY DEF IsList
<1> HIDE DEF S
<1>2. Len(b.rows) \in Nat /\ DOMAIN b.rows = 1..Len(b.rows)
  BY <1>1
<1>3. k \in 0..Len(b.rows)
  <2>1. CASE ends = {}
    BY <1>2, <2>1
  <2>2. CASE ends # {}
    <3>1. ends \subseteq 1..Len(b.rows)
      BY <1>2
    <3> HIDE DEF ends
    <3>2. \E i \in ends : \A j \in ends : i <= j
      BY <1>2, <2>2, <3>1, PositionsAreFinite, FiniteHasLeast
    <3>3. first \in 1..Len(b.rows)
      BY <3>1, <3>2
    <3> HIDE DEF first
    <3>4. QED
      BY <1>2, <2>2, <3>3
  <2>3. QED
    BY <2>1, <2>2
<1>4. D!DataRows(b) = SubSeq(b.rows, 1, k)
  BY DEF D!DataRows
<1> HIDE DEF k
<1>5. SubSeq(b.rows, 1, k) \in Seq(S)
  BY <1>1, <1>2, <1>3, SubSeqProperties
<1>6. QED
  BY <1>4, <1>5 DEF S

\* A decoded workbook is legible (decode.go:121).
LEMMA XLSXIsReadable ==
  ASSUME NEW b, IsList(b.rows), NEW layout, NEW f
  PROVE  Readable(D!DecodeXLSX(b, layout, f), f)
<1> DEFINE rows == D!DataRows(b)
           n == Len(rows)
           checks == <<
        <<layout.period = "" \/ layout.total = "" \/ layout.components = <<>>
            \/ layout.headerRow <= 0, "unclassified">>,
        <<~b.parses \/ layout.sheet \notin b.sheets, "schema-drift">>,
        <<\E i \in DOMAIN rows : ~D!ReadableRow(rows[i], layout), "schema-drift">>,
        <<rows = <<>>, "silent-empty">>,
        <<f # "M", "schema-drift">> >>
           failure == D!FirstFailure(checks)
<1>1. n \in Nat /\ DOMAIN rows = 1..n /\ (n = 0 => rows = <<>>)
  BY DataRowsAreRows, EmptySeq
<1>2. CASE failure # "none"
  <2>1. D!DecodeXLSX(b, layout, f) = D!Failed(failure)
    BY <1>2 DEF D!DecodeXLSX
  <2> HIDE DEF failure
  <2>2. QED
    BY <1>2, <2>1, FailedIsReadable
<1>3. CASE failure = "none"
  <2> DEFINE obs == [i \in DOMAIN rows |->
                       [period |-> D!Period("M", rows[i].label.year, rows[i].label.ordinal),
                        value |-> rows[i].cells[layout.total]]]
             X == {obs[i] : i \in 1..n}
             observed == [fields |-> {},
                          workbook |-> [sheet |-> layout.sheet,
                                        headerRow |-> layout.headerRow,
                                        fingerprint |-> D!Fingerprint(b, layout),
                                        anchors |-> <<layout.period, layout.total>>]]
  <2>1. D!DecodeXLSX(b, layout, f) = D!Decoded(obs, observed)
    BY <1>3 DEF D!DecodeXLSX, D!Observation
  <2>2. \A i \in 1..5 : ~checks[i][1]
    <3>1. DOMAIN checks = 1..5
      OBVIOUS
    <3>2. \A i \in 1..5 : checks[i][2] # "none"
      <4>1. 1..5 = {1, 2, 3, 4, 5}
        OBVIOUS
      <4>2. /\ checks[1][2] = "unclassified" /\ checks[2][2] = "schema-drift"
            /\ checks[3][2] = "schema-drift" /\ checks[4][2] = "silent-empty"
            /\ checks[5][2] = "schema-drift"
        OBVIOUS
      <4> HIDE DEF checks
      <4>3. QED
        BY <4>1, <4>2
    <3> HIDE DEF checks
    <3>3. QED
      BY <1>3, <3>1, <3>2, NoFailure
  <2>3. /\ \A i \in DOMAIN rows : D!ReadableRow(rows[i], layout)
        /\ rows # <<>>
        /\ f = "M"
    <3>1. ~checks[3][1] /\ ~checks[4][1] /\ ~checks[5][1]
      <4> HIDE DEF checks
      <4>1. QED
        BY <2>2
    <3>2. QED
      BY <3>1
  <2> HIDE DEF checks, failure, observed, rows
  <2>4. obs \in [1..n -> X] /\ DOMAIN obs = 1..n
    BY <1>1
  <2>5. \A i \in 1..n :
          obs[i].period = D!Period("M", rows[i].label.year, rows[i].label.ordinal)
    BY <1>1
  <2> HIDE DEF obs, X, n
  <2>6. n \in Nat \ {0} /\ 1 \in 1..n
    BY <1>1, <2>3
  <2>7. \A i \in 1..n : obs[i].period \in ValidPeriods /\ obs[i].period.freq = "M"
    <3> TAKE i \in 1..n
    <3> DEFINE y == rows[i].label.year
               o == rows[i].label.ordinal
    <3>1. y \in R!Years /\ o \in 1..R!StepsPerYear("M")
      <4>1. D!MonthOfYear(rows[i].label)
        BY <1>1, <2>3 DEF D!ReadableRow
      <4>2. D!StepsPerYear("M") = R!StepsPerYear("M") /\ D!Years = R!Years
        BY DEF D!StepsPerYear, R!StepsPerYear, D!Years, R!Years, D!LastYear, R!LastYear
      <4>3. QED
        BY <4>1, <4>2 DEF D!MonthOfYear
    <3> HIDE DEF y, o
    <3>2. o \in 1..12 /\ o <= R!StepsPerYear("M")
      BY <3>1, StepsOf
    <3>3. obs[i].period = [freq |-> "M", year |-> y, ordinal |-> o]
      BY <2>5 DEF D!Period, y, o
    <3>4. QED
      BY <3>1, <3>2, <3>3 DEF ValidPeriods, R!Frequencies
  <2>8. Readable(D!Decoded(obs, observed), f)
    BY <2>3, <2>4, <2>6, <2>7, DecodedIsReadable
  <2>9. QED
    BY <2>1, <2>8
<1>4. QED
  BY <1>2, <1>3

\* Whatever the kind of source, what comes of a body is readable.
LEMMA DecodingIsReadable ==
  ASSUME NEW s, s.kind \in Kinds, NEW b \in Bodies[s.kind]
  PROVE  Readable(Decoding(s, b), s.frequency)
<1>1. CASE s.kind = "ine-series-cod"
  <2>1. IsList(b.data)
    BY <1>1, BodiesAssumption
  <2>2. Decoding(s, b) = D!DecodeINE(b, s.frequency)
    BY <1>1 DEF Decoding
  <2>3. QED
    BY <2>1, <2>2, INEIsReadable
<1>2. CASE s.kind = "eurostat-dataset"
  <2>1. \A dim \in DOMAIN b.category :
          /\ IsFiniteSet(DOMAIN b.category[dim])
          /\ \A label \in DOMAIN b.category[dim] : b.category[dim][label] \in Int
    BY <1>2, BodiesAssumption
  <2>2. Decoding(s, b) = D!DecodeEurostat(b, s.frequency)
    BY <1>2 DEF Decoding
  <2>3. QED
    BY <2>1, <2>2, EurostatIsReadable
<1>3. CASE s.kind = "xlsx-url"
  <2>1. IsList(b.rows)
    BY <1>3, BodiesAssumption
  <2>2. Decoding(s, b) = D!DecodeXLSX(b, s.layout, s.frequency)
    BY <1>3 DEF Decoding
  <2>3. QED
    BY <2>1, <2>2, XLSXIsReadable
<1>4. QED
  BY <1>1, <1>2, <1>3 DEF Kinds

-----------------------------------------------------------------------------
(* The inductive invariant *)

\* The rows of ingestion_run.
Runs ==
  [body : UNION {Bodies[k] : k \in Kinds}, setup : Setups,
   outcome : {"pending", "succeeded", "validation-failed"}]

\* Every answer but the last was a failure, the last gave the outcome, and
\* between two requests only failures have arrived.
FetchShape ==
  /\ Client!TypeOK
  /\ waiting => outcome = "none" /\ attempt < MaxAttempts
  /\ outcome = "idle" => pc = "idle" /\ answers = <<>>
  /\ outcome # "idle" => attempt >= 1
  /\ outcome = "none" =>
       /\ pc = "fetch"
       /\ Len(answers) = IF waiting THEN attempt ELSE attempt - 1
       /\ \A i \in DOMAIN answers : answers[i] = "failed"
  /\ outcome \notin {"idle", "none"} =>
       /\ Len(answers) = attempt
       /\ \A i \in DOMAIN answers : i < attempt => answers[i] = "failed"
  /\ outcome = "ok" => pc # "idle" /\ answers[attempt] = "ok"
  /\ outcome = "retryable-transport" =>
       answers[attempt] = "failed" /\ attempt = MaxAttempts
  /\ outcome \in {"response-too-large", "schema-drift"} =>
       answers[attempt] \in {"too large", "other status"}

\* The row of the attempt says how the fetch ended; it is written when the
\* fetch has ended, and the call goes on with a body only.
LogShape ==
  /\ pc = "fetch" => logged = "none" /\ outcome # "idle"
  /\ pc \in {"decode", "rules"} =>
       outcome = "ok" /\ logged \in {"new-file", "unchanged"}
  /\ pc = "idle" => IF outcome = "idle"
                    THEN logged \in {"none", "new-file", "unchanged"}
                    ELSE logged = outcome

\* The call under way works for its own run: the last, still pending one.
CallShape ==
  /\ setup \in Setups /\ redeploys \in 0..MaxRedeploys
  /\ pc \in {"idle", "fetch", "decode", "rules"}
  /\ archive \subseteq UNION {Bodies[k] : k \in Kinds}
  /\ runs \in Seq(Runs)
  /\ \A i \in DOMAIN runs : /\ runs[i].setup.kind \in Kinds
                            /\ runs[i].body \in Bodies[runs[i].setup.kind]
  /\ pc # "idle" => setup.kind \in Kinds
  /\ outcome = "ok" => body \in Bodies[setup.kind]
  /\ pc \in {"decode", "rules"} =>
       /\ Len(runs) # 0
       /\ runs[Len(runs)].setup = setup /\ runs[Len(runs)].body = body
  /\ decoded = IF pc = "rules" THEN Decoding(setup, body) ELSE NoResult

\* Rows of the vintage have periods of the calendar, and no row is of the run
\* under way.
TableShape ==
  /\ IsFiniteSet(DOMAIN table) /\ DOMAIN table \subseteq ValidPeriods
  /\ \A p \in DOMAIN table : /\ table[p].value # NoValue
                             /\ table[p].run \in DOMAIN runs
                             /\ table[p].since \in 1..table[p].run
                             /\ pc \in {"decode", "rules"} => table[p].run # Len(runs)

SeriesShape == FetchShape /\ LogShape /\ CallShape /\ TableShape

\* What may come back for a request.
Answers == {"failed", "too large", "other status", "ok"}

\* An answer is added to those before it.
LEMMA AnswerArrives ==
  ASSUME NEW n \in Nat \ {0}, NEW s \in Seq(Answers), Len(s) = n - 1,
         NEW answer \in Answers,
         \A i \in DOMAIN s : s[i] = "failed"
  PROVE  /\ Append(s, answer) \in Seq(Answers)
         /\ Len(Append(s, answer)) = n
         /\ DOMAIN Append(s, answer) = 1..n
         /\ Append(s, answer)[n] = answer
         /\ \A i \in 1..n : i < n => Append(s, answer)[i] = "failed"
<1>1. n - 1 \in Nat /\ DOMAIN s = 1..(n - 1)
  OBVIOUS
<1>2. Append(s, answer) \in Seq(Answers) /\ Len(Append(s, answer)) = n
  OBVIOUS
<1>3. Append(s, answer)[n] = answer
  OBVIOUS
<1>4. \A i \in 1..n : i < n => Append(s, answer)[i] = s[i] /\ i \in DOMAIN s
  BY <1>1
<1>5. QED
  BY <1>2, <1>3, <1>4

\* The types of a client.
ClientTypes(a, w, o, s) ==
  /\ a \in 0..MaxAttempts /\ w \in BOOLEAN
  /\ o \in {"idle", "none", "ok", "retryable-transport", "response-too-large", "schema-drift"}
  /\ s \in Seq(Answers)

\* The types of the client are those of its variables, before a step
LEMMA ClientTypesAre ==
  Client!TypeOK <=> ClientTypes(attempt, waiting, outcome, answers)
<1>1. Client!Retryable \cup {"too large", "other status", "ok"} = Answers
  BY DEF Client!Retryable, Answers
<1>2. QED
  BY <1>1 DEF Client!TypeOK, ClientTypes

\* and after it.
LEMMA ClientTypesAreNext ==
  Client!TypeOK' <=> ClientTypes(attempt', waiting', outcome', answers')
<1>1. Client!Retryable \cup {"too large", "other status", "ok"} = Answers
  BY DEF Client!Retryable, Answers
<1>2. QED
  BY <1>1 DEF Client!TypeOK, ClientTypes

\* A client that has not begun has them.
LEMMA NoClientTypes == ClientTypes(0, FALSE, "idle", <<>>)
<1>1. 0 \in 0..MaxAttempts
  BY MaxAttemptsAssumption
<1>2. <<>> \in Seq(Answers)
  OBVIOUS
<1>3. QED
  BY <1>1, <1>2 DEF ClientTypes

\* The invariant holds at first, and every action keeps it.
LEMMA InitShape == Init => SeriesShape
<1> SUFFICES ASSUME Init PROVE SeriesShape
  OBVIOUS
<1> USE DEF Init, Client!Init
<1>1. FetchShape
  <2>1. Client!TypeOK
    BY ClientTypesAre, NoClientTypes
  <2>2. QED
    BY <2>1 DEF FetchShape
<1>2. LogShape
  BY DEF LogShape
<1>3. CallShape
  BY BoundsAssumption DEF CallShape
<1>4. TableShape
  BY FS_EmptySet DEF TableShape
<1>5. QED
  BY <1>1, <1>2, <1>3, <1>4 DEF SeriesShape

\* Steps of the client alone.
LEMMA FetchingKeepsFetch ==
  ASSUME FetchShape, LogShape, Fetching
  PROVE  FetchShape'
<1>0. /\ pc = "fetch" /\ pc' = "fetch"
      /\ MaxAttempts \in Nat /\ MaxAttempts >= 1
  BY MaxAttemptsAssumption DEF Fetching
<1>1. ClientTypes(attempt, waiting, outcome, answers)
  BY ClientTypesAre DEF FetchShape
<1>2. /\ attempt \in Nat /\ attempt <= MaxAttempts /\ answers \in Seq(Answers)
      /\ waiting \in BOOLEAN
  BY <1>0, <1>1 DEF ClientTypes
<1>3. \A n \in 1..MaxAttempts : n \in 0..MaxAttempts /\ n >= 1
  BY <1>0
<1>4. ASSUME NEW answer \in Answers, Client!Answered(answer)
      PROVE  /\ attempt \in 1..MaxAttempts /\ outcome = "none" /\ ~waiting
             /\ answers' \in Seq(Answers) /\ Len(answers') = attempt
             /\ DOMAIN answers' = 1..attempt /\ answers'[attempt] = answer
             /\ \A i \in 1..attempt : i < attempt => answers'[i] = "failed"
  <2>1. /\ outcome = "none" /\ ~waiting /\ answers' = Append(answers, answer)
    BY <1>4 DEF Client!Answered
  <2>2. /\ attempt >= 1 /\ Len(answers) = attempt - 1
        /\ \A i \in DOMAIN answers : answers[i] = "failed"
    BY <2>1 DEF FetchShape
  <2>3. attempt \in Nat \ {0} /\ attempt \in 1..MaxAttempts
    BY <1>0, <1>2, <2>2
  <2>4. QED
    BY <1>2, <1>4, <2>1, <2>2, <2>3, AnswerArrives
<1>5. CASE Client!Retry
  <2>1. Client!Answered("failed") /\ attempt' = attempt
    BY <1>5 DEF Client!Retry
  <2>2. /\ attempt \in 1..MaxAttempts
        /\ answers' \in Seq(Answers) /\ Len(answers') = attempt
        /\ DOMAIN answers' = 1..attempt
        /\ \A i \in 1..attempt : answers'[i] = "failed"
    <3>1. "failed" \in Answers
      BY DEF Answers
    <3>2. /\ attempt \in 1..MaxAttempts
          /\ answers' \in Seq(Answers) /\ Len(answers') = attempt
          /\ DOMAIN answers' = 1..attempt /\ answers'[attempt] = "failed"
          /\ \A i \in 1..attempt : i < attempt => answers'[i] = "failed"
      BY <1>4, <2>1, <3>1
    <3>3. \A i \in 1..attempt : i = attempt \/ i < attempt
      BY <1>2
    <3>4. QED
      BY <3>2, <3>3
  <2>3. CASE attempt < MaxAttempts
    <3>1. waiting' = (attempt < MaxAttempts) /\ outcome' = "none"
      BY <1>5, <2>3 DEF Client!Retry
    <3>2. waiting' \in BOOLEAN /\ waiting'
      BY <2>3, <3>1
    <3>3. attempt' \in 0..MaxAttempts
      BY <1>0, <1>2, <2>1
    <3>4. ClientTypes(attempt', waiting', outcome', answers')
      BY <2>2, <3>1, <3>2, <3>3 DEF ClientTypes
    <3>5. attempt' >= 1 /\ attempt' < MaxAttempts /\ Len(answers') = attempt'
            /\ \A i \in DOMAIN answers' : answers'[i] = "failed"
      BY <1>0, <1>2, <2>1, <2>2, <2>3
    <3>6. QED
      BY <1>0, <3>1, <3>2, <3>4, <3>5, ClientTypesAreNext DEF FetchShape
  <2>4. CASE ~(attempt < MaxAttempts)
    <3>1. waiting' = (attempt < MaxAttempts) /\ outcome' = "retryable-transport"
      BY <1>5, <2>4 DEF Client!Retry
    <3>2. waiting' \in BOOLEAN /\ ~waiting'
      <4> DEFINE again == attempt < MaxAttempts
      <4>1. waiting' = again /\ ~again /\ again \in BOOLEAN
        BY <2>4, <3>1
      <4> HIDE DEF again
      <4>2. QED
        BY <4>1
    <3>3. attempt' \in 0..MaxAttempts /\ attempt' = MaxAttempts /\ attempt' >= 1
      BY <1>0, <1>2, <2>1, <2>4
    <3>4. ClientTypes(attempt', waiting', outcome', answers')
      BY <2>2, <3>1, <3>2, <3>3 DEF ClientTypes
    <3>5. /\ Len(answers') = attempt' /\ answers'[attempt'] = "failed"
          /\ \A i \in DOMAIN answers' : i < attempt' => answers'[i] = "failed"
      BY <1>0, <1>2, <2>1, <2>2, <3>3
    <3>6. QED
      BY <1>0, <3>1, <3>2, <3>3, <3>4, <3>5, ClientTypesAreNext DEF FetchShape
  <2>5. QED
    BY <2>3, <2>4
<1>6. ASSUME NEW answer \in {"too large", "other status"}, Client!GiveUp(answer)
      PROVE  FetchShape'
  <2>1. /\ Client!Answered(answer) /\ attempt' = attempt /\ waiting' = waiting
        /\ outcome' = Client!ClassOf(answer)
    BY <1>6 DEF Client!GiveUp
  <2>2. outcome' \in {"response-too-large", "schema-drift"}
    BY <1>6, <2>1 DEF Client!ClassOf
  <2>3. answer \in Answers
    BY <1>6 DEF Answers
  <2>4. /\ attempt \in 1..MaxAttempts /\ ~waiting
        /\ answers' \in Seq(Answers) /\ Len(answers') = attempt
        /\ DOMAIN answers' = 1..attempt /\ answers'[attempt] = answer
        /\ \A i \in 1..attempt : i < attempt => answers'[i] = "failed"
    BY <1>4, <2>1, <2>3
  <2>5. attempt' \in 0..MaxAttempts /\ attempt' >= 1
    <3>1. attempt' = attempt /\ attempt \in 1..MaxAttempts
      BY <2>1, <2>4
    <3>2. QED
      BY <1>3, <3>1
  <2>6. ClientTypes(attempt', waiting', outcome', answers')
    BY <1>2, <2>1, <2>2, <2>4, <2>5 DEF ClientTypes
  <2>7. QED
    BY <1>0, <1>6, <2>1, <2>2, <2>4, <2>5, <2>6, ClientTypesAreNext DEF FetchShape
<1>7. ASSUME NEW b \in Bodies[setup.kind], Client!Receive(b)
      PROVE  FetchShape'
  <2>1. /\ Client!Answered("ok") /\ attempt' = attempt /\ waiting' = waiting
        /\ outcome' = "ok"
    BY <1>7 DEF Client!Receive
  <2>2. "ok" \in Answers
    BY DEF Answers
  <2>3. /\ attempt \in 1..MaxAttempts /\ ~waiting
        /\ answers' \in Seq(Answers) /\ Len(answers') = attempt
        /\ DOMAIN answers' = 1..attempt /\ answers'[attempt] = "ok"
        /\ \A i \in 1..attempt : i < attempt => answers'[i] = "failed"
    BY <1>4, <2>1, <2>2
  <2>4. attempt' \in 0..MaxAttempts /\ attempt' >= 1
    BY <1>0, <1>2, <2>1, <2>3
  <2>5. ClientTypes(attempt', waiting', outcome', answers')
    BY <1>2, <2>1, <2>3, <2>4 DEF ClientTypes
  <2>6. QED
    BY <1>0, <2>1, <2>3, <2>4, <2>5, ClientTypesAreNext DEF FetchShape
<1>8. CASE Client!Resume
  <2>1. /\ waiting /\ waiting' = FALSE /\ attempt' = attempt + 1
        /\ outcome' = outcome /\ answers' = answers
    BY <1>8 DEF Client!Resume
  <2>2. /\ outcome = "none" /\ attempt < MaxAttempts /\ Len(answers) = attempt
        /\ \A i \in DOMAIN answers : answers[i] = "failed"
    BY <2>1 DEF FetchShape
  <2>3. attempt' \in 0..MaxAttempts /\ attempt' >= 1 /\ Len(answers') = attempt' - 1
    BY <1>0, <1>2, <2>1, <2>2
  <2>4. ClientTypes(attempt', waiting', outcome', answers')
    BY <1>2, <2>1, <2>2, <2>3 DEF ClientTypes
  <2>5. QED
    BY <1>0, <2>1, <2>2, <2>3, <2>4, ClientTypesAreNext DEF FetchShape
<1>9. QED
  BY <1>5, <1>6, <1>7, <1>8 DEF Fetching, Client!Step

\* A call that is over leaves nothing of its fetch behind.
LEMMA ForgettingIsIdle ==
  ASSUME Client!Forget, pc' = "idle"
  PROVE  FetchShape'
<1>1. Client!TypeOK'
  BY ClientTypesAreNext, NoClientTypes DEF Client!Forget
<1>2. QED
  BY <1>1 DEF Client!Forget, FetchShape

\* A request, an answer or a wait.
LEMMA FetchingKeeps == SeriesShape /\ Fetching => SeriesShape'
<1> SUFFICES ASSUME SeriesShape, Fetching PROVE SeriesShape'
  OBVIOUS
<1>0. FetchShape /\ LogShape /\ CallShape /\ TableShape
  BY DEF SeriesShape
<1>1. /\ pc = "fetch" /\ pc' = "fetch" /\ setup' = setup /\ redeploys' = redeploys
      /\ archive' = archive /\ logged' = logged /\ runs' = runs
      /\ decoded' = decoded /\ table' = table /\ Client!Step(Bodies[setup.kind])
  BY DEF Fetching
<1>2. FetchShape'
  BY <1>0, FetchingKeepsFetch
<1>3. LogShape'
  BY <1>0, <1>1, <1>2 DEF LogShape, FetchShape
<1>4. CallShape'
  <2>1. outcome' = "ok" => body' \in Bodies[setup.kind]
    <3>1. CASE Client!Retry
      BY <3>1 DEF Client!Retry
    <3>2. ASSUME NEW answer \in {"too large", "other status"}, Client!GiveUp(answer)
          PROVE  outcome' # "ok"
      BY <3>2 DEF Client!GiveUp, Client!ClassOf
    <3>3. ASSUME NEW b \in Bodies[setup.kind], Client!Receive(b)
          PROVE  body' \in Bodies[setup.kind]
      BY <3>3 DEF Client!Receive
    <3>4. CASE Client!Resume
      BY <1>0, <3>4 DEF Client!Resume, CallShape
    <3>5. QED
      BY <1>1, <3>1, <3>2, <3>3, <3>4 DEF Client!Step
  <2>2. QED
    BY <1>0, <1>1, <2>1 DEF CallShape
<1>5. TableShape'
  BY <1>0, <1>1 DEF TableShape
<1>6. QED
  BY <1>2, <1>3, <1>4, <1>5 DEF SeriesShape

\* Another configuration.
LEMMA RedeployKeeps == SeriesShape /\ Redeploy => SeriesShape'
<1> SUFFICES ASSUME SeriesShape, Redeploy PROVE SeriesShape'
  OBVIOUS
<1>0. FetchShape /\ LogShape /\ CallShape /\ TableShape
  BY DEF SeriesShape
<1>1. /\ pc = "idle" /\ redeploys < MaxRedeploys /\ setup' \in Setups
      /\ redeploys' = redeploys + 1 /\ pc' = pc /\ archive' = archive
      /\ logged' = logged /\ runs' = runs /\ decoded' = decoded /\ table' = table
      /\ attempt' = attempt /\ waiting' = waiting /\ outcome' = outcome
      /\ body' = body /\ answers' = answers
  BY DEF Redeploy, clientVars
<1>2. FetchShape'
  BY <1>0, <1>1, ClientTypesAre, ClientTypesAreNext DEF FetchShape
<1>3. LogShape'
  BY <1>0, <1>1 DEF LogShape
<1>4. CallShape'
  <2>1. redeploys' \in 0..MaxRedeploys
    BY <1>0, <1>1, BoundsAssumption DEF CallShape
  <2>2. outcome # "ok"
    BY <1>0, <1>1 DEF FetchShape
  <2>3. QED
    BY <1>0, <1>1, <2>1, <2>2 DEF CallShape
<1>5. TableShape'
  BY <1>0, <1>1 DEF TableShape
<1>6. QED
  BY <1>2, <1>3, <1>4, <1>5 DEF SeriesShape

\* A call begins.
LEMMA BeginKeeps == SeriesShape /\ Begin => SeriesShape'
<1> SUFFICES ASSUME SeriesShape, Begin PROVE SeriesShape'
  OBVIOUS
<1>0. FetchShape /\ LogShape /\ CallShape /\ TableShape
  BY DEF SeriesShape
<1>1. /\ pc = "idle" /\ pc' = "fetch" /\ setup.kind \in Kinds /\ logged' = "none"
      /\ setup' = setup /\ redeploys' = redeploys /\ archive' = archive
      /\ runs' = runs /\ decoded' = decoded /\ table' = table
      /\ attempt' = 1 /\ waiting' = FALSE /\ outcome' = "none" /\ answers' = <<>>
  BY DEF Begin, Client!Fetch
<1>2. FetchShape'
  <2>1. 1 \in 0..MaxAttempts /\ <<>> \in Seq(Answers)
    BY MaxAttemptsAssumption
  <2>2. ClientTypes(attempt', waiting', outcome', answers')
    BY <1>1, <2>1 DEF ClientTypes
  <2>3. QED
    BY <1>1, <2>2, ClientTypesAreNext DEF FetchShape
<1>3. LogShape'
  BY <1>1 DEF LogShape
<1>4. CallShape'
  BY <1>0, <1>1 DEF CallShape
<1>5. TableShape'
  BY <1>0, <1>1 DEF TableShape
<1>6. QED
  BY <1>2, <1>3, <1>4, <1>5 DEF SeriesShape

\* A fetch that failed ends the call.
LEMMA FetchFailedKeeps == SeriesShape /\ FetchFailed => SeriesShape'
<1> SUFFICES ASSUME SeriesShape, FetchFailed PROVE SeriesShape'
  OBVIOUS
<1>0. FetchShape /\ LogShape /\ CallShape /\ TableShape
  BY DEF SeriesShape
<1>1. /\ pc = "fetch" /\ outcome \notin {"none", "ok"} /\ pc' = "idle"
      /\ logged' = outcome /\ setup' = setup /\ redeploys' = redeploys
      /\ archive' = archive /\ runs' = runs /\ decoded' = decoded /\ table' = table
      /\ attempt' = attempt /\ waiting' = waiting /\ outcome' = outcome
      /\ body' = body /\ answers' = answers
  BY DEF FetchFailed, clientVars
<1>2. outcome # "idle"
  BY <1>0, <1>1 DEF LogShape
<1>3. FetchShape'
  BY <1>0, <1>1, <1>2, ClientTypesAre, ClientTypesAreNext DEF FetchShape
<1>4. LogShape'
  BY <1>1, <1>2 DEF LogShape
<1>5. CallShape'
  BY <1>0, <1>1 DEF CallShape
<1>6. TableShape'
  BY <1>0, <1>1 DEF TableShape
<1>7. QED
  BY <1>3, <1>4, <1>5, <1>6 DEF SeriesShape

\* A body that arrived begins a run.
LEMMA ArchiveKeeps == SeriesShape /\ Archive => SeriesShape'
<1> SUFFICES ASSUME SeriesShape, Archive PROVE SeriesShape'
  OBVIOUS
<1>0. FetchShape /\ LogShape /\ CallShape /\ TableShape
  BY DEF SeriesShape
<1> DEFINE run == [body |-> body, setup |-> setup, outcome |-> "pending"]
<1>1. /\ pc = "fetch" /\ outcome = "ok" /\ pc' = "decode"
      /\ archive' = archive \cup {body}
      /\ logged' \in {"new-file", "unchanged"} /\ runs' = Append(runs, run)
      /\ setup' = setup /\ redeploys' = redeploys
      /\ decoded' = decoded /\ table' = table
      /\ attempt' = attempt /\ waiting' = waiting /\ outcome' = outcome
      /\ body' = body /\ answers' = answers
  BY DEF Archive, clientVars
<1>2. FetchShape'
  BY <1>0, <1>1, ClientTypesAre, ClientTypesAreNext DEF FetchShape
<1>3. LogShape'
  BY <1>1 DEF LogShape
<1>4. /\ setup.kind \in Kinds /\ body \in Bodies[setup.kind] /\ run \in Runs
  <2>1. setup \in Setups /\ setup.kind \in Kinds /\ body \in Bodies[setup.kind]
    BY <1>0, <1>1 DEF CallShape
  <2>2. body \in UNION {Bodies[k] : k \in Kinds}
    BY <2>1
  <2>3. QED
    BY <2>1, <2>2 DEF Runs
<1>5. /\ runs \in Seq(Runs) /\ runs' \in Seq(Runs) /\ Len(runs') = Len(runs) + 1
      /\ runs'[Len(runs')] = run /\ Len(runs) \in Nat
      /\ \A i \in DOMAIN runs : runs'[i] = runs[i]
      /\ DOMAIN runs = 1..Len(runs) /\ DOMAIN runs' = 1..(Len(runs) + 1)
  <2>1. runs \in Seq(Runs)
    BY <1>0 DEF CallShape
  <2> HIDE DEF run
  <2>2. QED
    BY <1>1, <1>4, <2>1
<1>6. CallShape'
  <2>1. /\ runs'[Len(runs')].setup = setup /\ runs'[Len(runs')].body = body
    BY <1>5
  <2> HIDE DEF run
  <2>2. \A i \in DOMAIN runs' : /\ runs'[i].setup.kind \in Kinds
                                /\ runs'[i].body \in Bodies[runs'[i].setup.kind]
    <3> TAKE i \in DOMAIN runs'
    <3>1. i \in DOMAIN runs \/ i = Len(runs')
      BY <1>5
    <3>2. CASE i \in DOMAIN runs
      BY <1>0, <1>5, <3>2 DEF CallShape
    <3>3. CASE i = Len(runs')
      BY <1>4, <2>1, <3>3
    <3>4. QED
      BY <3>1, <3>2, <3>3
  <2>3. archive' \subseteq UNION {Bodies[k] : k \in Kinds}
    BY <1>0, <1>1, <1>4 DEF CallShape
  <2>4. Len(runs') # 0
    BY <1>5
  <2>5. QED
    BY <1>0, <1>1, <1>4, <1>5, <2>1, <2>2, <2>3, <2>4 DEF CallShape
<1>7. TableShape'
  <2>1. \A p \in DOMAIN table : /\ table[p].run \in 1..Len(runs)
                                /\ table[p].since \in 1..table[p].run
                                /\ table[p].value # NoValue
    BY <1>0, <1>5 DEF TableShape
  <2>2. \A p \in DOMAIN table : table[p].run \in DOMAIN runs' /\ table[p].run # Len(runs')
    <3> TAKE p \in DOMAIN table
    <3>1. table[p].run \in 1..Len(runs)
      BY <2>1
    <3>2. QED
      BY <1>5, <3>1
  <2>3. QED
    BY <1>0, <1>1, <2>1, <2>2 DEF TableShape
<1>8. QED
  BY <1>2, <1>3, <1>6, <1>7 DEF SeriesShape

\* The run's payload is decoded.
LEMMA DecodeKeeps == SeriesShape /\ Decode => SeriesShape'
<1> SUFFICES ASSUME SeriesShape, Decode PROVE SeriesShape'
  OBVIOUS
<1>0. FetchShape /\ LogShape /\ CallShape /\ TableShape
  BY DEF SeriesShape
<1>1. /\ pc = "decode" /\ pc' = "rules" /\ decoded' = Decoding(setup, body)
      /\ archive' = archive /\ logged' = logged /\ runs' = runs
      /\ setup' = setup /\ redeploys' = redeploys /\ table' = table
      /\ attempt' = attempt /\ waiting' = waiting /\ outcome' = outcome
      /\ body' = body /\ answers' = answers
  BY DEF Decode, clientVars
<1>2. FetchShape'
  BY <1>0, <1>1, ClientTypesAre, ClientTypesAreNext DEF FetchShape, LogShape
<1>3. LogShape'
  BY <1>0, <1>1 DEF LogShape
<1>4. CallShape'
  <2>1. decoded' = Decoding(setup', body')
    BY <1>1
  <2>2. QED
    BY <1>0, <1>1, <2>1 DEF CallShape
<1>5. TableShape'
  BY <1>0, <1>1 DEF TableShape
<1>6. QED
  BY <1>2, <1>3, <1>4, <1>5 DEF SeriesShape

\* The end of a run records its outcome and changes no run else.
LEMMA RunEnds ==
  ASSUME SeriesShape, pc = "rules",
         NEW recorded \in {"pending", "succeeded", "validation-failed"},
         EndRun(recorded)
  PROVE  /\ runs \in Seq(Runs) /\ runs' \in Seq(Runs)
         /\ Len(runs') = Len(runs) /\ Len(runs) \in Nat \ {0}
         /\ DOMAIN runs' = DOMAIN runs /\ DOMAIN runs = 1..Len(runs)
         /\ \A i \in DOMAIN runs : /\ runs'[i].body = runs[i].body
                                   /\ runs'[i].setup = runs[i].setup
                                   /\ i # Len(runs) => runs'[i] = runs[i]
         /\ runs'[Len(runs)].outcome = recorded
<1>1. /\ runs' = [runs EXCEPT ![Len(runs)].outcome = recorded]
      /\ runs \in Seq(Runs) /\ Len(runs) # 0
  BY DEF SeriesShape, CallShape, EndRun
<1>2. Len(runs) \in Nat \ {0} /\ DOMAIN runs = 1..Len(runs) /\ Len(runs) \in DOMAIN runs
  BY <1>1
<1> DEFINE last == [runs[Len(runs)] EXCEPT !.outcome = recorded]
<1>3. runs' = [runs EXCEPT ![Len(runs)] = last]
  BY <1>1
<1>4. runs[Len(runs)] \in Runs
  BY <1>1, <1>2
<1>5. /\ last \in Runs /\ last.outcome = recorded
      /\ last.body = runs[Len(runs)].body /\ last.setup = runs[Len(runs)].setup
  BY <1>4 DEF Runs
<1> HIDE DEF last
<1>6. /\ DOMAIN runs' = DOMAIN runs /\ runs'[Len(runs)] = last
      /\ \A i \in DOMAIN runs : i # Len(runs) => runs'[i] = runs[i]
  BY <1>2, <1>3
<1>7. runs' \in Seq(Runs) /\ Len(runs') = Len(runs)
  BY <1>1, <1>2, <1>3, <1>5
<1>8. QED
  BY <1>1, <1>2, <1>5, <1>6, <1>7

\* With the run the call ends.
LEMMA EndKeeps ==
  ASSUME SeriesShape, pc = "rules",
         NEW recorded \in {"pending", "succeeded", "validation-failed"},
         EndRun(recorded), decoded' = NoResult,
         UNCHANGED <<setup, redeploys, archive, logged>>
  PROVE  FetchShape' /\ LogShape' /\ CallShape'
<1>0. FetchShape /\ LogShape /\ CallShape /\ TableShape
  BY DEF SeriesShape
<1>1. pc' = "idle" /\ Client!Forget /\ outcome' = "idle"
  BY DEF EndRun, Client!Forget
<1>2. FetchShape'
  BY <1>1, ForgettingIsIdle
<1>3. LogShape'
  BY <1>0, <1>1 DEF LogShape
<1>4. /\ runs' \in Seq(Runs) /\ DOMAIN runs' = DOMAIN runs
      /\ \A i \in DOMAIN runs : runs'[i].body = runs[i].body
                                  /\ runs'[i].setup = runs[i].setup
  BY RunEnds
<1>5. CallShape'
  BY <1>0, <1>1, <1>4 DEF CallShape
<1>6. QED
  BY <1>2, <1>3, <1>5

\* A run without observations, or one that the gate blocks, publishes nothing.
LEMMA EmptyEndKeeps ==
  ASSUME SeriesShape, pc = "rules", EndRun("validation-failed"), decoded' = NoResult,
         UNCHANGED <<setup, redeploys, archive, logged, table>>
  PROVE  SeriesShape'
<1>1. FetchShape' /\ LogShape' /\ CallShape'
  BY EndKeeps
<1>2. pc' = "idle" /\ DOMAIN runs' = DOMAIN runs
  BY RunEnds DEF EndRun
<1>3. TableShape'
  BY <1>2 DEF SeriesShape, TableShape
<1>4. QED
  BY <1>1, <1>3 DEF SeriesShape

-----------------------------------------------------------------------------
(* What a run publishes *)

\* A list is numbered from 1.
LEMMA ListIs ==
  ASSUME NEW s, IsList(s)
  PROVE  Len(s) \in Nat /\ DOMAIN s = 1..Len(s)
BY DEF IsList

\* What the rules look at is what the decoder returned.
LEMMA RulesIncoming ==
  ASSUME SeriesShape, pc = "rules", decoded.class = "none"
  PROVE  /\ Legible(Incoming, setup.frequency)
         /\ Incoming = Decoding(setup, body).observations
         /\ setup.kind \in Kinds
<1>1. /\ setup.kind \in Kinds /\ decoded = Decoding(setup, body)
      /\ body \in Bodies[setup.kind]
  BY DEF SeriesShape, LogShape, CallShape
<1>2. Readable(decoded, setup.frequency)
  BY <1>1, DecodingIsReadable
<1>3. QED
  BY <1>1, <1>2 DEF Readable, Incoming

\* What is written of a list is its stretch up to the first missing value.
LEMMA WritablePrefix ==
  ASSUME NEW obs, IsList(obs)
  PROVE  LET W == Writable(obs)
         IN  /\ Len(W) \in 0..Len(obs) /\ DOMAIN W = 1..Len(W)
             /\ \A i \in 1..Len(W) : W[i] = obs[i] /\ obs[i].value # NoValue
<1> DEFINE S == {obs[i] : i \in DOMAIN obs}
           empty == {i \in DOMAIN obs : obs[i].value = NoValue}
           k == IF empty = {} THEN Len(obs) ELSE R!Least(empty) - 1
           W == Writable(obs)
<1>1. Len(obs) \in Nat /\ DOMAIN obs = 1..Len(obs)
  BY ListIs
<1>2. k \in 0..Len(obs) /\ \A i \in 1..k : obs[i].value # NoValue
  <2>1. CASE empty = {}
    BY <1>1, <2>1
  <2>2. CASE empty # {}
    <3>1. empty \subseteq 1..Len(obs)
      BY <1>1
    <3>2. R!Least(empty) \in empty /\ \A i \in empty : R!Least(empty) <= i
      <4> HIDE DEF empty
      <4>1. QED
        BY <1>1, <2>2, <3>1, LeastOf
    <3>3. R!Least(empty) \in 1..Len(obs) /\ k = R!Least(empty) - 1
      BY <2>2, <3>1, <3>2
    <3>4. \A i \in 1..k : i \in DOMAIN obs /\ i \notin empty
      <4> HIDE DEF empty, k
      <4>1. QED
        BY <1>1, <3>2, <3>3
    <3>5. QED
      <4>1. k \in 0..Len(obs)
        <5> HIDE DEF empty, k
        <5>1. QED
          BY <1>1, <3>3
      <4>2. QED
        BY <3>4, <4>1
  <2>3. QED
    BY <2>1, <2>2
<1>3. W = SubSeq(obs, 1, k)
  BY DEF Writable
<1> HIDE DEF k, W
<1>4. \A i \in 1..k : obs[i] \in S
  BY <1>1, <1>2
<1> HIDE DEF S
<1>5. W \in Seq(S) /\ Len(W) = k /\ \A i \in 1..k : W[i] = obs[i]
  <2>1. k \in Int /\ k - 1 + 1 = k /\ (IF 1 <= k THEN k - 1 + 1 ELSE 0) = k
    BY <1>1, <1>2
  <2>2. /\ SubSeq(obs, 1, k) \in Seq(S)
        /\ Len(SubSeq(obs, 1, k)) = IF 1 <= k THEN k - 1 + 1 ELSE 0
        /\ \A i \in 1..(k - 1 + 1) : SubSeq(obs, 1, k)[i] = obs[1 + i - 1]
    BY <1>4, <2>1, SubSeqProperties
  <2>3. \A i \in 1..k : 1 + i - 1 = i
    OBVIOUS
  <2>4. QED
    BY <1>3, <2>1, <2>2, <2>3
<1>6. DOMAIN W = 1..Len(W)
  BY <1>5
<1>7. QED
  BY <1>2, <1>5, <1>6 DEF W

\* The places of a list at which p is.
Places(W, p) == {i \in DOMAIN W : W[i].period = p}

\* The row of p stays: no candidate says anything else.
Kept(W, p) ==
  p \in DOMAIN table /\ \A i \in Places(W, p) : W[i].value = table[p].value

\* The periods that W lists.
PeriodsOf(W) == {W[i].period : i \in DOMAIN W}

\* What the row of p says in the vintage T after a run: what it said, or
\* something the run has listed.
RowAfter(W, T, p) ==
  \/ Kept(W, p) /\ T[p] = table[p]
  \/ /\ ~Kept(W, p)
     /\ \E i \in Places(W, p) : T[p].value = W[i].value
     /\ T[p].run = Len(runs)
     /\ T[p].since = IF p \in DOMAIN table THEN table[p].since ELSE Len(runs)

\* A publication keeps the rows whose periods say what they said, and replaces
\* the others by what the run has listed.
LEMMA WrittenRows ==
  ASSUME NEW W, NEW n \in Nat, DOMAIN W = 1..n, NEW T, T = Written(W)
  PROVE  /\ DOMAIN T = DOMAIN table \cup PeriodsOf(W)
         /\ \A p \in DOMAIN T : RowAfter(W, T, p)
<1>1. /\ DOMAIN T = DOMAIN table \cup PeriodsOf(W)
      /\ \A p \in DOMAIN T :
           T[p] = IF Kept(W, p) THEN table[p]
                  ELSE [value |-> W[R!Greatest(Places(W, p))].value, run |-> Len(runs),
                        since |-> IF p \in DOMAIN table THEN table[p].since ELSE Len(runs)]
  BY DEF Written, Kept, Places, PeriodsOf
<1>2. ASSUME NEW p \in DOMAIN T, ~Kept(W, p)
      PROVE  RowAfter(W, T, p)
  <2>1. Places(W, p) # {} /\ Places(W, p) \subseteq 1..n
    BY <1>1, <1>2 DEF Kept, Places, PeriodsOf
  <2>2. R!Greatest(Places(W, p)) \in Places(W, p)
    BY <2>1, GreatestOf
  <2> DEFINE g == R!Greatest(Places(W, p))
             old == IF p \in DOMAIN table THEN table[p].since ELSE Len(runs)
  <2>3. T[p] = [value |-> W[g].value, run |-> Len(runs), since |-> old]
    BY <1>1, <1>2
  <2>4. g \in Places(W, p)
    BY <2>2
  <2> HIDE DEF g, old
  <2>5. T[p].value = W[g].value /\ T[p].run = Len(runs) /\ T[p].since = old
    BY <2>3
  <2>6. QED
    BY <1>2, <2>4, <2>5 DEF old, RowAfter
<1>3. ASSUME NEW p \in DOMAIN T, Kept(W, p) PROVE RowAfter(W, T, p)
  BY <1>1, <1>3 DEF RowAfter
<1>4. QED
  BY <1>1, <1>2, <1>3

\* The periods of a list are finitely many.
LEMMA ListedPeriodsAreFinite ==
  ASSUME NEW W, NEW n \in Nat, DOMAIN W = 1..n
  PROVE  IsFiniteSet(PeriodsOf(W))
<1> DEFINE P == PeriodsOf(W)
           f == [i \in 1..n |-> W[i].period]
<1>1. IsFiniteSet(1..n)
  BY FS_Interval
<1>2. f \in Surjection(1..n, P)
  BY DEF Surjection, PeriodsOf
<1> HIDE DEF f, P
<1>3. IsFiniteSet(P)
  BY <1>1, <1>2, FS_Surjection
<1>4. QED
  BY <1>3 DEF P

\* A run publishes.
LEMMA PublishKeeps == SeriesShape /\ Publish => SeriesShape'
<1> SUFFICES ASSUME SeriesShape, Publish PROVE SeriesShape'
  OBVIOUS
<1> DEFINE W == Writable(Incoming)
           n == Len(W)
<1>0. /\ FetchShape /\ LogShape /\ CallShape /\ TableShape
  BY DEF SeriesShape
<1>1. /\ pc = "rules" /\ decoded.class = "none" /\ table' = Written(W)
      /\ decoded' = NoResult /\ UNCHANGED <<setup, redeploys, archive, logged>>
      /\ EndRun(IF W = Incoming THEN "succeeded" ELSE "pending")
  BY DEF Publish
<1>2. PICK recorded \in {"pending", "succeeded", "validation-failed"} : EndRun(recorded)
  BY <1>1
<1>3. FetchShape' /\ LogShape' /\ CallShape' /\ pc' = "idle"
  BY <1>1, <1>2, EndKeeps DEF EndRun
<1>4. /\ DOMAIN runs' = 1..Len(runs) /\ DOMAIN runs = 1..Len(runs)
      /\ Len(runs) \in Nat \ {0}
  BY <1>1, <1>2, RunEnds
<1>5. /\ IsList(Incoming) /\ \A i \in DOMAIN Incoming : Incoming[i].period \in ValidPeriods
  BY <1>1, RulesIncoming DEF Legible
<1>6. /\ n \in Nat /\ DOMAIN W = 1..n
      /\ \A i \in 1..n : W[i].period \in ValidPeriods /\ W[i].value # NoValue
  <2>1. Len(Incoming) \in Nat /\ DOMAIN Incoming = 1..Len(Incoming)
    BY <1>5, ListIs
  <2>2. /\ n \in 0..Len(Incoming) /\ DOMAIN W = 1..n
        /\ \A i \in 1..n : W[i] = Incoming[i] /\ Incoming[i].value # NoValue
    BY <1>5, WritablePrefix
  <2> HIDE DEF W, n
  <2>3. \A i \in 1..n : i \in DOMAIN Incoming
    BY <2>1, <2>2
  <2>4. QED
    BY <1>5, <2>1, <2>2, <2>3
<1> HIDE DEF W, n
<1>7. /\ DOMAIN table' = DOMAIN table \cup PeriodsOf(W)
      /\ \A p \in DOMAIN table' : RowAfter(W, table', p)
  BY <1>1, <1>6, WrittenRows
<1>8. IsFiniteSet(DOMAIN table') /\ DOMAIN table' \subseteq ValidPeriods
  <2>1. IsFiniteSet(PeriodsOf(W)) /\ PeriodsOf(W) \subseteq ValidPeriods
    <3>1. IsFiniteSet(PeriodsOf(W))
      BY <1>6, ListedPeriodsAreFinite
    <3>2. QED
      BY <1>6, <3>1 DEF PeriodsOf
  <2>2. IsFiniteSet(DOMAIN table) /\ DOMAIN table \subseteq ValidPeriods
    BY <1>0 DEF TableShape
  <2>3. IsFiniteSet(DOMAIN table \cup PeriodsOf(W))
    BY <2>1, <2>2, FS_Union
  <2>4. DOMAIN table' = DOMAIN table \cup PeriodsOf(W)
    BY <1>7
  <2>5. QED
    BY <2>1, <2>2, <2>3, <2>4
<1>9. ASSUME NEW p \in DOMAIN table'
      PROVE  /\ table'[p].value # NoValue /\ table'[p].run \in DOMAIN runs'
             /\ table'[p].since \in 1..table'[p].run
  <2>1. CASE Kept(W, p) /\ table'[p] = table[p]
    BY <1>0, <1>4, <2>1 DEF TableShape, Kept
  <2>2. CASE /\ \E i \in Places(W, p) : table'[p].value = W[i].value
             /\ table'[p].run = Len(runs)
             /\ table'[p].since = IF p \in DOMAIN table THEN table[p].since ELSE Len(runs)
    <3>1. table'[p].value # NoValue
      BY <1>6, <2>2 DEF Places
    <3>2. p \in DOMAIN table => table[p].run \in 1..Len(runs)
                                  /\ table[p].since \in 1..table[p].run
      BY <1>0, <1>4 DEF TableShape
    <3>3. table'[p].since \in 1..Len(runs)
      <4>1. CASE p \in DOMAIN table
        <5>1. /\ table[p].run \in 1..Len(runs) /\ table[p].since \in 1..table[p].run
              /\ table'[p].since = table[p].since
          BY <2>2, <3>2, <4>1
        <5>2. table[p].since \in 1..Len(runs)
          BY <1>4, <5>1
        <5>3. QED
          BY <5>1, <5>2
      <4>2. CASE p \notin DOMAIN table
        BY <1>4, <2>2, <4>2
      <4>3. QED
        BY <4>1, <4>2
    <3>4. QED
      BY <1>4, <2>2, <3>1, <3>3
  <2>3. QED
    BY <1>7, <2>1, <2>2 DEF RowAfter
<1>10. TableShape'
  BY <1>3, <1>8, <1>9 DEF TableShape
<1>11. QED
  BY <1>3, <1>10 DEF SeriesShape

\* Every state has the shape.
LEMMA NextKeepsShape == SeriesShape /\ [Next]_vars => SeriesShape'
<1> SUFFICES ASSUME SeriesShape, [Next]_vars PROVE SeriesShape'
  OBVIOUS
<1>1. CASE DecodeFailed
  BY <1>1, EmptyEndKeeps DEF DecodeFailed
<1>2. CASE Block
  BY <1>2, EmptyEndKeeps DEF Block
<1>3. CASE UNCHANGED vars
  <2>1. /\ setup' = setup /\ redeploys' = redeploys /\ pc' = pc /\ archive' = archive
        /\ logged' = logged /\ runs' = runs /\ decoded' = decoded /\ table' = table
        /\ attempt' = attempt /\ waiting' = waiting /\ outcome' = outcome
        /\ body' = body /\ answers' = answers
    BY <1>3 DEF vars, clientVars
  <2>2. FetchShape'
    BY <2>1, ClientTypesAre, ClientTypesAreNext DEF SeriesShape, FetchShape
  <2>3. LogShape'
    BY <2>1 DEF SeriesShape, LogShape
  <2>4. CallShape'
    <3>1. Decoding(setup, body)' = Decoding(setup, body)
      BY <2>1
    <3>2. QED
      BY <2>1, <3>1 DEF SeriesShape, CallShape
  <2>5. TableShape'
    BY <2>1 DEF SeriesShape, TableShape
  <2>6. QED
    BY <2>2, <2>3, <2>4, <2>5 DEF SeriesShape
<1>4. QED
  BY <1>1, <1>2, <1>3, RedeployKeeps, BeginKeeps, FetchingKeeps, FetchFailedKeeps,
     ArchiveKeeps, DecodeKeeps, PublishKeeps DEF Next, CallStep

\* In every state of every behaviour.
LEMMA ShapeHolds == Spec => []SeriesShape
BY InitShape, NextKeepsShape, PTL DEF Spec

\* Every variable has the type its declaration describes, whatever the
\* configurations and the bodies.
THEOREM SeriesTypes == Spec => []TypeOK
<1>1. SeriesShape => TypeOK
  <2> SUFFICES ASSUME SeriesShape PROVE TypeOK
    OBVIOUS
  <2>0. FetchShape /\ LogShape /\ CallShape /\ TableShape
    BY DEF SeriesShape
  <2>1. \A i \in DOMAIN runs :
          runs[i].outcome \in {"pending", "succeeded", "validation-failed"}
    <3>1. \A i \in DOMAIN runs : runs[i] \in Runs
      BY <2>0 DEF CallShape
    <3>2. \A r \in Runs : r.outcome \in {"pending", "succeeded", "validation-failed"}
      BY DEF Runs
    <3>3. QED
      BY <3>1, <3>2
  <2>2. \A p \in DOMAIN table : p.freq \in R!Frequencies
    BY <2>0 DEF TableShape, ValidPeriods
  <2>3. logged \in {"none", "new-file", "unchanged", "retryable-transport",
                    "response-too-large", "schema-drift"}
    <3>1. pc \in {"idle", "fetch", "decode", "rules"}
      BY <2>0 DEF CallShape
    <3>2. CASE pc # "idle"
      BY <2>0, <3>1, <3>2 DEF LogShape
    <3>3. CASE pc = "idle"
      <4>1. outcome \notin {"none", "ok"}
        BY <2>0, <3>3 DEF FetchShape
      <4>2. outcome \in {"idle", "none", "ok", "retryable-transport",
                         "response-too-large", "schema-drift"}
        BY <2>0, ClientTypesAre DEF FetchShape, ClientTypes
      <4>3. QED
        BY <2>0, <3>3, <4>1, <4>2 DEF LogShape
    <3>4. QED
      BY <3>2, <3>3
  <2>4. Client!TypeOK
    BY <2>0 DEF FetchShape
  <2>5. QED
    BY <2>0, <2>1, <2>2, <2>3, <2>4 DEF TypeOK, CallShape, TableShape
<1>2. QED
  BY <1>1, ShapeHolds, PTL

\* A download_attempt row says what happened on the wire, however many
\* attempts a fetch may make.
THEOREM SeriesAttemptsTell == Spec => []AttemptsTellTheFetch
<1>1. SeriesShape => AttemptsTellTheFetch
  <2> SUFFICES ASSUME SeriesShape PROVE AttemptsTellTheFetch
    OBVIOUS
  <2>0. FetchShape /\ LogShape /\ CallShape
    BY DEF SeriesShape
  <2>1. /\ answers \in Seq(Answers) /\ attempt \in Nat
        /\ outcome \in {"idle", "none", "ok", "retryable-transport",
                        "response-too-large", "schema-drift"}
    <3>1. ClientTypes(attempt, waiting, outcome, answers)
      BY <2>0, ClientTypesAre DEF FetchShape
    <3>2. attempt \in Nat
      BY <3>1, MaxAttemptsAssumption DEF ClientTypes
    <3>3. QED
      BY <3>1, <3>2 DEF ClientTypes
  <2>2. Client!Retryable = {"failed"}
    BY DEF Client!Retryable
  <2>3. \A i \in 1..(Len(answers) - 1) : answers[i] \in Client!Retryable
    <3> TAKE i \in 1..(Len(answers) - 1)
    <3>1. i \in DOMAIN answers /\ i < Len(answers)
      BY <2>1
    <3>2. outcome # "idle"
      <4>1. answers # <<>>
        BY <3>1
      <4>2. QED
        BY <2>0, <4>1 DEF FetchShape
    <3>3. answers[i] = "failed"
      <4>1. CASE outcome = "none"
        BY <2>0, <3>1, <4>1 DEF FetchShape
      <4>2. CASE outcome # "none"
        BY <2>0, <3>1, <3>2, <4>2 DEF FetchShape
      <4>3. QED
        BY <4>1, <4>2
    <3>4. QED
      BY <2>2, <3>3
  <2>4. ASSUME logged # "none", answers # <<>>
        PROVE  LET last == answers[Len(answers)]
               IN  CASE logged \in {"new-file", "unchanged"} -> last = "ok"
                     [] logged = "retryable-transport" ->
                          last \in Client!Retryable /\ Len(answers) = MaxAttempts
                     [] OTHER -> last \in {"too large", "other status"}
    <3>1. pc \in {"idle", "decode", "rules"} /\ outcome # "idle"
      BY <2>0, <2>4 DEF LogShape, FetchShape, CallShape
    <3>2. CASE pc \in {"decode", "rules"}
      <4>1. /\ outcome = "ok" /\ logged \in {"new-file", "unchanged"}
        BY <2>0, <3>2 DEF LogShape
      <4>2. Len(answers) = attempt /\ answers[attempt] = "ok"
        BY <2>0, <4>1 DEF FetchShape
      <4>3. answers[Len(answers)] = "ok"
        BY <4>2
      <4>4. QED
        BY <4>1, <4>3
    <3>3. CASE pc = "idle"
      <4>1. logged = outcome /\ outcome \notin {"none", "ok"}
        BY <2>0, <3>1, <3>3 DEF LogShape, FetchShape
      <4>2. Len(answers) = attempt
        BY <2>0, <3>1, <4>1 DEF FetchShape
      <4>3. CASE outcome = "retryable-transport"
        <5>1. answers[Len(answers)] = "failed" /\ Len(answers) = MaxAttempts
          BY <2>0, <4>2, <4>3 DEF FetchShape
        <5>2. QED
          BY <2>2, <4>1, <4>3, <5>1
      <4>4. CASE outcome \in {"response-too-large", "schema-drift"}
        <5>1. answers[Len(answers)] \in {"too large", "other status"}
          BY <2>0, <4>2, <4>4 DEF FetchShape
        <5>2. QED
          BY <4>1, <4>4, <5>1
      <4>5. QED
        BY <2>1, <3>1, <4>1, <4>3, <4>4
    <3>4. QED
      BY <3>1, <3>2, <3>3
  <2>5. QED
    BY <2>3, <2>4 DEF AttemptsTellTheFetch
<1>2. QED
  BY <1>1, ShapeHolds, PTL

-----------------------------------------------------------------------------
(* What the rules have seen *)

\* A year and an ordinal, whether or not the year has it.
IsPlace(p) == p.year \in Int /\ p.ordinal \in Int

\* A valid period has a place in the calendar.
LEMMA ValidIsPlace == \A p \in ValidPeriods : IsPlace(p)
<1>1. \A p \in ValidPeriods : p.year \in R!Years /\ p.ordinal \in 1..12
  BY DEF ValidPeriods
<1>2. QED
  BY <1>1, YearsAreNumbers DEF IsPlace

\* Before orders the places of the calendar.
LEMMA BeforeOrders ==
  ASSUME NEW p, NEW q, NEW r, IsPlace(p), IsPlace(q), IsPlace(r)
  PROVE  /\ R!Before(p, q) \/ R!Before(q, p) \/ R!Same(p, q)
         /\ R!Before(p, q) /\ R!Before(q, r) => R!Before(p, r)
         /\ ~(R!Before(p, q) /\ R!Before(q, p))
BY DEF IsPlace, R!Before, R!Same

\* A walk stays on its frequency, and visits places of the calendar.
LEMMA AheadIsPlace ==
  ASSUME NEW p \in ValidPeriods, NEW n \in Nat
  PROVE  /\ IsPlace(R!Ahead(p, n))
         /\ R!Ahead(p, n) = [freq |-> p.freq, year |-> R!Ahead(p, n).year,
                             ordinal |-> R!Ahead(p, n).ordinal]
         /\ R!Ahead(p, n).freq = p.freq
<1> DEFINE k == R!StepsPerYear(p.freq)
           y == p.year + ((p.ordinal - 1 + n) \div k)
           o == ((p.ordinal - 1 + n) % k) + 1
<1>1. k \in {1, 4, 12} /\ p.year \in Int /\ p.ordinal \in 1..k
  BY ValidSteps
<1>2. R!Ahead(p, n) = [freq |-> p.freq, year |-> y, ordinal |-> o]
  BY DEF R!Ahead, R!Period
<1>3. y \in Int /\ o \in Int
  <2> HIDE DEF k
  <2>1. k \in Int /\ k > 0 /\ p.ordinal - 1 + n \in Int
    BY <1>1
  <2>2. QED
    BY <1>1, <2>1
<1> HIDE DEF y, o
<1>4. R!Ahead(p, n).year = y /\ R!Ahead(p, n).ordinal = o /\ R!Ahead(p, n).freq = p.freq
  BY <1>2
<1>5. QED
  BY <1>2, <1>3, <1>4 DEF IsPlace

\* A period of the calendar is the one at its place in its frequency.
LEMMA AtItsPlace ==
  ASSUME NEW q \in ValidPeriods, NEW h, h = [freq |-> h.freq, year |-> h.year, ordinal |-> h.ordinal],
         R!Same(q, h), q.freq = h.freq
  PROVE  q = h
<1>1. q = [freq |-> q.freq, year |-> q.year, ordinal |-> q.ordinal]
  BY DEF ValidPeriods
<1>2. QED
  BY <1>1 DEF R!Same

\* The latest period of a list is in it, and none in it is after it.
LEMMA LatestOf ==
  ASSUME NEW obs, NEW n \in Nat \ {0}, DOMAIN obs = 1..n,
         \A i \in 1..n : obs[i].period \in ValidPeriods
  PROVE  \E k \in 1..n : /\ R!LatestPeriod(obs) = obs[k].period
                         /\ \A j \in 1..n : ~R!Before(obs[k].period, obs[j].period)
<1> DEFINE place(i) == 13 * obs[i].period.year + obs[i].period.ordinal
           f == [i \in 1..n |-> place(i)]
           P == {f[i] : i \in 1..n}
           T == {i \in DOMAIN obs :
                   \A j \in DOMAIN obs : ~R!Before(obs[i].period, obs[j].period)}
<1>1. \A i \in 1..n : f[i] \in Int
  <2> TAKE i \in 1..n
  <2>1. IsPlace(obs[i].period)
    BY ValidIsPlace
  <2>2. QED
    BY <2>1 DEF IsPlace
<1>2. IsFiniteSet(P)
  <2>1. IsFiniteSet(1..n)
    BY FS_Interval
  <2>2. f \in Surjection(1..n, P)
    BY DEF Surjection
  <2> HIDE DEF f, P
  <2>3. QED
    BY <2>1, <2>2, FS_Surjection
<1>3. P \in SUBSET Int /\ P # {}
  <2>1. 1 \in 1..n
    OBVIOUS
  <2> HIDE DEF f
  <2>2. QED
    BY <1>1, <2>1
<1>4. PICK v \in P : \A w \in P : v >= w
  <2> HIDE DEF P
  <2>1. QED
    BY <1>2, <1>3, FiniteHasGreatest
<1>5. PICK m \in 1..n : v = f[m]
  BY <1>4
<1>6. m \in T
  <2>1. SUFFICES ASSUME NEW j \in 1..n PROVE ~R!Before(obs[m].period, obs[j].period)
    BY <1>5
  <2>2. f[m] >= f[j] /\ f[m] = place(m) /\ f[j] = place(j)
    BY <1>4, <1>5
  <2>3. f[m] \in Int /\ f[j] \in Int
    BY <1>1
  <2>4. ~(place(m) < place(j))
    BY <2>2, <2>3
  <2>5. QED
    BY <2>4, Calendar
<1> DEFINE k == R!Least(T)
<1>7. k \in T
  <2>1. T \subseteq 1..n /\ T # {}
    BY <1>6
  <2> HIDE DEF T
  <2>2. QED
    BY <2>1, LeastOf
<1>8. R!LatestPeriod(obs) = obs[k].period
  BY DEF R!LatestPeriod
<1>9. k \in 1..n /\ \A j \in 1..n : ~R!Before(obs[k].period, obs[j].period)
  <2> HIDE DEF k
  <2>1. QED
    BY <1>7
<1>10. QED
  BY <1>8, <1>9

\* A finite set can be gone through.
LEMMA SomeOrder ==
  ASSUME NEW S, IsFiniteSet(S)
  PROVE  /\ InSomeOrder(S) \in Seq(S)
         /\ DOMAIN InSomeOrder(S) = 1..Len(InSomeOrder(S))
         /\ \A x \in S : \E i \in DOMAIN InSomeOrder(S) : InSomeOrder(S)[i] = x
<1> DEFINE n == Cardinality(S)
           s == InSomeOrder(S)
<1>1. n \in Nat
  BY FS_CardinalityType
<1>2. PICK f : f \in Bijection(1..n, S)
  BY FS_CardinalityType DEF ExistsBijection
<1>3. /\ f \in [1..n -> S]
      /\ \A i, j \in DOMAIN f : i < j => f[i] # f[j]
  <2>1. f \in [1..n -> S] /\ \A i, j \in 1..n : f[i] = f[j] => i = j
    BY <1>2 DEF Bijection, Injection, IsInjective
  <2>2. \A i, j \in 1..n : i < j => i # j
    OBVIOUS
  <2>3. QED
    BY <2>1, <2>2
<1>4. /\ s \in [1..n -> S]
      /\ \A i, j \in DOMAIN s : i < j => s[i] # s[j]
  <2>1. \E t \in [1..Cardinality(S) -> S] : \A i, j \in DOMAIN t : i < j => t[i] # t[j]
    BY <1>3
  <2>2. QED
    BY <2>1 DEF InSomeOrder
<1> HIDE DEF s
<1>5. s \in Injection(1..n, S)
  <2>1. \A i, j \in 1..n : s[i] = s[j] => i = j
    <3> SUFFICES ASSUME NEW i \in 1..n, NEW j \in 1..n, s[i] = s[j], i # j PROVE FALSE
      OBVIOUS
    <3>1. i < j \/ j < i
      BY <1>1
    <3>2. QED
      BY <1>4, <3>1
  <2>2. QED
    BY <1>4, <2>1 DEF Injection, IsInjective
<1>6. s \in Surjection(1..n, S)
  <2>1. Cardinality(1..n) = n
    BY <1>1, FS_Interval
  <2> HIDE DEF n
  <2>2. QED
    BY <1>5, <2>1, FS_Injection DEF n
<1>7. s \in Seq(S) /\ DOMAIN s = 1..n /\ Len(s) = n
  <2> HIDE DEF n
  <2>1. Seq(S) = UNION {[1..m -> S] : m \in Nat}
    BY SeqDef
  <2>2. s \in Seq(S)
    BY <1>1, <1>4, <2>1
  <2>3. QED
    BY <1>1, <1>4, <2>2
<1>8. \A x \in S : \E i \in 1..n : s[i] = x
  BY <1>6 DEF Surjection
<1>9. QED
  BY <1>7, <1>8 DEF s

\* The rules are given the rows of the vintage, each of them, and no other.
IsListing(prior, n) ==
  /\ n \in Nat /\ IsList(prior) /\ Len(prior) = n
  /\ \A i \in 1..n : /\ prior[i].period \in DOMAIN table
                     /\ prior[i].value = table[prior[i].period].value
  /\ \A p \in DOMAIN table : \E i \in 1..n : prior[i].period = p

\* Whatever the order of its rows, a query returns the vintage.
LEMMA ListingsList ==
  ASSUME IsFiniteSet(DOMAIN table), NEW prior \in Listings
  PROVE  IsListing(prior, Len(prior))
<1> DEFINE D0 == DOMAIN table
<1> DEFINE Choices == {P \in SUBSET D0 : \A p \in D0 :
                        Cardinality({q \in P : R!Same(p, q)}) = 1}
           Orders == {InSomeOrder(P) \o InSomeOrder(D0 \ P) : P \in Choices}
<1>0. PICK t \in Orders :
        prior = [i \in DOMAIN t |-> [period |-> t[i], value |-> table[t[i]].value]]
  BY DEF Listings
<1>1. PICK P \in SUBSET D0 : t = InSomeOrder(P) \o InSomeOrder(D0 \ P)
  <2>1. PICK P \in Choices : t = InSomeOrder(P) \o InSomeOrder(D0 \ P)
    <3> HIDE DEF Choices
    <3>1. QED
      BY <1>0
  <2>2. P \in SUBSET D0
    BY <2>1
  <2>3. QED
    BY <2>1, <2>2
<1> DEFINE a == InSomeOrder(P)
           b == InSomeOrder(D0 \ P)
           s == a \o b
<1>2. /\ a \in Seq(P) /\ \A x \in P : \E i \in DOMAIN a : a[i] = x
      /\ b \in Seq(D0 \ P) /\ \A x \in D0 \ P : \E i \in DOMAIN b : b[i] = x
  <2>1. IsFiniteSet(P) /\ IsFiniteSet(D0 \ P)
    <3>1. P \in SUBSET D0 /\ D0 \ P \in SUBSET D0
      OBVIOUS
    <3>2. QED
      BY <3>1, FS_Subset
  <2> HIDE DEF D0
  <2>2. QED
    BY <2>1, SomeOrder
<1> HIDE DEF a, b, D0
<1>3. a \in Seq(D0) /\ b \in Seq(D0)
  <2>1. Len(a) \in Nat /\ DOMAIN a = 1..Len(a) /\ Len(b) \in Nat /\ DOMAIN b = 1..Len(b)
    BY <1>2
  <2>2. a \in [1..Len(a) -> D0] /\ b \in [1..Len(b) -> D0]
    BY <1>2, <2>1
  <2>3. Seq(D0) = UNION {[1..m -> D0] : m \in Nat}
    BY SeqDef
  <2>4. QED
    BY <2>1, <2>2, <2>3
<1>4. /\ s \in Seq(D0) /\ Len(s) = Len(a) + Len(b)
      /\ \A i \in 1..(Len(a) + Len(b)) : s[i] = IF i <= Len(a) THEN a[i] ELSE b[i - Len(a)]
  BY <1>3, ConcatProperties
<1>5. Len(a) \in Nat /\ DOMAIN a = 1..Len(a) /\ Len(b) \in Nat /\ DOMAIN b = 1..Len(b)
  BY <1>2
<1> DEFINE n == Len(s)
<1>6. n \in Nat /\ DOMAIN s = 1..n /\ n = Len(a) + Len(b)
  BY <1>4
<1>7. \A x \in D0 : \E i \in 1..n : s[i] = x
  <2> TAKE x \in D0
  <2>1. CASE x \in P
    <3>1. PICK i \in DOMAIN a : a[i] = x
      BY <1>2, <2>1
    <3>2. i \in 1..n /\ i <= Len(a)
      BY <1>5, <1>6
    <3>3. QED
      BY <1>4, <1>6, <3>1, <3>2
  <2>2. CASE x \notin P
    <3>1. PICK i \in DOMAIN b : b[i] = x
      BY <1>2, <2>2
    <3>2. i + Len(a) \in 1..n /\ ~(i + Len(a) <= Len(a)) /\ i + Len(a) - Len(a) = i
      BY <1>5, <1>6
    <3>3. s[i + Len(a)] = b[i]
      BY <1>4, <1>6, <3>2
    <3>4. QED
      BY <3>1, <3>2, <3>3
  <2>3. QED
    BY <2>1, <2>2
<1>8. \A i \in 1..n : s[i] \in D0
  BY <1>4, <1>6
<1>9. prior = [i \in DOMAIN s |-> [period |-> s[i], value |-> table[s[i]].value]]
  BY <1>0, <1>1 DEF a, b
<1> HIDE DEF s, n
<1>10. DOMAIN prior = 1..n
  BY <1>6, <1>9
<1>11. \A i \in 1..n : prior[i].period = s[i] /\ prior[i].value = table[s[i]].value
  BY <1>6, <1>9
<1>12. IsList(prior) /\ Len(prior) = n
  <2> DEFINE Y == {prior[i] : i \in DOMAIN prior}
  <2>1. prior \in [1..n -> Y]
    BY <1>6, <1>9, <1>10
  <2> HIDE DEF Y
  <2>2. Seq(Y) = UNION {[1..m -> Y] : m \in Nat}
    BY SeqDef
  <2>3. prior \in Seq(Y)
    BY <1>6, <2>1, <2>2
  <2>4. Len(prior) = n
    BY <1>6, <1>10, <2>3
  <2>5. QED
    BY <2>3, <2>4 DEF Y, IsList
<1>13. \A i \in 1..n : /\ prior[i].period \in DOMAIN table
                       /\ prior[i].value = table[prior[i].period].value
  BY <1>8, <1>11 DEF D0
<1>14. \A p \in DOMAIN table : \E i \in 1..n : prior[i].period = p
  BY <1>7, <1>11 DEF D0
<1>15. QED
  BY <1>6, <1>12, <1>13, <1>14 DEF IsListing

\* What the gate lets through, rules 2 and 3 found nothing in.
LEMMA GateOpen ==
  ASSUME NEW ctx, NEW incoming, R!Gate(R!SixRules(ctx, incoming)) = "publish"
  PROVE  R!Rule2Continuity(ctx, incoming) = {} /\ R!Rule3Plausibility(ctx, incoming) = {}
<1>1. \A f \in R!SixRules(ctx, incoming) : f.severity # "block"
  BY DEF R!Gate
<1>2. \A r, p : R!Finding(r, "block", p).severity = "block"
  BY DEF R!Finding
<1>3. \A f \in R!Rule2Continuity(ctx, incoming) : f.severity = "block"
  BY <1>2 DEF R!Rule2Continuity
<1>4. \A f \in R!Rule3Plausibility(ctx, incoming) : f.severity = "block"
  BY <1>2 DEF R!Rule3Plausibility
<1>5. QED
  BY <1>1, <1>3, <1>4 DEF R!SixRules

\* Periods of one frequency.
Uniform(S) == \A p, q \in S : p.freq = q.freq

\* Why p and the period q after it may be that far apart.
Excused(p, q) ==
  \/ table[p].run > table[q].run
  \/ table[p].run = table[q].run /\ table[p].since < table[p].run
  \/ table[p].run = table[q].run /\ Contradictory(table[p].run, p)

JumpsHold ==
  Uniform(DOMAIN table) => \A p, q \in DOMAIN table : Jump(p, q) => Excused(p, q)

\* The newest periods of what the run that added q found.
Newest(q) ==
  LET earlier == {p \in DOMAIN table : table[p].since < table[q].since}
  IN  {p \in earlier : \A o \in earlier : ~R!Before(p, o)}

HolesHold ==
  Uniform(DOMAIN table) =>
    \A q \in DOMAIN table : \A p \in Newest(q) : \A hole \in R!WalkFrom(p) :
      R!Before(hole, q) /\ hole \notin DOMAIN table =>
        \/ hole \in runs[table[q].since].setup.gaps
        \/ /\ runs[table[q].since].outcome = "pending"
           /\ R!HasPeriod(Listed(table[q].since), hole)

\* The invariant: the shape of the state, and what every run so far has left.
SeriesInv == SeriesShape /\ JumpsHold /\ HolesHold

\* Two lists one after the other.
LEMMA ConcatIs ==
  ASSUME NEW a, NEW b, IsList(a), IsList(b)
  PROVE  /\ DOMAIN (a \o b) = 1..(Len(a) + Len(b))
         /\ \A i \in 1..Len(a) : (a \o b)[i] = a[i]
         /\ \A i \in 1..Len(b) : (a \o b)[Len(a) + i] = b[i]
<1> DEFINE A == {a[i] : i \in DOMAIN a}
           B == {b[i] : i \in DOMAIN b}
           S == A \cup B
<1>1. a \in Seq(A) /\ b \in Seq(B)
  BY DEF IsList
<1> HIDE DEF A, B
<1>2. Len(a) \in Nat /\ DOMAIN a = 1..Len(a) /\ Len(b) \in Nat /\ DOMAIN b = 1..Len(b)
  BY <1>1
<1>3. a \in Seq(S) /\ b \in Seq(S)
  <2>1. a \in [1..Len(a) -> S] /\ b \in [1..Len(b) -> S]
    BY <1>1, <1>2
  <2>2. Seq(S) = UNION {[1..m -> S] : m \in Nat}
    BY SeqDef
  <2> HIDE DEF S
  <2>3. QED
    BY <1>2, <2>1, <2>2
<1> HIDE DEF S
<1>4. /\ a \o b \in Seq(S) /\ Len(a \o b) = Len(a) + Len(b)
      /\ \A i \in 1..(Len(a) + Len(b)) :
           (a \o b)[i] = IF i <= Len(a) THEN a[i] ELSE b[i - Len(a)]
  BY <1>3, ConcatProperties
<1>5. DOMAIN (a \o b) = 1..(Len(a) + Len(b))
  BY <1>4
<1>6. ASSUME NEW i \in 1..Len(a) PROVE (a \o b)[i] = a[i]
  <2>1. i \in 1..(Len(a) + Len(b)) /\ i <= Len(a)
    BY <1>2
  <2>2. QED
    BY <1>4, <2>1
<1>7. ASSUME NEW i \in 1..Len(b) PROVE (a \o b)[Len(a) + i] = b[i]
  <2>1. /\ Len(a) + i \in 1..(Len(a) + Len(b)) /\ ~(Len(a) + i <= Len(a))
        /\ Len(a) + i - Len(a) = i
    BY <1>2
  <2>2. QED
    BY <1>4, <2>1
<1>8. QED
  BY <1>5, <1>6, <1>7

\* If a list has a value at the period before q, the rule measures from one
\* that is listed there or earlier.
LEMMA PreviousAt ==
  ASSUME NEW all, NEW n \in Nat, DOMAIN all = 1..n, NEW q, NEW k \in 1..n,
         R!Same(all[k].period, R!Preceding(q)), all[k].value # NoValue
  PROVE  \E i \in 1..k : /\ R!Same(all[i].period, R!Preceding(q))
                         /\ all[i].value # NoValue
                         /\ R!PreviousValue(all, q) = all[i].value
<1> DEFINE found == {i \in DOMAIN all : /\ R!Same(all[i].period, R!Preceding(q))
                                        /\ all[i].value # NoValue}
           i == R!Least(found)
<1>1. k \in found /\ found \subseteq 1..n
  OBVIOUS
<1>2. i \in found /\ \A j \in found : i <= j
  <2> HIDE DEF found
  <2>1. QED
    BY <1>1, LeastOf
<1>3. R!PreviousValue(all, q) = all[i].value
  BY <1>1 DEF R!PreviousValue
<1> HIDE DEF i
<1>4. i \in 1..k
  <2>1. i <= k /\ i \in 1..n
    BY <1>1, <1>2
  <2>2. QED
    BY <2>1
<1>5. QED
  BY <1>2, <1>3, <1>4

\* What rule 3 found nothing in does not jump.
LEMMA Rule3Sees ==
  ASSUME NEW ctx, NEW incoming, R!Rule3Plausibility(ctx, incoming) = {},
         NEW g \in DOMAIN incoming, incoming[g].value # NoValue,
         ctx.maxDelta # NoValue,
         ~\E b \in ctx.breaks : R!Same(b, incoming[g].period),
         R!PreviousValue(ctx.prior \o incoming, incoming[g].period) # NoValue
  PROVE  ~(R!Abs(incoming[g].value
                   - R!PreviousValue(ctx.prior \o incoming, incoming[g].period))
             > ctx.maxDelta)
<1>1. ~R!Implausible(ctx, incoming, incoming[g])
  BY DEF R!Rule3Plausibility
<1>2. QED
  BY <1>1 DEF R!Implausible

\* What the rules are told of the configuration and of the vintage.
LEMMA ContextIs ==
  ASSUME NEW prior
  PROVE  /\ Context(prior).prior = prior
         /\ Context(prior).breaks = ResolveBreaks
         /\ Context(prior).gaps = setup.gaps
         /\ Context(prior).maxDelta = setup.maxDelta
BY DEF Context

\* A run that publishes found nothing with rules 2 and 3 in some listing of
\* the vintage.
LEMMA PublishSees ==
  ASSUME Publish
  PROVE  \E prior \in Listings :
           /\ R!Rule2Continuity(Context(prior), Incoming) = {}
           /\ R!Rule3Plausibility(Context(prior), Incoming) = {}
<1> DEFINE contexts == {Context(prior) : prior \in Listings}
           returning == {ctx \in contexts : R!Rule4Returns(ctx, Incoming)}
<1>1. "publish" \in {R!Gate(R!SixRules(ctx, Incoming)) : ctx \in returning}
  BY DEF Publish, Verdicts
<1>2. PICK ctx \in contexts : R!Gate(R!SixRules(ctx, Incoming)) = "publish"
  BY <1>1
<1>3. PICK prior \in Listings : ctx = Context(prior)
  BY <1>2
<1>4. /\ R!Rule2Continuity(ctx, Incoming) = {}
      /\ R!Rule3Plausibility(ctx, Incoming) = {}
  BY <1>2, GateOpen
<1>5. QED
  BY <1>3, <1>4

\* What a publication makes of the vintage and of the runs.
LEMMA PublishWrites ==
  ASSUME SeriesShape, Publish
  PROVE  LET W == Writable(Incoming)
         IN  /\ IsList(Incoming) /\ Len(Incoming) \in Nat \ {0}
             /\ DOMAIN Incoming = 1..Len(Incoming)
             /\ \A i \in 1..Len(Incoming) : Incoming[i].period \in ValidPeriods
             /\ Incoming[1].period.freq = setup.frequency
             /\ Len(W) \in 0..Len(Incoming) /\ DOMAIN W = 1..Len(W)
             /\ \A i \in 1..Len(W) : /\ W[i] = Incoming[i] /\ W[i].value # NoValue
                                     /\ W[i].period \in DOMAIN table'
             /\ DOMAIN table \subseteq DOMAIN table'
             /\ \A p \in DOMAIN table' : RowAfter(W, table', p)
             /\ Len(runs) \in Nat \ {0} /\ DOMAIN runs = 1..Len(runs)
             /\ \A i \in DOMAIN runs : /\ runs'[i].body = runs[i].body
                                       /\ runs'[i].setup = runs[i].setup
                                       /\ i # Len(runs) => runs'[i] = runs[i]
             /\ runs[Len(runs)].setup = setup
             /\ Decoding(runs[Len(runs)].setup, runs[Len(runs)].body).observations = Incoming
             /\ Len(W) # Len(Incoming) => runs'[Len(runs)].outcome = "pending"
<1> DEFINE W == Writable(Incoming)
           recorded == IF W = Incoming THEN "succeeded" ELSE "pending"
<1>1. /\ pc = "rules" /\ decoded.class = "none" /\ table' = Written(W)
      /\ EndRun(recorded)
  BY DEF Publish
<1>2. Legible(Incoming, setup.frequency) /\ Incoming = Decoding(setup, body).observations
  BY <1>1, RulesIncoming
<1>3. /\ IsList(Incoming) /\ Len(Incoming) \in Nat \ {0}
      /\ DOMAIN Incoming = 1..Len(Incoming)
      /\ \A i \in 1..Len(Incoming) : Incoming[i].period \in ValidPeriods
      /\ Incoming[1].period.freq = setup.frequency
  BY <1>2, ListIs DEF Legible
<1>4. /\ Len(W) \in 0..Len(Incoming) /\ DOMAIN W = 1..Len(W)
      /\ \A i \in 1..Len(W) : W[i] = Incoming[i] /\ Incoming[i].value # NoValue
  BY <1>3, WritablePrefix
<1> DEFINE n == Len(W)
<1>5. n \in Nat
  BY <1>3, <1>4
<1>6. /\ DOMAIN table' = DOMAIN table \cup PeriodsOf(W)
      /\ \A p \in DOMAIN table' : RowAfter(W, table', p)
  <2>1. n \in Nat /\ DOMAIN W = 1..n /\ table' = Written(W)
    BY <1>1, <1>4, <1>5
  <2> HIDE DEF W, n
  <2>2. QED
    BY <2>1, WrittenRows
<1>7. \A i \in 1..Len(W) : /\ W[i] = Incoming[i] /\ W[i].value # NoValue
                           /\ W[i].period \in DOMAIN table'
  <2> HIDE DEF W
  <2>1. QED
    BY <1>4, <1>6 DEF PeriodsOf
<1>8. recorded \in {"pending", "succeeded", "validation-failed"}
  OBVIOUS
<1>9. /\ Len(runs) \in Nat \ {0} /\ DOMAIN runs = 1..Len(runs)
      /\ \A i \in DOMAIN runs : /\ runs'[i].body = runs[i].body
                                /\ runs'[i].setup = runs[i].setup
                                /\ i # Len(runs) => runs'[i] = runs[i]
      /\ runs'[Len(runs)].outcome = recorded
  <2> HIDE DEF recorded
  <2>1. QED
    BY <1>1, <1>8, RunEnds
<1>10. runs[Len(runs)].setup = setup /\ runs[Len(runs)].body = body
  BY <1>1 DEF SeriesShape, CallShape
<1>11. Len(W) # Len(Incoming) => recorded = "pending"
  OBVIOUS
<1>12. DOMAIN table \subseteq DOMAIN table'
  BY <1>6
<1> HIDE DEF W, recorded, n
<1>13. Decoding(runs[Len(runs)].setup, runs[Len(runs)].body).observations = Incoming
  BY <1>2, <1>10
<1>14. Len(W) # Len(Incoming) => runs'[Len(runs)].outcome = "pending"
  BY <1>9, <1>11
<1>15. QED
  BY <1>3, <1>4, <1>6, <1>7, <1>9, <1>10, <1>12, <1>13, <1>14 DEF W

-----------------------------------------------------------------------------
(* Jumps *)

\* Jump and Contradictory, of what they look at.
Jumps(s, x, y, p, q) ==
  /\ q = R!Following(p)
  /\ s.maxDelta # NoValue
  /\ R!Abs(y - x) > s.maxDelta
  /\ q \notin {R!PeriodFromDate(date, s.frequency) : date \in s.breaks}

Contradicts(list, p) ==
  \E i, j \in DOMAIN list :
    /\ list[i].period = p /\ list[j].period = p
    /\ list[i].value # list[j].value

\* A jump depends on two values and a configuration, before and after a step.
LEMMA JumpLooksAt ==
  ASSUME NEW p, NEW q
  PROVE  /\ Jump(p, q) <=> Jumps(runs[table[q].run].setup, table[p].value, table[q].value, p, q)
         /\ Jump(p, q)' <=>
              Jumps(runs'[table'[q].run].setup, table'[p].value, table'[q].value, p, q)
BY DEF Jump, Jumps

\* So does its excuse.
LEMMA ExcusedLooksAt ==
  ASSUME NEW p, NEW q
  PROVE  /\ Excused(p, q) <=>
              \/ table[p].run > table[q].run
              \/ table[p].run = table[q].run /\ table[p].since < table[p].run
              \/ /\ table[p].run = table[q].run
                 /\ Contradicts(Decoding(runs[table[p].run].setup,
                                         runs[table[p].run].body).observations, p)
         /\ Excused(p, q)' <=>
              \/ table'[p].run > table'[q].run
              \/ table'[p].run = table'[q].run /\ table'[p].since < table'[p].run
              \/ /\ table'[p].run = table'[q].run
                 /\ Contradicts(Decoding(runs'[table'[p].run].setup,
                                         runs'[table'[p].run].body).observations, p)
BY DEF Excused, Contradictory, Contradicts, Listed

\* Two rows that a step leaves alone, with their runs, jump as before.
LEMMA SameJump ==
  ASSUME NEW p, NEW q, table'[p] = table[p], table'[q] = table[q],
         runs'[table[p].run].setup = runs[table[p].run].setup,
         runs'[table[p].run].body = runs[table[p].run].body,
         runs'[table[q].run].setup = runs[table[q].run].setup,
         Jump(p, q) => Excused(p, q), Jump(p, q)'
  PROVE  Excused(p, q)'
<1>1. Jump(p, q)
  BY JumpLooksAt
<1>2. Excused(p, q)
  BY <1>1
<1>3. QED
  BY <1>2, ExcusedLooksAt

\* The rows before a publication are of earlier runs.
LEMMA EarlierRuns ==
  ASSUME SeriesShape, Publish, NEW p \in DOMAIN table
  PROVE  /\ table[p].run \in DOMAIN runs /\ table[p].run < Len(runs)
         /\ table[p].since \in 1..table[p].run /\ table[p].since < Len(runs)
<1>1. pc = "rules"
  BY DEF Publish
<1>2. /\ table[p].run \in DOMAIN runs /\ table[p].since \in 1..table[p].run
      /\ table[p].run # Len(runs)
  BY <1>1 DEF SeriesShape, TableShape
<1>3. Len(runs) \in Nat \ {0} /\ DOMAIN runs = 1..Len(runs)
  BY PublishWrites
<1>4. table[p].run \in 1..Len(runs)
  BY <1>2, <1>3
<1>5. table[p].run < Len(runs) /\ table[p].run \in Int
  BY <1>2, <1>3, <1>4
<1>6. table[p].since < Len(runs)
  BY <1>2, <1>3, <1>5
<1>7. QED
  BY <1>2, <1>5, <1>6

\* A break of the configuration at the place of q is at q.
LEMMA NoBreakAt ==
  ASSUME NEW q \in ValidPeriods, q.freq = setup.frequency,
         q \notin {R!PeriodFromDate(date, setup.frequency) : date \in setup.breaks}
  PROVE  ~\E b \in ResolveBreaks : R!Same(b, q)
<1>1. SUFFICES ASSUME NEW date \in setup.breaks,
                      R!Same(R!PeriodFromDate(date, setup.frequency), q)
               PROVE  FALSE
  BY DEF ResolveBreaks
<1> DEFINE b == R!PeriodFromDate(date, setup.frequency)
<1>2. /\ b = [freq |-> setup.frequency, year |-> b.year, ordinal |-> b.ordinal]
      /\ b.freq = setup.frequency
  BY DEF R!PeriodFromDate, R!Period
<1>3. R!Same(q, b)
  BY <1>1 DEF R!Same
<1>4. b = q
  <2> HIDE DEF b
  <2>1. QED
    BY <1>2, <1>3, AtItsPlace
<1>5. QED
  BY <1>4

\* From what rule 3 measures q, which follows p.
Measured(prior, w, p, q) ==
  /\ p \in DOMAIN table /\ table[p].value # NoValue =>
       R!PreviousValue(prior \o Incoming, q) = table[p].value
  /\ \A h \in 1..w :
       /\ p \notin DOMAIN table
       /\ Incoming[h].period = p
       /\ Incoming[h].value # NoValue
       => \E j \in 1..w : /\ Incoming[j].period = p
                          /\ Incoming[j].value # NoValue
                          /\ R!PreviousValue(prior \o Incoming, q) = Incoming[j].value

\* It is what a row of p says, or the first thing the payload says of p.
LEMMA MeasuredFrom ==
  ASSUME NEW prior, IsListing(prior, Len(prior)), IsList(Incoming),
         DOMAIN Incoming = 1..Len(Incoming),
         NEW w \in 0..Len(Incoming),
         \A i \in 1..w : Incoming[i].period \in DOMAIN table',
         DOMAIN table \subseteq DOMAIN table', DOMAIN table' \subseteq ValidPeriods,
         Uniform(DOMAIN table'),
         NEW p \in DOMAIN table', NEW q, q = R!Following(p)
  PROVE  Measured(prior, w, p, q)
<1> DEFINE m == Len(prior)
           l == Len(Incoming)
           all == prior \o Incoming
<1>1. /\ m \in Nat /\ IsList(prior) /\ l \in Nat
      /\ \A i \in 1..m : /\ prior[i].period \in DOMAIN table
                         /\ prior[i].value = table[prior[i].period].value
      /\ \A x \in DOMAIN table : \E i \in 1..m : prior[i].period = x
  BY ListIs DEF IsListing
<1>2. /\ DOMAIN all = 1..(m + l)
      /\ \A i \in 1..m : all[i] = prior[i]
      /\ \A i \in 1..l : all[m + i] = Incoming[i]
  BY <1>1, ConcatIs
<1>3. ASSUME NEW x \in DOMAIN table'
      PROVE  R!Same(x, R!Preceding(q)) <=> x = p
  <2>1. p \in ValidPeriods /\ x \in ValidPeriods /\ x.freq = p.freq
    BY DEF Uniform
  <2>2. R!Same(R!Preceding(q), p)
    BY <2>1, PrecedingFollowing
  <2>3. R!Same(x, R!Preceding(q)) => R!Same(x, p)
    BY <2>2 DEF R!Same
  <2>4. R!Same(x, p) => x = p
    BY <2>1, SameIsEqual
  <2>5. R!Same(p, R!Preceding(q))
    BY <2>2 DEF R!Same
  <2>6. QED
    BY <2>3, <2>4, <2>5
<1> HIDE DEF all, m, l
<1>4. ASSUME p \in DOMAIN table, table[p].value # NoValue
      PROVE  R!PreviousValue(all, q) = table[p].value
  <2>1. PICK k \in 1..m : prior[k].period = p
    BY <1>1, <1>4
  <2>2. k \in 1..(m + l) /\ m + l \in Nat
    BY <1>1
  <2>3. all[k].period = p /\ all[k].value = table[p].value
    BY <1>1, <1>2, <2>1
  <2>4. R!Same(all[k].period, R!Preceding(q)) /\ all[k].value # NoValue
    BY <1>3, <1>4, <2>3
  <2>5. PICK i \in 1..k : /\ R!Same(all[i].period, R!Preceding(q))
                          /\ all[i].value # NoValue
                          /\ R!PreviousValue(all, q) = all[i].value
    BY <1>2, <2>2, <2>4, PreviousAt
  <2>6. i \in 1..m
    BY <1>1, <2>1, <2>5
  <2>7. all[i] = prior[i] /\ prior[i].period \in DOMAIN table'
    BY <1>1, <1>2, <2>6
  <2>8. prior[i].period = p
    BY <1>3, <2>5, <2>7
  <2>9. QED
    BY <1>1, <2>5, <2>6, <2>7, <2>8
<1>5. ASSUME NEW h \in 1..w, p \notin DOMAIN table, Incoming[h].period = p,
             Incoming[h].value # NoValue
      PROVE  \E j \in 1..w : /\ Incoming[j].period = p
                             /\ Incoming[j].value # NoValue
                             /\ R!PreviousValue(all, q) = Incoming[j].value
  <2>1. h \in 1..l /\ m + h \in 1..(m + l) /\ m + l \in Nat /\ w \in Nat /\ w <= l
    BY <1>1 DEF l
  <2>2. all[m + h] = Incoming[h]
    BY <1>2, <2>1
  <2>3. R!Same(all[m + h].period, R!Preceding(q)) /\ all[m + h].value # NoValue
    BY <1>3, <1>5, <2>2
  <2> DEFINE k == m + h
  <2>4. PICK i \in 1..k : /\ R!Same(all[i].period, R!Preceding(q))
                          /\ all[i].value # NoValue
                          /\ R!PreviousValue(all, q) = all[i].value
    <3> HIDE DEF k
    <3>1. k \in 1..(m + l) /\ R!Same(all[k].period, R!Preceding(q)) /\ all[k].value # NoValue
      BY <2>1, <2>3 DEF k
    <3>2. QED
      BY <1>2, <2>1, <3>1, PreviousAt
  <2>5. ~(i \in 1..m)
    <3>1. SUFFICES ASSUME i \in 1..m PROVE FALSE
      OBVIOUS
    <3>2. all[i] = prior[i] /\ prior[i].period \in DOMAIN table
      BY <1>1, <1>2, <3>1
    <3>3. prior[i].period = p
      BY <1>3, <2>4, <3>2
    <3>4. QED
      BY <1>5, <3>2, <3>3
  <2> DEFINE j == i - m
  <2>6. j \in 1..w /\ j \in 1..l /\ m + j = i
    BY <1>1, <2>1, <2>4, <2>5
  <2> HIDE DEF j
  <2>7. all[i] = Incoming[j]
    BY <1>2, <2>6
  <2>8. Incoming[j].period = p
    BY <1>3, <2>4, <2>6, <2>7
  <2>9. QED
    BY <2>4, <2>6, <2>7, <2>8
<1>6. QED
  BY <1>4, <1>5 DEF all, Measured

\* A period of a uniform vintage that a run adds or changes has the frequency
\* of the configuration.
LEMMA WrittenFrequency ==
  ASSUME SeriesShape, Publish, Uniform(DOMAIN table'),
         NEW q \in DOMAIN table', ~Kept(Writable(Incoming), q)
  PROVE  q.freq = setup.frequency
<1> DEFINE W == Writable(Incoming)
<1>1. /\ Incoming[1].period.freq = setup.frequency
      /\ Len(Incoming) \in Nat \ {0}
      /\ Len(W) \in 0..Len(Incoming) /\ DOMAIN W = 1..Len(W)
      /\ \A i \in 1..Len(W) : W[i] = Incoming[i] /\ W[i].period \in DOMAIN table'
      /\ RowAfter(W, table', q)
  BY PublishWrites
<1> HIDE DEF W
<1>2. PICK h \in Places(W, q) : TRUE
  BY <1>1 DEF RowAfter, W
<1>3. h \in 1..Len(W)
  BY <1>1, <1>2 DEF Places
<1>4. 1 \in 1..Len(W)
  BY <1>1, <1>3
<1>5. W[1] = Incoming[1] /\ W[1].period \in DOMAIN table'
  BY <1>1, <1>4
<1>6. QED
  BY <1>1, <1>5 DEF Uniform

\* A publication adds no jump without an excuse.
LEMMA PublishKeepsJumps ==
  ASSUME SeriesShape, JumpsHold, Publish
  PROVE  JumpsHold'
<1> DEFINE W == Writable(Incoming)
           w == Len(W)
<1>0. SUFFICES ASSUME Uniform(DOMAIN table'),
                      NEW p \in DOMAIN table', NEW q \in DOMAIN table', Jump(p, q)'
               PROVE  Excused(p, q)'
  BY DEF JumpsHold, Uniform
<1>1. /\ IsList(Incoming) /\ DOMAIN Incoming = 1..Len(Incoming)
      /\ w \in 0..Len(Incoming) /\ DOMAIN W = 1..w
      /\ \A i \in 1..w : /\ W[i] = Incoming[i] /\ W[i].value # NoValue
                         /\ W[i].period \in DOMAIN table'
      /\ DOMAIN table \subseteq DOMAIN table'
      /\ RowAfter(W, table', p) /\ RowAfter(W, table', q)
  BY PublishWrites
<1>2. /\ Len(runs) \in Nat \ {0} /\ DOMAIN runs = 1..Len(runs)
      /\ \A i \in DOMAIN runs : /\ runs'[i].body = runs[i].body
                                /\ runs'[i].setup = runs[i].setup
      /\ runs'[Len(runs)].setup = setup
      /\ Decoding(runs'[Len(runs)].setup, runs'[Len(runs)].body).observations = Incoming
  <2>1. Len(runs) \in Nat \ {0} /\ DOMAIN runs = 1..Len(runs)
    BY PublishWrites
  <2>2. /\ \A i \in DOMAIN runs : /\ runs'[i].body = runs[i].body
                                  /\ runs'[i].setup = runs[i].setup
        /\ runs[Len(runs)].setup = setup
        /\ Decoding(runs[Len(runs)].setup, runs[Len(runs)].body).observations = Incoming
    BY PublishWrites
  <2>3. Len(runs) \in DOMAIN runs
    BY <2>1
  <2>4. /\ runs'[Len(runs)].body = runs[Len(runs)].body
        /\ runs'[Len(runs)].setup = runs[Len(runs)].setup
    BY <2>2, <2>3
  <2>5. QED
    BY <2>1, <2>2, <2>4
<1>3. DOMAIN table' \subseteq ValidPeriods
  BY PublishKeeps DEF SeriesShape, TableShape
<1>4. /\ q = R!Following(p)
      /\ Jumps(runs'[table'[q].run].setup, table'[p].value, table'[q].value, p, q)
  BY <1>0, JumpLooksAt DEF Jumps
<1>5. PICK prior \in Listings : R!Rule3Plausibility(Context(prior), Incoming) = {}
  BY PublishSees
<1>6. IsListing(prior, Len(prior))
  BY ListingsList DEF SeriesShape, TableShape
<1>7. ASSUME NEW x \in DOMAIN table' PROVE
        /\ Kept(W, x) => x \in DOMAIN table /\ table[x].run \in DOMAIN runs
                           /\ table[x].run < Len(runs) /\ table[x].value # NoValue
        /\ x \in DOMAIN table => table[x].since < Len(runs)
  BY EarlierRuns DEF Kept, SeriesShape, TableShape
<1> HIDE DEF w, W
<1>8. CASE Kept(W, q) /\ Kept(W, p)
  <2>1. /\ p \in DOMAIN table /\ q \in DOMAIN table
        /\ table'[p] = table[p] /\ table'[q] = table[q]
    BY <1>1, <1>7, <1>8 DEF RowAfter
  <2>2. Uniform(DOMAIN table)
    BY <1>0, <1>1 DEF Uniform
  <2>3. Jump(p, q) => Excused(p, q)
    BY <2>1, <2>2 DEF JumpsHold
  <2>4. QED
    BY <1>0, <1>2, <1>7, <1>8, <2>1, <2>3, SameJump
<1>9. CASE Kept(W, q) /\ ~Kept(W, p)
  <2>1. table'[q].run = table[q].run /\ table'[p].run = Len(runs)
    BY <1>1, <1>9 DEF RowAfter
  <2>2. table'[p].run > table'[q].run
    <3>1. table[q].run < Len(runs) /\ table[q].run \in 1..Len(runs)
      BY <1>2, <1>7, <1>9
    <3>2. QED
      BY <1>2, <2>1, <3>1
  <2>3. QED
    BY <2>2, ExcusedLooksAt
<1>10. CASE ~Kept(W, q)
  <2>1. PICK g \in 1..w : /\ W[g].period = q /\ W[g].value = table'[q].value
                          /\ table'[q].run = Len(runs)
    BY <1>1, <1>10 DEF RowAfter, Places
  <2>2. g \in DOMAIN Incoming /\ Incoming[g].period = q
        /\ Incoming[g].value = table'[q].value /\ Incoming[g].value # NoValue
    <3>1. W[g] = Incoming[g] /\ W[g].value # NoValue
      BY <1>1, <2>1
    <3>2. g \in 1..Len(Incoming)
      BY <1>1
    <3>3. QED
      BY <1>1, <2>1, <3>1, <3>2
  <2>3. q.freq = setup.frequency
    BY <1>0, <1>10, WrittenFrequency DEF W
  <2>4. /\ setup.maxDelta # NoValue
        /\ R!Abs(table'[q].value - table'[p].value) > setup.maxDelta
        /\ q \notin {R!PeriodFromDate(date, setup.frequency) : date \in setup.breaks}
    BY <1>2, <1>4, <2>1 DEF Jumps
  <2>5. ~\E b \in ResolveBreaks : R!Same(b, q)
    BY <1>3, <2>3, <2>4, NoBreakAt
  <2>6. R!PreviousValue(prior \o Incoming, q) # NoValue
          => R!PreviousValue(prior \o Incoming, q) # table'[p].value
    <3>1. SUFFICES ASSUME R!PreviousValue(prior \o Incoming, q) # NoValue,
                          R!PreviousValue(prior \o Incoming, q) = table'[p].value
                   PROVE  FALSE
      OBVIOUS
    <3>2. /\ Context(prior).maxDelta # NoValue
          /\ ~\E b \in Context(prior).breaks : R!Same(b, Incoming[g].period)
          /\ R!PreviousValue(Context(prior).prior \o Incoming, Incoming[g].period) # NoValue
      BY <2>2, <2>4, <2>5, <3>1, ContextIs
    <3>3. ~(R!Abs(Incoming[g].value
                   - R!PreviousValue(Context(prior).prior \o Incoming, Incoming[g].period))
             > Context(prior).maxDelta)
      BY <1>5, <2>2, <3>2, Rule3Sees
    <3>4. QED
      BY <2>2, <2>4, <3>1, <3>3, ContextIs
  <2>7. Measured(prior, w, p, q)
    <3>1. IsList(Incoming) /\ DOMAIN Incoming = 1..Len(Incoming) /\ w \in 0..Len(Incoming)
      BY <1>1
    <3>2. \A i \in 1..w : Incoming[i].period \in DOMAIN table'
      BY <1>1
    <3>3. DOMAIN table \subseteq DOMAIN table' /\ DOMAIN table' \subseteq ValidPeriods
      BY <1>1, <1>3
    <3>4. q = R!Following(p) /\ IsListing(prior, Len(prior)) /\ Uniform(DOMAIN table')
      BY <1>0, <1>4, <1>6
    <3>5. QED
      BY <3>1, <3>2, <3>3, <3>4, MeasuredFrom
  <2>8. CASE Kept(W, p)
    <3>1. p \in DOMAIN table /\ table[p].value # NoValue /\ table'[p] = table[p]
      BY <1>1, <1>7, <2>8 DEF RowAfter
    <3>2. R!PreviousValue(prior \o Incoming, q) = table[p].value
      BY <2>7, <3>1 DEF Measured
    <3>3. QED
      BY <2>6, <3>1, <3>2
  <2>9. CASE ~Kept(W, p) /\ p \in DOMAIN table
    <3>1. table'[p].run = Len(runs) /\ table'[p].since = table[p].since
      BY <1>1, <2>9 DEF RowAfter
    <3>2. table'[p].run = table'[q].run /\ table'[p].since < table'[p].run
      BY <1>7, <2>1, <2>9, <3>1
    <3>3. QED
      BY <3>2, ExcusedLooksAt
  <2>10. CASE ~Kept(W, p) /\ p \notin DOMAIN table
    <3>1. PICK h \in 1..w : /\ W[h].period = p /\ W[h].value = table'[p].value
                            /\ table'[p].run = Len(runs)
      BY <1>1, <2>10 DEF RowAfter, Places
    <3>2. /\ Incoming[h].period = p /\ Incoming[h].value = table'[p].value
          /\ Incoming[h].value # NoValue
      BY <1>1, <3>1
    <3>3. PICK j \in 1..w : /\ Incoming[j].period = p
                            /\ Incoming[j].value # NoValue
                            /\ R!PreviousValue(prior \o Incoming, q) = Incoming[j].value
      BY <2>7, <2>10, <3>2 DEF Measured
    <3>4. Incoming[j].value # Incoming[h].value
      BY <2>6, <3>2, <3>3
    <3>5. j \in DOMAIN Incoming /\ h \in DOMAIN Incoming
      BY <1>1
    <3>6. Contradicts(Incoming, p)
      BY <3>2, <3>3, <3>4, <3>5 DEF Contradicts
    <3>7. table'[p].run = table'[q].run
      BY <2>1, <3>1
    <3>8. Contradicts(Decoding(runs'[table'[p].run].setup,
                               runs'[table'[p].run].body).observations, p)
      BY <1>2, <3>1, <3>6
    <3>9. QED
      BY <3>7, <3>8, ExcusedLooksAt
  <2>11. QED
    BY <2>8, <2>9, <2>10
<1>11. QED
  BY <1>8, <1>9, <1>10

-----------------------------------------------------------------------------
(* Holes *)

\* The excuse of a hole, of what it looks at.
HoleExcused(run, list, hole) ==
  \/ hole \in run.setup.gaps
  \/ run.outcome = "pending" /\ R!HasPeriod(list, hole)

\* What holes depend on, before and after a step.
LEMMA HolesLookAt ==
  /\ HolesHold <=>
       (Uniform(DOMAIN table) =>
         \A q \in DOMAIN table : \A p \in Newest(q) : \A hole \in R!WalkFrom(p) :
           R!Before(hole, q) /\ hole \notin DOMAIN table =>
             HoleExcused(runs[table[q].since],
                         Decoding(runs[table[q].since].setup,
                                  runs[table[q].since].body).observations, hole))
  /\ HolesHold' <=>
       (Uniform(DOMAIN table') =>
         \A q \in DOMAIN table' : \A p \in Newest(q)' : \A hole \in R!WalkFrom(p) :
           R!Before(hole, q) /\ hole \notin DOMAIN table' =>
             HoleExcused(runs'[table'[q].since],
                         Decoding(runs'[table'[q].since].setup,
                                  runs'[table'[q].since].body).observations, hole))
BY DEF HolesHold, HoleExcused, Listed

\* The newest of the periods a run found, before and after a step.
LEMMA NewestLooksAt ==
  ASSUME NEW q, NEW p
  PROVE  /\ p \in Newest(q) <=>
              /\ p \in DOMAIN table /\ table[p].since < table[q].since
              /\ \A o \in DOMAIN table : table[o].since < table[q].since => ~R!Before(p, o)
         /\ p \in Newest(q)' <=>
              /\ p \in DOMAIN table' /\ table'[p].since < table'[q].since
              /\ \A o \in DOMAIN table' : table'[o].since < table'[q].since => ~R!Before(p, o)
BY DEF Newest

\* A period is as old as the run that added it.
LEMMA SinceStays ==
  ASSUME SeriesShape, Publish, NEW x \in DOMAIN table'
  PROVE  /\ x \in DOMAIN table =>
              table'[x].since = table[x].since /\ table[x].since < Len(runs)
         /\ x \notin DOMAIN table => table'[x].since = Len(runs)
<1>1. RowAfter(Writable(Incoming), table', x)
  BY PublishWrites
<1>2. QED
  BY <1>1, EarlierRuns DEF RowAfter, Kept

\* The latest period of a listing is the one that none of the vintage is after.
LEMMA LatestPublished ==
  ASSUME NEW prior, IsListing(prior, Len(prior)), Uniform(DOMAIN table),
         DOMAIN table \subseteq ValidPeriods,
         NEW p \in DOMAIN table, \A o \in DOMAIN table : ~R!Before(p, o)
  PROVE  prior # <<>> /\ R!LatestPeriod(prior) = p
<1> DEFINE m == Len(prior)
<1>1. /\ m \in Nat /\ DOMAIN prior = 1..m
      /\ \A i \in 1..m : prior[i].period \in DOMAIN table
  BY ListIs DEF IsListing
<1>2. PICK k \in 1..m : prior[k].period = p
  BY DEF IsListing
<1>3. prior # <<>> /\ m \in Nat \ {0}
  BY <1>1, <1>2
<1> HIDE DEF m
<1>4. PICK i \in 1..m : /\ R!LatestPeriod(prior) = prior[i].period
                        /\ \A j \in 1..m : ~R!Before(prior[i].period, prior[j].period)
  <2>1. \A j \in 1..m : prior[j].period \in ValidPeriods
    BY <1>1
  <2>2. QED
    BY <1>1, <1>3, <2>1, LatestOf
<1> DEFINE latest == prior[i].period
<1>5. latest \in DOMAIN table /\ ~R!Before(latest, p) /\ ~R!Before(p, latest)
  BY <1>1, <1>2, <1>4
<1> HIDE DEF latest
<1>6. R!Same(latest, p)
  BY <1>5, BeforeOrders, ValidIsPlace
<1>7. latest = p
  BY <1>5, <1>6, SameIsEqual DEF Uniform
<1>8. QED
  BY <1>3, <1>4, <1>7 DEF latest

\* What rule 2 found nothing in skips no period that nobody documented.
LEMMA Rule2Sees ==
  ASSUME NEW ctx, NEW incoming, R!Rule2Continuity(ctx, incoming) = {},
         ctx.prior # <<>>, incoming # <<>>,
         NEW hole \in R!WalkFrom(R!Following(R!LatestPeriod(ctx.prior)))
  PROVE  \/ R!Before(R!LatestPeriod(incoming), hole)
         \/ R!HasPeriod(ctx.prior \o incoming, hole)
         \/ hole \in ctx.gaps
<1>1. \A x \in R!Skipped(ctx.prior, incoming, ctx.gaps) : FALSE
  BY DEF R!Rule2Continuity
<1>2. QED
  BY <1>1 DEF R!Skipped

\* A walk from a published period goes, after its first step, the way of the
\* rule's cursor.
LEMMA WalksOn ==
  ASSUME NEW p \in ValidPeriods, NEW hole \in R!WalkFrom(p), hole # p
  PROVE  /\ hole \in R!WalkFrom(R!Following(p))
         /\ IsPlace(hole) /\ hole.freq = p.freq
         /\ hole = [freq |-> hole.freq, year |-> hole.year, ordinal |-> hole.ordinal]
<1>1. PICK n \in 0..MaxWalk : hole = R!Ahead(p, n)
  BY DEF R!WalkFrom
<1>2. MaxWalk \in Nat /\ n \in Nat
  BY BoundsAssumption
<1>3. n # 0
  BY <1>1, AheadOfItself
<1>4. n - 1 \in Nat /\ n - 1 + 1 = n /\ n - 1 \in 0..MaxWalk
  BY <1>2, <1>3
<1>5. R!Ahead(R!Following(p), n - 1) = R!Ahead(p, n - 1 + 1)
  BY <1>4, AheadFollowing
<1>6. hole = R!Ahead(R!Following(p), n - 1)
  BY <1>1, <1>4, <1>5
<1>7. hole \in R!WalkFrom(R!Following(p))
  BY <1>4, <1>6 DEF R!WalkFrom
<1>8. /\ IsPlace(hole) /\ hole.freq = p.freq
      /\ hole = [freq |-> p.freq, year |-> hole.year, ordinal |-> hole.ordinal]
  BY <1>1, <1>2, AheadIsPlace
<1>9. QED
  BY <1>7, <1>8

\* A period between the vintage a run found and one it adds is added too, or
\* documented, or the run did not get that far.
LEMMA AddedHole ==
  ASSUME SeriesShape, Publish, Uniform(DOMAIN table'),
         NEW q \in DOMAIN table', q \notin DOMAIN table,
         NEW p \in DOMAIN table, \A o \in DOMAIN table : ~R!Before(p, o),
         NEW hole \in R!WalkFrom(p), R!Before(hole, q), hole \notin DOMAIN table'
  PROVE  \/ hole \in setup.gaps
         \/ runs'[Len(runs)].outcome = "pending" /\ R!HasPeriod(Incoming, hole)
<1> DEFINE W == Writable(Incoming)
           w == Len(W)
           l == Len(Incoming)
<1>1. /\ IsList(Incoming) /\ l \in Nat \ {0} /\ DOMAIN Incoming = 1..l
      /\ \A i \in 1..l : Incoming[i].period \in ValidPeriods
      /\ w \in 0..l /\ DOMAIN W = 1..w
      /\ \A i \in 1..w : W[i] = Incoming[i] /\ Incoming[i].period \in DOMAIN table'
      /\ DOMAIN table \subseteq DOMAIN table' /\ RowAfter(W, table', q)
      /\ w # l => runs'[Len(runs)].outcome = "pending"
  BY PublishWrites
<1>2. DOMAIN table' \subseteq ValidPeriods
  BY PublishKeeps DEF SeriesShape, TableShape
<1>3. PICK prior \in Listings : R!Rule2Continuity(Context(prior), Incoming) = {}
  BY PublishSees
<1>4. IsListing(prior, Len(prior))
  BY ListingsList DEF SeriesShape, TableShape
<1>5. prior # <<>> /\ R!LatestPeriod(prior) = p
  <2>1. Uniform(DOMAIN table) /\ DOMAIN table \subseteq ValidPeriods
    BY <1>1, <1>2 DEF Uniform
  <2>2. QED
    BY <1>4, <2>1, LatestPublished
<1>6. Incoming # <<>> /\ IsList(Incoming)
  <2>1. Len(Incoming) # 0 /\ IsList(Incoming)
    BY <1>1
  <2>2. QED
    BY <2>1
<1>7. p \in DOMAIN table' /\ p \in ValidPeriods /\ hole # p
  BY <1>1, <1>2
<1>8. /\ hole \in R!WalkFrom(R!Following(p)) /\ IsPlace(hole) /\ hole.freq = p.freq
      /\ hole = [freq |-> hole.freq, year |-> hole.year, ordinal |-> hole.ordinal]
  BY <1>7, WalksOn
<1>9. \/ R!Before(R!LatestPeriod(Incoming), hole)
      \/ R!HasPeriod(prior \o Incoming, hole)
      \/ hole \in setup.gaps
  <2>1. /\ Context(prior).prior # <<>>
        /\ hole \in R!WalkFrom(R!Following(R!LatestPeriod(Context(prior).prior)))
    BY <1>5, <1>8, ContextIs
  <2>2. \/ R!Before(R!LatestPeriod(Incoming), hole)
        \/ R!HasPeriod(Context(prior).prior \o Incoming, hole)
        \/ hole \in Context(prior).gaps
    BY <1>3, <1>6, <2>1, Rule2Sees
  <2>3. QED
    BY <2>2, ContextIs
<1> HIDE DEF W, w, l
<1>10. ~R!Before(R!LatestPeriod(Incoming), hole)
  <2>1. PICK g \in 1..w : W[g].period = q
    BY <1>1 DEF RowAfter, Kept, Places
  <2>2. g \in 1..l /\ Incoming[g].period = q
    BY <1>1, <2>1
  <2>3. PICK k \in 1..l : /\ R!LatestPeriod(Incoming) = Incoming[k].period
                          /\ \A j \in 1..l : ~R!Before(Incoming[k].period, Incoming[j].period)
    BY <1>1, LatestOf
  <2>4. ~R!Before(R!LatestPeriod(Incoming), q)
    BY <2>2, <2>3
  <2>5. IsPlace(R!LatestPeriod(Incoming)) /\ IsPlace(q)
    BY <1>1, <1>2, <2>3, ValidIsPlace
  <2>6. QED
    BY <1>8, <2>4, <2>5, BeforeOrders
<1>11. ASSUME NEW x \in DOMAIN table' PROVE ~R!Same(x, hole)
  <2>1. x \in ValidPeriods /\ x.freq = hole.freq
    BY <1>2, <1>7, <1>8 DEF Uniform
  <2>2. R!Same(x, hole) => x = hole
    BY <1>8, <2>1, AtItsPlace
  <2>3. QED
    BY <2>2
<1>12. ASSUME R!HasPeriod(prior \o Incoming, hole)
       PROVE  runs'[Len(runs)].outcome = "pending" /\ R!HasPeriod(Incoming, hole)
  <2> DEFINE m == Len(prior)
             all == prior \o Incoming
  <2>1. /\ m \in Nat /\ IsList(prior)
        /\ \A i \in 1..m : prior[i].period \in DOMAIN table'
    BY <1>1, <1>4 DEF IsListing
  <2>2. /\ DOMAIN all = 1..(m + l)
        /\ \A i \in 1..m : all[i] = prior[i]
        /\ \A i \in 1..l : all[m + i] = Incoming[i]
    <3>1. IsList(prior)
      BY <2>1
    <3>2. /\ DOMAIN (prior \o Incoming) = 1..(Len(prior) + Len(Incoming))
          /\ \A i \in 1..Len(prior) : (prior \o Incoming)[i] = prior[i]
          /\ \A i \in 1..Len(Incoming) : (prior \o Incoming)[Len(prior) + i] = Incoming[i]
      BY <1>6, <3>1, ConcatIs
    <3>3. QED
      BY <3>2 DEF l
  <2>3. PICK i \in DOMAIN all : R!Same(all[i].period, hole)
    BY <1>12 DEF R!HasPeriod
  <2> HIDE DEF m, all
  <2>4. ~(i \in 1..m)
    BY <1>11, <2>1, <2>2, <2>3
  <2> DEFINE j == i - m
  <2>5. j \in 1..l /\ m + j = i
    <3>1. i \in 1..(m + l)
      BY <2>2, <2>3
    <3>2. QED
      BY <1>1, <2>1, <2>4, <3>1
  <2> HIDE DEF j
  <2>6. R!Same(Incoming[j].period, hole)
    BY <2>2, <2>3, <2>5
  <2>7. ~(j \in 1..w)
    BY <1>1, <1>11, <2>6
  <2>8. w # l
    BY <2>5, <2>7
  <2>9. j \in DOMAIN Incoming
    BY <1>1, <2>5
  <2>10. QED
    BY <1>1, <2>6, <2>8, <2>9 DEF R!HasPeriod
<1>13. QED
  BY <1>9, <1>10, <1>12

\* A publication leaves no hole without an excuse.
LEMMA PublishKeepsHoles ==
  ASSUME SeriesShape, HolesHold, Publish
  PROVE  HolesHold'
<1>1. /\ DOMAIN table \subseteq DOMAIN table'
      /\ Len(runs) \in Nat \ {0} /\ DOMAIN runs = 1..Len(runs)
      /\ \A i \in DOMAIN runs : /\ runs'[i].body = runs[i].body
                                /\ runs'[i].setup = runs[i].setup
                                /\ i # Len(runs) => runs'[i] = runs[i]
      /\ runs[Len(runs)].setup = setup
      /\ Decoding(runs[Len(runs)].setup, runs[Len(runs)].body).observations = Incoming
  BY PublishWrites
<1>2. SUFFICES
        ASSUME Uniform(DOMAIN table'),
               NEW q \in DOMAIN table', NEW p, p \in Newest(q)', NEW hole \in R!WalkFrom(p),
               R!Before(hole, q), hole \notin DOMAIN table'
        PROVE  HoleExcused(runs'[table'[q].since],
                           Decoding(runs'[table'[q].since].setup,
                                    runs'[table'[q].since].body).observations, hole)
  BY HolesLookAt
<1>3. /\ p \in DOMAIN table' /\ table'[p].since < table'[q].since
      /\ \A o \in DOMAIN table' : table'[o].since < table'[q].since => ~R!Before(p, o)
  BY <1>2, NewestLooksAt
<1>4. Uniform(DOMAIN table)
  BY <1>1, <1>2 DEF Uniform
<1>5. CASE q \in DOMAIN table
  <2>1. /\ table'[q].since = table[q].since /\ table[q].since < Len(runs)
        /\ table[q].since \in DOMAIN runs
    <3>1. table'[q].since = table[q].since /\ table[q].since < Len(runs)
      BY <1>2, <1>5, SinceStays
    <3>2. table[q].run \in 1..Len(runs) /\ table[q].since \in 1..table[q].run
      BY <1>1, <1>5 DEF SeriesShape, TableShape
    <3>3. table[q].since \in 1..Len(runs)
      BY <1>1, <3>2
    <3>4. QED
      BY <1>1, <3>1, <3>3
  <2>2. p \in DOMAIN table
    <3>1. SUFFICES ASSUME p \notin DOMAIN table PROVE FALSE
      OBVIOUS
    <3>2. table'[p].since = Len(runs)
      BY <1>3, <3>1, SinceStays
    <3>3. table[q].since \in 1..Len(runs)
      BY <1>1, <2>1
    <3>4. QED
      BY <1>1, <1>3, <2>1, <3>2, <3>3
  <2>3. \A o \in DOMAIN table : table'[o].since = table[o].since
    BY <1>1, SinceStays
  <2>4. p \in Newest(q)
    BY <1>1, <1>3, <1>5, <2>2, <2>3, NewestLooksAt
  <2>5. HoleExcused(runs[table[q].since],
                    Decoding(runs[table[q].since].setup,
                             runs[table[q].since].body).observations, hole)
    BY <1>1, <1>2, <1>4, <1>5, <2>4, HolesLookAt
  <2>6. runs'[table[q].since] = runs[table[q].since]
    <3>1. table[q].since # Len(runs)
      BY <1>1, <2>1
    <3>2. QED
      BY <1>1, <2>1, <3>1
  <2>7. QED
    BY <2>1, <2>5, <2>6
<1>6. CASE q \notin DOMAIN table
  <2>1. table'[q].since = Len(runs)
    BY <1>2, <1>6, SinceStays
  <2>2. p \in DOMAIN table
    <3>1. SUFFICES ASSUME p \notin DOMAIN table PROVE FALSE
      OBVIOUS
    <3>2. table'[p].since = Len(runs)
      BY <1>3, <3>1, SinceStays
    <3>3. QED
      BY <1>1, <1>3, <2>1, <3>2
  <2>3. \A o \in DOMAIN table : ~R!Before(p, o)
    <3> TAKE o \in DOMAIN table
    <3>1. table'[o].since < Len(runs) /\ o \in DOMAIN table'
      BY <1>1, SinceStays
    <3>2. QED
      BY <1>3, <2>1, <3>1
  <2>4. \/ hole \in setup.gaps
        \/ runs'[Len(runs)].outcome = "pending" /\ R!HasPeriod(Incoming, hole)
    BY <1>2, <1>6, <2>2, <2>3, AddedHole
  <2>5. Len(runs) \in DOMAIN runs
    BY <1>1
  <2>6. /\ runs'[Len(runs)].setup = setup
        /\ Decoding(runs'[Len(runs)].setup, runs'[Len(runs)].body).observations = Incoming
    BY <1>1, <2>5
  <2>7. QED
    BY <2>1, <2>4, <2>6 DEF HoleExcused
<1>7. QED
  BY <1>5, <1>6

-----------------------------------------------------------------------------
(* Every run keeps what the rules have seen *)

\* No step but a publication changes the vintage, or the runs of its rows.
LEMMA RowsStay ==
  ASSUME SeriesShape, [Next]_vars, ~Publish
  PROVE  /\ table' = table
         /\ \A p \in DOMAIN table :
              /\ runs'[table[p].run] = runs[table[p].run]
              /\ runs'[table[p].since] = runs[table[p].since]
<1>0. FetchShape /\ LogShape /\ CallShape /\ TableShape
  BY DEF SeriesShape
<1>1. /\ runs \in Seq(Runs) /\ DOMAIN runs = 1..Len(runs) /\ Len(runs) \in Nat
      /\ \A p \in DOMAIN table : /\ table[p].run \in DOMAIN runs
                                 /\ table[p].since \in DOMAIN runs
                                 /\ table[p].since <= table[p].run
  <2>1. runs \in Seq(Runs) /\ DOMAIN runs = 1..Len(runs) /\ Len(runs) \in Nat
    BY <1>0 DEF CallShape
  <2>2. ASSUME NEW p \in DOMAIN table
        PROVE  /\ table[p].run \in DOMAIN runs /\ table[p].since \in DOMAIN runs
               /\ table[p].since <= table[p].run
    <3>1. table[p].run \in 1..Len(runs) /\ table[p].since \in 1..table[p].run
      BY <1>0, <2>1 DEF TableShape
    <3>2. table[p].since \in 1..Len(runs) /\ table[p].since <= table[p].run
      BY <2>1, <3>1
    <3>3. QED
      BY <2>1, <3>1, <3>2
  <2>3. QED
    BY <2>1, <2>2
<1>2. CASE runs' = runs /\ table' = table
  BY <1>2
<1>3. CASE Archive
  <2> DEFINE new == [body |-> body, setup |-> setup, outcome |-> "pending"]
  <2>1. table' = table /\ runs' = Append(runs, new)
    BY <1>3 DEF Archive
  <2> HIDE DEF new
  <2>2. \A i \in DOMAIN runs : runs'[i] = runs[i]
    BY <1>1, <2>1
  <2>3. QED
    BY <1>1, <2>1, <2>2
<1>4. CASE DecodeFailed \/ Block
  <2>1. table' = table /\ pc = "rules" /\ EndRun("validation-failed")
    BY <1>4 DEF DecodeFailed, Block
  <2>2. \A i \in DOMAIN runs : i # Len(runs) => runs'[i] = runs[i]
    BY <2>1, RunEnds
  <2>3. ASSUME NEW p \in DOMAIN table
        PROVE  table[p].run # Len(runs) /\ table[p].since # Len(runs)
    <3>1. table[p].run # Len(runs)
      BY <1>0, <2>1 DEF TableShape
    <3>2. /\ table[p].run \in 1..Len(runs) /\ table[p].since \in 1..Len(runs)
          /\ table[p].since <= table[p].run
      BY <1>1
    <3>3. table[p].since # Len(runs)
      BY <1>1, <3>1, <3>2
    <3>4. QED
      BY <3>1, <3>3
  <2>4. QED
    BY <1>1, <2>1, <2>2, <2>3
<1>5. CASE Redeploy \/ Begin \/ Fetching \/ FetchFailed \/ Decode \/ UNCHANGED vars
  BY <1>2, <1>5 DEF Redeploy, Begin, Fetching, FetchFailed, Decode, vars
<1>6. QED
  BY <1>3, <1>4, <1>5 DEF Next, CallStep

\* A step that publishes nothing leaves the excuses of the jumps,
LEMMA StayingKeepsJumps ==
  ASSUME SeriesShape, JumpsHold, [Next]_vars, ~Publish
  PROVE  JumpsHold'
<1>1. /\ table' = table
      /\ \A p \in DOMAIN table : runs'[table[p].run] = runs[table[p].run]
  BY RowsStay
<1>2. SUFFICES ASSUME Uniform(DOMAIN table),
                      NEW p \in DOMAIN table, NEW q \in DOMAIN table, Jump(p, q)'
               PROVE  Excused(p, q)'
  BY <1>1 DEF JumpsHold
<1>3. Jump(p, q) => Excused(p, q)
  BY <1>2 DEF JumpsHold
<1>4. QED
  BY <1>1, <1>2, <1>3, SameJump

\* and those of the holes.
LEMMA StayingKeepsHoles ==
  ASSUME SeriesShape, HolesHold, [Next]_vars, ~Publish
  PROVE  HolesHold'
<1>1. /\ table' = table
      /\ \A p \in DOMAIN table : runs'[table[p].since] = runs[table[p].since]
  BY RowsStay
<1>2. SUFFICES
        ASSUME Uniform(DOMAIN table),
               NEW q \in DOMAIN table, NEW p, p \in Newest(q)', NEW hole \in R!WalkFrom(p),
               R!Before(hole, q), hole \notin DOMAIN table
        PROVE  HoleExcused(runs'[table'[q].since],
                           Decoding(runs'[table'[q].since].setup,
                                    runs'[table'[q].since].body).observations, hole)
  BY <1>1, HolesLookAt
<1>3. p \in Newest(q)
  BY <1>1, <1>2, NewestLooksAt
<1>4. HoleExcused(runs[table[q].since],
                  Decoding(runs[table[q].since].setup,
                           runs[table[q].since].body).observations, hole)
  BY <1>2, <1>3, HolesLookAt
<1>5. QED
  BY <1>1, <1>4

\* The invariant of the series, in every state.
LEMMA SeriesInvHolds == Spec => []SeriesInv
<1>1. Init => SeriesInv
  <2> SUFFICES ASSUME Init PROVE SeriesInv
    OBVIOUS
  <2>1. SeriesShape /\ DOMAIN table = {}
    BY InitShape DEF Init
  <2>2. QED
    BY <2>1 DEF SeriesInv, JumpsHold, HolesHold
<1>2. SeriesInv /\ [Next]_vars => SeriesInv'
  <2> SUFFICES ASSUME SeriesInv, [Next]_vars PROVE SeriesInv'
    OBVIOUS
  <2>1. SeriesShape /\ JumpsHold /\ HolesHold
    BY DEF SeriesInv
  <2>2. SeriesShape'
    BY <2>1, NextKeepsShape
  <2>3. CASE Publish
    BY <2>1, <2>2, <2>3, PublishKeepsJumps, PublishKeepsHoles DEF SeriesInv
  <2>4. CASE ~Publish
    BY <2>1, <2>2, <2>4, StayingKeepsJumps, StayingKeepsHoles DEF SeriesInv
  <2>5. QED
    BY <2>3, <2>4
<1>3. QED
  BY <1>1, <1>2, PTL DEF Spec

\* Where one frequency is in sight, the vintage and the payload are uniform.
LEMMA OneFrequencyIsUniform ==
  ASSUME SeriesShape, OneFrequency
  PROVE  Uniform(DOMAIN table \cup PeriodsOf(Incoming)) /\ Uniform(DOMAIN table)
<1> DEFINE Seen == DOMAIN table \cup {Incoming[i].period : i \in DOMAIN Incoming}
           F == FrequenciesOf(Seen)
<1>1. ASSUME NEW x \in Seen PROVE x \in ValidPeriods
  <2>1. CASE x \in DOMAIN table
    BY <2>1 DEF SeriesShape, TableShape
  <2>2. CASE \E i \in DOMAIN Incoming : x = Incoming[i].period
    <3>1. PICK i \in DOMAIN Incoming : x = Incoming[i].period
      BY <2>2
    <3>2. pc = "rules" /\ decoded.class = "none"
      <4>1. Incoming # <<>>
        BY <3>1
      <4>2. pc = "rules"
        <5>1. NoResult.observations = <<>>
          BY DEF NoResult, D!Failed
        <5>2. QED
          BY <4>1, <5>1 DEF Incoming, SeriesShape, CallShape
      <4>3. Readable(decoded, setup.frequency)
        <5>1. /\ setup.kind \in Kinds /\ decoded = Decoding(setup, body)
              /\ body \in Bodies[setup.kind]
          BY <4>2 DEF SeriesShape, LogShape, CallShape
        <5>2. QED
          BY <5>1, DecodingIsReadable
      <4>4. QED
        BY <4>1, <4>2, <4>3 DEF Readable, Incoming
    <3>3. Legible(Incoming, setup.frequency)
      BY <3>2, RulesIncoming
    <3>4. QED
      BY <3>1, <3>3 DEF Legible
  <2>3. QED
    BY <2>1, <2>2
<1>2. F \subseteq {"Q", "M", "A"}
  BY <1>1 DEF FrequenciesOf, ValidPeriods, R!Frequencies
<1>3. IsFiniteSet({"Q", "M", "A"})
  <2>1. IsFiniteSet({"Q"})
    BY FS_Singleton
  <2>2. IsFiniteSet({"Q"} \cup {"M"})
    BY <2>1, FS_AddElement
  <2>3. IsFiniteSet(({"Q"} \cup {"M"}) \cup {"A"})
    BY <2>2, FS_AddElement
  <2>4. ({"Q"} \cup {"M"}) \cup {"A"} = {"Q", "M", "A"}
    OBVIOUS
  <2>5. QED
    BY <2>3, <2>4
<1>4. Cardinality(F) <= 1
  BY DEF OneFrequency
<1>5. \A p \in DOMAIN table \cup PeriodsOf(Incoming) : p.freq \in F
  BY DEF FrequenciesOf, PeriodsOf
<1> HIDE DEF F
<1>6. ASSUME NEW a \in F, NEW b \in F, a # b PROVE FALSE
  <2>1. IsFiniteSet(F) /\ Cardinality(F) \in Nat
    BY <1>2, <1>3, FS_Subset, FS_CardinalityType
  <2>2. IsFiniteSet({a}) /\ Cardinality({a}) = 1
    BY FS_Singleton
  <2>3. Cardinality({a} \cup {b}) = 2
    <3>1. b \notin {a}
      BY <1>6
    <3>2. Cardinality({a} \cup {b}) = Cardinality({a}) + 1
      BY <2>2, <3>1, FS_AddElement
    <3>3. QED
      BY <2>2, <3>2
  <2>4. {a} \cup {b} \in SUBSET F
    OBVIOUS
  <2>5. Cardinality({a} \cup {b}) <= Cardinality(F)
    BY <2>1, <2>4, FS_Subset
  <2>6. QED
    BY <1>4, <2>1, <2>3, <2>5
<1>7. QED
  BY <1>5, <1>6 DEF Uniform

\* A jump is published away from a break only where the rule could not see it:
\* it compares with the value published before the run, and with the first
\* that the payload lists (rule3_plausibility.go:80).
THEOREM SeriesJumpsExplained == Spec => []JumpsExplained
<1>1. SeriesInv => JumpsExplained
  <2> SUFFICES ASSUME SeriesInv, OneFrequency,
                      NEW p \in DOMAIN table, NEW q \in DOMAIN table, Jump(p, q)
               PROVE  Excused(p, q)
    BY DEF JumpsExplained, Excused
  <2>1. SeriesShape /\ JumpsHold
    BY DEF SeriesInv
  <2>2. Uniform(DOMAIN table)
    BY <2>1, OneFrequencyIsUniform
  <2>3. QED
    BY <2>1, <2>2 DEF JumpsHold
<1>2. QED
  BY <1>1, SeriesInvHolds, PTL

\* After the first publication no run leaves a hole behind that is neither
\* documented nor listed by a payload that was cut off before it
\* (rule2_continuity.go:57).
THEOREM SeriesHolesExplained == Spec => []HolesExplained
<1>1. SeriesInv => HolesExplained
  <2> SUFFICES ASSUME SeriesInv, OneFrequency PROVE HolesExplained
    BY DEF HolesExplained
  <2>1. SeriesShape /\ HolesHold
    BY DEF SeriesInv
  <2>2. Uniform(DOMAIN table)
    BY <2>1, OneFrequencyIsUniform
  <2>3. QED
    BY <2>1, <2>2 DEF HolesHold, Newest, HolesExplained
<1>2. QED
  BY <1>1, SeriesInvHolds, PTL

-----------------------------------------------------------------------------
(* The rules return *)

\* The months of all years that labels can name.
Months == 12 * (R!LastYear + 1)

\* From a period to a later one of its frequency it is a number of steps, fewer
\* than labels have months.
LEMMA StepsBetween ==
  ASSUME NEW p \in ValidPeriods, NEW q \in ValidPeriods, p.freq = q.freq,
         ~R!Before(q, p)
  PROVE  \E n \in 0..Months : R!Same(R!Ahead(p, n), q)
<1> DEFINE k == R!StepsPerYear(p.freq)
           n == (q.year - p.year) * k + q.ordinal - p.ordinal
<1>1. /\ k \in {1, 4, 12} /\ p.year \in Int /\ p.ordinal \in 1..k
      /\ q.year \in Int /\ q.ordinal \in 1..k
  BY ValidSteps
<1> DEFINE top == R!LastYear
<1>2. p.year >= 0 /\ q.year <= top /\ top \in Int
  <2>1. p.year \in R!Years /\ q.year \in R!Years
    BY DEF ValidPeriods
  <2>2. QED
    BY <2>1, YearsAreNumbers
<1>3. q.year > p.year \/ (q.year = p.year /\ q.ordinal >= p.ordinal)
  BY <1>1 DEF R!Before
<1>4. R!Ahead(p, n) = [freq |-> p.freq, year |-> p.year + ((p.ordinal - 1 + n) \div k),
                       ordinal |-> ((p.ordinal - 1 + n) % k) + 1]
  BY DEF R!Ahead, R!Period
<1> DEFINE d == q.year - p.year
           a == p.ordinal
           b == q.ordinal
<1>5. d \in 0..top /\ a \in 1..k /\ b \in 1..k /\ (d = 0 => b >= a)
  BY <1>1, <1>2, <1>3
<1>6. n = d * k + b - a
  OBVIOUS
<1>7. p.year + d = q.year
  BY <1>1
<1>8. Months = 12 * (top + 1)
  BY DEF Months
<1> HIDE DEF d, a, b, k, n, top
<1>9. /\ n \in 0..Months
      /\ (a - 1 + n) \div k = d
      /\ (a - 1 + n) % k = b - 1
  <2>1. CASE k = 1
    BY <1>2, <1>5, <1>6, <1>8, <2>1
  <2>2. CASE k = 4
    BY <1>2, <1>5, <1>6, <1>8, <2>2
  <2>3. CASE k = 12
    BY <1>2, <1>5, <1>6, <1>8, <2>3
  <2>4. QED
    BY <1>1, <2>1, <2>2, <2>3
<1>10. R!Ahead(p, n).year = q.year /\ R!Ahead(p, n).ordinal = q.ordinal
  <2>1. /\ R!Ahead(p, n).year = p.year + ((a - 1 + n) \div k)
        /\ R!Ahead(p, n).ordinal = ((a - 1 + n) % k) + 1
    BY <1>4 DEF a
  <2>2. b - 1 + 1 = q.ordinal
    BY <1>1 DEF b
  <2>3. QED
    BY <1>7, <1>9, <2>1, <2>2
<1>11. QED
  BY <1>9, <1>10 DEF R!Same

\* The loop of rule 4 meets the latest period if that is not before the one it
\* starts from and of its frequency (rule4_revision.go:58).
LEMMA BackDistanceEnds ==
  ASSUME NEW p \in ValidPeriods, NEW q \in ValidPeriods, p.freq = q.freq,
         ~R!Before(q, p), Months <= MaxWalk
  PROVE  R!BackDistance(p, q) # R!Endless
<1> DEFINE hits == {n \in 0..MaxWalk : R!Same(R!Ahead(p, n), q)}
<1>1. MaxWalk \in Nat /\ Months \in Int
  BY BoundsAssumption, YearsAreNumbers DEF Months
<1>2. PICK n \in 0..Months : R!Same(R!Ahead(p, n), q)
  BY StepsBetween
<1>3. n \in 0..MaxWalk
  BY <1>1
<1>4. n \in hits /\ hits \subseteq 0..MaxWalk
  BY <1>2, <1>3
<1>5. R!BackDistance(p, q) = R!Least(hits)
  BY <1>4 DEF R!BackDistance
<1> HIDE DEF hits
<1>6. R!Least(hits) \in 0..MaxWalk
  <2>1. hits \in SUBSET Int /\ hits # {} /\ IsFiniteSet(hits)
    <3>1. IsFiniteSet(0..MaxWalk) /\ 0..MaxWalk \subseteq Int
      BY <1>1, FS_Interval
    <3>2. QED
      BY <1>4, <3>1, FS_Subset
  <2>2. \E i \in hits : \A j \in hits : i <= j
    BY <2>1, FiniteHasLeast
  <2>3. R!Least(hits) \in hits
    BY <2>2 DEF R!Least
  <2>4. QED
    BY <1>4, <2>3
<1>7. QED
  BY <1>1, <1>5, <1>6 DEF R!Endless

\* With one frequency there is a listing of the vintage.
LEMMA SomeListing ==
  ASSUME Uniform(DOMAIN table), DOMAIN table \subseteq ValidPeriods
  PROVE  Listings # {}
<1> DEFINE D0 == DOMAIN table
           Choices == {P \in SUBSET D0 : \A p \in D0 :
                         Cardinality({q \in P : R!Same(p, q)}) = 1}
           s == InSomeOrder(D0) \o InSomeOrder(D0 \ D0)
<1>1. ASSUME NEW p \in D0 PROVE Cardinality({q \in D0 : R!Same(p, q)}) = 1
  <2>1. ASSUME NEW q \in D0 PROVE R!Same(p, q) <=> q = p
    <3>1. p \in ValidPeriods /\ q \in ValidPeriods /\ p.freq = q.freq
      BY DEF Uniform
    <3>2. R!Same(p, q) => p = q
      BY <3>1, SameIsEqual
    <3>3. R!Same(p, p)
      BY DEF R!Same
    <3>4. QED
      BY <3>2, <3>3
  <2>2. {q \in D0 : R!Same(p, q)} = {p}
    BY <2>1
  <2>3. QED
    BY <2>2, FS_Singleton
<1>2. D0 \in Choices
  BY <1>1
<1>3. [i \in DOMAIN s |-> [period |-> s[i], value |-> table[s[i]].value]] \in Listings
  BY <1>2 DEF Listings
<1>4. QED
  BY <1>3

\* In a payload of the vintage's frequency rule 4 returns.
LEMMA Rule4ReturnsInOne ==
  ASSUME NEW prior, IsListing(prior, Len(prior)), IsList(Incoming),
         DOMAIN table \subseteq ValidPeriods, PeriodsOf(Incoming) \subseteq ValidPeriods,
         Uniform(DOMAIN table \cup PeriodsOf(Incoming)),
         Months <= MaxWalk
  PROVE  R!Rule4Returns(Context(prior), Incoming)
<1> DEFINE m == Len(prior)
           l == Len(Incoming)
           all == prior \o Incoming
           latest == R!LatestPeriod(all)
<1>1. /\ m \in Nat /\ IsList(prior) /\ l \in Nat /\ DOMAIN Incoming = 1..l
      /\ \A i \in 1..m : prior[i].period \in DOMAIN table
  BY ListIs DEF IsListing
<1>2. /\ DOMAIN all = 1..(m + l)
      /\ \A i \in 1..m : all[i] = prior[i]
      /\ \A i \in 1..l : all[m + i] = Incoming[i]
  BY <1>1, ConcatIs
<1> DEFINE Seen == DOMAIN table \cup PeriodsOf(Incoming)
<1>3. Seen \subseteq ValidPeriods /\ Uniform(Seen)
  OBVIOUS
<1> HIDE DEF m, l, all, latest
<1>4. \A i \in 1..l : Incoming[i].period \in Seen
  BY <1>1 DEF PeriodsOf
<1> HIDE DEF Seen
<1>5. ASSUME NEW i \in 1..(m + l) PROVE all[i].period \in Seen
  <2>1. CASE i \in 1..m
    BY <1>1, <1>2, <2>1 DEF Seen
  <2>2. CASE ~(i \in 1..m)
    <3> DEFINE j == i - m
    <3>1. j \in 1..l /\ m + j = i
      BY <1>1, <2>2
    <3> HIDE DEF j
    <3>2. QED
      BY <1>2, <1>4, <3>1
  <2>3. QED
    BY <2>1, <2>2
<1>6. ASSUME NEW h \in 1..l
      PROVE  R!BackDistance(Incoming[h].period, latest) # R!Endless
  <2>1. m + h \in 1..(m + l) /\ m + l \in Nat \ {0}
    BY <1>1
  <2>2. PICK k \in 1..(m + l) :
          /\ latest = all[k].period
          /\ \A j \in 1..(m + l) : ~R!Before(all[k].period, all[j].period)
    <3>1. \A j \in 1..(m + l) : all[j].period \in ValidPeriods
      BY <1>3, <1>5
    <3>2. QED
      BY <1>2, <2>1, <3>1, LatestOf DEF latest
  <2>3. latest \in Seen /\ Incoming[h].period \in Seen
    BY <1>4, <1>5, <2>2
  <2>4. ~R!Before(latest, Incoming[h].period)
    BY <1>2, <2>1, <2>2
  <2>5. latest.freq = Incoming[h].period.freq
    BY <1>3, <2>3 DEF Uniform
  <2>6. QED
    BY <1>3, <2>3, <2>4, <2>5, BackDistanceEnds
<1>7. ASSUME NEW o \in R!Revisions(Context(prior), Incoming)
      PROVE  R!BackDistance(o.period, latest) # R!Endless
  <2>1. PICK h \in DOMAIN Incoming : o = Incoming[h]
    BY DEF R!Revisions
  <2>2. QED
    BY <1>1, <1>6, <2>1
<1>8. ASSUME NEW d \in R!RevisionDistances(Context(prior), Incoming)
      PROVE  d[2] # R!Endless
  <2>1. PICK o \in R!Revisions(Context(prior), Incoming) :
          d = <<o.period, R!BackDistance(o.period, R!LatestPeriod(Context(prior).prior \o Incoming))>>
    BY DEF R!RevisionDistances
  <2>2. d = <<o.period, R!BackDistance(o.period, latest)>>
    BY <2>1, ContextIs DEF latest, all
  <2>3. QED
    BY <1>7, <2>2
<1>9. QED
  BY <1>8 DEF R!Rule4Returns

\* A run whose payload has decoded gets a verdict.
RulesReturn ==
  pc = "rules" /\ decoded.class = "none" /\ OneFrequency => Verdicts # {}

\* With one frequency the rules return, whatever is published and whatever the
\* payload says of it: there is no other hang than the one that CallsEnd
\* excepts (rule4_revision.go:60).  The bound on walks is then no restriction:
\* no two periods that labels denote are further apart.
THEOREM SeriesRulesReturn == Months <= MaxWalk => (Spec => []RulesReturn)
<1> SUFFICES ASSUME Months <= MaxWalk PROVE Spec => []RulesReturn
  OBVIOUS
<1>1. SeriesShape => RulesReturn
  <2> SUFFICES ASSUME SeriesShape, pc = "rules", decoded.class = "none", OneFrequency
               PROVE  Verdicts # {}
    BY DEF RulesReturn
  <2>1. /\ IsFiniteSet(DOMAIN table) /\ DOMAIN table \subseteq ValidPeriods
    BY DEF SeriesShape, TableShape
  <2>2. IsList(Incoming) /\ PeriodsOf(Incoming) \subseteq ValidPeriods
    BY RulesIncoming DEF Legible, PeriodsOf
  <2>3. Uniform(DOMAIN table \cup PeriodsOf(Incoming)) /\ Uniform(DOMAIN table)
    BY OneFrequencyIsUniform
  <2>4. PICK prior \in Listings : TRUE
    BY <2>1, <2>3, SomeListing
  <2>5. IsListing(prior, Len(prior))
    BY <2>1, ListingsList
  <2>6. R!Rule4Returns(Context(prior), Incoming)
    BY <2>1, <2>2, <2>3, <2>5, Rule4ReturnsInOne
  <2>7. R!Gate(R!SixRules(Context(prior), Incoming)) \in Verdicts
    BY <2>6 DEF Verdicts
  <2>8. QED
    BY <2>7
<1>2. QED
  BY <1>1, ShapeHolds, PTL

-----------------------------------------------------------------------------
(* What the source says *)

\* The label the INE client makes of an element has its year and its ordinal,
LEMMA INELabelPlace ==
  ASSUME NEW d
  PROVE  D!INELabel(d).year = d.anyo /\ D!INELabel(d).ordinal = d.ordinal
BY DEF D!INELabel

\* and the parser knows three codes.
LEMMA INECodes ==
  ASSUME NEW d, D!INELabel(d).form \in DOMAIN D!FrequencyOf
  PROVE  d.periodo \in {"Tn", "d de mes de"} \/ d.periodo = "Mnn"
<1>1. DOMAIN D!FrequencyOf = {"yyyy-Qn", "yyyy-mm", "yyyy", "Tn yyyy", "Mmm yyyy"}
  BY DEF D!FrequencyOf
<1>2. CASE ~(d.periodo \in {"Tn", "d de mes de"} \/ d.periodo = "Mnn")
  <2>1. D!INELabel(d).form = ""
    BY <1>2 DEF D!INELabel
  <2>2. "" \in {"yyyy-Qn", "yyyy-mm", "yyyy", "Tn yyyy", "Mmm yyyy"}
    BY <1>1, <2>1
  <2>3. FALSE
    BY <2>2, Zenon
  <2>4. QED
    BY <2>3
<1>3. QED
  BY <1>2

\* The observations of a decoded INE series are its elements, at the periods
\* that year and code say (envelope.go:29).
LEMMA INELists ==
  ASSUME NEW b, IsList(b.data), NEW f, D!DecodeINE(b, f).class = "none"
  PROVE  D!DecodeINE(b, f).observations =
           [i \in DOMAIN b.data |->
              [period |-> D!Period(IF b.data[i].periodo = "Mnn" THEN "M" ELSE "Q",
                                   b.data[i].anyo, b.data[i].ordinal),
               value |-> b.data[i].valor]]
<1> DEFINE n == Len(b.data)
           labels == [i \in DOMAIN b.data |-> D!INELabel(b.data[i])]
           checks == <<
        <<~b.parses, "unclassified">>,
        <<b.status, "source-refusal">>,
        <<b.data = <<>>, "silent-empty">>,
        <<\E i \in DOMAIN labels :
            i = 1 /\ D!DetectPeriodicity(b.data[i].periodo) # f,
          "schema-drift">>,
        <<\E i \in DOMAIN labels : ~D!Normalisable(labels[i]), "unclassified">> >>
           failure == D!FirstFailure(checks)
           obs == [i \in DOMAIN labels |->
                     D!Observation(D!NormalizePeriodLabel(labels[i]), b.data[i].valor)]
<1>1. failure = "none"
  <2>1. ASSUME failure # "none" PROVE FALSE
    <3>1. D!DecodeINE(b, f) = D!Failed(failure)
      BY <2>1 DEF D!DecodeINE
    <3> HIDE DEF failure
    <3>2. QED
      BY <2>1, <3>1 DEF D!Failed
  <2> HIDE DEF failure
  <2>2. QED
    BY <2>1
<1>2. D!DecodeINE(b, f) = D!Decoded(obs, D!NothingObserved)
  BY <1>1 DEF D!DecodeINE
<1>3. \A i \in DOMAIN labels : D!Normalisable(labels[i])
  <2>1. DOMAIN checks = 1..5
    OBVIOUS
  <2>2. \A i \in 1..5 : checks[i][2] # "none"
    OBVIOUS
  <2> HIDE DEF checks
  <2>3. \A i \in 1..5 : ~checks[i][1]
    BY <1>1, <2>1, <2>2, NoFailure
  <2>4. ~checks[5][1]
    BY <2>3
  <2>5. QED
    BY <2>4 DEF checks
<1> HIDE DEF checks, failure
<1>4. ASSUME NEW i \in DOMAIN b.data
      PROVE  D!NormalizePeriodLabel(labels[i])
               = D!Period(IF b.data[i].periodo = "Mnn" THEN "M" ELSE "Q",
                          b.data[i].anyo, b.data[i].ordinal)
  <2>1. labels[i] = D!INELabel(b.data[i]) /\ D!Normalisable(labels[i])
    BY <1>3
  <2>2. /\ labels[i].year = b.data[i].anyo /\ labels[i].ordinal = b.data[i].ordinal
        /\ labels[i].form \in DOMAIN D!FrequencyOf
    <3>1. labels[i].form \in DOMAIN D!FrequencyOf
      BY <2>1 DEF D!Normalisable
    <3>2. QED
      BY <2>1, <3>1, INELabelPlace
  <2>3. D!FrequencyOf[labels[i].form] = D!DetectPeriodicity(b.data[i].periodo)
    BY <2>1, <2>2, INEForm
  <2>4. b.data[i].periodo \in {"Tn", "d de mes de"} \/ b.data[i].periodo = "Mnn"
    BY <2>1, <2>2, INECodes
  <2>5. D!FrequencyOf[labels[i].form] = IF b.data[i].periodo = "Mnn" THEN "M" ELSE "Q"
    <3>1. CASE b.data[i].periodo \in {"Tn", "d de mes de"}
      <4>1. D!DetectPeriodicity(b.data[i].periodo) = "Q"
        BY <3>1 DEF D!DetectPeriodicity
      <4>2. b.data[i].periodo # "Mnn"
        BY <3>1
      <4>3. QED
        BY <2>3, <4>1, <4>2
    <3>2. CASE b.data[i].periodo = "Mnn"
      <4>1. D!DetectPeriodicity(b.data[i].periodo) = "M"
        BY <3>2 DEF D!DetectPeriodicity
      <4>2. QED
        BY <2>3, <3>2, <4>1
    <3>3. QED
      BY <2>4, <3>1, <3>2
  <2> HIDE DEF labels
  <2>6. QED
    BY <2>2, <2>5 DEF D!NormalizePeriodLabel
<1>5. D!DecodeINE(b, f).observations = obs
  BY <1>2 DEF D!Decoded
<1>6. QED
  BY <1>4, <1>5 DEF D!Observation

\* What a list says without exception, it says of what is written of it.
LEMMA SaidThroughout ==
  ASSUME NEW b, NEW obs, IsList(obs),
         \A i \in DOMAIN obs :
           obs[i].value # NoValue => Says(b, obs[i].period, obs[i].value)
  PROVE  ListsWhatItSays(b, obs)
<1> DEFINE W == Writable(obs)
<1>1. /\ Len(W) \in 0..Len(obs) /\ DOMAIN W = 1..Len(W)
      /\ \A i \in 1..Len(W) : W[i] = obs[i] /\ obs[i].value # NoValue
  BY WritablePrefix
<1>2. Len(obs) \in Nat /\ DOMAIN obs = 1..Len(obs)
  BY ListIs
<1> HIDE DEF W
<1>3. \A i \in DOMAIN W : i \in DOMAIN obs /\ W[i] = obs[i] /\ obs[i].value # NoValue
  BY <1>1, <1>2
<1>4. \A i \in DOMAIN W : Says(b, W[i].period, W[i].value)
  BY <1>3
<1>5. QED
  BY <1>4 DEF ListsWhatItSays, W

\* A cube that is decoded has one category in every dimension but time.
LEMMA PinnedCube ==
  ASSUME NEW b, NEW k \in DOMAIN b.id, D!PinningFailure(b, b.id[k]) = "none",
         b.id[k] # "time",
         \A dim \in DOMAIN b.category : IsFiniteSet(DOMAIN b.category[dim])
  PROVE  Cardinality(DOMAIN D!Categories(b, b.id[k])) = 1
<1> DEFINE dim == b.id[k]
           C == DOMAIN D!Categories(b, dim)
           checks == <<
    <<dim = "time", "none">>,
    <<dim \notin DOMAIN b.category, "unclassified">>,
    <<C = {}, "silent-empty">>,
    <<D!Cardinality(C) > 1, "schema-drift">> >>
<1>1. D!FirstFailure(checks) = "none"
  BY DEF D!PinningFailure
<1>2. DOMAIN checks = 1..4
  OBVIOUS
<1>3. \A i \in 1..4 : checks[i][1] => checks[i][2] # "none"
  <2>1. 1..4 = {1, 2, 3, 4}
    OBVIOUS
  <2>2. /\ ~checks[1][1] /\ checks[2][2] = "unclassified"
        /\ checks[3][2] = "silent-empty" /\ checks[4][2] = "schema-drift"
    OBVIOUS
  <2> HIDE DEF checks
  <2>3. QED
    BY <2>1, <2>2
<1>4. ~checks[2][1] /\ ~checks[3][1] /\ ~checks[4][1]
  <2> HIDE DEF checks
  <2>1. \A i \in 1..4 : ~checks[i][1]
    BY <1>1, <1>2, <1>3, NoFailure
  <2>2. QED
    BY <2>1
<1>5. dim \in DOMAIN b.category /\ C # {} /\ ~(D!Cardinality(C) > 1)
  BY <1>4
<1>6. IsFiniteSet(C)
  BY <1>5 DEF D!Categories
<1> HIDE DEF C, checks
<1>7. Cardinality(C) \in Nat /\ Cardinality(C) # 0 /\ ~(Cardinality(C) > 1)
  BY <1>5, <1>6, FS_CardinalityType, FS_EmptySet, DCardinality
<1>8. Cardinality(C) = 1
  BY <1>7
<1>9. QED
  BY <1>8 DEF C

\* The observations of a decoded cube are those of its time labels
\* (envelope.go:109).
LEMMA EurostatLists ==
  ASSUME NEW b, NEW f,
         \A dim \in DOMAIN b.category :
           /\ IsFiniteSet(DOMAIN b.category[dim])
           /\ \A label \in DOMAIN b.category[dim] : b.category[dim][label] \in Int,
         IsList(b.id),
         D!DecodeEurostat(b, f).class = "none"
  PROVE  LET times == D!Categories(b, "time")
             obs == D!DecodeEurostat(b, f).observations
         IN  /\ \A k \in DOMAIN b.id :
                  b.id[k] # "time" => Cardinality(DOMAIN D!Categories(b, b.id[k])) = 1
             /\ \A i \in DOMAIN obs : \E label \in DOMAIN times :
                  /\ label.form \in DOMAIN D!FrequencyOf
                  /\ obs[i].period = D!NormalizePeriodLabel(label)
                  /\ LET pos == D!CubePosition(b, times[label])
                     IN  IF pos \in DOMAIN b.value THEN obs[i].value = b.value[pos]
                         ELSE obs[i].value = NoValue
<1> DEFINE times == D!Categories(b, "time")
           n == Cardinality(DOMAIN times)
           slots == D!InIndexOrder(times)
           pinnings == [i \in DOMAIN b.id |->
             <<D!PinningFailure(b, b.id[i]) # "none", D!PinningFailure(b, b.id[i])>>]
           pinning == D!FirstFailure(pinnings)
           checks == <<
        <<~b.parses, "unclassified">>,
        <<slots = <<>>, "silent-empty">>,
        <<pinning # "none", pinning>>,
        <<\E i \in DOMAIN slots : ~D!Normalisable(slots[i]), "unclassified">>,
        <<\E i \in DOMAIN slots :
            i = 1 /\ D!FrequencyOf[slots[i].form] # f, "schema-drift">> >>
           failure == D!FirstFailure(checks)
           Value(slot) ==
             IF D!CubePosition(b, times[slot]) \in DOMAIN b.value
             THEN b.value[D!CubePosition(b, times[slot])] ELSE NoValue
           obs == [i \in DOMAIN slots |->
                     [period |-> D!NormalizePeriodLabel(slots[i]),
                      value |-> Value(slots[i])]]
<1>1. slots \in [1..n -> DOMAIN times]
  <2>1. IsFiniteSet(DOMAIN times) /\ \A label \in DOMAIN times : times[label] \in Int
    <3>1. CASE "time" \in DOMAIN b.category
      BY <3>1 DEF D!Categories
    <3>2. CASE "time" \notin DOMAIN b.category
      <4>1. times = <<>>
        BY <3>2 DEF D!Categories
      <4>2. DOMAIN times = {}
        BY <4>1
      <4>3. QED
        BY <4>2, FS_EmptySet
    <3>3. QED
      BY <3>1, <3>2
  <2> HIDE DEF times
  <2>2. QED
    BY <2>1, IndexOrderExists
<1>2. failure = "none"
  <2>1. ASSUME failure # "none" PROVE FALSE
    <3>1. D!DecodeEurostat(b, f) = D!Failed(failure)
      BY <2>1 DEF D!DecodeEurostat
    <3> HIDE DEF failure
    <3>2. QED
      BY <2>1, <3>1 DEF D!Failed
  <2> HIDE DEF failure
  <2>2. QED
    BY <2>1
<1>3. D!DecodeEurostat(b, f) = D!Decoded(obs, D!NothingObserved)
  BY <1>2 DEF D!DecodeEurostat, D!Observation
<1>4. pinning = "none" /\ \A i \in DOMAIN slots : D!Normalisable(slots[i])
  <2>1. DOMAIN checks = 1..5
    OBVIOUS
  <2>2. \A i \in 1..5 : checks[i][1] => checks[i][2] # "none"
    <3> HIDE DEF pinning
    <3>1. \A i \in {1, 2, 4, 5} : checks[i][2] # "none"
      OBVIOUS
    <3>2. checks[3][1] = (pinning # "none") /\ checks[3][2] = pinning
      OBVIOUS
    <3>3. 1..5 = {1, 2, 3, 4, 5}
      OBVIOUS
    <3> HIDE DEF checks
    <3>4. checks[3][1] => checks[3][2] # "none"
      BY <3>2
    <3>5. QED
      BY <3>1, <3>3, <3>4
  <2> HIDE DEF checks
  <2>3. \A i \in 1..5 : ~checks[i][1]
    BY <1>2, <2>1, <2>2, NoFailure
  <2>4. ~checks[3][1] /\ ~checks[4][1]
    BY <2>3
  <2> HIDE DEF pinning
  <2>5. QED
    BY <2>4 DEF checks
<1> HIDE DEF checks, failure
<1>5. ASSUME NEW k \in DOMAIN b.id, b.id[k] # "time"
      PROVE  Cardinality(DOMAIN D!Categories(b, b.id[k])) = 1
  <2>1. Len(b.id) \in Nat /\ DOMAIN pinnings = 1..Len(b.id)
    BY ListIs
  <2>2. \A i \in 1..Len(b.id) : pinnings[i][1] => pinnings[i][2] # "none"
    BY <2>1
  <2>3. ~pinnings[k][1]
    <3> HIDE DEF pinnings
    <3>1. \A i \in 1..Len(b.id) : ~pinnings[i][1]
      BY <1>4, <2>1, <2>2, NoFailure
    <3>2. QED
      BY <2>1, <3>1, ListIs
  <2>4. D!PinningFailure(b, b.id[k]) = "none"
    BY <2>3
  <2>5. QED
    BY <1>5, <2>4, PinnedCube
<1>6. ASSUME NEW i \in DOMAIN obs
      PROVE  \E label \in DOMAIN times :
               /\ label.form \in DOMAIN D!FrequencyOf
               /\ obs[i].period = D!NormalizePeriodLabel(label)
               /\ LET pos == D!CubePosition(b, times[label])
                  IN  IF pos \in DOMAIN b.value THEN obs[i].value = b.value[pos]
                      ELSE obs[i].value = NoValue
  <2>1. slots[i] \in DOMAIN times /\ i \in DOMAIN slots
    BY <1>1
  <2>2. slots[i].form \in DOMAIN D!FrequencyOf
    BY <1>4, <2>1 DEF D!Normalisable
  <2>3. obs[i].period = D!NormalizePeriodLabel(slots[i]) /\ obs[i].value = Value(slots[i])
    BY <2>1
  <2> HIDE DEF obs, slots, times
  <2>4. QED
    BY <2>1, <2>2, <2>3
<1>7. D!DecodeEurostat(b, f).observations = obs
  BY <1>3 DEF D!Decoded
<1> HIDE DEF obs
<1>8. QED
  BY <1>5, <1>6, <1>7

\* The rows that are read are rows of the workbook.
LEMMA DataRowsAreOfTheSheet ==
  ASSUME NEW b, IsList(b.rows), NEW i \in DOMAIN D!DataRows(b)
  PROVE  \E k \in DOMAIN b.rows : D!DataRows(b)[i] = b.rows[k]
<1> DEFINE S == {b.rows[k] : k \in DOMAIN b.rows}
<1>1. D!DataRows(b) \in Seq(S)
  BY DataRowsAreRows
<1> HIDE DEF S
<1>2. D!DataRows(b)[i] \in S
  BY <1>1
<1>3. QED
  BY <1>2 DEF S

\* The observations of a decoded workbook are rows whose columns add up
\* (decode.go:198).
LEMMA XLSXLists ==
  ASSUME NEW b, IsList(b.rows), NEW layout, NEW f, D!DecodeXLSX(b, layout, f).class = "none"
  PROVE  LET obs == D!DecodeXLSX(b, layout, f).observations
         IN  \A i \in DOMAIN obs : \E k \in DOMAIN b.rows :
               /\ D!ReadableRow(b.rows[k], layout)
               /\ obs[i] = [period |-> D!Period("M", b.rows[k].label.year,
                                                b.rows[k].label.ordinal),
                            value |-> b.rows[k].cells[layout.total]]
<1> DEFINE rows == D!DataRows(b)
           checks == <<
        <<layout.period = "" \/ layout.total = "" \/ layout.components = <<>>
            \/ layout.headerRow <= 0, "unclassified">>,
        <<~b.parses \/ layout.sheet \notin b.sheets, "schema-drift">>,
        <<\E i \in DOMAIN rows : ~D!ReadableRow(rows[i], layout), "schema-drift">>,
        <<rows = <<>>, "silent-empty">>,
        <<f # "M", "schema-drift">> >>
           failure == D!FirstFailure(checks)
           obs == [i \in DOMAIN rows |->
                     [period |-> D!Period("M", rows[i].label.year, rows[i].label.ordinal),
                      value |-> rows[i].cells[layout.total]]]
<1>1. failure = "none"
  <2>1. ASSUME failure # "none" PROVE FALSE
    <3>1. D!DecodeXLSX(b, layout, f) = D!Failed(failure)
      BY <2>1 DEF D!DecodeXLSX
    <3> HIDE DEF failure
    <3>2. QED
      BY <2>1, <3>1 DEF D!Failed
  <2> HIDE DEF failure
  <2>2. QED
    BY <2>1
<1>2. D!DecodeXLSX(b, layout, f).observations = obs
  <2> DEFINE observed == [fields |-> {},
                          workbook |-> [sheet |-> layout.sheet,
                                        headerRow |-> layout.headerRow,
                                        fingerprint |-> D!Fingerprint(b, layout),
                                        anchors |-> <<layout.period, layout.total>>]]
  <2>1. D!DecodeXLSX(b, layout, f) = D!Decoded(obs, observed)
    BY <1>1 DEF D!DecodeXLSX, D!Observation
  <2> HIDE DEF obs, observed
  <2>2. QED
    BY <2>1 DEF D!Decoded
<1>3. \A i \in DOMAIN rows : D!ReadableRow(rows[i], layout)
  <2>1. DOMAIN checks = 1..5
    OBVIOUS
  <2>2. \A i \in 1..5 : checks[i][2] # "none"
    <3>1. 1..5 = {1, 2, 3, 4, 5}
      OBVIOUS
    <3>2. /\ checks[1][2] = "unclassified" /\ checks[2][2] = "schema-drift"
          /\ checks[3][2] = "schema-drift" /\ checks[4][2] = "silent-empty"
          /\ checks[5][2] = "schema-drift"
      OBVIOUS
    <3> HIDE DEF checks
    <3>3. QED
      BY <3>1, <3>2
  <2> HIDE DEF checks
  <2>3. \A i \in 1..5 : ~checks[i][1]
    BY <1>1, <2>1, <2>2, NoFailure
  <2>4. ~checks[3][1]
    BY <2>3
  <2> HIDE DEF rows
  <2>5. QED
    BY <2>4 DEF checks
<1> HIDE DEF checks, failure
<1>4. ASSUME NEW i \in DOMAIN obs
      PROVE  \E k \in DOMAIN b.rows :
               /\ D!ReadableRow(b.rows[k], layout)
               /\ obs[i] = [period |-> D!Period("M", b.rows[k].label.year,
                                                b.rows[k].label.ordinal),
                            value |-> b.rows[k].cells[layout.total]]
  <2>1. i \in DOMAIN rows
    OBVIOUS
  <2>2. PICK k \in DOMAIN b.rows : rows[i] = b.rows[k]
    BY <2>1, DataRowsAreOfTheSheet
  <2>3. D!ReadableRow(b.rows[k], layout)
    BY <1>3, <2>1, <2>2
  <2>4. QED
    BY <2>1, <2>2, <2>3
<1> HIDE DEF obs
<1>5. QED
  BY <1>2, <1>4

\* What a decoder makes of a body of the form the code expects, the source
\* says in it.
LEMMA DecodingSays ==
  ASSUME SourcesKeepTheirForm, NEW s \in Setups, s.kind \in Kinds,
         NEW b \in Bodies[s.kind], Decoding(s, b).class = "none"
  PROVE  ListsWhatItSays(b, Decoding(s, b).observations)
<1> DEFINE obs == Decoding(s, b).observations
<1>0. IsList(obs)
  <2>1. Readable(Decoding(s, b), s.frequency)
    BY DecodingIsReadable
  <2>2. QED
    BY <2>1 DEF Readable, Legible
<1>1. CASE s.kind = "ine-series-cod"
  <2>1. IsList(b.data) /\ b \in Bodies["ine-series-cod"]
    BY <1>1, BodiesAssumption
  <2>2. Decoding(s, b) = D!DecodeINE(b, s.frequency)
    BY <1>1 DEF Decoding
  <2>3. obs = [i \in DOMAIN b.data |->
                 [period |-> D!Period(IF b.data[i].periodo = "Mnn" THEN "M" ELSE "Q",
                                      b.data[i].anyo, b.data[i].ordinal),
                  value |-> b.data[i].valor]]
    BY <2>1, <2>2, INELists
  <2>4. QED
    BY <2>1, <2>3 DEF SourcesKeepTheirForm
<1>2. CASE s.kind = "eurostat-dataset"
  <2> DEFINE times == D!Categories(b, "time")
  <2>1. /\ \A dim \in DOMAIN b.category :
             /\ IsFiniteSet(DOMAIN b.category[dim])
             /\ \A label \in DOMAIN b.category[dim] : b.category[dim][label] \in Int
        /\ IsList(b.id) /\ b \in Bodies["eurostat-dataset"]
    BY <1>2, BodiesAssumption
  <2>2. Decoding(s, b) = D!DecodeEurostat(b, s.frequency)
    BY <1>2 DEF Decoding
  <2>3. /\ \A k \in DOMAIN b.id :
             b.id[k] # "time" => Cardinality(DOMAIN D!Categories(b, b.id[k])) = 1
        /\ \A i \in DOMAIN obs : \E label \in DOMAIN times :
             /\ label.form \in DOMAIN D!FrequencyOf
             /\ obs[i].period = D!NormalizePeriodLabel(label)
             /\ LET pos == D!CubePosition(b, times[label])
                IN  IF pos \in DOMAIN b.value THEN obs[i].value = b.value[pos]
                    ELSE obs[i].value = NoValue
    BY <2>1, <2>2, EurostatLists
  <2>4. \A label \in DOMAIN times :
          LET pos == D!CubePosition(b, times[label])
          IN  label.form \in DOMAIN D!FrequencyOf /\ pos \in DOMAIN b.value =>
                Says(b, D!NormalizePeriodLabel(label), b.value[pos])
    <3>1. \A k \in DOMAIN b.id :
            b.id[k] # "time" => D!Cardinality(DOMAIN D!Categories(b, b.id[k])) = 1
      BY <2>3, DCardinality
    <3>2. QED
      BY <2>1, <2>3, <3>1 DEF SourcesKeepTheirForm
  <2> HIDE DEF obs, times
  <2>5. ASSUME NEW i \in DOMAIN obs, obs[i].value # NoValue
        PROVE  Says(b, obs[i].period, obs[i].value)
    <3>1. PICK label \in DOMAIN times :
             /\ label.form \in DOMAIN D!FrequencyOf
             /\ obs[i].period = D!NormalizePeriodLabel(label)
             /\ LET pos == D!CubePosition(b, times[label])
                IN  IF pos \in DOMAIN b.value THEN obs[i].value = b.value[pos]
                    ELSE obs[i].value = NoValue
      BY <2>3
    <3> DEFINE pos == D!CubePosition(b, times[label])
    <3>2. pos \in DOMAIN b.value /\ obs[i].value = b.value[pos]
      BY <2>5, <3>1
    <3>3. QED
      BY <2>4, <3>1, <3>2
  <2>6. QED
    BY <1>0, <2>5, SaidThroughout DEF obs
<1>3. CASE s.kind = "xlsx-url"
  <2>1. IsList(b.rows) /\ b \in Bodies["xlsx-url"]
    BY <1>3, BodiesAssumption
  <2>2. Decoding(s, b) = D!DecodeXLSX(b, s.layout, s.frequency)
    BY <1>3 DEF Decoding
  <2>3. \A i \in DOMAIN obs : \E k \in DOMAIN b.rows :
          /\ D!ReadableRow(b.rows[k], s.layout)
          /\ obs[i] = [period |-> D!Period("M", b.rows[k].label.year,
                                           b.rows[k].label.ordinal),
                       value |-> b.rows[k].cells[s.layout.total]]
    BY <2>1, <2>2, XLSXLists
  <2> HIDE DEF obs
  <2>4. ASSUME NEW i \in DOMAIN obs PROVE Says(b, obs[i].period, obs[i].value)
    <3>1. PICK k \in DOMAIN b.rows :
             /\ D!ReadableRow(b.rows[k], s.layout)
             /\ obs[i] = [period |-> D!Period("M", b.rows[k].label.year,
                                              b.rows[k].label.ordinal),
                          value |-> b.rows[k].cells[s.layout.total]]
      BY <2>3
    <3> DEFINE row == b.rows[k]
               total == row.cells[s.layout.total]
               sum == D!ComponentSum(row, s.layout.components)
               p == D!Period("M", row.label.year, row.label.ordinal)
    <3>2. /\ total \notin {Blank, Text}
          /\ \A c \in DOMAIN s.layout.components :
               row.cells[s.layout.components[c]] # Text
          /\ total - sum <= D!Tolerance(s.layout)
          /\ -(total - sum) <= D!Tolerance(s.layout)
      BY <3>1 DEF D!ReadableRow, D!AddsUp
    <3>3. /\ total \notin {Blank, Text}
          /\ \A c \in DOMAIN s.layout.components :
               row.cells[s.layout.components[c]] # Text
          /\ total - sum <= D!Tolerance(s.layout)
          /\ -(total - sum) <= D!Tolerance(s.layout)
          => Says(b, p, total)
      BY <1>3, <2>1 DEF SourcesKeepTheirForm
    <3>4. Says(b, p, total)
      BY <3>2, <3>3
    <3> HIDE DEF p, total
    <3>5. obs[i].period = p /\ obs[i].value = total
      BY <3>1 DEF p, total
    <3>6. QED
      BY <3>4, <3>5
  <2>5. QED
    BY <1>0, <2>4, SaidThroughout DEF obs
<1>4. QED
  BY <1>1, <1>2, <1>3 DEF Kinds

\* What a row says after a run that replaced it: what the run has listed last.
LEMMA WrittenLast ==
  ASSUME NEW W, NEW n \in Nat, DOMAIN W = 1..n, NEW p \in DOMAIN Written(W),
         ~Kept(W, p)
  PROVE  LET g == R!Greatest(Places(W, p))
         IN  /\ g \in DOMAIN W /\ W[g].period = p
             /\ \A j \in DOMAIN W : W[j].period = p => j <= g
             /\ Written(W)[p].value = W[g].value
             /\ Written(W)[p].run = Len(runs)
<1> DEFINE g == R!Greatest(Places(W, p))
           old == IF p \in DOMAIN table THEN table[p].since ELSE Len(runs)
<1>1. /\ DOMAIN Written(W) = DOMAIN table \cup PeriodsOf(W)
      /\ Written(W)[p] = [value |-> W[g].value, run |-> Len(runs), since |-> old]
  BY DEF Written, Kept, Places, PeriodsOf
<1>2. Places(W, p) # {} /\ Places(W, p) \subseteq 1..n
  BY <1>1 DEF Kept, Places, PeriodsOf
<1>3. g \in Places(W, p) /\ \A j \in Places(W, p) : g >= j
  BY <1>2, GreatestOf
<1> HIDE DEF g, old
<1>4. Written(W)[p].value = W[g].value /\ Written(W)[p].run = Len(runs)
  BY <1>1
<1>5. g \in Int /\ \A j \in Places(W, p) : j \in Int /\ j <= g
  BY <1>2, <1>3
<1>6. QED
  BY <1>3, <1>4, <1>5 DEF g, Places

\* A run publishes what the source says in its payload.
LEMMA PublishKeepsTheWord ==
  ASSUME SourcesKeepTheirForm, SeriesShape, PublishedIsTheSourcesWord, Publish
  PROVE  PublishedIsTheSourcesWord'
<1> DEFINE W == Writable(Incoming)
<1>1. /\ pc = "rules" /\ decoded.class = "none" /\ table' = Written(W)
  BY DEF Publish
<1>2. /\ Len(Incoming) \in Nat
      /\ Len(W) \in 0..Len(Incoming) /\ DOMAIN W = 1..Len(W)
      /\ \A p \in DOMAIN table' : RowAfter(W, table', p)
      /\ Len(runs) \in Nat \ {0} /\ DOMAIN runs = 1..Len(runs)
      /\ \A i \in DOMAIN runs : runs'[i].body = runs[i].body
  BY PublishWrites
<1>3. /\ setup \in Setups /\ setup.kind \in Kinds /\ body \in Bodies[setup.kind]
      /\ decoded = Decoding(setup, body) /\ runs[Len(runs)].body = body
  BY <1>1 DEF SeriesShape, LogShape, CallShape
<1>4. ListsWhatItSays(body, Incoming)
  BY <1>1, <1>3, DecodingSays DEF Incoming
<1>5. \A i \in DOMAIN W :
        (\A j \in DOMAIN W : W[j].period = W[i].period => j <= i)
          => Says(body, W[i].period, W[i].value)
  BY <1>4 DEF ListsWhatItSays
<1>6. Len(W) \in Nat
  BY <1>2
<1>7. runs'[Len(runs)].body = body
  BY <1>2, <1>3
<1> HIDE DEF W
<1>8. ASSUME NEW p \in DOMAIN table'
      PROVE  Says(runs'[table'[p].run].body, p, table'[p].value)
  <2>1. CASE Kept(W, p)
    <3>1. p \in DOMAIN table /\ table'[p] = table[p]
      BY <1>2, <2>1 DEF RowAfter, Kept
    <3>2. Says(runs[table[p].run].body, p, table[p].value)
      BY <3>1 DEF PublishedIsTheSourcesWord, Says
    <3>3. runs'[table[p].run].body = runs[table[p].run].body
      BY <1>2, <3>1, EarlierRuns
    <3>4. QED
      BY <3>1, <3>2, <3>3
  <2>2. CASE ~Kept(W, p)
    <3> DEFINE g == R!Greatest(Places(W, p))
    <3>1. /\ g \in DOMAIN W /\ W[g].period = p
          /\ \A j \in DOMAIN W : W[j].period = p => j <= g
          /\ table'[p].value = W[g].value /\ table'[p].run = Len(runs)
      BY <1>1, <1>2, <1>6, <1>8, <2>2, WrittenLast
    <3> HIDE DEF g
    <3>2. Says(body, p, W[g].value)
      BY <1>5, <3>1
    <3>3. QED
      BY <1>7, <3>1, <3>2
  <2>3. QED
    BY <2>1, <2>2
<1>9. QED
  BY <1>8 DEF PublishedIsTheSourcesWord, Says

\* Of sources that keep their form, every published value is what the source
\* said of that period in the payload its run names, whichever decoder it came
\* through and however many runs came after (decode.go:198, envelope.go:133).
THEOREM SeriesPublishesTheWord ==
  SourcesKeepTheirForm => (Spec => []PublishedIsTheSourcesWord)
<1> SUFFICES ASSUME SourcesKeepTheirForm PROVE Spec => []PublishedIsTheSourcesWord
  OBVIOUS
<1>1. Init => PublishedIsTheSourcesWord
  BY DEF Init, PublishedIsTheSourcesWord
<1>2. SeriesShape /\ PublishedIsTheSourcesWord /\ [Next]_vars => PublishedIsTheSourcesWord'
  <2> SUFFICES ASSUME SeriesShape, PublishedIsTheSourcesWord, [Next]_vars
               PROVE  PublishedIsTheSourcesWord'
    OBVIOUS
  <2>1. CASE Publish
    BY <2>1, PublishKeepsTheWord
  <2>2. CASE ~Publish
    <3>1. /\ table' = table
          /\ \A p \in DOMAIN table : runs'[table[p].run] = runs[table[p].run]
      BY <2>2, RowsStay
    <3>2. QED
      BY <3>1 DEF PublishedIsTheSourcesWord
  <2>3. QED
    BY <2>1, <2>2
<1>3. QED
  BY <1>1, <1>2, ShapeHolds, PTL DEF Spec

-----------------------------------------------------------------------------
(* Revisions *)

\* Further steps lead to no earlier place.
LEMMA AheadIsLater ==
  ASSUME NEW p \in ValidPeriods, NEW d \in Nat, NEW n \in Nat, d <= n
  PROVE  ~R!Before(R!Ahead(p, n), R!Ahead(p, d))
<1> DEFINE k == R!StepsPerYear(p.freq)
           y == p.year
           a == p.ordinal - 1 + d
           b == p.ordinal - 1 + n
<1>1. k \in {1, 4, 12} /\ y \in Int /\ p.ordinal \in 1..k
  BY ValidSteps
<1>2. /\ R!Ahead(p, d) = [freq |-> p.freq, year |-> y + (a \div k), ordinal |-> (a % k) + 1]
      /\ R!Ahead(p, n) = [freq |-> p.freq, year |-> y + (b \div k), ordinal |-> (b % k) + 1]
  BY DEF R!Ahead, R!Period
<1>3. a \in Nat /\ b \in Nat /\ a <= b
  BY <1>1
<1> HIDE DEF k, y, a, b
<1>4. /\ R!Ahead(p, d).year = y + (a \div k) /\ R!Ahead(p, d).ordinal = (a % k) + 1
      /\ R!Ahead(p, n).year = y + (b \div k) /\ R!Ahead(p, n).ordinal = (b % k) + 1
  BY <1>2
<1>5. \/ a \div k < b \div k
      \/ a \div k = b \div k /\ a % k <= b % k
  <2>1. CASE k = 1
    BY <1>3, <2>1
  <2>2. CASE k = 4
    BY <1>3, <2>2
  <2>3. CASE k = 12
    BY <1>3, <2>3
  <2>4. QED
    BY <1>1, <2>1, <2>2, <2>3
<1>6. a \div k \in Int /\ b \div k \in Int /\ a % k \in Int /\ b % k \in Int
  BY <1>1, <1>3
<1>7. QED
  BY <1>1, <1>4, <1>5, <1>6 DEF R!Before

\* A distance that is counted to its end leads to the latest period.
LEMMA DistanceLeadsThere ==
  ASSUME NEW p, NEW q, R!BackDistance(p, q) # R!Endless
  PROVE  /\ R!BackDistance(p, q) \in 0..MaxWalk
         /\ R!Same(R!Ahead(p, R!BackDistance(p, q)), q)
<1> DEFINE hits == {n \in 0..MaxWalk : R!Same(R!Ahead(p, n), q)}
<1>1. MaxWalk \in Nat
  BY BoundsAssumption
<1>2. hits # {} /\ R!BackDistance(p, q) = R!Least(hits)
  BY DEF R!BackDistance
<1>3. R!Least(hits) \in hits
  <2>1. hits \subseteq 0..MaxWalk
    OBVIOUS
  <2> HIDE DEF hits
  <2>2. IsFiniteSet(0..MaxWalk) /\ 0..MaxWalk \subseteq Int
    BY <1>1, FS_Interval
  <2>3. hits \in SUBSET Int /\ IsFiniteSet(hits)
    BY <2>1, <2>2, FS_Subset
  <2>4. \E i \in hits : \A j \in hits : i <= j
    BY <1>2, <2>3, FiniteHasLeast
  <2>5. QED
    BY <2>4 DEF R!Least
<1>4. QED
  BY <1>2, <1>3

\* The periods that the vintage and the payload list.
Seen == DOMAIN table \cup PeriodsOf(Incoming)

\* The latest period of a listing and a payload is one of theirs, and none of
\* theirs is after it.
LEMMA LatestSeen ==
  ASSUME NEW prior, IsListing(prior, Len(prior)), IsList(Incoming), Len(Incoming) # 0,
         Seen \subseteq ValidPeriods
  PROVE  LET latest == R!LatestPeriod(prior \o Incoming)
         IN  latest \in Seen /\ \A q \in Seen : ~R!Before(latest, q)
<1> DEFINE m == Len(prior)
           l == Len(Incoming)
           all == prior \o Incoming
           latest == R!LatestPeriod(all)
<1>1. /\ m \in Nat /\ IsList(prior) /\ l \in Nat \ {0} /\ DOMAIN Incoming = 1..l
      /\ \A i \in 1..m : prior[i].period \in DOMAIN table
      /\ \A p \in DOMAIN table : \E i \in 1..m : prior[i].period = p
  BY ListIs DEF IsListing
<1>2. /\ DOMAIN all = 1..(m + l)
      /\ \A i \in 1..m : all[i] = prior[i]
      /\ \A i \in 1..l : all[m + i] = Incoming[i]
  BY <1>1, ConcatIs
<1> HIDE DEF m, l, all, latest
<1>3. \A i \in 1..l : Incoming[i].period \in Seen
  BY <1>1 DEF PeriodsOf, Seen
<1>4. ASSUME NEW i \in 1..(m + l) PROVE all[i].period \in Seen
  <2>1. CASE i \in 1..m
    BY <1>1, <1>2, <2>1 DEF Seen
  <2>2. CASE ~(i \in 1..m)
    <3> DEFINE j == i - m
    <3>1. j \in 1..l /\ m + j = i
      BY <1>1, <2>2
    <3> HIDE DEF j
    <3>2. QED
      BY <1>2, <1>3, <3>1
  <2>3. QED
    BY <2>1, <2>2
<1>5. ASSUME NEW q \in Seen PROVE \E i \in 1..(m + l) : all[i].period = q
  <2>1. CASE q \in DOMAIN table
    <3>1. PICK i \in 1..m : prior[i].period = q
      BY <1>1, <2>1
    <3>2. i \in 1..(m + l) /\ all[i].period = q
      BY <1>1, <1>2, <3>1
    <3>3. QED
      BY <3>2
  <2>2. CASE q \in PeriodsOf(Incoming)
    <3>1. PICK i \in 1..l : Incoming[i].period = q
      BY <1>1, <2>2 DEF PeriodsOf
    <3>2. m + i \in 1..(m + l) /\ all[m + i].period = q
      BY <1>1, <1>2, <3>1
    <3>3. QED
      BY <3>2
  <2>3. QED
    BY <2>1, <2>2 DEF Seen
<1>6. PICK k \in 1..(m + l) :
        /\ latest = all[k].period
        /\ \A j \in 1..(m + l) : ~R!Before(all[k].period, all[j].period)
  <2>1. m + l \in Nat \ {0}
    BY <1>1
  <2>2. \A j \in 1..(m + l) : all[j].period \in ValidPeriods
    BY <1>4
  <2>3. QED
    BY <1>2, <2>1, <2>2, LatestOf DEF latest
<1>7. latest \in Seen /\ \A q \in Seen : ~R!Before(latest, q)
  BY <1>4, <1>5, <1>6
<1>8. QED
  BY <1>7 DEF latest, all

\* A run that publishes found no revision in some listing that needs a
\* signature, and the rule had counted every distance to its end.
LEMMA PublishSeesRevisions ==
  ASSUME Publish
  PROVE  \E prior \in Listings :
           /\ R!Rule4Revision(Context(prior), Incoming) = {}
           /\ R!Rule4Returns(Context(prior), Incoming)
<1> DEFINE contexts == {Context(prior) : prior \in Listings}
           returning == {ctx \in contexts : R!Rule4Returns(ctx, Incoming)}
<1>1. "publish" \in {R!Gate(R!SixRules(ctx, Incoming)) : ctx \in returning}
  BY DEF Publish, Verdicts
<1>2. PICK ctx \in returning : R!Gate(R!SixRules(ctx, Incoming)) = "publish"
  BY <1>1
<1>3. PICK prior \in Listings : ctx = Context(prior)
  BY <1>2
<1>4. R!Rule4Returns(ctx, Incoming)
  BY <1>2
<1>5. \A f \in R!SixRules(ctx, Incoming) : f.severity # "block-requires-signoff"
  BY <1>2 DEF R!Gate
<1>6. \A f \in R!Rule4Revision(ctx, Incoming) : f.severity = "block-requires-signoff"
  <2>1. \A r, p : R!Finding(r, "block-requires-signoff", p).severity
                    = "block-requires-signoff"
    BY DEF R!Finding
  <2>2. QED
    BY <2>1 DEF R!Rule4Revision
<1>7. R!Rule4Revision(ctx, Incoming) = {}
  BY <1>5, <1>6 DEF R!SixRules
<1>8. QED
  BY <1>3, <1>4, <1>7

\* The window of the configuration, as the rule reads it.
Window == IF setup.maxBackward <= 0 THEN R!DefaultMaxBackwardPeriods ELSE setup.maxBackward

\* An observation of the payload that says something else than the vintage is
\* one of the revisions whose distance the rule has measured.
LEMMA RevisionMeasured ==
  ASSUME NEW prior, IsListing(prior, Len(prior)),
         DOMAIN table \subseteq ValidPeriods, Uniform(DOMAIN table),
         NEW p \in DOMAIN table,
         NEW i \in DOMAIN Incoming, Incoming[i].period = p,
         Incoming[i].value # table[p].value,
         R!Rule4Revision(Context(prior), Incoming) = {},
         R!Rule4Returns(Context(prior), Incoming)
  PROVE  LET distance == R!BackDistance(p, R!LatestPeriod(prior \o Incoming))
         IN  distance # R!Endless /\ ~(distance >= Window)
<1> DEFINE ctx == Context(prior)
           m == Len(prior)
           o == Incoming[i]
           Known == {j \in DOMAIN prior : R!Same(prior[j].period, o.period)}
           distance == R!BackDistance(p, R!LatestPeriod(prior \o Incoming))
<1>1. /\ m \in Nat /\ DOMAIN prior = 1..m
      /\ \A j \in 1..m : /\ prior[j].period \in DOMAIN table
                         /\ prior[j].value = table[prior[j].period].value
      /\ \E j \in 1..m : prior[j].period = p
  BY ListIs DEF IsListing
<1>2. ctx.prior = prior
  BY ContextIs
<1>3. Known # {} /\ Known \subseteq 1..m
  <2>1. PICK j \in 1..m : prior[j].period = p
    BY <1>1
  <2>2. j \in Known
    BY <1>1, <2>1 DEF R!Same
  <2>3. QED
    BY <1>1, <2>2
<1>4. R!Least(Known) \in Known
  <2> HIDE DEF Known, m
  <2>1. QED
    BY <1>1, <1>3, LeastOf
<1>5. prior[R!Least(Known)].value # o.value
  <2> DEFINE k == R!Least(Known)
  <2>1. k \in 1..m /\ R!Same(prior[k].period, p)
    BY <1>3, <1>4
  <2> HIDE DEF k, Known
  <2>2. prior[k].period \in DOMAIN table /\ prior[k].period.freq = p.freq
    BY <1>1, <2>1 DEF Uniform
  <2>3. prior[k].period = p
    BY <2>1, <2>2, SameIsEqual
  <2>4. QED
    BY <1>1, <2>1, <2>3 DEF k
<1>6. o \in R!Revisions(ctx, Incoming)
  <2>1. /\ {j \in DOMAIN ctx.prior : R!Same(ctx.prior[j].period, o.period)} = Known
        /\ ctx.prior[R!Least(Known)].value # o.value
    BY <1>2, <1>5
  <2> HIDE DEF ctx
  <2>2. QED
    BY <1>3, <2>1 DEF R!Revisions
<1>7. <<p, distance>> \in R!RevisionDistances(ctx, Incoming)
  <2> HIDE DEF ctx
  <2>1. QED
    BY <1>2, <1>6 DEF R!RevisionDistances
<1>8. distance # R!Endless
  <2> DEFINE d == <<p, distance>>
  <2>1. d \in R!RevisionDistances(ctx, Incoming) /\ d[2] = distance
    BY <1>7
  <2> HIDE DEF ctx, distance, d
  <2>2. d[2] # R!Endless
    BY <2>1 DEF R!Rule4Returns, ctx
  <2>3. QED
    BY <2>1, <2>2
<1>9. ~(distance >= Window)
  <2> DEFINE d == <<p, distance>>
  <2>1. d \in R!RevisionDistances(ctx, Incoming) /\ d[2] = distance
    BY <1>7
  <2>2. ctx.maxBackward = setup.maxBackward
    BY DEF Context
  <2>3. R!Rule4Revision(ctx, Incoming) = {}
    OBVIOUS
  <2> HIDE DEF ctx, distance, d
  <2>4. ~(d[2] >= Window)
    BY <2>1, <2>2, <2>3 DEF R!Rule4Revision, Window
  <2>5. QED
    BY <2>1, <2>4
<1>10. QED
  BY <1>8, <1>9

\* A revision that is published is a recent one.
LEMMA PublishedRevisionIsRecent ==
  ASSUME SeriesShape, Publish, OneFrequency,
         NEW p \in DOMAIN table, table'[p].value # table[p].value,
         NEW q \in Seen
  PROVE  ~R!Before(R!Ahead(p, Window - 1), q)
<1> DEFINE W == Writable(Incoming)
<1>1. /\ IsFiniteSet(DOMAIN table) /\ DOMAIN table \subseteq ValidPeriods
      /\ setup \in Setups
  BY DEF SeriesShape, TableShape, CallShape
<1>2. Uniform(DOMAIN table)
  BY OneFrequencyIsUniform
<1>3. /\ IsList(Incoming) /\ Len(Incoming) \in Nat \ {0}
      /\ DOMAIN Incoming = 1..Len(Incoming)
      /\ \A i \in 1..Len(Incoming) : Incoming[i].period \in ValidPeriods
      /\ Len(W) \in 0..Len(Incoming) /\ DOMAIN W = 1..Len(W)
      /\ \A i \in 1..Len(W) : W[i] = Incoming[i]
      /\ p \in DOMAIN table' /\ RowAfter(W, table', p)
  BY PublishWrites
<1>4. Seen \subseteq ValidPeriods
  BY <1>1, <1>3 DEF Seen, PeriodsOf
<1>5. PICK i \in DOMAIN W : W[i].period = p /\ W[i].value # table[p].value
  <2> HIDE DEF W
  <2>1. ~Kept(W, p)
    BY <1>3 DEF RowAfter
  <2>2. QED
    BY <2>1 DEF Kept, Places
<1>6. i \in DOMAIN Incoming /\ Incoming[i] = W[i]
  <2> HIDE DEF W
  <2>1. QED
    BY <1>3, <1>5
<1>7. PICK prior \in Listings : /\ R!Rule4Revision(Context(prior), Incoming) = {}
                                /\ R!Rule4Returns(Context(prior), Incoming)
  BY PublishSeesRevisions
<1>8. IsListing(prior, Len(prior))
  BY <1>1, ListingsList
<1> DEFINE latest == R!LatestPeriod(prior \o Incoming)
           distance == R!BackDistance(p, latest)
<1>9. distance # R!Endless /\ ~(distance >= Window)
  <2> HIDE DEF W
  <2>1. QED
    BY <1>1, <1>2, <1>5, <1>6, <1>7, <1>8, RevisionMeasured
<1>10. latest \in Seen /\ \A r \in Seen : ~R!Before(latest, r)
  BY <1>3, <1>4, <1>8, LatestSeen
<1> HIDE DEF latest
<1>11. distance \in Nat /\ R!Same(R!Ahead(p, distance), latest)
  <2>1. distance \in 0..MaxWalk /\ R!Same(R!Ahead(p, distance), latest)
    BY <1>9, DistanceLeadsThere
  <2>2. QED
    BY <2>1, BoundsAssumption
<1> HIDE DEF distance
<1>12. Window \in Nat \ {0}
  BY <1>1, WindowAssumption DEF Window, R!DefaultMaxBackwardPeriods
<1>13. Window - 1 \in Nat /\ distance <= Window - 1
  BY <1>9, <1>11, <1>12
<1> DEFINE far == R!Ahead(p, Window - 1)
           there == R!Ahead(p, distance)
<1>14. ~R!Before(far, there) /\ IsPlace(far) /\ IsPlace(there)
  BY <1>1, <1>11, <1>13, AheadIsLater, AheadIsPlace
<1>15. IsPlace(latest) /\ IsPlace(q)
  BY <1>4, <1>10, ValidIsPlace
<1>16. ~R!Before(latest, q)
  BY <1>10
<1> HIDE DEF far, there
<1>17. ~R!Before(far, q)
  BY <1>11, <1>14, <1>15, <1>16 DEF R!Before, R!Same, IsPlace, there
<1>18. QED
  BY <1>17 DEF far

\* Without a signature only recent values are revised, whatever the window, and
\* however the source orders what it lists (rule4_revision.go:91).
THEOREM SeriesRevisionsAreRecent == Spec => RevisionsAreRecent
<1>1. SeriesShape /\ [Next]_vars =>
        (OneFrequency => \A p \in DOMAIN table :
           table'[p].value # table[p].value =>
             \A q \in Seen : ~R!Before(R!Ahead(p, Window - 1), q))
  <2> SUFFICES ASSUME SeriesShape, [Next]_vars, OneFrequency,
                      NEW p \in DOMAIN table, table'[p].value # table[p].value,
                      NEW q \in Seen
               PROVE  ~R!Before(R!Ahead(p, Window - 1), q)
    OBVIOUS
  <2>1. CASE Publish
    BY <2>1, PublishedRevisionIsRecent
  <2>2. CASE ~Publish
    BY <2>2, RowsStay
  <2>3. QED
    BY <2>1, <2>2
<1>2. SeriesShape /\ [Next]_vars =>
        (OneFrequency => \A p \in DOMAIN table :
           table'[p].value # table[p].value =>
             LET window == IF setup.maxBackward <= 0 THEN R!DefaultMaxBackwardPeriods
                           ELSE setup.maxBackward
             IN  \A q \in DOMAIN table \cup {Incoming[i].period : i \in DOMAIN Incoming} :
                   ~R!Before(R!Ahead(p, window - 1), q))
  BY <1>1 DEF Seen, PeriodsOf, Window
<1>3. QED
  BY <1>2, ShapeHolds, PTL DEF Spec, RevisionsAreRecent

-----------------------------------------------------------------------------
(* The range of plausible values *)

\* The value v is in the range of the configuration s, where it has one.
InRange(s, v) ==
  /\ s.min # NoValue => ~(v < s.min)
  /\ s.max # NoValue => ~(v > s.max)

\* Every published value is in the range that was configured when it was
\* published.
PublishedInRange ==
  \A p \in DOMAIN table : InRange(runs[table[p].run].setup, table[p].value)

\* Rule 3 looks at every value of the payload, whatever the period and whether
\* or not there is a break.
LEMMA Rule3Ranges ==
  ASSUME NEW prior, R!Rule3Plausibility(Context(prior), Incoming) = {},
         NEW i \in DOMAIN Incoming, Incoming[i].value # NoValue
  PROVE  InRange(setup, Incoming[i].value)
<1>1. ~R!Implausible(Context(prior), Incoming, Incoming[i])
  BY DEF R!Rule3Plausibility
<1>2. Context(prior).min = setup.min /\ Context(prior).max = setup.max
  BY DEF Context
<1>3. QED
  BY <1>1, <1>2 DEF R!Implausible, InRange

\* A value out of the configured range is never published, and a range
\* configured later is not held against what is published already
\* (rule3_plausibility.go:64).
THEOREM SeriesPublishesInRange == Spec => []PublishedInRange
<1>1. Init => PublishedInRange
  BY DEF Init, PublishedInRange
<1>2. SeriesShape /\ PublishedInRange /\ [Next]_vars => PublishedInRange'
  <2> SUFFICES ASSUME SeriesShape, PublishedInRange, [Next]_vars
               PROVE  PublishedInRange'
    OBVIOUS
  <2>1. CASE ~Publish
    <3>1. /\ table' = table
          /\ \A p \in DOMAIN table : runs'[table[p].run] = runs[table[p].run]
      BY <2>1, RowsStay
    <3>2. QED
      BY <3>1 DEF PublishedInRange, InRange
  <2>2. CASE Publish
    <3> DEFINE W == Writable(Incoming)
    <3>1. /\ Len(Incoming) \in Nat /\ DOMAIN Incoming = 1..Len(Incoming)
          /\ Len(W) \in 0..Len(Incoming) /\ DOMAIN W = 1..Len(W)
          /\ \A i \in 1..Len(W) : W[i] = Incoming[i] /\ W[i].value # NoValue
          /\ \A p \in DOMAIN table' : RowAfter(W, table', p)
          /\ Len(runs) \in Nat \ {0} /\ DOMAIN runs = 1..Len(runs)
          /\ \A i \in DOMAIN runs : runs'[i].setup = runs[i].setup
          /\ runs[Len(runs)].setup = setup
      BY <2>2, PublishWrites
    <3>2. PICK prior \in Listings : R!Rule3Plausibility(Context(prior), Incoming) = {}
      BY <2>2, PublishSees
    <3> HIDE DEF W
    <3>3. ASSUME NEW i \in DOMAIN W PROVE InRange(setup, W[i].value)
      <4>1. i \in DOMAIN Incoming /\ W[i] = Incoming[i] /\ W[i].value # NoValue
        BY <3>1
      <4>2. QED
        BY <3>2, <4>1, Rule3Ranges
    <3>4. ASSUME NEW p \in DOMAIN table'
          PROVE  InRange(runs'[table'[p].run].setup, table'[p].value)
      <4>1. CASE Kept(W, p)
        <5>1. p \in DOMAIN table /\ table'[p] = table[p]
          BY <3>1, <4>1 DEF RowAfter, Kept
        <5>2. InRange(runs[table[p].run].setup, table[p].value)
          BY <5>1 DEF PublishedInRange
        <5>3. runs'[table[p].run].setup = runs[table[p].run].setup
          BY <2>2, <3>1, <5>1, EarlierRuns
        <5>4. QED
          BY <5>1, <5>2, <5>3
      <4>2. CASE ~Kept(W, p)
        <5>1. PICK i \in Places(W, p) : table'[p].value = W[i].value
          BY <3>1, <4>2 DEF RowAfter
        <5>2. table'[p].run = Len(runs) /\ i \in DOMAIN W
          BY <3>1, <4>2 DEF RowAfter, Places
        <5>3. runs'[Len(runs)].setup = setup
          BY <3>1
        <5>4. QED
          BY <3>3, <5>1, <5>2, <5>3
      <4>3. QED
        BY <4>1, <4>2
    <3>5. QED
      BY <3>4 DEF PublishedInRange, InRange
  <2>3. QED
    BY <2>1, <2>2
<1>3. QED
  BY <1>1, <1>2, ShapeHolds, PTL DEF Spec

-----------------------------------------------------------------------------
(* Calls get nearer their end *)

\* What is left of a call at most: a request for every attempt and a wait
\* between two of them, the archiving, the decoding and the verdict.
StepsLeft ==
  CASE pc = "fetch" /\ outcome = "none" ->
         4 + 2 * (MaxAttempts - attempt) - (IF waiting THEN 1 ELSE 0)
    [] pc = "fetch" /\ outcome # "none" -> 3
    [] pc = "decode" -> 2
    [] pc = "rules" -> 1
    [] pc = "idle" -> 0

\* The attempts are those of the loop, and a wait is not the last of them.
LEMMA AttemptsOfTheLoop ==
  ASSUME FetchShape
  PROVE  /\ MaxAttempts \in Nat /\ attempt \in 0..MaxAttempts /\ waiting \in BOOLEAN
         /\ waiting => attempt < MaxAttempts /\ outcome = "none"
<1>1. ClientTypes(attempt, waiting, outcome, answers)
  BY ClientTypesAre DEF FetchShape
<1>2. QED
  BY <1>1, MaxAttemptsAssumption DEF ClientTypes, FetchShape

\* What is left is a number.
LEMMA StepsLeftIsBounded ==
  ASSUME FetchShape, pc \in {"idle", "fetch", "decode", "rules"}
  PROVE  StepsLeft \in 0..(2 * MaxAttempts + 4)
<1>1. /\ MaxAttempts \in Nat /\ attempt \in 0..MaxAttempts /\ waiting \in BOOLEAN
      /\ waiting => attempt < MaxAttempts
  BY AttemptsOfTheLoop
<1>2. CASE pc = "fetch" /\ outcome = "none"
  <2>1. StepsLeft = 4 + 2 * (MaxAttempts - attempt) - (IF waiting THEN 1 ELSE 0)
    BY <1>2 DEF StepsLeft
  <2>2. QED
    BY <1>1, <2>1
<1>3. CASE ~(pc = "fetch" /\ outcome = "none")
  <2>1. StepsLeft \in {0, 1, 2, 3}
    BY <1>3 DEF StepsLeft
  <2>2. QED
    BY <1>1, <2>1
<1>4. QED
  BY <1>2, <1>3

\* An answer or the end of a wait is a step forward.
LEMMA FetchingShrinks ==
  ASSUME FetchShape, LogShape, Fetching
  PROVE  StepsLeft' < StepsLeft
<1>1. /\ MaxAttempts \in Nat /\ attempt \in 0..MaxAttempts /\ waiting \in BOOLEAN
      /\ waiting => attempt < MaxAttempts /\ outcome = "none"
  BY AttemptsOfTheLoop
<1>2. pc = "fetch" /\ pc' = "fetch" /\ Client!Step(Bodies[setup.kind])
  BY DEF Fetching
<1>3. CASE Client!Retry
  <2>1. /\ outcome = "none" /\ ~waiting /\ attempt' = attempt
        /\ waiting' = (attempt < MaxAttempts)
        /\ outcome' = IF attempt < MaxAttempts THEN "none" ELSE "retryable-transport"
    BY <1>3 DEF Client!Retry, Client!Answered
  <2>2. StepsLeft = 4 + 2 * (MaxAttempts - attempt)
    BY <1>1, <1>2, <2>1 DEF StepsLeft
  <2>3. CASE attempt < MaxAttempts
    <3>1. StepsLeft' = 4 + 2 * (MaxAttempts - attempt) - 1
      BY <1>2, <2>1, <2>3 DEF StepsLeft
    <3>2. QED
      BY <1>1, <2>2, <3>1
  <2>4. CASE ~(attempt < MaxAttempts)
    <3>1. outcome' # "none"
      BY <2>1, <2>4
    <3>2. StepsLeft' = 3
      BY <1>2, <3>1 DEF StepsLeft
    <3>3. QED
      BY <1>1, <2>2, <3>2
  <2>5. QED
    BY <2>3, <2>4
<1>4. ASSUME outcome = "none", ~waiting, outcome' # "none"
      PROVE  StepsLeft' < StepsLeft
  <2>1. StepsLeft = 4 + 2 * (MaxAttempts - attempt) /\ StepsLeft' = 3
    BY <1>1, <1>2, <1>4 DEF StepsLeft
  <2>2. QED
    BY <1>1, <2>1
<1>5. ASSUME NEW answer \in {"too large", "other status"}, Client!GiveUp(answer)
      PROVE  StepsLeft' < StepsLeft
  <2>1. outcome = "none" /\ ~waiting /\ outcome' = Client!ClassOf(answer)
    BY <1>5 DEF Client!GiveUp, Client!Answered
  <2>2. outcome' # "none"
    BY <2>1 DEF Client!ClassOf
  <2>3. QED
    BY <1>4, <2>1, <2>2
<1>6. ASSUME NEW b \in Bodies[setup.kind], Client!Receive(b)
      PROVE  StepsLeft' < StepsLeft
  <2>1. outcome = "none" /\ ~waiting /\ outcome' = "ok"
    BY <1>6 DEF Client!Receive, Client!Answered
  <2>2. QED
    BY <1>4, <2>1
<1>7. CASE Client!Resume
  <2>1. waiting /\ waiting' = FALSE /\ attempt' = attempt + 1 /\ outcome' = outcome
    BY <1>7 DEF Client!Resume
  <2>2. outcome = "none" /\ attempt < MaxAttempts
    BY <1>1, <2>1
  <2>3. StepsLeft = 4 + 2 * (MaxAttempts - attempt) - 1
    BY <1>2, <2>1, <2>2 DEF StepsLeft
  <2>4. StepsLeft' = 4 + 2 * (MaxAttempts - attempt') - 0
    BY <1>2, <2>1, <2>2 DEF StepsLeft
  <2>5. QED
    BY <1>1, <2>1, <2>3, <2>4
<1>8. QED
  BY <1>2, <1>3, <1>5, <1>6, <1>7 DEF Client!Step

\* A call takes at most so many steps: each of them shortens what is left.
\* Together with SeriesRulesReturn this is all of CallsEnd but the fairness:
\* nothing in a call repeats without end (client.go:219).
THEOREM SeriesCallsShrink ==
  Spec => [][CallStep => /\ StepsLeft \in 1..(2 * MaxAttempts + 4)
                         /\ StepsLeft' \in 0..(StepsLeft - 1)]_vars
<1>1. SeriesShape /\ SeriesShape' /\ CallStep =>
        StepsLeft \in 1..(2 * MaxAttempts + 4) /\ StepsLeft' \in 0..(StepsLeft - 1)
  <2> SUFFICES ASSUME SeriesShape, SeriesShape', CallStep
               PROVE  /\ StepsLeft \in 1..(2 * MaxAttempts + 4)
                      /\ StepsLeft' \in 0..(StepsLeft - 1)
    OBVIOUS
  <2>1. /\ FetchShape /\ LogShape /\ pc \in {"idle", "fetch", "decode", "rules"}
        /\ MaxAttempts \in Nat
    BY AttemptsOfTheLoop DEF SeriesShape, CallShape
  <2>2. StepsLeft \in 0..(2 * MaxAttempts + 4)
    BY <2>1, StepsLeftIsBounded
  <2>3. StepsLeft' \in 0..(2 * MaxAttempts + 4)
    <3>1. FetchShape' /\ pc' \in {"idle", "fetch", "decode", "rules"}
      BY DEF SeriesShape, CallShape
    <3>2. (FetchShape /\ pc \in {"idle", "fetch", "decode", "rules"} =>
             StepsLeft \in 0..(2 * MaxAttempts + 4))'
      BY StepsLeftIsBounded, PTL
    <3>3. QED
      BY <3>1, <3>2
  <2>4. StepsLeft' < StepsLeft
    <3>1. CASE Fetching
      BY <2>1, <3>1, FetchingShrinks
    <3>2. CASE FetchFailed
      <4>1. StepsLeft = 3 /\ StepsLeft' = 0
        BY <3>2 DEF FetchFailed, StepsLeft
      <4>2. QED
        BY <4>1
    <3>3. CASE Archive
      <4>1. StepsLeft = 3 /\ StepsLeft' = 2
        BY <3>3 DEF Archive, StepsLeft
      <4>2. QED
        BY <4>1
    <3>4. CASE Decode
      <4>1. StepsLeft = 2 /\ StepsLeft' = 1
        BY <3>4 DEF Decode, StepsLeft
      <4>2. QED
        BY <4>1
    <3>5. CASE DecodeFailed \/ Block \/ Publish
      <4>1. pc = "rules" /\ pc' = "idle"
        BY <3>5 DEF DecodeFailed, Block, Publish, EndRun
      <4>2. StepsLeft = 1 /\ StepsLeft' = 0
        BY <4>1 DEF StepsLeft
      <4>3. QED
        BY <4>2
    <3>6. QED
      BY <3>1, <3>2, <3>3, <3>4, <3>5 DEF CallStep
  <2>5. QED
    BY <2>1, <2>2, <2>3, <2>4
<1>2. SeriesShape /\ [Next]_vars => SeriesShape'
  BY NextKeepsShape
<1>3. QED
  BY <1>1, <1>2, ShapeHolds, PTL DEF Spec

-----------------------------------------------------------------------------
(* The rules as the pipeline has them *)

\* The rules of IngestPipeline, for which periods are consecutive numbers.
PipelineRules == INSTANCE ValidationRules

\* The number of a period among those of its frequency.
Number(p) == p.year * R!StepsPerYear(p.freq) + p.ordinal - 1

\* The vintage, the payload and the documented gaps, as the pipeline has them.
\* Of a period listed twice, any of the values.
NumberedVintage ==
  [n \in {Number(p) : p \in DOMAIN table} |->
     table[CHOOSE p \in DOMAIN table : Number(p) = n].value]
NumberedPayload ==
  [n \in {Number(p) : p \in PeriodsOf(Incoming)} |->
     Incoming[CHOOSE i \in DOMAIN Incoming : Number(Incoming[i].period) = n].value]
NumberedGaps == {Number(p) : p \in setup.gaps}

\* A period with an ordinal that its year has, in any year.
Regular(p) ==
  /\ p.year \in Int
  /\ R!StepsPerYear(p.freq) \in {1, 4, 12}
  /\ p.ordinal \in 1..R!StepsPerYear(p.freq)

\* The periods of labels are regular.
LEMMA ValidIsRegular == \A p \in ValidPeriods : Regular(p)
BY ValidSteps DEF Regular

\* Numbers are in the order of the calendar.
LEMMA NumbersOrder ==
  ASSUME NEW p, NEW q, Regular(p), Regular(q), p.freq = q.freq
  PROVE  /\ Number(p) \in Int /\ Number(q) \in Int
         /\ R!Before(p, q) <=> Number(p) < Number(q)
         /\ R!Same(p, q) <=> Number(p) = Number(q)
<1> DEFINE k == R!StepsPerYear(p.freq)
           y == p.year
           z == q.year
           a == p.ordinal
           b == q.ordinal
<1>1. /\ k \in {1, 4, 12} /\ y \in Int /\ z \in Int /\ a \in 1..k /\ b \in 1..k
      /\ Number(p) = y * k + a - 1 /\ Number(q) = z * k + b - 1
  BY DEF Regular, Number
<1>2. /\ R!Before(p, q) <=> y < z \/ (y = z /\ a < b)
      /\ R!Same(p, q) <=> y = z /\ a = b
  BY DEF R!Before, R!Same
<1> HIDE DEF k, y, z, a, b
<1>3. CASE k = 1
  BY <1>1, <1>2, <1>3
<1>4. CASE k = 4
  BY <1>1, <1>2, <1>4
<1>5. CASE k = 12
  BY <1>1, <1>2, <1>5
<1>6. QED
  BY <1>1, <1>3, <1>4, <1>5

\* A number is its quotient by the months of a year and its remainder.
LEMMA DivisionBy12 ==
  ASSUME NEW s \in Nat
  PROVE  /\ s \div 12 \in Int /\ s % 12 \in 0..11
         /\ 12 * (s \div 12) + (s % 12) = s
<1>1. s \div 12 \in Int
  OBVIOUS
<1>2. s % 12 \in 0..11
  OBVIOUS
<1>3. 12 * (s \div 12) + (s % 12) = s
  OBVIOUS
<1>4. QED
  BY <1>1, <1>2, <1>3

\* A walk counts.
LEMMA AheadNumber ==
  ASSUME NEW p \in ValidPeriods, NEW n \in Nat
  PROVE  /\ Regular(R!Ahead(p, n)) /\ R!Ahead(p, n).freq = p.freq
         /\ Number(R!Ahead(p, n)) = Number(p) + n
<1> DEFINE k == R!StepsPerYear(p.freq)
           y == p.year
           a == p.ordinal - 1
           s == a + n
           far == R!Ahead(p, n)
<1>1. k \in {1, 4, 12} /\ y \in Int /\ a \in 0..(k - 1)
  BY ValidSteps
<1>2. /\ far.freq = p.freq /\ far.year = y + (s \div k) /\ far.ordinal = (s % k) + 1
      /\ Number(p) = y * k + a
  <2>1. Number(p) = y * k + p.ordinal - 1 /\ p.ordinal \in Int
    BY ValidSteps DEF Number
  <2>2. Number(p) = y * k + a
    BY <1>1, <2>1
  <2>3. QED
    BY <2>2 DEF R!Ahead, R!Period
<1>3. Number(far) = far.year * k + far.ordinal - 1
  BY <1>2 DEF Number
<1>4. s \in Nat /\ s = a + n
  BY <1>1
<1> HIDE DEF k, y, a, s, far
<1>5. /\ s \div k \in Int /\ s % k \in 0..(k - 1)
      /\ (s \div k) * k + (s % k) = s
  <2>1. CASE k = 1
    BY <1>4, <2>1
  <2>2. CASE k = 4
    BY <1>4, <2>2
  <2>3. CASE k = 12
    <3>1. /\ s \div 12 \in Int /\ s % 12 \in 0..11
          /\ 12 * (s \div 12) + (s % 12) = s
      BY <1>4, DivisionBy12
    <3>2. (s \div 12) * 12 = 12 * (s \div 12)
      BY <3>1
    <3>3. QED
      BY <2>3, <3>1, <3>2
  <2>4. QED
    BY <1>1, <2>1, <2>2, <2>3
<1>6. Number(far) = Number(p) + n
  <2> DEFINE u == s \div k
             v == s % k
  <2>1. Number(far) = (y + u) * k + (v + 1) - 1 /\ Number(p) = y * k + a
    BY <1>2, <1>3
  <2>2. u \in Int /\ v \in Int /\ u * k + v = a + n
    BY <1>1, <1>4, <1>5
  <2> HIDE DEF u, v
  <2>3. CASE k = 1
    BY <1>1, <2>1, <2>2, <2>3
  <2>4. CASE k = 4
    BY <1>1, <2>1, <2>2, <2>4
  <2>5. CASE k = 12
    BY <1>1, <2>1, <2>2, <2>5
  <2>6. QED
    BY <1>1, <2>3, <2>4, <2>5
<1>7. far.ordinal \in 1..k /\ far.year \in Int
  <2>1. CASE k = 1
    BY <1>1, <1>2, <1>5, <2>1
  <2>2. CASE k = 4
    BY <1>1, <1>2, <1>5, <2>2
  <2>3. CASE k = 12
    BY <1>1, <1>2, <1>5, <2>3
  <2>4. QED
    BY <1>1, <2>1, <2>2, <2>3
<1>8. Regular(far)
  BY <1>1, <1>2, <1>7 DEF Regular, k
<1>9. QED
  BY <1>2, <1>6, <1>8 DEF far

\* The latest number is that of the latest period.
LEMMA LatestNumber ==
  ASSUME NEW S \in SUBSET ValidPeriods, Uniform(S), NEW latest \in S,
         \A q \in S : ~R!Before(latest, q)
  PROVE  /\ PipelineRules!LatestPeriod({Number(p) : p \in S}) = Number(latest)
         /\ \A q \in S : Number(q) \in Int /\ Number(q) <= Number(latest)
<1> DEFINE N == {Number(p) : p \in S}
<1>1. \A q \in S : Number(q) \in Int /\ Number(q) <= Number(latest)
  <2>1. SUFFICES ASSUME NEW q \in S
                 PROVE  Number(q) \in Int /\ Number(q) <= Number(latest)
    OBVIOUS
  <2>2. Regular(latest) /\ Regular(q) /\ latest.freq = q.freq
    BY ValidIsRegular DEF Uniform
  <2>3. QED
    BY <2>2, NumbersOrder
<1>2. Number(latest) \in N /\ \A m \in N : m \in Int /\ m <= Number(latest)
  BY <1>1
<1> HIDE DEF N
<1>3. PipelineRules!LatestPeriod(N) = Number(latest)
  BY <1>2 DEF PipelineRules!LatestPeriod
<1>4. QED
  BY <1>1, <1>3 DEF N

\* What a listing and the payload list was seen.
LEMMA ListedIsSeen ==
  ASSUME NEW prior, IsListing(prior, Len(prior)), IsList(Incoming),
         NEW x, R!HasPeriod(prior \o Incoming, x)
  PROVE  \/ \E p \in DOMAIN table : R!Same(p, x)
         \/ \E i \in DOMAIN Incoming : R!Same(Incoming[i].period, x)
<1> DEFINE m == Len(prior)
           l == Len(Incoming)
           all == prior \o Incoming
<1>1. /\ m \in Nat /\ IsList(prior) /\ l \in Nat /\ DOMAIN Incoming = 1..l
      /\ \A i \in 1..m : prior[i].period \in DOMAIN table
  BY ListIs DEF IsListing
<1>2. /\ DOMAIN all = 1..(m + l)
      /\ \A i \in 1..m : all[i] = prior[i]
      /\ \A i \in 1..l : all[m + i] = Incoming[i]
  BY <1>1, ConcatIs
<1>3. PICK i \in DOMAIN all : R!Same(all[i].period, x)
  BY DEF R!HasPeriod
<1> HIDE DEF m, l, all
<1>4. CASE i \in 1..m
  BY <1>1, <1>2, <1>3, <1>4
<1>5. CASE ~(i \in 1..m)
  <2> DEFINE j == i - m
  <2>1. j \in 1..l /\ m + j = i
    BY <1>1, <1>2, <1>3, <1>5
  <2> HIDE DEF j
  <2>2. all[i] = Incoming[j] /\ j \in DOMAIN Incoming
    BY <1>1, <1>2, <2>1
  <2>3. QED
    BY <1>3, <2>2
<1>6. QED
  BY <1>4, <1>5

\* Same numbers are same periods.
LEMMA NumberedOnce ==
  ASSUME NEW S \in SUBSET ValidPeriods, Uniform(S), NEW p \in S, NEW q \in S,
         Number(p) = Number(q)
  PROVE  p = q
<1>1. Regular(p) /\ Regular(q) /\ p.freq = q.freq
  BY ValidIsRegular DEF Uniform
<1>2. R!Same(p, q)
  BY <1>1, NumbersOrder
<1>3. QED
  BY <1>1, <1>2, SameIsEqual

\* The periods of what a run that publishes has in sight.
LEMMA PublishInSight ==
  ASSUME SeriesShape, Publish, OneFrequency
  PROVE  /\ IsFiniteSet(DOMAIN table) /\ setup \in Setups
         /\ IsList(Incoming) /\ Len(Incoming) \in Nat \ {0}
         /\ DOMAIN Incoming = 1..Len(Incoming)
         /\ Seen \in SUBSET ValidPeriods /\ Uniform(Seen)
         /\ DOMAIN table \subseteq Seen /\ PeriodsOf(Incoming) \subseteq Seen
         /\ \A i \in DOMAIN Incoming : Incoming[i].period \in PeriodsOf(Incoming)
<1>1. /\ IsFiniteSet(DOMAIN table) /\ DOMAIN table \subseteq ValidPeriods
      /\ setup \in Setups
  BY DEF SeriesShape, TableShape, CallShape
<1>2. /\ IsList(Incoming) /\ Len(Incoming) \in Nat \ {0}
      /\ DOMAIN Incoming = 1..Len(Incoming)
      /\ \A i \in 1..Len(Incoming) : Incoming[i].period \in ValidPeriods
  BY PublishWrites
<1>3. Uniform(Seen)
  BY OneFrequencyIsUniform DEF Seen
<1>4. QED
  BY <1>1, <1>2, <1>3 DEF Seen, PeriodsOf

\* The periods of the numbered vintage and payload.
LEMMA NumberedDomains ==
  /\ DOMAIN NumberedVintage = {Number(p) : p \in DOMAIN table}
  /\ DOMAIN NumberedPayload = {Number(p) : p \in PeriodsOf(Incoming)}
BY DEF NumberedVintage, NumberedPayload

\* A payload that is published skips no number.
LEMMA PublishSkipsNothing ==
  ASSUME SeriesShape, Publish, OneFrequency, Months <= MaxWalk
  PROVE  PipelineRules!Rule2Continuity(NumberedVintage, NumberedPayload, NumberedGaps) = {}
<1> DEFINE V == DOMAIN table
           I == PeriodsOf(Incoming)
           NV == {Number(p) : p \in V}
           NI == {Number(p) : p \in I}
           Missed == {n \in PipelineRules!LatestPeriod(NV) + 1
                              .. PipelineRules!LatestPeriod(NI) :
                        n \notin NI \cup NumberedGaps}
<1>0. /\ IsFiniteSet(V) /\ IsList(Incoming) /\ Len(Incoming) \in Nat \ {0}
      /\ DOMAIN Incoming = 1..Len(Incoming)
      /\ Seen \in SUBSET ValidPeriods /\ Uniform(Seen)
      /\ V \subseteq Seen /\ I \subseteq Seen
      /\ \A i \in DOMAIN Incoming : Incoming[i].period \in I
  BY PublishInSight
<1>1. PipelineRules!Rule2Continuity(NumberedVintage, NumberedPayload, NumberedGaps)
        = IF NV = {} \/ NI = {} THEN {} ELSE Missed
  BY NumberedDomains DEF PipelineRules!Rule2Continuity
<1>2. CASE NV = {}
  BY <1>1, <1>2
<1>3. CASE NV # {}
  <2>1. PICK prior \in Listings :
          R!Rule2Continuity(Context(prior), Incoming) = {}
    BY PublishSees
  <2>2. IsListing(prior, Len(prior)) /\ Context(prior).prior = prior
        /\ Context(prior).gaps = setup.gaps
    BY <1>0, <2>1, ListingsList, ContextIs
  <2>3. PICK p \in V : /\ R!LatestPeriod(prior) = p /\ prior # <<>>
                       /\ \A o \in V : ~R!Before(p, o)
    <3> DEFINE m == Len(prior)
    <3>1. /\ m \in Nat /\ DOMAIN prior = 1..m
          /\ \A i \in 1..m : prior[i].period \in V
          /\ \A o \in V : \E i \in 1..m : prior[i].period = o
      BY <2>2, ListIs DEF IsListing
    <3>2. V # {}
      BY <1>3
    <3>3. m \in Nat \ {0} /\ prior # <<>>
      BY <3>1, <3>2
    <3>4. \A i \in 1..m : prior[i].period \in ValidPeriods
      BY <1>0, <3>1
    <3> HIDE DEF m, V
    <3>5. PICK k \in 1..m : /\ R!LatestPeriod(prior) = prior[k].period
                            /\ \A j \in 1..m : ~R!Before(prior[k].period, prior[j].period)
      BY <3>1, <3>3, <3>4, LatestOf
    <3>6. \A o \in V : ~R!Before(prior[k].period, o)
      BY <3>1, <3>5
    <3>7. QED
      BY <3>1, <3>3, <3>5, <3>6
  <2>4. PICK q \in I : /\ R!LatestPeriod(Incoming) = q
                       /\ \A o \in I : ~R!Before(q, o)
    <3> DEFINE l == Len(Incoming)
    <3>1. \A i \in 1..l : Incoming[i].period \in ValidPeriods
      BY <1>0
    <3> HIDE DEF l
    <3>2. PICK k \in 1..l : /\ R!LatestPeriod(Incoming) = Incoming[k].period
                            /\ \A j \in 1..l :
                                 ~R!Before(Incoming[k].period, Incoming[j].period)
      BY <1>0, <3>1, LatestOf DEF l
    <3>3. \A o \in I : \E i \in 1..l : Incoming[i].period = o
      BY <1>0 DEF PeriodsOf, l
    <3>4. Incoming[k].period \in I
      BY <1>0, <3>2 DEF l
    <3> HIDE DEF I
    <3>5. QED
      BY <3>2, <3>3, <3>4
  <2>5. /\ V \in SUBSET ValidPeriods /\ Uniform(V)
        /\ I \in SUBSET ValidPeriods /\ Uniform(I)
        /\ p \in ValidPeriods /\ q \in ValidPeriods /\ p.freq = q.freq
    <3> HIDE DEF V, I
    <3>1. QED
      BY <1>0, <2>3, <2>4 DEF Uniform
  <2>6. /\ PipelineRules!LatestPeriod(NV) = Number(p)
        /\ PipelineRules!LatestPeriod(NI) = Number(q)
    <3> HIDE DEF V, I
    <3>1. PipelineRules!LatestPeriod({Number(x) : x \in V}) = Number(p)
      BY <2>3, <2>5, LatestNumber
    <3>2. PipelineRules!LatestPeriod({Number(x) : x \in I}) = Number(q)
      BY <2>4, <2>5, LatestNumber
    <3>3. QED
      BY <3>1, <3>2
  <2>7. Number(p) \in Int /\ Number(q) \in Int
    BY <2>5, ValidIsRegular, NumbersOrder
  <2>8. ASSUME NEW n \in Number(p) + 1 .. Number(q)
        PROVE  n \in NI \cup NumberedGaps
    <3> DEFINE d == n - Number(p)
               hole == R!Ahead(p, d)
    <3>1. d \in Nat /\ d # 0 /\ Number(p) + d = n /\ n <= Number(q)
      BY <2>7, <2>8
    <3>2. d <= MaxWalk
      <4>1. Number(p) < Number(q)
        BY <2>7, <3>1
      <4>2. R!Before(p, q) /\ IsPlace(p) /\ IsPlace(q)
        BY <2>5, <4>1, ValidIsRegular, NumbersOrder, ValidIsPlace
      <4>3. ~R!Before(q, p)
        BY <4>2, BeforeOrders
      <4>4. PICK e \in 0..Months : R!Same(R!Ahead(p, e), q)
        BY <2>5, <4>3, StepsBetween
      <4>5. Months \in Int /\ MaxWalk \in Nat
        BY BoundsAssumption, YearsAreNumbers DEF Months
      <4>6. e \in Nat /\ e <= MaxWalk
        BY <4>4, <4>5
      <4>7. Number(R!Ahead(p, e)) = Number(q)
        <5>1. /\ Regular(R!Ahead(p, e)) /\ R!Ahead(p, e).freq = p.freq
              /\ Regular(q)
          BY <2>5, <4>6, AheadNumber, ValidIsRegular
        <5>2. QED
          BY <2>5, <4>4, <5>1, NumbersOrder
      <4>8. Number(p) + e = Number(q)
        BY <2>5, <4>6, <4>7, AheadNumber
      <4>9. QED
        BY <2>7, <3>1, <4>5, <4>6, <4>8
    <3>3. /\ Regular(hole) /\ hole.freq = p.freq /\ Number(hole) = n
      <4>1. Number(hole) = Number(p) + d
        BY <2>5, <3>1, AheadNumber
      <4> HIDE DEF d
      <4>2. QED
        BY <2>5, <3>1, <4>1, AheadNumber
    <3> HIDE DEF d
    <3>4. hole \in R!WalkFrom(p)
      <4>1. d \in 0..MaxWalk
        BY <3>1, <3>2, BoundsAssumption
      <4>2. QED
        BY <4>1 DEF R!WalkFrom
    <3> HIDE DEF hole
    <3>5. Regular(p) /\ Regular(q)
      BY <2>5, ValidIsRegular
    <3>6. Number(hole) > Number(p)
      BY <2>7, <3>1, <3>3
    <3>7. hole # p
      BY <2>7, <3>6
    <3>8. hole \in R!WalkFrom(R!Following(p))
      BY <2>5, <3>4, <3>7, WalksOn
    <3>9. \/ R!Before(q, hole)
          \/ R!HasPeriod(prior \o Incoming, hole)
          \/ hole \in setup.gaps
      <4>1. Incoming # <<>>
        BY <1>0
      <4>2. QED
        BY <2>1, <2>2, <2>3, <2>4, <3>8, <4>1, Rule2Sees
    <3>10. ~R!Before(q, hole)
      <4>1. R!Before(q, hole) <=> Number(q) < Number(hole)
        BY <2>5, <3>3, <3>5, NumbersOrder
      <4>2. QED
        BY <2>7, <3>1, <3>3, <4>1
    <3>11. CASE hole \in setup.gaps
      BY <3>3, <3>11 DEF NumberedGaps
    <3>12. CASE R!HasPeriod(prior \o Incoming, hole)
      <4>1. ~(\E x \in V : R!Same(x, hole))
        <5> SUFFICES ASSUME NEW x \in V, R!Same(x, hole) PROVE FALSE
          OBVIOUS
        <5>1. Regular(x) /\ x.freq = hole.freq
          BY <2>3, <2>5, <3>3, ValidIsRegular DEF Uniform
        <5>2. Number(x) = Number(hole)
          BY <3>3, <5>1, NumbersOrder
        <5>3. R!Before(p, x) <=> Number(p) < Number(x)
          BY <3>3, <3>5, <5>1, NumbersOrder
        <5>4. QED
          BY <2>3, <2>7, <3>3, <3>6, <5>2, <5>3
      <4>2. PICK i \in DOMAIN Incoming : R!Same(Incoming[i].period, hole)
        BY <1>0, <2>2, <3>12, <4>1, ListedIsSeen
      <4>3. Incoming[i].period \in I
        BY <1>0
      <4> DEFINE x == Incoming[i].period
      <4>4. Regular(x) /\ x.freq = hole.freq
        BY <2>4, <2>5, <3>3, <4>3, ValidIsRegular DEF Uniform
      <4>5. Number(x) = Number(hole)
        BY <3>3, <4>2, <4>4, NumbersOrder
      <4> HIDE DEF x, I
      <4>6. QED
        BY <3>3, <4>3, <4>5 DEF x
    <3>13. QED
      BY <3>9, <3>10, <3>11, <3>12
  <2>9. Missed = {}
    BY <2>6, <2>8
  <2> HIDE DEF Missed, NV, NI
  <2>10. QED
    BY <1>1, <2>9
<1>4. QED
  BY <1>2, <1>3

\* A payload that is published revises no number that is not recent.
LEMMA PublishRevisesNothingOld ==
  ASSUME SeriesShape, Publish, OneFrequency
  PROVE  PipelineRules!Rule4Revision(NumberedVintage, NumberedPayload, Window) = {}
<1> DEFINE V == DOMAIN table
           I == PeriodsOf(Incoming)
           NV == {Number(p) : p \in V}
           NI == {Number(p) : p \in I}
<1>0. /\ IsFiniteSet(V) /\ IsList(Incoming) /\ Len(Incoming) \in Nat \ {0}
      /\ Seen \in SUBSET ValidPeriods /\ Uniform(Seen)
      /\ V \subseteq Seen /\ I \subseteq Seen
      /\ V \subseteq ValidPeriods /\ Uniform(V)
      /\ \A i \in DOMAIN Incoming : Incoming[i].period \in I
      /\ setup \in Setups
  BY PublishInSight, OneFrequencyIsUniform
<1>1. PICK prior \in Listings : /\ R!Rule4Revision(Context(prior), Incoming) = {}
                                /\ R!Rule4Returns(Context(prior), Incoming)
  BY PublishSeesRevisions
<1>2. IsListing(prior, Len(prior))
  BY <1>0, <1>1, ListingsList
<1> DEFINE latest == R!LatestPeriod(prior \o Incoming)
<1>3. latest \in Seen /\ \A q \in Seen : ~R!Before(latest, q)
  BY <1>0, <1>2, LatestSeen
<1> HIDE DEF latest
<1>4. PipelineRules!LatestPeriod(NV \cup NI) = Number(latest)
  <2>1. {Number(p) : p \in Seen} = NV \cup NI
    BY DEF Seen
  <2>2. PipelineRules!LatestPeriod({Number(p) : p \in Seen}) = Number(latest)
    BY <1>0, <1>3, LatestNumber
  <2>3. QED
    BY <2>1, <2>2
<1>5. ASSUME NEW n \in NV \cap NI, NumberedVintage[n] # NumberedPayload[n]
      PROVE  ~(Number(latest) - n >= Window)
  <2> DEFINE p == CHOOSE x \in V : Number(x) = n
             i == CHOOSE j \in DOMAIN Incoming : Number(Incoming[j].period) = n
  <2>1. p \in V /\ Number(p) = n
    <3>1. \E x \in V : Number(x) = n
      BY <1>5
    <3> HIDE DEF V
    <3>2. QED
      BY <3>1
  <2>2. i \in DOMAIN Incoming /\ Number(Incoming[i].period) = n
    <3>1. \E j \in DOMAIN Incoming : Number(Incoming[j].period) = n
      BY <1>5 DEF PeriodsOf
    <3>2. QED
      BY <3>1
  <2>3. NumberedVintage[n] = table[p].value /\ NumberedPayload[n] = Incoming[i].value
    BY <1>5 DEF NumberedVintage, NumberedPayload
  <2> HIDE DEF p, i
  <2>4. Incoming[i].value # table[p].value
    BY <1>5, <2>3
  <2>5. Incoming[i].period = p
    <3>1. Incoming[i].period \in Seen /\ p \in Seen
      BY <1>0, <2>1, <2>2
    <3>2. QED
      BY <1>0, <2>1, <2>2, <3>1, NumberedOnce
  <2> DEFINE distance == R!BackDistance(p, latest)
  <2>6. distance # R!Endless /\ ~(distance >= Window)
    BY <1>0, <1>1, <1>2, <2>1, <2>2, <2>4, <2>5, RevisionMeasured DEF latest
  <2>7. distance \in 0..MaxWalk /\ R!Same(R!Ahead(p, distance), latest)
    BY <2>6, DistanceLeadsThere
  <2> HIDE DEF distance
  <2>8. distance \in Nat
    BY <2>7, BoundsAssumption
  <2>9. p \in ValidPeriods /\ latest \in ValidPeriods /\ p.freq = latest.freq
    BY <1>0, <1>3, <2>1 DEF Uniform
  <2> DEFINE far == R!Ahead(p, distance)
  <2>10. Regular(far) /\ far.freq = p.freq /\ Number(far) = Number(p) + distance
    BY <2>8, <2>9, AheadNumber
  <2>11. Regular(latest) /\ Regular(p)
    BY <2>9, ValidIsRegular
  <2> HIDE DEF far
  <2>12. Number(far) = Number(latest) /\ Number(p) \in Int
    <3>1. R!Same(far, latest)
      BY <2>7 DEF far
    <3>2. QED
      BY <2>9, <2>10, <2>11, <3>1, NumbersOrder
  <2>13. Number(latest) - n = distance
    BY <2>1, <2>8, <2>10, <2>12
  <2>14. QED
    BY <2>6, <2>13
<1>6. PipelineRules!Rule4Revision(NumberedVintage, NumberedPayload, Window)
        = {n \in NV \cap NI :
             /\ NumberedVintage[n] # NumberedPayload[n]
             /\ PipelineRules!LatestPeriod(NV \cup NI) - n >= Window}
  BY NumberedDomains DEF PipelineRules!Rule4Revision
<1> HIDE DEF NV, NI
<1>7. QED
  BY <1>4, <1>5, <1>6

\* What the six rules let the gate publish passes the rules of the pipeline:
\* IngestPipeline, which has a payload as values at consecutive numbers and
\* decides by three of the rules, refuses nothing that the code publishes
\* (gate.go:48, period.go:98).  MaxWalk stands for a loop that never ends, and
\* no walk between periods of labels is longer than labels have months.
THEOREM SeriesPassesThePipelinesRules ==
  Months <= MaxWalk =>
    (Spec => [][Publish /\ OneFrequency =>
                  PipelineRules!Passes(NumberedVintage, NumberedPayload,
                                       NumberedGaps, Window)]_vars)
<1> SUFFICES ASSUME Months <= MaxWalk
             PROVE  Spec => [][Publish /\ OneFrequency =>
                                 PipelineRules!Passes(NumberedVintage, NumberedPayload,
                                                      NumberedGaps, Window)]_vars
  OBVIOUS
<1>1. SeriesShape /\ [Next]_vars =>
        (Publish /\ OneFrequency =>
           PipelineRules!Passes(NumberedVintage, NumberedPayload, NumberedGaps, Window))
  <2> SUFFICES ASSUME SeriesShape, Publish, OneFrequency
               PROVE  PipelineRules!Passes(NumberedVintage, NumberedPayload,
                                           NumberedGaps, Window)
    OBVIOUS
  <2>1. /\ PipelineRules!Rule2Continuity(NumberedVintage, NumberedPayload, NumberedGaps) = {}
        /\ PipelineRules!Rule4Revision(NumberedVintage, NumberedPayload, Window) = {}
    BY PublishSkipsNothing, PublishRevisesNothingOld
  <2>2. DOMAIN NumberedPayload # {}
    <3>1. 1 \in DOMAIN Incoming /\ Incoming[1].period \in PeriodsOf(Incoming)
      BY PublishInSight
    <3>2. QED
      BY <3>1, NumberedDomains
  <2>3. QED
    BY <2>1, <2>2 DEF PipelineRules!Passes
<1>2. QED
  BY <1>1, ShapeHolds, PTL DEF Spec
=============================================================================
