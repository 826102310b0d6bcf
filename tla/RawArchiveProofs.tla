-------------------------- MODULE RawArchiveProofs --------------------------
(***************************************************************************)
(* Proofs about the archive of raw files: what holds of the rows, the      *)
(* files and the two copies of the listing for every number of calls and   *)
(* every set of hashes.                                                    *)
(***************************************************************************)
EXTENDS RawArchive, SequenceTheorems, FiniteSetTheorems, TLAPS

-----------------------------------------------------------------------------
(* The inductive invariant *)

\* No path is ever seen half written, and rows are finitely many.
FilesAreAtomic ==
  /\ IsFiniteSet(rows)
  /\ \A h \in Hashes : files[h] # "partial"

\* Past its rename a call's file is whole, past its insert its row is there.
PutIsDone ==
  \A c \in Calls :
    /\ pc[c] \in {"record", "create", "query", "write", "readBack", "replace", "done"}
         => files[hash[c]] = "whole"
    /\ pc[c] \in {"create", "query", "write", "readBack", "replace", "done"}
         => hash[c] \in rows
    /\ pc[c] \in {"write", "readBack", "replace", "done"} => hash[c] \in listed[c]
    /\ listed[c] \subseteq rows

\* A call that is not disturbed is the only one at the archive copy.
LoneRewriter ==
  \A c \in Calls \ disturbed, d \in Calls :
    Rewriting(c) /\ Rewriting(d) => c = d

\* What a lone call has written is what it listed, up to the bytes it has left;
\* what it has read back is the beginning of that.
LoneProgress ==
  \A c \in Calls \ disturbed :
    /\ pc[c] = "query" => archive = <<>> /\ offset[c] = 0
    /\ pc[c] = "write" => /\ archive \o unwritten[c] = Listing(listed[c])
                          /\ offset[c] = Len(archive)
    /\ pc[c] = "readBack" => /\ archive = Listing(listed[c])
                             /\ Len(data[c]) <= Len(archive)
                             /\ data[c] = SubSeq(archive, 1, Len(data[c]))
    /\ pc[c] = "replace" => data[c] = Listing(listed[c])

\* What a lone call has queried has the rows of all that have left the archive
\* copy; once it has read back, those of all that have published.
LoneListsEnded ==
  \A c \in Calls \ disturbed, d \in Calls :
    /\ pc[c] \in {"write", "readBack"} /\ pc[d] \in {"replace", "done"}
         => hash[d] \in listed[c]
    /\ c \notin overtaken /\ pc[c] = "replace" /\ pc[d] = "done"
         => hash[d] \in listed[c]

\* The public copy is what its publisher had listed, if that was alone, with the
\* rows of all that have published if it was not overtaken either.
PublicIsPublishers ==
  /\ \A c \in publisher \ disturbed :
       /\ public = Listing(listed[c])
       /\ c \notin overtaken =>
            \A d \in Calls : pc[d] = "done" => hash[d] \in listed[c]
  /\ \A c \in publisher : pc[c] = "done"
  /\ publisher = {} => \A c \in Calls : pc[c] # "done"

ArchiveInv ==
  /\ TypeOK
  /\ FilesAreAtomic
  /\ RowsHaveWholeFiles
  /\ PutIsDone
  /\ LoneRewriter
  /\ LoneProgress
  /\ LoneListsEnded
  /\ PublicIsPublishers
-----------------------------------------------------------------------------
(* Lemmas about the operators *)

\* Bytes that may come before one another: those of lines named by numbers.
Places == Nat \X Nat

\* The order of the bytes of a listing is strict and total.
LEMMA PrecedesOrders ==
  ASSUME NEW a \in Places, NEW b \in Places, NEW d \in Places
  PROVE  /\ ~Precedes(a, a)
         /\ Precedes(a, b) /\ Precedes(b, d) => Precedes(a, d)
         /\ a = b \/ Precedes(a, b) \/ Precedes(b, a)
<1>1. a[1] \in Nat /\ a[2] \in Nat /\ b[1] \in Nat /\ b[2] \in Nat /\ d[1] \in Nat /\ d[2] \in Nat
  BY DEF Places
<1>2. a[1] = b[1] /\ a[2] = b[2] => a = b
  BY DEF Places
<1> QED BY <1>1, <1>2 DEF Precedes

\* The bytes of finitely many lines are finitely many places.
LEMMA BytesAreFinite ==
  ASSUME NEW S \in SUBSET Hashes, IsFiniteSet(S)
  PROVE  /\ IsFiniteSet(BytesOf(S))
         /\ BytesOf(S) \in SUBSET Places
         /\ BytesOf(S) \subseteq Bytes
<1> DEFINE line == [h \in S |-> {h} \X (1..LineLength[h])]
           T == {{h} \X (1..LineLength[h]) : h \in S}
<1>1. \A h \in S : LineLength[h] \in Nat /\ h \in Nat
  BY HashesAssumption, LineLengthAssumption
<1>2. line \in Surjection(S, T)
  BY DEF Surjection
<1>3. IsFiniteSet(T)
  <2> HIDE DEF line, T
  <2> QED BY <1>2, FS_Surjection
<1>4. ASSUME NEW h \in S
      PROVE  IsFiniteSet({h} \X (1..LineLength[h]))
  <2>1. IsFiniteSet({h})
    BY FS_Singleton
  <2>2. IsFiniteSet(1..LineLength[h])
    <3>1. 1 \in Int /\ LineLength[h] \in Int
      BY <1>1
    <3> QED BY <3>1, FS_Interval
  <2> QED BY <2>1, <2>2, FS_Product
<1>5. \A t \in T : IsFiniteSet(t)
  BY <1>4
<1>6. IsFiniteSet(UNION T)
  <2> HIDE DEF T
  <2> QED BY <1>3, <1>5, FS_UNION
<1>7. BytesOf(S) \in SUBSET Places
  <2> SUFFICES ASSUME NEW h \in S, NEW b \in {h} \X (1..LineLength[h])
               PROVE  b \in Places
    BY DEF BytesOf
  <2> QED BY <1>1 DEF Places
<1>8. BytesOf(S) \subseteq BytesOf(Hashes)
  BY DEF BytesOf
<1> QED BY <1>6, <1>7, <1>8 DEF BytesOf, Bytes

\* The number of bytes of B before b, which tells b's place in the listing.
Rank(B, b) == Cardinality({a \in B : Precedes(a, b)})

\* The places of a listing start at 0, end before its length, and ascend.
LEMMA RankAscends ==
  ASSUME NEW B \in SUBSET Places, IsFiniteSet(B), NEW b \in B
  PROVE  /\ Rank(B, b) \in 0..(Cardinality(B) - 1)
         /\ \A k \in B : Precedes(b, k) => Rank(B, b) < Rank(B, k)
<1> DEFINE Below(k) == {a \in B : Precedes(a, k)}
<1>1. \A k \in B : Below(k) \in SUBSET B
  OBVIOUS
<1>2. \A k \in B : Rank(B, k) \in Nat
  BY <1>1, FS_Subset, FS_CardinalityType DEF Rank
<1>3. ~Precedes(b, b)
  BY PrecedesOrders
<1>4. Rank(B, b) \in 0..(Cardinality(B) - 1)
  <2>1. Below(b) \in SUBSET B /\ b \in B /\ b \notin Below(b)
    BY <1>3
  <2>2. Cardinality(Below(b)) <= Cardinality(B) /\ Cardinality(Below(b)) # Cardinality(B)
    BY <2>1, FS_Subset
  <2> QED BY <2>2, <1>2, FS_CardinalityType DEF Rank
<1>5. ASSUME NEW k \in B, Precedes(b, k)
      PROVE  Rank(B, b) < Rank(B, k)
  <2>1. Below(b) \in SUBSET Below(k) /\ b \in Below(k) /\ b \notin Below(b)
    <3>1. \A a \in B : Precedes(a, b) => Precedes(a, k)
      BY <1>5, PrecedesOrders
    <3> QED BY <3>1, <1>3, <1>5
  <2>2. IsFiniteSet(Below(k))
    BY <1>1, FS_Subset
  <2>3. Cardinality(Below(b)) <= Cardinality(Below(k)) /\ Cardinality(Below(b)) # Cardinality(Below(k))
    BY <2>1, <2>2, FS_Subset
  <2> QED BY <2>3, <1>2 DEF Rank
<1> QED BY <1>4, <1>5

\* Every place of a listing is that of one byte.
LEMMA PlacesAreTaken ==
  ASSUME NEW B \in SUBSET Places, IsFiniteSet(B), NEW i \in 1..Cardinality(B)
  PROVE  \E b \in B : Rank(B, b) = i - 1
<1> DEFINE n == Cardinality(B)
           rank == [b \in B |-> Rank(B, b)]
<1>1. n \in Nat
  BY FS_CardinalityType
<1>2. rank \in [B -> 0..(n - 1)]
  BY RankAscends
<1>3. \A a, b \in B : rank[a] = rank[b] => a = b
  <2> SUFFICES ASSUME NEW a \in B, NEW b \in B, rank[a] = rank[b], a # b
               PROVE  FALSE
    OBVIOUS
  <2>1. Precedes(a, b) \/ Precedes(b, a)
    BY PrecedesOrders
  <2>2. Rank(B, a) < Rank(B, b) \/ Rank(B, b) < Rank(B, a)
    BY <2>1, RankAscends
  <2>3. Rank(B, a) \in 0..(n - 1) /\ Rank(B, b) \in 0..(n - 1)
    BY RankAscends
  <2> QED BY <2>2, <2>3, <1>1
<1>4. rank \in Injection(B, 0..(n - 1))
  BY <1>2, <1>3 DEF Injection, IsInjective
<1>5. IsFiniteSet(0..(n - 1)) /\ Cardinality(0..(n - 1)) = n
  <2>1. 0 \in Int /\ n - 1 \in Int
    BY <1>1
  <2> QED BY <2>1, <1>1, FS_Interval
<1>6. rank \in Surjection(B, 0..(n - 1))
  <2> HIDE DEF rank
  <2> QED BY <1>4, <1>5, FS_Injection
<1>7. i - 1 \in 0..(n - 1)
  BY <1>1
<1> QED BY <1>6, <1>7 DEF Surjection

\* The listing of finitely many rows is a sequence of the bytes of their lines,
\* each at the place those before it leave.
LEMMA ListingIsSeq ==
  ASSUME NEW S \in SUBSET Hashes, IsFiniteSet(S)
  PROVE  /\ Listing(S) \in Seq(BytesOf(S))
         /\ Listing(S) \in Seq(Bytes)
         /\ Len(Listing(S)) = Cardinality(BytesOf(S))
         /\ \A i \in 1..Cardinality(BytesOf(S)) : Rank(BytesOf(S), Listing(S)[i]) = i - 1
<1> DEFINE B == BytesOf(S)
           n == Cardinality(B)
           place(i) == CHOOSE b \in B : Rank(B, b) = i - 1
<1>1. B \in SUBSET Places /\ IsFiniteSet(B) /\ B \subseteq Bytes
  BY BytesAreFinite
<1>2. n \in Nat
  BY <1>1, FS_CardinalityType
<1>3. \A i \in 1..n : place(i) \in B /\ Rank(B, place(i)) = i - 1
  <2> HIDE DEF B
  <2> QED BY <1>1, PlacesAreTaken
<1>4. Listing(S) = [i \in 1..n |-> place(i)]
  BY DEF Listing, Rank
<1> HIDE DEF n, place, B
<1>5. [i \in 1..n |-> place(i)] \in Seq(B)
  BY <1>2, <1>3, IsASeq
<1>6. Len(Listing(S)) = n
  BY <1>2, <1>4
<1>7. \A i \in 1..n : Listing(S)[i] = place(i)
  BY <1>4
<1>8. Listing(S) \in Seq(Bytes)
  BY <1>1, <1>4, <1>5, SeqMonotonic
<1> QED BY <1>3, <1>4, <1>5, <1>6, <1>7, <1>8 DEF n, B

\* The listing of finitely many rows holds every byte of their lines, in order.
LEMMA ListingIsSorted ==
  ASSUME NEW S \in SUBSET Hashes, IsFiniteSet(S)
  PROVE  /\ \A b \in BytesOf(S) : \E i \in 1..Len(Listing(S)) : Listing(S)[i] = b
         /\ \A i, j \in 1..Len(Listing(S)) : i < j => Precedes(Listing(S)[i], Listing(S)[j])
<1> DEFINE B == BytesOf(S)
           L == Listing(S)
           n == Cardinality(B)
<1>1. B \in SUBSET Places /\ IsFiniteSet(B)
  BY BytesAreFinite
<1>2. n \in Nat /\ L \in Seq(B) /\ Len(L) = n
  BY <1>1, ListingIsSeq, FS_CardinalityType
<1>3. \A i \in 1..n : L[i] \in B /\ Rank(B, L[i]) = i - 1
  BY <1>2, ListingIsSeq, ElementOfSeq
<1> HIDE DEF B, L, n
<1>4. \A b \in B : Rank(B, b) \in 0..(n - 1)
  BY <1>1, RankAscends DEF n
<1>5. \A a, b \in B : Precedes(a, b) => Rank(B, a) < Rank(B, b)
  BY <1>1, RankAscends
<1>6. \A a, b \in B : a = b \/ Precedes(a, b) \/ Precedes(b, a)
  BY <1>1, PrecedesOrders
<1>7. ASSUME NEW b \in B
      PROVE  \E i \in 1..n : L[i] = b
  <2>1. Rank(B, b) \in 0..(n - 1)
    BY <1>4
  <2>2. Rank(B, b) + 1 \in 1..n /\ (Rank(B, b) + 1) - 1 = Rank(B, b)
    BY <2>1, <1>2
  <2>3. L[Rank(B, b) + 1] \in B /\ Rank(B, L[Rank(B, b) + 1]) = Rank(B, b)
    BY <2>2, <1>3
  <2>4. ASSUME NEW a \in B, Rank(B, a) = Rank(B, b) PROVE a = b
    BY <2>1, <2>4, <1>2, <1>5, <1>6
  <2> QED BY <2>2, <2>3, <2>4
<1>8. ASSUME NEW i \in 1..n, NEW j \in 1..n, i < j
      PROVE  Precedes(L[i], L[j])
  <2>1. L[i] \in B /\ L[j] \in B /\ Rank(B, L[i]) = i - 1 /\ Rank(B, L[j]) = j - 1
    BY <1>3
  <2>2. ~Precedes(L[j], L[i])
    BY <2>1, <1>2, <1>5, <1>8
  <2>3. L[i] # L[j]
    BY <2>1, <1>2, <1>8
  <2> QED BY <2>1, <2>2, <2>3, <1>6
<1> QED BY <1>2, <1>7, <1>8 DEF B, L

\* A write of bytes keeps a file one of bytes, wherever it goes.
LEMMA WrittenIsSeq ==
  ASSUME NEW T, NEW f \in Seq(T), NEW n \in Nat, NEW s \in Seq(T), Hole \in T
  PROVE  WrittenAt(f, n, s) \in Seq(T)
<1> DEFINE m == Len(s)
           size == IF Len(f) > n + m THEN Len(f) ELSE n + m
           byte(i) == IF n < i /\ i <= n + m THEN s[i - n] ELSE IF i <= Len(f) THEN f[i] ELSE Hole
<1>1. size \in Nat /\ m \in Nat /\ Len(f) \in Nat
  BY LenProperties
<1>2. ASSUME NEW i \in 1..size PROVE byte(i) \in T
  <2>1. CASE n < i /\ i <= n + m
    <3>1. i - n \in 1..m
      BY <1>1, <2>1
    <3> QED BY <2>1, <3>1, ElementOfSeq
  <2>2. CASE ~(n < i /\ i <= n + m) /\ i <= Len(f)
    <3>1. i \in 1..Len(f)
      BY <1>1, <2>2
    <3> QED BY <2>2, <3>1, ElementOfSeq
  <2>3. CASE ~(n < i /\ i <= n + m) /\ ~(i <= Len(f))
    BY <2>3
  <2> QED BY <2>1, <2>2, <2>3
<1>3. WrittenAt(f, n, s) = [i \in 1..size |-> byte(i)]
  BY DEF WrittenAt
<1> HIDE DEF size, byte
<1> QED BY <1>1, <1>2, <1>3, IsASeq

\* Bytes written at the end of a file are appended to it.
LEMMA WrittenAtEnd ==
  ASSUME NEW T, NEW f \in Seq(T), NEW s \in Seq(T), Hole \in T
  PROVE  WrittenAt(f, Len(f), s) = f \o s
<1> DEFINE n == Len(f)
           m == Len(s)
           w == WrittenAt(f, n, s)
<1>1. n \in Nat /\ m \in Nat
  BY LenProperties
<1>2. w \in Seq(T)
  BY <1>1, WrittenIsSeq
<1>3. w = [i \in 1..(n + m) |-> IF n < i /\ i <= n + m THEN s[i - n]
                                ELSE IF i <= n THEN f[i] ELSE Hole]
  <2>1. (IF n > n + m THEN n ELSE n + m) = n + m
    BY <1>1
  <2> QED BY <2>1 DEF WrittenAt
<1>4. /\ f \o s \in Seq(T) /\ Len(f \o s) = n + m
      /\ \A i \in 1..(n + m) : (f \o s)[i] = IF i <= n THEN f[i] ELSE s[i - n]
  BY ConcatProperties
<1> HIDE DEF n, m, w
<1>5. Len(w) = n + m
  BY <1>1, <1>3
<1>6. ASSUME NEW i \in 1..(n + m)
      PROVE  w[i] = (f \o s)[i]
  <2>1. w[i] = IF n < i /\ i <= n + m THEN s[i - n] ELSE IF i <= n THEN f[i] ELSE Hole
    BY <1>3
  <2>2. i <= n \/ (n < i /\ i <= n + m)
    BY <1>1
  <2>3. i <= n => ~(n < i)
    BY <1>1
  <2> QED BY <2>1, <2>2, <2>3, <1>4
<1>7. w = f \o s
  BY <1>2, <1>4, <1>5, <1>6, SeqEqual
<1> QED BY <1>7 DEF n, m, w

\* The first bytes of a sequence and the others are the sequence.
LEMMA SplitSeq ==
  ASSUME NEW T, NEW s \in Seq(T), NEW n \in 0..Len(s)
  PROVE  /\ SubSeq(s, 1, n) \in Seq(T)
         /\ Len(SubSeq(s, 1, n)) = n
         /\ SubSeq(s, n + 1, Len(s)) \in Seq(T)
         /\ SubSeq(s, 1, n) \o SubSeq(s, n + 1, Len(s)) = s
<1> DEFINE m == Len(s)
<1>1. m \in Nat /\ n \in Nat /\ n <= m
  BY LenProperties
<1>2. \A i \in 1..m : s[i] \in T
  BY ElementOfSeq
<1> HIDE DEF m
<1>3. SubSeq(s, 1, n) \in Seq(T) /\ Len(SubSeq(s, 1, n)) = n
  <2>1. 1 \in Int /\ n \in Int /\ \A i \in 1..n : s[i] \in T
    BY <1>1, <1>2
  <2>2. (IF 1 <= n THEN n - 1 + 1 ELSE 0) = n
    BY <1>1
  <2> QED BY <2>1, <2>2, SubSeqProperties
<1>4. SubSeq(s, n + 1, m) \in Seq(T)
  <2>1. n + 1 \in Int /\ m \in Int /\ \A i \in (n + 1)..m : s[i] \in T
    BY <1>1, <1>2
  <2> QED BY <2>1, SubSeqProperties
<1>5. SubSeq(s, 1, n) \o SubSeq(s, n + 1, m) = SubSeq(s, 1, m)
  <2>1. 1 \in 1..(m + 1) /\ n \in (1 - 1)..m /\ m \in n..m
    BY <1>1
  <2> QED BY <2>1, ConcatAdjacentSubSeq DEF m
<1>6. SubSeq(s, 1, m) = s
  BY SubSeqFull DEF m
<1> QED BY <1>3, <1>4, <1>5, <1>6 DEF m

-----------------------------------------------------------------------------
(* A step keeps the invariant *)

\* The steps that change the place of one call and nothing of the listing.
PutStep(c) == Stat(c) \/ WriteTemp(c) \/ Rename(c) \/ Record(c)

\* The listing of the rows there are is a sequence of bytes.
LEMMA RowsAreListable ==
  ASSUME ArchiveInv
  PROVE  Listing(rows) \in Seq(Bytes)
<1>1. rows \in SUBSET Hashes /\ IsFiniteSet(rows)
  BY DEF ArchiveInv, TypeOK, FilesAreAtomic
<1> QED BY <1>1, ListingIsSeq

\* The invariant holds initially.
LEMMA InitArchive == Init => ArchiveInv
<1> SUFFICES ASSUME Init PROVE ArchiveInv
  OBVIOUS
<1>1. TypeOK
  BY EmptySeq DEF Init, TypeOK, Stages
<1>2. FilesAreAtomic /\ RowsHaveWholeFiles /\ PutIsDone /\ LoneRewriter /\ LoneProgress
  BY FS_EmptySet DEF Init, FilesAreAtomic, RowsHaveWholeFiles, PutIsDone, LoneRewriter,
     LoneProgress, Rewriting
<1>3. LoneListsEnded /\ PublicIsPublishers
  BY DEF Init, LoneListsEnded, PublicIsPublishers
<1> QED BY <1>1, <1>2, <1>3 DEF ArchiveInv

\* A step keeps the types.
LEMMA TypeStep ==
  ASSUME ArchiveInv, NEW c \in Calls, Step(c) \/ Stop(c)
  PROVE  TypeOK'
<1> USE DEF Goto, disk, copy, history
<1>1. TypeOK
  BY DEF ArchiveInv
<1>2. <<>> \in Seq(Bytes)
  BY EmptySeq
<1>3. CASE PutStep(c) \/ EndOfFile(c)
  BY <1>1, <1>3 DEF TypeOK, PutStep, Stat, WriteTemp, Rename, Record, EndOfFile, Stages
<1>4. CASE CloseArchive(c) \/ Stop(c)
  <2>1. /\ unwritten' \in [Calls -> Seq(Bytes)] /\ data' \in [Calls -> Seq(Bytes)]
        /\ offset' \in [Calls -> Nat]
    <3>1. Forget(c)
      BY <1>4 DEF CloseArchive, Stop
    <3> QED BY <1>1, <1>2, <3>1 DEF TypeOK, Forget
  <2>2. pc' \in [Calls -> Stages]
    BY <1>1, <1>4 DEF TypeOK, CloseArchive, Stop, Stages
  <2> QED BY <1>1, <1>4, <2>1, <2>2 DEF TypeOK, CloseArchive, Stop
<1>5. CASE CreateArchive(c)
  BY <1>1, <1>2, <1>5 DEF TypeOK, CreateArchive, Disturb, Stages
<1>6. CASE QueryRows(c)
  BY <1>1, <1>6, RowsAreListable DEF TypeOK, QueryRows, Stages
<1>7. CASE WriteLine(c)
  <2> DEFINE u == unwritten[c]
  <2>1. PICK n \in 1..Len(u) :
          /\ archive' = WrittenAt(archive, offset[c], SubSeq(u, 1, n))
          /\ offset' = [offset EXCEPT ![c] = @ + n]
          /\ unwritten' = [unwritten EXCEPT ![c] = SubSeq(@, n + 1, Len(@))]
    BY <1>7 DEF WriteLine
  <2>2. u \in Seq(Bytes) /\ n \in 0..Len(u) /\ n \in Nat
    BY <1>1, LenProperties DEF TypeOK
  <2>3. SubSeq(u, 1, n) \in Seq(Bytes) /\ SubSeq(u, n + 1, Len(u)) \in Seq(Bytes)
    BY <2>2, SplitSeq
  <2>4. offset[c] \in Nat /\ archive \in Seq(Bytes) /\ Hole \in Bytes
    BY <1>1 DEF TypeOK, Bytes
  <2>5. archive' \in Seq(Bytes)
    BY <2>1, <2>3, <2>4, WrittenIsSeq
  <2>6. offset' \in [Calls -> Nat] /\ unwritten' \in [Calls -> Seq(Bytes)]
    BY <1>1, <2>1, <2>2, <2>3, <2>4 DEF TypeOK
  <2> QED BY <1>1, <1>7, <2>5, <2>6 DEF TypeOK, WriteLine
<1>8. CASE ReadBack(c)
  <2>1. PICK n \in (Len(data[c]) + 1)..Len(archive) :
          data' = [data EXCEPT ![c] = @ \o SubSeq(archive, Len(@) + 1, n)]
    BY <1>8 DEF ReadBack
  <2>2. data[c] \in Seq(Bytes) /\ archive \in Seq(Bytes)
    BY <1>1 DEF TypeOK
  <2>3. Len(data[c]) + 1 \in Int /\ n \in Int /\ Len(data[c]) \in Nat /\ Len(archive) \in Nat
    BY <2>2, LenProperties
  <2>4. \A i \in (Len(data[c]) + 1)..n : archive[i] \in Bytes
    BY <2>2, <2>3, ElementOfSeq
  <2>5. SubSeq(archive, Len(data[c]) + 1, n) \in Seq(Bytes)
    BY <2>3, <2>4, SubSeqProperties
  <2>6. data[c] \o SubSeq(archive, Len(data[c]) + 1, n) \in Seq(Bytes)
    BY <2>2, <2>5, ConcatProperties
  <2>7. data' \in [Calls -> Seq(Bytes)]
    BY <1>1, <2>1, <2>6 DEF TypeOK
  <2> QED BY <1>1, <1>8, <2>7 DEF TypeOK, ReadBack
<1>9. CASE ReplacePublic(c)
  BY <1>1, <1>2, <1>9 DEF TypeOK, ReplacePublic, Forget, Stages
<1> QED BY <1>3, <1>4, <1>5, <1>6, <1>7, <1>8, <1>9 DEF Step, PutStep

\* A step keeps what the files and the rows promise.
LEMMA FilesStep ==
  ASSUME ArchiveInv, NEW c \in Calls, Step(c) \/ Stop(c)
  PROVE  FilesAreAtomic' /\ RowsHaveWholeFiles' /\ PutIsDone'
<1> USE DEF Goto, disk, copy, history
<1>1. TypeOK /\ FilesAreAtomic /\ RowsHaveWholeFiles /\ PutIsDone
  BY DEF ArchiveInv
<1>2. CASE Stat(c) \/ WriteTemp(c)
  <2>1. files[hash[c]] \in {"absent", "whole"}
    BY <1>1 DEF TypeOK, FilesAreAtomic
  <2> QED BY <1>1, <1>2, <2>1 DEF TypeOK, FilesAreAtomic, RowsHaveWholeFiles, PutIsDone, Stat, WriteTemp
<1>3. CASE Rename(c)
  BY <1>1, <1>3 DEF TypeOK, FilesAreAtomic, RowsHaveWholeFiles, PutIsDone, Rename
<1>4. CASE Record(c)
  <2>1. IsFiniteSet(rows \cup {hash[c]})
    BY <1>1, FS_AddElement DEF FilesAreAtomic
  <2> QED BY <1>1, <1>4, <2>1 DEF TypeOK, FilesAreAtomic, RowsHaveWholeFiles, PutIsDone, Record
<1>5. CASE CreateArchive(c) \/ WriteLine(c) \/ CloseArchive(c)
  BY <1>1, <1>5 DEF TypeOK, FilesAreAtomic, RowsHaveWholeFiles, PutIsDone, CreateArchive,
     WriteLine, CloseArchive
<1>6. CASE QueryRows(c)
  BY <1>1, <1>6 DEF TypeOK, FilesAreAtomic, RowsHaveWholeFiles, PutIsDone, QueryRows
<1>7. CASE ReadBack(c) \/ EndOfFile(c)
  BY <1>1, <1>7 DEF TypeOK, FilesAreAtomic, RowsHaveWholeFiles, PutIsDone, ReadBack, EndOfFile
<1>8. CASE ReplacePublic(c) \/ Stop(c)
  BY <1>1, <1>8 DEF TypeOK, FilesAreAtomic, RowsHaveWholeFiles, PutIsDone, ReplacePublic, Stop
<1> QED BY <1>2, <1>3, <1>4, <1>5, <1>6, <1>7, <1>8 DEF Step

\* A call that joins another at the archive copy disturbs it and is disturbed.
LEMMA LoneStep ==
  ASSUME ArchiveInv, NEW c \in Calls, Step(c) \/ Stop(c)
  PROVE  LoneRewriter'
<1> USE DEF Goto, disk, copy, history
<1>1. TypeOK /\ LoneRewriter
  BY DEF ArchiveInv
<1>2. CASE CreateArchive(c)
  <2> SUFFICES ASSUME NEW b \in Calls, b \notin disturbed', NEW d \in Calls,
                      Rewriting(b)', Rewriting(d)', b # d
               PROVE  FALSE
    BY DEF LoneRewriter
  <2> DEFINE others == {e \in Calls \ {c} : Rewriting(e)}
  <2>1. disturbed' = disturbed \cup others \cup (IF others = {} THEN {} ELSE {c})
    BY <1>2 DEF CreateArchive, Disturb
  <2>2. \A e \in Calls \ {c} : Rewriting(e)' <=> Rewriting(e)
    BY <1>1, <1>2 DEF TypeOK, CreateArchive, Rewriting
  <2>3. CASE b = c
    <3>1. d \in others
      BY <2>2, <2>3
    <3> QED BY <2>1, <2>3, <3>1
  <2>4. CASE b # c
    <3>1. b \in others
      BY <2>2, <2>4
    <3> QED BY <2>1, <3>1
  <2> QED BY <2>3, <2>4
<1>3. CASE ~CreateArchive(c)
  <2>1. disturbed' = disturbed
    BY <1>3 DEF Step, Stat, WriteTemp, Rename, Record, QueryRows, WriteLine, CloseArchive,
       ReadBack, EndOfFile, ReplacePublic, Stop
  <2>2. ASSUME NEW d \in Calls, Rewriting(d)' PROVE Rewriting(d)
    BY <1>1, <1>3, <2>2 DEF TypeOK, Rewriting, Step, Stat, WriteTemp, Rename, Record, QueryRows,
       WriteLine, CloseArchive, ReadBack, EndOfFile, ReplacePublic, Stop
  <2> QED BY <1>1, <2>1, <2>2 DEF LoneRewriter
<1> QED BY <1>2, <1>3

\* What a lone call has read or written so far, for the four stages of its way.
ProgressOf(c) ==
  /\ pc[c] = "query" => archive = <<>> /\ offset[c] = 0
  /\ pc[c] = "write" => /\ archive \o unwritten[c] = Listing(listed[c])
                        /\ offset[c] = Len(archive)
  /\ pc[c] = "readBack" => /\ archive = Listing(listed[c])
                           /\ Len(data[c]) <= Len(archive)
                           /\ data[c] = SubSeq(archive, 1, Len(data[c]))
  /\ pc[c] = "replace" => data[c] = Listing(listed[c])

\* A lone call comes one operation nearer to the listing of all it queried, and
\* the steps of the others leave what it has of it alone.
LEMMA ProgressStep ==
  ASSUME ArchiveInv, NEW c \in Calls, Step(c) \/ Stop(c)
  PROVE  LoneProgress'
<1> USE DEF Goto, disk, copy, history
<1>1. TypeOK /\ LoneRewriter
  BY DEF ArchiveInv
<1>2. disturbed \subseteq disturbed'
  BY DEF Step, Stat, WriteTemp, Rename, Record, CreateArchive, Disturb, QueryRows, WriteLine,
     CloseArchive, ReadBack, EndOfFile, ReplacePublic, Stop
<1> SUFFICES ASSUME NEW d \in Calls, d \notin disturbed'
             PROVE  ProgressOf(d)'
  BY DEF LoneProgress, ProgressOf
<1>3. d \notin disturbed /\ ProgressOf(d)
  BY <1>2 DEF ArchiveInv, LoneProgress, ProgressOf
<1>4. archive \in Seq(Bytes) /\ data[c] \in Seq(Bytes) /\ unwritten[c] \in Seq(Bytes)
  BY <1>1 DEF TypeOK
<1>5. CASE d # c
  <2>1. /\ pc'[d] = pc[d] /\ offset'[d] = offset[d] /\ unwritten'[d] = unwritten[d]
        /\ data'[d] = data[d] /\ listed'[d] = listed[d]
    BY <1>1, <1>5 DEF TypeOK, Step, Stat, WriteTemp, Rename, Record, CreateArchive, QueryRows,
       WriteLine, CloseArchive, ReadBack, EndOfFile, ReplacePublic, Stop, Forget
  <2>2. CASE CreateArchive(c) \/ WriteLine(c)
    <3>1. ~Rewriting(d)
      BY <1>1, <1>3, <1>5, <2>2 DEF LoneRewriter, CreateArchive, Disturb, WriteLine, Rewriting
    <3> QED BY <1>3, <2>1, <3>1 DEF ProgressOf, Rewriting
  <2>3. CASE ~(CreateArchive(c) \/ WriteLine(c))
    <3>1. archive' = archive
      BY <2>3 DEF Step, Stat, WriteTemp, Rename, Record, QueryRows, CloseArchive, ReadBack,
         EndOfFile, ReplacePublic, Stop
    <3> QED BY <1>3, <2>1, <3>1 DEF ProgressOf
  <2> QED BY <2>2, <2>3
<1>6. CASE d = c /\ (PutStep(c) \/ Stop(c) \/ ReplacePublic(c))
  <2>1. pc'[c] \notin {"query", "write", "readBack", "replace"}
    BY <1>1, <1>6 DEF TypeOK, PutStep, Stat, WriteTemp, Rename, Record, Stop, ReplacePublic
  <2> QED BY <1>6, <2>1 DEF ProgressOf
<1>7. CASE d = c /\ CreateArchive(c)
  <2>1. pc'[c] = "query" /\ archive' = <<>> /\ offset'[c] = 0
    BY <1>1, <1>7 DEF TypeOK, CreateArchive
  <2> QED BY <1>7, <2>1 DEF ProgressOf
<1>8. CASE d = c /\ QueryRows(c)
  <2>1. <<>> \o Listing(rows) = Listing(rows) /\ Len(<<>>) = 0
    BY RowsAreListable, ConcatEmptySeq, EmptySeq
  <2>2. archive = <<>> /\ offset[c] = 0
    BY <1>3, <1>8 DEF ProgressOf, QueryRows
  <2>3. /\ pc'[c] = "write" /\ unwritten'[c] = Listing(rows) /\ listed'[c] = rows
        /\ archive' = archive /\ offset' = offset
    BY <1>1, <1>8 DEF TypeOK, QueryRows
  <2> QED BY <1>8, <2>1, <2>2, <2>3 DEF ProgressOf
<1>9. CASE d = c /\ WriteLine(c)
  <2> DEFINE u == unwritten[c]
  <2>1. PICK n \in 1..Len(u) :
          /\ archive' = WrittenAt(archive, offset[c], SubSeq(u, 1, n))
          /\ offset' = [offset EXCEPT ![c] = @ + n]
          /\ unwritten' = [unwritten EXCEPT ![c] = SubSeq(@, n + 1, Len(@))]
    BY <1>9 DEF WriteLine
  <2> DEFINE s == SubSeq(u, 1, n)
             r == SubSeq(u, n + 1, Len(u))
  <2>2. archive \o u = Listing(listed[c]) /\ offset[c] = Len(archive)
    BY <1>3, <1>9 DEF ProgressOf, WriteLine
  <2>3. n \in 0..Len(u) /\ Hole \in Bytes
    BY <1>4, LenProperties DEF Bytes
  <2>4. s \in Seq(Bytes) /\ r \in Seq(Bytes) /\ Len(s) = n /\ s \o r = u
    BY <1>4, <2>3, SplitSeq
  <2>5. pc'[c] = "write" /\ unwritten'[c] = r /\ offset'[c] = offset[c] + n /\ listed' = listed
    BY <1>1, <1>9, <2>1 DEF TypeOK, WriteLine
  <2>6. archive' = archive \o s
    <3>1. archive' = WrittenAt(archive, Len(archive), s)
      BY <2>1, <2>2
    <3> HIDE DEF s
    <3>2. WrittenAt(archive, Len(archive), s) = archive \o s
      BY <1>4, <2>3, <2>4, WrittenAtEnd
    <3> QED BY <3>1, <3>2
  <2> HIDE DEF u, s, r
  <2>7. (archive \o s) \o r = archive \o u
    <3>1. archive \in Seq(Bytes) /\ s \in Seq(Bytes) /\ r \in Seq(Bytes)
      BY <1>4, <2>4
    <3>2. (archive \o s) \o r = archive \o (s \o r)
      BY <3>1, ConcatAssociative
    <3> QED BY <2>4, <3>2
  <2>8. Len(archive \o s) = Len(archive) + n
    BY <1>4, <2>4, ConcatProperties
  <2> QED BY <1>9, <2>2, <2>5, <2>6, <2>7, <2>8 DEF ProgressOf
<1>10. CASE d = c /\ CloseArchive(c)
  <2>1. archive \o unwritten[c] = Listing(listed[c]) /\ unwritten[c] = <<>>
    BY <1>3, <1>10 DEF ProgressOf, CloseArchive
  <2>2. archive \o <<>> = archive /\ Len(archive) \in Nat
    BY <1>4, ConcatEmptySeq, LenProperties
  <2>3. pc'[c] = "readBack" /\ data'[c] = <<>> /\ archive' = archive /\ listed' = listed
    BY <1>1, <1>10 DEF TypeOK, CloseArchive, Forget
  <2>4. SubSeq(archive, 1, 0) = <<>> /\ Len(<<>>) = 0
    BY SubSeqEmpty, EmptySeq
  <2> QED BY <1>10, <2>1, <2>2, <2>3, <2>4 DEF ProgressOf
<1>11. CASE d = c /\ ReadBack(c)
  <2> DEFINE l == Len(data[c])
  <2>1. PICK n \in (l + 1)..Len(archive) :
          data' = [data EXCEPT ![c] = @ \o SubSeq(archive, Len(@) + 1, n)]
    BY <1>11 DEF ReadBack
  <2>2. archive = Listing(listed[c]) /\ data[c] = SubSeq(archive, 1, l) /\ l <= Len(archive)
    BY <1>3, <1>11 DEF ProgressOf, ReadBack
  <2>3. l \in Nat /\ Len(archive) \in Nat /\ n \in Nat
    BY <1>4, LenProperties
  <2>4. SubSeq(archive, 1, l) \o SubSeq(archive, l + 1, n) = SubSeq(archive, 1, n)
    <3>1. 1 \in 1..(Len(archive) + 1) /\ l \in (1 - 1)..Len(archive) /\ n \in l..Len(archive)
      BY <2>2, <2>3
    <3> HIDE DEF l
    <3> QED BY <1>4, <3>1, ConcatAdjacentSubSeq
  <2>5. data'[c] = data[c] \o SubSeq(archive, l + 1, n)
    BY <1>1, <2>1 DEF TypeOK
  <2>6. data'[c] = SubSeq(archive, 1, n)
    BY <2>2, <2>4, <2>5
  <2>7. Len(SubSeq(archive, 1, n)) = n
    BY <1>4, <2>3, SplitSeq
  <2>8. pc'[c] = "readBack" /\ archive' = archive /\ listed' = listed
    BY <1>11 DEF ReadBack
  <2> HIDE DEF l
  <2>9. data'[c] = SubSeq(archive, 1, Len(data'[c])) /\ Len(data'[c]) <= Len(archive)
    BY <2>3, <2>6, <2>7
  <2> QED BY <1>11, <2>2, <2>8, <2>9 DEF ProgressOf
<1>12. CASE d = c /\ EndOfFile(c)
  <2>1. /\ archive = Listing(listed[c]) /\ data[c] = SubSeq(archive, 1, Len(data[c]))
        /\ Len(data[c]) <= Len(archive) /\ Len(archive) <= Len(data[c])
    BY <1>3, <1>12 DEF ProgressOf, EndOfFile
  <2>2. Len(data[c]) = Len(archive)
    BY <1>4, <2>1, LenProperties
  <2>3. SubSeq(archive, 1, Len(archive)) = archive
    BY <1>4, SubSeqFull
  <2>4. pc'[c] = "replace" /\ data' = data /\ listed' = listed
    BY <1>1, <1>12 DEF TypeOK, EndOfFile
  <2> QED BY <1>12, <2>1, <2>2, <2>3, <2>4 DEF ProgressOf
<1> QED BY <1>5, <1>6, <1>7, <1>8, <1>9, <1>10, <1>11, <1>12 DEF Step, PutStep

\* A lone call queries the rows after the others have left the archive copy, and
\* one that publishes after it has read back overtakes it.
LEMMA EndedStep ==
  ASSUME ArchiveInv, NEW c \in Calls, Step(c) \/ Stop(c)
  PROVE  LoneListsEnded'
<1> USE DEF Goto, disk, copy, history
<1>1. TypeOK /\ LoneRewriter /\ LoneListsEnded /\ PutIsDone
  BY DEF ArchiveInv
<1>2. /\ disturbed \subseteq disturbed' /\ overtaken \subseteq overtaken' /\ hash' = hash
      /\ \A b \in Calls \ {c} : pc'[b] = pc[b] /\ listed'[b] = listed[b]
  BY <1>1 DEF TypeOK, Step, Stat, WriteTemp, Rename, Record, CreateArchive, Disturb, QueryRows,
     WriteLine, CloseArchive, ReadBack, EndOfFile, ReplacePublic, Stop
<1> SUFFICES ASSUME NEW b \in Calls, b \notin disturbed', NEW d \in Calls
             PROVE  /\ pc'[b] \in {"write", "readBack"} /\ pc'[d] \in {"replace", "done"}
                         => hash[d] \in listed'[b]
                    /\ b \notin overtaken' /\ pc'[b] = "replace" /\ pc'[d] = "done"
                         => hash[d] \in listed'[b]
  BY <1>2 DEF LoneListsEnded
<1>3. /\ b \notin disturbed
      /\ pc[b] \in {"write", "readBack"} /\ pc[d] \in {"replace", "done"} => hash[d] \in listed[b]
      /\ b \notin overtaken' /\ pc[b] = "replace" /\ pc[d] = "done" => hash[d] \in listed[b]
  BY <1>1, <1>2 DEF LoneListsEnded
<1>4. CASE c # b /\ c # d
  BY <1>2, <1>3, <1>4
<1>5. CASE c = b /\ c = d
  <2>1. listed'[c] = listed[c] \/ (listed'[c] = rows /\ pc'[c] = "write")
    BY <1>1 DEF TypeOK, Step, Stat, WriteTemp, Rename, Record, CreateArchive, QueryRows,
       WriteLine, CloseArchive, ReadBack, EndOfFile, ReplacePublic, Stop
  <2> QED BY <1>5, <2>1
<1>6. CASE c = b /\ c # d
  <2>1. CASE QueryRows(c)
    <3>1. pc'[b] = "write" /\ listed'[b] = rows /\ pc'[d] = pc[d]
      BY <1>1, <1>2, <1>6, <2>1 DEF TypeOK, QueryRows
    <3>2. pc[d] \in {"replace", "done"} => hash[d] \in rows
      BY <1>1 DEF PutIsDone
    <3> QED BY <3>1, <3>2
  <2>2. CASE ~QueryRows(c)
    <3>1. /\ listed' = listed /\ pc'[d] = pc[d]
          /\ pc'[b] \in {"write", "readBack"} => pc[b] \in {"write", "readBack"}
          /\ pc'[b] = "replace" => pc[b] = "readBack"
      BY <1>1, <1>2, <1>6, <2>2 DEF TypeOK, Step, Stat, WriteTemp, Rename, Record, CreateArchive,
         WriteLine, CloseArchive, ReadBack, EndOfFile, ReplacePublic, Stop
    <3> QED BY <1>3, <3>1
  <2> QED BY <2>1, <2>2
<1>7. CASE c # b /\ c = d
  <2>1. pc'[b] = pc[b] /\ listed'[b] = listed[b]
    BY <1>2, <1>7
  <2>2. CASE EndOfFile(c)
    <3>1. pc'[d] = "replace" /\ Rewriting(d)
      BY <1>1, <1>7, <2>2 DEF TypeOK, EndOfFile, Rewriting
    <3>2. pc[b] \notin {"write", "readBack"}
      BY <1>1, <1>3, <1>7, <3>1 DEF LoneRewriter, Rewriting
    <3> QED BY <2>1, <3>1, <3>2
  <2>3. CASE ReplacePublic(c)
    <3>1. pc[d] = "replace" /\ pc'[d] = "done"
      BY <1>1, <1>7, <2>3 DEF TypeOK, ReplacePublic
    <3>2. pc[b] = "replace" => b \in overtaken'
      BY <1>7, <2>3 DEF ReplacePublic
    <3> QED BY <1>3, <2>1, <3>1, <3>2
  <2>4. CASE ~(EndOfFile(c) \/ ReplacePublic(c))
    <3>1. pc'[d] \notin {"replace", "done"}
      BY <1>1, <1>7, <2>4 DEF TypeOK, Step, Stat, WriteTemp, Rename, Record, CreateArchive,
         QueryRows, WriteLine, CloseArchive, ReadBack, Stop
    <3> QED BY <3>1
  <2> QED BY <2>2, <2>3, <2>4
<1> QED BY <1>4, <1>5, <1>6, <1>7

\* The public copy stays what its publisher had listed until another replaces it.
LEMMA PublisherStep ==
  ASSUME ArchiveInv, NEW c \in Calls, Step(c) \/ Stop(c)
  PROVE  PublicIsPublishers'
<1> USE DEF Goto, disk, copy, history
<1>1. TypeOK /\ LoneProgress /\ LoneListsEnded /\ PutIsDone /\ PublicIsPublishers
  BY DEF ArchiveInv
<1>2. CASE ReplacePublic(c)
  <2>1. /\ publisher' = {c} /\ public' = data[c] /\ pc[c] = "replace" /\ pc'[c] = "done"
        /\ disturbed' = disturbed /\ listed' = listed /\ hash' = hash
        /\ overtaken \subseteq overtaken'
        /\ \A d \in Calls \ {c} : pc'[d] = pc[d]
    BY <1>1, <1>2 DEF TypeOK, ReplacePublic
  <2>2. ASSUME c \notin disturbed
        PROVE  /\ public' = Listing(listed'[c])
               /\ c \notin overtaken' => \A d \in Calls : pc'[d] = "done" => hash[d] \in listed'[c]
    <3>1. data[c] = Listing(listed[c])
      BY <1>1, <2>1, <2>2 DEF LoneProgress
    <3>2. hash[c] \in listed[c]
      BY <1>1, <2>1 DEF PutIsDone
    <3>3. c \notin overtaken => \A d \in Calls : pc[d] = "done" => hash[d] \in listed[c]
      BY <1>1, <2>1, <2>2 DEF LoneListsEnded
    <3> QED BY <2>1, <3>1, <3>2, <3>3
  <2> QED BY <2>1, <2>2 DEF PublicIsPublishers
<1>3. CASE ~ReplacePublic(c)
  <2>1. /\ publisher' = publisher /\ public' = public /\ hash' = hash /\ overtaken' = overtaken
        /\ disturbed \subseteq disturbed'
    BY <1>3 DEF Step, Stat, WriteTemp, Rename, Record, CreateArchive, Disturb, QueryRows,
       WriteLine, CloseArchive, ReadBack, EndOfFile, Stop
  <2>2. \A d \in Calls : /\ pc'[d] = "done" <=> pc[d] = "done"
                         /\ pc[d] = "done" => listed'[d] = listed[d]
    BY <1>1, <1>3 DEF TypeOK, Step, Stat, WriteTemp, Rename, Record, CreateArchive, QueryRows,
       WriteLine, CloseArchive, ReadBack, EndOfFile, Stop
  <2>3. publisher \subseteq Calls
    BY <1>1 DEF TypeOK
  <2> QED BY <1>1, <2>1, <2>2, <2>3 DEF PublicIsPublishers
<1> QED BY <1>2, <1>3

\* A step that changes nothing keeps the invariant.
LEMMA StutterArchive == ArchiveInv /\ UNCHANGED vars => ArchiveInv'
  BY DEF ArchiveInv, TypeOK, FilesAreAtomic, RowsHaveWholeFiles, PutIsDone, LoneRewriter,
     Rewriting, LoneProgress, LoneListsEnded, PublicIsPublishers, vars, disk, copy, history

-----------------------------------------------------------------------------
(* The theorems *)

\* The archive invariant holds at every state: the types, what a row promises,
\* how far each publisher has come, and what the public copy holds.
THEOREM ArchiveInvariant == Spec => []ArchiveInv
<1>1. Init => ArchiveInv
  BY InitArchive
<1>2. ArchiveInv /\ [Next]_vars => ArchiveInv'
  <2>1. ASSUME ArchiveInv, NEW c \in Calls, Step(c) \/ Stop(c)
        PROVE  ArchiveInv'
    BY <2>1, TypeStep, FilesStep, LoneStep, ProgressStep, EndedStep, PublisherStep DEF ArchiveInv
  <2> QED BY <2>1, StutterArchive DEF Next
<1> QED BY <1>1, <1>2, PTL DEF Spec

\* Every variable has its type, for any number of calls and hashes.
THEOREM ArchiveTypes == Spec => []TypeOK
<1>1. ArchiveInv => TypeOK
  BY DEF ArchiveInv
<1> QED BY <1>1, ArchiveInvariant, PTL

\* A row never names a file that is not there or not whole, whoever archives the
\* same bytes at the same time and wherever a call dies.
THEOREM RowsHaveWholeFilesHolds == Spec => []RowsHaveWholeFiles
<1>1. ArchiveInv => RowsHaveWholeFiles
  BY DEF ArchiveInv
<1> QED BY <1>1, ArchiveInvariant, PTL

\* However long the lines are and wherever writes and reads are cut, the public
\* copy is a whole listing with the payload of every call that has ended well,
\* unless the call that replaced it last was disturbed or overtaken.
THEOREM EndedCallsAreListedHolds == Spec => []EndedCallsAreListed
<1>1. ArchiveInv => EndedCallsAreListed
  <2> SUFFICES ASSUME ArchiveInv, NEW c \in Calls, pc[c] = "done",
                      publisher \cap (disturbed \cup overtaken) = {}
               PROVE  \E S \in SUBSET rows : hash[c] \in S /\ public = Listing(S)
    BY DEF EndedCallsAreListed
  <2>1. PutIsDone /\ PublicIsPublishers /\ TypeOK
    BY DEF ArchiveInv
  <2>2. PICK p \in publisher : TRUE
    BY <2>1 DEF PublicIsPublishers
  <2>3. public = Listing(listed[p]) /\ hash[c] \in listed[p]
    BY <2>1, <2>2 DEF PublicIsPublishers
  <2>4. listed[p] \in SUBSET rows
    BY <2>1, <2>2 DEF PutIsDone, TypeOK
  <2> QED BY <2>3, <2>4
<1> QED BY <1>1, ArchiveInvariant, PTL

\* A publisher nobody rewrites the archive copy beside puts the whole listing of
\* the rows it queried in the public place, its own row among them.
THEOREM LonePublisherListsAllHolds == Spec => LonePublisherListsAll
<1>1. ASSUME ArchiveInv, [Next]_vars, NEW c \in Calls \ disturbed,
             pc[c] = "replace", pc'[c] = "done"
      PROVE  public' = Listing(listed[c]) /\ hash[c] \in listed[c] /\ listed[c] \subseteq rows
  <2>1. TypeOK /\ LoneProgress /\ PutIsDone
    BY <1>1 DEF ArchiveInv
  <2>2. PICK d \in Calls : Step(d) \/ Stop(d)
    BY <1>1 DEF Next, vars
  <2>3. d = c /\ ReplacePublic(d)
    BY <1>1, <2>1, <2>2 DEF TypeOK, Goto, Step, Stat, WriteTemp, Rename, Record, CreateArchive,
       QueryRows, WriteLine, CloseArchive, ReadBack, EndOfFile, ReplacePublic, Stop
  <2>4. public' = data[c]
    BY <2>3 DEF ReplacePublic
  <2> QED BY <1>1, <2>1, <2>4 DEF LoneProgress, PutIsDone
<1>2. ArchiveInv /\ [Next]_vars =>
        [\A c \in Calls \ disturbed :
           pc[c] = "replace" /\ pc'[c] = "done" =>
             /\ public' = Listing(listed[c])
             /\ hash[c] \in listed[c]
             /\ listed[c] \subseteq rows]_vars
  BY <1>1
<1> QED BY <1>2, ArchiveInvariant, PTL DEF Spec, LonePublisherListsAll
=============================================================================
