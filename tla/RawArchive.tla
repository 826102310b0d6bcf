----------------------------- MODULE RawArchive -----------------------------
(***************************************************************************)
(* The archive of raw files: filestore.Put, the raw_file row, and the hash *)
(* listing with its two copies.                                            *)
(*                                                                         *)
(* A call archives one payload, named by its hash, and then publishes the  *)
(* listing; the calls of serve and those of the ingest command share the   *)
(* directories.  A file operation acts at once on what the others see:     *)
(* os.Create truncates the file in place, whoever has it open; a write     *)
(* puts bytes at the offset of its own descriptor, and one beyond the end  *)
(* of the file leaves zero bytes before it; a read takes what is there     *)
(* from its own offset on; a rename replaces the name.  A line is written  *)
(* and a file read in one operation or in several.                         *)
(***************************************************************************)
EXTENDS Naturals, Sequences, FiniteSets

CONSTANTS
  Calls,
  Hashes,     \* hashes of the payloads, in the order of the listing
  LineLength, \* per hash, the bytes of its line, the newline included
  Hole        \* a zero byte

ASSUME HashesAssumption == Hashes \subseteq Nat
ASSUME LineLengthAssumption == LineLength \in [Hashes -> Nat \ {0}]

VARIABLES
  pc,       \* per call, its next operation
  hash,     \* per call, its payload
  files,    \* per hash, what its path holds: "absent", "partial" or "whole"
  rows,     \* hashes with a raw_file row
  archive,  \* the archive copy of the listing, a byte per element
  public,   \* the public copy
  unwritten, \* per call, the bytes it has still to write
  offset,   \* per call, that of its descriptor on the archive copy
  data,     \* per call, what it has read back of the archive copy
  listed,   \* history: per call, the rows it queried
  disturbed, \* history: calls somebody else rewrote the archive copy beside
  overtaken, \* history: calls somebody else published after they had read back
  publisher \* history: the call that replaced the public copy last, if any

disk == <<files, rows>>
copy == <<archive, unwritten, offset, data>>
history == <<listed, disturbed, overtaken, publisher>>
vars == <<pc, hash, disk, copy, public, history>>

\* The lines of the rows of S, byte by byte: <<h, j>> is the j-th byte of the
\* line of h, the last one its newline.
BytesOf(S) == UNION {{h} \X (1..LineLength[h]) : h \in S}
Precedes(a, b) == a[1] < b[1] \/ (a[1] = b[1] /\ a[2] < b[2])
Bytes == BytesOf(Hashes) \cup {Hole}

Stages == {"stat", "writeTemp", "rename", "record", "create", "query", "write",
           "readBack", "replace", "done", "stopped"}

\* The lines of S, sorted by hash: the i-th byte has i - 1 before it.
Listing(S) ==
  LET B == BytesOf(S)
  IN  [i \in 1..Cardinality(B) |->
         CHOOSE b \in B : Cardinality({a \in B : Precedes(a, b)}) = i - 1]

Init ==
  /\ pc = [c \in Calls |-> "stat"]
  /\ hash \in [Calls -> Hashes]
  /\ files = [h \in Hashes |-> "absent"]
  /\ rows = {}
  /\ archive = <<>> /\ public = <<>>
  /\ unwritten = [c \in Calls |-> <<>>] /\ data = [c \in Calls |-> <<>>]
  /\ offset = [c \in Calls |-> 0]
  /\ listed = [c \in Calls |-> {}]
  /\ disturbed = {} /\ overtaken = {} /\ publisher = {}

Goto(c, stage) == pc' = [pc EXCEPT ![c] = stage]

\* The variables of a call are gone with it.
Forget(c) ==
  /\ unwritten' = [unwritten EXCEPT ![c] = <<>>]
  /\ offset' = [offset EXCEPT ![c] = 0]
  /\ data' = [data EXCEPT ![c] = <<>>]

-----------------------------------------------------------------------------
(* Put *)

Stat(c) ==
  /\ pc[c] = "stat"
  /\ Goto(c, IF files[hash[c]] = "absent" THEN "writeTemp" ELSE "record")
  /\ UNCHANGED <<hash, disk, copy, public, history>>

\* Mutant of WriteTemp: the bytes are written at the path itself.
WriteInPlace(c) ==
  /\ pc[c] = "writeTemp"
  /\ files' = [files EXCEPT ![hash[c]] = "partial"]
  /\ Goto(c, "rename")
  /\ UNCHANGED <<hash, rows, copy, public, history>>

\* A temporary file of the call's own is created, written, synced and closed.
WriteTemp(c) ==
  /\ pc[c] = "writeTemp"
  /\ Goto(c, "rename")
  /\ UNCHANGED <<hash, disk, copy, public, history>>

Rename(c) ==
  /\ pc[c] = "rename"
  /\ files' = [files EXCEPT ![hash[c]] = "whole"]
  /\ Goto(c, "record")
  /\ UNCHANGED <<hash, rows, copy, public, history>>

\* Mutant of Record: a file that is not new has been listed already.
RecordAndListNew(c) ==
  /\ pc[c] = "record"
  /\ rows' = rows \cup {hash[c]}
  /\ Goto(c, IF hash[c] \in rows THEN "done" ELSE "create")
  /\ UNCHANGED <<hash, files, copy, public, history>>

Record(c) ==
  /\ pc[c] = "record"
  /\ rows' = rows \cup {hash[c]}
  /\ Goto(c, "create")
  /\ UNCHANGED <<hash, files, copy, public, history>>

-----------------------------------------------------------------------------
(* PublishRawFileHashListing *)

\* The archive copy is being written or read back by c.
Rewriting(c) == pc[c] \in {"query", "write", "readBack"}

Disturb(c) ==
  LET others == {d \in Calls \ {c} : Rewriting(d)}
  IN  disturbed' = disturbed \cup others \cup (IF others = {} THEN {} ELSE {c})

\* Mutant of CreateArchive: the file is opened for appending.
CreateArchiveAppending(c) ==
  /\ pc[c] = "create"
  /\ offset' = [offset EXCEPT ![c] = Len(archive)]
  /\ Disturb(c)
  /\ Goto(c, "query")
  /\ UNCHANGED <<hash, disk, archive, unwritten, data, public, listed, overtaken,
                 publisher>>

CreateArchive(c) ==
  /\ pc[c] = "create"
  /\ archive' = <<>>
  /\ offset' = [offset EXCEPT ![c] = 0]
  /\ Disturb(c)
  /\ Goto(c, "query")
  /\ UNCHANGED <<hash, disk, unwritten, data, public, listed, overtaken, publisher>>

QueryRows(c) ==
  /\ pc[c] = "query"
  /\ listed' = [listed EXCEPT ![c] = rows]
  /\ unwritten' = [unwritten EXCEPT ![c] = Listing(rows)]
  /\ Goto(c, "write")
  /\ UNCHANGED <<hash, disk, archive, offset, data, public, disturbed, overtaken,
                 publisher>>

\* The file f after a write of the bytes s at offset n.
WrittenAt(f, n, s) ==
  [i \in 1..(IF Len(f) > n + Len(s) THEN Len(f) ELSE n + Len(s)) |->
     IF n < i /\ i <= n + Len(s) THEN s[i - n]
     ELSE IF i <= Len(f) THEN f[i]
     ELSE Hole]

\* The bytes from b to the end of its line.
RestOfLine(b) == LineLength[b[1]] + 1 - b[2]

\* Fprintf writes a line; a write may take fewer bytes, and is then continued.
WriteLine(c) ==
  /\ pc[c] = "write"
  /\ \E n \in 1..Len(unwritten[c]) :
       /\ n <= RestOfLine(Head(unwritten[c]))
       /\ archive' = WrittenAt(archive, offset[c], SubSeq(unwritten[c], 1, n))
       /\ offset' = [offset EXCEPT ![c] = @ + n]
       /\ unwritten' = [unwritten EXCEPT ![c] = SubSeq(@, n + 1, Len(@))]
  /\ UNCHANGED <<pc, hash, disk, data, public, history>>

CloseArchive(c) ==
  /\ pc[c] = "write"
  /\ unwritten[c] = <<>>
  /\ Forget(c)
  /\ Goto(c, "readBack")
  /\ UNCHANGED <<hash, disk, archive, public, history>>

\* ReadFile goes on reading until there is no more to read.
ReadBack(c) ==
  /\ pc[c] = "readBack"
  /\ \E n \in (Len(data[c]) + 1)..Len(archive) :
       data' = [data EXCEPT ![c] = @ \o SubSeq(archive, Len(@) + 1, n)]
  /\ UNCHANGED <<pc, hash, disk, archive, unwritten, offset, public, history>>

EndOfFile(c) ==
  /\ pc[c] = "readBack"
  /\ Len(archive) <= Len(data[c])
  /\ Goto(c, "replace")
  /\ UNCHANGED <<hash, disk, copy, public, history>>

\* writeFileAtomically.
ReplacePublic(c) ==
  /\ pc[c] = "replace"
  /\ public' = data[c]
  /\ Goto(c, "done")
  /\ publisher' = {c}
  /\ overtaken' = overtaken \cup {d \in Calls \ {c} : pc[d] = "replace"}
  /\ Forget(c)
  /\ UNCHANGED <<hash, disk, archive, listed, disturbed>>

-----------------------------------------------------------------------------

\* An operation returns an error, or the process dies; its descriptor is closed
\* and nothing on the disk is undone.
Stop(c) ==
  /\ pc[c] \notin {"done", "stopped"}
  /\ Goto(c, "stopped")
  /\ Forget(c)
  /\ UNCHANGED <<hash, disk, archive, public, history>>

Step(c) ==
  \/ Stat(c) \/ WriteTemp(c) \/ Rename(c) \/ Record(c)
  \/ CreateArchive(c) \/ QueryRows(c) \/ WriteLine(c) \/ CloseArchive(c)
  \/ ReadBack(c) \/ EndOfFile(c) \/ ReplacePublic(c)

Next == \E c \in Calls : Step(c) \/ Stop(c)

Spec == Init /\ [][Next]_vars

-----------------------------------------------------------------------------
(* Properties *)

\* Every variable has the type its declaration describes.
TypeOK ==
  /\ pc \in [Calls -> Stages]
  /\ hash \in [Calls -> Hashes]
  /\ files \in [Hashes -> {"absent", "partial", "whole"}]
  /\ rows \subseteq Hashes
  /\ archive \in Seq(Bytes) /\ public \in Seq(Bytes)
  /\ unwritten \in [Calls -> Seq(Bytes)] /\ data \in [Calls -> Seq(Bytes)]
  /\ offset \in [Calls -> Nat]
  /\ listed \in [Calls -> SUBSET Hashes]
  /\ disturbed \subseteq Calls /\ overtaken \subseteq Calls
  /\ publisher \subseteq Calls

\* A row never names a file that is not there or not whole, whoever archives
\* the same bytes at the same time and wherever one of them dies (filestore.go:69).
RowsHaveWholeFiles == \A h \in rows : files[h] = "whole"

\* Of every call that has ended well the public copy lists the payload, as a line
\* of a whole listing of rows, whoever published after it and wherever others
\* died; it is a torn or an older listing only if the call that replaced it last
\* shared the archive copy with another, or was overtaken by one between reading
\* it back and the rename (ingest.go:188, hashlisting.go:87, hashlisting.go:106).
EndedCallsAreListed ==
  \A c \in Calls : pc[c] = "done" =>
    \/ publisher \cap (disturbed \cup overtaken) # {}
    \/ \E S \in SUBSET rows : hash[c] \in S /\ public = Listing(S)

\* A call nobody rewrites the archive copy beside replaces the public copy by the
\* whole listing of the rows there are, its own among them, whatever dead calls
\* left behind (hashlisting.go:66).
LonePublisherListsAll ==
  [][\A c \in Calls \ disturbed :
       pc[c] = "replace" /\ pc'[c] = "done" =>
         /\ public' = Listing(listed[c])
         /\ hash[c] \in listed[c]
         /\ listed[c] \subseteq rows]_vars

(* What the comments of the code say and the code does not do *)

\* PublishRawFileHashListing: a reader of the public copy observes a listing,
\* "never a torn mix of old and new bytes".
PublicIsListing == \E S \in SUBSET rows : public = Listing(S)

\* Not even every line of it is a line of the listing: lines differ in length, so
\* the end of one may follow another.
NoGarbledLine ==
  \A i \in 1..(Len(public) - 1) : public[i] # Hole /\ public[i + 1] # Hole =>
    \/ public[i + 1][1] = public[i][1] /\ public[i + 1][2] = public[i][2] + 1
    \/ RestOfLine(public[i]) = 1 /\ public[i + 1][2] = 1
=============================================================================
