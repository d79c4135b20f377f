--------------------------- MODULE SplitDiffProofs ---------------------------
(***************************************************************************)
(* What SplitDiff promises for every change list, limit, header size and   *)
(* drift.  The state invariant is built in three layers: the cursors       *)
(* (CursorInv), the stream of records on disk (StreamInv) and the fill of  *)
(* each chunk (ChunkInv), each proved from the layers below it.            *)
(***************************************************************************)
EXTENDS SplitDiff, TLAPS

\* Layer 1.  The cursors, and what the place in the loop says about them.
CursorInv ==
    /\ fc_cursor <= dc_cursor
    /\ partial > 0 => dc_cursor = Len(changes) /\ fc_cursor < Len(changes)
    /\ partial > 0 => changes[fc_cursor + 1].has_content
    /\ partial > 0 <=> sent > 0
    /\ pc \in {"metadata", "content", "done"} => partial = 0
    /\ pc = "content" => dc_cursor = Len(changes) \/ bytes_written >= max_bytes
    /\ pc = "done" => dc_cursor = Len(changes) /\ fc_cursor = Len(changes)

LoopInv == TypeOK /\ CursorInv

\* A fragment is at most what remains, and all of it only when there is no
\* smaller positive budget.
LEMMA FragmentBounds ==
    ASSUME TypeOK, NEW n \in Nat
    PROVE  /\ Fragment(n) \in 0 .. n
           /\ Fragment(n) < n => Fragment(n) > 0
           /\ bytes_written + RECORD_HEADER_SIZE < max_bytes
                => bytes_written + RECORD_HEADER_SIZE + Fragment(n) <= max_bytes
  BY RecordHeaderAssumption DEF Fragment, TypeOK

LEMMA RecordTypes ==
    ASSUME TypeOK
    PROVE  /\ \A i \in 1 .. Len(changes) : DiffChangeRecord(i) \in Record
           /\ \A i, f, n \in Nat : ContentRecord(i, f, n) \in Record
  <1>1. ASSUME NEW i \in 1 .. Len(changes)
        PROVE  DiffChangeRecord(i) \in Record
    <2>1. changes[i] \in Change
      BY DEF TypeOK
    <2>2. changes[i].dc_len \in Nat
      BY <2>1 DEF Change
    <2> QED
      BY <2>2 DEF DiffChangeRecord, Record, RecordType
  <1>2. ASSUME NEW i \in Nat, NEW f \in Nat, NEW n \in Nat
        PROVE  ContentRecord(i, f, n) \in Record
    BY DEF ContentRecord, Record, RecordType
  <1> QED
    BY <1>1, <1>2

LEMMA FinishedChunk ==
    ASSUME files \in Seq(ChunkFile), NEW records \in Seq(Record), NEW bytes \in Nat
    PROVE  FinishedWith(records, bytes) \in Seq(ChunkFile)
  <1>1. [records |-> records, len |-> bytes + RECORD_HEADER_SIZE] \in ChunkFile
    BY RecordHeaderAssumption DEF ChunkFile
  <1> QED
    BY <1>1 DEF FinishedWith

LEMMA LoopInit == Init => LoopInv
  <1> SUFFICES ASSUME Init PROVE LoopInv
    OBVIOUS
  <1>1. changes \in Seq(Change) /\ max_bytes \in Nat
    BY InputsAssumption, LimitsAssumption DEF Init
  <1>2. bytes_written \in Nat
    <2>1. bytes_written = 0 \/ bytes_written \in HeaderSizes
      BY DEF Init
    <2>2. CASE bytes_written \in HeaderSizes
      BY <2>2, HeaderAssumption
    <2> QED
      BY <2>1, <2>2
  <1> QED
    BY <1>1, <1>2 DEF Init, LoopInv, TypeOK, CursorInv, Pcs

LEMMA LoopStep == LoopInv /\ [Next]_vars => LoopInv'
  <1> SUFFICES ASSUME LoopInv, [Next]_vars PROVE LoopInv'
    OBVIOUS
  <1> USE RecordHeaderAssumption, HeaderAssumption
  <1>1. CASE NoPartial
    BY <1>1 DEF NoPartial, loopState, LoopInv, TypeOK, CursorInv, Pcs
  <1>2. CASE DrainLast
    <2>1. ContentRecord(fc_cursor + 1, sent, partial) \in Record
      BY RecordTypes DEF LoopInv, TypeOK
    <2> QED
      BY <1>2, <2>1 DEF DrainLast, WriteRecord, ContentRecord, LoopInv, TypeOK,
                        CursorInv, Pcs
  <1>3. CASE DrainAndRoll
    <2> DEFINE n == Fragment(partial)
               r == ContentRecord(fc_cursor + 1, sent, n)
    <2>1. n \in 1 .. partial - 1
      <3>1. partial \in Nat /\ n < partial
        BY <1>3 DEF DrainAndRoll, LoopInv, TypeOK
      <3>2. n \in 0 .. partial /\ n > 0
        BY <3>1, FragmentBounds DEF LoopInv
      <3> QED
        BY <3>1, <3>2
    <2>2. r \in Record
      BY <2>1, RecordTypes DEF LoopInv, TypeOK
    <2>3. files' \in Seq(ChunkFile)
      <3>1. files \in Seq(ChunkFile) /\ cur \in Seq(Record) /\ bytes_written \in Nat
        BY DEF LoopInv, TypeOK
      <3>2. files' = FinishedWith(Append(cur, r), bytes_written + RECORD_HEADER_SIZE + n)
        BY <1>3 DEF DrainAndRoll
      <3> HIDE DEF n, r
      <3>3. Append(cur, r) \in Seq(Record)
        BY <2>2, <3>1
      <3>4. bytes_written + RECORD_HEADER_SIZE + n \in Nat
        BY <2>1, <3>1
      <3> QED
        BY <3>1, <3>2, <3>3, <3>4, FinishedChunk
    <2>4. /\ partial' = partial - n /\ sent' = sent + n
          /\ cur' = <<>> /\ bytes_written' \in Nat
          /\ UNCHANGED <<changes, max_bytes, pc, dc_cursor, fc_cursor>>
          /\ pc = "drain"
      BY <1>3 DEF DrainAndRoll, CreateChunkWriter
    <2> HIDE DEF n
    <2> QED
      BY <2>1, <2>3, <2>4 DEF LoopInv, TypeOK, CursorInv, Pcs
  <1>4. CASE WriteDiffChange
    <2>1. DiffChangeRecord(dc_cursor + 1) \in Record
      BY <1>4, RecordTypes DEF WriteDiffChange, LoopInv, TypeOK
    <2>2. changes[dc_cursor + 1].dc_len \in Nat
      <3>1. changes[dc_cursor + 1] \in Change
        BY <1>4 DEF WriteDiffChange, LoopInv, TypeOK
      <3> QED
        BY <3>1 DEF Change
    <2> QED
      BY <1>4, <2>1, <2>2 DEF WriteDiffChange, WriteRecord, DiffChangeRecord, LoopInv,
                              TypeOK, CursorInv, Pcs
  <1>5. CASE MetadataEnds
    BY <1>5 DEF MetadataEnds, loopState, LoopInv, TypeOK, CursorInv, Pcs
  <1>6. CASE SkipContentless
    BY <1>6 DEF SkipContentless, LoopInv, TypeOK, CursorInv, Pcs
  <1>7. CASE WriteContent
    <2>1. PICK d \in Drift :
            LET size == changes[fc_cursor + 1].size + d
                fragment == Fragment(size)
            IN  /\ size >= 0
                /\ WriteRecord(ContentRecord(fc_cursor + 1, 0, fragment))
                /\ partial' = size - fragment
                /\ IF fragment = size
                     THEN fc_cursor' = fc_cursor + 1 /\ sent' = 0 /\ pc' = pc
                     ELSE fc_cursor' = fc_cursor /\ sent' = fragment /\ pc' = "roll"
      BY <1>7 DEF WriteContent
    <2> DEFINE size == changes[fc_cursor + 1].size + d
               n == Fragment(size)
    <2>2. size \in Nat
      <3>1. changes[fc_cursor + 1] \in Change
        BY <1>7 DEF WriteContent, LoopInv, TypeOK
      <3>2. changes[fc_cursor + 1].size \in Nat
        BY <3>1 DEF Change
      <3> QED
        BY <2>1, <3>2, DriftAssumption
    <2>3. n \in 0 .. size /\ (n # size => n > 0)
      <3> HIDE DEF size
      <3> QED
        BY <2>2, FragmentBounds DEF LoopInv
    <2>4. ContentRecord(fc_cursor + 1, 0, n) \in Record
      <3> HIDE DEF size
      <3> QED
        BY <2>2, <2>3, RecordTypes DEF LoopInv, TypeOK
    <2>5. /\ cur' = Append(cur, ContentRecord(fc_cursor + 1, 0, n))
          /\ bytes_written' = bytes_written + RECORD_HEADER_SIZE + n
          /\ partial' = size - n
          /\ \/ n = size /\ fc_cursor' = fc_cursor + 1 /\ sent' = 0 /\ pc' = pc
             \/ n # size /\ fc_cursor' = fc_cursor /\ sent' = n /\ pc' = "roll"
      BY <2>1 DEF WriteRecord, ContentRecord
    <2>6. dc_cursor = Len(changes)
      BY <1>7 DEF WriteContent, NoRoom, LoopInv, TypeOK, CursorInv
    <2> HIDE DEF n, size
    <2>7. /\ UNCHANGED <<changes, max_bytes, files, dc_cursor>>
          /\ pc = "content" /\ fc_cursor < dc_cursor
          /\ changes[fc_cursor + 1].has_content
      BY <1>7 DEF WriteContent
    <2>8. TypeOK'
      BY <2>2, <2>3, <2>4, <2>5, <2>6, <2>7 DEF LoopInv, TypeOK, Pcs
    <2>9. CursorInv'
      BY <2>2, <2>3, <2>5, <2>6, <2>7 DEF LoopInv, TypeOK, CursorInv
    <2> QED
      BY <2>8, <2>9 DEF LoopInv
  <1>8. CASE ContentEnds
    BY <1>8 DEF ContentEnds, loopState, LoopInv, TypeOK, CursorInv, Pcs
  <1>9. CASE RollChunk
    BY <1>9, FinishedChunk DEF RollChunk, CreateChunkWriter, LoopInv, TypeOK,
                               CursorInv, Pcs
  <1>10. CASE Finish
    BY <1>10, FinishedChunk DEF Finish, AllWritten, LoopInv, TypeOK, CursorInv, Pcs
  <1>11. CASE Abort
    BY <1>11 DEF Abort, loopState, LoopInv, TypeOK, CursorInv, Pcs
  <1>12. CASE UNCHANGED vars
    BY <1>12 DEF vars, LoopInv, TypeOK, CursorInv, Pcs
  <1> QED
    BY <1>1, <1>2, <1>3, <1>4, <1>5, <1>6, <1>7, <1>8, <1>9, <1>10, <1>11, <1>12
    DEF Next, Write

\* The loop never leaves its change list: what write_split_diff indexes and
\* counts stays in range, whatever the input, limit, header or drift.
THEOREM TypeCorrect == Spec => []TypeOK
  <1>1. LoopInv => TypeOK
    BY DEF LoopInv
  <1> QED
    BY LoopInit, LoopStep, <1>1, PTL DEF Spec

\* Content trails metadata: the comment's "Invariant: fc_cursor <= dc_cursor"
\* (diff.rs:325), and a file straddles chunks only once every DiffChange is
\* out (diff.rs:332).
THEOREM ContentTrailsMetadata == Spec => []ContentFollowsItsChange
  <1>1. LoopInv => ContentFollowsItsChange
    BY DEF LoopInv, CursorInv, ContentFollowsItsChange
  <1> QED
    BY LoopInit, LoopStep, <1>1, PTL DEF Spec

----------------------------------------------------------------------------
(* Layer 2.  How an action moves the stream: it leaves every record in its *)
(* place, and adds at most one, behind all the others.                     *)

Kept ==
    /\ Places' = Places
    /\ \A p \in Places : At(p)' = At(p)

NextPlace == <<chunk_number, Len(cur) + 1>>

Grew(record) ==
    /\ Places' = Places \cup {NextPlace}
    /\ \A p \in Places : At(p)' = At(p)
    /\ \A p : p = NextPlace => At(p)' = record
    /\ \A p \in Places : Before(p, NextPlace) /\ ~Before(NextPlace, p)
    /\ ~Before(NextPlace, NextPlace)
    /\ NextPlace \notin Places

LEMMA PlacesDef ==
    ASSUME TypeOK, NEW p
    PROVE  p \in Places <=>
             \E k \in 1 .. Len(files) + 1 : \E r \in 1 .. Len(Records(k)) : p = <<k, r>>
  BY DEF Places, chunk_number

LEMMA PlaceTypes ==
    ASSUME TypeOK, NEW p \in Places
    PROVE  At(p) \in Record
  <1>1. PICK k \in 1 .. Len(files) + 1 :
                 \E r \in 1 .. Len(Records(k)) : p = <<k, r>>
    BY PlacesDef
  <1>2. Records(k) \in Seq(Record)
    <2>1. CASE k <= Len(files)
      <3>1. files[k] \in ChunkFile
        BY <2>1 DEF TypeOK
      <3> QED
        BY <2>1, <3>1 DEF Records, ChunkFile
    <2>2. CASE ~(k <= Len(files))
      BY <2>2 DEF Records, TypeOK
    <2> QED
      BY <2>1, <2>2
  <1> QED
    BY <1>1, <1>2 DEF At

LEMMA NextPlaceIsLast ==
    ASSUME TypeOK
    PROVE  /\ \A p \in Places : Before(p, NextPlace) /\ ~Before(NextPlace, p)
           /\ ~Before(NextPlace, NextPlace)
           /\ NextPlace \notin Places
  <1>1. ASSUME NEW p \in Places
        PROVE  Before(p, NextPlace) /\ ~Before(NextPlace, p)
    <2>1. PICK k \in 1 .. Len(files) + 1 :
                 \E r \in 1 .. Len(Records(k)) : p = <<k, r>>
      BY PlacesDef
    <2>2. CASE k = Len(files) + 1
      <3>1. Records(k) = cur
        BY <2>2 DEF Records, TypeOK
      <3> QED
        BY <2>1, <2>2, <3>1 DEF Before, NextPlace, chunk_number, TypeOK
    <2>3. CASE k # Len(files) + 1
      BY <2>1, <2>3 DEF Before, NextPlace, chunk_number, TypeOK
    <2> QED
      BY <2>2, <2>3
  <1>2. ~Before(NextPlace, NextPlace)
    BY DEF Before, NextPlace, chunk_number, TypeOK
  <1> QED
    BY <1>1, <1>2

LEMMA SameRecordsKept ==
    ASSUME UNCHANGED <<files, cur>>
    PROVE  Kept
  BY DEF Kept, Places, Records, At, chunk_number

\* Closing the chunk: its records keep their places, now in a file.
LEMMA RollKeeps ==
    ASSUME TypeOK, NEW bytes,
           files' = FinishedWith(cur, bytes), cur' = <<>>
    PROVE  Kept
  <1>1. /\ Len(files') = Len(files) + 1
        /\ \A k \in 1 .. Len(files) : files'[k] = files[k]
        /\ files'[Len(files) + 1].records = cur
    BY DEF FinishedWith, TypeOK
  <1>2. \A k \in 1 .. Len(files) + 1 : Records(k)' = Records(k)
    BY <1>1 DEF Records, TypeOK
  <1>3. \A k \in Nat : k = Len(files) + 2 => Records(k)' = <<>>
    BY <1>1 DEF Records, TypeOK
  <1>4. ASSUME NEW p PROVE p \in Places' <=> p \in Places
    <2>1. chunk_number' = Len(files) + 2
      BY <1>1 DEF chunk_number, TypeOK
    <2>2. p \in Places' <=>
            \E k \in 1 .. chunk_number' : \E r \in 1 .. Len(Records(k)') : p = <<k, r>>
      BY DEF Places
    <2>3. ASSUME NEW k \in 1 .. Len(files) + 2, NEW r \in 1 .. Len(Records(k)')
          PROVE  k \in 1 .. Len(files) + 1 /\ r \in 1 .. Len(Records(k))
      <3>1. k # Len(files) + 2
        <4>1. 1 .. Len(<<>>) = {}
          OBVIOUS
        <4> QED
          BY <1>3, <2>3, <4>1 DEF TypeOK
      <3>2. k \in 1 .. Len(files) + 1
        BY <3>1 DEF TypeOK
      <3> QED
        BY <1>2, <3>2
    <2>4. ASSUME NEW k \in 1 .. Len(files) + 1, NEW r \in 1 .. Len(Records(k))
          PROVE  k \in 1 .. Len(files) + 2 /\ r \in 1 .. Len(Records(k)')
      BY <1>2, <2>4 DEF TypeOK
    <2>5. ASSUME p \in Places' PROVE p \in Places
      <3>1. PICK k \in 1 .. Len(files) + 2 : \E r \in 1 .. Len(Records(k)') : p = <<k, r>>
        BY <2>1, <2>2, <2>5
      <3> QED
        BY <2>3, <3>1, PlacesDef
    <2>6. ASSUME p \in Places PROVE p \in Places'
      <3>1. PICK k \in 1 .. Len(files) + 1 : \E r \in 1 .. Len(Records(k)) : p = <<k, r>>
        BY <2>6, PlacesDef
      <3> QED
        BY <2>1, <2>2, <2>4, <3>1
    <2> QED
      BY <2>5, <2>6
  <1>5. ASSUME NEW p \in Places PROVE At(p)' = At(p)
    BY <1>2, PlacesDef DEF At
  <1> QED
    BY <1>4, <1>5 DEF Kept

\* One record more in the open chunk, which may be closed in the same step.
LEMMA RecordAdded ==
    ASSUME TypeOK, NEW record, NEW n, n = Len(files) + 1,
           \A k \in 1 .. Len(files) : Records(k)' = Records(k),
           Records(n)' = Append(cur, record),
           \/ chunk_number' = n
           \/ chunk_number' = n + 1 /\ Records(n + 1)' = <<>>
    PROVE  Grew(record)
  <1>1. /\ n \in Nat /\ Len(cur) \in Nat /\ Len(files) \in Nat
        /\ Records(n) = cur /\ cur \in Seq(Record)
    BY DEF TypeOK, Records
  <1>2. NextPlace = <<n, Len(cur) + 1>>
    BY DEF NextPlace, chunk_number
  <1>3. Len(Append(cur, record)) = Len(cur) + 1
    BY DEF TypeOK
  <1>4. ASSUME NEW k \in 1 .. chunk_number', NEW r \in 1 .. Len(Records(k)')
        PROVE  k \in 1 .. n /\ (r \in 1 .. Len(Records(k)) \/ (k = n /\ r = Len(cur) + 1))
    <2>1. k # n + 1
      <3>1. 1 .. Len(<<>>) = {}
        OBVIOUS
      <3>2. CASE chunk_number' = n
        BY <1>1, <3>2
      <3>3. CASE Records(n + 1)' = <<>>
        BY <1>4, <3>1, <3>3
      <3> QED
        BY <3>2, <3>3
    <2>2. k \in 1 .. n
      BY <1>1, <1>4, <2>1
    <2>3. CASE k = n
      BY <1>1, <1>3, <1>4, <2>2, <2>3
    <2>4. CASE k # n
      <3>1. k \in 1 .. Len(files)
        BY <1>1, <2>2, <2>4
      <3> QED
        BY <1>4, <2>2, <3>1
    <2> QED
      BY <2>3, <2>4
  <1>5. ASSUME NEW k \in 1 .. n, NEW r \in 1 .. Len(Records(k))
        PROVE  /\ k \in 1 .. chunk_number' /\ r \in 1 .. Len(Records(k)')
               /\ Records(k)'[r] = Records(k)[r]
    <2>1. k \in 1 .. chunk_number'
      BY <1>1
    <2>2. CASE k = n
      <3>1. Records(k) = cur /\ Records(k)' = Append(cur, record)
        BY <1>1, <2>2
      <3>2. \A i \in 1 .. Len(cur) : Append(cur, record)[i] = cur[i]
        BY <1>1
      <3> QED
        BY <1>1, <1>3, <1>5, <2>1, <3>1, <3>2
    <2>3. CASE k # n
      <3>1. k \in 1 .. Len(files)
        BY <1>1, <2>3
      <3> QED
        BY <1>5, <2>1, <3>1
    <2> QED
      BY <2>2, <2>3
  <1>6. /\ n \in 1 .. chunk_number' /\ Len(cur) + 1 \in 1 .. Len(Records(n)')
        /\ Records(n)'[Len(cur) + 1] = record
    <2>1. n \in 1 .. chunk_number'
      BY <1>1
    <2>2. Append(cur, record)[Len(cur) + 1] = record
      BY DEF TypeOK
    <2> QED
      BY <1>1, <1>3, <2>1, <2>2
  <1>7. ASSUME NEW p
        PROVE  p \in Places' <=> \E k \in 1 .. chunk_number' :
                                   \E r \in 1 .. Len(Records(k)') : p = <<k, r>>
    BY DEF Places
  <1>8. ASSUME NEW p
        PROVE  p \in Places <=> \E k \in 1 .. n : \E r \in 1 .. Len(Records(k)) : p = <<k, r>>
    BY PlacesDef
  <1>9. Places' = Places \cup {NextPlace}
    <2>1. ASSUME NEW p \in Places' PROVE p \in Places \cup {NextPlace}
      <3>1. PICK k \in 1 .. chunk_number' : \E r \in 1 .. Len(Records(k)') : p = <<k, r>>
        BY <1>7
      <3>2. PICK r \in 1 .. Len(Records(k)') : p = <<k, r>>
        BY <3>1
      <3> QED
        BY <1>2, <1>4, <1>8, <3>2
    <2>2. ASSUME NEW p \in Places PROVE p \in Places'
      <3>1. PICK k \in 1 .. n : \E r \in 1 .. Len(Records(k)) : p = <<k, r>>
        BY <1>8
      <3> QED
        BY <1>5, <1>7, <3>1
    <2>3. NextPlace \in Places'
      BY <1>2, <1>6, <1>7
    <2> QED
      BY <2>1, <2>2, <2>3
  <1>10. ASSUME NEW p \in Places PROVE At(p)' = At(p)
    <2>1. PICK k \in 1 .. n : \E r \in 1 .. Len(Records(k)) : p = <<k, r>>
      BY <1>8
    <2> QED
      BY <1>5, <2>1 DEF At
  <1>11. ASSUME NEW p, p = NextPlace PROVE At(p)' = record
    BY <1>2, <1>6, <1>11 DEF At
  <1> QED
    BY <1>9, <1>10, <1>11, NextPlaceIsLast DEF Grew

----------------------------------------------------------------------------
(* The stream itself.                                                      *)

StreamOK == MetadataBeforeContent /\ StreamOrdered /\ FragmentsConnect

\* Where the cursors stand in it.
StreamCursors ==
    /\ \A p \in Places : IsContent(p) => dc_cursor = Len(changes)
    /\ \A p \in Places : ~IsContent(p) => At(p).change <= dc_cursor
    /\ \A p \in Places :
         IsContent(p) => \/ At(p).change <= fc_cursor
                         \/ /\ partial > 0
                            /\ At(p).change = fc_cursor + 1
                            /\ At(p).from + At(p).len <= sent
    /\ sent > 0 => \E p \in Places : /\ IsContent(p)
                                     /\ At(p).change = fc_cursor + 1
                                     /\ At(p).from + At(p).len = sent

\* What is out already.
StreamCovers ==
    /\ \A i \in 1 .. dc_cursor : \E p \in Places : At(p) = DiffChangeRecord(i)
    /\ Drift = {0} =>
         /\ \A i \in 1 .. fc_cursor :
              changes[i].has_content =>
                \E p \in Places : /\ IsContent(p)
                                  /\ At(p).change = i
                                  /\ At(p).from + At(p).len = changes[i].size
         /\ partial > 0 => sent + partial = changes[fc_cursor + 1].size

StreamInv == StreamOK /\ StreamCursors /\ StreamCovers

LEMMA KeptStream ==
    ASSUME TypeOK, Kept, StreamOK
    PROVE  StreamOK'
  <1>1. \A p \in Places : IsContent(p)' <=> IsContent(p)
    BY DEF Kept, IsContent
  <1>2. \A p, q : Before(p, q)' <=> Before(p, q)
    BY DEF Before
  <1>3. MetadataBeforeContent'
    BY <1>1, <1>2 DEF Kept, StreamOK, MetadataBeforeContent
  <1>4. StreamOrdered'
    BY <1>1, <1>2 DEF Kept, StreamOK, StreamOrdered
  <1>5. FragmentsConnect'
    BY <1>1 DEF Kept, StreamOK, FragmentsConnect
  <1> QED
    BY <1>3, <1>4, <1>5 DEF StreamOK

LEMMA GrownStream ==
    ASSUME TypeOK, NEW record \in Record, Grew(record), StreamOK,
           \A p \in Places : IsContent(p) => record.type = "FileContent",
           \A p \in Places :
             At(p).type = record.type =>
                 \/ At(p).change < record.change
                 \/ /\ IsContent(p)
                    /\ At(p).change = record.change
                    /\ At(p).from + At(p).len <= record.from,
           record.type = "FileContent" /\ record.from > 0 =>
               \E p \in Places : /\ IsContent(p)
                                 /\ At(p).change = record.change
                                 /\ At(p).from + At(p).len = record.from
    PROVE  StreamOK'
  <1> PICK last : last = NextPlace
    OBVIOUS
  <1>1. /\ \A p \in Places : /\ At(p)' = At(p)
                             /\ IsContent(p)' <=> IsContent(p)
                             /\ Before(p, last) /\ ~Before(last, p)
        /\ \A p : p \in Places' <=> p \in Places \/ p = last
        /\ At(last)' = record
        /\ ~Before(last, last)
    BY DEF Grew, IsContent
  <1>2. IsContent(last)' <=> record.type = "FileContent"
    BY <1>1 DEF IsContent
  <1>3. \A p, q : Before(p, q)' <=> Before(p, q)
    BY DEF Before
  <1>4. MetadataBeforeContent'
    BY <1>1, <1>2, <1>3 DEF StreamOK, MetadataBeforeContent
  <1>5. StreamOrdered'
    <2> SUFFICES ASSUME NEW p \in Places', NEW q \in Places',
                        Before(p, q)', At(p)'.type = At(q)'.type
                 PROVE  \/ At(p)'.change < At(q)'.change
                        \/ /\ IsContent(p)'
                           /\ At(p)'.change = At(q)'.change
                           /\ At(p)'.from + At(p)'.len <= At(q)'.from
      BY DEF StreamOrdered
    <2>1. CASE p \in Places /\ q \in Places
      BY <1>1, <1>3, <2>1 DEF StreamOK, StreamOrdered
    <2>2. CASE p \in Places /\ q = last
      BY <1>1, <1>3, <2>2
    <2>3. CASE p = last
      BY <1>1, <1>3, <2>3
    <2> QED
      BY <1>1, <2>1, <2>2, <2>3
  <1>6. FragmentsConnect'
    <2> SUFFICES ASSUME NEW q \in Places', IsContent(q)', At(q)'.from > 0
                 PROVE  \E p \in Places' : /\ IsContent(p)'
                                           /\ At(p)'.change = At(q)'.change
                                           /\ At(p)'.from + At(p)'.len = At(q)'.from
      BY DEF FragmentsConnect
    <2>1. CASE q \in Places
      <3>1. PICK p \in Places : /\ IsContent(p)
                                /\ At(p).change = At(q).change
                                /\ At(p).from + At(p).len = At(q).from
        BY <1>1, <2>1 DEF StreamOK, FragmentsConnect
      <3> QED
        BY <1>1, <2>1, <3>1
    <2>2. CASE q = last
      <3>1. PICK p \in Places : /\ IsContent(p)
                                /\ At(p).change = record.change
                                /\ At(p).from + At(p).len = record.from
        BY <1>1, <1>2, <2>2
      <3> QED
        BY <1>1, <2>2, <3>1
    <2> QED
      BY <1>1, <2>1, <2>2
  <1> QED
    BY <1>4, <1>5, <1>6 DEF StreamOK

\* A step that leaves the stream and the cursors alone.
LEMMA KeptInv ==
    ASSUME TypeOK, Kept, StreamInv,
           UNCHANGED <<changes, dc_cursor, fc_cursor, partial, sent>>
    PROVE  StreamInv'
  <1>1. \A p \in Places : (IsContent(p)' <=> IsContent(p)) /\ At(p)' = At(p)
    BY DEF Kept, IsContent
  <1>2. Places' = Places
    BY DEF Kept
  <1>3. \A i : DiffChangeRecord(i)' = DiffChangeRecord(i)
    BY DEF DiffChangeRecord
  <1>4. StreamOK'
    BY KeptStream DEF StreamInv
  <1>5. StreamCursors'
    BY <1>1, <1>2 DEF StreamInv, StreamCursors
  <1>6. StreamCovers'
    BY <1>1, <1>2, <1>3 DEF StreamInv, StreamCovers
  <1> QED
    BY <1>4, <1>5, <1>6 DEF StreamInv

LEMMA OpenChunkGrows ==
    ASSUME TypeOK, NEW record, files' = files, cur' = Append(cur, record)
    PROVE  Grew(record)
  <1>1. chunk_number' = Len(files) + 1
    BY DEF chunk_number
  <1>2. \A k \in 1 .. Len(files) : Records(k)' = Records(k)
    BY DEF Records
  <1>3. \A n : n = Len(files) + 1 => Records(n)' = Append(cur, record)
    BY DEF Records, TypeOK
  <1> QED
    BY <1>1, <1>2, <1>3, RecordAdded

LEMMA ClosedChunkGrows ==
    ASSUME TypeOK, NEW record, NEW bytes,
           files' = FinishedWith(Append(cur, record), bytes), cur' = <<>>
    PROVE  Grew(record)
  <1>1. /\ Len(files') = Len(files) + 1
        /\ \A k \in 1 .. Len(files) : files'[k] = files[k]
        /\ files'[Len(files) + 1].records = Append(cur, record)
    BY DEF FinishedWith, TypeOK
  <1>2. chunk_number' = Len(files) + 2
    BY <1>1 DEF chunk_number, TypeOK
  <1>3. \A k \in 1 .. Len(files) : Records(k)' = Records(k)
    BY <1>1 DEF Records, TypeOK
  <1>4. \A n : n = Len(files) + 1 =>
              Records(n)' = Append(cur, record) /\ Records(n + 1)' = <<>>
    BY <1>1 DEF Records, TypeOK
  <1>5. \A n : n = Len(files) + 1 => n + 1 = Len(files) + 2
    BY DEF TypeOK
  <1> QED
    BY <1>2, <1>3, <1>4, <1>5, RecordAdded

\* A FileContent record that continues where the content stream stands:
\* `n' bytes of the file after fc_cursor, of which `left' remain after it.
LEMMA ContentGrows ==
    ASSUME LoopInv, LoopInv', StreamInv, NEW n \in Nat, NEW left \in Nat,
           Grew(ContentRecord(fc_cursor + 1, sent, n)),
           dc_cursor = Len(changes), fc_cursor < Len(changes),
           UNCHANGED <<changes, dc_cursor>>,
           Drift = {0} => sent + n + left = changes[fc_cursor + 1].size,
           partial' = left,
           \/ left = 0 /\ fc_cursor' = fc_cursor + 1 /\ sent' = 0
           \/ left > 0 /\ n > 0 /\ fc_cursor' = fc_cursor /\ sent' = sent + n
    PROVE  StreamInv'
  <1> DEFINE record == ContentRecord(fc_cursor + 1, sent, n)
  <1> PICK last : last = NextPlace
    OBVIOUS
  <1>1. /\ sent \in Nat /\ fc_cursor \in Nat /\ dc_cursor \in Nat /\ partial \in Nat
        /\ (partial > 0 <=> sent > 0) /\ fc_cursor <= dc_cursor /\ Len(changes) \in Nat
    BY DEF LoopInv, TypeOK, CursorInv
  <1>2. /\ record.type = "FileContent" /\ record.change = fc_cursor + 1
        /\ record.from = sent /\ record.len = n
    BY DEF ContentRecord
  <1>3. \A p \in Places : At(p).change \in Nat /\ At(p).from \in Nat /\ At(p).len \in Nat
    BY PlaceTypes DEF LoopInv, Record
  <1>4. /\ \A p \in Places : At(p)' = At(p) /\ (IsContent(p)' <=> IsContent(p))
        /\ \A p : p \in Places' <=> p \in Places \/ p = last
        /\ At(last)' = record /\ IsContent(last)'
    BY <1>2 DEF Grew, IsContent
  <1>5. StreamOK'
    <2>1. record \in Record
      BY <1>1 DEF ContentRecord, Record, RecordType
    <2>2. \A p \in Places :
             At(p).type = record.type =>
                 \/ At(p).change < record.change
                 \/ /\ IsContent(p)
                    /\ At(p).change = record.change
                    /\ At(p).from + At(p).len <= record.from
      BY <1>1, <1>2, <1>3 DEF StreamInv, StreamCursors, IsContent
    <2>3. record.from > 0 =>
               \E p \in Places : /\ IsContent(p)
                                 /\ At(p).change = record.change
                                 /\ At(p).from + At(p).len = record.from
      BY <1>2 DEF StreamInv, StreamCursors
    <2> HIDE DEF record
    <2> QED
      BY <1>2, <2>1, <2>2, <2>3, GrownStream DEF record, LoopInv, StreamInv
  <1>6. StreamCursors'
    <2>1. \A p \in Places' : IsContent(p)' => dc_cursor' = Len(changes')
      OBVIOUS
    <2>2. \A p \in Places' : ~IsContent(p)' => At(p)'.change <= dc_cursor'
      BY <1>4 DEF StreamInv, StreamCursors
    <2>3. ASSUME NEW p \in Places', IsContent(p)'
          PROVE  \/ At(p)'.change <= fc_cursor'
                 \/ /\ partial' > 0
                    /\ At(p)'.change = fc_cursor' + 1
                    /\ At(p)'.from + At(p)'.len <= sent'
      <3>1. CASE p = last
        BY <1>1, <1>2, <1>4, <3>1
      <3>2. CASE p # last
        <4>1. /\ p \in Places /\ At(p)' = At(p)
              /\ \/ At(p).change <= fc_cursor
                 \/ /\ At(p).change = fc_cursor + 1
                    /\ At(p).from + At(p).len <= sent
          BY <1>4, <2>3, <3>2 DEF StreamInv, StreamCursors
        <4> QED
          BY <1>1, <1>3, <4>1
      <3> QED
        BY <3>1, <3>2
    <2>4. sent' > 0 => \E p \in Places' : /\ IsContent(p)'
                                          /\ At(p)'.change = fc_cursor' + 1
                                          /\ At(p)'.from + At(p)'.len = sent'
      BY <1>1, <1>2, <1>4
    <2> QED
      BY <2>1, <2>2, <2>3, <2>4 DEF StreamCursors
  <1>7. StreamCovers'
    <2>1. \A i \in 1 .. dc_cursor' : \E p \in Places' : At(p)' = DiffChangeRecord(i)'
      BY <1>4 DEF StreamInv, StreamCovers, DiffChangeRecord
    <2>2. ASSUME Drift = {0}, NEW i \in 1 .. fc_cursor', changes'[i].has_content
          PROVE  \E p \in Places' : /\ IsContent(p)'
                                    /\ At(p)'.change = i
                                    /\ At(p)'.from + At(p)'.len = changes'[i].size
      <3>1. CASE i \in 1 .. fc_cursor
        BY <1>4, <2>2, <3>1 DEF StreamInv, StreamCovers
      <3>2. CASE i \notin 1 .. fc_cursor
        <4>1. i = fc_cursor + 1 /\ left = 0
          BY <1>1, <2>2, <3>2
        <4>2. sent + n = changes[i].size
          BY <1>1, <2>2, <4>1
        <4> QED
          BY <1>2, <1>4, <4>1, <4>2
      <3> QED
        BY <3>1, <3>2
    <2>3. Drift = {0} /\ partial' > 0
            => sent' + partial' = changes'[fc_cursor' + 1].size
      BY <1>1
    <2> QED
      BY <2>1, <2>2, <2>3 DEF StreamCovers
  <1> QED
    BY <1>5, <1>6, <1>7 DEF StreamInv

\* The next DiffChange: there is no content yet, and the last DiffChange
\* was for the change before.
LEMMA MetadataGrows ==
    ASSUME LoopInv, StreamInv, dc_cursor < Len(changes),
           Grew(DiffChangeRecord(dc_cursor + 1)), dc_cursor' = dc_cursor + 1,
           UNCHANGED <<changes, fc_cursor, partial, sent>>
    PROVE  StreamInv'
  <1> DEFINE record == DiffChangeRecord(dc_cursor + 1)
  <1> PICK last : last = NextPlace
    OBVIOUS
  <1>1. /\ fc_cursor \in Nat /\ dc_cursor \in Nat /\ Len(changes) \in Nat
        /\ fc_cursor <= dc_cursor
    BY DEF LoopInv, TypeOK, CursorInv
  <1>2. record.type = "DiffChange" /\ record.change = dc_cursor + 1
    BY DEF DiffChangeRecord
  <1>3. \A p \in Places : At(p).change \in Nat /\ ~IsContent(p)
    BY <1>1, PlaceTypes DEF LoopInv, Record, StreamInv, StreamCursors
  <1>4. /\ \A p \in Places : At(p)' = At(p) /\ ~IsContent(p)'
        /\ \A p : p \in Places' <=> p \in Places \/ p = last
        /\ At(last)' = record /\ ~IsContent(last)'
    BY <1>2, <1>3 DEF Grew, IsContent
  <1>5. StreamOK'
    <2>1. record \in Record
      BY <1>1, RecordTypes DEF LoopInv
    <2>2. \A p \in Places : At(p).change < record.change
      BY <1>1, <1>2, <1>3 DEF StreamInv, StreamCursors
    <2> HIDE DEF record
    <2> QED
      BY <1>2, <1>3, <2>1, <2>2, GrownStream DEF record, LoopInv, StreamInv
  <1>6. sent = 0 /\ partial = 0
    BY <1>1 DEF LoopInv, TypeOK, CursorInv
  <1>7. StreamCursors'
    <2>1. \A p \in Places' : At(p)'.change <= dc_cursor'
      BY <1>1, <1>2, <1>3, <1>4 DEF StreamInv, StreamCursors
    <2> QED
      BY <1>4, <1>6, <2>1 DEF StreamCursors
  <1>8. StreamCovers'
    <2>1. ASSUME NEW i \in 1 .. dc_cursor'
          PROVE  \E p \in Places' : At(p)' = DiffChangeRecord(i)'
      <3>1. DiffChangeRecord(i)' = DiffChangeRecord(i)
        BY DEF DiffChangeRecord
      <3>2. CASE i = dc_cursor + 1
        BY <1>4, <3>1, <3>2
      <3>3. CASE i # dc_cursor + 1
        <4>1. i \in 1 .. dc_cursor
          BY <1>1, <3>3
        <4> QED
          BY <1>4, <3>1, <4>1 DEF StreamInv, StreamCovers
      <3> QED
        BY <3>2, <3>3
    <2>2. ASSUME Drift = {0}, NEW i \in 1 .. fc_cursor', changes'[i].has_content
          PROVE  \E p \in Places' : /\ IsContent(p)'
                                    /\ At(p)'.change = i
                                    /\ At(p)'.from + At(p)'.len = changes'[i].size
      BY <1>3, <2>2 DEF StreamInv, StreamCovers
    <2> QED
      BY <1>6, <2>1, <2>2 DEF StreamCovers
  <1> QED
    BY <1>5, <1>7, <1>8 DEF StreamInv

LEMMA StreamInit == Init => StreamInv
  <1> SUFFICES ASSUME Init PROVE StreamInv
    OBVIOUS
  <1>1. LoopInv
    BY LoopInit
  <1>2. files = <<>> /\ cur = <<>> /\ dc_cursor = 0 /\ fc_cursor = 0 /\ sent = 0 /\ partial = 0
    BY DEF Init
  <1>3. ASSUME NEW p \in Places PROVE FALSE
    <2>1. PICK k \in 1 .. Len(files) + 1 : \E r \in 1 .. Len(Records(k)) : p = <<k, r>>
      BY <1>1, PlacesDef DEF LoopInv
    <2>2. Records(k) = <<>>
      BY <1>2, <2>1 DEF Records
    <2>3. 1 .. Len(<<>>) = {}
      OBVIOUS
    <2> QED
      BY <2>1, <2>2, <2>3
  <1> QED
    BY <1>2, <1>3 DEF StreamInv, StreamOK, StreamCursors, StreamCovers,
                      MetadataBeforeContent, StreamOrdered, FragmentsConnect

\* How a step of the loop moves the stream and the cursors.
Stands == Kept /\ UNCHANGED <<changes, dc_cursor, fc_cursor, partial, sent>>

SkipsChange ==
    /\ Kept
    /\ partial = 0 /\ sent = 0 /\ fc_cursor < dc_cursor
    /\ ~changes[fc_cursor + 1].has_content
    /\ fc_cursor' = fc_cursor + 1
    /\ UNCHANGED <<changes, dc_cursor, partial, sent>>

AddsMetadata ==
    /\ dc_cursor < Len(changes)
    /\ Grew(DiffChangeRecord(dc_cursor + 1))
    /\ dc_cursor' = dc_cursor + 1
    /\ UNCHANGED <<changes, fc_cursor, partial, sent>>

\* `n' bytes of the file after fc_cursor, of which `left' remain after them.
AddsContent(n, left) ==
    /\ dc_cursor = Len(changes) /\ fc_cursor < Len(changes)
    /\ changes[fc_cursor + 1].has_content
    /\ UNCHANGED <<changes, dc_cursor>>
    /\ Grew(ContentRecord(fc_cursor + 1, sent, n))
    /\ Drift = {0} => sent + n + left = changes[fc_cursor + 1].size
    /\ n = 0 => sent = 0 /\ left = 0
    /\ partial' = left
    /\ \/ left = 0 /\ fc_cursor' = fc_cursor + 1 /\ sent' = 0
       \/ left > 0 /\ n > 0 /\ fc_cursor' = fc_cursor /\ sent' = sent + n

StreamMove ==
    \/ Stands \/ SkipsChange \/ AddsMetadata
    \/ \E n, left \in Nat : AddsContent(n, left)

LEMMA StreamMoves == LoopInv /\ StreamInv /\ [Next]_vars => StreamMove
  <1> SUFFICES ASSUME LoopInv, StreamInv, [Next]_vars PROVE StreamMove
    OBVIOUS
  <1> USE DEF StreamMove
  <1> TypeOK
    BY DEF LoopInv
  <1>1. CASE NoPartial
    BY <1>1, SameRecordsKept DEF Stands, NoPartial, loopState
  <1>2. CASE DrainLast
    <2>1. Grew(ContentRecord(fc_cursor + 1, sent, partial))
      BY <1>2, OpenChunkGrows DEF DrainLast, WriteRecord
    <2>2. /\ partial \in Nat /\ partial > 0 /\ sent \in Nat
          /\ dc_cursor = Len(changes) /\ fc_cursor < Len(changes)
          /\ changes[fc_cursor + 1].has_content
          /\ Drift = {0} => sent + partial + 0 = changes[fc_cursor + 1].size
      BY <1>2 DEF DrainLast, LoopInv, TypeOK, CursorInv, StreamInv, StreamCovers
    <2>3. AddsContent(partial, 0)
      BY <1>2, <2>1, <2>2 DEF DrainLast, AddsContent
    <2> QED
      BY <2>2, <2>3
  <1>3. CASE DrainAndRoll
    <2> DEFINE n == Fragment(partial)
    <2>1. /\ partial \in Nat /\ partial > 0 /\ sent \in Nat
          /\ dc_cursor = Len(changes) /\ fc_cursor < Len(changes)
          /\ changes[fc_cursor + 1].has_content
          /\ Drift = {0} => sent + partial = changes[fc_cursor + 1].size
      BY <1>3 DEF DrainAndRoll, LoopInv, TypeOK, CursorInv, StreamInv, StreamCovers
    <2>2. n \in 0 .. partial /\ n > 0 /\ n < partial
      BY <1>3, <2>1, FragmentBounds DEF DrainAndRoll
    <2>3. Grew(ContentRecord(fc_cursor + 1, sent, n))
      BY <1>3, ClosedChunkGrows DEF DrainAndRoll, CreateChunkWriter
    <2>4. /\ partial' = partial - n /\ sent' = sent + n
          /\ UNCHANGED <<changes, dc_cursor, fc_cursor>>
      BY <1>3 DEF DrainAndRoll
    <2> HIDE DEF n
    <2>5. /\ n \in Nat /\ partial - n \in Nat /\ partial - n > 0
          /\ Drift = {0} => sent + n + (partial - n) = changes[fc_cursor + 1].size
      <3>1. n \in Nat /\ partial - n \in Nat /\ partial - n > 0
        BY <2>1, <2>2
      <3>2. sent + n + (partial - n) = sent + partial
        BY <2>1, <3>1
      <3> QED
        BY <2>1, <3>1, <3>2
    <2>6. AddsContent(n, partial - n)
      BY <2>1, <2>2, <2>3, <2>4, <2>5 DEF AddsContent
    <2> QED
      BY <2>5, <2>6
  <1>4. CASE WriteDiffChange
    <2>1. Grew(DiffChangeRecord(dc_cursor + 1))
      BY <1>4, OpenChunkGrows DEF WriteDiffChange, WriteRecord
    <2> QED
      BY <1>4, <2>1 DEF WriteDiffChange, AddsMetadata
  <1>5. CASE MetadataEnds
    BY <1>5, SameRecordsKept DEF Stands, MetadataEnds, loopState
  <1>6. CASE SkipContentless
    BY <1>6, SameRecordsKept
    DEF SkipContentless, SkipsChange, LoopInv, TypeOK, CursorInv
  <1>7. CASE WriteContent
    <2>1. PICK d \in Drift :
            LET size == changes[fc_cursor + 1].size + d
                fragment == Fragment(size)
            IN  /\ size >= 0
                /\ WriteRecord(ContentRecord(fc_cursor + 1, 0, fragment))
                /\ partial' = size - fragment
                /\ IF fragment = size
                     THEN fc_cursor' = fc_cursor + 1 /\ sent' = 0 /\ pc' = pc
                     ELSE fc_cursor' = fc_cursor /\ sent' = fragment /\ pc' = "roll"
      BY <1>7 DEF WriteContent
    <2> DEFINE size == changes[fc_cursor + 1].size + d
               n == Fragment(size)
    <2>2. size \in Nat
      <3>1. changes[fc_cursor + 1] \in Change
        BY <1>7 DEF WriteContent, TypeOK
      <3>2. changes[fc_cursor + 1].size \in Nat
        BY <3>1 DEF Change
      <3> QED
        BY <2>1, <3>2, DriftAssumption
    <2>3. /\ cur' = Append(cur, ContentRecord(fc_cursor + 1, 0, n))
          /\ partial' = size - n
          /\ \/ n = size /\ fc_cursor' = fc_cursor + 1 /\ sent' = 0
             \/ n # size /\ fc_cursor' = fc_cursor /\ sent' = n
      BY <2>1 DEF WriteRecord
    <2>4. Drift = {0} => size = changes[fc_cursor + 1].size
      <3>1. changes[fc_cursor + 1] \in Change
        BY <1>7 DEF WriteContent, TypeOK
      <3>2. changes[fc_cursor + 1].size \in Nat
        BY <3>1 DEF Change
      <3> QED
        BY <2>1, <3>2
    <2> HIDE DEF size
    <2>5. n \in 0 .. size /\ (n < size => n > 0)
      BY <2>2, FragmentBounds
    <2> HIDE DEF n
    <2>6. /\ sent = 0 /\ dc_cursor = Len(changes) /\ fc_cursor < Len(changes)
          /\ changes[fc_cursor + 1].has_content
          /\ UNCHANGED <<changes, files, dc_cursor>>
      <3>1. /\ UNCHANGED <<changes, files, dc_cursor>>
            /\ pc = "content" /\ fc_cursor < dc_cursor
            /\ changes[fc_cursor + 1].has_content
            /\ ~(bytes_written + RECORD_HEADER_SIZE >= max_bytes)
        BY <1>7 DEF WriteContent, NoRoom
      <3>2. ~(bytes_written >= max_bytes)
        BY <3>1, RecordHeaderAssumption DEF TypeOK
      <3> QED
        BY <3>1, <3>2 DEF LoopInv, TypeOK, CursorInv
    <2>7. Grew(ContentRecord(fc_cursor + 1, sent, n))
      BY <2>3, <2>6, OpenChunkGrows
    <2>8. /\ n \in Nat /\ size - n \in Nat
          /\ Drift = {0} => sent + n + (size - n) = changes[fc_cursor + 1].size
      <3>1. n \in Nat /\ size - n \in Nat /\ sent + n + (size - n) = size
        BY <2>2, <2>5, <2>6
      <3> QED
        BY <2>4, <3>1
    <2>9. \/ size - n = 0 /\ fc_cursor' = fc_cursor + 1 /\ sent' = 0
          \/ size - n > 0 /\ n > 0 /\ fc_cursor' = fc_cursor /\ sent' = sent + n
      BY <2>2, <2>3, <2>5, <2>6
    <2>10. n = 0 => size - n = 0
      BY <2>2, <2>5
    <2>11. AddsContent(n, size - n)
      BY <2>3, <2>6, <2>7, <2>8, <2>9, <2>10 DEF AddsContent
    <2> QED
      BY <2>8, <2>11
  <1>8. CASE ContentEnds
    BY <1>8, SameRecordsKept DEF Stands, ContentEnds, loopState
  <1>9. CASE RollChunk
    BY <1>9, RollKeeps DEF Stands, RollChunk, CreateChunkWriter
  <1>10. CASE Finish
    BY <1>10, RollKeeps DEF Stands, Finish
  <1>11. CASE Abort
    BY <1>11, SameRecordsKept DEF Stands, Abort, loopState
  <1>12. CASE UNCHANGED vars
    BY <1>12, SameRecordsKept DEF Stands, vars
  <1> QED
    BY <1>1, <1>2, <1>3, <1>4, <1>5, <1>6, <1>7, <1>8, <1>9, <1>10, <1>11, <1>12
    DEF Next, Write

LEMMA StreamStep == LoopInv /\ LoopInv' /\ StreamInv /\ [Next]_vars => StreamInv'
  <1> SUFFICES ASSUME LoopInv, LoopInv', StreamInv, [Next]_vars PROVE StreamInv'
    OBVIOUS
  <1> TypeOK
    BY DEF LoopInv
  <1>1. CASE Stands
    BY <1>1, KeptInv DEF Stands
  <1>2. CASE SkipsChange
    <2>1. Kept
      BY <1>2 DEF SkipsChange
    <2>2. /\ Places' = Places
          /\ \A p \in Places : (IsContent(p)' <=> IsContent(p)) /\ At(p)' = At(p)
      BY <2>1 DEF Kept, IsContent
    <2>3. StreamOK'
      BY <2>1, KeptStream DEF StreamInv
    <2>4. /\ partial = 0 /\ sent = 0 /\ fc_cursor' = fc_cursor + 1 /\ fc_cursor \in Nat
          /\ ~changes[fc_cursor + 1].has_content
          /\ UNCHANGED <<changes, dc_cursor, partial, sent>>
      BY <1>2 DEF SkipsChange, TypeOK
    <2>5. \A p \in Places : At(p).change \in Nat
      BY PlaceTypes DEF Record
    <2>6. StreamCursors'
      BY <2>2, <2>4, <2>5 DEF StreamInv, StreamCursors
    <2>7. StreamCovers'
      <3>1. \A i : DiffChangeRecord(i)' = DiffChangeRecord(i)
        BY <2>4 DEF DiffChangeRecord
      <3>2. \A i \in 1 .. fc_cursor' : i \in 1 .. fc_cursor \/ ~changes[i].has_content
        BY <2>4
      <3> QED
        BY <2>2, <2>4, <3>1, <3>2 DEF StreamInv, StreamCovers
    <2> QED
      BY <2>3, <2>6, <2>7 DEF StreamInv
  <1>3. CASE AddsMetadata
    BY <1>3, MetadataGrows DEF AddsMetadata
  <1>4. ASSUME NEW n \in Nat, NEW left \in Nat, AddsContent(n, left)
        PROVE  StreamInv'
    BY <1>4, ContentGrows DEF AddsContent
  <1> QED
    BY <1>1, <1>2, <1>3, <1>4, StreamMoves DEF StreamMove

LEMMA StreamHolds == Spec => [](LoopInv /\ StreamInv)
  BY LoopInit, LoopStep, StreamInit, StreamStep, PTL DEF Spec

\* parse_diff_metadata may stop at the first FileContent of a chunk: no
\* DiffChange comes after it, there or in a later chunk (diff.rs:298).
THEOREM MetadataFirst == Spec => []MetadataBeforeContent
  <1>1. StreamInv => MetadataBeforeContent
    BY DEF StreamInv, StreamOK
  <1> QED
    BY StreamHolds, <1>1, PTL

\* The stream of chunks is in change-list order, record after record and
\* byte after byte, and repeats nothing.
THEOREM InOrder == Spec => []StreamOrdered
  <1>1. StreamInv => StreamOrdered
    BY DEF StreamInv, StreamOK
  <1> QED
    BY StreamHolds, <1>1, PTL

\* A fragment on disk is the start of its file or continues another.
THEOREM NoGaps == Spec => []FragmentsConnect
  <1>1. StreamInv => FragmentsConnect
    BY DEF StreamInv, StreamOK
  <1> QED
    BY StreamHolds, <1>1, PTL

\* A split that ends well holds every DiffChange and, when no file changed
\* size after the walk, every content change up to its last byte.
THEOREM Complete == Spec => []NothingLost
  <1>1. LoopInv /\ StreamInv => NothingLost
    BY DEF LoopInv, CursorInv, StreamInv, StreamCovers, NothingLost
  <1> QED
    BY StreamHolds, <1>1, PTL

----------------------------------------------------------------------------
(* Layer 3.  How full a chunk gets, and why none is empty, where the limit *)
(* leaves room for a record.                                               *)

WorkLeft ==
    \/ dc_cursor < Len(changes)
    \/ fc_cursor < Len(changes) /\ changes[fc_cursor + 1].has_content

Fits(records, bytes) ==
    \/ bytes <= max_bytes
    \/ \E i \in 1 .. Len(changes) :
         /\ records # <<>>
         /\ records[Len(records)] = DiffChangeRecord(i)
         /\ bytes < max_bytes + RECORD_HEADER_SIZE + changes[i].dc_len

OpenChunk ==
    /\ pc = "drain" => cur = <<>> /\ bytes_written \in HeaderSizes
    /\ pc = "drain" /\ partial = 0 => WorkLeft
    /\ pc = "metadata" /\ cur = <<>> => bytes_written \in HeaderSizes /\ WorkLeft
    /\ pc = "content" /\ cur = <<>>
         => bytes_written \in HeaderSizes /\ dc_cursor = Len(changes) /\ WorkLeft
    /\ pc = "roll" => cur # <<>>
    /\ pc = "roll" /\ ~AllWritten /\ partial = 0 => WorkLeft
    /\ pc \in {"metadata", "content", "roll"} => Fits(cur, bytes_written)

ClosedChunks ==
    \A k \in 1 .. Len(files) :
        /\ files[k].records # <<>>
        /\ \E bytes \in Nat : /\ files[k].len = bytes + RECORD_HEADER_SIZE
                              /\ Fits(files[k].records, bytes)

ChunkInv == RoomyLimits => OpenChunk /\ ClosedChunks

LEMMA AppendedLast ==
    ASSUME NEW S, NEW seq \in Seq(S), NEW x \in S
    PROVE  Append(seq, x) # <<>> /\ Append(seq, x)[Len(Append(seq, x))] = x
  <1>1. Len(Append(seq, x)) = Len(seq) + 1 /\ Len(seq) \in Nat
    OBVIOUS
  <1>2. Append(seq, x)[Len(seq) + 1] = x
    OBVIOUS
  <1>3. Len(<<>>) = 0
    OBVIOUS
  <1> QED
    BY <1>1, <1>2, <1>3

LEMMA RoomyHeader ==
    ASSUME TypeOK, RoomyLimits, bytes_written \in HeaderSizes
    PROVE  /\ bytes_written + RECORD_HEADER_SIZE < max_bytes
           /\ bytes_written < max_bytes
  <1>1. bytes_written + RECORD_HEADER_SIZE < max_bytes
    BY DEF RoomyLimits
  <1> QED
    BY <1>1, RecordHeaderAssumption DEF TypeOK

LEMMA CloseChunk ==
    ASSUME TypeOK, ClosedChunks, UNCHANGED <<changes, max_bytes>>,
           NEW records, NEW bytes \in Nat, records # <<>>, Fits(records, bytes),
           files' = FinishedWith(records, bytes)
    PROVE  ClosedChunks'
  <1>1. /\ Len(files') = Len(files) + 1
        /\ \A k \in 1 .. Len(files) : files'[k] = files[k]
        /\ files'[Len(files) + 1]
             = [records |-> records, len |-> bytes + RECORD_HEADER_SIZE]
    BY DEF FinishedWith, TypeOK
  <1>2. \A r, b : Fits(r, b)' <=> Fits(r, b)
    BY DEF Fits, DiffChangeRecord
  <1> SUFFICES ASSUME NEW k \in 1 .. Len(files')
               PROVE  /\ files'[k].records # <<>>
                      /\ \E b \in Nat : /\ files'[k].len = b + RECORD_HEADER_SIZE
                                        /\ Fits(files'[k].records, b)
    BY <1>2 DEF ClosedChunks
  <1>3. CASE k \in 1 .. Len(files)
    BY <1>1, <1>3 DEF ClosedChunks
  <1>4. CASE k = Len(files) + 1
    BY <1>1, <1>4
  <1> QED
    BY <1>1, <1>3, <1>4 DEF TypeOK

LEMMA ChunkInit == Init => ChunkInv
  <1> SUFFICES ASSUME Init PROVE ChunkInv
    OBVIOUS
  <1>1. /\ files = <<>> /\ cur = <<>> /\ dc_cursor = 0 /\ changes \in Seq(Change)
        /\ \/ changes = <<>> /\ pc = "done"
           \/ changes # <<>> /\ pc = "drain" /\ bytes_written \in HeaderSizes
    BY InputsAssumption DEF Init
  <1>2. changes # <<>> => dc_cursor < Len(changes)
    BY <1>1
  <1> QED
    BY <1>1, <1>2 DEF ChunkInv, OpenChunk, ClosedChunks, WorkLeft

LEMMA ChunkStep == LoopInv /\ LoopInv' /\ ChunkInv /\ [Next]_vars => ChunkInv'
  <1> SUFFICES ASSUME LoopInv, LoopInv', ChunkInv, [Next]_vars, RoomyLimits'
               PROVE  OpenChunk' /\ ClosedChunks'
    BY DEF ChunkInv
  <1> TypeOK /\ CursorInv /\ TypeOK'
    BY DEF LoopInv
  <1>0. UNCHANGED <<changes, max_bytes>>
    BY DEF Next, Write, vars, NoPartial, DrainLast, DrainAndRoll, WriteDiffChange,
           MetadataEnds, SkipContentless, WriteContent, ContentEnds, RollChunk,
           Finish, Abort
  <1> RoomyLimits /\ OpenChunk /\ ClosedChunks
    BY <1>0 DEF RoomyLimits, ChunkInv
  <1>a. \A r, b : Fits(r, b)' <=> Fits(r, b)
    BY <1>0 DEF Fits, DiffChangeRecord
  <1>b. UNCHANGED files => ClosedChunks'
    BY <1>a DEF ClosedChunks
  <1>c. bytes_written \in HeaderSizes => Fits(cur, bytes_written)
    BY RoomyHeader DEF Fits, TypeOK
  <1>1. CASE NoPartial
    BY <1>1, <1>a, <1>b, <1>c DEF NoPartial, loopState, OpenChunk, WorkLeft, AllWritten
  <1>2. CASE DrainLast
    <2>1. bytes_written' <= max_bytes
      <3>1. bytes_written + RECORD_HEADER_SIZE + partial <= max_bytes
        BY <1>2, RoomyHeader, FragmentBounds DEF DrainLast, OpenChunk, TypeOK
      <3> QED
        BY <1>2, <3>1 DEF DrainLast, WriteRecord, ContentRecord
    <2>2. /\ cur' # <<>> /\ pc' = "metadata" /\ files' = files
      <3>0. fc_cursor + 1 \in Nat /\ sent \in Nat /\ partial \in Nat
        BY DEF TypeOK
      <3>1. ContentRecord(fc_cursor + 1, sent, partial) \in Record
        BY <3>0, RecordTypes
      <3>2. /\ cur' = Append(cur, ContentRecord(fc_cursor + 1, sent, partial))
            /\ pc' = "metadata" /\ files' = files
        BY <1>2 DEF DrainLast, WriteRecord
      <3> QED
        BY <3>1, <3>2, AppendedLast DEF TypeOK
    <2>3. Fits(cur', bytes_written')
      BY <2>1 DEF Fits
    <2> QED
      BY <1>0, <1>a, <1>b, <2>2, <2>3 DEF OpenChunk
  <1>3. CASE DrainAndRoll
    <2> DEFINE n == Fragment(partial)
               r == Append(cur, ContentRecord(fc_cursor + 1, sent, n))
               b == bytes_written + RECORD_HEADER_SIZE + n
    <2>1. n \in 0 .. partial /\ n < partial /\ b <= max_bytes
      BY <1>3, RoomyHeader, FragmentBounds DEF DrainAndRoll, OpenChunk, TypeOK
    <2>2. b \in Nat
      <3>1. n \in Nat
        BY <2>1
      <3> HIDE DEF n
      <3> QED
        BY <3>1, RecordHeaderAssumption DEF TypeOK
    <2>3. r # <<>>
      <3>1. fc_cursor + 1 \in Nat /\ sent \in Nat /\ n \in Nat
        BY <2>1 DEF TypeOK
      <3>2. ContentRecord(fc_cursor + 1, sent, n) \in Record
        BY <3>1, RecordTypes
      <3> QED
        BY <3>2, AppendedLast DEF TypeOK
    <2>4. files' = FinishedWith(r, b)
      BY <1>3 DEF DrainAndRoll
    <2>5. /\ cur' = <<>> /\ bytes_written' \in HeaderSizes /\ pc' = "drain"
          /\ partial' = partial - n
      BY <1>3 DEF DrainAndRoll, CreateChunkWriter
    <2>6. partial' # 0
      <3> HIDE DEF n
      <3> QED
        BY <2>1, <2>5 DEF TypeOK
    <2> HIDE DEF r, b, n
    <2>7. Fits(r, b)
      BY <2>1 DEF Fits
    <2>8. ClosedChunks'
      BY <1>0, <2>2, <2>3, <2>4, <2>7, CloseChunk
    <2> QED
      BY <2>5, <2>6, <2>8 DEF OpenChunk
  <1>4. CASE WriteDiffChange
    <2> DEFINE r == DiffChangeRecord(dc_cursor + 1)
    <2>1. /\ dc_cursor + 1 \in 1 .. Len(changes)
          /\ changes[dc_cursor + 1] \in Change
      BY <1>4 DEF WriteDiffChange, TypeOK
    <2>2. changes[dc_cursor + 1].dc_len \in Nat
      BY <2>1 DEF Change
    <2>3. /\ cur' = Append(cur, r) /\ pc' = "metadata" /\ files' = files
          /\ bytes_written < max_bytes
          /\ bytes_written' = bytes_written + RECORD_HEADER_SIZE
                                + changes[dc_cursor + 1].dc_len
      BY <1>4 DEF WriteDiffChange, WriteRecord, DiffChangeRecord
    <2>4. bytes_written' < max_bytes + RECORD_HEADER_SIZE + changes[dc_cursor + 1].dc_len
      <3> bytes_written \in Nat /\ max_bytes \in Nat
        BY DEF TypeOK
      <3> QED
        BY <2>2, <2>3, RecordHeaderAssumption
    <2>5. cur' # <<>> /\ cur'[Len(cur')] = r
      <3>1. r \in Record
        BY <2>1, RecordTypes
      <3> QED
        BY <2>3, <3>1, AppendedLast DEF TypeOK
    <2>6. Fits(cur', bytes_written')
      BY <2>1, <2>4, <2>5 DEF Fits
    <2> QED
      BY <1>0, <1>a, <1>b, <2>3, <2>5, <2>6 DEF OpenChunk
  <1>5. CASE MetadataEnds
    <2>1. cur = <<>> => dc_cursor = Len(changes)
      BY <1>5, RoomyHeader DEF MetadataEnds, OpenChunk, TypeOK
    <2> QED
      BY <1>5, <1>a, <1>b, <2>1 DEF MetadataEnds, loopState, OpenChunk, WorkLeft
  <1>6. CASE SkipContentless
    <2>1. cur # <<>>
      BY <1>6 DEF SkipContentless, OpenChunk, WorkLeft, TypeOK
    <2> QED
      BY <1>6, <1>a, <1>b, <2>1 DEF SkipContentless, OpenChunk
  <1>7. CASE WriteContent
    <2>1. PICK d \in Drift :
            LET size == changes[fc_cursor + 1].size + d
                fragment == Fragment(size)
            IN  /\ size >= 0
                /\ WriteRecord(ContentRecord(fc_cursor + 1, 0, fragment))
                /\ partial' = size - fragment
                /\ IF fragment = size
                     THEN fc_cursor' = fc_cursor + 1 /\ sent' = 0 /\ pc' = pc
                     ELSE fc_cursor' = fc_cursor /\ sent' = fragment /\ pc' = "roll"
      BY <1>7 DEF WriteContent
    <2> DEFINE size == changes[fc_cursor + 1].size + d
               n == Fragment(size)
    <2>2. size \in Nat
      <3>1. changes[fc_cursor + 1] \in Change
        BY <1>7 DEF WriteContent, TypeOK
      <3>2. changes[fc_cursor + 1].size \in Nat
        BY <3>1 DEF Change
      <3> QED
        BY <2>1, <3>2, DriftAssumption
    <2>3. /\ cur' = Append(cur, ContentRecord(fc_cursor + 1, 0, n))
          /\ bytes_written' = bytes_written + RECORD_HEADER_SIZE + n
          /\ partial' = size - n
          /\ (n = size /\ pc' = pc) \/ (n # size /\ pc' = "roll")
      BY <2>1 DEF WriteRecord, ContentRecord
    <2> HIDE DEF size
    <2>4. /\ n \in 0 .. size
          /\ bytes_written + RECORD_HEADER_SIZE < max_bytes
               => bytes_written + RECORD_HEADER_SIZE + n <= max_bytes
      BY <2>2, FragmentBounds
    <2> HIDE DEF n
    <2>5. /\ bytes_written + RECORD_HEADER_SIZE < max_bytes
          /\ files' = files /\ pc = "content"
      BY <1>7, RecordHeaderAssumption DEF WriteContent, NoRoom, TypeOK
    <2>6. Fits(cur', bytes_written')
      BY <2>3, <2>4, <2>5 DEF Fits
    <2>7. cur' # <<>>
      <3>1. n \in Nat
        BY <2>2, <2>4
      <3>2. fc_cursor + 1 \in Nat
        BY DEF TypeOK
      <3>3. ContentRecord(fc_cursor + 1, 0, n) \in Record
        BY <3>1, <3>2, RecordTypes
      <3>4. cur \in Seq(Record)
        BY DEF TypeOK
      <3> QED
        BY <2>3, <3>3, <3>4, AppendedLast
    <2>8. pc' = "roll" => partial' # 0
      BY <2>2, <2>3, <2>4, <2>5
    <2> QED
      BY <1>0, <1>a, <1>b, <2>3, <2>5, <2>6, <2>7, <2>8 DEF OpenChunk
  <1>8. CASE ContentEnds
    <2>1. /\ pc = "content" /\ partial = 0 /\ pc' = "roll"
          /\ UNCHANGED <<changes, max_bytes, loopState>>
          /\ \/ fc_cursor >= dc_cursor
             \/ /\ fc_cursor < dc_cursor /\ changes[fc_cursor + 1].has_content
                /\ NoRoom
      BY <1>8 DEF ContentEnds, CursorInv
    <2>2. cur # <<>>
      <3>1. SUFFICES ASSUME cur = <<>> PROVE FALSE
        OBVIOUS
      <3>2. bytes_written \in HeaderSizes /\ fc_cursor < dc_cursor
        BY <2>1, <3>1 DEF OpenChunk, WorkLeft, TypeOK
      <3>3. ~NoRoom
        BY <3>2, RoomyHeader, RecordHeaderAssumption DEF NoRoom, TypeOK
      <3> QED
        BY <2>1, <3>2, <3>3 DEF TypeOK
    <2>3. ~AllWritten => WorkLeft
      BY <2>1 DEF AllWritten, WorkLeft, TypeOK
    <2> QED
      BY <1>a, <1>b, <2>1, <2>2, <2>3 DEF loopState, OpenChunk, AllWritten, WorkLeft
  <1>9. CASE RollChunk
    <2>1. ClosedChunks'
      BY <1>0, <1>9, CloseChunk DEF RollChunk, OpenChunk, TypeOK
    <2> QED
      BY <1>9, <2>1 DEF RollChunk, CreateChunkWriter, OpenChunk, WorkLeft
  <1>10. CASE Finish
    <2>1. ClosedChunks'
      BY <1>0, <1>10, CloseChunk DEF Finish, OpenChunk, TypeOK
    <2> QED
      BY <1>10, <2>1 DEF Finish, OpenChunk
  <1>11. CASE Abort
    BY <1>11, <1>b DEF Abort, loopState, OpenChunk
  <1>12. CASE UNCHANGED vars
    BY <1>12, <1>a, <1>b DEF vars, OpenChunk, WorkLeft, AllWritten
  <1> QED
    BY <1>1, <1>2, <1>3, <1>4, <1>5, <1>6, <1>7, <1>8, <1>9, <1>10, <1>11, <1>12
    DEF Next, Write

LEMMA ChunksHold == Spec => [](LoopInv /\ ChunkInv)
  BY LoopInit, LoopStep, ChunkInit, ChunkStep, PTL DEF Spec

\* With a limit that leaves room for a record, a chunk file outgrows it by
\* at most its end-of-records sentinel and one DiffChange record.
THEOREM OvershootBounded == Spec => []BoundedOvershoot
  <1>1. ASSUME LoopInv, ChunkInv, RoomyLimits, NEW k \in 1 .. Len(files)
        PROVE  \/ files[k].len <= max_bytes + RECORD_HEADER_SIZE
               \/ \E i \in 1 .. Len(changes) :
                    /\ files[k].records # <<>>
                    /\ files[k].records[Len(files[k].records)] = DiffChangeRecord(i)
                    /\ files[k].len < max_bytes + 2 * RECORD_HEADER_SIZE
                                        + changes[i].dc_len
    <2>1. PICK bytes \in Nat : /\ files[k].len = bytes + RECORD_HEADER_SIZE
                               /\ Fits(files[k].records, bytes)
      BY <1>1 DEF ChunkInv, ClosedChunks
    <2>2. max_bytes \in Nat
      BY <1>1 DEF LoopInv, TypeOK
    <2>3. CASE bytes <= max_bytes
      BY <2>1, <2>2, <2>3, RecordHeaderAssumption
    <2>4. ASSUME NEW i \in 1 .. Len(changes),
                 files[k].records # <<>>,
                 files[k].records[Len(files[k].records)] = DiffChangeRecord(i),
                 bytes < max_bytes + RECORD_HEADER_SIZE + changes[i].dc_len
          PROVE  files[k].len < max_bytes + 2 * RECORD_HEADER_SIZE + changes[i].dc_len
      <3>1. changes[i] \in Change
        BY <1>1 DEF LoopInv, TypeOK
      <3>2. changes[i].dc_len \in Nat
        BY <3>1 DEF Change
      <3> QED
        BY <2>1, <2>2, <2>4, <3>2, RecordHeaderAssumption
    <2> QED
      BY <2>1, <2>3, <2>4 DEF Fits
  <1>2. LoopInv /\ ChunkInv => BoundedOvershoot
    BY <1>1 DEF BoundedOvershoot
  <1> QED
    BY ChunksHold, <1>2, PTL

\* With such a limit, every chunk file carries a record: the loop of
\* write_split_diff makes progress with every chunk it opens.
THEOREM NoEmptyChunk == Spec => []RoomyChunksProgress
  <1>1. ChunkInv => RoomyChunksProgress
    BY DEF ChunkInv, ClosedChunks, RoomyChunksProgress, EveryChunkProgresses
  <1> QED
    BY ChunksHold, <1>1, PTL

=============================================================================
