----------------------------- MODULE SplitDiff -----------------------------
(***************************************************************************)
(* write_split_diff (commands/diff.rs): a list of changes is packed into   *)
(* numbered chunk files of at most max_bytes.  Every chunk is to hold its  *)
(* DiffChange records first and its FileContent records after them; a file *)
(* whose bytes do not fit is cut, and the next chunk begins with the rest. *)
(*                                                                         *)
(* A change is reduced to what the packing depends on: whether it carries  *)
(* content, the encoded length of its DiffChange record, and the size its  *)
(* metadata declares.  A FileContent record on disk is a bare run of bytes: *)
(* its fields `change' and `from' (which file, starting at which byte) are *)
(* provenance that only the properties look at, as is the variable `sent'. *)
(***************************************************************************)
EXTENDS Integers, Sequences

CONSTANTS
    Inputs,             \* the change lists a run may start from
    Limits,             \* the values --split-size may have
    HeaderSizes,        \* encoded sizes of magic + length + file header
    RECORD_HEADER_SIZE, \* 1 type byte + 8 length bytes
    Drift               \* (size of a file when it is opened) - (size declared)

Change == [has_content : BOOLEAN, dc_len : Nat, size : Nat]

ASSUME InputsAssumption == Inputs \subseteq Seq(Change)
ASSUME LimitsAssumption == Limits \subseteq Nat
ASSUME HeaderAssumption == HeaderSizes \subseteq Nat /\ HeaderSizes # {}
ASSUME RecordHeaderAssumption == RECORD_HEADER_SIZE \in Nat \ {0}
ASSUME DriftAssumption == Drift \subseteq Int

VARIABLES
    changes,       \* the change list of compute_diff_merkle
    max_bytes,     \* --split-size
    pc,            \* where the loop of write_split_diff stands
    files,         \* finished chunk files; file k is <diff_out>.<k>
    cur,           \* records of the chunk being written
    bytes_written, \* FormatWriter::bytes_written of that chunk
    dc_cursor,     \* number of DiffChange records written
    fc_cursor,     \* number of changes whose content is dealt with
    partial,       \* bytes left in the straddling file's reader; 0 for None
    sent           \* bytes of the straddling file written so far

vars == <<changes, max_bytes, pc, files, cur, bytes_written,
          dc_cursor, fc_cursor, partial, sent>>

loopState == <<files, cur, bytes_written, dc_cursor, fc_cursor, partial, sent>>

RecordType == {"DiffChange", "FileContent"}
Record == [type : RecordType, change : Nat, from : Nat, len : Nat]
ChunkFile == [records : Seq(Record), len : Nat]

chunk_number == Len(files) + 1

----------------------------------------------------------------------------
(* FormatWriter: `finish' appends the end-of-records sentinel, a record    *)
(* header of zero bytes that bytes_written never counts.                   *)

DiffChangeRecord(i) ==
    [type |-> "DiffChange", change |-> i, from |-> 0, len |-> changes[i].dc_len]

ContentRecord(i, from, len) ==
    [type |-> "FileContent", change |-> i, from |-> from, len |-> len]

WriteRecord(record) ==
    /\ cur' = Append(cur, record)
    /\ bytes_written' = bytes_written + RECORD_HEADER_SIZE + record.len

FinishedWith(records, bytes) ==
    Append(files, [records |-> records, len |-> bytes + RECORD_HEADER_SIZE])

CreateChunkWriter ==
    /\ cur' = <<>>
    /\ bytes_written' \in HeaderSizes

\* Mutant of Fragment: the record's own header is not counted.
FragmentWithoutHeader(remaining) ==
    LET budget == max_bytes - bytes_written
    IN  IF budget > 0 /\ budget < remaining THEN budget ELSE remaining

\* write_content_fragment: how many of `remaining' bytes go into this chunk.
Fragment(remaining) ==
    LET budget == max_bytes - (bytes_written + RECORD_HEADER_SIZE)
    IN  IF budget > 0 /\ budget < remaining THEN budget ELSE remaining

----------------------------------------------------------------------------
Init ==
    /\ changes \in Inputs
    /\ max_bytes \in Limits
    /\ files = <<>>
    /\ cur = <<>>
    /\ dc_cursor = 0
    /\ fc_cursor = 0
    /\ partial = 0
    /\ sent = 0
    /\ \/ changes = <<>> /\ pc = "done" /\ bytes_written = 0
       \/ changes # <<>> /\ pc = "drain" /\ bytes_written \in HeaderSizes

\* The top of the loop with nothing carried over.
NoPartial ==
    /\ pc = "drain"
    /\ partial = 0
    /\ pc' = "metadata"
    /\ UNCHANGED <<changes, max_bytes, loopState>>

\* Mutant of DrainLast: the file stays next in line.
DrainLastAgain ==
    /\ pc = "drain"
    /\ partial > 0
    /\ Fragment(partial) = partial
    /\ WriteRecord(ContentRecord(fc_cursor + 1, sent, partial))
    /\ partial' = 0
    /\ sent' = 0
    /\ pc' = "metadata"
    /\ UNCHANGED <<changes, max_bytes, files, dc_cursor, fc_cursor>>

\* The straddling file ends in this chunk.
DrainLast ==
    /\ pc = "drain"
    /\ partial > 0
    /\ Fragment(partial) = partial
    /\ WriteRecord(ContentRecord(fc_cursor + 1, sent, partial))
    /\ partial' = 0
    /\ sent' = 0
    /\ fc_cursor' = fc_cursor + 1
    /\ pc' = "metadata"
    /\ UNCHANGED <<changes, max_bytes, files, dc_cursor>>

\* Mutant of DrainAndRoll: a fragment counts as the whole file.
DrainAndRollCounting ==
    /\ pc = "drain"
    /\ partial > 0
    /\ Fragment(partial) < partial
    /\ LET fragment == Fragment(partial)
       IN  /\ files' = FinishedWith(
                           Append(cur, ContentRecord(fc_cursor + 1, sent, fragment)),
                           bytes_written + RECORD_HEADER_SIZE + fragment)
           /\ partial' = partial - fragment
           /\ sent' = sent + fragment
    /\ CreateChunkWriter
    /\ fc_cursor' = fc_cursor + 1
    /\ UNCHANGED <<changes, max_bytes, pc, dc_cursor>>

\* It does not: the chunk holds one fragment and nothing else.
DrainAndRoll ==
    /\ pc = "drain"
    /\ partial > 0
    /\ Fragment(partial) < partial
    /\ LET fragment == Fragment(partial)
       IN  /\ files' = FinishedWith(
                           Append(cur, ContentRecord(fc_cursor + 1, sent, fragment)),
                           bytes_written + RECORD_HEADER_SIZE + fragment)
           /\ partial' = partial - fragment
           /\ sent' = sent + fragment
    /\ CreateChunkWriter
    /\ UNCHANGED <<changes, max_bytes, pc, dc_cursor, fc_cursor>>

WriteDiffChange ==
    /\ pc = "metadata"
    /\ dc_cursor < Len(changes)
    /\ bytes_written < max_bytes
    /\ WriteRecord(DiffChangeRecord(dc_cursor + 1))
    /\ dc_cursor' = dc_cursor + 1
    /\ UNCHANGED <<changes, max_bytes, pc, files, fc_cursor, partial, sent>>

MetadataEnds ==
    /\ pc = "metadata"
    /\ dc_cursor >= Len(changes) \/ bytes_written >= max_bytes
    /\ pc' = "content"
    /\ UNCHANGED <<changes, max_bytes, loopState>>

\* Mutant of SkipContentless: it looks past the metadata already written.
SkipContentlessAhead ==
    /\ pc = "content"
    /\ fc_cursor < Len(changes)
    /\ ~changes[fc_cursor + 1].has_content
    /\ fc_cursor' = fc_cursor + 1
    /\ UNCHANGED <<changes, max_bytes, pc, files, cur, bytes_written,
                   dc_cursor, partial, sent>>

SkipContentless ==
    /\ pc = "content"
    /\ fc_cursor < dc_cursor
    /\ ~changes[fc_cursor + 1].has_content
    /\ fc_cursor' = fc_cursor + 1
    /\ UNCHANGED <<changes, max_bytes, pc, files, cur, bytes_written,
                   dc_cursor, partial, sent>>

\* Mutants of NoRoom: no check, and one that also counts the sentinel.
NeverFull == FALSE
NoRoomForSentinel == bytes_written + 2 * RECORD_HEADER_SIZE >= max_bytes

\* No room even for an empty FileContent record.
NoRoom == bytes_written + RECORD_HEADER_SIZE >= max_bytes

\* The reader comes from the prefetch pool, which takes the file's size when
\* it opens it, long after the walk declared one.
WriteContent ==
    /\ pc = "content"
    /\ fc_cursor < dc_cursor
    /\ changes[fc_cursor + 1].has_content
    /\ ~NoRoom
    /\ \E d \in Drift :
         LET size == changes[fc_cursor + 1].size + d
             fragment == Fragment(size)
         IN  /\ size >= 0
             /\ WriteRecord(ContentRecord(fc_cursor + 1, 0, fragment))
             /\ partial' = size - fragment
             /\ IF fragment = size
                  THEN fc_cursor' = fc_cursor + 1 /\ sent' = 0 /\ pc' = pc
                  ELSE fc_cursor' = fc_cursor /\ sent' = fragment /\ pc' = "roll"
    /\ UNCHANGED <<changes, max_bytes, files, dc_cursor>>

\* Mutant of ContentEnds: a full chunk does not end it.
ContentEndsWhenAllOut ==
    /\ pc = "content"
    /\ fc_cursor >= dc_cursor
    /\ pc' = "roll"
    /\ UNCHANGED <<changes, max_bytes, loopState>>

ContentEnds ==
    /\ pc = "content"
    /\ \/ fc_cursor >= dc_cursor
       \/ fc_cursor < dc_cursor /\ changes[fc_cursor + 1].has_content /\ NoRoom
    /\ pc' = "roll"
    /\ UNCHANGED <<changes, max_bytes, loopState>>

\* Mutant of AllWritten: content not begun is forgotten.
MetadataWritten == dc_cursor >= Len(changes) /\ partial = 0

AllWritten ==
    /\ dc_cursor >= Len(changes)
    /\ fc_cursor >= Len(changes)
    /\ partial = 0

\* Mutant of RollChunk: the next chunk has the same number.
RollChunkSameNumber ==
    /\ pc = "roll"
    /\ ~AllWritten
    /\ CreateChunkWriter
    /\ pc' = "drain"
    /\ UNCHANGED <<changes, max_bytes, files, dc_cursor, fc_cursor, partial, sent>>

RollChunk ==
    /\ pc = "roll"
    /\ ~AllWritten
    /\ files' = FinishedWith(cur, bytes_written)
    /\ CreateChunkWriter
    /\ pc' = "drain"
    /\ UNCHANGED <<changes, max_bytes, dc_cursor, fc_cursor, partial, sent>>

Finish ==
    /\ pc = "roll"
    /\ AllWritten
    /\ files' = FinishedWith(cur, bytes_written)
    /\ cur' = <<>>
    /\ bytes_written' = 0
    /\ pc' = "done"
    /\ UNCHANGED <<changes, max_bytes, dc_cursor, fc_cursor, partial, sent>>

\* Any `?' in the loop: the writer's I/O, the pool's, a source file that
\* vanished or shrank under its reader.  The chunks written so far stay.
Abort ==
    /\ pc \notin {"done", "failed"}
    /\ pc' = "failed"
    /\ UNCHANGED <<changes, max_bytes, loopState>>

Write ==
    \/ NoPartial \/ DrainLast \/ DrainAndRoll
    \/ WriteDiffChange \/ MetadataEnds
    \/ SkipContentless \/ WriteContent \/ ContentEnds
    \/ RollChunk \/ Finish

Next == Write \/ Abort

\* write_split_diff runs on one thread that nothing in the program can block
\* for ever: it always takes its next step.
Spec == Init /\ [][Next]_vars /\ WF_vars(Write)

----------------------------------------------------------------------------
(* Properties.                                                             *)

Pcs == {"drain", "metadata", "content", "roll", "done", "failed"}

\* The shape of the state: cursors stay inside the change list.
TypeOK ==
    /\ changes \in Seq(Change)
    /\ max_bytes \in Nat
    /\ pc \in Pcs
    /\ files \in Seq(ChunkFile)
    /\ cur \in Seq(Record)
    /\ bytes_written \in Nat
    /\ dc_cursor \in 0 .. Len(changes)
    /\ fc_cursor \in 0 .. Len(changes)
    /\ partial \in Nat
    /\ sent \in Nat

\* The records written so far, by place: chunk number and position in it.
Records(k) == IF k <= Len(files) THEN files[k].records ELSE cur
Places == UNION {{<<k, r>> : r \in 1 .. Len(Records(k))} : k \in 1 .. chunk_number}
At(p) == Records(p[1])[p[2]]
Before(p, q) == p[1] < q[1] \/ (p[1] = q[1] /\ p[2] < q[2])

IsContent(p) == At(p).type = "FileContent"

\* No DiffChange follows a FileContent.  Within a chunk, parse_diff_metadata
\* stops at the first FileContent and would never see it (diff.rs:298);
\* across chunks, none may come while a file straddles (diff.rs:332).
MetadataBeforeContent ==
    \A p, q \in Places : Before(p, q) /\ IsContent(p) => IsContent(q)

\* fc_cursor <= dc_cursor (diff.rs:325): content is written only for changes
\* whose metadata is out, and a file straddles chunks only when no
\* DiffChange is left to introduce (diff.rs:332).
ContentFollowsItsChange ==
    /\ fc_cursor <= dc_cursor
    /\ partial > 0 => dc_cursor = Len(changes) /\ fc_cursor < Len(changes)

\* The order the reader relies on, since a FileContent record does not say
\* whose bytes it holds: DiffChange records in the order of the change list,
\* each once; content in the same order, and within a file byte after byte,
\* with no byte written twice.
StreamOrdered ==
    \A p, q \in Places :
        Before(p, q) /\ At(p).type = At(q).type
            => \/ At(p).change < At(q).change
               \/ /\ IsContent(p)
                  /\ At(p).change = At(q).change
                  /\ At(p).from + At(p).len <= At(q).from

\* No gap: a fragment that does not start its file continues one on disk.
FragmentsConnect ==
    \A q \in Places :
        IsContent(q) /\ At(q).from > 0 =>
            \E p \in Places :
                /\ IsContent(p)
                /\ At(p).change = At(q).change
                /\ At(p).from + At(p).len = At(q).from

\* A finished split has every change's metadata, and the content of every
\* change that has any up to the last byte its metadata declares, provided
\* the files still have the size the walk saw.
NothingLost ==
    pc = "done" /\ Drift = {0} =>
        \A i \in 1 .. Len(changes) :
            /\ \E p \in Places : At(p) = DiffChangeRecord(i)
            /\ changes[i].has_content =>
                 \E p \in Places :
                     /\ IsContent(p)
                     /\ At(p).change = i
                     /\ At(p).from + At(p).len = changes[i].size

\* Limits that leave room for a record header and one byte in any chunk.
RoomyLimits == \A h \in HeaderSizes : h + RECORD_HEADER_SIZE < max_bytes

\* "Max bytes per diff chunk" (cli.rs:46): under a limit that leaves room, no
\* chunk file is longer than --split-size.
ChunksWithinLimit ==
    RoomyLimits => \A k \in 1 .. Len(files) : files[k].len <= max_bytes

\* What holds of the limit: a chunk goes over it by no more than its
\* end-of-records sentinel, or by that and the one DiffChange that was begun
\* below the limit; a chunk that ends in content never by more than the
\* sentinel.
BoundedOvershoot ==
    RoomyLimits =>
        \A k \in 1 .. Len(files) :
            \/ files[k].len <= max_bytes + RECORD_HEADER_SIZE
            \/ \E i \in 1 .. Len(changes) :
                 /\ files[k].records # <<>>
                 /\ files[k].records[Len(files[k].records)] = DiffChangeRecord(i)
                 /\ files[k].len < max_bytes + 2 * RECORD_HEADER_SIZE
                                     + changes[i].dc_len

\* Rolling to a new chunk is progress (diff.rs:422): every finished chunk
\* carries at least one record, whatever the limit.
EveryChunkProgresses == \A k \in 1 .. Len(files) : files[k].records # <<>>

\* The same where the limit leaves room for a record.
RoomyChunksProgress == RoomyLimits => EveryChunkProgresses

\* The split ends, having written everything or failed.
Termination == <>(pc \in {"done", "failed"})

=============================================================================
