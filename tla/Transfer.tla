------------------------------ MODULE Transfer ------------------------------
(***************************************************************************)
(* The way of a split diff from source to target: write_split_diff, the    *)
(* medium the chunk files travel on, and the reading side of run_apply -   *)
(* detect_diff_files, parse_diff_metadata and stream_file_contents.        *)
(*                                                                         *)
(* The medium is out of the program's hands: a chunk file may be missing   *)
(* at the target, or be the beginning of the one that was written (the     *)
(* "half-finished USB copy" of the tests).                                 *)
(***************************************************************************)
EXTENDS SplitDiff

VARIABLES
    rpc,        \* where run_apply stands
    arrived,    \* the chunk files at the target
    diff_files, \* how many of them detect_diff_files found
    parsed,     \* the changes parse_diff_metadata read, by number
    at,         \* the record stream_file_contents reads next
    queue,      \* content changes read and not begun
    active,     \* the ActiveWrite, <<>> for None
    persisted   \* tempfiles taken to their place, in order

readerVars == <<rpc, arrived, diff_files, parsed, at, queue, active, persisted>>
transferVars == <<vars, readerVars>>

\* `torn' says how a file ends: with its end-of-records sentinel, inside a
\* record header (or the sentinel), or inside the payload of its last record.
Ending == {"eor", "header", "payload"}
Missing == [records |-> <<>>, torn |-> "missing"]
Exists(k) == k \in 1 .. Len(arrived) /\ arrived[k] # Missing

----------------------------------------------------------------------------
(* The medium.                                                             *)

Beginning(records, n, torn) == [records |-> SubSeq(records, 1, n), torn |-> torn]

Intact(records) == Beginning(records, Len(records), "eor")

Truncations(records) ==
    {Beginning(records, n, "header") : n \in 0 .. Len(records)}
      \cup {Beginning(records, n, "payload") : n \in 1 .. Len(records)}

\* What the writer left behind: finished chunks and, when it failed, the
\* beginning of the chunk it was in.
Written ==
    LET finished == [k \in 1 .. Len(files) |-> Intact(files[k].records)]
    IN  IF pc = "failed"
          THEN {finished} \cup {Append(finished, t) : t \in Truncations(cur)}
          ELSE {finished}

Carry ==
    /\ rpc = "carry"
    /\ pc \in {"done", "failed"}
    /\ \E written \in Written :
         \/ arrived' = written
         \/ \E lost \in SUBSET (1 .. Len(written)) :
              arrived' = [k \in 1 .. Len(written) |->
                            IF k \in lost THEN Missing ELSE written[k]]
         \/ \E k \in 1 .. Len(written) :
              /\ written[k].torn = "eor"
              /\ \E t \in Truncations(written[k].records) :
                   arrived' = [written EXCEPT ![k] = t]
    /\ rpc' = "detect"
    /\ UNCHANGED <<vars, diff_files, parsed, at, queue, active, persisted>>

----------------------------------------------------------------------------
(* detect_diff_files, with no unsplit diff file of the base name.          *)

FirstMissing ==
    CHOOSE k \in 1 .. Len(arrived) + 1 :
        ~Exists(k) /\ \A j \in 1 .. k - 1 : Exists(j)

GapFound == Exists(FirstMissing + 1)

Fail ==
    /\ rpc' = "error"
    /\ UNCHANGED <<vars, arrived, diff_files, parsed, at, queue, active, persisted>>

\* A gap, or no file at all: main exits before run_apply.
DetectFails ==
    /\ rpc = "detect"
    /\ GapFound \/ FirstMissing = 1
    /\ Fail

Detect ==
    /\ rpc = "detect"
    /\ ~GapFound
    /\ FirstMissing > 1
    /\ diff_files' = FirstMissing - 1
    /\ rpc' = "parse"
    /\ UNCHANGED <<vars, arrived, parsed, at, queue, active, persisted>>

----------------------------------------------------------------------------
(* parse_diff_metadata: chunk by chunk, the DiffChange records up to the   *)
(* first FileContent, whose payload it does not touch.                     *)

chunkRead == arrived[at[1]]

ContentAt(records) == {r \in 1 .. Len(records) : records[r].type = "FileContent"}

MetadataLen(records) ==
    IF ContentAt(records) = {}
      THEN Len(records)
      ELSE (CHOOSE r \in ContentAt(records) : \A s \in ContentAt(records) : r <= s) - 1

ParseFailsIn(chunk) == ContentAt(chunk.records) = {} /\ chunk.torn # "eor"

\* The numbers of the changes in the metadata of a chunk.
MetadataOf(chunk) ==
    [r \in 1 .. MetadataLen(chunk.records) |-> chunk.records[r].change]

Parsing == rpc = "parse" /\ at[1] <= diff_files

\* What was collected goes with the function that collected it.
FailParsing ==
    /\ rpc' = "error"
    /\ parsed' = <<>>
    /\ UNCHANGED <<vars, arrived, diff_files, at, queue, active, persisted>>

ParseFails ==
    /\ Parsing
    /\ ParseFailsIn(chunkRead)
    /\ FailParsing

ParseChunk ==
    /\ Parsing
    /\ ~ParseFailsIn(chunkRead)
    /\ parsed' = parsed \o MetadataOf(chunkRead)
    /\ at' = <<at[1] + 1, 1>>
    /\ UNCHANGED <<vars, rpc, arrived, diff_files, queue, active, persisted>>

\* Between parsing and streaming, run_apply deletes, creates and stamps what
\* needs no content; none of it stops the run.
ParseEnds ==
    /\ rpc = "parse"
    /\ at[1] > diff_files
    /\ at' = <<1, 1>>
    /\ rpc' = "stream"
    /\ UNCHANGED <<vars, arrived, diff_files, parsed, queue, active, persisted>>

----------------------------------------------------------------------------
(* stream_file_contents.                                                   *)

AtEnd == at[2] > Len(chunkRead.records)
record == chunkRead.records[at[2]]
Short == at[2] = Len(chunkRead.records) /\ chunkRead.torn = "payload"
Advance == at' = <<at[1], at[2] + 1>>

Streaming == rpc = "stream" /\ at[1] <= diff_files

ReadDiffChange ==
    /\ Streaming
    /\ ~AtEnd
    /\ record.type = "DiffChange"
    /\ ~Short
    /\ queue' = IF changes[record.change].has_content
                  THEN Append(queue, [change |-> record.change,
                                      size |-> changes[record.change].size])
                  ELSE queue
    /\ Advance
    /\ UNCHANGED <<vars, rpc, arrived, diff_files, parsed, active, persisted>>

\* The write a FileContent record goes to: the active one, else a new
\* tempfile for the head of the queue.
NoPendingChange == active = <<>> /\ queue = <<>>

Target ==
    IF active # <<>>
      THEN active[1]
      ELSE [change |-> Head(queue).change, remaining |-> Head(queue).size,
            pieces |-> <<>>]

Piece == [change |-> record.change, from |-> record.from, len |-> record.len]

AfterRecord ==
    [Target EXCEPT
        !.remaining = IF record.len >= @ THEN 0 ELSE @ - record.len,
        !.pieces = Append(@, Piece)]

ReadContent ==
    /\ Streaming
    /\ ~AtEnd
    /\ record.type = "FileContent"
    /\ ~NoPendingChange
    /\ ~Short
    /\ queue' = IF active = <<>> THEN Tail(queue) ELSE queue
    /\ IF AfterRecord.remaining = 0
         THEN \* finish_active: a rename that fails is counted, not fatal
              /\ \E stored \in BOOLEAN :
                   persisted' = Append(persisted,
                                  [change |-> AfterRecord.change,
                                   pieces |-> AfterRecord.pieces,
                                   stored |-> stored])
              /\ active' = <<>>
         ELSE /\ active' = <<AfterRecord>>
              /\ UNCHANGED persisted
    /\ Advance
    /\ UNCHANGED <<vars, rpc, arrived, diff_files, parsed>>

\* Mutants of NextChunk: the active write is finished with the chunk, and a
\* chunk without its sentinel is taken for complete.
NextChunkFinishing ==
    /\ Streaming
    /\ AtEnd
    /\ chunkRead.torn = "eor"
    /\ at' = <<at[1] + 1, 1>>
    /\ persisted' = persisted \o
                      [i \in 1 .. Len(active) |->
                         [change |-> active[i].change, pieces |-> active[i].pieces,
                          stored |-> TRUE]]
    /\ active' = <<>>
    /\ UNCHANGED <<vars, rpc, arrived, diff_files, parsed, queue>>

NextChunkLenient ==
    /\ Streaming
    /\ AtEnd
    /\ at' = <<at[1] + 1, 1>>
    /\ UNCHANGED <<vars, rpc, arrived, diff_files, parsed, queue, active, persisted>>

\* End of records: on to the next chunk.
NextChunk ==
    /\ Streaming
    /\ AtEnd
    /\ chunkRead.torn = "eor"
    /\ at' = <<at[1] + 1, 1>>
    /\ UNCHANGED <<vars, rpc, arrived, diff_files, parsed, queue, active, persisted>>

\* Mutant of StreamFails: a record cut short is waited for.
StreamFailsButShort ==
    /\ Streaming
    /\ \/ AtEnd /\ chunkRead.torn # "eor"
       \/ ~AtEnd /\ record.type = "FileContent" /\ NoPendingChange
    /\ Fail

\* A record cut short, a chunk without its sentinel, content nobody waits for.
StreamFails ==
    /\ Streaming
    /\ \/ AtEnd /\ chunkRead.torn # "eor"
       \/ ~AtEnd /\ Short
       \/ ~AtEnd /\ record.type = "FileContent" /\ NoPendingChange
    /\ Fail

\* Mutant of Unresolved: the active write is forgotten.
QueueUnresolved == queue # <<>>

Unresolved == active # <<>> \/ queue # <<>>

EndUnresolved ==
    /\ rpc = "stream"
    /\ at[1] > diff_files
    /\ Unresolved
    /\ Fail

EndOk ==
    /\ rpc = "stream"
    /\ at[1] > diff_files
    /\ ~Unresolved
    /\ rpc' = "ok"
    /\ UNCHANGED <<vars, arrived, diff_files, parsed, at, queue, active, persisted>>

\* Any I/O error of the reading side that `?' hands up.
IoError ==
    \/ rpc = "parse" /\ FailParsing
    \/ rpc = "stream" /\ Fail

TransferInit ==
    /\ Init
    /\ rpc = "carry"
    /\ arrived = <<>>
    /\ diff_files = 0
    /\ parsed = <<>>
    /\ at = <<1, 1>>
    /\ queue = <<>>
    /\ active = <<>>
    /\ persisted = <<>>

Read ==
    \/ Carry
    \/ DetectFails \/ Detect
    \/ ParseFails \/ ParseChunk \/ ParseEnds
    \/ ReadDiffChange \/ ReadContent \/ NextChunk \/ StreamFails
    \/ EndUnresolved \/ EndOk

WriteStep == Next /\ UNCHANGED readerVars

TransferNext == WriteStep \/ Read \/ IoError

\* Both programs run on one thread each and are run to their end.
TransferSpec ==
    /\ TransferInit
    /\ [][TransferNext]_transferVars
    /\ WF_transferVars(Write /\ UNCHANGED readerVars)
    /\ WF_transferVars(Read)

----------------------------------------------------------------------------
(* Properties.                                                             *)

\* The pieces are the bytes of `change', from the first to the last.
Exact(pieces, change) ==
    LET n == Len(pieces)
    IN  /\ n > 0
        /\ pieces[1].from = 0
        /\ pieces[n].from + pieces[n].len = changes[change].size
        /\ \A i \in 1 .. n : pieces[i].change = change
        /\ \A i \in 1 .. n - 1 : pieces[i].from + pieces[i].len = pieces[i + 1].from

\* The target file is never replaced by anything but the whole content its
\* change stands for: nothing truncated, nothing of another file, whatever
\* was cut across chunks, lost or damaged on the way (apply.rs:701).
NothingButWholeFiles ==
    \A i \in 1 .. Len(persisted) :
        Exact(persisted[i].pieces, persisted[i].change)

\* A run that reports success read every chunk it found to its end, and
\* dealt with every content change whose metadata it had read.
DamageIsDetected ==
    rpc = "ok" =>
        /\ \A k \in 1 .. diff_files : arrived[k].torn = "eor"
        /\ \A i \in 1 .. Len(parsed) :
             changes[parsed[i]].has_content =>
                 \E j \in 1 .. Len(persisted) : persisted[j].change = parsed[i]

\* Metadata never comes true in part: a run that reports success and stored
\* any content has read the whole change list, even if chunks are missing.
ContentMeansComplete ==
    rpc = "ok" /\ persisted # <<>> =>
        parsed = [i \in 1 .. Len(changes) |-> i]

\* What the abstract delivery sees of this.
Delivery == INSTANCE ContentDelivery WITH
    scope <- IF rpc = "parse" THEN 0 ELSE Len(parsed),
    delivered <- [i \in 1 .. Len(persisted) |->
                    [change |-> IF Exact(persisted[i].pieces, persisted[i].change)
                                  THEN persisted[i].change ELSE 0,
                     stored |-> persisted[i].stored]],
    verdict <- IF rpc \in {"ok", "error"} THEN rpc
               ELSE IF rpc = "stream" THEN "running" ELSE "idle"

\* Packing, carrying and unpacking implement the delivery.
DeliveryRefined == Delivery!Spec

\* An apply that is run ends, one way or the other.
ApplyEnds == <>(rpc \in {"ok", "error"})
=============================================================================
