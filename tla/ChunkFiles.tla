----------------------------- MODULE ChunkFiles -----------------------------
(***************************************************************************)
(* The files of one base name in one directory, over several diffs: an     *)
(* unsplit diff (write_single_diff), the chunks of split ones              *)
(* (write_split_diff, create_chunk_writer), what an interrupted diff       *)
(* leaves, and what apply makes of all that when it is given the base name *)
(* (detect_diff_files, parse_diff_metadata, stream_file_contents).         *)
(*                                                                         *)
(* How a diff is cut into chunks is the business of SplitDiff; here it is  *)
(* given.  All files with content have one size, and one content record.   *)
(***************************************************************************)
EXTENDS Integers, SequencesExt

CONSTANTS
    Diffs,     \* diffs, as sequences of chunks, as sequences of records
    MaxChunks, \* how many chunks a diff has at most
    MaxRounds  \* how many diffs are written

RecordType == {"DiffChange", "FileContent"}
Record == [type : RecordType, change : Nat, has_content : BOOLEAN]

Records(chunks) == FlattenSeq(chunks)

Announcing(r) == {i \in 1 .. Len(r) : r[i].has_content}
Sent(r) == {j \in 1 .. Len(r) : r[j].type = "FileContent"}

\* All metadata goes before all content, and content comes in the order of
\* the metadata (MetadataBeforeContent and StreamOrdered of SplitDiff).
ContentInOrder(r) ==
    /\ Announcing(r) \cap Sent(r) = {}
    /\ \A j \in Sent(r), i \in (1 .. Len(r)) \ Sent(r) : i < j
    /\ \A i, j \in Announcing(r) : r[i].change = r[j].change => i = j
    /\ \E place \in [Announcing(r) -> Sent(r)] :
         /\ \A j \in Sent(r) : \E i \in Announcing(r) : place[i] = j
         /\ \A i, j \in Announcing(r) : i < j => place[i] < place[j]
         /\ \A i \in Announcing(r) : r[place[i]].change = r[i].change

ASSUME DiffsAssumption ==
    /\ MaxChunks \in Nat /\ MaxRounds \in Nat
    /\ \A d \in Diffs : /\ d \in Seq(Seq(Record)) /\ Len(d) <= MaxChunks
                        /\ ContentInOrder(Records(d))

VARIABLES
    files,   \* what is there, by number of the chunk; 0 has the base name
    pc,      \* "idle", "write" into the file open, "roll" to the next chunk
    open,    \* the number of the file open
    rest,    \* the records still to write, file by file
    newest,  \* the diff written last, with the files its records went to
    round,   \* how many diffs were begun
    split,   \* whether --split-size was given for the last one
    complete \* whether it was written to its end

filesVars == <<files, pc, open, rest, newest, round, split, complete>>

Absent == [round |-> 0, records |-> <<>>, whole |-> FALSE]
Exists(k) == k \in 0 .. MaxChunks /\ files[k] # Absent

FilesInit ==
    /\ files = [k \in 0 .. MaxChunks |-> Absent]
    /\ pc = "idle"
    /\ open = 0
    /\ rest = <<>>
    /\ newest = <<>>
    /\ round = 0
    /\ split = FALSE
    /\ complete = TRUE

----------------------------------------------------------------------------
(* Writing.                                                                *)

\* Mutant of File_create: a file that exists is appended to.
File_create_append(k, r) ==
    [files EXCEPT ![k] = [round |-> r, records |-> @.records, whole |-> FALSE]]

File_create(k, r) ==
    [files EXCEPT ![k] = [round |-> r, records |-> <<>>, whole |-> FALSE]]

Begin(chunks, k) ==
    /\ pc = "idle"
    /\ round < MaxRounds
    /\ round' = round + 1
    /\ newest' = [c \in 1 .. Len(chunks) |->
                    [i \in 1 .. Len(chunks[c]) |->
                       [round |-> round', type |-> chunks[c][i].type,
                        change |-> chunks[c][i].change,
                        has_content |-> chunks[c][i].has_content]]]
    /\ rest' = newest'
    /\ open' = k
    /\ complete' = (chunks = <<>>)

\* Without changes there is no first chunk.
BeginSplit ==
    \E d \in Diffs :
        /\ Begin(d, 1)
        /\ split' = TRUE
        /\ IF d = <<>> THEN UNCHANGED <<files, pc>>
                       ELSE files' = File_create(1, round') /\ pc' = "write"

BeginSingle ==
    \E d \in Diffs :
        /\ Begin(<<Records(d)>>, 0)
        /\ split' = FALSE
        /\ files' = File_create(0, round')
        /\ pc' = "write"

\* Records and the sentinel of a file.
FinishFile ==
    /\ pc = "write"
    /\ files' = [files EXCEPT ![open].records = @ \o Head(rest), ![open].whole = TRUE]
    /\ rest' = Tail(rest)
    /\ pc' = IF Len(rest) = 1 THEN "idle" ELSE "roll"
    /\ complete' = (Len(rest) = 1)
    /\ UNCHANGED <<open, newest, round, split>>

\* Mutant of NextChunk: the number of the chunk stays.
NextChunkSame ==
    /\ pc = "roll"
    /\ files' = File_create(open, round)
    /\ pc' = "write"
    /\ UNCHANGED <<open, rest, newest, round, split, complete>>

NextChunk ==
    /\ pc = "roll"
    /\ open' = open + 1
    /\ files' = File_create(open', round)
    /\ pc' = "write"
    /\ UNCHANGED <<rest, newest, round, split, complete>>

\* An error, or the end of the process, in a file or between two: what was
\* written stays, the beginning of a file without its sentinel.
Interrupted ==
    /\ pc # "idle"
    /\ pc' = "idle"
    /\ IF pc = "roll" THEN UNCHANGED files
       ELSE \E n \in 0 .. Len(Head(rest)) :
              files' = [files EXCEPT ![open].records = @ \o SubSeq(Head(rest), 1, n)]
    /\ UNCHANGED <<open, rest, newest, round, split, complete>>

\* The user removes the files of a diff that is done with.
Clear ==
    /\ pc = "idle"
    /\ \E k \in 0 .. MaxChunks : Exists(k)
    /\ files' = [k \in 0 .. MaxChunks |-> Absent]
    /\ newest' = <<>>
    /\ split' = FALSE
    /\ complete' = FALSE
    /\ UNCHANGED <<pc, open, rest, round>>

FilesNext ==
    \/ BeginSplit \/ BeginSingle \/ FinishFile \/ NextChunk \/ Interrupted
    \/ Clear

FilesSpec == FilesInit /\ [][FilesNext]_filesVars

----------------------------------------------------------------------------
(* Reading: what apply would do with the files as they are.                *)

FirstMissing ==
    CHOOSE k \in 1 .. MaxChunks + 1 : ~Exists(k) /\ \A j \in 1 .. k - 1 : Exists(j)

DetectFails == ~Exists(0) /\ (Exists(FirstMissing + 1) \/ FirstMissing = 1)

diff_files ==
    IF Exists(0) THEN <<files[0]>> ELSE [k \in 1 .. FirstMissing - 1 |-> files[k]]

ParseFails ==
    \E k \in 1 .. Len(diff_files) :
        /\ ~ diff_files[k].whole
        /\ \A i \in 1 .. Len(diff_files[k].records) :
             diff_files[k].records[i].type = "DiffChange"

CutOff == [round |-> 0, type |-> "cut off", change |-> 0, has_content |-> FALSE]

\* Every record of every file, and where a file without its sentinel ends.
RecordsRead ==
    FlattenSeq([k \in 1 .. Len(diff_files) |->
        diff_files[k].records \o IF diff_files[k].whole THEN <<>> ELSE <<CutOff>>])

\* The content pass: content goes to the change that waits longest for it.
StreamRecord(s, r) ==
    IF s.failed THEN s
    ELSE CASE r.type = "DiffChange" ->
                IF r.has_content THEN [s EXCEPT !.queue = Append(@, r)] ELSE s
           [] r.type = "FileContent" /\ s.queue # <<>> ->
                [s EXCEPT !.queue = Tail(@),
                          !.stored = Append(@, [change |-> Head(s.queue), content |-> r])]
           [] OTHER -> [s EXCEPT !.failed = TRUE]

StreamAll(records) ==
    LET after[n \in 0 .. Len(records)] ==
            IF n = 0 THEN [queue |-> <<>>, stored |-> <<>>, failed |-> FALSE]
                     ELSE StreamRecord(after[n - 1], records[n])
    IN  after[Len(records)]

Streamed == StreamAll(RecordsRead)

\* What is stored at the target, also when the run then fails.
Stored == IF DetectFails \/ ParseFails THEN <<>> ELSE Streamed.stored

Success == /\ ~DetectFails /\ ~ParseFails
           /\ ~Streamed.failed /\ Streamed.queue = <<>>

----------------------------------------------------------------------------
(* Properties.                                                             *)

ContentsStored(chunks) ==
    LET r == Records(chunks)
    IN  \A i, j \in 1 .. Len(r) :
            /\ r[i].has_content
            /\ r[j].type = "FileContent" /\ r[j].change = r[i].change
            => \E n \in 1 .. Len(Stored) : Stored[n] = [change |-> r[i], content |-> r[j]]

\* Whatever older files lie about, of longer diffs, of interrupted ones: a
\* split diff that was written to its end is found, is read first, and all of
\* its content goes where it belongs, as long as no file has the base name
\* itself; an unsplit diff is read alone.
NewestStored ==
    pc = "idle" /\ complete /\ newest # <<>> /\ ~ (split /\ Exists(0)) =>
        /\ ~DetectFails
        /\ IsPrefix(Records(newest), RecordsRead)
        /\ ~ParseFails => ContentsStored(newest)
        /\ ~split => Success /\ RecordsRead = Records(newest)

\* What apply reads is never older before newer, also while or after a diff
\* was interrupted: leftovers come last.
StaleLast ==
    \A i, j \in 1 .. Len(RecordsRead) :
        i < j /\ CutOff \notin {RecordsRead[i], RecordsRead[j]} =>
            RecordsRead[i].round >= RecordsRead[j].round

\* "applies all parts in order" (README.md:88), the parts of the diff:
\* after a diff was written to its end, what is stored for a change is its
\* own content.
OwnContent ==
    pc = "idle" /\ complete => \A n \in 1 .. Len(Stored) :
        /\ Stored[n].change.round = Stored[n].content.round
        /\ Stored[n].change.change = Stored[n].content.change
=============================================================================
