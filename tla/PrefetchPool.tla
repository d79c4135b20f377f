---------------------------- MODULE PrefetchPool ----------------------------
(***************************************************************************)
(* parallel.rs: worker threads read file content ahead of the one thread   *)
(* that writes the diff.  The pool hands a bounded number of files to the  *)
(* workers over a bounded job channel; each file has a channel for its     *)
(* size and a bounded channel for its blocks; the writer takes the files   *)
(* in queue order.  The consumer here is write_single_diff and             *)
(* write_split_diff, which drain each reader before asking for the next.   *)
(*                                                                         *)
(* A block is what one read of up to CHUNK_SIZE bytes returned, written    *)
(* <<file, number>>.                                                       *)
(***************************************************************************)
EXTENDS Integers, Sequences, FiniteSets

CONSTANTS
    FileBlocks,  \* the path lists: for each file, how many blocks it has
    Workers,     \* the worker threads
    CHUNK_DEPTH, \* capacity of a file's block channel
    ReadErrors   \* whether opening and reading a file may fail

ASSUME PoolAssumption ==
    /\ FileBlocks \subseteq Seq(Nat)
    /\ IsFiniteSet(Workers) /\ Workers # {}
    /\ CHUNK_DEPTH \in Nat \ {0}
    /\ ReadErrors \in BOOLEAN

n_workers == Cardinality(Workers)
Error == <<0, 0>>  \* an Err(..) in a block channel

VARIABLES
    blocks,     \* blocks[f]: blocks of file f when it is opened
    cpc,        \* where the consumer stands
    next_spawn, \* files given to the workers so far
    in_flight,  \* files given to the workers and not handed out yet
    job_tx,     \* whether the pool still holds its end of the job channel
    jobs,       \* the job channel
    worker,     \* the workers: [at, file, sent]
    size_ch,    \* size_ch[f]: the size message, <<>> before it is sent
    chunk_ch,   \* chunk_ch[f]: the block channel
    reader,     \* the ContentReader handed out: [file, remaining]
    current,    \* its current block, <<>> when used up
    got         \* blocks the consumer has written, in order

Files == 1 .. Len(blocks)
NFiles == Len(blocks)

consumerVars == <<cpc, next_spawn, in_flight, job_tx, reader, current, got>>
vars == <<blocks, consumerVars, jobs, worker, size_ch, chunk_ch>>

\* Files are handed out in queue order, so the receivers of file f are alive
\* until its reader is dropped; an error drops the pool and every receiver.
Listening(f) == cpc # "failed" /\ f >= reader.file

\* The sending half of f's channels: in its job, wherever that is.
SenderAlive(f) ==
    \/ f > next_spawn
    \/ \E i \in 1 .. Len(jobs) : jobs[i] = f
    \/ \E w \in Workers : worker[w].file = f

----------------------------------------------------------------------------
(* PrefetchPool::new, next, top_up and finish; ContentReader::read.        *)

Init ==
    /\ blocks \in FileBlocks
    /\ cpc = "top_up"
    /\ next_spawn = 0
    /\ in_flight = <<>>
    /\ job_tx = TRUE
    /\ jobs = <<>>
    /\ worker = [w \in Workers |-> [at |-> "idle", file |-> 0, sent |-> 0]]
    /\ size_ch = [f \in Files |-> <<>>]
    /\ chunk_ch = [f \in Files |-> <<>>]
    /\ reader = [file |-> 0, remaining |-> 0]
    /\ current = <<>>
    /\ got = <<>>

\* Mutant of WantsMore: one file too many.
WantsOneMore == Len(in_flight) <= n_workers /\ next_spawn < NFiles

WantsMore == Len(in_flight) < n_workers /\ next_spawn < NFiles

\* One turn of top_up's loop; sending blocks while the job channel is full.
Spawn ==
    /\ cpc = "top_up"
    /\ WantsMore
    /\ Len(jobs) < n_workers
    /\ jobs' = Append(jobs, next_spawn + 1)
    /\ in_flight' = Append(in_flight, next_spawn + 1)
    /\ next_spawn' = next_spawn + 1
    /\ UNCHANGED <<blocks, cpc, job_tx, worker, size_ch, chunk_ch, reader,
                   current, got>>

\* top_up returns to `new' or to the `next' that popped a file.
ToppedUp ==
    /\ cpc = "top_up"
    /\ ~WantsMore
    /\ cpc' = IF reader.file = 0 THEN "next" ELSE "size"
    /\ UNCHANGED <<blocks, next_spawn, in_flight, job_tx, jobs, worker,
                   size_ch, chunk_ch, reader, current, got>>

\* Mutant of PopFront: files are handed out from the other end.
PopBack ==
    /\ cpc = "next"
    /\ in_flight # <<>>
    /\ reader' = [file |-> in_flight[Len(in_flight)], remaining |-> 0]
    /\ in_flight' = SubSeq(in_flight, 1, Len(in_flight) - 1)
    /\ cpc' = "top_up"
    /\ UNCHANGED <<blocks, next_spawn, job_tx, jobs, worker, size_ch,
                   chunk_ch, current, got>>

PopFront ==
    /\ cpc = "next"
    /\ in_flight # <<>>
    /\ reader' = [file |-> Head(in_flight), remaining |-> 0]
    /\ in_flight' = Tail(in_flight)
    /\ cpc' = "top_up"
    /\ UNCHANGED <<blocks, next_spawn, job_tx, jobs, worker, size_ch,
                   chunk_ch, current, got>>

\* Mutant of ReceiveSize: a block too many, as when a length is rounded up.
ReceiveSizeRounded ==
    /\ cpc = "size"
    /\ size_ch[reader.file] = <<"ok">>
    /\ reader' = [reader EXCEPT !.remaining = blocks[reader.file] + 1]
    /\ cpc' = "read"
    /\ UNCHANGED <<blocks, next_spawn, in_flight, job_tx, jobs, worker,
                   size_ch, chunk_ch, current, got>>

ReceiveSize ==
    /\ cpc = "size"
    /\ size_ch[reader.file] = <<"ok">>
    /\ reader' = [reader EXCEPT !.remaining = blocks[reader.file]]
    /\ cpc' = "read"
    /\ UNCHANGED <<blocks, next_spawn, in_flight, job_tx, jobs, worker,
                   size_ch, chunk_ch, current, got>>

ReceiveBlock ==
    /\ cpc = "read"
    /\ current = <<>>
    /\ reader.remaining > 0
    /\ chunk_ch[reader.file] # <<>>
    /\ Head(chunk_ch[reader.file]) # Error
    /\ current' = Head(chunk_ch[reader.file])
    /\ chunk_ch' = [chunk_ch EXCEPT ![reader.file] = Tail(@)]
    /\ UNCHANGED <<blocks, cpc, next_spawn, in_flight, job_tx, jobs, worker,
                   size_ch, reader, got>>

\* The writer copies the block out; the last of a file ends its reader.
WriteBlock ==
    /\ cpc = "read"
    /\ current # <<>>
    /\ got' = Append(got, current)
    /\ current' = <<>>
    /\ reader' = [reader EXCEPT !.remaining = @ - 1]
    /\ UNCHANGED <<blocks, cpc, next_spawn, in_flight, job_tx, jobs, worker,
                   size_ch, chunk_ch>>

ReaderDrained ==
    /\ cpc = "read"
    /\ current = <<>>
    /\ reader.remaining = 0
    /\ cpc' = "next"
    /\ UNCHANGED <<blocks, next_spawn, in_flight, job_tx, jobs, worker,
                   size_ch, chunk_ch, reader, current, got>>

\* Mutants of Finish: with files still in flight, and without closing the
\* job channel.
FinishEarly ==
    /\ cpc = "next"
    /\ job_tx' = FALSE
    /\ cpc' = "join"
    /\ UNCHANGED <<blocks, next_spawn, in_flight, jobs, worker, size_ch,
                   chunk_ch, reader, current, got>>

FinishOpen ==
    /\ cpc = "next"
    /\ in_flight = <<>>
    /\ cpc' = "join"
    /\ UNCHANGED <<blocks, next_spawn, in_flight, job_tx, jobs, worker,
                   size_ch, chunk_ch, reader, current, got>>

\* Every path handed out: finish closes the job channel and joins.
Finish ==
    /\ cpc = "next"
    /\ in_flight = <<>>
    /\ job_tx' = FALSE
    /\ cpc' = "join"
    /\ UNCHANGED <<blocks, next_spawn, in_flight, jobs, worker, size_ch,
                   chunk_ch, reader, current, got>>

Joined ==
    /\ cpc = "join"
    /\ \A w \in Workers : worker[w].at = "exited"
    /\ cpc' = "done"
    /\ UNCHANGED <<blocks, next_spawn, in_flight, job_tx, jobs, worker,
                   size_ch, chunk_ch, reader, current, got>>

\* Mutant of Abandon: the job channel stays open.
AbandonOpen ==
    /\ cpc' = "failed"
    /\ in_flight' = <<>>
    /\ current' = <<>>
    /\ UNCHANGED <<blocks, next_spawn, job_tx, jobs, worker, size_ch, chunk_ch,
                   reader, got>>

\* An error that `?' hands up drops the pool: receivers and job_tx go, the
\* threads are left behind.
Abandon ==
    /\ cpc' = "failed"
    /\ job_tx' = FALSE
    /\ in_flight' = <<>>
    /\ current' = <<>>
    /\ UNCHANGED <<blocks, next_spawn, jobs, worker, size_ch, chunk_ch,
                   reader, got>>

SizeFails ==
    /\ cpc = "size"
    /\ \/ size_ch[reader.file] = <<"error">>
       \/ size_ch[reader.file] = <<>> /\ ~SenderAlive(reader.file)
    /\ Abandon

ReadFails ==
    /\ cpc = "read"
    /\ current = <<>>
    /\ reader.remaining > 0
    /\ LET channel == chunk_ch[reader.file]
       IN  \/ channel # <<>> /\ Head(channel) = Error
           \/ channel = <<>> /\ ~SenderAlive(reader.file)
    /\ Abandon

\* The writer's own I/O fails: on a chunk file or a record header, between two
\* files or within one, or on a block.
WriterFails ==
    /\ cpc \in {"next", "read"}
    /\ Abandon

Consumer ==
    \/ Spawn \/ ToppedUp \/ PopFront \/ ReceiveSize
    \/ ReceiveBlock \/ WriteBlock \/ ReaderDrained
    \/ Finish \/ Joined
    \/ SizeFails \/ ReadFails

----------------------------------------------------------------------------
(* stream_file and the loop of a worker thread.                            *)

Goto(w, at) == worker' = [worker EXCEPT ![w].at = at]
Return(w) ==
    worker' = [worker EXCEPT ![w] = [at |-> "idle", file |-> 0, sent |-> 0]]

TakeJob(w) ==
    /\ worker[w].at = "idle"
    /\ jobs # <<>>
    /\ worker' = [worker EXCEPT
                    ![w] = [at |-> "open", file |-> Head(jobs), sent |-> 0]]
    /\ jobs' = Tail(jobs)
    /\ UNCHANGED <<blocks, consumerVars, size_ch, chunk_ch>>

\* The job channel is closed and empty.
Exit(w) ==
    /\ worker[w].at = "idle"
    /\ jobs = <<>>
    /\ ~job_tx
    /\ Goto(w, "exited")
    /\ UNCHANGED <<blocks, consumerVars, jobs, size_ch, chunk_ch>>

Open(w) ==
    /\ worker[w].at = "open"
    /\ IF Listening(worker[w].file)
         THEN /\ size_ch' = [size_ch EXCEPT ![worker[w].file] = <<"ok">>]
              /\ Goto(w, "read")
         ELSE /\ Return(w)
              /\ UNCHANGED size_ch
    /\ UNCHANGED <<blocks, consumerVars, jobs, chunk_ch>>

OpenFails(w) ==
    /\ ReadErrors
    /\ worker[w].at = "open"
    /\ size_ch' = [size_ch EXCEPT ![worker[w].file] = <<"error">>]
    /\ Return(w)
    /\ UNCHANGED <<blocks, consumerVars, jobs, chunk_ch>>

ReadBlock(w) ==
    /\ worker[w].at = "read"
    /\ IF worker[w].sent < blocks[worker[w].file]
         THEN Goto(w, "send")
         ELSE Return(w)
    /\ UNCHANGED <<blocks, consumerVars, jobs, size_ch, chunk_ch>>

\* The file ends early or cannot be read.
ReadBlockFails(w) ==
    /\ ReadErrors
    /\ worker[w].at = "read"
    /\ worker[w].sent < blocks[worker[w].file]
    /\ Goto(w, "send_error")
    /\ UNCHANGED <<blocks, consumerVars, jobs, size_ch, chunk_ch>>

\* Sending blocks while the channel is full and fails once nobody listens.
HasRoom(f) == Len(chunk_ch[f]) < CHUNK_DEPTH

SendBlock(w) ==
    /\ worker[w].at = "send"
    /\ LET f == worker[w].file
       IN  \/ /\ Listening(f)
              /\ HasRoom(f)
              /\ chunk_ch' = [chunk_ch EXCEPT ![f] = Append(@, <<f, worker[w].sent + 1>>)]
              /\ worker' = [worker EXCEPT ![w].at = "read", ![w].sent = @ + 1]
           \/ /\ ~Listening(f)
              /\ Return(w)
              /\ UNCHANGED chunk_ch
    /\ UNCHANGED <<blocks, consumerVars, jobs, size_ch>>

SendError(w) ==
    /\ worker[w].at = "send_error"
    /\ LET f == worker[w].file
       IN  \/ /\ Listening(f)
              /\ HasRoom(f)
              /\ chunk_ch' = [chunk_ch EXCEPT ![f] = Append(@, Error)]
           \/ /\ ~Listening(f)
              /\ UNCHANGED chunk_ch
    /\ Return(w)
    /\ UNCHANGED <<blocks, consumerVars, jobs, size_ch>>

Work(w) ==
    \/ TakeJob(w) \/ Exit(w)
    \/ Open(w) \/ OpenFails(w)
    \/ ReadBlock(w) \/ ReadBlockFails(w)
    \/ SendBlock(w) \/ SendError(w)

Next == Consumer \/ WriterFails \/ (\E w \in Workers : Work(w))

\* Every thread that can take a step is scheduled again.
Spec ==
    /\ Init
    /\ [][Next]_vars
    /\ WF_vars(Consumer)
    /\ \A w \in Workers : WF_vars(Work(w))

----------------------------------------------------------------------------
(* Properties.                                                             *)

TypeOK ==
    /\ blocks \in FileBlocks
    /\ cpc \in {"top_up", "next", "size", "read", "join", "done", "failed"}
    /\ next_spawn \in 0 .. NFiles
    /\ in_flight \in Seq(Files)
    /\ job_tx \in BOOLEAN
    /\ jobs \in Seq(Files)
    /\ worker \in [Workers ->
         [at : {"idle", "open", "read", "send", "send_error", "exited"},
          file : 0 .. NFiles, sent : Nat]]
    /\ size_ch \in [Files -> {<<>>, <<"ok">>, <<"error">>}]
    /\ \A f \in Files : chunk_ch[f] \in Seq({Error} \cup ({f} \X (1 .. blocks[f])))
    /\ reader.file \in 0 .. NFiles
    /\ reader.remaining \in 0 .. (IF reader.file = 0 THEN 0 ELSE blocks[reader.file])

\* Blocks of f that sit in memory: queued, in the hands of the worker that
\* waits to send, and the one the reader is copying from.
Buffered(f) ==
    Len(chunk_ch[f])
      + Cardinality({w \in Workers : worker[w].file = f /\ worker[w].at = "send"})
      + (IF current # <<>> /\ reader.file = f THEN 1 ELSE 0)

\* "Caps per stream memory to `(CHUNK_DEPTH + 1) * CHUNK_SIZE`"
\* (parallel.rs:44): no more blocks of a file are in memory than those.
StreamMemoryCapped == \A f \in Files : Buffered(f) <= CHUNK_DEPTH + 1

\* What holds of memory: it is bounded by the number of workers, not of files.
\* At most n_workers files beyond the one being written hold any block, and
\* none holds more than its channel and one block at each end, that in the
\* hands of the worker whose send blocks among them.
MemoryBounded ==
    cpc # "failed" =>
        /\ \A f \in Files : Buffered(f) <= CHUNK_DEPTH + 2
        /\ Cardinality({f \in Files : Buffered(f) > 0}) <= n_workers + 1

\* Joining is safe: when the pool closes, no worker can be stuck sending to
\* a channel that nobody reads, for every file has been read to its end.
JoinFindsAllRead ==
    cpc \in {"join", "done"} =>
        /\ \A f \in Files : chunk_ch[f] = <<>>
        /\ \A w \in Workers : worker[w].at \notin {"open", "send", "send_error"}
        /\ jobs = <<>>
        /\ next_spawn = NFiles

Stream == INSTANCE OrderedRead WITH
    outcome <- IF cpc \in {"done", "failed"} THEN cpc ELSE "open"

\* Reading ahead on many threads looks to the writer like reading in order.
ReadsInOrder == Stream!Spec

\* The writer is never stuck behind its readers: it finishes or fails.
ConsumerEnds == <>(cpc \in {"done", "failed"})

\* No thread is left behind: even after a failure, every worker finds its
\* channels closed and ends.
WorkersEnd == <>[](\A w \in Workers : worker[w].at = "exited")
=============================================================================
