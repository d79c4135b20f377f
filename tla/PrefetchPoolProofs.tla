------------------------- MODULE PrefetchPoolProofs -------------------------
(***************************************************************************)
(* Proofs about the prefetch pool, for every list of files, every number   *)
(* of workers and every channel depth: that joining never waits for a      *)
(* worker that is stuck, that memory does not grow with the number of      *)
(* files, and that the writer sees what one thread reading in order would. *)
(***************************************************************************)
EXTENDS PrefetchPool, FiniteSetTheorems, TLAPS

Places == {"idle", "open", "read", "send", "send_error", "exited"}
WorkerStates == [at : Places, file : 0 .. NFiles, sent : Nat]
SizeMessages == {<<>>, <<"ok">>, <<"error">>}
BlocksOf(f) == {Error} \cup ({f} \X (1 .. blocks[f]))

\* Files that a worker has taken from the job channel.
Taken == next_spawn - Len(jobs)
Busy == {"read", "send", "send_error"}

\* Blocks of f that the consumer has received.
Received(f) ==
    IF f < reader.file THEN blocks[f]
    ELSE IF f = reader.file /\ cpc \notin {"top_up", "size"}
      THEN blocks[f] - reader.remaining + (IF current = <<>> THEN 0 ELSE 1)
      ELSE 0

----------------------------------------------------------------------------
(* The inductive invariant, in the order the proofs need its parts.        *)

\* What TypeOK leaves open: the shapes of the values it looks into.
Shapes ==
    /\ reader \in [file : Nat, remaining : Nat]
    /\ chunk_ch \in [Files -> Seq(Nat \X Nat)]
    /\ current = <<>> \/ current \in Nat \X Nat
    /\ got \in Seq(Nat \X Nat)

\* What a worker and the reader hold at each of their places.
WorkerInv ==
    \A w \in Workers :
        /\ worker[w].file = 0 <=> worker[w].at \in {"idle", "exited"}
        /\ worker[w].at = "open" => worker[w].sent = 0
        /\ worker[w].at = "read" =>
             worker[w].sent <= blocks[worker[w].file]
        /\ worker[w].at \in {"send", "send_error"} =>
             worker[w].sent < blocks[worker[w].file]

ReaderInv ==
    /\ cpc \in {"size", "read"} => reader.file > 0
    /\ current # <<>> => cpc = "read" /\ reader.remaining > 0
    /\ cpc \in {"next", "join", "done"} => reader.remaining = 0

\* The files in flight and those in the job channel follow one another up to
\* the last one given out; no two workers hold the same.
FlightInv ==
    cpc # "failed" =>
        /\ reader.file + Len(in_flight) = next_spawn
        /\ \A i \in 1 .. Len(in_flight) : in_flight[i] = reader.file + i
        /\ Len(in_flight) <= n_workers
        /\ cpc \in {"size", "read", "next", "join", "done"} =>
             Len(in_flight) = n_workers \/ next_spawn = NFiles
        /\ cpc \in {"join", "done"} => in_flight = <<>>

JobsInv ==
    /\ Len(jobs) <= next_spawn
    /\ \A i \in 1 .. Len(jobs) : jobs[i] = Taken + i
    /\ \A w \in Workers : worker[w].file <= Taken
    /\ \A v, w \in Workers :
         worker[v].file = worker[w].file => v = w \/ worker[v].file = 0

\* Between the worker that sends the blocks of f and the reader of f.
Waiting(f) ==
    f > Taken => size_ch[f] = <<>> /\ chunk_ch[f] = <<>>

Opened(f) ==
    \A w \in Workers : worker[w].file = f =>
        /\ worker[w].at = "open" => size_ch[f] = <<>> /\ chunk_ch[f] = <<>>
        /\ worker[w].at \in Busy =>
             /\ size_ch[f] = <<"ok">>
             /\ Received(f) + Len(chunk_ch[f]) = worker[w].sent
             /\ \A i \in 1 .. Len(chunk_ch[f]) : chunk_ch[f][i] # Error

SizeSeen(f) ==
    f < reader.file \/ (f = reader.file /\ cpc \notin {"top_up", "size"}) =>
        size_ch[f] = <<"ok">>

Contents(f) ==
    /\ Len(chunk_ch[f]) <= CHUNK_DEPTH
    /\ Received(f) + Len(chunk_ch[f]) <= blocks[f]
    /\ \A i \in 1 .. Len(chunk_ch[f]) :
         \/ chunk_ch[f][i] = <<f, Received(f) + i>>
         \/ chunk_ch[f][i] = Error /\ i = Len(chunk_ch[f])

ChannelsOf(f) == Waiting(f) /\ Opened(f) /\ SizeSeen(f) /\ Contents(f)

ChannelInv == cpc # "failed" => \A f \in Files : ChannelsOf(f)

\* The block in hand is the next of its file, and what was written before it
\* ends with the last block there is before it.
Written ==
    IF cpc \in {"top_up", "size"} \/ reader.file = 0 THEN 0
    ELSE blocks[reader.file] - reader.remaining

Ends(g) == \A h \in g + 1 .. reader.file - 1 : blocks[h] = 0

LastFrom(g) ==
    \/ g = reader.file /\ Written > 0 /\ got[Len(got)] = <<g, Written>>
    \/ /\ g < reader.file /\ Written = 0 /\ Ends(g)
       /\ blocks[g] > 0 /\ got[Len(got)] = <<g, blocks[g]>>

GotInv ==
    cpc # "failed" =>
        /\ current # <<>> => current = <<reader.file, Written + 1>>
        /\ got = <<>> => Written = 0 /\ Ends(0)
        /\ got # <<>> => \E g \in 1 .. reader.file : LastFrom(g)

PoolInv == TypeOK /\ Shapes /\ WorkerInv /\ ReaderInv
QueueInv == FlightInv /\ JobsInv

----------------------------------------------------------------------------
(* Types, and what workers and reader hold.                                *)

LEMMA Facts ==
    ASSUME TypeOK, Shapes
    PROVE  /\ NFiles \in Nat
           /\ blocks \in Seq(Nat)
           /\ \A f \in Files : blocks[f] \in Nat
           /\ worker \in [Workers -> WorkerStates]
           /\ \A w \in Workers :
                /\ worker[w].at \in Places
                /\ worker[w].file \in 0 .. NFiles
                /\ worker[w].sent \in Nat
           /\ reader.file \in 0 .. NFiles
           /\ reader.remaining \in Nat
           /\ \A f \in Files : chunk_ch[f] \in Seq(Nat \X Nat)
           /\ \A f \in Files : chunk_ch[f] \in Seq(BlocksOf(f))
<1>1. NFiles \in Nat /\ blocks \in Seq(Nat)
  BY PoolAssumption DEF TypeOK, NFiles
<1>2. \A f \in Files : blocks[f] \in Nat
  BY <1>1 DEF Files
<1>3. worker \in [Workers -> WorkerStates]
  BY DEF TypeOK, WorkerStates, Places
<1>4. \A w \in Workers : worker[w] \in WorkerStates
  BY <1>3
<1>5. \A w \in Workers :
        /\ worker[w].at \in Places
        /\ worker[w].file \in 0 .. NFiles
        /\ worker[w].sent \in Nat
  BY <1>4 DEF WorkerStates
<1>6. reader.file \in 0 .. NFiles /\ reader.remaining \in Nat
  BY DEF TypeOK, Shapes
<1>7. \A f \in Files : /\ chunk_ch[f] \in Seq(Nat \X Nat)
                       /\ chunk_ch[f] \in Seq(BlocksOf(f))
  BY DEF TypeOK, Shapes, BlocksOf
<1>8. QED
  BY <1>1, <1>2, <1>3, <1>5, <1>6, <1>7

\* TypeOK in three parts, which the steps disturb one at a time.
QueueTypes ==
    /\ blocks \in FileBlocks
    /\ next_spawn \in 0 .. NFiles
    /\ in_flight \in Seq(Files)
    /\ job_tx \in BOOLEAN
    /\ jobs \in Seq(Files)

WorkerTypes ==
    /\ worker \in [Workers -> WorkerStates]
    /\ size_ch \in [Files -> SizeMessages]
    /\ \A f \in Files : chunk_ch[f] \in Seq(BlocksOf(f))

ReaderTypes ==
    /\ cpc \in {"top_up", "next", "size", "read", "join", "done", "failed"}
    /\ reader.file \in 0 .. NFiles
    /\ reader.remaining \in 0 .. (IF reader.file = 0 THEN 0 ELSE blocks[reader.file])

LEMMA TypeParts == TypeOK <=> QueueTypes /\ WorkerTypes /\ ReaderTypes
BY DEF TypeOK, QueueTypes, WorkerTypes, ReaderTypes, WorkerStates, Places,
       SizeMessages, BlocksOf

LEMMA TypePartsNext == TypeOK' <=> QueueTypes' /\ WorkerTypes' /\ ReaderTypes'
BY DEF TypeOK, QueueTypes, WorkerTypes, ReaderTypes, WorkerStates, Places,
       SizeMessages, BlocksOf

LEMMA PoolInit == Init => PoolInv
<1> SUFFICES ASSUME Init PROVE PoolInv
  OBVIOUS
<1>1. NFiles \in Nat /\ blocks \in Seq(Nat)
  BY PoolAssumption DEF Init, NFiles
<1>2. TypeOK
  BY <1>1 DEF Init, TypeOK, Files, NFiles
<1>3. Shapes
  BY <1>1 DEF Init, Shapes, Files, NFiles
<1>4. WorkerInv /\ ReaderInv
  BY <1>1 DEF Init, WorkerInv, ReaderInv
<1>5. QED
  BY <1>2, <1>3, <1>4 DEF PoolInv

\* A worker's step, by the record it leaves behind.
LEMMA WorkerStep ==
    ASSUME PoolInv, NEW w \in Workers, NEW r \in WorkerStates,
           blocks' = blocks, worker' = [worker EXCEPT ![w] = r],
           r.file = 0 <=> r.at \in {"idle", "exited"},
           r.at = "open" => r.sent = 0,
           r.at = "read" => r.sent <= blocks[r.file],
           r.at \in {"send", "send_error"} => r.sent < blocks[r.file]
    PROVE  /\ worker' \in [Workers -> WorkerStates]
           /\ worker'[w] = r
           /\ \A v \in Workers \ {w} : worker'[v] = worker[v]
           /\ WorkerInv'
<1>1. worker \in [Workers -> WorkerStates]
  BY Facts DEF PoolInv
<1>2. /\ worker' \in [Workers -> WorkerStates]
      /\ worker'[w] = r
      /\ \A v \in Workers \ {w} : worker'[v] = worker[v]
  BY <1>1
<1>3. WorkerInv'
  BY <1>2 DEF PoolInv, WorkerInv
<1>4. QED
  BY <1>2, <1>3

LEMMA ConsumerTypes == PoolInv /\ (Consumer \/ WriterFails) => PoolInv'
<1> SUFFICES ASSUME PoolInv, Consumer \/ WriterFails PROVE PoolInv'
  OBVIOUS
<1> USE DEF PoolInv
<1>f. NFiles \in Nat /\ (\A f \in Files : blocks[f] \in Nat)
  BY Facts
<1>t. QueueTypes /\ WorkerTypes /\ ReaderTypes
  BY TypeParts
<1>k. blocks' = blocks /\ Files' = Files /\ NFiles' = NFiles
  <2>1. blocks' = blocks
    BY DEF Consumer, Spawn, ToppedUp, PopFront, ReceiveSize, ReceiveBlock,
           WriteBlock, ReaderDrained, Finish, Joined, SizeFails, ReadFails,
           WriterFails, Abandon
  <2>2. QED
    BY <2>1 DEF Files, NFiles
<1>1. CASE Spawn
  <2>1. QueueTypes'
    <3>1. next_spawn + 1 \in Files /\ next_spawn' \in 0 .. NFiles
      BY <1>f, <1>t, <1>1 DEF Spawn, WantsMore, QueueTypes, Files, NFiles
    <3>2. QED
      BY <1>k, <1>t, <1>1, <3>1 DEF Spawn, QueueTypes
  <2>2. WorkerTypes'
    BY <1>f, <1>t, <1>1 DEF Spawn, WorkerTypes, WorkerStates, BlocksOf, Files, NFiles
  <2>3. ReaderTypes'
    BY <1>f, <1>t, <1>1 DEF Spawn, ReaderTypes, QueueTypes, Shapes, ReaderInv, Files, NFiles
  <2>4. Shapes'
    BY <1>f, <1>t, <1>1 DEF Spawn, Shapes, ReaderTypes, ReaderInv, Files, NFiles
  <2>5. WorkerInv' /\ ReaderInv'
    BY <1>f, <1>t, <1>1 DEF Spawn, ReaderTypes, Shapes, WorkerInv, ReaderInv, Files, NFiles
  <2>6. QED
    BY <2>1, <2>2, <2>3, <2>4, <2>5, TypePartsNext
<1>2. CASE ToppedUp
  <2>1. QueueTypes'
    BY <1>f, <1>t, <1>2 DEF ToppedUp, QueueTypes, Files, NFiles
  <2>2. WorkerTypes'
    BY <1>f, <1>t, <1>2 DEF ToppedUp, WorkerTypes, WorkerStates, BlocksOf, Files, NFiles
  <2>3. ReaderTypes'
    BY <1>f, <1>t, <1>2 DEF ToppedUp, ReaderTypes, QueueTypes, Shapes, ReaderInv, Files, NFiles
  <2>4. Shapes'
    BY <1>f, <1>t, <1>2 DEF ToppedUp, Shapes, ReaderTypes, ReaderInv, Files, NFiles
  <2>5. WorkerInv' /\ ReaderInv'
    BY <1>f, <1>t, <1>2 DEF ToppedUp, ReaderTypes, Shapes, WorkerInv, ReaderInv, Files, NFiles
  <2>6. QED
    BY <2>1, <2>2, <2>3, <2>4, <2>5, TypePartsNext
<1>3. CASE PopFront
  <2>1. QueueTypes'
    BY <1>f, <1>t, <1>3 DEF PopFront, QueueTypes, Files, NFiles
  <2>2. WorkerTypes'
    BY <1>f, <1>t, <1>3 DEF PopFront, WorkerTypes, WorkerStates, BlocksOf, Files, NFiles
  <2>3. ReaderTypes'
    BY <1>f, <1>t, <1>3 DEF PopFront, ReaderTypes, QueueTypes, Shapes, ReaderInv, Files, NFiles
  <2>4. Shapes'
    <3>1. Head(in_flight) \in Files
      BY <1>t, <1>3 DEF PopFront, QueueTypes
    <3>2. reader' \in [file : Nat, remaining : Nat]
      BY <1>f, <1>3, <3>1 DEF PopFront, Files, NFiles
    <3>3. QED
      BY <1>k, <1>3, <3>2 DEF PopFront, Shapes
  <2>5. WorkerInv' /\ ReaderInv'
    BY <1>f, <1>t, <1>3 DEF PopFront, ReaderTypes, Shapes, WorkerInv, ReaderInv, Files, NFiles
  <2>6. QED
    BY <2>1, <2>2, <2>3, <2>4, <2>5, TypePartsNext
<1>4. CASE ReceiveSize
  <2>1. QueueTypes'
    BY <1>f, <1>t, <1>4 DEF ReceiveSize, QueueTypes, Files, NFiles
  <2>2. WorkerTypes'
    BY <1>f, <1>t, <1>4 DEF ReceiveSize, WorkerTypes, WorkerStates, BlocksOf, Files, NFiles
  <2>3. ReaderTypes'
    BY <1>f, <1>t, <1>4 DEF ReceiveSize, ReaderTypes, QueueTypes, Shapes, ReaderInv, Files, NFiles
  <2>4. Shapes'
    BY <1>f, <1>t, <1>4 DEF ReceiveSize, Shapes, ReaderTypes, ReaderInv, Files, NFiles
  <2>5. WorkerInv' /\ ReaderInv'
    BY <1>f, <1>t, <1>4 DEF ReceiveSize, ReaderTypes, Shapes, WorkerInv, ReaderInv, Files, NFiles
  <2>6. QED
    BY <2>1, <2>2, <2>3, <2>4, <2>5, TypePartsNext
<1>5. CASE ReceiveBlock
  <2>1. QueueTypes'
    BY <1>f, <1>t, <1>5 DEF ReceiveBlock, QueueTypes, Files, NFiles
  <2>2. WorkerTypes'
    BY <1>f, <1>t, <1>5 DEF ReceiveBlock, WorkerTypes, WorkerStates, BlocksOf, Files, NFiles
  <2>3. ReaderTypes'
    BY <1>f, <1>t, <1>5 DEF ReceiveBlock, ReaderTypes, QueueTypes, Shapes, ReaderInv, Files, NFiles
  <2>4. Shapes'
    BY <1>f, <1>t, <1>5 DEF ReceiveBlock, Shapes, ReaderTypes, ReaderInv, Files, NFiles
  <2>5. WorkerInv' /\ ReaderInv'
    BY <1>f, <1>t, <1>5 DEF ReceiveBlock, ReaderTypes, Shapes, WorkerInv, ReaderInv, Files, NFiles
  <2>6. QED
    BY <2>1, <2>2, <2>3, <2>4, <2>5, TypePartsNext
<1>6. CASE WriteBlock
  <2>1. QueueTypes'
    BY <1>f, <1>t, <1>6 DEF WriteBlock, QueueTypes, Files, NFiles
  <2>2. WorkerTypes'
    BY <1>f, <1>t, <1>6 DEF WriteBlock, WorkerTypes, WorkerStates, BlocksOf, Files, NFiles
  <2>3. ReaderTypes'
    <3>1. reader.remaining > 0 /\ cpc' = cpc
      BY <1>6 DEF WriteBlock, ReaderInv
    <3>2. /\ reader'.file = reader.file
          /\ reader'.remaining = reader.remaining - 1
      BY <1>6 DEF WriteBlock, Shapes
    <3>3. reader.file # 0 => blocks[reader.file] \in Nat
      BY <1>f, <1>t DEF ReaderTypes, Files, NFiles
    <3>4. QED
      BY <1>k, <1>t, <3>1, <3>2, <3>3 DEF ReaderTypes
  <2>4. Shapes'
    <3>0. reader.remaining - 1 \in Nat
      BY <1>6 DEF WriteBlock, ReaderInv, Shapes
    <3>1. reader' \in [file : Nat, remaining : Nat]
      BY <1>6, <3>0 DEF WriteBlock, Shapes
    <3>2. got' \in Seq(Nat \X Nat)
      BY <1>6 DEF WriteBlock, Shapes
    <3>3. QED
      BY <1>k, <1>6, <3>1, <3>2 DEF WriteBlock, Shapes
  <2>5. WorkerInv' /\ ReaderInv'
    BY <1>f, <1>t, <1>6 DEF WriteBlock, ReaderTypes, Shapes, WorkerInv, ReaderInv, Files, NFiles
  <2>6. QED
    BY <2>1, <2>2, <2>3, <2>4, <2>5, TypePartsNext
<1>7. CASE ReaderDrained
  <2>1. QueueTypes'
    BY <1>f, <1>t, <1>7 DEF ReaderDrained, QueueTypes, Files, NFiles
  <2>2. WorkerTypes'
    BY <1>f, <1>t, <1>7 DEF ReaderDrained, WorkerTypes, WorkerStates, BlocksOf, Files, NFiles
  <2>3. ReaderTypes'
    BY <1>f, <1>t, <1>7 DEF ReaderDrained, ReaderTypes, QueueTypes, Shapes, ReaderInv, Files, NFiles
  <2>4. Shapes'
    BY <1>f, <1>t, <1>7 DEF ReaderDrained, Shapes, ReaderTypes, ReaderInv, Files, NFiles
  <2>5. WorkerInv' /\ ReaderInv'
    BY <1>f, <1>t, <1>7 DEF ReaderDrained, ReaderTypes, Shapes, WorkerInv, ReaderInv, Files, NFiles
  <2>6. QED
    BY <2>1, <2>2, <2>3, <2>4, <2>5, TypePartsNext
<1>8. CASE Finish
  <2>1. QueueTypes'
    BY <1>f, <1>t, <1>8 DEF Finish, QueueTypes, Files, NFiles
  <2>2. WorkerTypes'
    BY <1>f, <1>t, <1>8 DEF Finish, WorkerTypes, WorkerStates, BlocksOf, Files, NFiles
  <2>3. ReaderTypes'
    BY <1>f, <1>t, <1>8 DEF Finish, ReaderTypes, QueueTypes, Shapes, ReaderInv, Files, NFiles
  <2>4. Shapes'
    BY <1>f, <1>t, <1>8 DEF Finish, Shapes, ReaderTypes, ReaderInv, Files, NFiles
  <2>5. WorkerInv' /\ ReaderInv'
    BY <1>f, <1>t, <1>8 DEF Finish, ReaderTypes, Shapes, WorkerInv, ReaderInv, Files, NFiles
  <2>6. QED
    BY <2>1, <2>2, <2>3, <2>4, <2>5, TypePartsNext
<1>9. CASE Joined
  <2>1. QueueTypes'
    BY <1>f, <1>t, <1>9 DEF Joined, QueueTypes, Files, NFiles
  <2>2. WorkerTypes'
    BY <1>f, <1>t, <1>9 DEF Joined, WorkerTypes, WorkerStates, BlocksOf, Files, NFiles
  <2>3. ReaderTypes'
    BY <1>f, <1>t, <1>9 DEF Joined, ReaderTypes, QueueTypes, Shapes, ReaderInv, Files, NFiles
  <2>4. Shapes'
    BY <1>f, <1>t, <1>9 DEF Joined, Shapes, ReaderTypes, ReaderInv, Files, NFiles
  <2>5. WorkerInv' /\ ReaderInv'
    BY <1>f, <1>t, <1>9 DEF Joined, ReaderTypes, Shapes, WorkerInv, ReaderInv, Files, NFiles
  <2>6. QED
    BY <2>1, <2>2, <2>3, <2>4, <2>5, TypePartsNext
<1>10. CASE SizeFails
  <2>1. QueueTypes'
    <3>1. in_flight' = <<>> /\ job_tx' = FALSE /\ UNCHANGED <<next_spawn, jobs>>
      BY <1>10 DEF SizeFails, Abandon
    <3>2. in_flight' \in Seq(Files')
      BY <3>1
    <3>3. QED
      BY <1>k, <1>t, <3>1, <3>2 DEF QueueTypes
  <2>2. WorkerTypes'
    BY <1>f, <1>t, <1>10 DEF SizeFails, Abandon, WorkerTypes, WorkerStates, BlocksOf, Files, NFiles
  <2>3. ReaderTypes'
    BY <1>f, <1>t, <1>10 DEF SizeFails, Abandon, ReaderTypes, QueueTypes, Shapes, ReaderInv, Files, NFiles
  <2>4. Shapes'
    BY <1>f, <1>t, <1>10 DEF SizeFails, Abandon, Shapes, ReaderTypes, ReaderInv, Files, NFiles
  <2>5. WorkerInv' /\ ReaderInv'
    BY <1>f, <1>t, <1>10 DEF SizeFails, Abandon, ReaderTypes, Shapes, WorkerInv, ReaderInv, Files, NFiles
  <2>6. QED
    BY <2>1, <2>2, <2>3, <2>4, <2>5, TypePartsNext
<1>11. CASE ReadFails
  <2>1. QueueTypes'
    <3>1. in_flight' = <<>> /\ job_tx' = FALSE /\ UNCHANGED <<next_spawn, jobs>>
      BY <1>11 DEF ReadFails, Abandon
    <3>2. in_flight' \in Seq(Files')
      BY <3>1
    <3>3. QED
      BY <1>k, <1>t, <3>1, <3>2 DEF QueueTypes
  <2>2. WorkerTypes'
    BY <1>f, <1>t, <1>11 DEF ReadFails, Abandon, WorkerTypes, WorkerStates, BlocksOf, Files, NFiles
  <2>3. ReaderTypes'
    BY <1>f, <1>t, <1>11 DEF ReadFails, Abandon, ReaderTypes, QueueTypes, Shapes, ReaderInv, Files, NFiles
  <2>4. Shapes'
    BY <1>f, <1>t, <1>11 DEF ReadFails, Abandon, Shapes, ReaderTypes, ReaderInv, Files, NFiles
  <2>5. WorkerInv' /\ ReaderInv'
    BY <1>f, <1>t, <1>11 DEF ReadFails, Abandon, ReaderTypes, Shapes, WorkerInv, ReaderInv, Files, NFiles
  <2>6. QED
    BY <2>1, <2>2, <2>3, <2>4, <2>5, TypePartsNext
<1>12. CASE WriterFails
  <2>1. QueueTypes'
    <3>1. in_flight' = <<>> /\ job_tx' = FALSE /\ UNCHANGED <<next_spawn, jobs>>
      BY <1>12 DEF WriterFails, Abandon
    <3>2. in_flight' \in Seq(Files')
      BY <3>1
    <3>3. QED
      BY <1>k, <1>t, <3>1, <3>2 DEF QueueTypes
  <2>2. WorkerTypes'
    BY <1>f, <1>t, <1>12 DEF WriterFails, Abandon, WorkerTypes, WorkerStates, BlocksOf, Files, NFiles
  <2>3. ReaderTypes'
    BY <1>f, <1>t, <1>12 DEF WriterFails, Abandon, ReaderTypes, QueueTypes, Shapes, ReaderInv, Files, NFiles
  <2>4. Shapes'
    BY <1>f, <1>t, <1>12 DEF WriterFails, Abandon, Shapes, ReaderTypes, ReaderInv, Files, NFiles
  <2>5. WorkerInv' /\ ReaderInv'
    BY <1>f, <1>t, <1>12 DEF WriterFails, Abandon, ReaderTypes, Shapes, WorkerInv, ReaderInv, Files, NFiles
  <2>6. QED
    BY <2>1, <2>2, <2>3, <2>4, <2>5, TypePartsNext
<1>13. QED
  BY <1>1, <1>2, <1>3, <1>4, <1>5, <1>6, <1>7, <1>8, <1>9, <1>10, <1>11, <1>12 DEF Consumer

LEMMA GotoRecord ==
    ASSUME PoolInv, NEW w \in Workers, NEW p, Goto(w, p)
    PROVE  worker' = [worker EXCEPT
             ![w] = [at |-> p, file |-> worker[w].file, sent |-> worker[w].sent]]
<1>1. worker \in [Workers -> WorkerStates] /\ worker[w] \in WorkerStates
  BY Facts DEF PoolInv
<1>2. [worker[w] EXCEPT !.at = p] =
        [at |-> p, file |-> worker[w].file, sent |-> worker[w].sent]
  BY <1>1 DEF WorkerStates
<1>3. worker' = [worker EXCEPT ![w] = [worker[w] EXCEPT !.at = p]]
  BY <1>1 DEF Goto
<1>4. QED
  BY <1>2, <1>3

\* The record a worker's step leaves behind.
LEMMA WorkerRecord ==
    ASSUME PoolInv, NEW w \in Workers, Work(w)
    PROVE  /\ blocks' = blocks
           /\ \E r \in WorkerStates :
                /\ worker' = [worker EXCEPT ![w] = r]
                /\ r.file = 0 <=> r.at \in {"idle", "exited"}
                /\ r.at = "open" => r.sent = 0
                /\ r.at = "read" => r.sent <= blocks[r.file]
                /\ r.at \in {"send", "send_error"} => r.sent < blocks[r.file]
<1> USE DEF PoolInv
<1>f. /\ NFiles \in Nat /\ (\A f \in Files : blocks[f] \in Nat)
      /\ worker \in [Workers -> WorkerStates]
      /\ worker[w].at \in Places
      /\ worker[w].file \in 0 .. NFiles
      /\ worker[w].sent \in Nat
  BY Facts
<1>w. /\ worker[w].file = 0 <=> worker[w].at \in {"idle", "exited"}
      /\ worker[w].at = "open" => worker[w].sent = 0
      /\ worker[w].at = "read" => worker[w].sent <= blocks[worker[w].file]
      /\ worker[w].at \in {"send", "send_error"} =>
           worker[w].sent < blocks[worker[w].file]
  BY DEF WorkerInv
<1>r. worker[w] = [at |-> worker[w].at, file |-> worker[w].file, sent |-> worker[w].sent]
  BY <1>f DEF WorkerStates
<1>0. blocks' = blocks
  BY DEF Work, TakeJob, Exit, Open, OpenFails, ReadBlock, ReadBlockFails,
         SendBlock, SendError
<1> DEFINE Gone == [at |-> "idle", file |-> 0, sent |-> 0]
           At(p) == [at |-> p, file |-> worker[w].file, sent |-> worker[w].sent]
           Sent == [at |-> "read", file |-> worker[w].file,
                    sent |-> worker[w].sent + 1]
           Taking == [at |-> "open", file |-> Head(jobs), sent |-> 0]
<1>g. Gone \in WorkerStates /\ (\A p \in Places : At(p) \in WorkerStates)
  BY <1>f DEF WorkerStates, Places
<1>1. CASE TakeJob(w)
  <2>1. Head(jobs) \in Files
    BY <1>1, TypeParts DEF TakeJob, QueueTypes
  <2>2. Taking \in WorkerStates /\ Taking.file # 0
    BY <1>f, <2>1 DEF WorkerStates, Places, Files, NFiles
  <2>3. worker' = [worker EXCEPT ![w] = Taking]
    BY <1>1 DEF TakeJob
  <2>4. QED
    BY <1>0, <2>2, <2>3
<1>2. CASE Exit(w)
  <2>1. worker' = [worker EXCEPT ![w] = At("exited")]
    BY <1>2, GotoRecord DEF Exit
  <2>2. QED
    BY <1>0, <1>g, <1>w, <1>2, <2>1 DEF Exit, Places
<1>3. CASE Open(w)
  <2>1. CASE Listening(worker[w].file)
    <3>1. worker' = [worker EXCEPT ![w] = At("read")]
      BY <1>3, <2>1, GotoRecord DEF Open
    <3>2. worker[w].file \in Files /\ worker[w].sent = 0
      BY <1>3, <1>f, <1>w DEF Open, Files, NFiles
    <3>3. worker[w].sent <= blocks[worker[w].file] /\ worker[w].file # 0
      BY <1>f, <3>2 DEF Files, NFiles
    <3>4. QED
      BY <1>0, <1>g, <3>1, <3>3 DEF Places
  <2>2. CASE ~Listening(worker[w].file)
    BY <1>0, <1>3, <1>g, <2>2 DEF Open, Return
  <2>3. QED
    BY <2>1, <2>2
<1>4. CASE OpenFails(w)
  BY <1>0, <1>4, <1>g DEF OpenFails, Return
<1>5. CASE ReadBlock(w)
  <2>1. CASE worker[w].sent < blocks[worker[w].file]
    <3>1. worker' = [worker EXCEPT ![w] = At("send")]
      BY <1>5, <2>1, GotoRecord DEF ReadBlock
    <3>2. QED
      BY <1>0, <1>5, <1>g, <1>w, <2>1, <3>1 DEF ReadBlock, Places
  <2>2. CASE ~(worker[w].sent < blocks[worker[w].file])
    BY <1>0, <1>5, <1>g, <2>2 DEF ReadBlock, Return
  <2>3. QED
    BY <2>1, <2>2
<1>6. CASE ReadBlockFails(w)
  <2>1. worker' = [worker EXCEPT ![w] = At("send_error")]
    BY <1>6, GotoRecord DEF ReadBlockFails
  <2>2. QED
    BY <1>0, <1>6, <1>g, <1>w, <2>1 DEF ReadBlockFails, Places
<1>7. CASE SendBlock(w)
  <2>1. CASE Listening(worker[w].file)
    <3>1. worker' = [worker EXCEPT ![w] = Sent]
      BY <1>7, <1>f, <1>r, <2>1 DEF SendBlock
    <3>2. /\ Sent \in WorkerStates
          /\ Sent.file # 0
          /\ Sent.sent <= blocks[Sent.file]
      <4>1. /\ worker[w].file # 0
            /\ worker[w].sent < blocks[worker[w].file]
        BY <1>7, <1>w DEF SendBlock
      <4>2. blocks[worker[w].file] \in Nat
        BY <1>f, <4>1 DEF Files, NFiles
      <4>3. QED
        BY <1>f, <4>1, <4>2 DEF WorkerStates, Places
    <3>3. QED
      BY <1>0, <3>1, <3>2
  <2>2. CASE ~Listening(worker[w].file)
    BY <1>0, <1>7, <1>g, <2>2 DEF SendBlock, Return
  <2>3. QED
    BY <2>1, <2>2
<1>8. CASE SendError(w)
  BY <1>0, <1>8, <1>g DEF SendError, Return
<1>9. QED
  BY <1>1, <1>2, <1>3, <1>4, <1>5, <1>6, <1>7, <1>8 DEF Work

LEMMA WorkerTypesKept ==
    ASSUME PoolInv, NEW w \in Workers, Work(w)
    PROVE  /\ PoolInv'
           /\ worker' \in [Workers -> WorkerStates]
           /\ \A v \in Workers \ {w} : worker'[v] = worker[v]
<1> USE DEF PoolInv
<1>f. NFiles \in Nat /\ (\A f \in Files : blocks[f] \in Nat)
  BY Facts
<1>t. QueueTypes /\ WorkerTypes /\ ReaderTypes
  BY TypeParts
<1>k. blocks' = blocks /\ Files' = Files /\ NFiles' = NFiles
  BY WorkerRecord DEF Files, NFiles
<1>c. UNCHANGED consumerVars
  BY DEF Work, TakeJob, Exit, Open, OpenFails, ReadBlock, ReadBlockFails,
         SendBlock, SendError
<1>1. /\ worker' \in [Workers -> WorkerStates]
      /\ \A v \in Workers \ {w} : worker'[v] = worker[v]
      /\ WorkerInv'
  <2>1. PICK r \in WorkerStates :
          /\ worker' = [worker EXCEPT ![w] = r]
          /\ r.file = 0 <=> r.at \in {"idle", "exited"}
          /\ r.at = "open" => r.sent = 0
          /\ r.at = "read" => r.sent <= blocks[r.file]
          /\ r.at \in {"send", "send_error"} => r.sent < blocks[r.file]
    BY WorkerRecord
  <2>2. QED
    BY <1>k, <2>1, WorkerStep
<1>2. ReaderTypes' /\ ReaderInv'
  BY <1>c, <1>k, <1>t DEF consumerVars, ReaderTypes, ReaderInv
<1>3. QueueTypes'
  <2>1. jobs' \in Seq(Files)
    <3>1. jobs' = jobs \/ (jobs # <<>> /\ jobs' = Tail(jobs))
      BY DEF Work, TakeJob, Exit, Open, OpenFails, ReadBlock, ReadBlockFails,
             SendBlock, SendError
    <3>2. QED
      BY <1>t, <3>1 DEF QueueTypes
  <2>2. QED
    BY <1>c, <1>k, <1>t, <2>1 DEF consumerVars, QueueTypes
<1>4. size_ch' \in [Files -> SizeMessages]
  BY <1>t DEF Work, TakeJob, Exit, Open, OpenFails, ReadBlock, ReadBlockFails,
         SendBlock, SendError, WorkerTypes, SizeMessages
<1>5. /\ chunk_ch' \in [Files -> Seq(Nat \X Nat)]
      /\ \A f \in Files : chunk_ch'[f] \in Seq(BlocksOf(f))
  <2> DEFINE g == worker[w].file
  <2>1. g \in 0 .. NFiles /\ worker[w].sent \in Nat
    BY Facts
  <2>2. CASE UNCHANGED chunk_ch
    BY <1>t, <2>2 DEF Shapes, WorkerTypes
  <2>3. ASSUME NEW m \in BlocksOf(g), m \in Nat \X Nat, g \in Files,
               chunk_ch' = [chunk_ch EXCEPT ![g] = Append(@, m)]
        PROVE  <1>5
    <3>1. /\ chunk_ch[g] \in Seq(Nat \X Nat)
          /\ chunk_ch[g] \in Seq(BlocksOf(g))
      BY <2>3, Facts
    <3>2. /\ Append(chunk_ch[g], m) \in Seq(Nat \X Nat)
          /\ Append(chunk_ch[g], m) \in Seq(BlocksOf(g))
      BY <2>3, <3>1
    <3>3. QED
      BY <1>t, <2>3, <3>2 DEF Shapes, WorkerTypes
  <2>4. CASE chunk_ch' = [chunk_ch EXCEPT ![g] = Append(@, Error)] /\ g # 0
    <3>1. Error \in BlocksOf(g) /\ Error \in Nat \X Nat /\ g \in Files
      BY <1>f, <2>1, <2>4 DEF Error, BlocksOf, Files, NFiles
    <3>2. QED
      BY <2>3, <2>4, <3>1
  <2>5. CASE SendBlock(w) /\ Listening(g)
    <3>1. g # 0 /\ worker[w].sent < blocks[g]
      BY <2>5 DEF SendBlock, WorkerInv
    <3>2. g \in Files /\ blocks[g] \in Nat
      BY <1>f, <2>1, <3>1 DEF Files, NFiles
    <3>3. <<g, worker[w].sent + 1>> \in BlocksOf(g)
      BY <2>1, <3>1, <3>2 DEF BlocksOf
    <3>4. <<g, worker[w].sent + 1>> \in Nat \X Nat
      BY <2>1
    <3>5. QED
      BY <2>3, <2>5, <3>2, <3>3, <3>4 DEF SendBlock
  <2>6. QED
    BY <2>2, <2>4, <2>5 DEF Work, TakeJob, Exit, Open, OpenFails, ReadBlock,
       ReadBlockFails, SendBlock, SendError, WorkerInv
<1>6. Shapes'
  BY <1>c, <1>k, <1>5 DEF consumerVars, Shapes
<1>7. WorkerTypes'
  <2>1. \A f \in Files : BlocksOf(f)' = BlocksOf(f)
    BY <1>k DEF BlocksOf
  <2>2. WorkerStates' = WorkerStates
    BY <1>k DEF WorkerStates
  <2>3. QED
    BY <1>k, <1>1, <1>4, <1>5, <2>1, <2>2 DEF WorkerTypes
<1>8. QED
  BY <1>1, <1>2, <1>3, <1>6, <1>7, TypePartsNext

LEMMA PoolStep == PoolInv /\ [Next]_vars => PoolInv'
<1> SUFFICES ASSUME PoolInv, [Next]_vars PROVE PoolInv'
  OBVIOUS
<1>1. CASE UNCHANGED vars
  <2>1. QueueTypes' /\ WorkerTypes' /\ ReaderTypes'
    BY <1>1, TypeParts DEF PoolInv, vars, consumerVars, QueueTypes, WorkerTypes,
       ReaderTypes, WorkerStates, BlocksOf, Files, NFiles
  <2>2. Shapes' /\ WorkerInv' /\ ReaderInv'
    BY <1>1 DEF PoolInv, vars, consumerVars, Shapes, WorkerInv, ReaderInv, Files
  <2>3. QED
    BY <2>1, <2>2, TypePartsNext DEF PoolInv
<1>2. CASE Next
  BY <1>2, ConsumerTypes, WorkerTypesKept DEF Next
<1>3. QED
  BY <1>1, <1>2

----------------------------------------------------------------------------
(* Files in flight and jobs.                                               *)

LEMMA WorkersCount == n_workers \in Nat /\ n_workers > 0
BY PoolAssumption, FS_CardinalityType, FS_EmptySet DEF n_workers

LEMMA QueueInit == Init => QueueInv
<1> SUFFICES ASSUME Init PROVE QueueInv
  OBVIOUS
<1>1. NFiles \in Nat
  BY PoolAssumption DEF Init, NFiles
<1>2. FlightInv
  BY WorkersCount DEF Init, FlightInv
<1>3. JobsInv
  BY DEF Init, JobsInv, Taken
<1>4. QED
  BY <1>2, <1>3 DEF QueueInv

\* A worker keeps its file or lets go of it, unless it takes the next job.
LEMMA WorkerFile ==
    ASSUME PoolInv, NEW w \in Workers, Work(w), ~TakeJob(w)
    PROVE  /\ jobs' = jobs
           /\ worker'[w].file = worker[w].file \/ worker'[w].file = 0
<1>1. worker \in [Workers -> WorkerStates] /\ worker[w] \in WorkerStates
  BY Facts DEF PoolInv
<1>2. ASSUME NEW p, Goto(w, p) PROVE worker'[w].file = worker[w].file
  BY <1>1, <1>2, GotoRecord
<1>3. Return(w) => worker'[w].file = 0
  BY <1>1 DEF Return
<1>4. CASE Exit(w) \/ OpenFails(w) \/ ReadBlockFails(w)
  BY <1>2, <1>3, <1>4 DEF Exit, OpenFails, ReadBlockFails
<1>5. CASE Open(w) \/ ReadBlock(w)
  BY <1>2, <1>3, <1>5 DEF Open, ReadBlock
<1>6. CASE SendBlock(w)
  BY <1>1, <1>3, <1>6 DEF SendBlock, WorkerStates
<1>7. CASE SendError(w)
  BY <1>3, <1>7 DEF SendError
<1>8. QED
  BY <1>4, <1>5, <1>6, <1>7 DEF Work

LEMMA FlightStep ==
    ASSUME PoolInv, FlightInv, Consumer \/ WriterFails
    PROVE  FlightInv'
<1> USE DEF PoolInv
<1>f. /\ NFiles \in Nat /\ NFiles' = NFiles /\ n_workers \in Nat
      /\ next_spawn \in Nat /\ next_spawn <= NFiles
      /\ in_flight \in Seq(Files)
      /\ reader.file \in Nat
      /\ n_workers' = n_workers
  <2>1. blocks' = blocks
    BY DEF Consumer, Spawn, ToppedUp, PopFront, ReceiveSize, ReceiveBlock,
           WriteBlock, ReaderDrained, Finish, Joined, SizeFails, ReadFails,
           WriterFails, Abandon
  <2>2. QED
    BY <2>1, Facts, TypeParts, WorkersCount DEF QueueTypes, NFiles, n_workers
<1>1. CASE Spawn
  <2>1. /\ in_flight' = Append(in_flight, next_spawn + 1)
        /\ next_spawn' = next_spawn + 1
        /\ reader' = reader
        /\ cpc' = "top_up" /\ cpc = "top_up"
        /\ Len(in_flight) < n_workers
    BY <1>1 DEF Spawn, WantsMore
  <2>2. /\ Len(in_flight') = Len(in_flight) + 1
        /\ \A i \in 1 .. Len(in_flight) : in_flight'[i] = in_flight[i]
        /\ in_flight'[Len(in_flight) + 1] = next_spawn + 1
    BY <1>f, <2>1
  <2>3. /\ reader.file + Len(in_flight) = next_spawn
        /\ \A i \in 1 .. Len(in_flight) : in_flight[i] = reader.file + i
    BY <2>1 DEF FlightInv
  <2>4. \A i \in 1 .. Len(in_flight') : in_flight'[i] = reader'.file + i
    <3>1. Len(in_flight) \in Nat
      BY <1>f
    <3>2. in_flight'[Len(in_flight) + 1] = reader.file + (Len(in_flight) + 1)
      BY <1>f, <2>2, <2>3, <3>1
    <3>3. \A i \in 1 .. Len(in_flight) : in_flight'[i] = reader.file + i
      BY <2>2, <2>3
    <3>4. \A i \in 1 .. Len(in_flight') : i \in 1 .. Len(in_flight) \/ i = Len(in_flight) + 1
      BY <2>2, <3>1
    <3>5. QED
      BY <2>1, <3>2, <3>3, <3>4
  <2>5. QED
    BY <1>f, <2>1, <2>2, <2>3, <2>4 DEF FlightInv
<1>2. CASE ToppedUp
  BY <1>2, <1>f DEF ToppedUp, WantsMore, FlightInv
<1>3. CASE PopFront
  <2>1. /\ in_flight # <<>>
        /\ in_flight' = Tail(in_flight)
        /\ reader'.file = Head(in_flight)
        /\ next_spawn' = next_spawn
        /\ cpc' = "top_up" /\ cpc = "next"
    BY <1>3 DEF PopFront
  <2>2. /\ Len(in_flight) > 0
        /\ Len(in_flight') = Len(in_flight) - 1
        /\ \A i \in 1 .. Len(in_flight') : in_flight'[i] = in_flight[i + 1]
        /\ reader'.file = in_flight[1]
    BY <1>f, <2>1
  <2>3. /\ reader.file + Len(in_flight) = next_spawn
        /\ \A i \in 1 .. Len(in_flight) : in_flight[i] = reader.file + i
        /\ Len(in_flight) <= n_workers
    BY <2>1 DEF FlightInv
  <2>4. /\ reader'.file = reader.file + 1
        /\ \A i \in 1 .. Len(in_flight') : in_flight'[i] = reader'.file + i
    BY <1>f, <2>1, <2>2, <2>3
  <2>5. /\ reader'.file + Len(in_flight') = next_spawn'
        /\ Len(in_flight') <= n_workers'
    BY <1>f, <2>1, <2>2, <2>3, <2>4
  <2>6. QED
    BY <2>1, <2>4, <2>5 DEF FlightInv
<1>4. CASE ReceiveSize \/ WriteBlock
  <2>1. /\ reader'.file = reader.file
        /\ UNCHANGED <<in_flight, next_spawn>>
        /\ cpc' = "read" /\ cpc \in {"size", "read"}
    BY <1>4 DEF ReceiveSize, WriteBlock, Shapes
  <2>2. QED
    BY <1>f, <2>1 DEF FlightInv
<1>5. CASE ReceiveBlock
  BY <1>f, <1>5 DEF ReceiveBlock, FlightInv
<1>6. CASE ReaderDrained
  BY <1>f, <1>6 DEF ReaderDrained, FlightInv
<1>7. CASE Finish \/ Joined
  BY <1>f, <1>7 DEF Finish, Joined, FlightInv
<1>8. CASE SizeFails \/ ReadFails \/ WriterFails
  BY <1>8 DEF SizeFails, ReadFails, WriterFails, Abandon, FlightInv
<1>9. QED
  BY <1>1, <1>2, <1>3, <1>4, <1>5, <1>6, <1>7, <1>8 DEF Consumer

LEMMA JobsStep ==
    ASSUME PoolInv, JobsInv, [Next]_vars
    PROVE  JobsInv'
<1> USE DEF PoolInv
<1>f. /\ next_spawn \in Nat
      /\ jobs \in Seq(Files)
      /\ \A w \in Workers : worker[w].file \in Nat
  BY Facts, TypeParts DEF QueueTypes
<1>1. CASE Spawn
  <2>1. /\ jobs' = Append(jobs, next_spawn + 1)
        /\ next_spawn' = next_spawn + 1
        /\ worker' = worker
    BY <1>1 DEF Spawn
  <2>2. /\ Len(jobs') = Len(jobs) + 1
        /\ \A i \in 1 .. Len(jobs) : jobs'[i] = jobs[i]
        /\ jobs'[Len(jobs) + 1] = next_spawn + 1
    BY <1>f, <2>1
  <2>3. Taken' = Taken
    BY <1>f, <2>1, <2>2 DEF Taken
  <2>4. QED
    BY <1>f, <2>1, <2>2, <2>3 DEF JobsInv, Taken
<1>2. ASSUME NEW w \in Workers, TakeJob(w) PROVE JobsInv'
  <2>1. /\ jobs # <<>> /\ jobs' = Tail(jobs) /\ next_spawn' = next_spawn
        /\ worker' = [worker EXCEPT
             ![w] = [at |-> "open", file |-> Head(jobs), sent |-> 0]]
    BY <1>2 DEF TakeJob, consumerVars
  <2>2. /\ Len(jobs) > 0
        /\ Len(jobs') = Len(jobs) - 1
        /\ \A i \in 1 .. Len(jobs') : jobs'[i] = jobs[i + 1]
        /\ Head(jobs) = jobs[1]
    BY <1>f, <2>1
  <2>3. Taken' = Taken + 1 /\ jobs[1] = Taken + 1
    BY <1>f, <2>1, <2>2 DEF Taken, JobsInv
  <2>4. /\ worker'[w].file = Taken + 1
        /\ \A v \in Workers \ {w} : worker'[v].file = worker[v].file
    BY <2>1, <2>2, <2>3, Facts
  <2>5. Taken \in Nat
    BY <1>f DEF Taken, JobsInv
  <2>6. QED
    BY <1>f, <2>1, <2>2, <2>3, <2>4, <2>5 DEF JobsInv
<1>3. ASSUME NEW w \in Workers, Work(w), ~TakeJob(w) PROVE JobsInv'
  <2>1. jobs' = jobs /\ next_spawn' = next_spawn
    BY <1>3, WorkerFile DEF Work, Exit, Open, OpenFails, ReadBlock,
       ReadBlockFails, SendBlock, SendError, consumerVars
  <2>2. /\ worker'[w].file = worker[w].file \/ worker'[w].file = 0
        /\ \A v \in Workers \ {w} : worker'[v].file = worker[v].file
    BY <1>3, WorkerFile, WorkerTypesKept
  <2>3. Taken' = Taken /\ Taken \in Nat
    BY <1>f, <2>1 DEF Taken, JobsInv
  <2>4. QED
    BY <1>f, <2>1, <2>2, <2>3 DEF JobsInv
<1>4. CASE UNCHANGED <<jobs, next_spawn, worker>>
  BY <1>4 DEF JobsInv, Taken
<1>5. QED
  BY <1>1, <1>2, <1>3, <1>4 DEF Next, Consumer, ToppedUp, PopFront,
     ReceiveSize, ReceiveBlock, WriteBlock, ReaderDrained, Finish, Joined,
     SizeFails, ReadFails, WriterFails, Abandon, vars, consumerVars

LEMMA QueueStep == PoolInv /\ QueueInv /\ [Next]_vars => QueueInv'
<1> SUFFICES ASSUME PoolInv, QueueInv, [Next]_vars PROVE QueueInv'
  OBVIOUS
<1>1. JobsInv'
  BY JobsStep DEF QueueInv
<1>2. FlightInv'
  <2>1. CASE Consumer \/ WriterFails
    BY <2>1, FlightStep DEF QueueInv
  <2>2. CASE UNCHANGED consumerVars /\ blocks' = blocks
    BY <2>2 DEF QueueInv, FlightInv, consumerVars, NFiles, n_workers
  <2>3. ASSUME NEW w \in Workers, Work(w)
        PROVE  UNCHANGED consumerVars /\ blocks' = blocks
    BY <2>3 DEF Work, TakeJob, Exit, Open, OpenFails, ReadBlock, ReadBlockFails,
       SendBlock, SendError
  <2>4. QED
    BY <2>1, <2>2, <2>3 DEF Next, vars
<1>3. QED
  BY <1>1, <1>2 DEF QueueInv

----------------------------------------------------------------------------
(* The channels of a file.                                                 *)

LEMMA ChannelInit == Init => ChannelInv
<1> SUFFICES ASSUME Init, NEW f \in Files PROVE ChannelsOf(f)
  BY DEF ChannelInv
<1>1. blocks[f] \in Nat /\ f \in Nat /\ f > 0
  BY PoolAssumption DEF Init, Files
<1>2. size_ch[f] = <<>> /\ chunk_ch[f] = <<>> /\ Len(chunk_ch[f]) = 0
  BY DEF Init
<1>3. Received(f) = 0
  BY <1>1 DEF Init, Received
<1>4. Waiting(f) /\ Opened(f) /\ SizeSeen(f)
  BY <1>1, <1>2 DEF Init, Waiting, Opened, SizeSeen
<1>5. Contents(f)
  BY <1>1, <1>2, <1>3, PoolAssumption DEF Contents
<1>6. QED
  BY <1>4, <1>5 DEF ChannelsOf

LEMMA ReceivedType ==
    ASSUME PoolInv, NEW f \in Files
    PROVE  /\ Received(f) \in Int
           /\ f \in Nat /\ f > 0
           /\ blocks[f] \in Nat
           /\ Taken \in Int
           /\ Len(chunk_ch[f]) \in Nat
           /\ size_ch[f] \in SizeMessages
<1>1. f \in Nat /\ f > 0 /\ blocks[f] \in Nat
  BY Facts DEF PoolInv, Files
<1>2. reader.file \in Nat /\ reader.remaining \in Nat
  BY Facts DEF PoolInv
<1>3. Received(f) \in Int
  BY <1>1, <1>2 DEF Received
<1>4. Taken \in Int
  BY TypeParts, Facts DEF PoolInv, QueueTypes, Taken
<1>5. Len(chunk_ch[f]) \in Nat
  BY Facts DEF PoolInv
<1>6. QED
  BY <1>1, <1>3, <1>4, <1>5, TypeParts DEF PoolInv, WorkerTypes

\* The consumer's steps other than ReceiveBlock receive nothing.
LEMMA PairsAreNotEmpty == \A m \in Nat \X Nat : m # <<>>
OBVIOUS

LEMMA ReceivedKept ==
    ASSUME PoolInv, FlightInv, Consumer \/ WriterFails, ~ReceiveBlock,
           cpc' # "failed",
           NEW f \in Files, SizeSeen(f)
    PROVE  Received(f)' = Received(f) /\ SizeSeen(f)'
<1> USE DEF PoolInv
<1>f. /\ f \in Nat /\ f > 0 /\ blocks[f] \in Nat
      /\ reader.file \in Nat /\ reader.remaining \in Nat
      /\ (reader.file > 0 => blocks[reader.file] \in Nat)
  BY Facts DEF Files, NFiles
<1>1. CASE Spawn
  BY <1>1 DEF Spawn, Received, SizeSeen
<1>2. CASE ToppedUp
  BY <1>2, <1>f DEF ToppedUp, Received, SizeSeen
<1>3. CASE PopFront
  <2>1. Len(in_flight) > 0 /\ Head(in_flight) = in_flight[1]
    BY <1>3, TypeParts DEF PopFront, QueueTypes
  <2>2. /\ reader'.file = reader.file + 1
        /\ cpc = "next" /\ cpc' = "top_up"
        /\ blocks' = blocks /\ size_ch' = size_ch /\ current' = current
    BY <1>3, <1>f, <2>1 DEF PopFront, FlightInv
  <2>3. reader.remaining = 0 /\ current = <<>>
    BY <2>2 DEF ReaderInv
  <2>4. Received(f)' = Received(f)
    BY <1>f, <2>2, <2>3 DEF Received
  <2>5. SizeSeen(f)'
    BY <1>f, <2>2 DEF SizeSeen
  <2>6. QED
    BY <2>4, <2>5
<1>4. CASE ReceiveSize
  <2>1. /\ reader'.file = reader.file
        /\ reader'.remaining = blocks[reader.file]
        /\ cpc = "size" /\ cpc' = "read"
        /\ size_ch[reader.file] = <<"ok">>
        /\ blocks' = blocks /\ size_ch' = size_ch /\ current' = current
    BY <1>4 DEF ReceiveSize, Shapes
  <2>2. current = <<>>
    BY <2>1 DEF ReaderInv
  <2>3. Received(f)' = Received(f)
    BY <1>f, <2>1, <2>2 DEF Received
  <2>4. QED
    BY <1>f, <2>1, <2>3 DEF SizeSeen
<1>5. CASE WriteBlock
  <2>1. /\ reader'.file = reader.file
        /\ reader'.remaining = reader.remaining - 1
        /\ cpc = "read" /\ cpc' = "read"
        /\ current # <<>> /\ current' = <<>>
        /\ blocks' = blocks /\ size_ch' = size_ch
    BY <1>5 DEF WriteBlock, Shapes
  <2>2. Received(f)' = Received(f)
    BY <1>f, <2>1 DEF Received
  <2>3. QED
    BY <1>f, <2>1, <2>2 DEF SizeSeen
<1>6. CASE ReaderDrained \/ Finish \/ Joined
  BY <1>6 DEF ReaderDrained, Finish, Joined, Received, SizeSeen
<1>7. QED
  BY <1>1, <1>2, <1>3, <1>4, <1>5, <1>6 DEF Consumer, SizeFails, ReadFails,
     WriterFails, Abandon

LEMMA ConsumerChannels ==
    ASSUME PoolInv, QueueInv, ChannelInv, Consumer \/ WriterFails, ~ReceiveBlock
    PROVE  ChannelInv'
<1> SUFFICES ASSUME cpc' # "failed", NEW f \in Files' PROVE ChannelsOf(f)'
  BY DEF ChannelInv
<1>1. /\ UNCHANGED <<blocks, worker, size_ch, chunk_ch>>
      /\ cpc # "failed"
      /\ \/ UNCHANGED <<jobs, next_spawn>>
         \/ /\ jobs' = Append(jobs, next_spawn + 1)
            /\ next_spawn' = next_spawn + 1
  BY DEF Consumer, Spawn, ToppedUp, PopFront, ReceiveSize, ReceiveBlock,
         WriteBlock, ReaderDrained, Finish, Joined, SizeFails, ReadFails,
         WriterFails, Abandon
<1>2. f \in Files /\ ChannelsOf(f)
  BY <1>1 DEF Files, ChannelInv
<1>3. Received(f)' = Received(f) /\ SizeSeen(f)'
  BY <1>2, ReceivedKept DEF QueueInv, ChannelsOf
<1>4. Taken' = Taken
  <2>1. next_spawn \in Nat /\ jobs \in Seq(Files)
    BY TypeParts DEF PoolInv, QueueTypes
  <2>2. CASE UNCHANGED <<jobs, next_spawn>>
    BY <2>2 DEF Taken
  <2>3. CASE jobs' = Append(jobs, next_spawn + 1) /\ next_spawn' = next_spawn + 1
    <3>1. Len(jobs') = Len(jobs) + 1
      BY <2>1, <2>3
    <3>2. QED
      BY <2>1, <2>3, <3>1 DEF Taken
  <2>4. QED
    BY <1>1, <2>2, <2>3
<1>5. Waiting(f)' /\ Opened(f)' /\ Contents(f)'
  BY <1>1, <1>2, <1>3, <1>4 DEF ChannelsOf, Waiting, Opened, Contents
<1>6. QED
  BY <1>3, <1>5 DEF ChannelsOf

LEMMA ReceiveChannels ==
    ASSUME PoolInv, QueueInv, ChannelInv, ReceiveBlock
    PROVE  /\ ChannelInv'
           /\ chunk_ch[reader.file][1] = <<reader.file, Received(reader.file) + 1>>
<1> USE DEF PoolInv
<1>0. PICK g : g = reader.file
  OBVIOUS
<1>1. /\ cpc = "read" /\ cpc' = "read"
      /\ current = <<>>
      /\ current' # <<>>
      /\ chunk_ch[g] # <<>>
      /\ Head(chunk_ch[g]) # Error
      /\ UNCHANGED <<blocks, jobs, next_spawn, worker, size_ch, reader>>
  <2>1. /\ cpc = "read" /\ current = <<>> /\ reader.remaining > 0
        /\ chunk_ch[g] # <<>> /\ current' = Head(chunk_ch[g])
    BY <1>0 DEF ReceiveBlock
  <2>2. g \in Files
    BY <1>0, <2>1, Facts DEF ReaderInv, Files, NFiles
  <2>3. Head(chunk_ch[g]) \in Nat \X Nat
    BY <2>1, <2>2, Facts
  <2>4. QED
    BY <1>0, <2>1, <2>3, PairsAreNotEmpty DEF ReceiveBlock
<1>2. g \in Files
  BY <1>0, <1>1, Facts DEF ReaderInv, Files, NFiles
<1>3. /\ chunk_ch[g] \in Seq(Nat \X Nat)
      /\ chunk_ch' = [chunk_ch EXCEPT ![g] = Tail(chunk_ch[g])]
  BY <1>0, <1>2, Facts DEF ReceiveBlock
<1>4. /\ Len(chunk_ch[g]) > 0
      /\ chunk_ch'[g] = Tail(chunk_ch[g])
      /\ Len(chunk_ch'[g]) = Len(chunk_ch[g]) - 1
      /\ \A i \in 1 .. Len(chunk_ch'[g]) : chunk_ch'[g][i] = chunk_ch[g][i + 1]
      /\ Head(chunk_ch[g]) = chunk_ch[g][1]
      /\ \A f \in Files \ {g} : chunk_ch'[f] = chunk_ch[f]
  BY <1>1, <1>2, <1>3 DEF Shapes
<1>5. /\ Received(g)' = Received(g) + 1
      /\ \A f \in Files \ {g} : Received(f)' = Received(f)
  <2>1. g \in Nat /\ reader.remaining \in Nat /\ blocks[g] \in Nat
    BY <1>2, Facts DEF Files
  <2>2. QED
    BY <1>0, <1>1, <2>1 DEF Received
<1>6. Files' = Files /\ Taken' = Taken
  BY <1>1 DEF Files, Taken
<1>7. ASSUME NEW f \in Files \ {g} PROVE ChannelsOf(f)'
  <2>1. ChannelsOf(f)
    BY <1>1 DEF ChannelInv
  <2>2. chunk_ch'[f] = chunk_ch[f] /\ Received(f)' = Received(f)
    BY <1>4, <1>5
  <2>3. QED
    BY <1>1, <1>6, <2>1, <2>2 DEF ChannelsOf, Waiting, Opened, Contents, SizeSeen
<1>8. ChannelsOf(g)
  BY <1>1, <1>2 DEF ChannelInv
<1>9. chunk_ch[g][1] = <<g, Received(g) + 1>>
  BY <1>1, <1>4, <1>8, ReceivedType, <1>2 DEF ChannelsOf, Contents
<1>10. ChannelsOf(g)'
  <2>1. /\ Received(g) \in Int /\ blocks[g] \in Nat
        /\ Len(chunk_ch[g]) \in Nat /\ CHUNK_DEPTH \in Nat
    BY <1>2, ReceivedType, PoolAssumption
  <2>2. Waiting(g)'
    BY <1>1, <1>6, <1>8 DEF ChannelsOf, Waiting
  <2>3. SizeSeen(g)'
    BY <1>1, <1>8 DEF ChannelsOf, SizeSeen
  <2>4. Opened(g)'
    <3> SUFFICES ASSUME NEW w \in Workers, worker[w].file = g
        PROVE  /\ worker[w].at # "open"
               /\ worker[w].at \in Busy =>
                    /\ size_ch[g] = <<"ok">>
                    /\ Received(g)' + Len(chunk_ch'[g]) = worker[w].sent
                    /\ \A i \in 1 .. Len(chunk_ch'[g]) : chunk_ch'[g][i] # Error
      BY <1>1 DEF Opened
    <3>1. worker[w].at # "open"
      BY <1>1, <1>8 DEF ChannelsOf, Opened
    <3>2. worker[w].at \in Busy =>
            /\ size_ch[g] = <<"ok">>
            /\ Received(g) + Len(chunk_ch[g]) = worker[w].sent
            /\ \A i \in 1 .. Len(chunk_ch[g]) : chunk_ch[g][i] # Error
      BY <1>8 DEF ChannelsOf, Opened
    <3>3. \A i \in 1 .. Len(chunk_ch'[g]) : i + 1 \in 1 .. Len(chunk_ch[g])
      BY <1>4, <2>1
    <3>4. Received(g)' + Len(chunk_ch'[g]) = Received(g) + Len(chunk_ch[g])
      BY <1>4, <1>5, <2>1
    <3>5. QED
      BY <1>4, <3>1, <3>2, <3>3, <3>4
  <2>5. Contents(g)'
    <3>1. /\ Len(chunk_ch[g]) <= CHUNK_DEPTH
          /\ Received(g) + Len(chunk_ch[g]) <= blocks[g]
      BY <1>8 DEF ChannelsOf, Contents
    <3>2. /\ Len(chunk_ch'[g]) <= CHUNK_DEPTH
          /\ Received(g)' + Len(chunk_ch'[g]) <= blocks[g]
      BY <1>4, <1>5, <2>1, <3>1
    <3>3. ASSUME NEW i \in 1 .. Len(chunk_ch'[g])
          PROVE  \/ chunk_ch'[g][i] = <<g, Received(g)' + i>>
                 \/ chunk_ch'[g][i] = Error /\ i = Len(chunk_ch'[g])
      <4>1. i + 1 \in 1 .. Len(chunk_ch[g]) /\ i \in Nat
        BY <1>4, <2>1
      <4>2. \/ chunk_ch[g][i + 1] = <<g, Received(g) + (i + 1)>>
            \/ chunk_ch[g][i + 1] = Error /\ i + 1 = Len(chunk_ch[g])
        BY <1>8, <4>1 DEF ChannelsOf, Contents
      <4>3. Received(g) + (i + 1) = Received(g)' + i
        BY <1>5, <2>1, <4>1
      <4>4. i + 1 = Len(chunk_ch[g]) => i = Len(chunk_ch'[g])
        BY <1>4, <2>1, <4>1
      <4>5. QED
        BY <1>4, <4>2, <4>3, <4>4
    <3>4. QED
      BY <1>1, <3>2, <3>3 DEF Contents
  <2>6. QED
    BY <2>2, <2>3, <2>4, <2>5 DEF ChannelsOf
<1>11. QED
  BY <1>0, <1>6, <1>7, <1>9, <1>10 DEF ChannelInv

\* What a step of worker w leaves alone: the consumer, and the channels of
\* every file but its own.
LEMMA WorkerLocal ==
    ASSUME PoolInv, NEW w \in Workers, Work(w)
    PROVE  /\ UNCHANGED consumerVars /\ blocks' = blocks
           /\ \A f \in Files : f # worker[w].file =>
                size_ch'[f] = size_ch[f] /\ chunk_ch'[f] = chunk_ch[f]
<1>1. UNCHANGED consumerVars /\ blocks' = blocks
  BY DEF Work, TakeJob, Exit, Open, OpenFails, ReadBlock, ReadBlockFails,
         SendBlock, SendError
<1>2. size_ch \in [Files -> SizeMessages] /\ chunk_ch \in [Files -> Seq(Nat \X Nat)]
  BY TypeParts DEF PoolInv, WorkerTypes, Shapes
<1>3. ASSUME NEW f \in Files, f # worker[w].file
      PROVE  size_ch'[f] = size_ch[f] /\ chunk_ch'[f] = chunk_ch[f]
  BY <1>2, <1>3 DEF Work, TakeJob, Exit, Open, OpenFails, ReadBlock,
     ReadBlockFails, SendBlock, SendError
<1>4. QED
  BY <1>1, <1>3

LEMMA OtherChannels ==
    ASSUME PoolInv, NEW w \in Workers, Work(w), ~TakeJob(w), cpc # "failed",
           NEW f \in Files, f # worker[w].file, ChannelsOf(f)
    PROVE  ChannelsOf(f)'
<1>1. /\ UNCHANGED consumerVars /\ blocks' = blocks
      /\ size_ch'[f] = size_ch[f] /\ chunk_ch'[f] = chunk_ch[f]
  BY WorkerLocal
<1>2. /\ jobs' = jobs
      /\ worker'[w].file = worker[w].file \/ worker'[w].file = 0
      /\ \A v \in Workers \ {w} : worker'[v] = worker[v]
  BY WorkerFile, WorkerTypesKept
<1>3. Received(f)' = Received(f) /\ Taken' = Taken
  BY <1>1, <1>2 DEF consumerVars, Received, Taken
<1>4. Waiting(f)' /\ SizeSeen(f)' /\ Contents(f)'
  BY <1>1, <1>3 DEF consumerVars, ChannelsOf, Waiting, SizeSeen, Contents
<1>5. Opened(f)'
  <2>1. worker'[w].file # f
    BY <1>2, ReceivedType
  <2>2. QED
    BY <1>1, <1>2, <1>3, <2>1 DEF consumerVars, ChannelsOf, Opened
<1>6. QED
  BY <1>4, <1>5 DEF ChannelsOf

\* The channels of worker w's own file, when no other worker holds it.
LEMMA OwnChannels ==
    ASSUME PoolInv, JobsInv, NEW w \in Workers, Work(w), ~TakeJob(w),
           cpc # "failed",
           NEW g \in Files, g = worker[w].file, ChannelsOf(g)
    PROVE  ChannelsOf(g)'
<1> USE DEF PoolInv
<1>1. /\ UNCHANGED consumerVars /\ blocks' = blocks
      /\ jobs' = jobs
      /\ \A v \in Workers \ {w} : worker'[v] = worker[v]
      /\ worker' \in [Workers -> WorkerStates]
  BY WorkerLocal, WorkerFile, WorkerTypesKept
<1>2. Received(g)' = Received(g) /\ Taken' = Taken
  BY <1>1 DEF consumerVars, Received, Taken
<1>3. /\ Received(g) \in Int /\ Taken \in Int
      /\ g \in Nat /\ g > 0 /\ blocks[g] \in Nat
      /\ Len(chunk_ch[g]) \in Nat
      /\ CHUNK_DEPTH \in Nat
      /\ worker[w] \in WorkerStates
      /\ worker[w].sent \in Nat
      /\ worker \in [Workers -> WorkerStates]
      /\ size_ch \in [Files -> SizeMessages]
      /\ chunk_ch \in [Files -> Seq(Nat \X Nat)]
  BY ReceivedType, PoolAssumption, Facts, TypeParts DEF WorkerTypes, Shapes
<1>4. g <= Taken /\ \A v \in Workers \ {w} : worker'[v].file # g
  BY <1>1, <1>3 DEF JobsInv
<1>5. Waiting(g)'
  BY <1>2, <1>3, <1>4 DEF Waiting
<1>6. worker[w].at = "open" =>
        /\ size_ch[g] = <<>> /\ chunk_ch[g] = <<>> /\ Len(chunk_ch[g]) = 0
        /\ Listening(g)
        /\ Received(g) = 0
        /\ worker[w].sent = 0
        /\ ~(g < reader.file \/ (g = reader.file /\ cpc \notin {"top_up", "size"}))
  <2> SUFFICES ASSUME worker[w].at = "open"
      PROVE  /\ size_ch[g] = <<>> /\ chunk_ch[g] = <<>> /\ Len(chunk_ch[g]) = 0
             /\ Listening(g)
             /\ Received(g) = 0
             /\ worker[w].sent = 0
             /\ ~(g < reader.file \/ (g = reader.file /\ cpc \notin {"top_up", "size"}))
    OBVIOUS
  <2>1. size_ch[g] = <<>> /\ chunk_ch[g] = <<>> /\ Len(chunk_ch[g]) = 0
    BY DEF ChannelsOf, Opened
  <2>2. ~(g < reader.file \/ (g = reader.file /\ cpc \notin {"top_up", "size"}))
    BY <2>1 DEF ChannelsOf, SizeSeen
  <2>3. reader.file \in Nat
    BY Facts
  <2>4. QED
    BY <1>3, <2>1, <2>2, <2>3 DEF Listening, Received, WorkerInv
<1>7. worker[w].at \in Busy =>
        /\ size_ch[g] = <<"ok">>
        /\ Received(g) + Len(chunk_ch[g]) = worker[w].sent
        /\ \A i \in 1 .. Len(chunk_ch[g]) : chunk_ch[g][i] # Error
  BY DEF ChannelsOf, Opened
<1>8. CASE Open(w)
  <2>1. /\ worker[w].at = "open"
        /\ size_ch' = [size_ch EXCEPT ![g] = <<"ok">>]
        /\ Goto(w, "read")
        /\ chunk_ch' = chunk_ch
    BY <1>6, <1>8 DEF Open
  <2>2. /\ worker'[w].at = "read" /\ worker'[w].sent = worker[w].sent
        /\ worker'[w].file = g
    BY <1>3, <2>1, GotoRecord
  <2>3. size_ch'[g] = <<"ok">>
    BY <1>3, <2>1
  <2>4. Opened(g)'
    BY <1>2, <1>3, <1>4, <1>6, <2>1, <2>2, <2>3 DEF Opened
  <2>5. SizeSeen(g)' /\ Contents(g)'
    BY <1>1, <1>2, <2>1, <2>3 DEF ChannelsOf, SizeSeen, Contents
  <2>6. QED
    BY <1>5, <2>4, <2>5 DEF ChannelsOf
<1>9. ASSUME worker'[w].file # g, chunk_ch' = chunk_ch,
             size_ch' = size_ch
      PROVE  ChannelsOf(g)'
  <2>1. Opened(g)'
    BY <1>4, <1>9 DEF Opened
  <2>2. SizeSeen(g)' /\ Contents(g)'
    BY <1>1, <1>2, <1>9 DEF consumerVars, ChannelsOf, SizeSeen, Contents
  <2>3. QED
    BY <1>5, <2>1, <2>2 DEF ChannelsOf
<1>10. Return(w) => worker'[w].file # g
  BY <1>3 DEF Return
<1>11. CASE OpenFails(w)
  <2>1. /\ worker[w].at = "open" /\ chunk_ch' = chunk_ch
        /\ worker'[w].file # g
    BY <1>10, <1>11 DEF OpenFails
  <2>2. Opened(g)'
    BY <1>4, <2>1 DEF Opened
  <2>3. SizeSeen(g)' /\ Contents(g)'
    BY <1>1, <1>2, <1>6, <2>1 DEF consumerVars, ChannelsOf, SizeSeen, Contents
  <2>4. QED
    BY <1>5, <2>2, <2>3 DEF ChannelsOf
<1>12. ASSUME NEW p \in Busy, worker[w].at \in Busy, Goto(w, p),
              chunk_ch' = chunk_ch, size_ch' = size_ch
       PROVE  ChannelsOf(g)'
  <2>1. /\ worker'[w].at = p /\ worker'[w].sent = worker[w].sent
        /\ worker'[w].file = g
    BY <1>3, <1>12, GotoRecord
  <2>2. Opened(g)'
    BY <1>2, <1>4, <1>7, <1>12, <2>1 DEF Opened, Busy
  <2>3. SizeSeen(g)' /\ Contents(g)'
    BY <1>1, <1>2, <1>12 DEF consumerVars, ChannelsOf, SizeSeen, Contents
  <2>4. QED
    BY <1>5, <2>2, <2>3 DEF ChannelsOf
<1>13. CASE ReadBlock(w) \/ ReadBlockFails(w)
  BY <1>9, <1>10, <1>12, <1>13 DEF ReadBlock, ReadBlockFails, Busy
<1>14. ASSUME NEW m \in Nat \X Nat, worker[w].at \in Busy, HasRoom(g),
              worker[w].sent < blocks[g],
              m = <<g, worker[w].sent + 1>> \/ m = Error,
              chunk_ch' = [chunk_ch EXCEPT ![g] = Append(@, m)]
       PROVE  /\ Contents(g)'
              /\ Len(chunk_ch'[g]) = Len(chunk_ch[g]) + 1
              /\ m # Error =>
                   \A i \in 1 .. Len(chunk_ch'[g]) : chunk_ch'[g][i] # Error
  <2> DEFINE n == Len(chunk_ch[g])
  <2>1. chunk_ch'[g] = Append(chunk_ch[g], m) /\ chunk_ch[g] \in Seq(Nat \X Nat)
    BY <1>3, <1>14
  <2>2. /\ Len(chunk_ch'[g]) = n + 1
        /\ \A i \in 1 .. n : chunk_ch'[g][i] = chunk_ch[g][i]
        /\ chunk_ch'[g][n + 1] = m
    BY <2>1
  <2>3. /\ Received(g) + n = worker[w].sent
        /\ n < CHUNK_DEPTH
    BY <1>7, <1>14 DEF HasRoom
  <2>4. n + 1 <= CHUNK_DEPTH /\ Received(g) + (n + 1) <= blocks[g]
    BY <1>3, <1>14, <2>3
  <2>5. \A i \in 1 .. n : chunk_ch[g][i] = <<g, Received(g) + i>>
    BY <1>7, <1>14 DEF ChannelsOf, Contents
  <2>6. \A i \in 1 .. n + 1 : i \in 1 .. n \/ i = n + 1
    BY <1>3
  <2>7. worker[w].sent + 1 = Received(g) + (n + 1)
    BY <1>3, <2>3
  <2>8. \A i \in 1 .. n + 1 :
          \/ chunk_ch'[g][i] = <<g, Received(g) + i>>
          \/ chunk_ch'[g][i] = Error /\ i = n + 1
    BY <1>14, <2>2, <2>5, <2>6, <2>7
  <2>9. Contents(g)'
    BY <1>1, <1>2, <2>2, <2>4, <2>8 DEF Contents
  <2>10. m # Error => \A i \in 1 .. n + 1 : chunk_ch'[g][i] # Error
    BY <1>7, <1>14, <2>2, <2>6
  <2>11. QED
    BY <2>2, <2>9, <2>10
<1>15. CASE SendBlock(w)
  <2>1. worker[w].at = "send" /\ size_ch' = size_ch
    BY <1>15 DEF SendBlock
  <2>2. worker[w].sent < blocks[g]
    BY <2>1 DEF WorkerInv
  <2>3. CASE Listening(g)
    <3> DEFINE m == <<g, worker[w].sent + 1>>
    <3>1. /\ HasRoom(g)
          /\ chunk_ch' = [chunk_ch EXCEPT ![g] = Append(@, m)]
          /\ worker' = [worker EXCEPT ![w].at = "read", ![w].sent = @ + 1]
      BY <1>15, <2>3 DEF SendBlock
    <3>2. m \in Nat \X Nat /\ m # Error
      BY <1>3 DEF Error
    <3>3. worker[w].at \in Busy
      BY <2>1 DEF Busy
    <3>4. /\ Contents(g)'
          /\ Len(chunk_ch'[g]) = Len(chunk_ch[g]) + 1
          /\ \A i \in 1 .. Len(chunk_ch'[g]) : chunk_ch'[g][i] # Error
      BY <1>14, <2>2, <3>1, <3>2, <3>3
    <3>5. worker'[w].at = "read" /\ worker'[w].sent = worker[w].sent + 1
      BY <1>3, <3>1 DEF WorkerStates
    <3>6. Received(g) + Len(chunk_ch'[g]) = worker[w].sent + 1
      BY <1>3, <1>7, <3>3, <3>4
    <3>7. Opened(g)'
      BY <1>2, <1>4, <1>7, <2>1, <3>3, <3>4, <3>5, <3>6 DEF Opened
    <3>8. SizeSeen(g)'
      BY <1>1, <2>1 DEF consumerVars, ChannelsOf, SizeSeen
    <3>9. QED
      BY <1>5, <3>4, <3>7, <3>8 DEF ChannelsOf
  <2>4. CASE ~Listening(g)
    BY <1>9, <1>10, <1>15, <2>1, <2>4 DEF SendBlock
  <2>5. QED
    BY <2>3, <2>4
<1>16. CASE SendError(w)
  <2>1. worker[w].at = "send_error" /\ size_ch' = size_ch /\ worker'[w].file # g
    BY <1>10, <1>16 DEF SendError
  <2>2. worker[w].sent < blocks[g] /\ worker[w].at \in Busy
    BY <2>1 DEF WorkerInv, Busy
  <2>3. CASE Listening(g)
    <3>1. HasRoom(g) /\ chunk_ch' = [chunk_ch EXCEPT ![g] = Append(@, Error)]
      BY <1>16, <2>3 DEF SendError
    <3>2. Error \in Nat \X Nat
      BY DEF Error
    <3>3. Contents(g)'
      BY <1>14, <2>2, <3>1, <3>2
    <3>4. Opened(g)'
      BY <1>4, <2>1 DEF Opened
    <3>5. SizeSeen(g)'
      BY <1>1, <2>1 DEF consumerVars, ChannelsOf, SizeSeen
    <3>6. QED
      BY <1>5, <3>3, <3>4, <3>5 DEF ChannelsOf
  <2>4. CASE ~Listening(g)
    BY <1>9, <1>16, <2>1, <2>4 DEF SendError
  <2>5. QED
    BY <2>3, <2>4
<1>17. ~Exit(w)
  BY <1>3 DEF Exit, WorkerInv
<1>18. QED
  BY <1>8, <1>11, <1>13, <1>15, <1>16, <1>17 DEF Work

LEMMA TakeJobChannels ==
    ASSUME PoolInv, JobsInv, NEW w \in Workers, TakeJob(w), cpc # "failed",
           NEW f \in Files, ChannelsOf(f)
    PROVE  ChannelsOf(f)'
<1> USE DEF PoolInv
<1>1. /\ jobs # <<>> /\ jobs' = Tail(jobs)
      /\ UNCHANGED consumerVars /\ UNCHANGED <<blocks, size_ch, chunk_ch>>
      /\ worker' = [worker EXCEPT
           ![w] = [at |-> "open", file |-> Head(jobs), sent |-> 0]]
  BY DEF TakeJob
<1>2. worker'[w].at = "open" /\ worker'[w].file = Head(jobs)
  BY <1>1, Facts
<1>3. \A v \in Workers \ {w} : worker'[v] = worker[v]
  BY <1>1, Facts
<1>4. /\ Len(jobs) > 0 /\ Len(jobs) \in Nat
      /\ Len(jobs') = Len(jobs) - 1
      /\ Head(jobs) = jobs[1]
  BY <1>1, TypeParts DEF QueueTypes
<1>5. Head(jobs) > Taken /\ Taken' = Taken + 1 /\ Taken \in Int
  BY <1>1, <1>4, TypeParts DEF JobsInv, Taken, QueueTypes, consumerVars
<1>6. Received(f)' = Received(f)
  BY <1>1 DEF consumerVars, Received
<1>7. Waiting(f)' /\ SizeSeen(f)' /\ Contents(f)'
  BY <1>1, <1>5, <1>6, ReceivedType
     DEF consumerVars, ChannelsOf, Waiting, SizeSeen, Contents
<1>8. Opened(f)'
  BY <1>1, <1>2, <1>3, <1>5, <1>6, ReceivedType
     DEF ChannelsOf, Waiting, Opened, Busy
<1>9. QED
  BY <1>7, <1>8 DEF ChannelsOf

LEMMA ChannelStep == PoolInv /\ QueueInv /\ ChannelInv /\ [Next]_vars => ChannelInv'
<1> SUFFICES ASSUME PoolInv, QueueInv, ChannelInv, [Next]_vars PROVE ChannelInv'
  OBVIOUS
<1>1. CASE Consumer \/ WriterFails
  BY <1>1, ConsumerChannels, ReceiveChannels
<1>2. ASSUME NEW w \in Workers, Work(w) PROVE ChannelInv'
  <2>1. /\ cpc' = cpc /\ Files' = Files
        /\ JobsInv
    BY <1>2, WorkerLocal DEF consumerVars, Files, QueueInv
  <2>2. ASSUME NEW f \in Files, cpc # "failed" PROVE ChannelsOf(f)'
    <3>1. ChannelsOf(f)
      BY <2>2 DEF ChannelInv
    <3>2. QED
      BY <1>2, <2>1, <2>2, <3>1, TakeJobChannels, OwnChannels, OtherChannels
  <2>3. QED
    BY <2>1, <2>2 DEF ChannelInv
<1>3. CASE UNCHANGED vars
  BY <1>3 DEF vars, consumerVars, ChannelInv, ChannelsOf, Waiting, Opened,
     SizeSeen, Contents, Received, Taken, Files
<1>4. QED
  BY <1>1, <1>2, <1>3 DEF Next

----------------------------------------------------------------------------
(* What the writer has written.                                            *)

LEMMA GotInit == Init => GotInv
BY DEF Init, GotInv, Written, Ends

LEMMA GotStep ==
    ASSUME PoolInv, QueueInv, ChannelInv, GotInv, Consumer \/ WriterFails
    PROVE  GotInv'
<1> USE DEF PoolInv
<1> SUFFICES ASSUME cpc' # "failed" PROVE GotInv'
  BY DEF GotInv
<1>f. /\ reader.file \in Nat /\ reader.remaining \in Nat
      /\ \A f \in 1 .. reader.file : blocks[f] \in Nat
      /\ got \in Seq(Nat \X Nat)
  BY Facts DEF Shapes, Files, NFiles
<1>b. blocks' = blocks /\ cpc # "failed"
  BY DEF Consumer, Spawn, ToppedUp, PopFront, ReceiveSize, ReceiveBlock,
         WriteBlock, ReaderDrained, Finish, Joined, SizeFails, ReadFails,
         WriterFails, Abandon
<1>i. /\ current # <<>> => current = <<reader.file, Written + 1>>
      /\ got = <<>> => Written = 0 /\ Ends(0)
      /\ got # <<>> => \E g \in 1 .. reader.file : LastFrom(g)
  BY <1>b DEF GotInv
\* A step that leaves the written part as it was.
<1>1. ASSUME reader'.file = reader.file, Written' = Written, got' = got,
             current' # <<>> => current' = <<reader.file, Written + 1>>
      PROVE  GotInv'
  <2>1. \A g \in 0 .. reader.file : Ends(g)' <=> Ends(g)
    BY <1>b, <1>1 DEF Ends
  <2>2. \A g \in 1 .. reader.file : LastFrom(g)' <=> LastFrom(g)
    BY <1>b, <1>f, <1>1, <2>1 DEF LastFrom
  <2>3. QED
    BY <1>f, <1>i, <1>1, <2>1, <2>2 DEF GotInv
<1>2. CASE Spawn
  BY <1>1, <1>2, <1>b, <1>i DEF Spawn, Written
<1>3. CASE ToppedUp
  BY <1>1, <1>3, <1>b, <1>i DEF ToppedUp, Written
<1>4. CASE PopFront
  <2>1. Len(in_flight) > 0 /\ Head(in_flight) = in_flight[1]
    BY <1>4, TypeParts DEF PopFront, QueueTypes
  <2>2. /\ reader'.file = reader.file + 1
        /\ cpc = "next" /\ cpc' = "top_up"
        /\ current' = current /\ got' = got
    <3>1. in_flight[1] = reader.file + 1
      BY <1>4, <2>1, TypeParts DEF PopFront, QueueInv, FlightInv, QueueTypes
    <3>2. QED
      BY <1>4, <2>1, <3>1 DEF PopFront
  <2>3. reader.remaining = 0 /\ current = <<>>
    BY <2>2 DEF ReaderInv
  <2>4. /\ Written = IF reader.file = 0 THEN 0 ELSE blocks[reader.file]
        /\ Written' = 0
    <3>1. Written' = 0
      BY <2>2 DEF Written
    <3>2. reader.file # 0 => blocks[reader.file] \in Nat
      BY <1>f
    <3>3. Written = IF reader.file = 0 THEN 0 ELSE blocks[reader.file] - 0
      BY <2>2, <2>3 DEF Written
    <3> QED
      BY <3>1, <3>2, <3>3
  <2>5. ASSUME NEW g \in 0 .. reader.file, Ends(g),
               g = reader.file \/ Written = 0
        PROVE  Ends(g)'
    BY <1>b, <1>f, <2>2, <2>4, <2>5 DEF Ends
  <2>6. got = <<>> => Ends(0)'
    BY <1>f, <1>i, <2>5
  <2>7. ASSUME NEW g \in 1 .. reader.file, LastFrom(g)
        PROVE  LastFrom(g)'
    <3>1. CASE g = reader.file
      <4>1. Ends(g)
        BY <1>f, <3>1 DEF Ends
      <4>2. /\ Ends(g)' /\ g < reader'.file
            /\ blocks'[g] = Written /\ Written > 0
            /\ got'[Len(got')] = <<g, Written>>
        BY <1>b, <1>f, <2>2, <2>4, <2>5, <2>7, <3>1, <4>1 DEF LastFrom
      <4>3. QED
        BY <2>4, <4>2 DEF LastFrom
    <3>2. CASE g < reader.file
      BY <1>b, <1>f, <2>2, <2>4, <2>5, <2>7, <3>2 DEF LastFrom
    <3>3. QED
      BY <1>f, <3>1, <3>2
  <2>8. got # <<>> => \E g \in 1 .. reader'.file : LastFrom(g)'
    BY <1>f, <1>i, <2>2, <2>7
  <2>9. QED
    BY <2>2, <2>3, <2>4, <2>6, <2>8 DEF GotInv
<1>5. CASE ReceiveSize
  <2>1. /\ reader'.file = reader.file /\ reader.file > 0
        /\ reader'.remaining = blocks[reader.file]
        /\ cpc = "size" /\ cpc' = "read"
        /\ current' = current /\ got' = got
    BY <1>5 DEF ReceiveSize, Shapes, ReaderInv
  <2>2. Written' = Written
    BY <1>b, <1>f, <2>1 DEF Written
  <2>3. QED
    BY <1>1, <1>i, <2>1, <2>2
<1>6. CASE ReceiveBlock
  <2>1. /\ cpc = "read" /\ cpc' = cpc /\ current = <<>>
        /\ reader' = reader /\ got' = got
        /\ current' = Head(chunk_ch[reader.file])
        /\ chunk_ch[reader.file] # <<>>
        /\ reader.file > 0
    BY <1>6 DEF ReceiveBlock, ReaderInv
  <2>2. reader.file \in Files
    BY <2>1, Facts DEF Files, NFiles
  <2>3. chunk_ch[reader.file] \in Seq(Nat \X Nat)
    BY <2>2, Facts
  <2>4. current' = <<reader.file, Received(reader.file) + 1>>
    BY <1>6, <2>1, <2>3, ReceiveChannels
  <2>5. Written' = Written /\ Received(reader.file) = Written
    BY <1>b, <1>f, <2>1 DEF Written, Received
  <2>6. QED
    BY <1>1, <2>1, <2>4, <2>5
<1>7. CASE WriteBlock
  <2>1. /\ reader'.file = reader.file /\ reader.file > 0
        /\ reader'.remaining = reader.remaining - 1
        /\ cpc = "read" /\ cpc' = "read"
        /\ current # <<>> /\ current' = <<>>
        /\ current \in Nat \X Nat
        /\ got' = Append(got, current)
    BY <1>7 DEF WriteBlock, Shapes, ReaderInv
  <2>2. blocks[reader.file] \in Nat /\ reader.remaining <= blocks[reader.file]
    <3>1. reader.file # 0
      BY <1>f, <2>1
    <3>2. QED
      BY <1>f, <2>1, <3>1, TypeParts DEF ReaderTypes
  <2>3. /\ Written = blocks[reader.file] - reader.remaining
        /\ Written' = blocks[reader.file] - (reader.remaining - 1)
    BY <1>b, <1>f, <2>1 DEF Written
  <2>4. Written' = Written + 1 /\ Written' > 0
    BY <1>f, <2>2, <2>3
  <2>5. got' # <<>> /\ got'[Len(got')] = <<reader.file, Written + 1>>
    BY <1>f, <1>i, <2>1
  <2>6. PICK g \in 1 .. reader.file : g = reader.file
    BY <1>f, <2>1
  <2>7. LastFrom(g)'
    BY <2>1, <2>4, <2>5, <2>6 DEF LastFrom
  <2>8. g \in 1 .. reader'.file
    BY <2>1, <2>6
  <2>9. QED
    BY <2>1, <2>5, <2>7, <2>8 DEF GotInv
<1>8. CASE ReaderDrained \/ Finish \/ Joined
  BY <1>1, <1>8, <1>b, <1>i DEF ReaderDrained, Finish, Joined, Written
<1>9. QED
  BY <1>2, <1>3, <1>4, <1>5, <1>6, <1>7, <1>8 DEF Consumer, SizeFails,
     ReadFails, WriterFails, Abandon

----------------------------------------------------------------------------
(* The theorems.                                                           *)

IInv == PoolInv /\ QueueInv /\ ChannelInv /\ GotInv

LEMMA Inductive == Spec => []IInv
<1>1. Init => IInv
  BY PoolInit, QueueInit, ChannelInit, GotInit DEF IInv
<1>2. IInv /\ [Next]_vars => IInv'
  <2> SUFFICES ASSUME IInv, [Next]_vars PROVE IInv'
    OBVIOUS
  <2>1. PoolInv' /\ QueueInv' /\ ChannelInv'
    BY PoolStep, QueueStep, ChannelStep DEF IInv
  <2>2. GotInv'
    <3>1. CASE Consumer \/ WriterFails
      BY <3>1, GotStep DEF IInv
    <3>2. CASE UNCHANGED consumerVars /\ blocks' = blocks
      BY <3>2 DEF IInv, consumerVars, GotInv, Written, Ends, LastFrom
    <3>3. ASSUME NEW w \in Workers, Work(w)
          PROVE  UNCHANGED consumerVars /\ blocks' = blocks
      BY <3>3, WorkerLocal DEF IInv
    <3>4. QED
      BY <3>1, <3>2, <3>3 DEF Next, vars
  <2>3. QED
    BY <2>1, <2>2 DEF IInv
<1>3. QED
  BY <1>1, <1>2, PTL DEF Spec

\* No worker still owes blocks of a file the writer has passed.
LEMMA PassedIsEmpty ==
    ASSUME IInv, cpc # "failed", NEW f \in Files, Received(f) = blocks[f],
           f < reader.file \/ (f = reader.file /\ cpc \notin {"top_up", "size"})
    PROVE  /\ chunk_ch[f] = <<>>
           /\ f <= Taken
           /\ \A w \in Workers : worker[w].file = f =>
                worker[w].at \notin {"open", "send", "send_error"}
<1> USE DEF IInv, PoolInv
<1>1. ChannelsOf(f)
  BY DEF ChannelInv
<1>2. Len(chunk_ch[f]) = 0 /\ chunk_ch[f] \in Seq(Nat \X Nat)
  BY <1>1, ReceivedType, Facts DEF ChannelsOf, Contents
<1>3. chunk_ch[f] = <<>>
  BY <1>2
<1>4. size_ch[f] = <<"ok">>
  BY <1>1 DEF ChannelsOf, SizeSeen
<1>5. <<"ok">> # <<>>
  OBVIOUS
<1>6. f <= Taken
  BY <1>1, <1>4, <1>5, ReceivedType DEF ChannelsOf, Waiting
<1>7. ASSUME NEW w \in Workers, worker[w].file = f
      PROVE  worker[w].at \notin {"open", "send", "send_error"}
  <2>1. worker[w].at # "open"
    BY <1>1, <1>4, <1>5, <1>7 DEF ChannelsOf, Opened
  <2>2. worker[w].at \in {"send", "send_error"} => worker[w].sent = blocks[f]
    BY <1>1, <1>2, <1>7, ReceivedType DEF ChannelsOf, Opened, Busy
  <2>3. worker[w].at \in {"send", "send_error"} => worker[w].sent < blocks[f]
    BY <1>7 DEF WorkerInv
  <2>4. QED
    BY <2>1, <2>2, <2>3, ReceivedType
<1>8. QED
  BY <1>3, <1>6, <1>7

\* Whatever the consumer and the workers do, in any order and with any
\* failure, every variable keeps its type: block numbers stay within their
\* file, and the reader never counts below zero (parallel.rs, `remaining').
THEOREM TypeCorrect == Spec => []TypeOK
<1>1. PoolInv => TypeOK
  BY DEF PoolInv
<1>2. QED
  BY PoolInit, PoolStep, <1>1, PTL DEF Spec

\* PrefetchPool::finish waits for its threads without receiving anything
\* more: by then every block has been received, no job is left, and no worker
\* is inside a send that would never return.
THEOREM JoinIsSafe == Spec => []JoinFindsAllRead
<1>1. IInv => JoinFindsAllRead
  <2> SUFFICES ASSUME IInv, cpc \in {"join", "done"}
      PROVE  /\ \A f \in Files : chunk_ch[f] = <<>>
             /\ \A w \in Workers : worker[w].at \notin {"open", "send", "send_error"}
             /\ jobs = <<>>
             /\ next_spawn = NFiles
    BY DEF JoinFindsAllRead
  <2> USE DEF IInv, PoolInv, QueueInv
  <2>1. next_spawn = NFiles /\ reader.file = NFiles /\ NFiles \in Nat
    <3>1. /\ reader.file + Len(in_flight) = next_spawn
          /\ Len(in_flight) = n_workers \/ next_spawn = NFiles
          /\ in_flight = <<>>
      BY DEF FlightInv
    <3>2. reader.file \in Nat /\ next_spawn \in Nat /\ NFiles \in Nat
      BY TypeParts, Facts DEF QueueTypes
    <3>3. QED
      BY <3>1, <3>2, WorkersCount
  <2>2. reader.remaining = 0 /\ current = <<>>
    BY DEF ReaderInv
  <2>3. ASSUME NEW f \in Files
        PROVE  /\ chunk_ch[f] = <<>>
               /\ f <= Taken
               /\ \A w \in Workers : worker[w].file = f =>
                    worker[w].at \notin {"open", "send", "send_error"}
    <3>1. f < reader.file \/ f = reader.file
      BY <2>1 DEF Files, NFiles
    <3>2. Received(f) = blocks[f]
      BY <2>2, <3>1, ReceivedType DEF Received
    <3>3. QED
      BY <3>1, <3>2, PassedIsEmpty
  <2>4. ASSUME NEW w \in Workers
        PROVE  worker[w].at \notin {"open", "send", "send_error"}
    <3>1. worker[w].file \in Files \/ worker[w].file = 0
      BY <2>1, Facts DEF Files, NFiles
    <3>2. QED
      BY <2>3, <3>1 DEF WorkerInv
  <2>5. jobs = <<>>
    <3>1. jobs \in Seq(Files) /\ Len(jobs) \in Nat /\ Len(jobs) <= next_spawn
      BY TypeParts DEF QueueTypes, JobsInv
    <3>2. CASE NFiles = 0
      BY <2>1, <3>1, <3>2
    <3>3. CASE NFiles # 0
      <4>1. NFiles \in Files
        BY <2>1, <3>3 DEF Files, NFiles
      <4>2. Len(jobs) = 0
        BY <2>1, <2>3, <3>1, <4>1 DEF Taken
      <4>3. QED
        BY <3>1, <4>2
    <3>4. QED
      BY <3>2, <3>3
  <2>6. QED
    BY <2>1, <2>3, <2>4, <2>5
<1>2. QED
  BY Inductive, <1>1, PTL

LEMMA AtMostOne ==
    ASSUME NEW S, IsFiniteSet(S), \A v, w \in S : v = w
    PROVE  Cardinality(S) \in Nat /\ Cardinality(S) <= 1
<1>1. CASE S = {}
  BY <1>1, FS_EmptySet
<1>2. CASE S # {}
  <2>1. PICK w : S = {w}
    BY <1>2
  <2>2. QED
    BY <2>1, FS_Singleton
<1>3. QED
  BY <1>1, <1>2

\* Memory is bounded by the number of workers, not of files: no file holds
\* more blocks than its channel, its sender and its reader, and no more files
\* than one per worker and the one being written hold any.
THEOREM MemoryIsBounded == Spec => []MemoryBounded
<1>1. IInv => MemoryBounded
  <2> SUFFICES ASSUME IInv, cpc # "failed"
      PROVE  /\ \A f \in Files : Buffered(f) <= CHUNK_DEPTH + 2
             /\ Cardinality({f \in Files : Buffered(f) > 0}) <= n_workers + 1
    BY DEF MemoryBounded
  <2> USE DEF IInv, PoolInv, QueueInv
  <2> DEFINE Senders(f) == {w \in Workers : worker[w].file = f /\ worker[w].at = "send"}
             InHand(f) == IF current # <<>> /\ reader.file = f THEN 1 ELSE 0
  <2>1. ASSUME NEW f \in Files
        PROVE  Cardinality(Senders(f)) \in Nat /\ Cardinality(Senders(f)) <= 1
    <3>1. IsFiniteSet(Senders(f))
      BY PoolAssumption, FS_Subset
    <3>2. \A v, w \in Senders(f) : v = w
      BY ReceivedType DEF JobsInv
    <3>3. QED
      BY <3>1, <3>2, AtMostOne
  <2>2. \A f \in Files : Buffered(f) = Len(chunk_ch[f]) + Cardinality(Senders(f)) + InHand(f)
    BY DEF Buffered
  <2>3. \A f \in Files : Len(chunk_ch[f]) \in Nat /\ Len(chunk_ch[f]) <= CHUNK_DEPTH
    BY ReceivedType DEF ChannelInv, ChannelsOf, Contents
  <2>4. CHUNK_DEPTH \in Nat /\ n_workers \in Nat
    BY PoolAssumption, WorkersCount
  <2>5. \A f \in Files : InHand(f) \in {0, 1}
    OBVIOUS
  <2> HIDE DEF Senders, InHand
  <2>6. \A f \in Files : Buffered(f) <= CHUNK_DEPTH + 2
    BY <2>1, <2>2, <2>3, <2>4, <2>5
  <2>7. /\ reader.file \in Nat /\ next_spawn \in Nat
        /\ next_spawn <= reader.file + n_workers
        /\ reader.file <= next_spawn
        /\ Taken <= next_spawn /\ Taken \in Int
    <3>1. reader.file \in Nat /\ next_spawn \in Nat /\ Len(in_flight) \in Nat
      BY Facts, TypeParts DEF QueueTypes
    <3>2. Len(jobs) \in Nat /\ Len(jobs) <= next_spawn
      BY TypeParts DEF QueueTypes, JobsInv
    <3>3. reader.file + Len(in_flight) = next_spawn /\ Len(in_flight) <= n_workers
      BY DEF FlightInv
    <3>4. Taken = next_spawn - Len(jobs)
      BY DEF Taken
    <3> QED
      BY <2>4, <3>1, <3>2, <3>3, <3>4
  <2>8. ASSUME NEW f \in Files, Buffered(f) > 0
        PROVE  f \in reader.file .. next_spawn
    <3>1. ASSUME Len(chunk_ch[f]) = 0, Senders(f) = {}, reader.file # f
          PROVE  FALSE
      <4>1. Cardinality(Senders(f)) = 0 /\ InHand(f) = 0
        BY <3>1, FS_EmptySet DEF InHand
      <4>2. QED
        BY <2>2, <2>8, <3>1, <4>1
    <3>2. CASE f < reader.file
      <4>1. Received(f) = blocks[f]
        BY <3>2 DEF Received
      <4>2. /\ chunk_ch[f] = <<>>
            /\ \A w \in Workers : worker[w].file = f => worker[w].at # "send"
        BY <3>2, <4>1, PassedIsEmpty
      <4>3. QED
        BY <2>7, <3>1, <3>2, <4>2, ReceivedType DEF Senders
    <3>3. CASE f > next_spawn
      <4>1. chunk_ch[f] = <<>>
        BY <2>7, <3>3, ReceivedType DEF ChannelInv, ChannelsOf, Waiting
      <4>2. \A w \in Workers : worker[w].file # f
        BY <2>7, <3>3, ReceivedType, Facts DEF JobsInv
      <4>3. QED
        BY <2>7, <3>1, <3>3, <4>1, <4>2, ReceivedType DEF Senders
    <3>4. QED
      BY <2>7, <3>2, <3>3, ReceivedType
  <2>9. Cardinality({f \in Files : Buffered(f) > 0}) <= n_workers + 1
    <3> DEFINE Held == {f \in Files : Buffered(f) > 0}
    <3>1. Held \subseteq reader.file .. next_spawn
      BY <2>8
    <3>2. /\ IsFiniteSet(reader.file .. next_spawn)
          /\ Cardinality(reader.file .. next_spawn) = next_spawn - reader.file + 1
      <4>1. reader.file \in Int /\ next_spawn \in Int
        BY <2>7
      <4>2. /\ IsFiniteSet(reader.file .. next_spawn)
            /\ Cardinality(reader.file .. next_spawn) =
                 IF reader.file > next_spawn THEN 0 ELSE next_spawn - reader.file + 1
        BY <4>1, FS_Interval, Zenon
      <4>3. ~(reader.file > next_spawn)
        BY <2>7
      <4>4. QED
        BY <4>2, <4>3
    <3>3. IsFiniteSet(Held) /\ Cardinality(Held) <= Cardinality(reader.file .. next_spawn)
      BY <3>1, <3>2, FS_Subset
    <3>4. Cardinality(Held) \in Nat
      BY <3>3, FS_CardinalityType
    <3> HIDE DEF Held
    <3>5. Cardinality(Held) <= n_workers + 1
      BY <2>4, <2>7, <3>2, <3>3, <3>4
    <3>6. QED
      BY <3>5 DEF Held
  <2>10. QED
    BY <2>6, <2>9
<1>2. QED
  BY Inductive, <1>1, PTL

----------------------------------------------------------------------------
(* Refinement of OrderedRead.                                              *)

LEMMA FirstBehindFile ==
    ASSUME TypeOK, Shapes, NEW g \in Nat, NEW r \in Files, g < r,
           blocks[r] > 0, \A h \in g + 1 .. r - 1 : blocks[h] = 0
    PROVE  Stream!FirstBehind(g) = <<r, 1>>
<1> DEFINE rest == {h \in g + 1 .. Len(blocks) : blocks[h] > 0}
<1>1. Len(blocks) \in Nat /\ r \in Nat /\ r <= Len(blocks)
  BY Facts DEF Files, NFiles
<1>2. r \in rest
  BY <1>1
<1>3. \A h \in rest : h \in Nat /\ h > g /\ (h < r => h \in g + 1 .. r - 1)
  BY <1>1
<1>4. \A h \in rest : r <= h
  BY <1>1, <1>3
<1>5. \A x \in rest : (\A h \in rest : x <= h) => x = r
  BY <1>1, <1>2, <1>3, <1>4
<1>6. (CHOOSE x \in rest : \A h \in rest : x <= h) = r
  <2> HIDE DEF rest
  <2>1. \E x \in rest : \A h \in rest : x <= h
    BY <1>2, <1>4
  <2>2. QED
    BY <1>5, <2>1
<1>7. rest # {}
  BY <1>2
<1>8. QED
  BY <1>6, <1>7 DEF Stream!FirstBehind

LEMMA NothingBehind ==
    ASSUME TypeOK, Shapes, NEW g \in Nat, \A h \in g + 1 .. NFiles : blocks[h] = 0
    PROVE  Stream!FirstBehind(g) = <<>>
BY Facts DEF Stream!FirstBehind, NFiles

\* The block in the reader's hand is the one the abstract stream is at.
LEMMA InHandIsNext ==
    ASSUME IInv, cpc # "failed", current # <<>>
    PROVE  current = Stream!NextBlock
<1> USE DEF IInv, PoolInv
<1>1. /\ current = <<reader.file, Written + 1>>
      /\ cpc = "read" /\ reader.remaining > 0
      /\ got = <<>> => Written = 0 /\ Ends(0)
      /\ got # <<>> => \E g \in 1 .. reader.file : LastFrom(g)
  BY DEF GotInv, ReaderInv
<1>2. reader.file \in Files
  BY <1>1, Facts DEF ReaderInv, Files, NFiles
<1>3. /\ reader.file \in Nat /\ reader.file > 0
      /\ blocks[reader.file] \in Nat /\ reader.remaining \in Nat
  BY <1>2, Facts DEF Files
<1>4. Written = blocks[reader.file] - reader.remaining
  BY <1>1, <1>3 DEF Written
<1>5. Written < blocks[reader.file] /\ Written \in Int
  BY <1>1, <1>3, <1>4
<1>6. CASE got = <<>>
  <2>1. Stream!FirstBehind(0) = <<reader.file, 1>>
    BY <1>1, <1>2, <1>3, <1>5, <1>6, FirstBehindFile DEF Ends
  <2>2. QED
    BY <1>1, <1>6, <2>1 DEF Stream!NextBlock
<1>7. CASE got # <<>>
  <2>1. PICK g \in 1 .. reader.file : LastFrom(g)
    BY <1>1, <1>7
  <2>2. CASE g = reader.file
    <3>1. got[Len(got)] = <<reader.file, Written>>
      BY <1>3, <2>1, <2>2 DEF LastFrom
    <3>2. Stream!NextBlock = <<reader.file, Written + 1>>
      BY <1>5, <1>7, <3>1 DEF Stream!NextBlock
    <3>3. QED
      BY <1>1, <3>2
  <2>3. CASE g < reader.file
    <3>1. got[Len(got)] = <<g, blocks[g]>> /\ Written = 0 /\ Ends(g)
      BY <1>3, <2>1, <2>3 DEF LastFrom
    <3>2. g \in Nat /\ g \in Files
      BY <1>2, <1>3, <2>3 DEF Files
    <3>3. blocks[g] \in Nat
      BY <3>2, Facts
    <3>4. Stream!FirstBehind(g) = <<reader.file, 1>>
      BY <1>2, <1>5, <2>3, <3>1, <3>2, FirstBehindFile DEF Ends
    <3>5. Stream!NextBlock = Stream!FirstBehind(g)
      BY <1>7, <3>1, <3>3 DEF Stream!NextBlock
    <3>6. QED
      BY <1>1, <3>1, <3>4, <3>5
  <2>4. QED
    BY <1>3, <2>2, <2>3
<1>8. QED
  BY <1>6, <1>7

\* When every file has been written, the stream is at its end.
LEMMA NoneIsNext ==
    ASSUME IInv, cpc = "join"
    PROVE  Stream!NextBlock = <<>>
<1> USE DEF IInv, PoolInv, QueueInv
<1>1. /\ got = <<>> => Written = 0 /\ Ends(0)
      /\ got # <<>> => \E g \in 1 .. reader.file : LastFrom(g)
  BY DEF GotInv
<1>2. next_spawn = NFiles /\ reader.file = NFiles /\ NFiles \in Nat
  <2>1. /\ reader.file + Len(in_flight) = next_spawn
        /\ Len(in_flight) = n_workers \/ next_spawn = NFiles
        /\ in_flight = <<>>
    BY DEF FlightInv
  <2>2. reader.file \in Nat /\ next_spawn \in Nat /\ NFiles \in Nat
    BY TypeParts, Facts DEF QueueTypes
  <2>3. QED
    BY <2>1, <2>2, WorkersCount
<1>3. NFiles > 0 => NFiles \in Files /\ blocks[NFiles] \in Nat
  BY <1>2, Facts DEF Files, NFiles
<1>4. Written = IF NFiles = 0 THEN 0 ELSE blocks[NFiles]
  BY <1>2, <1>3 DEF Written, ReaderInv
<1>5. CASE got = <<>>
  <2>1. \A h \in 0 + 1 .. NFiles : blocks[h] = 0
    BY <1>1, <1>2, <1>4, <1>5 DEF Ends
  <2>2. Stream!FirstBehind(0) = <<>>
    BY <2>1, NothingBehind
  <2>3. QED
    BY <1>5, <2>2 DEF Stream!NextBlock
<1>6. CASE got # <<>>
  <2>1. PICK g \in 1 .. reader.file : LastFrom(g)
    BY <1>1, <1>6
  <2>2. g \in Nat /\ g > 0 /\ g <= NFiles /\ NFiles > 0
    BY <1>2
  <2>3. got[Len(got)] = <<g, blocks[g]>>
    BY <1>2, <1>4, <2>1, <2>2 DEF LastFrom
  <2>4. \A h \in g + 1 .. NFiles : blocks[h] = 0
    BY <1>2, <1>4, <2>1, <2>2 DEF LastFrom, Ends
  <2>5. Stream!FirstBehind(g) = <<>>
    BY <2>2, <2>4, NothingBehind
  <2>6. blocks[g] \in Nat
    BY <2>2, Facts DEF Files, NFiles
  <2>7. QED
    BY <1>6, <2>3, <2>5, <2>6 DEF Stream!NextBlock
<1>7. QED
  BY <1>5, <1>6

LEMMA StreamStep ==
    ASSUME IInv, [Next]_vars
    PROVE  [Stream!Next]_<<blocks, got, (IF cpc \in {"done", "failed"} THEN cpc ELSE "open")>>
<1>1. CASE WriteBlock
  <2>1. /\ cpc = "read" /\ cpc' = "read" /\ blocks' = blocks
        /\ current # <<>> /\ got' = Append(got, current)
    BY <1>1 DEF WriteBlock
  <2>2. current = Stream!NextBlock
    BY <2>1, InHandIsNext
  <2>3. Stream!Read
    BY <2>1, <2>2 DEF Stream!Read
  <2>4. QED
    BY <2>3 DEF Stream!Next
<1>2. CASE Joined
  <2>1. /\ cpc = "join" /\ cpc' = "done"
        /\ UNCHANGED <<blocks, got>>
    BY <1>2 DEF Joined
  <2>2. Stream!End
    BY <2>1, NoneIsNext DEF Stream!End
  <2>3. QED
    BY <2>2 DEF Stream!Next
<1>3. CASE SizeFails \/ ReadFails \/ WriterFails
  <2>1. /\ cpc \in {"size", "read", "next"} /\ cpc' = "failed"
        /\ UNCHANGED <<blocks, got>>
    BY <1>3 DEF SizeFails, ReadFails, WriterFails, Abandon
  <2>2. Stream!Fail
    BY <2>1 DEF Stream!Fail
  <2>3. QED
    BY <2>2 DEF Stream!Next
<1>4. CASE \/ Spawn \/ ToppedUp \/ PopFront \/ ReceiveSize \/ ReceiveBlock
           \/ ReaderDrained \/ Finish
  BY <1>4 DEF Spawn, ToppedUp, PopFront, ReceiveSize, ReceiveBlock,
     ReaderDrained, Finish
<1>5. ASSUME NEW w \in Workers, Work(w)
      PROVE  UNCHANGED <<blocks, got, cpc>>
  BY <1>5, WorkerLocal DEF IInv, consumerVars
<1>6. CASE UNCHANGED vars
  BY <1>6 DEF vars, consumerVars
<1>7. QED
  BY <1>1, <1>2, <1>3, <1>4, <1>5, <1>6 DEF Next, Consumer

\* To the writer the pool is one thread reading file after file: the blocks
\* come in queue order, none twice and none left out, and the pool only
\* reports the end after the last (PrefetchPool::next, ContentReader::read).
THEOREM PoolImplementsOrderedRead == Spec => ReadsInOrder
<1>1. Init => Stream!Init
  BY DEF Init, Stream!Init
<1>2. QED
  BY <1>1, Inductive, StreamStep, PTL DEF Spec, ReadsInOrder, Stream!Spec
=============================================================================
