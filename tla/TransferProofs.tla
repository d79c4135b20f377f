---------------------------- MODULE TransferProofs ----------------------------
(***************************************************************************)
(* What the way from source to target promises for every change list,      *)
(* limit and header size, and for everything the medium may do.  The       *)
(* invariant has three groups of layers: the order of the records that     *)
(* leave the source (OrderInv, over the layers of SplitDiffProofs); what   *)
(* reached the target and how far it is read (ArrivalInv, ParsedInv); and  *)
(* what the reader holds (AccountInv, ContentInv).                         *)
(***************************************************************************)
EXTENDS Transfer, SplitDiffProofs, SequenceTheorems, WellFoundedInduction

----------------------------------------------------------------------------
(* Layer 1.  What the order of the stream means for a reader that meets    *)
(* one record at a time.                                                   *)

EndOf(p) == At(p).from + At(p).len
HasContent(i) == i \in 1 .. Len(changes) /\ changes[i].has_content
Ends(p, i) == IsContent(p) /\ At(p).change = i /\ EndOf(p) = changes[i].size

\* The DiffChange records of a chunk are numbered without a gap.
Numbered ==
    \A p \in Places :
        ~IsContent(p) => /\ At(p).change > 0
                         /\ At(p).change = At(<<p[1], 1>>).change + p[2] - 1

\* What stands before a FileContent record, and what it may be.
FollowsAll(q) ==
    /\ EndOf(q) <= changes[At(q).change].size
    /\ At(q).len > 0 \/ (At(q).from = 0 /\ changes[At(q).change].size = 0)
    /\ At(q).from = 0 =>
         \A p \in Places : IsContent(p) /\ Before(p, q) => At(p).change < At(q).change
    /\ \A i \in 1 .. At(q).change - 1 :
         HasContent(i) => \E p \in Places : Before(p, q) /\ Ends(p, i)

Sequenced ==
    \A q \in Places :
        IsContent(q) => HasContent(At(q).change) /\ (Drift = {0} => FollowsAll(q))

OrderInv == Numbered /\ Sequenced

LEMMA Trichotomy ==
    ASSUME TypeOK, NEW p \in Places, NEW q \in Places
    PROVE  p = q \/ Before(p, q) \/ Before(q, p)
  <1>1. PICK k \in 1 .. Len(files) + 1 : \E r \in 1 .. Len(Records(k)) : p = <<k, r>>
    BY PlacesDef
  <1>2. PICK r \in 1 .. Len(Records(k)) : p = <<k, r>>
    BY <1>1
  <1>3. PICK l \in 1 .. Len(files) + 1 : \E s \in 1 .. Len(Records(l)) : q = <<l, s>>
    BY PlacesDef
  <1>4. PICK s \in 1 .. Len(Records(l)) : q = <<l, s>>
    BY <1>3
  <1> QED
    BY <1>2, <1>4 DEF Before

\* The places of a chunk, one by one.
LEMMA PlaceParts ==
    ASSUME TypeOK, NEW p \in Places
    PROVE  /\ p = <<p[1], p[2]>>
           /\ p[1] \in 1 .. chunk_number
           /\ p[2] \in 1 .. Len(Records(p[1]))
           /\ At(p) = Records(p[1])[p[2]]
           /\ \A r \in 1 .. Len(Records(p[1])) : <<p[1], r>> \in Places
  <1>1. PICK k \in 1 .. Len(files) + 1 : \E r \in 1 .. Len(Records(k)) : p = <<k, r>>
    BY PlacesDef
  <1>2. PICK r \in 1 .. Len(Records(k)) : p = <<k, r>>
    BY <1>1
  <1>3. \A s \in 1 .. Len(Records(k)) : <<k, s>> \in Places
    BY PlacesDef
  <1> QED
    BY <1>2, <1>3 DEF At, chunk_number

LEMMA ChunkRecords ==
    ASSUME TypeOK, NEW k \in 1 .. chunk_number
    PROVE  /\ Records(k) \in Seq(Record)
           /\ \A r \in 1 .. Len(Records(k)) : <<k, r>> \in Places
  <1>1. \A r \in 1 .. Len(Records(k)) : <<k, r>> \in Places
    BY PlacesDef DEF chunk_number
  <1>2. CASE k <= Len(files)
    <2>1. files[k] \in ChunkFile
      BY <1>2 DEF TypeOK
    <2> QED
      BY <1>1, <1>2, <2>1 DEF Records, ChunkFile
  <1>3. CASE ~(k <= Len(files))
    BY <1>1, <1>3 DEF Records, TypeOK
  <1> QED
    BY <1>2, <1>3

LEMMA KeptOrder ==
    ASSUME TypeOK, OrderInv, Kept, UNCHANGED changes
    PROVE  OrderInv'
  <1>1. /\ Places' = Places
        /\ \A p \in Places : At(p)' = At(p) /\ (IsContent(p)' <=> IsContent(p))
    BY DEF Kept, IsContent
  <1>2. \A p, q : Before(p, q)' <=> Before(p, q)
    BY DEF Before
  <1>3. \A i : HasContent(i)' <=> HasContent(i)
    BY DEF HasContent
  <1>4. Numbered'
    <2>1. ASSUME NEW p \in Places PROVE <<p[1], 1>> \in Places
      <3>1. p[2] \in 1 .. Len(Records(p[1])) /\ Records(p[1]) \in Seq(Record)
        BY PlaceParts, ChunkRecords
      <3>2. 1 \in 1 .. Len(Records(p[1]))
        BY <3>1
      <3> QED
        BY <3>2, PlaceParts
    <2> QED
      BY <1>1, <2>1 DEF Numbered, OrderInv
  <1>5. \A p \in Places : EndOf(p)' = EndOf(p)
    BY <1>1 DEF EndOf
  <1>6. \A p \in Places : \A i : Ends(p, i)' <=> Ends(p, i)
    BY <1>1, <1>5 DEF Ends
  <1>7. \A q \in Places : FollowsAll(q) => FollowsAll(q)'
    BY <1>1, <1>2, <1>3, <1>5, <1>6 DEF FollowsAll
  <1>8. Sequenced'
    BY <1>1, <1>3, <1>7 DEF Sequenced, OrderInv
  <1> QED
    BY <1>4, <1>8 DEF OrderInv

\* The next DiffChange record carries on the numbers of its chunk.
LEMMA MetadataNumbered ==
    ASSUME LoopInv, StreamInv, OrderInv, AddsMetadata
    PROVE  OrderInv'
  <1> DEFINE added == DiffChangeRecord(dc_cursor + 1)
  <1> PICK k, last : k = chunk_number /\ last = <<k, Len(cur)>>
    OBVIOUS
  <1> TypeOK
    BY DEF LoopInv
  <1>1. /\ \A p \in Places : At(p)' = At(p) /\ ~IsContent(p)
        /\ \A p : p \in Places' <=> p \in Places \/ p = NextPlace
        /\ \A p : p = NextPlace => At(p)' = added
    BY DEF AddsMetadata, Grew, StreamInv, StreamCursors
  <1>2. added.type = "DiffChange" /\ added.change = dc_cursor + 1
    BY DEF DiffChangeRecord
  <1>3. \A p \in Places' : ~IsContent(p)'
    BY <1>1, <1>2 DEF IsContent
  <1>4. /\ k \in 1 .. chunk_number /\ k \in Nat /\ Records(k) = cur
        /\ Len(cur) \in Nat /\ cur \in Seq(Record)
    BY DEF TypeOK, chunk_number, Records
  <1> HIDE DEF added
  <1>5. ASSUME Len(cur) > 0
        PROVE  /\ <<k, 1>> \in Places
               /\ dc_cursor = At(<<k, 1>>).change + Len(cur) - 1
    <2>1. <<k, 1>> \in Places /\ last \in Places
      BY <1>4, <1>5, ChunkRecords
    <2>2. /\ At(last).type = "DiffChange" /\ At(last).change \in 0 .. dc_cursor
      <3>1. At(last) \in Record /\ At(last).change <= dc_cursor /\ ~IsContent(last)
        BY <1>1, <2>1, PlaceTypes DEF StreamInv, StreamCursors
      <3> QED
        BY <3>1 DEF Record, RecordType, IsContent, TypeOK
    <2>3. At(last).change >= dc_cursor
      <3>1. SUFFICES ASSUME At(last).change < dc_cursor PROVE FALSE
        BY <2>2 DEF TypeOK
      <3>2. dc_cursor \in 1 .. dc_cursor
        BY <2>2, <3>1 DEF TypeOK
      <3>3. PICK p \in Places : At(p) = DiffChangeRecord(dc_cursor)
        BY <3>2 DEF StreamInv, StreamCovers
      <3>4. At(p).change = dc_cursor /\ At(p).type = "DiffChange"
        BY <3>3 DEF DiffChangeRecord
      <3>5. ~Before(last, p)
        <4>1. p[1] \in 1 .. k /\ p[2] \in 1 .. Len(Records(p[1]))
          BY PlaceParts
        <4>2. p[1] = k => p[2] <= Len(cur)
          BY <1>4, <4>1
        <4> QED
          BY <1>4, <4>1, <4>2 DEF Before
      <3>6. Before(p, last)
        BY <2>1, <2>2, <3>1, <3>4, <3>5, Trichotomy
      <3>7. At(p).change < At(last).change
        <4>1. At(p).type = At(last).type /\ ~IsContent(p)
          BY <2>2, <3>4, <1>1
        <4> QED
          BY <2>1, <3>6, <4>1 DEF StreamInv, StreamOK, StreamOrdered
      <3> QED
        BY <2>2, <3>1, <3>4, <3>7 DEF TypeOK
    <2>4. At(last).change = At(<<k, 1>>).change + Len(cur) - 1
      BY <1>1, <2>1 DEF OrderInv, Numbered
    <2> QED
      BY <2>1, <2>2, <2>3, <2>4 DEF TypeOK
  <1>6. Numbered'
    <2> SUFFICES ASSUME NEW p \in Places'
                 PROVE  /\ At(p)'.change > 0
                        /\ At(p)'.change = At(<<p[1], 1>>)'.change + p[2] - 1
      BY DEF Numbered
    <2>1. CASE p \in Places
      <3>1. p[2] \in 1 .. Len(Records(p[1])) /\ Records(p[1]) \in Seq(Record)
        BY <2>1, PlaceParts, ChunkRecords
      <3>2. <<p[1], 1>> \in Places
        BY <2>1, <3>1, PlaceParts
      <3> QED
        BY <1>1, <2>1, <3>2 DEF OrderInv, Numbered
    <2>2. CASE p = NextPlace
      <3>1. p = <<k, Len(cur) + 1>> /\ At(p)' = added
        BY <1>1, <2>2 DEF NextPlace
      <3>2. CASE Len(cur) = 0
        <4>1. p = <<k, 1>> /\ p[1] = k /\ p[2] = 1
          BY <3>1, <3>2
        <4>2. dc_cursor + 1 = dc_cursor + 1 + 1 - 1 /\ dc_cursor + 1 > 0
          BY DEF TypeOK
        <4> QED
          BY <1>2, <3>1, <4>1, <4>2
      <3>3. CASE Len(cur) > 0
        <4>1. At(<<k, 1>>)' = At(<<k, 1>>) /\ p[1] = k /\ p[2] = Len(cur) + 1
          BY <1>1, <1>5, <3>1, <3>3
        <4>2. At(<<k, 1>>) \in Record
          BY <1>5, <3>3, PlaceTypes
        <4>3. At(<<k, 1>>).change \in Nat
          BY <4>2 DEF Record
        <4>4. dc_cursor = At(<<k, 1>>).change + Len(cur) - 1
          BY <1>5, <3>3
        <4>5. /\ dc_cursor + 1 = At(<<k, 1>>).change + (Len(cur) + 1) - 1
              /\ dc_cursor + 1 > 0
          <5>1. Len(cur) \in Nat
            BY <1>4
          <5> QED
            BY <3>3, <4>3, <4>4, <5>1
        <4> QED
          BY <1>2, <3>1, <4>1, <4>5
      <3> QED
        BY <1>4, <3>2, <3>3
    <2> QED
      BY <1>1, <2>1, <2>2
  <1>7. Sequenced'
    BY <1>3 DEF Sequenced
  <1> QED
    BY <1>6, <1>7 DEF OrderInv

\* The next FileContent record: every file before it is out to its end.
LEMMA ContentSequenced ==
    ASSUME LoopInv, StreamInv, OrderInv, NEW n \in Nat, NEW left \in Nat,
           AddsContent(n, left)
    PROVE  OrderInv'
  <1> DEFINE added == ContentRecord(fc_cursor + 1, sent, n)
  <1> PICK last : last = NextPlace
    OBVIOUS
  <1> TypeOK
    BY DEF LoopInv
  <1>1. /\ \A p \in Places : /\ At(p)' = At(p) /\ (IsContent(p)' <=> IsContent(p))
                             /\ Before(p, last) /\ ~Before(last, p)
        /\ \A p : p \in Places' <=> p \in Places \/ p = last
        /\ At(last)' = added
        /\ ~Before(last, last)
    BY DEF AddsContent, Grew, IsContent
  <1>2. /\ added.type = "FileContent" /\ added.change = fc_cursor + 1
        /\ added.from = sent /\ added.len = n
    BY DEF ContentRecord
  <1>3. IsContent(last)'
    BY <1>1, <1>2 DEF IsContent
  <1>4. /\ fc_cursor \in Nat /\ sent \in Nat /\ partial \in Nat /\ Len(changes) \in Nat
        /\ (partial > 0 <=> sent > 0) /\ fc_cursor < Len(changes)
        /\ changes' = changes /\ changes[fc_cursor + 1].has_content
        /\ n = 0 => sent = 0 /\ left = 0
        /\ Drift = {0} => sent + n + left = changes[fc_cursor + 1].size
    BY DEF AddsContent, LoopInv, TypeOK, CursorInv
  <1> HIDE DEF added
  <1>5. \A p, q : Before(p, q)' <=> Before(p, q)
    BY DEF Before
  <1>6. \A i : HasContent(i)' <=> HasContent(i)
    BY <1>4 DEF HasContent
  <1>7. /\ \A p \in Places : EndOf(p)' = EndOf(p)
        /\ EndOf(last)' = sent + n
    BY <1>1, <1>2 DEF EndOf
  <1>8. \A p \in Places : \A i : Ends(p, i)' <=> Ends(p, i)
    BY <1>1, <1>4, <1>7 DEF Ends
  <1>9. Numbered'
    <2> SUFFICES ASSUME NEW p \in Places', ~IsContent(p)'
                 PROVE  /\ At(p)'.change > 0
                        /\ At(p)'.change = At(<<p[1], 1>>)'.change + p[2] - 1
      BY DEF Numbered
    <2>1. p \in Places /\ ~IsContent(p)
      BY <1>1, <1>3
    <2>2. p[2] \in 1 .. Len(Records(p[1])) /\ Records(p[1]) \in Seq(Record)
      BY <2>1, PlaceParts, ChunkRecords
    <2>3. <<p[1], 1>> \in Places
      BY <2>1, <2>2, PlaceParts
    <2> QED
      BY <1>1, <2>1, <2>3 DEF OrderInv, Numbered
  <1>10. ASSUME NEW q \in Places, IsContent(q), FollowsAll(q)
         PROVE  FollowsAll(q)'
    <2>1. EndOf(q)' <= changes'[At(q)'.change].size
      BY <1>1, <1>4, <1>7, <1>10 DEF FollowsAll
    <2>2. At(q)'.len > 0 \/ (At(q)'.from = 0 /\ changes'[At(q)'.change].size = 0)
      BY <1>1, <1>4, <1>10 DEF FollowsAll
    <2>3. At(q)'.from = 0 =>
            \A p \in Places' : IsContent(p)' /\ Before(p, q)'
              => At(p)'.change < At(q)'.change
      BY <1>1, <1>5, <1>10 DEF FollowsAll
    <2>4. \A i \in 1 .. At(q)'.change - 1 :
            HasContent(i)' => \E p \in Places' : Before(p, q)' /\ Ends(p, i)'
      BY <1>1, <1>5, <1>6, <1>8, <1>10 DEF FollowsAll
    <2> QED
      BY <2>1, <2>2, <2>3, <2>4 DEF FollowsAll
  <1>11. ASSUME Drift = {0} PROVE FollowsAll(last)'
    <2>1. EndOf(last)' <= changes'[At(last)'.change].size
      BY <1>1, <1>2, <1>4, <1>7, <1>11
    <2>2. At(last)'.len > 0 \/ (At(last)'.from = 0 /\ changes'[At(last)'.change].size = 0)
      BY <1>1, <1>2, <1>4, <1>11
    <2>3. ASSUME At(last)'.from = 0, NEW p \in Places', IsContent(p)', Before(p, last)'
          PROVE  At(p)'.change < At(last)'.change
      <3>1. p \in Places /\ sent = 0 /\ At(p).change \in Nat
        <4>1. p \in Places
          BY <1>1, <1>5, <2>3
        <4>2. At(p) \in Record
          BY <4>1, PlaceTypes
        <4> QED
          BY <1>1, <1>2, <2>3, <4>1, <4>2 DEF Record
      <3>2. At(p).change <= fc_cursor
        BY <1>1, <1>4, <2>3, <3>1 DEF StreamInv, StreamCursors
      <3> QED
        BY <1>1, <1>2, <1>4, <3>1, <3>2
    <2>4. ASSUME NEW i \in 1 .. At(last)'.change - 1, HasContent(i)'
          PROVE  \E p \in Places' : Before(p, last)' /\ Ends(p, i)'
      <3>1. i \in 1 .. fc_cursor /\ changes[i].has_content
        BY <1>1, <1>2, <1>4, <1>6, <2>4 DEF HasContent
      <3>2. PICK p \in Places : Ends(p, i)
        BY <1>11, <3>1 DEF StreamInv, StreamCovers, Ends, EndOf
      <3> QED
        BY <1>1, <1>5, <1>8, <3>2
    <2> QED
      BY <2>1, <2>2, <2>3, <2>4 DEF FollowsAll
  <1>12. Sequenced'
    <2> SUFFICES ASSUME NEW q \in Places', IsContent(q)'
                 PROVE  HasContent(At(q).change)' /\ (Drift = {0} => FollowsAll(q)')
      BY DEF Sequenced
    <2>1. CASE q \in Places
      <3>1. HasContent(At(q).change) /\ IsContent(q) /\ (Drift = {0} => FollowsAll(q))
        BY <1>1, <2>1 DEF OrderInv, Sequenced
      <3>2. HasContent(At(q).change)'
        BY <1>1, <1>4, <2>1, <3>1 DEF HasContent
      <3> QED
        BY <1>10, <2>1, <3>1, <3>2
    <2>2. CASE q = last
      <3>1. HasContent(At(q).change)'
        BY <1>1, <1>2, <1>4, <2>2 DEF HasContent
      <3> QED
        BY <1>1, <1>2, <1>11, <2>2, <3>1
    <2> QED
      BY <1>1, <2>1, <2>2
  <1> QED
    BY <1>9, <1>12 DEF OrderInv

LEMMA OrderStep ==
    LoopInv /\ StreamInv /\ OrderInv /\ [Next]_vars => OrderInv'
  <1> SUFFICES ASSUME LoopInv, StreamInv, OrderInv, [Next]_vars PROVE OrderInv'
    OBVIOUS
  <1>1. CASE Stands \/ SkipsChange
    BY <1>1, KeptOrder DEF Stands, SkipsChange, LoopInv
  <1>2. CASE AddsMetadata
    BY <1>2, MetadataNumbered
  <1>3. ASSUME NEW n \in Nat, NEW left \in Nat, AddsContent(n, left) PROVE OrderInv'
    BY <1>3, ContentSequenced
  <1> QED
    BY <1>1, <1>2, <1>3, StreamMoves DEF StreamMove

LEMMA NoPlaces ==
    ASSUME Init
    PROVE  Places = {}
  <1>1. TypeOK /\ files = <<>> /\ cur = <<>>
    BY LoopInit DEF Init, LoopInv
  <1>2. ASSUME NEW p \in Places PROVE FALSE
    <2>1. PICK k \in 1 .. Len(files) + 1 : \E r \in 1 .. Len(Records(k)) : p = <<k, r>>
      BY <1>1, <1>2, PlacesDef
    <2>2. Records(k) = <<>>
      BY <1>1, <2>1 DEF Records
    <2>3. 1 .. Len(<<>>) = {}
      OBVIOUS
    <2> QED
      BY <2>1, <2>2, <2>3
  <1> QED
    BY <1>2

LEMMA OrderInit == Init => OrderInv
  BY NoPlaces DEF OrderInv, Numbered, Sequenced

----------------------------------------------------------------------------
(* Layer 2.  What reached the target, and how far it is read.              *)

Below == {pair \in Nat \X Nat : pair[1] < pair[2]}

LEMMA BelowIsWellFounded == IsWellFoundedOn(Below, Nat)
  <1>1. OpToRel(<, Nat) = Below
    BY Zenon DEF OpToRel, Below
  <1>2. IsWellFoundedOn(OpToRel(<, Nat), Nat)
    BY NatLessThanWellFounded, Zenon
  <1> QED
    BY <1>1, <1>2, Zenon

\* The least-number principle, for sets of numbers.
LEMMA HasLeast ==
    ASSUME NEW S, S \subseteq Nat, S # {}
    PROVE  \E m \in S : \A n \in S : m <= n
  <1>1. PICK m \in S : \A n \in S : ~(<<n, m>> \in Below)
    BY BelowIsWellFounded, WFMin, Zenon
  <1>2. \A n \in S : ~(n < m)
    BY <1>1 DEF Below
  <1> QED
    BY <1>2

SentInv == LoopInv /\ StreamInv /\ OrderInv

Untouched ==
    /\ diff_files = 0 /\ parsed = <<>> /\ at = <<1, 1>>
    /\ queue = <<>> /\ active = <<>> /\ persisted = <<>>

\* A chunk file at the target is the beginning of the k-th one written.
Cut(chunk, k) ==
    \E n \in 0 .. Len(Records(k)), torn \in Ending :
        /\ chunk = Beginning(Records(k), n, torn)
        /\ torn = "eor" => n = Len(Records(k))

Rpcs == {"carry", "detect", "parse", "stream", "ok", "error"}

ArrivalInv ==
    /\ rpc \in Rpcs
    /\ rpc = "carry" => arrived = <<>>
    /\ rpc \in {"carry", "detect"} => Untouched
    /\ rpc # "carry" => pc \in {"done", "failed"}
    /\ Len(arrived) \in 0 .. chunk_number
    /\ \A k \in 1 .. Len(arrived) : arrived[k] = Missing \/ Cut(arrived[k], k)
    /\ diff_files \in 0 .. Len(arrived)
    /\ \A k \in 1 .. diff_files : Cut(arrived[k], k)

\* Where parsing and streaming stand: what is behind was read to its end.
PositionInv ==
    /\ at = <<at[1], at[2]>>
    /\ at[1] \in 1 .. diff_files + 1
    /\ at[2] \in Nat \ {0}
    /\ at[1] <= diff_files => at[2] <= Len(chunkRead.records) + 1
    /\ at[1] > diff_files => at[2] = 1
    /\ rpc = "parse" =>
         at[2] = 1 /\ queue = <<>> /\ active = <<>> /\ persisted = <<>>
    /\ rpc \in {"stream", "ok"} => \A k \in 1 .. at[1] - 1 : arrived[k].torn = "eor"
    /\ rpc = "ok" => at[1] > diff_files

\* Every way the reading side gives up.
GivesUp ==
    /\ rpc \in {"detect", "parse", "stream"} /\ rpc' = "error"
    /\ parsed' = IF rpc = "parse" THEN <<>> ELSE parsed
    /\ UNCHANGED <<vars, arrived, diff_files, at, queue, active, persisted>>

LEMMA ReadSteps ==
    ASSUME [TransferNext]_transferVars
    PROVE  \/ WriteStep \/ Carry \/ Detect \/ GivesUp \/ ParseChunk \/ ParseEnds
           \/ ReadDiffChange \/ ReadContent \/ NextChunk \/ EndOk
           \/ UNCHANGED transferVars
  <1>1. DetectFails \/ ParseFails \/ StreamFails \/ EndUnresolved \/ IoError => GivesUp
    BY DEF DetectFails, ParseFails, StreamFails, EndUnresolved, IoError, Fail,
           FailParsing, Parsing, Streaming, GivesUp
  <1> QED
    BY <1>1 DEF TransferNext, Read

\* The writer has come to rest when the medium takes over.
LEMMA WriterRests ==
    ASSUME pc \in {"done", "failed"}
    PROVE  ~WriteStep
  BY DEF WriteStep, Next, Write, NoPartial, DrainLast, DrainAndRoll, WriteDiffChange,
         MetadataEnds, SkipContentless, WriteContent, ContentEnds, RollChunk, Finish,
         Abort

LEMMA ArrivalKept ==
    ASSUME ArrivalInv, UNCHANGED <<vars, arrived>>, rpc # "carry",
           rpc' \in Rpcs \ {"carry", "detect"},
           \/ UNCHANGED diff_files
           \/ diff_files' \in 0 .. Len(arrived) /\ \A k \in 1 .. diff_files' : Cut(arrived[k], k)
    PROVE  ArrivalInv'
  <1>1. \A k : Cut(arrived[k], k)' <=> Cut(arrived[k], k)
    BY DEF vars, Cut, Records, Beginning
  <1> QED
    BY <1>1 DEF ArrivalInv, vars, chunk_number, Missing

LEMMA ArrivalInit == TransferInit => ArrivalInv /\ PositionInv
  <1> SUFFICES ASSUME TransferInit PROVE ArrivalInv /\ PositionInv
    OBVIOUS
  <1>1. Len(files) = 0 /\ Len(<<>>) = 0
    BY DEF TransferInit, Init
  <1> QED
    BY <1>1 DEF TransferInit, ArrivalInv, PositionInv, Untouched, Rpcs, chunk_number

LEMMA TruncationIsCut ==
    ASSUME TypeOK, NEW k \in 1 .. chunk_number, NEW t \in Truncations(Records(k))
    PROVE  Cut(t, k)
  <1>1. Len(Records(k)) \in Nat
    BY ChunkRecords
  <1>2. \E n \in 0 .. Len(Records(k)), torn \in {"header", "payload"} :
          t = Beginning(Records(k), n, torn)
    BY <1>1 DEF Truncations
  <1> QED
    BY <1>2 DEF Cut, Ending

LEMMA WrittenIsCut ==
    ASSUME TypeOK, NEW written \in Written
    PROVE  /\ Len(written) \in 0 .. chunk_number
           /\ \E S : written \in Seq(S)
           /\ \A k \in 1 .. Len(written) : Cut(written[k], k)
  <1> DEFINE finished == [j \in 1 .. Len(files) |-> Intact(files[j].records)]
  <1>1. Len(files) \in Nat /\ chunk_number = Len(files) + 1
    BY DEF TypeOK, chunk_number
  <1>2. Len(finished) = Len(files) /\ finished \in Seq({finished[i] : i \in 1 .. Len(files)})
    BY <1>1
  <1>3. ASSUME NEW j \in 1 .. Len(files) PROVE Cut(finished[j], j)
    <2>1. Records(j) = files[j].records /\ j \in 1 .. chunk_number
      BY <1>1, <1>3 DEF Records
    <2>2. Records(j) \in Seq(Record)
      BY <2>1, ChunkRecords
    <2>3. Len(Records(j)) \in 0 .. Len(Records(j))
      BY <2>2
    <2>4. finished[j] = Beginning(Records(j), Len(Records(j)), "eor")
      BY <1>3, <2>1 DEF Intact
    <2> HIDE DEF finished
    <2> QED
      BY <2>3, <2>4 DEF Cut, Ending
  <1>4. CASE written = finished
    <2> HIDE DEF finished
    <2> QED
      BY <1>1, <1>2, <1>3, <1>4
  <1>5. ASSUME NEW t \in Truncations(cur), written = Append(finished, t)
        PROVE  /\ Len(written) \in 0 .. chunk_number
               /\ \E S : written \in Seq(S)
               /\ \A k \in 1 .. Len(written) : Cut(written[k], k)
    <2> DEFINE T == {finished[i] : i \in 1 .. Len(files)} \cup {t}
    <2>1. finished \in Seq(T)
      BY <1>1
    <2>2. t \in T
      OBVIOUS
    <2> HIDE DEF finished, T
    <2>3. /\ Len(written) = Len(files) + 1
          /\ written \in Seq(T)
          /\ \A j \in 1 .. Len(files) : written[j] = finished[j]
          /\ written[Len(files) + 1] = t
      BY <1>2, <1>5, <2>1, <2>2
    <2>4. \A k : k = Len(files) + 1 => Cut(t, k)
      <3>1. \A k : k = Len(files) + 1 => Records(k) = cur /\ k \in 1 .. chunk_number
        BY <1>1 DEF Records
      <3> QED
        BY <1>5, <3>1, TruncationIsCut
    <2> QED
      BY <1>1, <1>3, <2>3, <2>4
  <1> QED
    BY <1>4, <1>5 DEF Written

LEMMA FirstMissingFound ==
    ASSUME ArrivalInv, TypeOK
    PROVE  /\ FirstMissing \in 1 .. Len(arrived) + 1
           /\ ~Exists(FirstMissing)
           /\ \A j \in 1 .. FirstMissing - 1 : Exists(j)
  <1> DEFINE S == {k \in 1 .. Len(arrived) + 1 : ~Exists(k)}
  <1>1. Len(arrived) \in Nat
    BY DEF ArrivalInv, chunk_number, TypeOK
  <1>2. Len(arrived) + 1 \in S /\ S \subseteq Nat
    BY <1>1 DEF Exists
  <1>3. PICK m \in S : \A n \in S : m <= n
    <2> HIDE DEF S
    <2> QED
      BY <1>2, HasLeast
  <1>4. m \in 1 .. Len(arrived) + 1 /\ ~Exists(m) /\ \A j \in 1 .. m - 1 : Exists(j)
    BY <1>1, <1>3
  <1> QED
    BY <1>4 DEF FirstMissing

LEMMA ArrivalStep ==
    SentInv /\ ArrivalInv /\ [TransferNext]_transferVars => ArrivalInv'
  <1> SUFFICES ASSUME SentInv, ArrivalInv, [TransferNext]_transferVars
               PROVE  ArrivalInv'
    OBVIOUS
  <1> TypeOK
    BY DEF SentInv, LoopInv
  <1>1. CASE WriteStep
    <2>1. rpc = "carry"
      BY <1>1, WriterRests DEF ArrivalInv
    <2>2. LoopInv'
      BY <1>1, LoopStep DEF WriteStep, SentInv
    <2>3. Len(files') \in Nat /\ Len(<<>>) = 0
      BY <2>2 DEF LoopInv, TypeOK
    <2> QED
      BY <1>1, <2>1, <2>3 DEF WriteStep, readerVars, ArrivalInv, Untouched, Rpcs,
                              chunk_number
  <1>2. CASE Carry
    <2>1. /\ UNCHANGED vars /\ rpc' = "detect" /\ pc \in {"done", "failed"}
          /\ Untouched /\ Untouched'
      BY <1>2 DEF Carry, ArrivalInv, Untouched
    <2>2. PICK written \in Written :
            \/ arrived' = written
            \/ \E lost \in SUBSET (1 .. Len(written)) :
                 arrived' = [k \in 1 .. Len(written) |->
                               IF k \in lost THEN Missing ELSE written[k]]
            \/ \E k \in 1 .. Len(written) :
                 /\ written[k].torn = "eor"
                 /\ \E t \in Truncations(written[k].records) :
                      arrived' = [written EXCEPT ![k] = t]
      BY <1>2 DEF Carry
    <2>3. /\ Len(written) \in 0 .. chunk_number
          /\ \A k \in 1 .. Len(written) : Cut(written[k], k)
      BY WrittenIsCut
    <2>4. PICK S : written \in Seq(S)
      BY WrittenIsCut
    <2>5. /\ Len(arrived') = Len(written)
          /\ \A k \in 1 .. Len(written) : arrived'[k] = Missing \/ Cut(arrived'[k], k)
      <3>1. CASE arrived' = written
        BY <2>3, <3>1
      <3>2. ASSUME NEW lost \in SUBSET (1 .. Len(written)),
                   arrived' = [k \in 1 .. Len(written) |->
                                 IF k \in lost THEN Missing ELSE written[k]]
            PROVE  /\ Len(arrived') = Len(written)
                   /\ \A k \in 1 .. Len(written) :
                        arrived'[k] = Missing \/ Cut(arrived'[k], k)
        BY <2>3, <2>4, <3>2
      <3>3. ASSUME NEW k \in 1 .. Len(written), written[k].torn = "eor",
                   NEW t \in Truncations(written[k].records),
                   arrived' = [written EXCEPT ![k] = t]
            PROVE  /\ Len(arrived') = Len(written)
                   /\ \A j \in 1 .. Len(written) :
                        arrived'[j] = Missing \/ Cut(arrived'[j], j)
        <4>1. k \in 1 .. chunk_number /\ Cut(written[k], k)
          BY <2>3 DEF chunk_number, TypeOK
        <4>2. Records(k) \in Seq(Record)
          BY <4>1, ChunkRecords
        <4>3. written[k] = Beginning(Records(k), Len(Records(k)), "eor")
          BY <3>3, <4>1 DEF Cut, Beginning
        <4>4. written[k].records = Records(k)
          BY <4>2, <4>3 DEF Beginning
        <4>5. Cut(t, k)
          BY <3>3, <4>1, <4>4, TruncationIsCut
        <4> QED
          BY <2>3, <2>4, <3>3, <4>5
      <3> QED
        BY <2>2, <3>1, <3>2, <3>3
    <2>6. \A k : Cut(arrived[k], k)' <=> Cut(arrived'[k], k)
      BY <2>1 DEF vars, Cut, Records, Beginning
    <2>7. chunk_number' = chunk_number
      BY <2>1 DEF vars, chunk_number
    <2>8. /\ Len(arrived') \in 0 .. chunk_number'
          /\ \A k \in 1 .. Len(arrived') : arrived'[k] = Missing \/ Cut(arrived[k], k)'
      BY <2>3, <2>5, <2>6, <2>7
    <2>9. /\ diff_files' = 0 /\ pc' \in {"done", "failed"} /\ rpc' = "detect"
          /\ Untouched'
      BY <2>1 DEF Untouched, vars
    <2> QED
      BY <2>8, <2>9 DEF ArrivalInv, Rpcs, Missing
  <1>3. CASE Detect
    <2>1. /\ diff_files' = FirstMissing - 1 /\ UNCHANGED <<vars, arrived>>
          /\ rpc = "detect" /\ rpc' = "parse" /\ FirstMissing > 1
      BY <1>3 DEF Detect
    <2>2. FirstMissing - 1 \in 0 .. Len(arrived) /\ Len(arrived) \in Nat
      BY <2>1, FirstMissingFound DEF ArrivalInv, chunk_number, TypeOK
    <2>3. \A k \in 1 .. FirstMissing - 1 : Cut(arrived[k], k)
      BY FirstMissingFound DEF ArrivalInv, Exists
    <2> HIDE DEF FirstMissing
    <2> QED
      BY <2>1, <2>2, <2>3, ArrivalKept DEF Rpcs
  <1>4. CASE GivesUp
    BY <1>4, ArrivalKept DEF GivesUp, Rpcs
  <1>5. CASE ParseChunk
    BY <1>5, ArrivalKept DEF ParseChunk, Parsing, Rpcs
  <1>6. CASE ParseEnds
    BY <1>6, ArrivalKept DEF ParseEnds, Rpcs
  <1>7. CASE ReadDiffChange \/ ReadContent \/ NextChunk
    BY <1>7, ArrivalKept DEF ReadDiffChange, ReadContent, NextChunk, Streaming, Rpcs
  <1>8. CASE EndOk
    BY <1>8, ArrivalKept DEF EndOk, Rpcs
  <1>9. CASE UNCHANGED transferVars
    <2>1. \A k : Cut(arrived[k], k)' <=> Cut(arrived[k], k)
      BY <1>9 DEF transferVars, readerVars, vars, Cut, Records, Beginning
    <2> QED
      BY <1>9, <2>1 DEF transferVars, readerVars, vars, ArrivalInv, Untouched, Missing,
                        chunk_number
  <1> QED
    BY <1>1, <1>2, <1>3, <1>4, <1>5, <1>6, <1>7, <1>8, <1>9, ReadSteps

\* A chunk file that detect_diff_files found, record by record.
LEMMA ArrivedChunk ==
    ASSUME TypeOK, ArrivalInv, NEW k \in 1 .. diff_files
    PROVE  /\ k \in 1 .. chunk_number
           /\ arrived[k].records \in Seq(Record)
           /\ Len(arrived[k].records) \in 0 .. Len(Records(k))
           /\ Len(Records(k)) \in Nat
           /\ arrived[k].torn = "eor" => Len(arrived[k].records) = Len(Records(k))
           /\ \A r \in 1 .. Len(arrived[k].records) :
                arrived[k].records[r] = At(<<k, r>>) /\ <<k, r>> \in Places
  <1>1. k \in 1 .. chunk_number /\ Cut(arrived[k], k)
    BY DEF ArrivalInv, chunk_number, TypeOK
  <1>2. /\ Records(k) \in Seq(Record) /\ Len(Records(k)) \in Nat
        /\ \A r \in 1 .. Len(Records(k)) : <<k, r>> \in Places
    BY <1>1, ChunkRecords
  <1>3. PICK n \in 0 .. Len(Records(k)) :
          /\ arrived[k].records = SubSeq(Records(k), 1, n)
          /\ arrived[k].torn = "eor" => n = Len(Records(k))
    BY <1>1 DEF Cut, Beginning
  <1>4. \A i \in 1 .. n : Records(k)[i] \in Record
    BY <1>2
  <1>5. n \in Int /\ 1 \in Int /\ n \in Nat /\ n <= Len(Records(k))
    BY <1>2
  <1>6. /\ SubSeq(Records(k), 1, n) \in Seq(Record)
        /\ Len(SubSeq(Records(k), 1, n)) = n
        /\ \A i \in 1 .. n : SubSeq(Records(k), 1, n)[i] = Records(k)[i]
    BY <1>2, <1>4, <1>5, SubSeqProperties
  <1>7. \A r \in 1 .. n : arrived[k].records[r] = At(<<k, r>>) /\ <<k, r>> \in Places
    BY <1>2, <1>3, <1>5, <1>6 DEF At
  <1> QED
    BY <1>1, <1>2, <1>3, <1>5, <1>6, <1>7

LEMMA PositionStep ==
    SentInv /\ ArrivalInv /\ PositionInv /\ [TransferNext]_transferVars => PositionInv'
  <1> SUFFICES ASSUME SentInv, ArrivalInv, PositionInv, [TransferNext]_transferVars
               PROVE  PositionInv'
    OBVIOUS
  <1> TypeOK
    BY DEF SentInv, LoopInv
  <1>0. diff_files \in Nat
    BY DEF ArrivalInv, chunk_number, TypeOK
  <1>1. CASE WriteStep
    <2>1. rpc = "carry"
      BY <1>1, WriterRests DEF ArrivalInv
    <2> QED
      BY <1>1, <2>1 DEF WriteStep, readerVars, ArrivalInv, PositionInv, Untouched
  <1>2. CASE Carry
    <2>1. Untouched' /\ rpc' = "detect"
      BY <1>2 DEF Carry, ArrivalInv, Untouched
    <2> QED
      BY <2>1 DEF PositionInv, Untouched
  <1>3. CASE Detect
    <2>1. ArrivalInv'
      BY ArrivalStep
    <2>2. /\ at' = <<1, 1>> /\ rpc' = "parse"
          /\ queue' = <<>> /\ active' = <<>> /\ persisted' = <<>>
          /\ UNCHANGED vars
      BY <1>3 DEF Detect, ArrivalInv, Untouched
    <2>3. /\ diff_files' \in Nat
          /\ 1 <= diff_files' => Len(arrived[1].records)' \in Nat
      <3>1. TypeOK'
        BY <2>2 DEF vars, TypeOK
      <3>2. diff_files' \in Nat
        BY <2>1, <3>1 DEF ArrivalInv, chunk_number, TypeOK
      <3>3. ASSUME 1 <= diff_files' PROVE Len(arrived[1].records)' \in Nat
        <4>1. 1 \in 1 .. diff_files'
          BY <3>2, <3>3
        <4>2. Cut(arrived[1], 1)'
          BY <2>1, <4>1 DEF ArrivalInv
        <4>3. Cut(arrived'[1], 1)
          BY <2>2, <4>2 DEF vars, Cut, Records, Beginning
        <4>4. PICK n \in 0 .. Len(Records(1)) : arrived'[1].records = SubSeq(Records(1), 1, n)
          BY <4>3 DEF Cut, Beginning
        <4>5. Records(1) \in Seq(Record)
          <5>1. 1 \in 1 .. chunk_number
            BY DEF chunk_number, TypeOK
          <5> QED
            BY <5>1, ChunkRecords
        <4>6. n \in Int /\ 1 \in Int /\ \A i \in 1 .. n : Records(1)[i] \in Record
          BY <4>5
        <4>7. SubSeq(Records(1), 1, n) \in Seq(Record)
          BY <4>6, SubSeqProperties
        <4> QED
          BY <4>4, <4>7
      <3> QED
        BY <3>2, <3>3
    <2> QED
      BY <2>2, <2>3 DEF PositionInv, chunkRead
  <1>4. CASE GivesUp
    BY <1>4 DEF GivesUp, PositionInv, chunkRead
  <1>5. CASE ParseChunk
    <2> PICK k : k = at[1]
      OBVIOUS
    <2>1. /\ k \in 1 .. diff_files /\ at' = <<k + 1, 1>> /\ rpc = "parse" /\ rpc' = "parse"
          /\ UNCHANGED <<diff_files, arrived, queue, active, persisted>>
      BY <1>5 DEF ParseChunk, Parsing, PositionInv
    <2>2. k + 1 <= diff_files => Len(arrived[k + 1].records) \in Nat
      <3>1. k + 1 <= diff_files => k + 1 \in 1 .. diff_files
        BY <1>0, <2>1
      <3> QED
        BY <3>1, ArrivedChunk
    <2> QED
      BY <1>0, <2>1, <2>2 DEF PositionInv, chunkRead
  <1>6. CASE ParseEnds
    <2>1. /\ at' = <<1, 1>> /\ rpc' = "stream"
          /\ UNCHANGED <<diff_files, arrived>>
      BY <1>6 DEF ParseEnds
    <2>2. 1 <= diff_files => Len(arrived[1].records) \in Nat
      <3>1. 1 <= diff_files => 1 \in 1 .. diff_files
        BY <1>0
      <3> QED
        BY <3>1, ArrivedChunk
    <2> QED
      BY <1>0, <2>1, <2>2 DEF PositionInv, chunkRead
  <1>7. CASE ReadDiffChange \/ ReadContent
    <2> PICK k, r : k = at[1] /\ r = at[2]
      OBVIOUS
    <2>1. /\ k \in 1 .. diff_files /\ at' = <<k, r + 1>> /\ rpc = "stream" /\ rpc' = "stream"
          /\ UNCHANGED <<diff_files, arrived>> /\ r \in Nat \ {0}
          /\ ~(r > Len(arrived[k].records))
      BY <1>7 DEF ReadDiffChange, ReadContent, Streaming, AtEnd, Advance, chunkRead,
                  PositionInv
    <2>2. Len(arrived[k].records) \in Nat
      BY <2>1, ArrivedChunk
    <2>3. \A j \in 1 .. k - 1 : arrived[j].torn = "eor"
      BY <2>1 DEF PositionInv
    <2> QED
      BY <1>0, <2>1, <2>2, <2>3 DEF PositionInv, chunkRead
  <1>8. CASE NextChunk
    <2> PICK k : k = at[1]
      OBVIOUS
    <2>1. /\ k \in 1 .. diff_files /\ at' = <<k + 1, 1>> /\ rpc = "stream" /\ rpc' = "stream"
          /\ UNCHANGED <<diff_files, arrived>> /\ arrived[k].torn = "eor"
          /\ \A j \in 1 .. k - 1 : arrived[j].torn = "eor"
      BY <1>8 DEF NextChunk, Streaming, AtEnd, chunkRead, PositionInv
    <2>2. k + 1 <= diff_files => Len(arrived[k + 1].records) \in Nat
      <3>1. k + 1 <= diff_files => k + 1 \in 1 .. diff_files
        BY <1>0, <2>1
      <3> QED
        BY <3>1, ArrivedChunk
    <2>3. \A j \in 1 .. k : arrived[j].torn = "eor"
      BY <1>0, <2>1
    <2> QED
      BY <1>0, <2>1, <2>2, <2>3 DEF PositionInv, chunkRead
  <1>9. CASE EndOk
    BY <1>9 DEF EndOk, PositionInv, chunkRead
  <1>10. CASE UNCHANGED transferVars
    BY <1>10 DEF transferVars, readerVars, PositionInv, chunkRead
  <1> QED
    BY <1>1, <1>2, <1>3, <1>4, <1>5, <1>6, <1>7, <1>8, <1>9, <1>10, ReadSteps

----------------------------------------------------------------------------
(* Layer 3.  parse_diff_metadata collects 1, 2, 3, ...: the whole metadata *)
(* of the chunks it went through, and nothing else.                        *)

ParsedTo(n) ==
    /\ \A i \in 1 .. Len(parsed) :
         \E p \in Places : p[1] <= n /\ ~IsContent(p) /\ At(p).change = i
    /\ \A p \in Places :
         p[1] <= n /\ ~IsContent(p) => At(p).change \in 1 .. Len(parsed)

ParsedInv ==
    /\ parsed \in Seq(Nat)
    /\ \A i \in 1 .. Len(parsed) : parsed[i] = i
    /\ Len(parsed) <= Len(changes)
    /\ rpc = "parse" => ParsedTo(at[1] - 1)
    /\ rpc \in {"stream", "ok"} => ParsedTo(diff_files)

\* Parsing a chunk stops behind its metadata, and only there.
LEMMA MetadataStops ==
    ASSUME SentInv, ArrivalInv, NEW k \in 1 .. diff_files, ~ParseFailsIn(arrived[k])
    PROVE  /\ MetadataLen(arrived[k].records) \in 0 .. Len(arrived[k].records)
           /\ \A r \in 1 .. Len(Records(k)) :
                /\ <<k, r>> \in Places
                /\ ~IsContent(<<k, r>>) <=> r <= MetadataLen(arrived[k].records)
  <1> DEFINE records == arrived[k].records
             S == ContentAt(records)
             m == CHOOSE r \in S : \A s \in S : r <= s
  <1> TypeOK
    BY DEF SentInv, LoopInv
  <1>1. /\ k \in 1 .. chunk_number
        /\ Len(records) \in 0 .. Len(Records(k)) /\ Len(Records(k)) \in Nat
        /\ arrived[k].torn = "eor" => Len(records) = Len(Records(k))
        /\ \A r \in 1 .. Len(records) : records[r] = At(<<k, r>>)
    BY ArrivedChunk
  <1>2. \A r \in 1 .. Len(Records(k)) : <<k, r>> \in Places
    BY <1>1, ChunkRecords
  <1>3. \A r : r \in S <=> r \in 1 .. Len(records) /\ IsContent(<<k, r>>)
    BY <1>1 DEF ContentAt, IsContent
  <1>4. ~(S = {} /\ arrived[k].torn # "eor")
    BY DEF ParseFailsIn
  <1>5. MetadataLen(records) = IF S = {} THEN Len(records) ELSE m - 1
    BY DEF MetadataLen
  <1> HIDE DEF S, m
  <1>6. CASE S = {}
    BY <1>1, <1>2, <1>3, <1>4, <1>5, <1>6
  <1>7. CASE S # {}
    <2>1. S \subseteq Nat
      <3>1. \A r \in S : r \in 1 .. Len(records)
        BY <1>3
      <3> HIDE DEF records
      <3> QED
        BY <3>1
    <2>2. m \in S /\ \A s \in S : m <= s
      <3>1. \E x \in S : \A s \in S : x <= s
        BY <1>7, <2>1, HasLeast
      <3> QED
        BY <3>1 DEF m
    <2>3. m \in 1 .. Len(records) /\ IsContent(<<k, m>>)
      BY <1>3, <2>2
    <2>4. ASSUME NEW r \in 1 .. Len(Records(k)), r < m PROVE ~IsContent(<<k, r>>)
      <3>1. r \notin S /\ r \in 1 .. Len(records)
        BY <1>1, <2>1, <2>2, <2>3, <2>4
      <3> QED
        BY <1>3, <3>1
    <2>5. ASSUME NEW r \in 1 .. Len(Records(k)), r >= m PROVE IsContent(<<k, r>>)
      <3>1. CASE r = m
        BY <2>3, <3>1
      <3>2. CASE r # m
        <4>1. <<k, m>> \in Places /\ <<k, r>> \in Places /\ Before(<<k, m>>, <<k, r>>)
          BY <1>1, <1>2, <2>3, <2>5, <3>2 DEF Before
        <4> QED
          BY <2>3, <4>1 DEF SentInv, StreamInv, StreamOK, MetadataBeforeContent
      <3> QED
        BY <3>1, <3>2
    <2>6. MetadataLen(records) = m - 1
      BY <1>5, <1>7
    <2> HIDE DEF records
    <2>7. m - 1 \in 0 .. Len(records)
      BY <1>1, <2>3
    <2>8. \A r \in 1 .. Len(Records(k)) : ~IsContent(<<k, r>>) <=> r <= m - 1
      BY <1>1, <2>3, <2>4, <2>5
    <2> QED
      BY <1>2, <2>6, <2>7, <2>8 DEF records
  <1> QED
    BY <1>6, <1>7

\* The first DiffChange of a chunk follows the last one of the chunks before.
LEMMA MetadataContinues ==
    ASSUME SentInv, NEW k \in 1 .. chunk_number, ParsedTo(k - 1), Len(parsed) \in Nat,
           NEW r \in 1 .. Len(Records(k)), ~IsContent(<<k, r>>)
    PROVE  At(<<k, r>>).change = Len(parsed) + r
  <1> TypeOK /\ Len(changes) \in Nat /\ dc_cursor \in Nat /\ k \in Nat
    BY DEF SentInv, LoopInv, TypeOK, chunk_number
  <1> PICK first, c, n : first = <<k, 1>> /\ c = At(first).change /\ n = Len(parsed)
    OBVIOUS
  <1>1. Records(k) \in Seq(Record) /\ \A s \in 1 .. Len(Records(k)) : <<k, s>> \in Places
    BY ChunkRecords
  <1>2. 1 \in 1 .. Len(Records(k)) /\ r \in Nat /\ r >= 1
    BY <1>1
  <1>3. first \in Places /\ <<k, r>> \in Places /\ first[1] = k /\ first[2] = 1
    BY <1>1, <1>2
  <1>4. ~IsContent(first)
    <2>1. r # 1 => Before(first, <<k, r>>)
      BY <1>2, <1>3 DEF Before
    <2> QED
      BY <1>3, <2>1 DEF SentInv, StreamInv, StreamOK, MetadataBeforeContent
  <1>5. \A p \in Places : ~IsContent(p) =>
          At(p).type = "DiffChange" /\ At(p).change \in 1 .. dc_cursor
    <2> SUFFICES ASSUME NEW p \in Places, ~IsContent(p)
                 PROVE  At(p).type = "DiffChange" /\ At(p).change \in 1 .. dc_cursor
      OBVIOUS
    <2>1. At(p) \in Record
      BY PlaceTypes
    <2>2. At(p).change > 0 /\ At(p).change <= dc_cursor
      BY DEF SentInv, OrderInv, Numbered, StreamInv, StreamCursors
    <2> QED
      BY <2>1, <2>2 DEF Record, RecordType, IsContent
  <1>6. c \in 1 .. dc_cursor
    BY <1>3, <1>4, <1>5
  <1>7. c > n
    <2>1. CASE n = 0
      BY <1>6, <2>1
    <2>2. CASE n # 0
      <3>1. n \in 1 .. Len(parsed)
        BY <2>2
      <3>2. PICK p \in Places : p[1] <= k - 1 /\ ~IsContent(p) /\ At(p).change = n
        BY <3>1 DEF ParsedTo
      <3>3. Before(p, first)
        <4>1. p[1] \in 1 .. chunk_number
          BY PlaceParts
        <4>2. p[1] \in Nat
          BY <4>1 DEF chunk_number, TypeOK
        <4> QED
          BY <1>3, <3>2, <4>2 DEF Before
      <3>4. At(p).type = At(first).type
        BY <1>3, <1>4, <1>5, <3>2
      <3>5. At(p).change < At(first).change
        BY <1>3, <3>2, <3>3, <3>4 DEF SentInv, StreamInv, StreamOK, StreamOrdered
      <3> QED
        BY <1>6, <3>2, <3>5
    <2> QED
      BY <2>1, <2>2
  <1>8. c <= n + 1
    <2>1. SUFFICES ASSUME c > n + 1 PROVE FALSE
      BY <1>6
    <2>2. n + 1 \in 1 .. dc_cursor
      BY <1>6, <2>1
    <2>3. PICK p \in Places : At(p) = DiffChangeRecord(n + 1)
      BY <2>2 DEF SentInv, StreamInv, StreamCovers
    <2>4. At(p).change = n + 1 /\ At(p).type = "DiffChange" /\ ~IsContent(p)
      BY <2>3 DEF DiffChangeRecord, IsContent
    <2>5. ~(p[1] <= k - 1)
      <3>1. n + 1 \notin 1 .. Len(parsed)
        OBVIOUS
      <3> QED
        BY <2>4, <3>1 DEF ParsedTo
    <2>6. p # first /\ ~Before(p, first)
      <3>1. p[1] \in 1 .. chunk_number /\ p[2] \in 1 .. Len(Records(p[1]))
        BY PlaceParts
      <3>2. p[1] \in Nat /\ p[2] >= 1 /\ p[2] \in Int
        <4>1. chunk_number \in Nat
          BY DEF chunk_number, TypeOK
        <4> QED
          BY <3>1, <4>1
      <3>3. p # first
        BY <1>6, <2>1, <2>4
      <3> QED
        BY <1>3, <2>5, <3>2, <3>3 DEF Before
    <2>7. Before(first, p)
      BY <1>3, <2>6, Trichotomy
    <2>8. At(first).type = At(p).type
      BY <1>3, <1>4, <1>5, <2>4
    <2>9. At(first).change < At(p).change
      BY <1>3, <1>4, <2>7, <2>8 DEF SentInv, StreamInv, StreamOK, StreamOrdered
    <2> QED
      BY <1>6, <2>1, <2>4, <2>9
  <1>9. At(<<k, r>>).change = c + r - 1
    BY <1>3 DEF SentInv, OrderInv, Numbered
  <1>10. c = n + 1
    BY <1>6, <1>7, <1>8
  <1> QED
    BY <1>2, <1>9, <1>10

LEMMA Joined ==
    ASSUME NEW S, NEW s \in Seq(S), NEW t \in Seq(S)
    PROVE  /\ s \o t \in Seq(S)
           /\ Len(s \o t) = Len(s) + Len(t)
           /\ \A i \in 1 .. Len(s) : (s \o t)[i] = s[i]
           /\ \A i \in 1 .. Len(t) : (s \o t)[Len(s) + i] = t[i]
  OBVIOUS

LEMMA ChunkParsed ==
    ASSUME SentInv, ArrivalInv, PositionInv, ParsedInv, ParseChunk
    PROVE  ParsedInv'
  <1> PICK k, n, L : k = at[1] /\ n = Len(parsed) /\ L = MetadataLen(arrived[k].records)
    OBVIOUS
  <1> TypeOK
    BY DEF SentInv, LoopInv
  <1>1. /\ k \in 1 .. diff_files /\ ~ParseFailsIn(arrived[k]) /\ rpc = "parse"
        /\ parsed' = parsed \o MetadataOf(arrived[k])
        /\ at' = <<k + 1, 1>> /\ rpc' = "parse" /\ UNCHANGED vars
    BY DEF ParseChunk, Parsing, PositionInv, chunkRead
  <1>2. /\ n \in Nat /\ parsed \in Seq(Nat) /\ \A i \in 1 .. n : parsed[i] = i
        /\ ParsedTo(k - 1) /\ n <= Len(changes) /\ Len(changes) \in Nat
    BY <1>1 DEF ParsedInv, TypeOK
  <1>3. /\ k \in 1 .. chunk_number
        /\ Len(arrived[k].records) \in 0 .. Len(Records(k)) /\ Len(Records(k)) \in Nat
        /\ \A r \in 1 .. Len(arrived[k].records) : arrived[k].records[r] = At(<<k, r>>)
    BY <1>1, ArrivedChunk
  <1>4. /\ L \in 0 .. Len(arrived[k].records)
        /\ \A r \in 1 .. Len(Records(k)) :
             <<k, r>> \in Places /\ (~IsContent(<<k, r>>) <=> r <= L)
    BY <1>1, MetadataStops
  <1>5. L \in Nat /\ L <= Len(arrived[k].records) /\ \A r \in 1 .. L : r \in 1 .. Len(Records(k))
    BY <1>3, <1>4
  <1>6. \A r \in 1 .. L : ~IsContent(<<k, r>>) /\ At(<<k, r>>).change = n + r
    BY <1>2, <1>3, <1>4, <1>5, MetadataContinues
  <1>7. \A r \in 1 .. L : arrived[k].records[r].change = n + r
    <2>1. \A r \in 1 .. L : r \in 1 .. Len(arrived[k].records)
      BY <1>4, <1>5
    <2> QED
      BY <1>3, <1>6, <2>1
  <1>8. MetadataOf(arrived[k]) = [r \in 1 .. L |-> n + r]
    BY <1>7 DEF MetadataOf
  <1>9. /\ parsed' \in Seq(Nat) /\ Len(parsed') = n + L
        /\ \A i \in 1 .. n + L : parsed'[i] = i
    <2>1. [r \in 1 .. L |-> n + r] \in Seq(Nat) /\ Len([r \in 1 .. L |-> n + r]) = L
      BY <1>2, <1>5
    <2>a. PICK added : added = [r \in 1 .. L |-> n + r]
      OBVIOUS
    <2>2. /\ \A i \in 1 .. L : added[i] = n + i
          /\ added \in Seq(Nat) /\ Len(added) = L
      BY <2>1, <2>a
    <2>3. /\ parsed \o added \in Seq(Nat) /\ Len(parsed \o added) = Len(parsed) + Len(added)
          /\ \A i \in 1 .. Len(parsed) : (parsed \o added)[i] = parsed[i]
          /\ \A i \in 1 .. Len(added) : (parsed \o added)[Len(parsed) + i] = added[i]
      <3>1. parsed \in Seq(Nat) /\ added \in Seq(Nat)
        BY <1>2, <2>2
      <3> QED
        BY <3>1, Joined
    <2>4. parsed' = parsed \o added
      BY <1>1, <1>8, <2>a
    <2>5. ASSUME NEW i \in 1 .. n + L PROVE parsed'[i] = i
      <3>1. CASE i <= n
        <4>1. i \in 1 .. n
          BY <1>2, <2>5, <3>1
        <4> QED
          BY <1>2, <2>3, <2>4, <4>1
      <3>2. CASE ~(i <= n)
        <4> PICK j : j = i - n
          OBVIOUS
        <4>1. j \in 1 .. L /\ n + j = i
          BY <1>2, <1>5, <2>5, <3>2
        <4>2. parsed'[n + j] = added[j]
          BY <2>2, <2>3, <2>4, <4>1
        <4> QED
          BY <2>2, <4>1, <4>2
      <3> QED
        BY <3>1, <3>2
    <2>6. Len(parsed') = n + L
      BY <2>2, <2>3, <2>4
    <2> QED
      BY <2>3, <2>4, <2>5, <2>6
  <1>10. ParsedTo(at[1] - 1)'
    <2> PICK len : len = Len(parsed')
      OBVIOUS
    <2>1. len = n + L /\ at'[1] - 1 = k /\ k \in Nat
      <3>1. k \in Nat
        BY <1>3 DEF chunk_number, TypeOK
      <3>2. at'[1] = k + 1
        BY <1>1
      <3> QED
        BY <1>9, <3>1, <3>2
    <2>2. Kept
      BY <1>1, SameRecordsKept DEF vars
    <2>3. ASSUME NEW i \in 1 .. len
          PROVE  \E p \in Places : p[1] <= k /\ ~IsContent(p) /\ At(p).change = i
      <3>1. CASE i <= n
        <4>1. i \in 1 .. Len(parsed)
          BY <1>2, <3>1, <2>3
        <4>2. PICK p \in Places : p[1] <= k - 1 /\ ~IsContent(p) /\ At(p).change = i
          BY <1>2, <4>1 DEF ParsedTo
        <4>3. p[1] \in Int
          BY PlaceParts
        <4> QED
          BY <2>1, <4>2, <4>3
      <3>2. CASE ~(i <= n)
        <4>1. i - n \in 1 .. L /\ n + (i - n) = i
          BY <1>2, <1>5, <2>1, <2>3, <3>2
        <4>2. PICK r : r = i - n
          OBVIOUS
        <4>3. /\ <<k, r>> \in Places /\ ~IsContent(<<k, r>>)
              /\ At(<<k, r>>).change = i
          BY <1>4, <1>5, <1>6, <4>1, <4>2
        <4> QED
          BY <2>1, <4>3
      <3> QED
        BY <3>1, <3>2
    <2>4. ASSUME NEW p \in Places, p[1] <= k, ~IsContent(p)
          PROVE  At(p).change \in 1 .. len
      <3>1. p = <<p[1], p[2]>> /\ p[1] \in 1 .. chunk_number /\ p[2] \in 1 .. Len(Records(p[1]))
        BY PlaceParts
      <3>2. p[1] \in Nat
        <4>1. chunk_number \in Nat
          BY DEF chunk_number, TypeOK
        <4> QED
          BY <3>1, <4>1
      <3>3. CASE p[1] <= k - 1
        <4>1. At(p).change \in 1 .. n
          BY <1>2, <2>4, <3>3 DEF ParsedTo
        <4> QED
          BY <1>2, <1>5, <2>1, <4>1
      <3>4. CASE ~(p[1] <= k - 1)
        <4>1. p[1] = k
          BY <2>1, <2>4, <3>2, <3>4
        <4>2. PICK r : r = p[2]
          OBVIOUS
        <4>3. p = <<k, r>> /\ r \in 1 .. Len(Records(k))
          BY <3>1, <4>1, <4>2
        <4>4. r \in 1 .. L
          BY <1>3, <1>4, <1>5, <2>4, <4>3
        <4>5. At(p).change = n + r
          BY <1>6, <4>3, <4>4
        <4> QED
          BY <1>2, <1>5, <2>1, <4>4, <4>5
      <3> QED
        BY <3>3, <3>4
    <2> QED
      BY <2>1, <2>2, <2>3, <2>4 DEF ParsedTo, Kept, IsContent
  <1>11. Len(parsed') <= Len(changes')
    <2>1. CASE L = 0
      BY <1>1, <1>2, <1>9, <2>1 DEF vars
    <2>2. CASE L # 0
      <3>1. L \in 1 .. L
        BY <1>5, <2>2
      <3>2. PICK p : p = <<k, L>>
        OBVIOUS
      <3>3. p \in Places /\ ~IsContent(p) /\ At(p).change = n + L
        BY <1>4, <1>5, <1>6, <3>1, <3>2
      <3>4. n + L <= dc_cursor
        BY <3>3 DEF SentInv, StreamInv, StreamCursors
      <3>5. dc_cursor \in 0 .. Len(changes) /\ changes' = changes
        BY <1>1 DEF vars, TypeOK
      <3> QED
        BY <1>2, <1>5, <1>9, <3>4, <3>5
    <2> QED
      BY <2>1, <2>2
  <1> QED
    BY <1>1, <1>9, <1>10, <1>11 DEF ParsedInv

LEMMA ParsedInit == TransferInit => ParsedInv
  <1>1. Len(<<>>) = 0 /\ \A i \in 1 .. 0 : FALSE
    OBVIOUS
  <1>2. TransferInit => Len(changes) \in Nat
    BY LoopInit DEF TransferInit, LoopInv, TypeOK
  <1> QED
    BY <1>1, <1>2 DEF TransferInit, ParsedInv

LEMMA ParsedStep ==
    SentInv /\ ArrivalInv /\ PositionInv /\ ParsedInv /\ [TransferNext]_transferVars
      => ParsedInv'
  <1> SUFFICES ASSUME SentInv, ArrivalInv, PositionInv, ParsedInv,
                      [TransferNext]_transferVars
               PROVE  ParsedInv'
    OBVIOUS
  <1> TypeOK
    BY DEF SentInv, LoopInv
  <1>0. /\ Len(changes) \in Nat /\ <<>> \in Seq(Nat) /\ Len(<<>>) = 0
        /\ \A i \in 1 .. 0 : FALSE
    BY DEF TypeOK
  <1>1. CASE WriteStep
    <2>1. rpc = "carry" /\ rpc' = "carry"
      BY <1>1, WriterRests DEF ArrivalInv, WriteStep, readerVars
    <2>2. LoopInv'
      BY <1>1, LoopStep DEF WriteStep, SentInv
    <2>3. parsed' = <<>> /\ Len(changes') \in Nat
      BY <1>1, <2>1, <2>2 DEF WriteStep, readerVars, ArrivalInv, Untouched, LoopInv, TypeOK
    <2> QED
      BY <1>0, <2>1, <2>3 DEF ParsedInv
  <1>2. CASE Carry
    <2>1. parsed' = <<>> /\ rpc' = "detect" /\ changes' = changes
      BY <1>2 DEF Carry, ArrivalInv, Untouched, vars
    <2> QED
      BY <1>0, <2>1 DEF ParsedInv
  <1>3. CASE Detect
    <2>1. /\ parsed' = <<>> /\ rpc' = "parse" /\ changes' = changes /\ at' = <<1, 1>>
          /\ UNCHANGED vars
      BY <1>3 DEF Detect, ArrivalInv, Untouched, vars
    <2>2. TypeOK'
      BY <2>1 DEF vars, TypeOK
    <2>3. \A p \in Places' : ~(p[1] <= 0)
      <3>1. ASSUME NEW p \in Places PROVE ~(p[1] <= 0)
        BY PlaceParts DEF chunk_number, TypeOK
      <3>2. Kept
        BY <2>1, SameRecordsKept DEF vars
      <3> QED
        BY <3>1, <3>2 DEF Kept
    <2>4. ParsedTo(at[1] - 1)'
      BY <1>0, <2>1, <2>3 DEF ParsedTo
    <2> QED
      BY <1>0, <2>1, <2>4 DEF ParsedInv
  <1>4. CASE GivesUp
    <2>1. /\ rpc' = "error" /\ changes' = changes
          /\ parsed' = parsed \/ parsed' = <<>>
      BY <1>4 DEF GivesUp, vars
    <2>2. CASE parsed' = parsed
      BY <2>1, <2>2 DEF ParsedInv
    <2>3. CASE parsed' = <<>>
      BY <1>0, <2>1, <2>3 DEF ParsedInv
    <2> QED
      BY <2>1, <2>2, <2>3
  <1>5. CASE ParseChunk
    BY <1>5, ChunkParsed
  <1>6. CASE ParseEnds
    <2>1. /\ rpc = "parse" /\ at[1] > diff_files /\ rpc' = "stream"
          /\ UNCHANGED <<vars, parsed, diff_files>>
      BY <1>6 DEF ParseEnds
    <2>2. diff_files = at[1] - 1
      <3>1. at[1] \in 1 .. diff_files + 1
        BY DEF PositionInv
      <3>2. diff_files \in 0 .. Len(arrived) /\ Len(arrived) \in 0 .. chunk_number
        BY DEF ArrivalInv
      <3>3. chunk_number \in Nat
        BY DEF chunk_number, TypeOK
      <3>4. diff_files \in Nat
        BY <3>2, <3>3
      <3> QED
        BY <2>1, <3>1, <3>4
    <2>3. Kept
      BY <2>1, SameRecordsKept DEF vars
    <2>4. ParsedTo(diff_files)
      BY <2>1, <2>2 DEF ParsedInv
    <2>5. ParsedTo(diff_files)'
      BY <2>1, <2>3, <2>4 DEF ParsedTo, Kept, IsContent
    <2> QED
      BY <2>1, <2>5 DEF ParsedInv, vars
  <1>7. CASE \/ ReadDiffChange \/ ReadContent \/ NextChunk \/ EndOk
             \/ UNCHANGED transferVars
    <2>1. /\ UNCHANGED <<vars, parsed, diff_files>>
          /\ (rpc = "stream" /\ rpc' \in {"stream", "ok"}) \/ UNCHANGED <<rpc, at>>
      BY <1>7 DEF ReadDiffChange, ReadContent, NextChunk, EndOk, Streaming,
                  transferVars, readerVars
    <2>2. Kept
      BY <2>1, SameRecordsKept DEF vars
    <2>3. \A n : ParsedTo(n)' <=> ParsedTo(n)
      BY <2>1, <2>2 DEF ParsedTo, Kept, IsContent
    <2> QED
      BY <2>1, <2>3 DEF ParsedInv, vars
  <1> QED
    BY <1>1, <1>2, <1>3, <1>4, <1>5, <1>6, <1>7, ReadSteps

----------------------------------------------------------------------------
(* Layer 4.  stream_file_contents: the places it has read, and what became *)
(* of the content changes introduced there.  None of this needs the files  *)
(* to keep their size.                                                     *)

Consumed == {p \in Places : Before(p, at)}

PieceType == [change : Nat, from : Nat, len : Nat]
QueuedType == [change : Nat, size : Nat]
ActiveType == [change : Nat, remaining : Nat, pieces : Seq(PieceType)]
PersistedType == [change : Nat, pieces : Seq(PieceType), stored : BOOLEAN]

HeldInv ==
    /\ queue \in Seq(QueuedType)
    /\ active = <<>> \/ (active = <<active[1]>> /\ active[1] \in ActiveType)
    /\ persisted \in Seq(PersistedType)

Queued(c) == \E i \in 1 .. Len(queue) : queue[i].change = c
Active(c) == active # <<>> /\ active[1].change = c
Persisted(c) == \E i \in 1 .. Len(persisted) : persisted[i].change = c

\* Content read so far was not read for nothing, and every content change
\* whose metadata was read is waiting, being written, or written.
Accounted ==
    /\ \A p \in Consumed :
         ~IsContent(p) /\ changes[At(p).change].has_content
           => \/ Queued(At(p).change) \/ Active(At(p).change)
              \/ Persisted(At(p).change)
    /\ active # <<>> \/ persisted # <<>> => \E p \in Consumed : IsContent(p)

AccountInv ==
    /\ HeldInv
    /\ rpc \in {"stream", "ok"} => Accounted
    /\ rpc = "ok" => ~Unresolved

ReaderInv == ArrivalInv /\ PositionInv /\ ParsedInv

\* The record stream_file_contents reads next is one the writer wrote.
LEMMA NextRecord ==
    ASSUME SentInv, ReaderInv, Streaming, ~AtEnd
    PROVE  /\ at \in Places /\ At(at) = record /\ record \in Record
           /\ ~Before(at, at)
           /\ \A p \in Places : p \in Consumed <=> Before(p, at)
  <1> PICK k, r : k = at[1] /\ r = at[2]
    OBVIOUS
  <1> TypeOK
    BY DEF SentInv, LoopInv
  <1>1. /\ k \in 1 .. diff_files /\ at = <<k, r>> /\ r \in Nat \ {0}
        /\ ~(r > Len(arrived[k].records)) /\ record = arrived[k].records[r]
    BY DEF Streaming, AtEnd, record, chunkRead, ReaderInv, PositionInv
  <1>2. /\ arrived[k].records \in Seq(Record)
        /\ \A s \in 1 .. Len(arrived[k].records) :
             arrived[k].records[s] = At(<<k, s>>) /\ <<k, s>> \in Places
    BY <1>1, ArrivedChunk DEF ReaderInv
  <1>3. r \in 1 .. Len(arrived[k].records)
    BY <1>1, <1>2
  <1>4. at \in Places /\ At(at) = record /\ record \in Record
    BY <1>1, <1>2, <1>3
  <1>5. k \in Int /\ r \in Int
    BY <1>1
  <1>6. ~Before(at, at)
    BY <1>1, <1>5 DEF Before
  <1> QED
    BY <1>4, <1>6 DEF Consumed

LEMMA Consumes ==
    ASSUME SentInv, ReaderInv, Streaming, ~AtEnd, Advance, UNCHANGED vars
    PROVE  /\ Kept
           /\ \A p \in Places : p \in Consumed' <=> p \in Consumed \/ p = at
           /\ \A p \in Consumed' : p \in Places
  <1> PICK k, r : k = at[1] /\ r = at[2]
    OBVIOUS
  <1> TypeOK
    BY DEF SentInv, LoopInv
  <1>1. /\ at = <<k, r>> /\ at' = <<k, r + 1>> /\ k \in Int /\ r \in Int
    BY DEF Advance, ReaderInv, PositionInv, ArrivalInv
  <1>2. Kept
    BY SameRecordsKept DEF vars
  <1>3. ASSUME NEW p \in Places
        PROVE  Before(p, at') <=> Before(p, at) \/ p = at
    <2> PICK i, j : i = p[1] /\ j = p[2]
      OBVIOUS
    <2>1. p = <<i, j>> /\ i \in 1 .. chunk_number /\ j \in 1 .. Len(Records(i))
      BY PlaceParts
    <2>2. i \in Int /\ j \in Int
      BY <2>1
    <2> QED
      BY <1>1, <2>1, <2>2 DEF Before
  <1>4. \A p : Before(p, at)' <=> Before(p, at')
    BY DEF Before
  <1> QED
    BY <1>2, <1>3, <1>4 DEF Consumed, Kept

\* A chunk read to its sentinel was read to the last record written.
LEMMA ChunkConsumed ==
    ASSUME SentInv, ReaderInv, NextChunk
    PROVE  Kept /\ Consumed' = Consumed
  <1> PICK k, r : k = at[1] /\ r = at[2]
    OBVIOUS
  <1> TypeOK
    BY DEF SentInv, LoopInv
  <1>1. /\ at = <<k, r>> /\ at' = <<k + 1, 1>> /\ k \in 1 .. diff_files /\ r \in Int
        /\ r > Len(arrived[k].records) /\ arrived[k].torn = "eor"
        /\ UNCHANGED vars
    BY DEF NextChunk, Streaming, AtEnd, chunkRead, ReaderInv, PositionInv
  <1>2. Kept
    BY <1>1, SameRecordsKept DEF vars
  <1>3. Len(arrived[k].records) = Len(Records(k)) /\ Len(Records(k)) \in Nat /\ k \in Int
    BY <1>1, ArrivedChunk DEF ReaderInv
  <1>4. ASSUME NEW p \in Places
        PROVE  Before(p, at') <=> Before(p, at)
    <2> PICK i, j : i = p[1] /\ j = p[2]
      OBVIOUS
    <2>1. p = <<i, j>> /\ i \in 1 .. chunk_number /\ j \in 1 .. Len(Records(i))
      BY PlaceParts
    <2>2. i \in Int /\ j \in Int /\ j >= 1
      BY <2>1
    <2>3. i = k => j <= Len(Records(k))
      BY <2>1
    <2>4. Before(p, at') <=> i < k + 1 \/ (i = k + 1 /\ j < 1)
      BY <1>1, <2>1 DEF Before
    <2>5. Before(p, at) <=> i < k \/ (i = k /\ j < r)
      BY <1>1, <2>1 DEF Before
    <2>6. i = k => j < r
      BY <1>1, <1>3, <2>2, <2>3
    <2> QED
      BY <1>3, <2>2, <2>4, <2>5, <2>6
  <1>5. \A p : Before(p, at)' <=> Before(p, at')
    BY DEF Before
  <1> QED
    BY <1>2, <1>4, <1>5 DEF Consumed, Kept

\* Nothing is behind the first record of the first chunk.
LEMMA NothingConsumed ==
    ASSUME SentInv, ParseEnds
    PROVE  Consumed' = {}
  <1> SUFFICES ASSUME NEW p \in Consumed' PROVE FALSE
    OBVIOUS
  <1> TypeOK
    BY DEF SentInv, LoopInv
  <1>1. UNCHANGED vars /\ at' = <<1, 1>>
    BY DEF ParseEnds
  <1>2. Kept
    BY <1>1, SameRecordsKept DEF vars
  <1>3. p \in Places
    BY <1>2 DEF Consumed, Kept
  <1>4. p[1] \in 1 .. chunk_number /\ p[2] \in 1 .. Len(Records(p[1]))
    BY <1>3, PlaceParts
  <1>5. p[1] >= 1 /\ p[1] \in Int /\ p[2] >= 1 /\ p[2] \in Int
    BY <1>4
  <1>6. ~Before(p, <<1, 1>>)
    BY <1>5 DEF Before
  <1>7. Before(p, <<1, 1>>)
    BY <1>1 DEF Consumed, Before
  <1> QED
    BY <1>6, <1>7

LEMMA AccountInit == TransferInit => AccountInv
  BY DEF TransferInit, AccountInv, HeldInv

\* The metadata places name changes of the list, in its order.
LEMMA MetadataNames ==
    ASSUME SentInv, NEW p \in Places, ~IsContent(p)
    PROVE  At(p).change \in 1 .. Len(changes) /\ At(p).type = "DiffChange"
  <1>1. TypeOK
    BY DEF SentInv, LoopInv
  <1>2. At(p) \in Record
    BY <1>1, PlaceTypes
  <1>3. dc_cursor \in 0 .. Len(changes) /\ Len(changes) \in Nat
    BY <1>1 DEF TypeOK
  <1>4. At(p).change > 0
    BY DEF SentInv, OrderInv, Numbered
  <1>5. At(p).change <= dc_cursor
    BY DEF SentInv, StreamInv, StreamCursors
  <1>6. At(p).change \in Nat /\ At(p).type \in {"DiffChange", "FileContent"}
    BY <1>2 DEF Record, RecordType
  <1> QED
    BY <1>3, <1>4, <1>5, <1>6 DEF IsContent

LEMMA SizeOf ==
    ASSUME TypeOK, NEW c \in 1 .. Len(changes)
    PROVE  changes[c].size \in Nat
  <1>1. changes[c] \in Change
    BY DEF TypeOK
  <1> QED
    BY <1>1 DEF Change

\* What a FileContent record does to the write it goes to.
LEMMA AfterRecordIs ==
    ASSUME HeldInv, record \in Record, ~NoPendingChange
    PROVE  /\ Target \in ActiveType /\ AfterRecord \in ActiveType /\ Piece \in PieceType
           /\ AfterRecord.change = Target.change
           /\ AfterRecord.remaining = IF record.len >= Target.remaining
                                        THEN 0 ELSE Target.remaining - record.len
           /\ AfterRecord.pieces = Append(Target.pieces, Piece)
           /\ active = <<>> => /\ queue # <<>> /\ Len(queue) > 0
                              /\ Target.change = queue[1].change
                              /\ Target.remaining = queue[1].size /\ Target.pieces = <<>>
           /\ active # <<>> => Target = active[1]
  <1>1. Piece \in PieceType
    BY DEF Piece, PieceType, Record
  <1>2. ASSUME active = <<>>
        PROVE  /\ queue # <<>> /\ Len(queue) > 0
               /\ Target.change = queue[1].change
               /\ Target.remaining = queue[1].size /\ Target.pieces = <<>>
               /\ Target \in ActiveType
    <2>1. queue # <<>> /\ queue \in Seq(QueuedType)
      BY <1>2 DEF NoPendingChange, HeldInv
    <2>2. Head(queue) = queue[1] /\ Head(queue) \in QueuedType /\ Len(queue) > 0
      BY <2>1
    <2>3. Target = [change |-> Head(queue).change, remaining |-> Head(queue).size,
                    pieces |-> <<>>]
      BY <1>2 DEF Target
    <2>4. <<>> \in Seq(PieceType) /\ Head(queue).change \in Nat /\ Head(queue).size \in Nat
      BY <2>2 DEF QueuedType
    <2>5. Target \in ActiveType
      BY <2>3, <2>4 DEF ActiveType
    <2>6. /\ Target.change = Head(queue).change /\ Target.remaining = Head(queue).size
          /\ Target.pieces = <<>>
      BY <2>3
    <2> QED
      BY <2>1, <2>2, <2>5, <2>6
  <1>3. active # <<>> => Target = active[1] /\ active[1] \in ActiveType
    BY DEF HeldInv, Target
  <1>4. Target \in ActiveType
    BY <1>2, <1>3
  <1>5. record.len \in Nat
    BY DEF Record
  <1>a. PICK t, len : t = Target /\ len = record.len
    OBVIOUS
  <1>6. /\ AfterRecord = [t EXCEPT !.remaining = IF len >= @ THEN 0 ELSE @ - len,
                                   !.pieces = Append(@, Piece)]
        /\ t \in ActiveType /\ len \in Nat
    BY <1>4, <1>5, <1>a DEF AfterRecord
  <1>b. /\ t.remaining \in Nat /\ t.pieces \in Seq(PieceType) /\ t.change \in Nat
    BY <1>6 DEF ActiveType
  <1>7. /\ AfterRecord.change = t.change
        /\ AfterRecord.remaining = IF len >= t.remaining THEN 0 ELSE t.remaining - len
        /\ AfterRecord.pieces = Append(t.pieces, Piece)
    BY <1>6 DEF ActiveType
  <1>c. PICK rest, pieces : /\ rest = IF len >= t.remaining THEN 0 ELSE t.remaining - len
                            /\ pieces = Append(t.pieces, Piece)
    OBVIOUS
  <1>d. rest \in Nat /\ pieces \in Seq(PieceType)
    BY <1>1, <1>6, <1>b, <1>c
  <1>e. AfterRecord = [t EXCEPT !.remaining = rest, !.pieces = pieces]
    BY <1>6, <1>c
  <1>8. AfterRecord \in ActiveType
    BY <1>6, <1>b, <1>d, <1>e DEF ActiveType
  <1>9. /\ AfterRecord.change = Target.change
        /\ AfterRecord.remaining = IF record.len >= Target.remaining
                                     THEN 0 ELSE Target.remaining - record.len
        /\ AfterRecord.pieces = Append(Target.pieces, Piece)
    BY <1>7, <1>a
  <1> HIDE DEF NoPendingChange
  <1> QED
    BY <1>1, <1>2, <1>3, <1>4, <1>8, <1>9

LEMMA ContentRead ==
    ASSUME SentInv, ReaderInv, HeldInv, ReadContent
    PROVE  /\ HeldInv'
           /\ queue' = IF active = <<>> THEN Tail(queue) ELSE queue
           /\ \/ /\ AfterRecord.remaining = 0
                 /\ active' = <<>>
                 /\ \E stored \in BOOLEAN :
                      persisted' = Append(persisted, [change |-> Target.change,
                                                      pieces |-> AfterRecord.pieces,
                                                      stored |-> stored])
              \/ /\ AfterRecord.remaining # 0
                 /\ active' = <<AfterRecord>>
                 /\ persisted' = persisted
           /\ \A c : Queued(c) => c = Target.change \/ Queued(c)'
           /\ \A c : Active(c) => c = Target.change
           /\ \A c : Persisted(c) => Persisted(c)'
           /\ \A c : c = Target.change => Active(c)' \/ Persisted(c)'
  <1>1. record \in Record /\ ~NoPendingChange
    BY NextRecord DEF ReadContent
  <1>2. /\ Target \in ActiveType /\ AfterRecord \in ActiveType
        /\ AfterRecord.change = Target.change
        /\ active = <<>> => /\ queue # <<>> /\ Len(queue) > 0
                           /\ Target.change = queue[1].change
        /\ active # <<>> => Target = active[1]
    BY <1>1, AfterRecordIs
  <1>3. queue' = IF active = <<>> THEN Tail(queue) ELSE queue
    BY DEF ReadContent
  <1>4. \/ /\ AfterRecord.remaining = 0
           /\ active' = <<>>
           /\ \E stored \in BOOLEAN :
                persisted' = Append(persisted, [change |-> Target.change,
                                                pieces |-> AfterRecord.pieces,
                                                stored |-> stored])
        \/ /\ AfterRecord.remaining # 0
           /\ active' = <<AfterRecord>>
           /\ persisted' = persisted
    BY <1>2 DEF ReadContent
  <1>5. queue \in Seq(QueuedType) /\ persisted \in Seq(PersistedType)
    BY DEF HeldInv
  <1>6. queue' \in Seq(QueuedType)
    BY <1>2, <1>3, <1>5
  <1>a. PICK c, done : /\ c = Target.change
                       /\ done = [stored \in BOOLEAN |->
                                    [change |-> Target.change,
                                     pieces |-> AfterRecord.pieces, stored |-> stored]]
    OBVIOUS
  <1>7. \A stored \in BOOLEAN : done[stored] \in PersistedType /\ done[stored].change = c
    <2>1. Target.change \in Nat /\ AfterRecord.pieces \in Seq(PieceType)
      BY <1>2 DEF ActiveType
    <2>2. SUFFICES ASSUME NEW stored \in BOOLEAN
                   PROVE  done[stored] \in PersistedType /\ done[stored].change = c
      OBVIOUS
    <2>3. done[stored] = [change |-> Target.change, pieces |-> AfterRecord.pieces,
                          stored |-> stored]
      BY <1>a
    <2> QED
      BY <1>a, <2>1, <2>3 DEF PersistedType
  <1>b. \/ /\ active' = <<>>
           /\ \E stored \in BOOLEAN : persisted' = Append(persisted, done[stored])
        \/ active' = <<AfterRecord>> /\ persisted' = persisted
    BY <1>4, <1>a
  <1>8. /\ persisted' \in Seq(PersistedType)
        /\ Len(persisted') >= Len(persisted) /\ Len(persisted) \in Nat
        /\ \A i \in 1 .. Len(persisted) : persisted'[i] = persisted[i]
        /\ active' = <<>> => /\ Len(persisted') = Len(persisted) + 1
                             /\ persisted'[Len(persisted) + 1].change = c
    <2>1. CASE active' = <<AfterRecord>> /\ persisted' = persisted
      <3>1. <<AfterRecord>> # <<>>
        OBVIOUS
      <3> QED
        BY <1>5, <2>1, <3>1
    <2>2. ASSUME NEW stored \in BOOLEAN, persisted' = Append(persisted, done[stored])
          PROVE  /\ persisted' \in Seq(PersistedType)
                 /\ Len(persisted') = Len(persisted) + 1 /\ Len(persisted) \in Nat
                 /\ \A i \in 1 .. Len(persisted) : persisted'[i] = persisted[i]
                 /\ persisted'[Len(persisted) + 1].change = c
      <3>a. PICK d : d = done[stored]
        OBVIOUS
      <3>1. d \in PersistedType /\ d.change = c /\ persisted' = Append(persisted, d)
        BY <1>7, <2>2, <3>a
      <3>2. \A i \in 1 .. Len(persisted) : Append(persisted, d)[i] = persisted[i]
        BY <1>5, <3>1
      <3>3. /\ Append(persisted, d) \in Seq(PersistedType)
            /\ Len(Append(persisted, d)) = Len(persisted) + 1 /\ Len(persisted) \in Nat
            /\ Append(persisted, d)[Len(persisted) + 1] = d
        BY <1>5, <3>1
      <3> QED
        BY <3>1, <3>2, <3>3
    <2> QED
      BY <1>b, <2>1, <2>2
  <1>9. active' = <<>> \/ (active' = <<active'[1]>> /\ active'[1] \in ActiveType)
    BY <1>2, <1>4
  <1>10. Persisted(c)' \/ Active(c)'
    <2>1. CASE active' = <<AfterRecord>>
      <3>1. <<AfterRecord>> # <<>> /\ <<AfterRecord>>[1] = AfterRecord
        OBVIOUS
      <3> QED
        BY <1>2, <1>a, <2>1, <3>1 DEF Active
    <2>2. CASE active' = <<>>
      <3>1. Len(persisted) + 1 \in 1 .. Len(persisted')
        BY <1>8, <2>2
      <3> QED
        BY <1>8, <2>2, <3>1 DEF Persisted
    <2> QED
      BY <1>b, <2>1, <2>2
  <1>11. ASSUME NEW x, Queued(x) PROVE x = c \/ Queued(x)'
    <2>1. PICK i \in 1 .. Len(queue) : queue[i].change = x
      BY <1>11 DEF Queued
    <2>2. CASE active # <<>>
      BY <1>3, <2>1, <2>2 DEF Queued
    <2>3. CASE active = <<>> /\ i = 1
      BY <1>2, <1>a, <2>1, <2>3
    <2>4. CASE active = <<>> /\ i # 1
      <3>1. /\ Len(queue') = Len(queue) - 1 /\ Len(queue) \in Nat
            /\ \A j \in 1 .. Len(queue) - 1 : queue'[j] = queue[j + 1]
        BY <1>2, <1>3, <1>5, <2>4
      <3>2. i - 1 \in 1 .. Len(queue) - 1 /\ (i - 1) + 1 = i
        BY <2>4, <3>1
      <3>3. queue'[i - 1].change = x
        BY <2>1, <3>1, <3>2
      <3> QED
        BY <3>1, <3>2, <3>3 DEF Queued
    <2> QED
      BY <2>2, <2>3, <2>4
  <1>12. ASSUME NEW x, Active(x) PROVE x = c
    BY <1>2, <1>a, <1>12 DEF Active
  <1>13. ASSUME NEW x, Persisted(x) PROVE Persisted(x)'
    <2>1. PICK i \in 1 .. Len(persisted) : persisted[i].change = x
      BY <1>13 DEF Persisted
    <2>2. i \in 1 .. Len(persisted') /\ persisted'[i] = persisted[i]
      BY <1>8, <2>1
    <2> QED
      BY <2>1, <2>2 DEF Persisted
  <1>14. HeldInv'
    BY <1>6, <1>8, <1>9 DEF HeldInv
  <1>15. /\ \A x : Queued(x) => x = Target.change \/ Queued(x)'
         /\ \A x : Active(x) => x = Target.change
         /\ \A x : Persisted(x) => Persisted(x)'
         /\ \A x : x = Target.change => Active(x)' \/ Persisted(x)'
    BY <1>a, <1>10, <1>11, <1>12, <1>13
  <1> QED
    BY <1>3, <1>4, <1>14, <1>15

\* A DiffChange that is read queues its change if it has content.
LEMMA ChangeRead ==
    ASSUME SentInv, ReaderInv, HeldInv, ReadDiffChange
    PROVE  /\ HeldInv'
           /\ UNCHANGED <<active, persisted>>
           /\ record.change \in 1 .. Len(changes)
           /\ \/ /\ changes[record.change].has_content
                 /\ queue' = Append(queue, [change |-> record.change,
                                            size |-> changes[record.change].size])
              \/ ~changes[record.change].has_content /\ queue' = queue
           /\ \A c : Queued(c) => Queued(c)'
           /\ \A c : c = record.change /\ changes[c].has_content => Queued(c)'
  <1> TypeOK
    BY DEF SentInv, LoopInv
  <1>1. at \in Places /\ At(at) = record /\ ~IsContent(at)
    <2>1. Streaming /\ ~AtEnd /\ record.type = "DiffChange"
      BY DEF ReadDiffChange
    <2> QED
      BY <2>1, NextRecord DEF IsContent
  <1>2. record.change \in 1 .. Len(changes)
    BY <1>1, MetadataNames
  <1>3. record.change \in Nat /\ changes[record.change].size \in Nat
    BY <1>2, SizeOf
  <1>a. PICK entry : entry = [change |-> record.change, size |-> changes[record.change].size]
    OBVIOUS
  <1>4. entry \in QueuedType /\ entry.change = record.change
    BY <1>3, <1>a DEF QueuedType
  <1>5. queue \in Seq(QueuedType) /\ UNCHANGED <<active, persisted>>
    BY DEF HeldInv, ReadDiffChange
  <1>6. \/ changes[record.change].has_content /\ queue' = Append(queue, entry)
        \/ ~changes[record.change].has_content /\ queue' = queue
    BY <1>a DEF ReadDiffChange
  <1>7. ASSUME queue' = Append(queue, entry)
        PROVE  /\ queue' \in Seq(QueuedType)
               /\ \A c : Queued(c) => Queued(c)'
               /\ \A c : c = record.change => Queued(c)'
    <2>1. /\ queue' \in Seq(QueuedType)
          /\ Len(queue') = Len(queue) + 1 /\ Len(queue) \in Nat
          /\ queue'[Len(queue) + 1] = entry
      BY <1>4, <1>5, <1>7
    <2>2. \A i \in 1 .. Len(queue) : queue'[i] = queue[i] /\ i \in 1 .. Len(queue')
      BY <1>4, <1>5, <1>7
    <2>3. \A c : Queued(c) => Queued(c)'
      BY <2>2 DEF Queued
    <2>4. Len(queue) + 1 \in 1 .. Len(queue')
      BY <2>1
    <2>5. \A c : c = record.change => Queued(c)'
      BY <1>4, <2>1, <2>4 DEF Queued
    <2> QED
      BY <2>1, <2>3, <2>5
  <1> QED
    BY <1>2, <1>5, <1>6, <1>7, <1>a DEF HeldInv, Queued

LEMMA AccountStep ==
    SentInv /\ ReaderInv /\ AccountInv /\ [TransferNext]_transferVars => AccountInv'
  <1> SUFFICES ASSUME SentInv, ReaderInv, AccountInv, [TransferNext]_transferVars
               PROVE  AccountInv'
    OBVIOUS
  <1> TypeOK
    BY DEF SentInv, LoopInv
  <1>1. CASE WriteStep \/ Carry \/ Detect \/ GivesUp \/ ParseChunk
    <2>1. UNCHANGED <<queue, active, persisted>> /\ rpc' \notin {"stream", "ok"}
      <3>1. WriteStep => rpc = "carry"
        BY WriterRests DEF ReaderInv, ArrivalInv
      <3> QED
        BY <1>1, <3>1 DEF WriteStep, readerVars, Carry, Detect, GivesUp, ParseChunk, Parsing
    <2> QED
      BY <2>1 DEF AccountInv, HeldInv
  <1>2. CASE ParseEnds
    <2>1. /\ UNCHANGED <<queue, active, persisted>> /\ rpc' = "stream" /\ at' = <<1, 1>>
          /\ active = <<>> /\ persisted = <<>> /\ UNCHANGED vars
      BY <1>2 DEF ParseEnds, ReaderInv, PositionInv
    <2>2. Consumed' = {}
      BY <1>2, NothingConsumed
    <2> QED
      BY <2>1, <2>2 DEF AccountInv, HeldInv, Accounted
  <1>3. CASE ReadDiffChange \/ ReadContent
    <2>1. /\ Streaming /\ ~AtEnd /\ Advance /\ UNCHANGED vars
          /\ rpc = "stream" /\ rpc' = "stream" /\ changes' = changes
      BY <1>3 DEF ReadDiffChange, ReadContent, Streaming, vars
    <2>2. /\ Kept
          /\ \A p \in Places : p \in Consumed' <=> p \in Consumed \/ p = at
          /\ \A p \in Consumed' : p \in Places
      BY <2>1, Consumes
    <2>3. /\ at \in Places /\ At(at) = record
          /\ \A p \in Consumed : p \in Places
      BY <2>1, NextRecord DEF Consumed
    <2>4. \A p \in Places : At(p)' = At(p) /\ (IsContent(p)' <=> IsContent(p))
      BY <2>2 DEF Kept, IsContent
    <2>5. Accounted /\ HeldInv
      BY <2>1 DEF AccountInv
    <2>6. /\ HeldInv'
          /\ \A c : Queued(c) \/ Active(c) \/ Persisted(c)
                      => Queued(c)' \/ Active(c)' \/ Persisted(c)'
          /\ ~IsContent(at) => \A c : c = record.change /\ changes[c].has_content => Queued(c)'
          /\ IsContent(at) \/ UNCHANGED <<active, persisted>>
      <3>1. CASE ReadContent
        <4>1. IsContent(at)
          BY <2>3, <3>1 DEF ReadContent, IsContent
        <4>2. /\ HeldInv'
              /\ \A c : Queued(c) => c = Target.change \/ Queued(c)'
              /\ \A c : Active(c) => c = Target.change
              /\ \A c : Persisted(c) => Persisted(c)'
              /\ \A c : c = Target.change => Active(c)' \/ Persisted(c)'
          BY <2>5, <3>1, ContentRead
        <4> QED
          BY <4>1, <4>2
      <3>2. CASE ReadDiffChange
        <4>1. /\ HeldInv' /\ UNCHANGED <<active, persisted>>
              /\ \A c : Queued(c) => Queued(c)'
              /\ \A c : c = record.change /\ changes[c].has_content => Queued(c)'
          BY <2>5, <3>2, ChangeRead
        <4> QED
          BY <4>1 DEF Active, Persisted
      <3> QED
        BY <1>3, <3>1, <3>2
    <2>7. ASSUME NEW p \in Consumed', ~IsContent(p)', changes'[At(p)'.change].has_content
          PROVE  \A c : c = At(p)'.change => Queued(c)' \/ Active(c)' \/ Persisted(c)'
      <3>1. p \in Places /\ ~IsContent(p) /\ changes[At(p).change].has_content
            /\ At(p)' = At(p)
        BY <2>1, <2>2, <2>4, <2>7
      <3>2. CASE p \in Consumed
        BY <2>5, <2>6, <3>1, <3>2 DEF Accounted
      <3>3. CASE p = at
        BY <2>3, <2>6, <3>1, <3>3
      <3> QED
        BY <2>2, <3>1, <3>2, <3>3
    <2>8. active' # <<>> \/ persisted' # <<>> => \E p \in Consumed' : IsContent(p)'
      <3>1. CASE IsContent(at)
        BY <2>2, <2>3, <2>4, <3>1
      <3>2. CASE UNCHANGED <<active, persisted>>
        <4>1. active # <<>> \/ persisted # <<>>
                => \E p \in Consumed : IsContent(p)
          BY <2>5 DEF Accounted
        <4> QED
          BY <2>2, <2>3, <2>4, <3>2, <4>1
      <3> QED
        BY <2>6, <3>1, <3>2
    <2>9. Accounted'
      BY <2>7, <2>8 DEF Accounted, Queued, Active, Persisted
    <2> QED
      BY <2>1, <2>6, <2>9 DEF AccountInv
  <1>4. CASE NextChunk
    <2>1. /\ UNCHANGED <<vars, rpc, queue, active, persisted>> /\ rpc = "stream"
          /\ changes' = changes
      BY <1>4 DEF NextChunk, Streaming, vars
    <2>2. /\ Kept /\ Consumed' = Consumed
          /\ \A p \in Consumed : p \in Places
      BY <1>4, ChunkConsumed DEF Consumed
    <2>3. \A c : /\ Queued(c)' <=> Queued(c)
                 /\ Active(c)' <=> Active(c)
                 /\ Persisted(c)' <=> Persisted(c)
      BY <2>1 DEF Queued, Active, Persisted
    <2>4. \A p \in Consumed : At(p)' = At(p) /\ (IsContent(p)' <=> IsContent(p))
      BY <2>2 DEF Kept, IsContent
    <2>5. Accounted'
      BY <2>1, <2>2, <2>3, <2>4 DEF AccountInv, Accounted, Queued, Active, Persisted
    <2> QED
      BY <2>1, <2>5 DEF AccountInv, HeldInv
  <1>5. CASE EndOk \/ UNCHANGED transferVars
    <2>1. /\ UNCHANGED <<vars, at, queue, active, persisted>>
          /\ (rpc = "stream" /\ ~Unresolved) \/ rpc' = rpc
          /\ changes' = changes
      BY <1>5 DEF EndOk, transferVars, readerVars, vars
    <2>2. Kept
      BY <2>1, SameRecordsKept DEF vars
    <2>3. Consumed' = Consumed /\ \A p \in Consumed : p \in Places
      BY <2>1, <2>2 DEF Consumed, Kept, Before
    <2>4. \A p \in Consumed : At(p)' = At(p) /\ (IsContent(p)' <=> IsContent(p))
      BY <2>2, <2>3 DEF Kept, IsContent
    <2>5. Accounted => Accounted'
      BY <2>1, <2>3, <2>4 DEF Accounted, Queued, Active, Persisted
    <2>6. rpc' \in {"stream", "ok"} => rpc \in {"stream", "ok"}
      BY <1>5 DEF EndOk, transferVars, readerVars
    <2>7. rpc' = "ok" => ~Unresolved'
      BY <2>1 DEF Unresolved, AccountInv
    <2> QED
      BY <2>1, <2>5, <2>6, <2>7 DEF AccountInv, HeldInv
  <1> QED
    BY <1>1, <1>2, <1>3, <1>4, <1>5, ReadSteps

TransferInv == SentInv /\ ReaderInv /\ AccountInv

LEMMA SentStep == SentInv /\ [TransferNext]_transferVars => SentInv'
  <1> SUFFICES ASSUME SentInv, [TransferNext]_transferVars PROVE SentInv'
    OBVIOUS
  <1>1. [Next]_vars
    BY ReadSteps DEF WriteStep, Carry, Detect, GivesUp, ParseChunk, ParseEnds,
                     ReadDiffChange, ReadContent, NextChunk, EndOk, transferVars
  <1> QED
    BY <1>1, LoopStep, StreamStep, OrderStep DEF SentInv

LEMMA TransferHolds == TransferSpec => []TransferInv
  <1>1. TransferInit => TransferInv
    BY LoopInit, StreamInit, OrderInit, ArrivalInit, ParsedInit, AccountInit
    DEF TransferInit, TransferInv, SentInv, ReaderInv
  <1>2. TransferInv /\ [TransferNext]_transferVars => TransferInv'
    BY SentStep, ArrivalStep, PositionStep, ParsedStep, AccountStep
    DEF TransferInv, ReaderInv
  <1> QED
    BY <1>1, <1>2, PTL DEF TransferSpec

\* Where a run that reports success stands: behind the last record of the
\* last chunk it found.
LEMMA OkIsBehind ==
    ASSUME TransferInv, rpc = "ok"
    PROVE  /\ \A k \in 1 .. diff_files : arrived[k].torn = "eor"
           /\ \A p \in Places : p \in Consumed <=> p[1] <= diff_files
           /\ queue = <<>> /\ active = <<>>
  <1> TypeOK
    BY DEF TransferInv, SentInv, LoopInv
  <1>1. /\ diff_files \in Nat /\ at[1] \in 1 .. diff_files + 1 /\ at[1] > diff_files
        /\ at[2] = 1
        /\ \A k \in 1 .. at[1] - 1 : arrived[k].torn = "eor"
    BY DEF TransferInv, ReaderInv, ArrivalInv, PositionInv
  <1>2. at[1] = diff_files + 1
    BY <1>1
  <1>3. ASSUME NEW p \in Places
        PROVE  p \in Consumed <=> p[1] <= diff_files
    <2>1. p[1] \in 1 .. chunk_number /\ p[2] \in 1 .. Len(Records(p[1]))
      BY PlaceParts
    <2>2. p[1] \in Int /\ p[2] \in Int /\ p[2] >= 1
      BY <2>1
    <2> QED
      BY <1>1, <1>2, <2>2 DEF Consumed, Before
  <1> QED
    BY <1>1, <1>2, <1>3 DEF TransferInv, AccountInv, Unresolved

LEMMA OkIsWhole == TransferInv => DamageIsDetected
  <1>1. ASSUME TransferInv, rpc = "ok",
               NEW i \in 1 .. Len(parsed), changes[parsed[i]].has_content
        PROVE  \E j \in 1 .. Len(persisted) : persisted[j].change = parsed[i]
    <2>1. parsed[i] = i /\ ParsedTo(diff_files) /\ Accounted
      BY <1>1 DEF TransferInv, ReaderInv, ParsedInv, AccountInv
    <2>2. PICK p \in Places : p[1] <= diff_files /\ ~IsContent(p) /\ At(p).change = i
      BY <2>1 DEF ParsedTo
    <2>3. p \in Consumed /\ queue = <<>> /\ active = <<>>
      BY <1>1, <2>2, OkIsBehind
    <2>4. Queued(i) \/ Active(i) \/ Persisted(i)
      BY <1>1, <2>1, <2>2, <2>3 DEF Accounted
    <2>5. ~Queued(i) /\ ~Active(i)
      BY <2>3 DEF Queued, Active
    <2> QED
      BY <2>1, <2>4, <2>5 DEF Persisted
  <1> QED
    BY <1>1, OkIsBehind DEF DamageIsDetected

\* A run that reports success has read every chunk it found to its sentinel
\* and dealt with every content change it knew of: a chunk cut short or an
\* unfinished write never ends well (apply.rs:701).
THEOREM DamageDetected == TransferSpec => []DamageIsDetected
  BY TransferHolds, OkIsWhole, PTL

\* Content on the target means that the whole change list was read: the
\* metadata comes first, so chunks that never arrived can only be content.
THEOREM ContentComesComplete == TransferSpec => []ContentMeansComplete
  <1>1. ASSUME TransferInv, rpc = "ok", persisted # <<>>
        PROVE  parsed = [i \in 1 .. Len(changes) |-> i]
    <2> TypeOK
      BY <1>1 DEF TransferInv, SentInv, LoopInv
    <2>1. PICK p \in Consumed : IsContent(p)
      BY <1>1 DEF TransferInv, AccountInv, Accounted
    <2>2. p \in Places /\ dc_cursor = Len(changes) /\ Len(changes) \in Nat
      BY <1>1, <2>1 DEF Consumed, TransferInv, SentInv, StreamInv, StreamCursors, TypeOK
    <2>3. p[1] <= diff_files /\ diff_files \in Nat
      BY <1>1, <2>1, <2>2, OkIsBehind DEF TransferInv, ReaderInv, ArrivalInv
    <2>4. ASSUME NEW i \in 1 .. Len(changes) PROVE i \in 1 .. Len(parsed)
      <3>1. PICK q \in Places : At(q) = DiffChangeRecord(i)
        BY <1>1, <2>2 DEF TransferInv, SentInv, StreamInv, StreamCovers
      <3>2. At(q).change = i /\ ~IsContent(q)
        BY <3>1 DEF DiffChangeRecord, IsContent
      <3>3. Before(q, p)
        <4>1. ~Before(p, q)
          BY <1>1, <2>1, <2>2, <3>2
          DEF TransferInv, SentInv, StreamInv, StreamOK, MetadataBeforeContent
        <4> QED
          BY <2>1, <2>2, <3>2, <4>1, Trichotomy
      <3>4. q[1] <= diff_files
        <4>1. q[1] \in 1 .. chunk_number /\ p[1] \in 1 .. chunk_number
          BY <2>2, PlaceParts
        <4> QED
          BY <2>3, <3>3, <4>1 DEF Before
      <3> QED
        BY <1>1, <3>2, <3>4 DEF TransferInv, ReaderInv, ParsedInv, ParsedTo
    <2>5. /\ parsed \in Seq(Nat) /\ Len(parsed) <= Len(changes)
          /\ \A i \in 1 .. Len(parsed) : parsed[i] = i
      BY <1>1 DEF TransferInv, ReaderInv, ParsedInv
    <2>6. Len(parsed) = Len(changes)
      <3>1. Len(parsed) \in Nat
        BY <2>5
      <3> QED
        BY <2>2, <2>4, <2>5, <3>1
    <2>7. DOMAIN parsed = 1 .. Len(changes) /\ parsed = [i \in DOMAIN parsed |-> parsed[i]]
      BY <2>5, <2>6
    <2> QED
      BY <2>5, <2>6, <2>7
  <1>2. TransferInv => ContentMeansComplete
    BY <1>1 DEF ContentMeansComplete
  <1> QED
    BY <1>2, TransferHolds, PTL

----------------------------------------------------------------------------
(* Layer 5.  Whose bytes stream_file_contents writes, as long as the files *)
(* have the size the walk saw when their content is read (Drift = {0}).    *)

\* The pieces are the bytes of c from the first to the one before `end'.
Pieced(pieces, c, end) ==
    LET n == Len(pieces)
    IN  /\ n > 0
        /\ pieces[1].from = 0
        /\ pieces[n].from + pieces[n].len = end
        /\ \A i \in 1 .. n : pieces[i].change = c
        /\ \A i \in 1 .. n - 1 : pieces[i].from + pieces[i].len = pieces[i + 1].from

Reached(a) == changes[a.change].size - a.remaining

\* Waiting changes, in the order of the list, with nothing of them read yet.
QueueOk ==
    /\ \A i \in 1 .. Len(queue) :
         /\ HasContent(queue[i].change)
         /\ queue[i].size = changes[queue[i].change].size
         /\ \E p \in Consumed : ~IsContent(p) /\ At(p).change = queue[i].change
         /\ \A p \in Consumed : IsContent(p) => At(p).change < queue[i].change
    /\ \A i, j \in 1 .. Len(queue) : i < j => queue[i].change < queue[j].change

\* The write under way has its change's bytes up to the last one read.
ActiveOk ==
    \A a : active = <<a>> =>
      /\ HasContent(a.change)
      /\ a.remaining > 0
      /\ Pieced(a.pieces, a.change, Reached(a))
      /\ \E p \in Consumed :
           IsContent(p) /\ At(p).change = a.change /\ EndOf(p) = Reached(a)
      /\ \A p \in Consumed :
           IsContent(p) => \/ At(p).change < a.change
                           \/ At(p).change = a.change /\ EndOf(p) <= Reached(a)

\* What is persisted was read to its end, in the order of the list.
PersistedOk ==
    /\ \A p \in Consumed : IsContent(p) => Active(At(p).change) \/ Persisted(At(p).change)
    /\ \A j \in 1 .. Len(persisted) : \E p \in Consumed : Ends(p, persisted[j].change)
    /\ \A i, j \in 1 .. Len(persisted) : i < j => persisted[i].change < persisted[j].change

StreamedOk == QueueOk /\ ActiveOk /\ PersistedOk

ContentInv == NothingButWholeFiles /\ (rpc = "stream" => StreamedOk)

LEMMA PieceAdded ==
    ASSUME NEW pieces \in Seq(PieceType), NEW piece \in PieceType, NEW c,
           piece.change = c,
           (pieces = <<>> /\ piece.from = 0) \/ Pieced(pieces, c, piece.from)
    PROVE  Pieced(Append(pieces, piece), c, piece.from + piece.len)
  <1> PICK n, longer : n = Len(pieces) /\ longer = Append(pieces, piece)
    OBVIOUS
  <1>1. /\ Len(longer) = n + 1 /\ n \in Nat
        /\ longer[n + 1] = piece
        /\ \A i \in 1 .. n : longer[i] = pieces[i]
    OBVIOUS
  <1>2. CASE pieces = <<>> /\ piece.from = 0
    <2>1. n = 0
      BY <1>2
    <2> QED
      BY <1>1, <1>2, <2>1 DEF Pieced
  <1>3. CASE Pieced(pieces, c, piece.from)
    <2>1. /\ n > 0 /\ pieces[1].from = 0 /\ pieces[n].from + pieces[n].len = piece.from
          /\ \A i \in 1 .. n : pieces[i].change = c
          /\ \A i \in 1 .. n - 1 : pieces[i].from + pieces[i].len = pieces[i + 1].from
      BY <1>3 DEF Pieced
    <2>2. longer[1].from = 0
      BY <1>1, <2>1
    <2>3. \A i \in 1 .. n + 1 : longer[i].change = c
      BY <1>1, <2>1
    <2>4. ASSUME NEW i \in 1 .. n
          PROVE  longer[i].from + longer[i].len = longer[i + 1].from
      <3>1. CASE i = n
        BY <1>1, <2>1, <3>1
      <3>2. CASE i # n
        <4>1. i \in 1 .. n - 1 /\ i + 1 \in 1 .. n
          BY <1>1, <3>2
        <4>2. longer[i] = pieces[i] /\ longer[i + 1] = pieces[i + 1]
          BY <1>1, <4>1
        <4> QED
          BY <2>1, <4>1, <4>2
      <3> QED
        BY <3>1, <3>2
    <2>5. n + 1 > 0 /\ (n + 1) - 1 = n
      BY <1>1
    <2>6. longer[n + 1].from + longer[n + 1].len = piece.from + piece.len
      BY <1>1
    <2> QED
      BY <1>1, <2>2, <2>3, <2>4, <2>5, <2>6 DEF Pieced
  <1> QED
    BY <1>2, <1>3

\* What is known of the FileContent record that is read next.
LEMMA NextContentIs ==
    ASSUME Drift = {0}, SentInv, ReaderInv, Streaming, ~AtEnd, record.type = "FileContent"
    PROVE  /\ at \in Places /\ IsContent(at) /\ At(at) = record /\ record \in Record
           /\ HasContent(record.change) /\ changes[record.change].size \in Nat
           /\ dc_cursor = Len(changes)
           /\ record.from + record.len <= changes[record.change].size
           /\ record.len > 0 \/ (record.from = 0 /\ changes[record.change].size = 0)
           /\ \A i \in 1 .. record.change - 1 :
                HasContent(i) => \E p \in Consumed : Ends(p, i)
           /\ \A p \in Consumed :
                /\ p \in Places /\ Before(p, at) /\ At(p) \in Record
                /\ IsContent(p) =>
                     \/ At(p).change < record.change
                     \/ /\ At(p).change = record.change /\ EndOf(p) <= record.from
                        /\ record.from > 0
  <1> TypeOK
    BY DEF SentInv, LoopInv
  <1>1. /\ at \in Places /\ IsContent(at) /\ At(at) = record /\ record \in Record
        /\ \A p \in Places : p \in Consumed <=> Before(p, at)
    BY NextRecord DEF IsContent
  <1>2. HasContent(record.change) /\ FollowsAll(at)
    BY <1>1 DEF SentInv, OrderInv, Sequenced
  <1>3. changes[record.change].size \in Nat
    BY <1>2, SizeOf DEF HasContent
  <1>4. /\ record.from + record.len <= changes[record.change].size
        /\ record.len > 0 \/ (record.from = 0 /\ changes[record.change].size = 0)
        /\ \A i \in 1 .. record.change - 1 :
             HasContent(i) => \E p \in Places : Before(p, at) /\ Ends(p, i)
        /\ record.from = 0 =>
             \A p \in Places : IsContent(p) /\ Before(p, at) => At(p).change < record.change
    BY <1>1, <1>2 DEF FollowsAll, EndOf
  <1>5. ASSUME NEW p \in Consumed
        PROVE  /\ p \in Places /\ Before(p, at) /\ At(p) \in Record
               /\ IsContent(p) =>
                    \/ At(p).change < record.change
                    \/ /\ At(p).change = record.change /\ EndOf(p) <= record.from
                       /\ record.from > 0
    <2>1. p \in Places /\ Before(p, at)
      BY <1>1 DEF Consumed
    <2>2. At(p) \in Record
      BY <2>1, PlaceTypes
    <2>3. IsContent(p) => At(p).type = At(at).type
      BY <1>1 DEF IsContent
    <2>4. IsContent(p) =>
            \/ At(p).change < record.change
            \/ At(p).change = record.change /\ EndOf(p) <= record.from
      BY <1>1, <2>1, <2>3 DEF SentInv, StreamInv, StreamOK, StreamOrdered, EndOf
    <2>5. /\ At(p).change \in Nat /\ record.change \in Nat /\ record.from \in Nat
      BY <1>1, <2>2 DEF Record
    <2> QED
      BY <1>4, <2>1, <2>2, <2>4, <2>5
  <1>6. dc_cursor = Len(changes)
    BY <1>1 DEF SentInv, StreamInv, StreamCursors
  <1>7. \A i \in 1 .. record.change - 1 :
          HasContent(i) => \E p \in Consumed : Ends(p, i)
    BY <1>1, <1>4
  <1> QED
    BY <1>1, <1>2, <1>3, <1>4, <1>5, <1>6, <1>7

\* A fragment that does not begin its file belongs to the active write.
LEMMA ContinuesActive ==
    ASSUME Drift = {0}, SentInv, ReaderInv, HeldInv, StreamedOk,
           Streaming, ~AtEnd, record.type = "FileContent", record.from > 0
    PROVE  /\ active = <<active[1]>> /\ active[1] \in ActiveType
           /\ active[1].change = record.change
           /\ record.from = Reached(active[1])
  <1> PICK c, from, len, size : /\ c = record.change /\ from = record.from
                                /\ len = record.len /\ size = changes[c].size
    OBVIOUS
  <1>1. /\ at \in Places /\ IsContent(at) /\ At(at) = record /\ record \in Record
        /\ from + len <= size
        /\ len > 0 \/ from = 0
        /\ size \in Nat
    BY NextContentIs
  <1>2. \A p \in Consumed :
          /\ p \in Places /\ At(p) \in Record
          /\ IsContent(p) => \/ At(p).change < c
                             \/ At(p).change = c /\ EndOf(p) <= from
    BY NextContentIs
  <1>3. from \in Nat /\ len \in Nat /\ c \in Nat /\ from > 0 /\ len > 0
    BY <1>1 DEF Record
  <1>4. PICK p \in Places : IsContent(p) /\ At(p).change = c /\ EndOf(p) = from
    BY <1>1 DEF SentInv, StreamInv, StreamOK, FragmentsConnect, EndOf
  <1>5. At(p) \in Record /\ At(p).from \in Nat /\ At(p).len \in Nat
    <2>1. At(p) \in Record
      BY PlaceTypes DEF SentInv, LoopInv
    <2> QED
      BY <2>1 DEF Record
  <1>6. p \in Consumed
    <2>1. p # at
      BY <1>1, <1>3, <1>4 DEF EndOf
    <2>2. ~Before(at, p)
      <3>1. SUFFICES ASSUME Before(at, p) PROVE FALSE
        OBVIOUS
      <3>2. At(at).type = At(p).type
        BY <1>1, <1>4 DEF IsContent
      <3>3. from + len <= At(p).from \/ c < At(p).change
        BY <1>1, <1>4, <3>1, <3>2 DEF SentInv, StreamInv, StreamOK, StreamOrdered
      <3>4. At(p).from + At(p).len = from
        BY <1>4 DEF EndOf
      <3> QED
        BY <1>3, <1>4, <1>5, <3>3, <3>4
    <2>3. Before(p, at)
      BY <1>1, <2>1, <2>2, Trichotomy DEF SentInv, LoopInv
    <2> QED
      BY <2>3 DEF Consumed
  <1>7. ~Persisted(c)
    <2>1. SUFFICES ASSUME Persisted(c) PROVE FALSE
      OBVIOUS
    <2>2. PICK q \in Consumed : Ends(q, c)
      BY <2>1 DEF Persisted, StreamedOk, PersistedOk
    <2>3. EndOf(q) = size /\ EndOf(q) <= from
      BY <1>2, <1>3, <2>2 DEF Ends
    <2> QED
      BY <1>1, <1>3, <2>3
  <1>8. Active(c)
    BY <1>4, <1>6, <1>7 DEF StreamedOk, PersistedOk
  <1>a. PICK a : a = active[1]
    OBVIOUS
  <1>9. active = <<a>> /\ a \in ActiveType /\ a.change = c
    BY <1>8, <1>a DEF Active, HeldInv
  <1>10. a.remaining \in Nat /\ Reached(a) = size - a.remaining
    BY <1>9 DEF ActiveType, Reached
  <1>11. from <= Reached(a)
    <2>1. \/ At(p).change < a.change
          \/ At(p).change = a.change /\ EndOf(p) <= Reached(a)
      BY <1>4, <1>6, <1>9 DEF StreamedOk, ActiveOk
    <2> QED
      BY <1>3, <1>4, <1>9, <2>1
  <1>12. Reached(a) <= from
    <2>1. PICK q \in Consumed : IsContent(q) /\ At(q).change = c /\ EndOf(q) = Reached(a)
      BY <1>9 DEF StreamedOk, ActiveOk
    <2> QED
      BY <1>2, <1>3, <2>1
  <1>13. from = Reached(a)
    BY <1>1, <1>3, <1>10, <1>11, <1>12
  <1> QED
    BY <1>9, <1>13, <1>a

\* A fragment that begins its file belongs to the head of the queue.
LEMMA BeginsNext ==
    ASSUME Drift = {0}, SentInv, ReaderInv, HeldInv, Accounted, StreamedOk,
           Streaming, ~AtEnd, record.type = "FileContent", record.from = 0,
           ~NoPendingChange
    PROVE  active = <<>> /\ queue # <<>> /\ queue[1].change = record.change
  <1> PICK c : c = record.change
    OBVIOUS
  <1>1. /\ at \in Places /\ IsContent(at) /\ HasContent(c) /\ c \in Nat
        /\ dc_cursor = Len(changes)
        /\ \A i \in 1 .. c - 1 : HasContent(i) => \E p \in Consumed : Ends(p, i)
        /\ \A p \in Consumed : IsContent(p) => At(p).change < c
    <2>1. record \in Record
      BY NextContentIs
    <2>2. record.from = 0 => ~(record.from > 0)
      OBVIOUS
    <2> QED
      BY <2>1, <2>2, NextContentIs DEF Record
  <1>2. active = <<>>
    <2>1. SUFFICES ASSUME active # <<>> PROVE FALSE
      OBVIOUS
    <2>2. PICK a : active = <<a>> /\ a \in ActiveType
      BY <2>1 DEF HeldInv
    <2>3. HasContent(a.change) /\ a.change \in Nat /\ a.remaining \in Nat /\ a.remaining > 0
      BY <2>2 DEF StreamedOk, ActiveOk, ActiveType
    <2>4. PICK p \in Consumed : IsContent(p) /\ At(p).change = a.change
      BY <2>2 DEF StreamedOk, ActiveOk
    <2>5. a.change \in 1 .. c - 1
      <3>1. a.change < c /\ a.change > 0
        BY <1>1, <2>3, <2>4 DEF HasContent
      <3> QED
        BY <1>1, <2>3, <3>1
    <2>6. PICK q \in Consumed : Ends(q, a.change)
      BY <1>1, <2>3, <2>5
    <2>7. EndOf(q) <= Reached(a)
      <3>1. IsContent(q) /\ At(q).change = a.change
        BY <2>6 DEF Ends
      <3> QED
        BY <2>2, <2>3, <3>1 DEF StreamedOk, ActiveOk
    <2>8. changes[a.change].size \in Nat
      BY <2>3, SizeOf DEF HasContent, SentInv, LoopInv
    <2> QED
      BY <2>3, <2>6, <2>7, <2>8 DEF Ends, Reached
  <1>3. Queued(c)
    <2>1. PICK p \in Places : At(p) = DiffChangeRecord(c)
      BY <1>1 DEF HasContent, SentInv, StreamInv, StreamCovers
    <2>2. ~IsContent(p) /\ At(p).change = c
      BY <2>1 DEF DiffChangeRecord, IsContent
    <2>3. p \in Consumed
      <3>1. ~Before(at, p)
        BY <1>1, <2>2 DEF SentInv, StreamInv, StreamOK, MetadataBeforeContent
      <3>2. Before(p, at)
        BY <1>1, <2>2, <3>1, Trichotomy DEF SentInv, LoopInv
      <3> QED
        BY <3>2 DEF Consumed
    <2>4. Queued(c) \/ Active(c) \/ Persisted(c)
      BY <1>1, <2>2, <2>3 DEF Accounted, HasContent
    <2>5. ~Active(c)
      BY <1>2 DEF Active
    <2>6. ~Persisted(c)
      <3>1. SUFFICES ASSUME Persisted(c) PROVE FALSE
        OBVIOUS
      <3>2. PICK q \in Consumed : Ends(q, c)
        BY <3>1 DEF Persisted, StreamedOk, PersistedOk
      <3> QED
        BY <1>1, <3>2 DEF Ends
    <2> QED
      BY <2>4, <2>5, <2>6
  <1>4. PICK i \in 1 .. Len(queue) : queue[i].change = c
    BY <1>3 DEF Queued
  <1>5. queue \in Seq(QueuedType) /\ queue # <<>> /\ 1 \in 1 .. Len(queue)
    BY <1>4 DEF HeldInv
  <1>6. queue[1].change \in Nat /\ HasContent(queue[1].change)
    <2>1. queue[1] \in QueuedType
      BY <1>5
    <2>2. HasContent(queue[1].change)
      BY <1>5 DEF StreamedOk, QueueOk
    <2> QED
      BY <2>1, <2>2 DEF QueuedType
  <1>7. queue[1].change <= c
    <2>1. i # 1 => 1 < i
      BY <1>5
    <2>2. i # 1 => queue[1].change < queue[i].change
      BY <1>5, <2>1 DEF StreamedOk, QueueOk
    <2> QED
      BY <1>1, <1>4, <1>6, <2>2
  <1>8. ~(queue[1].change < c)
    <2>1. SUFFICES ASSUME queue[1].change < c PROVE FALSE
      OBVIOUS
    <2>2. queue[1].change \in 1 .. c - 1
      BY <1>1, <1>6, <2>1 DEF HasContent
    <2>3. PICK q \in Consumed : Ends(q, queue[1].change)
      BY <1>1, <1>6, <2>2
    <2>4. At(q).change < queue[1].change
      BY <1>5, <2>3 DEF StreamedOk, QueueOk, Ends
    <2> QED
      BY <1>6, <2>3, <2>4 DEF Ends
  <1> QED
    BY <1>1, <1>2, <1>5, <1>6, <1>7, <1>8

\* A FileContent record is the next part of the write it goes to.
LEMMA ContentFits ==
    ASSUME Drift = {0}, SentInv, ReaderInv, HeldInv, Accounted, StreamedOk, ReadContent
    PROVE  /\ Target.change = record.change
           /\ AfterRecord.change = record.change
           /\ Reached(AfterRecord) = EndOf(at)
           /\ record.from <= EndOf(at) /\ record.from \in Nat /\ EndOf(at) \in Nat
           /\ Pieced(AfterRecord.pieces, record.change, EndOf(at))
           /\ active = <<>> => record.from = 0 /\ queue # <<>> /\ queue[1].change = record.change
           /\ active # <<>> => record.from > 0 /\ active[1].change = record.change
  <1> PICK c, from, len, size : /\ c = record.change /\ from = record.from
                                /\ len = record.len /\ size = changes[c].size
    OBVIOUS
  <1>a. Streaming /\ ~AtEnd /\ record.type = "FileContent" /\ ~NoPendingChange
    BY DEF ReadContent
  <1>1. /\ at \in Places /\ At(at) = record /\ record \in Record
        /\ from + len <= size /\ size \in Nat /\ HasContent(c)
    BY <1>a, NextContentIs
  <1>2. c \in Nat /\ from \in Nat /\ len \in Nat
    BY <1>1 DEF Record
  <1>3. /\ Target \in ActiveType /\ AfterRecord \in ActiveType /\ Piece \in PieceType
        /\ AfterRecord.change = Target.change
        /\ AfterRecord.remaining = IF len >= Target.remaining
                                     THEN 0 ELSE Target.remaining - len
        /\ AfterRecord.pieces = Append(Target.pieces, Piece)
        /\ active = <<>> => /\ queue # <<>>
                           /\ Target.change = queue[1].change
                           /\ Target.remaining = queue[1].size /\ Target.pieces = <<>>
        /\ active # <<>> => Target = active[1]
    <2>1. record \in Record /\ ~NoPendingChange
      BY <1>1, <1>a
    <2> QED
      BY <2>1, AfterRecordIs
  <1>4. Piece.change = c /\ Piece.from = from /\ Piece.len = len
    BY DEF Piece
  <1>5. from > 0 => /\ active = <<active[1]>> /\ active[1].change = c
                    /\ from = Reached(active[1])
    BY <1>a, ContinuesActive
  <1>6. ~(from > 0) => active = <<>> /\ queue # <<>> /\ queue[1].change = c /\ from = 0
    <2>1. ~(from > 0) => from = 0
      BY <1>2
    <2> QED
      BY <1>a, <2>1, BeginsNext
  <1>7. active = <<>> <=> ~(from > 0)
    <2>1. \A a : <<a>> # <<>>
      OBVIOUS
    <2> QED
      BY <1>5, <1>6, <2>1
  <1>8. /\ Target.change = c /\ from = size - Target.remaining
        /\ \/ Target.pieces = <<>> /\ Piece.from = 0
           \/ Pieced(Target.pieces, c, Piece.from)
    <2>1. CASE from > 0
      <3>1. Target = active[1] /\ active = <<Target>>
        BY <1>3, <1>5, <1>7, <2>1
      <3>2. Target.change = c /\ from = size - Target.remaining
        BY <1>5, <2>1, <3>1 DEF Reached
      <3>3. Pieced(Target.pieces, Target.change, Reached(Target))
        BY <3>1 DEF StreamedOk, ActiveOk
      <3> QED
        BY <1>4, <1>5, <2>1, <3>1, <3>2, <3>3
    <2>2. CASE ~(from > 0)
      <3>1. Target.change = c /\ Target.remaining = queue[1].size /\ Target.pieces = <<>>
        BY <1>3, <1>6, <2>2
      <3>2. queue[1].size = size
        <4>1. 1 \in 1 .. Len(queue)
          BY <1>6, <2>2 DEF HeldInv
        <4> QED
          BY <1>6, <2>2, <4>1 DEF StreamedOk, QueueOk
      <3> QED
        BY <1>1, <1>2, <1>4, <1>6, <2>2, <3>1, <3>2
    <2> QED
      BY <2>1, <2>2
  <1>9. Target.remaining \in Nat /\ Target.pieces \in Seq(PieceType)
    BY <1>3 DEF ActiveType
  <1>10. AfterRecord.remaining = size - (from + len)
    <2> PICK left, rest : left = Target.remaining /\ rest = AfterRecord.remaining
      OBVIOUS
    <2>1. rest = IF len >= left THEN 0 ELSE left - len
      BY <1>3
    <2>2. left \in Nat /\ from = size - left
      BY <1>8, <1>9
    <2>3. from + len <= size /\ size \in Nat
      BY <1>1
    <2> QED
      BY <1>2, <2>1, <2>2, <2>3
  <1>11. EndOf(at) = from + len
    BY <1>1 DEF EndOf
  <1>12. Reached(AfterRecord) = EndOf(at)
    BY <1>1, <1>2, <1>3, <1>8, <1>10, <1>11 DEF Reached
  <1>13. Pieced(AfterRecord.pieces, c, from + len)
    BY <1>3, <1>4, <1>8, <1>9, PieceAdded
  <1> QED
    BY <1>2, <1>3, <1>5, <1>6, <1>7, <1>8, <1>11, <1>12, <1>13

\* Reading on changes nothing of what was read.
LEMMA ReadOn ==
    ASSUME SentInv, UNCHANGED vars
    PROVE  /\ Places' = Places /\ changes' = changes
           /\ \A p \in Places : /\ At(p)' = At(p) /\ (IsContent(p)' <=> IsContent(p))
                                /\ EndOf(p)' = EndOf(p)
                                /\ \A i : Ends(p, i)' <=> Ends(p, i)
           /\ \A i : HasContent(i)' <=> HasContent(i)
           /\ \A a : Reached(a)' = Reached(a)
           /\ \A pieces, c, end : Pieced(pieces, c, end)' <=> Pieced(pieces, c, end)
           /\ \A pieces, c : Exact(pieces, c)' <=> Exact(pieces, c)
  <1>1. Kept /\ changes' = changes
    BY SameRecordsKept DEF vars
  <1>2. \A p \in Places : At(p)' = At(p) /\ (IsContent(p)' <=> IsContent(p))
    BY <1>1 DEF Kept, IsContent
  <1>3. \A p \in Places : EndOf(p)' = EndOf(p) /\ \A i : Ends(p, i)' <=> Ends(p, i)
    BY <1>1, <1>2 DEF EndOf, Ends
  <1>4. /\ \A i : HasContent(i)' <=> HasContent(i)
        /\ \A a : Reached(a)' = Reached(a)
    BY <1>1 DEF HasContent, Reached
  <1>5. \A pieces, c, end : Pieced(pieces, c, end)' <=> Pieced(pieces, c, end)
    BY DEF Pieced
  <1>6. \A pieces, c : Exact(pieces, c)' <=> Exact(pieces, c)
    BY <1>1 DEF Exact
  <1> QED
    BY <1>1, <1>2, <1>3, <1>4, <1>5, <1>6 DEF Kept

LEMMA ChangeQueued ==
    ASSUME SentInv, ReaderInv, HeldInv, StreamedOk, ReadDiffChange
    PROVE  StreamedOk'
  <1> PICK c, entry : c = record.change
                      /\ entry = [change |-> c, size |-> changes[c].size]
    OBVIOUS
  <1>1. Streaming /\ ~AtEnd /\ Advance /\ UNCHANGED vars /\ record.type = "DiffChange"
    BY DEF ReadDiffChange, vars
  <1>2. /\ at \in Places /\ At(at) = record /\ ~IsContent(at)
        /\ \A p \in Consumed : p \in Places /\ Before(p, at)
    BY <1>1, NextRecord DEF IsContent, Consumed
  <1>3. /\ \A p \in Places : p \in Consumed' <=> p \in Consumed \/ p = at
        /\ \A p \in Consumed' : p \in Places
    BY <1>1, Consumes
  <1>4. \A p \in Consumed : ~IsContent(p)
    BY <1>2 DEF SentInv, StreamInv, StreamOK, MetadataBeforeContent
  <1>5. \A p \in Consumed' : ~IsContent(p)'
    BY <1>1, <1>2, <1>3, <1>4, ReadOn
  <1>6. /\ UNCHANGED <<active, persisted>> /\ c \in 1 .. Len(changes) /\ c \in Nat
        /\ \/ changes[c].has_content /\ queue' = Append(queue, entry)
           \/ queue' = queue
    <2>1. /\ UNCHANGED <<active, persisted>>
          /\ record.change \in 1 .. Len(changes)
          /\ \/ /\ changes[record.change].has_content
                /\ queue' = Append(queue, [change |-> record.change,
                                           size |-> changes[record.change].size])
             \/ ~changes[record.change].has_content /\ queue' = queue
      BY ChangeRead
    <2>2. c \in Nat
      BY <2>1
    <2> QED
      BY <2>1, <2>2
  <1>7. ActiveOk'
    <2>1. \A a : active # <<a>>
      BY <1>4 DEF StreamedOk, ActiveOk
    <2> QED
      BY <1>6, <2>1 DEF ActiveOk
  <1>8. PersistedOk'
    <2>1. Len(persisted) \in Nat
      BY DEF HeldInv
    <2>2. \A j \in 1 .. Len(persisted) : FALSE
      BY <1>4 DEF StreamedOk, PersistedOk, Ends
    <2> QED
      BY <1>5, <1>6, <2>2 DEF PersistedOk
  <1>9. \A x : (\E p \in Consumed : ~IsContent(p) /\ At(p).change = x)
                 => (\E p \in Consumed' : ~IsContent(p)' /\ At(p)'.change = x)
    BY <1>1, <1>2, <1>3, ReadOn
  <1>10. \E p \in Consumed' : ~IsContent(p)' /\ At(p)'.change = c
    BY <1>1, <1>2, <1>3, ReadOn
  <1>11. ASSUME NEW i \in 1 .. Len(queue) PROVE queue[i].change < c
    <2>1. PICK p \in Consumed : ~IsContent(p) /\ At(p).change = queue[i].change
      BY DEF StreamedOk, QueueOk
    <2>2. At(p).type = "DiffChange"
      BY <1>2, <2>1, MetadataNames
    <2> QED
      BY <1>1, <1>2, <2>1, <2>2 DEF SentInv, StreamInv, StreamOK, StreamOrdered
  <1>b. changes' = changes /\ \A i : HasContent(i)' <=> HasContent(i)
    BY <1>1, ReadOn
  <1>12. QueueOk'
    <2>1. CASE queue' = queue
      <3>1. \A i \in 1 .. Len(queue) :
              /\ HasContent(queue[i].change)'
              /\ queue[i].size = changes'[queue[i].change].size
        BY <1>b, <2>1 DEF StreamedOk, QueueOk
      <3>2. \A i \in 1 .. Len(queue) :
              \E p \in Consumed' : ~IsContent(p)' /\ At(p)'.change = queue[i].change
        BY <1>9 DEF StreamedOk, QueueOk
      <3>3. \A i, j \in 1 .. Len(queue) : i < j => queue[i].change < queue[j].change
        BY DEF StreamedOk, QueueOk
      <3> QED
        BY <1>5, <2>1, <3>1, <3>2, <3>3 DEF QueueOk
    <2>2. CASE changes[c].has_content /\ queue' = Append(queue, entry)
      <3>1. /\ Len(queue') = Len(queue) + 1 /\ Len(queue) \in Nat
            /\ queue'[Len(queue) + 1] = entry
            /\ \A i \in 1 .. Len(queue) : queue'[i] = queue[i]
        BY <2>2 DEF HeldInv
      <3>2. entry.change = c /\ entry.size = changes[c].size /\ HasContent(c)
        BY <1>6, <2>2 DEF HasContent
      <3>3. \A i \in 1 .. Len(queue') : queue'[i] = entry \/ (i \in 1 .. Len(queue) /\ queue'[i] = queue[i])
        BY <3>1
      <3>4. \A i \in 1 .. Len(queue') :
              /\ \A x : x = queue'[i].change => HasContent(x)'
              /\ queue'[i].size = changes'[queue'[i].change].size
        BY <1>b, <3>2, <3>3 DEF StreamedOk, QueueOk
      <3>5. \A i \in 1 .. Len(queue') :
              \E p \in Consumed' : ~IsContent(p)' /\ At(p)'.change = queue'[i].change
        BY <1>9, <1>10, <3>2, <3>3 DEF StreamedOk, QueueOk
      <3>6. ASSUME NEW i \in 1 .. Len(queue'), NEW j \in 1 .. Len(queue'), i < j
            PROVE  queue'[i].change < queue'[j].change
        <4>1. i \in 1 .. Len(queue) /\ queue'[i] = queue[i]
          BY <3>1, <3>6
        <4>2. CASE j \in 1 .. Len(queue)
          BY <3>1, <3>6, <4>1, <4>2 DEF StreamedOk, QueueOk
        <4>3. CASE j = Len(queue) + 1
          BY <1>11, <3>1, <3>2, <4>1, <4>3
        <4> QED
          BY <3>1, <4>2, <4>3
      <3>7. \A i \in 1 .. Len(queue') :
              \A p \in Consumed' : IsContent(p)' => At(p)'.change < queue'[i].change
        BY <1>5
      <3>8. \A i, j \in 1 .. Len(queue') : i < j => queue'[i].change < queue'[j].change
        BY <3>6
      <3> HIDE <2>2
      <3> QED
        BY <3>4, <3>5, <3>7, <3>8 DEF QueueOk
    <2> QED
      BY <1>6, <2>1, <2>2
  <1> QED
    BY <1>7, <1>8, <1>12 DEF StreamedOk

LEMMA ContentWritten ==
    ASSUME Drift = {0}, SentInv, ReaderInv, HeldInv, Accounted, StreamedOk,
           NothingButWholeFiles, ReadContent
    PROVE  StreamedOk' /\ NothingButWholeFiles'
  <1> PICK c, end : c = record.change /\ end = EndOf(at)
    OBVIOUS
  <1>1. Streaming /\ ~AtEnd /\ Advance /\ UNCHANGED vars /\ record.type = "FileContent"
    BY DEF ReadContent, vars
  <1>2. /\ at \in Places /\ IsContent(at) /\ At(at).change = c /\ c \in Nat
        /\ HasContent(c) /\ changes[c].size \in Nat
    <2>1. record \in Record
      BY <1>1, NextContentIs
    <2> QED
      BY <1>1, <2>1, NextContentIs DEF Record
  <1>3. /\ \A p \in Places : p \in Consumed' <=> p \in Consumed \/ p = at
        /\ \A p \in Consumed' : p \in Places
    BY <1>1, Consumes
  <1>4. /\ Target.change = c /\ AfterRecord.change = c
        /\ Reached(AfterRecord) = end
        /\ record.from <= end /\ record.from \in Nat /\ end \in Nat
        /\ Pieced(AfterRecord.pieces, c, end)
        /\ active = <<>> => queue # <<>> /\ queue[1].change = c
        /\ active # <<>> => active[1].change = c
    BY ContentFits
  <1>5. \A p \in Consumed :
          /\ p \in Places /\ At(p) \in Record
          /\ IsContent(p) => \/ At(p).change < c
                             \/ At(p).change = c /\ EndOf(p) <= record.from
    BY <1>1, NextContentIs
  <1>6. \A p \in Consumed' :
          /\ p \in Places
          /\ IsContent(p)' => /\ p = at \/ (p \in Consumed /\ IsContent(p))
                              /\ \/ At(p)'.change < c
                                 \/ At(p)'.change = c /\ EndOf(p)' <= end
    <2> SUFFICES ASSUME NEW p \in Consumed'
                 PROVE  /\ p \in Places
                        /\ IsContent(p)' => /\ p = at \/ (p \in Consumed /\ IsContent(p))
                                            /\ \/ At(p)'.change < c
                                               \/ At(p)'.change = c /\ EndOf(p)' <= end
      OBVIOUS
    <2>1. /\ p \in Places /\ (IsContent(p)' <=> IsContent(p))
          /\ At(p)' = At(p) /\ EndOf(p)' = EndOf(p)
      BY <1>1, <1>3, ReadOn
    <2>2. CASE p = at
      BY <1>2, <1>4, <2>1, <2>2
    <2>3. CASE p \in Consumed
      <3>1. IsContent(p) => \/ At(p).change < c
                            \/ At(p).change = c /\ EndOf(p) <= record.from
        BY <1>5, <2>3
      <3>2. At(p).from \in Nat /\ At(p).len \in Nat
        BY <1>5, <2>3 DEF Record
      <3>3. EndOf(p) \in Nat
        BY <3>2 DEF EndOf
      <3> QED
        BY <1>4, <2>1, <2>3, <3>1, <3>3
    <2> QED
      BY <1>3, <2>1, <2>2, <2>3
  <1>a. PICK q \in Places : q = at /\ q \in Consumed'
    BY <1>2, <1>3
  <1>7. /\ IsContent(q)' /\ At(q)'.change = c /\ EndOf(q)' = end
        /\ end = changes[c].size => Ends(q, c)'
    <2>1. /\ IsContent(q)' /\ At(q)'.change = c /\ EndOf(q)' = end
          /\ Ends(q, c)' <=> Ends(q, c)
      BY <1>1, <1>2, <1>a, ReadOn
    <2>2. end = changes[c].size => Ends(q, c)
      BY <1>2, <1>a DEF Ends
    <2> QED
      BY <2>1, <2>2
  <1>8. /\ \A x : Active(x) => x = c
        /\ \A x : Persisted(x) => Persisted(x)'
        /\ Active(c)' \/ Persisted(c)'
        /\ queue' = IF active = <<>> THEN Tail(queue) ELSE queue
        /\ \/ /\ AfterRecord.remaining = 0
              /\ active' = <<>>
              /\ \E stored \in BOOLEAN :
                   persisted' = Append(persisted, [change |-> Target.change,
                                                   pieces |-> AfterRecord.pieces,
                                                   stored |-> stored])
           \/ /\ AfterRecord.remaining # 0
              /\ active' = <<AfterRecord>>
              /\ persisted' = persisted
    BY <1>4, ContentRead
  <1>9. AfterRecord.remaining \in Nat
    <2>1. record \in Record /\ ~NoPendingChange
      BY <1>1, NextContentIs DEF ReadContent
    <2>2. AfterRecord \in ActiveType
      BY <2>1, AfterRecordIs
    <2> QED
      BY <2>2 DEF ActiveType
  <1>10. QueueOk'
    <2>1. \A i \in 1 .. Len(queue) :
            /\ HasContent(queue[i].change)
            /\ queue[i].size = changes[queue[i].change].size
            /\ \E p \in Consumed : ~IsContent(p) /\ At(p).change = queue[i].change
            /\ \A p \in Consumed : IsContent(p) => At(p).change < queue[i].change
      BY DEF StreamedOk, QueueOk
    <2>2. \A i, j \in 1 .. Len(queue) : i < j => queue[i].change < queue[j].change
      BY DEF StreamedOk, QueueOk
    <2>3. PICK s \in {0, 1} :
            /\ Len(queue') = Len(queue) - s
            /\ \A i \in 1 .. Len(queue') :
                 /\ i + s \in 1 .. Len(queue) /\ queue'[i] = queue[i + s]
                 /\ c < queue[i + s].change
      <3>1. queue \in Seq(QueuedType)
        BY DEF HeldInv
      <3>2. CASE active = <<>>
        <4>1. queue # <<>> /\ queue[1].change = c /\ queue' = Tail(queue)
          BY <1>4, <1>8, <3>2
        <4>2. /\ Len(queue') = Len(queue) - 1 /\ Len(queue) \in Nat /\ Len(queue) > 0
              /\ \A i \in 1 .. Len(queue') : queue'[i] = queue[i + 1]
          BY <3>1, <4>1
        <4>3. ASSUME NEW i \in 1 .. Len(queue')
              PROVE  i + 1 \in 1 .. Len(queue) /\ c < queue[i + 1].change
          <5>1. i + 1 \in 1 .. Len(queue) /\ 1 \in 1 .. Len(queue) /\ 1 < i + 1
            BY <4>2
          <5> QED
            BY <2>2, <4>1, <5>1
        <4> QED
          BY <4>2, <4>3
      <3>3. CASE active # <<>>
        <4>1. queue' = queue /\ active[1].change = c
          BY <1>4, <1>8, <3>3
        <4>a. PICK a : active = <<a>> /\ a.change = c
          BY <3>3, <4>1 DEF HeldInv
        <4>2. PICK p \in Consumed : IsContent(p) /\ At(p).change = c
          BY <4>a DEF StreamedOk, ActiveOk
        <4>3. \A i \in 1 .. Len(queue) : c < queue[i].change
          BY <2>1, <4>2
        <4>4. Len(queue) \in Nat
          BY <3>1
        <4>5. \A i \in 1 .. Len(queue) : i + 0 = i
          BY <4>4
        <4>6. Len(queue') = Len(queue) - 0
          BY <4>1, <4>4
        <4> QED
          BY <4>1, <4>3, <4>5, <4>6
      <3> QED
        BY <3>2, <3>3
    <2>4. \A x : (\E p \in Consumed : ~IsContent(p) /\ At(p).change = x)
                   => (\E p \in Consumed' : ~IsContent(p)' /\ At(p)'.change = x)
      BY <1>1, <1>3, <1>5, ReadOn
    <2>b. changes' = changes /\ \A i : HasContent(i)' <=> HasContent(i)
      BY <1>1, ReadOn
    <2>5. \A i \in 1 .. Len(queue') :
            /\ \A x : x = queue'[i].change => HasContent(x)'
            /\ queue'[i].size = changes'[queue'[i].change].size
      BY <2>1, <2>3, <2>b
    <2>6. \A i \in 1 .. Len(queue') :
            \E p \in Consumed' : ~IsContent(p)' /\ At(p)'.change = queue'[i].change
      BY <2>1, <2>3, <2>4
    <2>7. ASSUME NEW i \in 1 .. Len(queue'), NEW p \in Consumed', IsContent(p)'
          PROVE  At(p)'.change < queue'[i].change
      <3>1. queue'[i] = queue[i + s] /\ c < queue[i + s].change /\ i + s \in 1 .. Len(queue)
        BY <2>3
      <3>2. CASE p = at
        <4>1. At(p)'.change = c
          BY <1>1, <1>2, <3>2, ReadOn
        <4> QED
          BY <3>1, <4>1
      <3>3. CASE p \in Consumed /\ IsContent(p)
        <4>1. At(p)' = At(p) /\ At(p).change < queue[i + s].change
          BY <1>1, <1>5, <2>1, <3>1, <3>3, ReadOn
        <4> QED
          BY <3>1, <4>1
      <3> QED
        BY <1>6, <2>7, <3>2, <3>3
    <2>8. ASSUME NEW i \in 1 .. Len(queue'), NEW j \in 1 .. Len(queue'), i < j
          PROVE  queue'[i].change < queue'[j].change
      <3>1. i + s \in 1 .. Len(queue) /\ j + s \in 1 .. Len(queue) /\ i + s < j + s
        BY <2>3, <2>8
      <3> QED
        BY <2>2, <2>3, <3>1
    <2> QED
      BY <2>5, <2>6, <2>7, <2>8 DEF QueueOk
  <1>11. \A p \in Consumed' : IsContent(p)' =>
           \A x : x = At(p)'.change => Active(x)' \/ Persisted(x)'
    <2> SUFFICES ASSUME NEW p \in Consumed', IsContent(p)'
                 PROVE  \A x : x = At(p)'.change => Active(x)' \/ Persisted(x)'
      OBVIOUS
    <2>1. CASE p = q
      BY <1>7, <1>8, <2>1
    <2>2. CASE p \in Consumed /\ IsContent(p)
      <3>1. At(p)' = At(p)
        BY <1>1, <1>5, <2>2, ReadOn
      <3>2. Active(At(p).change) \/ Persisted(At(p).change)
        BY <2>2 DEF StreamedOk, PersistedOk
      <3> QED
        BY <1>8, <3>1, <3>2
    <2> QED
      BY <1>6, <1>a, <2>1, <2>2
  <1>12. \A i : (\E p \in Consumed : Ends(p, i)) => (\E p \in Consumed' : Ends(p, i)')
    BY <1>1, <1>3, <1>5, ReadOn
  <1>13. \A j \in 1 .. Len(persisted) :
           /\ \E p \in Consumed : Ends(p, persisted[j].change)
           /\ persisted[j].change \in Nat
           /\ Exact(persisted[j].pieces, persisted[j].change)
    <2>1. persisted \in Seq(PersistedType)
      BY DEF HeldInv
    <2>2. \A j \in 1 .. Len(persisted) : persisted[j].change \in Nat
      <3>1. \A j \in 1 .. Len(persisted) : persisted[j] \in PersistedType
        BY <2>1
      <3> QED
        BY <3>1 DEF PersistedType
    <2> QED
      BY <2>2 DEF StreamedOk, PersistedOk, NothingButWholeFiles
  <1>14. \A i, j \in 1 .. Len(persisted) : i < j => persisted[i].change < persisted[j].change
    BY DEF StreamedOk, PersistedOk
  <1>15. \A pieces, x : Exact(pieces, x)' <=> Exact(pieces, x)
    BY <1>1, ReadOn
  <1>16. CASE AfterRecord.remaining # 0 /\ active' = <<AfterRecord>> /\ persisted' = persisted
    <2>1. ActiveOk'
      <3>a. PICK a : a = AfterRecord
        OBVIOUS
      <3>1. /\ HasContent(a.change)' /\ a.change = c /\ a.remaining > 0
            /\ Pieced(a.pieces, c, end)' /\ Reached(a)' = end
        BY <1>1, <1>2, <1>4, <1>9, <1>16, <3>a, ReadOn
      <3>2. \E p \in Consumed' :
              IsContent(p)' /\ At(p)'.change = a.change /\ EndOf(p)' = Reached(a)'
        BY <1>7, <1>a, <3>1
      <3>3. \A p \in Consumed' :
              IsContent(p)' => \/ At(p)'.change < a.change
                               \/ At(p)'.change = a.change /\ EndOf(p)' <= Reached(a)'
        BY <1>6, <3>1
      <3>4. \A b : active' = <<b>> => b = a
        BY <1>16, <3>a
      <3>5. Pieced(a.pieces, a.change, Reached(a))'
        BY <3>1 DEF Pieced
      <3> QED
        BY <3>1, <3>2, <3>3, <3>4, <3>5 DEF ActiveOk
    <2>2. PersistedOk'
      BY <1>11, <1>12, <1>13, <1>14, <1>16 DEF PersistedOk
    <2>3. NothingButWholeFiles'
      BY <1>13, <1>15, <1>16 DEF NothingButWholeFiles
    <2> QED
      BY <1>10, <2>1, <2>2, <2>3 DEF StreamedOk
  <1>17. ASSUME AfterRecord.remaining = 0, active' = <<>>, NEW stored \in BOOLEAN,
                persisted' = Append(persisted, [change |-> Target.change,
                                                pieces |-> AfterRecord.pieces,
                                                stored |-> stored])
         PROVE  StreamedOk' /\ NothingButWholeFiles'
    <2>a. PICK d, n : /\ d = [change |-> Target.change, pieces |-> AfterRecord.pieces,
                              stored |-> stored]
                      /\ n = Len(persisted)
      OBVIOUS
    <2>1. d.change = c /\ d.pieces = AfterRecord.pieces
      BY <1>4, <2>a
    <2>2. /\ Len(persisted') = n + 1 /\ n \in Nat /\ persisted'[n + 1] = d
          /\ \A i \in 1 .. n : persisted'[i] = persisted[i]
      BY <1>17, <2>a DEF HeldInv
    <2>3. end = changes[c].size
      BY <1>2, <1>4, <1>17 DEF Reached
    <2>4. Exact(d.pieces, c)
      BY <1>4, <2>1, <2>3 DEF Exact, Pieced
    <2>5. \A j \in 1 .. n + 1 : j = n + 1 \/ j \in 1 .. n
      BY <2>2
    <2>6. NothingButWholeFiles'
      <3>1. \A j \in 1 .. n + 1 : Exact(persisted'[j].pieces, persisted'[j].change)
        BY <1>13, <2>1, <2>2, <2>4, <2>5, <2>a
      <3>2. \A j \in 1 .. n + 1 : \A d2, x : d2 = persisted'[j].pieces /\ x = persisted'[j].change
               => Exact(d2, x)'
        BY <1>15, <3>1
      <3> QED
        BY <2>2, <3>2 DEF NothingButWholeFiles
    <2>7. \A i \in 1 .. n : persisted[i].change < c
      <3> SUFFICES ASSUME NEW i \in 1 .. n PROVE persisted[i].change < c
        OBVIOUS
      <3> PICK x : x = persisted[i].change
        OBVIOUS
      <3>1. PICK p \in Consumed : Ends(p, x)
        BY <1>13, <2>a
      <3>2. x \in Nat /\ IsContent(p) /\ At(p).change = x /\ EndOf(p) = changes[x].size
        BY <1>13, <2>a, <3>1 DEF Ends
      <3>3. x < c \/ (x = c /\ EndOf(p) <= record.from /\ record.from > 0)
        BY <1>1, <3>2, NextContentIs
      <3>4. ~(x = c /\ EndOf(p) <= record.from /\ record.from > 0)
        <4>1. SUFFICES ASSUME x = c, EndOf(p) <= record.from, record.from > 0 PROVE FALSE
          OBVIOUS
        <4>2. record \in Record /\ record.len > 0
              /\ record.from + record.len <= changes[c].size
          BY <1>1, <4>1, NextContentIs
        <4>3. record.from \in Nat /\ record.len \in Nat
          BY <4>2 DEF Record
        <4> QED
          BY <1>2, <3>2, <4>1, <4>2, <4>3
      <3> QED
        BY <3>3, <3>4
    <2>8. PersistedOk'
      <3>1. \A j \in 1 .. n + 1 : \A x : x = persisted'[j].change
              => \E p \in Consumed' : Ends(p, x)'
        BY <1>7, <1>12, <1>13, <1>a, <2>1, <2>2, <2>3, <2>5, <2>a
      <3>2. ASSUME NEW i \in 1 .. n + 1, NEW j \in 1 .. n + 1, i < j
            PROVE  persisted'[i].change < persisted'[j].change
        <4>1. i \in 1 .. n /\ persisted'[i] = persisted[i]
          BY <2>2, <3>2
        <4>2. CASE j \in 1 .. n
          BY <1>14, <2>2, <2>a, <3>2, <4>1, <4>2
        <4>3. CASE j = n + 1
          BY <2>1, <2>2, <2>7, <4>1, <4>3
        <4> QED
          BY <2>5, <4>2, <4>3
      <3> QED
        BY <1>11, <2>2, <3>1, <3>2 DEF PersistedOk
    <2>9. ActiveOk'
      BY <1>17 DEF ActiveOk
    <2> QED
      BY <1>10, <2>6, <2>8, <2>9 DEF StreamedOk
  <1> QED
    BY <1>8, <1>16, <1>17

LEMMA ContentInit == TransferInit => ContentInv
  BY DEF TransferInit, ContentInv, NothingButWholeFiles

LEMMA ContentStep ==
    Drift = {0} /\ TransferInv /\ ContentInv /\ [TransferNext]_transferVars => ContentInv'
  <1> SUFFICES ASSUME Drift = {0}, TransferInv, ContentInv, [TransferNext]_transferVars
               PROVE  ContentInv'
    OBVIOUS
  <1>0. SentInv /\ ReaderInv /\ HeldInv /\ TypeOK
    BY DEF TransferInv, SentInv, LoopInv, AccountInv
  <1>1. CASE WriteStep
    <2>1. rpc = "carry" /\ rpc' = "carry"
      BY <1>0, <1>1, WriterRests DEF ReaderInv, ArrivalInv, WriteStep, readerVars
    <2>2. persisted' = <<>>
      BY <1>0, <1>1, <2>1 DEF ReaderInv, ArrivalInv, Untouched, WriteStep, readerVars
    <2>3. NothingButWholeFiles'
      BY <2>2 DEF NothingButWholeFiles
    <2> QED
      BY <2>1, <2>3 DEF ContentInv
  <1>2. CASE Carry \/ Detect \/ GivesUp \/ ParseChunk \/ EndOk
    <2>1. UNCHANGED <<vars, persisted>> /\ rpc' # "stream"
      BY <1>2 DEF Carry, Detect, GivesUp, ParseChunk, Parsing, EndOk
    <2>2. NothingButWholeFiles'
      BY <1>0, <2>1, ReadOn DEF ContentInv, NothingButWholeFiles
    <2> QED
      BY <2>1, <2>2 DEF ContentInv
  <1>3. CASE ParseEnds
    <2>1. /\ UNCHANGED <<vars, queue, active, persisted>> /\ at' = <<1, 1>>
          /\ queue = <<>> /\ active = <<>> /\ persisted = <<>>
      BY <1>0, <1>3 DEF ParseEnds, ReaderInv, PositionInv
    <2>2. Consumed' = {}
      BY <1>0, <1>3, NothingConsumed
    <2>3. StreamedOk'
      BY <2>1, <2>2 DEF StreamedOk, QueueOk, ActiveOk, PersistedOk
    <2>4. NothingButWholeFiles'
      BY <2>1 DEF NothingButWholeFiles
    <2> QED
      BY <2>3, <2>4 DEF ContentInv
  <1>4. CASE ReadDiffChange
    <2>1. rpc = "stream" /\ UNCHANGED <<vars, persisted>>
      BY <1>4 DEF ReadDiffChange, Streaming
    <2>2. StreamedOk'
      BY <1>0, <1>4, <2>1, ChangeQueued DEF ContentInv
    <2>3. NothingButWholeFiles'
      BY <1>0, <2>1, ReadOn DEF ContentInv, NothingButWholeFiles
    <2> QED
      BY <2>2, <2>3 DEF ContentInv
  <1>5. CASE ReadContent
    <2>1. rpc = "stream"
      BY <1>5 DEF ReadContent, Streaming
    <2>2. Accounted /\ StreamedOk /\ NothingButWholeFiles
      BY <2>1 DEF TransferInv, AccountInv, ContentInv
    <2> QED
      BY <1>0, <1>5, <2>2, ContentWritten DEF ContentInv
  <1>6. CASE NextChunk \/ UNCHANGED transferVars
    <2>1. UNCHANGED <<vars, rpc, queue, active, persisted>> /\ changes' = changes
      BY <1>6 DEF NextChunk, transferVars, readerVars, vars
    <2>2. Consumed' = Consumed /\ \A p \in Consumed : p \in Places
      <3>1. CASE NextChunk
        BY <1>0, <3>1, ChunkConsumed DEF Consumed
      <3>2. CASE UNCHANGED transferVars
        <4>1. at' = at
          BY <3>2 DEF transferVars, readerVars
        <4> QED
          BY <1>0, <2>1, <4>1, ReadOn DEF Consumed, Before
      <3> QED
        BY <1>6, <3>1, <3>2
    <2>3. /\ \A p \in Consumed : /\ At(p)' = At(p) /\ (IsContent(p)' <=> IsContent(p))
                                 /\ EndOf(p)' = EndOf(p)
                                 /\ \A i : Ends(p, i)' <=> Ends(p, i)
          /\ \A i : HasContent(i)' <=> HasContent(i)
          /\ \A a : Reached(a)' = Reached(a)
          /\ \A pieces, c, end : Pieced(pieces, c, end)' <=> Pieced(pieces, c, end)
          /\ \A pieces, c : Exact(pieces, c)' <=> Exact(pieces, c)
      BY <1>0, <2>1, <2>2, ReadOn
    <2>4. QueueOk => QueueOk'
      BY <2>1, <2>2, <2>3 DEF QueueOk
    <2>5. ActiveOk => ActiveOk'
      <3>1. \A a : Pieced(a.pieces, a.change, Reached(a))' <=> Pieced(a.pieces, a.change, Reached(a))
        BY <2>3 DEF Pieced
      <3> QED
        BY <2>1, <2>2, <2>3, <3>1 DEF ActiveOk
    <2>6. PersistedOk => PersistedOk'
      BY <2>1, <2>2, <2>3 DEF PersistedOk, Active, Persisted
    <2>7. NothingButWholeFiles => NothingButWholeFiles'
      BY <2>1, <2>3 DEF NothingButWholeFiles
    <2> QED
      BY <2>1, <2>4, <2>5, <2>6, <2>7 DEF ContentInv, StreamedOk
  <1> QED
    BY <1>1, <1>2, <1>3, <1>4, <1>5, <1>6, ReadSteps

LEMMA ContentHolds ==
    ASSUME Drift = {0}
    PROVE  TransferSpec => [](TransferInv /\ ContentInv)
  <1>1. TransferInv /\ ContentInv /\ [TransferNext]_transferVars => ContentInv'
    BY ContentStep
  <1> QED
    BY <1>1, ContentInit, TransferHolds, PTL DEF TransferSpec

\* As long as the files keep the size the walk saw, a target file is only
\* ever replaced by the whole content its change stands for, whatever the
\* chunks were cut into and whatever the medium did to them (apply.rs:701).
THEOREM WholeFilesOnly ==
    ASSUME Drift = {0}
    PROVE  TransferSpec => []NothingButWholeFiles
  <1>1. ContentInv => NothingButWholeFiles
    BY DEF ContentInv
  <1> QED
    BY ContentHolds, <1>1, PTL

----------------------------------------------------------------------------
(* The delivery that all of this implements.                               *)

Last == IF persisted = <<>> THEN 0 ELSE persisted[Len(persisted)].change

Scope == IF rpc = "parse" THEN 0 ELSE Len(parsed)

Dealt == [i \in 1 .. Len(persisted) |->
            [change |-> IF Exact(persisted[i].pieces, persisted[i].change)
                          THEN persisted[i].change ELSE 0,
             stored |-> persisted[i].stored]]

Verdict == IF rpc \in {"ok", "error"} THEN rpc
           ELSE IF rpc = "stream" THEN "running" ELSE "idle"

\* Persisted changes come in order: the last is the highest.
LEMMA LastIsHighest ==
    ASSUME HeldInv, PersistedOk
    PROVE  Last \in Nat /\ \A c : Persisted(c) => c <= Last
  <1> PICK n : n = Len(persisted)
    OBVIOUS
  <1>1. n \in Nat /\ \A j \in 1 .. n : persisted[j] \in PersistedType
    BY DEF HeldInv
  <1>2. \A j \in 1 .. n : persisted[j].change \in Nat
    BY <1>1 DEF PersistedType
  <1>3. CASE persisted = <<>>
    <2>1. n = 0
      BY <1>3
    <2> QED
      BY <1>3, <2>1 DEF Last, Persisted
  <1>4. CASE persisted # <<>>
    <2>1. n \in 1 .. n /\ Last = persisted[n].change
      BY <1>1, <1>4 DEF Last, HeldInv
    <2>2. ASSUME NEW j \in 1 .. n PROVE persisted[j].change <= Last
      <3>1. j < n => persisted[j].change < persisted[n].change
        BY <2>1 DEF PersistedOk
      <3> QED
        BY <1>1, <1>2, <2>1, <3>1
    <2> QED
      BY <1>2, <2>1, <2>2 DEF Persisted
  <1> QED
    BY <1>3, <1>4

LEMMA LastDeliveredIs ==
    ASSUME HeldInv, NothingButWholeFiles
    PROVE  Delivery!LastDelivered = Last
  <1> PICK n : n = Len(persisted)
    OBVIOUS
  <1>1. n \in Nat
    BY DEF HeldInv
  <1>2. Len(Dealt) = n /\ \A i \in 1 .. n : Dealt[i].change = persisted[i].change
    BY <1>1 DEF Dealt, NothingButWholeFiles
  <1>3. Dealt = <<>> <=> persisted = <<>>
    <2>1. n = 0 <=> persisted = <<>>
      BY DEF HeldInv
    <2>2. n = 0 => Dealt = <<>>
      BY DEF Dealt
    <2>3. Dealt = <<>> => n = 0
      <3>1. Len(<<>>) = 0
        OBVIOUS
      <3> QED
        BY <1>2, <3>1
    <2> QED
      BY <2>1, <2>2, <2>3
  <1>4. persisted # <<>> => n \in 1 .. n
    BY <1>1 DEF HeldInv
  <1>5. Delivery!LastDelivered = IF Dealt = <<>> THEN 0 ELSE Dealt[Len(Dealt)].change
    BY DEF Delivery!LastDelivered, Dealt
  <1> QED
    BY <1>2, <1>3, <1>4, <1>5 DEF Last

LEMMA NextContentFound ==
    ASSUME NEW last \in Nat, NEW c \in Nat, c > last, c <= Scope, Scope \in Nat,
           changes[c].has_content,
           \A i \in last + 1 .. c - 1 : ~changes[i].has_content
    PROVE  Delivery!NextContent(last) = c
  <1> DEFINE rest == {i \in last + 1 .. Scope : changes[i].has_content}
  <1>1. c \in rest
    OBVIOUS
  <1>2. \A j \in rest : c <= j /\ j \in Nat
    OBVIOUS
  <1>3. Delivery!NextContent(last)
          = IF rest = {} THEN 0 ELSE CHOOSE i \in rest : \A j \in rest : i <= j
    BY DEF Delivery!NextContent, Scope
  <1> HIDE DEF rest
  <1>4. \A i \in rest : (\A j \in rest : i <= j) => i = c
    BY <1>1, <1>2
  <1>5. (CHOOSE i \in rest : \A j \in rest : i <= j) = c
    BY <1>1, <1>2, <1>4
  <1> QED
    BY <1>1, <1>3, <1>5

LEMMA NoNextContent ==
    ASSUME NEW last \in Nat, \A i \in last + 1 .. Scope : ~changes[i].has_content
    PROVE  Delivery!NextContent(last) = 0
  BY DEF Delivery!NextContent, Scope

\* What is delivered is seen in `changes' and `persisted' alone.
LEMMA DealtKept ==
    ASSUME UNCHANGED <<changes, persisted>>
    PROVE  Dealt' = Dealt
  <1>1. \A pieces, c : Exact(pieces, c)' <=> Exact(pieces, c)
    BY DEF Exact
  <1> QED
    BY <1>1 DEF Dealt

\* A write that is finished is the delivery of the next change with content.
LEMMA FinishDelivers ==
    ASSUME Drift = {0}, TransferInv, ContentInv, ContentInv', ReadContent,
           active' = <<>>
    PROVE  Delivery!Deliver
  <1> PICK c, n : c = record.change /\ n = Len(persisted)
    OBVIOUS
  <1>0. /\ rpc = "stream" /\ rpc' = "stream" /\ Streaming /\ ~AtEnd /\ Advance
        /\ UNCHANGED <<vars, parsed>> /\ changes' = changes
        /\ record.type = "FileContent"
    BY DEF ReadContent, Streaming, vars
  <1>1. /\ SentInv /\ ReaderInv /\ HeldInv /\ TypeOK /\ Accounted
        /\ StreamedOk /\ NothingButWholeFiles /\ PersistedOk
        /\ PersistedOk' /\ NothingButWholeFiles'
    BY <1>0 DEF TransferInv, SentInv, LoopInv, AccountInv, ContentInv, StreamedOk
  <1>2. /\ at \in Places /\ IsContent(at) /\ HasContent(c) /\ dc_cursor = Len(changes)
        /\ \A i \in 1 .. c - 1 : HasContent(i) => \E p \in Consumed : Ends(p, i)
    BY <1>0, <1>1, NextContentIs
  <1>3. Target.change = c
    BY <1>1, ContentFits
  <1>4. PICK stored \in BOOLEAN :
          persisted' = Append(persisted, [change |-> c, pieces |-> AfterRecord.pieces,
                                          stored |-> stored])
    <2>1. <<AfterRecord>> # <<>>
      OBVIOUS
    <2> QED
      BY <1>1, <1>3, <2>1, ContentRead
  <1>5. /\ n \in Nat /\ Len(persisted') = n + 1
        /\ persisted'[n + 1].change = c /\ persisted'[n + 1].stored = stored
        /\ \A i \in 1 .. n : persisted'[i] = persisted[i]
    BY <1>1, <1>4 DEF HeldInv
  <1>6. c \in 1 .. Len(changes) /\ c \in Nat /\ changes[c].has_content
    BY <1>2 DEF HasContent
  <1>7. Last \in Nat /\ \A x : Persisted(x) => x <= Last
    BY <1>1, LastIsHighest
  <1>8. Last < c
    <2>1. CASE persisted = <<>>
      BY <1>6, <2>1 DEF Last, HasContent
    <2>2. CASE persisted # <<>>
      <3>1. n \in 1 .. n /\ Last = persisted[n].change
        BY <1>1, <1>5, <2>2 DEF Last, HeldInv
      <3>2. persisted'[n].change < persisted'[n + 1].change
        BY <1>1, <1>5, <3>1 DEF PersistedOk
      <3> QED
        BY <1>5, <3>1, <3>2
    <2> QED
      BY <2>1, <2>2
  <1>9. ASSUME NEW i \in Last + 1 .. c - 1 PROVE ~changes[i].has_content
    <2>1. SUFFICES ASSUME changes[i].has_content PROVE FALSE
      OBVIOUS
    <2>2. i \in 1 .. c - 1 /\ HasContent(i) /\ i > Last
      BY <1>6, <1>7, <2>1 DEF HasContent, TypeOK
    <2>3. PICK p \in Consumed : Ends(p, i)
      BY <1>2, <2>2
    <2>4. Active(i) \/ Persisted(i)
      BY <1>1, <2>3 DEF PersistedOk, Ends
    <2>5. Active(i) => i = c
      BY <1>1, <1>3, ContentRead
    <2> QED
      BY <1>7, <2>2, <2>4, <2>5
  <1>10. c <= Scope /\ Scope \in Nat /\ Scope = Len(parsed)
    <2>1. PICK p \in Places : At(p) = DiffChangeRecord(c)
      BY <1>1, <1>2, <1>6 DEF SentInv, StreamInv, StreamCovers
    <2>2. ~IsContent(p) /\ At(p).change = c
      BY <2>1 DEF DiffChangeRecord, IsContent
    <2>3. Before(p, at)
      <3>1. ~Before(at, p)
        BY <1>1, <1>2, <2>2 DEF SentInv, StreamInv, StreamOK, MetadataBeforeContent
      <3> QED
        BY <1>1, <1>2, <2>2, <3>1, Trichotomy
    <2>4. p[1] <= diff_files
      <3>1. p[1] \in 1 .. chunk_number /\ at[1] \in 1 .. chunk_number
        BY <1>1, <1>2, PlaceParts
      <3>2. at[1] <= diff_files /\ diff_files \in Nat
        BY <1>0, <1>1 DEF Streaming, ReaderInv, ArrivalInv
      <3> QED
        BY <2>3, <3>1, <3>2 DEF Before
    <2>5. c \in 1 .. Len(parsed)
      BY <1>0, <1>1, <2>2, <2>4 DEF ReaderInv, ParsedInv, ParsedTo
    <2>6. Len(parsed) \in Nat
      BY <1>1 DEF ReaderInv, ParsedInv
    <2> QED
      BY <1>0, <2>5, <2>6 DEF Scope
  <1>11. Delivery!NextContent(Last) = c
    BY <1>6, <1>7, <1>8, <1>9, <1>10, NextContentFound
  <1>12. Delivery!LastDelivered = Last
    BY <1>1, LastDeliveredIs
  <1>13. Dealt' = Append(Dealt, [change |-> c, stored |-> stored])
    <2>1. \A pieces, x : Exact(pieces, x)' <=> Exact(pieces, x)
      BY <1>0 DEF Exact
    <2>2. \A i \in 1 .. n + 1 : i = n + 1 \/ i \in 1 .. n
      BY <1>5
    <2>3. Exact(persisted'[n + 1].pieces, c)
      <3>1. n + 1 \in 1 .. Len(persisted')
        BY <1>5
      <3>2. \A pieces, x : pieces = persisted'[n + 1].pieces /\ x = persisted'[n + 1].change
              => Exact(pieces, x)'
        BY <1>1, <3>1 DEF NothingButWholeFiles
      <3> QED
        BY <1>5, <2>1, <3>2
    <2>4. Dealt' = [i \in 1 .. n + 1 |->
                      [change |-> IF Exact(persisted'[i].pieces, persisted'[i].change)
                                    THEN persisted'[i].change ELSE 0,
                       stored |-> persisted'[i].stored]]
      BY <1>5, <2>1 DEF Dealt
    <2>5. /\ Dealt = [i \in 1 .. n |->
                      [change |-> IF Exact(persisted[i].pieces, persisted[i].change)
                                    THEN persisted[i].change ELSE 0,
                       stored |-> persisted[i].stored]]
          /\ Len(Dealt) = n
      BY <1>5 DEF Dealt
    <2>a. PICK e : e = [change |-> c, stored |-> stored]
      OBVIOUS
    <2>6. Append(Dealt, e) = [i \in 1 .. n + 1 |-> IF i = n + 1 THEN e ELSE Dealt[i]]
      BY <1>5, <2>5
    <2>7. \A i \in 1 .. n + 1 : Dealt'[i] = IF i = n + 1 THEN e ELSE Dealt[i]
      BY <1>5, <2>2, <2>3, <2>4, <2>5, <2>a
    <2> QED
      BY <2>4, <2>6, <2>7, <2>a
  <1>14. /\ Delivery!NextContent(Delivery!LastDelivered) = c /\ c # 0
         /\ Verdict = "running" /\ Verdict' = "running" /\ Scope' = Scope
    BY <1>0, <1>6, <1>11, <1>12 DEF Verdict, Scope
  <1> QED
    BY <1>0, <1>13, <1>14 DEF Delivery!Deliver, Dealt, Scope, Verdict

LEMMA DeliveryStep ==
    Drift = {0} /\ TransferInv /\ TransferInv' /\ ContentInv /\ ContentInv'
      /\ [TransferNext]_transferVars
      => [Delivery!Next]_<<changes, Scope, Dealt, Verdict>>
  <1> SUFFICES ASSUME Drift = {0}, TransferInv, TransferInv', ContentInv, ContentInv',
                      [TransferNext]_transferVars
               PROVE  [Delivery!Next]_<<changes, Scope, Dealt, Verdict>>
    OBVIOUS
  <1>0. /\ SentInv /\ ReaderInv /\ HeldInv /\ TypeOK
        /\ parsed \in Seq(Nat) /\ Len(parsed) \in 0 .. Len(changes)
        /\ rpc \in {"carry", "detect"} => parsed = <<>>
        /\ Len(<<>>) = 0
    BY DEF TransferInv, SentInv, LoopInv, AccountInv, ReaderInv, ParsedInv, ArrivalInv,
           Untouched
  <1>1. CASE WriteStep
    <2>1. changes' = changes
      BY <1>1 DEF WriteStep, Next, Write, NoPartial, DrainLast, DrainAndRoll,
                  WriteDiffChange, MetadataEnds, SkipContentless, WriteContent,
                  ContentEnds, RollChunk, Finish, Abort
    <2>2. UNCHANGED <<rpc, parsed, persisted>>
      BY <1>1 DEF WriteStep, readerVars
    <2> QED
      BY <2>1, <2>2, DealtKept DEF Scope, Verdict
  <1>2. CASE Carry \/ Detect \/ ParseChunk
    <2>1. UNCHANGED <<changes, persisted>>
      BY <1>2 DEF Carry, Detect, ParseChunk, vars
    <2>2. Scope' = Scope /\ Verdict' = Verdict
      BY <1>0, <1>2 DEF Carry, Detect, ParseChunk, Parsing, Scope, Verdict
    <2> QED
      BY <2>1, <2>2, DealtKept
  <1>3. CASE GivesUp
    <2>1. UNCHANGED <<changes, persisted>> /\ rpc' = "error"
      BY <1>3 DEF GivesUp, vars
    <2>2. Scope' = Scope
      BY <1>0, <1>3 DEF GivesUp, Scope
    <2>3. Verdict \in {"idle", "running"} /\ Verdict' = "error"
      BY <1>3 DEF GivesUp, Verdict
    <2>4. Dealt' = Dealt
      BY <2>1, DealtKept
    <2>5. Delivery!Fail
      BY <2>1, <2>2, <2>3, <2>4 DEF Delivery!Fail, Scope, Dealt, Verdict
    <2> QED
      BY <2>5 DEF Delivery!Next
  <1>4. CASE ParseEnds
    <2>1. UNCHANGED <<changes, persisted, parsed>> /\ rpc = "parse" /\ rpc' = "stream"
      BY <1>4 DEF ParseEnds, vars
    <2>2. Dealt' = Dealt
      BY <2>1, DealtKept
    <2>3. Scope' \in 0 .. Len(changes) /\ Verdict = "idle" /\ Verdict' = "running"
      BY <1>0, <2>1 DEF Scope, Verdict
    <2>4. Delivery!Commit
      BY <2>1, <2>2, <2>3 DEF Delivery!Commit, Scope, Dealt, Verdict
    <2> QED
      BY <2>4 DEF Delivery!Next
  <1>5. CASE ReadContent
    <2>1. CASE active' = <<>>
      <3>1. Delivery!Deliver
        BY <1>5, <2>1, FinishDelivers
      <3> QED
        BY <3>1 DEF Delivery!Next
    <2>2. CASE active' # <<>>
      <3>1. UNCHANGED <<changes, rpc, parsed, persisted>>
        BY <1>5, <2>2 DEF ReadContent, vars
      <3> QED
        BY <3>1, DealtKept DEF Scope, Verdict
    <2> QED
      BY <2>1, <2>2
  <1>6. CASE EndOk
    <2>1. /\ UNCHANGED <<changes, parsed, persisted>> /\ rpc = "stream" /\ rpc' = "ok"
      BY <1>6 DEF EndOk, vars
    <2>2. StreamedOk /\ NothingButWholeFiles
      BY <2>1 DEF ContentInv
    <2>3. Last \in Nat /\ \A c : Persisted(c) => c <= Last
      BY <1>0, <2>2, LastIsHighest DEF StreamedOk
    <2>4. Scope = Len(parsed)
      BY <2>1 DEF Scope
    <2>5. ASSUME NEW i \in Last + 1 .. Scope PROVE ~changes[i].has_content
      <3>1. i \in 1 .. Len(parsed) /\ i > Last /\ parsed[i] = i
        BY <1>0, <2>3, <2>4 DEF ReaderInv, ParsedInv
      <3>2. DamageIsDetected'
        BY OkIsWhole, PTL
      <3>3. changes[parsed[i]].has_content
              => \E j \in 1 .. Len(persisted) : persisted[j].change = parsed[i]
        BY <2>1, <3>1, <3>2 DEF DamageIsDetected
      <3>4. changes[i].has_content => Persisted(i)
        BY <3>1, <3>3 DEF Persisted
      <3>5. ~(i <= Last) /\ (Persisted(i) => i <= Last)
        BY <2>3, <3>1
      <3> QED
        BY <3>4, <3>5
    <2>6. Delivery!NextContent(Delivery!LastDelivered) = 0
      BY <1>0, <2>2, <2>3, <2>5, NoNextContent, LastDeliveredIs
    <2>7. Dealt' = Dealt /\ Scope' = Scope /\ Verdict = "running" /\ Verdict' = "ok"
      BY <2>1, DealtKept DEF Scope, Verdict
    <2>8. Delivery!Succeed
      BY <2>1, <2>6, <2>7 DEF Delivery!Succeed, Scope, Dealt, Verdict
    <2> QED
      BY <2>8 DEF Delivery!Next
  <1>7. CASE ReadDiffChange \/ NextChunk \/ UNCHANGED transferVars
    <2>1. UNCHANGED <<changes, rpc, parsed, persisted>>
      BY <1>7 DEF ReadDiffChange, NextChunk, transferVars, readerVars, vars
    <2> QED
      BY <2>1, DealtKept DEF Scope, Verdict
  <1> QED
    BY <1>1, <1>2, <1>3, <1>4, <1>5, <1>6, <1>7, ReadSteps

\* Packing, carrying and unpacking deliver, as long as the files keep the
\* size the walk saw: apply commits to a prefix of the change list, then
\* stores the content changes of that prefix in order, none left out and
\* each whole, and reports success only when there is none left
\* (stream_file_contents).
THEOREM TransferDelivers ==
    ASSUME Drift = {0}
    PROVE  TransferSpec => DeliveryRefined
  <1>1. TransferInit => Delivery!Init
    <2>1. Len(<<>>) = 0 /\ 1 .. 0 = {}
      OBVIOUS
    <2>2. TransferInit => Dealt = <<>>
      BY <2>1 DEF TransferInit, Dealt
    <2> QED
      BY <2>1, <2>2 DEF TransferInit, Delivery!Init, Dealt
  <1>2. TransferInv /\ TransferInv' /\ ContentInv /\ ContentInv'
          /\ [TransferNext]_transferVars
          => [Delivery!Next]_<<changes, Scope, Dealt, Verdict>>
    BY DeliveryStep
  <1>3. Delivery!vars = <<changes, Scope, Dealt, Verdict>>
    BY DEF Delivery!vars, Scope, Dealt, Verdict
  <1> QED
    BY <1>1, <1>2, ContentHolds, PTL
    DEF TransferSpec, DeliveryRefined, Delivery!Spec, Delivery!vars, Scope, Dealt, Verdict

=============================================================================
