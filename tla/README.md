# Verification of gapped

`gapped` synchronises a directory tree across an air gap. On the source side
`snapshot` records a tree and `diff` compares the tree with an earlier snapshot
and writes a diff, in one file or in chunks; the diff is carried to the target
by hand; there `apply` carries it out, and `verify` checks beforehand, in
memory, that it would lead to the snapshot expected.

This directory holds TLA+ models of that program, checked by TLC on small
instances, and proofs checked by TLAPS for every value of the constants. Paths
below are relative to the repository's root; `src/` is the Rust crate.

## 1. The system

| Component | Source | State | Operations |
|---|---|---|---|
| command line | `src/cli.rs`, `src/main.rs` | none | parse arguments, dispatch, `resolve_diff_files` |
| snapshot | `src/commands/snapshot.rs` | snapshot file | `run_snapshot`, `load_snapshot` |
| walk and hash cache | `src/fs/walk.rs`, `src/fs/metadata.rs` | list of entries | `walk_filesystem`, `resolve_file_hash` |
| directory hashes | `src/fs/hash.rs` | `dir_hash` of entries | `compute_dir_hashes` |
| entries and paths | `src/model/*.rs` | values only | order of paths, `matches`, `contains` |
| diff computation | `src/commands/diff.rs` 110-243 | two iterators, change list | `compute_diff_merkle`, `skip_subtree`, `compute_entry_diff` |
| diff packing | `src/commands/diff.rs` 245-435 | two cursors, straddling reader, chunk files | `write_split_diff`, `write_single_diff`, `write_content_fragment` |
| file format | `src/format/*.rs` | bytes written, end of records seen | `FormatWriter`, `FormatReader` |
| prefetch pool | `src/parallel.rs` | worker threads, three kinds of channel, files in flight | `new`, `top_up`, `next`, `finish`, `stream_file`, `ContentReader::read` |
| chunk detection | `src/commands/apply.rs` 514-542 | none | `detect_diff_files` |
| apply | `src/commands/apply.rs` 34-510 | target tree, queue of content changes, active tempfile, saved mtimes | `parse_diff_metadata`, `apply_deletions`, `apply_non_content_changes`, `stream_file_contents`, `restore_directory_mtimes` |
| simulated apply | `src/commands/simulate.rs` | map of entries | `simulate_apply` |
| verify | `src/commands/verify.rs` | two iterators, discrepancies | `run_verify`, `compare_with_merkle` |
| progress, errors, test helpers | `src/progress.rs`, `src/error.rs`, `src/test_util.rs` | none | reporting |

How they interact:

- `run_diff` loads the old snapshot, walks the tree with it as a cache of
  hashes, hashes directories, writes the new snapshot, computes the changes and
  packs them. These phases pass lists by value.
- The packing loop and the prefetch pool run concurrently: worker threads open
  and read files into bounded channels, one per file, while the one writing
  thread consumes the files in the order of the change list.
- Writer and reader of a diff share nothing but the chunk files. A content
  record says neither which file nor which offset its bytes belong to; the
  reader infers both from the order of records and from the sizes in the
  metadata. That makes the order of records the central protocol here.
- `run_apply` reads the chunks twice, first for metadata, then for content, and
  changes the target between the two passes.
- `verify` and `diff` share `skip_subtree` and the directory hashes.

What is hard, and what correctness means, per component:

- *Packing*: two cursors and a reader that survives a roll of chunks; limits on
  a record boundary. Correct: the stream of all chunks is metadata first, in
  list order, without gap or repetition, nothing lost; chunks within the limit,
  which they are not, and otherwise no further beyond it than the loop
  guarantees; progress.
- *Transfer*: lost and truncated chunks. Correct: the target file is never
  replaced by anything but its whole new content; success is reported only when
  all that was announced was dealt with.
- *Pool*: interleavings, bounded channels, failures of either side, join.
  Correct: same blocks as one thread would read; memory bounded, if not by what
  a comment promises; nobody blocks for ever.
- *Diff computation*: agreement of hash, order and comparison. Correct:
  skipping hides no difference; the diff applied to the old side yields the
  new.
- *Apply on the file system*: order of deletions, creations, content, mtimes;
  operations that fail, metadata that is refused with no more than a warning,
  the end of the process, a repeated run, a target that is not what the diff
  expects. Correct: the new tree over the old one; old or new content at any
  moment; nothing else touched; a second run repairs.
- *Verify*: every difference reported, no false alarm, and apply does what
  verify accepted.
- *Rounds*: a snapshot whose diff failed, entries the walk could not read,
  hashes reused, edits during a run, files sent with another size than declared,
  runs of apply that end early, metadata that is not set, mtime drift that
  accumulates. Correct: the target follows the snapshots but for exactly what
  was lost in these ways, and a clean round brings it everything else.
- *Chunk files*: files of earlier diffs in the same directory. Correct: the
  newest diff is what is applied, each content at its own path.

## 2. Modules

| Module | Models | Role |
|---|---|---|
| `SplitDiff` | `write_split_diff`, `create_chunk_writer`, `write_content_fragment`, accounting of `FormatWriter` | component |
| `SplitDiffProofs` | - | theorems about `SplitDiff` |
| `ContentDelivery` | - | abstract specification: changes are delivered whole and in order |
| `Transfer` | `detect_diff_files`, `parse_diff_metadata`, `stream_file_contents`, `ActiveWrite`, the medium | composes with `SplitDiff`, implements `ContentDelivery` |
| `OrderedRead` | - | abstract specification: one thread reading in order |
| `PrefetchPool` | `PrefetchPool`, `ContentReader`, `stream_file` | component, implements `OrderedRead` |
| `TransferProofs` | - | theorems about `Transfer`, over those about `SplitDiff` |
| `PrefetchPoolProofs` | - | theorems about `PrefetchPool` |
| `Entries` | `RelativePath`, `Metadata`, `Entry`, sorted lists of entries, `compute_dir_hashes`, `walk_filesystem` with `resolve_file_hash` | data |
| `Simulate` | `simulate_apply`: the effect of changes, and the directories apply leaves alone | data |
| `Changes` | `compute_entry_diff`, `build_added_change`, `build_removed_change`; `ChangesOf`, the difference of two trees path by path, and `DiffOf`, the same as a list | data, and abstract specification of the diff |
| `EntriesProofs` | - | lemmas about the data: paths, sorted lists, hashes, differences, `simulate_apply` |
| `MerkleDiff` | `compute_diff_merkle`, `skip_subtree` | component; yields `DiffOf` |
| `Verify` | `run_verify`, `compare_with_merkle`, `compare_single_entry` | composes with `MerkleDiff` and `Simulate` |
| `VerifyProofs` | - | theorems about `MerkleDiff` and, over them, about `Verify` |
| `Apply` | `run_apply` on a file system: `save_parent_dir_mtimes`, `apply_deletions`, `apply_non_content_changes`, `ActiveWrite`, `finish_active`, `restore_directory_mtimes` | component |
| `ApplyProofs` | - | theorems about `Apply` |
| `SyncRounds` | `run_snapshot`, `run_diff`, `classify_dir_entry` and the rounds of edit, diff, carry, apply | composes the effects of the other components |
| `SyncRoundsProofs` | - | theorems about `SyncRounds` |
| `ChunkFiles` | `write_single_diff`, `create_chunk_writer`, `detect_diff_files` over several diffs | component |
| `ChunkFilesProofs` | - | theorems about `ChunkFiles` |
| `MCTrees` | - | entries the trees of the instances are made of |
| `MC*` | - | instances for TLC, each with its `.cfg` files |

Operators whose comment begins with "Mutant" are not part of a model. Each is
an altered form of the definition it names; put in its place, it makes TLC
report the property that guards against that mistake. They show that the
properties are able to fail.

### SplitDiff

A change is reduced to whether it has content, the length of its encoded
record, and the declared size. `dc_cursor`, `fc_cursor`, `partial` and
`bytes_written` are the variables of the function; `files` and `cur` hold the
records on disk, and `chunk_number` is the length of `files` plus one. `pc`
names the sections of the loop: `drain` (diff.rs:335), `metadata` (355),
`content` (364), `roll` (386). One action is one turn of an inner loop or one
passage between sections; each arm of an `if` is an action. `ContentRecord`
keeps, for the properties, which change and offset its bytes come from; the
code stores neither. `Drift` is what the size of a file may have changed by
between the walk and its opening. `Abort` is any `?` of the loop.

Three things of the code that shape the model: `finish` appends a sentinel of
`RECORD_HEADER_SIZE` bytes that `bytes_written` does not count; the metadata
loop tests the limit before it writes; `write_content_fragment` takes the whole
rest when the budget is zero.

### Transfer

`Carry` is the medium: any set of chunks may be missing, or one may be cut
inside a record header (or the sentinel), or inside a payload. When the writer
has failed, its last chunk may be there in part. Detection, metadata pass and
content pass follow as actions of one thread: the metadata pass one chunk at a
time, because it only collects, the content pass one record at a time. Between
the passes the code changes the target; none of that can stop the run, so it is
no action here. `active` is the `ActiveWrite`, `queue` the deque, `persisted`
the tempfiles renamed into place, with the pieces that went into each.

With compression, a cut file fails to decompress at or before the place where
an uncompressed one would; the model's cuts cover it.

### PrefetchPool

A block is what one read returned. `cpc` is the consumer (packing loop inside
`next`, `top_up`, `read`, `finish`), `worker` the threads. A send blocks while
its channel is full and fails when the receiver is gone (`Listening`); a
receive fails when channel and senders are gone (`SenderAlive`). Opening and
reading may fail, and so may the writer at any block.

### MerkleDiff

A path is a sequence of numbers, an optional value a set of at most one. A
hash is the thing hashed, so there are no collisions; XXH3 is trusted for that.
`mtime` is one number and the tolerance one constant; permissions, uid and gid
are one field, as they are always compared together. `old_iter` and `new_iter`
are the peekable iterators; each arm of the `match` is an action (the arms for
one side exhausted share their actions with the arms for `Less` and
`Greater`, to which they are identical). The counters printed at the end are
left out.

`DirHashes` and `simulate_apply` are recursive functions, the first over the
directories of a tree, the second over the places of the list of changes.
`DiffOf` gives each change of `ChangesOf` the place behind those that precede it
in the order of `diff.rs`: by path, and a removal before the addition that
replaces it.

`disk` is the tree as it is; `new_entries` is what the walk makes of it with
the old snapshot as its cache of hashes (`Walk`), so that a file may be listed
with a hash that is not its content's. A mtime counts fractions of a second
and `MTIME_TOLERANCE` is how many make one second, because the program's
tolerance is one second as well.

### Verify

The steps of `MerkleDiff` come first and yield the changes and the target
snapshot; then `SimulateDiff` takes any tree for the target's, walks it with
that snapshot as the cache, as `run_verify` does, applies the changes in memory
and hashes directories anew. The comparison is one action per arm, as in
`MerkleDiff`. A discrepancy keeps its kind and path; the two further lines that
print metadata are left out.

### Apply

`changes` is the diff as a set, as `MerkleDiff` leaves it but for its order;
`Earlier` is the order in which each loop of the code takes its share of them.
`tree` is the target's file system, a set of entries as in the other modules;
`Unlink`, `Put` and `WritableDir` are what the system calls do to it: they
touch the mtime of the parent directory and, unless the user is `privileged`,
want it writable. `apc` is the phase of `run_apply`, `todo` what the loop of
that phase has before it, a set as well, and each operation has an action for
its success and one for its failure: when the file system refuses it, or for no
reason in the model, such as a full disk. One such fault, or one end of the
process (`Kill`), per behaviour is allowed, and `Start` may begin the same diff
again, also after a run that succeeded, so `RerunRepairs` says that applying
twice does no harm. `Stamp` is the `set_metadata` behind a creation or a
rename, a step of its own because the process may end between the two.

chmod, chown and utimensat are special: where they fail, the code warns and
counts no error. `Stamp` and `RestoreTimes` choose which of them are granted
(`MetadataCalls`, and any part of the mtimes to put back), and `Warns` keeps the
paths of which something was refused in `unstamped`, which only properties
read. For a privileged user that is the one fault; one that is not may be
refused at any time, as the model does not say who owns what.

What is abstracted: permissions, user and group are one field, `mode`, also for
links, which have only the latter two; a mode that is set in part, chmod without
chown say, stands as one that is not set at all. The mtimes that
`restore_directory_mtimes` could not set count as one fault, however many; it is
one step, because to set a mtime touches no other entry. The content of a file
arrives in one step (record by record it is in `Transfer`), and `Abort` stands
for every error that ends the content pass; links are not followed; the
directory above the root is outside.

`Faithful` says the target is the tree the diff starts from, `Accepted` that
`verify` would find no difference. `Retargeted` and `Replaced` name the entries
on which the code departs from `simulate_apply` (section 3), so that the
properties still say everything about the others.

### SyncRounds

A round is `StartDiff` (snapshot loaded, tree walked) and `WriteDiff` (next
snapshot, then diff, written); `RoundFails` may come anywhere between. `Found`
is the walk when one path cannot be read: below a directory everything is
missing, a file is missing unless its hash is cached. The first walk, without an
earlier snapshot, may leave out as much. The merge is replaced by `ChangesOf`,
which `MerkleDiff` is proved to list.

The source may be edited between the walk and the reading of contents. The files
are then read as they are, whatever their size; only a path that is no file by
then makes the round fail. `Brought` is what apply makes of that: it delimits
contents by the sizes declared, so a content is whole if its file and every one
before it were read with these; of any behind one that was not nothing is known
(`None` stands for bytes that are no file's). Neither is it known whether the
run ends with an error then; both happen in the model. Whose bytes get where is
in `Transfer`.

`carried` is a queue: diffs may be applied rounds later, but in order.
`Applying` is `run_apply` as one step. Given which contents were stored
(all, or in `ApplyAborts` those up to some place in the list) and which metadata
was refused, it is what the operations of `Apply` come to on each path:
`Remaining` after the deletions, `Blocked` where something is in the way,
`Outcome` what is made, and the mtimes of parents put back if the run got to
its end. After an aborted run the user applies the diff again (`tried`), or goes
on to the next one.

Three sets keep, for the properties only, what a run left other than the
snapshot says: `astray` the files whose content was lost, because it was not
read as declared, is other than what was hashed, or was not reached; `unset` the
entries without their mode; `untimed` those without their mtime. A path leaves a
set when a later diff brings what it lacks. `unset` and `untimed` get the paths
that were refused and those of links that were retargeted without metadata
(apply.rs:249); `untimed` also what a directory was replaced by (apply.rs:144)
and, when a run was aborted, the directories whose mtimes it moved (apply.rs:47).
`Now` and `FreshMode` are one value each and stand for whatever such an entry
has; the proofs hold for any. An entry of those sets is excepted from the
properties in just the respect its set is about.

Assumed besides: the content of one file is read at one moment; the first copy
of the tree, which is not gapped's, lacks the same entries as the first
snapshot; no diff is left out; the next diff is made from the snapshot of the
last diff that was written. Operations that fail and are counted as errors,
and a run that is killed, are in `Apply` only, with the run that repairs them.

### ChunkFiles

`files` are the files of one base name, number 0 the base name itself. The
writer is a small machine (`Begin`, `FinishFile`, `NextChunk`, `Interrupted`);
each record remembers the round and the change it belongs to, which the code
does not. Reading changes no file, so it is an operator: `RecordsRead` is what
the two passes see, `Stored` the pairs of change and content the content pass
makes of it. What the diffs are is given: `DiffsAssumption` says of each that it
has at most `MaxChunks` chunks, all metadata before all content, and content in
the order of the metadata (`ContentInOrder`), which is what `SplitDiffProofs`
shows of the writer. One record stands for all the content of a file here; that
its fragments connect is `FragmentsConnect` of `SplitDiff`.

## 3. Runs

| Run | Config | Shows |
|---|---|---|
| `split_tiny` | `MCSplitDiffTiny.cfg` | violation: an empty chunk is rolled under a tiny limit |
| `split_limit` | `MCSplitDiffLimit.cfg` | violation: a chunk longer than `--split-size` |
| `transfer` | `MCTransfer.cfg` | packing: order, completeness, bounded overshoot, progress, termination; lost and truncated chunks; refinement of `ContentDelivery`; end of apply |
| `transfer_drift` | `MCTransferDrift.cfg` | violation: a file that changed size corrupts what apply stores |
| `prefetch` | `MCPrefetchPool.cfg` | order, memory, join and end of all threads; refinement of `OrderedRead` |
| `prefetch_memory` | `MCPrefetchPoolMemory.cfg` | violation: a file with more blocks in memory than the comment allows |
| `verify` | `MCVerify.cfg` | the merge finds every difference, the diff applies, content carries its size, no edit is missed beyond what the hash cache misses; verify reports what disagrees and nothing else, no alarm for directories left alone, only the hash cache hides content, the comparison ends |
| `verify_orphans` | `MCVerifyOrphans.cfg` | violation: success over entries whose directory a simulated addition replaced |
| `apply` | `MCApply.cfg` | any target, privileged or not, one fault or kill anywhere, metadata refused, two runs: the old tree becomes the new, what verify accepts is carried out or errors are reported, files are old or new, the second run repairs, entries not in the diff survive, mtimes of parents are put back, a run ends |
| `rounds` | `MCSyncRounds.cfg` | overlapping, failing, incomplete, overtaken rounds and aborted, refused, repeated runs of apply: the target follows, a clean round heals, drift is bounded |
| `chunk_files` | `MCChunkFiles.cfg` | the newest chunks are found, come first and are stored whole; leftovers come last |
| `chunk_mix` | `MCChunkFilesMix.cfg` | violation: leftover chunks put content at the wrong path |

Bounds and why they are enough:

- `transfer`: eight lists of up to three changes, without content, empty, small,
  or of several chunks, that fill none to six chunks; each with every set of
  lost chunks and every single cut. A straddling file stands before, between and
  after others. With a record header of 2, a limit of 6 leaves one byte of
  content behind the larger header and 9 takes several records; header sizes 2
  and 3 stand for the growth of an encoded chunk number. The packing properties
  are checked in the same run: `Transfer` begins with the steps of `SplitDiff`.
- `split_tiny`, `split_limit`, `prefetch_memory`: the one input that suffices.
- `prefetch`: two workers, ten shapes of path list with up to five files, which
  exceeds the three that may hold blocks at once, and files of up to four
  blocks, which exceeds the three that channel, worker and reader hold at
  `CHUNK_DEPTH` 1. Every open, read and write may fail.
- `verify`: all triples (old, new, target) of 26 trees, so for the merge all
  pairs. A directory comes, goes and changes its mtime, empty, with a file, with
  a directory, and with a file two levels down; a file changes content, mode and
  mtime; the first name is of each kind; what is under the second comes and
  goes. With a tolerance of 2, mtimes 0 and 1 lie in one second, 2 in another at
  the edge of the tolerance, 3 beyond it. Three trees are needed for a target
  that differs from both snapshots; depth three has a skip above, at and below
  the difference.
- `apply`: every pair of eight trees makes a diff, applied to every one of the
  trees by a privileged and an unprivileged user: directories of two levels
  that come, go, change kind, mtime and, with a file inside, become read-only,
  files of two contents of one size and one of another, links that come, go and
  are retargeted with and without a change of mtime. Two runs are the least a
  repair needs.
- `rounds`: five trees, two edits, two rounds and two faults (a path not read, an
  aborted run, or one path refused). So a diff can fail, or leave something out,
  or be aborted or refused, and the next be clean; an edit can fall into a run
  and be undone; and an aborted run can be repeated and refused something. The
  mtimes of one file move within a second, within the tolerance and beyond, its
  size changes, a link is retargeted and a directory becomes a file. The run has
  290,688 distinct states.
- `chunk_files`: three diffs in a row, each one of six of up to three chunks,
  split or not, interrupted at any record or between chunks; two suffice for
  leftovers, the third overwrites part of them. All content has one size; with
  sizes that differ, leftovers would fail more often, not less.

Deadlock is not checked: the programs stop when they are done, and that they
do not stop before is what `Termination`, `ApplyEnds`, `ConsumerEnds`,
`WorkersEnd`, `VerifyEnds` and `RunEnds` say.

### Fairness

`SplitDiff`, `Transfer`, `MerkleDiff`, `Verify` and a run of `Apply` are single
threads that nothing blocks: weak fairness of their next step says the thread is
scheduled. It covers no failure: `Abort`, `IoError` and `WriterFails` may happen
and need not. In `Apply` the fairness is that of `Step`, within a run: neither
`Start`, which is the user's, nor `Kill` is fair. `SyncRounds` and `ChunkFiles`
state no fairness: nobody has to start another round. `PrefetchPool` has weak
fairness of the consumer and of each worker: the operating system schedules
every runnable thread, and a blocked send or receive is a disabled action.

### What the violations mean

`split_tiny`: one file, and a limit equal to the chunk header and one record
header. Chunk 1 takes its DiffChange, since the header alone is below the limit,
and is over it then, which ends both inner loops. In chunk 2 all metadata is
written; the room check at diff.rs:369 comes before the fallback of
`write_content_fragment` and ends the content loop at its first file. The chunk
is rolled without a record, and so is the next, without end. With `RoomyLimits`
this cannot happen (`RoomyChunksProgress`, `Termination`).

`split_limit`: two removals under a limit with room. The second is begun below
the limit and ends beyond it, and the sentinel comes on top; the documentation
speaks of the maximum of bytes in a chunk. `BoundedOvershoot` is what holds.

`transfer_drift`: the header of a content record takes the file's size when it
is opened; the declared size is from the walk. If the file grew, the target
gets more bytes than declared; if it shrank, the next file's bytes complete it.

`prefetch_memory`: a file of three blocks at `CHUNK_DEPTH` 1. The first is with
the reader, the second in the channel, and the worker holds the third in its
blocked `send`: one more than the comment at parallel.rs:44 counts.
`MemoryBounded` is what holds.

`verify_orphans`: the diff adds a file where the target has a directory with a
file in it, both unknown to the source. `simulate_apply` puts the addition in
the place of the directory and leaves the file in its map, below a file now. No
directory's hash covers it, the root has the expected hash, and its whole
subtree is skipped. (The `apply` that follows cannot rename the new file over
the directory, and reports an error.) `ReportsExactly` is what holds instead:
whenever the simulated state is a tree, everything is reported.

`chunk_mix`: nothing ties the files of one base name together. The first diff
has its second chunk begin with the metadata of one file, behind which comes the
content of another, announced in chunk 1; a new diff overwrites chunk 1 only.
Apply reads chunk 2 behind it, and the one metadata and the one content that are
left do not belong together. `NewestStored` is what holds: the new diff's own
content is stored all the same, before the leftovers.

### Where a property states an exception

Elsewhere the code does less than its words say as well. There the property
states exactly what does hold; its exception is the place to look at.

- `ContentMeansComplete`, not "no chunk lies beyond a gap": `detect_diff_files`
  looks one number beyond the first missing one; of a gap of two it knows
  nothing (apply.rs:531).
- `HiddenByCacheOnly`: a target file with the snapshot's size and second of
  mtime is given the snapshot's hash without being read (verify.rs:36),
  although the two sides are different machines.
- `AppliedMatches` leaves out the metadata of `Retargeted` and `Replaced`. When
  a link's target changed within the tolerance of its mtime, no metadata is in
  the change, and the link made anew keeps the time of the run (apply.rs:249).
  And `save_parent_dir_mtimes` counts an `Added` change as explicit for
  directories only, so what replaces a directory with children gets that
  directory's saved mtime (apply.rs:144). Nothing shows these two to be right:
  they are not. What is shown is that nothing else goes wrong.
- `ParentTimesPreserved` is about first runs that got to the end:
  `stream_file_contents(...)?` leaves `run_apply` before
  `restore_directory_mtimes`, and a second run saves the moved mtimes
  (apply.rs:47). `RerunRepairs` says nothing of mtimes for that reason. It leaves
  out `unstamped`: a mtime that may not be put back is only warned about
  (apply.rs:488).
- `VerifiedThenApplied` allows a run to fail: modes of directories are set in
  the first pass, tempfiles created in the second (apply.rs:216), so that an
  unprivileged user may be refused what verify accepted. A privileged one is
  not (`AppliedMatches`). Directories touched through their children
  (`implicit_dirs`) are left out as verify leaves them out, `Retargeted` as
  above, and `unstamped`: a run that was refused metadata reports no error for
  it, so that a run without errors may well leave other metadata than verify
  accepted.
- `TargetFollows` and `CleanRoundHeals` leave out the contents of files that
  are `astray`. Content is read after it was hashed, and not compared; a file
  edited in between is different at the target until a diff brings it again
  (diff.rs:273), and if its size changed, so may be every file behind it in that
  diff (`transfer_drift`). An edit that is set back before the next walk is in no
  later diff, so that clean rounds do not heal it.
- `DriftBounded` allows one tolerance per diff: differences below it are not
  shipped, and the next comparison starts from the snapshot, not the target. It
  leaves out `untimed`, the mtimes that apply moved and did not put back or set:
  these may be any, until a diff has metadata for the path.
- The rounds start from the snapshot of the last diff that was written. The
  next snapshot is complete on disk before the diff is begun (diff.rs:50); a
  user who goes on from it although the diff failed has changes in no diff. No
  property is about that.
- `NewestStored` asks that no unsplit file lies beside the chunks: it would be
  read instead of them (apply.rs:517).

## 4. Proofs

Each theorem below says that a property a run checks on a small instance is
true always, for every value of the constants. The assumptions are those the
modules make on their constants, which TLC evaluates in every run: change lists
are lists of changes and limits are numbers (`SplitDiff`); there is at least one
worker and channels hold at least one block (`PrefetchPool`); the trees of an
instance are trees, of entries of the three kinds, as the walk lists them
(`Changes`, `IsFileTree`); the tolerance is positive (`Entries`); what is
created can be written to by its owner, no entry has the name of a tempfile, and
files with one hash have one size, as hashes stand for contents (`Apply`); the
bounds on edits, runs, rounds, faults and chunks are numbers (`Apply`, `SyncRounds`,
`ChunkFiles`); and the diffs written have their content in order
(`ContentInOrder` of `ChunkFiles`, proved of the writer as
`MetadataBeforeContent` and `StreamOrdered`). Nothing bounds the size of a list,
a tree, a file or the number of anything.

| Module | Theorem | Property |
|---|---|---|
| `SplitDiffProofs` | `TypeCorrect` | `TypeOK` |
| | `ContentTrailsMetadata` | `ContentFollowsItsChange` |
| | `MetadataFirst` | `MetadataBeforeContent` |
| | `InOrder` | `StreamOrdered` |
| | `NoGaps` | `FragmentsConnect` |
| | `Complete` | `NothingLost` |
| | `OvershootBounded` | `BoundedOvershoot` |
| | `NoEmptyChunk` | `RoomyChunksProgress` |
| `TransferProofs` | `DamageDetected` | `DamageIsDetected` |
| | `ContentComesComplete` | `ContentMeansComplete` |
| | `WholeFilesOnly` | `NothingButWholeFiles`, without drift |
| | `TransferDelivers` | `DeliveryRefined`, without drift |
| `PrefetchPoolProofs` | `TypeCorrect` | `TypeOK` |
| | `JoinIsSafe` | `JoinFindsAllRead` |
| | `MemoryIsBounded` | `MemoryBounded` |
| | `PoolImplementsOrderedRead` | `ReadsInOrder` |
| `VerifyProofs` | `DiffIsComplete` | `NothingHidden` |
| | `EditsEscapeOnlyTheCache` | `EditsFound` |
| | `SizesAreCarried` | `ContentHasSize` |
| | `DiffRoundTrips` | `RoundTrip` |
| | `VerifyReportsExactly` | `ReportsExactly` |
| | `OnlyTheCacheHides` | `HiddenByCacheOnly` |
| | `UnchangedTargetPasses` | `NoFalseAlarm` |
| `ApplyProofs` | `TargetStaysTree` | `IsTree(tree)`, checked by no run of its own |
| | `ForeignSurvives` | `ForeignKept` |
| | `NeverTruncated` | `OldOrNew` |
| | `TimesPutBack` | `ParentTimesPreserved` |
| | `RerunRepairsAll` | `RerunRepairs` |
| | `AppliedMatchesAll` | `AppliedMatches` |
| | `VerifiedThenAppliedAll` | `VerifiedThenApplied` |
| `SyncRoundsProofs` | `TargetFollowsSource` | `TargetFollows` |
| | `DriftIsBounded` | `DriftBounded` |
| | `CleanRoundsHeal` | `CleanRoundHeals` |
| `ChunkFilesProofs` | `LeftoversComeLast` | `StaleLast` |
| | `NewestIsStored` | `NewestStored` |

Hardly any of these properties is inductive. The arguments, and the invariants
they take:

### Packing (`SplitDiffProofs`)

Three layers, each proved with the help of the ones before.

1. `LoopInv` is about the variables of the loop only: types, the cursors'
   order, and what each value of `pc` says about `partial` and `sent`. It yields
   `TypeOK` and `ContentFollowsItsChange`.
2. `StreamInv` is about the records on disk relative to the cursors: every
   change below `dc_cursor` has its record, all content lies below `fc_cursor`
   or is the part of the straddling file up to `sent`, no content exists before
   the last metadata. A step adds one record at the end of the stream, so the
   proof has lemmas on what an added record does to `Places` and `At`, one for
   metadata and one for content.
3. `ChunkInv` relates `bytes_written` and the length of finished chunks to the
   limit and to the last record of each.

### Transfer (`TransferProofs`)

The reader must infer from the order of records what the writer knew, so the
proof first says what that order means to someone who meets one record at a
time, and then follows the reader.

1. `OrderInv`, over `LoopInv` and `StreamInv`: the metadata of a chunk is
   numbered without a gap, and, without drift, before each content record stands
   the end of every earlier file with content.
2. `ArrivalInv`, `PositionInv` and `ParsedInv`: every chunk that arrived is a
   beginning of one that was written; what is behind the reader was read to its
   end-of-records mark; and the metadata collected is exactly that of the
   changes 1 to n. A gap between the chunks is harmless for that because no
   metadata follows content.
3. `AccountInv`: each content change whose metadata was read is queued, being
   written, or stored. `DamageIsDetected` and `ContentMeansComplete` follow,
   and need no hypothesis on sizes.
4. `ContentInv`: what the queue, the active write and the stored files hold
   corresponds to the content read so far; the piece read next is always that
   of the active write or of the head of the queue. `NothingButWholeFiles` is
   part of it, and `DeliveryStep` shows that each step is one of
   `ContentDelivery` or a stutter.

The last layer has the hypothesis `Drift = {0}`: no file changes its size
between the walk and the reading of its content. It is not there for
convenience: the run `transfer_drift` finds `NothingButWholeFiles` violated
without it.

### Prefetch pool (`PrefetchPoolProofs`)

`PoolInv` says what the consumer and each worker hold in each place of the
code. `QueueInv` says that the files in flight and the jobs follow one another,
up to the last file given out, and that no two workers hold the same.
`ChannelInv` says of the channels of each file that what the consumer has
received and what waits add up to what the worker has sent, and that the next
block waiting is the one after the last received. `GotInv` relates what was
written to the block in hand. `JoinFindsAllRead` follows from the first three;
`MemoryBounded` takes an argument on cardinality besides: a file that holds a
block is the one being written or one of those in flight. For `ReadsInOrder`,
the writing of a block is shown to be a read of `OrderedRead`, the join its end,
a failure its failure, and every other step a stutter.

### Data (`EntriesProofs`)

What the other proofs need of the data, without induction over it:

- The order of paths is a strict total one, and what is underneath a directory
  is contiguous in it and comes right behind the directory (`BelowIsGreater`,
  `BelowIsNext`).
- A finite set in a strict total order has one ascending list, given by rank
  (`RankOf`, `RankedLists`); used for snapshots (`SnapshotLists`) and for diffs
  (`DiffOfEnumerates`).
- `DirHashes` satisfies its recursive equation on every finite tree
  (`DirHashesAre`), as paths have a greatest length; and two directories with
  equal hashes have equal things underneath (`HashMirrors`), by the least
  length at which they would not.
- What two cut lists leave behind and ahead (`Cuts`): a path is behind both
  cuts or neither, so that passing an entry, on one side or both, adds exactly
  its own changes to `ChangesOf` (`Appended`, `MirroredChanges`).
- `simulate_apply` has at each path the outcome of the changes of that path
  alone (`OneChange`, `Untouched`, `AppliedAt`), so that a diff leads from the
  old entries to the new ones, but for metadata within the tolerance (`DiffAt`,
  `DiffLeads`).

Where induction would be usual, the proofs take the least number at which the
claim fails (`HasLeast`).

### Diff computation (`VerifyProofs`)

`MergeInv`: the changes so far list `ChangesOf` of what the two iterators have
left behind, once each and in order, and the iterators cut their lists at the
same path. The short circuit keeps that because a subtree is contiguous in both
lists, and adds nothing because equal hashes mean equal subtrees. At the end
everything is behind; `NothingHidden` and the others are read off `ChangesOf`.

### Verify (`VerifyProofs`)

`CompareInv` is `MergeInv` once more, with discrepancies for changes. What is
different is that the simulated state need not be a tree, as the target may be
any: its paths are distinct, and what is at a path of the snapshot has the shape
of its entry, which is enough for equal hashes to mean that all the snapshot has
underneath is there; that there is nothing else, only a tree assures. `Reliable`
are the paths this leaves, and `ReportsExactly` claims no more.

`HiddenByCacheOnly` then follows path by path from what a diff makes of a tree.
`NoFalseAlarm` takes `SameTreeAgrees`: a tree and what the diff makes of it
disagree nowhere, hashes of directories included.

### Apply (`ApplyProofs`)

The first argument is about one relation, `Kept`: the entries elsewhere than on
a set of paths are as they were, but for mtimes of directories. Each operation
of the file system is shown to leave a tree (`Sound`) and to keep what is not on
the path of its change, with or without success, and so is each step. `Inv` adds
what the loops have before them (`PlanInv`), where the tempfile lies
(`TempInv`), and that directories whose mtimes were saved and that no change
names are still directories (`SavedInv`). `ForeignKept` is `Kept` from the
first state on; for `OldOrNew` the steps that touch a modified file are looked
at one by one; `TimesInv` says that the mtimes a first run saved are those the
target had before it, so that `RestoreTimes` sets them where it is granted to.

The second argument is about the outcome. `StepTouches` says of every step that
it either changes modes and mtimes only, or touches the one path of its change
(and what had to be made above it), where it puts an entry of the new tree or a
tempfile. From it:

- `HalfwayInv`: over a faithful target, whatever faults and kills there were,
  each entry that is no tempfile is one of the old tree or of the new, by
  content, and those the two have in common are there. With it go `TempsInv`
  (which tempfiles there can be) and `BareInv` (directories have no content).
- `SettledInv`: over a faithful target and with a privileged user, in a run
  that has met no fault, each change the loops have behind them (`Done`) is
  settled: nothing foreign is left at the path of a removed entry, and the new
  entry is at any other. The step that matters is that such a run has no reason
  to fail: what `HalfwayInv` allows to be there is something the code can
  delete, overwrite or leave (`DeleteSettles`, `AddDirectoryPossible`,
  `LinkPossible`, `WritePossible`). Once all changes are done, this is
  `RerunRepairs` (`Repaired`): applying a diff again repairs what a killed run
  left, in whichever phase it was.
- `SureInv`, for a first run that has met no error, over any target
  that `Suited` the diff: what is faithful does (`FaithfulSuits`), and so does
  what `verify` accepts (`AcceptedSuits`, read off what `simulate_apply` has at
  each path). It says what is where: entries no change names are untouched
  (`Spared`), what is removed is gone (`Emptied`), what was created or
  modified stands, with the metadata it was given, with these still to come, or
  with what of them was not refused (`Standing`, `Coming`), and what will be modified is as it was (`Waiting`).
  Each action has its lemma (`DeleteAchieves` to `PersistAchieves`).
- `CalmInv`: for a faithful target and a privileged user, no operation of a
  first run without a fault fails, so there are no errors.

`EndAgrees` and `EndPaths` then read the tree at the end off `SureInv`.
`VerifiedThenApplied` follows at once. `AppliedMatches` needs in addition
that mtimes of directories touched through their children were put back
(`ParentTimesPreserved`), and that the only such directories with a change of
their own are those in `Replaced` (`ImplicitIsReplaced`).

The invariants of both arguments were model-checked on the instance of
`apply` before they were proved.

### Rounds (`SyncRoundsProofs`)

`SyncInv` says of the diffs under way that they form a chain (`Chained`,
`LeadsTo`): each starts from the entries the one before it leads to, the first
from those the target has reached, or, when it was tried already, it leads to
these itself (`Start`). Of the target it says `Follows`: its entries are those
of the run reached, but for a content if they are in `astray`, a mode if in
`unset`, and a mtime that is off by at most one tolerance for each diff applied
unless in `untimed` (`Fits`).

The step that matters is that a run of apply, with any choice of what it stores
and is refused, leads from a target that follows the old entries to one that
follows the new ones (`CourseFollows`), and from one that follows the new ones,
when the diff is applied again, to one that still does. `Setting` and `Course`
are what such a run has before and after it, path by path: what no change names
is kept (`KeptStays`), and each kind of change has its lemma, on what is in the
way, what is made, and in which of the sets the path is afterwards
(`StoredStays`, `UnstoredStays`, `ModifiedStays`, `AddedStays`, `NoneStays`).
Metadata within the tolerance is not in the diff: hence one tolerance more. A
run that is repeated costs none, because it finds the metadata it would set.

`CleanRoundHeals` then compares a walk that read everything with the entries it
led to (`WalkShows`): only a hash taken from the cache differs.

### Chunk files (`ChunkFilesProofs`)

`FilesInv` says what is in the directory at any moment:

- `StackInv`: a file has records of one round only; chunks are there from the
  first on; and the round of a chunk is never below that of the chunk behind it.
  So it stays, as every split diff begins with chunk 1 and goes up from there:
  the files it does not reach are older. There are no gaps, which is why the one
  number `detect_diff_files` looks beyond the first missing chunk never finds
  anything here.
- `WritingInv`: which files of the newest diff are complete, which one is open,
  and that what is left to write is the end of the diff. An interruption forgets
  this and keeps `StackInv`.
- `NewestInv`: the newest diff is one of `Diffs`, with its content in order.

`StaleLast` follows from `StackInv`, once it is known that joining files of
rounds that go down gives records of rounds that go down (`FlattenLaterFirst`).

For `NewestStored`, what is read begins with the records of the newest diff
(`NewestFirst`, `FlattenPrefix`). `InStep` follows the content pass over these:
after any number of records the queue has exactly the changes whose content is
still to come, in their order, so that the head of the queue is always the
change of the content at hand (`StaysInStep`). What is read after them may store
more or fail, but takes nothing back (`StoredGrows`). For an unsplit diff there
is nothing after them, the queue is empty at the end, and the run succeeds.

The joining of files and the content pass are recursive functions. What they
compute for every list is proved by counting up to its length (`CountUp`), which
rests on `<` being well-founded on numbers.

### Only model-checked

- Everything about progress: `Termination`, `ApplyEnds`, `ConsumerEnds`,
  `WorkersEnd`, `VerifyEnds`, `RunEnds`. Liveness under fairness is beyond the
  prover.
- The violations, which are counterexamples.

## 5. Not modelled

- Command line, progress bars, logging: no state.
- Encoding: MessagePack, zstd and the bytes of headers; only lengths and where
  a file may be cut. Version and magic numbers are checked by the code and
  taken to match.
- Hash collisions.
- Special files and permission bits beyond 0777, which the walk drops; a
  directory whose own metadata cannot be read although it can be listed.
- A `run_snapshot` after the first: it leaves a snapshot no diff leads to.
- Diffs applied in another order than they were made: nothing in apply notices
  (the hash of the source snapshot in the header is never compared), and the
  rounds are modelled with a user who keeps the order.
- Concurrent changes of the target while apply or verify runs.
- The walk's parallel hashing: independent files, no shared state.

## 6. Plan

Built, in this order: packing and its proofs, transfer, pool, diff
computation, verify, apply, rounds, chunk files; then the proofs about all of
them. Every invariant the passing runs check is now a theorem, and so are the
refinements of `ContentDelivery` and `OrderedRead`. Termination, the ends of
runs and of threads, and the violations stay with TLC.
