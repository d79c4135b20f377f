------------------------------- MODULE Apply -------------------------------
(***************************************************************************)
(* run_apply (commands/apply.rs) on the file system of the target: what    *)
(* is deleted, created, written and stamped, in which order, and what is   *)
(* left when an operation fails, or the process is killed, half way.       *)
(*                                                                         *)
(* The changes are the diff of two trees (which is what MerkleDiff finds)  *)
(* and arrive undamaged, or the content pass stops (Transfer).             *)
(* The file system: creating, renaming and removing touch the mtime of the *)
(* parent directory and, unless privileged, require it to be writable;     *)
(* remove_dir wants an empty directory; rename replaces files and links,   *)
(* not directories.  Links point to nothing inside the tree.               *)
(***************************************************************************)
EXTENDS Changes

CONSTANTS
    Now,         \* the mtime of what is touched during a run
    FreshMode,   \* the mode of what is created, until its own is set
    Temp,        \* the name of a tempfile, which no entry has
    MaxRuns      \* how often the same diff is applied

ASSUME ApplyAssumption ==
    /\ MaxRuns \in Nat \ {0}
    /\ FreshMode \div 2 % 2 = 1
    /\ Temp \in Nat
    /\ \A tree \in Trees : \A e \in tree : e.path # root => Last(e.path) # Temp

\* Files of one hash are of one content, and so of one size.
ASSUME ContentsAssumption ==
    \A s, t \in Trees : \A e \in s, f \in t :
        e.kind = "File" /\ e.hash = f.hash => e.metadata.size = f.metadata.size

VARIABLES
    before, after,  \* the trees of the source the diff is made of
    changes,        \* all_changes, whose order is Precedes
    present,        \* the tree at the target before the first run
    privileged,     \* whether the user may write to any directory
    tree,           \* that tree now
    apc,            \* the phase of run_apply
    todo,           \* the changes the loop of the phase has before it
    stamp,          \* the set_metadata that comes next, None or Some
    temp,           \* path of the tempfile of the ActiveWrite, None or Some
    saved_dir_mtimes, dir_metadata_changes,  \* sets of [path, mtime]
    unstamped,      \* paths of which a run was refused some metadata
    errors,         \* err_count > 0
    runs,           \* runs begun
    faulted         \* the run a fault fell into, or 0: one fault is enough

input == <<before, after, changes, present, privileged>>
memory == <<saved_dir_mtimes, dir_metadata_changes, unstamped>>
applyVars == <<input, tree, apc, todo, stamp, temp, memory, errors, runs, faulted>>

----------------------------------------------------------------------------
(* The file system.                                                        *)

WritableDir(fs, dir) ==
    \E d \in At(fs, dir) :
        /\ d.kind = "Directory"
        /\ privileged \/ d.metadata.mode \div 2 % 2 = 1

set_mtime(fs, p, mtime) ==
    {IF e.path = p THEN [e EXCEPT !.metadata.mtime = mtime] ELSE e : e \in fs}

MetadataCalls == {"mode", "mtime"}

\* Mutant of set_metadata: permissions are left as they are.
set_metadata_mtime(fs, p, metadata, granted) ==
    IF "mtime" \in granted THEN set_mtime(fs, p, metadata.mtime) ELSE fs

\* chmod and chown, and utimensat, as far as they are granted.  A mode that is
\* set in part stands as one that is not set.
set_metadata(fs, p, metadata, granted) ==
    {IF e.path = p
     THEN [e EXCEPT !.metadata.mode = IF "mode" \in granted THEN metadata.mode ELSE @,
                    !.metadata.mtime = IF "mtime" \in granted THEN metadata.mtime ELSE @]
     ELSE e : e \in fs}

Unlink(fs, p) == set_mtime(fs \ At(fs, p), parent(p), Now)
Put(fs, e) == set_mtime((fs \ At(fs, e.path)) \cup {e}, parent(e.path), Now)

Fresh(p, kind, hash, symlink_target, size) ==
    [path |-> p, kind |-> kind, hash |-> hash, symlink_target |-> symlink_target,
     metadata |-> [size |-> size, mode |-> FreshMode, mtime |-> Now]]

\* Mutant of Removable: remove_dir_all.
RemovableAll(fs, p, kind) ==
    /\ WritableDir(fs, parent(p))
    /\ \E e \in At(fs, p) : (e.kind = "Directory") = (kind = "Directory")

\* remove_dir for a directory, remove_file for anything else.
Removable(fs, p, kind) ==
    /\ WritableDir(fs, parent(p))
    /\ \E e \in At(fs, p) : (e.kind = "Directory") = (kind = "Directory")
    /\ kind = "Directory" => ~ \E e \in fs : contains(p, e.path)

----------------------------------------------------------------------------
ApplyInit ==
    /\ before \in Trees
    /\ after \in Trees
    /\ changes = ChangesOf(before, after)
    /\ present \in Trees
    /\ privileged \in BOOLEAN
    /\ tree = present
    /\ apc = "idle"
    /\ todo = {}
    /\ stamp = None
    /\ temp = None
    /\ saved_dir_mtimes = {}
    /\ dir_metadata_changes = {}
    /\ unstamped = {}
    /\ errors = FALSE
    /\ runs = 0
    /\ faulted = 0

\* An operation may fail once, for no reason in the model.
Fault == faulted = 0 /\ faulted' = runs

\* An operation that the state of the file system admits, or not.
Succeeds(admitted) == admitted /\ UNCHANGED faulted
Fails(admitted) == IF admitted THEN Fault ELSE UNCHANGED faulted

HasContent(c) == c.op # "Removed" /\ c.has_content

\* What the loops of the three phases go through.
deletions == {c \in changes : c.op = "Removed"}
items == {c \in changes : c.op # "Removed" /\ ~ HasContent(c)}
contents == {c \in changes : HasContent(c)}

\* Mutant of Earlier: deletions are not sorted.
EarlierUnsorted(c, d) ==
    IF apc = "create" /\ Len(c.path) # Len(d.path) THEN Len(c.path) < Len(d.path)
    ELSE Precedes(c, d)

\* Their order: deletions are sorted from the deepest, additions from the
\* shallowest; content, and what is of one depth, keeps the order of the list.
Earlier(c, d) ==
    LET m == Len(c.path)
        n == Len(d.path)
    IN  CASE apc = "delete" /\ m # n -> m > n
          [] apc = "create" /\ m # n -> m < n
          [] OTHER -> Precedes(c, d)

\* The start of run_apply, with save_parent_dir_mtimes: it looks for the same
\* directories as simulate_apply, on the live file system.
Start ==
    /\ apc \in {"idle", "done", "failed", "killed"}
    /\ runs < MaxRuns
    /\ runs' = runs + 1
    /\ LET implicit == implicit_dirs_of(tree, changes)
       IN  saved_dir_mtimes' =
               {[path |-> d.path, mtime |-> d.metadata.mtime] :
                  d \in {d \in tree : d.kind = "Directory" /\ d.path \in implicit}}
    /\ dir_metadata_changes' = {}
    /\ unstamped' = {}
    /\ errors' = FALSE
    /\ todo' = deletions
    /\ apc' = "delete"
    /\ UNCHANGED <<input, tree, stamp, temp, faulted>>

\* The change a loop is at.
Current == {c \in todo : \A d \in todo \ {c} : Earlier(c, d)}
change == CHOOSE c \in Current : TRUE
In(phase) == apc = phase /\ stamp = None /\ Current # {}

NextPhase(phase, next, nextTodo) ==
    /\ apc = phase /\ stamp = None /\ todo = {}
    /\ apc' = next
    /\ todo' = nextTodo
    /\ UNCHANGED <<input, tree, stamp, temp, memory, errors, runs, faulted>>

Failed ==
    /\ errors' = TRUE
    /\ UNCHANGED <<input, apc, stamp, memory, runs>>

\* Whoever may not set metadata is warned of it, path by path, and no error is
\* counted.  Which paths belong to a user who is not privileged is left open.
Warns(granted, refused) ==
    IF granted THEN UNCHANGED <<unstamped, faulted>>
    ELSE Fails(privileged) /\ unstamped' = unstamped \cup refused

Stamp ==
    /\ stamp # None
    /\ \E s \in stamp, granted \in SUBSET MetadataCalls :
         /\ tree' = set_metadata(tree, s.path, s.metadata, granted)
         /\ Warns(granted = MetadataCalls, {s.path})
    /\ stamp' = None
    /\ UNCHANGED <<input, apc, todo, temp, saved_dir_mtimes, dir_metadata_changes,
                   errors, runs>>

----------------------------------------------------------------------------
(* apply_deletions.                                                        *)

Delete ==
    /\ In("delete")
    /\ Succeeds(Removable(tree, change.path, change.kind))
    /\ tree' = Unlink({e \in tree : ~ contains(change.path, e.path)}, change.path)
    /\ todo' = todo \ {change}
    /\ UNCHANGED <<input, apc, stamp, temp, memory, errors, runs>>

\* Mutant of DeleteFails: the loop ends.
DeleteFailsBreak ==
    /\ In("delete")
    /\ Fails(Removable(tree, change.path, change.kind))
    /\ todo' = {}
    /\ Failed
    /\ UNCHANGED <<tree, temp>>

DeleteFails ==
    /\ In("delete")
    /\ Fails(Removable(tree, change.path, change.kind))
    /\ todo' = todo \ {change}
    /\ Failed
    /\ UNCHANGED <<tree, temp>>

DeletionsDone == NextPhase("delete", "create", items)

----------------------------------------------------------------------------
(* apply_non_content_changes.                                              *)

\* create_dir_all: the ancestors of p, and p, that are not there, and where
\* they go.
Lacking(p) == {q \in {SubSeq(p, 1, n) : n \in 0 .. Len(p)} : At(tree, q) = {}}
Creatable(p) ==
    IF Lacking(p) = {} THEN \E d \in At(tree, p) : d.kind = "Directory"
                       ELSE \E q \in Lacking(p) : WritableDir(tree, parent(q))

AddsDirectory == change.op = "Added" /\ change.entry.kind = "Directory"

AddDirectory ==
    /\ In("create") /\ AddsDirectory
    /\ LET p == change.path
           made == {Fresh(q, "Directory", None, None, 0) : q \in Lacking(p)}
       IN  /\ Succeeds(Creatable(p))
           /\ tree' = {IF \E d \in made : parent(d.path) = e.path
                       THEN [e EXCEPT !.metadata.mtime = Now] ELSE e :
                         e \in tree \cup made}
           /\ stamp' = Some([path |-> p, metadata |-> change.entry.metadata])
           /\ dir_metadata_changes' = dir_metadata_changes
                \cup {[path |-> p, mtime |-> change.entry.metadata.mtime]}
    /\ todo' = todo \ {change}
    /\ UNCHANGED <<input, apc, temp, saved_dir_mtimes, unstamped, errors, runs>>

AddDirectoryFails ==
    /\ In("create") /\ AddsDirectory
    /\ Fails(Creatable(change.path))
    /\ todo' = todo \ {change}
    /\ Failed
    /\ UNCHANGED <<tree, temp>>

\* A link is made where nothing is.  To change a link, what is there is
\* removed first, which may fail without a word.
MakesLink ==
    \/ change.op = "Added" /\ change.entry.kind = "Symlink"
    \/ change.op = "Modified" /\ change.new_symlink_target # None

Cleared ==
    IF change.op = "Modified" /\ Removable(tree, change.path, "Symlink")
    THEN Unlink(tree, change.path) ELSE tree

Linkable == At(Cleared, change.path) = {} /\ WritableDir(tree, parent(change.path))

MakeLink ==
    /\ In("create") /\ MakesLink
    /\ Succeeds(Linkable)
    /\ LET link(target) == Fresh(change.path, "Symlink", None, target, 0)
           with(metadata) == {[path |-> change.path, metadata |-> m] : m \in metadata}
       IN  IF change.op = "Added"
           THEN /\ tree' = Put(Cleared, link(change.entry.symlink_target))
                /\ stamp' = with(Some(change.entry.metadata))
           ELSE /\ tree' = Put(Cleared, link(change.new_symlink_target))
                /\ stamp' = with(change.new_metadata)
    /\ todo' = todo \ {change}
    /\ UNCHANGED <<input, apc, temp, memory, errors, runs>>

MakeLinkFails ==
    /\ In("create") /\ MakesLink
    /\ Fails(Linkable)
    /\ tree' \in {tree, Cleared}
    /\ todo' = todo \ {change}
    /\ Failed
    /\ UNCHANGED temp

ChangeMetadata ==
    /\ In("create") /\ change.op = "Modified" /\ ~ MakesLink
    /\ stamp' = {[path |-> change.path, metadata |-> m] : m \in change.new_metadata}
    /\ dir_metadata_changes' = dir_metadata_changes \cup
         {[path |-> s.path, mtime |-> s.metadata.mtime] :
            s \in {s \in stamp' : \E d \in At(tree, s.path) : d.kind = "Directory"}}
    /\ todo' = todo \ {change}
    /\ UNCHANGED <<input, tree, apc, temp, saved_dir_mtimes, unstamped, errors, runs,
                   faulted>>

CreationsDone == NextPhase("create", "content", contents)

----------------------------------------------------------------------------
(* stream_file_contents, file by file.                                     *)

\* Mutant of TempPath: no tempfile, the file itself is opened and truncated.
TempPathInPlace(p) == p

TempPath(p) == Append(parent(p), Temp)

\* ActiveWrite::new, and then bytes go into the tempfile.
BeginWrite ==
    /\ In("content") /\ temp = None
    /\ Succeeds(WritableDir(tree, parent(change.path)))
    /\ temp' = Some(TempPath(change.path))
    /\ tree' = Put(tree, Fresh(TempPath(change.path), "File", None, None, 0))
    /\ UNCHANGED <<input, apc, todo, stamp, memory, errors, runs>>

Dropped == IF temp = None THEN tree ELSE Unlink(tree, TempPath(change.path))

\* No tempfile, a damaged diff, a full disk: the error leaves run_apply.
Abort ==
    /\ In("content")
    /\ Fails(temp # None \/ WritableDir(tree, parent(change.path)))
    /\ tree' = Dropped
    /\ temp' = None
    /\ apc' = "failed"
    /\ todo' = {}
    /\ UNCHANGED <<input, stamp, memory, errors, runs>>

Persistable == \A e \in At(tree, change.path) : e.kind # "Directory"

\* finish_active, up to set_metadata.
Persist ==
    /\ In("content") /\ temp # None
    /\ Succeeds(Persistable)
    /\ LET hash == IF change.op = "Added" THEN change.entry.hash ELSE change.new_hash
           metadata == IF change.op = "Added" THEN Some(change.entry.metadata)
                                              ELSE change.new_metadata
           size == CHOOSE n \in {m.size : m \in metadata} : TRUE
       IN  /\ tree' = Put(Dropped, Fresh(change.path, "File", hash, None, size))
           /\ stamp' = {[path |-> change.path, metadata |-> m] : m \in metadata}
    /\ temp' = None
    /\ todo' = todo \ {change}
    /\ UNCHANGED <<input, apc, memory, errors, runs>>

\* Mutant of PersistFails: once more.
PersistFailsRetry ==
    /\ In("content") /\ temp # None
    /\ Fails(Persistable)
    /\ tree' = Dropped
    /\ temp' = None
    /\ Failed
    /\ UNCHANGED todo

PersistFails ==
    /\ In("content") /\ temp # None
    /\ Fails(Persistable)
    /\ tree' = Dropped
    /\ temp' = None
    /\ todo' = todo \ {change}
    /\ Failed

ContentDone == NextPhase("content", "times", {})

----------------------------------------------------------------------------
WithTimes(fs, times) ==
    {IF \E t \in times : t.path = e.path
     THEN [e EXCEPT !.metadata.mtime =
                        (CHOOSE t \in times : t.path = e.path).mtime]
     ELSE e : e \in fs}

\* Mutant of RestoreTimes: only those of the diff.
RestoreExplicitTimes ==
    /\ apc = "times"
    /\ tree' = WithTimes(tree, dir_metadata_changes)
    /\ apc' = "done"
    /\ UNCHANGED <<input, todo, stamp, temp, memory, errors, runs, faulted>>

\* restore_directory_mtimes.  Its order is that of depth, but to set a mtime
\* touches nothing else.
RestoreTimes ==
    /\ apc = "times"
    /\ \E explicit \in SUBSET dir_metadata_changes, saved \in SUBSET saved_dir_mtimes :
         LET refused == (dir_metadata_changes \ explicit) \cup (saved_dir_mtimes \ saved)
         IN  /\ tree' = WithTimes(WithTimes(tree, explicit), saved)
             /\ Warns(refused = {}, {t.path : t \in refused})
    /\ apc' = "done"
    /\ UNCHANGED <<input, todo, stamp, temp, saved_dir_mtimes, dir_metadata_changes,
                   errors, runs>>

\* Everything in memory is lost, a tempfile stays.
Kill ==
    /\ apc \in {"delete", "create", "content", "times"}
    /\ Fault
    /\ apc' = "killed"
    /\ todo' = {}
    /\ stamp' = None
    /\ temp' = None
    /\ UNCHANGED <<input, tree, memory, errors, runs>>

Step ==
    \/ Stamp
    \/ Delete \/ DeleteFails \/ DeletionsDone
    \/ AddDirectory \/ AddDirectoryFails \/ MakeLink \/ MakeLinkFails
    \/ ChangeMetadata \/ CreationsDone
    \/ BeginWrite \/ Abort \/ Persist \/ PersistFails \/ ContentDone
    \/ RestoreTimes

ApplyNext == Start \/ Step \/ Kill

\* One thread that nothing blocks; whether a run begins is up to the user.
ApplySpec == ApplyInit /\ [][ApplyNext]_applyVars /\ WF_applyVars(Step)

----------------------------------------------------------------------------
(* Properties.                                                             *)

implicit_dirs == implicit_dirs_of(present, changes)
FirstRun == runs = 1 /\ faulted = 0

\* The target is as the source was.
Faithful == present = before

\* What verify says of the target, after Verify: nothing disagrees.
Accepted ==
    LET simulated == simulate_apply(present, DiffOf(before, after))
    IN  /\ IsTree(simulated)
        /\ \A e \in simulated \cup after :
             ~ Mismatch(e.path, simulated, after, implicit_dirs)

\* Links whose change says nothing of metadata, and directories that lost
\* entries and their kind: there the code departs from simulate_apply.
Retargeted == {c.path : c \in {c \in changes :
                  /\ c.op = "Modified"
                  /\ c.new_symlink_target # None
                  /\ c.new_metadata = None}}
Replaced == {d.path : d \in {d \in present :
                  d.path \in implicit_dirs /\ d.kind = "Directory"
                    /\ \E e \in At(after, d.path) : e.kind # "Directory"}}

\* A first run without faults over a target as the source was: no errors, and
\* the outcome is the new tree.
AppliedMatches ==
    Faithful /\ privileged /\ FirstRun /\ apc \in {"done", "failed"} =>
        /\ apc = "done" /\ ~ errors
        /\ \A e \in tree \cup after :
             ~ Mismatch(e.path, tree, after, Retargeted \cup Replaced)

\* What verify accepts, apply carries out, over any target, unless it reports
\* errors: the outcome does not disagree with the new tree.
VerifiedThenApplied ==
    runs = 1 /\ apc = "done" /\ ~ errors /\ Accepted =>
        \A e \in tree \cup after :
            ~ Mismatch(e.path, tree, after, implicit_dirs \cup Retargeted \cup unstamped)

\* Directories the diff does not speak of have their mtimes put back, over any
\* target, whatever failed in a first run, if only its content pass got to the
\* end: "Apply preserves the mtime of parent directories that are implicitly
\* touched by child adds/removes" (simulate.rs:8).
ParentTimesPreserved ==
    runs = 1 /\ apc = "done" =>
        \A d \in present, e \in tree :
            /\ d.path = e.path /\ d.path \in implicit_dirs \ unstamped
            /\ d.kind = "Directory" /\ e.kind = "Directory"
            => d.metadata.mtime = e.metadata.mtime

\* Entries the diff does not mention survive, over any target, with content
\* and metadata, whatever else is deleted around them; only the mtimes of
\* directories move.
ForeignKept ==
    \A f \in present :
        (\A c \in changes : c.path # f.path) =>
            \E e \in At(tree, f.path) :
                /\ e.kind = f.kind /\ e.hash = f.hash
                /\ e.symlink_target = f.symlink_target
                /\ e.metadata.size = f.metadata.size
                /\ e.metadata.mode = f.metadata.mode
                /\ f.kind # "Directory" => e.metadata.mtime = f.metadata.mtime

\* A file that is to be modified is, at every moment, there with all of its
\* old content or all of its new content ("must fail the apply without
\* persisting the truncated content over the existing target file", the test
\* at apply.rs:701).
OldOrNew ==
    \A c \in changes, f \in present :
        /\ c.op = "Modified" /\ c.has_content
        /\ f.path = c.path /\ f.kind = "File"
        => \E e \in At(tree, f.path) :
             /\ e.kind = "File"
             /\ \/ e.hash = f.hash /\ e.metadata.size = f.metadata.size
                \/ /\ e.hash = c.new_hash
                   /\ \E m \in c.new_metadata : e.metadata.size = m.size

Contents(entries) ==
    {[path |-> e.path, kind |-> e.kind, hash |-> e.hash,
      symlink_target |-> e.symlink_target] : e \in entries}

\* After a run that failed or was killed anywhere, applying the same diff once
\* more, without faults, brings every entry, content and link target to where
\* it belongs; tempfiles of a killed run may stay.
RerunRepairs ==
    Faithful /\ privileged /\ apc = "done" /\ faulted < runs =>
        Contents({e \in tree : e.path = root \/ Last(e.path) # Temp}) = Contents(after)

\* A run comes to its end.
RunEnds == apc \in {"delete", "create", "content", "times"}
               ~> apc \in {"done", "failed", "killed"}
=============================================================================
