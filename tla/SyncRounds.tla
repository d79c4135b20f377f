----------------------------- MODULE SyncRounds -----------------------------
(***************************************************************************)
(* Many rounds: the tree at the source is edited, run_diff walks it with   *)
(* the last snapshot for a cache, writes the next snapshot and then the    *)
(* diff, the diffs are carried and applied in their order, none left out,  *)
(* some time later.  The walk leaves out what it cannot read; a round may  *)
(* fail before, between and after the two files are written; edits fall    *)
(* into any moment, also between the walk and the reading of content;      *)
(* applying may end early, and metadata may be refused.  The user makes    *)
(* the next diff from the snapshot of the last diff that was written, and  *)
(* after an aborted run applies the diff again, or goes on to the next.    *)
(*                                                                         *)
(* The steps of one round are those of other modules, each taken at once:  *)
(* the merge finds the difference of the two lists (MerkleDiff), packing   *)
(* and carrying deliver it (SplitDiff, Transfer), and run_apply does path  *)
(* by path what its operations come to in Apply; those that fail without a *)
(* reason and count as errors, and a run that is killed, are there alone,  *)
(* with the rerun that repairs them.  Which files the bytes get into once  *)
(* a file was read with another size than declared is left open (Transfer  *)
(* has it): neither that the run aborts nor that it does not.              *)
(***************************************************************************)
EXTENDS Changes

CONSTANTS
    MaxEdits, MaxRounds,
    MaxFaults,  \* paths not read, runs aborted and metadata refused
    Now,        \* stands for an mtime that a run moved, or failed to set
    FreshMode   \* stands for a mode that a run failed to set

ASSUME SyncAssumption ==
    MaxEdits \in Nat /\ MaxRounds \in Nat /\ MaxFaults \in Nat /\ Now \in Int

VARIABLES
    disk,         \* the tree at the source
    edits, rounds, faults,
    pc,           \* "idle", or "diff": run_diff has walked and hashed
    snapshot_in,  \* the entries of the snapshot the next diff starts from
    run,          \* what the current run_diff has: see Walked
    carried,      \* diffs not yet applied, in order: of which run, and the
                  \* files as they were read
    tried,        \* whether the first of them was applied, in part
    target,       \* the tree at the target
    reached,      \* the run whose diff was applied last
    applied,      \* how many were applied
    astray,       \* files at the target without the content their diff says
    unset,        \* entries there without the mode
    untimed       \* entries there without the mtime

source == <<disk, edits, rounds, pc, snapshot_in, run>>
sink == <<tried, target, reached, applied, astray, unset, untimed>>
syncVars == <<source, faults, carried, sink>>

----------------------------------------------------------------------------
\* walk_filesystem when one path cannot be read: of a directory, what is
\* underneath is left out, of anything else the entry, unless its hash is
\* cached.
Found(previous, unreadable) ==
    {e \in Walk(disk, previous) :
        \A p \in unreadable :
            /\ ~ contains(p, e.path)
            /\ e.path = p => e.kind = "Directory" \/ Cached(e, previous) # {}}

Walked(previous, unreadable) ==
    [input |-> previous, entries |-> Found(previous, unreadable),
     seen |-> disk, clean |-> unreadable = {}]

MaybeUnreadable == {{}} \cup {{e.path} : e \in disk}

\* run_snapshot without an earlier snapshot, and the full copy that the same
\* user makes, and that lacks the same.
SyncInit ==
    /\ disk \in Trees
    /\ edits = 0
    /\ rounds = 0
    /\ pc = "idle"
    /\ \E unreadable \in MaybeUnreadable :
         /\ run = Walked({}, unreadable)
         /\ faults = Cardinality(unreadable)
         /\ faults <= MaxFaults
    /\ snapshot_in = run.entries
    /\ carried = <<>>
    /\ tried = FALSE
    /\ target = run.entries
    /\ reached = run
    /\ applied = 0
    /\ astray = {} /\ unset = {} /\ untimed = {}

Edit ==
    /\ edits < MaxEdits
    /\ disk' \in Trees \ {disk}
    /\ edits' = edits + 1
    /\ UNCHANGED <<rounds, faults, pc, snapshot_in, run, carried, sink>>

StartDiff ==
    /\ pc = "idle"
    /\ rounds < MaxRounds
    /\ rounds' = rounds + 1
    /\ \E unreadable \in MaybeUnreadable :
         /\ run' = Walked(snapshot_in, unreadable)
         /\ faults' = faults + Cardinality(unreadable)
         /\ faults' <= MaxFaults
    /\ pc' = "diff"
    /\ UNCHANGED <<disk, edits, snapshot_in, carried, sink>>

HasContent(c) == c.op # "Removed" /\ c.has_content
ContentsOf(changes) == {c \in changes : HasContent(c)}
PathsOf(set) == {x.path : x \in set}

\* Both files are written, the next snapshot before the diff.  The files are
\* read as they are by now, whatever the walk saw: the record says how long
\* they are, the change how long they were.
WriteDiff ==
    /\ pc = "diff"
    /\ LET wanted == PathsOf(ContentsOf(ChangesOf(run.input, run.entries)))
           read == {f \in disk : f.kind = "File" /\ f.path \in wanted}
       IN  /\ PathsOf(read) = wanted
           /\ carried' = Append(carried, [run |-> run, read |-> read])
    /\ snapshot_in' = run.entries
    /\ pc' = "idle"
    /\ UNCHANGED <<disk, edits, rounds, faults, run, sink>>

\* A file is gone by now, say.  A snapshot without its diff is not used, and
\* a file cut short is refused when it is read: they are as good as none.
RoundFails ==
    /\ pc # "idle"
    /\ pc' = "idle"
    /\ UNCHANGED <<disk, edits, rounds, faults, snapshot_in, run, carried, sink>>

----------------------------------------------------------------------------
(* run_apply.                                                              *)

\* apply_deletions: nothing goes that is of another kind, and no directory
\* in which something stays.
Remaining(fs, changes) ==
    LET hit == {e \in fs : \E c \in changes :
                   /\ c.op = "Removed" /\ c.path = e.path
                   /\ (c.kind = "Directory") = (e.kind = "Directory")}
    IN  {e \in fs : e \in hit => \E f \in fs \ hit : contains(e.path, f.path)}

MetadataOf(c) == IF c.op = "Added" THEN Some(c.entry.metadata) ELSE c.new_metadata
HashOfContent(c) == IF c.op = "Added" THEN c.entry.hash ELSE c.new_hash
AddsLink(c) == c.op = "Added" /\ c.entry.kind = "Symlink"
AddsDirectory(c) == c.op = "Added" /\ c.entry.kind = "Directory"
Retargets(c) == c.op = "Modified" /\ c.new_symlink_target # None

\* What is there is in the way: of a directory if it is none, of a new link in
\* any case, of a link that changes and of a file if it is a directory.
Blocked(c, there) ==
    \E e \in there :
        \/ AddsDirectory(c) /\ e.kind # "Directory"
        \/ AddsLink(c)
        \/ (HasContent(c) \/ Retargets(c)) /\ e.kind = "Directory"

\* What comes of a path, metadata included; `hash' is that of the bytes.
Outcome(c, there, hash) ==
    LET made(kind, content, link) ==
            [path |-> c.path, kind |-> kind, hash |-> content, symlink_target |-> link,
             metadata |-> OrElse(MetadataOf(c),
                                 [size |-> 0, mode |-> FreshMode, mtime |-> Now])]
    IN  IF HasContent(c) THEN {made("File", hash, None)}
        ELSE IF c.op = "Added" THEN {c.entry}
        ELSE IF Retargets(c) THEN {made("Symlink", None, c.new_symlink_target)}
        ELSE {Updated(e, c) : e \in there}

\* The content a diff has for a change: it comes whole if every file so far was
\* read with the declared size, or else, for all one knows, it is no file's.
Brought(d, contents, c) ==
    LET readAs(k) == {f \in d.read :
            f.path = k.path /\ \A m \in MetadataOf(k) : f.metadata.size = m.size}
    IN  IF \A k \in contents : k = c \/ Precedes(k, c) => readAs(k) # {}
        THEN UNION {f.hash : f \in readAs(c)} ELSE None

ParentsOf(changes) == {parent(c.path) : c \in {c \in changes : c.path # root}}
DirectoriesOf(fs) == PathsOf({e \in fs : e.kind = "Directory"})

\* A run that stores the contents `stored' and is refused the metadata of the
\* paths `refused'.  If it is complete, the mtimes of the parents of what
\* changed are put back, also on what a directory has been replaced by.
Applying(d, changes, stored, refused, complete) ==
    LET contents == ContentsOf(changes)
        fs == Remaining(target, changes)
        done == {c \in changes : /\ c.op # "Removed" /\ (HasContent(c) => c \in stored)
                                 /\ ~ Blocked(c, At(fs, c.path))}
        outcome == {e \in fs : e.path \notin PathsOf(done)}
            \cup UNION {Outcome(c, At(fs, c.path), Brought(d, contents, c)) : c \in done}
        stamped == PathsOf({c \in done : MetadataOf(c) # None})
        bare == PathsOf({c \in done : Retargets(c) /\ MetadataOf(c) = None})
        parents == ParentsOf(changes)
        moved == parents \cap IF complete
                              THEN DirectoriesOf(target) \ DirectoriesOf(outcome)
                              ELSE DirectoriesOf(outcome)
    IN  /\ refused \subseteq stamped \cup IF complete THEN parents ELSE {}
        /\ astray' = (astray \ PathsOf({c \in changes : c.op = "Removed" \/ HasContent(c)}))
             \cup PathsOf({c \in contents :
                      c \notin done \/ Brought(d, contents, c) # HashOfContent(c)})
        /\ unset' = (unset \ stamped) \cup (refused \cap stamped) \cup bare
        /\ untimed' = (untimed \ stamped) \cup refused \cup bare \cup moved
        /\ target' = {[e EXCEPT
                !.metadata.mode = IF e.path \in unset' THEN FreshMode ELSE @,
                !.metadata.mtime = IF e.path \in untimed' THEN Now ELSE @] : e \in outcome}
        /\ reached' = d.run
        /\ applied' = IF tried THEN applied ELSE applied + 1
        /\ UNCHANGED source

MayBeStamped(changes) ==
    PathsOf({c \in changes : c.op # "Removed"}) \cup ParentsOf(changes)

ApplyDiff ==
    /\ carried # <<>>
    /\ LET d == Head(carried)
           changes == ChangesOf(d.run.input, d.run.entries)
       IN  \E refused \in SUBSET MayBeStamped(changes) :
             /\ faults' = faults + Cardinality(refused)
             /\ faults' <= MaxFaults
             /\ Applying(d, changes, ContentsOf(changes), refused, TRUE)
    /\ carried' = Tail(carried)
    /\ tried' = FALSE

\* The error that stream_file_contents hands on leaves run_apply before the
\* mtimes of directories are put back.
ApplyAborts ==
    /\ carried # <<>>
    /\ LET d == Head(carried)
           changes == ChangesOf(d.run.input, d.run.entries)
           contents == ContentsOf(changes)
       IN  \E stored \in SUBSET contents, refused \in SUBSET MayBeStamped(changes) :
             /\ faults' = faults + Cardinality(refused) + 1
             /\ faults' <= MaxFaults
             /\ \A c \in stored, k \in contents : Precedes(k, c) => k \in stored
             /\ Applying(d, changes, stored, refused, FALSE)
    /\ tried' \in BOOLEAN
    /\ carried' = IF tried' THEN carried ELSE Tail(carried)

SyncNext ==
    \/ Edit
    \/ StartDiff \/ WriteDiff \/ RoundFails
    \/ ApplyDiff \/ ApplyAborts

SyncSpec == SyncInit /\ [][SyncNext]_syncVars

----------------------------------------------------------------------------
(* Properties.                                                             *)

\* However the rounds overlap and fail, whatever the walks leave out and the
\* runs of apply do not get to, the target is as the snapshot of the diff
\* applied last says, in kinds, contents, link targets and modes.  Content can
\* only be other, or not be there, in files whose content was last sent by a
\* diff that an edit overtook, or that was not applied to its end.
TargetFollows ==
    /\ \A s \in reached.entries :
         At(target, s.path) = {} => s.path \in astray /\ s.kind = "File"
    /\ \A t \in target : \E s \in At(reached.entries, t.path) :
         /\ t.kind = s.kind /\ t.symlink_target = s.symlink_target
         /\ t.hash = s.hash \/ t.path \in astray
         /\ t.metadata.mode = s.metadata.mode \/ t.path \in astray \cup unset

\* Once the diff of a walk that could read everything has come to the target,
\* the target has every entry and content the walk could see, also what
\* earlier walks left out or earlier rounds failed to deliver.  What may be
\* missing is an edit that kept size and second of mtime, and content that the
\* diffs have lost (astray).
CleanRoundHeals ==
    reached.clean =>
        \A e \in target \cup reached.seen :
            \E s \in At(reached.seen, e.path) :
                /\ At(target, e.path) = {} => e.path \in astray
                /\ \A t \in At(target, e.path) :
                     /\ t.kind = s.kind /\ t.symlink_target = s.symlink_target
                     /\ \/ t.hash = s.hash
                        \/ e.path \in astray
                        \/ \E c \in At(reached.input, e.path) :
                             /\ c.kind = "File"
                             /\ c.metadata.size = s.metadata.size
                             /\ c.metadata.mtime \div MTIME_TOLERANCE
                                  = s.metadata.mtime \div MTIME_TOLERANCE

\* Mtimes drift apart by no more than the tolerance per diff, but where a run
\* moved them or was not granted to set them, and on links and in place of
\* directories where apply does not set them right.
DriftBounded ==
    \A t \in target, s \in reached.entries :
        t.path = s.path /\ t.path \notin astray \cup untimed =>
            t.metadata.mtime - s.metadata.mtime
                \in -(applied * MTIME_TOLERANCE) .. applied * MTIME_TOLERANCE
=============================================================================
