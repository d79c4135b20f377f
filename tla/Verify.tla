------------------------------- MODULE Verify ------------------------------
(***************************************************************************)
(* run_verify (commands/verify.rs): at the target, the diff is applied to  *)
(* the walked tree in memory (simulate_apply), directory hashes are        *)
(* computed anew, and the outcome is compared with the snapshot the source *)
(* made.  Again equal directory hashes cut the comparison short.  The walk *)
(* takes that snapshot, of another machine, for its cache of hashes.       *)
(*                                                                         *)
(* The changes and the snapshot come from MerkleDiff, whose steps precede  *)
(* those of this module; the tree at the target may be any.                *)
(***************************************************************************)
EXTENDS MerkleDiff

VARIABLES
    vpc,            \* "idle", then "compare", then "ok" or "failed"
    present,        \* the tree on disk at the target
    simulated,      \* its entries after the simulated apply, sorted, hashed
    implicit_dirs,  \* what simulate_apply returns
    sim_iter,       \* index of the entry sim_iter.peek() returns
    tgt_iter,       \* index of the entry tgt_iter.peek() returns
    discrepancies   \* those found so far: [what, path]

diffVars == vars
verifyVars == <<vpc, present, simulated, implicit_dirs, sim_iter, tgt_iter,
                discrepancies>>

target == new_entries

VerifyInit ==
    /\ Init
    /\ vpc = "idle"
    /\ present = {}
    /\ simulated = <<>>
    /\ implicit_dirs = {}
    /\ sim_iter = 1
    /\ tgt_iter = 1
    /\ discrepancies = <<>>

\* run_verify up to the comparison.
SimulateDiff ==
    /\ vpc = "idle"
    /\ pc = "done"
    /\ \E tree \in Trees :
         LET current == Walk(tree, ToSet(target))
         IN  /\ present' = tree
             /\ simulated' = Snapshot(simulate_apply(current, changes))
             /\ implicit_dirs' = implicit_dirs_of(current, ToSet(changes))
    /\ vpc' = "compare"
    /\ UNCHANGED <<diffVars, sim_iter, tgt_iter, discrepancies>>

----------------------------------------------------------------------------
(* compare_with_merkle.                                                    *)

MoreSim == sim_iter <= Len(simulated)
MoreTgt == tgt_iter <= Len(target)
sim == simulated[sim_iter]
tgt == target[tgt_iter]

\* Mutant of compare_single_entry: implicit directories are not excepted.
compare_single_entry_strict(s, t, implicit) ==
    LET mismatch(what, differs) ==
            IF differs THEN <<[what |-> what, path |-> t.path]>> ELSE <<>>
    IN  mismatch("KIND", s.kind # t.kind)
        \o mismatch("METADATA", ~ matches(s.metadata, t.metadata))
        \o mismatch("HASH", s.hash # t.hash)
        \o mismatch("SYMLINK", s.symlink_target # t.symlink_target)

\* The discrepancies between two entries of one path.
compare_single_entry(s, t, implicit) ==
    LET mismatch(what, differs) ==
            IF differs THEN <<[what |-> what, path |-> t.path]>> ELSE <<>>
    IN  mismatch("KIND", s.kind # t.kind)
        \o mismatch("METADATA", /\ s.path \notin implicit
                                /\ ~ matches(s.metadata, t.metadata))
        \o mismatch("HASH", s.hash # t.hash)
        \o mismatch("SYMLINK", s.symlink_target # t.symlink_target)

Proceed(simTo, tgtTo, found) ==
    /\ vpc = "compare"
    /\ sim_iter' = simTo
    /\ tgt_iter' = tgtTo
    /\ discrepancies' = discrepancies \o found
    /\ UNCHANGED <<diffVars, vpc, present, simulated, implicit_dirs>>

\* Mutant of Extra: what is left over in the simulated state is forgotten.
ExtraWhileBoth ==
    /\ MoreSim
    /\ MoreTgt
    /\ Less(sim.path, tgt.path)
    /\ Proceed(sim_iter + 1, tgt_iter, <<[what |-> "EXTRA", path |-> sim.path]>>)

\* Ordering::Less, or nothing left of the target snapshot.
Extra ==
    /\ MoreSim
    /\ MoreTgt => Less(sim.path, tgt.path)
    /\ Proceed(sim_iter + 1, tgt_iter, <<[what |-> "EXTRA", path |-> sim.path]>>)

\* Ordering::Greater, or nothing left of the simulated state.
Absent ==
    /\ MoreTgt
    /\ MoreSim => Less(tgt.path, sim.path)
    /\ Proceed(sim_iter, tgt_iter + 1, <<[what |-> "MISSING", path |-> tgt.path]>>)

OnBothSides == MoreSim /\ MoreTgt /\ sim.path = tgt.path

\* The guard of the short circuit.
SameTree ==
    /\ sim.kind = "Directory"
    /\ tgt.kind = "Directory"
    /\ sim.dir_hash # None
    /\ sim.dir_hash = tgt.dir_hash
    /\ sim.path \notin implicit_dirs

\* Mutant of SkipTree: the entry of the directory itself is not compared.
SkipTreeUnseen ==
    /\ OnBothSides
    /\ SameTree
    /\ Proceed(skip_subtree(sim_iter, simulated), skip_subtree(tgt_iter, target), <<>>)

SkipTree ==
    /\ OnBothSides
    /\ SameTree
    /\ Proceed(skip_subtree(sim_iter, simulated), skip_subtree(tgt_iter, target),
               compare_single_entry(sim, tgt, implicit_dirs))

CompareEntry ==
    /\ OnBothSides
    /\ ~ SameTree
    /\ Proceed(sim_iter + 1, tgt_iter + 1, compare_single_entry(sim, tgt, implicit_dirs))

Verdict ==
    /\ vpc = "compare"
    /\ ~ MoreSim
    /\ ~ MoreTgt
    /\ vpc' = IF discrepancies = <<>> THEN "ok" ELSE "failed"
    /\ UNCHANGED <<diffVars, present, simulated, implicit_dirs, sim_iter,
                   tgt_iter, discrepancies>>

Compare == Extra \/ Absent \/ SkipTree \/ CompareEntry \/ Verdict

DiffStep == Next /\ UNCHANGED verifyVars

VerifyNext == DiffStep \/ SimulateDiff \/ Compare

\* Both commands are single threads and run to their end.
VerifySpec ==
    /\ VerifyInit
    /\ [][VerifyNext]_<<diffVars, verifyVars>>
    /\ WF_<<diffVars, verifyVars>>(VerifyNext)

----------------------------------------------------------------------------
(* Properties.                                                             *)

Simulated == ToSet(simulated)

\* Whether the simulated state and the target snapshot disagree on a path: a
\* statement about two sets, without hashes of directories or a merge.
Disagree(p) == Mismatch(p, Simulated, ToSet(target), implicit_dirs)

Compared == {e.path : e \in ToSet(SubSeq(simulated, 1, sim_iter - 1))
                              \cup ToSet(SubSeq(target, 1, tgt_iter - 1))}

Reported == {d.path : d \in ToSet(discrepancies)}

\* Nothing is reported that does not disagree; and when the simulated state
\* is a tree, everything that disagrees is reported, at any step of the way:
\* neither the short circuit nor the implicit directories hide more.
ReportsExactly ==
    /\ Reported \subseteq {p \in Compared : Disagree(p)}
    /\ IsTree(Simulated) => Reported = {p \in Compared : Disagree(p)}

\* A target still as the old snapshot found the source passes.  Directories
\* that apply leaves alone may have any metadata there (an earlier apply left
\* them alone as well), and neither drift of mtimes within the tolerance nor
\* hashes taken from the snapshot raise a false alarm.
NoFalseAlarm ==
    LET Unchanged(f, e) ==
            /\ f.path = e.path
            /\ f.kind = e.kind
            /\ f.hash = e.hash
            /\ f.symlink_target = e.symlink_target
            /\ f.metadata = e.metadata \/ f.path \in implicit_dirs
    IN  /\ \A e \in Before : \E f \in present : Unchanged(f, e)
        /\ \A f \in present : \E e \in Before : Unchanged(f, e)
        => vpc # "failed"

\* "Verify complete: simulated state matches target snapshot"
\* (verify.rs:65): success means that the two agree on every path.
CompleteMeansMatch ==
    vpc = "ok" => \A e \in Simulated \cup ToSet(target) : ~ Disagree(e.path)

\* The walk of the target takes hashes from the snapshot of the source, "on a
\* single filesystem" (entry.rs:41) or not: success over a file with another
\* content than the snapshot says, which the diff leaves alone, means that its
\* size and the second of its mtime are those of the snapshot.
HiddenByCacheOnly ==
    vpc = "ok" =>
        \A f \in present, t \in ToSet(target) :
            /\ f.path = t.path
            /\ f.kind = "File" /\ t.kind = "File"
            /\ f.hash # t.hash
            /\ \A i \in DOMAIN changes : changes[i].path # f.path
            => /\ f.metadata.size = t.metadata.size
               /\ mtime_sec(f.metadata) = mtime_sec(t.metadata)

\* The verification ends.
VerifyEnds == <>(vpc \in {"ok", "failed"})
=============================================================================
