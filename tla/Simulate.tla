----------------------------- MODULE Simulate ------------------------------
(***************************************************************************)
(* simulate_apply (commands/simulate.rs): what a list of changes makes of  *)
(* a set of entries, held in memory.  It is both what `verify' runs and    *)
(* the meaning of a diff: the properties of compute_diff_merkle are stated *)
(* with it.                                                                *)
(***************************************************************************)
EXTENDS Entries

\* The value of an optional field of a change, or what was there before.
OrElse(option, old) == IF option = None THEN old ELSE CHOOSE x \in option : TRUE

At(state, p) == {e \in state : e.path = p}

\* What a Modified change makes of an entry.
Updated(e, change) ==
    [e EXCEPT !.metadata = OrElse(change.new_metadata, @),
              !.hash = IF change.new_hash = None THEN @ ELSE change.new_hash,
              !.symlink_target = IF change.new_symlink_target = None
                                 THEN @ ELSE change.new_symlink_target]

\* One change.  A Modified change of a path that is not there is ignored.
SimulateChange(state, change) ==
    CASE change.op = "Removed" -> state \ At(state, change.path)
      [] change.op = "Added" ->
           (state \ At(state, change.path)) \cup {change.entry}
      [] change.op = "Modified" ->
           (state \ At(state, change.path))
           \cup {Updated(e, change) : e \in At(state, change.path)}

\* All changes in their order: after[n] is the state after n of them.
simulate_apply(state, changes) ==
    LET after[n \in 0 .. Len(changes)] ==
            IF n = 0 THEN state ELSE SimulateChange(after[n - 1], changes[n])
    IN  after[Len(changes)]

\* The directories whose mtime apply will put back: a child of theirs comes
\* or goes, or is modified, and no change sets their own metadata.
implicit_dirs_of(state, changes) ==
    LET affected_parents ==
            {parent(c.path) : c \in {c \in changes : c.path # root}}
        explicit_dirs ==
            {c.path : c \in {c \in changes :
                 \/ c.op = "Added" /\ c.entry.kind = "Directory"
                 \/ /\ c.op = "Modified" /\ c.new_metadata # None
                    /\ \E e \in At(state, c.path) : e.kind = "Directory"}}
    IN  affected_parents \ explicit_dirs

\* Whether two sets of entries disagree on a path; `implicit' are paths whose
\* metadata does not count.
Mismatch(p, got, expected, implicit) ==
    LET g == At(got, p)
        e == At(expected, p)
    IN  \/ g = {} \/ e = {}
        \/ \E x \in g, y \in e :
             \/ x.kind # y.kind
             \/ x.hash # y.hash
             \/ x.symlink_target # y.symlink_target
             \/ p \notin implicit /\ ~ matches(x.metadata, y.metadata)

\* Every entry lies in a directory, and no path has two.
IsTree(entries) ==
    /\ \A e, f \in entries : e.path = f.path => e = f
    /\ \A e \in entries :
         e.path # root =>
             \E d \in At(entries, parent(e.path)) : d.kind = "Directory"
=============================================================================
