----------------------------- MODULE HomeCompare -----------------------------
(***************************************************************************)
(* homestate --check: a scan of the home directory is compared with the    *)
(* scan that --index kept (internal/homestate, scan and compare).  A tree  *)
(* is a function from the paths that exist to their entries; the mode of a *)
(* file stands for its time as well.                                       *)
(***************************************************************************)
EXTENDS Integers, SequencesExt, FiniteSets

CONSTANTS
    Above,      \* the directories above every path that there can be
    StateFile   \* the database, that a scan leaves out

NoHash == "no hash"     \* of a file that could not be read

\* A scan comes to what no directory that cannot be listed hides.
Scanned(tree, blocked) == {p \in DOMAIN tree :
    p /= StateFile /\ \A d \in Above[p] : d \notin blocked}

\* at: the entries that cannot be read or listed (blocked), those whose Lstat fails
\* after their directory was listed, as when it may not be searched or they have just
\* gone (lost), and the files that change while they are hashed (changing): their
\* content is what was hashed.  Lost entries are dropped; the target of a link is empty
\* when it cannot be read, and that leaves no diagnostic.
Found(p, entry, at) ==
    [type |-> entry.type, mode |-> entry.mode,
     content |-> IF p \in at.blocked /\ entry.type \in {"file", "symlink"}
                 THEN NoHash ELSE entry.content,
     unstable |-> entry.type = "file" /\ p \in at.changing \ at.blocked]

scan(tree, at) ==
    LET reached == Scanned(tree, at.blocked)
    IN  [entries |-> [p \in reached \ at.lost |-> Found(p, tree[p], at)],
         diagnostics |-> {p \in reached :
            p \in at.lost \/ (p \in at.blocked /\ tree[p].type \in {"file", "dir"})}]

\* Of a directory only the mode counts.
entryEqual(a, b) ==
    IF a.type = "dir" /\ b.type = "dir" THEN a.mode = b.mode ELSE a = b

SameContent(entries, paths, content) ==
    {p \in paths : entries[p].type = "file" /\ entries[p].content = content}

\* The added or removed paths that no move explains.
Rest(paths, moves) == paths \ ({m.path : m \in moves} \union UNION {m.from : m \in moves})

compare(old, live) ==
    LET removed == DOMAIN old \ DOMAIN live
        added == DOMAIN live \ DOMAIN old
        hashes == {old[p].content : p \in {p \in removed : old[p].type = "file"}} \ {NoHash}
        moves == UNION {
            LET from == SameContent(old, removed, c) to == SameContent(live, added, c) IN
            {[path |-> p, from |-> from,
              status |-> IF Cardinality(from) = 1 /\ Cardinality(to) = 1
                         THEN "moved" ELSE "ambiguous_move"] : p \in to} : c \in hashes}
        Is(status, paths) == {[path |-> p, from |-> {}, status |-> status] : p \in paths}
    IN  Is("modified", {p \in DOMAIN old \intersect DOMAIN live : ~entryEqual(old[p], live[p])})
        \union moves
        \union Is("added", Rest(added, moves)) \union Is("removed", Rest(removed, moves))

\* An index of one tree, then a check of another; Index drops its diagnostics.
Check(in) ==
    LET index == scan(in.before, in.atIndex)
        live == scan(in.after, in.atCheck)
    IN  [changes |-> compare(index.entries, live.entries), diagnostics |-> live.diagnostics]

\* Any two trees, and anything that the scan of each fails on.
Entries == [type : {"file", "dir", "symlink", "other"}, content : STRING \ {NoHash}, mode : Int]
IsTree(t) ==
    /\ DOMAIN t \subseteq DOMAIN Above /\ t \in [DOMAIN t -> Entries]
    /\ \A p \in DOMAIN t : \A d \in Above[p] : d \in DOMAIN t /\ t[d].type = "dir"
IsInput(in) == IsTree(in.before) /\ IsTree(in.after)

-----------------------------------------------------------------------------
\* What the changes say of the two trees.

\* Every path has one explanation.
EachPathOnce(in, out) ==
    LET At(p) == {c \in out.changes : c.path = p}
        From(p) == {c \in out.changes : p \in c.from}
    IN  \A p \in DOMAIN in.before \union DOMAIN in.after :
            /\ Cardinality(At(p)) <= 1
            /\ At(p) = {} \/ From(p) = {}
            /\ {c.status : c \in From(p)} \in {{}, {"moved"}, {"ambiguous_move"}}
            /\ Cardinality(From(p)) > 1 => \E c \in From(p) : c.status = "ambiguous_move"

\* A path is reported gone only when it is, or the check has a diagnostic at it or above.
GoneIsGone(in, out) ==
    \A c \in out.changes : \A p \in c.from \union (IF c.status = "removed" THEN {c.path} ELSE {}) :
        p \in DOMAIN in.after => \E d \in Above[p] \union {p} : d \in out.diagnostics

\* A move leads from files that are gone to one with their content, and a file with
\* the content of a removed one is never just added.
MovesKeepContent(in, out) ==
    /\ \A c \in out.changes : \A o \in c.from :
        in.after[c.path].content = in.before[o].content
    /\ \A c, d \in out.changes :
        LET old == in.before[d.path] new == in.after[c.path] IN
        /\ c.status = "added" /\ c.path \notin in.atCheck.blocked /\ new.type = "file"
        /\ d.status = "removed" /\ d.path \notin in.atIndex.blocked /\ old.type = "file"
        => new.content /= old.content

\* When both scans saw everything, a path without a change has not changed, and one
\* that has not changed, nor was changing under a scan, is without a change.
NoChangeIsSame(in, out) ==
    LET b == in.before a == in.after
        Same(p) == p \in DOMAIN a \intersect DOMAIN b /\
            (a[p] = b[p] \/ (a[p].type = "dir" /\ b[p].type = "dir" /\ a[p].mode = b[p].mode))
        Unchanged(p) == \A c \in out.changes : c.path /= p /\ p \notin c.from
    IN  (\A at \in {in.atIndex, in.atCheck} : at.blocked = {} /\ at.lost = {}) =>
            \A p \in (DOMAIN a \union DOMAIN b) \ {StateFile} :
                /\ Unchanged(p) => Same(p)
                /\ Same(p) /\ p \notin in.atIndex.changing \union in.atCheck.changing => Unchanged(p)

ChangesExplainTrees(in, out) ==
    EachPathOnce(in, out) /\ GoneIsGone(in, out) /\ MovesKeepContent(in, out) /\ NoChangeIsSame(in, out)
=============================================================================
