---------------------------- MODULE DaemonBaseline ---------------------------
(***************************************************************************)
(* dtp: the executables of a tree are kept in a baseline that a key signs, *)
(* and compared with it later (internal/macossec, CreateDaemonBaseline and *)
(* CheckDaemonBaseline; cmd/dtp).  A place is a root as a directory it is  *)
(* read from makes it; a tree is a function from paths to entries.         *)
(***************************************************************************)
EXTENDS Integers, FiniteSets

CONSTANTS
    Above,      \* the directories above every path that there can be
    Written     \* a path as it comes back from JSON: what is not UTF-8 is replaced

validateBaselineKey(key) == key.bytes >= 16

\* A key and what it signs: nothing else has this signature.
signBaseline(b, key) == [key |-> key, root |-> b.root, entries |-> b.entries, errors |-> b.errors]

\* A root that is a link, or no executable, holds nothing; one that cannot be read
\* is an error.  What cannot be listed, or read, is an error of its own path.
IsExecutable(tree, p) == tree[p].type = "file" /\ tree[p].executable
Seen(tree, blocked) == {p \in DOMAIN tree : \A d \in Above[p] : d \notin blocked}

executableHashes(place) ==
    LET seen == Seen(place.tree, place.blocked)
        Fails(p) == p \in place.blocked /\ (place.tree[p].type = "dir" \/ IsExecutable(place.tree, p))
    IN  IF place.root = "link" THEN [entries |-> <<>>, errors |-> {}]
        ELSE [entries |-> [p \in {p \in seen : IsExecutable(place.tree, p) /\ ~Fails(p)} |-> place.tree[p].digest],
              errors |-> {p \in seen : Fails(p)}]

\* A root is kept as it was given: a relative one is another place elsewhere.
Place(root, cwd) == <<IF root.absolute THEN "/" ELSE cwd, root.name>>

Stored(entries) == [w \in {Written[p] : p \in DOMAIN entries} |->
    entries[CHOOSE p \in DOMAIN entries : Written[p] = w]]

Failed == [exit |-> 4, changes |-> {}]

Signed(b, key) ==
    [root |-> b.root, entries |-> b.entries, errors |-> b.errors, signature |-> signBaseline(b, key)]

\* Mutant: the errors of the scan are not kept in the baseline.
Baseline_Forgetful(root, scanned, key) ==
    Signed([root |-> root, entries |-> Stored(scanned.entries), errors |-> {}], key)

Baseline(root, scanned, key) ==
    Signed([root |-> root, entries |-> Stored(scanned.entries), errors |-> scanned.errors], key)

CreateDaemonBaseline(in) ==
    LET place == in.world[Place(in.root, in.cwd)] IN
    IF ~validateBaselineKey(in.key) \/ place.root = "unreadable" THEN <<>>
    ELSE <<Baseline(in.root, executableHashes(place), in.key)>>

Compare(old, live) ==
    LET Is(status, paths) == {[status |-> status, path |-> p] : p \in paths} IN
    Is("removed", DOMAIN old \ DOMAIN live) \union Is("added", DOMAIN live \ DOMAIN old)
    \union Is("modified", {p \in DOMAIN old \intersect DOMAIN live : old[p] /= live[p]})

CheckDaemonBaseline(b, key, cwd, world) ==
    LET place == world[Place(b.root, cwd)] IN
    IF \/ ~validateBaselineKey(key)
       \/ b.signature /= signBaseline(b, key)
       \/ b.errors /= {}
       \/ place.root = "unreadable"
       \/ executableHashes(place).errors /= {}
    THEN Failed
    ELSE [exit |-> 0, changes |-> Compare(b.entries, executableHashes(place).entries)]

Other == [name |-> "o", absolute |-> TRUE]

\* What becomes of the file between the two commands.
Edited(b, edit) ==
    CASE edit = "none" -> b
      [] edit = "errors" -> [b EXCEPT !.errors = {}]
      [] edit = "entries" -> [b EXCEPT !.entries = <<>>]
      [] edit = "root" -> [b EXCEPT !.root = Other]

\* dtp --index, then dtp --check of its baseline, in another world.
Dtp(in) ==
    LET created == CreateDaemonBaseline(in) IN
    IF created = <<>> THEN [index |-> 4, check |-> Failed]
    ELSE [index |-> 0, check |-> CheckDaemonBaseline(
            Edited(created[1], in.edit), in.key2, in.cwd2, in.world2)]

\* Any two worlds; what is above a path is a directory.
Entries == [type : {"dir", "other"}, digest : {0}, executable : BOOLEAN]
    \union [type : {"file"}, digest : Nat \ {0}, executable : BOOLEAN]
IsTree(t) ==
    /\ DOMAIN t \subseteq DOMAIN Above /\ t \in [DOMAIN t -> Entries]
    /\ \A p \in DOMAIN t : \A d \in Above[p] : d \in DOMAIN t /\ t[d].type = "dir"
IsInput(in) ==
    /\ \A place \in {in.world[Place(in.root, in.cwd)], in.world2[Place(in.root, in.cwd2)]} :
        IsTree(place.tree) /\ place.root \in {"dir", "link", "unreadable"}
    /\ in.edit \in {"none", "errors", "entries", "root"} /\ (in.edit = "root" => in.root /= Other)

-----------------------------------------------------------------------------
\* What a check that ends with 0 has shown.
Before(in) == in.world[Place(in.root, in.cwd)]
After(in) == in.world2[Place(in.root, in.cwd2)]
Programs(place) == {p \in DOMAIN place.tree : IsExecutable(place.tree, p)}
Digest(place, p) == IF p \in Programs(place) THEN place.tree[p].digest ELSE 0
Blocks(place) == \E p \in place.blocked \intersect DOMAIN place.tree :
    place.tree[p].type = "dir" \/ IsExecutable(place.tree, p)

\* Nobody without the key wrote the baseline or a part of it: an edit that passes
\* has changed nothing.
OnlyTheKeyWrites(in) ==
    /\ in.key2 = in.key
    /\ \/ in.edit = "none"
       \/ in.edit = "errors" /\ (Before(in).root = "link" \/ ~Blocks(Before(in)))
       \/ in.edit = "entries" /\ (Before(in).root = "link" \/ Programs(Before(in)) = {})

\* Both scans have read everything that there was to read, but below a link.
ReadsEverything(in) ==
    \A place \in {Before(in), After(in)} : place.root /= "link" => ~Blocks(place)

\* The changes are the differences between the executables that were there and those
\* that are: of the tree that was indexed only when the root was absolute or the
\* directory is the same, and path by path only of the names that JSON can write.
ChangesAreDifferences(in, changes) ==
    LET b == Before(in) a == After(in) IN
    (\A p \in Programs(b) : Written[p] = p) =>
        /\ b.root = "dir" /\ a.root = "dir" =>
            {c.path : c \in changes} = {p \in Programs(b) \union Programs(a) : Digest(b, p) /= Digest(a, p)}
        /\ in.world = in.world2 /\ in.cwd = in.cwd2 => changes = {}

CheckedMeansSigned(in, out) ==
    out.check.exit = 0 /\ out.index = 0 =>
        OnlyTheKeyWrites(in) /\ ReadsEverything(in) /\ ChangesAreDifferences(in, out.check.changes)
=============================================================================
