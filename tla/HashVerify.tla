------------------------------ MODULE HashVerify -----------------------------
(***************************************************************************)
(* hashsum create over a list of paths, and a later hashsum verify of the  *)
(* manifest (internal/hashsum, Verify and what Create does for one path;   *)
(* the workers of Create are in HashCreate).  A tree is a function from    *)
(* the paths below the root to what is there; a written path is its        *)
(* normalized form and the form it is written in.                          *)
(***************************************************************************)
EXTENDS Integers, SequencesExt, FiniteSets

\* What a path can lead to: [kind, content]; only a stable file has one digest.
Kinds == {"file", "changing", "unreadable", "link", "link out", "special", "absent", "below a file"}
Regular == {"file", "changing", "unreadable"}

\* The forms of a written path: as it is, with "./" before it, absolute below the
\* root, leading out of it, or empty.
Forms == {"plain", "dotted", "absolute", "outside", "empty"}

normalizes(w) == w.form \in {"plain", "dotted"}

\* Create also takes absolute paths; both follow the path to see that what it
\* resolves to is below the root.
withinRoot(tree, w) == w.form \in {"plain", "dotted", "absolute"} /\ tree[w.path].kind /= "link out"

\* Anything but a regular file is not opened.
hashFile(tree, path) == [path |-> path, form |-> "plain", digests |-> {tree[path].content},
    status |-> IF tree[path].kind = "changing" THEN "unstable" ELSE "stable"]
Hashable(tree, w) == withinRoot(tree, w) /\ tree[w.path].kind \in {"file", "changing"}

Refused == [exit |-> 2, records |-> {}]

\* What cannot be hashed is an error beside the files; a path that was asked for
\* twice is in the manifest twice.
Files(tree, paths) ==
    LET hashed[n \in 0..Len(paths)] ==
            IF n = 0 THEN <<>>
            ELSE IF Hashable(tree, paths[n])
            THEN Append(hashed[n - 1], hashFile(tree, paths[n].path)) ELSE hashed[n - 1]
    IN  hashed[Len(paths)]

Create(tree, paths) ==
    [exit |-> IF \A w \in Range(paths) : Hashable(tree, w) THEN 0 ELSE 1,
     files |-> Files(tree, paths)]

\* Mutant: a file without digests has nothing that differs.
sameDigests_Vacuous(expected, actual) == expected \subseteq actual

sameDigests(expected, actual) == expected /= {} /\ expected \subseteq actual

StatusOf(tree, file) ==
    LET kind == tree[file.path].kind IN
    CASE kind = "absent" -> "missing"
      [] kind \in {"unreadable", "link", "special", "below a file"} -> "unreadable"
      [] kind = "changing" -> "unstable"
      [] kind = "file" ->
         IF sameDigests(file.digests, hashFile(tree, file.path).digests) THEN "ok" ELSE "changed"

\* One path that is no path below the root, or that was there already, refuses
\* the whole manifest.
Refuses(tree, manifest) ==
    \/ manifest.schema /= "v1" \/ ~(manifest.algorithms \subseteq {"sha256", "blake3"})
    \/ \E i \in DOMAIN manifest.files :
        LET f == manifest.files[i] IN
        \/ ~normalizes(f) \/ ~withinRoot(tree, f)
        \/ \E j \in 1..(i - 1) : manifest.files[j].path = f.path

\* The walk for files beside the manifest passes over every error: of a root that can
\* be searched and not listed it sees nothing.
Unexpected(tree, listed, in) ==
    {p \in DOMAIN tree : in.unexpected /\ in.listable /\ tree[p].kind \in Regular /\ p \notin listed}

Verify(tree, manifest, in) ==
    IF Refuses(tree, manifest) THEN Refused ELSE
    LET listed == {f.path : f \in Range(manifest.files)}
        records == {[path |-> f.path, status |-> StatusOf(tree, f)] : f \in Range(manifest.files)}
            \union {[path |-> p, status |-> "unexpected"] : p \in Unexpected(tree, listed, in)}
    IN  [exit |-> IF \A r \in records : r.status = "ok" THEN 0 ELSE 1, records |-> records]

-----------------------------------------------------------------------------
\* A manifest by another hand: without digests, with written paths as they are,
\* or of another schema or algorithm.
Edit(files, edit) == [
    schema |-> IF edit = "schema" THEN "v2" ELSE "v1",
    algorithms |-> IF edit = "algorithm" THEN {"sha256", "md5"} ELSE {"sha256", "blake3"},
    files |-> CASE edit = "digests" -> [i \in DOMAIN files |-> [files[i] EXCEPT !.digests = {}]]
                [] edit \in Forms -> [i \in DOMAIN files |-> [files[i] EXCEPT !.form = edit]]
                [] OTHER -> files]

RoundTrip(in) ==
    LET create == Create(in.before, in.paths) IN
    [create |-> create,
     verify |-> Verify(in.after, Edit(create.files, in.edit), in)]

\* Two trees over the same names, what create is asked for, what another hand makes of
\* its manifest, and whether verify looks for other files and can list them.
Edits == {"none", "digests", "schema", "algorithm"} \union Forms
Inputs(names, contents) ==
    LET Trees == [names -> [kind : Kinds, content : contents]]
    IN  [before : Trees, after : Trees, paths : Seq([path : names, form : Forms]),
         edit : Edits, unexpected : BOOLEAN, listable : BOOLEAN]

\* verify exits with 0 only when every file of the manifest is a regular file with
\* the content that was hashed, and none is beside them when that is asked and the
\* root can be listed; a file that is not as it was has a record that is not ok; a
\* manifest as create wrote it is never refused but for a path that was asked for
\* twice or now leads out of the root; and where nothing changed a good manifest
\* verifies.
VerifyTellsChanges(in, out) ==
    LET files == Range(out.create.files)
        Kept(f) == in.after[f.path].kind = "file" /\ f.digests = {in.after[f.path].content}
        twice == Cardinality(files) < Len(out.create.files)
    IN  /\ out.verify.exit = 0 =>
            /\ \A f \in files : Kept(f)
            /\ in.unexpected /\ in.listable => \A p \in DOMAIN in.after :
                in.after[p].kind \in Regular => p \in {f.path : f \in files}
        /\ out.verify.exit = 1 => \A f \in files : \E r \in out.verify.records :
            r.path = f.path /\ (r.status = "ok" => Kept(f)) /\ (in.edit /= "digests" /\ Kept(f) => r.status = "ok")
        /\ out.verify.exit = 2 => in.edit \notin {"none", "digests", "dotted"} \/ twice
            \/ \E f \in files : in.after[f.path].kind = "link out"
        /\ in.after = in.before /\ in.edit \in {"none", "dotted"} /\ ~twice
           /\ (\A f \in files : f.status = "stable") =>
            out.verify.exit = IF in.unexpected /\ in.listable /\ \E p \in DOMAIN in.after \ {f.path : f \in files} :
                                    in.after[p].kind \in Regular
                              THEN 1 ELSE 0
=============================================================================
