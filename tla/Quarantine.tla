----------------------------- MODULE Quarantine ------------------------------
(***************************************************************************)
(* clt --apply moves hidden executables that have an identical copy into a *)
(* quarantine directory outside the scanned one (internal/macossec,        *)
(* ScanCloneExecutables and QuarantineCandidates; cmd/clt).  Several runs  *)
(* may share the tree.  Files are numbered in the order of their paths, in *)
(* which they are moved; WalkDir comes to them in an order of its own ("a" *)
(* before "a.b", though "a.b/x" sorts before "a/x").  The eight digits of  *)
(* the digest that end a quarantined name are taken to tell contents apart.*)
(***************************************************************************)
EXTENDS Integers, SequencesExt

CONSTANTS
    Where,      \* [dir, name, hidden] of every file, in the order of the paths
    WalkOrder,  \* the files in the order of the walk
    Content,    \* what each file holds
    Executable, \* those with an execute bit
    Runs        \* runs of clt --apply

File == DOMAIN Where

ASSUME FilesAssumption ==
    /\ File \subseteq Nat /\ WalkOrder \in Seq(File) /\ Range(WalkOrder) = File
    /\ Content \in [File -> Nat] /\ Executable \subseteq File
    /\ \A f, g \in File : f /= g => Where[f].dir /= Where[g].dir \/ Where[f].name /= Where[g].name
    /\ \A f \in File : Where[f].dir \notin {"quarantine", "nowhere"}

VARIABLES
    place,      \* where every file is: its place in the tree, a name in the
                \* quarantine, or nowhere once it was overwritten
    at,         \* what each run is about to do
    looked,     \* the files each run has come to in its scan
    items,      \* those of them it found
    left,       \* candidates that it has still to move
    moved       \* names it has moved files to

quarantineVars == <<place, at, looked, items, left, moved>>

Lost == [dir |-> "nowhere"]

QuarantineInit ==
    /\ place = Where
    /\ at = [r \in Runs |-> "scan"]
    /\ looked = [r \in Runs |-> 0] /\ items = [r \in Runs |-> {}]
    /\ left = [r \in Runs |-> {}] /\ moved = [r \in Runs |-> {}]

InRoot(f) == place[f] = Where[f]

target(f) == [dir |-> "quarantine", name |-> Where[f].name, content |-> Content[f]]

Taken(p) == \E f \in File : place[f] = p

\* Hidden executables that have a copy among the files S.
Candidates(S) == {f \in S : f \in Executable /\ Where[f].hidden
    /\ \E g \in S \ {f} : Content[g] = Content[f]}

Goto(r, s) == at' = [at EXCEPT ![r] = s]

\* The walk comes to the next file and hashes it; one that was moved away is not
\* found, or was still listed and ends the scan, like any file that cannot be read.
Look(r) ==
    /\ at[r] = "scan" /\ looked[r] < Len(WalkOrder)
    /\ looked' = [looked EXCEPT ![r] = @ + 1]
    /\ items' = [items EXCEPT ![r] = @ \union {f \in {WalkOrder[looked[r] + 1]} : InRoot(f)}]
    /\ UNCHANGED <<place, at, left, moved>>

ScanFails(r) ==
    /\ at[r] = "scan" /\ looked[r] < Len(WalkOrder)
    /\ Goto(r, "failed")
    /\ UNCHANGED <<place, looked, items, left, moved>>

Report(r) ==
    /\ at[r] = "scan" /\ looked[r] = Len(WalkOrder)
    /\ left' = [left EXCEPT ![r] = Candidates(items[r])]
    /\ Goto(r, "move")
    /\ UNCHANGED <<place, looked, items, moved>>

\* The candidates are moved in the order of their paths.
First(r, f) == f \in left[r] /\ \A g \in left[r] : f <= g

\* Mutant: whatever has the name already is not looked for.
Probe_Skipped(r) ==
    /\ at[r] = "move" /\ left[r] /= {}
    /\ Goto(r, "rename")
    /\ UNCHANGED <<place, looked, items, left, moved>>

\* The name is looked up before the rename; a name that is taken, like a rename
\* that fails, ends the run without a word on what it has moved so far.
Probe(r) ==
    /\ at[r] = "move"
    /\ \E f \in left[r] : First(r, f) /\ Goto(r, IF Taken(target(f)) THEN "failed" ELSE "rename")
    /\ UNCHANGED <<place, looked, items, left, moved>>

Rename(r) ==
    /\ at[r] = "rename"
    /\ \E f \in left[r] :
        /\ First(r, f) /\ InRoot(f)
        /\ place' = [g \in File |-> IF g = f THEN target(f)
                                    ELSE IF place[g] = target(f) THEN Lost ELSE place[g]]
        /\ moved' = [moved EXCEPT ![r] = @ \union {target(f)}]
        /\ left' = [left EXCEPT ![r] = @ \ {f}]
    /\ Goto(r, "move")
    /\ UNCHANGED <<looked, items>>

RenameFails(r) ==
    /\ at[r] = "rename"
    /\ Goto(r, "failed")
    /\ UNCHANGED <<place, looked, items, left, moved>>

Finish(r) ==
    /\ at[r] = "move" /\ left[r] = {}
    /\ Goto(r, "ok")
    /\ UNCHANGED <<place, looked, items, left, moved>>

QuarantineNext == \E r \in Runs :
    Look(r) \/ ScanFails(r) \/ Report(r) \/ Probe(r) \/ Rename(r) \/ RenameFails(r) \/ Finish(r)

QuarantineSpec == QuarantineInit /\ [][QuarantineNext]_quarantineVars

QuarantineEnded == \A r \in Runs : at[r] \in {"ok", "failed"}

-----------------------------------------------------------------------------
QuarantineTypeOK ==
    /\ DOMAIN place = File /\ \A f \in File : place[f] \in {Where[f], target(f), Lost}
    /\ at \in [Runs -> {"scan", "move", "rename", "ok", "failed"}]
    /\ looked \in [Runs -> 0..Len(WalkOrder)]
    /\ items \in [Runs -> SUBSET File] /\ left \in [Runs -> SUBSET File]
    /\ DOMAIN moved = Runs
    /\ \A r \in Runs : left[r] \subseteq items[r] /\ moved[r] \subseteq {target(f) : f \in items[r]}

\* The name is free when it is looked up, and nobody holds it until the rename;
\* still no file is overwritten, whatever runs overlap: a run that has the right to
\* a name has passed every earlier file of that name and content.
NothingOverwritten == \A f \in File : place[f] /= Lost

\* A run that ends well has left no hidden executable beside a copy in the tree,
\* and every name it reports holds a file, moved there from its scan, and no run
\* has moved a file that had no copy when the tree was still whole.
OkMeansQuarantined ==
    /\ \A r \in Runs : at[r] = "ok" =>
        /\ \A f, g \in File : InRoot(f) /\ InRoot(g) /\ f /= g /\ Content[f] = Content[g]
                => f \notin Executable \/ ~Where[f].hidden
        /\ \A p \in moved[r] : \E f \in items[r] : place[f] = p
    /\ \A f \in File : ~InRoot(f) =>
        /\ f \in Executable /\ Where[f].hidden
        /\ \E g \in File \ {f} : Content[g] = Content[f]

\* What overlapping runs of clt promise together.
QuarantineKeepsAll == QuarantineTypeOK /\ NothingOverwritten /\ OkMeansQuarantined
=============================================================================
