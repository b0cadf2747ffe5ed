----------------------------- MODULE HomeState ------------------------------
(***************************************************************************)
(* homestate --fix-names, --restore-names and --index as processes over a  *)
(* directory tree that they and the user share, and over the state file    *)
(* that remembers the renames (internal/homestate).  A tree is the place   *)
(* of every object, its directory and its name; the tool holds paths, and  *)
(* looks each of them up again whenever it uses it.                        *)
(***************************************************************************)
EXTENDS Naturals, SequencesExt

CONSTANTS
    Objects,        \* files and directories that exist or may come to exist
    Dirs,           \* those that are directories, and Root
    Names,          \* every name, in the order ReadDir lists them
    Candidates,     \* for each invalid name, what availableTarget tries in turn
    Tree,           \* the places at the start; Nowhere for what does not exist
    Unsearchable,   \* directories that can be listed but not searched
    Procs,          \* runs of homestate
    Concurrent,     \* whether two of them may overlap
    Earlier,        \* the records of a state file that was there and is not usable
    Failing,        \* what may fail, of {"load", "readdir", "rename", "save", "kill"}
    UserOps,        \* what the user does meanwhile, of {"create", "remove"}
    MaxChanges      \* bound on what the user does

Root == "root"
Absent == "absent"          \* ErrNotExist
Failed == "failed"          \* any other error of a lookup
Nowhere == <<>>

Name == {Names[i] : i \in DOMAIN Names}
Invalid == DOMAIN Candidates
Path == Seq(Name)
Record == [from : Path, to : Path, restored : BOOLEAN]
Places == (Dirs \X Name) \union {Nowhere}

ASSUME ObjectsAssumption ==
    /\ Dirs \subseteq Objects \union {Root} /\ Root \in Dirs
    /\ {Root, Absent, Failed} \intersect Objects = {}
ASSUME NamesAssumption ==
    /\ Names \in Seq(Name)
    /\ Candidates \in [Invalid -> Seq(Name)] /\ Invalid \subseteq Name
    /\ \A n \in Invalid : Candidates[n] /= <<>> /\ Range(Candidates[n]) \intersect Invalid = {}
ASSUME TreeAssumption ==
    /\ Tree \in [Objects -> Places]
    /\ \A o1, o2 \in Objects : Tree[o1] = Tree[o2] /\ Tree[o1] /= Nowhere => o1 = o2
    \* It hangs together, and no directory is below itself.
    /\ \A o \in Objects : Tree[o] /= Nowhere =>
         Tree[o][1] = Root \/ (Tree[o][1] \in Objects /\ Tree[Tree[o][1]] /= Nowhere)
    /\ \A S \in SUBSET Objects : S /= {} => \E o \in S : Tree[o] = Nowhere \/ Tree[o][1] \notin S
ASSUME EarlierAssumption ==
    /\ Earlier \in Seq(Record)
    /\ \A i \in DOMAIN Earlier : Earlier[i].from /= <<>> /\ Earlier[i].to /= <<>>
ASSUME RunsAssumption ==
    /\ Unsearchable \subseteq Dirs /\ Procs \subseteq Nat /\ Concurrent \in BOOLEAN
    /\ Failing \subseteq {"load", "readdir", "rename", "save", "kill"}
    /\ UserOps \subseteq {"create", "remove"} /\ MaxChanges \in Nat

VARIABLES
    place,          \* the tree
    found,          \* the state file: "absent", "malformed", "otherroot" or "usable"
    renames,        \* the rename records in it, whether the tool can read them or not
    op, pc,         \* what each run was asked to do and where it is
    loaded,         \* what it took the state file for: "unread" after any other error
    mem,            \* db.Renames in its memory
    stack,          \* the calls of visit in progress
    cur,            \* the path it is working on
    cand,           \* the candidate availableTarget looks at
    k,              \* the record the restore loop is at
    diags,          \* it has a diagnostic to report
    report,         \* the renames it has made or undone, for its output
    changes, made, gone \* what the user did: the objects created and removed

tool == <<op, pc, loaded, mem, stack, cur, cand, k, diags, report>>
file == <<found, renames>>
user == <<changes, made, gone>>
vars == <<place, file, tool, user>>

-----------------------------------------------------------------------------
(* The tree. *)

\* One component of a path lookup.
Enter(tree, d, n) ==
    IF d \in {Absent, Failed} THEN d
    ELSE IF d \notin Dirs \/ d \in Unsearchable THEN Failed
    ELSE IF \E o \in Objects : tree[o] = <<d, n>>
         THEN CHOOSE o \in Objects : tree[o] = <<d, n>>
         ELSE Absent

\* A lookup resolves the directory, and looks the name up in it.
Resolve(tree, dir) ==
    LET at[i \in 0..Len(dir)] == IF i = 0 THEN Root ELSE Enter(tree, at[i - 1], dir[i])
    IN  at[Len(dir)]
Lstat(path) ==
    IF path = <<>> THEN Root
    ELSE Enter(place, Resolve(place, Front(path)), Last(path))

\* ReadDir needs no search permission on the directory it lists.
Children(d) == {n \in Name : \E o \in Objects : place[o] = <<d, n>>}

\* rename(2): a file replaces a file, a directory an empty directory.
Replaceable(o, t) ==
    \/ t = Absent
    \/ t \in Objects \ Dirs /\ o \notin Dirs
    \/ t \in Dirs /\ o \in Dirs /\ Children(t) = {}

CanRename(from, to) ==
    /\ Lstat(from) \in Objects /\ Resolve(place, Front(to)) \in Dirs
    /\ Replaceable(Lstat(from), Lstat(to))

Moved(from, to) ==
    [o \in Objects |->
        IF o = Lstat(from) THEN <<Resolve(place, Front(to)), Last(to)>>
        ELSE IF o = Lstat(to) THEN Nowhere ELSE place[o]]

-----------------------------------------------------------------------------
Init ==
    /\ place = Tree
    /\ found \in {"absent", "malformed", "otherroot", "usable"}
    /\ renames = IF found \in {"malformed", "otherroot"} THEN Earlier ELSE <<>>
    /\ op \in [Procs -> {"fix", "restore", "index"}]
    /\ pc = [p \in Procs |-> "start"]
    /\ loaded = [p \in Procs |-> "nothing"]
    /\ mem = [p \in Procs |-> <<>>]
    /\ stack = [p \in Procs |-> <<>>]
    /\ cur = [p \in Procs |-> <<>>]
    /\ cand = [p \in Procs |-> 1]
    /\ k = [p \in Procs |-> 0]
    /\ diags = [p \in Procs |-> FALSE]
    /\ report = [p \in Procs |-> <<>>]
    /\ changes = 0 /\ made = {} /\ gone = {}

Goto(p, l) == pc' = [pc EXCEPT ![p] = l]
Report(p) == diags' = [diags EXCEPT ![p] = TRUE]
Ended(p) == pc[p] \in {"ok", "error", "killed"}

\* Runs start in order; one at a time, unless they may overlap.
Free(p) == \A q \in Procs : q < p => Ended(q) \/ (Concurrent /\ pc[q] /= "start")

\* What Load finds the state file to be, or an error of reading it.
Loads == {found} \union (IF "load" \in Failing THEN {"unread"} ELSE {})
Read(l) == IF l = "usable" THEN renames ELSE <<>>

\* FixNames loads the state file, or starts an empty one.
LoadForFix(p) ==
    /\ pc[p] = "start" /\ Free(p) /\ op[p] = "fix"
    /\ \E l \in Loads :
         /\ loaded' = [loaded EXCEPT ![p] = l] /\ mem' = [mem EXCEPT ![p] = Read(l)]
         /\ Goto(p, IF l \in {"usable", "absent"} THEN "readdir" ELSE "error")
    /\ UNCHANGED <<place, file, op, stack, cur, cand, k, diags, report, user>>

\* Mutant: the loop starts at len(db.Renames).
LoadForRestore_OnePast(p) ==
    /\ pc[p] = "start" /\ Free(p) /\ op[p] = "restore"
    /\ \E l \in Loads :
         /\ loaded' = [loaded EXCEPT ![p] = l] /\ mem' = [mem EXCEPT ![p] = Read(l)]
         /\ k' = [k EXCEPT ![p] = Len(Read(l)) + 1]
         /\ Goto(p, IF l = "usable" THEN "pick" ELSE "error")
    /\ UNCHANGED <<place, file, op, stack, cur, cand, diags, report, user>>

LoadForRestore(p) ==
    /\ pc[p] = "start" /\ Free(p) /\ op[p] = "restore"
    /\ \E l \in Loads :
         /\ loaded' = [loaded EXCEPT ![p] = l] /\ mem' = [mem EXCEPT ![p] = Read(l)]
         /\ k' = [k EXCEPT ![p] = Len(Read(l))]
         /\ Goto(p, IF l = "usable" THEN "pick" ELSE "error")
    /\ UNCHANGED <<place, file, op, stack, cur, cand, diags, report, user>>

\* Mutant: a new index starts without the renames.
LoadForIndex_Fresh(p) ==
    /\ pc[p] = "start" /\ Free(p) /\ op[p] = "index"
    /\ \E l \in Loads : loaded' = [loaded EXCEPT ![p] = l]
    /\ Goto(p, "save")
    /\ UNCHANGED <<place, file, op, mem, stack, cur, cand, k, diags, report, user>>

\* Index scans the root, and then keeps the renames of the file it replaces, if
\* it can: every error of Load, and another root, are passed over in silence.
LoadForIndex(p) ==
    /\ pc[p] = "start" /\ Free(p) /\ op[p] = "index"
    /\ \E l \in Loads :
         loaded' = [loaded EXCEPT ![p] = l] /\ mem' = [mem EXCEPT ![p] = Read(l)]
    /\ Goto(p, "save")
    /\ UNCHANGED <<place, file, op, stack, cur, cand, k, diags, report, user>>

-----------------------------------------------------------------------------
(* visit: rename the children of a directory, then descend. *)

ReadDir(p) ==
    /\ pc[p] = "readdir" /\ Lstat(cur[p]) \in Dirs
    /\ stack' = [stack EXCEPT ![p] = Append(@, [dir |-> cur[p], left |-> Children(Lstat(cur[p]))])]
    /\ Goto(p, "next")
    /\ UNCHANGED <<place, file, op, loaded, mem, cur, cand, k, diags, report, user>>

ReadDirFails(p) ==
    /\ pc[p] = "readdir" /\ (Lstat(cur[p]) \notin Dirs \/ "readdir" \in Failing)
    /\ Goto(p, "next") /\ Report(p)
    /\ UNCHANGED <<place, file, op, loaded, mem, stack, cur, cand, k, report, user>>

First(names) == Names[CHOOSE i \in DOMAIN Names :
                        Names[i] \in names /\ \A j \in 1..(i - 1) : Names[j] \notin names]

NextChild(p) ==
    /\ pc[p] = "next" /\ stack[p] /= <<>> /\ Last(stack[p]).left /= {}
    /\ LET frame == Last(stack[p])
           n == First(frame.left)
       IN  /\ cur' = [cur EXCEPT ![p] = Append(frame.dir, n)]
           /\ stack' = [stack EXCEPT ![p] =
                          Append(Front(@), [frame EXCEPT !.left = @ \ {n}])]
           /\ Goto(p, IF n \in Invalid THEN "probe" ELSE "stat")
    /\ cand' = [cand EXCEPT ![p] = 1]
    /\ UNCHANGED <<place, file, op, loaded, mem, k, diags, report, user>>

LeaveDir(p) ==
    /\ pc[p] = "next" /\ stack[p] /= <<>> /\ Last(stack[p]).left = {}
    /\ stack' = [stack EXCEPT ![p] = Front(@)]
    /\ UNCHANGED <<place, file, op, pc, loaded, mem, cur, cand, k, diags, report, user>>

VisitEnds(p) ==
    /\ pc[p] = "next" /\ stack[p] = <<>>
    /\ Goto(p, "save")
    /\ UNCHANGED <<place, file, op, loaded, mem, stack, cur, cand, k, diags, report, user>>

target(p) == Append(Front(cur[p]), Candidates[Last(cur[p])][cand[p]])

\* Mutant: any error of Lstat passes for a free name, and the first is taken.
ProbeTarget_Blind(p) ==
    /\ pc[p] = "probe"
    /\ Goto(p, "rename")
    /\ UNCHANGED <<place, file, op, loaded, mem, stack, cur, cand, k, diags, report, user>>

\* availableTarget returns a name that does not exist, on no other answer of
\* Lstat.  Its counter has no bound; the model's stays at the last candidate.
ProbeTarget(p) ==
    /\ pc[p] = "probe"
    /\ IF Lstat(target(p)) = Absent
       THEN Goto(p, "rename") /\ UNCHANGED cand
       ELSE /\ cand' = [cand EXCEPT ![p] =
                          IF @ < Len(Candidates[Last(cur[p])]) THEN @ + 1 ELSE @]
            /\ UNCHANGED pc
    /\ UNCHANGED <<place, file, op, loaded, mem, stack, cur, k, diags, report, user>>

\* Mutant: a rename is reported, and not added to the database.
RenameChild_Unrecorded(p) ==
    /\ pc[p] = "rename" /\ CanRename(cur[p], target(p))
    /\ report' = [report EXCEPT ![p] =
                     Append(@, [from |-> cur[p], to |-> target(p), restored |-> FALSE])]
    /\ place' = Moved(cur[p], target(p))
    /\ cur' = [cur EXCEPT ![p] = target(p)]
    /\ Goto(p, "stat")
    /\ UNCHANGED <<file, op, loaded, mem, stack, cand, k, diags, user>>

\* Mutant: visit goes on with the name the directory had.
RenameChild_OldName(p) ==
    /\ pc[p] = "rename" /\ CanRename(cur[p], target(p))
    /\ LET r == [from |-> cur[p], to |-> target(p), restored |-> FALSE]
       IN  /\ mem' = [mem EXCEPT ![p] = Append(@, r)]
           /\ report' = [report EXCEPT ![p] = Append(@, r)]
    /\ place' = Moved(cur[p], target(p))
    /\ Goto(p, "stat")
    /\ UNCHANGED <<file, op, loaded, stack, cur, cand, k, diags, user>>

RenameChild(p) ==
    /\ pc[p] = "rename" /\ CanRename(cur[p], target(p))
    /\ LET r == [from |-> cur[p], to |-> target(p), restored |-> FALSE]
       IN  /\ mem' = [mem EXCEPT ![p] = Append(@, r)]
           /\ report' = [report EXCEPT ![p] = Append(@, r)]
    /\ place' = Moved(cur[p], target(p))
    /\ cur' = [cur EXCEPT ![p] = target(p)]
    /\ Goto(p, "stat")
    /\ UNCHANGED <<file, op, loaded, stack, cand, k, diags, user>>

\* Mutant: a rename that failed is tried again.
RenameChildFails_Retries(p) ==
    /\ pc[p] = "rename" /\ (~CanRename(cur[p], target(p)) \/ "rename" \in Failing)
    /\ Goto(p, "probe") /\ Report(p)
    /\ UNCHANGED <<place, file, op, loaded, mem, stack, cur, cand, k, report, user>>

RenameChildFails(p) ==
    /\ pc[p] = "rename" /\ (~CanRename(cur[p], target(p)) \/ "rename" \in Failing)
    /\ Goto(p, "next") /\ Report(p)
    /\ UNCHANGED <<place, file, op, loaded, mem, stack, cur, cand, k, report, user>>

StatChild(p) ==
    /\ pc[p] = "stat"
    /\ Goto(p, IF Lstat(cur[p]) \in Dirs THEN "readdir" ELSE "next")
    /\ UNCHANGED <<place, file, op, loaded, mem, stack, cur, cand, k, diags, report, user>>

-----------------------------------------------------------------------------
(* RestoreNames: the records from the last to the first. *)

Skip(p) == k' = [k EXCEPT ![p] = @ - 1] /\ Goto(p, "pick")

SkipRestored(p) ==
    /\ pc[p] = "pick" /\ k[p] > 0 /\ mem[p][k[p]].restored
    /\ Skip(p)
    /\ UNCHANGED <<place, file, op, loaded, mem, stack, cur, cand, diags, report, user>>

\* The renamed file is still there.
StatTo(p) ==
    /\ pc[p] = "pick" /\ k[p] > 0 /\ ~mem[p][k[p]].restored
    /\ Lstat(mem[p][k[p]].to) \in Objects
    /\ Goto(p, "statfrom")
    /\ UNCHANGED <<place, file, op, loaded, mem, stack, cur, cand, k, diags, report, user>>

\* Mutant: the record is not left behind.
SourceMissing_Retries(p) ==
    /\ pc[p] = "pick" /\ k[p] > 0 /\ ~mem[p][k[p]].restored
    /\ Lstat(mem[p][k[p]].to) \notin Objects
    /\ Report(p)
    /\ UNCHANGED <<place, file, op, pc, loaded, mem, stack, cur, cand, k, report, user>>

SourceMissing(p) ==
    /\ pc[p] = "pick" /\ k[p] > 0 /\ ~mem[p][k[p]].restored
    /\ Lstat(mem[p][k[p]].to) \notin Objects
    /\ Skip(p) /\ Report(p)
    /\ UNCHANGED <<place, file, op, loaded, mem, stack, cur, cand, report, user>>

\* The original name is free.
StatFrom(p) ==
    /\ pc[p] = "statfrom" /\ Lstat(mem[p][k[p]].from) = Absent
    /\ Goto(p, "restore")
    /\ UNCHANGED <<place, file, op, loaded, mem, stack, cur, cand, k, diags, report, user>>

\* It is taken; an error other than ErrNotExist is passed over in silence.
Collision(p) ==
    /\ pc[p] = "statfrom" /\ Lstat(mem[p][k[p]].from) /= Absent
    /\ Skip(p)
    /\ diags' = [diags EXCEPT ![p] = @ \/ Lstat(mem[p][k[p]].from) \in Objects]
    /\ UNCHANGED <<place, file, op, loaded, mem, stack, cur, cand, report, user>>

\* Mutant: the restore is reported and not marked in the database.
RestoreName_Unmarked(p) ==
    /\ pc[p] = "restore" /\ CanRename(mem[p][k[p]].to, mem[p][k[p]].from)
    /\ place' = Moved(mem[p][k[p]].to, mem[p][k[p]].from)
    /\ report' = [report EXCEPT ![p] = Append(@, [mem[p][k[p]] EXCEPT !.restored = TRUE])]
    /\ Skip(p)
    /\ UNCHANGED <<file, op, loaded, mem, stack, cur, cand, diags, user>>

RestoreName(p) ==
    /\ pc[p] = "restore" /\ CanRename(mem[p][k[p]].to, mem[p][k[p]].from)
    /\ place' = Moved(mem[p][k[p]].to, mem[p][k[p]].from)
    /\ mem' = [mem EXCEPT ![p][k[p]].restored = TRUE]
    /\ report' = [report EXCEPT ![p] = Append(@, mem'[p][k[p]])]
    /\ Skip(p)
    /\ UNCHANGED <<file, op, loaded, stack, cur, cand, diags, user>>

RestoreNameFails(p) ==
    /\ pc[p] = "restore"
    /\ ~CanRename(mem[p][k[p]].to, mem[p][k[p]].from) \/ "rename" \in Failing
    /\ Skip(p) /\ Report(p)
    /\ UNCHANGED <<place, file, op, loaded, mem, stack, cur, cand, report, user>>

RestoreEnds(p) ==
    /\ pc[p] = "pick" /\ k[p] = 0
    /\ Goto(p, "save")
    /\ UNCHANGED <<place, file, op, loaded, mem, stack, cur, cand, k, diags, report, user>>

-----------------------------------------------------------------------------
\* save replaces the file as a whole or not at all (AtomicFile).
Save(p) ==
    /\ pc[p] = "save"
    /\ found' = "usable" /\ renames' = mem[p]
    /\ Goto(p, "ok")
    /\ UNCHANGED <<place, op, loaded, mem, stack, cur, cand, k, diags, report, user>>

\* The command then prints the error alone, without the renames it made.
SaveFails(p) ==
    /\ pc[p] = "save" /\ "save" \in Failing
    /\ Goto(p, "error")
    /\ UNCHANGED <<place, file, op, loaded, mem, stack, cur, cand, k, diags, report, user>>

Kill(p) ==
    /\ "kill" \in Failing /\ pc[p] /= "start" /\ ~Ended(p)
    /\ Goto(p, "killed")
    /\ UNCHANGED <<place, file, op, loaded, mem, stack, cur, cand, k, diags, report, user>>

-----------------------------------------------------------------------------
(* The user, at any moment. *)

Create(o, d, n) ==
    /\ "create" \in UserOps /\ changes < MaxChanges
    /\ place[o] = Nowhere /\ o \notin gone \union made \union Dirs
    /\ d \in {Root} \union {e \in Objects : place[e] /= Nowhere}
    /\ n \notin Children(d)
    /\ place' = [place EXCEPT ![o] = <<d, n>>]
    /\ changes' = changes + 1 /\ made' = made \union {o}
    /\ UNCHANGED <<file, tool, gone>>

Delete(o) ==
    /\ "remove" \in UserOps /\ changes < MaxChanges
    /\ place[o] /= Nowhere /\ (o \in Dirs => Children(o) = {})
    /\ place' = [place EXCEPT ![o] = Nowhere]
    /\ changes' = changes + 1 /\ gone' = gone \union {o}
    /\ UNCHANGED <<file, tool, made>>

User ==
    \/ \E o \in Objects, d \in Dirs, n \in Name : Create(o, d, n)
    \/ \E o \in Objects : Delete(o)

Run(p) ==
    \/ LoadForFix(p) \/ LoadForRestore(p) \/ LoadForIndex(p)
    \/ ReadDir(p) \/ ReadDirFails(p) \/ NextChild(p) \/ LeaveDir(p) \/ VisitEnds(p)
    \/ ProbeTarget(p) \/ RenameChild(p) \/ RenameChildFails(p) \/ StatChild(p)
    \/ SkipRestored(p) \/ StatTo(p) \/ SourceMissing(p) \/ StatFrom(p) \/ Collision(p)
    \/ RestoreName(p) \/ RestoreNameFails(p) \/ RestoreEnds(p)
    \/ Save(p) \/ SaveFails(p)

Finished == (\A p \in Procs : Ended(p)) /\ UNCHANGED vars

Next ==
    \/ \E p \in Procs : Run(p) \/ Kill(p)
    \/ User \/ Finished

Spec == Init /\ [][Next]_vars

\* A run of the tool goes on until it ends.
FairSpec == Spec /\ \A p \in Procs : WF_vars(Run(p))

-----------------------------------------------------------------------------
\* Every variable keeps its type, and no two objects share a place.
TypeOK ==
    /\ place \in [Objects -> Places]
    /\ \A o1, o2 \in Objects : place[o1] = place[o2] /\ place[o1] /= Nowhere => o1 = o2
    /\ found \in {"absent", "malformed", "otherroot", "usable"}
    /\ Range(renames) \subseteq Record
    /\ op \in [Procs -> {"fix", "restore", "index"}]
    /\ loaded \in [Procs -> {"nothing", "unread", "absent", "malformed", "otherroot", "usable"}]
    /\ \A p \in Procs :
        /\ pc[p] \in {"start", "readdir", "next", "probe", "rename", "stat", "pick",
                      "statfrom", "restore", "save", "ok", "error", "killed"}
        /\ Range(mem[p]) \union Range(report[p]) \subseteq Record
        /\ cur[p] \in Path /\ diags[p] \in BOOLEAN
        /\ \A f \in Range(stack[p]) : f.dir \in Path /\ f.left \subseteq Name
        /\ pc[p] \in {"probe", "rename"} => cand[p] \in DOMAIN Candidates[Last(cur[p])]
        /\ k[p] \in 0..Len(mem[p])
    /\ changes \in 0..MaxChanges /\ made \union gone \subseteq Objects

\* AC-5 (specs/HOMESTATE_AND_MACOS_TOOLS.md) "without overwriting another
\* file": an object of the tree disappears only when the user removes it.
NothingOverwritten ==
    \A o \in Objects : place[o] = Nowhere => (Tree[o] = Nowhere /\ o \notin made) \/ o \in gone

Same(r, s) == r.from = s.from /\ r.to = s.to

RecordedIn(r, records) ==
    \E s \in Range(records) : Same(r, s) /\ (r.restored => s.restored)

\* FR-6 "record every successful rename in the state file", for a run that has
\* ended, however it ended.
RenamesAreRecorded ==
    \A p \in Procs : Ended(p) =>
        \A r \in Range(report[p]) : RecordedIn(r, renames)

\* AC-5 "both operations are recorded": so is what a run that succeeded tells
\* the user it renamed or restored, whatever other runs follow.
OperationsAreRecorded ==
    \A p \in Procs : pc[p] = "ok" => \A r \in Range(report[p]) : RecordedIn(r, renames)

\* A new index replaces a file that it could not use, with all its records.
Forgets(p) == op[p] = "index" /\ loaded[p] \in {"unread", "malformed", "otherroot"}

\* What the code keeps of AC-5: the records of a successful run stay in the
\* state file until an index that could not read them replaces it.
SuccessIsRecorded ==
    \A p \in Procs :
        pc[p] = "ok" /\ ~(\E q \in Procs : q > p /\ Forgets(q) /\ pc[q] = "ok")
        => \A r \in Range(report[p]) : RecordedIn(r, renames)

Quiet(p) == pc[p] = "ok" /\ ~diags[p]
Idle == \A p \in Procs : pc[p] = "start" \/ Ended(p)

\* AC-5 "when fixed and then restored, then the original path returns": when
\* no run failed or had a diagnostic, no index failed to read the state file,
\* which nobody is told of, and the user changed nothing, the last restore
\* leaves the tree as it was.
RestoreUndoesFix ==
    Idle /\ changes = 0
    /\ (\E p \in Procs : op[p] = "restore" /\ Quiet(p) /\ \A q \in Procs : q > p => pc[q] = "start")
    /\ (\A p \in Procs : Quiet(p) \/ pc[p] = "start" \/ report[p] = <<>>)
    /\ (\A p \in Procs : op[p] = "index" => loaded[p] /= "unread")
    => place = Tree

\* A --fix-names that reports no diagnostic leaves no invalid name in the tree,
\* below directories it renamed itself as well.
FixLeavesNoInvalidName ==
    \A p \in Procs :
        op[p] = "fix" /\ Quiet(p) /\ changes = 0 /\ (\A q \in Procs : q > p => pc[q] = "start")
        => \A o \in Objects : place[o] /= Nowhere => place[o][2] \notin Invalid

\* Only the save of an index that could not use the state file drops the record
\* of a rename, rewrites it or forgets a restore: every other save appends
\* records and marks some restored.
RecordsOnlyGrow ==
    [][\/ \E p \in Procs : Forgets(p) /\ pc[p] = "save" /\ pc'[p] = "ok"
       \/ /\ Len(renames) <= Len(renames')
          /\ \A i \in DOMAIN renames :
               Same(renames[i], renames'[i]) /\ (renames[i].restored => renames'[i].restored)]_vars

\* Every run ends.
Terminates == \A p \in Procs : <>Ended(p)
=============================================================================
