-------------------------- MODULE HomeStateProofs ---------------------------
(***************************************************************************)
(* For any tree, any names, any number of runs of homestate and any of the *)
(* failures: the types; when runs do not overlap, that the state file      *)
(* keeps every record and holds what a successful run reports, whatever    *)
(* the user does to the tree, until an index that cannot use it replaces   *)
(* it; and, when the user leaves the tree alone meanwhile, that nothing is *)
(* overwritten, that a fix without a diagnostic leaves no invalid name,    *)
(* and that a restore takes every fix back.                                *)
(***************************************************************************)
EXTENDS HomeState, TLAPS, SequenceTheorems, WellFoundedInduction

Label == {"start", "readdir", "next", "probe", "rename", "stat", "pick", "statfrom",
          "restore", "save", "ok", "error", "killed"}
States == {"absent", "malformed", "otherroot", "usable"}
Answers == States \union {"nothing", "unread"}
Proper == Path \ {<<>>}
Entry == [from : Proper, to : Proper, restored : BOOLEAN]
Frame == [dir : Path, left : SUBSET Name]

\* The types, record paths being never empty.
TypeInv ==
    /\ place \in [Objects -> Places]
    /\ found \in States /\ renames \in Seq(Entry)
    /\ op \in [Procs -> {"fix", "restore", "index"}]
    /\ pc \in [Procs -> Label] /\ loaded \in [Procs -> Answers]
    /\ mem \in [Procs -> Seq(Entry)] /\ report \in [Procs -> Seq(Entry)]
    /\ stack \in [Procs -> Seq(Frame)]
    /\ cur \in [Procs -> Path] /\ cand \in [Procs -> Nat \ {0}]
    /\ k \in [Procs -> Nat] /\ diags \in [Procs -> BOOLEAN]
    /\ changes \in 0..MaxChanges /\ made \in SUBSET Objects /\ gone \in SUBSET Objects

\* A path being renamed has an invalid name, and the candidate is one of its own; the
\* record that a restore is at is one of those in memory.
CursorInv == \A p \in Procs :
    /\ pc[p] \in {"probe", "rename"} =>
         cur[p] /= <<>> /\ Last(cur[p]) \in Invalid /\ cand[p] <= Len(Candidates[Last(cur[p])])
    /\ k[p] <= Len(mem[p]) /\ (pc[p] = "start" => k[p] = 0)
    /\ pc[p] \in {"statfrom", "restore"} => k[p] > 0

\* The parts of a path that is not empty.
LEMMA FrontLast ==
    ASSUME NEW S, NEW s \in Seq(S), s /= <<>>
    PROVE  Front(s) \in Seq(S) /\ Last(s) \in S
  BY DEF Front, Last

\* The parts of a path made of a directory and a name.
LEMMA FrontLastAppend ==
    ASSUME NEW S, NEW s \in Seq(S), NEW e \in S
    PROVE  /\ Append(s, e) \in Seq(S) /\ Append(s, e) /= <<>>
           /\ Front(Append(s, e)) = s /\ Last(Append(s, e)) = e
  BY DEF Front, Last

\* A set of numbers that is not empty has a smallest one.
LEMMA Smallest ==
    ASSUME NEW T, T \subseteq Nat, T /= {}
    PROVE  \E x \in T : \A y \in T : x <= y
<1> DEFINE R == {ss \in Nat \X Nat : ss[1] < ss[2]}
<1>1. IsWellFoundedOn(R, Nat)
  BY NatLessThanWellFounded, Zenon DEF OpToRel
<1> HIDE DEF R
<1>2. PICK x \in T : \A y \in T : ~ (<<y, x>> \in R)
  BY <1>1, WFMin
<1>3. \A y \in T : ~(y < x)
  BY <1>2 DEF R
<1> QED BY <1>3

\* visit takes one of the names that are left.
LEMMA FirstIsOne ==
    ASSUME NEW names \in SUBSET Name, names /= {}
    PROVE  First(names) \in names
<1> DEFINE T == {i \in DOMAIN Names : Names[i] \in names}
<1>1. T /= {} /\ T \subseteq Nat
  BY NamesAssumption DEF Name
<1>2. PICK i \in T : \A j \in T : i <= j
  BY <1>1, Smallest
<1>3. i \in DOMAIN Names /\ Names[i] \in names /\ \A j \in 1..(i - 1) : Names[j] \notin names
  BY <1>2, NamesAssumption
<1> QED BY <1>3 DEF First

-----------------------------------------------------------------------------
(* Types. *)

\* The target of a rename is a path beside the one that is renamed.
LEMMA TargetType ==
    ASSUME TypeInv, CursorInv, NEW p \in Procs, pc[p] \in {"probe", "rename"}
    PROVE  /\ cur[p] \in Proper /\ target(p) \in Proper
           /\ Last(cur[p]) \in Invalid /\ cand[p] \in DOMAIN Candidates[Last(cur[p])]
<1>1. cur[p] \in Proper /\ Last(cur[p]) \in Invalid /\ cand[p] \in Nat \ {0}
      /\ cand[p] <= Len(Candidates[Last(cur[p])])
  BY DEF TypeInv, CursorInv, Proper
<1>2. Candidates[Last(cur[p])] \in Seq(Name)
  BY <1>1, NamesAssumption
<1>3. cand[p] \in DOMAIN Candidates[Last(cur[p])] /\ Candidates[Last(cur[p])][cand[p]] \in Name
  BY <1>1, <1>2
<1>4. Front(cur[p]) \in Seq(Name)
  BY <1>1, FrontLast DEF Proper, Path
<1>5. target(p) \in Proper
  BY <1>3, <1>4, FrontLastAppend DEF target, Proper, Path
<1> QED BY <1>1, <1>3, <1>5

\* A rename moves one object, and at most one other away.
LEMMA MovedType ==
    ASSUME TypeInv, NEW from \in Proper, NEW to \in Proper, CanRename(from, to)
    PROVE  Moved(from, to) \in [Objects -> Places]
<1>1. Resolve(place, Front(to)) \in Dirs
  BY DEF CanRename
<1>2. Last(to) \in Name
  BY FrontLast DEF Proper, Path
<1>3. ASSUME NEW o \in Objects
      PROVE  Moved(from, to)[o] \in Places
  <2>1. Moved(from, to)[o] \in {<<Resolve(place, Front(to)), Last(to)>>, Nowhere, place[o]}
    BY DEF Moved
  <2> QED BY <1>1, <1>2, <2>1 DEF Places, TypeInv
<1> QED BY <1>3 DEF Moved

\* What a run takes the state file for, and the records it then has of it.
LEMMA LoadTypes ==
    ASSUME TypeInv, NEW l \in Loads
    PROVE  l \in Answers /\ Read(l) \in Seq(Entry)
  BY DEF Loads, Read, Answers, States, TypeInv

\* Each step of FixNames keeps the types.
LEMMA FixTypes ==
    ASSUME TypeInv, CursorInv, NEW p \in Procs,
           LoadForFix(p) \/ ReadDir(p) \/ ReadDirFails(p) \/ NextChild(p) \/ LeaveDir(p)
           \/ VisitEnds(p) \/ ProbeTarget(p) \/ RenameChild(p) \/ RenameChildFails(p)
           \/ StatChild(p)
    PROVE  TypeInv' /\ CursorInv'
<1> USE DEF Goto, Report, file, user, Label
<1>1. CASE LoadForFix(p)
  <2>1. PICK l \in Loads : /\ loaded' = [loaded EXCEPT ![p] = l] /\ mem' = [mem EXCEPT ![p] = Read(l)]
                          /\ pc' = [pc EXCEPT ![p] = IF l \in {"usable", "absent"} THEN "readdir" ELSE "error"]
    BY <1>1 DEF LoadForFix
  <2>2. l \in Answers /\ Read(l) \in Seq(Entry) /\ k[p] = 0
    BY <1>1, LoadTypes DEF LoadForFix, CursorInv
  <2>3. UNCHANGED <<place, found, renames, op, stack, cur, cand, k, diags, report, changes, made, gone>>
    BY <1>1 DEF LoadForFix
  <2> QED BY <2>1, <2>2, <2>3 DEF TypeInv, CursorInv
<1>2. CASE ReadDir(p)
  <2>1. [dir |-> cur[p], left |-> Children(Lstat(cur[p]))] \in Frame
    BY DEF Frame, Children, TypeInv
  <2>2. stack' \in [Procs -> Seq(Frame)]
    BY <1>2, <2>1 DEF ReadDir, TypeInv
  <2> QED BY <1>2, <2>2 DEF ReadDir, TypeInv, CursorInv
<1>3. CASE ReadDirFails(p) \/ RenameChildFails(p)
  BY <1>3 DEF ReadDirFails, RenameChildFails, TypeInv, CursorInv
<1>4. CASE NextChild(p)
  <2> DEFINE frame == Last(stack[p])
             n == First(frame.left)
  <2>1. stack[p] \in Seq(Frame) /\ stack[p] /= <<>> /\ frame.left /= {}
    BY <1>4 DEF NextChild, TypeInv
  <2>2. Front(stack[p]) \in Seq(Frame) /\ frame \in Frame
    BY <2>1, FrontLast
  <2>3. frame.dir \in Seq(Name) /\ frame.left \in SUBSET Name /\ n \in Name
    BY <2>1, <2>2, FirstIsOne DEF Frame, Path
  <2>4. [frame EXCEPT !.left = frame.left \ {n}] \in Frame
    BY <2>2, <2>3 DEF Frame
  <2>5. stack' = [stack EXCEPT ![p] = Append(Front(stack[p]), [frame EXCEPT !.left = frame.left \ {n}])]
    BY <1>4 DEF NextChild
  <2>6. stack' \in [Procs -> Seq(Frame)]
    BY <2>2, <2>4, <2>5 DEF TypeInv
  <2>7. /\ Append(frame.dir, n) \in Path /\ Append(frame.dir, n) /= <<>>
        /\ Last(Append(frame.dir, n)) = n
    BY <2>3, FrontLastAppend DEF Path
  <2>8. /\ cur' = [cur EXCEPT ![p] = Append(frame.dir, n)]
        /\ pc' = [pc EXCEPT ![p] = IF n \in Invalid THEN "probe" ELSE "stat"]
        /\ cand' = [cand EXCEPT ![p] = 1]
        /\ UNCHANGED <<place, found, renames, op, loaded, mem, k, diags, report, changes, made, gone>>
    BY <1>4 DEF NextChild, user
  <2>9. n \in Invalid => 1 <= Len(Candidates[n])
    BY NamesAssumption
  <2> HIDE DEF frame, n
  <2>10. TypeInv'
    BY <2>6, <2>7, <2>8 DEF TypeInv
  <2>11. CursorInv'
    BY <2>7, <2>8, <2>9 DEF TypeInv, CursorInv
  <2> QED BY <2>10, <2>11
<1>5. CASE LeaveDir(p)
  <2>1. Front(stack[p]) \in Seq(Frame)
    BY <1>5, FrontLast DEF LeaveDir, TypeInv
  <2>2. stack' \in [Procs -> Seq(Frame)]
    BY <1>5, <2>1 DEF LeaveDir, TypeInv
  <2> QED BY <1>5, <2>2 DEF LeaveDir, TypeInv, CursorInv
<1>6. CASE VisitEnds(p) \/ StatChild(p)
  BY <1>6 DEF VisitEnds, StatChild, TypeInv, CursorInv
<1>7. CASE ProbeTarget(p)
  <2>1. cand[p] \in 1..Len(Candidates[Last(cur[p])]) /\ Len(Candidates[Last(cur[p])]) \in Nat
    BY <1>7, TargetType, NamesAssumption DEF ProbeTarget
  <2> DEFINE c == IF cand[p] < Len(Candidates[Last(cur[p])]) THEN cand[p] + 1 ELSE cand[p]
  <2>2. c \in 1..Len(Candidates[Last(cur[p])])
    BY <2>1
  <2>3. /\ pc[p] = "probe"
        /\ \/ cand' = cand /\ pc' = [pc EXCEPT ![p] = "rename"]
           \/ cand' = [cand EXCEPT ![p] = c] /\ pc' = pc
        /\ UNCHANGED <<place, found, renames, op, loaded, mem, stack, cur, k, diags, report, changes, made, gone>>
    BY <1>7 DEF ProbeTarget
  <2> HIDE DEF c
  <2>4. cand' \in [Procs -> Nat \ {0}]
    <3>1. c \in Nat \ {0}
      BY <2>1, <2>2
    <3> QED BY <2>3, <3>1 DEF TypeInv
  <2>8. pc' \in [Procs -> Label]
    BY <2>3 DEF TypeInv
  <2>5. TypeInv'
    BY <2>3, <2>4, <2>8 DEF TypeInv
  <2>6. CASE cand' = cand /\ pc' = [pc EXCEPT ![p] = "rename"]
    BY <2>3, <2>6 DEF TypeInv, CursorInv
  <2>7. CASE cand' = [cand EXCEPT ![p] = c] /\ pc' = pc
    BY <2>2, <2>3, <2>7 DEF TypeInv, CursorInv
  <2> QED BY <2>3, <2>5, <2>6, <2>7
<1>8. CASE RenameChild(p)
  <2> DEFINE r == [from |-> cur[p], to |-> target(p), restored |-> FALSE]
  <2>1. cur[p] \in Proper /\ target(p) \in Proper
    BY <1>8, TargetType DEF RenameChild
  <2>2. r \in Entry
    BY <2>1 DEF Entry
  <2>3. place' \in [Objects -> Places]
    BY <1>8, <2>1, MovedType DEF RenameChild
  <2>4. /\ mem' = [mem EXCEPT ![p] = Append(mem[p], r)]
        /\ report' = [report EXCEPT ![p] = Append(report[p], r)]
        /\ cur' = [cur EXCEPT ![p] = target(p)]
        /\ pc' = [pc EXCEPT ![p] = "stat"]
        /\ UNCHANGED <<found, renames, op, loaded, stack, cand, k, diags, changes, made, gone>>
    BY <1>8 DEF RenameChild
  <2> HIDE DEF r
  <2>5. mem[p] \in Seq(Entry) /\ Len(Append(mem[p], r)) = Len(mem[p]) + 1 /\ Append(mem[p], r) \in Seq(Entry)
    BY <2>2 DEF TypeInv
  <2>6. report' \in [Procs -> Seq(Entry)] /\ mem' \in [Procs -> Seq(Entry)]
    BY <2>2, <2>4 DEF TypeInv
  <2>7. TypeInv'
    BY <2>1, <2>3, <2>4, <2>6 DEF TypeInv, Proper
  <2>8. CursorInv'
    BY <2>4, <2>5 DEF TypeInv, CursorInv
  <2> QED BY <2>7, <2>8
<1> QED BY <1>1, <1>2, <1>3, <1>4, <1>5, <1>6, <1>7, <1>8

\* So does each step of RestoreNames, and what all operations share.
LEMMA RestoreTypes ==
    ASSUME TypeInv, CursorInv, NEW p \in Procs,
           LoadForRestore(p) \/ LoadForIndex(p) \/ SkipRestored(p) \/ StatTo(p)
           \/ SourceMissing(p) \/ StatFrom(p) \/ Collision(p) \/ RestoreName(p)
           \/ RestoreNameFails(p) \/ RestoreEnds(p) \/ Save(p) \/ SaveFails(p) \/ Kill(p)
    PROVE  TypeInv' /\ CursorInv'
<1> USE DEF Goto, Report, Skip, file, user, Label
<1>1. CASE LoadForRestore(p)
  <2>1. PICK l \in Loads : /\ loaded' = [loaded EXCEPT ![p] = l] /\ mem' = [mem EXCEPT ![p] = Read(l)]
                          /\ k' = [k EXCEPT ![p] = Len(Read(l))]
                          /\ pc' = [pc EXCEPT ![p] = IF l = "usable" THEN "pick" ELSE "error"]
    BY <1>1 DEF LoadForRestore
  <2>2. l \in Answers /\ Read(l) \in Seq(Entry) /\ Len(Read(l)) \in Nat
    BY <1>1, LoadTypes
  <2>3. UNCHANGED <<place, found, renames, op, stack, cur, cand, diags, report, changes, made, gone>>
    BY <1>1 DEF LoadForRestore
  <2> QED BY <2>1, <2>2, <2>3 DEF TypeInv, CursorInv
<1>2. CASE LoadForIndex(p)
  <2>1. PICK l \in Loads : loaded' = [loaded EXCEPT ![p] = l] /\ mem' = [mem EXCEPT ![p] = Read(l)]
    BY <1>2 DEF LoadForIndex
  <2>2. l \in Answers /\ Read(l) \in Seq(Entry) /\ k[p] = 0
    BY <1>2, LoadTypes DEF LoadForIndex, CursorInv
  <2>3. /\ pc' = [pc EXCEPT ![p] = "save"]
        /\ UNCHANGED <<place, found, renames, op, stack, cur, cand, k, diags, report, changes, made, gone>>
    BY <1>2 DEF LoadForIndex
  <2> QED BY <2>1, <2>2, <2>3 DEF TypeInv, CursorInv
<1>3. CASE SkipRestored(p) \/ SourceMissing(p) \/ Collision(p) \/ RestoreNameFails(p)
  <2>1. k[p] \in Nat /\ k[p] > 0
    BY <1>3 DEF SkipRestored, SourceMissing, Collision, RestoreNameFails, TypeInv, CursorInv
  <2>2. /\ k' = [k EXCEPT ![p] = k[p] - 1] /\ pc' = [pc EXCEPT ![p] = "pick"]
        /\ diags' \in [Procs -> BOOLEAN]
        /\ UNCHANGED <<place, found, renames, op, loaded, mem, stack, cur, cand, report, changes, made, gone>>
    BY <1>3 DEF SkipRestored, SourceMissing, Collision, RestoreNameFails, TypeInv
  <2> QED BY <2>1, <2>2 DEF TypeInv, CursorInv
<1>4. CASE StatTo(p) \/ StatFrom(p) \/ RestoreEnds(p)
  BY <1>4 DEF StatTo, StatFrom, RestoreEnds, TypeInv, CursorInv
<1>5. CASE RestoreName(p)
  <2>1. k[p] \in 1..Len(mem[p]) /\ mem[p] \in Seq(Entry)
    BY <1>5 DEF RestoreName, TypeInv, CursorInv
  <2>2. mem[p][k[p]] \in Entry
    BY <2>1
  <2>3. place' \in [Objects -> Places]
    BY <1>5, <2>2, MovedType DEF RestoreName, Entry
  <2> DEFINE r == [mem[p][k[p]] EXCEPT !.restored = TRUE]
  <2>4. r \in Entry
    BY <2>2 DEF Entry
  <2>5. mem' = [mem EXCEPT ![p] = [mem[p] EXCEPT ![k[p]] = r]]
    BY <1>5 DEF RestoreName
  <2>6. mem' \in [Procs -> Seq(Entry)] /\ \A q \in Procs : Len(mem'[q]) = Len(mem[q])
    BY <2>1, <2>4, <2>5 DEF TypeInv
  <2>7. mem'[p][k[p]] \in Entry
    <3>1. mem'[p] \in Seq(Entry) /\ k[p] \in 1..Len(mem'[p])
      BY <2>1, <2>6
    <3> QED BY <3>1
  <2>8. /\ report' = [report EXCEPT ![p] = Append(report[p], mem'[p][k[p]])]
        /\ k' = [k EXCEPT ![p] = k[p] - 1] /\ pc' = [pc EXCEPT ![p] = "pick"]
        /\ UNCHANGED <<found, renames, op, loaded, stack, cur, cand, diags, changes, made, gone>>
    BY <1>5 DEF RestoreName
  <2>9. report' \in [Procs -> Seq(Entry)]
    BY <2>7, <2>8 DEF TypeInv
  <2>10. TypeInv'
    <3>1. k' \in [Procs -> Nat] /\ pc' \in [Procs -> Label]
      <4>1. k[p] - 1 \in Nat /\ k \in [Procs -> Nat] /\ pc \in [Procs -> Label]
        BY <2>1 DEF TypeInv
      <4> QED BY <2>8, <4>1
    <3> QED BY <2>3, <2>6, <2>8, <2>9, <3>1 DEF TypeInv
  <2>11. CursorInv'
    BY <2>1, <2>6, <2>8 DEF TypeInv, CursorInv
  <2> QED BY <2>10, <2>11
<1>6. CASE Save(p)
  BY <1>6 DEF Save, TypeInv, CursorInv, States
<1>7. CASE SaveFails(p) \/ Kill(p)
  BY <1>7 DEF SaveFails, Kill, TypeInv, CursorInv
<1> QED BY <1>1, <1>2, <1>3, <1>4, <1>5, <1>6, <1>7

\* So does the user.
LEMMA UserTypes ==
    ASSUME TypeInv, CursorInv, User
    PROVE  TypeInv' /\ CursorInv'
<1> USE DEF tool, file, RunsAssumption
<1>1. CASE \E o \in Objects, d \in Dirs, n \in Name : Create(o, d, n)
  <2>1. PICK o \in Objects, d \in Dirs, n \in Name : Create(o, d, n)
    BY <1>1
  <2>2. place' \in [Objects -> Places] /\ changes' \in 0..MaxChanges /\ made' \in SUBSET Objects
    BY <2>1, RunsAssumption DEF Create, TypeInv, Places
  <2> QED BY <2>1, <2>2 DEF Create, TypeInv, CursorInv
<1>2. CASE \E o \in Objects : Delete(o)
  <2>1. PICK o \in Objects : Delete(o)
    BY <1>2
  <2>2. place' \in [Objects -> Places] /\ changes' \in 0..MaxChanges /\ gone' \in SUBSET Objects
    BY <2>1, RunsAssumption DEF Delete, TypeInv, Places
  <2> QED BY <2>1, <2>2 DEF Delete, TypeInv, CursorInv
<1> QED BY <1>1, <1>2 DEF User

\* What a lookup finds in a directory is there, and what it finds absent is not.
LEMMA EnterFinds ==
    ASSUME NEW d \in Dirs, NEW n
    PROVE  /\ Enter(place, d, n) \in Objects => place[Enter(place, d, n)] = <<d, n>>
           /\ Enter(place, d, n) \in {Absent, Failed} \union Objects
           /\ Enter(place, d, n) /= Failed /\ (\E o \in Objects : place[o] = <<d, n>>)
                => Enter(place, d, n) \in Objects
<1>1. d \notin {Absent, Failed}
  BY ObjectsAssumption DEF Root, Absent, Failed
<1> DEFINE P == {o \in Objects : place[o] = <<d, n>>}
<1>2. P /= {} => (CHOOSE o \in Objects : place[o] = <<d, n>>) \in P
  OBVIOUS
<1> QED BY <1>1, <1>2, ObjectsAssumption DEF Enter, Absent, Failed

\* Two objects have different places, unless they have none.
OnePlace == \A o1, o2 \in Objects : place[o1] = place[o2] /\ place[o1] /= Nowhere => o1 = o2

\* A rename puts its object in a place that no other has then: the one that had it is gone.
LEMMA MovedOnePlace ==
    ASSUME TypeInv, OnePlace, NEW from \in Proper, NEW to \in Proper, CanRename(from, to),
           place' = Moved(from, to)
    PROVE  OnePlace'
<1> DEFINE d == Resolve(place, Front(to))
           n == Last(to)
           s == Lstat(from)
           t == Lstat(to)
<1>1. d \in Dirs /\ s \in Objects /\ t = Enter(place, d, n) /\ Replaceable(s, t)
  BY DEF CanRename, Lstat, Proper
<1>2. t /= Failed
  BY <1>1, ObjectsAssumption DEF Replaceable, Failed, Absent, Root
<1>4. \A o \in Objects : place'[o] = IF o = s THEN <<d, n>> ELSE IF o = t THEN Nowhere ELSE place[o]
  BY DEF Moved
<1> HIDE DEF d, n, s, t
<1>3. \A o \in Objects : place[o] = <<d, n>> => o = t
  BY <1>1, <1>2, EnterFinds DEF OnePlace, Nowhere
<1> QED BY <1>1, <1>3, <1>4 DEF OnePlace

\* Every step of a run keeps objects apart, by the two renames.
LEMMA RunOnePlace ==
    ASSUME TypeInv, CursorInv, OnePlace, NEW p \in Procs, Run(p) \/ Kill(p)
    PROVE  OnePlace'
<1>1. CASE RenameChild(p)
  BY <1>1, TargetType, MovedOnePlace DEF RenameChild
<1>2. CASE RestoreName(p)
  <2>1. mem[p][k[p]] \in Entry
    BY <1>2 DEF RestoreName, TypeInv, CursorInv
  <2> QED BY <1>2, <2>1, MovedOnePlace DEF RestoreName, Entry
<1>3. CASE ~RenameChild(p) /\ ~RestoreName(p)
  <2>1. UNCHANGED place
    BY <1>3 DEF Run, LoadForFix, LoadForRestore, LoadForIndex, ReadDir, ReadDirFails, NextChild,
         LeaveDir, VisitEnds, ProbeTarget, RenameChildFails, StatChild, SkipRestored, StatTo,
         SourceMissing, StatFrom, Collision, RestoreNameFails, RestoreEnds, Save, SaveFails, Kill
  <2> QED BY <2>1 DEF OnePlace
<1> QED BY <1>1, <1>2, <1>3

\* The user creates only where nothing is.
LEMMA UserOnePlace ==
    ASSUME TypeInv, OnePlace, User
    PROVE  OnePlace'
<1>1. CASE \E o \in Objects, d \in Dirs, n \in Name : Create(o, d, n)
  <2>1. PICK o \in Objects, d \in Dirs, n \in Name : Create(o, d, n)
    BY <1>1
  <2>2. \A x \in Objects : place[x] /= <<d, n>>
    BY <2>1 DEF Create, Children
  <2>3. place' = [place EXCEPT ![o] = <<d, n>>]
    BY <2>1 DEF Create
  <2> QED BY <2>2, <2>3 DEF TypeInv, OnePlace
<1>2. CASE \E o \in Objects : Delete(o)
  BY <1>2 DEF Delete, TypeInv, OnePlace
<1> QED BY <1>1, <1>2 DEF User

-----------------------------------------------------------------------------
\* What holds however runs overlap.
BaseInv == TypeInv /\ CursorInv /\ OnePlace

\* The types imply what the module promises of them.
LEMMA TypesSuffice == BaseInv => TypeOK
<1> SUFFICES ASSUME BaseInv PROVE TypeOK
  OBVIOUS
<1>1. \A s \in Seq(Entry) : Range(s) \subseteq Record
  <2>1. Entry \subseteq Record
    BY DEF Entry, Record, Proper
  <2>2. ASSUME NEW s \in Seq(Entry), NEW r \in Range(s) PROVE r \in Entry
    BY RangeOfSeq
  <2> QED BY <2>1, <2>2
<1>2. \A s \in Seq(Frame) : \A f \in Range(s) : f.dir \in Path /\ f.left \subseteq Name
  <2>1. ASSUME NEW s \in Seq(Frame), NEW f \in Range(s) PROVE f \in Frame
    BY RangeOfSeq
  <2> QED BY <2>1 DEF Frame
<1>3. \A p \in Procs : pc[p] \in {"probe", "rename"} => cand[p] \in DOMAIN Candidates[Last(cur[p])]
  BY TargetType DEF BaseInv
<1> QED BY <1>1, <1>2, <1>3 DEF BaseInv, TypeInv, CursorInv, OnePlace, TypeOK, Label, States, Answers

\* It holds at the start.
LEMMA BaseInit == Init => BaseInv
<1> SUFFICES ASSUME Init PROVE BaseInv
  OBVIOUS
<1>1. ASSUME NEW i \in DOMAIN Earlier PROVE Earlier[i] \in Entry
  <2>1. Earlier[i] \in Record /\ Earlier[i].from /= <<>> /\ Earlier[i].to /= <<>>
    BY EarlierAssumption
  <2> QED BY <2>1 DEF Entry, Proper, Record
<1>2. renames \in Seq(Entry)
  BY <1>1, EarlierAssumption DEF Init
<1>3. TypeInv
  BY <1>2, TreeAssumption, RunsAssumption DEF Init, TypeInv, Label, States, Answers, Path
<1> QED BY <1>3, TreeAssumption DEF Init, BaseInv, CursorInv, OnePlace

\* Every step keeps it.
LEMMA BaseStep == BaseInv /\ [Next]_vars => BaseInv'
<1> SUFFICES ASSUME BaseInv, [Next]_vars PROVE BaseInv'
  OBVIOUS
<1> USE DEF BaseInv
<1>1. ASSUME NEW p \in Procs, Run(p) \/ Kill(p) PROVE BaseInv'
  <2>1. TypeInv' /\ CursorInv'
    BY <1>1, FixTypes, RestoreTypes DEF Run
  <2> QED BY <1>1, <2>1, RunOnePlace
<1>2. CASE User
  BY <1>2, UserTypes, UserOnePlace
<1>3. CASE UNCHANGED vars
  BY <1>3 DEF vars, file, tool, user, TypeInv, CursorInv, OnePlace
<1> QED BY <1>1, <1>2, <1>3 DEF Next, Finished

\* However runs overlap and whatever the user does, every variable keeps its type, two
\* objects never share a place, and an index into the records or the candidates is one
\* of them.
THEOREM TypeCorrect == Spec => []TypeOK
  BY BaseInit, BaseStep, TypesSuffice, PTL DEF Spec

-----------------------------------------------------------------------------
(* Records, when runs do not overlap. *)

\* t keeps every record of s, and what is restored in it.
Covers(s, t) ==
    /\ Len(s) <= Len(t)
    /\ \A i \in DOMAIN s : Same(s[i], t[i]) /\ (s[i].restored => t[i].restored)

Active(p) == pc[p] /= "start" /\ ~Ended(p)

\* When a run has started, those before it have ended.
OneAtATime == \A p, q \in Procs : q < p /\ pc[p] /= "start" => Ended(q)

\* A run that has not started has loaded and reported nothing, and a file that is not
\* there has no records.
StartInv ==
    /\ \A p \in Procs : pc[p] = "start" => report[p] = <<>> /\ loaded[p] = "nothing"
    /\ found = "absent" => renames = <<>>

\* What a run holds in memory keeps every record of the file, unless it is an index that
\* could not use it, and records every rename and every restore that the run has made.
MemInv == \A p \in Procs : Active(p) =>
    /\ Forgets(p) \/ Covers(renames, mem[p])
    /\ \A r \in Range(report[p]) : RecordedIn(r, mem[p])

\* What holds of the records when runs do not overlap.
RecordInv == OneAtATime /\ StartInv /\ MemInv /\ SuccessIsRecorded

\* Loading the file and saving it again loses nothing.
LEMMA CoversItself == ASSUME NEW s \in Seq(Entry) PROVE Covers(s, s)
  BY DEF Covers, Same

\* What one change keeps and then another, both keep.
LEMMA CoversTwice ==
    ASSUME NEW s \in Seq(Entry), NEW t \in Seq(Entry), NEW u \in Seq(Entry),
           Covers(s, t), Covers(t, u)
    PROVE  Covers(s, u)
  BY DEF Covers, Same

\* A rename adds a record.
LEMMA CoversAppend ==
    ASSUME NEW s \in Seq(Entry), NEW r \in Entry
    PROVE  Covers(s, Append(s, r))
  BY DEF Covers, Same

\* A restore marks one.
LEMMA CoversMark ==
    ASSUME NEW s \in Seq(Entry), NEW i \in DOMAIN s, NEW e \in Entry,
           Same(s[i], e), e.restored
    PROVE  [s EXCEPT ![i] = e] \in Seq(Entry) /\ Covers(s, [s EXCEPT ![i] = e])
  BY DEF Covers, Same

\* What is recorded in fewer records is recorded in more.
LEMMA RecordedInMore ==
    ASSUME NEW s \in Seq(Entry), NEW t \in Seq(Entry), Covers(s, t), NEW r, RecordedIn(r, s)
    PROVE  RecordedIn(r, t)
<1>1. PICK x \in Range(s) : Same(r, x) /\ (r.restored => x.restored)
  BY DEF RecordedIn
<1>2. PICK i \in DOMAIN s : x = s[i]
  BY <1>1 DEF Range
<1>3. i \in DOMAIN t /\ Same(s[i], t[i]) /\ (s[i].restored => t[i].restored)
  BY <1>2 DEF Covers
<1>4. t[i] \in Range(t)
  BY <1>3 DEF Range
<1> QED BY <1>1, <1>2, <1>3, <1>4 DEF RecordedIn, Same

\* A record is recorded.
LEMMA Recorded ==
    ASSUME NEW s \in Seq(Entry), NEW i \in DOMAIN s
    PROVE  RecordedIn(s[i], s)
<1>1. s[i] \in Range(s)
  BY DEF Range
<1> QED BY <1>1 DEF RecordedIn, Same

\* What is in a longer list was in the shorter, or is the last.
LEMMA RangeAppend ==
    ASSUME NEW s \in Seq(Entry), NEW e \in Entry, NEW r \in Range(Append(s, e))
    PROVE  r \in Range(s) \/ r = e
<1>1. PICK i \in DOMAIN Append(s, e) : r = Append(s, e)[i]
  BY DEF Range
<1>2. CASE i = Len(s) + 1
  BY <1>1, <1>2
<1>3. CASE i \in DOMAIN s
  BY <1>1, <1>3 DEF Range
<1> QED BY <1>1, <1>2, <1>3

\* When runs do not overlap, no other run takes a step while one is active.
LEMMA Alone ==
    ASSUME Concurrent = FALSE, TypeInv, OneAtATime, NEW p \in Procs, Run(p) \/ Kill(p)
    PROVE  /\ (pc[p] = "start" /\ Free(p)) \/ Active(p)
           /\ \A q \in Procs : q /= p => ~Active(q) /\ pc'[q] = pc[q]
           /\ pc' \in [Procs -> Label] /\ pc'[p] /= "start"
<1> USE DEF Ended, Active, Goto, Skip, Report
<1>1. (pc[p] = "start" /\ Free(p)) \/ Active(p)
  BY DEF Run, LoadForFix, LoadForRestore, LoadForIndex, ReadDir, ReadDirFails, NextChild,
         LeaveDir, VisitEnds, ProbeTarget, RenameChild, RenameChildFails, StatChild, SkipRestored,
         StatTo, SourceMissing, StatFrom, Collision, RestoreName, RestoreNameFails, RestoreEnds,
         Save, SaveFails, Kill
<1>2. \E l \in Label \ {"start"} : pc' = [pc EXCEPT ![p] = l] \/ (pc' = pc /\ pc[p] = l)
  BY DEF Run, LoadForFix, LoadForRestore, LoadForIndex, ReadDir, ReadDirFails, NextChild,
         LeaveDir, VisitEnds, ProbeTarget, RenameChild, RenameChildFails, StatChild, SkipRestored,
         StatTo, SourceMissing, StatFrom, Collision, RestoreName, RestoreNameFails, RestoreEnds,
         Save, SaveFails, Kill, Label
<1>3. \A q \in Procs : q /= p => ~Active(q)
  <2>1. \A q \in Procs : q < p => Ended(q)
    BY <1>1 DEF Free, OneAtATime
  <2>2. \A q \in Procs : p < q => pc[q] = "start"
    BY <1>1 DEF OneAtATime
  <2> QED BY <2>1, <2>2, RunsAssumption
<1> QED BY <1>1, <1>2, <1>3 DEF TypeInv

\* The order of the runs stays what it is.
LEMMA OrderStep ==
    ASSUME Concurrent = FALSE, TypeInv, OneAtATime, NEW p \in Procs, Run(p) \/ Kill(p)
    PROVE  OneAtATime'
<1>1. /\ (pc[p] = "start" /\ Free(p)) \/ Active(p)
      /\ \A q \in Procs : q /= p => ~Active(q) /\ pc'[q] = pc[q]
  BY Alone
<1>2. ASSUME NEW q \in Procs, NEW r \in Procs, r < q, pc'[q] /= "start" PROVE Ended(r)'
  <2>1. CASE q = p
    <3>1. r /= p /\ Ended(r)
      BY <1>1, <1>2, <2>1, RunsAssumption DEF Free, OneAtATime, Active
    <3> QED BY <1>1, <3>1 DEF Ended
  <2>2. CASE q /= p
    <3>1. pc[q] /= "start" /\ Ended(r)
      BY <1>1, <1>2, <2>2 DEF OneAtATime
    <3>2. r /= p
      BY <1>1, <1>2, <3>1, RunsAssumption DEF Active, Ended, Free
    <3> QED BY <1>1, <3>1, <3>2 DEF Ended
  <2> QED BY <2>1, <2>2
<1> QED BY <1>2 DEF OneAtATime

\* A step that leaves the file alone has to keep only what its own run remembers.
LEMMA FileKept ==
    ASSUME Concurrent = FALSE, TypeInv, RecordInv, NEW p \in Procs, Run(p) \/ Kill(p),
           UNCHANGED <<found, renames, op>>, pc'[p] /= "ok",
           \A q \in Procs : q /= p => report'[q] = report[q] /\ loaded'[q] = loaded[q],
           Active(p)' => /\ Forgets(p)' \/ Covers(renames, mem'[p])
                         /\ \A r \in Range(report'[p]) : RecordedIn(r, mem'[p])
    PROVE  RecordInv'
<1>1. /\ \A q \in Procs : q /= p => ~Active(q) /\ pc'[q] = pc[q]
      /\ pc'[p] /= "start"
  BY Alone DEF RecordInv
<1>2. OneAtATime'
  BY OrderStep DEF RecordInv
<1>3. StartInv'
  BY <1>1 DEF RecordInv, StartInv
<1>4. MemInv'
  BY <1>1 DEF MemInv, Active, Ended
<1>5. pc[p] /= "ok"
  BY Alone DEF RecordInv, Active, Ended
<1>6. ASSUME NEW q \in Procs, pc'[q] = "ok",
             ~(\E s \in Procs : s > q /\ Forgets(s)' /\ pc'[s] = "ok"),
             NEW r \in Range(report'[q])
      PROVE  RecordedIn(r, renames)
  <2>1. q /= p /\ pc[q] = "ok" /\ report'[q] = report[q]
    BY <1>1, <1>6
  <2>2. \A s \in Procs : s > q /\ Forgets(s) => pc[s] /= "ok"
    BY <1>1, <1>5, <1>6 DEF Forgets
  <2> QED BY <1>6, <2>1, <2>2 DEF RecordInv, SuccessIsRecorded
<1>7. SuccessIsRecorded'
  BY <1>6 DEF SuccessIsRecorded
<1> QED BY <1>2, <1>3, <1>4, <1>7 DEF RecordInv

\* Every step of a run keeps what is known of the records.
LEMMA RecordStep ==
    ASSUME Concurrent = FALSE, TypeInv, CursorInv, RecordInv, NEW p \in Procs, Run(p) \/ Kill(p)
    PROVE  RecordInv'
<1> USE DEF Goto, Skip, Report, file
<1>m. mem[p] \in Seq(Entry) /\ report[p] \in Seq(Entry) /\ renames \in Seq(Entry)
  BY DEF TypeInv
<1>a. Active(p) => (Forgets(p) \/ Covers(renames, mem[p])) /\ \A r \in Range(report[p]) : RecordedIn(r, mem[p])
  BY DEF RecordInv, MemInv
<1>s. pc[p] = "start" => report[p] = <<>> /\ Range(report[p]) = {}
  BY DEF RecordInv, StartInv, Range
<1>1. CASE LoadForFix(p) \/ LoadForRestore(p) \/ LoadForIndex(p)
  <2>1. PICK l \in Loads :
          /\ loaded' = [loaded EXCEPT ![p] = l] /\ mem'[p] = Read(l)
          /\ Active(p)' => l \in {"usable", "absent"} \/ op[p] = "index"
    BY <1>1 DEF LoadForFix, LoadForRestore, LoadForIndex, TypeInv, Active, Ended
  <2>2. /\ pc[p] = "start" /\ UNCHANGED <<found, renames, op, report>> /\ pc'[p] /= "ok"
        /\ loaded'[p] = l /\ \A q \in Procs : q /= p => loaded'[q] = loaded[q]
    BY <1>1, <2>1 DEF LoadForFix, LoadForRestore, LoadForIndex, TypeInv
  <2>3. l \in {"usable", "absent"} => mem'[p] = renames
    BY <2>1 DEF Loads, Read, RecordInv, StartInv
  <2>4. l \in {"unread", "malformed", "otherroot", "usable", "absent"}
    BY <2>1 DEF Loads, TypeInv, States
  <2>5. Active(p)' => Forgets(p)' \/ Covers(renames, mem'[p])
    BY <1>m, <2>1, <2>2, <2>3, <2>4, CoversItself DEF Forgets
  <2> QED BY <1>s, <2>2, <2>5, FileKept
<1>2. CASE RenameChild(p)
  <2> DEFINE r == [from |-> cur[p], to |-> target(p), restored |-> FALSE]
  <2>1. cur[p] \in Proper /\ target(p) \in Proper
    BY <1>2, TargetType DEF RenameChild
  <2>2. r \in Entry
    BY <2>1 DEF Entry
  <2>3. /\ pc[p] = "rename" /\ UNCHANGED <<found, renames, op, loaded>> /\ pc'[p] = "stat"
        /\ mem' = [mem EXCEPT ![p] = Append(mem[p], r)]
        /\ report' = [report EXCEPT ![p] = Append(report[p], r)]
    BY <1>2 DEF RenameChild, TypeInv
  <2> HIDE DEF r
  <2>4. Active(p)
    BY <2>3 DEF Active, Ended
  <2>5. /\ mem'[p] = Append(mem[p], r) /\ mem'[p] \in Seq(Entry)
        /\ report'[p] = Append(report[p], r)
        /\ \A q \in Procs : q /= p => report'[q] = report[q]
    BY <2>2, <2>3 DEF TypeInv
  <2>6. Covers(mem[p], mem'[p])
    BY <1>m, <2>2, <2>5, CoversAppend
  <2>7. Forgets(p)' \/ Covers(renames, mem'[p])
    BY <1>a, <1>m, <2>3, <2>4, <2>5, <2>6, CoversTwice DEF Forgets
  <2>8. RecordedIn(r, mem'[p])
    <3>1. Len(mem[p]) + 1 \in DOMAIN mem'[p] /\ mem'[p][Len(mem[p]) + 1] = r
      BY <1>m, <2>2, <2>5
    <3> QED BY <2>5, <3>1, Recorded
  <2>9. \A x \in Range(report'[p]) : RecordedIn(x, mem'[p])
    BY <1>a, <1>m, <2>2, <2>4, <2>5, <2>6, <2>8, RangeAppend, RecordedInMore
  <2> QED BY <2>3, <2>5, <2>7, <2>9, FileKept
<1>3. CASE RestoreName(p)
  <2>1. k[p] \in DOMAIN mem[p]
    BY <1>3, <1>m DEF RestoreName, TypeInv, CursorInv
  <2>2. /\ pc[p] = "restore" /\ UNCHANGED <<found, renames, op, loaded>> /\ pc'[p] = "pick"
        /\ mem' = [mem EXCEPT ![p] = [mem[p] EXCEPT ![k[p]] = [mem[p][k[p]] EXCEPT !.restored = TRUE]]]
        /\ report' = [report EXCEPT ![p] = Append(report[p], mem'[p][k[p]])]
    BY <1>3 DEF RestoreName, TypeInv
  <2>3. Active(p)
    BY <2>2 DEF Active, Ended
  <2>4. mem'[p] = [mem[p] EXCEPT ![k[p]] = [mem[p][k[p]] EXCEPT !.restored = TRUE]]
    BY <2>2 DEF TypeInv
  <2>5. mem'[p] \in Seq(Entry) /\ Covers(mem[p], mem'[p])
    <3> DEFINE e == [mem[p][k[p]] EXCEPT !.restored = TRUE]
    <3>1. mem[p][k[p]] \in Entry
      BY <1>m, <2>1
    <3>2. e \in Entry /\ Same(mem[p][k[p]], e) /\ e.restored
      BY <3>1 DEF Entry, Same
    <3>3. mem'[p] = [mem[p] EXCEPT ![k[p]] = e]
      BY <2>4
    <3> HIDE DEF e
    <3> QED BY <1>m, <2>1, <3>2, <3>3, CoversMark
  <2>6. k[p] \in DOMAIN mem'[p] /\ mem'[p][k[p]] \in Entry
    BY <1>m, <2>1, <2>4, <2>5
  <2>7. /\ report'[p] = Append(report[p], mem'[p][k[p]])
        /\ \A q \in Procs : q /= p => report'[q] = report[q]
    BY <2>2 DEF TypeInv
  <2>8. Forgets(p)' \/ Covers(renames, mem'[p])
    BY <1>a, <1>m, <2>2, <2>3, <2>5, CoversTwice DEF Forgets
  <2>9. RecordedIn(mem'[p][k[p]], mem'[p])
    BY <2>5, <2>6, Recorded
  <2>10. \A x \in Range(report'[p]) : RecordedIn(x, mem'[p])
    BY <1>a, <1>m, <2>3, <2>5, <2>6, <2>7, <2>9, RangeAppend, RecordedInMore
  <2> QED BY <2>2, <2>7, <2>8, <2>10, FileKept
<1>4. CASE Save(p)
  <2>1. /\ pc[p] = "save" /\ found' = "usable" /\ renames' = mem[p]
        /\ UNCHANGED <<op, loaded, mem, report>>
        /\ pc'[p] = "ok"
    BY <1>4 DEF Save, TypeInv
  <2>2. /\ \A q \in Procs : q /= p => ~Active(q) /\ pc'[q] = pc[q]
    BY Alone DEF RecordInv
  <2>3. Active(p)
    BY <2>1 DEF Active, Ended
  <2>4. OneAtATime'
    BY OrderStep DEF RecordInv
  <2>5. StartInv'
    BY <2>1, <2>2 DEF RecordInv, StartInv
  <2>6. MemInv'
    BY <2>1, <2>2 DEF MemInv, Active, Ended
  <2>7. ASSUME NEW q \in Procs, pc'[q] = "ok", NEW r \in Range(report[q]),
               ~(\E s \in Procs : s > q /\ Forgets(s) /\ pc'[s] = "ok")
        PROVE  RecordedIn(r, mem[p])
    <3>1. CASE q = p
      BY <1>a, <2>3, <2>7, <3>1
    <3>2. CASE q /= p
      <4>1. pc[q] = "ok" /\ \A s \in Procs : s > q /\ Forgets(s) => pc[s] /= "ok"
        BY <2>1, <2>2, <2>7, <3>2
      <4>2. RecordedIn(r, renames)
        BY <2>7, <4>1 DEF RecordInv, SuccessIsRecorded
      <4>3. p > q
        <5>1. ~(p < q)
          BY <2>1, <2>3, <4>1 DEF RecordInv, OneAtATime, Ended
        <5> QED BY <3>2, <5>1, RunsAssumption
      <4>4. ~Forgets(p)
        BY <2>1, <2>7, <4>3
      <4> QED BY <1>a, <1>m, <2>3, <4>2, <4>4, RecordedInMore
    <3> QED BY <3>1, <3>2
  <2>8. \A s \in Procs : Forgets(s)' <=> Forgets(s)
    BY <2>1 DEF Forgets
  <2>9. SuccessIsRecorded'
    BY <2>1, <2>7, <2>8 DEF SuccessIsRecorded
  <2> QED BY <2>4, <2>5, <2>6, <2>9 DEF RecordInv
<1>5. CASE /\ ~LoadForFix(p) /\ ~LoadForRestore(p) /\ ~LoadForIndex(p)
           /\ ~RenameChild(p) /\ ~RestoreName(p) /\ ~Save(p)
  <2>1. /\ UNCHANGED <<found, renames, op, loaded, mem, report>>
        /\ pc[p] /= "start" /\ pc'[p] /= "ok" /\ ~Ended(p)
    BY <1>5 DEF Run, ReadDir, ReadDirFails, NextChild, LeaveDir, VisitEnds, ProbeTarget,
         RenameChildFails, StatChild, SkipRestored, StatTo, SourceMissing, StatFrom, Collision,
         RestoreNameFails, RestoreEnds, SaveFails, Kill, TypeInv, Label, Ended
  <2>2. Forgets(p)' <=> Forgets(p)
    BY <2>1 DEF Forgets
  <2> QED BY <1>a, <2>1, <2>2, FileKept DEF Active
<1> QED BY <1>1, <1>2, <1>3, <1>4, <1>5

\* No run has reported anything at the start.
LEMMA RecordInit == Init => RecordInv
  BY DEF Init, RecordInv, OneAtATime, StartInv, MemInv, SuccessIsRecorded, Active, Ended

\* Neither the runs nor the user lose a record.
LEMMA RecordNext == Concurrent = FALSE /\ BaseInv /\ RecordInv /\ [Next]_vars => RecordInv'
<1> SUFFICES ASSUME Concurrent = FALSE, BaseInv, RecordInv, [Next]_vars PROVE RecordInv'
  OBVIOUS
<1>1. ASSUME NEW p \in Procs, Run(p) \/ Kill(p) PROVE RecordInv'
  BY <1>1, RecordStep DEF BaseInv
<1>2. CASE User \/ UNCHANGED vars
  <2>1. UNCHANGED <<pc, found, renames, op, loaded, mem, report>>
    BY <1>2 DEF User, Create, Delete, tool, file, vars
  <2> QED BY <2>1 DEF RecordInv, OneAtATime, StartInv, MemInv, SuccessIsRecorded, Forgets, Active, Ended
<1> QED BY <1>1, <1>2 DEF Next, Finished

\* When runs do not overlap, what a run that succeeded told the user it renamed or
\* restored stays in the state file, whatever runs follow and whatever fails in them,
\* until an index that could not use the file replaces it.
THEOREM SuccessRecorded == Concurrent = FALSE => (Spec => []SuccessIsRecorded)
<1> SUFFICES ASSUME Concurrent = FALSE PROVE Spec => []SuccessIsRecorded
  OBVIOUS
<1>1. Init => BaseInv /\ RecordInv
  BY BaseInit, RecordInit
<1>2. BaseInv /\ RecordInv /\ [Next]_vars => (BaseInv /\ RecordInv)'
  BY BaseStep, RecordNext
<1>3. RecordInv => SuccessIsRecorded
  BY DEF RecordInv
<1> QED BY <1>1, <1>2, <1>3, PTL DEF Spec

\* What a step may do to the records.
RecordsGrow ==
    \/ \E p \in Procs : Forgets(p) /\ pc[p] = "save" /\ pc'[p] = "ok"
    \/ /\ Len(renames) <= Len(renames')
       /\ \A i \in DOMAIN renames :
            Same(renames[i], renames'[i]) /\ (renames[i].restored => renames'[i].restored)

\* Only a save changes the records, and it keeps them all, or is that of an index that
\* could not use the file.
LEMMA GrowStep == Concurrent = FALSE /\ BaseInv /\ RecordInv /\ [Next]_vars => [RecordsGrow]_vars
<1> SUFFICES ASSUME Concurrent = FALSE, BaseInv, RecordInv, Next PROVE RecordsGrow
  OBVIOUS
<1>m. renames \in Seq(Entry)
  BY DEF BaseInv, TypeInv
<1>1. ASSUME NEW p \in Procs, Save(p) PROVE RecordsGrow
  <2>1. Active(p) /\ renames' = mem[p] /\ pc[p] = "save" /\ pc'[p] = "ok"
    BY <1>1 DEF Save, Goto, Active, Ended, BaseInv, TypeInv
  <2>2. Forgets(p) \/ Covers(renames, renames')
    BY <2>1 DEF RecordInv, MemInv
  <2> QED BY <2>1, <2>2 DEF Covers, RecordsGrow
<1>2. CASE UNCHANGED renames
  BY <1>m, <1>2 DEF RecordsGrow, Same
<1>3. (\E p \in Procs : Save(p)) \/ UNCHANGED renames
  BY DEF Next, Run, LoadForFix, LoadForRestore, LoadForIndex, ReadDir, ReadDirFails, NextChild,
         LeaveDir, VisitEnds, ProbeTarget, RenameChild, RenameChildFails, StatChild, SkipRestored,
         StatTo, SourceMissing, StatFrom, Collision, RestoreName, RestoreNameFails, RestoreEnds,
         SaveFails, Kill, User, Create, Delete, Finished, vars, file
<1> QED BY <1>1, <1>2, <1>3

\* When runs do not overlap, no save drops or rewrites the record of a rename, or
\* forgets that it was restored, but that of an index that could not use the file.
THEOREM RecordsAreKept == Concurrent = FALSE => (Spec => RecordsOnlyGrow)
<1> SUFFICES ASSUME Concurrent = FALSE PROVE Spec => RecordsOnlyGrow
  OBVIOUS
<1>1. Init => BaseInv /\ RecordInv
  BY BaseInit, RecordInit
<1>2. BaseInv /\ RecordInv /\ [Next]_vars => (BaseInv /\ RecordInv)'
  BY BaseStep, RecordNext
<1>3. BaseInv /\ RecordInv /\ [Next]_vars => [RecordsGrow]_vars
  BY GrowStep
<1>4. Spec => [][RecordsGrow]_vars
  BY <1>1, <1>2, <1>3, PTL DEF Spec
<1> QED BY <1>4 DEF RecordsOnlyGrow, RecordsGrow

-----------------------------------------------------------------------------
(* Nothing is overwritten, when runs do not overlap and the user waits. *)

\* The name that a run is about to give is free.
FreeName == \A p \in Procs :
    /\ pc[p] = "rename" => Lstat(target(p)) = Absent
    /\ pc[p] = "restore" => Lstat(mem[p][k[p]].from) = Absent

\* What holds of the tree when nobody else changes it.
KeptInv == FreeName /\ NothingOverwritten

\* A rename to a free name removes nothing from the tree.
LEMMA MovedKeeps ==
    ASSUME NEW from, NEW to, Lstat(to) = Absent, CanRename(from, to), NEW o \in Objects,
           Moved(from, to)[o] = Nowhere
    PROVE  place[o] = Nowhere
<1>1. o /= Lstat(to)
  BY ObjectsAssumption DEF Absent
<1>2. <<Resolve(place, Front(to)), Last(to)>> /= Nowhere
  BY DEF Nowhere
<1> QED BY <1>1, <1>2 DEF Moved

\* A name that was found free is still free when it is given, since only the run that
\* found it free takes a step.
LEMMA FreeStep ==
    ASSUME Concurrent = FALSE, TypeInv, OneAtATime, NEW p \in Procs, Run(p) \/ Kill(p)
    PROVE  FreeName'
<1> USE DEF Goto, Skip, Report, file, user
<1>1. \A q \in Procs : q /= p => pc'[q] \notin {"rename", "restore"}
  BY Alone DEF Active, Ended
<1>2. pc'[p] = "rename" => Lstat(target(p)) = Absent /\ UNCHANGED <<place, cur, cand>>
  BY DEF Run, LoadForFix, LoadForRestore, LoadForIndex, ReadDir, ReadDirFails, NextChild,
       LeaveDir, VisitEnds, ProbeTarget, RenameChild, RenameChildFails, StatChild, SkipRestored,
       StatTo, SourceMissing, StatFrom, Collision, RestoreName, RestoreNameFails, RestoreEnds,
       Save, SaveFails, Kill, TypeInv, Label
<1>3. pc'[p] = "restore" => Lstat(mem[p][k[p]].from) = Absent /\ UNCHANGED <<place, mem, k>>
  BY DEF Run, LoadForFix, LoadForRestore, LoadForIndex, ReadDir, ReadDirFails, NextChild,
       LeaveDir, VisitEnds, ProbeTarget, RenameChild, RenameChildFails, StatChild, SkipRestored,
       StatTo, SourceMissing, StatFrom, Collision, RestoreName, RestoreNameFails, RestoreEnds,
       Save, SaveFails, Kill, TypeInv, Label
<1>4. pc'[p] = "rename" => Lstat(target(p))' = Absent
  BY <1>2 DEF Lstat, target
<1>5. pc'[p] = "restore" => Lstat(mem[p][k[p]].from)' = Absent
  BY <1>3 DEF Lstat
<1> QED BY <1>1, <1>4, <1>5 DEF FreeName

\* So the run removes nothing.
LEMMA KeptStep ==
    ASSUME Concurrent = FALSE, TypeInv, OneAtATime, KeptInv, NEW p \in Procs, Run(p) \/ Kill(p)
    PROVE  KeptInv'
<1> USE DEF Goto, Skip, Report, file, user
<1>1. FreeName'
  BY FreeStep
<1>2. UNCHANGED <<made, gone>>
  BY DEF Run, LoadForFix, LoadForRestore, LoadForIndex, ReadDir, ReadDirFails, NextChild,
         LeaveDir, VisitEnds, ProbeTarget, RenameChild, RenameChildFails, StatChild, SkipRestored,
         StatTo, SourceMissing, StatFrom, Collision, RestoreName, RestoreNameFails, RestoreEnds,
         Save, SaveFails, Kill
<1>3. \A o \in Objects : place'[o] = Nowhere => place[o] = Nowhere
  <2>1. CASE RenameChild(p)
    <3>1. Lstat(target(p)) = Absent /\ CanRename(cur[p], target(p)) /\ place' = Moved(cur[p], target(p))
      BY <2>1 DEF RenameChild, KeptInv, FreeName
    <3> QED BY <3>1, MovedKeeps
  <2>2. CASE RestoreName(p)
    <3> DEFINE r == mem[p][k[p]]
    <3>1. Lstat(r.from) = Absent /\ CanRename(r.to, r.from) /\ place' = Moved(r.to, r.from)
      BY <2>2 DEF RestoreName, KeptInv, FreeName
    <3> QED BY <3>1, MovedKeeps
  <2>3. CASE ~RenameChild(p) /\ ~RestoreName(p)
    BY <2>3 DEF Run, LoadForFix, LoadForRestore, LoadForIndex, ReadDir, ReadDirFails, NextChild,
         LeaveDir, VisitEnds, ProbeTarget, RenameChildFails, StatChild, SkipRestored, StatTo,
         SourceMissing, StatFrom, Collision, RestoreNameFails, RestoreEnds, Save, SaveFails, Kill
  <2> QED BY <2>1, <2>2, <2>3
<1>4. NothingOverwritten'
  BY <1>2, <1>3 DEF KeptInv, NothingOverwritten
<1> QED BY <1>1, <1>4 DEF KeptInv

\* Nobody but the runs changes the tree.
LEMMA KeptNext ==
    Concurrent = FALSE /\ UserOps = {} /\ BaseInv /\ RecordInv /\ KeptInv /\ [Next]_vars => KeptInv'
<1> SUFFICES ASSUME Concurrent = FALSE, UserOps = {}, BaseInv, RecordInv, KeptInv, [Next]_vars
             PROVE  KeptInv'
  OBVIOUS
<1>1. ASSUME NEW p \in Procs, Run(p) \/ Kill(p) PROVE KeptInv'
  BY <1>1, KeptStep DEF BaseInv, RecordInv
<1>2. ~User
  BY DEF User, Create, Delete
<1>3. CASE UNCHANGED vars
  <2>1. UNCHANGED <<place, pc, cur, cand, mem, k, made, gone>>
    BY <1>3 DEF vars, tool, user
  <2>2. \A p \in Procs : Lstat(target(p))' = Lstat(target(p)) /\ Lstat(mem[p][k[p]].from)' = Lstat(mem[p][k[p]].from)
    BY <2>1 DEF Lstat, target
  <2> QED BY <2>1, <2>2 DEF KeptInv, FreeName, NothingOverwritten
<1> QED BY <1>1, <1>2, <1>3 DEF Next, Finished

\* When runs do not overlap and the user leaves the tree alone, no rename and no
\* restore removes an object, in any tree and with any failures.
THEOREM NothingLost == Concurrent = FALSE /\ UserOps = {} => (Spec => []NothingOverwritten)
<1> SUFFICES ASSUME Concurrent = FALSE, UserOps = {} PROVE Spec => []NothingOverwritten
  OBVIOUS
<1>1. Init => BaseInv /\ RecordInv /\ KeptInv
  <2>1. Init => KeptInv
    BY DEF Init, KeptInv, FreeName, NothingOverwritten
  <2> QED BY <2>1, BaseInit, RecordInit
<1>2. BaseInv /\ RecordInv /\ KeptInv /\ [Next]_vars => (BaseInv /\ RecordInv /\ KeptInv)'
  BY BaseStep, RecordNext, KeptNext
<1>3. KeptInv => NothingOverwritten
  BY DEF KeptInv
<1> QED BY <1>1, <1>2, <1>3, PTL DEF Spec

-----------------------------------------------------------------------------
(* Paths. *)

\* The front of a sequence is what comes before its last.
LEMMA FrontIs ==
    ASSUME NEW S, NEW s \in Seq(S), s /= <<>>
    PROVE  /\ Len(s) \in Nat \ {0} /\ Front(s) \in Seq(S) /\ Len(Front(s)) = Len(s) - 1
           /\ \A i \in 1..(Len(s) - 1) : Front(s)[i] = s[i]
<1>1. Len(s) \in Nat \ {0} /\ \A i \in 1..(Len(s) - 1) : s[i] \in S
  OBVIOUS
<1> DEFINE n == Len(s) - 1
<1>2. n \in Int /\ 1 \in Int /\ \A i \in 1..n : s[i] \in S
  BY <1>1
<1>3. n - 1 + 1 = n /\ \A i \in 1..n : 1 + i - 1 = i
  BY <1>1
<1> HIDE DEF n
<1>4. /\ SubSeq(s, 1, n) \in Seq(S)
      /\ Len(SubSeq(s, 1, n)) = IF 1 <= n THEN n - 1 + 1 ELSE 0
      /\ \A i \in 1 .. n - 1 + 1 : SubSeq(s, 1, n)[i] = s[1 + i - 1]
  BY <1>2, SubSeqProperties
<1>5. Front(s) = SubSeq(s, 1, n)
  BY DEF Front, n
<1>6. Len(Front(s)) = n
  BY <1>1, <1>3, <1>4, <1>5 DEF n
<1>7. \A i \in 1..n : Front(s)[i] = s[i]
  BY <1>3, <1>4, <1>5
<1> QED BY <1>1, <1>4, <1>5, <1>6, <1>7 DEF n

\* A solution of the equation that Resolve looks a path up with.
Solves(at, tree, dir) ==
    at = [i \in 0..Len(dir) |-> IF i = 0 THEN Root ELSE Enter(tree, at[i - 1], dir[i])]

\* The equation has a solution, made one name at a time.
LEMMA Solvable ==
    ASSUME NEW tree, NEW dir \in Path
    PROVE  \E at : Solves(at, tree, dir)
<1> DEFINE Upto(n) == \E at : at = [i \in 0..n |-> IF i = 0 THEN Root
                                                   ELSE Enter(tree, at[i - 1], dir[i])]
           T == {n \in 0..Len(dir) : ~Upto(n)}
<1>0. Len(dir) \in Nat
  BY DEF Path
<1>1. SUFFICES T = {}
  BY <1>0 DEF Solves
<1>2. SUFFICES ASSUME T /= {} PROVE FALSE
  OBVIOUS
<1>3. T \subseteq Nat
  BY <1>0
<1>4. PICK n \in T : \A m \in T : n <= m
  BY <1>2, <1>3, Smallest
<1>5. n \in 0..Len(dir) /\ ~Upto(n)
  BY <1>4
<1>6. n /= 0
  <2>1. [i \in 0..0 |-> Root] = [i \in 0..0 |-> IF i = 0 THEN Root
                                   ELSE Enter(tree, [j \in 0..0 |-> Root][i - 1], dir[i])]
    OBVIOUS
  <2> QED BY <1>5, <2>1
<1>7. Upto(n - 1)
  <2> HIDE DEF Upto
  <2>1. n - 1 \in 0..Len(dir) /\ ~(n <= n - 1)
    BY <1>0, <1>5, <1>6
  <2> QED BY <1>4, <2>1
<1>8. PICK at : at = [i \in 0..(n - 1) |-> IF i = 0 THEN Root ELSE Enter(tree, at[i - 1], dir[i])]
  BY <1>7
<1> DEFINE more == [i \in 0..n |-> IF i < n THEN at[i] ELSE Enter(tree, at[n - 1], dir[n])]
<1>9. \A i \in 0..(n - 1) : more[i] = at[i] /\ at[i] = IF i = 0 THEN Root ELSE Enter(tree, at[i - 1], dir[i])
  <2>1. \A i \in 0..(n - 1) : i < n /\ i \in 0..n
    BY <1>0, <1>5
  <2>2. \A i \in 0..(n - 1) : at[i] = IF i = 0 THEN Root ELSE Enter(tree, at[i - 1], dir[i])
    BY <1>8
  <2> QED BY <2>1, <2>2
<1>10. more[n] = Enter(tree, at[n - 1], dir[n])
  BY <1>0, <1>5
<1>11. more = [i \in 0..n |-> more[i]]
  OBVIOUS
<1> HIDE DEF more
<1>12. ASSUME NEW i \in 0..n
       PROVE  more[i] = IF i = 0 THEN Root ELSE Enter(tree, more[i - 1], dir[i])
  <2>1. CASE i = n
    <3>1. more[n - 1] = at[n - 1]
      BY <1>0, <1>5, <1>6, <1>9
    <3> QED BY <1>6, <1>10, <2>1, <3>1
  <2>2. CASE i = 0
    <3>1. 0 \in 0..(n - 1)
      BY <1>0, <1>5, <1>6
    <3> QED BY <1>9, <2>2, <3>1
  <2>3. CASE i /= n /\ i /= 0
    <3>1. i \in 0..(n - 1) /\ i - 1 \in 0..(n - 1)
      BY <1>0, <1>5, <2>3
    <3>2. more[i] = Enter(tree, at[i - 1], dir[i])
      BY <1>9, <2>3, <3>1
    <3>3. more[i - 1] = at[i - 1]
      BY <1>9, <3>1
    <3> QED BY <2>3, <3>2, <3>3
  <2> QED BY <2>1, <2>2, <2>3
<1>13. more = [i \in 0..n |-> IF i = 0 THEN Root ELSE Enter(tree, more[i - 1], dir[i])]
  BY <1>11, <1>12
<1> QED BY <1>5, <1>13

\* And only one.
LEMMA SolvedOnce ==
    ASSUME NEW tree, NEW dir \in Path, NEW at, NEW as, Solves(at, tree, dir), Solves(as, tree, dir)
    PROVE  at = as
<1> DEFINE T == {n \in 0..Len(dir) : at[n] /= as[n]}
<1>0. Len(dir) \in Nat
  BY DEF Path
<1>1. /\ at = [i \in 0..Len(dir) |-> at[i]] /\ as = [i \in 0..Len(dir) |-> as[i]]
      /\ \A i \in 0..Len(dir) : /\ at[i] = IF i = 0 THEN Root ELSE Enter(tree, at[i - 1], dir[i])
                                /\ as[i] = IF i = 0 THEN Root ELSE Enter(tree, as[i - 1], dir[i])
  BY DEF Solves
<1>2. T = {}
  <2>1. SUFFICES ASSUME T /= {} PROVE FALSE
    OBVIOUS
  <2>2. T \subseteq Nat
    <3>1. \A n \in 0..Len(dir) : n \in Nat
      BY <1>0
    <3> QED BY <3>1
  <2>3. PICK n \in T : \A m \in T : n <= m
    BY <2>1, <2>2, Smallest
  <2>4. n \in 0..Len(dir) /\ at[n] /= as[n]
    BY <2>3
  <2>5. n /= 0
    BY <1>1, <2>4
  <2>6. at[n - 1] = as[n - 1]
    <3>1. n - 1 \in 0..Len(dir) /\ ~(n <= n - 1)
      BY <1>0, <2>4, <2>5
    <3> QED BY <2>3, <3>1
  <2> QED BY <1>1, <2>4, <2>5, <2>6
<1> QED BY <1>1, <1>2

\* What a solution says of the whole path is what it resolves to.
LEMMA ResolveIs ==
    ASSUME NEW tree, NEW dir \in Path, NEW at, Solves(at, tree, dir)
    PROVE  Resolve(tree, dir) = at[Len(dir)]
<1> DEFINE found0 == CHOOSE as : Solves(as, tree, dir)
<1>1. Solves(found0, tree, dir)
  OBVIOUS
<1>2. Resolve(tree, dir) = found0[Len(dir)]
  BY DEF Resolve, Solves
<1> HIDE DEF found0
<1>3. found0 = at
  BY <1>1, SolvedOnce
<1> QED BY <1>2, <1>3

\* The root is the directory of the empty path; another path is the entry that its
\* last name has in the directory of its front.
LEMMA ResolveStep ==
    ASSUME NEW tree, NEW dir \in Path
    PROVE  /\ dir = <<>> => Resolve(tree, dir) = Root
           /\ dir /= <<>> => Resolve(tree, dir) = Enter(tree, Resolve(tree, Front(dir)), Last(dir))
<1>1. PICK at : Solves(at, tree, dir)
  BY Solvable
<1>2. Resolve(tree, dir) = at[Len(dir)]
  BY <1>1, ResolveIs
<1>3. at[Len(dir)] = IF Len(dir) = 0 THEN Root ELSE Enter(tree, at[Len(dir) - 1], dir[Len(dir)])
  BY <1>1 DEF Solves, Path
<1>4. CASE dir = <<>>
  BY <1>2, <1>3, <1>4
<1>5. CASE dir /= <<>>
  <2>0. dir \in Seq(Name) /\ Len(dir) \in Nat \ {0}
    BY <1>5 DEF Path
  <2>1. Front(dir) \in Path /\ Len(Front(dir)) = Len(dir) - 1 /\ Last(dir) = dir[Len(dir)]
        /\ \A i \in 1..(Len(dir) - 1) : Front(dir)[i] = dir[i]
    <3>1. Front(dir) \in Path
      BY <2>0, FrontLast DEF Path
    <3>2. Len(Front(dir)) = Len(dir) - 1 /\ \A i \in 1..(Len(dir) - 1) : Front(dir)[i] = dir[i]
      BY <1>5, <2>0, FrontIs
    <3> QED BY <3>1, <3>2 DEF Last
  <2> DEFINE as == [i \in 0..(Len(dir) - 1) |-> at[i]]
  <2>2. \A i \in 0..(Len(dir) - 1) : i \in 0..Len(dir)
    BY <2>0
  <2>3. \A i \in 0..Len(dir) : at[i] = IF i = 0 THEN Root ELSE Enter(tree, at[i - 1], dir[i])
    BY <1>1 DEF Solves
  <2>4. ASSUME NEW i \in 0..(Len(dir) - 1)
        PROVE  as[i] = IF i = 0 THEN Root ELSE Enter(tree, as[i - 1], Front(dir)[i])
    <3>1. CASE i = 0
      BY <2>2, <2>3, <3>1
    <3>2. CASE i /= 0
      <4>1. i - 1 \in 0..(Len(dir) - 1) /\ i \in 1..(Len(dir) - 1)
        BY <2>0, <3>2
      <4> QED BY <2>1, <2>2, <2>3, <3>2, <4>1
    <3> QED BY <3>1, <3>2
  <2>5. as = [i \in 0..(Len(dir) - 1) |-> as[i]] /\ as[Len(dir) - 1] = at[Len(dir) - 1]
    BY <2>0
  <2> HIDE DEF as
  <2>6. Solves(as, tree, Front(dir))
    BY <2>1, <2>4, <2>5 DEF Solves
  <2>7. Resolve(tree, Front(dir)) = at[Len(dir) - 1]
    BY <2>1, <2>5, <2>6, ResolveIs
  <2> QED BY <1>2, <1>3, <1>5, <2>0, <2>1, <2>7
<1> QED BY <1>4, <1>5

\* What is in a directory that can be searched is what its name leads to.
LEMMA EnterIs ==
    ASSUME NEW tree, NEW d \in Dirs \ Unsearchable, NEW n, NEW o \in Objects, tree[o] = <<d, n>>,
           \A o1, o2 \in Objects : tree[o1] = tree[o2] /\ tree[o1] /= Nowhere => o1 = o2
    PROVE  Enter(tree, d, n) = o
<1>1. d \notin {Absent, Failed}
  BY ObjectsAssumption DEF Root, Absent, Failed
<1>2. PICK x \in Objects : tree[x] = <<d, n>> /\ Enter(tree, d, n) = x
  <2> DEFINE P == {y \in Objects : tree[y] = <<d, n>>}
  <2>1. (CHOOSE y \in Objects : tree[y] = <<d, n>>) \in P
    OBVIOUS
  <2> QED BY <1>1, <2>1 DEF Enter
<1>3. <<d, n>> /= Nowhere
  BY DEF Nowhere
<1> QED BY <1>2, <1>3

\* An entry that a lookup finds is in the directory, which can be searched.
LEMMA EnterIsIn ==
    ASSUME NEW tree, NEW d, NEW n, Enter(tree, d, n) \in Objects
    PROVE  /\ d \in Dirs \ Unsearchable
           /\ tree[Enter(tree, d, n)] = <<d, n>>
<1>1. d \in Dirs \ Unsearchable /\ \E o \in Objects : tree[o] = <<d, n>>
  BY ObjectsAssumption DEF Enter, Absent, Failed
<1> DEFINE P == {o \in Objects : tree[o] = <<d, n>>}
<1>2. (CHOOSE o \in Objects : tree[o] = <<d, n>>) \in P
  BY <1>1
<1>3. Enter(tree, d, n) = CHOOSE o \in Objects : tree[o] = <<d, n>>
  BY <1>1, ObjectsAssumption DEF Enter, Absent, Failed
<1> QED BY <1>1, <1>2, <1>3

\* A directory that a lookup finds is an object: only the empty path is the root.
LEMMA EnterDir ==
    ASSUME NEW tree, NEW d, NEW n, Enter(tree, d, n) \in Dirs
    PROVE  Enter(tree, d, n) \in Objects
<1>1. \A o \in Dirs : o \notin {Absent, Failed}
  BY ObjectsAssumption DEF Root, Absent, Failed
<1>2. \E o \in Objects : tree[o] = <<d, n>>
  BY <1>1 DEF Enter
<1> DEFINE P == {o \in Objects : tree[o] = <<d, n>>}
<1>3. (CHOOSE o \in Objects : tree[o] = <<d, n>>) \in P
  BY <1>2
<1> QED BY <1>1, <1>2, <1>3 DEF Enter

-----------------------------------------------------------------------------
(* A rename stays in its directory. *)

\* The two paths of a record that a run can read differ in their last name only.
Beside(r) == Front(r.from) = Front(r.to)
BesideInv ==
    /\ found = "usable" => \A i \in DOMAIN renames : Beside(renames[i])
    /\ \A p \in Procs : \A i \in DOMAIN mem[p] : Beside(mem[p][i])

\* A run that has not started has nothing in hand, and one that has does what it was asked.
PlanInv == \A p \in Procs :
    /\ pc[p] = "start" => cur[p] = <<>> /\ stack[p] = <<>> /\ ~diags[p]
    /\ pc[p] \in {"readdir", "next", "probe", "rename", "stat"} => op[p] = "fix"
    /\ pc[p] \in {"pick", "statfrom", "restore"} => op[p] = "restore"

\* Every object is where it was, but for its name.
SameDirs == \A o \in Objects :
    /\ place[o] = Nowhere <=> Tree[o] = Nowhere
    /\ place[o] /= Nowhere => place[o][1] = Tree[o][1]

\* As long as the user has changed nothing.
CalmInv == changes = 0 => FreeName /\ SameDirs

\* Invalid names are not looked for in a directory that cannot be searched.
Searchable == \A o \in Objects \intersect Dirs : Tree[o] /= Nowhere => Tree[o][1] \notin Unsearchable

\* The steps that neither rename nor touch a record.
LEMMA OtherSteps ==
    ASSUME NEW p \in Procs, Run(p) \/ Kill(p), ~RenameChild(p), ~RestoreName(p)
    PROVE  UNCHANGED place
  BY DEF Run, LoadForFix, LoadForRestore, LoadForIndex, ReadDir, ReadDirFails, NextChild,
         LeaveDir, VisitEnds, ProbeTarget, RenameChildFails, StatChild, SkipRestored, StatTo,
         SourceMissing, StatFrom, Collision, RestoreNameFails, RestoreEnds, Save, SaveFails, Kill

\* Every record is made of a path and its target.
LEMMA BesideStep ==
    ASSUME TypeInv, CursorInv, BesideInv, NEW p \in Procs, Run(p) \/ Kill(p)
    PROVE  BesideInv'
<1> USE DEF file, Beside
<1>m. renames \in Seq(Entry) /\ mem \in [Procs -> Seq(Entry)] /\ mem[p] \in Seq(Entry)
  BY DEF TypeInv
<1>1. CASE LoadForFix(p) \/ LoadForRestore(p) \/ LoadForIndex(p)
  <2>1. PICK l \in Loads : mem' = [mem EXCEPT ![p] = Read(l)]
    BY <1>1 DEF LoadForFix, LoadForRestore, LoadForIndex
  <2>2. UNCHANGED <<found, renames>>
    BY <1>1 DEF LoadForFix, LoadForRestore, LoadForIndex
  <2>3. (Read(l) = renames /\ found = "usable") \/ Read(l) = <<>>
    BY DEF Loads, Read
  <2> QED BY <1>m, <2>1, <2>2, <2>3 DEF BesideInv
<1>2. CASE RenameChild(p)
  <2> DEFINE r == [from |-> cur[p], to |-> target(p), restored |-> FALSE]
  <2>1. cur[p] \in Proper /\ target(p) \in Proper /\ Last(cur[p]) \in Invalid
        /\ cand[p] \in DOMAIN Candidates[Last(cur[p])]
    BY <1>2, TargetType DEF RenameChild
  <2>2. Front(cur[p]) \in Seq(Name) /\ Candidates[Last(cur[p])][cand[p]] \in Name
    BY <2>1, FrontLast, NamesAssumption DEF Proper, Path
  <2>3. Front(target(p)) = Front(cur[p])
    BY <2>2, FrontLastAppend DEF target
  <2>4. r \in Entry /\ Beside(r)
    BY <2>1, <2>3 DEF Entry
  <2>5. mem' = [mem EXCEPT ![p] = Append(mem[p], r)] /\ UNCHANGED <<found, renames>>
    BY <1>2 DEF RenameChild
  <2> HIDE DEF r
  <2>6. \A i \in DOMAIN Append(mem[p], r) :
          Append(mem[p], r)[i] = r \/ (i \in DOMAIN mem[p] /\ Append(mem[p], r)[i] = mem[p][i])
    BY <1>m, <2>4
  <2> QED BY <1>m, <2>4, <2>5, <2>6 DEF BesideInv
<1>3. CASE RestoreName(p)
  <2>1. k[p] \in DOMAIN mem[p]
    BY <1>3, <1>m DEF RestoreName, TypeInv, CursorInv
  <2>2. /\ mem' = [mem EXCEPT ![p] = [mem[p] EXCEPT ![k[p]] = [mem[p][k[p]] EXCEPT !.restored = TRUE]]]
        /\ UNCHANGED <<found, renames>>
    BY <1>3 DEF RestoreName
  <2>3. mem[p][k[p]] \in Entry
    BY <1>m, <2>1
  <2> DEFINE e == [mem[p][k[p]] EXCEPT !.restored = TRUE]
  <2>4. e.from = mem[p][k[p]].from /\ e.to = mem[p][k[p]].to
    BY <2>3 DEF Entry
  <2>5. mem' = [mem EXCEPT ![p] = [mem[p] EXCEPT ![k[p]] = e]]
    BY <2>2
  <2> HIDE DEF e
  <2>6. DOMAIN [mem[p] EXCEPT ![k[p]] = e] = DOMAIN mem[p]
    OBVIOUS
  <2>7. \A i \in DOMAIN mem[p] : [mem[p] EXCEPT ![k[p]] = e][i] = IF i = k[p] THEN e ELSE mem[p][i]
    OBVIOUS
  <2>8. \A i \in DOMAIN mem[p] : Beside([mem[p] EXCEPT ![k[p]] = e][i])
    BY <2>1, <2>4, <2>7 DEF BesideInv
  <2> QED BY <1>m, <2>2, <2>5, <2>6, <2>8 DEF BesideInv
<1>4. CASE Save(p)
  BY <1>4 DEF Save, BesideInv
<1>5. CASE /\ ~LoadForFix(p) /\ ~LoadForRestore(p) /\ ~LoadForIndex(p)
           /\ ~RenameChild(p) /\ ~RestoreName(p) /\ ~Save(p)
  <2>1. UNCHANGED <<found, renames, mem>>
    BY <1>5 DEF Run, ReadDir, ReadDirFails, NextChild, LeaveDir, VisitEnds, ProbeTarget,
         RenameChildFails, StatChild, SkipRestored, StatTo, SourceMissing, StatFrom, Collision,
         RestoreNameFails, RestoreEnds, SaveFails, Kill
  <2> QED BY <2>1 DEF BesideInv
<1> QED BY <1>1, <1>2, <1>3, <1>4, <1>5

\* Each operation has its own part of the program.
LEMMA PlanStep ==
    ASSUME TypeInv, PlanInv, NEW p \in Procs, Run(p) \/ Kill(p)
    PROVE  PlanInv'
<1> USE DEF Goto, Skip, Report
<1>1. op' = op /\ pc'[p] /= "start"
  BY DEF Run, LoadForFix, LoadForRestore, LoadForIndex, ReadDir, ReadDirFails, NextChild,
         LeaveDir, VisitEnds, ProbeTarget, RenameChild, RenameChildFails, StatChild, SkipRestored,
         StatTo, SourceMissing, StatFrom, Collision, RestoreName, RestoreNameFails, RestoreEnds,
         Save, SaveFails, Kill, TypeInv, Label
<1>2. \A q \in Procs : q /= p => /\ pc'[q] = pc[q] /\ cur'[q] = cur[q]
                                 /\ stack'[q] = stack[q] /\ diags'[q] = diags[q]
  BY DEF Run, LoadForFix, LoadForRestore, LoadForIndex, ReadDir, ReadDirFails, NextChild,
         LeaveDir, VisitEnds, ProbeTarget, RenameChild, RenameChildFails, StatChild, SkipRestored,
         StatTo, SourceMissing, StatFrom, Collision, RestoreName, RestoreNameFails, RestoreEnds,
         Save, SaveFails, Kill, TypeInv, Label
<1>3. /\ pc'[p] \in {"readdir", "next", "probe", "rename", "stat"} => op[p] = "fix"
      /\ pc'[p] \in {"pick", "statfrom", "restore"} => op[p] = "restore"
  BY DEF Run, LoadForFix, LoadForRestore, LoadForIndex, ReadDir, ReadDirFails, NextChild,
         LeaveDir, VisitEnds, ProbeTarget, RenameChild, RenameChildFails, StatChild, SkipRestored,
         StatTo, SourceMissing, StatFrom, Collision, RestoreName, RestoreNameFails, RestoreEnds,
         Save, SaveFails, Kill, TypeInv, Label, PlanInv
<1>4. ASSUME NEW q \in Procs
      PROVE  /\ pc'[q] = "start" => cur'[q] = <<>> /\ stack'[q] = <<>> /\ ~diags'[q]
             /\ pc'[q] \in {"readdir", "next", "probe", "rename", "stat"} => op'[q] = "fix"
             /\ pc'[q] \in {"pick", "statfrom", "restore"} => op'[q] = "restore"
  <2>1. CASE q = p
    BY <1>1, <1>3, <2>1
  <2>2. CASE q /= p
    <3>1. pc'[q] = pc[q] /\ cur'[q] = cur[q] /\ stack'[q] = stack[q] /\ diags'[q] = diags[q]
      BY <1>2, <2>2
    <3> QED BY <1>1, <3>1 DEF PlanInv
  <2> QED BY <2>1, <2>2
<1> QED BY <1>4 DEF PlanInv

\* A rename to a free name in the same directory changes one name.
LEMMA MovedBeside ==
    ASSUME NEW from \in Proper, NEW to \in Proper, CanRename(from, to), Lstat(to) = Absent,
           Front(from) = Front(to), TypeInv
    PROVE  /\ Lstat(from) \in Objects
           /\ Resolve(place, Front(to)) \in Dirs \ Unsearchable
           /\ place[Lstat(from)] = <<Resolve(place, Front(to)), Last(from)>>
           /\ Moved(from, to) = [place EXCEPT ![Lstat(from)] = <<Resolve(place, Front(to)), Last(to)>>]
<1>1. Lstat(from) = Enter(place, Resolve(place, Front(to)), Last(from)) /\ Lstat(from) \in Objects
  BY DEF CanRename, Lstat, Proper
<1>2. /\ Resolve(place, Front(to)) \in Dirs \ Unsearchable
      /\ place[Lstat(from)] = <<Resolve(place, Front(to)), Last(from)>>
  BY <1>1, EnterIsIn
<1>3. \A o \in Objects : o /= Lstat(to)
  BY ObjectsAssumption DEF Absent
<1>4. Moved(from, to) = [place EXCEPT ![Lstat(from)] = <<Resolve(place, Front(to)), Last(to)>>]
  BY <1>3 DEF Moved, TypeInv
<1> QED BY <1>1, <1>2, <1>4

\* What a run renames, and a restore renames back.
LEMMA Renaming ==
    ASSUME TypeInv, CursorInv, BesideInv, FreeName, NEW p \in Procs,
           RenameChild(p) \/ RestoreName(p)
    PROVE  \E from, to \in Proper :
             /\ from = IF pc[p] = "rename" THEN cur[p] ELSE mem[p][k[p]].to
             /\ to = IF pc[p] = "rename" THEN target(p) ELSE mem[p][k[p]].from
             /\ CanRename(from, to) /\ Lstat(to) = Absent /\ Front(from) = Front(to)
             /\ place' = Moved(from, to)
<1>1. CASE RenameChild(p)
  <2>1. cur[p] \in Proper /\ target(p) \in Proper /\ Last(cur[p]) \in Invalid
        /\ cand[p] \in DOMAIN Candidates[Last(cur[p])]
    BY <1>1, TargetType DEF RenameChild
  <2>2. Front(cur[p]) \in Seq(Name) /\ Candidates[Last(cur[p])][cand[p]] \in Name
    BY <2>1, FrontLast, NamesAssumption DEF Proper, Path
  <2>3. Front(target(p)) = Front(cur[p])
    BY <2>2, FrontLastAppend DEF target
  <2> QED BY <1>1, <2>1, <2>3 DEF RenameChild, FreeName
<1>2. CASE RestoreName(p)
  <2>1. pc[p] = "restore" /\ k[p] \in DOMAIN mem[p] /\ mem[p][k[p]] \in Entry
    BY <1>2 DEF RestoreName, TypeInv, CursorInv
  <2>2. Front(mem[p][k[p]].from) = Front(mem[p][k[p]].to)
    BY <2>1 DEF BesideInv, Beside
  <2>3. Lstat(mem[p][k[p]].from) = Absent
    BY <2>1 DEF FreeName
  <2> QED BY <1>2, <2>1, <2>2, <2>3 DEF RestoreName, Entry
<1> QED BY <1>1, <1>2

\* Neither changes what is in a directory, but for a name.
LEMMA DirsStep ==
    ASSUME TypeInv, CursorInv, BesideInv, FreeName, SameDirs, NEW p \in Procs, Run(p) \/ Kill(p)
    PROVE  SameDirs'
<1>1. CASE RenameChild(p) \/ RestoreName(p)
  <2>1. PICK from \in Proper, to \in Proper :
               CanRename(from, to) /\ Lstat(to) = Absent /\ Front(from) = Front(to)
               /\ place' = Moved(from, to)
    BY <1>1, Renaming
  <2> DEFINE o == Lstat(from)
             d == Resolve(place, Front(to))
  <2>2. /\ o \in Objects /\ place[o] = <<d, Last(from)>>
        /\ place' = [place EXCEPT ![o] = <<d, Last(to)>>]
    BY <2>1, MovedBeside
  <2> HIDE DEF o, d
  <2>3. \A x \in Objects : place'[x] = IF x = o THEN <<d, Last(to)>> ELSE place[x]
    BY <2>2 DEF TypeInv
  <2>4. <<d, Last(to)>> /= Nowhere /\ <<d, Last(from)>> /= Nowhere
    BY DEF Nowhere
  <2> QED BY <2>2, <2>3, <2>4 DEF SameDirs
<1>2. CASE ~(RenameChild(p) \/ RestoreName(p))
  BY <1>2, OtherSteps DEF SameDirs
<1> QED BY <1>1, <1>2

\* What is known of every run, whoever changes the tree.
TidyInv == BaseInv /\ OneAtATime /\ BesideInv /\ PlanInv /\ CalmInv

\* It holds at the start.
LEMMA TidyInit == Init => TidyInv
<1>1. Init => OneAtATime /\ BesideInv /\ PlanInv /\ FreeName /\ SameDirs
  BY DEF Init, OneAtATime, BesideInv, PlanInv, FreeName, SameDirs
<1> QED BY <1>1, BaseInit DEF TidyInv, CalmInv

\* A step of the user is counted.
LEMMA UserCounts ==
    ASSUME TypeInv, User
    PROVE  changes' /= 0 /\ UNCHANGED <<file, tool>>
  BY DEF User, Create, Delete, TypeInv

\* Every step keeps it.
LEMMA TidyStep == Concurrent = FALSE /\ TidyInv /\ [Next]_vars => TidyInv'
<1> SUFFICES ASSUME Concurrent = FALSE, TidyInv, [Next]_vars PROVE TidyInv'
  OBVIOUS
<1>0. BaseInv'
  BY BaseStep DEF TidyInv
<1>1. ASSUME NEW p \in Procs, Run(p) \/ Kill(p) PROVE TidyInv'
  <2>1. OneAtATime' /\ BesideInv' /\ PlanInv' /\ FreeName'
    BY <1>1, OrderStep, BesideStep, PlanStep, FreeStep DEF TidyInv, BaseInv
  <2>2. changes' = changes
    BY <1>1 DEF Run, LoadForFix, LoadForRestore, LoadForIndex, ReadDir, ReadDirFails, NextChild,
         LeaveDir, VisitEnds, ProbeTarget, RenameChild, RenameChildFails, StatChild, SkipRestored,
         StatTo, SourceMissing, StatFrom, Collision, RestoreName, RestoreNameFails, RestoreEnds,
         Save, SaveFails, Kill, user
  <2>3. changes = 0 => SameDirs'
    BY <1>1, DirsStep DEF TidyInv, BaseInv, CalmInv
  <2> QED BY <1>0, <2>1, <2>2, <2>3 DEF TidyInv, CalmInv
<1>2. CASE User
  <2>1. changes' /= 0 /\ UNCHANGED <<found, renames, mem, pc, op, cur, stack, diags>>
    BY <1>2, UserCounts DEF TidyInv, BaseInv, file, tool
  <2> QED BY <1>0, <2>1 DEF TidyInv, OneAtATime, Ended, BesideInv, PlanInv, CalmInv
<1>3. CASE UNCHANGED vars
  <2>1. UNCHANGED <<place, found, renames, mem, pc, op, cur, cand, k, stack, diags, changes>>
    BY <1>3 DEF vars, tool, file, user
  <2>2. \A p \in Procs : Lstat(target(p))' = Lstat(target(p)) /\ Lstat(mem[p][k[p]].from)' = Lstat(mem[p][k[p]].from)
    BY <2>1 DEF Lstat, target
  <2>3. FreeName => FreeName'
    BY <2>1, <2>2 DEF FreeName
  <2> QED BY <1>0, <2>1, <2>3 DEF TidyInv, OneAtATime, Ended, BesideInv, PlanInv, CalmInv, SameDirs
<1> QED BY <1>1, <1>2, <1>3 DEF Next, Finished

\* When runs do not overlap, a run moves no object to another directory, as long as the
\* user changes nothing.
THEOREM RenamesStayInTheirDirectory == Concurrent = FALSE => (Spec => [](changes = 0 => SameDirs))
<1> SUFFICES ASSUME Concurrent = FALSE PROVE Spec => [](changes = 0 => SameDirs)
  OBVIOUS
<1>1. TidyInv => (changes = 0 => SameDirs)
  BY DEF TidyInv, CalmInv
<1> QED BY <1>1, TidyInit, TidyStep, PTL DEF Spec

-----------------------------------------------------------------------------
(* The walk of --fix-names. *)

Dir(p, i) == Resolve(place, stack[p][i].dir)

\* The calls of visit in progress are those of a directory, one in it, and so on, and
\* the path that is worked on is in the last.
Chain(p) ==
    /\ \A i \in DOMAIN stack[p] :
         /\ Dir(p, i) \in Dirs
         /\ stack[p][i].dir = <<>> <=> i = 1
         /\ i > 1 => Front(stack[p][i].dir) = stack[p][i - 1].dir
    /\ pc[p] \in {"probe", "rename", "stat"} => stack[p] /= <<>>
    /\ pc[p] \in {"readdir", "probe", "rename", "stat"} =>
         IF stack[p] = <<>> THEN cur[p] = <<>>
         ELSE cur[p] /= <<>> /\ Front(cur[p]) = stack[p][Len(stack[p])].dir

\* An object of a listed directory is done with, is still to come, or is being worked on.
Clean(o, D) == place[o][2] \notin Invalid /\ (o \in Dirs => o \in D)
Left(p, o) == \E i \in DOMAIN stack[p] : place[o][1] = Dir(p, i) /\ place[o][2] \in stack[p][i].left
AtCur(p, o) ==
    /\ cur[p] /= <<>> /\ place[o] = <<Resolve(place, Front(cur[p])), Last(cur[p])>>
    /\ \/ pc[p] \in {"probe", "rename"}
       \/ pc[p] \in {"stat", "readdir"} /\ place[o][2] \notin Invalid

\* D is what has been listed.
Swept(p, D) == Searchable =>
    /\ Root \in D \/ (pc[p] = "readdir" /\ stack[p] = <<>>)
    /\ \A o \in Objects : place[o] /= Nowhere /\ place[o][1] \in D =>
         Clean(o, D) \/ Left(p, o) \/ AtCur(p, o)

WalkOK(p) ==
    op[p] = "fix" /\ pc[p] \in {"readdir", "next", "probe", "rename", "stat"} /\ ~diags[p]
    => Chain(p) /\ \E D \in SUBSET Dirs : Swept(p, D)

NoInvalidName == \A o \in Objects : place[o] /= Nowhere => place[o][2] \notin Invalid

CleanOK(p) ==
    Searchable /\ op[p] = "fix" /\ pc[p] \in {"save", "ok"} /\ ~diags[p] /\ (\A q \in Procs : q > p => pc[q] = "start")
    => NoInvalidName

SweepInv == changes = 0 => \A p \in Procs : WalkOK(p) /\ CleanOK(p)

\* Lstat of a path is what it resolves to.
LEMMA LstatIs ==
    ASSUME NEW path \in Path
    PROVE  Lstat(path) = Resolve(place, path)
  BY ResolveStep DEF Lstat

\* The directory of a call of visit is in that of the call that made it.
LEMMA FrameIs ==
    ASSUME TypeInv, NEW p \in Procs, Chain(p), NEW i \in DOMAIN stack[p], i > 1
    PROVE  /\ Dir(p, i) \in Objects /\ i - 1 \in DOMAIN stack[p]
           /\ Dir(p, i - 1) \in Dirs \ Unsearchable
           /\ stack[p][i].dir \in Proper /\ Front(stack[p][i].dir) = stack[p][i - 1].dir
           /\ place[Dir(p, i)] = <<Dir(p, i - 1), Last(stack[p][i].dir)>>
<1>1. stack[p] \in Seq(Frame) /\ stack[p][i] \in Frame /\ i \in Nat /\ i - 1 \in DOMAIN stack[p]
  BY DEF TypeInv
<1>2. /\ Dir(p, i) \in Dirs /\ Dir(p, i - 1) \in Dirs /\ stack[p][i].dir /= <<>>
      /\ Front(stack[p][i].dir) = stack[p][i - 1].dir
  <2>1. \A j \in DOMAIN stack[p] :
          /\ Dir(p, j) \in Dirs
          /\ stack[p][j].dir = <<>> <=> j = 1
          /\ j > 1 => Front(stack[p][j].dir) = stack[p][j - 1].dir
    BY DEF Chain
  <2>2. Dir(p, i) \in Dirs /\ Dir(p, i - 1) \in Dirs
    BY <1>1, <2>1
  <2>3. i /= 1
    BY <1>1
  <2>4. stack[p][i].dir /= <<>> /\ Front(stack[p][i].dir) = stack[p][i - 1].dir
    BY <2>1, <2>3
  <2> QED BY <2>2, <2>4
<1>3. stack[p][i].dir \in Proper
  BY <1>1, <1>2 DEF Frame, Proper
<1>4. Dir(p, i) = Enter(place, Dir(p, i - 1), Last(stack[p][i].dir))
  BY <1>2, <1>3, ResolveStep DEF Dir, Proper
<1>5. Dir(p, i) \in Objects
  BY <1>2, <1>4, EnterDir
<1> QED BY <1>1, <1>2, <1>3, <1>4, <1>5, EnterIsIn

\* No directory is below itself.
LEMMA PlaceRooted ==
    ASSUME SameDirs, NEW S \in SUBSET Objects, S /= {}
    PROVE  \E o \in S : place[o] = Nowhere \/ place[o][1] \notin S
<1>1. PICK o \in S : Tree[o] = Nowhere \/ Tree[o][1] \notin S
  BY TreeAssumption
<1> QED BY <1>1 DEF SameDirs

\* What is in the directory being visited is none of those that lead to it.
LEMMA NotAFrame ==
    ASSUME TypeInv, SameDirs, NEW p \in Procs, Chain(p), NEW o \in Objects, place[o] /= Nowhere,
           stack[p] /= <<>>, place[o][1] = Dir(p, Len(stack[p])), NEW j \in DOMAIN stack[p], j > 1
    PROVE  o /= Dir(p, j)
<1>1. SUFFICES ASSUME o = Dir(p, j) PROVE FALSE
  OBVIOUS
<1> DEFINE n == Len(stack[p])
           S == {Dir(p, i) : i \in j..n}
<1>2. n \in Nat /\ j \in 2..n /\ DOMAIN stack[p] = 1..n
  BY DEF TypeInv
<1>3. \A i \in j..n : i \in DOMAIN stack[p] /\ i > 1
  BY <1>2
<1>4. S \in SUBSET Objects /\ o \in S
  <2>1. \A i \in j..n : Dir(p, i) \in Objects
    BY <1>3, FrameIs
  <2>2. j \in j..n
    BY <1>2
  <2> QED BY <1>1, <2>1, <2>2
<1>5. PICK x \in S : place[x] = Nowhere \/ place[x][1] \notin S
  BY <1>4, PlaceRooted
<1>6. PICK i \in j..n : x = Dir(p, i)
  BY <1>5
<1>7. place[x] = <<Dir(p, i - 1), Last(stack[p][i].dir)>>
  BY <1>3, <1>6, FrameIs
<1>8. place[x] /= Nowhere /\ place[x][1] = Dir(p, i - 1)
  BY <1>7 DEF Nowhere
<1>9. CASE i = j
  <2>1. n \in j..n
    BY <1>2
  <2>2. place[x][1] \in S
    BY <1>1, <1>6, <1>9, <2>1
  <2> QED BY <1>5, <1>8, <2>2
<1>10. CASE i /= j
  <2>1. i - 1 \in j..n
    BY <1>2, <1>6, <1>10
  <2>2. Dir(p, i - 1) \in S
    BY <2>1
  <2> QED BY <1>5, <1>8, <2>2
<1> QED BY <1>9, <1>10

\* So a rename in it changes none of the paths that lead to it.
LEMMA FramesStay ==
    ASSUME TypeInv, OnePlace', SameDirs, NEW p \in Procs, Chain(p), stack[p] /= <<>>,
           NEW o \in Objects, place[o] /= Nowhere, place[o][1] = Dir(p, Len(stack[p])),
           \A x \in Objects : x /= o => place'[x] = place[x]
    PROVE  \A i \in DOMAIN stack[p] : Resolve(place', stack[p][i].dir) = Dir(p, i)
<1> DEFINE T == {i \in DOMAIN stack[p] : Resolve(place', stack[p][i].dir) /= Dir(p, i)}
<1>1. SUFFICES ASSUME T /= {} PROVE FALSE
  OBVIOUS
<1>2. T \subseteq Nat
  BY DEF TypeInv
<1>3. PICK i \in T : \A j \in T : i <= j
  BY <1>1, <1>2, Smallest
<1>4. /\ i \in DOMAIN stack[p] /\ i \in Nat /\ i >= 1 /\ Resolve(place', stack[p][i].dir) /= Dir(p, i)
      /\ stack[p][i] \in Frame
  BY <1>3 DEF TypeInv
<1>5. stack[p][i].dir \in Path
  BY <1>4 DEF Frame
<1>6. CASE i = 1
  <2>1. stack[p][i].dir = <<>>
    BY <1>4, <1>6 DEF Chain
  <2>2. Resolve(place', stack[p][i].dir) = Root /\ Resolve(place, stack[p][i].dir) = Root
    BY <1>5, <2>1, ResolveStep
  <2> QED BY <1>4, <2>2 DEF Dir
<1>7. CASE i > 1
  <2> DEFINE d == Dir(p, i - 1)
             m == Last(stack[p][i].dir)
             x == Dir(p, i)
  <2>1. /\ x \in Objects /\ i - 1 \in DOMAIN stack[p] /\ d \in Dirs \ Unsearchable
        /\ stack[p][i].dir \in Proper /\ Front(stack[p][i].dir) = stack[p][i - 1].dir
        /\ place[x] = <<d, m>>
    BY <1>4, <1>7, FrameIs
  <2>2. o /= x
    BY <1>4, <1>7, NotAFrame
  <2>3. place'[x] = <<d, m>>
    BY <2>1, <2>2
  <2>4. Resolve(place', stack[p][i - 1].dir) = d
    <3>1. ~(i <= i - 1)
      BY <1>4
    <3> QED BY <1>3, <2>1, <3>1
  <2>5. Resolve(place', stack[p][i].dir) = Enter(place', d, m)
    BY <2>1, <2>4, ResolveStep DEF Proper
  <2>6. \A o1, o2 \in Objects : place'[o1] = place'[o2] /\ place'[o1] /= Nowhere => o1 = o2
    BY DEF OnePlace
  <2> HIDE DEF d, m, x
  <2>7. Enter(place', d, m) = x
    <3>1. PICK t : t = place'
      OBVIOUS
    <3>2. t[x] = <<d, m>> /\ \A o1, o2 \in Objects : t[o1] = t[o2] /\ t[o1] /= Nowhere => o1 = o2
      BY <2>3, <2>6, <3>1
    <3>3. Enter(t, d, m) = x
      BY <2>1, <3>2, EnterIs
    <3> QED BY <3>1, <3>3
  <2> QED BY <1>4, <2>5, <2>7 DEF x
<1> QED BY <1>4, <1>6, <1>7

\* visit begins at the root, with nothing listed yet.
LEMMA LoadWalk ==
    ASSUME TypeInv, PlanInv, NEW p \in Procs, LoadForFix(p)
    PROVE  WalkOK(p)'
<1>1. /\ pc'[p] \in {"readdir", "error"} /\ stack'[p] = <<>> /\ cur'[p] = <<>>
  BY DEF LoadForFix, Goto, TypeInv, PlanInv
<1>2. pc'[p] = "readdir" => Chain(p)'
  BY <1>1 DEF Chain
<1>3. pc'[p] = "readdir" => {} \in SUBSET Dirs /\ Swept(p, {})'
  BY <1>1 DEF Swept
<1> QED BY <1>1, <1>2, <1>3 DEF WalkOK

\* What a path with a valid name leads to can be listed, if it is a directory.
LEMMA AtCurDir ==
    ASSUME TypeInv, OnePlace, SameDirs, Searchable, NEW p \in Procs, NEW o \in Objects \intersect Dirs,
           AtCur(p, o), Resolve(place, Front(cur[p])) \in Dirs
    PROVE  Lstat(cur[p]) = o
<1> DEFINE d == Resolve(place, Front(cur[p]))
           n == Last(cur[p])
<1>1. place[o] = <<d, n>> /\ Lstat(cur[p]) = Enter(place, d, n)
  BY DEF AtCur, Lstat
<1>2. place[o] /= Nowhere /\ place[o][1] = d
  BY <1>1 DEF Nowhere
<1>3. d \in Dirs \ Unsearchable
  BY <1>2 DEF SameDirs, Searchable
<1>4. Enter(place, d, n) = o
  BY <1>1, <1>3, EnterIs DEF OnePlace
<1> QED BY <1>1, <1>4

\* The path that is worked on is in the last of the directories.
LEMMA CurIsIn ==
    ASSUME TypeInv, NEW p \in Procs, Chain(p), pc[p] \in {"readdir", "probe", "rename", "stat"},
           cur[p] /= <<>>
    PROVE  /\ stack[p] /= <<>> /\ Len(stack[p]) \in DOMAIN stack[p]
           /\ Front(cur[p]) = stack[p][Len(stack[p])].dir
           /\ Resolve(place, Front(cur[p])) = Dir(p, Len(stack[p]))
           /\ Dir(p, Len(stack[p])) \in Dirs
<1>1. stack[p] /= <<>> /\ Front(cur[p]) = stack[p][Len(stack[p])].dir
  BY DEF Chain
<1>2. stack[p] \in Seq(Frame) /\ Len(stack[p]) \in DOMAIN stack[p]
  BY <1>1 DEF TypeInv
<1> QED BY <1>1, <1>2 DEF Chain, Dir

\* A directory that is listed has all its names to come.
LEMMA ReadDirWalk ==
    ASSUME TypeInv, OnePlace, SameDirs, NEW p \in Procs, WalkOK(p), ReadDir(p)
    PROVE  WalkOK(p)'
<1> SUFFICES ASSUME op'[p] = "fix", ~diags'[p] PROVE Chain(p)' /\ \E D \in SUBSET Dirs : Swept(p, D)'
  BY DEF WalkOK
<1>0. PICK L, d : L = Len(stack[p]) /\ d = Lstat(cur[p])
  OBVIOUS
<1> DEFINE f == [dir |-> cur[p], left |-> Children(d)]
<1>1. /\ op[p] = "fix" /\ ~diags[p] /\ pc[p] = "readdir" /\ d \in Dirs
      /\ stack'[p] = Append(stack[p], f) /\ pc'[p] = "next" /\ place' = place
  BY <1>0 DEF ReadDir, Goto, file, TypeInv
<1>2. Chain(p)
  BY <1>1 DEF WalkOK
<1>3. PICK D \in SUBSET Dirs : Swept(p, D)
  BY <1>1 DEF WalkOK
<1>4. /\ L \in Nat /\ DOMAIN stack[p] = 1..L /\ DOMAIN stack'[p] = 1..(L + 1) /\ stack'[p][L + 1] = f
      /\ \A i \in 1..L : stack'[p][i] = stack[p][i]
  BY <1>0, <1>1 DEF TypeInv
<1>5. \A i \in 1..L : Dir(p, i)' = Dir(p, i)
  BY <1>1, <1>4 DEF Dir
<1>6. Dir(p, L + 1)' = d
  <2>1. cur[p] \in Path
    BY DEF TypeInv
  <2>2. Resolve(place, cur[p]) = d
    BY <1>0, <2>1, LstatIs
  <2> QED BY <1>1, <1>4, <2>2 DEF Dir
<1>c. /\ \A i \in 1..L : /\ Dir(p, i) \in Dirs
                         /\ stack[p][i].dir = <<>> <=> i = 1
                         /\ i > 1 => Front(stack[p][i].dir) = stack[p][i - 1].dir
      /\ IF L = 0 THEN cur[p] = <<>> ELSE cur[p] /= <<>> /\ Front(cur[p]) = stack[p][L].dir
  <2>1. stack[p] = <<>> <=> L = 0
    BY <1>0 DEF TypeInv
  <2> QED BY <1>0, <1>1, <1>2, <1>4, <2>1 DEF Chain
<1>7. Chain(p)'
  <2>1. ASSUME NEW i \in 1..(L + 1)
        PROVE  /\ Dir(p, i)' \in Dirs
               /\ stack'[p][i].dir = <<>> <=> i = 1
               /\ i > 1 => Front(stack'[p][i].dir) = stack'[p][i - 1].dir
    <3>1. CASE i \in 1..L
      <4>1. i > 1 => i - 1 \in 1..L
        BY <1>4, <3>1
      <4>2. stack'[p][i] = stack[p][i] /\ (i > 1 => stack'[p][i - 1] = stack[p][i - 1])
        BY <1>4, <3>1, <4>1
      <4> QED BY <1>5, <1>c, <3>1, <4>2
    <3>2. CASE i = L + 1
      <4>1. stack'[p][i].dir = cur[p]
        BY <1>4, <3>2
      <4>2. i > 1 => L \in 1..L /\ i - 1 = L /\ L /= 0
        BY <1>4, <3>2
      <4>3. cur[p] = <<>> <=> i = 1
        BY <1>4, <1>c, <3>2
      <4>4. i > 1 => Front(cur[p]) = stack'[p][i - 1].dir
        BY <1>4, <1>c, <4>2
      <4> QED BY <1>1, <1>6, <3>2, <4>1, <4>3, <4>4
    <3> QED BY <1>4, <3>1, <3>2
  <2> QED BY <1>1, <1>4, <2>1 DEF Chain
<1>8. D \union {d} \in SUBSET Dirs
  BY <1>1
<1>9. Searchable => Root \in D \union {d}
  <2>1. CASE stack[p] = <<>>
    <3>1. cur[p] = <<>>
      BY <1>1, <1>2, <2>1 DEF Chain
    <3> QED BY <1>0, <3>1 DEF Lstat
  <2>2. CASE stack[p] /= <<>>
    BY <1>3, <2>2 DEF Swept
  <2> QED BY <2>1, <2>2
<1>10. ASSUME Searchable, NEW o \in Objects, place[o] /= Nowhere, place[o][1] \in D \union {d}
       PROVE  Clean(o, D \union {d})' \/ Left(p, o)'
  <2>1. CASE place[o][1] = d
    <3>1. place[o] = <<d, place[o][2]>> /\ place[o][2] \in Name
      BY <1>10, <2>1 DEF TypeInv, Places
    <3>2. place[o][2] \in Children(d)
      BY <3>1 DEF Children
    <3>3. L + 1 \in DOMAIN stack'[p] /\ place[o][2] \in stack'[p][L + 1].left
      BY <1>4, <3>2
    <3> QED BY <1>1, <1>6, <2>1, <3>3 DEF Left
  <2>2. CASE place[o][1] \in D
    <3>1. CASE Clean(o, D)
      BY <1>1, <3>1 DEF Clean
    <3>2. CASE Left(p, o)
      <4>1. PICK i \in 1..L : place[o][1] = Dir(p, i) /\ place[o][2] \in stack[p][i].left
        BY <1>4, <3>2 DEF Left
      <4>2. i \in DOMAIN stack'[p] /\ stack'[p][i] = stack[p][i] /\ Dir(p, i)' = Dir(p, i)
        BY <1>4, <1>5
      <4> QED BY <1>1, <4>1, <4>2 DEF Left
    <3>3. CASE AtCur(p, o)
      <4>1. place[o][2] \notin Invalid /\ cur[p] /= <<>>
        BY <1>1, <3>3 DEF AtCur
      <4>2. Resolve(place, Front(cur[p])) \in Dirs
        BY <1>1, <1>2, <4>1, CurIsIn
      <4>3. o \in Dirs => o = d
        BY <1>0, <1>10, <3>3, <4>2, AtCurDir
      <4> QED BY <1>1, <4>1, <4>3 DEF Clean
    <3> QED BY <1>3, <1>10, <2>2, <3>1, <3>2, <3>3 DEF Swept
  <2> QED BY <1>10, <2>1, <2>2
<1>11. Swept(p, D \union {d})'
  BY <1>1, <1>9, <1>10 DEF Swept
<1> QED BY <1>7, <1>8, <1>11

\* The next name of a directory is that of the object worked on.
LEMMA NextWalk ==
    ASSUME TypeInv, NEW p \in Procs, WalkOK(p), NextChild(p)
    PROVE  WalkOK(p)'
<1> SUFFICES ASSUME op'[p] = "fix", ~diags'[p] PROVE Chain(p)' /\ \E D \in SUBSET Dirs : Swept(p, D)'
  BY DEF WalkOK
<1> DEFINE L == Len(stack[p])
           f == stack[p][L]
           n == First(f.left)
           g == [f EXCEPT !.left = f.left \ {n}]
<1>1. /\ op[p] = "fix" /\ ~diags[p] /\ pc[p] = "next" /\ place' = place
      /\ stack[p] /= <<>> /\ f.left /= {}
      /\ stack'[p] = Append(Front(stack[p]), g) /\ cur'[p] = Append(f.dir, n)
      /\ pc'[p] = IF n \in Invalid THEN "probe" ELSE "stat"
  BY DEF NextChild, Goto, file, TypeInv, Last
<1>2. Chain(p)
  BY <1>1 DEF WalkOK
<1>3. PICK D \in SUBSET Dirs : Swept(p, D)
  BY <1>1 DEF WalkOK
<1>4. /\ L \in Nat \ {0} /\ DOMAIN stack[p] = 1..L /\ stack[p] \in Seq(Frame)
      /\ Front(stack[p]) \in Seq(Frame) /\ Len(Front(stack[p])) = L - 1
      /\ \A i \in 1..(L - 1) : Front(stack[p])[i] = stack[p][i]
  BY <1>1, FrontIs DEF TypeInv
<1>5. f \in Frame /\ f.dir \in Seq(Name) /\ f.left \in SUBSET Name
  <2>1. f \in Frame
    BY <1>4
  <2> QED BY <2>1 DEF Frame, Path
<1>6. n \in f.left /\ n \in Name
  BY <1>1, <1>5, FirstIsOne
<1>7. g.dir = f.dir /\ g.left = f.left \ {n} /\ g \in Frame
  BY <1>5 DEF Frame
<1>8. Append(f.dir, n) /= <<>> /\ Front(Append(f.dir, n)) = f.dir /\ Last(Append(f.dir, n)) = n
  BY <1>5, <1>6, FrontLastAppend
<1> HIDE DEF f, n, g
<1>9. /\ DOMAIN stack'[p] = 1..L /\ stack'[p][L] = g /\ Len(stack'[p]) = L /\ stack'[p] /= <<>>
      /\ \A i \in 1..(L - 1) : stack'[p][i] = stack[p][i]
  BY <1>1, <1>4, <1>7
<1>10. \A i \in 1..L : stack'[p][i].dir = stack[p][i].dir
  <2>1. \A i \in 1..L : i = L \/ i \in 1..(L - 1)
    BY <1>4
  <2> QED BY <1>7, <1>9, <2>1 DEF f
<1>11. \A i \in 1..L : Dir(p, i)' = Dir(p, i)
  BY <1>1, <1>10 DEF Dir
<1>12. Chain(p)'
  <2>1. \A i \in 1..L : /\ Dir(p, i) \in Dirs
                        /\ stack[p][i].dir = <<>> <=> i = 1
                        /\ i > 1 => Front(stack[p][i].dir) = stack[p][i - 1].dir
    BY <1>2, <1>4 DEF Chain
  <2>2. \A i \in 1..L : i > 1 => i - 1 \in 1..L
    BY <1>4
  <2>3. \A i \in 1..L : /\ Dir(p, i)' \in Dirs
                        /\ stack'[p][i].dir = <<>> <=> i = 1
                        /\ i > 1 => Front(stack'[p][i].dir) = stack'[p][i - 1].dir
    BY <1>10, <1>11, <2>1, <2>2
  <2>4. cur'[p] /= <<>> /\ Front(cur'[p]) = stack'[p][L].dir
    BY <1>1, <1>7, <1>8, <1>9
  <2> QED BY <1>9, <2>3, <2>4 DEF Chain
<1>13. ASSUME Searchable, NEW o \in Objects, place[o] /= Nowhere, place[o][1] \in D
       PROVE  Clean(o, D)' \/ Left(p, o)' \/ AtCur(p, o)'
  <2>1. CASE Clean(o, D)
    BY <1>1, <2>1 DEF Clean
  <2>2. CASE Left(p, o)
    <3>1. PICK i \in 1..L : place[o][1] = Dir(p, i) /\ place[o][2] \in stack[p][i].left
      BY <1>4, <2>2 DEF Left
    <3>2. CASE i = L /\ place[o][2] = n
      <4>1. place[o] = <<Dir(p, L), n>>
        BY <1>13, <3>1, <3>2 DEF TypeInv, Places
      <4>2. Resolve(place', Front(cur'[p])) = Dir(p, L)
        BY <1>1, <1>8 DEF Dir, f
      <4>3. place'[o] = <<Resolve(place', Front(cur'[p])), Last(cur'[p])>> /\ cur'[p] /= <<>>
        BY <1>1, <1>8, <4>1, <4>2
      <4> QED BY <1>1, <3>2, <4>3 DEF AtCur
    <3>3. CASE ~(i = L /\ place[o][2] = n)
      <4>1. place[o][2] \in stack'[p][i].left
        <5>1. CASE i = L
          BY <1>7, <1>9, <3>1, <3>3, <5>1 DEF f
        <5>2. CASE i /= L
          <6>1. i \in 1..(L - 1)
            BY <1>4, <5>2
          <6> QED BY <1>9, <3>1, <6>1
        <5> QED BY <5>1, <5>2
      <4> QED BY <1>1, <1>9, <1>11, <3>1, <4>1 DEF Left
    <3> QED BY <3>2, <3>3
  <2>3. ~AtCur(p, o)
    BY <1>1 DEF AtCur
  <2> QED BY <1>3, <1>13, <2>1, <2>2, <2>3 DEF Swept
<1>14. Searchable => Root \in D
  BY <1>1, <1>3 DEF Swept
<1>15. Swept(p, D)'
  BY <1>1, <1>13, <1>14 DEF Swept
<1> QED BY <1>12, <1>15

\* A directory is left when none of its names is to come.
LEMMA LeaveWalk ==
    ASSUME TypeInv, NEW p \in Procs, WalkOK(p), LeaveDir(p)
    PROVE  WalkOK(p)'
<1> SUFFICES ASSUME op'[p] = "fix", ~diags'[p] PROVE Chain(p)' /\ \E D \in SUBSET Dirs : Swept(p, D)'
  BY DEF WalkOK
<1>0. PICK L : L = Len(stack[p])
  OBVIOUS
<1>1. /\ op[p] = "fix" /\ ~diags[p] /\ pc[p] = "next" /\ pc'[p] = "next" /\ place' = place
      /\ stack[p] /= <<>> /\ stack[p][L].left = {} /\ stack'[p] = Front(stack[p])
  BY <1>0 DEF LeaveDir, file, TypeInv, Last
<1>2. Chain(p)
  BY <1>1 DEF WalkOK
<1>3. PICK D \in SUBSET Dirs : Swept(p, D)
  BY <1>1 DEF WalkOK
<1>4. /\ L \in Nat \ {0} /\ DOMAIN stack[p] = 1..L /\ stack[p] \in Seq(Frame)
      /\ DOMAIN stack'[p] = 1..(L - 1) /\ \A i \in 1..(L - 1) : stack'[p][i] = stack[p][i]
  BY <1>0, <1>1, FrontIs DEF TypeInv
<1>5. \A i \in 1..(L - 1) : Dir(p, i)' = Dir(p, i)
  BY <1>1, <1>4 DEF Dir
<1>6. Chain(p)'
  <2>1. \A i \in 1..L : /\ Dir(p, i) \in Dirs
                        /\ stack[p][i].dir = <<>> <=> i = 1
                        /\ i > 1 => Front(stack[p][i].dir) = stack[p][i - 1].dir
    BY <1>2, <1>4 DEF Chain
  <2>2. \A i \in 1..(L - 1) : i \in 1..L /\ (i > 1 => i - 1 \in 1..(L - 1))
    BY <1>4
  <2>3. ASSUME NEW i \in DOMAIN stack'[p]
        PROVE  /\ Dir(p, i)' \in Dirs
               /\ stack'[p][i].dir = <<>> <=> i = 1
               /\ i > 1 => Front(stack'[p][i].dir) = stack'[p][i - 1].dir
    <3>1. i \in 1..(L - 1) /\ i \in 1..L /\ (i > 1 => i - 1 \in 1..(L - 1))
      BY <1>4, <2>2
    <3>2. stack'[p][i] = stack[p][i] /\ (i > 1 => stack'[p][i - 1] = stack[p][i - 1])
      BY <1>4, <3>1
    <3>3. Dir(p, i)' = Dir(p, i)
      BY <1>5, <3>1
    <3>4. /\ Dir(p, i) \in Dirs
          /\ stack[p][i].dir = <<>> <=> i = 1
          /\ i > 1 => Front(stack[p][i].dir) = stack[p][i - 1].dir
      BY <2>1, <3>1
    <3> QED BY <3>2, <3>3, <3>4
  <2>4. pc'[p] = "next"
    BY <1>1
  <2> QED BY <2>3, <2>4 DEF Chain
<1>7. ASSUME Searchable, NEW o \in Objects, place[o] /= Nowhere, place[o][1] \in D
      PROVE  Clean(o, D)' \/ Left(p, o)'
  <2>1. CASE Clean(o, D)
    BY <1>1, <2>1 DEF Clean
  <2>2. CASE Left(p, o)
    <3>1. PICK i \in 1..L : place[o][1] = Dir(p, i) /\ place[o][2] \in stack[p][i].left
      BY <1>4, <2>2 DEF Left
    <3>2. i \in 1..(L - 1)
      BY <1>1, <1>4, <3>1
    <3> QED BY <1>1, <1>4, <1>5, <3>1, <3>2 DEF Left
  <2>3. ~AtCur(p, o)
    BY <1>1 DEF AtCur
  <2> QED BY <1>3, <1>7, <2>1, <2>2, <2>3 DEF Swept
<1>8. Swept(p, D)'
  BY <1>1, <1>3, <1>7 DEF Swept
<1> QED BY <1>6, <1>8

\* Looking for a free name changes nothing.
LEMMA ProbeWalk ==
    ASSUME TypeInv, NEW p \in Procs, WalkOK(p), ProbeTarget(p)
    PROVE  WalkOK(p)'
<1>1. /\ pc[p] = "probe" /\ pc'[p] \in {"probe", "rename"}
      /\ UNCHANGED <<place, op, diags, stack, cur>>
  BY DEF ProbeTarget, Goto, TypeInv
<1>2. Chain(p) => Chain(p)'
  BY <1>1 DEF Chain, Dir
<1>3. ASSUME NEW D \in SUBSET Dirs, Swept(p, D) PROVE Swept(p, D)'
  <2>1. \A o \in Objects : /\ Clean(o, D) => Clean(o, D)'
                           /\ Left(p, o) => Left(p, o)'
                           /\ AtCur(p, o) => AtCur(p, o)'
    BY <1>1 DEF Clean, Left, AtCur, Dir
  <2> QED BY <1>1, <1>3, <2>1 DEF Swept
<1> QED BY <1>1, <1>2, <1>3 DEF WalkOK

\* What has a valid name and is no directory is done with; a directory is listed next.
LEMMA StatWalk ==
    ASSUME TypeInv, OnePlace, SameDirs, NEW p \in Procs, WalkOK(p), StatChild(p)
    PROVE  WalkOK(p)'
<1> SUFFICES ASSUME op'[p] = "fix", ~diags'[p] PROVE Chain(p)' /\ \E D \in SUBSET Dirs : Swept(p, D)'
  BY DEF WalkOK
<1>1. /\ pc[p] = "stat" /\ op[p] = "fix" /\ ~diags[p]
      /\ pc'[p] = IF Lstat(cur[p]) \in Dirs THEN "readdir" ELSE "next"
      /\ UNCHANGED <<place, stack, cur>>
  BY DEF StatChild, Goto, TypeInv
<1>2. Chain(p)
  BY <1>1 DEF WalkOK
<1>3. PICK D \in SUBSET Dirs : Swept(p, D)
  BY <1>1 DEF WalkOK
<1>4. Chain(p)'
  BY <1>1, <1>2 DEF Chain, Dir
<1>5. ASSUME Searchable, NEW o \in Objects, place[o] /= Nowhere, place[o][1] \in D
      PROVE  Clean(o, D)' \/ Left(p, o)' \/ AtCur(p, o)'
  <2>1. CASE Clean(o, D) \/ Left(p, o)
    BY <1>1, <2>1 DEF Clean, Left, Dir
  <2>2. CASE AtCur(p, o)
    <3>1. cur[p] /= <<>> /\ place[o][2] \notin Invalid
      BY <1>1, <2>2 DEF AtCur
    <3>2. CASE o \in Dirs
      <4>1. Resolve(place, Front(cur[p])) \in Dirs
        BY <1>1, <1>2, <3>1, CurIsIn
      <4>2. Lstat(cur[p]) = o
        BY <1>5, <2>2, <3>2, <4>1, AtCurDir
      <4>3. pc'[p] = "readdir"
        BY <1>1, <3>2, <4>2
      <4> QED BY <1>1, <2>2, <3>1, <4>3 DEF AtCur
    <3>3. CASE o \notin Dirs
      BY <1>1, <3>1, <3>3 DEF Clean
    <3> QED BY <3>2, <3>3
  <2> QED BY <1>3, <1>5, <2>1, <2>2 DEF Swept
<1>6. Searchable => Root \in D
  BY <1>1, <1>3 DEF Swept
<1>7. Swept(p, D)'
  BY <1>1, <1>5, <1>6 DEF Swept
<1> QED BY <1>4, <1>7

\* A rename of visit changes one name in the directory being visited, and the paths that
\* lead to it are where they were.
LEMMA RenameMoves ==
    ASSUME TypeInv, CursorInv, OnePlace, OnePlace', BesideInv, FreeName, SameDirs,
           NEW p \in Procs, Chain(p), RenameChild(p)
    PROVE  \E x \in Objects, d \in Dirs :
             /\ place[x] = <<d, Last(cur[p])>>
             /\ place' = [place EXCEPT ![x] = <<d, Last(target(p))>>]
             /\ Front(cur[p]) = Front(target(p)) /\ cur[p] \in Proper /\ target(p) \in Proper
             /\ Resolve(place, Front(cur[p])) = d /\ Resolve(place', Front(target(p))) = d
             /\ \A i \in DOMAIN stack[p] : Resolve(place', stack[p][i].dir) = Dir(p, i)
             /\ Front(cur[p]) = stack[p][Len(stack[p])].dir
<1>1. pc[p] = "rename"
  BY DEF RenameChild
<1>4. PICK from \in Proper, to \in Proper :
        /\ from = cur[p] /\ to = target(p)
        /\ CanRename(from, to) /\ Lstat(to) = Absent /\ Front(from) = Front(to)
        /\ place' = Moved(from, to)
  BY <1>1, Renaming
<1>5. PICK L : L = Len(stack[p])
  OBVIOUS
<1>6. PICK x, d : x = Lstat(from) /\ d = Dir(p, L)
  OBVIOUS
<1>7. /\ stack[p] /= <<>> /\ L \in DOMAIN stack[p] /\ Front(from) = stack[p][L].dir
      /\ Resolve(place, Front(from)) = d /\ d \in Dirs
  <2>1. cur[p] /= <<>>
    BY <1>4 DEF Proper
  <2> QED BY <1>1, <1>4, <1>5, <1>6, <2>1, CurIsIn
<1>8. /\ x \in Objects /\ place[x] = <<d, Last(from)>>
      /\ place' = [place EXCEPT ![x] = <<d, Last(to)>>]
  <2>1. Resolve(place, Front(to)) = d
    BY <1>4, <1>7
  <2>2. /\ Lstat(from) \in Objects
        /\ place[Lstat(from)] = <<Resolve(place, Front(to)), Last(from)>>
        /\ Moved(from, to) = [place EXCEPT ![Lstat(from)] = <<Resolve(place, Front(to)), Last(to)>>]
    BY <1>4, MovedBeside
  <2> QED BY <1>4, <1>6, <2>1, <2>2
<1>9. \A i \in DOMAIN stack[p] : Resolve(place', stack[p][i].dir) = Dir(p, i)
  <2>1. place[x] /= Nowhere /\ place[x][1] = d
    BY <1>8 DEF Nowhere
  <2>2. place[x][1] = Dir(p, Len(stack[p]))
    BY <1>5, <1>6, <2>1
  <2>3. \A o \in Objects : o /= x => place'[o] = place[o]
    BY <1>8 DEF TypeInv
  <2> QED BY <1>7, <1>8, <2>1, <2>2, <2>3, FramesStay
<1>10. Resolve(place', Front(to)) = d
  BY <1>4, <1>6, <1>7, <1>9
<1> QED BY <1>4, <1>5, <1>7, <1>8, <1>9, <1>10

\* The object worked on has a valid name once it is renamed.
LEMMA RenameWalk ==
    ASSUME TypeInv, CursorInv, OnePlace, OnePlace', BesideInv, FreeName, SameDirs,
           NEW p \in Procs, WalkOK(p), RenameChild(p)
    PROVE  WalkOK(p)'
<1> SUFFICES ASSUME op'[p] = "fix", ~diags'[p] PROVE Chain(p)' /\ \E D \in SUBSET Dirs : Swept(p, D)'
  BY DEF WalkOK
<1>1. /\ pc[p] = "rename" /\ op[p] = "fix" /\ ~diags[p] /\ pc'[p] = "stat" /\ stack' = stack
      /\ cur'[p] = target(p)
  BY DEF RenameChild, Goto, TypeInv
<1>2. Chain(p)
  BY <1>1 DEF WalkOK
<1>3. PICK D \in SUBSET Dirs : Swept(p, D)
  BY <1>1 DEF WalkOK
<1>4. PICK x \in Objects, d \in Dirs :
             /\ place[x] = <<d, Last(cur[p])>>
             /\ place' = [place EXCEPT ![x] = <<d, Last(target(p))>>]
             /\ Front(cur[p]) = Front(target(p)) /\ cur[p] \in Proper /\ target(p) \in Proper
             /\ Resolve(place, Front(cur[p])) = d /\ Resolve(place', Front(target(p))) = d
             /\ \A i \in DOMAIN stack[p] : Resolve(place', stack[p][i].dir) = Dir(p, i)
             /\ Front(cur[p]) = stack[p][Len(stack[p])].dir
  BY <1>2, RenameMoves
<1>5. \A i \in DOMAIN stack[p] : Dir(p, i)' = Dir(p, i)
  BY <1>1, <1>4 DEF Dir
<1>6. \A o \in Objects : place'[o] = IF o = x THEN <<d, Last(target(p))>> ELSE place[o]
  BY <1>4 DEF TypeInv
<1>7. Last(target(p)) \notin Invalid
  <2>1. /\ Last(cur[p]) \in Invalid /\ cand[p] \in DOMAIN Candidates[Last(cur[p])]
    BY <1>1, TargetType
  <2>2. /\ Candidates[Last(cur[p])][cand[p]] \in Range(Candidates[Last(cur[p])])
        /\ Candidates[Last(cur[p])][cand[p]] \in Name /\ Front(cur[p]) \in Seq(Name)
    BY <1>4, <2>1, NamesAssumption, FrontLast DEF Range, Proper, Path
  <2>3. Last(target(p)) = Candidates[Last(cur[p])][cand[p]]
    BY <2>2, FrontLastAppend DEF target
  <2>4. Range(Candidates[Last(cur[p])]) \intersect Invalid = {}
    BY <2>1, NamesAssumption
  <2> QED BY <2>2, <2>3, <2>4
<1>8. Chain(p)'
  <2>1. \A i \in DOMAIN stack'[p] :
          /\ Dir(p, i)' \in Dirs
          /\ stack'[p][i].dir = <<>> <=> i = 1
          /\ i > 1 => Front(stack'[p][i].dir) = stack'[p][i - 1].dir
    BY <1>1, <1>2, <1>5 DEF Chain
  <2>2. /\ stack'[p] /= <<>> /\ cur'[p] /= <<>>
        /\ Front(cur'[p]) = stack'[p][Len(stack'[p])].dir
    BY <1>1, <1>2, <1>4 DEF Proper, Chain
  <2> QED BY <1>1, <2>1, <2>2 DEF Chain
<1>9. ASSUME Searchable, NEW o \in Objects, place'[o] /= Nowhere, place'[o][1] \in D
      PROVE  Clean(o, D)' \/ Left(p, o)' \/ AtCur(p, o)'
  <2>1. CASE o = x
    <3>1. place'[o] = <<d, Last(target(p))>>
      BY <1>6, <2>1
    <3>2. cur'[p] /= <<>> /\ Resolve(place', Front(cur'[p])) = d
      BY <1>1, <1>4 DEF Proper
    <3> QED BY <1>1, <1>7, <3>1, <3>2 DEF AtCur
  <2>2. CASE o /= x
    <3>1. place'[o] = place[o]
      BY <1>6, <2>2
    <3>2. CASE Clean(o, D)
      BY <3>1, <3>2 DEF Clean
    <3>3. CASE Left(p, o)
      BY <1>1, <1>5, <3>1, <3>3 DEF Left
    <3>4. ~AtCur(p, o)
      <4>1. place[x] /= Nowhere
        BY <1>4 DEF Nowhere
      <4>2. AtCur(p, o) => place[o] = place[x]
        BY <1>4 DEF AtCur
      <4> QED BY <1>4, <2>2, <4>1, <4>2 DEF OnePlace
    <3> QED BY <1>3, <1>9, <3>1, <3>2, <3>3, <3>4 DEF Swept
  <2> QED BY <2>1, <2>2
<1>10. Searchable => Root \in D
  BY <1>1, <1>3 DEF Swept
<1>11. Swept(p, D)'
  BY <1>9, <1>10 DEF Swept
<1> QED BY <1>8, <1>11

\* When no call of visit is left, every directory has been listed: what was not would
\* be below itself.
LEMMA EndsClean ==
    ASSUME TypeInv, SameDirs, Searchable, NEW p \in Procs, WalkOK(p), VisitEnds(p), op[p] = "fix", ~diags[p]
    PROVE  NoInvalidName
<1>1. pc[p] = "next" /\ stack[p] = <<>>
  BY DEF VisitEnds
<1>2. PICK D \in SUBSET Dirs : Swept(p, D)
  BY <1>1 DEF WalkOK
<1>3. Root \in D /\ \A o \in Objects : place[o] /= Nowhere /\ place[o][1] \in D => Clean(o, D)
  BY <1>1, <1>2 DEF Swept, Left, AtCur
<1> DEFINE S == {o \in Objects : place[o] /= Nowhere /\ place[o][1] \notin D}
<1>4. S = {}
  <2>1. SUFFICES ASSUME S /= {} PROVE FALSE
    OBVIOUS
  <2>2. PICK o \in S : place[o] = Nowhere \/ place[o][1] \notin S
    BY <2>1, PlaceRooted
  <2>3. o \in Objects /\ place[o] /= Nowhere /\ place[o][1] \notin D /\ place[o][1] \notin S
    BY <2>2
  <2>4. PICK e : e = place[o][1]
    OBVIOUS
  <2>5. e \in Dirs /\ e \in Objects /\ place[e] /= Nowhere
    <3>1. e \in Dirs
      BY <2>3, <2>4 DEF TypeInv, Places
    <3>2. e = Tree[o][1] /\ Tree[o] /= Nowhere
      BY <2>3, <2>4 DEF SameDirs
    <3>3. e \in Objects /\ Tree[e] /= Nowhere
      BY <1>3, <2>3, <2>4, <3>2, TreeAssumption
    <3> QED BY <3>1, <3>3 DEF SameDirs
  <2>6. place[e][1] \in D
    BY <2>3, <2>4, <2>5
  <2> QED BY <1>3, <2>3, <2>4, <2>5, <2>6 DEF Clean
<1> QED BY <1>3, <1>4 DEF Clean, NoInvalidName

\* Every step of a run keeps its walk, and what it leaves clean stays so until another
\* run starts.
LEMMA SweepStep ==
    ASSUME Concurrent = FALSE, TidyInv, BaseInv', SweepInv, changes = 0,
           NEW p \in Procs, Run(p) \/ Kill(p), NEW q \in Procs
    PROVE  WalkOK(q)' /\ CleanOK(q)'
<1>1. /\ TypeInv /\ CursorInv /\ OnePlace /\ OnePlace' /\ BesideInv /\ PlanInv
      /\ FreeName /\ SameDirs /\ WalkOK(p) /\ CleanOK(p) /\ OneAtATime
  BY DEF TidyInv, BaseInv, CalmInv, SweepInv
<1>2. /\ (pc[p] = "start" /\ Free(p)) \/ Active(p)
      /\ \A x \in Procs : x /= p => ~Active(x) /\ pc'[x] = pc[x]
      /\ pc' \in [Procs -> Label] /\ pc'[p] /= "start"
  BY <1>1, Alone
<1>3. WalkOK(p)'
  <2>1. CASE \/ LoadForFix(p) \/ ReadDir(p) \/ NextChild(p) \/ LeaveDir(p) \/ ProbeTarget(p)
             \/ RenameChild(p) \/ StatChild(p)
    BY <1>1, <2>1, LoadWalk, ReadDirWalk, NextWalk, LeaveWalk, ProbeWalk, RenameWalk, StatWalk
  <2>2. CASE ReadDirFails(p) \/ RenameChildFails(p)
    <3>1. diags'[p]
      BY <1>1, <2>2 DEF ReadDirFails, RenameChildFails, Report, TypeInv
    <3> QED BY <3>1 DEF WalkOK
  <2>3. CASE \/ LoadForRestore(p) \/ LoadForIndex(p) \/ VisitEnds(p) \/ SkipRestored(p) \/ StatTo(p)
             \/ SourceMissing(p) \/ StatFrom(p) \/ Collision(p) \/ RestoreName(p)
             \/ RestoreNameFails(p) \/ RestoreEnds(p) \/ Save(p) \/ SaveFails(p) \/ Kill(p)
    <3>1. pc'[p] \notin {"readdir", "next", "probe", "rename", "stat"}
      BY <1>1, <2>3 DEF LoadForRestore, LoadForIndex, VisitEnds, SkipRestored, StatTo,
           SourceMissing, StatFrom, Collision, RestoreName, RestoreNameFails, RestoreEnds,
           Save, SaveFails, Kill, Goto, Skip, TypeInv, Label
    <3> QED BY <3>1 DEF WalkOK
  <2> QED BY <2>1, <2>2, <2>3 DEF Run
<1>4. CleanOK(p)'
  <2> SUFFICES ASSUME Searchable, op'[p] = "fix", pc'[p] \in {"save", "ok"}, ~diags'[p],
                      \A x \in Procs : x > p => pc'[x] = "start"
               PROVE  NoInvalidName'
    BY DEF CleanOK
  <2>1. op[p] = "fix" /\ (VisitEnds(p) \/ Save(p))
    BY <1>1 DEF Run, LoadForFix, LoadForRestore, LoadForIndex, ReadDir, ReadDirFails, NextChild,
         LeaveDir, VisitEnds, ProbeTarget, RenameChild, RenameChildFails, StatChild, SkipRestored,
         StatTo, SourceMissing, StatFrom, Collision, RestoreName, RestoreNameFails, RestoreEnds,
         Save, SaveFails, Kill, Goto, Skip, TypeInv, Label, PlanInv
  <2>2. ~diags[p] /\ place' = place
    BY <2>1 DEF VisitEnds, Save
  <2>3. NoInvalidName
    <3>1. CASE VisitEnds(p)
      BY <1>1, <2>1, <2>2, <3>1, EndsClean
    <3>2. CASE Save(p)
      <4>1. pc[p] = "save" /\ \A x \in Procs : x > p => pc[x] = "start"
        BY <1>2, <3>2, RunsAssumption DEF Save
      <4> QED BY <1>1, <2>1, <2>2, <4>1 DEF CleanOK
    <3> QED BY <2>1, <3>1, <3>2
  <2> QED BY <2>2, <2>3 DEF NoInvalidName
<1>5. ASSUME q /= p PROVE WalkOK(q)' /\ CleanOK(q)'
  <2>1. ~Active(q) /\ pc'[q] = pc[q]
    BY <1>2, <1>5
  <2>2. pc'[q] \notin {"readdir", "next", "probe", "rename", "stat", "save"}
    BY <2>1 DEF Active, Ended
  <2>3. CASE q < p
    <3>1. ~(\A x \in Procs : x > q => pc'[x] = "start")
      BY <1>2, <2>3, RunsAssumption
    <3> QED BY <2>2, <3>1 DEF WalkOK, CleanOK
  <2>4. CASE p < q
    <3>1. pc[q] = "start"
      BY <1>1, <1>2, <2>4 DEF OneAtATime, Active, Ended
    <3> QED BY <2>1, <3>1 DEF WalkOK, CleanOK
  <2> QED BY <1>5, <2>3, <2>4, RunsAssumption
<1> QED BY <1>3, <1>4, <1>5

\* Nobody else disturbs a walk, as long as the user changes nothing.
LEMMA SweepNext == Concurrent = FALSE /\ TidyInv /\ SweepInv /\ [Next]_vars => SweepInv'
<1> SUFFICES ASSUME Concurrent = FALSE, TidyInv, SweepInv, [Next]_vars PROVE SweepInv'
  OBVIOUS
<1>0. BaseInv'
  BY BaseStep DEF TidyInv
<1>1. ASSUME NEW p \in Procs, Run(p) \/ Kill(p) PROVE SweepInv'
  <2>1. changes' = changes
    BY <1>1 DEF Run, LoadForFix, LoadForRestore, LoadForIndex, ReadDir, ReadDirFails, NextChild,
         LeaveDir, VisitEnds, ProbeTarget, RenameChild, RenameChildFails, StatChild, SkipRestored,
         StatTo, SourceMissing, StatFrom, Collision, RestoreName, RestoreNameFails, RestoreEnds,
         Save, SaveFails, Kill, user
  <2>2. changes = 0 => \A q \in Procs : WalkOK(q)' /\ CleanOK(q)'
    BY <1>0, <1>1, SweepStep
  <2> QED BY <2>1, <2>2 DEF SweepInv
<1>2. CASE User
  BY <1>2, UserCounts DEF TidyInv, BaseInv, SweepInv
<1>3. CASE UNCHANGED vars
  <2>1. UNCHANGED <<place, op, pc, diags, stack, cur, changes>>
    BY <1>3 DEF vars, tool, user
  <2>2. ASSUME NEW p \in Procs
        PROVE  (WalkOK(p) => WalkOK(p)') /\ (CleanOK(p) => CleanOK(p)')
    <3>1. Chain(p) => Chain(p)'
      BY <2>1 DEF Chain, Dir
    <3>2. ASSUME NEW D \in SUBSET Dirs, Swept(p, D) PROVE Swept(p, D)'
      <4>1. \A o \in Objects : /\ Clean(o, D) => Clean(o, D)'
                               /\ Left(p, o) => Left(p, o)'
                               /\ AtCur(p, o) => AtCur(p, o)'
        BY <2>1 DEF Clean, Left, AtCur, Dir
      <4> QED BY <2>1, <3>2, <4>1 DEF Swept
    <3> QED BY <2>1, <3>1, <3>2 DEF WalkOK, CleanOK, NoInvalidName
  <2> QED BY <2>1, <2>2 DEF SweepInv
<1> QED BY <1>1, <1>2, <1>3 DEF Next, Finished

\* When runs do not overlap and no directory with subdirectories is without search
\* permission, a --fix-names that ends well and has no diagnostic leaves no invalid name
\* in the tree, however deep and whatever it renamed on the way.
THEOREM FixedNames == Concurrent = FALSE /\ Searchable => (Spec => []FixLeavesNoInvalidName)
<1> SUFFICES ASSUME Concurrent = FALSE, Searchable PROVE Spec => []FixLeavesNoInvalidName
  OBVIOUS
<1>1. Init => TidyInv /\ SweepInv
  <2>1. Init => SweepInv
    BY DEF Init, SweepInv, WalkOK, CleanOK
  <2> QED BY <2>1, TidyInit
<1>2. TidyInv /\ SweepInv /\ [Next]_vars => (TidyInv /\ SweepInv)'
  BY TidyStep, SweepNext
<1>3. TidyInv /\ SweepInv => FixLeavesNoInvalidName
  BY DEF SweepInv, CleanOK, NoInvalidName, FixLeavesNoInvalidName, Quiet
<1> QED BY <1>1, <1>2, <1>3, PTL DEF Spec

-----------------------------------------------------------------------------
(* A restore takes back every rename. *)

\* r records the rename that made tree t of tree s.
Renamed(s, t, r) ==
    \E o \in Objects :
        /\ t[o] = <<Resolve(t, Front(r.to)), Last(r.to)>>
        /\ s = [t EXCEPT ![o] = <<Resolve(t, Front(r.to)), Last(r.from)>>]

\* The trees that the records not yet restored lead through, from the first to the
\* present one.
Trees == [Objects -> Places]
Leads(T, records) ==
    /\ T[0] = Tree /\ T[Len(records)] = place
    /\ \A i \in DOMAIN records :
         IF records[i].restored THEN T[i] = T[i - 1] ELSE Renamed(T[i - 1], T[i], records[i])
History(records) == \E T \in [0..Len(records) -> Trees] : Leads(T, records)

\* Every run that has renamed something saves it, and has no diagnostic so far, and an
\* index has read the file.
Fine(p) ==
    /\ report[p] = <<>> \/ (~diags[p] /\ pc[p] \notin {"error", "killed"})
    /\ op[p] = "index" => loaded[p] /= "unread"
Clear == changes = 0 /\ \A p \in Procs : Fine(p)

\* The records that a run reads, when nothing fails.
Kept == IF found = "usable" THEN renames ELSE <<>>

\* A restore that has no diagnostic has restored what is behind it.
BehindOK(p) == pc[p] \in {"pick", "statfrom", "restore"} /\ ~diags[p] =>
    /\ \A i \in DOMAIN mem[p] : i > k[p] => mem[p][i].restored
    /\ pc[p] \in {"statfrom", "restore"} => ~mem[p][k[p]].restored
    /\ pc[p] = "statfrom" => Lstat(mem[p][k[p]].to) \in Objects

BackOK(p) ==
    op[p] = "restore" /\ pc[p] \in {"save", "ok"} /\ ~diags[p] /\ (\A q \in Procs : q > p => pc[q] = "start")
    => place = Tree

HeldOK(p) == Active(p) => History(mem[p]) /\ (report[p] = <<>> => mem[p] = Kept)

UndoInv == Clear =>
    /\ \A p \in Procs : HeldOK(p) /\ BehindOK(p) /\ BackOK(p)
    /\ (\A p \in Procs : ~Active(p)) => History(Kept)

\* When the records after one are restored, the tree it made is the present one.
LEMMA LastTree ==
    ASSUME NEW m \in Seq(Entry), NEW T, Leads(T, m), NEW j \in 0..Len(m),
           \A i \in DOMAIN m : i > j => m[i].restored
    PROVE  T[j] = place
<1> DEFINE n == Len(m)
           Q == {x \in 0..(n - j) : T[n - x] /= place}
<1>1. n \in Nat /\ j \in Nat /\ j <= n /\ DOMAIN m = 1..n
  OBVIOUS
<1>2. \A i \in 1..n : i > j => T[i] = T[i - 1]
  BY <1>1 DEF Leads
<1>3. T[n] = place
  BY DEF Leads
<1> HIDE DEF n
<1>4. Q = {}
  <2>1. SUFFICES ASSUME Q /= {} PROVE FALSE
    OBVIOUS
  <2>2. Q \subseteq Nat
    <3>1. \A x \in 0..(n - j) : x \in Nat
      BY <1>1
    <3> QED BY <3>1
  <2>3. PICK x \in Q : \A y \in Q : x <= y
    BY <2>1, <2>2, Smallest
  <2>4. x \in 0..(n - j) /\ T[n - x] /= place
    BY <2>3
  <2>5. x /= 0
    BY <1>1, <1>3, <2>4
  <2>6. x - 1 \in 0..(n - j) /\ ~(x <= x - 1) /\ n - (x - 1) \in 1..n /\ n - (x - 1) > j
        /\ n - (x - 1) - 1 = n - x
    BY <1>1, <2>4, <2>5
  <2>7. T[n - (x - 1)] = place
    BY <2>3, <2>6
  <2> QED BY <1>2, <2>4, <2>6, <2>7
<1>5. n - j \in 0..(n - j) /\ n - (n - j) = j
  BY <1>1
<1> QED BY <1>4, <1>5

\* A rename that is recorded adds a tree.
LEMMA HistoryGrows ==
    ASSUME TypeInv', NEW m \in Seq(Entry), History(m), NEW r \in Entry, ~r.restored,
           Renamed(place, place', r)
    PROVE  History(Append(m, r))'
<1>0. PICK n, t : n = Len(m) /\ t = place'
  OBVIOUS
<1>1. PICK T \in [0..Len(m) -> Trees] : Leads(T, m)
  BY DEF History
<1>2. n \in Nat /\ DOMAIN m = 1..n /\ t \in Trees
  BY <1>0 DEF TypeInv, Trees
<1>3. T \in [0..n -> Trees] /\ T[0] = Tree /\ T[n] = place
  BY <1>0, <1>1 DEF Leads
<1> DEFINE U == [i \in 0..(n + 1) |-> IF i <= n THEN T[i] ELSE t]
           w == Append(m, r)
<1>4. Len(w) = n + 1 /\ DOMAIN w = 1..(n + 1) /\ w[n + 1] = r /\ \A i \in 1..n : w[i] = m[i]
  BY <1>0, <1>2
<1>5. /\ U \in [0..(n + 1) -> Trees] /\ U[n + 1] = t
      /\ \A i \in 0..n : U[i] = T[i]
  <2>1. \A i \in 0..(n + 1) : i <= n => i \in 0..n
    BY <1>2
  <2>2. \A i \in 0..n : i \in 0..(n + 1) /\ i <= n
    BY <1>2
  <2>3. n + 1 \in 0..(n + 1) /\ ~(n + 1 <= n)
    BY <1>2
  <2> QED BY <1>2, <1>3, <2>1, <2>2, <2>3
<1> HIDE DEF U, w
<1>6. ASSUME NEW i \in 1..(n + 1)
      PROVE  IF w[i].restored THEN U[i] = U[i - 1] ELSE Renamed(U[i - 1], U[i], w[i])
  <2>1. CASE i = n + 1
    <3>1. n \in 0..n /\ i - 1 = n
      BY <1>2, <2>1
    <3>2. U[i - 1] = place /\ U[i] = t /\ w[i] = r
      BY <1>3, <1>4, <1>5, <2>1, <3>1
    <3>3. Renamed(place, t, r)
      BY <1>0 DEF Renamed
    <3>4. Renamed(U[i - 1], U[i], w[i])
      BY <3>2, <3>3
    <3> QED BY <3>2, <3>4
  <2>2. CASE i /= n + 1
    <3>1. i \in 1..n /\ i \in 0..n /\ i - 1 \in 0..n
      BY <1>2, <2>2
    <3>2. IF m[i].restored THEN T[i] = T[i - 1] ELSE Renamed(T[i - 1], T[i], m[i])
      BY <1>1, <1>2, <3>1 DEF Leads
    <3>3. U[i] = T[i] /\ U[i - 1] = T[i - 1] /\ w[i] = m[i]
      BY <1>4, <1>5, <3>1
    <3> QED BY <3>2, <3>3
  <2> QED BY <2>1, <2>2
<1>7. U[0] = Tree /\ U[Len(w)] = place'
  <2>1. 0 \in 0..n
    BY <1>2
  <2> QED BY <1>0, <1>3, <1>4, <1>5, <2>1
<1>8. Leads(U, w)'
  BY <1>4, <1>6, <1>7 DEF Leads
<1>9. U \in [0..Len(w) -> Trees]
  BY <1>4, <1>5
<1> QED BY <1>8, <1>9 DEF History, w

\* A rename that is taken back when those after it have been leaves the tree that was
\* there before it.
LEMMA HistoryShrinks ==
    ASSUME TypeInv, OnePlace, NEW m \in Seq(Entry), History(m), NEW j \in DOMAIN m, ~m[j].restored,
           \A i \in DOMAIN m : i > j => m[i].restored,
           CanRename(m[j].to, m[j].from), Lstat(m[j].from) = Absent,
           Front(m[j].from) = Front(m[j].to), place' = Moved(m[j].to, m[j].from),
           NEW e \in Entry, e.restored
    PROVE  History([m EXCEPT ![j] = e])'
<1>0. PICK n : n = Len(m)
  OBVIOUS
<1>1. PICK T \in [0..Len(m) -> Trees] : Leads(T, m)
  BY DEF History
<1>2. n \in Nat /\ DOMAIN m = 1..n /\ j \in 1..n /\ m[j] \in Entry /\ j - 1 \in 0..n /\ j \in 0..n
  BY <1>0
<1>3. T \in [0..n -> Trees] /\ T[0] = Tree /\ T[n] = place
  BY <1>0, <1>1 DEF Leads
<1>4. T[j] = place
  BY <1>0, <1>1, <1>2, LastTree
<1>5. Renamed(T[j - 1], place, m[j])
  BY <1>1, <1>2, <1>4 DEF Leads
<1>6. place' = T[j - 1]
  <2>1. PICK from, to : from = m[j].to /\ to = m[j].from
    OBVIOUS
  <2>2. from \in Proper /\ to \in Proper
    BY <1>2, <2>1 DEF Entry
  <2>3. PICK x, d : x = Lstat(from) /\ d = Resolve(place, Front(to))
    OBVIOUS
  <2>4. /\ x \in Objects /\ place[x] = <<d, Last(from)>>
        /\ place' = [place EXCEPT ![x] = <<d, Last(to)>>]
    BY <2>1, <2>2, <2>3, MovedBeside
  <2>5. PICK o \in Objects :
           place[o] = <<d, Last(from)>> /\ T[j - 1] = [place EXCEPT ![o] = <<d, Last(to)>>]
    BY <1>5, <2>1, <2>3 DEF Renamed
  <2>6. <<d, Last(from)>> /= Nowhere
    BY DEF Nowhere
  <2>7. o = x
    BY <2>4, <2>5, <2>6 DEF OnePlace
  <2> QED BY <2>4, <2>5, <2>7
<1> DEFINE U == [i \in 0..n |-> IF i < j THEN T[i] ELSE T[j - 1]]
           w == [m EXCEPT ![j] = e]
<1>7. /\ DOMAIN w = 1..n /\ Len(w) = n /\ w[j] = e
      /\ \A i \in 1..n : i /= j => w[i] = m[i]
  BY <1>0, <1>2
<1>8. /\ U \in [0..n -> Trees]
      /\ \A i \in 0..n : U[i] = IF i < j THEN T[i] ELSE T[j - 1]
  BY <1>2, <1>3
<1> HIDE DEF U, w
<1>9. ASSUME NEW i \in 1..n
      PROVE  IF w[i].restored THEN U[i] = U[i - 1] ELSE Renamed(U[i - 1], U[i], w[i])
  <2>0. i \in 0..n /\ i - 1 \in 0..n /\ i \in Nat /\ j \in Nat
    BY <1>2
  <2>1. CASE i < j
    <3>1. IF m[i].restored THEN T[i] = T[i - 1] ELSE Renamed(T[i - 1], T[i], m[i])
      BY <1>1, <1>2 DEF Leads
    <3>2. U[i] = T[i] /\ U[i - 1] = T[i - 1] /\ w[i] = m[i]
      BY <1>7, <1>8, <2>0, <2>1
    <3> QED BY <3>1, <3>2
  <2>2. CASE i = j
    <3>1. U[i] = T[j - 1] /\ U[i - 1] = T[j - 1]
      BY <1>8, <2>0, <2>2
    <3> QED BY <1>7, <2>2, <3>1
  <2>3. CASE i > j
    <3>1. ~(i < j) /\ ~(i - 1 < j) /\ i /= j
      BY <2>0, <2>3
    <3>2. U[i] = T[j - 1] /\ U[i - 1] = T[j - 1]
      BY <1>8, <2>0, <3>1
    <3>3. w[i].restored
      BY <1>2, <1>7, <2>3, <3>1
    <3> QED BY <3>2, <3>3
  <2> QED BY <2>0, <2>1, <2>2, <2>3
<1>10. U[0] = Tree /\ U[n] = place'
  <2>1. 0 \in 0..n /\ n \in 0..n /\ 0 < j /\ ~(n < j)
    BY <1>2
  <2> QED BY <1>3, <1>6, <1>8, <2>1
<1>11. Leads(U, w)'
  BY <1>7, <1>9, <1>10 DEF Leads
<1>12. U \in [0..Len(w) -> Trees]
  BY <1>7, <1>8
<1> QED BY <1>11, <1>12 DEF History, w

\* What has one more is not empty.
LEMMA AppendIsMore ==
    ASSUME NEW S, NEW s \in Seq(S), NEW e
    PROVE  Append(s, e) /= <<>>
<1>1. s \in Seq(S \union {e})
  OBVIOUS
<1> QED BY <1>1, AppendProperties

\* What led to the tree leads to it as long as it stays.
LEMMA HistoryStays ==
    ASSUME NEW m, History(m), place' = place
    PROVE  History(m)'
  BY DEF History, Leads

\* A diagnostic and an end are there to stay.
LEMMA FineBefore ==
    ASSUME TypeInv, RecordInv, NEW p \in Procs, Run(p) \/ Kill(p), Clear'
    PROVE  Clear
<1>1. changes' = changes
  BY DEF Run, LoadForFix, LoadForRestore, LoadForIndex, ReadDir, ReadDirFails, NextChild,
         LeaveDir, VisitEnds, ProbeTarget, RenameChild, RenameChildFails, StatChild, SkipRestored,
         StatTo, SourceMissing, StatFrom, Collision, RestoreName, RestoreNameFails, RestoreEnds,
         Save, SaveFails, Kill, user
<1>2. ASSUME NEW q \in Procs PROVE Fine(q)' => Fine(q)
  <2>1. report'[q] = <<>> => report[q] = <<>>
    <3>1. \/ report' = report
          \/ \E r \in Entry : report' = [report EXCEPT ![p] = Append(report[p], r)]
          \/ \E r : report' = [report EXCEPT ![p] = Append(report[p], r)]
      BY DEF Run, LoadForFix, LoadForRestore, LoadForIndex, ReadDir, ReadDirFails, NextChild,
         LeaveDir, VisitEnds, ProbeTarget, RenameChild, RenameChildFails, StatChild, SkipRestored,
         StatTo, SourceMissing, StatFrom, Collision, RestoreName, RestoreNameFails, RestoreEnds,
         Save, SaveFails, Kill
    <3>2. report[p] \in Seq(Entry)
      BY DEF TypeInv
    <3>3. \A r : Append(report[p], r) /= <<>>
      BY <3>2, AppendIsMore
    <3> QED BY <3>1, <3>3 DEF TypeInv
  <2>2. diags[q] => diags'[q]
    BY DEF Run, LoadForFix, LoadForRestore, LoadForIndex, ReadDir, ReadDirFails, NextChild,
         LeaveDir, VisitEnds, ProbeTarget, RenameChild, RenameChildFails, StatChild, SkipRestored,
         StatTo, SourceMissing, StatFrom, Collision, RestoreName, RestoreNameFails, RestoreEnds,
         Save, SaveFails, Kill, Report, TypeInv
  <2>3. pc[q] \in {"error", "killed"} => pc'[q] = pc[q]
    BY DEF Run, LoadForFix, LoadForRestore, LoadForIndex, ReadDir, ReadDirFails, NextChild,
         LeaveDir, VisitEnds, ProbeTarget, RenameChild, RenameChildFails, StatChild, SkipRestored,
         StatTo, SourceMissing, StatFrom, Collision, RestoreName, RestoreNameFails, RestoreEnds,
         Save, SaveFails, Kill, Goto, Skip, Ended, Free, TypeInv
  <2>4. op'[q] = op[q] /\ (loaded'[q] = loaded[q] \/ pc[q] = "start")
    BY DEF Run, LoadForFix, LoadForRestore, LoadForIndex, ReadDir, ReadDirFails, NextChild,
         LeaveDir, VisitEnds, ProbeTarget, RenameChild, RenameChildFails, StatChild, SkipRestored,
         StatTo, SourceMissing, StatFrom, Collision, RestoreName, RestoreNameFails, RestoreEnds,
         Save, SaveFails, Kill, TypeInv
  <2>5. loaded[q] = "unread" => loaded'[q] = loaded[q]
    BY <2>4 DEF RecordInv, StartInv
  <2> QED BY <2>1, <2>2, <2>3, <2>4, <2>5 DEF Fine
<1> QED BY <1>1, <1>2 DEF Clear

\* A name that is free for one path is not hidden from the other.
LEMMA CollisionTells ==
    ASSUME TypeInv, CursorInv, BesideInv, NEW p \in Procs, Collision(p),
           Lstat(mem[p][k[p]].to) \in Objects
    PROVE  diags'[p]
<1> DEFINE r == mem[p][k[p]]
<1>1. pc[p] = "statfrom" /\ k[p] \in DOMAIN mem[p]
  BY DEF Collision, TypeInv, CursorInv
<1>2. r \in Entry /\ Front(r.from) = Front(r.to)
  BY <1>1 DEF TypeInv, BesideInv, Beside
<1>3. r.from \in Proper /\ r.to \in Proper
  BY <1>2 DEF Entry
<1> HIDE DEF r
<1>4. Lstat(r.to) = Enter(place, Resolve(place, Front(r.to)), Last(r.to))
  BY <1>3 DEF Lstat, Proper
<1>5. PICK d : d = Resolve(place, Front(r.to))
  OBVIOUS
<1>6. d \in Dirs \ Unsearchable
  <2>1. Enter(place, d, Last(r.to)) \in Objects
    BY <1>4, <1>5 DEF r
  <2> QED BY <2>1, EnterIsIn
<1>7. Lstat(r.from) = Enter(place, d, Last(r.from))
  BY <1>2, <1>3, <1>5 DEF Lstat, Proper
<1>8. Enter(place, d, Last(r.from)) \in Objects \union {Absent}
  <2>1. d \notin {Absent, Failed}
    BY <1>6, ObjectsAssumption DEF Root, Absent, Failed
  <2> DEFINE P == {o \in Objects : place[o] = <<d, Last(r.from)>>}
  <2>2. P /= {} => (CHOOSE o \in Objects : place[o] = <<d, Last(r.from)>>) \in P
    OBVIOUS
  <2> QED BY <1>6, <2>1, <2>2 DEF Enter
<1> QED BY <1>7, <1>8 DEF Collision, r, TypeInv

\* What a run holds in memory leads to the tree, however it changes both.
LEMMA HeldStep ==
    ASSUME Concurrent = FALSE, TidyInv, BaseInv', RecordInv, SweepInv, UndoInv, Clear, Clear',
           NEW p \in Procs, Run(p) \/ Kill(p)
    PROVE  HeldOK(p)'
<1>1. /\ TypeInv /\ CursorInv /\ OnePlace /\ TypeInv' /\ OnePlace' /\ BesideInv /\ PlanInv
      /\ FreeName /\ SameDirs /\ WalkOK(p) /\ OneAtATime /\ StartInv /\ HeldOK(p) /\ BehindOK(p)
  BY DEF TidyInv, BaseInv, CalmInv, SweepInv, RecordInv, UndoInv, Clear
<1>2. /\ (pc[p] = "start" /\ Free(p)) \/ Active(p)
      /\ \A q \in Procs : q /= p => ~Active(q) /\ pc'[q] = pc[q]
  BY <1>1, Alone
<1>3. mem[p] \in Seq(Entry) /\ report[p] \in Seq(Entry) /\ Fine(p)'
  BY <1>1 DEF TypeInv, Clear
<1>4. CASE LoadForFix(p) \/ LoadForRestore(p) \/ LoadForIndex(p)
  <2>1. /\ pc[p] = "start" /\ UNCHANGED <<place, found, renames, op, report>>
        /\ \E l \in Loads : /\ loaded'[p] = l /\ mem'[p] = Read(l)
                            /\ l = "unread" => pc'[p] = "error" \/ op[p] = "index"
    BY <1>1, <1>4 DEF LoadForFix, LoadForRestore, LoadForIndex, Goto, file, TypeInv
  <2>a. pc'[p] = "error" => ~Active(p)'
    BY DEF Active, Ended
  <2>b. op'[p] = "index" => loaded'[p] /= "unread"
    BY <1>3 DEF Fine
  <2>2. Active(p)' => mem'[p] = Kept /\ mem'[p] = Kept'
    BY <2>1, <2>a, <2>b DEF Loads, Read, Kept
  <2>3. \A q \in Procs : ~Active(q)
    BY <1>2, <2>1 DEF Active
  <2>4. History(Kept)
    BY <2>3 DEF UndoInv, Clear
  <2>5. PICK m : m = Kept
    OBVIOUS
  <2>6. History(m)'
    BY <2>1, <2>4, <2>5, HistoryStays
  <2>7. Active(p)' => History(mem[p])'
    BY <2>2, <2>5, <2>6 DEF History, Leads
  <2> QED BY <2>1, <2>2, <2>7 DEF HeldOK
<1>5. CASE RenameChild(p)
  <2> DEFINE r == [from |-> cur[p], to |-> target(p), restored |-> FALSE]
  <2>1. /\ pc[p] = "rename" /\ mem' = [mem EXCEPT ![p] = Append(mem[p], r)]
        /\ report' = [report EXCEPT ![p] = Append(report[p], r)] /\ diags' = diags
    BY <1>5 DEF RenameChild
  <2>2. mem'[p] = Append(mem[p], r) /\ report'[p] /= <<>>
    <3>1. Append(report[p], r) /= <<>>
      BY <1>3, AppendIsMore
    <3> QED BY <1>1, <2>1, <3>1 DEF TypeInv
  <2>3. op[p] = "fix" /\ ~diags[p]
    BY <1>1, <1>3, <2>1, <2>2 DEF PlanInv, Fine
  <2>4. Chain(p)
    BY <1>1, <2>1, <2>3 DEF WalkOK
  <2>5. PICK x \in Objects, d \in Dirs :
             /\ place[x] = <<d, Last(cur[p])>>
             /\ place' = [place EXCEPT ![x] = <<d, Last(target(p))>>]
             /\ Front(cur[p]) = Front(target(p)) /\ cur[p] \in Proper /\ target(p) \in Proper
             /\ Resolve(place, Front(cur[p])) = d /\ Resolve(place', Front(target(p))) = d
             /\ \A i \in DOMAIN stack[p] : Resolve(place', stack[p][i].dir) = Dir(p, i)
             /\ Front(cur[p]) = stack[p][Len(stack[p])].dir
    BY <1>1, <1>5, <2>4, RenameMoves
  <2>6. r \in Entry /\ ~r.restored /\ r.from = cur[p] /\ r.to = target(p)
    BY <2>5 DEF Entry
  <2> HIDE DEF r
  <2>7. /\ place'[x] = <<d, Last(target(p))>>
        /\ place = [place' EXCEPT ![x] = <<d, Last(cur[p])>>]
    BY <1>1, <2>5 DEF TypeInv
  <2>8. Renamed(place, place', r)
    BY <2>5, <2>6, <2>7 DEF Renamed
  <2>9. History(mem[p])
    BY <1>1, <2>1 DEF HeldOK, Active, Ended
  <2>10. PICK m, e : m = mem[p] /\ e = r
    OBVIOUS
  <2>11. History(Append(m, e))'
    BY <1>1, <1>3, <2>6, <2>8, <2>9, <2>10, HistoryGrows
  <2>12. History(mem[p])'
    BY <2>2, <2>10, <2>11 DEF History, Leads
  <2> QED BY <2>2, <2>12 DEF HeldOK
<1>6. CASE RestoreName(p)
  <2>1. PICK m, j, e : m = mem[p] /\ j = k[p] /\ e = [mem[p][k[p]] EXCEPT !.restored = TRUE]
    OBVIOUS
  <2>2. /\ pc[p] = "restore" /\ mem' = [mem EXCEPT ![p] = [mem[p] EXCEPT ![k[p]] = e]]
        /\ report' = [report EXCEPT ![p] = Append(report[p], mem'[p][k[p]])] /\ diags' = diags
        /\ CanRename(m[j].to, m[j].from) /\ place' = Moved(m[j].to, m[j].from)
    BY <1>6, <2>1 DEF RestoreName
  <2>3. m \in Seq(Entry) /\ j \in DOMAIN m /\ m[j] \in Entry
    BY <1>1, <2>1, <2>2 DEF TypeInv, CursorInv
  <2>4. e \in Entry /\ e.restored
    BY <2>1, <2>3 DEF Entry
  <2>5. mem'[p] = [m EXCEPT ![j] = e] /\ report'[p] /= <<>>
    <3>1. Append(report[p], mem'[p][k[p]]) /= <<>>
      BY <1>3, AppendIsMore
    <3> QED BY <1>1, <2>1, <2>2, <3>1 DEF TypeInv
  <2>6. ~diags[p]
    BY <1>3, <2>2, <2>5 DEF Fine
  <2>7. ~m[j].restored /\ \A i \in DOMAIN m : i > j => m[i].restored
    BY <1>1, <2>1, <2>2, <2>6 DEF BehindOK
  <2>8. Lstat(m[j].from) = Absent /\ Front(m[j].from) = Front(m[j].to)
    BY <1>1, <2>1, <2>2, <2>3 DEF FreeName, BesideInv, Beside
  <2>9. History(m)
    BY <1>1, <2>1, <2>2 DEF HeldOK, Active, Ended
  <2>10. History([m EXCEPT ![j] = e])'
    BY <1>1, <2>2, <2>3, <2>4, <2>7, <2>8, <2>9, HistoryShrinks
  <2>11. History(mem[p])'
    BY <2>5, <2>10 DEF History, Leads
  <2> QED BY <2>5, <2>11 DEF HeldOK
<1>7. CASE Save(p) \/ SaveFails(p) \/ Kill(p)
  BY <1>1, <1>7 DEF Save, SaveFails, Kill, Goto, TypeInv, HeldOK, Active, Ended
<1>8. CASE /\ ~LoadForFix(p) /\ ~LoadForRestore(p) /\ ~LoadForIndex(p) /\ ~RenameChild(p)
           /\ ~RestoreName(p) /\ ~Save(p) /\ ~SaveFails(p) /\ ~Kill(p)
  <2>1. UNCHANGED <<place, found, renames, mem, report>> /\ pc[p] \notin {"start", "ok", "error", "killed"}
    BY <1>8 DEF Run, ReadDir, ReadDirFails, NextChild, LeaveDir, VisitEnds, ProbeTarget,
         RenameChildFails, StatChild, SkipRestored, StatTo, SourceMissing, StatFrom, Collision,
         RestoreNameFails, RestoreEnds, file
  <2>2. History(mem[p]) /\ (report[p] = <<>> => mem[p] = Kept)
    BY <1>1, <2>1 DEF HeldOK, Active, Ended
  <2> QED BY <2>1, <2>2 DEF HeldOK, History, Leads, Kept
<1> QED BY <1>4, <1>5, <1>6, <1>7, <1>8

\* A restore without a diagnostic passes a record by only when it is restored.
LEMMA BehindStep ==
    ASSUME TypeInv, CursorInv, BesideInv, NEW p \in Procs, BehindOK(p), Run(p) \/ Kill(p)
    PROVE  BehindOK(p)'
<1>0. mem[p] \in Seq(Entry) /\ k[p] \in Nat /\ k[p] <= Len(mem[p]) /\ renames \in Seq(Entry)
  BY DEF TypeInv, CursorInv
<1>1. CASE LoadForRestore(p)
  <2>1. PICK l \in Loads : mem'[p] = Read(l) /\ k'[p] = Len(Read(l)) /\ pc'[p] \in {"pick", "error"}
    BY <1>1 DEF LoadForRestore, Goto, TypeInv
  <2>2. \A i \in DOMAIN Read(l) : ~(i > Len(Read(l)))
    BY LoadTypes
  <2> QED BY <2>1, <2>2 DEF BehindOK
<1>2. CASE SkipRestored(p)
  <2>1. /\ pc[p] = "pick" /\ pc'[p] = "pick" /\ k'[p] = k[p] - 1 /\ mem' = mem /\ diags' = diags
        /\ mem[p][k[p]].restored
    BY <1>2 DEF SkipRestored, Skip, Goto, TypeInv
  <2>2. \A i \in DOMAIN mem[p] : i > k[p] - 1 => i = k[p] \/ i > k[p]
    BY <1>0
  <2> QED BY <2>1, <2>2 DEF BehindOK
<1>3. CASE StatTo(p)
  <2>1. /\ pc[p] = "pick" /\ pc'[p] = "statfrom" /\ UNCHANGED <<place, mem, k, diags>>
        /\ ~mem[p][k[p]].restored /\ Lstat(mem[p][k[p]].to) \in Objects
    BY <1>3 DEF StatTo, Goto, TypeInv
  <2>2. Lstat(mem[p][k[p]].to)' = Lstat(mem[p][k[p]].to)
    BY <2>1 DEF Lstat
  <2> QED BY <2>1, <2>2 DEF BehindOK
<1>4. CASE SourceMissing(p) \/ RestoreNameFails(p)
  BY <1>4 DEF SourceMissing, RestoreNameFails, Report, BehindOK, TypeInv
<1>5. CASE Collision(p)
  <2>1. pc[p] = "statfrom" /\ (~diags'[p] => ~diags[p])
    BY <1>5 DEF Collision, TypeInv
  <2>2. ~diags[p] => Lstat(mem[p][k[p]].to) \in Objects
    BY <2>1 DEF BehindOK
  <2>3. diags'[p]
    BY <1>5, <2>1, <2>2, CollisionTells
  <2> QED BY <2>3 DEF BehindOK
<1>6. CASE StatFrom(p)
  BY <1>6 DEF StatFrom, Goto, BehindOK, TypeInv
<1>7. CASE RestoreName(p)
  <2>1. PICK m, j, e : m = mem[p] /\ j = k[p] /\ e = [mem[p][k[p]] EXCEPT !.restored = TRUE]
    OBVIOUS
  <2>2. /\ pc[p] = "restore" /\ pc'[p] = "pick" /\ k'[p] = k[p] - 1 /\ diags' = diags
        /\ mem'[p] = [m EXCEPT ![j] = e]
    BY <1>7, <2>1 DEF RestoreName, Skip, Goto, TypeInv
  <2>3. m \in Seq(Entry) /\ j \in DOMAIN m /\ m[j] \in Entry
    BY <1>0, <2>1, <2>2 DEF CursorInv
  <2>4. e.restored
    BY <2>1, <2>3 DEF Entry
  <2>5. \A i \in DOMAIN mem'[p] : i \in DOMAIN m /\ mem'[p][i] = IF i = j THEN e ELSE m[i]
    BY <2>2, <2>3
  <2>6. \A i \in DOMAIN m : i > k'[p] => i = j \/ i > k[p]
    BY <1>0, <2>1, <2>2, <2>3
  <2> QED BY <2>1, <2>2, <2>4, <2>5, <2>6 DEF BehindOK
<1>8. CASE \/ LoadForFix(p) \/ LoadForIndex(p) \/ ReadDir(p) \/ ReadDirFails(p) \/ NextChild(p)
           \/ LeaveDir(p) \/ VisitEnds(p) \/ ProbeTarget(p) \/ RenameChild(p)
           \/ RenameChildFails(p) \/ StatChild(p) \/ RestoreEnds(p) \/ Save(p) \/ SaveFails(p)
           \/ Kill(p)
  <2>1. pc'[p] \notin {"pick", "statfrom", "restore"}
    BY <1>8 DEF LoadForFix, LoadForIndex, ReadDir, ReadDirFails, NextChild, LeaveDir, VisitEnds,
         ProbeTarget, RenameChild, RenameChildFails, StatChild, RestoreEnds, Save, SaveFails,
         Kill, Goto, TypeInv
  <2> QED BY <2>1 DEF BehindOK
<1> QED BY <1>1, <1>2, <1>3, <1>4, <1>5, <1>6, <1>7, <1>8 DEF Run

\* When every record is restored, the tree is the first.
LEMMA BackStep ==
    ASSUME Concurrent = FALSE, TypeInv, CursorInv, PlanInv, OneAtATime, NEW p \in Procs,
           HeldOK(p), BehindOK(p), BackOK(p), Run(p) \/ Kill(p)
    PROVE  BackOK(p)'
<1> SUFFICES ASSUME op'[p] = "restore", pc'[p] \in {"save", "ok"}, ~diags'[p],
                    \A x \in Procs : x > p => pc'[x] = "start"
             PROVE  place' = Tree
  BY DEF BackOK
<1>1. op[p] = "restore" /\ (RestoreEnds(p) \/ Save(p))
  BY DEF Run, LoadForFix, LoadForRestore, LoadForIndex, ReadDir, ReadDirFails, NextChild,
         LeaveDir, VisitEnds, ProbeTarget, RenameChild, RenameChildFails, StatChild, SkipRestored,
         StatTo, SourceMissing, StatFrom, Collision, RestoreName, RestoreNameFails, RestoreEnds,
         Save, SaveFails, Kill, Goto, Skip, TypeInv, Label, PlanInv
<1>2. ~diags[p] /\ place' = place
  BY <1>1 DEF RestoreEnds, Save
<1>3. CASE RestoreEnds(p)
  <2>1. pc[p] = "pick" /\ k[p] = 0
    BY <1>3 DEF RestoreEnds
  <2>2. mem[p] \in Seq(Entry) /\ History(mem[p])
    BY <2>1 DEF HeldOK, Active, Ended, TypeInv
  <2>3. PICK m : m = mem[p]
    OBVIOUS
  <2>4. PICK T \in [0..Len(m) -> Trees] : Leads(T, m)
    BY <2>2, <2>3 DEF History
  <2>5. \A i \in DOMAIN m : i > 0 => m[i].restored
    BY <1>2, <2>1, <2>3 DEF BehindOK
  <2>6. 0 \in 0..Len(m)
    BY <2>2, <2>3
  <2>7. T[0] = place
    BY <2>2, <2>3, <2>4, <2>5, <2>6, LastTree
  <2> QED BY <1>2, <2>4, <2>7 DEF Leads
<1>4. CASE Save(p)
  <2>1. pc[p] = "save" /\ \A x \in Procs : x > p => pc[x] = "start"
    <3>1. \A x \in Procs : x > p => x /= p
      BY RunsAssumption
    <3>2. \A x \in Procs : x /= p => pc'[x] = pc[x]
      BY Alone
    <3> QED BY <1>4, <3>1, <3>2 DEF Save
  <2> QED BY <1>1, <1>2, <2>1 DEF BackOK
<1> QED BY <1>1, <1>3, <1>4

\* Once a run has ended, the records of the state file lead to the tree.
LEMMA FileStep ==
    ASSUME Concurrent = FALSE, TidyInv, RecordInv, UndoInv, Clear, Clear',
           NEW p \in Procs, Run(p) \/ Kill(p), \A q \in Procs : ~Active(q)'
    PROVE  History(Kept)'
<1>1. TypeInv /\ OneAtATime /\ StartInv /\ HeldOK(p) /\ Fine(p)'
  BY DEF TidyInv, BaseInv, RecordInv, UndoInv, Clear
<1>2. /\ (pc[p] = "start" /\ Free(p)) \/ Active(p)
      /\ \A q \in Procs : q /= p => ~Active(q) /\ pc'[q] = pc[q]
      /\ pc' \in [Procs -> Label] /\ pc'[p] /= "start"
  BY <1>1, Alone
<1>3. pc'[p] \in {"ok", "error", "killed"}
  BY <1>2 DEF Active, Ended
<1>4. PICK m : m = Kept'
  OBVIOUS
<1>5. place' = place
  BY <1>1, <1>3 DEF Run, LoadForFix, LoadForRestore, LoadForIndex, ReadDir, ReadDirFails, NextChild,
         LeaveDir, VisitEnds, ProbeTarget, RenameChild, RenameChildFails, StatChild, SkipRestored,
         StatTo, SourceMissing, StatFrom, Collision, RestoreName, RestoreNameFails, RestoreEnds,
         Save, SaveFails, Kill, Goto, Skip, TypeInv
<1>6. History(m)
  <2>1. CASE pc[p] = "start"
    <3>1. \A q \in Procs : ~Active(q)
      BY <1>2, <2>1 DEF Active
    <3>2. UNCHANGED <<found, renames>>
      BY <2>1 DEF Run, LoadForFix, LoadForRestore, LoadForIndex, ReadDir, ReadDirFails, NextChild,
         LeaveDir, VisitEnds, ProbeTarget, RenameChild, RenameChildFails, StatChild, SkipRestored,
         StatTo, SourceMissing, StatFrom, Collision, RestoreName, RestoreNameFails, RestoreEnds,
         Save, SaveFails, Kill, file, Ended
    <3> QED BY <1>4, <3>1, <3>2 DEF UndoInv, Kept
  <2>2. CASE Save(p)
    BY <1>1, <1>4, <2>2 DEF Save, HeldOK, Active, Ended, Kept
  <2>3. CASE pc[p] /= "start" /\ ~Save(p)
    <3>1. pc'[p] \in {"error", "killed"} /\ UNCHANGED <<found, renames, report>>
      BY <1>1, <1>3, <2>3 DEF Run, LoadForFix, LoadForRestore, LoadForIndex, ReadDir, ReadDirFails, NextChild,
         LeaveDir, VisitEnds, ProbeTarget, RenameChild, RenameChildFails, StatChild, SkipRestored,
         StatTo, SourceMissing, StatFrom, Collision, RestoreName, RestoreNameFails, RestoreEnds,
         Save, SaveFails, Kill, Goto, Skip, TypeInv, file
    <3>2. report[p] = <<>>
      BY <1>1, <3>1 DEF Fine
    <3> QED BY <1>1, <1>2, <1>4, <2>3, <3>1, <3>2 DEF HeldOK, Kept
  <2> QED BY <2>1, <2>2, <2>3
<1>7. History(m)'
  BY <1>5, <1>6, HistoryStays
<1> QED BY <1>4, <1>7 DEF History, Leads

\* Every step of a run keeps all this.
LEMMA UndoStep ==
    ASSUME Concurrent = FALSE, TidyInv, BaseInv', RecordInv, SweepInv, UndoInv,
           NEW p \in Procs, Run(p) \/ Kill(p)
    PROVE  UndoInv'
<1> SUFFICES ASSUME Clear'
             PROVE  /\ \A q \in Procs : HeldOK(q)' /\ BehindOK(q)' /\ BackOK(q)'
                    /\ (\A q \in Procs : ~Active(q)') => History(Kept)'
  BY DEF UndoInv
<1>1. /\ TypeInv /\ CursorInv /\ BesideInv /\ PlanInv /\ OneAtATime
  BY DEF TidyInv, BaseInv
<1>2. Clear
  BY <1>1, FineBefore
<1>3. HeldOK(p) /\ BehindOK(p) /\ BackOK(p)
  BY <1>2 DEF UndoInv
<1>4. /\ (pc[p] = "start" /\ Free(p)) \/ Active(p)
      /\ \A x \in Procs : x /= p => ~Active(x) /\ pc'[x] = pc[x]
      /\ pc'[p] /= "start"
  BY <1>1, Alone
<1>5. HeldOK(p)' /\ BehindOK(p)' /\ BackOK(p)'
  BY <1>1, <1>2, <1>3, HeldStep, BehindStep, BackStep
<1>6. ASSUME NEW q \in Procs, q /= p PROVE HeldOK(q)' /\ BehindOK(q)' /\ BackOK(q)'
  <2>1. ~Active(q) /\ pc'[q] = pc[q]
    BY <1>4, <1>6
  <2>2. pc'[q] \in {"start", "ok", "error", "killed"}
    BY <2>1 DEF Active, Ended
  <2>3. HeldOK(q)' /\ BehindOK(q)'
    BY <2>2 DEF HeldOK, BehindOK, Active, Ended
  <2>4. CASE q < p
    <3>1. ~(\A x \in Procs : x > q => pc'[x] = "start")
      BY <1>4, <2>4, RunsAssumption
    <3> QED BY <2>3, <3>1 DEF BackOK
  <2>5. CASE p < q
    <3>1. pc[q] = "start"
      BY <1>1, <1>4, <2>5 DEF OneAtATime, Active, Ended
    <3> QED BY <2>1, <2>3, <3>1 DEF BackOK
  <2> QED BY <1>6, <2>4, <2>5, RunsAssumption
<1>7. (\A q \in Procs : ~Active(q)') => History(Kept)'
  BY <1>2, FileStep
<1> QED BY <1>5, <1>6, <1>7

\* Nobody else takes part, as long as the user changes nothing.
LEMMA UndoNext ==
    Concurrent = FALSE /\ TidyInv /\ RecordInv /\ SweepInv /\ UndoInv /\ [Next]_vars => UndoInv'
<1> SUFFICES ASSUME Concurrent = FALSE, TidyInv, RecordInv, SweepInv, UndoInv, [Next]_vars
             PROVE  UndoInv'
  OBVIOUS
<1>0. BaseInv'
  BY BaseStep DEF TidyInv
<1>1. ASSUME NEW p \in Procs, Run(p) \/ Kill(p) PROVE UndoInv'
  BY <1>0, <1>1, UndoStep
<1>2. CASE User
  BY <1>2, UserCounts DEF TidyInv, BaseInv, UndoInv, Clear
<1>3. CASE UNCHANGED vars
  <2>1. UNCHANGED <<place, found, renames, op, pc, loaded, mem, k, diags, report, changes>>
    BY <1>3 DEF vars, file, tool, user
  <2>2. Clear' => Clear
    BY <2>1 DEF Clear, Fine
  <2>3. \A p \in Procs : Lstat(mem[p][k[p]].to)' = Lstat(mem[p][k[p]].to)
    BY <2>1 DEF Lstat
  <2>4. (History(Kept) => History(Kept)') /\ Kept' = Kept /\ \A p \in Procs : History(mem[p]) => History(mem[p])'
    BY <2>1 DEF History, Leads, Kept
  <2>5. ASSUME NEW p \in Procs, HeldOK(p), BehindOK(p), BackOK(p)
        PROVE  HeldOK(p)' /\ BehindOK(p)' /\ BackOK(p)'
    BY <2>1, <2>3, <2>4, <2>5 DEF HeldOK, BehindOK, BackOK, Active, Ended
  <2> QED BY <2>1, <2>2, <2>4, <2>5 DEF UndoInv, Active, Ended
<1> QED BY <1>1, <1>2, <1>3 DEF Next, Finished

\* Nothing is renamed at the start.
LEMMA UndoInit == Init => UndoInv
<1> SUFFICES ASSUME Init PROVE UndoInv
  OBVIOUS
<1> DEFINE T == [i \in 0..0 |-> Tree]
<1>1. place = Tree /\ Kept = <<>> /\ \A p \in Procs : pc[p] = "start"
  BY DEF Init, Kept
<1>2. T \in [0..0 -> Trees] /\ T[0] = Tree
  BY TreeAssumption DEF Trees
<1> HIDE DEF T
<1>3. History(Kept)
  BY <1>1, <1>2 DEF History, Leads
<1> QED BY <1>1, <1>3 DEF UndoInv, HeldOK, BehindOK, BackOK, Active

\* When runs do not overlap, the last restore leaves the tree as it was before the first
\* run, if no run that renamed something failed or had a diagnostic, no index failed to
\* read the state file and the user changed nothing: in any tree, for any number of runs and of renames in each.
THEOREM RestoredNames == Concurrent = FALSE => (Spec => []RestoreUndoesFix)
<1> SUFFICES ASSUME Concurrent = FALSE PROVE Spec => []RestoreUndoesFix
  OBVIOUS
<1>1. Init => TidyInv /\ RecordInv /\ SweepInv /\ UndoInv
  <2>1. Init => SweepInv
    BY DEF Init, SweepInv, WalkOK, CleanOK
  <2> QED BY <2>1, TidyInit, RecordInit, UndoInit
<1>2. TidyInv /\ RecordInv /\ SweepInv /\ UndoInv /\ [Next]_vars
        => (TidyInv /\ RecordInv /\ SweepInv /\ UndoInv)'
  <2>1. TidyInv => BaseInv
    BY DEF TidyInv
  <2> QED BY <2>1, TidyStep, RecordNext, SweepNext, UndoNext
<1>3. RecordInv /\ UndoInv => RestoreUndoesFix
  <2> SUFFICES ASSUME RecordInv, UndoInv, changes = 0,
                      NEW p \in Procs, op[p] = "restore", Quiet(p), \A q \in Procs : q > p => pc[q] = "start",
                      \A q \in Procs : Quiet(q) \/ pc[q] = "start" \/ report[q] = <<>>,
                      \A q \in Procs : op[q] = "index" => loaded[q] /= "unread"
               PROVE  place = Tree
    BY DEF RestoreUndoesFix
  <2>1. \A q \in Procs : Fine(q)
    BY DEF Fine, Quiet, RecordInv, StartInv
  <2> QED BY <2>1 DEF UndoInv, Clear, BackOK, Quiet
<1> QED BY <1>1, <1>2, <1>3, PTL DEF Spec
=============================================================================
