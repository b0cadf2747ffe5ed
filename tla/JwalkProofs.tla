---------------------------- MODULE JwalkProofs -----------------------------
(***************************************************************************)
(* For any forest of directories, files and links, however many entries    *)
(* and of whatever depth, any roots, any filters and any entries vanishing *)
(* at any moment: the types; that jwalk lists all that its roots lead to   *)
(* and nothing else when nothing vanishes; and, without links and with     *)
(* roots apart, that it lists nothing twice.                               *)
(***************************************************************************)
EXTENDS Jwalk, TLAPS, WellFoundedInduction

-----------------------------------------------------------------------------
(* The forest. *)

\* A set of numbers that is not empty has a smallest one.
LEMMA SmallestOne ==
    ASSUME NEW T, T \subseteq Nat, T /= {}
    PROVE  \E x \in T : \A y \in T : x <= y
<1> DEFINE R == {ss \in Nat \X Nat : ss[1] < ss[2]}
<1>1. IsWellFoundedOn(R, Nat)
  BY NatLessThanWellFounded, Zenon DEF OpToRel
<1> HIDE DEF R
<1>2. PICK x \in T : \A y \in T : ~ (<<y, x>> \in R)
  BY <1>1, WFMin
<1>3. \A y \in T : ~(y < x)
  BY <1>2 DEF R
<1> QED BY <1>3

\* The first of the entries to visit is one of them.
LEMMA EntryIsOne ==
    ASSUME todo \subseteq Entries, todo /= {}
    PROVE  entry \in todo
<1>1. \E x \in todo : \A y \in todo : x <= y
  BY SmallestOne, EntriesAssumption
<1> QED BY <1>1 DEF entry, Min

\* Ancestors is the function its equation describes: the least sets that are closed
\* under Parent solve it.
LEMMA AncestorsEquation ==
    Ancestors = [e \in Entries |-> {e} \union IF Parent[e] = 0 THEN {} ELSE Ancestors[Parent[e]]]
<1> DEFINE up(S) == \A x \in S : Parent[x] /= 0 => Parent[x] \in S
           least(e) == {a \in Entries : \A S \in SUBSET Entries : e \in S /\ up(S) => a \in S}
           g == [e \in Entries |-> least(e)]
<1>1. ASSUME NEW e \in Entries
      PROVE  least(e) = {e} \union IF Parent[e] = 0 THEN {} ELSE least(Parent[e])
  <2> DEFINE rest == IF Parent[e] = 0 THEN {} ELSE least(Parent[e])
  <2>1. Parent[e] /= 0 => Parent[e] \in Entries
    BY EntriesAssumption
  <2>2. {e} \union rest \subseteq least(e)
    BY <2>1
  <2>3. {e} \union rest \in SUBSET Entries
    OBVIOUS
  <2>4. up({e} \union rest)
    <3>1. ASSUME NEW x \in rest, Parent[x] /= 0 PROVE Parent[x] \in rest
      BY <3>1, EntriesAssumption
    <3>2. Parent[e] /= 0 => Parent[e] \in rest
      BY <2>1
    <3> QED BY <3>1, <3>2
  <2>5. least(e) \subseteq {e} \union rest
    BY <2>3, <2>4
  <2> QED BY <2>2, <2>5
<1> HIDE DEF least
<1>2. g = [e \in Entries |-> {e} \union IF Parent[e] = 0 THEN {} ELSE g[Parent[e]]]
  BY <1>1, EntriesAssumption
<1> HIDE DEF g
<1> QED BY <1>2 DEF Ancestors

\* An entry is its own ancestor, and its others are those of its directory.
LEMMA AncestorsOf ==
    ASSUME NEW e \in Entries
    PROVE  /\ e \in Ancestors[e]
           /\ Parent[e] /= 0 => Ancestors[e] = {e} \union Ancestors[Parent[e]]
           /\ Parent[e] = 0 => Ancestors[e] = {e}
<1> DEFINE above == IF Parent[e] = 0 THEN {} ELSE Ancestors[Parent[e]]
<1>1. Ancestors[e] = {e} \union above
  BY AncestorsEquation
<1> QED BY <1>1

\* An ancestor has no greater number, and its directory is an ancestor as well.
LEMMA AncestorsUp ==
    ASSUME NEW e \in Entries, NEW a \in Ancestors[e]
    PROVE  a \in Entries /\ a <= e /\ (Parent[a] /= 0 => Parent[a] \in Ancestors[e])
<1> DEFINE good(x) == \A b \in Ancestors[x] :
               b \in Entries /\ b <= x /\ (Parent[b] /= 0 => Parent[b] \in Ancestors[x])
           T == {x \in Entries : ~good(x)}
<1>1. SUFFICES ASSUME T /= {} PROVE FALSE
  OBVIOUS
<1>2. PICK x \in T : \A y \in T : x <= y
  BY <1>1, SmallestOne, EntriesAssumption
<1>3. x \in Entries /\ x \in Nat /\ ~good(x)
  BY <1>2, EntriesAssumption
<1>4. CASE Parent[x] = 0
  <2>1. Ancestors[x] = {x}
    BY <1>3, <1>4, AncestorsOf
  <2> QED BY <1>3, <1>4, <2>1
<1>5. CASE Parent[x] /= 0
  <2>1. Parent[x] \in Entries /\ Parent[x] \in Nat /\ Parent[x] < x
    BY <1>3, <1>5, EntriesAssumption
  <2>2. good(Parent[x])
    BY <1>2, <1>3, <2>1
  <2>3. Ancestors[x] = {x} \union Ancestors[Parent[x]] /\ Parent[x] \in Ancestors[Parent[x]]
    BY <1>3, <1>5, <2>1, AncestorsOf
  <2>4. \A b \in Ancestors[Parent[x]] : b \in Nat /\ b <= x
    BY <1>3, <2>1, <2>2, EntriesAssumption
  <2> QED BY <1>3, <2>2, <2>3, <2>4
<1> QED BY <1>4, <1>5

-----------------------------------------------------------------------------
(* The inductive invariant. *)

\* The types.
TypeInv ==
    /\ roots \in RootLists /\ follow \in BOOLEAN /\ failOnError \in BOOLEAN
    /\ gone \in SUBSET Entries
    /\ pending \in Seq(Entries) /\ visited \in SUBSET Entries /\ todo \in SUBSET Entries
    /\ phase \in {"root", "entry", "list"}
    /\ listed \in [{"ok", "error"} -> [Entries -> Nat]]
    /\ walkExit \in {-1, 0, 2, 3}
    /\ phase = "list" => todo /= {} /\ Kind[entry] = "dir"

\* Whatever set has the roots and is closed has all that is to be walked and listed.
SoundInv == \A S \in SUBSET Entries :
    Range(roots) \subseteq S /\ Closed(S, follow) =>
        /\ Range(pending) \subseteq S /\ todo \subseteq S
        /\ \A e \in Entries : listed["ok"][e] > 0 \/ listed["error"][e] > 0 => e \in S

\* A record says what it says of the right entries.
RecordInv == \A e \in Entries :
    /\ listed["ok"][e] > 0 => e \in Wanted /\ (Kind[e] = "link" => follow)
    /\ gone = {} /\ listed["error"][e] > 0 => e \in Unreadable

\* The entry has the records it has to have.
Reported(e) ==
    /\ e \in Wanted /\ (Kind[e] = "link" => follow) => listed["ok"][e] > 0
    /\ e \in Unreadable => listed["error"][e] > 0

\* The entries D are done with: reported, as all that they lead to is, or will be.
Done(D) ==
    /\ \A d \in D : Reported(d) /\ LeadsTo(d, follow) \subseteq D \union todo \union Range(pending)
    /\ Range(roots) \subseteq D \union todo \union Range(pending)
    /\ visited \subseteq D \union todo

\* Nothing is forgotten as long as nothing vanishes and the walk is not given up.
GivenUp == walkExit = 2 \/ (failOnError /\ walkExit = 3)
CompleteInv == gone = {} /\ ~GivenUp =>
    /\ \E D \in SUBSET Entries : Done(D)
    /\ phase = "list" /\ entry \in Wanted => listed["ok"][entry] > 0
    /\ walkExit /= -1 =>
         /\ todo = {} /\ pending = <<>>
         /\ walkExit = 0 <=> \A e \in Entries : listed["error"][e] = 0

\* An entry that was listed has one record of a status; what is still to be walked lies
\* apart, with no record below it but that of a directory which is about to be listed;
\* so do the roots that wait.
Status == {"ok", "error"}
Once == \A s \in Status, e \in Entries : listed[s][e] <= 1
TodoApart == \A t, u \in todo : t /= u => t \notin Ancestors[u]
TodoFresh == \A t \in todo, s \in Status, e \in Entries :
    t \in Ancestors[e] /\ listed[s][e] > 0 => phase = "list" /\ s = "ok" /\ t = entry /\ e = entry
Waiting(r) ==
    /\ \A t \in todo : t \notin Ancestors[r] /\ r \notin Ancestors[t]
    /\ \A s \in Status, e \in Entries : listed[s][e] > 0 => r \notin Ancestors[e]
PendingApart == \A i \in DOMAIN pending :
    /\ Waiting(pending[i])
    /\ \A j \in DOMAIN pending : i /= j => pending[i] \notin Ancestors[pending[j]]
OnceInv == gone = {} /\ ~follow /\ Apart => Once /\ TodoApart /\ TodoFresh /\ PendingApart

WalkInv == TypeInv /\ SoundInv /\ RecordInv /\ CompleteInv /\ OnceInv

-----------------------------------------------------------------------------
(* Types. *)

\* What a new record changes.
LEMMA AddOne ==
    ASSUME TypeInv, entry \in Entries, NEW s \in Status, Add(s)
    PROVE  /\ listed' \in [Status -> [Entries -> Nat]]
           /\ \A t \in Status, e \in Entries :
                listed'[t][e] = IF t = s /\ e = entry THEN listed[t][e] + 1 ELSE listed[t][e]
  BY DEF TypeInv, Add, Status

\* A visit adds one record of its entry or none.
LEMMA AddMatchingOne ==
    ASSUME TypeInv, entry \in Entries, AddMatching
    PROVE  /\ listed' \in [Status -> [Entries -> Nat]]
           /\ \A t \in Status, e \in Entries :
                listed'[t][e] = IF t = "ok" /\ e = entry /\ entry \in Wanted
                                THEN listed[t][e] + 1 ELSE listed[t][e]
<1>1. CASE entry \in Wanted
  BY <1>1, AddOne DEF AddMatching, matches, Status
<1>2. CASE entry \notin Wanted
  BY <1>2 DEF AddMatching, matches, TypeInv, Status
<1> QED BY <1>1, <1>2

\* The entry of a walk that goes on.
LEMMA WalkingEntry ==
    ASSUME TypeInv, NEW p, Walking(p)
    PROVE  entry \in todo /\ entry \in Entries
  BY EntryIsOne DEF TypeInv, Walking

\* Every step keeps the types.
LEMMA TypeStep ==
    ASSUME TypeInv, WalkNext
    PROVE  TypeInv'
<1> USE DEF walkOptions
<1>1. CASE RootMissing
  BY <1>1 DEF RootMissing, Between, TypeInv, NoRecords
<1>2. CASE SkipVisited
  BY <1>2 DEF SkipVisited, Between, TypeInv
<1>3. CASE NextRoot
  BY <1>3 DEF NextRoot, Between, TypeInv
<1>4. CASE RootVanished \/ ReadDirFails
  <2>1. entry \in Entries /\ Add("error")
    BY <1>4, WalkingEntry DEF RootVanished, ReadDirFails, Fail
  <2>2. listed' \in [Status -> [Entries -> Nat]]
    BY <2>1, AddOne DEF Status
  <2> QED BY <1>4, <2>2 DEF RootVanished, ReadDirFails, Fail, Leave, TypeInv, Status
<1>5. CASE VisitFails
  <2>1. entry \in Entries /\ Add("error")
    BY <1>5, WalkingEntry DEF VisitFails, Fail
  <2>2. listed' \in [Status -> [Entries -> Nat]]
    BY <2>1, AddOne DEF Status
  <2>3. phase' = "list" => todo' /= {} /\ Kind[entry'] = "dir"
    BY <1>5 DEF VisitFails, Leave, entry, Walking
  <2> QED BY <1>5, <2>2, <2>3 DEF VisitFails, Fail, Leave, TypeInv, Status
<1>6. CASE PassOverLink
  BY <1>6 DEF PassOverLink, Leave, TypeInv
<1>7. CASE VisitLink \/ VisitFile
  <2>1. entry \in Entries /\ AddMatching
    BY <1>7, WalkingEntry DEF VisitLink, VisitFile, Visiting
  <2>2. listed' \in [Status -> [Entries -> Nat]]
    BY <2>1, AddMatchingOne
  <2>3. pending' \in Seq(Entries)
    <3>1. Target[entry] /= 0 => Target[entry] \in Entries
      BY <2>1, EntriesAssumption
    <3>2. CASE VisitLink
      BY <3>1, <3>2 DEF VisitLink, TypeInv
    <3>3. CASE VisitFile
      BY <3>3 DEF VisitFile, TypeInv
    <3> QED BY <1>7, <3>2, <3>3
  <2> QED BY <1>7, <2>2, <2>3 DEF VisitLink, VisitFile, Leave, TypeInv, Status
<1>8. CASE VisitDir
  <2>1. entry \in Entries /\ AddMatching
    BY <1>8, WalkingEntry DEF VisitDir, Visiting
  <2>2. listed' \in [Status -> [Entries -> Nat]]
    BY <2>1, AddMatchingOne
  <2>3. todo' /= {} /\ Kind[entry'] = "dir"
    BY <1>8 DEF VisitDir, Visiting, entry, Walking
  <2> QED BY <1>8, <2>1, <2>2, <2>3 DEF VisitDir, TypeInv, Status
<1>9. CASE ReadDir
  BY <1>9 DEF ReadDir, Below, TypeInv
<1>10. CASE Return
  BY <1>10 DEF Return, TypeInv, Between
<1>11. CASE \E e \in Entries : Vanish(e)
  BY <1>11 DEF Vanish, Subtree, TypeInv, entry
<1> QED BY <1>1, <1>2, <1>3, <1>4, <1>5, <1>6, <1>7, <1>8, <1>9, <1>10, <1>11
        DEF WalkNext, WalkStep

-----------------------------------------------------------------------------
(* What is walked and listed belongs there. *)

\* The members of a queue, of its rest, and of a longer one.
LEMMA QueueMembers ==
    ASSUME NEW T, NEW s \in Seq(T)
    PROVE  /\ s /= <<>> => /\ Head(s) \in T /\ Tail(s) \in Seq(T)
                           /\ Range(s) = {Head(s)} \union Range(Tail(s))
           /\ \A e \in T : Range(Append(s, e)) = Range(s) \union {e}
<1>1. ASSUME s /= <<>>
      PROVE  Head(s) \in T /\ Tail(s) \in Seq(T) /\ Range(s) = {Head(s)} \union Range(Tail(s))
  <2>1. \A i \in DOMAIN s : i = 1 \/ (i - 1 \in DOMAIN Tail(s) /\ s[i] = Tail(s)[i - 1])
    BY <1>1
  <2>2. \A i \in DOMAIN Tail(s) : i + 1 \in DOMAIN s /\ Tail(s)[i] = s[i + 1]
    BY <1>1
  <2>3. 1 \in DOMAIN s /\ s[1] = Head(s)
    BY <1>1
  <2>4. Range(s) \subseteq {Head(s)} \union Range(Tail(s))
    BY <2>1, <2>3 DEF Range
  <2>5. {Head(s)} \union Range(Tail(s)) \subseteq Range(s)
    BY <2>2, <2>3 DEF Range
  <2> QED BY <1>1, <2>4, <2>5
<1>2. ASSUME NEW e \in T
      PROVE  Range(Append(s, e)) = Range(s) \union {e}
  <2>1. DOMAIN Append(s, e) = DOMAIN s \union {Len(s) + 1}
    OBVIOUS
  <2>2. \A i \in DOMAIN s : Append(s, e)[i] = s[i]
    OBVIOUS
  <2>3. Append(s, e)[Len(s) + 1] = e /\ Len(s) + 1 \notin DOMAIN s
    OBVIOUS
  <2> QED BY <2>1, <2>2, <2>3 DEF Range
<1> QED BY <1>1, <1>2

\* What a directory lists and where a link leads are what they lead to.
LEMMA LeadsToBelow ==
    ASSUME NEW e \in Entries
    PROVE  /\ e \notin Unreadable => Below(e) \subseteq LeadsTo(e, follow)
           /\ gone = {} /\ e \notin Unreadable /\ Kind[e] = "dir" => LeadsTo(e, follow) = Below(e)
           /\ e \in Unreadable \/ Kind[e] = "file" => LeadsTo(e, follow) = {}
           /\ Kind[e] = "link" /\ ~follow => LeadsTo(e, follow) = {}
           /\ Kind[e] = "link" /\ follow =>
                LeadsTo(e, follow) = IF Target[e] /= 0 /\ Kind[Target[e]] = "dir" THEN {Target[e]} ELSE {}
<1>1. \A x \in Entries : Parent[x] = e => Kind[e] = "dir"
  BY EntriesAssumption
<1>2. e \in Unreadable => Kind[e] = "dir"
  BY EntriesAssumption
<1>3. 0 \notin Entries /\ Target[e] \in Entries \union {0}
  BY EntriesAssumption
<1> QED BY <1>1, <1>2, <1>3 DEF LeadsTo, Below

\* A set that has all there is to walk and is closed has all there will be.
LEMMA SoundStep ==
    ASSUME TypeInv, SoundInv, WalkStep
    PROVE  SoundInv'
<1> SUFFICES ASSUME NEW S \in SUBSET Entries, Range(roots) \subseteq S, Closed(S, follow)
             PROVE  /\ Range(pending') \subseteq S /\ todo' \subseteq S
                    /\ \A e \in Entries : listed'["ok"][e] > 0 \/ listed'["error"][e] > 0 => e \in S
  <2>1. UNCHANGED <<roots, follow>>
    BY DEF WalkStep, RootMissing, SkipVisited, NextRoot, RootVanished, VisitFails, PassOverLink,
         VisitLink, VisitFile, VisitDir, ReadDir, ReadDirFails, Return, walkOptions
  <2> QED BY <2>1 DEF SoundInv, Closed
<1>p. pending \in Seq(Entries) /\ Range(pending) \subseteq S /\ todo \subseteq S
  BY DEF TypeInv, SoundInv
<1>l. \A e \in Entries : listed["ok"][e] > 0 \/ listed["error"][e] > 0 => e \in S
  BY DEF SoundInv
<1>e. ASSUME NEW p, Walking(p)
      PROVE  /\ entry \in S /\ entry \in Entries /\ LeadsTo(entry, follow) \subseteq S
             /\ \A s \in Status : Add(s) => \A e \in Entries :
                  listed'["ok"][e] > 0 \/ listed'["error"][e] > 0 => e \in S
             /\ AddMatching => \A e \in Entries :
                  listed'["ok"][e] > 0 \/ listed'["error"][e] > 0 => e \in S
  <2>1. entry \in S /\ entry \in Entries
    BY <1>e, <1>p, WalkingEntry
  <2>2. LeadsTo(entry, follow) \subseteq S
    BY <2>1 DEF Closed
  <2>3. ASSUME NEW s \in Status, Add(s), NEW e \in Entries, listed'["ok"][e] > 0 \/ listed'["error"][e] > 0
        PROVE  e \in S
    BY <1>l, <2>1, <2>3, AddOne DEF Status
  <2>4. ASSUME AddMatching, NEW e \in Entries, listed'["ok"][e] > 0 \/ listed'["error"][e] > 0
        PROVE  e \in S
    BY <1>l, <2>1, <2>4, AddMatchingOne DEF Status
  <2> QED BY <2>1, <2>2, <2>3, <2>4
<1>1. CASE RootMissing
  BY <1>1, <1>p DEF RootMissing, NoRecords
<1>2. CASE SkipVisited \/ NextRoot
  <2>1. Head(pending) \in S /\ Range(Tail(pending)) \subseteq S
    BY <1>2, <1>p, QueueMembers DEF SkipVisited, NextRoot
  <2> QED BY <1>2, <1>p, <1>l, <2>1 DEF SkipVisited, NextRoot
<1>3. CASE RootVanished \/ ReadDirFails \/ VisitFails
  <2>1. todo' \subseteq S /\ pending' = pending
    BY <1>3, <1>p DEF RootVanished, ReadDirFails, VisitFails, Leave
  <2>2. Add("error") /\ \E p : Walking(p)
    BY <1>3 DEF RootVanished, ReadDirFails, VisitFails, Fail
  <2> QED BY <1>p, <1>e, <2>1, <2>2 DEF Status
<1>4. CASE PassOverLink
  BY <1>4, <1>p, <1>l DEF PassOverLink, Leave
<1>5. CASE VisitFile \/ VisitDir
  <2>1. todo' \subseteq S /\ pending' = pending
    BY <1>5, <1>p DEF VisitFile, VisitDir, Leave
  <2>2. AddMatching /\ \E p : Walking(p)
    BY <1>5 DEF VisitFile, VisitDir, Visiting
  <2> QED BY <1>p, <1>e, <2>1, <2>2
<1>6. CASE VisitLink
  <2>1. AddMatching /\ (\E p : Walking(p)) /\ Kind[entry] = "link" /\ follow
    BY <1>6 DEF VisitLink, Visiting
  <2>2. entry \in Entries /\ LeadsTo(entry, follow) \subseteq S
    BY <1>e, <2>1
  <2>3. Target[entry] /= 0 /\ Kind[Target[entry]] = "dir" => Target[entry] \in Entries /\ Target[entry] \in S
    BY <2>1, <2>2, LeadsToBelow, EntriesAssumption
  <2>4. Range(pending') \subseteq S
    <3>1. pending' = pending \/ (Target[entry] \in Entries /\ Target[entry] \in S /\ pending' = Append(pending, Target[entry]))
      BY <1>6, <2>3 DEF VisitLink
    <3>2. Target[entry] \in Entries => Range(Append(pending, Target[entry])) = Range(pending) \union {Target[entry]}
      BY <1>p, QueueMembers
    <3> QED BY <1>p, <3>1, <3>2
  <2> QED BY <1>6, <1>p, <1>e, <2>1, <2>4 DEF VisitLink, Leave
<1>7. CASE ReadDir
  <2>1. Below(entry) \subseteq S
    BY <1>7, <1>e, LeadsToBelow DEF ReadDir
  <2> QED BY <1>7, <1>p, <1>l, <2>1 DEF ReadDir
<1>8. CASE Return
  BY <1>8, <1>p, <1>l DEF Return
<1> QED BY <1>1, <1>2, <1>3, <1>4, <1>5, <1>6, <1>7, <1>8 DEF WalkStep

\* A record is made of the right entry.
LEMMA RecordStep ==
    ASSUME TypeInv, RecordInv, WalkStep
    PROVE  RecordInv'
<1>g. UNCHANGED <<follow, gone>>
  BY DEF WalkStep, RootMissing, SkipVisited, NextRoot, RootVanished, VisitFails, PassOverLink,
       VisitLink, VisitFile, VisitDir, ReadDir, ReadDirFails, Return, walkOptions
<1>1. CASE RootMissing
  BY <1>1 DEF RootMissing, NoRecords, RecordInv
<1>2. CASE UNCHANGED listed
  BY <1>g, <1>2 DEF RecordInv
<1>3. CASE RootVanished \/ ReadDirFails \/ VisitFails
  <2>1. Add("error") /\ entry \in Entries /\ entry \in gone \union Unreadable
    BY <1>3, WalkingEntry DEF RootVanished, ReadDirFails, VisitFails, Fail
  <2>2. \A t \in Status, e \in Entries :
          listed'[t][e] = IF t = "error" /\ e = entry THEN listed[t][e] + 1 ELSE listed[t][e]
    BY <2>1, AddOne DEF Status
  <2>3. ASSUME NEW e \in Entries
        PROVE  /\ listed'["ok"][e] > 0 => listed["ok"][e] > 0
               /\ listed'["error"][e] > 0 => listed["error"][e] > 0 \/ e = entry
    BY <2>2 DEF Status
  <2> QED BY <1>g, <2>1, <2>3 DEF RecordInv
<1>4. CASE VisitLink \/ VisitFile \/ VisitDir
  <2>1. AddMatching /\ entry \in Entries /\ (Kind[entry] = "link" => follow)
    BY <1>4, WalkingEntry DEF VisitLink, VisitFile, VisitDir, Visiting
  <2>2. \A t \in Status, e \in Entries :
          listed'[t][e] = IF t = "ok" /\ e = entry /\ entry \in Wanted THEN listed[t][e] + 1 ELSE listed[t][e]
    BY <2>1, AddMatchingOne
  <2>3. ASSUME NEW e \in Entries
        PROVE  /\ listed'["ok"][e] > 0 => listed["ok"][e] > 0 \/ (e = entry /\ entry \in Wanted)
               /\ listed'["error"][e] > 0 => listed["error"][e] > 0
    BY <2>2 DEF Status
  <2> QED BY <1>g, <2>1, <2>3 DEF RecordInv
<1> QED BY <1>1, <1>2, <1>3, <1>4 DEF WalkStep, SkipVisited, NextRoot, PassOverLink, ReadDir, Return

-----------------------------------------------------------------------------
(* Nothing is forgotten. *)

\* A walk that has not ended takes the step.
LEMMA StepStart == ASSUME WalkStep PROVE walkExit = -1 /\ UNCHANGED <<walkOptions, gone>>
  BY DEF WalkStep, RootMissing, SkipVisited, NextRoot, RootVanished, VisitFails, PassOverLink,
       VisitLink, VisitFile, VisitDir, ReadDir, ReadDirFails, Return, Between, Walking, Visiting

\* Unless an entry is missing, a step drops no record.
LEMMA RecordsStay ==
    ASSUME TypeInv, WalkStep, ~RootMissing, NEW s \in Status, NEW e \in Entries
    PROVE  listed'[s][e] \in Nat /\ listed'[s][e] >= listed[s][e]
<1>t. listed[s][e] \in Nat
  BY DEF TypeInv, Status
<1>1. CASE UNCHANGED listed
  BY <1>t, <1>1
<1>2. CASE RootVanished \/ ReadDirFails \/ VisitFails
  <2>1. Add("error") /\ entry \in Entries
    BY <1>2, WalkingEntry DEF RootVanished, ReadDirFails, VisitFails, Fail
  <2>2. listed'[s][e] = IF s = "error" /\ e = entry THEN listed[s][e] + 1 ELSE listed[s][e]
    BY <2>1, AddOne DEF Status
  <2> QED BY <1>t, <2>2
<1>3. CASE VisitLink \/ VisitFile \/ VisitDir
  <2>1. AddMatching /\ entry \in Entries
    BY <1>3, WalkingEntry DEF VisitLink, VisitFile, VisitDir, Visiting
  <2>2. listed'[s][e] = IF s = "ok" /\ e = entry /\ entry \in Wanted THEN listed[s][e] + 1 ELSE listed[s][e]
    BY <2>1, AddMatchingOne
  <2> QED BY <1>t, <2>2
<1> QED BY <1>1, <1>2, <1>3 DEF WalkStep, SkipVisited, NextRoot, PassOverLink, ReadDir, Return

\* A step that leaves an entry behind has reported it, and walks what it leads to.
LEMMA DoneStep ==
    ASSUME TypeInv, WalkStep, ~RootMissing, NEW D \in SUBSET Entries, Done(D),
           NEW E \in SUBSET Entries, D \subseteq E,
           \A d \in E \ D : Reported(d)' /\ LeadsTo(d, follow) \subseteq E \union todo' \union Range(pending'),
           D \union todo \union Range(pending) \subseteq E \union todo' \union Range(pending'),
           visited' \subseteq E \union todo'
    PROVE  Done(E)'
<1>1. UNCHANGED <<roots, follow>>
  BY StepStart DEF walkOptions
<1>2. ASSUME NEW d \in D PROVE Reported(d)'
  <2>1. Reported(d) /\ d \in Entries
    BY DEF Done
  <2>2. /\ listed'["ok"][d] \in Nat /\ listed'["ok"][d] >= listed["ok"][d] /\ listed["ok"][d] \in Nat
        /\ listed'["error"][d] \in Nat /\ listed'["error"][d] >= listed["error"][d] /\ listed["error"][d] \in Nat
    BY <2>1, RecordsStay DEF TypeInv, Status
  <2> QED BY <1>1, <2>1, <2>2 DEF Reported
<1>3. \A d \in D : LeadsTo(d, follow) \subseteq E \union todo' \union Range(pending')
  BY DEF Done
<1>4. Range(roots) \subseteq E \union todo' \union Range(pending')
  BY DEF Done
<1>5. \A d \in E : Reported(d)' /\ LeadsTo(d, follow') \subseteq E \union todo' \union Range(pending')
  BY <1>1, <1>2, <1>3
<1>6. Range(roots') \subseteq E \union todo' \union Range(pending')
  BY <1>1, <1>4
<1> QED BY <1>5, <1>6 DEF Done

\* A visit reports a wanted entry.
LEMMA VisitReports ==
    ASSUME TypeInv, entry \in Entries, AddMatching, entry \in Wanted
    PROVE  listed'["ok"][entry] > 0
<1>1. listed["ok"][entry] \in Nat
  BY DEF TypeInv
<1>2. listed'["ok"][entry] = listed["ok"][entry] + 1
  BY AddMatchingOne DEF Status
<1> QED BY <1>1, <1>2

\* No step forgets an entry.
LEMMA CompleteStep ==
    ASSUME TypeInv, CompleteInv, WalkStep
    PROVE  CompleteInv'
<1> SUFFICES ASSUME gone' = {}, ~GivenUp'
             PROVE  /\ \E D \in SUBSET Entries : Done(D)'
                    /\ phase' = "list" /\ entry' \in Wanted => listed'["ok"][entry'] > 0
                    /\ walkExit' /= -1 =>
                         /\ todo' = {} /\ pending' = <<>>
                         /\ walkExit' = 0 <=> \A e \in Entries : listed'["error"][e] = 0
  BY DEF CompleteInv
<1>g. walkExit = -1 /\ gone = {} /\ UNCHANGED <<roots, follow, failOnError>>
  BY StepStart DEF walkOptions
<1>c. /\ \E D \in SUBSET Entries : Done(D)
      /\ phase = "list" /\ entry \in Wanted => listed["ok"][entry] > 0
  BY <1>g DEF CompleteInv, GivenUp
<1>d. PICK D \in SUBSET Entries : Done(D)
  BY <1>c
<1>v. visited \subseteq D \union todo
  BY <1>d DEF Done
<1>p. pending \in Seq(Entries)
  BY DEF TypeInv
<1>m. ~RootMissing
  BY <1>g DEF RootMissing
<1>1. CASE SkipVisited
  <2>1. Head(pending) \in D /\ pending /= <<>> /\ todo = {}
    BY <1>1, <1>v DEF SkipVisited, Between
  <2>2. Range(pending) \subseteq D \union Range(pending')
    BY <1>1, <1>p, <2>1, QueueMembers DEF SkipVisited
  <2>3. Done(D)'
    BY <1>1, <1>d, <1>m, <1>v, <2>2, DoneStep DEF SkipVisited
  <2> QED BY <1>1, <1>g, <2>1, <2>3 DEF SkipVisited, TypeInv
<1>2. CASE NextRoot
  <2>1. Range(pending) \subseteq todo' \union Range(pending') /\ todo = {}
    BY <1>2, <1>p, QueueMembers DEF NextRoot, Between
  <2>2. visited' \subseteq D \union todo'
    BY <1>2, <1>v DEF NextRoot, Between
  <2>3. Done(D)'
    BY <1>2, <1>d, <1>m, <2>1, <2>2, DoneStep
  <2> QED BY <1>2, <1>g, <2>3 DEF NextRoot
<1>3. CASE RootVanished \/ VisitFails
  BY <1>3, <1>g DEF RootVanished, VisitFails
<1>4. CASE PassOverLink \/ VisitLink \/ VisitFile
  <2>1. entry \in todo /\ entry \in Entries /\ phase' = "entry" /\ todo' = todo \ {entry}
        /\ UNCHANGED <<visited, walkExit>>
    BY <1>4, WalkingEntry DEF PassOverLink, VisitLink, VisitFile, Visiting, Leave
  <2>2. entry \notin Unreadable
    BY <1>4, EntriesAssumption DEF PassOverLink, VisitLink, VisitFile, Visiting
  <2>x. PICK x \in Entries : x = entry
    BY <2>1
  <2>3. Reported(x)'
    <3>1. CASE PassOverLink
      BY <1>g, <2>x, <2>2, <3>1 DEF PassOverLink, Reported
    <3>2. CASE VisitLink \/ VisitFile
      BY <1>g, <2>x, <2>1, <2>2, <3>2, VisitReports DEF VisitLink, VisitFile, Visiting, Reported
    <3> QED BY <1>4, <3>1, <3>2
  <2>4. LeadsTo(entry, follow) \subseteq Range(pending') /\ Range(pending) \subseteq Range(pending')
    <3>1. CASE PassOverLink
      BY <2>1, <3>1, LeadsToBelow DEF PassOverLink
    <3>2. CASE VisitFile
      BY <2>1, <3>2, LeadsToBelow DEF VisitFile, Visiting
    <3>3. CASE VisitLink
      <4>1. Kind[entry] = "link" /\ follow
        BY <3>3 DEF VisitLink, Visiting
      <4>2. Target[entry] /= 0 => Target[entry] \in Entries
        BY <2>1, EntriesAssumption
      <4>3. CASE Target[entry] /= 0 /\ Kind[Target[entry]] = "dir"
        <5>1. pending' = Append(pending, Target[entry])
          BY <1>g, <3>3, <4>3 DEF VisitLink
        <5>2. Range(pending') = Range(pending) \union {Target[entry]}
          BY <1>p, <4>2, <4>3, <5>1, QueueMembers
        <5> QED BY <2>1, <4>1, <5>2, LeadsToBelow
      <4>4. CASE ~(Target[entry] /= 0 /\ Kind[Target[entry]] = "dir")
        <5>1. pending' = pending
          BY <3>3, <4>4 DEF VisitLink
        <5> QED BY <2>1, <4>1, <4>4, <5>1, LeadsToBelow
      <4> QED BY <4>3, <4>4
    <3> QED BY <1>4, <3>1, <3>2, <3>3
  <2>5. Done(D \union {x})'
    BY <2>x, <1>d, <1>m, <1>v, <2>1, <2>3, <2>4, DoneStep
  <2> QED BY <1>g, <2>1, <2>5
<1>5. CASE VisitDir
  <2>1. /\ entry \in todo /\ entry \in Entries /\ entry' = entry /\ AddMatching
        /\ UNCHANGED <<pending, todo, walkExit>> /\ visited' \subseteq visited \union {entry}
    BY <1>5, WalkingEntry DEF VisitDir, Visiting, entry
  <2>2. Done(D)'
    BY <1>d, <1>m, <1>v, <2>1, DoneStep
  <2> QED BY <1>g, <2>1, <2>2, VisitReports
<1>6. CASE ReadDir \/ ReadDirFails
  <2>1. entry \in todo /\ entry \in Entries /\ Kind[entry] = "dir" /\ phase = "list"
        /\ UNCHANGED <<pending, visited>>
    BY <1>6, WalkingEntry DEF ReadDir, ReadDirFails, Walking, TypeInv
  <2>2. LeadsTo(entry, follow) \subseteq todo' /\ todo \ {entry} \subseteq todo' /\ phase' = "entry" /\ walkExit' = -1
    <3>1. CASE ReadDir
      BY <1>g, <2>1, <3>1, LeadsToBelow DEF ReadDir
    <3>2. CASE ReadDirFails
      <4>1. walkExit' = -1
        BY <1>g, <3>2 DEF ReadDirFails, Fail, GivenUp
      <4> QED BY <1>g, <2>1, <3>2, <4>1, LeadsToBelow DEF ReadDirFails, Leave
    <3> QED BY <1>6, <3>1, <3>2
  <2>x. PICK x \in Entries : x = entry
    BY <2>1
  <2>3. Reported(x)'
    <3>1. listed'["ok"][entry] \in Nat /\ listed'["ok"][entry] >= listed["ok"][entry] /\ listed["ok"][entry] \in Nat
      BY <1>m, <2>1, RecordsStay DEF TypeInv, Status
    <3>2. entry \in Wanted => listed'["ok"][entry] > 0
      BY <1>c, <2>1, <3>1
    <3>3. entry \in Unreadable => listed'["error"][entry] > 0
      <4>1. CASE ReadDir
        BY <4>1 DEF ReadDir
      <4>2. CASE ReadDirFails
        <5>1. Add("error") /\ listed["error"][entry] \in Nat
          BY <2>1, <4>2 DEF ReadDirFails, Fail, TypeInv
        <5>2. listed'["error"][entry] = listed["error"][entry] + 1
          BY <2>1, <5>1, AddOne DEF Status
        <5> QED BY <5>1, <5>2
      <4> QED BY <1>6, <4>1, <4>2
    <3> QED BY <2>x, <3>2, <3>3 DEF Reported
  <2>4. Done(D \union {x})'
    BY <2>x, <1>d, <1>m, <1>v, <2>1, <2>2, <2>3, DoneStep
  <2> QED BY <2>1, <2>2, <2>4
<1>7. CASE Return
  <2>1. Done(D)'
    BY <1>7, <1>d, <1>m, <1>v, DoneStep DEF Return
  <2>2. phase' /= "list" /\ todo' = {} /\ pending' = <<>>
    BY <1>7 DEF Return, Between, TypeInv
  <2>3. walkExit' = 0 <=> \A e \in Entries : listed["error"][e] = 0
    <3>1. \A e \in Entries : listed["error"][e] \in Nat
      BY DEF TypeInv
    <3>2. walkExit' = IF \E e \in Entries : listed["error"][e] > 0 THEN 3 ELSE 0
      BY <1>7 DEF Return
    <3> QED BY <3>1, <3>2
  <2> QED BY <1>7, <2>1, <2>2, <2>3 DEF Return
<1> QED BY <1>m, <1>1, <1>2, <1>3, <1>4, <1>5, <1>6, <1>7 DEF WalkStep

-----------------------------------------------------------------------------
(* Nothing is listed twice. *)

\* An entry is left behind with at most one record more, and it had none of that status.
LEMMA OnceLeave ==
    ASSUME TypeInv, Once, TodoApart, TodoFresh, PendingApart, entry \in todo, Leave,
           UNCHANGED pending, NEW s \in Status, listed[s][entry] = 0,
           \A t \in Status, e \in Entries :
              listed'[t][e] = listed[t][e] \/ (t = s /\ e = entry /\ listed'[t][e] = listed[t][e] + 1)
    PROVE  Once' /\ TodoApart' /\ TodoFresh' /\ PendingApart'
<1>1. todo' = todo \ {entry} /\ entry \in Entries /\ todo \subseteq Entries
  BY DEF Leave, TypeInv
<1>2. \A t \in Status, e \in Entries : listed[t][e] \in Nat
  BY DEF TypeInv, Status
<1>3. Once'
  BY <1>2 DEF Once
<1>4. TodoApart'
  BY <1>1 DEF TodoApart
<1>5. \A t \in Status, e \in Entries : listed'[t][e] > 0 => listed[t][e] > 0 \/ e = entry
  BY <1>2
<1>6. TodoFresh'
  <2>1. ASSUME NEW t \in todo', NEW r \in Status, NEW e \in Entries, t \in Ancestors[e], listed'[r][e] > 0
        PROVE  FALSE
    <3>1. t \in todo /\ t /= entry
      BY <1>1, <2>1
    <3>2. CASE e = entry
      BY <2>1, <3>1, <3>2 DEF TodoApart
    <3>3. CASE listed[r][e] > 0
      BY <2>1, <3>1, <3>3 DEF TodoFresh
    <3> QED BY <1>5, <2>1, <3>2, <3>3
  <2> QED BY <2>1 DEF TodoFresh
<1>7. PendingApart'
  <2>1. ASSUME NEW i \in DOMAIN pending
        PROVE  /\ \A t \in todo' : t \notin Ancestors[pending[i]] /\ pending[i] \notin Ancestors[t]
               /\ \A r \in Status, e \in Entries : listed'[r][e] > 0 => pending[i] \notin Ancestors[e]
    BY <1>1, <1>5 DEF PendingApart, Waiting
  <2> QED BY <2>1 DEF PendingApart, Waiting
<1> QED BY <1>3, <1>4, <1>6, <1>7

\* The rest of the queue is as far apart.
LEMMA PendingTail ==
    ASSUME TypeInv, pending /= <<>>, PendingApart
    PROVE  /\ \A i \in DOMAIN Tail(pending) : i + 1 \in DOMAIN pending /\ Tail(pending)[i] = pending[i + 1]
           /\ 1 \in DOMAIN pending /\ Head(pending) = pending[1] /\ Head(pending) \in Entries
           /\ \A i \in DOMAIN Tail(pending) : /\ Head(pending) \notin Ancestors[Tail(pending)[i]]
                                              /\ Tail(pending)[i] \notin Ancestors[Head(pending)]
           /\ \A i, j \in DOMAIN Tail(pending) : i /= j => Tail(pending)[i] \notin Ancestors[Tail(pending)[j]]
<1>1. /\ \A i \in DOMAIN Tail(pending) : i \in Nat /\ i > 0 /\ i + 1 \in DOMAIN pending /\ Tail(pending)[i] = pending[i + 1]
      /\ 1 \in DOMAIN pending /\ Head(pending) = pending[1] /\ Head(pending) \in Entries
  BY DEF TypeInv
<1>2. \A i, j \in DOMAIN pending : i /= j => pending[i] \notin Ancestors[pending[j]]
  BY DEF PendingApart
<1>3. ASSUME NEW i \in DOMAIN Tail(pending), NEW j \in DOMAIN Tail(pending), i /= j
      PROVE  Tail(pending)[i] \notin Ancestors[Tail(pending)[j]]
  <2>1. i + 1 /= j + 1
    BY <1>1, <1>3
  <2> QED BY <1>1, <1>2, <2>1
<1>4. ASSUME NEW i \in DOMAIN Tail(pending)
      PROVE  Head(pending) \notin Ancestors[Tail(pending)[i]] /\ Tail(pending)[i] \notin Ancestors[Head(pending)]
  <2>1. i + 1 /= 1
    BY <1>1
  <2> QED BY <1>1, <1>2, <2>1
<1> QED BY <1>1, <1>3, <1>4

\* What a directory lists lies apart from all else.
LEMMA OnceList ==
    ASSUME TypeInv, Once, TodoApart, TodoFresh, PendingApart, ReadDir
    PROVE  Once' /\ TodoApart' /\ TodoFresh' /\ PendingApart'
<1>1. /\ entry \in todo /\ entry \in Entries /\ todo \subseteq Entries
      /\ todo' = (todo \ {entry}) \union Below(entry) /\ phase' = "entry"
      /\ UNCHANGED <<listed, pending>>
  BY WalkingEntry DEF ReadDir, TypeInv
<1>2. ASSUME NEW c \in Below(entry)
      PROVE  /\ c \in Entries /\ Ancestors[c] = {c} \union Ancestors[entry] /\ c \notin Ancestors[entry]
             /\ \A x \in Entries : c \in Ancestors[x] => entry \in Ancestors[x]
  <2>1. c \in Entries /\ Parent[c] = entry /\ entry /= 0 /\ entry < c /\ entry \in Nat /\ c \in Nat
    BY <1>1, EntriesAssumption DEF Below
  <2>2. Ancestors[c] = {c} \union Ancestors[entry]
    BY <2>1, AncestorsOf
  <2>3. c \notin Ancestors[entry]
    <3>1. c \in Ancestors[entry] => c <= entry
      BY <1>1, AncestorsUp
    <3> QED BY <2>1, <3>1
  <2>4. \A x \in Entries : c \in Ancestors[x] => entry \in Ancestors[x]
    BY <2>1, AncestorsUp
  <2> QED BY <2>1, <2>2, <2>3, <2>4
<1>3. \A t \in todo : t /= entry => t \notin Ancestors[entry] /\ entry \notin Ancestors[t]
  BY <1>1 DEF TodoApart
<1>4. Once'
  BY <1>1 DEF Once
<1>5. TodoApart'
  <2>1. ASSUME NEW t \in todo', NEW u \in todo', t /= u, t \in Ancestors[u] PROVE FALSE
    <3>1. CASE t \in Below(entry) /\ u \in Below(entry)
      BY <1>2, <2>1, <3>1
    <3>2. CASE t \in Below(entry) /\ u \in todo \ {entry}
      BY <1>1, <1>2, <1>3, <2>1, <3>2
    <3>3. CASE t \in todo \ {entry} /\ u \in Below(entry)
      BY <1>2, <1>3, <2>1, <3>3
    <3>4. CASE t \in todo /\ u \in todo
      BY <2>1, <3>4 DEF TodoApart
    <3> QED BY <1>1, <2>1, <3>1, <3>2, <3>3, <3>4
  <2> QED BY <2>1 DEF TodoApart
<1>6. TodoFresh'
  <2>1. ASSUME NEW t \in todo', NEW s \in Status, NEW e \in Entries, t \in Ancestors[e], listed[s][e] > 0
        PROVE  FALSE
    <3>1. CASE t \in todo \ {entry}
      BY <2>1, <3>1 DEF TodoFresh
    <3>2. CASE t \in Below(entry)
      <4>1. entry \in Ancestors[e]
        BY <1>2, <2>1, <3>2
      <4>2. e = entry
        BY <1>1, <2>1, <4>1 DEF TodoFresh
      <4> QED BY <1>2, <2>1, <3>2, <4>2
    <3> QED BY <1>1, <2>1, <3>1, <3>2
  <2> QED BY <1>1, <2>1 DEF TodoFresh
<1>7. PendingApart'
  <2>1. ASSUME NEW i \in DOMAIN pending, NEW t \in todo'
        PROVE  t \notin Ancestors[pending[i]] /\ pending[i] \notin Ancestors[t]
    <3> DEFINE r == pending[i]
    <3>1. r \in Entries /\ \A u \in todo : u \notin Ancestors[r] /\ r \notin Ancestors[u]
      BY <2>1 DEF PendingApart, Waiting, TypeInv
    <3> HIDE DEF r
    <3>2. CASE t \in todo
      BY <3>1, <3>2 DEF r
    <3>3. CASE t \in Below(entry)
      <4>1. t \notin Ancestors[r]
        BY <1>1, <1>2, <3>1, <3>3
      <4>2. r /= t
        BY <1>1, <1>2, <3>1, <3>3, AncestorsOf
      <4>3. r \notin Ancestors[t]
        BY <1>1, <1>2, <3>1, <3>3, <4>2
      <4> QED BY <4>1, <4>3 DEF r
    <3> QED BY <1>1, <2>1, <3>2, <3>3
  <2>2. \A i \in DOMAIN pending, s \in Status, e \in Entries : listed[s][e] > 0 => pending[i] \notin Ancestors[e]
    BY DEF PendingApart, Waiting
  <2> QED BY <1>1, <2>1, <2>2 DEF PendingApart, Waiting
<1> QED BY <1>4, <1>5, <1>6, <1>7

\* Every step keeps what is listed apart from what is still to be walked.
LEMMA OnceStep ==
    ASSUME TypeInv, OnceInv, WalkStep
    PROVE  OnceInv'
<1> SUFFICES ASSUME gone' = {}, ~follow', Apart' PROVE Once' /\ TodoApart' /\ TodoFresh' /\ PendingApart'
  BY DEF OnceInv
<1>g. gone = {} /\ ~follow /\ Apart
  BY StepStart DEF walkOptions, Apart
<1>i. Once /\ TodoApart /\ TodoFresh /\ PendingApart
  BY <1>g DEF OnceInv
<1>n. \A s \in Status, e \in Entries : listed[s][e] \in Nat
  BY DEF TypeInv, Status
<1>0. ~RootMissing /\ ~RootVanished /\ ~VisitFails /\ ~VisitLink
  BY <1>g DEF RootMissing, RootVanished, VisitFails, VisitLink
<1>1. CASE SkipVisited
  <2>1. todo = {} /\ pending /= <<>> /\ pending' = Tail(pending) /\ UNCHANGED <<todo, phase, listed>>
    BY <1>1 DEF SkipVisited, Between
  <2>2. PendingApart'
    BY <1>i, <2>1, PendingTail DEF PendingApart, Waiting
  <2> QED BY <1>i, <2>1, <2>2 DEF Once, TodoApart, TodoFresh
<1>2. CASE NextRoot
  <2>1. /\ pending /= <<>> /\ pending' = Tail(pending) /\ todo' = {Head(pending)} /\ UNCHANGED listed
    BY <1>2 DEF NextRoot
  <2>2. \A s \in Status, e \in Entries : listed[s][e] > 0 => Head(pending) \notin Ancestors[e]
    BY <1>i, <2>1, PendingTail DEF PendingApart, Waiting
  <2>3. TodoFresh' /\ TodoApart' /\ Once'
    BY <1>i, <2>1, <2>2 DEF TodoFresh, TodoApart, Once
  <2>4. ASSUME NEW i \in DOMAIN Tail(pending), NEW s \in Status, NEW e \in Entries, listed[s][e] > 0
        PROVE  Tail(pending)[i] \notin Ancestors[e]
    BY <1>i, <2>1, <2>4, PendingTail DEF PendingApart, Waiting
  <2>5. PendingApart'
    BY <1>i, <2>1, <2>4, PendingTail DEF PendingApart, Waiting
  <2> QED BY <2>3, <2>5
<1>3. CASE PassOverLink \/ VisitFile \/ ReadDirFails
  <2>1. entry \in todo /\ entry \in Entries /\ Leave /\ UNCHANGED pending
    BY <1>3, WalkingEntry DEF PassOverLink, VisitFile, ReadDirFails, Visiting
  <2>2. entry \in Ancestors[entry]
    BY <2>1, AncestorsOf
  <2>3. CASE PassOverLink
    <3>1. phase /= "list" /\ UNCHANGED listed
      BY <2>3 DEF PassOverLink, Visiting, Walking
    <3>2. listed["ok"][entry] = 0
      BY <1>i, <1>n, <2>1, <2>2, <3>1 DEF TodoFresh, Status
    <3> QED BY <1>i, <2>1, <3>1, <3>2, OnceLeave DEF Status
  <2>4. CASE VisitFile
    <3>1. phase /= "list" /\ AddMatching
      BY <2>4 DEF VisitFile, Visiting, Walking
    <3>2. listed["ok"][entry] = 0
      BY <1>i, <1>n, <2>1, <2>2, <3>1 DEF TodoFresh, Status
    <3>3. \A t \in Status, e \in Entries :
            listed'[t][e] = listed[t][e] \/ (t = "ok" /\ e = entry /\ listed'[t][e] = listed[t][e] + 1)
      BY <2>1, <3>1, AddMatchingOne
    <3> QED BY <1>i, <2>1, <3>2, <3>3, OnceLeave DEF Status
  <2>5. CASE ReadDirFails
    <3>1. Add("error")
      BY <2>5 DEF ReadDirFails, Fail
    <3>2. listed["error"][entry] = 0
      BY <1>i, <1>n, <2>1, <2>2 DEF TodoFresh, Status
    <3>3. \A t \in Status, e \in Entries :
            listed'[t][e] = listed[t][e] \/ (t = "error" /\ e = entry /\ listed'[t][e] = listed[t][e] + 1)
      BY <2>1, <3>1, AddOne DEF Status
    <3> QED BY <1>i, <2>1, <3>2, <3>3, OnceLeave DEF Status
  <2> QED BY <1>3, <2>3, <2>4, <2>5
<1>4. CASE VisitDir
  <2>1. /\ entry \in todo /\ entry \in Entries /\ AddMatching /\ phase /= "list" /\ phase' = "list"
        /\ UNCHANGED <<pending, todo>> /\ entry' = entry
    BY <1>4, WalkingEntry DEF VisitDir, Visiting, Walking, entry
  <2>2. listed["ok"][entry] = 0
    BY <1>i, <1>n, <2>1, AncestorsOf DEF TodoFresh, Status
  <2>3. \A t \in Status, e \in Entries :
          listed'[t][e] = listed[t][e] \/ (t = "ok" /\ e = entry /\ listed'[t][e] = listed[t][e] + 1)
    BY <2>1, AddMatchingOne
  <2>4. \A t \in Status, e \in Entries : listed'[t][e] > 0 => listed[t][e] > 0 \/ (t = "ok" /\ e = entry)
    BY <1>n, <2>3
  <2>5. Once' /\ TodoApart'
    BY <1>i, <1>n, <2>1, <2>2, <2>3 DEF Once, TodoApart
  <2>6. TodoFresh'
    <3>1. ASSUME NEW t \in todo, NEW s \in Status, NEW e \in Entries, t \in Ancestors[e], listed'[s][e] > 0
          PROVE  s = "ok" /\ t = entry /\ e = entry
      <4>1. s = "ok" /\ e = entry
        BY <1>i, <2>1, <2>4, <3>1 DEF TodoFresh
      <4> QED BY <1>i, <2>1, <3>1, <4>1 DEF TodoApart
    <3> QED BY <2>1, <3>1 DEF TodoFresh
  <2>7. PendingApart'
    <3>1. ASSUME NEW i \in DOMAIN pending, NEW s \in Status, NEW e \in Entries, listed'[s][e] > 0
          PROVE  pending[i] \notin Ancestors[e]
      BY <1>i, <2>1, <2>4, <3>1 DEF PendingApart, Waiting
    <3> QED BY <1>i, <2>1, <3>1 DEF PendingApart, Waiting
  <2> QED BY <2>5, <2>6, <2>7
<1>5. CASE ReadDir
  BY <1>i, <1>5, OnceList
<1>6. CASE Return
  BY <1>i, <1>6 DEF Return, Once, TodoApart, TodoFresh, PendingApart, Waiting, entry
<1> QED BY <1>0, <1>1, <1>2, <1>3, <1>4, <1>5, <1>6 DEF WalkStep

-----------------------------------------------------------------------------
(* The theorems. *)

\* Nothing is walked or listed at the start.
LEMMA WalkInvInit == WalkInit => WalkInv
<1> SUFFICES ASSUME WalkInit PROVE WalkInv
  OBVIOUS
<1>1. roots \in Seq(Entries) /\ pending = roots /\ todo = {} /\ visited = {} /\ walkExit = -1
      /\ phase = "entry" /\ gone \in SUBSET Entries
  BY EntriesAssumption DEF WalkInit, Subtree
<1>2. listed \in [Status -> [Entries -> Nat]] /\ \A s \in Status, e \in Entries : listed[s][e] = 0
  BY DEF WalkInit, NoRecords, Status
<1>3. TypeInv
  BY <1>1, <1>2 DEF WalkInit, TypeInv, Status
<1>4. SoundInv /\ RecordInv
  BY <1>1, <1>2 DEF SoundInv, RecordInv, Status
<1>5. Done({})
  BY <1>1 DEF Done
<1>6. CompleteInv
  BY <1>1, <1>5 DEF CompleteInv
<1>7. OnceInv
  BY <1>1, <1>2 DEF OnceInv, Once, TodoApart, TodoFresh, PendingApart, Waiting, Apart
<1> QED BY <1>3, <1>4, <1>6, <1>7 DEF WalkInv

\* Neither jwalk nor those who remove entries break the invariant.
LEMMA WalkInvStep == WalkInv /\ [WalkNext]_walkVars => WalkInv'
<1> SUFFICES ASSUME WalkInv, [WalkNext]_walkVars PROVE WalkInv'
  OBVIOUS
<1> USE DEF WalkInv
<1>1. CASE WalkStep
  BY <1>1, TypeStep, SoundStep, RecordStep, CompleteStep, OnceStep DEF WalkNext
<1>2. CASE (\E e \in Entries : Vanish(e)) \/ UNCHANGED walkVars
  <2>1. /\ UNCHANGED <<walkOptions, pending, visited, todo, phase, listed, walkExit>>
        /\ gone' = {} => gone = {}
    BY <1>2 DEF Vanish, walkVars
  <2>2. UNCHANGED <<roots, follow, failOnError>> /\ entry' = entry
    BY <2>1 DEF walkOptions, entry
  <2>3. TypeInv'
    <3>1. CASE \E e \in Entries : Vanish(e)
      BY <3>1, TypeStep DEF WalkNext
    <3>2. CASE UNCHANGED walkVars
      BY <2>1, <2>2, <3>2 DEF walkVars, TypeInv
    <3> QED BY <1>2, <3>1, <3>2
  <2>4. SoundInv' /\ RecordInv'
    BY <2>1, <2>2 DEF SoundInv, RecordInv
  <2>5. \A D \in SUBSET Entries : Done(D) => Done(D)'
    BY <2>1, <2>2 DEF Done, Reported
  <2>6. CompleteInv'
    BY <2>1, <2>2, <2>5 DEF CompleteInv, GivenUp
  <2>7. OnceInv'
    BY <2>1, <2>2 DEF OnceInv, Once, TodoApart, TodoFresh, PendingApart, Waiting, Apart
  <2> QED BY <2>3, <2>4, <2>6, <2>7
<1> QED BY <1>1, <1>2 DEF WalkNext

\* Whatever was listed is what the roots lead to.
LEMMA ListedIsFound ==
    ASSUME WalkInv, NEW e \in Entries, listed["ok"][e] > 0 \/ listed["error"][e] > 0
    PROVE  e \in Found[roots][follow]
<1>1. \A S \in SUBSET Entries : Range(roots) \subseteq S /\ Closed(S, follow) => e \in S
  BY DEF WalkInv, SoundInv
<1>2. roots \in RootLists /\ follow \in BOOLEAN
  BY DEF WalkInv, TypeInv
<1> QED BY <1>1, <1>2 DEF Found

\* When the walk has ended, the set of all that is done with is closed.
LEMMA FoundIsReported ==
    ASSUME WalkInv, gone = {}, ~GivenUp, walkExit /= -1, NEW e \in Found[roots][follow]
    PROVE  e \in Entries /\ Reported(e)
<1>1. todo = {} /\ pending = <<>> /\ \E D \in SUBSET Entries : Done(D)
  BY DEF WalkInv, CompleteInv
<1>2. PICK D \in SUBSET Entries : Done(D)
  BY <1>1
<1>3. Range(pending) = {}
  BY <1>1 DEF Range
<1>4. Range(roots) \subseteq D /\ Closed(D, follow)
  BY <1>1, <1>2, <1>3 DEF Done, Closed
<1>5. roots \in RootLists /\ follow \in BOOLEAN
  BY DEF WalkInv, TypeInv
<1>6. e \in Entries /\ e \in D
  BY <1>4, <1>5 DEF Found
<1> QED BY <1>2, <1>6 DEF Done

\* The invariant implies what the module promises.
LEMMA WalkInvSuffices == WalkInv => WalkIsComplete
<1> SUFFICES ASSUME WalkInv PROVE WalkIsComplete
  OBVIOUS
<1>t. \A s \in Status, e \in Entries : listed[s][e] \in Nat
  BY DEF WalkInv, TypeInv, Status
<1>1. WalkTypeOK
  <2>1. Range(pending) \subseteq Entries
    BY DEF WalkInv, TypeInv, Range
  <2> QED BY <2>1 DEF WalkInv, TypeInv, WalkTypeOK
<1>2. ASSUME walkExit \in {0, 3}, gone = {}, ~(failOnError /\ walkExit = 3)
      PROVE  LET seen == {e \in Found[roots][follow] : Kind[e] = "link" => follow}
             IN  /\ Shown("ok") = seen \intersect Wanted
                 /\ Shown("error") = seen \intersect Unreadable
                 /\ walkExit = 0 <=> Shown("error") = {}
                 /\ ~follow /\ Apart =>
                     \A status \in {"ok", "error"}, e \in Entries : listed[status][e] <= 1
  <2> DEFINE seen == {e \in Found[roots][follow] : Kind[e] = "link" => follow}
  <2>g. ~GivenUp /\ walkExit /= -1
    BY <1>2 DEF GivenUp
  <2>1. Shown("ok") \subseteq seen \intersect Wanted
    BY ListedIsFound DEF Shown, WalkInv, RecordInv
  <2>2. seen \intersect Wanted \subseteq Shown("ok")
    BY <1>2, <2>g, FoundIsReported DEF Reported, Shown
  <2>3. Shown("error") \subseteq seen \intersect Unreadable
    BY <1>2, ListedIsFound, EntriesAssumption DEF Shown, WalkInv, RecordInv
  <2>4. seen \intersect Unreadable \subseteq Shown("error")
    BY <1>2, <2>g, FoundIsReported DEF Reported, Shown
  <2>5. walkExit = 0 <=> Shown("error") = {}
    <3>1. walkExit = 0 <=> \A e \in Entries : listed["error"][e] = 0
      BY <1>2, <2>g DEF WalkInv, CompleteInv
    <3>2. Shown("error") = {} <=> \A e \in Entries : listed["error"][e] = 0
      BY <1>t DEF Shown, Status
    <3> QED BY <3>1, <3>2
  <2>6. ~follow /\ Apart => Once
    BY <1>2 DEF WalkInv, OnceInv
  <2> QED BY <2>1, <2>2, <2>3, <2>4, <2>5, <2>6 DEF Once, Status
<1> QED BY <1>1, <1>2 DEF WalkIsComplete

\* Whatever the tree, the links and the filters, when nothing vanishes jwalk lists
\* exactly the wanted entries that its roots lead to, reports exactly the directories
\* it could not list, tells by its status whether there are any, and without links and
\* with roots apart lists nothing twice; and the variables keep their types always.
THEOREM WalkCompletes == WalkSpec => []WalkIsComplete
  BY WalkInvInit, WalkInvStep, WalkInvSuffices, PTL DEF WalkSpec

\* Also among vanishing entries, jwalk lists only wanted entries that its roots lead to.
ListsOnlyFound == Shown("ok") \subseteq Found[roots][follow] \intersect Wanted

\* Nothing that vanishes makes jwalk list what it was not asked for.
THEOREM WalkStaysBelow == WalkSpec => []ListsOnlyFound
<1>1. WalkInv => ListsOnlyFound
  BY ListedIsFound DEF ListsOnlyFound, Shown, WalkInv, RecordInv
<1> QED BY <1>1, WalkInvInit, WalkInvStep, PTL DEF WalkSpec
=============================================================================
