-------------------------------- MODULE Jwalk --------------------------------
(***************************************************************************)
(* jwalk lists the entries below its roots while others may remove them    *)
(* (internal/jwalk, Walk).  Roots and the directories that followed links  *)
(* lead to wait in one queue; each is walked depth first in name order.    *)
(* An entry stands for its resolved path, and entries are numbered in the  *)
(* order of a walk: a directory before what is below it, siblings in name  *)
(* order.                                                                  *)
(***************************************************************************)
EXTENDS Integers, SequencesExt, FiniteSets

CONSTANTS
    Parent,         \* the directory of every entry, 0 above the top ones
    Kind,           \* "dir", "file" or "link"
    Target,         \* the entry a link resolves to, 0 when it dangles
    Unreadable,     \* directories that cannot be listed
    Wanted,         \* entries that the filters let through
    RootLists,      \* the root arguments
    MaxVanish       \* bound on the removals during a walk

Entries == DOMAIN Kind

\* An entry with all the directories above it, and all that is below an entry.
Ancestors[e \in Entries] == {e} \union IF Parent[e] = 0 THEN {} ELSE Ancestors[Parent[e]]
Subtree(e) == {x \in Entries : e \in Ancestors[x]}

ASSUME EntriesAssumption ==
    /\ Entries \subseteq Nat \ {0} /\ Kind \in [Entries -> {"dir", "file", "link"}]
    /\ Parent \in [Entries -> Entries \union {0}]
    /\ \A e \in Entries : Parent[e] < e /\ (Parent[e] /= 0 => Kind[Parent[e]] = "dir")
    /\ Target \in [Entries -> Entries \union {0}]
    /\ Wanted \subseteq Entries /\ Unreadable \subseteq {e \in Entries : Kind[e] = "dir"}
    /\ RootLists \subseteq Seq(Entries) /\ MaxVanish \in Nat

ASSUME OrderAssumption ==
    \A e, x, y \in Entries : e < x /\ x < y /\ y \in Subtree(e) => x \in Subtree(e)

VARIABLES
    roots, follow, failOnError,     \* the arguments
    gone0,      \* entries that did not exist when jwalk was started
    gone,       \* entries that do not exist
    pending,    \* roots to walk
    visited,    \* visitedDirectories
    todo,       \* entries WalkDir has found and not left behind yet
    phase,      \* what it does with the first of them: a root has an Lstat of its own,
                \* an "entry" is visited, and a directory that was visited is "list"ed
    listed,     \* how many records there are, by status and entry
    walkExit    \* exit status, -1 before

walkOptions == <<roots, follow, failOnError, gone0>>
walkVars == <<walkOptions, gone, pending, visited, todo, phase, listed, walkExit>>

Below(d) == {x \in Entries \ gone : Parent[x] = d}
NoRecords == [status \in {"ok", "error"} |-> [e \in Entries |-> 0]]

WalkInit ==
    /\ roots \in RootLists /\ follow \in BOOLEAN /\ failOnError \in BOOLEAN
    /\ gone0 \in {{}} \union {Subtree(roots[i]) : i \in DOMAIN roots}
    /\ gone = gone0
    /\ pending = roots /\ visited = {}
    /\ todo = {} /\ phase = "entry"
    /\ listed = NoRecords /\ walkExit = -1

Walking(p) == walkExit = -1 /\ todo /= {} /\ phase = p
Between == walkExit = -1 /\ todo = {}
entry == Min(todo)
Leave == todo' = todo \ {entry} /\ phase' = "entry"
Add(status) == listed' = [listed EXCEPT ![status][entry] = @ + 1]

\* A missing root is a usage error, also when it is a link's target.
RootMissing ==
    /\ Between /\ pending /= <<>>
    /\ Head(pending) \in gone
    /\ listed' = NoRecords /\ walkExit' = 2
    /\ UNCHANGED <<walkOptions, gone, pending, visited, todo, phase>>

SkipVisited ==
    /\ Between /\ pending /= <<>>
    /\ Head(pending) \in visited
    /\ pending' = Tail(pending)
    /\ UNCHANGED <<walkOptions, gone, visited, todo, phase, listed, walkExit>>

NextRoot ==
    /\ Between /\ pending /= <<>>
    /\ Head(pending) \notin gone \union visited
    /\ pending' = Tail(pending)
    /\ visited' = visited \union IF Kind[Head(pending)] = "dir" THEN {Head(pending)} ELSE {}
    /\ todo' = {Head(pending)} /\ phase' = "root"
    /\ UNCHANGED <<walkOptions, gone, listed, walkExit>>

\* An error is recorded; with --fail-on-error it ends the walk without records.
Fail ==
    /\ Add("error")
    /\ walkExit' = IF failOnError THEN 3 ELSE -1

\* The root was there for Walk, and is not for WalkDir.
RootVanished ==
    /\ Walking("root") /\ entry \in gone
    /\ Fail /\ Leave
    /\ UNCHANGED <<walkOptions, gone, pending, visited>>

\* WalkDir lists a directory also when its Info failed.
VisitFails ==
    /\ Walking("entry") /\ entry \in gone
    /\ Kind[entry] = "link" => follow
    /\ Fail
    /\ IF Kind[entry] = "dir" THEN phase' = "list" /\ UNCHANGED todo ELSE Leave
    /\ UNCHANGED <<walkOptions, gone, pending, visited>>

\* WalkDir has the Info of a root from its Lstat.
Visiting(kind) ==
    /\ Walking("root") \/ Walking("entry")
    /\ entry \notin gone /\ Kind[entry] = kind

\* The filters of type, size, age and pattern.  A pattern is matched with the path
\* below the root of the walk; here it gives one answer from whatever root.
matches(e) == e \in Wanted

AddMatching ==
    IF matches(entry) THEN Add("ok") ELSE UNCHANGED listed

PassOverLink ==
    /\ Walking("entry") \/ Visiting("link")
    /\ Kind[entry] = "link" /\ ~follow
    /\ Leave
    /\ UNCHANGED <<walkOptions, gone, pending, visited, listed, walkExit>>

VisitLink ==
    /\ Visiting("link") /\ follow
    /\ pending' = IF Target[entry] /= 0 /\ Target[entry] \notin gone /\ Kind[Target[entry]] = "dir"
                  THEN Append(pending, Target[entry]) ELSE pending
    /\ AddMatching /\ Leave
    /\ UNCHANGED <<walkOptions, gone, visited, walkExit>>

VisitFile ==
    /\ Visiting("file")
    /\ AddMatching /\ Leave
    /\ UNCHANGED <<walkOptions, gone, pending, visited, walkExit>>

\* A directory is walked through even when the filters leave it out.
VisitDir ==
    /\ Visiting("dir")
    /\ visited' = IF follow THEN visited \union {entry} ELSE visited
    /\ AddMatching
    /\ phase' = "list"
    /\ UNCHANGED <<walkOptions, gone, pending, todo, walkExit>>

ReadDir ==
    /\ Walking("list") /\ entry \notin gone \union Unreadable
    /\ todo' = (todo \ {entry}) \union Below(entry) /\ phase' = "entry"
    /\ UNCHANGED <<walkOptions, gone, pending, visited, listed, walkExit>>

\* Mutant: a directory that cannot be listed is passed over.
ReadDirFails_Silent ==
    /\ Walking("list") /\ entry \in gone \union Unreadable
    /\ Leave
    /\ UNCHANGED <<walkOptions, gone, pending, visited, listed, walkExit>>

\* Mutant: it is tried again.
ReadDirFails_Retries ==
    /\ Walking("list") /\ entry \in gone \union Unreadable
    /\ UNCHANGED walkVars

ReadDirFails ==
    /\ Walking("list") /\ entry \in gone \union Unreadable
    /\ Fail /\ Leave
    /\ UNCHANGED <<walkOptions, gone, pending, visited>>

Return ==
    /\ Between /\ pending = <<>>
    /\ walkExit' = IF \E e \in Entries : listed["error"][e] > 0 THEN 3 ELSE 0
    /\ UNCHANGED <<walkOptions, gone, pending, visited, todo, phase, listed>>

\* An entry is removed, with what is below it.
Vanish(e) ==
    /\ walkExit = -1 /\ e \notin gone
    /\ Cardinality({x \in gone \ gone0 : Parent[x] \notin gone}) < MaxVanish
    /\ gone' = gone \union Subtree(e)
    /\ UNCHANGED <<walkOptions, pending, visited, todo, phase, listed, walkExit>>

WalkStep ==
    \/ RootMissing \/ SkipVisited \/ NextRoot \/ RootVanished
    \/ VisitFails \/ PassOverLink \/ VisitLink \/ VisitFile \/ VisitDir
    \/ ReadDir \/ ReadDirFails \/ Return

WalkNext == WalkStep \/ \E e \in Entries : Vanish(e)
WalkSpec == WalkInit /\ [][WalkNext]_walkVars

WalkEnded == walkExit /= -1

-----------------------------------------------------------------------------
WalkTypeOK ==
    /\ Range(pending) \union todo \union visited \subseteq Entries
    /\ listed \in [{"ok", "error"} -> [Entries -> Nat]]
    /\ phase \in {"root", "entry", "list"} /\ walkExit \in {-1, 0, 2, 3}
    /\ phase = "list" => todo /= {} /\ Kind[entry] = "dir"

\* What an entry leads to: a directory to what is in it, and a link that is
\* followed to a directory.
LeadsTo(e, links) ==
    {x \in Entries :
        \/ Parent[x] = e /\ e \notin Unreadable
        \/ links /\ Kind[e] = "link" /\ Target[e] = x /\ Kind[x] = "dir"}

\* What roots lead to: the least set that has them and all that its members lead to.
Closed(S, links) == \A e \in S : LeadsTo(e, links) \subseteq S
Found == [rs \in RootLists |-> [links \in BOOLEAN |->
    {e \in Entries : \A S \in SUBSET Entries : Range(rs) \subseteq S /\ Closed(S, links) => e \in S}]]

Apart == \A i, j \in DOMAIN roots : i /= j => roots[i] \notin Ancestors[roots[j]]
Shown(status) == {e \in Entries : listed[status][e] > 0}

\* FR-5, FR-8, FR-9 (specs/V1.md): when nothing vanishes, a walk that was not
\* refused lists exactly the wanted entries that its roots, and with
\* --follow-symlinks its links, lead to, has an error record for exactly the
\* directories it could not list, and exits with 0 only without one; without
\* links, and with no root below another, no entry is listed twice.
WalkIsComplete ==
    /\ WalkTypeOK
    /\ walkExit \in {0, 3} /\ gone = {} /\ ~(failOnError /\ walkExit = 3) =>
        LET seen == {e \in Found[roots][follow] : Kind[e] = "link" => follow}
        IN  /\ Shown("ok") = seen \intersect Wanted
            /\ Shown("error") = seen \intersect Unreadable
            /\ walkExit = 0 <=> Shown("error") = {}
            /\ ~follow /\ Apart =>
                \A status \in {"ok", "error"}, e \in Entries : listed[status][e] <= 1

\* EC-3 (specs/V1.md) "entry disappears after discovery -> emit an error record,
\* continue by default": only a root that was asked for may be refused.
OnlyRootsAreRefused == walkExit = 2 => Head(pending) \in Range(roots)
=============================================================================
