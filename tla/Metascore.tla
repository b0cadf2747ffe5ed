------------------------------ MODULE Metascore ------------------------------
(***************************************************************************)
(* metascore index and check (internal/metascore, cmd/metascore): the      *)
(* metadata of a tree is kept in a state file and scored against it later. *)
(***************************************************************************)
EXTENDS Integers, FiniteSets

CONSTANTS
    StateFile,      \* the state file, where it is in the tree
    StateDir        \* its directory

\* Any error ends the walk and the command.  A root that is a link is not walked.
Walks(world) == world.root /= "unreadable" /\ world.blocked = {}

\* The names of the attributes of a path are asked of a program, and are none where it
\* fails; nowhere does it answer when it is not there.
xattrs(world, p) == IF p \in world.answers THEN world.tree[p].xattrs ELSE {}

collect(world) ==
    [p \in IF world.root = "link" THEN {} ELSE DOMAIN world.tree \ {StateFile} |->
        [size |-> world.tree[p].size, mode |-> world.tree[p].mode, mtime |-> world.tree[p].mtime,
         xattrs |-> xattrs(world, p)]]

Evidence(old, now) == {k \in {"mode", "size", "mtime", "xattrs"} : old[k] /= now[k]}

Score(old, now) ==
    LET For(k, n) == IF old[k] /= now[k] THEN n ELSE 0
    IN  For("mode", 30) + For("size", 20) + For("mtime", 10) + For("xattrs", 40)

score(old, live) ==
    LET Both == DOMAIN old \intersect DOMAIN live
        A(p, s, e) == [path |-> p, score |-> s, evidence |-> e]
    IN  {A(p, 40, {"path removed"}) : p \in DOMAIN old \ DOMAIN live}
        \union {A(p, 10, {"path added"}) : p \in DOMAIN live \ DOMAIN old}
        \union {A(p, Score(old[p], live[p]), Evidence(old[p], live[p])) :
                p \in {p \in Both : Evidence(old[p], live[p]) /= {}}}

\* The state is saved by a temporary file and a rename after the tree was walked:
\* that moves the time of its directory, if the directory is in the tree.
Saved(world) ==
    IF StateDir \in DOMAIN world.tree
    THEN [world EXCEPT !.tree[StateDir].mtime = @ + 1] ELSE world

\* metascore index of one world, then check of another that was made from it.
Metascore(in) ==
    IF ~Walks(in.before) THEN [index |-> 4, exit |-> 4, anomalies |-> {}]
    ELSE IF ~Walks(in.after) \/ in.schema /= "metascore" THEN [index |-> 0, exit |-> 4, anomalies |-> {}]
    ELSE [index |-> 0, exit |-> 0,
          anomalies |-> score(collect(in.before), collect(Saved(in.after)))]

\* Any two worlds.
Entries == [size : Nat, mode : Nat, mtime : Int, xattrs : SUBSET STRING, content : Nat]
IsWorld(w) ==
    /\ w.tree \in [DOMAIN w.tree -> Entries]
    /\ w \in [tree : {w.tree}, root : {"dir", "link", "unreadable"}, blocked : {w.blocked},
             answers : {w.answers}]
IsInput(in) == IsWorld(in.before) /\ IsWorld(in.after)

-----------------------------------------------------------------------------
\* What a check says of the two trees.

\* It passes over no change of the metadata it keeps, and each path has one anomaly
\* with a positive score; a change that restores size, mode and time has none.
EachChangeScored(in, out) ==
    LET b == in.before.tree a == in.after.tree
        At(p) == {x \in out.anomalies : x.path = p}
        Visible(e) == [size |-> e.size, mode |-> e.mode, mtime |-> e.mtime]
    IN  \A p \in (DOMAIN a \union DOMAIN b) \ {StateFile, StateDir} :
            /\ Cardinality(At(p)) <= 1
            /\ \A x \in At(p) : x.score > 0
            /\ p \notin DOMAIN a \intersect DOMAIN b => At(p) /= {}
            /\ p \in DOMAIN a \intersect DOMAIN b =>
                /\ Visible(a[p]) /= Visible(b[p]) => At(p) /= {}
                /\ p \in in.before.answers \intersect in.after.answers =>
                    (At(p) /= {} <=> [a[p] EXCEPT !.content = 0] /= [b[p] EXCEPT !.content = 0])

\* A tree that nobody touched has no anomaly but that of the directory of the state
\* file, which the index itself has touched.
OwnTraceOnly(in, out) ==
    /\ in.before = in.after =>
        /\ \A x \in out.anomalies : x.path = StateDir /\ x.evidence = {"mtime"}
        /\ StateDir \in DOMAIN in.before.tree => \E x \in out.anomalies : x.path = StateDir
    /\ \A x \in out.anomalies : x.path /= StateFile

ScoresExplainTrees(in, out) ==
    /\ in.before.blocked \union in.after.blocked /= {} => out.exit = 4
    /\ out.exit = 0 /\ in.before.root = "dir" /\ in.after.root = "dir" =>
        EachChangeScored(in, out) /\ OwnTraceOnly(in, out)
=============================================================================
