------------------------------- MODULE MCTools -------------------------------
(***************************************************************************)
(* Small tools, each checked by itself: the initial state chooses one of   *)
(* them, and the others stay in one of their initial states.               *)
(***************************************************************************)
EXTENDS MCReports, JsonProbe, Jwalk, JobTracker, Quarantine

vars == <<tool, probeVars, walkVars, trackVars, quarantineVars, reportVars>>

-----------------------------------------------------------------------------
\* jsonprobe: a check that passes at once, one that wants two successes in a row,
\* and one that can never get as many as it wants.
MCChecks ==
    {[timed |-> TRUE, retries |-> 0, consecutive |-> 0],
     [timed |-> FALSE, retries |-> 2, consecutive |-> 2],
     [timed |-> TRUE, retries |-> 1, consecutive |-> 3]}

\* jwalk: 1 /a, 2 /a/b, 3 /a/b/f, 4 /a/l -> 7, 5 /a/u, 6 /a/z, 7 /o, 8 /o/g,
\* 9 /o/k -> 1; /a/u cannot be listed and the filters leave /a/b/f out.
MCParent == <<0, 1, 2, 1, 1, 1, 0, 7, 7>>
MCKind == <<"dir", "dir", "file", "link", "dir", "file", "dir", "file", "link">>
MCTarget == <<0, 0, 0, 7, 0, 0, 0, 0, 1>>
MCUnreadable == {5}
MCWanted == (1..9) \ {3}
MCRootLists == {<<1>>, <<2, 1>>, <<1, 7>>, <<1, 6>>, <<9>>}

\* clt: two hidden copies of one content, and two of another with one name, one of
\* them in a directory that the walk comes to earlier than its path is in order.
Named(d, n) == [dir |-> d, name |-> n, hidden |-> n \in {".x", ".y"}]
MCWhere == <<Named("a.b", ".x"), Named("a.b", "z"), Named("a", ".x"), Named("a", ".y"),
             Named("c", ".x"), Named("c", ".y")>>
MCWalkOrder == <<3, 4, 1, 2, 5, 6>>
MCContent == <<2, 2, 1, 1, 2, 3>>
MCExecutable == {1, 3, 4, 5}

-----------------------------------------------------------------------------
\* A tool that was not chosen stays as it is before its start.
ProbeIdle == spec = [i \in 1..CheckCount |-> CHOOSE c \in Checks : TRUE] /\ ProbeInit
WalkIdle ==
    /\ roots = CHOOSE r \in RootLists : TRUE
    /\ follow = FALSE /\ failOnError = FALSE /\ gone0 = {} /\ gone = {}
    /\ WalkInit
TrackIdle == running = [p \in Pids |-> Free] /\ TrackInit
QuarantineIdle == QuarantineInit
ReportIdle == input = <<>> /\ output = <<>>

Init ==
    \/ tool = "jsonprobe" /\ ProbeInit /\ WalkIdle /\ TrackIdle /\ QuarantineIdle /\ ReportIdle
    \/ tool = "jwalk" /\ WalkInit /\ ProbeIdle /\ TrackIdle /\ QuarantineIdle /\ ReportIdle
    \/ tool = "tjt" /\ TrackInit /\ ProbeIdle /\ WalkIdle /\ QuarantineIdle /\ ReportIdle
    \/ tool = "clt" /\ QuarantineInit /\ ProbeIdle /\ WalkIdle /\ TrackIdle /\ ReportIdle
    \/ ReportInit /\ ProbeIdle /\ WalkIdle /\ TrackIdle /\ QuarantineIdle

Ended ==
    \/ tool = "jsonprobe" /\ ProbeEnded
    \/ tool = "jwalk" /\ WalkEnded
    \/ tool = "tjt" /\ TrackEnded
    \/ tool = "clt" /\ QuarantineEnded
    \/ output /= <<>>

StepTools == {"jsonprobe", "jwalk", "tjt", "clt"}

Others(t) ==
    /\ t /= "jsonprobe" => UNCHANGED probeVars
    /\ t /= "jwalk" => UNCHANGED walkVars
    /\ t /= "tjt" => UNCHANGED trackVars
    /\ t /= "clt" => UNCHANGED quarantineVars
    /\ t \in StepTools => UNCHANGED reportVars

\* What the tools do, in steps or in one, and what happens around them.
Work ==
    \/ tool = "jsonprobe" /\ ProbeNext
    \/ tool = "jwalk" /\ WalkStep
    \/ tool = "tjt" /\ TrackStep
    \/ tool = "clt" /\ QuarantineNext

Around ==
    \/ tool = "jwalk" /\ \E e \in Entries : Vanish(e)
    \/ tool = "tjt" /\ \E p \in Pids : Stop(p) \/ \E c \in Commands : Start(p, c)

Finished == Ended /\ UNCHANGED vars

Next == (~Ended /\ (Work \/ OneStep \/ Around) /\ UNCHANGED tool /\ Others(tool)) \/ Finished

\* The tools that work in steps go on as long as they can: none of them waits for another process but
\* a probe, whose deadline comes, and ps, which ends.
Spec == Init /\ [][Next]_vars /\ WF_vars(Work /\ UNCHANGED tool /\ Others(tool))

-----------------------------------------------------------------------------
\* Every tool that works in steps ends: jsonprobe's attempts run out, jwalk follows links round a
\* circle only once, tjt's deadline comes, and clt has no more to move.
Terminates == tool \in StepTools => <>Ended
=============================================================================
