----------------------------- MODULE JobTracker ------------------------------
(***************************************************************************)
(* tjt samples the process table and reports the processes that ended      *)
(* between two samples (internal/macossec, Tracker.Observe; cmd/tjt).  It  *)
(* knows a process by its PID alone, and a PID may be given again between  *)
(* two samples.                                                            *)
(***************************************************************************)
EXTENDS Integers, Sequences

CONSTANTS
    Pids, Commands,
    MaxSamples,     \* samples until the deadline
    MaxTurnover     \* bound on the processes that start

Free == "free"

ASSUME CommandsAssumption == Free \notin Commands /\ MaxSamples \in Nat /\ MaxTurnover \in Nat

VARIABLES
    running,    \* the command of every process, Free when there is none
    turnover,   \* processes started so far
    samples,    \* what every sample saw
    active,     \* Tracker.active: PIDs with their first and last sample
    jobs,       \* the TransientJobs that each sample reported
    trackExit   \* exit status, -1 before

trackVars == <<running, turnover, samples, active, jobs, trackExit>>

Gone == [first |-> 0, last |-> 0, command |-> Free]

TrackInit ==
    /\ running \in [Pids -> Commands \union {Free}]
    /\ turnover = 0 /\ samples = <<>> /\ jobs = <<>>
    /\ active = [p \in Pids |-> Gone]
    /\ trackExit = -1

Start(p, c) ==
    /\ trackExit = -1 /\ turnover < MaxTurnover /\ running[p] = Free
    /\ running' = [running EXCEPT ![p] = c] /\ turnover' = turnover + 1
    /\ UNCHANGED <<samples, active, jobs, trackExit>>

Stop(p) ==
    /\ trackExit = -1 /\ running[p] /= Free
    /\ running' = [running EXCEPT ![p] = Free]
    /\ UNCHANGED <<turnover, samples, active, jobs, trackExit>>

current == Len(samples) + 1
Known(p) == active[p] /= Gone
Seen(p) == running[p] /= Free

\* Mutant: an ended process stays among the active ones.
Kept_Ended(p) == IF Known(p) THEN active[p] ELSE Gone

\* What Observe makes of a PID the sample does not have.
Kept(p) == Gone

Observe(p) ==
    CASE Seen(p) /\ Known(p) -> [active[p] EXCEPT !.last = current, !.command = running[p]]
      [] Seen(p) /\ ~Known(p) -> [first |-> current, last |-> current, command |-> running[p]]
      [] ~Seen(p) -> Kept(p)

\* The ended ones, one for each PID of the map that Observe goes through; the order
\* it sorts them in is left out.
EndedNow == {p \in Pids : Known(p) /\ ~Seen(p)}

Job(p) == [pid |-> p, first |-> active[p].first, last |-> active[p].last,
           command |-> active[p].command]

Sample ==
    /\ trackExit = -1 /\ Len(samples) < MaxSamples
    /\ samples' = Append(samples, running)
    /\ active' = [p \in Pids |-> Observe(p)]
    /\ jobs' = Append(jobs, {Job(p) : p \in EndedNow})
    /\ UNCHANGED <<running, turnover, trackExit>>

\* ps fails: what was found so far is not reported either.
SampleFails ==
    /\ trackExit = -1 /\ Len(samples) < MaxSamples
    /\ trackExit' = 4
    /\ UNCHANGED <<running, turnover, samples, active, jobs>>

Deadline ==
    /\ trackExit = -1 /\ samples /= <<>>
    /\ trackExit' = 0
    /\ UNCHANGED <<running, turnover, samples, active, jobs>>

TrackStep == Sample \/ SampleFails \/ Deadline
TrackNext == TrackStep \/ \E p \in Pids : Stop(p) \/ \E c \in Commands : Start(p, c)

TrackEnded == trackExit /= -1

TrackSpec == TrackInit /\ [][TrackNext]_trackVars

-----------------------------------------------------------------------------
TrackTypeOK ==
    /\ running \in [Pids -> Commands \union {Free}] /\ turnover \in 0..MaxTurnover
    /\ samples \in Seq([Pids -> Commands \union {Free}]) /\ Len(samples) <= MaxSamples
    /\ active \in [Pids -> [first : 0..MaxSamples, last : 0..MaxSamples,
                            command : Commands \union {Free}]]
    /\ Len(jobs) = Len(samples)
    /\ \A i \in DOMAIN jobs :
         jobs[i] \subseteq [pid : Pids, first : 1..MaxSamples, last : 1..MaxSamples,
                           command : Commands]
    /\ trackExit \in {-1, 0, 4}

\* A PID was seen by the samples s from first to last, and by neither neighbour.
Interval(s, p, first, last) ==
    /\ \A i \in first..last : s[i][p] /= Free
    /\ first > 1 => s[first - 1][p] = Free
    /\ last < Len(s) => s[last + 1][p] = Free

\* The jobs reported are the unbroken stretches of samples a PID was seen in that
\* ended before the last sample, each under its last command and at the first sample
\* without it, and so once; a stretch that reaches the last sample is still active.
JobsAreIntervals ==
    /\ \A i \in DOMAIN jobs : \A j \in jobs[i] :
         /\ j.first \in 1..j.last /\ Interval(samples, j.pid, j.first, j.last)
         /\ i = j.last + 1 /\ j.command = samples[j.last][j.pid]
    /\ \A p \in Pids : \A last \in 1..Len(samples) : \A first \in 1..last :
         Interval(samples, p, first, last) =>
            LET stretch == [first |-> first, last |-> last, command |-> samples[last][p]]
            IN  IF last = Len(samples) THEN active[p] = stretch
                ELSE [pid |-> p, first |-> first, last |-> last,
                      command |-> samples[last][p]] \in jobs[last + 1]
=============================================================================
