------------------------------ MODULE JsonProbe ------------------------------
(***************************************************************************)
(* jsonprobe runs declarative checks one after the other (internal/        *)
(* jsonprobe, Run and runCheck): each is attempted until it has succeeded  *)
(* the required number of times in a row or its attempts are used up,      *)
(* every attempt under a deadline of its own.                              *)
(***************************************************************************)
EXTENDS Integers, SequencesExt

CONSTANTS
    Checks,     \* checks that validate accepts; timed when the probe heeds the
                \* deadline (tcp, http), not timed when it does not (file, process)
    CheckCount  \* how many of them a specification has

\* What validate accepts: a negative limit, or one above twenty, is refused.
Accepted == [timed : BOOLEAN, retries : 0..20, consecutive : 0..20]

ASSUME ChecksAssumption == Checks \subseteq Accepted /\ CheckCount \in Nat \ {0}

VARIABLES
    spec,       \* the checks to run
    answers,    \* for every check so far, what each attempt met
    row,        \* successes in a row of the current check
    records,    \* for every check so far, its Record
    outcome,    \* Result.Outcome
    probeExit   \* exit status of the command, -1 before

probeVars == <<spec, answers, row, records, outcome, probeExit>>

\* What an attempt meets, in time or after its deadline.
Answer == {"up", "down", "lateup", "latedown"}
Success(a) == a \in {"up", "lateup"}

Blank == [status |-> "fail", evidence |-> FALSE, diagnostic |-> "none"]

ProbeInit ==
    /\ spec \in [1..CheckCount -> Checks]
    /\ answers = <<>> /\ records = <<>> /\ row = 0
    /\ outcome = "pass" /\ probeExit = -1

now == Len(records)
required(c) == IF c.consecutive = 0 THEN 1 ELSE c.consecutive

\* A check is over when it passed or its attempts are used up.
Over(i) == records[i].status = "pass" \/ Len(answers[i]) > spec[i].retries

Attempting == now > 0 /\ ~Over(now)

\* Run folds the status of a check that is over into the outcome.  Its "partial"
\* needs the status "error", which runCheck never gives.
Outcome == IF now > 0 /\ records[now].status = "fail" THEN "fail" ELSE outcome

Begin ==
    /\ now < CheckCount /\ ~Attempting
    /\ outcome' = Outcome
    /\ records' = Append(records, Blank) /\ answers' = Append(answers, <<>>)
    /\ row' = 0
    /\ UNCHANGED <<spec, probeExit>>

Meet(a) == answers' = [answers EXCEPT ![now] = Append(@, a)]

\* A connection or a request is never made after its deadline; a file or a
\* process may be found late.
AttemptSucceeds(a) ==
    /\ Attempting /\ Success(a) /\ (a = "lateup" => ~spec[now].timed)
    /\ Meet(a) /\ row' = row + 1
    /\ records' = [records EXCEPT
         ![now].evidence = TRUE,
         ![now].status = IF row' >= required(spec[now]) THEN "pass" ELSE @]
    /\ UNCHANGED <<spec, outcome, probeExit>>

\* Mutant: successes are counted across a failure.
AttemptFails_KeepsRow(a) ==
    /\ Attempting /\ ~Success(a)
    /\ Meet(a)
    /\ records' = [records EXCEPT
         ![now].diagnostic = IF a = "latedown" THEN "timeout" ELSE "probe_failed"]
    /\ UNCHANGED <<spec, row, outcome, probeExit>>

\* The diagnostic, like the evidence, stays in the record whatever follows.
AttemptFails(a) ==
    /\ Attempting /\ ~Success(a)
    /\ Meet(a) /\ row' = 0
    /\ records' = [records EXCEPT
         ![now].diagnostic = IF a = "latedown" THEN "timeout" ELSE "probe_failed"]
    /\ UNCHANGED <<spec, outcome, probeExit>>

End ==
    /\ probeExit = -1 /\ now = CheckCount /\ Over(now)
    /\ outcome' = Outcome
    /\ probeExit' = IF outcome' = "pass" THEN 0 ELSE 1
    /\ UNCHANGED <<spec, answers, row, records>>

ProbeNext ==
    \/ Begin
    \/ \E a \in Answer : AttemptSucceeds(a) \/ AttemptFails(a)
    \/ End

ProbeEnded == probeExit /= -1

ProbeSpec == ProbeInit /\ [][ProbeNext]_probeVars

-----------------------------------------------------------------------------
ProbeTypeOK ==
    /\ spec \in [1..CheckCount -> Checks]
    /\ Len(records) = Len(answers) /\ now \in 0..CheckCount
    /\ \A i \in 1..now :
        /\ Len(answers[i]) \in 0..(spec[i].retries + 1) /\ Range(answers[i]) \subseteq Answer
        /\ records[i] \in [status : {"pass", "fail"}, evidence : BOOLEAN,
                           diagnostic : {"none", "timeout", "probe_failed"}]
    /\ row \in 0..20 /\ outcome \in {"pass", "fail"} /\ probeExit \in {-1, 0, 1}

\* n successes with no failure between them.
Streak(s, n) == \E i \in 0..(Len(s) - n) : \A j \in 1..n : Success(s[i + j])

\* A check passes at the first moment it has succeeded the required number of
\* times in a row, and fails only when it never did in all its attempts; the
\* command exits with 0 exactly when every check of the specification passed.
VerdictIsEarned ==
    /\ \A i \in 1..now : Over(i) =>
        LET s == answers[i] n == required(spec[i]) IN
        IF records[i].status = "pass"
        THEN Streak(s, n) /\ ~Streak(Front(s), n)
        ELSE ~Streak(s, n) /\ Len(s) = spec[i].retries + 1
    /\ ProbeEnded => (probeExit = 0 <=> \A i \in 1..CheckCount :
                    Len(answers) = CheckCount /\ Streak(answers[i], required(spec[i])))
=============================================================================
