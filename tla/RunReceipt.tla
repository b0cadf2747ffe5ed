----------------------------- MODULE RunReceipt -----------------------------
(***************************************************************************)
(* runreceipt runs a pipeline of commands and keeps a private receipt of   *)
(* what it saw of them: an intent record is saved before the first process *)
(* is launched, a final record replaces it when every direct child has     *)
(* been waited for.  This module models cmd/runreceipt (run, its save      *)
(* closure) and internal/runreceipt (Execute, ExitCode) one step of the    *)
(* main goroutine at a time, among the children, the goroutines of os/exec *)
(* that kill them and copy their output, the deadline, SIGINT and the      *)
(* death of runreceipt itself.                                             *)
(***************************************************************************)
EXTENDS Integers

CONSTANTS
    N,        \* stages of the pipeline; Preview accepts 1 to 16
    Codes     \* exit codes a command may choose

ASSUME NAssumption == N \in 1..16
ASSUME CodesAssumption == Codes \subseteq Nat /\ 0 \in Codes

Stage == 1..N
Signalled == -1     \* ProcessState.ExitCode() of a process killed by a signal
Nil == -1           \* a nil *int in the receipt
NoStatus == -1      \* runreceipt has not exited

StageStates == {"not_started", "running", "exited", "unknown"}
Reasons == {"", "pipeline_setup_failed", "stage_launch_failed",
            "process_completion_unknown", "interrupted", "timeout"}
States == {"preview", "running", "incomplete", "completed"}
Receipt == [state : States, reason : Reasons,
            stage : [Stage -> StageStates], code : [Stage -> Codes \union {Nil}]]

VARIABLES
    pc,         \* where the main goroutine is
    k,          \* index of its current loop
    state,      \* the receipt in memory: State,
    reason,     \* Reason,
    stage,      \* Stages[i].State,
    code,       \* and Stages[i].ExitCode
    onDisk,     \* what is at the receipt path
    disk,       \* the record there, when onDisk = "receipt"
    parent,     \* parent.Err(): "none", or the first of SIGINT and deadline
    cancelled,  \* cancel() of the inner context was called
    proc,       \* life of each direct child
    exit,       \* its true exit status, once it is not alive
    killed,     \* watchCtx signalled it and will report ctx.Err() to Wait
    output,     \* the goroutine that copies its output
    status      \* exit status of runreceipt

vars == <<pc, k, state, reason, stage, code, onDisk, disk, parent, cancelled,
          proc, exit, killed, output, status>>
memory == <<state, reason, stage, code>>
storage == <<onDisk, disk>>
context == <<parent, cancelled>>
children == <<proc, exit, killed, output>>

r == [state |-> state, reason |-> reason, stage |-> stage, code |-> code]

Ended == {"exit", "crashed"}
\* Mutant: the stages run under a context of their own, not under the parent.
CtxDone_Detached == cancelled

CtxDone == parent /= "none" \/ cancelled
Started(i) == proc[i] /= "none"
Alive(i) == proc[i] = "alive"

(***************************************************************************)
(* The receipt Preview returns, and the exit status of a final receipt.    *)
(***************************************************************************)
Preview == [state |-> "preview", reason |-> "",
            stage |-> [i \in Stage |-> "not_started"], code |-> [i \in Stage |-> Nil]]

ExitCode(x) ==
    LET zero(i) == x.code[i] = 0 IN
    CASE x.reason = "timeout" -> 124
      [] x.reason = "interrupted" -> 130
      [] OTHER ->
           IF x.state /= "completed" THEN 4
           ELSE IF \A i \in Stage : zero(i) THEN 0
           ELSE IF \E i \in Stage : x.code[i] = Nil /\ \A j \in 1..(i - 1) : zero(j) THEN 4
           ELSE 1

Init ==
    /\ pc = "main" /\ k = 0
    /\ state = Preview.state /\ reason = Preview.reason
    /\ stage = Preview.stage /\ code = Preview.code
    /\ onDisk \in {"absent", "foreign"}
    /\ disk = Preview
    /\ parent = "none" /\ cancelled = FALSE
    /\ proc = [i \in Stage |-> "none"]
    /\ exit = [i \in Stage |-> Signalled]
    /\ killed = [i \in Stage |-> FALSE]
    /\ output = [i \in Stage |-> "none"]
    /\ status = NoStatus

-----------------------------------------------------------------------------
(***************************************************************************)
(* The main goroutine.                                                     *)
(***************************************************************************)

\* Without --execute the preview is printed (status 4 when stdout fails);
\* --execute without --receipt is a usage error.
PrintPreview ==
    /\ pc = "main"
    /\ \E s \in {0, 2, 4} : status' = s
    /\ pc' = "exit"
    /\ UNCHANGED <<k, memory, storage, context, children>>

\* Execute starts: the receipt becomes the intent record.
BeginExecute ==
    /\ pc = "main"
    /\ state' = "running"
    /\ pc' = "create"
    /\ UNCHANGED <<k, reason, stage, code, storage, context, children, status>>

\* Mutant: the first save truncates whatever is at the receipt path.
CreateIntent_Truncates ==
    /\ pc = "create" /\ onDisk \in {"absent", "foreign"}
    /\ onDisk' = "torn"
    /\ pc' = "write"
    /\ UNCHANGED <<k, memory, disk, context, children, status>>

\* Execute's first save opens the receipt with O_EXCL: it never takes a path
\* that exists, and any failure aborts the run.
CreateIntent ==
    /\ pc = "create" /\ onDisk = "absent"
    /\ onDisk' = "torn"
    /\ pc' = "write"
    /\ UNCHANGED <<k, memory, disk, context, children, status>>

CreateIntentFails ==
    /\ pc = "create"
    /\ pc' = "exit" /\ status' = 4
    /\ UNCHANGED <<k, memory, storage, context, children>>

WriteIntent ==
    /\ pc = "write"
    /\ onDisk' = "receipt" /\ disk' = r
    /\ pc' = "pipes" /\ k' = 1
    /\ UNCHANGED <<memory, context, children, status>>

\* Mutant: the error of the first save is logged and the run goes on.
WriteIntentFails_Ignored ==
    /\ pc = "write"
    /\ pc' = "pipes" /\ k' = 1
    /\ UNCHANGED <<memory, storage, context, children, status>>

\* Write, Sync or Close reports an error: whatever part reached the file
\* stays at the receipt path.
WriteIntentFails ==
    /\ pc = "write"
    /\ \/ UNCHANGED storage
       \/ onDisk' = "receipt" /\ disk' = r
    /\ pc' = "exit" /\ status' = 4
    /\ UNCHANGED <<k, memory, context, children>>

\* The N - 1 pipes; the loop ends by turning to the last stage.
MakePipe ==
    /\ pc = "pipes"
    /\ IF k < N THEN pc' = "pipes" /\ k' = k + 1
                ELSE pc' = "start" /\ k' = N
    /\ UNCHANGED <<memory, storage, context, children, status>>

MakePipeFails ==
    /\ pc = "pipes" /\ k < N
    /\ state' = "incomplete" /\ reason' = "pipeline_setup_failed"
    /\ pc' = "persist"
    /\ UNCHANGED <<k, stage, code, storage, context, children, status>>

\* Consumers are started before producers.  Cmd.Start refuses when the context
\* is done.
StartStage ==
    /\ pc = "start" /\ ~CtxDone
    /\ proc' = [proc EXCEPT ![k] = "alive"]
    /\ output' = [output EXCEPT ![k] = "copying"]
    /\ stage' = [stage EXCEPT ![k] = "running"]
    /\ IF k > 1 THEN pc' = "start" /\ k' = k - 1
                ELSE pc' = "wait" /\ k' = 1
    /\ UNCHANGED <<state, reason, code, storage, context, exit, killed, status>>

\* Mutant: a launch failure returns at once, as a pipe failure does.
StartStageFails_Persists ==
    /\ pc = "start"
    /\ state' = "incomplete" /\ reason' = "stage_launch_failed"
    /\ cancelled' = TRUE
    /\ pc' = "persist" /\ k' = 1
    /\ UNCHANGED <<stage, code, storage, parent, children, status>>

StartStageFails ==
    /\ pc = "start"
    /\ state' = "incomplete" /\ reason' = "stage_launch_failed"
    /\ cancelled' = TRUE
    /\ pc' = "wait" /\ k' = 1
    /\ UNCHANGED <<stage, code, storage, parent, children, status>>

\* Mutant: the wait loop runs one past the last stage.
NextToWait_OnePast ==
    IF k <= N THEN pc' = "wait" /\ k' = k + 1
              ELSE pc' = "verdict" /\ k' = k

\* Mutant: the wait loop stops one short of the last stage.
NextToWait_OneShort ==
    IF k < N - 1 THEN pc' = "wait" /\ k' = k + 1
                 ELSE pc' = "verdict" /\ k' = k

NextToWait ==
    IF k < N THEN pc' = "wait" /\ k' = k + 1
             ELSE pc' = "verdict" /\ k' = k

SkipUnstarted ==
    /\ pc = "wait" /\ ~Started(k)
    /\ NextToWait
    /\ UNCHANGED <<memory, storage, context, children, status>>

\* Cmd.Wait, first half: the child is reaped.
Reap ==
    /\ pc = "wait" /\ proc[k] = "zombie"
    /\ proc' = [proc EXCEPT ![k] = "reaped"]
    /\ pc' = "reaped"
    /\ UNCHANGED <<k, memory, storage, context, exit, killed, output, status>>

\* Mutant: every ExitError is read as an exit code, a signal's -1 included.
CodeKnown_AnyExit(i) == exit[i] = 0 => ~killed[i] /\ output[i] = "drained"

\* The error Cmd.Wait returns is nil only for exit code zero, unless the
\* context killed the child or its output was cut by WaitDelay.  A non-zero
\* exit code hides both.
CodeKnown(i) ==
    /\ exit[i] /= Signalled
    /\ exit[i] = 0 => ~killed[i] /\ output[i] = "drained"

\* Cmd.Wait, second half, and what Execute makes of the error.
WaitGivesCode ==
    /\ pc = "reaped" /\ output[k] \in {"drained", "cut"} /\ CodeKnown(k)
    /\ stage' = [stage EXCEPT ![k] = "exited"]
    /\ code' = [code EXCEPT ![k] = exit[k]]
    /\ NextToWait
    /\ UNCHANGED <<state, reason, storage, context, children, status>>

\* Mutant: the reason is set without looking at an earlier one.
WaitGivesError_Blames ==
    /\ pc = "reaped" /\ output[k] \in {"drained", "cut"} /\ ~CodeKnown(k)
    /\ stage' = [stage EXCEPT ![k] = "unknown"]
    /\ state' = "incomplete"
    /\ reason' = "process_completion_unknown"
    /\ NextToWait
    /\ UNCHANGED <<code, storage, context, children, status>>

WaitGivesError ==
    /\ pc = "reaped" /\ output[k] \in {"drained", "cut"} /\ ~CodeKnown(k)
    /\ stage' = [stage EXCEPT ![k] = "unknown"]
    /\ state' = "incomplete"
    /\ reason' = IF reason = "" THEN "process_completion_unknown" ELSE reason
    /\ NextToWait
    /\ UNCHANGED <<code, storage, context, children, status>>

\* Mutant: without a done parent the receipt is completed, whatever happened.
Verdict_Completes ==
    /\ pc = "verdict"
    /\ IF parent /= "none" THEN state' = "incomplete" /\ reason' = parent
                           ELSE state' = "completed" /\ UNCHANGED reason
    /\ pc' = "persist"
    /\ UNCHANGED <<k, stage, code, storage, context, children, status>>

\* A done parent context overrides every other reason.
Verdict ==
    /\ pc = "verdict"
    /\ \/ parent /= "none" /\ state' = "incomplete" /\ reason' = parent
       \/ parent = "none" /\ state = "running" /\ state' = "completed" /\ UNCHANGED reason
       \/ parent = "none" /\ state /= "running" /\ UNCHANGED <<state, reason>>
    /\ pc' = "persist"
    /\ UNCHANGED <<k, stage, code, storage, context, children, status>>

\* The second save replaces the record with a synced temporary file.
PersistFinal ==
    /\ pc = "persist"
    /\ onDisk' = "receipt" /\ disk' = r
    /\ pc' = "report"
    /\ UNCHANGED <<k, memory, context, children, status>>

\* Mutant: the error of the final save is dropped.
PersistFinalFails_Dropped ==
    /\ pc = "persist"
    /\ pc' = "report"
    /\ UNCHANGED <<k, memory, storage, context, children, status>>

\* CreateTemp, Write, Sync, Close or Rename fails: the intent record remains.
PersistFinalFails ==
    /\ pc = "persist"
    /\ pc' = "exit" /\ status' = 4
    /\ UNCHANGED <<k, memory, storage, context, children>>

Report ==
    /\ pc = "report"
    /\ status' = ExitCode(r)
    /\ pc' = "exit"
    /\ UNCHANGED <<k, memory, storage, context, children>>

-----------------------------------------------------------------------------
(***************************************************************************)
(* What happens around it.                                                 *)
(***************************************************************************)

\* A command ends when it likes, also after runreceipt is gone.
ChildExits(i) ==
    /\ Alive(i)
    /\ proc' = [proc EXCEPT ![i] = "zombie"]
    /\ \E c \in Codes \union {Signalled} : exit' = [exit EXCEPT ![i] = c]
    /\ UNCHANGED <<pc, k, memory, storage, context, killed, output, status>>

\* os/exec's watchCtx: SIGKILL, which a child that has just exited but is not
\* reaped yet also accepts.
KillChild(i) ==
    /\ CtxDone /\ pc \notin Ended
    /\ proc[i] \in {"alive", "zombie"} /\ ~killed[i]
    /\ killed' = [killed EXCEPT ![i] = TRUE]
    /\ proc' = [proc EXCEPT ![i] = "zombie"]
    /\ exit' = IF Alive(i) THEN [exit EXCEPT ![i] = Signalled] ELSE exit
    /\ UNCHANGED <<pc, k, memory, storage, context, output, status>>

\* The copying goroutine reads end of file: the child is gone and so is every
\* descendant that held the pipe.
Drain(i) ==
    /\ pc \notin Ended
    /\ output[i] = "copying" /\ ~Alive(i)
    /\ output' = [output EXCEPT ![i] = "drained"]
    /\ UNCHANGED <<pc, k, memory, storage, context, proc, exit, killed, status>>

\* Its write to runreceipt's own stdout or stderr, or the mutex all the copies
\* share, keeps the copying goroutine waiting: whoever reads there has stopped.
BlockOutput(i) ==
    /\ pc \notin Ended
    /\ output[i] = "copying"
    /\ output' = [output EXCEPT ![i] = "blocked"]
    /\ UNCHANGED <<pc, k, memory, storage, context, proc, exit, killed, status>>

UnblockOutput(i) ==
    /\ pc \notin Ended
    /\ output[i] = "blocked"
    /\ output' = [output EXCEPT ![i] = "copying"]
    /\ UNCHANGED <<pc, k, memory, storage, context, proc, exit, killed, status>>

\* That write reports an error, on a full disk for one: the copying ends and
\* Wait returns the error unless it has another.
ForwardFails(i) ==
    /\ pc \notin Ended
    /\ output[i] = "copying"
    /\ output' = [output EXCEPT ![i] = "cut"]
    /\ UNCHANGED <<pc, k, memory, storage, context, proc, exit, killed, status>>

\* WaitDelay, 500ms after the context is done or Wait has reaped the child:
\* the pipe is closed on whatever was not copied yet.  A write that is under
\* way has to return first; Wait waits for it.
CutOutput(i) ==
    /\ pc \notin Ended
    /\ output[i] = "copying"
    /\ (CtxDone /\ ~Alive(i)) \/ proc[i] = "reaped"
    /\ output' = [output EXCEPT ![i] = "cut"]
    /\ UNCHANGED <<pc, k, memory, storage, context, proc, exit, killed, status>>

\* SIGINT, or the --timeout deadline: the first one decides parent.Err().
ParentDone(why) ==
    /\ parent = "none" /\ pc \notin Ended \union {"main"}
    /\ parent' = why
    /\ UNCHANGED <<pc, k, memory, storage, cancelled, children, status>>

Interrupt == ParentDone("interrupted")
Deadline == ParentDone("timeout")

\* runreceipt is killed (SIGKILL, SIGTERM, power): nothing is cleaned up.
Crash ==
    /\ pc \notin Ended
    /\ pc' = "crashed"
    /\ UNCHANGED <<k, memory, storage, context, children, status>>

Finished == pc \in Ended /\ UNCHANGED vars

-----------------------------------------------------------------------------
Main ==
    \/ PrintPreview \/ BeginExecute
    \/ CreateIntent \/ CreateIntentFails \/ WriteIntent \/ WriteIntentFails
    \/ MakePipe \/ MakePipeFails
    \/ StartStage \/ StartStageFails
    \/ SkipUnstarted \/ Reap \/ WaitGivesCode \/ WaitGivesError
    \/ Verdict \/ PersistFinal \/ PersistFinalFails \/ Report

CopyOutput(i) ==
    \/ Drain(i) \/ CutOutput(i) \/ ForwardFails(i)
    \/ BlockOutput(i) \/ UnblockOutput(i)

Next ==
    \/ Main
    \/ \E i \in Stage : ChildExits(i) \/ KillChild(i) \/ CopyOutput(i)
    \/ Interrupt \/ Deadline \/ Crash
    \/ Finished

Spec == Init /\ [][Next]_vars

\* The Go scheduler runs the main goroutine and the goroutines of os/exec, and
\* the deadline always comes.  WaitDelay closes the pipe of a copying goroutine,
\* which ends at its next read: it cannot return from its writes again and
\* again and stay.  Nothing is assumed of the commands, which may run for ever,
\* nor of the reader of the output, which may stop for ever.
Fairness ==
    /\ WF_vars(Main)
    /\ WF_vars(Deadline)
    /\ \A i \in Stage : WF_vars(KillChild(i)) /\ SF_vars(CutOutput(i))

FairSpec == Spec /\ Fairness

-----------------------------------------------------------------------------
(***************************************************************************)
(* Properties.                                                             *)
(***************************************************************************)

Final(x) == x.state \in {"completed", "incomplete"}
Recorded == onDisk = "receipt"

\* Every variable keeps its type: the receipt only ever has the states and
\* reasons of runreceipt.go.
TypeOK ==
    /\ pc \in {"main", "create", "write", "pipes", "start", "wait", "reaped",
               "verdict", "persist", "report"} \union Ended
    /\ k \in 0..N
    /\ state \in States /\ reason \in Reasons
    /\ stage \in [Stage -> StageStates] /\ code \in [Stage -> Codes \union {Nil}]
    /\ disk \in Receipt
    /\ onDisk \in {"absent", "foreign", "torn", "receipt"}
    /\ parent \in {"none", "interrupted", "timeout"} /\ cancelled \in BOOLEAN
    /\ proc \in [Stage -> {"none", "alive", "zombie", "reaped"}]
    /\ exit \in [Stage -> Codes \union {Signalled}]
    /\ killed \in [Stage -> BOOLEAN]
    /\ output \in [Stage -> {"none", "copying", "blocked", "drained", "cut"}]
    /\ status \in {NoStatus, 0, 1, 2, 4, 124, 130}

\* "Execute persists an intent record before launching": while any child
\* exists, also one that outlives a killed runreceipt, a complete record of
\* the operation is at the receipt path.
IntentBeforeLaunch ==
    \A i \in Stage : Started(i) => Recorded /\ disk.state \in {"running", "completed", "incomplete"}

\* A record that says a stage exited with a code is never wrong about it:
\* whatever kills, cuts and races there were, the child did end with that code.
RecordedCodesAreReal ==
    \A i \in Stage :
        Recorded /\ disk.stage[i] = "exited"
            => Started(i) /\ ~Alive(i) /\ disk.code[i] = exit[i] /\ exit[i] /= Signalled

\* "A running receipt means completion is unknown", and a final one means the
\* opposite: no direct child is left, every stage that was launched has an
\* ending and only those do, and a completed one has an exit code for all.
FinalReceiptIsSettled ==
    Recorded /\ Final(disk) =>
        \A i \in Stage :
            /\ ~Alive(i)
            /\ disk.stage[i] = "not_started" <=> ~Started(i)
            /\ disk.stage[i] /= "running"
            /\ disk.state = "completed" => disk.stage[i] = "exited"

\* runreceipt never blames a command: "process_completion_unknown" is recorded
\* only when some child died of a signal or lost output, to WaitDelay or to a
\* failing write, on its own, not when runreceipt's own cancellation ended it.
UnknownIsEarned ==
    Recorded /\ disk.reason = "process_completion_unknown" =>
        /\ ~cancelled
        /\ \E i \in Stage : Started(i) /\ (exit[i] = Signalled \/ output[i] = "cut")

\* The exit status never says more than the receipt on disk: a status other
\* than "recording failed or incomplete" comes with a final record that gives
\* that status, and zero means every command exited zero and all of its output
\* was forwarded.
StatusMatchesRecord ==
    pc = "exit" /\ state /= "preview" /\ status /= 4 =>
        /\ Recorded /\ Final(disk) /\ ExitCode(disk) = status
        /\ status = 0 => \A i \in Stage : exit[i] = 0 /\ output[i] = "drained"
        /\ status \in {124, 130} => parent = disk.reason

\* "Timeouts stop direct children": runreceipt never returns, on any path,
\* with a direct child still running.
NoChildOutlivesExit ==
    pc = "exit" => \A i \in Stage : ~Alive(i)

\* The receipt path is append-only evidence: another file there is never
\* touched, a record is never lost or torn again, and a final one is never
\* replaced.
EvidenceOnlyGrows ==
    [][/\ onDisk = "foreign" => UNCHANGED storage
       /\ Recorded => onDisk' = "receipt"
       /\ Recorded /\ Final(disk) => disk' = disk]_vars

\* A done context ends the run even when no command ever exits by itself and
\* descendants hold the pipes for ever; without one, the deadline comes.  Only
\* a reader of runreceipt's own output that stops for ever can hold it.
Terminates ==
    \/ <>(pc \in Ended)
    \/ \E i \in Stage : <>[](output[i] = "blocked")

\* "Output is forwarded unchanged" (man/runreceipt.1): a completed receipt
\* means the copies of all output reached end of file.
CompletedForwardedOutput ==
    Recorded /\ disk.state = "completed" => \A i \in Stage : output[i] = "drained"

-----------------------------------------------------------------------------
(***************************************************************************)
(* The program implements ReceiptEvidence.                                 *)
(***************************************************************************)
evidenceBar ==
    IF ~Recorded \/ disk.state = "preview" THEN "none"
    ELSE IF disk.state = "running" THEN "intent" ELSE disk.state
claimBar ==
    [i \in Stage |-> IF Recorded THEN disk.code[i] ELSE Nil]
outcomeBar ==
    [i \in Stage |-> IF ~Started(i) THEN -3 ELSE IF Alive(i) THEN -2 ELSE exit[i]]

Evidence == INSTANCE ReceiptEvidence
            WITH evidence <- evidenceBar, claim <- claimBar, outcome <- outcomeBar

\* Every step of runreceipt, its crash and its children's included, is a step
\* of the evidence a reader relies on or leaves that evidence alone.
ImplementsEvidence == Evidence!ESpec
=============================================================================
