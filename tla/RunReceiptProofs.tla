-------------------------- MODULE RunReceiptProofs --------------------------
(***************************************************************************)
(* The invariants of RunReceipt, for pipelines of every length Preview     *)
(* accepts and every set of exit codes, and the refinement of              *)
(* ReceiptEvidence.                                                        *)
(***************************************************************************)
EXTENDS RunReceipt, TLAPS

BeforeLaunch == {"main", "create", "write", "pipes"}
IntentOnDisk == {"pipes", "start", "wait", "reaped", "verdict", "persist"}

\* What a receipt may say of stage i.
Truthful(x, i) ==
    /\ x.stage[i] = "exited" =>
           /\ Started(i) /\ ~Alive(i)
           /\ x.code[i] = exit[i] /\ exit[i] /= Signalled
    /\ x.stage[i] /= "exited" => x.code[i] = Nil

WaitedFor(i) == ~Alive(i) /\ stage[i] /= "running"

Settled(x, i) ==
    /\ ~Alive(i)
    /\ x.stage[i] = "not_started" <=> ~Started(i)
    /\ x.stage[i] /= "running"
    /\ x.state = "completed" => x.stage[i] = "exited"

\* The receipt in memory knows which children exist.
MemoryInv ==
    /\ \A i \in Stage : Truthful(r, i)
    /\ \A i \in Stage : stage[i] = "not_started" <=> ~Started(i)

\* How far the loops are.
ProgressInv ==
    /\ pc \in BeforeLaunch => \A i \in Stage : ~Started(i)
    /\ pc \in {"pipes", "start", "wait", "reaped"} => k \in Stage
    /\ pc = "start" => \A i \in Stage :
           (i <= k <=> ~Started(i)) /\ stage[i] \in {"not_started", "running"}
    /\ pc \in {"wait", "reaped"} => \A i \in Stage :
           IF i < k THEN WaitedFor(i) ELSE stage[i] \in {"not_started", "running"}
    /\ pc = "reaped" => proc[k] = "reaped"
    /\ pc \in {"verdict", "persist", "report"} => \A i \in Stage : WaitedFor(i)
    /\ pc = "exit" => \A i \in Stage : ~Alive(i)

\* The state of the receipt in memory; it is still "running" at the verdict
\* only when every stage was launched and exited.
StateInv ==
    /\ pc = "main" => state = "preview"
    /\ pc \in {"create", "write", "pipes", "start"} => state = "running"
    /\ pc \in {"wait", "reaped", "verdict"} =>
           /\ state \in {"running", "incomplete"}
           /\ state = "running" =>
                  \A i \in Stage : Started(i) /\ stage[i] \in {"running", "exited"}
    /\ pc \in {"persist", "report"} =>
           Final(r) /\ \A i \in Stage : Settled(r, i)

\* What is at the receipt path.
RecordInv ==
    /\ pc \in {"main", "create", "write"} => ~Recorded
    /\ pc = "write" => onDisk = "torn"
    /\ pc \in IntentOnDisk =>
           Recorded /\ disk.state = "running" /\ \A i \in Stage : disk.code[i] = Nil
    /\ pc = "report" => Recorded /\ disk = r
    /\ Recorded => disk.state /= "preview" /\ \A i \in Stage : Truthful(disk, i)
    /\ Recorded /\ Final(disk) => \A i \in Stage : Settled(disk, i)
    /\ ~Recorded => \A i \in Stage : ~Started(i)

IInv == TypeOK /\ MemoryInv /\ ProgressInv /\ StateInv /\ RecordInv

\* Some child ended badly by itself: of a signal, or with output left behind.
Earned ==
    \E i \in Stage :
        Started(i) /\ ~Alive(i) /\ (exit[i] = Signalled \/ output[i] = "cut")

Unknown == "process_completion_unknown"

\* What the reason in memory and the one on record rest on.  Before the verdict
\* "unknown" may also rest on a done parent, whose reason then replaces it.
ReasonInv ==
    /\ pc \in BeforeLaunch \union {"start"} => reason = ""
    /\ pc \in IntentOnDisk => disk.reason = ""
    /\ cancelled => reason \notin {"", Unknown}
    /\ reason \in {"timeout", "interrupted"} => parent = reason
    /\ reason = Unknown => Earned \/ (parent /= "none" /\ pc \in {"wait", "reaped", "verdict", "crashed"})
    /\ Recorded /\ disk.reason = Unknown => ~cancelled /\ Earned

\* A kill comes from a done context; an exit with zero that is on record kept its output.
OutputInv ==
    \A i \in Stage :
        /\ killed[i] => CtxDone
        /\ stage[i] = "exited" /\ exit[i] = 0 => output[i] = "drained"

\* An exit status other than "recording failed" is that of the receipt on record.
ExitInv ==
    /\ pc \notin Ended => status = NoStatus
    /\ pc = "exit" /\ state /= "preview" /\ status /= 4 =>
        Recorded /\ disk = r /\ Final(r) /\ status = ExitCode(r)

VerdictInv == ReasonInv /\ OutputInv /\ ExitInv

\* The goroutine that copies the output of a stage touches nothing but that.
LEMMA CopyIsAlone ==
    ASSUME NEW i \in Stage, CopyOutput(i)
    PROVE  /\ output[i] \in {"copying", "blocked"}
           /\ \E o \in {"copying", "blocked", "drained", "cut"} : output' = [output EXCEPT ![i] = o]
           /\ UNCHANGED <<pc, k, state, reason, stage, code, onDisk, disk, parent, cancelled,
                          proc, exit, killed, status>>
BY DEF CopyOutput, Drain, CutOutput, ForwardFails, BlockOutput, UnblockOutput, memory, storage,
       context

\* The receipt assembled from the variables of memory has the type of Receipt.
LEMMA MemoryIsReceipt == TypeOK => r \in Receipt
  BY DEF TypeOK, Receipt, r

\* Assigning within a function keeps its type when the value is of the type
\* wherever the argument is in the domain.
LEMMA ExceptType ==
    ASSUME NEW S, NEW T, NEW f \in [S -> T], NEW j, NEW v, j \in S => v \in T
    PROVE  [f EXCEPT ![j] = v] \in [S -> T]
  OBVIOUS

\* The loop over Wait stays within the stages, or goes on to the verdict.
LEMMA NextToWaitType ==
    TypeOK /\ NextToWait => pc' \in {"wait", "verdict"} /\ k' \in 0..N
  BY NAssumption DEF TypeOK, NextToWait

\* Every step keeps the types.
LEMMA TypeInvariant == TypeOK /\ [Next]_vars => TypeOK'
<1> SUFFICES ASSUME TypeOK, [Next]_vars PROVE TypeOK'
  OBVIOUS
<1> USE NAssumption, CodesAssumption, MemoryIsReceipt DEF TypeOK, Ended, memory, storage, context, children
<1>1. CASE PrintPreview
  BY <1>1 DEF PrintPreview, NoStatus
<1>2. CASE BeginExecute
  BY <1>2 DEF BeginExecute, States
<1>3. CASE CreateIntent
  BY <1>3 DEF CreateIntent
<1>4. CASE CreateIntentFails
  BY <1>4 DEF CreateIntentFails
<1>5. CASE WriteIntent
  BY <1>5 DEF WriteIntent, Stage
<1>6. CASE WriteIntentFails
  BY <1>6 DEF WriteIntentFails
<1>7. CASE MakePipe
  BY <1>7 DEF MakePipe, Stage
<1>8. CASE MakePipeFails
  BY <1>8 DEF MakePipeFails, States, Reasons
<1>9. CASE StartStage
  <2>1. stage' \in [Stage -> StageStates]
    BY <1>9 DEF StartStage, StageStates
  <2>2. proc' \in [Stage -> {"none", "alive", "zombie", "reaped"}]
    BY <1>9 DEF StartStage
  <2>3. output' \in [Stage -> {"none", "copying", "blocked", "drained", "cut"}]
    BY <1>9 DEF StartStage
  <2>4. pc' \in {"start", "wait"} /\ k' \in 0..N
    BY <1>9 DEF StartStage
  <2> QED BY <1>9, <2>1, <2>2, <2>3, <2>4 DEF StartStage
<1>10. CASE StartStageFails
  <2>1. state' \in States /\ reason' \in Reasons
    BY <1>10 DEF StartStageFails, States, Reasons
  <2>2. pc' = "wait" /\ k' \in 0..N /\ cancelled' \in BOOLEAN
    BY <1>10 DEF StartStageFails
  <2> QED BY <1>10, <2>1, <2>2 DEF StartStageFails
<1>11. CASE SkipUnstarted
  BY <1>11 DEF SkipUnstarted, NextToWait, Stage
<1>12. CASE Reap
  BY <1>12 DEF Reap
<1>13. CASE WaitGivesCode
  <2>1. pc' \in {"wait", "verdict"} /\ k' \in 0..N
    BY <1>13, NextToWaitType DEF WaitGivesCode
  <2>2. exit[k] /= Signalled /\ k \in Stage => exit[k] \in Codes
    OBVIOUS
  <2>3. stage' \in [Stage -> StageStates]
    BY <1>13 DEF WaitGivesCode, StageStates
  <2>4. code' \in [Stage -> Codes \union {Nil}]
    <3>1. CodeKnown(k) /\ code' = [code EXCEPT ![k] = exit[k]]
      BY <1>13 DEF WaitGivesCode
    <3>2. exit[k] /= Signalled
      BY <3>1 DEF CodeKnown
    <3> HIDE DEF TypeOK
    <3>3. code \in [Stage -> Codes \union {Nil}]
      BY DEF TypeOK
    <3>4. k \in Stage => exit[k] \in Codes \union {Nil}
      BY <2>2, <3>2
    <3> QED BY <3>1, <3>3, <3>4, ExceptType
  <2> QED BY <1>13, <2>1, <2>3, <2>4 DEF WaitGivesCode
<1>26. CASE WaitGivesError
  <2>1. pc' \in {"wait", "verdict"} /\ k' \in 0..N
    BY <1>26, NextToWaitType DEF WaitGivesError
  <2>3. stage' \in [Stage -> StageStates]
    BY <1>26 DEF WaitGivesError, StageStates
  <2>5. state' \in States /\ reason' \in Reasons
    BY <1>26 DEF WaitGivesError, States, Reasons
  <2> QED BY <1>26, <2>1, <2>3, <2>5 DEF WaitGivesError
<1>14. CASE Verdict
  <2>1. state' \in States /\ reason' \in Reasons
    BY <1>14 DEF Verdict, States, Reasons
  <2>2. pc' = "persist"
    BY <1>14 DEF Verdict
  <2> QED BY <1>14, <2>1, <2>2 DEF Verdict
<1>15. CASE PersistFinal
  BY <1>15 DEF PersistFinal
<1>16. CASE PersistFinalFails
  BY <1>16 DEF PersistFinalFails
<1>17. CASE Report
  BY <1>17 DEF Report, ExitCode
<1>18. CASE Interrupt
  BY <1>18 DEF Interrupt, ParentDone
<1>19. CASE Deadline
  BY <1>19 DEF Deadline, ParentDone
<1>20. CASE Crash
  BY <1>20 DEF Crash
<1>21. ASSUME NEW i \in Stage, ChildExits(i) PROVE TypeOK'
  BY <1>21 DEF ChildExits
<1>22. ASSUME NEW i \in Stage, KillChild(i) PROVE TypeOK'
  BY <1>22 DEF KillChild, Signalled
<1>23. ASSUME NEW i \in Stage, CopyOutput(i) PROVE TypeOK'
  BY <1>23, CopyIsAlone
<1>25. CASE UNCHANGED vars
  BY <1>25 DEF vars
<1> QED BY <1>1, <1>2, <1>3, <1>4, <1>5, <1>6, <1>7, <1>8, <1>9, <1>10, <1>11, <1>12, <1>13, <1>14, <1>15, <1>16, <1>17, <1>18, <1>19, <1>20, <1>21, <1>22, <1>23, <1>25, <1>26
  DEF Next, Main, Finished

\* A receipt without exit codes has the type of its codes.
LEMMA NoCodes == [i \in Stage |-> Nil] \in [Stage -> Codes \union {Nil}]
  OBVIOUS

\* What Preview returns has the type of Receipt.
LEMMA PreviewIsReceipt == Preview \in Receipt
<1>1. [i \in Stage |-> "not_started"] \in [Stage -> StageStates]
  BY DEF StageStates
<1>3. "preview" \in States /\ "" \in Reasons
  BY DEF States, Reasons
<1> QED BY <1>1, NoCodes, <1>3 DEF Preview, Receipt

\* IInv holds before the command has done anything.
LEMMA InitIInv == Init => IInv
<1> SUFFICES ASSUME Init PROVE IInv
  OBVIOUS
<1> USE NAssumption, CodesAssumption DEF Init, Preview
<1>1. TypeOK
  <2>1. disk \in Receipt
    BY PreviewIsReceipt
  <2>2. state \in States /\ reason \in Reasons
    BY DEF States, Reasons
  <2>3. stage \in [Stage -> StageStates]
    BY DEF StageStates
  <2>4. code \in [Stage -> Codes \union {Nil}]
    BY NoCodes
  <2>5. pc = "main" /\ onDisk \in {"absent", "foreign"} /\ parent = "none"
    OBVIOUS
  <2>9. k \in 0..N
    <3>1. k = 0
      OBVIOUS
    <3> HIDE DEF Init, Preview
    <3> QED BY <3>1
  <2>6. /\ proc \in [Stage -> {"none", "alive", "zombie", "reaped"}]
        /\ killed \in [Stage -> BOOLEAN]
        /\ output \in [Stage -> {"none", "copying", "blocked", "drained", "cut"}]
    OBVIOUS
  <2>7. exit \in [Stage -> Codes \union {Signalled}]
    OBVIOUS
  <2>8. cancelled \in BOOLEAN /\ status = NoStatus
    OBVIOUS
  <2> HIDE DEF Init, Preview
  <2> QED BY <2>1, <2>2, <2>3, <2>4, <2>5, <2>6, <2>7, <2>8, <2>9 DEF TypeOK
<1>2. MemoryInv
  BY DEF MemoryInv, Truthful, Started, r
<1>3. ProgressInv
  BY DEF ProgressInv, BeforeLaunch, Started
<1>4. StateInv
  BY DEF StateInv, r
<1>5. RecordInv
  BY DEF RecordInv, Recorded, IntentOnDisk, Started
<1> QED BY <1>1, <1>2, <1>3, <1>4, <1>5 DEF IInv

\* Every action of runreceipt, of its children and of the user keeps IInv.
LEMMA NextIInv == IInv /\ [Next]_vars => IInv'
<1> SUFFICES ASSUME TypeOK, MemoryInv, ProgressInv, StateInv, RecordInv, [Next]_vars
             PROVE  MemoryInv' /\ ProgressInv' /\ StateInv' /\ RecordInv'
  BY TypeInvariant DEF IInv
<1> USE NAssumption DEF memory, storage, context, children
<1>a. /\ k \in 0..N /\ disk \in Receipt
      /\ stage \in [Stage -> StageStates] /\ code \in [Stage -> Codes \union {Nil}]
      /\ proc \in [Stage -> {"none", "alive", "zombie", "reaped"}]
      /\ exit \in [Stage -> Codes \union {Signalled}]
  BY DEF TypeOK

<1>1. CASE PrintPreview
  <2>1. MemoryInv'
    BY <1>a, <1>1 DEF PrintPreview, MemoryInv, r, Truthful, Started, Alive
  <2>2. ProgressInv'
    BY <1>a, <1>1 DEF PrintPreview, ProgressInv, WaitedFor, BeforeLaunch, Started, Alive
  <2>3. StateInv'
    BY <1>a, <1>1 DEF PrintPreview, StateInv, r, Settled, Final, Started, Alive
  <2>4. RecordInv'
    BY <1>a, <1>1 DEF PrintPreview, RecordInv, r, Recorded, Truthful, Settled, Final, IntentOnDisk, Started, Alive
  <2> QED BY <2>1, <2>2, <2>3, <2>4
<1>2. CASE BeginExecute
  <2>1. MemoryInv'
    BY <1>a, <1>2 DEF BeginExecute, MemoryInv, r, Truthful, Started, Alive
  <2>2. ProgressInv'
    BY <1>a, <1>2 DEF BeginExecute, ProgressInv, WaitedFor, BeforeLaunch, Started, Alive
  <2>3. StateInv'
    BY <1>a, <1>2 DEF BeginExecute, StateInv, r, Settled, Final, Started, Alive
  <2>4. RecordInv'
    BY <1>a, <1>2 DEF BeginExecute, RecordInv, r, Recorded, Truthful, Settled, Final, IntentOnDisk, Started, Alive
  <2> QED BY <2>1, <2>2, <2>3, <2>4
<1>3. CASE CreateIntent
  <2>1. MemoryInv'
    BY <1>a, <1>3 DEF CreateIntent, MemoryInv, r, Truthful, Started, Alive
  <2>2. ProgressInv'
    BY <1>a, <1>3 DEF CreateIntent, ProgressInv, WaitedFor, BeforeLaunch, Started, Alive
  <2>3. StateInv'
    BY <1>a, <1>3 DEF CreateIntent, StateInv, r, Settled, Final, Started, Alive
  <2>4. RecordInv'
    BY <1>a, <1>3 DEF CreateIntent, RecordInv, r, Recorded, Truthful, Settled, Final, IntentOnDisk, Started, Alive
  <2> QED BY <2>1, <2>2, <2>3, <2>4
<1>4. CASE CreateIntentFails
  <2>1. MemoryInv'
    BY <1>a, <1>4 DEF CreateIntentFails, MemoryInv, r, Truthful, Started, Alive
  <2>2. ProgressInv'
    BY <1>a, <1>4 DEF CreateIntentFails, ProgressInv, WaitedFor, BeforeLaunch, Started, Alive
  <2>3. StateInv'
    BY <1>a, <1>4 DEF CreateIntentFails, StateInv, r, Settled, Final, Started, Alive
  <2>4. RecordInv'
    BY <1>a, <1>4 DEF CreateIntentFails, RecordInv, r, Recorded, Truthful, Settled, Final, IntentOnDisk, Started, Alive
  <2> QED BY <2>1, <2>2, <2>3, <2>4
<1>5. CASE WriteIntent
  <2>1. MemoryInv'
    BY <1>a, <1>5 DEF WriteIntent, MemoryInv, r, Truthful, Started, Alive
  <2>2. ProgressInv'
    BY <1>a, <1>5 DEF WriteIntent, Stage, ProgressInv, WaitedFor, BeforeLaunch, Started, Alive
  <2>3. StateInv'
    BY <1>a, <1>5 DEF WriteIntent, StateInv, r, Settled, Final, Started, Alive
  <2>4. RecordInv'
    BY <1>a, <1>5 DEF WriteIntent, Preview, StateInv, ProgressInv, MemoryInv, BeforeLaunch, RecordInv, r, Recorded, Truthful, Settled, Final, IntentOnDisk, Started, Alive
  <2> QED BY <2>1, <2>2, <2>3, <2>4
<1>6. CASE WriteIntentFails
  <2>1. MemoryInv'
    BY <1>a, <1>6 DEF WriteIntentFails, MemoryInv, r, Truthful, Started, Alive
  <2>2. ProgressInv'
    BY <1>a, <1>6 DEF WriteIntentFails, ProgressInv, WaitedFor, BeforeLaunch, Started, Alive
  <2>3. StateInv'
    BY <1>a, <1>6 DEF WriteIntentFails, StateInv, r, Settled, Final, Started, Alive
  <2>4. RecordInv'
    BY <1>a, <1>6 DEF WriteIntentFails, StateInv, ProgressInv, MemoryInv, BeforeLaunch, RecordInv, r, Recorded, Truthful, Settled, Final, IntentOnDisk, Started, Alive
  <2> QED BY <2>1, <2>2, <2>3, <2>4
<1>7. CASE MakePipe
  <2>1. MemoryInv'
    BY <1>a, <1>7 DEF MakePipe, MemoryInv, r, Truthful, Started, Alive
  <2>2. ProgressInv'
    BY <1>a, <1>7 DEF MakePipe, Stage, MemoryInv, ProgressInv, WaitedFor, BeforeLaunch, Started, Alive
  <2>3. StateInv'
    BY <1>a, <1>7 DEF MakePipe, StateInv, r, Settled, Final, Started, Alive
  <2>4. RecordInv'
    BY <1>a, <1>7 DEF MakePipe, RecordInv, r, Recorded, Truthful, Settled, Final, IntentOnDisk, Started, Alive
  <2> QED BY <2>1, <2>2, <2>3, <2>4
<1>8. CASE MakePipeFails
  <2>1. MemoryInv'
    BY <1>a, <1>8 DEF MakePipeFails, MemoryInv, r, Truthful, Started, Alive
  <2>2. ProgressInv'
    BY <1>a, <1>8 DEF MakePipeFails, MemoryInv, ProgressInv, WaitedFor, BeforeLaunch, Started, Alive
  <2>3. StateInv'
    BY <1>a, <1>8 DEF MakePipeFails, MemoryInv, ProgressInv, BeforeLaunch, StateInv, r, Settled, Final, Started, Alive
  <2>4. RecordInv'
    BY <1>a, <1>8 DEF MakePipeFails, RecordInv, r, Recorded, Truthful, Settled, Final, IntentOnDisk, Started, Alive
  <2> QED BY <2>1, <2>2, <2>3, <2>4
<1>9. CASE StartStage
  <2>1. MemoryInv'
    <3> SUFFICES ASSUME NEW j \in Stage
                 PROVE  Truthful(r, j)' /\ (stage[j] = "not_started" <=> ~Started(j))'
      BY DEF MemoryInv
    <3>1. Truthful(r, j) /\ (stage[j] = "not_started" <=> ~Started(j)) /\ Truthful(r, k)
      BY <1>9 DEF MemoryInv, StartStage, ProgressInv
    <3>2. k \in Stage /\ ~Started(k) /\ k <= k
      BY <1>9, <1>a DEF StartStage, ProgressInv, Stage
    <3>3. CASE j = k
      BY <1>a, <1>9, <3>1, <3>2, <3>3 DEF StartStage, Truthful, Started, Alive, r
    <3>4. CASE j /= k
      BY <1>a, <1>9, <3>1, <3>2, <3>4 DEF StartStage, Truthful, Started, Alive, r
    <3> QED BY <3>3, <3>4
  <2>2. ProgressInv'
    BY <1>a, <1>9 DEF StartStage, Stage, ProgressInv, WaitedFor, BeforeLaunch, Started, Alive
  <2>3. StateInv'
    <3>1. k \in Stage /\ pc = "start" /\ state = "running"
      BY <1>9 DEF StartStage, ProgressInv, StateInv
    <3>2. ASSUME NEW j \in Stage, pc' = "wait"
          PROVE  Started(j)' /\ stage'[j] = "running"
      <4>1. k = 1
        BY <1>9, <3>1, <3>2, <1>a DEF StartStage, Stage
      <4>2. CASE j = k
        BY <1>9, <1>a, <3>1, <4>2 DEF StartStage, Started
      <4>3. CASE j /= k
        <5>1. ~(j <= k)
          BY <4>1, <4>3 DEF Stage
        <5>2. Started(j) /\ stage[j] = "running"
          BY <3>1, <5>1 DEF ProgressInv, MemoryInv
        <5> QED BY <1>9, <1>a, <3>1, <4>3, <5>2 DEF StartStage, Started
      <4> QED BY <4>2, <4>3
    <3> QED BY <1>9, <3>1, <3>2 DEF StartStage, StateInv
  <2>4. RecordInv'
    <3>1. Recorded /\ disk.state = "running" /\ disk.state /= "preview"
      BY <1>9 DEF StartStage, RecordInv, IntentOnDisk
    <3>2. ASSUME NEW j \in Stage PROVE Truthful(disk, j)'
      <4>1. disk.code[j] = Nil /\ Truthful(disk, j)
        BY <1>9 DEF StartStage, RecordInv, IntentOnDisk
      <4> QED BY <1>9, <4>1 DEF StartStage, Truthful, Nil, Signalled
    <3>3. pc' \in {"start", "wait"}
      BY <1>9 DEF StartStage
    <3>4. \A j \in Stage : disk.code[j] = Nil
      BY <1>9 DEF StartStage, RecordInv, IntentOnDisk
    <3> QED BY <1>9, <3>1, <3>2, <3>3, <3>4 DEF StartStage, RecordInv, Recorded, Final, IntentOnDisk
  <2> QED BY <2>1, <2>2, <2>3, <2>4
<1>10. CASE StartStageFails
  <2>1. MemoryInv'
    BY <1>a, <1>10 DEF StartStageFails, MemoryInv, r, Truthful, Started, Alive
  <2>2. ProgressInv'
    BY <1>a, <1>10 DEF StartStageFails, Stage, MemoryInv, ProgressInv, WaitedFor, BeforeLaunch, Started, Alive
  <2>3. StateInv'
    BY <1>a, <1>10 DEF StartStageFails, StateInv, r, Settled, Final, Started, Alive
  <2>4. RecordInv'
    BY <1>a, <1>10 DEF StartStageFails, RecordInv, r, Recorded, Truthful, Settled, Final, IntentOnDisk, Started, Alive
  <2> QED BY <2>1, <2>2, <2>3, <2>4
<1>11. CASE SkipUnstarted
  <2>1. MemoryInv'
    BY <1>a, <1>11 DEF SkipUnstarted, NextToWait, MemoryInv, r, Truthful, Started, Alive
  <2>2. ProgressInv'
    BY <1>a, <1>11 DEF SkipUnstarted, NextToWait, MemoryInv, Stage, ProgressInv, WaitedFor, BeforeLaunch, Started, Alive
  <2>3. StateInv'
    BY <1>a, <1>11 DEF SkipUnstarted, NextToWait, StateInv, r, Settled, Final, Started, Alive
  <2>4. RecordInv'
    BY <1>a, <1>11 DEF SkipUnstarted, NextToWait, RecordInv, r, Recorded, Truthful, Settled, Final, IntentOnDisk, Started, Alive
  <2> QED BY <2>1, <2>2, <2>3, <2>4
<1>12. CASE Reap
  <2>1. MemoryInv'
    BY <1>a, <1>12 DEF Reap, MemoryInv, r, Truthful, Started, Alive
  <2>2. ProgressInv'
    BY <1>a, <1>12 DEF Reap, ProgressInv, WaitedFor, BeforeLaunch, Started, Alive
  <2>3. StateInv'
    BY <1>a, <1>12 DEF Reap, StateInv, r, Settled, Final, Started, Alive
  <2>4. RecordInv'
    BY <1>a, <1>12 DEF Reap, RecordInv, r, Recorded, Truthful, Settled, Final, IntentOnDisk, Started, Alive
  <2> QED BY <2>1, <2>2, <2>3, <2>4
<1>13. CASE WaitGivesCode
  <2>1. MemoryInv'
    <3> SUFFICES ASSUME NEW j \in Stage
                 PROVE  Truthful(r, j)' /\ (stage[j] = "not_started" <=> ~Started(j))'
      BY DEF MemoryInv
    <3>1. Truthful(r, j) /\ (stage[j] = "not_started" <=> ~Started(j))
      BY DEF MemoryInv
    <3>2. k \in Stage /\ proc[k] = "reaped" /\ pc = "reaped"
      BY <1>13 DEF WaitGivesCode, ProgressInv
    <3>5. stage[k] \in {"not_started", "running"}
      <4>1. ~(k < k)
        BY <3>2 DEF Stage
      <4> QED BY <3>2, <4>1 DEF ProgressInv
    <3>3. CASE j = k
      BY <1>a, <1>13, <3>1, <3>2, <3>3, <3>5 DEF WaitGivesCode, CodeKnown, Truthful, Started, Alive, r
    <3>4. CASE j /= k
      BY <1>a, <1>13, <3>1, <3>2, <3>4 DEF WaitGivesCode, Truthful, Started, Alive, r
    <3> QED BY <3>3, <3>4
  <2>2. ProgressInv'
    <3>1. /\ k \in Stage /\ proc[k] = "reaped"
          /\ \A j \in Stage : IF j < k THEN WaitedFor(j) ELSE stage[j] \in {"not_started", "running"}
      BY <1>13 DEF WaitGivesCode, ProgressInv
    <3>2. \A j \in Stage : j <= k => WaitedFor(j)'
      <4> SUFFICES ASSUME NEW j \in Stage, j <= k PROVE WaitedFor(j)'
        OBVIOUS
      <4>1. CASE j = k
        BY <1>a, <1>13, <3>1, <4>1 DEF WaitGivesCode, WaitedFor, Alive
      <4>2. CASE j < k
        <5>1. j /= k
          BY <3>1, <4>2 DEF Stage
        <5>2. WaitedFor(j)
          BY <3>1, <4>2
        <5>3. proc'[j] = proc[j] /\ stage'[j] = stage[j]
          BY <1>a, <1>13, <5>1 DEF WaitGivesCode
        <5> QED BY <5>2, <5>3 DEF WaitedFor, Alive
      <4> QED BY <3>1, <4>1, <4>2 DEF Stage
    <3>3. \A j \in Stage : j > k => stage'[j] \in {"not_started", "running"}
      <4> SUFFICES ASSUME NEW j \in Stage, j > k PROVE stage'[j] \in {"not_started", "running"}
        OBVIOUS
      <4>1. j /= k /\ ~(j < k)
        BY <3>1 DEF Stage
      <4>2. stage'[j] = stage[j]
        BY <1>a, <1>13, <4>1 DEF WaitGivesCode
      <4> QED BY <3>1, <4>1, <4>2
    <3>4. \/ k < N /\ pc' = "wait" /\ k' = k + 1
          \/ k = N /\ pc' = "verdict"
      <4>1. NextToWait
        BY <1>13 DEF WaitGivesCode
      <4> QED BY <3>1, <4>1 DEF NextToWait, Stage
    <3>5. CASE k < N /\ pc' = "wait" /\ k' = k + 1
      <4>1. k' \in Stage /\ \A j \in Stage : (j < k' <=> j <= k) /\ (~(j < k') => j > k)
        BY <3>1, <3>5 DEF Stage
      <4> QED BY <3>2, <3>3, <3>5, <4>1 DEF ProgressInv, BeforeLaunch
    <3>6. CASE k = N /\ pc' = "verdict"
      <4>1. \A j \in Stage : j <= k
        BY <3>6 DEF Stage
      <4> QED BY <3>2, <3>6, <4>1 DEF ProgressInv, BeforeLaunch
    <3> QED BY <3>4, <3>5, <3>6
  <2>3. StateInv'
    BY <1>a, <1>13 DEF WaitGivesCode, NextToWait, StateInv, r, Settled, Final, Started, Alive
  <2>4. RecordInv'
    BY <1>a, <1>13 DEF WaitGivesCode, NextToWait, RecordInv, r, Recorded, Truthful, Settled, Final, IntentOnDisk, Started, Alive
  <2> QED BY <2>1, <2>2, <2>3, <2>4
<1>14. CASE WaitGivesError
  <2>1. MemoryInv'
    <3> SUFFICES ASSUME NEW j \in Stage
                 PROVE  Truthful(r, j)' /\ (stage[j] = "not_started" <=> ~Started(j))'
      BY DEF MemoryInv
    <3>1. Truthful(r, j) /\ (stage[j] = "not_started" <=> ~Started(j))
      BY DEF MemoryInv
    <3>2. k \in Stage /\ proc[k] = "reaped" /\ pc = "reaped"
      BY <1>14 DEF WaitGivesError, ProgressInv
    <3>5. stage[k] \in {"not_started", "running"}
      <4>1. ~(k < k)
        BY <3>2 DEF Stage
      <4> QED BY <3>2, <4>1 DEF ProgressInv
    <3>3. CASE j = k
      BY <1>a, <1>14, <3>1, <3>2, <3>3, <3>5 DEF WaitGivesError, CodeKnown, Truthful, Started, Alive, r
    <3>4. CASE j /= k
      BY <1>a, <1>14, <3>1, <3>2, <3>4 DEF WaitGivesError, Truthful, Started, Alive, r
    <3> QED BY <3>3, <3>4
  <2>2. ProgressInv'
    <3>1. /\ k \in Stage /\ proc[k] = "reaped"
          /\ \A j \in Stage : IF j < k THEN WaitedFor(j) ELSE stage[j] \in {"not_started", "running"}
      BY <1>14 DEF WaitGivesError, ProgressInv
    <3>2. \A j \in Stage : j <= k => WaitedFor(j)'
      <4> SUFFICES ASSUME NEW j \in Stage, j <= k PROVE WaitedFor(j)'
        OBVIOUS
      <4>1. CASE j = k
        BY <1>a, <1>14, <3>1, <4>1 DEF WaitGivesError, WaitedFor, Alive
      <4>2. CASE j < k
        <5>1. j /= k
          BY <3>1, <4>2 DEF Stage
        <5>2. WaitedFor(j)
          BY <3>1, <4>2
        <5>3. proc'[j] = proc[j] /\ stage'[j] = stage[j]
          BY <1>a, <1>14, <5>1 DEF WaitGivesError
        <5> QED BY <5>2, <5>3 DEF WaitedFor, Alive
      <4> QED BY <3>1, <4>1, <4>2 DEF Stage
    <3>3. \A j \in Stage : j > k => stage'[j] \in {"not_started", "running"}
      <4> SUFFICES ASSUME NEW j \in Stage, j > k PROVE stage'[j] \in {"not_started", "running"}
        OBVIOUS
      <4>1. j /= k /\ ~(j < k)
        BY <3>1 DEF Stage
      <4>2. stage'[j] = stage[j]
        BY <1>a, <1>14, <4>1 DEF WaitGivesError
      <4> QED BY <3>1, <4>1, <4>2
    <3>4. \/ k < N /\ pc' = "wait" /\ k' = k + 1
          \/ k = N /\ pc' = "verdict"
      <4>1. NextToWait
        BY <1>14 DEF WaitGivesError
      <4> QED BY <3>1, <4>1 DEF NextToWait, Stage
    <3>5. CASE k < N /\ pc' = "wait" /\ k' = k + 1
      <4>1. k' \in Stage /\ \A j \in Stage : (j < k' <=> j <= k) /\ (~(j < k') => j > k)
        BY <3>1, <3>5 DEF Stage
      <4> QED BY <3>2, <3>3, <3>5, <4>1 DEF ProgressInv, BeforeLaunch
    <3>6. CASE k = N /\ pc' = "verdict"
      <4>1. \A j \in Stage : j <= k
        BY <3>6 DEF Stage
      <4> QED BY <3>2, <3>6, <4>1 DEF ProgressInv, BeforeLaunch
    <3> QED BY <3>4, <3>5, <3>6
  <2>3. StateInv'
    BY <1>a, <1>14 DEF WaitGivesError, NextToWait, StateInv, r, Settled, Final, Started, Alive
  <2>4. RecordInv'
    BY <1>a, <1>14 DEF WaitGivesError, NextToWait, RecordInv, r, Recorded, Truthful, Settled, Final, IntentOnDisk, Started, Alive
  <2> QED BY <2>1, <2>2, <2>3, <2>4
<1>15. CASE Verdict
  <2>1. MemoryInv'
    BY <1>a, <1>15 DEF Verdict, MemoryInv, r, Truthful, Started, Alive
  <2>2. ProgressInv'
    BY <1>a, <1>15 DEF Verdict, ProgressInv, WaitedFor, BeforeLaunch, Started, Alive
  <2>3. StateInv'
    BY <1>a, <1>15 DEF Verdict, MemoryInv, ProgressInv, WaitedFor, StateInv, r, Settled, Final, Started, Alive
  <2>4. RecordInv'
    BY <1>a, <1>15 DEF Verdict, RecordInv, r, Recorded, Truthful, Settled, Final, IntentOnDisk, Started, Alive
  <2> QED BY <2>1, <2>2, <2>3, <2>4
<1>16. CASE PersistFinal
  <2>1. MemoryInv'
    BY <1>a, <1>16 DEF PersistFinal, MemoryInv, r, Truthful, Started, Alive
  <2>2. ProgressInv'
    BY <1>a, <1>16 DEF PersistFinal, ProgressInv, WaitedFor, BeforeLaunch, Started, Alive
  <2>3. StateInv'
    BY <1>a, <1>16 DEF PersistFinal, StateInv, r, Settled, Final, Started, Alive
  <2>4. RecordInv'
    BY <1>a, <1>16 DEF PersistFinal, StateInv, MemoryInv, RecordInv, r, Recorded, Truthful, Settled, Final, IntentOnDisk, Started, Alive
  <2> QED BY <2>1, <2>2, <2>3, <2>4
<1>17. CASE PersistFinalFails
  <2>1. MemoryInv'
    BY <1>a, <1>17 DEF PersistFinalFails, MemoryInv, r, Truthful, Started, Alive
  <2>2. ProgressInv'
    BY <1>a, <1>17 DEF PersistFinalFails, ProgressInv, WaitedFor, BeforeLaunch, Started, Alive
  <2>3. StateInv'
    BY <1>a, <1>17 DEF PersistFinalFails, StateInv, r, Settled, Final, Started, Alive
  <2>4. RecordInv'
    BY <1>a, <1>17 DEF PersistFinalFails, RecordInv, r, Recorded, Truthful, Settled, Final, IntentOnDisk, Started, Alive
  <2> QED BY <2>1, <2>2, <2>3, <2>4
<1>18. CASE Report
  <2>1. MemoryInv'
    BY <1>a, <1>18 DEF Report, MemoryInv, r, Truthful, Started, Alive
  <2>2. ProgressInv'
    BY <1>a, <1>18 DEF Report, ProgressInv, WaitedFor, BeforeLaunch, Started, Alive
  <2>3. StateInv'
    BY <1>a, <1>18 DEF Report, StateInv, r, Settled, Final, Started, Alive
  <2>4. RecordInv'
    BY <1>a, <1>18 DEF Report, RecordInv, r, Recorded, Truthful, Settled, Final, IntentOnDisk, Started, Alive
  <2> QED BY <2>1, <2>2, <2>3, <2>4
<1>19. CASE Interrupt
  <2>1. MemoryInv'
    BY <1>a, <1>19 DEF Interrupt, ParentDone, MemoryInv, r, Truthful, Started, Alive
  <2>2. ProgressInv'
    BY <1>a, <1>19 DEF Interrupt, ParentDone, ProgressInv, WaitedFor, BeforeLaunch, Started, Alive
  <2>3. StateInv'
    BY <1>a, <1>19 DEF Interrupt, ParentDone, StateInv, r, Settled, Final, Started, Alive
  <2>4. RecordInv'
    BY <1>a, <1>19 DEF Interrupt, ParentDone, RecordInv, r, Recorded, Truthful, Settled, Final, IntentOnDisk, Started, Alive
  <2> QED BY <2>1, <2>2, <2>3, <2>4
<1>20. CASE Deadline
  <2>1. MemoryInv'
    BY <1>a, <1>20 DEF Deadline, ParentDone, MemoryInv, r, Truthful, Started, Alive
  <2>2. ProgressInv'
    BY <1>a, <1>20 DEF Deadline, ParentDone, ProgressInv, WaitedFor, BeforeLaunch, Started, Alive
  <2>3. StateInv'
    BY <1>a, <1>20 DEF Deadline, ParentDone, StateInv, r, Settled, Final, Started, Alive
  <2>4. RecordInv'
    BY <1>a, <1>20 DEF Deadline, ParentDone, RecordInv, r, Recorded, Truthful, Settled, Final, IntentOnDisk, Started, Alive
  <2> QED BY <2>1, <2>2, <2>3, <2>4
<1>21. CASE Crash
  <2>1. MemoryInv'
    BY <1>a, <1>21 DEF Crash, MemoryInv, r, Truthful, Started, Alive
  <2>2. ProgressInv'
    BY <1>a, <1>21 DEF Crash, ProgressInv, WaitedFor, BeforeLaunch, Started, Alive
  <2>3. StateInv'
    BY <1>a, <1>21 DEF Crash, StateInv, r, Settled, Final, Started, Alive
  <2>4. RecordInv'
    BY <1>a, <1>21 DEF Crash, RecordInv, r, Recorded, Truthful, Settled, Final, IntentOnDisk, Started, Alive
  <2> QED BY <2>1, <2>2, <2>3, <2>4
<1>22. ASSUME NEW i \in Stage, ChildExits(i)
      PROVE  MemoryInv' /\ ProgressInv' /\ StateInv' /\ RecordInv'
  <2>1. MemoryInv'
    BY <1>a, <1>22 DEF ChildExits, MemoryInv, r, Truthful, Started, Alive
  <2>2. ProgressInv'
    BY <1>a, <1>22 DEF ChildExits, ProgressInv, WaitedFor, BeforeLaunch, Started, Alive
  <2>3. StateInv'
    BY <1>a, <1>22 DEF ChildExits, StateInv, r, Settled, Final, Started, Alive
  <2>4. RecordInv'
    BY <1>a, <1>22 DEF ChildExits, RecordInv, r, Recorded, Truthful, Settled, Final, IntentOnDisk, Started, Alive
  <2> QED BY <2>1, <2>2, <2>3, <2>4
<1>23. ASSUME NEW i \in Stage, KillChild(i)
      PROVE  MemoryInv' /\ ProgressInv' /\ StateInv' /\ RecordInv'
  <2>1. MemoryInv'
    BY <1>a, <1>23 DEF KillChild, MemoryInv, r, Truthful, Started, Alive
  <2>2. ProgressInv'
    BY <1>a, <1>23 DEF KillChild, ProgressInv, WaitedFor, BeforeLaunch, Started, Alive
  <2>3. StateInv'
    BY <1>a, <1>23 DEF KillChild, StateInv, r, Settled, Final, Started, Alive
  <2>4. RecordInv'
    BY <1>a, <1>23 DEF KillChild, RecordInv, r, Recorded, Truthful, Settled, Final, IntentOnDisk, Started, Alive
  <2> QED BY <2>1, <2>2, <2>3, <2>4
<1>24. ASSUME NEW i \in Stage, CopyOutput(i)
      PROVE  MemoryInv' /\ ProgressInv' /\ StateInv' /\ RecordInv'
  <2>a. UNCHANGED <<pc, k, state, reason, stage, code, onDisk, disk, parent, cancelled,
                    proc, exit, killed, status>>
    BY <1>24, CopyIsAlone
  <2>1. MemoryInv'
    BY <1>a, <2>a DEF MemoryInv, r, Truthful, Started, Alive
  <2>2. ProgressInv'
    BY <1>a, <2>a DEF ProgressInv, WaitedFor, BeforeLaunch, Started, Alive
  <2>3. StateInv'
    BY <1>a, <2>a DEF StateInv, r, Settled, Final, Started, Alive
  <2>4. RecordInv'
    BY <1>a, <2>a DEF RecordInv, r, Recorded, Truthful, Settled, Final, IntentOnDisk, Started, Alive
  <2> QED BY <2>1, <2>2, <2>3, <2>4
<1>26. CASE UNCHANGED vars
  <2>1. MemoryInv'
    BY <1>a, <1>26 DEF vars, MemoryInv, r, Truthful, Started, Alive
  <2>2. ProgressInv'
    BY <1>a, <1>26 DEF vars, ProgressInv, WaitedFor, BeforeLaunch, Started, Alive
  <2>3. StateInv'
    BY <1>a, <1>26 DEF vars, StateInv, r, Settled, Final, Started, Alive
  <2>4. RecordInv'
    BY <1>a, <1>26 DEF vars, RecordInv, r, Recorded, Truthful, Settled, Final, IntentOnDisk, Started, Alive
  <2> QED BY <2>1, <2>2, <2>3, <2>4
<1> QED BY <1>1, <1>2, <1>3, <1>4, <1>5, <1>6, <1>7, <1>8, <1>9, <1>10, <1>11, <1>12, <1>13, <1>14, <1>15, <1>16, <1>17, <1>18, <1>19, <1>20, <1>21, <1>22, <1>23, <1>24, <1>26
  DEF Next, Main, Finished

\* IInv holds throughout; the theorems below follow from it.
THEOREM Inductive == Spec => []IInv
<1>1. Init => IInv
  BY InitIInv
<1>2. IInv /\ [Next]_vars => IInv'
  BY NextIInv
<1> QED BY <1>1, <1>2, PTL DEF Spec

\* For every pipeline and every set of exit codes, the variables keep their
\* types.
THEOREM TypeCorrect == Spec => []TypeOK
<1>1. IInv => TypeOK
  BY DEF IInv
<1> QED BY <1>1, Inductive, PTL

\* Execute's comment "persists an intent record before launching" holds on
\* every path.
THEOREM LaunchNeedsIntent == Spec => []IntentBeforeLaunch
<1>1. IInv => IntentBeforeLaunch
  <2> SUFFICES ASSUME IInv, NEW i \in Stage, Started(i)
               PROVE  Recorded /\ disk.state \in {"running", "completed", "incomplete"}
    BY DEF IntentBeforeLaunch
  <2>1. Recorded /\ disk.state /= "preview"
    BY DEF IInv, RecordInv
  <2>2. disk.state \in States
    BY DEF IInv, TypeOK, Receipt
  <2> QED BY <2>1, <2>2 DEF States
<1> QED BY <1>1, Inductive, PTL

\* No recorded exit code is invented.
THEOREM CodesAreReal == Spec => []RecordedCodesAreReal
<1>1. IInv => RecordedCodesAreReal
  BY DEF IInv, RecordInv, RecordedCodesAreReal, Truthful
<1> QED BY <1>1, Inductive, PTL

\* A final receipt is written only over children that are gone, and gives each
\* one that was launched an ending.
THEOREM FinalIsSettled == Spec => []FinalReceiptIsSettled
<1>1. IInv => FinalReceiptIsSettled
  BY DEF IInv, RecordInv, FinalReceiptIsSettled, Settled
<1> QED BY <1>1, Inductive, PTL

\* runreceipt does not return before its children.
THEOREM ChildrenEndFirst == Spec => []NoChildOutlivesExit
<1>1. IInv => NoChildOutlivesExit
  BY DEF IInv, ProgressInv, NoChildOutlivesExit
<1> QED BY <1>1, Inductive, PTL

\* The evidence at the receipt path only grows: no path overwrites a foreign
\* file, loses a record or rewrites a final one.
THEOREM EvidenceGrows == Spec => EvidenceOnlyGrows
<1> DEFINE Grows == /\ onDisk = "foreign" => UNCHANGED storage
                    /\ Recorded => onDisk' = "receipt"
                    /\ Recorded /\ Final(disk) => disk' = disk
<1>1. IInv /\ [Next]_vars => [Grows]_vars
  <2> SUFFICES ASSUME IInv, Next PROVE Grows
    OBVIOUS
  <2> USE DEF storage, Recorded
  <2>1. CASE UNCHANGED storage
    BY <2>1
  <2>2. CASE CreateIntent
    BY <2>2 DEF CreateIntent
  <2>3. CASE WriteIntent \/ WriteIntentFails
    BY <2>3 DEF WriteIntent, WriteIntentFails, IInv, RecordInv
  <2>4. CASE PersistFinal
    BY <2>4 DEF PersistFinal, IInv, RecordInv, IntentOnDisk, Final
  <2>5. UNCHANGED storage \/ CreateIntent \/ WriteIntent \/ WriteIntentFails \/ PersistFinal
    BY DEF Next, Main, PrintPreview, BeginExecute, CreateIntentFails, MakePipe, MakePipeFails,
           StartStage, StartStageFails, SkipUnstarted, Reap, WaitGivesCode, WaitGivesError,
           Verdict, PersistFinalFails, Report, ChildExits, KillChild, CopyOutput, Drain, CutOutput,
           ForwardFails, BlockOutput, UnblockOutput,
           Interrupt, Deadline, ParentDone, Crash, Finished, vars
  <2> QED BY <2>1, <2>2, <2>3, <2>4, <2>5
<1> QED BY <1>1, Inductive, PTL DEF Spec, EvidenceOnlyGrows

\* What the receipt of runreceipt says is what ReceiptEvidence promises.
THEOREM Refinement == Spec => ImplementsEvidence
<1> USE DEF Recorded, Started, Alive
<1>1. Init => Evidence!EInit
  BY DEF Init, Evidence!EInit, evidenceBar, claimBar, outcomeBar, Nil, Evidence!NoClaim,
         Evidence!NotLaunched
<1>2. IInv /\ [Next]_vars => [Evidence!ENext]_(Evidence!evars)
  <2> SUFFICES ASSUME IInv, [Next]_vars PROVE [Evidence!ENext]_(Evidence!evars)
    OBVIOUS
  <2>a. TypeOK /\ MemoryInv /\ ProgressInv /\ StateInv /\ RecordInv
    BY DEF IInv
  <2>1. CASE UNCHANGED <<storage, proc, exit>>
    BY <2>1 DEF storage, evidenceBar, claimBar, outcomeBar, Evidence!evars
  <2>2. CASE CreateIntent
    BY <2>2 DEF CreateIntent, children, evidenceBar, claimBar, outcomeBar, Evidence!evars
  <2>3. CASE WriteIntent \/ (WriteIntentFails /\ ~UNCHANGED storage)
    <3>1. /\ onDisk = "torn" /\ onDisk' = "receipt" /\ disk' = r
          /\ proc' = proc /\ exit' = exit /\ pc = "write"
      BY <2>3, <2>a DEF WriteIntent, WriteIntentFails, RecordInv, children
    <3>2. state = "running" /\ \A i \in Stage : code[i] = Nil
      BY <2>a, <3>1 DEF StateInv, MemoryInv, ProgressInv, BeforeLaunch, Truthful, r
    <3>3. evidenceBar = "none" /\ evidenceBar' = "intent"
      BY <3>1, <3>2 DEF evidenceBar, r
    <3>4. claimBar' = claimBar /\ outcomeBar' = outcomeBar
      BY <3>1, <3>2 DEF claimBar, outcomeBar, r
    <3> QED BY <3>3, <3>4 DEF Evidence!ENext, Evidence!RecordIntent
  <2>4. CASE StartStage
    <3>1. k \in Stage /\ ~Started(k)
      BY <2>4, <2>a DEF StartStage, ProgressInv, Stage
    <3>2. evidenceBar = "intent"
      BY <2>4, <2>a DEF StartStage, RecordInv, IntentOnDisk, evidenceBar
    <3>3. outcomeBar[k] = Evidence!NotLaunched
      BY <3>1 DEF outcomeBar, Evidence!NotLaunched
    <3>4. outcomeBar' = [outcomeBar EXCEPT ![k] = Evidence!Running]
      BY <2>4, <2>a, <3>1 DEF StartStage, TypeOK, outcomeBar, Evidence!Running
    <3>5. evidenceBar' = evidenceBar /\ claimBar' = claimBar
      BY <2>4 DEF StartStage, storage, evidenceBar, claimBar
    <3> QED BY <3>1, <3>2, <3>3, <3>4, <3>5 DEF Evidence!ENext, Evidence!Launch
  <2>5. CASE Reap
    <3>1. outcomeBar' = outcomeBar
      BY <2>5, <2>a DEF Reap, TypeOK, outcomeBar
    <3>2. evidenceBar' = evidenceBar /\ claimBar' = claimBar
      BY <2>5 DEF Reap, storage, evidenceBar, claimBar
    <3> QED BY <3>1, <3>2 DEF Evidence!evars
  <2>6. ASSUME NEW i \in Stage, Alive(i), NEW c \in Codes \union {Signalled},
               proc' = [proc EXCEPT ![i] = "zombie"], exit' = [exit EXCEPT ![i] = c],
               UNCHANGED storage
        PROVE  Evidence!ENext
    <3>1. outcomeBar[i] = Evidence!Running
      BY <2>6 DEF outcomeBar, Evidence!Running
    <3>2. outcomeBar' = [outcomeBar EXCEPT ![i] = c]
      BY <2>6, <2>a DEF TypeOK, outcomeBar
    <3>3. evidenceBar' = evidenceBar /\ claimBar' = claimBar
      BY <2>6 DEF storage, evidenceBar, claimBar
    <3>4. c \in Codes \union {Evidence!Signalled}
      BY <2>6 DEF Signalled, Evidence!Signalled
    <3> QED BY <3>1, <3>2, <3>3, <3>4 DEF Evidence!ENext, Evidence!End
  <2>7. ASSUME NEW i \in Stage, ChildExits(i) PROVE Evidence!ENext
    BY <2>6, <2>7 DEF ChildExits
  <2>8. ASSUME NEW i \in Stage, KillChild(i) PROVE [Evidence!ENext]_(Evidence!evars)
    <3>1. CASE Alive(i)
      BY <2>6, <2>8, <3>1 DEF KillChild
    <3>2. CASE ~Alive(i)
      <4>1. outcomeBar' = outcomeBar
        BY <2>8, <2>a, <3>2 DEF KillChild, TypeOK, outcomeBar
      <4>2. evidenceBar' = evidenceBar /\ claimBar' = claimBar
        BY <2>8 DEF KillChild, storage, evidenceBar, claimBar
      <4> QED BY <4>1, <4>2 DEF Evidence!evars
    <3> QED BY <3>1, <3>2
  <2>9. CASE PersistFinal
    <3>1. /\ Recorded /\ disk.state = "running" /\ \A i \in Stage : disk.code[i] = Nil
          /\ onDisk' = "receipt" /\ disk' = r /\ proc' = proc /\ exit' = exit
          /\ Final(r) /\ \A i \in Stage : Settled(r, i) /\ Truthful(r, i)
      BY <2>9, <2>a DEF PersistFinal, RecordInv, IntentOnDisk, StateInv, MemoryInv, children
    <3>2. evidenceBar = "intent"
      BY <3>1 DEF evidenceBar
    <3>3. \A i \in Stage : outcomeBar[i] /= Evidence!Running
      <4> SUFFICES ASSUME NEW i \in Stage PROVE outcomeBar[i] /= -2
        BY DEF Evidence!Running
      <4>1. ~Alive(i)
        BY <3>1 DEF Settled
      <4>2. exit[i] \in Nat \union {-1}
        <5>1. exit[i] \in Codes \union {Signalled}
          BY <2>a DEF TypeOK
        <5> QED BY <5>1, CodesAssumption DEF Signalled
      <4> QED BY <4>1, <4>2 DEF outcomeBar
    <3>4. claimBar' = code
      BY <3>1, <2>a DEF claimBar, r, TypeOK
    <3>5. code \in [Stage -> Codes \union {Evidence!NoClaim}]
      BY <2>a DEF TypeOK, Nil, Evidence!NoClaim
    <3>6. ASSUME NEW i \in Stage, code[i] /= Nil PROVE code[i] = outcomeBar[i]
      BY <3>1, <3>6 DEF Truthful, r, outcomeBar
    <3>7. evidenceBar' = state /\ state \in {"completed", "incomplete"}
      BY <3>1 DEF evidenceBar, r, Final
    <3>8. ASSUME NEW i \in Stage, state = "completed" PROVE code[i] /= Nil
      BY <3>1, <3>8 DEF Settled, Truthful, r, Nil, Signalled
    <3>9. outcomeBar' = outcomeBar
      BY <3>1 DEF outcomeBar
    <3> QED BY <3>2, <3>3, <3>4, <3>5, <3>6, <3>7, <3>8, <3>9
            DEF Evidence!ENext, Evidence!Conclude, Nil, Evidence!NoClaim
  <2>10. \/ UNCHANGED <<storage, proc, exit>> \/ CreateIntent
         \/ WriteIntent \/ (WriteIntentFails /\ ~UNCHANGED storage)
         \/ StartStage \/ Reap \/ PersistFinal
         \/ \E i \in Stage : ChildExits(i) \/ KillChild(i)
    <3>1. CASE PrintPreview \/ BeginExecute \/ CreateIntentFails \/ MakePipe \/ MakePipeFails
      BY <3>1 DEF PrintPreview, BeginExecute, CreateIntentFails, MakePipe, MakePipeFails, children
    <3>2. CASE StartStageFails \/ SkipUnstarted \/ WaitGivesCode \/ WaitGivesError
      BY <3>2 DEF StartStageFails, SkipUnstarted, WaitGivesCode, WaitGivesError, children
    <3>3. CASE Verdict \/ PersistFinalFails \/ Report \/ Interrupt \/ Deadline \/ Crash
      BY <3>3 DEF Verdict, PersistFinalFails, Report, Interrupt, Deadline, ParentDone, Crash, children
    <3>4. CASE WriteIntentFails
      BY <3>4 DEF WriteIntentFails, children
    <3>5. ASSUME NEW i \in Stage, CopyOutput(i)
          PROVE  UNCHANGED <<storage, proc, exit>>
      BY <3>5, CopyIsAlone DEF storage
    <3>6. CASE UNCHANGED vars
      BY <3>6 DEF vars, storage
    <3> QED BY <3>1, <3>2, <3>3, <3>4, <3>5, <3>6 DEF Next, Main, Finished
  <2> QED BY <2>1, <2>2, <2>3, <2>4, <2>5, <2>7, <2>8, <2>9, <2>10
<1> QED BY <1>1, <1>2, Inductive, PTL DEF Spec, ImplementsEvidence, Evidence!ESpec

(***************************************************************************)
(* What the reason and the exit status rest on.                            *)
(***************************************************************************)

\* A child that ended badly stays so.
LEMMA EarnedStays == IInv /\ [Next]_vars /\ Earned => Earned'
<1> SUFFICES ASSUME IInv, [Next]_vars, Earned PROVE Earned'
  OBVIOUS
<1>a. TypeOK /\ ProgressInv
  BY DEF IInv
<1>b. PICK i \in Stage : proc[i] \notin {"none", "alive"} /\ (exit[i] = Signalled \/ output[i] = "cut")
  BY DEF Earned, Started, Alive
<1>c. ASSUME proc'[i] \notin {"none", "alive"}, exit'[i] = exit[i], output'[i] = output[i]
      PROVE  Earned'
  BY <1>b, <1>c DEF Earned, Started, Alive
<1>1. CASE UNCHANGED children
  BY <1>1, <1>b, <1>c DEF children
<1>2. CASE StartStage
  <2>1. k /= i
    BY <1>2, <1>a, <1>b DEF StartStage, ProgressInv, Stage, Started
  <2>2. proc' = [proc EXCEPT ![k] = "alive"] /\ output' = [output EXCEPT ![k] = "copying"]
        /\ exit' = exit
    BY <1>2 DEF StartStage
  <2>3. proc'[i] = proc[i] /\ output'[i] = output[i]
    BY <2>1, <2>2, <1>a DEF TypeOK
  <2> QED BY <1>b, <1>c, <2>2, <2>3
<1>3. CASE Reap
  <2>1. proc' = [proc EXCEPT ![k] = "reaped"] /\ UNCHANGED <<exit, output>>
    BY <1>3 DEF Reap
  <2>2. proc'[i] = proc[i] \/ proc'[i] = "reaped"
    BY <2>1, <1>a DEF TypeOK
  <2> QED BY <1>b, <1>c, <2>1, <2>2
<1>4. ASSUME NEW j \in Stage, ChildExits(j) PROVE Earned'
  <2>1. PICK c : exit' = [exit EXCEPT ![j] = c] /\ proc' = [proc EXCEPT ![j] = "zombie"]
    BY <1>4 DEF ChildExits
  <2>2. j /= i /\ output' = output
    BY <1>4, <1>b DEF ChildExits, Alive
  <2>3. proc'[i] = proc[i] /\ exit'[i] = exit[i]
    BY <2>1, <2>2, <1>a DEF TypeOK
  <2> QED BY <1>b, <1>c, <2>2, <2>3
<1>5. ASSUME NEW j \in Stage, KillChild(j) PROVE Earned'
  <2>1. /\ proc' = [proc EXCEPT ![j] = "zombie"] /\ output' = output
        /\ exit' = IF Alive(j) THEN [exit EXCEPT ![j] = Signalled] ELSE exit
    BY <1>5 DEF KillChild
  <2>2. proc'[i] = proc[i] \/ proc'[i] = "zombie"
    BY <2>1, <1>a DEF TypeOK
  <2>3. exit'[i] = exit[i]
    BY <2>1, <1>a, <1>b DEF TypeOK, Alive
  <2> QED BY <1>b, <1>c, <2>1, <2>2, <2>3
<1>6. ASSUME NEW j \in Stage, CopyOutput(j) PROVE Earned'
  <2>1. PICK o : output' = [output EXCEPT ![j] = o] /\ UNCHANGED <<proc, exit>>
                 /\ output[j] \in {"copying", "blocked"}
    BY <1>6, CopyIsAlone
  <2>2. output[i] = "cut" => output'[i] = "cut"
    BY <2>1, <1>a DEF TypeOK
  <2> QED BY <1>b, <2>1, <2>2 DEF Earned, Started, Alive
<1>7. \/ UNCHANGED children \/ StartStage \/ Reap
      \/ \E j \in Stage : ChildExits(j) \/ KillChild(j) \/ CopyOutput(j)
  BY DEF Next, Main, PrintPreview, BeginExecute, CreateIntent, CreateIntentFails, WriteIntent,
         WriteIntentFails, MakePipe, MakePipeFails, StartStageFails, SkipUnstarted,
         WaitGivesCode, WaitGivesError, Verdict, PersistFinal, PersistFinalFails, Report,
         Interrupt, Deadline, ParentDone, Crash, Finished, vars, children
<1> QED BY <1>1, <1>2, <1>3, <1>4, <1>5, <1>6, <1>7

\* The loop over Wait goes on or ends.
LEMMA NextToWaitGoes == NextToWait => pc' \in {"wait", "verdict"}
BY DEF NextToWait

\* The reasons stay justified.
LEMMA ReasonPreserved ==
  IInv /\ OutputInv /\ ReasonInv /\ [Next]_vars => ReasonInv'
<1> SUFFICES ASSUME IInv, OutputInv, ReasonInv, [Next]_vars PROVE ReasonInv'
  OBVIOUS
<1>a. TypeOK /\ ProgressInv /\ RecordInv
  BY DEF IInv
<1>b. Earned => Earned'
  BY EarnedStays
<1> USE DEF ReasonInv, BeforeLaunch, IntentOnDisk, Unknown, Recorded
<1>1. CASE PrintPreview \/ BeginExecute \/ CreateIntentFails
  <2>1. /\ pc \in {"main", "create"} /\ pc' \in {"exit", "create"}
        /\ UNCHANGED <<reason, onDisk, disk, parent, cancelled>>
    BY <1>1 DEF PrintPreview, BeginExecute, CreateIntentFails, memory, storage, context
  <2> QED BY <2>1, <1>a, <1>b DEF RecordInv
<1>16. CASE CreateIntent
  BY <1>16, <1>b DEF CreateIntent, memory, context
<1>2. CASE WriteIntent
  BY <1>2, <1>b DEF WriteIntent, memory, context, r
<1>3. CASE WriteIntentFails
  <2>1. /\ pc = "write" /\ pc' = "exit" /\ reason = "" /\ ~Recorded
        /\ onDisk' = onDisk \/ disk' = r
        /\ UNCHANGED <<reason, parent, cancelled>>
    BY <1>3, <1>a DEF WriteIntentFails, memory, storage, context, RecordInv
  <2>a. reason = ""
    BY <2>1
  <2>b. r.reason = ""
    BY <2>a DEF r
  <2>2. disk' = r => disk'.reason = ""
    BY <2>b
  <2>3. cancelled' => reason' \notin {"", Unknown}
    BY <2>1
  <2> QED BY <2>1, <2>2, <2>3
<1>4. CASE MakePipe \/ StartStage
  <2>1. /\ pc \in {"pipes", "start"} /\ pc' \in {"pipes", "start", "wait"}
        /\ UNCHANGED <<reason, onDisk, disk, parent, cancelled>>
    BY <1>4 DEF MakePipe, StartStage, memory, storage, context
  <2> QED BY <2>1, <1>b
<1>17. CASE MakePipeFails
  BY <1>17, <1>b DEF MakePipeFails, storage, context
<1>5. CASE StartStageFails
  BY <1>5, <1>b DEF StartStageFails, storage
<1>6. CASE SkipUnstarted \/ WaitGivesCode
  <2>1. /\ pc \in {"wait", "reaped"} /\ pc' \in {"wait", "verdict"}
        /\ UNCHANGED <<reason, onDisk, disk, parent, cancelled>>
    BY <1>6, NextToWaitGoes DEF SkipUnstarted, WaitGivesCode, memory, storage, context
  <2> QED BY <2>1, <1>b
<1>7. CASE Reap
  BY <1>7, <1>b DEF Reap, memory, storage, context
<1>8. CASE WaitGivesError
  <2>1. pc = "reaped" /\ k \in Stage /\ proc[k] = "reaped"
    BY <1>8, <1>a DEF WaitGivesError, ProgressInv
  <2>2. exit[k] = Signalled \/ output[k] = "cut" \/ killed[k]
    BY <1>8 DEF WaitGivesError, CodeKnown
  <2>3. Earned \/ CtxDone
    BY <2>1, <2>2 DEF Earned, OutputInv, Started, Alive
  <2>4. /\ reason' = IF reason = "" THEN Unknown ELSE reason
        /\ pc' \in {"wait", "verdict"} /\ UNCHANGED <<storage, context>>
    BY <1>8, NextToWaitGoes DEF WaitGivesError
  <2>5. reason' = Unknown => Earned' \/ parent /= "none"
    BY <2>3, <2>4, <1>b DEF CtxDone
  <2> QED BY <2>1, <2>4, <2>5, <1>b DEF storage, context
<1>9. CASE Verdict
  BY <1>9, <1>a, <1>b DEF Verdict, storage, context, TypeOK
<1>10. CASE PersistFinal
  BY <1>10, <1>b DEF PersistFinal, memory, context, r
<1>11. CASE PersistFinalFails \/ Report \/ Crash
  <2>1. /\ \/ pc \in {"persist", "report"} /\ pc' = "exit"
           \/ pc \notin Ended /\ pc' = "crashed"
        /\ UNCHANGED <<reason, onDisk, disk, parent, cancelled>>
    BY <1>11 DEF PersistFinalFails, Report, Crash, memory, storage, context
  <2> QED BY <2>1, <1>a, <1>b DEF Ended, TypeOK
<1>12. CASE Interrupt \/ Deadline
  <2>1. parent = "none" /\ parent' /= "none" /\ UNCHANGED <<pc, reason, onDisk, disk, cancelled>>
    BY <1>12 DEF Interrupt, Deadline, ParentDone, memory, storage
  <2> QED BY <2>1, <1>b
<1>13. CASE UNCHANGED <<pc, memory, storage, context>>
  BY <1>13, <1>b DEF memory, storage, context
<1>14. ASSUME NEW i \in Stage, ChildExits(i) \/ KillChild(i) \/ CopyOutput(i)
       PROVE  UNCHANGED <<pc, memory, storage, context>>
  BY <1>14, CopyIsAlone DEF ChildExits, KillChild, memory, storage, context
<1>15. CASE UNCHANGED vars
  BY <1>15, <1>13 DEF vars, memory, storage, context
<1> QED BY <1>1, <1>2, <1>3, <1>4, <1>5, <1>6, <1>7, <1>8, <1>9, <1>10, <1>11, <1>12, <1>13,
           <1>14, <1>15, <1>16, <1>17 DEF Next, Main, Finished

\* A stage that exited with zero has its output, and only a done context kills.
LEMMA OutputPreserved == IInv /\ OutputInv /\ [Next]_vars => OutputInv'
<1> SUFFICES ASSUME IInv, OutputInv, [Next]_vars, NEW i \in Stage
             PROVE  /\ killed'[i] => CtxDone'
                    /\ stage'[i] = "exited" /\ exit'[i] = 0 => output'[i] = "drained"
  BY DEF OutputInv
<1>a. TypeOK /\ ProgressInv /\ MemoryInv
  BY DEF IInv
<1>b. /\ killed[i] => CtxDone
      /\ stage[i] = "exited" /\ exit[i] = 0 => output[i] = "drained"
  BY DEF OutputInv
<1>c. CtxDone => CtxDone'
  <2>1. \/ UNCHANGED context \/ cancelled' = TRUE
        \/ parent' \in {"interrupted", "timeout"} /\ UNCHANGED cancelled
    BY DEF Next, Main, PrintPreview, BeginExecute, CreateIntent, CreateIntentFails,
           WriteIntent, WriteIntentFails, MakePipe, MakePipeFails, StartStage, StartStageFails,
           SkipUnstarted, Reap, WaitGivesCode, WaitGivesError, Verdict, PersistFinal,
           PersistFinalFails, Report, ChildExits, KillChild, CopyOutput, Drain, CutOutput,
           ForwardFails, BlockOutput, UnblockOutput,
           Interrupt, Deadline, ParentDone, Crash, Finished, vars, context
  <2> QED BY <2>1 DEF context, CtxDone
<1>d. stage[i] = "exited" => proc[i] \notin {"none", "alive"}
  BY <1>a DEF MemoryInv, Truthful, r, Started, Alive
<1>1. CASE UNCHANGED <<stage, children>>
  BY <1>1, <1>b, <1>c DEF children
<1>2. CASE StartStage
  <2>1. k \in Stage /\ stage[k] = "not_started"
    BY <1>2, <1>a DEF StartStage, ProgressInv, MemoryInv, Stage
  <2>2. /\ stage' = [stage EXCEPT ![k] = "running"] /\ UNCHANGED <<exit, killed>>
        /\ output' = [output EXCEPT ![k] = "copying"]
    BY <1>2 DEF StartStage
  <2>3. stage'[i] = "exited" => stage[i] = "exited" /\ output'[i] = output[i]
    BY <2>1, <2>2, <1>a DEF TypeOK
  <2> QED BY <2>2, <2>3, <1>b, <1>c
<1>3. CASE WaitGivesCode
  <2>1. CodeKnown(k) /\ stage' = [stage EXCEPT ![k] = "exited"] /\ UNCHANGED children
    BY <1>3 DEF WaitGivesCode
  <2>2. stage'[i] = "exited" => stage[i] = "exited" \/ i = k
    BY <2>1, <1>a DEF TypeOK
  <2> QED BY <2>1, <2>2, <1>b, <1>c DEF CodeKnown, children
<1>4. CASE WaitGivesError
  <2>1. stage' = [stage EXCEPT ![k] = "unknown"] /\ UNCHANGED children
    BY <1>4 DEF WaitGivesError
  <2>2. stage'[i] = "exited" => stage[i] = "exited"
    BY <2>1, <1>a DEF TypeOK
  <2> QED BY <2>1, <2>2, <1>b, <1>c DEF children
<1>5. CASE Reap
  BY <1>5, <1>b, <1>c DEF Reap, memory
<1>6. ASSUME NEW j \in Stage, ChildExits(j)
      PROVE  /\ killed'[i] => CtxDone'
             /\ stage'[i] = "exited" /\ exit'[i] = 0 => output'[i] = "drained"
  <2>1. PICK c : exit' = [exit EXCEPT ![j] = c]
    BY <1>6 DEF ChildExits
  <2>2. proc[j] = "alive" /\ UNCHANGED <<stage, killed, output>>
    BY <1>6 DEF ChildExits, Alive, memory
  <2>3. stage[i] = "exited" => exit'[i] = exit[i]
    BY <2>1, <2>2, <1>a, <1>d DEF TypeOK
  <2> QED BY <2>2, <2>3, <1>b, <1>c
<1>7. ASSUME NEW j \in Stage, KillChild(j)
      PROVE  /\ killed'[i] => CtxDone'
             /\ stage'[i] = "exited" /\ exit'[i] = 0 => output'[i] = "drained"
  <2>1. /\ CtxDone /\ UNCHANGED <<stage, output>>
        /\ exit' = IF Alive(j) THEN [exit EXCEPT ![j] = Signalled] ELSE exit
    BY <1>7 DEF KillChild, memory
  <2>2. stage[i] = "exited" => exit'[i] = exit[i]
    BY <2>1, <1>a, <1>d DEF TypeOK, Alive
  <2> QED BY <2>1, <2>2, <1>b, <1>c
<1>8. ASSUME NEW j \in Stage, CopyOutput(j)
      PROVE  /\ killed'[i] => CtxDone'
             /\ stage'[i] = "exited" /\ exit'[i] = 0 => output'[i] = "drained"
  <2>1. PICK o : output' = [output EXCEPT ![j] = o] /\ output[j] \in {"copying", "blocked"}
    BY <1>8, CopyIsAlone
  <2>2. UNCHANGED <<stage, exit, killed>>
    BY <1>8, CopyIsAlone
  <2>3. output[i] = "drained" => output'[i] = "drained"
    BY <2>1, <1>a DEF TypeOK
  <2> QED BY <2>2, <2>3, <1>b, <1>c
<1>9. \/ UNCHANGED <<stage, children>> \/ StartStage \/ WaitGivesCode \/ WaitGivesError \/ Reap
      \/ \E j \in Stage : ChildExits(j) \/ KillChild(j) \/ CopyOutput(j)
  BY DEF Next, Main, PrintPreview, BeginExecute, CreateIntent, CreateIntentFails, WriteIntent,
         WriteIntentFails, MakePipe, MakePipeFails, StartStageFails, SkipUnstarted,
         Verdict, PersistFinal, PersistFinalFails, Report,
         Interrupt, Deadline, ParentDone, Crash, Finished, vars, memory, children
<1> QED BY <1>1, <1>2, <1>3, <1>4, <1>5, <1>6, <1>7, <1>8, <1>9

\* The exit status is decided last, by the receipt just saved.
LEMMA ExitPreserved == IInv /\ ExitInv /\ [Next]_vars => ExitInv'
<1> SUFFICES ASSUME IInv, ExitInv, [Next]_vars PROVE ExitInv'
  OBVIOUS
<1>a. StateInv /\ RecordInv
  BY DEF IInv
<1> USE DEF ExitInv, Ended
<1>1. CASE PrintPreview
  BY <1>1, <1>a DEF PrintPreview, memory, StateInv
<1>2. CASE CreateIntentFails \/ WriteIntentFails \/ PersistFinalFails
  BY <1>2 DEF CreateIntentFails, WriteIntentFails, PersistFinalFails
<1>3. CASE Report
  <2>1. /\ Recorded /\ disk = r /\ Final(r) /\ status' = ExitCode(r)
        /\ UNCHANGED <<onDisk, disk, state, reason, stage, code>>
    BY <1>3, <1>a DEF Report, StateInv, RecordInv, memory, storage
  <2>2. r' = r
    BY <2>1 DEF r
  <2>3. pc = "report" /\ pc' = "exit"
    BY <1>3 DEF Report
  <2> QED BY <2>1, <2>2, <2>3 DEF Recorded, Final
<1>4. CASE pc' = "crashed" /\ pc \notin Ended
  BY <1>4
<1>5. CASE pc \notin Ended /\ pc' \notin Ended /\ UNCHANGED status
  BY <1>5
<1>6. CASE UNCHANGED <<pc, memory, storage, status>>
  BY <1>6 DEF memory, storage, Recorded, Final, ExitCode, r
<1>7. CASE Main
  <2>1. CASE SkipUnstarted \/ WaitGivesCode \/ WaitGivesError
    BY <2>1, <1>5, NextToWaitGoes DEF SkipUnstarted, WaitGivesCode, WaitGivesError
  <2> QED BY <1>7, <1>1, <1>2, <1>3, <1>5, <2>1 DEF Main, BeginExecute, CreateIntent,
             WriteIntent, MakePipe, MakePipeFails, StartStage, StartStageFails, Reap, Verdict,
             PersistFinal
<1>8. CASE Crash
  BY <1>8, <1>4 DEF Crash
<1>9. CASE Interrupt \/ Deadline
  BY <1>9, <1>6 DEF Interrupt, Deadline, ParentDone
<1>10. ASSUME NEW i \in Stage, ChildExits(i) \/ KillChild(i) \/ CopyOutput(i)
       PROVE  ExitInv'
  BY <1>10, <1>6, CopyIsAlone DEF ChildExits, KillChild, memory, storage, context
<1>11. CASE UNCHANGED vars
  BY <1>11, <1>6 DEF vars, memory, storage
<1> QED BY <1>7, <1>8, <1>9, <1>10, <1>11 DEF Next, Finished

\* What the verdict rests on holds throughout.
LEMMA VerdictInductive == Spec => []VerdictInv
<1>1. Init => VerdictInv
  BY DEF Init, VerdictInv, ReasonInv, OutputInv, ExitInv, Preview, BeforeLaunch, IntentOnDisk,
         Unknown, Recorded, Ended, NoStatus
<1>2. IInv /\ VerdictInv /\ [Next]_vars => VerdictInv'
  BY ReasonPreserved, OutputPreserved, ExitPreserved DEF VerdictInv
<1> QED BY <1>1, <1>2, Inductive, PTL DEF Spec

\* "process_completion_unknown" is on record only for a child that did end badly
\* by itself.
THEOREM UnknownIsTrue == Spec => []UnknownIsEarned
<1>1. VerdictInv => UnknownIsEarned
  BY DEF VerdictInv, ReasonInv, Unknown, Earned, UnknownIsEarned
<1> QED BY <1>1, VerdictInductive, PTL

\* The exit status agrees with the receipt on disk and with what the children did.
THEOREM StatusIsTrue == Spec => []StatusMatchesRecord
<1>1. IInv /\ VerdictInv => StatusMatchesRecord
  <2> SUFFICES ASSUME IInv, VerdictInv, pc = "exit", state /= "preview", status /= 4
               PROVE  /\ Recorded /\ Final(disk) /\ ExitCode(disk) = status
                      /\ status = 0 => \A i \in Stage : exit[i] = 0 /\ output[i] = "drained"
                      /\ status \in {124, 130} => parent = disk.reason
    BY DEF StatusMatchesRecord
  <2>1. Recorded /\ disk = r /\ Final(r) /\ status = ExitCode(r)
    BY DEF VerdictInv, ExitInv
  <2>2. ASSUME status = 0, NEW i \in Stage PROVE exit[i] = 0 /\ output[i] = "drained"
    <3>1. state = "completed" /\ code[i] = 0
      BY <2>1, <2>2 DEF ExitCode, r
    <3>2. stage[i] = "exited"
      BY <2>1, <3>1 DEF IInv, RecordInv, Settled, r
    <3>3. exit[i] = 0
      BY <3>1, <3>2 DEF IInv, MemoryInv, Truthful, r
    <3> QED BY <3>2, <3>3 DEF VerdictInv, OutputInv
  <2>3. ASSUME status \in {124, 130} PROVE parent = disk.reason
    <3>1. reason \in {"timeout", "interrupted"}
      BY <2>1, <2>3 DEF ExitCode, r
    <3> QED BY <3>1, <2>1 DEF VerdictInv, ReasonInv, r
  <2> QED BY <2>1, <2>2, <2>3
<1> QED BY <1>1, Inductive, VerdictInductive, PTL
=============================================================================
