-------------------------- MODULE AtomicFileProofs --------------------------
(***************************************************************************)
(* For any number of concurrent saves: NFR-R1 holds of the writers that    *)
(* check their errors through failures, kills and power loss, and all six  *)
(* keep their types and return the truth about the rename.                 *)
(***************************************************************************)
EXTENDS AtomicFile, TLAPS

\* Where a step may go, in each of the six writers; Chmod is met only by those
\* that call it.
Steps == {"create", "chmod", "write", "sync", "close", "rename", "cleanup", "return"}

\* Nothing is synced before all of it is written.
SyncInv(s) ==
    /\ pc[s] = "chmod" => P.chmod /= "none"
    /\ pc[s] = "sync" \/ synced[s] => data[s] = "full"
    /\ pc[s] \in {"create", "chmod", "write"} => ~synced[s]

TypeInv == TypeOK /\ \A s \in Savers : SyncInv(s)

LEMMA Destinations ==
    ASSUME TypeOK
    PROVE  /\ AfterCreate \in {"write", "chmod"} /\ AfterWrite \in {"sync", "close"}
           /\ AfterCreate = "chmod" => P.chmod /= "none"
           /\ P.chmod /= "none" => ChmodErrorTo \in {"cleanup", "write", "close"}
           /\ WriteErrorTo \in {"cleanup", "close"}
<1>1. tool \in AllTools
  BY ToolsAssumption DEF TypeOK
<1>2. P \in {Save, SaveMetascore, AtomicJSON, SaveReceipt, WriteManifest, AtomicWrite}
  BY <1>1 DEF P, Profile, AllTools
<1>3. /\ P.chmod \in {"fatal", "ignored", "none", "lost"}
      /\ P.chmod = "lost" \/ P.write /= "fatal" => ~P.sync
  BY <1>2 DEF Save, SaveMetascore, AtomicJSON, SaveReceipt, WriteManifest, AtomicWrite
<1> QED BY <1>3 DEF AfterWrite, AfterCreate, ChmodErrorTo, WriteErrorTo

\* Every step of every writer keeps the types.
LEMMA TypePreserved == TypeInv /\ [Next]_vars => TypeInv'
<1> SUFFICES ASSUME TypeInv, [Next]_vars PROVE TypeInv'
  OBVIOUS
<1>a. TypeOK /\ \A s \in Savers : SyncInv(s)
  BY DEF TypeInv
<1>b. ASSUME NEW s \in Savers, NEW l \in Steps \union Stopped, Goto(s, l), tool' = tool,
             NEW d \in Contents, data' \in {data, [data EXCEPT ![s] = d]},
             NEW b \in BOOLEAN, synced' \in {synced, [synced EXCEPT ![s] = b]},
             SyncInv(s)', temp' \in [Savers -> BOOLEAN],
             dest' \in {Prior} \union Savers, renamed' \subseteq Savers
      PROVE  TypeInv'
  <2>1. /\ pc' \in [Savers -> Steps \union Stopped] /\ data' \in [Savers -> Contents]
        /\ synced' \in [Savers -> BOOLEAN]
    BY <1>a, <1>b DEF Goto, TypeOK, Steps
  <2>2. ASSUME NEW j \in Savers PROVE SyncInv(j)'
    <3>1. CASE j = s
      BY <1>b, <3>1
    <3>2. CASE j /= s
      <4>1. pc'[j] = pc[j] /\ data'[j] = data[j] /\ synced'[j] = synced[j]
        BY <1>a, <1>b, <3>2 DEF Goto, TypeOK
      <4> QED BY <1>a, <1>b, <4>1 DEF SyncInv, P
    <3> QED BY <3>1, <3>2
  <2> QED BY <1>a, <1>b, <2>1, <2>2 DEF TypeInv, TypeOK, Steps, SyncInv
<1>1. ASSUME NEW s \in Savers, CreateTemp(s) PROVE TypeInv'
  <2>1. PICK l \in {"write", "chmod"} : Goto(s, l) /\ (l = "chmod" => P.chmod /= "none")
    BY <1>1, <1>a, Destinations DEF CreateTemp
  <2>2. SyncInv(s)'
    BY <1>1, <1>a, <2>1 DEF CreateTemp, Goto, SyncInv, TypeOK, P
  <2> QED BY <1>1, <1>a, <1>b, <2>1, <2>2 DEF CreateTemp, TypeOK, Contents, Steps
<1>2. ASSUME NEW s \in Savers, ChmodFails(s) \/ Chmod(s) PROVE TypeInv'
  <2>1. PICK l \in {"cleanup", "write", "close"} : Goto(s, l)
    BY <1>2, <1>a, Destinations DEF ChmodFails, Chmod, SyncInv
  <2>2. SyncInv(s)'
    BY <1>2, <1>a, <2>1 DEF ChmodFails, Chmod, Goto, SyncInv, TypeOK
  <2> QED BY <1>2, <1>a, <1>b, <2>1, <2>2 DEF ChmodFails, Chmod, TypeOK, Contents, Steps
<1>3. ASSUME NEW s \in Savers, Write(s) PROVE TypeInv'
  <2>1. PICK l \in {"sync", "close"} : Goto(s, l)
    BY <1>3, <1>a, Destinations DEF Write
  <2>2. SyncInv(s)'
    BY <1>3, <1>a, <2>1 DEF Write, Goto, SyncInv, TypeOK
  <2> QED BY <1>3, <1>a, <1>b, <2>1, <2>2 DEF Write, TypeOK, Contents, Steps
<1>4. ASSUME NEW s \in Savers, WriteFails(s) PROVE TypeInv'
  <2>1. PICK l \in {"cleanup", "close"} : Goto(s, l)
    BY <1>4, <1>a, Destinations DEF WriteFails
  <2>2. SyncInv(s)'
    BY <1>4, <1>a, <2>1 DEF WriteFails, Goto, SyncInv, TypeOK
  <2> QED BY <1>4, <1>a, <1>b, <2>1, <2>2 DEF WriteFails, TypeOK, Contents, Steps
<1>5. ASSUME NEW s \in Savers,
             \/ CreateTempFails(s) \/ Sync(s) \/ Close(s) \/ Rename(s) \/ StepFails(s)
             \/ Cleanup(s) \/ Return(s) \/ Kill(s)
      PROVE  TypeInv'
  <2>1. PICK l \in {"failed", "close", "rename", "return", "cleanup", "ok", "killed"} : Goto(s, l)
    BY <1>5 DEF CreateTempFails, Sync, Close, Rename, StepFails, Cleanup, Return, Kill
  <2>2. /\ tool' = tool /\ data' = data
        /\ synced' \in {synced, [synced EXCEPT ![s] = TRUE]}
        /\ synced' /= synced => pc[s] = "sync"
    BY <1>5 DEF CreateTempFails, Sync, Close, Rename, StepFails, Cleanup, Return, Kill
  <2>3. SyncInv(s)'
    BY <1>a, <2>1, <2>2 DEF Goto, SyncInv, TypeOK
  <2>4. temp' \in [Savers -> BOOLEAN] /\ dest' \in {Prior} \union Savers /\ renamed' \subseteq Savers
    BY <1>5, <1>a DEF TypeOK, CreateTempFails, Sync, Close, Rename, StepFails, Cleanup,
                      Return, Kill
  <2> QED BY <1>b, <2>1, <2>2, <2>3, <2>4 DEF Steps, Stopped, Returned, Contents
<1>6. CASE PowerLoss
  <2>1. pc' \in [Savers -> Steps \union Stopped]
    BY <1>6, <1>a DEF PowerLoss, TypeOK, Steps, Stopped, Returned
  <2>2. ASSUME NEW j \in Savers PROVE SyncInv(j)'
    <3>1. pc'[j] \notin {"create", "chmod", "write", "sync"}
      BY <1>6 DEF PowerLoss, Returned
    <3>2. synced'[j] = synced[j] /\ (synced[j] => data'[j] = data[j])
      BY <1>6 DEF PowerLoss
    <3> QED BY <1>a, <3>1, <3>2 DEF SyncInv
  <2> QED BY <1>6, <1>a, <2>1, <2>2 DEF PowerLoss, TypeInv, TypeOK, Steps, SyncInv
<1>7. CASE UNCHANGED vars
  BY <1>7, <1>a DEF vars, TypeInv, TypeOK, P, SyncInv
<1> QED BY <1>1, <1>2, <1>3, <1>4, <1>5, <1>6, <1>7 DEF Next, Step, Finished

\* A file is renamed only when all of it is on disk, and only then the save
\* can succeed.
SaverInv(s) ==
    /\ SyncInv(s)
    /\ pc[s] \in {"close", "rename"} \/ s \in renamed => data[s] = "full" /\ synced[s]
    /\ pc[s] \in {"return", "ok"} => s \in renamed
    /\ s \in renamed => pc[s] \in {"return", "ok", "killed"}
    /\ pc[s] \in {"create", "return"} \union Returned => ~temp[s]

IInv ==
    /\ TypeInv
    /\ \A s \in Savers : SaverInv(s)
    /\ dest \in {Prior} \union renamed

\* What the checked writers have in common.
LEMMA CheckedProfile ==
    ASSUME tool \in CheckedTools
    PROVE  /\ AfterWrite = "sync" /\ WriteErrorTo = "cleanup"
           /\ ChmodErrorTo \in {"cleanup", "write"} \/ P.chmod = "none"
           /\ AfterCreate \in {"write", "chmod"}
           /\ P.chmod = "none" => AfterCreate = "write"
<1>1. P \in {Save, SaveMetascore, AtomicJSON, SaveReceipt}
  BY DEF P, Profile, CheckedTools, AllTools
<1> QED BY <1>1 DEF AfterWrite, WriteErrorTo, ChmodErrorTo, AfterCreate,
               Save, SaveMetascore, AtomicJSON, SaveReceipt

\* SaverInv and the types hold before any save.
LEMMA InitIInv == Init => IInv
  BY DEF Init, IInv, TypeInv, TypeOK, SaverInv, SyncInv, Contents, Stopped, Returned

\* Every step of a checked writer, a kill and a power loss keep them.
LEMMA NextIInv ==
    ASSUME Tools \subseteq CheckedTools, IInv, [Next]_vars PROVE IInv'
<1> USE DEF Goto, Returned, Stopped, Contents
<1>a. /\ TypeOK /\ dest \in {Prior} \union renamed
      /\ \A j \in Savers : SaverInv(j)
  BY DEF IInv, TypeInv
<1>t. TypeInv'
  BY TypePreserved DEF IInv
<1>b. /\ AfterWrite = "sync" /\ WriteErrorTo = "cleanup"
      /\ ChmodErrorTo \in {"cleanup", "write"} \/ P.chmod = "none"
      /\ AfterCreate \in {"write", "chmod"}
      /\ P.chmod = "none" => AfterCreate = "write"
  BY <1>a, CheckedProfile DEF TypeOK
<1>1. ASSUME NEW s \in Savers, CreateTemp(s) PROVE IInv'
  <2>1. TypeInv'
    BY <1>t
  <2>2. ASSUME NEW j \in Savers PROVE SaverInv(j)'
    <3>1. SaverInv(j)
      BY <1>a
    <3> QED BY <1>a, <1>b, <1>1, <3>1 DEF CreateTemp, TypeOK, SaverInv, SyncInv, P
  <2>3. (dest \in {Prior} \union renamed)'
    BY <1>a, <1>1 DEF CreateTemp
  <2> QED BY <2>1, <2>2, <2>3 DEF IInv
<1>2. ASSUME NEW s \in Savers, CreateTempFails(s) PROVE IInv'
  <2>1. TypeInv'
    BY <1>t
  <2>2. ASSUME NEW j \in Savers PROVE SaverInv(j)'
    <3>1. SaverInv(j)
      BY <1>a
    <3> QED BY <1>a, <1>2, <3>1 DEF CreateTempFails, TypeOK, SaverInv, SyncInv, P
  <2>3. (dest \in {Prior} \union renamed)'
    BY <1>a, <1>2 DEF CreateTempFails
  <2> QED BY <2>1, <2>2, <2>3 DEF IInv
<1>3. ASSUME NEW s \in Savers, Chmod(s) PROVE IInv'
  <2>1. TypeInv'
    BY <1>t
  <2>2. ASSUME NEW j \in Savers PROVE SaverInv(j)'
    <3>1. SaverInv(j)
      BY <1>a
    <3> QED BY <1>a, <1>3, <3>1 DEF Chmod, TypeOK, SaverInv, SyncInv, P
  <2>3. (dest \in {Prior} \union renamed)'
    BY <1>a, <1>3 DEF Chmod
  <2> QED BY <2>1, <2>2, <2>3 DEF IInv
<1>4. ASSUME NEW s \in Savers, ChmodFails(s) PROVE IInv'
  <2>1. TypeInv'
    BY <1>t
  <2>2. ASSUME NEW j \in Savers PROVE SaverInv(j)'
    <3>1. SaverInv(j)
      BY <1>a
    <3> QED BY <1>a, <1>b, <1>4, <3>1 DEF ChmodFails, TypeOK, SaverInv, SyncInv, P
  <2>3. (dest \in {Prior} \union renamed)'
    BY <1>a, <1>4 DEF ChmodFails
  <2> QED BY <2>1, <2>2, <2>3 DEF IInv
<1>5. ASSUME NEW s \in Savers, Write(s) PROVE IInv'
  <2>1. TypeInv'
    BY <1>t
  <2>2. ASSUME NEW j \in Savers PROVE SaverInv(j)'
    <3>1. SaverInv(j)
      BY <1>a
    <3> QED BY <1>a, <1>b, <1>5, <3>1 DEF Write, TypeOK, SaverInv, SyncInv, P
  <2>3. (dest \in {Prior} \union renamed)'
    BY <1>a, <1>5 DEF Write
  <2> QED BY <2>1, <2>2, <2>3 DEF IInv
<1>6. ASSUME NEW s \in Savers, WriteFails(s) PROVE IInv'
  <2>1. TypeInv'
    BY <1>t
  <2>2. ASSUME NEW j \in Savers PROVE SaverInv(j)'
    <3>1. SaverInv(j)
      BY <1>a
    <3> QED BY <1>a, <1>b, <1>6, <3>1 DEF WriteFails, TypeOK, SaverInv, SyncInv, P
  <2>3. (dest \in {Prior} \union renamed)'
    BY <1>a, <1>6 DEF WriteFails
  <2> QED BY <2>1, <2>2, <2>3 DEF IInv
<1>7. ASSUME NEW s \in Savers, Sync(s) PROVE IInv'
  <2>1. TypeInv'
    BY <1>t
  <2>2. ASSUME NEW j \in Savers PROVE SaverInv(j)'
    <3>1. SaverInv(j)
      BY <1>a
    <3> QED BY <1>a, <1>7, <3>1 DEF Sync, TypeOK, SaverInv, SyncInv, P
  <2>3. (dest \in {Prior} \union renamed)'
    BY <1>a, <1>7 DEF Sync
  <2> QED BY <2>1, <2>2, <2>3 DEF IInv
<1>8. ASSUME NEW s \in Savers, Close(s) PROVE IInv'
  <2>1. TypeInv'
    BY <1>t
  <2>2. ASSUME NEW j \in Savers PROVE SaverInv(j)'
    <3>1. SaverInv(j)
      BY <1>a
    <3> QED BY <1>a, <1>8, <3>1 DEF Close, TypeOK, SaverInv, SyncInv, P
  <2>3. (dest \in {Prior} \union renamed)'
    BY <1>a, <1>8 DEF Close
  <2> QED BY <2>1, <2>2, <2>3 DEF IInv
<1>9. ASSUME NEW s \in Savers, Rename(s) PROVE IInv'
  <2>1. TypeInv'
    BY <1>t
  <2>2. ASSUME NEW j \in Savers PROVE SaverInv(j)'
    <3>1. SaverInv(j)
      BY <1>a
    <3> QED BY <1>a, <1>9, <3>1 DEF Rename, TypeOK, SaverInv, SyncInv, P
  <2>3. (dest \in {Prior} \union renamed)'
    BY <1>a, <1>9 DEF Rename
  <2> QED BY <2>1, <2>2, <2>3 DEF IInv
<1>10. ASSUME NEW s \in Savers, StepFails(s) PROVE IInv'
  <2>1. TypeInv'
    BY <1>t
  <2>2. ASSUME NEW j \in Savers PROVE SaverInv(j)'
    <3>1. SaverInv(j)
      BY <1>a
    <3> QED BY <1>a, <1>10, <3>1 DEF StepFails, TypeOK, SaverInv, SyncInv, P
  <2>3. (dest \in {Prior} \union renamed)'
    BY <1>a, <1>10 DEF StepFails
  <2> QED BY <2>1, <2>2, <2>3 DEF IInv
<1>11. ASSUME NEW s \in Savers, Cleanup(s) PROVE IInv'
  <2>1. TypeInv'
    BY <1>t
  <2>2. ASSUME NEW j \in Savers PROVE SaverInv(j)'
    <3>1. SaverInv(j)
      BY <1>a
    <3> QED BY <1>a, <1>11, <3>1 DEF Cleanup, TypeOK, SaverInv, SyncInv, P
  <2>3. (dest \in {Prior} \union renamed)'
    BY <1>a, <1>11 DEF Cleanup
  <2> QED BY <2>1, <2>2, <2>3 DEF IInv
<1>12. ASSUME NEW s \in Savers, Return(s) PROVE IInv'
  <2>1. TypeInv'
    BY <1>t
  <2>2. ASSUME NEW j \in Savers PROVE SaverInv(j)'
    <3>1. SaverInv(j)
      BY <1>a
    <3> QED BY <1>a, <1>12, <3>1 DEF Return, TypeOK, SaverInv, SyncInv, P
  <2>3. (dest \in {Prior} \union renamed)'
    BY <1>a, <1>12 DEF Return
  <2> QED BY <2>1, <2>2, <2>3 DEF IInv
<1>13. ASSUME NEW s \in Savers, Kill(s) PROVE IInv'
  <2>1. TypeInv'
    BY <1>t
  <2>2. ASSUME NEW j \in Savers PROVE SaverInv(j)'
    <3>1. SaverInv(j)
      BY <1>a
    <3> QED BY <1>a, <1>13, <3>1 DEF Kill, TypeOK, SaverInv, SyncInv, P
  <2>3. (dest \in {Prior} \union renamed)'
    BY <1>a, <1>13 DEF Kill
  <2> QED BY <2>1, <2>2, <2>3 DEF IInv
<1>14. CASE PowerLoss
  <2>1. TypeInv'
    BY <1>t
  <2>2. ASSUME NEW j \in Savers PROVE SaverInv(j)'
    <3>1. SaverInv(j)
      BY <1>a
    <3>2. synced[j] => data'[j] = data[j]
      BY <1>14 DEF PowerLoss
    <3> QED BY <1>a, <1>14, <3>1, <3>2 DEF PowerLoss, TypeOK, SaverInv, SyncInv, P
  <2> QED BY <1>a, <1>14, <2>1, <2>2 DEF PowerLoss, IInv
<1>15. CASE UNCHANGED vars
  BY <1>a, <1>15, <1>t DEF vars, IInv, TypeOK, SaverInv, SyncInv, P
<1> QED BY <1>1, <1>2, <1>3, <1>4, <1>5, <1>6, <1>7, <1>8, <1>9, <1>10, <1>11, <1>12, <1>13, <1>14, <1>15 DEF Next, Step, Finished

\* NFR-R1 for the checked writers: no reader ever finds a part of a file at the
\* destination.
THEOREM NoPartial ==
    ASSUME Tools \subseteq CheckedTools PROVE Spec => []NoPartialDestination
<1>1. Init => IInv
  BY InitIInv
<1>2. IInv /\ [Next]_vars => IInv'
  BY NextIInv
<1>3. IInv => NoPartialDestination
  BY DEF IInv, SaverInv, SyncInv, NoPartialDestination, TypeInv, TypeOK
<1> QED BY <1>1, <1>2, <1>3, PTL DEF Spec

\* The checked writers implement the register of AtomicReplace, step by step.
THEOREM Refinement ==
    ASSUME Tools \subseteq CheckedTools PROVE Spec => ImplementsReplace
<1>1. Init => IInv
  BY InitIInv
<1>2. IInv /\ [Next]_vars => IInv'
  BY NextIInv
<1>3. Init => Replace!AInit
  BY DEF Init, Replace!AInit, valueBar, savedBar
<1>4. IInv /\ [Next]_vars => [Replace!ANext]_(Replace!avars)
  <2> SUFFICES ASSUME IInv, IInv', [Next]_vars PROVE [Replace!ANext]_(Replace!avars)
    BY <1>2
  <2>a. /\ TypeOK /\ dest \in {Prior} \union renamed
        /\ \A j \in Savers : SaverInv(j)
    BY DEF IInv, TypeInv
  <2>b. valueBar = dest
    BY <2>a DEF valueBar, TypeOK, SaverInv
  <2>c. valueBar' = dest'
    <3>1. TypeInv' /\ (dest \in {Prior} \union renamed)' /\ \A j \in Savers : SaverInv(j)'
      BY DEF IInv
    <3> QED BY <3>1 DEF valueBar, TypeInv, TypeOK, SaverInv
  <2>1. ASSUME NEW s \in Savers, Rename(s) PROVE Replace!ANext
    <3>1. pc[s] = "rename" /\ s \notin renamed
      BY <2>a, <2>1 DEF Rename, SaverInv
    <3>2. savedBar[s] = "pending"
      BY <3>1 DEF savedBar
    <3>3. savedBar' = [savedBar EXCEPT ![s] = "installed"]
      BY <2>a, <2>1, <3>1 DEF Rename, Goto, savedBar, TypeOK
    <3>4. valueBar' = s
      BY <2>1, <2>c DEF Rename
    <3> QED BY <3>2, <3>3, <3>4 DEF Replace!ANext, Replace!Install
  <2>2. ASSUME NEW s \in Savers, CreateTempFails(s) \/ Cleanup(s) PROVE Replace!ANext
    <3>1. s \notin renamed /\ pc[s] /= "failed"
      BY <2>a, <2>2 DEF CreateTempFails, Cleanup, SaverInv
    <3>2. savedBar[s] = "pending"
      BY <3>1 DEF savedBar
    <3>3. savedBar' = [savedBar EXCEPT ![s] = "failed"]
      BY <2>a, <2>2, <3>1 DEF CreateTempFails, Cleanup, Goto, savedBar, TypeOK
    <3>4. valueBar' = valueBar
      BY <2>2, <2>b, <2>c DEF CreateTempFails, Cleanup
    <3> QED BY <3>2, <3>3, <3>4 DEF Replace!ANext, Replace!GiveUp
  <2>3. CASE PowerLoss
    <3>1. savedBar' = savedBar
      BY <2>a, <2>3 DEF PowerLoss, savedBar, TypeOK, SaverInv, Returned
    <3>2. renamed = {s \in Savers : savedBar[s] = "installed"}
      BY <2>a DEF savedBar, TypeOK
    <3>3. valueBar' \in {Prior} \union renamed
      BY <2>3, <2>c DEF PowerLoss
    <3> QED BY <3>1, <3>2, <3>3 DEF Replace!ANext, Replace!Revert, Replace!Holders
  <2>4. ASSUME UNCHANGED <<dest, renamed>>, \A j \in Savers : pc'[j] = "failed" <=> pc[j] = "failed"
        PROVE  UNCHANGED Replace!avars
    BY <2>b, <2>c, <2>4 DEF Replace!avars, savedBar
  <2>5. ASSUME NEW s \in Savers,
               CreateTemp(s) \/ Chmod(s) \/ ChmodFails(s) \/ Write(s) \/ WriteFails(s)
        PROVE  UNCHANGED Replace!avars
    <3>1. /\ AfterWrite = "sync" /\ WriteErrorTo = "cleanup"
          /\ ChmodErrorTo \in {"cleanup", "write"} \/ P.chmod = "none"
          /\ AfterCreate \in {"write", "chmod"}
      BY <2>a, CheckedProfile DEF TypeOK
    <3>2. pc[s] /= "failed" /\ \E l \in {"write", "chmod", "cleanup", "sync"} : Goto(s, l)
      BY <2>a, <2>5, <3>1 DEF CreateTemp, Chmod, ChmodFails, Write, WriteFails, SaverInv, SyncInv
    <3>3. UNCHANGED <<dest, renamed>>
      BY <2>5 DEF CreateTemp, Chmod, ChmodFails, Write, WriteFails
    <3> QED BY <2>a, <2>4, <3>2, <3>3 DEF Goto, TypeOK
  <2>6. ASSUME NEW s \in Savers,
               Sync(s) \/ Close(s) \/ StepFails(s) \/ Return(s) \/ Kill(s)
        PROVE  UNCHANGED Replace!avars
    <3>1. /\ pc[s] /= "failed" /\ UNCHANGED <<dest, renamed>>
          /\ \E l \in {"close", "rename", "cleanup", "ok", "killed"} : Goto(s, l)
      BY <2>6 DEF Sync, Close, StepFails, Return, Kill, Stopped, Returned
    <3> QED BY <2>a, <2>4, <3>1 DEF Goto, TypeOK
  <2>7. CASE UNCHANGED vars
    BY <2>4, <2>7 DEF vars
  <2> QED BY <2>1, <2>2, <2>3, <2>5, <2>6, <2>7 DEF Next, Step, Finished
<1> QED BY <1>1, <1>2, <1>3, <1>4, PTL DEF Spec, ImplementsReplace, Replace!ASpec

\* For every writer, also those that lose an error, the variables keep their
\* types.
THEOREM TypeCorrect == Spec => []TypeOK
<1>1. Init => TypeInv
  BY DEF Init, TypeInv, SyncInv, TypeOK, Contents, Stopped, Returned
<1>2. TypeInv => TypeOK
  BY DEF TypeInv
<1> QED BY <1>1, <1>2, TypePreserved, PTL DEF Spec

\* A save that is about to return nil was renamed, one that has not reached the
\* rename or has given up was not; a temporary file is there in between.
ResultInv(s) ==
    /\ pc[s] \in {"return", "ok"} => s \in renamed
    /\ s \in renamed => pc[s] \in {"return", "ok", "killed"}
    /\ pc[s] \in {"create", "return"} \union Returned => ~temp[s]

\* What a save returns is what happened to the destination, in each of the six
\* writers: those that lose the error of a write do install a file.
THEOREM ResultsAreTrue == Spec => []ResultIsTrue
<1> DEFINE Inv == TypeInv /\ \A s \in Savers : ResultInv(s)
<1>1. Init => Inv
  BY DEF Init, TypeInv, SyncInv, TypeOK, Contents, Stopped, Returned, ResultInv
<1>2. Inv /\ [Next]_vars => Inv'
  <2> SUFFICES ASSUME TypeInv, \A s \in Savers : ResultInv(s), [Next]_vars, NEW j \in Savers
               PROVE  ResultInv(j)'
    BY TypePreserved
  <2>a. TypeOK /\ ResultInv(j)
    BY DEF TypeInv
  <2>b. ASSUME NEW s \in Savers, s /= j, NEW l, Goto(s, l), renamed' \in {renamed, renamed \union {s}},
               temp' = temp \/ \E b \in BOOLEAN : temp' = [temp EXCEPT ![s] = b]
        PROVE  ResultInv(j)'
    BY <2>a, <2>b DEF Goto, TypeOK, ResultInv
  <2>1. ASSUME NEW s \in Savers, CreateTemp(s) PROVE ResultInv(j)'
    <3>1. PICK l \in {"write", "chmod"} : Goto(s, l)
      BY <2>1, <2>a, Destinations DEF CreateTemp
    <3> QED BY <2>1, <2>a, <2>b, <3>1 DEF CreateTemp, Goto, TypeOK, ResultInv, Returned
  <2>2. ASSUME NEW s \in Savers, ChmodFails(s) \/ Chmod(s) \/ Write(s) \/ WriteFails(s)
        PROVE  ResultInv(j)'
    <3>1. PICK l \in {"cleanup", "write", "sync", "close"} : Goto(s, l)
      BY <2>2, <2>a, Destinations DEF ChmodFails, Chmod, Write, WriteFails, TypeInv, SyncInv
    <3>2. UNCHANGED <<temp, renamed>> /\ pc[s] \in {"chmod", "write"}
      BY <2>2 DEF ChmodFails, Chmod, Write, WriteFails
    <3> QED BY <2>a, <2>b, <3>1, <3>2 DEF Goto, TypeOK, ResultInv, Returned
  <2>3. ASSUME NEW s \in Savers, Rename(s) PROVE ResultInv(j)'
    BY <2>3, <2>a, <2>b DEF Rename, Goto, TypeOK, ResultInv, Returned
  <2>4. ASSUME NEW s \in Savers, CreateTempFails(s) \/ Return(s) PROVE ResultInv(j)'
    BY <2>4, <2>a, <2>b DEF CreateTempFails, Return, Goto, TypeOK, ResultInv, Returned
  <2>5. ASSUME NEW s \in Savers, Cleanup(s) PROVE ResultInv(j)'
    BY <2>5, <2>a, <2>b DEF Cleanup, Goto, TypeOK, ResultInv, Returned
  <2>6. ASSUME NEW s \in Savers, Sync(s) \/ Close(s) \/ StepFails(s) PROVE ResultInv(j)'
    BY <2>6, <2>a, <2>b DEF Sync, Close, StepFails, Goto, TypeOK, ResultInv, Returned
  <2>7. ASSUME NEW s \in Savers, Kill(s) PROVE ResultInv(j)'
    BY <2>7, <2>a, <2>b DEF Kill, Goto, TypeOK, ResultInv, Stopped, Returned
  <2>8. CASE PowerLoss
    BY <2>8, <2>a DEF PowerLoss, TypeOK, ResultInv, Returned
  <2>9. CASE UNCHANGED vars
    BY <2>9, <2>a DEF vars, ResultInv
  <2> QED BY <2>1, <2>2, <2>3, <2>4, <2>5, <2>6, <2>7, <2>8, <2>9 DEF Next, Step, Finished
<1>3. Inv => ResultIsTrue
  BY DEF ResultInv, ResultIsTrue, Returned
<1> QED BY <1>1, <1>2, <1>3, PTL DEF Spec
=============================================================================
