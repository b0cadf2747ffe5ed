----------------------------- MODULE AtomicFile -----------------------------
(***************************************************************************)
(* How the tools replace a file: a temporary file in the destination's     *)
(* directory is filled, closed and renamed over it, and removed when a     *)
(* step fails.  The six writers of the repository differ in which errors  *)
(* they see and in whether they sync; each is a profile below.  Several    *)
(* invocations of one tool save to the same destination, any of them may   *)
(* be killed, and the power may fail.                                      *)
(***************************************************************************)
CONSTANTS
    Savers,     \* concurrent invocations
    Prior,      \* the destination as it was, a missing one included
    Tools       \* which writers are considered

\* Of a failing Chmod: "none" (not called), "fatal", "ignored", or "lost": the
\* write is skipped and the error is shadowed by the if statement's own err, so
\* the empty file is closed and renamed.
\* Of a failing Write: "fatal", or "lost" to the same err: what was written of
\* the file is closed and renamed.
Save          == [chmod |-> "fatal",   write |-> "fatal", sync |-> TRUE]
SaveMetascore == [chmod |-> "fatal",   write |-> "fatal", sync |-> TRUE]
AtomicJSON    == [chmod |-> "ignored", write |-> "fatal", sync |-> TRUE]
SaveReceipt   == [chmod |-> "none",    write |-> "fatal", sync |-> TRUE]
WriteManifest == [chmod |-> "lost",    write |-> "lost",  sync |-> FALSE]
AtomicWrite   == [chmod |-> "lost",    write |-> "lost",  sync |-> FALSE]

Profile(t) ==
    CASE t = "homestate" -> Save
      [] t = "metascore" -> SaveMetascore
      [] t = "macossec" -> AtomicJSON
      [] t = "runreceipt" -> SaveReceipt
      [] t = "hashsum" -> WriteManifest
      [] t = "envsub" -> AtomicWrite

AllTools == {"homestate", "metascore", "macossec", "runreceipt", "hashsum", "envsub"}
CheckedTools == AllTools \ {"hashsum", "envsub"}

ASSUME ToolsAssumption == Tools \subseteq AllTools
ASSUME PriorAssumption == Prior \notin Savers

VARIABLES
    tool,       \* the tool all the savers run
    pc,         \* where each save is
    temp,       \* its temporary name exists
    data,       \* what its file holds: "none", "empty", "part", "full"
    synced,     \* its data has reached the disk
    dest,       \* whose file the destination name leads to
    renamed     \* the saves that were renamed over it

vars == <<tool, pc, temp, data, synced, dest, renamed>>

Contents == {"none", "empty", "part", "full"}
\* What a power loss leaves of unsynced data.
Remains(d) == CASE d = "none" -> {} [] d = "empty" -> {}
                [] d = "part" -> {"empty"} [] d = "full" -> {"empty", "part"}

P == Profile(tool)

Returned == {"ok", "failed"}
Stopped == Returned \union {"killed"}

Init ==
    /\ tool \in Tools
    /\ pc = [s \in Savers |-> "create"]
    /\ temp = [s \in Savers |-> FALSE]
    /\ data = [s \in Savers |-> "none"]
    /\ synced = [s \in Savers |-> FALSE]
    /\ dest = Prior
    /\ renamed = {}

Goto(s, l) == pc' = [pc EXCEPT ![s] = l]

AfterCreate == IF P.chmod = "none" THEN "write" ELSE "chmod"
\* Mutant: no writer syncs.
AfterWrite_NoSync == "close"

AfterWrite == IF P.sync THEN "sync" ELSE "close"

\* os.CreateTemp, or MkdirAll and Stat before it.
CreateTemp(s) ==
    /\ pc[s] = "create"
    /\ temp' = [temp EXCEPT ![s] = TRUE]
    /\ data' = [data EXCEPT ![s] = "empty"]
    /\ Goto(s, AfterCreate)
    /\ UNCHANGED <<tool, synced, dest, renamed>>

CreateTempFails(s) ==
    /\ pc[s] = "create"
    /\ Goto(s, "failed")
    /\ UNCHANGED <<tool, temp, data, synced, dest, renamed>>

Chmod(s) ==
    /\ pc[s] = "chmod"
    /\ Goto(s, "write")
    /\ UNCHANGED <<tool, temp, data, synced, dest, renamed>>

\* Mutant: every writer shadows the error of Chmod and skips the write.
ChmodErrorTo_Shadowed == AfterWrite

\* Where the error of Chmod leads.
ChmodErrorTo ==
    CASE P.chmod = "fatal" -> "cleanup"
      [] P.chmod = "ignored" -> "write"
      [] P.chmod = "lost" -> AfterWrite

ChmodFails(s) ==
    /\ pc[s] = "chmod"
    /\ Goto(s, ChmodErrorTo)
    /\ UNCHANGED <<tool, temp, data, synced, dest, renamed>>

Write(s) ==
    /\ pc[s] = "write"
    /\ data' = [data EXCEPT ![s] = "full"]
    /\ Goto(s, AfterWrite)
    /\ UNCHANGED <<tool, temp, synced, dest, renamed>>

\* Mutant: the error of Write is lost in every writer.
WriteErrorTo_Lost == AfterWrite

\* Where the error of Write leads.
WriteErrorTo == IF P.write = "fatal" THEN "cleanup" ELSE AfterWrite

\* A short write, on a full disk for one.
WriteFails(s) ==
    /\ pc[s] = "write"
    /\ \E d \in {"empty", "part"} : data' = [data EXCEPT ![s] = d]
    /\ Goto(s, WriteErrorTo)
    /\ UNCHANGED <<tool, temp, synced, dest, renamed>>

Sync(s) ==
    /\ pc[s] = "sync"
    /\ synced' = [synced EXCEPT ![s] = TRUE]
    /\ Goto(s, "close")
    /\ UNCHANGED <<tool, temp, data, dest, renamed>>

Close(s) ==
    /\ pc[s] = "close"
    /\ Goto(s, "rename")
    /\ UNCHANGED <<tool, temp, data, synced, dest, renamed>>

Rename(s) ==
    /\ pc[s] = "rename"
    /\ temp' = [temp EXCEPT ![s] = FALSE]
    /\ dest' = s
    /\ renamed' = renamed \union {s}
    /\ Goto(s, "return")
    /\ UNCHANGED <<tool, data, synced>>

\* Mutant: the error of Rename is not returned.
StepFails_Unreported(s) ==
    /\ pc[s] \in {"sync", "close", "rename"}
    /\ Goto(s, IF pc[s] = "rename" THEN "return" ELSE "cleanup")
    /\ UNCHANGED <<tool, temp, data, synced, dest, renamed>>

\* Sync, Close and Rename report their errors in every writer.
StepFails(s) ==
    /\ pc[s] \in {"sync", "close", "rename"}
    /\ Goto(s, "cleanup")
    /\ UNCHANGED <<tool, temp, data, synced, dest, renamed>>

\* The deferred os.Remove; after a rename there is nothing to remove.
Cleanup(s) ==
    /\ pc[s] = "cleanup"
    /\ temp' = [temp EXCEPT ![s] = FALSE]
    /\ Goto(s, "failed")
    /\ UNCHANGED <<tool, data, synced, dest, renamed>>

Return(s) ==
    /\ pc[s] = "return"
    /\ Goto(s, "ok")
    /\ UNCHANGED <<tool, temp, data, synced, dest, renamed>>

Kill(s) ==
    /\ pc[s] \notin Stopped
    /\ Goto(s, "killed")
    /\ UNCHANGED <<tool, temp, data, synced, dest, renamed>>

\* Everything stops.  The directory was never synced, so the name may lead to
\* any file it ever led to; data that was not synced may be lost.
PowerLoss ==
    /\ pc' = [s \in Savers |-> IF pc[s] \in Returned THEN pc[s] ELSE "killed"]
    /\ dest' \in {Prior} \union renamed
    /\ data' \in [Savers -> Contents]
    /\ \A s \in Savers : data'[s] = data[s] \/ (~synced[s] /\ data'[s] \in Remains(data[s]))
    /\ UNCHANGED <<tool, temp, synced, renamed>>

Finished == (\A s \in Savers : pc[s] \in Stopped) /\ UNCHANGED vars

Step(s) ==
    \/ CreateTemp(s) \/ CreateTempFails(s) \/ Chmod(s) \/ ChmodFails(s)
    \/ Write(s) \/ WriteFails(s) \/ Sync(s) \/ Close(s) \/ Rename(s)
    \/ StepFails(s) \/ Cleanup(s) \/ Return(s)

Next == (\E s \in Savers : Step(s) \/ Kill(s)) \/ PowerLoss \/ Finished

Spec == Init /\ [][Next]_vars

-----------------------------------------------------------------------------
\* Every variable keeps its type; what is synced is a whole file.
TypeOK ==
    /\ tool \in Tools
    /\ pc \in [Savers -> {"create", "chmod", "write", "sync", "close", "rename",
                          "cleanup", "return"} \union Stopped]
    /\ temp \in [Savers -> BOOLEAN]
    /\ data \in [Savers -> Contents]
    /\ synced \in [Savers -> BOOLEAN]
    /\ \A s \in Savers : synced[s] => data[s] = "full"
    /\ dest \in {Prior} \union Savers
    /\ renamed \subseteq Savers

\* "Partial destination files are prohibited" (NFR-R1, specs/V1.md): whatever
\* fails, whoever is killed and when the power goes, a reader of the
\* destination finds the prior file or all of a new one.
NoPartialDestination == dest /= Prior => data[dest] = "full"

\* The error a save returns is the truth: nil means its whole file was put in
\* place, an error means it never was.  A save that returned leaves no
\* temporary file behind.
ResultIsTrue ==
    \A s \in Savers :
        /\ pc[s] = "ok" => s \in renamed
        /\ pc[s] = "failed" => s \notin renamed
        /\ pc[s] \in Returned => ~temp[s]

valueBar == IF dest = Prior \/ data[dest] = "full" THEN dest ELSE "partial"
savedBar == [s \in Savers |-> IF s \in renamed THEN "installed"
                              ELSE IF pc[s] = "failed" THEN "failed" ELSE "pending"]
Replace == INSTANCE AtomicReplace WITH value <- valueBar, saved <- savedBar

\* The writers that check their errors implement the register of NFR-R1.
ImplementsReplace == Replace!ASpec
=============================================================================
