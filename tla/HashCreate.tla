----------------------------- MODULE HashCreate -----------------------------
(***************************************************************************)
(* hashsum create: a feeder goroutine hands paths to a bounded pool of     *)
(* workers over an unbuffered channel, each worker hashes a file that      *)
(* others may be changing, and the caller collects results and errors from *)
(* two buffered channels until both are closed (internal/hashsum, Create   *)
(* and hashFile).  Create sorts what it collected before it returns, so    *)
(* the order inside the two channels is not kept.                          *)
(***************************************************************************)
EXTENDS Integers, FiniteSets

CONSTANTS
    Workers,        \* the goroutines of --workers
    Count,          \* len(paths)
    PathOf,         \* the file each requested path names; paths may repeat
    Left,           \* what others may leave in place of a file they change
    MaxChanges      \* bound on the changes others make to the files

Job == 1..Count
File == {PathOf[j] : j \in Job}
Kind == {"regular", "absent", "special"}        \* special: a FIFO nobody writes to

ASSUME CountAssumption == Count \in Nat /\ Count >= 1
ASSUME WorkersAssumption == IsFiniteSet(Workers) /\ Workers /= {}
ASSUME PathAssumption == DOMAIN PathOf = Job
ASSUME LeftAssumption == Left \subseteq Kind
ASSUME ChangesAssumption == MaxChanges \in Nat

VARIABLES
    feeder,         \* where the feeder goroutine is
    next,           \* the job it hands over next
    at,             \* where each worker is
    job,            \* the job it holds, 0 when none
    pre,            \* the version its first Lstat saw
    opened,         \* the version it opened
    got,            \* the versions its digests were fed from
    results, errors,            \* the buffered channels
    resultsOpen, errorsOpen,    \* whether the feeder has closed them
    reading,        \* the channels the collector has not set to nil
    files, failed,  \* manifest.Files and manifest.Errors
    returned,       \* Create has returned the manifest
    version,        \* observable state (size, mtime) of each file
    kind,           \* what is at its path
    changes         \* changes made so far

workers == <<at, job, pre, opened, got>>
channels == <<results, errors, resultsOpen, errorsOpen>>
collector == <<reading, files, failed, returned>>
disk == <<version, kind, changes>>
vars == <<feeder, next, workers, channels, collector, disk>>

\* The size of the buffers of results and errors, len(paths).
Buffer == Count

Record == [job : Job, version : 0..MaxChanges, got : SUBSET (0..MaxChanges),
           status : {"stable", "unstable"}]

Init ==
    /\ feeder = "feed" /\ next = 1
    /\ at = [w \in Workers |-> "idle"]
    /\ job = [w \in Workers |-> 0]
    /\ pre = [w \in Workers |-> 0]
    /\ opened = [w \in Workers |-> 0]
    /\ got = [w \in Workers |-> {}]
    /\ results = {} /\ errors = {}
    /\ resultsOpen = TRUE /\ errorsOpen = TRUE
    /\ reading = {"results", "errors"}
    /\ files = {} /\ failed = {}
    /\ returned = FALSE
    /\ version = [f \in File |-> 0]
    /\ kind \in [File -> Kind]
    /\ changes = 0

-----------------------------------------------------------------------------
(* The feeder. *)

\* Mutant: the feeder's index runs one job past the last.
HandOver_OnePast(w) ==
    /\ feeder = "feed" /\ next <= Count + 1 /\ at[w] = "idle"
    /\ job' = [job EXCEPT ![w] = next]
    /\ at' = [at EXCEPT ![w] = "lstat"]
    /\ next' = next + 1
    /\ UNCHANGED <<feeder, pre, opened, got, channels, collector, disk>>

\* jobs is unbuffered: the feeder and an idle worker meet.
HandOver(w) ==
    /\ feeder = "feed" /\ next <= Count /\ at[w] = "idle"
    /\ job' = [job EXCEPT ![w] = next]
    /\ at' = [at EXCEPT ![w] = "lstat"]
    /\ next' = next + 1
    /\ UNCHANGED <<feeder, pre, opened, got, channels, collector, disk>>

CloseJobs ==
    /\ feeder = "feed" /\ next > Count
    /\ feeder' = "wait"
    /\ UNCHANGED <<next, workers, channels, collector, disk>>

\* A worker's range over jobs ends when the channel is closed.
WorkerEnds(w) ==
    /\ at[w] = "idle" /\ feeder /= "feed"
    /\ at' = [at EXCEPT ![w] = "ended"]
    /\ UNCHANGED <<feeder, next, job, pre, opened, got, channels, collector, disk>>

\* Mutant: the feeder does not wait for the workers.
CloseResults_NoWait ==
    /\ feeder = "wait"
    /\ resultsOpen' = FALSE
    /\ feeder' = "closing"
    /\ UNCHANGED <<next, workers, results, errors, errorsOpen, collector, disk>>

\* wg.Wait, then close(results).
CloseResults ==
    /\ feeder = "wait" /\ \A w \in Workers : at[w] = "ended"
    /\ resultsOpen' = FALSE
    /\ feeder' = "closing"
    /\ UNCHANGED <<next, workers, results, errors, errorsOpen, collector, disk>>

CloseErrors ==
    /\ feeder = "closing"
    /\ errorsOpen' = FALSE
    /\ feeder' = "done"
    /\ UNCHANGED <<next, workers, results, errors, resultsOpen, collector, disk>>

-----------------------------------------------------------------------------
(* hashFile, in worker w. *)

path(w) == PathOf[job[w]]

MoveTo(w, l) ==
    /\ at' = [at EXCEPT ![w] = l]
    /\ UNCHANGED <<feeder, next, job, channels, collector, disk>>

\* withinRoot, then Lstat: only a regular file is opened.
LstatBefore(w) ==
    /\ at[w] = "lstat"
    /\ MoveTo(w, IF kind[path(w)] = "regular" THEN "open" ELSE "fail")
    /\ pre' = [pre EXCEPT ![w] = version[path(w)]]
    /\ UNCHANGED <<opened, got>>

\* os.Open follows the path again: it waits for ever in the open of a FIFO.
Open(w) ==
    /\ at[w] = "open"
    /\ MoveTo(w, [regular |-> "read", absent |-> "fail", special |-> "blocked"]
                    [kind[path(w)]])
    /\ opened' = [opened EXCEPT ![w] = version[path(w)]]
    /\ got' = [got EXCEPT ![w] = {}]
    /\ UNCHANGED pre

\* One read of io.Copy: the file as it is now or, when another file was moved
\* over it, as it was when it was opened.
Read(w) ==
    /\ at[w] \in {"read", "reread"}
    /\ MoveTo(w, IF at[w] = "read" THEN "reread" ELSE "relstat")
    /\ \E v \in {opened[w], version[path(w)]} : got' = [got EXCEPT ![w] = @ \union {v}]
    /\ UNCHANGED <<pre, opened>>

ReadFails(w) ==
    /\ at[w] \in {"open", "read", "reread"}
    /\ MoveTo(w, "fail")
    /\ UNCHANGED <<pre, opened, got>>

\* Mutant: the second Lstat is compared with the version that was opened.
Status_SinceOpen(w) == IF opened[w] = version[path(w)] THEN "stable" ELSE "unstable"

Status(w) == IF pre[w] = version[path(w)] THEN "stable" ELSE "unstable"

\* The second Lstat; the record goes to a channel with room for every path.
SendResult(w) ==
    /\ at[w] = "relstat" /\ kind[path(w)] /= "absent" /\ Cardinality(results) < Buffer
    /\ results' = results \union {[job |-> job[w], version |-> pre[w], got |-> got[w],
                                   status |-> Status(w)]}
    /\ at' = [at EXCEPT ![w] = "idle"]
    /\ job' = [job EXCEPT ![w] = 0]
    /\ UNCHANGED <<feeder, next, pre, opened, got, errors, resultsOpen, errorsOpen,
                   collector, disk>>

\* Mutant: a worker that meets an error stops without reporting it.
SendError_Drops(w) ==
    /\ at[w] = "fail"
    /\ at' = [at EXCEPT ![w] = "idle"]
    /\ job' = [job EXCEPT ![w] = 0]
    /\ UNCHANGED <<feeder, next, pre, opened, got, channels, collector, disk>>

SendError(w) ==
    /\ at[w] = "fail" \/ (at[w] = "relstat" /\ kind[path(w)] = "absent")
    /\ Cardinality(errors) < Buffer
    /\ errors' = errors \union {job[w]}
    /\ at' = [at EXCEPT ![w] = "idle"]
    /\ job' = [job EXCEPT ![w] = 0]
    /\ UNCHANGED <<feeder, next, pre, opened, got, results, resultsOpen, errorsOpen,
                   collector, disk>>

-----------------------------------------------------------------------------
(* The select loop of Create. *)

ReceiveResult ==
    /\ "results" \in reading
    /\ \E x \in results : results' = results \ {x} /\ files' = files \union {x}
    /\ UNCHANGED <<feeder, next, workers, errors, resultsOpen, errorsOpen,
                   reading, failed, returned, disk>>

ReceiveError ==
    /\ "errors" \in reading
    /\ \E j \in errors : errors' = errors \ {j} /\ failed' = failed \union {j}
    /\ UNCHANGED <<feeder, next, workers, results, resultsOpen, errorsOpen,
                   reading, files, returned, disk>>

\* A receive from a closed channel fails only when its buffer is empty.
ResultsDone ==
    /\ "results" \in reading /\ results = {} /\ ~resultsOpen
    /\ reading' = reading \ {"results"}
    /\ UNCHANGED <<feeder, next, workers, channels, files, failed, returned, disk>>

\* Mutant: the closed channel is not set to nil, and the loop spins on it.
ErrorsDone_Spins ==
    /\ "errors" \in reading /\ errors = {} /\ ~errorsOpen
    /\ UNCHANGED vars

ErrorsDone ==
    /\ "errors" \in reading /\ errors = {} /\ ~errorsOpen
    /\ reading' = reading \ {"errors"}
    /\ UNCHANGED <<feeder, next, workers, channels, files, failed, returned, disk>>

Return ==
    /\ reading = {} /\ ~returned
    /\ returned' = TRUE
    /\ UNCHANGED <<feeder, next, workers, channels, reading, files, failed, disk>>

-----------------------------------------------------------------------------
\* Others change a file, observably (another size or mtime, FR-22).
Modify(f) ==
    /\ changes < MaxChanges /\ ~returned
    /\ changes' = changes + 1
    /\ version' = [version EXCEPT ![f] = changes + 1]
    /\ \E k \in Left : kind' = [kind EXCEPT ![f] = k]
    /\ UNCHANGED <<feeder, next, workers, channels, collector>>

Finished == returned /\ UNCHANGED vars

Worker(w) ==
    \/ WorkerEnds(w) \/ LstatBefore(w) \/ Open(w) \/ Read(w) \/ ReadFails(w)
    \/ SendResult(w) \/ SendError(w)

Feeder == (\E w \in Workers : HandOver(w)) \/ CloseJobs \/ CloseResults \/ CloseErrors

Collector == ReceiveResult \/ ReceiveError \/ ResultsDone \/ ErrorsDone \/ Return

Next ==
    \/ \E w \in Workers : Worker(w)
    \/ Feeder \/ Collector
    \/ \E f \in File : Modify(f)
    \/ Finished

Spec == Init /\ [][Next]_vars

\* The Go scheduler runs every goroutine that can run, and reads of regular
\* files come back.
FairSpec ==
    /\ Spec /\ WF_vars(Feeder) /\ WF_vars(Collector)
    /\ \A w \in Workers : WF_vars(Worker(w))

-----------------------------------------------------------------------------
\* Every variable keeps its type, and no channel holds more than its buffer.
TypeOK ==
    /\ feeder \in {"feed", "wait", "closing", "done"} /\ next \in 1..(Count + 1)
    /\ at \in [Workers -> {"idle", "lstat", "open", "read", "reread",
                           "relstat", "fail", "blocked", "ended"}]
    /\ job \in [Workers -> 0..Count]
    /\ pre \in [Workers -> 0..MaxChanges] /\ opened \in [Workers -> 0..MaxChanges]
    /\ got \in [Workers -> SUBSET (0..MaxChanges)]
    /\ results \subseteq Record /\ errors \subseteq Job
    /\ Cardinality(results) <= Buffer /\ Cardinality(errors) <= Buffer
    /\ resultsOpen \in BOOLEAN /\ errorsOpen \in BOOLEAN
    /\ reading \subseteq {"results", "errors"}
    /\ files \subseteq Record /\ failed \subseteq Job
    /\ returned \in BOOLEAN
    /\ version \in [File -> 0..MaxChanges] /\ kind \in [File -> Kind]
    /\ changes \in 0..MaxChanges

\* Where the j-th requested path is, or what became of it.
Places(j) ==
    ({"worker"} \X {w \in Workers : job[w] = j})
      \union ({"results"} \X {x \in results : x.job = j})
      \union ({"files"} \X {x \in files : x.job = j})
      \union ({"errors"} \X (errors \intersect {j}))
      \union ({"failed"} \X (failed \intersect {j}))

\* No path is lost or reported twice on its way through three channels and the
\* pool: a path that was handed over is with exactly one worker, in exactly one
\* channel, or in exactly one list of the manifest; and the manifest that Create
\* returns covers every requested path: a failing file does not hide another one
\* (EC-8, specs/V1.md: "return exit 1 after processing other inputs").
EachPathInOnePlace ==
    \A j \in Job :
        /\ j >= next => Places(j) = {}
        /\ j < next => \E p \in Places(j) : Places(j) = {p}
        /\ returned => \E p \in Places(j) : p[1] \in {"files", "failed"}

\* FR-22: a record says "stable" only if both digests were fed from one version
\* of the file, the one whose size and mtime the record gives.
StableIsOneVersion ==
    \A x \in results \union files : x.status = "stable" => x.got = {x.version}

\* A worker that has a job, and so something to send in the end, finds both channels
\* open, where a closed one would make it panic, and with room for one more value,
\* so that it never waits for the collector, whatever the collector is doing.
SendsSucceed ==
    \A w \in Workers : job[w] /= 0 =>
        /\ resultsOpen /\ Cardinality(results) < Buffer
        /\ errorsOpen /\ Cardinality(errors) < Buffer

\* Create returns: the feeder, the workers and the collector never wait for one
\* another for ever, whatever fails and changes.
Terminates == <>returned
=============================================================================
