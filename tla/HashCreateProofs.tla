-------------------------- MODULE HashCreateProofs --------------------------
(***************************************************************************)
(* For any set of workers, any list of paths and any changes by others,    *)
(* the pool of HashCreate keeps its types, never sends on a channel that   *)
(* is closed or full, has every path in one place, and calls a record      *)
(* stable only when it is of one version.                                  *)
(***************************************************************************)
EXTENDS HashCreate, FiniteSetTheorems, TLAPS

\* The two channels hold finitely many values.
FiniteInv == IsFiniteSet(results) /\ IsFiniteSet(errors)

\* A worker has a job exactly while it works on one, and it ends only when no
\* job is left.
WorkerInv ==
    \A w \in Workers :
        /\ job[w] = 0 <=> at[w] \in {"idle", "ended"}
        /\ at[w] = "ended" => feeder /= "feed"

\* The order in which the pool is shut down.
ClosingInv ==
    /\ feeder /= "feed" => next = Count + 1
    /\ feeder \in {"closing", "done"} => \A w \in Workers : at[w] = "ended"
    /\ ~resultsOpen => feeder \in {"closing", "done"}
    /\ ~errorsOpen => feeder = "done"
    /\ "results" \notin reading => ~resultsOpen /\ results = {}
    /\ "errors" \notin reading => ~errorsOpen /\ errors = {}
    /\ returned => reading = {}

Records == results \union files
Failures == errors \union failed

\* A job is with one worker, or in one record, or among the failures; the jobs
\* found there are those that were handed over.
PlaceInv ==
    /\ \A v, w \in Workers : job[v] = job[w] /\ job[w] /= 0 => v = w
    /\ \A x, y \in Records : x.job = y.job => x = y
    /\ results \intersect files = {} /\ errors \intersect failed = {}
    /\ \A x \in Records : x.job \notin Failures
    /\ \A w \in Workers : job[w] \notin Failures /\ \A x \in Records : x.job /= job[w]
    /\ \A j \in Job : j < next <=> \/ \E w \in Workers : job[w] = j
                                   \/ \E x \in Records : x.job = j
                                   \/ j \in Failures

\* What a worker has seen of its file is between the version its first Lstat
\* saw and the present one.
Sees(w) ==
    /\ at[w] \in {"open", "read", "reread", "relstat"} =>
        pre[w] <= version[path(w)]
    /\ at[w] \in {"read", "reread", "relstat"} =>
        /\ pre[w] <= opened[w] /\ opened[w] <= version[path(w)]
        /\ \A v \in got[w] : opened[w] <= v /\ v <= version[path(w)]
    /\ at[w] \in {"reread", "relstat"} => got[w] /= {}

VersionInv ==
    /\ \A f \in File : version[f] <= changes
    /\ \A w \in Workers : Sees(w)
    /\ StableIsOneVersion

IInv == TypeOK /\ FiniteInv /\ WorkerInv /\ ClosingInv /\ PlaceInv /\ VersionInv

\* The initial states satisfy the inductive invariant.
LEMMA InitIInv == Init => IInv
<1> SUFFICES ASSUME Init PROVE IInv
  OBVIOUS
<1> USE DEF Init
<1>1. FiniteInv /\ Cardinality(results) = 0 /\ Cardinality(errors) = 0
  BY FS_EmptySet DEF FiniteInv
<1>2. TypeOK
  <2>1. next \in 1..(Count + 1) /\ 0 \in 0..Count /\ 0 \in 0..MaxChanges /\ 0 <= Count
    BY CountAssumption, ChangesAssumption
  <2> QED BY <1>1, <2>1 DEF TypeOK, Buffer
<1>3. WorkerInv
  BY DEF WorkerInv
<1>4. ClosingInv
  BY DEF ClosingInv
<1>5. PlaceInv
  BY CountAssumption DEF PlaceInv, Records, Failures, Job
<1>6. VersionInv
  BY ChangesAssumption DEF VersionInv, Sees, StableIsOneVersion
<1> QED BY <1>1, <1>2, <1>3, <1>4, <1>5, <1>6 DEF IInv

\* The file of a worker that holds a job is one of the files.
LEMMA PathIsFile ==
  ASSUME TypeOK, NEW w \in Workers, job[w] /= 0
  PROVE  job[w] \in Job /\ path(w) \in File
<1>1. job[w] \in 0..Count
  BY DEF TypeOK
<1>2. job[w] \in Job
  BY <1>1, CountAssumption DEF Job
<1> QED BY <1>2 DEF File, path

\* The numbers of the model and their bounds.
LEMMA Numbers ==
  ASSUME TypeOK
  PROVE  /\ next \in Nat /\ 1 <= next /\ next <= Count + 1
         /\ changes \in Nat /\ changes <= MaxChanges
<1>1. next \in 1..(Count + 1) /\ changes \in 0..MaxChanges
  BY DEF TypeOK
<1> QED BY <1>1, CountAssumption, ChangesAssumption

\* What a send and a receive do to the number of values in a channel.
LEMMA OneMore ==
  ASSUME NEW S, NEW x, IsFiniteSet(S), Cardinality(S) < Buffer
  PROVE  Cardinality(S \union {x}) <= Buffer
<1>1. Cardinality(S) \in Nat
  BY FS_CardinalityType
<1>2. \/ Cardinality(S \union {x}) = Cardinality(S)
      \/ Cardinality(S \union {x}) = Cardinality(S) + 1
  BY FS_AddElement
<1> QED BY <1>1, <1>2, CountAssumption DEF Buffer

LEMMA OneLess ==
  ASSUME NEW S, NEW x, IsFiniteSet(S), Cardinality(S) <= Buffer
  PROVE  Cardinality(S \ {x}) <= Buffer
<1>1. Cardinality(S) \in Nat
  BY FS_CardinalityType
<1>2. \/ Cardinality(S \ {x}) = Cardinality(S)
      \/ Cardinality(S \ {x}) = Cardinality(S) - 1
  BY FS_RemoveElement
<1> QED BY <1>1, <1>2, CountAssumption DEF Buffer

\* What an open leads to.
LEMMA Opens ==
  ASSUME TypeOK, NEW w \in Workers, Open(w), path(w) \in File
  PROVE  \E l \in {"read", "fail", "blocked"} : MoveTo(w, l)
<1> DEFINE to == [regular |-> "read", absent |-> "fail", special |-> "blocked"]
<1>1. MoveTo(w, to[kind[path(w)]])
  BY DEF Open
<1>2. kind[path(w)] \in {"regular", "absent", "special"}
  BY DEF TypeOK, Kind
<1>3. to["regular"] = "read" /\ to["absent"] = "fail" /\ to["special"] = "blocked"
  OBVIOUS
<1> QED BY <1>1, <1>2, <1>3

\* The channels stay finite: a step adds one element to one of them at most.
LEMMA FinitePreserved == FiniteInv /\ [Next]_vars => FiniteInv'
<1> SUFFICES ASSUME FiniteInv, [Next]_vars PROVE FiniteInv'
  OBVIOUS
<1> USE DEF FiniteInv
<1>1. ASSUME NEW w \in Workers, SendResult(w) PROVE FiniteInv'
  BY <1>1, FS_AddElement DEF SendResult
<1>2. ASSUME NEW w \in Workers, SendError(w) PROVE FiniteInv'
  BY <1>2, FS_AddElement DEF SendError
<1>3. CASE ReceiveResult
  BY <1>3, FS_RemoveElement DEF ReceiveResult
<1>4. CASE ReceiveError
  BY <1>4, FS_RemoveElement DEF ReceiveError
<1>5. CASE UNCHANGED <<results, errors>>
  BY <1>5
<1>6. \/ UNCHANGED <<results, errors>> \/ ReceiveResult \/ ReceiveError
      \/ \E w \in Workers : SendResult(w) \/ SendError(w)
  BY DEF Next, Worker, Feeder, Collector, HandOver, CloseJobs, CloseResults, CloseErrors,
         WorkerEnds, LstatBefore, Open, Read, ReadFails, MoveTo, ResultsDone, ErrorsDone,
         Return, Modify, Finished, vars, channels
<1> QED BY <1>1, <1>2, <1>3, <1>4, <1>5, <1>6

\* Every step keeps the types and the bounds of the channels.
LEMMA TypePreserved == TypeOK /\ FiniteInv /\ WorkerInv /\ [Next]_vars => TypeOK'
<1> SUFFICES ASSUME TypeOK, FiniteInv, WorkerInv, [Next]_vars PROVE TypeOK'
  OBVIOUS
<1> USE CountAssumption, ChangesAssumption
<1>1. ASSUME NEW w \in Workers, HandOver(w) PROVE TypeOK'
  <2>1. next \in 0..Count /\ next' \in 1..(Count + 1)
    BY <1>1, Numbers DEF HandOver
  <2> QED BY <1>1, <2>1 DEF HandOver, TypeOK, channels, collector, disk
<1>2. CASE CloseJobs \/ CloseResults \/ CloseErrors
  BY <1>2 DEF CloseJobs, CloseResults, CloseErrors, TypeOK, workers, channels, collector, disk
<1>3. ASSUME NEW w \in Workers, WorkerEnds(w) PROVE TypeOK'
  BY <1>3 DEF WorkerEnds, TypeOK, channels, collector, disk
<1>4. ASSUME NEW w \in Workers, at[w] \notin {"idle", "ended"}
      PROVE  job[w] \in Job /\ path(w) \in File /\ version[path(w)] \in 0..MaxChanges
  <2>1. job[w] /= 0
    BY <1>4 DEF WorkerInv
  <2>2. job[w] \in Job /\ path(w) \in File
    BY <2>1, PathIsFile
  <2> QED BY <2>2 DEF TypeOK
<1>5. ASSUME NEW w \in Workers, LstatBefore(w) PROVE TypeOK'
  <2>1. version[path(w)] \in 0..MaxChanges
    BY <1>5, <1>4 DEF LstatBefore
  <2> QED BY <1>5, <2>1 DEF LstatBefore, MoveTo, TypeOK, channels, collector, disk
<1>6. ASSUME NEW w \in Workers, Open(w) PROVE TypeOK'
  <2>1. version[path(w)] \in 0..MaxChanges /\ path(w) \in File
    BY <1>6, <1>4 DEF Open
  <2>2. PICK l \in {"read", "fail", "blocked"} : MoveTo(w, l)
    BY <1>6, <2>1, Opens
  <2> QED BY <1>6, <2>1, <2>2 DEF Open, MoveTo, TypeOK, channels, collector, disk
<1>7. ASSUME NEW w \in Workers, Read(w) PROVE TypeOK'
  <2>1. PICK v \in {opened[w], version[path(w)]} : got' = [got EXCEPT ![w] = @ \union {v}]
    BY <1>7 DEF Read
  <2>2. v \in 0..MaxChanges
    <3>1. opened[w] \in 0..MaxChanges
      BY DEF TypeOK
    <3>2. version[path(w)] \in 0..MaxChanges
      BY <1>7, <1>4 DEF Read
    <3> QED BY <3>1, <3>2
  <2>3. got' \in [Workers -> SUBSET (0..MaxChanges)]
    BY <2>1, <2>2 DEF TypeOK
  <2> QED BY <1>7, <2>3 DEF Read, MoveTo, TypeOK, channels, collector, disk
<1>8. ASSUME NEW w \in Workers, ReadFails(w) PROVE TypeOK'
  BY <1>8 DEF ReadFails, MoveTo, TypeOK, channels, collector, disk
<1>9. ASSUME NEW w \in Workers, SendResult(w) PROVE TypeOK'
  <2> DEFINE x == [job |-> job[w], version |-> pre[w], got |-> got[w], status |-> Status(w)]
  <2>1. x \in Record
    BY <1>9, <1>4 DEF SendResult, TypeOK, Record, Status
  <2>2. results' = results \union {x} /\ Cardinality(results) < Buffer
    BY <1>9 DEF SendResult
  <2>3. Cardinality(results') <= Buffer
    BY <2>2, OneMore DEF FiniteInv
  <2>4. results' \subseteq Record
    BY <2>1, <2>2 DEF TypeOK
  <2>5. /\ at' = [at EXCEPT ![w] = "idle"] /\ job' = [job EXCEPT ![w] = 0]
        /\ UNCHANGED <<feeder, next, pre, opened, got, errors, resultsOpen, errorsOpen,
                       reading, files, failed, returned, version, kind, changes>>
    BY <1>9 DEF SendResult, collector, disk
  <2>6. at' \in [Workers -> {"idle", "lstat", "open", "read", "reread",
                             "relstat", "fail", "blocked", "ended"}]
    BY <2>5 DEF TypeOK
  <2>7. 0 \in 0..Count
    BY CountAssumption
  <2>8. job' \in [Workers -> 0..Count]
    BY <2>5, <2>7 DEF TypeOK
  <2> QED BY <2>3, <2>4, <2>5, <2>6, <2>8 DEF TypeOK
<1>10. ASSUME NEW w \in Workers, SendError(w) PROVE TypeOK'
  <2>1. job[w] \in Job
    BY <1>10, <1>4 DEF SendError
  <2>2. errors' = errors \union {job[w]} /\ Cardinality(errors) < Buffer
    BY <1>10 DEF SendError
  <2>3. Cardinality(errors') <= Buffer
    BY <2>2, OneMore DEF FiniteInv
  <2>4. errors' \subseteq Job
    BY <2>1, <2>2 DEF TypeOK
  <2>5. /\ at' = [at EXCEPT ![w] = "idle"] /\ job' = [job EXCEPT ![w] = 0]
        /\ UNCHANGED <<feeder, next, pre, opened, got, results, resultsOpen, errorsOpen,
                       reading, files, failed, returned, version, kind, changes>>
    BY <1>10 DEF SendError, collector, disk
  <2>6. at' \in [Workers -> {"idle", "lstat", "open", "read", "reread",
                             "relstat", "fail", "blocked", "ended"}]
    BY <2>5 DEF TypeOK
  <2>7. 0 \in 0..Count
    BY CountAssumption
  <2>8. job' \in [Workers -> 0..Count]
    BY <2>5, <2>7 DEF TypeOK
  <2> QED BY <2>3, <2>4, <2>5, <2>6, <2>8 DEF TypeOK
<1>11. CASE ReceiveResult
  <2>1. PICK x \in results : results' = results \ {x} /\ files' = files \union {x}
    BY <1>11 DEF ReceiveResult
  <2>2. Cardinality(results) <= Buffer
    BY DEF TypeOK
  <2>3. Cardinality(results') <= Buffer
    BY <2>1, <2>2, OneLess DEF FiniteInv
  <2> QED BY <1>11, <2>1, <2>3 DEF ReceiveResult, TypeOK, workers, disk
<1>12. CASE ReceiveError
  <2>1. PICK j \in errors : errors' = errors \ {j} /\ failed' = failed \union {j}
    BY <1>12 DEF ReceiveError
  <2>2. Cardinality(errors) <= Buffer
    BY DEF TypeOK
  <2>3. Cardinality(errors') <= Buffer
    BY <2>1, <2>2, OneLess DEF FiniteInv
  <2> QED BY <1>12, <2>1, <2>3 DEF ReceiveError, TypeOK, workers, disk
<1>13. CASE ResultsDone \/ ErrorsDone \/ Return
  BY <1>13 DEF ResultsDone, ErrorsDone, Return, TypeOK, workers, channels, disk
<1>14. ASSUME NEW f \in File, Modify(f) PROVE TypeOK'
  <2>1. changes + 1 \in 0..MaxChanges
    BY <1>14, Numbers DEF Modify
  <2> QED BY <1>14, <2>1, LeftAssumption DEF Modify, TypeOK, workers, channels, collector
<1>15. CASE UNCHANGED vars
  BY <1>15 DEF vars, workers, channels, collector, disk, TypeOK
<1> QED BY <1>1, <1>2, <1>3, <1>5, <1>6, <1>7, <1>8, <1>9, <1>10, <1>11, <1>12, <1>13, <1>14, <1>15
        DEF Next, Worker, Feeder, Collector, Finished

\* Workers take a job when they are idle, and give it up when they report it.
LEMMA WorkerPreserved == TypeOK /\ WorkerInv /\ [Next]_vars => WorkerInv'
<1> SUFFICES ASSUME TypeOK, WorkerInv, [Next]_vars PROVE WorkerInv'
  OBVIOUS
<1> USE DEF WorkerInv
<1>1. ASSUME NEW w \in Workers, HandOver(w) PROVE WorkerInv'
  <2>1. next /= 0
    BY Numbers
  <2> QED BY <1>1, <2>1 DEF HandOver, TypeOK
<1>2. CASE CloseJobs \/ CloseResults \/ CloseErrors
  BY <1>2 DEF CloseJobs, CloseResults, CloseErrors, workers
<1>3. ASSUME NEW w \in Workers, WorkerEnds(w) PROVE WorkerInv'
  BY <1>3 DEF WorkerEnds, TypeOK
<1>4. ASSUME NEW w \in Workers, LstatBefore(w) \/ Open(w) \/ Read(w) \/ ReadFails(w)
      PROVE  WorkerInv'
  <2>1. PICK l \in {"open", "fail", "read", "reread", "relstat", "blocked"} :
           MoveTo(w, l) /\ at[w] \notin {"idle", "ended"}
    <3>1. CASE LstatBefore(w)
      BY <3>1 DEF LstatBefore
    <3>2. CASE Open(w)
      <4>1. path(w) \in File /\ at[w] = "open"
        BY <3>2, PathIsFile DEF Open
      <4> QED BY <3>2, <4>1, Opens
    <3>3. CASE Read(w) \/ ReadFails(w)
      BY <3>3 DEF Read, ReadFails
    <3> QED BY <1>4, <3>1, <3>2, <3>3
  <2> QED BY <2>1 DEF MoveTo, TypeOK
<1>5. ASSUME NEW w \in Workers, SendResult(w) \/ SendError(w) PROVE WorkerInv'
  BY <1>5 DEF SendResult, SendError, TypeOK
<1>6. CASE ReceiveResult \/ ReceiveError \/ ResultsDone \/ ErrorsDone \/ Return
  BY <1>6 DEF ReceiveResult, ReceiveError, ResultsDone, ErrorsDone, Return, workers
<1>7. ASSUME NEW f \in File, Modify(f) PROVE WorkerInv'
  BY <1>7 DEF Modify, workers
<1>8. CASE UNCHANGED vars
  BY <1>8 DEF vars, workers
<1> QED BY <1>1, <1>2, <1>3, <1>4, <1>5, <1>6, <1>7, <1>8
        DEF Next, Worker, Feeder, Collector, Finished

\* The feeder closes a channel only when no worker is left, and the collector
\* leaves a channel only when it is closed and empty.
LEMMA ClosingPreserved == TypeOK /\ ClosingInv /\ [Next]_vars => ClosingInv'
<1> SUFFICES ASSUME TypeOK, ClosingInv, [Next]_vars PROVE ClosingInv'
  OBVIOUS
<1> USE DEF ClosingInv
<1>1. ASSUME NEW w \in Workers, HandOver(w) PROVE ClosingInv'
  BY <1>1 DEF HandOver, channels, collector
<1>2. CASE CloseJobs
  BY <1>2, Numbers, CountAssumption DEF CloseJobs, workers, channels, collector
<1>3. CASE CloseResults
  BY <1>3 DEF CloseResults, workers, collector
<1>4. CASE CloseErrors
  BY <1>4 DEF CloseErrors, workers, collector
<1>5. ASSUME NEW w \in Workers, WorkerEnds(w) PROVE ClosingInv'
  BY <1>5 DEF WorkerEnds, TypeOK, channels, collector
<1>6. ASSUME NEW w \in Workers, LstatBefore(w) \/ Open(w) \/ Read(w) \/ ReadFails(w)
      PROVE  ClosingInv'
  <2>1. at[w] /= "ended"
    BY <1>6 DEF LstatBefore, Open, Read, ReadFails
  <2>2. UNCHANGED <<feeder, next, channels, collector>>
    BY <1>6 DEF LstatBefore, Open, Read, ReadFails, MoveTo
  <2> QED BY <2>1, <2>2 DEF channels, collector
<1>7. ASSUME NEW w \in Workers, SendResult(w) \/ SendError(w) PROVE ClosingInv'
  <2>1. at[w] /= "ended"
    BY <1>7 DEF SendResult, SendError
  <2>2. feeder \notin {"closing", "done"} /\ resultsOpen /\ errorsOpen
    BY <2>1
  <2>3. UNCHANGED <<feeder, next, resultsOpen, errorsOpen, collector>>
    BY <1>7 DEF SendResult, SendError
  <2> QED BY <2>2, <2>3 DEF collector
<1>8. CASE ReceiveResult \/ ReceiveError
  <2>1. UNCHANGED <<feeder, next, at, resultsOpen, errorsOpen, reading, returned>>
    BY <1>8 DEF ReceiveResult, ReceiveError, workers
  <2>2. \/ "results" \in reading /\ UNCHANGED errors
        \/ "errors" \in reading /\ UNCHANGED results
    BY <1>8 DEF ReceiveResult, ReceiveError
  <2> QED BY <2>1, <2>2
<1>9. CASE ResultsDone \/ ErrorsDone \/ Return
  <2>1. UNCHANGED <<feeder, next, at, results, errors, resultsOpen, errorsOpen>>
    BY <1>9 DEF ResultsDone, ErrorsDone, Return, workers, channels
  <2>2. CASE ResultsDone
    BY <2>1, <2>2 DEF ResultsDone
  <2>3. CASE ErrorsDone
    BY <2>1, <2>3 DEF ErrorsDone
  <2>4. CASE Return
    BY <2>1, <2>4 DEF Return
  <2> QED BY <1>9, <2>2, <2>3, <2>4
<1>10. ASSUME NEW f \in File, Modify(f) PROVE ClosingInv'
  BY <1>10 DEF Modify, workers, channels, collector
<1>11. CASE UNCHANGED vars
  BY <1>11 DEF vars, workers, channels, collector
<1> QED BY <1>1, <1>2, <1>3, <1>4, <1>5, <1>6, <1>7, <1>8, <1>9, <1>10, <1>11
        DEF Next, Worker, Feeder, Collector, Finished

\* A step moves a job from one place to the next one.
LEMMA PlacePreserved ==
  TypeOK /\ WorkerInv /\ PlaceInv /\ [Next]_vars => PlaceInv'
<1> SUFFICES ASSUME TypeOK, WorkerInv, PlaceInv, [Next]_vars PROVE PlaceInv'
  OBVIOUS
<1> USE DEF Records, Failures
<1>0. /\ \A x \in Records : x.job \in Job
      /\ \A j \in Failures : j \in Job
      /\ \A j \in Job : j \in Nat /\ j >= 1 /\ j <= Count
  <2>1. \A x \in Record : x.job \in Job
    BY DEF Record
  <2>2. results \subseteq Record /\ files \subseteq Record /\ Failures \subseteq Job
    BY DEF TypeOK
  <2> QED BY <2>1, <2>2, CountAssumption DEF Job
<1>1. ASSUME NEW w \in Workers, HandOver(w) PROVE PlaceInv'
  <2>1. /\ next \in Job /\ ~(next < next) /\ job[w] = 0
        /\ job' = [job EXCEPT ![w] = next] /\ next' = next + 1
        /\ UNCHANGED <<results, errors, files, failed>>
    BY <1>1, Numbers DEF HandOver, Job, channels, collector, WorkerInv
  <2>2. /\ \A v \in Workers : job[v] /= next
        /\ \A x \in Records : x.job /= next
        /\ next \notin Failures
    BY <2>1 DEF PlaceInv
  <2>3. \A v \in Workers : job'[v] = IF v = w THEN next ELSE job[v]
    BY <2>1 DEF TypeOK
  <2>4. \A j \in Job : j < next' <=> j < next \/ j = next
    BY <2>1, <1>0, Numbers
  <2>5. ASSUME NEW j \in Job, j /= next
        PROVE  (\E v \in Workers : job'[v] = j) <=> (\E v \in Workers : job[v] = j)
    BY <2>1, <2>3, <2>5, <1>0
  <2>6. \E v \in Workers : job'[v] = next
    BY <2>3
  <2>7. \A j \in Job : j < next' <=> \/ \E v \in Workers : job'[v] = j
                                     \/ \E x \in Records : x.job = j
                                     \/ j \in Failures
    BY <2>2, <2>4, <2>5, <2>6 DEF PlaceInv
  <2>8. \A u, v \in Workers : job'[u] = job'[v] /\ job'[u] /= 0 => u = v
    BY <2>2, <2>3 DEF PlaceInv
  <2>9. \A v \in Workers : job'[v] \notin Failures /\ \A x \in Records : x.job /= job'[v]
    BY <2>2, <2>3 DEF PlaceInv
  <2> QED BY <2>1, <2>7, <2>8, <2>9 DEF PlaceInv
<1>2. ASSUME NEW w \in Workers, NEW x, x.job = job[w], job[w] \in Job,
             results' = results \union {x}, job' = [job EXCEPT ![w] = 0],
             UNCHANGED <<next, errors, files, failed>>
      PROVE  PlaceInv'
  <2>1. \A v \in Workers : job'[v] = IF v = w THEN 0 ELSE job[v]
    BY <1>2 DEF TypeOK
  <2>2. /\ \A y \in Records : y.job /= x.job
        /\ x.job \notin Failures
        /\ \A v \in Workers : v /= w => job[v] /= x.job
        /\ x.job \in Job /\ x.job /= 0
    BY <1>2, <1>0 DEF PlaceInv
  <2>3. Records' = Records \union {x} /\ Failures' = Failures
    BY <1>2
  <2>4. \A u, v \in Workers : job'[u] = job'[v] /\ job'[u] /= 0 => u = v
    BY <2>1 DEF PlaceInv
  <2>5. \A y, z \in Records' : y.job = z.job => y = z
    BY <2>2, <2>3 DEF PlaceInv
  <2>6. results' \intersect files' = {} /\ errors' \intersect failed' = {}
    BY <1>2, <2>2 DEF PlaceInv
  <2>7. \A y \in Records' : y.job \notin Failures'
    BY <2>2, <2>3 DEF PlaceInv
  <2>8. 0 \notin Failures /\ \A y \in Records : y.job /= 0
    BY <1>0
  <2>9. \A v \in Workers : job'[v] \notin Failures' /\ \A y \in Records' : y.job /= job'[v]
    BY <2>1, <2>2, <2>3, <2>8 DEF PlaceInv
  <2>10. ASSUME NEW j \in Job
         PROVE  j < next' <=> \/ \E v \in Workers : job'[v] = j
                              \/ \E y \in Records' : y.job = j
                              \/ j \in Failures'
    <3>1. j < next' <=> \/ \E v \in Workers : job[v] = j
                        \/ \E y \in Records : y.job = j
                        \/ j \in Failures
      BY <1>2 DEF PlaceInv
    <3>2. (\E y \in Records' : y.job = j) <=> (\E y \in Records : y.job = j) \/ j = x.job
      BY <2>3
    <3>3. (\E v \in Workers : job[v] = j) <=> (\E v \in Workers : job'[v] = j) \/ j = x.job
      <4>1. CASE j = x.job
        BY <1>2, <4>1
      <4>2. CASE j /= x.job
        BY <1>2, <2>1, <1>0, <4>2
      <4> QED BY <4>1, <4>2
    <3> QED BY <3>1, <3>2, <3>3, <2>3
  <2> QED BY <2>4, <2>5, <2>6, <2>7, <2>9, <2>10 DEF PlaceInv
<1>3. ASSUME NEW w \in Workers, job[w] \in Job,
             errors' = errors \union {job[w]}, job' = [job EXCEPT ![w] = 0],
             UNCHANGED <<next, results, files, failed>>
      PROVE  PlaceInv'
  <2>1. \A v \in Workers : job'[v] = IF v = w THEN 0 ELSE job[v]
    BY <1>3 DEF TypeOK
  <2>2. /\ \A y \in Records : y.job /= job[w]
        /\ job[w] \notin Failures
        /\ \A v \in Workers : v /= w => job[v] /= job[w]
        /\ job[w] /= 0
    BY <1>3, <1>0 DEF PlaceInv
  <2>3. Records' = Records /\ Failures' = Failures \union {job[w]}
    BY <1>3
  <2>4. \A u, v \in Workers : job'[u] = job'[v] /\ job'[u] /= 0 => u = v
    BY <2>1 DEF PlaceInv
  <2>5. \A y, z \in Records' : y.job = z.job => y = z
    BY <2>3 DEF PlaceInv
  <2>6. results' \intersect files' = {} /\ errors' \intersect failed' = {}
    BY <1>3, <2>2 DEF PlaceInv
  <2>7. \A y \in Records' : y.job \notin Failures'
    BY <2>2, <2>3 DEF PlaceInv
  <2>8. 0 \notin Failures /\ \A y \in Records : y.job /= 0
    BY <1>0
  <2>9. \A v \in Workers : job'[v] \notin Failures' /\ \A y \in Records' : y.job /= job'[v]
    BY <2>1, <2>2, <2>3, <2>8 DEF PlaceInv
  <2>10. ASSUME NEW j \in Job
         PROVE  j < next' <=> \/ \E v \in Workers : job'[v] = j
                              \/ \E y \in Records' : y.job = j
                              \/ j \in Failures'
    <3>1. j < next' <=> \/ \E v \in Workers : job[v] = j
                        \/ \E y \in Records : y.job = j
                        \/ j \in Failures
      BY <1>3 DEF PlaceInv
    <3>2. (\E v \in Workers : job[v] = j) <=> (\E v \in Workers : job'[v] = j) \/ j = job[w]
      <4>1. CASE j = job[w]
        BY <4>1
      <4>2. CASE j /= job[w]
        BY <2>1, <1>0, <4>2
      <4> QED BY <4>1, <4>2
    <3> QED BY <3>1, <3>2, <2>3
  <2> QED BY <2>4, <2>5, <2>6, <2>7, <2>9, <2>10 DEF PlaceInv
<1>4. ASSUME NEW w \in Workers, SendResult(w) PROVE PlaceInv'
  <2>1. job[w] \in Job
    BY <1>4, PathIsFile DEF SendResult, WorkerInv
  <2>2. [job |-> job[w], version |-> pre[w], got |-> got[w], status |-> Status(w)].job = job[w]
    OBVIOUS
  <2> QED BY <1>2, <1>4, <2>1, <2>2 DEF SendResult, collector
<1>5. ASSUME NEW w \in Workers, SendError(w) PROVE PlaceInv'
  <2>1. job[w] \in Job
    BY <1>5, PathIsFile DEF SendError, WorkerInv
  <2> QED BY <1>3, <1>5, <2>1 DEF SendError, collector
<1>6. CASE ReceiveResult
  <2>1. PICK x \in results : results' = results \ {x} /\ files' = files \union {x}
    BY <1>6 DEF ReceiveResult
  <2>2. UNCHANGED <<next, job, errors, failed>>
    BY <1>6 DEF ReceiveResult, workers
  <2>3. Records' = Records /\ Failures' = Failures
    BY <2>1, <2>2
  <2>4. results' \intersect files' = {}
    BY <2>1 DEF PlaceInv
  <2> HIDE DEF Records, Failures
  <2> QED BY <2>2, <2>3, <2>4 DEF PlaceInv
<1>7. CASE ReceiveError
  <2>1. PICK j \in errors : errors' = errors \ {j} /\ failed' = failed \union {j}
    BY <1>7 DEF ReceiveError
  <2>2. UNCHANGED <<next, job, results, files>>
    BY <1>7 DEF ReceiveError, workers
  <2>3. Records' = Records /\ Failures' = Failures
    BY <2>1, <2>2
  <2>4. errors' \intersect failed' = {}
    BY <2>1 DEF PlaceInv
  <2> HIDE DEF Records, Failures
  <2> QED BY <2>2, <2>3, <2>4 DEF PlaceInv
<1>8. CASE UNCHANGED <<next, job, results, errors, files, failed>>
  BY <1>8 DEF PlaceInv
<1>9. \/ UNCHANGED <<next, job, results, errors, files, failed>>
      \/ \E w \in Workers : HandOver(w) \/ SendResult(w) \/ SendError(w)
      \/ ReceiveResult \/ ReceiveError
  BY DEF Next, Worker, Feeder, Collector, CloseJobs, CloseResults, CloseErrors,
         WorkerEnds, LstatBefore, Open, Read, ReadFails, MoveTo, ResultsDone, ErrorsDone,
         Return, Modify, Finished, vars, workers, channels, collector
<1> QED BY <1>1, <1>4, <1>5, <1>6, <1>7, <1>8, <1>9

\* Versions are numbers.
LEMMA VersionsAreNumbers ==
  ASSUME TypeOK
  PROVE  /\ \A f \in File : version[f] \in Int
         /\ \A w \in Workers : pre[w] \in Int /\ opened[w] \in Int
         /\ \A w \in Workers : \A v \in got[w] : v \in Int
<1>1. /\ \A f \in File : version[f] \in 0..MaxChanges
      /\ \A w \in Workers : pre[w] \in 0..MaxChanges /\ opened[w] \in 0..MaxChanges
      /\ \A w \in Workers : got[w] \in SUBSET (0..MaxChanges)
  BY DEF TypeOK
<1> QED BY <1>1, ChangesAssumption

\* What a worker has seen stays between the same bounds while it waits: the
\* versions of the files only grow.
LEMMA SeesStays ==
  ASSUME TypeOK, TypeOK', WorkerInv, NEW w \in Workers, Sees(w),
         at'[w] = at[w], job'[w] = job[w], pre'[w] = pre[w], opened'[w] = opened[w],
         got'[w] = got[w], \A f \in File : version[f] <= version'[f]
  PROVE  Sees(w)'
<1>1. CASE at[w] \in {"idle", "ended"}
  BY <1>1 DEF Sees
<1>2. CASE at[w] \notin {"idle", "ended"}
  <2>1. path(w) \in File
    BY <1>2, PathIsFile DEF WorkerInv
  <2>2. path(w)' = path(w)
    BY DEF path
  <2>3. version[path(w)] \in Int /\ version'[path(w)] \in Int
        /\ version[path(w)] <= version'[path(w)]
    <3>1. version'[path(w)] \in 0..MaxChanges
      BY <2>1 DEF TypeOK
    <3> QED BY <2>1, <3>1, VersionsAreNumbers
  <2>4. /\ pre[w] \in Int /\ opened[w] \in Int
        /\ \A v \in got[w] : v \in Int
    BY VersionsAreNumbers
  <2> QED BY <2>2, <2>3, <2>4 DEF Sees, path
<1> QED BY <1>1, <1>2

\* A step of one worker is about that worker alone.
LEMMA OneWorkerMoves ==
  ASSUME TypeOK, TypeOK', WorkerInv, VersionInv, NEW w \in Workers,
         \A v \in Workers \ {w} :
            /\ at'[v] = at[v] /\ job'[v] = job[v] /\ pre'[v] = pre[v]
            /\ opened'[v] = opened[v] /\ got'[v] = got[v],
         UNCHANGED <<version, changes>>, Sees(w)', StableIsOneVersion'
  PROVE  VersionInv'
<1>1. \A f \in File : version[f] <= version'[f]
  BY VersionsAreNumbers
<1>2. ASSUME NEW v \in Workers \ {w} PROVE Sees(v)'
  BY <1>1, SeesStays DEF VersionInv
<1> QED BY <1>2 DEF VersionInv

\* The records and the versions stay in step with the files.
LEMMA VersionPreserved ==
  TypeOK /\ TypeOK' /\ WorkerInv /\ VersionInv /\ [Next]_vars => VersionInv'
<1> SUFFICES ASSUME TypeOK, TypeOK', WorkerInv, VersionInv, [Next]_vars PROVE VersionInv'
  OBVIOUS
<1>0. \A w \in Workers : Sees(w)
  BY DEF VersionInv
<1>a. ASSUME NEW w \in Workers, at[w] \notin {"idle", "ended"}
      PROVE  job[w] \in Job /\ path(w) \in File /\ version[path(w)] \in Int
  BY <1>a, PathIsFile, VersionsAreNumbers DEF WorkerInv
<1>b. ASSUME UNCHANGED <<results, files>> PROVE StableIsOneVersion'
  BY <1>b DEF VersionInv, StableIsOneVersion
<1>1. ASSUME NEW w \in Workers, HandOver(w) PROVE VersionInv'
  <2>1. UNCHANGED <<pre, opened, got, results, files, version, changes>>
    BY <1>1 DEF HandOver, channels, collector, disk
  <2>2. Sees(w)'
    BY <1>1 DEF HandOver, TypeOK, Sees
  <2> QED BY <1>1, <1>b, <2>1, <2>2, OneWorkerMoves DEF HandOver, TypeOK
<1>2. ASSUME NEW w \in Workers, WorkerEnds(w) PROVE VersionInv'
  <2>1. UNCHANGED <<job, pre, opened, got, results, files, version, changes>>
    BY <1>2 DEF WorkerEnds, channels, collector, disk
  <2>2. Sees(w)'
    BY <1>2 DEF WorkerEnds, TypeOK, Sees
  <2> QED BY <1>2, <1>b, <2>1, <2>2, OneWorkerMoves DEF WorkerEnds, TypeOK
<1>3. ASSUME NEW w \in Workers, NEW l, MoveTo(w, l)
      PROVE  /\ UNCHANGED <<job, results, files, version, changes>>
             /\ at'[w] = l /\ path(w)' = path(w)
             /\ \A v \in Workers \ {w} : at'[v] = at[v] /\ job'[v] = job[v]
             /\ StableIsOneVersion'
  <2>1. UNCHANGED <<job, results, files, version, changes>>
    BY <1>3 DEF MoveTo, channels, collector, disk
  <2> QED BY <1>3, <1>b, <2>1 DEF MoveTo, TypeOK, path
<1>4. ASSUME NEW w \in Workers, LstatBefore(w) PROVE VersionInv'
  <2>1. PICK l \in {"open", "fail"} : MoveTo(w, l)
    BY <1>4 DEF LstatBefore
  <2>2. pre' = [pre EXCEPT ![w] = version[path(w)]] /\ UNCHANGED <<opened, got>>
    BY <1>4 DEF LstatBefore
  <2>3. version[path(w)] \in Int
    BY <1>4, <1>a DEF LstatBefore
  <2>4. pre'[w] = version[path(w)] /\ \A v \in Workers \ {w} : pre'[v] = pre[v]
    BY <2>2 DEF TypeOK
  <2>5. Sees(w)'
    <3>1. at'[w] \in {"open", "fail"} /\ path(w)' = path(w) /\ version' = version
      BY <2>1, <1>3
    <3> QED BY <3>1, <2>3, <2>4 DEF Sees, path
  <2> QED BY <2>1, <2>2, <2>4, <2>5, <1>3, OneWorkerMoves
<1>5. ASSUME NEW w \in Workers, Open(w) PROVE VersionInv'
  <2>1. path(w) \in File /\ version[path(w)] \in Int /\ at[w] = "open"
    BY <1>5, <1>a DEF Open
  <2>2. PICK l \in {"read", "fail", "blocked"} : MoveTo(w, l)
    BY <1>5, <2>1, Opens
  <2>3. /\ opened' = [opened EXCEPT ![w] = version[path(w)]]
        /\ got' = [got EXCEPT ![w] = {}] /\ UNCHANGED pre
    BY <1>5 DEF Open
  <2>4. /\ opened'[w] = version[path(w)] /\ got'[w] = {}
        /\ \A v \in Workers \ {w} : opened'[v] = opened[v] /\ got'[v] = got[v]
    BY <2>3 DEF TypeOK
  <2>5. pre'[w] <= version[path(w)]
    BY <1>0, <2>1, <2>3 DEF Sees
  <2>6. Sees(w)'
    <3>1. /\ at'[w] \in {"read", "fail", "blocked"} /\ path(w)' = path(w)
          /\ version' = version
      BY <2>2, <1>3
    <3> QED BY <3>1, <2>1, <2>4, <2>5 DEF Sees, path
  <2> QED BY <2>2, <2>3, <2>4, <2>6, <1>3, OneWorkerMoves
<1>6. ASSUME NEW w \in Workers, Read(w) PROVE VersionInv'
  <2>1. version[path(w)] \in Int /\ at[w] \in {"read", "reread"}
    BY <1>6, <1>a DEF Read
  <2>2. PICK l \in {"reread", "relstat"} : MoveTo(w, l)
    BY <1>6 DEF Read
  <2>3. PICK v : /\ v = opened[w] \/ v = version[path(w)]
                 /\ got' = [got EXCEPT ![w] = @ \union {v}]
    BY <1>6 DEF Read
  <2>4. UNCHANGED <<pre, opened>>
    BY <1>6 DEF Read
  <2>5. /\ got'[w] = got[w] \union {v}
        /\ \A u \in Workers \ {w} : got'[u] = got[u]
    BY <2>3 DEF TypeOK
  <2>6. pre[w] <= opened[w] /\ opened[w] <= version[path(w)]
    BY <1>0, <2>1 DEF Sees
  <2>b. \A u \in got[w] : opened[w] <= u /\ u <= version[path(w)]
    BY <1>0, <2>1 DEF Sees
  <2>a. pre[w] \in Int /\ opened[w] \in Int
    BY VersionsAreNumbers
  <2>7. opened[w] <= v /\ v <= version[path(w)]
    BY <2>1, <2>3, <2>6, <2>a
  <2>8. pre[w] <= version[path(w)]
    BY <2>1, <2>6, <2>a
  <2>9. Sees(w)'
    BY <2>2, <2>4, <2>5, <2>6, <2>7, <2>8, <2>b, <1>3 DEF Sees
  <2> QED BY <2>2, <2>4, <2>5, <2>9, <1>3, OneWorkerMoves
<1>7. ASSUME NEW w \in Workers, ReadFails(w) PROVE VersionInv'
  <2>1. MoveTo(w, "fail") /\ UNCHANGED <<pre, opened, got>>
    BY <1>7 DEF ReadFails
  <2>2. Sees(w)'
    <3>1. at'[w] = "fail"
      BY <2>1, <1>3
    <3> QED BY <3>1 DEF Sees
  <2> QED BY <2>1, <2>2, <1>3, OneWorkerMoves
<1>8. ASSUME NEW w \in Workers, SendResult(w) PROVE VersionInv'
  <2> DEFINE x == [job |-> job[w], version |-> pre[w], got |-> got[w], status |-> Status(w)]
  <2>1. version[path(w)] \in Int /\ at[w] = "relstat"
    BY <1>8, <1>a DEF SendResult
  <2>2. ASSUME x.status = "stable" PROVE x.got = {x.version}
    <3>1. pre[w] = version[path(w)]
      BY <2>2 DEF Status
    <3>2. /\ got[w] /= {} /\ pre[w] <= opened[w] /\ opened[w] <= version[path(w)]
          /\ \A u \in got[w] : opened[w] <= u /\ u <= version[path(w)]
      BY <1>0, <2>1 DEF Sees
    <3>3. \A u \in got[w] : u = pre[w]
      BY <3>1, <3>2, VersionsAreNumbers
    <3> QED BY <3>2, <3>3
  <2>3. results' = results \union {x} /\ UNCHANGED <<pre, opened, got, files, version, changes>>
    BY <1>8 DEF SendResult, collector, disk
  <2>4. StableIsOneVersion'
    <3> HIDE DEF x
    <3> QED BY <2>2, <2>3 DEF VersionInv, StableIsOneVersion
  <2>5. /\ at' = [at EXCEPT ![w] = "idle"] /\ job' = [job EXCEPT ![w] = 0]
    BY <1>8 DEF SendResult
  <2>6. Sees(w)'
    BY <2>5 DEF Sees, TypeOK
  <2> QED BY <2>3, <2>4, <2>5, <2>6, OneWorkerMoves DEF TypeOK
<1>9. ASSUME NEW w \in Workers, SendError(w) PROVE VersionInv'
  <2>1. /\ at' = [at EXCEPT ![w] = "idle"] /\ job' = [job EXCEPT ![w] = 0]
        /\ UNCHANGED <<pre, opened, got, results, files, version, changes>>
    BY <1>9 DEF SendError, collector, disk
  <2>2. Sees(w)'
    BY <2>1 DEF Sees, TypeOK
  <2> QED BY <2>1, <2>2, <1>b, OneWorkerMoves DEF TypeOK
<1>10. CASE ReceiveResult
  <2>1. results' \union files' = results \union files
    BY <1>10 DEF ReceiveResult
  <2>2. UNCHANGED <<workers, disk>>
    BY <1>10 DEF ReceiveResult
  <2>3. StableIsOneVersion'
    BY <2>1 DEF VersionInv, StableIsOneVersion
  <2> QED BY <2>2, <2>3 DEF workers, disk, VersionInv, Sees, path
<1>11. ASSUME NEW f \in File, Modify(f) PROVE VersionInv'
  <2>1. /\ changes' = changes + 1 /\ version' = [version EXCEPT ![f] = changes + 1]
        /\ UNCHANGED <<workers, results, files>>
    BY <1>11 DEF Modify, channels, collector
  <2>2. \A g \in File : version[g] <= changes /\ version[g] \in Int /\ changes \in Int
    BY VersionsAreNumbers, Numbers DEF VersionInv
  <2>3. \A g \in File : version'[g] = IF g = f THEN changes + 1 ELSE version[g]
    BY <2>1 DEF TypeOK
  <2>4. \A g \in File : version[g] <= version'[g] /\ version'[g] <= changes'
    BY <2>1, <2>2, <2>3
  <2>5. \A w \in Workers : Sees(w)'
    BY <1>0, <2>1, <2>4, SeesStays DEF workers
  <2> QED BY <1>b, <2>1, <2>4, <2>5 DEF VersionInv
<1>12. CASE UNCHANGED <<workers, results, files, version, changes>>
  BY <1>12 DEF workers, VersionInv, StableIsOneVersion, Sees, path
<1>13. \/ \E w \in Workers : \/ HandOver(w) \/ WorkerEnds(w) \/ LstatBefore(w) \/ Open(w)
                             \/ Read(w) \/ ReadFails(w) \/ SendResult(w) \/ SendError(w)
       \/ ReceiveResult \/ \E f \in File : Modify(f)
       \/ UNCHANGED <<workers, results, files, version, changes>>
  BY DEF Next, Worker, Feeder, Collector, CloseJobs, CloseResults, CloseErrors, ReceiveError,
         ResultsDone, ErrorsDone, Return, Finished, vars, channels, collector, disk
<1> QED BY <1>1, <1>2, <1>4, <1>5, <1>6, <1>7, <1>8, <1>9, <1>10, <1>11, <1>12, <1>13

\* Every step preserves the inductive invariant.
LEMMA NextIInv == IInv /\ [Next]_vars => IInv'
BY FinitePreserved, TypePreserved, WorkerPreserved, ClosingPreserved, PlacePreserved,
   VersionPreserved DEF IInv

\* IInv holds throughout; the theorems below follow from it.
THEOREM Inductive == Spec => []IInv
<1>1. Init => IInv
  BY InitIInv
<1>2. IInv /\ [Next]_vars => IInv'
  BY NextIInv
<1> QED BY <1>1, <1>2, PTL DEF Spec

\* The variables keep their types, and no channel holds more than its buffer.
THEOREM TypeCorrect == Spec => []TypeOK
<1>1. IInv => TypeOK
  BY DEF IInv
<1> QED BY <1>1, Inductive, PTL

\* A record called stable is of one version of its file.
THEOREM StableMeansStable == Spec => []StableIsOneVersion
<1>1. IInv => StableIsOneVersion
  BY DEF IInv, VersionInv
<1> QED BY <1>1, Inductive, PTL

\* A job handed over is in exactly one place, and Create returns only when it is
\* in the manifest.
THEOREM NothingLostOrTwice == Spec => []EachPathInOnePlace
<1>1. IInv => EachPathInOnePlace
  <2> SUFFICES ASSUME IInv, NEW j \in Job
               PROVE  /\ j >= next => Places(j) = {}
                      /\ j < next => \E p \in Places(j) : Places(j) = {p}
                      /\ returned => \E p \in Places(j) : p[1] \in {"files", "failed"}
    BY DEF EachPathInOnePlace
  <2> USE DEF Records, Failures
  <2>1. PlaceInv /\ WorkerInv /\ ClosingInv /\ TypeOK
    BY DEF IInv
  <2>2. j \in Int /\ j /= 0 /\ j <= Count /\ next \in Int
    BY <2>1, Numbers, CountAssumption DEF Job
  <2>3. j < next <=> \/ \E w \in Workers : job[w] = j
                     \/ \E x \in Records : x.job = j
                     \/ j \in Failures
    BY <2>1 DEF PlaceInv
  <2>4. ASSUME j >= next PROVE Places(j) = {}
    BY <2>2, <2>3, <2>4 DEF Places
  <2>5. ASSUME j < next PROVE \E p \in Places(j) : Places(j) = {p}
    <3>1. CASE \E w \in Workers : job[w] = j
      <4>1. PICK w \in Workers : job[w] = j
        BY <3>1
      <4>2. /\ \A v \in Workers : job[v] = j => v = w
            /\ \A x \in Records : x.job /= j
            /\ j \notin Failures
        BY <4>1, <2>1, <2>2 DEF PlaceInv
      <4>3. Places(j) = {<<"worker", w>>}
        BY <4>1, <4>2 DEF Places
      <4> QED BY <4>3
    <3>2. CASE \E x \in Records : x.job = j
      <4>1. PICK x \in Records : x.job = j
        BY <3>2
      <4>2. /\ \A v \in Workers : job[v] /= j
            /\ \A y \in Records : y.job = j => y = x
            /\ j \notin Failures
        BY <4>1, <2>1 DEF PlaceInv
      <4>3. CASE x \in results
        <5>1. x \notin files
          BY <4>3, <2>1 DEF PlaceInv
        <5>2. Places(j) = {<<"results", x>>}
          BY <4>1, <4>2, <4>3, <5>1 DEF Places
        <5> QED BY <5>2
      <4>4. CASE x \notin results
        <5>1. x \in files
          BY <4>4, <4>1
        <5>2. Places(j) = {<<"files", x>>}
          BY <4>1, <4>2, <4>4, <5>1 DEF Places
        <5> QED BY <5>2
      <4> QED BY <4>3, <4>4
    <3>3. CASE j \in Failures
      <4>1. /\ \A v \in Workers : job[v] /= j
            /\ \A y \in Records : y.job /= j
        BY <3>3, <2>1 DEF PlaceInv
      <4>2. CASE j \in errors
        <5>1. j \notin failed
          BY <4>2, <2>1 DEF PlaceInv
        <5>2. Places(j) = {<<"errors", j>>}
          BY <4>1, <4>2, <5>1 DEF Places
        <5> QED BY <5>2
      <4>3. CASE j \notin errors
        <5>1. j \in failed
          BY <4>3, <3>3
        <5>2. Places(j) = {<<"failed", j>>}
          BY <4>1, <4>3, <5>1 DEF Places
        <5> QED BY <5>2
      <4> QED BY <4>2, <4>3
    <3> QED BY <2>3, <2>5, <3>1, <3>2, <3>3
  <2>6. ASSUME returned PROVE \E p \in Places(j) : p[1] \in {"files", "failed"}
    <3>1. results = {} /\ errors = {} /\ ~resultsOpen
      BY <2>1, <2>6 DEF ClosingInv
    <3>2. next = Count + 1 /\ \A w \in Workers : at[w] = "ended"
      BY <2>1, <3>1 DEF ClosingInv
    <3>3. \A w \in Workers : job[w] /= j
      BY <2>1, <2>2, <3>2 DEF WorkerInv
    <3>4. j < next
      BY <2>2, <3>2, CountAssumption
    <3>5. CASE \E x \in files : x.job = j
      <4>1. PICK x \in files : x.job = j
        BY <3>5
      <4>2. <<"files", x>> \in Places(j)
        BY <4>1 DEF Places
      <4> QED BY <4>2
    <3>6. CASE j \in failed
      <4>1. <<"failed", j>> \in Places(j)
        BY <3>6 DEF Places
      <4> QED BY <4>1
    <3> QED BY <2>3, <3>1, <3>3, <3>4, <3>5, <3>6
  <2> QED BY <2>4, <2>5, <2>6
<1> QED BY <1>1, Inductive, PTL

\* Each send of a worker finds its channel open and with room in it: the channels are
\* closed after the last worker, and the other jobs are too few to fill them.
THEOREM EverySendSucceeds == Spec => []SendsSucceed
<1>1. IInv => SendsSucceed
  <2> SUFFICES ASSUME IInv, NEW w \in Workers, job[w] /= 0
               PROVE  /\ resultsOpen /\ Cardinality(results) < Buffer
                      /\ errorsOpen /\ Cardinality(errors) < Buffer
    BY DEF SendsSucceed, Buffer
  <2>0. resultsOpen /\ errorsOpen
    BY DEF IInv, WorkerInv, ClosingInv
  <2>1. PlaceInv /\ TypeOK /\ FiniteInv /\ job[w] \in Job
    BY PathIsFile DEF IInv
  <2> DEFINE Others == Job \ {job[w]}
  <2>2. IsFiniteSet(Others) /\ Cardinality(Others) < Count
    <3>1. IsFiniteSet(Job) /\ Cardinality(Job) = Count
      BY FS_Interval, CountAssumption DEF Job
    <3>2. IsFiniteSet(Others) /\ Cardinality(Others) = Count - 1
      BY <3>1, <2>1, FS_RemoveElement
    <3> QED BY <3>2, CountAssumption
  <2>3. Cardinality(errors) <= Cardinality(Others)
    <3>1. errors \in SUBSET Others
      BY <2>1 DEF PlaceInv, Failures, TypeOK
    <3> QED BY <3>1, <2>2, FS_Subset
  <2>4. Cardinality(results) <= Cardinality(Others)
    <3> DEFINE f == [x \in results |-> x.job]
    <3>1. \A x \in results : x.job \in Others
      BY <2>1 DEF PlaceInv, Records, TypeOK, Record
    <3>2. \A x, y \in results : x.job = y.job => x = y
      BY <2>1 DEF PlaceInv, Records
    <3>3. f \in Injection(results, Others)
      BY <3>1, <3>2 DEF Injection, IsInjective
    <3> HIDE DEF f
    <3> QED BY <3>3, <2>2, FS_Injection
  <2>5. /\ Cardinality(errors) \in Nat /\ Cardinality(results) \in Nat
        /\ Cardinality(Others) \in Nat
    BY <2>1, <2>2, FS_CardinalityType DEF FiniteInv
  <2> QED BY <2>0, <2>2, <2>3, <2>4, <2>5, CountAssumption DEF Buffer
<1> QED BY <1>1, Inductive, PTL
=============================================================================
