--------------------------- MODULE MacossecProofs ---------------------------
(***************************************************************************)
(* The two tools of internal/macossec that take steps.  For any processes  *)
(* that come and go between any number of samples, tjt reports exactly the *)
(* unbroken stretches of samples that a PID was in.  Any number of runs of *)
(* clt --apply over any tree, however they overlap, overwrite nothing in   *)
(* the quarantine and leave no hidden copy behind.                         *)
(***************************************************************************)
EXTENDS JobTracker, Quarantine, TLAPS

-----------------------------------------------------------------------------
\* tjt: jobs are stretches of samples.

Table == [Pids -> Commands \union {Free}]
Times == Nat \ {0}
Stretch == [first : Times, last : Times, command : Commands]
JobRecord == [pid : Pids, first : Times, last : Times, command : Commands]

\* The types of all variables.
TrackTypeInv ==
    /\ running \in Table /\ turnover \in 0..MaxTurnover
    /\ samples \in Seq(Table) /\ Len(samples) <= MaxSamples
    /\ active \in [Pids -> Stretch \union {Gone}]
    /\ jobs \in Seq(SUBSET JobRecord) /\ Len(jobs) = Len(samples)
    /\ trackExit \in {-1, 0, 4}

\* What is active is the stretch that the PID is in at the last sample.
ActiveInv == \A p \in Pids :
    IF samples = <<>> THEN active[p] = Gone
    ELSE IF samples[Len(samples)][p] = Free THEN active[p] = Gone
    ELSE /\ active[p] /= Gone
         /\ active[p].first \in 1..Len(samples) /\ active[p].last = Len(samples)
         /\ active[p].command = samples[Len(samples)][p]
         /\ Interval(samples, p, active[p].first, Len(samples))

\* The inductive invariant.
TrackIInv == TrackTypeInv /\ ActiveInv /\ JobsAreIntervals

\* Nothing that was seen is the stretch of a PID that was not.
LEMMA GoneIsNone == ASSUME NEW x \in Stretch PROVE x /= Gone
<1>1. x.first /= 0 /\ Gone.first = 0
  BY DEF Stretch, Times, Gone
<1> QED BY <1>1

\* A sample more does not change a stretch that had ended before.
LEMMA EndedStretch ==
    ASSUME NEW s \in Seq(Table), NEW t \in Table, NEW p \in Pids,
           NEW last \in 1..(Len(s) - 1), NEW first \in 1..last
    PROVE  Interval(Append(s, t), p, first, last) <=> Interval(s, p, first, last)
<1> DEFINE u == Append(s, t)
<1>1. Len(u) = Len(s) + 1 /\ \A i \in 1..Len(s) : u[i] = s[i]
  OBVIOUS
<1> HIDE DEF u
<1>2. \A i \in first..last : u[i] = s[i]
  BY <1>1
<1>3. first > 1 => u[first - 1] = s[first - 1]
  BY <1>1
<1>4. u[last + 1] = s[last + 1] /\ last < Len(s) /\ last < Len(u)
  BY <1>1
<1> QED BY <1>2, <1>3, <1>4 DEF Interval, u

\* One that reached the last sample ends there when the PID is not seen again.
LEMMA OpenStretch ==
    ASSUME NEW s \in Seq(Table), NEW t \in Table, s /= <<>>, NEW p \in Pids,
           NEW first \in 1..Len(s)
    PROVE  Interval(Append(s, t), p, first, Len(s))
             <=> Interval(s, p, first, Len(s)) /\ t[p] = Free
<1> DEFINE u == Append(s, t)
<1>1. Len(u) = Len(s) + 1 /\ u[Len(s) + 1] = t /\ \A i \in 1..Len(s) : u[i] = s[i]
  OBVIOUS
<1> HIDE DEF u
<1>2. \A i \in first..Len(s) : u[i] = s[i]
  BY <1>1
<1>3. first > 1 => u[first - 1] = s[first - 1]
  BY <1>1
<1> QED BY <1>1, <1>2, <1>3 DEF Interval, u

\* One reaches the new sample when the PID is seen in it, and began where it did, or
\* there.
LEMMA LongerStretch ==
    ASSUME NEW s \in Seq(Table), NEW t \in Table, NEW p \in Pids,
           NEW first \in 1..(Len(s) + 1)
    PROVE  Interval(Append(s, t), p, first, Len(s) + 1) <=>
             /\ t[p] /= Free
             /\ IF first = Len(s) + 1 THEN s /= <<>> => s[Len(s)][p] = Free
                ELSE Interval(s, p, first, Len(s))
<1> DEFINE u == Append(s, t)
<1>1. Len(u) = Len(s) + 1 /\ u[Len(s) + 1] = t /\ \A i \in 1..Len(s) : u[i] = s[i]
  OBVIOUS
<1> HIDE DEF u
<1>2. CASE first = Len(s) + 1
  <2>1. s /= <<>> <=> first > 1
    BY <1>2
  <2>2. first > 1 => u[first - 1] = s[Len(s)]
    BY <1>1, <1>2
  <2>3. \A i \in first..(Len(s) + 1) : i = Len(s) + 1
    BY <1>2
  <2> QED BY <1>1, <1>2, <2>1, <2>2, <2>3 DEF Interval, u
<1>3. CASE first \in 1..Len(s)
  <2>1. \A i \in first..Len(s) : u[i] = s[i]
    BY <1>1
  <2>2. first > 1 => u[first - 1] = s[first - 1]
    BY <1>1, <1>3
  <2>3. \A i : i \in first..(Len(s) + 1) <=> i \in first..Len(s) \/ i = Len(s) + 1
    BY <1>3
  <2>4. first /= Len(s) + 1
    BY <1>3
  <2> QED BY <1>1, <2>1, <2>2, <2>3, <2>4 DEF Interval, u
<1> QED BY <1>2, <1>3

\* Two stretches that reach the same sample are one.
LEMMA OneStretch ==
    ASSUME NEW s \in Seq(Table), NEW p \in Pids, NEW last \in 1..Len(s),
           NEW f \in 1..last, NEW g \in 1..last,
           Interval(s, p, f, last), Interval(s, p, g, last)
    PROVE  f = g
<1>1. ASSUME NEW a \in 1..last, NEW b \in 1..last,
             Interval(s, p, a, last), Interval(s, p, b, last), a < b
      PROVE  FALSE
  <2>1. b > 1 /\ b - 1 \in a..last
    BY <1>1
  <2> QED BY <1>1, <2>1 DEF Interval
<1> QED BY <1>1

\* What Observe makes of each PID.
LEMMA ObserveType ==
    ASSUME TrackTypeInv, NEW p \in Pids
    PROVE  /\ Observe(p) \in Stretch \union {Gone}
           /\ ~Seen(p) => Observe(p) = Gone
           /\ Seen(p) /\ ~Known(p) => Observe(p) = [first |-> current, last |-> current, command |-> running[p]]
           /\ Seen(p) /\ Known(p) => Observe(p) = [first |-> active[p].first, last |-> current,
                                                  command |-> running[p]]
<1>1. current \in Times
  BY DEF current, TrackTypeInv, Times
<1>2. running[p] \in Commands \union {Free} /\ (Seen(p) => running[p] \in Commands)
  BY DEF TrackTypeInv, Table, Seen
<1>3. Known(p) => active[p] \in Stretch
  BY DEF Known, TrackTypeInv
<1>4. CASE ~Seen(p)
  BY <1>4 DEF Observe, Kept
<1>5. CASE Seen(p) /\ ~Known(p)
  <2>1. Observe(p) = [first |-> current, last |-> current, command |-> running[p]]
    BY <1>5 DEF Observe
  <2> QED BY <1>1, <1>2, <1>5, <2>1 DEF Stretch
<1>6. CASE Seen(p) /\ Known(p)
  <2>1. Observe(p) = [active[p] EXCEPT !.last = current, !.command = running[p]]
    BY <1>6 DEF Observe
  <2>2. active[p] \in [first : Times, last : Times, command : Commands]
    BY <1>3, <1>6 DEF Stretch
  <2>4. Observe(p) = [first |-> active[p].first, last |-> current, command |-> running[p]]
    BY <2>1, <2>2
  <2>3. active[p].first \in Times
    BY <1>3, <1>6 DEF Stretch
  <2> QED BY <1>1, <1>2, <1>6, <2>3, <2>4 DEF Stretch
<1> QED BY <1>4, <1>5, <1>6

\* A sample keeps the types.
LEMMA SampleTypes ==
    ASSUME TrackTypeInv, Sample
    PROVE  TrackTypeInv'
<1>1. samples' \in Seq(Table) /\ Len(samples') = Len(samples) + 1 /\ Len(samples') <= MaxSamples
  BY CommandsAssumption DEF Sample, TrackTypeInv
<1>2. active' \in [Pids -> Stretch \union {Gone}]
  BY ObserveType DEF Sample
<1>3. {Job(p) : p \in EndedNow} \in SUBSET JobRecord
  <2>1. ASSUME NEW p \in EndedNow PROVE Job(p) \in JobRecord
    <3>1. p \in Pids /\ active[p] \in Stretch
      BY DEF EndedNow, Known, TrackTypeInv
    <3> QED BY <3>1 DEF Job, JobRecord, Stretch
  <2> QED BY <2>1
<1>4. jobs' \in Seq(SUBSET JobRecord) /\ Len(jobs') = Len(samples')
  BY <1>1, <1>3 DEF Sample, TrackTypeInv
<1> QED BY <1>1, <1>2, <1>4 DEF Sample, TrackTypeInv

\* A sample leaves active what the PIDs are in current.
LEMMA SampleActive ==
    ASSUME TrackIInv, Sample
    PROVE  ActiveInv'
<1>1. /\ samples \in Seq(Table) /\ running \in Table /\ samples' = Append(samples, running)
      /\ current = Len(samples) + 1
      /\ active' = [p \in Pids |-> Observe(p)]
  BY DEF Sample, TrackIInv, TrackTypeInv, current
<1>2. samples' /= <<>> /\ Len(samples') = current /\ samples'[current] = running
  BY <1>1
<1>3. ASSUME NEW p \in Pids
      PROVE  IF running[p] = Free THEN active'[p] = Gone
             ELSE /\ active'[p] /= Gone
                  /\ active'[p].first \in 1..current /\ active'[p].last = current
                  /\ active'[p].command = running[p]
                  /\ Interval(samples', p, active'[p].first, current)
  <2>1. active'[p] = Observe(p) /\ Observe(p) \in Stretch \union {Gone}
    BY <1>1, ObserveType DEF TrackIInv
  <2>2. CASE ~Seen(p)
    BY <2>1, <2>2, ObserveType DEF Seen, TrackIInv
  <2>3. CASE Seen(p) /\ ~Known(p)
    <3>1. active'[p] = [first |-> current, last |-> current, command |-> running[p]]
      BY <2>1, <2>3, ObserveType DEF TrackIInv
    <3>2. samples /= <<>> => samples[Len(samples)][p] = Free
      BY <2>3 DEF TrackIInv, ActiveInv, Known
    <3>3. Len(samples) + 1 \in 1..(Len(samples) + 1) /\ current \in 1..current
      BY <1>1
    <3>4. Interval(samples', p, current, current)
      BY <1>1, <2>3, <3>2, <3>3, LongerStretch DEF Seen
    <3>5. active'[p].first = current /\ active'[p].last = current /\ active'[p].command = running[p]
      BY <3>1
    <3>6. active'[p] /= Gone
      BY <1>1, <3>5 DEF Gone
    <3> QED BY <2>3, <3>3, <3>4, <3>5, <3>6 DEF Seen
  <2>4. CASE Seen(p) /\ Known(p)
    <3>1. active'[p] = [first |-> active[p].first, last |-> current, command |-> running[p]]
      BY <2>1, <2>4, ObserveType DEF TrackIInv
    <3>2. /\ samples /= <<>> /\ active[p].first \in 1..Len(samples)
          /\ Interval(samples, p, active[p].first, Len(samples))
      BY <2>4 DEF TrackIInv, ActiveInv, Known
    <3>3. active[p].first \in 1..(Len(samples) + 1) /\ active[p].first /= Len(samples) + 1
      BY <1>1, <3>2
    <3>4. Interval(samples', p, active[p].first, current)
      BY <1>1, <2>4, <3>2, <3>3, LongerStretch DEF Seen
    <3>5. active'[p].first = active[p].first /\ active'[p].last = current /\ active'[p].command = running[p]
      BY <3>1
    <3>6. active'[p] /= Gone
      BY <1>1, <3>5 DEF Gone
    <3> QED BY <1>1, <2>4, <3>3, <3>4, <3>5, <3>6 DEF Seen
  <2> QED BY <2>2, <2>3, <2>4
<1> QED BY <1>2, <1>3 DEF ActiveInv

\* What a sample reports, and what earlier samples did, is right.
LEMMA SampleReports ==
    ASSUME TrackIInv, Sample, NEW i \in DOMAIN jobs', NEW j \in jobs'[i]
    PROVE  /\ j.first \in 1..j.last /\ Interval(samples', j.pid, j.first, j.last)
           /\ i = j.last + 1 /\ j.command = samples'[j.last][j.pid]
<1>1. /\ samples \in Seq(Table) /\ running \in Table /\ samples' = Append(samples, running)
      /\ jobs \in Seq(SUBSET JobRecord) /\ Len(jobs) = Len(samples)
      /\ jobs' = Append(jobs, {Job(p) : p \in EndedNow})
  BY DEF Sample, TrackIInv, TrackTypeInv
<1>2. \A n \in 1..Len(samples) : samples'[n] = samples[n]
  BY <1>1
<1>3. CASE i \in DOMAIN jobs
  <2>1. j \in jobs[i] /\ j \in JobRecord /\ i \in 1..Len(samples)
    BY <1>1, <1>3
  <2>2. /\ j.first \in 1..j.last /\ Interval(samples, j.pid, j.first, j.last)
        /\ i = j.last + 1 /\ j.command = samples[j.last][j.pid]
    BY <1>3, <2>1 DEF TrackIInv, JobsAreIntervals
  <2>3. j.pid \in Pids /\ j.last \in Nat
    BY <2>1 DEF JobRecord, Times
  <2>4. j.last \in 1..(Len(samples) - 1)
    BY <1>1, <2>1, <2>2, <2>3
  <2>5. Interval(samples', j.pid, j.first, j.last)
    BY <1>1, <2>2, <2>3, <2>4, EndedStretch
  <2> QED BY <1>1, <1>2, <2>2, <2>4, <2>5
<1>4. CASE i = Len(jobs) + 1
  <2>1. PICK p \in EndedNow : j = Job(p)
    BY <1>1, <1>4
  <2>2. p \in Pids /\ active[p] /= Gone /\ running[p] = Free
    BY <2>1 DEF EndedNow, Known, Seen
  <2>3. /\ samples /= <<>> /\ active[p].first \in 1..Len(samples)
        /\ active[p].last = Len(samples) /\ active[p].command = samples[Len(samples)][p]
        /\ Interval(samples, p, active[p].first, Len(samples))
    BY <2>2 DEF TrackIInv, ActiveInv
  <2>4. Interval(samples', p, active[p].first, Len(samples))
    BY <1>1, <2>2, <2>3, OpenStretch
  <2>5. /\ j.pid = p /\ j.first = active[p].first /\ j.last = Len(samples)
        /\ j.command = samples[Len(samples)][p]
    BY <2>1, <2>3 DEF Job
  <2>6. Len(samples) \in 1..Len(samples)
    BY <1>1, <2>3
  <2> QED BY <1>1, <1>2, <1>4, <2>3, <2>4, <2>5, <2>6
<1>5. i \in DOMAIN jobs \/ i = Len(jobs) + 1
  BY <1>1
<1> QED BY <1>3, <1>4, <1>5

\* Nothing that ended goes unreported, and nothing that has not is forgotten.
LEMMA SampleMisses ==
    ASSUME TrackIInv, TrackTypeInv', ActiveInv', Sample, NEW p \in Pids,
           NEW last \in 1..Len(samples'), NEW first \in 1..last, Interval(samples', p, first, last)
    PROVE  IF last = Len(samples')
           THEN active'[p] = [first |-> first, last |-> last, command |-> samples'[last][p]]
           ELSE [pid |-> p, first |-> first, last |-> last, command |-> samples'[last][p]]
                  \in jobs'[last + 1]
<1>1. /\ samples \in Seq(Table) /\ running \in Table /\ samples' = Append(samples, running)
      /\ jobs \in Seq(SUBSET JobRecord) /\ Len(jobs) = Len(samples)
      /\ jobs' = Append(jobs, {Job(q) : q \in EndedNow})
  BY DEF Sample, TrackIInv, TrackTypeInv
<1>2. Len(samples') = Len(samples) + 1 /\ samples'[Len(samples) + 1] = running
      /\ \A n \in 1..Len(samples) : samples'[n] = samples[n]
  BY <1>1
<1>3. CASE last = Len(samples) + 1
  <2> DEFINE f == active'[p].first
  <2>1. running[p] /= Free
    BY <1>1, <1>3, LongerStretch
  <2>2. /\ active'[p] /= Gone /\ f \in 1..last /\ active'[p].last = last
        /\ active'[p].command = running[p] /\ Interval(samples', p, f, last)
    BY <1>1, <1>2, <1>3, <2>1 DEF ActiveInv
  <2>3. samples' \in Seq(Table) /\ last \in 1..Len(samples')
    BY <1>1
  <2> HIDE DEF f
  <2>4. f = first
    BY <2>2, <2>3, OneStretch
  <2>5. active'[p] \in Stretch
    BY <2>2 DEF TrackTypeInv
  <2>6. active'[p] = [first |-> active'[p].first, last |-> active'[p].last, command |-> active'[p].command]
    BY <2>5 DEF Stretch
  <2> QED BY <1>2, <1>3, <2>2, <2>4, <2>6 DEF f
<1>4. CASE last = Len(samples)
  <2>1. samples /= <<>> /\ first \in 1..Len(samples)
    BY <1>1, <1>4
  <2>2. Interval(samples, p, first, Len(samples)) /\ running[p] = Free
    BY <1>1, <1>4, <2>1, OpenStretch
  <2>3. active[p] = [first |-> first, last |-> last, command |-> samples[last][p]]
    <3>1. last \in 1..Len(samples) /\ Interval(samples, p, first, last)
      BY <1>1, <1>4, <2>1, <2>2
    <3>2. JobsAreIntervals
      BY DEF TrackIInv
    <3> QED BY <1>4, <3>1, <3>2 DEF JobsAreIntervals
  <2>4. active[p].first = first /\ Gone.first = 0 /\ first /= 0
    BY <2>3 DEF Gone
  <2>5. p \in EndedNow
    BY <2>2, <2>4 DEF EndedNow, Known, Seen
  <2>6. Job(p) = [pid |-> p, first |-> first, last |-> last, command |-> samples[last][p]]
    BY <2>3 DEF Job
  <2>7. jobs'[last + 1] = {Job(q) : q \in EndedNow} /\ samples'[last] = samples[last]
    BY <1>1, <1>2, <1>4, <2>1
  <2>8. last /= Len(samples')
    BY <1>2, <1>4, <1>1
  <2> QED BY <2>5, <2>6, <2>7, <2>8
<1>5. CASE last < Len(samples)
  <2>1. last \in 1..(Len(samples) - 1) /\ last \in 1..Len(samples) /\ last /= Len(samples)
        /\ last /= Len(samples')
    BY <1>1, <1>2, <1>5
  <2>2. Interval(samples, p, first, last)
    BY <1>1, <2>1, EndedStretch
  <2>3. [pid |-> p, first |-> first, last |-> last, command |-> samples[last][p]] \in jobs[last + 1]
    BY <2>1, <2>2 DEF TrackIInv, JobsAreIntervals
  <2>4. last + 1 \in 1..Len(jobs) /\ jobs'[last + 1] = jobs[last + 1] /\ samples'[last] = samples[last]
    BY <1>1, <1>2, <2>1
  <2> QED BY <2>1, <2>3, <2>4
<1> QED BY <1>1, <1>2, <1>3, <1>4, <1>5

\* Before the first sample nothing is active, and nothing reported.
LEMMA TrackInitIInv == TrackInit => TrackIInv
<1> SUFFICES ASSUME TrackInit PROVE TrackIInv
  OBVIOUS
<1>1. TrackTypeInv
  BY CommandsAssumption DEF TrackInit, TrackTypeInv, Table
<1>2. ActiveInv /\ JobsAreIntervals
  BY DEF TrackInit, ActiveInv, JobsAreIntervals
<1> QED BY <1>1, <1>2 DEF TrackIInv

\* Only a sample changes what is seen, active or reported.
LEMMA TrackNextIInv == TrackIInv /\ [TrackNext]_trackVars => TrackIInv'
<1> SUFFICES ASSUME TrackIInv, [TrackNext]_trackVars PROVE TrackIInv'
  OBVIOUS
<1>1. CASE Sample
  <2>1. TrackTypeInv'
    BY <1>1, SampleTypes DEF TrackIInv
  <2>2. ActiveInv'
    BY <1>1, SampleActive
  <2>3. JobsAreIntervals'
    BY <1>1, <2>1, <2>2, SampleReports, SampleMisses DEF JobsAreIntervals
  <2> QED BY <2>1, <2>2, <2>3 DEF TrackIInv
<1>2. CASE ~Sample
  <2>1. UNCHANGED <<samples, active, jobs>>
    BY <1>2 DEF TrackNext, TrackStep, SampleFails, Deadline, Start, Stop, trackVars
  <2>2. running' \in Table /\ turnover' \in 0..MaxTurnover /\ trackExit' \in {-1, 0, 4}
    BY <1>2, CommandsAssumption
    DEF TrackNext, TrackStep, SampleFails, Deadline, Start, Stop, trackVars, TrackIInv, TrackTypeInv, Table
  <2> QED BY <2>1, <2>2 DEF TrackIInv, TrackTypeInv, ActiveInv, JobsAreIntervals
<1> QED BY <1>1, <1>2

\* The invariant is enough for the module's types.
LEMMA TrackTypesSuffice == TrackIInv => TrackTypeOK
<1> SUFFICES ASSUME TrackIInv PROVE TrackTypeOK
  OBVIOUS
<1>1. ASSUME NEW p \in Pids
      PROVE  active[p] \in [first : 0..MaxSamples, last : 0..MaxSamples, command : Commands \union {Free}]
  <2>1. CASE active[p] = Gone
    BY <2>1, CommandsAssumption DEF Gone
  <2>2. CASE active[p] /= Gone
    <3>1. active[p] \in Stretch /\ active[p].first \in 1..Len(samples) /\ active[p].last = Len(samples)
      BY <2>2 DEF TrackIInv, TrackTypeInv, ActiveInv
    <3>2. Len(samples) \in 0..MaxSamples /\ 1..Len(samples) \subseteq 0..MaxSamples
      BY CommandsAssumption DEF TrackIInv, TrackTypeInv
    <3>3. active[p].first \in 0..MaxSamples /\ active[p].last \in 0..MaxSamples
      BY <3>1, <3>2
    <3> QED BY <3>1, <3>3 DEF Stretch
  <2> QED BY <2>1, <2>2
<1>2. ASSUME NEW i \in DOMAIN jobs, NEW j \in jobs[i]
      PROVE  j \in [pid : Pids, first : 1..MaxSamples, last : 1..MaxSamples, command : Commands]
  <2>1. j \in JobRecord /\ i \in 1..Len(samples) /\ Len(samples) \in Nat /\ Len(samples) <= MaxSamples
    BY DEF TrackIInv, TrackTypeInv
  <2>2. j.first \in 1..j.last /\ i = j.last + 1
    BY DEF TrackIInv, JobsAreIntervals
  <2>3. j.first \in Nat /\ j.last \in Nat
    BY <2>1 DEF JobRecord, Times
  <2>4. j.first \in 1..MaxSamples /\ j.last \in 1..MaxSamples
    BY <2>1, <2>2, <2>3, CommandsAssumption
  <2> QED BY <2>1, <2>4 DEF JobRecord
<1>3. active \in [Pids -> [first : 0..MaxSamples, last : 0..MaxSamples, command : Commands \union {Free}]]
  BY <1>1 DEF TrackIInv, TrackTypeInv
<1> QED BY <1>2, <1>3 DEF TrackIInv, TrackTypeInv, TrackTypeOK, Table

\* For any processes and any number of samples, every variable keeps its type.
THEOREM TrackTypeCorrect == TrackSpec => []TrackTypeOK
<1>1. TrackInit => TrackIInv
  BY TrackInitIInv
<1>2. TrackIInv /\ [TrackNext]_trackVars => TrackIInv'
  BY TrackNextIInv
<1>3. TrackIInv => TrackTypeOK
  BY TrackTypesSuffice
<1> QED BY <1>1, <1>2, <1>3, PTL DEF TrackSpec

\* However processes start, stop and take over the PIDs of others between samples, tjt
\* reports each unbroken stretch of samples of a PID once, under the command it had in
\* the last of them, and nothing else.
THEOREM JobsAreStretches == TrackSpec => []JobsAreIntervals
<1>1. TrackInit => TrackIInv
  BY TrackInitIInv
<1>2. TrackIInv /\ [TrackNext]_trackVars => TrackIInv'
  BY TrackNextIInv
<1>3. TrackIInv => JobsAreIntervals
  BY DEF TrackIInv
<1> QED BY <1>1, <1>2, <1>3, PTL DEF TrackSpec

-----------------------------------------------------------------------------
\* clt: the quarantine keeps all.

Scanned == {"move", "rename", "ok"}

\* What a run has come to in its scan it knows, unless it was moved away.
SeenInv == \A r \in Runs : \A i \in 1..looked[r] :
    InRoot(WalkOrder[i]) => WalkOrder[i] \in items[r]

\* After its scan a run knows every file of the tree, and has a candidate still to
\* move unless somebody moved it.
LeftInv == \A r \in Runs : at[r] \in Scanned =>
    /\ looked[r] = Len(WalkOrder)
    /\ left[r] \subseteq Candidates(items[r])
    /\ \A f \in Candidates(items[r]) : InRoot(f) => f \in left[r]
    /\ at[r] = "ok" => left[r] = {}

\* The name that a run is about to take is free for as long as its file is there.
NameIsFree == \A r \in Runs : at[r] = "rename" =>
    /\ left[r] /= {}
    /\ \A f \in left[r] : First(r, f) /\ InRoot(f) => ~Taken(target(f))

\* What was moved is where the run says, and was a hidden copy.
MovedInv ==
    /\ \A r \in Runs : \A p \in moved[r] : \E f \in items[r] : p = target(f) /\ place[f] = p
    /\ \A f \in File : ~InRoot(f) =>
        f \in Executable /\ Where[f].hidden /\ \E g \in File \ {f} : Content[g] = Content[f]

MoveIInv == QuarantineTypeOK /\ NothingOverwritten /\ SeenInv /\ LeftInv /\ NameIsFree /\ MovedInv

\* A place in the tree, a name in the quarantine and nowhere are different.
LEMMA PlacesDiffer ==
    ASSUME NEW f \in File, NEW g \in File
    PROVE  Where[f] /= target(g) /\ Where[f] /= Lost /\ target(g) /= Lost
<1>1. target(g).dir = "quarantine" /\ Lost.dir = "nowhere"
  BY DEF target, Lost
<1>2. Where[f].dir /= "quarantine" /\ Where[f].dir /= "nowhere"
  BY FilesAssumption
<1> QED BY <1>1, <1>2

\* Names in the quarantine are the same only for files of one content.
LEMMA OneNameOneContent ==
    ASSUME NEW f \in File, NEW g \in File, target(f) = target(g)
    PROVE  Content[f] = Content[g]
  BY DEF target

\* A candidate of fewer files is one of more.
LEMMA CandidatesGrow ==
    ASSUME NEW S, NEW f \in S, NEW g \in S, f /= g, Content[f] = Content[g],
           f \in Executable, Where[f].hidden
    PROVE  f \in Candidates(S)
  BY DEF Candidates

\* The invariant holds before any run has done anything.
LEMMA MoveInitIInv == QuarantineInit => MoveIInv
<1> SUFFICES ASSUME QuarantineInit PROVE MoveIInv
  OBVIOUS
<1>1. QuarantineTypeOK
  <2>1. Len(WalkOrder) \in Nat
    BY FilesAssumption
  <2>2. DOMAIN place = File
    BY DEF QuarantineInit, File
  <2> QED BY <2>1, <2>2 DEF QuarantineInit, QuarantineTypeOK
<1>2. NothingOverwritten
  BY PlacesDiffer DEF QuarantineInit, NothingOverwritten
<1>3. SeenInv /\ LeftInv /\ NameIsFree /\ MovedInv
  BY DEF QuarantineInit, SeenInv, LeftInv, NameIsFree, MovedInv, Scanned, InRoot
<1> QED BY <1>1, <1>2, <1>3 DEF MoveIInv

\* Every step keeps the types.
LEMMA TypeInvariant ==
    ASSUME QuarantineTypeOK, NEW r \in Runs,
           Look(r) \/ ScanFails(r) \/ Report(r) \/ Probe(r) \/ Rename(r) \/ RenameFails(r) \/ Finish(r)
    PROVE  QuarantineTypeOK'
<1> USE DEF Goto
<1>1. CASE Look(r)
  <2>1. WalkOrder[looked[r] + 1] \in File /\ looked[r] + 1 \in 0..Len(WalkOrder)
    BY <1>1, FilesAssumption DEF Look, QuarantineTypeOK
  <2>2. items' = [items EXCEPT ![r] = items[r] \union {f \in {WalkOrder[looked[r] + 1]} : InRoot(f)}]
    BY <1>1 DEF Look
  <2>3. items' \in [Runs -> SUBSET File] /\ \A q \in Runs : items[q] \subseteq items'[q]
    BY <2>1, <2>2 DEF QuarantineTypeOK
  <2>4. looked' \in [Runs -> 0..Len(WalkOrder)]
    BY <1>1, <2>1 DEF Look, QuarantineTypeOK
  <2> QED BY <1>1, <2>3, <2>4 DEF Look, QuarantineTypeOK, target
<1>2. CASE ScanFails(r) \/ RenameFails(r) \/ Finish(r)
  BY <1>2 DEF ScanFails, RenameFails, Finish, QuarantineTypeOK, target
<1>3. CASE Report(r)
  <2>1. Candidates(items[r]) \subseteq items[r]
    BY DEF Candidates
  <2>2. left' \in [Runs -> SUBSET File] /\ \A q \in Runs : left'[q] \subseteq items[q]
    BY <1>3, <2>1 DEF Report, QuarantineTypeOK
  <2> QED BY <1>3, <2>2 DEF Report, QuarantineTypeOK, target
<1>4. CASE Probe(r)
  BY <1>4 DEF Probe, QuarantineTypeOK, target
<1>5. CASE Rename(r)
  <2>1. PICK f \in left[r] :
          /\ place' = [g \in File |-> IF g = f THEN target(f)
                                      ELSE IF place[g] = target(f) THEN Lost ELSE place[g]]
          /\ moved' = [moved EXCEPT ![r] = moved[r] \union {target(f)}]
          /\ left' = [left EXCEPT ![r] = left[r] \ {f}]
    BY <1>5 DEF Rename
  <2>2. f \in items[r] /\ f \in File
    BY DEF QuarantineTypeOK
  <2>3. DOMAIN place' = File /\ \A g \in File : place'[g] \in {Where[g], target(g), Lost}
    BY <2>1 DEF QuarantineTypeOK
  <2>4. left' \in [Runs -> SUBSET File] /\ \A q \in Runs : left'[q] \subseteq left[q]
    BY <2>1 DEF QuarantineTypeOK
  <2>5. DOMAIN moved' = Runs /\ \A q \in Runs : moved'[q] \subseteq {target(g) : g \in items[q]}
    BY <2>1, <2>2 DEF QuarantineTypeOK
  <2> QED BY <1>5, <2>3, <2>4, <2>5 DEF Rename, QuarantineTypeOK, target
<1> QED BY <1>1, <1>2, <1>3, <1>4, <1>5

\* A run keeps its right to a name for as long as nothing is moved.
LEMMA NameStaysFree ==
    ASSUME NameIsFree, UNCHANGED <<place, left>>, NEW q \in Runs, at[q] = "rename"
    PROVE  /\ left'[q] /= {}
           /\ \A f \in left'[q] : First(q, f)' /\ InRoot(f)' => ~Taken(target(f))'
<1>1. left[q] /= {} /\ \A f \in left[q] : First(q, f) /\ InRoot(f) => ~Taken(target(f))
  BY DEF NameIsFree
<1>2. ASSUME NEW f \in left[q], First(q, f)', InRoot(f)' PROVE ~Taken(target(f))'
  <2>1. First(q, f) /\ InRoot(f)
    BY <1>2 DEF First, InRoot
  <2>2. ~Taken(target(f))
    BY <1>1, <2>1
  <2> QED BY <2>2 DEF Taken, target
<1> QED BY <1>1, <1>2

\* Steps that move no file keep what they do not touch.
LEMMA ScanStep ==
    ASSUME MoveIInv, QuarantineTypeOK', NEW r \in Runs,
           Look(r) \/ ScanFails(r) \/ Report(r) \/ Probe(r) \/ RenameFails(r) \/ Finish(r)
    PROVE  MoveIInv'
<1>a. QuarantineTypeOK /\ NothingOverwritten /\ SeenInv /\ LeftInv /\ NameIsFree /\ MovedInv
  BY DEF MoveIInv
<1>b. Len(WalkOrder) \in Nat /\ \A i \in 1..Len(WalkOrder) : WalkOrder[i] \in File
  BY FilesAssumption
<1>c. \A f \in File : \E i \in 1..Len(WalkOrder) : WalkOrder[i] = f
  BY FilesAssumption DEF Range
<1> USE DEF Goto
<1>d. UNCHANGED <<place, moved>> /\ \A q \in Runs : items[q] \subseteq items'[q]
  <2>1. CASE Look(r)
    BY <1>a, <2>1 DEF Look, QuarantineTypeOK
  <2>2. CASE ScanFails(r) \/ Report(r) \/ Probe(r) \/ RenameFails(r) \/ Finish(r)
    BY <2>2 DEF ScanFails, Report, Probe, RenameFails, Finish
  <2> QED BY <2>1, <2>2
<1>1. NothingOverwritten'
  BY <1>a, <1>d DEF NothingOverwritten
<1>2. MovedInv'
  BY <1>a, <1>d DEF MovedInv, InRoot, target
<1>3. CASE Look(r)
  <2>1. SeenInv'
    <3> SUFFICES ASSUME NEW q \in Runs, NEW i \in 1..looked'[q], InRoot(WalkOrder[i])
                 PROVE  WalkOrder[i] \in items'[q]
      BY <1>d DEF SeenInv, InRoot
    <3>1. CASE i \in 1..looked[q]
      BY <1>a, <1>d, <3>1 DEF SeenInv
    <3>2. CASE i \notin 1..looked[q]
      <4>1. q = r /\ i = looked[r] + 1
        BY <1>3, <1>a, <3>2 DEF Look, QuarantineTypeOK
      <4> QED BY <1>3, <1>a, <4>1 DEF Look, QuarantineTypeOK
    <3> QED BY <3>1, <3>2
  <2>2. LeftInv'
    BY <1>3, <1>a, <1>d DEF Look, LeftInv, QuarantineTypeOK, Scanned, InRoot, Candidates
  <2>3. NameIsFree'
    BY <1>3, <1>a, NameStaysFree DEF Look, NameIsFree
  <2> QED BY <1>1, <1>2, <2>1, <2>2, <2>3 DEF MoveIInv
<1>4. CASE ScanFails(r) \/ RenameFails(r) \/ Finish(r)
  <2>1. SeenInv'
    BY <1>4, <1>a, <1>d DEF ScanFails, RenameFails, Finish, SeenInv, InRoot
  <2>2. LeftInv'
    BY <1>4, <1>a, <1>d DEF ScanFails, RenameFails, Finish, LeftInv, QuarantineTypeOK, Scanned, InRoot, Candidates
  <2>3. NameIsFree'
    <3>1. UNCHANGED <<place, left>> /\ \A q \in Runs : at'[q] = "rename" => at[q] = "rename"
      BY <1>4, <1>a DEF ScanFails, RenameFails, Finish, QuarantineTypeOK
    <3> QED BY <1>a, <3>1, NameStaysFree DEF NameIsFree
  <2> QED BY <1>1, <1>2, <2>1, <2>2, <2>3 DEF MoveIInv
<1>5. CASE Report(r)
  <2>1. SeenInv'
    BY <1>5, <1>a, <1>d DEF Report, SeenInv, InRoot
  <2>2. LeftInv'
    BY <1>5, <1>a, <1>d DEF Report, LeftInv, QuarantineTypeOK, Scanned, InRoot, Candidates
  <2>3. NameIsFree'
    <3> SUFFICES ASSUME NEW q \in Runs, at'[q] = "rename"
                 PROVE  /\ left'[q] /= {}
                        /\ \A f \in left'[q] : First(q, f)' /\ InRoot(f)' => ~Taken(target(f))'
      BY DEF NameIsFree
    <3>1. q /= r /\ at[q] = "rename" /\ left'[q] = left[q]
      BY <1>5, <1>a DEF Report, QuarantineTypeOK
    <3>2. left[q] /= {} /\ \A f \in left[q] : First(q, f) /\ InRoot(f) => ~Taken(target(f))
      BY <1>a, <3>1 DEF NameIsFree
    <3>3. ASSUME NEW f \in left[q], First(q, f)', InRoot(f)' PROVE ~Taken(target(f))'
      <4>1. First(q, f) /\ InRoot(f)
        BY <1>d, <3>1, <3>3 DEF First, InRoot
      <4> QED BY <1>d, <3>2, <4>1 DEF Taken, target
    <3> QED BY <3>1, <3>2, <3>3
  <2> QED BY <1>1, <1>2, <2>1, <2>2, <2>3 DEF MoveIInv
<1>6. CASE Probe(r)
  <2>1. SeenInv'
    BY <1>6, <1>a, <1>d DEF Probe, SeenInv, InRoot
  <2>2. LeftInv'
    BY <1>6, <1>a, <1>d DEF Probe, LeftInv, QuarantineTypeOK, Scanned, InRoot, Candidates
  <2>3. NameIsFree'
    <3> SUFFICES ASSUME NEW q \in Runs, at'[q] = "rename"
                 PROVE  /\ left'[q] /= {}
                        /\ \A f \in left'[q] : First(q, f)' /\ InRoot(f)' => ~Taken(target(f))'
      BY DEF NameIsFree, target
    <3>1. CASE q /= r
      <4>1. UNCHANGED <<place, left>> /\ at[q] = "rename"
        BY <1>6, <1>a, <3>1 DEF Probe, QuarantineTypeOK
      <4> QED BY <1>a, <4>1, NameStaysFree
    <3>2. CASE q = r
      <4>1. PICK f \in left[r] : First(r, f) /\ ~Taken(target(f))
        BY <1>6, <1>a, <3>2 DEF Probe, QuarantineTypeOK
      <4>2. ASSUME NEW g \in left[r], First(r, g) PROVE g = f
        BY <4>1, <4>2, <1>a, FilesAssumption DEF First, QuarantineTypeOK
      <4>3. left' = left
        BY <1>6 DEF Probe
      <4> QED BY <1>d, <3>2, <4>1, <4>2, <4>3 DEF First, InRoot, Taken, target
    <3> QED BY <3>1, <3>2
  <2> QED BY <1>1, <1>2, <2>1, <2>2, <2>3 DEF MoveIInv
<1> QED BY <1>3, <1>4, <1>5, <1>6

\* A run that is past its scan has every hidden copy of the tree still to move.
LEMMA CopiesAreLeft ==
    ASSUME MoveIInv, NEW q \in Runs, at[q] \in Scanned,
           NEW f \in File, NEW g \in File, f /= g, Content[f] = Content[g],
           InRoot(f), f \in Executable, Where[f].hidden,
           InRoot(g) \/ g \in items[q]
    PROVE  f \in left[q]
<1>1. /\ SeenInv /\ looked[q] = Len(WalkOrder)
      /\ \A h \in Candidates(items[q]) : InRoot(h) => h \in left[q]
  BY DEF MoveIInv, LeftInv
<1>2. \A h \in File : \E i \in 1..Len(WalkOrder) : WalkOrder[i] = h
  BY FilesAssumption DEF Range
<1>3. \A h \in File : InRoot(h) => h \in items[q]
  BY <1>1, <1>2 DEF SeenInv
<1>4. f \in Candidates(items[q])
  BY <1>3, CandidatesGrow
<1> QED BY <1>1, <1>4

\* Two runs never have the right to one name of the quarantine for two files.
LEMMA OneClaim ==
    ASSUME MoveIInv,
           NEW r \in Runs, at[r] = "rename", NEW f \in left[r], First(r, f), InRoot(f),
           NEW q \in Runs, at[q] = "rename", NEW g \in left[q], First(q, g), InRoot(g),
           target(f) = target(g)
    PROVE  f = g
<1> SUFFICES ASSUME f /= g PROVE FALSE
  OBVIOUS
<1>1. Content[f] = Content[g] /\ f \in File /\ g \in File
  BY OneNameOneContent DEF MoveIInv, QuarantineTypeOK
<1>2. /\ f \in Executable /\ Where[f].hidden
      /\ g \in Executable /\ Where[g].hidden
  BY DEF MoveIInv, LeftInv, Scanned, Candidates
<1>3. f \in left[q] /\ g \in left[r]
  BY <1>1, <1>2, CopiesAreLeft DEF Scanned
<1>4. f \in Nat /\ g \in Nat /\ g <= f /\ f <= g
  BY <1>1, <1>3, FilesAssumption DEF First
<1> QED BY <1>4

\* A rename takes a free name, and leaves every other run its own.
LEMMA RenameStep ==
    ASSUME MoveIInv, QuarantineTypeOK', NEW r \in Runs, Rename(r)
    PROVE  MoveIInv'
<1>a. QuarantineTypeOK /\ NothingOverwritten /\ SeenInv /\ LeftInv /\ NameIsFree /\ MovedInv
  BY DEF MoveIInv
<1>1. PICK f \in left[r] :
        /\ First(r, f) /\ InRoot(f)
        /\ place' = [g \in File |-> IF g = f THEN target(f)
                                    ELSE IF place[g] = target(f) THEN Lost ELSE place[g]]
        /\ moved' = [moved EXCEPT ![r] = moved[r] \union {target(f)}]
        /\ left' = [left EXCEPT ![r] = left[r] \ {f}]
  BY DEF Rename
<1>2. at[r] = "rename" /\ at' = [at EXCEPT ![r] = "move"] /\ UNCHANGED <<looked, items>>
  BY DEF Rename, Goto
<1>3. f \in File /\ f \in Candidates(items[r]) /\ f \in items[r]
  BY <1>a, <1>2 DEF QuarantineTypeOK, LeftInv, Scanned
<1>4. \A g \in File : place[g] /= target(f)
  BY <1>a, <1>1, <1>2 DEF NameIsFree, Taken
<1>5. /\ place'[f] = target(f)
      /\ \A g \in File : g /= f => place'[g] = place[g]
  BY <1>1, <1>3, <1>4
<1>6. target(f) /= Where[f] /\ target(f) /= Lost
  BY <1>3, PlacesDiffer
<1>7. \A g \in File : InRoot(g)' <=> InRoot(g) /\ g /= f
  BY <1>3, <1>5, <1>6 DEF InRoot
<1>8. NothingOverwritten'
  BY <1>a, <1>5, <1>6 DEF NothingOverwritten
<1>9. SeenInv'
  <2> SUFFICES ASSUME NEW q \in Runs, NEW i \in 1..looked[q], InRoot(WalkOrder[i])'
               PROVE  WalkOrder[i] \in items[q]
    BY <1>2 DEF SeenInv
  <2>1. looked[q] \in 0..Len(WalkOrder)
    BY <1>a DEF QuarantineTypeOK
  <2>2. WalkOrder[i] \in File
    BY <2>1, FilesAssumption
  <2> QED BY <1>a, <1>7, <2>2 DEF SeenInv
<1>10. LeftInv'
  <2> SUFFICES ASSUME NEW q \in Runs, at'[q] \in Scanned
               PROVE  /\ looked[q] = Len(WalkOrder)
                      /\ left'[q] \subseteq Candidates(items[q])
                      /\ \A g \in Candidates(items[q]) : InRoot(g)' => g \in left'[q]
                      /\ at'[q] = "ok" => left'[q] = {}
    BY <1>2 DEF LeftInv, Candidates
  <2>1. at[q] \in Scanned /\ (at'[q] = "ok" => at[q] = "ok" /\ q /= r)
    BY <1>a, <1>2 DEF QuarantineTypeOK, Scanned
  <2>2. left'[q] = IF q = r THEN left[q] \ {f} ELSE left[q]
    BY <1>a, <1>1 DEF QuarantineTypeOK
  <2>3. \A g \in Candidates(items[q]) : g \in File
    BY <1>a DEF QuarantineTypeOK, Candidates
  <2> QED BY <1>a, <1>7, <2>1, <2>2, <2>3 DEF LeftInv
<1>11. NameIsFree'
  <2> SUFFICES ASSUME NEW q \in Runs, at'[q] = "rename"
               PROVE  /\ left'[q] /= {}
                      /\ \A g \in left'[q] : First(q, g)' /\ InRoot(g)' => ~Taken(target(g))'
    BY DEF NameIsFree
  <2>1. q /= r /\ at[q] = "rename" /\ left'[q] = left[q]
    BY <1>a, <1>1, <1>2 DEF QuarantineTypeOK
  <2>2. left[q] /= {} /\ \A g \in left[q] : First(q, g) /\ InRoot(g) => ~Taken(target(g))
    BY <1>a, <2>1 DEF NameIsFree
  <2>3. ASSUME NEW g \in left[q], First(q, g)', InRoot(g)' PROVE ~Taken(target(g))'
    <3>1. First(q, g) /\ g \in File
      BY <1>a, <2>1, <2>3 DEF First, QuarantineTypeOK
    <3>2. InRoot(g) /\ g /= f
      BY <1>7, <2>3, <3>1
    <3>3. target(f) /= target(g)
      BY <1>1, <1>2, <2>1, <3>1, <3>2, OneClaim
    <3>4. \A h \in File : place[h] /= target(g)
      BY <2>2, <3>1, <3>2 DEF Taken
    <3>5. \A h \in File : place'[h] /= target(g)
      BY <1>5, <3>3, <3>4
    <3> QED BY <3>5 DEF Taken, target
  <2> QED BY <2>1, <2>2, <2>3
<1>12. MovedInv'
  <2>1. ASSUME NEW q \in Runs, NEW p \in moved'[q]
        PROVE  \E g \in items[q] : p = target(g) /\ place'[g] = p
    <3>1. CASE p \in moved[q]
      <4>1. PICK g \in items[q] : p = target(g) /\ place[g] = p
        BY <1>a, <3>1 DEF MovedInv
      <4>2. g \in File /\ Where[g] /= p
        BY <1>a, <4>1, PlacesDiffer DEF QuarantineTypeOK
      <4>3. g /= f
        BY <1>1, <4>1, <4>2 DEF InRoot
      <4> QED BY <1>5, <4>1, <4>2, <4>3
    <3>2. CASE p \notin moved[q]
      <4>1. q = r /\ p = target(f)
        BY <1>a, <1>1, <2>1, <3>2 DEF QuarantineTypeOK
      <4> QED BY <1>3, <1>5, <4>1
    <3> QED BY <3>1, <3>2
  <2>2. ASSUME NEW g \in File, ~InRoot(g)'
        PROVE  g \in Executable /\ Where[g].hidden /\ \E h \in File \ {g} : Content[h] = Content[g]
    <3>1. CASE g = f
      BY <1>a, <1>3, <3>1 DEF Candidates, QuarantineTypeOK
    <3>2. CASE g /= f
      BY <1>a, <1>7, <2>2, <3>2 DEF MovedInv
    <3> QED BY <3>1, <3>2
  <2> QED BY <1>2, <2>1, <2>2 DEF MovedInv, target
<1> QED BY <1>8, <1>9, <1>10, <1>11, <1>12 DEF MoveIInv

\* Every step keeps the invariant.
LEMMA MoveNextIInv == MoveIInv /\ [QuarantineNext]_quarantineVars => MoveIInv'
<1> SUFFICES ASSUME MoveIInv, [QuarantineNext]_quarantineVars PROVE MoveIInv'
  OBVIOUS
<1>1. QuarantineTypeOK
  BY DEF MoveIInv
<1>2. CASE UNCHANGED quarantineVars
  <2>1. QuarantineTypeOK' /\ NothingOverwritten'
    BY <1>1, <1>2 DEF quarantineVars, MoveIInv, QuarantineTypeOK, NothingOverwritten, target
  <2>2. SeenInv' /\ LeftInv'
    BY <1>2 DEF quarantineVars, MoveIInv, SeenInv, LeftInv, Candidates, InRoot
  <2>3. NameIsFree' /\ MovedInv'
    BY <1>2, NameStaysFree DEF quarantineVars, MoveIInv, NameIsFree, MovedInv, InRoot, target
  <2> QED BY <2>1, <2>2, <2>3 DEF MoveIInv
<1>3. CASE QuarantineNext
  <2>1. PICK r \in Runs :
          \/ Look(r) \/ ScanFails(r) \/ Report(r) \/ Probe(r) \/ Rename(r)
          \/ RenameFails(r) \/ Finish(r)
    BY <1>3 DEF QuarantineNext
  <2>2. QuarantineTypeOK'
    BY <1>1, <2>1, TypeInvariant
  <2> QED BY <2>1, <2>2, ScanStep, RenameStep
<1> QED BY <1>2, <1>3

\* The invariant gives what the runs promise.
LEMMA MoveIInvKeepsAll == MoveIInv => QuarantineKeepsAll
<1> SUFFICES ASSUME MoveIInv PROVE QuarantineKeepsAll
  OBVIOUS
<1>1. ASSUME NEW r \in Runs, at[r] = "ok", NEW f \in File, NEW g \in File,
             InRoot(f), InRoot(g), f /= g, Content[f] = Content[g],
             f \in Executable, Where[f].hidden
      PROVE  FALSE
  <2>1. f \in left[r]
    BY <1>1, CopiesAreLeft DEF Scanned
  <2>2. left[r] = {}
    BY <1>1 DEF MoveIInv, LeftInv, Scanned
  <2> QED BY <2>1, <2>2
<1>2. \A r \in Runs : \A p \in moved[r] : \E f \in items[r] : place[f] = p
  BY DEF MoveIInv, MovedInv
<1>3. OkMeansQuarantined
  BY <1>1, <1>2 DEF OkMeansQuarantined, MoveIInv, MovedInv
<1> QED BY <1>3 DEF QuarantineKeepsAll, MoveIInv

\* However many runs of clt --apply overlap, on whatever tree and in whatever order it
\* is walked: no file is overwritten in the quarantine, what a run says it moved is
\* there, and a run that ends well leaves no hidden executable beside a copy.
THEOREM KeepsAll == QuarantineSpec => []QuarantineKeepsAll
<1>1. QuarantineInit => MoveIInv
  BY MoveInitIInv
<1>2. MoveIInv /\ [QuarantineNext]_quarantineVars => MoveIInv'
  BY MoveNextIInv
<1>3. MoveIInv => QuarantineKeepsAll
  BY MoveIInvKeepsAll
<1> QED BY <1>1, <1>2, <1>3, PTL DEF QuarantineSpec
=============================================================================
