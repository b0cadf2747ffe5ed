-------------------------- MODULE JsonProbeProofs ---------------------------
(***************************************************************************)
(* For any number of checks, of any kind and with any limits, and whatever *)
(* the attempts meet: a check passes exactly when it has earned it.        *)
(***************************************************************************)
EXTENDS JsonProbe, SequenceTheorems, TLAPS

Status == {"pass", "fail"}
Entry == [status : Status, evidence : BOOLEAN, diagnostic : {"none", "timeout", "probe_failed"}]

\* The types of all variables.
TypeInv ==
    /\ spec \in [1..CheckCount -> Checks]
    /\ answers \in Seq(Seq(Answer)) /\ records \in Seq(Entry)
    /\ Len(answers) = Len(records) /\ Len(records) <= CheckCount
    /\ row \in Nat /\ outcome \in Status /\ probeExit \in {-1, 0, 1}

\* The last r of s are successes, and what comes before them is not.
Trail(s, r) ==
    /\ r <= Len(s) /\ \A i \in 1..r : Success(s[Len(s) - r + i])
    /\ r < Len(s) => ~Success(s[Len(s) - r])

\* What a check has met agrees with its status.
Earned(s, n, status) ==
    IF status = "pass" THEN Streak(s, n) /\ ~Streak(Front(s), n) ELSE ~Streak(s, n)

CheckInv == \A i \in 1..now :
    /\ Len(answers[i]) <= spec[i].retries + 1
    /\ records[i].status = "pass" => answers[i] /= <<>>
    /\ Earned(answers[i], required(spec[i]), records[i].status)
    /\ i < now => Over(i)

\* row counts the successes at the end of what the current check has met.
RowInv ==
    /\ now > 0 => Trail(answers[now], row) /\ row <= required(spec[now])
    /\ now = 0 => row = 0

\* The outcome is that of the checks that were folded into it.
OutcomeInv ==
    /\ ~ProbeEnded => (outcome = "pass" <=> \A i \in 1..(now - 1) : records[i].status = "pass")
    /\ ProbeEnded => /\ now = CheckCount /\ Over(now)
                     /\ probeExit = 0 <=> \A i \in 1..now : records[i].status = "pass"

\* The inductive invariant.
IInv == TypeInv /\ CheckInv /\ RowInv /\ OutcomeInv

\* One more success lengthens the trail, and makes a streak when it is long enough.
LEMMA OneMoreSuccess ==
    ASSUME NEW s \in Seq(Answer), NEW r \in Nat, NEW n \in Nat \ {0}, NEW a \in Answer,
           Trail(s, r), ~Streak(s, n), Success(a)
    PROVE  /\ Trail(Append(s, a), r + 1) /\ r + 1 <= n
           /\ Streak(Append(s, a), n) <=> r + 1 >= n
<1> DEFINE t == Append(s, a)
<1>1. Len(t) = Len(s) + 1 /\ t[Len(s) + 1] = a /\ \A i \in 1..Len(s) : t[i] = s[i]
  OBVIOUS
<1> HIDE DEF t
<1>2. r < n
  <2>1. SUFFICES ASSUME r >= n PROVE Streak(s, n)
    OBVIOUS
  <2>2. \A j \in 1..n : Success(s[(Len(s) - n) + j])
    <3>1. ASSUME NEW j \in 1..n PROVE Success(s[(Len(s) - n) + j])
      <4>1. r - n + j \in 1..r /\ Len(s) - r + (r - n + j) = (Len(s) - n) + j
        BY <2>1
      <4> QED BY <4>1 DEF Trail
    <3> QED BY <3>1
  <2>3. Len(s) - n \in 0..(Len(s) - n)
    BY <2>1 DEF Trail
  <2> QED BY <2>2, <2>3 DEF Streak
<1>3. Trail(t, r + 1)
  <2>1. \A i \in 1..(r + 1) : Success(t[Len(t) - (r + 1) + i])
    <3>1. ASSUME NEW i \in 1..(r + 1) PROVE Success(t[Len(t) - (r + 1) + i])
      <4>1. CASE i = r + 1
        BY <1>1, <4>1
      <4>2. CASE i \in 1..r
        <5>1. Len(t) - (r + 1) + i = Len(s) - r + i /\ Len(s) - r + i \in 1..Len(s)
          BY <1>1, <4>2 DEF Trail
        <5> QED BY <1>1, <4>2, <5>1 DEF Trail
      <4> QED BY <4>1, <4>2
    <3> QED BY <3>1
  <2>2. r + 1 < Len(t) => ~Success(t[Len(t) - (r + 1)])
    <3>1. SUFFICES ASSUME r < Len(s) PROVE ~Success(t[Len(s) - r])
      BY <1>1
    <3>2. Len(s) - r \in 1..Len(s)
      BY <3>1
    <3> QED BY <1>1, <3>1, <3>2 DEF Trail
  <2> QED BY <1>1, <2>1, <2>2 DEF Trail
<1>4. ASSUME r + 1 >= n PROVE Streak(t, n)
  <2>1. n = r + 1 /\ Len(t) - n \in 0..(Len(t) - n)
    BY <1>1, <1>2, <1>4 DEF Trail
  <2>2. \A j \in 1..n : Success(t[(Len(t) - n) + j])
    BY <1>3, <2>1 DEF Trail
  <2> QED BY <2>1, <2>2 DEF Streak
<1>5. ASSUME Streak(t, n) PROVE r + 1 >= n
  <2>1. PICK i \in 0..(Len(t) - n) : \A j \in 1..n : Success(t[i + j])
    BY <1>5 DEF Streak
  <2>2. CASE i = Len(t) - n
    <3>1. SUFFICES ASSUME r + 1 < n PROVE FALSE
      OBVIOUS
    <3>2. n - r - 1 \in 1..n /\ i + (n - r - 1) = Len(s) - r /\ Len(s) - r \in 1..Len(s)
      BY <1>1, <2>2, <3>1
    <3>3. Success(s[Len(s) - r])
      BY <1>1, <2>1, <3>2
    <3> QED BY <3>2, <3>3 DEF Trail
  <2>3. CASE i < Len(t) - n
    <3>1. i \in 0..(Len(s) - n)
      BY <1>1, <2>3
    <3>2. \A j \in 1..n : i + j \in 1..Len(s) /\ Success(s[i + j])
      BY <1>1, <2>1, <3>1
    <3> QED BY <3>1, <3>2 DEF Streak
  <2> QED BY <1>1, <2>1, <2>2, <2>3
<1> QED BY <1>2, <1>3, <1>4, <1>5 DEF t

\* A failure ends the trail, and makes no streak.
LEMMA OneMoreFailure ==
    ASSUME NEW s \in Seq(Answer), NEW n \in Nat \ {0}, NEW a \in Answer,
           ~Streak(s, n), ~Success(a)
    PROVE  Trail(Append(s, a), 0) /\ ~Streak(Append(s, a), n)
<1> DEFINE t == Append(s, a)
<1>1. Len(t) = Len(s) + 1 /\ t[Len(s) + 1] = a /\ \A i \in 1..Len(s) : t[i] = s[i]
  OBVIOUS
<1> HIDE DEF t
<1>2. Trail(t, 0)
  BY <1>1 DEF Trail
<1>3. ASSUME Streak(t, n) PROVE FALSE
  <2>1. PICK i \in 0..(Len(t) - n) : \A j \in 1..n : Success(t[i + j])
    BY <1>3 DEF Streak
  <2>2. i + n /= Len(t)
    BY <1>1, <2>1
  <2>3. i \in 0..(Len(s) - n)
    BY <1>1, <2>1, <2>2
  <2>4. \A j \in 1..n : i + j \in 1..Len(s) /\ Success(s[i + j])
    BY <1>1, <2>1, <2>3
  <2> QED BY <2>3, <2>4 DEF Streak
<1> QED BY <1>2, <1>3 DEF t

\* An answer more, and that answer less.
LEMMA FrontAppend ==
    ASSUME NEW S, NEW s \in Seq(S), NEW e \in S
    PROVE  Front(Append(s, e)) = s
  BY DEF Front

\* A check needs at least one success, and no more than a specification may ask for.
LEMMA Limits ==
    ASSUME TypeInv, NEW i \in 1..now
    PROVE  /\ required(spec[i]) \in 1..20 /\ spec[i].retries \in 0..20
           /\ spec[i] \in Checks /\ records[i] \in Entry /\ answers[i] \in Seq(Answer)
<1>1. i \in 1..CheckCount /\ i \in DOMAIN records /\ i \in DOMAIN answers
  BY ChecksAssumption DEF Accepted, TypeInv, now
<1>2. spec[i] \in [timed : BOOLEAN, retries : 0..20, consecutive : 0..20]
  BY <1>1, ChecksAssumption DEF Accepted, TypeInv
<1>3. spec[i].retries \in 0..20 /\ spec[i].consecutive \in 0..20
  BY <1>2
<1> QED BY <1>1, <1>3 DEF TypeInv, required

\* Every step keeps the types.
LEMMA TypeStep == TypeInv /\ [ProbeNext]_probeVars => TypeInv'
<1> SUFFICES ASSUME TypeInv, [ProbeNext]_probeVars PROVE TypeInv'
  OBVIOUS
<1> USE DEF now
<1>1. CASE Begin
  <2>1. Blank \in Entry /\ Outcome \in Status
    BY DEF Blank, Entry, Status, Outcome, TypeInv
  <2>2. <<>> \in Seq(Answer)
    OBVIOUS
  <2>3. records' \in Seq(Entry) /\ answers' \in Seq(Seq(Answer))
        /\ Len(records') = Len(records) + 1 /\ Len(answers') = Len(answers) + 1
    BY <1>1, <2>1, <2>2 DEF Begin, TypeInv
  <2>4. Len(records') <= CheckCount
    BY <1>1, <2>3, ChecksAssumption DEF Accepted, Begin, TypeInv
  <2> QED BY <1>1, <2>1, <2>3, <2>4 DEF Begin, TypeInv
<1>2. ASSUME NEW a \in Answer, AttemptSucceeds(a) \/ AttemptFails(a) PROVE TypeInv'
  <2>1. now \in 1..now /\ now \in DOMAIN records /\ now \in DOMAIN answers
    BY <1>2 DEF AttemptSucceeds, AttemptFails, Attempting, TypeInv
  <2>2. answers[now] \in Seq(Answer) /\ records[now] \in Entry
    BY <2>1, Limits
  <2>3. Append(answers[now], a) \in Seq(Answer) /\ answers' = [answers EXCEPT ![now] = Append(answers[now], a)]
    BY <1>2, <2>2 DEF AttemptSucceeds, AttemptFails, Meet
  <2>4. answers' \in Seq(Seq(Answer)) /\ Len(answers') = Len(answers)
    BY <2>1, <2>3 DEF TypeInv
  <2>5. \E e \in Entry : records' = [records EXCEPT ![now] = e]
    <3>1. CASE AttemptSucceeds(a)
      <4> DEFINE e == [records[now] EXCEPT !.evidence = TRUE,
                         !.status = IF row' >= required(spec[now]) THEN "pass" ELSE records[now].status]
      <4>1. e \in Entry
        BY <2>2 DEF Entry, Status
      <4>2. records' = [records EXCEPT ![now] = e]
        BY <3>1 DEF AttemptSucceeds
      <4> QED BY <4>1, <4>2
    <3>2. CASE AttemptFails(a)
      <4> DEFINE e == [records[now] EXCEPT !.diagnostic = IF a = "latedown" THEN "timeout" ELSE "probe_failed"]
      <4>1. e \in Entry
        BY <2>2 DEF Entry, Status
      <4>2. records' = [records EXCEPT ![now] = e]
        BY <3>2 DEF AttemptFails
      <4> QED BY <4>1, <4>2
    <3> QED BY <1>2, <3>1, <3>2
  <2>6. records' \in Seq(Entry) /\ Len(records') = Len(records)
    BY <2>1, <2>5 DEF TypeInv
  <2>7. row' \in Nat /\ UNCHANGED <<spec, outcome, probeExit>>
    BY <1>2 DEF AttemptSucceeds, AttemptFails, TypeInv
  <2> QED BY <2>4, <2>6, <2>7 DEF TypeInv
<1>3. CASE End
  BY <1>3 DEF End, Outcome, TypeInv, Status
<1>4. CASE UNCHANGED probeVars
  BY <1>4 DEF probeVars, TypeInv
<1> QED BY <1>1, <1>2, <1>3, <1>4 DEF ProbeNext

\* An attempt at a check that is not over.
LEMMA AttemptStep ==
    ASSUME IInv, TypeInv', NEW a \in Answer, AttemptSucceeds(a) \/ AttemptFails(a)
    PROVE  CheckInv' /\ RowInv' /\ OutcomeInv'
<1> DEFINE s == answers[now]
           n == required(spec[now])
<1>0. Attempting /\ now \in Nat /\ now > 0
  BY DEF IInv, TypeInv, AttemptSucceeds, AttemptFails, Attempting, now
<1>2. /\ s \in Seq(Answer) /\ records[now] \in Entry /\ n \in Nat \ {0}
      /\ spec[now].retries \in 0..20
  <2>1. now \in 1..now
    BY <1>0
  <2>2. /\ n \in 1..20 /\ spec[now].retries \in 0..20
        /\ records[now] \in Entry /\ s \in Seq(Answer)
    BY <2>1, Limits DEF IInv
  <2> HIDE DEF s, n
  <2>3. n \in Nat \ {0}
    BY <2>2
  <2> QED BY <2>2, <2>3
<1>1. /\ now \in 1..now /\ now \in Nat /\ now \in DOMAIN records /\ now \in DOMAIN answers
      /\ records[now].status /= "pass" /\ Len(s) <= spec[now].retries
  <2>1. now \in 1..now /\ now \in DOMAIN records /\ now \in DOMAIN answers
    BY <1>0 DEF IInv, TypeInv, now
  <2>2. Len(s) \in Nat
    BY <1>2
  <2> DEFINE m == spec[now].retries
  <2>3. records[now].status /= "pass" /\ ~(Len(s) > m) /\ m \in 0..20
    BY <1>0, <1>2 DEF Attempting, Over
  <2> HIDE DEF s, m
  <2>4. Len(s) <= m
    BY <2>2, <2>3
  <2> QED BY <1>0, <2>1, <2>3, <2>4 DEF m
<1>3. ~Streak(s, n) /\ Trail(s, row) /\ row \in Nat
  BY <1>1 DEF IInv, CheckInv, Earned, RowInv, TypeInv
<1>4. /\ answers' = [answers EXCEPT ![now] = Append(s, a)]
      /\ UNCHANGED <<spec, outcome, probeExit>>
  BY DEF AttemptSucceeds, AttemptFails, Meet
<1>5. answers'[now] = Append(s, a) /\ \A i \in 1..now : i /= now => answers'[i] = answers[i]
  BY <1>1, <1>4 DEF IInv, TypeInv, now
<1>6. Len(Append(s, a)) = Len(s) + 1 /\ Append(s, a) /= <<>> /\ Front(Append(s, a)) = s
  <2>1. Front(Append(s, a)) = s
    BY <1>2, FrontAppend
  <2> QED BY <1>2, <2>1
<1>7. /\ \A i \in 1..now : i /= now => records'[i] = records[i]
      /\ now' = now
      /\ Trail(Append(s, a), row') /\ row' <= n
      /\ records'[now].status = "pass" <=> Streak(Append(s, a), n)
  <2>1. CASE AttemptSucceeds(a)
    <3> DEFINE e == [records[now] EXCEPT !.evidence = TRUE,
                       !.status = IF row' >= n THEN "pass" ELSE records[now].status]
    <3>1. records' = [records EXCEPT ![now] = e] /\ row' = row + 1 /\ Success(a)
      BY <2>1 DEF AttemptSucceeds
    <3>2. e.status = "pass" <=> row' >= n
      BY <1>1, <1>2 DEF Entry
    <3> HIDE DEF e
    <3>3. records'[now] = e /\ now' = now /\ \A i \in 1..now : i /= now => records'[i] = records[i]
      BY <1>1, <3>1 DEF IInv, TypeInv, now
    <3>4. Trail(Append(s, a), row + 1) /\ row + 1 <= n /\ (Streak(Append(s, a), n) <=> row + 1 >= n)
      BY <1>2, <1>3, <3>1, OneMoreSuccess
    <3> QED BY <3>1, <3>2, <3>3, <3>4
  <2>2. CASE AttemptFails(a)
    <3> DEFINE e == [records[now] EXCEPT !.diagnostic = IF a = "latedown" THEN "timeout" ELSE "probe_failed"]
    <3>1. records' = [records EXCEPT ![now] = e] /\ row' = 0 /\ ~Success(a)
      BY <2>2 DEF AttemptFails
    <3>2. e.status /= "pass"
      BY <1>1, <1>2 DEF Entry
    <3> HIDE DEF e
    <3>3. records'[now] = e /\ now' = now /\ \A i \in 1..now : i /= now => records'[i] = records[i]
      BY <1>1, <3>1 DEF IInv, TypeInv, now
    <3>4. Trail(Append(s, a), 0) /\ ~Streak(Append(s, a), n)
      BY <1>2, <1>3, <3>1, OneMoreFailure
    <3> QED BY <1>2, <3>1, <3>2, <3>3, <3>4
  <2> QED BY <2>1, <2>2
<1> HIDE DEF s, n
<1>8. CheckInv'
  <2>1. SUFFICES ASSUME NEW i \in 1..now
                 PROVE  /\ Len(answers'[i]) <= spec[i].retries + 1
                        /\ records'[i].status = "pass" => answers'[i] /= <<>>
                        /\ Earned(answers'[i], required(spec[i]), records'[i].status)
                        /\ i < now => Over(i)'
    BY <1>4, <1>7 DEF CheckInv, required
  <2>2. CASE i = now
    <3>1. Len(answers'[now]) <= spec[now].retries + 1
      <4> DEFINE m == spec[now].retries
      <4>1. Len(s) \in Nat /\ m \in 0..20 /\ Len(s) <= m
        BY <1>1, <1>2
      <4>2. Len(answers'[now]) = Len(s) + 1
        BY <1>5, <1>6
      <4> HIDE DEF m
      <4>3. Len(answers'[now]) <= m + 1
        BY <4>1, <4>2
      <4> QED BY <4>3 DEF m
    <3>2. Earned(answers'[now], n, records'[now].status)
      BY <1>3, <1>5, <1>6, <1>7 DEF Earned
    <3>3. answers'[now] /= <<>> /\ ~(now < now)
      BY <1>1, <1>5, <1>6
    <3> QED BY <2>2, <3>1, <3>2, <3>3 DEF n
  <2>3. CASE i /= now
    BY <1>4, <1>5, <1>7, <2>3 DEF IInv, CheckInv, Over
  <2> QED BY <2>2, <2>3
<1>9. RowInv'
  <2>1. required(spec[now])' = n
    BY <1>4, <1>7 DEF n, required
  <2>2. answers[now]' = Append(s, a)
    BY <1>5, <1>7
  <2>3. Trail(answers[now], row)' <=> Trail(Append(s, a), row')
    BY <2>2 DEF Trail
  <2> QED BY <1>1, <1>7, <2>1, <2>3 DEF RowInv
<1>10. OutcomeInv'
  <2>1. probeExit = -1
    BY <1>0 DEF IInv, OutcomeInv, ProbeEnded, Attempting
  <2>2. \A i \in 1..(now - 1) : records'[i] = records[i]
    BY <1>1, <1>7
  <2> QED BY <1>4, <1>7, <2>1, <2>2 DEF IInv, OutcomeInv, ProbeEnded
<1> QED BY <1>8, <1>9, <1>10

\* The next check begins.
LEMMA BeginStep ==
    ASSUME IInv, TypeInv', Begin
    PROVE  CheckInv' /\ RowInv' /\ OutcomeInv'
<1>1. /\ records' = Append(records, Blank) /\ answers' = Append(answers, <<>>) /\ row' = 0
      /\ outcome' = Outcome /\ UNCHANGED <<spec, probeExit>>
      /\ now < CheckCount /\ (now > 0 => Over(now))
  BY DEF Begin, Attempting
<1>2. now \in Nat /\ now' = now + 1 /\ DOMAIN records = 1..now /\ DOMAIN answers = 1..now
  BY <1>1 DEF IInv, TypeInv, now
<1>3. /\ \A i \in 1..now : records'[i] = records[i] /\ answers'[i] = answers[i]
      /\ records'[now + 1] = Blank /\ answers'[now + 1] = <<>>
  BY <1>1, <1>2 DEF IInv, TypeInv, now
<1>4. required(spec[now + 1]) \in 1..20 /\ spec[now + 1].retries \in 0..20
  <2>1. now + 1 \in 1..CheckCount
    BY <1>1, <1>2, ChecksAssumption DEF Accepted
  <2>2. spec[now + 1] \in [timed : BOOLEAN, retries : 0..20, consecutive : 0..20]
    BY <2>1, ChecksAssumption DEF Accepted, IInv, TypeInv
  <2> QED BY <2>2 DEF required
<1>5. CheckInv'
  <2>1. SUFFICES ASSUME NEW i \in 1..(now + 1)
                 PROVE  /\ Len(answers'[i]) <= spec[i].retries + 1
                        /\ records'[i].status = "pass" => answers'[i] /= <<>>
                        /\ Earned(answers'[i], required(spec[i]), records'[i].status)
                        /\ i < now + 1 => Over(i)'
    BY <1>1, <1>2 DEF CheckInv, required
  <2>2. CASE i = now + 1
    <3>1. ~Streak(<<>>, required(spec[now + 1]))
      BY <1>4 DEF Streak
    <3>2. Blank.status = "fail" /\ Len(<<>>) = 0 /\ ~(now + 1 < now + 1)
      BY <1>2 DEF Blank
    <3> DEFINE m == spec[now + 1].retries
    <3>3. m \in 0..20
      BY <1>4
    <3> HIDE DEF m
    <3>4. Len(<<>>) <= m + 1
      BY <3>2, <3>3
    <3> QED BY <1>3, <2>2, <3>1, <3>2, <3>4 DEF Earned, m
  <2>3. CASE i \in 1..now
    <3>1. Over(i)
      BY <1>1, <1>2, <2>3 DEF IInv, CheckInv
    <3> QED BY <1>1, <1>3, <2>3, <3>1 DEF IInv, CheckInv, Over
  <2> QED BY <1>2, <2>2, <2>3
<1>6. RowInv'
  <2>1. answers[now]' = <<>> /\ row' = 0 /\ now' /= 0
    BY <1>1, <1>2, <1>3
  <2>2. Trail(answers[now], row)'
    BY <2>1 DEF Trail
  <2>3. required(spec[now])' = required(spec[now + 1])
    BY <1>1, <1>2 DEF required
  <2> QED BY <1>4, <2>1, <2>2, <2>3 DEF RowInv
<1>7. OutcomeInv'
  <2>1. probeExit = -1
    BY <1>1, <1>2, ChecksAssumption DEF Accepted, IInv, OutcomeInv, ProbeEnded
  <2>2. outcome = "pass" <=> \A i \in 1..(now - 1) : records[i].status = "pass"
    BY <2>1 DEF IInv, OutcomeInv, ProbeEnded
  <2>3. now > 0 => records[now] \in Entry
    BY <1>2 DEF IInv, TypeInv
  <2>4. Outcome = "pass" <=> \A i \in 1..now : records[i].status = "pass"
    BY <1>2, <2>2, <2>3 DEF Outcome, Entry, Status
  <2> QED BY <1>1, <1>2, <1>3, <2>1, <2>4 DEF OutcomeInv, ProbeEnded
<1> QED BY <1>5, <1>6, <1>7

\* The last check is over, and the command ends.
LEMMA EndStep ==
    ASSUME IInv, End
    PROVE  CheckInv' /\ RowInv' /\ OutcomeInv'
<1>1. /\ UNCHANGED <<spec, answers, row, records>> /\ outcome' = Outcome
      /\ probeExit' = IF outcome' = "pass" THEN 0 ELSE 1
      /\ probeExit = -1 /\ now = CheckCount /\ Over(now)
  BY DEF End
<1>2. CheckInv' /\ RowInv'
  BY <1>1 DEF IInv, CheckInv, RowInv, Over, now
<1>3. now \in Nat /\ now > 0 /\ records[now] \in Entry
  BY <1>1, ChecksAssumption DEF Accepted, IInv, TypeInv, now
<1>4. outcome = "pass" <=> \A i \in 1..(now - 1) : records[i].status = "pass"
  BY <1>1 DEF IInv, OutcomeInv, ProbeEnded
<1>5. Outcome = "pass" <=> \A i \in 1..now : records[i].status = "pass"
  BY <1>3, <1>4 DEF Outcome, Entry, Status
<1>6. OutcomeInv'
  BY <1>1, <1>5 DEF OutcomeInv, ProbeEnded, Over, now
<1> QED BY <1>2, <1>6

\* No check has begun.
LEMMA InitIInv == ProbeInit => IInv
  BY ChecksAssumption DEF Accepted, ProbeInit, IInv, TypeInv, CheckInv, RowInv, OutcomeInv, ProbeEnded, Status, now

\* Every step keeps the invariant.
LEMMA NextIInv == IInv /\ [ProbeNext]_probeVars => IInv'
<1> SUFFICES ASSUME IInv, [ProbeNext]_probeVars PROVE IInv'
  OBVIOUS
<1>1. TypeInv'
  BY TypeStep DEF IInv
<1>2. CASE UNCHANGED probeVars
  BY <1>1, <1>2 DEF probeVars, IInv, CheckInv, RowInv, OutcomeInv, Over, ProbeEnded, now
<1> QED BY <1>1, <1>2, AttemptStep, BeginStep, EndStep DEF ProbeNext, IInv

\* It is enough for what the module states.
LEMMA Promises == IInv => ProbeTypeOK /\ VerdictIsEarned
<1> SUFFICES ASSUME IInv PROVE ProbeTypeOK /\ VerdictIsEarned
  OBVIOUS
<1>1. now \in 0..CheckCount /\ Len(records) = Len(answers)
  BY ChecksAssumption DEF Accepted, IInv, TypeInv, now
<1>2. \A i \in 1..now : /\ required(spec[i]) \in 1..20 /\ spec[i].retries \in 0..20
                        /\ records[i] \in Entry /\ answers[i] \in Seq(Answer)
  BY Limits DEF IInv
<1>3. ProbeTypeOK
  <2>1. \A i \in 1..now : Len(answers[i]) \in 0..(spec[i].retries + 1)
    BY <1>2 DEF IInv, CheckInv
  <2>2. \A i \in 1..now : Range(answers[i]) \subseteq Answer
    BY <1>2, RangeOfSeq
  <2>3. row \in 0..20
    <3>1. CASE now > 0
      <4>1. now \in 1..now /\ row <= required(spec[now])
        BY <1>1, <3>1, ChecksAssumption DEF Accepted, IInv, RowInv
      <4>2. required(spec[now]) \in 1..20 /\ row \in Nat
        BY <1>2, <4>1 DEF IInv, TypeInv
      <4> QED BY <4>1, <4>2
    <3>2. CASE now = 0
      BY <3>2 DEF IInv, RowInv, TypeInv
    <3> QED BY <1>1, <3>1, <3>2, ChecksAssumption DEF Accepted
  <2> QED BY <1>1, <1>2, <2>1, <2>2, <2>3 DEF IInv, TypeInv, ProbeTypeOK, Entry, Status
<1>4. VerdictIsEarned
  <2>1. ASSUME NEW i \in 1..now, Over(i)
        PROVE  LET s == answers[i] n == required(spec[i]) IN
               IF records[i].status = "pass"
               THEN Streak(s, n) /\ ~Streak(Front(s), n)
               ELSE ~Streak(s, n) /\ Len(s) = spec[i].retries + 1
    <3> DEFINE s == answers[i] n == required(spec[i])
    <3>1. Earned(s, n, records[i].status) /\ Len(s) <= spec[i].retries + 1
      BY DEF IInv, CheckInv
    <3>2. s \in Seq(Answer) /\ spec[i].retries \in 0..20
      BY <1>2
    <3>4. Len(s) \in Nat
      BY <3>2
    <3>3. records[i].status /= "pass" => Len(s) = spec[i].retries + 1
      <4> DEFINE m == spec[i].retries
      <4>1. records[i].status /= "pass" => Len(s) > m
        BY <2>1 DEF Over
      <4>2. m \in 0..20 /\ Len(s) <= m + 1
        BY <3>1, <3>2
      <4> HIDE DEF m, s
      <4>3. records[i].status /= "pass" => Len(s) = m + 1
        BY <3>4, <4>1, <4>2
      <4> QED BY <4>3 DEF m, s
    <3> QED BY <3>1, <3>3 DEF Earned
  <2>2. ProbeEnded => (probeExit = 0 <=> \A i \in 1..CheckCount :
                    Len(answers) = CheckCount /\ Streak(answers[i], required(spec[i])))
    <3>1. ASSUME ProbeEnded PROVE probeExit = 0 <=> \A i \in 1..CheckCount : Streak(answers[i], required(spec[i]))
      <4>1. now = CheckCount /\ (probeExit = 0 <=> \A i \in 1..now : records[i].status = "pass")
        BY <3>1 DEF IInv, OutcomeInv
      <4>2. \A i \in 1..now : records[i].status = "pass" <=> Streak(answers[i], required(spec[i]))
        BY DEF IInv, CheckInv, Earned
      <4> QED BY <4>1, <4>2
    <3>2. ProbeEnded => Len(answers) = CheckCount
      BY <1>1 DEF IInv, OutcomeInv, now
    <3> QED BY <3>1, <3>2
  <2> QED BY <2>1, <2>2 DEF VerdictIsEarned
<1> QED BY <1>3, <1>4

\* With checks that validate accepts, every variable keeps its type.
THEOREM TypeCorrect == ProbeSpec => []ProbeTypeOK
<1>1. ProbeInit => IInv
  BY InitIInv
<1>2. IInv /\ [ProbeNext]_probeVars => IInv'
  BY NextIInv
<1>3. IInv => ProbeTypeOK
  BY Promises
<1> QED BY <1>1, <1>2, <1>3, PTL DEF ProbeSpec

\* A check that jsonprobe calls passed met as many successes in a row as it wants, and
\* no sooner; one that it calls failed never did, in all its attempts; and the command
\* exits with 0 exactly when every check passed.
THEOREM ProbesAreEarned == ProbeSpec => []VerdictIsEarned
<1>1. ProbeInit => IInv
  BY InitIInv
<1>2. IInv /\ [ProbeNext]_probeVars => IInv'
  BY NextIInv
<1>3. IInv => VerdictIsEarned
  BY Promises
<1> QED BY <1>1, <1>2, <1>3, PTL DEF ProbeSpec
=============================================================================
