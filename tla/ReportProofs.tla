---------------------------- MODULE ReportProofs ----------------------------
(***************************************************************************)
(* The programs that write one report, for every input.  What such a       *)
(* program computes is a function of its input, so the work is in lemmas   *)
(* about those functions; a loop over a sequence is a recursive function   *)
(* of the number of its steps, and is reasoned about one step at a time.   *)
(***************************************************************************)
EXTENDS Reports, FiniteSets, TLAPS, FiniteSetTheorems, WellFoundedInduction

\* A set of numbers that is not empty has a smallest one.
LEMMA Smallest ==
    ASSUME NEW T, T \subseteq Nat, T /= {}
    PROVE  \E x \in T : \A y \in T : x <= y
<1> DEFINE R == {ss \in Nat \X Nat : ss[1] < ss[2]}
<1>1. IsWellFoundedOn(R, Nat)
  BY NatLessThanWellFounded, Zenon DEF OpToRel
<1> HIDE DEF R
<1>2. PICK x \in T : \A y \in T : ~ (<<y, x>> \in R)
  BY <1>1, WFMin
<1>3. \A y \in T : ~(y < x)
  BY <1>2 DEF R
<1> QED BY <1>3

\* What holds before the first of n steps, and after each step when it held before,
\* holds up to the last one.
LEMMA Steps ==
    ASSUME NEW n \in Nat, NEW T, 0 \in T, \A i \in 1..n : i - 1 \in T => i \in T
    PROVE  0..n \subseteq T
<1> DEFINE U == (0..n) \ T
<1>1. SUFFICES ASSUME U /= {} PROVE FALSE
  OBVIOUS
<1>2. PICK i \in U : \A j \in U : i <= j
  <2>1. U \subseteq Nat
    OBVIOUS
  <2> HIDE DEF U
  <2> QED BY <1>1, <2>1, Smallest
<1>3. i \in 1..n /\ i - 1 \in 0..n /\ ~(i <= i - 1)
  BY <1>2
<1>4. i - 1 \in T
  BY <1>2, <1>3
<1> QED BY <1>2, <1>3, <1>4

\* The values of a loop that takes n steps from a base.
Values(n, D, base, step) ==
    {f \in [0..n -> D] : f[0] = base /\ \A i \in 1..n : f[i] = step[i][f[i - 1]]}

LEMMA Loop ==
    ASSUME NEW n \in Nat, NEW D, NEW base \in D, NEW step \in [1..n -> [D -> D]]
    PROVE  \E f : f \in Values(n, D, base, step)
<1> DEFINE Solves(f, m) == f = [i \in 0..m |-> IF i = 0 THEN base ELSE step[i][f[i - 1]]]
           T == {m \in 0..n : \E f \in [0..m -> D] : Solves(f, m)}
<1>1. 0 \in T
  <2> DEFINE f == [i \in 0..0 |-> base]
  <2>1. f \in [0..0 -> D] /\ Solves(f, 0) /\ 0 \in 0..n
    OBVIOUS
  <2> HIDE DEF f, Solves
  <2> QED BY <2>1
<1>2. ASSUME NEW m \in 1..n, m - 1 \in T PROVE m \in T
  <2>1. PICK g \in [0..(m - 1) -> D] : Solves(g, m - 1)
    BY <1>2
  <2> DEFINE f == [i \in 0..m |-> IF i = m THEN step[m][g[m - 1]] ELSE g[i]]
  <2>2. m - 1 \in 0..(m - 1) /\ \A i \in 0..m : i = m \/ i \in 0..(m - 1)
    OBVIOUS
  <2>3. f \in [0..m -> D]
    <3>1. step[m] \in [D -> D] /\ g[m - 1] \in D
      BY <2>2
    <3> QED BY <2>2, <3>1
  <2>4. \A i \in 0..(m - 1) : f[i] = g[i] /\ g[i] = IF i = 0 THEN base ELSE step[i][g[i - 1]]
    BY <2>1
  <2>5. ASSUME NEW i \in 0..m PROVE f[i] = IF i = 0 THEN base ELSE step[i][f[i - 1]]
    <3>1. CASE i = m
      BY <2>2, <2>4, <3>1
    <3>2. CASE i /= m
      <4>1. i \in 0..(m - 1) /\ (i /= 0 => i - 1 \in 0..(m - 1))
        BY <3>2
      <4> QED BY <2>4, <4>1
    <3> QED BY <3>1, <3>2
  <2>6. Solves(f, m)
    BY <2>3, <2>5
  <2> HIDE DEF f, Solves
  <2>7. m \in 0..n
    OBVIOUS
  <2> QED BY <2>3, <2>6, <2>7
<1>3. 0..n \subseteq T
  <2> HIDE DEF T
  <2> QED BY <1>1, <1>2, Steps
<1>4. PICK f \in [0..n -> D] : Solves(f, n)
  BY <1>3
<1>5. \A i \in 0..n : f[i] = IF i = 0 THEN base ELSE step[i][f[i - 1]]
  BY <1>4
<1>6. 0 \in 0..n /\ \A i \in 1..n : i \in 0..n /\ i /= 0
  OBVIOUS
<1>7. f[0] = base /\ \A i \in 1..n : f[i] = step[i][f[i - 1]]
  BY <1>5, <1>6
<1> QED BY <1>7 DEF Values

\* Of the directories above a path that are in a set, one has no other of them above it.
LEMMA Topmost ==
    ASSUME NEW p \in DOMAIN Above, NEW B, NEW d \in Above[p], d \in B
    PROVE  \E q \in Above[p] : q \in B /\ \A e \in Above[q] : e \notin B
<1> DEFINE S == Above[p] \intersect B
           Depth(q) == Cardinality(Above[q])
           T == {Depth(q) : q \in S}
<1>1. \A q \in S : IsFiniteSet(Above[q]) /\ Depth(q) \in Nat
  <2>1. \A q \in S : q \in DOMAIN Above /\ Above[q] \subseteq DOMAIN Above
    BY TreeAssumption
  <2> QED BY <2>1, TreeAssumption, FS_Subset, FS_CardinalityType
<1>2. PICK q \in S : \A e \in S : Depth(q) <= Depth(e)
  <2>1. T \subseteq Nat /\ T /= {}
    BY <1>1
  <2>2. PICK n \in T : \A m \in T : n <= m
    BY <2>1, Smallest
  <2> QED BY <2>2
<1>3. ASSUME NEW e \in Above[q], e \in B PROVE FALSE
  <2>1. Above[q] \subseteq Above[p] /\ e \in S /\ Above[e] \subseteq Above[q] /\ e \notin Above[e]
    BY <1>3, TreeAssumption
  <2>2. IsFiniteSet(Above[q]) /\ Depth(e) \in Nat /\ Depth(q) \in Nat /\ Depth(q) <= Depth(e)
    BY <1>1, <1>2, <2>1
  <2>3. Depth(e) <= Depth(q) /\ (Depth(q) = Depth(e) => Above[q] = Above[e])
    BY <2>1, <2>2, FS_Subset
  <2>4. Depth(q) = Depth(e)
    BY <2>2, <2>3
  <2> QED BY <1>3, <2>1, <2>3, <2>4
<1> QED BY <1>2, <1>3

-----------------------------------------------------------------------------
\* jsongate: what a finding calls for on its own, and what a result says of the
\* findings that were weighed.
Calls(f, policy) ==
    IF JG!Denies(f, policy) THEN "deny"
    ELSE IF JG!NeedsApproval(f, policy) THEN "approval_required" ELSE "pass"

Worst(S, policy) ==
    IF \E f \in S : Calls(f, policy) = "deny" THEN "deny"
    ELSE IF \E f \in S : Calls(f, policy) = "approval_required" THEN "approval_required" ELSE "pass"

Weighed(result, S, policy) ==
    /\ result.decision = Worst(S, policy) /\ result.reasons \subseteq S
    /\ result.decision /= "pass" => \E f \in result.reasons : Calls(f, policy) = result.decision
    /\ \A f \in result.reasons : Calls(f, policy) /= "pass"
    /\ \A f \in S : Calls(f, policy) = "deny" => f \in result.reasons

Results(S) == [decision : {"deny", "approval_required", "pass"}, reasons : SUBSET S]

\* A finding more.
LEMMA WeighOne ==
    ASSUME NEW S, NEW W \in SUBSET S, NEW f \in S, NEW policy, NEW result \in Results(S),
           Weighed(result, W, policy)
    PROVE  /\ JG!Weigh(result, f, policy) \in Results(S)
           /\ Weighed(JG!Weigh(result, f, policy), W \union {f}, policy)
<1> DEFINE new == JG!Weigh(result, f, policy)
<1>0. /\ result.decision \in {"deny", "approval_required", "pass"} /\ result.reasons \in SUBSET S
      /\ result.decision = Worst(W, policy) /\ result.reasons \subseteq W
      /\ result.decision /= "pass" => \E g \in result.reasons : Calls(g, policy) = result.decision
      /\ \A g \in result.reasons : Calls(g, policy) /= "pass"
      /\ \A g \in W : Calls(g, policy) = "deny" => g \in result.reasons
  BY DEF Results, Weighed
<1>1. CASE Calls(f, policy) = "deny"
  <2>1. new = [decision |-> "deny", reasons |-> result.reasons \union {f}]
    BY <1>1 DEF Calls, JG!Weigh, JG!Because
  <2>2. Worst(W \union {f}, policy) = "deny"
    BY <1>1 DEF Worst
  <2> HIDE DEF new
  <2>4. new.decision = Calls(f, policy) /\ new.reasons = result.reasons \union {f}
    BY <1>1, <2>1
  <2>5. new \in Results(S)
    BY <1>0, <2>1 DEF Results
  <2>6. Weighed(new, W \union {f}, policy)
    <3>1. \A g \in W \union {f} : Calls(g, policy) = "deny" => g \in new.reasons
      BY <1>0, <2>4
    <3>2. \A g \in new.reasons : Calls(g, policy) /= "pass"
      BY <1>0, <1>1, <2>4
    <3> QED BY <1>0, <1>1, <2>2, <2>4, <3>1, <3>2 DEF Weighed
  <2> QED BY <2>5, <2>6 DEF new
<1>2. CASE Calls(f, policy) = "approval_required" /\ result.decision = "pass"
  <2>1. new = [decision |-> "approval_required", reasons |-> result.reasons \union {f}]
    BY <1>2 DEF Calls, JG!Weigh, JG!Because
  <2>2. Worst(W, policy) = "pass"
    BY <1>2 DEF Weighed
  <2>3. Worst(W \union {f}, policy) = "approval_required"
    BY <1>2, <2>2 DEF Worst
  <2> HIDE DEF new
  <2>4. new.decision = Calls(f, policy) /\ new.reasons = result.reasons \union {f}
    BY <1>2, <2>1
  <2>5. new \in Results(S)
    BY <1>0, <2>1 DEF Results
  <2>6. Weighed(new, W \union {f}, policy)
    <3>1. \A g \in W \union {f} : Calls(g, policy) = "deny" => g \in new.reasons
      BY <1>0, <2>4
    <3>2. \A g \in new.reasons : Calls(g, policy) /= "pass"
      BY <1>0, <1>2, <2>4
    <3> QED BY <1>0, <1>2, <2>3, <2>4, <3>1, <3>2 DEF Weighed
  <2> QED BY <2>5, <2>6 DEF new
<1>3. CASE Calls(f, policy) = "pass" \/ (Calls(f, policy) = "approval_required" /\ result.decision /= "pass")
  <2>1. new = result
    BY <1>3 DEF Calls, JG!Weigh
  <2>2. Worst(W \union {f}, policy) = Worst(W, policy)
    BY <1>3 DEF Weighed, Worst
  <2>3. Weighed(result, W \union {f}, policy)
    BY <1>0, <1>3, <2>2 DEF Weighed
  <2> QED BY <2>1, <2>3
<1> QED BY <1>1, <1>2, <1>3 DEF Calls

\* All of them.
LEMMA EvaluateWeighs ==
    ASSUME NEW S, NEW findings \in Seq(S), NEW policy
    PROVE  Weighed(JG!Evaluate(findings, policy), {findings[i] : i \in DOMAIN findings}, policy)
<1> DEFINE n == Len(findings)
           start == [decision |-> "pass", reasons |-> {}]
           D == Results(S)
           step == [i \in 1..n |-> [r \in D |-> JG!Weigh(r, findings[i], policy)]]
           Upto(i) == {findings[j] : j \in 1..i}
<1>0. n \in Nat /\ DOMAIN findings = 1..n /\ \A i \in 1..n : findings[i] \in S
  OBVIOUS
<1>1. \A r \in D, f \in S : JG!Weigh(r, f, policy) \in D
  <2> SUFFICES ASSUME NEW r \in D, NEW f \in S PROVE JG!Weigh(r, f, policy) \in D
    OBVIOUS
  <2>1. r.decision \in {"deny", "approval_required", "pass"} /\ r.reasons \in SUBSET S
    BY DEF Results
  <2> QED BY <2>1 DEF Results, JG!Weigh, JG!Because
<1>2. start \in D /\ step \in [1..n -> [D -> D]]
  <2> HIDE DEF n
  <2>1. start \in D
    BY DEF Results
  <2> HIDE DEF D
  <2> QED BY <1>0, <1>1, <2>1
<1>3. PICK w : w \in Values(n, D, start, step)
  <2> HIDE DEF n, D, start, step
  <2>1. n \in Nat /\ start \in D /\ step \in [1..n -> [D -> D]]
    BY <1>0, <1>2
  <2> QED BY <2>1, Loop
<1>4. w \in [0..n -> D] /\ w[0] = start /\ \A i \in 1..n : w[i] = step[i][w[i - 1]]
  <2> HIDE DEF n, D, start, step
  <2> QED BY <1>3 DEF Values
<1>5. \A i \in 0..n : w[i] = IF i = 0 THEN start ELSE JG!Weigh(w[i - 1], findings[i], policy)
  <2> SUFFICES ASSUME NEW i \in 0..n
               PROVE  w[i] = IF i = 0 THEN start ELSE JG!Weigh(w[i - 1], findings[i], policy)
    OBVIOUS
  <2>1. CASE i = 0
    BY <1>4, <2>1
  <2>2. CASE i /= 0
    <3>1. i \in 1..n /\ i - 1 \in 0..n
      BY <1>0, <2>2
    <3>2. w[i - 1] \in D
      <4> HIDE DEF D
      <4> QED BY <1>4, <3>1
    <3>3. w[i] = step[i][w[i - 1]]
      BY <1>4, <3>1
    <3> HIDE DEF D
    <3> QED BY <2>2, <3>1, <3>2, <3>3
  <2> QED BY <2>1, <2>2
<1>6. w = [i \in 0..n |-> IF i = 0 THEN start ELSE JG!Weigh(w[i - 1], findings[i], policy)]
  <2> HIDE DEF n, D, start
  <2> QED BY <1>4, <1>5
<1> DEFINE Is(v) == v = [i \in 0..n |-> IF i = 0 THEN start ELSE JG!Weigh(v[i - 1], findings[i], policy)]
           weighed == CHOOSE v : Is(v)
<1>7. Is(weighed)
  BY <1>6
<1>8. JG!Evaluate(findings, policy) = weighed[n]
  BY DEF JG!Evaluate
<1>9. \A i \in 0..n : weighed[i] = IF i = 0 THEN start ELSE JG!Weigh(weighed[i - 1], findings[i], policy)
  <2> HIDE DEF weighed, n, start
  <2> QED BY <1>7
<1> HIDE DEF weighed
<1>10. weighed[n] \in D /\ Weighed(weighed[n], Upto(n), policy)
  <2> HIDE DEF n
  <2> DEFINE T == {i \in 0..n : weighed[i] \in D /\ Weighed(weighed[i], Upto(i), policy)}
  <2>1. 0 \in T
    <3>1. weighed[0] = start /\ Upto(0) = {}
      BY <1>0, <1>9
    <3>2. Weighed(start, {}, policy)
      BY DEF Weighed, Worst
    <3>3. weighed[0] \in D /\ Weighed(weighed[0], Upto(0), policy)
      <4> HIDE DEF start, Upto, D
      <4> QED BY <1>2, <3>1, <3>2, Zenon
    <3> HIDE DEF D, Upto
    <3> QED BY <1>0, <3>3
  <2>2. ASSUME NEW i \in 1..n, i - 1 \in T PROVE i \in T
    <3>1. i \in 0..n /\ i - 1 \in 0..n /\ i /= 0
      BY <1>0
    <3>2. weighed[i] = JG!Weigh(weighed[i - 1], findings[i], policy)
      BY <1>9, <3>1
    <3>3. Upto(i) = Upto(i - 1) \union {findings[i]} /\ Upto(i - 1) \in SUBSET S
      <4>1. \A j \in 1..i : j = i \/ j \in 1..(i - 1)
        OBVIOUS
      <4>2. 1..(i - 1) \subseteq 1..i /\ 1..(i - 1) \subseteq 1..n
        BY <1>0
      <4> QED BY <1>0, <4>1, <4>2
    <3>4. weighed[i - 1] \in Results(S) /\ findings[i] \in S /\ Weighed(weighed[i - 1], Upto(i - 1), policy)
      BY <1>0, <2>2
    <3> HIDE DEF Upto
    <3>5. /\ JG!Weigh(weighed[i - 1], findings[i], policy) \in Results(S)
          /\ Weighed(JG!Weigh(weighed[i - 1], findings[i], policy), Upto(i - 1) \union {findings[i]}, policy)
      BY <3>3, <3>4, WeighOne
    <3>6. weighed[i] \in D /\ Weighed(weighed[i], Upto(i), policy)
      BY <3>2, <3>3, <3>5, Zenon
    <3> HIDE DEF D
    <3> QED BY <3>1, <3>6
  <2>3. n \in T
    <3> HIDE DEF T
    <3>1. 0..n \subseteq T
      BY <1>0, <2>1, <2>2, Steps
    <3> QED BY <1>0, <3>1
  <2> HIDE DEF D, Upto
  <2> QED BY <2>3
<1>11. {findings[i] : i \in DOMAIN findings} = Upto(n)
  BY <1>0
<1> HIDE DEF Upto, n
<1> QED BY <1>8, <1>10, <1>11

\* One finding calls for what it is worth alone.
LEMMA AloneCalls ==
    ASSUME NEW f, NEW policy
    PROVE  JG!Evaluate(<<f>>, policy).decision = Calls(f, policy)
<1>1. <<f>> \in Seq({f})
  OBVIOUS
<1>2. Weighed(JG!Evaluate(<<f>>, policy), {<<f>>[i] : i \in DOMAIN <<f>>}, policy)
  BY <1>1, EvaluateWeighs
<1>3. {<<f>>[i] : i \in DOMAIN <<f>>} = {f}
  OBVIOUS
<1>4. JG!Evaluate(<<f>>, policy).decision = Worst({f}, policy)
  BY <1>2, <1>3 DEF Weighed
<1> QED BY <1>4 DEF Worst, Calls

\* jsongate decides for the worst of any findings in any order, under any policy
\* (internal/jsongate, Evaluate).
LEMMA GateIsRight ==
    ASSUME NEW in, NEW S, in.lines \in Seq(S)
    PROVE  JG!DecisionIsTheWorst(in, JG!Gate(in))
<1> DEFINE out == JG!Gate(in)
           policy == in.policy
           findings == {in.lines[i] : i \in DOMAIN in.lines}
           result == JG!Evaluate(in.lines, policy)
           Alone(f) == JG!Evaluate(<<f>>, policy).decision
<1>1. JG!Range(in.lines) = findings
  BY DEF JG!Range
<1>2. CASE ~JG!LoadPolicy(policy) \/ ~JG!Decode(in.lines)
  <2>1. out.exit = 2
    BY <1>2 DEF JG!Gate
  <2> QED BY <2>1 DEF JG!DecisionIsTheWorst
<1>3. CASE JG!LoadPolicy(policy) /\ JG!Decode(in.lines)
  <2>1. out = [exit |-> IF result.decision = "deny" THEN 1 ELSE 0,
               decision |-> result.decision, reasons |-> result.reasons]
    BY <1>3 DEF JG!Gate
  <2>2. /\ out.exit = 1 <=> out.decision = "deny"
        /\ out.decision = result.decision /\ out.reasons = result.reasons
    BY <2>1
  <2>3. Weighed(result, findings, policy)
    BY EvaluateWeighs
  <2>4. \A f : Alone(f) = Calls(f, policy)
    BY AloneCalls
  <2>5. \A f \in findings : f.code /= JG!NoCode /\ JG!validSeverity(f.severity)
    BY <1>3 DEF JG!Decode
  <2> HIDE DEF findings, result
  <2>6. /\ out.decision = IF \E f \in findings : Alone(f) = "deny" THEN "deny"
                          ELSE IF \E f \in findings : Alone(f) = "approval_required"
                          THEN "approval_required" ELSE "pass"
        /\ out.decision /= "pass" => \E f \in out.reasons : Alone(f) = out.decision
        /\ \A f \in out.reasons : Alone(f) /= "pass"
        /\ \A f \in findings : Alone(f) = "deny" => f \in out.reasons
    <3> HIDE DEF Alone
    <3> QED BY <2>2, <2>3, <2>4 DEF Weighed, Worst
  <2> QED BY <1>1, <2>2, <2>5, <2>6 DEF JG!DecisionIsTheWorst
<1> QED BY <1>2, <1>3

-----------------------------------------------------------------------------
\* hashsum: what create writes of a path that it could hash.
Hashes(tree, paths) ==
    {HV!hashFile(tree, paths[i].path) : i \in {j \in DOMAIN paths : HV!Hashable(tree, paths[j])}}

\* The manifest holds only such.
LEMMA FilesAreHashed ==
    ASSUME NEW tree, NEW S, NEW paths \in Seq(S)
    PROVE  HV!Files(tree, paths) \in Seq(Hashes(tree, paths))
<1> DEFINE n == Len(paths)
           D == Seq(Hashes(tree, paths))
           More(i, r) == IF HV!Hashable(tree, paths[i])
                         THEN Append(r, HV!hashFile(tree, paths[i].path)) ELSE r
           step == [i \in 1..n |-> [r \in D |-> More(i, r)]]
           Is(v) == v = [i \in 0..n |-> IF i = 0 THEN <<>> ELSE
                         IF HV!Hashable(tree, paths[i])
                         THEN Append(v[i - 1], HV!hashFile(tree, paths[i].path)) ELSE v[i - 1]]
<1>0. n \in Nat /\ DOMAIN paths = 1..n
  OBVIOUS
<1>1. \A i \in 1..n : \A r \in D : More(i, r) \in D
  <2> SUFFICES ASSUME NEW i \in 1..n, NEW r \in D PROVE More(i, r) \in D
    OBVIOUS
  <2>1. CASE HV!Hashable(tree, paths[i])
    <3>1. HV!hashFile(tree, paths[i].path) \in Hashes(tree, paths)
      BY <1>0, <2>1 DEF Hashes
    <3> QED BY <2>1, <3>1
  <2> QED BY <2>1
<1>2. <<>> \in D /\ step \in [1..n -> [D -> D]]
  <2>1. <<>> \in D
    OBVIOUS
  <2> HIDE DEF n, D, More
  <2> QED BY <1>1, <2>1
<1>3. PICK w : w \in Values(n, D, <<>>, step)
  <2> HIDE DEF n, D, step
  <2>1. n \in Nat
    BY <1>0
  <2> QED BY <1>2, <2>1, Loop
<1>4. w \in [0..n -> D] /\ w[0] = <<>> /\ \A i \in 1..n : w[i] = step[i][w[i - 1]]
  <2> HIDE DEF n, D, step
  <2> QED BY <1>3 DEF Values
<1>5. \A i \in 0..n : w[i] = IF i = 0 THEN <<>> ELSE More(i, w[i - 1])
  <2> SUFFICES ASSUME NEW i \in 0..n PROVE w[i] = IF i = 0 THEN <<>> ELSE More(i, w[i - 1])
    OBVIOUS
  <2>1. CASE i = 0
    BY <1>4, <2>1
  <2>2. CASE i /= 0
    <3>1. i \in 1..n /\ i - 1 \in 0..n
      BY <1>0, <2>2
    <3>2. w[i - 1] \in D
      <4> HIDE DEF D
      <4> QED BY <1>4, <3>1
    <3>3. w[i] = step[i][w[i - 1]]
      BY <1>4, <3>1
    <3> HIDE DEF D, More
    <3> QED BY <2>2, <3>1, <3>2, <3>3
  <2> QED BY <2>1, <2>2
<1>6. Is(w)
  <2> HIDE DEF n, D
  <2> QED BY <1>4, <1>5
<1> DEFINE hashed == CHOOSE v : Is(v)
<1>7. Is(hashed)
  BY <1>6
<1>8. HV!Files(tree, paths) = hashed[n]
  BY DEF HV!Files
<1>9. \A i \in 0..n : hashed[i] = IF i = 0 THEN <<>> ELSE More(i, hashed[i - 1])
  <2> HIDE DEF hashed, n
  <2> QED BY <1>7
<1> HIDE DEF hashed, Is
<1> DEFINE T == {i \in 0..n : hashed[i] \in D}
<1>10. 0 \in T
  <2> HIDE DEF D, More
  <2>1. 0 \in 0..n
    BY <1>0
  <2>2. hashed[0] = <<>>
    BY <1>9, <2>1
  <2>3. hashed[0] \in D
    BY <1>2, <2>2
  <2> QED BY <2>1, <2>3
<1>11. ASSUME NEW i \in 1..n, i - 1 \in T PROVE i \in T
  <2>1. i \in 0..n /\ i /= 0 /\ hashed[i - 1] \in D
    BY <1>0, <1>11
  <2>2. hashed[i] = More(i, hashed[i - 1])
    BY <1>9, <2>1
  <2>3. hashed[i] \in D
    <3> HIDE DEF D, More
    <3> QED BY <1>1, <2>1, <2>2
  <2> HIDE DEF D
  <2> QED BY <2>1, <2>3
<1>12. n \in T
  <2> HIDE DEF T
  <2>1. 0..n \subseteq T
    BY <1>0, <1>10, <1>11, Steps
  <2> QED BY <1>0, <2>1
<1> HIDE DEF n
<1> QED BY <1>8, <1>12

\* An element of a sequence.
LEMMA ElementOf ==
    ASSUME NEW S, NEW s \in Seq(S), NEW i \in DOMAIN s
    PROVE  s[i] \in S
  OBVIOUS

\* A sequence with the same element at two places has fewer elements than places.
LEMMA TwiceIsFewer ==
    ASSUME NEW S, NEW s \in Seq(S)
    PROVE  /\ IsFiniteSet({s[i] : i \in DOMAIN s})
           /\ (\E i, j \in DOMAIN s : i /= j /\ s[i] = s[j])
                => Cardinality({s[i] : i \in DOMAIN s}) < Len(s)
           /\ ~(\E i, j \in DOMAIN s : i /= j /\ s[i] = s[j])
                => Cardinality({s[i] : i \in DOMAIN s}) = Len(s)
<1> DEFINE R == {s[i] : i \in DOMAIN s}
<1>0. Len(s) \in Nat /\ DOMAIN s = 1..Len(s)
  OBVIOUS
<1>1. IsFiniteSet(1..Len(s)) /\ Cardinality(1..Len(s)) = Len(s)
  BY <1>0, FS_Interval
<1>2. s \in Surjection(1..Len(s), R)
  BY <1>0 DEF Surjection
<1>3. /\ IsFiniteSet(R) /\ Cardinality(R) \in Nat /\ Cardinality(R) <= Len(s)
      /\ Cardinality(R) = Len(s) <=> s \in Injection(1..Len(s), R)
  <2> HIDE DEF R
  <2> QED BY <1>1, <1>2, FS_Surjection, FS_CardinalityType
<1>4. s \in [1..Len(s) -> R]
  BY <1>2 DEF Surjection
<1>5. s \in Injection(1..Len(s), R) <=> ~(\E i, j \in DOMAIN s : i /= j /\ s[i] = s[j])
  <2> HIDE DEF R
  <2> QED BY <1>0, <1>4 DEF Injection, IsInjective
<1> HIDE DEF R
<1> QED BY <1>0, <1>3, <1>5 DEF R

\* What is in a manifest that create wrote over a tree.
Faithful(files, in, names) ==
    /\ files \in Seq(Hashes(in.before, in.paths))
    /\ \A i \in DOMAIN files :
         /\ files[i].path \in names /\ files[i].form = "plain"
         /\ in.before[files[i].path].kind \in {"file", "changing"}
         /\ files[i].digests = {in.before[files[i].path].content}
         /\ files[i].status = IF in.before[files[i].path].kind = "changing"
                              THEN "unstable" ELSE "stable"
         /\ files[i] = HV!hashFile(in.before, files[i].path)
    /\ \A i, j \in DOMAIN files : files[i].path = files[j].path => files[i] = files[j]

LEMMA CreateWrites ==
    ASSUME NEW names, NEW contents, NEW in \in HV!Inputs(names, contents)
    PROVE  Faithful(HV!Create(in.before, in.paths).files, in, names)
<1> DEFINE files == HV!Create(in.before, in.paths).files
<1>1. files = HV!Files(in.before, in.paths)
  BY DEF HV!Create
<1>2. in.paths \in Seq([path : names, form : HV!Forms])
  BY DEF HV!Inputs
<1>3. files \in Seq(Hashes(in.before, in.paths))
  BY <1>1, <1>2, FilesAreHashed
<1>4. ASSUME NEW h \in Hashes(in.before, in.paths)
      PROVE  /\ h.path \in names /\ h = HV!hashFile(in.before, h.path)
             /\ in.before[h.path].kind \in {"file", "changing"}
  <2>1. PICK i \in DOMAIN in.paths : h = HV!hashFile(in.before, in.paths[i].path)
                                     /\ HV!Hashable(in.before, in.paths[i])
    BY DEF Hashes
  <2>2. in.paths[i].path \in names
    <3>1. in.paths[i] \in [path : names, form : HV!Forms]
      BY <1>2, ElementOf
    <3> QED BY <3>1
  <2>3. h.path = in.paths[i].path
    BY <2>1 DEF HV!hashFile
  <2> QED BY <2>1, <2>2, <2>3 DEF HV!Hashable
<1>5. \A i \in DOMAIN files : files[i] \in Hashes(in.before, in.paths)
  BY <1>3
<1> HIDE DEF files
<1>6. ASSUME NEW i \in DOMAIN files
      PROVE  /\ files[i].path \in names /\ files[i].form = "plain"
             /\ in.before[files[i].path].kind \in {"file", "changing"}
             /\ files[i].digests = {in.before[files[i].path].content}
             /\ files[i].status = IF in.before[files[i].path].kind = "changing"
                                  THEN "unstable" ELSE "stable"
             /\ files[i] = HV!hashFile(in.before, files[i].path)
  BY <1>4, <1>5 DEF HV!hashFile
<1>7. \A i, j \in DOMAIN files : files[i].path = files[j].path => files[i] = files[j]
  BY <1>6
<1>8. Faithful(files, in, names)
  BY <1>3, <1>6, <1>7 DEF Faithful
<1> QED BY <1>8 DEF files

\* An instance of FiniteSets counts as FiniteSets does.
LEMMA SameCount ==
    ASSUME NEW S
    PROVE  HV!Cardinality(S) = Cardinality(S)
  BY Zenon DEF HV!Cardinality, Cardinality, HV!IsFiniteSet, IsFiniteSet

\* hashsum verify tells what is not as hashsum create found it, of any trees, paths
\* and edits of the manifest (internal/hashsum, Create and Verify).
LEMMA VerifyIsRight ==
    ASSUME NEW names, NEW contents, NEW in \in HV!Inputs(names, contents)
    PROVE  HV!VerifyTellsChanges(in, HV!RoundTrip(in))
<1> DEFINE files == HV!Create(in.before, in.paths).files
           manifest == HV!Edit(files, in.edit)
           kind(p) == in.after[p].kind
           Kept(f) == kind(f.path) = "file" /\ f.digests = {in.after[f.path].content}
           F == {files[i] : i \in DOMAIN files}
           M == {manifest.files[i] : i \in DOMAIN manifest.files}
           listed == {f.path : f \in F}
           twice == Cardinality(F) < Len(files)
           others == HV!Unexpected(in.after, listed, in)
           records == {[path |-> f.path, status |-> HV!StatusOf(in.after, f)] : f \in M}
                      \union {[path |-> p, status |-> "unexpected"] : p \in others}
           out == HV!RoundTrip(in)
           verify == HV!Verify(in.after, manifest, in)
<1>1. /\ in.before \in [names -> [kind : HV!Kinds, content : contents]]
      /\ in.after \in [names -> [kind : HV!Kinds, content : contents]]
      /\ in.edit \in HV!Edits /\ in.unexpected \in BOOLEAN /\ in.listable \in BOOLEAN
  BY DEF HV!Inputs
<1>2. /\ files \in Seq(Hashes(in.before, in.paths))
      /\ \A i \in DOMAIN files :
           /\ files[i].path \in names /\ files[i].form = "plain"
           /\ in.before[files[i].path].kind \in {"file", "changing"}
           /\ files[i].digests = {in.before[files[i].path].content}
           /\ files[i].status = IF in.before[files[i].path].kind = "changing"
                                THEN "unstable" ELSE "stable"
           /\ files[i] = HV!hashFile(in.before, files[i].path)
      /\ \A i, j \in DOMAIN files : files[i].path = files[j].path => files[i] = files[j]
  <2>1. Faithful(files, in, names)
    BY CreateWrites
  <2> HIDE DEF files
  <2> QED BY <2>1 DEF Faithful
<1>3. out.create.files = files /\ out.verify = verify
  BY DEF HV!RoundTrip
<1> HIDE DEF files
\* What another hand leaves of the manifest.
<1>4. /\ manifest.schema = (IF in.edit = "schema" THEN "v2" ELSE "v1")
      /\ manifest.algorithms = (IF in.edit = "algorithm" THEN {"sha256", "md5"} ELSE {"sha256", "blake3"})
      /\ DOMAIN manifest.files = DOMAIN files
      /\ \A i \in DOMAIN files :
           /\ manifest.files[i].path = files[i].path
           /\ manifest.files[i].digests = IF in.edit = "digests" THEN {} ELSE files[i].digests
           /\ manifest.files[i].form = IF in.edit \in HV!Forms THEN in.edit ELSE "plain"
  <2>1. \A i \in DOMAIN files : files[i] = [path |-> files[i].path, form |-> "plain",
            digests |-> files[i].digests, status |-> files[i].status]
    BY <1>2 DEF HV!hashFile
  <2>2. CASE in.edit = "digests"
    <3>1. manifest.files = [i \in DOMAIN files |-> [files[i] EXCEPT !.digests = {}]]
      BY <2>2 DEF HV!Edit, HV!Forms
    <3>2. /\ manifest.schema = "v1" /\ manifest.algorithms = {"sha256", "blake3"}
      BY <2>2 DEF HV!Edit
    <3>3. in.edit \notin HV!Forms
      BY <2>2 DEF HV!Forms
    <3> HIDE DEF manifest
    <3> QED BY <1>2, <2>1, <2>2, <3>1, <3>2, <3>3
  <2>3. CASE in.edit \in HV!Forms
    <3>1. in.edit \notin {"digests", "schema", "algorithm"}
      BY <2>3 DEF HV!Forms
    <3>2. manifest.files = [i \in DOMAIN files |-> [files[i] EXCEPT !.form = in.edit]]
      BY <2>3, <3>1 DEF HV!Edit
    <3>3. /\ manifest.schema = "v1" /\ manifest.algorithms = {"sha256", "blake3"}
      BY <3>1 DEF HV!Edit
    <3> HIDE DEF manifest
    <3> QED BY <1>2, <2>1, <2>3, <3>1, <3>2, <3>3
  <2>4. CASE in.edit \notin HV!Forms \union {"digests"}
    <3>1. manifest.files = files
      BY <2>4 DEF HV!Edit
    <3>2. /\ manifest.schema = (IF in.edit = "schema" THEN "v2" ELSE "v1")
          /\ manifest.algorithms = (IF in.edit = "algorithm" THEN {"sha256", "md5"} ELSE {"sha256", "blake3"})
      BY DEF HV!Edit
    <3> HIDE DEF manifest
    <3> QED BY <1>2, <2>4, <3>1, <3>2
  <2> QED BY <2>2, <2>3, <2>4
<1> HIDE DEF manifest
<1>5. listed = {f.path : f \in M}
  BY <1>4
\* What verify says of one file.
<1>6. ASSUME NEW i \in DOMAIN files, HV!withinRoot(in.after, manifest.files[i])
      PROVE  /\ HV!StatusOf(in.after, manifest.files[i]) = "ok" => Kept(files[i])
             /\ in.edit /= "digests" /\ Kept(files[i]) => HV!StatusOf(in.after, manifest.files[i]) = "ok"
  <2> DEFINE p == files[i].path
             m == manifest.files[i]
  <2>1. p \in names /\ files[i].digests = {in.before[p].content} /\ m.path = p
        /\ m.digests = IF in.edit = "digests" THEN {} ELSE files[i].digests
    BY <1>2, <1>4
  <2>2. kind(p) \in HV!Kinds /\ kind(p) /= "link out"
    <3>1. in.after[p] \in [kind : HV!Kinds, content : contents]
      BY <1>1, <2>1
    <3> QED BY <1>6, <2>1, <3>1 DEF HV!withinRoot
  <2>3. HV!StatusOf(in.after, m) = "ok" <=>
            kind(p) = "file" /\ HV!sameDigests(m.digests, {in.after[p].content})
    <3>1. HV!hashFile(in.after, p).digests = {in.after[p].content}
      BY DEF HV!hashFile
    <3> HIDE DEF p, m
    <3> QED BY <2>1, <2>2, <3>1 DEF HV!StatusOf, HV!Kinds
  <2> HIDE DEF m
  <2> QED BY <2>1, <2>3 DEF HV!sameDigests, m
<1>7. ASSUME ~HV!Refuses(in.after, manifest)
      PROVE  /\ verify.exit = IF \A r \in records : r.status = "ok" THEN 0 ELSE 1
             /\ verify.records = records
             /\ \A i \in DOMAIN files : HV!withinRoot(in.after, manifest.files[i])
  <2>1. HV!Range(manifest.files) = M
    BY DEF HV!Range
  <2>2. verify = [exit |-> IF \A r \in records : r.status = "ok" THEN 0 ELSE 1, records |-> records]
    BY <1>5, <1>7, <2>1, Zenon DEF HV!Verify
  <2>3. \A i \in DOMAIN files : HV!withinRoot(in.after, manifest.files[i])
    BY <1>4, <1>7 DEF HV!Refuses
  <2>4. /\ verify.exit = IF \A r \in records : r.status = "ok" THEN 0 ELSE 1
        /\ verify.records = records
    <3> DEFINE all == \A r \in records : r.status = "ok"
    <3> HIDE DEF verify, records, all
    <3>1. verify = [exit |-> IF all THEN 0 ELSE 1, records |-> records]
      BY <2>2 DEF all
    <3>2. verify.exit = (IF all THEN 0 ELSE 1) /\ verify.records = records
      BY <3>1
    <3> QED BY <3>2 DEF all
  <2> HIDE DEF verify, records
  <2> QED BY <2>3, <2>4
<1>8. HV!Refuses(in.after, manifest) => verify.exit = 2
  BY DEF HV!Verify, HV!Refused
\* Two entries for one path make the manifest longer than the files in it.
<1>9. twice <=> \E i, j \in DOMAIN files : i /= j /\ files[i].path = files[j].path
  <2>1. twice <=> \E i, j \in DOMAIN files : i /= j /\ files[i] = files[j]
    <3>1. /\ IsFiniteSet(F)
          /\ (\E i, j \in DOMAIN files : i /= j /\ files[i] = files[j]) => Cardinality(F) < Len(files)
          /\ ~(\E i, j \in DOMAIN files : i /= j /\ files[i] = files[j]) => Cardinality(F) = Len(files)
      BY <1>2, TwiceIsFewer, Zenon
    <3>2. Len(files) \in Nat
      BY <1>2
    <3> HIDE DEF F
    <3> QED BY <3>1, <3>2
  <2> QED BY <1>2, <2>1
<1>10. verify.exit = 0 => /\ \A f \in F : Kept(f)
                          /\ in.unexpected /\ in.listable => \A p \in DOMAIN in.after :
                               kind(p) \in HV!Regular => p \in listed
  <2> SUFFICES ASSUME verify.exit = 0
               PROVE  /\ \A f \in F : Kept(f)
                      /\ in.unexpected /\ in.listable => \A p \in DOMAIN in.after :
                           kind(p) \in HV!Regular => p \in listed
    OBVIOUS
  <2>1. ~HV!Refuses(in.after, manifest)
    BY <1>8
  <2>2. \A r \in records : r.status = "ok"
    <3>1. verify.exit = IF \A r \in records : r.status = "ok" THEN 0 ELSE 1
      BY <1>7, <2>1
    <3> HIDE DEF verify, records
    <3> QED BY <3>1
  <2>3. \A i \in DOMAIN files : HV!StatusOf(in.after, manifest.files[i]) = "ok"
    <3> SUFFICES ASSUME NEW i \in DOMAIN files PROVE HV!StatusOf(in.after, manifest.files[i]) = "ok"
      OBVIOUS
    <3> DEFINE r == [path |-> manifest.files[i].path, status |-> HV!StatusOf(in.after, manifest.files[i])]
    <3>1. r \in records
      BY <1>4
    <3> QED BY <2>2, <3>1
  <2>4. \A f \in F : Kept(f)
    BY <1>6, <1>7, <2>1, <2>3
  <2>5. others = {}
    <3> SUFFICES ASSUME NEW p \in others PROVE FALSE
      OBVIOUS
    <3>1. [path |-> p, status |-> "unexpected"] \in records
      OBVIOUS
    <3> HIDE DEF records
    <3> QED BY <2>2, <3>1
  <2> QED BY <2>4, <2>5 DEF HV!Unexpected
<1>11. verify.exit = 1 => \A f \in F : \E r \in verify.records :
            r.path = f.path /\ (r.status = "ok" => Kept(f)) /\ (in.edit /= "digests" /\ Kept(f) => r.status = "ok")
  <2> SUFFICES ASSUME verify.exit = 1, NEW i \in DOMAIN files
               PROVE  \E r \in verify.records :
                        /\ r.path = files[i].path /\ (r.status = "ok" => Kept(files[i]))
                        /\ in.edit /= "digests" /\ Kept(files[i]) => r.status = "ok"
    OBVIOUS
  <2>1. ~HV!Refuses(in.after, manifest)
    BY <1>8
  <2>2. verify.records = records /\ HV!withinRoot(in.after, manifest.files[i])
    BY <1>7, <2>1
  <2> DEFINE r == [path |-> manifest.files[i].path, status |-> HV!StatusOf(in.after, manifest.files[i])]
  <2>3. r \in records
    BY <1>4
  <2>4. r.path = files[i].path /\ r.status = HV!StatusOf(in.after, manifest.files[i])
    BY <1>4
  <2> HIDE DEF r, records, verify
  <2> QED BY <1>6, <2>2, <2>3, <2>4
<1>12. verify.exit = 2 => in.edit \notin {"none", "digests", "dotted"} \/ twice
            \/ \E f \in F : kind(f.path) = "link out"
  <2> SUFFICES ASSUME verify.exit = 2, in.edit \in {"none", "digests", "dotted"}, ~twice
               PROVE  \E f \in F : kind(f.path) = "link out"
    OBVIOUS
  <2>1. HV!Refuses(in.after, manifest)
    <3> SUFFICES ASSUME ~HV!Refuses(in.after, manifest) PROVE FALSE
      OBVIOUS
    <3>1. verify.exit = IF \A r \in records : r.status = "ok" THEN 0 ELSE 1
      BY <1>7
    <3> HIDE DEF verify, records
    <3> QED BY <3>1
  <2>2. manifest.schema = "v1" /\ manifest.algorithms = {"sha256", "blake3"}
    BY <1>4
  <2>3. \A i \in DOMAIN files : HV!normalizes(manifest.files[i])
    <3>1. "none" \notin HV!Forms /\ "digests" \notin HV!Forms
      BY DEF HV!Forms
    <3> QED BY <1>4, <3>1 DEF HV!normalizes
  <2>4. PICK i \in DOMAIN files : \/ ~HV!withinRoot(in.after, manifest.files[i])
                                  \/ \E j \in 1..(i - 1) : manifest.files[j].path = manifest.files[i].path
    BY <1>4, <2>1, <2>2, <2>3 DEF HV!Refuses
  <2>5. ~ \E j \in 1..(i - 1) : manifest.files[j].path = manifest.files[i].path
    <3> SUFFICES ASSUME NEW j \in 1..(i - 1), manifest.files[j].path = manifest.files[i].path PROVE FALSE
      OBVIOUS
    <3>1. Len(files) \in Nat /\ DOMAIN files = 1..Len(files)
      BY <1>2
    <3>2. j \in DOMAIN files /\ j /= i
      BY <3>1
    <3> HIDE DEF F
    <3> QED BY <1>4, <1>9, <3>2
  <2>6. kind(files[i].path) = "link out"
    <3>1. manifest.files[i].path = files[i].path
      BY <1>4
    <3>2. manifest.files[i].form \in {"plain", "dotted"}
      BY <2>3 DEF HV!normalizes
    <3> QED BY <2>4, <2>5, <3>1, <3>2 DEF HV!withinRoot
  <2> QED BY <2>6
<1>13. in.after = in.before /\ in.edit \in {"none", "dotted"} /\ ~twice /\ (\A f \in F : f.status = "stable") =>
            verify.exit = IF in.unexpected /\ in.listable /\ \E p \in DOMAIN in.after \ listed :
                                    kind(p) \in HV!Regular
                          THEN 1 ELSE 0
  <2> SUFFICES ASSUME in.after = in.before, in.edit \in {"none", "dotted"}, ~twice,
                      \A f \in F : f.status = "stable"
               PROVE  verify.exit = IF in.unexpected /\ in.listable /\ \E p \in DOMAIN in.after \ listed :
                                          kind(p) \in HV!Regular
                                    THEN 1 ELSE 0
    OBVIOUS
  <2>1. \A i \in DOMAIN files : kind(files[i].path) = "file" /\ Kept(files[i])
    <3> SUFFICES ASSUME NEW i \in DOMAIN files PROVE kind(files[i].path) = "file" /\ Kept(files[i])
      OBVIOUS
    <3>1. files[i].status = "stable"
      OBVIOUS
    <3> QED BY <1>2, <3>1
  <2>2. verify.exit /= 2
    <3>1. \A f \in F : kind(f.path) /= "link out"
      BY <2>1
    <3> HIDE DEF F, verify
    <3> QED BY <1>12, <3>1
  <2>3. ~HV!Refuses(in.after, manifest)
    BY <1>8, <2>2
  <2>4. verify.exit = IF \A r \in records : r.status = "ok" THEN 0 ELSE 1
    BY <1>7, <2>3
  <2>5. \A f \in M : HV!StatusOf(in.after, f) = "ok"
    BY <1>4, <1>6, <1>7, <2>1, <2>3
  <2>6. (\A r \in records : r.status = "ok") <=> others = {}
    <3>1. \A p \in others : [path |-> p, status |-> "unexpected"] \in records
      OBVIOUS
    <3>2. ASSUME NEW r \in records, r.status /= "ok" PROVE others /= {}
      <4>1. \A f \in M : [path |-> f.path, status |-> HV!StatusOf(in.after, f)].status = "ok"
        BY <2>5
      <4>2. ~ \E f \in M : r = [path |-> f.path, status |-> HV!StatusOf(in.after, f)]
        <5> HIDE DEF M, records, others
        <5> QED BY <3>2, <4>1
      <4> HIDE DEF M, others
      <4> QED BY <3>2, <4>2
    <3> HIDE DEF records, others
    <3> QED BY <3>1, <3>2
  <2>7. others /= {} <=> in.unexpected /\ in.listable /\ \E p \in DOMAIN in.after \ listed : kind(p) \in HV!Regular
    <3> HIDE DEF listed
    <3> QED BY DEF HV!Unexpected
  <2> HIDE DEF verify, records, others, listed
  <2> QED BY <2>4, <2>6, <2>7
<1>14. HV!VerifyTellsChanges(in, out)
  <2> HIDE DEF out
  <2> DEFINE G == HV!Range(out.create.files)
  <2>1. G = F /\ out.create.files = files /\ out.verify = verify
    BY <1>3 DEF HV!Range
  <2> HIDE DEF F, verify, G
  <2>2. out.verify.exit = 0 => /\ \A f \in G : Kept(f)
                               /\ in.unexpected /\ in.listable => \A p \in DOMAIN in.after :
                                    kind(p) \in HV!Regular => p \in {f.path : f \in G}
    BY <1>10, <2>1, Zenon
  <2>3. out.verify.exit = 1 => \A f \in G : \E r \in out.verify.records :
            r.path = f.path /\ (r.status = "ok" => Kept(f)) /\ (in.edit /= "digests" /\ Kept(f) => r.status = "ok")
    BY <1>11, <2>1, Zenon
  <2>4. out.verify.exit = 2 =>
            \/ in.edit \notin {"none", "digests", "dotted"} \/ HV!Cardinality(G) < Len(out.create.files)
            \/ \E f \in G : kind(f.path) = "link out"
    BY <1>12, <2>1, SameCount, Zenon
  <2>5. /\ in.after = in.before /\ in.edit \in {"none", "dotted"} /\ ~(HV!Cardinality(G) < Len(out.create.files))
        /\ \A f \in G : f.status = "stable"
        => out.verify.exit = IF in.unexpected /\ in.listable /\ \E p \in DOMAIN in.after \ {f.path : f \in G} :
                                    kind(p) \in HV!Regular
                             THEN 1 ELSE 0
    BY <1>13, <2>1, SameCount, Zenon
  <2> QED BY <2>2, <2>3, <2>4, <2>5, Zenon DEF HV!VerifyTellsChanges, G
<1> QED BY <1>14

-----------------------------------------------------------------------------
\* homestate --check: what compare makes of two scans.
Removed(old, live) == DOMAIN old \ DOMAIN live
Added(old, live) == DOMAIN live \ DOMAIN old
Candidates(old, live) ==
    {old[p].content : p \in {p \in Removed(old, live) : old[p].type = "file"}} \ {HC!NoHash}
From(old, live, c) == HC!SameContent(old, Removed(old, live), c)
To(old, live, c) == HC!SameContent(live, Added(old, live), c)
Status(old, live, c) ==
    IF HC!Cardinality(From(old, live, c)) = 1 /\ HC!Cardinality(To(old, live, c)) = 1
    THEN "moved" ELSE "ambiguous_move"
Move(old, live, c, p) ==
    [path |-> p, from |-> From(old, live, c), status |-> Status(old, live, c)]
Moves(old, live) ==
    UNION {{Move(old, live, c, p) : p \in To(old, live, c)} : c \in Candidates(old, live)}
Is(status, p) == [path |-> p, from |-> {}, status |-> status]

LEMMA CompareWhat ==
    ASSUME NEW old, NEW live, NEW x
    PROVE  x \in HC!compare(old, live) <=>
              \/ \E p \in DOMAIN old \intersect DOMAIN live :
                    ~HC!entryEqual(old[p], live[p]) /\ x = Is("modified", p)
              \/ x \in Moves(old, live)
              \/ \E p \in HC!Rest(Added(old, live), Moves(old, live)) : x = Is("added", p)
              \/ \E p \in HC!Rest(Removed(old, live), Moves(old, live)) : x = Is("removed", p)
BY DEF HC!compare, Removed, Added, Candidates, From, To, Status, Move, Moves, Is

LEMMA MovesAre ==
    ASSUME NEW old, NEW live, NEW x
    PROVE  x \in Moves(old, live) <=>
              \E c \in Candidates(old, live) : \E p \in To(old, live, c) : x = Move(old, live, c, p)
BY DEF Moves

\* A move leads to one new file, which says what moved, and from those with its content.
LEMMA MoveOfPath ==
    ASSUME NEW old, NEW live, NEW x \in Moves(old, live)
    PROVE  /\ x.path \in Added(old, live) /\ live[x.path].type = "file"
           /\ live[x.path].content \in Candidates(old, live)
           /\ x = Move(old, live, live[x.path].content, x.path)
           /\ x.from = From(old, live, live[x.path].content)
           /\ x.status = Status(old, live, live[x.path].content)
<1>0. PICK c \in Candidates(old, live) : \E p \in To(old, live, c) : x = Move(old, live, c, p)
  BY MovesAre
<1>1. PICK p \in To(old, live, c) : x = Move(old, live, c, p)
  BY <1>0
<1>2. x.path = p /\ x.from = From(old, live, c) /\ x.status = Status(old, live, c)
  BY <1>1 DEF Move
<1>3. p \in Added(old, live) /\ live[p].type = "file" /\ live[p].content = c
  BY DEF To, HC!SameContent
<1> QED BY <1>1, <1>2, <1>3

LEMMA MoveFromPath ==
    ASSUME NEW old, NEW live, NEW x \in Moves(old, live), NEW p \in x.from
    PROVE  /\ p \in Removed(old, live) /\ old[p].type = "file"
           /\ old[p].content = live[x.path].content /\ old[p].content /= HC!NoHash
<1>1. p \in From(old, live, live[x.path].content) /\ live[x.path].content \in Candidates(old, live)
  BY MoveOfPath
<1>2. p \in Removed(old, live) /\ old[p].type = "file" /\ old[p].content = live[x.path].content
  BY <1>1 DEF From, HC!SameContent
<1>3. live[x.path].content /= HC!NoHash
  BY <1>1 DEF Candidates
<1> QED BY <1>2, <1>3

LEMMA HomeCount ==
    ASSUME NEW S
    PROVE  HC!Cardinality(S) = Cardinality(S)
  BY Zenon DEF HC!Cardinality, Cardinality, HC!IsFiniteSet, IsFiniteSet

LEMMA Kinds ==
    ASSUME NEW old, NEW live, NEW x \in HC!compare(old, live)
    PROVE  \/ /\ x = Is("modified", x.path) /\ x.path \in DOMAIN old \intersect DOMAIN live
              /\ ~HC!entryEqual(old[x.path], live[x.path])
           \/ x \in Moves(old, live) /\ x.path \in Added(old, live)
           \/ /\ x = Is("added", x.path) /\ x.path \in Added(old, live)
              /\ \A m \in Moves(old, live) : m.path /= x.path
           \/ /\ x = Is("removed", x.path) /\ x.path \in Removed(old, live)
              /\ \A m \in Moves(old, live) : x.path \notin m.from
<1>1. \A s, p : Is(s, p).path = p
  BY DEF Is
<1>2. CASE \E p \in DOMAIN old \intersect DOMAIN live :
              ~HC!entryEqual(old[p], live[p]) /\ x = Is("modified", p)
  BY <1>1, <1>2
<1>3. CASE x \in Moves(old, live)
  BY <1>3, MoveOfPath
<1>4. CASE \E p \in HC!Rest(Added(old, live), Moves(old, live)) : x = Is("added", p)
  BY <1>1, <1>4 DEF HC!Rest
<1>5. CASE \E p \in HC!Rest(Removed(old, live), Moves(old, live)) : x = Is("removed", p)
  BY <1>1, <1>5 DEF HC!Rest
<1> QED BY <1>2, <1>3, <1>4, <1>5, CompareWhat

LEMMA FromIsMove ==
    ASSUME NEW old, NEW live, NEW x \in HC!compare(old, live), NEW p \in x.from
    PROVE  x \in Moves(old, live)
BY Kinds DEF Is

LEMMA OnePerPath ==
    ASSUME NEW old, NEW live, NEW x \in HC!compare(old, live), NEW y \in HC!compare(old, live),
           x.path = y.path
    PROVE  x = y
<1>1. CASE x \in Moves(old, live)
  <2>1. x.path \in Added(old, live) /\ x = Move(old, live, live[x.path].content, x.path)
    BY <1>1, MoveOfPath
  <2>2. y \in Moves(old, live)
    BY <1>1, <2>1, Kinds DEF Added, Removed
  <2> QED BY <2>1, <2>2, MoveOfPath
<1>2. CASE y \in Moves(old, live)
  <2>1. y.path \in Added(old, live) /\ y = Move(old, live, live[y.path].content, y.path)
    BY <1>2, MoveOfPath
  <2>2. x \in Moves(old, live)
    BY <1>2, <2>1, Kinds DEF Added, Removed
  <2> QED BY <2>1, <2>2, MoveOfPath
<1>3. CASE x \notin Moves(old, live) /\ y \notin Moves(old, live)
  BY <1>3, Kinds DEF Added, Removed
<1> QED BY <1>1, <1>2, <1>3

LEMMA OneExplanation ==
    ASSUME NEW old, NEW live, NEW x \in HC!compare(old, live), NEW y \in HC!compare(old, live),
           x.path \in y.from
    PROVE  FALSE
<1>1. y \in Moves(old, live)
  BY FromIsMove
<1>2. x.path \in Removed(old, live)
  BY <1>1, MoveFromPath
<1> QED BY <1>1, <1>2, Kinds DEF Added, Removed

\* All moves from one file tell the same; and there is but one that says "moved".
LEMMA SameMove ==
    ASSUME NEW old, NEW live, NEW x \in Moves(old, live), NEW y \in Moves(old, live),
           NEW p, p \in x.from, p \in y.from, IsFiniteSet(DOMAIN live)
    PROVE  x.status = y.status /\ (x.status = "moved" => x = y)
<1> DEFINE c == old[p].content
<1>1. live[x.path].content = c /\ live[y.path].content = c
  BY MoveFromPath
<1> HIDE DEF c
<1>2. /\ x.status = Status(old, live, c) /\ y.status = Status(old, live, c)
      /\ x = Move(old, live, c, x.path) /\ y = Move(old, live, c, y.path)
  <2>1. /\ x.status = Status(old, live, live[x.path].content)
        /\ x = Move(old, live, live[x.path].content, x.path)
    BY MoveOfPath
  <2>2. /\ y.status = Status(old, live, live[y.path].content)
        /\ y = Move(old, live, live[y.path].content, y.path)
    BY MoveOfPath
  <2> QED BY <1>1, <2>1, <2>2
<1>3. x.path \in To(old, live, c) /\ y.path \in To(old, live, c)
  <2>1. /\ x.path \in Added(old, live) /\ live[x.path].type = "file"
        /\ y.path \in Added(old, live) /\ live[y.path].type = "file"
    BY MoveOfPath
  <2> QED BY <1>1, <2>1 DEF To, HC!SameContent
<1>4. ASSUME x.status = "moved" PROVE x.path = y.path
  <2>1. HC!Cardinality(To(old, live, c)) = 1
    BY <1>2, <1>4 DEF Status
  <2>2. IsFiniteSet(To(old, live, c))
    BY FS_Subset DEF To, HC!SameContent, Added
  <2>3. Cardinality(To(old, live, c)) = 1
    BY <2>1, HomeCount
  <2>4. PICK q : To(old, live, c) = {q}
    BY <2>2, <2>3, FS_Singleton
  <2> QED BY <1>3, <2>4
<1> QED BY <1>2, <1>4

\* What a scan keeps of an entry that it reads in peace.
Still(e) == [type |-> e.type, mode |-> e.mode, content |-> e.content, unstable |-> FALSE]

LEMMA StillSame ==
    ASSUME NEW x \in HC!Entries, NEW y \in HC!Entries
    PROVE  /\ Still(x) = Still(y) <=> x = y
           /\ Still(x).type = x.type /\ Still(x).mode = x.mode
<1>1. Still(x) = Still(y) <=> x.type = y.type /\ x.mode = y.mode /\ x.content = y.content
  BY DEF Still
<1>2. x = y <=> x.type = y.type /\ x.mode = y.mode /\ x.content = y.content
  BY DEF HC!Entries
<1> QED BY <1>1, <1>2 DEF Still

\* A scan keeps every entry that it comes to and whose Lstat does not fail, but for the
\* hash of what it cannot read.
LEMMA ScanKeeps ==
    ASSUME NEW t, HC!IsTree(t), NEW at
    PROVE  LET e == HC!scan(t, at).entries IN
           /\ DOMAIN e = HC!Scanned(t, at.blocked) \ at.lost
           /\ \A p \in DOMAIN e :
                /\ p \in DOMAIN t /\ p \in DOMAIN Above /\ p /= StateFile
                /\ t[p] \in HC!Entries /\ t[p].content /= HC!NoHash
                /\ e[p].type = t[p].type
                /\ e[p].content = IF p \in at.blocked /\ t[p].type \in {"file", "symlink"}
                                  THEN HC!NoHash ELSE t[p].content
                /\ e[p].mode = t[p].mode
                /\ at.blocked = {} =>
                     /\ p \notin at.changing => e[p] = Still(t[p])
                     /\ e[p].content = t[p].content
<1> DEFINE e == HC!scan(t, at).entries
<1>1. e = [p \in HC!Scanned(t, at.blocked) \ at.lost |-> HC!Found(p, t[p], at)]
  BY DEF HC!scan
<1> HIDE DEF e
<1>2. ASSUME NEW p \in DOMAIN e
      PROVE  /\ p \in DOMAIN t /\ p \in DOMAIN Above /\ p /= StateFile
             /\ t[p] \in HC!Entries /\ t[p].content /= HC!NoHash
             /\ e[p].type = t[p].type
             /\ e[p].content = IF p \in at.blocked /\ t[p].type \in {"file", "symlink"}
                               THEN HC!NoHash ELSE t[p].content
             /\ e[p].mode = t[p].mode
             /\ at.blocked = {} =>
                  /\ p \notin at.changing => e[p] = Still(t[p])
                  /\ e[p].content = t[p].content
  <2>1. p \in DOMAIN t /\ p /= StateFile /\ p \in DOMAIN Above /\ t[p] \in HC!Entries
    BY <1>1 DEF HC!Scanned, HC!IsTree
  <2>2. t[p].content /= HC!NoHash
    BY <2>1 DEF HC!Entries
  <2>3. e[p] = HC!Found(p, t[p], at)
    BY <1>1
  <2>4. /\ e[p].type = t[p].type /\ e[p].mode = t[p].mode
        /\ e[p].content = IF p \in at.blocked /\ t[p].type \in {"file", "symlink"}
                          THEN HC!NoHash ELSE t[p].content
    BY <2>3 DEF HC!Found
  <2>5. at.blocked = {} /\ p \notin at.changing => e[p] = Still(t[p])
    BY <2>3 DEF HC!Found, Still
  <2> QED BY <2>1, <2>2, <2>4, <2>5
<1> QED BY <1>1, <1>2 DEF e

\* What a scan does not come to is the state file, or is below a directory that it has
\* a diagnostic for; and it has one for what it comes to and drops.
LEMMA UnseenIsTold ==
    ASSUME NEW t, HC!IsTree(t), NEW at, NEW p \in DOMAIN t, p /= StateFile,
           p \notin HC!Scanned(t, at.blocked) \ at.lost
    PROVE  \E d \in Above[p] \union {p} : d \in HC!scan(t, at).diagnostics
<1>0. HC!scan(t, at).diagnostics = {q \in HC!Scanned(t, at.blocked) :
          q \in at.lost \/ (q \in at.blocked /\ t[q].type \in {"file", "dir"})}
  BY DEF HC!scan
<1>1. p \in DOMAIN Above /\ \A d \in Above[p] : d \in DOMAIN t /\ t[d].type = "dir"
  BY DEF HC!IsTree
<1>2. CASE p \in HC!Scanned(t, at.blocked)
  BY <1>0, <1>2
<1>3. CASE p \notin HC!Scanned(t, at.blocked)
  <2>1. PICK d \in Above[p] : d \in at.blocked
    BY <1>3 DEF HC!Scanned
  <2>2. PICK q \in Above[p] : q \in at.blocked /\ \A e \in Above[q] : e \notin at.blocked
    BY <1>1, <2>1, Topmost
  <2>3. q \in DOMAIN t /\ t[q].type = "dir" /\ q /= StateFile
    BY <1>1, <2>2, TreeAssumption
  <2>4. q \in HC!Scanned(t, at.blocked)
    BY <2>2, <2>3 DEF HC!Scanned
  <2> QED BY <1>0, <2>2, <2>3, <2>4
<1> QED BY <1>2, <1>3

LEMMA HomeIsRight ==
    ASSUME NEW in, HC!IsInput(in)
    PROVE  HC!ChangesExplainTrees(in, HC!Check(in))
<1> DEFINE out == HC!Check(in)
           old == HC!scan(in.before, in.atIndex).entries
           live == HC!scan(in.after, in.atCheck).entries
           changes == HC!compare(old, live)
           told == HC!scan(in.after, in.atCheck).diagnostics
           At(p) == {c \in changes : c.path = p}
           From1(p) == {c \in changes : p \in c.from}
           Gone == {c.path : c \in {c \in changes : c.status = "removed"}}
                   \union UNION {c.from : c \in changes}
<1>1. out.changes = changes /\ out.diagnostics = told
  BY DEF HC!Check
<1>2. HC!IsTree(in.before) /\ HC!IsTree(in.after)
  BY DEF HC!IsInput
<1>3. /\ DOMAIN old = HC!Scanned(in.before, in.atIndex.blocked) \ in.atIndex.lost
      /\ \A p \in DOMAIN old :
            /\ p \in DOMAIN in.before /\ p \in DOMAIN Above /\ p /= StateFile
            /\ in.before[p] \in HC!Entries /\ in.before[p].content /= HC!NoHash
            /\ old[p].type = in.before[p].type
            /\ old[p].content = IF p \in in.atIndex.blocked /\ in.before[p].type \in {"file", "symlink"}
                               THEN HC!NoHash ELSE in.before[p].content
            /\ old[p].mode = in.before[p].mode
            /\ in.atIndex.blocked = {} =>
                 /\ p \notin in.atIndex.changing => old[p] = Still(in.before[p])
                 /\ old[p].content = in.before[p].content
  BY <1>2, ScanKeeps
<1>4. /\ DOMAIN live = HC!Scanned(in.after, in.atCheck.blocked) \ in.atCheck.lost
      /\ \A p \in DOMAIN live :
            /\ p \in DOMAIN in.after /\ p \in DOMAIN Above /\ p /= StateFile
            /\ in.after[p] \in HC!Entries /\ in.after[p].content /= HC!NoHash
            /\ live[p].type = in.after[p].type
            /\ live[p].content = IF p \in in.atCheck.blocked /\ in.after[p].type \in {"file", "symlink"}
                               THEN HC!NoHash ELSE in.after[p].content
            /\ live[p].mode = in.after[p].mode
            /\ in.atCheck.blocked = {} =>
                 /\ p \notin in.atCheck.changing => live[p] = Still(in.after[p])
                 /\ live[p].content = in.after[p].content
  BY <1>2, ScanKeeps
<1>5. IsFiniteSet(DOMAIN live)
  BY <1>4, TreeAssumption, FS_Subset
<1> HIDE DEF out, old, live
<1>6. \A p : HC!Cardinality(At(p)) <= 1
  <2> TAKE p
  <2>1. CASE At(p) = {}
    BY <2>1, HomeCount, FS_EmptySet
  <2>2. CASE At(p) /= {}
    <3>1. PICK x : x \in At(p)
      BY <2>2
    <3>2. At(p) = {x}
      BY <3>1, OnePerPath
    <3> QED BY <3>2, HomeCount, FS_Singleton
  <2> QED BY <2>1, <2>2
<1>7. \A p : At(p) = {} \/ From1(p) = {}
  BY OneExplanation
<1>8. ASSUME NEW p, NEW x \in From1(p), NEW y \in From1(p)
      PROVE  x.status = y.status /\ x.status \in {"moved", "ambiguous_move"}
             /\ (x.status = "moved" => x = y)
  <2>1. x \in Moves(old, live) /\ y \in Moves(old, live)
    BY FromIsMove
  <2>2. x.status \in {"moved", "ambiguous_move"}
    BY <2>1, MoveOfPath DEF Status
  <2> QED BY <1>5, <2>1, <2>2, SameMove
<1>9. \A p : {c.status : c \in From1(p)} \in {{}, {"moved"}, {"ambiguous_move"}}
  <2> TAKE p
  <2>1. CASE From1(p) = {}
    BY <2>1
  <2>2. CASE From1(p) /= {}
    <3>1. PICK x : x \in From1(p)
      BY <2>2
    <3>2. {c.status : c \in From1(p)} = {x.status} /\ x.status \in {"moved", "ambiguous_move"}
      BY <1>8, <3>1
    <3> QED BY <3>2
  <2> QED BY <2>1, <2>2
<1>10. \A p : HC!Cardinality(From1(p)) > 1 => \E c \in From1(p) : c.status = "ambiguous_move"
  <2> SUFFICES ASSUME NEW p, HC!Cardinality(From1(p)) > 1,
                      \A c \in From1(p) : c.status /= "ambiguous_move"
               PROVE  FALSE
    OBVIOUS
  <2>1. CASE From1(p) = {}
    BY <2>1, HomeCount, FS_EmptySet
  <2>2. CASE From1(p) /= {}
    <3>1. PICK x : x \in From1(p)
      BY <2>2
    <3>2. From1(p) = {x}
      BY <1>8, <3>1
    <3>3. Cardinality(From1(p)) = 1
      BY <3>2, FS_Singleton
    <3> QED BY <3>3, HomeCount
  <2> QED BY <2>1, <2>2
<1>11. ASSUME NEW p \in Gone, p \in DOMAIN in.after
       PROVE  \E d \in Above[p] \union {p} : d \in told
  <2>1. p \in Removed(old, live)
    <3>1. CASE \E c \in changes : c.status = "removed" /\ c.path = p
      <4>1. PICK c \in changes : c.status = "removed" /\ c.path = p
        BY <3>1
      <4>2. c \notin Moves(old, live)
        BY <4>1, MoveOfPath DEF Status
      <4> QED BY <4>1, <4>2, Kinds DEF Is
    <3>2. CASE \E c \in changes : p \in c.from
      BY <3>2, FromIsMove, MoveFromPath
    <3> QED BY <3>1, <3>2
  <2>2. p /= StateFile /\ p \notin HC!Scanned(in.after, in.atCheck.blocked) \ in.atCheck.lost
    BY <1>3, <1>4, <2>1 DEF Removed
  <2> QED BY <1>2, <1>11, <2>2, UnseenIsTold
<1>12. ASSUME NEW c \in changes, NEW o \in c.from
       PROVE  in.after[c.path].content = in.before[o].content
  <2>1. c \in Moves(old, live)
    BY FromIsMove
  <2>2. /\ o \in DOMAIN old /\ old[o].content = live[c.path].content
        /\ old[o].content /= HC!NoHash
    BY <2>1, MoveFromPath DEF Removed
  <2>3. c.path \in DOMAIN live
    BY <2>1, MoveOfPath DEF Added
  <2> QED BY <1>3, <1>4, <2>2, <2>3
<1>13. ASSUME NEW c \in changes, NEW d \in changes,
              c.status = "added", c.path \notin in.atCheck.blocked, in.after[c.path].type = "file",
              d.status = "removed", d.path \notin in.atIndex.blocked, in.before[d.path].type = "file"
       PROVE  in.after[c.path].content /= in.before[d.path].content
  <2>1. c \notin Moves(old, live) /\ d \notin Moves(old, live)
    BY <1>13, MoveOfPath DEF Status
  <2>2. c.path \in Added(old, live) /\ \A m \in Moves(old, live) : m.path /= c.path
    BY <1>13, <2>1, Kinds DEF Is
  <2>3. d.path \in Removed(old, live)
    BY <1>13, <2>1, Kinds DEF Is
  <2>4. /\ live[c.path].type = "file" /\ live[c.path].content = in.after[c.path].content
        /\ old[d.path].type = "file" /\ old[d.path].content = in.before[d.path].content
        /\ in.before[d.path].content /= HC!NoHash
    BY <1>3, <1>4, <1>13, <2>2, <2>3 DEF Added, Removed
  <2>5. old[d.path].content \in Candidates(old, live)
    BY <1>13, <2>3, <2>4 DEF Candidates
  <2>6. SUFFICES ASSUME live[c.path].content = old[d.path].content PROVE FALSE
    BY <2>4
  <2>7. c.path \in To(old, live, old[d.path].content)
    BY <1>13, <2>2, <2>4, <2>6 DEF To, HC!SameContent
  <2>8. Move(old, live, old[d.path].content, c.path) \in Moves(old, live)
    BY <2>5, <2>7, MovesAre
  <2> QED BY <2>2, <2>8 DEF Move
<1>14. ASSUME \A at \in {in.atIndex, in.atCheck} : at.blocked = {} /\ at.lost = {},
              NEW p \in (DOMAIN in.after \union DOMAIN in.before) \ {StateFile}
       PROVE  LET b == in.before a == in.after
                  Same == p \in DOMAIN a \intersect DOMAIN b /\
                    (a[p] = b[p] \/ (a[p].type = "dir" /\ b[p].type = "dir" /\ a[p].mode = b[p].mode))
              IN  /\ At(p) = {} /\ From1(p) = {} => Same
                  /\ Same /\ p \notin in.atIndex.changing \union in.atCheck.changing
                        => At(p) = {} /\ From1(p) = {}
  <2> DEFINE b == in.before
             a == in.after
             Same == p \in DOMAIN a \intersect DOMAIN b /\
                    (a[p] = b[p] \/ (a[p].type = "dir" /\ b[p].type = "dir" /\ a[p].mode = b[p].mode))
             quiet == p \notin in.atIndex.changing \union in.atCheck.changing
  <2>0. in.atIndex.blocked = {} /\ in.atIndex.lost = {} /\ in.atCheck.blocked = {} /\ in.atCheck.lost = {}
    BY <1>14
  <2>1. (p \in DOMAIN old <=> p \in DOMAIN b) /\ (p \in DOMAIN live <=> p \in DOMAIN a)
    BY <1>3, <1>4, <1>14, <2>0 DEF HC!Scanned
  <2>2. ASSUME p \in DOMAIN old
        PROVE  /\ b[p] \in HC!Entries /\ old[p].type = b[p].type
               /\ old[p].mode = b[p].mode /\ old[p].content = b[p].content
               /\ quiet => old[p] = Still(b[p])
    BY <1>3, <2>0, <2>2
  <2>3. ASSUME p \in DOMAIN live
         PROVE  /\ a[p] \in HC!Entries /\ live[p].type = a[p].type
                /\ live[p].mode = a[p].mode /\ live[p].content = a[p].content
                /\ quiet => live[p] = Still(a[p])
    BY <1>4, <2>0, <2>3
  <2> HIDE DEF quiet
  <2>4. /\ p \in DOMAIN old \intersect DOMAIN live /\ HC!entryEqual(old[p], live[p]) => Same
        /\ Same /\ quiet => p \in DOMAIN old \intersect DOMAIN live /\ HC!entryEqual(old[p], live[p])
    <3>1. p \in DOMAIN old \intersect DOMAIN live <=> p \in DOMAIN a \intersect DOMAIN b
      BY <2>1
    <3>2. ASSUME p \in DOMAIN old \intersect DOMAIN live, HC!entryEqual(old[p], live[p]) PROVE Same
      <4>1. CASE old[p].type = "dir" /\ live[p].type = "dir"
        BY <2>2, <2>3, <3>1, <3>2, <4>1 DEF HC!entryEqual
      <4>2. CASE old[p] = live[p]
        <5>1. a[p].type = b[p].type /\ a[p].mode = b[p].mode /\ a[p].content = b[p].content
          BY <2>2, <2>3, <3>2, <4>2
        <5>2. Still(a[p]) = Still(b[p])
          BY <5>1 DEF Still
        <5> QED BY <2>2, <2>3, <3>1, <3>2, <5>2, StillSame
      <4> QED BY <3>2, <4>1, <4>2 DEF HC!entryEqual
    <3>3. ASSUME Same, quiet PROVE HC!entryEqual(old[p], live[p])
      <4>1. p \in DOMAIN old \intersect DOMAIN live /\ old[p] = Still(b[p]) /\ live[p] = Still(a[p])
        BY <2>2, <2>3, <3>1, <3>3
      <4>2. CASE a[p] = b[p]
        BY <4>1, <4>2 DEF HC!entryEqual
      <4>3. CASE a[p].type = "dir" /\ b[p].type = "dir" /\ a[p].mode = b[p].mode
        BY <2>2, <2>3, <3>1, <3>3, <4>1, <4>3 DEF HC!entryEqual
      <4> QED BY <3>3, <4>2, <4>3
    <3> QED BY <3>1, <3>2, <3>3
  <2>5. ASSUME p \in DOMAIN old \intersect DOMAIN live, HC!entryEqual(old[p], live[p])
        PROVE  At(p) = {} /\ From1(p) = {}
    <3>1. ASSUME NEW x \in changes, x.path = p PROVE FALSE
      BY <2>5, <3>1, Kinds DEF Added, Removed
    <3>2. ASSUME NEW x \in changes, p \in x.from PROVE FALSE
      BY <2>5, <3>2, FromIsMove, MoveFromPath DEF Removed
    <3> QED BY <3>1, <3>2
  <2>6. ASSUME p \in DOMAIN old \intersect DOMAIN live, ~HC!entryEqual(old[p], live[p])
        PROVE  At(p) /= {}
    <3>1. Is("modified", p) \in changes
      BY <2>6, CompareWhat
    <3> QED BY <3>1 DEF Is
  <2>7. ASSUME p \in Added(old, live) PROVE At(p) /= {} \/ From1(p) /= {}
    <3>1. CASE p \in HC!Rest(Added(old, live), Moves(old, live))
      <4>1. Is("added", p) \in changes
        BY <3>1, CompareWhat
      <4> QED BY <4>1 DEF Is
    <3>2. CASE p \notin HC!Rest(Added(old, live), Moves(old, live))
      <4>1. PICK m \in Moves(old, live) : m.path = p \/ p \in m.from
        BY <2>7, <3>2 DEF HC!Rest
      <4>2. m \in changes
        BY CompareWhat
      <4> QED BY <4>1, <4>2
    <3> QED BY <3>1, <3>2
  <2>8. ASSUME p \in Removed(old, live) PROVE At(p) /= {} \/ From1(p) /= {}
    <3>1. CASE p \in HC!Rest(Removed(old, live), Moves(old, live))
      <4>1. Is("removed", p) \in changes
        BY <3>1, CompareWhat
      <4> QED BY <4>1 DEF Is
    <3>2. CASE p \notin HC!Rest(Removed(old, live), Moves(old, live))
      <4>1. PICK m \in Moves(old, live) : m.path = p \/ p \in m.from
        BY <2>8, <3>2 DEF HC!Rest
      <4>2. m \in changes
        BY CompareWhat
      <4> QED BY <4>1, <4>2
    <3> QED BY <3>1, <3>2
  <2>9. p \in DOMAIN old \intersect DOMAIN live \/ p \in Added(old, live) \/ p \in Removed(old, live)
    BY <2>1, <1>14 DEF Added, Removed
  <2> HIDE DEF changes, Same
  <2>10. At(p) = {} /\ From1(p) = {} => Same
    BY <2>4, <2>6, <2>7, <2>8, <2>9
  <2>11. Same /\ quiet => At(p) = {} /\ From1(p) = {}
    BY <2>4, <2>5
  <2> QED BY <2>10, <2>11 DEF Same, quiet
<1> HIDE DEF changes, told
<1>15. HC!EachPathOnce(in, out)
  <2>1. \A p : /\ HC!Cardinality(At(p)) <= 1
               /\ At(p) = {} \/ From1(p) = {}
               /\ {c.status : c \in From1(p)} \in {{}, {"moved"}, {"ambiguous_move"}}
               /\ HC!Cardinality(From1(p)) > 1 => \E c \in From1(p) : c.status = "ambiguous_move"
    BY <1>6, <1>7, <1>9, <1>10
  <2> QED BY <1>1, <2>1 DEF HC!EachPathOnce
<1>16. HC!GoneIsGone(in, out)
  BY <1>1, <1>11 DEF HC!GoneIsGone
<1>17. HC!MovesKeepContent(in, out)
  BY <1>1, <1>12, <1>13 DEF HC!MovesKeepContent
<1>18. HC!NoChangeIsSame(in, out)
  BY <1>1, <1>14 DEF HC!NoChangeIsSame
<1> QED BY <1>15, <1>16, <1>17, <1>18 DEF out, HC!ChangesExplainTrees

-----------------------------------------------------------------------------
\* metascore: the check of an index.
LEMMA MetaCount ==
    ASSUME NEW S
    PROVE  MS!Cardinality(S) = Cardinality(S)
  BY Zenon DEF MS!Cardinality, Cardinality, MS!IsFiniteSet, IsFiniteSet

\* The metadata of an entry that are kept.
Metadata(e, answered) == [size |-> e.size, mode |-> e.mode, mtime |-> e.mtime,
                          xattrs |-> IF answered THEN e.xattrs ELSE {}]

LEMMA CollectKeeps ==
    ASSUME NEW w, w.root = "dir"
    PROVE  /\ DOMAIN MS!collect(w) = DOMAIN w.tree \ {StateFile}
           /\ \A p \in DOMAIN MS!collect(w) : MS!collect(w)[p] = Metadata(w.tree[p], p \in w.answers)
BY DEF MS!collect, MS!xattrs, Metadata

\* The save touches the directory of the state file, and nothing else.
LEMMA SaveTouches ==
    ASSUME NEW w, MS!IsWorld(w)
    PROVE  LET s == MS!Saved(w) IN
           /\ s.root = w.root /\ s.answers = w.answers /\ DOMAIN s.tree = DOMAIN w.tree
           /\ \A p \in DOMAIN w.tree : p /= StateDir => s.tree[p] = w.tree[p]
           /\ StateDir \in DOMAIN w.tree =>
                s.tree[StateDir] = [w.tree[StateDir] EXCEPT !.mtime = @ + 1]
<1>1. w \in [tree : {w.tree}, root : {"dir", "link", "unreadable"}, blocked : {w.blocked}, 
             answers : {w.answers}]
      /\ w.tree \in [DOMAIN w.tree -> MS!Entries]
  BY DEF MS!IsWorld
<1>2. CASE StateDir \in DOMAIN w.tree
  <2> DEFINE t == [w.tree EXCEPT ![StateDir].mtime = @ + 1]
  <2>1. MS!Saved(w) = [w EXCEPT !.tree = t]
    BY <1>1, <1>2 DEF MS!Saved
  <2>2. DOMAIN t = DOMAIN w.tree /\ (\A p \in DOMAIN w.tree : p /= StateDir => t[p] = w.tree[p])
        /\ t[StateDir] = [w.tree[StateDir] EXCEPT !.mtime = @ + 1]
    BY <1>1, <1>2
  <2> HIDE DEF t
  <2>3. MS!Saved(w).root = w.root /\ MS!Saved(w).answers = w.answers /\ MS!Saved(w).tree = t
    BY <1>1, <2>1
  <2> QED BY <2>2, <2>3
<1>3. CASE StateDir \notin DOMAIN w.tree
  BY <1>3 DEF MS!Saved
<1> QED BY <1>2, <1>3

\* An anomaly of each kind.
Gone(p) == [path |-> p, score |-> 40, evidence |-> {"path removed"}]
New(p) == [path |-> p, score |-> 10, evidence |-> {"path added"}]
Changed(p, o, n) == [path |-> p, score |-> MS!Score(o, n), evidence |-> MS!Evidence(o, n)]

LEMMA ScoreWhat ==
    ASSUME NEW old, NEW live, NEW x
    PROVE  x \in MS!score(old, live) <=>
              \/ \E p \in DOMAIN old \ DOMAIN live : x = Gone(p)
              \/ \E p \in DOMAIN live \ DOMAIN old : x = New(p)
              \/ \E p \in DOMAIN old \intersect DOMAIN live :
                    MS!Evidence(old[p], live[p]) /= {} /\ x = Changed(p, old[p], live[p])
BY DEF MS!score, Gone, New, Changed

LEMMA Fields ==
    ASSUME NEW p, NEW o, NEW n
    PROVE  /\ Gone(p).path = p /\ Gone(p).score > 0
           /\ New(p).path = p /\ New(p).score > 0
           /\ Changed(p, o, n).path = p /\ Changed(p, o, n).score = MS!Score(o, n)
           /\ Changed(p, o, n).evidence = MS!Evidence(o, n)
BY DEF Gone, New, Changed

\* Evidence has a positive score.
LEMMA EvidenceCounts ==
    ASSUME NEW o, NEW n, MS!Evidence(o, n) /= {}
    PROVE  MS!Score(o, n) > 0
<1>1. o["mode"] /= n["mode"] \/ o["size"] /= n["size"] \/ o["mtime"] /= n["mtime"] \/ o["xattrs"] /= n["xattrs"]
  BY DEF MS!Evidence
<1> QED BY <1>1 DEF MS!Score

LEMMA EvidenceIs ==
    ASSUME NEW d, NEW e, NEW b, NEW c
    PROVE  LET found == MS!Evidence(Metadata(d, b), Metadata(e, c)) IN
           /\ "mode" \in found <=> d.mode /= e.mode
           /\ "size" \in found <=> d.size /= e.size
           /\ "mtime" \in found <=> d.mtime /= e.mtime
           /\ "xattrs" \in found <=> (IF b THEN d.xattrs ELSE {}) /= (IF c THEN e.xattrs ELSE {})
           /\ found \subseteq {"mode", "size", "mtime", "xattrs"}
BY DEF MS!Evidence, Metadata

\* An anomaly is of the kind of its path.
LEMMA AnomalyIs ==
    ASSUME NEW old, NEW live, NEW x \in MS!score(old, live)
    PROVE  \/ x.path \in DOMAIN old \ DOMAIN live /\ x = Gone(x.path)
           \/ x.path \in DOMAIN live \ DOMAIN old /\ x = New(x.path)
           \/ /\ x.path \in DOMAIN old \intersect DOMAIN live
              /\ MS!Evidence(old[x.path], live[x.path]) /= {}
              /\ x = Changed(x.path, old[x.path], live[x.path])
<1>1. ASSUME NEW p \in DOMAIN old \ DOMAIN live, x = Gone(p) PROVE x.path = p
  BY <1>1, Fields
<1>2. ASSUME NEW p \in DOMAIN live \ DOMAIN old, x = New(p) PROVE x.path = p
  BY <1>2, Fields
<1>3. ASSUME NEW p \in DOMAIN old \intersect DOMAIN live, x = Changed(p, old[p], live[p])
      PROVE  x.path = p
  BY <1>3, Fields
<1>4. \/ \E p \in DOMAIN old \ DOMAIN live : x = Gone(p)
      \/ \E p \in DOMAIN live \ DOMAIN old : x = New(p)
      \/ \E p \in DOMAIN old \intersect DOMAIN live :
            MS!Evidence(old[p], live[p]) /= {} /\ x = Changed(p, old[p], live[p])
  BY ScoreWhat
<1>5. CASE \E p \in DOMAIN old \ DOMAIN live : x = Gone(p)
  <2>1. PICK p \in DOMAIN old \ DOMAIN live : x = Gone(p)
    BY <1>5
  <2>2. x.path = p
    BY <1>1, <2>1
  <2> QED BY <2>1, <2>2
<1>6. CASE \E p \in DOMAIN live \ DOMAIN old : x = New(p)
  <2>1. PICK p \in DOMAIN live \ DOMAIN old : x = New(p)
    BY <1>6
  <2>2. x.path = p
    BY <1>2, <2>1
  <2> QED BY <2>1, <2>2
<1>7. CASE \E p \in DOMAIN old \intersect DOMAIN live :
             MS!Evidence(old[p], live[p]) /= {} /\ x = Changed(p, old[p], live[p])
  <2>1. PICK p \in DOMAIN old \intersect DOMAIN live :
             MS!Evidence(old[p], live[p]) /= {} /\ x = Changed(p, old[p], live[p])
    BY <1>7
  <2>2. x.path = p
    BY <1>3, <2>1
  <2> QED BY <2>1, <2>2
<1> QED BY <1>4, <1>5, <1>6, <1>7

\* Each path that was added, removed or changed has one anomaly, and no other path has.
LEMMA AnomalyAt ==
    ASSUME NEW old, NEW live, NEW x \in MS!score(old, live)
    PROVE  /\ x.path \in DOMAIN old \union DOMAIN live /\ x.score > 0
           /\ x.path \in DOMAIN old \intersect DOMAIN live =>
                /\ MS!Evidence(old[x.path], live[x.path]) /= {}
                /\ x.evidence = MS!Evidence(old[x.path], live[x.path])
           /\ \A y \in MS!score(old, live) : y.path = x.path => y = x
<1>1. x.path \in DOMAIN old \union DOMAIN live
  BY AnomalyIs
<1>2. \A y \in MS!score(old, live) : y.path = x.path => y = x
  BY AnomalyIs
<1>3. x.path \in DOMAIN old \intersect DOMAIN live =>
        /\ MS!Evidence(old[x.path], live[x.path]) /= {}
        /\ x = Changed(x.path, old[x.path], live[x.path])
  BY AnomalyIs
<1>4. x.path \in DOMAIN old \intersect DOMAIN live =>
        x.evidence = MS!Evidence(old[x.path], live[x.path]) /\ x.score > 0
  BY <1>3, Fields, EvidenceCounts
<1>5. x.path \notin DOMAIN old \intersect DOMAIN live => x.score > 0
  <2>1. x.path \notin DOMAIN old \intersect DOMAIN live => x = Gone(x.path) \/ x = New(x.path)
    BY AnomalyIs
  <2>2. Gone(x.path).score > 0 /\ New(x.path).score > 0
    BY Fields
  <2> QED BY <2>1, <2>2
<1> QED BY <1>1, <1>2, <1>3, <1>4, <1>5

LEMMA AnomalyOf ==
    ASSUME NEW old, NEW live
    PROVE  \A p \in DOMAIN old \union DOMAIN live :
             (p \in DOMAIN old \intersect DOMAIN live => MS!Evidence(old[p], live[p]) /= {})
             => \E x \in MS!score(old, live) : x.path = p
<1> SUFFICES ASSUME NEW p \in DOMAIN old \union DOMAIN live,
                    p \in DOMAIN old \intersect DOMAIN live => MS!Evidence(old[p], live[p]) /= {}
             PROVE  \E x \in MS!score(old, live) : x.path = p
  OBVIOUS
<1>1. Gone(p).path = p /\ New(p).path = p /\ Changed(p, old[p], live[p]).path = p
  BY Fields
<1>2. \/ Gone(p) \in MS!score(old, live) \/ New(p) \in MS!score(old, live)
      \/ Changed(p, old[p], live[p]) \in MS!score(old, live)
  <2>1. p \in DOMAIN old \ DOMAIN live => Gone(p) \in MS!score(old, live)
    BY ScoreWhat
  <2>2. p \in DOMAIN live \ DOMAIN old => New(p) \in MS!score(old, live)
    BY ScoreWhat
  <2>3. p \in DOMAIN old \intersect DOMAIN live => Changed(p, old[p], live[p]) \in MS!score(old, live)
    BY ScoreWhat
  <2> QED BY <2>1, <2>2, <2>3
<1> QED BY <1>1, <1>2

LEMMA MetaIsRight ==
    ASSUME NEW in, MS!IsInput(in)
    PROVE  MS!ScoresExplainTrees(in, MS!Metascore(in))
<1> DEFINE out == MS!Metascore(in)
           old == MS!collect(in.before)
           now == MS!Saved(in.after)
           live == MS!collect(now)
           b == in.before.tree
           a == in.after.tree
<1>1. MS!IsWorld(in.before) /\ MS!IsWorld(in.after)
  BY DEF MS!IsInput
<1>2. in.before.blocked \union in.after.blocked /= {} => out.exit = 4
  BY DEF MS!Metascore, MS!Walks
<1>3. SUFFICES ASSUME out.exit = 0, in.before.root = "dir", in.after.root = "dir"
               PROVE  MS!EachChangeScored(in, out) /\ MS!OwnTraceOnly(in, out)
  BY <1>2 DEF MS!ScoresExplainTrees
<1>4. out.anomalies = MS!score(old, live)
  BY <1>3 DEF MS!Metascore
<1>5. /\ now.root = "dir" /\ now.answers = in.after.answers /\ DOMAIN now.tree = DOMAIN a
      /\ \A p \in DOMAIN a : p /= StateDir => now.tree[p] = a[p]
      /\ StateDir \in DOMAIN a => now.tree[StateDir] = [a[StateDir] EXCEPT !.mtime = @ + 1]
  BY <1>1, <1>3, SaveTouches
<1> HIDE DEF now
<1>6. /\ DOMAIN old = DOMAIN b \ {StateFile}
      /\ \A p \in DOMAIN old : old[p] = Metadata(b[p], p \in in.before.answers)
  BY <1>3, CollectKeeps
<1>7. /\ DOMAIN live = DOMAIN a \ {StateFile}
      /\ \A p \in DOMAIN live : live[p] = Metadata(now.tree[p], p \in in.after.answers)
  <2>1. now.root = "dir"
    BY <1>5
  <2>2. /\ DOMAIN MS!collect(now) = DOMAIN now.tree \ {StateFile}
        /\ \A p \in DOMAIN MS!collect(now) : MS!collect(now)[p] = Metadata(now.tree[p], p \in now.answers)
    BY <2>1, CollectKeeps
  <2> QED BY <1>5, <2>2
<1>8. \A p \in DOMAIN live : p /= StateDir => live[p] = Metadata(a[p], p \in in.after.answers)
  BY <1>5, <1>7
<1> HIDE DEF old, live, out
<1>9. /\ \A p \in DOMAIN b : b[p] \in MS!Entries
      /\ \A p \in DOMAIN a : a[p] \in MS!Entries
  BY <1>1 DEF MS!IsWorld
<1>10. \A p \in DOMAIN old \union DOMAIN live :
          (p \in DOMAIN old \intersect DOMAIN live => MS!Evidence(old[p], live[p]) /= {})
          => \E x \in MS!score(old, live) : x.path = p
  BY AnomalyOf
<1>11. MS!EachChangeScored(in, out)
  <2> DEFINE At(p) == {x \in out.anomalies : x.path = p}
             Visible(e) == [size |-> e.size, mode |-> e.mode, mtime |-> e.mtime]
  <2> SUFFICES ASSUME NEW p \in (DOMAIN a \union DOMAIN b) \ {StateFile, StateDir}
               PROVE /\ MS!Cardinality(At(p)) <= 1
                     /\ \A x \in At(p) : x.score > 0
                     /\ p \notin DOMAIN a \intersect DOMAIN b => At(p) /= {}
                     /\ p \in DOMAIN a \intersect DOMAIN b =>
                        /\ Visible(a[p]) /= Visible(b[p]) => At(p) /= {}
                        /\ p \in in.before.answers \intersect in.after.answers =>
                            (At(p) /= {} <=> [a[p] EXCEPT !.content = 0] /= [b[p] EXCEPT !.content = 0])
    BY DEF MS!EachChangeScored
  <2>1. \A x \in At(p) : x.score > 0 /\ At(p) = {x}
    BY <1>4, AnomalyAt
  <2>2. MS!Cardinality(At(p)) <= 1
    <3>1. At(p) = {} \/ \E x : At(p) = {x}
      BY <2>1
    <3> HIDE DEF At
    <3>2. MS!Cardinality(At(p)) = Cardinality(At(p))
      BY MetaCount
    <3>3. CASE At(p) = {}
      BY <3>2, <3>3, FS_EmptySet
    <3>4. CASE \E x : At(p) = {x}
      <4>1. PICK x : At(p) = {x}
        BY <3>4
      <4>2. Cardinality({x}) = 1
        BY FS_Singleton
      <4> QED BY <3>2, <4>1, <4>2
    <3> QED BY <3>1, <3>3, <3>4
  <2>3. p \notin DOMAIN a \intersect DOMAIN b => At(p) /= {}
    <3> SUFFICES ASSUME p \notin DOMAIN a \intersect DOMAIN b PROVE At(p) /= {}
      OBVIOUS
    <3>1. p \in DOMAIN old \union DOMAIN live /\ p \notin DOMAIN old \intersect DOMAIN live
      BY <1>6, <1>7
    <3>2. \E x \in MS!score(old, live) : x.path = p
      BY <1>10, <3>1
    <3> QED BY <1>4, <3>2
  <2>4. ASSUME p \in DOMAIN a \intersect DOMAIN b
        PROVE  /\ Visible(a[p]) /= Visible(b[p]) => At(p) /= {}
               /\ p \in in.before.answers \intersect in.after.answers =>
                    (At(p) /= {} <=> [a[p] EXCEPT !.content = 0] /= [b[p] EXCEPT !.content = 0])
    <3> DEFINE found == MS!Evidence(old[p], live[p])
    <3>1. p \in DOMAIN old \intersect DOMAIN live
      BY <1>6, <1>7, <2>4
    <3>2. At(p) /= {} <=> found /= {}
      <4>1. found /= {} => \E x \in MS!score(old, live) : x.path = p
        BY <1>10, <3>1
      <4>2. ASSUME NEW x \in At(p) PROVE found /= {}
        <5>1. x \in MS!score(old, live) /\ x.path = p
          BY <1>4
        <5> QED BY <3>1, <5>1, AnomalyAt
      <4> QED BY <1>4, <4>1, <4>2
    <3> DEFINE then == p \in in.before.answers
               later == p \in in.after.answers
    <3>3. found = MS!Evidence(Metadata(b[p], then), Metadata(a[p], later))
      BY <1>6, <1>8, <3>1
    <3>4. /\ "mode" \in found <=> b[p].mode /= a[p].mode
          /\ "size" \in found <=> b[p].size /= a[p].size
          /\ "mtime" \in found <=> b[p].mtime /= a[p].mtime
          /\ "xattrs" \in found <=> (IF then THEN b[p].xattrs ELSE {})
                                    /= (IF later THEN a[p].xattrs ELSE {})
          /\ found \subseteq {"mode", "size", "mtime", "xattrs"}
      <4> HIDE DEF then, later
      <4> QED BY <3>3, EvidenceIs
    <3> HIDE DEF found, At
    <3>5. Visible(a[p]) /= Visible(b[p]) => found /= {}
      BY <3>4
    <3>6. p \in in.before.answers \intersect in.after.answers =>
            (found /= {} <=> \/ b[p].mode /= a[p].mode \/ b[p].size /= a[p].size
                             \/ b[p].mtime /= a[p].mtime \/ b[p].xattrs /= a[p].xattrs)
      BY <3>4
    <3>7. [a[p] EXCEPT !.content = 0] /= [b[p] EXCEPT !.content = 0]
            <=> \/ b[p].mode /= a[p].mode \/ b[p].size /= a[p].size
                \/ b[p].mtime /= a[p].mtime \/ b[p].xattrs /= a[p].xattrs
      <4>1. a[p] \in MS!Entries /\ b[p] \in MS!Entries
        BY <1>9, <2>4
      <4> QED BY <4>1 DEF MS!Entries
    <3> QED BY <3>2, <3>5, <3>6, <3>7
  <2> QED BY <2>1, <2>2, <2>3, <2>4
<1>12. MS!OwnTraceOnly(in, out)
  <2>1. \A x \in out.anomalies : x.path /= StateFile
    BY <1>4, <1>6, <1>7, AnomalyAt
  <2> SUFFICES ASSUME in.before = in.after
               PROVE  /\ \A x \in out.anomalies : x.path = StateDir /\ x.evidence = {"mtime"}
                      /\ StateDir \in DOMAIN b => \E x \in out.anomalies : x.path = StateDir
    BY <2>1 DEF MS!OwnTraceOnly
  <2>2. DOMAIN old = DOMAIN live
    BY <1>6, <1>7
  <2>3. \A p \in DOMAIN old : p /= StateDir => MS!Evidence(old[p], live[p]) = {}
    <3>1. \A p \in DOMAIN old : p /= StateDir => old[p] = live[p]
      BY <1>6, <1>8, <2>2
    <3> QED BY <3>1 DEF MS!Evidence
  <2>4. StateDir \in DOMAIN b => StateDir \in DOMAIN old /\ MS!Evidence(old[StateDir], live[StateDir]) = {"mtime"}
    <3> SUFFICES ASSUME StateDir \in DOMAIN b
                 PROVE  StateDir \in DOMAIN old /\ MS!Evidence(old[StateDir], live[StateDir]) = {"mtime"}
      OBVIOUS
    <3> DEFINE d == b[StateDir]
               e == [d EXCEPT !.mtime = @ + 1]
               asked == StateDir \in in.before.answers
    <3>1. StateDir \in DOMAIN old
      BY <1>6, TreeAssumption
    <3>2. old[StateDir] = Metadata(d, asked) /\ live[StateDir] = Metadata(e, asked)
      BY <1>5, <1>6, <1>7, <2>2, <3>1
    <3>3. /\ e.mode = d.mode /\ e.size = d.size /\ e.xattrs = d.xattrs /\ e.mtime /= d.mtime
      <4>1. d \in MS!Entries
        BY <1>9
      <4>2. e.mode = d.mode /\ e.size = d.size /\ e.xattrs = d.xattrs /\ e.mtime = d.mtime + 1 /\ d.mtime \in Int
        BY <4>1 DEF MS!Entries
      <4> QED BY <4>2
    <3> HIDE DEF d, e, asked
    <3>4. "mode" \notin MS!Evidence(Metadata(d, asked), Metadata(e, asked))
          /\ "size" \notin MS!Evidence(Metadata(d, asked), Metadata(e, asked))
          /\ "xattrs" \notin MS!Evidence(Metadata(d, asked), Metadata(e, asked))
          /\ "mtime" \in MS!Evidence(Metadata(d, asked), Metadata(e, asked))
          /\ MS!Evidence(Metadata(d, asked), Metadata(e, asked))
                \subseteq {"mode", "size", "mtime", "xattrs"}
      BY <3>3, EvidenceIs
    <3>5. MS!Evidence(Metadata(d, asked), Metadata(e, asked)) = {"mtime"}
      BY <3>4
    <3> QED BY <3>1, <3>2, <3>5
  <2>5. ASSUME NEW x \in out.anomalies PROVE x.path = StateDir /\ x.evidence = {"mtime"}
    <3>1. x.path \in DOMAIN old /\ MS!Evidence(old[x.path], live[x.path]) /= {}
          /\ x.evidence = MS!Evidence(old[x.path], live[x.path])
      BY <1>4, <2>2, AnomalyAt
    <3> QED BY <1>6, <2>3, <2>4, <3>1
  <2>6. StateDir \in DOMAIN b => \E x \in out.anomalies : x.path = StateDir
    <3> SUFFICES ASSUME StateDir \in DOMAIN b PROVE \E x \in out.anomalies : x.path = StateDir
      OBVIOUS
    <3>1. StateDir \in DOMAIN old /\ MS!Evidence(old[StateDir], live[StateDir]) /= {}
      BY <2>4
    <3>2. \E x \in MS!score(old, live) : x.path = StateDir
      BY <1>10, <3>1
    <3> QED BY <1>4, <3>2
  <2> QED BY <2>5, <2>6
<1> QED BY <1>11, <1>12

-----------------------------------------------------------------------------
\* dtp: a signature that fits leaves what was signed.
Seal(root, entries, errors, key) ==
    DB!Signed([root |-> root, entries |-> entries, errors |-> errors], key)

LEMMA Sealed ==
    ASSUME NEW root, NEW entries, NEW errors, NEW key, NEW key2,
           NEW edit \in {"none", "errors", "entries", "root"}, edit = "root" => root /= DB!Other,
           NEW e, e = DB!Edited(Seal(root, entries, errors, key), edit),
           e.signature = DB!signBaseline(e, key2), e.errors = {}
    PROVE  /\ key2 = key /\ e.root = root /\ e.entries = entries /\ errors = {}
           /\ edit \in {"none", "errors", "entries"} /\ (edit = "entries" => entries = <<>>)
<1> DEFINE b == Seal(root, entries, errors, key)
<1> DEFINE s == [key |-> key, root |-> root, entries |-> entries, errors |-> errors]
<1>1. b = [root |-> root, entries |-> entries, errors |-> errors, signature |-> s]
  BY DEF Seal, DB!Signed, DB!signBaseline
<1>2. e.signature.key = key2 /\ e.signature.root = e.root /\ e.signature.entries = e.entries
      /\ e.signature.errors = e.errors
  BY DEF DB!signBaseline
<1>3. s.key = key /\ s.root = root /\ s.entries = entries /\ s.errors = errors
  OBVIOUS
<1> HIDE DEF s, b
<1>8. e = DB!Edited(b, edit)
  BY DEF b
<1>4. CASE edit = "none"
  BY <1>1, <1>2, <1>3, <1>4, <1>8 DEF DB!Edited
<1>5. CASE edit = "errors"
  <2>1. e = [b EXCEPT !.errors = {}]
    BY <1>5, <1>8 DEF DB!Edited
  <2>2. e.signature = s /\ e.root = root /\ e.entries = entries
    BY <1>1, <2>1
  <2> QED BY <1>2, <1>3, <1>5, <2>2
<1>6. CASE edit = "entries"
  <2>1. e = [b EXCEPT !.entries = <<>>]
    BY <1>6, <1>8 DEF DB!Edited
  <2>2. e.signature = s /\ e.root = root /\ e.entries = <<>>
    BY <1>1, <2>1
  <2> QED BY <1>2, <1>3, <1>6, <2>2
<1>7. CASE edit = "root"
  <2>1. e = [b EXCEPT !.root = DB!Other]
    BY <1>7, <1>8 DEF DB!Edited
  <2>2. e.signature = s /\ e.root = DB!Other
    BY <1>1, <2>1
  <2> QED BY <1>2, <1>3, <1>7, <2>2
<1> QED BY <1>4, <1>5, <1>6, <1>7

\* A place that a scan can meet.
IsPlace(place) == DB!IsTree(place.tree) /\ place.root \in {"dir", "link", "unreadable"}

\* A link holds nothing; a scan of another root that ends without an error has read
\* every program below it.
LEMMA LinkHoldsNothing ==
    ASSUME NEW place, place.root = "link"
    PROVE  DB!executableHashes(place) = [entries |-> <<>>, errors |-> {}]
BY DEF DB!executableHashes

LEMMA ScanReads ==
    ASSUME NEW place, IsPlace(place), place.root /= "link", DB!executableHashes(place).errors = {}
    PROVE  LET entries == DB!executableHashes(place).entries IN
           /\ ~DB!Blocks(place)
           /\ DOMAIN entries = DB!Programs(place)
           /\ \A p \in DOMAIN entries : entries[p] = place.tree[p].digest
<1> DEFINE tree == place.tree
           seen == DB!Seen(tree, place.blocked)
           Fails(p) == p \in place.blocked /\ (tree[p].type = "dir" \/ DB!IsExecutable(tree, p))
           entries == DB!executableHashes(place).entries
<1>1. \A p \in seen : ~Fails(p)
  BY DEF DB!executableHashes
<1>2. DOMAIN tree \subseteq DOMAIN Above
      /\ \A p \in DOMAIN tree : \A d \in Above[p] : d \in DOMAIN tree /\ tree[d].type = "dir"
  BY DEF IsPlace, DB!IsTree
<1>3. ASSUME NEW p \in DOMAIN tree PROVE p \in seen
  <2>1. SUFFICES ASSUME NEW d \in Above[p], d \in place.blocked PROVE FALSE
    BY DEF DB!Seen
  <2>2. PICK q \in Above[p] : q \in place.blocked /\ \A e \in Above[q] : e \notin place.blocked
    BY <1>2, <2>1, Topmost
  <2>3. q \in seen
    BY <1>2, <2>2 DEF DB!Seen
  <2> QED BY <1>1, <1>2, <2>2, <2>3
<1>4. ~DB!Blocks(place)
  BY <1>1, <1>3 DEF DB!Blocks
<1>5. entries = [p \in {p \in seen : DB!IsExecutable(tree, p) /\ ~Fails(p)} |-> tree[p].digest]
  BY DEF DB!executableHashes
<1>6. {p \in seen : DB!IsExecutable(tree, p) /\ ~Fails(p)} = DB!Programs(place)
  BY <1>1, <1>3 DEF DB!Programs, DB!Seen
<1> HIDE DEF entries, seen, Fails
<1>7. DOMAIN entries = DB!Programs(place) /\ \A p \in DOMAIN entries : entries[p] = tree[p].digest
  BY <1>5, <1>6
<1> QED BY <1>4, <1>7 DEF entries

\* What JSON writes as it is comes back.
LEMMA StoredKeeps ==
    ASSUME NEW D, NEW entries, entries = [p \in D |-> entries[p]], \A p \in D : Written[p] = p
    PROVE  DB!Stored(entries) = entries
<1>1. DOMAIN entries = D
  OBVIOUS
<1>2. {Written[p] : p \in DOMAIN entries} = D
  BY <1>1
<1>3. \A w \in D : (CHOOSE p \in DOMAIN entries : Written[p] = w) = w
  BY <1>1
<1> QED BY <1>1, <1>2, <1>3 DEF DB!Stored

LEMMA ComparePaths ==
    ASSUME NEW old, NEW live
    PROVE  /\ {c.path : c \in DB!Compare(old, live)} =
              (DOMAIN old \ DOMAIN live) \union (DOMAIN live \ DOMAIN old)
              \union {p \in DOMAIN old \intersect DOMAIN live : old[p] /= live[p]}
           /\ old = live => DB!Compare(old, live) = {}
<1> DEFINE Change(status, p) == [status |-> status, path |-> p]
<1>1. \A c : c \in DB!Compare(old, live) <=>
        \/ \E p \in DOMAIN old \ DOMAIN live : c = Change("removed", p)
        \/ \E p \in DOMAIN live \ DOMAIN old : c = Change("added", p)
        \/ \E p \in {p \in DOMAIN old \intersect DOMAIN live : old[p] /= live[p]} : c = Change("modified", p)
  BY DEF DB!Compare
<1>2. \A s, p : Change(s, p).path = p
  OBVIOUS
<1> HIDE DEF Change
<1>3. old = live => DB!Compare(old, live) = {}
  BY <1>1
<1>4. ASSUME NEW q PROVE q \in {c.path : c \in DB!Compare(old, live)} <=>
         \/ q \in DOMAIN old \ DOMAIN live
         \/ q \in DOMAIN live \ DOMAIN old
         \/ q \in {p \in DOMAIN old \intersect DOMAIN live : old[p] /= live[p]}
  BY <1>1, <1>2
<1> QED BY <1>3, <1>4

LEMMA DaemonIsRight ==
    ASSUME NEW in, DB!IsInput(in)
    PROVE  DB!CheckedMeansSigned(in, DB!Dtp(in))
<1> DEFINE out == DB!Dtp(in)
           b == DB!Before(in)
           a == DB!After(in)
           first == DB!executableHashes(b)
           last == DB!executableHashes(a)
           base == DB!Baseline(in.root, first, in.key)
           edited == DB!Edited(base, in.edit)
<1>1. IsPlace(b) /\ IsPlace(a) /\ in.edit \in {"none", "errors", "entries", "root"}
      /\ (in.edit = "root" => in.root /= DB!Other)
  BY DEF DB!IsInput, IsPlace, DB!Before, DB!After
<1> SUFFICES ASSUME out.check.exit = 0, out.index = 0
             PROVE  /\ DB!OnlyTheKeyWrites(in) /\ DB!ReadsEverything(in)
                    /\ DB!ChangesAreDifferences(in, out.check.changes)
  BY DEF DB!CheckedMeansSigned
<1>2. DB!CreateDaemonBaseline(in) = <<base>> /\ b.root /= "unreadable"
  <2>1. DB!CreateDaemonBaseline(in) /= <<>>
    BY DEF DB!Dtp
  <2> QED BY <2>1 DEF DB!CreateDaemonBaseline, DB!Before
<1>3. out.check = DB!CheckDaemonBaseline(edited, in.key2, in.cwd2, in.world2)
  <2>1. <<base>> /= <<>> /\ <<base>>[1] = base
    OBVIOUS
  <2> HIDE DEF base
  <2> QED BY <1>2, <2>1 DEF DB!Dtp
<1> HIDE DEF base
<1> DEFINE place == in.world2[DB!Place(edited.root, in.cwd2)]
<1>4. /\ edited.signature = DB!signBaseline(edited, in.key2) /\ edited.errors = {}
      /\ place.root /= "unreadable" /\ DB!executableHashes(place).errors = {}
      /\ out.check.changes = DB!Compare(edited.entries, DB!executableHashes(place).entries)
  <2> HIDE DEF out, edited
  <2>1. DB!CheckDaemonBaseline(edited, in.key2, in.cwd2, in.world2).exit = 0
    BY <1>3
  <2> QED BY <1>3, <2>1 DEF DB!CheckDaemonBaseline, DB!Failed
<1>5. edited = DB!Edited(Seal(in.root, DB!Stored(first.entries), first.errors, in.key), in.edit)
  BY DEF DB!Baseline, Seal, base
<1>6. /\ in.key2 = in.key /\ edited.root = in.root /\ edited.entries = DB!Stored(first.entries)
      /\ first.errors = {} /\ in.edit \in {"none", "errors", "entries"}
      /\ in.edit = "entries" => DB!Stored(first.entries) = <<>>
  <2> HIDE DEF first, edited
  <2> QED BY <1>1, <1>4, <1>5, Sealed
<1>7. place = a
  BY <1>6 DEF DB!After
<1>8. /\ a.root /= "unreadable" /\ last.errors = {}
      /\ out.check.changes = DB!Compare(DB!Stored(first.entries), last.entries)
  BY <1>4, <1>6, <1>7
<1>9. /\ b.root = "link" => first.entries = <<>>
      /\ a.root = "link" => last.entries = <<>>
  BY LinkHoldsNothing
<1>10. /\ b.root /= "link" => /\ ~DB!Blocks(b) /\ DOMAIN first.entries = DB!Programs(b)
                              /\ \A p \in DB!Programs(b) : first.entries[p] = b.tree[p].digest
       /\ a.root /= "link" => /\ ~DB!Blocks(a) /\ DOMAIN last.entries = DB!Programs(a)
                              /\ \A p \in DB!Programs(a) : last.entries[p] = a.tree[p].digest
  BY <1>1, <1>6, <1>8, ScanReads
<1> HIDE DEF out, edited, place
<1>11. DB!OnlyTheKeyWrites(in)
  <2>1. DB!Stored(first.entries) = <<>> => DOMAIN first.entries = {}
    <3>1. DOMAIN DB!Stored(first.entries) = {Written[p] : p \in DOMAIN first.entries}
      BY DEF DB!Stored
    <3>2. DOMAIN <<>> = {}
      OBVIOUS
    <3> QED BY <3>1, <3>2
  <2> QED BY <1>6, <1>10, <2>1 DEF DB!OnlyTheKeyWrites
<1>12. DB!ReadsEverything(in)
  BY <1>10 DEF DB!ReadsEverything
<1>13. DB!ChangesAreDifferences(in, out.check.changes)
  <2> SUFFICES ASSUME \A p \in DB!Programs(b) : Written[p] = p
               PROVE  /\ b.root = "dir" /\ a.root = "dir" => {c.path : c \in out.check.changes} =
                            {p \in DB!Programs(b) \union DB!Programs(a) : DB!Digest(b, p) /= DB!Digest(a, p)}
                      /\ in.world = in.world2 /\ in.cwd = in.cwd2 => out.check.changes = {}
    BY DEF DB!ChangesAreDifferences
  <2>1. DB!Stored(first.entries) = first.entries
    <3>1. first.entries = [p \in DOMAIN first.entries |-> first.entries[p]]
      <4>1. CASE b.root = "link"
        <5>1. first.entries = <<>>
          BY <1>9, <4>1
        <5> HIDE DEF first
        <5> QED BY <5>1
      <4>2. CASE b.root /= "link"
        BY <4>2 DEF DB!executableHashes
      <4> QED BY <4>1, <4>2
    <3>2. \A p \in DOMAIN first.entries : Written[p] = p
      BY <1>9, <1>10
    <3> HIDE DEF first
    <3> QED BY <3>1, <3>2, StoredKeeps
  <2>2. ASSUME b.root = "dir", a.root = "dir"
        PROVE {c.path : c \in out.check.changes} =
                {p \in DB!Programs(b) \union DB!Programs(a) : DB!Digest(b, p) /= DB!Digest(a, p)}
    <3>1. \A p \in DB!Programs(b) : b.tree[p].digest /= 0
      BY <1>1 DEF IsPlace, DB!IsTree, DB!Entries, DB!Programs, DB!IsExecutable
    <3>2. \A p \in DB!Programs(a) : a.tree[p].digest /= 0
      BY <1>1 DEF IsPlace, DB!IsTree, DB!Entries, DB!Programs, DB!IsExecutable
    <3> HIDE DEF first, last, a, b
    <3>3. {c.path : c \in out.check.changes} =
            (DB!Programs(b) \ DB!Programs(a)) \union (DB!Programs(a) \ DB!Programs(b))
            \union {p \in DB!Programs(b) \intersect DB!Programs(a) : first.entries[p] /= last.entries[p]}
      BY <1>8, <1>10, <2>1, <2>2, ComparePaths
    <3> QED BY <1>10, <2>2, <3>1, <3>2, <3>3 DEF DB!Digest
  <2>3. ASSUME in.world = in.world2, in.cwd = in.cwd2 PROVE out.check.changes = {}
    <3>1. a = b
      BY <2>3 DEF DB!Before, DB!After
    <3> QED BY <1>8, <2>1, <3>1, ComparePaths
  <2> QED BY <2>2, <2>3
<1> QED BY <1>11, <1>12, <1>13

-----------------------------------------------------------------------------
\* What has a bound has a largest element.
LEMMA Largest ==
    ASSUME NEW n \in Nat, NEW T, T \subseteq 1..n, T /= {}
    PROVE  \E x \in T : \A y \in T : x >= y
<1> DEFINE U == {n - x : x \in T}
<1>1. U \subseteq Nat /\ U /= {}
  <2>1. \A x \in T : x \in Nat /\ n - x \in Nat
    OBVIOUS
  <2> QED BY <2>1
<1>2. PICK u \in U : \A v \in U : u <= v
  <2> HIDE DEF U
  <2> QED BY <1>1, Smallest
<1>3. PICK x \in T : u = n - x
  OBVIOUS
<1>4. ASSUME NEW y \in T PROVE x >= y
  <2>1. n - y \in U
    OBVIOUS
  <2>2. n - x <= n - y
    BY <1>2, <1>3, <2>1
  <2> QED BY <2>2
<1> QED BY <1>4

\* ports: what an address becomes on its way through /proc.
LEMMA AddressIs ==
    ASSUME NEW a \in [1..4 -> 0..255] \union [1..16 -> 0..255]
    PROVE  HE!socketAddress(HE!Hex(a)) = a
              <=> (\A i \in DOMAIN a : a[i] < 128) /\ (Len(a) = 16 => HE!Hex(a) = a)
<1>1. CASE a \in [1..4 -> 0..255]
  <2>1. Len(a) = 4 /\ DOMAIN a = 1..4
    BY <1>1
  <2>2. HE!Hex(a) = <<a[4], a[3], a[2], a[1]>>
    BY <2>1 DEF HE!Hex, HE!Reverse4
  <2> DEFINE h == HE!Hex(a)
             o == [i \in 1..4 |-> HE!Octet(h[i])]
  <2>3. Len(h) = 4 /\ h[1] = a[4] /\ h[2] = a[3] /\ h[3] = a[2] /\ h[4] = a[1]
    BY <2>2
  <2>4. HE!socketAddress(h) = <<o[4], o[3], o[2], o[1]>>
    BY <2>3 DEF HE!socketAddress, HE!Reverse4
  <2>5. o[4] = HE!Octet(a[1]) /\ o[3] = HE!Octet(a[2]) /\ o[2] = HE!Octet(a[3]) /\ o[1] = HE!Octet(a[4])
    BY <2>3
  <2>6. \A x \in 0..255 : HE!Octet(x) = x <=> x < 128
    BY DEF HE!Octet
  <2>7. a[1] \in 0..255 /\ a[2] \in 0..255 /\ a[3] \in 0..255 /\ a[4] \in 0..255
    BY <1>1
  <2> HIDE DEF h, o
  <2>8. HE!socketAddress(h) = a <=> o[4] = a[1] /\ o[3] = a[2] /\ o[2] = a[3] /\ o[1] = a[4]
    <3>1. a = <<a[1], a[2], a[3], a[4]>>
      BY <1>1
    <3> QED BY <2>4, <3>1
  <2>9. (\A i \in DOMAIN a : a[i] < 128) <=> a[1] < 128 /\ a[2] < 128 /\ a[3] < 128 /\ a[4] < 128
    BY <2>1
  <2> QED BY <2>1, <2>5, <2>6, <2>7, <2>8, <2>9 DEF h
<1>2. CASE a \in [1..16 -> 0..255]
  <2>1. Len(a) = 16 /\ DOMAIN a = 1..16
    BY <1>2
  <2> DEFINE h == HE!Hex(a)
             At(i) == 4 * ((i - 1) \div 4) + 4 - ((i - 1) % 4)
  <2>2. \A i \in 1..16 : At(i) \in 1..16
    OBVIOUS
  <2>3. h = [i \in 1..16 |-> a[At(i)]]
    BY <2>1 DEF HE!Hex
  <2>4. h \in [1..16 -> 0..255] /\ \A i \in 1..16 : h[i] = a[At(i)]
    BY <1>2, <2>2, <2>3
  <2>5. Len(h) = 16
    BY <2>4
  <2> HIDE DEF h, At
  <2>6. HE!socketAddress(h) = [i \in 1..16 |-> HE!Octet(h[i])]
    BY <2>5 DEF HE!socketAddress
  <2>7. \A x \in 0..255 : /\ x < 128 => HE!Octet(x) = x
                          /\ x >= 128 => HE!Octet(x) = 127
    BY DEF HE!Octet
  <2>8. ASSUME HE!socketAddress(h) = a PROVE (\A i \in 1..16 : a[i] < 128) /\ h = a
    <3>1. \A i \in 1..16 : a[i] = HE!Octet(h[i])
      BY <2>6, <2>8
    <3>2. ASSUME NEW i \in 1..16 PROVE a[i] < 128
      <4>1. h[i] \in 0..255 /\ a[i] = HE!Octet(h[i])
        BY <2>4, <3>1
      <4> QED BY <2>7, <4>1
    <3>3. \A i \in 1..16 : h[i] < 128
      BY <2>2, <2>4, <3>2
    <3>4. ASSUME NEW i \in 1..16 PROVE h[i] = a[i]
      <4>1. h[i] \in 0..255 /\ h[i] < 128 /\ a[i] = HE!Octet(h[i])
        BY <2>4, <3>1, <3>3
      <4> QED BY <2>7, <4>1
    <3> QED BY <1>2, <2>4, <3>2, <3>4
  <2>9. ASSUME \A i \in 1..16 : a[i] < 128, h = a PROVE HE!socketAddress(h) = a
    <3>1. ASSUME NEW i \in 1..16 PROVE HE!Octet(h[i]) = a[i]
      <4>1. h[i] \in 0..255 /\ h[i] < 128 /\ h[i] = a[i]
        BY <2>4, <2>9
      <4> QED BY <2>7, <4>1
    <3> QED BY <1>2, <2>6, <3>1
  <2> QED BY <2>1, <2>8, <2>9 DEF h
<1> QED BY <1>1, <1>2

\* An owner has held the socket when it was read, and a process that was there and was
\* shown is the owner of all it held or has shared it.
LEMMA OwnerHolds ==
    ASSUME NEW in, HE!IsHost(in)
    PROVE  LET owned == HE!owners(in) IN
           /\ \A inode \in DOMAIN owned : inode \in in.moments[owned[inode]][owned[inode]].holds
           /\ \A p \in DOMAIN in.moments[1] :
                /\ in.moments[1][p].alive /\ in.moments[p][p].shown
                => in.moments[p][p].holds \subseteq DOMAIN owned
<1> DEFINE P == DOMAIN in.moments[1]
           seen == {p \in P : in.moments[1][p].alive /\ in.moments[p][p].shown}
           holders(inode) == {p \in seen : inode \in in.moments[p][p].holds}
           owned == HE!owners(in)
<1>1. owned = [inode \in UNION {in.moments[p][p].holds : p \in seen} |-> HE!Max(holders(inode))]
  BY DEF HE!owners
<1>2. PICK n \in Nat : P = 1..n
  <2>1. in.moments \in Seq([1..Len(in.moments[1]) -> HE!Process]) /\ Len(in.moments[1]) \in 1..Len(in.moments)
    BY DEF HE!IsHost, HE!AreMoments
  <2>2. in.moments[1] \in [1..Len(in.moments[1]) -> HE!Process]
    BY <2>1
  <2>3. Len(in.moments[1]) \in Nat /\ P = 1..Len(in.moments[1])
    BY <2>1, <2>2
  <2> QED BY <2>3
<1> HIDE DEF P
<1>3. ASSUME NEW inode \in DOMAIN owned PROVE inode \in in.moments[owned[inode]][owned[inode]].holds
  <2>1. inode \in UNION {in.moments[p][p].holds : p \in seen} /\ owned[inode] = HE!Max(holders(inode))
    BY <1>1
  <2>2. holders(inode) /= {} /\ holders(inode) \subseteq 1..n
    BY <1>2, <2>1
  <2>3. \E x \in holders(inode) : \A y \in holders(inode) : x >= y
    <3> HIDE DEF holders
    <3> QED BY <2>2, Largest
  <2>4. HE!Max(holders(inode)) \in holders(inode)
    <3> HIDE DEF holders
    <3> QED BY <2>3 DEF HE!Max
  <2> QED BY <2>1, <2>4
<1>4. ASSUME NEW p \in P, in.moments[1][p].alive /\ in.moments[p][p].shown
      PROVE  in.moments[p][p].holds \subseteq DOMAIN owned
  BY <1>1, <1>4
<1> QED BY <1>3, <1>4 DEF P

\* The record that List makes of a row.
Listed(in, row) ==
    LET owned == HE!owners(in) IN
    [transport |-> row.transport, address |-> HE!socketAddress(HE!Hex(row.address)), port |-> row.port,
     inode |-> row.inode,
     pid |-> IF row.inode \in DOMAIN owned THEN owned[row.inode] ELSE 0,
     visibility |-> IF row.inode \in DOMAIN owned THEN "complete" ELSE "partial"]

Asked(row, transport) ==
    row.transport \in ({"tcp", "udp"} \intersect (IF transport = HE!Empty THEN {"tcp", "udp"} ELSE {transport}))

LEMMA ListedIs ==
    ASSUME NEW in, NEW row
    PROVE  LET r == Listed(in, row) owned == HE!owners(in) IN
           /\ r.transport = row.transport /\ r.port = row.port /\ r.inode = row.inode
           /\ r.address = HE!socketAddress(HE!Hex(row.address))
           /\ r.visibility = "complete" => r.inode \in DOMAIN owned /\ r.pid = owned[r.inode]
           /\ r.visibility = "partial" => r.inode \notin DOMAIN owned
           /\ r.visibility \in {"complete", "partial"}
BY DEF Listed

LEMMA ListIs ==
    ASSUME NEW in, NEW port, NEW transport, NEW r
    PROVE  LET list == HE!List(in, port, transport) IN
           /\ list.exit \in {0, 4}
           /\ list.exit = 4 => list.records = {}
           /\ list.exit = 0 => (r \in list.records <=>
                \E row \in in.tables : /\ HE!Listening(row) /\ Asked(row, transport)
                                       /\ r = Listed(in, row) /\ port \in {0, r.port})
<1> DEFINE wanted == {"tcp", "udp"} \intersect (IF transport = HE!Empty THEN {"tcp", "udp"} ELSE {transport})
           records == HE!Read({row \in in.tables : row.transport \in wanted}, HE!owners(in))
<1>1. r \in records <=> \E row \in in.tables : /\ HE!Listening(row) /\ Asked(row, transport) /\ r = Listed(in, row)
  BY DEF HE!Read, Listed, Asked
<1> HIDE DEF records
<1>2. CASE in.missing \intersect wanted /= {}
  <2>1. HE!List(in, port, transport) = [exit |-> 4, records |-> {}]
    BY <1>2 DEF HE!List
  <2> QED BY <2>1
<1>3. CASE in.missing \intersect wanted = {}
  <2>1. HE!List(in, port, transport) = [exit |-> 0, records |-> {x \in records : port \in {0, x.port}}]
    BY <1>3 DEF HE!List, records
  <2> QED BY <1>1, <2>1
<1> QED BY <1>2, <1>3

LEMMA PortsIsRight ==
    ASSUME NEW in, HE!IsHost(in)
    PROVE  HE!PortsAreHeld(in, HE!Ports(in))
<1> DEFINE list == HE!List(in, in.port, in.transport)
           whole == HE!List(in, in.port, HE!Empty)
           owned == HE!owners(in)
<1>1. in.tables \subseteq HE!Row /\ in.transport \in {HE!Empty, "tcp", "udp"} /\ in.port \in Nat
  BY DEF HE!IsHost
<1>2. ASSUME list.exit = 0 PROVE HE!RowsAreListed(in, list)
  <2> DEFINE rows == {row \in in.tables : /\ HE!Listening(row) /\ in.port \in {0, row.port}
                                          /\ in.transport \in {HE!Empty, row.transport}}
             readable(a) == (\A i \in DOMAIN a : a[i] < 128) /\ (Len(a) = 16 => HE!Hex(a) = a)
  <2>1. \A row \in in.tables : Asked(row, in.transport) <=> in.transport \in {HE!Empty, row.transport}
    BY <1>1 DEF Asked, HE!Row
  <2>2. \A r : r \in list.records <=> \E row \in rows : r = Listed(in, row)
    <3>1. \A r : r \in list.records <=> \E row \in in.tables :
            HE!Listening(row) /\ Asked(row, in.transport) /\ r = Listed(in, row) /\ in.port \in {0, r.port}
      BY <1>2, ListIs
    <3>2. \A row : Listed(in, row).port = row.port
      BY ListedIs
    <3> HIDE DEF list
    <3> QED BY <2>1, <3>1, <3>2
  <2>3. \A row \in rows : \E r \in list.records : r.transport = row.transport /\ r.inode = row.inode
    <3> HIDE DEF list, rows
    <3> QED BY <2>2, ListedIs
  <2>4. ASSUME NEW r \in list.records
        PROVE  \E row \in rows : /\ row.inode = r.inode /\ row.transport = r.transport
                                 /\ readable(row.address) <=> r.address = row.address
    <3>1. PICK row \in rows : r = Listed(in, row)
      <4> HIDE DEF list, rows
      <4> QED BY <2>2
    <3>2. r.inode = row.inode /\ r.transport = row.transport /\ r.address = HE!socketAddress(HE!Hex(row.address))
      BY <3>1, ListedIs
    <3>3. row.address \in [1..4 -> 0..255] \union [1..16 -> 0..255]
      BY <1>1 DEF HE!Row
    <3>4. readable(row.address) <=> r.address = row.address
      BY <3>2, <3>3, AddressIs
    <3> HIDE DEF rows, readable
    <3> QED BY <3>2, <3>4
  <2> HIDE DEF list
  <2> QED BY <2>3, <2>4 DEF HE!RowsAreListed
<1>3. ASSUME list.exit = 0 PROVE HE!OwnersHeld(in, list)
  <2> DEFINE still == \A k \in DOMAIN in.moments : in.moments[k] = in.moments[1]
  <2>1. ASSUME NEW r \in list.records
        PROVE  /\ r.visibility = "complete" => r.inode \in in.moments[r.pid][r.pid].holds
               /\ r.visibility = "partial" /\ still => \A p \in DOMAIN in.moments[1] :
                    r.inode \in in.moments[1][p].holds => ~in.moments[1][p].shown
    <3>1. PICK row \in in.tables : r = Listed(in, row)
      BY <1>3, ListIs
    <3>2. /\ r.visibility = "complete" => r.inode \in DOMAIN owned /\ r.pid = owned[r.inode]
          /\ r.visibility = "partial" => r.inode \notin DOMAIN owned
      BY <3>1, ListedIs
    <3>3. /\ \A inode \in DOMAIN owned : inode \in in.moments[owned[inode]][owned[inode]].holds
          /\ \A p \in DOMAIN in.moments[1] :
               in.moments[1][p].alive /\ in.moments[p][p].shown => in.moments[p][p].holds \subseteq DOMAIN owned
      BY OwnerHolds
    <3>4. ASSUME still, NEW p \in DOMAIN in.moments[1] PROVE in.moments[p] = in.moments[1]
      <4>1. in.moments \in Seq([1..Len(in.moments[1]) -> HE!Process]) /\ Len(in.moments[1]) \in 1..Len(in.moments)
        BY DEF HE!IsHost, HE!AreMoments
      <4>2. in.moments[1] \in [1..Len(in.moments[1]) -> HE!Process]
        BY <4>1
      <4>3. p \in DOMAIN in.moments
        BY <4>1, <4>2
      <4> QED BY <3>4, <4>3
    <3>5. \A p \in DOMAIN in.moments[1] : ~in.moments[1][p].alive => ~in.moments[1][p].shown
      <4>1. in.moments \in Seq([1..Len(in.moments[1]) -> HE!Process]) /\ Len(in.moments[1]) \in 1..Len(in.moments)
        BY DEF HE!IsHost, HE!AreMoments
      <4>2. in.moments[1] \in [1..Len(in.moments[1]) -> HE!Process]
        BY <4>1
      <4> QED BY <4>2 DEF HE!Process
    <3> HIDE DEF still, owned
    <3>6. r.visibility = "complete" => r.inode \in in.moments[r.pid][r.pid].holds
      BY <3>2, <3>3
    <3>7. ASSUME r.visibility = "partial", still, NEW p \in DOMAIN in.moments[1],
                 r.inode \in in.moments[1][p].holds, in.moments[1][p].shown
          PROVE  FALSE
      <4>1. in.moments[p] = in.moments[1] /\ in.moments[1][p].alive
        BY <3>4, <3>5, <3>7
      <4> QED BY <3>2, <3>3, <3>7, <4>1
    <3> QED BY <3>6, <3>7
  <2> HIDE DEF list
  <2> QED BY <2>1 DEF HE!OwnersHeld
<1>4. ASSUME HE!Portwhy(in, in.port).exit = 0, NEW r \in HE!Portwhy(in, in.port).records
      PROVE  r.visibility = "complete" /\ r.port = in.port
  <2>1. in.port /= 0 /\ whole.exit = 0 /\ HE!Portwhy(in, in.port) = whole
        /\ ~ \E x \in whole.records : x.visibility = "partial"
    <3>1. whole.exit \in {0, 4}
      BY ListIs
    <3>2. in.port /= 0
      BY <1>4 DEF HE!Portwhy
    <3>3. CASE whole.exit = 0 /\ \E x \in whole.records : x.visibility = "partial"
      <4>1. HE!Portwhy(in, in.port) = [whole EXCEPT !.exit = 3]
        BY <3>2, <3>3 DEF HE!Portwhy
      <4>2. [whole EXCEPT !.exit = 3].exit = 3
        BY DEF HE!List
      <4>3. HE!Portwhy(in, in.port).exit = 3
        <5> HIDE DEF whole
        <5> QED BY <4>1, <4>2, Zenon
      <4>4. 3 /= 0
        OBVIOUS
      <4> HIDE DEF whole
      <4> QED BY <1>4, <4>3, <4>4, Zenon
    <3>4. CASE ~(whole.exit = 0 /\ \E x \in whole.records : x.visibility = "partial")
      <4>1. HE!Portwhy(in, in.port) = whole
        BY <3>2, <3>4 DEF HE!Portwhy
      <4> HIDE DEF whole
      <4> QED BY <1>4, <3>2, <3>4, <4>1
    <3> QED BY <3>3, <3>4
  <2>2. r \in whole.records
    BY <1>4, <2>1
  <2>3. PICK row \in in.tables : r = Listed(in, row) /\ in.port \in {0, r.port}
    <3>1. whole.exit = 0 => (r \in whole.records <=>
                \E row \in in.tables : /\ HE!Listening(row) /\ Asked(row, HE!Empty)
                                       /\ r = Listed(in, row) /\ in.port \in {0, r.port})
      BY ListIs
    <3> HIDE DEF whole
    <3> QED BY <2>1, <2>2, <3>1
  <2>4. r.visibility \in {"complete", "partial"}
    BY <2>3, ListedIs
  <2> QED BY <2>1, <2>2, <2>3, <2>4
<1>5. HE!Expose(in).exit /= 0
  <2> DEFINE all == HE!List(in, 0, HE!Empty)
  <2>1. CASE all.exit = 0
    <3>1. HE!Expose(in) = [all EXCEPT !.exit = 3]
      BY <2>1 DEF HE!Expose
    <3>2. [all EXCEPT !.exit = 3].exit = 3
      BY DEF HE!List
    <3>3. HE!Expose(in).exit = 3
      <4> HIDE DEF all
      <4> QED BY <3>1, <3>2, Zenon
    <3> QED BY <3>3
  <2>2. CASE all.exit /= 0
    BY <2>2 DEF HE!Expose
  <2> QED BY <2>1, <2>2
<1> QED BY <1>2, <1>3, <1>4, <1>5 DEF HE!PortsAreHeld, HE!Ports

\* restartwhy reads what a process holds, or cannot.
LEMMA RestartsAreRight ==
    ASSUME NEW in, HE!IsRestart(in)
    PROVE  HE!RestartsAreSeen(in, HE!Restartwhy(in))
<1> DEFINE P == DOMAIN in.moments[1]
           lasting == {p \in P : \A k \in DOMAIN in.moments : in.moments[k][p].alive /\ in.pid \in {0, p}}
           maps(p) == HE!inspectPID(in.moments[p][p])
           candidates == {p \in P : in.moments[1][p].alive /\ in.pid \in {0, p}}
           processes == {p \in candidates : maps(p) \notin {{}, HE!CannotRead}}
           diagnostics == {p \in candidates : maps(p) = HE!CannotRead}
           report == HE!Inspect(in)
           out == HE!Restartwhy(in)
<1>1. report.processes = processes /\ report.diagnostics = diagnostics
  BY DEF HE!Inspect
<1>2. /\ out.processes = processes /\ out.diagnostics = diagnostics
      /\ out.exit = IF processes /= {} THEN 1 ELSE IF diagnostics /= {} THEN 3 ELSE 0
  <2>1. /\ out.processes = report.processes /\ out.diagnostics = report.diagnostics
        /\ out.exit = IF report.processes /= {} THEN 1 ELSE IF report.diagnostics /= {} THEN 3 ELSE 0
    BY DEF HE!Restartwhy
  <2> HIDE DEF report, out, processes, diagnostics
  <2> QED BY <1>1, <2>1
<1>3. in.moments \in Seq([1..Len(in.moments[1]) -> HE!Process]) /\ Len(in.moments[1]) \in 1..Len(in.moments)
  BY DEF HE!IsRestart, HE!AreMoments
<1>4. in.moments[1] \in [1..Len(in.moments[1]) -> HE!Process]
  BY <1>3
<1>5. ASSUME NEW p \in P
      PROVE  p \in DOMAIN in.moments /\ 1 \in DOMAIN in.moments /\ in.moments[p][p] \in HE!Process
  <2>1. p \in 1..Len(in.moments[1]) /\ p \in DOMAIN in.moments /\ 1 \in DOMAIN in.moments
    BY <1>3, <1>4
  <2>2. in.moments[p] \in [1..Len(in.moments[1]) -> HE!Process]
    BY <1>3, <2>1
  <2> QED BY <2>1, <2>2
<1>6. ASSUME NEW p \in lasting
      PROVE  /\ p \in candidates
             /\ in.moments[p][p].shown => maps(p) = in.moments[p][p].holds /\ maps(p) /= HE!CannotRead
             /\ ~in.moments[p][p].shown => maps(p) = HE!CannotRead
  <2>1. p \in P /\ p \in DOMAIN in.moments /\ 1 \in DOMAIN in.moments /\ in.moments[p][p] \in HE!Process
    BY <1>5, <1>6
  <2>2. in.moments[p][p].holds \subseteq Nat \ {0}
    BY <2>1 DEF HE!Process
  <2>3. in.moments[p][p].holds /= HE!CannotRead
    BY <2>2 DEF HE!CannotRead
  <2>4. p \in candidates
    BY <2>1, <1>6
  <2> QED BY <2>3, <2>4 DEF HE!inspectPID
<1> HIDE DEF maps, candidates, lasting
<1>7. out.exit = 0 => \A p \in lasting : in.moments[p][p].shown /\ in.moments[p][p].holds = {}
  <2>1. SUFFICES ASSUME out.exit = 0, NEW p \in lasting
                 PROVE  in.moments[p][p].shown /\ in.moments[p][p].holds = {}
    OBVIOUS
  <2>2. processes = {} /\ diagnostics = {}
    BY <1>2, <2>1
  <2>3. maps(p) \in {{}, HE!CannotRead} /\ maps(p) /= HE!CannotRead
    BY <1>6, <2>2
  <2> QED BY <1>6, <2>3
<1>8. (\E p \in lasting : in.moments[p][p].shown /\ in.moments[p][p].holds /= {})
        <=> out.exit = 1 /\ processes \intersect lasting /= {}
  <2>1. \A p \in lasting : p \in processes <=> in.moments[p][p].shown /\ in.moments[p][p].holds /= {}
    <3>1. SUFFICES ASSUME NEW p \in lasting
                   PROVE  p \in processes <=> in.moments[p][p].shown /\ in.moments[p][p].holds /= {}
      OBVIOUS
    <3>2. p \in processes <=> maps(p) \notin {{}, HE!CannotRead}
      BY <1>6
    <3> HIDE DEF processes
    <3>3. CASE in.moments[p][p].shown
      BY <1>6, <3>2, <3>3
    <3>4. CASE ~in.moments[p][p].shown
      BY <1>6, <3>2, <3>4
    <3> QED BY <3>3, <3>4
  <2>2. processes /= {} => out.exit = 1
    BY <1>2
  <2> HIDE DEF processes, out
  <2> QED BY <2>1, <2>2
<1> HIDE DEF out, processes
<1> QED BY <1>2, <1>7, <1>8 DEF HE!RestartsAreSeen, lasting, out

\* pwatch ends at the first sample that is not of a process that is there.
LEMMA SamplesAreRight ==
    ASSUME NEW in, HE!IsWatch(in)
    PROVE  HE!SamplesAreKept(in, HE!Samples(in))
<1> DEFINE n == Len(in.samples)
           taken == [k \in DOMAIN in.samples |-> HE!Sample(in.samples[k])]
           ends == {k \in DOMAIN taken : taken[k] /= "ok"} \union {Len(taken)}
           count == HE!Min(ends)
           error == taken[count] = "error"
           p == HE!Pwatch(in)
<1>1. n \in Nat \ {0} /\ DOMAIN in.samples = 1..n
      /\ \A k \in 1..n : in.samples[k] \in {"ok", "exited", "ends", "hidden"}
  BY DEF HE!IsWatch
<1>2. taken \in Seq({"ok", "exited", "error"}) /\ Len(taken) = n /\ DOMAIN taken = 1..n
  <2>1. \A k \in 1..n : HE!Sample(in.samples[k]) \in {"ok", "exited", "error"}
    BY <1>1 DEF HE!Sample
  <2>2. taken \in [1..n -> {"ok", "exited", "error"}]
    BY <1>1, <2>1
  <2> HIDE DEF taken
  <2> QED BY <1>1, <2>2
<1>3. \A k \in 1..n : /\ taken[k] = HE!Sample(in.samples[k])
                      /\ taken[k] = "error" <=> in.samples[k] \in {"ends", "hidden"}
  BY <1>1 DEF HE!Sample
<1> HIDE DEF taken, n
<1>4. ends \subseteq 1..n /\ n \in ends
  BY <1>1, <1>2
<1>5. count \in ends /\ \A k \in ends : count <= k
  <2>1. \E x \in ends : \A y \in ends : x <= y
    <3>1. ends \subseteq Nat /\ ends /= {}
      BY <1>1, <1>4
    <3> HIDE DEF ends
    <3> QED BY <3>1, Smallest
  <2> HIDE DEF ends
  <2> QED BY <2>1 DEF HE!Min
<1>6. count \in 1..n
  BY <1>4, <1>5
<1>7. ASSUME NEW k \in 1..n, k < count PROVE taken[k] = "ok"
  <2>1. k \notin ends
    <3> HIDE DEF ends
    <3> QED BY <1>5, <1>6, <1>7
  <2> QED BY <1>2, <2>1
<1>8. count < n => taken[count] /= "ok"
  <2>1. count \in {k \in DOMAIN taken : taken[k] /= "ok"} \/ count = n
    BY <1>2, <1>5
  <2> HIDE DEF count
  <2> QED BY <1>1, <2>1
<1> HIDE DEF ends
<1>9. /\ p.exit = IF error THEN 4 ELSE 0
      /\ p.printed = IF ~error THEN SubSeq(taken, 1, count)
                     ELSE IF in.format = "json" THEN <<>> ELSE SubSeq(taken, 1, count - 1)
  BY DEF HE!Pwatch, taken, count, ends
<1> DEFINE s == HE!Servicewhy(in)
           out == HE!Samples(in)
<1>10. out.pwatch = p /\ out.servicewhy = s
  BY DEF HE!Samples
<1>11. s = 4 => taken[1] = "error"
  BY <1>1, <1>3 DEF HE!Servicewhy
<1> HIDE DEF count, p, s, out
<1> DEFINE printed == p.printed
<1>12. CASE ~error
  <2>1. printed = SubSeq(taken, 1, count) /\ p.exit = 0
    BY <1>9, <1>12
  <2>2. Len(printed) = count /\ \A k \in 1..count : printed[k] = taken[k]
    BY <1>1, <1>2, <1>6, <2>1
  <2> HIDE DEF printed
  <2>3. \A k \in 1..(Len(printed) - 1) : printed[k] = "ok"
    BY <1>1, <1>6, <1>7, <2>2
  <2>4. Len(printed) < n => printed[Len(printed)] = "exited"
    <3>1. taken[count] \in {"ok", "exited", "error"}
      BY <1>2, <1>6
    <3> QED BY <1>6, <1>8, <1>12, <2>2, <3>1
  <2>5. s /= 4
    <3>1. SUFFICES ASSUME s = 4 PROVE FALSE
      OBVIOUS
    <3>2. taken[1] = "error" /\ count /= 1
      BY <1>11, <1>12, <3>1
    <3>3. 1 \in 1..n /\ 1 < count
      BY <1>1, <1>6, <3>2
    <3> QED BY <1>7, <3>2, <3>3
  <2>6. out.pwatch.printed = printed /\ out.pwatch.exit = 0 /\ out.servicewhy /= 4
    BY <1>10, <2>1, <2>5 DEF printed
  <2> QED BY <2>3, <2>4, <2>6 DEF HE!SamplesAreKept, n, out
<1>13. CASE error
  <2>1. p.exit = 4 /\ printed = IF in.format = "json" THEN <<>> ELSE SubSeq(taken, 1, count - 1)
    BY <1>9, <1>13
  <2>2. in.format = "json" \/ in.format = "ndjson"
    BY DEF HE!IsWatch
  <2>3. SubSeq(taken, 1, count - 1) \in Seq({"ok", "exited", "error"})
        /\ Len(SubSeq(taken, 1, count - 1)) = count - 1
        /\ \A k \in 1..(count - 1) : SubSeq(taken, 1, count - 1)[k] = taken[k]
    BY <1>1, <1>2, <1>6
  <2>4. \A k \in 1..(Len(printed) - 1) : printed[k] = "ok"
    <3>1. CASE in.format = "json"
      <4>1. Len(printed) = 0
        BY <2>1, <3>1
      <4> QED BY <4>1
    <3>2. CASE in.format = "ndjson"
      <4>1. Len(printed) = count - 1 /\ \A k \in 1..(count - 1) : printed[k] = taken[k]
        BY <2>1, <2>3, <3>2
      <4> HIDE DEF printed
      <4> QED BY <1>1, <1>6, <1>7, <4>1
    <3> QED BY <2>2, <3>1, <3>2
  <2>5. s = 4 => printed = <<>>
    <3>1. SUFFICES ASSUME s = 4 PROVE printed = <<>>
      OBVIOUS
    <3>2. count = 1
      <4>1. 1 \in 1..n /\ taken[1] /= "ok"
        BY <1>1, <1>11, <3>1
      <4> QED BY <1>6, <1>7, <4>1
    <3> QED BY <2>1, <2>3, <3>2
  <2>6. in.format = "ndjson" => in.samples[Len(printed) + 1] \in {"ends", "hidden"}
    <3>1. SUFFICES ASSUME in.format = "ndjson" PROVE in.samples[Len(printed) + 1] \in {"ends", "hidden"}
      OBVIOUS
    <3>2. Len(printed) + 1 = count
      <4>1. Len(printed) = count - 1
        BY <2>1, <2>3, <3>1
      <4> HIDE DEF printed
      <4> QED BY <1>1, <1>6, <4>1
    <3> QED BY <1>3, <1>6, <1>13, <3>2
  <2>7. out.pwatch.printed = printed /\ out.pwatch.exit = 4 /\ out.servicewhy = s
    BY <1>10, <2>1
  <2> HIDE DEF printed
  <2> QED BY <2>4, <2>5, <2>6, <2>7 DEF HE!SamplesAreKept, n, out
<1> QED BY <1>12, <1>13

\* unitwhy: each way to end it, and what is told then.
LEMMA UnitsAreRight ==
    ASSUME NEW in, HE!IsUnit(in)
    PROVE  HE!UnitsAreTold(in, HE!Unitwhy(in))
<1> DEFINE journal == in.journalLines > 0 /\ in.journal /= "fails"
           outcome == HE!Outcome(in.active, in.result)
           told(condition, what) == IF condition THEN {what} ELSE {}
           nothing(code) == [exit |-> code, journal |-> 0, diagnostics |-> {}]
           out == HE!Unitwhy(in)
<1>1. CASE in.unit \in {HE!Empty, "path"} \/ in.systemctl = "fails"
  <2>1. out = nothing(2) \/ out = nothing(4)
    BY <1>1 DEF HE!Unitwhy
  <2>2. out.exit \in {2, 4}
    BY <2>1
  <2> HIDE DEF out
  <2> QED BY <2>2 DEF HE!UnitsAreTold, out
<1>2. CASE ~(in.unit \in {HE!Empty, "path"} \/ in.systemctl = "fails")
  <2> DEFINE diagnostics == told(in.journalLines > 0 /\ ~journal, "journal_unavailable")
                            \union told(~in.fragment, "fragment_unavailable")
  <2>1. /\ out.exit = CASE outcome = "pass" -> 0 [] outcome = "fail" -> 1 [] OTHER -> 3
        /\ out.diagnostics = diagnostics
    BY <1>2 DEF HE!Unitwhy
  <2>2. in.active = "failed" => outcome = "fail"
    BY DEF HE!Outcome
  <2>3. outcome = "pass" => in.active = "active" /\ in.result \in {HE!Empty, "success"}
    BY DEF HE!Outcome
  <2>4. in.journalLines > 0 /\ in.journal = "fails" => "journal_unavailable" \in diagnostics
    OBVIOUS
  <2> HIDE DEF out, outcome, diagnostics
  <2>5. out.exit \in {0, 1, 3} /\ (out.exit = 0 => outcome = "pass") /\ (outcome = "fail" => out.exit = 1)
    BY <2>1
  <2> QED BY <2>1, <2>2, <2>3, <2>4, <2>5 DEF HE!UnitsAreTold, out
<1> QED BY <1>1, <1>2

\* contextsnap: what Normalize keeps of an answer.
LEMMA NormalizeIs ==
    ASSUME NEW in
    PROVE  LET out == HE!Normalize(in) IN
           /\ out.account = HE!Empty <=> out.principal = HE!Empty
           /\ out.exit = 0 => HE!Safe(out.account) /\ HE!Safe(out.principal) /\ in.observed = "now"
           /\ out.exit \in {0, 3}
           /\ out.account /= HE!Empty => out.account = (IF in.cloud = "alicloud" THEN in.answer.AccountId ELSE in.answer.Account)
<1> DEFINE account == IF in.cloud = "alicloud" THEN in.answer.AccountId ELSE in.answer.Account
           usable == in.answer.valid /\ HE!Safe(account) /\ HE!Safe(in.answer.Arn)
           out == HE!Normalize(in)
<1>1. CASE ~usable
  <2>1. out = HE!Partial
    BY <1>1 DEF HE!Normalize
  <2>2. out.exit = 3 /\ out.account = HE!Empty /\ out.principal = HE!Empty
    BY <2>1 DEF HE!Partial
  <2> HIDE DEF out
  <2> QED BY <2>2 DEF out
<1>2. CASE usable
  <2>1. out = [exit |-> IF in.observed = "now" THEN 0 ELSE 3, account |-> account, principal |-> in.answer.Arn]
    BY <1>2 DEF HE!Normalize
  <2> HIDE DEF account
  <2>2. /\ out.exit = IF in.observed = "now" THEN 0 ELSE 3
        /\ out.account = account /\ out.principal = in.answer.Arn
    <3> HIDE DEF out
    <3> QED BY <2>1
  <2>3. account /= HE!Empty /\ in.answer.Arn /= HE!Empty /\ HE!Safe(account) /\ HE!Safe(in.answer.Arn)
    BY <1>2 DEF HE!Safe
  <2> HIDE DEF out
  <2>4. out.account /= HE!Empty /\ out.principal /= HE!Empty /\ HE!Safe(out.account) /\ HE!Safe(out.principal)
    BY <2>2, <2>3
  <2>5. out.exit \in {0, 3} /\ (out.exit = 0 => in.observed = "now")
    BY <2>2
  <2> QED BY <2>2, <2>4, <2>5 DEF out, account
<1> QED BY <1>1, <1>2

LEMMA IdentityIsRight ==
    ASSUME NEW in, HE!IsContext(in)
    PROVE  HE!IdentityIsWhole(in, HE!Contextsnap(in))
<1> DEFINE refused(code) == [HE!Partial EXCEPT !.exit = code]
           out == HE!Contextsnap(in)
           now == [in EXCEPT !.observed = "now"]
<1>1. /\ refused(2).exit = 2 /\ refused(2).account = HE!Empty /\ refused(2).principal = HE!Empty
      /\ refused(4).exit = 4 /\ refused(4).account = HE!Empty /\ refused(4).principal = HE!Empty
      /\ HE!Partial.exit = 3 /\ HE!Partial.account = HE!Empty /\ HE!Partial.principal = HE!Empty
  BY DEF HE!Partial
<1>2. now.cloud = in.cloud /\ now.answer = in.answer
  BY DEF HE!IsContext
<1>3. \/ out.exit \in {2, 3, 4} /\ out.account = HE!Empty /\ out.principal = HE!Empty
      \/ out = HE!Normalize(now) /\ in.program /= "fails" /\ HE!Validate(in)
      \/ out = HE!Normalize(in) /\ in.program /= "fails" /\ HE!Validate(in)
  <2>1. \/ out = refused(2) \/ out = refused(4) \/ out = HE!Partial
        \/ out = HE!Normalize(now) /\ in.program /= "fails" /\ HE!Validate(in)
        \/ out = HE!Normalize(in) /\ in.program /= "fails" /\ HE!Validate(in)
    BY DEF HE!Contextsnap, HE!Collect
  <2> HIDE DEF out, refused, now
  <2> QED BY <1>1, <2>1
<1>4. in.program \in {"ends", "fails"}
  BY DEF HE!IsContext
<1>5. HE!Validate(in) => in.cloud \in {"aws", "alicloud"}
  BY DEF HE!Validate
<1> HIDE DEF out, now
<1>6. CASE out.exit \in {2, 3, 4} /\ out.account = HE!Empty /\ out.principal = HE!Empty
  BY <1>6 DEF HE!IdentityIsWhole, out
<1>7. CASE out = HE!Normalize(now) /\ in.program /= "fails" /\ HE!Validate(in)
  <2> DEFINE norm == HE!Normalize(now)
  <2>1. /\ norm.account = HE!Empty <=> norm.principal = HE!Empty
        /\ norm.exit = 0 => HE!Safe(norm.account) /\ HE!Safe(norm.principal)
        /\ norm.account /= HE!Empty => norm.account = (IF now.cloud = "alicloud" THEN now.answer.AccountId ELSE now.answer.Account)
    BY <1>2, NormalizeIs
  <2> HIDE DEF norm
  <2>2. out = norm
    BY <1>7 DEF norm
  <2> QED BY <1>2, <1>4, <1>5, <1>7, <2>1, <2>2 DEF HE!IdentityIsWhole, out
<1>8. CASE out = HE!Normalize(in) /\ in.program /= "fails" /\ HE!Validate(in)
  <2> DEFINE norm == HE!Normalize(in)
  <2>1. /\ norm.account = HE!Empty <=> norm.principal = HE!Empty
        /\ norm.exit = 0 => HE!Safe(norm.account) /\ HE!Safe(norm.principal)
        /\ norm.account /= HE!Empty => norm.account = (IF in.cloud = "alicloud" THEN in.answer.AccountId ELSE in.answer.Account)
    BY NormalizeIs
  <2> HIDE DEF norm
  <2>2. out = norm
    BY <1>8 DEF norm
  <2> QED BY <1>4, <1>5, <1>8, <2>1, <2>2 DEF HE!IdentityIsWhole, out
<1> QED BY <1>3, <1>6, <1>7, <1>8

\* cded: when it clears the clipboard, and when it leaves a secret there.
LEMMA DrainIsRight ==
    ASSUME NEW in, HE!IsClipboard(in)
    PROVE  HE!DrainIsEarned(in, HE!Cded(in))
<1> DEFINE frontmost == IF in.file \/ in.osascript = "fails" THEN HE!Empty ELSE in.frontmost
           drains == in.drain /\ ~in.file /\ in.content = "secret" /\ frontmost /= in.allow
           end(code, drained) == [exit |-> code, matches |-> code = 0 /\ in.content = "secret", drained |-> drained,
                                  cleared |-> IF drained THEN in.later ELSE "nothing"]
           out == HE!Cded(in)
<1>1. /\ in.content \in {"fails", "plain", "secret"} /\ in.later \in {"plain", "secret"}
      /\ in.file \in BOOLEAN /\ in.drain \in BOOLEAN
      /\ in.osascript \in {"ends", "fails"} /\ in.pbcopy \in {"ends", "fails"}
  BY DEF HE!IsClipboard
<1>2. CASE in.content = "fails" \/ (drains /\ in.pbcopy = "fails")
  <2>1. out = end(4, FALSE)
    BY <1>2 DEF HE!Cded
  <2>2. out.exit = 4 /\ out.drained = FALSE
    BY <2>1
  <2> HIDE DEF out
  <2> QED BY <2>2 DEF HE!DrainIsEarned, out
<1>3. CASE ~(in.content = "fails" \/ (drains /\ in.pbcopy = "fails"))
  <2>1. out = end(0, drains)
    BY <1>3 DEF HE!Cded
  <2>2. out.exit = 0 /\ out.drained = drains /\ (drains => out.cleared = in.later)
    BY <2>1
  <2>3. drains => in.drain /\ ~in.file /\ in.content = "secret" /\ (in.frontmost = in.allow => in.osascript = "fails")
    OBVIOUS
  <2>4. in.drain /\ ~in.file /\ in.content = "secret" /\ ~drains =>
          in.frontmost = in.allow \/ (in.osascript = "fails" /\ in.allow = HE!Empty)
    OBVIOUS
  <2> HIDE DEF out, drains
  <2> QED BY <1>1, <2>2, <2>3, <2>4 DEF HE!DrainIsEarned, out
<1> QED BY <1>2, <1>3

-----------------------------------------------------------------------------
\* osx: what is run of a command, by what the usage lists.
LEMMA CommandIs ==
    ASSUME NEW action
    PROVE  LET programs == MC!NativeCommands[action].programs
               mutate == MC!NativeCommands[action].mutate IN
           action \in DOMAIN MC!NativeCommands =>
               /\ Len(programs) \in {1, 2} /\ \E S : programs \in Seq(S)
               /\ mutate \in BOOLEAN
               /\ action \in MC!RequiringApply => mutate
               /\ action = "dns_flush" => Len(programs) = 2
<1>1. SUFFICES ASSUME action \in MC!Actions
               PROVE  LET command == MC!NativeCommands[action] IN
                      /\ Len(command.programs) \in {1, 2} /\ \E S : command.programs \in Seq(S)
                      /\ command.mutate \in BOOLEAN
                      /\ action \in MC!RequiringApply => command.mutate
                      /\ action = "dns_flush" => Len(command.programs) = 2
  BY DEF MC!NativeCommands
<1> DEFINE command == MC!NativeCommands[action]
<1>2. \A program, counts :
        /\ MC!One(program, counts).programs = <<program>> /\ MC!One(program, counts).mutate = FALSE
        /\ MC!Mutating(program, counts).programs = <<program>> /\ MC!Mutating(program, counts).mutate = TRUE
  BY DEF MC!One, MC!Mutating
<1>3. CASE action = "dns_flush"
  <2>1. action \notin MC!Plain
    BY <1>3 DEF MC!Plain
  <2>2. command = [MC!Mutating("dscacheutil", MC!Unchecked) EXCEPT !.programs = <<"dscacheutil", "killall">>]
    BY <1>1, <1>3, <2>1 DEF MC!NativeCommands
  <2>3. command.programs = <<"dscacheutil", "killall">> /\ command.mutate = TRUE
    BY <2>2 DEF MC!Mutating, MC!One
  <2> HIDE DEF command
  <2>4. Len(command.programs) = 2 /\ command.programs \in Seq({"dscacheutil", "killall"})
    BY <2>3
  <2> QED BY <1>3, <2>3, <2>4 DEF command
<1>4. CASE action \in {"launch_open", "updates_install", "caffeinate_start", "files_copy", "clipboard_write",
                       "defaults_write", "defaults_delete", "volume_set", "volume_mute"}
  <2>1. action \notin MC!Plain
    BY <1>4 DEF MC!Plain
  <2>2. PICK program, counts : command = MC!Mutating(program, counts)
    BY <1>1, <1>4, <2>1 DEF MC!NativeCommands
  <2>4. command.programs = <<program>> /\ command.mutate = TRUE
    BY <1>2, <2>2
  <2>5. action /= "dns_flush"
    BY <1>4
  <2> HIDE DEF command
  <2>6. Len(command.programs) = 1 /\ command.programs \in Seq({program})
    BY <2>4
  <2> QED BY <2>4, <2>5, <2>6 DEF command
<1>5. CASE action \in MC!Plain \union {"spotlight_search", "clipboard_read", "defaults_read"}
  <2>1. action \notin MC!RequiringApply /\ action /= "dns_flush"
    BY <1>5 DEF MC!Plain, MC!RequiringApply
  <2>2. PICK program, counts : command = MC!One(program, counts)
    <3>1. CASE action \in MC!Plain
      <4>1. command = MC!One(action, MC!Unchecked)
        BY <1>1, <3>1 DEF MC!NativeCommands, MC!Plain
      <4> QED BY <4>1
    <3>2. CASE action \notin MC!Plain
      BY <1>1, <1>5, <3>2 DEF MC!NativeCommands
    <3> QED BY <3>1, <3>2
  <2>4. command.programs = <<program>> /\ command.mutate = FALSE
    BY <1>2, <2>2
  <2> HIDE DEF command
  <2>6. Len(command.programs) = 1 /\ command.programs \in Seq({program})
    BY <2>4
  <2> QED BY <2>1, <2>4, <2>6 DEF command
<1> QED BY <1>1, <1>3, <1>4, <1>5 DEF MC!Actions

LEMMA OsxIsRight ==
    ASSUME NEW in, MC!IsCommand(in)
    PROVE  MC!NothingChangesUnasked(in, MC!Osx(in))
<1> DEFINE programs == MC!NativeCommands[in.action].programs
           mutate == MC!NativeCommands[in.action].mutate
           known == /\ in.action \in DOMAIN MC!NativeCommands
                    /\ Len(in.args) \in MC!NativeCommands[in.action].counts /\ MC!Fitting(in.action, in.args)
           failing == {i \in DOMAIN programs : programs[i] \in in.fails}
           first == CHOOSE i \in failing : \A j \in failing : i <= j
           last == IF failing = {} THEN Len(programs) ELSE first
           out == MC!Osx(in)
<1>1. CASE in.duration < 0 \/ in.action = MC!Empty \/ ~known \/ (mutate /\ ~in.apply)
  <2>1. out.exit \in {2, 4} /\ out.ran = <<>>
    BY <1>1 DEF MC!Osx, MC!Execute
  <2> HIDE DEF out
  <2> QED BY <2>1 DEF MC!NothingChangesUnasked, out
<1>2. CASE ~(in.duration < 0 \/ in.action = MC!Empty \/ ~known \/ (mutate /\ ~in.apply))
  <2>1. out.exit = (IF failing = {} THEN 0 ELSE 4) /\ out.ran = SubSeq(programs, 1, last)
    BY <1>2 DEF MC!Osx, MC!Execute
  <2>2. /\ Len(programs) \in {1, 2} /\ mutate \in BOOLEAN /\ \E S : programs \in Seq(S)
        /\ in.action \in MC!RequiringApply => mutate
        /\ in.action = "dns_flush" => Len(programs) = 2
    <3>1. in.action \in DOMAIN MC!NativeCommands
      BY <1>2
    <3> QED BY <3>1, CommandIs
  <2>3. mutate => in.apply
    BY <1>2
  <2> HIDE DEF out, programs, mutate
  <2>0. PICK S : programs \in Seq(S)
    BY <2>2
  <2>4. failing \subseteq 1..Len(programs)
    BY <2>0, <2>2
  <2>5. failing /= {} => first \in failing /\ \A j \in failing : first <= j
    <3>1. failing /= {} => \E x \in failing : \A y \in failing : x <= y
      <4>1. failing \subseteq Nat
        BY <2>0, <2>2, <2>4
      <4> HIDE DEF failing
      <4> QED BY <4>1, Smallest
    <3> HIDE DEF failing
    <3> QED BY <3>1
  <2>6. last \in 1..Len(programs)
    BY <2>0, <2>2, <2>4, <2>5
  <2>7. \A i \in 1..Len(programs) : i < last => programs[i] \notin in.fails
    <3>1. SUFFICES ASSUME NEW i \in 1..Len(programs), i < last, programs[i] \in in.fails PROVE FALSE
      OBVIOUS
    <3>2. i \in failing
      BY <2>0, <2>2, <3>1
    <3> HIDE DEF failing, first
    <3>3. last = first /\ first <= i
      BY <2>5, <3>2
    <3>4. first \in 1..Len(programs) /\ Len(programs) \in Nat
      <4>1. first \in failing
        BY <2>5, <3>2
      <4> HIDE DEF programs
      <4>2. Len(programs) \in Nat
        BY <2>2
      <4> QED BY <2>4, <4>1, <4>2
    <3> HIDE DEF last
    <3> QED BY <3>1, <3>3, <3>4
  <2>8. failing = {} => \A i \in 1..Len(programs) : programs[i] \notin in.fails
    BY <2>0, <2>2
  <2> HIDE DEF failing, last
  <2>9. Len(out.ran) = last /\ DOMAIN out.ran = 1..last /\ \A i \in 1..last : out.ran[i] = programs[i]
    BY <2>0, <2>1, <2>2, <2>6
  <2>10. out.exit = 0 => failing = {} /\ last = Len(programs)
    BY <2>1 DEF last
  <2>11. (\A i \in DOMAIN out.ran : out.ran[i] \in in.fails => i = Len(out.ran) /\ out.exit = 4)
    <3>1. SUFFICES ASSUME NEW i \in 1..last, programs[i] \in in.fails PROVE i = last /\ out.exit = 4
      BY <2>9
    <3>2. i \in 1..Len(programs) /\ ~(i < last)
      BY <2>0, <2>2, <2>6, <2>7, <3>1
    <3>3. failing /= {}
      BY <2>8, <3>1, <3>2
    <3> QED BY <2>0, <2>1, <2>2, <2>6, <3>1, <3>2, <3>3
  <2>12. out.exit = 0 => /\ \A i \in DOMAIN out.ran : out.ran[i] \notin in.fails
                         /\ in.action = "dns_flush" => Len(out.ran) = 2
    BY <2>0, <2>2, <2>8, <2>9, <2>10
  <2> QED BY <2>0, <2>2, <2>3, <2>11, <2>12 DEF MC!NothingChangesUnasked, out
<1> QED BY <1>1, <1>2

\* aaas: what is revoked, and what is left of the grants.
LEMMA AaasIsRight ==
    ASSUME NEW in, MC!IsAudit(in)
    PROVE  MC!RevokedIsAsked(in, MC!Aaas(in))
<1> DEFINE revoked == IF in.revoke /= MC!Empty /\ in.apply /\ in.tccutil = "ends" THEN {in.revoke} ELSE {}
           grants == MC!AuditAccessibility(in, revoked)
           out == MC!Aaas(in)
<1>1. /\ in.apply \in BOOLEAN /\ in.tccutil \in {"ends", "fails"}
  BY DEF MC!IsAudit
<1>2. out.revoked = revoked /\ out.exit \in {0, 2, 4}
      /\ (out.exit = 0 => out.grants = grants /\ (in.revoke /= MC!Empty => in.apply /\ in.tccutil /= "fails"))
  BY DEF MC!Aaas
<1>3. in.database = "own" => grants = in.grants \ revoked
  BY DEF MC!AuditAccessibility
<1>4. /\ revoked /= {} => revoked = {in.revoke} /\ in.apply
      /\ revoked \subseteq {in.revoke}
      /\ in.revoke /= MC!Empty /\ in.apply /\ in.tccutil /= "fails" => revoked = {in.revoke}
  BY <1>1
<1> HIDE DEF out, grants, revoked
<1>5. out.exit = 0 /\ in.database = "own" =>
        out.revoked \intersect out.grants = {} /\ in.grants \ out.grants \subseteq {in.revoke}
  BY <1>2, <1>3, <1>4
<1>6. /\ out.revoked /= {} => out.revoked = {in.revoke} /\ in.apply
      /\ out.exit = 0 /\ in.revoke /= MC!Empty => in.revoke \in out.revoked
  BY <1>2, <1>4
<1> QED BY <1>5, <1>6 DEF MC!RevokedIsAsked, out

-----------------------------------------------------------------------------
\* envsub and varmerge: layers, one over the other.
LEMMA OverIs ==
    ASSUME NEW f, NEW g
    PROVE  /\ DOMAIN VM!Over(f, g) = DOMAIN f \union DOMAIN g
           /\ \A k \in DOMAIN f : VM!Over(f, g)[k] = f[k]
           /\ \A k \in DOMAIN g \ DOMAIN f : VM!Over(f, g)[k] = g[k]
BY DEF VM!Over

LEMMA LayerIs ==
    ASSUME NEW f, NEW name
    PROVE  /\ DOMAIN VM!Layer(f, name) = DOMAIN f
           /\ \A k \in DOMAIN f : VM!Layer(f, name)[k] = [value |-> f[k], source |-> name]
BY DEF VM!Layer

LEMMA AtIs ==
    ASSUME NEW k, NEW value
    PROVE  DOMAIN VM!At(k, value) = {k} /\ VM!At(k, value)[k] = value
BY DEF VM!At

LEMMA StackSteps ==
    ASSUME NEW layers, Len(layers) \in Nat
    PROVE  \E b : /\ VM!Stack(layers) = b[Len(layers)] /\ b[0] = VM!Unset
                  /\ \A i \in 1..Len(layers) : b[i] = VM!Over(layers[i], b[i - 1])
<1> DEFINE n == Len(layers)
           K == UNION {DOMAIN layers[i] : i \in 1..n}
           V == UNION {{layers[i][k] : k \in DOMAIN layers[i]} : i \in 1..n}
           D == UNION {[X -> V] : X \in SUBSET K}
           step == [i \in 1..n |-> [d \in D |-> VM!Over(layers[i], d)]]
<1>1. ASSUME NEW i \in 1..n, NEW d \in D PROVE VM!Over(layers[i], d) \in D
  <2>1. PICK X \in SUBSET K : d \in [X -> V]
    OBVIOUS
  <2>2. DOMAIN layers[i] \in SUBSET K /\ \A k \in DOMAIN layers[i] : layers[i][k] \in V
    OBVIOUS
  <2> HIDE DEF K, V
  <2> DEFINE Y == DOMAIN layers[i] \union X
  <2>3. VM!Over(layers[i], d) = [k \in Y |-> IF k \in DOMAIN layers[i] THEN layers[i][k] ELSE d[k]]
    BY <2>1 DEF VM!Over
  <2>4. VM!Over(layers[i], d) \in [Y -> V] /\ Y \in SUBSET K
    BY <2>1, <2>2, <2>3
  <2> QED BY <2>4
<1>2. VM!Unset \in D
  <2>1. VM!Unset \in [{} -> V] /\ {} \in SUBSET K
    BY DEF VM!Unset
  <2> HIDE DEF K, V
  <2> QED BY <2>1
<1>3. step \in [1..n -> [D -> D]]
  <2> HIDE DEF D, n
  <2> QED BY <1>1
<1>4. PICK w : w \in Values(n, D, VM!Unset, step)
  <2> HIDE DEF D, step
  <2> QED BY <1>2, <1>3, Loop
<1>5. w \in [0..n -> D] /\ w[0] = VM!Unset /\ \A i \in 1..n : w[i] = step[i][w[i - 1]]
  <2> HIDE DEF D, step
  <2> QED BY <1>4 DEF Values
<1>6. \A i \in 0..n : w[i] = IF i = 0 THEN VM!Unset ELSE VM!Over(layers[i], w[i - 1])
  <2> SUFFICES ASSUME NEW i \in 0..n, i /= 0 PROVE w[i] = VM!Over(layers[i], w[i - 1])
    BY <1>5
  <2>1. i \in 1..n /\ i - 1 \in 0..n
    OBVIOUS
  <2>2. w[i - 1] \in D /\ w[i] = step[i][w[i - 1]]
    <3> HIDE DEF D, step
    <3> QED BY <1>5, <2>1
  <2> HIDE DEF D
  <2> QED BY <2>1, <2>2
<1> DEFINE Recurs(v) == v = [i \in 0..n |-> IF i = 0 THEN VM!Unset ELSE VM!Over(layers[i], v[i - 1])]
           below == CHOOSE v : Recurs(v)
<1>7. Recurs(below)
  <2>1. Recurs(w)
    <3> HIDE DEF D, n, step
    <3> QED BY <1>5, <1>6
  <2> QED BY <2>1
<1>8. VM!Stack(layers) = below[n]
  BY DEF VM!Stack
<1>9. \A i \in 0..n : below[i] = IF i = 0 THEN VM!Unset ELSE VM!Over(layers[i], below[i - 1])
  <2> HIDE DEF below, n
  <2> QED BY <1>7
<1> HIDE DEF below
<1>10. below[0] = VM!Unset /\ \A i \in 1..n : below[i] = VM!Over(layers[i], below[i - 1])
  <2>1. 0 \in 0..n /\ \A i \in 1..n : i \in 0..n /\ i /= 0
    OBVIOUS
  <2> HIDE DEF n
  <2> QED BY <1>9, <2>1
<1> QED BY <1>8, <1>10

\* The last of the first n layers that has a key.
IsLast(layers, n, k, m) ==
    /\ m \in 1..n /\ k \in DOMAIN layers[m]
    /\ \A j \in 1..n : k \in DOMAIN layers[j] => j <= m

LEMMA StackIs ==
    ASSUME NEW layers, Len(layers) \in Nat
    PROVE  /\ DOMAIN VM!Stack(layers) = UNION {DOMAIN layers[i] : i \in 1..Len(layers)}
           /\ \A k \in DOMAIN VM!Stack(layers) : \E m :
                IsLast(layers, Len(layers), k, m) /\ VM!Stack(layers)[k] = layers[m][k]
<1> DEFINE n == Len(layers)
<1>1. PICK b : /\ VM!Stack(layers) = b[n] /\ b[0] = VM!Unset
               /\ \A i \in 1..n : b[i] = VM!Over(layers[i], b[i - 1])
  BY StackSteps
<1> HIDE DEF n
<1> DEFINE Upheld(i) == /\ \A k : k \in DOMAIN b[i] <=> \E j \in 1..i : k \in DOMAIN layers[j]
                    /\ \A k \in DOMAIN b[i] : \E m : IsLast(layers, i, k, m) /\ b[i][k] = layers[m][k]
           T == {i \in 0..n : Upheld(i)}
<1>2. 0 \in T
  <2>1. DOMAIN b[0] = {} /\ 1..0 = {} /\ 0 \in 0..n
    BY <1>1 DEF VM!Unset, n
  <2> QED BY <2>1
<1>3. ASSUME NEW i \in 1..n, i - 1 \in T PROVE i \in T
  <2>1. Upheld(i - 1) /\ i \in 0..n
    BY <1>3 DEF n
  <2>2. 1..i = 1..(i - 1) \union {i} /\ i \notin 1..(i - 1)
    BY DEF n
  <2>3. /\ DOMAIN b[i] = DOMAIN layers[i] \union DOMAIN b[i - 1]
        /\ \A k \in DOMAIN layers[i] : b[i][k] = layers[i][k]
        /\ \A k \in DOMAIN b[i - 1] \ DOMAIN layers[i] : b[i][k] = b[i - 1][k]
    <3>1. b[i] = VM!Over(layers[i], b[i - 1])
      BY <1>1
    <3>2. /\ DOMAIN VM!Over(layers[i], b[i - 1]) = DOMAIN layers[i] \union DOMAIN b[i - 1]
          /\ \A k \in DOMAIN layers[i] : VM!Over(layers[i], b[i - 1])[k] = layers[i][k]
          /\ \A k \in DOMAIN b[i - 1] \ DOMAIN layers[i] : VM!Over(layers[i], b[i - 1])[k] = b[i - 1][k]
      BY OverIs
    <3> QED BY <3>1, <3>2
  <2>4. \A k : k \in DOMAIN b[i] <=> \E j \in 1..i : k \in DOMAIN layers[j]
    BY <2>1, <2>2, <2>3
  <2>5. ASSUME NEW k \in DOMAIN b[i] PROVE \E m : IsLast(layers, i, k, m) /\ b[i][k] = layers[m][k]
    <3>1. CASE k \in DOMAIN layers[i]
      <4>1. IsLast(layers, i, k, i)
        BY <3>1 DEF IsLast, n
      <4> QED BY <2>3, <3>1, <4>1
    <3>2. CASE k \notin DOMAIN layers[i]
      <4>1. k \in DOMAIN b[i - 1]
        BY <2>3, <3>2
      <4>2. PICK m : IsLast(layers, i - 1, k, m) /\ b[i - 1][k] = layers[m][k]
        BY <2>1, <4>1
      <4>3. IsLast(layers, i, k, m)
        BY <2>2, <3>2, <4>2 DEF IsLast
      <4> QED BY <2>3, <3>2, <4>1, <4>2, <4>3
    <3> QED BY <3>1, <3>2
  <2> HIDE DEF n
  <2> QED BY <2>1, <2>4, <2>5
<1>4. n \in T
  <2>1. n \in Nat
    BY DEF n
  <2> HIDE DEF T
  <2>2. 0..n \subseteq T
    BY <1>2, <1>3, <2>1, Steps
  <2> QED BY <2>1, <2>2
<1>5. Upheld(n)
  BY <1>4
<1> QED BY <1>1, <1>5 DEF n

\* What a source says of a key: the last of the arguments, the environment, and the
\* last of the env files, in this order.
Wins(in, k, e) ==
    LET set(i) == in.sets[i].key = k
        file(i) == k \in DOMAIN in.files[i]
    IN  \/ \E m \in DOMAIN in.sets :
            /\ set(m) /\ \A j \in DOMAIN in.sets : set(j) => j <= m
            /\ e = [value |-> in.sets[m].value, source |-> <<"--set">>]
        \/ /\ (\A j \in DOMAIN in.sets : ~set(j)) /\ k \in DOMAIN in.env
           /\ e = [value |-> in.env[k], source |-> <<"environment">>]
        \/ /\ (\A j \in DOMAIN in.sets : ~set(j)) /\ k \notin DOMAIN in.env
           /\ \E m \in DOMAIN in.files :
                /\ file(m) /\ \A j \in DOMAIN in.files : file(j) => j <= m
                /\ e = [value |-> in.files[m][k], source |-> <<"env_file", m>>]

Supplied(in, k) ==
    \/ \E j \in DOMAIN in.sets : in.sets[j].key = k
    \/ k \in DOMAIN in.env
    \/ \E j \in DOMAIN in.files : k \in DOMAIN in.files[j]

LEMMA SourcesHave ==
    ASSUME NEW in, VM!IsSources(in)
    PROVE  /\ Len(in.files) \in Nat /\ DOMAIN in.files = 1..Len(in.files)
           /\ Len(in.sets) \in Nat /\ DOMAIN in.sets = 1..Len(in.sets)
           /\ \A i \in DOMAIN in.files : VM!IsMap(in.files[i])
           /\ \A i \in DOMAIN in.sets : in.sets[i].value \in VM!Text
<1>1. /\ in.sets \in Seq([key : STRING, value : VM!Text])
      /\ in.files \in Seq(VM!Range(in.files)) /\ \A f \in VM!Range(in.files) : VM!IsMap(f)
  BY Zenon DEF VM!IsSources
<1>2. \A i \in DOMAIN in.files : VM!IsMap(in.files[i])
  BY <1>1 DEF VM!Range
<1> DEFINE S == [key : STRING, value : VM!Text]
<1>3. \A x \in S : x.value \in VM!Text
  OBVIOUS
<1>4. in.sets \in Seq(S) /\ in.files \in Seq(VM!Range(in.files))
  BY <1>1
<1> HIDE DEF S
<1>5. /\ Len(in.files) \in Nat /\ DOMAIN in.files = 1..Len(in.files)
      /\ Len(in.sets) \in Nat /\ DOMAIN in.sets = 1..Len(in.sets)
      /\ \A i \in DOMAIN in.sets : in.sets[i] \in S
  BY <1>4
<1> QED BY <1>2, <1>3, <1>5

LEMMA Concat ==
    ASSUME NEW T, NEW a \in Seq(T), NEW b \in Seq(T)
    PROVE  /\ a \o b \in Seq(T) /\ Len(a \o b) = Len(a) + Len(b)
           /\ \A i \in 1..Len(a) : (a \o b)[i] = a[i]
           /\ \A i \in 1..Len(b) : (a \o b)[Len(a) + i] = b[i]
OBVIOUS

LEMMA WinsOnce ==
    ASSUME NEW in, VM!IsSources(in), NEW k, NEW e, NEW f, Wins(in, k, e), Wins(in, k, f)
    PROVE  e = f
<1>1. DOMAIN in.files \subseteq Nat /\ DOMAIN in.sets \subseteq Nat
  BY SourcesHave
<1>2. \A i, j \in Nat : i <= j /\ j <= i => i = j
  OBVIOUS
<1> QED BY <1>1, <1>2 DEF Wins

\* The layers of envsub.
LEMMA LoadedLayers ==
    ASSUME NEW in, VM!IsSources(in)
    PROVE  LET f == Len(in.files) s == Len(in.sets)
               all == VM!Files(in) \o VM!Env(in) \o VM!Sets(in) IN
           /\ Len(all) = f + 1 + s
           /\ \A i \in 1..f : all[i] = VM!Layer(in.files[i], <<"env_file", i>>)
           /\ all[f + 1] = VM!Layer(in.env, <<"environment">>)
           /\ \A i \in 1..s : all[f + 1 + i] = VM!Layer(VM!At(in.sets[i].key, in.sets[i].value), <<"--set">>)
<1> DEFINE f == Len(in.files)
           s == Len(in.sets)
           F == VM!Files(in)
           E == VM!Env(in)
           S == VM!Sets(in)
           file(i) == VM!Layer(in.files[i], <<"env_file", i>>)
           set(i) == VM!Layer(VM!At(in.sets[i].key, in.sets[i].value), <<"--set">>)
           env == VM!Layer(in.env, <<"environment">>)
           T == {file(i) : i \in 1..f} \union {env} \union {set(i) : i \in 1..s}
<1>1. f \in Nat /\ s \in Nat
  BY SourcesHave
<1>2. F = [i \in 1..f |-> file(i)] /\ S = [i \in 1..s |-> set(i)] /\ E = <<env>>
  BY SourcesHave DEF VM!Files, VM!Env, VM!Sets
<1> HIDE DEF f, s, F, E, S, file, set, env
<1>3. F \in Seq(T) /\ Len(F) = f /\ \A i \in 1..f : F[i] = file(i)
  <2>1. F \in [1..f -> T]
    BY <1>2
  <2> HIDE DEF T
  <2> QED BY <1>1, <1>2, <2>1
<1>4. S \in Seq(T) /\ Len(S) = s /\ \A i \in 1..s : S[i] = set(i)
  <2>1. S \in [1..s -> T]
    BY <1>2
  <2> HIDE DEF T
  <2> QED BY <1>1, <1>2, <2>1
<1>5. E \in Seq(T) /\ Len(E) = 1 /\ E[1] = env
  <2>1. env \in T
    OBVIOUS
  <2> HIDE DEF T
  <2> QED BY <1>2, <2>1
<1> HIDE DEF T
<1>6. F \o E \in Seq(T) /\ Len(F \o E) = f + 1
      /\ (\A i \in 1..f : (F \o E)[i] = file(i)) /\ (F \o E)[f + 1] = env
  <2>1. /\ F \o E \in Seq(T) /\ Len(F \o E) = Len(F) + Len(E)
        /\ \A i \in 1..Len(F) : (F \o E)[i] = F[i]
        /\ \A i \in 1..Len(E) : (F \o E)[Len(F) + i] = E[i]
    BY <1>3, <1>5, Concat
  <2>2. (F \o E)[f + 1] = env
    BY <1>3, <1>5, <2>1
  <2> QED BY <1>3, <1>5, <2>1, <2>2
<1> DEFINE G == F \o E
<1> HIDE DEF G
<1>7. /\ Len(G \o S) = f + 1 + s
      /\ \A i \in 1..(f + 1) : (G \o S)[i] = G[i]
      /\ \A i \in 1..s : (G \o S)[f + 1 + i] = S[i]
  <2>1. G \in Seq(T) /\ Len(G) = f + 1
    BY <1>6 DEF G
  <2>2. /\ Len(G \o S) = Len(G) + Len(S)
        /\ \A i \in 1..Len(G) : (G \o S)[i] = G[i]
        /\ \A i \in 1..Len(S) : (G \o S)[Len(G) + i] = S[i]
    <3>1. G \in Seq(T) /\ S \in Seq(T)
      BY <1>4, <2>1
    <3> QED BY <3>1, Concat
  <2> QED BY <1>4, <2>1, <2>2
<1>8. (f + 1) \in 1..(f + 1) /\ 1..f \subseteq 1..(f + 1)
  BY <1>1
<1>9. /\ Len(G \o S) = f + 1 + s
      /\ \A i \in 1..f : (G \o S)[i] = file(i)
      /\ (G \o S)[f + 1] = env
      /\ \A i \in 1..s : (G \o S)[f + 1 + i] = set(i)
  BY <1>4, <1>6, <1>7, <1>8 DEF G
<1> QED BY <1>9 DEF G, F, E, S, f, s, file, set, env

LEMMA LoadIs ==
    ASSUME NEW in, VM!IsSources(in)
    PROVE  /\ \A k : k \in DOMAIN VM!loadValues(in) <=> Supplied(in, k)
           /\ \A k \in DOMAIN VM!loadValues(in) : Wins(in, k, VM!loadValues(in)[k])
<1> DEFINE f == Len(in.files)
           s == Len(in.sets)
           all == VM!Files(in) \o VM!Env(in) \o VM!Sets(in)
           stack == VM!Stack(all)
<1>1. /\ f \in Nat /\ s \in Nat /\ DOMAIN in.files = 1..f /\ DOMAIN in.sets = 1..s
  BY SourcesHave
<1>2. /\ Len(all) = f + 1 + s
      /\ \A i \in 1..f : all[i] = VM!Layer(in.files[i], <<"env_file", i>>)
      /\ all[f + 1] = VM!Layer(in.env, <<"environment">>)
      /\ \A i \in 1..s : all[f + 1 + i] = VM!Layer(VM!At(in.sets[i].key, in.sets[i].value), <<"--set">>)
  BY LoadedLayers
<1> HIDE DEF f, s, all
<1>3. /\ \A i \in 1..f : DOMAIN all[i] = DOMAIN in.files[i]
              /\ \A k \in DOMAIN in.files[i] : all[i][k] = [value |-> in.files[i][k], source |-> <<"env_file", i>>]
      /\ DOMAIN all[f + 1] = DOMAIN in.env
      /\ \A k \in DOMAIN in.env : all[f + 1][k] = [value |-> in.env[k], source |-> <<"environment">>]
      /\ \A i \in 1..s : DOMAIN all[f + 1 + i] = {in.sets[i].key}
              /\ all[f + 1 + i][in.sets[i].key] = [value |-> in.sets[i].value, source |-> <<"--set">>]
  <2>1. ASSUME NEW i \in 1..f
        PROVE  DOMAIN all[i] = DOMAIN in.files[i]
               /\ \A k \in DOMAIN in.files[i] : all[i][k] = [value |-> in.files[i][k], source |-> <<"env_file", i>>]
    <3>1. all[i] = VM!Layer(in.files[i], <<"env_file", i>>)
      BY <1>2
    <3> QED BY <3>1 DEF VM!Layer
  <2>2. DOMAIN all[f + 1] = DOMAIN in.env
        /\ \A k \in DOMAIN in.env : all[f + 1][k] = [value |-> in.env[k], source |-> <<"environment">>]
    <3>1. all[f + 1] = VM!Layer(in.env, <<"environment">>)
      BY <1>2
    <3> QED BY <3>1 DEF VM!Layer
  <2>3. ASSUME NEW i \in 1..s
        PROVE  DOMAIN all[f + 1 + i] = {in.sets[i].key}
               /\ all[f + 1 + i][in.sets[i].key] = [value |-> in.sets[i].value, source |-> <<"--set">>]
    <3>1. all[f + 1 + i] = VM!Layer(VM!At(in.sets[i].key, in.sets[i].value), <<"--set">>)
      BY <1>2
    <3> QED BY <3>1 DEF VM!Layer, VM!At
  <2> QED BY <2>1, <2>2, <2>3
<1>4. /\ Len(all) \in Nat
      /\ DOMAIN stack = UNION {DOMAIN all[i] : i \in 1..Len(all)}
      /\ \A k \in DOMAIN stack : \E m : IsLast(all, Len(all), k, m) /\ stack[k] = all[m][k]
  <2>1. Len(all) \in Nat
    BY <1>1, <1>2
  <2> QED BY <2>1, StackIs
<1> HIDE DEF stack
<1>5. \A i \in 1..(f + 1 + s) : i \in 1..f \/ i = f + 1 \/ \E j \in 1..s : i = f + 1 + j
  <2> SUFFICES ASSUME NEW i \in 1..(f + 1 + s), ~(i \in 1..f), i /= f + 1 PROVE \E j \in 1..s : i = f + 1 + j
    OBVIOUS
  <2>1. i - (f + 1) \in 1..s /\ i = f + 1 + (i - (f + 1))
    BY <1>1
  <2> QED BY <2>1
<1>6. /\ \A i \in 1..f : i \in 1..(f + 1 + s)
      /\ (f + 1) \in 1..(f + 1 + s)
      /\ \A i \in 1..s : (f + 1 + i) \in 1..(f + 1 + s)
  BY <1>1
<1>7. ASSUME NEW k PROVE k \in DOMAIN stack <=> Supplied(in, k)
  <2>1. k \in DOMAIN stack <=> \E i \in 1..(f + 1 + s) : k \in DOMAIN all[i]
    BY <1>2, <1>4
  <2>2. ASSUME NEW i \in 1..(f + 1 + s), k \in DOMAIN all[i] PROVE Supplied(in, k)
    <3>1. CASE i \in 1..f
      <4>1. k \in DOMAIN in.files[i]
        BY <1>3, <2>2, <3>1
      <4> QED BY <1>1, <3>1, <4>1, Zenon DEF Supplied
    <3>2. CASE i = f + 1
      <4>1. k \in DOMAIN in.env
        BY <1>3, <2>2, <3>2
      <4> QED BY <4>1 DEF Supplied
    <3>3. CASE \E j \in 1..s : i = f + 1 + j
      <4>1. PICK j \in 1..s : i = f + 1 + j
        BY <3>3
      <4>2. in.sets[j].key = k
        BY <1>3, <2>2, <4>1
      <4> QED BY <1>1, <4>2, Zenon DEF Supplied
    <3> QED BY <1>5, <3>1, <3>2, <3>3
  <2>3. ASSUME Supplied(in, k) PROVE \E i \in 1..(f + 1 + s) : k \in DOMAIN all[i]
    <3>1. CASE \E j \in DOMAIN in.sets : in.sets[j].key = k
      <4>1. PICK j \in 1..s : in.sets[j].key = k
        BY <1>1, <3>1
      <4>2. k \in DOMAIN all[f + 1 + j] /\ (f + 1 + j) \in 1..(f + 1 + s)
        BY <1>3, <1>6, <4>1
      <4> QED BY <4>2
    <3>2. CASE k \in DOMAIN in.env
      BY <1>3, <1>6, <3>2
    <3>3. CASE \E j \in DOMAIN in.files : k \in DOMAIN in.files[j]
      BY <1>1, <1>3, <1>6, <3>3
    <3> QED BY <2>3, <3>1, <3>2, <3>3 DEF Supplied
  <2> QED BY <2>1, <2>2, <2>3
<1>8. ASSUME NEW k \in DOMAIN stack PROVE Wins(in, k, stack[k])
  <2>1. PICK i : IsLast(all, f + 1 + s, k, i) /\ stack[k] = all[i][k]
    BY <1>2, <1>4
  <2>2. i \in 1..(f + 1 + s) /\ k \in DOMAIN all[i]
        /\ \A j \in 1..(f + 1 + s) : k \in DOMAIN all[j] => j <= i
    BY <2>1 DEF IsLast
  <2>3. CASE \E m \in 1..s : i = f + 1 + m
    <3>1. PICK m \in 1..s : i = f + 1 + m
      BY <2>3
    <3>2. in.sets[m].key = k /\ stack[k] = [value |-> in.sets[m].value, source |-> <<"--set">>]
      BY <1>3, <2>1, <2>2, <3>1
    <3>3. ASSUME NEW j \in 1..s, in.sets[j].key = k PROVE j <= m
      <4>1. k \in DOMAIN all[f + 1 + j] /\ (f + 1 + j) \in 1..(f + 1 + s)
        BY <1>3, <1>6, <3>3
      <4>2. f + 1 + j <= f + 1 + m
        BY <2>2, <3>1, <4>1
      <4> QED BY <1>1, <4>2
    <3> QED BY <1>1, <3>2, <3>3 DEF Wins
  <2>4. CASE ~ \E m \in 1..s : i = f + 1 + m
    <3>1. i \in 1..f \/ i = f + 1
      BY <1>5, <2>2, <2>4
    <3>2. ASSUME NEW j \in 1..s PROVE in.sets[j].key /= k
      <4>1. SUFFICES ASSUME in.sets[j].key = k PROVE FALSE
        OBVIOUS
      <4>2. k \in DOMAIN all[f + 1 + j] /\ (f + 1 + j) \in 1..(f + 1 + s)
        BY <1>3, <1>6, <4>1
      <4>3. f + 1 + j <= i
        BY <2>2, <4>2
      <4> QED BY <1>1, <3>1, <4>3
    <3>3. CASE i = f + 1
      <4>1. k \in DOMAIN in.env /\ stack[k] = [value |-> in.env[k], source |-> <<"environment">>]
        BY <1>3, <2>1, <2>2, <3>3
      <4> QED BY <1>1, <3>2, <4>1 DEF Wins
    <3>4. CASE i \in 1..f
      <4>1. k \in DOMAIN in.files[i] /\ stack[k] = [value |-> in.files[i][k], source |-> <<"env_file", i>>]
        BY <1>3, <2>1, <2>2, <3>4
      <4>2. k \notin DOMAIN in.env
        <5>1. k \in DOMAIN all[f + 1] => f + 1 <= i
          BY <1>6, <2>2
        <5> QED BY <1>1, <1>3, <3>4, <5>1
      <4>3. \A j \in 1..f : k \in DOMAIN in.files[j] => j <= i
        BY <1>3, <1>6, <2>2
      <4> QED BY <1>1, <3>2, <3>4, <4>1, <4>2, <4>3 DEF Wins
    <3> QED BY <3>1, <3>3, <3>4
  <2> QED BY <2>3, <2>4
<1> QED BY <1>7, <1>8 DEF VM!loadValues, stack, all

\* The layers of varmerge: the arguments are one of them, when there are any.
LEMMA SetSourceIs ==
    ASSUME NEW in, VM!IsSources(in)
    PROVE  /\ \A k : k \in DOMAIN VM!SetSource(in) <=> \E j \in DOMAIN in.sets : in.sets[j].key = k
           /\ \A k \in DOMAIN VM!SetSource(in) : \E m \in DOMAIN in.sets :
                /\ in.sets[m].key = k /\ \A j \in DOMAIN in.sets : in.sets[j].key = k => j <= m
                /\ VM!SetSource(in)[k] = in.sets[m].value
<1> DEFINE s == Len(in.sets)
           at(i) == VM!At(in.sets[i].key, in.sets[i].value)
           all == [i \in DOMAIN in.sets |-> at(i)]
           stack == VM!Stack(all)
<1>1. s \in Nat /\ DOMAIN in.sets = 1..s
  BY SourcesHave
<1>2. Len(all) = s /\ \A i \in 1..s : all[i] = at(i)
  BY <1>1
<1>3. \A i \in 1..s : DOMAIN all[i] = {in.sets[i].key} /\ all[i][in.sets[i].key] = in.sets[i].value
  BY <1>2 DEF VM!At
<1> HIDE DEF all, at, s
<1>4. /\ DOMAIN stack = UNION {DOMAIN all[i] : i \in 1..s}
      /\ \A k \in DOMAIN stack : \E m : IsLast(all, s, k, m) /\ stack[k] = all[m][k]
  <2>1. Len(all) \in Nat
    BY <1>1, <1>2
  <2>2. /\ DOMAIN VM!Stack(all) = UNION {DOMAIN all[i] : i \in 1..Len(all)}
        /\ \A k \in DOMAIN VM!Stack(all) : \E m : IsLast(all, Len(all), k, m) /\ VM!Stack(all)[k] = all[m][k]
    BY <2>1, StackIs
  <2> QED BY <1>2, <2>2
<1>5. VM!SetSource(in) = stack
  BY DEF VM!SetSource, all, at
<1> HIDE DEF stack
<1>6. \A k : k \in DOMAIN stack <=> \E j \in 1..s : in.sets[j].key = k
  BY <1>3, <1>4
<1>7. ASSUME NEW k \in DOMAIN stack
      PROVE  \E m \in 1..s : /\ in.sets[m].key = k /\ \A j \in 1..s : in.sets[j].key = k => j <= m
                             /\ stack[k] = in.sets[m].value
  <2>1. PICK m : IsLast(all, s, k, m) /\ stack[k] = all[m][k]
    BY <1>4
  <2>2. m \in 1..s /\ k \in DOMAIN all[m] /\ \A j \in 1..s : k \in DOMAIN all[j] => j <= m
    BY <2>1 DEF IsLast
  <2>3. in.sets[m].key = k /\ stack[k] = in.sets[m].value
    BY <1>3, <2>1, <2>2
  <2>4. \A j \in 1..s : in.sets[j].key = k => j <= m
    BY <1>3, <2>2
  <2> QED BY <2>2, <2>3, <2>4
<1> QED BY <1>1, <1>5, <1>6, <1>7

LEMMA MergedLayers ==
    ASSUME NEW in, VM!IsSources(in)
    PROVE  LET f == Len(in.files) all == VM!Sources(in) IN
           /\ Len(all) = f + (IF in.sets = <<>> THEN 1 ELSE 2) /\ DOMAIN all = 1..Len(all)
           /\ \A i \in 1..f : all[i] = VM!Layer(in.files[i], <<"env_file", i>>)
           /\ all[f + 1] = VM!Layer(in.env, <<"environment">>)
           /\ in.sets /= <<>> => all[f + 2] = VM!Layer(VM!SetSource(in), <<"--set">>)
<1> DEFINE f == Len(in.files)
           F == VM!Files(in)
           E == VM!Env(in)
           S == IF in.sets = <<>> THEN <<>> ELSE <<VM!Layer(VM!SetSource(in), <<"--set">>)>>
           file(i) == VM!Layer(in.files[i], <<"env_file", i>>)
           set == VM!Layer(VM!SetSource(in), <<"--set">>)
           env == VM!Layer(in.env, <<"environment">>)
           T == {file(i) : i \in 1..f} \union {env, set}
<1>1. f \in Nat
  BY SourcesHave
<1>2. F = [i \in 1..f |-> file(i)] /\ E = <<env>>
  BY SourcesHave DEF VM!Files, VM!Env
<1>3. (in.sets = <<>> => S = <<>>) /\ (in.sets /= <<>> => S = <<set>>)
  OBVIOUS
<1>4. VM!Sources(in) = F \o E \o S
  BY DEF VM!Sources
<1> HIDE DEF f, F, E, S, file, set, env
<1>5. F \in Seq(T) /\ Len(F) = f /\ \A i \in 1..f : F[i] = file(i)
  <2>1. F \in [1..f -> T]
    BY <1>2
  <2> HIDE DEF T
  <2> QED BY <1>1, <1>2, <2>1
<1>6. E \in Seq(T) /\ Len(E) = 1 /\ E[1] = env
  <2>1. env \in T
    OBVIOUS
  <2> HIDE DEF T
  <2> QED BY <1>2, <2>1
<1>7. S \in Seq(T) /\ Len(S) = (IF in.sets = <<>> THEN 0 ELSE 1) /\ (in.sets /= <<>> => S[1] = set)
  <2>1. set \in T
    OBVIOUS
  <2> HIDE DEF T
  <2>2. CASE in.sets = <<>>
    <3>1. S = <<>>
      BY <1>3, <2>2
    <3> QED BY <2>2, <3>1
  <2>3. CASE in.sets /= <<>>
    <3>1. S = <<set>>
      BY <1>3, <2>3
    <3>2. S \in Seq(T) /\ Len(S) = 1 /\ S[1] = set
      BY <2>1, <3>1
    <3> QED BY <2>3, <3>2
  <2> QED BY <2>2, <2>3
<1> HIDE DEF T
<1> DEFINE G == F \o E
           H == G \o S
<1>8. G \in Seq(T) /\ Len(G) = f + 1 /\ (\A i \in 1..f : G[i] = file(i)) /\ G[f + 1] = env
  <2>1. /\ F \o E \in Seq(T) /\ Len(F \o E) = Len(F) + Len(E)
        /\ \A i \in 1..Len(F) : (F \o E)[i] = F[i]
        /\ \A i \in 1..Len(E) : (F \o E)[Len(F) + i] = E[i]
    BY <1>5, <1>6, Concat
  <2>2. (F \o E)[f + 1] = env
    BY <1>5, <1>6, <2>1
  <2> QED BY <1>5, <1>6, <2>1, <2>2
<1> HIDE DEF G
<1>9. /\ H \in Seq(T) /\ Len(H) = Len(G) + Len(S)
      /\ \A i \in 1..Len(G) : H[i] = G[i]
      /\ \A i \in 1..Len(S) : H[Len(G) + i] = S[i]
  <2>1. G \in Seq(T) /\ S \in Seq(T)
    BY <1>7, <1>8
  <2> QED BY <2>1, Concat
<1>10. H = VM!Sources(in)
  BY <1>4 DEF G
<1> HIDE DEF H
<1>11. /\ Len(H) = f + (IF in.sets = <<>> THEN 1 ELSE 2) /\ DOMAIN H = 1..Len(H)
       /\ \A i \in 1..f : H[i] = file(i)
       /\ H[f + 1] = env
  <2>1. Len(H) = f + (IF in.sets = <<>> THEN 1 ELSE 2)
    <3>1. in.sets = <<>> => Len(S) = 0
      BY <1>7
    <3>2. in.sets /= <<>> => Len(S) = 1
      BY <1>7
    <3>3. Len(H) = f + 1 + Len(S)
      BY <1>8, <1>9
    <3>4. CASE in.sets = <<>>
      <4>1. Len(H) = f + 1
        BY <1>1, <3>1, <3>3, <3>4
      <4> QED BY <3>4, <4>1
    <3>5. CASE in.sets /= <<>>
      <4>1. Len(S) = 1
        BY <3>2, <3>5
      <4>2. f + 1 + 1 = f + 2
        BY <1>1
      <4>3. Len(H) = f + 1 + 1
        BY <3>3, <4>1, Zenon
      <4> QED BY <3>5, <4>2, <4>3
    <3> QED BY <3>4, <3>5
  <2>2. DOMAIN H = 1..Len(H)
    BY <1>9
  <2> QED BY <1>1, <1>8, <1>9, <2>1, <2>2
<1>12. in.sets /= <<>> => H[f + 2] = set
  <2>1. SUFFICES ASSUME in.sets /= <<>> PROVE H[f + 2] = set
    OBVIOUS
  <2>2. Len(S) = 1 /\ S[1] = set
    BY <1>7, <2>1
  <2>3. H[f + 1 + 1] = S[1]
    BY <1>8, <1>9, <2>2
  <2> QED BY <1>1, <2>2, <2>3
<1> QED BY <1>10, <1>11, <1>12 DEF f, file, set, env

LEMMA MergedIs ==
    ASSUME NEW in, VM!IsSources(in)
    PROVE  LET merged == VM!Stack(VM!Sources(in)) IN
           /\ \A k : k \in DOMAIN merged <=> Supplied(in, k)
           /\ \A k \in DOMAIN merged : /\ Wins(in, k, merged[k])
                                       /\ \E i \in DOMAIN VM!Sources(in) :
                                            /\ k \in DOMAIN VM!Sources(in)[i]
                                            /\ merged[k] = VM!Sources(in)[i][k]
<1> DEFINE f == Len(in.files)
           all == VM!Sources(in)
           n == Len(all)
           stack == VM!Stack(all)
           set == VM!SetSource(in)
<1>1. /\ f \in Nat /\ DOMAIN in.files = 1..f /\ DOMAIN in.sets = 1..Len(in.sets) /\ Len(in.sets) \in Nat
      /\ (in.sets = <<>> => DOMAIN in.sets = {})
  BY SourcesHave
<1>2. /\ n = f + (IF in.sets = <<>> THEN 1 ELSE 2) /\ DOMAIN all = 1..n
      /\ \A i \in 1..f : all[i] = VM!Layer(in.files[i], <<"env_file", i>>)
      /\ all[f + 1] = VM!Layer(in.env, <<"environment">>)
      /\ in.sets /= <<>> => all[f + 2] = VM!Layer(set, <<"--set">>)
  BY MergedLayers
<1> HIDE DEF f, all, set
<1>3. /\ \A i \in 1..f : DOMAIN all[i] = DOMAIN in.files[i]
              /\ \A k \in DOMAIN in.files[i] : all[i][k] = [value |-> in.files[i][k], source |-> <<"env_file", i>>]
      /\ DOMAIN all[f + 1] = DOMAIN in.env
      /\ \A k \in DOMAIN in.env : all[f + 1][k] = [value |-> in.env[k], source |-> <<"environment">>]
      /\ in.sets /= <<>> => /\ DOMAIN all[f + 2] = DOMAIN set
                            /\ \A k \in DOMAIN set : all[f + 2][k] = [value |-> set[k], source |-> <<"--set">>]
  <2>1. ASSUME NEW i \in 1..f
        PROVE  DOMAIN all[i] = DOMAIN in.files[i]
               /\ \A k \in DOMAIN in.files[i] : all[i][k] = [value |-> in.files[i][k], source |-> <<"env_file", i>>]
    <3>1. all[i] = VM!Layer(in.files[i], <<"env_file", i>>)
      BY <1>2
    <3> QED BY <3>1 DEF VM!Layer
  <2>2. DOMAIN all[f + 1] = DOMAIN in.env
        /\ \A k \in DOMAIN in.env : all[f + 1][k] = [value |-> in.env[k], source |-> <<"environment">>]
    <3>1. all[f + 1] = VM!Layer(in.env, <<"environment">>)
      BY <1>2
    <3> QED BY <3>1 DEF VM!Layer
  <2>3. ASSUME in.sets /= <<>>
        PROVE  /\ DOMAIN all[f + 2] = DOMAIN set
               /\ \A k \in DOMAIN set : all[f + 2][k] = [value |-> set[k], source |-> <<"--set">>]
    <3>1. all[f + 2] = VM!Layer(set, <<"--set">>)
      BY <1>2, <2>3
    <3> QED BY <3>1 DEF VM!Layer
  <2> QED BY <2>1, <2>2, <2>3
<1>4. /\ DOMAIN stack = UNION {DOMAIN all[i] : i \in 1..n}
      /\ \A k \in DOMAIN stack : \E m : IsLast(all, n, k, m) /\ stack[k] = all[m][k]
  <2>1. n \in Nat
    BY <1>1, <1>2
  <2> QED BY <2>1, StackIs
<1>5. /\ \A k : k \in DOMAIN set <=> \E j \in DOMAIN in.sets : in.sets[j].key = k
      /\ \A k \in DOMAIN set : \E m \in DOMAIN in.sets :
                /\ in.sets[m].key = k /\ \A j \in DOMAIN in.sets : in.sets[j].key = k => j <= m
                /\ set[k] = in.sets[m].value
  BY SetSourceIs DEF set
<1>6. n = f + 1 \/ (n = f + 2 /\ in.sets /= <<>>)
  BY <1>1, <1>2
<1>7. in.sets /= <<>> => n = f + 2
  BY <1>1, <1>2
<1> HIDE DEF stack, n
<1>8. \A i \in 1..n : i \in 1..f \/ i = f + 1 \/ (i = f + 2 /\ in.sets /= <<>>)
  BY <1>1, <1>6
<1>9. /\ \A i \in 1..f : i \in 1..n
      /\ (f + 1) \in 1..n
      /\ in.sets /= <<>> => (f + 2) \in 1..n
  BY <1>1, <1>6, <1>7
<1>10. ASSUME NEW k PROVE k \in DOMAIN stack <=> Supplied(in, k)
  <2>1. k \in DOMAIN stack <=> \E i \in 1..n : k \in DOMAIN all[i]
    BY <1>4
  <2>2. ASSUME NEW i \in 1..n, k \in DOMAIN all[i] PROVE Supplied(in, k)
    <3>1. CASE i \in 1..f
      <4>1. k \in DOMAIN in.files[i]
        BY <1>3, <2>2, <3>1
      <4> QED BY <1>1, <3>1, <4>1, Zenon DEF Supplied
    <3>2. CASE i = f + 1
      <4>1. k \in DOMAIN in.env
        BY <1>3, <2>2, <3>2
      <4> QED BY <4>1 DEF Supplied
    <3>3. CASE i = f + 2 /\ in.sets /= <<>>
      <4>1. k \in DOMAIN set
        BY <1>3, <2>2, <3>3
      <4> QED BY <1>5, <4>1, Zenon DEF Supplied
    <3> QED BY <1>8, <3>1, <3>2, <3>3
  <2>3. ASSUME Supplied(in, k) PROVE \E i \in 1..n : k \in DOMAIN all[i]
    <3>1. CASE \E j \in DOMAIN in.sets : in.sets[j].key = k
      <4>1. k \in DOMAIN set /\ in.sets /= <<>>
        BY <1>1, <1>5, <3>1
      <4> QED BY <1>3, <1>9, <4>1
    <3>2. CASE k \in DOMAIN in.env
      BY <1>3, <1>9, <3>2
    <3>3. CASE \E j \in DOMAIN in.files : k \in DOMAIN in.files[j]
      BY <1>1, <1>3, <1>9, <3>3
    <3> QED BY <2>3, <3>1, <3>2, <3>3 DEF Supplied
  <2> QED BY <2>1, <2>2, <2>3
<1>11. ASSUME NEW k \in DOMAIN stack
       PROVE  Wins(in, k, stack[k]) /\ \E i \in 1..n : k \in DOMAIN all[i] /\ stack[k] = all[i][k]
  <2>1. PICK i : IsLast(all, n, k, i) /\ stack[k] = all[i][k]
    BY <1>4
  <2>2. i \in 1..n /\ k \in DOMAIN all[i] /\ \A j \in 1..n : k \in DOMAIN all[j] => j <= i
    BY <2>1 DEF IsLast
  <2>3. CASE i = f + 2 /\ in.sets /= <<>>
    <3>1. k \in DOMAIN set /\ stack[k] = [value |-> set[k], source |-> <<"--set">>]
      BY <1>3, <2>1, <2>2, <2>3
    <3>2. PICK m \in DOMAIN in.sets :
                /\ in.sets[m].key = k /\ \A j \in DOMAIN in.sets : in.sets[j].key = k => j <= m
                /\ set[k] = in.sets[m].value
      BY <1>5, <3>1
    <3>3. stack[k] = [value |-> in.sets[m].value, source |-> <<"--set">>]
      BY <3>1, <3>2
    <3> QED BY <2>1, <2>2, <3>2, <3>3 DEF Wins
  <2>4. CASE ~(i = f + 2 /\ in.sets /= <<>>)
    <3>1. i \in 1..f \/ i = f + 1
      BY <1>8, <2>2, <2>4
    <3>2. ASSUME NEW j \in DOMAIN in.sets PROVE in.sets[j].key /= k
      <4>1. SUFFICES ASSUME in.sets[j].key = k PROVE FALSE
        OBVIOUS
      <4>2. in.sets /= <<>> /\ k \in DOMAIN set
        BY <1>1, <1>5, <4>1
      <4>3. k \in DOMAIN all[f + 2] /\ (f + 2) \in 1..n
        BY <1>3, <1>9, <4>2
      <4>4. f + 2 <= i
        BY <2>2, <4>3
      <4> QED BY <1>1, <3>1, <4>4
    <3>3. CASE i = f + 1
      <4>1. k \in DOMAIN in.env /\ stack[k] = [value |-> in.env[k], source |-> <<"environment">>]
        BY <1>3, <2>1, <2>2, <3>3
      <4> QED BY <2>1, <2>2, <3>2, <4>1 DEF Wins
    <3>4. CASE i \in 1..f
      <4>1. k \in DOMAIN in.files[i] /\ stack[k] = [value |-> in.files[i][k], source |-> <<"env_file", i>>]
        BY <1>3, <2>1, <2>2, <3>4
      <4>2. k \notin DOMAIN in.env
        <5>1. k \in DOMAIN all[f + 1] => f + 1 <= i
          BY <1>9, <2>2
        <5> QED BY <1>1, <1>3, <3>4, <5>1
      <4>3. \A j \in 1..f : k \in DOMAIN in.files[j] => j <= i
        BY <1>3, <1>9, <2>2
      <4>4. i \in DOMAIN in.files /\ \A j \in DOMAIN in.files : k \in DOMAIN in.files[j] => j <= i
        BY <1>1, <3>4, <4>3
      <4> QED BY <2>1, <2>2, <3>2, <4>1, <4>2, <4>4 DEF Wins
    <3> QED BY <3>1, <3>3, <3>4
  <2> QED BY <2>3, <2>4
<1> QED BY <1>2, <1>10, <1>11 DEF stack, all, n

\* The values that envsub resolves.
IsEntry(e) == \E value, name : e = [value |-> value, source |-> name]

LEMMA DefaultsAre ==
    ASSUME NEW in
    PROVE  /\ \A k : k \in DOMAIN VM!schemaDefaults(in) <=>
                        k \in DOMAIN in.schema /\ in.schema[k].default /= VM!None
           /\ \A k \in DOMAIN VM!schemaDefaults(in) :
                VM!schemaDefaults(in)[k] = [value |-> in.schema[k].default, source |-> <<"schema_default">>]
BY DEF VM!schemaDefaults, VM!Layer

\* The placeholders that give a key a default.
Giving(in, k) == {i \in DOMAIN in.template : in.template[i].key = k /\ in.template[i].fallback /= VM!None}

LEMMA TemplateIs ==
    ASSUME NEW in, VM!IsSources(in)
    PROVE  /\ \A k \in DOMAIN VM!defaultsInTemplate(in) : \E m \in Giving(in, k) :
                /\ \A j \in Giving(in, k) : j <= m
                /\ VM!defaultsInTemplate(in)[k] =
                     [value |-> in.template[m].fallback, source |-> <<"placeholder_default">>]
           /\ \A k : Giving(in, k) /= {} => k \in DOMAIN VM!defaultsInTemplate(in)
<1> DEFINE name == <<"placeholder_default">>
           at(i) == VM!Layer(VM!At(in.template[i].key, in.template[i].fallback), name)
           all == [i \in DOMAIN in.template |-> IF in.template[i].fallback = VM!None THEN VM!Unset ELSE at(i)]
           n == Len(in.template)
           stack == VM!Stack(all)
<1>1. n \in Nat /\ DOMAIN in.template = 1..n
  <2> DEFINE P == [key : STRING, fallback : STRING]
  <2>1. in.template \in Seq(P)
    BY Zenon DEF VM!IsSources
  <2> HIDE DEF P
  <2> QED BY <2>1
<1>2. Len(all) = n
  BY <1>1
<1>3. ASSUME NEW i \in 1..n, NEW k
      PROVE  /\ k \in DOMAIN all[i] <=> i \in Giving(in, k)
             /\ k \in DOMAIN all[i] => all[i][k] = [value |-> in.template[i].fallback, source |-> name]
  <2>1. all[i] = IF in.template[i].fallback = VM!None THEN VM!Unset ELSE at(i)
    BY <1>1
  <2> HIDE DEF all, name
  <2>2. CASE in.template[i].fallback = VM!None
    <3>1. all[i] = VM!Unset
      BY <2>1, <2>2
    <3>2. DOMAIN all[i] = {}
      BY <3>1 DEF VM!Unset
    <3> QED BY <2>2, <3>2 DEF Giving
  <2>3. CASE in.template[i].fallback /= VM!None
    <3> DEFINE f == VM!At(in.template[i].key, in.template[i].fallback)
    <3>1. all[i] = VM!Layer(f, name)
      BY <2>1, <2>3
    <3>2. DOMAIN f = {in.template[i].key} /\ f[in.template[i].key] = in.template[i].fallback
      BY AtIs
    <3> HIDE DEF f
    <3>3. DOMAIN all[i] = DOMAIN f /\ \A x \in DOMAIN f : all[i][x] = [value |-> f[x], source |-> name]
      BY <3>1, LayerIs
    <3> QED BY <1>1, <2>3, <3>2, <3>3 DEF Giving
  <2> QED BY <2>2, <2>3
<1>4. VM!defaultsInTemplate(in) = stack
  BY DEF VM!defaultsInTemplate
<1>5. \A k : Giving(in, k) \subseteq 1..n
  BY <1>1 DEF Giving
<1> HIDE DEF all, n
<1>6. /\ DOMAIN stack = UNION {DOMAIN all[i] : i \in 1..n}
      /\ \A k \in DOMAIN stack : \E m : IsLast(all, n, k, m) /\ stack[k] = all[m][k]
  <2>1. Len(all) \in Nat
    BY <1>1, <1>2
  <2>2. /\ DOMAIN VM!Stack(all) = UNION {DOMAIN all[i] : i \in 1..Len(all)}
        /\ \A k \in DOMAIN VM!Stack(all) : \E m : IsLast(all, Len(all), k, m) /\ VM!Stack(all)[k] = all[m][k]
    BY <2>1, StackIs
  <2> QED BY <1>2, <2>2
<1> HIDE DEF stack, name
<1>7. ASSUME NEW k \in DOMAIN stack
      PROVE  \E m \in Giving(in, k) :
                /\ \A j \in Giving(in, k) : j <= m
                /\ stack[k] = [value |-> in.template[m].fallback, source |-> name]
  <2>1. PICK m : IsLast(all, n, k, m) /\ stack[k] = all[m][k]
    BY <1>6
  <2>2. m \in 1..n /\ k \in DOMAIN all[m] /\ \A j \in 1..n : k \in DOMAIN all[j] => j <= m
    BY <2>1 DEF IsLast
  <2>3. m \in Giving(in, k) /\ stack[k] = [value |-> in.template[m].fallback, source |-> name]
    BY <1>3, <2>1, <2>2
  <2>4. \A j \in Giving(in, k) : j <= m
    BY <1>3, <1>5, <2>2
  <2> QED BY <2>3, <2>4
<1>8. ASSUME NEW k, NEW i \in Giving(in, k) PROVE k \in DOMAIN stack
  <2>1. i \in 1..n /\ k \in DOMAIN all[i]
    BY <1>3, <1>5, <1>8
  <2> QED BY <1>6, <2>1
<1> QED BY <1>4, <1>7, <1>8 DEF name

LEMMA ResolvedIs ==
    ASSUME NEW in, VM!IsSources(in)
    PROVE  /\ \A k : Supplied(in, k) => k \in DOMAIN VM!resolved(in) /\ Wins(in, k, VM!resolved(in)[k])
           /\ \A k \in DOMAIN VM!schemaDefaults(in) : ~Supplied(in, k) =>
                k \in DOMAIN VM!resolved(in) /\ VM!resolved(in)[k] = VM!schemaDefaults(in)[k]
           /\ \A k \in DOMAIN VM!resolved(in) :
                /\ IsEntry(VM!resolved(in)[k])
                /\ ~Supplied(in, k) /\ k \notin DOMAIN VM!schemaDefaults(in) =>
                     IF k \in DOMAIN VM!defaultsInTemplate(in)
                     THEN VM!resolved(in)[k] = VM!defaultsInTemplate(in)[k]
                     ELSE VM!resolved(in)[k].value = VM!Empty
<1> DEFINE L == VM!loadValues(in)
           D == VM!schemaDefaults(in)
           T == VM!defaultsInTemplate(in)
           O == VM!optionals(in)
           lower == VM!Over(T, O)
           below == VM!Over(D, lower)
           top == VM!Over(L, below)
<1>1. VM!resolved(in) = top
  BY DEF VM!resolved
<1>2. /\ \A k : k \in DOMAIN L <=> Supplied(in, k)
      /\ \A k \in DOMAIN L : Wins(in, k, L[k])
  BY LoadIs
<1>3. \A k \in DOMAIN D : IsEntry(D[k])
  BY DefaultsAre DEF IsEntry
<1>4. \A k \in DOMAIN T : IsEntry(T[k])
  BY TemplateIs DEF IsEntry
<1>5. \A k \in DOMAIN O : IsEntry(O[k]) /\ O[k].value = VM!Empty
  <2> DEFINE f == [k \in {k \in DOMAIN in.schema : in.schema[k].optional} |-> VM!Empty]
             name == <<"optional">>
  <2>1. O = VM!Layer(f, name)
    BY DEF VM!optionals
  <2>2. \A k \in DOMAIN f : f[k] = VM!Empty
    OBVIOUS
  <2> HIDE DEF f, name, O
  <2>3. DOMAIN O = DOMAIN f /\ \A k \in DOMAIN f : O[k] = [value |-> f[k], source |-> name]
    BY <2>1, LayerIs
  <2> QED BY <2>2, <2>3 DEF IsEntry
<1>6. \A k, e : Wins(in, k, e) => IsEntry(e)
  BY DEF Wins, IsEntry
<1>7. /\ DOMAIN lower = DOMAIN T \union DOMAIN O
      /\ \A k \in DOMAIN T : lower[k] = T[k]
      /\ \A k \in DOMAIN O \ DOMAIN T : lower[k] = O[k]
  BY OverIs
<1> HIDE DEF lower
<1>8. /\ DOMAIN below = DOMAIN D \union DOMAIN lower
      /\ \A k \in DOMAIN D : below[k] = D[k]
      /\ \A k \in DOMAIN lower \ DOMAIN D : below[k] = lower[k]
  BY OverIs
<1> HIDE DEF below
<1>9. /\ DOMAIN top = DOMAIN L \union DOMAIN below
      /\ \A k \in DOMAIN L : top[k] = L[k]
      /\ \A k \in DOMAIN below \ DOMAIN L : top[k] = below[k]
  BY OverIs
<1> HIDE DEF top, L, D, T, O
<1>10. \A k \in DOMAIN top : IsEntry(top[k])
  BY <1>2, <1>3, <1>4, <1>5, <1>6, <1>7, <1>8, <1>9
<1>11. \A k : Supplied(in, k) => k \in DOMAIN top /\ Wins(in, k, top[k])
  BY <1>2, <1>9
<1>12. \A k \in DOMAIN D : ~Supplied(in, k) => k \in DOMAIN top /\ top[k] = D[k]
  BY <1>2, <1>8, <1>9
<1>13. \A k \in DOMAIN top : ~Supplied(in, k) /\ k \notin DOMAIN D =>
          IF k \in DOMAIN T THEN top[k] = T[k] ELSE top[k].value = VM!Empty
  BY <1>2, <1>5, <1>7, <1>8, <1>9
<1> QED BY <1>1, <1>10, <1>11, <1>12, <1>13 DEF D, T

LEMMA HighestIs ==
    ASSUME NEW in, VM!IsSources(in), NEW k \in DOMAIN VM!resolved(in)
    PROVE  VM!Highest(in, k, VM!resolved(in)[k].value)
<1> DEFINE e == VM!resolved(in)[k]
           sets == {i \in DOMAIN in.sets : in.sets[i].key = k}
           files == {i \in DOMAIN in.files : k \in DOMAIN in.files[i]}
           defaults == {i \in DOMAIN in.template : in.template[i].key = k /\ in.template[i].fallback /= VM!None}
<1>1. /\ Supplied(in, k) => Wins(in, k, e)
      /\ k \in DOMAIN VM!schemaDefaults(in) /\ ~Supplied(in, k) => e = VM!schemaDefaults(in)[k]
      /\ ~Supplied(in, k) /\ k \notin DOMAIN VM!schemaDefaults(in) =>
            IF k \in DOMAIN VM!defaultsInTemplate(in) THEN e = VM!defaultsInTemplate(in)[k]
            ELSE e.value = VM!Empty
  BY ResolvedIs
<1>2. DOMAIN in.files \subseteq Nat /\ DOMAIN in.sets \subseteq Nat /\ DOMAIN in.template \subseteq Nat
  <2> DEFINE P == [key : STRING, fallback : STRING]
  <2>1. in.template \in Seq(P)
    BY Zenon DEF VM!IsSources
  <2> HIDE DEF P
  <2>2. DOMAIN in.template \subseteq Nat
    BY <2>1
  <2> QED BY <2>2, SourcesHave
<1> HIDE DEF e
<1>3. ASSUME NEW S, S \subseteq Nat, NEW m \in S, \A j \in S : j <= m
      PROVE  (CHOOSE i \in S : \A j \in S : j <= i) = m
  <2> DEFINE c == CHOOSE i \in S : \A j \in S : j <= i
  <2>1. c \in S /\ \A j \in S : j <= c
    BY <1>3
  <2> HIDE DEF c
  <2>2. c <= m /\ m <= c /\ c \in Nat /\ m \in Nat
    BY <1>3, <2>1
  <2>3. c = m
    BY <2>2
  <2> QED BY <2>3 DEF c
<1>4. CASE \E m \in DOMAIN in.sets :
            /\ in.sets[m].key = k /\ \A j \in DOMAIN in.sets : in.sets[j].key = k => j <= m
            /\ e = [value |-> in.sets[m].value, source |-> <<"--set">>]
  <2>1. PICK m \in DOMAIN in.sets :
            /\ in.sets[m].key = k /\ \A j \in DOMAIN in.sets : in.sets[j].key = k => j <= m
            /\ e = [value |-> in.sets[m].value, source |-> <<"--set">>]
    BY <1>4
  <2>2. m \in sets /\ sets \subseteq Nat /\ \A j \in sets : j <= m
    BY <1>2, <2>1
  <2>3. (CHOOSE i \in sets : \A j \in sets : j <= i) = m
    <3> HIDE DEF sets
    <3> QED BY <1>3, <2>2
  <2>4. e.value = in.sets[m].value
    BY <2>1
  <2>5. sets /= {}
    BY <2>2
  <2> QED BY <2>3, <2>4, <2>5, Zenon DEF VM!Highest, e
<1>5. CASE (\A j \in DOMAIN in.sets : in.sets[j].key /= k) /\ k \in DOMAIN in.env
           /\ e = [value |-> in.env[k], source |-> <<"environment">>]
  <2>1. sets = {} /\ k \in DOMAIN in.env /\ e.value = in.env[k]
    BY <1>5
  <2> QED BY <2>1, Zenon DEF VM!Highest, e
<1>6. CASE /\ (\A j \in DOMAIN in.sets : in.sets[j].key /= k) /\ k \notin DOMAIN in.env
           /\ \E m \in DOMAIN in.files :
                /\ k \in DOMAIN in.files[m] /\ \A j \in DOMAIN in.files : k \in DOMAIN in.files[j] => j <= m
                /\ e = [value |-> in.files[m][k], source |-> <<"env_file", m>>]
  <2>1. PICK m \in DOMAIN in.files :
                /\ k \in DOMAIN in.files[m] /\ \A j \in DOMAIN in.files : k \in DOMAIN in.files[j] => j <= m
                /\ e = [value |-> in.files[m][k], source |-> <<"env_file", m>>]
    BY <1>6
  <2>2. m \in files /\ files \subseteq Nat /\ \A j \in files : j <= m
    BY <1>2, <2>1
  <2>3. (CHOOSE i \in files : \A j \in files : j <= i) = m
    <3> HIDE DEF files
    <3> QED BY <1>3, <2>2
  <2>4. e.value = in.files[m][k]
    BY <2>1
  <2>5. files /= {} /\ sets = {} /\ k \notin DOMAIN in.env
    BY <1>6, <2>2
  <2> QED BY <2>3, <2>4, <2>5, Zenon DEF VM!Highest, e
<1>7. CASE ~Supplied(in, k)
  <2>1. sets = {} /\ files = {} /\ k \notin DOMAIN in.env
    BY <1>7 DEF Supplied
  <2>2. CASE k \in DOMAIN VM!schemaDefaults(in)
    <3>1. VM!Declared(in, k) /\ in.schema[k].default /= VM!None
          /\ VM!schemaDefaults(in)[k] = [value |-> in.schema[k].default, source |-> <<"schema_default">>]
      BY <2>2, DefaultsAre DEF VM!Declared
    <3>2. e = [value |-> in.schema[k].default, source |-> <<"schema_default">>]
      BY <1>1, <1>7, <2>2, <3>1
    <3>3. e.value = in.schema[k].default
      BY <3>2
    <3> QED BY <2>1, <3>1, <3>3, Zenon DEF VM!Highest, e
  <2>3. CASE k \notin DOMAIN VM!schemaDefaults(in)
    <3>1. ~(VM!Declared(in, k) /\ in.schema[k].default /= VM!None)
      BY <2>3, DefaultsAre DEF VM!Declared
    <3>2. defaults = Giving(in, k) /\ defaults \subseteq Nat
      BY <1>2 DEF Giving
    <3>3. CASE k \in DOMAIN VM!defaultsInTemplate(in)
      <4>1. PICK m \in Giving(in, k) :
                /\ \A j \in Giving(in, k) : j <= m
                /\ VM!defaultsInTemplate(in)[k] =
                     [value |-> in.template[m].fallback, source |-> <<"placeholder_default">>]
        BY <3>3, TemplateIs
      <4>2. e.value = in.template[m].fallback
        <5>1. e = [value |-> in.template[m].fallback, source |-> <<"placeholder_default">>]
          BY <1>1, <1>7, <2>3, <3>3, <4>1
        <5> QED BY <5>1
      <4>3. (CHOOSE i \in defaults : \A j \in defaults : j <= i) = m /\ defaults /= {}
        <5>1. m \in defaults /\ defaults \subseteq Nat /\ \A j \in defaults : j <= m
          BY <3>2, <4>1
        <5> HIDE DEF defaults
        <5> QED BY <1>3, <5>1
      <4> QED BY <2>1, <3>1, <4>2, <4>3, Zenon DEF VM!Highest, e
    <3>4. CASE k \notin DOMAIN VM!defaultsInTemplate(in)
      <4>1. e.value = VM!Empty
        BY <1>1, <1>7, <2>3, <3>4
      <4>2. defaults = {}
        BY <3>2, <3>4, TemplateIs
      <4> QED BY <2>1, <3>1, <4>1, <4>2, Zenon DEF VM!Highest, e
    <3> QED BY <3>3, <3>4
  <2> QED BY <2>2, <2>3
<1>8. Wins(in, k, e) \/ ~Supplied(in, k)
  BY <1>1
<1> QED BY <1>4, <1>5, <1>6, <1>7, <1>8 DEF Wins

\* The value that a source gives a key is a text, and so is one of the schema.
LEMMA GivenIsText ==
    ASSUME NEW in, VM!IsSources(in), NEW k, NEW e,
           Wins(in, k, e) \/ (k \in DOMAIN VM!schemaDefaults(in) /\ e = VM!schemaDefaults(in)[k])
    PROVE  e.value \in VM!Text
<1>1. VM!IsMap(in.env)
  BY Zenon DEF VM!IsSources
<1>2. /\ \A i \in DOMAIN in.files : VM!IsMap(in.files[i])
      /\ \A i \in DOMAIN in.sets : in.sets[i].value \in VM!Text
  BY SourcesHave
<1>3. ASSUME NEW f, VM!IsMap(f), NEW x \in DOMAIN f PROVE f[x] \in VM!Text
  BY <1>3 DEF VM!IsMap
<1>4. CASE Wins(in, k, e)
  <2>1. CASE \E m \in DOMAIN in.sets : e = [value |-> in.sets[m].value, source |-> <<"--set">>]
    BY <1>2, <2>1
  <2>2. CASE k \in DOMAIN in.env /\ e = [value |-> in.env[k], source |-> <<"environment">>]
    BY <1>1, <1>3, <2>2
  <2>3. CASE \E m \in DOMAIN in.files : k \in DOMAIN in.files[m]
                /\ e = [value |-> in.files[m][k], source |-> <<"env_file", m>>]
    BY <1>2, <1>3, <2>3
  <2> QED BY <1>4, <2>1, <2>2, <2>3 DEF Wins
<1>5. CASE k \in DOMAIN VM!schemaDefaults(in) /\ e = VM!schemaDefaults(in)[k]
  <2>1. k \in DOMAIN in.schema /\ in.schema[k].default /= VM!None
        /\ e = [value |-> in.schema[k].default, source |-> <<"schema_default">>]
    BY <1>5, DefaultsAre
  <2> DEFINE D == DOMAIN Valid
             R == [type : D, default : STRING, optional : BOOLEAN, secret : BOOLEAN]
  <2>2. in.schema \in [DOMAIN in.schema -> R]
    BY Zenon DEF VM!IsSources
  <2> HIDE DEF D
  <2>3. in.schema[k].default \in STRING
    <3>1. in.schema[k] \in R
      BY <2>1, <2>2
    <3> QED BY <3>1
  <2>4. e.value = in.schema[k].default
    BY <2>1
  <2> QED BY <2>1, <2>3, <2>4 DEF VM!Text
<1> QED BY <1>4, <1>5

LEMMA ResolutionIs ==
    ASSUME NEW in, VM!IsSources(in), NEW k \in DOMAIN VM!resolved(in), NEW r,
           r = [VM!resolved(in)[k] EXCEPT !.value = VM!Hide(in, k, @)]
    PROVE  r.value = VM!Hide(in, k, VM!resolved(in)[k].value)
<1>1. IsEntry(VM!resolved(in)[k])
  BY ResolvedIs
<1>2. PICK value, name : VM!resolved(in)[k] = [value |-> value, source |-> name]
  BY <1>1 DEF IsEntry
<1> DEFINE e == VM!resolved(in)[k]
           h == VM!Hide(in, k, e.value)
<1>3. e = [value |-> value, source |-> name] /\ r = [e EXCEPT !.value = h]
  BY <1>2
<1> HIDE DEF e, h
<1>4. r.value = h
  BY <1>3
<1> QED BY <1>4 DEF e, h

\* envsub.
LEMMA RunIs ==
    ASSUME NEW in, VM!Run(in).outcome = "pass"
    PROVE  /\ VM!Resolvable(in) /\ (in.mode = "render" => VM!Renderable(in))
           /\ VM!Run(in).resolutions = VM!resolutions(in)
           /\ in.mode /= "render" => VM!Run(in).rendered = <<>>
           /\ in.mode = "render" =>
                VM!Run(in).rendered = [i \in DOMAIN in.template |-> VM!render(in, in.template[i])]
<1> DEFINE ok == /\ VM!Parsed(in) /\ VM!KnownKeys(in) /\ VM!Resolvable(in)
                 /\ (in.mode = "list_keys" \/ VM!Renderable(in))
           texts == IF in.mode = "render" THEN [i \in DOMAIN in.template |-> VM!render(in, in.template[i])]
                    ELSE <<>>
           res == VM!resolutions(in)
<1>1. VM!Run(in) = IF ok THEN [outcome |-> "pass", resolutions |-> res, rendered |-> texts] ELSE VM!Refused
  BY DEF VM!Run
<1>2. VM!Refused.outcome /= "pass"
  BY DEF VM!Refused
<1>3. ok => VM!Resolvable(in) /\ (in.mode = "render" => VM!Renderable(in))
  OBVIOUS
<1>4. /\ in.mode /= "render" => texts = <<>>
      /\ in.mode = "render" => texts = [i \in DOMAIN in.template |-> VM!render(in, in.template[i])]
  OBVIOUS
<1> HIDE DEF ok, texts, res
<1>5. ok
  BY <1>1, <1>2
<1>6. VM!Run(in).resolutions = res /\ VM!Run(in).rendered = texts
  BY <1>1, <1>5
<1> QED BY <1>3, <1>4, <1>5, <1>6 DEF res

LEMMA RenderIsRight ==
    ASSUME NEW in, VM!IsSources(in)
    PROVE  VM!RenderFollowsSources(in, VM!Run(in))
<1> DEFINE out == VM!Run(in)
<1>1. SUFFICES ASSUME out.outcome = "pass"
               PROVE  /\ in.mode /= "render" => out.rendered = <<>>
                      /\ \A i \in DOMAIN out.rendered :
                            LET p == in.template[i] text == out.rendered[i] IN
                            /\ \/ text /= VM!Empty /\ VM!Highest(in, p.key, text)
                               \/ text = p.fallback /\ VM!Highest(in, p.key, VM!Empty)
                            /\ VM!Declared(in, p.key) => text \in Valid[in.schema[p.key].type]
                            /\ out.resolutions[p.key].value \in {text, VM!Empty, VM!Masked}
                      /\ \A k \in DOMAIN out.resolutions :
                            VM!Declared(in, k) /\ in.schema[k].secret => out.resolutions[k].value = VM!Masked
  BY DEF VM!RenderFollowsSources
<1>2. /\ VM!Resolvable(in) /\ (in.mode = "render" => VM!Renderable(in))
      /\ out.resolutions = VM!resolutions(in)
      /\ in.mode /= "render" => out.rendered = <<>>
      /\ in.mode = "render" =>
            out.rendered = [i \in DOMAIN in.template |-> VM!render(in, in.template[i])]
  BY <1>1, RunIs
<1> HIDE DEF out
<1>3. /\ DOMAIN out.resolutions = VM!referencedKeys(in)
      /\ \A k \in VM!referencedKeys(in) :
            out.resolutions[k] = [VM!resolved(in)[k] EXCEPT !.value = VM!Hide(in, k, @)]
  BY <1>2 DEF VM!resolutions
<1>4. VM!referencedKeys(in) \subseteq DOMAIN VM!resolved(in)
  BY <1>2 DEF VM!Resolvable
<1>5. ASSUME NEW k \in VM!referencedKeys(in)
      PROVE  out.resolutions[k].value = VM!Hide(in, k, VM!resolved(in)[k].value)
  BY <1>3, <1>4, ResolutionIs
<1>6. ASSUME NEW i \in DOMAIN out.rendered
      PROVE  LET p == in.template[i] text == out.rendered[i] IN
             /\ \/ text /= VM!Empty /\ VM!Highest(in, p.key, text)
                \/ text = p.fallback /\ VM!Highest(in, p.key, VM!Empty)
             /\ VM!Declared(in, p.key) => text \in Valid[in.schema[p.key].type]
             /\ out.resolutions[p.key].value \in {text, VM!Empty, VM!Masked}
  <2> DEFINE p == in.template[i]
             text == out.rendered[i]
             value == VM!resolved(in)[p.key].value
  <2>1. in.mode = "render"
    <3>1. SUFFICES ASSUME in.mode /= "render" PROVE FALSE
      OBVIOUS
    <3>2. out.rendered = <<>>
      BY <1>2, <3>1
    <3> QED BY <1>6, <3>2
  <2>2. i \in DOMAIN in.template /\ text = VM!render(in, p)
    BY <1>2, <1>6, <2>1
  <2>3. p \in VM!Range(in.template) /\ p.key \in VM!referencedKeys(in)
    BY <2>2 DEF VM!Range, VM!referencedKeys
  <2>4. p.key \in DOMAIN VM!resolved(in) /\ VM!Highest(in, p.key, value)
    BY <1>4, <2>3, HighestIs
  <2>5. VM!validate(in, p.key, text)
    BY <1>2, <2>1, <2>2, <2>3 DEF VM!Renderable
  <2>6. out.resolutions[p.key].value = VM!Hide(in, p.key, value)
    BY <1>5, <2>3
  <2>7. text = IF value = VM!Empty THEN p.fallback ELSE value
    BY <2>2 DEF VM!render
  <2> HIDE DEF p, text, value
  <2>8. \/ text /= VM!Empty /\ VM!Highest(in, p.key, text)
        \/ text = p.fallback /\ VM!Highest(in, p.key, VM!Empty)
    BY <2>4, <2>7
  <2>9. VM!Declared(in, p.key) => text \in Valid[in.schema[p.key].type]
    BY <2>5 DEF VM!validate
  <2>10. out.resolutions[p.key].value \in {text, VM!Empty, VM!Masked}
    <3>1. VM!Hide(in, p.key, value) \in {value, VM!Masked}
      BY DEF VM!Hide
    <3> QED BY <2>6, <2>7, <3>1
  <2> QED BY <2>8, <2>9, <2>10 DEF p, text
<1>7. ASSUME NEW k \in DOMAIN out.resolutions, VM!Declared(in, k), in.schema[k].secret
      PROVE  out.resolutions[k].value = VM!Masked
  <2>1. out.resolutions[k].value = VM!Hide(in, k, VM!resolved(in)[k].value)
    BY <1>3, <1>5
  <2> QED BY <1>7, <2>1, Zenon DEF VM!Hide
<1> QED BY <1>2, <1>6, <1>7

\* varmerge.
All(in) == VM!Over(VM!Stack(VM!Sources(in)), VM!schemaDefaults(in))

LEMMA AllIs ==
    ASSUME NEW in, VM!IsSources(in)
    PROVE  \A k \in DOMAIN All(in) :
            /\ k \in DOMAIN VM!resolved(in) /\ All(in)[k] = VM!resolved(in)[k]
            /\ All(in)[k].value \in VM!Text
<1> DEFINE M == VM!Stack(VM!Sources(in))
           D == VM!schemaDefaults(in)
<1>1. /\ \A k : k \in DOMAIN M <=> Supplied(in, k)
      /\ \A k \in DOMAIN M : Wins(in, k, M[k])
  BY MergedIs
<1>2. /\ DOMAIN All(in) = DOMAIN M \union DOMAIN D
      /\ \A k \in DOMAIN M : All(in)[k] = M[k]
      /\ \A k \in DOMAIN D \ DOMAIN M : All(in)[k] = D[k]
  BY OverIs DEF All
<1>3. /\ \A k : Supplied(in, k) => k \in DOMAIN VM!resolved(in) /\ Wins(in, k, VM!resolved(in)[k])
      /\ \A k \in DOMAIN D : ~Supplied(in, k) => k \in DOMAIN VM!resolved(in) /\ VM!resolved(in)[k] = D[k]
  BY ResolvedIs
<1> HIDE DEF M
<1> SUFFICES ASSUME NEW k \in DOMAIN All(in)
             PROVE  /\ k \in DOMAIN VM!resolved(in) /\ All(in)[k] = VM!resolved(in)[k]
                    /\ All(in)[k].value \in VM!Text
  OBVIOUS
<1>4. CASE k \in DOMAIN M
  <2>1. All(in)[k] = M[k] /\ Wins(in, k, M[k]) /\ k \in DOMAIN VM!resolved(in) /\ Wins(in, k, VM!resolved(in)[k])
    BY <1>1, <1>2, <1>3, <1>4
  <2>2. M[k] = VM!resolved(in)[k]
    BY <2>1, WinsOnce
  <2>3. M[k].value \in VM!Text
    BY <2>1, GivenIsText
  <2> QED BY <2>1, <2>2, <2>3
<1>5. CASE k \notin DOMAIN M
  <2>1. k \in DOMAIN D /\ All(in)[k] = D[k] /\ ~Supplied(in, k)
    BY <1>1, <1>2, <1>5
  <2>2. k \in DOMAIN VM!resolved(in) /\ VM!resolved(in)[k] = D[k]
    BY <1>3, <2>1
  <2>3. D[k].value \in VM!Text
    BY <2>1, GivenIsText
  <2> QED BY <2>1, <2>2, <2>3
<1> QED BY <1>4, <1>5

\* What varmerge has checked of what it takes.
LEMMA TakenIs ==
    ASSUME NEW in, VM!IsSources(in), VM!Merge(in).outcome = "pass"
    PROVE  /\ ~in.malformed
           /\ \A k : Supplied(in, k) => (in.strict => VM!Declared(in, k))
           /\ \A k \in DOMAIN All(in) : VM!validateValue(in, k, All(in)[k].value)
           /\ VM!Merge(in).values = [k \in DOMAIN All(in) |-> All(in)[k].value]
           /\ VM!Merge(in).provenance =
                [k \in DOMAIN All(in) |-> [All(in)[k] EXCEPT !.value = VM!Hide(in, k, @)]]
<1> DEFINE M == VM!Stack(VM!Sources(in))
           D == VM!schemaDefaults(in)
           checked == \A s \in VM!Range(VM!Sources(in)) : \A k \in DOMAIN s :
                        /\ in.strict => VM!Declared(in, k)
                        /\ VM!validateValue(in, k, s[k].value)
           defaults == \A k \in DOMAIN All(in) \ DOMAIN M : VM!validateValue(in, k, All(in)[k].value)
           values == [k \in DOMAIN All(in) |-> All(in)[k].value]
           provenance == [k \in DOMAIN All(in) |-> [All(in)[k] EXCEPT !.value = VM!Hide(in, k, @)]]
           shadowed == [k \in {k \in DOMAIN M : VM!Shadowed(in, k) /= {}} |-> VM!Shadowed(in, k)]
<1>1. VM!Merge(in) = IF in.malformed \/ ~checked \/ ~defaults THEN VM!Refused
                     ELSE [outcome |-> "pass", values |-> values, provenance |-> provenance, shadowed |-> shadowed]
  BY DEF VM!Merge, All
<1>2. VM!Refused.outcome /= "pass"
  BY DEF VM!Refused
<1> HIDE DEF checked, defaults, values, provenance, shadowed
<1>3. ~in.malformed /\ checked /\ defaults
  BY <1>1, <1>2
<1>4. VM!Merge(in).values = values /\ VM!Merge(in).provenance = provenance
  BY <1>1, <1>3
<1>5. /\ \A k : k \in DOMAIN M <=> Supplied(in, k)
      /\ \A k \in DOMAIN M : \E i \in DOMAIN VM!Sources(in) :
            k \in DOMAIN VM!Sources(in)[i] /\ M[k] = VM!Sources(in)[i][k]
  BY MergedIs
<1>6. \A k \in DOMAIN M : All(in)[k] = M[k]
  BY OverIs DEF All
<1> HIDE DEF M
<1>7. ASSUME NEW k \in DOMAIN M
      PROVE  (in.strict => VM!Declared(in, k)) /\ VM!validateValue(in, k, M[k].value)
  <2>1. PICK i \in DOMAIN VM!Sources(in) : k \in DOMAIN VM!Sources(in)[i] /\ M[k] = VM!Sources(in)[i][k]
    BY <1>5
  <2> DEFINE s == VM!Sources(in)[i]
  <2>2. s \in VM!Range(VM!Sources(in)) /\ k \in DOMAIN s /\ M[k] = s[k]
    BY <2>1 DEF VM!Range
  <2> HIDE DEF s
  <2>3. (in.strict => VM!Declared(in, k)) /\ VM!validateValue(in, k, s[k].value)
    BY <1>3, <2>2, Zenon DEF checked
  <2> QED BY <2>2, <2>3
<1>8. \A k \in DOMAIN All(in) : VM!validateValue(in, k, All(in)[k].value)
  <2> SUFFICES ASSUME NEW k \in DOMAIN All(in) PROVE VM!validateValue(in, k, All(in)[k].value)
    OBVIOUS
  <2>1. CASE k \in DOMAIN M
    BY <1>6, <1>7, <2>1
  <2>2. CASE k \notin DOMAIN M
    BY <1>3, <2>2, Zenon DEF defaults
  <2> QED BY <2>1, <2>2
<1>9. \A k : Supplied(in, k) => (in.strict => VM!Declared(in, k))
  BY <1>5, <1>7
<1> QED BY <1>3, <1>4, <1>8, <1>9 DEF values, provenance

LEMMA MergeIsRight ==
    ASSUME NEW in, VM!IsSources(in)
    PROVE  VM!MergeAgreesWithEnvSub(in, VM!Run(in), VM!Merge(in))
<1> DEFINE sub == VM!Run(in)
           merge == VM!Merge(in)
           same == \A k \in DOMAIN sub.resolutions \intersect DOMAIN merge.values :
                    /\ merge.provenance[k] = sub.resolutions[k]
                    /\ merge.values[k] = VM!resolved(in)[k].value
           excuse(p) == \/ p.key = VM!Unsupported \/ p.key \notin DOMAIN merge.values \/ p.fallback /= VM!None
                        \/ merge.values[p.key] = VM!Empty
                        \/ VM!Declared(in, p.key) /\ in.schema[p.key].type \notin VM!Checked
<1>1. ASSUME sub.outcome = "pass", merge.outcome = "pass" PROVE same
  <2>1. sub.resolutions = VM!resolutions(in)
    BY <1>1, RunIs
  <2>2. /\ merge.values = [k \in DOMAIN All(in) |-> All(in)[k].value]
        /\ merge.provenance = [k \in DOMAIN All(in) |-> [All(in)[k] EXCEPT !.value = VM!Hide(in, k, @)]]
    BY <1>1, TakenIs
  <2> HIDE DEF sub, merge
  <2>3. SUFFICES ASSUME NEW k \in DOMAIN sub.resolutions \intersect DOMAIN merge.values
                 PROVE  /\ merge.provenance[k] = sub.resolutions[k]
                        /\ merge.values[k] = VM!resolved(in)[k].value
    OBVIOUS
  <2>4. k \in DOMAIN All(in)
    BY <2>2, <2>3
  <2>5. All(in)[k] = VM!resolved(in)[k]
    BY <2>4, AllIs
  <2>6. sub.resolutions[k] = [VM!resolved(in)[k] EXCEPT !.value = VM!Hide(in, k, @)]
    BY <2>1, <2>3 DEF VM!resolutions
  <2>7. merge.provenance[k] = [All(in)[k] EXCEPT !.value = VM!Hide(in, k, @)]
        /\ merge.values[k] = All(in)[k].value
    BY <2>2, <2>4
  <2> QED BY <2>5, <2>6, <2>7
<1>2. ASSUME merge.outcome = "pass", \A p \in VM!Range(in.template) : ~excuse(p) PROVE sub.outcome /= "refused"
  <2>1. /\ ~in.malformed
        /\ \A k : Supplied(in, k) => (in.strict => VM!Declared(in, k))
        /\ \A k \in DOMAIN All(in) : VM!validateValue(in, k, All(in)[k].value)
        /\ merge.values = [k \in DOMAIN All(in) |-> All(in)[k].value]
    BY <1>2, TakenIs
  <2>2. DOMAIN merge.values = DOMAIN All(in) /\ \A k \in DOMAIN All(in) : merge.values[k] = All(in)[k].value
    <3> HIDE DEF merge
    <3> QED BY <2>1
  <2> DEFINE value(k) == VM!resolved(in)[k].value
  <2>3. ASSUME NEW p \in VM!Range(in.template)
        PROVE  /\ p.key /= VM!Unsupported /\ p.key \in DOMAIN VM!resolved(in)
               /\ value(p.key) /= VM!Empty /\ value(p.key) /= VM!None
               /\ VM!validate(in, p.key, value(p.key))
    <3> DEFINE k == p.key
    <3>1. ~excuse(p)
      BY <1>2, <2>3
    <3>2. /\ k /= VM!Unsupported /\ k \in DOMAIN All(in) /\ merge.values[k] /= VM!Empty
          /\ ~(VM!Declared(in, k) /\ in.schema[k].type \notin VM!Checked)
      BY <2>2, <3>1, Zenon
    <3>3. /\ k \in DOMAIN VM!resolved(in) /\ All(in)[k] = VM!resolved(in)[k]
          /\ All(in)[k].value \in VM!Text
      BY <3>2, AllIs
    <3>4. merge.values[k] = value(k)
      BY <2>2, <3>2, <3>3
    <3>5. value(k) /= VM!None
      BY <3>3 DEF VM!Text
    <3>6. VM!validateValue(in, k, value(k))
      BY <2>1, <3>2, <3>3
    <3>7. VM!validate(in, k, value(k))
      BY <3>2, <3>6, Zenon DEF VM!validate, VM!validateValue
    <3> QED BY <3>2, <3>3, <3>4, <3>5, <3>7, Zenon
  <2>4. VM!Parsed(in)
    BY <2>1, <2>3, Zenon DEF VM!Parsed, VM!referencedKeys
  <2>5. VM!KnownKeys(in)
    <3>1. ASSUME NEW k \in VM!supplied(in) PROVE Supplied(in, k)
      <4>1. (\E f \in VM!Range(in.files) : k \in DOMAIN f) \/ \E s \in VM!Range(in.sets) : s.key = k
        <5> DEFINE F == VM!Range(in.files)
                   G == VM!Range(in.sets)
        <5>1. k \in (UNION {DOMAIN f : f \in F}) \union {s.key : s \in G}
          BY <3>1, Zenon DEF VM!supplied
        <5> HIDE DEF F, G
        <5>2. (\E f \in F : k \in DOMAIN f) \/ \E s \in G : s.key = k
          BY <5>1, Zenon
        <5> QED BY <5>2 DEF F, G
      <4> QED BY <4>1 DEF VM!Range, Supplied
    <3> QED BY <2>1, <3>1, Zenon DEF VM!KnownKeys, VM!Declared
  <2>6. VM!Resolvable(in)
    BY <2>3, Zenon DEF VM!Resolvable, VM!referencedKeys
  <2>7. VM!Renderable(in)
    <3>1. ASSUME NEW p \in VM!Range(in.template) PROVE VM!render(in, p) = value(p.key)
      BY <2>3, Zenon DEF VM!render
    <3> QED BY <2>3, <3>1, Zenon DEF VM!Renderable
  <2>8. sub = [outcome |-> "pass", resolutions |-> VM!resolutions(in),
               rendered |-> IF in.mode = "render"
                            THEN [i \in DOMAIN in.template |-> VM!render(in, in.template[i])] ELSE <<>>]
    BY <2>4, <2>5, <2>6, <2>7, Zenon DEF VM!Run
  <2> HIDE DEF sub
  <2>9. sub.outcome = "pass"
    BY <2>8, Zenon
  <2> QED BY <2>9
<1> QED BY <1>1, <1>2, Zenon DEF VM!MergeAgreesWithEnvSub

\* A capture has its fields, whatever has been read of it.
Shaped(c) ==
    /\ DOMAIN c = {"path", "truncated", "packets", "flows", "vlans", "icmp", "resets", "payload"}
    /\ DOMAIN c.payload = {"packets", "bytes", "max", "decoders"}

\* pcapwhy: a capture of which nothing is read yet.
LEMMA NothingIs ==
    ASSUME NEW path
    PROVE  LET c == PW!Nothing(path) IN
           /\ Shaped(c) /\ c.path = path /\ c.packets = 0 /\ DOMAIN c.flows = {} /\ DOMAIN c.resets = {}
           /\ DOMAIN c.icmp = {} /\ c.payload.packets = 0 /\ c.payload.bytes = 0
BY DEF PW!Nothing, Shaped

\* What each part of reading a packet changes.
LEMMA CountedIs ==
    ASSUME NEW c, NEW p, Shaped(c)
    PROVE  LET d == PW!Counted(c, p) IN
           /\ Shaped(d) /\ d.path = c.path /\ d.packets = c.packets + 1 /\ d.flows = c.flows
           /\ d.resets = c.resets /\ d.icmp = c.icmp /\ d.payload = c.payload
BY DEF PW!Counted, Shaped

LEMMA WithFlowIs ==
    ASSUME NEW c, NEW p, Shaped(c)
    PROVE  LET d == PW!WithFlow(c, p) f == PW!endpoints(p) IN
           /\ Shaped(d) /\ d.path = c.path /\ d.packets = c.packets /\ d.resets = c.resets
           /\ d.icmp = c.icmp /\ d.payload = c.payload
           /\ f = <<>> => d.flows = c.flows
           /\ f /= <<>> =>
                /\ DOMAIN d.flows = DOMAIN c.flows \union {f}
                /\ d.flows[f].packets = IF f \in DOMAIN c.flows THEN c.flows[f].packets + 1 ELSE 1
                /\ \A g \in DOMAIN c.flows : g /= f => d.flows[g] = c.flows[g]
<1> DEFINE f == PW!endpoints(p)
           old == IF f \in DOMAIN c.flows THEN c.flows[f] ELSE [packets |-> 0, bytes |-> 0]
           new == [packets |-> old.packets + 1, bytes |-> old.bytes + p.length]
           put == PW!Put(c.flows, f, new)
           d == PW!WithFlow(c, p)
<1>1. d = IF f = <<>> THEN c ELSE [c EXCEPT !.flows = put]
  BY DEF PW!WithFlow
<1>2. CASE f = <<>>
  BY <1>1, <1>2
<1>3. CASE f /= <<>>
  <2>1. d = [c EXCEPT !.flows = put]
    BY <1>1, <1>3
  <2> HIDE DEF d, put, f
  <2>2. /\ DOMAIN d = DOMAIN c /\ d.flows = put /\ d.path = c.path /\ d.packets = c.packets /\ d.resets = c.resets
        /\ d.icmp = c.icmp /\ d.payload = c.payload
    BY <2>1 DEF Shaped
  <2>3. Shaped(d)
    BY <2>2 DEF Shaped
  <2>4. new.packets = IF f \in DOMAIN c.flows THEN c.flows[f].packets + 1 ELSE 1
    OBVIOUS
  <2> HIDE DEF new
  <2>5. /\ DOMAIN put = DOMAIN c.flows \union {f} /\ put[f] = new
        /\ \A k \in DOMAIN c.flows : k /= f => put[k] = c.flows[k]
    BY DEF PW!Put, put
  <2>6. /\ DOMAIN d.flows = DOMAIN c.flows \union {f}
        /\ d.flows[f].packets = IF f \in DOMAIN c.flows THEN c.flows[f].packets + 1 ELSE 1
        /\ \A g \in DOMAIN c.flows : g /= f => d.flows[g] = c.flows[g]
    BY <2>2, <2>4, <2>5
  <2> QED BY <1>3, <2>2, <2>3, <2>6 DEF d, f
<1> QED BY <1>2, <1>3

LEMMA WithResetIs ==
    ASSUME NEW c, NEW p, Shaped(c)
    PROVE  LET d == PW!WithReset(c, p) IN
           /\ Shaped(d) /\ d.path = c.path /\ d.packets = c.packets /\ d.flows = c.flows
           /\ d.icmp = c.icmp /\ d.payload = c.payload
           /\ ~PW!IsReset(p) => d.resets = c.resets
           /\ PW!IsReset(p) => DOMAIN d.resets = DOMAIN c.resets \union {PW!Way(p)}
<1> DEFINE put == PW!Put(c.resets, PW!Way(p), PW!tcpFlags(p))
           d == PW!WithReset(c, p)
<1>1. d = IF PW!IsReset(p) THEN [c EXCEPT !.resets = put] ELSE c
  BY DEF PW!WithReset
<1>2. DOMAIN put = DOMAIN c.resets \union {PW!Way(p)}
  BY DEF PW!Put
<1> HIDE DEF d, put
<1>3. CASE PW!IsReset(p)
  <2>1. d = [c EXCEPT !.resets = put]
    BY <1>1, <1>3
  <2>2. /\ DOMAIN d = DOMAIN c /\ d.resets = put /\ d.path = c.path /\ d.packets = c.packets /\ d.flows = c.flows
        /\ d.icmp = c.icmp /\ d.payload = c.payload
    BY <2>1 DEF Shaped
  <2>3. Shaped(d)
    BY <2>2 DEF Shaped
  <2> QED BY <1>2, <1>3, <2>2, <2>3 DEF d
<1>4. CASE ~PW!IsReset(p)
  BY <1>1, <1>4 DEF d
<1> QED BY <1>3, <1>4

LEMMA WithIcmpIs ==
    ASSUME NEW c, NEW p, Shaped(c)
    PROVE  LET d == PW!WithIcmp(c, p) e == PW!icmpEvent(p) IN
           /\ Shaped(d) /\ d.path = c.path /\ d.packets = c.packets /\ d.flows = c.flows
           /\ d.resets = c.resets /\ d.payload = c.payload
           /\ ~PW!IsIcmp(p) => d.icmp = c.icmp
           /\ PW!IsIcmp(p) =>
                /\ DOMAIN d.icmp = DOMAIN c.icmp \union {PW!IcmpKey(e)}
                /\ d.icmp[PW!IcmpKey(e)] = e
                /\ \A k \in DOMAIN c.icmp : k /= PW!IcmpKey(e) => d.icmp[k] = c.icmp[k]
<1> DEFINE e == PW!icmpEvent(p)
           put == PW!Put(c.icmp, PW!IcmpKey(e), e)
           d == PW!WithIcmp(c, p)
<1>1. d = IF PW!IsIcmp(p) THEN [c EXCEPT !.icmp = put] ELSE c
  BY DEF PW!WithIcmp
<1> HIDE DEF e
<1>2. /\ DOMAIN put = DOMAIN c.icmp \union {PW!IcmpKey(e)} /\ put[PW!IcmpKey(e)] = e
      /\ \A k \in DOMAIN c.icmp : k /= PW!IcmpKey(e) => put[k] = c.icmp[k]
  BY DEF PW!Put
<1> HIDE DEF d, put
<1>3. CASE PW!IsIcmp(p)
  <2>1. d = [c EXCEPT !.icmp = put]
    BY <1>1, <1>3
  <2>2. /\ DOMAIN d = DOMAIN c /\ d.icmp = put /\ d.path = c.path /\ d.packets = c.packets /\ d.flows = c.flows
        /\ d.resets = c.resets /\ d.payload = c.payload
    BY <2>1 DEF Shaped
  <2>3. Shaped(d)
    BY <2>2 DEF Shaped
  <2> QED BY <1>2, <1>3, <2>2, <2>3 DEF d, e
<1>4. CASE ~PW!IsIcmp(p)
  BY <1>1, <1>4 DEF d
<1> QED BY <1>3, <1>4

LEMMA WithPayloadIs ==
    ASSUME NEW c, NEW p, Shaped(c)
    PROVE  LET d == PW!WithPayload(c, p) IN
           /\ Shaped(d) /\ d.path = c.path /\ d.packets = c.packets /\ d.flows = c.flows
           /\ d.resets = c.resets /\ d.icmp = c.icmp
           /\ p.payload = 0 => d.payload = c.payload
           /\ p.payload /= 0 => /\ d.payload.packets = c.payload.packets + 1
                                /\ d.payload.bytes = c.payload.bytes + p.payload
<1> DEFINE new == [packets |-> c.payload.packets + 1, bytes |-> c.payload.bytes + p.payload,
                   max |-> IF p.payload > c.payload.max THEN p.payload ELSE c.payload.max,
                   decoders |-> c.payload.decoders \union (p.layers \intersect {"dns", "tls"})]
           d == PW!WithPayload(c, p)
<1>1. d = IF p.payload = 0 THEN c ELSE [c EXCEPT !.payload = new]
  BY DEF PW!WithPayload, Shaped
<1>2. DOMAIN new = {"packets", "bytes", "max", "decoders"} /\ new.packets = c.payload.packets + 1
      /\ new.bytes = c.payload.bytes + p.payload
  OBVIOUS
<1> HIDE DEF d, new
<1>3. CASE p.payload /= 0
  <2>1. d = [c EXCEPT !.payload = new]
    BY <1>1, <1>3
  <2>2. /\ DOMAIN d = DOMAIN c /\ d.payload = new /\ d.path = c.path /\ d.packets = c.packets /\ d.flows = c.flows
        /\ d.resets = c.resets /\ d.icmp = c.icmp
    BY <2>1 DEF Shaped
  <2>3. Shaped(d)
    BY <1>2, <2>2 DEF Shaped
  <2> QED BY <1>2, <1>3, <2>2, <2>3 DEF d
<1>4. CASE p.payload = 0
  BY <1>1, <1>4 DEF d
<1> QED BY <1>3, <1>4

\* What reading a packet changes.
LEMMA PacketIs ==
    ASSUME NEW c, NEW p, NEW m, Shaped(c)
    PROVE  LET d == PW!Packet(c, p, m)
               f == PW!endpoints(p)
               e == PW!icmpEvent(p)
           IN
           /\ Shaped(d) /\ d.path = c.path /\ d.packets = c.packets + 1
           /\ PW!NoPlace(c, p, m) => d.flows = c.flows
           /\ ~PW!NoPlace(c, p, m) =>
                /\ f = <<>> => d.flows = c.flows
                /\ f /= <<>> =>
                    /\ DOMAIN d.flows = DOMAIN c.flows \union {f}
                    /\ d.flows[f].packets = IF f \in DOMAIN c.flows THEN c.flows[f].packets + 1 ELSE 1
                    /\ \A g \in DOMAIN c.flows : g /= f => d.flows[g] = c.flows[g]
                /\ ~PW!IsReset(p) => d.resets = c.resets
                /\ PW!IsReset(p) => DOMAIN d.resets = DOMAIN c.resets \union {PW!Way(p)}
                /\ ~PW!IsIcmp(p) => d.icmp = c.icmp
                /\ PW!IsIcmp(p) =>
                    /\ DOMAIN d.icmp = DOMAIN c.icmp \union {PW!IcmpKey(e)}
                    /\ d.icmp[PW!IcmpKey(e)] = e
                    /\ \A k \in DOMAIN c.icmp : k /= PW!IcmpKey(e) => d.icmp[k] = c.icmp[k]
                /\ p.payload = 0 => d.payload = c.payload
                /\ p.payload /= 0 => /\ d.payload.packets = c.payload.packets + 1
                                     /\ d.payload.bytes = c.payload.bytes + p.payload
<1> DEFINE c1 == PW!Counted(c, p)
           c2 == PW!WithFlow(c1, p)
           c3 == PW!WithReset(c2, p)
           c4 == PW!WithIcmp(c3, p)
           c5 == PW!WithPayload(c4, p)
           d == PW!Packet(c, p, m)
           f == PW!endpoints(p)
           e == PW!icmpEvent(p)
<1>1. /\ Shaped(c1) /\ c1.path = c.path /\ c1.packets = c.packets + 1 /\ c1.flows = c.flows
      /\ c1.resets = c.resets /\ c1.icmp = c.icmp /\ c1.payload = c.payload
  BY CountedIs
<1>2. d = IF PW!NoPlace(c, p, m) THEN c1 ELSE c5
  BY DEF PW!Packet
<1>3. CASE PW!NoPlace(c, p, m)
  <2>1. d = c1
    BY <1>2, <1>3
  <2> HIDE DEF d, c1
  <2> QED BY <1>1, <1>3, <2>1 DEF d
<1>4. CASE ~PW!NoPlace(c, p, m)
  <2>1. d = c5
    BY <1>2, <1>4
  <2> HIDE DEF d, c1
  <2>2. /\ Shaped(c2) /\ c2.path = c1.path /\ c2.packets = c1.packets /\ c2.resets = c1.resets
        /\ c2.icmp = c1.icmp /\ c2.payload = c1.payload
        /\ f = <<>> => c2.flows = c1.flows
        /\ f /= <<>> =>
            /\ DOMAIN c2.flows = DOMAIN c1.flows \union {f}
            /\ c2.flows[f].packets = IF f \in DOMAIN c1.flows THEN c1.flows[f].packets + 1 ELSE 1
            /\ \A g \in DOMAIN c1.flows : g /= f => c2.flows[g] = c1.flows[g]
    BY <1>1, WithFlowIs
  <2> HIDE DEF c2, f
  <2>3. /\ Shaped(c3) /\ c3.path = c2.path /\ c3.packets = c2.packets /\ c3.flows = c2.flows
        /\ c3.icmp = c2.icmp /\ c3.payload = c2.payload
        /\ ~PW!IsReset(p) => c3.resets = c2.resets
        /\ PW!IsReset(p) => DOMAIN c3.resets = DOMAIN c2.resets \union {PW!Way(p)}
    BY <2>2, WithResetIs
  <2> HIDE DEF c3
  <2>4. /\ Shaped(c4) /\ c4.path = c3.path /\ c4.packets = c3.packets /\ c4.flows = c3.flows
        /\ c4.resets = c3.resets /\ c4.payload = c3.payload
        /\ ~PW!IsIcmp(p) => c4.icmp = c3.icmp
        /\ PW!IsIcmp(p) =>
             /\ DOMAIN c4.icmp = DOMAIN c3.icmp \union {PW!IcmpKey(e)}
             /\ c4.icmp[PW!IcmpKey(e)] = e
             /\ \A k \in DOMAIN c3.icmp : k /= PW!IcmpKey(e) => c4.icmp[k] = c3.icmp[k]
    BY <2>3, WithIcmpIs
  <2> HIDE DEF c4, e
  <2>5. /\ Shaped(c5) /\ c5.path = c4.path /\ c5.packets = c4.packets /\ c5.flows = c4.flows
        /\ c5.resets = c4.resets /\ c5.icmp = c4.icmp
        /\ p.payload = 0 => c5.payload = c4.payload
        /\ p.payload /= 0 => /\ c5.payload.packets = c4.payload.packets + 1
                             /\ c5.payload.bytes = c4.payload.bytes + p.payload
    BY <2>4, WithPayloadIs
  <2> HIDE DEF c5
  <2> QED BY <1>1, <1>4, <2>1, <2>2, <2>3, <2>4, <2>5 DEF d, f, e
<1> QED BY <1>3, <1>4

\* A packet without an address has no endpoints.
LEMMA EndpointsAre ==
    ASSUME NEW p
    PROVE  PW!endpoints(p) = <<>> <=> ~PW!HasAddress(p)
BY DEF PW!endpoints

LEMMA OneMore ==
    ASSUME NEW S, NEW x, IsFiniteSet(S), x \notin S
    PROVE  Cardinality(S \union {x}) = Cardinality(S) + 1
BY FS_AddElement

\* What is kept of packets, in the words of the library.
LEMMA PcapCount ==
    ASSUME NEW S
    PROVE  PW!Cardinality(S) = Cardinality(S)
  BY Zenon DEF PW!Cardinality, Cardinality, PW!IsFiniteSet, IsFiniteSet

LEMMA KeptIs ==
    ASSUME NEW packets, NEW n, NEW m, NEW c
    PROVE  LET Flow(f) == {i \in 1..n : PW!endpoints(packets[i]) = f} IN
           PW!Kept(packets, n, m, c) <=>
            /\ Cardinality(DOMAIN c.flows) <= m
            /\ \A f \in DOMAIN c.flows : c.flows[f].packets = Cardinality(Flow(f)) /\ Flow(f) /= {}
            /\ Cardinality(DOMAIN c.flows) < m => PW!Whole(packets, n, c)
  BY PcapCount DEF PW!Kept

LEMMA WholeIs ==
    ASSUME NEW packets, NEW n, NEW c
    PROVE  LET icmps == {i \in 1..n : PW!IsIcmp(packets[i])}
               Key(i) == PW!IcmpKey(PW!icmpEvent(packets[i]))
           IN
           PW!Whole(packets, n, c) <=>
            /\ DOMAIN c.flows = {PW!endpoints(packets[i]) : i \in {i \in 1..n : PW!HasAddress(packets[i])}}
            /\ DOMAIN c.resets = {PW!Way(packets[i]) : i \in {i \in 1..n : PW!IsReset(packets[i])}}
            /\ c.payload.packets = Cardinality({i \in 1..n : packets[i].payload > 0})
            /\ c.payload.bytes = PW!Paid(packets)[n]
            /\ \A i \in icmps :
                /\ Key(i) \in DOMAIN c.icmp
                /\ \E j \in icmps : c.icmp[Key(i)] = PW!icmpEvent(packets[j]) /\ PW!IcmpKey(c.icmp[Key(i)]) = Key(i)
  BY PcapCount DEF PW!Whole

\* One more packet: what is kept of those before it and what it adds is what is kept of all.
LEMMA KeptGrows ==
    ASSUME NEW packets, NEW i \in Nat \ {0}, NEW m \in Nat, NEW c, m > 0,
           Shaped(c), PW!Kept(packets, i - 1, m, c), IsFiniteSet(DOMAIN c.flows), <<>> \notin DOMAIN c.flows,
           packets[i].payload \in Nat, PW!Paid(packets)[i] = PW!Paid(packets)[i - 1] + packets[i].payload,
           PW!Paid(packets)[i - 1] \in Nat
    PROVE  LET d == PW!Packet(c, packets[i], m) IN
           /\ PW!Kept(packets, i, m, d) /\ IsFiniteSet(DOMAIN d.flows) /\ <<>> \notin DOMAIN d.flows
<1> DEFINE p == packets[i]
           d == PW!Packet(c, p, m)
           f == PW!endpoints(p)
           e == PW!icmpEvent(p)
           Flow(g, n) == {j \in 1..n : PW!endpoints(packets[j]) = g}
           full == PW!NoPlace(c, p, m)
<1>1. 1..i = 1..(i - 1) \union {i} /\ i \notin 1..(i - 1) /\ IsFiniteSet(1..(i - 1)) /\ i - 1 \in Nat
  <2>1. 1..i = 1..(i - 1) \union {i} /\ i \notin 1..(i - 1) /\ i - 1 \in Nat
    OBVIOUS
  <2>2. IsFiniteSet(1..(i - 1))
    BY <2>1, FS_Interval
  <2> QED BY <2>1, <2>2
<1>2. \A g : IsFiniteSet(Flow(g, i - 1)) /\ Flow(g, i) = IF g = f THEN Flow(g, i - 1) \union {i} ELSE Flow(g, i - 1)
  <2>1. ASSUME NEW g PROVE IsFiniteSet(Flow(g, i - 1))
                           /\ Flow(g, i) = IF g = f THEN Flow(g, i - 1) \union {i} ELSE Flow(g, i - 1)
    <3>1. Flow(g, i - 1) \subseteq 1..(i - 1)
      OBVIOUS
    <3>2. IsFiniteSet(Flow(g, i - 1))
      BY <1>1, <3>1, FS_Subset
    <3> QED BY <1>1, <3>2
  <2> QED BY <2>1
<1>3. \A g : Cardinality(Flow(g, i)) = IF g = f THEN Cardinality(Flow(g, i - 1)) + 1 ELSE Cardinality(Flow(g, i - 1))
  <2>1. ASSUME NEW g PROVE Cardinality(Flow(g, i)) = IF g = f THEN Cardinality(Flow(g, i - 1)) + 1 ELSE Cardinality(Flow(g, i - 1))
    <3>1. i \notin Flow(g, i - 1)
      BY <1>1
    <3>2. Cardinality(Flow(g, i - 1) \union {i}) = Cardinality(Flow(g, i - 1)) + 1
      <4> HIDE DEF Flow
      <4> QED BY <1>2, <3>1, OneMore
    <3> HIDE DEF Flow
    <3> QED BY <1>2, <3>2
  <2> QED BY <2>1
<1>4. /\ Cardinality(DOMAIN c.flows) <= m /\ Cardinality(DOMAIN c.flows) \in Nat
      /\ \A g \in DOMAIN c.flows : c.flows[g].packets = Cardinality(Flow(g, i - 1)) /\ Flow(g, i - 1) /= {}
      /\ Cardinality(DOMAIN c.flows) < m => PW!Whole(packets, i - 1, c)
  <2> HIDE DEF d, f, e, full, p
  <2>1. Cardinality(DOMAIN c.flows) \in Nat
    BY FS_CardinalityType
  <2> QED BY <2>1, KeptIs
<1>5. /\ full => d.flows = c.flows
      /\ ~full =>
        /\ f = <<>> => d.flows = c.flows
        /\ f /= <<>> =>
            /\ DOMAIN d.flows = DOMAIN c.flows \union {f}
            /\ d.flows[f].packets = IF f \in DOMAIN c.flows THEN c.flows[f].packets + 1 ELSE 1
            /\ \A g \in DOMAIN c.flows : g /= f => d.flows[g] = c.flows[g]
        /\ ~PW!IsReset(p) => d.resets = c.resets
        /\ PW!IsReset(p) => DOMAIN d.resets = DOMAIN c.resets \union {PW!Way(p)}
        /\ ~PW!IsIcmp(p) => d.icmp = c.icmp
        /\ PW!IsIcmp(p) =>
            /\ DOMAIN d.icmp = DOMAIN c.icmp \union {PW!IcmpKey(e)}
            /\ d.icmp[PW!IcmpKey(e)] = e
            /\ \A k \in DOMAIN c.icmp : k /= PW!IcmpKey(e) => d.icmp[k] = c.icmp[k]
        /\ p.payload = 0 => d.payload = c.payload
        /\ p.payload /= 0 => /\ d.payload.packets = c.payload.packets + 1
                             /\ d.payload.bytes = c.payload.bytes + p.payload
  BY PacketIs
<1>6. f = <<>> <=> ~PW!HasAddress(p)
  BY EndpointsAre
<1>7. full <=> f /= <<>> /\ f \notin DOMAIN c.flows /\ Cardinality(DOMAIN c.flows) >= m
  <2>1. full <=> PW!HasAddress(p) /\ f \notin DOMAIN c.flows /\ Cardinality(DOMAIN c.flows) >= m
    BY PcapCount DEF PW!NoPlace
  <2> HIDE DEF d, f, e, full, p
  <2> QED BY <1>6, <2>1
<1>8. PW!Kept(packets, i, m, d) <=>
        /\ Cardinality(DOMAIN d.flows) <= m
        /\ \A g \in DOMAIN d.flows : d.flows[g].packets = Cardinality(Flow(g, i)) /\ Flow(g, i) /= {}
        /\ Cardinality(DOMAIN d.flows) < m => PW!Whole(packets, i, d)
  <2> HIDE DEF d, f, e, full, p
  <2> QED BY KeptIs
<1> HIDE DEF d, f, e, full, p, Flow
<1>9. IsFiniteSet(DOMAIN d.flows) /\ <<>> \notin DOMAIN d.flows
  <2>1. DOMAIN d.flows = DOMAIN c.flows \/ (f /= <<>> /\ DOMAIN d.flows = DOMAIN c.flows \union {f})
    BY <1>5
  <2>2. IsFiniteSet(DOMAIN c.flows \union {f})
    BY FS_AddElement
  <2> QED BY <2>1, <2>2
<1>10. Cardinality(DOMAIN d.flows) <= m /\ Cardinality(DOMAIN c.flows) <= Cardinality(DOMAIN d.flows)
  <2>1. CASE DOMAIN d.flows = DOMAIN c.flows
    BY <1>4, <2>1
  <2>2. CASE DOMAIN d.flows /= DOMAIN c.flows
    <3>1. ~full /\ f /= <<>> /\ DOMAIN d.flows = DOMAIN c.flows \union {f} /\ f \notin DOMAIN c.flows
      BY <1>5, <2>2
    <3>2. Cardinality(DOMAIN d.flows) = Cardinality(DOMAIN c.flows) + 1
      BY <3>1, OneMore
    <3>3. Cardinality(DOMAIN c.flows) < m
      BY <1>4, <1>7, <3>1
    <3> QED BY <1>4, <3>2, <3>3
  <2> QED BY <2>1, <2>2
<1>11. ASSUME NEW g \in DOMAIN d.flows
       PROVE  d.flows[g].packets = Cardinality(Flow(g, i)) /\ Flow(g, i) /= {}
  <2>1. CASE g /= f
    <3>1. g \in DOMAIN c.flows /\ d.flows[g] = c.flows[g]
      BY <1>5, <1>11, <2>1
    <3> QED BY <1>2, <1>3, <1>4, <2>1, <3>1
  <2>2. CASE g = f
    <3>1. ~full /\ f /= <<>>
      <4>1. f /= <<>>
        BY <1>9, <1>11, <2>2
      <4> QED BY <1>5, <1>7, <1>11, <2>2, <4>1
    <3>2. d.flows[f].packets = IF f \in DOMAIN c.flows THEN c.flows[f].packets + 1 ELSE 1
      BY <1>5, <3>1
    <3>3. Flow(f, i) /= {} /\ Cardinality(Flow(f, i)) = Cardinality(Flow(f, i - 1)) + 1
      BY <1>2, <1>3
    <3>4. CASE f \in DOMAIN c.flows
      <4>1. c.flows[f].packets = Cardinality(Flow(f, i - 1))
        BY <1>4, <3>4
      <4> QED BY <2>2, <3>2, <3>3, <3>4, <4>1
    <3>5. CASE f \notin DOMAIN c.flows
      <4>1. Cardinality(DOMAIN c.flows) < m
        BY <1>4, <1>7, <3>1, <3>5
      <4>2. DOMAIN c.flows = {PW!endpoints(packets[j]) : j \in {j \in 1..(i - 1) : PW!HasAddress(packets[j])}}
        BY <1>4, <4>1 DEF PW!Whole
      <4>3. Flow(f, i - 1) = {}
        <5>1. ASSUME NEW j \in 1..(i - 1), PW!endpoints(packets[j]) = f PROVE FALSE
          <6>1. PW!HasAddress(packets[j])
            BY <3>1, <5>1, EndpointsAre
          <6> QED BY <3>5, <4>2, <5>1, <6>1
        <5> QED BY <5>1 DEF Flow
      <4>4. Cardinality(Flow(f, i - 1)) = 0
        BY <4>3, FS_EmptySet
      <4> QED BY <2>2, <3>2, <3>3, <3>5, <4>4
    <3> QED BY <3>4, <3>5
  <2> QED BY <2>1, <2>2
<1>12. ASSUME Cardinality(DOMAIN d.flows) < m PROVE PW!Whole(packets, i, d)
  <2>1. Cardinality(DOMAIN c.flows) < m
    <3>1. Cardinality(DOMAIN d.flows) \in Nat
      BY <1>9, FS_CardinalityType
    <3> QED BY <1>4, <1>10, <1>12, <3>1
  <2>2. ~full
    BY <1>4, <1>7, <2>1
  <2> DEFINE Icmps(n) == {j \in 1..n : PW!IsIcmp(packets[j])}
             Key(j) == PW!IcmpKey(PW!icmpEvent(packets[j]))
             Paying(n) == {j \in 1..n : packets[j].payload > 0}
             Addressed(n) == {j \in 1..n : PW!HasAddress(packets[j])}
             Resets(n) == {j \in 1..n : PW!IsReset(packets[j])}
  <2>3. /\ DOMAIN c.flows = {PW!endpoints(packets[j]) : j \in Addressed(i - 1)}
        /\ DOMAIN c.resets = {PW!Way(packets[j]) : j \in Resets(i - 1)}
        /\ c.payload.packets = Cardinality(Paying(i - 1))
        /\ c.payload.bytes = PW!Paid(packets)[i - 1]
        /\ \A j \in Icmps(i - 1) :
            /\ Key(j) \in DOMAIN c.icmp
            /\ \E l \in Icmps(i - 1) : c.icmp[Key(j)] = PW!icmpEvent(packets[l]) /\ PW!IcmpKey(c.icmp[Key(j)]) = Key(j)
    BY <1>4, <2>1, WholeIs
  <2>4. DOMAIN d.flows = {PW!endpoints(packets[j]) : j \in Addressed(i)}
    <3>1. CASE f = <<>>
      <4>1. Addressed(i) = Addressed(i - 1) /\ d.flows = c.flows
        BY <1>1, <1>5, <1>6, <2>2, <3>1 DEF p
      <4> HIDE DEF Addressed
      <4> QED BY <2>3, <4>1
    <3>2. CASE f /= <<>>
      <4>1. Addressed(i) = Addressed(i - 1) \union {i} /\ DOMAIN d.flows = DOMAIN c.flows \union {f}
        BY <1>1, <1>5, <1>6, <2>2, <3>2 DEF p
      <4> HIDE DEF Addressed
      <4> QED BY <2>3, <4>1 DEF f, p
    <3> QED BY <3>1, <3>2
  <2>5. DOMAIN d.resets = {PW!Way(packets[j]) : j \in Resets(i)}
    <3>1. CASE ~PW!IsReset(p)
      <4>1. Resets(i) = Resets(i - 1) /\ d.resets = c.resets
        BY <1>1, <1>5, <2>2, <3>1 DEF p
      <4> HIDE DEF Resets
      <4> QED BY <2>3, <4>1
    <3>2. CASE PW!IsReset(p)
      <4>1. Resets(i) = Resets(i - 1) \union {i} /\ DOMAIN d.resets = DOMAIN c.resets \union {PW!Way(p)}
        BY <1>1, <1>5, <2>2, <3>2 DEF p
      <4> HIDE DEF Resets
      <4> QED BY <2>3, <4>1 DEF p
    <3> QED BY <3>1, <3>2
  <2>6. d.payload.packets = Cardinality(Paying(i)) /\ d.payload.bytes = PW!Paid(packets)[i]
    <3>1. IsFiniteSet(Paying(i - 1)) /\ i \notin Paying(i - 1) /\ p.payload \in Nat
      <4>1. Paying(i - 1) \subseteq 1..(i - 1)
        OBVIOUS
      <4> QED BY <1>1, <4>1, FS_Subset DEF p
    <3>2. CASE p.payload = 0
      <4>1. Paying(i) = Paying(i - 1)
        BY <1>1, <3>2 DEF p
      <4> HIDE DEF Paying
      <4>2. d.payload = c.payload /\ PW!Paid(packets)[i] = PW!Paid(packets)[i - 1]
        BY <1>5, <2>2, <3>2 DEF p
      <4> QED BY <2>3, <4>1, <4>2
    <3>3. CASE p.payload /= 0
      <4>1. Paying(i) = Paying(i - 1) \union {i}
        BY <1>1, <3>1, <3>3 DEF p
      <4> HIDE DEF Paying
      <4>2. d.payload.packets = c.payload.packets + 1 /\ d.payload.bytes = c.payload.bytes + p.payload
        BY <1>5, <2>2, <3>3
      <4>3. Cardinality(Paying(i)) = Cardinality(Paying(i - 1)) + 1
        BY <3>1, <4>1, OneMore
      <4> QED BY <2>3, <4>2, <4>3 DEF p
    <3> QED BY <3>2, <3>3
  <2>7. ASSUME NEW j \in Icmps(i)
        PROVE  /\ Key(j) \in DOMAIN d.icmp
               /\ \E l \in Icmps(i) : d.icmp[Key(j)] = PW!icmpEvent(packets[l]) /\ PW!IcmpKey(d.icmp[Key(j)]) = Key(j)
    <3>1. CASE ~PW!IsIcmp(p)
      <4>1. Icmps(i) = Icmps(i - 1) /\ d.icmp = c.icmp
        BY <1>1, <1>5, <2>2, <3>1 DEF p
      <4> HIDE DEF Icmps, Key
      <4> QED BY <2>3, <2>7, <4>1
    <3>2. CASE PW!IsIcmp(p)
      <4>1. Icmps(i) = Icmps(i - 1) \union {i}
        BY <1>1, <3>2 DEF p
      <4>2. /\ DOMAIN d.icmp = DOMAIN c.icmp \union {Key(i)}
            /\ d.icmp[Key(i)] = PW!icmpEvent(packets[i])
            /\ \A k \in DOMAIN c.icmp : k /= Key(i) => d.icmp[k] = c.icmp[k]
        BY <1>5, <2>2, <3>2 DEF p, e
      <4>3. PW!IcmpKey(PW!icmpEvent(packets[i])) = Key(i)
        OBVIOUS
      <4> HIDE DEF Icmps, Key
      <4>4. CASE Key(j) = Key(i)
        <5>1. d.icmp[Key(j)] = PW!icmpEvent(packets[i])
          BY <4>2, <4>4
        <5> QED BY <4>1, <4>2, <4>3, <4>4, <5>1
      <4>5. CASE Key(j) /= Key(i)
        <5>1. j \in Icmps(i - 1)
          BY <2>7, <4>1, <4>5
        <5>2. Key(j) \in DOMAIN c.icmp /\ d.icmp[Key(j)] = c.icmp[Key(j)]
          BY <2>3, <4>2, <4>5, <5>1
        <5> QED BY <2>3, <4>1, <4>2, <5>1, <5>2
      <4> QED BY <4>4, <4>5
    <3> QED BY <3>1, <3>2
  <2> QED BY <2>4, <2>5, <2>6, <2>7, WholeIs
<1> QED BY <1>8, <1>9, <1>10, <1>11, <1>12 DEF d, p

\* The bytes of payload grow by those of each packet.
LEMMA PaidIs ==
    ASSUME NEW packets, Len(packets) \in Nat, \A i \in 1..Len(packets) : packets[i].payload \in Nat
    PROVE  /\ PW!Paid(packets)[0] = 0
           /\ \A i \in 1..Len(packets) :
                PW!Paid(packets)[i - 1] \in Nat /\ PW!Paid(packets)[i] = PW!Paid(packets)[i - 1] + packets[i].payload
<1> DEFINE n == Len(packets)
           step == [i \in 1..n |-> [x \in Nat |-> x + packets[i].payload]]
<1>1. step \in [1..n -> [Nat -> Nat]]
  OBVIOUS
<1>2. PICK w : w \in Values(n, Nat, 0, step)
  <2> HIDE DEF step
  <2> QED BY <1>1, Loop
<1>3. w \in [0..n -> Nat] /\ w[0] = 0 /\ \A i \in 1..n : w[i] = step[i][w[i - 1]]
  <2> HIDE DEF step
  <2> QED BY <1>2 DEF Values
<1>4. \A i \in 1..n : w[i - 1] \in Nat /\ w[i] = w[i - 1] + packets[i].payload
  <2> SUFFICES ASSUME NEW i \in 1..n PROVE w[i - 1] \in Nat /\ w[i] = w[i - 1] + packets[i].payload
    OBVIOUS
  <2>1. i - 1 \in 0..n
    OBVIOUS
  <2>2. w[i - 1] \in Nat /\ w[i] = step[i][w[i - 1]]
    BY <1>3, <2>1
  <2> QED BY <2>2
<1>5. w = [i \in 0..n |-> IF i = 0 THEN 0 ELSE w[i - 1] + packets[i].payload]
  <2>1. \A i \in 0..n : w[i] = IF i = 0 THEN 0 ELSE w[i - 1] + packets[i].payload
    <3>1. \A i \in 0..n : i = 0 \/ i \in 1..n
      OBVIOUS
    <3> QED BY <1>3, <1>4, <3>1
  <2> HIDE DEF step, n
  <2> QED BY <1>3, <2>1
<1> DEFINE Solves(v) == v = [i \in 0..n |-> IF i = 0 THEN 0 ELSE v[i - 1] + packets[i].payload]
           paid == CHOOSE v : Solves(v)
<1>6. Solves(paid)
  <2>1. Solves(w)
    BY <1>5
  <2> QED BY <2>1
<1>7. PW!Paid(packets) = paid
  BY DEF PW!Paid
<1>8. \A i \in 0..n : paid[i] = IF i = 0 THEN 0 ELSE paid[i - 1] + packets[i].payload
  <2> HIDE DEF paid, n
  <2> QED BY <1>6
<1> HIDE DEF paid
<1> DEFINE T == {i \in 0..n : paid[i] \in Nat}
<1>9. 0..n \subseteq T
  <2>1. 0 \in T
    BY <1>8
  <2>2. ASSUME NEW i \in 1..n, i - 1 \in T PROVE i \in T
    <3>1. paid[i - 1] \in Nat /\ i \in 0..n /\ i /= 0
      BY <2>2
    <3>2. paid[i] = paid[i - 1] + packets[i].payload
      BY <1>8, <3>1
    <3> QED BY <3>1, <3>2
  <2> HIDE DEF T
  <2> QED BY <2>1, <2>2, Steps
<1>10. \A i \in 1..n : i - 1 \in 0..n /\ i \in 0..n /\ i /= 0
  OBVIOUS
<1>11. \A i \in 1..n : paid[i - 1] \in Nat /\ paid[i] = paid[i - 1] + packets[i].payload
  BY <1>8, <1>9, <1>10
<1>12. paid[0] = 0
  BY <1>8
<1> QED BY <1>7, <1>11, <1>12

\* analyzeFile reads one packet after another.
LEMMA AnalyzeSteps ==
    ASSUME NEW capture, NEW options, PW!Size(capture, options.maxPackets) \in Nat
    PROVE  LET n == PW!Size(capture, options.maxPackets) IN
           \E a : /\ a[0] = PW!Nothing(capture.path)
                  /\ \A i \in 1..n : a[i] = PW!Packet(a[i - 1], capture.packets[i], options.maxFlows)
                  /\ PW!analyzeFile(capture, options) = [a[n] EXCEPT !.truncated = a[n].packets = options.maxPackets]
<1> DEFINE n == PW!Size(capture, options.maxPackets)
           base == PW!Nothing(capture.path)
           Step(i, c) == PW!Packet(c, capture.packets[i], options.maxFlows)
           Solves(f, k) == f = [i \in 0..k |-> IF i = 0 THEN base ELSE Step(i, f[i - 1])]
           T == {k \in 0..n : \E f : Solves(f, k)}
<1> HIDE DEF n, base, Step
<1>1. n \in Nat
  BY DEF n
<1>2. 0 \in T
  <2>1. Solves([i \in 0..0 |-> base], 0)
    OBVIOUS
  <2> HIDE DEF Solves
  <2> QED BY <1>1, <2>1
<1>3. ASSUME NEW k \in 1..n, k - 1 \in T PROVE k \in T
  <2>1. PICK g : Solves(g, k - 1)
    BY <1>3
  <2> DEFINE f == [i \in 0..k |-> IF i = k THEN Step(k, g[k - 1]) ELSE g[i]]
  <2>2. k - 1 \in 0..(k - 1) /\ k \in 0..n /\ k /= 0 /\ \A i \in 0..k : i = k \/ i \in 0..(k - 1)
    BY <1>1
  <2>3. \A i \in 0..(k - 1) : i /= k /\ i \in 0..k
    BY <1>1
  <2>4. \A i \in 0..(k - 1) : g[i] = IF i = 0 THEN base ELSE Step(i, g[i - 1])
    BY <2>1
  <2>5. f[k] = Step(k, g[k - 1]) /\ \A i \in 0..(k - 1) : f[i] = g[i]
    BY <2>2, <2>3
  <2>6. ASSUME NEW i \in 0..k PROVE f[i] = IF i = 0 THEN base ELSE Step(i, f[i - 1])
    <3> HIDE DEF f
    <3>1. CASE i = k
      BY <2>2, <2>5, <3>1
    <3>2. CASE i /= k
      <4>1. i \in 0..(k - 1) /\ (i /= 0 => i - 1 \in 0..(k - 1))
        BY <1>1, <3>2
      <4> QED BY <2>4, <2>5, <4>1
    <3> QED BY <3>1, <3>2
  <2>7. Solves(f, k)
    <3>1. f = [i \in 0..k |-> f[i]]
      OBVIOUS
    <3> HIDE DEF f
    <3> QED BY <2>6, <3>1
  <2> HIDE DEF f, Solves
  <2> QED BY <2>2, <2>7
<1>4. n \in T
  <2> HIDE DEF T
  <2>1. 0..n \subseteq T
    BY <1>1, <1>2, <1>3, Steps
  <2> QED BY <1>1, <2>1
<1> DEFINE after == CHOOSE f : Solves(f, n)
<1>5. Solves(after, n)
  <2>1. \E f : Solves(f, n)
    BY <1>4
  <2> HIDE DEF Solves
  <2> QED BY <2>1
<1>6. PW!analyzeFile(capture, options) = [after[n] EXCEPT !.truncated = after[n].packets = options.maxPackets]
  BY DEF PW!analyzeFile, n, base, Step
<1> HIDE DEF after
<1>7. \A i \in 0..n : after[i] = IF i = 0 THEN base ELSE Step(i, after[i - 1])
  BY <1>5
<1>8. after[0] = base /\ \A i \in 1..n : after[i] = Step(i, after[i - 1])
  <2>1. 0 \in 0..n /\ \A i \in 1..n : i \in 0..n /\ i /= 0
    BY <1>1
  <2> QED BY <1>7, <2>1
<1> QED BY <1>6, <1>8 DEF n, base, Step

\* What analyzeFile keeps of a capture.
LEMMA AnalyzeKeeps ==
    ASSUME NEW capture, NEW options, options.maxFlows \in Nat \ {0}, options.maxPackets \in Nat,
           Len(capture.packets) \in Nat,
           \A i \in 1..Len(capture.packets) : capture.packets[i].payload \in Nat
    PROVE  LET n == PW!Size(capture, options.maxPackets)
               c == PW!analyzeFile(capture, options)
           IN
           /\ PW!Kept(capture.packets, n, options.maxFlows, c) /\ c.path = capture.path /\ c.packets = n
           /\ c.truncated <=> n = options.maxPackets
<1> DEFINE packets == capture.packets
           n == PW!Size(capture, options.maxPackets)
           m == options.maxFlows
           c == PW!analyzeFile(capture, options)
<1>1. n \in Nat /\ n <= Len(packets)
  BY DEF PW!Size, PW!Reached
<1>2. PICK a : /\ a[0] = PW!Nothing(capture.path)
               /\ \A i \in 1..n : a[i] = PW!Packet(a[i - 1], packets[i], m)
               /\ c = [a[n] EXCEPT !.truncated = a[n].packets = options.maxPackets]
  BY <1>1, AnalyzeSteps
<1> HIDE DEF n, c
<1> DEFINE Upheld(i) == /\ Shaped(a[i]) /\ a[i].path = capture.path /\ a[i].packets = i
                        /\ PW!Kept(packets, i, m, a[i]) /\ IsFiniteSet(DOMAIN a[i].flows) /\ <<>> \notin DOMAIN a[i].flows
           T == {i \in 0..n : Upheld(i)}
<1>3. 0 \in T
  <2>1. /\ Shaped(a[0]) /\ a[0].path = capture.path /\ a[0].packets = 0 /\ DOMAIN a[0].flows = {} /\ DOMAIN a[0].resets = {}
        /\ DOMAIN a[0].icmp = {} /\ a[0].payload.packets = 0 /\ a[0].payload.bytes = 0
    BY <1>2, NothingIs
  <2>2. IsFiniteSet({}) /\ Cardinality({}) = 0
    BY FS_EmptySet
  <2>3. PW!Paid(packets)[0] = 0
    BY PaidIs
  <2>4. PW!Whole(packets, 0, a[0])
    <3>1. 1..0 = {}
      OBVIOUS
    <3> QED BY <2>1, <2>2, <2>3, <3>1, WholeIs
  <2>5. PW!Kept(packets, 0, m, a[0])
    <3>1. m \in Nat /\ Cardinality(DOMAIN a[0].flows) <= m
      <4>1. Cardinality(DOMAIN a[0].flows) = 0
        BY <2>1, <2>2
      <4> QED BY <4>1
    <3>2. \A f : f \notin DOMAIN a[0].flows
      BY <2>1
    <3> HIDE DEF packets, m
    <3> QED BY <2>4, <3>1, <3>2, KeptIs
  <2>6. IsFiniteSet(DOMAIN a[0].flows) /\ <<>> \notin DOMAIN a[0].flows
    BY <2>1, <2>2
  <2> HIDE DEF packets, m
  <2>7. Upheld(0)
    BY <2>1, <2>5, <2>6, Zenon
  <2>8. 0 \in 0..n
    BY <1>1
  <2> HIDE DEF Upheld
  <2> QED BY <2>7, <2>8
<1>4. ASSUME NEW i \in 1..n, i - 1 \in T PROVE i \in T
  <2>1. Upheld(i - 1)
    BY <1>4
  <2>2. i \in Nat \ {0} /\ i \in 1..Len(packets) /\ i \in 0..n
    BY <1>1
  <2>3. a[i] = PW!Packet(a[i - 1], packets[i], m)
    BY <1>2
  <2>4. packets[i].payload \in Nat
        /\ PW!Paid(packets)[i - 1] \in Nat /\ PW!Paid(packets)[i] = PW!Paid(packets)[i - 1] + packets[i].payload
    BY <2>2, PaidIs
  <2> HIDE DEF packets, m
  <2>5. m \in Nat /\ m > 0
    BY DEF m
  <2>6. LET d == PW!Packet(a[i - 1], packets[i], m) IN
        /\ PW!Kept(packets, i, m, d) /\ IsFiniteSet(DOMAIN d.flows) /\ <<>> \notin DOMAIN d.flows
    BY <2>1, <2>2, <2>4, <2>5, KeptGrows
  <2>7. Shaped(a[i]) /\ a[i].path = a[i - 1].path /\ a[i].packets = a[i - 1].packets + 1
    BY <2>1, <2>3, PacketIs
  <2>8. a[i].path = capture.path /\ a[i].packets = i
    BY <2>1, <2>2, <2>7
  <2> QED BY <2>2, <2>3, <2>6, <2>7, <2>8
<1>5. Upheld(n)
  <2>1. 0..n \subseteq T
    <3> HIDE DEF T
    <3> QED BY <1>1, <1>3, <1>4, Steps
  <2>2. n \in 0..n
    BY <1>1
  <2> QED BY <2>1, <2>2
<1>6. /\ c.path = a[n].path /\ c.packets = a[n].packets /\ c.flows = a[n].flows /\ c.resets = a[n].resets
      /\ c.icmp = a[n].icmp /\ c.payload = a[n].payload
      /\ c.truncated <=> n = options.maxPackets
  BY <1>2, <1>5 DEF Shaped
<1>7. PW!Kept(packets, n, m, c)
  <2> HIDE DEF packets, m
  <2>1. PW!Whole(packets, n, c) <=> PW!Whole(packets, n, a[n])
    BY <1>6, WholeIs
  <2> QED BY <1>5, <1>6, <2>1, KeptIs
<1> QED BY <1>5, <1>6, <1>7 DEF n, c

\* pcapwhy: what a report keeps, and of what it is complete.
LEMMA PcapIsRight ==
    ASSUME NEW in, PW!IsCaptures(in)
    PROVE  PW!CompleteMeansAll(in, PW!Analyze(in))
<1> DEFINE captures == in.captures
           options == in.options
           report == [i \in DOMAIN captures |-> PW!analyzeFile(captures[i], options)]
           out == PW!Analyze(in)
<1>1. /\ Len(captures) \in Nat /\ DOMAIN captures = 1..Len(captures)
      /\ options.maxPackets \in Int /\ options.maxFlows \in Int
      /\ \A i \in DOMAIN captures : /\ Len(captures[i].packets) \in Nat
                                    /\ \A j \in 1..Len(captures[i].packets) : captures[i].packets[j].payload \in Nat
                                    /\ captures[i].error \in BOOLEAN
  <2>1. /\ captures \in Seq({captures[i] : i \in DOMAIN captures})
        /\ options.maxPackets \in Int /\ options.maxFlows \in Int
        /\ \A i \in DOMAIN captures :
            /\ captures[i].packets \in Seq({captures[i].packets[j] : j \in DOMAIN captures[i].packets})
            /\ \A j \in DOMAIN captures[i].packets : captures[i].packets[j].payload \in Nat
            /\ captures[i].error \in BOOLEAN
    BY DEF PW!IsCaptures
  <2> HIDE DEF captures, options
  <2>2. Len(captures) \in Nat /\ DOMAIN captures = 1..Len(captures)
    BY <2>1
  <2>3. ASSUME NEW i \in DOMAIN captures
        PROVE  Len(captures[i].packets) \in Nat /\ DOMAIN captures[i].packets = 1..Len(captures[i].packets)
    BY <2>1
  <2> QED BY <2>1, <2>2, <2>3
<1>2. SUFFICES ASSUME out.exit \notin {2, 4}
               PROVE  /\ \A i \in DOMAIN captures :
                        /\ out.exit = 0 => ~captures[i].error /\ out.captures[i].packets = Len(captures[i].packets)
                        /\ PW!Kept(captures[i].packets, PW!Size(captures[i], options.maxPackets), options.maxFlows, out.captures[i])
                      /\ \A f \in DOMAIN out.comparisons : \A i \in DOMAIN captures :
                        captures[i].path \in out.comparisons[f] <=>
                            \E j \in DOMAIN captures : captures[j].path = captures[i].path /\ f \in DOMAIN out.captures[j].flows
  BY DEF PW!CompleteMeansAll
<1>3. /\ options.maxPackets \in Nat \ {0} /\ options.maxFlows \in Nat \ {0}
      /\ \A i \in DOMAIN captures : ~PW!Fails(captures[i], options)
      /\ out.exit = IF \E i \in DOMAIN report : report[i].truncated THEN 3 ELSE 0
      /\ out.captures = report
      /\ out.comparisons = IF Len(report) > 1 THEN PW!compare(report) ELSE <<>>
  <2>1. ~(captures = <<>> \/ PW!Beyond(options))
    BY <1>2 DEF PW!Analyze
  <2>2. \A i \in DOMAIN captures : ~PW!Fails(captures[i], options)
    BY <1>2, <2>1 DEF PW!Analyze
  <2>3. out = [exit |-> IF \E i \in DOMAIN report : report[i].truncated THEN 3 ELSE 0, captures |-> report,
               comparisons |-> IF Len(report) > 1 THEN PW!compare(report) ELSE <<>>]
    BY <2>1, <2>2 DEF PW!Analyze
  <2> HIDE DEF out, report, options
  <2>4. options.maxPackets \in Nat \ {0} /\ options.maxFlows \in Nat \ {0}
    BY <1>1, <2>1 DEF PW!Beyond
  <2> QED BY <2>2, <2>3, <2>4
<1>4. DOMAIN report = DOMAIN captures /\ \A i \in DOMAIN captures : report[i] = PW!analyzeFile(captures[i], options)
  OBVIOUS
<1> HIDE DEF out, report
<1>5. ASSUME NEW i \in DOMAIN captures
      PROVE  LET n == PW!Size(captures[i], options.maxPackets) IN
             /\ PW!Kept(captures[i].packets, n, options.maxFlows, report[i]) /\ report[i].path = captures[i].path
             /\ report[i].packets = n /\ (report[i].truncated <=> n = options.maxPackets)
  <2> DEFINE capture == captures[i]
  <2>1. /\ options.maxFlows \in Nat \ {0} /\ options.maxPackets \in Nat /\ Len(capture.packets) \in Nat
        /\ \A j \in 1..Len(capture.packets) : capture.packets[j].payload \in Nat
    BY <1>1, <1>3
  <2>2. report[i] = PW!analyzeFile(capture, options)
    BY <1>4
  <2> HIDE DEF capture, options
  <2>3. LET n == PW!Size(capture, options.maxPackets)
            c == PW!analyzeFile(capture, options)
        IN
        /\ PW!Kept(capture.packets, n, options.maxFlows, c) /\ c.path = capture.path /\ c.packets = n
        /\ c.truncated <=> n = options.maxPackets
    BY <2>1, AnalyzeKeeps
  <2> QED BY <2>2, <2>3 DEF capture
<1>6. ASSUME NEW i \in DOMAIN captures, out.exit = 0
      PROVE  ~captures[i].error /\ report[i].packets = Len(captures[i].packets)
  <2>1. ~report[i].truncated
    BY <1>3, <1>4, <1>6
  <2>2. ~PW!Reached(captures[i], options.maxPackets)
    BY <1>5, <2>1 DEF PW!Size
  <2> QED BY <1>1, <1>3, <1>5, <2>2 DEF PW!Size, PW!Fails
<1>7. ASSUME NEW f \in DOMAIN out.comparisons, NEW i \in DOMAIN captures
      PROVE  captures[i].path \in out.comparisons[f] <=>
                \E j \in DOMAIN captures : captures[j].path = captures[i].path /\ f \in DOMAIN out.captures[j].flows
  <2>1. out.comparisons = PW!compare(report)
    BY <1>3, <1>7
  <2>2. out.comparisons[f] = {report[j].path : j \in {j \in DOMAIN report : f \in DOMAIN report[j].flows}}
    BY <1>7, <2>1 DEF PW!compare
  <2>3. out.comparisons[f] = {captures[j].path : j \in {j \in DOMAIN captures : f \in DOMAIN report[j].flows}}
    BY <1>4, <1>5, <2>2
  <2> QED BY <1>3, <2>3
<1> QED BY <1>3, <1>5, <1>6, <1>7

LEMMA EventCount ==
    ASSUME NEW S
    PROVE  BR!Cardinality(S) = Cardinality(S)
  BY Zenon DEF BR!Cardinality, Cardinality, BR!IsFiniteSet, IsFiniteSet

\* selinuxwhy: the denials are all there are, up to as many as it keeps.
LEMMA DenialsAre ==
    ASSUME NEW log, NEW max \in Nat, Len(log) \in Nat
    PROVE  LET kept == BR!Denials(log, max)
               there == Cardinality({i \in 1..Len(log) : log[i] = "denied"})
           IN  kept \in Nat /\ there \in Nat /\ kept <= there /\ (kept < max => kept = there)
<1> DEFINE n == Len(log)
           Next(i, x) == IF x < max /\ log[i] = "denied" THEN x + 1 ELSE x
           step == [i \in 1..n |-> [x \in Nat |-> Next(i, x)]]
<1>1. step \in [1..n -> [Nat -> Nat]]
  OBVIOUS
<1>2. PICK w : w \in Values(n, Nat, 0, step)
  <2> HIDE DEF step
  <2> QED BY <1>1, Loop
<1>3. w \in [0..n -> Nat] /\ w[0] = 0 /\ \A i \in 1..n : w[i] = step[i][w[i - 1]]
  <2> HIDE DEF step
  <2> QED BY <1>2 DEF Values
<1>4. \A i \in 1..n : w[i - 1] \in Nat /\ w[i] = Next(i, w[i - 1])
  <2> SUFFICES ASSUME NEW i \in 1..n PROVE w[i - 1] \in Nat /\ w[i] = Next(i, w[i - 1])
    OBVIOUS
  <2>1. i - 1 \in 0..n
    OBVIOUS
  <2>2. w[i - 1] \in Nat /\ w[i] = step[i][w[i - 1]]
    BY <1>3, <2>1
  <2> HIDE DEF Next
  <2> QED BY <2>2
<1> DEFINE Solves(v) == v = [i \in 0..n |-> IF i = 0 THEN 0
                                ELSE IF v[i - 1] < max /\ log[i] = "denied" THEN v[i - 1] + 1 ELSE v[i - 1]]
           count == CHOOSE v : Solves(v)
<1>5. Solves(w)
  <2>1. \A i \in 0..n : w[i] = IF i = 0 THEN 0 ELSE Next(i, w[i - 1])
    <3>1. \A i \in 0..n : i = 0 \/ i \in 1..n
      OBVIOUS
    <3> HIDE DEF Next
    <3> QED BY <1>3, <1>4, <3>1
  <2> HIDE DEF step, n
  <2> QED BY <1>3, <2>1
<1>6. Solves(count)
  BY <1>5
<1>7. BR!Denials(log, max) = count[n]
  BY DEF BR!Denials
<1>8. \A i \in 0..n : count[i] = IF i = 0 THEN 0 ELSE Next(i, count[i - 1])
  <2> HIDE DEF count, n
  <2> QED BY <1>6
<1> HIDE DEF count
<1> DEFINE There(i) == {j \in 1..i : log[j] = "denied"}
           Upheld(i) == /\ count[i] \in Nat /\ count[i] <= Cardinality(There(i))
                        /\ count[i] < max => count[i] = Cardinality(There(i))
           T == {i \in 0..n : Upheld(i)}
<1>9. \A i \in 0..n : IsFiniteSet(There(i)) /\ Cardinality(There(i)) \in Nat
  <2> SUFFICES ASSUME NEW i \in 0..n PROVE IsFiniteSet(There(i))
    BY FS_CardinalityType
  <2>1. There(i) \subseteq 1..i /\ i \in Nat
    OBVIOUS
  <2>2. IsFiniteSet(1..i)
    BY <2>1, FS_Interval
  <2> HIDE DEF There
  <2> QED BY <2>1, <2>2, FS_Subset
<1>10. 0 \in T
  <2>1. There(0) = {} /\ count[0] = 0 /\ 0 \in 0..n
    BY <1>8
  <2>2. Cardinality(There(0)) = 0
    BY <2>1, FS_EmptySet
  <2> HIDE DEF There
  <2> QED BY <2>1, <2>2
<1>11. ASSUME NEW i \in 1..n, i - 1 \in T PROVE i \in T
  <2>1. Upheld(i - 1) /\ i \in 0..n /\ i - 1 \in 0..n /\ i /= 0
    BY <1>11
  <2>2. 1..i = 1..(i - 1) \union {i} /\ i \notin 1..(i - 1)
    OBVIOUS
  <2>3. count[i] = Next(i, count[i - 1])
    BY <1>8, <2>1
  <2>4. CASE log[i] = "denied"
    <3>1. There(i) = There(i - 1) \union {i} /\ i \notin There(i - 1)
      BY <2>2, <2>4
    <3> HIDE DEF There
    <3>2. Cardinality(There(i)) = Cardinality(There(i - 1)) + 1
      BY <1>9, <2>1, <3>1, OneMore
    <3> QED BY <1>9, <2>1, <2>3, <2>4, <3>2
  <2>5. CASE log[i] /= "denied"
    <3>1. There(i) = There(i - 1)
      BY <2>2, <2>5
    <3> HIDE DEF There
    <3> QED BY <2>1, <2>3, <2>5, <3>1
  <2> QED BY <2>4, <2>5
<1>12. n \in T
  <2>1. 0..n \subseteq T
    <3> HIDE DEF T
    <3> QED BY <1>10, <1>11, Steps
  <2> HIDE DEF T
  <2> QED BY <2>1
<1>13. Upheld(n) /\ Cardinality(There(n)) \in Nat
  BY <1>9, <1>12
<1> QED BY <1>7, <1>13

\* selinuxwhy: its status, and what it lists.
LEMMA DenialsAreRight ==
    ASSUME NEW in, BR!IsLog(in)
    PROVE  BR!DenialsAreTold(in, BR!Selinuxwhy(in))
<1> DEFINE kept == BR!Denials(in.log, in.max)
           there == Cardinality({i \in 1..Len(in.log) : in.log[i] = "denied"})
           out == BR!Selinuxwhy(in)
<1>1. /\ Len(in.log) \in Nat /\ DOMAIN in.log = 1..Len(in.log) /\ in.max \in Int
      /\ in.opens \in BOOLEAN /\ in.fails \in BOOLEAN
  BY DEF BR!IsLog
<1>2. BR!DenialsAreTold(in, out) <=>
        /\ out.exit /= 0
        /\ out.exit = 1 <=> out.denials > 0
        /\ out.exit \in {1, 3} /\ in.opens /\ out.denials < in.max => out.denials = there /\ ~in.fails
        /\ out.denials <= there
  BY <1>1, EventCount DEF BR!DenialsAreTold
<1>3. there \in Nat
  <2>1. {i \in 1..Len(in.log) : in.log[i] = "denied"} \subseteq 1..Len(in.log)
    OBVIOUS
  <2>2. IsFiniteSet(1..Len(in.log))
    BY <1>1, FS_Interval
  <2> QED BY <2>1, <2>2, FS_Subset, FS_CardinalityType
<1>4. CASE in.max < 1 \/ in.max > 1000
  <2>1. out.exit = 2 /\ out.denials = 0
    BY <1>4 DEF BR!Selinuxwhy
  <2> HIDE DEF out, there
  <2>2. BR!DenialsAreTold(in, out)
    BY <1>2, <1>3, <2>1
  <2> QED BY <2>2 DEF out
<1>5. CASE ~(in.max < 1 \/ in.max > 1000)
  <2>1. in.max \in Nat
    BY <1>1, <1>5
  <2>2. kept \in Nat /\ kept <= there /\ (kept < in.max => kept = there)
    BY <1>1, <2>1, DenialsAre
  <2>3. \/ ~in.opens /\ out.exit = 3 /\ out.denials = 0
        \/ in.opens /\ in.fails /\ kept < in.max /\ out.exit = 4 /\ out.denials = 0
        \/ in.opens /\ ~(in.fails /\ kept < in.max) /\ out.exit = (IF kept > 0 THEN 1 ELSE 3) /\ out.denials = kept
    <3> HIDE DEF kept, there
    <3> QED BY <1>5 DEF BR!Selinuxwhy, kept
  <2> HIDE DEF out, there, kept
  <2>4. BR!DenialsAreTold(in, out)
    BY <1>1, <1>2, <1>3, <2>1, <2>2, <2>3
  <2> QED BY <2>4 DEF out
<1> QED BY <1>4, <1>5

\* What is read of the lines of events has its fields.
Formed(r) ==
    /\ DOMAIN r = {"bytes", "lines", "events", "ignored", "groups", "diagnostics", "stopped"}
    /\ r.bytes \in Nat /\ r.lines \in Nat /\ r.stopped \in BOOLEAN

SameCounts(r, s) == s.events = r.events /\ s.ignored = r.ignored /\ s.groups = r.groups

\* eventwhy: what is told leaves the counts alone.
LEMMA ToldIs ==
    ASSUME NEW r, NEW what, Formed(r)
    PROVE  LET s == BR!Told(r, what) IN
           /\ Formed(s) /\ SameCounts(r, s) /\ s.diagnostics /= {} /\ s.stopped = r.stopped
<1> DEFINE s == BR!Told(r, what)
<1>1. /\ DOMAIN s = DOMAIN r /\ s.bytes = r.bytes /\ s.lines = r.lines /\ s.events = r.events /\ s.ignored = r.ignored
      /\ s.groups = r.groups /\ s.stopped = r.stopped /\ s.diagnostics = r.diagnostics \union {what}
  BY DEF BR!Told, Formed
<1> HIDE DEF s
<1>2. Formed(s) /\ SameCounts(r, s) /\ s.diagnostics /= {}
  BY <1>1 DEF Formed, SameCounts
<1> QED BY <1>1, <1>2 DEF s

LEMMA StoppedIs ==
    ASSUME NEW r, NEW what, Formed(r)
    PROVE  LET s == BR!Stopped(r, what) IN
           /\ Formed(s) /\ SameCounts(r, s) /\ s.diagnostics /= {} /\ s.stopped
<1> DEFINE s == BR!Stopped(r, what)
<1>1. /\ DOMAIN s = DOMAIN r /\ s.bytes = r.bytes /\ s.lines = r.lines /\ s.events = r.events /\ s.ignored = r.ignored
      /\ s.groups = r.groups /\ s.stopped = TRUE /\ s.diagnostics = r.diagnostics \union {what}
  BY DEF BR!Stopped, Formed
<1> HIDE DEF s
<1>2. Formed(s) /\ SameCounts(r, s) /\ s.diagnostics /= {} /\ s.stopped
  BY <1>1 DEF Formed, SameCounts
<1> QED BY <1>2 DEF s

Types == {"blank", "image", "container"} \union BR!Unusable

\* What an event does that is in the counts.
Tallied(r, s, event) ==
    /\ event.type \notin BR!Unusable
    /\ event.type = "blank" => SameCounts(r, s)
    /\ event.type = "image" => s.events = r.events /\ s.ignored = r.ignored + 1 /\ s.groups = r.groups
    /\ event.type = "container" => s.events = r.events + 1 /\ s.ignored = r.ignored
                                   /\ s.groups = BR!Groups(r.groups, event)

\* An event is told, or it is in the counts.
LEMMA EventIs ==
    ASSUME NEW r, NEW event, NEW max \in Nat, Formed(r), event.type \in Types \ {"blank"}, ~r.stopped
    PROVE  LET s == BR!Event(r, event, max) IN
           /\ Formed(s)
           /\ \/ s.diagnostics /= {} /\ SameCounts(r, s) /\ (s.stopped \/ event.type \in BR!Unusable)
              \/ Tallied(r, s, event) /\ ~s.stopped /\ s.diagnostics = r.diagnostics /\ s.bytes = r.bytes
<1> DEFINE s == BR!Event(r, event, max)
<1>1. CASE r.lines > max
  <2>1. s = BR!Stopped(r, "event_limit")
    BY <1>1 DEF BR!Event, Formed
  <2> HIDE DEF s
  <2>2. Formed(s) /\ SameCounts(r, s) /\ s.diagnostics /= {} /\ s.stopped
    BY <2>1, StoppedIs
  <2> QED BY <2>2 DEF s
<1>2. CASE r.lines <= max /\ event.type \in BR!Unusable
  <2>1. s = BR!Told(r, event.type)
    BY <1>2 DEF BR!Event, Formed, BR!Unusable
  <2> HIDE DEF s
  <2>2. Formed(s) /\ SameCounts(r, s) /\ s.diagnostics /= {}
    BY <2>1, ToldIs
  <2> QED BY <1>2, <2>2 DEF s
<1>3. CASE r.lines <= max /\ event.type \notin BR!Unusable /\ event.type /= "container"
  <2>1. s = [r EXCEPT !.ignored = @ + 1] /\ event.type = "image"
    BY <1>3 DEF BR!Event, Formed, Types
  <2> HIDE DEF s
  <2>2. /\ DOMAIN s = DOMAIN r /\ s.bytes = r.bytes /\ s.lines = r.lines /\ s.events = r.events /\ s.ignored = r.ignored + 1
        /\ s.groups = r.groups /\ s.stopped = r.stopped /\ s.diagnostics = r.diagnostics
    BY <2>1 DEF Formed
  <2>3. Formed(s) /\ Tallied(r, s, event)
    BY <1>3, <2>1, <2>2 DEF Formed, Tallied
  <2> QED BY <2>2, <2>3 DEF s
<1>4. CASE r.lines <= max /\ event.type = "container"
  <2>1. "container" \notin BR!Unusable
    BY DEF BR!Unusable
  <2>2. s = [r EXCEPT !.events = @ + 1, !.groups = BR!Groups(@, event)]
    BY <1>4, <2>1 DEF BR!Event, Formed
  <2> HIDE DEF s
  <2>3. /\ DOMAIN s = DOMAIN r /\ s.bytes = r.bytes /\ s.lines = r.lines /\ s.events = r.events + 1 /\ s.ignored = r.ignored
        /\ s.groups = BR!Groups(r.groups, event) /\ s.stopped = r.stopped /\ s.diagnostics = r.diagnostics
    BY <2>2 DEF Formed
  <2>4. Formed(s) /\ Tallied(r, s, event)
    BY <1>4, <2>1, <2>3 DEF Formed, Tallied
  <2> QED BY <2>3, <2>4 DEF s
<1> QED BY <1>1, <1>2, <1>3, <1>4 DEF Formed

\* So is a line, and a line in the counts is within the limits.
LEMMA LineIs ==
    ASSUME NEW r, NEW size \in Nat, NEW event, NEW max \in Nat, Formed(r), event.type \in Types, ~r.stopped
    PROVE  LET s == BR!Line(r, size, event, max) IN
           /\ Formed(s)
           /\ \/ s.diagnostics /= {} /\ SameCounts(r, s) /\ (s.stopped \/ event.type \in BR!Unusable)
              \/ /\ Tallied(r, s, event) /\ ~s.stopped /\ s.diagnostics = r.diagnostics
                 /\ s.bytes = r.bytes + size + 1 /\ s.bytes <= Limit
<1> DEFINE s == BR!Line(r, size, event, max)
           bytes == r.bytes + size + 1
<1>1. bytes \in Nat /\ Limit \in Nat /\ RecordLimit \in Nat
  BY LimitsAssumption DEF Formed
<1> HIDE DEF bytes
<1>2. CASE size > RecordLimit
  <2>1. s = BR!Stopped(r, "record_limit")
    BY <1>1, <1>2 DEF BR!Line, bytes
  <2> HIDE DEF s
  <2>2. Formed(s) /\ SameCounts(r, s) /\ s.diagnostics /= {} /\ s.stopped
    BY <2>1, StoppedIs
  <2> QED BY <2>2 DEF s
<1>3. CASE size <= RecordLimit /\ bytes > Limit
  <2>1. s = BR!Stopped(r, "byte_limit")
    BY <1>1, <1>3 DEF BR!Line, bytes
  <2> HIDE DEF s
  <2>2. Formed(s) /\ SameCounts(r, s) /\ s.diagnostics /= {} /\ s.stopped
    BY <2>1, StoppedIs
  <2> QED BY <2>2 DEF s
<1>4. CASE size <= RecordLimit /\ bytes <= Limit /\ event.type = "blank"
  <2>1. s = [r EXCEPT !.bytes = bytes]
    BY <1>1, <1>4 DEF BR!Line, bytes
  <2> HIDE DEF s
  <2>2. /\ DOMAIN s = DOMAIN r /\ s.bytes = bytes /\ s.lines = r.lines /\ s.events = r.events /\ s.ignored = r.ignored
        /\ s.groups = r.groups /\ s.stopped = r.stopped /\ s.diagnostics = r.diagnostics
    BY <2>1 DEF Formed
  <2>3. Formed(s) /\ Tallied(r, s, event)
    <3>1. "blank" \notin BR!Unusable
      BY DEF BR!Unusable
    <3> QED BY <1>1, <1>4, <2>2, <3>1 DEF Formed, Tallied, SameCounts
  <2> QED BY <1>4, <2>2, <2>3 DEF s, bytes
<1>5. CASE size <= RecordLimit /\ bytes <= Limit /\ event.type /= "blank"
  <2> DEFINE q == [r EXCEPT !.bytes = bytes, !.lines = @ + 1]
  <2>1. s = BR!Event(q, event, max)
    BY <1>1, <1>5 DEF BR!Line, bytes
  <2>2. /\ DOMAIN q = DOMAIN r /\ q.bytes = bytes /\ q.lines = r.lines + 1 /\ q.events = r.events /\ q.ignored = r.ignored
        /\ q.groups = r.groups /\ q.stopped = r.stopped /\ q.diagnostics = r.diagnostics
    BY DEF Formed
  <2> HIDE DEF s, q
  <2>3. Formed(q)
    BY <1>1, <2>2 DEF Formed
  <2>4. /\ Formed(s)
        /\ \/ s.diagnostics /= {} /\ SameCounts(q, s) /\ (s.stopped \/ event.type \in BR!Unusable)
           \/ Tallied(q, s, event) /\ ~s.stopped /\ s.diagnostics = q.diagnostics /\ s.bytes = q.bytes
    BY <1>5, <2>1, <2>2, <2>3, EventIs
  <2>5. (SameCounts(q, s) => SameCounts(r, s)) /\ (Tallied(q, s, event) => Tallied(r, s, event))
    BY <2>2 DEF SameCounts, Tallied
  <2> QED BY <1>5, <2>2, <2>4, <2>5 DEF s, bytes
<1> QED BY <1>1, <1>2, <1>3, <1>4, <1>5

\* Lines, and what is known of each.
IsLines(lines) ==
    /\ Len(lines) \in Nat
    /\ \A i \in 1..Len(lines) : /\ lines[i].size \in Nat /\ lines[i].end \in 0..2 /\ lines[i].event.type \in Types
                                /\ lines[i].event.type = "container" => lines[i].event.time \in Nat

\* The end of a line is that of the one before it, and its bytes.
LEMMA EndsAre ==
    ASSUME NEW lines, IsLines(lines)
    PROVE  /\ BR!Ends(lines)[0] = 0
           /\ \A i \in 1..Len(lines) : /\ BR!Ends(lines)[i - 1] \in Nat
                                       /\ BR!Ends(lines)[i] = BR!Ends(lines)[i - 1] + lines[i].size + lines[i].end
<1> DEFINE n == Len(lines)
           step == [i \in 1..n |-> [x \in Nat |-> x + lines[i].size + lines[i].end]]
<1>1. n \in Nat /\ \A i \in 1..n : lines[i].size \in Nat /\ lines[i].end \in Nat
  BY DEF IsLines
<1>2. step \in [1..n -> [Nat -> Nat]]
  BY <1>1
<1>3. PICK w : w \in Values(n, Nat, 0, step)
  <2> HIDE DEF step
  <2> QED BY <1>1, <1>2, Loop
<1>4. w \in [0..n -> Nat] /\ w[0] = 0 /\ \A i \in 1..n : w[i] = step[i][w[i - 1]]
  <2> HIDE DEF step
  <2> QED BY <1>3 DEF Values
<1>5. \A i \in 1..n : w[i - 1] \in Nat /\ w[i] = w[i - 1] + lines[i].size + lines[i].end
  <2> SUFFICES ASSUME NEW i \in 1..n PROVE w[i - 1] \in Nat /\ w[i] = w[i - 1] + lines[i].size + lines[i].end
    OBVIOUS
  <2>1. i - 1 \in 0..n
    BY <1>1
  <2>2. w[i - 1] \in Nat /\ w[i] = step[i][w[i - 1]]
    BY <1>4, <2>1
  <2> QED BY <2>2
<1> DEFINE Solves(v) == v = [i \in 0..n |-> IF i = 0 THEN 0 ELSE v[i - 1] + lines[i].size + lines[i].end]
           ends == CHOOSE v : Solves(v)
<1>6. Solves(w)
  <2>1. \A i \in 0..n : w[i] = IF i = 0 THEN 0 ELSE w[i - 1] + lines[i].size + lines[i].end
    <3>1. \A i \in 0..n : i = 0 \/ i \in 1..n
      BY <1>1
    <3> QED BY <1>4, <1>5, <3>1
  <2> HIDE DEF step, n
  <2> QED BY <1>4, <2>1
<1>7. Solves(ends)
  BY <1>6
<1>8. BR!Ends(lines) = ends
  BY DEF BR!Ends
<1>9. \A i \in 0..n : ends[i] = IF i = 0 THEN 0 ELSE ends[i - 1] + lines[i].size + lines[i].end
  <2> HIDE DEF ends, n
  <2> QED BY <1>7
<1> HIDE DEF ends
<1> DEFINE T == {i \in 0..n : ends[i] \in Nat}
<1>10. 0..n \subseteq T
  <2>1. 0 \in T
    BY <1>1, <1>9
  <2>2. ASSUME NEW i \in 1..n, i - 1 \in T PROVE i \in T
    <3>1. ends[i - 1] \in Nat /\ i \in 0..n /\ i /= 0
      BY <2>2
    <3>2. ends[i] = ends[i - 1] + lines[i].size + lines[i].end
      BY <1>9, <3>1
    <3> QED BY <1>1, <3>1, <3>2
  <2> HIDE DEF T
  <2> QED BY <1>1, <2>1, <2>2, Steps
<1>11. \A i \in 1..n : i - 1 \in 0..n /\ i \in 0..n /\ i /= 0
  BY <1>1
<1>12. \A i \in 1..n : ends[i - 1] \in Nat /\ ends[i] = ends[i - 1] + lines[i].size + lines[i].end
  BY <1>9, <1>10, <1>11
<1>13. ends[0] = 0
  BY <1>1, <1>9
<1> QED BY <1>8, <1>12, <1>13

\* A line that is read, or not, or not to its end.
LEMMA ScanIs ==
    ASSUME NEW r, NEW lines, IsLines(lines), NEW i \in 1..Len(lines), NEW max \in Nat, Formed(r)
    PROVE  LET s == BR!Scan(r, lines, i, max)
               l == lines[i]
               room == Limit + 1 - BR!Ends(lines)[i - 1]
           IN
           /\ Formed(s)
           /\ \/ (r.stopped \/ room <= 0) /\ s = r
              \/ /\ ~r.stopped /\ room > 0 /\ s.diagnostics /= {} /\ SameCounts(r, s)
                 /\ s.stopped \/ l.size > room \/ l.event.type \in BR!Unusable
              \/ /\ ~r.stopped /\ room > 0 /\ Tallied(r, s, l.event) /\ ~s.stopped /\ s.diagnostics = r.diagnostics
                 /\ s.bytes = r.bytes + l.size + 1 /\ s.bytes <= Limit /\ l.size <= room
              \/ /\ ~r.stopped /\ l.size > room /\ s.diagnostics /= {} /\ SameCounts(r, s)
<1> DEFINE s == BR!Scan(r, lines, i, max)
           l == lines[i]
           room == Limit + 1 - BR!Ends(lines)[i - 1]
<1>1. room \in Int /\ l.size \in Nat /\ l.event.type \in Types /\ r.stopped \in BOOLEAN
  <2>1. BR!Ends(lines)[i - 1] \in Nat
    BY EndsAre
  <2>2. l.size \in Nat /\ l.event.type \in Types /\ r.stopped \in BOOLEAN
    BY DEF IsLines, Formed
  <2> QED BY <2>1, <2>2, LimitsAssumption
<1> HIDE DEF room, l
<1>2. CASE r.stopped \/ room <= 0
  <2>1. s = r
    BY <1>1, <1>2 DEF BR!Scan, room, l
  <2> QED BY <1>2, <2>1 DEF room
<1>3. CASE ~r.stopped /\ room > 0 /\ l.size <= room
  <2>1. s = BR!Line(r, l.size, l.event, max)
    BY <1>1, <1>3 DEF BR!Scan, room, l
  <2> DEFINE size == l.size
             event == l.event
  <2>2. size \in Nat /\ event.type \in Types /\ ~r.stopped /\ s = BR!Line(r, size, event, max)
    BY <1>1, <1>3, <2>1
  <2> HIDE DEF s, size, event
  <2>3. /\ Formed(s)
        /\ \/ s.diagnostics /= {} /\ SameCounts(r, s) /\ (s.stopped \/ event.type \in BR!Unusable)
           \/ /\ Tallied(r, s, event) /\ ~s.stopped /\ s.diagnostics = r.diagnostics
              /\ s.bytes = r.bytes + size + 1 /\ s.bytes <= Limit
    <3>1. LET q == BR!Line(r, size, event, max) IN
          /\ Formed(q)
          /\ \/ q.diagnostics /= {} /\ SameCounts(r, q) /\ (q.stopped \/ event.type \in BR!Unusable)
             \/ /\ Tallied(r, q, event) /\ ~q.stopped /\ q.diagnostics = r.diagnostics
                /\ q.bytes = r.bytes + size + 1 /\ q.bytes <= Limit
      BY <2>2, LineIs, Zenon
    <3> QED BY <2>2, <3>1
  <2> QED BY <1>3, <2>3 DEF s, room, l, size, event
<1>4. CASE ~r.stopped /\ room > 0 /\ l.size > room
  <2> DEFINE cut == [type |-> "malformed"]
  <2>1. s = BR!Line(r, room, cut, max)
    BY <1>1, <1>4 DEF BR!Scan, room, l
  <2>2. cut.type = "malformed"
    OBVIOUS
  <2> HIDE DEF s, cut
  <2>3. cut.type \in Types /\ cut.type \in BR!Unusable
    BY <2>2 DEF Types, BR!Unusable
  <2>4. room \in Nat
    BY <1>1, <1>4
  <2>5. /\ Formed(s)
        /\ \/ s.diagnostics /= {} /\ SameCounts(r, s)
           \/ Tallied(r, s, cut)
    BY <1>4, <2>1, <2>3, <2>4, LineIs
  <2>6. s.diagnostics /= {} /\ SameCounts(r, s)
    BY <2>3, <2>5 DEF Tallied
  <2> QED BY <1>4, <2>5, <2>6 DEF s, room, l
<1> QED BY <1>1, <1>2, <1>3, <1>4

\* A group gets one more event, and a new key a group.
LEMMA GroupsAre ==
    ASSUME NEW groups, NEW e
    PROVE  LET s == BR!Groups(groups, e)
               key == BR!Key(e)
           IN
           /\ DOMAIN s = DOMAIN groups \union {key}
           /\ \A k \in DOMAIN groups : k /= key => s[k] = groups[k]
           /\ key \notin DOMAIN groups => s[key].count = 1 /\ s[key].first = e.time /\ s[key].last = e.time
           /\ key \in DOMAIN groups =>
                /\ s[key].count = groups[key].count + 1
                /\ s[key].first = IF groups[key].first < e.time THEN groups[key].first ELSE e.time
                /\ s[key].last = IF groups[key].last > e.time THEN groups[key].last ELSE e.time
<1> DEFINE key == BR!Key(e)
           more == [count |-> groups[key].count + 1,
                    first |-> IF groups[key].first < e.time THEN groups[key].first ELSE e.time,
                    last |-> IF groups[key].last > e.time THEN groups[key].last ELSE e.time]
           one == [count |-> 1, first |-> e.time, last |-> e.time]
           g == IF key \in DOMAIN groups THEN more ELSE one
           s == BR!Groups(groups, e)
<1>1. s = [k \in DOMAIN groups \union {key} |-> IF k = key THEN g ELSE groups[k]]
  BY DEF BR!Groups
<1>2. one.count = 1 /\ one.first = e.time /\ one.last = e.time
  OBVIOUS
<1>3. /\ more.count = groups[key].count + 1
      /\ more.first = IF groups[key].first < e.time THEN groups[key].first ELSE e.time
      /\ more.last = IF groups[key].last > e.time THEN groups[key].last ELSE e.time
  OBVIOUS
<1> HIDE DEF s, more, one, key
<1>4. DOMAIN s = DOMAIN groups \union {key} /\ s[key] = g /\ \A k \in DOMAIN groups : k /= key => s[k] = groups[k]
  BY <1>1
<1>5. /\ key \notin DOMAIN groups => s[key] = one
      /\ key \in DOMAIN groups => s[key] = more
  BY <1>4
<1> HIDE DEF g
<1>6. key \notin DOMAIN groups => s[key].count = 1 /\ s[key].first = e.time /\ s[key].last = e.time
  BY <1>2, <1>5
<1>7. key \in DOMAIN groups =>
        /\ s[key].count = groups[key].count + 1
        /\ s[key].first = IF groups[key].first < e.time THEN groups[key].first ELSE e.time
        /\ s[key].last = IF groups[key].last > e.time THEN groups[key].last ELSE e.time
  BY <1>3, <1>5
<1> QED BY <1>4, <1>6, <1>7 DEF s, key

\* The counts, in the words of the library.
LEMMA CountsAre ==
    ASSUME NEW lines, NEW n, NEW out
    PROVE  LET At(t) == {i \in 1..n : lines[i].event.type = t}
               In(k) == {i \in 1..n : lines[i].event.type = "container" /\ BR!Key(lines[i].event) = k}
           IN
           BR!Counted(lines, n, out) <=>
            /\ out.events = Cardinality(At("container")) /\ out.ignored = Cardinality(At("image"))
            /\ DOMAIN out.groups = {BR!Key(lines[i].event) : i \in At("container")}
            /\ \A k \in DOMAIN out.groups :
                /\ out.groups[k].count = Cardinality(In(k))
                /\ \E i, j \in In(k) : out.groups[k].first = lines[i].event.time /\ out.groups[k].last = lines[j].event.time
                /\ \A i \in In(k) : out.groups[k].first <= lines[i].event.time /\ lines[i].event.time <= out.groups[k].last
<1> DEFINE At(t) == {i \in 1..n : lines[i].event.type = t}
           Of2(k) == {i \in At("container") : BR!Key(lines[i].event) = k}
           In(k) == {i \in 1..n : lines[i].event.type = "container" /\ BR!Key(lines[i].event) = k}
<1>1. \A k : Of2(k) = In(k)
  OBVIOUS
<1>2. BR!Counted(lines, n, out) <=>
        /\ out.events = BR!Cardinality(At("container")) /\ out.ignored = BR!Cardinality(At("image"))
        /\ DOMAIN out.groups = {BR!Key(lines[i].event) : i \in At("container")}
        /\ \A k \in DOMAIN out.groups :
            /\ out.groups[k].count = BR!Cardinality(Of2(k))
            /\ \E i, j \in Of2(k) : out.groups[k].first = lines[i].event.time /\ out.groups[k].last = lines[j].event.time
            /\ \A i \in Of2(k) : out.groups[k].first <= lines[i].event.time /\ lines[i].event.time <= out.groups[k].last
  BY DEF BR!Counted
<1> HIDE DEF At, In, Of2
<1>3. /\ \A t : BR!Cardinality(At(t)) = Cardinality(At(t))
      /\ \A k : BR!Cardinality(Of2(k)) = Cardinality(In(k))
  BY <1>1, EventCount
<1>4. BR!Counted(lines, n, out) <=>
        /\ out.events = Cardinality(At("container")) /\ out.ignored = Cardinality(At("image"))
        /\ DOMAIN out.groups = {BR!Key(lines[i].event) : i \in At("container")}
        /\ \A k \in DOMAIN out.groups :
            /\ out.groups[k].count = Cardinality(In(k))
            /\ \E i, j \in In(k) : out.groups[k].first = lines[i].event.time /\ out.groups[k].last = lines[j].event.time
            /\ \A i \in In(k) : out.groups[k].first <= lines[i].event.time /\ lines[i].event.time <= out.groups[k].last
  BY <1>1, <1>2, <1>3
<1> QED BY <1>4 DEF At, In

\* What leaves the counts alone, and what adds a line to them.
LEMMA CountsStay ==
    ASSUME NEW lines, NEW n, NEW r, NEW s, SameCounts(r, s), BR!Counted(lines, n, r)
    PROVE  BR!Counted(lines, n, s)
<1> DEFINE At(t) == {i \in 1..n : lines[i].event.type = t}
           In(k) == {i \in 1..n : lines[i].event.type = "container" /\ BR!Key(lines[i].event) = k}
           Holds(events, ignored, groups) ==
            /\ events = Cardinality(At("container")) /\ ignored = Cardinality(At("image"))
            /\ DOMAIN groups = {BR!Key(lines[i].event) : i \in At("container")}
            /\ \A k \in DOMAIN groups :
                /\ groups[k].count = Cardinality(In(k))
                /\ \E i, j \in In(k) : groups[k].first = lines[i].event.time /\ groups[k].last = lines[j].event.time
                /\ \A i \in In(k) : groups[k].first <= lines[i].event.time /\ lines[i].event.time <= groups[k].last
<1>1. Holds(r.events, r.ignored, r.groups)
  BY CountsAre
<1>2. Holds(s.events, s.ignored, s.groups) => BR!Counted(lines, n, s)
  BY CountsAre
<1> HIDE DEF Holds
<1> QED BY <1>1, <1>2 DEF SameCounts

LEMMA CountsGrow ==
    ASSUME NEW lines, NEW r, NEW s, NEW i \in Nat \ {0}, lines[i].event.type \in Types,
           \A j \in 1..i : lines[j].event.type = "container" => lines[j].event.time \in Nat,
           BR!Counted(lines, i - 1, r), Tallied(r, s, lines[i].event)
    PROVE  BR!Counted(lines, i, s)
<1> DEFINE At(n, t) == {j \in 1..n : lines[j].event.type = t}
           In(n, k) == {j \in 1..n : lines[j].event.type = "container" /\ BR!Key(lines[j].event) = k}
           e == lines[i].event
           key == BR!Key(e)
           groups == r.groups
           Time(j) == lines[j].event.time
<1>1. /\ r.events = Cardinality(At(i - 1, "container")) /\ r.ignored = Cardinality(At(i - 1, "image"))
      /\ DOMAIN groups = {BR!Key(lines[j].event) : j \in At(i - 1, "container")}
      /\ \A k \in DOMAIN groups :
        /\ groups[k].count = Cardinality(In(i - 1, k))
        /\ \E x, y \in In(i - 1, k) : groups[k].first = Time(x) /\ groups[k].last = Time(y)
        /\ \A x \in In(i - 1, k) : groups[k].first <= Time(x) /\ Time(x) <= groups[k].last
  BY CountsAre
<1>2. BR!Counted(lines, i, s) <=>
        /\ s.events = Cardinality(At(i, "container")) /\ s.ignored = Cardinality(At(i, "image"))
        /\ DOMAIN s.groups = {BR!Key(lines[j].event) : j \in At(i, "container")}
        /\ \A k \in DOMAIN s.groups :
            /\ s.groups[k].count = Cardinality(In(i, k))
            /\ \E x, y \in In(i, k) : s.groups[k].first = Time(x) /\ s.groups[k].last = Time(y)
            /\ \A x \in In(i, k) : s.groups[k].first <= Time(x) /\ Time(x) <= s.groups[k].last
  BY CountsAre
<1>3. 1..i = 1..(i - 1) \union {i} /\ i \notin 1..(i - 1)
  OBVIOUS
<1>4. /\ \A t : e.type = t => At(i, t) = At(i - 1, t) \union {i}
      /\ \A t : e.type /= t => At(i, t) = At(i - 1, t)
      /\ \A t : i \notin At(i - 1, t)
      /\ \A k : e.type /= "container" \/ key /= k => In(i, k) = In(i - 1, k)
      /\ \A k : e.type = "container" /\ key = k => In(i, k) = In(i - 1, k) \union {i}
      /\ \A k : i \notin In(i - 1, k)
  BY <1>3
<1>5. /\ \A t : IsFiniteSet(At(i - 1, t)) /\ Cardinality(At(i - 1, t) \union {i}) = Cardinality(At(i - 1, t)) + 1
      /\ \A k : IsFiniteSet(In(i - 1, k)) /\ Cardinality(In(i - 1, k) \union {i}) = Cardinality(In(i - 1, k)) + 1
  <2>1. IsFiniteSet(1..(i - 1))
    <3>1. 1 \in Int /\ i - 1 \in Int
      OBVIOUS
    <3> QED BY <3>1, FS_Interval
  <2>2. /\ \A t : At(i - 1, t) \subseteq 1..(i - 1)
        /\ \A k : In(i - 1, k) \subseteq 1..(i - 1)
    OBVIOUS
  <2> HIDE DEF At, In
  <2>3. (\A t : IsFiniteSet(At(i - 1, t))) /\ (\A k : IsFiniteSet(In(i - 1, k)))
    BY <2>1, <2>2, FS_Subset
  <2>4. ASSUME NEW t PROVE Cardinality(At(i - 1, t) \union {i}) = Cardinality(At(i - 1, t)) + 1
    BY <1>4, <2>3, OneMore
  <2>5. ASSUME NEW k PROVE Cardinality(In(i - 1, k) \union {i}) = Cardinality(In(i - 1, k)) + 1
    BY <1>4, <2>3, OneMore
  <2> QED BY <2>3, <2>4, <2>5
<1>6. /\ \A j : e.type = "container" /\ j \in At(i, "container") => Time(j) \in Nat
      /\ \A k : \A j \in In(i, k) : Time(j) \in Nat
  OBVIOUS
<1>7. e.type \in {"blank", "image", "container"}
  BY DEF Tallied, Types
<1>8. Cardinality({}) = 0 /\ \A k : k \notin DOMAIN groups => In(i - 1, k) = {}
  BY <1>1, FS_EmptySet
<1>9. CASE e.type /= "container"
  <2>1. s.events = r.events /\ s.groups = groups /\ s.ignored = IF e.type = "image" THEN r.ignored + 1 ELSE r.ignored
    BY <1>7, <1>9 DEF Tallied, SameCounts
  <2>2. /\ At(i, "container") = At(i - 1, "container")
        /\ \A k : In(i, k) = In(i - 1, k)
        /\ s.ignored = Cardinality(At(i, "image"))
    <3>1. At(i, "container") = At(i - 1, "container") /\ \A k : In(i, k) = In(i - 1, k)
      BY <1>4, <1>9
    <3>2. CASE e.type = "image"
      <4>1. At(i, "image") = At(i - 1, "image") \union {i}
        BY <1>4, <3>2
      <4> HIDE DEF At, In, e
      <4> QED BY <1>1, <1>5, <2>1, <3>1, <3>2, <4>1
    <3>3. CASE e.type /= "image"
      <4>1. At(i, "image") = At(i - 1, "image")
        BY <1>4, <3>3
      <4> HIDE DEF At, In, e
      <4> QED BY <1>1, <2>1, <3>1, <3>3, <4>1
    <3> QED BY <3>2, <3>3
  <2> HIDE DEF At, In, e, key, groups, Time
  <2> QED BY <1>1, <1>2, <2>1, <2>2
<1>10. CASE e.type = "container"
  <2>1. s.events = r.events + 1 /\ s.ignored = r.ignored /\ s.groups = BR!Groups(groups, e)
    BY <1>10 DEF Tallied
  <2>2. /\ DOMAIN s.groups = DOMAIN groups \union {key}
        /\ \A k \in DOMAIN groups : k /= key => s.groups[k] = groups[k]
        /\ key \notin DOMAIN groups => s.groups[key].count = 1 /\ s.groups[key].first = Time(i) /\ s.groups[key].last = Time(i)
        /\ key \in DOMAIN groups =>
            /\ s.groups[key].count = groups[key].count + 1
            /\ s.groups[key].first = IF groups[key].first < Time(i) THEN groups[key].first ELSE Time(i)
            /\ s.groups[key].last = IF groups[key].last > Time(i) THEN groups[key].last ELSE Time(i)
    <3>1. Time(i) = e.time
      OBVIOUS
    <3> HIDE DEF groups, e, Time
    <3>2. LET q == BR!Groups(groups, e) IN
          /\ DOMAIN q = DOMAIN groups \union {BR!Key(e)}
          /\ \A k \in DOMAIN groups : k /= BR!Key(e) => q[k] = groups[k]
          /\ BR!Key(e) \notin DOMAIN groups => q[BR!Key(e)].count = 1 /\ q[BR!Key(e)].first = e.time /\ q[BR!Key(e)].last = e.time
          /\ BR!Key(e) \in DOMAIN groups =>
            /\ q[BR!Key(e)].count = groups[BR!Key(e)].count + 1
            /\ q[BR!Key(e)].first = IF groups[BR!Key(e)].first < e.time THEN groups[BR!Key(e)].first ELSE e.time
            /\ q[BR!Key(e)].last = IF groups[BR!Key(e)].last > e.time THEN groups[BR!Key(e)].last ELSE e.time
      BY GroupsAre
    <3> QED BY <2>1, <3>1, <3>2
  <2>3. At(i, "container") = At(i - 1, "container") \union {i} /\ At(i, "image") = At(i - 1, "image")
    BY <1>4, <1>10
  <2>4. BR!Key(lines[i].event) = key
    OBVIOUS
  <2>5. i \in In(i, key) /\ Time(i) \in Nat /\ In(i, key) = In(i - 1, key) \union {i}
    BY <1>3, <1>4, <1>10
  <2> HIDE DEF At, In, e, key, groups, Time
  <2>6. s.events = Cardinality(At(i, "container")) /\ s.ignored = Cardinality(At(i, "image"))
    BY <1>1, <1>5, <2>1, <2>3
  <2>7. DOMAIN s.groups = {BR!Key(lines[j].event) : j \in At(i, "container")}
    BY <1>1, <2>2, <2>3, <2>4
  <2>8. ASSUME NEW k \in DOMAIN s.groups
        PROVE  /\ s.groups[k].count = Cardinality(In(i, k))
               /\ \E x, y \in In(i, k) : s.groups[k].first = Time(x) /\ s.groups[k].last = Time(y)
               /\ \A x \in In(i, k) : s.groups[k].first <= Time(x) /\ Time(x) <= s.groups[k].last
    <3>1. CASE k /= key
      <4>1. k \in DOMAIN groups /\ s.groups[k] = groups[k] /\ In(i, k) = In(i - 1, k)
        BY <1>4, <2>2, <2>8, <3>1
      <4> QED BY <1>1, <4>1
    <3>2. CASE k = key /\ key \notin DOMAIN groups
      <4>1. In(i, k) = {i} /\ Cardinality(In(i, k)) = 1
        <5>1. In(i - 1, key) = {}
          BY <1>8, <3>2
        <5>2. In(i, k) = {i}
          BY <2>5, <3>2, <5>1
        <5>3. Cardinality(In(i, k)) = Cardinality(In(i - 1, key)) + 1
          BY <1>5, <2>5, <3>2
        <5>4. Cardinality(In(i - 1, key)) = 0
          BY <1>8, <5>1
        <5> QED BY <5>2, <5>3, <5>4
      <4> QED BY <2>2, <2>5, <3>2, <4>1
    <3>3. CASE k = key /\ key \in DOMAIN groups
      <4>1. Cardinality(In(i, k)) = Cardinality(In(i - 1, k)) + 1
        BY <1>5, <2>5, <3>3
      <4>2. PICK x, y \in In(i - 1, k) : groups[k].first = Time(x) /\ groups[k].last = Time(y)
        BY <1>1, <3>3
      <4>3. /\ groups[k].count = Cardinality(In(i - 1, k))
            /\ \A z \in In(i - 1, k) : groups[k].first <= Time(z) /\ Time(z) <= groups[k].last
        BY <1>1, <3>3
      <4>4. /\ x \in In(i, k) /\ y \in In(i, k) /\ i \in In(i, k)
            /\ Time(x) \in Nat /\ Time(y) \in Nat /\ Time(i) \in Nat
            /\ \A z \in In(i, k) : Time(z) \in Nat /\ (z = i \/ z \in In(i - 1, k))
        BY <1>6, <2>5, <3>3
      <4> DEFINE first == s.groups[k].first
                 last == s.groups[k].last
      <4>5. /\ first = IF Time(x) < Time(i) THEN Time(x) ELSE Time(i)
            /\ last = IF Time(y) > Time(i) THEN Time(y) ELSE Time(i)
            /\ s.groups[k].count = Cardinality(In(i, k))
        BY <2>2, <3>3, <4>1, <4>2, <4>3
      <4> HIDE DEF first, last
      <4>6. \E a, b \in In(i, k) : first = Time(a) /\ last = Time(b)
        <5>1. (first = Time(x) \/ first = Time(i)) /\ (last = Time(y) \/ last = Time(i))
          BY <4>5
        <5> QED BY <4>4, <5>1
      <4>7. ASSUME NEW z \in In(i, k) PROVE first <= Time(z) /\ Time(z) <= last
        <5>1. z = i \/ (Time(x) <= Time(z) /\ Time(z) <= Time(y))
          BY <4>2, <4>3, <4>4
        <5>2. Time(z) \in Nat
          BY <4>4
        <5> QED BY <4>4, <4>5, <5>1, <5>2
      <4> QED BY <4>5, <4>6, <4>7 DEF first, last
    <3> QED BY <3>1, <3>2, <3>3
  <2> QED BY <1>2, <2>6, <2>7, <2>8
<1> QED BY <1>9, <1>10

\* Normalize reads one line after another.
LEMMA NormalizeSteps ==
    ASSUME NEW lines, NEW max, NEW fails, Len(lines) \in Nat
    PROVE  LET n == Len(lines) IN
           \E a : /\ a[0] = BR!Fresh
                  /\ \A i \in 1..n : a[i] = BR!Scan(a[i - 1], lines, i, max)
                  /\ BR!Normalize(lines, fails, max) =
                        IF fails /\ ~a[n].stopped THEN BR!Told(a[n], "input_failed") ELSE a[n]
<1> DEFINE n == Len(lines)
           base == BR!Fresh
           Step(i, c) == BR!Scan(c, lines, i, max)
           Solves(f, k) == f = [i \in 0..k |-> IF i = 0 THEN base ELSE Step(i, f[i - 1])]
           T == {k \in 0..n : \E f : Solves(f, k)}
<1> HIDE DEF n, base, Step
<1>1. n \in Nat
  BY DEF n
<1>2. 0 \in T
  <2>1. Solves([i \in 0..0 |-> base], 0)
    OBVIOUS
  <2> HIDE DEF Solves
  <2> QED BY <1>1, <2>1
<1>3. ASSUME NEW k \in 1..n, k - 1 \in T PROVE k \in T
  <2>1. PICK g : Solves(g, k - 1)
    BY <1>3
  <2> DEFINE f == [i \in 0..k |-> IF i = k THEN Step(k, g[k - 1]) ELSE g[i]]
  <2>2. k - 1 \in 0..(k - 1) /\ k \in 0..n /\ k /= 0 /\ \A i \in 0..k : i = k \/ i \in 0..(k - 1)
    BY <1>1
  <2>3. \A i \in 0..(k - 1) : i /= k /\ i \in 0..k
    BY <1>1
  <2>4. \A i \in 0..(k - 1) : g[i] = IF i = 0 THEN base ELSE Step(i, g[i - 1])
    BY <2>1
  <2>5. f[k] = Step(k, g[k - 1]) /\ \A i \in 0..(k - 1) : f[i] = g[i]
    BY <2>2, <2>3
  <2>6. ASSUME NEW i \in 0..k PROVE f[i] = IF i = 0 THEN base ELSE Step(i, f[i - 1])
    <3> HIDE DEF f
    <3>1. CASE i = k
      BY <2>2, <2>5, <3>1
    <3>2. CASE i /= k
      <4>1. i \in 0..(k - 1) /\ (i /= 0 => i - 1 \in 0..(k - 1))
        BY <1>1, <3>2
      <4> QED BY <2>4, <2>5, <4>1
    <3> QED BY <3>1, <3>2
  <2>7. Solves(f, k)
    <3>1. f = [i \in 0..k |-> f[i]]
      OBVIOUS
    <3> HIDE DEF f
    <3> QED BY <2>6, <3>1
  <2> HIDE DEF f, Solves
  <2> QED BY <2>2, <2>7
<1>4. n \in T
  <2> HIDE DEF T
  <2>1. 0..n \subseteq T
    BY <1>1, <1>2, <1>3, Steps
  <2> QED BY <1>1, <2>1
<1> DEFINE after == CHOOSE f : Solves(f, n)
<1>5. Solves(after, n)
  <2>1. \E f : Solves(f, n)
    BY <1>4
  <2> HIDE DEF Solves
  <2> QED BY <2>1
<1>6. BR!Normalize(lines, fails, max) =
        IF fails /\ ~after[n].stopped THEN BR!Told(after[n], "input_failed") ELSE after[n]
  BY DEF BR!Normalize, n, base, Step
<1> HIDE DEF after
<1>7. \A i \in 0..n : after[i] = IF i = 0 THEN base ELSE Step(i, after[i - 1])
  BY <1>5
<1>8. after[0] = base /\ \A i \in 1..n : after[i] = Step(i, after[i - 1])
  <2>1. 0 \in 0..n /\ \A i \in 1..n : i \in 0..n /\ i /= 0
    BY <1>1
  <2> QED BY <1>7, <2>1
<1> QED BY <1>6, <1>8 DEF n, base, Step

\* Before the first line there is nothing to count.
LEMMA FreshIs ==
    ASSUME NEW lines
    PROVE  /\ Formed(BR!Fresh) /\ BR!Fresh.diagnostics = {} /\ ~BR!Fresh.stopped /\ BR!Fresh.bytes = 0
           /\ BR!Counted(lines, 0, BR!Fresh)
<1> DEFINE r == BR!Fresh
<1>1. /\ Formed(r) /\ r.diagnostics = {} /\ ~r.stopped /\ r.bytes = 0
      /\ r.events = 0 /\ r.ignored = 0 /\ DOMAIN r.groups = {}
  BY DEF BR!Fresh, Formed
<1> HIDE DEF r
<1>2. \A t : {i \in 1..0 : lines[i].event.type = t} = {}
  OBVIOUS
<1>3. Cardinality({}) = 0
  BY FS_EmptySet
<1>4. BR!Counted(lines, 0, r)
  BY <1>1, <1>2, <1>3, CountsAre
<1> QED BY <1>1, <1>4 DEF r

\* What eventwhy has read of the first lines: it counts those up to one, from which on it
\* has stopped, or has no room; as long as it has nothing to tell, it counts all of them.
Reads(lines, i, r) ==
    /\ Formed(r) /\ (r.stopped => r.diagnostics /= {})
    /\ \E n \in 0..i :
        /\ BR!Counted(lines, n, r)
        /\ n = i \/ r.stopped \/ Limit + 1 - BR!Ends(lines)[i] <= 0
        /\ r.diagnostics = {} /\ (\A j \in 1..Len(lines) : lines[j].end /= 2) =>
            /\ n = i /\ BR!Ends(lines)[i] <= r.bytes /\ r.bytes <= Limit
            /\ \A j \in 1..i : lines[j].event.type \notin BR!Unusable

\* One more line.
LEMMA ReadsOn ==
    ASSUME NEW lines, IsLines(lines), NEW i \in 1..Len(lines), NEW max \in Nat, NEW r, Reads(lines, i - 1, r)
    PROVE  Reads(lines, i, BR!Scan(r, lines, i, max))
<1> DEFINE s == BR!Scan(r, lines, i, max)
           l == lines[i]
           Ends == BR!Ends(lines)
           room == Limit + 1 - Ends[i - 1]
           Straight == \A j \in 1..Len(lines) : lines[j].end /= 2
           Usable(j) == lines[j].event.type \notin BR!Unusable
<1>1. /\ Formed(r) /\ (r.stopped => r.diagnostics /= {})
  BY DEF Reads
<1>2. PICK n \in 0..(i - 1) :
        /\ BR!Counted(lines, n, r)
        /\ n = i - 1 \/ r.stopped \/ room <= 0
        /\ r.diagnostics = {} /\ Straight =>
            /\ n = i - 1 /\ Ends[i - 1] <= r.bytes /\ r.bytes <= Limit
            /\ \A j \in 1..(i - 1) : Usable(j)
  BY DEF Reads
<1>3. /\ Ends[i - 1] \in Nat /\ Ends[i] = Ends[i - 1] + l.size + l.end /\ l.size \in Nat /\ l.end \in 0..2
      /\ Limit \in Nat /\ r.bytes \in Nat /\ i \in Nat \ {0} /\ l.event.type \in Types
      /\ Straight => l.end /= 2
      /\ \A j \in 1..i : lines[j].event.type = "container" => lines[j].event.time \in Nat
  <2>1. Ends[i - 1] \in Nat /\ Ends[i] = Ends[i - 1] + l.size + l.end
    BY EndsAre
  <2>2. /\ l.size \in Nat /\ l.end \in 0..2 /\ i \in Nat \ {0} /\ l.event.type \in Types
        /\ \A j \in 1..i : j \in 1..Len(lines)
    BY DEF IsLines
  <2>3. \A j \in 1..i : lines[j].event.type = "container" => lines[j].event.time \in Nat
    BY <2>2 DEF IsLines
  <2> QED BY <1>1, <2>1, <2>2, <2>3, LimitsAssumption DEF Formed
<1>4. 1..i = 1..(i - 1) \union {i} /\ i \in 0..i /\ i - 1 \in 0..i /\ 0..(i - 1) \subseteq 0..i
  OBVIOUS
<1>5. /\ Formed(s)
      /\ \/ (r.stopped \/ room <= 0) /\ s = r
         \/ /\ ~r.stopped /\ room > 0 /\ s.diagnostics /= {} /\ SameCounts(r, s)
            /\ s.stopped \/ l.size > room \/ l.event.type \in BR!Unusable
         \/ /\ ~r.stopped /\ room > 0 /\ Tallied(r, s, l.event) /\ ~s.stopped /\ s.diagnostics = r.diagnostics
            /\ s.bytes = r.bytes + l.size + 1 /\ s.bytes <= Limit /\ l.size <= room
         \/ /\ ~r.stopped /\ l.size > room /\ s.diagnostics /= {} /\ SameCounts(r, s)
  BY <1>1, ScanIs
<1>6. \A c : /\ Formed(c) /\ (c.stopped => c.diagnostics /= {})
             /\ \E k \in 0..i :
                /\ BR!Counted(lines, k, c)
                /\ k = i \/ c.stopped \/ Limit + 1 - Ends[i] <= 0
                /\ c.diagnostics = {} /\ Straight =>
                    /\ k = i /\ Ends[i] <= c.bytes /\ c.bytes <= Limit
                    /\ \A j \in 1..i : Usable(j)
             => Reads(lines, i, c)
  BY DEF Reads
<1> HIDE DEF s, Ends, room, Straight, l
<1>7. CASE (r.stopped \/ room <= 0) /\ s = r
  <2>1. n \in 0..i /\ (r.stopped \/ Limit + 1 - Ends[i] <= 0)
    BY <1>3, <1>4, <1>7 DEF room
  <2>2. ~(r.diagnostics = {} /\ Straight)
    <3>1. SUFFICES ASSUME r.diagnostics = {}, Straight PROVE FALSE
      OBVIOUS
    <3>2. Ends[i - 1] <= Limit /\ room <= 0
      BY <1>1, <1>2, <1>3, <1>7, <3>1
    <3> QED BY <1>3, <3>2 DEF room
  <2>3. Reads(lines, i, r)
    BY <1>1, <1>2, <1>6, <2>1, <2>2
  <2> QED BY <1>7, <2>3 DEF s
<1>8. CASE s.diagnostics /= {} /\ SameCounts(r, s) /\ l.size > room
  <2>1. n \in 0..i /\ Limit + 1 - Ends[i] <= 0
    BY <1>3, <1>4, <1>8 DEF room
  <2>2. BR!Counted(lines, n, s)
    BY <1>2, <1>8, CountsStay
  <2>3. Reads(lines, i, s)
    BY <1>5, <1>6, <1>8, <2>1, <2>2
  <2> QED BY <2>3 DEF s
<1>9. CASE s.diagnostics /= {} /\ SameCounts(r, s) /\ s.stopped
  <2>1. n \in 0..i
    BY <1>4
  <2>2. BR!Counted(lines, n, s)
    BY <1>2, <1>9, CountsStay
  <2>3. Reads(lines, i, s)
    BY <1>5, <1>6, <1>9, <2>1, <2>2
  <2> QED BY <2>3 DEF s
<1>10. CASE s.diagnostics /= {} /\ SameCounts(r, s) /\ l.event.type \in BR!Unusable /\ ~r.stopped /\ room > 0
  <2>1. n = i - 1
    BY <1>2, <1>3, <1>10 DEF room
  <2> DEFINE e == l.event
  <2>2. BR!Counted(lines, i, s)
    <3>1. BR!Counted(lines, n, s)
      BY <1>2, <1>10, CountsStay
    <3>2. /\ l.event.type /= "image" /\ l.event.type /= "container"
      BY <1>10 DEF BR!Unusable
    <3>3. /\ \A t \in {"image", "container"} :
                {j \in 1..i : lines[j].event.type = t} = {j \in 1..n : lines[j].event.type = t}
          /\ \A k : {j \in 1..i : lines[j].event.type = "container" /\ BR!Key(lines[j].event) = k}
                = {j \in 1..n : lines[j].event.type = "container" /\ BR!Key(lines[j].event) = k}
      BY <1>4, <2>1, <3>2 DEF l
    <3> DEFINE At(m, t) == {j \in 1..m : lines[j].event.type = t}
               In(m, k) == {j \in 1..m : lines[j].event.type = "container" /\ BR!Key(lines[j].event) = k}
               Holds(m) ==
                /\ s.events = Cardinality(At(m, "container")) /\ s.ignored = Cardinality(At(m, "image"))
                /\ DOMAIN s.groups = {BR!Key(lines[j].event) : j \in At(m, "container")}
                /\ \A k \in DOMAIN s.groups :
                    /\ s.groups[k].count = Cardinality(In(m, k))
                    /\ \E x, y \in In(m, k) : s.groups[k].first = lines[x].event.time /\ s.groups[k].last = lines[y].event.time
                    /\ \A x \in In(m, k) : s.groups[k].first <= lines[x].event.time /\ lines[x].event.time <= s.groups[k].last
    <3>4. Holds(n)
      BY <3>1, CountsAre
    <3>5. Holds(i) => BR!Counted(lines, i, s)
      BY CountsAre
    <3>6. At(i, "image") = At(n, "image") /\ At(i, "container") = At(n, "container") /\ \A k : In(i, k) = In(n, k)
      BY <3>3
    <3> HIDE DEF At, In
    <3>7. Holds(i)
      BY <3>4, <3>6
    <3> QED BY <3>5, <3>7
  <2>3. Reads(lines, i, s)
    BY <1>4, <1>5, <1>6, <1>10, <2>2
  <2> QED BY <2>3 DEF s
<1>11. CASE /\ ~r.stopped /\ room > 0 /\ Tallied(r, s, l.event) /\ ~s.stopped /\ s.diagnostics = r.diagnostics
            /\ s.bytes = r.bytes + l.size + 1 /\ s.bytes <= Limit
  <2>1. n = i - 1
    BY <1>2, <1>3, <1>11 DEF room
  <2>2. BR!Counted(lines, i, s)
    BY <1>2, <1>3, <1>11, <2>1, CountsGrow DEF l
  <2>3. ASSUME s.diagnostics = {}, Straight
        PROVE  Ends[i] <= s.bytes /\ s.bytes <= Limit /\ \A j \in 1..i : Usable(j)
    <3>1. Ends[i - 1] <= r.bytes /\ \A j \in 1..(i - 1) : Usable(j)
      BY <1>2, <1>11, <2>3
    <3>2. Usable(i)
      BY <1>11 DEF Tallied, l
    <3>3. l.end <= 1
      BY <1>3, <2>3
    <3>4. Ends[i] <= s.bytes /\ s.bytes <= Limit
      BY <1>3, <1>11, <3>1, <3>3
    <3> HIDE DEF Usable
    <3> QED BY <1>4, <3>1, <3>2, <3>4
  <2>4. Reads(lines, i, s)
    BY <1>4, <1>5, <1>6, <1>11, <2>2, <2>3
  <2> QED BY <2>4 DEF s
<1> QED BY <1>5, <1>7, <1>8, <1>9, <1>10, <1>11

\* What Normalize says of lines.
LEMMA NormalizesWhole ==
    ASSUME NEW lines, IsLines(lines), NEW max \in Nat, NEW fails \in BOOLEAN
    PROVE  LET r == BR!Normalize(lines, fails, max) IN
           /\ Formed(r)
           /\ \E n \in 0..Len(lines) :
                /\ BR!Counted(lines, n, r)
                /\ r.diagnostics = {} /\ (\A j \in 1..Len(lines) : lines[j].end /= 2) =>
                    /\ n = Len(lines) /\ ~fails
                    /\ \A j \in 1..Len(lines) : lines[j].event.type \notin BR!Unusable
<1> DEFINE m == Len(lines)
           r == BR!Normalize(lines, fails, max)
           Straight == \A j \in 1..m : lines[j].end /= 2
           AllUsable == \A j \in 1..m : lines[j].event.type \notin BR!Unusable
<1>1. m \in Nat
  BY DEF IsLines
<1>2. PICK a : /\ a[0] = BR!Fresh
               /\ \A i \in 1..m : a[i] = BR!Scan(a[i - 1], lines, i, max)
               /\ r = IF fails /\ ~a[m].stopped THEN BR!Told(a[m], "input_failed") ELSE a[m]
  BY <1>1, NormalizeSteps
<1> HIDE DEF r
<1> DEFINE T == {i \in 0..m : Reads(lines, i, a[i])}
<1>3. 0 \in T
  <2>1. /\ Formed(a[0]) /\ a[0].diagnostics = {} /\ ~a[0].stopped /\ a[0].bytes = 0 /\ BR!Counted(lines, 0, a[0])
    BY <1>2, FreshIs
  <2>2. 0 \in 0..0 /\ 1..0 = {} /\ BR!Ends(lines)[0] = 0 /\ Limit \in Nat
    BY EndsAre, LimitsAssumption
  <2>3. Reads(lines, 0, a[0])
    BY <2>1, <2>2 DEF Reads
  <2> QED BY <1>1, <2>3
<1>4. ASSUME NEW i \in 1..m, i - 1 \in T PROVE i \in T
  <2>1. Reads(lines, i - 1, a[i - 1]) /\ i \in 0..m
    BY <1>1, <1>4
  <2>2. Reads(lines, i, BR!Scan(a[i - 1], lines, i, max))
    BY <2>1, ReadsOn
  <2> QED BY <1>2, <2>1, <2>2
<1>5. Reads(lines, m, a[m])
  <2>1. 0..m \subseteq T
    <3> HIDE DEF T, m
    <3> QED BY <1>1, <1>3, <1>4, Steps
  <2>2. m \in 0..m
    BY <1>1
  <2> QED BY <2>1, <2>2
<1>6. Formed(a[m]) /\ (a[m].stopped => a[m].diagnostics /= {})
  BY <1>5 DEF Reads
<1>7. PICK n \in 0..m : BR!Counted(lines, n, a[m]) /\ (a[m].diagnostics = {} /\ Straight => n = m /\ AllUsable)
  BY <1>5 DEF Reads
<1> HIDE DEF m, Straight, AllUsable
<1>8. CASE fails /\ ~a[m].stopped
  <2>1. r = BR!Told(a[m], "input_failed")
    BY <1>2, <1>8
  <2>2. Formed(r) /\ SameCounts(a[m], r) /\ r.diagnostics /= {}
    BY <1>6, <2>1, ToldIs
  <2>3. BR!Counted(lines, n, r)
    BY <1>7, <2>2, CountsStay
  <2> QED BY <2>2, <2>3 DEF r, m, Straight, AllUsable
<1>9. CASE ~(fails /\ ~a[m].stopped)
  <2>1. r = a[m]
    BY <1>2, <1>9
  <2>2. r.diagnostics = {} => ~fails
    BY <1>6, <1>9, <2>1
  <2>3. /\ Formed(r)
        /\ \E k \in 0..m : BR!Counted(lines, k, r) /\ (r.diagnostics = {} /\ Straight => k = m /\ ~fails /\ AllUsable)
    BY <1>6, <1>7, <2>1, <2>2
  <2> QED BY <2>3 DEF r, m, Straight, AllUsable
<1> QED BY <1>8, <1>9

\* eventwhy: a status of 0 is about all it was given.
LEMMA EventsAreRight ==
    ASSUME NEW in, BR!IsEvents(in)
    PROVE  BR!PassMeansEverything(in, BR!Eventwhy(in))
<1> DEFINE lines == in.lines
           m == Len(lines)
           out == BR!Eventwhy(in)
           r == IF in.collect THEN BR!Collect(in) ELSE BR!Normalize(lines, in.fails, in.max)
           Straight == \A j \in DOMAIN lines : lines[j].end /= 2
           AllUsable == \A j \in DOMAIN lines : lines[j].event.type \notin BR!Unusable
           Says(n) == BR!Counted(lines, n, r) /\ (r.diagnostics = {} /\ Straight => n = m /\ ~in.fails /\ AllUsable)
<1>1. IsLines(lines) /\ DOMAIN lines = 1..m /\ m \in Nat /\ in.max \in Nat /\ in.fails \in BOOLEAN /\ in.collect \in BOOLEAN
  <2>1. lines \in Seq({lines[i] : i \in DOMAIN lines})
    BY DEF BR!IsEvents
  <2>2. m \in Nat /\ DOMAIN lines = 1..m
    <3> HIDE DEF lines
    <3> QED BY <2>1
  <2>3. /\ in.max \in Nat /\ in.fails \in BOOLEAN /\ in.collect \in BOOLEAN
        /\ \A i \in 1..m : /\ lines[i].size \in Nat /\ lines[i].end \in 0..2 /\ lines[i].event.type \in Types
                           /\ lines[i].event.type = "container" => lines[i].event.time \in Nat
    BY <2>2 DEF BR!IsEvents, Types
  <2> HIDE DEF lines
  <2> QED BY <2>2, <2>3 DEF IsLines
<1>2. /\ out.exit = (IF r.diagnostics /= {} THEN 3 ELSE 0)
      /\ out.events = r.events /\ out.ignored = r.ignored /\ out.groups = r.groups
  <2> DEFINE q == r
  <2>1. out = [exit |-> IF q.diagnostics /= {} THEN 3 ELSE 0, events |-> q.events, ignored |-> q.ignored, groups |-> q.groups]
    BY DEF BR!Eventwhy
  <2> HIDE DEF q, out
  <2>2. /\ out.exit = (IF q.diagnostics /= {} THEN 3 ELSE 0)
        /\ out.events = q.events /\ out.ignored = q.ignored /\ out.groups = q.groups
    BY <2>1
  <2> QED BY <2>2 DEF q
<1> HIDE DEF out
<1>3. (in.collect => r.diagnostics /= {}) /\ \E n \in 0..m : Says(n)
  <2>1. CASE in.collect
    <3> DEFINE brought == BR!Run(lines, ~in.fails)
               given == IF brought THEN lines ELSE <<>>
               what == IF brought THEN "history_is_limited" ELSE "collection_failed"
               q == BR!Normalize(given, FALSE, in.max)
    <3>1. r = BR!Told(q, what)
      BY <2>1 DEF BR!Collect
    <3> HIDE DEF what, r
    <3>2. Formed(q) /\ \E n \in 0..m : BR!Counted(lines, n, q)
      <4>1. CASE brought
        <5>1. q = BR!Normalize(lines, FALSE, in.max)
          BY <4>1
        <5> HIDE DEF q, brought
        <5>2. Formed(q) /\ \E n \in 0..Len(lines) : BR!Counted(lines, n, q)
          BY <1>1, <5>1, NormalizesWhole
        <5> QED BY <5>2
      <4>2. CASE ~brought
        <5>1. q = BR!Normalize(<<>>, FALSE, in.max)
          BY <4>2
        <5>2. PICK a : a[0] = BR!Fresh /\ q = a[0]
          <6>1. Len(<<>>) = 0
            OBVIOUS
          <6> DEFINE none == <<>>
          <6> HIDE DEF none, q
          <6>2. \E a : a[0] = BR!Fresh /\ BR!Normalize(none, FALSE, in.max) = a[0]
            <7>1. Len(none) = 0
              BY <6>1 DEF none
            <7>2. \E a : /\ a[0] = BR!Fresh
                         /\ BR!Normalize(none, FALSE, in.max) =
                                IF FALSE /\ ~a[Len(none)].stopped THEN BR!Told(a[Len(none)], "input_failed") ELSE a[Len(none)]
              <8>1. Len(none) \in Nat
                BY <7>1
              <8> QED BY <8>1, NormalizeSteps, Zenon
            <7>3. PICK a : /\ a[0] = BR!Fresh
                          /\ BR!Normalize(none, FALSE, in.max) =
                                IF FALSE /\ ~a[Len(none)].stopped THEN BR!Told(a[Len(none)], "input_failed") ELSE a[Len(none)]
              BY <7>2
            <7> QED BY <7>1, <7>3
          <6> QED BY <5>1, <6>2 DEF none
        <5> HIDE DEF q, brought, lines
        <5>3. Formed(q) /\ BR!Counted(lines, 0, q)
          BY <5>2, FreshIs
        <5>4. 0 \in 0..m
          BY <1>1
        <5> QED BY <5>3, <5>4
      <4> QED BY <4>1, <4>2
    <3> HIDE DEF q
    <3>3. SameCounts(q, r) /\ r.diagnostics /= {}
      BY <3>1, <3>2, ToldIs
    <3>4. PICK n \in 0..m : BR!Counted(lines, n, q)
      BY <3>2
    <3>5. BR!Counted(lines, n, r)
      BY <3>3, <3>4, CountsStay
    <3>6. r.diagnostics /= {} /\ \E k \in 0..m : Says(k)
      BY <3>3, <3>4, <3>5
    <3> QED BY <3>6 DEF r
  <2>2. CASE ~in.collect
    <3>1. r = BR!Normalize(lines, in.fails, in.max)
      BY <2>2
    <3> HIDE DEF r, lines
    <3>2. \E n \in 0..Len(lines) :
            /\ BR!Counted(lines, n, r)
            /\ r.diagnostics = {} /\ (\A j \in 1..Len(lines) : lines[j].end /= 2) =>
                /\ n = Len(lines) /\ ~in.fails
                /\ \A j \in 1..Len(lines) : lines[j].event.type \notin BR!Unusable
      BY <1>1, <3>1, NormalizesWhole
    <3>3. \E n \in 0..m : Says(n)
      BY <1>1, <3>2
    <3> QED BY <2>2, <3>3 DEF r, lines
  <2> QED BY <1>1, <2>1, <2>2
<1> HIDE DEF r
<1>4. PICK n \in 0..m : Says(n)
  BY <1>3
<1>5. BR!Counted(lines, n, out)
  <2>1. SameCounts(r, out) /\ BR!Counted(lines, n, r)
    BY <1>2, <1>4 DEF SameCounts
  <2> QED BY <2>1, CountsStay
<1>6. /\ in.collect => out.exit = 3
      /\ out.exit = 0 /\ Straight => n = m /\ ~in.fails /\ AllUsable
  BY <1>2, <1>3, <1>4
<1>7. BR!PassMeansEverything(in, out)
  BY <1>4, <1>5, <1>6 DEF BR!PassMeansEverything
<1> QED BY <1>7 DEF out

-----------------------------------------------------------------------------
\* What is true before and after the one step of a program.
Result(t, in) ==
    CASE t = "envsub" -> VM!Both(in)
      [] t = "hashsum" -> HV!RoundTrip(in)
      [] t = "jsongate" -> JG!Gate(in)
      [] t = "homestate" -> HC!Check(in)
      [] t = "metascore" -> MS!Metascore(in)
      [] t = "dtp" -> DB!Dtp(in)
      [] t = "ports" -> HE!Ports(in)
      [] t = "restartwhy" -> HE!Restartwhy(in)
      [] t = "pwatch" -> HE!Samples(in)
      [] t = "unitwhy" -> HE!Unitwhy(in)
      [] t = "contextsnap" -> HE!Contextsnap(in)
      [] t = "cded" -> HE!Cded(in)
      [] t = "osx" -> MC!Osx(in)
      [] t = "aaas" -> MC!Aaas(in)
      [] t = "eventwhy" -> BR!Eventwhy(in)
      [] t = "selinuxwhy" -> BR!Selinuxwhy(in)
      [] t = "pcapwhy" -> PW!Analyze(in)

ReportInv ==
    /\ tool \in Tools
    /\ IsInput(tool, input)
    /\ output \in {<<>>, Result(tool, input)}

LEMMA InitReport == ReportsInit => ReportInv
  BY DEF ReportsInit, ReportInv

LEMMA StepReport ==
    ASSUME ReportInv, [ReportsNext]_<<tool, input, output>>
    PROVE  ReportInv'
<1>1. CASE UNCHANGED <<tool, input, output>>
  BY <1>1 DEF ReportInv
<1>2. CASE ReportsNext
  <2>1. tool' = tool /\ input' = input /\ output' = Result(tool, input)
    BY <1>2 DEF ReportsNext, Envsub, Verify, Gate, Check, Metascore, Dtp, Ports, Restartwhy, Pwatch, Unitwhy,
      Contextsnap, Cded, Osx, Aaas, Eventwhy, Selinuxwhy, Pcapwhy, Result
  <2> QED BY <2>1 DEF ReportInv
<1> QED BY <1>1, <1>2

LEMMA ReportInvariant == ReportsSpec => []ReportInv
<1>1. ReportInv /\ [ReportsNext]_<<tool, input, output>> => ReportInv'
  BY StepReport
<1> QED BY InitReport, <1>1, PTL DEF ReportsSpec

\* For any env files, environment, --set arguments, schema and template, envsub renders
\* the highest source of each key and shows no secret, and varmerge agrees with it on
\* the value and the source (internal/envsub, Run; internal/varmerge, Merge).
THEOREM HighestSourceWins == ReportsSpec => []SourcesDecide
<1>1. ASSUME ReportInv PROVE SourcesDecide
  <2>1. SUFFICES ASSUME tool = "envsub", output /= <<>>
                 PROVE  /\ VM!RenderFollowsSources(input, output.sub)
                        /\ VM!MergeAgreesWithEnvSub(input, output.sub, output.merge)
    BY DEF SourcesDecide, Of
  <2>2. VM!IsSources(input) /\ output = VM!Both(input)
    BY <1>1, <2>1 DEF ReportInv, IsInput, Result
  <2>3. output.sub = VM!Run(input) /\ output.merge = VM!Merge(input)
    BY <2>2 DEF VM!Both
  <2> QED BY <2>2, <2>3, RenderIsRight, MergeIsRight
<1> QED BY <1>1, ReportInvariant, PTL

\* hashsum verify tells what is not as hashsum create found it, of any trees, paths
\* and edits of the manifest (internal/hashsum, Create and Verify).
THEOREM VerifyTells == ReportsSpec => []VerifyTellsChanges
<1>1. ASSUME ReportInv PROVE VerifyTellsChanges
  <2>1. SUFFICES ASSUME tool = "hashsum", output /= <<>>
                 PROVE  HV!VerifyTellsChanges(input, output)
    BY DEF VerifyTellsChanges, Of
  <2>2. input \in HV!Inputs(Names, Contents) /\ output = HV!RoundTrip(input)
    BY <1>1, <2>1 DEF ReportInv, IsInput, Result
  <2> QED BY <2>2, VerifyIsRight
<1> QED BY <1>1, ReportInvariant, PTL

\* jsongate decides for the worst of any findings in any order, under any policy
\* (internal/jsongate, Evaluate).
THEOREM GateDecides == ReportsSpec => []DecisionIsTheWorst
<1>1. ASSUME ReportInv PROVE DecisionIsTheWorst
  <2>1. SUFFICES ASSUME tool = "jsongate", output /= <<>>
                 PROVE  JG!DecisionIsTheWorst(input, output)
    BY DEF DecisionIsTheWorst, Of
  <2>2. input.lines \in Seq(GateLines) /\ output = JG!Gate(input)
    BY <1>1, <2>1 DEF ReportInv, IsInput, Result
  <2> QED BY <2>2, GateIsRight
<1> QED BY <1>1, ReportInvariant, PTL

\* homestate, metascore and dtp explain the difference of any two trees, the second
\* one scanned after the first was kept (internal/homestate, Compare; internal/metascore,
\* Check; internal/macossec, CheckDaemonBaseline).
THEOREM TreesExplained == ReportsSpec => []ChangesExplainTrees
<1>1. ASSUME ReportInv PROVE ChangesExplainTrees
  <2>1. Of("homestate") => HC!ChangesExplainTrees(input, output)
    <3>1. Of("homestate") => HC!IsInput(input) /\ output = HC!Check(input)
      BY <1>1 DEF ReportInv, IsInput, Result, Of
    <3> QED BY <3>1, HomeIsRight
  <2>2. Of("metascore") => MS!ScoresExplainTrees(input, output)
    <3>1. Of("metascore") => MS!IsInput(input) /\ output = MS!Metascore(input)
      BY <1>1 DEF ReportInv, IsInput, Result, Of
    <3> QED BY <3>1, MetaIsRight
  <2>3. Of("dtp") => DB!CheckedMeansSigned(input, output)
    <3>1. Of("dtp") => DB!IsInput(input) /\ output = DB!Dtp(input)
      BY <1>1 DEF ReportInv, IsInput, Result, Of
    <3> QED BY <3>1, DaemonIsRight
  <2> QED BY <2>1, <2>2, <2>3 DEF ChangesExplainTrees
<1> QED BY <1>1, ReportInvariant, PTL

\* What ports, restartwhy, pwatch, unitwhy and contextsnap say of any host is what they
\* have read of it, whatever processes do meanwhile; cded, osx and aaas change no more
\* than they were asked to (internal/ports, internal/restartwhy, internal/unitwhy,
\* internal/contextsnap, internal/osx, cmd/pwatch, cmd/cded, cmd/aaas).
THEOREM EvidenceRead == ReportsSpec => []EvidenceIsRead
<1>1. ASSUME ReportInv PROVE EvidenceIsRead
  <2>1. Of("ports") => HE!PortsAreHeld(input, output)
    <3>1. Of("ports") => HE!IsHost(input) /\ output = HE!Ports(input)
      BY <1>1 DEF ReportInv, IsInput, Result, Of
    <3> QED BY <3>1, PortsIsRight
  <2>2. Of("restartwhy") => HE!RestartsAreSeen(input, output)
    <3>1. Of("restartwhy") => HE!IsRestart(input) /\ output = HE!Restartwhy(input)
      BY <1>1 DEF ReportInv, IsInput, Result, Of
    <3> QED BY <3>1, RestartsAreRight
  <2>3. Of("pwatch") => HE!SamplesAreKept(input, output)
    <3>1. Of("pwatch") => HE!IsWatch(input) /\ output = HE!Samples(input)
      BY <1>1 DEF ReportInv, IsInput, Result, Of
    <3> QED BY <3>1, SamplesAreRight
  <2>4. Of("unitwhy") => HE!UnitsAreTold(input, output)
    <3>1. Of("unitwhy") => HE!IsUnit(input) /\ output = HE!Unitwhy(input)
      BY <1>1 DEF ReportInv, IsInput, Result, Of
    <3> QED BY <3>1, UnitsAreRight
  <2>5. Of("contextsnap") => HE!IdentityIsWhole(input, output)
    <3>1. Of("contextsnap") => HE!IsContext(input) /\ output = HE!Contextsnap(input)
      BY <1>1 DEF ReportInv, IsInput, Result, Of
    <3> QED BY <3>1, IdentityIsRight
  <2>6. Of("cded") => HE!DrainIsEarned(input, output)
    <3>1. Of("cded") => HE!IsClipboard(input) /\ output = HE!Cded(input)
      BY <1>1 DEF ReportInv, IsInput, Result, Of
    <3> QED BY <3>1, DrainIsRight
  <2>7. Of("osx") => MC!NothingChangesUnasked(input, output)
    <3>1. Of("osx") => MC!IsCommand(input) /\ output = MC!Osx(input)
      BY <1>1 DEF ReportInv, IsInput, Result, Of
    <3> QED BY <3>1, OsxIsRight
  <2>8. Of("aaas") => MC!RevokedIsAsked(input, output)
    <3>1. Of("aaas") => MC!IsAudit(input) /\ output = MC!Aaas(input)
      BY <1>1 DEF ReportInv, IsInput, Result, Of
    <3> QED BY <3>1, AaasIsRight
  <2> QED BY <2>1, <2>2, <2>3, <2>4, <2>5, <2>6, <2>7, <2>8 DEF EvidenceIsRead
<1> QED BY <1>1, ReportInvariant, PTL

\* Of any lines, logs and captures, under any limits, eventwhy, selinuxwhy and pcapwhy leave
\* nothing out without saying so, but pcapwhy what comes after its bound of flows
\* (internal/eventwhy, Normalize and Collect; internal/selinuxwhy, Inspect; internal/pcapwhy,
\* Analyze).
THEOREM PassesAreWhole == ReportsSpec => []PassMeansEverything
<1>1. ASSUME ReportInv PROVE PassMeansEverything
  <2>1. Of("eventwhy") => BR!PassMeansEverything(input, output)
    <3>1. Of("eventwhy") => BR!IsEvents(input) /\ output = BR!Eventwhy(input)
      BY <1>1 DEF ReportInv, IsInput, Result, Of
    <3> QED BY <3>1, EventsAreRight
  <2>2. Of("selinuxwhy") => BR!DenialsAreTold(input, output)
    <3>1. Of("selinuxwhy") => BR!IsLog(input) /\ output = BR!Selinuxwhy(input)
      BY <1>1 DEF ReportInv, IsInput, Result, Of
    <3> QED BY <3>1, DenialsAreRight
  <2>3. Of("pcapwhy") => PW!CompleteMeansAll(input, output)
    <3>1. Of("pcapwhy") => PW!IsCaptures(input) /\ output = PW!Analyze(input)
      BY <1>1 DEF ReportInv, IsInput, Result, Of
    <3> QED BY <3>1, PcapIsRight
  <2> QED BY <2>1, <2>2, <2>3 DEF PassMeansEverything
<1> QED BY <1>1, ReportInvariant, PTL
=============================================================================
