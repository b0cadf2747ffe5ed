------------------------------- MODULE JsonGate ------------------------------
(***************************************************************************)
(* jsongate turns findings into a decision (internal/jsongate, Decode and  *)
(* Evaluate; cmd/jsongate).  A line of its input is a finding [code,       *)
(* severity], NoCode and NoSeverity when it has none.                      *)
(***************************************************************************)
EXTENDS Integers, SequencesExt

NoCode == ""
NoSeverity == ""
Severities == <<"info", "low", "medium", "high", "critical">>

rank(s) == IF s \in Range(Severities) THEN (CHOOSE i \in 1..5 : Severities[i] = s) - 1 ELSE -1
validSeverity(s) == rank(s) >= 0

\* An empty deny_at is high; approval_at may be left out.
DenyAt(policy) == IF policy.deny_at = NoSeverity THEN "high" ELSE policy.deny_at
LoadPolicy(policy) == validSeverity(DenyAt(policy))
    /\ (policy.approval_at /= NoSeverity => validSeverity(policy.approval_at))

Decode(lines) == \A i \in DOMAIN lines : lines[i].code /= NoCode /\ validSeverity(lines[i].severity)

Denies(f, policy) ==
    \/ f.code \in policy.deny_codes
    \/ f.code \notin policy.allow_codes /\ rank(f.severity) >= rank(DenyAt(policy))

NeedsApproval(f, policy) ==
    /\ policy.approval_at /= NoSeverity
    /\ f.code \notin policy.allow_codes /\ rank(f.severity) >= rank(policy.approval_at)

Because(result, decision, f) == [decision |-> decision, reasons |-> result.reasons \union {f}]

\* Mutant: a finding that needs approval takes a denial back.
Weigh_Last(result, f, policy) ==
    CASE Denies(f, policy) -> Because(result, "deny", f)
      [] ~Denies(f, policy) /\ NeedsApproval(f, policy) -> Because(result, "approval_required", f)
      [] OTHER -> result

\* Of those that need approval only the first is a reason.
Weigh(result, f, policy) ==
    CASE Denies(f, policy) -> Because(result, "deny", f)
      [] ~Denies(f, policy) /\ NeedsApproval(f, policy) /\ result.decision = "pass" ->
            Because(result, "approval_required", f)
      [] OTHER -> result

\* The reasons are sorted by code before they are printed: their order says nothing,
\* and here they are a set.
Evaluate(findings, policy) ==
    LET weighed[n \in 0..Len(findings)] ==
            IF n = 0 THEN [decision |-> "pass", reasons |-> {}]
            ELSE Weigh(weighed[n - 1], findings[n], policy)
    IN  weighed[Len(findings)]

\* Only a denial is a failure of the command.
Gate(in) ==
    IF ~LoadPolicy(in.policy) \/ ~Decode(in.lines)
    THEN [exit |-> 2, decision |-> "none", reasons |-> {}]
    ELSE LET result == Evaluate(in.lines, in.policy)
         IN  [exit |-> IF result.decision = "deny" THEN 1 ELSE 0,
              decision |-> result.decision, reasons |-> result.reasons]

-----------------------------------------------------------------------------
\* The decision is the worst that a finding calls for, in whatever order the
\* findings come; it has a reason among them and no reason that calls for less
\* than approval; every finding that denies is a reason; and a line that is no
\* finding is never passed over.
DecisionIsTheWorst(in, out) ==
    LET findings == Range(in.lines)
        Alone(f) == Evaluate(<<f>>, in.policy).decision
    IN  IF \E f \in findings : f.code = NoCode \/ ~validSeverity(f.severity)
        THEN out.exit = 2
        ELSE out.exit /= 2 =>
            /\ out.decision = IF \E f \in findings : Alone(f) = "deny" THEN "deny"
                              ELSE IF \E f \in findings : Alone(f) = "approval_required"
                              THEN "approval_required" ELSE "pass"
            /\ out.decision /= "pass" => \E f \in out.reasons : Alone(f) = out.decision
            /\ \A f \in out.reasons : Alone(f) /= "pass"
            /\ \A f \in findings : Alone(f) = "deny" => f \in out.reasons
            /\ out.exit = 1 <=> out.decision = "deny"
=============================================================================
