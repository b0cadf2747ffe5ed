--------------------------- MODULE ReceiptEvidence ---------------------------
(***************************************************************************)
(* What a receipt promises its reader, whatever happens to the program     *)
(* that writes it: nothing is launched before an intent is on record, a    *)
(* verdict is recorded only when no direct child is left, and a verdict of *)
(* completion carries the exit code every child really had.                *)
(***************************************************************************)
EXTENDS Integers

CONSTANTS Stage, Codes      \* Codes \subseteq Nat

VARIABLES
    evidence,   \* "none", "intent", "completed" or "incomplete"
    claim,      \* the exit code the record claims of each stage, if any
    outcome     \* what became of each child

evars == <<evidence, claim, outcome>>

NoClaim == -1
Signalled == -1     \* it died of a signal
Running == -2
NotLaunched == -3

EInit ==
    /\ evidence = "none"
    /\ claim = [i \in Stage |-> NoClaim]
    /\ outcome = [i \in Stage |-> NotLaunched]

RecordIntent ==
    /\ evidence = "none"
    /\ evidence' = "intent"
    /\ UNCHANGED <<claim, outcome>>

Launch(i) ==
    /\ evidence = "intent" /\ outcome[i] = NotLaunched
    /\ outcome' = [outcome EXCEPT ![i] = Running]
    /\ UNCHANGED <<evidence, claim>>

End(i) ==
    /\ outcome[i] = Running
    /\ \E c \in Codes \union {Signalled} : outcome' = [outcome EXCEPT ![i] = c]
    /\ UNCHANGED <<evidence, claim>>

\* The verdict may leave a code out, but never invents one; only a verdict
\* with every code is a completion.
Conclude ==
    /\ evidence = "intent"
    /\ \A i \in Stage : outcome[i] /= Running
    /\ claim' \in [Stage -> Codes \union {NoClaim}]
    /\ \A i \in Stage : claim'[i] /= NoClaim => claim'[i] = outcome[i]
    /\ evidence' \in {"completed", "incomplete"}
    /\ evidence' = "completed" => \A i \in Stage : claim'[i] /= NoClaim
    /\ UNCHANGED outcome

ENext ==
    \/ RecordIntent
    \/ \E i \in Stage : Launch(i) \/ End(i)
    \/ Conclude

ESpec == EInit /\ [][ENext]_evars
=============================================================================
