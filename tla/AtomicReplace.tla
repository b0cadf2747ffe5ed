---------------------------- MODULE AtomicReplace ----------------------------
(***************************************************************************)
(* NFR-R1 of specs/V1.md: a save "either leaves the prior destination      *)
(* intact or replaces it with a complete new file".  A destination is a    *)
(* register; what it holds is the prior file or all of what one save wrote.*)
(***************************************************************************)
CONSTANTS Savers, Prior

VARIABLES
    value,      \* whose complete file the destination holds
    saved       \* what became of each save: "pending", "installed", "failed"

avars == <<value, saved>>

Holders == {Prior} \union {s \in Savers : saved[s] = "installed"}

AInit == value = Prior /\ saved = [s \in Savers |-> "pending"]

Install(s) ==
    /\ saved[s] = "pending"
    /\ value' = s
    /\ saved' = [saved EXCEPT ![s] = "installed"]

GiveUp(s) ==
    /\ saved[s] = "pending"
    /\ saved' = [saved EXCEPT ![s] = "failed"]
    /\ UNCHANGED value

\* No save syncs the directory: a power loss may bring back an earlier file,
\* never a part of one.
Revert == value' \in Holders /\ UNCHANGED saved

ANext == Revert \/ \E s \in Savers : Install(s) \/ GiveUp(s)

ASpec == AInit /\ [][ANext]_avars
=============================================================================
