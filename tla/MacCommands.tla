----------------------------- MODULE MacCommands -----------------------------
(***************************************************************************)
(* Two macOS tools.  osx runs programs of the system, and those that       *)
(* change it only with --apply (internal/osx).  aaas revokes a grant and   *)
(* then lists those of a database (cmd/aaas, internal/macossec).           *)
(***************************************************************************)
EXTENDS Integers, Sequences

\* What is not given.
Empty == ""

\* osx: what a command runs, one program after the other. Its arguments are counted
\* only where they are used. (Of the commands that differ in their words alone there is
\* one here: "info_show" is any that reads and takes no argument.)
One(program, counts) == [programs |-> <<program>>, counts |-> counts, mutate |-> FALSE]

Mutating(program, counts) == [One(program, counts) EXCEPT !.mutate = TRUE]
Unchecked == 0..4   \* the number of arguments
Plain == {"info_show", "battery_status", "dns_status", "updates_list", "volume_get"}
Actions == Plain \union {"spotlight_search", "clipboard_read", "defaults_read", "dns_flush", "launch_open",
    "updates_install", "caffeinate_start", "files_copy", "clipboard_write", "defaults_write", "defaults_delete",
    "volume_set", "volume_mute"}
NativeCommands == [a \in Actions |->
    CASE a \in Plain -> One(a, Unchecked)
      [] a = "spotlight_search" -> One("mdfind", {1})
      [] a = "clipboard_read" -> One("pbpaste", {0})
      [] a = "defaults_read" -> One("defaults", {1, 2})
      [] a = "dns_flush" -> [Mutating("dscacheutil", Unchecked) EXCEPT !.programs = <<"dscacheutil", "killall">>]
      [] a = "launch_open" -> Mutating("open", {1})
      [] a = "updates_install" -> Mutating("softwareupdate", Unchecked)
      [] a = "caffeinate_start" -> Mutating("caffeinate", {0})
      [] a = "files_copy" -> Mutating("ditto", {2})
      [] a = "clipboard_write" -> Mutating("pbcopy", {1})
      [] a = "defaults_write" -> Mutating("defaults", {4})
      [] a = "defaults_delete" -> Mutating("defaults", {1, 2})
      [] a = "volume_set" -> Mutating("osascript", {1})
      [] a = "volume_mute" -> Mutating("osascript", Unchecked)]

\* The arguments that are looked at: a type of defaults, a percentage.
Fitting(action, args) ==
    /\ action = "defaults_write" => args[3] \in {"string", "bool", "int", "float"}
    /\ action = "volume_set" => args[1] \in {"0", "100"}

Execute(in) ==
    LET command == NativeCommands[in.action]
        known == in.action \in DOMAIN NativeCommands /\ Len(in.args) \in command.counts /\ Fitting(in.action, in.args)
        refused == ~known \/ (command.mutate /\ ~in.apply)
        failing == {i \in DOMAIN command.programs : command.programs[i] \in in.fails}
        last == IF failing = {} THEN Len(command.programs) ELSE CHOOSE i \in failing : \A j \in failing : i <= j
    IN  IF refused THEN [exit |-> 4, ran |-> <<>>]
        ELSE [exit |-> IF failing = {} THEN 0 ELSE 4, ran |-> SubSeq(command.programs, 1, last)]

Osx(in) ==
    IF in.duration < 0 \/ in.action = Empty THEN [exit |-> 2, ran |-> <<>>] ELSE Execute(in)

-----------------------------------------------------------------------------
\* aaas: the grant is gone from the user's database before one is read, that or another.
AuditAccessibility(in, revoked) ==
    IF in.database = "own" THEN in.grants \ revoked ELSE in.others

Aaas(in) ==
    LET revoked == IF in.revoke /= Empty /\ in.apply /\ in.tccutil = "ends" THEN {in.revoke} ELSE {}
        end(code, grants) == [exit |-> code, revoked |-> revoked, grants |-> grants]
    IN  IF in.revoke /= Empty /\ ~in.apply THEN end(2, {})
        ELSE IF in.revoke /= Empty /\ in.tccutil = "fails" THEN end(4, {})
        ELSE IF in.sqlite = "fails" THEN end(4, {})
        ELSE end(0, AuditAccessibility(in, revoked))

\* What the two can be given.
IsCommand(in) ==
    /\ in.action \in STRING /\ in.apply \in BOOLEAN /\ in.duration \in Int
    /\ in.args \in Seq(STRING) /\ in.fails \subseteq STRING
IsAudit(in) ==
    /\ in.database \in {"own", "other"} /\ in.grants \subseteq STRING /\ in.others \subseteq STRING
    /\ in.revoke \in STRING /\ in.apply \in BOOLEAN
    /\ in.tccutil \in {"ends", "fails"} /\ in.sqlite \in {"ends", "fails"}

-----------------------------------------------------------------------------
\* What the usage of osx lists as "Actions requiring --apply".
RequiringApply ==
    {"caffeinate_start", "launch_open", "dns_flush", "updates_install", "defaults_write", "defaults_delete",
     "clipboard_write", "files_copy", "volume_set", "volume_mute"}

\* osx runs nothing of those unasked, passes only when every program ended well, and
\* runs none after one that failed; what ran before it has taken effect.
NothingChangesUnasked(in, out) ==
    /\ in.action \in RequiringApply /\ out.ran /= <<>> => in.apply
    /\ out.exit = 0 => (\A i \in DOMAIN out.ran : out.ran[i] \notin in.fails) /\ (in.action = "dns_flush" => Len(out.ran) = 2)
    /\ \A i \in DOMAIN out.ran : out.ran[i] \in in.fails => i = Len(out.ran) /\ out.exit = 4

\* aaas revokes only the grant that it is asked to, with --apply; a pass says that it is
\* revoked, and the list of the user's own database is one without it.
RevokedIsAsked(in, out) ==
    /\ out.revoked /= {} => out.revoked = {in.revoke} /\ in.apply
    /\ out.exit = 0 /\ in.revoke /= Empty => in.revoke \in out.revoked
    /\ out.exit = 0 /\ in.database = "own" => out.revoked \intersect out.grants = {} /\ in.grants \ out.grants \subseteq {in.revoke}
=============================================================================
