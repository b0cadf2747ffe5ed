----------------------------- MODULE HostEvidence -----------------------------
(***************************************************************************)
(* The tools that describe a host in motion: ports and portwhy, restartwhy *)
(* and pwatch read /proc entry by entry while processes come and go,       *)
(* unitwhy and contextsnap ask programs that may fail. A process is at      *)
(* in.moments[k] what it is when the k-th of the entries is read.           *)
(* cded reads the clipboard and clears it later.                            *)
(***************************************************************************)
EXTENDS Integers, Sequences, FiniteSetsExt

\* What is not given.
Empty == ""

Reverse4(b) == <<b[4], b[3], b[2], b[1]>>

\* /proc/net writes an address in words of 32 bits, the lowest byte first.
Hex(address) ==
    IF Len(address) = 4 THEN Reverse4(address)
    ELSE [i \in 1..16 |-> address[4 * ((i - 1) \div 4) + 4 - ((i - 1) % 4)]]

\* strconv.ParseInt(.., 16, 8): above the largest signed byte it returns that byte and
\* an error, which is ignored.
Octet(v) == IF v > 127 THEN 127 ELSE v

\* Mutant: the bytes in the order they are written in.
socketAddress_AsWritten(hex) == [i \in DOMAIN hex |-> Octet(hex[i])]

\* Only the word of IPv4 is turned round.
socketAddress(hex) ==
    IF Len(hex) = 4 THEN Reverse4([i \in 1..4 |-> Octet(hex[i])])
    ELSE [i \in 1..16 |-> Octet(hex[i])]

-----------------------------------------------------------------------------
\* A process of a moment: whether it lives, whether its entry shows what it holds.
\* owners: the processes of the first moment, each read at its own; of two that hold a
\* socket the one that is read last owns it.
owners(in) ==
    LET seen == {p \in DOMAIN in.moments[1] : in.moments[1][p].alive /\ in.moments[p][p].shown}
        holders(inode) == {p \in seen : inode \in in.moments[p][p].holds}
    IN  [inode \in UNION {in.moments[p][p].holds : p \in seen} |-> Max(holders(inode))]

\* read: rows that listen, each with its owner where there is one.
Listening(row) == row.state = "0A" \/ (row.transport = "udp" /\ row.state = "07")
Read(rows, owned) ==
    {[transport |-> row.transport, address |-> socketAddress(Hex(row.address)), port |-> row.port,
      inode |-> row.inode,
      pid |-> IF row.inode \in DOMAIN owned THEN owned[row.inode] ELSE 0,
      visibility |-> IF row.inode \in DOMAIN owned THEN "complete" ELSE "partial"] :
     row \in {row \in rows : Listening(row)}}

\* ports --port --transport: the owners first, then the tables that are asked for, and
\* nothing at all when one of them is missing.
List(in, port, transport) ==
    LET wanted == {"tcp", "udp"} \intersect (IF transport = Empty THEN {"tcp", "udp"} ELSE {transport})
        records == Read({row \in in.tables : row.transport \in wanted}, owners(in))
    IN  IF in.missing \intersect wanted /= {} THEN [exit |-> 4, records |-> {}]
        ELSE [exit |-> 0, records |-> {r \in records : port \in {0, r.port}}]

Portwhy(in, port) ==
    LET list == List(in, port, Empty)
        partial == \E r \in list.records : r.visibility = "partial"
    IN  IF port = 0 THEN [exit |-> 2, records |-> {}]
        ELSE IF list.exit = 0 /\ partial THEN [list EXCEPT !.exit = 3] ELSE list

Expose(in) ==
    LET list == List(in, 0, Empty) IN IF list.exit = 0 THEN [list EXCEPT !.exit = 3] ELSE list

Ports(in) ==
    [ports |-> List(in, in.port, in.transport), portwhy |-> Portwhy(in, in.port), expose |-> Expose(in)]

-----------------------------------------------------------------------------
\* restartwhy: what a process maps that was deleted; it cannot be read when it is gone
\* or hidden by then.
CannotRead == {0}
inspectPID(process) == IF process.shown THEN process.holds ELSE CannotRead

\* A process of the first moment is read at its own; one that is not asked for is not.
Inspect(in) ==
    LET candidates == {p \in DOMAIN in.moments[1] : in.moments[1][p].alive /\ in.pid \in {0, p}}
        maps(p) == inspectPID(in.moments[p][p])
    IN  [processes |-> {p \in candidates : maps(p) \notin {{}, CannotRead}},
         diagnostics |-> {p \in candidates : maps(p) = CannotRead}]

Restartwhy(in) ==
    LET report == Inspect(in) IN
    [processes |-> report.processes, diagnostics |-> report.diagnostics,
     exit |-> IF report.processes /= {} THEN 1 ELSE IF report.diagnostics /= {} THEN 3 ELSE 0]

\* pwatch: the status of a process that is there, that has exited, that ends between the
\* opening of its entry and the reading of it, or that is hidden.
Sample(process) == IF process \in {"ends", "hidden"} THEN "error" ELSE process

\* pwatch --count: a sample for each moment until the process has exited. An error ends
\* the command; only ndjson has printed the samples before it.
Pwatch(in) ==
    LET taken == [k \in DOMAIN in.samples |-> Sample(in.samples[k])]
        count == Min({k \in DOMAIN taken : taken[k] /= "ok"} \union {Len(taken)})
        error == taken[count] = "error"
    IN  [exit |-> IF error THEN 4 ELSE 0,
         printed |-> IF ~error THEN SubSeq(taken, 1, count)
                     ELSE IF in.format = "json" THEN <<>> ELSE SubSeq(taken, 1, count - 1)]

\* servicewhy: one sample, and never a pass.
Servicewhy(in) == IF Sample(in.samples[1]) = "error" THEN 4 ELSE 3

Samples(in) == [pwatch |-> Pwatch(in), servicewhy |-> Servicewhy(in)]

-----------------------------------------------------------------------------
\* unitwhy: the state that systemctl shows decides; the journal is further evidence.
boundedLines(lines, maximum) == Min({Len(lines), maximum})
Outcome(active, result) ==
    IF active = "active" /\ result \in {Empty, "success"} THEN "pass"
    ELSE IF active = "failed" \/ result = "failed" THEN "fail" ELSE "partial"

Unitwhy(in) ==
    LET journal == in.journalLines > 0 /\ in.journal /= "fails"
        outcome == Outcome(in.active, in.result)
        nothing(code) == [exit |-> code, journal |-> 0, diagnostics |-> {}]
        told(condition, what) == IF condition THEN {what} ELSE {}
    IN  IF in.unit \in {Empty, "path"} THEN nothing(2)
        ELSE IF in.systemctl = "fails" THEN nothing(4)
        ELSE [exit |-> CASE outcome = "pass" -> 0 [] outcome = "fail" -> 1 [] OTHER -> 3,
              journal |-> IF journal THEN boundedLines(in.lines, in.journalLines) ELSE 0,
              diagnostics |-> told(in.journalLines > 0 /\ ~journal, "journal_unavailable")
                              \union told(~in.fragment, "fragment_unavailable")]

\* contextsnap: an answer of the CLI or a saved one; the account is in the field of the
\* cloud, and neither it nor the principal is kept when one of them is unusable.
Safe(s) == s \notin {Empty, "lines", "long"}
Validate(in) == in.cloud \in {"aws", "alicloud"} /\ Safe(in.profile)
Partial == [exit |-> 3, account |-> Empty, principal |-> Empty]

Normalize(in) ==
    LET account == IF in.cloud = "alicloud" THEN in.answer.AccountId ELSE in.answer.Account
        usable == in.answer.valid /\ Safe(account) /\ Safe(in.answer.Arn)
    IN  IF ~usable THEN Partial
        ELSE [exit |-> IF in.observed = "now" THEN 0 ELSE 3, account |-> account, principal |-> in.answer.Arn]

Collect(in) ==
    IF in.program = "fails" THEN Partial ELSE Normalize([in EXCEPT !.observed = "now"])

Contextsnap(in) ==
    LET refused(code) == [Partial EXCEPT !.exit = code] IN
    IF ~Validate(in) \/ in.collect = (in.observed /= Empty) THEN refused(2)
    ELSE IF in.collect THEN Collect(in)
    ELSE IF in.program = "fails" THEN refused(4)
    ELSE Normalize(in)

\* cded --drain: the clipboard is read, then the frontmost application asked for, whose
\* name is empty when that fails, then the clipboard is cleared of whatever it holds.
Cded(in) ==
    LET frontmost == IF in.file \/ in.osascript = "fails" THEN Empty ELSE in.frontmost
        drains == in.drain /\ ~in.file /\ in.content = "secret" /\ frontmost /= in.allow
        end(code, drained) == [exit |-> code, matches |-> code = 0 /\ in.content = "secret", drained |-> drained,
                               cleared |-> IF drained THEN in.later ELSE "nothing"]
    IN  IF in.content = "fails" THEN end(4, FALSE)
        ELSE IF drains /\ in.pbcopy = "fails" THEN end(4, FALSE)
        ELSE end(0, drains)

-----------------------------------------------------------------------------
\* What the tools can be given: a process that is not there shows nothing and holds
\* nothing, and there is a moment for every process.
Process == {p \in [alive : BOOLEAN, shown : BOOLEAN, holds : SUBSET (Nat \ {0})] :
            ~p.alive => ~p.shown /\ p.holds = {}}
AreMoments(moments) ==
    LET n == Len(moments[1]) IN n \in 1..Len(moments) /\ moments \in Seq([1..n -> Process])
Row == [transport : {"tcp", "udp"}, state : STRING, address : [1..4 -> 0..255] \union [1..16 -> 0..255],
        port : Nat, inode : Nat]

IsHost(in) ==
    /\ AreMoments(in.moments) /\ in.tables \subseteq Row /\ in.missing \subseteq {"tcp", "udp"}
    /\ in.port \in Nat /\ in.transport \in {Empty, "tcp", "udp"}
IsRestart(in) == AreMoments(in.moments) /\ in.pid \in Nat
IsWatch(in) ==
    /\ in.samples \in Seq({"ok", "exited", "ends", "hidden"}) /\ in.samples /= <<>>
    /\ in.format \in {"json", "ndjson"}
IsUnit(in) ==
    /\ in.systemctl \in {"ends", "fails"} /\ in.journal \in {"ends", "fails"} /\ in.journalLines \in Int
    /\ in.lines \in Seq(STRING) /\ in.fragment \in BOOLEAN
IsContext(in) ==
    in \in [cloud : STRING, profile : STRING, collect : BOOLEAN, program : {"ends", "fails"}, observed : STRING,
            answer : [valid : BOOLEAN, Account : STRING, AccountId : STRING, Arn : STRING]]
IsClipboard(in) ==
    in \in [content : {"fails", "plain", "secret"}, later : {"plain", "secret"}, file : BOOLEAN, drain : BOOLEAN,
            frontmost : STRING, allow : STRING, osascript : {"ends", "fails"}, pbcopy : {"ends", "fails"}]

-----------------------------------------------------------------------------
\* ports lists every row that listens and no other. An address is the one of the row if
\* its octets fit a signed byte and, in IPv6, its words read the same from both ends.
RowsAreListed(in, list) ==
    LET rows == {row \in in.tables : Listening(row) /\ in.port \in {0, row.port} /\ in.transport \in {Empty, row.transport}}
        readable(a) == (\A i \in DOMAIN a : a[i] < 128) /\ (Len(a) = 16 => Hex(a) = a)
    IN  /\ \A row \in rows : \E r \in list.records : r.transport = row.transport /\ r.inode = row.inode
        /\ \A r \in list.records : \E row \in rows :
                /\ row.inode = r.inode /\ row.transport = r.transport
                /\ readable(row.address) <=> r.address = row.address

\* "complete" names a process that held the socket when its entry was read; "partial"
\* means that no process showed it, if nothing has changed since the first moment.
OwnersHeld(in, list) ==
    LET still == \A k \in DOMAIN in.moments : in.moments[k] = in.moments[1] IN
    \A r \in list.records :
        /\ r.visibility = "complete" => r.inode \in in.moments[r.pid][r.pid].holds
        /\ r.visibility = "partial" /\ still => \A p \in DOMAIN in.moments[1] :
                r.inode \in in.moments[1][p].holds => ~in.moments[1][p].shown

\* portwhy passes only with an owner of every socket of its port, and expose never.
PortsAreHeld(in, out) ==
    /\ out.ports.exit = 0 => RowsAreListed(in, out.ports) /\ OwnersHeld(in, out.ports)
    /\ out.portwhy.exit = 0 => \A r \in out.portwhy.records : r.visibility = "complete" /\ r.port = in.port
    /\ out.expose.exit /= 0

\* restartwhy passes only when it has read every process that it was to read, and an
\* exit of 1 names one; a process that no entry has is passed, too.
RestartsAreSeen(in, out) ==
    LET lasting == {p \in DOMAIN in.moments[1] : \A k \in DOMAIN in.moments : in.moments[k][p].alive /\ in.pid \in {0, p}}
    IN  /\ out.exit = 0 => \A p \in lasting : in.moments[p][p].shown /\ in.moments[p][p].holds = {}
        /\ (\E p \in lasting : in.moments[p][p].shown /\ in.moments[p][p].holds /= {}) <=> out.exit = 1 /\ out.processes \intersect lasting /= {}

\* pwatch stops at the first sample without a process, and loses samples only in JSON;
\* servicewhy fails only where it has nothing to print.
SamplesAreKept(in, out) ==
    LET printed == out.pwatch.printed IN
    /\ \A k \in 1..(Len(printed) - 1) : printed[k] = "ok"
    /\ Len(printed) < Len(in.samples) /\ out.pwatch.exit = 0 => printed[Len(printed)] = "exited"
    /\ out.servicewhy = 4 => printed = <<>>
    /\ out.pwatch.exit = 4 /\ in.format = "ndjson" => in.samples[Len(printed) + 1] \in {"ends", "hidden"}

\* unitwhy says failed of every unit whose state is, and passes none that is not active;
\* a journal that was asked for and is not there is told.
UnitsAreTold(in, out) ==
    /\ in.active = "failed" /\ out.exit \notin {2, 4} => out.exit = 1
    /\ out.exit = 0 => in.active = "active" /\ in.result \in {Empty, "success"}
    /\ out.exit \in {0, 1, 3} /\ in.journalLines > 0 /\ in.journal = "fails" => "journal_unavailable" \in out.diagnostics

\* contextsnap passes only a whole identity, and keeps no half of one.
IdentityIsWhole(in, out) ==
    /\ out.account = Empty <=> out.principal = Empty
    /\ out.exit = 0 => Safe(out.account) /\ Safe(out.principal) /\ in.program = "ends"
    /\ out.account /= Empty => out.account = (IF in.cloud = "aws" THEN in.answer.Account ELSE in.answer.AccountId)

\* cded clears only the clipboard, only when it is asked to, and what it read held a
\* secret; it clears other content only if the clipboard has changed since. A secret
\* stays for an application that is allowed, or when no name is known and none given.
DrainIsEarned(in, out) ==
    /\ out.drained => in.drain /\ ~in.file /\ in.content = "secret"
                      /\ (in.frontmost = in.allow => in.osascript = "fails")
    /\ out.cleared /= "secret" /\ out.drained => in.later /= in.content
    /\ out.exit = 0 /\ in.drain /\ ~in.file /\ in.content = "secret" /\ ~out.drained =>
        in.frontmost = in.allow \/ (in.osascript = "fails" /\ in.allow = Empty)
=============================================================================
