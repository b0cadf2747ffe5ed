------------------------------- MODULE MCReports -------------------------------
(***************************************************************************)
(* The tools that read, compute and write once: each is a function from    *)
(* its input to its output, and every input is one initial state.          *)
(***************************************************************************)
EXTENDS Integers, Sequences, TLC, Reports

JV == INSTANCE JsonValue

-----------------------------------------------------------------------------
\* envsub and varmerge: a key with a type, a default, optional or secret, and one
\* that no schema declares; templates with one placeholder or two; env files,
\* environment and arguments that cover each other, empty values among them.
MCValid == [string |-> {"", "7", "u"}, integer |-> {"7"}, url |-> {"u"}]
Field(t, d, o, s) == [type |-> t, default |-> d, optional |-> o, secret |-> s]
P(k, f) == [key |-> k, fallback |-> f]
None == "no default"
EnvInput == [
    template : {<<P("A", None)>>, <<P("A", "7")>>, <<P("A", "u"), P("B", "7")>>,
                <<P("A", "u"), P("A", "7")>>, <<P("?", None)>>},
    schemaGiven : {TRUE},
    schema : {<<>>, "A" :> Field("string", "u", FALSE, FALSE), "A" :> Field("integer", None, FALSE, TRUE),
              "A" :> Field("string", None, TRUE, FALSE), "A" :> Field("url", None, FALSE, FALSE),
              "A" :> Field("integer", "u", FALSE, FALSE)},
    files : {<<>>, <<"A" :> "7">>, <<"A" :> "u", "A" :> "7">>, <<"A" :> "", "B" :> "u">>},
    env : {<<>>, "A" :> "7", "A" :> ""},
    sets : {<<>>, <<[key |-> "A", value |-> "u"]>>,
            <<[key |-> "A", value |-> "u"], [key |-> "A", value |-> ""]>>},
    malformed : {FALSE}, strict : BOOLEAN, mode : {"list_keys", "check", "render"}]
EnvInputs == EnvInput
    \union {[in EXCEPT !.schema = <<>>, !.schemaGiven = FALSE] : in \in {in \in EnvInput : in.schema = <<>>}}
    \union {[in EXCEPT !.malformed = TRUE] : in \in {in \in EnvInput : in.files = <<>> /\ in.env = <<>>}}

\* homestate: a directory with a file that may be hidden with it, and two files
\* that may have the content of each other; a state file in the tree.
MCAbove == [p \in {"d", "d/f", "g", "h", "n", "s", "raw"} |-> IF p = "d/f" THEN {"d"} ELSE {}]
Entry(t, c, m) == [type |-> t, content |-> c, mode |-> m]
Plain(c) == Entry("file", c, 1)
Missing == Entry("gone", "", 0)
Tree(d, f, g, h) == LET all == "d" :> d @@ "d/f" :> f @@ "g" :> g @@ "h" :> h @@ "s" :> Plain("db") IN
    [p \in {p \in DOMAIN all : all[p] /= Missing} |-> all[p]]
Trees(modes) ==
    {Tree(Missing, Missing, g, h) : g \in {Missing, Plain("x"), Plain("y"), Entry("symlink", "x", 1)}, h \in {Missing, Plain("x")}}
    \union {Tree(Entry("dir", "", m), f, g, h) : m \in modes, f \in {Missing, Plain("x"), Plain("y")},
            g \in {Missing, Plain("x"), Plain("y")}, h \in {Missing, Plain("x"), Entry("file", "x", 2)}}
Blocked == {{}, {"d"}, {"g"}}
At(blocked, lost, changing) == [blocked |-> blocked, lost |-> lost, changing |-> changing]
Troubles == {At(b, {}, {}) : b \in Blocked} \union
    {At({}, {"d/f"}, {}), At({}, {"d"}, {}), At({"d"}, {"d"}, {}), At({}, {"g"}, {}), At({}, {}, {"g"}), At({"g"}, {}, {"g", "d"})}
FewTrees == {t \in Trees({1}) : "d" \in DOMAIN t /\ ("h" \in DOMAIN t => t["h"].mode = 1)}
HomeInputs ==
    [before : Trees({1}), after : Trees({1, 2}), atIndex : {At(b, {}, {}) : b \in Blocked}, atCheck : {At(b, {}, {}) : b \in Blocked}]
    \union [before : FewTrees, after : FewTrees, atIndex : Troubles, atCheck : Troubles]

\* hashsum: two paths, asked for in any form and twice; a manifest as it was
\* written or changed by hand.
Is(k, c) == [kind |-> k, content |-> c]
W(p, f) == [path |-> p, form |-> f]
VerifyInputs == [
    before : [a : {Is("file", 1), Is("changing", 1), Is("special", 0), Is("unreadable", 1), Is("link out", 1)},
              b : {Is("file", 1), Is("absent", 0)}],
    after : [a : {Is("file", 1), Is("file", 2), Is("changing", 1), Is("special", 0), Is("unreadable", 1),
                  Is("link", 1), Is("link out", 1), Is("absent", 0), Is("below a file", 0)},
             b : {Is("file", 1), Is("absent", 0)}],
    paths : {<<W("a", "plain")>>, <<W("a", "absolute"), W("b", "dotted")>>,
             <<W("a", "plain"), W("a", "dotted")>>, <<W("a", "outside"), W("b", "plain")>>},
    edit : {"none", "digests", "schema", "algorithm", "dotted", "absolute", "empty"},
    unexpected : BOOLEAN, listable : BOOLEAN]

\* jsongate: findings that deny, that need approval and that are allowed, in every
\* order, and lines that are no findings.
Finding(c, s) == [code |-> c, severity |-> s]
Findings == {Finding("a", "low"), Finding("a", "high"), Finding("b", "high"), Finding("b", "info"),
             Finding("c", "critical")}
MCGateLines == Findings \union {Finding("", "high"), Finding("a", "?")}
GatePolicies == [deny_at : {"", "critical", "?"}, approval_at : {"", "low", "critical"},
                 allow_codes : {{}, {"b"}, {"c"}}, deny_codes : {{}, {"b"}}]
GateInputs == [
    lines : {<<>>} \union [1..1 -> MCGateLines] \union [1..2 -> MCGateLines] \union [1..3 -> Findings],
    policy : GatePolicies]

\* tfchanges: plans of two changes that Terraform could write, and others; two
\* objects with one address; flags and networks at several depths.
Hints == "iam_role" :> {"iam", "role"} @@ "db_instance" :> {"db_"} @@ "vpc" :> {}
Terraform == {<<"no-op">>, <<"create">>, <<"read">>, <<"update">>, <<"delete">>,
              <<"delete", "create">>, <<"create", "delete">>, <<"forget">>}
Nothing == JV!Map(<<>>)
Flagged == JV!Map("a" :> JV!List(<<JV!Bool("false"), JV!Map("b" :> JV!Bool("true"))>>))
Change(address, type, actions, after, unknown, sensitive) ==
    [address |-> address, module |-> "m", provider |-> "p", type |-> type, actions |-> actions,
     after |-> after, after_unknown |-> unknown, before_sensitive |-> Nothing, after_sensitive |-> sensitive]
Open == JV!Map("ingress" :> JV!List(<<JV!Map("cidr_blocks" :> JV!List(<<JV!Str("10.0.0.0/8"), JV!Str("::/0")>>))>>))
TF == INSTANCE TfChanges
PlanChanges ==
    {Change(1, "vpc", a, Open, Nothing, Nothing) : a \in Terraform \union {<<>>, <<"create", "update">>}}
    \union {Change(1, "db_instance", <<"create", "delete">>, Nothing, Nothing, Flagged),
            Change(2, "iam_role", <<"delete">>, JV!Null, Nothing, Nothing),
            Change(2, "iam_role", <<"update">>, JV!Map("public_ip" :> JV!Str("1.2.3.4")), Flagged, Nothing)}
Plan(file, version, changes) == [file |-> file, version |-> version, changes |-> changes]
NoFilter == [patterns |-> <<>>, actions |-> {}]
PlanPolicies == [deny_at : {"critical"}, approval_at : {""}, allow_codes : {{}}, deny_codes : {{}, {"destructive_change"}}]
PlanInputs ==
    [plan : {Plan("whole", <<1, 2>>, c) : c \in {<<>>} \union [1..1 -> PlanChanges] \union [1..2 -> PlanChanges]},
     filter : {NoFilter, [NoFilter EXCEPT !.actions = {"delete"}], [NoFilter EXCEPT !.actions = {"create", "update"}],
               [NoFilter EXCEPT !.patterns = "type" :> {"iam_role"} @@ "address" :> {1, 2}]},
     policy : {[deny_at |-> "critical", approval_at |-> "", allow_codes |-> {}, deny_codes |-> {}]}]
    \union [plan : [file : {"whole", "missing", "too long", "two documents"}, version : {<<>>, <<1>>, <<1, 2>>, <<2, 0>>},
                    changes : {<<Change(1, "vpc", <<"delete">>, Nothing, Nothing, Nothing)>>}],
            filter : {NoFilter, [NoFilter EXCEPT !.patterns = "module" :> TF!Bad]}, policy : PlanPolicies]

\* jsondiff: scalars of every kind, a number written in two ways and one that
\* overflows, nulls, lists and maps that hold them; the empty key.
One == JV!Num("1", 1)
JsonDocuments ==
    LET scalars == {JV!Null, One, JV!Num("1.0", 1), JV!Num("3", 3), JV!Num("1e400", JV!Overflow),
                    JV!Str("1"), JV!Bool("true")}
    IN  scalars \union {JV!List(<<>>), JV!List(<<JV!Null>>), JV!List(<<One, JV!Str("1")>>),
            JV!List(<<JV!Str("1"), One, One>>), JV!List(<<JV!Num("1.0", 1), JV!Str("1")>>),
            JV!Map(<<>>), JV!Map("" :> One), JV!Map("a" :> JV!Null), JV!Map("a" :> One @@ "" :> JV!Str("1")),
            JV!Map("a" :> JV!List(<<One, JV!Null>>)), JV!Map("a" :> JV!List(<<One>>) @@ "" :> JV!Str("2"))}
In(file, value) == [file |-> file, value |-> value]
DiffInputs ==
    [command : {"jsondiff"}, desired : [file : {"whole"}, value : JsonDocuments], observed : [file : {"whole"}, value : JsonDocuments],
     options : {[ignore |-> {}, sets |-> {}, tolerance |-> 0], [ignore |-> {<<"a">>}, sets |-> {}, tolerance |-> 0],
                [ignore |-> {<<"a", "1">>, <<"">>}, sets |-> {}, tolerance |-> 0],
                [ignore |-> {}, sets |-> {<<>>, <<"a">>}, tolerance |-> 2]}]
    \union [command : {"jsondiff", "sandboxdiff"}, options : [ignore : {{}, {<<>>}}, sets : {{<<>>}}, tolerance : {-1, 0}],
            desired : {In("whole", One), In("missing", One), In("two documents", One)},
            observed : {In("whole", JV!Str("1")), In("unreadable", One)}]

\* dtp: a program in a directory, one beside it, one whose name is no UTF-8; the root
\* "r" in two directories and "o", what they hold and which of it cannot be read.
MCWritten == [p \in DOMAIN MCAbove |-> IF p = "raw" THEN "written" ELSE p]
Program(digest, executable) == [type |-> "file", digest |-> digest, executable |-> executable]
ProgramTree(g, more) == "d" :> [type |-> "dir", digest |-> 0, executable |-> TRUE]
    @@ "d/f" :> Program(1, TRUE) @@ "g" :> g @@ more
ProgramTrees == {ProgramTree(g, more) : g \in {Program(1, TRUE), Program(2, TRUE), Program(1, FALSE)},
                 more \in {<<>>, "raw" :> Program(1, TRUE), "h" :> Program(3, TRUE)}} \union {<<>>}
Root(name, absolute) == [name |-> name, absolute |-> absolute]
Somewhere(tree, root, blocked) == [tree |-> tree, root |-> root, blocked |-> blocked]
World(place) == <<"/", "o">> :> Somewhere(<<>>, "dir", {}) @@ <<"y", "r">> :> Somewhere("g" :> Program(4, TRUE), "dir", {})
    @@ <<"x", "r">> :> place @@ <<"/", "r">> :> place
Places == {Somewhere(t, "dir", b) : t \in ProgramTrees, b \in {{}, {"d"}, {"g"}}}
    \union {Somewhere(<<>>, r, {}) : r \in {"link", "unreadable"}}
Key(name, bytes) == [name |-> name, bytes |-> bytes]
DaemonInputs ==
    [root : {Root("r", TRUE)}, cwd : {"x"}, cwd2 : {"x"}, key : {Key("k", 16)}, key2 : {Key("k", 16)},
     world : {World(p) : p \in Places}, world2 : {World(p) : p \in Places}, edit : {"none"}]
    \union [root : {Root("r", TRUE), Root("r", FALSE)}, cwd : {"x"}, cwd2 : {"x", "y"}, key : {Key("k", 16), Key("k", 15)},
            key2 : {Key("k", 16), Key("l", 16)}, world : {World(Somewhere(ProgramTree(Program(1, TRUE), <<>>), "dir", b)) : b \in {{}, {"g"}}},
            world2 : {World(Somewhere(ProgramTree(Program(1, TRUE), <<>>), "dir", {}))}, edit : {"none", "errors", "entries", "root"}]

\* metascore: a file and a directory that change one thing or several, the state file
\* in the tree or elsewhere, the program that reads attributes there or not, failing on one path.
Meta(size, mode, mtime, xattrs, content) ==
    [size |-> size, mode |-> mode, mtime |-> mtime, xattrs |-> xattrs, content |-> content]
MetaTree(g, n) == "g" :> g @@ n
MetaFiles == {Meta(1, 1, 1, {}, 1), Meta(1, 1, 1, {}, 2), Meta(1, 2, 1, {}, 1), Meta(2, 1, 2, {}, 2),
              Meta(1, 2, 2, {"a"}, 1), Meta(1, 1, 1, {"a"}, 1)}
MetaTrees == {MetaTree(g, n) : g \in MetaFiles, n \in {<<>>,
    "n" :> Meta(0, 1, 1, {}, 0) @@ "s" :> Meta(9, 1, 1, {}, 0)}} \union {<<>>}
MetaWorlds == [tree : MetaTrees, root : {"dir"}, blocked : {{}}, answers : {{}, {"n"}, {"g", "n", "s"}}]
    \union {[tree |-> MetaTree(Meta(1, 1, 1, {}, 1), <<>>), root |-> r, blocked |-> b, answers |-> {"g"}] :
            r \in {"dir", "link", "unreadable"}, b \in {{}, {"g"}}}
MetaInputs == [before : MetaWorlds, after : MetaWorlds, schema : {"metascore"}]
    \union {[before |-> w, after |-> w, schema |-> "homestate"] : w \in MetaWorlds}

\* pcapwhy: resets and ICMP events of one flow and of several, two events whose
\* addresses run together, a packet without an address; two captures, or one twice.
Packet(layers, source, destination, flags, code, payload) ==
    [layers |-> layers, source |-> source, destination |-> destination, flags |-> flags,
     code |-> code, payload |-> payload, length |-> payload + 1, vlans |-> {}]
Packets == {Packet({"ip", "tcp"}, <<"a">>, <<"b">>, {"RST", "ACK"}, "", 0),
            Packet({"ip", "tcp", "tls"}, <<"a">>, <<"b">>, {"ACK"}, "", 2),
            Packet({"ip", "udp", "dns"}, <<"b">>, <<"a">>, {}, "", 1),
            Packet({"ip", "icmp"}, <<"a">>, <<"b", "a">>, {}, "unreachable", 0),
            Packet({"ip", "icmp"}, <<"a", "b">>, <<"a">>, {}, "unreachable", 0),
            [Packet({}, <<>>, <<>>, {}, "", 1) EXCEPT !.vlans = {7}]}
Capture(path, packets, opens, error) == [path |-> path, packets |-> packets, opens |-> opens, error |-> error]
CaptureInputs ==
    [options : [maxPackets : {2, 4}, maxFlows : 1..3],
     captures : {<<Capture("p", s, TRUE, FALSE)>> : s \in UNION {[1..n -> Packets] : n \in 0..3}}]
    \union [options : [maxPackets : {2, 4}, maxFlows : {1, 2}],
            captures : {<<Capture("p", <<x, y>>, TRUE, e), Capture(q, <<y, x>>, TRUE, FALSE)>> :
                x \in Packets, y \in Packets, e \in BOOLEAN, q \in {"p", "q"}}]
    \union [options : [maxPackets : {0, 2}, maxFlows : {0, 1}],
            captures : {<<>>, <<Capture("p", <<>>, FALSE, FALSE)>>, <<Capture("p", <<>>, TRUE, FALSE)>>}]

\* eventwhy and selinuxwhy: lines that the limit of bytes cuts in the middle, at their
\* end and between "\r" and "\n"; events of one group and of two, and others.
EventLine(size, end, event) == [size |-> size, end |-> end, event |-> event]
Event(id, time) == [type |-> "container", id |-> id, action |-> "die", exit |-> "1", time |-> time]
Ls == {EventLine(2, 1, Event("a", 1)), EventLine(2, 1, Event("a", 2)), EventLine(1, 2, Event("b", 1)),
       EventLine(2, 1, [type |-> "image"]), EventLine(2, 1, [type |-> "malformed"])}
EventInputs ==
    [lines : UNION {[1..n -> Ls] : n \in 0..4}, fails : {FALSE}, collect : {FALSE}, max : {2, 4}]
    \union [lines : {<<>>, <<EventLine(2, 1, Event("a", 1)), EventLine(0, 1, [type |-> "blank"]), EventLine(6, 1, Event("a", 1))>>,
                     <<EventLine(2, 1, [type |-> "none"]), EventLine(2, 0, [type |-> "no_identity"])>>},
            fails : BOOLEAN, collect : BOOLEAN, max : {2}]
DenialInputs == [log : UNION {[1..n -> {"denied", "granted"}] : n \in 0..4}, max : {0, 1, 2}, opens : BOOLEAN, fails : BOOLEAN]

\* meow: arguments in every order, some that are flags and some that look like one;
\* every mode with numbers that fall out in every way, on lines that are empty, that
\* hold words of one case, a mark and a rune of two bytes.
TextOf(t) ==
    LET item(of, c) == [of |-> of, c |-> c, case |-> "own"]
    IN  CASE t = "" -> <<>>
          [] t = "Ab 1!" -> <<item("letter", "A"), item("letter", "b"), item("space", " "), item("digit", "1"), item("mark", "!")>>
          [] t = "w " -> <<item("wide", "w"), item("space", " ")>>
          [] t = "lines" -> <<item("letter", "a"), item("newline", "\n"), item("mark", "!"), item("newline", "\n")>>
          [] t = "long" -> [i \in 1..7 |-> item("letter", "A")]
          [] OTHER -> <<item("letter", "a")>>
ME == INSTANCE Meow
T(t) == ME!A!Text(t)
Input(reader, lines) == [reader |-> reader, lines |-> lines]
Quiet == Input("stream", <<TextOf("Ab 1!"), <<>>>>)
Arguments == {T("Ab 1!"), ME!A!Short("t"), ME!A!Long("loud"), ME!A!Long("prefix-text"), ME!A!Long("bogus"),
              ME!A!Argument(2, "format", "ndjson"), ME!A!End}
Given(names) == LET order == <<"t", "e", "k", "P", "s", "v">> IN
    SelectSeq([i \in 1..6 |-> ME!A!Short(order[i])], LAMBDA a : a.name \in names)
MeowInputs ==
    [args : UNION {[1..n -> Arguments] : n \in 0..3}, stdin : {Quiet}, file : {Input("missing", <<>>)}]
    \union [args : {<<ME!A!Short("f"), T(f)>> \o Given(names) \o <<T(t)>> :
                f \in {"0", "1", "NaN"}, names \in SUBSET {"t", "e", "k", "P"} \union {{"s", "v"}},
                t \in {"", "Ab 1!", "w ", "long"}},
            stdin : {Quiet}, file : {Input("missing", <<>>)}]
    \union [args : {m \o <<ME!A!Long("format"), T(f), ME!A!Long("pitch"), T(p)>> :
                m \in {<<T("lines")>>, <<ME!A!Short("t")>>, <<ME!A!Short("i"), T("file")>>, <<ME!A!Long("ascii")>>,
                       <<ME!A!Short("e"), ME!A!Short("f"), T("NaN")>>, <<ME!A!Long("help")>>},
                f \in {"text", "json", "ndjson", "xml"}, p \in {"hiss", "moo"}},
            stdin : {Quiet, Input("stream", <<>>), Input("terminal", <<>>), Input("too long", <<>>)},
            file : {Input("stream", <<TextOf("w ")>>), Input("missing", <<>>)}]

\* ports, restartwhy, pwatch, unitwhy and contextsnap: two processes at three moments;
\* sockets of each transport, addresses with small octets and with large ones.
Process(alive, shown, holds) == [alive |-> alive, shown |-> shown, holds |-> holds]
Phases == {Process(FALSE, FALSE, {}), Process(TRUE, FALSE, {1}), Process(TRUE, TRUE, {}), Process(TRUE, TRUE, {1}),
           Process(TRUE, TRUE, {1, 2})}
Moments == {<<x, y, z>> : x \in [1..2 -> Phases], y \in [1..2 -> Phases], z \in [1..2 -> {Process(FALSE, FALSE, {}), Process(TRUE, TRUE, {1})}]}
    \union {<<x, x, x>> : x \in [1..2 -> Phases]}
Socket(transport, state, address, port, inode) ==
    [transport |-> transport, state |-> state, address |-> address, port |-> port, inode |-> inode]
IPv6(first, last) == [i \in 1..16 |-> CASE i = 1 -> first [] i = 16 -> last [] OTHER -> 0]
Sockets == {Socket("tcp", "0A", <<10, 0, 0, 7>>, 80, 1), Socket("tcp", "01", <<10, 0, 0, 7>>, 80, 3),
            Socket("udp", "07", <<10, 0, 0, 200>>, 80, 2), Socket("tcp", "07", <<0, 0, 0, 0>>, 80, 4),
            Socket("tcp", "0A", IPv6(0, 1), 443, 5), Socket("udp", "07", IPv6(0, 0), 53, 6)}
SocketInputs ==
    [moments : Moments, tables : {Sockets}, missing : {{}}, port : {80}, transport : {""}]
    \union [moments : {<<x, x, x>> : x \in [1..2 -> Phases]}, tables : {{}, Sockets},
            missing : {{}, {"tcp"}}, port : {0, 53}, transport : {"", "udp"}]
RestartInputs == [moments : Moments, pid : {0, 2, 3}]
SampleInputs == [samples : UNION {[1..n -> {"ok", "exited", "ends", "hidden"}] : n \in 1..3}, format : {"json", "ndjson"}]
UnitInputs == [unit : {"", "path", "u"}, systemctl : {"ends", "fails"}, journalLines : {0, 2}, journal : {"ends", "fails"},
               active : {"active", "failed", "activating"}, result : {"", "success", "exit-code", "failed"},
               lines : {<<>>, <<"l", "l", "l">>}, fragment : BOOLEAN]
ContextInputs == [cloud : {"aws", "alicloud", "gcp"}, profile : {"p", ""}, collect : BOOLEAN, program : {"ends", "fails"},
                  observed : {"", "now", "zero"},
                  answer : [valid : BOOLEAN, Account : {"", "1"}, AccountId : {"", "2"}, Arn : {"arn", "lines"}]]

ClipboardInputs == [content : {"fails", "plain", "secret"}, later : {"plain", "secret"}, file : BOOLEAN, drain : BOOLEAN,
                    frontmost : {"a", "b"}, allow : {"", "a"}, osascript : {"ends", "fails"}, pbcopy : {"ends", "fails"}]

\* osx, aaas and pll: every command with and without what it needs; property lists of
\* up to two pairs, some with a dictionary that has a key twice, and some that are cut.
OsxInputs ==
    [action : MC!Actions \union {"no such", ""}, apply : BOOLEAN, duration : {0, -1},
     args : {<<>>, <<"0">>, <<"101">>, <<"d", "k">>, <<"d", "k", "bool", "v">>, <<"d", "k", "x", "v">>},
     fails : {{}, {"dscacheutil"}, {"killall"}, {"osascript", "defaults"}}]
GrantInputs ==
    [database : {"own", "other"}, grants : {{}, {"a"}, {"a", "b"}}, others : {{"a"}}, revoke : {"", "a"},
     apply : BOOLEAN, tccutil : {"ends", "fails"}, sqlite : {"ends", "fails"}]

PL == INSTANCE PropertyLists
Element(tag, text) == PL!Element(tag, text, <<>>)
Holder(tag, items) == PL!Element(tag, "", items)
Pair(key, value) == <<Element("key", key), value>>
PlistValues ==
    {Element("string", "here"), Element("string", "gone"), Element("string", "relative"), Element("true", ""),
     Element("integer", "x"), Element("cut", ""), Holder("array", <<>>), Holder("array", <<Element("string", "gone")>>),
     Holder("array", <<Holder("dict", Pair("A", Element("false", "")) \o Pair("A", Element("true", "")))>>)}
Pairs == {Pair(k, v) : k \in {"Program", "ProgramArguments", "RunAtLoad", "KeepAlive"}, v \in PlistValues}
Plist(items) == [kind |-> "xml", items |-> items]
Plists ==
    {Plist(<<Holder("dict", x \o y)>>) : x \in Pairs, y \in Pairs \union {<<>>, <<Element("key", "A")>>, Pair("A", Element("key", "B"))}}
    \union {Plist(<<>>), Plist(<<Element("string", "here")>>), Plist(<<Holder("dict", <<>>), Element("cut", "")>>),
            [kind |-> "binary", items |-> <<>>], [kind |-> "unreadable", items |-> <<>>]}
PlistInputs ==
    [files : {<<f>> : f \in Plists} \union {<<Plist(<<Holder("dict", Pair("Program", Element("string", "here")))>>), f>> : f \in Plists}
             \union {<<>>}, existing : {{"here"}}]

-----------------------------------------------------------------------------
JD == INSTANCE JsonDiff

\* The bounded inputs are among those that the theorems are about.
ASSUME InputsAssumption ==
    /\ \A in \in EnvInputs : IsInput("envsub", in)
    /\ \A in \in VerifyInputs : IsInput("hashsum", in)
    /\ \A in \in GateInputs : IsInput("jsongate", in)
    /\ \A in \in HomeInputs : IsInput("homestate", in)
    /\ \A in \in MetaInputs : IsInput("metascore", in)
    /\ \A in \in DaemonInputs : IsInput("dtp", in)
    /\ \A in \in SocketInputs : IsInput("ports", in)
    /\ \A in \in RestartInputs : IsInput("restartwhy", in)
    /\ \A in \in SampleInputs : IsInput("pwatch", in)
    /\ \A in \in UnitInputs : IsInput("unitwhy", in)
    /\ \A in \in ContextInputs : IsInput("contextsnap", in)
    /\ \A in \in ClipboardInputs : IsInput("cded", in)
    /\ \A in \in OsxInputs : IsInput("osx", in)
    /\ \A in \in GrantInputs : IsInput("aaas", in)
    /\ \A in \in EventInputs : IsInput("eventwhy", in)
    /\ \A in \in DenialInputs : IsInput("selinuxwhy", in)
    /\ \A in \in CaptureInputs : IsInput("pcapwhy", in)

ReportInit ==
    /\ \/ tool = "envsub" /\ input \in EnvInputs
       \/ tool = "homestate" /\ input \in HomeInputs
       \/ tool = "hashsum" /\ input \in VerifyInputs
       \/ tool = "jsongate" /\ input \in GateInputs
       \/ tool = "tfchanges" /\ input \in PlanInputs
       \/ tool = "jsondiff" /\ input \in DiffInputs
       \/ tool = "dtp" /\ input \in DaemonInputs
       \/ tool = "metascore" /\ input \in MetaInputs
       \/ tool = "pcapwhy" /\ input \in CaptureInputs
       \/ tool = "eventwhy" /\ input \in EventInputs
       \/ tool = "selinuxwhy" /\ input \in DenialInputs
       \/ tool = "meow" /\ input \in MeowInputs
       \/ tool = "ports" /\ input \in SocketInputs
       \/ tool = "restartwhy" /\ input \in RestartInputs
       \/ tool = "pwatch" /\ input \in SampleInputs
       \/ tool = "unitwhy" /\ input \in UnitInputs
       \/ tool = "contextsnap" /\ input \in ContextInputs
       \/ tool = "cded" /\ input \in ClipboardInputs
       \/ tool = "osx" /\ input \in OsxInputs
       \/ tool = "aaas" /\ input \in GrantInputs
       \/ tool = "pll" /\ input \in PlistInputs
    /\ output = <<>>

OneStep ==
    /\ UNCHANGED input
    /\ \/ Envsub \/ Verify \/ Gate \/ Check \/ Metascore \/ Dtp \/ Ports \/ Restartwhy \/ Pwatch \/ Unitwhy
       \/ Contextsnap \/ Cded \/ Osx \/ Aaas \/ Eventwhy \/ Selinuxwhy \/ Pcapwhy
       \/ tool = "tfchanges" /\ output' = TF!Pipeline(input)
       \/ tool = "jsondiff" /\ output' = JD!Diffs(input)
       \/ tool = "meow" /\ output' \in ME!Meow(input)
       \/ tool = "pll" /\ output' = PL!Pll(input)

-----------------------------------------------------------------------------
\* tfchanges and jsongate let no change of a plan pass unseen.
NoChangePassesUnseen == Of("tfchanges") => TF!NoChangePassesUnseen(input, output)

\* jsondiff explains the difference of two documents, and pll passes no property list
\* with an error in it.
ChangesExplainDocuments ==
    /\ Of("jsondiff") => JD!ChangesExplainDocuments(input, output)
    /\ Of("pll") => PL!PassMeansLinted(input, output)

\* meow answers every line, and keeps of it what its modes leave alone.
TextSurvives == Of("meow") => ME!TextSurvives(input, output)
=============================================================================
