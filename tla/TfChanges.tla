------------------------------ MODULE TfChanges ------------------------------
(***************************************************************************)
(* tfchanges turns a Terraform plan into records (internal/tfchanges,      *)
(* cmd/tfchanges), and jsongate reads them: the pipeline of the README.    *)
(* Addresses are ordered like their positions; a pattern is the set of the *)
(* names it matches; Hints gives the parts of a type name facts looks for. *)
(***************************************************************************)
EXTENDS Integers, JsonValue, FiniteSets

CONSTANTS
    Hints,      \* of a type name, of {"iam", "policy", "role", "database", "db_", "rds"}
    Terraform   \* the lists of actions that Terraform writes

JG == INSTANCE JsonGate

Bad == {"not a regular expression"}
CompileFilter(filter) == \A k \in DOMAIN filter.patterns : filter.patterns[k] /= Bad

\* format_version is there and starts with "1.".
Accepted(plan) == Len(plan.version) > 1 /\ plan.version[1] = 1

matches(change, filter) ==
    /\ \A k \in DOMAIN filter.patterns : change[k] \in filter.patterns[k]
    /\ filter.actions /= {} => Range(change.actions) \intersect filter.actions /= {}

\* Mutant: a replacement that creates first counts as a creation.
classify_CreateFirst(actions) ==
    IF actions = <<>> THEN "unknown"
    ELSE IF actions[1] \in {"no-op", "create", "read", "update", "delete"} THEN actions[1]
    ELSE "unknown"

classify(actions) ==
    IF Len(actions) = 1 /\ actions[1] \in {"no-op", "create", "read", "update", "delete"}
    THEN actions[1]
    ELSE IF {"create", "delete"} \subseteq Range(actions) THEN "replace" ELSE "unknown"

hasTrue(v) == Bool("true") \in Nodes(v)

RECURSIVE containsPublicCIDR(_)
containsPublicCIDR(v) ==
    \/ v \in {Str("0.0.0.0/0"), Str("::/0")}
    \/ v.kind = "list" /\ \E i \in DOMAIN v.items : containsPublicCIDR(v.items[i])

CidrKeys == {"cidr_block", "cidr_blocks", "ipv6_cidr_block", "ipv6_cidr_blocks"}
publicExposure(v) == \E n \in Nodes(v) : n.kind = "map" /\ \E k \in DOMAIN n.fields :
    \/ k \in CidrKeys /\ containsPublicCIDR(n.fields[k])
    \/ k \in {"public_ip", "associate_public_ip_address"} /\ n.fields[k] = Bool("true")

facts(record, after) ==
    LET If(condition, code) == IF condition THEN {code} ELSE {} IN
    If(record.class \in {"delete", "replace"}, "destructive_change")
    \union If(Hints[record.type] \intersect {"iam", "policy", "role"} /= {}, "iam_or_policy_change")
    \union If(Hints[record.type] \intersect {"database", "db_", "rds"} /= {}, "database_change")
    \union If(record.sensitive, "sensitive_value") \union If(record.unknown, "unknown_value")
    \union If(publicExposure(after), "public_network_exposure_candidate")

\* code and severity are what jsongate will find at the top level of a record.
RecordOf(c) ==
    LET record == [address |-> c.address, type |-> c.type, actions |-> c.actions,
                   class |-> classify(c.actions),
                   replacement |-> {"create", "delete"} \subseteq Range(c.actions),
                   unknown |-> hasTrue(c.after_unknown),
                   sensitive |-> hasTrue(c.before_sensitive) \/ hasTrue(c.after_sensitive),
                   code |-> JG!NoCode, severity |-> JG!NoSeverity]
    IN  record @@ [facts |-> facts(record, c.after)]

\* Deposed objects share an address with the object that replaced them: the order
\* of their records is not fixed, and here it is that of the plan.
Normalize(changes, filter) ==
    LET kept == SelectSeq(changes, LAMBDA c : matches(c, filter))
        order == SetToSortSeq(DOMAIN kept, LAMBDA i, j : kept[i].address < kept[j].address
                                           \/ (kept[i].address = kept[j].address /\ i < j))
    IN  [i \in DOMAIN kept |-> RecordOf(kept[order[i]])]

Summarize(records) ==
    LET Count(Test(_)) == Cardinality({i \in DOMAIN records : Test(records[i])}) IN
    [total |-> Len(records),
     classifications |-> [k \in {r.class : r \in Range(records)} |-> Count(LAMBDA r : r.class = k)],
     fact_counts |-> [f \in UNION {r.facts : r \in Range(records)} |-> Count(LAMBDA r : f \in r.facts)]]

Refused(status) == [exit |-> status, records |-> <<>>]
Tfchanges(in) ==
    IF ~CompileFilter(in.filter) THEN Refused(2)
    ELSE IF Decode(in.plan.file) /= 0 THEN Refused(Decode(in.plan.file))
    ELSE IF ~Accepted(in.plan) THEN Refused(2)
    ELSE [exit |-> 0, records |-> Normalize(in.plan.changes, in.filter)]

\* terraform show -json | tfchanges | jsongate, and the summary of the same plan.
Pipeline(in) ==
    LET tf == Tfchanges(in) IN
    [tfchanges |-> tf, summary |-> Summarize(tf.records),
     gate |-> JG!Gate([lines |-> tf.records, policy |-> in.policy])]

-----------------------------------------------------------------------------
\* What the pipeline lets pass of a plan: a change is dropped by a filter, by a plan
\* that is refused with a status of its own, and by nothing else; the gate never
\* passes a record; of the plans Terraform writes a deletion is always a
\* destructive change, and nothing else is, also among those --action delete
\* selects; and the summary counts what the records say.
NoChangePassesUnseen(in, out) ==
    LET records == out.tfchanges.records
        changes == in.plan.changes
        Selected == {i \in DOMAIN changes : matches(changes[i], in.filter)}
        With(code) == {i \in DOMAIN records : code \in records[i].facts}
    IN  /\ in.plan.file /= "whole" => out.tfchanges.exit /= 0
        /\ Len(in.plan.version) < 2 \/ in.plan.version[1] /= 1 => out.tfchanges.exit /= 0
        /\ out.tfchanges.exit = 0 => \A a \in {c.address : c \in Range(changes)} :
            Cardinality({i \in DOMAIN records : records[i].address = a})
                = Cardinality({i \in Selected : changes[i].address = a})
        /\ out.gate.exit = 0 => records = <<>>
        /\ \A i, j \in DOMAIN records : i < j => records[i].address <= records[j].address
        /\ \A r \in Range(records) : r.actions \in Terraform =>
            /\ "destructive_change" \in r.facts <=> "delete" \in Range(r.actions)
            /\ r.replacement <=> r.class = "replace"
            /\ "delete" \in in.filter.actions /\ Cardinality(in.filter.actions) = 1
                => "destructive_change" \in r.facts
        /\ LET s == out.summary.classifications f == out.summary.fact_counts IN
            /\ out.summary.total = FoldLeft(LAMBDA n, k : n + k, 0,
                    [i \in 1..Cardinality(DOMAIN s) |-> s[SetToSeq(DOMAIN s)[i]]])
            /\ \A code \in DOMAIN f : f[code] = Cardinality(With(code)) /\ f[code] <= out.summary.total
=============================================================================
