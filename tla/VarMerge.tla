------------------------------- MODULE VarMerge ------------------------------
(***************************************************************************)
(* What varmerge makes of its sources (internal/varmerge, Merge), which    *)
(* share the env files and the schema with envsub: the env files, the      *)
(* environment below its prefix, and the --set arguments as one source.    *)
(***************************************************************************)
EXTENDS EnvSub

\* Types that varmerge checks; a URL is taken as it is.
Checked == {"integer"}

validateValue(in, k, value) ==
    Declared(in, k) /\ in.schema[k].type \in Checked => value \in Valid[in.schema[k].type]

SetSource(in) == Stack([i \in DOMAIN in.sets |-> At(in.sets[i].key, in.sets[i].value)])

Sources(in) ==
    Files(in) \o Env(in) \o (IF in.sets = <<>> THEN <<>> ELSE <<Layer(SetSource(in), <<"--set">>)>>)

\* The sources of a key that a later one covers.
Shadowed(in, k) == LET s == {i \in DOMAIN Sources(in) : k \in DOMAIN Sources(in)[i]} IN
    {Sources(in)[i][k].source : i \in {i \in s : \E j \in s : j > i}}

\* Every value is checked where it is met, a covered one and an unused one too.
Merge(in) ==
    LET merged == Stack(Sources(in))
        all == Over(merged, schemaDefaults(in))
        checked == \A s \in Range(Sources(in)) : \A k \in DOMAIN s :
                        /\ in.strict => Declared(in, k)
                        /\ validateValue(in, k, s[k].value)
        defaults == \A k \in DOMAIN all \ DOMAIN merged : validateValue(in, k, all[k].value)
        covered == {k \in DOMAIN merged : Shadowed(in, k) /= {}}
    IN  IF in.malformed \/ ~checked \/ ~defaults
        THEN Refused
        ELSE [outcome |-> "pass",
              values |-> [k \in DOMAIN all |-> all[k].value],
              provenance |-> [k \in DOMAIN all |->
                [all[k] EXCEPT !.value = Hide(in, k, @)]],
              shadowed |-> [k \in covered |-> Shadowed(in, k)]]

\* The two of one input.
Both(in) == [sub |-> Run(in), merge |-> Merge(in)]

-----------------------------------------------------------------------------
\* The two tools agree on what sources mean (PROJECT_PLAN.md:377, "Reuse the envsub
\* type schema"): for a key that both resolve, the value and the source varmerge
\* reports are those of envsub; and what varmerge takes envsub refuses only for a
\* placeholder with an unknown operator or with a default, a key without a value
\* or with an empty one, or a value of a type varmerge does not check.
MergeAgreesWithEnvSub(in, sub, merge) ==
    /\ sub.outcome = "pass" /\ merge.outcome = "pass" =>
        \A k \in DOMAIN sub.resolutions \intersect DOMAIN merge.values :
            /\ merge.provenance[k] = sub.resolutions[k]
            /\ merge.values[k] = resolved(in)[k].value
    /\ merge.outcome = "pass" /\ sub.outcome = "refused" =>
        \/ \E p \in Range(in.template) :
            \/ p.key = Unsupported \/ p.key \notin DOMAIN merge.values \/ p.fallback /= None
            \/ merge.values[p.key] = Empty
            \/ Declared(in, p.key) /\ in.schema[p.key].type \notin Checked
=============================================================================
