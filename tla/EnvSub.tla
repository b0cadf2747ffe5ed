-------------------------------- MODULE EnvSub -------------------------------
(***************************************************************************)
(* What envsub makes of a template and its sources (internal/envsub, Run). *)
(* An input has the placeholders of the template in order, [key, fallback];*)
(* the schema, empty when none is given; the env files, each a function    *)
(* from keys to values; the environment; the --set arguments, [key, value];*)
(* whether one of them cannot be parsed; strict; and the mode, where check *)
(* stands for explain as well.  The write of the output is the business of *)
(* module AtomicFile.                                                      *)
(***************************************************************************)
EXTENDS Integers, Sequences, Functions

CONSTANT Valid      \* the values of every type

Empty == ""
None == "no default"
Unsupported == "?"      \* the key of a placeholder with an unknown operator

Refused == [outcome |-> "refused"]

Declared(in, k) == k \in DOMAIN in.schema

\* A source as a layer: values that know where they come from. A map that is laid over
\* another covers it where both have a key.
At(k, value) == [x \in {k} |-> value]
Unset == [x \in {} |-> x]
Layer(f, name) == [k \in DOMAIN f |-> [value |-> f[k], source |-> name]]
Over(f, g) == [k \in DOMAIN f \union DOMAIN g |-> IF k \in DOMAIN f THEN f[k] ELSE g[k]]
Stack(layers) ==
    LET below[i \in 0..Len(layers)] == IF i = 0 THEN Unset ELSE Over(layers[i], below[i - 1])
    IN  below[Len(layers)]
Files(in) == [i \in DOMAIN in.files |-> Layer(in.files[i], <<"env_file", i>>)]
Env(in) == <<Layer(in.env, <<"environment">>)>>
Sets(in) == [i \in DOMAIN in.sets |-> Layer(At(in.sets[i].key, in.sets[i].value), <<"--set">>)]

\* The sources, a later one over an earlier one.
loadValues(in) == Stack(Files(in) \o Env(in) \o Sets(in))

supplied(in) == (UNION {DOMAIN f : f \in Range(in.files)}) \union {s.key : s \in Range(in.sets)}
KnownKeys(in) == in.strict /\ in.schemaGiven => supplied(in) \subseteq DOMAIN in.schema

referencedKeys(in) == {p.key : p \in Range(in.template)}

\* Mutant: the first default that a key has in the template counts.
defaultsInTemplate_First(in) == Stack([i \in DOMAIN in.template |->
    LET p == in.template[Len(in.template) + 1 - i] IN
    IF p.fallback = None THEN Unset ELSE Layer(At(p.key, p.fallback), <<"placeholder_default">>)])

\* The last default that a key has in the template counts.
defaultsInTemplate(in) == Stack([i \in DOMAIN in.template |->
    IF in.template[i].fallback = None THEN Unset
    ELSE Layer(At(in.template[i].key, in.template[i].fallback), <<"placeholder_default">>)])

schemaDefaults(in) ==
    Layer([k \in {k \in DOMAIN in.schema : in.schema[k].default /= None} |-> in.schema[k].default],
          <<"schema_default">>)

optionals(in) ==
    Layer([k \in {k \in DOMAIN in.schema : in.schema[k].optional} |-> Empty], <<"optional">>)

\* Every key that has a value, from the first of these that has one.
resolved(in) ==
    Over(loadValues(in), Over(schemaDefaults(in), Over(defaultsInTemplate(in), optionals(in))))

validate(in, k, value) == Declared(in, k) => value \in Valid[in.schema[k].type]

Masked == "***"
Hide(in, k, value) == IF Declared(in, k) /\ in.schema[k].secret THEN Masked ELSE value

resolutions(in) == [k \in referencedKeys(in) |->
    [resolved(in)[k] EXCEPT !.value = Hide(in, k, @)]]

\* An empty value gives way to the placeholder's default, and is missing where
\* there is none.
render(in, p) ==
    IF resolved(in)[p.key].value = Empty THEN p.fallback ELSE resolved(in)[p.key].value

Parsed(in) == ~in.malformed /\ Unsupported \notin referencedKeys(in)

Resolvable(in) == \A k \in referencedKeys(in) :
    k \in DOMAIN resolved(in) /\ validate(in, k, resolved(in)[k].value)

Renderable(in) == \A p \in Range(in.template) :
    render(in, p) /= None /\ validate(in, p.key, render(in, p))

Run(in) ==
    IF Parsed(in) /\ KnownKeys(in) /\ Resolvable(in) /\ (in.mode = "list_keys" \/ Renderable(in))
    THEN [outcome |-> "pass", resolutions |-> resolutions(in),
          rendered |-> IF in.mode = "render"
                       THEN [i \in DOMAIN in.template |-> render(in, in.template[i])] ELSE <<>>]
    ELSE Refused

\* What the two tools that share sources can be given.
Text == STRING \ {None}
IsMap(f) == f \in [DOMAIN f -> Text]
IsSources(in) ==
    /\ in.template \in Seq([key : STRING, fallback : STRING]) /\ in.sets \in Seq([key : STRING, value : Text])
    /\ in.files \in Seq(Range(in.files)) /\ (\A f \in Range(in.files) : IsMap(f)) /\ IsMap(in.env)
    /\ in.schema \in [DOMAIN in.schema -> [type : DOMAIN Valid, default : STRING, optional : BOOLEAN, secret : BOOLEAN]]
    /\ in.mode \in {"list_keys", "check", "render"}
    /\ in.schemaGiven \in BOOLEAN /\ in.strict \in BOOLEAN /\ in.malformed \in BOOLEAN

-----------------------------------------------------------------------------
\* The sources of a key, the highest first: --set from last to first, the
\* environment, the env files from last to first, the schema's default and the
\* placeholder's (specs/V1.md, FR-12).  The code has one placeholder default for a
\* key, the last that the template gives it; an optional key is empty in the end.
Highest(in, k, value) ==
    LET sets == {i \in DOMAIN in.sets : in.sets[i].key = k}
        files == {i \in DOMAIN in.files : k \in DOMAIN in.files[i]}
        defaults == {i \in DOMAIN in.template : in.template[i].key = k /\ in.template[i].fallback /= None}
    IN  IF sets /= {} THEN value = in.sets[CHOOSE i \in sets : \A j \in sets : j <= i].value
        ELSE IF k \in DOMAIN in.env THEN value = in.env[k]
        ELSE IF files /= {}
        THEN value = in.files[CHOOSE i \in files : \A j \in files : j <= i][k]
        ELSE IF Declared(in, k) /\ in.schema[k].default /= None
        THEN value = in.schema[k].default
        ELSE IF defaults /= {}
        THEN value = in.template[CHOOSE i \in defaults : \A j \in defaults : j <= i].fallback
        ELSE value = Empty

\* FR-12, FR-15, FR-16 (specs/V1.md): what is rendered for a placeholder is the
\* value of its key's highest source, or its own default when that value is
\* empty, and is valid for the schema; nothing is rendered in the other modes;
\* the value shown for a key is the one rendered, and never a secret one.
RenderFollowsSources(in, out) ==
    out.outcome = "pass" =>
        /\ in.mode /= "render" => out.rendered = <<>>
        /\ \A i \in DOMAIN out.rendered :
            LET p == in.template[i] text == out.rendered[i] IN
            /\ \/ text /= Empty /\ Highest(in, p.key, text)
               \/ text = p.fallback /\ Highest(in, p.key, Empty)
            /\ Declared(in, p.key) => text \in Valid[in.schema[p.key].type]
            /\ out.resolutions[p.key].value \in {text, Empty, Masked}
        /\ \A k \in DOMAIN out.resolutions :
            Declared(in, k) /\ in.schema[k].secret => out.resolutions[k].value = Masked
=============================================================================
