------------------------------- MODULE JsonDiff ------------------------------
(***************************************************************************)
(* jsondiff and sandboxdiff compare two JSON documents (internal/jsondiff, *)
(* cmd/jsondiff, cmd/sandboxdiff).  A path is the sequence of its keys.    *)
(***************************************************************************)
EXTENDS Integers, JsonValue, TLC

displayPath(path) == IF path = <<>> THEN <<"">> ELSE path

Found(path, kind, desired, observed) ==
    {[path |-> displayPath(path), kind |-> kind, desired |-> desired, observed |-> observed]}

\* The elements by their text: a number is another one when it is written otherwise.
diffSet(path, desired, observed) ==
    UNION ({Found(path, "added", v, Null) : v \in Range(desired) \ Range(observed)}
           \union {Found(path, "removed", Null, v) : v \in Range(observed) \ Range(desired)})

Abs(n) == IF n < 0 THEN -n ELSE n
Field(v, k) == IF k \in DOMAIN v.fields THEN v.fields[k] ELSE Null
Item(v, i) == IF i \in DOMAIN v.items THEN v.items[i] ELSE Null

\* Mutant: the elements of the longer list that the other has no place for are
\* passed over.
Indices_Shorter(a, b) == DOMAIN a.items \intersect DOMAIN b.items

Indices(a, b) == DOMAIN a.items \union DOMAIN b.items

\* What one place of the documents has to say, before what is below it.
Mismatch(desired, observed, tolerance) ==
    LET kinds == {desired.kind, observed.kind}
        Far == Overflow \in {desired.float, observed.float}
               \/ Abs(desired.float - observed.float) > tolerance
    IN
    CASE kinds = {"null"} -> {}
      [] kinds /= {"null"} /\ desired = Null -> {"removed"}
      [] kinds /= {"null"} /\ observed = Null -> {"added"}
      [] "null" \notin kinds /\ desired.kind /= observed.kind -> {"type_changed"}
      [] kinds = {"number"} -> IF Far THEN {"changed"} ELSE {}
      [] kinds \in {{"string"}, {"bool"}} -> IF desired = observed THEN {} ELSE {"changed"}
      [] kinds \in {{"map"}, {"list"}} -> {}

RECURSIVE diff(_, _, _, _)
diff(path, desired, observed, options) ==
    LET Both(kind) == desired.kind = kind /\ observed.kind = kind IN
    IF path \in options.ignore THEN {}
    ELSE UNION ({Found(path, kind, desired, observed) : kind \in Mismatch(desired, observed, options.tolerance)}
        \union {IF path \in options.sets /\ Both("list") THEN diffSet(path, desired.items, observed.items) ELSE {}}
        \union IF Both("map")
               THEN {diff(Append(path, k), Field(desired, k), Field(observed, k), options) :
                     k \in DOMAIN desired.fields \union DOMAIN observed.fields}
               ELSE IF Both("list") /\ path \notin options.sets
               THEN {diff(Append(path, ToString(i - 1)), Item(desired, i), Item(observed, i), options) :
                     i \in Indices(desired, observed)}
               ELSE {})

\* The changes are sorted by path; those of one set come in any order.
Compare(desired, observed, options) == diff(<<>>, desired, observed, options)

NoOptions == [ignore |-> {}, sets |-> {}, tolerance |-> 0]

\* sandboxdiff takes no options, and differences do not change its exit status.
Diff(in) ==
    LET refused == SelectSeq(<<Decode(in.desired.file), Decode(in.observed.file)>>, LAMBDA s : s /= 0)
        options == IF in.command = "sandboxdiff" THEN NoOptions ELSE in.options
        changes == Compare(in.desired.value, in.observed.value, options)
    IN  IF in.command = "jsondiff" /\ in.options.tolerance < 0 THEN [exit |-> 2, changes |-> {}]
        ELSE IF refused /= <<>> THEN [exit |-> refused[1], changes |-> {}]
        ELSE [exit |-> IF in.command = "jsondiff" /\ changes /= {} THEN 1 ELSE 0, changes |-> changes]

\* The same comparison again, with the documents exchanged and without options.
Diffs(in) == [report |-> Diff(in),
    swapped |-> Diff([in EXCEPT !.desired = in.observed, !.observed = in.desired]),
    plain |-> Diff([in EXCEPT !.options = NoOptions])]

-----------------------------------------------------------------------------
\* The places of a document that are not null, and what is there.
RECURSIVE Flat(_, _)
Flat(path, v) ==
    CASE v = Null -> {}
      [] v.kind = "map" -> {[path |-> path, kind |-> "map", is |-> ""]}
            \union UNION {Flat(Append(path, k), v.fields[k]) : k \in DOMAIN v.fields}
      [] v.kind = "list" -> {[path |-> path, kind |-> "list", is |-> ""]}
            \union UNION {Flat(Append(path, ToString(i - 1)), v.items[i]) : i \in DOMAIN v.items}
      [] v.kind = "number" -> {[path |-> path, kind |-> "number", is |-> ToString(v.float)]}
      [] OTHER -> {[path |-> path, kind |-> v.kind, is |-> v.is]}

\* What jsondiff says of two documents: without options it passes exactly those that
\* agree at every place that is not null (numbers as float64), and every place that
\* differs is below a change; options only take changes away (or, for a set, put the
\* elements in the place of the positions); exchanging the documents exchanges added
\* and removed; a set passes in any order; and a document that cannot be read never
\* passes.
ChangesExplainDocuments(in, out) ==
    LET a == in.desired.value b == in.observed.value
        differ == {m.path : m \in (Flat(<<>>, a) \union Flat(<<>>, b))
                                  \ (Flat(<<>>, a) \intersect Flat(<<>>, b))}
        Read == {in.desired.file, in.observed.file} = {"whole"}
        Whole(c) == c.desired = a /\ c.observed = b
        Under(c, paths) == \E p \in paths : IsPrefix(p, IF Whole(c) THEN <<>> ELSE c.path)
        Mirrored(c) == [path |-> c.path, desired |-> c.observed, observed |-> c.desired,
            kind |-> CASE c.kind = "added" -> "removed" [] c.kind = "removed" -> "added" [] OTHER -> c.kind]
        Huge == \E v \in Nodes(a) \union Nodes(b) : v.kind = "number" /\ v.float = Overflow
        report == out.report plain == out.plain
    IN  /\ ~Read => report.exit \notin {0, 1}
        /\ Read /\ in.options.tolerance >= 0 =>
            /\ in.command = "jsondiff" => (report.exit = 0 <=> report.changes = {})
            /\ ~Huge => (plain.changes = {} <=> differ = {})
            /\ \A p \in differ : \E c \in plain.changes : Whole(c) \/ IsPrefix(c.path, p)
            /\ in.options.sets = {} /\ in.options.tolerance = 0 /\ in.command = "jsondiff" =>
                report.changes = {c \in plain.changes : ~Under(c, in.options.ignore)}
            /\ \A c \in report.changes \ plain.changes : c.path \in in.options.sets \/ c.path = <<"">>
            /\ out.swapped.changes = {Mirrored(c) : c \in report.changes}
            /\ <<>> \in in.options.sets /\ in.command = "jsondiff" /\ {a.kind, b.kind} = {"list"} =>
                (report.changes = {} <=> Range(a.items) = Range(b.items) \/ <<>> \in in.options.ignore)
=============================================================================
