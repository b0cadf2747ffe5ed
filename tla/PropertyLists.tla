---------------------------- MODULE PropertyLists ----------------------------
(***************************************************************************)
(* pll reads property lists (internal/pll); an element has a tag, a text   *)
(* and the elements in it, "cut" being where the text of the file goes     *)
(* wrong.                                                                  *)
(***************************************************************************)
EXTENDS Integers, SequencesExt

Element(tag, text, items) == [tag |-> tag, text |-> text, items |-> items]
Leaves == {"true", "false", "string", "key", "data", "date"}

Malformed == [valid |-> FALSE, duplicates |-> {}, values |-> <<>>]

\* A key takes the next element, whatever it is, for its value; of a key that is there
\* twice the later value stays. Only the values of a dictionary are kept apart.
RECURSIVE decodeValue(_)
decodeValue(e) ==
    LET inner == [i \in DOMAIN e.items |-> decodeValue(e.items[i])]
        duplicates == UNION {inner[i].duplicates : i \in DOMAIN inner}
        keys == {i \in DOMAIN e.items : i % 2 = 1}
        Values(i) == [k \in {e.items[i - 1].text} |-> e.items[i]]
        later == FoldLeft(LAMBDA values, i : Values(i) @@ values, <<>>, SelectSeq([i \in DOMAIN inner |-> i], LAMBDA i : i \notin keys))
        again == {e.items[i].text : i \in {i \in keys : \E j \in keys : j < i /\ e.items[j].text = e.items[i].text}}
        whole == \A i \in DOMAIN inner : inner[i].valid
    IN  CASE e.tag = "dict" ->
                IF whole /\ Len(e.items) % 2 = 0 /\ \A i \in keys : e.items[i].tag = "key"
                THEN [valid |-> TRUE, duplicates |-> duplicates \union again, values |-> later] ELSE Malformed
          [] e.tag = "array" -> [Malformed EXCEPT !.valid = whole, !.duplicates = duplicates]
          [] e.tag \in {"integer", "real"} -> [Malformed EXCEPT !.valid = e.text = "1"]
          [] e.tag \in Leaves -> [Malformed EXCEPT !.valid = TRUE]
          [] OTHER -> Malformed

\* The first element in <plist>; what follows it is not read.
Parse(file) ==
    IF file.items = <<>> \/ file.items[1].tag /= "dict" THEN Malformed ELSE decodeValue(file.items[1])

Finding(code, severity, about) == [code |-> code, severity |-> severity, about |-> about]

Lint(file, existing) ==
    LET parsed == Parse(file)
        Value(k) == IF k \in DOMAIN parsed.values THEN parsed.values[k] ELSE Element("none", "", <<>>)
        String(e) == IF e.tag \in {"string", "key", "data", "date"} THEN e.text ELSE ""
        arguments == Value("ProgramArguments").items
        program ==
            IF String(Value("Program")) /= "" \/ Value("ProgramArguments").tag /= "array" \/ arguments = <<>>
            THEN String(Value("Program")) ELSE String(arguments[1])
    IN  IF file.kind = "unreadable" THEN {Finding("READ_FAILED", "error", "")}
        ELSE IF file.kind = "binary" THEN {Finding("BINARY_UNSUPPORTED", "warning", "")}
        ELSE IF ~parsed.valid THEN {Finding("MALFORMED", "error", "")}
        ELSE {Finding("DUPLICATE_KEY", "error", k) : k \in parsed.duplicates}
             \union (IF program = "" THEN {Finding("PROGRAM_MISSING_DECLARATION", "warning", "")}
                     ELSE IF program \in existing \union {"relative"} THEN {}
                     ELSE {Finding("PROGRAM_MISSING", "error", program)})
             \union (IF Value("RunAtLoad").tag = "true" /\ "KeepAlive" \in DOMAIN parsed.values
                     THEN {Finding("PERSISTENT_JOB", "warning", "")} ELSE {})

Pll(in) ==
    LET reports == [i \in DOMAIN in.files |-> Lint(in.files[i], in.existing)] IN
    [reports |-> reports,
     exit |-> IF in.files = <<>> THEN 2
              ELSE IF \E i \in DOMAIN reports : \E f \in reports[i] : f.severity = "error" THEN 1 ELSE 0]

-----------------------------------------------------------------------------
RECURSIVE Below(_)
Below(e) == {e} \union UNION {Below(e.items[i]) : i \in DOMAIN e.items}
Wrong(e) ==
    \/ e.tag \in {"cut", "unknown"} \/ (e.tag = "integer" /\ e.text /= "1")
    \/ e.tag = "dict" /\ (Len(e.items) % 2 = 1 \/ \E i \in DOMAIN e.items : i % 2 = 1 /\ e.items[i].tag /= "key")
Twice(e) == e.tag = "dict" /\ \E i, j \in DOMAIN e.items : i < j /\ i % 2 = 1 /\ j % 2 = 1 /\ e.items[i].text = e.items[j].text

\* pll passes only if no file has an error in its first value, at whatever depth, that it
\* can read; of a file it cannot read for another reason than its kind it says so. A
\* program is missing only by the name of the last Program or else of the first argument.
PassMeansLinted(in, out) ==
    /\ out.exit = 0 => \A i \in DOMAIN in.files : in.files[i].kind = "xml" =>
            in.files[i].items /= <<>> /\ \A e \in Below(in.files[i].items[1]) : ~Wrong(e) /\ ~Twice(e)
    /\ \A i \in DOMAIN out.reports :
        LET codes == {f.code : f \in out.reports[i]} IN
        /\ "MALFORMED" \in codes => codes = {"MALFORMED"}
        /\ "DUPLICATE_KEY" \in codes => \E e \in Below(in.files[i].items[1]) : Twice(e)
        /\ "PROGRAM_MISSING" \in codes => \E e \in Below(in.files[i].items[1]) :
            e.tag \in Leaves /\ \E f \in out.reports[i] : f.about = e.text /\ e.text \notin in.existing
        /\ in.files[i].kind = "binary" => codes = {"BINARY_UNSUPPORTED"}
=============================================================================
