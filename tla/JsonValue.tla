------------------------------ MODULE JsonValue ------------------------------
(***************************************************************************)
(* JSON documents as encoding/json hands them to the tools: trees of lists *)
(* and maps over scalars.  A key that a map lacks reads as null.           *)
(***************************************************************************)
EXTENDS Integers, SequencesExt

Null == [kind |-> "null"]
Bool(s) == [kind |-> "bool", is |-> s]
Str(s) == [kind |-> "string", is |-> s]
List(items) == [kind |-> "list", items |-> items]
Map(fields) == [kind |-> "map", fields |-> fields]

\* A number keeps its text; float is the float64 nearest to it, Overflow when there
\* is none.
Overflow == 999
Num(text, float) == [kind |-> "number", text |-> text, float |-> float]

Children(v) ==
    CASE v.kind = "list" -> Range(v.items)
      [] v.kind = "map" -> Range(v.fields)
      [] OTHER -> {}

\* A value and everything below it.
RECURSIVE Nodes(_)
Nodes(v) == {v} \union UNION {Nodes(c) : c \in Children(v)}

\* The status of a command that could not read its one document, 0 when it could.
Decode(file) ==
    CASE file \in {"missing", "unreadable"} -> 4
      [] file \in {"too long", "invalid", "two documents"} -> 2
      [] OTHER -> 0
=============================================================================
