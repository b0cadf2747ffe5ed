------------------------------- MODULE Arguments -------------------------------
(***************************************************************************)
(* How the Go commands read their arguments (internal/cli):               *)
(* ReorderInterspersed puts long flags first, and the flag package reads   *)
(* flags until the first argument that is none.                            *)
(***************************************************************************)
EXTENDS Integers, Sequences, TLC

CONSTANTS Switches, Valued, Variable(_)

\* An argument: "--name=joined", "-name", "--" or a text.
Argument(dashes, name, joined) == [dashes |-> dashes, name |-> name, joined |-> joined]
Absent == "absent"
Text(t) == Argument(0, t, Absent)
Long(name) == Argument(2, name, Absent)
Short(name) == Argument(1, name, Absent)
End == Long("")

\* The value that an argument is when a flag takes it.
Spelled(a) == IF a.dashes = 0 THEN a.name ELSE "a flag"

\* The arguments at the given places, in their order.
Chosen(args, places) ==
    LET at == SelectSeq([i \in DOMAIN args |-> i], LAMBDA i : i \in places)
    IN  [k \in DOMAIN at |-> args[at[k]]]

\* Long flags, each with the argument it takes, before the others.
ReorderInterspersed(args) ==
    LET long(a) == a.dashes = 2 /\ a /= End
        taken[i \in 1..(Len(args) + 1)] ==
            i > 1 /\ ~taken[i - 1] /\ long(args[i - 1]) /\ args[i - 1].joined = Absent
                  /\ args[i - 1].name \in Valued
        moved == {i \in DOMAIN args : taken[i] \/ long(args[i])}
    IN  Chosen(args, moved) \o Chosen(args, DOMAIN args \ moved)

Refused == [error |-> TRUE, set |-> <<>>, text |-> <<>>]

\* flag.FlagSet.Parse, and the same for arguments that flags and texts may mix in:
\* a later value of a variable wins.
Read(args, mixed) ==
    LET read[i \in 1..(Len(args) + 2)] ==
        IF i > Len(args) THEN [error |-> FALSE, set |-> <<>>, text |-> <<>>]
        ELSE LET a == args[i]
                 next == IF a.name \in Valued /\ a.joined = Absent THEN i + 2 ELSE i + 1
                 wrong == \/ a.name \notin Switches \union Valued
                          \/ next > Len(args) + 1
                          \/ a.name \in Switches /\ a.joined \notin {Absent, "true", "false"}
                 value == IF a.name \in Valued
                          THEN IF a.joined = Absent THEN Spelled(args[i + 1]) ELSE a.joined
                          ELSE IF a.joined = "false" THEN "false" ELSE "true"
             IN  CASE a = End -> [read[Len(args) + 1] EXCEPT !.text = SubSeq(args, i + 1, Len(args))]
                   [] a.dashes = 0 /\ ~mixed -> [read[Len(args) + 1] EXCEPT !.text = SubSeq(args, i, Len(args))]
                   [] a.dashes = 0 /\ mixed -> [read[i + 1] EXCEPT !.text = <<a>> \o @]
                   [] a.dashes > 0 /\ a /= End /\ wrong -> Refused
                   [] OTHER -> [read[next] EXCEPT !.set = @ @@ (Variable(a.name) :> value)]
    IN  IF read[1].error THEN Refused ELSE read[1]

Parse(args) == Read(args, FALSE)

-----------------------------------------------------------------------------
\* Arguments that hold no short flag and no "--" are read as GNU reads them, wherever
\* the flags stand (cli.go:50); but a flag that ends the line without its value
\* takes the first text for it, where GNU refuses the line.
LongFlagsGoAnywhere(args) ==
    LET read == Parse(ReorderInterspersed(args))
        starved == Long(args[Len(args)].name) = args[Len(args)] /\ args[Len(args)].name \in Valued
    IN  (\A i \in DOMAIN args : args[i].dashes /= 1 /\ args[i] /= End)
            => read = Read(args, TRUE) \/ (args /= <<>> /\ starved)

=============================================================================
