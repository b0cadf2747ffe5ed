---------------------------- MODULE BoundedReaders ---------------------------
(***************************************************************************)
(* Readers that stop at a bound and must say so: eventwhy groups container *)
(* events (internal/eventwhy), collectout keeps the output of a command    *)
(* for it (internal/collectout), and selinuxwhy lists denials              *)
(* (internal/selinuxwhy).  A line has a size, an end of 0, 1 or 2 bytes    *)
(* ("\r\n") and the event that its text is.                                *)
(***************************************************************************)
EXTENDS Integers, Sequences, FiniteSets

CONSTANTS Limit, RecordLimit    \* bytes of the input and of one line

\* The bytes up to the end of each line.
Ends(lines) ==
    LET upTo[i \in 0..Len(lines)] == IF i = 0 THEN 0 ELSE upTo[i - 1] + lines[i].size + lines[i].end
    IN  upTo

\* collectout.Write: a chunk that does not fit ends the copy and the command.
Fits(lines) == Ends(lines)[Len(lines)] <= Limit
Run(lines, succeeds) == Fits(lines) /\ succeeds

\* Events that tell nothing.
Unusable == {"malformed", "none", "no_identity"}
Key(e) == <<e.id, e.action, e.exit>>

Groups(groups, e) ==
    LET key == Key(e)
        Smaller(a, b) == IF a < b THEN a ELSE b
        Larger(a, b) == IF a > b THEN a ELSE b
        g == IF key \in DOMAIN groups
             THEN [count |-> groups[key].count + 1, first |-> Smaller(groups[key].first, e.time),
                   last |-> Larger(groups[key].last, e.time)]
             ELSE [count |-> 1, first |-> e.time, last |-> e.time]
    IN  [k \in DOMAIN groups \union {key} |-> IF k = key THEN g ELSE groups[k]]

Told(r, what) == [r EXCEPT !.diagnostics = @ \union {what}]

\* Mutant: reading stops at a limit without a word.
Stopped_Silent(r, what) == [r EXCEPT !.stopped = TRUE]

Stopped(r, what) == [r EXCEPT !.diagnostics = @ \union {what}, !.stopped = TRUE]

\* A line that is not blank has been counted.
Event(r, event, maxEvents) ==
    CASE r.lines > maxEvents -> Stopped(r, "event_limit")
      [] r.lines <= maxEvents /\ event.type \in Unusable -> Told(r, event.type)
      [] r.lines <= maxEvents /\ event.type \notin Unusable /\ event.type /= "container" ->
            [r EXCEPT !.ignored = @ + 1]
      [] r.lines <= maxEvents /\ event.type = "container" ->
            [r EXCEPT !.events = @ + 1, !.groups = Groups(@, event)]

\* A line that the scanner has read.
Line(r, size, event, maxEvents) ==
    LET bytes == r.bytes + size + 1 IN
    CASE size > RecordLimit -> Stopped(r, "record_limit")
      [] size <= RecordLimit /\ bytes > Limit -> Stopped(r, "byte_limit")
      [] size <= RecordLimit /\ bytes <= Limit /\ event.type = "blank" -> [r EXCEPT !.bytes = bytes]
      [] size <= RecordLimit /\ bytes <= Limit /\ event.type /= "blank" ->
            Event([r EXCEPT !.bytes = bytes, !.lines = @ + 1], event, maxEvents)

\* The scanner has the first Limit + 1 bytes: the line that they end in may be cut, and
\* a line loses its end, "\r" included.
Scan(r, lines, i, maxEvents) ==
    LET room == Limit + 1 - Ends(lines)[i - 1] IN
    CASE r.stopped \/ room <= 0 -> r
      [] ~r.stopped /\ room > 0 /\ lines[i].size <= room -> Line(r, lines[i].size, lines[i].event, maxEvents)
      [] ~r.stopped /\ room > 0 /\ lines[i].size > room -> Line(r, room, [type |-> "malformed"], maxEvents)

Fresh == [bytes |-> 0, lines |-> 0, events |-> 0, ignored |-> 0, groups |-> <<>>,
          diagnostics |-> {}, stopped |-> FALSE]

Normalize(lines, fails, maxEvents) ==
    LET after[i \in 0..Len(lines)] ==
            IF i = 0 THEN Fresh ELSE Scan(after[i - 1], lines, i, maxEvents)
        r == after[Len(lines)]
    IN  IF fails /\ ~r.stopped THEN Told(r, "input_failed") ELSE r

\* A live collection is never complete, whatever it brings.
Collect(in) ==
    LET brought == Run(in.lines, ~in.fails)
    IN  Told(Normalize(IF brought THEN in.lines ELSE <<>>, FALSE, in.max),
             IF brought THEN "history_is_limited" ELSE "collection_failed")

Eventwhy(in) ==
    LET r == IF in.collect THEN Collect(in) ELSE Normalize(in.lines, in.fails, in.max) IN
    [exit |-> IF r.diagnostics /= {} THEN 3 ELSE 0,
     events |-> r.events, ignored |-> r.ignored, groups |-> r.groups]

\* selinuxwhy keeps the first denials of the log, up to a number of them, and reads no
\* further.
Denials(log, max) ==
    LET kept[i \in 0..Len(log)] ==
            IF i = 0 THEN 0
            ELSE IF kept[i - 1] < max /\ log[i] = "denied" THEN kept[i - 1] + 1 ELSE kept[i - 1]
    IN  kept[Len(log)]

Selinuxwhy(in) ==
    LET kept == Denials(in.log, in.max)
        Result(status, n) == [exit |-> status, denials |-> n]
    IN  IF in.max < 1 \/ in.max > 1000 THEN Result(2, 0)
        ELSE IF ~in.opens THEN Result(3, 0)
        ELSE IF in.fails /\ kept < in.max THEN Result(4, 0)
        ELSE Result(IF kept > 0 THEN 1 ELSE 3, kept)

\* What the two can be given.
IsEvents(in) ==
    /\ in.lines \in Seq({in.lines[i] : i \in DOMAIN in.lines})
    /\ \A i \in DOMAIN in.lines :
        /\ in.lines[i].size \in Nat /\ in.lines[i].end \in 0..2
        /\ in.lines[i].event.type \in {"blank", "image", "container"} \union Unusable
        /\ in.lines[i].event.type = "container" => in.lines[i].event.time \in Nat
    /\ in.max \in Nat /\ in.fails \in BOOLEAN /\ in.collect \in BOOLEAN
IsLog(in) ==
    in.log \in Seq({"denied", "granted"}) /\ in.max \in Int /\ in.opens \in BOOLEAN /\ in.fails \in BOOLEAN

-----------------------------------------------------------------------------
\* The counts are those of the first n lines: each container event in the group of its
\* key, with the earliest and the latest time, each other event among the ignored.
Counted(lines, n, out) ==
    LET At(t) == {i \in 1..n : lines[i].event.type = t}
        In(k) == {i \in At("container") : Key(lines[i].event) = k}
    IN  /\ out.events = Cardinality(At("container")) /\ out.ignored = Cardinality(At("image"))
        /\ DOMAIN out.groups = {Key(lines[i].event) : i \in At("container")}
        /\ \A k \in DOMAIN out.groups :
            /\ out.groups[k].count = Cardinality(In(k))
            /\ \E i, j \in In(k) : out.groups[k].first = lines[i].event.time /\ out.groups[k].last = lines[j].event.time
            /\ \A i \in In(k) : out.groups[k].first <= lines[i].event.time /\ lines[i].event.time <= out.groups[k].last

\* However it ends, the counts and the groups of eventwhy are those of the first lines
\* of what it was given; it ends with 0 only when these are all lines, and none was one
\* that it could not use.  The bytes it counts leave "\r" out: the promise is of lines
\* that end in "\n".
PassMeansEverything(in, out) ==
    /\ in.collect => out.exit = 3
    /\ \E n \in 0..Len(in.lines) :
        /\ Counted(in.lines, n, out)
        /\ out.exit = 0 /\ (\A i \in DOMAIN in.lines : in.lines[i].end /= 2) =>
            /\ n = Len(in.lines) /\ ~in.fails
            /\ \A i \in DOMAIN in.lines : in.lines[i].event.type \notin Unusable

\* selinuxwhy never ends with 0; it ends with 1 exactly when it lists a denial; and
\* when it lists fewer than it may, the log it read has no others.
DenialsAreTold(in, out) ==
    LET there == Cardinality({i \in DOMAIN in.log : in.log[i] = "denied"}) IN
    /\ out.exit /= 0
    /\ out.exit = 1 <=> out.denials > 0
    /\ out.exit \in {1, 3} /\ in.opens /\ out.denials < in.max => out.denials = there /\ ~in.fails
    /\ out.denials <= there
=============================================================================
