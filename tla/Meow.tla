--------------------------------- MODULE Meow ---------------------------------
(***************************************************************************)
(* meow: which text it reads, what it makes of a line, what it prints. A    *)
(* text is a sequence of items: a letter, a digit, a mark or a space of the *)
(* input, or something the tool put in; which of its sounds is left out.   *)
(***************************************************************************)
EXTENDS Integers, Sequences, SequencesExt, FiniteSetsExt, TLC

CONSTANT TextOf(_)

Switch == {"h", "help", "version", "t", "translate", "P", "prefix", "e", "emphasis", "k",
           "zoomies", "keyboard-walk", "s", "suffix", "v", "loud", "ascii", "cat"}
Valued == {"prefix-text", "suffix-text", "p", "pitch", "volume", "f", "frequency", "i", "input",
           "format", "seed"}
\* bindFlags: names that set one variable.
Variable(name) ==
    CASE name \in {"zoomies"} -> "keyboard-walk"
      [] name \in {"f"} -> "frequency"
      [] name \in {"i"} -> "input"
      [] OTHER -> name

A == INSTANCE Arguments WITH Switches <- Switch, Valued <- Valued

Item(of, c, case) == [of |-> of, c |-> c, case |-> case]
Made(of, c) == Item(of, c, "own")
Space == Made("space", " ")
Broken == Made("broken", "half a rune")
NewLine == Made("newline", "\n")
WordItem(x) == x.of \in {"letter", "wide", "digit"}
Letter(x) == x.of \in {"letter", "wide"}
Upper == {"A", "B"}

-----------------------------------------------------------------------------
\* How a number drawn in [0, 1) falls out: at or below the frequency, or at or below
\* half of it.
Frequency(f) == CASE f = "NaN" -> "NaN" [] f \in {"0", "-1"} -> "0.3" [] f = "7" -> "1" [] OTHER -> f
AtMost(f) == CASE f = "NaN" -> {FALSE} [] f = "1" -> {TRUE} [] OTHER -> BOOLEAN
AtMostHalf(f) == IF f = "NaN" THEN {FALSE} ELSE BOOLEAN
Skips(f) == IF f \in {"NaN", "1"} THEN {FALSE} ELSE BOOLEAN

isUpper(w) ==
    /\ \E i \in DOMAIN w : Letter(w[i])
    /\ \A i \in DOMAIN w : Letter(w[i]) => w[i].c \in Upper
isTitle(w) == w[1].c \in Upper

\* A sound as long as the word, in its case.
Sound(w) ==
    Item("sound", IF Len(w) <= 3 THEN "short" ELSE IF Len(w) <= 6 THEN "medium" ELSE "long",
         IF isUpper(w) THEN "upper" ELSE IF isTitle(w) THEN "title" ELSE "own")

\* Mutant: a word that ends the line is not flushed.
translateWords_NoFlush(text) ==
    LET start(i) == Max({j \in 1..i : \A k \in j..i : WordItem(text[k])})
        at(i) == IF WordItem(text[i]) THEN <<>>
                 ELSE IF i = 1 \/ ~WordItem(text[i - 1]) THEN <<text[i]>>
                 ELSE <<Sound(SubSeq(text, start(i - 1), i - 1)), text[i]>>
    IN  IF text = <<>> THEN <<Made("sound", "short")>> ELSE FlattenSeq([i \in DOMAIN text |-> at(i)])

\* Every run of letters and digits becomes a sound where it ends.
translateWords(text) ==
    LET start(i) == Max({j \in 1..i : \A k \in j..i : WordItem(text[k])})
        at(i) == IF ~WordItem(text[i]) THEN <<text[i]>>
                 ELSE IF i < Len(text) /\ WordItem(text[i + 1]) THEN <<>>
                 ELSE <<Sound(SubSeq(text, start(i), i))>>
    IN  IF text = <<>> THEN <<Made("sound", "short")>> ELSE FlattenSeq([i \in DOMAIN text |-> at(i)])

\* A walk at any byte, the second of a rune of two bytes included.
injectKeyboardWalk(text, f) ==
    LET walk == <<Space, Made("walk", "keys"), Space>>
        between == {SubSeq(text, 1, p) \o walk \o SubSeq(text, p + 1, Len(text)) : p \in 0..Len(text)}
        within == {SubSeq(text, 1, p - 1) \o <<Broken>> \o walk \o <<Broken>> \o SubSeq(text, p + 1, Len(text)) :
                   p \in {p \in DOMAIN text : text[p].of = "wide"}}
    IN  UNION {IF skip THEN {text} ELSE IF text = <<>> THEN {<<Made("walk", "keys")>>} ELSE between \union within :
               skip \in Skips(f)}

Jittered(w) == [i \in DOMAIN w |-> IF Letter(w[i]) \/ w[i].of \in {"sound", "walk"} THEN [w[i] EXCEPT !.case = "any"] ELSE w[i]]

Fields(text) ==
    LET word(i) == text[i].of /= "space"
        first(i) == word(i) /\ (i = 1 \/ ~word(i - 1))
        last(i) == Max({j \in i..Len(text) : \A k \in i..j : word(k)})
        at == SelectSeq([i \in DOMAIN text |-> i], first)
    IN  [k \in DOMAIN at |-> SubSeq(text, at[k], last(at[k]))]

\* Words in any case, a purr after any of them, and one space between them.
injectEmphasis(text, f) ==
    LET words == Fields(text)
        purr == Made("purr", "purr")
        written(w, jitter, after) == (IF jitter THEN Jittered(w) ELSE w) \o (IF after THEN <<Space, purr>> ELSE <<>>)
        choice == [DOMAIN words -> [jitter : AtMostHalf(f), after : AtMost(f)]]
        line(c) == FlattenSeq([k \in DOMAIN words |->
            (IF k = 1 THEN <<>> ELSE <<Space>>) \o written(words[k], c[k].jitter, c[k].after)])
    IN  IF words = <<>> THEN {IF purrs THEN <<purr>> ELSE text : purrs \in AtMost(f)}
        ELSE {line(c) : c \in choice}

Loud(text) == [i \in DOMAIN text |-> [text[i] EXCEPT !.case = "upper"]]

\* The modes one after the other.
transformLine(line, opts) ==
    LET translated == IF opts.translate THEN translateWords(line) ELSE line
        walked == IF opts.walk THEN injectKeyboardWalk(translated, opts.frequency) ELSE {translated}
        emphasised == UNION {IF opts.emphasis THEN injectEmphasis(t, opts.frequency) ELSE {t} : t \in walked}
        framed(t) == (IF opts.prefix THEN <<Made("prefix", opts.prefixText)>> ELSE <<>>) \o t
                     \o (IF opts.suffix THEN <<Made("suffix", opts.suffixText)>> ELSE <<>>)
    IN  {IF opts.loud THEN Loud(framed(t)) ELSE framed(t) : t \in emphasised}

\* The lines of a text: one more than it has ends of line.
SplitLines(text) ==
    LET ends == SelectSeq([i \in DOMAIN text |-> i], LAMBDA i : text[i] = NewLine)
        at == <<0>> \o ends \o <<Len(text) + 1>>
    IN  [k \in 1..(Len(at) - 1) |-> SubSeq(text, at[k] + 1, at[k + 1] - 1)]

\* A text that is not empty, else the lines of a reader, else one empty line.
LinesOf(source) ==
    IF source.text /= <<>> THEN SplitLines(source.text)
    ELSE IF source.reader = "none" THEN <<<<>>>> ELSE source.lines

deriveMode(opts) ==
    SelectSeq(<<"translate", "prefix", "emphasis", "walk", "suffix">>, LAMBDA m : opts[m])

Pitches == {"normal", "mew", "hiss", "purr", "rawr"}
Pitch(p) == IF p \in Pitches THEN p ELSE "normal"
AsciiArt(pitch) == "a cat of pitch " \o pitch

Transform(opts, source) ==
    LET lines == LinesOf(source)
        given == [opts EXCEPT !.frequency = Frequency(@), !.pitch = Pitch(@)]
        after(made, line) == {Append(m, l) : m \in made, l \in transformLine(line, given)}
    IN  {[mode |-> deriveMode(opts), pitch |-> given.pitch, frequency |-> given.frequency, lines |-> out,
          ascii |-> IF opts.ascii THEN AsciiArt(given.pitch) ELSE ""] :
         out \in FoldLeft(after, {<<>>}, lines)}

-----------------------------------------------------------------------------
\* resolveCommand: what the flags that were set say together.
Resolve(read) ==
    LET is(names) == \E n \in names : n \in DOMAIN read.set /\ read.set[n] = "true"
        value(name, default) == IF name \in DOMAIN read.set THEN read.set[name] ELSE default
        given(name) == value(name, "") /= ""
    IN  [translate |-> is({"t", "translate"}),
         prefix |-> is({"P", "prefix"}) \/ given("prefix-text"), prefixText |-> value("prefix-text", ""),
         emphasis |-> is({"e", "emphasis"}), walk |-> is({"k", "keyboard-walk"}),
         suffix |-> is({"s", "suffix"}) \/ given("suffix-text"), suffixText |-> value("suffix-text", ""),
         pitch |-> IF given("p") THEN read.set["p"] ELSE value("pitch", "normal"),
         loud |-> is({"v", "loud"}) \/ value("volume", "") \in {"loud", "caps", "true"},
         frequency |-> value("frequency", "0.3"), ascii |-> is({"ascii", "cat"}),
         input |-> value("input", ""), format |-> value("format", "text"),
         help |-> is({"h", "help"}), version |-> is({"version"})]

NoText == [text |-> <<>>, reader |-> "none", lines |-> <<>>]
Joined(texts) ==
    FlattenSeq([k \in DOMAIN texts |-> (IF k = 1 THEN <<>> ELSE <<Space>>) \o TextOf(A!Spelled(texts[k]))])

\* The arguments, else the input file, else a word for a terminal, else the input.
Source(in, read, opts) ==
    IF read.text /= <<>> THEN [NoText EXCEPT !.text = Joined(read.text)]
    ELSE IF opts.input /= "" THEN [reader |-> in.file.reader, lines |-> in.file.lines, text |-> <<>>]
    ELSE IF in.stdin.reader = "terminal" THEN [NoText EXCEPT !.text = TextOf("meow")]
    ELSE [reader |-> in.stdin.reader, lines |-> in.stdin.lines, text |-> <<>>]

\* What is printed of a result, and what ends a command before there is one. Only the
\* report in JSON holds the frequency, and NaN is none of its numbers.
Printed(result, format) ==
    CASE format = "json" /\ result.frequency = "NaN" -> [exit |-> 4, result |-> <<>>, records |-> 0, cat |-> FALSE]
      [] format = "json" /\ result.frequency /= "NaN" -> [exit |-> 0, result |-> result, records |-> 1, cat |-> result.ascii /= ""]
      [] format = "ndjson" -> [exit |-> 0, result |-> result, records |-> Len(result.lines), cat |-> FALSE]
      [] format = "text" -> [exit |-> 0, result |-> result, records |-> 1, cat |-> result.ascii /= ""]

Exit(code) == {[exit |-> code, result |-> <<>>, records |-> 0, cat |-> FALSE]}

Meow(in) ==
    LET read == A!Parse(A!ReorderInterspersed(in.args))
        opts == Resolve(read)
        source == Source(in, read, opts)
    IN  IF read.error \/ opts.format \notin {"text", "json", "ndjson"} THEN Exit(2)
        ELSE IF opts.help \/ opts.version THEN Exit(0)
        ELSE IF source.reader = "missing" THEN Exit(1)
        ELSE IF source.reader = "too long" THEN Exit(4)
        ELSE {Printed(result, opts.format) : result \in Transform(opts, source)}

-----------------------------------------------------------------------------
Text(line, kinds) ==
    LET of == SelectSeq(line, LAMBDA x : x.of \in kinds) IN [i \in DOMAIN of |-> of[i].c]

\* A letter that was broken is told apart by its halves with the walk between them.
Mended(line, whole) ==
    LET first == Min({i \in DOMAIN line : line[i] = Broken} \union {Len(line) + 1})
    IN  IF first > Len(line) THEN line
        ELSE SubSeq(line, 1, first - 1) \o <<whole>> \o SelectSeq(SubSeq(line, first, Len(line)), LAMBDA x : x.of /= "broken")

\* Every line is answered by one line. Without -t its letters, digits and marks survive
\* in their order, and its spaces too without -e; with -t its marks do, and there is a
\* sound for every word. The arguments are those of GNU if all flags are long.
TextSurvives(in, out) ==
    LET opts == Resolve(A!Parse(A!ReorderInterspersed(in.args)))
        source == Source(in, A!Parse(A!ReorderInterspersed(in.args)), opts)
        lines == LinesOf(source)
        wide == Made("wide", "w")
        words(line) == Cardinality({i \in DOMAIN line : WordItem(line[i]) /\ (i = Len(line) \/ ~WordItem(line[i + 1]))})
    IN  /\ A!LongFlagsGoAnywhere(in.args)
        /\ out.result /= <<>> =>
            /\ Len(out.result.lines) = Len(lines)
            /\ out.records = (IF opts.format = "ndjson" THEN Len(lines) ELSE 1)
            /\ \A i \in DOMAIN lines :
                LET line == lines[i]
                    new == Mended(out.result.lines[i], wide)
                    kept == {"mark"} \union (IF opts.translate THEN {} ELSE {"letter", "wide", "digit"})
                IN  /\ Text(new, kept) = Text(line, kept)
                    /\ opts.translate => Len(Text(new, {"sound"})) = (IF line = <<>> THEN 1 ELSE words(line))
                    /\ ~opts.translate /\ ~opts.walk /\ ~opts.emphasis =>
                        Text(new, {"space"}) = Text(line, {"space"}) /\ Len(new) - Len(line) \in 0..2
                    /\ ~opts.emphasis /\ ~opts.loud => \A k \in DOMAIN new : new[k].case /= "any"

=============================================================================
