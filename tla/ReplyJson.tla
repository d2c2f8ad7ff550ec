------------------------------ MODULE ReplyJson ------------------------------
(***************************************************************************)
(* How the gateway finds the JSON in what a language model wrote           *)
(* (gateway/parsers/base.py): inside a fenced block, between the first     *)
(* bracket and the last, with repairs when that does not parse.            *)
(*                                                                         *)
(* A text is a sequence of tokens: the brackets, "quote", "backslash",     *)
(* "fence" (three backticks and their language), "word" (prose, no JSON),  *)
(* "number", "comma", and "key", which is a quoted string with its colon.  *)
(* White space is left out.                                                *)
(***************************************************************************)
EXTENDS Integers, Sequences, FiniteSets

CONSTANTS
    Json,           \* the token sequences json.loads accepts
    Texts,          \* what a model may write
    Error           \* JSONDecodeError

VARIABLES
    text,           \* the reply
    value           \* what extract_json_from_text returns, <<>> before it does

replyVars == <<text, value>>

Openers == {"{", "["}
Closers == {"}", "]"}
Closer(open) == IF open = "{" THEN "}" ELSE "]"

Least(S) == CHOOSE i \in S : \A j \in S : i <= j
Greatest(S) == CHOOSE i \in S : \A j \in S : j <= i
Where(s, tokens) == {i \in DOMAIN s : s[i] \in tokens}

-----------------------------------------------------------------------------
\* How many of the first n tokens go at a time: a quote with its backslash, a
\* quote behind a bracket, a backslash.
Garbage(s, n) ==
    IF n > 1 /\ s[n] = "quote" /\ s[n - 1] = "backslash" THEN 2
    ELSE IF \/ n > 1 /\ s[n] = "quote" /\ s[n - 1] \in Closers
            \/ n > 0 /\ s[n] = "backslash"
    THEN 1 ELSE 0

\* The end of an object or a list is freed of quotes and backslashes.
Strip(s) ==
    LET kept[n \in 0 .. Len(s)] ==
            IF Garbage(s, n) = 0 THEN n ELSE kept[n - Garbage(s, n)]
    IN  SubSeq(s, 1, kept[Len(s)])

\* Ticks at the end go first, and only then.
StripGarbage(s) ==
    LET kept == Where(s, {"fence"})
        n == Greatest({0} \cup {i \in DOMAIN s : i \notin kept})
    IN  Strip(SubSeq(s, 1, n))

\* Broken: brackets inside strings count.
BalancedBlind(s) ==
    LET start == Least(Where(s, Openers))
        open == s[start]
        count(i, token) == Cardinality({j \in start .. i : s[j] = token})
        ends == {i \in start .. Len(s) : count(i, open) = count(i, Closer(open))}
    IN  IF Where(s, Openers) = {} THEN <<>>
        ELSE IF ends = {} THEN <<>> ELSE SubSeq(s, start, Least(ends))

\* Broken: from the last bracket on.
BalancedLast(s) ==
    LET start == Greatest(Where(s, Openers))
        ends == {i \in start .. Len(s) : s[i] = Closer(s[start])}
    IN  IF Where(s, Openers) = {} THEN <<>>
        ELSE IF ends = {} THEN <<>> ELSE SubSeq(s, start, Least(ends))

\* One token further: inside a string, after a backslash in it, or outside,
\* where brackets of the kind that opened count.
ScanToken(was, token, open) ==
    IF was.string
    THEN [was EXCEPT !.escape = ~was.escape /\ token = "backslash",
                     !.string = was.escape \/ token # "quote"]
    ELSE [was EXCEPT
            !.string = token = "quote",
            !.depth = IF token = open THEN @ + 1
                      ELSE IF token = Closer(open) THEN @ - 1 ELSE @]

\* What is known before each token from start on.
Scan(s, start) ==
    LET scan[i \in start .. Len(s) + 1] ==
            IF i = start THEN [string |-> FALSE, escape |-> FALSE, depth |-> 0]
            ELSE ScanToken(scan[i - 1], s[i - 1], s[start])
    IN  scan

\* From the first bracket to the one that closes it, strings skipped; none
\* when it is never closed.
Balanced(s) ==
    LET start == Least(Where(s, Openers))
        ends == {i \in start .. Len(s) : Scan(s, start)[i + 1].depth = 0}
    IN  IF Where(s, Openers) = {} THEN <<>>
        ELSE IF ends = {} THEN <<>> ELSE SubSeq(s, start, Least(ends))

\* The first attempt that parses.
Repair(s) ==
    LET attempts == <<s, StripGarbage(s), Balanced(s), StripGarbage(Balanced(s))>>
        good == {i \in DOMAIN attempts : attempts[i] \in Json}
    IN  IF good = {} THEN Error ELSE attempts[Least(good)]

-----------------------------------------------------------------------------
\* The first two fences, and what is between them.
Fenced(s) ==
    LET first == Least(Where(s, {"fence"}))
        second == Least(Where(s, {"fence"}) \ {first})
    IN  SubSeq(s, first + 1, second - 1)

\* The first bracket of which there is a closing one, and the last such one.
Starts(s) ==
    {i \in Where(s, Openers) : \E j \in i .. Len(s) : s[j] = Closer(s[i])}

Bracketed(s) ==
    LET start == Least(Starts(s))
    IN  SubSeq(s, start, Greatest(Where(s, {Closer(s[start])})))

Extract(s) ==
    IF s = <<>> THEN <<"{", "}">>
    ELSE IF Cardinality(Where(s, {"fence"})) >= 2 THEN Repair(Fenced(s))
    ELSE IF Starts(s) # {} THEN Repair(Bracketed(s))
    ELSE Repair(s)

-----------------------------------------------------------------------------
ReplyInit ==
    /\ text \in Texts
    /\ value = <<>>

ExtractJson ==
    /\ value = <<>>
    /\ value' = Extract(text)
    /\ UNCHANGED text

ReplyNext == ExtractJson
ReplySpec == ReplyInit /\ [][ReplyNext]_replyVars

-----------------------------------------------------------------------------
(* Properties. *)

Whole(v) == v \in Json /\ v[1] \in Openers

\* tokens s contain v at position i + 1
HasAt(s, v, i) == i + Len(v) <= Len(s) /\ SubSeq(s, i + 1, i + Len(v)) = v

\* What the properties rely on: a JSON value has at least one token, and in an
\* object or a list the brackets, those in strings not counted, balance at its end
\* and not before.
Grammar ==
    /\ Json \subseteq Seq(STRING) \ {<<>>}
    /\ \A v \in Json : Whole(v) =>
          /\ v[Len(v)] = Closer(v[1])
          /\ \A i \in DOMAIN v : Scan(v, 1)[i + 1].depth = 0 <=> i = Len(v)

ASSUME GrammarAssumption == Grammar /\ Texts \subseteq Seq(STRING)

\* An object or a list is what is read, with prose before it or at the start of
\* the first fenced block, whatever is behind it: stray closing brackets,
\* quotes, backslashes and further values do no harm.
WrappedValueIsRead ==
    value # <<>> =>
        \A v \in {w \in Json : Whole(w)}, n \in 0 .. Len(text) :
            /\ HasAt(text, v, n)
            /\ LET fences == Where(text, {"fence"})
               IN  \/ /\ fences = {}
                      /\ \A i \in 1 .. n : text[i] \in {"word", "number", "comma"}
                   \/ /\ fences \cap 1 .. n + Len(v) = {n}
                      /\ fences # {n}
            => value = v

\* A list of objects, or a list without any, that breaks off is read as its first
\* item or as nothing: no item is made up of two, and no later one is taken for
\* the answer.
BrokenListGivesItsHead ==
    value \notin {<<>>, Error} /\ text # <<>> =>
        \A list \in {v \in Json : v[1] = "["} :
            /\ HasAt(list, text, 0) /\ text # list
            /\ Where(list, {"fence"}) = {}
            /\ list[2] = "{" \/ Where(list, {"{"}) = {}
            => HasAt(text, value, 1)

=============================================================================
