------------------------------ MODULE ParserMC ------------------------------
(***************************************************************************)
(* What is typed at the parser, what it means, and the way it is printed.  *)
(***************************************************************************)
EXTENDS Parser, TLC

TypedNumbers == "0" :> 0 @@ "1" :> 1 @@ "2" :> 2 @@ "3" :> 3 @@ "256" :> 256

\* With octets of two bits, 260 no longer fits four of them.
TypedHashes == "#6" :> <<6>> @@ "#260" :> <<2, 6, 0>>

TypedNames == {"qt", "x", "f", "g", "u"}

\* f is [1 2] and g is [f 3], in two cells.
Cell1 == UNDEF + NCells
Cell2 == UNDEF + NCells - 1

DefinedWords ==
    "qt" :> NewByte(0, 1) @@ "x" :> NewByte(1, 2) @@ "f" :> Cell1 @@ "g" :> Cell2

DefinitionRoots == "defn qt" :> "qt" @@ "defn x" :> "x" @@ "defn f" :> "f" @@ "defn g" :> "g"

DefinedCells == Cell1 :> [hd |-> 1, tl |-> 2] @@ Cell2 :> [hd |-> Cell1, tl |-> 3]

Chars(n, tokens) == UNION {[1 .. k -> tokens] : k \in 0 .. n}

\* < keeps the names in the order typed: see ReversedNames.
KeepsNames(s) == "<" \in ToSet(s) => Len(SelectSeq(s, LAMBDA c : c \in TypedNames)) <= 1

\* A list of anything, and some with a macro behind them.
Lists ==
    {<<"[">> \o body \o <<"]">> :
        body \in Chars(3, {"1", "x", "f", "[", "]", "<", "'", "@"})
                   \cup Chars(4, {"1", "x", "[", "]", "@"})
                   \cup Chars(3, {"f", "g", "[", "]"})}
    \cup {<<"[">> \o body \o <<"]", end>> :
            body \in Chars(3, {"1", "x", "f", "["}) \cup Chars(4, {"1", "]", "<"}), end \in Macros}

\* What is no list, and what is no expression.
Oddities ==
    Chars(3, {"1", "256", "u", "!", "#6", "#260", "]", "[", "\n", "<", "'", "@"})

\* ohno/tests.cpp and kcon/tests.cpp, longer than Lists.
Tested ==
    {<<"[", "1", "x", "f", "2", "@", "]">>,
     <<"[", "1", "2", "[", "qt", "x", "]", "f", "@", "]">>,
     <<"[", "f", "g", "f", "[", "g", "1", "'", "]", "@", "]">>,
     <<"[", "1", "'", "2", "'", "x", "<", "]">>,
     <<"[", "x", "f", "1", "x", "@", "@", "]">>,
     <<"[", "1", "[", "2", "#6", "<", "]", "\n", "3", "]">>,
     <<"[", "x", "'", "f", "u", "@", "3", "]", "!">>}

TypedTokens == {s \in Lists \cup Oddities \cup Tested : KeepsNames(s)}

Tree(cells, w) == Unfold(cells)[w]

Language == INSTANCE Syntax WITH
                Trees <- [name \in DOMAIN Words |-> Tree(DefnCells, Words[name])]

Output == INSTANCE Printer

Answered == pc \in {"done", "error"} /\ status = "running"

Answer == IF pc = "done" THEN [says |-> "tree", tree |-> Tree(page, raw.arg)]
          ELSE [says |-> outcome, tree |-> <<>>]

(***************************************************************************)
(* The parser answers with the tree the tokens mean, or with the error     *)
(* they deserve: wrong, or only not yet complete.                          *)
(***************************************************************************)
ReadsAsWritten == Answered => Answer = Language!Read(typed)

Occurs(c, tokens) == Len(SelectSeq(tokens, LAMBDA d : d = c))

\* Two elements and a bracket for the innermost list, one more for each other.
Completion(tokens) ==
    LET open == Occurs("[", tokens) - Occurs("]", tokens)
    IN  IF open = 0 THEN <<"1">>
        ELSE <<"1", "1", "]">> \o FlattenSeq([i \in 1 .. open - 1 |-> <<"1", "]">>])

(***************************************************************************)
(* The parser asks for more (stream.tpp:301) when more lines can make the  *)
(* input an expression, and only then: the shell then reads on and does    *)
(* not give up an input that is only unfinished (shell.tpp:250).           *)
(***************************************************************************)
AsksForMore ==
    Answered /\ pc = "error" =>
        LET then(tokens) == Language!Read(typed \o tokens).says
        IN  IF outcome = "more" THEN then(Completion(typed)) \in {"tree", "undef"}
            ELSE \A c \in Expected : then(<<c>>) # "tree"

\* A tree as it is printed without names: the tags do not show.
RECURSIVE Untagged(_)
Untagged(t) == IF Len(t) = 1 THEN <<ByteValue(t[1])>>
               ELSE <<Untagged(t[1]), Untagged(t[2])>>

(***************************************************************************)
(* What is printed reads back as the element that was printed, flat or     *)
(* deep; with names even its tags do, but for a lone byte.                 *)
(***************************************************************************)
PrintedReadsBack ==
    pc = "done" =>
        LET t == Tree(page, raw.arg)
            again(deep, named) ==
                Language!Read(Output!_print_elem(page, raw.arg, deep, named)).tree
        IN  /\ \A deep \in BOOLEAN : again(deep, FALSE) = Untagged(t)
            /\ again(FALSE, TRUE) = IF Len(t) = 1 THEN Untagged(t) ELSE t

\* Two names in a list that is turned round.
ReversedNames == {<<"[", "x", "f", "<", "]">>, <<"[", "x", "1", "f", "<", "]">>}
=============================================================================
