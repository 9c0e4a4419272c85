------------------------------- MODULE Syntax -------------------------------
(***************************************************************************)
(* What a typed expression means, on trees: the language as the help of    *)
(* the shell (kcon/shell.tpp:87-94, ohno/shell.tpp:83-88) and the tests of *)
(* the parser give it, with no cells, no stacks and no names kept aside.   *)
(* Parser is shown to read by it.                                          *)
(*                                                                         *)
(* A token is a string.  A tree is <<w>> for a word w or <<head, tail>>;   *)
(* [a b c] is the tree [a [b c]].                                          *)
(***************************************************************************)
EXTENDS Scheme, Integers, Sequences, SequencesExt

CONSTANTS Numbers,   \* function: token of digits -> its value
          Hashes,    \* function: token with # -> the digits after it
          Names,     \* the tokens that are names
          Trees,     \* function: defined name -> the tree it stands for
          Octet      \* values of an octet of #: 256, less in a small model

Macros == {"'", "<", "@"}

Newline == "\n"

Quote == NewByte(0, 1)   \* the constant qt

\* The value of a row of digits, which # writes in four octets, lowest first.
Value(digits) == FoldLeft(LAMBDA n, d : 10 * n + d, 0, digits)

Octets(n) ==
    [i \in 1 .. 4 |-> <<CASE i = 1 -> n % Octet
                          [] i = 2 -> (n \div Octet) % Octet
                          [] i = 3 -> (n \div (Octet * Octet)) % Octet
                          [] i = 4 -> n \div (Octet * Octet * Octet)>>]

Fits(n) == n < Octet * Octet * Octet * Octet

\* The tree of a list of two elements or more, or the one element.
Nest(list) == FoldRight(LAMBDA t, rest : <<t, rest>>, Front(list), Last(list))
-----------------------------------------------------------------------------
(***************************************************************************)
(* A reading: the lists that are open, outermost first, whether a name had *)
(* no definition, and how far it has come.  The outermost list takes one   *)
(* element, the expression itself.                                         *)
(***************************************************************************)
Nothing == [lists |-> <<<<>>>>, unknown |-> FALSE, state |-> "reading"]

IsComplete(r) == Len(r.lists) = 1 /\ Last(r.lists) # <<>>

With(r, list) == [r EXCEPT !.lists = Append(Front(@), list)]

Element(r, t) == With(r, Append(Last(r.lists), t))

Ends(r, state) == [r EXCEPT !.state = state]

Macro(r, c) ==
    LET list == Last(r.lists)
        n    == Len(list)
    IN  CASE list = <<>> -> Ends(r, "wrong")
          [] list # <<>> /\ c = "'" ->
                 With(r, [list EXCEPT ![n] = <<<<Quote>>, @>>])
          [] list # <<>> /\ c = "<" -> With(r, Reverse(list))
          [] n \in {1, 2} /\ c = "@" -> Ends(r, "illegal")
          [] n > 2 /\ c = "@" ->
                 With(r, SubSeq(list, 1, n - 3)
                           \o <<list[n], list[n - 2], list[n - 1]>>)

Close(r) ==
    LET list  == Last(r.lists)
        outer == [r EXCEPT !.lists = Front(@)]
    IN  IF Len(r.lists) = 1 \/ Len(list) < 2 THEN Ends(r, "wrong")
        ELSE Element(outer, Nest(list))

\* What c, which is no macro, adds to an expression that is not complete.
Add(r, c) ==
    CASE c = Newline -> r
      [] c = "[" -> [r EXCEPT !.lists = Append(@, <<>>)]
      [] c = "]" -> Close(r)
      [] c \in DOMAIN Numbers ->
             IF Numbers[c] < 256 THEN Element(r, <<Numbers[c]>>) ELSE Ends(r, "wrong")
      [] c \in DOMAIN Hashes ->
             IF Fits(Value(Hashes[c])) THEN Element(r, Nest(Octets(Value(Hashes[c]))))
                                       ELSE Ends(r, "wrong")
      [] c \in DOMAIN Trees -> Element(r, Trees[c])
      [] c \in Names \ DOMAIN Trees -> [Element(r, <<UNDEF>>) EXCEPT !.unknown = TRUE]
      [] OTHER -> Ends(r, "wrong")

Take(r, c) ==
    CASE r.state # "reading" -> r
      [] r.state = "reading" /\ c \in Macros -> Macro(r, c)
      [] r.state = "reading" /\ c \notin Macros /\ IsComplete(r) ->
             Ends(r, IF c = Newline THEN "line" ELSE "junk")
      [] r.state = "reading" /\ c \notin Macros /\ ~IsComplete(r) -> Add(r, c)

(***************************************************************************)
(* What comes of the tokens when nothing follows them: the tree, or why    *)
(* there is none.  An undefined name is only told of once the expression   *)
(* is complete, and before what follows the expression on its line.        *)
(***************************************************************************)
Read(tokens) ==
    LET r == FoldLeft(Take, Nothing, tokens)
    IN  CASE r.state \in {"wrong", "illegal"} -> [says |-> r.state, tree |-> <<>>]
          [] r.state = "reading" /\ ~IsComplete(r) -> [says |-> "more", tree |-> <<>>]
          [] r.state \in {"line", "junk"} \/ (r.state = "reading" /\ IsComplete(r)) ->
                 IF r.unknown THEN [says |-> "undef", tree |-> <<>>]
                 ELSE IF r.state = "junk" THEN [says |-> "wrong", tree |-> <<>>]
                 ELSE [says |-> "tree", tree |-> r.lists[1][1]]
=============================================================================
