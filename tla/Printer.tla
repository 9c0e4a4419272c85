------------------------------- MODULE Printer ------------------------------
(***************************************************************************)
(* elpa_ostream (elpa/stream.tpp): the tokens an element is printed as,    *)
(* flat or deep, with the shell's names for elements or without.  Spaces   *)
(* are left out, and numbers are decimal.                                  *)
(***************************************************************************)
EXTENDS Cells, Sequences, SequencesExt

CONSTANTS Numbers,   \* function: token of digits -> its value
          Words      \* function: name -> the word it stands for

Digits(b) == <<CHOOSE d \in DOMAIN Numbers : Numbers[d] = ByteValue(b)>>

\* byte_names and cell_names, when names are used
HasName(w, named) == named /\ \E name \in DOMAIN Words : Words[name] = w

Leaf(w, named) ==
    IF HasName(w, named) THEN <<CHOOSE name \in DOMAIN Words : Words[name] = w>>
    ELSE IF IsUndef(w) THEN <<"<undef>">>
    ELSE Digits(w)

IsNested(w, named) == IsPcell(w) /\ ~HasName(w, named)

\* Wrong on purpose: forgets to count the bracket it opens.
Uncounted(tail, cells, deep) == [elem |-> cells[tail.elem].tl, len |-> tail.len]

\* The rest of the list of a cell; deep, it is in brackets of its own, which
\* are closed behind its end.
Rest(tail, cells, deep) ==
    LET rest == cells[tail.elem].tl
    IN  [elem |-> rest, len |-> IF IsPcell(rest) THEN tail.len + 1 ELSE tail.len]

Opening(w, deep) == IF deep /\ IsPcell(w) THEN <<"[">> ELSE <<>>

Closing(tail, deep) == IF deep THEN [i \in 1 .. tail.len |-> "]"] ELSE <<>>

(***************************************************************************)
(* The loop of _format: the list being printed, and the lists round it on  *)
(* a stack, so that nothing recurs on the stack of C.                      *)
(***************************************************************************)
RECURSIVE _format(_, _, _, _, _)
_format(cells, tail, tails, deep, named) ==
    IF ~IsNested(tail.elem, named)
    THEN Leaf(tail.elem, named) \o Closing(tail, deep)
           \o IF tails = <<>> THEN <<>>
              ELSE <<"]">> \o Opening(Head(tails).elem, deep)
                     \o _format(cells, Head(tails), Tail(tails), deep, named)
    ELSE LET head == cells[tail.elem].hd
             rest == Rest(tail, cells, deep)
         IN  IF IsNested(head, named)
             THEN <<"[">> \o _format(cells, [elem |-> head, len |-> 0], <<rest>> \o tails,
                                     deep, named)
             ELSE Leaf(head, named) \o Opening(rest.elem, deep)
                    \o _format(cells, rest, tails, deep, named)

FormatElem(cells, w, deep, named) ==
    _format(cells, [elem |-> w, len |-> 0], <<>>, deep, named)

Bracketed(tokens, bracketed) == IF bracketed THEN <<"[">> \o tokens \o <<"]">> ELSE tokens

\* The outermost element never shows its own name.
_print_elem(cells, w, deep, named) ==
    IF ~IsPcell(w) THEN Leaf(w, FALSE)
    ELSE LET head == cells[w].hd
             tail == cells[w].tl
         IN  Bracketed(Bracketed(FormatElem(cells, head, deep, named), IsNested(head, named))
                  \o Bracketed(FormatElem(cells, tail, deep, named),
                               deep /\ IsNested(tail, named)), TRUE)
=============================================================================
