---------------------------- MODULE Definitions ----------------------------
(***************************************************************************)
(* The names of the shell (elpa/shell.h, elpa/shell.tpp): what each stands *)
(* for in an expression (defns_with_it), what elements are shown by a name *)
(* (defns_no_it), and the tags that tell named bytes from other bytes.     *)
(* Elements are words; the cells among them are not told apart.            *)
(***************************************************************************)
EXTENDS Scheme, TLC

CONSTANTS
    Constants,   \* the manager's names, a function to elements
    Names,       \* names a script or a user gives to elements
    Values,      \* bytes they write
    MAX_TAG      \* Scheme::MAX_TAG, 255 in the program

Pair == UNDEF + 1   \* any cell

Tagged == {n \in DOMAIN Constants : IsByte(Constants[n])}

\* The values that tags are counted for.
Counted == Values \cup {ByteValue(Constants[n]) : n \in Tagged}

\* What the manager's constants stand for; a script's own names are others.
ConstantsAreElements ==
    /\ Values \subseteq 0 .. 255
    /\ MAX_TAG \in 0 .. 255
    /\ \A n \in DOMAIN Constants :
            \/ Constants[n] = Pair
            \/ \E v \in 0 .. 255, t \in 0 .. MAX_TAG : Constants[n] = NewByte(v, t)
    /\ Names \cap (DOMAIN Constants \cup {"it"}) = {}
    /\ "it" \notin DOMAIN Constants

ASSUME DefinitionsAssumption == ConstantsAreElements

VARIABLES
    defns_no_it,
    defns_with_it,
    byte_counts     \* the last tag given to each value

defns == <<defns_no_it, defns_with_it, byte_counts>>

\* KCon's constants.  EXIT and nil are the same byte.
KConConstants ==
    "qt" :> NewByte(0, 1) @@ "sel" :> NewByte(1, 1) @@ "EXIT" :> NewByte(0, 2)
        @@ "IF" :> NewByte(1, 2) @@ "GRAFT" :> NewByte(2, 2)
        @@ "nil" :> NewByte(0, 2) @@ "F" :> NewByte(0, 3) @@ "T" :> Pair

\* Wrong on purpose: the constants' tags are not counted.
ConstantTagIgnored(v) == 0

\* The highest tag a constant gives to a value.
ConstantTag(v) ==
    LET tags == {0} \cup {ByteTag(Constants[n]) : n \in {m \in Tagged : ByteValue(Constants[m]) = v}}
    IN  CHOOSE t \in tags : \A u \in tags : u <= t

Init ==
    /\ defns_no_it = Constants
    /\ defns_with_it = Constants
    /\ byte_counts = [v \in Counted |-> ConstantTag(v)]

-----------------------------------------------------------------------------
\* What an expression can be: a byte, new cells or a name's element.
Readable ==
    {NewByte(v, 0) : v \in Values} \cup {Pair}
        \cup {defns_with_it[n] : n \in DOMAIN defns_with_it}

\* What an operator can return: also any byte a name ever had, which cells keep.
Results ==
    {Pair} \cup UNION {{NewByte(v, t) : t \in 0 .. byte_counts[v]} : v \in Counted}

Defined(defs, n, e) == [m \in DOMAIN defs \cup {n} |-> IF m = n THEN e ELSE defs[m]]

\* Wrong on purpose: a constant can be given another element.
MayDefineAny(n) == TRUE

MayDefine(n) == n \notin DOMAIN Constants

\* Wrong on purpose: one tag too many.
HasTagOrLast(v) == byte_counts[v] <= MAX_TAG

\* A byte gets a tag of its own while there is one left.
HasTag(v) == byte_counts[v] < MAX_TAG

TaggedByte(v) == NewByte(v, byte_counts[v] + 1)

\* :def n e
Def(n, e) ==
    /\ MayDefine(n)
    /\ IF ~IsByte(e)
       THEN /\ defns_no_it' = Defined(defns_no_it, n, e)
            /\ defns_with_it' = Defined(defns_with_it, n, e)
            /\ UNCHANGED byte_counts
       ELSE LET v == ByteValue(e) IN
            IF HasTag(v)
            THEN /\ byte_counts' = [byte_counts EXCEPT ![v] = @ + 1]
                 /\ defns_no_it' = Defined(defns_no_it, n, TaggedByte(v))
                 /\ defns_with_it' = Defined(defns_with_it, n, TaggedByte(v))
            ELSE /\ defns_with_it' = Defined(defns_with_it, n, NewByte(v, 0))
                 /\ UNCHANGED <<byte_counts, defns_no_it>>

\* An expression or an operator has the value e.
SetIt(e) ==
    /\ defns_with_it' = Defined(defns_with_it, "it", e)
    /\ UNCHANGED <<byte_counts, defns_no_it>>

Next ==
    \/ \E n \in Names \cup {"it"} \cup DOMAIN Constants, e \in Readable : Def(n, e)
    \/ \E e \in Results : SetIt(e)

Spec == Init /\ [][Next]_defns

-----------------------------------------------------------------------------
Elements == {NewByte(v, t) : v \in Counted, t \in 0 .. MAX_TAG} \cup {Pair}

\* Every variable keeps its type; the tag counts never pass MAX_TAG, which in
\* the program is all that an octet holds (shell.h:125, shell.tpp:30).
TypeOK ==
    /\ \A defs \in {defns_no_it, defns_with_it} :
            /\ DOMAIN Constants \subseteq DOMAIN defs
            /\ DOMAIN defs \subseteq Names \cup {"it"} \cup DOMAIN Constants
            /\ \A n \in DOMAIN defs : defs[n] \in Elements
    /\ byte_counts \in [Counted -> 0 .. MAX_TAG]

\* A byte that is given a name is told from every other named byte, the
\* constants' included, so that :names on shows it by that name only
\* (shell.tpp:26-36).  Only EXIT and nil, both constants, are the same.
TagsAreUnique ==
    \A m \in DOMAIN defns_no_it, n \in DOMAIN defns_no_it \ DOMAIN Constants :
        m # n /\ IsByte(defns_no_it[n]) => defns_no_it[m] # defns_no_it[n]

\* What is shown by a name is what the name stands for in an expression, except
\* for a byte whose tags have run out (shell.tpp:37-47); and the constants keep
\* their elements (shell.tpp:23).  `it' is left out: it is the last value, and
\* a :def of it stays what is shown by that name.
NamesAgree ==
    /\ \A n \in DOMAIN Constants : defns_with_it[n] = Constants[n]
    /\ \A n \in DOMAIN defns_with_it \ {"it"} :
            \/ n \in DOMAIN defns_no_it /\ defns_no_it[n] = defns_with_it[n]
            \/ LET e == defns_with_it[n]
               IN  IsByte(e) /\ ByteTag(e) = 0 /\ byte_counts[ByteValue(e)] = MAX_TAG
=============================================================================
