-------------------------------- MODULE KCon --------------------------------
(***************************************************************************)
(* What the operators of KCon mean, on trees: the language as the shell's  *)
(* operator help states it (kcon/shell.tpp:69-82), with no cells, no       *)
(* sharing and no collection.  KConInterpreter is shown to implement it    *)
(* but for @ on a list of expressions, which is no part of the language    *)
(* (KConInterpreterRefinement says what it does).  One line of the help is *)
(* not followed, that of ![2 v e r k]: it hands +[e r k], in another order *)
(* than + takes them, and goes on with v; README.md:252-263 has + take     *)
(* v e r and the statement go on with k.                                   *)
(*                                                                         *)
(* A tree is <<w>> for a byte word w or <<head, tail>>.  [a b c] is the    *)
(* tree [a [b c]].  Lengths other than 1 and 2 are answers, not trees.     *)
(***************************************************************************)
EXTENDS Scheme, Sequences, SequencesExt

NoAnswer    == <<0, 0, 0>>
IllegalOp   == <<>>
OutOfMemory == <<0, 0, 0, 0>>

IsLeaf(t) == Len(t) = 1
IsPair(t) == Len(t) = 2

Byte(t) == ByteValue(t[1])

\* [t1 ..]: two bytes or more
RECURSIVE IsCount(_)
IsCount(t) == IsPair(t) /\ IsLeaf(t[1]) /\ (IsLeaf(t[2]) \/ IsCount(t[2]))

\* [[t1 ..] h1] or [[t1 ..] h1 r]
RECURSIVE IsPath(_)
IsPath(r) ==
    /\ IsPair(r)
    /\ IsCount(r[1])
    /\ \/ IsLeaf(r[2])
       \/ IsPair(r[2]) /\ IsLeaf(r[2][1]) /\ IsPath(r[2][2])

\* t1 + 256*t2 ...
RECURSIVE Count(_)
Count(t) == IF IsLeaf(t) THEN Byte(t) ELSE Byte(t[1]) + 256 * Count(t[2])

TailCount(r) == Count(r[1])
HeadCount(r) == IF IsLeaf(r[2]) THEN Byte(r[2]) ELSE Byte(r[2][1])
IsLast(r)    == IsLeaf(r[2])

\* head{n}( t ) for side 1, tail{n}( t ) for side 2
RECURSIVE Descend(_, _, _)
Descend(t, side, n) ==
    IF n = 0 THEN t
    ELSE IF IsPair(t) THEN Descend(t[side], side, n - 1)
    ELSE IllegalOp

\* /[v r]
RECURSIVE Select(_, _)
Select(v, r) ==
    LET below == Descend(Descend(v, 2, TailCount(r)), 1, HeadCount(r))
    IN  IF IsLast(r) \/ below = IllegalOp THEN below ELSE Select(below, r[2][2])

\* The sides a path takes from the top of a tree, which it has to fit.
Repeat(side, n) == [i \in 1 .. n |-> side]

RECURSIVE Sides(_)
Sides(r) ==
    Repeat(2, TailCount(r)) \o Repeat(1, HeadCount(r))
        \o IF IsLast(r) THEN <<>> ELSE Sides(r[2][2])

\* e++v|r: e appended onto v at r
RECURSIVE Append1(_, _, _)
Append1(v, e, sides) ==
    IF sides = <<>> THEN e
    ELSE [v EXCEPT ![Head(sides)] = Append1(@, e, Tail(sides))]

Graft(v, e, r) ==
    IF ~IsPath(r) \/ Select(v, r) = IllegalOp THEN IllegalOp
    ELSE Append1(v, e, Sides(r))

\* ?[c x y]
IfCell(c, choices) == IF IsPair(c) THEN choices[1] ELSE choices[2]

\* @[v 0 x] and @[v 1 r]
Reduce(v, e) ==
    IF ~IsPair(e) \/ ~IsLeaf(e[1]) THEN IllegalOp
    ELSE IF Byte(e[1]) = 0 THEN e[2]
    ELSE IF Byte(e[1]) = 1 /\ IsPath(e[2]) THEN Select(v, e[2])
    ELSE IllegalOp

\* *[v [[x y] z0 .. zn]]: the expressions of the cons form, the last of them
\* the rest of the list.
RECURSIVE Expressions(_)
Expressions(e) ==
    IF IsPair(e) /\ IsPair(e[1]) THEN <<e[1]>> \o Expressions(e[2]) ELSE <<e>>

Evaluate(v, e) ==
    LET values == [i \in DOMAIN Expressions(e) |-> Reduce(v, Expressions(e)[i])]
    IN  IF \E i \in DOMAIN values : values[i] = IllegalOp THEN IllegalOp
        ELSE FoldLeft(LAMBDA built, x : <<x, built>>, Head(values), Tail(values))

Operators == {".", "/", "?", "@", "*", "+", "!"}

\* One application of an operator other than !.
Apply(op, t) ==
    IF op = "." THEN t
    ELSE IF ~IsPair(t) \/ ~IsPair(t[2]) THEN IllegalOp
    ELSE CASE op = "/" -> IF IsPath(t[2]) THEN Select(t[1], t[2]) ELSE IllegalOp
           [] op = "?" -> IfCell(t[1], t[2])
           [] op = "@" -> Reduce(t[1], t[2])
           [] op = "*" -> Evaluate(t[1], t[2])
           [] op = "+" -> Graft(t[1], t[2][1], t[2][2])

\* ![0 x]
IsExit(state) == IsPair(state) /\ IsLeaf(state[1]) /\ Byte(state[1]) = 0

\* ![[f x] v], ![1 c [k1 k2] v] and ![2 v e r k]
Execute(state) ==
    IF ~IsPair(state) THEN IllegalOp
    ELSE LET stmt == state[1]
             env  == state[2]
         IN  IF IsPair(stmt) THEN Evaluate(env, stmt)
             ELSE IF /\ Byte(stmt) = 1
                     /\ IsPair(env) /\ IsPair(env[2]) /\ IsPair(env[2][1])
             THEN <<IfCell(env[1], env[2][1]), env[2][2]>>
             ELSE IF /\ Byte(stmt) = 2
                     /\ IsPair(env) /\ IsPair(env[2]) /\ IsPair(env[2][2])
                     /\ Graft(env[1], env[2][1], env[2][2][1]) # IllegalOp
             THEN <<env[2][2][2], Graft(env[1], env[2][1], env[2][2][1])>>
             ELSE IllegalOp
-----------------------------------------------------------------------------
VARIABLES op,     \* the operator the shell read
          term,   \* its operand; for ! the statement and environment reached
          answer  \* what the shell prints

kcon == <<op, term, answer>>

Operate ==
    /\ op # "!"
    /\ answer' = Apply(op, term)
    /\ UNCHANGED <<op, term>>

Exit ==
    /\ op = "!"
    /\ IsExit(term)
    /\ answer' = term[2]
    /\ UNCHANGED <<op, term>>

Statement ==
    /\ op = "!"
    /\ ~IsExit(term)
    /\ IF Execute(term) = IllegalOp
       THEN answer' = IllegalOp /\ UNCHANGED term
       ELSE term' = Execute(term) /\ UNCHANGED answer
    /\ UNCHANGED op

RunOut ==
    /\ answer' = OutOfMemory
    /\ UNCHANGED <<op, term>>

Next == answer = NoAnswer /\ (Operate \/ Exit \/ Statement \/ RunOut)
=============================================================================
