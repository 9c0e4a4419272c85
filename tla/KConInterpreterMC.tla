-------------------------- MODULE KConInterpreterMC -------------------------
(***************************************************************************)
(* The operands the interpreter is checked on, laid out in cells, and the  *)
(* interpreter as an implementation of KCon.                               *)
(***************************************************************************)
EXTENDS KConInterpreterRefinement, TLC, SequencesExt

RECURSIVE Size(_)
Size(t) == IF Len(t) = 1 THEN 0 ELSE 1 + Size(t[1]) + Size(t[2])

Address(n) == UNDEF + NCells - n

\* The cells of a tree, from the top of the page down.
RECURSIVE Lay(_, _)
Lay(t, used) ==
    IF Len(t) = 1 THEN [word |-> t[1], cells |-> <<>>]
    ELSE LET h == Lay(t[1], used + 1)
             r == Lay(t[2], used + 1 + Size(t[1]))
         IN  [word  |-> Address(used),
              cells |-> Address(used) :> [hd |-> h.word, tl |-> r.word]
                            @@ h.cells @@ r.cells]

\* An operand typed in: a cell for each pair.
Typed(o, t) == [op |-> o, operand |-> Lay(t, 0).word, cells |-> Lay(t, 0).cells,
                pinned |-> FALSE]

\* An operand built from the shell's definitions, which share their cells: a
\* cell for each different pair.
RECURSIVE Listed(_, _)
Listed(t, pairs) ==
    IF Len(t) = 1 \/ Contains(pairs, t) THEN pairs
    ELSE Append(Listed(t[2], Listed(t[1], pairs)), t)

Defined(o, t) ==
    LET pairs   == Listed(t, <<>>)
        word(u) == IF Len(u) = 1 THEN u[1]
                   ELSE Address(CHOOSE i \in DOMAIN pairs : pairs[i] = u) + 1
    IN  [op |-> o, operand |-> word(t), pinned |-> TRUE,
         cells |-> [c \in {word(pairs[i]) : i \in DOMAIN pairs} |->
                       LET u == pairs[CHOOSE i \in DOMAIN pairs : word(pairs[i]) = c]
                       IN  [hd |-> word(u[1]), tl |-> word(u[2])]]]

Both(o, t) == {Typed(o, t), Defined(o, t)}

\* All trees with n leaves.
RECURSIVE Trees(_, _)
Trees(bytes, n) ==
    IF n = 1 THEN {<<b>> : b \in bytes}
    ELSE UNION {Trees(bytes, k) \X Trees(bytes, n - k) : k \in 1 .. (n - 1)}

\* [a b .. z]
RECURSIVE List(_)
List(s) == IF Len(s) = 1 THEN s[1] ELSE <<s[1], List(Tail(s))>>

B(n) == <<n>>

Path(t, h) == <<List(<<B(t), B(0)>>), B(h)>>
Path2(t, h, t2, h2) == <<List(<<B(t), B(0)>>), <<B(h), Path(t2, h2)>>>>

Quote(t)  == <<B(0), t>>
Sel(path) == <<B(1), path>>

\* Every small operand, well formed or not.
SmallProblems ==
    {Typed(o, t) : o \in {".", "/", "?", "@", "*", "+", "!"},
                   t \in UNION {Trees({0, 1, 2}, n) : n \in 1 .. 4}}
      \cup {Typed(o, t) : o \in {"*", "+", "!"}, t \in Trees({0, 1, 2}, 5)}
-----------------------------------------------------------------------------
Nums == List(<<B(1), B(2), B(3)>>)

Nested == <<<<B(1), B(2)>>, <<B(3), B(4)>>>>

\* Paths that fit Nums or Nested, and paths that fit neither.
Paths == {Path(t, h) : t, h \in 0 .. 2}
             \cup {Path2(1, 0, 1, 0), Path2(1, 1, 0, 1), Path2(0, 1, 1, 0)}

GraftProblems ==
    {Typed("+", List(<<v, e, r>>)) : v \in {Nums, Nested},
                                     e \in {B(9), <<B(8), B(9)>>}, r \in Paths}

Sels == {Sel(Path(0, 0)), Sel(Path(1, 0)), Sel(Path(0, 1)), Quote(B(5))}

EvaluateProblems ==
    {Typed(o, <<Nums, List(<<x, y>>)>>) : o \in {"*", "@"}, x, y \in Sels}
      \cup {Typed("*", <<Nums, List(<<x, y, B(7)>>)>>) : x, y \in Sels}
      \cup {Defined("*", <<Nums, List(<<x, y, z>>)>>) : x, y, z \in Sels}

Exit == B(0)

\* Goes on with x after taking the tail of the environment.
TailThen(x) == List(<<Sel(Path(1, 0)), Quote(x)>>)

If(c, k1, k2, v) == List(<<B(1), c, <<k1, k2>>, v>>)

GraftThen(v, e, r, k) == List(<<B(2), v, e, r, k>>)

\* Starts all over: its environment holds it.
Again == List(<<Sel(Path(0, 0)), Sel(Path(0, 1))>>)

ReturnFive == Quote(<<Exit, B(5)>>)

\* Continuations that are cells, as continuations of GRAFT are unless EXIT.
GraftToCell ==
    {<<v, B(22), r, ReturnFive>> : v \in {B(0), <<B(1), B(0)>>}, r \in {Path(0, 0), Path(1, 0)}}

ProgramProblems ==
    UNION {Both("!", <<TailThen(Exit), Nums>>),
           Both("!", If(Nums, TailThen(Exit), Exit, Nums)),
           Both("!", If(B(0), TailThen(Exit), Exit, Nums)),
           Both("!", If(B(0), Exit, B(3), Nums)),
           {Defined("!", <<Again, <<Again, B(0)>>>>)}}
      \cup {Typed("!", GraftThen(Nums, B(22), r, Exit)) : r \in Paths}
      \cup {Defined("!", GraftThen(g[1], g[2], g[3], g[4])) : g \in GraftToCell}

AllProblems == SmallProblems \cup GraftProblems \cup EvaluateProblems \cup ProgramProblems
-----------------------------------------------------------------------------
(* README.md:261, ![GRAFT nums [3 4] [#2 0] [env EXIT']], typed in.        *)

Env == Sel(Path(0, 0))

DocumentedGraft == {Typed("!", GraftThen(Nums, <<B(3), B(4)>>, Path(2, 0), <<Env, Quote(Exit)>>))}

(***************************************************************************)
(* The GRAFT statement goes on with its continuation, as the README shows: *)
(* the program ends with [1 2 3 4] and never with an illegal operation.    *)
(***************************************************************************)
GraftAsDocumented ==
    /\ pc # "error"
    /\ pc = "done" => Answered = List(<<B(1), B(2), B(3), B(4)>>)
-----------------------------------------------------------------------------
ReducedList == {Typed("@", <<Nums, List(<<Sel(Path(1, 0)), Quote(B(5))>>)>>)}

(***************************************************************************)
(* @ is for one expression, a code 0 or 1 and its argument: the help has   *)
(* no other form (kcon/shell.tpp:75-76), and README.md:211 says that it is *)
(* not defined for the pairs that * creates.                               *)
(***************************************************************************)
ReduceAsDocumented ==
    op = "@" /\ pc \in {"done", "error"} => Answered = Language!Apply("@", operand)
=============================================================================
