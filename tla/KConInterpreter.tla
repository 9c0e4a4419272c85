--------------------------- MODULE KConInterpreter --------------------------
(***************************************************************************)
(* KConInterpreter (kcon/interpreter.tpp): the operators of KCon and the   *)
(* loop of !, run on the cells of a SimpleAllocator in a Debug build.      *)
(*                                                                         *)
(* A step ends where a collection or another root comes between: at every  *)
(* new_Cell and every change of an auto_root.  What the C++ keeps in plain *)
(* locals is in raw; what it keeps in auto_roots is in val and roots.      *)
(***************************************************************************)
EXTENDS Cells, Integers, Sequences

CONSTANTS Problems,   \* what the shell applies an operator to: records of the
                      \* op, the operand, the cells the operand is made of and
                      \* whether a definition of the shell holds it
          FreeCounts  \* numbers of free cells to start with

\* What the parser hands over: the operand and its cells, whole, and no cell
\* leads back to itself.
ASSUME ProblemsAssumption ==
    /\ FreeCounts \subseteq Nat
    /\ \A q \in Problems :
          LET own == DOMAIN q.cells
          IN  /\ q.operand \in Elem
              /\ IsPcell(q.operand) => q.operand \in own
              /\ own \subseteq Page
              /\ \A c \in own : /\ q.cells[c] \in Cell
                                 /\ Children(q.cells, c) \subseteq own
              /\ \A S \in SUBSET own :
                    S # {} => \E c \in S : Children(q.cells, c) \cap S = {}

VARIABLES page, free, val, roots, ret, stale, status, interactive,  \* the allocator's
          op,       \* the operator
          pc,       \* where the interpreter is
          raw,      \* its unregistered locals
          left,     \* tcount and hcount: the moves left in a path element
          term,     \* history: the tree the operator, or this turn of !, is on
          operand   \* history: the tree the shell passed

mem     == <<page, free, val, roots, ret, stale, status, interactive>>
machine == <<op, pc, raw, left, term, operand>>
vars    == <<mem, machine>>

EvaluateFrame == <<"v", "exprs">>
GraftFrame    == <<"v", "e", "p", "route", "rpth", "tcells">>

Allocator == INSTANCE SimpleAllocator WITH
                ElemVar     <- {"defn", "v", "e", "route"},
                PcellVar    <- {"exprs", "p", "rpth", "tcells"},
                ClientBytes <- 0 .. (UNDEF - 1)

NoRaw == [state |-> UNDEF, env |-> UNDEF, elem |-> UNDEF, expr |-> UNDEF,
          path |-> UNDEF, kont |-> UNDEF, t |-> UNDEF]

NoMoves == [tail |-> 0, head |-> 0]

Tree(cells, w) == Unfold(cells)[w]

(***************************************************************************)
(* A page the parser left: the operand's cells, garbage, and free cells.   *)
(***************************************************************************)
Init ==
    /\ \E q \in Problems, n \in FreeCounts :
         LET unused == {c \in Page : c <= UNDEF + n}
         IN  /\ unused \cap DOMAIN q.cells = {}
             /\ free = unused
             /\ page = [c \in Page |->
                          IF c \in DOMAIN q.cells THEN q.cells[c]
                          ELSE FreeCell(c, IF c \in unused THEN unused ELSE {})]
             /\ op = q.op
             /\ raw = [NoRaw EXCEPT !.state = q.operand]
             /\ roots = IF q.pinned THEN {"defn"} ELSE {}
             /\ val = [x \in Allocator!Var |-> IF q.pinned /\ x = "defn" THEN q.operand
                                               ELSE Allocator!Empty(x)]
             /\ ret = IF q.pinned THEN UNDEF ELSE q.operand
             /\ term = Tree(page, q.operand)
             /\ operand = Tree(page, q.operand)
    /\ pc = IF op = "!" THEN "loop" ELSE "operator"
    /\ left = NoMoves
    /\ stale = FALSE /\ status = "running"
    /\ interactive = FALSE   \* an OutOfMemory ends the operator in any shell
-----------------------------------------------------------------------------
(* What the code reads from cells without allocating.  Illegal stands for  *)
(* the Error<IllegalOp> a failed check throws.                             *)

Illegal == -1

Hd(w) == IF IsPcell(w) THEN page[w].hd ELSE Illegal
Tl(w) == IF IsPcell(w) THEN page[w].tl ELSE Illegal

HdTl(w)   == Hd(Tl(w))
IsCell(w) == w # Illegal /\ IsPcell(w)
IsAByte(w) == w # Illegal /\ IsByte(w)

\* The check that a count fits a pointer needs eight bytes: out of bounds here.
_parse_count(tails) ==
    LET Count[w \in Page] ==
            IF ~IsByte(Hd(w)) THEN Illegal
            ELSE IF IsByte(Tl(w)) THEN ByteValue(Hd(w)) + 256 * ByteValue(Tl(w))
            ELSE IF ~IsPcell(Tl(w)) \/ Count[Tl(w)] = Illegal THEN Illegal
            ELSE ByteValue(Hd(w)) + 256 * Count[Tl(w)]
    IN  IF IsCell(tails) THEN Count[tails] ELSE Illegal

\* The path element at the cell w: its counts, and the path after it.
TailCount(w) == _parse_count(Hd(w))

HeadByte(w) == IF IsByte(Tl(w)) THEN Tl(w) ELSE HdTl(w)

HeadCount(w) == IF IsAByte(HeadByte(w)) THEN ByteValue(HeadByte(w)) ELSE Illegal

AfterElem(w) == IF IsByte(Tl(w)) THEN Null
                ELSE IF IsCell(Tl(Tl(w))) THEN Tl(Tl(w))
                ELSE Illegal

MovesOf(w) == [tail |-> TailCount(w), head |-> HeadCount(w)]

IsPathElem(w) == Illegal \notin {TailCount(w), HeadCount(w), AfterElem(w)}

\* while( n-- > 0 ) e = e.pcell()->tail(), or ->head()
Down(step(_), e, n) ==
    LET Walk[at \in (Elem \cup {Illegal}) \X (0 .. n)] ==
            IF at[2] = 0 THEN at[1]
            ELSE IF IsCell(at[1]) THEN Walk[<<step(at[1]), at[2] - 1>>]
            ELSE Illegal
    IN  Walk[<<e, n>>]

\* Where the path element at the cell w leads from e.
Below(e, w) == Down(Hd, Down(Tl, e, TailCount(w)), HeadCount(w))

_select(env, path) ==
    LET Go[at \in (Elem \cup {Illegal}) \X (Page \cup {Null})] ==
            LET e == at[1]
                w == at[2]
            IN  IF w = Null THEN e
                ELSE IF ~IsPathElem(w) \/ Below(e, w) = Illegal THEN Illegal
                ELSE Go[<<Below(e, w), AfterElem(w)>>]
    IN  IF IsCell(path) THEN Go[<<env, path>>] ELSE Illegal

\* Wrong on purpose: takes a byte for the condition that holds.
IfByte(cond, choices) == IF IsPcell(cond) THEN Tl(choices) ELSE Hd(choices)

_ifcell(cond, choices) == IF IsPcell(cond) THEN Hd(choices) ELSE Tl(choices)

_reduce(env, expr) ==
    IF ~IsCell(expr) \/ ~IsAByte(Hd(expr)) THEN Illegal
    ELSE IF ByteValue(Hd(expr)) = 0 THEN Tl(expr)
    ELSE IF ByteValue(Hd(expr)) = 1 THEN _select(env, Tl(expr))
    ELSE Illegal
-----------------------------------------------------------------------------
(* How a step ends.                                                        *)

Locals(label, locals) ==
    /\ pc' = label
    /\ raw' = locals
    /\ UNCHANGED <<op, left, term, operand>>

Goto(label) == Locals(label, raw)

Moves(label, moves) ==
    /\ pc' = label
    /\ left' = moves
    /\ UNCHANGED <<op, raw, term, operand>>

\* A failed check: the auto_roots of the frame are unwound.
Throw == Locals("unwind", NoRaw) /\ UNCHANGED mem

\* The operator has its result.
Finish(w) == Locals("done", [NoRaw EXCEPT !.state = w])

\* The operator, or this turn of !, has its result.
Answer(w) ==
    \/ op # "!" /\ Finish(w)
    \/ /\ op = "!"
       /\ pc' = "loop"
       /\ raw' = [NoRaw EXCEPT !.state = w]
       /\ term' = Tree(page', w)
       /\ UNCHANGED <<op, left, operand>>

AnswerOrThrow(w) ==
    \/ w = Illegal /\ Throw
    \/ w # Illegal /\ UNCHANGED mem /\ Answer(w)

\* _evaluate( env, expr ): a single expression needs no frame.
CallEvaluate(env, expr) ==
    \/ /\ IsAByte(Hd(expr))
       /\ AnswerOrThrow(_reduce(env, expr))
    \/ /\ ~IsAByte(Hd(expr))
       /\ Locals("evaluate", [NoRaw EXCEPT !.env = env, !.expr = expr])
       /\ UNCHANGED mem

CallGraft(env, elem, path, kont) ==
    /\ Locals("graft", [NoRaw EXCEPT !.env = env, !.elem = elem, !.path = path,
                                     !.kont = kont])
    /\ UNCHANGED mem

\* An OutOfMemory ends the script where it is.
new_Cell(h, t, continue) ==
    /\ Allocator!NewCell(h, t) \/ Allocator!NewCellCollect(h, t)
    /\ IF status' = "running" THEN continue ELSE UNCHANGED machine

Assign(x, w) == Allocator!Assign(x, w)

\* Wrong on purpose: goes on using the unregistered arguments.
EnterUnregistered(frame, init, body) ==
    \E i \in DOMAIN frame :
        /\ \A j \in DOMAIN frame : frame[j] \in roots <=> j < i
        /\ Allocator!AddRoot(frame[i], init[frame[i]])
        /\ IF i = Len(frame) THEN Goto(body) ELSE UNCHANGED machine

\* Registers the next auto_root of a frame.
Enter(frame, init, body) ==
    \E i \in DOMAIN frame :
        /\ \A j \in DOMAIN frame : frame[j] \in roots <=> j < i
        /\ Allocator!AddRoot(frame[i], init[frame[i]])
        /\ IF i = Len(frame) THEN Locals(body, [NoRaw EXCEPT !.kont = raw.kont])
                             ELSE UNCHANGED machine

\* Unregisters one of a frame, or goes on when none is left.
Leave(continue) ==
    LET frame == roots \ {"defn"}
    IN  IF frame = {} THEN continue
        ELSE /\ Allocator!DelRoot(CHOOSE x \in frame : TRUE)
             /\ UNCHANGED machine
-----------------------------------------------------------------------------
(* process_operator, and the entry of each operator.                       *)

At(label) == pc = label /\ status = "running"

Operator ==
    /\ At("operator")
    /\ LET state == raw.state
       IN  \/ op = "." /\ AnswerOrThrow(state)
           \/ op # "." /\ ~IsCell(Tl(state)) /\ Throw
           \/ IsCell(Tl(state)) /\
                \/ op = "/" /\ AnswerOrThrow(_select(Hd(state), Tl(state)))
                \/ op = "?" /\ AnswerOrThrow(_ifcell(Hd(state), Tl(state)))
                \/ op \in {"@", "*"} /\ CallEvaluate(Hd(state), Tl(state))
                \/ /\ op = "+"
                   /\ IF IsCell(Tl(Tl(state)))
                      THEN CallGraft(Hd(state), HdTl(state), Tl(Tl(state)), UNDEF)
                      ELSE Throw

\* One turn of execute_trace.
Execute ==
    /\ At("loop")
    /\ LET stmt == Hd(raw.state)
           env  == Tl(raw.state)
           more == Tl(env)
           code == ByteValue(stmt)
       IN  \/ (~IsCell(raw.state) \/ IsUndef(stmt)) /\ Throw
           \/ IsCell(stmt) /\ CallEvaluate(env, stmt)
           \/ IsAByte(stmt) /\
                \/ code = 0 /\ Finish(env) /\ UNCHANGED mem
                \/ code = 1 /\ ~IsCell(Hd(more)) /\ Throw
                \/ /\ code = 1
                   /\ IsCell(Hd(more))
                   /\ new_Cell(_ifcell(Hd(env), Hd(more)), Tl(more), Answer(ret'))
                \/ code = 2 /\ ~IsCell(Hd(Tl(more))) /\ Throw
                \/ /\ code = 2
                   /\ IsCell(Hd(Tl(more)))
                   /\ CallGraft(Hd(env), Hd(more), Hd(Tl(more)), Tl(Tl(more)))
                \/ code > 2 /\ Throw

Unwind == At("unwind") /\ Leave(Goto("error") /\ UNCHANGED mem)
-----------------------------------------------------------------------------
(* _evaluate with more than one expression.                                *)

EvaluateEnter ==
    /\ At("evaluate")
    /\ Enter(EvaluateFrame, [v |-> raw.env, exprs |-> raw.expr], "first")

EvaluateFirst ==
    /\ At("first")
    /\ LET t    == _reduce(val["v"], Hd(val["exprs"]))
           rest == Tl(val["exprs"])
       IN  \/ (t = Illegal \/ ~IsCell(rest)) /\ Throw
           \/ /\ t # Illegal /\ IsCell(rest)
              /\ Assign("exprs", rest)
              /\ Locals("next", [raw EXCEPT !.t = t])

\* The value of one more expression goes in front of those built so far.
EvaluateNext ==
    /\ At("next")
    /\ LET exprs  == val["exprs"]
           isLast == ~IsPcell(Hd(exprs))
           value  == _reduce(val["v"], IF isLast THEN exprs ELSE Hd(exprs))
       IN  \/ value = Illegal /\ Throw
           \/ /\ value # Illegal
              /\ new_Cell(value, raw.t,
                    Locals(IF isLast THEN "built" ELSE "advance", [raw EXCEPT !.t = ret']))

EvaluateAdvance ==
    /\ At("advance")
    /\ LET rest == Tl(val["exprs"])
       IN  \/ ~IsCell(rest) /\ Throw
           \/ IsCell(rest) /\ Assign("exprs", rest) /\ Goto("next")

EvaluateReturn == At("built") /\ Leave(UNCHANGED mem /\ Answer(raw.t))
-----------------------------------------------------------------------------
(* _graft: down the path, keeping the cells passed on route and the path   *)
(* reversed on rpth, then back up, building each cell passed anew.         *)

GraftEnter ==
    /\ At("graft")
    /\ Enter(GraftFrame,
             [v |-> raw.env, e |-> raw.elem, p |-> raw.path,
              route |-> UNDEF, rpth |-> Null, tcells |-> Null], "pathElem")

GraftPathElem ==
    /\ At("pathElem")
    /\ LET tcells == Hd(val["p"])
       IN  \/ val["p"] = Null /\ Assign("v", val["e"]) /\ Goto("rpthElem")
           \/ val["p"] # Null /\ ~IsCell(tcells) /\ Throw
           \/ /\ val["p"] # Null /\ IsCell(tcells)
              /\ Assign("tcells", tcells) /\ Goto("parse")

GraftParse ==
    /\ At("parse")
    /\ LET p == val["p"]
       IN  \/ ~IsPathElem(p) /\ Throw
           \/ /\ IsPathElem(p)
              /\ Assign("p", AfterElem(p))
              /\ Moves("reverse", MovesOf(p))

\* The first element of the reversed path is its last: [tcells hcount].
GraftReverse ==
    LET count == NewByte(left.head, 0)
    IN  \/ At("reverse") /\ val["rpth"] = Null
           /\ new_Cell(val["tcells"], count, Goto("reversed"))
        \/ At("reverse") /\ val["rpth"] # Null
           /\ new_Cell(count, val["rpth"], Goto("prepend"))
        \/ At("prepend") /\ new_Cell(val["tcells"], ret, Goto("reversed"))
        \/ At("reversed") /\ Assign("rpth", ret) /\ Goto("walk")

\* Tail moves come before head moves; the other side of the cell is pushed.
GraftWalk ==
    /\ At("walk")
    /\ LET v == val["v"]
           passed == IF left.tail > 0 THEN Hd(v) ELSE Tl(v)
       IN  \/ left = NoMoves /\ Goto("pathElem") /\ UNCHANGED mem
           \/ left # NoMoves /\ ~IsCell(v) /\ Throw
           \/ left # NoMoves /\ IsCell(v) /\ new_Cell(passed, val["route"], Goto("push"))

GraftMove ==
    \/ At("push") /\ Assign("route", ret) /\ Goto("move")
    \/ /\ At("move") /\ left.tail > 0
       /\ Assign("v", Tl(val["v"]))
       /\ Moves("walk", [left EXCEPT !.tail = @ - 1])
    \/ /\ At("move") /\ left.tail = 0
       /\ Assign("v", Hd(val["v"]))
       /\ Moves("walk", [left EXCEPT !.head = @ - 1])

\* Wrong on purpose: stays at the same element of the reversed path.
GraftSameElem ==
    /\ At("rpthElem")
    /\ \/ val["rpth"] = Null /\ Allocator!ReturnRoot("v") /\ Goto("grafted")
       \/ val["rpth"] # Null /\ Moves("rebuild", MovesOf(val["rpth"])) /\ UNCHANGED mem

GraftReversedElem ==
    /\ At("rpthElem")
    /\ LET rpth == val["rpth"]
       IN  \/ rpth = Null /\ Allocator!ReturnRoot("v") /\ Goto("grafted")
           \/ /\ rpth # Null
              /\ Assign("rpth", AfterElem(rpth))
              /\ Moves("rebuild", MovesOf(rpth))

\* Wrong on purpose: undoes the tail moves first.
GraftRebuildTails ==
    /\ At("rebuild")
    /\ LET v   == val["v"]
           top == Hd(val["route"])
       IN  \/ left = NoMoves /\ Goto("rpthElem") /\ UNCHANGED mem
           \/ left.tail > 0 /\ new_Cell(top, v, Goto("rebuilt"))
           \/ left.tail = 0 /\ left.head > 0 /\ new_Cell(v, top, Goto("rebuilt"))

\* On the way up the head moves are undone first.
GraftRebuild ==
    /\ At("rebuild")
    /\ LET v   == val["v"]
           top == Hd(val["route"])
       IN  \/ left = NoMoves /\ Goto("rpthElem") /\ UNCHANGED mem
           \/ left.head > 0 /\ new_Cell(v, top, Goto("rebuilt"))
           \/ left.head = 0 /\ left.tail > 0 /\ new_Cell(top, v, Goto("rebuilt"))

GraftPop ==
    \/ At("rebuilt") /\ Assign("v", ret) /\ Goto("pop")
    \/ /\ At("pop")
       /\ Assign("route", Tl(val["route"]))
       /\ Moves("rebuild", IF left.head > 0 THEN [left EXCEPT !.head = @ - 1]
                                            ELSE [left EXCEPT !.tail = @ - 1])

\* The operator answers with the tree, the statement with [kont tree].
GraftReturn ==
    /\ At("grafted")
    /\ Leave(\/ op = "+" /\ UNCHANGED mem /\ Answer(ret)
             \/ op = "!" /\ new_Cell(raw.kont, ret, Answer(ret')))

Next ==
    \/ Operator \/ Execute \/ Unwind
    \/ EvaluateEnter \/ EvaluateFirst \/ EvaluateNext \/ EvaluateAdvance
    \/ EvaluateReturn
    \/ GraftEnter \/ GraftPathElem \/ GraftParse \/ GraftReverse \/ GraftWalk
    \/ GraftMove \/ GraftReversedElem \/ GraftRebuild \/ GraftPop \/ GraftReturn

Spec == Init /\ [][Next]_vars

\* The interpreter is one thread that nothing else waits for or holds up.  A
\* program of ! may go on forever, so nothing is asked of it.
FairSpec == Spec /\ WF_vars(op # "!" /\ Next)
-----------------------------------------------------------------------------
\* What _mark keeps alive, from the roots and the word in hand.
Alive ==
    LET words == {w \in {val[x] : x \in roots} \cup {ret} : w \in Page}
    IN  UNION {MarkFrom(page, {}, w) : w \in words}

(***************************************************************************)
(* What SimpleAllocator assumes of its client: a local the interpreter     *)
(* still uses, registered or not, never holds the address of a cell that a *)
(* collection may free or has freed.                                       *)
(***************************************************************************)
HandsAlive ==
    status = "running" => \A f \in DOMAIN raw : raw[f] \in Page => raw[f] \in Alive

(***************************************************************************)
(* What _graft relies on, on its way back up: there is a cell on the route *)
(* for every move it undoes, what is left of the reversed path is a path,  *)
(* and the two are used up together.                                       *)
(***************************************************************************)
RouteFits ==
    status = "running" =>
        /\ pc = "rebuild" /\ left # NoMoves => IsPcell(val["route"])
        /\ pc = "rpthElem" => IF val["rpth"] = Null THEN val["route"] = UNDEF
                              ELSE IsPathElem(val["rpth"])
=============================================================================
