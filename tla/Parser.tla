------------------------------- MODULE Parser -------------------------------
(***************************************************************************)
(* elpa_istream (elpa/stream.tpp) on the cells of a SimpleAllocator, with  *)
(* the reader and the macros of KCon (kcon/shell.tpp) and OhNo             *)
(* (ohno/shell.tpp): the parser reads a token after the other,             *)
(* builds the expression reversed, with a hole for each name, and then     *)
(* turns it round and fills the holes.                                     *)
(*                                                                         *)
(* A step ends where a collection or another root comes between: at every  *)
(* new_Cell and every change of an auto_root.  An elpa_stack is the        *)
(* auto_root of its items.  What the C++ keeps in plain locals is in raw.  *)
(***************************************************************************)
EXTENDS Cells, Integers, Sequences, SequencesExt

CONSTANTS Typed,       \* what the user may type: sequences of tokens
          Numbers,     \* function: token of digits -> its value
          Hashes,      \* function: token with # -> the digits after it
          Names,       \* the tokens that are names
          Words,       \* _defns, function: defined name -> its word
          DefnRoots,   \* function: root of a definition -> its name
          DefnCells,   \* function: address -> cell, for the words that are cells
          FreeCounts,  \* numbers of free cells to start with
          Octet        \* 256; 32 bits are four octets

ASSUME TokensAssumption ==
    /\ Octet \in 1 .. 256
    /\ \A c \in DOMAIN Numbers : Numbers[c] \in Nat
    /\ \A c \in DOMAIN Hashes : Hashes[c] \in Seq(0 .. 9)

\* The definitions are elements, and whole.
ASSUME WordsAssumption ==
    /\ DOMAIN DefnCells \subseteq Page
    /\ \A c \in DOMAIN DefnCells :
          /\ DefnCells[c] \in Cell
          /\ \A w \in {DefnCells[c].hd, DefnCells[c].tl} : IsPcell(w) => w \in DOMAIN DefnCells
    /\ \A name \in DOMAIN Words :
          /\ Words[name] \in Elem
          /\ IsPcell(Words[name]) => Words[name] \in DOMAIN DefnCells

MacroRoots  == {"t", "r", "e1", "e2", "e3"}
ReduceRoots == {"p", "acc", "accs", "pcells"}
LocalRoots  == {"tail", "tails", "n4"} \cup MacroRoots \cup ReduceRoots

\* Every definition has a root, which is no local of the parser.
ASSUME DefnRootsAssumption ==
    /\ DOMAIN DefnRoots \cap LocalRoots = {}
    /\ {DefnRoots[x] : x \in DOMAIN DefnRoots} = DOMAIN Words

VARIABLES page, free, val, roots, ret, stale, status, interactive,  \* the allocator's
          pc,       \* where the parser is
          into,     \* <<x, label>>: the root the new cell goes to, and what follows
          raw,      \* its unregistered elements
          input,    \* the tokens not yet read
          typed,    \* history: all of them
          names,    \* the names read and not yet given their element
          depth,    \* open brackets
          octets,   \* n and the octets of it still to write
          outcome   \* what was thrown

mem     == <<page, free, val, roots, ret, stale, status, interactive>>
control == <<pc, into, raw>>
reading == <<input, typed, names, depth, octets, outcome>>
vars    == <<mem, control, reading>>

Newline == "\n"
Macros  == {"'", "<", "@"}

NoRaw == [arg |-> UNDEF, elems |-> UNDEF, head |-> UNDEF, r |-> UNDEF]

\* acc and accs are the tail and the tails of _reverse_and_reduce.
Allocator == INSTANCE SimpleAllocator WITH
                ElemVar     <- DOMAIN DefnRoots \cup LocalRoots,
                PcellVar    <- {},
                ClientBytes <- 0 .. (UNDEF - 1)

(***************************************************************************)
(* A page with the definitions, each in its root, garbage, and free cells. *)
(***************************************************************************)
Init ==
    /\ \E n \in FreeCounts :
         LET unused == {c \in Page : c <= UNDEF + n}
         IN  /\ unused \cap DOMAIN DefnCells = {}
             /\ free = unused
             /\ page = [c \in Page |->
                          IF c \in DOMAIN DefnCells THEN DefnCells[c]
                          ELSE FreeCell(c, IF c \in unused THEN unused ELSE {})]
    /\ roots = DOMAIN DefnRoots
    /\ val = [x \in Allocator!Var |->
                IF x \in DOMAIN DefnRoots THEN Words[DefnRoots[x]] ELSE UNDEF]
    /\ ret = UNDEF /\ stale = FALSE /\ status = "running" /\ interactive = FALSE
    /\ pc = "start" /\ into = <<>> /\ raw = NoRaw
    /\ input \in Typed /\ typed = input /\ names = <<>> /\ depth = 0
    /\ octets = <<0, 0>> /\ outcome = "none"
-----------------------------------------------------------------------------
(* How a step ends.                                                        *)

At(label) == pc = label /\ status = "running"

Hd(w) == page[w].hd
Tl(w) == page[w].tl

Locals(label, locals) == pc' = label /\ raw' = locals /\ UNCHANGED into

Goto(label) == Locals(label, raw)

Assign(x, w, label) == Allocator!Assign(x, w) /\ Goto(label)

\* After an OutOfMemory no step follows.
new_Cell(h, t) == Allocator!NewCell(h, t) \/ Allocator!NewCellCollect(h, t)

\* x = new_Cell( h, t ), then label
SetNew(x, h, t, label) ==
    /\ new_Cell(h, t)
    /\ pc' = "store"
    /\ into' = <<x, label>>
    /\ raw' = NoRaw

Store == At("store") /\ Assign(into[1], ret, into[2]) /\ UNCHANGED reading

\* Registers the next auto_root of a frame, a sequence of <<x, word>>.
Enter(frame, body) ==
    \E i \in DOMAIN frame :
        /\ \A j \in DOMAIN frame : frame[j][1] \in roots <=> j < i
        /\ Allocator!AddRoot(frame[i][1], frame[i][2])
        /\ IF i = Len(frame) THEN Locals(body, NoRaw) ELSE UNCHANGED control

\* Unregisters one of a frame, or goes on when none is left.
Leave(frame, continue) ==
    LET mine == roots \cap frame
    IN  IF mine = {} THEN continue
        ELSE Allocator!DelRoot(CHOOSE x \in mine : TRUE) /\ UNCHANGED control

Throw(error) ==
    /\ outcome' = error
    /\ Locals("unwind", NoRaw)
    /\ UNCHANGED <<mem, names, depth, octets>>

Unwind ==
    /\ At("unwind")
    /\ Leave(LocalRoots, Goto("error") /\ UNCHANGED mem)
    /\ UNCHANGED reading
-----------------------------------------------------------------------------
(* _parse_elems: a loop over the tokens, and behind the last one the       *)
(* macros on the same line.                                                *)

Start ==
    /\ At("start")
    /\ Enter(<<<<"tail", UNDEF>>, <<"tails", UNDEF>>>>, "token")
    /\ UNCHANGED reading

Get(c) == input # <<>> /\ Head(input) = c /\ input' = Tail(input) /\ UNCHANGED typed

AfterToken(d) == IF d = 0 THEN "trailing" ELSE "token"

Reading(c) == At("token") /\ Get(c)

Space ==
    /\ Reading(Newline)
    /\ UNCHANGED <<mem, control, names, depth, octets, outcome>>

Open ==
    \/ /\ Reading("[")
       /\ depth' = depth + 1
       /\ SetNew("tails", val["tail"], val["tails"], "opened")
       /\ UNCHANGED <<names, octets, outcome>>
    \/ At("opened") /\ Assign("tail", UNDEF, "token") /\ UNCHANGED reading

Close ==
    \/ /\ Reading("]")
       /\ LET tail == val["tail"]
          IN  IF depth = 0 \/ IsUndef(tail) \/ IsUndef(Tl(tail)) THEN Throw("wrong")
              ELSE /\ Allocator!Assign("tail", Hd(val["tails"]))
                   /\ Locals("pop", [NoRaw EXCEPT !.elems = tail])
                   /\ UNCHANGED <<names, depth, octets, outcome>>
    \/ At("pop") /\ Assign("tails", Tl(val["tails"]), "closed") /\ UNCHANGED reading
    \/ /\ At("closed")
       /\ depth' = depth - 1
       /\ SetNew("tail", raw.elems, val["tail"], AfterToken(depth'))
       /\ UNCHANGED <<input, typed, names, octets, outcome>>

\* A hole in the expression, and its name kept aside.
Name(c) ==
    /\ Reading(c)
    /\ names' = Append(names, c)
    /\ SetNew("tail", UNDEF, val["tail"], AfterToken(depth))
    /\ UNCHANGED <<depth, octets, outcome>>

Number(c) ==
    /\ Reading(c)
    /\ IF Numbers[c] >= 256 THEN Throw("wrong")
       ELSE /\ SetNew("tail", NewByte(Numbers[c], 0), val["tail"], AfterToken(depth))
            /\ UNCHANGED <<names, depth, octets, outcome>>

Expected == Names \cup DOMAIN Numbers \cup DOMAIN Hashes \cup Macros \cup {"[", "]", Newline}

Unexpected ==
    /\ At("token") /\ input # <<>> /\ Head(input) \notin Expected
    /\ Throw("wrong")
    /\ UNCHANGED <<input, typed>>

\* Wrong on purpose: calls an unfinished expression wrong.
EndOfInputIsWrong ==
    /\ At("token") /\ input = <<>>
    /\ Throw("wrong")
    /\ UNCHANGED <<input, typed>>

EndOfInput ==
    /\ At("token") /\ input = <<>>
    /\ Throw("more")
    /\ UNCHANGED <<input, typed>>

\* A macro needs an element before it.  Behind the expression there is one.
MacroChar(c) ==
    /\ At("token") \/ At("trailing")
    /\ Get(c)
    /\ IF IsUndef(val["tail"]) THEN Throw("wrong")
       ELSE /\ Locals(c, [NoRaw EXCEPT !.arg = val["tail"]])
            /\ UNCHANGED <<mem, names, depth, octets, outcome>>

\* Wrong on purpose: waits for a character although the input has ended.
TrailingWaits ==
    /\ At("trailing")
    /\ input # <<>> /\ Head(input) \notin Macros
    /\ Goto("return")
    /\ UNCHANGED <<mem, reading>>

\* What is no macro is put back, and the expression is complete.
Trailing ==
    /\ At("trailing")
    /\ input # <<>> => Head(input) \notin Macros
    /\ Goto("return")
    /\ UNCHANGED <<mem, reading>>
-----------------------------------------------------------------------------
(* The reader # and the macros.                                            *)

\* n * 10 + d in 32 bits; the check for an overflow is that it got smaller.
NextDigit(n, d) ==
    LET m == (10 * n + d) % (Octet * Octet * Octet * Octet)
    IN  IF n < 0 \/ m < n THEN -1 ELSE m

Digits(row) ==
    LET n[i \in 0 .. Len(row)] == IF i = 0 THEN 0 ELSE NextDigit(n[i - 1], row[i])
    IN  n[Len(row)]

Hash(c) ==
    \/ /\ Reading(c)
       /\ IF Digits(Hashes[c]) < 0 THEN Throw("wrong")
          ELSE /\ octets' = <<Digits(Hashes[c]), 4>>
               /\ Goto("#")
               /\ UNCHANGED <<mem, names, depth, outcome>>
    \/ At("#") /\ Enter(<<<<"n4", UNDEF>>>>, "octet") /\ UNCHANGED reading

Octets ==
    /\ At("octet")
    /\ \/ /\ octets[2] > 0
          /\ SetNew("n4", octets[1] % Octet, val["n4"], "octet")
          /\ octets' = <<octets[1] \div Octet, octets[2] - 1>>
       \/ octets[2] = 0 /\ Allocator!ReturnRoot("n4") /\ Goto("read") /\ UNCHANGED octets
    /\ UNCHANGED <<input, typed, names, depth, outcome>>

HashRead ==
    /\ At("read")
    /\ SetNew("tail", ret, val["tail"], AfterToken(depth))
    /\ UNCHANGED reading

\* [.. e] to [.. [qt e]]
QuoteMacro ==
    /\ \/ At("'") /\ Enter(<<<<"t", raw.arg>>, <<"r", UNDEF>>>>, "qt")
       \/ At("qt") /\ SetNew("r", NewByte(0, 1), val["r"], "quoted")
       \/ At("quoted") /\ SetNew("r", Hd(val["t"]), val["r"], "quote")
       \/ At("quote") /\ new_Cell(val["r"], Tl(val["t"])) /\ Goto("leave")
    /\ UNCHANGED reading

ReverseMacro ==
    /\ \/ At("<") /\ Enter(<<<<"t", raw.arg>>, <<"r", UNDEF>>>>, "reverse")
       \/ At("reverse") /\ IsPcell(val["t"])
            /\ SetNew("r", Hd(val["t"]), val["r"], "reversed")
       \/ At("reversed") /\ Assign("t", Tl(val["t"]), "reverse")
       \/ At("reverse") /\ ~IsPcell(val["t"])
            /\ Allocator!ReturnRoot("r") /\ Goto("leave")
    /\ UNCHANGED reading

\* The holes of an element, each of which has a name.
_count_undef(e) ==
    LET Count[w \in Elem] ==
            IF IsUndef(w) THEN 1
            ELSE IF IsByte(w) THEN 0
            ELSE Count[Hd(w)] + IF IsUndef(Tl(w)) THEN 0 ELSE Count[Tl(w)]
    IN  Count[e]

\* Wrong on purpose: leaves the names in the order they were typed.
NamesNotRotated(n1, n2, n3) == names

\* The names of the last three elements, the last of them first, change places
\* with the elements.
RotatedNames(n1, n2, n3) ==
    LET from3 == Len(names) - n1 - n2 - n3
        from2 == from3 + n3
        from1 == from2 + n2
    IN  SubSeq(names, 1, from3) \o SubSeq(names, from1 + 1, Len(names))
            \o SubSeq(names, from3 + 1, from2) \o SubSeq(names, from2 + 1, from1)

RotateMacro ==
    \/ /\ At("@")
       /\ LET second == Tl(raw.arg)
              third  == Tl(second)
              Element(x, w) == IF ~IsPcell(w) THEN Throw("illegal")
                               ELSE /\ Allocator!AddRoot(x, Hd(w))
                                    /\ UNCHANGED <<control, names, outcome>>
          IN  \/ "e1" \notin roots /\ Element("e1", raw.arg)
              \/ "e1" \in roots /\ "e2" \notin roots /\ Element("e2", second)
              \/ "e2" \in roots /\ "e3" \notin roots /\ Element("e3", third)
              \/ /\ "e3" \in roots
                 /\ names' = RotatedNames(_count_undef(val["e1"]), _count_undef(val["e2"]),
                                          _count_undef(val["e3"]))
                 /\ Locals("rotate1", [NoRaw EXCEPT !.r = Tl(third)])
                 /\ UNCHANGED <<mem, outcome>>
       /\ UNCHANGED <<input, typed, depth, octets>>
    \/ /\ \/ At("rotate1") /\ new_Cell(val["e1"], raw.r)
               /\ Locals("rotate3", [NoRaw EXCEPT !.r = ret'])
          \/ At("rotate3") /\ new_Cell(val["e3"], raw.r)
               /\ Locals("rotate2", [NoRaw EXCEPT !.r = ret'])
          \/ At("rotate2") /\ new_Cell(val["e2"], raw.r) /\ Locals("leave", NoRaw)
       /\ UNCHANGED reading

MacroReturn ==
    /\ At("leave")
    /\ Leave(MacroRoots, Assign("tail", ret, AfterToken(depth)))
    /\ UNCHANGED reading
-----------------------------------------------------------------------------
(* _reverse_and_reduce.  The expression it is given always is a cell.      *)

Return ==
    /\ At("return")
    /\ \/ "tail" \in roots /\ Allocator!ReturnRoot("tail") /\ UNCHANGED control
       \/ /\ "tail" \notin roots
          /\ Leave({"tails"}, Locals("enter", [NoRaw EXCEPT !.arg = ret]) /\ UNCHANGED mem)
    /\ UNCHANGED reading

ReduceEnter ==
    /\ At("enter")
    /\ Enter(<<<<"p", raw.arg>>, <<"acc", UNDEF>>, <<"accs", UNDEF>>, <<"pcells", UNDEF>>>>,
             "reduce")
    /\ UNCHANGED reading

\* Wrong on purpose: takes the rest of the list before it is on the stack.
ReducePushTakes ==
    /\ \/ /\ At("reduce") /\ IsPcell(val["p"]) /\ IsPcell(Hd(val["p"]))
          /\ Allocator!Assign("p", Hd(val["p"]))
          /\ Locals("push", [NoRaw EXCEPT !.r = val["acc"], !.head = Tl(val["p"])])
       \/ At("push") /\ Allocator!Assign("acc", UNDEF) /\ Locals("pushed", raw)
       \/ At("pushed") /\ new_Cell(raw.r, val["accs"]) /\ Locals("nested", raw)
       \/ At("nested") /\ Allocator!Assign("accs", ret) /\ Locals("nested2", raw)
       \/ At("nested2") /\ SetNew("pcells", raw.head, val["pcells"], "reduce")
    /\ UNCHANGED reading

\* A nested expression is next: what is left of this one waits on the stacks.
ReducePush ==
    /\ \/ /\ At("reduce") /\ IsPcell(val["p"]) /\ IsPcell(Hd(val["p"]))
          /\ SetNew("pcells", Tl(val["p"]), val["pcells"], "push")
       \/ At("push") /\ SetNew("accs", val["acc"], val["accs"], "pushed")
       \/ At("pushed") /\ Assign("p", Hd(val["p"]), "nested")
       \/ At("nested") /\ Assign("acc", UNDEF, "reduce")
    /\ UNCHANGED reading

\* A hole or a byte is next.
ReduceElem ==
    /\ At("reduce") /\ IsPcell(val["p"])
    /\ LET head == Hd(val["p"])
       IN  \/ /\ IsByte(head)
              /\ Locals("join", [NoRaw EXCEPT !.head = head])
              /\ UNCHANGED <<mem, names, depth, octets, outcome>>
           \/ /\ IsUndef(head) /\ Last(names) \notin DOMAIN Words
              /\ Throw("undef")
           \/ /\ IsUndef(head) /\ Last(names) \in DOMAIN Words
              /\ Locals("join", [NoRaw EXCEPT !.head = Words[Last(names)]])
              /\ names' = Front(names)
              /\ UNCHANGED <<mem, depth, octets, outcome>>
    /\ UNCHANGED <<input, typed>>

\* The last element of a list is its tail.
Join(label) ==
    IF IsUndef(val["acc"])
    THEN Allocator!Assign("acc", raw.head) /\ Locals(label, NoRaw)
    ELSE SetNew("acc", raw.head, val["acc"], label)

ReduceJoin ==
    /\ \/ At("join") /\ Join("advance")
       \/ At("advance") /\ Assign("p", Tl(val["p"]), "reduce")
    /\ UNCHANGED reading

\* A nested expression is done.
ReducePop ==
    /\ \/ /\ At("reduce") /\ IsUndef(val["p"]) /\ ~IsUndef(val["pcells"])
          /\ Allocator!Assign("p", Hd(val["pcells"]))
          /\ Locals("popPcells", [NoRaw EXCEPT !.head = val["acc"]])
       \/ At("popPcells") /\ Assign("pcells", Tl(val["pcells"]), "popAcc")
       \/ At("popAcc")    /\ Assign("acc", Hd(val["accs"]), "popAccs")
       \/ At("popAccs")   /\ Assign("accs", Tl(val["accs"]), "joinNested")
       \/ At("joinNested") /\ Join("reduce")
    /\ UNCHANGED reading

ReduceReturn ==
    /\ \/ /\ At("reduce") /\ IsUndef(val["p"]) /\ IsUndef(val["pcells"])
          /\ Allocator!ReturnRoot("acc") /\ Goto("reduced")
       \/ At("reduced") /\ Leave(ReduceRoots,
              Locals("parsed", [NoRaw EXCEPT !.arg = ret]) /\ UNCHANGED mem)
    /\ UNCHANGED reading

\* Nothing but space may follow on the line.
endofline ==
    /\ At("parsed")
    /\ IF input = <<>> \/ Head(input) = Newline
       THEN Goto("done") /\ UNCHANGED <<mem, names, depth, octets, outcome>>
       ELSE Throw("wrong")
    /\ UNCHANGED <<input, typed>>

Next ==
    \/ Start \/ Space \/ Open \/ Close \/ Unexpected \/ EndOfInput \/ Trailing
    \/ \E c \in Names : Name(c)
    \/ \E c \in DOMAIN Numbers : Number(c)
    \/ \E c \in DOMAIN Hashes : Hash(c)
    \/ \E c \in Macros : MacroChar(c)
    \/ Store \/ Octets \/ HashRead
    \/ QuoteMacro \/ ReverseMacro \/ RotateMacro \/ MacroReturn
    \/ Return \/ ReduceEnter \/ ReducePush \/ ReduceElem \/ ReduceJoin \/ ReducePop
    \/ ReduceReturn \/ endofline \/ Unwind

Spec == Init /\ [][Next]_vars

\* One thread reads, and nothing holds it up.
FairSpec == Spec /\ WF_vars(Next)
-----------------------------------------------------------------------------
\* What _mark keeps alive, from the roots and the word in hand.
Alive ==
    LET words == {w \in {val[x] : x \in roots} \cup {ret} : w \in Page}
    IN  UNION {MarkFrom(page, {}, w) : w \in words}

(***************************************************************************)
(* The parser hands the collector what it still uses: an element it keeps  *)
(* in a plain local, across the calls of readers, macros and stacks, is    *)
(* never that of a cell a collection may free or has freed.                *)
(***************************************************************************)
HandsAlive ==
    status = "running" => \A f \in DOMAIN raw : raw[f] \in Page => raw[f] \in Alive

(***************************************************************************)
(* However it is typed, reading comes to an end: an element, an error, or  *)
(* OutOfMemory.                                                            *)
(***************************************************************************)
ReadingEnds == <>(pc \in {"done", "error"} \/ status = "oom")
=============================================================================
