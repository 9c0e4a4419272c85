------------------------ MODULE KConInterpreterProofs -----------------------
(***************************************************************************)
(* The interpreter, for every page and every operand: it keeps to the      *)
(* rules of the allocator and loses nothing it still uses, but for the     *)
(* continuation of a graft statement (KontAlive).                          *)
(*                                                                         *)
(* The argument: a plain local only ever holds what the last answer or the *)
(* shell's definition leads to (RawOK), and only a continuation is used    *)
(* after the next new_Cell.  That the auto_roots hold what _evaluate and   *)
(* _graft take them for follows from where the interpreter is (Control).   *)
(* For _graft this needs a relation of two structures: there is a cell on  *)
(* the route for every move of the reversed path (Unwinds), and no         *)
(* new_Cell changes that, since it changes no cell the two lead to         *)
(* (UnwindsKept).                                                          *)
(***************************************************************************)
EXTENDS KConInterpreter, CellsProofs

Theory == INSTANCE SimpleAllocatorProofs WITH
                ElemVar     <- {"defn", "v", "e", "route"},
                PcellVar    <- {"exprs", "p", "rpth", "tcells"},
                ClientBytes <- 0 .. (UNDEF - 1)

-----------------------------------------------------------------------------
(***************************************************************************)
(* The allocator of the interpreter is the one SimpleAllocatorProofs is    *)
(* about.                                                                  *)
(***************************************************************************)
ElemVars  == {"defn", "v", "e", "route"}
PcellVars == {"exprs", "p", "rpth", "tcells"}
Vars      == ElemVars \cup PcellVars

\* What the collector keeps, in the words of Cells.
Live == Reach(page, {val[x] : x \in roots} \cup {ret})

\* The words a client may use, and store in each of the variables.
Usable == 0 .. UNDEF \cup Live

WordsOf(x) == IF x \in PcellVars THEN Live \cup {Null} ELSE Usable

\* The cells are the same in the interpreter and in both instances.
LEMMA SameCells ==
    /\ Allocator!Page = Page /\ Theory!Page = Page
    /\ Allocator!Elem = Elem /\ Theory!Elem = Elem
    /\ Allocator!Cell = Cell /\ Theory!Cell = Cell
    /\ Allocator!UNDEF = UNDEF /\ Theory!UNDEF = UNDEF
    /\ Allocator!Null = Null /\ Theory!Null = Null
BY DEF Allocator!Page, Page, Theory!Page, Allocator!Elem, Elem, Theory!Elem,
       Allocator!Cell, Cell, Theory!Cell, Allocator!UNDEF, UNDEF, Theory!UNDEF,
       Allocator!Null, Null, Theory!Null

\* The assumptions of SimpleAllocator hold of the interpreter's.
LEMMA ConstantsFit ==
    NCells \in Nat \ {0} /\ \A b \in 0 .. (UNDEF - 1) : b \in Nat /\ Theory!IsByte(b)
<1>1. UNDEF \in Nat /\ Theory!UNDEF = UNDEF
  BY SameCells DEF UNDEF
<1>2. QED
  BY <1>1, NCellsAssumption DEF Theory!IsByte

\* Reaching means the same in all three.
LEMMA SameReach ==
    ASSUME NEW cells
    PROVE  /\ \A S : Allocator!Closed(cells, S) <=> Closed(cells, S)
           /\ \A S : Theory!Closed(cells, S) <=> Closed(cells, S)
           /\ \A words : Allocator!Reach(cells, words) = Reach(cells, words)
           /\ \A words : Theory!Reach(cells, words) = Reach(cells, words)
<1>1. \A S : Allocator!Closed(cells, S) <=> Closed(cells, S)
  BY SameCells DEF Allocator!Closed, Closed, Allocator!Children, Children
<1>2. \A S : Theory!Closed(cells, S) <=> Closed(cells, S)
  BY SameCells DEF Theory!Closed, Closed, Theory!Children, Children
<1>3. \A words : Allocator!Reach(cells, words) = Reach(cells, words)
  BY <1>1, SameCells DEF Allocator!Reach, Reach
<1>4. \A words : Theory!Reach(cells, words) = Reach(cells, words)
  BY <1>2, SameCells, ZenonT(40) DEF Theory!Reach, Reach
<1>5. QED
  BY <1>1, <1>2, <1>3, <1>4

\* A sweep writes the same cells in both instances.
LEMMA SameSweep ==
    \A cells, live : Allocator!Sweep(cells, live) = Theory!Sweep(cells, live)
<1>1. \A c, dead : Allocator!FreeCell(c, dead) = Theory!FreeCell(c, dead)
  BY SameCells DEF Allocator!FreeCell, Theory!FreeCell, Allocator!FreeLink, Theory!FreeLink,
       Allocator!IsBefore, Theory!IsBefore
<1>2. QED
  BY <1>1, SameCells DEF Allocator!Sweep, Theory!Sweep

\* The variables, and the words a client may use for each of them.
LEMMA SameWords ==
    /\ Allocator!Var = Vars /\ Theory!Var = Vars
    /\ Allocator!Live = Live /\ Theory!Live = Live
    /\ Allocator!RootWords = {val[x] : x \in roots} /\ Theory!RootWords = {val[x] : x \in roots}
    /\ Allocator!ElemWords = Usable /\ Theory!ElemWords = Usable
    /\ \A x : Allocator!WordsFor(x) = WordsOf(x) /\ Theory!WordsFor(x) = WordsOf(x)
    /\ \A x : Allocator!Empty(x) = Theory!Empty(x)
<1>1. Allocator!Var = Vars /\ Theory!Var = Vars
  BY DEF Allocator!Var, Theory!Var, Vars, ElemVars, PcellVars
<1>2. Allocator!RootWords = {val[x] : x \in roots} /\ Theory!RootWords = {val[x] : x \in roots}
  BY DEF Allocator!RootWords, Theory!RootWords
<1>3. Allocator!Live = Live /\ Theory!Live = Live
  BY <1>2, SameReach DEF Allocator!Live, Theory!Live, Live
<1>4. 0 .. (UNDEF - 1) \cup {UNDEF} = 0 .. UNDEF
  <2>1. UNDEF \in Nat
    BY DEF UNDEF
  <2>2. QED
    BY <2>1
<1>5. Allocator!ElemWords = Usable /\ Theory!ElemWords = Usable
  BY <1>3, <1>4, SameCells DEF Allocator!ElemWords, Theory!ElemWords, Usable
<1>6. QED
  BY <1>1, <1>2, <1>3, <1>5, SameCells
     DEF Allocator!WordsFor, Theory!WordsFor, WordsOf, Usable, PcellVars,
         Allocator!Empty, Theory!Empty

\* The invariants of SimpleAllocator, said of either instance.
LEMMA SameState ==
    /\ Theory!TypeOK <=> Allocator!TypeOK
    /\ Theory!AllocatedClosed <=> Allocator!AllocatedClosed
    /\ Theory!NoCycles <=> Allocator!NoCycles
    /\ Allocator!NoCycles => Acyclic(page)
<1>1. Theory!TypeOK <=> Allocator!TypeOK
  BY SameCells, SameWords DEF Allocator!TypeOK, Theory!TypeOK
<1>2. /\ Theory!NoCycles <=> Allocator!NoCycles
      /\ Allocator!NoCycles => Acyclic(page)
  BY SameCells DEF Allocator!NoCycles, Theory!NoCycles, Allocator!Acyclic, Theory!Acyclic,
       Acyclic, Allocator!Children, Theory!Children, Children
<1>3. QED
  BY <1>1, <1>2, SameCells, SameReach, SameWords
     DEF Allocator!AllocatedClosed, Theory!AllocatedClosed

\* The steps of SimpleAllocator, taken of either instance.
LEMMA SameSteps ==
    /\ \A h, t : Theory!NewCell(h, t) <=> Allocator!NewCell(h, t)
    /\ \A h, t : Theory!NewCellCollect(h, t) <=> Allocator!NewCellCollect(h, t)
    /\ \A x, e : Theory!AddRoot(x, e) <=> Allocator!AddRoot(x, e)
    /\ \A x, e : Theory!Assign(x, e) <=> Allocator!Assign(x, e)
    /\ \A x : Theory!DelRoot(x) <=> Allocator!DelRoot(x)
    /\ \A x : Theory!ReturnRoot(x) <=> Allocator!ReturnRoot(x)
<1>1. \A h, t : Theory!NewCell(h, t) <=> Allocator!NewCell(h, t)
  BY DEF Allocator!NewCell, Theory!NewCell, Allocator!IsHead, Theory!IsHead
<1>2. ASSUME NEW h, NEW t
      PROVE  Theory!NewCellCollect(h, t) <=> Allocator!NewCellCollect(h, t)
  <2>1. \A cells, words : Theory!Reach(cells, words) = Allocator!Reach(cells, words)
    BY SameReach
  <2>2. Theory!StackWords = Allocator!StackWords
    BY SameCells DEF Allocator!StackWords, Theory!StackWords
  <2>3. Theory!RootWords = Allocator!RootWords /\ Theory!UNDEF = Allocator!UNDEF
           /\ Theory!Page = Allocator!Page
    BY SameCells, SameWords
  <2>4. \A cells, live : Theory!Sweep(cells, live) = Allocator!Sweep(cells, live)
    BY SameSweep
  <2> DEFINE filled(c) == [page EXCEPT ![c] = [hd |-> h, tl |-> t]]
             T(c, words) == Theory!Reach(filled(c), Theory!RootWords \cup words \cup {c})
             A(c, words) == Allocator!Reach(filled(c), Allocator!RootWords \cup words \cup {c})
             Collects(c, words, undef, all, live, swept) ==
                 /\ free = {c}
                 /\ \/ /\ undef \in words
                       /\ status' = "wildRead"
                       /\ UNCHANGED <<page, free, ret, stale>>
                    \/ /\ undef \notin words
                       /\ live = all
                       /\ page' = filled(c)
                       /\ free' = {}
                       /\ status' = "oom"
                       /\ ret' = undef
                       /\ stale' = TRUE
                    \/ /\ undef \notin words
                       /\ live # all
                       /\ page' = swept
                       /\ free' = all \ live
                       /\ ret' = c
                       /\ stale' \in {stale, FALSE}
                       /\ UNCHANGED status
  <2>5. Theory!NewCellCollect(h, t) <=>
          /\ status = "running"
          /\ \E c \in free, words \in Theory!StackWords :
                Collects(c, words, Theory!UNDEF, Theory!Page, T(c, words),
                         Theory!Sweep(filled(c), T(c, words)))
          /\ UNCHANGED <<val, roots, interactive>>
    BY ZenonT(40) DEF Theory!NewCellCollect
  <2>6. Allocator!NewCellCollect(h, t) <=>
          /\ status = "running"
          /\ \E c \in free, words \in Allocator!StackWords :
                Collects(c, words, Allocator!UNDEF, Allocator!Page, A(c, words),
                         Allocator!Sweep(filled(c), A(c, words)))
          /\ UNCHANGED <<val, roots, interactive>>
    BY ZenonT(40) DEF Allocator!NewCellCollect
  <2>7. \A c, words : T(c, words) = A(c, words)
    BY <2>1, <2>3
  <2> HIDE DEF Collects, T, A
  <2>8. QED
    BY <2>2, <2>3, <2>4, <2>5, <2>6, <2>7, Zenon
<1>3. \A x, e : Theory!AddRoot(x, e) <=> Allocator!AddRoot(x, e)
  BY DEF Allocator!AddRoot, Theory!AddRoot
<1>4. \A x, e : Theory!Assign(x, e) <=> Allocator!Assign(x, e)
  BY DEF Allocator!Assign, Theory!Assign
<1>5. \A x : Theory!DelRoot(x) <=> Allocator!DelRoot(x)
  BY SameCells DEF Allocator!DelRoot, Theory!DelRoot, Allocator!Empty, Theory!Empty
<1>6. \A x : Theory!ReturnRoot(x) <=> Allocator!ReturnRoot(x)
  BY SameCells DEF Allocator!ReturnRoot, Theory!ReturnRoot, Allocator!Empty, Theory!Empty
<1>7. QED
  BY <1>1, <1>2, <1>3, <1>4, <1>5, <1>6

-----------------------------------------------------------------------------
(***************************************************************************)
(* What the allocator gives the interpreter.                               *)
(***************************************************************************)
Memory == Allocator!TypeOK /\ Allocator!AllocatedClosed /\ Allocator!NoCycles

\* TypeOK, with the interpreter's own names.
LEMMA MemoryTypes ==
    ASSUME Memory
    PROVE  /\ page \in [Page -> Cell]
           /\ free \subseteq Page
           /\ val \in [Vars -> Elem]
           /\ roots \subseteq Vars
           /\ ret \in Elem
           /\ Acyclic(page)
BY SameCells, SameWords, SameState DEF Memory, Allocator!TypeOK

\* The step of a new_Cell.
Cons(h, t) == Allocator!NewCell(h, t) \/ Allocator!NewCellCollect(h, t)

\* The steps of a client that uses a word only while it may.
ClientStep ==
    \/ \E x \in Vars : \E w \in WordsOf(x) : Allocator!AddRoot(x, w) \/ Allocator!Assign(x, w)
    \/ \E x \in Vars : Allocator!DelRoot(x) \/ Allocator!ReturnRoot(x)
    \/ \E h, t \in Usable : Cons(h, t)

\* Such a step is a step of SimpleAllocator.
LEMMA ClientSteps ==
    ASSUME ClientStep
    PROVE  Allocator!Next /\ Theory!Next
<1>1. CASE \E x \in Vars : \E w \in WordsOf(x) :
               Allocator!AddRoot(x, w) \/ Allocator!Assign(x, w)
  <2>1. PICK x \in Vars :
               \E w \in WordsOf(x) : Allocator!AddRoot(x, w) \/ Allocator!Assign(x, w)
    BY <1>1
  <2>2. PICK w \in WordsOf(x) : Allocator!AddRoot(x, w) \/ Allocator!Assign(x, w)
    BY <2>1
  <2>3. /\ x \in Allocator!Var /\ x \in Theory!Var
        /\ w \in Allocator!WordsFor(x) /\ w \in Theory!WordsFor(x)
        /\ Theory!AddRoot(x, w) \/ Theory!Assign(x, w)
    BY <2>2, SameWords, SameSteps
  <2>4. QED
    BY <2>2, <2>3 DEF Allocator!Next, Theory!Next
<1>2. CASE \E x \in Vars : Allocator!DelRoot(x) \/ Allocator!ReturnRoot(x)
  <2>1. PICK x \in Vars : Allocator!DelRoot(x) \/ Allocator!ReturnRoot(x)
    BY <1>2
  <2>2. /\ x \in Allocator!Var /\ x \in Theory!Var
        /\ Theory!DelRoot(x) \/ Theory!ReturnRoot(x)
    BY <2>1, SameWords, SameSteps
  <2>3. QED
    BY <2>1, <2>2 DEF Allocator!Next, Theory!Next
<1>3. CASE \E h, t \in Usable : Cons(h, t)
  <2>1. PICK h \in Usable, t \in Usable :
               Allocator!NewCell(h, t) \/ Allocator!NewCellCollect(h, t)
    BY <1>3 DEF Cons
  <2>2. /\ h \in Allocator!ElemWords /\ h \in Theory!ElemWords
        /\ t \in Allocator!ElemWords /\ t \in Theory!ElemWords
        /\ Theory!NewCell(h, t) \/ Theory!NewCellCollect(h, t)
    BY <2>1, SameWords, SameSteps
  <2>3. QED
    BY <2>1, <2>2 DEF Allocator!Next, Theory!Next
<1>4. QED
  BY <1>1, <1>2, <1>3 DEF ClientStep

\* What every client's step keeps, the interpreter's steps keep.
LEMMA MemoryStep ==
    ASSUME Memory, ClientStep \/ UNCHANGED mem
    PROVE  Memory'
<1>1. Theory!TypeOK /\ Theory!AllocatedClosed /\ Theory!NoCycles
  BY SameState DEF Memory
<1>2. [Theory!Next]_Theory!vars
  BY ClientSteps DEF mem, Theory!vars
<1>3. Theory!TypeOK' /\ Theory!AllocatedClosed' /\ Theory!NoCycles'
  BY <1>1, <1>2, ConstantsFit, Theory!TypeStep, Theory!ClosedStep, Theory!CyclesStep
<1>4. /\ (Theory!TypeOK <=> Allocator!TypeOK)'
      /\ (Theory!AllocatedClosed <=> Allocator!AllocatedClosed)'
      /\ (Theory!NoCycles <=> Allocator!NoCycles)'
  BY SameState, PTL
<1>5. QED
  BY <1>3, <1>4 DEF Memory

\* What a new cell changes for the interpreter.
LEMMA NewCellLeaves ==
    ASSUME Memory, stale = FALSE, status' = "running",
           NEW h \in Usable, NEW t \in Usable, Cons(h, t)
    PROVE  /\ ret' \in Page
           /\ page'[ret'] = [hd |-> h, tl |-> t]
           /\ \A c \in Reach(page, {val[x] : x \in roots} \cup {h, t}) :
                  c \in Live' /\ page'[c] = page[c]
           /\ val' = val /\ roots' = roots /\ stale' = FALSE
<1>1. Theory!TypeOK /\ Theory!AllocatedClosed
  BY SameState DEF Memory
<1>2. h \in Theory!ElemWords /\ t \in Theory!ElemWords
  BY SameWords
<1>3. Theory!NewCell(h, t) \/ Theory!NewCellCollect(h, t)
  BY SameSteps DEF Cons
<1>5. /\ ret' \in Theory!Page
      /\ page'[ret'] = [hd |-> h, tl |-> t]
      /\ \A c \in Theory!Reach(page, Theory!RootWords \cup {h, t}) :
             c \in Theory!Live' /\ page'[c] = page[c]
  BY <1>1, <1>2, <1>3, ConstantsFit, Theory!NewCellKeeps
<1>6. (Theory!Live = Live)'
  BY SameWords, PTL
<1>7. val' = val /\ roots' = roots /\ stale' = FALSE
  BY <1>3 DEF Theory!NewCell, Theory!NewCellCollect
<1>8. QED
  BY <1>5, <1>6, <1>7, SameCells, SameReach, SameWords

-----------------------------------------------------------------------------
(***************************************************************************)
(* Reading cells.  What the interpreter reads is a word that the one it    *)
(* starts from leads to, or Illegal; the recursive functions it reads with *)
(* exist because no cell leads back to itself.                             *)
(***************************************************************************)
Words == Elem \cup {Illegal}

\* A word is the address of a cell, or not above UNDEF, or Illegal.
LEMMA SmallWords ==
    /\ UNDEF \in Nat /\ NCells \in Nat /\ Illegal \notin Elem /\ Illegal # Null
    /\ \A w \in Words : /\ IsCell(w) <=> w \in Page
                        /\ IsPcell(w) <=> w \in Page
                        /\ w \in Page \/ w = Illegal \/ w \in 0 .. UNDEF
                        /\ IsAByte(w) => IsByte(w) /\ w \in 0 .. UNDEF /\ w \notin Page
    /\ 0 .. UNDEF \subseteq Elem
    /\ \A c \in Page : c \notin 0 .. UNDEF /\ ~IsByte(c) /\ c # Null /\ c # Illegal /\ IsPcell(c)
<1>1. NCells \in Nat /\ NCells > 0 /\ UNDEF \in Nat /\ UNDEF > 0
  BY NCellsAssumption DEF UNDEF
<1>2. QED
  BY <1>1 DEF Words, Illegal, Elem, Page, IsCell, IsPcell, IsAByte, IsByte, Null

\* A property of the cells that a cell has when all it leads to have it is one
\* of every cell.
LEMMA CellsInduction ==
    ASSUME NEW cells, Acyclic(cells), NEW B \in SUBSET Page,
           \A S \in SUBSET B : Closed(cells, S) =>
               \A c \in Page : Children(cells, c) \subseteq S => c \in B
    PROVE  B = Page
<1> DEFINE G == {S \in SUBSET B : Closed(cells, S)}
<1>1. {} \in G
  BY DEF Closed
<1>2. PICK S \in G : \A T \in G : S \subseteq T => T = S
  <2>1. G \in SUBSET (SUBSET Page) /\ G # {}
    BY <1>1
  <2> HIDE DEF G
  <2>2. QED
    BY <2>1, MaximalSet
<1>3. S \subseteq B /\ Closed(cells, S)
  OBVIOUS
<1>4. SUFFICES ASSUME S # Page PROVE FALSE
  BY <1>3
<1>5. PICK c \in Page \ S : Children(cells, c) \cap (Page \ S) = {}
  BY <1>3, <1>4 DEF Acyclic
<1>6. Children(cells, c) \subseteq S
  BY <1>5 DEF Children
<1>7. c \in B
  BY <1>3, <1>5, <1>6
<1>8. S \cup {c} \in G
  BY <1>3, <1>6, <1>7 DEF Closed
<1>9. QED
  BY <1>2, <1>5, <1>8

-----------------------------------------------------------------------------
(* _parse_count                                                            *)

HdOf(cells, w) == IF IsPcell(w) THEN cells[w].hd ELSE Illegal
TlOf(cells, w) == IF IsPcell(w) THEN cells[w].tl ELSE Illegal

\* The count at the cell w, given those at the cells after it.
CountStep(cells, Count, w) ==
    IF ~IsByte(HdOf(cells, w)) THEN Illegal
    ELSE IF IsByte(TlOf(cells, w))
         THEN ByteValue(HdOf(cells, w)) + 256 * ByteValue(TlOf(cells, w))
    ELSE IF ~IsPcell(TlOf(cells, w)) \/ Count[TlOf(cells, w)] = Illegal THEN Illegal
    ELSE ByteValue(HdOf(cells, w)) + 256 * Count[TlOf(cells, w)]

Counts(cells, Count) == Count = [w \in Page |-> CountStep(cells, Count, w)]

CountOf(cells) == CHOOSE Count : Counts(cells, Count)

\* There is such a function, built up from the cells whose counts are known.
LEMMA SomeCount ==
    ASSUME NEW cells \in [Page -> Cell], Acyclic(cells)
    PROVE  \E Count : Counts(cells, Count)
<1> DEFINE Done(S, Count) == /\ Count = [w \in Page |-> Count[w]]
                             /\ \A w \in S : Count[w] = CountStep(cells, Count, w)
           G == {S \in SUBSET Page : Closed(cells, S) /\ \E Count : Done(S, Count)}
<1>1. {} \in G
  <2>1. Done({}, [w \in Page |-> 0]) /\ Closed(cells, {})
    BY DEF Closed
  <2> HIDE DEF Done
  <2>2. QED
    BY <2>1
<1>2. PICK S \in G : \A T \in G : S \subseteq T => T = S
  <2> HIDE DEF Done
  <2>1. G \in SUBSET (SUBSET Page) /\ G # {}
    BY <1>1
  <2> HIDE DEF G
  <2>2. QED
    BY <2>1, MaximalSet
<1>3. S \in SUBSET Page /\ Closed(cells, S)
  OBVIOUS
<1>4. PICK Count : Done(S, Count)
  BY <1>2
<1>5. S = Page
  <2>1. SUFFICES ASSUME S # Page PROVE FALSE
    OBVIOUS
  <2>2. PICK c \in Page \ S : Children(cells, c) \cap (Page \ S) = {}
    BY <1>3, <2>1 DEF Acyclic
  <2> DEFINE T == S \cup {c}
             More == [w \in Page |-> IF w = c THEN CountStep(cells, Count, c) ELSE Count[w]]
  <2>3. Children(cells, c) \subseteq S
    BY <2>2 DEF Children
  <2>4. Closed(cells, T)
    BY <1>3, <2>3 DEF Closed
  <2>5. \A w \in T : IsPcell(TlOf(cells, w)) => TlOf(cells, w) \in S
    <3>1. \A w \in T : TlOf(cells, w) = cells[w].tl /\ cells[w].tl \in Elem
                          /\ (cells[w].tl \in Page => cells[w].tl \in Children(cells, w))
      BY <1>3, <2>2, SmallWords DEF TlOf, Cell, Children
    <3>2. QED
      BY <1>3, <2>3, <3>1, PcellIsPage DEF Closed
  <2>6. \A w \in S : More[w] = Count[w]
    BY <1>3, <2>2
  <2>7. \A w \in T : CountStep(cells, More, w) = CountStep(cells, Count, w)
    <3> HIDE DEF More
    <3>1. QED
      BY <2>5, <2>6 DEF CountStep
  <2>8. \A w \in T : More[w] = CountStep(cells, More, w)
    <3>1. More[c] = CountStep(cells, Count, c)
      BY <2>2
    <3>2. \A w \in S : More[w] = CountStep(cells, Count, w)
      BY <1>4, <2>6
    <3> HIDE DEF More
    <3>3. QED
      BY <2>7, <3>1, <3>2
  <2>9. More = [w \in Page |-> More[w]]
    OBVIOUS
  <2> HIDE DEF More
  <2>10. Done(T, More)
    BY <2>8, <2>9
  <2> HIDE DEF Done
  <2>11. T \in G
    BY <1>3, <2>2, <2>4, <2>10
  <2>12. QED
    BY <1>2, <2>2, <2>11
<1>6. QED
  BY <1>4, <1>5 DEF Counts

\* The equation of the counts, and their type.
LEMMA CountWords ==
    ASSUME NEW cells \in [Page -> Cell], Acyclic(cells)
    PROVE  \A w \in Page : /\ CountOf(cells)[w] = CountStep(cells, CountOf(cells), w)
                           /\ CountOf(cells)[w] \in Nat \cup {Illegal}
<1> DEFINE Count == CountOf(cells)
           B == {w \in Page : Count[w] \in Nat \cup {Illegal}}
<1>1. Counts(cells, Count)
  BY SomeCount DEF CountOf
<1> HIDE DEF Count
<1>2. \A w \in Page : Count[w] = CountStep(cells, Count, w)
  BY <1>1 DEF Counts
<1>3. ASSUME NEW S \in SUBSET B, Closed(cells, S), NEW c \in Page, Children(cells, c) \subseteq S
      PROVE  c \in B
  <2>1. /\ HdOf(cells, c) \in Elem /\ TlOf(cells, c) \in Elem
        /\ IsPcell(TlOf(cells, c)) => Count[TlOf(cells, c)] \in Nat \cup {Illegal}
    <3>1. HdOf(cells, c) = cells[c].hd /\ TlOf(cells, c) = cells[c].tl
      BY SmallWords DEF HdOf, TlOf
    <3>2. QED
      BY <1>3, <3>1, PcellIsPage DEF Cell, Children
  <2>2. \A w \in Elem : w \in Nat /\ ByteValue(w) \in Nat
    BY SmallWords DEF Elem, ByteValue
  <2>3. CountStep(cells, Count, c) \in Nat \cup {Illegal}
    BY <2>1, <2>2 DEF CountStep
  <2>4. QED
    BY <1>2, <2>3
<1>4. B = Page
  <2> HIDE DEF B
  <2>1. B \in SUBSET Page
    BY DEF B
  <2>2. QED
    BY <1>3, <2>1, CellsInduction
<1>5. QED
  BY <1>2, <1>4 DEF Count

\* Pages that agree on a closed set of cells have the same counts there.
LEMMA SameCounts ==
    ASSUME NEW cells \in [Page -> Cell], Acyclic(cells),
           NEW cells2 \in [Page -> Cell], Acyclic(cells2),
           NEW S \in SUBSET Page, Closed(cells, S), \A c \in S : cells2[c] = cells[c]
    PROVE  \A c \in S : CountOf(cells2)[c] = CountOf(cells)[c]
<1> DEFINE B == {c \in S : CountOf(cells2)[c] # CountOf(cells)[c]}
<1>1. SUFFICES ASSUME B # {} PROVE FALSE
  OBVIOUS
<1>2. PICK c \in B : Children(cells, c) \cap B = {}
  BY <1>1 DEF Acyclic
<1>3. c \in S /\ c \in Page /\ Children(cells, c) \subseteq S \ B
  BY <1>2 DEF Closed
<1>4. /\ HdOf(cells2, c) = HdOf(cells, c)
      /\ TlOf(cells2, c) = TlOf(cells, c)
      /\ IsPcell(TlOf(cells, c)) => TlOf(cells, c) \in Children(cells, c)
  BY <1>3, SmallWords, PcellIsPage DEF HdOf, TlOf, Children, Cell
<1>5. IsPcell(TlOf(cells, c)) =>
          CountOf(cells2)[TlOf(cells, c)] = CountOf(cells)[TlOf(cells, c)]
  BY <1>3, <1>4
<1>6. CountStep(cells2, CountOf(cells2), c) = CountStep(cells, CountOf(cells), c)
  BY <1>4, <1>5 DEF CountStep
<1>7. CountOf(cells2)[c] = CountOf(cells)[c]
  BY <1>3, <1>6, CountWords
<1>8. QED
  BY <1>2, <1>7

\* What _parse_count computes.
LEMMA ParseCount ==
    \A w : _parse_count(w) = IF IsCell(w) THEN CountOf(page)[w] ELSE Illegal
BY DEF _parse_count, CountOf, Counts, CountStep, Hd, Tl, HdOf, TlOf

-----------------------------------------------------------------------------
(* Down, and _select                                                       *)

\* What a set of cells leads to without leaving it.
Within(S) == S \cup 0 .. UNDEF \cup {Illegal}

\* A walk of up to n steps, each from a cell w to the word next[w].
Walks(next, n, Walk) ==
    Walk = [at \in Words \X (0 .. n) |->
               IF at[2] = 0 THEN at[1]
               ELSE IF IsCell(at[1]) THEN Walk[<<next[at[1]], at[2] - 1>>]
               ELSE Illegal]

\* There is such a function: built up count by count.
LEMMA SomeWalk ==
    ASSUME NEW next \in [Page -> Elem], NEW n \in Nat
    PROVE  \E Walk : Walks(next, n, Walk)
<1> DEFINE Step(Walk, at) == IF at[2] = 0 THEN at[1]
                             ELSE IF IsCell(at[1]) THEN Walk[<<next[at[1]], at[2] - 1>>]
                             ELSE Illegal
           Upto(k, Walk) == /\ Walk = [at \in Words \X (0 .. n) |-> Walk[at]]
                            /\ \A at \in Words \X (0 .. k) : Walk[at] = Step(Walk, at)
           Bad == {k \in 0 .. n : ~ \E Walk : Upto(k, Walk)}
<1>1. Bad = {}
  <2>1. SUFFICES ASSUME Bad # {} PROVE FALSE
    OBVIOUS
  <2>2. PICK k \in Bad : \A j \in Bad : k <= j
    <3>1. Bad \in SUBSET Nat
      OBVIOUS
    <3> HIDE DEF Bad
    <3>2. QED
      BY <2>1, <3>1, SmallestNumber
  <2>3. k \in 0 .. n /\ ~ \E Walk : Upto(k, Walk)
    OBVIOUS
  <2>4. k # 0
    <3> DEFINE stay == [at \in Words \X (0 .. n) |-> at[1]]
    <3>1. stay = [at \in Words \X (0 .. n) |-> stay[at]]
      OBVIOUS
    <3>2. \A at \in Words \X (0 .. 0) : stay[at] = at[1] /\ at[2] = 0
      OBVIOUS
    <3> HIDE DEF stay
    <3> HIDE DEF Step
    <3>3. Upto(0, stay)
      <4>1. \A at \in Words \X (0 .. 0) : stay[at] = Step(stay, at)
        BY <3>2 DEF Step
      <4>2. QED
        BY <3>1, <4>1
    <3> HIDE DEF Upto
    <3>4. QED
      BY <2>3, <3>3
  <2>5. k - 1 \in 0 .. n /\ k \in Nat
    BY <2>3, <2>4
  <2>6. PICK Walk : Upto(k - 1, Walk)
    <3> HIDE DEF Upto, Bad
    <3>1. k - 1 \notin Bad
      BY <2>2, <2>5
    <3> USE DEF Bad
    <3>2. QED
      BY <2>5, <3>1
  <2> DEFINE More == [at \in Words \X (0 .. n) |-> IF at[2] = k THEN Step(Walk, at) ELSE Walk[at]]
  <2>7. \A at \in Words \X (0 .. n) : More[at] = IF at[2] = k THEN Step(Walk, at) ELSE Walk[at]
    OBVIOUS
  <2>8. More = [at \in Words \X (0 .. n) |-> More[at]]
    OBVIOUS
  <2> HIDE DEF More
  <2>9. ASSUME NEW at \in Words \X (0 .. k)
        PROVE  More[at] = Step(More, at)
    <3>1. /\ at \in Words \X (0 .. n) /\ at[1] \in Words /\ at[2] \in 0 .. k
          /\ at[2] # k => at \in Words \X (0 .. (k - 1))
      BY <2>3, <2>5
    <3>2. Step(More, at) = Step(Walk, at)
      <4>1. ASSUME at[2] # 0, IsCell(at[1])
            PROVE  More[<<next[at[1]], at[2] - 1>>] = Walk[<<next[at[1]], at[2] - 1>>]
        <5>1. next[at[1]] \in Words
          BY <3>1, <4>1, SmallWords DEF Words
        <5>2. at[2] - 1 \in 0 .. n /\ at[2] - 1 # k
          BY <2>3, <3>1, <4>1
        <5>3. <<next[at[1]], at[2] - 1>> \in Words \X (0 .. n)
          BY <5>1, <5>2
        <5>4. QED
          BY <2>7, <5>2, <5>3
      <4>2. QED
        BY <4>1
    <3>3. More[at] = Step(Walk, at)
      BY <2>6, <2>7, <3>1
    <3>4. QED
      BY <3>2, <3>3
  <2>10. Upto(k, More)
    BY <2>8, <2>9
  <2> HIDE DEF Upto
  <2>11. QED
    BY <2>3, <2>10
<1>2. PICK Walk : Upto(n, Walk)
  <2>1. n \in 0 .. n
    OBVIOUS
  <2> HIDE DEF Upto
  <2>2. QED
    BY <1>1, <2>1
<1>3. Walks(next, n, Walk)
  BY <1>2 DEF Walks
<1>4. QED
  BY <1>3

\* A walk does not leave a closed set.
LEMMA WalkWithin ==
    ASSUME NEW next, NEW n \in Nat, NEW Walk, Walks(next, n, Walk),
           NEW S \in SUBSET Page, \A w \in S : next[w] \in Within(S)
    PROVE  \A e \in Within(S), k \in 0 .. n : Walk[<<e, k>>] \in Within(S)
<1> DEFINE Bad == {k \in 0 .. n : ~ \A e \in Within(S) : Walk[<<e, k>>] \in Within(S)}
<1>1. SUFFICES ASSUME Bad # {} PROVE FALSE
  OBVIOUS
<1>2. PICK k \in Bad : \A j \in Bad : k <= j
  <2>1. Bad \in SUBSET Nat
    OBVIOUS
  <2> HIDE DEF Bad
  <2>2. QED
    BY <1>1, <2>1, SmallestNumber
<1>3. PICK e \in Within(S) : Walk[<<e, k>>] \notin Within(S)
  OBVIOUS
<1>4. e \in Words /\ Illegal \in Within(S) /\ (e \in Page => e \in S) /\ k \in 0 .. n
  BY SmallWords DEF Within, Words, Elem, Page
<1>5. Walk[<<e, k>>] = IF k = 0 THEN e
                       ELSE IF IsCell(e) THEN Walk[<<next[e], k - 1>>]
                       ELSE Illegal
  <2>1. <<e, k>> \in Words \X (0 .. n)
    BY <1>4
  <2>2. QED
    BY <2>1 DEF Walks
<1>6. k # 0 /\ IsCell(e)
  BY <1>3, <1>4, <1>5
<1>7. next[e] \in Within(S)
  BY <1>4, <1>6, SmallWords
<1>8. k - 1 \in 0 .. n /\ k - 1 \notin Bad
  BY <1>2, <1>4, <1>6
<1>9. Walk[<<next[e], k - 1>>] \in Within(S)
  BY <1>7, <1>8
<1>10. QED
  BY <1>3, <1>5, <1>6, <1>9

\* Going down heads or tails of cells does not leave a closed set.
LEMMA DownWithin ==
    ASSUME page \in [Page -> Cell], NEW S \in SUBSET Page, Closed(page, S),
           NEW e \in Within(S), NEW n \in Nat
    PROVE  Down(Hd, e, n) \in Within(S) /\ Down(Tl, e, n) \in Within(S)
<1> DEFINE heads == [w \in Page |-> page[w].hd]
           tails == [w \in Page |-> page[w].tl]
           WH == CHOOSE Walk : Walk = [at \in (Elem \cup {Illegal}) \X (0 .. n) |->
                     IF at[2] = 0 THEN at[1]
                     ELSE IF IsCell(at[1])
                          THEN Walk[<<IF IsPcell(at[1]) THEN page[at[1]].hd ELSE Illegal, at[2] - 1>>]
                     ELSE Illegal]
           WT == CHOOSE Walk : Walk = [at \in (Elem \cup {Illegal}) \X (0 .. n) |->
                     IF at[2] = 0 THEN at[1]
                     ELSE IF IsCell(at[1])
                          THEN Walk[<<IF IsPcell(at[1]) THEN page[at[1]].tl ELSE Illegal, at[2] - 1>>]
                     ELSE Illegal]
<1>1. Down(Hd, e, n) = WH[<<e, n>>] /\ Down(Tl, e, n) = WT[<<e, n>>]
  BY DEF Down, Hd, Tl
<1>2. heads \in [Page -> Elem] /\ tails \in [Page -> Elem]
  BY DEF Cell
<1>3. \A w \in S : heads[w] \in Within(S) /\ tails[w] \in Within(S)
  <2>1. \A w \in S : /\ page[w].hd \in Elem /\ page[w].tl \in Elem
                     /\ page[w].hd \in Page => page[w].hd \in S
                     /\ page[w].tl \in Page => page[w].tl \in S
    BY DEF Cell, Closed, Children
  <2>2. QED
    BY <2>1, SmallWords DEF Within, Words
<1>4. \A w \in Words : IsCell(w) => heads[w] = page[w].hd /\ tails[w] = page[w].tl /\ IsPcell(w)
  BY SmallWords
<1>5. Walks(heads, n, WH)
  <2>1. PICK Walk : Walks(heads, n, Walk)
    BY <1>2, SomeWalk
  <2> HIDE DEF heads
  <2>2. ASSUME NEW W
        PROVE  Walks(heads, n, W) <=>
                  W = [at \in (Elem \cup {Illegal}) \X (0 .. n) |->
                     IF at[2] = 0 THEN at[1]
                     ELSE IF IsCell(at[1])
                          THEN W[<<IF IsPcell(at[1]) THEN page[at[1]].hd ELSE Illegal, at[2] - 1>>]
                     ELSE Illegal]
    <3>1. \A at \in Words \X (0 .. n) :
              IsCell(at[1]) => IsPcell(at[1]) /\ heads[at[1]] = page[at[1]].hd
      BY <1>4
    <3>2. [at \in Words \X (0 .. n) |->
                     IF at[2] = 0 THEN at[1]
                     ELSE IF IsCell(at[1]) THEN W[<<heads[at[1]], at[2] - 1>>]
                     ELSE Illegal]
           = [at \in Words \X (0 .. n) |->
                     IF at[2] = 0 THEN at[1]
                     ELSE IF IsCell(at[1])
                          THEN W[<<IF IsPcell(at[1]) THEN page[at[1]].hd ELSE Illegal, at[2] - 1>>]
                     ELSE Illegal]
      BY <3>1
    <3>3. QED
      BY <3>2 DEF Walks, Words
  <2>3. QED
    BY <2>1, <2>2
<1>6. Walks(tails, n, WT)
  <2>1. PICK Walk : Walks(tails, n, Walk)
    BY <1>2, SomeWalk
  <2> HIDE DEF tails
  <2>2. ASSUME NEW W
        PROVE  Walks(tails, n, W) <=>
                  W = [at \in (Elem \cup {Illegal}) \X (0 .. n) |->
                     IF at[2] = 0 THEN at[1]
                     ELSE IF IsCell(at[1])
                          THEN W[<<IF IsPcell(at[1]) THEN page[at[1]].tl ELSE Illegal, at[2] - 1>>]
                     ELSE Illegal]
    <3>1. \A at \in Words \X (0 .. n) :
              IsCell(at[1]) => IsPcell(at[1]) /\ tails[at[1]] = page[at[1]].tl
      BY <1>4
    <3>2. [at \in Words \X (0 .. n) |->
                     IF at[2] = 0 THEN at[1]
                     ELSE IF IsCell(at[1]) THEN W[<<tails[at[1]], at[2] - 1>>]
                     ELSE Illegal]
           = [at \in Words \X (0 .. n) |->
                     IF at[2] = 0 THEN at[1]
                     ELSE IF IsCell(at[1])
                          THEN W[<<IF IsPcell(at[1]) THEN page[at[1]].tl ELSE Illegal, at[2] - 1>>]
                     ELSE Illegal]
      BY <3>1
    <3>3. QED
      BY <3>2 DEF Walks, Words
  <2>3. QED
    BY <2>1, <2>2
<1> HIDE DEF heads, tails, WH, WT
<1>7. n \in 0 .. n
  OBVIOUS
<1>8. WH[<<e, n>>] \in Within(S)
  BY <1>3, <1>5, <1>7, WalkWithin
<1>9. WT[<<e, n>>] \in Within(S)
  BY <1>3, <1>6, <1>7, WalkWithin
<1>10. QED
  BY <1>1, <1>8, <1>9

\* The moves of a path element and what comes after it.
LEMMA PathElems ==
    ASSUME page \in [Page -> Cell], Acyclic(page), NEW w \in Page, IsPathElem(w)
    PROVE  /\ Hd(w) \in Page /\ TailCount(w) = CountOf(page)[Hd(w)]
           /\ TailCount(w) \in Nat /\ HeadCount(w) \in 0 .. 255
           /\ MovesOf(w) = [tail |-> TailCount(w), head |-> HeadCount(w)]
           /\ AfterElem(w) \in Page \cup {Null}
           /\ AfterElem(w) # Null =>
                  /\ Tl(w) \in Page /\ AfterElem(w) = Tl(Tl(w))
                  /\ AfterElem(w) \in Page
<1>1. \A u \in Page : Hd(u) = page[u].hd /\ Tl(u) = page[u].tl /\ Hd(u) \in Elem /\ Tl(u) \in Elem
  BY SmallWords DEF Hd, Tl, Cell
<1>2. \A u \in Words : Hd(u) \in Words /\ Tl(u) \in Words
  BY <1>1, SmallWords DEF Hd, Tl, Words
<1>3. TailCount(w) # Illegal /\ HeadCount(w) # Illegal /\ AfterElem(w) # Illegal
  BY DEF IsPathElem
<1>4. Hd(w) \in Page /\ TailCount(w) = CountOf(page)[Hd(w)]
  BY <1>1, <1>3, ParseCount, SmallWords DEF TailCount, Words
<1>5. TailCount(w) \in Nat
  BY <1>3, <1>4, CountWords
<1>6. HeadCount(w) \in 0 .. 255
  <2>1. IsAByte(HeadByte(w)) /\ HeadCount(w) = ByteValue(HeadByte(w))
    BY <1>3 DEF HeadCount
  <2>2. HeadByte(w) \in Words
    <3>1. w \in Words
      BY PageWords DEF Words
    <3>2. Tl(w) \in Words /\ Hd(Tl(w)) \in Words
      BY <1>2, <3>1
    <3>3. QED
      BY <3>2 DEF HeadByte, HdTl
  <2>3. HeadByte(w) \in 0 .. UNDEF
    BY <2>1, <2>2, SmallWords
  <2>4. QED
    <3>1. \A b \in Nat : b % 256 \in 0 .. 255
      OBVIOUS
    <3>2. QED
      BY <2>1, <2>3, <3>1, SmallWords DEF ByteValue
<1>7. /\ AfterElem(w) \in Page \cup {Null}
      /\ AfterElem(w) # Null => Tl(w) \in Page /\ AfterElem(w) = Tl(Tl(w)) /\ AfterElem(w) \in Page
  <2>1. CASE IsByte(Tl(w))
    BY <2>1 DEF AfterElem
  <2>2. CASE ~IsByte(Tl(w))
    <3>1. IsCell(Tl(Tl(w))) /\ AfterElem(w) = Tl(Tl(w))
      BY <1>3, <2>2 DEF AfterElem
    <3>2. Tl(Tl(w)) \in Page
      BY <1>1, <1>2, <3>1, SmallWords DEF Words
    <3>3. Tl(w) \in Page
      BY <1>1, <3>2, SmallWords DEF Tl, Words
    <3>4. QED
      BY <3>1, <3>2, <3>3
  <2>3. QED
    BY <2>1, <2>2
<1>8. QED
  BY <1>4, <1>5, <1>6, <1>7 DEF MovesOf

\* A path element leads nowhere outside of a closed set.
LEMMA BelowWithin ==
    ASSUME page \in [Page -> Cell], Acyclic(page), NEW S \in SUBSET Page, Closed(page, S),
           NEW e \in Within(S), NEW w \in Page, IsPathElem(w)
    PROVE  Below(e, w) \in Within(S)
<1>1. TailCount(w) \in Nat /\ HeadCount(w) \in Nat
  BY PathElems
<1>2. Down(Tl, e, TailCount(w)) \in Within(S)
  BY <1>1, DownWithin
<1> DEFINE d == Down(Tl, e, TailCount(w))
<1> HIDE DEF d
<1>3. Down(Hd, d, HeadCount(w)) \in Within(S)
  BY <1>1, <1>2, DownWithin DEF d
<1>4. QED
  BY <1>3 DEF d, Below

\* Going along a path, element by element.
GoStep(Go, at) ==
    IF at[2] = Null THEN at[1]
    ELSE IF ~IsPathElem(at[2]) \/ Below(at[1], at[2]) = Illegal THEN Illegal
    ELSE Go[<<Below(at[1], at[2]), AfterElem(at[2])>>]

Goes(Go) == Go = [at \in Words \X (Page \cup {Null}) |-> GoStep(Go, at)]

\* There is such a function: built up from the cells whose children are done.
LEMMA SomeGo ==
    ASSUME page \in [Page -> Cell], Acyclic(page)
    PROVE  \E Go : Goes(Go)
<1> DEFINE Done(S, Go) ==
               /\ Go = [at \in Words \X (Page \cup {Null}) |-> Go[at]]
               /\ \A at \in Words \X (S \cup {Null}) : Go[at] = GoStep(Go, at)
           G == {S \in SUBSET Page : Closed(page, S) /\ \E Go : Done(S, Go)}
<1>1. {} \in G
  <2> DEFINE stay == [at \in Words \X (Page \cup {Null}) |-> at[1]]
  <2>1. stay = [at \in Words \X (Page \cup {Null}) |-> stay[at]]
    OBVIOUS
  <2>2. \A at \in Words \X ({} \cup {Null}) : at[2] = Null /\ stay[at] = at[1]
    OBVIOUS
  <2> HIDE DEF stay
  <2>3. \A at \in Words \X ({} \cup {Null}) : stay[at] = GoStep(stay, at)
    BY <2>2 DEF GoStep
  <2>4. Done({}, stay) /\ Closed(page, {})
    BY <2>1, <2>3 DEF Closed
  <2> HIDE DEF Done
  <2>5. QED
    BY <2>4
<1>2. PICK S \in G : \A T \in G : S \subseteq T => T = S
  <2> HIDE DEF Done
  <2>1. G \in SUBSET (SUBSET Page) /\ G # {}
    BY <1>1
  <2> HIDE DEF G
  <2>2. QED
    BY <2>1, MaximalSet
<1>3. S \in SUBSET Page /\ Closed(page, S)
  OBVIOUS
<1>4. PICK Go : Done(S, Go)
  BY <1>2
<1>5. S = Page
  <2>1. SUFFICES ASSUME S # Page PROVE FALSE
    OBVIOUS
  <2>2. PICK c \in Page \ S : Children(page, c) \cap (Page \ S) = {}
    BY <1>3, <2>1 DEF Acyclic
  <2> DEFINE T == S \cup {c}
             More == [at \in Words \X (Page \cup {Null}) |->
                         IF at[2] = c THEN GoStep(Go, at) ELSE Go[at]]
  <2>3. Children(page, c) \subseteq S
    BY <2>2 DEF Children
  <2>4. Closed(page, T)
    BY <1>3, <2>3 DEF Closed
  <2>5. \A w \in T : IsPathElem(w) => AfterElem(w) \in S \cup {Null}
    <3>1. \A u \in Page : Tl(u) = page[u].tl
      BY SmallWords DEF Tl
    <3>2. \A u \in T : Tl(u) \in Page => Tl(u) \in S
      BY <1>3, <2>2, <2>3, <3>1 DEF Closed, Children
    <3>3. QED
      BY <1>3, <2>2, <3>2, PathElems
  <2>6. \A at \in Words \X (Page \cup {Null}) :
            More[at] = IF at[2] = c THEN GoStep(Go, at) ELSE Go[at]
    OBVIOUS
  <2>7. More = [at \in Words \X (Page \cup {Null}) |-> More[at]]
    OBVIOUS
  <2> HIDE DEF More
  <2>8. ASSUME NEW at \in Words \X (T \cup {Null})
        PROVE  More[at] = GoStep(More, at)
    <3>1. at[1] \in Words /\ at[2] \in T \cup {Null} /\ at \in Words \X (Page \cup {Null})
      BY <1>3, <2>2
    <3>2. ASSUME at[2] # Null, IsPathElem(at[2])
          PROVE  LET to == <<Below(at[1], at[2]), AfterElem(at[2])>>
                 IN  to \in Words \X (Page \cup {Null}) /\ More[to] = Go[to]
      <4>1. at[2] \in T /\ at[2] \in Page
        BY <1>3, <2>2, <3>1, <3>2
      <4>2. at[1] \in Within(Page) /\ Closed(page, Page)
        BY <3>1, SmallWords DEF Within, Words, Closed, Children
      <4>3. Below(at[1], at[2]) \in Within(Page)
        BY <3>2, <4>1, <4>2, BelowWithin
      <4>4. Below(at[1], at[2]) \in Words
        BY <4>3, SmallWords, PageWords DEF Within, Words
      <4>5. AfterElem(at[2]) \in S \cup {Null} /\ AfterElem(at[2]) # c
        BY <2>2, <2>5, <3>2, <4>1, SmallWords
      <4> DEFINE to == <<Below(at[1], at[2]), AfterElem(at[2])>>
      <4>6. to \in Words \X (Page \cup {Null}) /\ to[2] # c
        BY <1>3, <4>4, <4>5
      <4> HIDE DEF to
      <4>7. More[to] = Go[to]
        BY <2>6, <4>6
      <4>8. QED
        BY <4>6, <4>7 DEF to
    <3>3. GoStep(More, at) = GoStep(Go, at)
      BY <3>2 DEF GoStep
    <3>4. More[at] = GoStep(Go, at)
      <4>1. CASE at[2] = c
        BY <2>6, <3>1, <4>1
      <4>2. CASE at[2] # c
        <5>1. at \in Words \X (S \cup {Null})
          BY <3>1, <4>2
        <5>2. QED
          BY <1>4, <2>6, <3>1, <4>2, <5>1
      <4>3. QED
        BY <4>1, <4>2
    <3>5. QED
      BY <3>3, <3>4
  <2>9. Done(T, More)
    BY <2>7, <2>8
  <2> HIDE DEF Done
  <2>10. T \in G
    BY <1>3, <2>2, <2>4, <2>9
  <2>11. QED
    BY <1>2, <2>2, <2>10
<1>6. Goes(Go)
  BY <1>4, <1>5 DEF Goes
<1>7. QED
  BY <1>6

\* Going along a path does not leave a closed set.
LEMMA GoWithin ==
    ASSUME page \in [Page -> Cell], Acyclic(page), NEW Go, Goes(Go),
           NEW R \in SUBSET Page, Closed(page, R)
    PROVE  \A w \in Page \cup {Null} : \A e \in Within(R) : Go[<<e, w>>] \in Within(R)
<1> DEFINE B == {w \in Page : \A e \in Within(R) : Go[<<e, w>>] \in Within(R)}
<1>1. \A e \in Within(R) : e \in Words
  BY SmallWords, PageWords DEF Within, Words
<1>2. \A e \in Within(R), w \in Page \cup {Null} : Go[<<e, w>>] = GoStep(Go, <<e, w>>)
  BY <1>1 DEF Goes
<1>3. \A e \in Within(R) : Go[<<e, Null>>] = e
  BY <1>2 DEF GoStep
<1>4. ASSUME NEW S \in SUBSET B, Closed(page, S), NEW c \in Page, Children(page, c) \subseteq S
      PROVE  c \in B
  <2>1. SUFFICES ASSUME NEW e \in Within(R) PROVE Go[<<e, c>>] \in Within(R)
    OBVIOUS
  <2>2. Go[<<e, c>>] = IF ~IsPathElem(c) \/ Below(e, c) = Illegal THEN Illegal
                       ELSE Go[<<Below(e, c), AfterElem(c)>>]
    BY <1>2, SmallWords DEF GoStep
  <2>3. CASE ~IsPathElem(c)
    BY <2>2, <2>3 DEF Within
  <2>4. CASE IsPathElem(c)
    <3>1. Below(e, c) \in Within(R)
      BY <2>4, BelowWithin
    <3>2. AfterElem(c) \in S \cup {Null}
      <4>1. \A u \in Page : Tl(u) = page[u].tl
        BY SmallWords DEF Tl
      <4>2. Tl(c) \in Page => Tl(c) \in S
        BY <1>4, <4>1 DEF Children
      <4>3. Tl(c) \in Page /\ Tl(Tl(c)) \in Page => Tl(Tl(c)) \in S
        BY <1>4, <4>1, <4>2 DEF Closed, Children
      <4>4. QED
        BY <2>4, <4>3, PathElems
    <3>3. Go[<<Below(e, c), AfterElem(c)>>] \in Within(R)
      BY <1>3, <1>4, <3>1, <3>2
    <3>4. QED
      BY <2>2, <3>3 DEF Within
  <2>5. QED
    BY <2>3, <2>4
<1>5. B = Page
  <2> HIDE DEF B
  <2>1. B \in SUBSET Page
    BY DEF B
  <2>2. QED
    BY <1>4, <2>1, CellsInduction
<1>6. ASSUME NEW w \in Page PROVE \A e \in Within(R) : Go[<<e, w>>] \in Within(R)
  <2>1. w \in B
    BY <1>5
  <2>2. QED
    BY <2>1
<1> HIDE DEF B
<1>7. ASSUME NEW w \in Page \cup {Null}, NEW e \in Within(R)
      PROVE  Go[<<e, w>>] \in Within(R)
  <2>1. CASE w = Null
    BY <1>3, <2>1
  <2>2. CASE w \in Page
    BY <1>6, <2>2
  <2>3. QED
    BY <2>1, <2>2
<1>8. QED
  BY <1>7, Zenon

(***************************************************************************)
(* _select and _reduce give Illegal, or what their arguments lead to.      *)
(***************************************************************************)
LEMMA SelectWithin ==
    ASSUME page \in [Page -> Cell], Acyclic(page), NEW R \in SUBSET Page, Closed(page, R),
           NEW e \in Within(R), NEW path \in Words
    PROVE  _select(e, path) \in Within(R)
<1> DEFINE Go == CHOOSE Go : Goes(Go)
<1>1. _select(e, path) = IF IsCell(path) THEN Go[<<e, path>>] ELSE Illegal
  BY DEF _select, Goes, GoStep, Words
<1>2. Goes(Go)
  BY SomeGo
<1> HIDE DEF Go
<1>3. Illegal \in Within(R) /\ (IsCell(path) => path \in Page)
  BY SmallWords DEF Within
<1>4. QED
  BY <1>1, <1>2, <1>3, GoWithin

\* So does an expression.
LEMMA ReduceWithin ==
    ASSUME page \in [Page -> Cell], Acyclic(page), NEW R \in SUBSET Page, Closed(page, R),
           NEW e \in Within(R), NEW expr \in Within(R)
    PROVE  _reduce(e, expr) \in Within(R)
<1>1. expr \in Words /\ Illegal \in Within(R) /\ (IsCell(expr) => expr \in R)
  BY SmallWords, PageWords DEF Within, Words
<1>2. IsCell(expr) => Tl(expr) \in Within(R) /\ Tl(expr) \in Words
  BY <1>1, SmallWords DEF Tl, Cell, Closed, Children, Within, Words
<1>3. CASE ~IsCell(expr)
  BY <1>1, <1>3 DEF _reduce
<1>4. CASE IsCell(expr)
  <2>1. _select(e, Tl(expr)) \in Within(R)
    BY <1>2, <1>4, SelectWithin
  <2>2. QED
    BY <1>1, <1>2, <1>4, <2>1 DEF _reduce
<1>5. QED
  BY <1>3, <1>4

-----------------------------------------------------------------------------
(***************************************************************************)
(* Path elements on any page, for the step that changes it.                *)
(***************************************************************************)
CountAt(cells, w) == IF IsCell(w) THEN CountOf(cells)[w] ELSE Illegal

HeadAt(cells, w) == IF IsByte(TlOf(cells, w)) THEN TlOf(cells, w)
                    ELSE HdOf(cells, TlOf(cells, w))

AfterAt(cells, w) == IF IsByte(TlOf(cells, w)) THEN Null
                     ELSE IF IsCell(TlOf(cells, TlOf(cells, w)))
                          THEN TlOf(cells, TlOf(cells, w))
                     ELSE Illegal

ElemAt(cells, w) == /\ w \in Page
                    /\ CountAt(cells, HdOf(cells, w)) # Illegal
                    /\ IsAByte(HeadAt(cells, w))
                    /\ AfterAt(cells, w) # Illegal

MovesAt(cells, w) == CountAt(cells, HdOf(cells, w)) + ByteValue(HeadAt(cells, w))

\* On the page as it is they are the interpreter's own.
LEMMA ElemsHere ==
    ASSUME page \in [Page -> Cell], Acyclic(page)
    PROVE  /\ \A w \in Page : IsPathElem(w) <=> ElemAt(page, w)
           /\ \A w : AfterElem(w) = AfterAt(page, w)
           /\ \A w \in Page : IsPathElem(w) =>
                  /\ TailCount(w) \in Nat /\ HeadCount(w) \in 0 .. 255
                  /\ TailCount(w) = CountAt(page, Hd(w))
                  /\ TailCount(w) + HeadCount(w) = MovesAt(page, w)
<1>1. \A w : Hd(w) = HdOf(page, w) /\ Tl(w) = TlOf(page, w)
  BY DEF Hd, Tl, HdOf, TlOf
<1>2. \A w : TailCount(w) = CountAt(page, HdOf(page, w))
  BY <1>1, ParseCount DEF TailCount, CountAt
<1>3. \A w : HeadByte(w) = HeadAt(page, w)
  BY <1>1 DEF HeadByte, HeadAt, HdTl
<1>4. \A w : AfterElem(w) = AfterAt(page, w)
  BY <1>1 DEF AfterElem, AfterAt
<1>5. \A w : /\ HeadCount(w) = IF IsAByte(HeadAt(page, w)) THEN ByteValue(HeadAt(page, w))
                               ELSE Illegal
  BY <1>3 DEF HeadCount
<1>6. \A w \in Page : IsAByte(HeadAt(page, w)) => ByteValue(HeadAt(page, w)) # Illegal
  <2>1. TAKE w \in Page
  <2>2. TlOf(page, w) = page[w].tl /\ page[w].tl \in Elem
    BY SmallWords DEF TlOf, Cell
  <2>3. HeadAt(page, w) \in Words
    <3>1. \A u \in Elem : HdOf(page, u) \in Words
      BY SmallWords, PcellIsPage DEF HdOf, Words, Cell
    <3>2. QED
      BY <2>2, <3>1 DEF HeadAt, Words
  <2>4. IsAByte(HeadAt(page, w)) => HeadAt(page, w) \in 0 .. UNDEF
    BY <2>3, SmallWords
  <2>5. \A b \in 0 .. UNDEF : ByteValue(b) # Illegal
    BY SmallWords DEF ByteValue, Illegal
  <2>6. QED
    BY <2>4, <2>5
<1>7. \A w \in Page : IsPathElem(w) <=> ElemAt(page, w)
  BY <1>2, <1>4, <1>5, <1>6 DEF IsPathElem, ElemAt
<1>8. ASSUME NEW w \in Page, IsPathElem(w)
      PROVE  /\ TailCount(w) \in Nat /\ HeadCount(w) \in 0 .. 255
             /\ TailCount(w) = CountAt(page, Hd(w))
             /\ TailCount(w) + HeadCount(w) = MovesAt(page, w)
  <2>1. TailCount(w) \in Nat /\ HeadCount(w) \in 0 .. 255
    BY <1>8, PathElems
  <2>2. HeadCount(w) = ByteValue(HeadAt(page, w))
    BY <1>5, <1>7, <1>8 DEF ElemAt
  <2>3. QED
    BY <1>1, <1>2, <2>1, <2>2 DEF MovesAt
<1>9. QED
  BY <1>4, <1>7, <1>8

\* A path element reads the same on pages that agree on what it leads to.
LEMMA SameElems ==
    ASSUME NEW cells \in [Page -> Cell], Acyclic(cells),
           NEW cells2 \in [Page -> Cell], Acyclic(cells2),
           NEW S \in SUBSET Page, Closed(cells, S), \A c \in S : cells2[c] = cells[c]
    PROVE  /\ \A w \in S : CountAt(cells2, w) = CountAt(cells, w)
           /\ \A w \in S : /\ ElemAt(cells2, w) <=> ElemAt(cells, w)
                           /\ AfterAt(cells2, w) = AfterAt(cells, w)
                           /\ MovesAt(cells2, w) = MovesAt(cells, w)
                           /\ AfterAt(cells, w) \in Page => AfterAt(cells, w) \in S
<1>1. \A w \in Elem \cup {Illegal} : IsPcell(w) => w \in Page
  BY SmallWords DEF Words
<1>2. \A w \in S : /\ HdOf(cells, w) = cells[w].hd /\ TlOf(cells, w) = cells[w].tl
                   /\ HdOf(cells2, w) = HdOf(cells, w) /\ TlOf(cells2, w) = TlOf(cells, w)
                   /\ HdOf(cells, w) \in Elem /\ TlOf(cells, w) \in Elem
                   /\ HdOf(cells, w) \in Page => HdOf(cells, w) \in S
                   /\ TlOf(cells, w) \in Page => TlOf(cells, w) \in S
  <2>1. \A w \in S : IsPcell(w) /\ cells[w].hd \in Elem /\ cells[w].tl \in Elem
                       /\ (cells[w].hd \in Page => cells[w].hd \in S)
                       /\ (cells[w].tl \in Page => cells[w].tl \in S)
    BY SmallWords DEF Cell, Closed, Children
  <2>2. QED
    BY <2>1 DEF HdOf, TlOf
<1>3. \A w \in Elem : w \notin Page => /\ HdOf(cells2, w) = HdOf(cells, w)
                                       /\ TlOf(cells2, w) = TlOf(cells, w)
                                       /\ CountAt(cells2, w) = CountAt(cells, w)
  <2>1. \A w \in Elem : w \notin Page => ~IsPcell(w) /\ ~IsCell(w)
    BY SmallWords DEF Words
  <2>2. QED
    BY <2>1 DEF HdOf, TlOf, CountAt
<1>4. \A w \in S : CountAt(cells2, w) = CountAt(cells, w)
  BY SameCounts DEF CountAt
<1>5. \A w \in S : CountAt(cells2, HdOf(cells2, w)) = CountAt(cells, HdOf(cells, w))
  BY <1>2, <1>3, <1>4
<1>6. \A w \in S : HeadAt(cells2, w) = HeadAt(cells, w)
  BY <1>2, <1>3 DEF HeadAt
<1>7. \A w \in S : /\ AfterAt(cells2, w) = AfterAt(cells, w)
                   /\ AfterAt(cells, w) \in Page => AfterAt(cells, w) \in S
  <2>1. TAKE w \in S
  <2>2. TlOf(cells2, TlOf(cells2, w)) = TlOf(cells, TlOf(cells, w))
    BY <1>2, <1>3
  <2>3. TlOf(cells, w) \notin Page => TlOf(cells, TlOf(cells, w)) = Illegal
    BY <1>1, <1>2 DEF TlOf
  <2>4. TlOf(cells, TlOf(cells, w)) \in Page => TlOf(cells, TlOf(cells, w)) \in S
    BY <1>2, <2>3, SmallWords
  <2>5. QED
    BY <1>2, <2>2, <2>4, SmallWords DEF AfterAt
<1>8. QED
  BY <1>4, <1>5, <1>6, <1>7 DEF ElemAt, MovesAt

-----------------------------------------------------------------------------
(***************************************************************************)
(* The way back up of _graft.  The route r holds a cell for each move, n   *)
(* of them of a path element already taken apart, then those of the        *)
(* elements of the reversed path q.                                        *)
(***************************************************************************)
Unwinds(cells, r, q, n) ==
    \E S \in SUBSET (Elem \X (Page \cup {Null}) \X Nat) :
        /\ <<r, q, n>> \in S
        /\ \A s \in Elem, p \in Page \cup {Null}, m \in Nat :
               <<s, p, m>> \in S =>
                   IF m > 0 THEN s \in Page /\ <<cells[s].tl, p, m - 1>> \in S
                   ELSE IF p = Null THEN s = UNDEF
                   ELSE ElemAt(cells, p) /\ <<s, AfterAt(cells, p), MovesAt(cells, p)>> \in S

\* No element, no route.
LEMMA UnwindsNothing ==
    ASSUME NEW cells PROVE Unwinds(cells, UNDEF, Null, 0)
<1> DEFINE S == {<<UNDEF, Null, 0>>}
<1>1. S \in SUBSET (Elem \X (Page \cup {Null}) \X Nat) /\ <<UNDEF, Null, 0>> \in S
  BY PageWords
<1>2. \A s \in Elem, p \in Page \cup {Null}, m \in Nat :
          <<s, p, m>> \in S => m = 0 /\ p = Null /\ s = UNDEF
  OBVIOUS
<1> HIDE DEF S
<1>3. QED
  BY <1>1, <1>2 DEF Unwinds

\* What a route has for the moves left, and behind them.
LEMMA UnwindsOn ==
    ASSUME NEW cells, NEW r, NEW q, NEW n, Unwinds(cells, r, q, n)
    PROVE  /\ r \in Elem /\ q \in Page \cup {Null} /\ n \in Nat
           /\ n > 0 => r \in Page /\ Unwinds(cells, cells[r].tl, q, n - 1)
           /\ n = 0 /\ q = Null => r = UNDEF
           /\ n = 0 /\ q # Null =>
                 ElemAt(cells, q) /\ Unwinds(cells, r, AfterAt(cells, q), MovesAt(cells, q))
<1>1. PICK S \in SUBSET (Elem \X (Page \cup {Null}) \X Nat) :
        /\ <<r, q, n>> \in S
        /\ \A s \in Elem, p \in Page \cup {Null}, m \in Nat :
               <<s, p, m>> \in S =>
                   IF m > 0 THEN s \in Page /\ <<cells[s].tl, p, m - 1>> \in S
                   ELSE IF p = Null THEN s = UNDEF
                   ELSE ElemAt(cells, p) /\ <<s, AfterAt(cells, p), MovesAt(cells, p)>> \in S
  BY DEF Unwinds
<1>2. r \in Elem /\ q \in Page \cup {Null} /\ n \in Nat
  BY <1>1
<1>3. IF n > 0 THEN r \in Page /\ <<cells[r].tl, q, n - 1>> \in S
      ELSE IF q = Null THEN r = UNDEF
      ELSE ElemAt(cells, q) /\ <<r, AfterAt(cells, q), MovesAt(cells, q)>> \in S
  BY <1>1, <1>2
<1>4. \A s, p, m : <<s, p, m>> \in S => Unwinds(cells, s, p, m)
  BY <1>1 DEF Unwinds
<1>5. QED
  BY <1>2, <1>3, <1>4

\* A move down puts a cell on the route.
LEMMA UnwindsPush ==
    ASSUME NEW cells, NEW r \in Page, NEW q, NEW n, Unwinds(cells, cells[r].tl, q, n)
    PROVE  Unwinds(cells, r, q, n + 1)
<1>1. PICK S \in SUBSET (Elem \X (Page \cup {Null}) \X Nat) :
        /\ <<cells[r].tl, q, n>> \in S
        /\ \A s \in Elem, p \in Page \cup {Null}, m \in Nat :
               <<s, p, m>> \in S =>
                   IF m > 0 THEN s \in Page /\ <<cells[s].tl, p, m - 1>> \in S
                   ELSE IF p = Null THEN s = UNDEF
                   ELSE ElemAt(cells, p) /\ <<s, AfterAt(cells, p), MovesAt(cells, p)>> \in S
  BY DEF Unwinds
<1> DEFINE T == S \cup {<<r, q, n + 1>>}
<1>2. q \in Page \cup {Null} /\ n \in Nat /\ n + 1 \in Nat /\ n + 1 > 0 /\ (n + 1) - 1 = n
  BY <1>1
<1>3. T \in SUBSET (Elem \X (Page \cup {Null}) \X Nat) /\ <<r, q, n + 1>> \in T
  BY <1>2, PageWords
<1>4. ASSUME NEW s \in Elem, NEW p \in Page \cup {Null}, NEW m \in Nat, <<s, p, m>> \in T
      PROVE  IF m > 0 THEN s \in Page /\ <<cells[s].tl, p, m - 1>> \in T
             ELSE IF p = Null THEN s = UNDEF
             ELSE ElemAt(cells, p) /\ <<s, AfterAt(cells, p), MovesAt(cells, p)>> \in T
  <2>1. CASE <<s, p, m>> \in S
    BY <1>1, <2>1
  <2>2. CASE s = r /\ p = q /\ m = n + 1
    BY <1>1, <1>2, <2>2
  <2>3. QED
    BY <1>4, <2>1, <2>2
<1> HIDE DEF T
<1>5. QED
  BY <1>3, <1>4 DEF Unwinds

\* A path element whose moves are all on the route is part of the reversed path.
LEMMA UnwindsElem ==
    ASSUME NEW cells, NEW r, NEW q, ElemAt(cells, q),
           Unwinds(cells, r, AfterAt(cells, q), MovesAt(cells, q))
    PROVE  Unwinds(cells, r, q, 0)
<1>1. PICK S \in SUBSET (Elem \X (Page \cup {Null}) \X Nat) :
        /\ <<r, AfterAt(cells, q), MovesAt(cells, q)>> \in S
        /\ \A s \in Elem, p \in Page \cup {Null}, m \in Nat :
               <<s, p, m>> \in S =>
                   IF m > 0 THEN s \in Page /\ <<cells[s].tl, p, m - 1>> \in S
                   ELSE IF p = Null THEN s = UNDEF
                   ELSE ElemAt(cells, p) /\ <<s, AfterAt(cells, p), MovesAt(cells, p)>> \in S
  BY DEF Unwinds
<1> DEFINE T == S \cup {<<r, q, 0>>}
<1>2. r \in Elem /\ q \in Page /\ q # Null
  BY <1>1, SmallWords DEF ElemAt
<1>3. T \in SUBSET (Elem \X (Page \cup {Null}) \X Nat) /\ <<r, q, 0>> \in T
  BY <1>2
<1>4. ASSUME NEW s \in Elem, NEW p \in Page \cup {Null}, NEW m \in Nat, <<s, p, m>> \in T
      PROVE  IF m > 0 THEN s \in Page /\ <<cells[s].tl, p, m - 1>> \in T
             ELSE IF p = Null THEN s = UNDEF
             ELSE ElemAt(cells, p) /\ <<s, AfterAt(cells, p), MovesAt(cells, p)>> \in T
  <2>1. CASE <<s, p, m>> \in S
    BY <1>1, <2>1
  <2>2. CASE s = r /\ p = q /\ m = 0
    BY <1>1, <1>2, <2>2
  <2>3. QED
    BY <1>4, <2>1, <2>2
<1> HIDE DEF T
<1>5. QED
  BY <1>3, <1>4 DEF Unwinds

\* A page that has kept what the route and the path lead to unwinds as before.
LEMMA UnwindsKept ==
    ASSUME NEW cells \in [Page -> Cell], Acyclic(cells),
           NEW cells2 \in [Page -> Cell], Acyclic(cells2),
           NEW R \in SUBSET Page, Closed(cells, R), \A c \in R : cells2[c] = cells[c],
           NEW r, NEW q, NEW n, Unwinds(cells, r, q, n),
           r \in Page => r \in R, q \in Page => q \in R
    PROVE  Unwinds(cells2, r, q, n)
<1>1. PICK S \in SUBSET (Elem \X (Page \cup {Null}) \X Nat) :
        /\ <<r, q, n>> \in S
        /\ \A s \in Elem, p \in Page \cup {Null}, m \in Nat :
               <<s, p, m>> \in S =>
                   IF m > 0 THEN s \in Page /\ <<cells[s].tl, p, m - 1>> \in S
                   ELSE IF p = Null THEN s = UNDEF
                   ELSE ElemAt(cells, p) /\ <<s, AfterAt(cells, p), MovesAt(cells, p)>> \in S
  BY DEF Unwinds
<1> DEFINE Mine(s, p) == (s \in Page => s \in R) /\ (p \in Page => p \in R)
           T == {x \in S : Mine(x[1], x[2])}
<1>2. T \in SUBSET (Elem \X (Page \cup {Null}) \X Nat)
  OBVIOUS
<1>3. \A s, p, m : <<s, p, m>> \in T <=> <<s, p, m>> \in S /\ Mine(s, p)
  OBVIOUS
<1> HIDE DEF T
<1>4. <<r, q, n>> \in T
  BY <1>1, <1>3
<1>5. ASSUME NEW s \in Elem, NEW p \in Page \cup {Null}, NEW m \in Nat, <<s, p, m>> \in T
      PROVE  IF m > 0 THEN s \in Page /\ <<cells2[s].tl, p, m - 1>> \in T
             ELSE IF p = Null THEN s = UNDEF
             ELSE ElemAt(cells2, p) /\ <<s, AfterAt(cells2, p), MovesAt(cells2, p)>> \in T
  <2>1. <<s, p, m>> \in S /\ Mine(s, p)
    BY <1>3, <1>5
  <2>2. CASE m > 0
    <3>1. s \in Page /\ s \in R /\ <<cells[s].tl, p, m - 1>> \in S
      BY <1>1, <2>1, <2>2
    <3>2. cells2[s] = cells[s] /\ (cells[s].tl \in Page => cells[s].tl \in R)
      BY <3>1 DEF Closed, Children
    <3>3. QED
      BY <1>3, <2>1, <2>2, <3>1, <3>2
  <2>3. CASE ~(m > 0)
    <3>1. SUFFICES ASSUME p # Null
                   PROVE  /\ ElemAt(cells2, p)
                          /\ <<s, AfterAt(cells2, p), MovesAt(cells2, p)>> \in T
      BY <1>1, <2>1, <2>3
    <3>2. p \in R /\ ElemAt(cells, p) /\ <<s, AfterAt(cells, p), MovesAt(cells, p)>> \in S
      BY <1>1, <2>1, <2>3, <3>1
    <3>3. /\ ElemAt(cells2, p) /\ AfterAt(cells2, p) = AfterAt(cells, p)
          /\ MovesAt(cells2, p) = MovesAt(cells, p)
          /\ AfterAt(cells, p) \in Page => AfterAt(cells, p) \in R
      BY <3>2, SameElems
    <3>4. QED
      BY <1>3, <2>1, <3>2, <3>3
  <2>4. QED
    BY <2>2, <2>3
<1> HIDE DEF Mine
<1>6. QED
  BY <1>2, <1>4, <1>5 DEF Unwinds

-----------------------------------------------------------------------------
(***************************************************************************)
(* What holds at each place of the interpreter while the process runs.     *)
(***************************************************************************)
Evaluating == {"first", "next", "advance"}
Reversing  == {"reverse", "prepend", "reversed"}
Walking    == {"walk", "push", "move"}
Rebuilding == {"rebuild", "rebuilt", "pop"}
Grafting   == {"pathElem", "parse", "rpthElem"} \cup Reversing \cup Walking \cup Rebuilding

\* The words that the last answer and the shell's definition lead to.
Given == {ret} \cup {val[x] : x \in roots \cap {"defn"}}

Base == 0 .. UNDEF \cup Reach(page, Given)

GraftInit == [v |-> raw.env, e |-> raw.elem, p |-> raw.path,
              route |-> UNDEF, rpth |-> Null, tcells |-> Null]

\* Which auto_roots are registered.
RootsOK ==
    /\ pc \in {"operator", "loop"} => roots \subseteq {"defn"}
    /\ pc \in Evaluating => {"v", "exprs"} \subseteq roots
    /\ pc \in Grafting => DOMAIN GraftInit \subseteq roots

\* A plain local holds what the last answer or the definition leads to, but for
\* the continuation of a graft statement.
RawOK ==
    /\ raw \in [DOMAIN NoRaw -> Elem]
    /\ pc = "loop" \/ raw.kont # UNDEF => op = "!"
    /\ \A f \in DOMAIN NoRaw :
          \/ raw[f] = UNDEF
          \/ IF pc \in Grafting \cup {"grafted"} THEN f = "kont"
             ELSE raw[f] \in Base /\ (pc \in Evaluating \cup {"built"} => f = "t")

\* A frame half registered holds its arguments.
EnterOK ==
    /\ pc = "evaluate" => /\ raw.expr \in Page /\ raw.kont = UNDEF
                          /\ "v" \in roots => val["v"] = raw.env
    /\ pc = "graft" => /\ raw.path \in Page
                       /\ \A x \in DOMAIN GraftInit \cap roots : val[x] = GraftInit[x]

\* There is an expression left, and the values built so far are the last answer.
EvaluateOK ==
    /\ pc \in Evaluating => val["exprs"] \in Page
    /\ pc = "first" => val["v"] \in Base /\ val["exprs"] \in Base
    /\ pc \in {"advance", "built"} => raw.t = ret

\* The path element that _graft is at, and the one it puts on the reversed path.
GraftOK ==
    /\ left \in [tail : Nat, head : Nat]
    /\ pc \in Grafting => val["p"] \in Page \cup {Null} /\ val["rpth"] \in Page \cup {Null}
    /\ pc = "parse" => val["p"] \in Page /\ val["tcells"] = Hd(val["p"])
    /\ pc \in Reversing \cup {"parse"} => val["tcells"] \in Page
    /\ pc \in Reversing => left.tail = CountAt(page, val["tcells"]) /\ left.head \in 0 .. 255
    /\ pc = "prepend" => /\ val["rpth"] \in Page /\ ret \in Page
                         /\ page[ret] = [hd |-> NewByte(left.head, 0), tl |-> val["rpth"]]
    /\ pc = "reversed" => /\ ElemAt(page, ret) /\ AfterAt(page, ret) = val["rpth"]
                          /\ MovesAt(page, ret) = left.tail + left.head
    /\ pc \in Walking => ElemAt(page, val["rpth"])
    /\ pc \in {"push", "move"} => val["v"] \in Page /\ left # NoMoves
    /\ pc = "push" => ret \in Page /\ page[ret].tl = val["route"]
    /\ pc \in {"rebuilt", "pop"} => left # NoMoves

\* The cells passed on the way down are on the route, one for each move.
UnwindOK ==
    /\ pc \in {"pathElem", "parse", "rpthElem"} \cup Reversing =>
          Unwinds(page, val["route"], val["rpth"], 0)
    /\ pc \in Walking =>
          Unwinds(page, val["route"], AfterAt(page, val["rpth"]),
                  MovesAt(page, val["rpth"]) - left.tail - left.head
                      + (IF pc = "move" THEN 1 ELSE 0))
    /\ pc \in Rebuilding => Unwinds(page, val["route"], val["rpth"], left.tail + left.head)

Control ==
    stale = FALSE /\ RootsOK /\ RawOK /\ EnterOK /\ EvaluateOK /\ GraftOK /\ UnwindOK

Inv == Memory /\ (status = "running" => Control)

\* What the interpreter has in hand, in its variables or from the shell leads
\* only to words it may use.
LEMMA BaseWords ==
    ASSUME Memory
    PROVE  /\ Base \subseteq Usable /\ Usable \subseteq Elem
           /\ 0 .. UNDEF \subseteq Base /\ UNDEF \in Base
           /\ ret \in Base /\ ("defn" \in roots => val["defn"] \in Base)
           /\ \A x \in roots : val[x] \in Usable
           /\ \A w \in Page : w \in Usable => w \in Live
           /\ \A c \in Page \cap Usable : Hd(c) \in Usable /\ Tl(c) \in Usable
           /\ \A c \in Page \cap Base : Hd(c) \in Base /\ Tl(c) \in Base
           /\ \A e, expr \in Usable : _reduce(e, expr) \in Usable \cup {Illegal}
           /\ \A e, expr \in Base : /\ _reduce(e, expr) \in Base \cup {Illegal}
                                    /\ _select(e, expr) \in Base \cup {Illegal}
<1>1. /\ page \in [Page -> Cell] /\ Acyclic(page) /\ val \in [Vars -> Elem]
      /\ roots \subseteq Vars /\ ret \in Elem
  BY MemoryTypes
<1> DEFINE held == {val[x] : x \in roots} \cup {ret}
           R == Reach(page, Given)
<1>2. /\ Live \in SUBSET Page /\ Closed(page, Live) /\ held \cap Page \subseteq Live
      /\ R \in SUBSET Page /\ Closed(page, R) /\ Given \cap Page \subseteq R
  BY ReachClosed, ReachHoldsWords DEF Live
<1>3. R \subseteq Live
  <2>1. Given \subseteq held
    BY DEF Given
  <2> HIDE DEF held
  <2>2. QED
    BY <2>1, ReachMonotone DEF Live, held
<1>4. Base = 0 .. UNDEF \cup R /\ Usable = 0 .. UNDEF \cup Live
  BY DEF Base, Usable
<1>5. UNDEF \in 0 .. UNDEF /\ 0 .. UNDEF \subseteq Elem /\ Page \subseteq Elem
        /\ \A w \in Elem : w \in Page \/ w \in 0 .. UNDEF
  BY SmallWords, PageWords DEF Words
<1>6. \A w \in held : w \in Elem /\ w \in Usable
  BY <1>1, <1>2, <1>4, <1>5
<1>7. \A w \in Given : w \in Elem /\ w \in Base
  <2>1. Given \subseteq held
    BY DEF Given
  <2>2. QED
    BY <1>2, <1>4, <1>5, <1>6, <2>1
<1>8. ret \in Given /\ ("defn" \in roots => val["defn"] \in Given)
  BY DEF Given
<1>9. \A w \in Page : /\ w \in Usable => w \in Live
                      /\ w \in Base => w \in R
  BY <1>4, SmallWords
<1> HIDE DEF R, held
<1>10. \A c \in Page : /\ Hd(c) = page[c].hd /\ Tl(c) = page[c].tl
                       /\ Hd(c) \in Elem /\ Tl(c) \in Elem
  BY <1>1, SmallWords DEF Hd, Tl, Cell
<1>11. \A c \in Page \cap Usable : Hd(c) \in Usable /\ Tl(c) \in Usable
  BY <1>2, <1>4, <1>5, <1>9, <1>10 DEF Closed, Children
<1>12. \A c \in Page \cap Base : Hd(c) \in Base /\ Tl(c) \in Base
  BY <1>2, <1>4, <1>5, <1>9, <1>10 DEF Closed, Children
<1>13. Within(Live) = Usable \cup {Illegal} /\ Within(R) = Base \cup {Illegal}
  BY <1>4 DEF Within
<1>14. \A e, expr \in Usable : _reduce(e, expr) \in Usable \cup {Illegal}
  BY <1>1, <1>2, <1>13, ReduceWithin
<1>15. \A e, expr \in Base : _reduce(e, expr) \in Base \cup {Illegal}
  BY <1>1, <1>2, <1>13, ReduceWithin
<1>16. \A e, expr \in Base : _select(e, expr) \in Base \cup {Illegal}
  <2>1. \A e, expr \in Base : e \in Within(R) /\ expr \in Words
    BY <1>2, <1>4, <1>5, <1>13 DEF Words
  <2>2. QED
    BY <1>1, <1>2, <1>13, <2>1, SelectWithin
<1>17. Base \subseteq Usable /\ Usable \subseteq Elem
  BY <1>2, <1>3, <1>4, <1>5
<1>18. \A x \in roots : val[x] \in Usable
  BY <1>6 DEF held
<1>19. 0 .. UNDEF \subseteq Base /\ UNDEF \in Base /\ ret \in Base
         /\ ("defn" \in roots => val["defn"] \in Base)
  BY <1>4, <1>5, <1>7, <1>8
<1>20. QED
  BY <1>9, <1>11, <1>12, <1>14, <1>15, <1>16, <1>17, <1>18, <1>19

-----------------------------------------------------------------------------
(***************************************************************************)
(* What the calls of the allocator leave, one lemma for each.              *)
(***************************************************************************)
\* The variables of the interpreter, but for what the shell registered.
Own == Vars \ {"defn"}

\* The given words lead where they did as long as the page and they stay.
LEMMA BaseKept ==
    ASSUME page' = page, ret' = ret,
           roots' \cap {"defn"} = roots \cap {"defn"}, val'["defn"] = val["defn"]
    PROVE  Base' = Base
<1>1. {val'[x] : x \in roots' \cap {"defn"}} = {val[x] : x \in roots \cap {"defn"}}
  OBVIOUS
<1>2. Given' = Given
  BY <1>1 DEF Given
<1>3. QED
  BY <1>2 DEF Base

\* auto_root's constructor
LEMMA AddRootLeaves ==
    ASSUME Memory, NEW x \in Own, NEW e \in WordsOf(x), Allocator!AddRoot(x, e)
    PROVE  /\ ClientStep
           /\ page' = page /\ ret' = ret /\ stale' = stale /\ Base' = Base
           /\ val' = [val EXCEPT ![x] = e] /\ roots' = roots \cup {x} /\ x \notin roots
<1>1. ClientStep
  BY DEF ClientStep, Own
<1>2. /\ page' = page /\ ret' = ret /\ stale' = stale
      /\ val' = [val EXCEPT ![x] = e] /\ roots' = roots \cup {x} /\ x \notin roots
  BY DEF Allocator!AddRoot
<1>3. val'["defn"] = val["defn"] /\ roots' \cap {"defn"} = roots \cap {"defn"}
  BY <1>2, MemoryTypes DEF Own, Vars, ElemVars
<1>4. QED
  BY <1>1, <1>2, <1>3, BaseKept

\* auto_root's assignment
LEMMA AssignLeaves ==
    ASSUME Memory, NEW x \in Own, NEW e \in WordsOf(x), Assign(x, e)
    PROVE  /\ ClientStep
           /\ page' = page /\ ret' = ret /\ stale' = stale /\ Base' = Base
           /\ val' = [val EXCEPT ![x] = e] /\ roots' = roots
<1>1. ClientStep
  BY DEF ClientStep, Own, Assign
<1>2. /\ page' = page /\ ret' = ret /\ stale' = stale
      /\ val' = [val EXCEPT ![x] = e] /\ roots' = roots
  BY DEF Assign, Allocator!Assign
<1>3. val'["defn"] = val["defn"]
  BY <1>2, MemoryTypes DEF Own, Vars, ElemVars
<1>4. QED
  BY <1>1, <1>2, <1>3, BaseKept

\* auto_root's destructor
LEMMA DelRootLeaves ==
    ASSUME Memory, NEW x \in Own, Allocator!DelRoot(x)
    PROVE  /\ ClientStep
           /\ page' = page /\ ret' = ret /\ stale' = stale /\ Base' = Base
           /\ roots' = roots \ {x}
<1>1. ClientStep
  BY DEF ClientStep, Own
<1>2. /\ page' = page /\ ret' = ret /\ stale' = stale
      /\ val' = [val EXCEPT ![x] = Allocator!Empty(x)] /\ roots' = roots \ {x}
  BY DEF Allocator!DelRoot
<1>3. val'["defn"] = val["defn"] /\ roots' \cap {"defn"} = roots \cap {"defn"}
  BY <1>2, MemoryTypes DEF Own, Vars, ElemVars
<1>4. QED
  BY <1>1, <1>2, <1>3, BaseKept

\* the release of the auto_root v by _graft's return statement
LEMMA ReturnRootLeaves ==
    ASSUME Memory, Allocator!ReturnRoot("v")
    PROVE  ClientStep /\ page' = page /\ stale' = stale
<1>1. "v" \in Vars
  BY DEF Vars, ElemVars
<1>2. QED
  BY <1>1 DEF ClientStep, Allocator!ReturnRoot

\* What the variables and the new cell lead to.
Kept(h, t) == Reach(page, {val[x] : x \in roots} \cup {h, t})

\* A new cell is a client's, whatever comes of it.
LEMMA NewIsClient ==
    ASSUME NEW h \in Usable, NEW t \in Usable, NEW continue, new_Cell(h, t, continue)
    PROVE  /\ ClientStep
           /\ status' = "running" => continue
BY DEF ClientStep, Cons, new_Cell

\* The page is in order, and the last answer is in hand.
LEMMA MemoryGives == Memory => page \in [Page -> Cell] /\ Acyclic(page) /\ ret \in Base
BY MemoryTypes, BaseWords

\* new_Cell leaves what the variables lead to as it was.
LEMMA NewLeaves ==
    ASSUME Memory, stale = FALSE, status' = "running",
           NEW h \in Usable, NEW t \in Usable, NEW continue, new_Cell(h, t, continue)
    PROVE  /\ ret' \in Page /\ page'[ret'] = [hd |-> h, tl |-> t]
           /\ val' = val /\ roots' = roots /\ stale' = FALSE
           /\ page' \in [Page -> Cell] /\ Acyclic(page') /\ ret' \in Base'
           /\ Kept(h, t) \in SUBSET Page /\ Closed(page, Kept(h, t))
           /\ \A c \in Kept(h, t) : page'[c] = page[c]
           /\ \A x \in roots : val[x] \in Page => val[x] \in Kept(h, t)
           /\ h \in Page => h \in Kept(h, t)
           /\ t \in Page => t \in Kept(h, t)
<1>1. Cons(h, t)
  BY DEF Cons, new_Cell
<1>2. /\ ret' \in Page
      /\ page'[ret'] = [hd |-> h, tl |-> t]
      /\ \A c \in Reach(page, {val[x] : x \in roots} \cup {h, t}) :
             c \in Live' /\ page'[c] = page[c]
      /\ val' = val /\ roots' = roots /\ stale' = FALSE
  BY <1>1, NewCellLeaves, Zenon
<1>3. ({val[x] : x \in roots} \cup {h, t}) \cap Page \subseteq Kept(h, t)
        /\ Kept(h, t) \in SUBSET Page /\ Closed(page, Kept(h, t))
  BY ReachClosed, ReachHoldsWords DEF Kept
<1>4. Memory'
  BY NewIsClient, MemoryStep
<1>5. (Memory => page \in [Page -> Cell] /\ Acyclic(page) /\ ret \in Base)'
  BY MemoryGives, PTL
<1>6. \A c \in Kept(h, t) : page'[c] = page[c]
  BY <1>2, Zenon DEF Kept
<1>7. QED
  BY <1>2, <1>3, <1>4, <1>5, <1>6

-----------------------------------------------------------------------------
(***************************************************************************)
(* Every action of the interpreter is a step of a client that keeps the    *)
(* discipline, and keeps Control.                                          *)
(***************************************************************************)
Sound == /\ ClientStep \/ UNCHANGED mem
         /\ status' = "running" => Control'

\* The unregistered locals, none of them in use.
LEMMA NoRawFields ==
    /\ DOMAIN NoRaw = {"state", "env", "elem", "expr", "path", "kont", "t"}
    /\ NoRaw \in [DOMAIN NoRaw -> {UNDEF}]
BY DEF NoRaw

\* Between two operators and at the end the interpreter holds one word.
LEMMA Resting ==
    ASSUME Control, stale' = FALSE, left' = left,
           pc' \in {"loop", "done", "unwind", "error"},
           pc' = "loop" => roots' \subseteq {"defn"} /\ op' = "!",
           \E w \in Elem : (w \in Base' \/ w = UNDEF) /\ raw' = [NoRaw EXCEPT !.state = w]
    PROVE  Control'
<1>1. PICK w \in Elem : (w \in Base' \/ w = UNDEF) /\ raw' = [NoRaw EXCEPT !.state = w]
  OBVIOUS
<1>2. RootsOK'
  BY DEF RootsOK, Evaluating, Grafting, Reversing, Walking, Rebuilding
<1>3. RawOK'
  <2>1. /\ raw' \in [DOMAIN NoRaw -> Elem] /\ raw'.kont = UNDEF
        /\ \A f \in DOMAIN NoRaw : raw'[f] = UNDEF \/ raw'[f] \in Base'
    BY <1>1, PageWords, NoRawFields
  <2>2. QED
    BY <2>1 DEF RawOK, Evaluating, Grafting, Reversing, Walking, Rebuilding
<1>4. EnterOK' /\ EvaluateOK'
  BY DEF EnterOK, EvaluateOK, Evaluating
<1>5. GraftOK'
  BY DEF Control, GraftOK, Grafting, Reversing, Walking, Rebuilding
<1>6. UnwindOK'
  BY DEF UnwindOK, Reversing, Walking, Rebuilding
<1>7. QED
  BY <1>2, <1>3, <1>4, <1>5, <1>6 DEF Control

\* A failed check.
LEMMA ThrowStep ==
    ASSUME Memory, Control, Throw
    PROVE  Sound
<1>1. /\ UNCHANGED mem /\ pc' = "unwind" /\ raw' = NoRaw /\ left' = left
  BY DEF Throw, Locals
<1>2. stale' = FALSE /\ raw' = [NoRaw EXCEPT !.state = UNDEF]
  BY <1>1 DEF mem, Control, NoRaw
<1>3. UNDEF \in Elem
  BY PageWords
<1>4. Control'
  <2>1. \E w \in Elem : (w \in Base' \/ w = UNDEF) /\ raw' = [NoRaw EXCEPT !.state = w]
    BY <1>2, <1>3
  <2>2. /\ pc' \in {"loop", "done", "unwind", "error"}
        /\ pc' = "loop" => roots' \subseteq {"defn"} /\ op' = "!"
        /\ left' = left /\ stale' = FALSE
    BY <1>1, <1>2
  <2>3. QED
    BY <2>1, <2>2, Resting
<1>5. QED
  BY <1>1, <1>4 DEF Sound

\* The result of the operator, or of this turn of !.
LEMMA AnswerStep ==
    ASSUME Memory, Control, ClientStep \/ UNCHANGED mem,
           NEW w, Answer(w),
           status' = "running" => stale' = FALSE /\ w \in Elem /\ w \in Base'
                                  /\ roots' \subseteq {"defn"}
    PROVE  Sound
<1>1. /\ pc' \in {"loop", "done"} /\ left' = left /\ (pc' = "loop" => op' = "!")
      /\ raw' = [NoRaw EXCEPT !.state = w]
  BY DEF Answer, Finish, Locals
<1>2. status' = "running" => Control'
  BY <1>1, Resting
<1>3. QED
  BY <1>2 DEF Sound

\* A new cell is the result.
LEMMA NewAnswerStep ==
    ASSUME Memory, Control, roots \subseteq {"defn"},
           NEW h \in Usable, NEW t \in Usable, new_Cell(h, t, Answer(ret'))
    PROVE  Sound
<1>1. ClientStep
  BY NewIsClient
<1>2. ASSUME status' = "running" PROVE Control'
  <2>1. Answer(ret')
    BY <1>2, NewIsClient
  <2>2. /\ pc' \in {"loop", "done"} /\ left' = left /\ (pc' = "loop" => op' = "!")
        /\ raw' = [NoRaw EXCEPT !.state = ret']
    BY <2>1 DEF Answer, Finish, Locals
  <2>3. stale = FALSE
    BY DEF Control
  <2>4. ret' \in Page /\ ret' \in Base' /\ roots' = roots /\ stale' = FALSE
    BY <1>2, <2>3, NewLeaves
  <2>5. ret' \in Elem
    BY <2>4, PageWords
  <2>6. \E w \in Elem : (w \in Base' \/ w = UNDEF) /\ raw' = [NoRaw EXCEPT !.state = w]
    BY <2>2, <2>4, <2>5
  <2>7. QED
    BY <2>2, <2>4, <2>6, Resting
<1>3. QED
  BY <1>1, <1>2 DEF Sound

\* A step that leaves the memory alone leaves the words in hand.
LEMMA SameBase ==
    ASSUME UNCHANGED mem
    PROVE  /\ page' = page /\ val' = val /\ roots' = roots /\ ret' = ret /\ stale' = stale
           /\ Base' = Base
<1>1. page' = page /\ val' = val /\ roots' = roots /\ ret' = ret /\ stale' = stale
  BY DEF mem
<1>2. QED
  BY <1>1, BaseKept

\* The result is one of the words in hand, or the check failed.
LEMMA AnswerOrThrowStep ==
    ASSUME Memory, Control, pc \in {"operator", "loop"},
           NEW w \in Base \cup {Illegal}, AnswerOrThrow(w)
    PROVE  Sound
<1>1. CASE w = Illegal /\ Throw
  BY <1>1, ThrowStep
<1>2. CASE w # Illegal /\ UNCHANGED mem /\ Answer(w)
  <2>1. w \in Elem /\ w \in Base
    BY <1>2, BaseWords
  <2>2. stale' = FALSE /\ Base' = Base /\ roots' \subseteq {"defn"}
    BY <1>2, SameBase DEF Control, RootsOK
  <2>3. QED
    BY <1>2, <2>1, <2>2, AnswerStep
<1>3. QED
  BY <1>1, <1>2 DEF AnswerOrThrow

\* _evaluate, called.
LEMMA CallEvaluateStep ==
    ASSUME Memory, Control, pc \in {"operator", "loop"},
           NEW env \in Base, NEW expr \in Base \cap Page, CallEvaluate(env, expr)
    PROVE  Sound
<1>1. CASE AnswerOrThrow(_reduce(env, expr))
  <2>1. _reduce(env, expr) \in Base \cup {Illegal}
    BY BaseWords
  <2>2. QED
    BY <1>1, <2>1, AnswerOrThrowStep
<1>2. CASE /\ Locals("evaluate", [NoRaw EXCEPT !.env = env, !.expr = expr])
           /\ UNCHANGED mem
  <2>1. /\ pc' = "evaluate" /\ raw' = [NoRaw EXCEPT !.env = env, !.expr = expr]
        /\ left' = left /\ UNCHANGED mem
    BY <1>2 DEF Locals
  <2>2. /\ stale' = FALSE /\ roots' = roots /\ roots \subseteq {"defn"} /\ Base' = Base
    BY <2>1, SameBase DEF Control, RootsOK
  <2>3. env \in Elem /\ expr \in Elem
    BY BaseWords
  <2>4. RootsOK'
    BY <2>1 DEF RootsOK, Evaluating, Grafting, Reversing, Walking, Rebuilding
  <2>5. RawOK'
    <3>1. /\ raw' \in [DOMAIN NoRaw -> Elem] /\ raw'.kont = UNDEF
          /\ \A f \in DOMAIN NoRaw : raw'[f] = UNDEF \/ raw'[f] \in Base'
      BY <2>1, <2>2, <2>3, PageWords, NoRawFields
    <3>2. QED
      BY <2>1, <3>1 DEF RawOK, Evaluating, Grafting, Reversing, Walking, Rebuilding
  <2>6. EnterOK' /\ EvaluateOK'
    BY <2>1, <2>2 DEF EnterOK, EvaluateOK, Evaluating, NoRaw
  <2>7. GraftOK' /\ UnwindOK'
    BY <2>1 DEF Control, GraftOK, UnwindOK, Grafting, Reversing, Walking, Rebuilding
  <2>8. QED
    BY <2>1, <2>2, <2>4, <2>5, <2>6, <2>7 DEF Control, Sound
<1>3. QED
  BY <1>1, <1>2 DEF CallEvaluate

\* _graft, called.
LEMMA CallGraftStep ==
    ASSUME Memory, Control, pc \in {"operator", "loop"},
           NEW env \in Base, NEW elem \in Base, NEW path \in Base \cap Page,
           NEW kont \in Base, kont # UNDEF => op = "!", CallGraft(env, elem, path, kont)
    PROVE  Sound
<1>1. /\ pc' = "graft" /\ left' = left /\ UNCHANGED mem /\ op' = op
      /\ raw' = [NoRaw EXCEPT !.env = env, !.elem = elem, !.path = path, !.kont = kont]
  BY DEF CallGraft, Locals
<1>2. stale' = FALSE /\ roots' = roots /\ roots \subseteq {"defn"} /\ Base' = Base
  BY <1>1, SameBase DEF Control, RootsOK
<1>3. env \in Elem /\ elem \in Elem /\ path \in Elem /\ kont \in Elem
  BY BaseWords
<1>4. RootsOK'
  BY <1>1 DEF RootsOK, Evaluating, Grafting, Reversing, Walking, Rebuilding
<1>5. RawOK'
  <2>1. /\ raw' \in [DOMAIN NoRaw -> Elem] /\ (raw'.kont # UNDEF => op' = "!")
        /\ \A f \in DOMAIN NoRaw : raw'[f] = UNDEF \/ raw'[f] \in Base'
    BY <1>1, <1>2, <1>3, PageWords, NoRawFields
  <2>2. QED
    BY <1>1, <2>1 DEF RawOK, Evaluating, Grafting, Reversing, Walking, Rebuilding
<1>6. EnterOK' /\ EvaluateOK'
  <2>1. DOMAIN GraftInit' \cap roots' = {}
    BY <1>2 DEF GraftInit
  <2>2. raw'.path \in Page
    BY <1>1 DEF NoRaw
  <2>3. QED
    BY <1>1, <2>1, <2>2 DEF EnterOK, EvaluateOK, Evaluating
<1>7. GraftOK' /\ UnwindOK'
  BY <1>1 DEF Control, GraftOK, UnwindOK, Grafting, Reversing, Walking, Rebuilding
<1>8. QED
  BY <1>1, <1>2, <1>4, <1>5, <1>6, <1>7 DEF Control, Sound

\* Only of a cell are there a head and a tail.
LEMMA PartsOfCells ==
    ASSUME Memory, NEW w \in Base \cup {Illegal}
    PROVE  /\ IsPcell(w) <=> w \in Page
           /\ IsCell(w) <=> w \in Page
           /\ w \in Page => w \in Base
           /\ Hd(w) \in Base \cup {Illegal} /\ Tl(w) \in Base \cup {Illegal}
           /\ w \in Page => Hd(w) \in Base /\ Tl(w) \in Base
           /\ w \notin Page => Hd(w) = Illegal /\ Tl(w) = Illegal
<1>1. w \in Words /\ Illegal \notin Page
  BY BaseWords, SmallWords DEF Words
<1>2. (IsPcell(w) <=> w \in Page) /\ (IsCell(w) <=> w \in Page)
  BY <1>1, SmallWords
<1>3. w \in Page => w \in Base /\ Hd(w) \in Base /\ Tl(w) \in Base
  BY <1>1, BaseWords
<1>4. w \notin Page => Hd(w) = Illegal /\ Tl(w) = Illegal
  BY <1>2 DEF Hd, Tl
<1>5. QED
  BY <1>2, <1>3, <1>4

\* process_operator
LEMMA OperatorStep ==
    ASSUME Memory, Control, Operator
    PROVE  Sound
<1> DEFINE state == raw.state
<1>1. pc = "operator"
  BY DEF Operator, At
<1>2. state \in Base /\ UNDEF \in Base
  <2>1. state = UNDEF \/ state \in Base
    BY <1>1 DEF Control, RawOK, NoRaw, Grafting, Reversing, Walking, Rebuilding
  <2>2. QED
    BY <2>1, BaseWords
<1>3. /\ \/ op = "." /\ AnswerOrThrow(state)
         \/ Throw
         \/ IsCell(Tl(state)) /\
              \/ AnswerOrThrow(_select(Hd(state), Tl(state)))
              \/ AnswerOrThrow(_ifcell(Hd(state), Tl(state)))
              \/ CallEvaluate(Hd(state), Tl(state))
              \/ /\ IsCell(Tl(Tl(state)))
                 /\ CallGraft(Hd(state), HdTl(state), Tl(Tl(state)), UNDEF)
  BY DEF Operator
<1> HIDE DEF state
<1>4. CASE AnswerOrThrow(state)
  BY <1>1, <1>2, <1>4, AnswerOrThrowStep
<1>5. CASE Throw
  BY <1>5, ThrowStep
<1>6. ASSUME IsCell(Tl(state))
      PROVE  Hd(state) \in Base /\ Tl(state) \in Base \cap Page
  <2>1. Tl(state) \in Base \cup {Illegal}
    BY <1>2, PartsOfCells
  <2>2. Tl(state) \in Page /\ Illegal \notin Page
    BY <1>6, <2>1, PartsOfCells, SmallWords
  <2>3. QED
    BY <1>2, <2>2, PartsOfCells
<1>7. CASE IsCell(Tl(state)) /\ AnswerOrThrow(_select(Hd(state), Tl(state)))
  <2>1. _select(Hd(state), Tl(state)) \in Base \cup {Illegal}
    BY <1>6, <1>7, BaseWords
  <2>2. QED
    BY <1>1, <1>7, <2>1, AnswerOrThrowStep
<1>8. CASE IsCell(Tl(state)) /\ AnswerOrThrow(_ifcell(Hd(state), Tl(state)))
  <2>1. _ifcell(Hd(state), Tl(state)) \in Base \cup {Illegal}
    BY <1>6, <1>8, PartsOfCells DEF _ifcell
  <2>2. QED
    BY <1>1, <1>8, <2>1, AnswerOrThrowStep
<1>9. CASE IsCell(Tl(state)) /\ CallEvaluate(Hd(state), Tl(state))
  BY <1>1, <1>6, <1>9, CallEvaluateStep
<1>10. CASE /\ IsCell(Tl(state)) /\ IsCell(Tl(Tl(state)))
            /\ CallGraft(Hd(state), HdTl(state), Tl(Tl(state)), UNDEF)
  <2>1. Hd(state) \in Base /\ Tl(state) \in Base \cap Page
    BY <1>6, <1>10
  <2>2. HdTl(state) \in Base /\ Tl(Tl(state)) \in Base
    BY <2>1, PartsOfCells DEF HdTl
  <2>3. Tl(Tl(state)) \in Page
    BY <1>10, <2>2, PartsOfCells
  <2>4. QED
    BY <1>1, <1>2, <1>10, <2>1, <2>2, <2>3, CallGraftStep
<1>11. QED
  BY <1>3, <1>4, <1>5, <1>7, <1>8, <1>9, <1>10

\* One turn of execute_trace.
LEMMA ExecuteStep ==
    ASSUME Memory, Control, Execute
    PROVE  Sound
<1> DEFINE state == raw.state
           stmt  == Hd(state)
           env   == Tl(state)
           more  == Tl(env)
<1>1. pc = "loop" /\ status = "running"
  BY DEF Execute, At
<1>2. state \in Base
  <2>1. state = UNDEF \/ state \in Base
    BY <1>1 DEF Control, RawOK, NoRaw, Grafting, Reversing, Walking, Rebuilding
  <2>2. QED
    BY <2>1, BaseWords
<1>3. \/ Throw
      \/ IsCell(state) /\ IsCell(stmt) /\ CallEvaluate(env, stmt)
      \/ IsCell(state) /\ Finish(env) /\ UNCHANGED mem
      \/ IsCell(Hd(more)) /\ new_Cell(_ifcell(Hd(env), Hd(more)), Tl(more), Answer(ret'))
      \/ /\ IsCell(Hd(Tl(more))) /\ op = "!"
         /\ CallGraft(Hd(env), Hd(more), Hd(Tl(more)), Tl(Tl(more)))
  <2>1. \/ (~IsCell(state) \/ IsUndef(stmt)) /\ Throw
        \/ IsCell(stmt) /\ CallEvaluate(env, stmt)
        \/ IsAByte(stmt) /\
             \/ Finish(env) /\ UNCHANGED mem
             \/ Throw
             \/ IsCell(Hd(more)) /\ new_Cell(_ifcell(Hd(env), Hd(more)), Tl(more), Answer(ret'))
             \/ IsCell(Hd(Tl(more))) /\ CallGraft(Hd(env), Hd(more), Hd(Tl(more)), Tl(Tl(more)))
    BY DEF Execute
  <2>2. IsCell(stmt) \/ IsAByte(stmt) => IsCell(state)
    <3>1. ~IsPcell(state) => stmt = Illegal
      BY DEF Hd
    <3>2. IsPcell(state) => IsCell(state)
      BY <1>2, BaseWords, SmallWords DEF Words
    <3>3. QED
      BY <3>1, <3>2 DEF IsCell, IsAByte
  <2>3. op = "!"
    BY <1>1 DEF Control, RawOK
  <2> HIDE DEF state, stmt, env, more
  <2>4. QED
    BY <2>1, <2>2, <2>3
<1> HIDE DEF state
<1>4. stmt \in Base \cup {Illegal} /\ env \in Base \cup {Illegal}
  BY <1>2, PartsOfCells
<1>5. IsCell(state) => stmt \in Base /\ env \in Base
  BY <1>2, PartsOfCells
<1>6. more \in Base \cup {Illegal}
  BY <1>4, PartsOfCells
<1>7. Hd(more) \in Base \cup {Illegal} /\ Tl(more) \in Base \cup {Illegal}
  BY <1>6, PartsOfCells
<1>8. IsCell(Hd(more)) => /\ Hd(env) \in Base /\ Tl(more) \in Base
                          /\ Hd(Hd(more)) \in Base /\ Tl(Hd(more)) \in Base
  <2>1. SUFFICES ASSUME IsCell(Hd(more))
                 PROVE  /\ Hd(env) \in Base /\ Tl(more) \in Base
                        /\ Hd(Hd(more)) \in Base /\ Tl(Hd(more)) \in Base
    OBVIOUS
  <2>2. Hd(more) \in Page /\ Hd(Hd(more)) \in Base /\ Tl(Hd(more)) \in Base
    BY <1>7, <2>1, PartsOfCells
  <2>3. more \in Page /\ Tl(more) \in Base
    BY <1>6, <2>2, PartsOfCells, SmallWords
  <2>4. env \in Page /\ Hd(env) \in Base
    BY <1>4, <2>3, PartsOfCells, SmallWords
  <2>5. QED
    BY <2>2, <2>3, <2>4
<1>9. IsCell(Hd(Tl(more))) => /\ Hd(env) \in Base /\ Hd(more) \in Base
                              /\ Hd(Tl(more)) \in Base \cap Page /\ Tl(Tl(more)) \in Base
  <2>1. SUFFICES ASSUME IsCell(Hd(Tl(more)))
                 PROVE  /\ Hd(env) \in Base /\ Hd(more) \in Base
                        /\ Hd(Tl(more)) \in Base \cap Page /\ Tl(Tl(more)) \in Base
    OBVIOUS
  <2>2. Hd(Tl(more)) \in Base \cup {Illegal}
    BY <1>7, PartsOfCells
  <2>3. Hd(Tl(more)) \in Page /\ Hd(Tl(more)) \in Base
    BY <2>1, <2>2, PartsOfCells
  <2>4. Tl(more) \in Page /\ Tl(Tl(more)) \in Base
    BY <1>7, <2>3, PartsOfCells, SmallWords
  <2>5. more \in Page /\ Hd(more) \in Base
    BY <1>6, <2>4, PartsOfCells, SmallWords
  <2>6. env \in Page /\ Hd(env) \in Base
    BY <1>4, <2>5, PartsOfCells, SmallWords
  <2>7. QED
    BY <2>3, <2>4, <2>5, <2>6
<1> HIDE DEF stmt, env, more
<1>10. CASE Throw
  BY <1>10, ThrowStep
<1>11. CASE IsCell(state) /\ IsCell(stmt) /\ CallEvaluate(env, stmt)
  <2>1. stmt \in Base \cap Page
    BY <1>4, <1>5, <1>11, PartsOfCells
  <2>2. QED
    BY <1>1, <1>5, <1>11, <2>1, CallEvaluateStep
<1>12. CASE IsCell(state) /\ Finish(env) /\ UNCHANGED mem
  <2>1. pc' = "done" /\ raw' = [NoRaw EXCEPT !.state = env] /\ left' = left
    BY <1>12 DEF Finish, Locals
  <2>2. env \in Elem /\ env \in Base' /\ stale' = FALSE
    BY <1>5, <1>12, BaseWords, SameBase DEF Control
  <2>3. Control'
    BY <2>1, <2>2, Resting
  <2>4. QED
    BY <1>12, <2>3 DEF Sound
<1>13. CASE /\ IsCell(Hd(more))
            /\ new_Cell(_ifcell(Hd(env), Hd(more)), Tl(more), Answer(ret'))
  <2> DEFINE h == _ifcell(Hd(env), Hd(more))
             t == Tl(more)
  <2>1. h \in Base /\ t \in Base
    BY <1>8, <1>13 DEF _ifcell
  <2>2. h \in Usable /\ t \in Usable
    BY <2>1, BaseWords
  <2> HIDE DEF h, t
  <2>3. new_Cell(h, t, Answer(ret'))
    BY <1>13 DEF h, t
  <2>4. roots \subseteq {"defn"}
    BY <1>1 DEF Control, RootsOK
  <2>5. QED
    BY <2>2, <2>3, <2>4, NewAnswerStep
<1>14. CASE /\ IsCell(Hd(Tl(more))) /\ op = "!"
            /\ CallGraft(Hd(env), Hd(more), Hd(Tl(more)), Tl(Tl(more)))
  BY <1>1, <1>9, <1>14, CallGraftStep
<1>15. QED
  BY <1>3, <1>10, <1>11, <1>12, <1>13, <1>14

-----------------------------------------------------------------------------
\* One auto_root of a frame less.
LEMMA LeaveStep ==
    ASSUME Memory, Control, pc \in {"unwind", "built", "grafted"}, NEW continue, Leave(continue)
    PROVE  Sound \/ (roots \subseteq {"defn"} /\ continue)
<1> DEFINE x == CHOOSE y \in roots \ {"defn"} : TRUE
<1>1. SUFFICES ASSUME roots \ {"defn"} # {} PROVE Sound
  BY DEF Leave
<1>2. Allocator!DelRoot(x) /\ UNCHANGED machine /\ x \in roots \ {"defn"}
  BY <1>1 DEF Leave
<1>3. x \in Own
  BY <1>2, MemoryTypes DEF Own
<1> HIDE DEF x
<1>4. /\ ClientStep
      /\ page' = page /\ ret' = ret /\ stale' = stale /\ Base' = Base
      /\ roots' = roots \ {x}
  BY <1>2, <1>3, DelRootLeaves
<1>5. pc' = pc /\ raw' = raw /\ left' = left /\ op' = op
  BY <1>2 DEF machine
<1>6. RootsOK'
  BY <1>5 DEF RootsOK, Evaluating, Grafting, Reversing, Walking, Rebuilding
<1>7. RawOK'
  BY <1>4, <1>5 DEF Control, RawOK
<1>8. EnterOK' /\ EvaluateOK'
  BY <1>4, <1>5 DEF Control, EnterOK, EvaluateOK, Evaluating
<1>9. GraftOK' /\ UnwindOK'
  BY <1>5 DEF Control, GraftOK, UnwindOK, Grafting, Reversing, Walking, Rebuilding
<1>10. QED
  BY <1>4, <1>6, <1>7, <1>8, <1>9 DEF Control, Sound

\* The error leaves the interpreter when no auto_root is left.
LEMMA UnwindStep ==
    ASSUME Memory, Control, Unwind
    PROVE  Sound
<1>1. pc = "unwind" /\ Leave(Goto("error") /\ UNCHANGED mem)
  BY DEF Unwind, At
<1>2. CASE Goto("error") /\ UNCHANGED mem
  <2>1. pc' = "error" /\ raw' = raw /\ left' = left /\ op' = op
    BY <1>2 DEF Goto, Locals
  <2>2. page' = page /\ val' = val /\ roots' = roots /\ ret' = ret /\ stale' = stale /\ Base' = Base
    BY <1>2, SameBase
  <2>3. RootsOK'
    BY <2>1 DEF RootsOK, Evaluating, Grafting, Reversing, Walking, Rebuilding
  <2>4. RawOK'
    BY <1>1, <2>1, <2>2 DEF Control, RawOK, Evaluating, Grafting, Reversing, Walking, Rebuilding
  <2>5. EnterOK' /\ EvaluateOK'
    BY <2>1 DEF EnterOK, EvaluateOK, Evaluating
  <2>6. GraftOK' /\ UnwindOK'
    BY <2>1 DEF Control, GraftOK, UnwindOK, Grafting, Reversing, Walking, Rebuilding
  <2>7. QED
    BY <1>2, <2>2, <2>3, <2>4, <2>5, <2>6 DEF Control, Sound
<1>3. QED
  BY <1>1, <1>2, LeaveStep

-----------------------------------------------------------------------------
\* The auto_roots of a frame, one by one.
LEMMA EnterSteps ==
    ASSUME NEW init, NEW body
    PROVE  /\ Enter(EvaluateFrame, init, body) =>
                \/ Allocator!AddRoot("v", init["v"]) /\ UNCHANGED machine
                \/ /\ "v" \in roots /\ Allocator!AddRoot("exprs", init["exprs"])
                   /\ Locals(body, [NoRaw EXCEPT !.kont = raw.kont])
           /\ Enter(GraftFrame, init, body) =>
                \/ \E x \in {"v", "e", "p", "route", "rpth"} :
                      Allocator!AddRoot(x, init[x]) /\ UNCHANGED machine
                \/ /\ {"v", "e", "p", "route", "rpth"} \subseteq roots
                   /\ Allocator!AddRoot("tcells", init["tcells"])
                   /\ Locals(body, [NoRaw EXCEPT !.kont = raw.kont])
<1>1. ASSUME Enter(EvaluateFrame, init, body)
      PROVE  \/ Allocator!AddRoot("v", init["v"]) /\ UNCHANGED machine
             \/ /\ "v" \in roots /\ Allocator!AddRoot("exprs", init["exprs"])
                /\ Locals(body, [NoRaw EXCEPT !.kont = raw.kont])
  <2>1. PICK i \in 1 .. 2 :
           /\ \A j \in 1 .. 2 : EvaluateFrame[j] \in roots <=> j < i
           /\ Allocator!AddRoot(EvaluateFrame[i], init[EvaluateFrame[i]])
           /\ IF i = 2 THEN Locals(body, [NoRaw EXCEPT !.kont = raw.kont])
              ELSE UNCHANGED machine
    BY <1>1 DEF Enter, EvaluateFrame
  <2>2. CASE i = 1
    BY <2>1, <2>2 DEF EvaluateFrame
  <2>3. CASE i = 2
    BY <2>1, <2>3 DEF EvaluateFrame
  <2>4. QED
    BY <2>2, <2>3
<1>2. ASSUME Enter(GraftFrame, init, body)
      PROVE  \/ \E x \in {"v", "e", "p", "route", "rpth"} :
                   Allocator!AddRoot(x, init[x]) /\ UNCHANGED machine
             \/ /\ {"v", "e", "p", "route", "rpth"} \subseteq roots
                /\ Allocator!AddRoot("tcells", init["tcells"])
                /\ Locals(body, [NoRaw EXCEPT !.kont = raw.kont])
  <2>1. PICK i \in 1 .. 6 :
           /\ \A j \in 1 .. 6 : GraftFrame[j] \in roots <=> j < i
           /\ Allocator!AddRoot(GraftFrame[i], init[GraftFrame[i]])
           /\ IF i = 6 THEN Locals(body, [NoRaw EXCEPT !.kont = raw.kont])
              ELSE UNCHANGED machine
    BY <1>2 DEF Enter, GraftFrame
  <2>2. /\ GraftFrame[1] = "v" /\ GraftFrame[2] = "e" /\ GraftFrame[3] = "p"
        /\ GraftFrame[4] = "route" /\ GraftFrame[5] = "rpth" /\ GraftFrame[6] = "tcells"
    BY DEF GraftFrame
  <2>3. CASE i \in 1 .. 5
    <3>1. GraftFrame[i] \in {"v", "e", "p", "route", "rpth"}
      BY <2>2, <2>3
    <3>2. Allocator!AddRoot(GraftFrame[i], init[GraftFrame[i]]) /\ UNCHANGED machine
      BY <2>1, <2>3
    <3>3. QED
      BY <3>1, <3>2
  <2>4. CASE i = 6
    <3>1. \A j \in 1 .. 5 : GraftFrame[j] \in roots
      BY <2>1, <2>4
    <3>2. QED
      BY <2>1, <2>2, <2>4, <3>1
  <2>5. QED
    BY <2>3, <2>4
<1>3. QED
  BY <1>1, <1>2

\* The plain locals while _evaluate builds its list: the values so far.
LEMMA EvaluateRaw ==
    ASSUME Control, pc \in Evaluating
    PROVE  /\ raw \in [DOMAIN NoRaw -> Elem] /\ raw.kont = UNDEF
           /\ \A f \in DOMAIN NoRaw : f # "t" => raw[f] = UNDEF
<1>1. pc \notin Grafting \cup {"grafted"}
  BY DEF Evaluating, Grafting, Reversing, Walking, Rebuilding
<1>2. QED
  BY <1>1, NoRawFields DEF Control, RawOK

\* The auto_roots of _evaluate are registered.
LEMMA EvaluateEnterStep ==
    ASSUME Memory, Control, EvaluateEnter
    PROVE  Sound
<1> DEFINE init == [v |-> raw.env, exprs |-> raw.expr]
<1>1. pc = "evaluate" /\ Enter(EvaluateFrame, init, "first")
  BY DEF EvaluateEnter, At
<1>2. init["v"] = raw.env /\ init["exprs"] = raw.expr
  OBVIOUS
<1> HIDE DEF init
<1>3. /\ \/ Allocator!AddRoot("v", raw.env) /\ UNCHANGED machine
         \/ /\ "v" \in roots /\ Allocator!AddRoot("exprs", raw.expr)
            /\ Locals("first", [NoRaw EXCEPT !.kont = raw.kont])
  BY <1>1, <1>2, EnterSteps
<1>4. /\ raw.env \in Base /\ raw.expr \in Base /\ raw.expr \in Page
      /\ raw \in [DOMAIN NoRaw -> Elem] /\ raw.kont = UNDEF
      /\ "v" \in roots => val["v"] = raw.env
  BY <1>1, BaseWords, NoRawFields
     DEF Control, RawOK, EnterOK, Grafting, Reversing, Walking, Rebuilding
<1>5. "v" \in Own /\ "exprs" \in Own /\ raw.env \in WordsOf("v") /\ raw.expr \in WordsOf("exprs")
  BY <1>4, BaseWords DEF Own, Vars, ElemVars, PcellVars, WordsOf
<1>6. val \in [Vars -> Elem]
  BY MemoryTypes
<1>7. CASE Allocator!AddRoot("v", raw.env) /\ UNCHANGED machine
  <2>1. pc' = pc /\ raw' = raw /\ left' = left /\ op' = op
    BY <1>7 DEF machine
  <2>2. /\ ClientStep
        /\ page' = page /\ ret' = ret /\ stale' = stale /\ Base' = Base
        /\ val' = [val EXCEPT !["v"] = raw.env] /\ roots' = roots \cup {"v"}
    BY <1>5, <1>7, AddRootLeaves
  <2>3. RootsOK'
    BY <1>1, <2>1 DEF RootsOK, Evaluating, Grafting, Reversing, Walking, Rebuilding
  <2>4. RawOK'
    BY <2>1, <2>2 DEF Control, RawOK
  <2>5. EnterOK' /\ EvaluateOK'
    BY <1>1, <1>4, <1>5, <1>6, <2>1, <2>2 DEF EnterOK, EvaluateOK, Evaluating, Own
  <2>6. GraftOK' /\ UnwindOK'
    BY <1>1, <2>1 DEF Control, GraftOK, UnwindOK, Grafting, Reversing, Walking, Rebuilding
  <2>7. QED
    BY <2>2, <2>3, <2>4, <2>5, <2>6 DEF Control, Sound
<1>8. CASE /\ "v" \in roots /\ Allocator!AddRoot("exprs", raw.expr)
           /\ Locals("first", [NoRaw EXCEPT !.kont = raw.kont])
  <2>1. pc' = "first" /\ raw' = NoRaw /\ left' = left /\ op' = op
    <3>1. raw.kont = UNDEF
      BY <1>1 DEF Control, EnterOK
    <3>2. QED
      BY <1>8, <3>1, NoRawFields DEF Locals
  <2>2. /\ ClientStep
        /\ page' = page /\ ret' = ret /\ stale' = stale /\ Base' = Base
        /\ val' = [val EXCEPT !["exprs"] = raw.expr] /\ roots' = roots \cup {"exprs"}
    BY <1>5, <1>8, AddRootLeaves
  <2>3. RootsOK'
    BY <1>8, <2>1, <2>2 DEF RootsOK, Evaluating, Grafting, Reversing, Walking, Rebuilding
  <2>4. RawOK'
    BY <2>1, NoRawFields, PageWords DEF RawOK
  <2>5. val'["v"] = raw.env /\ val'["exprs"] = raw.expr
    BY <1>4, <1>5, <1>6, <1>8, <2>2 DEF Own
  <2>6. EnterOK' /\ EvaluateOK'
    BY <1>4, <2>1, <2>2, <2>5 DEF EnterOK, EvaluateOK, Evaluating
  <2>7. GraftOK' /\ UnwindOK'
    BY <2>1 DEF Control, GraftOK, UnwindOK, Grafting, Reversing, Walking, Rebuilding
  <2>8. QED
    BY <2>2, <2>3, <2>4, <2>6, <2>7 DEF Control, Sound
<1>9. QED
  BY <1>3, <1>7, <1>8

\* On to the next expression: the list of those left is a cell, and the values
\* so far are in hand.
LEMMA NextExpr ==
    ASSUME Memory, Control, pc \in {"first", "advance"},
           NEW rest \in Usable \cap Page, NEW t \in Base, t \in Elem, Assign("exprs", rest),
           Locals("next", [raw EXCEPT !.t = t])
    PROVE  Sound
<1>1. pc' = "next" /\ left' = left /\ op' = op /\ raw' = [raw EXCEPT !.t = t]
  BY DEF Locals
<1>2. "exprs" \in Own /\ rest \in WordsOf("exprs") /\ pc \in Evaluating
  BY BaseWords DEF Own, Vars, ElemVars, PcellVars, WordsOf, Evaluating
<1>3. /\ ClientStep
      /\ page' = page /\ ret' = ret /\ stale' = stale /\ Base' = Base
      /\ val' = [val EXCEPT !["exprs"] = rest] /\ roots' = roots
  BY <1>2, AssignLeaves
<1>4. RootsOK'
  BY <1>1, <1>2, <1>3 DEF Control, RootsOK, Evaluating, Grafting, Reversing, Walking, Rebuilding
<1>5. RawOK'
  BY <1>1, <1>2, <1>3, EvaluateRaw, NoRawFields
     DEF RawOK, Evaluating, Grafting, Reversing, Walking, Rebuilding
<1>6. EnterOK' /\ EvaluateOK'
  <2>1. val'["exprs"] = rest
    BY <1>2, <1>3, MemoryTypes DEF Own
  <2>2. QED
    BY <1>1, <2>1 DEF EnterOK, EvaluateOK, Evaluating
<1>7. GraftOK' /\ UnwindOK'
  BY <1>1 DEF Control, GraftOK, UnwindOK, Grafting, Reversing, Walking, Rebuilding
<1>8. QED
  BY <1>3, <1>4, <1>5, <1>6, <1>7 DEF Control, Sound

\* The value of the first expression is what the environment leads to.
LEMMA EvaluateFirstStep ==
    ASSUME Memory, Control, EvaluateFirst
    PROVE  Sound
<1> DEFINE t    == _reduce(val["v"], Hd(val["exprs"]))
           rest == Tl(val["exprs"])
<1>1. pc = "first"
  BY DEF EvaluateFirst, At
<1>2. \/ Throw
      \/ t # Illegal /\ IsCell(rest) /\ Assign("exprs", rest)
         /\ Locals("next", [raw EXCEPT !.t = t])
  BY DEF EvaluateFirst
<1>3. val["exprs"] \in Page /\ val["exprs"] \in Base /\ val["v"] \in Base
  BY <1>1 DEF Control, EvaluateOK, Evaluating
<1>4. Hd(val["exprs"]) \in Base /\ rest \in Base
  BY <1>3, BaseWords
<1>5. t \in Base \cup {Illegal} /\ (IsCell(rest) => rest \in Page)
  BY <1>3, <1>4, BaseWords, PartsOfCells
<1> HIDE DEF t, rest
<1>6. CASE Throw
  BY <1>6, ThrowStep
<1>7. CASE /\ t # Illegal /\ IsCell(rest) /\ Assign("exprs", rest)
           /\ Locals("next", [raw EXCEPT !.t = t])
  <2>1. t \in Base /\ t \in Elem /\ rest \in Usable \cap Page
    BY <1>4, <1>5, <1>7, BaseWords
  <2>2. QED
    BY <1>1, <1>7, <2>1, NextExpr
<1>8. QED
  BY <1>2, <1>6, <1>7

\* On to the next expression.
LEMMA EvaluateAdvanceStep ==
    ASSUME Memory, Control, EvaluateAdvance
    PROVE  Sound
<1> DEFINE rest == Tl(val["exprs"])
<1>1. pc = "advance" /\ (Throw \/ (IsCell(rest) /\ Assign("exprs", rest) /\ Goto("next")))
  BY DEF EvaluateAdvance, At
<1>2. val["exprs"] \in Page /\ "exprs" \in roots /\ raw.t = ret /\ ret \in Base /\ ret \in Elem
  BY <1>1, BaseWords, MemoryTypes DEF Control, RootsOK, EvaluateOK, Evaluating
<1>3. rest \in Usable /\ (IsCell(rest) => rest \in Page)
  <2>1. val["exprs"] \in Usable /\ rest \in Usable
    BY <1>2, BaseWords
  <2>2. rest \in Words
    BY <2>1, BaseWords DEF Words
  <2>3. QED
    BY <2>1, <2>2, SmallWords
<1>4. Goto("next") => Locals("next", [raw EXCEPT !.t = ret])
  <2>1. raw = [raw EXCEPT !.t = ret]
    BY <1>2, NoRawFields DEF Control, RawOK
  <2>2. QED
    BY <2>1 DEF Goto
<1> HIDE DEF rest
<1>5. CASE Throw
  BY <1>5, ThrowStep
<1>6. CASE IsCell(rest) /\ Assign("exprs", rest) /\ Goto("next")
  BY <1>1, <1>2, <1>3, <1>4, <1>6, NextExpr
<1>7. QED
  BY <1>1, <1>5, <1>6

\* A value goes in front of those built so far, which are the last answer.
LEMMA EvaluateNextStep ==
    ASSUME Memory, Control, EvaluateNext
    PROVE  Sound
<1> DEFINE exprs  == val["exprs"]
           isLast == ~IsPcell(Hd(exprs))
           expr   == IF isLast THEN exprs ELSE Hd(exprs)
           value  == _reduce(val["v"], expr)
           label  == IF isLast THEN "built" ELSE "advance"
<1>1. pc = "next"
  BY DEF EvaluateNext, At
<1>2. \/ Throw
      \/ /\ value # Illegal
         /\ new_Cell(value, raw.t, Locals(label, [raw EXCEPT !.t = ret']))
  BY DEF EvaluateNext
<1>3. {"v", "exprs"} \subseteq roots /\ exprs \in Page
  BY <1>1 DEF Control, RootsOK, EvaluateOK, Evaluating
<1>4. val["v"] \in Usable /\ exprs \in Usable
  BY <1>3, BaseWords
<1>5. expr \in Usable
  BY <1>3, <1>4, BaseWords
<1> HIDE DEF expr
<1>6. value \in Usable \cup {Illegal}
  BY <1>4, <1>5, BaseWords
<1>7. raw.t \in Usable
  <2>1. raw.t = UNDEF \/ raw.t \in Base
    BY <1>1, NoRawFields DEF Control, RawOK, Grafting, Reversing, Walking, Rebuilding
  <2>2. QED
    BY <2>1, BaseWords
<1>8. label \in {"built", "advance"}
  OBVIOUS
<1> HIDE DEF value, exprs, label
<1>9. CASE Throw
  BY <1>9, ThrowStep
<1>10. CASE value # Illegal /\ new_Cell(value, raw.t, Locals(label, [raw EXCEPT !.t = ret']))
  <2>1. value \in Usable
    BY <1>6, <1>10
  <2>2. ClientStep
    BY <1>7, <1>10, <2>1, NewIsClient
  <2>3. ASSUME status' = "running" PROVE Control'
    <3>1. Locals(label, [raw EXCEPT !.t = ret'])
      BY <1>7, <1>10, <2>1, <2>3, NewIsClient
    <3>2. pc' = label /\ left' = left /\ op' = op /\ raw' = [raw EXCEPT !.t = ret']
      BY <3>1 DEF Locals
    <3>3. stale = FALSE
      BY DEF Control
    <3>4. /\ ret' \in Page /\ ret' \in Base' /\ stale' = FALSE
          /\ val' = val /\ roots' = roots
      BY <1>7, <1>10, <2>1, <2>3, <3>3, NewLeaves
    <3>5. RootsOK'
      BY <1>3, <1>8, <3>2, <3>4
         DEF RootsOK, Evaluating, Grafting, Reversing, Walking, Rebuilding
    <3>6. RawOK'
      <4>1. /\ raw \in [DOMAIN NoRaw -> Elem] /\ raw.kont = UNDEF
            /\ \A f \in DOMAIN NoRaw : f # "t" => raw[f] = UNDEF
        BY <1>1, EvaluateRaw DEF Evaluating
      <4>2. ret' \in Elem
        BY <3>4, PageWords
      <4>3. QED
        BY <1>8, <3>2, <3>4, <4>1, <4>2, NoRawFields
           DEF RawOK, Evaluating, Grafting, Reversing, Walking, Rebuilding
    <3>7. EnterOK' /\ EvaluateOK'
      <4>1. raw'["t"] = ret' /\ val'["exprs"] \in Page
        BY <1>3, <3>2, <3>4, NoRawFields DEF Control, RawOK, exprs
      <4>2. QED
        BY <1>8, <3>2, <4>1 DEF EnterOK, EvaluateOK, Evaluating
    <3>8. GraftOK' /\ UnwindOK'
      BY <1>8, <3>2 DEF Control, GraftOK, UnwindOK, Grafting, Reversing, Walking, Rebuilding
    <3>9. QED
      BY <3>4, <3>5, <3>6, <3>7, <3>8 DEF Control
  <2>4. QED
    BY <2>2, <2>3 DEF Sound
<1>11. QED
  BY <1>2, <1>9, <1>10

\* The values are the last answer.
LEMMA EvaluateReturnStep ==
    ASSUME Memory, Control, EvaluateReturn
    PROVE  Sound
<1>1. pc = "built" /\ Leave(UNCHANGED mem /\ Answer(raw.t))
  BY DEF EvaluateReturn, At
<1>2. CASE roots \subseteq {"defn"} /\ UNCHANGED mem /\ Answer(raw.t)
  <2>1. raw.t = ret /\ ret \in Elem /\ ret \in Base
    BY <1>1, BaseWords, MemoryTypes DEF Control, EvaluateOK
  <2>2. stale' = FALSE /\ Base' = Base /\ roots' = roots
    BY <1>2, SameBase DEF Control
  <2>3. QED
    BY <1>2, <2>1, <2>2, AnswerStep
<1>3. QED
  BY <1>1, <1>2, LeaveStep

-----------------------------------------------------------------------------
(***************************************************************************)
(* _graft                                                                  *)
(***************************************************************************)
GraftRoots == {"v", "e", "p", "route", "rpth", "tcells"}

\* Inside _graft the plain locals, but for the continuation, are not in use.
LEMMA GraftRaw ==
    ASSUME Control, pc \in Grafting \cup {"grafted"}
    PROVE  /\ raw \in [DOMAIN NoRaw -> Elem]
           /\ raw.kont # UNDEF => op = "!"
           /\ \A f \in DOMAIN NoRaw : f # "kont" => raw[f] = UNDEF
BY DEF Control, RawOK

\* From place to place in the loops of _graft.
LEMMA GraftControl ==
    ASSUME Control, pc \in Grafting, pc' \in Grafting, raw' = raw, op' = op, roots' = roots,
           stale' = FALSE, GraftOK', UnwindOK'
    PROVE  Control'
<1>1. RootsOK'
  BY DEF Control, RootsOK, Evaluating, Grafting, Reversing, Walking, Rebuilding, GraftInit
<1>2. RawOK'
  <2>1. /\ raw' \in [DOMAIN NoRaw -> Elem]
        /\ raw'.kont # UNDEF => op' = "!"
        /\ \A f \in DOMAIN NoRaw : f # "kont" => raw'[f] = UNDEF
    BY GraftRaw
  <2>2. pc' # "loop"
    BY DEF Grafting, Reversing, Walking, Rebuilding
  <2>3. QED
    BY <2>1, <2>2 DEF RawOK
<1>3. EnterOK' /\ EvaluateOK'
  BY DEF EnterOK, EvaluateOK, Evaluating, Grafting, Reversing, Walking, Rebuilding
<1>4. QED
  BY <1>1, <1>2, <1>3 DEF Control

\* What the auto_roots of _graft hold may be used.
LEMMA GraftWords ==
    ASSUME Memory, Control, pc \in Grafting
    PROVE  /\ GraftRoots \subseteq roots /\ GraftRoots \subseteq Own
           /\ val \in [Vars -> Elem] /\ page \in [Page -> Cell] /\ Acyclic(page)
           /\ \A x \in GraftRoots : /\ val[x] \in Usable
                                    /\ val[x] \in Page => /\ Hd(val[x]) \in Usable
                                                          /\ Tl(val[x]) \in Usable
           /\ ret \in Usable
           /\ \A x \in {"v", "e", "route"} : WordsOf(x) = Usable
           /\ \A x \in {"p", "rpth", "tcells"} : WordsOf(x) = Live \cup {Null}
           /\ \A w \in Page \cap Usable : w \in Live
           /\ left \in [tail : Nat, head : Nat]
           /\ stale = FALSE
<1>1. GraftRoots \subseteq roots
  BY DEF Control, RootsOK, GraftInit, GraftRoots
<1>2. GraftRoots \subseteq Own
  BY DEF Own, Vars, ElemVars, PcellVars, GraftRoots
<1>3. \A x \in GraftRoots : val[x] \in Usable
  BY <1>1, BaseWords
<1>4. ret \in Usable /\ \A c \in Page \cap Usable : /\ Hd(c) \in Usable /\ Tl(c) \in Usable
                                                    /\ c \in Live
  BY BaseWords
<1>5. \A x \in GraftRoots : val[x] \in Page => Hd(val[x]) \in Usable /\ Tl(val[x]) \in Usable
  BY <1>3, <1>4
<1>6. /\ \A x \in {"v", "e", "route"} : WordsOf(x) = Usable
      /\ \A x \in {"p", "rpth", "tcells"} : WordsOf(x) = Live \cup {Null}
  BY DEF WordsOf, PcellVars
<1>7. left \in [tail : Nat, head : Nat] /\ stale = FALSE
  BY DEF Control, GraftOK
<1>8. QED
  BY <1>1, <1>2, <1>3, <1>4, <1>5, <1>6, <1>7, MemoryTypes

\* What follows a path element may be used as its address may.
LEMMA AfterWords ==
    ASSUME Memory, NEW w \in Page \cap Usable, IsPathElem(w)
    PROVE  AfterElem(w) \in Live \cup {Null}
<1>1. AfterElem(w) \in Page \cup {Null}
      /\ (AfterElem(w) # Null => Tl(w) \in Page /\ AfterElem(w) = Tl(Tl(w)))
  BY MemoryTypes, PathElems
<1>2. AfterElem(w) # Null => AfterElem(w) \in Usable /\ AfterElem(w) \in Page
  BY <1>1, BaseWords
<1>3. QED
  BY <1>2, BaseWords

\* The path elements in hand read on the new page as they did, and the way back
\* up from the route is the same.
ElemsKept(words) ==
    \A w \in Page : w \in words =>
        /\ page'[w] = page[w]
        /\ CountAt(page', w) = CountAt(page, w)
        /\ ElemAt(page', w) <=> ElemAt(page, w)
        /\ AfterAt(page', w) = AfterAt(page, w)
        /\ MovesAt(page', w) = MovesAt(page, w)

WayKept(q) == \A n : Unwinds(page, val["route"], q, n) => Unwinds(page', val["route"], q, n)

\* A new cell leaves the path elements and the way back up as they were.
LEMMA GraftNew ==
    ASSUME Memory, Control, pc \in Grafting, status' = "running",
           NEW h \in Usable, NEW t \in Usable, NEW continue, new_Cell(h, t, continue)
    PROVE  /\ ret' \in Page /\ page'[ret'] = [hd |-> h, tl |-> t]
           /\ val' = val /\ roots' = roots /\ stale' = FALSE
           /\ ElemsKept({val[x] : x \in GraftRoots} \cup {h, t})
           /\ WayKept(val["rpth"])
           /\ val["rpth"] \in Page => WayKept(AfterAt(page, val["rpth"]))
<1>1. /\ stale = FALSE /\ GraftRoots \subseteq roots
      /\ page \in [Page -> Cell] /\ Acyclic(page)
  BY GraftWords
<1> DEFINE R == Kept(h, t)
<1>3. /\ ret' \in Page /\ page'[ret'] = [hd |-> h, tl |-> t]
      /\ val' = val /\ roots' = roots /\ stale' = FALSE
      /\ page' \in [Page -> Cell] /\ Acyclic(page')
      /\ R \in SUBSET Page /\ Closed(page, R)
      /\ \A c \in R : page'[c] = page[c]
      /\ \A x \in roots : val[x] \in Page => val[x] \in R
      /\ h \in Page => h \in R
      /\ t \in Page => t \in R
  BY <1>1, NewLeaves
<1> HIDE DEF R
<1>4. /\ \A w \in R : CountAt(page', w) = CountAt(page, w)
      /\ \A w \in R : /\ ElemAt(page', w) <=> ElemAt(page, w)
                      /\ AfterAt(page', w) = AfterAt(page, w)
                      /\ MovesAt(page', w) = MovesAt(page, w)
                      /\ AfterAt(page, w) \in Page => AfterAt(page, w) \in R
  BY <1>1, <1>3, SameElems
<1>5. \A w \in Page : w \in {val[x] : x \in GraftRoots} \cup {h, t} => w \in R
  BY <1>1, <1>3
<1>6. /\ val["route"] \in Page => val["route"] \in R
      /\ val["rpth"] \in Page => val["rpth"] \in R
  BY <1>1, <1>3 DEF GraftRoots
<1>7. WayKept(val["rpth"])
  BY <1>1, <1>3, <1>6, UnwindsKept DEF WayKept
<1>8. ASSUME val["rpth"] \in Page
      PROVE  WayKept(AfterAt(page, val["rpth"]))
  <2>1. AfterAt(page, val["rpth"]) \in Page => AfterAt(page, val["rpth"]) \in R
    BY <1>4, <1>6, <1>8
  <2>2. QED
    BY <1>1, <1>3, <1>6, <2>1, UnwindsKept DEF WayKept
<1>9. ElemsKept({val[x] : x \in GraftRoots} \cup {h, t})
  BY <1>3, <1>4, <1>5 DEF ElemsKept
<1>10. QED
  BY <1>3, <1>7, <1>8, <1>9

\* The auto_roots of _graft are registered, the path and an empty route.
LEMMA GraftEnterStep ==
    ASSUME Memory, Control, GraftEnter
    PROVE  Sound
<1>1. pc = "graft" /\ Enter(GraftFrame, GraftInit, "pathElem")
  BY DEF GraftEnter, At, GraftInit
<1>2. /\ \/ \E x \in {"v", "e", "p", "route", "rpth"} :
                Allocator!AddRoot(x, GraftInit[x]) /\ UNCHANGED machine
         \/ /\ {"v", "e", "p", "route", "rpth"} \subseteq roots
            /\ Allocator!AddRoot("tcells", GraftInit["tcells"])
            /\ Locals("pathElem", [NoRaw EXCEPT !.kont = raw.kont])
  BY <1>1, EnterSteps
<1>3. /\ DOMAIN GraftInit = GraftRoots /\ GraftRoots \subseteq Own
      /\ GraftInit["v"] = raw.env /\ GraftInit["e"] = raw.elem /\ GraftInit["p"] = raw.path
      /\ GraftInit["route"] = UNDEF /\ GraftInit["rpth"] = Null /\ GraftInit["tcells"] = Null
  BY DEF GraftInit, GraftRoots, Own, Vars, ElemVars, PcellVars
<1>4. /\ raw \in [DOMAIN NoRaw -> Elem] /\ raw.path \in Page
      /\ \A f \in DOMAIN NoRaw : raw[f] \in Base
      /\ \A x \in GraftRoots \cap roots : val[x] = GraftInit[x]
      /\ raw.kont # UNDEF => op = "!"
  BY <1>1, <1>3, BaseWords
     DEF Control, RawOK, EnterOK, Grafting, Reversing, Walking, Rebuilding
<1>5. \A x \in GraftRoots : GraftInit[x] \in WordsOf(x)
  <2>1. raw.env \in Usable /\ raw.elem \in Usable /\ raw.path \in Live
    BY <1>4, BaseWords, NoRawFields
  <2>2. UNDEF \in Usable
    BY BaseWords
  <2>3. QED
    BY <1>3, <2>1, <2>2 DEF GraftRoots, WordsOf, PcellVars
<1>6. val \in [Vars -> Elem] /\ GraftRoots \subseteq Vars
  BY <1>3, MemoryTypes DEF Own
<1>7. ASSUME NEW x \in {"v", "e", "p", "route", "rpth"},
             Allocator!AddRoot(x, GraftInit[x]), UNCHANGED machine
      PROVE  Sound
  <2>1. pc' = pc /\ raw' = raw /\ left' = left /\ op' = op
    BY <1>7 DEF machine
  <2>2. x \in GraftRoots
    BY DEF GraftRoots
  <2>3. /\ ClientStep
        /\ page' = page /\ ret' = ret /\ stale' = stale /\ Base' = Base
        /\ val' = [val EXCEPT ![x] = GraftInit[x]] /\ roots' = roots \cup {x}
    BY <1>3, <1>5, <1>7, <2>2, AddRootLeaves
  <2>4. RootsOK'
    BY <1>1, <2>1 DEF RootsOK, Evaluating, Grafting, Reversing, Walking, Rebuilding
  <2>5. RawOK'
    BY <2>1, <2>3 DEF Control, RawOK
  <2>6. GraftInit' = GraftInit
    BY <2>1 DEF GraftInit
  <2>7. \A y \in GraftRoots \cap roots' : val'[y] = GraftInit[y]
    BY <1>4, <1>6, <2>2, <2>3
  <2>8. EnterOK' /\ EvaluateOK'
    BY <1>1, <1>3, <1>4, <2>1, <2>6, <2>7 DEF EnterOK, EvaluateOK, Evaluating
  <2>9. GraftOK' /\ UnwindOK'
    BY <1>1, <2>1 DEF Control, GraftOK, UnwindOK, Grafting, Reversing, Walking, Rebuilding
  <2>10. QED
    BY <2>3, <2>4, <2>5, <2>8, <2>9 DEF Control, Sound
<1>8. CASE /\ {"v", "e", "p", "route", "rpth"} \subseteq roots
           /\ Allocator!AddRoot("tcells", GraftInit["tcells"])
           /\ Locals("pathElem", [NoRaw EXCEPT !.kont = raw.kont])
  <2>1. /\ pc' = "pathElem" /\ left' = left /\ op' = op
        /\ raw' = [NoRaw EXCEPT !.kont = raw.kont]
    BY <1>8 DEF Locals
  <2>2. "tcells" \in GraftRoots
    BY DEF GraftRoots
  <2>3. /\ ClientStep
        /\ page' = page /\ ret' = ret /\ stale' = stale
        /\ val' = [val EXCEPT !["tcells"] = GraftInit["tcells"]] /\ roots' = roots \cup {"tcells"}
    BY <1>3, <1>5, <1>8, <2>2, AddRootLeaves
  <2>4. RootsOK'
    BY <1>8, <2>1, <2>3 DEF RootsOK, GraftInit, Evaluating, Grafting, Reversing, Walking, Rebuilding
  <2>5. RawOK'
    BY <1>4, <2>1, NoRawFields, PageWords DEF RawOK, Grafting
  <2>6. EnterOK' /\ EvaluateOK'
    BY <2>1 DEF EnterOK, EvaluateOK, Evaluating
  <2>7. val'["p"] = raw.path /\ val'["route"] = UNDEF /\ val'["rpth"] = Null
    BY <1>3, <1>4, <1>6, <1>8, <2>3 DEF GraftRoots
  <2>8. GraftOK'
    BY <1>4, <2>1, <2>7 DEF Control, GraftOK, Grafting, Reversing, Walking, Rebuilding
  <2>9. UnwindOK'
    BY <2>1, <2>3, <2>7, UnwindsNothing DEF UnwindOK, Reversing, Walking, Rebuilding
  <2>10. QED
    BY <2>3, <2>4, <2>5, <2>6, <2>8, <2>9 DEF Control, Sound
<1>9. QED
  BY <1>2, <1>7, <1>8

\* An assignment to an auto_root of _graft leaves the others.
LEMMA GraftAssign ==
    ASSUME Memory, Control, pc \in Grafting,
           NEW x \in GraftRoots, NEW e \in WordsOf(x), Assign(x, e)
    PROVE  /\ ClientStep
           /\ page' = page /\ ret' = ret /\ roots' = roots /\ stale' = FALSE
           /\ val'[x] = e /\ \A y \in GraftRoots : y # x => val'[y] = val[y]
<1>1. /\ GraftRoots \subseteq Own /\ Own \subseteq Vars
      /\ val \in [Vars -> Elem] /\ stale = FALSE
  BY GraftWords DEF Own
<1>2. /\ ClientStep
      /\ page' = page /\ ret' = ret /\ stale' = stale
      /\ val' = [val EXCEPT ![x] = e] /\ roots' = roots
  BY <1>1, AssignLeaves
<1>3. QED
  BY <1>1, <1>2

\* At the end of the path _graft turns to the new element.
LEMMA GraftPathElemStep ==
    ASSUME Memory, Control, GraftPathElem
    PROVE  Sound
<1> DEFINE p == val["p"]
<1>1. pc = "pathElem" /\ pc \in Grafting
  BY DEF GraftPathElem, At, Grafting
<1>2. /\ p \in Page \cup {Null} /\ val["rpth"] \in Page \cup {Null}
      /\ left \in [tail : Nat, head : Nat]
      /\ Unwinds(page, val["route"], val["rpth"], 0)
  BY <1>1 DEF Control, GraftOK, UnwindOK
<1>3. {"v", "e", "p", "route", "rpth", "tcells"} = GraftRoots
  BY DEF GraftRoots
<1>4. CASE Assign("v", val["e"]) /\ Goto("rpthElem")
  <2>1. pc' = "rpthElem" /\ raw' = raw /\ left' = left /\ op' = op /\ pc' \in Grafting
    BY <1>4 DEF Goto, Locals, Grafting
  <2>2. val["e"] \in WordsOf("v")
    BY <1>1, <1>3, GraftWords
  <2>3. /\ ClientStep /\ page' = page /\ roots' = roots /\ stale' = FALSE
        /\ val'["p"] = p /\ val'["rpth"] = val["rpth"] /\ val'["route"] = val["route"]
    BY <1>1, <1>3, <1>4, <2>2, GraftAssign
  <2>4. GraftOK'
    BY <1>2, <2>1, <2>3 DEF GraftOK, Reversing, Walking
  <2>5. UnwindOK'
    BY <1>2, <2>1, <2>3 DEF UnwindOK, Walking, Rebuilding
  <2>6. Control'
    BY <1>1, <2>1, <2>3, <2>4, <2>5, GraftControl
  <2>7. QED
    BY <2>3, <2>6 DEF Sound
<1>5. CASE p # Null /\ IsCell(Hd(p)) /\ Assign("tcells", Hd(p)) /\ Goto("parse")
  <2>1. pc' = "parse" /\ raw' = raw /\ left' = left /\ op' = op /\ pc' \in Grafting
    BY <1>5 DEF Goto, Locals, Grafting
  <2>2. p \in Page /\ Hd(p) \in Usable
    BY <1>1, <1>2, <1>3, <1>5, GraftWords
  <2>3. Hd(p) \in Page
    BY <1>5, <2>2, BaseWords, SmallWords DEF Words
  <2>4. Hd(p) \in WordsOf("tcells")
    BY <1>1, <2>2, <2>3, GraftWords
  <2>5. /\ ClientStep /\ page' = page /\ roots' = roots /\ stale' = FALSE
        /\ val'["p"] = p /\ val'["rpth"] = val["rpth"] /\ val'["route"] = val["route"]
        /\ val'["tcells"] = Hd(p)
    BY <1>1, <1>3, <1>5, <2>4, GraftAssign
  <2>6. GraftOK'
    BY <1>2, <2>1, <2>2, <2>3, <2>5 DEF GraftOK, Reversing, Walking, Hd
  <2>7. UnwindOK'
    BY <1>2, <2>1, <2>5 DEF UnwindOK, Walking, Rebuilding
  <2>8. Control'
    BY <1>1, <2>1, <2>5, <2>6, <2>7, GraftControl
  <2>9. QED
    BY <2>5, <2>8 DEF Sound
<1>6. QED
  BY <1>4, <1>5, ThrowStep DEF GraftPathElem

\* The counts of a path element are taken from its cells.
LEMMA GraftParseStep ==
    ASSUME Memory, Control, GraftParse
    PROVE  Sound
<1> DEFINE p == val["p"]
<1>1. pc = "parse" /\ pc \in Grafting
  BY DEF GraftParse, At, Grafting
<1>2. /\ p \in Page /\ val["rpth"] \in Page \cup {Null}
      /\ val["tcells"] \in Page /\ val["tcells"] = Hd(p)
      /\ Unwinds(page, val["route"], val["rpth"], 0)
  BY <1>1 DEF Control, GraftOK, UnwindOK
<1>3. {"v", "e", "p", "route", "rpth", "tcells"} = GraftRoots
  BY DEF GraftRoots
<1>4. CASE IsPathElem(p) /\ Assign("p", AfterElem(p)) /\ Moves("reverse", MovesOf(p))
  <2>1. pc' = "reverse" /\ raw' = raw /\ left' = MovesOf(p) /\ op' = op /\ pc' \in Grafting
    BY <1>4 DEF Moves, Grafting, Reversing
  <2>2. page \in [Page -> Cell] /\ Acyclic(page) /\ p \in Page \cap Usable
    BY <1>1, <1>2, <1>3, GraftWords
  <2>3. AfterElem(p) \in Live \cup {Null} /\ AfterElem(p) \in Page \cup {Null}
    BY <1>4, <2>2, AfterWords, PathElems
  <2>4. /\ TailCount(p) \in Nat /\ HeadCount(p) \in 0 .. 255
        /\ TailCount(p) = CountAt(page, Hd(p))
    BY <1>4, <2>2, ElemsHere
  <2>5. AfterElem(p) \in WordsOf("p")
    BY <1>1, <2>3, GraftWords
  <2>6. /\ ClientStep /\ page' = page /\ roots' = roots /\ stale' = FALSE
        /\ val'["p"] = AfterElem(p) /\ val'["rpth"] = val["rpth"]
        /\ val'["route"] = val["route"] /\ val'["tcells"] = val["tcells"]
    BY <1>1, <1>3, <1>4, <2>5, GraftAssign
  <2>7. /\ left' \in [tail : Nat, head : Nat] /\ left'.head \in 0 .. 255
        /\ left'.tail = CountAt(page, val["tcells"])
    BY <1>2, <2>1, <2>4 DEF MovesOf
  <2>8. GraftOK'
    BY <1>2, <2>1, <2>3, <2>6, <2>7 DEF GraftOK, Reversing, Walking
  <2>9. UnwindOK'
    BY <1>2, <2>1, <2>6 DEF UnwindOK, Reversing, Walking, Rebuilding
  <2>10. Control'
    BY <1>1, <2>1, <2>6, <2>8, <2>9, GraftControl
  <2>11. QED
    BY <2>6, <2>10 DEF Sound
<1>5. QED
  BY <1>4, ThrowStep DEF GraftParse


\* A small number is a byte without a tag.
LEMMA SmallBytes ==
    ASSUME NEW b \in Nat, b <= 255
    PROVE  /\ NewByte(b, 0) = b /\ b \in 0 .. UNDEF /\ ByteValue(b) = b
           /\ IsByte(b) /\ IsAByte(b)
<1>1. NewByte(b, 0) = b
  BY DEF NewByte
<1>2. ByteValue(b) = b
  BY DEF ByteValue
<1>3. b < UNDEF /\ UNDEF \in Nat
  BY DEF UNDEF
<1>4. b \in 0 .. UNDEF
  BY <1>3
<1>5. IsByte(b) /\ b # Illegal
  BY <1>3 DEF IsByte, Illegal
<1>6. QED
  BY <1>1, <1>2, <1>4, <1>5 DEF IsAByte

\* A count of head moves is a byte.
LEMMA ByteElems ==
    \A b \in 0 .. 255 : /\ NewByte(b, 0) = b /\ b \in 0 .. UNDEF /\ ByteValue(b) = b
                        /\ IsByte(b) /\ IsAByte(b)
<1>1. \A b \in 0 .. 255 : b \in Nat /\ b <= 255
  OBVIOUS
<1>2. QED
  BY <1>1, SmallBytes

\* The two forms of an element of the reversed path: the last one of the path,
\* and one with an element behind it.
ElemCells(cells, w, k, b, q) ==
    /\ cells[w].hd = k
    /\ \/ cells[w].tl = b /\ q = Null
       \/ /\ cells[w].tl \in Page /\ q \in Page
          /\ cells[cells[w].tl].hd = b /\ cells[cells[w].tl].tl = q

\* Both are a path element of as many moves.
LEMMA ReversedElems ==
    ASSUME NEW cells, NEW w \in Page, NEW k \in Page, NEW b \in 0 .. 255, NEW q,
           CountAt(cells, k) \in Nat, ElemCells(cells, w, k, b, q)
    PROVE  /\ ElemAt(cells, w) /\ AfterAt(cells, w) = q
           /\ MovesAt(cells, w) = CountAt(cells, k) + b
<1>1. HdOf(cells, w) = k /\ TlOf(cells, w) = cells[w].tl
  <2>1. IsPcell(w)
    BY SmallWords, Zenon
  <2>2. cells[w].hd = k
    BY Zenon DEF ElemCells
  <2>3. QED
    BY <2>1, <2>2, Zenon DEF HdOf, TlOf
<1>2. CountAt(cells, k) # Illegal /\ IsByte(b) /\ IsAByte(b) /\ ByteValue(b) = b
  BY ByteElems DEF Illegal
<1>3. HeadAt(cells, w) = b /\ AfterAt(cells, w) = q /\ q # Illegal
  <2>1. CASE cells[w].tl = b /\ q = Null
    BY <1>1, <1>2, <2>1, SmallWords DEF HeadAt, AfterAt
  <2>2. CASE /\ cells[w].tl \in Page /\ q \in Page
             /\ cells[cells[w].tl].hd = b /\ cells[cells[w].tl].tl = q
    <3>1. q \in Words
      BY <2>2, PageWords DEF Words
    <3>2. ~IsByte(cells[w].tl) /\ IsPcell(cells[w].tl) /\ IsCell(q) /\ q # Illegal
      BY <2>2, <3>1, SmallWords
    <3>3. HdOf(cells, cells[w].tl) = b /\ TlOf(cells, cells[w].tl) = q
      BY <2>2, <3>2 DEF HdOf, TlOf
    <3>4. QED
      BY <1>1, <3>2, <3>3 DEF HeadAt, AfterAt
  <2>3. QED
    BY <2>1, <2>2 DEF ElemCells
<1>4. QED
  BY <1>1, <1>2, <1>3 DEF ElemAt, MovesAt

\* A path element is put in front of the reversed path.
LEMMA GraftReverseStep ==
    ASSUME Memory, Control, GraftReverse
    PROVE  Sound
<1> DEFINE count  == NewByte(left.head, 0)
           rpth   == val["rpth"]
           tcells == val["tcells"]
<1>1. pc \in Reversing /\ pc \in Grafting
  BY DEF GraftReverse, At, Grafting, Reversing
<1>2. /\ val["p"] \in Page \cup {Null} /\ rpth \in Page \cup {Null} /\ tcells \in Page
      /\ left \in [tail : Nat, head : Nat]
      /\ left.tail = CountAt(page, tcells) /\ left.head \in 0 .. 255
      /\ Unwinds(page, val["route"], rpth, 0)
  BY <1>1 DEF Control, GraftOK, UnwindOK
<1>3. {"v", "e", "p", "route", "rpth", "tcells"} = GraftRoots
  BY DEF GraftRoots
<1>4. /\ tcells \in Usable /\ rpth \in Usable /\ ret \in Usable
      /\ tcells \in {val[x] : x \in GraftRoots}
  BY <1>1, <1>3, GraftWords
<1>5. count = left.head /\ count \in Usable
  <2>1. NewByte(left.head, 0) = left.head /\ left.head \in 0 .. UNDEF
    BY <1>2, ByteElems, Zenon
  <2>2. left.head \in Usable
    BY <2>1, Zenon DEF Usable
  <2>3. QED
    BY <2>1, <2>2, Zenon
<1> HIDE DEF count
<1>6. CASE pc = "reverse" /\ rpth = Null /\ new_Cell(tcells, count, Goto("reversed"))
  <2>1. ClientStep
    BY <1>4, <1>5, <1>6, NewIsClient
  <2>2. ASSUME status' = "running" PROVE Control'
    <3>1. /\ ret' \in Page /\ page'[ret'] = [hd |-> tcells, tl |-> count]
          /\ val' = val /\ roots' = roots /\ stale' = FALSE /\ Goto("reversed")
          /\ CountAt(page', tcells) = CountAt(page, tcells)
          /\ Unwinds(page', val["route"], rpth, 0)
      <4>1. new_Cell(tcells, count, Goto("reversed"))
        BY <1>6
      <4>2. Goto("reversed")
        BY <1>4, <1>5, <2>2, <4>1, NewIsClient
      <4>3. /\ ret' \in Page /\ page'[ret'] = [hd |-> tcells, tl |-> count]
            /\ val' = val /\ roots' = roots /\ stale' = FALSE
            /\ ElemsKept({val[x] : x \in GraftRoots} \cup {tcells, count})
            /\ WayKept(rpth)
        BY <1>1, <1>4, <1>5, <2>2, <4>1, GraftNew
      <4>4. QED
        BY <1>2, <1>3, <1>4, <4>2, <4>3 DEF ElemsKept, WayKept
    <3>2. pc' = "reversed" /\ raw' = raw /\ left' = left /\ op' = op /\ pc' \in Grafting
      BY <3>1 DEF Goto, Locals, Grafting, Reversing
    <3>3. page'[ret'].hd = tcells /\ page'[ret'].tl = left.head /\ CountAt(page', tcells) \in Nat
      BY <1>2, <1>5, <3>1
    <3>4. /\ ElemAt(page', ret') /\ AfterAt(page', ret') = rpth
          /\ MovesAt(page', ret') = left.tail + left.head
      <4>1. ElemCells(page', ret', tcells, left.head, rpth)
        BY <1>6, <3>3 DEF ElemCells
      <4>2. ret' \in Page /\ tcells \in Page /\ left.head \in 0 .. 255
        BY <1>2, <3>1
      <4>3. /\ ElemAt(page', ret') /\ AfterAt(page', ret') = rpth
            /\ MovesAt(page', ret') = CountAt(page', tcells) + left.head
        BY <3>3, <4>1, <4>2, ReversedElems
      <4>4. QED
        BY <1>2, <3>1, <4>3
    <3>5. GraftOK'
      BY <1>2, <3>1, <3>2, <3>4 DEF GraftOK, Walking
    <3>6. UnwindOK'
      BY <3>1, <3>2 DEF UnwindOK, Walking, Rebuilding
    <3>7. QED
      BY <1>1, <3>1, <3>2, <3>5, <3>6, GraftControl
  <2>3. QED
    BY <2>1, <2>2 DEF Sound
<1>7. CASE pc = "reverse" /\ rpth # Null /\ new_Cell(count, rpth, Goto("prepend"))
  <2>1. ClientStep
    BY <1>4, <1>5, <1>7, NewIsClient
  <2>2. ASSUME status' = "running" PROVE Control'
    <3>1. /\ ret' \in Page /\ page'[ret'] = [hd |-> count, tl |-> rpth]
          /\ val' = val /\ roots' = roots /\ stale' = FALSE /\ Goto("prepend")
          /\ CountAt(page', tcells) = CountAt(page, tcells)
          /\ Unwinds(page', val["route"], rpth, 0)
      <4>1. new_Cell(count, rpth, Goto("prepend"))
        BY <1>7
      <4>2. Goto("prepend")
        BY <1>4, <1>5, <2>2, <4>1, NewIsClient
      <4>3. /\ ret' \in Page /\ page'[ret'] = [hd |-> count, tl |-> rpth]
            /\ val' = val /\ roots' = roots /\ stale' = FALSE
            /\ ElemsKept({val[x] : x \in GraftRoots} \cup {count, rpth})
            /\ WayKept(rpth)
        BY <1>1, <1>4, <1>5, <2>2, <4>1, GraftNew
      <4>4. QED
        BY <1>2, <1>3, <1>4, <4>2, <4>3 DEF ElemsKept, WayKept
    <3>2. pc' = "prepend" /\ raw' = raw /\ left' = left /\ op' = op /\ pc' \in Grafting
      BY <3>1 DEF Goto, Locals, Grafting, Reversing
    <3>3. page'[ret'] = [hd |-> NewByte(left'.head, 0), tl |-> val'["rpth"]]
      BY <3>1, <3>2 DEF count
    <3>4. GraftOK'
      BY <1>2, <1>7, <3>1, <3>2, <3>3 DEF GraftOK, Walking
    <3>5. UnwindOK'
      BY <3>1, <3>2 DEF UnwindOK, Walking, Rebuilding
    <3>6. QED
      BY <1>1, <3>1, <3>2, <3>4, <3>5, GraftControl
  <2>3. QED
    BY <2>1, <2>2 DEF Sound
<1>8. CASE pc = "prepend" /\ new_Cell(tcells, ret, Goto("reversed"))
  <2>1. ClientStep
    BY <1>4, <1>8, NewIsClient
  <2>2. ASSUME status' = "running" PROVE Control'
    <3>1. rpth \in Page /\ ret \in Page /\ page[ret] = [hd |-> count, tl |-> rpth]
      BY <1>8 DEF Control, GraftOK, count
    <3>2. /\ ret' \in Page /\ page'[ret'] = [hd |-> tcells, tl |-> ret]
          /\ val' = val /\ roots' = roots /\ stale' = FALSE /\ Goto("reversed")
          /\ CountAt(page', tcells) = CountAt(page, tcells)
          /\ page'[ret] = page[ret]
          /\ Unwinds(page', val["route"], rpth, 0)
      <4>1. new_Cell(tcells, ret, Goto("reversed"))
        BY <1>8
      <4>2. Goto("reversed")
        BY <1>4, <1>5, <2>2, <4>1, NewIsClient
      <4>3. /\ ret' \in Page /\ page'[ret'] = [hd |-> tcells, tl |-> ret]
            /\ val' = val /\ roots' = roots /\ stale' = FALSE
            /\ ElemsKept({val[x] : x \in GraftRoots} \cup {tcells, ret})
            /\ WayKept(rpth)
        BY <1>1, <1>4, <2>2, <4>1, GraftNew
      <4>4. QED
        BY <1>2, <1>4, <3>1, <4>2, <4>3 DEF ElemsKept, WayKept
    <3>3. pc' = "reversed" /\ raw' = raw /\ left' = left /\ op' = op /\ pc' \in Grafting
      BY <3>2 DEF Goto, Locals, Grafting, Reversing
    <3>4. /\ page'[ret'].hd = tcells /\ page'[ret'].tl = ret
          /\ page'[ret].hd = left.head /\ page'[ret].tl = rpth
          /\ CountAt(page', tcells) \in Nat
      BY <1>2, <1>5, <3>1, <3>2
    <3>5. /\ page'[ret'].tl \in Page /\ page'[page'[ret'].tl].hd = left.head
          /\ page'[page'[ret'].tl].tl = rpth
      BY <3>1, <3>4
    <3>6. /\ ElemAt(page', ret') /\ AfterAt(page', ret') = rpth
          /\ MovesAt(page', ret') = left.tail + left.head
      <4>1. ElemCells(page', ret', tcells, left.head, rpth)
        BY <3>1, <3>4, <3>5 DEF ElemCells
      <4>2. /\ ret' \in Page /\ tcells \in Page /\ left.head \in 0 .. 255
            /\ CountAt(page', tcells) \in Nat
        BY <1>2, <3>2, <3>4
      <4>3. /\ ElemAt(page', ret') /\ AfterAt(page', ret') = rpth
            /\ MovesAt(page', ret') = CountAt(page', tcells) + left.head
        BY <4>1, <4>2, ReversedElems
      <4>4. QED
        BY <1>2, <3>2, <4>3
    <3>7. GraftOK'
      BY <1>2, <3>2, <3>3, <3>6 DEF GraftOK, Walking
    <3>8. UnwindOK'
      BY <3>2, <3>3 DEF UnwindOK, Walking, Rebuilding
    <3>9. QED
      BY <1>1, <3>2, <3>3, <3>7, <3>8, GraftControl
  <2>3. QED
    BY <2>1, <2>2 DEF Sound
<1>9. CASE pc = "reversed" /\ Assign("rpth", ret) /\ Goto("walk")
  <2>1. pc' = "walk" /\ raw' = raw /\ left' = left /\ op' = op /\ pc' \in Grafting
    BY <1>9 DEF Goto, Locals, Grafting, Walking
  <2>2. /\ ElemAt(page, ret) /\ AfterAt(page, ret) = rpth
        /\ MovesAt(page, ret) = left.tail + left.head
    BY <1>9 DEF Control, GraftOK
  <2>3. ret \in Page /\ ret \in WordsOf("rpth")
    BY <1>1, <1>4, <2>2, GraftWords DEF ElemAt
  <2>4. /\ ClientStep /\ page' = page /\ roots' = roots /\ stale' = FALSE
        /\ val'["rpth"] = ret /\ val'["p"] = val["p"] /\ val'["route"] = val["route"]
    BY <1>1, <1>3, <1>9, <2>3, GraftAssign
  <2>5. GraftOK'
    BY <1>2, <2>1, <2>2, <2>3, <2>4 DEF GraftOK, Reversing
  <2>6. MovesAt(page, ret) - left.tail - left.head + 0 = 0
    BY <1>2, <2>2
  <2>7. UnwindOK'
    BY <1>2, <2>1, <2>2, <2>4, <2>6 DEF UnwindOK, Reversing, Rebuilding
  <2>8. Control'
    BY <1>1, <2>1, <2>4, <2>5, <2>7, GraftControl
  <2>9. QED
    BY <2>4, <2>8 DEF Sound
<1>10. QED
  BY <1>6, <1>7, <1>8, <1>9 DEF GraftReverse, At, count


\* The moves of a path element of the page are a number.
LEMMA MovesAreNat ==
    ASSUME Memory, NEW w, ElemAt(page, w)
    PROVE  w \in Page /\ IsPathElem(w) /\ MovesAt(page, w) \in Nat
<1>1. w \in Page /\ page \in [Page -> Cell] /\ Acyclic(page)
  BY MemoryTypes DEF ElemAt
<1>2. IsPathElem(w)
  BY <1>1, ElemsHere
<1>3. /\ TailCount(w) \in Nat /\ HeadCount(w) \in 0 .. 255
      /\ TailCount(w) + HeadCount(w) = MovesAt(page, w)
  BY <1>1, <1>2, ElemsHere
<1>4. QED
  BY <1>1, <1>2, <1>3

\* There are moves left, or there are none.
LEMMA LeftMoves ==
    ASSUME left \in [tail : Nat, head : Nat]
    PROVE  /\ left.tail \in Nat /\ left.head \in Nat
           /\ left = NoMoves <=> left.tail = 0 /\ left.head = 0
           /\ left = NoMoves <=> left.tail + left.head = 0
BY DEF NoMoves

\* A move down has a cell to go on from, or the element is done with.
LEMMA GraftWalkStep ==
    ASSUME Memory, Control, GraftWalk
    PROVE  Sound
<1> DEFINE v      == val["v"]
           passed == IF left.tail > 0 THEN Hd(v) ELSE Tl(v)
           route  == val["route"]
           rpth   == val["rpth"]
           M      == MovesAt(page, rpth)
<1>1. pc = "walk" /\ pc \in Grafting
  BY DEF GraftWalk, At, Grafting, Walking
<1>2. /\ val["p"] \in Page \cup {Null} /\ rpth \in Page \cup {Null}
      /\ left \in [tail : Nat, head : Nat]
      /\ ElemAt(page, rpth)
      /\ Unwinds(page, route, AfterAt(page, rpth), M - left.tail - left.head + 0)
  BY <1>1 DEF Control, GraftOK, UnwindOK, Walking
<1>3. rpth \in Page /\ M \in Nat
  BY <1>2, MovesAreNat
<1>4. {"v", "e", "p", "route", "rpth", "tcells"} = GraftRoots
  BY DEF GraftRoots
<1>5. CASE left = NoMoves /\ Goto("pathElem") /\ UNCHANGED mem
  <2>1. pc' = "pathElem" /\ raw' = raw /\ left' = left /\ op' = op /\ pc' \in Grafting
    BY <1>5 DEF Goto, Locals, Grafting
  <2>2. page' = page /\ val' = val /\ roots' = roots /\ stale' = FALSE
    BY <1>1, <1>5, SameBase, GraftWords
  <2>3. M - left.tail - left.head + 0 = M
    BY <1>2, <1>3, <1>5, LeftMoves
  <2>4. Unwinds(page, route, rpth, 0)
    BY <1>2, <2>3, UnwindsElem
  <2>5. GraftOK'
    BY <1>2, <2>1, <2>2 DEF GraftOK, Reversing, Walking
  <2>6. UnwindOK'
    BY <2>1, <2>2, <2>4 DEF UnwindOK, Walking, Rebuilding
  <2>7. Control'
    BY <1>1, <2>1, <2>2, <2>5, <2>6, GraftControl
  <2>8. QED
    BY <1>5, <2>7 DEF Sound
<1>6. CASE left # NoMoves /\ IsCell(v) /\ new_Cell(passed, route, Goto("push"))
  <2>1. v \in Usable /\ route \in Usable
    BY <1>1, <1>4, GraftWords
  <2>2. v \in Page
    BY <1>6, <2>1, BaseWords, SmallWords DEF Words
  <2>3. passed \in Usable
    BY <1>1, <1>4, <2>2, GraftWords
  <2> HIDE DEF passed
  <2>4. ClientStep
    BY <1>6, <2>1, <2>3, NewIsClient
  <2>5. ASSUME status' = "running" PROVE Control'
    <3>1. new_Cell(passed, route, Goto("push"))
      BY <1>6
    <3>2. Goto("push")
      BY <2>1, <2>3, <2>5, <3>1, NewIsClient
    <3>3. /\ ret' \in Page /\ page'[ret'] = [hd |-> passed, tl |-> route]
          /\ val' = val /\ roots' = roots /\ stale' = FALSE
          /\ ElemsKept({val[x] : x \in GraftRoots} \cup {passed, route})
          /\ rpth \in Page => WayKept(AfterAt(page, rpth))
      BY <1>1, <2>1, <2>3, <2>5, <3>1, GraftNew
    <3>4. pc' = "push" /\ raw' = raw /\ left' = left /\ op' = op /\ pc' \in Grafting
      BY <3>2 DEF Goto, Locals, Grafting, Walking
    <3>5. rpth \in {val[x] : x \in GraftRoots}
      BY <1>4
    <3>6. /\ ElemAt(page', rpth) /\ AfterAt(page', rpth) = AfterAt(page, rpth)
          /\ MovesAt(page', rpth) = M
      BY <1>2, <1>3, <3>3, <3>5 DEF ElemsKept
    <3>7. page'[ret'].tl = route
      BY <3>3
    <3>8. GraftOK'
      BY <1>2, <1>6, <2>2, <3>3, <3>4, <3>6, <3>7 DEF GraftOK, Reversing
    <3>9. Unwinds(page', route, AfterAt(page', rpth),
                  MovesAt(page', rpth) - left.tail - left.head + 0)
      BY <1>2, <1>3, <3>3, <3>6 DEF WayKept
    <3>10. UnwindOK'
      BY <3>3, <3>4, <3>9 DEF UnwindOK, Reversing, Rebuilding
    <3>11. QED
      BY <1>1, <3>3, <3>4, <3>8, <3>10, GraftControl
  <2>6. QED
    BY <2>4, <2>5 DEF Sound
<1>7. QED
  BY <1>5, <1>6, ThrowStep DEF GraftWalk

\* What is passed goes on the route before the move is made.
LEMMA GraftMoveStep ==
    ASSUME Memory, Control, GraftMove
    PROVE  Sound
<1> DEFINE route  == val["route"]
           rpth   == val["rpth"]
           M      == MovesAt(page, rpth)
           after  == AfterAt(page, rpth)
           made   == M - left.tail - left.head
<1>1. pc \in {"push", "move"} /\ pc \in Walking /\ pc \in Grafting
  BY DEF GraftMove, At, Grafting, Walking
<1>2. /\ val["p"] \in Page \cup {Null} /\ rpth \in Page \cup {Null} /\ val["v"] \in Page
      /\ left \in [tail : Nat, head : Nat] /\ left # NoMoves
      /\ ElemAt(page, rpth)
      /\ Unwinds(page, route, after, made + (IF pc = "move" THEN 1 ELSE 0))
      /\ pc = "push" => ret \in Page /\ page[ret].tl = route
  BY <1>1 DEF Control, GraftOK, UnwindOK
<1>3. rpth \in Page /\ M \in Nat /\ made \in Int
  BY <1>2, MovesAreNat
<1>4. {"v", "e", "p", "route", "rpth", "tcells"} = GraftRoots
  BY DEF GraftRoots
<1>5. Hd(val["v"]) \in WordsOf("v") /\ Tl(val["v"]) \in WordsOf("v") /\ ret \in WordsOf("route")
  BY <1>1, <1>2, <1>4, GraftWords
<1>6. CASE pc = "push" /\ Assign("route", ret) /\ Goto("move")
  <2>1. pc' = "move" /\ raw' = raw /\ left' = left /\ op' = op /\ pc' \in Grafting
    BY <1>6 DEF Goto, Locals, Grafting, Walking
  <2>2. /\ ClientStep /\ page' = page /\ roots' = roots /\ stale' = FALSE
        /\ val'["route"] = ret /\ val'["p"] = val["p"] /\ val'["rpth"] = rpth
        /\ val'["v"] = val["v"]
    BY <1>1, <1>4, <1>5, <1>6, GraftAssign
  <2>3. made + (IF pc = "move" THEN 1 ELSE 0) = made
    BY <1>3, <1>6
  <2>4. ret \in Page /\ Unwinds(page, page[ret].tl, after, made)
    BY <1>2, <1>6, <2>3
  <2>5. Unwinds(page, ret, after, made + 1)
    BY <2>4, UnwindsPush
  <2>6. GraftOK'
    BY <1>2, <2>1, <2>2 DEF GraftOK, Reversing
  <2>7. UnwindOK'
    BY <2>1, <2>2, <2>5 DEF UnwindOK, Reversing, Rebuilding
  <2>8. Control'
    BY <1>1, <2>1, <2>2, <2>6, <2>7, GraftControl
  <2>9. QED
    BY <2>2, <2>8 DEF Sound
<1>7. ASSUME NEW moves \in [tail : Nat, head : Nat], NEW w \in WordsOf("v"),
             moves.tail + moves.head = left.tail + left.head - 1,
             pc = "move", Assign("v", w), Moves("walk", moves)
      PROVE  Sound
  <2>1. pc' = "walk" /\ raw' = raw /\ left' = moves /\ op' = op /\ pc' \in Grafting
    BY <1>7 DEF Moves, Grafting, Walking
  <2>2. /\ ClientStep /\ page' = page /\ roots' = roots /\ stale' = FALSE
        /\ val'["route"] = route /\ val'["p"] = val["p"] /\ val'["rpth"] = rpth
    BY <1>1, <1>4, <1>7, GraftAssign
  <2>3. Unwinds(page, route, after, made + 1)
    BY <1>2, <1>7
  <2>4. made + 1 = M - moves.tail - moves.head + 0
    BY <1>2, <1>3, <1>7, LeftMoves
  <2>5. GraftOK'
    BY <1>2, <2>1, <2>2 DEF GraftOK, Reversing
  <2>6. UnwindOK'
    BY <2>1, <2>2, <2>3, <2>4 DEF UnwindOK, Reversing, Rebuilding
  <2>7. Control'
    BY <1>1, <2>1, <2>2, <2>5, <2>6, GraftControl
  <2>8. QED
    BY <2>2, <2>7 DEF Sound
<1>8. CASE /\ pc = "move" /\ left.tail > 0 /\ Assign("v", Tl(val["v"]))
           /\ Moves("walk", [left EXCEPT !.tail = @ - 1])
  <2> DEFINE moves == [left EXCEPT !.tail = @ - 1]
  <2>1. moves \in [tail : Nat, head : Nat] /\ moves.tail + moves.head = left.tail + left.head - 1
    BY <1>2, <1>8
  <2> HIDE DEF moves
  <2>2. Moves("walk", moves)
    BY <1>8 DEF moves
  <2>3. QED
    BY <1>5, <1>7, <1>8, <2>1, <2>2
<1>9. CASE /\ pc = "move" /\ left.tail = 0 /\ Assign("v", Hd(val["v"]))
           /\ Moves("walk", [left EXCEPT !.head = @ - 1])
  <2> DEFINE moves == [left EXCEPT !.head = @ - 1]
  <2>1. left.head > 0
    BY <1>2, <1>9, LeftMoves
  <2>2. moves \in [tail : Nat, head : Nat] /\ moves.tail + moves.head = left.tail + left.head - 1
    BY <1>2, <2>1
  <2> HIDE DEF moves
  <2>3. Moves("walk", moves)
    BY <1>9 DEF moves
  <2>4. QED
    BY <1>5, <1>7, <1>9, <2>2, <2>3
<1>10. QED
  BY <1>6, <1>8, <1>9 DEF GraftMove, At


\* The reversed path is taken apart from its front.
LEMMA GraftReversedElemStep ==
    ASSUME Memory, Control, GraftReversedElem
    PROVE  Sound
<1> DEFINE rpth  == val["rpth"]
           route == val["route"]
<1>1. pc = "rpthElem" /\ pc \in Grafting
  BY DEF GraftReversedElem, At, Grafting
<1>2. /\ val["p"] \in Page \cup {Null} /\ rpth \in Page \cup {Null}
      /\ left \in [tail : Nat, head : Nat]
      /\ Unwinds(page, route, rpth, 0)
  BY <1>1 DEF Control, GraftOK, UnwindOK
<1>3. {"v", "e", "p", "route", "rpth", "tcells"} = GraftRoots
  BY DEF GraftRoots
<1>4. CASE rpth = Null /\ Allocator!ReturnRoot("v") /\ Goto("grafted")
  <2>1. pc' = "grafted" /\ raw' = raw /\ left' = left /\ op' = op
    BY <1>4 DEF Goto, Locals
  <2>2. ClientStep /\ page' = page /\ stale' = FALSE
    BY <1>1, <1>4, ReturnRootLeaves, GraftWords
  <2>3. RootsOK'
    BY <2>1 DEF RootsOK, Evaluating, Grafting, Reversing, Walking, Rebuilding
  <2>4. RawOK'
    <3>1. /\ raw' \in [DOMAIN NoRaw -> Elem]
          /\ raw'.kont # UNDEF => op' = "!"
          /\ \A f \in DOMAIN NoRaw : f # "kont" => raw'[f] = UNDEF
      BY <1>1, <2>1, GraftRaw
    <3>2. QED
      BY <2>1, <3>1 DEF RawOK
  <2>5. EnterOK' /\ EvaluateOK'
    BY <2>1 DEF EnterOK, EvaluateOK, Evaluating
  <2>6. GraftOK' /\ UnwindOK'
    BY <1>2, <2>1 DEF GraftOK, UnwindOK, Grafting, Reversing, Walking, Rebuilding
  <2>7. QED
    BY <2>2, <2>3, <2>4, <2>5, <2>6 DEF Control, Sound
<1>5. CASE rpth # Null /\ Assign("rpth", AfterElem(rpth)) /\ Moves("rebuild", MovesOf(rpth))
  <2>1. pc' = "rebuild" /\ raw' = raw /\ left' = MovesOf(rpth) /\ op' = op /\ pc' \in Grafting
    BY <1>5 DEF Moves, Grafting, Rebuilding
  <2>2. ElemAt(page, rpth) /\ Unwinds(page, route, AfterAt(page, rpth), MovesAt(page, rpth))
    BY <1>2, <1>5, UnwindsOn
  <2>3. IsPathElem(rpth) /\ rpth \in Page \cap Usable
    BY <1>1, <1>3, <2>2, GraftWords, MovesAreNat
  <2>4. page \in [Page -> Cell] /\ Acyclic(page)
    BY MemoryTypes
  <2>5. /\ AfterElem(rpth) \in Live \cup {Null} /\ AfterElem(rpth) \in Page \cup {Null}
        /\ AfterElem(rpth) = AfterAt(page, rpth)
    BY <2>3, <2>4, AfterWords, PathElems, ElemsHere
  <2>6. /\ TailCount(rpth) \in Nat /\ HeadCount(rpth) \in 0 .. 255
        /\ TailCount(rpth) + HeadCount(rpth) = MovesAt(page, rpth)
    BY <2>3, <2>4, ElemsHere
  <2>7. AfterElem(rpth) \in WordsOf("rpth")
    BY <1>1, <2>5, GraftWords
  <2>8. /\ ClientStep /\ page' = page /\ roots' = roots /\ stale' = FALSE
        /\ val'["rpth"] = AfterElem(rpth) /\ val'["p"] = val["p"] /\ val'["route"] = route
    BY <1>1, <1>3, <1>5, <2>7, GraftAssign
  <2>9. /\ left' \in [tail : Nat, head : Nat]
        /\ left'.tail + left'.head = MovesAt(page, rpth)
    BY <2>1, <2>6 DEF MovesOf
  <2>10. GraftOK'
    BY <1>2, <2>1, <2>5, <2>8, <2>9 DEF GraftOK, Reversing, Walking
  <2>11. UnwindOK'
    BY <2>1, <2>2, <2>5, <2>8, <2>9 DEF UnwindOK, Reversing, Walking
  <2>12. Control'
    BY <1>1, <2>1, <2>8, <2>10, <2>11, GraftControl
  <2>13. QED
    BY <2>8, <2>12 DEF Sound
<1>6. QED
  BY <1>4, <1>5 DEF GraftReversedElem

\* There is a cell on the route for every move that is undone.
LEMMA GraftRebuildStep ==
    ASSUME Memory, Control, GraftRebuild
    PROVE  Sound
<1> DEFINE v     == val["v"]
           rpth  == val["rpth"]
           route == val["route"]
           top   == Hd(route)
<1>1. pc = "rebuild" /\ pc \in Grafting
  BY DEF GraftRebuild, At, Grafting, Rebuilding
<1>2. /\ val["p"] \in Page \cup {Null} /\ rpth \in Page \cup {Null}
      /\ left \in [tail : Nat, head : Nat]
      /\ Unwinds(page, route, rpth, left.tail + left.head)
  BY <1>1 DEF Control, GraftOK, UnwindOK, Rebuilding
<1>3. {"v", "e", "p", "route", "rpth", "tcells"} = GraftRoots
  BY DEF GraftRoots
<1>4. CASE left = NoMoves /\ Goto("rpthElem") /\ UNCHANGED mem
  <2>1. pc' = "rpthElem" /\ raw' = raw /\ left' = left /\ op' = op /\ pc' \in Grafting
    BY <1>4 DEF Goto, Locals, Grafting
  <2>2. page' = page /\ val' = val /\ roots' = roots /\ stale' = FALSE
    BY <1>1, <1>4, SameBase, GraftWords
  <2>3. Unwinds(page, route, rpth, 0)
    BY <1>2, <1>4, LeftMoves
  <2>4. GraftOK'
    BY <1>2, <2>1, <2>2 DEF GraftOK, Reversing, Walking
  <2>5. UnwindOK'
    BY <2>1, <2>2, <2>3 DEF UnwindOK, Walking, Rebuilding
  <2>6. Control'
    BY <1>1, <2>1, <2>2, <2>4, <2>5, GraftControl
  <2>7. QED
    BY <1>4, <2>6 DEF Sound
<1>5. ASSUME NEW h \in {v, top}, NEW t \in {v, top}, left # NoMoves,
             new_Cell(h, t, Goto("rebuilt"))
      PROVE  Sound
  <2>1. left.tail + left.head > 0
    BY <1>2, <1>5, LeftMoves
  <2>2. route \in Page
    BY <1>2, <2>1, UnwindsOn
  <2>3. h \in Usable /\ t \in Usable
    BY <1>1, <1>3, <2>2, GraftWords
  <2>4. ClientStep
    BY <1>5, <2>3, NewIsClient
  <2>5. ASSUME status' = "running" PROVE Control'
    <3>1. Goto("rebuilt")
      BY <1>5, <2>3, <2>5, NewIsClient
    <3>2. /\ val' = val /\ roots' = roots /\ stale' = FALSE
          /\ WayKept(rpth)
      BY <1>1, <1>5, <2>3, <2>5, GraftNew
    <3>3. pc' = "rebuilt" /\ raw' = raw /\ left' = left /\ op' = op /\ pc' \in Grafting
      BY <3>1 DEF Goto, Locals, Grafting, Rebuilding
    <3>4. Unwinds(page', route, rpth, left.tail + left.head)
      BY <1>2, <3>2 DEF WayKept
    <3>5. GraftOK'
      BY <1>2, <1>5, <3>2, <3>3 DEF GraftOK, Reversing, Walking
    <3>6. UnwindOK'
      BY <3>2, <3>3, <3>4 DEF UnwindOK, Reversing, Walking
    <3>7. QED
      BY <1>1, <3>2, <3>3, <3>5, <3>6, GraftControl
  <2>6. QED
    BY <2>4, <2>5 DEF Sound
<1>6. CASE left.head > 0 /\ new_Cell(v, top, Goto("rebuilt"))
  <2>1. left # NoMoves
    BY <1>6 DEF NoMoves
  <2>2. QED
    BY <1>5, <1>6, <2>1
<1>7. CASE left.tail > 0 /\ new_Cell(top, v, Goto("rebuilt"))
  <2>1. left # NoMoves
    BY <1>7 DEF NoMoves
  <2>2. QED
    BY <1>5, <1>7, <2>1
<1>8. QED
  BY <1>4, <1>6, <1>7 DEF GraftRebuild

\* The cell that has been rebuilt comes off the route.
LEMMA GraftPopStep ==
    ASSUME Memory, Control, GraftPop
    PROVE  Sound
<1> DEFINE rpth  == val["rpth"]
           route == val["route"]
<1>1. pc \in {"rebuilt", "pop"} /\ pc \in Grafting
  BY DEF GraftPop, At, Grafting, Rebuilding
<1>2. /\ val["p"] \in Page \cup {Null} /\ rpth \in Page \cup {Null}
      /\ left \in [tail : Nat, head : Nat] /\ left # NoMoves
      /\ Unwinds(page, route, rpth, left.tail + left.head)
  BY <1>1 DEF Control, GraftOK, UnwindOK, Rebuilding
<1>3. {"v", "e", "p", "route", "rpth", "tcells"} = GraftRoots
  BY DEF GraftRoots
<1>4. CASE pc = "rebuilt" /\ Assign("v", ret) /\ Goto("pop")
  <2>1. pc' = "pop" /\ raw' = raw /\ left' = left /\ op' = op /\ pc' \in Grafting
    BY <1>4 DEF Goto, Locals, Grafting, Rebuilding
  <2>2. ret \in WordsOf("v")
    BY <1>1, GraftWords
  <2>3. /\ ClientStep /\ page' = page /\ roots' = roots /\ stale' = FALSE
        /\ val'["route"] = route /\ val'["p"] = val["p"] /\ val'["rpth"] = rpth
    BY <1>1, <1>3, <1>4, <2>2, GraftAssign
  <2>4. GraftOK'
    BY <1>2, <2>1, <2>3 DEF GraftOK, Reversing, Walking
  <2>5. UnwindOK'
    BY <1>2, <2>1, <2>3 DEF UnwindOK, Reversing, Walking
  <2>6. Control'
    BY <1>1, <2>1, <2>3, <2>4, <2>5, GraftControl
  <2>7. QED
    BY <2>3, <2>6 DEF Sound
<1> DEFINE moves == IF left.head > 0 THEN [left EXCEPT !.head = @ - 1]
                                     ELSE [left EXCEPT !.tail = @ - 1]
<1>5. CASE pc = "pop" /\ Assign("route", Tl(route)) /\ Moves("rebuild", moves)
  <2>1. pc' = "rebuild" /\ raw' = raw /\ left' = moves /\ op' = op /\ pc' \in Grafting
    BY <1>5 DEF Moves, Grafting, Rebuilding
  <2>2. left.tail \in Nat /\ left.head \in Nat /\ left.tail + left.head > 0
    BY <1>2, LeftMoves
  <2>3. /\ moves \in [tail : Nat, head : Nat]
        /\ moves.tail + moves.head = left.tail + left.head - 1
    <3>1. CASE left.head > 0
      BY <1>2, <3>1
    <3>2. CASE ~(left.head > 0)
      <4>1. left.head = 0 /\ left.tail > 0
        BY <2>2, <3>2
      <4>2. QED
        BY <1>2, <4>1
    <3>3. QED
      BY <3>1, <3>2
  <2> HIDE DEF moves
  <2>4. route \in Page /\ Unwinds(page, page[route].tl, rpth, left.tail + left.head - 1)
    BY <1>2, <2>2, UnwindsOn
  <2>5. Tl(route) \in WordsOf("route") /\ Tl(route) = page[route].tl
    <3>1. Tl(route) = page[route].tl
      BY <2>4, SmallWords DEF Tl
    <3>2. QED
      BY <1>1, <1>3, <2>4, <3>1, GraftWords
  <2>6. /\ ClientStep /\ page' = page /\ roots' = roots /\ stale' = FALSE
        /\ val'["route"] = Tl(route) /\ val'["p"] = val["p"] /\ val'["rpth"] = rpth
    BY <1>1, <1>3, <1>5, <2>5, GraftAssign
  <2>7. GraftOK'
    BY <1>2, <2>1, <2>3, <2>6 DEF GraftOK, Reversing, Walking
  <2>8. Unwinds(page', val'["route"], val'["rpth"], left'.tail + left'.head)
    BY <2>1, <2>3, <2>4, <2>5, <2>6
  <2>9. UnwindOK'
    BY <2>1, <2>8 DEF UnwindOK, Reversing, Walking
  <2>10. Control'
    BY <1>1, <2>1, <2>6, <2>7, <2>9, GraftControl
  <2>11. QED
    BY <2>6, <2>10 DEF Sound
<1>6. QED
  BY <1>4, <1>5 DEF GraftPop, At


-----------------------------------------------------------------------------
(***************************************************************************)
(* What _mark keeps is what the roots lead to, whichever root leads there. *)
(***************************************************************************)
LEMMA AliveIsLive ==
    ASSUME Memory
    PROVE  Alive = Live
<1> DEFINE held  == {val[x] : x \in roots} \cup {ret}
           words == {w \in held : w \in Page}
           all   == UNION {Reach(page, {w}) : w \in words}
<1>1. page \in [Page -> Cell]
  BY MemoryTypes
<1>2. \A w \in words : MarkFrom(page, {}, w) = Reach(page, {w})
  <2>1. TAKE w \in words
  <2>2. w \in Page /\ {} \in SUBSET Page
    OBVIOUS
  <2>3. MarkFrom(page, {}, w) = Marked(page, {}, w)
    BY <1>1, <2>2, MarkFromMarks
  <2>4. MarkFrom(page, {}, w) = Reach(page, {} \cup {w})
    BY <2>3, MarkedReach, ReachNothing
  <2>5. {} \cup {w} = {w}
    OBVIOUS
  <2>6. QED
    BY <2>4, <2>5
<1>3. Alive = all
  <2>1. Alive = UNION {MarkFrom(page, {}, w) : w \in words}
    BY Zenon DEF Alive
  <2> HIDE DEF words
  <2>2. {MarkFrom(page, {}, w) : w \in words} = {Reach(page, {w}) : w \in words}
    BY <1>2, Zenon
  <2>3. QED
    BY <2>1, <2>2, Zenon
<1>4. all \in SUBSET Page /\ Closed(page, all) /\ held \cap Page \subseteq all
  <2>1. \A w \in words : /\ Reach(page, {w}) \in SUBSET Page /\ Closed(page, Reach(page, {w}))
                         /\ w \in Reach(page, {w})
    BY ReachClosed, ReachHoldsWords
  <2>2. QED
    BY <2>1 DEF Closed
<1>5. \A w \in words : Reach(page, {w}) \subseteq Live
  <2>1. \A w \in words : {w} \subseteq held
    OBVIOUS
  <2> HIDE DEF words, held
  <2>2. QED
    BY <2>1, ReachMonotone DEF Live, held
<1>6. all \subseteq Live
  <2> HIDE DEF words
  <2>1. QED
    BY <1>5
<1> HIDE DEF all
<1>7. Live \subseteq all
  BY <1>4, ReachLeast DEF Live
<1>8. QED
  BY <1>3, <1>6, <1>7

(***************************************************************************)
(* The continuation of a graft statement is the one plain local that is    *)
(* used after a new_Cell may have collected, and that nothing else holds.  *)
(***************************************************************************)
KontAlive == status = "running" /\ raw.kont \in Page => raw.kont \in Alive

\* The end of _graft, and of the statement.
LEMMA GraftReturnStep ==
    ASSUME Memory, Control, KontAlive, GraftReturn
    PROVE  Sound
<1> DEFINE kont == raw.kont
           continue == \/ op = "+" /\ UNCHANGED mem /\ Answer(ret)
                       \/ op = "!" /\ new_Cell(kont, ret, Answer(ret'))
<1>1. pc = "grafted" /\ status = "running" /\ Leave(continue)
  BY DEF GraftReturn, At
<1>2. kont \in Elem
  BY <1>1, GraftRaw, NoRawFields
<1> HIDE DEF continue
<1>3. Sound \/ (roots \subseteq {"defn"} /\ continue)
  BY <1>1, LeaveStep
<1>4. SUFFICES ASSUME roots \subseteq {"defn"}, continue PROVE Sound
  BY <1>3
<1>5. stale = FALSE
  BY DEF Control
<1>6. ret \in Base /\ ret \in Elem /\ ret \in Usable
  BY BaseWords
<1>7. CASE op = "+" /\ UNCHANGED mem /\ Answer(ret)
  <2>1. ret \in Base' /\ roots' = roots /\ stale' = FALSE
    BY <1>5, <1>6, <1>7, SameBase
  <2>2. QED
    BY <1>4, <1>6, <1>7, <2>1, AnswerStep
<1>8. CASE op = "!" /\ new_Cell(kont, ret, Answer(ret'))
  <2>1. kont \in Usable
    <3>1. kont \in Page => kont \in Live
      BY <1>1, AliveIsLive DEF KontAlive
    <3>2. kont \notin Page => kont \in 0 .. UNDEF
      BY <1>2, SmallWords DEF Words
    <3>3. QED
      BY <3>1, <3>2 DEF Usable
  <2> HIDE DEF kont
  <2>2. new_Cell(kont, ret, Answer(ret'))
    BY <1>8
  <2>3. QED
    BY <1>4, <1>6, <2>1, <2>2, NewAnswerStep
<1>9. QED
  BY <1>4, <1>7, <1>8 DEF continue

\* The interpreter takes no step once the process has stopped.
LEMMA NextRuns == Next => status = "running"
BY DEF Next, At, Operator, Execute, Unwind, EvaluateEnter, EvaluateFirst, EvaluateNext,
       EvaluateAdvance, EvaluateReturn, GraftEnter, GraftPathElem, GraftParse, GraftReverse,
       GraftWalk, GraftMove, GraftReversedElem, GraftRebuild, GraftPop, GraftReturn

\* Every step is sound while the continuation is there.
LEMMA StepSound ==
    ASSUME Memory, Control, KontAlive, Next
    PROVE  Sound
<1>1. CASE Operator \/ Execute \/ Unwind
  BY <1>1, OperatorStep, ExecuteStep, UnwindStep
<1>2. CASE EvaluateEnter \/ EvaluateFirst \/ EvaluateNext \/ EvaluateAdvance \/ EvaluateReturn
  BY <1>2, EvaluateEnterStep, EvaluateFirstStep, EvaluateNextStep, EvaluateAdvanceStep,
     EvaluateReturnStep
<1>3. CASE GraftEnter \/ GraftPathElem \/ GraftParse \/ GraftReverse \/ GraftWalk
  BY <1>3, GraftEnterStep, GraftPathElemStep, GraftParseStep, GraftReverseStep, GraftWalkStep
<1>4. CASE GraftMove \/ GraftReversedElem \/ GraftRebuild \/ GraftPop \/ GraftReturn
  BY <1>4, GraftMoveStep, GraftReversedElemStep, GraftRebuildStep, GraftPopStep,
     GraftReturnStep
<1>5. QED
  BY <1>1, <1>2, <1>3, <1>4 DEF Next


-----------------------------------------------------------------------------
\* The operand is the shell's word, or the last answer.
LEMMA InitWords ==
    ASSUME Init
    PROVE  \E q \in Problems, n \in FreeCounts :
             LET unused == {c \in Page : c <= UNDEF + n}
             IN  /\ unused \cap DOMAIN q.cells = {} /\ free = unused
                 /\ page = [c \in Page |->
                              IF c \in DOMAIN q.cells THEN q.cells[c]
                              ELSE FreeCell(c, IF c \in unused THEN unused ELSE {})]
                 /\ raw = [NoRaw EXCEPT !.state = q.operand]
                 /\ val \in [Vars -> Elem] /\ roots \subseteq {"defn"}
                 /\ {val[x] : x \in roots} \cup {ret} \subseteq {q.operand, UNDEF}
                 /\ ret = q.operand \/ ("defn" \in roots /\ val["defn"] = q.operand)
<1>1. PICK q \in Problems, n \in FreeCounts :
             LET unused == {c \in Page : c <= UNDEF + n}
             IN  /\ unused \cap DOMAIN q.cells = {} /\ free = unused
                 /\ page = [c \in Page |->
                              IF c \in DOMAIN q.cells THEN q.cells[c]
                              ELSE FreeCell(c, IF c \in unused THEN unused ELSE {})]
                 /\ raw = [NoRaw EXCEPT !.state = q.operand]
                 /\ roots = IF q.pinned THEN {"defn"} ELSE {}
                 /\ val = [x \in Allocator!Var |-> IF q.pinned /\ x = "defn" THEN q.operand
                                                   ELSE Allocator!Empty(x)]
                 /\ ret = IF q.pinned THEN UNDEF ELSE q.operand
  BY Zenon DEF Init
<1>2. q.operand \in Elem /\ UNDEF \in Elem /\ Null \in Elem /\ "defn" \in Vars
  BY ProblemsAssumption, PageWords, SmallWords DEF Null, Vars, ElemVars
<1>3. Allocator!Var = Vars /\ \A x \in Vars : Allocator!Empty(x) \in {UNDEF, Null}
  BY SameWords, SameCells DEF Allocator!Empty
<1>4. val = [x \in Vars |-> IF q.pinned /\ x = "defn" THEN q.operand ELSE Allocator!Empty(x)]
  BY <1>1, <1>3, Zenon
<1>5. \A x \in Vars :
        (IF q.pinned /\ x = "defn" THEN q.operand ELSE Allocator!Empty(x)) \in Elem
  BY <1>2, <1>3
<1>6. val \in [Vars -> Elem]
  BY <1>4, <1>5, Zenon
<1>7. CASE q.pinned
  <2>1. roots = {"defn"} /\ ret = UNDEF
    BY <1>1, <1>7, Zenon
  <2>2. val["defn"] = q.operand
    BY <1>2, <1>4, <1>7, Zenon
  <2>3. {val[x] : x \in roots} \cup {ret} \subseteq {q.operand, UNDEF}
    BY <2>1, <2>2
  <2>4. QED
    BY <1>1, <1>6, <2>1, <2>2, <2>3, Zenon
<1>8. CASE ~q.pinned
  <2>1. roots = {} /\ ret = q.operand
    BY <1>1, <1>8, Zenon
  <2>2. {val[x] : x \in roots} \cup {ret} \subseteq {q.operand, UNDEF} /\ roots \subseteq {"defn"}
    BY <2>1
  <2>3. QED
    BY <1>1, <1>6, <2>1, <2>2, Zenon
<1>9. QED
  BY <1>7, <1>8, Zenon

\* The page the parser left is in order.
LEMMA InitMemory ==
    ASSUME Init
    PROVE  Memory
<1>1. PICK q \in Problems, n \in FreeCounts :
             LET unused == {c \in Page : c <= UNDEF + n}
             IN  /\ unused \cap DOMAIN q.cells = {} /\ free = unused
                 /\ page = [c \in Page |->
                              IF c \in DOMAIN q.cells THEN q.cells[c]
                              ELSE FreeCell(c, IF c \in unused THEN unused ELSE {})]
                 /\ raw = [NoRaw EXCEPT !.state = q.operand]
                 /\ val \in [Vars -> Elem] /\ roots \subseteq {"defn"}
                 /\ {val[x] : x \in roots} \cup {ret} \subseteq {q.operand, UNDEF}
                 /\ ret = q.operand \/ ("defn" \in roots /\ val["defn"] = q.operand)
  BY InitWords, Zenon
<1> DEFINE own    == DOMAIN q.cells
           cells  == q.cells
           unused == {c \in Page : c <= UNDEF + n}
<1>2. /\ q.operand \in Elem /\ (IsPcell(q.operand) => q.operand \in own)
      /\ own \in SUBSET Page
      /\ \A c \in own : cells[c] \in Cell /\ Children(cells, c) \subseteq own
      /\ \A S \in SUBSET own : S # {} => \E c \in S : Children(cells, c) \cap S = {}
  BY ProblemsAssumption
<1>3. unused \in SUBSET Page
  OBVIOUS
<1> HIDE DEF own, cells, unused
<1>4. /\ unused \cap own = {} /\ free = unused
      /\ page = [c \in Page |-> IF c \in own THEN cells[c]
                                ELSE FreeCell(c, IF c \in unused THEN unused ELSE {})]
      /\ val \in [Vars -> Elem] /\ roots \subseteq {"defn"}
      /\ {val[x] : x \in roots} \cup {ret} \subseteq {q.operand, UNDEF}
  BY <1>1, Zenon DEF unused, own, cells
<1>5. /\ \A c \in own : page[c] = cells[c]
      /\ \A c \in unused : page[c] = FreeCell(c, unused)
      /\ \A c \in Page : c \notin own /\ c \notin unused => page[c] = FreeCell(c, {})
  BY <1>2, <1>3, <1>4
<1>6. Allocator!TypeOK
  <2>1. page \in [Page -> Cell]
    <3>1. ASSUME NEW c \in Page
          PROVE  page[c] \in Cell
      BY <1>2, <1>3, <1>5, FreeCellType
    <3>2. QED
      BY <1>4, <3>1
  <2>2. roots \subseteq Vars /\ ret \in Elem
    BY <1>2, <1>4, PageWords DEF Vars, ElemVars
  <2>3. stale = FALSE /\ status = "running" /\ interactive = FALSE
    BY Zenon DEF Init
  <2>4. QED
    BY <1>3, <1>4, <2>1, <2>2, <2>3, SameCells, SameWords DEF Allocator!TypeOK
<1>7. \A c \in own : Children(page, c) = Children(cells, c)
  BY <1>5 DEF Children
<1>8. Closed(page, Page \ free)
  <2>1. ASSUME NEW c \in Page \ free
        PROVE  Children(page, c) \subseteq Page \ free
    <3>1. CASE c \in own
      BY <1>2, <1>4, <1>7, <3>1
    <3>2. CASE c \notin own
      <4>1. page[c] = FreeCell(c, {})
        BY <1>4, <1>5, <2>1, <3>2
      <4>2. page[c].hd = Null /\ page[c].tl = UNDEF
        BY <4>1 DEF FreeCell, FreeLink
      <4>3. QED
        BY <4>2, PageWords, SmallWords DEF Children
    <3>3. QED
      BY <3>1, <3>2
  <2>2. QED
    BY <2>1 DEF Closed
<1>9. ({val[x] : x \in roots} \cup {ret}) \cap free = {}
  <2>1. q.operand \notin free /\ UNDEF \notin free
    BY <1>2, <1>3, <1>4, PageWords, PcellIsPage
  <2>2. QED
    BY <1>4, <2>1
<1>10. \A c \in Page : c \notin own => \A d \in Children(page, c) : d < c
  <2>1. TAKE c \in Page
  <2>2. HAVE c \notin own
  <2>3. \E dead \in SUBSET Page : page[c] = FreeCell(c, dead)
    BY <1>3, <1>5, <2>2
  <2>4. QED
    BY <2>3, FreeCellsLinkDown
<1>11. ASSUME NEW S \in SUBSET Page, S # {}
       PROVE  \E c \in S : Children(page, c) \cap S = {}
  <2>1. CASE S \cap own = {}
    BY <1>10, <1>11, <2>1, DownwardsIsAcyclic
  <2>2. CASE S \cap own # {}
    <3>1. PICK c \in S \cap own : Children(cells, c) \cap (S \cap own) = {}
      BY <1>2, <2>2
    <3>2. Children(page, c) \subseteq own /\ Children(page, c) = Children(cells, c)
      BY <1>2, <1>7
    <3>3. QED
      BY <3>1, <3>2
  <2>3. QED
    BY <2>1, <2>2
<1>12. Allocator!NoCycles
  <2>1. \A c \in free : \A d \in Children(page, c) : d < c
    BY <1>3, <1>4, <1>10
  <2>2. QED
    BY <1>11, <2>1, SameCells
       DEF Allocator!NoCycles, Allocator!Acyclic, Allocator!Children, Children
<1>13. QED
  BY <1>6, <1>8, <1>9, <1>12, SameCells, SameReach, SameWords
     DEF Memory, Allocator!AllocatedClosed

\* The interpreter has the operand in hand, and nothing else.
LEMMA InitControl ==
    ASSUME Init
    PROVE  Control
<1>1. PICK q \in Problems :
        /\ raw = [NoRaw EXCEPT !.state = q.operand] /\ roots \subseteq {"defn"}
        /\ ret = q.operand \/ ("defn" \in roots /\ val["defn"] = q.operand)
  BY InitWords, Zenon
<1>2. q.operand \in Base /\ q.operand \in Elem
  BY <1>1, InitMemory, BaseWords, ProblemsAssumption
<1>3. stale = FALSE /\ left = NoMoves /\ pc = IF op = "!" THEN "loop" ELSE "operator"
  BY Zenon DEF Init
<1>4. pc \in {"loop", "operator"} /\ (pc = "loop" => op = "!")
  BY <1>3
<1>5. RootsOK
  BY <1>1, <1>4 DEF RootsOK, Evaluating, Grafting, Reversing, Walking, Rebuilding
<1>6. RawOK
  <2>1. /\ raw \in [DOMAIN NoRaw -> Elem] /\ raw.kont = UNDEF
        /\ \A f \in DOMAIN NoRaw : raw[f] = UNDEF \/ raw[f] \in Base
    BY <1>1, <1>2, PageWords, NoRawFields
  <2>2. QED
    BY <1>4, <2>1 DEF RawOK, Evaluating, Grafting, Reversing, Walking, Rebuilding
<1>7. EnterOK /\ EvaluateOK
  BY <1>4 DEF EnterOK, EvaluateOK, Evaluating
<1>8. GraftOK /\ UnwindOK
  BY <1>3, <1>4 DEF GraftOK, UnwindOK, NoMoves, Grafting, Reversing, Walking, Rebuilding
<1>9. QED
  BY <1>3, <1>5, <1>6, <1>7, <1>8 DEF Control


\* Every step carries out the same operator.
LEMMA OpStays == Next => op' = op
<1>1. /\ \A w : Answer(w) => op' = op
      /\ \A w : AnswerOrThrow(w) => op' = op
      /\ \A env, expr : CallEvaluate(env, expr) => op' = op
      /\ \A env, elem, path, kont : CallGraft(env, elem, path, kont) => op' = op
      /\ Throw => op' = op
  <2>1. \A w : Answer(w) => op' = op
    BY DEF Answer, Finish, Locals
  <2>2. Throw => op' = op
    BY DEF Throw, Locals
  <2>3. \A w : AnswerOrThrow(w) => op' = op
    BY <2>1, <2>2, Zenon DEF AnswerOrThrow
  <2>4. \A env, expr : CallEvaluate(env, expr) => op' = op
    BY <2>3, Zenon DEF CallEvaluate, Locals
  <2>5. \A env, elem, path, kont : CallGraft(env, elem, path, kont) => op' = op
    BY DEF CallGraft, Locals
  <2>6. QED
    BY <2>1, <2>2, <2>3, <2>4, <2>5
<1>2. Operator => op' = op
  <2> DEFINE state == raw.state
  <2>1. Operator => \/ AnswerOrThrow(state)
                    \/ Throw
                    \/ AnswerOrThrow(_select(Hd(state), Tl(state)))
                    \/ AnswerOrThrow(_ifcell(Hd(state), Tl(state)))
                    \/ CallEvaluate(Hd(state), Tl(state))
                    \/ CallGraft(Hd(state), HdTl(state), Tl(Tl(state)), UNDEF)
    BY DEF Operator
  <2> HIDE DEF state
  <2>2. QED
    BY <1>1, <2>1, Zenon
<1>3. Execute => op' = op
  BY <1>1 DEF Execute, new_Cell, machine, Finish, Locals
<1>4. Unwind \/ EvaluateReturn \/ GraftReturn => op' = op
  BY <1>1 DEF Unwind, EvaluateReturn, GraftReturn, Leave, Goto, Locals, new_Cell, machine
<1>5. EvaluateEnter \/ EvaluateFirst \/ EvaluateNext \/ EvaluateAdvance => op' = op
  BY <1>1 DEF EvaluateEnter, EvaluateFirst, EvaluateNext, EvaluateAdvance, Enter, Goto, Locals,
              new_Cell, machine
<1>6. GraftEnter \/ GraftPathElem \/ GraftParse \/ GraftReverse \/ GraftWalk => op' = op
  BY <1>1 DEF GraftEnter, GraftPathElem, GraftParse, GraftReverse, GraftWalk, Enter, Goto,
              Locals, Moves, new_Cell, machine
<1>7. GraftMove \/ GraftReversedElem \/ GraftRebuild \/ GraftPop => op' = op
  BY DEF GraftMove, GraftReversedElem, GraftRebuild, GraftPop, Goto, Locals, Moves, new_Cell,
         machine
<1>8. QED
  BY <1>2, <1>3, <1>4, <1>5, <1>6, <1>7 DEF Next

\* What holds at each place of the interpreter holds to start with, and is kept
\* while the continuation is there.
LEMMA InvSteps ==
    /\ Init => Inv
    /\ Inv /\ KontAlive /\ [Next]_vars => Inv'
<1>1. Init => Inv
  BY InitMemory, InitControl DEF Inv
<1>2. SUFFICES ASSUME Inv, KontAlive, [Next]_vars PROVE Inv'
  BY <1>1
<1>3. CASE Next
  <2>1. Memory /\ Control
    BY <1>2, <1>3, NextRuns DEF Inv
  <2>2. Sound
    BY <1>2, <1>3, <2>1, StepSound
  <2>3. Memory'
    BY <2>1, <2>2, MemoryStep DEF Sound
  <2>4. QED
    BY <2>2, <2>3 DEF Inv, Sound
<1>4. CASE UNCHANGED vars
  <2>1. UNCHANGED mem /\ status' = status
    BY <1>4 DEF vars, mem
  <2>2. Memory'
    BY <1>2, <2>1, MemoryStep DEF Inv
  <2>3. ASSUME Control PROVE Control'
    <3>1. /\ page' = page /\ val' = val /\ roots' = roots /\ ret' = ret /\ stale' = stale
          /\ op' = op /\ pc' = pc /\ raw' = raw /\ left' = left
      BY <1>4 DEF vars, mem, machine
    <3>2. Base' = Base
      BY <2>1, SameBase
    <3>3. RootsOK' /\ RawOK'
      BY <2>3, <3>1, <3>2 DEF Control, RootsOK, RawOK, GraftInit
    <3>4. EnterOK' /\ EvaluateOK'
      BY <2>3, <3>1, <3>2 DEF Control, EnterOK, EvaluateOK, GraftInit
    <3>5. GraftOK' /\ UnwindOK'
      BY <2>3, <3>1 DEF Control, GraftOK, UnwindOK, Hd
    <3>6. QED
      BY <2>3, <3>1, <3>3, <3>4, <3>5 DEF Control
  <2>4. QED
    BY <1>2, <2>1, <2>2, <2>3 DEF Inv
<1>5. QED
  BY <1>2, <1>3, <1>4

\* The continuation is there when all is.
LEMMA HandsAndKont ==
    /\ Inv /\ KontAlive => HandsAlive
    /\ Inv /\ HandsAlive => KontAlive
    /\ Inv /\ op # "!" => KontAlive
<1>1. ASSUME Inv, status = "running"
      PROVE  /\ Memory /\ Control
             /\ raw \in [DOMAIN NoRaw -> Elem] /\ DOMAIN raw = DOMAIN NoRaw /\ "kont" \in DOMAIN raw
             /\ \A f \in DOMAIN raw : f # "kont" /\ raw[f] \in Page => raw[f] \in Alive
  <2>1. Memory /\ Control /\ RawOK
    BY <1>1 DEF Inv, Control
  <2>2. raw \in [DOMAIN NoRaw -> Elem] /\ DOMAIN raw = DOMAIN NoRaw /\ "kont" \in DOMAIN raw
    BY <2>1, NoRawFields DEF RawOK
  <2>3. ASSUME NEW f \in DOMAIN raw, f # "kont", raw[f] \in Page
        PROVE  raw[f] \in Alive
    <3>1. raw[f] \in Base
      BY <2>1, <2>2, <2>3, PageWords DEF RawOK
    <3>2. QED
      BY <2>1, <2>3, <3>1, BaseWords, AliveIsLive
  <2>4. QED
    BY <2>1, <2>2, <2>3
<1>2. Inv /\ KontAlive => HandsAlive
  BY <1>1 DEF KontAlive, HandsAlive
<1>3. Inv /\ HandsAlive => KontAlive
  <2>1. SUFFICES ASSUME Inv, HandsAlive, status = "running", raw.kont \in Page
                 PROVE  raw.kont \in Alive
    BY DEF KontAlive
  <2>2. "kont" \in DOMAIN raw
    BY <1>1, <2>1
  <2>3. QED
    BY <2>1, <2>2 DEF HandsAlive
<1>4. Inv /\ op # "!" => KontAlive
  <2>1. SUFFICES ASSUME Inv, op # "!", status = "running" PROVE raw.kont \notin Page
    BY DEF KontAlive
  <2>2. raw.kont = UNDEF
    BY <1>1, <2>1 DEF Control, RawOK
  <2>3. QED
    BY <2>2, PageWords
<1>5. QED
  BY <1>2, <1>3, <1>4

(***************************************************************************)
(* HandsAlive for every page and every operand, but for the one place      *)
(* where the code breaks it: as long as the continuation of a graft        *)
(* statement, which ! keeps in a plain local while _graft allocates, is    *)
(* not lost, no other plain local is, and the other way round.             *)
(***************************************************************************)
THEOREM OnlyContinuationsAreLost == Spec => ([]KontAlive <=> []HandsAlive)
BY InvSteps, HandsAndKont, PTL DEF Spec

(***************************************************************************)
(* HandsAlive for the operators, which have no continuation: on every      *)
(* operand, in whatever page it lies, . / ? @ * and + use no cell that a   *)
(* collection may have taken away.                                         *)
(***************************************************************************)
THEOREM OperatorHandsAreAlive == Spec /\ op # "!" => []HandsAlive
<1>1. op # "!" /\ [Next]_vars => (op # "!")'
  BY OpStays DEF vars, machine
<1>2. QED
  BY <1>1, InvSteps, HandsAndKont, PTL DEF Spec

(***************************************************************************)
(* RouteFits for every path and every tree: however long the path and the  *)
(* counts in it, _graft puts a cell on the route for every move down and   *)
(* finds it there on the way back, through every collection in between:    *)
(* for every operator that answers by grafting, and for the graft          *)
(* statement as long as its continuation is not lost.                      *)
(***************************************************************************)
THEOREM WayBackFits == Spec /\ (op # "!" \/ []HandsAlive) => []RouteFits
<1>1. Inv => RouteFits
  <2>1. SUFFICES ASSUME Memory, Control
                 PROVE  /\ pc = "rebuild" /\ left # NoMoves => IsPcell(val["route"])
                        /\ pc = "rpthElem" => IF val["rpth"] = Null THEN val["route"] = UNDEF
                                              ELSE IsPathElem(val["rpth"])
    BY DEF Inv, RouteFits
  <2>2. left \in [tail : Nat, head : Nat]
    BY <2>1 DEF Control, GraftOK
  <2>3. ASSUME pc = "rebuild", left # NoMoves
        PROVE  IsPcell(val["route"])
    <3>1. Unwinds(page, val["route"], val["rpth"], left.tail + left.head)
      BY <2>1, <2>3 DEF Control, UnwindOK, Rebuilding
    <3>2. left.tail + left.head > 0
      BY <2>2, <2>3, LeftMoves
    <3>3. QED
      BY <3>1, <3>2, UnwindsOn, SmallWords
  <2>4. ASSUME pc = "rpthElem"
        PROVE  IF val["rpth"] = Null THEN val["route"] = UNDEF ELSE IsPathElem(val["rpth"])
    <3>1. Unwinds(page, val["route"], val["rpth"], 0)
      BY <2>1, <2>4 DEF Control, UnwindOK
    <3>2. QED
      BY <2>1, <3>1, UnwindsOn, MovesAreNat
  <2>5. QED
    BY <2>3, <2>4
<1>2. QED
  BY <1>1, InvSteps, HandsAndKont, OperatorHandsAreAlive, PTL DEF Spec

(***************************************************************************)
(* The interpreter is a client of the allocator that keeps to its rules:   *)
(* every call it makes is one SimpleAllocator allows, with words that a    *)
(* root or the last answer keeps alive.  What is proved of                 *)
(* SimpleAllocator's steps holds of the interpreter's.                     *)
(***************************************************************************)
THEOREM InterpreterIsAClient ==
    Spec /\ (op # "!" \/ []HandsAlive) => [][Allocator!Next]_mem
<1>1. Inv /\ KontAlive /\ [Next]_vars => [Allocator!Next]_mem
  <2>1. SUFFICES ASSUME Inv, KontAlive, Next PROVE [Allocator!Next]_mem
    BY DEF vars
  <2>2. Sound
    BY <2>1, NextRuns, StepSound DEF Inv
  <2>3. QED
    BY <2>2, ClientSteps DEF Sound
<1>2. QED
  BY <1>1, InvSteps, HandsAndKont, OperatorHandsAreAlive, PTL DEF Spec
=============================================================================
