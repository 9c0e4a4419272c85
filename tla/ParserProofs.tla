---------------------------- MODULE ParserProofs ----------------------------
(***************************************************************************)
(* The parser, for every page, all definitions and everything typed: it    *)
(* keeps to the rules of the allocator and loses nothing it still uses.    *)
(*                                                                         *)
(* The argument: a plain local only ever holds the last answer, or what    *)
(* the list read so far leads to (RawOK).  That an answer is still the     *)
(* last one when it is used, and that what the parser takes apart is a     *)
(* cell, follows from where the parser is (Control): a list waits for      *)
(* every open bracket (Balanced), a tail for every waiting list (Paired),  *)
(* and a macro has a cell to work on.                                      *)
(***************************************************************************)
EXTENDS Parser, CellsProofs

Theory == INSTANCE SimpleAllocatorProofs WITH
                ElemVar     <- DOMAIN DefnRoots \cup LocalRoots,
                PcellVar    <- {},
                ClientBytes <- 0 .. (UNDEF - 1)

-----------------------------------------------------------------------------
(***************************************************************************)
(* The allocator of the parser is the one SimpleAllocatorProofs is about.  *)
(***************************************************************************)
Vars == DOMAIN DefnRoots \cup LocalRoots

\* The elements that are defined.
Defined == {Words[name] : name \in DOMAIN Words}

\* What the collector keeps, in the words of Cells.
Live == Reach(page, {val[x] : x \in roots} \cup {ret})

\* The cells are the same in the parser and in both instances.
LEMMA SameCells ==
    /\ Allocator!Page = Page /\ Theory!Page = Page
    /\ Allocator!Elem = Elem /\ Theory!Elem = Elem
    /\ Allocator!Cell = Cell /\ Theory!Cell = Cell
    /\ Allocator!UNDEF = UNDEF /\ Theory!UNDEF = UNDEF
    /\ Allocator!Null = Null /\ Theory!Null = Null
BY DEF Allocator!Page, Page, Theory!Page, Allocator!Elem, Elem, Theory!Elem,
       Allocator!Cell, Cell, Theory!Cell, Allocator!UNDEF, UNDEF, Theory!UNDEF,
       Allocator!Null, Null, Theory!Null

\* The assumptions of SimpleAllocator hold of the parser's.
LEMMA ConstantsFit ==
    NCells \in Nat \ {0} /\ \A b \in 0 .. (UNDEF - 1) : b \in Nat /\ Theory!IsByte(b)
<1>1. UNDEF \in Nat /\ Theory!UNDEF = UNDEF
  BY SameCells DEF UNDEF
<1>2. QED
  BY <1>1, NCellsAssumption DEF Theory!IsByte

\* Reaching means the same in all three.
LEMMA SameReach ==
    ASSUME NEW cells
    PROVE  /\ \A S : Allocator!Closed(cells, S) <=> Closed(cells, S)
           /\ \A S : Theory!Closed(cells, S) <=> Closed(cells, S)
           /\ \A words : Allocator!Reach(cells, words) = Reach(cells, words)
           /\ \A words : Theory!Reach(cells, words) = Reach(cells, words)
<1>1. \A S : Allocator!Closed(cells, S) <=> Closed(cells, S)
  BY SameCells DEF Allocator!Closed, Closed, Allocator!Children, Children
<1>2. \A S : Theory!Closed(cells, S) <=> Closed(cells, S)
  BY SameCells DEF Theory!Closed, Closed, Theory!Children, Children
<1>3. \A words : Allocator!Reach(cells, words) = Reach(cells, words)
  BY <1>1, SameCells, ZenonT(40) DEF Allocator!Reach, Reach
<1>4. \A words : Theory!Reach(cells, words) = Reach(cells, words)
  BY <1>2, SameCells, ZenonT(40) DEF Theory!Reach, Reach
<1>5. QED
  BY <1>1, <1>2, <1>3, <1>4

\* A sweep writes the same cells in both instances.
LEMMA SameSweep ==
    \A cells, live : Allocator!Sweep(cells, live) = Theory!Sweep(cells, live)
<1>1. \A c, dead : Allocator!FreeCell(c, dead) = Theory!FreeCell(c, dead)
  BY SameCells DEF Allocator!FreeCell, Theory!FreeCell, Allocator!FreeLink, Theory!FreeLink,
       Allocator!IsBefore, Theory!IsBefore
<1>2. QED
  BY <1>1, SameCells DEF Allocator!Sweep, Theory!Sweep

\* The variables, and the words a client may use for each of them.
LEMMA SameWords ==
    /\ Allocator!Var = Vars /\ Theory!Var = Vars
    /\ Allocator!Live = Live /\ Theory!Live = Live
    /\ Allocator!RootWords = {val[x] : x \in roots} /\ Theory!RootWords = {val[x] : x \in roots}
    /\ Allocator!ElemWords = 0 .. UNDEF \cup Live /\ Theory!ElemWords = 0 .. UNDEF \cup Live
    /\ \A x : Allocator!WordsFor(x) = 0 .. UNDEF \cup Live
    /\ \A x : Theory!WordsFor(x) = 0 .. UNDEF \cup Live
    /\ \A x : Allocator!Empty(x) = UNDEF
<1>1. Allocator!Var = Vars /\ Theory!Var = Vars
  BY DEF Allocator!Var, Theory!Var, Vars, LocalRoots
<1>2. Allocator!RootWords = {val[x] : x \in roots} /\ Theory!RootWords = {val[x] : x \in roots}
  BY DEF Allocator!RootWords, Theory!RootWords
<1>3. Allocator!Live = Live /\ Theory!Live = Live
  BY <1>2, SameReach DEF Allocator!Live, Theory!Live, Live
<1>4. 0 .. (UNDEF - 1) \cup {UNDEF} = 0 .. UNDEF
  <2>1. UNDEF \in Nat
    BY DEF UNDEF
  <2>2. QED
    BY <2>1
<1>5. Allocator!ElemWords = 0 .. UNDEF \cup Live /\ Theory!ElemWords = 0 .. UNDEF \cup Live
  BY <1>3, <1>4, SameCells DEF Allocator!ElemWords, Theory!ElemWords
<1>6. QED
  BY <1>1, <1>2, <1>3, <1>5, SameCells
     DEF Allocator!WordsFor, Theory!WordsFor, Allocator!Empty

\* The invariants of SimpleAllocator, said of either instance.
LEMMA SameState ==
    /\ Theory!TypeOK <=> Allocator!TypeOK
    /\ Theory!AllocatedClosed <=> Allocator!AllocatedClosed
<1>1. Theory!TypeOK <=> Allocator!TypeOK
  BY SameCells, SameWords DEF Allocator!TypeOK, Theory!TypeOK
<1>2. QED
  BY <1>1, SameCells, SameReach, SameWords DEF Allocator!AllocatedClosed, Theory!AllocatedClosed

\* The steps of SimpleAllocator, taken of either instance.
LEMMA SameSteps ==
    /\ \A h, t : Theory!NewCell(h, t) <=> Allocator!NewCell(h, t)
    /\ \A h, t : Theory!NewCellCollect(h, t) <=> Allocator!NewCellCollect(h, t)
    /\ \A x, e : Theory!AddRoot(x, e) <=> Allocator!AddRoot(x, e)
    /\ \A x, e : Theory!Assign(x, e) <=> Allocator!Assign(x, e)
    /\ \A x : Theory!DelRoot(x) <=> Allocator!DelRoot(x)
    /\ \A x : Theory!ReturnRoot(x) <=> Allocator!ReturnRoot(x)
<1>1. \A h, t : Theory!NewCell(h, t) <=> Allocator!NewCell(h, t)
  BY DEF Allocator!NewCell, Theory!NewCell, Allocator!IsHead, Theory!IsHead
<1>2. ASSUME NEW h, NEW t
      PROVE  Theory!NewCellCollect(h, t) <=> Allocator!NewCellCollect(h, t)
  <2>1. \A cells, words : Theory!Reach(cells, words) = Allocator!Reach(cells, words)
    BY SameReach
  <2>2. Theory!StackWords = Allocator!StackWords
    BY SameCells DEF Allocator!StackWords, Theory!StackWords
  <2>3. Theory!RootWords = Allocator!RootWords /\ Theory!UNDEF = Allocator!UNDEF
           /\ Theory!Page = Allocator!Page
    BY SameCells, SameWords
  <2>4. \A cells, live : Theory!Sweep(cells, live) = Allocator!Sweep(cells, live)
    BY SameSweep
  <2> DEFINE filled(c) == [page EXCEPT ![c] = [hd |-> h, tl |-> t]]
             T(c, words) == Theory!Reach(filled(c), Theory!RootWords \cup words \cup {c})
             A(c, words) == Allocator!Reach(filled(c), Allocator!RootWords \cup words \cup {c})
             Collects(c, words, undef, all, live, swept) ==
                 /\ free = {c}
                 /\ \/ /\ undef \in words
                       /\ status' = "wildRead"
                       /\ UNCHANGED <<page, free, ret, stale>>
                    \/ /\ undef \notin words
                       /\ live = all
                       /\ page' = filled(c)
                       /\ free' = {}
                       /\ status' = "oom"
                       /\ ret' = undef
                       /\ stale' = TRUE
                    \/ /\ undef \notin words
                       /\ live # all
                       /\ page' = swept
                       /\ free' = all \ live
                       /\ ret' = c
                       /\ stale' \in {stale, FALSE}
                       /\ UNCHANGED status
  <2>5. Theory!NewCellCollect(h, t) <=>
          /\ status = "running"
          /\ \E c \in free, words \in Theory!StackWords :
                Collects(c, words, Theory!UNDEF, Theory!Page, T(c, words),
                         Theory!Sweep(filled(c), T(c, words)))
          /\ UNCHANGED <<val, roots, interactive>>
    BY ZenonT(40) DEF Theory!NewCellCollect
  <2>6. Allocator!NewCellCollect(h, t) <=>
          /\ status = "running"
          /\ \E c \in free, words \in Allocator!StackWords :
                Collects(c, words, Allocator!UNDEF, Allocator!Page, A(c, words),
                         Allocator!Sweep(filled(c), A(c, words)))
          /\ UNCHANGED <<val, roots, interactive>>
    BY ZenonT(40) DEF Allocator!NewCellCollect
  <2>7. \A c, words : T(c, words) = A(c, words)
    BY <2>1, <2>3
  <2> HIDE DEF Collects, T, A
  <2>8. QED
    BY <2>2, <2>3, <2>4, <2>5, <2>6, <2>7, Zenon
<1>3. \A x, e : Theory!AddRoot(x, e) <=> Allocator!AddRoot(x, e)
  BY DEF Allocator!AddRoot, Theory!AddRoot
<1>4. \A x, e : Theory!Assign(x, e) <=> Allocator!Assign(x, e)
  BY DEF Allocator!Assign, Theory!Assign
<1>5. \A x : Theory!DelRoot(x) <=> Allocator!DelRoot(x)
  BY SameCells DEF Allocator!DelRoot, Theory!DelRoot, Allocator!Empty, Theory!Empty
<1>6. \A x : Theory!ReturnRoot(x) <=> Allocator!ReturnRoot(x)
  BY SameCells DEF Allocator!ReturnRoot, Theory!ReturnRoot, Allocator!Empty, Theory!Empty
<1>7. QED
  BY <1>1, <1>2, <1>3, <1>4, <1>5, <1>6

-----------------------------------------------------------------------------
(***************************************************************************)
(* What the allocator gives the parser.                                    *)
(***************************************************************************)
Memory == Allocator!TypeOK /\ Allocator!AllocatedClosed

\* TypeOK, with the parser's own names.
LEMMA MemoryTypes ==
    ASSUME Memory
    PROVE  /\ page \in [Page -> Cell]
           /\ free \subseteq Page
           /\ val \in [Vars -> Elem]
           /\ roots \subseteq Vars
           /\ ret \in Elem
BY SameCells, SameWords DEF Memory, Allocator!TypeOK

\* The words a client may use.
Usable == 0 .. UNDEF \cup Live

\* The steps of a client that uses a word only while it may.
ClientStep ==
    \/ \E x \in Vars, e \in Usable : Allocator!AddRoot(x, e) \/ Allocator!Assign(x, e)
    \/ \E x \in Vars : Allocator!DelRoot(x) \/ Allocator!ReturnRoot(x)
    \/ \E h, t \in Usable : new_Cell(h, t)

\* Such a step is a step of SimpleAllocator.
LEMMA ClientSteps ==
    ASSUME ClientStep
    PROVE  Allocator!Next /\ Theory!Next
<1>1. CASE \E x \in Vars, e \in Usable :
               Allocator!AddRoot(x, e) \/ Allocator!Assign(x, e)
  <2>1. PICK x \in Vars, e \in Usable :
               Allocator!AddRoot(x, e) \/ Allocator!Assign(x, e)
    BY <1>1
  <2>2. /\ x \in Allocator!Var /\ x \in Theory!Var
        /\ e \in Allocator!WordsFor(x) /\ e \in Theory!WordsFor(x)
        /\ Theory!AddRoot(x, e) \/ Theory!Assign(x, e)
    BY <2>1, SameWords, SameSteps DEF Usable
  <2>3. QED
    BY <2>1, <2>2 DEF Allocator!Next, Theory!Next
<1>2. CASE \E x \in Vars : Allocator!DelRoot(x) \/ Allocator!ReturnRoot(x)
  <2>1. PICK x \in Vars : Allocator!DelRoot(x) \/ Allocator!ReturnRoot(x)
    BY <1>2
  <2>2. /\ x \in Allocator!Var /\ x \in Theory!Var
        /\ Theory!DelRoot(x) \/ Theory!ReturnRoot(x)
    BY <2>1, SameWords, SameSteps DEF Usable
  <2>3. QED
    BY <2>1, <2>2 DEF Allocator!Next, Theory!Next
<1>3. CASE \E h, t \in Usable : new_Cell(h, t)
  <2>1. PICK h \in Usable, t \in Usable :
               Allocator!NewCell(h, t) \/ Allocator!NewCellCollect(h, t)
    BY <1>3 DEF new_Cell
  <2>2. /\ h \in Allocator!ElemWords /\ h \in Theory!ElemWords
        /\ t \in Allocator!ElemWords /\ t \in Theory!ElemWords
        /\ Theory!NewCell(h, t) \/ Theory!NewCellCollect(h, t)
    BY <2>1, SameWords, SameSteps DEF Usable
  <2>3. QED
    BY <2>1, <2>2 DEF Allocator!Next, Theory!Next
<1>4. QED
  BY <1>1, <1>2, <1>3 DEF ClientStep

\* What every client's step keeps, the parser's steps keep.
LEMMA MemoryStep ==
    ASSUME Memory, ClientStep \/ UNCHANGED mem
    PROVE  Memory'
<1>1. Theory!TypeOK /\ Theory!AllocatedClosed
  BY SameState DEF Memory
<1>2. [Theory!Next]_Theory!vars
  BY ClientSteps DEF mem, Theory!vars
<1>4. Theory!TypeOK' /\ Theory!AllocatedClosed'
  BY <1>1, <1>2, ConstantsFit, Theory!TypeStep, Theory!ClosedStep
<1>5. (Theory!TypeOK <=> Allocator!TypeOK)'
       /\ (Theory!AllocatedClosed <=> Allocator!AllocatedClosed)'
  BY SameState, PTL
<1>6. QED
  BY <1>4, <1>5 DEF Memory

\* What a new cell changes for the parser.
LEMMA NewCellLeaves ==
    ASSUME Memory, stale = FALSE, status' = "running",
           NEW h \in Usable, NEW t \in Usable, new_Cell(h, t)
    PROVE  /\ ret' \in Page
           /\ page'[ret'] = [hd |-> h, tl |-> t]
           /\ \A c \in Reach(page, {val[x] : x \in roots} \cup {h, t}) :
                  c \in Live' /\ page'[c] = page[c]
           /\ val' = val /\ roots' = roots /\ stale' = FALSE
<1>1. Theory!TypeOK /\ Theory!AllocatedClosed
  BY SameState DEF Memory
<1>2. h \in Theory!ElemWords /\ t \in Theory!ElemWords
  BY SameWords DEF Usable
<1>3. Theory!NewCell(h, t) \/ Theory!NewCellCollect(h, t)
  BY SameSteps DEF new_Cell
<1>5. /\ ret' \in Theory!Page
      /\ page'[ret'] = [hd |-> h, tl |-> t]
      /\ \A c \in Theory!Reach(page, Theory!RootWords \cup {h, t}) :
             c \in Theory!Live' /\ page'[c] = page[c]
  BY <1>1, <1>2, <1>3, ConstantsFit, Theory!NewCellKeeps
<1>6. (Theory!Live = Live)'
  BY SameWords, PTL
<1>7. val' = val /\ roots' = roots /\ stale' = FALSE
  BY <1>3 DEF Theory!NewCell, Theory!NewCellCollect
<1>8. QED
  BY <1>5, <1>6, <1>7, SameCells, SameReach, SameWords

-----------------------------------------------------------------------------
(***************************************************************************)
(* The stacks of the parser, which are lists of cells.                     *)
(***************************************************************************)
\* w is a list of n elements, each of them a cell or undefined.
Balanced(cells, w, n) ==
    \E S \in SUBSET (Page \X Int) :
        /\ <<w, n>> \in S \cup {<<UNDEF, 0>>}
        /\ \A c \in Page, m \in Int :
               <<c, m>> \in S => /\ cells[c].hd \in Page \cup {UNDEF}
                                 /\ <<cells[c].tl, m - 1>> \in S \cup {<<UNDEF, 0>>}

\* v and w are lists of the same length.
Paired(cells, v, w) ==
    \E S \in SUBSET (Page \X Page) :
        /\ <<v, w>> \in S \cup {<<UNDEF, UNDEF>>}
        /\ \A c, d \in Page :
               <<c, d>> \in S => <<cells[c].tl, cells[d].tl>> \in S \cup {<<UNDEF, UNDEF>>}

\* Nothing waits on empty stacks.
LEMMA EmptyStacks ==
    ASSUME NEW cells
    PROVE  Balanced(cells, UNDEF, 0) /\ Paired(cells, UNDEF, UNDEF)
<1>1. Balanced(cells, UNDEF, 0)
  <2>1. {} \in SUBSET (Page \X Int)
    OBVIOUS
  <2>2. QED
    BY <2>1 DEF Balanced
<1>2. Paired(cells, UNDEF, UNDEF)
  <2>1. {} \in SUBSET (Page \X Page)
    OBVIOUS
  <2>2. QED
    BY <2>1 DEF Paired
<1>3. QED
  BY <1>1, <1>2

\* A push on a list of n elements makes one of n + 1.
LEMMA PushBalanced ==
    ASSUME NEW cells, NEW c \in Page, NEW n \in Int, Balanced(cells, cells[c].tl, n),
           cells[c].hd \in Page \cup {UNDEF}
    PROVE  Balanced(cells, c, n + 1)
<1>1. PICK S \in SUBSET (Page \X Int) :
        /\ <<cells[c].tl, n>> \in S \cup {<<UNDEF, 0>>}
        /\ \A d \in Page, m \in Int :
               <<d, m>> \in S => /\ cells[d].hd \in Page \cup {UNDEF}
                                 /\ <<cells[d].tl, m - 1>> \in S \cup {<<UNDEF, 0>>}
  BY DEF Balanced
<1> DEFINE T == S \cup {<<c, n + 1>>}
<1>2. T \in SUBSET (Page \X Int)
  OBVIOUS
<1>3. <<c, n + 1>> \in T \cup {<<UNDEF, 0>>}
  OBVIOUS
<1>4. ASSUME NEW d \in Page, NEW m \in Int, <<d, m>> \in T
      PROVE  /\ cells[d].hd \in Page \cup {UNDEF}
             /\ <<cells[d].tl, m - 1>> \in T \cup {<<UNDEF, 0>>}
  <2>1. CASE <<d, m>> \in S
    BY <1>1, <2>1
  <2>2. CASE d = c /\ m = n + 1
    BY <1>1, <2>2
  <2>3. QED
    BY <1>4, <2>1, <2>2
<1> HIDE DEF T
<1>5. QED
  BY <1>2, <1>3, <1>4 DEF Balanced

\* A list of n elements is a cell unless n is 0, and has n - 1 behind it.
LEMMA PopBalanced ==
    ASSUME NEW cells, NEW w, NEW n \in Int, Balanced(cells, w, n)
    PROVE  /\ n # 0 => w \in Page
           /\ w \in Page => /\ cells[w].hd \in Page \cup {UNDEF}
                            /\ Balanced(cells, cells[w].tl, n - 1)
<1>1. PICK S \in SUBSET (Page \X Int) :
        /\ <<w, n>> \in S \cup {<<UNDEF, 0>>}
        /\ \A d \in Page, m \in Int :
               <<d, m>> \in S => /\ cells[d].hd \in Page \cup {UNDEF}
                                 /\ <<cells[d].tl, m - 1>> \in S \cup {<<UNDEF, 0>>}
  BY DEF Balanced
<1>2. n # 0 => w \in Page
  BY <1>1
<1>3. ASSUME w \in Page
      PROVE  <<w, n>> \in S
  BY <1>1, <1>3, PageWords
<1>4. ASSUME w \in Page
      PROVE  /\ cells[w].hd \in Page \cup {UNDEF}
             /\ <<cells[w].tl, n - 1>> \in S \cup {<<UNDEF, 0>>}
  BY <1>1, <1>3, <1>4
<1>5. QED
  BY <1>1, <1>2, <1>4 DEF Balanced

\* A push on each of two lists of a length.
LEMMA PushPaired ==
    ASSUME NEW cells, NEW c \in Page, NEW d \in Page, Paired(cells, cells[c].tl, cells[d].tl)
    PROVE  Paired(cells, c, d)
<1>1. PICK S \in SUBSET (Page \X Page) :
        /\ <<cells[c].tl, cells[d].tl>> \in S \cup {<<UNDEF, UNDEF>>}
        /\ \A a, b \in Page :
               <<a, b>> \in S => <<cells[a].tl, cells[b].tl>> \in S \cup {<<UNDEF, UNDEF>>}
  BY DEF Paired
<1> DEFINE T == S \cup {<<c, d>>}
<1>2. T \in SUBSET (Page \X Page) /\ <<c, d>> \in T \cup {<<UNDEF, UNDEF>>}
  OBVIOUS
<1>3. \A a, b \in Page :
          <<a, b>> \in T => <<cells[a].tl, cells[b].tl>> \in T \cup {<<UNDEF, UNDEF>>}
  BY <1>1
<1> HIDE DEF T
<1>4. QED
  BY <1>2, <1>3 DEF Paired

\* Of two lists of a length both are cells or neither is.
LEMMA PopPaired ==
    ASSUME NEW cells, NEW v, NEW w, Paired(cells, v, w), v # UNDEF
    PROVE  v \in Page /\ w \in Page /\ Paired(cells, cells[v].tl, cells[w].tl)
<1>1. PICK S \in SUBSET (Page \X Page) :
        /\ <<v, w>> \in S \cup {<<UNDEF, UNDEF>>}
        /\ \A a, b \in Page :
               <<a, b>> \in S => <<cells[a].tl, cells[b].tl>> \in S \cup {<<UNDEF, UNDEF>>}
  BY DEF Paired
<1>2. <<v, w>> \in S
  BY <1>1
<1>3. v \in Page /\ w \in Page
  BY <1>2
<1>4. <<cells[v].tl, cells[w].tl>> \in S \cup {<<UNDEF, UNDEF>>}
  BY <1>1, <1>2, <1>3
<1>5. QED
  BY <1>1, <1>3, <1>4 DEF Paired

\* A list of no element is undefined, or a cell.
LEMMA EmptyBalanced ==
    ASSUME NEW cells, NEW w, Balanced(cells, w, 0)
    PROVE  w \in Page \cup {UNDEF}
BY DEF Balanced

\* Both of two such lists are cells, or undefined.
LEMMA PairedWords ==
    ASSUME NEW cells, NEW v, NEW w, Paired(cells, v, w)
    PROVE  v \in Page \cup {UNDEF} /\ w \in Page \cup {UNDEF}
BY DEF Paired

\* A step that leaves the cells behind a stack as they are leaves the stack.
LEMMA StacksKept ==
    ASSUME NEW cells, NEW cells2, NEW words,
           \A c \in Reach(cells, words) : cells2[c] = cells[c]
    PROVE  /\ \A w, n : w \in (Page \cap words) \cup {UNDEF} /\ Balanced(cells, w, n)
                            => Balanced(cells2, w, n)
           /\ \A v, w : v \in Reach(cells, words) \cup {UNDEF} /\ w \in Reach(cells, words) \cup {UNDEF}
                            /\ Paired(cells, v, w) => Paired(cells2, v, w)
<1> DEFINE R == Reach(cells, words)
<1>1. R \in SUBSET Page /\ Closed(cells, R) /\ words \cap Page \subseteq R
  BY ReachClosed, ReachHoldsWords
<1> HIDE DEF R
<1>2. \A c \in R : cells2[c] = cells[c] /\ (cells[c].tl \in Page => cells[c].tl \in R)
  BY <1>1 DEF R, Closed, Children
<1>3. ASSUME NEW w \in R \cup {UNDEF}, NEW n, Balanced(cells, w, n)
      PROVE  Balanced(cells2, w, n)
  <2>1. PICK S \in SUBSET (Page \X Int) :
          /\ <<w, n>> \in S \cup {<<UNDEF, 0>>}
          /\ \A d \in Page, m \in Int :
                 <<d, m>> \in S => /\ cells[d].hd \in Page \cup {UNDEF}
                                   /\ <<cells[d].tl, m - 1>> \in S \cup {<<UNDEF, 0>>}
    BY <1>3 DEF Balanced
  <2> DEFINE T == {s \in S : s[1] \in R}
  <2>2. T \in SUBSET (Page \X Int)
    OBVIOUS
  <2>3. \A d, m : <<d, m>> \in T <=> <<d, m>> \in S /\ d \in R
    OBVIOUS
  <2>4. \A d, m : <<d, m>> \in S => d \in Page /\ m \in Int
    OBVIOUS
  <2> HIDE DEF T
  <2>5. <<w, n>> \in T \cup {<<UNDEF, 0>>}
    BY <1>3, <2>1, <2>3, <2>4, PageWords
  <2>6. ASSUME NEW d \in Page, NEW m \in Int, <<d, m>> \in T
        PROVE  /\ cells2[d].hd \in Page \cup {UNDEF}
               /\ <<cells2[d].tl, m - 1>> \in T \cup {<<UNDEF, 0>>}
    <3>1. d \in R /\ <<d, m>> \in S /\ cells2[d] = cells[d]
      BY <1>2, <2>3, <2>6
    <3>2. /\ cells[d].hd \in Page \cup {UNDEF}
          /\ <<cells[d].tl, m - 1>> \in S \cup {<<UNDEF, 0>>}
      BY <2>1, <3>1
    <3>3. <<cells[d].tl, m - 1>> \in S => cells[d].tl \in R
      BY <1>2, <2>4, <3>1
    <3>4. QED
      BY <2>3, <3>1, <3>2, <3>3
  <2>7. QED
    BY <2>2, <2>5, <2>6 DEF Balanced
<1>4. ASSUME NEW v \in R \cup {UNDEF}, NEW w \in R \cup {UNDEF}, Paired(cells, v, w)
      PROVE  Paired(cells2, v, w)
  <2>1. PICK S \in SUBSET (Page \X Page) :
          /\ <<v, w>> \in S \cup {<<UNDEF, UNDEF>>}
          /\ \A a, b \in Page :
                 <<a, b>> \in S => <<cells[a].tl, cells[b].tl>> \in S \cup {<<UNDEF, UNDEF>>}
    BY <1>4 DEF Paired
  <2> DEFINE T == {s \in S : s[1] \in R /\ s[2] \in R}
  <2>2. T \in SUBSET (Page \X Page)
    OBVIOUS
  <2>3. \A a, b : <<a, b>> \in T <=> <<a, b>> \in S /\ a \in R /\ b \in R
    OBVIOUS
  <2>4. \A a, b : <<a, b>> \in S => a \in Page /\ b \in Page
    OBVIOUS
  <2> HIDE DEF T
  <2>5. <<v, w>> \in T \cup {<<UNDEF, UNDEF>>}
    BY <1>4, <2>1, <2>3, <2>4, PageWords
  <2>6. ASSUME NEW a \in Page, NEW b \in Page, <<a, b>> \in T
        PROVE  <<cells2[a].tl, cells2[b].tl>> \in T \cup {<<UNDEF, UNDEF>>}
    <3>1. a \in R /\ b \in R /\ <<a, b>> \in S /\ cells2[a] = cells[a] /\ cells2[b] = cells[b]
      BY <1>2, <2>3, <2>6
    <3>2. <<cells[a].tl, cells[b].tl>> \in S \cup {<<UNDEF, UNDEF>>}
      BY <2>1, <3>1
    <3>3. <<cells[a].tl, cells[b].tl>> \in S => cells[a].tl \in R /\ cells[b].tl \in R
      BY <1>2, <2>4, <3>1
    <3>4. QED
      BY <2>3, <3>1, <3>2, <3>3
  <2>7. QED
    BY <2>2, <2>5, <2>6 DEF Paired
<1>5. QED
  BY <1>1, <1>3, <1>4 DEF R

-----------------------------------------------------------------------------
(***************************************************************************)
(* What holds at each place of the parser while the process runs.  An      *)
(* assignment of a new cell is pending at "store": Held and Label see it   *)
(* made.                                                                   *)
(***************************************************************************)
Label == IF pc = "store" THEN into[2] ELSE pc
Held  == IF pc = "store" THEN [val EXCEPT ![into[1]] = ret] ELSE val

Reads    == {"start", "token", "trailing", "opened", "pop", "closed", "#", "octet", "read"}
InMacros == {"'", "<", "qt", "quoted", "quote", "reverse", "reversed"}
Rotates  == {"@", "rotate1", "rotate3", "rotate2", "leave"}
Before   == Reads \cup InMacros \cup Rotates

\* A word that needs no other root: the last answer, or a definition.
InHand(w) == w \in Elem /\ (w \in Page => w \in {ret} \cup Defined)

\* The definitions are in their roots, and a variable that is not registered
\* holds nothing.
RootsOK ==
    /\ DOMAIN DefnRoots \subseteq roots
    /\ \A x \in DOMAIN DefnRoots : val[x] = Words[DefnRoots[x]]
    /\ \A x \in Vars \ roots : val[x] = UNDEF

\* The list read so far is a list, and between two tokens it is the last answer.
TailOK ==
    /\ Held["tail"] \in Page \cup {UNDEF}
    /\ Label \in {"start", "token", "trailing"} => Held["tail"] \in {UNDEF, ret}

\* As many lists wait as there are open brackets.
TailsOK ==
    /\ depth \in Int
    /\ Label \in Before =>
          Balanced(page, Held["tails"], IF Label = "closed" THEN depth - 1 ELSE depth)
    /\ Label = "pop" => Held["tails"] \in Page

\* What the macros take apart are cells.
MacrosOK ==
    /\ Label \in Macros => raw.arg = Held["tail"] /\ raw.arg \in Page
    /\ Label \in {"qt", "quoted", "quote"} => Held["t"] \in Page
    /\ Label = "reverse" => Held["t"] \in Page \/ Held["r"] \in Page
    /\ Label = "reversed" => Held["t"] \in Page /\ Held["r"] \in Page
    /\ Label = "leave" => ret \in Page
    /\ Label \in Reads => roots \cap MacroRoots = {}
    /\ Label \in {"'", "<"} /\ "t" \in roots => Held["t"] \in Page
    /\ Label = "@" => /\ "e2" \in roots => Tl(raw.arg) \in Page
                      /\ "e3" \in roots => Tl(raw.arg) \in Page /\ Tl(Tl(raw.arg)) \in Page

\* An expression being turned round is the last answer or a definition, and
\* the lists and the tails that wait for it are as many.
ReduceOK ==
    /\ Label \in Before \cup {"return", "enter"} =>
          Held["acc"] = UNDEF /\ Held["accs"] = UNDEF /\ Held["pcells"] = UNDEF
    /\ Label \in {"reduce", "join", "advance"} => InHand(Held["acc"])
    /\ Label \in {"push", "pushed", "join", "advance"} => Held["p"] \in Page
    /\ Label \in {"reduce", "join", "advance", "pushed", "nested", "popPcells", "joinNested"} =>
          Paired(page, Held["pcells"], Held["accs"])
    /\ Label = "push" => Held["pcells"] \in Page /\ Paired(page, Tl(Held["pcells"]), Held["accs"])
    /\ Label = "popPcells" => Held["pcells"] # UNDEF
    /\ Label \in {"popAcc", "popAccs"} =>
          Held["accs"] \in Page /\ Paired(page, Held["pcells"], Tl(Held["accs"]))

\* A plain local holds what is in hand, or what the list read so far leads to.
RawOK ==
    /\ raw \in [DOMAIN NoRaw -> Elem]
    /\ \A f \in DOMAIN NoRaw :
         \/ raw[f] = UNDEF
         \/ pc \in Macros /\ raw[f] = val["tail"]
         \/ pc = "rotate1" /\ raw[f] \in Usable
         \/ pc \in {"pop", "closed", "rotate3", "rotate2", "enter", "parsed", "done", "join",
                    "popPcells", "popAcc", "popAccs", "joinNested"} /\ InHand(raw[f])

Control ==
    /\ stale = FALSE
    /\ octets[1] \in Int
    /\ pc = "store" => into[1] \in LocalRoots /\ into[2] # "store" /\ raw = NoRaw
    /\ RootsOK /\ TailOK /\ TailsOK /\ MacrosOK /\ ReduceOK /\ RawOK

Inv == Memory /\ (status = "running" => Control)

-----------------------------------------------------------------------------
\* The parser's own roots are variables, and none is that of a definition.
LEMMA LocalVars == LocalRoots \subseteq Vars /\ LocalRoots \cap DOMAIN DefnRoots = {}
BY DefnRootsAssumption DEF Vars

\* A word is the address of a cell, or not above UNDEF.
LEMMA SmallWords ==
    /\ \A w \in Elem : w \in Page \/ w \in 0 .. UNDEF
    /\ 0 .. UNDEF \subseteq Elem
    /\ \A c \in Page : c \notin 0 .. UNDEF
<1>1. NCells \in Nat /\ NCells > 0 /\ UNDEF \in Nat
  BY NCellsAssumption DEF UNDEF
<1>2. QED
  BY <1>1 DEF Elem, Page

\* A definition is an element, and if it is a cell it is one of the page's
\* and some root holds it.
LEMMA DefinedWords ==
    \A w \in Defined : /\ w \in Elem
                       /\ w \in Page => w \in DOMAIN DefnCells
                       /\ \E x \in DOMAIN DefnRoots : w = Words[DefnRoots[x]]
<1>1. ASSUME NEW w \in Defined
      PROVE  /\ w \in Elem
             /\ w \in Page => w \in DOMAIN DefnCells
             /\ \E x \in DOMAIN DefnRoots : w = Words[DefnRoots[x]]
  <2>1. PICK name \in DOMAIN Words : w = Words[name]
    BY DEF Defined
  <2>2. w \in Elem /\ (w \in Page => w \in DOMAIN DefnCells)
    BY <2>1, WordsAssumption, PageWords
  <2>3. PICK x \in DOMAIN DefnRoots : DefnRoots[x] = name
    BY DefnRootsAssumption
  <2>4. QED
    BY <2>1, <2>2, <2>3
<1>2. QED
  BY <1>1

\* The variables, the last answer, what is in hand and what they lead to are
\* words the parser may use.
LEMMA UsableWords ==
    ASSUME Memory, RootsOK
    PROVE  /\ Usable \subseteq Elem
           /\ \A w \in Elem \ Page : w \in Usable
           /\ \A x \in Vars : val[x] \in Usable
           /\ \A w : w \in {ret, UNDEF} \cup Defined \/ InHand(w) => w \in Usable
           /\ \A c \in Page : c \in Usable => Hd(c) \in Usable /\ Tl(c) \in Usable
           /\ \A f \in DOMAIN NoRaw : RawOK => raw[f] \in Usable
<1>1. Live \in SUBSET Page /\ Closed(page, Live)
         /\ ({val[x] : x \in roots} \cup {ret}) \cap Page \subseteq Live
  BY ReachClosed, ReachHoldsWords DEF Live
<1>2. /\ page \in [Page -> Cell] /\ val \in [Vars -> Elem] /\ roots \subseteq Vars /\ ret \in Elem
  BY MemoryTypes
<1>3. \A w \in Elem : w \in Page \/ w \in 0 .. UNDEF
  BY SmallWords
<1>4. 0 .. UNDEF \subseteq Elem /\ \A c \in Page : c \notin 0 .. UNDEF
  BY SmallWords
<1>5. Usable \subseteq Elem /\ \A w \in Elem : w \notin Page \/ w \in Live => w \in Usable
  BY <1>1, <1>3, <1>4, PageWords DEF Usable
<1>6. \A x \in Vars : val[x] \in Usable
  BY <1>1, <1>2, <1>5, PageWords DEF RootsOK
<1>7. \A w : w \in {ret, UNDEF} \cup Defined \/ InHand(w) => w \in Usable
  <2>1. ret \in Usable /\ UNDEF \in Usable
    BY <1>1, <1>2, <1>5, PageWords
  <2>2. Defined \subseteq Usable
    BY <1>6, DefinedWords DEF RootsOK, Vars, LocalRoots
  <2>3. QED
    BY <1>5, <2>1, <2>2 DEF InHand
<1>8. ASSUME NEW c \in Page, c \in Usable
      PROVE  Hd(c) \in Usable /\ Tl(c) \in Usable
  <2>1. c \in Live
    BY <1>4, <1>8 DEF Usable
  <2>2. page[c].hd \in Elem /\ page[c].tl \in Elem /\ Children(page, c) \subseteq Live
    BY <1>1, <1>2, <2>1 DEF Cell, Closed
  <2>3. QED
    BY <1>5, <2>2 DEF Hd, Tl, Children
<1>9. \A f \in DOMAIN NoRaw : RawOK => raw[f] \in Usable
  BY <1>6, <1>7 DEF RawOK, Vars, LocalRoots
<1>10. QED
  BY <1>5, <1>6, <1>7, <1>8, <1>9

-----------------------------------------------------------------------------
(***************************************************************************)
(* What the calls of the allocator leave, one lemma for each.              *)
(***************************************************************************)
LEMMA AddRootLeaves ==
    ASSUME Memory, RootsOK, NEW x \in Vars, NEW e \in Usable, Allocator!AddRoot(x, e)
    PROVE  /\ ClientStep /\ RootsOK'
           /\ page' = page /\ ret' = ret /\ stale' = stale /\ status' = status
           /\ val' = [val EXCEPT ![x] = e] /\ roots' = roots \cup {x}
<1>1. ClientStep
  BY DEF ClientStep
<1>2. QED
  BY <1>1, MemoryTypes DEF Allocator!AddRoot, RootsOK

\* auto_root's assignment
LEMMA AssignLeaves ==
    ASSUME Memory, RootsOK, NEW x \in LocalRoots, NEW e \in Usable, Allocator!Assign(x, e)
    PROVE  /\ ClientStep /\ RootsOK'
           /\ page' = page /\ ret' = ret /\ stale' = stale /\ status' = status
           /\ val' = [val EXCEPT ![x] = e] /\ roots' = roots
<1>1. ClientStep
  BY LocalVars DEF ClientStep
<1>2. /\ page' = page /\ ret' = ret /\ stale' = stale /\ status' = status
      /\ val' = [val EXCEPT ![x] = e] /\ roots' = roots
  BY DEF Allocator!Assign
<1>3. /\ x \in Vars /\ x \notin DOMAIN DefnRoots /\ DOMAIN DefnRoots \subseteq Vars
      /\ val \in [Vars -> Elem] /\ x \in roots
  BY LocalVars, MemoryTypes DEF Allocator!Assign, Vars
<1>4. RootsOK'
  BY <1>2, <1>3 DEF RootsOK
<1>5. QED
  BY <1>1, <1>2, <1>4

\* auto_root's destructor
LEMMA DelRootLeaves ==
    ASSUME Memory, RootsOK, NEW x \in LocalRoots, Allocator!DelRoot(x)
    PROVE  /\ ClientStep /\ RootsOK'
           /\ page' = page /\ ret' = ret /\ stale' = stale /\ status' = status
           /\ val' = [val EXCEPT ![x] = UNDEF] /\ roots' = roots \ {x}
<1>1. ClientStep
  BY LocalVars DEF ClientStep
<1>2. /\ page' = page /\ ret' = ret /\ stale' = stale /\ status' = status
      /\ val' = [val EXCEPT ![x] = UNDEF] /\ roots' = roots \ {x}
  BY SameWords DEF Allocator!DelRoot
<1>3. /\ x \in Vars /\ x \notin DOMAIN DefnRoots /\ DOMAIN DefnRoots \subseteq Vars
      /\ val \in [Vars -> Elem]
  BY LocalVars, MemoryTypes DEF Vars
<1>4. RootsOK'
  BY <1>2, <1>3 DEF RootsOK
<1>5. QED
  BY <1>1, <1>2, <1>4

\* the release of an auto_root by a return statement
LEMMA ReturnRootLeaves ==
    ASSUME Memory, RootsOK, NEW x \in LocalRoots, Allocator!ReturnRoot(x)
    PROVE  /\ ClientStep /\ RootsOK'
           /\ page' = page /\ ret' = val[x] /\ stale' = stale /\ status' = status
           /\ val' = [val EXCEPT ![x] = UNDEF] /\ roots' = roots \ {x}
<1>1. ClientStep
  BY LocalVars DEF ClientStep
<1>2. /\ page' = page /\ ret' = val[x] /\ stale' = stale /\ status' = status
      /\ val' = [val EXCEPT ![x] = UNDEF] /\ roots' = roots \ {x}
  BY SameWords DEF Allocator!ReturnRoot
<1>3. /\ x \in Vars /\ x \notin DOMAIN DefnRoots /\ DOMAIN DefnRoots \subseteq Vars
      /\ val \in [Vars -> Elem]
  BY LocalVars, MemoryTypes DEF Vars
<1>4. RootsOK'
  BY <1>2, <1>3 DEF RootsOK
<1>5. QED
  BY <1>1, <1>2, <1>4

\* The cells that the variables and the new cell lead to.
Kept(h, t) == Reach(page, {val[x] : x \in roots} \cup {h, t}) \cup {UNDEF}

\* new_Cell( h, t )
CellLeaves(h, t) ==
    /\ ClientStep /\ RootsOK'
    /\ page'[ret'] = [hd |-> h, tl |-> t] /\ ret' \in Page
    /\ \A y \in Vars : (val[y] \in Page => page'[val[y]] = page[val[y]])
    /\ \A y \in Vars : \A n : val[y] \in Page \cup {UNDEF} /\ Balanced(page, val[y], n)
                              => Balanced(page', val[y], n)
    /\ \A v, w \in Kept(h, t) : Paired(page, v, w) => Paired(page', v, w)
    /\ \A y \in Vars : val[y] \in Page \cup {UNDEF} => val[y] \in Kept(h, t)
    /\ \A y \in Vars : val[y] \in Page /\ Tl(val[y]) \in Page \cup {UNDEF}
                          => Tl(val[y]) \in Kept(h, t)
    /\ stale' = FALSE
    /\ val' = val /\ roots' = roots

\* new_Cell leaves all the variables lead to as it was.
LEMMA NewLeaves ==
    ASSUME Memory, Control, status' = "running",
           NEW h \in Usable, NEW t \in Usable, new_Cell(h, t)
    PROVE  CellLeaves(h, t)
<1> DEFINE words == {val[y] : y \in roots} \cup {h, t}
<1>1. ClientStep
  BY DEF ClientStep
<1>2. /\ ret' \in Page /\ page'[ret'] = [hd |-> h, tl |-> t]
      /\ \A c \in Reach(page, words) : page'[c] = page[c]
      /\ val' = val /\ roots' = roots /\ stale' = FALSE
  <2>1. stale = FALSE
    BY DEF Control
  <2>2. /\ ret' \in Page
        /\ page'[ret'] = [hd |-> h, tl |-> t]
        /\ \A c \in Reach(page, {val[y] : y \in roots} \cup {h, t}) :
               c \in Live' /\ page'[c] = page[c]
        /\ val' = val /\ roots' = roots /\ stale' = FALSE
    BY <2>1, NewCellLeaves, Zenon
  <2>3. QED
    BY <2>2, Zenon
<1>3. words \cap Page \subseteq Reach(page, words) /\ Closed(page, Reach(page, words))
  BY ReachClosed, ReachHoldsWords
<1>4. \A y \in Vars : val[y] \in Page => val[y] \in words
  BY PageWords DEF Control, RootsOK
<1>5. Kept(h, t) = Reach(page, words) \cup {UNDEF}
  BY DEF Kept
<1> HIDE DEF words
<1>6. \A y \in Vars : val[y] \in Page /\ Tl(val[y]) \in Page \cup {UNDEF}
                        => Tl(val[y]) \in Kept(h, t)
  BY <1>3, <1>4, <1>5 DEF Closed, Children, Tl
<1>7. \A y \in Vars : \A n : val[y] \in Page \cup {UNDEF} /\ Balanced(page, val[y], n)
                             => Balanced(page', val[y], n)
  BY <1>2, <1>4, StacksKept
<1>8. \A v, w \in Kept(h, t) : Paired(page, v, w) => Paired(page', v, w)
  BY <1>2, <1>5, StacksKept
<1>9. RootsOK'
  BY <1>2 DEF Control, RootsOK
<1>10. QED
  BY <1>1, <1>2, <1>3, <1>4, <1>5, <1>6, <1>7, <1>8, <1>9 DEF CellLeaves

\* x = new_Cell( h, t )
LEMMA SetNewLeaves ==
    ASSUME Memory, Control, status' = "running",
           NEW x \in LocalRoots, NEW h \in Usable, NEW t \in Usable, NEW label,
           SetNew(x, h, t, label)
    PROVE  /\ CellLeaves(h, t) /\ RawOK'
           /\ pc' = "store" /\ raw' = NoRaw /\ into' = <<x, label>>
           /\ Label' = label /\ Held' = [val EXCEPT ![x] = ret']
<1>1. new_Cell(h, t) /\ pc' = "store" /\ into' = <<x, label>> /\ raw' = NoRaw
  BY DEF SetNew
<1>2. CellLeaves(h, t)
  BY <1>1, NewLeaves
<1>3. Label' = label /\ Held' = [val EXCEPT ![x] = ret']
  BY <1>1, <1>2 DEF Label, Held, CellLeaves
<1>4. RawOK'
  BY <1>1, PageWords DEF RawOK, NoRaw
<1>5. QED
  BY <1>1, <1>2, <1>3, <1>4

-----------------------------------------------------------------------------
(***************************************************************************)
(* Every action of the parser is a step of a client that keeps the         *)
(* discipline, and keeps Control.                                          *)
(***************************************************************************)
Sound == /\ ClientStep \/ UNCHANGED mem
         /\ status' = "running" => Control'

\* The new cell goes to the variable that waits for it.
LEMMA StoreStep ==
    ASSUME Memory, Control, Store
    PROVE  Sound
<1>1. /\ pc = "store" /\ Allocator!Assign(into[1], ret) /\ pc' = into[2] /\ raw' = raw
      /\ into' = into /\ depth' = depth /\ octets' = octets
  BY DEF Store, At, Assign, Goto, Locals, reading
<1>2. into[1] \in LocalRoots /\ into[2] # "store" /\ raw = NoRaw /\ ret \in Usable
  BY <1>1, UsableWords DEF Control
<1>3. /\ ClientStep /\ RootsOK' /\ page' = page /\ ret' = ret /\ stale' = stale
      /\ val' = [val EXCEPT ![into[1]] = ret] /\ roots' = roots
  BY <1>1, <1>2, AssignLeaves DEF Control
<1>4. Held' = Held /\ Label' = Label
  BY <1>1, <1>2, <1>3 DEF Held, Label
<1>5. TailOK'
  BY <1>3, <1>4 DEF Control, TailOK
<1>6. TailsOK'
  BY <1>1, <1>3, <1>4 DEF Control, TailsOK
<1>7. MacrosOK'
  BY <1>1, <1>3, <1>4 DEF Control, MacrosOK, Tl
<1>8. ReduceOK'
  BY <1>3, <1>4 DEF Control, ReduceOK, InHand, Tl
<1>9. RawOK'
  BY <1>1, <1>2, PageWords DEF RawOK, NoRaw
<1>10. QED
  BY <1>1, <1>2, <1>3, <1>5, <1>6, <1>7, <1>8, <1>9 DEF Control, Sound

\* An error leaves what is registered to the unwinding.
LEMMA ThrowStep ==
    ASSUME Memory, Control, pc # "store", NEW error, Throw(error)
    PROVE  Sound
<1>1. /\ UNCHANGED mem /\ depth' = depth /\ octets' = octets
      /\ pc' = "unwind" /\ raw' = NoRaw /\ into' = into
  BY DEF Throw, Locals
<1>2. /\ page' = page /\ val' = val /\ roots' = roots /\ ret' = ret /\ stale' = stale
  BY <1>1 DEF mem
<1>3. Held = val /\ Held' = val /\ Label' = "unwind"
  BY <1>1, <1>2 DEF Held, Label
<1>4. RootsOK' /\ TailOK'
  BY <1>2, <1>3 DEF Control, RootsOK, TailOK
<1>5. TailsOK'
  BY <1>1, <1>2, <1>3 DEF Control, TailsOK, Before, Reads, InMacros, Rotates
<1>6. MacrosOK'
  BY <1>1, <1>2, <1>3 DEF MacrosOK, Macros, Reads, MacroRoots
<1>7. ReduceOK'
  BY <1>1, <1>2, <1>3 DEF ReduceOK, Before, Reads, InMacros, Rotates
<1>8. RawOK'
  BY <1>1, PageWords DEF RawOK, NoRaw
<1>9. QED
  BY <1>1, <1>2, <1>4, <1>5, <1>6, <1>7, <1>8 DEF Control, Sound

\* The unwinding unregisters all but the definitions.
LEMMA UnwindStep ==
    ASSUME Memory, Control, Unwind
    PROVE  Sound
<1>1. pc = "unwind" /\ depth' = depth /\ octets' = octets
  BY DEF Unwind, At, reading
<1> DEFINE mine == roots \cap LocalRoots
           x    == CHOOSE y \in mine : TRUE
<1>2. RootsOK /\ TailOK /\ RawOK
  BY DEF Control
<1>3. CASE mine = {}
  <2>1. UNCHANGED mem /\ pc' = "error" /\ raw' = raw /\ into' = into
    BY <1>3 DEF Unwind, Leave, Goto, Locals
  <2>2. /\ page' = page /\ val' = val /\ roots' = roots /\ ret' = ret /\ stale' = stale
    BY <2>1 DEF mem
  <2>3. Held = val /\ Held' = val /\ Label' = "error"
    BY <1>1, <2>1, <2>2 DEF Held, Label
  <2>4. RootsOK' /\ TailOK'
    BY <1>2, <2>2, <2>3 DEF RootsOK, TailOK
  <2>5. TailsOK'
    BY <1>1, <2>2, <2>3 DEF Control, TailsOK, Before, Reads, InMacros, Rotates
  <2>6. MacrosOK'
    BY <2>3 DEF MacrosOK, Macros, Reads, MacroRoots
  <2>7. ReduceOK'
    BY <2>3 DEF ReduceOK, Before, Reads, InMacros, Rotates
  <2>8. RawOK'
    BY <1>1, <1>2, <2>1 DEF RawOK, Macros
  <2>9. QED
    BY <1>1, <2>1, <2>2, <2>4, <2>5, <2>6, <2>7, <2>8 DEF Control, Sound
<1>4. CASE mine # {}
  <2>1. Allocator!DelRoot(x) /\ x \in mine /\ pc' = pc /\ raw' = raw /\ into' = into
    BY <1>4 DEF Unwind, Leave, control
  <2>2. x \in LocalRoots
    BY <2>1, MemoryTypes
  <2> HIDE DEF x, mine
  <2>3. /\ ClientStep /\ RootsOK' /\ page' = page /\ ret' = ret /\ stale' = stale
        /\ val' = [val EXCEPT ![x] = UNDEF] /\ roots' = roots \ {x}
    BY <1>2, <2>1, <2>2, DelRootLeaves
  <2>4. Held = val /\ Held' = val' /\ Label' = "unwind"
    BY <1>1, <2>1 DEF Held, Label
  <2>5. TailOK'
    BY <1>2, <2>3, <2>4, MemoryTypes DEF TailOK, Vars, LocalRoots
  <2>6. TailsOK'
    BY <1>1, <2>3, <2>4 DEF Control, TailsOK, Before, Reads, InMacros, Rotates
  <2>7. MacrosOK'
    BY <2>4 DEF MacrosOK, Macros, Reads, MacroRoots
  <2>8. ReduceOK'
    BY <2>4 DEF ReduceOK, Before, Reads, InMacros, Rotates
  <2>9. RawOK'
    BY <1>1, <1>2, <2>1 DEF RawOK, Macros
  <2>10. QED
    BY <1>1, <2>1, <2>3, <2>5, <2>6, <2>7, <2>8, <2>9 DEF Control, Sound
<1>5. QED
  BY <1>3, <1>4

-----------------------------------------------------------------------------
\* The roots of a frame, one by one.
LEMMA EnterSteps ==
    ASSUME NEW a, NEW b, NEW c, NEW d, NEW u, NEW v, NEW w, NEW z, NEW body
    PROVE  /\ Enter(<<<<a, u>>>>, body) => Allocator!AddRoot(a, u) /\ Locals(body, NoRaw)
           /\ Enter(<<<<a, u>>, <<b, v>>>>, body) =>
                \/ Allocator!AddRoot(a, u) /\ UNCHANGED control
                \/ a \in roots /\ Allocator!AddRoot(b, v) /\ Locals(body, NoRaw)
           /\ Enter(<<<<a, u>>, <<b, v>>, <<c, w>>, <<d, z>>>>, body) =>
                \/ Allocator!AddRoot(a, u) /\ UNCHANGED control
                \/ Allocator!AddRoot(b, v) /\ UNCHANGED control
                \/ Allocator!AddRoot(c, w) /\ UNCHANGED control
                \/ a \in roots /\ Allocator!AddRoot(d, z) /\ Locals(body, NoRaw)
BY DEF Enter

\* _parse_elems begins with no list and no open bracket.
LEMMA StartStep ==
    ASSUME Memory, Control, Start
    PROVE  Sound
<1>1. /\ pc = "start" /\ depth' = depth /\ octets' = octets
      /\ \/ Allocator!AddRoot("tail", UNDEF) /\ UNCHANGED control
         \/ /\ "tail" \in roots /\ Allocator!AddRoot("tails", UNDEF)
            /\ Locals("token", NoRaw)
  BY EnterSteps DEF Start, At, reading
<1>2. RootsOK /\ TailOK /\ TailsOK /\ MacrosOK /\ ReduceOK /\ RawOK /\ Held = val /\ Label = "start"
  BY <1>1 DEF Control, Held, Label
<1>3. UNDEF \in Usable /\ "tail" \in Vars /\ "tails" \in Vars
  BY <1>2, UsableWords DEF Vars, LocalRoots
<1>4. CASE Allocator!AddRoot("tail", UNDEF) /\ UNCHANGED control
  <2>1. pc' = pc /\ raw' = raw /\ into' = into
    BY <1>4 DEF control
  <2>2. /\ ClientStep /\ RootsOK' /\ page' = page /\ ret' = ret /\ stale' = stale
        /\ val' = [val EXCEPT !["tail"] = UNDEF] /\ roots' = roots \cup {"tail"}
    BY <1>2, <1>3, <1>4, AddRootLeaves
  <2>3. Held' = val' /\ Label' = "start"
    BY <1>1, <2>1 DEF Held, Label
  <2>4. TailOK' /\ val'["tails"] = val["tails"]
    BY <1>2, <1>3, <2>2, <2>3, MemoryTypes DEF TailOK
  <2>5. TailsOK'
    BY <1>1, <1>2, <2>2, <2>3, <2>4 DEF TailsOK, Before, Reads
  <2>6. MacrosOK'
    BY <1>2, <2>2, <2>3 DEF MacrosOK, Macros, Reads, MacroRoots
  <2>7. ReduceOK'
    BY <1>2, <2>2, <2>3, MemoryTypes DEF ReduceOK, Before, Reads
  <2>8. RawOK'
    BY <1>1, <1>2, <2>1 DEF RawOK, Macros
  <2>9. QED
    BY <1>1, <2>1, <2>2, <2>4, <2>5, <2>6, <2>7, <2>8 DEF Control, Sound
<1>5. CASE /\ "tail" \in roots /\ Allocator!AddRoot("tails", UNDEF)
           /\ Locals("token", NoRaw)
  <2>1. pc' = "token" /\ raw' = NoRaw /\ into' = into
    BY <1>5 DEF Locals
  <2>2. /\ ClientStep /\ RootsOK' /\ page' = page /\ ret' = ret /\ stale' = stale
        /\ val' = [val EXCEPT !["tails"] = UNDEF] /\ roots' = roots \cup {"tails"}
    BY <1>2, <1>3, <1>5, AddRootLeaves
  <2>3. Held' = val' /\ Label' = "token"
    BY <1>1, <2>1 DEF Held, Label
  <2>4. TailOK' /\ val'["tails"] = UNDEF
    BY <1>2, <1>3, <2>2, <2>3, MemoryTypes DEF TailOK
  <2>5. TailsOK'
    <3>1. "tails" \notin roots
      BY <1>5 DEF Allocator!AddRoot
    <3>2. Balanced(page, UNDEF, depth) /\ depth \in Int
      BY <1>2, <1>3, <3>1 DEF TailsOK, RootsOK, Before, Reads
    <3>3. QED
      BY <1>1, <2>2, <2>3, <2>4, <3>2 DEF TailsOK
  <2>6. MacrosOK'
    BY <1>2, <2>2, <2>3 DEF MacrosOK, Macros, Reads, MacroRoots
  <2>7. ReduceOK'
    BY <1>2, <2>2, <2>3, MemoryTypes DEF ReduceOK, Before, Reads
  <2>8. RawOK'
    BY <2>1, PageWords DEF RawOK, NoRaw
  <2>9. QED
    BY <1>1, <2>1, <2>2, <2>4, <2>5, <2>6, <2>7, <2>8 DEF Control, Sound
<1>6. QED
  BY <1>1, <1>4, <1>5

\* Space changes nothing.
LEMMA SpaceStep ==
    ASSUME Memory, Control, Space
    PROVE  Sound
<1>1. /\ pc = "token" /\ pc' = pc /\ raw' = raw /\ into' = into /\ UNCHANGED mem
      /\ depth' = depth /\ octets' = octets
  BY DEF Space, Reading, At, control
<1>2. /\ page' = page /\ val' = val /\ roots' = roots /\ ret' = ret /\ stale' = stale
  BY <1>1 DEF mem
<1>3. Held' = Held /\ Label' = Label
  BY <1>1, <1>2 DEF Held, Label
<1>4. RootsOK' /\ TailOK'
  BY <1>2, <1>3 DEF Control, RootsOK, TailOK
<1>5. TailsOK'
  BY <1>1, <1>2, <1>3 DEF Control, TailsOK
<1>6. MacrosOK'
  BY <1>1, <1>2, <1>3 DEF Control, MacrosOK, Tl
<1>7. ReduceOK'
  BY <1>2, <1>3 DEF Control, ReduceOK, InHand, Tl
<1>8. RawOK'
  BY <1>1 DEF Control, RawOK, Macros
<1>9. QED
  BY <1>1, <1>2, <1>4, <1>5, <1>6, <1>7, <1>8 DEF Control, Sound

\* What ends the reading with an error.
LEMMA ThrowingSteps ==
    ASSUME Memory, Control, Unexpected \/ EndOfInput
    PROVE  Sound
<1>1. pc # "store" /\ (Throw("wrong") \/ Throw("more"))
  BY DEF Unexpected, EndOfInput, At
<1>2. QED
  BY <1>1, ThrowStep

\* A step that only moves on to a place without demands of its own.
LEMMA GotoStep ==
    ASSUME Memory, Control, UNCHANGED mem, Locals(pc', raw), pc # "store",
           \/ pc = "trailing" /\ pc' = "return"
           \/ pc = "token" /\ pc' = "#",
           depth' = depth, octets'[1] \in Int
    PROVE  Sound
<1>1. raw' = raw /\ into' = into /\ Label = pc /\ Held = val /\ Label' = pc' /\ Held' = val'
  BY DEF Locals, Held, Label
<1>2. /\ page' = page /\ val' = val /\ roots' = roots /\ ret' = ret /\ stale' = stale
  BY DEF mem
<1>4. RootsOK' /\ TailOK'
  BY <1>1, <1>2 DEF Control, RootsOK, TailOK
<1>5. TailsOK'
  BY <1>1, <1>2 DEF Control, TailsOK, Before, Reads, InMacros, Rotates
<1>6. MacrosOK'
  BY <1>1, <1>2 DEF Control, MacrosOK, Macros, Reads, InMacros
<1>7. ReduceOK'
  BY <1>1, <1>2 DEF Control, ReduceOK, Before, Reads, InMacros, Rotates
<1>8. RawOK'
  BY <1>1 DEF Control, RawOK, Macros
<1>9. QED
  BY <1>1, <1>2, <1>4, <1>5, <1>6, <1>7, <1>8 DEF Control, Sound

\* A new cell before the turning round, pushed on the list read so far or kept
\* for a reader or a macro.
LEMMA ReadingNew ==
    ASSUME Memory, Control, pc \in (Reads \cup InMacros) \ {"pop"},
           NEW x \in {"tail", "n4", "r"}, NEW h \in Usable, NEW t \in Usable, NEW label,
           SetNew(x, h, t, label),
           \/ pc \in Reads /\ x = "tail" /\ label \in {"token", "trailing"}
           \/ pc \in Reads /\ x = "n4" /\ label = "octet"
           \/ pc = "qt" /\ x = "r" /\ label = "quoted"
           \/ pc = "quoted" /\ x = "r" /\ label = "quote"
           \/ pc = "reverse" /\ x = "r" /\ label = "reversed" /\ val["t"] \in Page,
           depth' = IF pc = "closed" THEN depth - 1 ELSE depth,
           octets'[1] \in Int
    PROVE  Sound
<1>1. ClientStep
  BY DEF ClientStep, SetNew
<1>2. SUFFICES ASSUME status' = "running" PROVE Control'
  BY <1>1 DEF Sound
<1>3. /\ pc # "store" /\ x \in LocalRoots
      /\ "tail" \in Vars /\ "tails" \in Vars /\ "t" \in Vars /\ "r" \in Vars
      /\ "acc" \in Vars /\ "accs" \in Vars /\ "pcells" \in Vars
  BY DEF Reads, InMacros, Vars, LocalRoots, MacroRoots, ReduceRoots
<1>4. /\ TailOK /\ TailsOK /\ MacrosOK /\ ReduceOK /\ Held = val /\ Label = pc
      /\ val \in [Vars -> Elem] /\ label # "store"
  BY <1>3, MemoryTypes DEF Control, Held, Label
<1>5. /\ RootsOK' /\ RawOK' /\ ret' \in Page /\ stale' = FALSE
      /\ \A y \in Vars : \A n : val[y] \in Page \cup {UNDEF} /\ Balanced(page, val[y], n)
                                => Balanced(page', val[y], n)
      /\ val' = val /\ roots' = roots /\ pc' = "store" /\ raw' = NoRaw
      /\ into' = <<x, label>> /\ Label' = label /\ Held' = [val EXCEPT ![x] = ret']
  BY <1>2, <1>3, SetNewLeaves DEF CellLeaves
<1>6. TailOK'
  BY <1>3, <1>4, <1>5 DEF TailOK
<1>7. TailsOK'
  <2>1. depth' \in Int /\ Balanced(page, val["tails"], depth')
    BY <1>4 DEF TailsOK, Before
  <2>2. val["tails"] \in Page \cup {UNDEF}
    BY <2>1, PopBalanced, EmptyBalanced
  <2>3. Balanced(page', val["tails"], depth') /\ Held'["tails"] = val["tails"]
    BY <1>3, <1>4, <1>5, <2>1, <2>2
  <2>4. QED
    BY <1>5, <2>1, <2>3 DEF TailsOK
<1>8. MacrosOK'
  BY <1>3, <1>4, <1>5 DEF MacrosOK, Macros, Reads, MacroRoots
<1>9. ReduceOK'
  BY <1>3, <1>4, <1>5 DEF ReduceOK, Before
<1>10. QED
  BY <1>3, <1>4, <1>5, <1>6, <1>7, <1>8, <1>9 DEF Control

\* A byte is a word that is no cell.
LEMMA Bytes ==
    ASSUME NEW n \in 0 .. 255, NEW kind \in {0, 1}
    PROVE  NewByte(n, kind) \in Elem \ Page /\ n \in Elem \ Page
<1>1. 512 \in Nat /\ UNDEF \in Nat /\ UNDEF >= 512
  BY DEF UNDEF
<1>2. NewByte(n, kind) \in 0 .. 511
  BY DEF NewByte
<1>3. NewByte(n, kind) \in 0 .. UNDEF /\ n \in 0 .. UNDEF
  BY <1>1, <1>2
<1>4. QED
  BY <1>3, SmallWords

\* An open bracket lets one more list wait.
LEMMA OpenStep ==
    ASSUME Memory, Control, Open
    PROVE  Sound
<1>1. RootsOK /\ TailOK /\ TailsOK /\ MacrosOK /\ ReduceOK
  BY DEF Control
<1>2. /\ "tail" \in Vars /\ "tails" \in LocalRoots
      /\ "acc" \in Vars /\ "accs" \in Vars /\ "pcells" \in Vars
  BY DEF Vars, LocalRoots, ReduceRoots
<1>3. val["tail"] \in Usable /\ val["tails"] \in Usable /\ UNDEF \in Usable
  BY <1>1, <1>2, LocalVars, UsableWords
<1>4. val \in [Vars -> Elem]
  BY MemoryTypes
<1>5. CASE /\ Reading("[")
           /\ depth' = depth + 1
           /\ SetNew("tails", val["tail"], val["tails"], "opened")
           /\ UNCHANGED <<names, octets, outcome>>
  <2>1. pc = "token" /\ Held = val /\ Label = "token" /\ octets' = octets
    BY <1>5 DEF Reading, At, Held, Label
  <2>2. ClientStep
    BY <1>3, <1>5 DEF ClientStep, SetNew
  <2>3. SUFFICES ASSUME status' = "running" PROVE Control'
    BY <2>2 DEF Sound
  <2>4. /\ RootsOK' /\ RawOK' /\ stale' = FALSE
        /\ page'[ret'] = [hd |-> val["tail"], tl |-> val["tails"]] /\ ret' \in Page
        /\ \A y \in Vars : \A n : val[y] \in Page \cup {UNDEF} /\ Balanced(page, val[y], n)
                                  => Balanced(page', val[y], n)
        /\ val' = val /\ roots' = roots /\ pc' = "store" /\ raw' = NoRaw
        /\ into' = <<"tails", "opened">>
        /\ Label' = "opened" /\ Held' = [val EXCEPT !["tails"] = ret']
    <3>1. /\ CellLeaves(val["tail"], val["tails"]) /\ RawOK'
          /\ pc' = "store" /\ raw' = NoRaw /\ into' = <<"tails", "opened">>
          /\ Label' = "opened" /\ Held' = [val EXCEPT !["tails"] = ret']
      BY <1>2, <1>3, <1>5, <2>3, SetNewLeaves
    <3>2. QED
      BY <3>1 DEF CellLeaves
  <2>5. TailOK'
    BY <1>1, <1>2, <1>4, <2>1, <2>4 DEF TailOK
  <2>6. TailsOK'
    <3>1. depth \in Int /\ Balanced(page, val["tails"], depth)
      BY <1>1, <2>1 DEF TailsOK, Before, Reads
    <3>2. Balanced(page', val["tails"], depth)
      BY <1>2, <2>4, <3>1, LocalVars, PopBalanced, EmptyBalanced
    <3>3. Balanced(page', ret', depth + 1)
      BY <1>1, <2>1, <2>4, <3>1, <3>2, PushBalanced DEF TailOK
    <3>4. QED
      BY <1>2, <1>4, <1>5, <2>4, <3>1, <3>3, LocalVars DEF TailsOK
  <2>7. MacrosOK'
    BY <1>1, <2>1, <2>4 DEF MacrosOK, Macros, Reads, MacroRoots
  <2>8. ReduceOK'
    BY <1>1, <1>2, <1>4, <2>1, <2>4 DEF ReduceOK, Before, Reads
  <2>9. QED
    BY <1>2, <2>1, <2>4, <2>5, <2>6, <2>7, <2>8 DEF Control
<1>6. CASE At("opened") /\ Assign("tail", UNDEF, "token") /\ UNCHANGED reading
  <2>1. /\ pc = "opened" /\ Held = val /\ Label = "opened"
        /\ depth' = depth /\ octets' = octets
        /\ pc' = "token" /\ raw' = raw /\ Allocator!Assign("tail", UNDEF)
    BY <1>6 DEF At, Held, Label, reading, Assign, Goto, Locals
  <2>2. /\ ClientStep /\ RootsOK' /\ page' = page /\ ret' = ret /\ stale' = stale
        /\ val' = [val EXCEPT !["tail"] = UNDEF] /\ roots' = roots
    BY <1>1, <1>2, <1>3, <2>1, AssignLeaves DEF Vars, LocalRoots
  <2>3. Held' = val' /\ Label' = "token"
    BY <2>1 DEF Held, Label
  <2>4. TailOK'
    BY <1>2, <1>4, <2>2, <2>3 DEF TailOK
  <2>5. TailsOK'
    BY <1>1, <1>2, <1>4, <2>1, <2>2, <2>3 DEF TailsOK, Before, Reads
  <2>6. MacrosOK'
    BY <1>1, <2>1, <2>2, <2>3 DEF MacrosOK, Macros, Reads, MacroRoots
  <2>7. ReduceOK'
    BY <1>1, <1>2, <1>4, <2>1, <2>2, <2>3 DEF ReduceOK, Before, Reads
  <2>8. RawOK'
    BY <2>1 DEF Control, RawOK, Macros
  <2>9. QED
    BY <2>1, <2>2, <2>4, <2>5, <2>6, <2>7, <2>8 DEF Control, Sound
<1>7. QED
  BY <1>5, <1>6 DEF Open

\* A closing bracket takes a waiting list, for there is one.
LEMMA CloseStep ==
    ASSUME Memory, Control, Close
    PROVE  Sound
<1>1. RootsOK /\ TailOK /\ TailsOK /\ MacrosOK /\ ReduceOK /\ RawOK /\ octets[1] \in Int
  BY DEF Control
<1>2. /\ "tail" \in LocalRoots /\ "tails" \in LocalRoots
      /\ "acc" \in Vars /\ "accs" \in Vars /\ "pcells" \in Vars
  BY DEF Vars, LocalRoots, ReduceRoots
<1>3. val["tail"] \in Usable /\ val["tails"] \in Usable /\ UNDEF \in Usable
  BY <1>1, <1>2, LocalVars, UsableWords
<1>4. val \in [Vars -> Elem] /\ ret \in Elem
  BY MemoryTypes
<1>5. CASE Reading("]") /\ Throw("wrong")
  <2>1. pc # "store"
    BY <1>5 DEF Reading, At
  <2>2. QED
    BY <1>5, <2>1, ThrowStep
<1>6. CASE /\ Reading("]") /\ depth # 0
           /\ Allocator!Assign("tail", Hd(val["tails"]))
           /\ Locals("pop", [NoRaw EXCEPT !.elems = val["tail"]])
           /\ UNCHANGED <<names, depth, octets, outcome>>
  <2>1. /\ pc = "token" /\ Held = val /\ Label = "token" /\ pc' = "pop"
        /\ raw' = [NoRaw EXCEPT !.elems = val["tail"]]
        /\ depth' = depth /\ octets' = octets
    BY <1>6 DEF Reading, At, Held, Label, Locals
  <2>2. depth \in Int /\ Balanced(page, val["tails"], depth)
    BY <1>1, <2>1 DEF TailsOK, Before, Reads
  <2>3. val["tails"] \in Page /\ Hd(val["tails"]) \in Page \cup {UNDEF}
    BY <1>6, <2>2, PopBalanced DEF Hd
  <2>4. Hd(val["tails"]) \in Usable
    BY <1>1, <1>3, <2>3, UsableWords
  <2>5. /\ ClientStep /\ RootsOK' /\ page' = page /\ ret' = ret /\ stale' = stale
        /\ val' = [val EXCEPT !["tail"] = Hd(val["tails"])] /\ roots' = roots
    BY <1>1, <1>2, <1>6, <2>4, AssignLeaves
  <2>6. Held' = val' /\ Label' = "pop"
    BY <2>1 DEF Held, Label
  <2>7. TailOK'
    BY <1>2, <1>4, <2>3, <2>5, <2>6, LocalVars DEF TailOK
  <2>8. TailsOK'
    BY <1>2, <1>4, <2>1, <2>2, <2>3, <2>5, <2>6 DEF TailsOK
  <2>9. MacrosOK'
    BY <1>1, <2>1, <2>5, <2>6 DEF MacrosOK, Macros, Reads, MacroRoots
  <2>10. ReduceOK'
    BY <1>1, <1>2, <1>4, <2>1, <2>5, <2>6 DEF ReduceOK, Before, Reads
  <2>11. RawOK'
    <3>1. val["tail"] \in Elem /\ val["tail"] \in {UNDEF, ret'} /\ UNDEF \in Elem
      BY <1>1, <1>2, <1>4, <2>1, <2>5, PageWords DEF TailOK
    <3>2. QED
      BY <2>1, <3>1, PageWords DEF RawOK, NoRaw, InHand
  <2>12. QED
    BY <1>1, <2>1, <2>5, <2>7, <2>8, <2>9, <2>10, <2>11 DEF Control, Sound
<1>7. CASE At("pop") /\ Assign("tails", Tl(val["tails"]), "closed") /\ UNCHANGED reading
  <2>1. /\ pc = "pop" /\ Held = val /\ Label = "pop" /\ depth' = depth /\ octets' = octets
        /\ pc' = "closed" /\ raw' = raw /\ Allocator!Assign("tails", Tl(val["tails"]))
    BY <1>7 DEF At, Held, Label, reading, Assign, Goto, Locals
  <2>2. depth \in Int /\ Balanced(page, val["tails"], depth) /\ val["tails"] \in Page
    BY <1>1, <2>1 DEF TailsOK, Before, Reads
  <2>3. Balanced(page, Tl(val["tails"]), depth - 1)
    BY <2>2, PopBalanced DEF Tl
  <2>4. Tl(val["tails"]) \in Usable
    BY <1>1, <1>3, <2>2, UsableWords
  <2>5. /\ ClientStep /\ RootsOK' /\ page' = page /\ ret' = ret /\ stale' = stale
        /\ val' = [val EXCEPT !["tails"] = Tl(val["tails"])] /\ roots' = roots
    BY <1>1, <1>2, <2>1, <2>4, AssignLeaves
  <2>6. Held' = val' /\ Label' = "closed"
    BY <2>1 DEF Held, Label
  <2>7. TailOK'
    BY <1>1, <1>2, <1>4, <2>1, <2>5, <2>6 DEF TailOK
  <2>8. TailsOK'
    BY <1>2, <1>4, <2>1, <2>2, <2>3, <2>5, <2>6, LocalVars DEF TailsOK
  <2>9. MacrosOK'
    BY <1>1, <2>1, <2>5, <2>6 DEF MacrosOK, Macros, Reads, MacroRoots
  <2>10. ReduceOK'
    BY <1>1, <1>2, <1>4, <2>1, <2>5, <2>6 DEF ReduceOK, Before, Reads
  <2>11. RawOK'
    BY <1>1, <2>1, <2>5 DEF RawOK, InHand, Macros
  <2>12. QED
    BY <1>1, <2>1, <2>5, <2>7, <2>8, <2>9, <2>10, <2>11 DEF Control, Sound
<1>8. CASE /\ At("closed") /\ depth' = depth - 1
           /\ SetNew("tail", raw.elems, val["tail"], AfterToken(depth'))
           /\ UNCHANGED <<input, typed, names, octets, outcome>>
  <2>1. pc = "closed" /\ octets' = octets /\ AfterToken(depth') \in {"token", "trailing"}
    BY <1>8 DEF At, AfterToken
  <2>2. raw.elems \in Usable
    BY <1>1, UsableWords DEF NoRaw
  <2>3. QED
    BY <1>1, <1>3, <1>8, <2>1, <2>2, ReadingNew DEF Reads
<1>9. QED
  BY <1>5, <1>6, <1>7, <1>8 DEF Close

-----------------------------------------------------------------------------
(***************************************************************************)
(* The digits after # always have a number, negative when they are wrong.  *)
(***************************************************************************)
LEMMA NextDigitType ==
    ASSUME NEW n \in Int, NEW d \in 0 .. 9
    PROVE  NextDigit(n, d) \in Int
<1> DEFINE W == Octet * Octet * Octet * Octet
<1>1. Octet \in Nat /\ Octet > 0
  BY TokensAssumption
<1>2. W \in Nat /\ W > 0
  <2>1. Octet * Octet \in Nat /\ Octet * Octet > 0
    BY <1>1
  <2>2. Octet * Octet * Octet \in Nat /\ Octet * Octet * Octet > 0
    BY <1>1, <2>1
  <2>3. QED
    BY <1>1, <2>2
<1> HIDE DEF W
<1>3. 10 * n + d \in Int
  OBVIOUS
<1>4. (10 * n + d) % W \in Int
  BY <1>2, <1>3
<1>5. QED
  BY <1>4 DEF NextDigit, W

IsDigitChain(row, f) ==
    f = [i \in 0 .. Len(row) |-> IF i = 0 THEN 0 ELSE NextDigit(f[i - 1], row[i])]

\* The numbers of all the leading digits exist.
LEMMA SomeDigitChain ==
    ASSUME NEW row \in Seq(0 .. 9)
    PROVE  \E f : IsDigitChain(row, f)
<1> DEFINE Link(f, i) == f[i] = IF i = 0 THEN 0 ELSE NextDigit(f[i - 1], row[i])
           Upto(k, f) == /\ f = [i \in 0 .. Len(row) |-> f[i]]
                         /\ \A i \in 0 .. k : Link(f, i)
           Bad == {k \in 0 .. Len(row) : ~ \E f : Upto(k, f)}
<1>1. Len(row) \in Nat
  OBVIOUS
<1>2. Bad = {}
  <2>1. SUFFICES ASSUME Bad # {} PROVE FALSE
    OBVIOUS
  <2>2. PICK k \in Bad : \A j \in Bad : k <= j
    <3>1. Bad \in SUBSET Nat
      BY <1>1
    <3> HIDE DEF Bad
    <3>2. QED
      BY <2>1, <3>1, SmallestNumber
  <2>3. k \in 0 .. Len(row) /\ ~ \E f : Upto(k, f)
    OBVIOUS
  <2>4. k # 0
    <3> DEFINE first == [i \in 0 .. Len(row) |-> 0]
    <3>1. first[0] = 0 /\ first = [i \in 0 .. Len(row) |-> first[i]]
      BY <1>1
    <3>2. Upto(0, first)
      BY <3>1
    <3> HIDE DEF Upto
    <3>3. QED
      BY <2>3, <3>2
  <2>5. k - 1 \in 0 .. Len(row) /\ k \in Nat
    BY <1>1, <2>3, <2>4
  <2>6. PICK f : Upto(k - 1, f)
    <3>1. k - 1 \notin Bad
      BY <2>2, <2>5
    <3> HIDE DEF Upto
    <3>2. QED
      BY <2>5, <3>1
  <2> DEFINE g == [i \in 0 .. Len(row) |-> IF i = k THEN NextDigit(f[k - 1], row[k]) ELSE f[i]]
  <2>7. \A i \in 0 .. Len(row) : i # k => g[i] = f[i]
    OBVIOUS
  <2>8. g[k] = NextDigit(g[k - 1], row[k])
    BY <2>3, <2>5, <2>7
  <2>9. g = [i \in 0 .. Len(row) |-> g[i]]
    OBVIOUS
  <2> HIDE DEF g
  <2>10. ASSUME NEW i \in 0 .. k
         PROVE  Link(g, i)
    <3>1. CASE i = k
      BY <2>4, <2>8, <3>1
    <3>2. CASE i # k
      <4>1. i \in 0 .. (k - 1) /\ i \in 0 .. Len(row)
               /\ (i # 0 => i - 1 \in 0 .. Len(row) /\ i - 1 # k)
        BY <1>1, <2>3, <2>5, <3>2
      <4>2. Link(f, i)
        BY <2>6, <4>1
      <4>3. QED
        BY <2>7, <3>2, <4>1, <4>2
    <3>3. QED
      BY <3>1, <3>2
  <2>11. Upto(k, g)
    BY <2>9, <2>10
  <2> HIDE DEF Upto
  <2>12. QED
    BY <2>3, <2>11
<1>3. PICK f : Upto(Len(row), f)
  <2>1. Len(row) \in 0 .. Len(row)
    BY <1>1
  <2> HIDE DEF Upto
  <2>2. QED
    BY <1>2, <2>1
<1>4. IsDigitChain(row, f)
  BY <1>3 DEF IsDigitChain
<1>5. QED
  BY <1>4

\* So the digits have a number.
LEMMA DigitsType ==
    ASSUME NEW row \in Seq(0 .. 9)
    PROVE  Digits(row) \in Int
<1> DEFINE f == CHOOSE n : IsDigitChain(row, n)
           Bad == {i \in 0 .. Len(row) : f[i] \notin Int}
<1>1. IsDigitChain(row, f) /\ Len(row) \in Nat
  BY SomeDigitChain
<1>2. Digits(row) = f[Len(row)]
  BY DEF Digits, IsDigitChain
<1> HIDE DEF f
<1>3. \A i \in 0 .. Len(row) : f[i] = IF i = 0 THEN 0 ELSE NextDigit(f[i - 1], row[i])
  BY <1>1 DEF IsDigitChain
<1>4. Bad = {}
  <2>1. SUFFICES ASSUME Bad # {} PROVE FALSE
    OBVIOUS
  <2>2. PICK k \in Bad : \A j \in Bad : k <= j
    <3>1. Bad \in SUBSET Nat
      BY <1>1
    <3> HIDE DEF Bad
    <3>2. QED
      BY <2>1, <3>1, SmallestNumber
  <2>3. k # 0 /\ k \in 1 .. Len(row) /\ k - 1 \in 0 .. Len(row)
    BY <1>1, <1>3, <2>2
  <2>4. k - 1 \notin Bad /\ row[k] \in 0 .. 9
    BY <1>1, <2>2, <2>3
  <2>5. f[k] \in Int
    BY <1>3, <2>3, <2>4, NextDigitType
  <2>6. QED
    BY <2>2, <2>5
<1>5. QED
  BY <1>1, <1>2, <1>4

-----------------------------------------------------------------------------
\* A name, a number or the word a reader returned joins the list.
LEMMA TokenSteps ==
    ASSUME Memory, Control,
           \/ \E c \in Names : Name(c)
           \/ \E c \in DOMAIN Numbers : Number(c)
           \/ HashRead
    PROVE  Sound
<1>1. RootsOK /\ octets[1] \in Int
  BY DEF Control
<1>2. val["tail"] \in Usable /\ UNDEF \in Usable /\ ret \in Usable
  BY <1>1, UsableWords DEF Vars, LocalRoots
<1>3. CASE \E c \in DOMAIN Numbers : Reading(c) /\ Throw("wrong")
  <2>1. pc # "store" /\ Throw("wrong")
    BY <1>3 DEF Reading, At
  <2>2. QED
    BY <2>1, ThrowStep
<1>4. CASE /\ pc \in {"token", "read"} /\ depth' = depth /\ octets' = octets
           /\ \E h \in Usable : SetNew("tail", h, val["tail"], AfterToken(depth))
  <2>1. AfterToken(depth) \in {"token", "trailing"}
    BY DEF AfterToken
  <2>2. QED
    BY <1>1, <1>2, <1>4, <2>1, ReadingNew DEF Reads
<1>5. CASE \E c \in Names : Name(c)
  BY <1>2, <1>4, <1>5 DEF Name, Reading, At
<1>6. CASE HashRead
  BY <1>2, <1>4, <1>6 DEF HashRead, At, reading
<1>7. CASE \E c \in DOMAIN Numbers : Number(c)
  <2>1. PICK c \in DOMAIN Numbers : Number(c)
    BY <1>7
  <2>2. CASE Numbers[c] >= 256
    BY <1>3, <2>1, <2>2 DEF Number
  <2>3. CASE ~ (Numbers[c] >= 256)
    <3>1. Numbers[c] \in 0 .. 255
      <4>1. Numbers[c] \in Nat
        BY TokensAssumption, Zenon
      <4>2. QED
        BY <2>3, <4>1
    <3>2. NewByte(Numbers[c], 0) \in Usable
      BY <1>1, <3>1, Bytes, UsableWords
    <3>3. /\ pc = "token" /\ depth' = depth /\ octets' = octets
          /\ SetNew("tail", NewByte(Numbers[c], 0), val["tail"], AfterToken(depth))
      BY <2>1, <2>3 DEF Number, Reading, At
    <3>4. QED
      BY <1>4, <3>2, <3>3
  <2>4. QED
    BY <2>2, <2>3
<1>8. QED
  BY <1>5, <1>6, <1>7

\* The reader # begins.
LEMMA HashStep ==
    ASSUME Memory, Control, NEW c \in DOMAIN Hashes, Hash(c)
    PROVE  Sound
<1>1. RootsOK /\ TailOK /\ TailsOK /\ MacrosOK /\ ReduceOK /\ RawOK /\ octets[1] \in Int
  BY DEF Control
<1>2. CASE Reading(c) /\ Throw("wrong")
  <2>1. pc # "store" /\ Throw("wrong")
    BY <1>2 DEF Reading, At
  <2>2. QED
    BY <2>1, ThrowStep
<1>3. CASE Reading(c) /\ octets' = <<Digits(Hashes[c]), 4>> /\ Goto("#")
             /\ UNCHANGED <<mem, names, depth, outcome>>
  <2>1. pc = "token" /\ pc' = "#" /\ Locals(pc', raw) /\ UNCHANGED mem /\ depth' = depth
    BY <1>3 DEF Reading, At, Goto, Locals
  <2>2. octets'[1] \in Int
    BY <1>3, DigitsType, TokensAssumption
  <2>3. QED
    BY <2>1, <2>2, GotoStep
<1>4. CASE At("#") /\ Enter(<<<<"n4", UNDEF>>>>, "octet") /\ UNCHANGED reading
  <2>1. /\ pc = "#" /\ Held = val /\ Label = "#" /\ depth' = depth /\ octets' = octets
        /\ pc' = "octet" /\ raw' = NoRaw /\ Allocator!AddRoot("n4", UNDEF)
    BY <1>4, EnterSteps DEF At, Held, Label, reading, Locals
  <2>2. "n4" \in Vars /\ UNDEF \in Usable
    BY <1>1, UsableWords DEF Vars, LocalRoots
  <2>3. /\ ClientStep /\ RootsOK' /\ page' = page /\ ret' = ret /\ stale' = stale
        /\ val' = [val EXCEPT !["n4"] = UNDEF] /\ roots' = roots \cup {"n4"}
    BY <1>1, <2>1, <2>2, AddRootLeaves
  <2>4. Held' = val' /\ Label' = "octet"
    BY <2>1 DEF Held, Label
  <2>5. \A x \in Vars : x # "n4" => val'[x] = val[x]
    BY <2>3, MemoryTypes
  <2>6. TailOK'
    BY <1>1, <2>1, <2>4, <2>5 DEF TailOK, Vars, LocalRoots
  <2>7. TailsOK'
    BY <1>1, <2>1, <2>3, <2>4, <2>5 DEF TailsOK, Before, Reads, Vars, LocalRoots
  <2>8. MacrosOK'
    BY <1>1, <2>1, <2>3, <2>4 DEF MacrosOK, Macros, Reads, MacroRoots
  <2>9. ReduceOK'
    BY <1>1, <2>1, <2>4, <2>5 DEF ReduceOK, Before, Reads, Vars, LocalRoots, ReduceRoots
  <2>10. RawOK'
    BY <2>1, PageWords DEF RawOK, NoRaw
  <2>11. QED
    BY <1>1, <2>1, <2>3, <2>6, <2>7, <2>8, <2>9, <2>10 DEF Control, Sound
<1>5. QED
  BY <1>2, <1>3, <1>4 DEF Hash

\* It writes an octet after the other.
LEMMA OctetsStep ==
    ASSUME Memory, Control, Octets
    PROVE  Sound
<1>1. RootsOK /\ TailOK /\ TailsOK /\ MacrosOK /\ ReduceOK /\ RawOK /\ octets[1] \in Int
  BY DEF Control
<1>2. pc = "octet" /\ depth' = depth
  BY DEF Octets, At
<1>3. CASE /\ SetNew("n4", octets[1] % Octet, val["n4"], "octet")
           /\ octets' = <<octets[1] \div Octet, octets[2] - 1>>
  <2>1. Octet \in 1 .. 256
    BY TokensAssumption
  <2>2. octets[1] % Octet \in 0 .. 255 /\ octets[1] \div Octet \in Int
    BY <1>1, <2>1, SMTT(30)
  <2>3. octets[1] % Octet \in Usable /\ val["n4"] \in Usable
    <3>1. octets[1] % Octet \in Usable
      BY <1>1, <2>2, Bytes, UsableWords
    <3>2. val["n4"] \in Usable
      BY <1>1, UsableWords DEF Vars, LocalRoots
    <3>3. QED
      BY <3>1, <3>2
  <2>4. octets'[1] \in Int
    BY <1>3, <2>2
  <2>5. QED
    BY <1>2, <1>3, <2>3, <2>4, ReadingNew DEF Reads
<1>4. CASE Allocator!ReturnRoot("n4") /\ Goto("read") /\ octets' = octets
  <2>1. /\ Held = val /\ Label = "octet" /\ pc' = "read" /\ raw' = raw
    BY <1>2, <1>4 DEF Held, Label, Goto, Locals
  <2>2. "n4" \in LocalRoots
    BY DEF Vars, LocalRoots
  <2>3. /\ ClientStep /\ RootsOK' /\ page' = page /\ stale' = stale
        /\ val' = [val EXCEPT !["n4"] = UNDEF] /\ roots' = roots \ {"n4"}
    BY <1>1, <1>4, <2>2, ReturnRootLeaves
  <2>4. Held' = val' /\ Label' = "read"
    BY <2>1 DEF Held, Label
  <2>5. \A x \in Vars : x # "n4" => val'[x] = val[x]
    BY <2>3, MemoryTypes
  <2>6. TailOK'
    BY <1>1, <2>1, <2>4, <2>5 DEF TailOK, Vars, LocalRoots
  <2>7. TailsOK'
    BY <1>1, <1>2, <2>1, <2>3, <2>4, <2>5 DEF TailsOK, Before, Reads, Vars, LocalRoots
  <2>8. MacrosOK'
    BY <1>1, <2>1, <2>3, <2>4 DEF MacrosOK, Macros, Reads, MacroRoots
  <2>9. ReduceOK'
    BY <1>1, <2>1, <2>4, <2>5 DEF ReduceOK, Before, Reads, Vars, LocalRoots, ReduceRoots
  <2>10. RawOK'
    BY <1>1, <1>2, <2>1 DEF RawOK, Macros
  <2>11. QED
    BY <1>1, <1>2, <1>4, <2>1, <2>3, <2>6, <2>7, <2>8, <2>9, <2>10 DEF Control, Sound
<1>5. QED
  BY <1>3, <1>4 DEF Octets

\* The expression is complete.
LEMMA TrailingStep ==
    ASSUME Memory, Control, Trailing
    PROVE  Sound
<1>1. pc = "trailing" /\ pc' = "return" /\ Locals(pc', raw) /\ UNCHANGED mem /\ depth' = depth
      /\ octets' = octets
  BY DEF Trailing, At, Goto, Locals, reading
<1>2. QED
  BY <1>1, GotoStep DEF Control

\* A macro gets the list read so far, which is a cell.
LEMMA MacroCharStep ==
    ASSUME Memory, Control, NEW c \in Macros, MacroChar(c)
    PROVE  Sound
<1>1. RootsOK /\ TailOK /\ TailsOK /\ MacrosOK /\ ReduceOK /\ octets[1] \in Int
  BY DEF Control
<1>2. pc \in {"token", "trailing"}
  BY DEF MacroChar, At
<1>3. CASE Throw("wrong")
  BY <1>2, <1>3, ThrowStep
<1>4. CASE /\ ~ IsUndef(val["tail"])
           /\ Locals(c, [NoRaw EXCEPT !.arg = val["tail"]])
           /\ UNCHANGED <<mem, names, depth, octets, outcome>>
  <2>1. /\ Held = val /\ Label = pc /\ pc' = c /\ raw' = [NoRaw EXCEPT !.arg = val["tail"]]
        /\ c # "store" /\ depth' = depth /\ octets' = octets
        /\ page' = page /\ val' = val /\ roots' = roots /\ ret' = ret /\ stale' = stale
    BY <1>2, <1>4 DEF Held, Label, Locals, Macros, mem
  <2>2. Held' = val /\ Label' = c
    BY <2>1 DEF Held, Label
  <2>3. val["tail"] \in Page /\ raw'.arg = val["tail"]
    BY <1>1, <1>4, <2>1 DEF TailOK, IsUndef, NoRaw
  <2>4. RootsOK' /\ TailOK'
    BY <1>1, <2>1, <2>2 DEF RootsOK, TailOK, Macros
  <2>5. TailsOK'
    BY <1>1, <1>2, <2>1, <2>2 DEF TailsOK, Before, Reads, InMacros, Rotates, Macros
  <2>6. MacrosOK'
    BY <1>1, <1>2, <2>1, <2>2, <2>3 DEF MacrosOK, Macros, Reads, MacroRoots
  <2>7. ReduceOK'
    BY <1>1, <1>2, <2>1, <2>2 DEF ReduceOK, Before, Reads, InMacros, Rotates, Macros
  <2>8. RawOK'
    BY <2>1, <2>3, PageWords DEF RawOK, NoRaw
  <2>9. QED
    BY <1>1, <1>4, <2>1, <2>4, <2>5, <2>6, <2>7, <2>8 DEF Control, Sound
<1>5. QED
  BY <1>3, <1>4 DEF MacroChar

\* The first two roots of a macro.
LEMMA MacroEnter ==
    ASSUME Memory, Control, pc \in {"'", "<"}, pc' \in {pc, "qt", "reverse"}, NEW body,
           Enter(<<<<"t", raw.arg>>, <<"r", UNDEF>>>>, body),
           \/ pc = "'" /\ body = "qt"
           \/ pc = "<" /\ body = "reverse",
           UNCHANGED reading
    PROVE  Sound
<1>1. RootsOK /\ TailOK /\ TailsOK /\ MacrosOK /\ ReduceOK /\ RawOK /\ octets[1] \in Int
  BY DEF Control
<1>2. /\ Held = val /\ Label = pc /\ depth' = depth /\ octets' = octets
      /\ raw.arg = val["tail"] /\ raw.arg \in Page
  BY <1>1 DEF Held, Label, reading, MacrosOK, Macros
<1>3. /\ "t" \in Vars /\ "r" \in Vars /\ UNDEF \in Usable /\ raw.arg \in Usable
      /\ val \in [Vars -> Elem]
  BY <1>1, <1>2, UsableWords, MemoryTypes DEF Vars, LocalRoots, MacroRoots
<1>4. CASE Allocator!AddRoot("t", raw.arg) /\ UNCHANGED control
  <2>1. pc' = pc /\ raw' = raw /\ into' = into
    BY <1>4 DEF control
  <2>2. /\ ClientStep /\ RootsOK' /\ page' = page /\ ret' = ret /\ stale' = stale
        /\ val' = [val EXCEPT !["t"] = raw.arg] /\ roots' = roots \cup {"t"}
    BY <1>1, <1>3, <1>4, AddRootLeaves
  <2>3. Held' = val' /\ Label' = pc
    BY <2>1 DEF Held, Label
  <2>4. val'["t"] = raw.arg /\ \A x \in Vars : x # "t" => val'[x] = val[x]
    BY <1>3, <2>2
  <2>5. TailOK'
    BY <1>1, <1>2, <2>3, <2>4 DEF TailOK, Vars, LocalRoots
  <2>6. TailsOK'
    BY <1>1, <1>2, <2>2, <2>3, <2>4 DEF TailsOK, Before, InMacros, Vars, LocalRoots
  <2>7. MacrosOK'
    BY <1>1, <1>2, <2>1, <2>2, <2>3, <2>4 DEF MacrosOK, Macros, Reads, Vars, LocalRoots
  <2>8. ReduceOK'
    BY <1>1, <1>2, <2>3, <2>4 DEF ReduceOK, Before, InMacros, Vars, LocalRoots, ReduceRoots
  <2>9. RawOK'
    BY <1>1, <2>1, <2>4 DEF RawOK, Vars, LocalRoots, Macros
  <2>10. QED
    BY <1>1, <1>2, <2>1, <2>2, <2>5, <2>6, <2>7, <2>8, <2>9 DEF Control, Sound
<1>5. CASE "t" \in roots /\ Allocator!AddRoot("r", UNDEF) /\ Locals(body, NoRaw)
  <2>1. pc' = body /\ raw' = NoRaw /\ into' = into
    BY <1>5 DEF Locals
  <2>2. /\ ClientStep /\ RootsOK' /\ page' = page /\ ret' = ret /\ stale' = stale
        /\ val' = [val EXCEPT !["r"] = UNDEF] /\ roots' = roots \cup {"r"}
    BY <1>1, <1>3, <1>5, AddRootLeaves
  <2>3. Held' = val' /\ Label' = body
    BY <2>1 DEF Held, Label
  <2>4. \A x \in Vars : x # "r" => val'[x] = val[x]
    BY <1>3, <2>2
  <2>5. val'["t"] \in Page
    BY <1>1, <1>2, <1>3, <1>5, <2>4 DEF MacrosOK
  <2>6. TailOK'
    BY <1>1, <1>2, <2>3, <2>4 DEF TailOK, Vars, LocalRoots
  <2>7. TailsOK'
    BY <1>1, <1>2, <2>2, <2>3, <2>4 DEF TailsOK, Before, InMacros, Vars, LocalRoots
  <2>8. MacrosOK'
    BY <2>3, <2>5 DEF MacrosOK, Macros, Reads
  <2>9. ReduceOK'
    BY <1>1, <1>2, <2>3, <2>4 DEF ReduceOK, Before, InMacros, Vars, LocalRoots, ReduceRoots
  <2>10. RawOK'
    BY <2>1, PageWords DEF RawOK, NoRaw
  <2>11. QED
    BY <1>1, <1>2, <2>1, <2>2, <2>6, <2>7, <2>8, <2>9, <2>10 DEF Control, Sound
<1>6. QED
  BY <1>4, <1>5, EnterSteps

\* The last cell of a macro, which is what it returns.
LEMMA MacroNew ==
    ASSUME Memory, Control, NEW h \in Usable, NEW t \in Usable, new_Cell(h, t),
           pc \in {"quote", "rotate1", "rotate3", "rotate2"},
           \/ pc' = "leave" /\ raw' = NoRaw
           \/ pc' \in {"rotate3", "rotate2"} /\ raw' = [NoRaw EXCEPT !.r = ret'],
           UNCHANGED reading
    PROVE  Sound
<1>1. ClientStep
  BY DEF ClientStep
<1>2. SUFFICES ASSUME status' = "running" PROVE Control'
  BY <1>1 DEF Sound
<1>3. RootsOK /\ TailOK /\ TailsOK /\ ReduceOK /\ octets[1] \in Int
  BY DEF Control
<1>4. CellLeaves(h, t)
  BY <1>2, NewLeaves
<1>5. Held = val /\ Label = pc /\ depth' = depth /\ octets' = octets
  BY DEF Held, Label, reading
<1>6. Held' = val /\ Label' = pc'
  BY <1>4 DEF Held, Label, CellLeaves
<1>7. ret' \in Page /\ ret' \in Elem /\ RootsOK' /\ stale' = FALSE
  BY <1>4, PageWords DEF CellLeaves
<1>8. TailOK'
  BY <1>3, <1>5, <1>6 DEF TailOK
<1>9. TailsOK'
  <2>1. depth \in Int /\ Balanced(page, val["tails"], depth) /\ "tails" \in Vars
    BY <1>3, <1>5 DEF TailsOK, Before, InMacros, Rotates, Vars, LocalRoots
  <2>2. Balanced(page', val["tails"], depth)
    BY <1>4, <2>1, PopBalanced, EmptyBalanced DEF CellLeaves
  <2>3. QED
    BY <1>5, <1>6, <2>1, <2>2 DEF TailsOK
<1>10. MacrosOK'
  BY <1>6, <1>7 DEF MacrosOK, Macros, Reads
<1>11. ReduceOK'
  BY <1>3, <1>5, <1>6 DEF ReduceOK, Before, InMacros, Rotates
<1>12. RawOK'
  BY <1>7, PageWords DEF RawOK, NoRaw, InHand
<1>13. QED
  BY <1>3, <1>5, <1>7, <1>8, <1>9, <1>10, <1>11, <1>12 DEF Control

\* The quote macro takes the last element apart.
LEMMA QuoteMacroStep ==
    ASSUME Memory, Control, QuoteMacro
    PROVE  Sound
<1>1. RootsOK /\ MacrosOK /\ RawOK /\ octets[1] \in Int
  BY DEF Control
<1>2. UNCHANGED reading /\ depth' = depth /\ octets' = octets
  BY DEF QuoteMacro, reading
<1>3. CASE At("'") /\ Enter(<<<<"t", raw.arg>>, <<"r", UNDEF>>>>, "qt")
  <2>1. pc = "'" /\ pc' \in {pc, "qt"}
    BY <1>3, EnterSteps DEF At, control, Locals
  <2>2. QED
    BY <1>2, <1>3, <2>1, MacroEnter
<1>4. CASE At("qt") /\ SetNew("r", NewByte(0, 1), val["r"], "quoted")
  <2>1. NewByte(0, 1) \in Usable /\ val["r"] \in Usable
    BY <1>1, Bytes, UsableWords DEF Vars, LocalRoots, MacroRoots
  <2>2. QED
    BY <1>1, <1>2, <1>4, <2>1, ReadingNew DEF At, InMacros
<1>5. CASE At("quoted") /\ SetNew("r", Hd(val["t"]), val["r"], "quote")
  <2>1. val["t"] \in Page
    BY <1>1, <1>5 DEF MacrosOK, At, Held, Label
  <2>2. Hd(val["t"]) \in Usable /\ val["r"] \in Usable
    BY <1>1, <2>1, UsableWords DEF Vars, LocalRoots, MacroRoots
  <2>3. QED
    BY <1>1, <1>2, <1>5, <2>2, ReadingNew DEF At, InMacros
<1>6. CASE At("quote") /\ new_Cell(val["r"], Tl(val["t"])) /\ Goto("leave")
  <2>1. pc = "quote" /\ pc' = "leave" /\ raw' = raw
    BY <1>6 DEF At, Goto, Locals
  <2>2. val["t"] \in Page
    BY <1>1, <2>1 DEF MacrosOK, Held, Label
  <2>3. Tl(val["t"]) \in Usable /\ val["r"] \in Usable
    BY <1>1, <2>2, UsableWords DEF Vars, LocalRoots, MacroRoots
  <2>4. raw = NoRaw
    BY <1>1, <2>1 DEF RawOK, NoRaw, Macros
  <2>5. QED
    BY <1>2, <1>6, <2>1, <2>3, <2>4, MacroNew
<1>7. QED
  BY <1>3, <1>4, <1>5, <1>6 DEF QuoteMacro

\* The reverse macro takes the list apart, and returns a cell.
LEMMA ReverseMacroStep ==
    ASSUME Memory, Control, ReverseMacro
    PROVE  Sound
<1>1. RootsOK /\ TailOK /\ TailsOK /\ MacrosOK /\ ReduceOK /\ RawOK /\ octets[1] \in Int
  BY DEF Control
<1>2. UNCHANGED reading /\ depth' = depth /\ octets' = octets
  BY DEF ReverseMacro, reading
<1>3. /\ val \in [Vars -> Elem] /\ "t" \in LocalRoots /\ "r" \in LocalRoots
      /\ \A e \in Elem : IsPcell(e) <=> e \in Page
  BY MemoryTypes, PcellIsPage DEF Vars, LocalRoots, MacroRoots
<1>4. CASE At("<") /\ Enter(<<<<"t", raw.arg>>, <<"r", UNDEF>>>>, "reverse")
  <2>1. pc = "<" /\ pc' \in {pc, "reverse"}
    BY <1>4, EnterSteps DEF At, control, Locals
  <2>2. QED
    BY <1>2, <1>4, <2>1, MacroEnter
<1>5. CASE At("reverse") /\ IsPcell(val["t"]) /\ SetNew("r", Hd(val["t"]), val["r"], "reversed")
  <2>1. val["t"] \in Page
    BY <1>3, <1>5, LocalVars, PcellIsPage
  <2>2. Hd(val["t"]) \in Usable /\ val["r"] \in Usable
    BY <1>1, <1>3, <2>1, LocalVars, UsableWords
  <2>3. QED
    BY <1>1, <1>2, <1>5, <2>1, <2>2, ReadingNew DEF At, InMacros
<1>6. CASE At("reversed") /\ Assign("t", Tl(val["t"]), "reverse")
  <2>1. /\ pc = "reversed" /\ Held = val /\ Label = "reversed" /\ pc' = "reverse" /\ raw' = raw
        /\ Allocator!Assign("t", Tl(val["t"]))
    BY <1>6 DEF At, Held, Label, Assign, Goto, Locals
  <2>2. val["t"] \in Page /\ val["r"] \in Page
    BY <1>1, <2>1 DEF MacrosOK
  <2>3. Tl(val["t"]) \in Usable
    BY <1>1, <1>3, <2>2, LocalVars, UsableWords
  <2>4. /\ ClientStep /\ RootsOK' /\ page' = page /\ ret' = ret /\ stale' = stale
        /\ val' = [val EXCEPT !["t"] = Tl(val["t"])] /\ roots' = roots
    BY <1>1, <1>3, <2>1, <2>3, AssignLeaves
  <2>5. Held' = val' /\ Label' = "reverse"
    BY <2>1 DEF Held, Label
  <2>6. \A x \in Vars : x # "t" => val'[x] = val[x]
    BY <1>3, <2>4
  <2>7. TailOK'
    BY <1>1, <2>1, <2>5, <2>6 DEF TailOK, Vars, LocalRoots
  <2>8. TailsOK'
    BY <1>1, <1>2, <2>1, <2>4, <2>5, <2>6 DEF TailsOK, Before, InMacros, Vars, LocalRoots
  <2>9. MacrosOK'
    BY <1>3, <2>2, <2>5, <2>6, LocalVars DEF MacrosOK, Macros, Reads
  <2>10. ReduceOK'
    BY <1>1, <2>1, <2>5, <2>6 DEF ReduceOK, Before, InMacros, Vars, LocalRoots, ReduceRoots
  <2>11. RawOK'
    BY <1>1, <2>1 DEF RawOK, Macros
  <2>12. QED
    BY <1>1, <1>2, <2>1, <2>4, <2>7, <2>8, <2>9, <2>10, <2>11 DEF Control, Sound
<1>7. CASE At("reverse") /\ ~IsPcell(val["t"]) /\ Allocator!ReturnRoot("r") /\ Goto("leave")
  <2>1. pc = "reverse" /\ Held = val /\ Label = "reverse" /\ pc' = "leave" /\ raw' = raw
    BY <1>7 DEF At, Held, Label, Goto, Locals
  <2>2. val["r"] \in Page
    BY <1>1, <1>3, <1>7, <2>1, LocalVars DEF MacrosOK
  <2>3. /\ ClientStep /\ RootsOK' /\ page' = page /\ stale' = stale /\ ret' = val["r"]
        /\ val' = [val EXCEPT !["r"] = UNDEF] /\ roots' = roots \ {"r"}
    BY <1>1, <1>3, <1>7, ReturnRootLeaves
  <2>4. Held' = val' /\ Label' = "leave"
    BY <2>1 DEF Held, Label
  <2>5. \A x \in Vars : x # "r" => val'[x] = val[x]
    BY <1>3, <2>3
  <2>6. TailOK'
    BY <1>1, <2>1, <2>4, <2>5 DEF TailOK, Vars, LocalRoots
  <2>7. TailsOK'
    BY <1>1, <1>2, <2>1, <2>3, <2>4, <2>5 DEF TailsOK, Before, InMacros, Rotates, Vars, LocalRoots
  <2>8. MacrosOK'
    BY <2>2, <2>3, <2>4 DEF MacrosOK, Macros, Reads
  <2>9. ReduceOK'
    BY <1>1, <2>1, <2>4, <2>5 DEF ReduceOK, Before, InMacros, Rotates, Vars, LocalRoots, ReduceRoots
  <2>10. RawOK'
    BY <1>1, <2>1 DEF RawOK, Macros
  <2>11. QED
    BY <1>1, <1>2, <2>1, <2>3, <2>6, <2>7, <2>8, <2>9, <2>10 DEF Control, Sound
<1>8. QED
  BY <1>4, <1>5, <1>6, <1>7 DEF ReverseMacro

\* What a macro returned is the list read so far.
LEMMA MacroReturnStep ==
    ASSUME Memory, Control, MacroReturn
    PROVE  Sound
<1>1. RootsOK /\ TailOK /\ TailsOK /\ MacrosOK /\ ReduceOK /\ RawOK /\ octets[1] \in Int
  BY DEF Control
<1>2. /\ pc = "leave" /\ Held = val /\ Label = "leave" /\ depth' = depth /\ octets' = octets
      /\ Leave(MacroRoots, Assign("tail", ret, AfterToken(depth))) /\ ret \in Page
  BY <1>1 DEF MacroReturn, reading, At, Held, Label, MacrosOK
<1>3. val \in [Vars -> Elem] /\ "tail" \in LocalRoots /\ ret \in Usable
  BY <1>1, MemoryTypes, UsableWords DEF Vars, LocalRoots
<1> DEFINE mine == roots \cap MacroRoots
           x    == CHOOSE y \in mine : TRUE
<1>4. CASE mine = {}
  <2>1. /\ Allocator!Assign("tail", ret) /\ pc' = AfterToken(depth) /\ raw' = raw
        /\ pc' \in {"token", "trailing"}
    BY <1>2, <1>4 DEF Leave, Assign, Goto, Locals, AfterToken
  <2>2. /\ ClientStep /\ RootsOK' /\ page' = page /\ ret' = ret /\ stale' = stale
        /\ val' = [val EXCEPT !["tail"] = ret] /\ roots' = roots
    BY <1>1, <1>3, <2>1, AssignLeaves
  <2>3. Held' = val' /\ Label' = pc'
    BY <2>1 DEF Held, Label
  <2>4. val'["tail"] = ret' /\ \A y \in Vars : y # "tail" => val'[y] = val[y]
    BY <1>3, <2>2, LocalVars
  <2>5. TailOK'
    BY <1>2, <2>2, <2>3, <2>4 DEF TailOK
  <2>6. TailsOK'
    BY <1>1, <1>2, <2>1, <2>2, <2>3, <2>4 DEF TailsOK, Before, Reads, Rotates, Vars, LocalRoots
  <2>7. MacrosOK'
    BY <1>4, <2>1, <2>2, <2>3 DEF MacrosOK, Macros
  <2>8. ReduceOK'
    BY <1>1, <1>2, <2>1, <2>3, <2>4 DEF ReduceOK, Before, Reads, Rotates, Vars, LocalRoots, ReduceRoots
  <2>9. RawOK'
    BY <1>1, <1>2, <2>1 DEF RawOK, Macros
  <2>10. QED
    BY <1>1, <1>2, <2>1, <2>2, <2>5, <2>6, <2>7, <2>8, <2>9 DEF Control, Sound
<1>5. CASE mine # {}
  <2>1. Allocator!DelRoot(x) /\ x \in mine /\ pc' = pc /\ raw' = raw /\ into' = into
    BY <1>2, <1>5 DEF Leave, control
  <2>2. x \in MacroRoots /\ x \in LocalRoots
    BY <2>1 DEF Vars, LocalRoots, MacroRoots
  <2> HIDE DEF x, mine
  <2>3. /\ ClientStep /\ RootsOK' /\ page' = page /\ ret' = ret /\ stale' = stale
        /\ val' = [val EXCEPT ![x] = UNDEF] /\ roots' = roots \ {x}
    BY <1>1, <2>1, <2>2, DelRootLeaves
  <2>4. Held' = val' /\ Label' = "leave"
    BY <1>2, <2>1 DEF Held, Label
  <2>5. \A y \in Vars : y # x => val'[y] = val[y]
    BY <1>3, <2>3
  <2>6. TailOK'
    BY <1>1, <1>2, <2>2, <2>4, <2>5 DEF TailOK, Vars, LocalRoots, MacroRoots
  <2>7. TailsOK'
    BY <1>1, <1>2, <2>2, <2>3, <2>4, <2>5 DEF TailsOK, Before, Rotates, Vars, LocalRoots, MacroRoots
  <2>8. MacrosOK'
    BY <1>2, <2>3, <2>4 DEF MacrosOK, Macros, Reads
  <2>9. ReduceOK'
    BY <1>1, <1>2, <2>2, <2>4, <2>5 DEF ReduceOK, Before, Rotates, Vars, LocalRoots, ReduceRoots, MacroRoots
  <2>10. RawOK'
    BY <1>1, <1>2, <2>1 DEF RawOK, Macros
  <2>11. QED
    BY <1>1, <1>2, <2>1, <2>3, <2>6, <2>7, <2>8, <2>9, <2>10 DEF Control, Sound
<1>6. QED
  BY <1>4, <1>5

\* One more of the roots of the elements that change places.
LEMMA RotateRoot ==
    ASSUME Memory, Control, pc = "@", NEW x \in {"e1", "e2", "e3"}, NEW e \in Usable,
           Allocator!AddRoot(x, e), UNCHANGED control, UNCHANGED reading,
           x = "e2" => Tl(raw.arg) \in Page,
           x = "e3" => Tl(raw.arg) \in Page /\ Tl(Tl(raw.arg)) \in Page
    PROVE  Sound
<1>1. RootsOK /\ TailOK /\ TailsOK /\ MacrosOK /\ ReduceOK /\ RawOK /\ octets[1] \in Int
  BY DEF Control
<1>2. /\ Held = val /\ Label = "@" /\ depth' = depth /\ octets' = octets
      /\ pc' = pc /\ raw' = raw /\ into' = into /\ x \in Vars /\ val \in [Vars -> Elem]
  BY MemoryTypes DEF control, reading, Held, Label, Vars, LocalRoots, MacroRoots
<1>3. /\ ClientStep /\ RootsOK' /\ page' = page /\ ret' = ret /\ stale' = stale
      /\ val' = [val EXCEPT ![x] = e] /\ roots' = roots \cup {x}
  BY <1>1, <1>2, AddRootLeaves
<1>4. Held' = val' /\ Label' = "@"
  BY <1>2 DEF Held, Label
<1>5. \A y \in Vars : y # x => val'[y] = val[y]
  BY <1>2, <1>3
<1>6. TailOK'
  BY <1>1, <1>2, <1>4, <1>5 DEF TailOK, Vars, LocalRoots
<1>7. TailsOK'
  BY <1>1, <1>2, <1>3, <1>4, <1>5 DEF TailsOK, Before, Rotates, Vars, LocalRoots
<1>8. MacrosOK'
  BY <1>1, <1>2, <1>3, <1>4, <1>5 DEF MacrosOK, Macros, Reads, Tl, Vars, LocalRoots
<1>9. ReduceOK'
  BY <1>1, <1>2, <1>4, <1>5 DEF ReduceOK, Before, Rotates, Vars, LocalRoots, ReduceRoots
<1>10. RawOK'
  BY <1>1, <1>2, <1>5 DEF RawOK, Macros, Vars, LocalRoots
<1>11. QED
  BY <1>1, <1>2, <1>3, <1>6, <1>7, <1>8, <1>9, <1>10 DEF Control, Sound

\* The names have changed places; now the elements do.
LEMMA RotateStart ==
    ASSUME Memory, Control, pc = "@", UNCHANGED mem, NEW r \in Usable,
           Locals("rotate1", [NoRaw EXCEPT !.r = r]), depth' = depth, octets' = octets
    PROVE  Sound
<1>1. RootsOK /\ TailOK /\ TailsOK /\ MacrosOK /\ ReduceOK /\ RawOK /\ octets[1] \in Int
  BY DEF Control
<1>2. /\ Held = val /\ Label = "@" /\ pc' = "rotate1" /\ raw' = [NoRaw EXCEPT !.r = r]
      /\ page' = page /\ val' = val /\ roots' = roots /\ ret' = ret /\ stale' = stale
  BY DEF mem, Locals, Held, Label
<1>3. Held' = val /\ Label' = "rotate1" /\ Usable' = Usable /\ r \in Elem
  BY <1>1, <1>2, UsableWords DEF Held, Label, Usable, Live
<1>4. RootsOK' /\ TailOK'
  BY <1>1, <1>2, <1>3 DEF RootsOK, TailOK
<1>5. TailsOK'
  BY <1>1, <1>2, <1>3 DEF TailsOK, Before, Rotates
<1>6. MacrosOK'
  BY <1>3 DEF MacrosOK, Macros, Reads
<1>7. ReduceOK'
  BY <1>1, <1>2, <1>3 DEF ReduceOK, Before, Rotates
<1>8. RawOK'
  BY <1>2, <1>3, PageWords DEF RawOK, NoRaw
<1>9. QED
  BY <1>1, <1>2, <1>4, <1>5, <1>6, <1>7, <1>8 DEF Control, Sound

\* The rotate macro takes three elements off the list, or throws.
LEMMA RotateMacroStep ==
    ASSUME Memory, Control, RotateMacro
    PROVE  Sound
<1>1. RootsOK /\ MacrosOK /\ RawOK
  BY DEF Control
<1>2. CASE At("rotate1") /\ new_Cell(val["e1"], raw.r)
           /\ Locals("rotate3", [NoRaw EXCEPT !.r = ret']) /\ UNCHANGED reading
  <2>1. val["e1"] \in Usable /\ raw.r \in Usable
    BY <1>1, UsableWords DEF Vars, LocalRoots, MacroRoots, NoRaw
  <2>2. QED
    BY <1>2, <2>1, MacroNew DEF At, Locals
<1>3. CASE At("rotate3") /\ new_Cell(val["e3"], raw.r)
           /\ Locals("rotate2", [NoRaw EXCEPT !.r = ret']) /\ UNCHANGED reading
  <2>1. val["e3"] \in Usable /\ raw.r \in Usable
    BY <1>1, UsableWords DEF Vars, LocalRoots, MacroRoots, NoRaw
  <2>2. QED
    BY <1>3, <2>1, MacroNew DEF At, Locals
<1>4. CASE At("rotate2") /\ new_Cell(val["e2"], raw.r) /\ Locals("leave", NoRaw)
           /\ UNCHANGED reading
  <2>1. val["e2"] \in Usable /\ raw.r \in Usable
    BY <1>1, UsableWords DEF Vars, LocalRoots, MacroRoots, NoRaw
  <2>2. QED
    BY <1>4, <2>1, MacroNew DEF At, Locals
<1>5. CASE pc = "@" /\ Throw("illegal")
  BY <1>5, ThrowStep
<1> DEFINE second == Tl(raw.arg)
           third  == Tl(second)
<1>6. CASE /\ At("@")
           /\ \/ "e1" \notin roots /\ IsPcell(raw.arg) /\ Allocator!AddRoot("e1", Hd(raw.arg))
              \/ /\ "e1" \in roots /\ "e2" \notin roots /\ IsPcell(second)
                 /\ Allocator!AddRoot("e2", Hd(second))
              \/ /\ "e2" \in roots /\ "e3" \notin roots /\ IsPcell(third)
                 /\ Allocator!AddRoot("e3", Hd(third))
           /\ UNCHANGED control /\ UNCHANGED reading
  <2>1. pc = "@" /\ raw.arg \in Page /\ raw.arg \in Usable
    BY <1>1, <1>6, UsableWords DEF At, MacrosOK, Held, Label, Macros, NoRaw
  <2>2. Hd(raw.arg) \in Usable /\ second \in Usable /\ second \in Elem
    BY <1>1, <2>1, UsableWords
  <2>3. second \in Page => Hd(second) \in Usable /\ third \in Usable /\ third \in Elem
    BY <1>1, <2>2, UsableWords
  <2>4. third \in Page /\ second \in Page => Hd(third) \in Usable
    BY <1>1, <2>3, UsableWords
  <2>5. "e2" \in roots => second \in Page
    BY <1>1, <2>1 DEF MacrosOK, Held, Label
  <2> HIDE DEF second, third
  <2>6. CASE "e1" \notin roots /\ Allocator!AddRoot("e1", Hd(raw.arg))
    BY <1>6, <2>1, <2>2, <2>6, RotateRoot
  <2>7. CASE IsPcell(second) /\ Allocator!AddRoot("e2", Hd(second))
    <3>1. second \in Page
      BY <2>2, <2>7, PcellIsPage
    <3>2. QED
      BY <1>6, <2>1, <2>3, <2>7, <3>1, RotateRoot DEF second
  <2>8. CASE "e2" \in roots /\ IsPcell(third) /\ Allocator!AddRoot("e3", Hd(third))
    <3>1. second \in Page /\ third \in Page
      BY <2>3, <2>5, <2>8, PcellIsPage
    <3>2. QED
      BY <1>6, <2>1, <2>4, <2>8, <3>1, RotateRoot DEF second, third
  <2>9. QED
    BY <1>6, <2>6, <2>7, <2>8
<1>7. CASE /\ At("@") /\ "e3" \in roots
           /\ Locals("rotate1", [NoRaw EXCEPT !.r = Tl(third)])
           /\ UNCHANGED <<mem, outcome, input, typed, depth, octets>>
  <2>1. pc = "@" /\ raw.arg \in Page /\ raw.arg \in Usable /\ second \in Page /\ third \in Page
    BY <1>1, <1>7, UsableWords DEF At, MacrosOK, Held, Label, Macros, NoRaw
  <2>2. Tl(third) \in Usable
    BY <1>1, <2>1, UsableWords
  <2> HIDE DEF second, third
  <2>3. QED
    BY <1>7, <2>1, <2>2, RotateStart
<1>8. QED
  BY <1>2, <1>3, <1>4, <1>5, <1>6, <1>7 DEF RotateMacro, At, reading

-----------------------------------------------------------------------------
(***************************************************************************)
(* The turning round.  Of the lists that were read nothing is asked any    *)
(* more.                                                                   *)
(***************************************************************************)
Turning == {"return", "enter", "reduce", "push", "pushed", "nested", "join", "advance",
            "popPcells", "popAcc", "popAccs", "joinNested", "reduced", "parsed", "done"}

\* What is left to show of a step while the expression is turned round.
LEMMA TurningStep ==
    ASSUME Control, pc \in Turning, Label' \in Turning, UNCHANGED reading, stale' = FALSE,
           Held'["tail"] \in Page \cup {UNDEF},
           pc' = "store" => into'[1] \in LocalRoots /\ into'[2] # "store" /\ raw' = NoRaw,
           RootsOK', ReduceOK', RawOK'
    PROVE  Control'
<1>1. depth' = depth /\ octets' = octets /\ depth \in Int /\ octets[1] \in Int
  BY DEF reading, Control, TailsOK
<1>2. TailOK'
  BY DEF TailOK, Turning
<1>3. TailsOK'
  BY <1>1 DEF TailsOK, Turning, Before, Reads, InMacros, Rotates
<1>4. MacrosOK'
  BY DEF MacrosOK, Turning, Macros, Reads
<1>5. QED
  BY <1>1, <1>2, <1>3, <1>4 DEF Control

\* An assignment to one of the four variables.
LEMMA TurningAssign ==
    ASSUME Memory, Control, pc \in Turning, pc' \in Turning, UNCHANGED reading,
           NEW x \in ReduceRoots, NEW e \in Usable, Allocator!Assign(x, e)
    PROVE  /\ page' = page /\ ret' = ret /\ Label' = pc' /\ Held' = [val EXCEPT ![x] = e]
           /\ ReduceOK' /\ RawOK' => Sound
<1>1. RootsOK /\ TailOK /\ x \in LocalRoots /\ x # "tail" /\ "tail" \in Vars
        /\ val \in [Vars -> Elem] /\ stale = FALSE
  BY MemoryTypes DEF Control, Vars, LocalRoots, ReduceRoots
<1>2. /\ ClientStep /\ RootsOK' /\ page' = page /\ ret' = ret /\ stale' = stale
      /\ val' = [val EXCEPT ![x] = e]
  BY <1>1, AssignLeaves
<1>3. pc # "store" /\ pc' # "store"
  BY DEF Turning
<1>4. Label' = pc' /\ Held' = [val EXCEPT ![x] = e] /\ Held = val
  BY <1>2, <1>3 DEF Label, Held
<1>5. Held'["tail"] \in Page \cup {UNDEF}
  BY <1>1, <1>4 DEF TailOK
<1>6. ASSUME ReduceOK', RawOK' PROVE Control'
  BY <1>1, <1>2, <1>3, <1>4, <1>5, <1>6, TurningStep
<1>7. QED
  BY <1>2, <1>4, <1>6 DEF Sound

\* A new cell for one of the four variables.
LEMMA TurningNew ==
    ASSUME Memory, Control, pc \in Turning, UNCHANGED reading,
           NEW x \in ReduceRoots, NEW h \in Usable, NEW t \in Usable, NEW label \in Turning,
           SetNew(x, h, t, label)
    PROVE  /\ status' = "running" => /\ CellLeaves(h, t) /\ Label' = label
                                     /\ Held' = [val EXCEPT ![x] = ret']
           /\ (status' = "running" => ReduceOK') => Sound
<1>1. TailOK /\ x \in LocalRoots /\ x # "tail" /\ "tail" \in Vars
        /\ val \in [Vars -> Elem] /\ label # "store" /\ pc # "store"
  BY MemoryTypes DEF Control, Vars, LocalRoots, ReduceRoots, Turning
<1>2. ClientStep
  BY DEF ClientStep, SetNew
<1>3. ASSUME status' = "running"
      PROVE  /\ CellLeaves(h, t) /\ RawOK'
             /\ pc' = "store" /\ raw' = NoRaw /\ into' = <<x, label>>
             /\ Label' = label /\ Held' = [val EXCEPT ![x] = ret']
  BY <1>1, <1>3, SetNewLeaves
<1>4. ASSUME status' = "running", ReduceOK'
      PROVE  Control'
  <2>1. RootsOK' /\ stale' = FALSE /\ Held = val
    BY <1>1, <1>3, <1>4 DEF CellLeaves, Held
  <2>2. Held'["tail"] \in Page \cup {UNDEF}
    BY <1>1, <1>3, <1>4, <2>1 DEF TailOK
  <2>3. /\ pc' = "store" => into'[1] \in LocalRoots /\ into'[2] # "store" /\ raw' = NoRaw
        /\ Label' \in Turning /\ RawOK'
    BY <1>1, <1>3, <1>4
  <2>4. QED
    BY <1>4, <2>1, <2>2, <2>3, TurningStep
<1>5. QED
  BY <1>2, <1>3, <1>4 DEF Sound

\* A step that changes only where the parser is and its plain locals.
LEMMA TurningGoto ==
    ASSUME Memory, Control, pc \in Turning, pc' \in Turning,
           UNCHANGED mem, depth' = depth, octets' = octets
    PROVE  /\ page' = page /\ ret' = ret /\ Label' = pc' /\ Held' = val
           /\ ReduceOK' /\ RawOK' => Sound
<1>1. /\ page' = page /\ val' = val /\ roots' = roots /\ ret' = ret /\ stale' = stale
      /\ pc # "store" /\ pc' # "store"
  BY DEF mem, Turning
<1>2. Label' = pc' /\ Held' = val /\ Held = val
  BY <1>1 DEF Label, Held
<1>3. RootsOK' /\ TailOK'
  BY <1>1, <1>2 DEF Control, RootsOK, TailOK, Turning
<1>4. TailsOK'
  BY <1>2 DEF Control, TailsOK, Turning, Before, Reads, InMacros, Rotates
<1>5. MacrosOK'
  BY <1>2 DEF MacrosOK, Turning, Macros, Reads
<1>6. QED
  BY <1>1, <1>2, <1>3, <1>4, <1>5 DEF Control, Sound

\* _parse_elems returns its list.
LEMMA ReturnStep ==
    ASSUME Memory, Control, Return
    PROVE  Sound
<1>1. RootsOK /\ TailOK /\ TailsOK /\ ReduceOK /\ RawOK /\ octets[1] \in Int
  BY DEF Control
<1>2. /\ pc = "return" /\ Held = val /\ Label = "return" /\ depth' = depth /\ octets' = octets
  BY DEF Return, reading, At, Held, Label
<1>3. val \in [Vars -> Elem] /\ {"tail", "tails"} \subseteq LocalRoots
  BY MemoryTypes DEF Vars, LocalRoots
<1>4. ASSUME NEW x \in {"tail", "tails"}, RootsOK', ClientStep, stale' = stale, page' = page,
             val' = [val EXCEPT ![x] = UNDEF], UNCHANGED control
      PROVE  Sound
  <2>1. Held' = val' /\ Label' = "return" /\ pc' = pc /\ raw' = raw /\ into' = into
    BY <1>2, <1>4 DEF Held, Label, control
  <2>2. TailOK'
    BY <1>1, <1>2, <1>3, <1>4, <2>1 DEF TailOK
  <2>3. TailsOK'
    BY <1>1, <1>2, <2>1 DEF TailsOK, Before, Reads, InMacros, Rotates
  <2>4. MacrosOK'
    BY <2>1 DEF MacrosOK, Macros, Reads
  <2>5. ReduceOK'
    BY <1>1, <1>2, <1>3, <1>4, <2>1 DEF ReduceOK, Before, Reads, InMacros, Rotates, Vars, LocalRoots, ReduceRoots
  <2>6. RawOK'
    BY <1>1, <1>2, <2>1 DEF RawOK, Macros
  <2>7. QED
    BY <1>1, <1>2, <1>4, <2>1, <2>2, <2>3, <2>4, <2>5, <2>6 DEF Control, Sound
<1>5. CASE Allocator!ReturnRoot("tail") /\ UNCHANGED control
  BY <1>1, <1>3, <1>4, <1>5, ReturnRootLeaves
<1>6. CASE Leave({"tails"}, Locals("enter", [NoRaw EXCEPT !.arg = ret]) /\ UNCHANGED mem)
  <2>1. CASE "tails" \in roots
    <3>1. Allocator!DelRoot("tails") /\ UNCHANGED control
      BY <1>6, <2>1 DEF Leave
    <3>2. QED
      BY <1>1, <1>3, <1>4, <3>1, DelRootLeaves
  <2>2. CASE "tails" \notin roots
    <3>1. /\ pc' = "enter" /\ raw' = [NoRaw EXCEPT !.arg = ret] /\ UNCHANGED mem
          /\ pc \in Turning /\ pc' \in Turning
      BY <1>2, <1>6, <2>2 DEF Leave, Locals, Turning
    <3>2. /\ page' = page /\ ret' = ret /\ Label' = pc' /\ Held' = val
          /\ ReduceOK' /\ RawOK' => Sound
      BY <1>2, <3>1, TurningGoto
    <3>3. ReduceOK'
      BY <1>1, <1>2, <3>1, <3>2 DEF ReduceOK, Before, Reads, InMacros, Rotates
    <3>4. RawOK'
      BY <3>1, <3>2, MemoryTypes, PageWords DEF RawOK, NoRaw, InHand
    <3>5. QED
      BY <3>2, <3>3, <3>4
  <2>3. QED
    BY <2>1, <2>2
<1>7. QED
  BY <1>5, <1>6 DEF Return

\* _reverse_and_reduce begins with empty stacks.
LEMMA ReduceEnterStep ==
    ASSUME Memory, Control, ReduceEnter
    PROVE  Sound
<1>1. RootsOK /\ TailOK /\ TailsOK /\ ReduceOK /\ RawOK /\ octets[1] \in Int
  BY DEF Control
<1>2. /\ pc = "enter" /\ Held = val /\ Label = "enter" /\ depth' = depth /\ octets' = octets
  BY DEF ReduceEnter, reading, At, Held, Label
<1>3. val \in [Vars -> Elem] /\ ReduceRoots \subseteq Vars /\ "tail" \in Vars \ ReduceRoots
         /\ raw.arg \in Usable /\ UNDEF \in Usable
  BY <1>1, MemoryTypes, UsableWords DEF Vars, LocalRoots, ReduceRoots, NoRaw
<1>4. ASSUME NEW x \in ReduceRoots, NEW e \in Usable, Allocator!AddRoot(x, e),
             x = "p" \/ e = UNDEF,
             \/ UNCHANGED control
             \/ Locals("reduce", NoRaw) /\ x = "pcells"
      PROVE  Sound
  <2>1. /\ ClientStep /\ RootsOK' /\ page' = page /\ ret' = ret /\ stale' = stale
        /\ val' = [val EXCEPT ![x] = e]
    BY <1>1, <1>3, <1>4, AddRootLeaves
  <2>2. pc' \in {"enter", "reduce"} /\ Held' = val' /\ Label' = pc'
    BY <1>2, <1>4, <2>1 DEF Held, Label, Locals, control
  <2>3. /\ \A y \in Vars : y # x => val'[y] = val[y]
        /\ x # "p" => val'[x] = UNDEF
    BY <1>3, <1>4, <2>1
  <2>4. val'["acc"] = UNDEF /\ val'["accs"] = UNDEF /\ val'["pcells"] = UNDEF
    BY <1>1, <1>2, <1>3, <2>3 DEF ReduceOK, ReduceRoots
  <2>5. TailOK'
    BY <1>1, <1>2, <1>3, <2>2, <2>3 DEF TailOK
  <2>6. TailsOK'
    BY <1>1, <1>2, <2>2 DEF TailsOK, Before, Reads, InMacros, Rotates
  <2>7. MacrosOK'
    BY <2>2 DEF MacrosOK, Macros, Reads
  <2>8. ReduceOK'
    BY <2>2, <2>4, EmptyStacks, PageWords DEF ReduceOK, InHand
  <2>9. RawOK'
    <3>1. CASE UNCHANGED control
      BY <1>1, <1>2, <2>1, <3>1 DEF control, RawOK, InHand, Macros
    <3>2. CASE Locals("reduce", NoRaw)
      BY <3>2, PageWords DEF Locals, RawOK, NoRaw
    <3>3. QED
      BY <1>4, <3>1, <3>2
  <2>10. QED
    BY <1>1, <1>2, <2>1, <2>2, <2>5, <2>6, <2>7, <2>8, <2>9 DEF Control, Sound
<1>5. \/ Allocator!AddRoot("p", raw.arg) /\ UNCHANGED control
      \/ Allocator!AddRoot("acc", UNDEF) /\ UNCHANGED control
      \/ Allocator!AddRoot("accs", UNDEF) /\ UNCHANGED control
      \/ Allocator!AddRoot("pcells", UNDEF) /\ Locals("reduce", NoRaw)
  BY EnterSteps DEF ReduceEnter
<1>6. {"p", "acc", "accs", "pcells"} \subseteq ReduceRoots
  BY DEF ReduceRoots
<1>7. QED
  BY <1>3, <1>4, <1>5, <1>6

\* A nested expression lets a list and a tail wait.
LEMMA ReducePushStep ==
    ASSUME Memory, Control, ReducePush
    PROVE  Sound
<1>1. RootsOK /\ ReduceOK /\ RawOK
  BY DEF Control
<1>2. /\ UNCHANGED reading /\ {"p", "acc", "accs", "pcells"} \subseteq ReduceRoots
      /\ {"p", "acc", "accs", "pcells"} \subseteq Vars
      /\ {"push", "pushed", "nested", "reduce"} \subseteq Turning
  BY DEF ReducePush, ReduceRoots, Vars, LocalRoots, Turning
<1>3. /\ val \in [Vars -> Elem] /\ UNDEF \in Usable
      /\ val["p"] \in Usable /\ val["acc"] \in Usable
      /\ val["accs"] \in Usable /\ val["pcells"] \in Usable
  BY <1>1, <1>2, MemoryTypes, UsableWords
<1>4. CASE /\ At("reduce") /\ IsPcell(val["p"])
           /\ SetNew("pcells", Tl(val["p"]), val["pcells"], "push")
  <2>1. pc = "reduce" /\ Held = val /\ Label = "reduce" /\ pc \in Turning
    BY <1>2, <1>4 DEF At, Held, Label
  <2>2. val["p"] \in Page /\ Tl(val["p"]) \in Usable
    BY <1>1, <1>2, <1>3, <1>4, PcellIsPage, UsableWords
  <2>3. /\ status' = "running" => /\ CellLeaves(Tl(val["p"]), val["pcells"]) /\ Label' = "push"
                                  /\ Held' = [val EXCEPT !["pcells"] = ret']
        /\ (status' = "running" => ReduceOK') => Sound
    BY <1>2, <1>3, <1>4, <2>1, <2>2, TurningNew
  <2>4. SUFFICES ASSUME status' = "running" PROVE ReduceOK'
    BY <2>3
  <2>5. /\ Held' = [val EXCEPT !["pcells"] = ret'] /\ Label' = "push" /\ ret' \in Page
        /\ page'[ret'].tl = val["pcells"]
        /\ \A v, w \in Kept(Tl(val["p"]), val["pcells"]) : Paired(page, v, w) => Paired(page', v, w)
        /\ \A y \in Vars : val[y] \in Page \cup {UNDEF} => val[y] \in Kept(Tl(val["p"]), val["pcells"])
    BY <2>3, <2>4 DEF CellLeaves
  <2>6. Paired(page, val["pcells"], val["accs"])
    BY <1>1, <2>1 DEF ReduceOK
  <2>7. Paired(page', val["pcells"], val["accs"])
    BY <1>2, <2>5, <2>6, PairedWords
  <2>8. /\ Held'["pcells"] = ret' /\ Held'["accs"] = val["accs"] /\ Held'["p"] = val["p"]
    BY <1>2, <1>3, <2>5
  <2>9. Tl(Held["pcells"])' = val["pcells"]
    BY <2>5, <2>8 DEF Tl
  <2>10. QED
    BY <2>2, <2>5, <2>7, <2>8, <2>9 DEF ReduceOK, Before, Reads, InMacros, Rotates
<1>5. CASE At("push") /\ SetNew("accs", val["acc"], val["accs"], "pushed")
  <2>1. pc = "push" /\ Held = val /\ Label = "push" /\ pc \in Turning
    BY <1>2, <1>5 DEF At, Held, Label
  <2>2. /\ status' = "running" => /\ CellLeaves(val["acc"], val["accs"]) /\ Label' = "pushed"
                                  /\ Held' = [val EXCEPT !["accs"] = ret']
        /\ (status' = "running" => ReduceOK') => Sound
    BY <1>2, <1>3, <1>5, <2>1, TurningNew
  <2>3. SUFFICES ASSUME status' = "running" PROVE ReduceOK'
    BY <2>2
  <2>4. /\ Held' = [val EXCEPT !["accs"] = ret'] /\ Label' = "pushed" /\ ret' \in Page
        /\ page'[ret'].tl = val["accs"]
        /\ \A y \in Vars : (val[y] \in Page => page'[val[y]] = page[val[y]])
        /\ \A v, w \in Kept(val["acc"], val["accs"]) : Paired(page, v, w) => Paired(page', v, w)
        /\ \A y \in Vars : val[y] \in Page \cup {UNDEF} => val[y] \in Kept(val["acc"], val["accs"])
        /\ \A y \in Vars : val[y] \in Page /\ Tl(val[y]) \in Page \cup {UNDEF}
                              => Tl(val[y]) \in Kept(val["acc"], val["accs"])
    BY <2>2, <2>3 DEF CellLeaves
  <2>5. /\ val["pcells"] \in Page /\ Paired(page, Tl(val["pcells"]), val["accs"])
        /\ val["p"] \in Page
    BY <1>1, <2>1 DEF ReduceOK
  <2>6. Paired(page', page[val["pcells"]].tl, val["accs"])
    BY <1>2, <2>4, <2>5, PairedWords DEF Tl
  <2>7. page'[val["pcells"]] = page[val["pcells"]]
    BY <1>2, <2>4, <2>5
  <2>8. Paired(page', val["pcells"], ret')
    BY <2>4, <2>5, <2>6, <2>7, PushPaired
  <2>9. /\ Held'["pcells"] = val["pcells"] /\ Held'["accs"] = ret' /\ Held'["p"] = val["p"]
    BY <1>2, <1>3, <2>4
  <2>10. QED
    BY <2>4, <2>5, <2>8, <2>9 DEF ReduceOK, Before, Reads, InMacros, Rotates
<1>6. CASE At("pushed") /\ Assign("p", Hd(val["p"]), "nested")
  <2>1. /\ pc = "pushed" /\ Held = val /\ Label = "pushed" /\ pc \in Turning
        /\ pc' = "nested" /\ pc' \in Turning /\ raw' = raw /\ Allocator!Assign("p", Hd(val["p"]))
    BY <1>2, <1>6 DEF At, Held, Label, Assign, Goto, Locals
  <2>2. Hd(val["p"]) \in Usable
    BY <1>1, <1>3, <2>1, UsableWords DEF ReduceOK
  <2>3. /\ page' = page /\ ret' = ret /\ Label' = pc' /\ Held' = [val EXCEPT !["p"] = Hd(val["p"])]
        /\ ReduceOK' /\ RawOK' => Sound
    BY <1>2, <2>1, <2>2, TurningAssign
  <2>4. ReduceOK'
    BY <1>1, <1>2, <1>3, <2>1, <2>3 DEF ReduceOK, Before, Reads, InMacros, Rotates
  <2>5. RawOK'
    BY <1>1, <2>1 DEF RawOK, Macros
  <2>6. QED
    BY <2>3, <2>4, <2>5
<1>7. CASE At("nested") /\ Assign("acc", UNDEF, "reduce")
  <2>1. /\ pc = "nested" /\ Held = val /\ Label = "nested" /\ pc \in Turning
        /\ pc' = "reduce" /\ pc' \in Turning /\ raw' = raw /\ Allocator!Assign("acc", UNDEF)
    BY <1>2, <1>7 DEF At, Held, Label, Assign, Goto, Locals
  <2>2. /\ page' = page /\ ret' = ret /\ Label' = pc' /\ Held' = [val EXCEPT !["acc"] = UNDEF]
        /\ ReduceOK' /\ RawOK' => Sound
    BY <1>2, <1>3, <2>1, TurningAssign
  <2>3. InHand(UNDEF)'
    BY PageWords DEF InHand
  <2>4. ReduceOK'
    BY <1>1, <1>2, <1>3, <2>1, <2>2, <2>3 DEF ReduceOK, Before, Reads, InMacros, Rotates, InHand
  <2>5. RawOK'
    BY <1>1, <2>1 DEF RawOK, Macros
  <2>6. QED
    BY <2>2, <2>4, <2>5
<1>8. QED
  BY <1>4, <1>5, <1>6, <1>7 DEF ReducePush

\* A byte or a defined word is in hand.
LEMMA ReduceElemStep ==
    ASSUME Memory, Control, ReduceElem
    PROVE  Sound
<1>1. RootsOK /\ ReduceOK
  BY DEF Control
<1>2. /\ pc = "reduce" /\ Held = val /\ Label = "reduce" /\ pc \in Turning /\ IsPcell(val["p"])
  BY DEF ReduceElem, At, Held, Label, Turning
<1>3. val["p"] \in Page /\ Hd(val["p"]) \in Elem
  <2>1. val["p"] \in Elem /\ val["p"] \in Usable
    BY <1>1, MemoryTypes, UsableWords DEF Vars, LocalRoots, ReduceRoots
  <2>2. val["p"] \in Page
    BY <1>2, <2>1, PcellIsPage
  <2>3. QED
    BY <1>1, <2>1, <2>2, UsableWords
<1>4. ASSUME NEW w, InHand(w), Locals("join", [NoRaw EXCEPT !.head = w]), UNCHANGED mem,
             depth' = depth, octets' = octets
      PROVE  Sound
  <2>1. pc' = "join" /\ pc' \in Turning /\ raw' = [NoRaw EXCEPT !.head = w]
    BY <1>4 DEF Locals, Turning
  <2>2. /\ page' = page /\ ret' = ret /\ Label' = pc' /\ Held' = val
        /\ ReduceOK' /\ RawOK' => Sound
    BY <1>2, <1>4, <2>1, TurningGoto
  <2>3. ReduceOK'
    BY <1>1, <1>2, <1>3, <2>1, <2>2 DEF ReduceOK, Before, Reads, InMacros, Rotates, InHand
  <2>4. RawOK'
    BY <1>4, <2>1, <2>2, PageWords DEF RawOK, NoRaw, InHand
  <2>5. QED
    BY <2>2, <2>3, <2>4
<1>5. CASE Throw("undef")
  <2>1. pc # "store"
    BY <1>2
  <2>2. QED
    BY <1>5, <2>1, ThrowStep
<1>6. CASE /\ IsByte(Hd(val["p"]))
           /\ Locals("join", [NoRaw EXCEPT !.head = Hd(val["p"])])
           /\ UNCHANGED <<mem, names, depth, octets, outcome>>
  <2>1. Hd(val["p"]) \notin Page
    <3>1. UNDEF \in Nat
      BY DEF UNDEF
    <3>2. QED
      BY <1>3, <1>6, <3>1, NCellsAssumption DEF IsByte, Page
  <2>2. InHand(Hd(val["p"]))
    BY <1>3, <2>1 DEF InHand
  <2>3. QED
    BY <1>4, <1>6, <2>2
<1>7. CASE /\ Last(names) \in DOMAIN Words
           /\ Locals("join", [NoRaw EXCEPT !.head = Words[Last(names)]])
           /\ UNCHANGED <<mem, depth, octets, outcome>>
  <2>1. InHand(Words[Last(names)])
    BY <1>7, DefinedWords DEF InHand, Defined
  <2>2. QED
    BY <1>4, <1>7, <2>1
<1>8. QED
  BY <1>5, <1>6, <1>7 DEF ReduceElem

\* What is in hand joins the expression, which then is in hand itself.
LEMMA JoinStep ==
    ASSUME Memory, Control, pc \in {"join", "joinNested"}, UNCHANGED reading, NEW label,
           \/ pc = "join" /\ label = "advance"
           \/ pc = "joinNested" /\ label = "reduce",
           Join(label)
    PROVE  Sound
<1>1. RootsOK /\ ReduceOK /\ RawOK
  BY DEF Control
<1>2. /\ Held = val /\ Label = pc /\ pc \in Turning /\ label \in Turning
      /\ "acc" \in ReduceRoots /\ {"p", "acc", "accs", "pcells"} \subseteq Vars
      /\ label \notin Before /\ label \in {"advance", "reduce"}
  BY DEF Held, Label, Turning, ReduceRoots, Vars, LocalRoots, Before, Reads, InMacros, Rotates
<1>3. val \in [Vars -> Elem] /\ val["acc"] \in Usable /\ raw.head \in Usable
  BY <1>1, <1>2, MemoryTypes, UsableWords DEF NoRaw
<1>4. InHand(raw.head)
  BY <1>1, PageWords DEF RawOK, Macros, NoRaw, InHand
<1>5. /\ Paired(page, val["pcells"], val["accs"])
      /\ label = "advance" => val["p"] \in Page
  BY <1>1, <1>2 DEF ReduceOK
<1>6. CASE Allocator!Assign("acc", raw.head) /\ Locals(label, NoRaw)
  <2>1. pc' = label /\ raw' = NoRaw
    BY <1>6 DEF Locals
  <2>2. /\ page' = page /\ ret' = ret /\ Label' = pc' /\ Held' = [val EXCEPT !["acc"] = raw.head]
        /\ ReduceOK' /\ RawOK' => Sound
    BY <1>2, <1>3, <1>6, <2>1, TurningAssign
  <2>3. /\ Held'["acc"] = raw.head /\ Held'["p"] = val["p"]
        /\ Held'["pcells"] = val["pcells"] /\ Held'["accs"] = val["accs"]
    BY <1>2, <1>3, <2>2
  <2>4. InHand(Held["acc"])'
    BY <1>4, <2>2, <2>3 DEF InHand
  <2>5. ReduceOK'
    BY <1>2, <1>5, <2>1, <2>2, <2>3, <2>4 DEF ReduceOK
  <2>6. RawOK'
    BY <2>1, PageWords DEF RawOK, NoRaw
  <2>7. QED
    BY <2>2, <2>5, <2>6
<1>7. CASE SetNew("acc", raw.head, val["acc"], label)
  <2>1. /\ status' = "running" => /\ CellLeaves(raw.head, val["acc"]) /\ Label' = label
                                  /\ Held' = [val EXCEPT !["acc"] = ret']
        /\ (status' = "running" => ReduceOK') => Sound
    BY <1>2, <1>3, <1>7, TurningNew
  <2>2. SUFFICES ASSUME status' = "running" PROVE ReduceOK'
    BY <2>1
  <2>3. /\ Held' = [val EXCEPT !["acc"] = ret'] /\ Label' = label /\ ret' \in Page
        /\ \A v, w \in Kept(raw.head, val["acc"]) : Paired(page, v, w) => Paired(page', v, w)
        /\ \A y \in Vars : val[y] \in Page \cup {UNDEF} => val[y] \in Kept(raw.head, val["acc"])
    BY <2>1, <2>2 DEF CellLeaves
  <2>4. Paired(page', val["pcells"], val["accs"])
    BY <1>2, <1>5, <2>3, PairedWords
  <2>5. /\ Held'["acc"] = ret' /\ Held'["p"] = val["p"]
        /\ Held'["pcells"] = val["pcells"] /\ Held'["accs"] = val["accs"]
    BY <1>2, <1>3, <2>3
  <2>6. InHand(Held["acc"])'
    BY <2>3, <2>5, PageWords DEF InHand
  <2>7. QED
    BY <1>2, <1>5, <2>3, <2>4, <2>5, <2>6 DEF ReduceOK
<1>8. QED
  BY <1>6, <1>7 DEF Join

\* It joins the expression, and the next element is its turn.
LEMMA ReduceJoinStep ==
    ASSUME Memory, Control, ReduceJoin
    PROVE  Sound
<1>1. RootsOK /\ ReduceOK /\ RawOK /\ UNCHANGED reading
  BY DEF Control, ReduceJoin
<1>2. CASE At("join") /\ Join("advance")
  BY <1>1, <1>2, JoinStep DEF At
<1>3. CASE At("advance") /\ Assign("p", Tl(val["p"]), "reduce")
  <2>1. /\ pc = "advance" /\ Held = val /\ Label = "advance" /\ pc \in Turning
        /\ pc' = "reduce" /\ pc' \in Turning /\ raw' = raw /\ Allocator!Assign("p", Tl(val["p"]))
        /\ "p" \in ReduceRoots /\ {"p", "acc", "accs", "pcells"} \subseteq Vars
    BY <1>3 DEF At, Held, Label, Assign, Goto, Locals, Turning, ReduceRoots, Vars, LocalRoots
  <2>2. val \in [Vars -> Elem] /\ Tl(val["p"]) \in Usable
    BY <1>1, <2>1, MemoryTypes, UsableWords DEF ReduceOK
  <2>3. /\ page' = page /\ ret' = ret /\ Label' = pc' /\ Held' = [val EXCEPT !["p"] = Tl(val["p"])]
        /\ ReduceOK' /\ RawOK' => Sound
    BY <1>1, <2>1, <2>2, TurningAssign
  <2>4. ReduceOK'
    BY <1>1, <2>1, <2>2, <2>3 DEF ReduceOK, Before, Reads, InMacros, Rotates, InHand
  <2>5. RawOK'
    BY <1>1, <2>1 DEF RawOK, Macros
  <2>6. QED
    BY <2>3, <2>4, <2>5
<1>4. QED
  BY <1>2, <1>3 DEF ReduceJoin

\* The list and the tail that wait go on, with the nested expression in hand.
LEMMA ReducePopStep ==
    ASSUME Memory, Control, ReducePop
    PROVE  Sound
<1>1. RootsOK /\ ReduceOK /\ RawOK /\ UNCHANGED reading
  BY DEF Control, ReducePop
<1>2. /\ {"p", "acc", "accs", "pcells"} \subseteq ReduceRoots
      /\ {"p", "acc", "accs", "pcells"} \subseteq Vars
      /\ {"reduce", "popPcells", "popAcc", "popAccs", "joinNested"} \subseteq Turning
      /\ val \in [Vars -> Elem]
  BY MemoryTypes DEF ReduceRoots, Vars, LocalRoots, Turning
<1>3. val["acc"] \in Usable /\ val["accs"] \in Usable /\ val["pcells"] \in Usable
  BY <1>1, <1>2, UsableWords
<1>4. CASE /\ At("reduce") /\ ~IsUndef(val["pcells"])
           /\ Allocator!Assign("p", Hd(val["pcells"]))
           /\ Locals("popPcells", [NoRaw EXCEPT !.head = val["acc"]])
  <2>1. /\ pc = "reduce" /\ Held = val /\ Label = "reduce" /\ pc \in Turning
        /\ pc' = "popPcells" /\ pc' \in Turning /\ raw' = [NoRaw EXCEPT !.head = val["acc"]]
    BY <1>2, <1>4 DEF At, Held, Label, Locals
  <2>2. InHand(val["acc"]) /\ Paired(page, val["pcells"], val["accs"]) /\ val["pcells"] # UNDEF
    BY <1>1, <1>4, <2>1 DEF ReduceOK, IsUndef
  <2>3. Hd(val["pcells"]) \in Usable
    BY <1>1, <1>3, <2>2, PopPaired, UsableWords
  <2>4. /\ page' = page /\ ret' = ret /\ Label' = pc'
        /\ Held' = [val EXCEPT !["p"] = Hd(val["pcells"])]
        /\ ReduceOK' /\ RawOK' => Sound
    BY <1>1, <1>2, <1>4, <2>1, <2>3, TurningAssign
  <2>5. ReduceOK'
    BY <1>2, <2>1, <2>2, <2>4 DEF ReduceOK, Before, Reads, InMacros, Rotates
  <2>6. RawOK'
    BY <2>1, <2>2, <2>4, PageWords DEF RawOK, NoRaw, InHand
  <2>7. QED
    BY <2>4, <2>5, <2>6
<1>5. CASE At("popPcells") /\ Assign("pcells", Tl(val["pcells"]), "popAcc")
  <2>1. /\ pc = "popPcells" /\ Held = val /\ Label = "popPcells" /\ pc \in Turning
        /\ pc' = "popAcc" /\ pc' \in Turning /\ raw' = raw
        /\ Allocator!Assign("pcells", Tl(val["pcells"]))
    BY <1>2, <1>5 DEF At, Held, Label, Assign, Goto, Locals
  <2>2. /\ val["pcells"] \in Page /\ val["accs"] \in Page
        /\ Paired(page, Tl(val["pcells"]), Tl(val["accs"]))
    BY <1>1, <2>1, PopPaired DEF ReduceOK, Tl
  <2>3. Tl(val["pcells"]) \in Usable
    BY <1>1, <1>3, <2>2, UsableWords
  <2>4. /\ page' = page /\ ret' = ret /\ Label' = pc'
        /\ Held' = [val EXCEPT !["pcells"] = Tl(val["pcells"])]
        /\ ReduceOK' /\ RawOK' => Sound
    BY <1>1, <1>2, <2>1, <2>3, TurningAssign
  <2>5. ReduceOK'
    BY <1>2, <2>1, <2>2, <2>4 DEF ReduceOK, Before, Reads, InMacros, Rotates, Tl
  <2>6. RawOK'
    BY <1>1, <2>1, <2>4 DEF RawOK, Macros, InHand
  <2>7. QED
    BY <2>4, <2>5, <2>6
<1>6. CASE At("popAcc") /\ Assign("acc", Hd(val["accs"]), "popAccs")
  <2>1. /\ pc = "popAcc" /\ Held = val /\ Label = "popAcc" /\ pc \in Turning
        /\ pc' = "popAccs" /\ pc' \in Turning /\ raw' = raw
        /\ Allocator!Assign("acc", Hd(val["accs"]))
    BY <1>2, <1>6 DEF At, Held, Label, Assign, Goto, Locals
  <2>2. val["accs"] \in Page /\ Paired(page, val["pcells"], Tl(val["accs"]))
    BY <1>1, <2>1 DEF ReduceOK
  <2>3. Hd(val["accs"]) \in Usable
    BY <1>1, <1>3, <2>2, UsableWords
  <2>4. /\ page' = page /\ ret' = ret /\ Label' = pc'
        /\ Held' = [val EXCEPT !["acc"] = Hd(val["accs"])]
        /\ ReduceOK' /\ RawOK' => Sound
    BY <1>1, <1>2, <2>1, <2>3, TurningAssign
  <2>5. ReduceOK'
    BY <1>2, <2>1, <2>2, <2>4 DEF ReduceOK, Before, Reads, InMacros, Rotates, Tl
  <2>6. RawOK'
    BY <1>1, <2>1, <2>4 DEF RawOK, Macros, InHand
  <2>7. QED
    BY <2>4, <2>5, <2>6
<1>7. CASE At("popAccs") /\ Assign("accs", Tl(val["accs"]), "joinNested")
  <2>1. /\ pc = "popAccs" /\ Held = val /\ Label = "popAccs" /\ pc \in Turning
        /\ pc' = "joinNested" /\ pc' \in Turning /\ raw' = raw
        /\ Allocator!Assign("accs", Tl(val["accs"]))
    BY <1>2, <1>7 DEF At, Held, Label, Assign, Goto, Locals
  <2>2. val["accs"] \in Page /\ Paired(page, val["pcells"], Tl(val["accs"]))
    BY <1>1, <2>1 DEF ReduceOK
  <2>3. Tl(val["accs"]) \in Usable
    BY <1>1, <1>3, <2>2, UsableWords
  <2>4. /\ page' = page /\ ret' = ret /\ Label' = pc'
        /\ Held' = [val EXCEPT !["accs"] = Tl(val["accs"])]
        /\ ReduceOK' /\ RawOK' => Sound
    BY <1>1, <1>2, <2>1, <2>3, TurningAssign
  <2>5. ReduceOK'
    BY <1>2, <2>1, <2>2, <2>4 DEF ReduceOK, Before, Reads, InMacros, Rotates, Tl
  <2>6. RawOK'
    BY <1>1, <2>1, <2>4 DEF RawOK, Macros, InHand
  <2>7. QED
    BY <2>4, <2>5, <2>6
<1>8. CASE At("joinNested") /\ Join("reduce")
  BY <1>1, <1>8, JoinStep DEF At
<1>9. QED
  BY <1>4, <1>5, <1>6, <1>7, <1>8 DEF ReducePop

\* _reverse_and_reduce returns the expression.
LEMMA ReduceReturnStep ==
    ASSUME Memory, Control, ReduceReturn
    PROVE  Sound
<1>1. RootsOK /\ TailOK /\ TailsOK /\ ReduceOK /\ RawOK /\ octets[1] \in Int
  BY DEF Control
<1>2. val \in [Vars -> Elem] /\ ReduceRoots \subseteq LocalRoots /\ "tail" \in Vars \ ReduceRoots
         /\ "acc" \in ReduceRoots /\ UNCHANGED reading /\ depth' = depth /\ octets' = octets
  BY MemoryTypes DEF Vars, LocalRoots, ReduceRoots, ReduceReturn, reading
<1>3. ASSUME pc \in {"reduce", "reduced"}, NEW x \in ReduceRoots, RootsOK', ClientStep,
             stale' = stale, val' = [val EXCEPT ![x] = UNDEF], pc' = "reduced", raw' = raw
      PROVE  Sound
  <2>1. Held' = val' /\ Label' = "reduced" /\ Held = val /\ Label = pc
    BY <1>3 DEF Held, Label
  <2>2. TailOK'
    BY <1>1, <1>2, <1>3, <2>1 DEF TailOK
  <2>3. TailsOK'
    BY <1>1, <1>2, <2>1 DEF TailsOK, Before, Reads, InMacros, Rotates
  <2>4. MacrosOK'
    BY <2>1 DEF MacrosOK, Macros, Reads
  <2>5. ReduceOK'
    BY <2>1 DEF ReduceOK, Before, Reads, InMacros, Rotates
  <2>6. RawOK'
    BY <1>1, <1>3 DEF RawOK, Macros
  <2>7. QED
    BY <1>1, <1>2, <1>3, <2>2, <2>3, <2>4, <2>5, <2>6 DEF Control, Sound
<1>4. CASE At("reduce") /\ Allocator!ReturnRoot("acc") /\ Goto("reduced")
  <2>1. /\ ClientStep /\ RootsOK' /\ stale' = stale /\ val' = [val EXCEPT !["acc"] = UNDEF]
    BY <1>1, <1>2, <1>4, ReturnRootLeaves
  <2>2. QED
    BY <1>2, <1>3, <1>4, <2>1 DEF At, Goto, Locals
<1> DEFINE mine == roots \cap ReduceRoots
           x    == CHOOSE y \in mine : TRUE
<1>5. CASE At("reduced") /\ mine # {} /\ Allocator!DelRoot(x) /\ UNCHANGED control
  <2>1. x \in ReduceRoots
    BY <1>5
  <2> HIDE DEF x, mine
  <2>2. ClientStep /\ RootsOK' /\ stale' = stale /\ val' = [val EXCEPT ![x] = UNDEF]
    BY <1>1, <1>2, <1>5, <2>1, DelRootLeaves
  <2>3. QED
    BY <1>3, <1>5, <2>1, <2>2 DEF At, control
<1>6. CASE At("reduced") /\ Locals("parsed", [NoRaw EXCEPT !.arg = ret]) /\ UNCHANGED mem
  <2>1. /\ pc = "reduced" /\ Label = "reduced" /\ pc' = "parsed"
        /\ raw' = [NoRaw EXCEPT !.arg = ret] /\ pc \in Turning /\ pc' \in Turning
    BY <1>6 DEF At, Label, Locals, Turning
  <2>2. /\ page' = page /\ ret' = ret /\ Label' = pc' /\ Held' = val
        /\ ReduceOK' /\ RawOK' => Sound
    BY <1>2, <1>6, <2>1, TurningGoto
  <2>3. ReduceOK'
    BY <2>1, <2>2 DEF ReduceOK, Before, Reads, InMacros, Rotates
  <2>4. RawOK'
    BY <2>1, <2>2, MemoryTypes, PageWords DEF RawOK, NoRaw, InHand
  <2>5. QED
    BY <2>2, <2>3, <2>4
<1>7. QED
  BY <1>4, <1>5, <1>6 DEF ReduceReturn, Leave

\* The expression is handed on.
LEMMA endoflineStep ==
    ASSUME Memory, Control, endofline
    PROVE  Sound
<1>1. pc = "parsed" /\ Label = "parsed" /\ pc \in Turning /\ RawOK
  BY DEF endofline, At, Label, Turning, Control
<1>2. CASE Throw("wrong")
  BY <1>1, <1>2, ThrowStep
<1>3. CASE Goto("done") /\ UNCHANGED <<mem, names, depth, octets, outcome>>
  <2>1. pc' = "done" /\ raw' = raw /\ pc' \in Turning
    BY <1>3 DEF Goto, Locals, Turning
  <2>2. /\ page' = page /\ ret' = ret /\ Label' = pc' /\ Held' = val
        /\ ReduceOK' /\ RawOK' => Sound
    BY <1>1, <1>3, <2>1, TurningGoto
  <2>3. ReduceOK'
    BY <2>1, <2>2 DEF ReduceOK, Before, Reads, InMacros, Rotates
  <2>4. RawOK'
    BY <1>1, <2>1, <2>2 DEF RawOK, Macros, InHand
  <2>5. QED
    BY <2>2, <2>3, <2>4
<1>4. QED
  BY <1>2, <1>3 DEF endofline

-----------------------------------------------------------------------------
\* The variables to start with.
LEMMA InitVals ==
    ASSUME Init
    PROVE  /\ val \in [Vars -> Elem]
           /\ \A x \in DOMAIN DefnRoots : val[x] = Words[DefnRoots[x]]
           /\ \A x \in LocalRoots : val[x] = UNDEF
<1> DEFINE first(x) == IF x \in DOMAIN DefnRoots THEN Words[DefnRoots[x]] ELSE UNDEF
<1>1. val = [x \in Vars |-> first(x)]
  <2>1. val = [x \in Allocator!Var |-> first(x)]
    BY Zenon DEF Init
  <2>2. QED
    BY <2>1, SameWords, Zenon
<1>2. \A x \in DOMAIN DefnRoots : first(x) = Words[DefnRoots[x]] /\ first(x) \in Defined
  BY DefnRootsAssumption DEF Defined
<1>3. \A x \in LocalRoots : first(x) = UNDEF
  BY DefnRootsAssumption
<1>4. \A x \in Vars : first(x) \in Elem
  BY <1>2, <1>3, DefinedWords, PageWords DEF Vars
<1> HIDE DEF first
<1>5. QED
  BY <1>1, <1>2, <1>3, <1>4 DEF Vars

\* The page of the definitions is in order.
LEMMA InitMemory ==
    ASSUME Init
    PROVE  Memory
<1>1. PICK n \in FreeCounts :
        /\ {c \in Page : c <= UNDEF + n} \cap DOMAIN DefnCells = {}
        /\ free = {c \in Page : c <= UNDEF + n}
        /\ page = [c \in Page |->
                     IF c \in DOMAIN DefnCells THEN DefnCells[c]
                     ELSE FreeCell(c, IF c \in {c2 \in Page : c2 <= UNDEF + n}
                                      THEN {c2 \in Page : c2 <= UNDEF + n} ELSE {})]
  BY Zenon DEF Init
<1> DEFINE unused == {c \in Page : c <= UNDEF + n}
<1>2. unused \in SUBSET Page
  OBVIOUS
<1> HIDE DEF unused
<1>3. /\ unused \cap DOMAIN DefnCells = {} /\ free = unused
      /\ page = [c \in Page |-> IF c \in DOMAIN DefnCells THEN DefnCells[c]
                                ELSE FreeCell(c, IF c \in unused THEN unused ELSE {})]
  BY <1>1, Zenon DEF unused
<1>4. /\ val \in [Vars -> Elem]
      /\ \A x \in DOMAIN DefnRoots : val[x] = Words[DefnRoots[x]]
      /\ roots = DOMAIN DefnRoots /\ ret = UNDEF /\ stale = FALSE
      /\ status = "running" /\ interactive = FALSE
  BY InitVals, Zenon DEF Init
<1>5. Allocator!TypeOK
  <2>1. page \in [Page -> Cell]
    <3>1. ASSUME NEW c \in Page
          PROVE  page[c] \in Cell
      BY <1>2, <1>3, FreeCellType, WordsAssumption
    <3>2. QED
      BY <1>3, <3>1
  <2>2. val \in [Vars -> Elem] /\ roots \subseteq Vars /\ ret \in Elem
    BY <1>4, PageWords DEF Vars, LocalRoots
  <2>3. QED
    BY <1>2, <1>3, <1>4, <2>1, <2>2, SameCells, SameWords DEF Allocator!TypeOK
<1>6. Closed(page, Page \ free)
  <2>1. ASSUME NEW c \in Page \ free
        PROVE  Children(page, c) \subseteq Page \ free
    <3>1. CASE c \in DOMAIN DefnCells
      <4>1. \A w \in {page[c].hd, page[c].tl} : w \in Page => w \in DOMAIN DefnCells
        BY <1>3, <3>1, WordsAssumption, PageWords
      <4>2. QED
        BY <1>3, <4>1 DEF Children
    <3>2. CASE c \notin DOMAIN DefnCells
      <4>1. page[c] = FreeCell(c, {})
        BY <1>3, <2>1, <3>2
      <4>2. page[c].hd = Null /\ page[c].tl = UNDEF
        BY <4>1 DEF FreeCell, FreeLink
      <4>3. QED
        BY <4>2, PageWords DEF Children
    <3>3. QED
      BY <3>1, <3>2
  <2>2. QED
    BY <2>1 DEF Closed
<1>7. ({val[x] : x \in roots} \cup {ret}) \cap free = {}
  <2>1. {val[x] : x \in roots} \subseteq Defined
    BY <1>4, DefnRootsAssumption DEF Defined
  <2>2. Defined \cap free = {} /\ UNDEF \notin free
    BY <1>2, <1>3, DefinedWords, PageWords
  <2>3. QED
    BY <1>4, <2>1, <2>2
<1>8. QED
  BY <1>5, <1>6, <1>7, SameCells, SameReach, SameWords DEF Memory, Allocator!AllocatedClosed

\* So is the parser before the first token.
LEMMA InitControl ==
    ASSUME Init
    PROVE  Control
<1>1. /\ \A x \in DOMAIN DefnRoots : val[x] = Words[DefnRoots[x]]
      /\ \A x \in LocalRoots : val[x] = UNDEF
      /\ roots = DOMAIN DefnRoots /\ ret = UNDEF /\ stale = FALSE /\ pc = "start" /\ raw = NoRaw
      /\ depth = 0 /\ octets = <<0, 0>>
  BY InitVals, Zenon DEF Init
<1>2. Held = val /\ Label = "start"
  BY <1>1 DEF Held, Label
<1>3. RootsOK
  BY <1>1 DEF RootsOK, Vars, LocalRoots
<1>4. TailOK
  BY <1>1, <1>2 DEF TailOK, Vars, LocalRoots
<1>5. TailsOK
  <2>1. Held["tails"] = UNDEF
    BY <1>1, <1>2 DEF LocalRoots
  <2>2. depth = 0 /\ Label = "start"
    BY <1>1, <1>2
  <2>3. Balanced(page, UNDEF, 0)
    BY EmptyStacks
  <2>4. QED
    BY <2>1, <2>2, <2>3 DEF TailsOK
<1>6. MacrosOK
  BY <1>1, <1>2, LocalVars DEF MacrosOK, Macros, MacroRoots, LocalRoots
<1>7. ReduceOK
  BY <1>1, <1>2 DEF ReduceOK, Vars, LocalRoots, ReduceRoots
<1>8. RawOK
  BY <1>1, PageWords DEF RawOK, NoRaw
<1>9. QED
  BY <1>1, <1>3, <1>4, <1>5, <1>6, <1>7, <1>8 DEF Control

\* The parser takes no step once the process has stopped.
LEMMA NextRuns == Next => status = "running"
BY DEF Next, At, Reading, Start, Space, Open, Close, Unexpected, EndOfInput, Trailing, Name,
       Number, Hash, MacroChar, Store, Octets, HashRead, QuoteMacro, ReverseMacro, RotateMacro,
       MacroReturn, Return, ReduceEnter, ReducePush, ReduceElem, ReduceJoin, ReducePop,
       ReduceReturn, endofline, Unwind

\* Every step is sound.
LEMMA StepSound ==
    ASSUME Memory, Control, Next
    PROVE  Sound
<1>1. CASE Start \/ Space \/ Open \/ Close \/ Unexpected \/ EndOfInput \/ Trailing
  BY <1>1, StartStep, SpaceStep, OpenStep, CloseStep, ThrowingSteps, TrailingStep
<1>2. CASE \/ \E c \in Names : Name(c)
           \/ \E c \in DOMAIN Numbers : Number(c)
           \/ HashRead
  BY <1>2, TokenSteps
<1>3. CASE \E c \in DOMAIN Hashes : Hash(c)
  BY <1>3, HashStep
<1>4. CASE \E c \in Macros : MacroChar(c)
  BY <1>4, MacroCharStep
<1>5. CASE Store \/ Octets \/ QuoteMacro \/ ReverseMacro \/ RotateMacro \/ MacroReturn
  BY <1>5, StoreStep, OctetsStep, QuoteMacroStep, ReverseMacroStep, RotateMacroStep,
     MacroReturnStep
<1>6. CASE \/ Return \/ ReduceEnter \/ ReducePush \/ ReduceElem \/ ReduceJoin \/ ReducePop
           \/ ReduceReturn \/ endofline \/ Unwind
  BY <1>6, ReturnStep, ReduceEnterStep, ReducePushStep, ReduceElemStep, ReduceJoinStep,
     ReducePopStep, ReduceReturnStep, endoflineStep, UnwindStep
<1>7. QED
  BY <1>1, <1>2, <1>3, <1>4, <1>5, <1>6 DEF Next

\* What holds at each place of the parser always holds.
LEMMA InvHolds == Spec => []Inv
<1>1. Init => Inv
  BY InitMemory, InitControl DEF Inv
<1>2. Inv /\ [Next]_vars => Inv'
  <2>1. SUFFICES ASSUME Inv, [Next]_vars PROVE Inv'
    OBVIOUS
  <2>2. CASE Next
    <3>1. Memory /\ Control
      BY <2>1, <2>2, NextRuns DEF Inv
    <3>2. Sound
      BY <2>2, <3>1, StepSound
    <3>3. Memory'
      BY <3>1, <3>2, MemoryStep DEF Sound
    <3>4. QED
      BY <3>2, <3>3 DEF Inv, Sound
  <2>3. CASE UNCHANGED vars
    <3>1. UNCHANGED mem /\ status' = status
      BY <2>3 DEF vars, mem
    <3>2. Memory'
      BY <2>1, <3>1, MemoryStep DEF Inv
    <3>3. ASSUME Control PROVE Control'
      <4>1. /\ page' = page /\ val' = val /\ roots' = roots /\ ret' = ret /\ stale' = stale
            /\ pc' = pc /\ into' = into /\ raw' = raw /\ depth' = depth /\ octets' = octets
        BY <2>3 DEF vars, mem, control, reading
      <4>2. Label' = Label /\ Held' = Held /\ Usable' = Usable
        BY <4>1 DEF Label, Held, Usable, Live
      <4>3. RootsOK' /\ TailOK' /\ TailsOK'
        BY <3>3, <4>1, <4>2 DEF Control, RootsOK, TailOK, TailsOK
      <4>4. MacrosOK' /\ ReduceOK'
        BY <3>3, <4>1, <4>2 DEF Control, MacrosOK, ReduceOK, InHand, Tl
      <4>5. RawOK'
        BY <3>3, <4>1, <4>2 DEF Control, RawOK, InHand
      <4>6. QED
        BY <3>3, <4>1, <4>3, <4>4, <4>5 DEF Control
    <3>4. QED
      BY <2>1, <3>1, <3>2, <3>3 DEF Inv
  <2>4. QED
    BY <2>1, <2>2, <2>3
<1>3. QED
  BY <1>1, <1>2, PTL DEF Spec

(***************************************************************************)
(* The parser is a client of the allocator that keeps to its rules: every  *)
(* call it makes is one SimpleAllocator allows, with words that a root or  *)
(* the last answer keeps alive.  What is proved of SimpleAllocator's steps *)
(* holds of the parser's.                                                  *)
(***************************************************************************)
THEOREM ParserIsAClient == Spec => [][Allocator!Next]_mem
<1>1. Inv /\ [Next]_vars => [Allocator!Next]_mem
  <2>1. SUFFICES ASSUME Inv, Next PROVE [Allocator!Next]_mem
    BY DEF vars
  <2>2. Sound
    BY <2>1, NextRuns, StepSound DEF Inv
  <2>3. QED
    BY <2>2, ClientSteps DEF Sound
<1>2. QED
  BY <1>1, InvHolds, PTL DEF Spec

(***************************************************************************)
(* _mark keeps all that the roots lead to, whichever root leads there.     *)
(***************************************************************************)
LEMMA LiveIsAlive ==
    ASSUME Memory
    PROVE  Live \subseteq Alive
<1> DEFINE held  == {val[x] : x \in roots} \cup {ret}
           words == {w \in held : w \in Page}
           all   == UNION {Reach(page, {w}) : w \in words}
<1>1. page \in [Page -> Cell]
  BY MemoryTypes
<1>2. \A w \in words : MarkFrom(page, {}, w) = Reach(page, {w})
  <2>1. TAKE w \in words
  <2>2. w \in Page /\ {} \in SUBSET Page
    OBVIOUS
  <2>3. MarkFrom(page, {}, w) = Marked(page, {}, w)
    BY <1>1, <2>2, MarkFromMarks
  <2>4. MarkFrom(page, {}, w) = Reach(page, {} \cup {w})
    BY <2>3, MarkedReach, ReachNothing
  <2>5. {} \cup {w} = {w}
    OBVIOUS
  <2>6. QED
    BY <2>4, <2>5
<1>3. Alive = all
  <2>1. Alive = UNION {MarkFrom(page, {}, w) : w \in words}
    BY Zenon DEF Alive
  <2> HIDE DEF words
  <2>2. {MarkFrom(page, {}, w) : w \in words} = {Reach(page, {w}) : w \in words}
    BY <1>2, Zenon
  <2>3. QED
    BY <2>1, <2>2, Zenon
<1>4. all \in SUBSET Page /\ Closed(page, all) /\ held \cap Page \subseteq all
  <2>1. \A w \in words : /\ Reach(page, {w}) \in SUBSET Page /\ Closed(page, Reach(page, {w}))
                         /\ w \in Reach(page, {w})
    BY ReachClosed, ReachHoldsWords
  <2>2. QED
    BY <2>1 DEF Closed
<1> HIDE DEF all
<1>5. QED
  BY <1>3, <1>4, ReachLeast DEF Live

(***************************************************************************)
(* HandsAlive for every page, all definitions and everything typed: what   *)
(* the parser keeps in a plain local is never a cell that a collection may *)
(* take away.                                                              *)
(***************************************************************************)
THEOREM LocalsAreAlive == Spec => []HandsAlive
<1>1. Inv => HandsAlive
  <2>1. SUFFICES ASSUME Memory, Control, NEW f \in DOMAIN raw, raw[f] \in Page
                 PROVE  raw[f] \in Alive
    BY DEF Inv, HandsAlive
  <2>2. RootsOK /\ RawOK
    BY <2>1 DEF Control
  <2>3. raw[f] \in Usable
    BY <2>1, <2>2, UsableWords DEF RawOK
  <2>4. raw[f] \in Live
    BY <2>1, <2>3, SmallWords DEF Usable
  <2>5. QED
    BY <2>1, <2>4, LiveIsAlive
<1>2. QED
  BY <1>1, InvHolds, PTL
=============================================================================
