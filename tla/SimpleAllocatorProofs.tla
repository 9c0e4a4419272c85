----------------------- MODULE SimpleAllocatorProofs ------------------------
(***************************************************************************)
(* SimpleAllocator, for every page size and every set of client variables. *)
(*                                                                         *)
(* The argument: the cells off the free list form a closed set that holds  *)
(* every root (AllocatedClosed), so nothing a root leads to is free.  A    *)
(* new cell only points to live cells, and a sweep frees the complement of *)
(* a set that marking closed, so every step keeps that.                    *)
(***************************************************************************)
EXTENDS SimpleAllocatorRefinement, CellsProofs

-----------------------------------------------------------------------------
\* The words a client may use are words.
LEMMA WordsType ==
    /\ Live \subseteq Page
    /\ ElemWords \subseteq Elem
    /\ \A x \in Var : WordsFor(x) \subseteq Elem /\ Empty(x) \in Elem
<1>1. Live \subseteq Page
  BY ReachHoldsWords DEF Live
<1>2. ClientBytes \subseteq Elem
  <2>1. ASSUME NEW b \in Nat, b < UNDEF
        PROVE  b \in 0 .. (UNDEF + NCells)
    BY <2>1, NCellsAssumption DEF UNDEF
  <2>2. QED
    BY <2>1, ByteAssumption DEF Elem, IsByte
<1>3. ElemWords \subseteq Elem
  BY <1>1, <1>2, PageWords DEF ElemWords
<1>4. QED
  BY <1>1, <1>3, PageWords DEF WordsFor, Empty

\* A sweep of a page of cells is a page of cells.
LEMMA SweepType ==
    ASSUME NEW cells \in [Page -> Cell], NEW live
    PROVE  Sweep(cells, live) \in [Page -> Cell]
<1>1. \A c \in Page : FreeCell(c, Page \ live) \in Cell
  BY FreeCellType
<1>2. QED
  BY <1>1 DEF Sweep

\* Filling a cell of the page leaves a page of cells.
LEMMA FilledType ==
    ASSUME NEW cells \in [Page -> Cell], NEW c \in Page,
           NEW h \in Elem, NEW t \in Elem
    PROVE  [cells EXCEPT ![c] = [hd |-> h, tl |-> t]] \in [Page -> Cell]
BY DEF Cell

\* Every step keeps the types.
LEMMA TypeStep ==
    TypeOK /\ [Next]_vars => TypeOK'
<1>1. SUFFICES ASSUME TypeOK, [Next]_vars PROVE TypeOK'
  OBVIOUS
<1>2. ASSUME NEW x \in Var, NEW e \in WordsFor(x), AddRoot(x, e) \/ Assign(x, e)
      PROVE  TypeOK'
  BY <1>1, <1>2, WordsType DEF TypeOK, AddRoot, Assign
<1>3. ASSUME NEW x \in Var, DelRoot(x) \/ ReturnRoot(x)
      PROVE  TypeOK'
  <2>1. ret' \in Elem
    BY <1>1, <1>3, PageWords DEF TypeOK, DelRoot, ReturnRoot
  <2>2. QED
    BY <1>1, <1>3, <2>1, WordsType DEF TypeOK, DelRoot, ReturnRoot
<1>4. ASSUME NEW h \in ElemWords, NEW t \in ElemWords, NewCell(h, t)
      PROVE  TypeOK'
  <2>1. h \in Elem /\ t \in Elem
    BY WordsType
  <2>2. PICK c \in free : /\ page' = [page EXCEPT ![c] = [hd |-> h, tl |-> t]]
                          /\ free' = free \ {c}
                          /\ ret' = c
    BY <1>4 DEF NewCell
  <2>3. c \in Page
    BY <1>1 DEF TypeOK
  <2>4. page' \in [Page -> Cell]
    BY <1>1, <2>1, <2>2, <2>3, FilledType DEF TypeOK
  <2>5. QED
    BY <1>1, <1>4, <2>2, <2>3, <2>4, PageWords DEF TypeOK, NewCell
<1>5. ASSUME NEW h \in ElemWords, NEW t \in ElemWords, NewCellCollect(h, t)
      PROVE  TypeOK'
  <2>1. h \in Elem /\ t \in Elem
    BY WordsType
  <2>2. PICK c \in free, words \in StackWords :
          LET filled == [page EXCEPT ![c] = [hd |-> h, tl |-> t]]
              live   == Reach(filled, RootWords \cup words \cup {c})
          IN  \/ /\ status' = "wildRead"
                 /\ UNCHANGED <<page, free, ret, stale>>
              \/ /\ page' = filled
                 /\ free' = {}
                 /\ status' = "oom"
                 /\ ret' = UNDEF
                 /\ stale' = TRUE
              \/ /\ page' = Sweep(filled, live)
                 /\ free' = Page \ live
                 /\ ret' = c
                 /\ stale' \in {stale, FALSE}
                 /\ UNCHANGED status
    BY <1>5, ZenonT(40) DEF NewCellCollect
  <2>3. c \in Page
    BY <1>1 DEF TypeOK
  <2> DEFINE filled == [page EXCEPT ![c] = [hd |-> h, tl |-> t]]
  <2>4. filled \in [Page -> Cell]
    BY <1>1, <2>1, <2>3, FilledType DEF TypeOK
  <2>5. \A live : Sweep(filled, live) \in [Page -> Cell]
    BY <2>4, SweepType
  <2>6. UNCHANGED <<val, roots, interactive>>
    BY <1>5 DEF NewCellCollect
  <2> HIDE DEF filled
  <2>7. \/ UNCHANGED <<page, free, ret, stale>> /\ status' = "wildRead"
        \/ /\ page' = filled /\ free' = {} /\ ret' = UNDEF
           /\ stale' = TRUE /\ status' = "oom"
        \/ \E live : /\ page' = Sweep(filled, live) /\ free' = Page \ live /\ ret' = c
                     /\ stale' \in {stale, FALSE} /\ UNCHANGED status
    BY <2>2, Zenon DEF filled
  <2>8. page' \in [Page -> Cell]
    BY <1>1, <2>4, <2>5, <2>7 DEF TypeOK
  <2>9. free' \subseteq Page /\ ret' \in Elem /\ stale' \in BOOLEAN
    BY <1>1, <2>3, <2>7, PageWords DEF TypeOK
  <2>10. QED
    BY <1>1, <2>6, <2>7, <2>8, <2>9 DEF TypeOK
<1>6. CASE NewCellNoReserve
  BY <1>1, <1>6 DEF TypeOK, NewCellNoReserve
<1>7. CASE Forget
  BY <1>1, <1>7, PageWords DEF TypeOK, Forget
<1>8. CASE Gc
  <2>1. \A live : Sweep(page, live) \in [Page -> Cell]
    BY <1>1, SweepType DEF TypeOK
  <2>2. PICK words : LET live == Reach(page, RootWords \cup words)
                     IN  \/ /\ status' = "wildRead"
                            /\ UNCHANGED <<page, free>>
                         \/ /\ page' = Sweep(page, live)
                            /\ free' = Page \ live
                            /\ status' = IF live = Page THEN "oom" ELSE status
    BY <1>8 DEF Gc
  <2>3. QED
    BY <1>1, <1>8, <2>1, <2>2, PageWords DEF TypeOK, Gc
<1>9. CASE Recover
  BY <1>1, <1>9 DEF TypeOK, Recover
<1>10. CASE UNCHANGED vars
  BY <1>1, <1>10 DEF TypeOK, vars
<1>11. QED
  BY <1>1, <1>2, <1>3, <1>4, <1>5, <1>6, <1>7, <1>8, <1>9, <1>10 DEF Next

\* Every variable of the allocator keeps its type: in particular no client
\* variable ever holds a word beyond the page.
THEOREM TypeCorrect == Spec => []TypeOK
<1>1. Init => TypeOK
  <2>1. SUFFICES ASSUME Init PROVE TypeOK
    OBVIOUS
  <2>2. page \in [Page -> Cell]
    <3>1. \A c \in Page : FreeCell(c, Page) \in Cell
      BY FreeCellType
    <3>2. QED
      BY <2>1, <3>1 DEF Init
  <2>3. val \in [Var -> Elem]
    BY <2>1, WordsType DEF Init
  <2>4. QED
    BY <2>1, <2>2, <2>3, PageWords DEF Init, TypeOK
<1>2. TypeOK /\ [Next]_vars => TypeOK'
  BY TypeStep
<1>3. QED
  BY <1>1, <1>2, PTL DEF Spec

-----------------------------------------------------------------------------
\* What AllocatedClosed is for: marking stays off the free list.
LEMMA ClosedKeepsLiveOffFree ==
    ASSUME TypeOK, AllocatedClosed
    PROVE  Live \subseteq Page \ free
<1>1. (RootWords \cup {ret}) \cap Page \subseteq Page \ free
  BY DEF AllocatedClosed
<1>2. QED
  BY <1>1, ReachLeast DEF AllocatedClosed, Live

\* No word a client may store is a free cell.
LEMMA WordsAreNotFree ==
    ASSUME TypeOK, AllocatedClosed
    PROVE  /\ ElemWords \cap free = {}
           /\ \A x \in Var : WordsFor(x) \cap free = {} /\ Empty(x) \notin free
<1>1. Live \cap free = {}
  BY ClosedKeepsLiveOffFree
<1>2. ClientBytes \cap Page = {}
  <2>1. \A b \in Nat : ~ (b < UNDEF /\ UNDEF < b)
    BY DEF UNDEF
  <2>2. QED
    BY <2>1, ByteAssumption, PageWords DEF IsByte, IsPcell
<1>3. free \subseteq Page
  BY DEF TypeOK
<1>4. ElemWords \cap free = {}
  BY <1>1, <1>2, <1>3, PageWords DEF ElemWords
<1>5. QED
  BY <1>1, <1>3, <1>4, PageWords DEF WordsFor, Empty

\* Filling the free cell c with words that are no free cell keeps the cells
\* in use closed, c now among them.
LEMMA FilledClosed ==
    ASSUME TypeOK, AllocatedClosed,
           NEW c \in free, NEW h \in ElemWords, NEW t \in ElemWords
    PROVE  Closed([page EXCEPT ![c] = [hd |-> h, tl |-> t]], Page \ (free \ {c}))
<1> DEFINE filled == [page EXCEPT ![c] = [hd |-> h, tl |-> t]]
<1>1. c \in Page /\ page \in [Page -> Cell]
  BY DEF TypeOK
<1>2. h \notin free /\ t \notin free
  BY WordsAreNotFree
<1>3. filled[c].hd = h /\ filled[c].tl = t
  BY <1>1
<1>4. ASSUME NEW d \in Page \ (free \ {c}), NEW e \in Children(filled, d)
      PROVE  e \in Page \ (free \ {c})
  <2>1. e \in Page /\ e \in {filled[d].hd, filled[d].tl}
    BY <1>4 DEF Children
  <2>2. CASE d = c
    BY <1>2, <1>3, <2>1, <2>2
  <2>3. CASE d # c
    <3>1. filled[d] = page[d]
      BY <1>1, <2>3
    <3>2. d \in Page \ free
      BY <1>4, <2>3
    <3>3. e \in Children(page, d)
      BY <2>1, <3>1 DEF Children
    <3>4. QED
      BY <3>2, <3>3 DEF AllocatedClosed, Closed
  <2>4. QED
    BY <2>2, <2>3
<1>5. QED
  BY <1>4 DEF Closed

\* A sweep leaves the marked cells closed.
LEMMA SweptClosed ==
    ASSUME NEW cells \in [Page -> Cell], NEW words
    PROVE  LET live == Reach(cells, words)
           IN  Closed(Sweep(cells, live), Page \ (Page \ live))
<1> DEFINE live == Reach(cells, words)
<1>1. live \in SUBSET Page /\ Closed(cells, live)
  BY ReachClosed, ReachHoldsWords
<1>2. \A c \in live : Sweep(cells, live)[c] = cells[c]
  BY <1>1 DEF Sweep
<1>3. Closed(Sweep(cells, live), live)
  <2> HIDE DEF live
  <2>1. QED
    BY <1>1, <1>2, ClosedAgrees
<1>4. Page \ (Page \ live) = live
  BY <1>1
<1>5. QED
  BY <1>3, <1>4

-----------------------------------------------------------------------------
\* Every step of every client keeps the allocated cells closed.
LEMMA ClosedStep ==
    TypeOK /\ AllocatedClosed /\ [Next]_vars => AllocatedClosed'
<1>1. SUFFICES ASSUME TypeOK, AllocatedClosed, [Next]_vars
               PROVE  AllocatedClosed'
  OBVIOUS
<1> USE <1>1
<1>2. ASSUME NEW x \in Var, NEW e \in WordsFor(x), AddRoot(x, e) \/ Assign(x, e)
      PROVE  AllocatedClosed'
  <2>1. RootWords' \subseteq RootWords \cup {e}
    BY <1>2 DEF TypeOK, AddRoot, Assign, RootWords
  <2>2. e \notin free
    BY WordsAreNotFree
  <2>3. UNCHANGED <<page, free, ret>>
    BY <1>2 DEF AddRoot, Assign
  <2>4. QED
    BY <2>1, <2>2, <2>3 DEF AllocatedClosed
<1>3. ASSUME NEW x \in Var, DelRoot(x) \/ ReturnRoot(x)
      PROVE  AllocatedClosed'
  <2>1. RootWords' \subseteq RootWords
    BY <1>3 DEF TypeOK, DelRoot, ReturnRoot, RootWords
  <2>2. UNCHANGED <<page, free>>
    BY <1>3 DEF DelRoot, ReturnRoot
  <2>3. ret' \in RootWords \cup {ret, UNDEF}
    BY <1>3 DEF DelRoot, ReturnRoot, RootWords
  <2>4. UNDEF \notin free
    BY PageWords DEF TypeOK
  <2>5. QED
    BY <2>1, <2>2, <2>3, <2>4 DEF AllocatedClosed
<1>4. ASSUME NEW h \in ElemWords, NEW t \in ElemWords, NewCell(h, t)
      PROVE  AllocatedClosed'
  <2>1. PICK c \in free : /\ page' = [page EXCEPT ![c] = [hd |-> h, tl |-> t]]
                          /\ free' = free \ {c}
                          /\ ret' = c
    BY <1>4 DEF NewCell
  <2>2. Closed(page', Page \ free')
    BY <2>1, FilledClosed
  <2>3. RootWords' = RootWords
    BY <1>4 DEF NewCell, RootWords
  <2>4. QED
    BY <2>1, <2>2, <2>3 DEF AllocatedClosed
<1>5. ASSUME NEW h \in ElemWords, NEW t \in ElemWords, NewCellCollect(h, t)
      PROVE  AllocatedClosed'
  <2>1. PICK c \in free, words \in StackWords :
          /\ free = {c}
          /\ LET filled == [page EXCEPT ![c] = [hd |-> h, tl |-> t]]
                 live   == Reach(filled, RootWords \cup words \cup {c})
             IN  \/ UNCHANGED <<page, free, ret>>
                 \/ /\ page' = filled
                    /\ free' = {}
                    /\ ret' = UNDEF
                 \/ /\ page' = Sweep(filled, live)
                    /\ free' = Page \ live
                    /\ ret' = c
    BY <1>5, ZenonT(40) DEF NewCellCollect
  <2> DEFINE filled == [page EXCEPT ![c] = [hd |-> h, tl |-> t]]
             kept == RootWords \cup words \cup {c}
             live == Reach(filled, kept)
  <2>2. RootWords' = RootWords
    BY <1>5 DEF NewCellCollect, RootWords
  <2>3. CASE UNCHANGED <<page, free, ret>>
    BY <2>2, <2>3 DEF AllocatedClosed
  <2>4. CASE page' = filled /\ free' = {} /\ ret' = UNDEF
    <3>1. Closed(filled, Page \ {})
      BY <2>1, FilledClosed
    <3>2. QED
      BY <2>4, <3>1 DEF AllocatedClosed
  <2>5. CASE page' = Sweep(filled, live) /\ free' = Page \ live /\ ret' = c
    <3>1. c \in Page
      BY DEF TypeOK
    <3>2. h \in Elem /\ t \in Elem
      BY WordsType
    <3>3. filled \in [Page -> Cell]
      BY <3>1, <3>2, FilledType DEF TypeOK
    <3>4. Closed(page', Page \ free')
      <4> HIDE DEF filled, kept
      <4>1. QED
        BY <2>5, <3>3, SweptClosed
    <3>5. kept \cap Page \subseteq live
      <4> HIDE DEF filled, kept
      <4>1. QED
        BY ReachHoldsWords
    <3>6. (RootWords \cup {c}) \cap (Page \ live) = {}
      BY <3>5
    <3>7. QED
      BY <2>2, <2>5, <3>4, <3>6 DEF AllocatedClosed
  <2>6. QED
    BY <2>1, <2>3, <2>4, <2>5
<1>6. CASE NewCellNoReserve
  BY <1>6 DEF AllocatedClosed, NewCellNoReserve, RootWords
<1>7. CASE Forget
  BY <1>7, PageWords DEF TypeOK, AllocatedClosed, Forget, RootWords
<1>8. CASE Gc
  <2>1. PICK words : LET live == Reach(page, RootWords \cup words)
                     IN  \/ UNCHANGED <<page, free>>
                         \/ page' = Sweep(page, live) /\ free' = Page \ live
    BY <1>8 DEF Gc
  <2> DEFINE kept == RootWords \cup words
             live == Reach(page, kept)
  <2>2. RootWords' = RootWords /\ ret' = UNDEF
    BY <1>8 DEF Gc, RootWords
  <2>3. CASE UNCHANGED <<page, free>>
    BY <2>2, <2>3, PageWords DEF TypeOK, AllocatedClosed
  <2>4. CASE page' = Sweep(page, live) /\ free' = Page \ live
    <3>1. Closed(page', Page \ free')
      BY <2>4, SweptClosed DEF TypeOK
    <3>2. kept \cap Page \subseteq live
      <4> HIDE DEF kept
      <4>1. QED
        BY ReachHoldsWords
    <3>3. (RootWords \cup {UNDEF}) \cap (Page \ live) = {}
      BY <3>2, PageWords
    <3>4. QED
      BY <2>2, <2>4, <3>1, <3>3 DEF AllocatedClosed
  <2>5. QED
    BY <2>1, <2>3, <2>4
<1>9. CASE Recover
  BY <1>9 DEF AllocatedClosed, Recover, RootWords
<1>10. CASE UNCHANGED vars
  BY <1>10 DEF AllocatedClosed, vars, RootWords
<1>11. QED
  BY <1>2, <1>3, <1>4, <1>5, <1>6, <1>7, <1>8, <1>9, <1>10 DEF Next

\* The cells off the free list are closed and hold every root, after every
\* step of every client: the invariant LiveNotFree follows from.
THEOREM AllocatedStaysClosed == Spec => []AllocatedClosed
<1>1. Init => AllocatedClosed
  BY PageWords DEF Init, AllocatedClosed, Closed, RootWords
<1>2. TypeOK /\ AllocatedClosed /\ [Next]_vars => AllocatedClosed'
  BY ClosedStep
<1>3. QED
  BY <1>1, <1>2, TypeCorrect, PTL DEF Spec

\* No cell in use is on the free list, whatever the client does and however
\* large the page: _next() never hands out a cell a root still leads to.
THEOREM LiveIsNotFree == Spec => []LiveNotFree
<1>1. TypeOK /\ AllocatedClosed => LiveNotFree
  BY ClosedKeepsLiveOffFree DEF LiveNotFree
<1>2. QED
  BY <1>1, TypeCorrect, AllocatedStaysClosed, PTL

-----------------------------------------------------------------------------
\* After a sweep the same words reach no more than the sweep kept.
LEMMA SweepReachesLess ==
    ASSUME NEW cells \in [Page -> Cell], NEW words, NEW fewer,
           fewer \subseteq words
    PROVE  LET live == Reach(cells, words)
           IN  Reach(Sweep(cells, live), fewer) \subseteq live
<1> DEFINE live == Reach(cells, words)
           swept == Sweep(cells, live)
<1>1. live \in SUBSET Page /\ words \cap Page \subseteq live
  BY ReachHoldsWords
<1>2. Closed(swept, live)
  <2>1. Closed(swept, Page \ (Page \ live))
    BY SweptClosed
  <2>2. Page \ (Page \ live) = live
    BY <1>1
  <2>3. QED
    BY <2>1, <2>2
<1>3. fewer \cap Page \subseteq live
  BY <1>1
<1> HIDE DEF live, swept
<1>4. Reach(swept, fewer) \subseteq live
  BY <1>1, <1>2, <1>3, ReachLeast
<1>5. QED
  BY <1>4 DEF live, swept

\* Every step keeps the cells that are live before and after it.
LEMMA KeptStep ==
    TypeOK /\ AllocatedClosed /\ [Next]_vars
        => [\A c \in Live \cap Live' : page'[c] = page[c]]_vars
<1>1. SUFFICES ASSUME TypeOK, AllocatedClosed, Next, NEW c \in Live \cap Live'
               PROVE  page'[c] = page[c]
  OBVIOUS
<1> USE <1>1
<1>2. c \in Page \ free
  BY ClosedKeepsLiveOffFree
<1>3. CASE UNCHANGED page
  BY <1>3
<1>4. ASSUME NEW h \in ElemWords, NEW t \in ElemWords, NewCell(h, t)
      PROVE  page'[c] = page[c]
  BY <1>2, <1>4 DEF TypeOK, NewCell
<1>5. ASSUME NEW h \in ElemWords, NEW t \in ElemWords, NewCellCollect(h, t)
      PROVE  page'[c] = page[c]
  <2>1. PICK d \in free, words \in StackWords :
          LET filled == [page EXCEPT ![d] = [hd |-> h, tl |-> t]]
              live   == Reach(filled, RootWords \cup words \cup {d})
          IN  \/ UNCHANGED page
              \/ page' = filled
              \/ page' = Sweep(filled, live) /\ ret' = d
    BY <1>5 DEF NewCellCollect
  <2> DEFINE filled == [page EXCEPT ![d] = [hd |-> h, tl |-> t]]
             kept == RootWords \cup words \cup {d}
             live == Reach(filled, kept)
  <2>2. d \in Page /\ h \in Elem /\ t \in Elem
    BY WordsType DEF TypeOK
  <2>3. filled \in [Page -> Cell] /\ filled[c] = page[c]
    BY <1>2, <2>2, FilledType DEF TypeOK
  <2>4. CASE page' = Sweep(filled, live) /\ ret' = d
    <3>1. (RootWords \cup {ret})' \subseteq kept
      BY <1>5, <2>4 DEF NewCellCollect, RootWords
    <3> HIDE DEF filled, kept
    <3>2. Live' \subseteq live
      BY <2>3, <2>4, <3>1, SweepReachesLess DEF Live
    <3>3. Sweep(filled, live)[c] = filled[c]
      BY <1>2, <3>2 DEF Sweep
    <3>4. QED
      BY <2>3, <2>4, <3>3
  <2>5. QED
    BY <2>1, <2>3, <2>4
<1>6. CASE Gc
  <2>1. PICK words : LET live == Reach(page, RootWords \cup words)
                     IN  UNCHANGED page \/ page' = Sweep(page, live)
    BY <1>6 DEF Gc
  <2> DEFINE kept == RootWords \cup words \cup {UNDEF}
             live == Reach(page, RootWords \cup words)
  <2>2. CASE page' = Sweep(page, live)
    <3>1. live = Reach(page, kept)
      <4>1. kept \cap Page = (RootWords \cup words) \cap Page
        BY PageWords
      <4>2. \A e : e \in live <=> e \in Reach(page, kept)
        BY <4>1, ReachIsLeast
      <4>3. QED
        BY <4>2
    <3>2. (RootWords \cup {ret})' \subseteq kept
      BY <1>6 DEF Gc, RootWords
    <3> HIDE DEF kept, live
    <3>3. Live' \subseteq live
      BY <2>2, <3>1, <3>2, SweepReachesLess DEF Live, TypeOK
    <3>4. QED
      BY <1>2, <2>2, <3>3 DEF Sweep
  <2>3. QED
    BY <2>1, <2>2
<1>7. QED
  BY <1>3, <1>4, <1>5, <1>6
     DEF Next, AddRoot, Assign, DelRoot, ReturnRoot, NewCellNoReserve, Forget, Recover

\* A cell in use before and after a step is never overwritten: neither by
\* new_Cell, which fills a free cell, nor by the sweep of a collection.
THEOREM LiveCellsAreKept == Spec => LiveCellsKept
<1>1. TypeOK /\ AllocatedClosed /\ [Next]_vars
          => [\A c \in Live \cap Live' : page'[c] = page[c]]_vars
  BY KeptStep
<1>2. QED
  BY <1>1, TypeCorrect, AllocatedStaysClosed, PTL DEF Spec, LiveCellsKept

-----------------------------------------------------------------------------
\* The process does not change its kind.
LEMMA SameKind == [Next]_vars => interactive' = interactive
BY DEF Next, vars, AddRoot, Assign, DelRoot, ReturnRoot, NewCell, NewCellCollect,
       NewCellNoReserve, Forget, Gc, Recover

\* A script that still runs was running.
LEMMA ScriptNeverRecovers ==
    [Next]_vars /\ interactive = FALSE /\ status' = "running" => status = "running"
BY DEF Next, vars, AddRoot, Assign, DelRoot, ReturnRoot, NewCell, NewCellCollect,
       NewCellNoReserve, Forget, Gc, Recover

\* A script never meets a stale root: only an OutOfMemory leaves one, and a
\* script ends with it.
NoStaleRoot == ~interactive /\ status = "running" => ~stale

LEMMA ScriptHasNoStaleRoot == Spec => []NoStaleRoot
<1>1. Init => NoStaleRoot
  BY DEF Init, NoStaleRoot
<1>2. TypeOK /\ NoStaleRoot /\ [Next]_vars => NoStaleRoot'
  <2>1. SUFFICES ASSUME TypeOK, NoStaleRoot, [Next]_vars, ~interactive', status' = "running"
                 PROVE  ~stale'
    BY DEF NoStaleRoot
  <2>2. ~interactive /\ status = "running"
    BY <2>1, SameKind, ScriptNeverRecovers DEF TypeOK
  <2>3. ~stale
    BY <2>1, <2>2 DEF NoStaleRoot
  <2>4. ASSUME NEW h \in ElemWords, NEW t \in ElemWords, NewCellCollect(h, t)
        PROVE  stale' = stale \/ stale' = FALSE
    BY <2>1, <2>4 DEF NewCellCollect
  <2>5. stale' = stale \/ stale' = FALSE
    BY <2>1, <2>4 DEF Next, vars, AddRoot, Assign, DelRoot, ReturnRoot, NewCell,
                      NewCellNoReserve, Forget, Gc, Recover
  <2>6. QED
    BY <2>3, <2>5
<1>3. QED
  BY <1>1, <1>2, TypeCorrect, PTL DEF Spec

\* A script's new_Cell always finds a free cell, so the assertion of
\* _next() holds in every program that ends with its first OutOfMemory.
THEOREM ReserveIsKept == Spec => []ReserveKept
<1>1. Init => ReserveKept
  BY PageWords DEF Init, ReserveKept
<1>2. TypeOK /\ ReserveKept /\ [Next]_vars => ReserveKept'
  <2>1. SUFFICES ASSUME TypeOK, ReserveKept, [Next]_vars, ~interactive', status' = "running"
                 PROVE  free' # {}
    BY DEF ReserveKept
  <2>2. ~interactive /\ status = "running"
    BY <2>1, SameKind, ScriptNeverRecovers DEF TypeOK
  <2>3. ASSUME NEW h \in ElemWords, NEW t \in ElemWords, NewCell(h, t)
        PROVE  free' # {}
    BY <2>3 DEF NewCell
  <2>4. ASSUME NEW h \in ElemWords, NEW t \in ElemWords, NewCellCollect(h, t)
        PROVE  free' # {}
    <3>1. PICK live \in SUBSET Page : live # Page /\ free' = Page \ live
      BY <2>1, <2>4, ReachHoldsWords DEF NewCellCollect
    <3>2. QED
      BY <3>1
  <2>5. CASE Gc
    <3>1. PICK live \in SUBSET Page : live # Page /\ free' = Page \ live
      BY <2>1, <2>5, ReachHoldsWords DEF Gc
    <3>2. QED
      BY <3>1
  <2>6. CASE UNCHANGED <<free, status>>
    BY <2>1, <2>2, <2>6 DEF ReserveKept
  <2>7. QED
    BY <2>1, <2>2, <2>3, <2>4, <2>5, <2>6
       DEF Next, vars, AddRoot, Assign, DelRoot, ReturnRoot, NewCellNoReserve, Forget, Recover
<1>3. QED
  BY <1>1, <1>2, TypeCorrect, PTL DEF Spec

\* A script runs out of memory only when what it holds fills the page: the
\* collection before an OutOfMemory leaves no garbage behind.
THEOREM OomIsNotSpurious == Spec => []NoSpuriousOom
<1>1. Init => NoSpuriousOom
  BY DEF Init, NoSpuriousOom
<1>2. TypeOK /\ NoStaleRoot /\ NoSpuriousOom /\ [Next]_vars => NoSpuriousOom'
  <2>1. SUFFICES ASSUME TypeOK, NoStaleRoot, NoSpuriousOom, [Next]_vars,
                        ~interactive', status' = "oom"
                 PROVE  /\ free' = {}
                        /\ \E c \in Page : Reach(page', RootWords' \cup {c}) = Page
    BY DEF NoSpuriousOom
  <2>0. ~interactive
    BY <2>1, SameKind DEF TypeOK
  <2>2. ASSUME NEW h \in ElemWords, NEW t \in ElemWords, NewCellCollect(h, t)
        PROVE  free' = {} /\ \E c \in Page : Reach(page', RootWords' \cup {c}) = Page
    <3>1. StackWords = {{}}
      BY <2>0, <2>1, <2>2 DEF NewCellCollect, StackWords, NoStaleRoot
    <3>2. PICK c \in free :
            /\ page' = [page EXCEPT ![c] = [hd |-> h, tl |-> t]]
            /\ free' = {}
            /\ Reach(page', RootWords \cup {} \cup {c}) = Page
      BY <2>1, <2>2, <3>1 DEF NewCellCollect
    <3>3. RootWords' = RootWords /\ c \in Page
      BY <2>1, <2>2 DEF NewCellCollect, RootWords, TypeOK
    <3>4. RootWords \cup {} \cup {c} = RootWords \cup {c}
      OBVIOUS
    <3>5. QED
      BY <3>2, <3>3, <3>4
  <2>3. CASE Gc
    <3>1. StackWords = {{}}
      BY <2>0, <2>1, <2>3 DEF Gc, StackWords, NoStaleRoot
    <3>2. /\ Reach(page, RootWords \cup {}) = Page
          /\ page' = Sweep(page, Page)
          /\ free' = {}
      BY <2>1, <2>3, <3>1 DEF Gc
    <3>3. page' = page
      BY <2>1, <3>2 DEF TypeOK, Sweep
    <3>4. RootWords' = RootWords
      BY <2>3 DEF Gc, RootWords
    <3>5. PICK c \in Page : TRUE
      BY PageWords
    <3>6. Reach(page, RootWords \cup {}) \subseteq Reach(page, RootWords \cup {c})
      BY ReachMonotone
    <3>7. Reach(page, RootWords \cup {c}) \subseteq Page
      BY ReachHoldsWords
    <3>8. Reach(page, RootWords \cup {c}) = Page
      BY <3>2, <3>6, <3>7
    <3>9. QED
      BY <3>2, <3>3, <3>4, <3>8
  <2>4. CASE UNCHANGED vars
    BY <2>1, <2>4 DEF NoSpuriousOom, vars, RootWords
  <2>5. QED
    BY <2>0, <2>1, <2>2, <2>3, <2>4
       DEF Next, AddRoot, Assign, DelRoot, ReturnRoot, NewCell, NewCellNoReserve, Forget, Recover
<1>3. QED
  BY <1>1, <1>2, TypeCorrect, ScriptHasNoStaleRoot, PTL DEF Spec

-----------------------------------------------------------------------------
\* What _mark computes for any two roots in turn, sharing and cycles of
\* garbage or not, is what they reach: the recursion ends, stops at what it
\* has met before, and misses nothing for that.
THEOREM MarkIsReach == Spec => []MarkComputesReach
<1>1. TypeOK => MarkComputesReach
  <2>1. SUFFICES ASSUME TypeOK, NEW w1 \in Page, NEW w2 \in Page
                 PROVE  MarkFrom(page, MarkFrom(page, {}, w1), w2) = Reach(page, {w1, w2})
    BY DEF MarkComputesReach
  <2>2. page \in [Page -> Cell]
    BY <2>1 DEF TypeOK
  <2>3. MarkFrom(page, {}, w1) = Reach(page, {w1})
    <3>1. MarkFrom(page, {}, w1) = Marked(page, Reach(page, {}), w1)
      BY <2>2, MarkFromMarks, ReachNothing
    <3>2. {} \cup {w1} = {w1}
      OBVIOUS
    <3>3. QED
      BY <3>1, <3>2, MarkedReach
  <2>4. MarkFrom(page, Reach(page, {w1}), w2) = Marked(page, Reach(page, {w1}), w2)
    BY <2>2, MarkFromMarks, ReachHoldsWords
  <2>5. {w1} \cup {w2} = {w1, w2}
    OBVIOUS
  <2>6. QED
    BY <2>3, <2>4, <2>5, MarkedReach
<1>2. QED
  BY <1>1, TypeCorrect, PTL

-----------------------------------------------------------------------------
\* Filling a free cell with words that lead to no free cell makes no cycle.
LEMMA FilledAcyclic ==
    ASSUME TypeOK, AllocatedClosed, NoCycles,
           NEW c \in free, NEW h \in ElemWords, NEW t \in ElemWords
    PROVE  Acyclic([page EXCEPT ![c] = [hd |-> h, tl |-> t]])
<1> DEFINE filled == [page EXCEPT ![c] = [hd |-> h, tl |-> t]]
           used == Page \ free
<1>1. c \in Page /\ page \in [Page -> Cell] /\ free \in SUBSET Page
  BY DEF TypeOK
<1>2. Children(filled, c) \cap free = {}
  BY <1>1, WordsAreNotFree DEF Children
<1>3. \A d \in Page : d # c => Children(filled, d) = Children(page, d)
  BY <1>1 DEF Children
<1>4. Closed(page, used) /\ Acyclic(page)
  BY DEF AllocatedClosed, NoCycles
<1> HIDE DEF filled
<1>5. ASSUME NEW S \in SUBSET Page, S # {}
      PROVE  \E e \in S : Children(filled, e) \cap S = {}
  <2>1. CASE c \notin S
    <3>1. PICK e \in S : Children(page, e) \cap S = {}
      BY <1>4, <1>5 DEF Acyclic
    <3>2. QED
      BY <1>3, <2>1, <3>1
  <2>2. CASE S \subseteq free /\ c \in S
    BY <1>2, <2>2
  <2>3. CASE S \cap used # {}
    <3>1. PICK e \in S \cap used : Children(page, e) \cap (S \cap used) = {}
      BY <1>4, <2>3 DEF Acyclic
    <3>2. Children(page, e) \subseteq used
      BY <1>4 DEF Closed
    <3>3. Children(filled, e) = Children(page, e)
      BY <1>3
    <3>4. QED
      BY <3>1, <3>2, <3>3
  <2>4. QED
    BY <2>1, <2>2, <2>3
<1>6. Acyclic(filled)
  BY <1>5 DEF Acyclic
<1>7. QED
  BY <1>6 DEF filled

\* A sweep makes no cycle: live cells lead to live cells, and the free list
\* it links runs downwards.
LEMMA SweptAcyclic ==
    ASSUME NEW cells \in [Page -> Cell], Acyclic(cells), NEW words
    PROVE  LET live == Reach(cells, words)
           IN  /\ Acyclic(Sweep(cells, live))
               /\ \A c \in Page \ live : \A d \in Children(Sweep(cells, live), c) : d < c
<1> DEFINE live == Reach(cells, words)
           swept == Sweep(cells, live)
<1>1. live \in SUBSET Page /\ Closed(cells, live)
  BY ReachClosed, ReachHoldsWords
<1>2. \A c \in live : Children(swept, c) = Children(cells, c)
  BY <1>1 DEF Sweep, Children
<1>3. ASSUME NEW c \in Page \ live
      PROVE  \A d \in Children(swept, c) : d < c
  <2>1. swept[c] = FreeCell(c, Page \ live)
    BY DEF Sweep
  <2>2. Page \ live \in SUBSET Page
    OBVIOUS
  <2> HIDE DEF swept, live
  <2>3. QED
    BY <2>1, <2>2, FreeCellsLinkDown
<1> HIDE DEF swept, live
<1>4. ASSUME NEW S \in SUBSET Page, S # {}
      PROVE  \E c \in S : Children(swept, c) \cap S = {}
  <2>1. CASE S \cap live = {}
    <3>1. \A c \in S : \A d \in Children(swept, c) : d < c
      BY <1>3, <2>1
    <3>2. QED
      BY <1>4, <3>1, DownwardsIsAcyclic
  <2>2. CASE S \cap live # {}
    <3>1. PICK c \in S \cap live : Children(cells, c) \cap (S \cap live) = {}
      BY <2>2 DEF Acyclic
    <3>2. Children(cells, c) \subseteq live
      BY <1>1 DEF Closed
    <3>3. QED
      BY <1>2, <3>1, <3>2
  <2>3. QED
    BY <2>1, <2>2
<1>5. Acyclic(swept)
  BY <1>4 DEF Acyclic
<1>6. QED
  BY <1>3, <1>5 DEF swept, live

\* Each step keeps it so: what a new cell points to was there before it, and
\* the free list is linked downwards.
LEMMA CyclesStep ==
    ASSUME TypeOK, AllocatedClosed, NoCycles, [Next]_vars
    PROVE  NoCycles'
<1>1. ASSUME NEW h \in ElemWords, NEW t \in ElemWords, NEW c \in free
      PROVE  LET filled == [page EXCEPT ![c] = [hd |-> h, tl |-> t]]
             IN  filled \in [Page -> Cell] /\ Acyclic(filled)
  <2>1. c \in Page /\ h \in Elem /\ t \in Elem /\ free \subseteq Page
    BY WordsType DEF TypeOK
  <2>2. [page EXCEPT ![c] = [hd |-> h, tl |-> t]] \in [Page -> Cell]
    BY <2>1, FilledType DEF TypeOK
  <2>3. QED
    BY <2>2, FilledAcyclic
<1>2. ASSUME NEW h \in ElemWords, NEW t \in ElemWords, NewCell(h, t)
      PROVE  NoCycles'
  <2>1. PICK c \in free : /\ page' = [page EXCEPT ![c] = [hd |-> h, tl |-> t]]
                          /\ free' = free \ {c}
    BY <1>2 DEF NewCell
  <2> DEFINE filled == [page EXCEPT ![c] = [hd |-> h, tl |-> t]]
  <2>2. Acyclic(filled) /\ \A d \in free \ {c} : Children(filled, d) = Children(page, d)
    <3>1. Acyclic(filled)
      BY <1>1
    <3>2. \A d \in free \ {c} : filled[d] = page[d]
      BY DEF TypeOK
    <3> HIDE DEF filled
    <3>3. QED
      BY <3>1, <3>2 DEF Children
  <2>3. page' = filled
    BY <2>1
  <2> HIDE DEF filled
  <2>4. QED
    BY <2>1, <2>2, <2>3 DEF NoCycles
<1>3. ASSUME NEW h \in ElemWords, NEW t \in ElemWords, NewCellCollect(h, t)
      PROVE  NoCycles'
  <2>1. PICK c \in free, words \in StackWords :
          LET filled == [page EXCEPT ![c] = [hd |-> h, tl |-> t]]
              live   == Reach(filled, RootWords \cup words \cup {c})
          IN  \/ UNCHANGED <<page, free>>
              \/ page' = filled /\ free' = {}
              \/ page' = Sweep(filled, live) /\ free' = Page \ live
    BY <1>3 DEF NewCellCollect
  <2> DEFINE filled == [page EXCEPT ![c] = [hd |-> h, tl |-> t]]
             kept == RootWords \cup words \cup {c}
             live == Reach(filled, kept)
  <2>2. filled \in [Page -> Cell] /\ Acyclic(filled)
    BY <1>1
  <2>3. /\ Acyclic(Sweep(filled, live))
        /\ \A e \in Page \ live : \A d \in Children(Sweep(filled, live), e) : d < e
    <3> HIDE DEF filled, kept
    <3>1. QED
      BY <2>2, SweptAcyclic
  <2>4. \/ UNCHANGED <<page, free>>
        \/ page' = filled /\ free' = {}
        \/ page' = Sweep(filled, live) /\ free' = Page \ live
    BY <2>1
  <2> HIDE DEF filled, live
  <2>5. QED
    BY <2>2, <2>3, <2>4 DEF NoCycles
<1>4. CASE Gc
  <2>1. PICK words : LET live == Reach(page, RootWords \cup words)
                     IN  \/ UNCHANGED <<page, free>>
                         \/ page' = Sweep(page, live) /\ free' = Page \ live
    BY <1>4 DEF Gc
  <2> DEFINE kept == RootWords \cup words
             live == Reach(page, kept)
  <2>2. page \in [Page -> Cell] /\ Acyclic(page)
    BY DEF TypeOK, NoCycles
  <2>3. /\ Acyclic(Sweep(page, live))
        /\ \A e \in Page \ live : \A d \in Children(Sweep(page, live), e) : d < e
    <3> HIDE DEF kept
    <3>1. QED
      BY <2>2, SweptAcyclic
  <2>4. QED
    BY <2>1, <2>3 DEF NoCycles
<1>5. CASE UNCHANGED <<page, free>>
  BY <1>5 DEF NoCycles
<1>6. QED
  BY <1>2, <1>3, <1>4, <1>5
     DEF Next, vars, AddRoot, Assign, DelRoot, ReturnRoot, NewCellNoReserve, Forget, Recover

\* No cell ever leads back to itself, so following pointers ends, whatever
\* the client builds: it can only point to what was there before.
THEOREM NothingCycles == Spec => []NoCycles
<1>1. Init => NoCycles
  <2>1. SUFFICES ASSUME Init PROVE NoCycles
    OBVIOUS
  <2>2. \A c \in Page : page[c] = FreeCell(c, Page)
    BY <2>1 DEF Init
  <2>3. \A c \in Page : \A d \in Children(page, c) : d < c
    BY <2>2, FreeCellsLinkDown
  <2>4. Acyclic(page)
    BY <2>3, DownwardsIsAcyclic DEF Acyclic
  <2>5. QED
    BY <2>1, <2>3, <2>4 DEF Init, NoCycles
<1>2. TypeOK /\ AllocatedClosed /\ NoCycles /\ [Next]_vars => NoCycles'
  BY CyclesStep
<1>3. QED
  BY <1>1, <1>2, TypeCorrect, AllocatedStaysClosed, PTL DEF Spec

-----------------------------------------------------------------------------
(***************************************************************************)
(* The refinement of PairStore.  Each step is shown to leave the tree of   *)
(* every word that the client may still use as it was: new_Cell fills a    *)
(* free cell, which nothing in use leads to, and the sweep leaves what is  *)
(* live alone.                                                             *)
(***************************************************************************)

\* Once memory has run out nothing is in the client's hand.
EmptyHanded == status = "oom" => ret = UNDEF

LEMMA OomEmptiesHand == Spec => []EmptyHanded
<1>1. Init => EmptyHanded
  BY DEF Init, EmptyHanded
<1>2. TypeOK /\ EmptyHanded /\ [Next]_vars => EmptyHanded'
  <2>1. SUFFICES ASSUME EmptyHanded, Next, status' = "oom" PROVE ret' = UNDEF
    BY DEF EmptyHanded, vars
  <2>2. ASSUME NEW h \in ElemWords, NEW t \in ElemWords, NewCellCollect(h, t)
        PROVE  ret' = UNDEF
    BY <2>1, <2>2 DEF NewCellCollect
  <2>3. QED
    BY <2>1, <2>2 DEF Next, AddRoot, Assign, DelRoot, ReturnRoot, NewCell,
                      NewCellNoReserve, Forget, Gc, Recover
<1>3. QED
  BY <1>1, <1>2, TypeCorrect, PTL DEF Spec

\* The tree a variable that holds e stands for.
TreeFor(x, e) == IF x \in PcellVar /\ e = Null THEN <<>> ELSE Unfold(page)[e]

Held == [x \in roots |-> TreeIn(x)]

InHand == IF status = "running" THEN Unfold(page)[ret] ELSE <<UNDEF>>

\* PairStore's Parts is a chain of NCells steps.
LEMMA PartsChain ==
    ASSUME NEW trees
    PROVE  \E f : IsPartsChain(trees, f) /\ Store!Parts(trees) = f[NCells]
<1> DEFINE f == CHOOSE f : IsPartsChain(trees, f)
<1>1. IsPartsChain(trees, f)
  BY SomePartsChain
<1>2. Store!Parts(trees) = f[NCells]
  BY DEF Store!Parts, IsPartsChain, WithParts
<1> HIDE DEF f
<1>3. QED
  BY <1>1, <1>2

\* Every word the client may use stands for a tree that PairStore's client
\* may use: for a word that is not a byte, a part of a tree it holds.
LEMMA WordsAreVisible ==
    ASSUME TypeOK, NoCycles, status = "running"
    PROVE  /\ \A e \in ElemWords : Unfold(page)[e] \in Store!Visible \ {Store!NullTree}
           /\ \A x \in Var : \A e \in WordsFor(x) : TreeFor(x, e) \in Store!Visible
<1> DEFINE trees == Range(Held) \cup {InHand}
<1>1. page \in [Page -> Cell] /\ Acyclic(page)
  BY DEF TypeOK, NoCycles
<1>2. Store!Visible = Store!Parts(trees) \cup {<<w>> : w \in ClientBytes \cup {UNDEF}} \cup {<<>>}
  <2>1. Store!UNDEF = UNDEF
    BY DEF Store!UNDEF, UNDEF
  <2>2. {Store!Leaf(w) : w \in ClientBytes \cup {Store!UNDEF}}
            = {<<w>> : w \in ClientBytes \cup {UNDEF}}
    BY <2>1 DEF Store!Leaf
  <2>3. Store!Range([x \in roots |-> TreeIn(x)])
            \cup {IF status = "running" THEN Unfold(page)[ret] ELSE <<UNDEF>>} = trees
    BY DEF Store!Range, Range, Held, InHand
  <2> HIDE DEF trees
  <2>4. QED
    BY <2>2, <2>3 DEF Store!Visible, Store!NullTree
<1>3. \A c \in (RootWords \cup {ret}) \cap Page : Unfold(page)[c] \in trees
  <2>1. ASSUME NEW x \in roots, val[x] \in Page
        PROVE  Unfold(page)[val[x]] \in trees
    <3>1. val[x] # Null
      BY <2>1, PageWords
    <3>2. Held[x] = Unfold(page)[val[x]] /\ x \in DOMAIN Held
      BY <3>1 DEF Held, TreeIn
    <3>3. QED
      BY <3>2 DEF Range
  <2>2. Unfold(page)[ret] \in trees
    BY DEF InHand
  <2> HIDE DEF trees
  <2>3. QED
    BY <2>1, <2>2 DEF RootWords
<1> HIDE DEF trees
<1>4. \A c \in Live : Unfold(page)[c] \in Store!Parts(trees)
  <2>1. PICK f : IsPartsChain(trees, f) /\ Store!Parts(trees) = f[NCells]
    BY PartsChain
  <2>2. QED
    BY <1>1, <1>3, <2>1, ReachedTreesAreParts DEF Live
<1>5. \A b \in ClientBytes \cup {UNDEF} : Unfold(page)[b] = <<b>>
  <2>1. ClientBytes \cap Page = {}
    <3>1. \A b \in Nat : ~ (b < UNDEF /\ UNDEF < b)
      BY DEF UNDEF
    <3>2. QED
      BY <3>1, ByteAssumption, PageWords DEF IsByte, IsPcell
  <2>2. ClientBytes \cup {UNDEF} \subseteq Elem \ Page
    BY <2>1, WordsType, PageWords DEF ElemWords
  <2>3. QED
    BY <1>1, <2>2, UnfoldWords
<1>6. \A e \in ElemWords : Unfold(page)[e] \in Store!Visible
  BY <1>2, <1>4, <1>5 DEF ElemWords
<1>7. \A e \in ElemWords : Unfold(page)[e] # Store!NullTree
  BY <1>1, WordsType, NoTreeIsNull DEF Store!NullTree
<1>8. ASSUME NEW x \in Var, NEW e \in WordsFor(x)
      PROVE  TreeFor(x, e) \in Store!Visible
  <2>1. CASE x \in PcellVar /\ e = Null
    BY <1>2, <2>1 DEF TreeFor
  <2>2. CASE ~ (x \in PcellVar /\ e = Null)
    <3>1. e \in ElemWords
      BY <1>8, <2>2 DEF WordsFor, ElemWords
    <3>2. TreeFor(x, e) = Unfold(page)[e]
      BY <2>2 DEF TreeFor
    <3>3. QED
      BY <1>6, <3>1, <3>2
  <2>3. QED
    BY <2>1, <2>2
<1>9. QED
  BY <1>6, <1>7, <1>8

\* The page with the cell c filled.
Filled(c, h, t) == [page EXCEPT ![c] = [hd |-> h, tl |-> t]]

\* new_Cell changes no tree of a word in use, and its answer is a new pair.
LEMMA FilledTrees ==
    ASSUME TypeOK, AllocatedClosed, NoCycles,
           NEW c \in free, NEW h \in ElemWords, NEW t \in ElemWords
    PROVE  LET filled == Filled(c, h, t)
           IN  /\ filled \in [Page -> Cell] /\ Acyclic(filled)
               /\ \A e \in Elem \ free : Unfold(filled)[e] = Unfold(page)[e]
               /\ Unfold(filled)[c] = <<Unfold(page)[h], Unfold(page)[t]>>
<1> DEFINE filled == Filled(c, h, t)
           used == Page \ free
<1>1. c \in Page /\ free \in SUBSET Page /\ page \in [Page -> Cell]
  BY DEF TypeOK
<1>2. h \in Elem \ free /\ t \in Elem \ free
  BY WordsType, WordsAreNotFree
<1>3. filled \in [Page -> Cell]
  BY <1>1, <1>2, FilledType DEF Filled
<1>4. Acyclic(filled) /\ Acyclic(page)
  BY FilledAcyclic DEF NoCycles, Filled
<1>5. \A d \in used : filled[d] = page[d]
  BY <1>1 DEF Filled
<1>6. filled[c].hd = h /\ filled[c].tl = t
  BY <1>1 DEF Filled
<1>7. used \in SUBSET Page /\ Closed(page, used)
  BY DEF AllocatedClosed
<1> HIDE DEF filled
<1>8. \A e \in used \cup (Elem \ Page) : Unfold(filled)[e] = Unfold(page)[e]
  <2> HIDE DEF used
  <2>1. QED
    BY <1>1, <1>3, <1>4, <1>5, <1>7, SameTrees
<1>9. Elem \ free = used \cup (Elem \ Page)
  BY <1>1, PageWords
<1>10. Unfold(filled)[c] = <<Unfold(filled)[h], Unfold(filled)[t]>>
  BY <1>1, <1>3, <1>4, <1>6, UnfoldWords
<1>11. QED
  BY <1>2, <1>3, <1>4, <1>8, <1>9, <1>10 DEF filled

\* A sweep changes no tree of a word that is live.
LEMMA SweptTrees ==
    ASSUME NEW cells \in [Page -> Cell], Acyclic(cells), NEW words
    PROVE  LET live == Reach(cells, words)
           IN  \A e \in live \cup (Elem \ Page) :
                   Unfold(Sweep(cells, live))[e] = Unfold(cells)[e]
<1> DEFINE live == Reach(cells, words)
           swept == Sweep(cells, live)
<1>1. live \in SUBSET Page /\ Closed(cells, live)
  BY ReachClosed, ReachHoldsWords
<1>2. \A c \in live : swept[c] = cells[c]
  BY <1>1 DEF Sweep
<1>3. swept \in [Page -> Cell] /\ Acyclic(swept)
  BY SweepType, SweptAcyclic
<1> HIDE DEF live, swept
<1>4. \A e \in live \cup (Elem \ Page) : Unfold(swept)[e] = Unfold(cells)[e]
  BY <1>1, <1>2, <1>3, SameTrees
<1>5. QED
  BY <1>4 DEF live, swept

\* Roots that keep their words, whose trees stay as they are, hold what they held.
LEMMA SameHeld ==
    ASSUME UNCHANGED <<val, roots>>,
           \A e \in RootWords : Unfold(page)'[e] = Unfold(page)[e]
    PROVE  Held' = Held
<1>1. \A x \in roots : TreeIn(x)' = TreeIn(x)
  BY DEF TreeIn, RootWords
<1>2. QED
  BY <1>1 DEF Held

\* A variable registered with a word, or given one, is one given its tree.
LEMMA HoldStep ==
    ASSUME TypeOK, NoCycles, NEW x \in Var, NEW e \in WordsFor(x),
           AddRoot(x, e) \/ Assign(x, e)
    PROVE  Store!Next
<1>1. /\ status = "running" /\ status' = "running"
      /\ roots' = roots \cup {x}
      /\ val' = [val EXCEPT ![x] = e]
      /\ page' = page /\ ret' = ret
  BY DEF AddRoot, Assign
<1>2. TreeFor(x, e) \in Store!Visible
  BY <1>1, WordsAreVisible
<1>3. Held' = [y \in roots \cup {x} |-> IF y = x THEN TreeFor(x, e) ELSE Held[y]]
  <2>1. ASSUME NEW y \in roots \cup {x}
        PROVE  TreeIn(y)' = IF y = x THEN TreeFor(x, e) ELSE Held[y]
    <3>1. val'[y] = IF y = x THEN e ELSE val[y]
      BY <1>1, <2>1 DEF TypeOK
    <3>2. QED
      BY <1>1, <2>1, <3>1 DEF TreeIn, TreeFor, Held
  <2>2. QED
    BY <1>1, <2>1 DEF Held
<1>4. Held = [y \in roots |-> TreeIn(y)] /\ DOMAIN Held = roots
  BY DEF Held
<1>5. Store!Hold(x, TreeFor(x, e))
  BY <1>1, <1>3, <1>4 DEF Store!Hold, Store!Keep, Held
<1>6. QED
  BY <1>2, <1>5 DEF Store!Next

\* A variable that ends, its tree given up or handed on.
LEMMA DropStep ==
    ASSUME TypeOK, NoCycles, NEW x \in Var, DelRoot(x) \/ ReturnRoot(x)
    PROVE  Store!Next
<1>1. /\ status = "running" /\ status' = "running"
      /\ x \in roots /\ roots' = roots \ {x}
      /\ val' = [val EXCEPT ![x] = Empty(x)]
      /\ page' = page
  BY DEF DelRoot, ReturnRoot
<1>2. Held' = [y \in roots \ {x} |-> Held[y]]
  <2>1. \A y \in roots \ {x} : TreeIn(y)' = Held[y]
    BY <1>1 DEF TypeOK, TreeIn, Held
  <2>2. QED
    BY <1>1, <2>1 DEF Held
<1>3. Held = [y \in roots |-> TreeIn(y)] /\ DOMAIN Held = roots
  BY DEF Held
<1>4. CASE DelRoot(x)
  <2>1. ret' = ret
    BY <1>4 DEF DelRoot
  <2>2. Store!Release(x)
    BY <1>1, <1>2, <1>3, <2>1 DEF Store!Release, Held
  <2>3. QED
    BY <2>2 DEF Store!Next
<1>5. CASE ReturnRoot(x)
  <2>1. ret' = IF x \in PcellVar /\ val[x] = Null THEN UNDEF ELSE val[x]
    BY <1>5 DEF ReturnRoot
  <2>2. Held[x] = IF x \in PcellVar /\ val[x] = Null THEN <<>> ELSE Unfold(page)[val[x]]
    BY <1>1 DEF Held, TreeIn
  <2>3. Unfold(page)[UNDEF] = <<UNDEF>>
    BY PageWords, UnfoldWords DEF TypeOK, NoCycles
  <2>4. Unfold(page)[val[x]] # <<>>
    <3>1. val[x] \in Elem
      BY DEF TypeOK
    <3>2. QED
      BY <3>1, NoTreeIsNull DEF TypeOK, NoCycles
  <2>5. InHand' = IF Held[x] = <<>> THEN <<UNDEF>> ELSE Held[x]
    BY <1>1, <2>1, <2>2, <2>3, <2>4 DEF InHand
  <2>6. Store!Undefined = <<UNDEF>> /\ Store!NullTree = <<>>
    BY DEF Store!Undefined, Store!Leaf, Store!UNDEF, UNDEF, Store!NullTree
  <2>7. Store!Return(x)
    BY <1>1, <1>2, <1>3, <2>5, <2>6 DEF Store!Return, Held, InHand
  <2>8. QED
    BY <2>7 DEF Store!Next
<1>6. QED
  BY <1>4, <1>5

\* new_Cell, whatever it collects, builds the pair it was asked for.
LEMMA ConsStep ==
    ASSUME TypeOK, NoCycles, status = "running", status' = "running",
           NEW h \in ElemWords, NEW t \in ElemWords,
           Held' = Held, Unfold(page)'[ret'] = <<Unfold(page)[h], Unfold(page)[t]>>
    PROVE  Store!Next
<1>1. /\ Unfold(page)[h] \in Store!Visible \ {Store!NullTree}
      /\ Unfold(page)[t] \in Store!Visible \ {Store!NullTree}
  BY WordsAreVisible
<1>2. Store!Cons(Unfold(page)[h], Unfold(page)[t])
  BY DEF Store!Cons, Held
<1>3. QED
  BY <1>1, <1>2 DEF Store!Next

\* Memory runs out, or the process goes astray: no tree changes.
LEMMA FailStep ==
    ASSUME status' # "running", Held' = Held
    PROVE  Store!Next
<1>1. Store!Undefined = <<UNDEF>>
  BY DEF Store!Undefined, Store!Leaf, Store!UNDEF, UNDEF
<1>2. Store!Fail
  BY <1>1 DEF Store!Fail, Held
<1>3. QED
  BY <1>2 DEF Store!Next

\* Nothing is left in the client's hand, and no tree changes.
LEMMA GiveUpStep ==
    ASSUME TypeOK', NoCycles', status' = status, ret' = UNDEF, Held' = Held
    PROVE  Store!Next
<1>1. Store!Undefined = <<UNDEF>>
  BY DEF Store!Undefined, Store!Leaf, Store!UNDEF, UNDEF
<1>2. Unfold(page)'[UNDEF] = <<UNDEF>>
  BY PageWords, UnfoldWords DEF TypeOK, NoCycles
<1>3. Store!GiveUp
  BY <1>1, <1>2 DEF Store!GiveUp, Held
<1>4. QED
  BY <1>3 DEF Store!Next

\* Every step of the allocator is a step of PairStore, or changes nothing
\* that a client can see.
LEMMA StepsImplement ==
    ASSUME TypeOK, AllocatedClosed, NoCycles, EmptyHanded, TypeOK', NoCycles', [Next]_vars
    PROVE  [Store!Next]_Store!store
<1>1. RootWords \subseteq Elem /\ RootWords \cap free = {}
  BY DEF TypeOK, RootWords, AllocatedClosed
<1>2. ASSUME NEW h \in ElemWords, NEW t \in ElemWords, NewCell(h, t)
      PROVE  Store!Next
  <2>1. PICK c \in free : /\ page' = Filled(c, h, t)
                          /\ ret' = c
    BY <1>2 DEF NewCell, Filled
  <2>2. status = "running" /\ status' = "running" /\ UNCHANGED <<val, roots>>
    BY <1>2 DEF NewCell
  <2> DEFINE filled == Filled(c, h, t)
  <2>3. /\ \A e \in Elem \ free : Unfold(filled)[e] = Unfold(page)[e]
        /\ Unfold(filled)[c] = <<Unfold(page)[h], Unfold(page)[t]>>
    BY FilledTrees
  <2>4. page' = filled
    BY <2>1
  <2> HIDE DEF filled
  <2>5. Unfold(page)' = Unfold(filled)
    BY <2>4
  <2>6. Held' = Held
    BY <1>1, <2>2, <2>3, <2>5, SameHeld
  <2>7. QED
    BY <2>1, <2>2, <2>3, <2>5, <2>6, ConsStep
<1>3. ASSUME NEW h \in ElemWords, NEW t \in ElemWords, NewCellCollect(h, t)
      PROVE  Store!Next
  <2>1. PICK c \in free, words \in StackWords :
          LET filled == Filled(c, h, t)
              live   == Reach(filled, RootWords \cup words \cup {c})
          IN  \/ page' = page /\ status' = "wildRead"
              \/ page' = filled /\ status' = "oom"
              \/ page' = Sweep(filled, live) /\ ret' = c /\ status' = status
    BY <1>3 DEF NewCellCollect, Filled
  <2> DEFINE filled == Filled(c, h, t)
             kept == RootWords \cup words \cup {c}
             live == Reach(filled, kept)
  <2>2. status = "running" /\ UNCHANGED <<val, roots>>
    BY <1>3 DEF NewCellCollect
  <2>3. /\ filled \in [Page -> Cell] /\ Acyclic(filled)
        /\ \A e \in Elem \ free : Unfold(filled)[e] = Unfold(page)[e]
        /\ Unfold(filled)[c] = <<Unfold(page)[h], Unfold(page)[t]>>
    BY FilledTrees
  <2>4. \/ page' = page /\ status' = "wildRead"
        \/ page' = filled /\ status' = "oom"
        \/ page' = Sweep(filled, live) /\ ret' = c /\ status' = status
    BY <2>1
  <2>5. RootWords \subseteq kept /\ c \in kept /\ c \in Page
    BY DEF TypeOK
  <2> HIDE DEF filled, kept
  <2>6. CASE page' = page /\ status' = "wildRead"
    <3>1. Held' = Held
      BY <2>2, <2>6, SameHeld
    <3>2. QED
      BY <2>6, <3>1, FailStep
  <2>7. CASE page' = filled /\ status' = "oom"
    <3>1. Unfold(page)' = Unfold(filled)
      BY <2>7
    <3>2. Held' = Held
      BY <1>1, <2>2, <2>3, <3>1, SameHeld
    <3>3. QED
      BY <2>7, <3>2, FailStep
  <2>8. CASE page' = Sweep(filled, live) /\ ret' = c /\ status' = status
    <3>1. Unfold(page)' = Unfold(Sweep(filled, live))
      BY <2>8
    <3>2. \A e \in live \cup (Elem \ Page) :
              Unfold(Sweep(filled, live))[e] = Unfold(filled)[e]
      BY <2>3, SweptTrees
    <3>3. RootWords \cup {c} \subseteq live \cup (Elem \ Page)
      BY <1>1, <2>5, ReachHoldsWords
    <3> HIDE DEF live
    <3>4. Held' = Held
      BY <1>1, <2>2, <2>3, <3>1, <3>2, <3>3, SameHeld
    <3>5. Unfold(page)'[ret'] = <<Unfold(page)[h], Unfold(page)[t]>>
      BY <2>3, <2>8, <3>1, <3>2, <3>3
    <3>6. QED
      BY <2>2, <2>8, <3>4, <3>5, ConsStep
  <2>9. QED
    BY <2>4, <2>6, <2>7, <2>8
<1>4. CASE NewCellNoReserve
  <2>1. status' = "noReserve" /\ UNCHANGED <<page, val, roots>>
    BY <1>4 DEF NewCellNoReserve
  <2>2. Held' = Held
    BY <2>1, SameHeld
  <2>3. QED
    BY <2>1, <2>2, FailStep
<1>5. CASE Forget
  <2>1. status' = status /\ ret' = UNDEF /\ UNCHANGED <<page, val, roots>>
    BY <1>5 DEF Forget
  <2>2. Held' = Held
    BY <2>1, SameHeld
  <2>3. QED
    BY <2>1, <2>2, GiveUpStep
<1>6. CASE Gc
  <2>1. PICK words : LET live == Reach(page, RootWords \cup words)
                     IN  \/ page' = page /\ status' = "wildRead"
                         \/ page' = Sweep(page, live) /\ status' \in {"oom", status}
    BY <1>6 DEF Gc
  <2> DEFINE kept == RootWords \cup words
             live == Reach(page, kept)
  <2>2. ret' = UNDEF /\ UNCHANGED <<val, roots>>
    BY <1>6 DEF Gc
  <2>3. page \in [Page -> Cell] /\ Acyclic(page)
    BY DEF TypeOK, NoCycles
  <2>4. RootWords \subseteq kept
    OBVIOUS
  <2>5. \/ page' = page /\ status' = "wildRead"
        \/ page' = Sweep(page, live) /\ status' \in {"oom", status}
    BY <2>1
  <2> HIDE DEF kept
  <2>6. Held' = Held
    <3>1. CASE page' = page
      BY <2>2, <3>1, SameHeld
    <3>2. CASE page' = Sweep(page, live)
      <4>1. Unfold(page)' = Unfold(Sweep(page, live))
        BY <3>2
      <4>2. \A e \in live \cup (Elem \ Page) :
                Unfold(Sweep(page, live))[e] = Unfold(page)[e]
        BY <2>3, SweptTrees
      <4>3. RootWords \subseteq live \cup (Elem \ Page)
        BY <1>1, <2>4, ReachHoldsWords
      <4> HIDE DEF live
      <4>4. QED
        BY <2>2, <4>1, <4>2, <4>3, SameHeld
    <3>3. QED
      BY <2>5, <3>1, <3>2
  <2>7. status' = "wildRead" \/ status' = "oom" \/ status' = status
    BY <2>5
  <2>8. QED
    BY <2>2, <2>6, <2>7, FailStep, GiveUpStep
<1>7. CASE Recover
  <2>1. /\ status = "oom" /\ status' = "running" /\ ret = UNDEF
        /\ UNCHANGED <<page, val, roots, ret>>
    BY <1>7 DEF Recover, EmptyHanded
  <2>2. Held' = Held
    BY <2>1, SameHeld
  <2>3. Unfold(page)[UNDEF] = <<UNDEF>>
    BY PageWords, UnfoldWords DEF TypeOK, NoCycles
  <2>4. Store!Recover
    BY <2>1, <2>2, <2>3 DEF Store!Recover, Held
  <2>5. QED
    BY <2>4 DEF Store!Next
<1>8. CASE UNCHANGED vars
  <2>1. UNCHANGED <<page, val, roots, ret, status>>
    BY <1>8 DEF vars
  <2>2. Held' = Held
    BY <2>1, SameHeld
  <2>3. UNCHANGED Store!store
    BY <2>1, <2>2 DEF Store!store, Held
  <2>4. QED
    BY <2>3
<1>9. QED
  BY <1>2, <1>3, <1>4, <1>5, <1>6, <1>7, <1>8, HoldStep, DropStep DEF Next

\* SimpleAllocator keeps PairStore's promise for every page size, every set
\* of variables and every client: cells are filled, collected and reused
\* without a registered variable's tree ever changing.
THEOREM StoreImplemented == Spec => Implements
<1>1. Init /\ TypeOK /\ NoCycles => Store!Init
  <2>1. SUFFICES ASSUME Init, TypeOK, NoCycles PROVE Store!Init
    OBVIOUS
  <2>2. roots = {} /\ ret = UNDEF /\ status = "running"
    BY <2>1 DEF Init
  <2>3. [x \in roots |-> TreeIn(x)] = <<>>
    BY <2>2
  <2>4. Unfold(page)[UNDEF] = <<UNDEF>>
    BY <2>1, PageWords, UnfoldWords DEF TypeOK, NoCycles
  <2>5. QED
    BY <2>2, <2>3, <2>4 DEF Store!Init, Store!Undefined, Store!Leaf, Store!UNDEF, UNDEF
<1>2. TypeOK /\ AllocatedClosed /\ NoCycles /\ EmptyHanded /\ TypeOK' /\ NoCycles' /\ [Next]_vars
          => [Store!Next]_Store!store
  BY StepsImplement
<1>3. QED
  BY <1>1, <1>2, TypeCorrect, AllocatedStaysClosed, NothingCycles, OomEmptiesHand, PTL
     DEF Spec, Implements, Store!Spec
-----------------------------------------------------------------------------
\* What new_Cell leaves its caller: the new cell as it asked for, in hand, and
\* every cell that the roots or the new cell lead to, unchanged and live.
LEMMA NewCellKeeps ==
    ASSUME TypeOK, AllocatedClosed, status' = "running",
           NEW h \in ElemWords, NEW t \in ElemWords, NewCell(h, t) \/ NewCellCollect(h, t)
    PROVE  /\ ret' \in Page
           /\ page'[ret'] = [hd |-> h, tl |-> t]
           /\ \A c \in Reach(page, RootWords \cup {h, t}) :
                  c \in Live' /\ page'[c] = page[c]
<1> DEFINE R == Reach(page, RootWords \cup {h, t})
<1>1. page \in [Page -> Cell] /\ free \subseteq Page /\ roots' = roots /\ val' = val
  BY DEF TypeOK, NewCell, NewCellCollect
<1>2. RootWords' = RootWords
  BY <1>1 DEF RootWords
<1>3. R \subseteq Page \ free
  <2>1. (RootWords \cup {h, t}) \cap Page \subseteq Page \ free
    BY <1>1, WordsAreNotFree DEF AllocatedClosed
  <2>2. QED
    BY <2>1, ReachLeast DEF AllocatedClosed
<1>4. R \in SUBSET Page /\ Closed(page, R) /\ (RootWords \cup {h, t}) \cap Page \subseteq R
  BY ReachClosed, ReachHoldsWords
<1> HIDE DEF R
\* A closed set that has the new cell and the roots has all of R.
<1>5. ASSUME NEW after \in [Page -> Cell], NEW S \in SUBSET Page, NEW c \in S,
             Closed(after, S), RootWords \cap Page \subseteq S,
             after[c] = [hd |-> h, tl |-> t], \A d \in R : after[d] = page[d]
      PROVE  R \subseteq S
  <2>1. {h, t} \cap Page \subseteq S
    <3>1. {h, t} \cap Page \subseteq Children(after, c)
      BY <1>5 DEF Children
    <3>2. QED
      BY <1>5, <3>1 DEF Closed
  <2>2. Closed(page, R \cap S)
    <3>1. \A d \in R : Children(after, d) = Children(page, d)
      BY <1>5 DEF Children
    <3>2. QED
      BY <1>4, <1>5, <3>1 DEF Closed
  <2>3. (RootWords \cup {h, t}) \cap Page \subseteq R \cap S
    BY <1>4, <1>5, <2>1
  <2>4. QED
    BY <1>4, <2>2, <2>3, ReachLeast DEF R
<1>6. PICK c \in free :
        /\ ret' = c
        /\ LET filled == [page EXCEPT ![c] = [hd |-> h, tl |-> t]]
           IN  \/ page' = filled
              \/ \E words : page' = Sweep(filled, Reach(filled, RootWords \cup words \cup {c}))
  <2>1. CASE NewCell(h, t)
    BY <2>1 DEF NewCell
  <2>2. CASE NewCellCollect(h, t)
    <3>1. PICK c \in free, words \in StackWords :
            LET filled == [page EXCEPT ![c] = [hd |-> h, tl |-> t]]
            IN  /\ ret' = c
                /\ page' = Sweep(filled, Reach(filled, RootWords \cup words \cup {c}))
      BY <2>2 DEF NewCellCollect
    <3>2. QED
      BY <3>1
  <2>3. QED
    BY <2>1, <2>2
<1> DEFINE filled == [page EXCEPT ![c] = [hd |-> h, tl |-> t]]
<1>7. h \in Elem /\ t \in Elem /\ c \in Page /\ c \notin R
  BY <1>1, <1>3, WordsType
<1>8. /\ filled \in [Page -> Cell]
      /\ filled[c] = [hd |-> h, tl |-> t]
      /\ \A d \in R : filled[d] = page[d]
  BY <1>1, <1>4, <1>7, FilledType
<1> HIDE DEF filled
<1>9. page' \in [Page -> Cell] /\ page'[c] = filled[c] /\ \A d \in R : page'[d] = filled[d]
  <2>1. CASE page' = filled
    BY <1>8, <2>1
  <2>2. ASSUME NEW words,
               page' = Sweep(filled, Reach(filled, RootWords \cup words \cup {c}))
        PROVE  page' \in [Page -> Cell] /\ page'[c] = filled[c]
                   /\ \A d \in R : page'[d] = filled[d]
    <3> DEFINE live == Reach(filled, RootWords \cup words \cup {c})
    <3>1. live \in SUBSET Page /\ Closed(filled, live)
             /\ (RootWords \cup words \cup {c}) \cap Page \subseteq live
      BY ReachClosed, ReachHoldsWords
    <3>2. page' = Sweep(filled, live)
      BY <2>2
    <3> HIDE DEF live
    <3>3. c \in live /\ RootWords \cap Page \subseteq live
      BY <1>7, <3>1
    <3>4. R \subseteq live
      BY <1>5, <1>8, <3>1, <3>3
    <3>5. \A d \in live : page'[d] = filled[d]
      BY <3>1, <3>2 DEF Sweep
    <3>6. QED
      BY <1>8, <3>2, <3>3, <3>4, <3>5, SweepType
  <2>3. QED
    BY <1>6, <2>1, <2>2 DEF filled
<1>10. R \subseteq Live'
  <2>1. Live' \in SUBSET Page /\ Closed(page', Live')
           /\ (RootWords \cup {c}) \cap Page \subseteq Live'
    BY <1>2, <1>6, ReachClosed, ReachHoldsWords DEF Live
  <2> DEFINE S == Live'
  <2>2. S \in SUBSET Page /\ Closed(page', S) /\ c \in S /\ RootWords \cap Page \subseteq S
    BY <1>7, <2>1
  <2> HIDE DEF S
  <2>3. \A d \in R : page'[d] = page[d]
    BY <1>8, <1>9
  <2>4. R \subseteq S
    BY <1>5, <1>8, <1>9, <2>2, <2>3
  <2>5. QED
    BY <2>4 DEF S
<1>11. QED
  BY <1>6, <1>7, <1>8, <1>9, <1>10 DEF R
=============================================================================
