------------------------ MODULE TestAllocatorProofs -------------------------
(***************************************************************************)
(* TestAllocator, for every heap, every limit and every set of client      *)
(* variables.                                                              *)
(*                                                                         *)
(* The argument: whatever an allocated cell, a root or the last answer     *)
(* points to is allocated, so _shift finds it in old_to_new.  The move is  *)
(* one to one, so it keeps that and the number of cells; a collection      *)
(* keeps a part of them that marking closed.                               *)
(***************************************************************************)
EXTENDS TestAllocatorRefinement, CellsProofs

-----------------------------------------------------------------------------
\* The words a client may use are words.
LEMMA WordsType ==
    /\ Live \subseteq Page
    /\ ElemWords \subseteq Elem
    /\ \A x \in Var : WordsFor(x) \subseteq Elem /\ Empty(x) \in Elem
<1>1. Live \subseteq Page
  BY ReachHoldsWords DEF Live
<1>2. ClientBytes \subseteq Elem
  <2>1. ASSUME NEW b \in Nat, b < UNDEF
        PROVE  b \in 0 .. (UNDEF + NCells)
    BY <2>1, NCellsAssumption DEF UNDEF
  <2>2. QED
    BY <2>1, ByteAssumption DEF Elem, IsByte
<1>3. ElemWords \subseteq Elem
  BY <1>1, <1>2, PageWords DEF ElemWords
<1>4. QED
  BY <1>1, <1>3, PageWords DEF WordsFor, Empty

-----------------------------------------------------------------------------
\* While the heap has room there is a cell for new_Cell to take, and every
\* cell can be given a new place of its own.
LEMMA RoomToShift ==
    ASSUME allocated \subseteq Page, HeapRoom
    PROVE  /\ Fresh(allocated) \in Page \ allocated
           /\ LET old == allocated \cup {Fresh(allocated)}
              IN  /\ FreshMap(old) \in Injection(old, Page \ old)
                  /\ Cardinality(old) = Cardinality(allocated) + 1
<1> DEFINE n == Cardinality(allocated)
           c == Fresh(allocated)
           old == allocated \cup {c}
           unused == Page \ old
<1>1. n \in Nat /\ 2 * (n + 1) <= NCells /\ NCells \in Nat
  BY PageFinite, NCellsAssumption DEF HeapRoom
<1>2. c \in Page \ allocated
  <2>1. allocated # Page
    <3>1. n # NCells
      BY <1>1
    <3>2. QED
      BY <3>1, PageFinite
  <2>2. \E d : d \in Page \ allocated
    BY <2>1
  <2>3. QED
    BY <2>2 DEF Fresh
<1>3. IsFiniteSet(old) /\ Cardinality(old) = n + 1
  BY <1>2, PageFinite, FS_AddElement
<1>4. IsFiniteSet(unused) /\ Cardinality(unused) = NCells - (n + 1)
  <2>1. Page \cap old = old
    BY <1>2
  <2> HIDE DEF n, old
  <2>2. Cardinality(unused) = Cardinality(Page) - Cardinality(Page \cap old)
    BY PageFinite, FS_Difference
  <2>3. QED
    BY <1>3, <2>1, <2>2, PageFinite
<1>5. ExistsInjection(old, 1 .. (n + 1))
  <2>1. ExistsBijection(old, 1 .. (n + 1))
    BY <1>3, FS_CardinalityType, Fun_ExistsBijSymmetric
  <2>2. QED
    BY <2>1, Fun_ExistsBijEquiv
<1>6. ExistsInjection(1 .. (n + 1), 1 .. (NCells - (n + 1)))
  <2> DEFINE m == NCells - (n + 1)
             f == [i \in 1 .. (n + 1) |-> i]
  <2>1. f \in [1 .. (n + 1) -> 1 .. m]
    BY <1>1
  <2>2. f \in Injection(1 .. (n + 1), 1 .. m)
    BY <2>1, Fun_IsInj
  <2>3. QED
    BY <2>2 DEF ExistsInjection
<1>7. ExistsInjection(1 .. (NCells - (n + 1)), unused)
  <2>1. ExistsBijection(1 .. (NCells - (n + 1)), unused)
    BY <1>4, FS_CardinalityType
  <2>2. QED
    BY <2>1, Fun_ExistsBijEquiv
<1>8. Injection(old, unused) # {}
  BY <1>5, <1>6, <1>7, Fun_ExistsInjTransitive DEF ExistsInjection
<1>9. FreshMap(old) \in Injection(old, unused)
  BY <1>8 DEF FreshMap
<1>10. QED
  BY <1>2, <1>3, <1>9

\* What a move does to a word: the address of a cell that moved becomes the
\* address of its new place, and no other word becomes an address.
LEMMA MovedWord ==
    ASSUME NEW old \in SUBSET Page, NEW m \in Injection(old, Page \ old)
    PROVE  /\ \A p \in old : Moved(m, p) = m[p] /\ MovedElem(m, p) = m[p]
                             /\ m[p] \in Page
           /\ \A e \in Elem : /\ MovedElem(m, e) \in Elem
                              /\ Moved(m, e) \in Elem
                              /\ e \notin Page => MovedElem(m, e) = e
                              /\ e \notin old => Moved(m, e) = Null
<1>1. m \in [old -> Page \ old] /\ DOMAIN m = old
  BY Fun_InjectionProperties
<1>2. old \subseteq Elem /\ \A p \in old : IsPcell(p)
  BY PageWords
<1>3. \A p \in old : Moved(m, p) = m[p] /\ MovedElem(m, p) = m[p] /\ m[p] \in Page
  BY <1>1, <1>2 DEF Moved, MovedElem
<1>4. ASSUME NEW e \in Elem
      PROVE  /\ MovedElem(m, e) \in Elem
             /\ Moved(m, e) \in Elem
             /\ e \notin Page => MovedElem(m, e) = e
             /\ e \notin old => Moved(m, e) = Null
  <2>1. Moved(m, e) \in Elem
    BY <1>1, PageWords DEF Moved
  <2>2. e \notin Page => MovedElem(m, e) = e
    BY PcellIsPage DEF MovedElem
  <2>3. QED
    BY <1>1, <2>1, <2>2 DEF Moved, MovedElem
<1>5. QED
  BY <1>3, <1>4

\* Every cell is copied to its new place with its words rewritten, and what
\* is left of the page is deleted.
LEMMA ShiftedCells ==
    ASSUME NEW cells \in [Page -> Cell],
           NEW old \in SUBSET Page, NEW m \in Injection(old, Page \ old)
    PROVE  /\ Shifted(cells, m) \in [Page -> Cell]
           /\ \A p \in old : Shifted(cells, m)[m[p]]
                                = [hd |-> MovedElem(m, cells[p].hd),
                                   tl |-> MovedElem(m, cells[p].tl)]
<1>1. /\ m \in [old -> Page \ old]
      /\ DOMAIN m = old
      /\ \A p, q \in old : m[p] = m[q] => p = q
  BY Fun_InjectionProperties
<1>2. ASSUME NEW p \in old
      PROVE  Shifted(cells, m)[m[p]] = [hd |-> MovedElem(m, cells[p].hd),
                                        tl |-> MovedElem(m, cells[p].tl)]
  <2>1. m[p] \in Page
    BY <1>1
  <2>2. (CHOOSE q \in DOMAIN m : m[q] = m[p]) = p
    BY <1>1
  <2>3. QED
    BY <1>1, <2>1, <2>2 DEF Shifted
<1>3. ASSUME NEW c \in Page
      PROVE  Shifted(cells, m)[c] \in Cell
  <2>1. CASE \E p \in old : m[p] = c
    <3>1. PICK p \in old : m[p] = c
      BY <2>1
    <3>2. cells[p].hd \in Elem /\ cells[p].tl \in Elem
      BY DEF Cell
    <3>3. MovedElem(m, cells[p].hd) \in Elem /\ MovedElem(m, cells[p].tl) \in Elem
      BY <3>2, MovedWord
    <3>4. Shifted(cells, m)[c] = [hd |-> MovedElem(m, cells[p].hd),
                                  tl |-> MovedElem(m, cells[p].tl)]
      BY <1>2, <3>1
    <3>5. QED
      BY <3>3, <3>4 DEF Cell
  <2>2. CASE ~ \E p \in old : m[p] = c
    BY <1>1, <2>2, PageWords DEF Shifted, Deleted, Cell
  <2>3. QED
    BY <2>1, <2>2
<1>4. Shifted(cells, m) = [c \in Page |-> Shifted(cells, m)[c]]
  BY DEF Shifted
<1>5. QED
  BY <1>2, <1>3, <1>4

\* The move is one to one: as many cells after it as before.
LEMMA ShiftKeepsCount ==
    ASSUME NEW old \in SUBSET Page, NEW m \in Injection(old, Page \ old)
    PROVE  /\ Range(m) = {m[p] : p \in old}
           /\ Range(m) \subseteq Page
           /\ Cardinality(Range(m)) = Cardinality(old)
<1>1. m \in [old -> Page \ old] /\ DOMAIN m = old
  BY Fun_InjectionProperties
<1>2. m \in Bijection(old, Range(m))
  BY Fun_InjMeansBijImage
<1>3. Cardinality(Range(m)) = Cardinality(old)
  BY <1>2, PageFinite, FS_Bijection DEF ExistsBijection
<1>4. QED
  BY <1>1, <1>3 DEF Range

\* The registered variables hold words after the move.
LEMMA MovedRootsType ==
    ASSUME val \in [Var -> Elem],
           NEW old \in SUBSET Page, NEW m \in Injection(old, Page \ old)
    PROVE  MovedRoots(m) \in [Var -> Elem]
<1>1. \A x \in Var : Moved(m, val[x]) \in Elem /\ MovedElem(m, val[x]) \in Elem
  BY MovedWord
<1>2. QED
  BY <1>1 DEF MovedRoots

\* A sweep of a page of cells is a page of cells.
LEMMA SweepType ==
    ASSUME NEW cells \in [Page -> Cell], NEW live
    PROVE  Sweep(cells, live) \in [Page -> Cell]
BY PageWords DEF Sweep, Deleted, Cell

\* Filling a cell of the page leaves a page of cells.
LEMMA FilledType ==
    ASSUME NEW cells \in [Page -> Cell], NEW c \in Page,
           NEW h \in Elem, NEW t \in Elem
    PROVE  [cells EXCEPT ![c] = [hd |-> h, tl |-> t]] \in [Page -> Cell]
BY DEF Cell

-----------------------------------------------------------------------------
\* What new_Cell does when it takes the cell c, _shift moves by m and the dead
\* slots that gc marks from hold the addresses of these moved cells.
MovedPage(h, t, c, m) == Shifted([page EXCEPT ![c] = [hd |-> h, tl |-> t]], m)

MovedLive(h, t, c, m, dead) ==
    Reach(MovedPage(h, t, c, m),
          {MovedRoots(m)[x] : x \in roots} \cup {m[c]} \cup dead)

Full(h, t, c, m, dead) ==
    Cardinality(Range(m)) = NMax /\ Cardinality(MovedLive(h, t, c, m, dead)) = NMax

Kept(h, t, c, m, dead) ==
    IF Cardinality(Range(m)) = NMax THEN MovedLive(h, t, c, m, dead) ELSE Range(m)

Moves(h, t, c, m, dead) ==
    /\ dead \subseteq Range(m)
    /\ c \in Page \ allocated
    /\ m \in Injection(allocated \cup {c}, Page \ (allocated \cup {c}))
    /\ Cardinality(Range(m)) = Cardinality(allocated) + 1
    /\ page' = Sweep(MovedPage(h, t, c, m), Kept(h, t, c, m, dead))
    /\ allocated' = Kept(h, t, c, m, dead)
    /\ val' = MovedRoots(m)
    /\ ret' = IF Full(h, t, c, m, dead) THEN UNDEF ELSE m[c]
    /\ status' = IF Full(h, t, c, m, dead) THEN "oom" ELSE "running"
    /\ stale' \in BOOLEAN
    /\ UNCHANGED <<roots, interactive>>

\* Whatever cell and whatever places the heap hands out, new_Cell does that.
LEMMA NewCellMoves ==
    ASSUME TypeOK, NEW h, NEW t, NewCell(h, t)
    PROVE  \E c, m, dead : Moves(h, t, c, m, dead)
<1> DEFINE c == Fresh(allocated)
           old == allocated \cup {c}
           m == FreshMap(old)
<1>1. HeapRoom /\ allocated \subseteq Page /\ stale \in BOOLEAN
  BY DEF NewCell, TypeOK
<1>2. /\ c \in Page \ allocated
      /\ m \in Injection(old, Page \ old)
      /\ Cardinality(old) = Cardinality(allocated) + 1
  BY <1>1, RoomToShift
<1>3. Cardinality(Range(m)) = Cardinality(allocated) + 1
  <2> HIDE DEF c, m
  <2>1. old \in SUBSET Page
    BY <1>1, <1>2
  <2>2. QED
    BY <1>2, <2>1, ShiftKeepsCount
<1>4. PICK dead \in SUBSET Range(m) :
         /\ page' = Sweep(MovedPage(h, t, c, m), Kept(h, t, c, m, dead))
         /\ allocated' = Kept(h, t, c, m, dead)
         /\ val' = MovedRoots(m)
         /\ ret' = IF Full(h, t, c, m, dead) THEN UNDEF ELSE m[c]
         /\ status' = IF Full(h, t, c, m, dead) THEN "oom" ELSE "running"
         /\ stale' \in IF Full(h, t, c, m, dead) THEN {TRUE} ELSE {stale, FALSE}
         /\ UNCHANGED <<roots, interactive>>
  <2>1. \A cells : StackWords(cells) \cup {{}} \subseteq SUBSET cells
    BY DEF StackWords
  <2>2. QED
    BY <2>1 DEF NewCell, CollectionDue, MovedPage, MovedLive, Full, Kept
<1>5. stale' \in BOOLEAN
  BY <1>1, <1>4
<1> HIDE DEF c, m
<1>6. QED
  BY <1>2, <1>3, <1>4, <1>5 DEF Moves

\* Every variable of the allocator keeps its type: in particular no move
\* makes an address that lies outside the heap.
THEOREM TypeCorrect == Spec => []TypeOK
<1>1. Init => TypeOK
  <2>1. SUFFICES ASSUME Init PROVE TypeOK
    OBVIOUS
  <2>2. Deleted \in Cell
    BY PageWords DEF Deleted, Cell
  <2>3. val \in [Var -> Elem]
    BY <2>1, WordsType DEF Init
  <2>4. QED
    BY <2>1, <2>2, <2>3, PageWords DEF Init, TypeOK
<1>2. TypeOK /\ [Next]_vars => TypeOK'
  <2>1. SUFFICES ASSUME TypeOK, [Next]_vars PROVE TypeOK'
    OBVIOUS
  <2>2. ASSUME NEW x \in Var, NEW e \in WordsFor(x), AddRoot(x, e) \/ Assign(x, e)
        PROVE  TypeOK'
    BY <2>1, <2>2, WordsType DEF TypeOK, AddRoot, Assign
  <2>3. ASSUME NEW x \in Var, DelRoot(x) \/ ReturnRoot(x)
        PROVE  TypeOK'
    <3>1. ret' \in Elem
      BY <2>1, <2>3, PageWords DEF TypeOK, DelRoot, ReturnRoot
    <3>2. QED
      BY <2>1, <2>3, <3>1, WordsType DEF TypeOK, DelRoot, ReturnRoot
  <2>4. ASSUME NEW h \in ElemWords, NEW t \in ElemWords, NewCell(h, t)
        PROVE  TypeOK'
    <3>1. h \in Elem /\ t \in Elem
      BY WordsType
    <3>2. PICK c, m, dead : Moves(h, t, c, m, dead)
      BY <2>1, <2>4, NewCellMoves
    <3> DEFINE old == allocated \cup {c}
               shifted == MovedPage(h, t, c, m)
    <3>3. old \in SUBSET Page /\ c \in old /\ m \in Injection(old, Page \ old)
      BY <2>1, <3>2 DEF TypeOK, Moves
    <3>4. shifted \in [Page -> Cell]
      <4>1. [page EXCEPT ![c] = [hd |-> h, tl |-> t]] \in [Page -> Cell]
        BY <2>1, <3>1, <3>2, FilledType DEF TypeOK, Moves
      <4> HIDE DEF old
      <4>2. QED
        BY <3>3, <4>1, ShiftedCells DEF MovedPage
    <3> HIDE DEF old
    <3>5. page' \in [Page -> Cell]
      <4> HIDE DEF shifted
      <4>1. \A kept : Sweep(shifted, kept) \in [Page -> Cell]
        BY <3>4, SweepType
      <4>2. QED
        BY <3>2, <4>1 DEF shifted, Moves
    <3>6. allocated' \subseteq Page
      BY <3>2, <3>3, ShiftKeepsCount, ReachHoldsWords DEF Moves, Kept, MovedLive
    <3>7. val' \in [Var -> Elem]
      BY <2>1, <3>2, <3>3, MovedRootsType DEF TypeOK, Moves
    <3>8. ret' \in Elem
      BY <3>2, <3>3, MovedWord, PageWords DEF Moves
    <3>9. QED
      BY <2>1, <3>2, <3>5, <3>6, <3>7, <3>8 DEF TypeOK, Moves
  <2>5. CASE UseStaleRoot
    BY <2>1, <2>5 DEF TypeOK, UseStaleRoot
  <2>6. CASE Forget
    BY <2>1, <2>6, PageWords DEF TypeOK, Forget
  <2>7. CASE Gc
    <3>1. \A live : Sweep(page, live) \in [Page -> Cell]
      BY <2>1, SweepType DEF TypeOK
    <3>2. QED
      BY <2>1, <2>7, <3>1, PageWords, ReachHoldsWords DEF TypeOK, Gc
  <2>8. CASE Recover
    BY <2>1, <2>8 DEF TypeOK, Recover
  <2>9. CASE UNCHANGED vars
    BY <2>1, <2>9 DEF TypeOK, vars
  <2>10. QED
    BY <2>1, <2>2, <2>3, <2>4, <2>5, <2>6, <2>7, <2>8, <2>9 DEF Next
<1>3. QED
  BY <1>1, <1>2, PTL DEF Spec

-----------------------------------------------------------------------------
\* Every word of S that is an address is the address of a cell in T.
PointsInto(S, T) == \A e \in S : IsPcell(e) => e \in T

\* NoDanglingAddress, taken apart.
LEMMA NoDanglingParts ==
    NoDanglingAddress <=>
        /\ PointsInto(RootWords \cup {ret}, allocated)
        /\ \A c \in allocated : PointsInto({page[c].hd, page[c].tl}, allocated)
BY DEF NoDanglingAddress, Addresses, PointsInto

\* Nothing a client can name is deleted: marking stays inside the allocated
\* cells.
LEMMA LiveIsAllocated ==
    ASSUME TypeOK, NoDanglingAddress
    PROVE  /\ Closed(page, allocated)
           /\ Live \subseteq allocated
           /\ \A dead \in SUBSET allocated :
                  Reach(page, RootWords \cup dead) \subseteq allocated
           /\ PointsInto(ElemWords, allocated)
           /\ \A x \in Var : PointsInto(WordsFor(x) \cup {Empty(x)}, allocated)
<1>1. /\ PointsInto(RootWords \cup {ret}, allocated)
      /\ \A c \in allocated : PointsInto({page[c].hd, page[c].tl}, allocated)
  BY NoDanglingParts
<1>2. allocated \in SUBSET Page
  BY DEF TypeOK
<1>3. Closed(page, allocated)
  BY <1>1, PageWords DEF Closed, Children, PointsInto
<1>4. (RootWords \cup {ret}) \cap Page \subseteq allocated
  BY <1>1, PageWords DEF PointsInto
<1>5. /\ Live \subseteq allocated
      /\ \A dead \in SUBSET allocated : Reach(page, RootWords \cup dead) \subseteq allocated
  <2>1. Live \subseteq allocated
    BY <1>2, <1>3, <1>4, ReachLeast DEF Live
  <2>2. \A dead \in SUBSET allocated : (RootWords \cup dead) \cap Page \subseteq allocated
    BY <1>4
  <2>3. QED
    BY <1>2, <1>3, <2>1, <2>2, ReachLeast
<1>6. \A e \in ClientBytes \cup {UNDEF, Null} : ~ IsPcell(e)
  <2>1. \A b \in Nat : ~ (b < UNDEF /\ b > UNDEF)
    BY DEF UNDEF
  <2>2. ~ (UNDEF > UNDEF) /\ ~ (Null > UNDEF)
    BY DEF UNDEF, Null
  <2>3. QED
    BY <2>1, <2>2, ByteAssumption DEF IsByte, IsPcell
<1>7. QED
  BY <1>3, <1>5, <1>6 DEF ElemWords, WordsFor, Empty, PointsInto

\* A move rewrites every address into a set of cells that moves to an
\* address of the places they moved to.
LEMMA MovedPointsInto ==
    ASSUME NEW old \in SUBSET Page, NEW m \in Injection(old, Page \ old),
           NEW e \in Elem
    PROVE  /\ PointsInto({e}, old) => PointsInto({MovedElem(m, e)}, Range(m))
           /\ PointsInto({Moved(m, e)}, Range(m))
<1>1. \A p \in old : m[p] \in Range(m)
  BY ShiftKeepsCount
<1>2. ~ IsPcell(Null)
  BY PcellIsPage, PageWords
<1>3. PointsInto({Moved(m, e)}, Range(m))
  BY <1>1, <1>2, MovedWord DEF PointsInto
<1>4. ASSUME PointsInto({e}, old)
      PROVE  PointsInto({MovedElem(m, e)}, Range(m))
  <2>1. CASE e \in old
    BY <1>1, <2>1, MovedWord DEF PointsInto
  <2>2. CASE e \notin old
    <3>1. e \notin Page
      BY <1>4, <2>2, PageWords DEF PointsInto
    <3>2. QED
      BY <3>1, MovedWord, PcellIsPage DEF PointsInto
  <2>3. QED
    BY <2>1, <2>2
<1>5. QED
  BY <1>3, <1>4

\* After the move, and before a collection, the registered variables and the
\* cells that moved point to cells that moved.
LEMMA MovedStaysInside ==
    ASSUME TypeOK, NoDanglingAddress,
           NEW h \in ElemWords, NEW t \in ElemWords, NEW c, NEW m, NEW dead, Moves(h, t, c, m, dead)
    PROVE  /\ MovedPage(h, t, c, m) \in [Page -> Cell]
           /\ PointsInto({MovedRoots(m)[x] : x \in roots} \cup {m[c]} \cup dead, Range(m))
           /\ \A d \in Range(m) : PointsInto({MovedPage(h, t, c, m)[d].hd,
                                              MovedPage(h, t, c, m)[d].tl}, Range(m))
           /\ Range(m) \subseteq Page
           /\ MovedLive(h, t, c, m, dead) \subseteq Range(m)
<1> DEFINE old == allocated \cup {c}
           filled == [page EXCEPT ![c] = [hd |-> h, tl |-> t]]
           shifted == Shifted(filled, m)
           words == {MovedRoots(m)[x] : x \in roots} \cup {m[c]} \cup dead
<1>1. /\ old \in SUBSET Page
      /\ c \in old
      /\ m \in Injection(old, Page \ old)
  BY DEF TypeOK, Moves
<1>2. h \in Elem /\ t \in Elem
  BY WordsType
<1>3. filled \in [Page -> Cell]
  BY <1>1, <1>2, FilledType DEF TypeOK
<1>4. \A p \in old : filled[p].hd \in Elem /\ filled[p].tl \in Elem
  BY <1>1, <1>3 DEF Cell
<1>5. ASSUME NEW p \in old
      PROVE  PointsInto({filled[p].hd}, old) /\ PointsInto({filled[p].tl}, old)
  <2>1. CASE p = c
    <3>1. filled[p].hd = h /\ filled[p].tl = t
      BY <1>1, <2>1 DEF TypeOK
    <3>2. QED
      BY <3>1, LiveIsAllocated DEF PointsInto
  <2>2. CASE p # c
    <3>1. filled[p] = page[p] /\ p \in allocated
      BY <1>1, <2>2 DEF TypeOK
    <3>2. QED
      BY <3>1, NoDanglingParts DEF PointsInto
  <2>3. QED
    BY <2>1, <2>2
<1> HIDE DEF old, filled
<1>6. Range(m) = {m[p] : p \in old} /\ Range(m) \subseteq Page
  BY <1>1, ShiftKeepsCount
<1>7. ASSUME NEW d \in Range(m)
      PROVE  PointsInto({shifted[d].hd, shifted[d].tl}, Range(m))
  <2>1. PICK p \in old : d = m[p]
    BY <1>6
  <2>2. /\ shifted[d].hd = MovedElem(m, filled[p].hd)
        /\ shifted[d].tl = MovedElem(m, filled[p].tl)
    <3>1. shifted[m[p]] = [hd |-> MovedElem(m, filled[p].hd),
                           tl |-> MovedElem(m, filled[p].tl)]
      BY <1>1, <1>3, ShiftedCells
    <3> HIDE DEF shifted
    <3>2. QED
      BY <2>1, <3>1
  <2>3. /\ PointsInto({MovedElem(m, filled[p].hd)}, Range(m))
        /\ PointsInto({MovedElem(m, filled[p].tl)}, Range(m))
    BY <1>1, <1>4, <1>5, MovedPointsInto
  <2>4. QED
    BY <2>2, <2>3 DEF PointsInto
<1>8. ASSUME NEW x \in roots
      PROVE  PointsInto({MovedRoots(m)[x]}, Range(m))
  <2>1. x \in Var /\ val[x] \in Elem
    BY DEF TypeOK
  <2>2. PointsInto({val[x]}, old)
    BY NoDanglingParts DEF RootWords, PointsInto, old
  <2>3. MovedRoots(m)[x] \in {Moved(m, val[x]), MovedElem(m, val[x])}
    BY <2>1 DEF MovedRoots
  <2>4. QED
    BY <1>1, <2>1, <2>2, <2>3, MovedPointsInto
<1>9. PointsInto(words, Range(m))
  <2>1. dead \subseteq Range(m)
    BY DEF Moves
  <2>2. QED
    BY <1>1, <1>6, <1>8, <2>1 DEF PointsInto
<1>10. shifted \in [Page -> Cell]
  BY <1>1, <1>3, ShiftedCells
<1> HIDE DEF shifted, words
<1>11. Reach(shifted, words) \subseteq Range(m)
  <2>1. words \cap Page \subseteq Range(m)
    BY <1>9, PageWords DEF PointsInto
  <2>2. Closed(shifted, Range(m))
    BY <1>7, PageWords DEF PointsInto, Closed, Children
  <2>3. QED
    BY <1>6, <2>1, <2>2, ReachLeast
<1>12. QED
  BY <1>6, <1>7, <1>9, <1>10, <1>11
     DEF MovedPage, MovedLive, shifted, filled, words

\* A sweep keeps the cells it keeps as they are: a closed set that the words
\* point into has no address of a deleted cell in it.
LEMMA SweptPointsInto ==
    ASSUME NEW cells \in [Page -> Cell], NEW words,
           PointsInto(words, Page)
    PROVE  LET live == Reach(cells, words)
           IN  /\ PointsInto(words, live)
               /\ \A c \in live : PointsInto({Sweep(cells, live)[c].hd,
                                              Sweep(cells, live)[c].tl}, live)
<1> DEFINE live == Reach(cells, words)
<1>1. live \subseteq Page /\ words \cap Page \subseteq live
  BY ReachHoldsWords
<1>2. Closed(cells, live)
  BY ReachClosed
<1> HIDE DEF live
<1>3. ASSUME NEW c \in live
      PROVE  PointsInto({Sweep(cells, live)[c].hd, Sweep(cells, live)[c].tl}, live)
  <2>1. Sweep(cells, live)[c] = cells[c] /\ cells[c] \in Cell
    BY <1>1 DEF Sweep
  <2>2. \A e \in {cells[c].hd, cells[c].tl} : IsPcell(e) => e \in Page
    BY <2>1, PcellIsPage DEF Cell
  <2>3. QED
    BY <1>2, <2>1, <2>2 DEF PointsInto, Closed, Children
<1>4. PointsInto(words, live)
  BY <1>1 DEF PointsInto
<1>5. QED
  BY <1>3, <1>4 DEF live

-----------------------------------------------------------------------------
\* No step, and the move of every cell in particular, leaves a root, an
\* answer or an allocated cell with the address of a deleted cell.
THEOREM NothingDangles == Spec => []NoDanglingAddress
<1>1. Init => NoDanglingAddress
  <2>1. SUFFICES ASSUME Init
                 PROVE  PointsInto(RootWords \cup {ret}, allocated) /\ allocated = {}
    BY NoDanglingParts
  <2>2. QED
    BY <2>1, PageWords, PcellIsPage DEF Init, RootWords, PointsInto
<1>2. TypeOK /\ NoDanglingAddress /\ [Next]_vars => NoDanglingAddress'
  <2>1. SUFFICES ASSUME TypeOK, NoDanglingAddress, [Next]_vars
                 PROVE  /\ PointsInto(RootWords' \cup {ret'}, allocated')
                        /\ \A c \in allocated' :
                              PointsInto({page'[c].hd, page'[c].tl}, allocated')
    BY DEF NoDanglingAddress, Addresses, PointsInto
  <2>2. ~ IsPcell(UNDEF)
    BY PcellIsPage, PageWords
  <2>3. /\ PointsInto(RootWords \cup {ret}, allocated)
        /\ \A c \in allocated : PointsInto({page[c].hd, page[c].tl}, allocated)
    BY <2>1, NoDanglingParts
  <2>4. ASSUME NEW x \in Var, NEW e \in WordsFor(x), AddRoot(x, e) \/ Assign(x, e)
        PROVE  /\ RootWords' \subseteq RootWords \cup {e}
               /\ PointsInto({e}, allocated)
               /\ UNCHANGED <<page, allocated, ret>>
    <3>1. RootWords' \subseteq RootWords \cup {e}
      BY <2>1, <2>4 DEF TypeOK, AddRoot, Assign, RootWords
    <3>2. PointsInto({e}, allocated)
      BY <2>1, <2>4, LiveIsAllocated DEF PointsInto
    <3>3. QED
      BY <2>4, <3>1, <3>2 DEF AddRoot, Assign
  <2>5. ASSUME NEW x \in Var, DelRoot(x) \/ ReturnRoot(x)
        PROVE  /\ RootWords' \subseteq RootWords
               /\ ret' \in RootWords \cup {ret, UNDEF}
               /\ UNCHANGED <<page, allocated>>
    BY <2>1, <2>5 DEF TypeOK, DelRoot, ReturnRoot, RootWords
  <2>6. ASSUME NEW h \in ElemWords, NEW t \in ElemWords, NewCell(h, t)
        PROVE  /\ PointsInto(RootWords' \cup {ret'}, allocated')
               /\ \A c \in allocated' :
                     PointsInto({page'[c].hd, page'[c].tl}, allocated')
    <3>1. PICK c, m, dead : Moves(h, t, c, m, dead)
      BY <2>1, <2>6, NewCellMoves
    <3> DEFINE shifted == MovedPage(h, t, c, m)
               words == {MovedRoots(m)[x] : x \in roots} \cup {m[c]} \cup dead
               live == MovedLive(h, t, c, m, dead)
    <3>2. /\ shifted \in [Page -> Cell]
          /\ PointsInto(words, Range(m))
          /\ \A d \in Range(m) : PointsInto({shifted[d].hd, shifted[d].tl}, Range(m))
          /\ Range(m) \subseteq Page
          /\ live \subseteq Range(m)
      BY <2>1, <3>1, MovedStaysInside
    <3>3. live = Reach(shifted, words)
      BY DEF MovedLive
    <3>4. RootWords' \cup {ret'} \subseteq words \cup {UNDEF}
      BY <3>1 DEF Moves, RootWords
    <3>5. allocated' = Range(m) \/ allocated' = live
      BY <3>1 DEF Moves, Kept
    <3>6. page' = Sweep(shifted, allocated')
      BY <3>1 DEF Moves
    <3> HIDE DEF shifted, words, live
    <3>7. CASE allocated' = Range(m)
      <4>1. \A d \in allocated' : page'[d] = shifted[d]
        BY <3>2, <3>6, <3>7 DEF Sweep
      <4>2. QED
        BY <2>2, <3>2, <3>4, <3>7, <4>1 DEF PointsInto
    <3>8. CASE allocated' = live
      <4>1. PointsInto(words, Page)
        BY <3>2 DEF PointsInto
      <4>2. /\ PointsInto(words, live)
            /\ \A d \in live : PointsInto({Sweep(shifted, live)[d].hd,
                                           Sweep(shifted, live)[d].tl}, live)
        BY <3>2, <3>3, <4>1, SweptPointsInto
      <4>3. QED
        BY <2>2, <3>4, <3>6, <3>8, <4>2 DEF PointsInto
    <3>9. QED
      BY <3>5, <3>7, <3>8
  <2>7. ASSUME Gc
        PROVE  /\ PointsInto(RootWords' \cup {ret'}, allocated')
               /\ \A c \in allocated' :
                     PointsInto({page'[c].hd, page'[c].tl}, allocated')
    <3>1. PICK dead \in SUBSET allocated :
             /\ allocated' = Reach(page, RootWords \cup dead)
             /\ page' = Sweep(page, Reach(page, RootWords \cup dead))
             /\ RootWords' = RootWords
             /\ ret' = UNDEF
      BY <2>7 DEF Gc, StackWords, RootWords
    <3> DEFINE live == Reach(page, RootWords \cup dead)
    <3>2. page \in [Page -> Cell] /\ PointsInto(RootWords \cup dead, Page)
      BY <2>1, <2>3 DEF TypeOK, PointsInto
    <3>3. /\ PointsInto(RootWords \cup dead, live)
          /\ \A c \in live : PointsInto({Sweep(page, live)[c].hd,
                                         Sweep(page, live)[c].tl}, live)
      BY <3>2, SweptPointsInto
    <3>4. allocated' = live /\ page' = Sweep(page, live)
      BY <3>1
    <3> HIDE DEF live
    <3>5. QED
      BY <2>2, <3>1, <3>3, <3>4 DEF PointsInto
  <2>8. CASE Forget
    BY <2>3, <2>2, <2>8 DEF Forget, RootWords, PointsInto
  <2>9. CASE Recover \/ UNCHANGED vars
    BY <2>3, <2>9 DEF Recover, vars, RootWords
  <2>10. CASE UseStaleRoot
    BY <2>3, <2>10 DEF UseStaleRoot, RootWords
  <2>11. CASE \E x \in Var : DelRoot(x) \/ ReturnRoot(x)
    BY <2>3, <2>2, <2>5, <2>11 DEF PointsInto
  <2>12. CASE \E x \in Var : \E e \in WordsFor(x) : AddRoot(x, e) \/ Assign(x, e)
    BY <2>3, <2>4, <2>12 DEF PointsInto
  <2>13. QED
    BY <2>1, <2>6, <2>7, <2>8, <2>9, <2>10, <2>11, <2>12 DEF Next
<1>3. QED
  BY <1>1, <1>2, TypeCorrect, PTL DEF Spec

\* The number of allocated cells grows by one at a time, so it meets the
\* limit it is compared with; the collection then ends the script or brings
\* it below.
THEOREM MemoryOfScriptsIsLimited == Spec => []WithinMemoryLimit
<1>1. Init => WithinMemoryLimit
  BY NMaxAssumption, FS_EmptySet DEF Init, WithinMemoryLimit
<1>2. TypeOK /\ NoDanglingAddress /\ WithinMemoryLimit /\ [Next]_vars
      => WithinMemoryLimit'
  <2>1. SUFFICES ASSUME TypeOK, NoDanglingAddress, WithinMemoryLimit, [Next]_vars,
                        ~ interactive'
                 PROVE  /\ Cardinality(allocated') <= NMax
                        /\ status' = "running" => Cardinality(allocated') < NMax
    BY DEF WithinMemoryLimit
  <2>2. ~ interactive
    BY <2>1 DEF Next, vars, AddRoot, Assign, DelRoot, ReturnRoot, NewCell, Forget,
                Gc, Recover, UseStaleRoot
  <2>3. /\ Cardinality(allocated) <= NMax
        /\ status = "running" => Cardinality(allocated) < NMax
        /\ Cardinality(allocated) \in Nat
        /\ NMax \in Nat
    BY <2>1, <2>2, PageFinite, NMaxAssumption DEF WithinMemoryLimit, TypeOK
  <2>4. ASSUME NEW h \in ElemWords, NEW t \in ElemWords, NewCell(h, t)
        PROVE  /\ Cardinality(allocated') <= NMax
               /\ status' = "running" => Cardinality(allocated') < NMax
    <3>1. PICK c, m, dead : Moves(h, t, c, m, dead)
      BY <2>1, <2>4, NewCellMoves
    <3>2. status = "running"
      BY <2>4 DEF NewCell
    <3> DEFINE live == MovedLive(h, t, c, m, dead)
    <3>3. Range(m) \in SUBSET Page /\ live \in SUBSET Range(m)
      BY <2>1, <3>1, <3>2, MovedStaysInside
    <3> HIDE DEF live
    <3>4. /\ Cardinality(live) \in Nat
          /\ Cardinality(live) <= Cardinality(Range(m))
          /\ Cardinality(Range(m)) \in Nat
      BY <3>3, PageFinite, FS_Subset
    <3>5. Cardinality(Range(m)) = Cardinality(allocated) + 1
      BY <3>1 DEF Moves
    <3>6. CASE Cardinality(Range(m)) = NMax
      <4>1. allocated' = live
        BY <3>1, <3>6 DEF Moves, Kept, live
      <4>2. status' = "running" => Cardinality(live) # NMax
        BY <3>1, <3>6 DEF Moves, Full, live
      <4>3. QED
        BY <2>3, <3>4, <3>6, <4>1, <4>2
    <3>7. CASE Cardinality(Range(m)) # NMax
      <4>1. allocated' = Range(m)
        BY <3>1, <3>7 DEF Moves, Kept
      <4>2. QED
        BY <2>3, <3>2, <3>4, <3>5, <3>7, <4>1
    <3>8. QED
      BY <3>6, <3>7
  <2>5. CASE Gc
    <3>1. PICK dead \in SUBSET allocated :
             status = "running" /\ allocated' = Reach(page, RootWords \cup dead)
      BY <2>5 DEF Gc, StackWords
    <3> DEFINE live == Reach(page, RootWords \cup dead)
    <3>2. live \in SUBSET allocated
      BY <2>1, LiveIsAllocated
    <3>3. Cardinality(live) \in Nat /\ Cardinality(live) <= Cardinality(allocated)
      <4> HIDE DEF live
      <4>1. allocated \in SUBSET Page /\ live \in SUBSET Page
        BY <2>1, <3>2 DEF TypeOK
      <4>2. QED
        BY <3>2, <4>1, PageFinite, FS_Subset
    <3>4. QED
      BY <2>3, <3>1, <3>3
  <2>6. CASE UNCHANGED vars
    BY <2>3, <2>6 DEF vars
  <2>7. QED
    BY <2>1, <2>2, <2>3, <2>4, <2>5, <2>6
       DEF Next, AddRoot, Assign, DelRoot, ReturnRoot, Forget, Recover,
           UseStaleRoot
<1>3. QED
  BY <1>1, <1>2, TypeCorrect, NothingDangles, PTL DEF Spec

-----------------------------------------------------------------------------
(***************************************************************************)
(* The refinement of PairStore.  The cells that new_Cell's move takes to   *)
(* their new places point to each other as the old ones did, so the words  *)
(* that lead to them, rewritten, stand for the trees they stood for.       *)
(***************************************************************************)

\* A deleted cell leads nowhere.
LEMMA DeletedLeadsNowhere ==
    ASSUME NEW page2, NEW c \in Page, page2[c] = Deleted
    PROVE  Children(page2, c) = {}
BY PageWords DEF Deleted, Children

\* Filling a cell with words that point to allocated cells makes no cycle.
LEMMA FilledAcyclic ==
    ASSUME TypeOK, NoDanglingAddress, Acyclic(page),
           NEW c \in Page \ allocated, NEW h \in ElemWords, NEW t \in ElemWords
    PROVE  Acyclic([page EXCEPT ![c] = [hd |-> h, tl |-> t]])
<1> DEFINE filled == [page EXCEPT ![c] = [hd |-> h, tl |-> t]]
<1>1. page \in [Page -> Cell] /\ allocated \in SUBSET Page
  BY DEF TypeOK
<1>2. Closed(page, allocated) /\ PointsInto({h, t}, allocated)
  BY LiveIsAllocated DEF PointsInto
<1>3. Children(filled, c) \subseteq allocated
  BY <1>1, <1>2, PageWords DEF Children, PointsInto
<1>4. \A d \in Page : d # c => Children(filled, d) = Children(page, d)
  BY <1>1 DEF Children
<1> HIDE DEF filled
<1>5. ASSUME NEW S \in SUBSET Page, S # {}
      PROVE  \E e \in S : Children(filled, e) \cap S = {}
  <2>1. CASE c \notin S
    <3>1. PICK e \in S : Children(page, e) \cap S = {}
      BY <1>5 DEF Acyclic
    <3>2. QED
      BY <1>4, <2>1, <3>1
  <2>2. CASE S \cap allocated = {} /\ c \in S
    BY <1>3, <2>2
  <2>3. CASE S \cap allocated # {}
    <3>1. PICK e \in S \cap allocated : Children(page, e) \cap (S \cap allocated) = {}
      BY <1>1, <2>3 DEF Acyclic
    <3>2. Children(page, e) \subseteq allocated
      BY <1>2 DEF Closed
    <3>3. Children(filled, e) = Children(page, e)
      BY <1>1, <1>4
    <3>4. QED
      BY <3>1, <3>2, <3>3
  <2>4. QED
    BY <2>1, <2>2, <2>3
<1>6. Acyclic(filled)
  BY <1>5 DEF Acyclic
<1>7. QED
  BY <1>6 DEF filled

\* Where a moved cell leads to is where its children moved to.
LEMMA MovedChildren ==
    ASSUME NEW cells \in [Page -> Cell],
           NEW old \in SUBSET Page, NEW m \in Injection(old, Page \ old),
           Closed(cells, old), NEW p \in old
    PROVE  Children(Shifted(cells, m), m[p]) = {m[q] : q \in Children(cells, p)}
<1> DEFINE shifted == Shifted(cells, m)
<1>1. shifted[m[p]].hd = MovedElem(m, cells[p].hd) /\ shifted[m[p]].tl = MovedElem(m, cells[p].tl)
  <2>1. shifted[m[p]] = [hd |-> MovedElem(m, cells[p].hd), tl |-> MovedElem(m, cells[p].tl)]
    BY ShiftedCells
  <2> HIDE DEF shifted
  <2>2. QED
    BY <2>1
<1>2. cells[p].hd \in Elem /\ cells[p].tl \in Elem
  BY DEF Cell
<1>3. Children(cells, p) \subseteq old
  BY DEF Closed
<1> HIDE DEF shifted
<1>4. ASSUME NEW e \in {cells[p].hd, cells[p].tl}
      PROVE  /\ e \in Page => MovedElem(m, e) = m[e] /\ m[e] \in Page
             /\ e \notin Page => MovedElem(m, e) \notin Page
  <2>1. e \in Elem /\ (e \in Page => e \in old)
    BY <1>2, <1>3 DEF Children
  <2>2. QED
    BY <2>1, MovedWord
<1>5. Children(shifted, m[p]) = {m[q] : q \in Children(cells, p)}
  BY <1>1, <1>4 DEF Children
<1>6. QED
  BY <1>5 DEF shifted

\* The move makes no cycle.
LEMMA ShiftedAcyclic ==
    ASSUME NEW cells \in [Page -> Cell], Acyclic(cells),
           NEW old \in SUBSET Page, NEW m \in Injection(old, Page \ old),
           Closed(cells, old)
    PROVE  Acyclic(Shifted(cells, m))
<1> DEFINE shifted == Shifted(cells, m)
<1>1. /\ m \in [old -> Page \ old] /\ DOMAIN m = old
      /\ \A p, q \in old : m[p] = m[q] => p = q
  BY Fun_InjectionProperties
<1>2. \A c \in Page : (~ \E p \in old : m[p] = c) => shifted[c] = Deleted
  BY <1>1 DEF Shifted
<1>3. \A p \in old : Children(shifted, m[p]) = {m[q] : q \in Children(cells, p)}
  BY MovedChildren
<1> HIDE DEF shifted
<1>4. ASSUME NEW S \in SUBSET Page, S # {}
      PROVE  \E c \in S : Children(shifted, c) \cap S = {}
  <2>1. CASE \E c \in S : ~ \E p \in old : m[p] = c
    BY <1>2, <2>1, DeletedLeadsNowhere
  <2>2. CASE \A c \in S : \E p \in old : m[p] = c
    <3> DEFINE P == {p \in old : m[p] \in S}
    <3>1. P \in SUBSET Page /\ P # {}
      BY <1>4, <2>2
    <3>2. PICK p \in P : Children(cells, p) \cap P = {}
      BY <3>1 DEF Acyclic
    <3>3. Children(cells, p) \subseteq old
      BY <3>2 DEF Closed
    <3>4. Children(shifted, m[p]) \cap S = {}
      BY <1>3, <3>2, <3>3
    <3>5. QED
      BY <3>2, <3>4
  <2>3. QED
    BY <2>1, <2>2
<1>5. Acyclic(shifted)
  BY <1>4 DEF Acyclic
<1>6. QED
  BY <1>5 DEF shifted

\* Deleting what is not kept makes no cycle, and changes no tree of a word
\* that leads to what is.
LEMMA SweptTrees ==
    ASSUME NEW cells \in [Page -> Cell], Acyclic(cells),
           NEW kept \in SUBSET Page, Closed(cells, kept)
    PROVE  /\ Acyclic(Sweep(cells, kept))
           /\ \A e \in kept \cup (Elem \ Page) :
                  Unfold(Sweep(cells, kept))[e] = Unfold(cells)[e]
<1> DEFINE swept == Sweep(cells, kept)
<1>1. /\ swept \in [Page -> Cell]
      /\ \A c \in kept : swept[c] = cells[c]
      /\ \A c \in Page \ kept : swept[c] = Deleted
  BY SweepType DEF Sweep
<1> HIDE DEF swept
<1>2. \A c \in kept : Children(swept, c) = Children(cells, c)
  BY <1>1 DEF Children
<1>3. ASSUME NEW S \in SUBSET Page, S # {}
      PROVE  \E c \in S : Children(swept, c) \cap S = {}
  <2>1. CASE S \cap kept = {}
    BY <1>1, <1>3, <2>1, DeletedLeadsNowhere
  <2>2. CASE S \cap kept # {}
    <3>1. PICK c \in S \cap kept : Children(cells, c) \cap (S \cap kept) = {}
      BY <2>2 DEF Acyclic
    <3>2. Children(cells, c) \subseteq kept
      BY DEF Closed
    <3>3. QED
      BY <1>2, <3>1, <3>2
  <2>3. QED
    BY <2>1, <2>2
<1>4. Acyclic(swept)
  BY <1>3 DEF Acyclic
<1>5. \A e \in kept \cup (Elem \ Page) : Unfold(swept)[e] = Unfold(cells)[e]
  BY <1>1, <1>4, SameTrees
<1>6. QED
  BY <1>4, <1>5 DEF swept

\* The move gives every word that leads into what moves the tree it had.
LEMMA ShiftedTrees ==
    ASSUME NEW cells \in [Page -> Cell], Acyclic(cells),
           NEW old \in SUBSET Page, NEW m \in Injection(old, Page \ old),
           Closed(cells, old)
    PROVE  /\ \A p \in old : Unfold(Shifted(cells, m))[m[p]] = Unfold(cells)[p]
           /\ \A e \in Elem \ Page : Unfold(Shifted(cells, m))[e] = Unfold(cells)[e]
<1> DEFINE shifted == Shifted(cells, m)
           B == {p \in old : Unfold(shifted)[m[p]] # Unfold(cells)[p]}
<1>1. shifted \in [Page -> Cell] /\ Acyclic(shifted)
  BY ShiftedCells, ShiftedAcyclic
<1>2. \A p \in old : /\ m[p] \in Page
                     /\ shifted[m[p]] = [hd |-> MovedElem(m, cells[p].hd),
                                         tl |-> MovedElem(m, cells[p].tl)]
  BY MovedWord, ShiftedCells
<1> HIDE DEF shifted
<1>3. \A e \in Elem \ Page : Unfold(shifted)[e] = Unfold(cells)[e]
  BY <1>1, UnfoldWords
<1>4. ASSUME B # {} PROVE FALSE
  <2>1. PICK p \in B : Children(cells, p) \cap B = {}
    BY <1>4 DEF Acyclic
  <2>2. p \in old /\ Children(cells, p) \subseteq old \ B
    BY <2>1 DEF Closed
  <2>3. cells[p].hd \in Elem /\ cells[p].tl \in Elem
    BY <2>2 DEF Cell
  <2>4. ASSUME NEW e \in {cells[p].hd, cells[p].tl}
        PROVE  Unfold(shifted)[MovedElem(m, e)] = Unfold(cells)[e]
    <3>1. CASE e \in Page
      <4>1. e \in old \ B
        BY <2>2, <3>1 DEF Children
      <4>2. MovedElem(m, e) = m[e]
        BY <4>1, MovedWord
      <4>3. QED
        BY <4>1, <4>2
    <3>2. CASE e \notin Page
      <4>1. e \in Elem \ Page
        BY <2>3, <3>2
      <4>2. MovedElem(m, e) = e
        BY <4>1, MovedWord
      <4>3. QED
        BY <1>3, <4>1, <4>2
    <3>3. QED
      BY <3>1, <3>2
  <2>5. Unfold(shifted)[m[p]] = <<Unfold(shifted)[MovedElem(m, cells[p].hd)],
                                  Unfold(shifted)[MovedElem(m, cells[p].tl)]>>
    <3> DEFINE d == m[p]
    <3>1. /\ d \in Page
          /\ shifted[d] = [hd |-> MovedElem(m, cells[p].hd),
                           tl |-> MovedElem(m, cells[p].tl)]
      BY <1>2, <2>2
    <3> HIDE DEF d
    <3>2. Unfold(shifted)[d] = <<Unfold(shifted)[shifted[d].hd], Unfold(shifted)[shifted[d].tl]>>
      BY <1>1, <3>1, UnfoldWords
    <3>3. QED
      BY <3>1, <3>2 DEF d
  <2>6. Unfold(cells)[p] = <<Unfold(cells)[cells[p].hd], Unfold(cells)[cells[p].tl]>>
    BY <2>2, UnfoldWords
  <2>7. QED
    BY <2>1, <2>4, <2>5, <2>6
<1>5. QED
  BY <1>3, <1>4 DEF shifted

\* new_Cell's answer is a new pair, and every root that it rewrites keeps its
\* tree, whether or not it collects.
LEMMA NewCellTrees ==
    ASSUME TypeOK, NoDanglingAddress, Acyclic(page),
           NEW h \in ElemWords, NEW t \in ElemWords, NEW c, NEW m, NEW dead, Moves(h, t, c, m, dead)
    PROVE  /\ Acyclic(page')
           /\ \A x \in roots : Unfold(page')[MovedElem(m, val[x])] = Unfold(page)[val[x]]
           /\ Unfold(page')[m[c]] = <<Unfold(page)[h], Unfold(page)[t]>>
<1> DEFINE old == allocated \cup {c}
           filled == [page EXCEPT ![c] = [hd |-> h, tl |-> t]]
           shifted == MovedPage(h, t, c, m)
           words == {MovedRoots(m)[x] : x \in roots} \cup {m[c]} \cup dead
           kept == Kept(h, t, c, m, dead)
<1>1. /\ page \in [Page -> Cell]
      /\ allocated \in SUBSET Page
      /\ old \in SUBSET Page
      /\ c \in Page \ allocated
      /\ m \in Injection(old, Page \ old)
  BY DEF TypeOK, Moves
<1>2. /\ h \in Elem /\ t \in Elem
      /\ PointsInto({h, t}, allocated)
      /\ Closed(page, allocated)
  BY WordsType, LiveIsAllocated DEF PointsInto
<1>3. h \in allocated \cup (Elem \ Page) /\ t \in allocated \cup (Elem \ Page)
  BY <1>2, PageWords DEF PointsInto
<1>4. filled \in [Page -> Cell]
  BY <1>1, <1>2, FilledType
<1>5. Acyclic(filled)
  BY <1>1, FilledAcyclic
<1>6. /\ \A d \in allocated : filled[d] = page[d]
      /\ filled[c].hd = h /\ filled[c].tl = t
  BY <1>1
<1>7. shifted = Shifted(filled, m)
  BY DEF MovedPage
<1> HIDE DEF filled
<1>8. \A e \in allocated \cup (Elem \ Page) : Unfold(filled)[e] = Unfold(page)[e]
  BY <1>1, <1>2, <1>4, <1>5, <1>6, SameTrees
<1>9. Unfold(filled)[c] = <<Unfold(page)[h], Unfold(page)[t]>>
  BY <1>1, <1>3, <1>4, <1>5, <1>6, <1>8, UnfoldWords
<1>10. Closed(filled, old)
  BY <1>2, <1>3, <1>6 DEF Closed, Children
<1>11. /\ shifted \in [Page -> Cell]
       /\ PointsInto(words, Range(m))
       /\ \A d \in Range(m) : PointsInto({shifted[d].hd, shifted[d].tl}, Range(m))
       /\ Range(m) \subseteq Page
  BY MovedStaysInside
<1>12. page' = Sweep(shifted, kept)
  BY DEF Moves
<1>13. /\ kept \in SUBSET Page
       /\ Closed(shifted, kept)
       /\ words \cap Page \subseteq kept
  <2>1. CASE kept = Range(m)
    <3> HIDE DEF shifted, words, kept
    <3>1. QED
      BY <1>11, <2>1, PageWords DEF Closed, Children, PointsInto
  <2>2. CASE kept = Reach(shifted, words)
    <3> HIDE DEF shifted, words, kept
    <3>1. QED
      BY <2>2, ReachClosed, ReachHoldsWords
  <2>3. QED
    BY <2>1, <2>2 DEF Kept, MovedLive
<1> HIDE DEF shifted, kept, old
<1>14. /\ \A p \in old : Unfold(shifted)[m[p]] = Unfold(filled)[p]
       /\ \A e \in Elem \ Page : Unfold(shifted)[e] = Unfold(filled)[e]
       /\ Acyclic(shifted)
  BY <1>1, <1>4, <1>5, <1>7, <1>10, ShiftedTrees, ShiftedAcyclic
<1>15. /\ Acyclic(Sweep(shifted, kept))
       /\ \A e \in kept \cup (Elem \ Page) :
              Unfold(Sweep(shifted, kept))[e] = Unfold(shifted)[e]
  BY <1>11, <1>13, <1>14, SweptTrees
<1>16. \A p \in old : Moved(m, p) = m[p] /\ MovedElem(m, p) = m[p] /\ m[p] \in Page
  BY <1>1, MovedWord
<1>17. ASSUME NEW x \in roots
       PROVE  Unfold(page')[MovedElem(m, val[x])] = Unfold(page)[val[x]]
  <2>1. x \in Var /\ val[x] \in Elem
    BY DEF TypeOK
  <2>2. CASE val[x] \in Page
    <3>1. val[x] \in allocated
      BY <2>2, NoDanglingParts, PageWords DEF PointsInto, RootWords
    <3>2. val[x] \in old
      BY <3>1 DEF old
    <3>3. MovedRoots(m)[x] = m[val[x]]
      BY <1>16, <2>1, <3>2 DEF MovedRoots
    <3>4. m[val[x]] \in kept
      BY <1>13, <1>16, <3>2, <3>3
    <3>5. QED
      BY <1>8, <1>12, <1>14, <1>15, <1>16, <3>1, <3>2, <3>4
  <2>3. CASE val[x] \notin Page
    <3>1. MovedElem(m, val[x]) = val[x]
      BY <1>1, <2>1, <2>3, MovedWord
    <3>2. QED
      BY <1>8, <1>12, <1>14, <1>15, <2>1, <2>3, <3>1
  <2>4. QED
    BY <2>2, <2>3
<1>18. Unfold(page')[m[c]] = <<Unfold(page)[h], Unfold(page)[t]>>
  <2>1. c \in old
    BY DEF old
  <2>2. m[c] \in kept
    BY <1>13, <1>16, <2>1
  <2>3. QED
    BY <1>9, <1>12, <1>14, <1>15, <2>1, <2>2
<1>19. QED
  BY <1>12, <1>15, <1>17, <1>18

-----------------------------------------------------------------------------
\* What the refinement needs of the states: no cell leads back to itself, a
\* variable for a cell holds a cell or null, and once memory has run out
\* nothing is in the client's hand.
NoCycles == Acyclic(page)

PcellsHoldCells == \A x \in PcellVar : val[x] \in Page \cup {Null}

EmptyHanded == status = "oom" => ret = UNDEF

LEMMA NothingCycles == Spec => []NoCycles
<1>1. Init => NoCycles
  <2>1. SUFFICES ASSUME Init PROVE Acyclic(page)
    BY DEF NoCycles
  <2>2. \A c \in Page : page[c] = Deleted
    BY <2>1 DEF Init
  <2>3. \A c \in Page : Children(page, c) = {}
    BY <2>2, DeletedLeadsNowhere
  <2>4. QED
    BY <2>3 DEF Acyclic
<1>2. TypeOK /\ NoDanglingAddress /\ NoCycles /\ [Next]_vars => NoCycles'
  <2>1. SUFFICES ASSUME TypeOK, NoDanglingAddress, NoCycles, [Next]_vars
                 PROVE  NoCycles'
    OBVIOUS
  <2>2. page \in [Page -> Cell] /\ Acyclic(page)
    BY <2>1 DEF TypeOK, NoCycles
  <2>3. ASSUME NEW h \in ElemWords, NEW t \in ElemWords, NewCell(h, t)
        PROVE  NoCycles'
    <3>1. PICK c, m, dead : Moves(h, t, c, m, dead)
      BY <2>1, <2>3, NewCellMoves
    <3>2. Acyclic(page')
      BY <2>1, <2>2, <3>1, NewCellTrees
    <3>3. QED
      BY <3>2 DEF NoCycles
  <2>4. CASE Gc
    <3>1. PICK dead : page' = Sweep(page, Reach(page, RootWords \cup dead))
      BY <2>4 DEF Gc
    <3> DEFINE live == Reach(page, RootWords \cup dead)
    <3>2. live \in SUBSET Page /\ Closed(page, live)
      BY ReachHoldsWords, ReachClosed
    <3>3. page' = Sweep(page, live)
      BY <3>1
    <3> HIDE DEF live
    <3>4. QED
      BY <2>2, <3>2, <3>3, SweptTrees DEF NoCycles
  <2>5. CASE UNCHANGED page
    BY <2>1, <2>5 DEF NoCycles
  <2>6. QED
    BY <2>1, <2>3, <2>4, <2>5
       DEF Next, vars, AddRoot, Assign, DelRoot, ReturnRoot, UseStaleRoot,
           Forget, Recover
<1>3. QED
  BY <1>1, <1>2, TypeCorrect, NothingDangles, PTL DEF Spec

LEMMA PcellsStayCells == Spec => [](PcellsHoldCells /\ EmptyHanded)
<1>1. Init => PcellsHoldCells /\ EmptyHanded
  BY DEF Init, PcellsHoldCells, EmptyHanded, Empty, Var
<1>2. TypeOK /\ PcellsHoldCells /\ EmptyHanded /\ [Next]_vars
          => (PcellsHoldCells /\ EmptyHanded)'
  <2>1. SUFFICES ASSUME TypeOK, PcellsHoldCells, EmptyHanded, [Next]_vars
                 PROVE  (PcellsHoldCells /\ EmptyHanded)'
    OBVIOUS
  <2>2. val \in [Var -> Elem] /\ PcellVar \subseteq Var
    BY <2>1 DEF TypeOK, Var
  <2>3. ASSUME NEW x \in Var, NEW e \in WordsFor(x), AddRoot(x, e) \/ Assign(x, e)
        PROVE  (PcellsHoldCells /\ EmptyHanded)'
    <3>1. x \in PcellVar => e \in Page \cup {Null}
      BY <2>3, WordsType DEF WordsFor
    <3>2. val' = [val EXCEPT ![x] = e] /\ status' = status /\ ret' = ret
      BY <2>3 DEF AddRoot, Assign
    <3>3. QED
      BY <2>1, <2>2, <3>1, <3>2 DEF PcellsHoldCells, EmptyHanded
  <2>4. ASSUME NEW x \in Var, DelRoot(x) \/ ReturnRoot(x)
        PROVE  (PcellsHoldCells /\ EmptyHanded)'
    <3>1. val' = [val EXCEPT ![x] = Empty(x)] /\ status' = "running"
      BY <2>4 DEF DelRoot, ReturnRoot
    <3>2. QED
      BY <2>1, <2>2, <3>1 DEF PcellsHoldCells, EmptyHanded, Empty
  <2>5. ASSUME NEW h \in ElemWords, NEW t \in ElemWords, NewCell(h, t)
        PROVE  (PcellsHoldCells /\ EmptyHanded)'
    <3>1. PICK c, m, dead : Moves(h, t, c, m, dead)
      BY <2>1, <2>5, NewCellMoves
    <3> DEFINE old == allocated \cup {c}
    <3>2. old \in SUBSET Page /\ m \in Injection(old, Page \ old)
      BY <2>1, <3>1 DEF TypeOK, Moves
    <3> HIDE DEF old
    <3>3. \A e \in Elem : Moved(m, e) \in Page \cup {Null}
      BY <3>2, MovedWord
    <3>4. \A x \in PcellVar : MovedRoots(m)[x] \in Page \cup {Null}
      BY <2>1, <2>2, <3>3 DEF PcellsHoldCells, MovedRoots
    <3>5. QED
      BY <3>1, <3>4 DEF Moves, PcellsHoldCells, EmptyHanded
  <2>6. CASE Gc
    BY <2>1, <2>6 DEF Gc, PcellsHoldCells, EmptyHanded
  <2>7. QED
    BY <2>1, <2>3, <2>4, <2>5, <2>6
       DEF Next, vars, UseStaleRoot, Forget, Recover, PcellsHoldCells, EmptyHanded
<1>3. QED
  BY <1>1, <1>2, TypeCorrect, PTL DEF Spec

-----------------------------------------------------------------------------
\* The tree a variable that holds e stands for.
TreeFor(x, e) == IF x \in PcellVar /\ e = Null THEN <<>> ELSE Unfold(page)[e]

Held == [x \in roots |-> TreeIn(x)]

InHand == IF status = "running" THEN Unfold(page)[ret] ELSE <<UNDEF>>

\* PairStore's Parts is a chain of NCells steps.
LEMMA PartsChain ==
    ASSUME NEW trees
    PROVE  \E f : IsPartsChain(trees, f) /\ Store!Parts(trees) = f[NCells]
<1> DEFINE f == CHOOSE f : IsPartsChain(trees, f)
<1>1. IsPartsChain(trees, f)
  BY SomePartsChain
<1>2. Store!Parts(trees) = f[NCells]
  BY DEF Store!Parts, IsPartsChain, WithParts
<1> HIDE DEF f
<1>3. QED
  BY <1>1, <1>2

\* Every word the client may use stands for a tree that PairStore's client
\* may use: for a word that is not a byte, a part of a tree it holds.
LEMMA WordsAreVisible ==
    ASSUME TypeOK, NoCycles, status = "running"
    PROVE  /\ \A e \in ElemWords : Unfold(page)[e] \in Store!Visible \ {Store!NullTree}
           /\ \A x \in Var : \A e \in WordsFor(x) : TreeFor(x, e) \in Store!Visible
<1> DEFINE trees == Range(Held) \cup {InHand}
<1>1. page \in [Page -> Cell] /\ Acyclic(page)
  BY DEF TypeOK, NoCycles
<1>2. Store!Visible = Store!Parts(trees) \cup {<<w>> : w \in ClientBytes \cup {UNDEF}} \cup {<<>>}
  <2>1. Store!UNDEF = UNDEF
    BY DEF Store!UNDEF, UNDEF
  <2>2. {Store!Leaf(w) : w \in ClientBytes \cup {Store!UNDEF}}
            = {<<w>> : w \in ClientBytes \cup {UNDEF}}
    BY <2>1 DEF Store!Leaf
  <2>3. Store!Range([x \in roots |-> TreeIn(x)])
            \cup {IF status = "running" THEN Unfold(page)[ret] ELSE <<UNDEF>>} = trees
    BY DEF Store!Range, Range, Held, InHand
  <2> HIDE DEF trees
  <2>4. QED
    BY <2>2, <2>3 DEF Store!Visible, Store!NullTree
<1>3. \A c \in (RootWords \cup {ret}) \cap Page : Unfold(page)[c] \in trees
  <2>1. ASSUME NEW x \in roots, val[x] \in Page
        PROVE  Unfold(page)[val[x]] \in trees
    <3>1. val[x] # Null
      BY <2>1, PageWords
    <3>2. Held[x] = Unfold(page)[val[x]] /\ x \in DOMAIN Held
      BY <3>1 DEF Held, TreeIn
    <3>3. QED
      BY <3>2 DEF Range
  <2>2. Unfold(page)[ret] \in trees
    BY DEF InHand
  <2> HIDE DEF trees
  <2>3. QED
    BY <2>1, <2>2 DEF RootWords
<1> HIDE DEF trees
<1>4. \A c \in Live : Unfold(page)[c] \in Store!Parts(trees)
  <2>1. PICK f : IsPartsChain(trees, f) /\ Store!Parts(trees) = f[NCells]
    BY PartsChain
  <2>2. QED
    BY <1>1, <1>3, <2>1, ReachedTreesAreParts DEF Live
<1>5. \A b \in ClientBytes \cup {UNDEF} : Unfold(page)[b] = <<b>>
  <2>1. ClientBytes \cap Page = {}
    <3>1. \A b \in Nat : ~ (b < UNDEF /\ UNDEF < b)
      BY DEF UNDEF
    <3>2. QED
      BY <3>1, ByteAssumption, PageWords DEF IsByte, IsPcell
  <2>2. ClientBytes \cup {UNDEF} \subseteq Elem \ Page
    BY <2>1, WordsType, PageWords DEF ElemWords
  <2>3. QED
    BY <1>1, <2>2, UnfoldWords
<1>6. \A e \in ElemWords : Unfold(page)[e] \in Store!Visible
  BY <1>2, <1>4, <1>5 DEF ElemWords
<1>7. \A e \in ElemWords : Unfold(page)[e] # Store!NullTree
  BY <1>1, WordsType, NoTreeIsNull DEF Store!NullTree
<1>8. ASSUME NEW x \in Var, NEW e \in WordsFor(x)
      PROVE  TreeFor(x, e) \in Store!Visible
  <2>1. CASE x \in PcellVar /\ e = Null
    BY <1>2, <2>1 DEF TreeFor
  <2>2. CASE ~ (x \in PcellVar /\ e = Null)
    <3>1. e \in ElemWords
      BY <1>8, <2>2 DEF WordsFor, ElemWords
    <3>2. TreeFor(x, e) = Unfold(page)[e]
      BY <2>2 DEF TreeFor
    <3>3. QED
      BY <1>6, <3>1, <3>2
  <2>3. QED
    BY <2>1, <2>2
<1>9. QED
  BY <1>6, <1>7, <1>8

\* Roots that keep their words, whose trees stay as they are, hold what they held.
LEMMA SameHeld ==
    ASSUME UNCHANGED <<val, roots>>,
           \A e \in RootWords : Unfold(page)'[e] = Unfold(page)[e]
    PROVE  Held' = Held
<1>1. \A x \in roots : TreeIn(x)' = TreeIn(x)
  BY DEF TreeIn, RootWords
<1>2. QED
  BY <1>1 DEF Held

\* A variable registered with a word, or given one, is one given its tree.
LEMMA HoldStep ==
    ASSUME TypeOK, NoCycles, NEW x \in Var, NEW e \in WordsFor(x),
           AddRoot(x, e) \/ Assign(x, e)
    PROVE  Store!Next
<1>1. /\ status = "running" /\ status' = "running"
      /\ roots' = roots \cup {x}
      /\ val' = [val EXCEPT ![x] = e]
      /\ page' = page /\ ret' = ret
  BY DEF AddRoot, Assign
<1>2. TreeFor(x, e) \in Store!Visible
  BY <1>1, WordsAreVisible
<1>3. Held' = [y \in roots \cup {x} |-> IF y = x THEN TreeFor(x, e) ELSE Held[y]]
  <2>1. ASSUME NEW y \in roots \cup {x}
        PROVE  TreeIn(y)' = IF y = x THEN TreeFor(x, e) ELSE Held[y]
    <3>1. val'[y] = IF y = x THEN e ELSE val[y]
      BY <1>1, <2>1 DEF TypeOK
    <3>2. QED
      BY <1>1, <2>1, <3>1 DEF TreeIn, TreeFor, Held
  <2>2. QED
    BY <1>1, <2>1 DEF Held
<1>4. Held = [y \in roots |-> TreeIn(y)] /\ DOMAIN Held = roots
  BY DEF Held
<1>5. Store!Hold(x, TreeFor(x, e))
  BY <1>1, <1>3, <1>4 DEF Store!Hold, Store!Keep, Held
<1>6. QED
  BY <1>2, <1>5 DEF Store!Next

\* A variable that ends, its tree given up or handed on.
LEMMA DropStep ==
    ASSUME TypeOK, NoCycles, NEW x \in Var, DelRoot(x) \/ ReturnRoot(x)
    PROVE  Store!Next
<1>1. /\ status = "running" /\ status' = "running"
      /\ x \in roots /\ roots' = roots \ {x}
      /\ val' = [val EXCEPT ![x] = Empty(x)]
      /\ page' = page
  BY DEF DelRoot, ReturnRoot
<1>2. Held' = [y \in roots \ {x} |-> Held[y]]
  <2>1. \A y \in roots \ {x} : TreeIn(y)' = Held[y]
    BY <1>1 DEF TypeOK, TreeIn, Held
  <2>2. QED
    BY <1>1, <2>1 DEF Held
<1>3. Held = [y \in roots |-> TreeIn(y)] /\ DOMAIN Held = roots
  BY DEF Held
<1>4. CASE DelRoot(x)
  <2>1. ret' = ret
    BY <1>4 DEF DelRoot
  <2>2. Store!Release(x)
    BY <1>1, <1>2, <1>3, <2>1 DEF Store!Release, Held
  <2>3. QED
    BY <2>2 DEF Store!Next
<1>5. CASE ReturnRoot(x)
  <2>1. ret' = IF x \in PcellVar /\ val[x] = Null THEN UNDEF ELSE val[x]
    BY <1>5 DEF ReturnRoot
  <2>2. Held[x] = IF x \in PcellVar /\ val[x] = Null THEN <<>> ELSE Unfold(page)[val[x]]
    BY <1>1 DEF Held, TreeIn
  <2>3. Unfold(page)[UNDEF] = <<UNDEF>>
    BY PageWords, UnfoldWords DEF TypeOK, NoCycles
  <2>4. Unfold(page)[val[x]] # <<>>
    <3>1. val[x] \in Elem
      BY DEF TypeOK
    <3>2. QED
      BY <3>1, NoTreeIsNull DEF TypeOK, NoCycles
  <2>5. InHand' = IF Held[x] = <<>> THEN <<UNDEF>> ELSE Held[x]
    BY <1>1, <2>1, <2>2, <2>3, <2>4 DEF InHand
  <2>6. Store!Undefined = <<UNDEF>> /\ Store!NullTree = <<>>
    BY DEF Store!Undefined, Store!Leaf, Store!UNDEF, UNDEF, Store!NullTree
  <2>7. Store!Return(x)
    BY <1>1, <1>2, <1>3, <2>5, <2>6 DEF Store!Return, Held, InHand
  <2>8. QED
    BY <2>7 DEF Store!Next
<1>6. QED
  BY <1>4, <1>5

\* new_Cell, whatever it collects, builds the pair it was asked for.
LEMMA ConsStep ==
    ASSUME TypeOK, NoCycles, status = "running", status' = "running",
           NEW h \in ElemWords, NEW t \in ElemWords,
           Held' = Held, Unfold(page)'[ret'] = <<Unfold(page)[h], Unfold(page)[t]>>
    PROVE  Store!Next
<1>1. /\ Unfold(page)[h] \in Store!Visible \ {Store!NullTree}
      /\ Unfold(page)[t] \in Store!Visible \ {Store!NullTree}
  BY WordsAreVisible
<1>2. Store!Cons(Unfold(page)[h], Unfold(page)[t])
  BY DEF Store!Cons, Held
<1>3. QED
  BY <1>1, <1>2 DEF Store!Next

\* Memory runs out, or the process goes astray: no tree changes.
LEMMA FailStep ==
    ASSUME status' # "running", Held' = Held
    PROVE  Store!Next
<1>1. Store!Undefined = <<UNDEF>>
  BY DEF Store!Undefined, Store!Leaf, Store!UNDEF, UNDEF
<1>2. Store!Fail
  BY <1>1 DEF Store!Fail, Held
<1>3. QED
  BY <1>2 DEF Store!Next

\* Nothing is left in the client's hand, and no tree changes.
LEMMA GiveUpStep ==
    ASSUME TypeOK', NoCycles', status' = status, ret' = UNDEF, Held' = Held
    PROVE  Store!Next
<1>1. Store!Undefined = <<UNDEF>>
  BY DEF Store!Undefined, Store!Leaf, Store!UNDEF, UNDEF
<1>2. Unfold(page)'[UNDEF] = <<UNDEF>>
  BY PageWords, UnfoldWords DEF TypeOK, NoCycles
<1>3. Store!GiveUp
  BY <1>1, <1>2 DEF Store!GiveUp, Held
<1>4. QED
  BY <1>3 DEF Store!Next

\* Roots whose cells have moved hold what they held.
LEMMA MovedHeld ==
    ASSUME TypeOK, NoDanglingAddress, NoCycles, PcellsHoldCells,
           NEW h \in ElemWords, NEW t \in ElemWords, NEW c, NEW m, NEW dead, Moves(h, t, c, m, dead)
    PROVE  Held' = Held
<1> DEFINE old == allocated \cup {c}
<1>1. /\ old \in SUBSET Page /\ m \in Injection(old, Page \ old)
      /\ val' = MovedRoots(m) /\ roots' = roots
  BY DEF TypeOK, Moves
<1>2. \A x \in roots : Unfold(page')[MovedElem(m, val[x])] = Unfold(page)[val[x]]
  BY NewCellTrees DEF NoCycles
<1> HIDE DEF old
<1>3. ASSUME NEW x \in roots
      PROVE  TreeIn(x)' = TreeIn(x)
  <2>1. x \in Var /\ val[x] \in Elem
    BY DEF TypeOK
  <2>2. TreeIn(x)' = IF x \in PcellVar /\ val'[x] = Null THEN <<>> ELSE Unfold(page')[val'[x]]
    BY DEF TreeIn
  <2>3. CASE x \notin PcellVar
    <3>1. val'[x] = MovedElem(m, val[x])
      BY <1>1, <2>1, <2>3 DEF MovedRoots
    <3>2. QED
      BY <1>2, <2>2, <2>3, <3>1 DEF TreeIn
  <2>4. CASE x \in PcellVar /\ val[x] = Null
    <3>1. val'[x] = Moved(m, Null)
      BY <1>1, <2>1, <2>4 DEF MovedRoots
    <3>2. Moved(m, Null) = Null
      <4>1. Null \in Elem /\ Null \notin old
        BY <1>1, PageWords
      <4>2. QED
        BY <1>1, <4>1, MovedWord
    <3>3. QED
      BY <2>2, <2>4, <3>1, <3>2 DEF TreeIn
  <2>5. CASE x \in PcellVar /\ val[x] # Null
    <3>1. val[x] \in Page
      BY <2>5 DEF PcellsHoldCells
    <3>2. val[x] \in old
      BY <3>1, NoDanglingParts, PageWords DEF PointsInto, RootWords, old
    <3>3. /\ Moved(m, val[x]) = MovedElem(m, val[x])
          /\ Moved(m, val[x]) \in Page
      BY <1>1, <3>2, MovedWord
    <3>4. val'[x] = MovedElem(m, val[x]) /\ val'[x] # Null
      BY <1>1, <2>1, <2>5, <3>3, PageWords DEF MovedRoots
    <3>5. QED
      BY <1>2, <2>2, <2>5, <3>4 DEF TreeIn
  <2>6. QED
    BY <2>3, <2>4, <2>5
<1>4. QED
  BY <1>1, <1>3 DEF Held

\* Every step of the allocator is a step of PairStore, or changes nothing
\* that a client can see.
LEMMA StepsImplement ==
    ASSUME TypeOK, NoDanglingAddress, NoCycles, PcellsHoldCells, EmptyHanded,
           TypeOK', NoCycles', [Next]_vars
    PROVE  [Store!Next]_Store!store
<1>1. RootWords \subseteq Elem
  BY DEF TypeOK, RootWords
<1>2. ASSUME NEW h \in ElemWords, NEW t \in ElemWords, NewCell(h, t)
      PROVE  Store!Next
  <2>1. PICK c, m, dead : Moves(h, t, c, m, dead)
    BY <1>2, NewCellMoves
  <2>2. status = "running"
    BY <1>2 DEF NewCell
  <2>3. Held' = Held
    BY <2>1, <2>2, MovedHeld
  <2>4. CASE Full(h, t, c, m, dead)
    <3>1. status' = "oom"
      BY <2>1, <2>4 DEF Moves
    <3>2. QED
      BY <2>3, <3>1, FailStep
  <2>5. CASE ~ Full(h, t, c, m, dead)
    <3>1. status' = "running" /\ ret' = m[c]
      BY <2>1, <2>5 DEF Moves
    <3>2. Unfold(page')[m[c]] = <<Unfold(page)[h], Unfold(page)[t]>>
      BY <2>1, <2>2, NewCellTrees DEF NoCycles
    <3>3. Unfold(page)'[ret'] = <<Unfold(page)[h], Unfold(page)[t]>>
      BY <3>1, <3>2
    <3>4. QED
      BY <2>2, <2>3, <3>1, <3>3, ConsStep
  <2>6. QED
    BY <2>4, <2>5
<1>3. CASE UseStaleRoot
  <2>1. status' = "wild" /\ UNCHANGED <<page, val, roots>>
    BY <1>3 DEF UseStaleRoot
  <2>2. Held' = Held
    BY <2>1, SameHeld
  <2>3. QED
    BY <2>1, <2>2, FailStep
<1>4. CASE Forget
  <2>1. status' = status /\ ret' = UNDEF /\ UNCHANGED <<page, val, roots>>
    BY <1>4 DEF Forget
  <2>2. Held' = Held
    BY <2>1, SameHeld
  <2>3. QED
    BY <2>1, <2>2, GiveUpStep
<1>5. CASE Gc
  <2>1. PICK dead \in SUBSET allocated :
           /\ page' = Sweep(page, Reach(page, RootWords \cup dead))
           /\ status' \in {"oom", status}
           /\ ret' = UNDEF /\ UNCHANGED <<val, roots>>
    BY <1>5 DEF Gc, StackWords
  <2> DEFINE live == Reach(page, RootWords \cup dead)
  <2>2. page \in [Page -> Cell] /\ Acyclic(page)
    BY DEF TypeOK, NoCycles
  <2>3. /\ live \in SUBSET Page /\ Closed(page, live)
        /\ RootWords \subseteq live \cup (Elem \ Page)
    BY <1>1, ReachHoldsWords, ReachClosed
  <2>4. Unfold(page)' = Unfold(Sweep(page, live))
    BY <2>1
  <2> HIDE DEF live
  <2>5. \A e \in live \cup (Elem \ Page) : Unfold(Sweep(page, live))[e] = Unfold(page)[e]
    BY <2>2, <2>3, SweptTrees
  <2>6. Held' = Held
    BY <2>1, <2>3, <2>4, <2>5, SameHeld
  <2>7. status' = "oom" \/ status' = status
    BY <2>1
  <2>8. QED
    BY <2>1, <2>6, <2>7, FailStep, GiveUpStep
<1>6. CASE Recover
  <2>1. /\ status = "oom" /\ status' = "running" /\ ret = UNDEF
        /\ UNCHANGED <<page, val, roots, ret>>
    BY <1>6 DEF Recover, EmptyHanded
  <2>2. Held' = Held
    BY <2>1, SameHeld
  <2>3. Unfold(page)[UNDEF] = <<UNDEF>>
    BY PageWords, UnfoldWords DEF TypeOK, NoCycles
  <2>4. Store!Recover
    BY <2>1, <2>2, <2>3 DEF Store!Recover, Held
  <2>5. QED
    BY <2>4 DEF Store!Next
<1>7. CASE UNCHANGED vars
  <2>1. UNCHANGED <<page, val, roots, ret, status>>
    BY <1>7 DEF vars
  <2>2. Held' = Held
    BY <2>1, SameHeld
  <2>3. UNCHANGED Store!store
    BY <2>1, <2>2 DEF Store!store, Held
  <2>4. QED
    BY <2>3
<1>8. QED
  BY <1>2, <1>3, <1>4, <1>5, <1>6, <1>7, HoldStep, DropStep DEF Next

\* TestAllocator keeps PairStore's promise for every heap, every limit and
\* every client: with every cell moving at every allocation no registered
\* variable's tree ever changes.
THEOREM StoreImplemented == Spec => Implements
<1>1. Init /\ TypeOK /\ NoCycles => Store!Init
  <2>1. SUFFICES ASSUME Init, TypeOK, NoCycles PROVE Store!Init
    OBVIOUS
  <2>2. roots = {} /\ ret = UNDEF /\ status = "running"
    BY <2>1 DEF Init
  <2>3. [x \in roots |-> TreeIn(x)] = <<>>
    BY <2>2
  <2>4. Unfold(page)[UNDEF] = <<UNDEF>>
    BY <2>1, PageWords, UnfoldWords DEF TypeOK, NoCycles
  <2>5. QED
    BY <2>2, <2>3, <2>4 DEF Store!Init, Store!Undefined, Store!Leaf, Store!UNDEF, UNDEF
<1>2. TypeOK /\ NoDanglingAddress /\ NoCycles /\ PcellsHoldCells /\ EmptyHanded
          /\ TypeOK' /\ NoCycles' /\ [Next]_vars
          => [Store!Next]_Store!store
  BY StepsImplement
<1>3. QED
  BY <1>1, <1>2, TypeCorrect, NothingDangles, NothingCycles, PcellsStayCells, PTL
     DEF Spec, Implements, Store!Spec
=============================================================================
