---------------------------- MODULE CellsProofs -----------------------------
(***************************************************************************)
(* Facts about the cells that a set of words keeps alive, for any page and *)
(* any number of cells.  Both allocators' proofs rest on them.             *)
(***************************************************************************)
EXTENDS Cells, Sequences, FunctionTheorems, FiniteSetTheorems, WellFoundedInduction,
        TLAPS

\* What is reached is what every closed set of cells with the roots holds.
LEMMA ReachIsLeast ==
    ASSUME NEW page, NEW words, NEW c
    PROVE  c \in Reach(page, words)
             <=> /\ c \in Page
                 /\ \A S \in SUBSET Page :
                        words \cap Page \subseteq S /\ Closed(page, S) => c \in S
<1>1. ASSUME NEW S \in SUBSET Page,
             words \cap Page \subseteq S, Closed(page, S), c \in Page \ S
      PROVE  \E dead \in SUBSET (Page \ words) : Closed(page, Page \ dead) /\ c \in dead
  <2>1. Page \ S \in SUBSET (Page \ words) /\ Page \ (Page \ S) = S
    BY <1>1
  <2>2. QED
    BY <2>1, <1>1
<1>2. ASSUME NEW dead \in SUBSET (Page \ words), Closed(page, Page \ dead), c \in dead
      PROVE  \E S \in SUBSET Page :
                 words \cap Page \subseteq S /\ Closed(page, S) /\ c \notin S
  <2>1. words \cap Page \subseteq Page \ dead
    BY <1>2
  <2>2. QED
    BY <2>1, <1>2
<1>3. ASSUME NEW dead \in SUBSET (Page \ words)
      PROVE  Closed(page, Page \ dead)
               <=> \A d \in Page \ dead : page[d].hd \notin dead /\ page[d].tl \notin dead
  <2>1. \A d : Children(page, d) \subseteq Page \ dead
                <=> page[d].hd \notin dead /\ page[d].tl \notin dead
    BY <1>3 DEF Children
  <2>2. QED
    BY <2>1 DEF Closed
<1>4. c \in Reach(page, words)
        <=> /\ c \in Page
            /\ \A dead \in SUBSET (Page \ words) : Closed(page, Page \ dead) => c \notin dead
  BY <1>3, Zenon DEF Reach
<1>5. QED
  BY <1>1, <1>2, <1>4

\* Everything a reached cell points to is reached: _mark follows the head
\* and the tail of every cell it adds.
LEMMA ReachClosed ==
    ASSUME NEW page, NEW words
    PROVE  Closed(page, Reach(page, words))
<1> DEFINE R == Reach(page, words)
<1>1. SUFFICES ASSUME NEW c \in R, NEW e \in Children(page, c)
               PROVE  e \in R
  BY DEF Closed
<1>2. e \in Page
  BY DEF Children
<1>3. ASSUME NEW S \in SUBSET Page,
             words \cap Page \subseteq S, Closed(page, S)
      PROVE  e \in S
  <2>1. c \in S
    BY <1>3, ReachIsLeast
  <2>2. QED
    BY <2>1, <1>3 DEF Closed
<1>4. QED
  BY <1>2, <1>3, ReachIsLeast

\* Marking never leaves the page, and marks the roots themselves.
LEMMA ReachHoldsWords ==
    ASSUME NEW page, NEW words
    PROVE  /\ Reach(page, words) \subseteq Page
           /\ words \cap Page \subseteq Reach(page, words)
BY ReachIsLeast

\* Marking adds nothing that is not needed: a closed set of cells that
\* holds the roots holds every cell that is marked.
LEMMA ReachLeast ==
    ASSUME NEW page, NEW words, NEW S \in SUBSET Page,
           words \cap Page \subseteq S, Closed(page, S)
    PROVE  Reach(page, words) \subseteq S
BY ReachIsLeast

\* More roots keep at least as many cells alive.
LEMMA ReachMonotone ==
    ASSUME NEW page, NEW words, NEW more, words \subseteq more
    PROVE  Reach(page, words) \subseteq Reach(page, more)
<1>1. words \cap Page \subseteq Reach(page, more)
  BY ReachHoldsWords
<1>2. QED
  BY <1>1, ReachClosed, ReachHoldsWords, ReachLeast

\* A set closed on one page is closed on every page that agrees with it
\* there: a sweep leaves the live cells as they are.
LEMMA ClosedAgrees ==
    ASSUME NEW page, NEW page2, NEW S \in SUBSET Page,
           \A c \in S : page2[c] = page[c], Closed(page, S)
    PROVE  Closed(page2, S)
BY DEF Closed, Children

\* Every cell address is a word above UNDEF, so no byte, no null pointer
\* and no undefined element is one.
LEMMA PageWords ==
    /\ Page \subseteq Elem
    /\ Page # {}
    /\ \A e \in Page : IsPcell(e)
    /\ UNDEF \in Elem \ Page
    /\ Null \in Elem \ Page
BY NCellsAssumption DEF Page, Elem, UNDEF, Null, IsPcell

\* The cell a sweep writes is a cell, wherever it links to.
LEMMA FreeCellType ==
    ASSUME NEW c \in Page, NEW dead \in SUBSET Page
    PROVE  FreeCell(c, dead) \in Cell
<1>1. FreeLink(c, dead) \in Elem
  <2>1. CASE \E d \in dead : IsBefore(d, c, dead)
    BY <2>1, PageWords DEF FreeLink
  <2>2. CASE ~ \E d \in dead : IsBefore(d, c, dead)
    BY <2>2, PageWords DEF FreeLink
  <2>3. QED
    BY <2>1, <2>2
<1>2. QED
  BY <1>1, PageWords DEF FreeCell, Cell

\* A word is the address of a cell exactly when it lies on the page.
LEMMA PcellIsPage ==
    \A e \in Elem : IsPcell(e) <=> e \in Page
BY NCellsAssumption DEF Elem, Page, IsPcell, UNDEF

\* The page is finite, so any set of its cells has a size.
LEMMA PageFinite ==
    /\ IsFiniteSet(Page)
    /\ Cardinality(Page) = NCells
    /\ \A S \in SUBSET Page : IsFiniteSet(S) /\ Cardinality(S) \in Nat
<1>1. UNDEF + 1 \in Int /\ UNDEF + NCells \in Int
  BY NCellsAssumption DEF UNDEF
<1>2. IsFiniteSet(Page) /\ Cardinality(Page) = NCells
  <2>1. Cardinality(Page) = IF UNDEF + 1 > UNDEF + NCells THEN 0
                            ELSE (UNDEF + NCells) - (UNDEF + 1) + 1
    BY <1>1, FS_Interval DEF Page
  <2>2. QED
    BY <1>1, <2>1, FS_Interval, NCellsAssumption DEF Page, UNDEF
<1>3. QED
  BY <1>2, FS_Subset, FS_CardinalityType

\* Some set of cells of any nonempty family of them lies in no other one.
LEMMA MaximalSet ==
    ASSUME NEW B \in SUBSET (SUBSET Page), B # {}
    PROVE  \E S \in B : \A T \in B : S \subseteq T => T = S
<1> DEFINE C == {Page \ S : S \in B}
           R == StrictSubsetOrdering(Page)
           F == FiniteSubsetsOf(Page)
<1>1. IsWellFoundedOn(R, F)
  BY FS_StrictSubsetOrderingWellFounded
<1>2. F = SUBSET Page
  BY PageFinite DEF FiniteSubsetsOf
<1>3. C \subseteq F /\ C # {}
  <2>1. PICK S : S \in B
    OBVIOUS
  <2>2. Page \ S \in C
    BY <2>1
  <2>3. C \subseteq SUBSET Page
    OBVIOUS
  <2> HIDE DEF F, C
  <2>4. QED
    BY <1>2, <2>2, <2>3
<1>4. PICK X \in C : \A Y \in C : ~ (<<Y, X>> \in R)
  <2> HIDE DEF C, R, F
  <2>1. QED
    BY <1>1, <1>3, WFMin
<1>5. PICK S \in B : X = Page \ S
  OBVIOUS
<1>6. ASSUME NEW T \in B, S \subseteq T, T # S
      PROVE  FALSE
  <2> DEFINE Y == Page \ T
  <2>1. Y \subseteq X /\ Y # X /\ X \in SUBSET Page /\ Y \in SUBSET Page /\ Y \in C
    BY <1>5, <1>6
  <2>2. <<Y, X>> \in R
    <3> HIDE DEF Y, C
    <3>1. QED
      BY <2>1 DEF StrictSubsetOrdering
  <2>3. QED
    BY <1>4, <2>1, <2>2
<1>7. QED
  BY <1>6

-----------------------------------------------------------------------------
(***************************************************************************)
(* What a call _mark( live, p ) should compute: the least set with p and   *)
(* the live cells that, but for those, is closed.                          *)
(***************************************************************************)
ClosedBut(page, live, p, S) ==
    /\ live \subseteq S
    /\ {p} \cap Page \subseteq S
    /\ \A c \in S \ live : Children(page, c) \subseteq S

Marked(page, live, p) ==
    {c \in Page : \A S \in SUBSET Page : ClosedBut(page, live, p, S) => c \in S}

LEMMA MarkedIsLeast ==
    ASSUME NEW page, NEW live \in SUBSET Page, NEW p
    PROVE  /\ Marked(page, live, p) \in SUBSET Page
           /\ ClosedBut(page, live, p, Marked(page, live, p))
           /\ \A S \in SUBSET Page :
                 ClosedBut(page, live, p, S) => Marked(page, live, p) \subseteq S
<1> DEFINE M == Marked(page, live, p)
<1>1. \A S \in SUBSET Page : ClosedBut(page, live, p, S) => M \subseteq S
  BY DEF Marked
<1>2. M \subseteq Page /\ live \subseteq M /\ {p} \cap Page \subseteq M
  BY DEF Marked, ClosedBut
<1>3. ASSUME NEW c \in M \ live, NEW e \in Children(page, c)
      PROVE  e \in M
  <2>1. e \in Page
    BY DEF Children
  <2>2. \A S \in SUBSET Page : ClosedBut(page, live, p, S) => e \in S
    BY <1>1, <1>3 DEF ClosedBut
  <2>3. QED
    BY <2>1, <2>2 DEF Marked
<1> HIDE DEF M
<1>4. ClosedBut(page, live, p, M)
  BY <1>2, <1>3 DEF ClosedBut
<1>5. QED
  BY <1>1, <1>2, <1>4 DEF M

\* A word that is no cell, and a cell that is live, add nothing.
LEMMA MarkedAtOnce ==
    ASSUME NEW page, NEW live \in SUBSET Page, NEW p, p \in Page => p \in live
    PROVE  Marked(page, live, p) = live
<1>1. ClosedBut(page, live, p, live)
  BY DEF ClosedBut
<1>2. QED
  BY <1>1, MarkedIsLeast DEF ClosedBut

\* Marking a new cell is marking from its head, and from its tail what that
\* has left: what the head leads to is not followed again from the tail.
LEMMA MarkedInTurn ==
    ASSUME NEW page, NEW live \in SUBSET Page, NEW p \in Page \ live
    PROVE  LET heads == Marked(page, live \cup {p}, page[p].hd)
           IN  /\ heads \in SUBSET Page
               /\ live \cup {p} \subseteq heads
               /\ Marked(page, live, p) = Marked(page, heads, page[p].tl)
<1> DEFINE visited == live \cup {p}
           W == Marked(page, live, p)
           H == Marked(page, visited, page[p].hd)
           T == Marked(page, H, page[p].tl)
<1>1. visited \in SUBSET Page
  OBVIOUS
<1>2. /\ H \in SUBSET Page
      /\ ClosedBut(page, visited, page[p].hd, H)
      /\ \A S \in SUBSET Page : ClosedBut(page, visited, page[p].hd, S) => H \subseteq S
  BY <1>1, MarkedIsLeast
<1>3. /\ T \in SUBSET Page
      /\ ClosedBut(page, H, page[p].tl, T)
      /\ \A S \in SUBSET Page : ClosedBut(page, H, page[p].tl, S) => T \subseteq S
  BY <1>2, MarkedIsLeast
<1>4. /\ W \in SUBSET Page
      /\ ClosedBut(page, live, p, W)
      /\ \A S \in SUBSET Page : ClosedBut(page, live, p, S) => W \subseteq S
  BY MarkedIsLeast
<1> HIDE DEF W, H, T
<1>5. {page[p].hd, page[p].tl} \cap Page = Children(page, p)
  BY DEF Children
<1>6. T \subseteq W
  <2>1. Children(page, p) \subseteq W /\ visited \subseteq W
    BY <1>4 DEF ClosedBut
  <2>2. ClosedBut(page, visited, page[p].hd, W)
    BY <1>4, <1>5, <2>1 DEF ClosedBut
  <2>3. H \subseteq W
    BY <1>2, <1>4, <2>2
  <2>4. live \subseteq H
    BY <1>2 DEF ClosedBut
  <2>5. ClosedBut(page, H, page[p].tl, W)
    BY <1>4, <1>5, <2>1, <2>3, <2>4 DEF ClosedBut
  <2>6. QED
    BY <1>3, <1>4, <2>5
<1>7. W \subseteq T
  <2>1. H \subseteq T /\ visited \subseteq H
    BY <1>2, <1>3 DEF ClosedBut
  <2>2. ASSUME NEW c \in T \ live
        PROVE  Children(page, c) \subseteq T
    <3>1. CASE c = p
      BY <1>2, <1>3, <1>5, <2>1, <3>1 DEF ClosedBut
    <3>2. CASE c \in H \ visited
      BY <1>2, <2>1, <3>2 DEF ClosedBut
    <3>3. CASE c \in T \ H
      BY <1>3, <3>3 DEF ClosedBut
    <3>4. QED
      BY <2>2, <3>1, <3>2, <3>3
  <2>3. ClosedBut(page, live, p, T)
    BY <2>1, <2>2 DEF ClosedBut
  <2>4. QED
    BY <1>3, <1>4, <2>3
<1>8. QED
  BY <1>2, <1>6, <1>7 DEF W, H, T, ClosedBut

(***************************************************************************)
(* A function that follows the equation of _mark.                          *)
(***************************************************************************)
Calls == (SUBSET Page) \X (Page \cup {Null})

OneCall(page, Mark, live, p) ==
    IF p = Null \/ p \in live THEN live
    ELSE LET visited == live \cup {p}
             heads   == IF IsPcell(page[p].hd) THEN Mark[<<visited, page[p].hd>>]
                                               ELSE visited
         IN  IF IsPcell(page[p].tl) THEN Mark[<<heads, page[p].tl>>] ELSE heads

Follows(page, Mark) ==
    Mark = [arg \in Calls |-> OneCall(page, Mark, arg[1], arg[2])]

\* One call does what it should when the calls it makes do.
LEMMA OneCallMarks ==
    ASSUME NEW page \in [Page -> Cell], NEW Mark,
           NEW live \in SUBSET Page, NEW p \in Page \cup {Null},
           \A more \in SUBSET Page, q \in Page :
                live \subseteq more /\ live # more
                    => Mark[<<more, q>>] = Marked(page, more, q)
    PROVE  OneCall(page, Mark, live, p) = Marked(page, live, p)
<1>1. CASE p = Null \/ p \in live
  <2>1. p \in Page => p \in live
    BY <1>1, PageWords
  <2>2. Marked(page, live, p) = live
    BY <2>1, MarkedAtOnce
  <2>3. QED
    BY <1>1, <2>2 DEF OneCall
<1>2. CASE p \in Page \ live
  <2> DEFINE visited == live \cup {p}
             H == Marked(page, visited, page[p].hd)
             heads == IF IsPcell(page[p].hd) THEN Mark[<<visited, page[p].hd>>]
                                             ELSE visited
  <2>1. p # Null /\ p \notin live
    BY <1>2, PageWords
  <2>2. page[p].hd \in Elem /\ page[p].tl \in Elem
    BY <1>2 DEF Cell
  <2>3. /\ H \in SUBSET Page
        /\ visited \subseteq H
        /\ Marked(page, live, p) = Marked(page, H, page[p].tl)
    BY <1>2, MarkedInTurn, ZenonT(40)
  <2>4. visited \in SUBSET Page /\ live \subseteq visited /\ live # visited
    BY <1>2
  <2>5. heads = H
    <3>1. CASE page[p].hd \in Page
      <4>1. IsPcell(page[p].hd)
        BY <3>1, PageWords
      <4> HIDE DEF visited
      <4>2. QED
        BY <2>4, <3>1, <4>1
    <3>2. CASE page[p].hd \notin Page
      <4>1. ~ IsPcell(page[p].hd)
        BY <2>2, <3>2, PcellIsPage
      <4> HIDE DEF visited
      <4>2. H = visited
        BY <2>4, <3>2, MarkedAtOnce
      <4>3. QED
        BY <4>1, <4>2
    <3>3. QED
      BY <3>1, <3>2
  <2>6. live \subseteq H /\ live # H
    BY <2>1, <2>3
  <2>7. OneCall(page, Mark, live, p)
           = IF IsPcell(page[p].tl) THEN Mark[<<H, page[p].tl>>] ELSE H
    BY <2>1, <2>5 DEF OneCall
  <2> HIDE DEF H
  <2>8. CASE page[p].tl \in Page
    <3>1. IsPcell(page[p].tl)
      BY <2>8, PageWords
    <3>2. Mark[<<H, page[p].tl>>] = Marked(page, H, page[p].tl)
      BY <2>3, <2>6, <2>8
    <3>3. QED
      BY <2>3, <2>7, <3>1, <3>2
  <2>9. CASE page[p].tl \notin Page
    <3>1. ~ IsPcell(page[p].tl)
      BY <2>2, <2>9, PcellIsPage
    <3>2. Marked(page, H, page[p].tl) = H
      BY <2>3, <2>9, MarkedAtOnce
    <3>3. QED
      BY <2>3, <2>7, <3>1, <3>2
  <2>10. QED
    BY <2>8, <2>9
<1>3. QED
  BY <1>1, <1>2

\* There is such a function.
LEMMA SomeMarkFollows ==
    ASSUME NEW page \in [Page -> Cell]
    PROVE  \E Mark : Follows(page, Mark)
<1> DEFINE M == [arg \in Calls |-> Marked(page, arg[1], arg[2])]
<1>1. \A more \in SUBSET Page, q \in Page : M[<<more, q>>] = Marked(page, more, q)
  BY DEF Calls
<1>2. ASSUME NEW arg \in Calls
      PROVE  M[arg] = OneCall(page, M, arg[1], arg[2])
  <2>1. arg[1] \in SUBSET Page /\ arg[2] \in Page \cup {Null}
    BY DEF Calls
  <2>2. M[arg] = Marked(page, arg[1], arg[2])
    OBVIOUS
  <2> HIDE DEF M
  <2>3. QED
    BY <1>1, <2>1, <2>2, OneCallMarks
<1>3. M = [arg \in Calls |-> M[arg]]
  OBVIOUS
<1> HIDE DEF M
<1>4. Follows(page, M)
  BY <1>2, <1>3 DEF Follows
<1>5. QED
  BY <1>4

\* And each computes what it should: a call that did not would have made
\* another one that did not, with more cells live.
LEMMA FollowingMarks ==
    ASSUME NEW page \in [Page -> Cell], NEW Mark, Follows(page, Mark),
           NEW live \in SUBSET Page, NEW p \in Page \cup {Null}
    PROVE  Mark[<<live, p>>] = Marked(page, live, p)
<1> DEFINE Right(l) == \A q \in Page \cup {Null} : Mark[<<l, q>>] = Marked(page, l, q)
           B == {l \in SUBSET Page : ~ Right(l)}
<1>1. SUFFICES ASSUME B # {} PROVE FALSE
  OBVIOUS
<1>2. PICK S \in B : \A T \in B : S \subseteq T => T = S
  <2> HIDE DEF Right
  <2>1. B \in SUBSET (SUBSET Page)
    OBVIOUS
  <2> HIDE DEF B
  <2>2. QED
    BY <1>1, <2>1, MaximalSet
<1>3. S \in SUBSET Page
  OBVIOUS
<1>4. \A more \in SUBSET Page, q \in Page :
          S \subseteq more /\ S # more => Mark[<<more, q>>] = Marked(page, more, q)
  BY <1>2
<1>5. ASSUME NEW q \in Page \cup {Null}
      PROVE  Mark[<<S, q>>] = Marked(page, S, q)
  <2>1. <<S, q>> \in Calls
    BY <1>3 DEF Calls
  <2>2. Mark[<<S, q>>] = OneCall(page, Mark, S, q)
    BY <2>1 DEF Follows
  <2>3. QED
    BY <1>3, <1>4, <2>2, OneCallMarks
<1>6. QED
  BY <1>5

\* _mark computes what it should, on any page of cells.
LEMMA MarkFromMarks ==
    ASSUME NEW page \in [Page -> Cell],
           NEW live \in SUBSET Page, NEW p \in Page \cup {Null}
    PROVE  MarkFrom(page, live, p) = Marked(page, live, p)
<1> DEFINE Mark == CHOOSE Mark : Follows(page, Mark)
<1>1. Follows(page, Mark)
  BY SomeMarkFollows
<1>2. MarkFrom(page, live, p) = Mark[<<live, p>>]
  BY DEF MarkFrom, Follows, OneCall, Calls
<1> HIDE DEF Mark
<1>3. QED
  BY <1>1, <1>2, FollowingMarks

\* Marking from one more word, with what the others reach marked before,
\* leaves marked what all of them reach: gc() goes over the roots like that.
LEMMA MarkedReach ==
    ASSUME NEW page, NEW words, NEW p
    PROVE  Marked(page, Reach(page, words), p) = Reach(page, words \cup {p})
<1> DEFINE live == Reach(page, words)
           all == Reach(page, words \cup {p})
           M == Marked(page, live, p)
<1>1. live \in SUBSET Page /\ all \in SUBSET Page
  BY ReachHoldsWords
<1>2. Closed(page, live) /\ Closed(page, all)
  BY ReachClosed
<1>3. live \subseteq all
  BY ReachMonotone
<1>4. {p} \cap Page \subseteq all /\ words \cap Page \subseteq live
  BY ReachHoldsWords
<1> HIDE DEF live, all
<1>5. /\ M \in SUBSET Page
      /\ ClosedBut(page, live, p, M)
      /\ \A S \in SUBSET Page : ClosedBut(page, live, p, S) => M \subseteq S
  BY <1>1, MarkedIsLeast
<1>6. M \subseteq all
  <2>1. ClosedBut(page, live, p, all)
    BY <1>2, <1>3, <1>4 DEF ClosedBut, Closed
  <2>2. QED
    BY <1>1, <1>5, <2>1
<1> HIDE DEF M
<1>7. all \subseteq M
  <2>1. live \subseteq M /\ {p} \cap Page \subseteq M
    BY <1>5 DEF ClosedBut
  <2>2. Closed(page, M)
    BY <1>2, <1>5, <2>1 DEF ClosedBut, Closed
  <2>3. (words \cup {p}) \cap Page \subseteq M
    BY <1>4, <2>1
  <2>4. QED
    BY <1>5, <2>2, <2>3, ReachLeast DEF all
<1>8. QED
  BY <1>6, <1>7 DEF live, all, M

\* Nothing is reached from no roots.
LEMMA ReachNothing ==
    ASSUME NEW page
    PROVE  Reach(page, {}) = {}
<1>1. Closed(page, {})
  BY DEF Closed
<1>2. QED
  BY <1>1, ReachLeast

-----------------------------------------------------------------------------
(***************************************************************************)
(* Trees.  On a page without cycles every word stands for one tree.        *)
(***************************************************************************)
TreeOf(page, Tree, e) ==
    IF e \in Page THEN <<Tree[page[e].hd], Tree[page[e].tl]>> ELSE <<e>>

\* Some number of any nonempty set of numbers is the smallest.
LEMMA SmallestNumber ==
    ASSUME NEW S \in SUBSET Nat, S # {}
    PROVE  \E n \in S : \A m \in S : n <= m
<1> DEFINE less == OpToRel(<, Nat)
<1>1. IsWellFoundedOn(less, Nat)
  BY NatLessThanWellFounded, Zenon
<1>2. PICK n \in S : \A m \in S : ~ (<<m, n>> \in less)
  <2> HIDE DEF less
  <2>1. QED
    BY <1>1, WFMin, Zenon
<1>3. \A m \in S : ~ (m < n)
  BY <1>2, Zenon DEF OpToRel
<1>4. QED
  BY <1>3

\* A page on which every cell points downwards has no cycles.
LEMMA DownwardsIsAcyclic ==
    ASSUME NEW page, NEW S \in SUBSET Page, S # {},
           \A c \in S : \A d \in Children(page, c) : d < c
    PROVE  \E c \in S : Children(page, c) \cap S = {}
<1>1. Page \subseteq Nat
  BY NCellsAssumption DEF Page, UNDEF
<1>2. PICK c \in S : \A d \in S : c <= d
  BY <1>1, SmallestNumber
<1>3. ASSUME NEW d \in Children(page, c) \cap S
      PROVE  FALSE
  <2>1. c \in Nat /\ d \in Nat /\ d < c /\ c <= d
    BY <1>1, <1>2, <1>3
  <2>2. QED
    BY <2>1
<1>4. QED
  BY <1>3

\* The cells a sweep frees link downwards.
LEMMA FreeCellsLinkDown ==
    ASSUME NEW page, NEW dead \in SUBSET Page, NEW c \in Page, page[c] = FreeCell(c, dead)
    PROVE  \A d \in Children(page, c) : d < c
<1>1. page[c].hd = FreeLink(c, dead) /\ page[c].tl = UNDEF
  BY DEF FreeCell
<1>2. FreeLink(c, dead) = Null \/ FreeLink(c, dead) < c
  BY DEF FreeLink, IsBefore
<1>3. QED
  BY <1>1, <1>2, PageWords DEF Children

\* There is a function from words to their trees: built up from the cells
\* whose children are done.
LEMMA SomeTree ==
    ASSUME NEW page \in [Page -> Cell], Acyclic(page)
    PROVE  \E Tree : Tree = [e \in Elem |-> TreeOf(page, Tree, e)]
<1> DEFINE Done(S, Tree) ==
               /\ Tree = [e \in Elem |-> Tree[e]]
               /\ \A e \in S \cup (Elem \ Page) : Tree[e] = TreeOf(page, Tree, e)
           G == {S \in SUBSET Page : Closed(page, S) /\ \E Tree : Done(S, Tree)}
<1>1. {} \in G
  <2> DEFINE Leaves == [e \in Elem |-> <<e>>]
  <2>1. Done({}, Leaves)
    BY DEF TreeOf
  <2>2. Closed(page, {})
    BY DEF Closed
  <2> HIDE DEF Done
  <2>3. QED
    BY <2>1, <2>2
<1>2. PICK S \in G : \A T \in G : S \subseteq T => T = S
  <2> HIDE DEF Done
  <2>1. G \in SUBSET (SUBSET Page) /\ G # {}
    BY <1>1
  <2> HIDE DEF G
  <2>2. QED
    BY <2>1, MaximalSet
<1>3. S \in SUBSET Page /\ Closed(page, S)
  OBVIOUS
<1>4. PICK Tree : Done(S, Tree)
  BY <1>2
<1>5. S = Page
  <2>1. SUFFICES ASSUME S # Page PROVE FALSE
    OBVIOUS
  <2>2. PICK c \in Page \ S : Children(page, c) \cap (Page \ S) = {}
    BY <1>3, <2>1 DEF Acyclic
  <2>3. Children(page, c) \subseteq S
    BY <2>2 DEF Children
  <2> DEFINE T == S \cup {c}
             More == [e \in Elem |-> IF e = c THEN TreeOf(page, Tree, c) ELSE Tree[e]]
  <2>4. Closed(page, T)
    BY <1>3, <2>3 DEF Closed
  <2>5. c \in Elem \ S /\ c \in Page
    BY <2>2, PageWords
  <2>6. \A e \in Page : /\ page[e].hd \in Elem /\ page[e].tl \in Elem
                        /\ page[e].hd \in Page => page[e].hd \in Children(page, e)
                        /\ page[e].tl \in Page => page[e].tl \in Children(page, e)
    BY DEF Cell, Children
  <2>7. \A e \in Elem : e # c => More[e] = Tree[e]
    OBVIOUS
  <2>8. \A e \in S \cup {c} : page[e].hd # c /\ page[e].tl # c
    BY <1>3, <2>2, <2>3, <2>5, <2>6 DEF Closed
  <2>9. \A e \in S \cup {c} : TreeOf(page, More, e) = TreeOf(page, Tree, e)
    BY <1>3, <2>5, <2>6, <2>7, <2>8 DEF TreeOf
  <2>10. \A e \in T \cup (Elem \ Page) : More[e] = TreeOf(page, More, e)
    <3>1. More[c] = TreeOf(page, More, c)
      BY <2>5, <2>9
    <3>2. ASSUME NEW e \in S
          PROVE  More[e] = TreeOf(page, More, e)
      BY <1>3, <1>4, <2>5, <2>7, <2>9, PageWords
    <3>3. ASSUME NEW e \in Elem \ Page
          PROVE  More[e] = TreeOf(page, More, e)
      BY <1>4, <2>5, <2>7 DEF TreeOf
    <3>4. QED
      BY <3>1, <3>2, <3>3
  <2>11. Done(T, More)
    BY <2>10
  <2>12. T \in SUBSET Page /\ c \in T /\ c \notin S
    BY <1>3, <2>5
  <2> HIDE DEF Done, More, T
  <2>13. T \in G
    BY <2>4, <2>11, <2>12
  <2>14. QED
    BY <1>2, <2>12, <2>13 DEF T
<1>6. Page \cup (Elem \ Page) = Elem
  BY PageWords
<1>7. QED
  BY <1>4, <1>5, <1>6

\* What Unfold gives for each word.
LEMMA UnfoldWords ==
    ASSUME NEW page \in [Page -> Cell], Acyclic(page)
    PROVE  /\ \A e \in Elem \ Page : Unfold(page)[e] = <<e>>
           /\ \A c \in Page : Unfold(page)[c] = <<Unfold(page)[page[c].hd],
                                                  Unfold(page)[page[c].tl]>>
<1> DEFINE Tree == CHOOSE Tree : Tree = [e \in Elem |-> TreeOf(page, Tree, e)]
<1>1. Tree = [e \in Elem |-> TreeOf(page, Tree, e)]
  BY SomeTree
<1>2. Unfold(page) = Tree
  BY DEF Unfold, TreeOf
<1> HIDE DEF Tree
<1>3. \A e \in Elem : Tree[e] = TreeOf(page, Tree, e)
  BY <1>1
<1>4. QED
  BY <1>2, <1>3, PageWords DEF TreeOf

\* No tree is empty, as a null pointer's would be.
LEMMA NoTreeIsNull ==
    ASSUME NEW page \in [Page -> Cell], Acyclic(page)
    PROVE  \A e \in Elem : Unfold(page)[e] # <<>>
<1>1. \A u, v : <<u>> # <<>> /\ <<u, v>> # <<>>
  OBVIOUS
<1>2. QED
  BY <1>1, UnfoldWords, SMTT(30)

\* A word's tree only depends on the cells it leads to: pages that agree on
\* a closed set of cells give the same trees to words that point into it.
LEMMA SameTrees ==
    ASSUME NEW page \in [Page -> Cell], Acyclic(page),
           NEW page2 \in [Page -> Cell], Acyclic(page2),
           NEW S \in SUBSET Page, Closed(page, S), \A c \in S : page2[c] = page[c]
    PROVE  \A e \in S \cup (Elem \ Page) : Unfold(page2)[e] = Unfold(page)[e]
<1> DEFINE B == {c \in S : Unfold(page2)[c] # Unfold(page)[c]}
<1>1. \A e \in Elem \ Page : Unfold(page2)[e] = Unfold(page)[e]
  BY UnfoldWords
<1>2. ASSUME B # {} PROVE FALSE
  <2>1. PICK c \in B : Children(page, c) \cap B = {}
    BY <1>2 DEF Acyclic
  <2>2. c \in S /\ c \in Page /\ Children(page, c) \subseteq S \ B
    BY <2>1 DEF Closed
  <2>3. page2[c] = page[c] /\ page[c].hd \in Elem /\ page[c].tl \in Elem
    BY <2>2 DEF Cell
  <2>4. \A e \in {page[c].hd, page[c].tl} : Unfold(page2)[e] = Unfold(page)[e]
    BY <1>1, <2>2, <2>3 DEF Children
  <2>5. Unfold(page2)[c] = Unfold(page)[c]
    BY <2>2, <2>3, <2>4, UnfoldWords, SMTT(30)
  <2>6. QED
    BY <2>1, <2>5
<1>3. QED
  BY <1>1, <1>2

-----------------------------------------------------------------------------
(***************************************************************************)
(* The trees inside trees, as PairStore's Parts takes them: NCells times   *)
(* the heads and tails.                                                    *)
(***************************************************************************)
WithParts(S) == S \cup UNION {{t[1], t[2]} : t \in {u \in S : Len(u) = 2}}

IsPartsChain(trees, f) ==
    f = [n \in 0 .. NCells |-> IF n = 0 THEN trees ELSE WithParts(f[n - 1])]

LEMMA SomePartsChain ==
    ASSUME NEW trees
    PROVE  \E f : IsPartsChain(trees, f)
<1> DEFINE Link(f, n) == f[n] = IF n = 0 THEN trees ELSE WithParts(f[n - 1])
           Upto(k, f) == /\ f = [n \in 0 .. NCells |-> f[n]]
                         /\ \A n \in 0 .. k : Link(f, n)
           Bad == {k \in 0 .. NCells : ~ \E f : Upto(k, f)}
<1>1. NCells \in Nat
  BY NCellsAssumption
<1>2. Bad = {}
  <2>1. SUFFICES ASSUME Bad # {} PROVE FALSE
    OBVIOUS
  <2>2. PICK k \in Bad : \A j \in Bad : k <= j
    <3>1. Bad \in SUBSET Nat
      BY <1>1
    <3> HIDE DEF Bad
    <3>2. QED
      BY <2>1, <3>1, SmallestNumber
  <2>3. k \in 0 .. NCells /\ ~ \E f : Upto(k, f)
    OBVIOUS
  <2>4. k # 0
    <3> DEFINE first == [n \in 0 .. NCells |-> trees]
    <3>1. first[0] = trees /\ first = [n \in 0 .. NCells |-> first[n]]
      BY <1>1
    <3>2. Upto(0, first)
      BY <3>1
    <3> HIDE DEF Upto
    <3>3. QED
      BY <2>3, <3>2
  <2>5. k - 1 \in 0 .. NCells /\ k \in Nat
    BY <1>1, <2>3, <2>4
  <2>6. PICK f : Upto(k - 1, f)
    <3>1. k - 1 \notin Bad
      BY <2>2, <2>5
    <3> HIDE DEF Upto
    <3>2. QED
      BY <2>5, <3>1
  <2> DEFINE g == [n \in 0 .. NCells |-> IF n = k THEN WithParts(f[k - 1]) ELSE f[n]]
  <2>7. \A n \in 0 .. NCells : n # k => g[n] = f[n]
    OBVIOUS
  <2>8. g[k] = WithParts(g[k - 1])
    BY <2>3, <2>5, <2>7
  <2>9. g = [n \in 0 .. NCells |-> g[n]]
    OBVIOUS
  <2> HIDE DEF g
  <2>10. ASSUME NEW n \in 0 .. k
         PROVE  Link(g, n)
    <3>1. CASE n = k
      BY <2>4, <2>8, <3>1
    <3>2. CASE n # k
      <4>1. n \in 0 .. (k - 1) /\ n \in 0 .. NCells /\ (n # 0 => n - 1 \in 0 .. NCells /\ n - 1 # k)
        BY <1>1, <2>3, <2>5, <3>2
      <4>2. Link(f, n)
        BY <2>6, <4>1
      <4>3. QED
        BY <2>7, <3>2, <4>1, <4>2
    <3>3. QED
      BY <3>1, <3>2
  <2>11. Upto(k, g)
    BY <2>9, <2>10
  <2> HIDE DEF Upto
  <2>12. QED
    BY <2>3, <2>11
<1>3. PICK f : Upto(NCells, f)
  <2>1. NCells \in 0 .. NCells
    BY <1>1
  <2> HIDE DEF Upto
  <2>2. QED
    BY <1>2, <2>1
<1>4. IsPartsChain(trees, f)
  BY <1>3 DEF IsPartsChain
<1>5. QED
  BY <1>4

\* Every tree that a client's words lead to is a part of the trees it holds:
\* each round finds another cell, until it has found all of them.
LEMMA ReachedTreesAreParts ==
    ASSUME NEW page \in [Page -> Cell], Acyclic(page), NEW words,
           NEW trees, \A c \in words \cap Page : Unfold(page)[c] \in trees,
           NEW f, IsPartsChain(trees, f)
    PROVE  \A c \in Reach(page, words) : Unfold(page)[c] \in f[NCells]
<1> DEFINE R == Reach(page, words)
           L(n) == {c \in R : Unfold(page)[c] \in f[n]}
           Enough(n) == /\ words \cap Page \subseteq L(n)
                        /\ L(n) = R \/ n <= Cardinality(L(n))
           Bad == {n \in 0 .. NCells : ~ Enough(n)}
<1>1. NCells \in Nat
  BY NCellsAssumption
<1>2. /\ f[0] = trees
      /\ \A n \in 0 .. NCells : n # 0 => f[n] = WithParts(f[n - 1])
  BY <1>1 DEF IsPartsChain
<1>3. R \in SUBSET Page /\ words \cap Page \subseteq R
  BY ReachHoldsWords
<1> HIDE DEF R
<1>4. \A n \in 0 .. NCells : L(n) \in SUBSET Page /\ Cardinality(L(n)) \in Nat
  BY <1>3, PageFinite
<1>5. Enough(0)
  <2>1. words \cap Page \subseteq L(0)
    BY <1>2, <1>3
  <2>2. 0 <= Cardinality(L(0))
    <3> HIDE DEF L
    <3>1. 0 \in 0 .. NCells
      BY <1>1
    <3>2. QED
      BY <1>4, <3>1
  <2>3. QED
    BY <2>1, <2>2
<1>6. ASSUME NEW n \in 0 .. NCells, n # 0, Enough(n - 1)
      PROVE  Enough(n)
  <2>1. n - 1 \in 0 .. NCells /\ n \in Nat
    BY <1>1, <1>6
  <2>2. f[n - 1] \subseteq f[n]
    BY <1>2, <1>6 DEF WithParts
  <2>3. L(n - 1) \subseteq L(n)
    BY <2>2
  <2>4. words \cap Page \subseteq L(n)
    BY <1>6, <2>3
  <2>5. CASE L(n - 1) = R
    BY <2>3, <2>4, <2>5
  <2>6. CASE L(n - 1) # R
    <3>1. ~ Closed(page, L(n - 1))
      <4> HIDE DEF L
      <4>1. Closed(page, L(n - 1)) => R \subseteq L(n - 1)
        BY <1>4, <1>6, <2>1, ReachLeast DEF R
      <4>2. L(n - 1) \subseteq R
        BY DEF L
      <4>3. QED
        BY <2>6, <4>1, <4>2
    <3>2. PICK c \in L(n - 1) : \E e \in Children(page, c) : e \notin L(n - 1)
      BY <3>1 DEF Closed
    <3> PICK d \in Children(page, c) : d \notin L(n - 1)
      BY <3>2
    <3>3. c \in Page /\ c \in R
      BY <1>3, <3>2
    <3>4. d \in R
      BY <3>2, <3>3, ReachClosed DEF Closed, R
    <3>5. d \in {page[c].hd, page[c].tl}
      BY <3>2 DEF Children
    <3>6. Unfold(page)[d] \in f[n]
      <4> DEFINE t == Unfold(page)[c]
      <4>1. t = <<Unfold(page)[page[c].hd], Unfold(page)[page[c].tl]>>
        BY <3>3, UnfoldWords
      <4>2. t \in f[n - 1]
        BY <3>2
      <4> HIDE DEF t
      <4>3. Len(t) = 2 /\ Unfold(page)[d] \in {t[1], t[2]}
        BY <3>5, <4>1
      <4>4. f[n] = WithParts(f[n - 1])
        BY <1>2, <1>6
      <4>5. QED
        BY <4>2, <4>3, <4>4 DEF WithParts
    <3>7. d \in L(n) /\ d \notin L(n - 1)
      BY <3>2, <3>4, <3>6
    <3> DEFINE A == L(n - 1)
               B == L(n)
    <3>8. A \in SUBSET Page /\ B \in SUBSET Page
      BY <1>4, <2>1
    <3>9. n - 1 <= Cardinality(A)
      BY <1>6, <2>6
    <3>10. A \subseteq B /\ d \in B /\ d \notin A
      BY <2>3, <3>7
    <3> HIDE DEF L, A, B
    <3>11. IsFiniteSet(A) /\ Cardinality(A \cup {d}) = Cardinality(A) + 1
      BY <3>8, <3>10, PageFinite, FS_AddElement
    <3>12. IsFiniteSet(B) /\ Cardinality(A \cup {d}) <= Cardinality(B)
      <4>1. A \cup {d} \in SUBSET B
        BY <3>10
      <4>2. IsFiniteSet(B)
        BY <3>8, PageFinite
      <4>3. QED
        BY <4>1, <4>2, FS_Subset
    <3>13. n <= Cardinality(B)
      BY <2>1, <3>8, <3>9, <3>11, <3>12, PageFinite
    <3>14. QED
      BY <2>4, <3>13 DEF B
  <2>7. QED
    BY <2>5, <2>6
<1>7. Bad = {}
  <2>1. SUFFICES ASSUME Bad # {} PROVE FALSE
    OBVIOUS
  <2>2. Bad \in SUBSET Nat
    BY <1>1
  <2> HIDE DEF Enough
  <2>3. PICK n \in Bad : \A m \in Bad : n <= m
    <3> HIDE DEF Bad
    <3>1. QED
      BY <2>1, <2>2, SmallestNumber
  <2>4. n \in 0 .. NCells /\ n # 0 /\ ~ Enough(n)
    BY <1>5, <2>3
  <2>5. n - 1 \in 0 .. NCells /\ ~ (n <= n - 1)
    BY <1>1, <2>4
  <2>6. Enough(n - 1)
    BY <2>3, <2>5
  <2>7. QED
    BY <1>6, <2>4, <2>6
<1>8. Enough(NCells)
  <2>1. NCells \in 0 .. NCells
    BY <1>1
  <2> HIDE DEF Enough
  <2>2. QED
    BY <1>7, <2>1
<1>9. L(NCells) = R
  <2> DEFINE A == L(NCells)
  <2>1. A \in SUBSET Page /\ A \subseteq R
    BY <1>3
  <2>2. A = R \/ NCells <= Cardinality(A)
    BY <1>8
  <2> HIDE DEF A
  <2>3. NCells <= Cardinality(A) => A = Page
    <3>1. Cardinality(A) <= NCells /\ Cardinality(A) \in Nat
      BY <2>1, PageFinite, FS_Subset
    <3>2. QED
      BY <1>1, <2>1, <3>1, PageFinite, FS_Subset
  <2>4. A = R
    BY <1>3, <2>1, <2>2, <2>3
  <2>5. QED
    BY <2>4 DEF A
<1>10. QED
  BY <1>9 DEF R
=============================================================================
