------------------------------- MODULE Cells --------------------------------
(***************************************************************************)
(* The cells both allocators manage, and the marking of the cells that a   *)
(* set of root words keeps alive (elpa/memory.h, elpa/memory.tpp).         *)
(*                                                                         *)
(* A cell address is a word above UNDEF: the size of a cell and the base   *)
(* of the page are left out, so NCells consecutive cells are NCells        *)
(* consecutive words.                                                      *)
(***************************************************************************)
EXTENDS Scheme, FiniteSets

CONSTANT NCells      \* cells the page has room for

\* "Allocator must allocate at least one cell"
ASSUME NCellsAssumption == NCells \in Nat \ {0}

Page == (UNDEF + 1) .. (UNDEF + NCells)

Elem == 0 .. (UNDEF + NCells)

Cell == [hd : Elem, tl : Elem]

(***************************************************************************)
(* The FreeCell a sweep writes over a dead cell: a link to the dead cell   *)
(* the sweep met before it (the page is swept in address order), and an    *)
(* undefined element.  Read as a Cell, the link is its head.               *)
(***************************************************************************)
IsBefore(d, c, dead) == d < c /\ \A e \in dead : e < c => e <= d

\* Wrong on purpose: links to the neighbour, and off the page from the last cell.
FreeLinkNext(c, dead) == c + 1

FreeLink(c, dead) ==
    IF \E d \in dead : IsBefore(d, c, dead)
    THEN CHOOSE d \in dead : IsBefore(d, c, dead)
    ELSE Null

FreeCell(c, dead) == [hd |-> FreeLink(c, dead), tl |-> UNDEF]

Children(page, c) == {e \in {page[c].hd, page[c].tl} : e \in Page}

Closed(page, S) == \A c \in S : Children(page, c) \subseteq S

(***************************************************************************)
(* What marking means: a cell is left out only as one of a set of cells    *)
(* that no root word and no cell outside the set leads to.                 *)
(***************************************************************************)
Reach(page, words) ==
    Page \ UNION {dead \in SUBSET (Page \ words) :
                     \A c \in Page \ dead : page[c].hd \notin dead /\ page[c].tl \notin dead}

(***************************************************************************)
(* How _mark computes it: depth first, head before tail, with the set of   *)
(* live cells handed on from one call to the next.                         *)
(***************************************************************************)
\* Wrong on purpose: leaves the tails out.
MarkHeads(page, live0, p0) ==
    LET Mark[arg \in (SUBSET Page) \X Page] ==
            LET visited == arg[1] \cup {arg[2]}
                head    == page[arg[2]].hd
            IN  IF arg[2] \notin arg[1] /\ head \in Page THEN Mark[<<visited, head>>]
                                                         ELSE visited
    IN  Mark[<<live0, p0>>]

MarkFrom(page, live0, p0) ==
    LET Mark[arg \in (SUBSET Page) \X (Page \cup {Null})] ==
            LET live    == arg[1]
                p       == arg[2]
                visited == live \cup {p}
                heads   == IF IsPcell(page[p].hd) THEN Mark[<<visited, page[p].hd>>]
                                                  ELSE visited
            IN  IF p = Null \/ p \in live THEN live
                ELSE IF IsPcell(page[p].tl) THEN Mark[<<heads, page[p].tl>>]
                ELSE heads
    IN  Mark[<<live0, p0>>]

(***************************************************************************)
(* No cell leads back to itself: in any set of cells there is one that     *)
(* points to none of them.                                                 *)
(***************************************************************************)
Acyclic(page) ==
    \A S \in SUBSET Page : S # {} => \E c \in S : Children(page, c) \cap S = {}

(***************************************************************************)
(* The tree a word stands for.  A cell only ever points to cells that were *)
(* there before it, so following pointers ends.                            *)
(***************************************************************************)
Unfold(page) ==
    LET Tree[e \in Elem] == IF e \in Page
                            THEN <<Tree[page[e].hd], Tree[page[e].tl]>>
                            ELSE <<e>>
    IN  Tree
=============================================================================
