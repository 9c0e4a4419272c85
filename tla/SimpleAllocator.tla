--------------------------- MODULE SimpleAllocator --------------------------
(***************************************************************************)
(* SimpleAllocator (elpa/memory.h, elpa/memory.tpp): a fixed page of cells *)
(* that never move, a free list through the unused ones, and a mark and    *)
(* sweep collection that runs when new_Cell takes the last free cell.      *)
(*                                                                         *)
(* The clients (parser, interpreter, shell) are any program that keeps the *)
(* discipline the code relies on: a word is used only while it is a byte,  *)
(* undefined, reachable from a registered root, or what the last call      *)
(* returned: no other call has come between.                               *)
(*                                                                         *)
(* The free list is a set: the sweep links the page in address order, only *)
(* its head is ever taken, so the list always is the free cells in         *)
(* descending order and its head is the largest of them.                   *)
(***************************************************************************)
EXTENDS Cells

CONSTANTS ElemVar,      \* client variables of type elem_t
          PcellVar,     \* client variables of type pcell_t
          ClientBytes   \* byte words the client stores

ASSUME ByteAssumption == \A b \in ClientBytes : b \in Nat /\ IsByte(b)

VARIABLES page,    \* _page
          free,    \* the cells _free_list links
          val,     \* what the client variables hold
          roots,   \* the variables in _elem_roots and _pcell_roots
          ret,     \* address new_Cell returned last, not yet given up
          stale,   \* the roots still hold the address of a new_Cell local
          status,  \* of the process
          interactive  \* the console runs a shell that goes on after an
                       \* OutOfMemory, not a script, which then ends

vars == <<page, free, val, roots, ret, stale, status, interactive>>

Var == ElemVar \cup PcellVar

\* Every variable keeps its type: no word, in a cell or in a root, leaves the
\* page (memory.h:195-203).
TypeOK ==
    /\ page \in [Page -> Cell]
    /\ free \subseteq Page
    /\ val \in [Var -> Elem]
    /\ roots \subseteq Var
    /\ ret \in Elem
    /\ stale \in BOOLEAN
    /\ status \in {"running", "oom", "noReserve", "wildRead"}
    /\ interactive \in BOOLEAN

RootWords == {val[x] : x \in roots}

Live == Reach(page, RootWords \cup {ret})

ElemWords == ClientBytes \cup {UNDEF} \cup Live

WordsFor(x) == IF x \in PcellVar THEN Live \cup {Null} ELSE ElemWords

\* A default constructed elem_t is undefined, a pcell_t root starts null.
Empty(x) == IF x \in PcellVar THEN Null ELSE UNDEF

\* The constructor collects once, with no roots, to link the whole page.
Init ==
    /\ page = [c \in Page |-> FreeCell(c, Page)]
    /\ free = Page
    /\ val = [x \in Var |-> Empty(x)]
    /\ roots = {}
    /\ ret = UNDEF
    /\ stale = FALSE
    /\ status = "running"
    /\ interactive \in BOOLEAN
-----------------------------------------------------------------------------
\* auto_root's constructor: add_root of a variable that holds e.
AddRoot(x, e) ==
    /\ status = "running"
    /\ x \notin roots
    /\ roots' = roots \cup {x}
    /\ val' = [val EXCEPT ![x] = e]
    /\ UNCHANGED <<page, free, ret, stale, status, interactive>>

\* auto_root's destructor.  Those an OutOfMemory unwinds run after Recover.
DelRoot(x) ==
    /\ status = "running"
    /\ x \in roots
    /\ roots' = roots \ {x}
    /\ val' = [val EXCEPT ![x] = Empty(x)]
    /\ UNCHANGED <<page, free, ret, stale, status, interactive>>

\* A function returns the value of its auto_root, whose destructor runs: the
\* caller has the value in hand as it would the answer of new_Cell.
ReturnRoot(x) ==
    /\ status = "running"
    /\ x \in roots
    /\ roots' = roots \ {x}
    /\ val' = [val EXCEPT ![x] = Empty(x)]
    /\ ret' = IF x \in PcellVar /\ val[x] = Null THEN UNDEF ELSE val[x]
    /\ UNCHANGED <<page, free, stale, status, interactive>>

\* auto_root's assignment.
Assign(x, e) ==
    /\ status = "running"
    /\ x \in roots
    /\ val' = [val EXCEPT ![x] = e]
    /\ UNCHANGED <<page, free, roots, ret, stale, status, interactive>>

\* The client forgets the word it has in hand.
Forget ==
    /\ status = "running"
    /\ ret # UNDEF
    /\ ret' = UNDEF
    /\ UNCHANGED <<page, free, val, roots, stale, status, interactive>>
-----------------------------------------------------------------------------
(***************************************************************************)
(* What the stale roots hold when a collection reads them: nothing if      *)
(* there are none, else any cells, or a word that is no cell (UNDEF stands *)
(* for all of these), which _mark then dereferences.                       *)
(***************************************************************************)
StackWords == IF stale THEN SUBSET (Page \cup {UNDEF}) ELSE {{}}

\* Wrong on purpose: sweeps without asking whether the cell is live.
SweepAll(cells, live) == [c \in Page |-> FreeCell(c, Page \ live)]

Sweep(cells, live) ==
    [c \in Page |-> IF c \in live THEN cells[c] ELSE FreeCell(c, Page \ live)]

\* The cell _next() pops: the head of the free list.
IsHead(c) == c \in free /\ \A d \in free : d <= c

\* Wrong on purpose: does not move _free_list on to the next cell.
NewCellNotTaken(head, tail) ==
    /\ status = "running"
    /\ \E c \in free :
         /\ IsHead(c)
         /\ free # {c}
         /\ page' = [page EXCEPT ![c] = [hd |-> head, tl |-> tail]]
         /\ ret' = c
    /\ UNCHANGED <<free, val, roots, stale, status, interactive>>

\* Wrong on purpose: takes the last free cell too, and collects when none is left.
NewCellTakesLast(head, tail) ==
    /\ status = "running"
    /\ \E c \in free :
         /\ IsHead(c)
         /\ page' = [page EXCEPT ![c] = [hd |-> head, tl |-> tail]]
         /\ free' = free \ {c}
         /\ ret' = c
    /\ UNCHANGED <<val, roots, stale, status, interactive>>

\* new_Cell when the free list has more than the cell it takes.
NewCell(head, tail) ==
    /\ status = "running"
    /\ \E c \in free :
         /\ IsHead(c)
         /\ free # {c}
         /\ page' = [page EXCEPT ![c] = [hd |-> head, tl |-> tail]]
         /\ free' = free \ {c}
         /\ ret' = c
    /\ UNCHANGED <<val, roots, stale, status, interactive>>

(***************************************************************************)
(* new_Cell when it takes the last free cell: the cell is filled, its      *)
(* address registered as a root, and gc() run.  When that frees nothing    *)
(* gc() throws, del_root is skipped and the address of the dead local      *)
(* stays registered.  A later new_Cell whose local lies in the same stack  *)
(* slot takes that registration away with its own del_root.                *)
(***************************************************************************)
NewCellCollect(head, tail) ==
    /\ status = "running"
    /\ \E c \in free, words \in StackWords :
         /\ free = {c}
         /\ \E filled \in {[page EXCEPT ![c] = [hd |-> head, tl |-> tail]]} :
            \E live \in {Reach(filled, RootWords \cup words \cup {c})} :
                \/ /\ UNDEF \in words
                   /\ status' = "wildRead"
                   /\ UNCHANGED <<page, free, ret, stale>>
                \/ /\ UNDEF \notin words
                   /\ live = Page
                   /\ page' = filled
                   /\ free' = {}
                   /\ status' = "oom"
                   /\ ret' = UNDEF
                   /\ stale' = TRUE
                \/ /\ UNDEF \notin words
                   /\ live # Page
                   /\ page' = Sweep(filled, live)
                   /\ free' = Page \ live
                   /\ ret' = c
                   /\ stale' \in {stale, FALSE}
                   /\ UNCHANGED status
    /\ UNCHANGED <<val, roots, interactive>>

\* new_Cell with no free cell: the assertion of _next(), or, with
\* assertions off, the read through its null _free_list.
NewCellNoReserve ==
    /\ status = "running"
    /\ free = {}
    /\ status' = "noReserve"
    /\ UNCHANGED <<page, free, val, roots, ret, stale, interactive>>

\* Wrong on purpose: the caller keeps the word it has in hand.
GcKeepsHand ==
    /\ status = "running"
    /\ LET live == Reach(page, RootWords)
       IN  /\ page' = Sweep(page, live)
           /\ free' = Page \ live
           /\ status' = IF live = Page THEN "oom" ELSE status
    /\ UNCHANGED <<val, roots, ret, stale, interactive>>

\* Wrong on purpose: throws when it frees no more than there was free.
GcThrowsEarly ==
    /\ status = "running"
    /\ LET live == Reach(page, RootWords)
       IN  /\ page' = Sweep(page, live)
           /\ free' = Page \ live
           /\ status' = IF free' = free THEN "oom" ELSE status
    /\ ret' = UNDEF
    /\ UNCHANGED <<val, roots, stale, interactive>>

\* The shell's :gc, which runs between two expressions.
Gc ==
    /\ status = "running"
    /\ \E words \in StackWords :
         LET live == Reach(page, RootWords \cup words)
         IN  \/ /\ UNDEF \in words
                /\ status' = "wildRead"
                /\ UNCHANGED <<page, free>>
             \/ /\ UNDEF \notin words
                /\ page' = Sweep(page, live)
                /\ free' = Page \ live
                /\ status' = IF live = Page THEN "oom" ELSE status
    /\ ret' = UNDEF
    /\ UNCHANGED <<val, roots, stale, interactive>>

\* interactive() catches the OutOfMemory as an Error<Runtime> and goes on.
Recover ==
    /\ status = "oom"
    /\ interactive
    /\ status' = "running"
    /\ UNCHANGED <<page, free, val, roots, ret, stale, interactive>>

Next ==
    \/ \E x \in Var : \E e \in WordsFor(x) : AddRoot(x, e) \/ Assign(x, e)
    \/ \E x \in Var : DelRoot(x) \/ ReturnRoot(x)
    \/ \E h, t \in ElemWords : NewCell(h, t) \/ NewCellCollect(h, t)
    \/ NewCellNoReserve
    \/ Forget
    \/ Gc
    \/ Recover

Spec == Init /\ [][Next]_vars
-----------------------------------------------------------------------------
(***************************************************************************)
(* No cell that is still in use is on the free list: whatever a root or    *)
(* the last returned address leads to survives every collection and is     *)
(* never handed out again by _next().                                      *)
(***************************************************************************)
LiveNotFree == Live \cap free = {}

(***************************************************************************)
(* The inductive form of LiveNotFree: no allocated cell leads to a free    *)
(* one, garbage included.                                                  *)
(***************************************************************************)
AllocatedClosed ==
    /\ Closed(page, Page \ free)
    /\ (RootWords \cup {ret}) \cap free = {}

(***************************************************************************)
(* No cell leads back to itself, in use, garbage or free, and the free     *)
(* list runs downwards: following a word to its end ends, in _mark and in  *)
(* every reader.                                                           *)
(***************************************************************************)
NoCycles ==
    /\ Acyclic(page)
    /\ \A c \in free : \A d \in Children(page, c) : d < c

(***************************************************************************)
(* In a script the free list is never empty when new_Cell is called: the   *)
(* collection runs one allocation early, and _next() asserts it did.       *)
(***************************************************************************)
ReserveKept == ~interactive /\ status = "running" => free # {}

(***************************************************************************)
(* _mark, run over the roots one after the other as gc() does, marks       *)
(* exactly the cells the roots reach, whatever sharing there is and in     *)
(* whichever order the roots are visited.                                  *)
(***************************************************************************)
MarkComputesReach ==
    \A w1, w2 \in (RootWords \cup {ret}) \cap Page :
        MarkFrom(page, MarkFrom(page, {}, w1), w2) = Reach(page, {w1, w2})

(***************************************************************************)
(* Cells are immutable: a cell in use before and after a step holds the    *)
(* same head and tail, so collection and reuse never show through a root.  *)
(***************************************************************************)
LiveCellsKept ==
    [][\A c \in Live \cap Live' : page'[c] = page[c]]_vars

(***************************************************************************)
(* A collection frees every unreachable cell: in a script new_Cell reports *)
(* OutOfMemory only when the roots and the new cell reach the whole page.  *)
(***************************************************************************)
NoSpuriousOom ==
    ~interactive /\ status = "oom" =>
        free = {} /\ \E c \in Page : Reach(page, RootWords \cup {c}) = Page

\* memory.h:184, the assertion of _next(): a cell is always in reserve.
ReserveAssertion == status # "noReserve"
=============================================================================
