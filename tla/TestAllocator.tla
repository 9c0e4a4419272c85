---------------------------- MODULE TestAllocator ---------------------------
(***************************************************************************)
(* TestAllocator (elpa/memory.h, elpa/memory.tpp), the allocator of        *)
(* -superdebug: every new_Cell moves every cell and rewrites the roots, so *)
(* that a client which kept an address it did not register reads garbage.  *)
(*                                                                         *)
(* The page is the process heap: NCells addresses, more than the NMax      *)
(* cells the allocator may hold.  What is in a deleted cell is up to the   *)
(* heap: two null words here, which no client stores.  That nobody reads   *)
(* them is what the properties say.                                        *)
(***************************************************************************)
EXTENDS Cells, Functions

CONSTANTS NMax,         \* _ncells: the number of cells it may hold
          ElemVar,      \* client variables of type elem_t
          PcellVar,     \* client variables of type pcell_t
          ClientBytes   \* byte words the client stores

ASSUME NMaxAssumption == NMax \in Nat \ {0}

ASSUME ByteAssumption == \A b \in ClientBytes : b \in Nat /\ IsByte(b)

VARIABLES page,       \* the heap
          allocated,  \* _allocated
          val,        \* what the client variables hold
          roots,      \* the variables in _elem_roots and _pcell_roots
          ret,        \* the word the last call returned, UNDEF once given up
          stale,      \* the roots still hold the address of a new_Cell local
          status,     \* of the process
          interactive \* it goes on after an OutOfMemory

vars == <<page, allocated, val, roots, ret, stale, status, interactive>>

Var == ElemVar \cup PcellVar

Deleted == [hd |-> Null, tl |-> Null]

\* Every variable keeps its type: no word leaves the addresses that have been
\* given out, and at most NMax addresses are (memory.h:133-143).
TypeOK ==
    /\ page \in [Page -> Cell]
    /\ allocated \subseteq Page
    /\ val \in [Var -> Elem]
    /\ roots \subseteq Var
    /\ ret \in Elem
    /\ stale \in BOOLEAN
    /\ status \in {"running", "oom", "wild"}
    /\ interactive \in BOOLEAN

RootWords == {val[x] : x \in roots}

Live == Reach(page, RootWords \cup {ret})

ElemWords == ClientBytes \cup {UNDEF} \cup Live

WordsFor(x) == IF x \in PcellVar THEN Live \cup {Null} ELSE ElemWords

\* A default constructed elem_t is undefined, a pcell_t root starts null.
Empty(x) == IF x \in PcellVar THEN Null ELSE UNDEF

Init ==
    /\ page = [c \in Page |-> Deleted]
    /\ allocated = {}
    /\ val = [x \in Var |-> Empty(x)]
    /\ roots = {}
    /\ ret = UNDEF
    /\ stale = FALSE
    /\ status = "running"
    /\ interactive \in BOOLEAN
-----------------------------------------------------------------------------
\* auto_root's constructor: add_root of a variable that holds e.
AddRoot(x, e) ==
    /\ status = "running"
    /\ x \notin roots
    /\ roots' = roots \cup {x}
    /\ val' = [val EXCEPT ![x] = e]
    /\ UNCHANGED <<page, allocated, ret, stale, status, interactive>>

\* auto_root's destructor.
DelRoot(x) ==
    /\ status = "running"
    /\ x \in roots
    /\ roots' = roots \ {x}
    /\ val' = [val EXCEPT ![x] = Empty(x)]
    /\ UNCHANGED <<page, allocated, ret, stale, status, interactive>>

\* A function returns the value of its auto_root, whose destructor runs: the
\* caller has the value in hand as it would the answer of new_Cell.
ReturnRoot(x) ==
    /\ status = "running"
    /\ x \in roots
    /\ roots' = roots \ {x}
    /\ val' = [val EXCEPT ![x] = Empty(x)]
    /\ ret' = IF x \in PcellVar /\ val[x] = Null THEN UNDEF ELSE val[x]
    /\ UNCHANGED <<page, allocated, stale, status, interactive>>

\* auto_root's assignment.
Assign(x, e) ==
    /\ status = "running"
    /\ x \in roots
    /\ val' = [val EXCEPT ![x] = e]
    /\ UNCHANGED <<page, allocated, roots, ret, stale, status, interactive>>

\* The client forgets the word it has in hand.
Forget ==
    /\ status = "running"
    /\ ret # UNDEF
    /\ ret' = UNDEF
    /\ UNCHANGED <<page, allocated, val, roots, stale, status, interactive>>
-----------------------------------------------------------------------------
(***************************************************************************)
(* _shift's old_to_new is a std::map: looking up an address it does not    *)
(* hold, a null pointer among them, gives a null pointer.                  *)
(***************************************************************************)
\* Wrong on purpose: takes the new cells to lie right behind the old ones.
MovedBehind(oldToNew, p) == p + Cardinality(DOMAIN oldToNew)

Moved(oldToNew, p) == IF p \in DOMAIN oldToNew THEN oldToNew[p] ELSE Null

MovedElem(oldToNew, e) == IF IsPcell(e) THEN Moved(oldToNew, e) ELSE e

\* Wrong on purpose: rewrites no tails.
ShiftedHeads(cells, oldToNew) ==
    [c \in Page |->
        IF \E p \in DOMAIN oldToNew : oldToNew[p] = c
        THEN LET old == CHOOSE p \in DOMAIN oldToNew : oldToNew[p] = c
             IN  [cells[old] EXCEPT !.hd = MovedElem(oldToNew, @)]
        ELSE Deleted]

\* The heap after _shift copied every cell and deleted the old ones.
Shifted(cells, oldToNew) ==
    [c \in Page |->
        IF \E p \in DOMAIN oldToNew : oldToNew[p] = c
        THEN LET old == CHOOSE p \in DOMAIN oldToNew : oldToNew[p] = c
             IN  [hd |-> MovedElem(oldToNew, cells[old].hd),
                  tl |-> MovedElem(oldToNew, cells[old].tl)]
        ELSE Deleted]

\* Wrong on purpose: forgets _pcell_roots.
MovedElemRoots(oldToNew) ==
    [x \in Var |-> IF x \notin roots \/ x \in PcellVar THEN val[x]
                   ELSE MovedElem(oldToNew, val[x])]

\* The registered variables after _shift rewrote them.
MovedRoots(oldToNew) ==
    [x \in Var |-> IF x \notin roots THEN val[x]
                   ELSE IF x \in PcellVar THEN Moved(oldToNew, val[x])
                   ELSE MovedElem(oldToNew, val[x])]

Sweep(cells, live) == [c \in Page |-> IF c \in live THEN cells[c] ELSE Deleted]

(***************************************************************************)
(* What the stale roots hold when gc() marks from them: a dead stack slot  *)
(* may hold the address of any allocated cell, or nothing that matters.    *)
(* The third case, something else, is UseStaleRoot.                        *)
(***************************************************************************)
StackWords(cells) == IF stale THEN SUBSET cells ELSE {{}}

(***************************************************************************)
(* new_Cell: a cell from the heap, the shift of all cells, and the         *)
(* collection when their number has reached NMax (not when it is beyond).  *)
(* As in SimpleAllocator a gc() that throws leaves the address of the      *)
(* local p registered.  The shift writes through such a stale root into a  *)
(* dead stack slot: nothing comes of that when the slot is unused or is p  *)
(* again, whose del_root then ends the registration.                       *)
(*                                                                         *)
(* Which free addresses the heap hands out is no information, as addresses *)
(* are only ever compared for equality: one choice stands for all.         *)
(***************************************************************************)
Fresh(used) == CHOOSE c \in Page \ used : TRUE

FreshMap(old) == CHOOSE f \in Injection(old, Page \ old) : TRUE

\* A bound of the model: the heap has room to move all cells once more.
HeapRoom == 2 * (Cardinality(allocated) + 1) <= NCells

\* Wrong on purpose: waits until the limit is passed.
CollectionDueLate(n) == n > NMax

CollectionDue(n) == n = NMax

NewCell(head, tail) ==
    /\ status = "running"
    /\ HeapRoom
    /\ LET c        == Fresh(allocated)
           oldToNew == FreshMap(allocated \cup {c})
           filled   == [page EXCEPT ![c] = [hd |-> head, tl |-> tail]]
           shifted  == Shifted(filled, oldToNew)
           moved    == Range(oldToNew)
           words    == {MovedRoots(oldToNew)[x] : x \in roots} \cup {oldToNew[c]}
           collect  == CollectionDue(Cardinality(moved))
       IN  \E dead \in IF collect THEN StackWords(moved) ELSE {{}} :
              LET live == Reach(shifted, words \cup dead)
                  full == collect /\ Cardinality(live) = NMax
                  kept == IF collect THEN live ELSE moved
              IN  /\ page' = Sweep(shifted, kept)
                  /\ allocated' = kept
                  /\ val' = MovedRoots(oldToNew)
                  /\ ret' = IF full THEN UNDEF ELSE oldToNew[c]
                  /\ status' = IF full THEN "oom" ELSE "running"
                  /\ stale' \in IF full THEN {TRUE} ELSE {stale, FALSE}
    /\ UNCHANGED <<roots, interactive>>

\* The shell's :gc, which runs between two expressions.
Gc ==
    /\ status = "running"
    /\ \E dead \in StackWords(allocated) :
         LET live == Reach(page, RootWords \cup dead)
         IN  /\ page' = Sweep(page, live)
             /\ allocated' = live
             /\ status' = IF Cardinality(live) = NMax THEN "oom" ELSE status
    /\ ret' = UNDEF
    /\ UNCHANGED <<val, roots, stale, interactive>>

(***************************************************************************)
(* A stale root whose dead slot is in use for something else.  _shift, in  *)
(* every new_Cell, overwrites what is there.  gc(), of :gc or of new_Cell, *)
(* takes it for the address of a cell: _mark puts it into _allocated and   *)
(* reads through it, be it a deleted cell's or no address at all.          *)
(***************************************************************************)
UseStaleRoot ==
    /\ status = "running"
    /\ stale
    /\ status' = "wild"
    /\ UNCHANGED <<page, allocated, val, roots, ret, stale, interactive>>

\* interactive() catches the OutOfMemory as an Error<Runtime> and goes on.
Recover ==
    /\ status = "oom"
    /\ interactive
    /\ status' = "running"
    /\ UNCHANGED <<page, allocated, val, roots, ret, stale, interactive>>

Next ==
    \/ \E x \in Var : \E e \in WordsFor(x) : AddRoot(x, e) \/ Assign(x, e)
    \/ \E x \in Var : DelRoot(x) \/ ReturnRoot(x)
    \/ \E h, t \in ElemWords : NewCell(h, t)
    \/ Forget
    \/ Gc
    \/ UseStaleRoot
    \/ Recover

Spec == Init /\ [][Next]_vars
-----------------------------------------------------------------------------
(***************************************************************************)
(* Every address in a root, in the last answer or in an allocated cell is  *)
(* the address of an allocated cell, garbage included: _shift finds each   *)
(* of them in old_to_new, and turns none into a null pointer (which would  *)
(* read as byte 0) and none into the address of a deleted cell.  This is   *)
(* so as long as the process is defined: a stale root ends it in           *)
(* "wild", where nothing more happens.                                     *)
(***************************************************************************)
Addresses ==
    RootWords \cup {ret} \cup UNION {{page[c].hd, page[c].tl} : c \in allocated}

NoDanglingAddress == {e \in Addresses : IsPcell(e)} \subseteq allocated

(***************************************************************************)
(* A script never holds more cells than the limit, and while it runs it is *)
(* below it: the count cannot step over the value the collection is        *)
(* triggered by, and a collection that leaves it there ends the script.    *)
(***************************************************************************)
WithinMemoryLimit ==
    ~interactive =>
        /\ Cardinality(allocated) <= NMax
        /\ status = "running" => Cardinality(allocated) < NMax
=============================================================================
