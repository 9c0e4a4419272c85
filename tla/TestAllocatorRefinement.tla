----------------------- MODULE TestAllocatorRefinement ----------------------
(***************************************************************************)
(* TestAllocator implements PairStore: what a client can read through its  *)
(* roots never shows that every cell moves with every allocation.          *)
(***************************************************************************)
EXTENDS TestAllocator, Sequences

TreeIn(x) == IF x \in PcellVar /\ val[x] = Null THEN <<>> ELSE Unfold(page)[val[x]]

Store == INSTANCE PairStore WITH
            Bytes   <- ClientBytes,
            Depth   <- NCells,
            hold    <- [x \in roots |-> TreeIn(x)],
            result  <- IF status = "running" THEN Unfold(page)[ret] ELSE <<UNDEF>>,
            failed  <- status # "running"

(***************************************************************************)
(* Every step of the allocator is a step of PairStore or                   *)
(* changes no tree: the move of all cells rewrites every root to the same  *)
(* tree at its new place, and new_Cell returns the pair it was asked for.  *)
(***************************************************************************)
Implements == Store!Spec
=============================================================================
