---------------------- MODULE SimpleAllocatorRefinement ---------------------
(***************************************************************************)
(* SimpleAllocator implements PairStore: what a client can read through    *)
(* its roots never shows that cells are filled, collected and reused.      *)
(***************************************************************************)
EXTENDS SimpleAllocator, Sequences

TreeIn(x) == IF x \in PcellVar /\ val[x] = Null THEN <<>> ELSE Unfold(page)[val[x]]

Store == INSTANCE PairStore WITH
            Bytes   <- ClientBytes,
            Depth   <- NCells,
            hold    <- [x \in roots |-> TreeIn(x)],
            result  <- IF status = "running" THEN Unfold(page)[ret] ELSE <<UNDEF>>,
            failed  <- status # "running"

(***************************************************************************)
(* Every step of the allocator is a step of PairStore or                   *)
(* changes no tree: each root keeps its tree through every new_Cell and    *)
(* collection, and new_Cell returns the pair it was asked for.             *)
(***************************************************************************)
Implements == Store!Spec
=============================================================================
