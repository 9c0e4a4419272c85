----------------------------- MODULE PairStore ------------------------------
(***************************************************************************)
(* What an allocator promises its clients: variables that hold immutable   *)
(* trees of pairs.  There are no cells, addresses or free list here.  A    *)
(* registered variable keeps the tree it was given until the client        *)
(* assigns to it; building a pair changes no other tree; collecting        *)
(* changes none at all; and memory may run out.                            *)
(*                                                                         *)
(* A tree is <<w>> for a word w that is a byte or undefined, <<>> for a    *)
(* null cell pointer, and <<head, tail>> for a pair.                       *)
(***************************************************************************)
EXTENDS Scheme, Sequences, Functions

CONSTANTS Var,      \* client variables
          Bytes,    \* byte words
          Depth     \* no tree is deeper than this

Leaf(w) == <<w>>

NullTree == <<>>

Undefined == Leaf(UNDEF)

VARIABLES hold,    \* the tree each registered variable holds
          result,  \* the tree the last call returned, undefined once given up
          failed   \* memory ran out

store == <<hold, result, failed>>

Init ==
    /\ hold = <<>>
    /\ result = Undefined
    /\ failed = FALSE

\* The trees inside a set of trees: the client can take any of them.
Parts(trees) ==
    LET Down(S) == S \cup UNION {{t[1], t[2]} : t \in {u \in S : Len(u) = 2}}
        f[n \in 0 .. Depth] == IF n = 0 THEN trees ELSE Down(f[n - 1])
    IN  f[Depth]

Visible == Parts(Range(hold) \cup {result}) \cup {Leaf(w) : w \in Bytes \cup {UNDEF}} \cup {NullTree}

Keep(x, t) == [y \in DOMAIN hold \cup {x} |-> IF y = x THEN t ELSE hold[y]]

\* Register a variable, or assign to a registered one.
Hold(x, t) ==
    /\ ~failed
    /\ hold' = Keep(x, t)
    /\ UNCHANGED <<result, failed>>

Release(x) ==
    /\ ~failed
    /\ x \in DOMAIN hold
    /\ hold' = [y \in DOMAIN hold \ {x} |-> hold[y]]
    /\ UNCHANGED <<result, failed>>

\* A variable ends, and its tree is what the client has in hand.
Return(x) ==
    /\ ~failed
    /\ x \in DOMAIN hold
    /\ hold' = [y \in DOMAIN hold \ {x} |-> hold[y]]
    /\ result' = IF hold[x] = NullTree THEN Undefined ELSE hold[x]
    /\ UNCHANGED failed

Cons(h, t) ==
    /\ ~failed
    /\ result' = <<h, t>>
    /\ UNCHANGED <<hold, failed>>

\* The client gives up the pair it built, or asks for a collection.
GiveUp ==
    /\ result' = Undefined
    /\ UNCHANGED <<hold, failed>>

Fail ==
    /\ failed' = TRUE
    /\ result' = Undefined
    /\ UNCHANGED hold

\* An interactive shell goes on.
Recover ==
    /\ failed
    /\ failed' = FALSE
    /\ UNCHANGED <<hold, result>>

Next ==
    \/ \E x \in Var : Release(x) \/ Return(x) \/ \E t \in Visible : Hold(x, t)
    \/ \E h, t \in Visible \ {NullTree} : Cons(h, t)
    \/ GiveUp
    \/ Fail
    \/ Recover

Spec == Init /\ [][Next]_store
=============================================================================
