---------------------- MODULE KConInterpreterRefinement ---------------------
(***************************************************************************)
(* KConInterpreter implements KCon: what the operators do to cells is what *)
(* their help says they do to trees, whatever the collector does meanwhile.*)
(* One operator does more than its help says, and is named here.           *)
(***************************************************************************)
EXTENDS KConInterpreter

Answered ==
    CASE status = "oom" -> <<0, 0, 0, 0>>
      [] status # "oom" /\ pc = "done"  -> Tree(page, raw.state)
      [] status # "oom" /\ pc = "error" -> <<>>
      [] OTHER -> <<0, 0, 0>>

Language == INSTANCE KCon WITH answer <- Answered

\* @ of a list of expressions, for which the language has no @: reduce() calls
\* _evaluate (interpreter.tpp:113), so that it answers as * does.
ReducesList ==
    op = "@" /\ Len(term) = 2 /\ Len(term[2]) = 2 /\ Len(term[2][1]) = 2

ReduceOfList ==
    /\ ReducesList
    /\ Answered = Language!NoAnswer
    /\ \/ Answered' = Language!Apply("*", term) /\ UNCHANGED <<op, term>>
       \/ Language!RunOut

(***************************************************************************)
(* Every operator answers with the tree its help gives for the operand, or *)
(* with an illegal operation where the operand has no meaning, and @ of a  *)
(* list with what * makes of it; every turn of ! goes from one statement   *)
(* and environment to the next; memory may run out instead, and nothing    *)
(* else happens.                                                           *)
(***************************************************************************)
ImplementsKCon ==
    /\ Answered = Language!NoAnswer
    /\ [][IF ReducesList THEN ReduceOfList ELSE Language!Next]_(Language!kcon)

(***************************************************************************)
(* Every operator but ! comes to an end: the walks down a path and back up *)
(* and over the expressions of * all stop.                                 *)
(***************************************************************************)
OperatorsAnswer == op # "!" ~> Answered # Language!NoAnswer
=============================================================================
