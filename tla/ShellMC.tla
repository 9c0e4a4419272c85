------------------------------ MODULE ShellMC ------------------------------
(***************************************************************************)
(* The shell with one constant, which is enough for :def to be refused.    *)
(***************************************************************************)
EXTENDS Shell, Scheme, TLC

OneConstant == "T" :> UNDEF + 1
=============================================================================
