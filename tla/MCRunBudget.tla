---------------------------- MODULE MCRunBudget ----------------------------
(***************************************************************************)
(* A small instance of RunBudget: words end at 3, so that a grant          *)
(* overflows and epochs saturate; intervals 1 and 3, and native traces     *)
(* that charge two or four instructions at once, so that a chunk passes    *)
(* no check, one and several.                                              *)
(***************************************************************************)
EXTENDS RunBudget
====
