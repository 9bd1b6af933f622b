------------------------- MODULE MCOperationRegistry -------------------------
(* The operation registry on a small instance.                             *)
EXTENDS OperationRegistry
=============================================================================
