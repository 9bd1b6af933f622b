-------------------------- MODULE MCExecutionScope --------------------------
(* The execution scope on two small instances: two operations and a        *)
(* resource, and an operation with a deadline and two resources.           *)
EXTENDS ExecutionScope
=============================================================================
