--------------------------- MODULE MCResourceTable ---------------------------
(* The resource table on a small instance.                                 *)
EXTENDS ResourceTable
=============================================================================
