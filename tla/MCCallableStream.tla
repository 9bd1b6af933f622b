-------------------------- MODULE MCCallableStream --------------------------
(* Instances of CallableStream, and what the VM says of a reset during a   *)
(* stream.                                                                 *)
EXTENDS CallableStream

(* reset_for_reuse retires what is in flight and waits until it is quiet:  *)
(* a reset fails at the stream only when some driver failed to end.        *)
ResetNeedsFault == csReset = "stream" => csFaulty # {}
=============================================================================
