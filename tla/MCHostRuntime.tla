--------------------------- MODULE MCHostRuntime ---------------------------
(* The host runtime on a small instance.                                   *)
EXTENDS HostRuntime

(* The test reset_waits_for_unscoped_stream_driver_and_fails_closed_on_error: *)
(* a stream cleanup that fails while a reset waits for it makes the reset  *)
(* fail, so a reset that has seen one never publishes.                     *)
ResetFailsClosed == [][hrGen' # hrGen => ~hrTainted]_hrVars
=============================================================================
