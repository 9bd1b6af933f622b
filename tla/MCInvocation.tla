---------------------------- MODULE MCInvocation ----------------------------
(* Instances of the invocation stream, and what its documentation says of  *)
(* deadlines and of the streams of a callback.                             *)
EXTENDS Invocation

(* "epoch deadline expiry ... produce exactly one typed InvocationError    *)
(* item": an invocation under which the deadline expired does not complete *)
(* as if it had not.                                                       *)
DeadlineReported == ivExpired => ivReply # "complete"

(* "dropping the handle retires the invocation synchronously for immediate *)
(* VM reuse": no callable stream of the invocation is left on the VM.      *)
StreamsEndWithInvocation == ~ivHandle => ivStream = "none"
====
