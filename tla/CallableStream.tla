--------------------------- MODULE CallableStream ---------------------------
(***************************************************************************)
(* Callable streams, src/vm/async_host/stream.rs, with the terminations of *)
(* host_runtime.rs and the entries of mod.rs and host.rs that reach them.  *)
(* A script's call installs a stream and is parked; the producer's items   *)
(* run a script callback, whose action continues or ends the stream; the   *)
(* parked call is answered once the driver has been told to end.           *)
(*                                                                         *)
(* Each action is one call of the VM by its owner.  Producers, callbacks,  *)
(* hooks and drivers are the environment: they answer as they like.  A     *)
(* hook that runs inside the VM (ExecutingCompletion) finds cancel, reset  *)
(* and shutdown refused, and is part of the call it runs in.               *)
(***************************************************************************)
EXTENDS Naturals, FiniteSets

CONSTANT MaxStreams   \* streams the script installs

ASSUME CallableStreamConstants == MaxStreams \in Nat \ {0}

VARIABLES
  csStream,    \* op_id of host_stream, 0 for none
  csPhase,     \* its phase
  csWait,      \* source of waiting_host_op
  csDriver,    \* where each stream's driver is
  csProgram,   \* the script that makes the calls
  csReset,     \* reset_error
  csBegun,     \* history: begin_termination calls each driver accepted
  csAnswer,    \* history: how each parked call was answered
  csFaulty     \* history: streams whose driver failed to end

csVars == <<csStream, csPhase, csWait, csDriver, csProgram, csReset, csBegun, csAnswer, csFaulty>>

Streams == 1..MaxStreams

(* HostStreamPhase, and none without a stream                              *)
Phases == {"none", "AwaitItem", "RunCallback", "AwaitTermination", "RollbackCompletion"}

(* A driver is held in stream_drivers; a pending termination was refused   *)
(* by it so far, has begun, or has begun after a refusal.                  *)
Ending   == {"refused", "begun", "late"}
Pending(d) == {s \in Streams : d[s] \in Ending}

CallableStreamInit ==
  /\ csStream = 0
  /\ csPhase = "none"
  /\ csWait = "none"
  /\ csDriver = [s \in Streams |-> "none"]
  /\ csProgram = "going"
  /\ csReset = "none"
  /\ csBegun = [s \in Streams |-> 0]
  /\ csAnswer = [s \in Streams |-> "none"]
  /\ csFaulty = {}
------------------------------------------------------------------------------
(* poll_stream_terminations, as the set of what can become of the drivers  *)
(* d: refused ones are begun again, the others asked.  A cleanup error is  *)
(* reported when the entry goes.                                           *)
Polled(d, s, answer) ==
  CASE answer = "fails" /\ d[s] = "refused" -> "refused"
    [] answer = "waits" /\ d[s] = "refused" -> "late"
    [] answer = "waits"                     -> d[s]
    [] OTHER                                -> "gone"

PollOutcomes(d, begun) ==
  {LET drivers == [s \in Streams |-> IF s \in Pending(d) THEN Polled(d, s, answers[s]) ELSE d[s]]
       accepted == {s \in Pending(d) : d[s] = "refused" /\ answers[s] # "fails"}
       failed == {s \in Pending(d) : drivers[s] = "gone" /\ (d[s] # "begun" \/ answers[s] = "fails")}
   IN  [drivers |-> drivers,
        begun   |-> [s \in Streams |-> IF s \in accepted THEN begun[s] + 1 ELSE begun[s]],
        faulty  |-> failed,
        result  |-> IF failed # {} THEN "error" ELSE IF Pending(drivers) = {} THEN "ready" ELSE "pending"]
   : answers \in [Pending(d) -> {"waits", "done", "fails"}]}

(* begin_stream_termination                                                *)
Begun(d, begun, s) ==
  CASE d[s] = "held" ->
         {[drivers |-> [d EXCEPT ![s] = "begun"], begun |-> [begun EXCEPT ![s] = @ + 1], faulty |-> {},
           result |-> "ready"],
          [drivers |-> [d EXCEPT ![s] = "refused"], begun |-> begun, faulty |-> {s}, result |-> "error"]}
    [] d[s] \in Ending ->
         {[drivers |-> d, begun |-> begun, faulty |-> {}, result |-> "ready"]}
    [] OTHER ->
         {[drivers |-> d, begun |-> begun, faulty |-> {}, result |-> "error"]}

(* begin_stream_termination, and poll_stream_termination_once when that    *)
(* went well                                                               *)
Ended_NotTold(d, begun, s) == PollOutcomes(d, begun)

Ended(d, begun, s) ==
  UNION {IF b.result = "error" THEN {b} ELSE PollOutcomes(b.drivers, b.begun) : b \in Begun(d, begun, s)}

Drivers(o) ==
  /\ csDriver' = o.drivers
  /\ csBegun' = o.begun
  /\ csFaulty' = csFaulty \cup o.faulty

(* host_stream.take(), with the parked call's answer                       *)
StreamGone_InPhase(answer) ==
  /\ csStream' = 0
  /\ csAnswer' = [csAnswer EXCEPT ![csStream] = answer]
  /\ UNCHANGED csPhase

StreamGone(answer) ==
  /\ csStream' = 0
  /\ csPhase' = "none"
  /\ csAnswer' = [csAnswer EXCEPT ![csStream] = answer]

Stays == UNCHANGED <<csStream, csPhase, csWait, csAnswer>>

(* abort_callable_stream and cancel_callable_stream_with_reason, which     *)
(* differ in the reason alone                                              *)
Abort(d, begun) ==
  \E o \in Ended(d, begun, csStream) :
    /\ Drivers(o)
    /\ StreamGone("error")
    /\ csWait' = "none"
------------------------------------------------------------------------------
(* finish_callable_stream_value: the summary is pushed at once, and the    *)
(* parent waits for the termination if that takes time.                    *)
FinishValue(d, begun) ==
  \E o \in Ended(d, begun, csStream) :
    /\ Drivers(o)
    /\ IF o.result = "error"
       THEN StreamGone("error") /\ csWait' = "none"
       ELSE /\ StreamGone("value")
            /\ csWait' = IF Pending(o.drivers) = {} THEN "none" ELSE "ending"

(* poll_failed_stream_completion: what a failed hook added is closed; an   *)
(* error of that close makes the VM unusable.                              *)
PollRollback ==
  \/ /\ csPhase' = "RollbackCompletion"
     /\ csWait' = "stream"
     /\ UNCHANGED <<csStream, csAnswer, csReset>>
  \/ /\ StreamGone("error")
     /\ csWait' = "none"
     /\ csReset' \in {csReset, "cleanup failed"}

(* poll_callable_stream_completion: the hook runs once the terminations    *)
(* are over.  A failed termination leaves nothing to abort but the stream. *)
(* When the live resources cannot be listed the VM is unusable, and the    *)
(* stream stays as it is; a table whose every slot has a handle can list   *)
(* them (ResourceTable::live_handles), so this is more than may happen.    *)
StreamWaits ==
  /\ csPhase' = "AwaitTermination"
  /\ csWait' = "stream"
  /\ UNCHANGED <<csStream, csAnswer>>

HookMayRun_Early(o) == o.result # "error"

HookMayRun(o) == o.result = "ready"

PollCompletion(d, begun) ==
  \E o \in PollOutcomes(d, begun) :
    IF o.result = "error"
    THEN /\ \E a \in Ended(o.drivers, o.begun, csStream) : Drivers([a EXCEPT !.faulty = @ \cup o.faulty])
         /\ StreamGone("error")
         /\ csWait' = "none"
         /\ UNCHANGED csReset
    ELSE /\ Drivers(o)
         /\ IF HookMayRun(o)
            THEN \/ StreamGone("summary") /\ csWait' = "none" /\ UNCHANGED csReset
                 \/ PollRollback
                 \/ StreamWaits /\ csReset' = "cleanup failed"
            ELSE StreamWaits /\ UNCHANGED csReset

(* finish_callable_stream_with_termination for a summary that needs the VM *)
FinishWithVm(d, begun) ==
  \E b \in Begun(d, begun, csStream) :
    IF b.result = "error"
    THEN /\ \E a \in Ended(b.drivers, b.begun, csStream) : Drivers([a EXCEPT !.faulty = @ \cup b.faulty])
         /\ StreamGone("error")
         /\ csWait' = "none"
         /\ UNCHANGED csReset
    ELSE PollCompletion(b.drivers, b.begun)

(* finish_callable_stream_callback: the driver gets the callback's action, *)
(* which it may refuse.                                                    *)
FinishCallback(d, begun) ==
  \/ /\ Drivers([drivers |-> d, begun |-> begun, faulty |-> {}])
     /\ csPhase' = "AwaitItem"
     /\ csWait' = "stream"
     /\ UNCHANGED <<csStream, csAnswer, csReset>>
  \/ FinishValue(d, begun) /\ UNCHANGED csReset
  \/ FinishWithVm(d, begun)
  \/ Abort(d, begun) /\ UNCHANGED csReset

(* A callback runs until it yields, waits in a host operation, returns its *)
(* action or fails.                                                        *)
Suspends(wait) ==
  /\ csPhase' = "RunCallback"
  /\ csWait' = wait
  /\ UNCHANGED <<csStream, csAnswer, csReset, csDriver, csBegun, csFaulty>>
------------------------------------------------------------------------------
(* poll_callable_stream in AwaitItem.  An item whose arguments a hook      *)
(* makes in the VM is rolled back when the hook fails or the callback      *)
(* cannot be entered; the driver is told to end first.                     *)
RollbackItem ==
  \E o \in Ended(csDriver, csBegun, csStream) :
    /\ Drivers(o)
    /\ PollRollback

PollNext ==
  /\ csWait = "stream" /\ csPhase = "AwaitItem"
  /\ \/ Abort(csDriver, csBegun) /\ UNCHANGED csReset
     \/ FinishValue(csDriver, csBegun) /\ UNCHANGED csReset
     \/ FinishWithVm(csDriver, csBegun)
     \/ RollbackItem
     \/ Suspends("none")
     \/ Suspends("op")
     \/ FinishCallback(csDriver, csBegun)
  /\ UNCHANGED csProgram

PollEnd ==
  /\ csWait = "stream" /\ csPhase = "AwaitTermination"
  /\ PollCompletion(csDriver, csBegun)
  /\ UNCHANGED csProgram

PollRolledBack ==
  /\ csWait = "stream" /\ csPhase = "RollbackCompletion"
  /\ PollRollback
  /\ UNCHANGED <<csDriver, csBegun, csFaulty, csProgram>>

(* poll_waiting_host_op when the call has its summary and waits for the    *)
(* termination, or when nothing waits.                                     *)
PollTerminations ==
  /\ csWait \in {"ending", "none"}
  /\ \E o \in PollOutcomes(csDriver, csBegun) :
       /\ Drivers(o)
       /\ csWait' = IF o.result = "pending" THEN csWait ELSE "none"
  /\ UNCHANGED <<csStream, csPhase, csAnswer, csReset, csProgram>>

(* poll_waiting_host_op or complete_host_op for what the callback waits on *)
OpEnds ==
  /\ csWait = "op"
  /\ csWait' = "none"
  /\ UNCHANGED <<csStream, csPhase, csDriver, csBegun, csAnswer, csFaulty, csReset, csProgram>>
------------------------------------------------------------------------------
(* Vm::run.  ensure_scope_ready polls the terminations first and refuses   *)
(* to run unless they are over.                                            *)
Ready_Anyway(o) == o.result # "error"

Ready(o) == o.result = "ready"

RunRefused ==
  /\ csReset = "none" /\ csProgram = "going"
  /\ \E o \in PollOutcomes(csDriver, csBegun) : ~Ready(o) /\ Drivers(o)
  /\ Stays /\ UNCHANGED <<csReset, csProgram>>

Runs == csReset = "none" /\ csProgram = "going"

RunWaits ==
  /\ Runs /\ csWait # "none"
  /\ \E o \in PollOutcomes(csDriver, csBegun) : Ready(o) /\ Drivers(o)
  /\ Stays /\ UNCHANGED <<csReset, csProgram>>

(* The script runs: it installs a stream (install_callable_stream), yields *)
(* or ends.                                                                *)
RunInstalls ==
  /\ Runs /\ csWait = "none" /\ csStream = 0
  /\ \E o \in PollOutcomes(csDriver, csBegun), s \in Streams :
       /\ Ready(o)
       /\ o.drivers[s] = "none" /\ \A t \in 1..(s - 1) : o.drivers[t] # "none"
       /\ Drivers([o EXCEPT !.drivers[s] = "held"])
       /\ csStream' = s
  /\ csPhase' = "AwaitItem"
  /\ csWait' = "stream"
  /\ UNCHANGED <<csAnswer, csReset, csProgram>>

RunEnds ==
  /\ Runs /\ csWait = "none" /\ csStream = 0
  /\ \E o \in PollOutcomes(csDriver, csBegun) : Ready(o) /\ Drivers(o)
  /\ csProgram' \in {csProgram, "ended"}
  /\ Stays /\ UNCHANGED csReset

(* A suspended callback runs on; resume_callable_stream_after_run and      *)
(* abort_callable_stream_on_run_error                                      *)
RunsCallback == Runs /\ csWait = "none" /\ csPhase = "RunCallback" /\ Pending(csDriver) = {}

RunSuspends ==
  /\ RunsCallback
  /\ Suspends("none") \/ Suspends("op")
  /\ UNCHANGED csProgram

RunFinishes ==
  /\ RunsCallback
  /\ FinishCallback(csDriver, csBegun)
  /\ UNCHANGED csProgram

RunFails ==
  /\ RunsCallback
  /\ Abort(csDriver, csBegun)
  /\ UNCHANGED <<csReset, csProgram>>
------------------------------------------------------------------------------
(* cancel_waiting_host_op_with_reason.  An operation of the async bridge   *)
(* takes the stream with it; any other operation of the callback does not. *)
CancelWaiting ==
  /\ csWait # "none"
  /\ \/ csWait = "stream" /\ Abort(csDriver, csBegun)
     \/ csWait = "op" /\ Abort(csDriver, csBegun)
     \/ csWait \in {"op", "ending"} /\ csWait' = "none"
        /\ UNCHANGED <<csStream, csPhase, csAnswer, csDriver, csBegun, csFaulty>>
  /\ UNCHANGED <<csReset, csProgram>>

(* reset_for_reuse: cancel what is waited for, then the stream; an error   *)
(* of either is final, and the first one is kept (mark_reset_failed).      *)
ResetForReuse ==
  /\ IF csStream # 0
     THEN \E o \in Ended(csDriver, csBegun, csStream) :
            /\ Drivers(o)
            /\ StreamGone("error")
            /\ csReset' = IF csReset = "none" /\ o.result = "error" THEN "stream" ELSE csReset
     ELSE UNCHANGED <<csDriver, csBegun, csFaulty, csStream, csPhase, csAnswer, csReset>>
  /\ csWait' = "none"
  /\ csProgram' = IF csReset' = "none" THEN "going" ELSE csProgram

CallableStreamNext ==
  \/ PollNext
  \/ PollEnd
  \/ PollRolledBack
  \/ PollTerminations
  \/ OpEnds
  \/ RunRefused
  \/ RunWaits
  \/ RunInstalls
  \/ RunEnds
  \/ RunSuspends
  \/ RunFinishes
  \/ RunFails
  \/ CancelWaiting
  \/ ResetForReuse

CallableStreamSpec == CallableStreamInit /\ [][CallableStreamNext]_csVars
------------------------------------------------------------------------------
(* The continuation, what the VM waits for and the drivers keep their      *)
(* ranges, and a stream has a phase (HostStreamContinuation).              *)
CallableStreamTypeOK ==
  /\ csStream \in 0..MaxStreams
  /\ csPhase \in Phases
  /\ csWait \in {"none", "stream", "ending", "op"}
  /\ csDriver \in [Streams -> {"none", "held", "gone"} \cup Ending]
  /\ csProgram \in {"going", "ended"}
  /\ csReset \in {"none", "stream", "cleanup failed"}
  /\ csAnswer \in [Streams -> {"none", "value", "summary", "error"}]
  /\ csStream = 0 <=> csPhase = "none"
  /\ csWait = "stream" => csPhase \in {"AwaitItem", "AwaitTermination", "RollbackCompletion"}

(* A driver stays with the VM exactly as long as its stream takes items:   *)
(* whichever way a stream ends, its driver is handed to the terminations,  *)
(* never dropped and never kept, and accepts begin_termination once,       *)
(* though a refused one is asked again by every poll                       *)
(* (abort_callable_stream, finish_callable_stream_value,                   *)
(* cancel_callable_stream_with_reason, poll_stream_terminations).          *)
DriverHandedOver ==
  \A s \in Streams :
    /\ csDriver[s] = "held" <=> s = csStream /\ csPhase \in {"AwaitItem", "RunCallback"}
    /\ csBegun[s] = IF csDriver[s] \in {"none", "held", "refused"} THEN 0 ELSE 1

(* A summary that needs the VM is made only when the driver is gone        *)
(* (poll_callable_stream_completion).                                      *)
SummaryAfterEnd == \A s \in Streams : csAnswer[s] = "summary" => csDriver[s] = "gone"

(* The script runs on, and installs another stream, only when every stream *)
(* before it has ended for good (ensure_scope_ready).                      *)
StreamsApart == \A s, t \in Streams : s < t /\ csDriver[t] # "none" => csDriver[s] = "gone"
====
