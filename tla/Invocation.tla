----------------------------- MODULE Invocation -----------------------------
(***************************************************************************)
(* The invocation item stream, src/vm/invocation.rs: an exported callable  *)
(* started by start_invocation, polled for events, one result or one typed *)
(* error, cancelled or dropped at any point between two polls.             *)
(*                                                                         *)
(* poll_invocation_with_context is a loop, and each of its arms is an      *)
(* action.  What the script does between two suspensions is the outcome of *)
(* one run: it halts, emits, waits on an operation, yields, runs out of    *)
(* budget or fails.  The waiting operation (host.rs) and the callable      *)
(* stream a callback may belong to (async_host/stream.rs) are kept as far  *)
(* as cancellation and release tell their states apart.                    *)
(***************************************************************************)
EXTENDS Integers

CONSTANTS
  Reasons,      \* OperationCancelReason
  MaxEmits,     \* bound on the emit calls of one invocation
  MaxStarts     \* bound on the invocations started

ASSUME InvocationConstants ==
  /\ "none" \notin Reasons
  /\ MaxEmits \in Nat
  /\ MaxStarts \in Nat

VARIABLES
  ivPhase,      \* InvocationPhase, "none" before the first invocation
  ivLabel,      \* the value of EventPending: which emit call made it
  ivFailure,    \* the error of ErrorPending ...
  ivNamed,      \* ... and the reason it names when it is Cancelled
  ivEmitYield,  \* emit_yield_pending
  ivRejected,   \* pending_error is set
  ivCancel,     \* cancel_reason
  ivGuest,      \* the frames of the invocation: see Guests
  ivWait,       \* the source of waiting_host_op
  ivEntry,      \* bridge_operations entry of the last bridge operation
  ivRuns,       \* environment: the bridge still runs that operation
  ivStream,     \* host_stream: none, awaiting an item, in its callback, closing
  ivEnding,     \* a stream termination is pending
  ivHandle,     \* the Invocation handle exists
  ivPolling,    \* inside poll: its loop, a wait after a run, a stream's callback
  ivReply,      \* what the last poll returned
  ivReturned,   \* history: emit calls that returned to the script
  ivDelivered,  \* history: events delivered
  ivTerminals,  \* history: Complete and error items delivered
  ivFirst,      \* history: reason of the first cancel
  ivExpired,    \* history: an epoch deadline expired under the script
  ivStarts      \* invocations so far

itemVars  == <<ivLabel, ivFailure, ivNamed>>
flagVars  == <<ivEmitYield, ivRejected>>
waitVars  == <<ivWait, ivEntry, ivStream, ivEnding>>
replyVars == <<ivReply, ivDelivered, ivTerminals>>
ivVars    == <<ivPhase, itemVars, flagVars, ivCancel, ivGuest, waitVars, ivRuns, ivHandle,
               ivPolling, replyVars, ivReturned, ivFirst, ivExpired, ivStarts>>

(* The script: no frames; ready to go on; at an emit call site that        *)
(* yielded; out of fuel, which nobody can add while the handle exists.     *)
Guests == {"idle", "ready", "atEmit", "spent"}

Sources    == {"bridge", "scoped", "manual", "stream", "termination"}
Interrupts == {"fuel", "epoch"}
Failures   == {"cancelled", "fuel", "deadline", "capability", "failed"}
Outcomes   ==
  {"halt", "vanish", "emit", "oversize", "error", "yield", "bridge", "scoped", "manual", "stream"}
    \cup Interrupts

InvocationInit ==
  /\ ivPhase = "none"
  /\ ivLabel = 0 /\ ivFailure = "none" /\ ivNamed = "none"
  /\ ivEmitYield = FALSE /\ ivRejected = FALSE
  /\ ivCancel = "none"
  /\ ivGuest = "idle"
  /\ ivWait = "none" /\ ivEntry = "none" /\ ivStream = "none" /\ ivEnding = FALSE
  /\ ivRuns = FALSE
  /\ ivHandle = FALSE
  /\ ivPolling = "no"
  /\ ivReply = "none" /\ ivDelivered = 0 /\ ivTerminals = 0
  /\ ivReturned = 0
  /\ ivFirst = "none"
  /\ ivExpired = FALSE
  /\ ivStarts = 0
------------------------------------------------------------------------------
(* Ending a callable stream begins the termination of its driver, which    *)
(* may be over at once.  That of a closing stream has begun already.       *)
StreamEnds ==
  ivEnding' \in IF ivStream \in {"await", "callback"} /\ ivStream' = "none"
                THEN {TRUE, ivEnding} ELSE {ivEnding}

(* cancel_waiting_host_op_with_reason, with w waiting, entry e and stream  *)
(* s.  A bridge operation stays waiting until its acknowledgement, but     *)
(* cancelling the stream whose callback waits on it clears the waiting     *)
(* operation; a scoped or manual operation leaves its stream alone.  Asked *)
(* is request_cancel_host_op.                                              *)
Asked(e) == IF e = "active" THEN {"asked", "stuck"} ELSE {e}

StreamGoes(w, s) == w \in {"bridge", "stream"} /\ s # "none"

CancelWaiting(w, e, s) ==
  /\ ivWait' = IF w = "bridge" /\ ~StreamGoes(w, s) THEN "bridge" ELSE "none"
  /\ ivEntry' \in IF w = "bridge" THEN Asked(e) ELSE {e}
  /\ ivStream' = IF StreamGoes(w, s) THEN "none" ELSE s
  /\ StreamEnds

(* release_invocation: cancel_waiting_host_op, abort_host_invocation and   *)
(* drop_invocation_state; the caller sets the phase.  A mutant keeps the   *)
(* marker of an emit that yielded.                                         *)
Release_KeepsMarker(w, e, s) ==
  /\ CancelWaiting(w, e, s)
  /\ ivGuest' = "idle"
  /\ ivRejected' = FALSE
  /\ ivCancel' = "none"
  /\ UNCHANGED ivEmitYield

Release(w, e, s) ==
  /\ CancelWaiting(w, e, s)
  /\ ivGuest' = "idle"
  /\ ivEmitYield' = FALSE
  /\ ivRejected' = FALSE
  /\ ivCancel' = "none"

(* DriveOutcome::Error: release, then ErrorPending.                        *)
Fail(kind, w, e, s) ==
  /\ ivPhase' = "error"
  /\ ivFailure' = kind
  /\ ivNamed' = IF kind = "cancelled" THEN ivCancel ELSE "none"
  /\ ivLabel' = 0
  /\ Release(w, e, s)
------------------------------------------------------------------------------
(* One run of the script.  passed: it got past the emit call site it was   *)
(* suspended at, where emit_stream_item consumes the marker; an interrupt  *)
(* may come before.  A call site without a marker emits again.             *)
ReturnedBy(passed) ==
  IF passed /\ ivGuest = "atEmit" /\ ivEmitYield THEN ivReturned + 1 ELSE ivReturned

Runs(o, passed) ==
  /\ ivGuest # "idle"
  /\ passed \/ o \in Interrupts
  /\ ivGuest = "spent" => o = "fuel"
  /\ (ivGuest = "atEmit" /\ ~ivEmitYield) => o \in {"emit", "oversize"} \cup Interrupts
  /\ o = "emit" => ReturnedBy(passed) < MaxEmits
  /\ o = "stream" => ivStream = "none"
  /\ ivReturned' = ReturnedBy(passed)
  /\ ivExpired' = (ivExpired \/ o = "epoch")

(* The script suspends.  emit_stream_item sets the phase and the marker    *)
(* and yields; a mutant forgets the marker.                                *)
EmitMarker_Never(o, passed) == ~passed /\ ivEmitYield

EmitMarker(o, passed) == o = "emit" \/ (~passed /\ ivEmitYield)

Suspends(o, passed) ==
  /\ o \in {"emit", "yield"} \cup Interrupts \cup Sources
  /\ ivPhase' = IF o = "emit" THEN "event" ELSE "running"
  /\ ivLabel' = IF o = "emit" THEN ReturnedBy(passed) + 1 ELSE 0
  /\ ivEmitYield' = EmitMarker(o, passed)
  /\ ivGuest' = IF o = "emit" THEN "atEmit"
                ELSE IF o = "fuel" THEN "spent"
                ELSE IF passed THEN "ready" ELSE ivGuest
  /\ ivWait' = IF o \in Sources THEN o ELSE "none"
  /\ ivEntry' = IF o = "bridge" THEN "active" ELSE ivEntry
  /\ ivRuns' = IF o = "bridge" THEN TRUE ELSE ivRuns
  /\ ivStream' = IF o = "stream" THEN "await" ELSE ivStream
  /\ UNCHANGED <<ivFailure, ivNamed, ivRejected, ivCancel, ivEnding>>

(* The callable returned: CompletePending.                                 *)
Completes ==
  /\ ivPhase' = "complete"
  /\ ivGuest' = "idle"
  /\ ivEmitYield' = FALSE
  /\ UNCHANGED <<itemVars, ivRejected, ivCancel, waitVars, ivRuns>>

(* map_invocation_error: the error of a rejected payload comes from        *)
(* pending_error, which emit_stream_item has just set.                     *)
MappedError(o) == IF o = "oversize" THEN "capability" ELSE "failed"
------------------------------------------------------------------------------
(* start_invocation.  A tick charged on entering the frame fails the call; *)
(* a later one suspends it like any yield.                                 *)
Start(o) ==
  /\ ~ivHandle
  /\ ivStarts < MaxStarts
  /\ ivEntry = "none"
  /\ ~ivEnding
  /\ o = "stream" => ivStream = "none"
  /\ o = "emit" => MaxEmits > 0
  /\ ivHandle' = TRUE
  /\ ivStarts' = ivStarts + 1
  /\ ivReply' = "none"
  /\ ivReturned' = 0 /\ ivDelivered' = 0 /\ ivTerminals' = 0
  /\ ivFirst' = "none"
  /\ ivExpired' = (o = "epoch")
  /\ ivRejected' = FALSE /\ ivCancel' = "none" /\ ivNamed' = "none"
  /\ ivEmitYield' = (o = "emit")
  /\ ivWait' = IF o \in Sources THEN o ELSE "none"
  /\ ivEntry' = IF o = "bridge" THEN "active" ELSE "none"
  /\ ivRuns' = (o = "bridge")
  /\ ivStream' = IF o = "stream" THEN "await" ELSE ivStream
  /\ ivLabel' = IF o = "emit" THEN 1 ELSE 0
  /\ \/ /\ o = "halt"
        /\ ivPhase' = "complete" /\ ivGuest' = "idle" /\ ivFailure' = "none"
     \/ /\ o \in {"vanish", "oversize", "error"}
        /\ ivPhase' = "error" /\ ivGuest' = "idle"
        /\ ivFailure' \in {MappedError(o)} \cup (IF o = "error" THEN {"fuel", "deadline"} ELSE {})
     \/ /\ o \notin {"halt", "vanish", "oversize", "error"}
        /\ ivPhase' = IF o = "emit" THEN "event" ELSE "running"
        /\ ivGuest' = IF o = "emit" THEN "atEmit" ELSE IF o = "fuel" THEN "spent" ELSE "ready"
        /\ ivFailure' = "none"
  /\ UNCHANGED <<ivEnding, ivPolling>>

(* Invocation::cancel: the first reason wins.                              *)
FirstReason(r) == IF ivCancel = "none" THEN r ELSE ivCancel

Cancel(r) ==
  /\ ivHandle /\ ivPolling = "no" /\ ivPhase # "fused"
  /\ ivCancel' = FirstReason(r)
  /\ CancelWaiting(ivWait, ivEntry, ivStream)
  /\ ivFirst' = IF ivFirst = "none" THEN r ELSE ivFirst
  /\ ivGuest' = IF StreamGoes(ivWait, ivStream) THEN "ready" ELSE ivGuest
  /\ UNCHANGED <<ivPhase, itemVars, flagVars, ivRuns, ivHandle, ivPolling, replyVars, ivReturned,
                 ivExpired, ivStarts>>

(* Drop of the handle.                                                     *)
DropHandle ==
  /\ ivHandle /\ ivPolling = "no"
  /\ ivHandle' = FALSE
  /\ IF ivPhase = "fused"
     THEN UNCHANGED <<ivPhase, flagVars, ivCancel, ivGuest, waitVars>>
     ELSE ivPhase' = "fused" /\ Release(ivWait, ivEntry, ivStream)
  /\ UNCHANGED <<itemVars, ivRuns, ivPolling, replyVars, ivReturned, ivFirst, ivExpired, ivStarts>>
------------------------------------------------------------------------------
(* poll_next: the loop begins.                                             *)
Poll ==
  /\ ivHandle /\ ivPolling = "no"
  /\ ivPolling' = "loop"
  /\ UNCHANGED <<ivPhase, itemVars, flagVars, ivCancel, ivGuest, waitVars, ivRuns, ivHandle,
                 replyVars, ivReturned, ivFirst, ivExpired, ivStarts>>

Returns(reply) ==
  /\ ivPolling' = "no"
  /\ ivReply' = reply
  /\ UNCHANGED <<ivHandle, ivFirst, ivStarts>>

GoesOn ==
  /\ UNCHANGED <<replyVars, ivHandle, ivFirst, ivStarts>>

(* bridge_cancellation_pending holds a cancellation back until the bridge  *)
(* has acknowledged it.                                                    *)
Supersedes_Event == {"event"}

Supersedes == {"event", "complete"}

Superseded == ivCancel # "none" /\ ivWait # "bridge" /\ ivPhase \in Supersedes

LoopCancelled ==
  /\ ivPolling = "loop"
  /\ Superseded
  /\ ivPhase' = "error"
  /\ ivFailure' = "cancelled" /\ ivNamed' = ivCancel /\ ivLabel' = 0
  /\ GoesOn
  /\ UNCHANGED <<flagVars, ivCancel, ivGuest, waitVars, ivRuns, ivPolling, ivReturned, ivExpired>>

LoopEvent ==
  /\ ivPolling = "loop"
  /\ ~Superseded /\ ivPhase = "event"
  /\ ivPhase' = "running"
  /\ ivLabel' = 0
  /\ ivDelivered' = ivDelivered + 1
  /\ Returns("event")
  /\ UNCHANGED <<ivFailure, ivNamed, flagVars, ivCancel, ivGuest, waitVars, ivRuns, ivTerminals,
                 ivReturned, ivExpired>>

(* Complete and Error fuse the stream and release the invocation.  One     *)
(* mutant leaves the phase as it is.                                       *)
FusedAfter_Kept == ivPhase

FusedAfter == "fused"

LoopTerminal(reply) ==
  /\ ivPhase' = FusedAfter
  /\ ivTerminals' = ivTerminals + 1
  /\ Release(ivWait, ivEntry, ivStream)
  /\ Returns(reply)
  /\ UNCHANGED <<itemVars, ivRuns, ivDelivered, ivReturned, ivExpired>>

LoopComplete ==
  /\ ivPolling = "loop"
  /\ ~Superseded /\ ivPhase = "complete"
  /\ LoopTerminal("complete")

LoopError ==
  /\ ivPolling = "loop"
  /\ ivPhase = "error"
  /\ LoopTerminal(ivFailure)

LoopFused ==
  /\ ivPolling = "loop"
  /\ ivPhase = "fused"
  /\ Returns("end")
  /\ UNCHANGED <<ivPhase, itemVars, flagVars, ivCancel, ivGuest, waitVars, ivRuns, ivDelivered,
                 ivTerminals, ivReturned, ivExpired>>

Pends ==
  /\ Returns("pending")
  /\ UNCHANGED <<ivDelivered, ivTerminals>>
------------------------------------------------------------------------------
(* drive_invocation with a cancellation: the bridge, when the script waits *)
(* on it, is polled for its acknowledgement first.                         *)
Driving == ivPolling = "loop" /\ ivPhase = "running"

DriveCancelled ==
  /\ Driving /\ ivCancel # "none" /\ ivWait # "bridge"
  /\ Fail("cancelled", ivWait, ivEntry, ivStream)
  /\ GoesOn
  /\ UNCHANGED <<ivRuns, ivPolling, ivReturned, ivExpired>>

(* poll_bridge_operation_cancellation: pending while the bridge runs the   *)
(* operation; then its cleanup succeeds or its error is kept.  A mutant    *)
(* waits for an operation whose cancellation has failed.                   *)
AckPending_Failed == ivEntry = "stuck" \/ (ivEntry = "asked" /\ ivRuns)

AckPending == ivEntry = "asked" /\ ivRuns

DriveAcknowledged ==
  /\ Driving /\ ivCancel # "none" /\ ivWait = "bridge"
  /\ \/ /\ AckPending
        /\ Pends
        /\ UNCHANGED <<ivPhase, itemVars, flagVars, ivCancel, ivGuest, waitVars>>
     \/ /\ ivEntry = "asked" /\ ~ivRuns
        /\ Fail("cancelled", "none", "none", ivStream)
        /\ GoesOn /\ UNCHANGED ivPolling
     \/ /\ ivEntry = "stuck" \/ (ivEntry = "asked" /\ ~ivRuns)
        /\ Fail("failed", "bridge", "stuck", ivStream)
        /\ GoesOn /\ UNCHANGED ivPolling
  /\ UNCHANGED <<ivRuns, ivReturned, ivExpired>>
------------------------------------------------------------------------------
(* finish_callable_stream_callback: the action the callback returned goes  *)
(* to the driver.  It continues, or stops the stream, or is refused and    *)
(* the stream aborted.  A stopped stream waits for its termination: with   *)
(* its value pushed, or closing, when its summary is made in the VM after  *)
(* the termination or what a failed hook added is being closed.            *)
CallbackWaits ==
  /\ \/ ivWait' = "stream" /\ ivStream' = "await" /\ UNCHANGED ivEnding
     \/ ivWait' = "stream" /\ ivStream' = "closing" /\ ivEnding' \in {ivEnding, TRUE}
     \/ ivWait' = "termination" /\ ivStream' = "none" /\ ivEnding' = TRUE
  /\ ivGuest' = "ready" /\ ivEmitYield' = FALSE
  /\ UNCHANGED <<ivPhase, itemVars, ivRejected, ivCancel, ivEntry, ivRuns>>

CallbackStops ==
  /\ ivWait' = "none"
  /\ ivStream' = "none"
  /\ ivEnding' = FALSE
  /\ ivGuest' = "ready" /\ ivEmitYield' = FALSE
  /\ UNCHANGED <<ivPhase, itemVars, ivRejected, ivCancel, ivEntry, ivRuns>>

(* abort_callable_stream_on_run_error                                      *)
StreamAfterError == IF ivStream = "callback" THEN "none" ELSE ivStream

(* drive_invocation without a cancellation: Vm::run, and then              *)
(* poll_waiting_host_op when run reports Waiting.  run begins with         *)
(* ensure_scope_ready, which is a host error while a stream termination is *)
(* pending, whatever the script waits for.                                 *)
DriveRefused ==
  /\ Driving /\ ivCancel = "none" /\ ivEnding
  /\ Fail("failed", ivWait, ivEntry, ivStream)
  /\ GoesOn
  /\ UNCHANGED <<ivRuns, ivPolling, ivReturned, ivExpired>>

(* The script runs.  When a callback that was suspended stops its stream,  *)
(* run reports Halted and there is no result to take.                      *)
DriveRun(o, passed) ==
  /\ Driving /\ ivCancel = "none" /\ ~ivEnding /\ ivWait = "none"
  /\ Runs(o, passed)
  /\ \/ /\ o = "halt" /\ ivStream # "callback"
        /\ Completes
        /\ GoesOn /\ UNCHANGED ivPolling
     \/ /\ o = "halt" /\ ivStream = "callback"
        /\ CallbackWaits
        /\ ivPolling' = "wait" /\ GoesOn
     \/ /\ o \in {"halt", "vanish", "oversize", "error"}
        /\ o = "halt" => ivStream = "callback"
        /\ Fail(MappedError(o), "none", ivEntry, StreamAfterError)
        /\ GoesOn /\ UNCHANGED <<ivRuns, ivPolling>>
     \/ /\ o \in Interrupts
        /\ Fail(IF o = "fuel" THEN "fuel" ELSE "deadline", "none", ivEntry, ivStream)
        /\ GoesOn /\ UNCHANGED <<ivRuns, ivPolling>>
     \/ /\ o \in {"emit"} \cup Sources
        /\ Suspends(o, passed)
        /\ ivPolling' = IF o = "emit" THEN "loop" ELSE "wait"
        /\ GoesOn
     \/ /\ o = "yield"
        /\ Suspends(o, passed)
        /\ Pends

(* poll_waiting_host_op: of what the last run left waiting, in the same    *)
(* drive, or of what run found waiting.                                    *)
WaitPends ==
  /\ ivWait = "bridge" => ivRuns
  /\ ivWait = "termination" => ivEnding
  /\ ivWait # "manual"
  /\ Pends
  /\ UNCHANGED <<ivPhase, itemVars, flagVars, ivCancel, ivGuest, waitVars>>

WaitCompletes ==
  /\ ivWait = "bridge" => ~ivRuns
  /\ ivWait \in {"stream", "termination"} => ~ivEnding
  /\ ivWait # "manual"
  /\ ivWait' = "none"
  /\ ivEntry' = IF ivWait = "bridge" THEN "none" ELSE ivEntry
  /\ ivStream' = IF ivWait = "stream" THEN "none" ELSE ivStream
  /\ ivPolling' = "loop" /\ GoesOn
  /\ UNCHANGED <<ivPhase, itemVars, flagVars, ivCancel, ivGuest, ivEnding>>

WaitFails ==
  /\ ivWait = "bridge" => ~ivRuns
  /\ ivWait \in {"stream", "termination"} => ~ivEnding
  /\ \E e \in IF ivWait = "bridge" THEN {"none", "stuck"} ELSE {ivEntry} :
        Fail("failed", "none", e, IF ivWait = "stream" THEN "none" ELSE ivStream)
  /\ ivPolling' = "loop" /\ GoesOn

(* poll_callable_stream: an item enters the callback; the end of the       *)
(* stream, or of an item whose hook failed, may take more than this poll.  *)
StreamItem ==
  /\ ivWait = "stream" /\ ivStream = "await"
  /\ ivWait' = "none"
  /\ ivStream' = "callback"
  /\ ivGuest' = "ready"
  /\ ivPolling' = "callback"
  /\ GoesOn
  /\ UNCHANGED <<ivPhase, itemVars, flagVars, ivCancel, ivEntry, ivEnding>>

StreamFinishes ==
  /\ ivWait = "stream" /\ ivStream = "await"
  /\ \/ ivWait' = "termination" /\ ivStream' = "none" /\ ivEnding' = TRUE
     \/ ivWait' = "stream" /\ ivStream' = "closing" /\ ivEnding' \in BOOLEAN
  /\ Pends
  /\ UNCHANGED <<ivPhase, itemVars, flagVars, ivCancel, ivGuest, ivEntry>>

DriveWaits ==
  /\ ivPolling = "wait" \/ (Driving /\ ivCancel = "none" /\ ~ivEnding)
  /\ ivWait # "none"
  /\ WaitPends \/ WaitCompletes \/ WaitFails \/ StreamItem \/ StreamFinishes
  /\ UNCHANGED <<ivRuns, ivReturned, ivExpired>>

(* start_callable_stream_callback: the callback runs inside the poll of    *)
(* its stream, which drives it no further than its first suspension.       *)
CallbackRuns(o, passed) ==
  /\ ivPolling = "callback"
  /\ Runs(o, passed)
  /\ \/ /\ o = "halt"
        /\ CallbackWaits
        /\ Pends
     \/ /\ o = "halt"
        /\ CallbackStops
        /\ ivPolling' = "loop" /\ GoesOn
     \/ /\ o \in {"halt", "vanish", "oversize", "error"}
        /\ Fail(MappedError(o), "none", ivEntry, "none")
        /\ ivPolling' = "loop" /\ GoesOn /\ UNCHANGED ivRuns
     \/ /\ Suspends(o, passed)
        /\ ivPolling' = "loop" /\ GoesOn
------------------------------------------------------------------------------
(* The environment: the bridge stops running the operation, the drivers of *)
(* ended streams terminate, and the owner of a VM without an invocation    *)
(* polls the operation that is still waiting.                              *)
BridgeEnds ==
  /\ ivRuns
  /\ ivRuns' = FALSE
  /\ UNCHANGED <<ivPhase, itemVars, flagVars, ivCancel, ivGuest, waitVars, ivHandle, ivPolling,
                 replyVars, ivReturned, ivFirst, ivExpired, ivStarts>>

TerminationEnds ==
  /\ ivEnding
  /\ ivEnding' = FALSE
  /\ UNCHANGED <<ivPhase, itemVars, flagVars, ivCancel, ivGuest, ivWait, ivEntry, ivStream, ivRuns,
                 ivHandle, ivPolling, replyVars, ivReturned, ivFirst, ivExpired, ivStarts>>

PollWaitingHostOp ==
  /\ ~ivHandle
  /\ ivWait = "bridge" /\ ivEntry = "asked" /\ ~ivRuns
  /\ \/ ivWait' = "none" /\ ivEntry' = "none"
     \/ ivEntry' = "stuck" /\ UNCHANGED ivWait
  /\ UNCHANGED <<ivPhase, itemVars, flagVars, ivCancel, ivGuest, ivStream, ivEnding, ivRuns, ivHandle,
                 ivPolling, replyVars, ivReturned, ivFirst, ivExpired, ivStarts>>

Loop ==
  \/ LoopCancelled
  \/ LoopEvent
  \/ LoopComplete
  \/ LoopError
  \/ LoopFused
  \/ DriveCancelled
  \/ DriveAcknowledged
  \/ DriveRefused
  \/ DriveWaits
  \/ \E o \in Outcomes, passed \in BOOLEAN : DriveRun(o, passed)
  \/ \E o \in Outcomes, passed \in BOOLEAN : CallbackRuns(o, passed)

InvocationNext ==
  \/ \E o \in Outcomes : Start(o)
  \/ \E r \in Reasons : Cancel(r)
  \/ DropHandle
  \/ Poll
  \/ Loop
  \/ BridgeEnds
  \/ TerminationEnds
  \/ PollWaitingHostOp

InvocationSpec == InvocationInit /\ [][InvocationNext]_ivVars

(* A poll runs to its end, the owner polls a handle until its stream is    *)
(* fused, and what the bridge or a driver was asked to stop does stop.     *)
InvocationFairSpec ==
  /\ InvocationSpec
  /\ WF_ivVars(Loop)
  /\ WF_ivVars(ivPhase # "fused" /\ Poll)
  /\ WF_ivVars(BridgeEnds)
  /\ WF_ivVars(TerminationEnds)
------------------------------------------------------------------------------
(* Every emit call that returned to the script delivered exactly one       *)
(* event, in the order of the calls: the event that is pending belongs to  *)
(* the next call, and the call whose event was delivered last returns      *)
(* without another one (emit_yield_pending).                               *)
EachEmitOnce ==
  /\ ivPhase = "event" => ivLabel = ivDelivered + 1 /\ ivReturned = ivDelivered
  /\ ivPhase = "complete" => ivReturned = ivDelivered
  /\ ivPhase = "running" /\ ivGuest # "spent" =>
       ivDelivered = ivReturned + (IF ivGuest = "atEmit" THEN 1 ELSE 0)

(* A stream that is not fused has delivered no Complete and no error, and  *)
(* one fused by a poll exactly one: a poll after the terminal item reports *)
(* the end, whatever was cancelled, waiting or pending before.  If the     *)
(* item is Cancelled it names the reason of the first cancel, however many *)
(* followed and whatever the bridge had to acknowledge in between.         *)
TerminalOnce ==
  ivHandle =>
    /\ ivTerminals = IF ivPhase = "fused" THEN 1 ELSE 0
    /\ ivFailure = "cancelled" => ivNamed = ivFirst

(* Once cancel was called, no event and no result reach the consumer, not  *)
(* even one that was already pending.                                      *)
CancelIsFinal ==
  [][ivPolling # "no" /\ ivPolling' = "no" /\ ivFirst # "none"
       => ivReply' \notin {"event", "complete"}]_ivVars

(* A fused stream leaves the next invocation no frames, marker, rejected   *)
(* payload or reason of its own, and nothing waiting but a bridge          *)
(* operation that was asked to cancel (release_invocation).  It says       *)
(* nothing of a callable stream or of a termination, which may outlive it. *)
FusedIsClean ==
  ivPhase = "fused" =>
    /\ ivGuest = "idle"
    /\ ~ivEmitYield /\ ~ivRejected
    /\ ivCancel = "none"
    /\ ivWait = "none" \/ (ivWait = "bridge" /\ ivEntry \in {"asked", "stuck"})

(* A cancelled invocation ends: its handle is polled to the end of the     *)
(* stream or dropped, whatever it was waiting on.                          *)
CancelEnds == ivFirst # "none" ~> ivPhase = "fused"
====
