---------------------------- MODULE HostRuntime ----------------------------
(***************************************************************************)
(* The host runtime of a VM, src/vm/host_runtime.rs: the operations it has *)
(* handed to the async bridge, the stream drivers and their terminations,  *)
(* and the reset that publishes a fresh execution scope once bridge,       *)
(* streams and the old scope are quiet.  Each action is one call of the VM *)
(* facade (src/vm/mod.rs, host.rs, async_host/) or a step of the           *)
(* environment: a bridge future, a stream producer, the scope's own work.  *)
(*                                                                         *)
(* The published scope is the abstract ScopeLifecycle, which               *)
(* ExecutionScope implements.  The reason it was closed with is read by    *)
(* nobody here, submitted_host_ops only selects the bridge method that     *)
(* polls, and replacement_execution_scope is set exactly while             *)
(* scope_reset_pending is; none of them is kept.                           *)
(***************************************************************************)
EXTENDS Integers, FiniteSets

CONSTANTS
  Work,          \* what a scope may hold: operations and resources
  MaxHostOp,     \* bound on the ids handed out
  MaxResets,     \* bound on the replacements published
  MaxFaults      \* bound on the failures of bridge, drivers and scope

ASSUME HostRuntimeConstants ==
  /\ MaxHostOp \in Nat \ {0}
  /\ MaxResets \in Nat
  /\ MaxFaults \in Nat

VARIABLES
  hrNext,          \* next_host_op_id
  hrHasBridge,     \* async_bridge is set
  hrBridge,        \* bridge_operations
  hrRunning,       \* environment: operations the bridge still runs
  hrDrivers,       \* keys of stream_drivers
  hrPending,       \* pending_stream_terminations
  hrRollbacks,     \* those of them that have an admission_error
  hrProducers,     \* environment: streams whose producer still runs
  hrPhase, hrVerdict, hrHeld,            \* the published execution_scope
  hrCompletions,   \* keys of scoped_operation_completions
  hrResetPending,  \* scope_reset_pending
  hrError,         \* "scope": scope_reset_error, "other": reset_error
  hrVm,            \* "live", "shut" (instance.shutdown) or "dropped"
  hrGen,           \* history: replacements published
  hrSwept,         \* history: ids from here on are younger than the last
                   \*   request to cancel every operation
  hrTainted,       \* history: a stream cleanup failed while a reset pended
  hrFaults         \* failures so far

bridgeVars == <<hrNext, hrHasBridge, hrBridge, hrRunning>>
streamVars == <<hrDrivers, hrPending, hrRollbacks, hrProducers, hrTainted>>
scopeState == <<hrPhase, hrVerdict, hrHeld>>
resetVars  == <<hrResetPending, hrError, hrGen>>
hrVars     == <<bridgeVars, streamVars, scopeState, hrCompletions, resetVars, hrVm, hrSwept, hrFaults>>

HostOps == 1..MaxHostOp

Scope ==
  INSTANCE ScopeLifecycle
    WITH Bindings <- {"some"}, Verdicts <- {"Success", "SuccessWithErrors"}, None <- "none",
         phase <- hrPhase, bound <- IF hrPhase = "Active" THEN "none" ELSE "some",
         verdict <- hrVerdict, held <- hrHeld
------------------------------------------------------------------------------
(* An entry of bridge_operations: none, active, asked to cancel, or kept   *)
(* with the error that its completion (failed) or its cancellation (stuck) *)
(* met.  Every reader treats cancellation_error and cleanup_error alike.   *)
Entries == {"none", "active", "asked", "failed", "stuck"}
Asked   == {"asked", "stuck"}
Errors  == {"failed", "stuck"}

(* A pending stream termination: none, refused by its driver so far,       *)
(* begun, or begun after a refusal, whose error it keeps.                  *)
Terminations == {"none", "refused", "begun", "late"}

Tracked(b)     == {id \in HostOps : b[id] # "none"}
Terminating(p) == {id \in HostOps : p[id] # "none"}

(* What may fail within one call: the bridge refuses a request to cancel,  *)
(* its cancellation or cleanup fails; a driver refuses to begin, or fails  *)
(* to end, its termination; the scope closes with errors, or there is no   *)
(* identity for another one.                                               *)
Faults ==
  ({"request", "cleanup"} \X Tracked(hrBridge))
    \cup ({"begin", "end"} \X (hrDrivers \cup Terminating(hrPending)))
    \cup {<<"close", 0>>, <<"identity", 0>>}

FaultSets(possible) == {f \in SUBSET possible : Cardinality(f) + hrFaults <= MaxFaults}

Charge(f) == hrFaults' = hrFaults + Cardinality(f)

HostRuntimeInit ==
  /\ hrNext = 1
  /\ hrHasBridge = TRUE
  /\ hrBridge = [id \in HostOps |-> "none"]
  /\ hrRunning = {}
  /\ hrDrivers = {}
  /\ hrPending = [id \in HostOps |-> "none"]
  /\ hrRollbacks = {}
  /\ hrProducers = {}
  /\ Scope!Init
  /\ hrCompletions = {}
  /\ hrResetPending = FALSE
  /\ hrError = "none"
  /\ hrVm = "live"
  /\ hrGen = 0
  /\ hrTainted = FALSE
  /\ hrSwept = 1
  /\ hrFaults = 0
------------------------------------------------------------------------------
(* request_cancel_host_op for each of ops: only a first request reaches    *)
(* the bridge.  One mutant invents an entry no reader knows, another asks  *)
(* for one operation only.                                                 *)
Refused_Retry(f, id) == IF <<"request", id>> \in f THEN "retry" ELSE "asked"

Refused(f, id) == IF <<"request", id>> \in f THEN "stuck" ELSE "asked"

Requested_One(b, ops, f) ==
  [id \in HostOps |->
     IF id \in ops /\ b[id] = "active" /\ (\A o \in Tracked(b) : id <= o) THEN Refused(f, id) ELSE b[id]]

Requested(b, ops, f) ==
  [id \in HostOps |-> IF id \in ops /\ b[id] = "active" THEN Refused(f, id) ELSE b[id]]

(* request_cancel_submitted_host_ops fails when some entry has an error.   *)
Stuck(b) == {id \in HostOps : b[id] \in Errors}

(* poll_bridge_operations: an operation asked to cancel leaves once the    *)
(* bridge is done with it and its cleanup succeeds.  One mutant forgets    *)
(* the request of an entry still running, another takes the request for    *)
(* the acknowledgement.                                                    *)
Acknowledged_Forgets(b, f) ==
  [id \in HostOps |->
     IF b[id] # "asked" THEN b[id]
     ELSE IF <<"cleanup", id>> \in f THEN "stuck"
     ELSE IF id \in hrRunning THEN "active" ELSE "none"]

Acknowledged_OnRequest(b, f) ==
  [id \in HostOps |->
     IF b[id] # "asked" THEN b[id] ELSE IF <<"cleanup", id>> \in f THEN "stuck" ELSE "none"]

Acknowledged(b, f) ==
  [id \in HostOps |->
     IF b[id] # "asked" THEN b[id]
     ELSE IF <<"cleanup", id>> \in f THEN "stuck"
     ELSE IF id \in hrRunning THEN "asked" ELSE "none"]

BridgeResult(b) ==
  IF \E id \in HostOps : b[id] = "stuck" THEN "Err" ELSE IF Tracked(b) = {} THEN "Ok" ELSE "Pending"

(* poll_stream_terminations.  One that has not begun is begun first, or    *)
(* stays refused.  A begun one leaves once its driver reports the end,     *)
(* which it does only when its producer is quiet.                          *)
BegunIn(p, f) == {id \in Terminating(p) : p[id] # "refused" \/ <<"begin", id>> \notin f}
EndedIn(p, f) == BegunIn(p, f) \ hrProducers

Polled(p, f) ==
  [id \in HostOps |->
     IF id \in EndedIn(p, f) THEN "none"
     ELSE IF id \in BegunIn(p, f) /\ p[id] = "refused" THEN "late" ELSE p[id]]

CleanupErrors(p, f) == {id \in EndedIn(p, f) : p[id] # "begun" \/ <<"end", id>> \in f}

(* Its result: a refused admission rollback is reported at once; the error *)
(* of a termination that ended, only when nothing is left or no rollback   *)
(* was there.                                                              *)
StreamResult(p, f) ==
  LET rollbacks == Terminating(p) \cap hrRollbacks
      left      == Terminating(p) \ EndedIn(p, f)
      errors    == CleanupErrors(p, f) \cup (rollbacks \cap EndedIn(p, f))
      err       == \/ ~(rollbacks \subseteq BegunIn(p, f))
                   \/ errors # {} /\ (rollbacks = {} \/ left = {})
  IN  IF err THEN "Err" ELSE IF left = {} THEN "Ok" ELSE "Pending"

PollStreams(p, f, resetting) ==
  /\ hrPending' = Polled(p, f)
  /\ hrTainted' = (hrTainted \/ (resetting /\ CleanupErrors(p, f) # {}))

(* begin_stream_termination for the drivers ids.                           *)
BeginsRefused(f) == {id \in hrDrivers : <<"begin", id>> \in f}

Begun(p, ids, f) ==
  [id \in HostOps |->
     IF id \in ids THEN IF <<"begin", id>> \in f THEN "refused" ELSE "begun" ELSE p[id]]
------------------------------------------------------------------------------
(* ensure_scope_ready: when script code, hence a host call, may run.       *)
Ready ==
  /\ hrVm = "live"
  /\ hrError = "none"
  /\ Terminating(hrPending) = {}
  /\ ~hrResetPending
  /\ \A id \in HostOps : hrBridge[id] \notin Asked
  /\ hrPhase = "Active"

(* The bridge runs one more operation.  submit_host_future asks only for a *)
(* bridge and an id (reserve_submitted_host_op; a submission the bridge    *)
(* refuses is rolled back and leaves nothing): the embedder may call it    *)
(* outside a run too, also while a reset is pending, after one failed or   *)
(* after shutdown.  A call that returns Pending and is tracked by          *)
(* set_waiting_host_op_with_return does the same within a run.             *)
Submit ==
  /\ hrVm # "dropped"
  /\ hrHasBridge
  /\ hrNext \in HostOps
  /\ hrBridge' = [hrBridge EXCEPT ![hrNext] = "active"]
  /\ hrRunning' = hrRunning \cup {hrNext}
  /\ hrNext' = hrNext + 1
  /\ UNCHANGED <<hrHasBridge, streamVars, scopeState, hrCompletions, resetVars, hrVm, hrSwept, hrFaults>>

(* set_async_bridge and clear_async_bridge, refused while an operation is  *)
(* tracked; a waiting stream is cancelled first (EndStream).               *)
MayReplaceBridge_Always == TRUE

MayReplaceBridge == Tracked(hrBridge) = {}

ReplaceBridge ==
  /\ hrVm # "dropped"
  /\ MayReplaceBridge
  /\ hrHasBridge' = ~hrHasBridge
  /\ UNCHANGED <<hrNext, hrBridge, hrRunning>>
  /\ UNCHANGED <<streamVars, scopeState, hrCompletions, resetVars, hrVm, hrSwept, hrFaults>>

(* What follows concerns one tracked operation and only the bridge.        *)
BridgeStep(id, entry, f) ==
  /\ hrVm # "dropped"
  /\ hrBridge' = [hrBridge EXCEPT ![id] = entry]
  /\ Charge(f)
  /\ UNCHANGED <<hrNext, hrHasBridge, streamVars, scopeState, hrCompletions, resetVars, hrVm, hrSwept>>

(* Only a run sets waiting_host_op; a reset that begins and shutdown clear *)
(* it, so that no wait ends, or is cancelled, until the next run.          *)
MayWait == hrVm = "live" /\ ~hrResetPending

(* A cancelled wait: request_cancel_host_op.                               *)
CancelOp(id) ==
  /\ MayWait
  /\ hrBridge[id] = "active"
  /\ \E f \in FaultSets({<<"request", id>>}) :
       BridgeStep(id, Requested(hrBridge, {id}, f)[id], f)
  /\ UNCHANGED hrRunning

(* A wait that ends, polled or completed by the embedder:                  *)
(* complete_bridge_operation, whose cleanup makes the bridge let go.       *)
CompleteOp(id) ==
  /\ MayWait
  /\ hrBridge[id] = "active"
  /\ \E f \in FaultSets({<<"cleanup", id>>}) :
       /\ BridgeStep(id, IF f = {} THEN "none" ELSE "failed", f)
       /\ hrRunning' = IF f = {} THEN hrRunning \ {id} ELSE hrRunning

(* poll_bridge_operation_cancellation for a wait that was cancelled; a     *)
(* reset that failed keeps it.                                             *)
PollCancellation(id) ==
  /\ MayWait \/ hrError # "none"
  /\ hrBridge[id] = "asked"
  /\ \E f \in FaultSets({<<"cleanup", id>>}) :
       BridgeStep(id, Acknowledged(hrBridge, f)[id], f)
  /\ UNCHANGED hrRunning
------------------------------------------------------------------------------
(* install_callable_stream: one stream at a time.                          *)
InstallStream ==
  /\ Ready
  /\ hrDrivers = {}
  /\ hrNext \in HostOps
  /\ hrDrivers' = {hrNext}
  /\ hrProducers' = hrProducers \cup {hrNext}
  /\ hrNext' = hrNext + 1
  /\ UNCHANGED <<hrHasBridge, hrBridge, hrRunning, hrPending, hrRollbacks, hrTainted>>
  /\ UNCHANGED <<scopeState, hrCompletions, resetVars, hrVm, hrSwept, hrFaults>>

(* rollback_rejected_callable_stream: an admission the VM refuses, its     *)
(* driver retained, begun and polled once.                                 *)
RejectStream ==
  /\ Ready
  /\ hrNext \in HostOps
  /\ \E f \in FaultSets({<<"begin", hrNext>>, <<"end", hrNext>>}), quiet \in BOOLEAN :
       /\ hrPending' = [hrPending EXCEPT ![hrNext] =
            IF <<"begin", hrNext>> \in f THEN "refused" ELSE IF quiet THEN "none" ELSE "begun"]
       /\ hrRollbacks' = hrRollbacks \cup {hrNext}
       /\ hrProducers' = IF quiet THEN hrProducers ELSE hrProducers \cup {hrNext}
       /\ Charge(f)
  /\ hrNext' = hrNext + 1
  /\ UNCHANGED <<hrHasBridge, hrBridge, hrRunning, hrDrivers, hrTainted>>
  /\ UNCHANGED <<scopeState, hrCompletions, resetVars, hrVm, hrSwept>>

(* A stream finishes, is aborted or is cancelled: begin_stream_termination *)
(* and then, unless the driver refused, one poll.                          *)
EndStream ==
  /\ hrVm # "dropped"
  /\ hrDrivers # {}
  /\ hrDrivers' = {}
  /\ \E f \in FaultSets(Faults) :
       /\ IF BeginsRefused(f) # {}
            THEN hrPending' = Begun(hrPending, hrDrivers, f) /\ UNCHANGED hrTainted
            ELSE PollStreams(Begun(hrPending, hrDrivers, f), f, hrResetPending)
       /\ Charge(f)
  /\ UNCHANGED <<bridgeVars, hrRollbacks, hrProducers, scopeState, hrCompletions, resetVars, hrVm, hrSwept>>

(* poll_stream_terminations from poll_waiting_host_op, or from             *)
(* ensure_scope_ready at the head of a run: the result goes to that caller.*)
PollTerminations ==
  /\ hrVm # "dropped"
  /\ Terminating(hrPending) # {}
  /\ \E f \in FaultSets(Faults) : PollStreams(hrPending, f, hrResetPending) /\ Charge(f)
  /\ UNCHANGED <<bridgeVars, hrDrivers, hrRollbacks, hrProducers, scopeState, hrCompletions, resetVars, hrVm, hrSwept>>
------------------------------------------------------------------------------
(* Script code, or the embedder through execution_scope(), uses the scope; *)
(* a host call registers the completion of an operation that the VM is     *)
(* going to wait for: register_scoped_operation_completion.                *)
UseScope ==
  /\ hrVm # "dropped"
  /\ Scope!Admit
  /\ \/ UNCHANGED hrCompletions
     \/ Ready /\ hrCompletions' = hrCompletions \cup (hrHeld' \ hrHeld)
  /\ UNCHANGED <<bridgeVars, streamVars, resetVars, hrVm, hrSwept, hrFaults>>

(* poll_scoped_operation or a cancelled wait takes the completion, and the *)
(* operation leaves the scope with it or later (WorkEnds).                 *)
TakeCompletion ==
  /\ hrVm # "dropped"
  /\ \E w \in hrCompletions : hrCompletions' = hrCompletions \ {w}
  /\ UNCHANGED <<bridgeVars, streamVars, scopeState, resetVars, hrVm, hrSwept, hrFaults>>

(* The embedder closes the scope itself (begin_close through               *)
(* execution_scope()), and polls that close.                               *)
CloseScope ==
  /\ hrVm # "dropped"
  /\ hrPhase = "Active"
  /\ hrPhase' = "Closing"
  /\ UNCHANGED <<hrVerdict, hrHeld>>
  /\ UNCHANGED <<bridgeVars, streamVars, hrCompletions, resetVars, hrVm, hrSwept, hrFaults>>

PollScope ==
  /\ hrVm # "dropped"
  /\ hrPhase = "Closing"
  /\ hrHeld = {}
  /\ hrPhase' = "Quiescent"
  /\ \E f \in FaultSets({<<"close", 0>>}) :
       /\ hrVerdict' = IF f = {} THEN "Success" ELSE "SuccessWithErrors"
       /\ Charge(f)
  /\ UNCHANGED hrHeld
  /\ UNCHANGED <<bridgeVars, streamVars, hrCompletions, resetVars, hrVm, hrSwept>>

WorkEnds ==
  /\ hrHeld' \in SUBSET hrHeld \ {hrHeld}
  /\ Scope!Give
  /\ UNCHANGED <<bridgeVars, streamVars, hrCompletions, resetVars, hrVm, hrSwept, hrFaults>>

FutureEnds(id) ==
  /\ id \in hrRunning
  /\ hrRunning' = hrRunning \ {id}
  /\ UNCHANGED <<hrNext, hrHasBridge, hrBridge>>
  /\ UNCHANGED <<streamVars, scopeState, hrCompletions, resetVars, hrVm, hrSwept, hrFaults>>

ProducerEnds(id) ==
  /\ id \in hrProducers
  /\ hrProducers' = hrProducers \ {id}
  /\ UNCHANGED <<hrDrivers, hrPending, hrRollbacks, hrTainted>>
  /\ UNCHANGED <<bridgeVars, scopeState, hrCompletions, resetVars, hrVm, hrSwept, hrFaults>>
------------------------------------------------------------------------------
(* begin_close and then poll_close on a scope in phase ph.                 *)
BeginClose(ph) == IF ph = "Active" THEN "Closing" ELSE ph

Closed(ph) == ph = "Quiescent" \/ (ph = "Closing" /\ hrHeld = {})

Outcome(ph, f) ==
  IF ph = "Quiescent" THEN hrVerdict
  ELSE IF <<"close", 0>> \in f THEN "SuccessWithErrors" ELSE "Success"

PollClose(ph) == IF Closed(ph) THEN "Quiescent" ELSE ph

(* The ends of poll_reset_execution_scope, begun with the bridge table b,  *)
(* terminations p and scope phase ph while a reset is pending.             *)
ResetWaitsForBridge(b, p, ph, f) ==
  /\ BridgeResult(b) # "Ok"
  /\ hrPending' = p
  /\ hrPhase' = ph
  /\ hrError' = IF BridgeResult(b) = "Err" THEN "other" ELSE hrError
  /\ hrResetPending' = TRUE
  /\ UNCHANGED <<hrVerdict, hrHeld, hrGen, hrTainted>>

ResetMeetsStreamError(b, p, ph, f) ==
  /\ BridgeResult(b) = "Ok" /\ StreamResult(p, f) = "Err"
  /\ PollStreams(p, f, TRUE)
  /\ hrPhase' = ph
  /\ hrError' = "other"
  /\ hrResetPending' = TRUE
  /\ UNCHANGED <<hrVerdict, hrHeld, hrGen>>

(* The mutant publishes without asking the streams.                        *)
MayPublish_Scope(p, ph, f) == Closed(ph) /\ Outcome(ph, f) = "Success"

MayPublish(p, ph, f) == Closed(ph) /\ Outcome(ph, f) = "Success" /\ StreamResult(p, f) = "Ok"

ResetWaitsForScope(b, p, ph, f) ==
  /\ BridgeResult(b) = "Ok" /\ StreamResult(p, f) # "Err" /\ ~MayPublish(p, ph, f)
  /\ PollStreams(p, f, TRUE)
  /\ hrPhase' = PollClose(ph)
  /\ hrVerdict' = IF Closed(ph) THEN Outcome(ph, f) ELSE hrVerdict
  /\ hrError' = IF Closed(ph) /\ Outcome(ph, f) # "Success" THEN "scope" ELSE hrError
  /\ hrResetPending' = TRUE
  /\ UNCHANGED <<hrHeld, hrGen>>

ResetPublishes(b, p, ph, f) ==
  /\ BridgeResult(b) = "Ok" /\ StreamResult(p, f) # "Err" /\ MayPublish(p, ph, f)
  /\ PollStreams(p, f, TRUE)
  /\ hrPhase' = "Active" /\ hrVerdict' = "none" /\ hrHeld' = {}
  /\ hrResetPending' = FALSE
  /\ hrGen' = hrGen + 1
  /\ UNCHANGED hrError

PollResetFrom(b, p, ph, f) ==
  /\ hrBridge' = Acknowledged(b, f)
  /\ \/ ResetWaitsForBridge(Acknowledged(b, f), p, ph, f)
     \/ ResetMeetsStreamError(Acknowledged(b, f), p, ph, f)
     \/ ResetWaitsForScope(Acknowledged(b, f), p, ph, f)
     \/ ResetPublishes(Acknowledged(b, f), p, ph, f)

(* poll_reset_for_reuse, and the same poll at the head of a run.           *)
PollReset ==
  /\ hrVm # "dropped"
  /\ hrError = "none"
  /\ hrResetPending
  /\ \E f \in FaultSets(Faults) : PollResetFrom(hrBridge, hrPending, hrPhase, f) /\ Charge(f)
  /\ UNCHANGED <<hrNext, hrHasBridge, hrRunning, hrDrivers, hrRollbacks, hrProducers, hrCompletions>>
  /\ UNCHANGED <<hrVm, hrSwept>>

(* The same call without a pending reset polls the bridge only.            *)
PollResetIdle ==
  /\ hrVm # "dropped"
  /\ hrError = "none"
  /\ ~hrResetPending
  /\ \E f \in FaultSets(Faults) :
       /\ hrBridge' = Acknowledged(hrBridge, f)
       /\ hrError' = IF BridgeResult(Acknowledged(hrBridge, f)) = "Err" THEN "other" ELSE "none"
       /\ Charge(f)
  /\ UNCHANGED <<hrNext, hrHasBridge, hrRunning, hrResetPending, hrGen>>
  /\ UNCHANGED <<streamVars, scopeState, hrCompletions, hrVm, hrSwept>>
------------------------------------------------------------------------------
(* reset_for_reuse.  It cancels the waiting operation, if the bridge has   *)
(* it (waiting), and the stream; an error of either is final.              *)
CancelFails(waiting, f) ==
  \/ waiting \cap Stuck(Requested(hrBridge, waiting, f)) # {}
  \/ BeginsRefused(f) # {}
  \/ hrDrivers # {} /\ StreamResult(Begun(hrPending, hrDrivers, f), f) = "Err"

AfterCancel(f) ==
  IF hrDrivers = {} \/ BeginsRefused(f) # {}
    THEN Begun(hrPending, hrDrivers, f)
    ELSE Polled(Begun(hrPending, hrDrivers, f), f)

ResetFailsToCancel(waiting, f) ==
  /\ CancelFails(waiting, f)
  /\ hrBridge' = Requested(hrBridge, waiting, f)
  /\ hrPending' = AfterCancel(f)
  /\ hrError' = "other"
  /\ UNCHANGED <<scopeState, hrCompletions, hrResetPending, hrGen, hrTainted, hrVm, hrSwept>>

(* reset_execution_scope, on a first or a later call, asks for the end of  *)
(* every bridge operation; a first call then needs a new scope.            *)
ResetFailsToRequest(waiting, f) ==
  /\ ~CancelFails(waiting, f)
  /\ hrBridge' = Requested(hrBridge, HostOps, f)
  /\ Stuck(Requested(hrBridge, HostOps, f)) # {}
  /\ hrPending' = AfterCancel(f)
  /\ hrError' = "other"
  /\ hrSwept' = hrNext
  /\ UNCHANGED <<scopeState, hrCompletions, hrResetPending, hrGen, hrTainted, hrVm>>

ResetFailsToAllocate(waiting, f) ==
  /\ ~CancelFails(waiting, f)
  /\ ~hrResetPending
  /\ Stuck(Requested(hrBridge, HostOps, f)) = {}
  /\ <<"identity", 0>> \in f
  /\ hrBridge' = Requested(hrBridge, HostOps, f)
  /\ hrPending' = AfterCancel(f)
  /\ hrPhase' = BeginClose(hrPhase)
  /\ hrCompletions' = {}
  /\ hrError' = "scope"
  /\ hrSwept' = hrNext
  /\ UNCHANGED <<hrVerdict, hrHeld, hrResetPending, hrGen, hrTainted, hrVm>>

ResetProceeds(waiting, f) ==
  /\ ~CancelFails(waiting, f)
  /\ Stuck(Requested(hrBridge, HostOps, f)) = {}
  /\ hrResetPending \/ <<"identity", 0>> \notin f
  /\ PollResetFrom(Requested(hrBridge, HostOps, f), AfterCancel(f), BeginClose(hrPhase), f)
  /\ hrCompletions' = {}
  /\ hrVm' = IF hrError' = "none" THEN "live" ELSE hrVm
  /\ hrSwept' = hrNext

Reset ==
  /\ hrVm # "dropped"
  /\ hrError = "none"
  /\ hrGen < MaxResets
  /\ \E f \in FaultSets(Faults), waiting \in {{}} \cup {{id} : id \in Tracked(hrBridge)} :
       /\ \/ ResetFailsToCancel(waiting, f)
          \/ ResetFailsToRequest(waiting, f)
          \/ ResetFailsToAllocate(waiting, f)
          \/ ResetProceeds(waiting, f)
       /\ Charge(f)
  /\ hrDrivers' = {}
  /\ UNCHANGED <<hrNext, hrHasBridge, hrRunning, hrRollbacks, hrProducers>>

(* cancel_submitted_host_ops; the mutant leaves it to the bridge.          *)
CancelSubmitted_None(f) == hrBridge

CancelSubmitted(f) == Requested(hrBridge, HostOps, f)

(* Vm::shutdown: the same cancellations, their errors ignored; the scope   *)
(* is closed and polled once.                                              *)
Shutdown ==
  /\ hrVm # "dropped"
  /\ \E f \in FaultSets(Faults) :
       /\ hrBridge' = CancelSubmitted(f)
       /\ PollStreams(Begun(hrPending, hrDrivers, f), f, hrResetPending)
       /\ hrVerdict' = IF Closed(BeginClose(hrPhase)) THEN Outcome(BeginClose(hrPhase), f) ELSE hrVerdict
       /\ Charge(f)
  /\ hrPhase' = PollClose(BeginClose(hrPhase))
  /\ hrDrivers' = {}
  /\ hrCompletions' = {}
  /\ hrVm' = "shut"
  /\ hrSwept' = hrNext
  /\ UNCHANGED <<hrNext, hrHasBridge, hrRunning, hrRollbacks, hrProducers, hrHeld, resetVars>>

(* Drop for Vm and for HostRuntime; the scope's own destructor is in       *)
(* ExecutionScope.                                                         *)
Drop ==
  /\ hrVm # "dropped"
  /\ \E f \in FaultSets(Faults) :
       /\ hrBridge' = CancelSubmitted(f)
       /\ PollStreams(Begun(hrPending, hrDrivers, f), f, hrResetPending)
       /\ Charge(f)
  /\ hrDrivers' = {}
  /\ hrVm' = "dropped"
  /\ hrSwept' = hrNext
  /\ UNCHANGED <<hrNext, hrHasBridge, hrRunning, hrRollbacks, hrProducers>>
  /\ UNCHANGED <<scopeState, hrCompletions, resetVars>>

HostRuntimeNext ==
  \/ Submit \/ ReplaceBridge \/ InstallStream \/ RejectStream \/ EndStream \/ PollTerminations
  \/ UseScope \/ TakeCompletion \/ CloseScope \/ PollScope \/ WorkEnds
  \/ \E id \in HostOps :
       CancelOp(id) \/ CompleteOp(id) \/ PollCancellation(id) \/ FutureEnds(id) \/ ProducerEnds(id)
  \/ PollReset \/ PollResetIdle \/ Reset \/ Shutdown \/ Drop

HostRuntimeSpec == HostRuntimeInit /\ [][HostRuntimeNext]_hrVars

(* The owner of a resetting VM polls it again when woken; bridge futures,  *)
(* producers and the work of a closing scope come to an end.               *)
HostRuntimeFairness ==
  /\ WF_hrVars(PollReset)
  /\ \A id \in HostOps : WF_hrVars(FutureEnds(id)) /\ WF_hrVars(ProducerEnds(id))
  /\ WF_hrVars(WorkEnds)

HostRuntimeFairSpec == HostRuntimeSpec /\ HostRuntimeFairness
------------------------------------------------------------------------------
HostRuntimeTypeOK ==
  /\ hrNext \in 1..(MaxHostOp + 1)
  /\ hrHasBridge \in BOOLEAN
  /\ hrBridge \in [HostOps -> Entries]
  /\ hrRunning \subseteq HostOps
  /\ hrDrivers \subseteq HostOps
  /\ hrPending \in [HostOps -> Terminations]
  /\ hrRollbacks \subseteq HostOps
  /\ hrProducers \subseteq HostOps
  /\ hrPhase \in {"Active", "Closing", "Quiescent"}
  /\ hrVerdict \in {"none", "Success", "SuccessWithErrors"}
  /\ hrHeld \subseteq Work
  /\ hrCompletions \subseteq Work
  /\ hrResetPending \in BOOLEAN
  /\ hrError \in {"none", "scope", "other"}
  /\ hrVm \in {"live", "shut", "dropped"}
  /\ hrGen \in Nat
  /\ hrSwept \in 1..hrNext
  /\ hrTainted \in BOOLEAN
  /\ hrFaults \in 0..MaxFaults

(* Nothing runs behind the tables' back: an operation the bridge still     *)
(* runs has its entry, and a stream producer that still runs has its       *)
(* driver or its pending termination, whatever was cancelled, failed,      *)
(* reset or shut down meanwhile.                                           *)
RunningIsTracked ==
  /\ hrRunning \subseteq Tracked(hrBridge)
  /\ hrProducers \subseteq hrDrivers \cup Terminating(hrPending)

(* The bridge that was given an operation is still there to be asked to    *)
(* cancel, poll and clean it up.                                           *)
TrackedHasBridge == Tracked(hrBridge) # {} => hrHasBridge

(* Operations submitted since all were last asked to cancel.               *)
Late == {id \in HostOps : id >= hrSwept /\ hrBridge[id] = "active"}

(* A pending reset keeps the VM closed to the work of a run: no stream,    *)
(* completion or scope to admit anything.  Every operation the bridge had  *)
(* when the reset was last requested has been asked to stop; the one thing *)
(* that may still come in is a future the embedder submits meanwhile.      *)
ResetSealed ==
  hrResetPending =>
    /\ hrDrivers = {} /\ hrCompletions = {}
    /\ hrPhase # "Active"
    /\ \A id \in HostOps \ Late : hrBridge[id] \in {"none"} \cup Asked

(* is_reusable of the host runtime.                                        *)
Reusable ==
  /\ ~hrResetPending
  /\ hrError = "none"
  /\ hrPhase = "Active" /\ hrHeld = {}
  /\ Tracked(hrBridge) = {}
  /\ hrCompletions = {}
  /\ hrDrivers = {}
  /\ Terminating(hrPending) = {}

(* A reset publishes its scope only over a quiet host: no bridge future or *)
(* stream producer of the old run is left, nothing the old scope held, and *)
(* no completion that could be called with an operation of the new one; a  *)
(* VM just reset is reusable.                                              *)
PublishesOverQuiet ==
  [][hrGen' # hrGen =>
       /\ hrRunning' = {} /\ hrProducers' = {}
       /\ hrHeld = {}
       /\ Reusable']_hrVars

(* A VM that was shut down has begun to end every stream and has asked the *)
(* bridge to cancel every operation it had by then: only a future          *)
(* submitted after the shutdown is active.  A dropped VM has asked for the *)
(* end of those too.                                                       *)
RetiredAsksAll ==
  hrVm # "live" =>
    /\ hrDrivers = {}
    /\ \A id \in HostOps \ Late : hrBridge[id] # "active"
    /\ hrVm = "dropped" => Late = {}

(* A pending reset ends: it publishes, or meets an error; a VM dropped     *)
(* before is nobody's to poll.  A future the embedder submits while the    *)
(* reset is pending holds it up: nobody asks it to stop until the embedder *)
(* requests the reset again.                                               *)
ResetEnds ==
  hrResetPending ~> (~hrResetPending \/ hrError # "none" \/ hrVm = "dropped" \/ Late # {})
=============================================================================
