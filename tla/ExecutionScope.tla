--------------------------- MODULE ExecutionScope ---------------------------
(***************************************************************************)
(* An execution scope, src/vm/execution_scope.rs: one operation registry   *)
(* and one resource table behind a single Active, Closing, Quiescent       *)
(* lifecycle.  Closing cancels every operation once, waits until each      *)
(* driver is quiet, and only then sweeps the resources.                    *)
(*                                                                         *)
(* Operation and resource reasons are one vocabulary here                  *)
(* (operation_reason maps them one to one).  "Dropped" is the state after  *)
(* the scope's destructor: the arenas are as the destructor left them just *)
(* before they are freed.                                                  *)
(***************************************************************************)
EXTENDS OperationRegistry, ResourceTable

CONSTANT Dues   \* whether operations are started with a deadline

ASSUME ScopeConstants ==
  /\ Dues \subseteq {"none", "armed"}
  /\ CloseReasons \subseteq Reasons
  /\ {"VmReset", "VmDrop"} \subseteq CloseReasons

VARIABLES
  scState,      \* state
  scReason,     \* close_reason
  scDrained,    \* operations_drained: the batch cancellation has run
  scFirst,      \* the kind of first_error
  scFailed,     \* failed_count
  scTerminal,   \* terminal: <<verdict, kind of the first error, failures>>
  scSeen        \* history: [kind of the first, number] of the failures the
                \* shutdown met, whether or not they are recorded yet

scVars    == <<scState, scReason, scDrained, scFirst, scFailed, scTerminal, scSeen>>
scopeVars == <<opVars, resVars, scVars>>
------------------------------------------------------------------------------
NoTerminal == <<"none", "none", 0>>

(* record_failure, n times for one kind: the first error stays.            *)
FirstOf(first, kind, n) == IF first = "none" /\ n > 0 THEN kind ELSE first

Seen(seen, kind, n) == [first |-> FirstOf(seen.first, kind, n), count |-> seen.count + n]

(* The failures of a finished sweep join the latch: one by record_failure, *)
(* the rest by saturating_sub.  The mutant adds one however many there     *)
(* were.                                                                   *)
TotalFailed_FirstOnly(failed, reported) == failed + (IF reported > 0 THEN 1 ELSE 0)

TotalFailed(failed, reported) == failed + reported

(* finish_close: what becomes the terminal outcome.                        *)
Verdict(first, failed) ==
  IF first = "none" THEN <<"Success", "none", 0>> ELSE <<"SuccessWithErrors", first, failed>>

ScopeInit ==
  /\ RegistryInit
  /\ TableInit
  /\ scState = "Active"
  /\ scReason = "none"
  /\ scDrained = FALSE
  /\ scFirst = "none"
  /\ scFailed = 0
  /\ scTerminal = NoTerminal
  /\ scSeen = [first |-> "none", count |-> 0]

(* ensure_accepting; the mutant refuses nothing.                           *)
Accepting_Closing == scState \in {"Active", "Closing", "Quiescent"}

Accepting == scState = "Active"

(* push_resource, start_operation and scope_state_or_insert_with pass      *)
(* ensure_accepting first.                                                 *)
Insert ==
  /\ Accepting
  /\ \/ /\ \E kind \in Kinds : Push(kind)
        /\ UNCHANGED opVars
     \/ /\ \E due \in Dues, cleanup \in BOOLEAN : Start(due, cleanup)
        /\ UNCHANGED resVars
     \/ /\ \E t \in StateKinds : InsertScopeState(t)
        /\ UNCHANGED opVars
  /\ UNCHANGED scVars

(* The calls on one operation, which no lifecycle phase refuses.           *)
OperationCall ==
  /\ scState # "Dropped"
  /\ \E id \in issued :
       \/ Poll(id)
       \/ PollQuiescent(id)
       \/ TakeOutcome(id)
       \/ \E dirty \in BOOLEAN : Complete(id, dirty)
       \/ \E reason \in Reasons, bad, dirty \in BOOLEAN :
            Cancel(id, reason, bad, dirty) \/ Abort(id, reason, bad, dirty)
  /\ UNCHANGED <<resVars, scVars>>

(* The calls on resources: close_resource, poll_resource_close,            *)
(* take_resource, take_scope_state, and the admission snapshot and         *)
(* rollback that the stream bridge runs through resources_mut.             *)
ResourceCall ==
  /\ scState # "Dropped"
  /\ \/ \E h \in Handles, kind \in Kinds :
          BeginResourceClose(h, kind) \/ PollResourceClose(h, kind) \/ Take(h, kind)
     \/ \E t \in StateKinds : TakeScopeState(t)
     \/ Snapshot
     \/ PollCloseAdded
  /\ UNCHANGED <<opVars, scVars>>

(* begin_close on an Active scope; later calls change nothing.             *)
BeginClose(reason) ==
  /\ scState = "Active"
  /\ scState' = "Closing"
  /\ scReason' = reason
  /\ Seal
  /\ UNCHANGED <<resVars, scDrained, scFirst, scFailed, scTerminal, scSeen>>

(* The two inputs of the operation phase of poll_close: the drivers that   *)
(* refuse and the cleanups that fail, in the one poll that cancels.        *)
Refusals == IF scDrained THEN {{}} ELSE SUBSET PendingSlots(opSlots)

(* The arena after phase 1, the failures the batch met, and whether every  *)
(* operation has left.  The mutant only asks that none is pending.         *)
Phase1(reason, bad, dirty) ==
  IF scDrained THEN opSlots ELSE CancelledAll(opSlots, reason, bad, dirty)

Phase1Failures(bad, dirty) ==
  IF scDrained THEN 0 ELSE Cardinality(FailedCancels(opSlots, bad, dirty))

OperationPhase(reason, bad, dirty) ==
  LET sl == Phase1(reason, bad, dirty)
  IN  Consume(sl, Drainable(sl, opRunning)) /\ UNCHANGED opRunning

Drained_NonePending(bad, dirty) == PendingSlots(Phase1(scReason, bad, dirty)) = {}

Drained(bad, dirty) ==
  LET sl == Phase1(scReason, bad, dirty)
  IN  OccupiedSlots(sl) = Drainable(sl, opRunning)

(* poll_close while some operation keeps its slot: the failures of the     *)
(* batch are recorded, the resources are not touched.                      *)
PollCloseDraining(bad, dirty) ==
  /\ OperationPhase(scReason, bad, dirty)
  /\ ~Drained(bad, dirty)
  /\ scDrained' = TRUE
  /\ scFirst' = FirstOf(scFirst, "Operation", Phase1Failures(bad, dirty))
  /\ scFailed' = scFailed + Phase1Failures(bad, dirty)
  /\ scSeen' = Seen(scSeen, "Operation", Phase1Failures(bad, dirty))
  /\ UNCHANGED <<resVars, scState, scReason, scTerminal>>

(* poll_close with the operations gone: one sweep over the resources, the  *)
(* report recorded and the terminal outcome fixed once the table is empty. *)
(* Nothing else starts a sweep of this table, so the sweep is never found  *)
(* under another reason (SweepComesLast).                             *)
PollCloseSweeping(bad, dirty) ==
  /\ OperationPhase(scReason, bad, dirty)
  /\ Drained(bad, dirty)
  /\ scDrained' = TRUE
  /\ \E f \in CloseFates(resSlots, resBusy, LiveSlots(resSlots)) :
       LET nOp    == Phase1Failures(bad, dirty)
           left   == LeftActive(resActive, f)
           report == Tallied(resSweep, scReason, f)
           total  == TotalFailed(scFailed + nOp, report.failed)
           first  == FirstOf(scFirst, "Operation", nOp)
       IN  /\ SweepStep(scReason, f)
           /\ scSeen' = Seen(Seen(scSeen, "Operation", nOp), "Resource", Cardinality(WithFate(f, Bad)))
           /\ \/ /\ left # 0
                 /\ scFirst' = first
                 /\ scFailed' = scFailed + nOp
                 /\ UNCHANGED <<scState, scTerminal>>
              \/ /\ left = 0
                 /\ scState' = "Quiescent"
                 /\ scFailed' = total
                 /\ scTerminal' = Verdict(FirstOf(first, "Resource", report.failed), total)
                 /\ scFirst' = "none"
  /\ UNCHANGED scReason

PollClose ==
  /\ scState = "Closing"
  /\ \E bad \in Refusals, dirty \in Refusals : PollCloseDraining(bad, dirty) \/ PollCloseSweeping(bad, dirty)

(* The resources at the end of the destructor: the sweep of poll_close     *)
(* when the operations drained, the launch of what is still Open, and the  *)
(* table's own close_all(VmReset), which a sweep under another reason      *)
(* refuses.  In the mutant the table is freed without it.                  *)
SweptByDrop_None(sl, reason, drained) == {}

SweptByDrop(sl, reason, drained) ==
  IF drained /\ reason # "VmReset" THEN {} ELSE LiveSlots(sl)

DropResources(reason, drained) ==
  LET sweep == IF drained THEN LiveSlots(resSlots) ELSE {}
  IN  \E f \in CloseFates(resSlots, resBusy, sweep) :
        LET swept == Closed(resSlots, f)
            busy1 == StillBusy(resSlots, f, resBusy)
        IN  \E g \in LaunchFates(swept) :
              LET launched == Launched(swept, g)
                  busy2    == StillBusy(swept, g, busy1)
              IN  \E h \in CloseFates(launched, busy2, SweptByDrop(launched, reason, drained)) :
                    /\ resSlots' = Closed(launched, h)
                    /\ resBusy' = StillBusy(launched, h, busy2)
                    /\ resActive' = Cardinality(LiveSlots(resSlots'))

(* Drop: an Active scope first closes with VmDrop; one poll_close; a scope *)
(* that is still Closing launches the closes it has not begun.  What the   *)
(* poll records dies with the scope.                                       *)
Drop ==
  /\ scState # "Dropped"
  /\ scState' = "Dropped"
  /\ \/ /\ scState = "Quiescent"
        /\ UNCHANGED <<opVars, resVars, scReason>>
     \/ /\ scState # "Quiescent"
        /\ scReason' = IF scState = "Active" THEN "VmDrop" ELSE scReason
        /\ opSealed' = TRUE
        /\ \E bad \in Refusals, dirty \in Refusals :
             LET sl == Phase1(scReason', bad, dirty)
             IN  /\ opSlots' = ReleasedAll(sl, Drainable(sl, opRunning))
                 /\ owed' = owed \ Cleaned(sl)
        /\ DropResources(scReason', OccupiedSlots(opSlots') = {})
        /\ UNCHANGED <<opTag, opFree, opRunning, issued>>
        /\ UNCHANGED <<resArena, resVacant, resSweep, resStates, resBefore>>
  /\ UNCHANGED <<scDrained, scFirst, scFailed, scTerminal, scSeen>>

(* What runs beside the scope.                                             *)
Environment ==
  /\ scState # "Dropped"
  /\ \/ /\ (\E id \in opRunning : WorkerStops(id)) \/ (\E s \in Slot : DeadlineElapses(s))
        /\ UNCHANGED <<resVars, scVars>>
     \/ /\ \E h \in resBusy : CloseWorkFinishes(h)
        /\ UNCHANGED <<opVars, scVars>>

ScopeNext ==
  \/ Insert
  \/ OperationCall
  \/ ResourceCall
  \/ \E reason \in CloseReasons : BeginClose(reason)
  \/ PollClose
  \/ Drop
  \/ Environment

ScopeSpec == ScopeInit /\ [][ScopeNext]_scopeVars

(* The owner of a closing scope polls it again (drivers and resources wake *)
(* it), a cancelled worker stops, and close work ends.                     *)
ScopeFairness ==
  /\ WF_scopeVars(PollClose)
  /\ \A id \in Ids : WF_scopeVars(WorkerStops(id) /\ UNCHANGED <<resVars, scVars>>)
  /\ \A h \in Handles : WF_scopeVars(CloseWorkFinishes(h) /\ UNCHANGED <<opVars, scVars>>)

FairScopeSpec == ScopeSpec /\ ScopeFairness
------------------------------------------------------------------------------
(* The resource sweep of poll_close is the last phase: while it is in      *)
(* flight no operation is registered, the worker of none still runs, no    *)
(* operation can start, and it runs under the reason the scope is bound to.*)
SweepComesLast ==
  resSweep # NoSweep /\ scState # "Dropped" =>
    /\ scState = "Closing"
    /\ OccupiedSlots(opSlots) = {}
    /\ opRunning = {}
    /\ opSealed
    /\ resSweep.reason = scReason

(* No cleanup failure of a shutdown is lost or counted twice on its way    *)
(* through the sweep, its report and the scope's latch, whatever number of *)
(* polls it takes, and the outcome carries the earliest one and the total. *)
NoFailureLost ==
  scState # "Dropped" =>
    /\ scSeen.count = scFailed + resSweep.failed
    /\ scState = "Quiescent" => scTerminal = Verdict(scSeen.first, scSeen.count)

(* A Quiescent scope holds nothing at all: no slot of either arena, no     *)
(* worker, no close work, no cleanup hook that has not run, no typed state.*)
QuiescentIsEmpty ==
  scState = "Quiescent" =>
    /\ OccupiedSlots(opSlots) = {} /\ opRunning = {} /\ owed = {}
    /\ LiveSlots(resSlots) = {} /\ resBusy = {} /\ resStates = {}

(* The destructor, from whatever phase and however far a close has got,    *)
(* leaves no operation uncancelled, no cleanup hook behind and no resource *)
(* that was not asked to close.                                            *)
DropAsksEveryone ==
  scState = "Dropped" => PendingSlots(opSlots) = {} /\ owed = {} /\ SlotsIn(resSlots, {"Open"}) = {}

(* The scope implements ScopeLifecycle: admission stops at the close, the  *)
(* reason is bound once, and the outcome is fixed when nothing is held.    *)
Held ==
  {<<"operation", opSlots[s].id>> : s \in OccupiedSlots(opSlots)}
    \cup {<<"resource", h>> : h \in LiveHandles(resSlots)}

ScopeAbstract ==
  INSTANCE ScopeLifecycle
    WITH Work <- ({"operation"} \X Ids) \cup ({"resource"} \X Handles),
         Bindings <- CloseReasons,
         Verdicts <- {"Success", "SuccessWithErrors"}, None <- "none",
         phase <- scState, bound <- scReason, verdict <- scTerminal[1], held <- Held
ImplementsScopeLifecycle == ScopeAbstract!Spec

(* A close that has begun comes to an end.                                 *)
CloseEnds == scState = "Closing" ~> scState \in {"Quiescent", "Dropped"}
=============================================================================
