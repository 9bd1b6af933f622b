-------------------------- MODULE OperationRegistry --------------------------
(***************************************************************************)
(* The registry of in-flight host operations, src/vm/operation/registry.rs. *)
(*                                                                         *)
(* An operation lives in a slot of a growing arena and is named by an id   *)
(* <<tag, slot, generation>>.  The registry itself is driven by one thread; *)
(* what runs beside it is the worker behind each driver, which may stop at *)
(* any moment (WorkerStops), and the clock (DeadlineElapses).  What a      *)
(* driver or a cleanup hook answers is chosen by the environment.          *)
(*                                                                         *)
(* Slots are numbered from 1 and generations from 1, as in the packed id   *)
(* (id.rs).  The error returns of the code change nothing, so an operation *)
(* whose early return fires is simply not enabled.                         *)
(***************************************************************************)
EXTENDS Arena

CONSTANTS
  MaxPending,       \* the ceiling passed to with_limit
  MaxSlots,         \* MAX_SLOT_IDENTITY
  MaxGeneration,    \* MAX_GENERATION
  MaxTag,           \* MAX_REGISTRY_TAG
  Reasons           \* the cancellation reasons in play

ASSUME RegistryConstants ==
  /\ MaxPending \in Nat \ {0}
  /\ MaxSlots \in Nat \ {0}
  /\ MaxGeneration \in Nat \ {0}
  /\ MaxTag \in Nat \ {0}
  /\ "Deadline" \in Reasons

VARIABLES
  opTag,      \* this registry's process-unique tag
  opSlots,    \* the arena: a sequence of slots
  opFree,     \* the stack of reusable slot indices
  opSealed,   \* no further operation may be started
  opRunning,  \* the operations whose driver still has a running worker
  issued,     \* history: every id start has returned
  owed        \* history: the operations whose cleanup hook has not run yet

opVars == <<opTag, opSlots, opFree, opSealed, opRunning, issued, owed>>
------------------------------------------------------------------------------
Pending      == <<"Pending", "none">>
Completed    == <<"Completed", "none">>
Cancelled(r) == <<"Cancelled", r>>
Failed(why)  == <<"Failed", why>>
Vacant       == <<"Vacant", "none">>

Causes    == {"Driver", "Cleanup", "Reported"}
Terminals == {Completed} \cup {Cancelled(r) : r \in Reasons}
                         \cup {Failed(w) : w \in Causes}
Statuses  == Terminals \cup {Pending, Vacant}

Slot == 1..MaxSlots
Ids  == (1..MaxTag) \X Slot \X (1..MaxGeneration)
NoId == <<0, 0, 0>>

(* One slot.  cleanup is the hook not yet taken; ran and cancels count the *)
(* cleanup runs and the driver cancellations of the current occupant; id   *)
(* is the id it was started under.                                         *)
SlotRecord ==
  [gen     : 1..MaxGeneration,
   status  : Statuses,
   due     : {"none", "armed", "elapsed"},
   cleanup : BOOLEAN,
   ran     : Nat,
   cancels : Nat,
   id      : Ids \cup {NoId}]

VacantSlot(g) ==
  [gen |-> g, status |-> Vacant, due |-> "none", cleanup |-> FALSE,
   ran |-> 0, cancels |-> 0, id |-> NoId]

StartedSlot(g, id, due, cleanup) ==
  [gen |-> g, status |-> Pending, due |-> due, cleanup |-> cleanup,
   ran |-> 0, cancels |-> 0, id |-> id]

IsOccupied(slot) == slot.status # Vacant
IsPending(slot)  == slot.status = Pending
IsTerminal(slot) == slot.status \in Terminals

PendingSlots(sl)  == {s \in DOMAIN sl : IsPending(sl[s])}
OccupiedSlots(sl) == {s \in DOMAIN sl : IsOccupied(sl[s])}
------------------------------------------------------------------------------
(* location: an id is checked against the slot it names before anything    *)
(* is changed.                                                             *)
Location(id) ==
  IF id[1] # opTag THEN "WrongRegistry"
  ELSE IF id[2] > Len(opSlots) THEN "NotFound"
  ELSE IF id[3] > opSlots[id[2]].gen THEN "NotFound"
  ELSE IF id[3] < opSlots[id[2]].gen \/ ~IsOccupied(opSlots[id[2]]) THEN "Stale"
  ELSE "Ok"

(* finish_terminal on a pending slot: the status, then the cleanup hook,   *)
(* whose failure (dirty) replaces the status.                              *)
Finished(slot, status, dirty) ==
  [slot EXCEPT !.status  = IF slot.cleanup /\ dirty THEN Failed("Cleanup") ELSE status,
               !.ran     = IF slot.cleanup THEN @ + 1 ELSE @,
               !.cleanup = FALSE]

(* Mutant: a refused cancellation that forgets the cleanup hook.           *)
CancelledSlot_DropsHook(slot, reason, bad, dirty) ==
  LET asked == [slot EXCEPT !.cancels = @ + 1]
  IN  IF bad THEN [asked EXCEPT !.status = Failed("Driver"), !.cleanup = FALSE]
             ELSE Finished(asked, Cancelled(reason), dirty)

(* cancel_with_wait on a pending slot: the driver first.  When it refuses  *)
(* (bad), its error is the status whatever the cleanup answers.            *)
CancelledSlot(slot, reason, bad, dirty) ==
  LET asked == [slot EXCEPT !.cancels = @ + 1]
  IN  IF bad THEN Finished(asked, Failed("Driver"), FALSE)
             ELSE Finished(asked, Cancelled(reason), dirty)

(* Mutant: the last generation is treated as recyclable.                   *)
Recyclable_OffByOne(slot) == slot.gen <= MaxGeneration

(* Mutant: a slot is vacated under its old generation.                     *)
ReleasedSlot_SameGeneration(slot) == VacantSlot(slot.gen)

(* release_slot: the generation advances, or the slot retires.             *)
Recyclable(slot) == slot.gen < MaxGeneration
ReleasedSlot(slot) == VacantSlot(IF Recyclable(slot) THEN slot.gen + 1 ELSE slot.gen)

ReleasedAll(sl, Q) == [s \in DOMAIN sl |-> IF s \in Q THEN ReleasedSlot(sl[s]) ELSE sl[s]]

(* Mutant: a released slot is never put back on the free list.             *)
Recycled_Forgets(sl, Q) == {<<>>}

(* The slots of Q that go back to the free list, in ascending order (the   *)
(* order of occupied_ids).                                                 *)
Recycled(sl, Q) == Ascending({s \in Q : Recyclable(sl[s])})

(* Mutant: the batch also cancels operations that are already terminal.    *)
CancelledAll_Terminal(sl, reason, bad, dirty) ==
  [s \in DOMAIN sl |->
     IF IsOccupied(sl[s]) THEN CancelledSlot(sl[s], reason, s \in bad, s \in dirty) ELSE sl[s]]

(* cancel_all: every pending slot is cancelled; the drivers in bad refuse  *)
(* and the cleanups in dirty fail.                                         *)
CancelledAll(sl, reason, bad, dirty) ==
  [s \in DOMAIN sl |->
     IF IsPending(sl[s]) THEN CancelledSlot(sl[s], reason, s \in bad, s \in dirty) ELSE sl[s]]

(* The pending operations whose cancellation the summary counts as failed. *)
FailedCancels(sl, bad, dirty) ==
  {s \in PendingSlots(sl) : s \in bad \/ (s \in dirty /\ sl[s].cleanup)}

(* is_quiescent of the driver in a slot.                                   *)
IsQuiescent(slot, running) == slot.id \notin running

(* Mutant: a terminal status is taken for quiescence.                      *)
Drainable_Terminal(sl, running) == {s \in DOMAIN sl : IsTerminal(sl[s])}

(* Mutant: a failed operation is never drained.                            *)
Drainable_NotFailed(sl, running) == {s \in DOMAIN sl : IsTerminal(sl[s]) /\ sl[s].status[1] # "Failed" /\ IsQuiescent(sl[s], running)}

(* What poll_quiescence consumes: terminal slots whose driver is quiet.    *)
Drainable(sl, running) == {s \in DOMAIN sl : IsTerminal(sl[s]) /\ IsQuiescent(sl[s], running)}

(* The operations whose hook has run.                                      *)
Cleaned(sl) == {sl[s].id : s \in {t \in DOMAIN sl : sl[t].ran > 0}}
------------------------------------------------------------------------------
RegistryInit ==
  /\ opTag \in 1..MaxTag
  /\ opSlots = <<>>
  /\ opFree = <<>>
  /\ opSealed = FALSE
  /\ opRunning = {}
  /\ issued = {}
  /\ owed = {}

(* The bookkeeping of a successful start: a worker runs, a hook is owed.   *)
Issue(id, cleanup) ==
  /\ issued' = issued \cup {id}
  /\ opRunning' = opRunning \cup {id}
  /\ owed' = IF cleanup THEN owed \cup {id} ELSE owed

(* start: acquire_slot, then the installation of the operation.            *)
Start(due, cleanup) ==
  /\ ~opSealed
  /\ Cardinality(PendingSlots(opSlots)) < MaxPending
  /\ \/ /\ opFree # <<>>
        /\ LET s  == opFree[Len(opFree)]
               id == <<opTag, s, opSlots[s].gen>>
           IN  /\ opSlots' = [opSlots EXCEPT ![s] = StartedSlot(@.gen, id, due, cleanup)]
               /\ opFree' = SubSeq(opFree, 1, Len(opFree) - 1)
               /\ Issue(id, cleanup)
     \/ /\ opFree = <<>>
        /\ Len(opSlots) < MaxSlots
        /\ LET id == <<opTag, Len(opSlots) + 1, 1>>
           IN  /\ opSlots' = Append(opSlots, StartedSlot(1, id, due, cleanup))
               /\ Issue(id, cleanup)
        /\ UNCHANGED opFree
  /\ UNCHANGED <<opTag, opSealed>>

(* sl is the arena once every slot of Q has been brought to a terminal     *)
(* status; the slots of Q are then released, in ascending order.           *)
Consume(sl, Q) ==
  /\ opSlots' = ReleasedAll(sl, Q)
  /\ \E order \in Recycled(sl, Q) : opFree' = opFree \o order
  /\ owed' = owed \ Cleaned(sl)
  /\ UNCHANGED <<opTag, opSealed, issued>>

(* The slot becomes slot, and is consumed at once when its driver is quiet *)
(* (poll_terminal).                                                        *)
Settle(s, slot) ==
  /\ Consume([opSlots EXCEPT ![s] = slot],
             IF IsQuiescent(slot, opRunning) THEN {s} ELSE {})
  /\ UNCHANGED opRunning

(* poll: a terminal slot waits for quiescence; otherwise the driver's      *)
(* answer comes before the deadline, and an elapsed deadline cancels.      *)
PollTerminal(id) ==
  /\ Location(id) = "Ok"
  /\ IsTerminal(opSlots[id[2]])
  /\ Settle(id[2], opSlots[id[2]])

PollReady(id, status, dirty) ==
  /\ Location(id) = "Ok"
  /\ IsPending(opSlots[id[2]])
  /\ Settle(id[2], Finished(opSlots[id[2]], status, dirty))

PollDeadline(id, bad, dirty) ==
  /\ Location(id) = "Ok"
  /\ IsPending(opSlots[id[2]])
  /\ opSlots[id[2]].due = "elapsed"
  /\ Settle(id[2], CancelledSlot(opSlots[id[2]], "Deadline", bad, dirty))

Poll(id) ==
  \/ PollTerminal(id)
  \/ \E status \in {Completed, Failed("Driver")}, dirty \in BOOLEAN : PollReady(id, status, dirty)
  \/ \E bad, dirty \in BOOLEAN : PollDeadline(id, bad, dirty)

(* poll_quiescent, take_outcome and remove: one terminal slot is consumed, *)
(* and only when its driver is quiet.                                      *)
PollQuiescent(id) == PollTerminal(id)

TakeOutcome(id) ==
  /\ Location(id) = "Ok"
  /\ id[2] \in Drainable(opSlots, opRunning)
  /\ Consume(opSlots, {id[2]})
  /\ UNCHANGED opRunning

Remove(id) ==
  /\ Location(id) = "Ok"
  /\ IsTerminal(opSlots[id[2]])
  /\ IsQuiescent(opSlots[id[2]], opRunning)
  /\ Consume(opSlots, {id[2]})
  /\ UNCHANGED opRunning

(* finish_terminal and cancel without a release.                           *)
Install(s, slot) ==
  /\ Consume([opSlots EXCEPT ![s] = slot], {})
  /\ UNCHANGED opRunning

Complete(id, dirty) ==
  /\ Location(id) = "Ok"
  /\ IsPending(opSlots[id[2]])
  /\ Install(id[2], Finished(opSlots[id[2]], Completed, dirty))

Fail(id, dirty) ==
  /\ Location(id) = "Ok"
  /\ IsPending(opSlots[id[2]])
  /\ Install(id[2], Finished(opSlots[id[2]], Failed("Reported"), dirty))

(* Mutant: a later cancellation replaces the recorded reason.              *)
Cancel_LastReason(id, reason, bad, dirty) ==
  /\ Location(id) = "Ok"
  /\ Install(id[2], CancelledSlot(opSlots[id[2]], reason, bad, dirty))

Cancel(id, reason, bad, dirty) ==
  /\ Location(id) = "Ok"
  /\ IsPending(opSlots[id[2]])
  /\ Install(id[2], CancelledSlot(opSlots[id[2]], reason, bad, dirty))

(* abort: cancel_and_wait, whose contract is that the worker has stopped   *)
(* when it returns, with or without an error, and then the release.  A     *)
(* terminal slot takes the ordinary quiescence-checked path.               *)
Abort(id, reason, bad, dirty) ==
  \/ /\ Location(id) = "Ok"
     /\ IsPending(opSlots[id[2]])
     /\ Consume([opSlots EXCEPT ![id[2]] = CancelledSlot(@, reason, bad, dirty)], {id[2]})
     /\ opRunning' = opRunning \ {id}
  \/ TakeOutcome(id)

CancelAll(reason, bad, dirty) ==
  /\ Consume(CancelledAll(opSlots, reason, bad, dirty), {})
  /\ UNCHANGED opRunning

(* cancel_all_and_wait aborts every pending operation.                     *)
CancelAllAndWait(reason, bad, dirty) ==
  /\ Consume(CancelledAll(opSlots, reason, bad, dirty), PendingSlots(opSlots))
  /\ opRunning' = opRunning \ {opSlots[s].id : s \in PendingSlots(opSlots)}

PollQuiescence ==
  /\ Consume(opSlots, Drainable(opSlots, opRunning))
  /\ UNCHANGED opRunning

Seal ==
  /\ opSealed' = TRUE
  /\ UNCHANGED <<opTag, opSlots, opFree, opRunning, issued, owed>>

(* The worker behind a driver stops; nothing makes it start again.         *)
WorkerStops(id) ==
  /\ id \in opRunning
  /\ opRunning' = opRunning \ {id}
  /\ UNCHANGED <<opTag, opSlots, opFree, opSealed, issued, owed>>

DeadlineElapses(s) ==
  /\ s \in OccupiedSlots(opSlots)
  /\ opSlots[s].due = "armed"
  /\ opSlots' = [opSlots EXCEPT ![s].due = "elapsed"]
  /\ UNCHANGED <<opTag, opFree, opSealed, opRunning, issued, owed>>

RegistryNext ==
  \/ \E due \in {"none", "armed"}, cleanup \in BOOLEAN : Start(due, cleanup)
  \/ \E id \in issued : Poll(id) \/ PollQuiescent(id) \/ TakeOutcome(id) \/ Remove(id)
  \/ \E id \in issued, dirty \in BOOLEAN : Complete(id, dirty) \/ Fail(id, dirty)
  \/ \E id \in issued, reason \in Reasons, bad, dirty \in BOOLEAN :
       Cancel(id, reason, bad, dirty) \/ Abort(id, reason, bad, dirty)
  \/ \E reason \in Reasons, bad \in SUBSET PendingSlots(opSlots), dirty \in SUBSET PendingSlots(opSlots) :
       CancelAll(reason, bad, dirty) \/ CancelAllAndWait(reason, bad, dirty)
  \/ PollQuiescence
  \/ Seal
  \/ \E id \in opRunning : WorkerStops(id)
  \/ \E s \in Slot : DeadlineElapses(s)

RegistrySpec == RegistryInit /\ [][RegistryNext]_opVars
------------------------------------------------------------------------------
(* Every variable of the registry keeps its type.                          *)
RegistryTypeOK ==
  /\ opTag \in 1..MaxTag
  /\ opSlots \in Seq(SlotRecord)
  /\ Len(opSlots) <= MaxSlots
  /\ opFree \in Seq(Slot)
  /\ opSealed \in BOOLEAN
  /\ opRunning \subseteq Ids
  /\ issued \subseteq Ids
  /\ owed \subseteq Ids

(* acquire_slot and release_slot keep the free list exact: it names no     *)
(* slot twice and only vacant slots of the arena, and the one way for a    *)
(* vacant slot to be missing from it is that it has issued its last id.    *)
FreeListExact ==
  /\ IsInjective(opFree)
  /\ \A i \in DOMAIN opFree :
       opFree[i] \in DOMAIN opSlots /\ ~IsOccupied(opSlots[opFree[i]])
  /\ \A s \in DOMAIN opSlots :
       IsOccupied(opSlots[s]) \/ s \in Range(opFree) \/ <<opTag, s, MaxGeneration>> \in issued

(* An id resolves (location) only while the very operation it was issued   *)
(* for sits in the slot, and the id the next start would hand out has      *)
(* never been handed out: a held id can go stale but never names a newer   *)
(* operation.                                                              *)
IdsNeverAlias ==
  /\ \A id \in Ids : Location(id) = "Ok" => id \in issued /\ opSlots[id[2]].id = id
  /\ \A s \in Range(opFree) : <<opTag, s, opSlots[s].gen>> \notin issued

(* The cleanup hook of an operation has run exactly when the operation has *)
(* left Pending: whichever of poll, complete, fail, cancel, abort or a     *)
(* batch ended it, no hook is dropped and none runs twice.                 *)
HooksRunOnce ==
  /\ \A id \in owed : Location(id) = "Ok" /\ IsPending(opSlots[id[2]])
  /\ \A s \in DOMAIN opSlots : opSlots[s].ran <= 1 /\ (opSlots[s].ran = 1 => IsTerminal(opSlots[s]))

(* A slot is never handed back while the worker of its operation runs      *)
(* (poll_terminal, take_outcome, remove, poll_quiescence, abort).          *)
WorkersKeepSlots == \A id \in opRunning : Location(id) = "Ok"

(* The driver is asked to cancel at most once, and a Cancelled status      *)
(* always has an accepted request behind it (cancel_with_wait).            *)
DriverAskedOnce ==
  \A s \in DOMAIN opSlots :
    /\ opSlots[s].cancels <= 1
    /\ opSlots[s].status \in {Cancelled(r) : r \in Reasons} => opSlots[s].cancels = 1
    /\ opSlots[s].status \in {Pending, Completed} => opSlots[s].cancels = 0

(* Under this mapping the registry implements HandleLifecycle: every id    *)
(* is born once, ends with one terminal status that no later cancel, poll  *)
(* or report changes, and is gone for good once consumed; the number of    *)
(* pending operations respects the ceiling.                                *)
LifeOf(id) ==
  IF id \notin issued THEN <<"Unborn", "none">>
  ELSE IF Location(id) = "Ok" THEN opSlots[id[2]].status
  ELSE <<"Gone", "none">>

Lifecycle == INSTANCE HandleLifecycle
               WITH AllIds <- Ids, Outcomes <- Terminals,
                    Counted <- {Pending}, Capacity <- MaxPending,
                    life <- [id \in Ids |-> LifeOf(id)]
ImplementsLifecycle == Lifecycle!Spec
=============================================================================
