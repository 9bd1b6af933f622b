---------------------------- MODULE ResourceTable ----------------------------
(***************************************************************************)
(* The arena of host resources owned by one execution scope,               *)
(* src/vm/resource/table.rs.                                               *)
(*                                                                         *)
(* A resource is named by a handle <<arena, slot, generation>>.  Closing   *)
(* is two-phase: begin_close either finishes, fails, or leaves the         *)
(* resource Closing, to be polled.  The work a Closing resource waits for  *)
(* goes on beside the table (resBusy) and may finish at any moment         *)
(* (CloseWorkFinishes); what begin_close and poll_close of a resource      *)
(* answer is otherwise chosen by the environment.                          *)
(*                                                                         *)
(* Slots and generations are numbered from 1.  A call that returns early   *)
(* with an error changes nothing and is not enabled.                       *)
(***************************************************************************)
EXTENDS Arena

CONSTANTS
  MaxEntries,         \* max_entries of with_limit
  MaxResourceSlots,   \* MAX_RESOURCE_SLOTS
  MaxHandleGen,       \* MAX_HANDLE_GENERATION
  MaxArena,           \* MAX_HANDLE_ARENA_ID
  Kinds,              \* the concrete resource types
  StateKinds,         \* the types of the typed scope states
  CloseReasons        \* the close reasons in play

ASSUME TableConstants ==
  /\ MaxEntries \in Nat \ {0}
  /\ MaxResourceSlots \in Nat \ {0}
  /\ MaxHandleGen \in Nat \ {0}
  /\ MaxArena \in Nat \ {0}
  /\ MaxEntries <= MaxResourceSlots

VARIABLES
  resArena,    \* this table's process-unique arena id
  resSlots,    \* the arena: a sequence of slots
  resVacant,   \* the stack of reusable slot indices
  resActive,   \* active_entries, the cached number of live resources
  resSweep,    \* the close-all sweep in flight, or NoSweep
  resStates,   \* the typed scope states present
  resBusy,     \* handles of Closing resources whose close work still runs
  resBefore    \* the handles captured by the last live_handles snapshot

resVars == <<resArena, resSlots, resVacant, resActive, resSweep, resStates, resBusy, resBefore>>
------------------------------------------------------------------------------
Handles == (1..MaxArena) \X (1..MaxResourceSlots) \X (1..MaxHandleGen)

(* One slot; begins counts the close requests its resource has accepted.   *)
ResourceSlot ==
  [gen : 1..MaxHandleGen, kind : Kinds, state : {"Vacant", "Open", "Closing"}, begins : Nat]

NoSweep == [reason |-> "none", closed |-> 0, failed |-> 0]
Sweeps  == [reason : CloseReasons \cup {"none"}, closed : Nat, failed : Nat]

SlotsIn(sl, states) == {s \in DOMAIN sl : sl[s].state \in states}
LiveSlots(sl)       == SlotsIn(sl, {"Open", "Closing"})
HandleAt(sl, s)     == <<resArena, s, sl[s].gen>>
LiveHandles(sl)     == {HandleAt(sl, s) : s \in LiveSlots(sl)}

(* resolve_index and check_type: foreign, stale and mistyped handles are   *)
(* rejected before anything is looked at.                                  *)
Resolves(h, kind) ==
  /\ h[1] = resArena
  /\ h[2] \in DOMAIN resSlots
  /\ h[3] = resSlots[h[2]].gen
  /\ kind = resSlots[h[2]].kind

NewSlot(gen, kind) == [gen |-> gen, kind |-> kind, state |-> "Open", begins |-> 0]
Vacated(slot) == [slot EXCEPT !.state = "Vacant", !.begins = 0]
Begun(slot)   == [slot EXCEPT !.state = "Closing", !.begins = @ + 1]

(* reclaim: vacated slots return to the pool, unless their generation is   *)
(* the last one.                                                           *)
Reusable(slot) == slot.gen < MaxHandleGen
Pool(sl, Q)    == {s \in Q : Reusable(sl[s])}

Reclaimed(sl, Q) == [s \in DOMAIN sl |-> IF s \in Q THEN Vacated(sl[s]) ELSE sl[s]]

(* What may happen to the resources in the slots D when each is begun if   *)
(* it is Open and then polled: a close that is over at once or refused, or *)
(* one that waits for its close work.                                      *)
Fates == {"BeginReady", "BeginErr", "PollReady", "PollErr", "Pending"}
Over  == Fates \ {"Pending"}
Bad   == {"BeginErr", "PollErr"}

CloseFates(sl, busy, D) ==
  {f \in [D -> Fates] :
     \A s \in D :
       sl[s].state = "Closing" =>
         f[s] \in IF HandleAt(sl, s) \in busy THEN {"Pending"} ELSE {"PollReady", "PollErr"}}

WithFate(f, fates) == {s \in DOMAIN f : f[s] \in fates}

(* The arena, and the close work running, after those closes.              *)
Closed_BeginsAgain(sl, f) ==
  [s \in DOMAIN sl |->
     IF s \notin DOMAIN f THEN sl[s]
     ELSE IF f[s] \in Over THEN Vacated(sl[s])
     ELSE Begun(sl[s])]

Closed(sl, f) ==
  [s \in DOMAIN sl |->
     IF s \notin DOMAIN f THEN sl[s]
     ELSE IF f[s] \in Over THEN Vacated(sl[s])
     ELSE IF sl[s].state = "Open" THEN Begun(sl[s])
     ELSE sl[s]]

StillBusy(sl, f, busy) == busy \cup {HandleAt(sl, s) : s \in WithFate(f, {"Pending"})}

(* A sweep returns slots to the pool as they close: begin_close first, in  *)
(* slot order, then the polls, pass by pass.                               *)
SweptPool(sl, f) ==
  {b \o p : b \in Ascending(Pool(sl, WithFate(f, {"BeginReady", "BeginErr"}))),
            p \in Orders(Pool(sl, WithFate(f, {"PollReady", "PollErr"})))}

Tallied(sweep, reason, f) ==
  [reason |-> reason,
   closed |-> sweep.closed + Cardinality(WithFate(f, Over)),
   failed |-> sweep.failed + Cardinality(WithFate(f, Bad))]
------------------------------------------------------------------------------
TableInit ==
  /\ resArena \in 1..MaxArena
  /\ resSlots = <<>>
  /\ resVacant = <<>>
  /\ resActive = 0
  /\ resSweep = NoSweep
  /\ resStates = {}
  /\ resBusy = {}
  /\ resBefore = {}

(* The slot allocate reuses, whose generation advances now; a fresh slot   *)
(* while the arena may grow; the count after a sweep; and whether a sweep  *)
(* may go on under this reason.  Each has its mutant.                      *)
Reissued_SameGeneration(slot, kind) == NewSlot(slot.gen, kind)

Reissued(slot, kind) == NewSlot(slot.gen + 1, kind)

MayGrow_OffByOne(sl) == Len(sl) <= MaxResourceSlots

MayGrow(sl) == Len(sl) < MaxResourceSlots

LeftActive_CleanOnly(active, f) == active - Cardinality(WithFate(f, Over \ Bad))

LeftActive(active, f) == active - Cardinality(WithFate(f, Over))

SweepAccepts_Any(sweep, reason) == TRUE

SweepAccepts(sweep, reason) == sweep.reason \in {"none", reason}

(* push: allocate on the most recently vacated slot, whose generation      *)
(* advances now, or on a new one.                                          *)
Push(kind) ==
  /\ resActive < MaxEntries
  /\ \/ /\ resVacant # <<>>
        /\ LET s == resVacant[Len(resVacant)]
           IN  resSlots' = [resSlots EXCEPT ![s] = Reissued(@, kind)]
        /\ resVacant' = SubSeq(resVacant, 1, Len(resVacant) - 1)
     \/ /\ resVacant = <<>>
        /\ MayGrow(resSlots)
        /\ resSlots' = Append(resSlots, NewSlot(1, kind))
        /\ UNCHANGED resVacant
  /\ resActive' = resActive + 1
  /\ UNCHANGED <<resArena, resSweep, resStates, resBusy, resBefore>>

(* The slots of Q leave the table in ascending order.                      *)
Reclaim(Q) ==
  /\ resSlots' = Reclaimed(resSlots, Q)
  /\ \E order \in Ascending(Pool(resSlots, Q)) : resVacant' = resVacant \o order
  /\ resActive' = resActive - Cardinality(Q)

(* begin_close of one Open resource: over at once, or left to its close    *)
(* work.  A refused request leaves it Open and a repeated one changes      *)
(* nothing.                                                                *)
BeginResourceClose(h, kind) ==
  /\ Resolves(h, kind)
  /\ resSlots[h[2]].state = "Open"
  /\ \/ /\ Reclaim({h[2]})
        /\ UNCHANGED resBusy
     \/ /\ resSlots' = [resSlots EXCEPT ![h[2]] = Begun(@)]
        /\ resBusy' = resBusy \cup {h}
        /\ UNCHANGED <<resVacant, resActive>>
  /\ UNCHANGED <<resArena, resSweep, resStates, resBefore>>

(* poll_close of one Closing resource; a cleanup failure reclaims too.     *)
PollResourceClose(h, kind) ==
  /\ Resolves(h, kind)
  /\ resSlots[h[2]].state = "Closing"
  /\ h \notin resBusy
  /\ Reclaim({h[2]})
  /\ UNCHANGED <<resArena, resSweep, resStates, resBusy, resBefore>>

(* take: the resource leaves with its owner and is never asked to close.   *)
Take(h, kind) ==
  /\ Resolves(h, kind)
  /\ resSlots[h[2]].state = "Open"
  /\ Reclaim({h[2]})
  /\ UNCHANGED <<resArena, resSweep, resStates, resBusy, resBefore>>

(* poll_close_all_report, given the fate of every live resource.  A sweep  *)
(* in flight keeps its reason; only an empty table ends it, and then the   *)
(* typed scope states go too.                                              *)
SweepStep(reason, f) ==
  /\ SweepAccepts(resSweep, reason)
  /\ resSlots' = Closed(resSlots, f)
  /\ \E order \in SweptPool(resSlots, f) : resVacant' = resVacant \o order
  /\ resActive' = LeftActive(resActive, f)
  /\ resBusy' = StillBusy(resSlots, f, resBusy)
  /\ \/ LeftActive(resActive, f) = 0 /\ resSweep' = NoSweep /\ resStates' = {}
     \/ LeftActive(resActive, f) # 0 /\ resSweep' = Tallied(resSweep, reason, f) /\ UNCHANGED resStates
  /\ UNCHANGED <<resArena, resBefore>>

PollCloseAll(reason) ==
  \E f \in CloseFates(resSlots, resBusy, LiveSlots(resSlots)) : SweepStep(reason, f)

(* live_handles and poll_close_added: the occupants that were not there at *)
(* the snapshot are closed, in slot order.                                 *)
Snapshot ==
  /\ resBefore' = LiveHandles(resSlots)
  /\ UNCHANGED <<resArena, resSlots, resVacant, resActive, resSweep, resStates, resBusy>>

AddedSlots_ByPosition == {s \in LiveSlots(resSlots) : s > Cardinality(resBefore)}

AddedSlots == {s \in LiveSlots(resSlots) : HandleAt(resSlots, s) \notin resBefore}

PollCloseAdded ==
  \E f \in CloseFates(resSlots, resBusy, AddedSlots) :
    /\ resSlots' = Closed(resSlots, f)
    /\ \E order \in Ascending(Pool(resSlots, WithFate(f, Over))) : resVacant' = resVacant \o order
    /\ resActive' = LeftActive(resActive, f)
    /\ resBusy' = StillBusy(resSlots, f, resBusy)
    /\ UNCHANGED <<resArena, resSweep, resStates, resBefore>>

(* begin_close_remaining_for_drop: every Open resource is asked once; one  *)
(* that refuses stays Open.                                                *)
LaunchFates(sl) == [SlotsIn(sl, {"Open"}) -> {"BeginReady", "Refused", "Pending"}]

Launched(sl, f) ==
  [s \in DOMAIN sl |->
     IF s \in WithFate(f, {"BeginReady"}) THEN Vacated(sl[s])
     ELSE IF s \in WithFate(f, {"Pending"}) THEN Begun(sl[s])
     ELSE sl[s]]

BeginCloseRemainingForDrop ==
  \E f \in LaunchFates(resSlots) :
    /\ resSlots' = Launched(resSlots, f)
    /\ \E order \in Ascending(Pool(resSlots, WithFate(f, {"BeginReady"}))) :
         resVacant' = resVacant \o order
    /\ resActive' = resActive - Cardinality(WithFate(f, {"BeginReady"}))
    /\ resBusy' = StillBusy(resSlots, f, resBusy)
    /\ UNCHANGED <<resArena, resSweep, resStates, resBefore>>

(* scope_state_or_insert_with and take_scope_state.                        *)
InsertScopeState(t) ==
  /\ resStates' = resStates \cup {t}
  /\ UNCHANGED <<resArena, resSlots, resVacant, resActive, resSweep, resBusy, resBefore>>

TakeScopeState(t) ==
  /\ resStates' = resStates \ {t}
  /\ UNCHANGED <<resArena, resSlots, resVacant, resActive, resSweep, resBusy, resBefore>>

(* The work a Closing resource waits for comes to an end.                  *)
CloseWorkFinishes(h) ==
  /\ h \in resBusy
  /\ resBusy' = resBusy \ {h}
  /\ UNCHANGED <<resArena, resSlots, resVacant, resActive, resSweep, resStates, resBefore>>

TableNext ==
  \/ \E kind \in Kinds : Push(kind)
  \/ \E h \in Handles, kind \in Kinds :
       BeginResourceClose(h, kind) \/ PollResourceClose(h, kind) \/ Take(h, kind)
  \/ \E reason \in CloseReasons : PollCloseAll(reason)
  \/ Snapshot
  \/ PollCloseAdded
  \/ BeginCloseRemainingForDrop
  \/ \E t \in StateKinds : InsertScopeState(t) \/ TakeScopeState(t)
  \/ \E h \in resBusy : CloseWorkFinishes(h)

TableSpec == TableInit /\ [][TableNext]_resVars
------------------------------------------------------------------------------
(* Every variable of the table keeps its type.                             *)
TableTypeOK ==
  /\ resArena \in 1..MaxArena
  /\ resSlots \in Seq(ResourceSlot)
  /\ Len(resSlots) <= MaxResourceSlots
  /\ resVacant \in Seq(1..MaxResourceSlots)
  /\ resActive \in Nat
  /\ resSweep \in Sweeps
  /\ resStates \subseteq StateKinds
  /\ resBusy \subseteq Handles
  /\ resBefore \subseteq Handles

(* allocate and reclaim keep the pool exact, and the cached count that     *)
(* allocate, is_empty and the end of a sweep rely on is the real number of *)
(* live resources, within the limit.                                       *)
PoolExact ==
  /\ IsInjective(resVacant)
  /\ \A s \in Range(resVacant) :
       s \in DOMAIN resSlots /\ resSlots[s].state = "Vacant" /\ Reusable(resSlots[s])
  /\ \A s \in DOMAIN resSlots :
       resSlots[s].state # "Vacant" \/ s \in Range(resVacant) \/ ~Reusable(resSlots[s])
  /\ resActive = Cardinality(LiveSlots(resSlots))
  /\ resActive <= MaxEntries

(* A resource has accepted its close request exactly when it is Closing:   *)
(* explicit closes, sweeps, rollbacks and the drop launch never ask twice, *)
(* and close work runs only behind a resource that still holds its slot.   *)
BegunOnce ==
  /\ \A s \in DOMAIN resSlots : resSlots[s].begins = IF resSlots[s].state = "Closing" THEN 1 ELSE 0
  /\ \A h \in resBusy : h \in LiveHandles(resSlots) /\ resSlots[h[2]].state = "Closing"

(* A sweep in flight (poll_close_all) keeps its reason, its counts only    *)
(* grow, and it ends only in a step that leaves the table empty and the    *)
(* scope states dropped.                                                   *)
SweepHoldsOn ==
  [][resSweep # NoSweep =>
       \/ /\ resSweep'.reason = resSweep.reason
          /\ resSweep'.closed >= resSweep.closed
          /\ resSweep'.failed >= resSweep.failed
       \/ resSweep' = NoSweep /\ LiveSlots(resSlots') = {} /\ resStates' = {}]_resVars

(* A rollback (poll_close_added) leaves every resource that was live at    *)
(* its snapshot as it was, and no other one Open, even when slots were     *)
(* vacated and reused since the snapshot.                                  *)
RollbackIsExact ==
  [][PollCloseAdded =>
       /\ \A s \in LiveSlots(resSlots) :
            HandleAt(resSlots, s) \in resBefore => resSlots'[s] = resSlots[s]
       /\ \A s \in SlotsIn(resSlots', {"Open"}) : HandleAt(resSlots', s) \in resBefore]_resVars

(* Under this mapping the table implements HandleLifecycle: a handle is    *)
(* issued once, names one resource until that resource is reclaimed, and   *)
(* is dead from then on, with the limit counting Closing resources too.    *)
HandleLife(h) ==
  IF h[1] # resArena THEN <<"Unborn", "none">>
  ELSE IF h[2] \notin DOMAIN resSlots THEN <<"Unborn", "none">>
  ELSE IF h[3] > resSlots[h[2]].gen THEN <<"Unborn", "none">>
  ELSE IF h[3] < resSlots[h[2]].gen \/ resSlots[h[2]].state = "Vacant" THEN <<"Gone", "none">>
  ELSE IF resSlots[h[2]].state = "Open" THEN <<"Pending", "none">>
  ELSE <<"Closing", "none">>

ResourceLifecycle ==
  INSTANCE HandleLifecycle
    WITH AllIds <- Handles, Outcomes <- {<<"Closing", "none">>},
         Counted <- {<<"Pending", "none">>, <<"Closing", "none">>}, Capacity <- MaxEntries,
         life <- [h \in Handles |-> HandleLife(h)]
ImplementsResourceLifecycle == ResourceLifecycle!Spec
=============================================================================
