----------------------------- MODULE RunBudget -----------------------------
(***************************************************************************)
(* The budgets of a run, src/vm/run_context.rs, fuel.rs and epoch.rs: fuel *)
(* metering and epoch deadlines, at most one of them active, both charged  *)
(* through one countdown shared by the check interval.  The embedder calls *)
(* the VM between two runs; the epoch counter is an atomic any thread may  *)
(* advance at any time, in the middle of a run too.                        *)
(*                                                                         *)
(* An instruction of the interpreter is a tick of charge_interrupt_tick; a *)
(* native trace charges all its instructions at once, before they run.     *)
(* The counter may pass the deadline between a charge and the instructions *)
(* it pays for, so in epoch mode these are steps of their own.  The        *)
(* histories say what was granted and what the script did with it.         *)
(***************************************************************************)
EXTENDS Integers

CONSTANTS
  TopWord,      \* u64::MAX
  Amounts,      \* amounts of fuel, deltas and epoch increments in use
  Intervals,    \* check intervals in use
  Chunks        \* how many instructions a native trace charges at once

ASSUME RunBudgetConstants ==
  /\ TopWord \in Nat
  /\ Amounts \subseteq 0..TopWord
  /\ Intervals \subseteq Nat \ {0}
  /\ 1 \in Intervals
  /\ Chunks \subseteq Nat \ {0}

VARIABLES
  rbMode,       \* interrupt_mode
  rbFuel,       \* fuel_remaining
  rbInterval,   \* fuel_check_interval
  rbCountdown,  \* fuel_ops_until_check
  rbDeadline,   \* epoch_deadline
  rbDelta,      \* epoch_deadline_delta
  rbRearm,      \* epoch_rearm_pending
  rbEpoch,      \* the counter behind EpochHandle
  rbRunning,    \* inside run
  rbPaid,       \* instructions charged in epoch mode and not run yet
  rbFuelSaved,  \* the FuelCheckpoint the embedder holds
  rbEpochSaved, \* the EpochCheckpoint the embedder holds
  rbBalance,    \* history: fuel granted or forgiven less instructions charged
  rbSince,      \* history: the epoch the deadline was set or re-armed at
  rbLate        \* history: charged instructions run past the deadline

fuelVars  == <<rbFuel, rbBalance>>
epochVars == <<rbDeadline, rbDelta, rbRearm, rbSince, rbLate>>
checkVars == <<rbInterval, rbCountdown>>
savedVars == <<rbFuelSaved, rbEpochSaved>>
rbVars    == <<rbMode, fuelVars, epochVars, checkVars, savedVars, rbEpoch, rbRunning, rbPaid>>

Words == 0..TopWord

(* FuelCheckpoint and EpochCheckpoint, with their histories                *)
FuelSaves  == [mode : {"none", "fuel"}, fuel : Words, interval : Nat, countdown : Nat, balance : Int]
EpochSaves == [mode : {"none", "epoch"}, deadline : Words, delta : Words, rearm : BOOLEAN,
               interval : Nat, countdown : Nat, since : Words, late : Nat]

(* saturating_add and saturating_sub of a u64                              *)
SatAdd(a, b) == IF a + b > TopWord THEN TopWord ELSE a + b
SatSub(a, b) == IF a < b THEN 0 ELSE a - b

(* pending_fuel_debt and get_fuel                                          *)
Debt    == IF rbMode = "fuel" THEN rbInterval - rbCountdown ELSE 0
GetFuel == SatSub(rbFuel, Debt)

RunBudgetInit ==
  /\ rbMode = "none"
  /\ rbFuel = 0
  /\ rbInterval = 1 /\ rbCountdown = 1
  /\ rbDeadline = 0 /\ rbDelta = 0 /\ rbRearm = FALSE
  /\ rbEpoch = 0
  /\ rbRunning = FALSE /\ rbPaid = 0
  /\ rbFuelSaved = [mode |-> "none", fuel |-> 0, interval |-> 1, countdown |-> 1, balance |-> 0]
  /\ rbEpochSaved = [mode |-> "none", deadline |-> 0, delta |-> 0, rearm |-> FALSE, interval |-> 1,
                     countdown |-> 1, since |-> 0, late |-> 0]
  /\ rbBalance = 0
  /\ rbSince = 0 /\ rbLate = 0
------------------------------------------------------------------------------
(* clear_fuel_internal and clear_epoch_deadline_internal, without the      *)
(* countdown both reset and the mode each caller goes on to set.           *)
NoFuel  == rbFuel' = 0 /\ rbBalance' = 0
NoEpoch == rbDeadline' = 0 /\ rbDelta' = 0 /\ rbRearm' = FALSE /\ rbSince' = 0 /\ rbLate' = 0

ResetCountdown == rbCountdown' = rbInterval /\ UNCHANGED rbInterval

Embedder == ~rbRunning /\ UNCHANGED <<rbEpoch, rbRunning, rbPaid>>

SetFuel(n) ==
  /\ Embedder
  /\ rbMode' = "fuel"
  /\ rbFuel' = n /\ rbBalance' = n
  /\ NoEpoch
  /\ ResetCountdown
  /\ UNCHANGED savedVars

(* add_fuel: refused in epoch mode and on overflow.  Metering that is on   *)
(* keeps its countdown.                                                    *)
AddFuel(n) ==
  /\ Embedder
  /\ n > 0 /\ rbMode # "epoch"
  /\ rbMode = "fuel" => rbFuel + n <= TopWord
  /\ rbMode' = "fuel"
  /\ IF rbMode = "fuel"
     THEN rbFuel' = rbFuel + n /\ rbBalance' = rbBalance + n
     ELSE rbFuel' = n /\ rbBalance' = n
  /\ rbCountdown' = IF rbMode = "fuel" THEN rbCountdown ELSE rbInterval
  /\ UNCHANGED <<epochVars, rbInterval, savedVars>>

(* charge_fuel through consume_fuel                                        *)
ConsumeFuel(n) ==
  /\ Embedder
  /\ rbMode = "fuel" /\ n > 0 /\ n <= rbFuel
  /\ rbFuel' = rbFuel - n /\ rbBalance' = rbBalance - n
  /\ UNCHANGED <<rbMode, epochVars, checkVars, savedVars>>

ClearFuel ==
  /\ Embedder
  /\ rbMode' = IF rbMode = "fuel" THEN "none" ELSE rbMode
  /\ NoFuel
  /\ ResetCountdown
  /\ rbLate' = 0
  /\ UNCHANGED <<rbDeadline, rbDelta, rbRearm, rbSince, savedVars>>

(* set_fuel_check_interval and set_epoch_check_interval reset the          *)
(* countdown, which forgives the instructions not charged yet and lets a   *)
(* script past its deadline run another interval.                          *)
SetCheckInterval(i) ==
  /\ Embedder
  /\ rbInterval' = i /\ rbCountdown' = i
  /\ rbBalance' = rbBalance + Debt
  /\ rbLate' = 0
  /\ UNCHANGED <<rbMode, rbFuel, rbDeadline, rbDelta, rbRearm, rbSince, savedVars>>

SetEpochDeadline(d) ==
  /\ Embedder
  /\ rbMode # "fuel"
  /\ rbMode' = "epoch"
  /\ rbDeadline' = SatAdd(rbEpoch, d) /\ rbDelta' = d /\ rbRearm' = FALSE
  /\ rbSince' = rbEpoch /\ rbLate' = 0
  /\ ResetCountdown
  /\ UNCHANGED <<fuelVars, savedVars>>

(* clear_epoch_deadline_internal, also the end of reset_for_reuse          *)
ClearedEpoch_Kept == UNCHANGED <<rbDeadline, rbDelta, rbRearm, rbSince>> /\ rbLate' = 0

ClearedEpoch == NoEpoch

ClearEpochDeadline ==
  /\ Embedder
  /\ rbMode' = IF rbMode = "epoch" THEN "none" ELSE rbMode
  /\ ClearedEpoch
  /\ ResetCountdown
  /\ rbBalance' = rbBalance + Debt
  /\ UNCHANGED <<rbFuel, savedVars>>

(* RunContext::reset_for_reuse                                             *)
ResetForReuse ==
  /\ Embedder
  /\ rbMode' = "none"
  /\ NoFuel
  /\ ClearedEpoch
  /\ ResetCountdown
  /\ UNCHANGED savedVars
------------------------------------------------------------------------------
(* fuel_checkpoint, epoch_checkpoint, restore_fuel, restore_epoch.  A      *)
(* restored countdown is clamped to 1..interval.                           *)
FuelCheckpoint ==
  /\ Embedder
  /\ rbFuelSaved' = [mode |-> IF rbMode = "fuel" THEN "fuel" ELSE "none",
                     fuel |-> IF rbMode = "fuel" THEN rbFuel ELSE 0,
                     interval |-> rbInterval, countdown |-> rbCountdown,
                     balance |-> IF rbMode = "fuel" THEN rbBalance ELSE 0]
  /\ UNCHANGED <<rbMode, fuelVars, epochVars, checkVars, rbEpochSaved>>

EpochCheckpoint ==
  /\ Embedder
  /\ rbEpochSaved' = [mode |-> IF rbMode = "epoch" THEN "epoch" ELSE "none",
                      deadline |-> IF rbMode = "epoch" THEN rbDeadline ELSE 0, delta |-> rbDelta,
                      rearm |-> rbRearm, interval |-> rbInterval, countdown |-> rbCountdown,
                      since |-> rbSince, late |-> rbLate]
  /\ UNCHANGED <<rbMode, fuelVars, epochVars, checkVars, rbFuelSaved>>

RestoreFuel ==
  /\ Embedder
  /\ rbMode' = rbFuelSaved.mode
  /\ rbFuel' = rbFuelSaved.fuel /\ rbBalance' = rbFuelSaved.balance
  /\ rbInterval' = rbFuelSaved.interval /\ rbCountdown' = rbFuelSaved.countdown
  /\ NoEpoch
  /\ UNCHANGED savedVars

(* The instructions run past the deadline since then are history too: the  *)
(* script is where it was, with the counter further on.                    *)
RestoreEpoch ==
  /\ Embedder
  /\ rbMode' = rbEpochSaved.mode
  /\ NoFuel
  /\ rbDeadline' = rbEpochSaved.deadline /\ rbDelta' = rbEpochSaved.delta
  /\ rbRearm' = rbEpochSaved.rearm
  /\ rbSince' = rbEpochSaved.since /\ rbLate' = rbEpochSaved.late
  /\ rbInterval' = rbEpochSaved.interval /\ rbCountdown' = rbEpochSaved.countdown
  /\ UNCHANGED savedVars
------------------------------------------------------------------------------
(* run_internal: rearm_epoch_after_yield_if_needed comes first.            *)
Rearmed_Kept == rbDeadline

Rearmed == SatAdd(rbEpoch, rbDelta)

RunBegins ==
  /\ ~rbRunning
  /\ rbRunning' = TRUE
  /\ rbRearm' = FALSE
  /\ IF rbRearm /\ rbMode = "epoch"
     THEN /\ rbDeadline' = Rearmed
          /\ rbSince' = rbEpoch
          /\ rbLate' = 0
          /\ ResetCountdown
     ELSE UNCHANGED <<rbDeadline, rbSince, rbLate, checkVars>>
  /\ UNCHANGED <<rbMode, fuelVars, rbDelta, savedVars, rbEpoch, rbPaid>>

(* A charge for k instructions of the script or, between two runs, one     *)
(* tick of consume_fuel_tick and consume_epoch_tick                        *)
Steps(k) ==
  /\ rbRunning \/ k = 1
  /\ UNCHANGED <<rbMode, rbInterval, rbDeadline, rbDelta, rbRearm, rbSince, savedVars, rbEpoch, rbRunning>>

(* charge_fuel_tick (k = 1) and emit_fuel_tick_inline_core: instructions   *)
(* are free until the countdown is over, when one interval is charged for  *)
(* every check passed.  A charge that cannot be paid changes nothing.      *)
Charge_OneCheck(k) == rbInterval

Charge(k) == (1 + (k - rbCountdown) \div rbInterval) * rbInterval

CountdownAfter_Short(k) == rbInterval - 1 - ((k - rbCountdown) % rbInterval)

CountdownAfter(k) == rbInterval - ((k - rbCountdown) % rbInterval)

FuelTick(k) ==
  /\ rbMode = "fuel"
  /\ Steps(k)
  /\ \/ /\ rbCountdown > k
        /\ rbCountdown' = rbCountdown - k
        /\ UNCHANGED rbFuel
     \/ /\ rbCountdown <= k /\ Charge(k) <= rbFuel
        /\ rbFuel' = rbFuel - Charge(k)
        /\ rbCountdown' = CountdownAfter(k)
  /\ rbBalance' = rbBalance - k
  /\ UNCHANGED <<rbLate, rbPaid>>

(* charge_epoch_tick (k = 1) and emit_epoch_tick_inline_core, at a loop    *)
(* header or at the gate between the two traces of a fused region: the     *)
(* charge that passes pays for the k instructions that follow.  The ones   *)
(* an earlier charge paid for and a side exit left out are never run.      *)
Expired_Later == rbEpoch > rbDeadline

Expired == rbEpoch >= rbDeadline

EpochTick(k) ==
  /\ rbMode = "epoch"
  /\ Steps(k)
  /\ \/ /\ rbCountdown > k
        /\ rbCountdown' = rbCountdown - k
     \/ /\ rbCountdown <= k /\ ~Expired
        /\ rbCountdown' = CountdownAfter(k)
  /\ rbPaid' = IF rbRunning THEN k ELSE 0
  /\ UNCHANGED <<fuelVars, rbLate>>

(* The next instruction charged for runs, whatever the counter says now.   *)
RunPaid ==
  /\ rbPaid > 0
  /\ Steps(1)
  /\ rbPaid' = rbPaid - 1
  /\ rbLate' = IF rbEpoch >= rbDeadline THEN rbLate + 1 ELSE rbLate
  /\ UNCHANGED <<fuelVars, rbCountdown>>

(* Instructions nobody charges: all of them without a budget, those of     *)
(* ahead-of-time code between two calls and those of a fused region        *)
(* between two of its gates.                                               *)
FreeTick ==
  /\ rbRunning
  /\ Steps(1)
  /\ UNCHANGED <<fuelVars, rbCountdown, rbLate, rbPaid>>

(* charge_aot_call_boundary_interrupt charges a call by itself.            *)
AotCall ==
  /\ rbRunning
  /\ Steps(1)
  /\ \/ rbMode = "fuel" /\ rbFuel >= 1 /\ rbFuel' = rbFuel - 1 /\ rbBalance' = rbBalance - 1
     \/ rbMode = "epoch" /\ ~Expired /\ UNCHANGED fuelVars
  /\ UNCHANGED <<rbCountdown, rbLate, rbPaid>>

(* A charge the interpreter loop sees fail is a yield                      *)
(* (mark_interrupt_yield).                                                 *)
OutOfFuel ==
  /\ rbRunning /\ rbMode = "fuel"
  /\ rbFuel < 1 \/ \E k \in Chunks \cup {1} : rbCountdown <= k /\ Charge(k) > rbFuel
  /\ rbRunning' = FALSE /\ rbPaid' = 0
  /\ UNCHANGED <<rbMode, fuelVars, epochVars, checkVars, savedVars, rbEpoch>>

DeadlineReached ==
  /\ rbRunning /\ rbMode = "epoch"
  /\ Expired
  /\ rbRunning' = FALSE /\ rbPaid' = 0
  /\ rbRearm' = TRUE
  /\ UNCHANGED <<rbMode, fuelVars, rbDeadline, rbDelta, rbSince, rbLate, checkVars, savedVars, rbEpoch>>

(* The script halts, waits, yields by itself or fails; a charge that fails *)
(* outside the loop, entering the frame of a started callable, is a        *)
(* failure.                                                                *)
RunEnds ==
  /\ rbRunning
  /\ rbRunning' = FALSE /\ rbPaid' = 0
  /\ UNCHANGED <<rbMode, fuelVars, epochVars, checkVars, savedVars, rbEpoch>>

(* EpochHandle::increment_by, from any thread                              *)
IncrementEpoch(n) ==
  /\ n > 0
  /\ rbEpoch' = SatAdd(rbEpoch, n)
  /\ UNCHANGED <<rbMode, fuelVars, epochVars, checkVars, savedVars, rbRunning, rbPaid>>

RunBudgetNext ==
  \/ \E n \in Amounts :
       \/ SetFuel(n)
       \/ AddFuel(n)
       \/ ConsumeFuel(n)
       \/ SetEpochDeadline(n)
       \/ IncrementEpoch(n)
  \/ \E i \in Intervals : SetCheckInterval(i)
  \/ ClearFuel
  \/ ClearEpochDeadline
  \/ ResetForReuse
  \/ FuelCheckpoint
  \/ EpochCheckpoint
  \/ RestoreFuel
  \/ RestoreEpoch
  \/ RunBegins
  \/ \E k \in Chunks \cup {1} :
       \/ FuelTick(k)
       \/ EpochTick(k)
  \/ RunPaid
  \/ FreeTick
  \/ AotCall
  \/ OutOfFuel
  \/ DeadlineReached
  \/ RunEnds

RunBudgetSpec == RunBudgetInit /\ [][RunBudgetNext]_rbVars
------------------------------------------------------------------------------
CountdownOK(interval, countdown) == interval \in Nat \ {0} /\ countdown \in 1..interval

(* The fields keep their ranges and the countdown stays within the check   *)
(* interval, saved ones included (run_context.rs, RunContext).             *)
RunBudgetTypeOK ==
  /\ rbMode \in {"none", "fuel", "epoch"}
  /\ rbFuel \in Words /\ rbDeadline \in Words /\ rbDelta \in Words /\ rbEpoch \in Words
  /\ CountdownOK(rbInterval, rbCountdown)
  /\ rbRearm \in BOOLEAN /\ rbRunning \in BOOLEAN
  /\ rbFuelSaved \in FuelSaves
  /\ CountdownOK(rbFuelSaved.interval, rbFuelSaved.countdown)
  /\ rbEpochSaved \in EpochSaves
  /\ CountdownOK(rbEpochSaved.interval, rbEpochSaved.countdown)
  /\ rbBalance \in Int /\ rbSince \in Words /\ rbLate \in Nat /\ rbPaid \in Nat

(* However charges, chunks, grants, checkpoints and restores follow each   *)
(* other, the fuel left less the instructions not charged yet is what was  *)
(* granted less what was charged, whether or not a trace that left through *)
(* a side exit ran all of it; get_fuel reports that, and charges exceed    *)
(* the grant by less than one interval (charge_fuel_tick, add_fuel,        *)
(* restore_fuel).                                                          *)
FuelAccounted ==
  rbMode = "fuel" =>
    /\ rbFuel - Debt = rbBalance
    /\ GetFuel = IF rbBalance > 0 THEN rbBalance ELSE 0
    /\ rbBalance > -rbInterval

(* Fuel and epoch deadlines exclude each other: nothing of a budget is     *)
(* left once its mode is over, whatever was switched, cleared or restored  *)
(* since (set_fuel, restore_fuel, restore_epoch, reset_for_reuse).         *)
BudgetExclusive ==
  /\ rbMode # "fuel" => rbFuel = 0
  /\ rbMode # "epoch" => rbDeadline = 0 /\ rbDelta = 0 /\ ~rbRearm

(* Of the instructions it is charged for, a script runs past its deadline  *)
(* no more than what was left of the check interval and one chunk, the one *)
(* whose check had just passed when the counter moved, although a chunk    *)
(* may span several intervals and the counter moves between any two        *)
(* instructions (charge_epoch_tick, emit_epoch_tick_inline_core).          *)
DeadlinePrompt ==
  rbMode = "epoch" => \E k \in Chunks \cup {1} : rbLate <= rbInterval - rbCountdown + k

(* A run is interrupted only when the counter has advanced by the whole    *)
(* delta since the deadline was set or since the run that follows an       *)
(* interruption began: an interruption re-arms, it does not repeat         *)
(* (rearm_epoch_after_yield_if_needed, restore_epoch).                     *)
YieldsApart == [][DeadlineReached => rbEpoch >= SatAdd(rbSince, rbDelta)]_rbVars
====
