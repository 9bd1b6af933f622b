-------------------------- MODULE RunBudgetProofs --------------------------
(***************************************************************************)
(* The budgets' invariants for every word size, amount, interval and chunk.*)
(* FuelAccounted is inductive only with its saved counterpart: restoring a *)
(* checkpoint must find a balance that fits the saved fuel and countdown.  *)
(* DeadlinePrompt is inductive only when the instructions charged and not  *)
(* run yet are counted as late already: the counter may pass the deadline  *)
(* before any of them.                                                     *)
(***************************************************************************)
EXTENDS RunBudget, TLAPS

(* The deadline is the delta beyond the epoch it was armed at.             *)
ArmedDeadline == rbMode = "epoch" => rbDeadline = SatAdd(rbSince, rbDelta)

(* Lateness within what is left of the interval and one chunk, and none    *)
(* before the deadline                                                     *)
LateWithin(late, interval, countdown, deadline) ==
  /\ \E k \in Chunks \cup {1} : late <= interval - countdown + k
  /\ rbEpoch < deadline => late = 0

(* Only a run under an epoch deadline has charged instructions to run, and *)
(* running all of them late still keeps the bound.                         *)
PaidWithin ==
  /\ rbPaid # 0 => rbMode = "epoch" /\ rbRunning
  /\ rbMode = "epoch" =>
       /\ \E k \in Chunks \cup {1} : rbLate + rbPaid <= rbInterval - rbCountdown + k
       /\ rbEpoch < rbDeadline => rbLate = 0

(* The checkpoints hold what their restoring needs: a fuel checkpoint its  *)
(* balance, an epoch checkpoint its deadline, and neither anything of a    *)
(* budget that was not on (fuel_checkpoint, epoch_checkpoint).             *)
SavedSound ==
  /\ IF rbFuelSaved.mode = "fuel"
     THEN rbFuelSaved.fuel - (rbFuelSaved.interval - rbFuelSaved.countdown) = rbFuelSaved.balance
     ELSE rbFuelSaved.fuel = 0
  /\ IF rbEpochSaved.mode = "epoch"
     THEN /\ rbEpochSaved.deadline = SatAdd(rbEpochSaved.since, rbEpochSaved.delta)
          /\ LateWithin(rbEpochSaved.late, rbEpochSaved.interval, rbEpochSaved.countdown, rbEpochSaved.deadline)
     ELSE rbEpochSaved.deadline = 0 /\ rbEpochSaved.delta = 0 /\ ~rbEpochSaved.rearm

(* The balance is what the fuel left and the countdown say.                *)
Balanced == rbMode = "fuel" => rbFuel - (rbInterval - rbCountdown) = rbBalance

RunBudgetInv ==
  /\ RunBudgetTypeOK
  /\ Balanced
  /\ BudgetExclusive
  /\ ArmedDeadline
  /\ PaidWithin
  /\ SavedSound

(* Dividing what a chunk takes beyond its first check by the interval      *)
(* (emit_fuel_tick_inline_core): quotient and remainder add up.            *)
LEMMA Division ==
  ASSUME NEW x \in Nat, NEW i \in Nat \ {0}
  PROVE  /\ x \div i \in Nat
         /\ x % i \in 0..(i - 1)
         /\ x = i * (x \div i) + (x % i)
  BY SMT

(* A chunk that passes a check is charged for the intervals it ends and    *)
(* leaves a countdown within the interval: charge and countdown together   *)
(* move by exactly the chunk's instructions.                               *)
LEMMA ChunkCharged ==
  ASSUME CountdownOK(rbInterval, rbCountdown), NEW k \in Nat, rbCountdown <= k
  PROVE  /\ Charge(k) \in Nat
         /\ CountdownAfter(k) \in 1..rbInterval
         /\ Charge(k) - (rbInterval - rbCountdown) = k - (rbInterval - CountdownAfter(k))
<1>1. k - rbCountdown \in Nat /\ rbInterval \in Nat \ {0}
  BY DEF CountdownOK
<1> DEFINE q == (k - rbCountdown) \div rbInterval
           r == (k - rbCountdown) % rbInterval
<1>2. q \in Nat /\ r \in 0..(rbInterval - 1) /\ k - rbCountdown = rbInterval * q + r
  BY <1>1, Division, ZenonT(30)
<1>3. Charge(k) = (1 + q) * rbInterval /\ CountdownAfter(k) = rbInterval - r
  BY DEF Charge, CountdownAfter
<1>4. (1 + q) * rbInterval = rbInterval + rbInterval * q /\ rbInterval * q \in Nat
  <2> HIDE DEF q
  <2> QED BY <1>1, <1>2
<1> HIDE DEF q, r
<1> QED BY <1>1, <1>2, <1>3, <1>4 DEF CountdownOK

(* Saturated sums are words.                                               *)
LEMMA SatAddWord ==
  ASSUME NEW a \in Words, NEW b \in Words
  PROVE  SatAdd(a, b) \in Words
  BY RunBudgetConstants DEF SatAdd, Words

(* A new VM has no budget (RunContext::new).                               *)
LEMMA BudgetInit == RunBudgetInit => RunBudgetInv
<1> SUFFICES ASSUME RunBudgetInit PROVE RunBudgetInv
  OBVIOUS
<1>1. RunBudgetTypeOK
  <2>1. 0 \in Words
    BY RunBudgetConstants DEF Words
  <2>2. rbRearm \in BOOLEAN /\ rbRunning \in BOOLEAN
    BY ZenonT(30) DEF RunBudgetInit
  <2>3. rbFuelSaved \in FuelSaves
    BY <2>1 DEF RunBudgetInit, FuelSaves
  <2>4. rbEpochSaved \in EpochSaves
    BY <2>1, Zenon DEF RunBudgetInit, EpochSaves
  <2> QED BY <2>1, <2>2, <2>3, <2>4 DEF RunBudgetInit, RunBudgetTypeOK, CountdownOK
<1>2. BudgetExclusive
  BY DEF RunBudgetInit, BudgetExclusive
<1>3. Balanced /\ ArmedDeadline /\ PaidWithin
  BY DEF RunBudgetInit, Balanced, ArmedDeadline, PaidWithin
<1>4. SavedSound
  BY DEF RunBudgetInit, SavedSound
<1> QED BY <1>1, <1>2, <1>3, <1>4 DEF RunBudgetInv

(* Every call and every charge preserves the invariant.                    *)
LEMMA BudgetNext == RunBudgetInv /\ [RunBudgetNext]_rbVars => RunBudgetInv'
<1> SUFFICES ASSUME RunBudgetInv, [RunBudgetNext]_rbVars PROVE RunBudgetInv'
  OBVIOUS
<1> USE RunBudgetConstants
<1> USE DEF RunBudgetInv, RunBudgetTypeOK, CountdownOK, Balanced, BudgetExclusive, ArmedDeadline, PaidWithin,
        LateWithin, SavedSound, Words, FuelSaves, EpochSaves, SatAdd, Embedder, NoFuel, NoEpoch, ResetCountdown, ClearedEpoch,
        fuelVars, epochVars, checkVars, savedVars, Debt, Steps, Expired, Rearmed
<1>0. rbMode = "epoch" => \E k \in Chunks \cup {1} : rbLate + 0 <= rbInterval - rbCountdown + k
  OBVIOUS
<1>1. ASSUME NEW n \in Amounts, SetFuel(n) PROVE RunBudgetInv'
  <2>1. rbRearm' \in BOOLEAN /\ ~rbRearm'
    BY <1>1, Zenon DEF SetFuel
  <2> QED BY <1>1, <2>1 DEF SetFuel
<1>2. ASSUME NEW n \in Amounts, AddFuel(n) PROVE RunBudgetInv'
  BY <1>2 DEF AddFuel
<1>3. ASSUME NEW n \in Amounts, ConsumeFuel(n) PROVE RunBudgetInv'
  BY <1>3 DEF ConsumeFuel
<1>4. ASSUME NEW n \in Amounts, SetEpochDeadline(n) PROVE RunBudgetInv'
  <2>1. rbRearm' \in BOOLEAN /\ ~rbRearm'
    BY <1>4, Zenon DEF SetEpochDeadline
  <2> QED BY <1>4, <2>1 DEF SetEpochDeadline
<1>5. ASSUME NEW n \in Amounts, IncrementEpoch(n) PROVE RunBudgetInv'
  BY <1>5 DEF IncrementEpoch
<1>6. ASSUME NEW i \in Intervals, SetCheckInterval(i) PROVE RunBudgetInv'
  BY <1>6 DEF SetCheckInterval
<1>7. CASE ClearFuel
  BY <1>7 DEF ClearFuel
<1>8. CASE ClearEpochDeadline
  <2>1. rbRearm' \in BOOLEAN /\ ~rbRearm'
    BY <1>8, Zenon DEF ClearEpochDeadline
  <2> QED BY <1>8, <2>1 DEF ClearEpochDeadline
<1>9. CASE ResetForReuse
  <2>1. rbRearm' \in BOOLEAN /\ ~rbRearm'
    BY <1>9, Zenon DEF ResetForReuse
  <2> QED BY <1>9, <2>1 DEF ResetForReuse
<1>10. CASE FuelCheckpoint
  BY <1>10 DEF FuelCheckpoint
<1>11. CASE EpochCheckpoint
  BY <1>11 DEF EpochCheckpoint
<1>12. CASE RestoreFuel
  BY <1>12, ZenonT(30) DEF RestoreFuel
<1>13. CASE RestoreEpoch
  BY <1>13 DEF RestoreEpoch
<1>14. CASE RunBegins
  <2>1. rbRearm' \in BOOLEAN /\ ~rbRearm'
    BY <1>14, Zenon DEF RunBegins
  <2> QED BY <1>14, <2>1 DEF RunBegins
<1>15. ASSUME NEW k \in Chunks \cup {1}, FuelTick(k) PROVE RunBudgetInv'
  <2>1. k \in Nat \ {0}
    OBVIOUS
  <2>2. CASE rbCountdown > k
    BY <1>15, <2>1, <2>2 DEF FuelTick
  <2>3. CASE rbCountdown <= k
    <3>1. /\ Charge(k) \in Nat
          /\ CountdownAfter(k) \in 1..rbInterval
          /\ Charge(k) - (rbInterval - rbCountdown) = k - (rbInterval - CountdownAfter(k))
      BY <2>1, <2>3, ChunkCharged
    <3> QED BY <1>15, <2>1, <2>3, <3>1 DEF FuelTick
  <2> QED BY <1>15, <2>1, <2>2, <2>3
<1>16. ASSUME NEW k \in Chunks \cup {1}, EpochTick(k) PROVE RunBudgetInv'
  <2>1. k \in Nat \ {0}
    OBVIOUS
  <2>2. CASE rbCountdown > k
    BY <1>16, <2>1, <2>2 DEF EpochTick
  <2>3. CASE rbCountdown <= k
    <3>1. /\ Charge(k) \in Nat
          /\ CountdownAfter(k) \in 1..rbInterval
          /\ Charge(k) - (rbInterval - rbCountdown) = k - (rbInterval - CountdownAfter(k))
      BY <2>1, <2>3, ChunkCharged
    <3> QED BY <1>16, <2>1, <2>3, <3>1 DEF EpochTick
  <2> QED BY <1>16, <2>1, <2>2, <2>3
<1>17. CASE RunPaid
  BY <1>17 DEF RunPaid
<1>18. CASE FreeTick
  BY <1>18 DEF FreeTick
<1>19. CASE AotCall
  BY <1>19 DEF AotCall
<1>20. CASE OutOfFuel
  BY <1>20, ZenonT(30) DEF OutOfFuel
<1>21. CASE DeadlineReached
  BY <1>0, <1>21, ZenonT(30) DEF DeadlineReached
<1>22. CASE RunEnds
  BY <1>0, <1>22, ZenonT(30) DEF RunEnds
<1>23. CASE UNCHANGED rbVars
  BY <1>23 DEF rbVars
<1> QED BY <1>1, <1>2, <1>3, <1>4, <1>5, <1>6, <1>7, <1>8, <1>9, <1>10, <1>11, <1>12, <1>13, <1>14, <1>15, <1>16, <1>17, <1>18, <1>19, <1>20, <1>21, <1>22, <1>23, ZenonT(30) DEF RunBudgetNext

(* RunBudgetInv is an invariant of the budgets.                            *)
THEOREM RunBudgetInvariant == RunBudgetSpec => []RunBudgetInv
  BY BudgetInit, BudgetNext, PTL DEF RunBudgetSpec

(* No fuel is lost or minted, get_fuel tells the truth and the overrun     *)
(* stays below one check interval (charge_fuel_tick, add_fuel,             *)
(* restore_fuel), whatever the intervals and chunks.                       *)
THEOREM FuelIsAccounted == RunBudgetSpec => []FuelAccounted
<1>1. RunBudgetInv => FuelAccounted
  <2> SUFFICES ASSUME RunBudgetInv, rbMode = "fuel"
               PROVE  /\ rbFuel - Debt = rbBalance
                      /\ GetFuel = IF rbBalance > 0 THEN rbBalance ELSE 0
                      /\ rbBalance > -rbInterval
    BY DEF FuelAccounted
  <2>1. rbFuel \in Nat /\ rbInterval \in Nat /\ rbCountdown \in 1..rbInterval
    BY RunBudgetConstants DEF RunBudgetInv, RunBudgetTypeOK, CountdownOK, Words
  <2>2. Debt = rbInterval - rbCountdown /\ rbFuel - (rbInterval - rbCountdown) = rbBalance
    BY DEF Debt, RunBudgetInv, Balanced
  <2> QED BY <2>1, <2>2 DEF GetFuel, SatSub
<1> QED BY <1>1, RunBudgetInvariant, PTL

(* Nothing of a budget outlives its mode (set_fuel, restore_fuel,          *)
(* restore_epoch, reset_for_reuse).                                        *)
THEOREM BudgetsExclude == RunBudgetSpec => []BudgetExclusive
<1>1. RunBudgetInv => BudgetExclusive
  BY DEF RunBudgetInv
<1> QED BY <1>1, RunBudgetInvariant, PTL

(* Whatever the interval and the lengths of the traces, and wherever the   *)
(* counter moves between a charge and the instructions it pays for, no     *)
(* more charged instructions run past a deadline than the rest of the      *)
(* check interval and one chunk (charge_epoch_tick,                        *)
(* emit_epoch_tick_inline_core).                                           *)
THEOREM DeadlineIsPrompt == RunBudgetSpec => []DeadlinePrompt
<1>1. RunBudgetInv => DeadlinePrompt
  BY RunBudgetConstants DEF RunBudgetInv, PaidWithin, DeadlinePrompt, RunBudgetTypeOK, CountdownOK
<1> QED BY <1>1, RunBudgetInvariant, PTL

(* An interruption needs the whole delta since the deadline was armed      *)
(* (rearm_epoch_after_yield_if_needed).                                    *)
THEOREM InterruptionsApart == RunBudgetSpec => YieldsApart
<1>1. RunBudgetInv => (DeadlineReached => rbEpoch >= SatAdd(rbSince, rbDelta))
  BY DEF RunBudgetInv, ArmedDeadline, DeadlineReached, Expired
<1> QED BY <1>1, RunBudgetInvariant, PTL DEF YieldsApart
====
