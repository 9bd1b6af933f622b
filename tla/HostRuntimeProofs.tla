------------------------- MODULE HostRuntimeProofs -------------------------
(***************************************************************************)
(* Proofs about the host runtime, for every set of work, number of ids,    *)
(* resets and faults: nothing runs that the tables do not track, the       *)
(* bridge of a tracked operation stays, and a reset publishes its scope    *)
(* only over a quiet host.                                                 *)
(*                                                                         *)
(* The lemmas say what the four table operators (Requested, Acknowledged,  *)
(* Polled, Begun) keep; the invariant's step lemma has one step per action.*)
(***************************************************************************)
EXTENDS HostRuntime, FiniteSetTheorems, TLAPS

(* An id not yet handed out is in no table.                                *)
IdsBehind ==
  \A id \in HostOps :
    id \in Tracked(hrBridge) \cup Terminating(hrPending) \cup hrDrivers \cup hrRunning \cup hrProducers
      => id < hrNext

QuiescentIsEmpty == hrPhase = "Quiescent" => hrHeld = {}

(* Who has been asked to stop, by the id the last request to cancel every  *)
(* operation came to, rather than by who is late: this form is inductive.  *)
(* No reset begins over an entry whose completion failed, and none fails   *)
(* while it is pending.                                                    *)
SweptIsAsked ==
  /\ \A id \in HostOps : id < hrSwept => hrBridge[id] # "active"
  /\ hrResetPending =>
       /\ hrDrivers = {} /\ hrCompletions = {} /\ hrPhase # "Active"
       /\ \A id \in HostOps : hrBridge[id] # "failed"
  /\ hrVm # "live" => hrDrivers = {}
  /\ hrVm = "dropped" => \A id \in HostOps : hrBridge[id] # "active"

HostRuntimeInv ==
  /\ HostRuntimeTypeOK
  /\ QuiescentIsEmpty
  /\ IdsBehind
  /\ RunningIsTracked
  /\ TrackedHasBridge
  /\ SweptIsAsked
------------------------------------------------------------------------------
BridgeTables == [HostOps -> Entries]
StreamTables == [HostOps -> Terminations]

(* Table c makes no entry of b active or failed that was not.              *)
NoneRevived(b, c) ==
  \A id \in HostOps : (c[id] = "active" => b[id] = "active") /\ (c[id] = "failed" => b[id] = "failed")

(* A request to cancel tracks and untracks nothing.                        *)
LEMMA RequestedKeeps ==
  ASSUME NEW b \in BridgeTables, NEW ops, NEW f
  PROVE  /\ Requested(b, ops, f) \in BridgeTables
         /\ Tracked(Requested(b, ops, f)) = Tracked(b)
         /\ NoneRevived(b, Requested(b, ops, f))
  BY DEF BridgeTables, Entries, Refused, Requested, Tracked, NoneRevived

(* A request to all leaves no entry active; no error, none failed.         *)
LEMMA RequestedAsks ==
  ASSUME NEW b \in BridgeTables, NEW f
  PROVE  /\ \A id \in HostOps : Requested(b, HostOps, f)[id] # "active"
         /\ Stuck(Requested(b, HostOps, f)) = {} => \A id \in HostOps : Requested(b, HostOps, f)[id] # "failed"
  BY ZenonT(30) DEF BridgeTables, Entries, Errors, Refused, Requested, Stuck

(* An acknowledgement poll tracks nothing new, keeps what still runs, and  *)
(* withdraws no request.                                                   *)
LEMMA AcknowledgedKeeps ==
  ASSUME NEW b \in BridgeTables, NEW f
  PROVE  /\ Acknowledged(b, f) \in BridgeTables
         /\ Tracked(Acknowledged(b, f)) \subseteq Tracked(b)
         /\ Tracked(b) \cap hrRunning \subseteq Tracked(Acknowledged(b, f))
         /\ NoneRevived(b, Acknowledged(b, f))
<1> DEFINE a == Acknowledged(b, f)
<1>1. ASSUME NEW id \in HostOps
      PROVE  /\ b[id] # "asked" => a[id] = b[id]
             /\ b[id] = "asked" => a[id] \in {"none", "asked", "stuck"}
             /\ b[id] = "asked" /\ id \in hrRunning => a[id] # "none"
  BY DEF Acknowledged
<1>2. a = [id \in HostOps |-> a[id]]
  BY DEF Acknowledged
<1> HIDE DEF a
<1>3. a \in BridgeTables
  BY <1>1, <1>2 DEF BridgeTables, Entries
<1>4. /\ Tracked(a) \subseteq Tracked(b)
      /\ Tracked(b) \cap hrRunning \subseteq Tracked(a)
      /\ NoneRevived(b, a)
  BY <1>1 DEF Tracked, NoneRevived
<1>5. QED
  BY <1>3, <1>4 DEF a

(* A poll of the terminations starts none and keeps every one whose        *)
(* producer still runs.                                                    *)
LEMMA PolledKeeps ==
  ASSUME NEW p \in StreamTables, NEW f
  PROVE  /\ Polled(p, f) \in StreamTables
         /\ Terminating(Polled(p, f)) \subseteq Terminating(p)
         /\ Terminating(p) \cap hrProducers \subseteq Terminating(Polled(p, f))
  BY DEF StreamTables, Terminations, Polled, Terminating, EndedIn, BegunIn

(* The drivers whose termination begins become pending terminations.       *)
LEMMA BegunKeeps ==
  ASSUME NEW p \in StreamTables, NEW ids \in SUBSET HostOps, NEW f
  PROVE  /\ Begun(p, ids, f) \in StreamTables
         /\ Terminating(Begun(p, ids, f)) = Terminating(p) \cup ids
  BY DEF StreamTables, Terminations, Begun, Terminating

(* When a poll answers Ok, no termination is left.                         *)
LEMMA OkLeavesNone ==
  ASSUME NEW p \in StreamTables, NEW f, StreamResult(p, f) = "Ok"
  PROVE  Terminating(Polled(p, f)) = {}
<1>1. Terminating(p) \ EndedIn(p, f) = {}
  BY SMTT(30) DEF StreamResult
<1>2. \A id \in HostOps : id \in EndedIn(p, f) => Polled(p, f)[id] = "none"
  BY DEF Polled
<1>3. \A id \in HostOps : id \notin Terminating(p) => Polled(p, f)[id] = "none"
  BY DEF Polled, Terminating, EndedIn, BegunIn
<1>4. QED
  BY <1>1, <1>2, <1>3 DEF Terminating

(* The faults of a call are few enough to be counted.                      *)
LEMMA FaultsCounted ==
  ASSUME HostRuntimeTypeOK, NEW possible, IsFiniteSet(possible),
         NEW f \in FaultSets(possible), Charge(f)
  PROVE  hrFaults' \in 0..MaxFaults
<1>1. IsFiniteSet(f)
  BY FS_Subset DEF FaultSets
<1>2. Cardinality(f) \in Nat
  BY <1>1, FS_CardinalityType
<1>3. QED
  BY <1>2, HostRuntimeConstants DEF HostRuntimeTypeOK, FaultSets, Charge

LEMMA PairFinite ==
  ASSUME NEW x, NEW y
  PROVE  IsFiniteSet({x, y})
<1>1. IsFiniteSet({x})
  BY FS_Singleton, ZenonT(30)
<1>2. IsFiniteSet({x} \cup {y})
  BY <1>1, FS_AddElement
<1>3. {x} \cup {y} = {x, y}
  OBVIOUS
<1>4. QED
  BY <1>2, <1>3

LEMMA FaultsFinite ==
  ASSUME HostRuntimeTypeOK
  PROVE  IsFiniteSet(Faults)
<1>1. IsFiniteSet(HostOps)
  BY FS_Interval, HostRuntimeConstants DEF HostOps
<1>2. IsFiniteSet(Tracked(hrBridge)) /\ IsFiniteSet(hrDrivers \cup Terminating(hrPending))
  BY <1>1, FS_Subset DEF HostRuntimeTypeOK, Tracked, Terminating
<1>3. IsFiniteSet({"request", "cleanup"} \X Tracked(hrBridge))
  BY <1>2, PairFinite, FS_Product, ZenonT(30)
<1>4. IsFiniteSet({"begin", "end"} \X (hrDrivers \cup Terminating(hrPending)))
  BY <1>2, PairFinite, FS_Product, ZenonT(30)
<1>5. IsFiniteSet({<<"close", 0>>, <<"identity", 0>>})
  BY PairFinite, ZenonT(30)
<1>6. QED
  BY <1>3, <1>4, <1>5, FS_Union, ZenonT(30) DEF Faults
------------------------------------------------------------------------------
(* What a published reset leaves.                                          *)
QuietAfterPublish ==
  hrGen' # hrGen => hrRunning' = {} /\ hrProducers' = {} /\ hrHeld = {} /\ Reusable'

(* Every way a poll of a reset ends keeps the invariant, and the one that  *)
(* publishes finds everything quiet, from a bridge table b that has asked  *)
(* what the last sweep met, terminations p that cover the producers, and a *)
(* scope that was closed.                                                  *)
LEMMA PollResetKeepsInv ==
  ASSUME HostRuntimeInv,
         NEW b \in BridgeTables, Tracked(b) = Tracked(hrBridge),
         \A id \in HostOps : b[id] # "failed" /\ (id < hrSwept' => b[id] # "active"),
         NEW p \in StreamTables, hrProducers \subseteq Terminating(p),
         \A id \in Terminating(p) : id < hrNext,
         NEW ph \in {"Closing", "Quiescent"},
         NEW f, PollResetFrom(b, p, ph, f), hrError = "none",
         ph = "Quiescent" => hrHeld = {},
         hrDrivers' = {}, hrCompletions' = {},
         UNCHANGED <<hrNext, hrHasBridge, hrRunning, hrRollbacks, hrProducers>>,
         hrVm' \in {"live", "shut"}, hrSwept' \in 1..hrNext,
         hrFaults' \in 0..MaxFaults
  PROVE  HostRuntimeInv' /\ QuietAfterPublish
<1> DEFINE a == Acknowledged(b, f)
<1>1. /\ a \in BridgeTables
      /\ Tracked(a) \subseteq Tracked(b)
      /\ Tracked(b) \cap hrRunning \subseteq Tracked(a)
      /\ \A id \in HostOps : a[id] # "failed" /\ (id < hrSwept' => a[id] # "active")
  BY AcknowledgedKeeps DEF NoneRevived
<1>2. /\ Polled(p, f) \in StreamTables
      /\ Terminating(Polled(p, f)) \subseteq Terminating(p)
      /\ hrProducers \subseteq Terminating(Polled(p, f))
  BY PolledKeeps
<1>3. /\ hrBridge' = a
      /\ hrPending' \in StreamTables
      /\ Terminating(hrPending') \subseteq Terminating(p)
      /\ hrProducers \subseteq Terminating(hrPending')
  BY <1>2 DEF PollResetFrom, ResetWaitsForBridge, ResetMeetsStreamError, ResetWaitsForScope,
              ResetPublishes, PollStreams
<1> HIDE DEF a
<1>4. IdsBehind' /\ RunningIsTracked' /\ TrackedHasBridge'
  BY <1>1, <1>3 DEF HostRuntimeInv, HostRuntimeTypeOK, IdsBehind, RunningIsTracked, TrackedHasBridge,
                    Tracked, Terminating
<1>5. CASE ResetWaitsForBridge(a, p, ph, f)
  <2>1. HostRuntimeTypeOK' /\ QuiescentIsEmpty'
    BY <1>1, <1>3, <1>5 DEF HostRuntimeInv, HostRuntimeTypeOK, QuiescentIsEmpty, ResetWaitsForBridge,
                            BridgeTables, StreamTables
  <2>2. SweptIsAsked' /\ QuietAfterPublish
    BY <1>1, <1>3, <1>5 DEF SweptIsAsked, QuietAfterPublish, ResetWaitsForBridge
  <2>3. QED
    BY <1>4, <2>1, <2>2 DEF HostRuntimeInv
<1>6. CASE ResetMeetsStreamError(a, p, ph, f)
  <2>1. HostRuntimeTypeOK' /\ QuiescentIsEmpty'
    BY <1>1, <1>3, <1>6 DEF HostRuntimeInv, HostRuntimeTypeOK, QuiescentIsEmpty, ResetMeetsStreamError,
                            PollStreams, BridgeTables, StreamTables
  <2>2. SweptIsAsked' /\ QuietAfterPublish
    BY <1>1, <1>3, <1>6 DEF SweptIsAsked, QuietAfterPublish, ResetMeetsStreamError
  <2>3. QED
    BY <1>4, <2>1, <2>2 DEF HostRuntimeInv
<1>7. CASE ResetWaitsForScope(a, p, ph, f)
  <2>1. hrPhase' \in {"Closing", "Quiescent"} /\ QuiescentIsEmpty'
    BY <1>7 DEF ResetWaitsForScope, PollClose, Closed, QuiescentIsEmpty
  <2>2. hrVerdict' \in {"none", "Success", "SuccessWithErrors"}
    BY <1>7 DEF ResetWaitsForScope, Outcome, HostRuntimeInv, HostRuntimeTypeOK
  <2>3. HostRuntimeTypeOK'
    BY <1>1, <1>3, <1>7, <2>1, <2>2 DEF HostRuntimeInv, HostRuntimeTypeOK, ResetWaitsForScope,
                            PollStreams, BridgeTables, StreamTables
  <2>4. SweptIsAsked' /\ QuietAfterPublish
    BY <1>1, <1>3, <1>7, <2>1 DEF SweptIsAsked, QuietAfterPublish, ResetWaitsForScope
  <2>5. QED
    BY <1>4, <2>1, <2>3, <2>4 DEF HostRuntimeInv
<1>8. CASE ResetPublishes(a, p, ph, f)
  <2>1. QuiescentIsEmpty' /\ SweptIsAsked'
    BY <1>1, <1>3, <1>8 DEF QuiescentIsEmpty, SweptIsAsked, ResetPublishes
  <2>8. HostRuntimeTypeOK'
    <3>1. hrTainted' \in BOOLEAN
      BY <1>8 DEF ResetPublishes, PollStreams
    <3>2. hrGen' \in Nat /\ hrPhase' = "Active" /\ hrVerdict' = "none" /\ hrHeld' = {} /\ hrError' = "none"
          /\ hrResetPending' = FALSE
      BY <1>8 DEF ResetPublishes, HostRuntimeInv, HostRuntimeTypeOK
    <3>3. QED
      BY <1>1, <1>3, <3>1, <3>2, ZenonT(30) DEF HostRuntimeInv, HostRuntimeTypeOK, BridgeTables, StreamTables
  <2>2. Tracked(a) = {}
    BY <1>8 DEF ResetPublishes, BridgeResult
  <2>3. Terminating(hrPending') = {}
    BY <1>8, OkLeavesNone DEF ResetPublishes, MayPublish, PollStreams
  <2>4. hrHeld = {}
    BY <1>8 DEF ResetPublishes, MayPublish, Closed
  <2>5. hrError' = "none"
    BY <1>8 DEF ResetPublishes
  <2>6. QuietAfterPublish
    BY <1>3, <1>4, <1>8, <2>2, <2>3, <2>4, <2>5
       DEF QuietAfterPublish, Reusable, RunningIsTracked, ResetPublishes, Tracked, Terminating
  <2>7. QED
    BY <1>4, <2>1, <2>6, <2>8 DEF HostRuntimeInv
<1>9. QED
  BY <1>5, <1>6, <1>7, <1>8 DEF PollResetFrom, a
------------------------------------------------------------------------------
LEMMA TableStepsKeepInv ==
  ASSUME HostRuntimeInv,
         Submit \/ ReplaceBridge \/ InstallStream \/ UseScope \/ TakeCompletion
           \/ CloseScope \/ PollScope \/ WorkEnds
           \/ (\E id \in HostOps : FutureEnds(id) \/ ProducerEnds(id))
  PROVE  HostRuntimeInv' /\ QuietAfterPublish
<1> USE DEF HostRuntimeInv, bridgeVars, streamVars, scopeState, resetVars
<1>1. CASE Submit
  <2>0. hrNext \in HostOps /\ hrNext' = hrNext + 1 /\ hrNext' \in 1..(MaxHostOp + 1)
    BY <1>1, HostRuntimeConstants DEF Submit, HostOps
  <2>1. HostRuntimeTypeOK'
    BY <1>1, <2>0 DEF Submit, HostRuntimeTypeOK, Entries
  <2>2. IdsBehind' /\ RunningIsTracked'
    BY <1>1, <2>1 DEF Submit, HostRuntimeTypeOK, IdsBehind, RunningIsTracked, Tracked, Terminating, Ready, Entries, Asked, HostOps
  <2>3. TrackedHasBridge' /\ SweptIsAsked' /\ QuiescentIsEmpty' /\ QuietAfterPublish
    BY <1>1, <2>1 DEF Submit, HostRuntimeTypeOK, TrackedHasBridge, SweptIsAsked, QuiescentIsEmpty, QuietAfterPublish, Tracked, Ready, Entries, Asked, HostOps
  <2>4. QED
    BY <2>1, <2>2, <2>3
<1>2. CASE ReplaceBridge
  <2>1. HostRuntimeTypeOK'
    BY <1>2 DEF ReplaceBridge, HostRuntimeTypeOK, MayReplaceBridge
  <2>2. IdsBehind' /\ RunningIsTracked'
    BY <1>2, <2>1 DEF ReplaceBridge, HostRuntimeTypeOK, IdsBehind, RunningIsTracked, Tracked, Terminating, MayReplaceBridge
  <2>3. TrackedHasBridge' /\ SweptIsAsked' /\ QuiescentIsEmpty' /\ QuietAfterPublish
    BY <1>2, <2>1 DEF ReplaceBridge, HostRuntimeTypeOK, TrackedHasBridge, SweptIsAsked, QuiescentIsEmpty, QuietAfterPublish, Tracked, MayReplaceBridge
  <2>4. QED
    BY <2>1, <2>2, <2>3
<1>3. CASE InstallStream
  <2>0. hrNext \in HostOps /\ hrNext' = hrNext + 1 /\ hrNext' \in 1..(MaxHostOp + 1)
    BY <1>3, HostRuntimeConstants DEF InstallStream, HostOps
  <2>1. HostRuntimeTypeOK'
    BY <1>3, <2>0 DEF InstallStream, HostRuntimeTypeOK, Entries
  <2>2. IdsBehind' /\ RunningIsTracked'
    BY <1>3, <2>1 DEF InstallStream, HostRuntimeTypeOK, IdsBehind, RunningIsTracked, Tracked, Terminating, Ready, HostOps
  <2>3. TrackedHasBridge' /\ SweptIsAsked' /\ QuiescentIsEmpty' /\ QuietAfterPublish
    BY <1>3, <2>1 DEF InstallStream, HostRuntimeTypeOK, TrackedHasBridge, SweptIsAsked, QuiescentIsEmpty, QuietAfterPublish, Tracked, Ready, HostOps
  <2>4. QED
    BY <2>1, <2>2, <2>3
<1>4. CASE UseScope
  <2>1. HostRuntimeTypeOK'
    BY <1>4 DEF UseScope, HostRuntimeTypeOK, Ready, Scope!Admit
  <2>2. IdsBehind' /\ RunningIsTracked'
    BY <1>4, <2>1 DEF UseScope, HostRuntimeTypeOK, IdsBehind, RunningIsTracked, Tracked, Terminating, Ready, Scope!Admit
  <2>3. TrackedHasBridge' /\ SweptIsAsked' /\ QuiescentIsEmpty' /\ QuietAfterPublish
    BY <1>4, <2>1 DEF UseScope, HostRuntimeTypeOK, TrackedHasBridge, SweptIsAsked, QuiescentIsEmpty, QuietAfterPublish, Tracked, Ready, Scope!Admit
  <2>4. QED
    BY <2>1, <2>2, <2>3
<1>5. CASE TakeCompletion
  <2>1. HostRuntimeTypeOK'
    BY <1>5 DEF TakeCompletion, HostRuntimeTypeOK
  <2>2. IdsBehind' /\ RunningIsTracked'
    BY <1>5, <2>1 DEF TakeCompletion, HostRuntimeTypeOK, IdsBehind, RunningIsTracked, Tracked, Terminating
  <2>3. TrackedHasBridge' /\ SweptIsAsked' /\ QuiescentIsEmpty' /\ QuietAfterPublish
    BY <1>5, <2>1 DEF TakeCompletion, HostRuntimeTypeOK, TrackedHasBridge, SweptIsAsked, QuiescentIsEmpty, QuietAfterPublish, Tracked
  <2>4. QED
    BY <2>1, <2>2, <2>3
<1>6. CASE WorkEnds
  <2>1. HostRuntimeTypeOK'
    BY <1>6 DEF WorkEnds, HostRuntimeTypeOK, Scope!Give
  <2>2. IdsBehind' /\ RunningIsTracked'
    BY <1>6, <2>1 DEF WorkEnds, HostRuntimeTypeOK, IdsBehind, RunningIsTracked, Tracked, Terminating, Scope!Give
  <2>3. TrackedHasBridge' /\ SweptIsAsked' /\ QuiescentIsEmpty' /\ QuietAfterPublish
    BY <1>6, <2>1 DEF WorkEnds, HostRuntimeTypeOK, TrackedHasBridge, SweptIsAsked, QuiescentIsEmpty, QuietAfterPublish, Tracked, Scope!Give
  <2>4. QED
    BY <2>1, <2>2, <2>3
<1>7. CASE \E id \in HostOps : FutureEnds(id)
  <2>1. HostRuntimeTypeOK'
    BY <1>7 DEF FutureEnds, HostRuntimeTypeOK
  <2>2. IdsBehind' /\ RunningIsTracked'
    BY <1>7, <2>1 DEF FutureEnds, HostRuntimeTypeOK, IdsBehind, RunningIsTracked, Tracked, Terminating
  <2>3. TrackedHasBridge' /\ SweptIsAsked' /\ QuiescentIsEmpty' /\ QuietAfterPublish
    BY <1>7, <2>1 DEF FutureEnds, HostRuntimeTypeOK, TrackedHasBridge, SweptIsAsked, QuiescentIsEmpty, QuietAfterPublish, Tracked
  <2>4. QED
    BY <2>1, <2>2, <2>3
<1>8. CASE \E id \in HostOps : ProducerEnds(id)
  <2>1. HostRuntimeTypeOK'
    BY <1>8 DEF ProducerEnds, HostRuntimeTypeOK
  <2>2. IdsBehind' /\ RunningIsTracked'
    BY <1>8, <2>1 DEF ProducerEnds, HostRuntimeTypeOK, IdsBehind, RunningIsTracked, Tracked, Terminating
  <2>3. TrackedHasBridge' /\ SweptIsAsked' /\ QuiescentIsEmpty' /\ QuietAfterPublish
    BY <1>8, <2>1 DEF ProducerEnds, HostRuntimeTypeOK, TrackedHasBridge, SweptIsAsked, QuiescentIsEmpty, QuietAfterPublish, Tracked
  <2>4. QED
    BY <2>1, <2>2, <2>3
<1>9. CASE CloseScope
  <2>1. HostRuntimeTypeOK'
    BY <1>9 DEF CloseScope, HostRuntimeTypeOK
  <2>2. IdsBehind' /\ RunningIsTracked'
    BY <1>9, <2>1 DEF CloseScope, HostRuntimeTypeOK, IdsBehind, RunningIsTracked, Tracked, Terminating
  <2>3. TrackedHasBridge' /\ SweptIsAsked' /\ QuiescentIsEmpty' /\ QuietAfterPublish
    BY <1>9, <2>1 DEF CloseScope, HostRuntimeTypeOK, TrackedHasBridge, SweptIsAsked, QuiescentIsEmpty, QuietAfterPublish, Tracked
  <2>4. QED
    BY <2>1, <2>2, <2>3
<1>10. CASE PollScope
  <2>0. hrFaults' \in 0..MaxFaults
    BY <1>10, FS_Singleton, FaultsCounted, ZenonT(30) DEF PollScope
  <2>1. HostRuntimeTypeOK'
    BY <1>10, <2>0 DEF PollScope, HostRuntimeTypeOK
  <2>2. IdsBehind' /\ RunningIsTracked'
    BY <1>10, <2>1 DEF PollScope, HostRuntimeTypeOK, IdsBehind, RunningIsTracked, Tracked, Terminating
  <2>3. TrackedHasBridge' /\ SweptIsAsked' /\ QuiescentIsEmpty' /\ QuietAfterPublish
    BY <1>10, <2>1 DEF PollScope, HostRuntimeTypeOK, TrackedHasBridge, SweptIsAsked, QuiescentIsEmpty, QuietAfterPublish, Tracked
  <2>4. QED
    BY <2>1, <2>2, <2>3
<1>11. QED
  BY <1>1, <1>2, <1>3, <1>4, <1>5, <1>6, <1>7, <1>8, <1>9, <1>10

(* One operation's entry changes.                                          *)
LEMMA BridgeStepKeepsInv ==
  ASSUME HostRuntimeInv,
         NEW id \in HostOps, CancelOp(id) \/ CompleteOp(id) \/ PollCancellation(id)
  PROVE  HostRuntimeInv' /\ QuietAfterPublish
<1> USE DEF HostRuntimeInv, streamVars, scopeState, resetVars
<1>1. PICK entry \in Entries, f \in FaultSets({<<"request", id>>, <<"cleanup", id>>}) :
        /\ BridgeStep(id, entry, f)
        /\ hrBridge[id] \in {"active", "asked"}
        /\ entry # "active"
        /\ entry = "failed" => MayWait
        /\ hrVm # "dropped"
        /\ \/ hrRunning' = hrRunning /\ (entry = "none" => id \notin hrRunning)
           \/ hrRunning' = hrRunning \ {id} /\ entry = "none"
  <2>1. CASE CancelOp(id)
    BY <2>1 DEF CancelOp, Requested, Refused, FaultSets, Entries, MayWait
  <2>2. CASE CompleteOp(id)
    BY <2>2 DEF CompleteOp, FaultSets, Entries, MayWait
  <2>3. CASE PollCancellation(id)
    BY <2>3, ZenonT(30) DEF PollCancellation, Acknowledged, FaultSets, Entries, BridgeStep
  <2>4. QED
    BY <2>1, <2>2, <2>3
<1>2. hrFaults' \in 0..MaxFaults
  BY <1>1, PairFinite, FaultsCounted, ZenonT(30) DEF BridgeStep
<1>3. hrBridge' = [hrBridge EXCEPT ![id] = entry]
  BY <1>1 DEF BridgeStep
<1>4. HostRuntimeTypeOK'
  BY <1>1, <1>2, <1>3, SMTT(30) DEF BridgeStep, HostRuntimeTypeOK
<1>5. Tracked(hrBridge') \subseteq Tracked(hrBridge) /\ Tracked(hrBridge) \ {id} \subseteq Tracked(hrBridge')
  BY <1>1, <1>3 DEF Tracked, HostRuntimeTypeOK
<1>6. hrRunning' \subseteq Tracked(hrBridge')
  BY <1>1, <1>3, <1>5 DEF RunningIsTracked, Tracked, HostRuntimeTypeOK
<1>7. IdsBehind' /\ RunningIsTracked'
  BY <1>1, <1>5, <1>6, ZenonT(30) DEF BridgeStep, IdsBehind, RunningIsTracked, Terminating, HostRuntimeTypeOK
<1>8. TrackedHasBridge' /\ QuiescentIsEmpty' /\ QuietAfterPublish
  BY <1>1, <1>5, ZenonT(30) DEF BridgeStep, TrackedHasBridge, QuiescentIsEmpty, QuietAfterPublish
<1>9. SweptIsAsked'
  BY <1>1, <1>3 DEF BridgeStep, SweptIsAsked, HostRuntimeTypeOK, MayWait
<1>10. QED
  BY <1>4, <1>7, <1>8, <1>9

(* A step that moves streams towards their end, and may close the scope or *)
(* ask the bridge, keeps the invariant when it loses no producer and no    *)
(* operation.                                                              *)
LEMMA RetiringKeepsInv ==
  ASSUME HostRuntimeInv, HostRuntimeTypeOK',
         UNCHANGED <<hrNext, hrHasBridge, hrRunning, hrProducers, hrHeld, hrGen, hrResetPending>>,
         Tracked(hrBridge') \subseteq Tracked(hrBridge),
         hrRunning \subseteq Tracked(hrBridge'),
         NoneRevived(hrBridge, hrBridge'),
         hrSwept' # hrSwept \/ hrVm' # hrVm =>
           hrDrivers' = {} /\ \A id \in HostOps : hrBridge'[id] # "active",
         hrDrivers' \subseteq hrDrivers, hrCompletions' \subseteq hrCompletions,
         Terminating(hrPending') \subseteq Terminating(hrPending) \cup hrDrivers,
         hrProducers \subseteq hrDrivers' \cup Terminating(hrPending'),
         hrPhase' # hrPhase => hrPhase' # "Active",
         hrPhase' = "Quiescent" => hrHeld = {}
  PROVE  HostRuntimeInv' /\ QuietAfterPublish
<1> USE DEF HostRuntimeInv
<1>1. IdsBehind'
  BY DEF IdsBehind, Tracked, Terminating, HostRuntimeTypeOK
<1>2. RunningIsTracked' /\ TrackedHasBridge'
  BY DEF RunningIsTracked, TrackedHasBridge, Tracked, Terminating
<1>3. SweptIsAsked' /\ QuiescentIsEmpty' /\ QuietAfterPublish
  BY DEF SweptIsAsked, NoneRevived, QuiescentIsEmpty, QuietAfterPublish
<1>4. QED
  BY <1>1, <1>2, <1>3

LEMMA RejectStreamKeepsInv ==
  ASSUME HostRuntimeInv, RejectStream
  PROVE  HostRuntimeInv' /\ QuietAfterPublish
<1> USE DEF HostRuntimeInv, scopeState, resetVars
<1>1. PICK f \in FaultSets({<<"begin", hrNext>>, <<"end", hrNext>>}), entry \in Terminations :
        /\ Charge(f)
        /\ hrPending' = [hrPending EXCEPT ![hrNext] = entry]
        /\ hrRollbacks' = hrRollbacks \cup {hrNext}
        /\ \/ hrProducers' = hrProducers
           \/ hrProducers' = hrProducers \cup {hrNext} /\ entry # "none"
  BY ZenonT(30) DEF RejectStream, Terminations
<1>2. hrFaults' \in 0..MaxFaults
  BY <1>1, PairFinite, FaultsCounted, ZenonT(30)
<1>3. hrNext \in HostOps /\ hrNext' = hrNext + 1 /\ hrNext' \in 1..(MaxHostOp + 1)
  BY HostRuntimeConstants DEF RejectStream, HostOps
<1>4. HostRuntimeTypeOK'
  BY <1>1, <1>2, <1>3, SMTT(30) DEF RejectStream, HostRuntimeTypeOK
<1>5. hrNext \notin hrProducers /\ hrNext \notin hrDrivers
  BY <1>3 DEF IdsBehind, HostRuntimeTypeOK, HostOps
<1>6. IdsBehind' /\ RunningIsTracked'
  BY <1>1, <1>3, <1>5, <1>4, SMTT(30) DEF RejectStream, HostRuntimeTypeOK, IdsBehind, RunningIsTracked, Tracked, Terminating, HostOps
<1>7. TrackedHasBridge' /\ SweptIsAsked' /\ QuiescentIsEmpty' /\ QuietAfterPublish
  BY DEF RejectStream, Ready, TrackedHasBridge, SweptIsAsked, QuiescentIsEmpty, QuietAfterPublish
<1>8. QED
  BY <1>4, <1>6, <1>7

(* The pending terminations after the drivers' begin, and after one poll.  *)
LEMMA RetiredStreams ==
  ASSUME HostRuntimeInv, NEW f, NEW g
  PROVE  /\ Begun(hrPending, hrDrivers, f) \in StreamTables
         /\ Terminating(Begun(hrPending, hrDrivers, f)) = Terminating(hrPending) \cup hrDrivers
         /\ hrProducers \subseteq Terminating(Begun(hrPending, hrDrivers, f))
         /\ Polled(Begun(hrPending, hrDrivers, f), g) \in StreamTables
         /\ Terminating(Polled(Begun(hrPending, hrDrivers, f), g)) \subseteq Terminating(hrPending) \cup hrDrivers
         /\ hrProducers \subseteq Terminating(Polled(Begun(hrPending, hrDrivers, f), g))
<1>1. hrPending \in StreamTables /\ hrDrivers \in SUBSET HostOps
      /\ hrProducers \subseteq Terminating(hrPending) \cup hrDrivers
  BY DEF HostRuntimeInv, HostRuntimeTypeOK, RunningIsTracked, StreamTables
<1>2. /\ Begun(hrPending, hrDrivers, f) \in StreamTables
      /\ Terminating(Begun(hrPending, hrDrivers, f)) = Terminating(hrPending) \cup hrDrivers
  BY <1>1, BegunKeeps
<1>3. QED
  BY <1>1, <1>2, PolledKeeps

LEMMA StreamStepsKeepInv ==
  ASSUME HostRuntimeInv, EndStream \/ PollTerminations
  PROVE  HostRuntimeInv' /\ QuietAfterPublish
<1> USE DEF HostRuntimeInv, bridgeVars, scopeState, resetVars
<1>1. /\ UNCHANGED <<hrNext, hrHasBridge, hrBridge, hrRunning, hrRollbacks, hrProducers>>
      /\ UNCHANGED <<hrPhase, hrVerdict, hrHeld>>
      /\ UNCHANGED <<hrCompletions, hrResetPending, hrError, hrGen, hrVm, hrSwept>>
  BY DEF EndStream, PollTerminations
<1>2. \E f \in FaultSets(Faults) : Charge(f)
  BY DEF EndStream, PollTerminations
<1>3. hrFaults' \in 0..MaxFaults
  BY <1>2, FaultsFinite, FaultsCounted
<1>4. hrTainted' \in BOOLEAN
  BY DEF EndStream, PollTerminations, PollStreams, HostRuntimeTypeOK
<1>5. /\ hrPending' \in StreamTables
      /\ hrDrivers' \subseteq hrDrivers
      /\ Terminating(hrPending') \subseteq Terminating(hrPending) \cup hrDrivers
      /\ hrProducers \subseteq hrDrivers' \cup Terminating(hrPending')
  <2>1. CASE EndStream
    BY <2>1, RetiredStreams DEF EndStream, PollStreams
  <2>2. CASE PollTerminations
    <3>1. hrPending \in StreamTables /\ hrProducers \subseteq hrDrivers \cup Terminating(hrPending)
      BY DEF HostRuntimeTypeOK, RunningIsTracked, StreamTables
    <3>2. \E f : hrPending' = Polled(hrPending, f)
      BY <2>2 DEF PollTerminations, PollStreams
    <3>3. QED
      BY <2>2, <3>1, <3>2, PolledKeeps DEF PollTerminations
  <2>3. QED
    BY <2>1, <2>2
<1>6. HostRuntimeTypeOK'
  BY <1>1, <1>3, <1>4, <1>5 DEF HostRuntimeTypeOK, StreamTables
<1>7. Tracked(hrBridge') = Tracked(hrBridge) /\ hrRunning \subseteq Tracked(hrBridge)
  BY <1>1 DEF RunningIsTracked
<1>8. QED
  BY <1>1, <1>5, <1>6, <1>7, RetiringKeepsInv DEF QuiescentIsEmpty, NoneRevived

LEMMA BridgeTyped ==
  ASSUME HostRuntimeInv
  PROVE  hrBridge \in BridgeTables /\ hrPending \in StreamTables /\ hrRunning \subseteq Tracked(hrBridge)
  BY DEF HostRuntimeInv, HostRuntimeTypeOK, RunningIsTracked, BridgeTables, StreamTables

LEMMA IdlePollKeepsInv ==
  ASSUME HostRuntimeInv, PollResetIdle
  PROVE  HostRuntimeInv' /\ QuietAfterPublish
<1> USE DEF HostRuntimeInv, streamVars, scopeState
<1>1. PICK f \in FaultSets(Faults) : hrBridge' = Acknowledged(hrBridge, f) /\ Charge(f)
  BY DEF PollResetIdle
<1>2. hrFaults' \in 0..MaxFaults
  BY <1>1, FaultsFinite, FaultsCounted
<1>3. hrError' \in {"none", "other"}
  BY DEF PollResetIdle
<1>4. /\ hrBridge' \in BridgeTables
      /\ Tracked(hrBridge') \subseteq Tracked(hrBridge)
      /\ hrRunning \subseteq Tracked(hrBridge')
      /\ NoneRevived(hrBridge, hrBridge')
  BY <1>1, BridgeTyped, AcknowledgedKeeps
<1>5. HostRuntimeTypeOK'
  BY <1>2, <1>3, <1>4 DEF PollResetIdle, HostRuntimeTypeOK, BridgeTables
<1>6. hrProducers \subseteq hrDrivers' \cup Terminating(hrPending')
  BY DEF PollResetIdle, RunningIsTracked
<1>7. QED
  BY <1>4, <1>5, <1>6, RetiringKeepsInv DEF PollResetIdle, QuiescentIsEmpty

LEMMA RetireKeepsInv ==
  ASSUME HostRuntimeInv, Shutdown \/ Drop
  PROVE  HostRuntimeInv' /\ QuietAfterPublish
<1> USE DEF HostRuntimeInv
<1>1. PICK f \in FaultSets(Faults) :
        /\ hrBridge' = Requested(hrBridge, HostOps, f)
        /\ PollStreams(Begun(hrPending, hrDrivers, f), f, hrResetPending)
        /\ Charge(f)
  BY DEF Shutdown, Drop, CancelSubmitted
<1>2. hrFaults' \in 0..MaxFaults
  BY <1>1, FaultsFinite, FaultsCounted
<1>3. /\ hrBridge' \in BridgeTables
      /\ Tracked(hrBridge') = Tracked(hrBridge)
      /\ hrRunning \subseteq Tracked(hrBridge')
  BY <1>1, BridgeTyped, RequestedKeeps
<1>4. NoneRevived(hrBridge, hrBridge') /\ \A id \in HostOps : hrBridge'[id] # "active"
  BY <1>1, BridgeTyped, RequestedKeeps, RequestedAsks
<1>5. /\ hrPending' \in StreamTables
      /\ Terminating(hrPending') \subseteq Terminating(hrPending) \cup hrDrivers
      /\ hrProducers \subseteq Terminating(hrPending')
  BY <1>1, RetiredStreams DEF PollStreams
<1>6. hrTainted' \in BOOLEAN
  BY <1>1 DEF PollStreams
<1>7. /\ UNCHANGED <<hrNext, hrHasBridge, hrRunning, hrRollbacks, hrProducers, hrHeld>>
      /\ UNCHANGED <<hrResetPending, hrError, hrGen>>
      /\ hrDrivers' = {}
      /\ hrCompletions' \subseteq hrCompletions
      /\ hrVm' \in {"shut", "dropped"} /\ hrSwept' = hrNext
  BY DEF Shutdown, Drop, scopeState, resetVars
<1>8. /\ hrPhase' \in {"Active", "Closing", "Quiescent"}
      /\ hrPhase' # hrPhase => hrPhase' # "Active"
      /\ hrPhase' = "Quiescent" => hrHeld = {}
  BY DEF Shutdown, Drop, scopeState, PollClose, BeginClose, Closed, QuiescentIsEmpty, HostRuntimeTypeOK
<1>9. hrVerdict' \in {"none", "Success", "SuccessWithErrors"}
  BY DEF Shutdown, Drop, scopeState, Outcome, HostRuntimeTypeOK
<1>10. HostRuntimeTypeOK'
  BY <1>2, <1>3, <1>5, <1>6, <1>7, <1>8, <1>9, SMTT(30) DEF HostRuntimeTypeOK, BridgeTables, StreamTables
<1>11. QED
  BY <1>3, <1>4, <1>5, <1>7, <1>8, <1>10, RetiringKeepsInv

LEMMA PollKeepsInv ==
  ASSUME HostRuntimeInv, PollReset
  PROVE  HostRuntimeInv' /\ QuietAfterPublish
<1> USE DEF HostRuntimeInv
<1>1. PICK f \in FaultSets(Faults) : PollResetFrom(hrBridge, hrPending, hrPhase, f) /\ Charge(f)
  BY DEF PollReset
<1>2. hrFaults' \in 0..MaxFaults
  BY <1>1, FaultsFinite, FaultsCounted
<1>3. /\ hrPhase \in {"Closing", "Quiescent"} /\ hrDrivers = {} /\ hrCompletions = {}
      /\ \A id \in HostOps : hrBridge[id] # "failed" /\ (id < hrSwept' => hrBridge[id] # "active")
  BY DEF PollReset, SweptIsAsked, HostRuntimeTypeOK
<1>4. hrProducers \subseteq Terminating(hrPending) /\ \A id \in Terminating(hrPending) : id < hrNext
  BY <1>3 DEF RunningIsTracked, IdsBehind, Terminating
<1>5. hrVm' \in {"live", "shut"} /\ hrSwept' \in 1..hrNext
  BY DEF PollReset, HostRuntimeTypeOK
<1>6. QED
  BY <1>1, <1>2, <1>3, <1>4, <1>5, BridgeTyped, PollResetKeepsInv DEF PollReset, QuiescentIsEmpty

LEMMA ResetKeepsInv ==
  ASSUME HostRuntimeInv, Reset
  PROVE  HostRuntimeInv' /\ QuietAfterPublish
<1> USE DEF HostRuntimeInv
<1>1. PICK f \in FaultSets(Faults), waiting \in {{}} \cup {{id} : id \in Tracked(hrBridge)} :
        /\ \/ ResetFailsToCancel(waiting, f)
           \/ ResetFailsToRequest(waiting, f)
           \/ ResetFailsToAllocate(waiting, f)
           \/ ResetProceeds(waiting, f)
        /\ Charge(f)
  BY DEF Reset
<1>2. hrFaults' \in 0..MaxFaults
  BY <1>1, FaultsFinite, FaultsCounted
<1>3. /\ AfterCancel(f) \in StreamTables
      /\ Terminating(AfterCancel(f)) \subseteq Terminating(hrPending) \cup hrDrivers
      /\ hrProducers \subseteq Terminating(AfterCancel(f))
  BY RetiredStreams DEF AfterCancel
<1>4. /\ UNCHANGED <<hrNext, hrHasBridge, hrRunning, hrRollbacks, hrProducers>>
      /\ hrDrivers' = {} /\ hrError = "none"
  BY DEF Reset
<1>5. ASSUME NEW ops, hrBridge' = Requested(hrBridge, ops, f), hrPending' = AfterCancel(f),
             hrError' \in {"scope", "other"}, UNCHANGED <<hrVerdict, hrHeld, hrResetPending, hrGen, hrTainted, hrVm>>,
             hrCompletions' \subseteq hrCompletions,
             hrPhase' \in {hrPhase, BeginClose(hrPhase)},
             hrSwept' = hrSwept \/ (hrSwept' = hrNext /\ ops = HostOps)
      PROVE  HostRuntimeInv' /\ QuietAfterPublish
  <2>1. /\ hrBridge' \in BridgeTables
        /\ Tracked(hrBridge') = Tracked(hrBridge)
        /\ hrRunning \subseteq Tracked(hrBridge')
    BY <1>5, BridgeTyped, RequestedKeeps
  <2>2. /\ NoneRevived(hrBridge, hrBridge')
        /\ hrSwept' # hrSwept => \A id \in HostOps : hrBridge'[id] # "active"
    BY <1>5, BridgeTyped, RequestedKeeps, RequestedAsks
  <2>3. /\ hrPhase' \in {"Active", "Closing", "Quiescent"}
        /\ hrPhase' # hrPhase => hrPhase' # "Active"
        /\ hrPhase' = "Quiescent" => hrHeld = {}
    BY <1>5 DEF BeginClose, QuiescentIsEmpty, HostRuntimeTypeOK
  <2>4. HostRuntimeTypeOK'
    BY <1>2, <1>3, <1>4, <1>5, <2>1, <2>3, SMTT(30) DEF HostRuntimeTypeOK, BridgeTables, StreamTables
  <2>5. QED
    BY <1>3, <1>4, <1>5, <2>1, <2>2, <2>3, <2>4, RetiringKeepsInv
<1>6. CASE ResetFailsToCancel(waiting, f)
  BY <1>5, <1>6 DEF ResetFailsToCancel, scopeState
<1>7. CASE ResetFailsToRequest(waiting, f)
  BY <1>5, <1>7 DEF ResetFailsToRequest, scopeState
<1>8. CASE ResetFailsToAllocate(waiting, f)
  BY <1>5, <1>8 DEF ResetFailsToAllocate
<1>9. CASE ResetProceeds(waiting, f)
  <2> DEFINE b  == Requested(hrBridge, HostOps, f)
             ph == BeginClose(hrPhase)
  <2>1. b \in BridgeTables /\ Tracked(b) = Tracked(hrBridge)
    BY BridgeTyped, RequestedKeeps
  <2>2. \A id \in HostOps : b[id] # "failed" /\ b[id] # "active"
    BY <1>9, BridgeTyped, RequestedAsks DEF ResetProceeds
  <2>3. ph \in {"Closing", "Quiescent"} /\ (ph = "Quiescent" => hrHeld = {})
    BY DEF BeginClose, QuiescentIsEmpty, HostRuntimeTypeOK
  <2>4. \A id \in Terminating(AfterCancel(f)) : id < hrNext
    BY <1>3 DEF IdsBehind, Terminating
  <2>5. hrVm' \in {"live", "shut"} /\ hrSwept' \in 1..hrNext
    BY <1>9, SMTT(30) DEF Reset, ResetProceeds, HostRuntimeTypeOK
  <2>6. PollResetFrom(b, AfterCancel(f), ph, f) /\ hrCompletions' = {}
    BY <1>9 DEF ResetProceeds
  <2> HIDE DEF b, ph
  <2>7. QED
    BY <1>2, <1>3, <1>4, <2>1, <2>2, <2>3, <2>4, <2>5, <2>6, PollResetKeepsInv
<1>10. QED
  BY <1>1, <1>6, <1>7, <1>8, <1>9

LEMMA NextKeepsInv ==
  ASSUME HostRuntimeInv, [HostRuntimeNext]_hrVars
  PROVE  HostRuntimeInv' /\ (QuietAfterPublish \/ UNCHANGED hrVars)
<1>1. CASE UNCHANGED hrVars
  BY <1>1, SMTT(30) DEF HostRuntimeInv, HostRuntimeTypeOK, QuiescentIsEmpty, IdsBehind, RunningIsTracked, TrackedHasBridge,
              SweptIsAsked, hrVars, bridgeVars, streamVars, scopeState, resetVars, Tracked, Terminating
<1>2. CASE HostRuntimeNext
  BY <1>2, TableStepsKeepInv, BridgeStepKeepsInv, RejectStreamKeepsInv, StreamStepsKeepInv,
     PollKeepsInv, IdlePollKeepsInv, ResetKeepsInv, RetireKeepsInv DEF HostRuntimeNext
<1>3. QED
  BY <1>1, <1>2

LEMMA InitHasInv ==
  ASSUME HostRuntimeInit
  PROVE  HostRuntimeInv
<1>1. Tracked(hrBridge) = {} /\ Terminating(hrPending) = {}
  BY DEF HostRuntimeInit, Tracked, Terminating
<1>2. hrNext \in 1..(MaxHostOp + 1) /\ hrSwept \in 1..hrNext /\ hrFaults \in 0..MaxFaults
  BY HostRuntimeConstants DEF HostRuntimeInit
<1>3. hrBridge \in [HostOps -> Entries] /\ hrPending \in [HostOps -> Terminations]
  BY DEF HostRuntimeInit, Entries, Terminations
<1>4. hrPhase = "Active" /\ hrVerdict = "none" /\ hrHeld = {}
  BY DEF HostRuntimeInit, Scope!Init
<1>5. HostRuntimeTypeOK
  BY <1>2, <1>3, <1>4, ZenonT(30) DEF HostRuntimeInit, HostRuntimeTypeOK
<1>6. QED
  BY <1>1, <1>4, <1>5 DEF HostRuntimeInit, HostRuntimeInv, QuiescentIsEmpty, IdsBehind, RunningIsTracked,
                    TrackedHasBridge, SweptIsAsked

(* The conjunction of the parts is an invariant of the host runtime.       *)
THEOREM HostRuntimeInvariant == HostRuntimeSpec => []HostRuntimeInv
<1>0. HostRuntimeInit => HostRuntimeInv
  BY InitHasInv
<1>1. HostRuntimeInv /\ [HostRuntimeNext]_hrVars => HostRuntimeInv'
  BY NextKeepsInv
<1>2. QED
  BY <1>0, <1>1, PTL DEF HostRuntimeSpec

(* Nothing runs that the tables of host_runtime.rs do not track, through   *)
(* every cancellation, failure, reset and shutdown, for any number of      *)
(* operations, streams, resets and faults.                                 *)
THEOREM HostRunningIsTracked == HostRuntimeSpec => []RunningIsTracked
<1>1. HostRuntimeInv => RunningIsTracked
  BY DEF HostRuntimeInv
<1>2. QED
  BY HostRuntimeInvariant, <1>1, PTL

(* set_async_bridge and clear_async_bridge never take the bridge away from *)
(* an operation still tracked.                                             *)
THEOREM HostTrackedHasBridge == HostRuntimeSpec => []TrackedHasBridge
<1>1. HostRuntimeInv => TrackedHasBridge
  BY DEF HostRuntimeInv
<1>2. QED
  BY HostRuntimeInvariant, <1>1, PTL

(* For any number of operations, streams, resets and faults, and whatever  *)
(* the embedder submits meanwhile: a pending reset leaves no stream,       *)
(* completion or open scope, and has asked for the end of every operation  *)
(* but the ones submitted since it was last requested (reset_for_reuse,    *)
(* poll_reset_for_reuse, submit_host_future).                              *)
THEOREM HostResetSealed == HostRuntimeSpec => []ResetSealed
<1>1. HostRuntimeInv => ResetSealed
  BY SMTT(30) DEF HostRuntimeInv, HostRuntimeTypeOK, SweptIsAsked, ResetSealed, Late, Entries, Asked, HostOps
<1>2. QED
  BY HostRuntimeInvariant, <1>1, PTL

(* A VM shut down, or dropped, has asked for the end of everything the     *)
(* bridge had by then (shutdown, Drop for Vm).                             *)
THEOREM HostRetiredAsksAll == HostRuntimeSpec => []RetiredAsksAll
<1>1. HostRuntimeInv => RetiredAsksAll
  BY SMTT(30) DEF HostRuntimeInv, HostRuntimeTypeOK, SweptIsAsked, RetiredAsksAll, Late, HostOps
<1>2. QED
  BY HostRuntimeInvariant, <1>1, PTL

(* poll_reset_execution_scope publishes the replacement scope only over a  *)
(* quiet host.                                                             *)
THEOREM HostPublishesOverQuiet == HostRuntimeSpec => PublishesOverQuiet
<1>1. HostRuntimeInv /\ [HostRuntimeNext]_hrVars =>
        [hrGen' # hrGen =>
           hrRunning' = {} /\ hrProducers' = {} /\ hrHeld = {} /\ Reusable']_hrVars
  BY NextKeepsInv DEF QuietAfterPublish
<1>2. QED
  BY HostRuntimeInvariant, <1>1, PTL DEF HostRuntimeSpec, PublishesOverQuiet
=============================================================================
