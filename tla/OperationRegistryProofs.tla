----------------------- MODULE OperationRegistryProofs -----------------------
(***************************************************************************)
(* Proofs about the operation registry, for every capacity, arena size,    *)
(* generation limit, tag space and set of cancellation reasons.            *)
(*                                                                         *)
(* Every operation that ends or releases slots is one Consume step, so the *)
(* argument has one lemma for it (ConsumeKeepsInv), and the actions only   *)
(* have to show that what they put in a slot ends its operation properly   *)
(* (Ends).                                                                 *)
(***************************************************************************)
EXTENDS OperationRegistry, FiniteSetTheorems, SequenceTheorems, TLAPS

(* A slot counts one cleanup run and one driver cancellation at most, and  *)
(* neither before its operation has ended.                                 *)
CountsSound(slot) ==
  /\ slot.ran \in {0, 1}
  /\ slot.cancels \in {0, 1}
  /\ IsPending(slot) => slot.ran = 0 /\ slot.cancels = 0
  /\ slot.status = Completed => slot.cancels = 0
  /\ slot.status \in {Cancelled(r) : r \in Reasons} => slot.cancels = 1

SlotSound(s, slot) ==
  IF IsOccupied(slot)
  THEN slot.id = <<opTag, s, slot.gen>> /\ slot.id \in issued /\ CountsSound(slot)
  ELSE slot = VacantSlot(slot.gen)

SlotsSound == \A s \in DOMAIN opSlots : SlotSound(s, opSlots[s])

(* Whatever was issued lies in the past of its slot.                       *)
IssuedBehind ==
  \A id \in issued : id[1] = opTag /\ id[2] \in DOMAIN opSlots /\ id[3] <= opSlots[id[2]].gen

FreshIds == \A s \in Range(opFree) : <<opTag, s, opSlots[s].gen>> \notin issued

WorkersHeld == \A id \in opRunning : id[2] \in DOMAIN opSlots /\ opSlots[id[2]].id = id

HooksOwed ==
  \A id \in owed : /\ id[2] \in DOMAIN opSlots
                   /\ opSlots[id[2]].id = id
                   /\ IsPending(opSlots[id[2]])
                   /\ opSlots[id[2]].cleanup

RegistryInv ==
  /\ RegistryTypeOK
  /\ FreeListExact
  /\ SlotsSound
  /\ IssuedBehind
  /\ FreshIds
  /\ WorkersHeld
  /\ HooksOwed
------------------------------------------------------------------------------
(* The statuses are told apart, and every terminal one is a status.        *)
LEMMA StatusFacts ==
  /\ Pending \notin Terminals /\ Vacant \notin Terminals /\ Pending # Vacant
  /\ Terminals \subseteq Statuses /\ Pending \in Statuses /\ Vacant \in Statuses
  /\ Completed \in Terminals /\ Completed # Pending /\ Completed # Vacant
  /\ \A w \in Causes : Failed(w) \in Terminals /\ Failed(w) # Completed
  /\ \A r \in Reasons : Cancelled(r) \in Terminals /\ Cancelled(r) # Completed
  /\ Completed \notin {Cancelled(r) : r \in Reasons}
  /\ \A w \in Causes : Failed(w) \notin {Cancelled(r) : r \in Reasons}
BY DEF Pending, Vacant, Completed, Cancelled, Failed, Terminals, Statuses

(* The components of a slot and of an id.                                  *)
LEMMA SlotParts ==
  ASSUME NEW slot \in SlotRecord
  PROVE  slot.gen \in Nat /\ slot.gen \in 1..MaxGeneration
BY RegistryConstants DEF SlotRecord

LEMMA IdParts ==
  ASSUME NEW id \in Ids
  PROVE  /\ id[1] \in 1..MaxTag /\ id[2] \in Slot /\ id[3] \in 1..MaxGeneration
         /\ id[3] \in Nat /\ id[2] \in Nat
         /\ id = <<id[1], id[2], id[3]>> /\ id # NoId
BY RegistryConstants DEF Ids, Slot, NoId

(* new is old with its operation ended: the terminal status is installed,  *)
(* and the hook, if there was one, has run.                                *)
Ends(old, new) ==
  /\ IsPending(old)
  /\ new \in SlotRecord
  /\ IsTerminal(new)
  /\ new.gen = old.gen
  /\ new.id = old.id
  /\ CountsSound(new)
  /\ old.cleanup => new.ran > 0

(* finish_terminal ends the operation, whatever the hook answers.          *)
LEMMA FinishedEnds ==
  ASSUME NEW slot \in SlotRecord, IsPending(slot),
         slot.ran = 0, slot.cancels \in {0, 1},
         NEW status \in Terminals, NEW dirty \in BOOLEAN,
         status = Completed => slot.cancels = 0,
         status \in {Cancelled(r) : r \in Reasons} => slot.cancels = 1
  PROVE  Ends(slot, Finished(slot, status, dirty))
<1> DEFINE new == Finished(slot, status, dirty)
<1>1. Failed("Cleanup") \in Terminals /\ Failed("Cleanup") # Completed
      /\ Failed("Cleanup") \notin {Cancelled(r) : r \in Reasons}
  BY StatusFacts DEF Causes
<1>2. new \in SlotRecord
  <2>1. PICK st \in Statuses, n \in Nat :
           new = [slot EXCEPT !.status = st, !.ran = n, !.cleanup = FALSE]
    <3>1. slot.ran \in Nat
      BY DEF SlotRecord
    <3>2. (IF slot.cleanup /\ dirty THEN Failed("Cleanup") ELSE status) \in Statuses
      BY <1>1, StatusFacts
    <3>3. (IF slot.cleanup THEN slot.ran + 1 ELSE slot.ran) \in Nat
      BY <3>1
    <3> QED
      BY <3>2, <3>3, ZenonT(30) DEF Finished
  <2> HIDE DEF new
  <2> QED
    BY <2>1, ZenonT(30) DEF SlotRecord
<1>3. /\ new.status \in {status, Failed("Cleanup")}
      /\ new.gen = slot.gen /\ new.id = slot.id /\ new.cancels = slot.cancels
      /\ new.ran \in {0, 1}
      /\ slot.cleanup => new.ran > 0
  BY DEF Finished, SlotRecord
<1>4. IsTerminal(new) /\ ~IsPending(new)
  BY <1>1, <1>3, StatusFacts DEF IsTerminal, IsPending
<1>5. CountsSound(new)
  BY <1>1, <1>3, <1>4 DEF CountsSound
<1> QED
  BY <1>2, <1>3, <1>4, <1>5 DEF Ends

(* cancel_with_wait ends the operation, whatever the driver and the hook   *)
(* answer.                                                                 *)
LEMMA CancelledEnds ==
  ASSUME NEW slot \in SlotRecord, IsPending(slot), CountsSound(slot),
         NEW reason \in Reasons, NEW bad \in BOOLEAN, NEW dirty \in BOOLEAN
  PROVE  Ends(slot, CancelledSlot(slot, reason, bad, dirty))
<1> DEFINE asked == [slot EXCEPT !.cancels = @ + 1]
<1>1. slot.ran = 0 /\ slot.cancels = 0
  BY DEF CountsSound
<1>2. asked \in SlotRecord /\ asked.cancels = 1 /\ asked.ran = 0
      /\ asked.status = slot.status /\ asked.gen = slot.gen
      /\ asked.id = slot.id /\ asked.cleanup = slot.cleanup
  BY <1>1 DEF SlotRecord
<1>3. IsPending(asked)
  BY <1>2 DEF IsPending
<1>4. Ends(asked, Finished(asked, Failed("Driver"), FALSE))
  <2>1. Failed("Driver") \in Terminals /\ Failed("Driver") # Completed
    BY StatusFacts DEF Causes
  <2> HIDE DEF asked
  <2> QED
    BY <1>2, <1>3, <2>1, FinishedEnds, ZenonT(30)
<1>5. Ends(asked, Finished(asked, Cancelled(reason), dirty))
  <2>1. Cancelled(reason) \in Terminals /\ Cancelled(reason) # Completed
    BY StatusFacts
  <2> HIDE DEF asked
  <2> QED
    BY <1>2, <1>3, <2>1, FinishedEnds
<1>6. \A new : Ends(asked, new) => Ends(slot, new)
  BY <1>2 DEF Ends
<1> QED
  BY <1>4, <1>5, <1>6, ZenonT(30) DEF CancelledSlot
------------------------------------------------------------------------------
(* What release_slot leaves behind is a well-formed vacant slot.           *)
LEMMA ReleasedSlotType ==
  ASSUME NEW slot \in SlotRecord
  PROVE  /\ ReleasedSlot(slot) \in SlotRecord
         /\ ~IsOccupied(ReleasedSlot(slot))
         /\ ReleasedSlot(slot) = VacantSlot(ReleasedSlot(slot).gen)
         /\ Recyclable(slot) => ReleasedSlot(slot).gen = slot.gen + 1
         /\ ~Recyclable(slot) => ReleasedSlot(slot).gen = MaxGeneration /\ slot.gen = MaxGeneration
         /\ ReleasedSlot(slot).gen >= slot.gen
<1>1. slot.gen \in 1..MaxGeneration
  BY DEF SlotRecord
<1>2. PICK g \in 1..MaxGeneration :
         /\ ReleasedSlot(slot) = VacantSlot(g)
         /\ Recyclable(slot) => g = slot.gen + 1
         /\ ~Recyclable(slot) => g = MaxGeneration /\ slot.gen = MaxGeneration
  BY <1>1, RegistryConstants DEF ReleasedSlot, Recyclable
<1>3. VacantSlot(g) \in SlotRecord /\ VacantSlot(g).gen = g /\ VacantSlot(g).status = Vacant
  BY StatusFacts DEF VacantSlot, SlotRecord
<1> QED
  BY <1>1, <1>2, <1>3 DEF IsOccupied

(* The free list after a batch of releases.                                *)
LEMMA RecycledOrder ==
  ASSUME NEW n \in Nat, NEW sl, NEW Q \in SUBSET (1..n), NEW order \in Recycled(sl, Q)
  PROVE  /\ order \in Seq({s \in Q : Recyclable(sl[s])})
         /\ IsInjective(order)
         /\ Range(order) = {s \in Q : Recyclable(sl[s])}
<1> DEFINE R == {s \in Q : Recyclable(sl[s])}
<1>1. Cardinality(R) \in Nat
  <2>1. IsFiniteSet(1..n)
    BY FS_Interval
  <2>2. R \in SUBSET (1..n)
    BY ZenonT(30)
  <2> QED
    BY <2>1, <2>2, FS_Subset, FS_CardinalityType
<1>2. order \in Bijection(1..Cardinality(R), R)
  BY DEF Recycled, Ascending, Orders
<1> HIDE DEF R
<1>3. order \in [1..Cardinality(R) -> R] /\ IsInjective(order)
      /\ \A r \in R : \E i \in 1..Cardinality(R) : order[i] = r
  BY <1>2 DEF Bijection, Injection, Surjection, IsInjective
<1>4. order \in Seq(R)
  BY <1>1, <1>3
<1>5. Range(order) = R
  BY <1>3 DEF Range
<1> QED
  BY <1>3, <1>4, <1>5 DEF R
(* The heart of the argument: a step that ends some operations properly    *)
(* and releases only slots whose operation is terminal and whose worker    *)
(* has stopped preserves the invariant.                                    *)
LEMMA ConsumeKeepsInv ==
  ASSUME RegistryInv, NEW Q \in SUBSET (DOMAIN opSlots),
         NEW sl \in Seq(SlotRecord), Len(sl) = Len(opSlots),
         \A s \in DOMAIN opSlots : sl[s] = opSlots[s] \/ Ends(opSlots[s], sl[s]),
         \A s \in Q : IsTerminal(sl[s]) /\ sl[s].id \notin opRunning',
         opRunning' \subseteq opRunning,
         Consume(sl, Q)
  PROVE  RegistryInv'
<1> DEFINE n == Len(opSlots)
           R == {s \in Q : Recyclable(sl[s])}
<1> USE DEF RegistryInv
<1>1. /\ n \in Nat /\ n <= MaxSlots /\ DOMAIN opSlots = 1..n /\ DOMAIN sl = 1..n
      /\ \A s \in 1..n : opSlots[s] \in SlotRecord /\ sl[s] \in SlotRecord
  BY LenProperties, ElementOfSeq DEF RegistryTypeOK
<1>2. /\ opSlots' \in Seq(SlotRecord) /\ Len(opSlots') = n /\ DOMAIN opSlots' = 1..n
      /\ \A s \in 1..n : opSlots'[s] = IF s \in Q THEN ReleasedSlot(sl[s]) ELSE sl[s]
  <2>1. opSlots' = [s \in 1..n |-> IF s \in Q THEN ReleasedSlot(sl[s]) ELSE sl[s]]
    BY <1>1 DEF Consume, ReleasedAll
  <2>2. \A s \in 1..n : (IF s \in Q THEN ReleasedSlot(sl[s]) ELSE sl[s]) \in SlotRecord
    BY <1>1, ReleasedSlotType
  <2>3. opSlots' \in [1..n -> SlotRecord]
    BY <2>1, <2>2
  <2> QED
    BY <1>1, <2>1, <2>3
<1>3. \A s \in 1..n : /\ sl[s].gen = opSlots[s].gen
                      /\ sl[s].id = opSlots[s].id
                      /\ IsOccupied(sl[s]) <=> IsOccupied(opSlots[s])
                      /\ IsPending(sl[s]) => sl[s] = opSlots[s]
  BY <1>1, StatusFacts DEF Ends, IsOccupied, IsPending, IsTerminal
<1>16. \A s \in 1..n : /\ opSlots[s].gen \in Nat /\ opSlots'[s].gen \in Nat
                       /\ s \notin Q => opSlots'[s].gen = opSlots[s].gen
                       /\ s \in R => opSlots'[s].gen = opSlots[s].gen + 1
                       /\ opSlots'[s].gen >= opSlots[s].gen
  <2> SUFFICES ASSUME NEW s \in 1..n
               PROVE  /\ opSlots[s].gen \in Nat /\ opSlots'[s].gen \in Nat
                      /\ s \notin Q => opSlots'[s].gen = opSlots[s].gen
                      /\ s \in R => opSlots'[s].gen = opSlots[s].gen + 1
                      /\ opSlots'[s].gen >= opSlots[s].gen
    OBVIOUS
  <2>1. opSlots'[s] \in SlotRecord
    BY <1>2, ElementOfSeq
  <2>2. opSlots[s].gen \in Nat /\ opSlots'[s].gen \in Nat
    BY <1>1, <2>1, SlotParts
  <2>3. CASE s \in Q
    <3>1. opSlots'[s] = ReleasedSlot(sl[s]) /\ sl[s].gen = opSlots[s].gen /\ sl[s] \in SlotRecord
      BY <1>1, <1>2, <1>3, <2>3
    <3> QED
      BY <2>2, <2>3, <3>1, ReleasedSlotType
  <2>4. CASE s \notin Q
    BY <1>2, <1>3, <2>2, <2>4
  <2> QED
    BY <2>2, <2>3, <2>4
<1>4. PICK order \in Recycled(sl, Q) : opFree' = opFree \o order
  BY ZenonT(30) DEF Consume
<1>5. order \in Seq(R) /\ IsInjective(order) /\ Range(order) = R
  BY <1>1, RecycledOrder, ZenonT(30)
<1>6. /\ opTag' = opTag /\ opSealed' = opSealed /\ issued' = issued
      /\ owed' = owed \ Cleaned(sl)
  BY DEF Consume
<1>7. \A s \in Q : IsOccupied(opSlots[s]) /\ IsOccupied(sl[s]) /\ ~IsOccupied(opSlots'[s])
  BY <1>1, <1>2, <1>3, ReleasedSlotType, StatusFacts DEF IsOccupied, IsTerminal
<1>8. RegistryTypeOK'
  <2>1. order \in Seq(Slot)
    <3>1. R \subseteq Slot
      BY <1>1, RegistryConstants DEF Slot
    <3> QED
      BY <1>5, <3>1, SeqMonotonic
  <2>2. opFree' \in Seq(Slot)
    BY <1>4, <2>1, ConcatProperties DEF RegistryTypeOK
  <2> QED
    BY <1>1, <1>2, <1>6, <2>2 DEF RegistryTypeOK
<1> HIDE DEF n, R
<1>9. Range(opFree') = Range(opFree) \cup R /\ IsInjective(opFree')
  <2>1. opFree \in Seq(Slot) /\ order \in Seq(Slot)
    <3>1. R \subseteq Slot
      BY <1>1, RegistryConstants DEF Slot, R, n
    <3> QED
      BY <1>5, <3>1, SeqMonotonic DEF RegistryTypeOK
  <2>2. \A i \in DOMAIN opFree : opFree[i] \notin R
    BY <1>7 DEF FreeListExact, R
  <2>3. \A i \in DOMAIN order : order[i] \in R
    BY <1>5 DEF Range
  <2>4. /\ DOMAIN opFree = 1..Len(opFree) /\ DOMAIN order = 1..Len(order)
        /\ Len(opFree) \in Nat /\ Len(order) \in Nat
        /\ DOMAIN opFree' = 1..(Len(opFree) + Len(order))
        /\ \A i \in 1..(Len(opFree) + Len(order)) :
              opFree'[i] = IF i <= Len(opFree) THEN opFree[i] ELSE order[i - Len(opFree)]
    BY <1>4, <2>1, ConcatProperties, LenProperties
  <2>5. IsInjective(opFree')
    <3> SUFFICES ASSUME NEW a \in DOMAIN opFree', NEW b \in DOMAIN opFree',
                        opFree'[a] = opFree'[b]
                 PROVE  a = b
      BY DEF IsInjective
    <3>1. CASE a <= Len(opFree) /\ b <= Len(opFree)
      BY <2>4, <3>1 DEF FreeListExact, IsInjective
    <3>2. CASE a > Len(opFree) /\ b > Len(opFree)
      <4>1. a - Len(opFree) \in DOMAIN order /\ b - Len(opFree) \in DOMAIN order
        BY <2>4, <3>2
      <4>2. order[a - Len(opFree)] = order[b - Len(opFree)]
        BY <2>4, <3>2
      <4>3. a - Len(opFree) = b - Len(opFree)
        BY <1>5, <4>1, <4>2 DEF IsInjective
      <4> QED
        BY <2>4, <4>3
    <3>3. CASE a <= Len(opFree) /\ b > Len(opFree)
      <4>1. a \in DOMAIN opFree /\ b - Len(opFree) \in DOMAIN order
            /\ opFree[a] = order[b - Len(opFree)]
        BY <2>4, <3>3
      <4> QED
        BY <2>2, <2>3, <4>1
    <3>4. CASE a > Len(opFree) /\ b <= Len(opFree)
      <4>1. b \in DOMAIN opFree /\ a - Len(opFree) \in DOMAIN order
            /\ opFree[b] = order[a - Len(opFree)]
        BY <2>4, <3>4
      <4> QED
        BY <2>2, <2>3, <4>1
    <3> QED
      BY <2>4, <3>1, <3>2, <3>3, <3>4
  <2>6. \A x : x \in Range(opFree') <=> x \in Range(opFree) \/ x \in Range(order)
    <3>1. ASSUME NEW i \in DOMAIN opFree PROVE opFree[i] \in Range(opFree')
      <4>1. i \in DOMAIN opFree' /\ opFree'[i] = opFree[i]
        BY <2>4
      <4> QED
        BY <4>1 DEF Range
    <3>2. ASSUME NEW i \in DOMAIN order PROVE order[i] \in Range(opFree')
      <4>1. i + Len(opFree) \in DOMAIN opFree' /\ opFree'[i + Len(opFree)] = order[i]
        BY <2>4
      <4> QED
        BY <4>1 DEF Range
    <3>3. ASSUME NEW i \in DOMAIN opFree'
          PROVE  opFree'[i] \in Range(opFree) \/ opFree'[i] \in Range(order)
      <4>1. CASE i <= Len(opFree)
        BY <2>4, <4>1 DEF Range
      <4>2. CASE i > Len(opFree)
        <5>1. i - Len(opFree) \in DOMAIN order /\ opFree'[i] = order[i - Len(opFree)]
          BY <2>4, <4>2
        <5> QED
          BY <5>1 DEF Range
      <4> QED
        BY <2>4, <4>1, <4>2
    <3> QED
      BY <3>1, <3>2, <3>3 DEF Range
  <2> QED
    BY <1>5, <2>5, <2>6
<1>10. FreeListExact'
  <2>1. \A s \in Range(opFree) : s \in 1..n /\ s \notin Q /\ ~IsOccupied(opSlots'[s])
    <3>1. \A s \in Range(opFree) : s \in 1..n /\ ~IsOccupied(opSlots[s])
      BY <1>1 DEF FreeListExact, Range
    <3> QED
      BY <1>2, <1>3, <1>7, <3>1
  <2>2. \A s \in R : s \in 1..n /\ ~IsOccupied(opSlots'[s])
    BY <1>1, <1>7 DEF R
  <2>3. \A s \in Range(opFree') : s \in 1..n /\ ~IsOccupied(opSlots'[s])
    BY <1>9, <2>1, <2>2
  <2>4. ASSUME NEW s \in 1..n, ~IsOccupied(opSlots'[s]), s \notin Range(opFree')
        PROVE  <<opTag, s, MaxGeneration>> \in issued
    <3>1. CASE s \in Q
      <4>1. ~Recyclable(sl[s])
        BY <1>9, <2>4, <3>1 DEF R
      <4>2. sl[s].gen = MaxGeneration
        BY <1>1, <3>1, <4>1, ReleasedSlotType
      <4>3. opSlots[s].gen = MaxGeneration
        BY <1>1, <4>2 DEF Ends
      <4>4. SlotSound(s, opSlots[s]) /\ IsOccupied(opSlots[s])
        BY <1>1, <1>7, <3>1 DEF SlotsSound
      <4> QED
        BY <4>3, <4>4 DEF SlotSound
    <3>2. CASE s \notin Q
      <4>1. ~IsOccupied(opSlots[s])
        BY <1>1, <1>2, <1>3, <2>4, <3>2
      <4> QED
        BY <1>1, <1>9, <2>4, <4>1 DEF FreeListExact
    <3> QED
      BY <3>1, <3>2
  <2>5. \A i \in DOMAIN opFree' : opFree'[i] \in Range(opFree')
    BY DEF Range
  <2> QED
    BY <1>2, <1>6, <1>9, <2>3, <2>4, <2>5 DEF FreeListExact
<1>11. SlotsSound'
  <2> SUFFICES ASSUME NEW s \in 1..n
               PROVE  SlotSound(s, opSlots[s])'
    BY <1>2 DEF SlotsSound
  <2>1. SlotSound(s, opSlots[s])
    BY <1>1 DEF SlotsSound
  <2>2. CASE s \in Q
    BY <1>1, <1>2, <1>7, <2>2, ReleasedSlotType DEF SlotSound
  <2>3. CASE s \notin Q /\ sl[s] = opSlots[s]
    BY <1>2, <1>6, <2>1, <2>3 DEF SlotSound
  <2>4. CASE s \notin Q /\ Ends(opSlots[s], sl[s])
    BY <1>2, <1>3, <1>6, <2>1, <2>4, StatusFacts, SMTT(30) DEF SlotSound, Ends, IsOccupied, IsPending, IsTerminal
  <2> QED
    BY <1>1, <2>2, <2>3, <2>4
<1>12. IssuedBehind'
  <2> SUFFICES ASSUME NEW id \in issued
               PROVE  id[1] = opTag /\ id[2] \in 1..n /\ id[3] <= opSlots'[id[2]].gen
    BY <1>2, <1>6 DEF IssuedBehind
  <2>1. id[1] = opTag /\ id[2] \in 1..n /\ id[3] <= opSlots[id[2]].gen
    BY <1>1 DEF IssuedBehind
  <2>2. opSlots[id[2]].gen \in Nat /\ opSlots'[id[2]].gen \in Nat /\ id[3] \in Nat
    <3>1. id \in Ids
      BY DEF RegistryTypeOK
    <3> QED
      BY <1>16, <2>1, <3>1, IdParts
  <2>3. opSlots'[id[2]].gen >= opSlots[id[2]].gen
    BY <1>16, <2>1
  <2> QED
    BY <2>1, <2>2, <2>3, SMTT(30)
<1>13. FreshIds'
  <2> SUFFICES ASSUME NEW s \in Range(opFree) \cup R
               PROVE  <<opTag, s, opSlots'[s].gen>> \notin issued
    BY <1>6, <1>9 DEF FreshIds
  <2>1. CASE s \in R
    <3>1. s \in 1..n /\ opSlots'[s].gen = opSlots[s].gen + 1 /\ opSlots[s].gen \in Nat
      BY <1>1, <1>16, <2>1 DEF R
    <3> QED
      BY <3>1 DEF IssuedBehind
  <2>2. CASE s \in Range(opFree)
    <3>1. s \in 1..n /\ s \notin Q
      BY <1>1, <1>7, <2>2 DEF FreeListExact, Range
    <3> QED
      BY <1>2, <1>3, <2>2, <3>1 DEF FreshIds
  <2> QED
    BY <2>1, <2>2
<1>14. WorkersHeld'
  BY <1>1, <1>2, <1>3 DEF WorkersHeld
<1>15. HooksOwed'
  <2> SUFFICES ASSUME NEW id \in owed, id \notin Cleaned(sl)
               PROVE  /\ id[2] \in 1..n
                      /\ opSlots'[id[2]].id = id
                      /\ IsPending(opSlots'[id[2]])
                      /\ opSlots'[id[2]].cleanup
    BY <1>2, <1>6 DEF HooksOwed
  <2>1. id[2] \in 1..n /\ opSlots[id[2]].id = id /\ IsPending(opSlots[id[2]]) /\ opSlots[id[2]].cleanup
    BY <1>1 DEF HooksOwed
  <2>2. ~Ends(opSlots[id[2]], sl[id[2]])
    <3> SUFFICES ASSUME Ends(opSlots[id[2]], sl[id[2]])
                 PROVE  FALSE
      OBVIOUS
    <3>1. sl[id[2]].ran > 0 /\ sl[id[2]].id = id
      BY <2>1 DEF Ends
    <3> QED
      BY <1>1, <2>1, <3>1 DEF Cleaned
  <2>3. sl[id[2]] = opSlots[id[2]]
    BY <1>1, <2>1, <2>2
  <2>4. id[2] \notin Q
    BY <2>1, <2>3, StatusFacts DEF IsPending, IsTerminal
  <2> QED
    BY <1>2, <2>1, <2>3, <2>4
<1> QED
  BY <1>8, <1>10, <1>11, <1>12, <1>13, <1>14, <1>15
------------------------------------------------------------------------------
(* An id that passes location names the occupant of its slot.              *)
LEMMA LocationOk ==
  ASSUME RegistryInv, NEW id \in issued, Location(id) = "Ok"
  PROVE  /\ id[2] \in DOMAIN opSlots
         /\ opSlots[id[2]] \in SlotRecord
         /\ opSlots[id[2]].id = id
         /\ CountsSound(opSlots[id[2]])
<1>1. id \in Ids /\ id[1] = opTag /\ id[2] \in DOMAIN opSlots
  BY DEF RegistryInv, RegistryTypeOK, IssuedBehind
<1>2. opSlots[id[2]] \in SlotRecord
  BY <1>1, LenProperties, ElementOfSeq DEF RegistryInv, RegistryTypeOK
<1>3. id[3] = opSlots[id[2]].gen /\ IsOccupied(opSlots[id[2]])
  BY <1>1, <1>2, IdParts, SlotParts DEF Location
<1>4. SlotSound(id[2], opSlots[id[2]])
  BY <1>1 DEF RegistryInv, SlotsSound
<1> QED
  BY <1>1, <1>2, <1>3, <1>4, IdParts DEF SlotSound

(* Ending, or keeping, the operation of one slot gives an arena fit for    *)
(* Consume.                                                                *)
LEMMA OneSlotEnds ==
  ASSUME RegistryInv, NEW s \in DOMAIN opSlots, NEW slot,
         slot = opSlots[s] \/ Ends(opSlots[s], slot)
  PROVE  /\ [opSlots EXCEPT ![s] = slot] \in Seq(SlotRecord)
         /\ Len([opSlots EXCEPT ![s] = slot]) = Len(opSlots)
         /\ [opSlots EXCEPT ![s] = slot][s] = slot
         /\ \A t \in DOMAIN opSlots :
              \/ [opSlots EXCEPT ![s] = slot][t] = opSlots[t]
              \/ Ends(opSlots[t], [opSlots EXCEPT ![s] = slot][t])
<1>1. opSlots \in Seq(SlotRecord) /\ DOMAIN opSlots = 1..Len(opSlots)
  BY LenProperties DEF RegistryInv, RegistryTypeOK
<1>2. slot \in SlotRecord
  BY <1>1, ElementOfSeq DEF Ends
<1> QED
  BY <1>1, <1>2, ExceptSeq

(* Settle, Install and the release of one terminal slot keep the invariant. *)
LEMMA SettleKeepsInv ==
  ASSUME RegistryInv, NEW s \in DOMAIN opSlots, NEW slot,
         \/ slot = opSlots[s] /\ IsTerminal(slot)
         \/ Ends(opSlots[s], slot),
         Settle(s, slot) \/ Install(s, slot)
  PROVE  RegistryInv'
<1> DEFINE sl == [opSlots EXCEPT ![s] = slot]
<1>1. IsTerminal(slot)
  BY DEF Ends
<1>2. /\ sl \in Seq(SlotRecord) /\ Len(sl) = Len(opSlots) /\ sl[s] = slot
      /\ \A t \in DOMAIN opSlots : sl[t] = opSlots[t] \/ Ends(opSlots[t], sl[t])
  BY OneSlotEnds
<1>3. PICK Q \in {{}, {s}} : /\ Consume(sl, Q) /\ opRunning' = opRunning
                             /\ Q # {} => slot.id \notin opRunning
  BY DEF Settle, Install, IsQuiescent
<1> HIDE DEF sl
<1>4. \A t \in Q : IsTerminal(sl[t]) /\ sl[t].id \notin opRunning'
  BY <1>1, <1>2, <1>3
<1>5. Q \in SUBSET (DOMAIN opSlots)
  BY <1>3
<1> QED
  BY <1>2, <1>3, <1>4, <1>5, ConsumeKeepsInv

(* A release of terminal slots whose workers have stopped.                 *)
LEMMA ReleaseKeepsInv ==
  ASSUME RegistryInv, NEW Q, Q \subseteq Drainable(opSlots, opRunning),
         Consume(opSlots, Q), opRunning' = opRunning
  PROVE  RegistryInv'
<1>1. opSlots \in Seq(SlotRecord)
  BY DEF RegistryInv, RegistryTypeOK
<1>2. Q \in SUBSET (DOMAIN opSlots) /\ \A s \in Q : IsTerminal(opSlots[s]) /\ opSlots[s].id \notin opRunning'
  BY DEF Drainable, IsQuiescent
<1> QED
  BY <1>1, <1>2, ConsumeKeepsInv

(* cancel_all and cancel_all_and_wait end every pending operation.         *)
LEMMA CancelledAllEnds ==
  ASSUME RegistryInv, NEW reason \in Reasons, NEW bad, NEW dirty
  PROVE  /\ CancelledAll(opSlots, reason, bad, dirty) \in Seq(SlotRecord)
         /\ Len(CancelledAll(opSlots, reason, bad, dirty)) = Len(opSlots)
         /\ \A s \in DOMAIN opSlots :
              IF IsPending(opSlots[s])
              THEN Ends(opSlots[s], CancelledAll(opSlots, reason, bad, dirty)[s])
              ELSE CancelledAll(opSlots, reason, bad, dirty)[s] = opSlots[s]
<1> DEFINE n  == Len(opSlots)
           sl == CancelledAll(opSlots, reason, bad, dirty)
           C(s) == CancelledSlot(opSlots[s], reason, s \in bad, s \in dirty)
<1>1. /\ n \in Nat /\ DOMAIN opSlots = 1..n
      /\ \A s \in 1..n : opSlots[s] \in SlotRecord
  BY LenProperties, ElementOfSeq DEF RegistryInv, RegistryTypeOK
<1>2. sl = [s \in 1..n |-> IF IsPending(opSlots[s]) THEN C(s) ELSE opSlots[s]]
  BY <1>1 DEF CancelledAll
<1>3. ASSUME NEW s \in 1..n, IsPending(opSlots[s])
      PROVE  Ends(opSlots[s], C(s))
  <2>1. CountsSound(opSlots[s])
    BY <1>1, <1>3, StatusFacts DEF RegistryInv, SlotsSound, SlotSound, IsOccupied, IsPending
  <2>2. (s \in bad) \in BOOLEAN /\ (s \in dirty) \in BOOLEAN
    OBVIOUS
  <2> QED
    BY <1>1, <1>3, <2>1, <2>2, CancelledEnds, ZenonT(30)
<1> HIDE DEF C, n
<1>4. sl \in [1..n -> SlotRecord]
  BY <1>1, <1>2, <1>3 DEF Ends
<1> HIDE DEF sl
<1>5. sl \in Seq(SlotRecord) /\ Len(sl) = n
  BY <1>1, <1>4
<1>6. \A s \in 1..n : IF IsPending(opSlots[s]) THEN Ends(opSlots[s], sl[s]) ELSE sl[s] = opSlots[s]
  BY <1>2, <1>3
<1> QED
  BY <1>1, <1>5, <1>6 DEF sl, n
------------------------------------------------------------------------------
(* What start installs is a sound pending slot.                            *)
LEMMA StartedSlotType ==
  ASSUME NEW g \in 1..MaxGeneration, NEW id \in Ids,
         NEW due \in {"none", "armed"}, NEW cleanup \in BOOLEAN
  PROVE  LET slot == StartedSlot(g, id, due, cleanup) IN
         /\ slot \in SlotRecord
         /\ slot.gen = g /\ slot.id = id /\ slot.cleanup = cleanup
         /\ IsPending(slot) /\ IsOccupied(slot) /\ CountsSound(slot)
<1> DEFINE slot == StartedSlot(g, id, due, cleanup)
<1>1. /\ slot.gen = g /\ slot.id = id /\ slot.cleanup = cleanup /\ slot.status = Pending
      /\ slot.ran = 0 /\ slot.cancels = 0
  BY DEF StartedSlot
<1>2. slot \in SlotRecord
  BY StatusFacts DEF StartedSlot, SlotRecord
<1>3. Pending # Vacant /\ Pending # Completed /\ Pending \notin {Cancelled(r) : r \in Reasons}
  BY StatusFacts DEF Pending, Cancelled
<1> HIDE DEF slot
<1>4. IsPending(slot) /\ IsOccupied(slot) /\ CountsSound(slot)
  BY <1>1, <1>3 DEF IsPending, IsOccupied, CountsSound
<1> QED
  BY <1>1, <1>2, <1>4 DEF slot

(* start with a recycled slot.                                             *)
LEMMA StartRecycledKeepsInv ==
  ASSUME RegistryInv, NEW due \in {"none", "armed"}, NEW cleanup \in BOOLEAN,
         Start(due, cleanup), opFree # <<>>
  PROVE  RegistryInv'
<1> DEFINE n  == Len(opSlots)
           m  == Len(opFree)
           s  == opFree[m]
           id == <<opTag, s, opSlots[s].gen>>
           slot == StartedSlot(opSlots[s].gen, id, due, cleanup)
<1>1. /\ n \in Nat /\ n <= MaxSlots /\ DOMAIN opSlots = 1..n /\ opSlots \in Seq(SlotRecord)
      /\ \A t \in 1..n : opSlots[t] \in SlotRecord
  BY LenProperties, ElementOfSeq DEF RegistryInv, RegistryTypeOK
<1>2. m \in Nat /\ m > 0 /\ DOMAIN opFree = 1..m /\ opFree \in Seq(Slot)
  BY LenProperties, EmptySeq DEF RegistryInv, RegistryTypeOK
<1>3. s \in 1..n /\ ~IsOccupied(opSlots[s]) /\ s \in Slot /\ s \in Range(opFree)
  <2>1. m \in DOMAIN opFree
    BY <1>2
  <2>2. s \in 1..n /\ ~IsOccupied(opSlots[s])
    BY <1>1, <2>1 DEF RegistryInv, FreeListExact
  <2>3. s \in Slot
    BY <1>2, <2>1, ElementOfSeq
  <2>4. s \in Range(opFree)
    BY <2>1 DEF Range
  <2> QED
    BY <2>2, <2>3, <2>4
<1>19. \A t \in Range(opFree) : t \in 1..n /\ ~IsOccupied(opSlots[t])
  BY <1>1 DEF RegistryInv, FreeListExact, Range
<1>4. id \in Ids /\ id \notin issued /\ opSlots[s].gen \in 1..MaxGeneration
  BY <1>1, <1>3, SlotParts DEF RegistryInv, RegistryTypeOK, FreshIds, Ids
<1>5. /\ slot \in SlotRecord
      /\ slot.gen = opSlots[s].gen /\ slot.id = id /\ slot.cleanup = cleanup
      /\ IsPending(slot) /\ IsOccupied(slot) /\ CountsSound(slot)
  BY <1>4, StartedSlotType, SMTT(30)
<1>6. /\ opSlots' = [opSlots EXCEPT ![s] = slot]
      /\ opFree' = SubSeq(opFree, 1, m - 1)
      /\ issued' = issued \cup {id}
      /\ opRunning' = opRunning \cup {id}
      /\ owed' = IF cleanup THEN owed \cup {id} ELSE owed
      /\ opTag' = opTag /\ opSealed' = opSealed
  BY DEF Start, Issue
<1>7. id[1] = opTag /\ id[2] = s /\ id[3] = opSlots[s].gen
  OBVIOUS
<1> HIDE DEF n, m, s, id, slot
<1>8. /\ opSlots' \in Seq(SlotRecord) /\ Len(opSlots') = n /\ DOMAIN opSlots' = 1..n
      /\ opSlots'[s] = slot
      /\ \A t \in 1..n : t # s => opSlots'[t] = opSlots[t]
  BY <1>1, <1>3, <1>5, <1>6, ExceptSeq, LenProperties DEF n
<1>9. /\ opFree' \in Seq(Slot) /\ DOMAIN opFree' = 1..(m - 1)
      /\ \A i \in 1..(m - 1) : opFree'[i] = opFree[i]
  <2>1. \A i \in 1..(m - 1) : opFree[i] \in Slot
    BY <1>2, ElementOfSeq DEF m
  <2>2. opFree' \in Seq(Slot) /\ Len(opFree') = m - 1 /\ \A i \in 1..(m - 1) : opFree'[i] = opFree[i]
    <3>1. 1 \in Int /\ m - 1 \in Int
      BY <1>2
    <3>2. /\ SubSeq(opFree, 1, m - 1) \in Seq(Slot)
          /\ Len(SubSeq(opFree, 1, m - 1)) = IF 1 <= m - 1 THEN (m - 1) - 1 + 1 ELSE 0
          /\ \A i \in 1..((m - 1) - 1 + 1) : SubSeq(opFree, 1, m - 1)[i] = opFree[1 + i - 1]
      BY <2>1, <3>1, SubSeqProperties
    <3> QED
      BY <1>2, <1>6, <3>2
  <2> QED
    BY <1>2, <2>2, LenProperties
<1>10. Range(opFree) = Range(opFree') \cup {s} /\ s \notin Range(opFree') /\ IsInjective(opFree')
  <2>1. IsInjective(opFree) /\ m \in DOMAIN opFree
    BY <1>2 DEF RegistryInv, FreeListExact
  <2>2. \A i \in 1..(m - 1) : opFree[i] # s
    BY <1>2, <2>1 DEF IsInjective, s
  <2>3. IsInjective(opFree')
    BY <1>2, <1>9, <2>1 DEF IsInjective
  <2>4. s \notin Range(opFree')
    BY <1>9, <2>2 DEF Range
  <2>5. \A i \in DOMAIN opFree : opFree[i] = s \/ opFree[i] \in Range(opFree')
    <3> SUFFICES ASSUME NEW i \in 1..m PROVE opFree[i] = s \/ opFree[i] \in Range(opFree')
      BY <1>2
    <3>1. CASE i = m
      BY <3>1 DEF s
    <3>2. CASE i # m
      <4>1. i \in 1..(m - 1)
        BY <1>2, <3>2
      <4> QED
        BY <1>9, <4>1 DEF Range
    <3> QED
      BY <3>1, <3>2
  <2>6. \A i \in DOMAIN opFree' : opFree'[i] \in Range(opFree)
    BY <1>2, <1>9 DEF Range
  <2> QED
    BY <1>3, <2>3, <2>4, <2>5, <2>6 DEF Range
<1>11. RegistryTypeOK'
  BY <1>1, <1>4, <1>6, <1>8, <1>9 DEF RegistryInv, RegistryTypeOK
<1>12. FreeListExact'
  <2>1. \A t \in Range(opFree') : t \in DOMAIN opSlots' /\ ~IsOccupied(opSlots'[t])
    BY <1>8, <1>10, <1>19
  <2>2. \A t \in DOMAIN opSlots' :
          IsOccupied(opSlots'[t]) \/ t \in Range(opFree') \/ <<opTag, t, MaxGeneration>> \in issued
    BY <1>1, <1>5, <1>8, <1>10 DEF RegistryInv, FreeListExact
  <2>3. \A i \in DOMAIN opFree' : opFree'[i] \in Range(opFree')
    BY DEF Range
  <2> QED
    BY <1>4, <1>6, <1>10, <2>1, <2>2, <2>3, ZenonT(30) DEF FreeListExact
<1>13. SlotsSound'
  <2> SUFFICES ASSUME NEW t \in 1..n PROVE SlotSound(t, opSlots[t])'
    BY <1>8 DEF SlotsSound
  <2>1. CASE t = s
    BY <1>5, <1>6, <1>7, <1>8, <2>1, ZenonT(30) DEF SlotSound, id
  <2>2. CASE t # s
    BY <1>1, <1>6, <1>8, <2>2 DEF RegistryInv, SlotsSound, SlotSound
  <2> QED
    BY <2>1, <2>2
<1>14. IssuedBehind'
  <2> SUFFICES ASSUME NEW x \in issued \cup {id}
               PROVE  x[1] = opTag /\ x[2] \in 1..n /\ x[3] <= opSlots'[x[2]].gen
    BY <1>6, <1>8 DEF IssuedBehind
  <2>1. CASE x = id
    BY <1>3, <1>4, <1>5, <1>7, <1>8, <2>1
  <2>2. CASE x \in issued
    BY <1>1, <1>5, <1>8, <2>2 DEF RegistryInv, IssuedBehind
  <2> QED
    BY <2>1, <2>2
<1>15. FreshIds'
  <2> SUFFICES ASSUME NEW t \in Range(opFree')
               PROVE  <<opTag, t, opSlots'[t].gen>> \notin issued \cup {id}
    BY <1>6 DEF FreshIds
  <2>1. t \in Range(opFree) /\ t # s /\ t \in 1..n
    BY <1>10, <1>19
  <2>2. opSlots'[t] = opSlots[t]
    BY <1>8, <2>1
  <2>3. <<opTag, t, opSlots[t].gen>> # id
    BY <2>1 DEF id
  <2> QED
    BY <2>1, <2>2, <2>3 DEF RegistryInv, FreshIds
<1>16. opSlots[s].id = NoId
  BY <1>1, <1>3 DEF RegistryInv, SlotsSound, SlotSound, VacantSlot
<1>17. WorkersHeld'
  <2>1. \A x \in opRunning : x[2] # s
    BY <1>16, IdParts DEF RegistryInv, RegistryTypeOK, WorkersHeld
  <2> QED
    BY <1>1, <1>3, <1>5, <1>6, <1>7, <1>8, <2>1 DEF RegistryInv, WorkersHeld
<1>18. HooksOwed'
  <2>1. \A x \in owed : x[2] # s
    BY <1>16, IdParts DEF RegistryInv, RegistryTypeOK, HooksOwed
  <2> QED
    BY <1>1, <1>3, <1>5, <1>6, <1>7, <1>8, <2>1 DEF RegistryInv, HooksOwed
<1> QED
  BY <1>11, <1>12, <1>13, <1>14, <1>15, <1>17, <1>18 DEF RegistryInv

(* start with a slot carved out of the arena.                              *)
LEMMA StartFreshKeepsInv ==
  ASSUME RegistryInv, NEW due \in {"none", "armed"}, NEW cleanup \in BOOLEAN,
         Start(due, cleanup), opFree = <<>>
  PROVE  RegistryInv'
<1> DEFINE n  == Len(opSlots)
           id == <<opTag, n + 1, 1>>
           slot == StartedSlot(1, id, due, cleanup)
<1>1. /\ n \in Nat /\ n < MaxSlots /\ DOMAIN opSlots = 1..n /\ opSlots \in Seq(SlotRecord)
      /\ \A t \in 1..n : opSlots[t] \in SlotRecord
  BY LenProperties, ElementOfSeq DEF RegistryInv, RegistryTypeOK, Start
<1>2. id \in Ids /\ 1 \in 1..MaxGeneration /\ n + 1 \in Slot
  BY <1>1, RegistryConstants DEF RegistryInv, RegistryTypeOK, Ids, Slot
<1>3. /\ slot \in SlotRecord
      /\ slot.gen = 1 /\ slot.id = id /\ slot.cleanup = cleanup
      /\ IsPending(slot) /\ IsOccupied(slot) /\ CountsSound(slot)
  BY <1>2, StartedSlotType
<1>4. /\ opSlots' = Append(opSlots, slot)
      /\ opFree' = opFree
      /\ issued' = issued \cup {id}
      /\ opRunning' = opRunning \cup {id}
      /\ owed' = IF cleanup THEN owed \cup {id} ELSE owed
      /\ opTag' = opTag /\ opSealed' = opSealed
  BY DEF Start, Issue
<1>5. id[1] = opTag /\ id[2] = n + 1 /\ id[3] = 1
  OBVIOUS
<1>6. Range(opFree) = {} /\ opFree' = <<>> /\ DOMAIN opFree' = {}
  BY <1>4 DEF Range
<1> HIDE DEF id, slot
<1>7. /\ opSlots' \in Seq(SlotRecord) /\ Len(opSlots') = n + 1 /\ DOMAIN opSlots' = 1..(n + 1)
      /\ opSlots'[n + 1] = slot
      /\ \A t \in 1..n : opSlots'[t] = opSlots[t]
  BY <1>1, <1>3, <1>4, AppendProperties, LenProperties
<1> HIDE DEF n
<1>8. \A t \in 1..(n + 1) : t \in 1..n \/ t = n + 1
  BY <1>1
<1>9. RegistryTypeOK'
  <2>1. n + 1 <= MaxSlots
    BY <1>1, RegistryConstants
  <2> QED
    BY <1>2, <1>4, <1>7, <2>1 DEF RegistryInv, RegistryTypeOK
<1>10. FreeListExact'
  <2>1. IsInjective(opFree')
    BY <1>6 DEF IsInjective
  <2>2. \A t \in 1..(n + 1) : IsOccupied(opSlots'[t]) \/ <<opTag, t, MaxGeneration>> \in issued
    BY <1>1, <1>3, <1>6, <1>7, <1>8 DEF RegistryInv, FreeListExact
  <2> QED
    BY <1>4, <1>6, <1>7, <2>1, <2>2 DEF FreeListExact
<1>11. SlotsSound'
  <2> SUFFICES ASSUME NEW t \in 1..(n + 1) PROVE SlotSound(t, opSlots[t])'
    BY <1>7 DEF SlotsSound
  <2>1. CASE t = n + 1
    BY <1>3, <1>4, <1>7, <2>1, ZenonT(30) DEF SlotSound, id
  <2>2. CASE t \in 1..n
    BY <1>1, <1>4, <1>7, <2>2 DEF RegistryInv, SlotsSound, SlotSound
  <2> QED
    BY <1>8, <2>1, <2>2
<1>12. IssuedBehind'
  <2> SUFFICES ASSUME NEW x \in issued \cup {id}
               PROVE  x[1] = opTag /\ x[2] \in 1..(n + 1) /\ x[3] <= opSlots'[x[2]].gen
    BY <1>4, <1>7 DEF IssuedBehind
  <2>1. CASE x = id
    BY <1>1, <1>3, <1>5, <1>7, <2>1
  <2>2. CASE x \in issued
    <3>1. x[1] = opTag /\ x[2] \in 1..n /\ x[3] <= opSlots[x[2]].gen
      BY <1>1, <2>2 DEF RegistryInv, IssuedBehind
    <3> QED
      BY <1>1, <1>7, <3>1
  <2> QED
    BY <2>1, <2>2
<1>13. FreshIds'
  <2>1. Range(opFree') = {}
    BY <1>6 DEF Range
  <2> QED
    BY <2>1 DEF FreshIds
<1>14. WorkersHeld'
  <2>1. n + 1 \in 1..(n + 1) /\ \A t \in 1..n : t \in 1..(n + 1)
    BY <1>1
  <2> QED
    BY <1>1, <1>3, <1>4, <1>5, <1>7, <2>1 DEF RegistryInv, WorkersHeld
<1>15. HooksOwed'
  <2>1. n + 1 \in 1..(n + 1) /\ \A t \in 1..n : t \in 1..(n + 1)
    BY <1>1
  <2> QED
    BY <1>1, <1>3, <1>4, <1>5, <1>7, <2>1, SMTT(30) DEF RegistryInv, HooksOwed
<1> QED
  BY <1>9, <1>10, <1>11, <1>12, <1>13, <1>14, <1>15 DEF RegistryInv
------------------------------------------------------------------------------
(* poll in its three outcomes, and poll_quiescent.                         *)
LEMMA PollKeepsInv ==
  ASSUME RegistryInv, NEW id \in issued, Poll(id)
  PROVE  RegistryInv'
<1> DEFINE s == id[2]
<1>1. Location(id) = "Ok"
  BY DEF Poll, PollTerminal, PollReady, PollDeadline
<1>2. s \in DOMAIN opSlots /\ opSlots[s] \in SlotRecord /\ CountsSound(opSlots[s])
  BY <1>1, LocationOk
<1>3. CASE PollTerminal(id)
  BY <1>2, <1>3, SettleKeepsInv DEF PollTerminal
<1>4. ASSUME NEW status \in {Completed, Failed("Driver")}, NEW dirty \in BOOLEAN,
             PollReady(id, status, dirty)
      PROVE  RegistryInv'
  <2>1. status \in Terminals /\ status \notin {Cancelled(r) : r \in Reasons}
    BY StatusFacts DEF Causes
  <2>2. IsPending(opSlots[s]) /\ Settle(s, Finished(opSlots[s], status, dirty))
    BY <1>4 DEF PollReady
  <2>3. opSlots[s].ran = 0 /\ opSlots[s].cancels = 0
    BY <1>2, <2>2 DEF CountsSound
  <2>4. Ends(opSlots[s], Finished(opSlots[s], status, dirty))
    BY <1>2, <2>1, <2>2, <2>3, FinishedEnds
  <2> QED
    BY <1>2, <2>2, <2>4, SettleKeepsInv
<1>5. ASSUME NEW bad \in BOOLEAN, NEW dirty \in BOOLEAN, PollDeadline(id, bad, dirty)
      PROVE  RegistryInv'
  <2>1. IsPending(opSlots[s]) /\ Settle(s, CancelledSlot(opSlots[s], "Deadline", bad, dirty))
    BY <1>5 DEF PollDeadline
  <2>2. Ends(opSlots[s], CancelledSlot(opSlots[s], "Deadline", bad, dirty))
    BY <1>2, <2>1, CancelledEnds, RegistryConstants
  <2> QED
    BY <1>2, <2>1, <2>2, SettleKeepsInv
<1> QED
  BY <1>3, <1>4, <1>5 DEF Poll

(* complete and fail.                                                      *)
LEMMA ReportKeepsInv ==
  ASSUME RegistryInv, NEW id \in issued, NEW dirty \in BOOLEAN,
         Complete(id, dirty) \/ Fail(id, dirty)
  PROVE  RegistryInv'
<1> DEFINE s == id[2]
<1>1. PICK status \in {Completed, Failed("Reported")} :
        Location(id) = "Ok" /\ IsPending(opSlots[s]) /\ Install(s, Finished(opSlots[s], status, dirty))
  BY DEF Complete, Fail
<1>2. s \in DOMAIN opSlots /\ opSlots[s] \in SlotRecord /\ CountsSound(opSlots[s])
  BY <1>1, LocationOk
<1>3. status \in Terminals /\ status \notin {Cancelled(r) : r \in Reasons}
  BY StatusFacts DEF Causes
<1>4. opSlots[s].ran = 0 /\ opSlots[s].cancels = 0
  BY <1>1, <1>2 DEF CountsSound
<1>5. Ends(opSlots[s], Finished(opSlots[s], status, dirty))
  BY <1>1, <1>2, <1>3, <1>4, FinishedEnds
<1> QED
  BY <1>1, <1>2, <1>5, SettleKeepsInv

(* cancel, and abort of a pending or a terminal operation.                 *)
LEMMA CancelKeepsInv ==
  ASSUME RegistryInv, NEW id \in issued, NEW reason \in Reasons,
         NEW bad \in BOOLEAN, NEW dirty \in BOOLEAN,
         Cancel(id, reason, bad, dirty) \/ Abort(id, reason, bad, dirty)
  PROVE  RegistryInv'
<1> DEFINE s == id[2]
           slot == CancelledSlot(opSlots[s], reason, bad, dirty)
           sl == [opSlots EXCEPT ![s] = slot]
<1>1. CASE TakeOutcome(id)
  <2>1. {s} \subseteq Drainable(opSlots, opRunning) /\ Consume(opSlots, {s}) /\ opRunning' = opRunning
    BY <1>1 DEF TakeOutcome
  <2> QED
    BY <2>1, ReleaseKeepsInv
<1>2. CASE ~TakeOutcome(id)
  <2>1. /\ Location(id) = "Ok" /\ IsPending(opSlots[s])
        /\ \/ Install(s, slot)
           \/ Consume(sl, {s}) /\ opRunning' = opRunning \ {id}
    BY <1>2 DEF Cancel, Abort
  <2>2. /\ s \in DOMAIN opSlots /\ opSlots[s] \in SlotRecord /\ CountsSound(opSlots[s])
        /\ opSlots[s].id = id
    BY <2>1, LocationOk
  <2>3. Ends(opSlots[s], slot)
    BY <2>1, <2>2, CancelledEnds
  <2> HIDE DEF slot, s
  <2>4. CASE Install(s, slot)
    BY <2>2, <2>3, <2>4, SettleKeepsInv
  <2>5. CASE Consume(sl, {s}) /\ opRunning' = opRunning \ {id}
    <3>1. /\ sl \in Seq(SlotRecord) /\ Len(sl) = Len(opSlots) /\ sl[s] = slot
          /\ \A t \in DOMAIN opSlots : sl[t] = opSlots[t] \/ Ends(opSlots[t], sl[t])
      BY <2>2, <2>3, OneSlotEnds
    <3> HIDE DEF sl
    <3>2. \A t \in {s} : IsTerminal(sl[t]) /\ sl[t].id \notin opRunning'
      BY <2>2, <2>3, <2>5, <3>1 DEF Ends
    <3>3. {s} \in SUBSET (DOMAIN opSlots) /\ opRunning' \subseteq opRunning
      BY <2>2, <2>5
    <3> QED
      BY <2>5, <3>1, <3>2, <3>3, ConsumeKeepsInv
  <2> QED
    BY <2>1, <2>4, <2>5
<1> QED
  BY <1>1, <1>2

(* cancel_all and cancel_all_and_wait.                                     *)
LEMMA CancelAllKeepsInv ==
  ASSUME RegistryInv, NEW reason \in Reasons, NEW bad, NEW dirty,
         CancelAll(reason, bad, dirty) \/ CancelAllAndWait(reason, bad, dirty)
  PROVE  RegistryInv'
<1> DEFINE sl == CancelledAll(opSlots, reason, bad, dirty)
           P  == PendingSlots(opSlots)
<1>1. /\ sl \in Seq(SlotRecord) /\ Len(sl) = Len(opSlots)
      /\ \A s \in DOMAIN opSlots :
           IF IsPending(opSlots[s]) THEN Ends(opSlots[s], sl[s]) ELSE sl[s] = opSlots[s]
  BY CancelledAllEnds
<1>2. \/ Consume(sl, {}) /\ opRunning' = opRunning
      \/ Consume(sl, P) /\ opRunning' = opRunning \ {opSlots[s].id : s \in P}
  BY DEF CancelAll, CancelAllAndWait
<1> HIDE DEF sl
<1>3. \A s \in DOMAIN opSlots : sl[s] = opSlots[s] \/ Ends(opSlots[s], sl[s])
  BY <1>1
<1>4. P \in SUBSET (DOMAIN opSlots) /\ \A s \in P : IsTerminal(sl[s]) /\ sl[s].id = opSlots[s].id
  BY <1>1 DEF PendingSlots, Ends
<1> HIDE DEF P
<1>5. CASE Consume(sl, {}) /\ opRunning' = opRunning
  <2>1. {} \in SUBSET (DOMAIN opSlots) /\ \A s \in {} : IsTerminal(sl[s]) /\ sl[s].id \notin opRunning'
    OBVIOUS
  <2> QED
    BY <1>1, <1>3, <1>5, <2>1, ConsumeKeepsInv
<1>6. CASE Consume(sl, P) /\ opRunning' = opRunning \ {opSlots[s].id : s \in P}
  <2>1. \A s \in P : IsTerminal(sl[s]) /\ sl[s].id \notin opRunning'
    BY <1>4, <1>6
  <2> QED
    BY <1>1, <1>3, <1>4, <1>6, <2>1, ConsumeKeepsInv
<1> QED
  BY <1>2, <1>5, <1>6

(* A worker that stops, and a deadline that elapses.                       *)
LEMMA EnvironmentKeepsInv ==
  ASSUME RegistryInv,
         \/ \E id \in opRunning : WorkerStops(id)
         \/ \E s \in Slot : DeadlineElapses(s)
         \/ Seal
         \/ UNCHANGED opVars
  PROVE  RegistryInv'
<1> USE DEF RegistryInv, RegistryTypeOK, FreeListExact, SlotsSound, SlotSound, IssuedBehind,
            FreshIds, WorkersHeld, HooksOwed
<1>1. CASE UNCHANGED opVars
  BY <1>1, ZenonT(30) DEF opVars
<1>2. CASE Seal
  BY <1>2, ZenonT(30) DEF Seal
<1>3. CASE \E id \in opRunning : WorkerStops(id)
  BY <1>3 DEF WorkerStops
<1>4. ASSUME NEW s \in Slot, DeadlineElapses(s)
      PROVE  RegistryInv'
  <2> DEFINE slot == [opSlots[s] EXCEPT !.due = "elapsed"]
  <2>1. /\ s \in DOMAIN opSlots /\ DOMAIN opSlots = 1..Len(opSlots) /\ opSlots[s] \in SlotRecord
        /\ IsOccupied(opSlots[s])
    BY <1>4, LenProperties, ElementOfSeq DEF DeadlineElapses, OccupiedSlots
  <2>2. /\ slot \in SlotRecord /\ slot.gen = opSlots[s].gen /\ slot.id = opSlots[s].id
        /\ slot.status = opSlots[s].status /\ slot.cleanup = opSlots[s].cleanup
        /\ slot.ran = opSlots[s].ran /\ slot.cancels = opSlots[s].cancels
    BY <2>1, ZenonT(30) DEF SlotRecord
  <2>3. opSlots' = [opSlots EXCEPT ![s] = slot]
    BY <1>4 DEF DeadlineElapses
  <2> HIDE DEF slot
  <2>4. /\ opSlots' \in Seq(SlotRecord) /\ Len(opSlots') = Len(opSlots)
        /\ DOMAIN opSlots' = DOMAIN opSlots
        /\ opSlots'[s] = slot
        /\ \A t \in DOMAIN opSlots : t # s => opSlots'[t] = opSlots[t]
    BY <2>1, <2>2, <2>3, ExceptSeq, LenProperties
  <2>5. \A t \in DOMAIN opSlots :
          /\ opSlots'[t].gen = opSlots[t].gen /\ opSlots'[t].id = opSlots[t].id
          /\ opSlots'[t].cleanup = opSlots[t].cleanup
          /\ IsOccupied(opSlots'[t]) <=> IsOccupied(opSlots[t])
          /\ IsPending(opSlots'[t]) <=> IsPending(opSlots[t])
          /\ CountsSound(opSlots[t]) => CountsSound(opSlots'[t])
          /\ ~IsOccupied(opSlots[t]) => opSlots'[t] = opSlots[t]
    <3> TAKE t \in DOMAIN opSlots
    <3>1. CASE t # s
      <4>1. opSlots'[t] = opSlots[t]
        BY <2>4, <3>1
      <4> QED
        BY <4>1
    <3>2. CASE t = s
      <4>1. opSlots'[t] = slot
        BY <2>4, <3>2
      <4>2. CountsSound(opSlots[s]) => CountsSound(slot)
        BY <2>2 DEF IsPending, CountsSound
      <4>3. (IsOccupied(slot) <=> IsOccupied(opSlots[s])) /\ (IsPending(slot) <=> IsPending(opSlots[s]))
        BY <2>2 DEF IsOccupied, IsPending
      <4> QED
        BY <2>1, <2>2, <3>2, <4>1, <4>2, <4>3
    <3> QED
      BY <3>1, <3>2
  <2>6. /\ opTag' = opTag /\ opFree' = opFree /\ opSealed' = opSealed /\ opRunning' = opRunning
        /\ issued' = issued /\ owed' = owed
    BY <1>4 DEF DeadlineElapses
  <2>7. RegistryTypeOK' /\ FreeListExact'
    BY <2>4, <2>5, <2>6, ZenonT(30)
  <2>8. SlotsSound'
    <3> SUFFICES ASSUME NEW t \in DOMAIN opSlots PROVE SlotSound(t, opSlots[t])'
      BY <2>4
    <3>1. SlotSound(t, opSlots[t])
      OBVIOUS
    <3>2. CASE IsOccupied(opSlots[t])
      BY <2>5, <2>6, <3>1, <3>2, ZenonT(30)
    <3>3. CASE ~IsOccupied(opSlots[t])
      BY <2>5, <2>6, <3>1, <3>3, ZenonT(30)
    <3> QED
      BY <3>2, <3>3, ZenonT(30)
  <2>9. IssuedBehind' /\ WorkersHeld' /\ HooksOwed'
    BY <2>4, <2>5, <2>6, ZenonT(30)
  <2>10. FreshIds'
    <3>1. \A t \in Range(opFree) : t \in DOMAIN opSlots
      BY DEF Range
    <3> QED
      BY <2>5, <2>6, <3>1
  <2> QED
    BY <2>7, <2>8, <2>9, <2>10
<1> QED
  BY <1>1, <1>2, <1>3, <1>4, ZenonT(30)

(* The registry's inductive invariant: the arena, the free list and the    *)
(* bookkeeping of acquire_slot, release_slot, finish_terminal and          *)
(* cancel_with_wait stay consistent through every operation.               *)
THEOREM RegistryInvariant == RegistrySpec => []RegistryInv
<1>1. RegistryInit => RegistryInv
  <2> SUFFICES ASSUME RegistryInit PROVE RegistryInv
    OBVIOUS
  <2>1. opSlots = <<>> /\ opFree = <<>> /\ DOMAIN opSlots = {} /\ DOMAIN opFree = {}
    BY DEF RegistryInit
  <2>2. RegistryTypeOK
    <3>1. opSlots \in Seq(SlotRecord) /\ opFree \in Seq(Slot) /\ Len(opSlots) = 0
      BY <2>1
    <3>2. Len(opSlots) <= MaxSlots
      BY <3>1, RegistryConstants
    <3> QED
      BY <3>1, <3>2, ZenonT(30) DEF RegistryInit, RegistryTypeOK
  <2>3. Range(opFree) = {} /\ IsInjective(opFree)
    BY <2>1 DEF Range, IsInjective
  <2>4. FreeListExact /\ SlotsSound /\ FreshIds
    BY <2>1, <2>3 DEF FreeListExact, SlotsSound, FreshIds
  <2>5. IssuedBehind /\ WorkersHeld /\ HooksOwed
    BY DEF RegistryInit, IssuedBehind, WorkersHeld, HooksOwed
  <2> QED
    BY <2>2, <2>4, <2>5 DEF RegistryInv
<1>2. RegistryInv /\ [RegistryNext]_opVars => RegistryInv'
  <2> SUFFICES ASSUME RegistryInv, [RegistryNext]_opVars
               PROVE  RegistryInv'
    OBVIOUS
  <2>1. ASSUME NEW due \in {"none", "armed"}, NEW cleanup \in BOOLEAN, Start(due, cleanup)
        PROVE  RegistryInv'
    BY <2>1, StartRecycledKeepsInv, StartFreshKeepsInv
  <2>2. ASSUME NEW id \in issued, Poll(id) \/ PollQuiescent(id)
        PROVE  RegistryInv'
    BY <2>2, PollKeepsInv DEF Poll, PollQuiescent
  <2>3. ASSUME NEW id \in issued, TakeOutcome(id) \/ Remove(id)
        PROVE  RegistryInv'
    <3>1. /\ {id[2]} \subseteq Drainable(opSlots, opRunning)
          /\ Consume(opSlots, {id[2]}) /\ opRunning' = opRunning
      <4>1. CASE TakeOutcome(id)
        BY <4>1 DEF TakeOutcome
      <4>2. CASE Remove(id)
        BY <4>2, LocationOk DEF Remove, Drainable
      <4> QED
        BY <2>3, <4>1, <4>2
    <3> QED
      BY <3>1, ReleaseKeepsInv
  <2>4. ASSUME NEW id \in issued, NEW dirty \in BOOLEAN, Complete(id, dirty) \/ Fail(id, dirty)
        PROVE  RegistryInv'
    BY <2>4, ReportKeepsInv
  <2>5. ASSUME NEW id \in issued, NEW reason \in Reasons, NEW bad \in BOOLEAN, NEW dirty \in BOOLEAN,
               Cancel(id, reason, bad, dirty) \/ Abort(id, reason, bad, dirty)
        PROVE  RegistryInv'
    BY <2>5, CancelKeepsInv
  <2>6. ASSUME NEW reason \in Reasons, NEW bad \in SUBSET PendingSlots(opSlots),
               NEW dirty \in SUBSET PendingSlots(opSlots),
               CancelAll(reason, bad, dirty) \/ CancelAllAndWait(reason, bad, dirty)
        PROVE  RegistryInv'
    BY <2>6, CancelAllKeepsInv
  <2>7. CASE PollQuiescence
    BY <2>7, ReleaseKeepsInv DEF PollQuiescence
  <2>8. CASE \/ \E id \in opRunning : WorkerStops(id)
             \/ \E s \in Slot : DeadlineElapses(s)
             \/ Seal
             \/ UNCHANGED opVars
    BY <2>8, EnvironmentKeepsInv
  <2> QED
    BY <2>1, <2>2, <2>3, <2>4, <2>5, <2>6, <2>7, <2>8 DEF RegistryNext
<1> QED
  BY <1>1, <1>2, PTL DEF RegistrySpec

(* Every variable of the registry keeps its type through start, poll,      *)
(* complete, fail, cancel, abort, the batches and the releases.            *)
THEOREM RegistryTypeCorrect == RegistrySpec => []RegistryTypeOK
<1>1. RegistryInv => RegistryTypeOK
  BY DEF RegistryInv
<1> QED
  BY <1>1, RegistryInvariant, PTL

(* The free list of acquire_slot and release_slot names each reusable      *)
(* vacant slot exactly once and never an occupied one.                     *)
THEOREM RegistryFreeListExact == RegistrySpec => []FreeListExact
<1>1. RegistryInv => FreeListExact
  BY DEF RegistryInv
<1> QED
  BY <1>1, RegistryInvariant, PTL

(* An id that location accepts names the operation it was issued for, and  *)
(* start never reissues an id.                                             *)
THEOREM RegistryIdsNeverAlias == RegistrySpec => []IdsNeverAlias
<1>1. RegistryInv => IdsNeverAlias
  <2> SUFFICES ASSUME RegistryInv PROVE IdsNeverAlias
    OBVIOUS
  <2>1. ASSUME NEW id \in Ids, Location(id) = "Ok"
        PROVE  id \in issued /\ opSlots[id[2]].id = id
    <3>1. DOMAIN opSlots = 1..Len(opSlots) /\ Len(opSlots) \in Nat
      BY LenProperties DEF RegistryInv, RegistryTypeOK
    <3>2. id[2] \in DOMAIN opSlots
      BY <2>1, <3>1, IdParts, RegistryConstants DEF Location, Slot
    <3>3. opSlots[id[2]] \in SlotRecord
      BY <3>1, <3>2, ElementOfSeq DEF RegistryInv, RegistryTypeOK
    <3>4. id[1] = opTag /\ id[3] = opSlots[id[2]].gen /\ IsOccupied(opSlots[id[2]])
      BY <2>1, <3>3, IdParts, SlotParts DEF Location
    <3> QED
      BY <3>2, <3>4, IdParts DEF RegistryInv, SlotsSound, SlotSound
  <2> QED
    BY <2>1 DEF IdsNeverAlias, RegistryInv, FreshIds
<1> QED
  BY <1>1, RegistryInvariant, PTL

(* The slot of a running worker stays with its operation: poll,            *)
(* take_outcome, remove, poll_quiescence and abort release no such slot.   *)
THEOREM RegistryWorkersKeepSlots == RegistrySpec => []WorkersKeepSlots
<1>1. RegistryInv => WorkersKeepSlots
  <2> SUFFICES ASSUME RegistryInv, NEW id \in opRunning PROVE Location(id) = "Ok"
    BY DEF WorkersKeepSlots
  <2>1. id \in Ids /\ id[2] \in DOMAIN opSlots /\ opSlots[id[2]].id = id
    BY DEF RegistryInv, RegistryTypeOK, WorkersHeld
  <2>2. DOMAIN opSlots = 1..Len(opSlots) /\ Len(opSlots) \in Nat /\ opSlots[id[2]] \in SlotRecord
    BY <2>1, LenProperties, ElementOfSeq DEF RegistryInv, RegistryTypeOK
  <2>3. IsOccupied(opSlots[id[2]])
    BY <2>1, IdParts DEF RegistryInv, SlotsSound, SlotSound, VacantSlot
  <2>4. id = <<opTag, id[2], opSlots[id[2]].gen>>
    BY <2>1, <2>3 DEF RegistryInv, SlotsSound, SlotSound
  <2>5. id[1] = opTag /\ id[3] = opSlots[id[2]].gen
    BY <2>4
  <2> QED
    BY <2>1, <2>2, <2>3, <2>5, SlotParts DEF Location
<1> QED
  BY <1>1, RegistryInvariant, PTL

(* The driver is asked to cancel at most once per operation, and never for *)
(* one that completed (cancel_with_wait, cancel_all).                      *)
THEOREM RegistryDriverAskedOnce == RegistrySpec => []DriverAskedOnce
<1>1. RegistryInv => DriverAskedOnce
  <2> SUFFICES ASSUME RegistryInv, NEW s \in DOMAIN opSlots
               PROVE  /\ opSlots[s].cancels <= 1
                      /\ opSlots[s].status \in {Cancelled(r) : r \in Reasons} => opSlots[s].cancels = 1
                      /\ opSlots[s].status \in {Pending, Completed} => opSlots[s].cancels = 0
    BY DEF DriverAskedOnce
  <2>1. SlotSound(s, opSlots[s])
    BY DEF RegistryInv, SlotsSound
  <2>2. CASE IsOccupied(opSlots[s])
    BY <2>1, <2>2 DEF SlotSound, CountsSound, IsPending
  <2>3. CASE ~IsOccupied(opSlots[s])
    <3>1. opSlots[s].cancels = 0 /\ opSlots[s].status = Vacant
      BY <2>1, <2>3 DEF SlotSound, VacantSlot
    <3>2. Vacant \notin {Cancelled(r) : r \in Reasons}
      BY DEF Vacant, Cancelled
    <3> QED
      BY <3>1, <3>2
  <2> QED
    BY <2>2, <2>3
<1> QED
  BY <1>1, RegistryInvariant, PTL

(* A cleanup hook is owed exactly while its operation is pending, and runs *)
(* at most once (finish_terminal and its callers).                         *)
THEOREM RegistryHooksRunOnce == RegistrySpec => []HooksRunOnce
<1>1. RegistryInv => HooksRunOnce
  <2> SUFFICES ASSUME RegistryInv PROVE HooksRunOnce
    OBVIOUS
  <2>1. DOMAIN opSlots = 1..Len(opSlots) /\ Len(opSlots) \in Nat
        /\ \A s \in DOMAIN opSlots : opSlots[s] \in SlotRecord
    BY LenProperties, ElementOfSeq DEF RegistryInv, RegistryTypeOK
  <2>2. ASSUME NEW id \in owed
        PROVE  Location(id) = "Ok" /\ IsPending(opSlots[id[2]])
    <3>1. id \in Ids /\ id[2] \in DOMAIN opSlots /\ opSlots[id[2]].id = id /\ IsPending(opSlots[id[2]])
      BY DEF RegistryInv, RegistryTypeOK, HooksOwed
    <3>2. IsOccupied(opSlots[id[2]])
      BY <3>1, StatusFacts DEF IsPending, IsOccupied
    <3>3. id = <<opTag, id[2], opSlots[id[2]].gen>>
      BY <3>1, <3>2 DEF RegistryInv, SlotsSound, SlotSound
    <3>4. id[1] = opTag /\ id[3] = opSlots[id[2]].gen
      BY <3>3
    <3> QED
      BY <2>1, <3>1, <3>2, <3>4, SlotParts DEF Location
  <2>3. ASSUME NEW s \in DOMAIN opSlots
        PROVE  opSlots[s].ran <= 1 /\ (opSlots[s].ran = 1 => IsTerminal(opSlots[s]))
    <3>1. SlotSound(s, opSlots[s])
      BY DEF RegistryInv, SlotsSound
    <3>2. CASE IsOccupied(opSlots[s])
      <4>1. opSlots[s].status \in Statuses
        BY <2>1 DEF SlotRecord
      <4>2. IsPending(opSlots[s]) \/ IsTerminal(opSlots[s])
        BY <3>2, <4>1 DEF Statuses, IsOccupied, IsPending, IsTerminal
      <4> QED
        BY <3>1, <3>2, <4>2 DEF SlotSound, CountsSound
    <3>3. CASE ~IsOccupied(opSlots[s])
      BY <3>1, <3>3 DEF SlotSound, VacantSlot
    <3> QED
      BY <3>2, <3>3
  <2> QED
    BY <2>2, <2>3 DEF HooksRunOnce
<1> QED
  BY <1>1, RegistryInvariant, PTL
=============================================================================
