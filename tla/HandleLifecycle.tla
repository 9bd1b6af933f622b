--------------------------- MODULE HandleLifecycle ---------------------------
(***************************************************************************)
(* What both generational arenas of the VM, the operation registry and the *)
(* resource table, promise about every id they may ever issue: an id is    *)
(* unborn, then in flight, then perhaps in one further state, then gone,   *)
(* and it never goes back.  Slots, generations and free lists are not      *)
(* visible here.                                                           *)
(***************************************************************************)
EXTENDS Integers, FiniteSets

CONSTANTS
  AllIds,      \* every id the encoding can express
  Outcomes,    \* the states between in flight and gone
  Counted,     \* the states that count towards the capacity
  Capacity     \* how many ids may be in a counted state when one is issued

VARIABLE life

Unborn   == <<"Unborn", "none">>
InFlight == <<"Pending", "none">>
Gone     == <<"Gone", "none">>
Lives    == {Unborn, InFlight, Gone} \cup Outcomes

Moves ==
  {<<a, a>> : a \in Lives} \cup {<<Unborn, InFlight>>}
    \cup {<<InFlight, o>> : o \in Outcomes}
    \cup {<<a, Gone>> : a \in {InFlight} \cup Outcomes}

CountedIds(l) == {id \in AllIds : l[id] \in Counted}

Born(old, new) == {id \in AllIds : old[id] = Unborn /\ new[id] # Unborn}

Init == life = [id \in AllIds |-> Unborn]

Next ==
  /\ life' \in [AllIds -> Lives]
  /\ \A id \in AllIds : <<life[id], life'[id]>> \in Moves
  /\ \A i, j \in Born(life, life') : i = j
  /\ Born(life, life') # {} => Cardinality(CountedIds(life)) < Capacity

Spec == Init /\ [][Next]_life
=============================================================================
