--------------------------- MODULE ScopeLifecycle ---------------------------
(***************************************************************************)
(* What an execution scope promises its owner: it admits work while it is  *)
(* Active, binds one close reason, only gives work up from then on, and    *)
(* reaches Quiescent, with an outcome that is fixed for good, exactly when *)
(* it holds nothing.  A scope may be dropped at any moment.                *)
(***************************************************************************)
CONSTANTS
  Work,       \* every operation id and resource handle
  Bindings,   \* the reasons a close may be bound to
  Verdicts,   \* the possible outcomes
  None

VARIABLES phase, bound, verdict, held

vars == <<phase, bound, verdict, held>>

Init == phase = "Active" /\ bound = None /\ verdict = None /\ held = {}

Admit ==
  /\ phase = "Active"
  /\ \E w \in Work \ held : held' = held \cup {w}
  /\ UNCHANGED <<phase, bound, verdict>>

Give ==
  /\ phase \in {"Active", "Closing"}
  /\ held' \subseteq held
  /\ UNCHANGED <<phase, bound, verdict>>

Begin ==
  /\ phase = "Active"
  /\ phase' = "Closing"
  /\ bound' \in Bindings
  /\ UNCHANGED <<verdict, held>>

Finish ==
  /\ phase = "Closing"
  /\ phase' = "Quiescent"
  /\ verdict' \in Verdicts
  /\ held' = {}
  /\ UNCHANGED bound

Drop ==
  /\ phase # "Dropped"
  /\ phase' = "Dropped"
  /\ held' \subseteq held
  /\ IF phase = "Active" THEN bound' \in Bindings ELSE UNCHANGED bound
  /\ UNCHANGED verdict

Next == Admit \/ Give \/ Begin \/ Finish \/ Drop

Spec == Init /\ [][Next]_vars
=============================================================================
