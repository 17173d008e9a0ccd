------------------------------ MODULE Mishaps ------------------------------
(***************************************************************************)
(* Faults and outside events of the smaller components, each bounded on    *)
(* its own and all of them together, so that a property can say which of   *)
(* them it survives. The model's own bookkeeping; the program has none.    *)
(***************************************************************************)
EXTENDS Integers, FiniteSets, Functions

CONSTANTS Kinds,     \* what may happen from outside
          Budget,    \* how often each of them may
          MaxFaults  \* and how many of them there may be

ASSUME MishapsAssumption ==
    IsFiniteSet(Kinds) /\ Budget \in [Kinds -> Nat] /\ MaxFaults \in Nat

VARIABLES subject, \* the component that a behaviour is of
          budget   \* what may still happen

Of(component) == subject = component
Untouched(F) == \A f \in F : budget[f] = Budget[f]
Spent(F) == SumFunctionOnSet([f \in F |-> Budget[f] - budget[f]], F)
Spend(f) == /\ budget[f] > 0 /\ Spent(Kinds) < MaxFaults
            /\ budget' = [budget EXCEPT ![f] = @ - 1]
\* Never in the way of a step, only remembered.
NoteAll(F) == budget' = [f \in Kinds |-> IF f \in F THEN 0 ELSE budget[f]]
Note(P, f) == NoteAll(IF P THEN {f} ELSE {})
===========================================================================
