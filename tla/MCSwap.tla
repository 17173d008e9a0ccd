------------------------------ MODULE MCSwap ------------------------------
(***************************************************************************)
(* Instances of Swap for TLC: two swaps of 2 and 1 units, the first with a *)
(* fee of 1, on a wallet of 5; the company can back only one, or both.     *)
(***************************************************************************)
EXTENDS Swap, TLC

CONSTANTS s1, s2

MCExact == s1 :> 2 @@ s2 :> 1
MCFee == s1 :> 1 @@ s2 :> 0
MCReceived == s1 :> 3 @@ s2 :> 1

EveryBudget == [f \in Faults |-> 1]
NoFaults == [f \in Faults |-> 0]
===========================================================================
