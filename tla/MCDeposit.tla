----------------------------- MODULE MCDeposit -----------------------------
(***************************************************************************)
(* The instance of Deposit for TLC: one deposit and two worker slots.      *)
(***************************************************************************)
EXTENDS Deposit, TLC

CONSTANT d1

MCAmount == d1 :> 1

\* Every fault once, and more transient errors than a job has attempts; the
\* deposit's job fails less often than it has attempts before the credit.
EveryBudget == [[f \in Faults |-> 1] EXCEPT !["transient"] = 4]
===========================================================================
