--------------------------- MODULE CreditLedger ---------------------------
(***************************************************************************)
(* What the deposit flow promises: a deposit is credited to the user once, *)
(* and the company's internal balance follows in the same step; only then, *)
(* and at most once, does the deposit's sweep add to the company's total.  *)
(***************************************************************************)
EXTENDS Ledger

CONSTANTS Deposits,     \* providerDepositIds of one user and currency
          Amount,       \* the amount of each
          InitialBase, InitialCompany, InitialInternal

VARIABLES wallet, company,
          stage  \* how far each deposit has come

cvars == <<wallet, company, stage>>

CInit == /\ wallet = [base |-> InitialBase, reserved |-> 0]
         /\ company = [total |-> InitialCompany, reserved |-> 0,
                       internal |-> InitialInternal]
         /\ stage = [d \in Deposits |-> "seen"]

Credit(d) == /\ stage[d] = "seen"
             /\ wallet' = CreditBalance(wallet, Amount[d])
             /\ company' = AddInternal(company, Amount[d])
             /\ stage' = [stage EXCEPT ![d] = "credited"]

Sweep(d) == /\ stage[d] = "credited"
            /\ company' = AddLiquidity(company, Amount[d])
            /\ stage' = [stage EXCEPT ![d] = "swept"]
            /\ UNCHANGED wallet

CNext == \E d \in Deposits : Credit(d) \/ Sweep(d)

CSpec == CInit /\ [][CNext]_cvars
===========================================================================
