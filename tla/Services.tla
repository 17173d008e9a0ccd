------------------------------ MODULE Services ------------------------------
(***************************************************************************)
(* The services whose work has to come to an end, side by side: a          *)
(* behaviour is one of one of them, so their state spaces add up and do    *)
(* not multiply. They share the mishaps and nothing else.                  *)
(***************************************************************************)
EXTENDS Vault, UrgentLiquidity, Addresses, Buy, Bills, Liquidity

Services == {"vault", "loans", "addresses", "buy", "bills", "liquidity"}

Init == /\ subject \in Services /\ budget = Budget
        /\ VaultInit /\ LoanInit /\ AddressInit
        /\ BuyInit /\ BillsInit /\ LiquidityInit

\* The variables of the services but the mishaps, which they share.
VaultOwn == <<users, company, records, atQuidax, requests, mature, shards>>
LoanOwn == <<collateral, coLoan, loan, asking, sales, transfer, checked, paying>>
AddressesOwn == <<account, setup, wallet, addresses, pending, lostTx, news>>
BuyOwn == <<books, providers, confirm, work, retries>>
BillsOwn == <<purse, till, owed, paper, bill, confirming, sale, filling, retrying,
              biller, notices>>

Keeps(names) ==
    /\ "vault" \in names => UNCHANGED VaultOwn
    /\ "loans" \in names => UNCHANGED LoanOwn
    /\ "addresses" \in names => UNCHANGED AddressesOwn
    /\ "buy" \in names => UNCHANGED BuyOwn
    /\ "bills" \in names => UNCHANGED BillsOwn
    /\ "liquidity" \in names => UNCHANGED liquidityVars

Next ==
    /\ UNCHANGED subject
    /\ \/ subject = "vault" /\ VaultNext
       \/ subject = "loans" /\ LoanNext
       \/ subject = "addresses" /\ AddressNext
       \/ subject = "buy" /\ BuyNext
       \/ subject = "bills" /\ BillsNext
       \/ subject = "liquidity" /\ LiquidityNext
    /\ Keeps(Services \ {subject})

servicesVars == <<subject, VaultOwn, LoanOwn, AddressesOwn, BuyOwn, BillsOwn,
                  liquidityVars, budget>>

Fairness == /\ VaultFairness /\ LoanFairness /\ AddressFairness
            /\ BuyFairness /\ BillFairness /\ LiquidityFairness

Spec == Init /\ [][Next]_servicesVars
FairSpec == Spec /\ Fairness
---------------------------------------------------------------------------
(***************************************************************************)
(* Properties                                                              *)
(***************************************************************************)
\* Every service keeps its types, and promises no more than it has.
ServicesSafe ==
    CASE Of("vault") -> VaultSafe
      [] Of("loans") -> LoanTypeOK
      [] Of("addresses") -> AddressTypeOK
      [] Of("buy") -> BuySafe
      [] Of("bills") -> BillTypeOK /\ BillsSolvent
      [] Of("liquidity") -> LiquidityTypeOK

\* A purchase is ordered once, booked as often as it is completed, and the
\* naira promised for it are there.
PurchaseExact == Of("buy") => BoughtExactly /\ OrderedOnce /\ NairaBacked

\* Due vaults are paid, filled orders of loans are settled, the addresses of a
\* new wallet come up, paid purchases and paid bills are settled, and the
\* books of a currency come to show what is there.
ServicesSettle == []<>(/\ VaultsPaid /\ LoansPaid /\ AddressesUp
                       /\ PurchasesDone /\ BillsDone /\ Reconciled)
=============================================================================
