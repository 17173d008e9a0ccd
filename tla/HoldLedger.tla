---------------------------- MODULE HoldLedger ----------------------------
(***************************************************************************)
(* What the reserve / settle / release protocol promises a user, whatever  *)
(* flow runs it. Each operation of the user's wallet places at most one    *)
(* hold; the hold is settled (the money leaves) or released (it is free    *)
(* again), exactly once and never both. The flows of transaction/services  *)
(* and of the webhook handlers are meant to implement this specification.  *)
(***************************************************************************)
EXTENDS Ledger, FiniteSets, Functions

CONSTANTS Operations,   \* identifiers of the operations on one wallet
          Amount,       \* what each operation holds
          InitialBase   \* the balance the wallet starts with

VARIABLES wallet, hold

hvars == <<wallet, hold>>

HInit == /\ wallet = [base |-> InitialBase, reserved |-> 0]
         /\ hold = [o \in Operations |-> "none"]

\* The hold is placed when the request commits its first transaction.
Place(o) == /\ hold[o] = "none"
            /\ CanReserveBalance(wallet, Amount[o])
            /\ wallet' = ReserveBalance(wallet, Amount[o])
            /\ hold' = [hold EXCEPT ![o] = "held"]

\* The money has left: base and reservation go down together.
Settle(o) == /\ hold[o] = "held"
             /\ CanFinalizeBalance(wallet, Amount[o])
             /\ wallet' = FinalizeBalance(wallet, Amount[o])
             /\ hold' = [hold EXCEPT ![o] = "settled"]

\* The operation failed: the reservation alone goes down.
Release(o) == /\ hold[o] = "held"
              /\ CanReleaseBalance(wallet, Amount[o])
              /\ wallet' = ReleaseBalance(wallet, Amount[o])
              /\ hold' = [hold EXCEPT ![o] = "released"]

HNext == \E o \in Operations : Place(o) \/ Settle(o) \/ Release(o)

HSpec == HInit /\ [][HNext]_hvars
===========================================================================
