------------------------------ MODULE Ledger ------------------------------
(***************************************************************************)
(* The balance columns every money flow writes and the single-statement    *)
(* SQL updates that write them.                                            *)
(*                                                                         *)
(* A wallet is one row of "wallets" (one user, one currency), a company    *)
(* account one row of "company_liquidity" (one currency). Each update is   *)
(* an UPDATE ... WHERE, so its guard and its write are one atomic step: an *)
(* operator CanX is the WHERE clause and X the SET clause. The caller      *)
(* either throws (the surrounding transaction rolls back) or takes another *)
(* branch when the guard is false.                                         *)
(***************************************************************************)
EXTENDS Integers

\* baseBalance is what the user owns, reservedBalance the part of it that is
\* held for operations in flight.
Wallets == [base : Nat, reserved : Nat]

\* internalBalance is what the company owes its users; it is checked and
\* decremented on its own, never together with the other two columns.
CompanyAccounts == [total : Nat, reserved : Nat, internal : Nat]

(***************************************************************************)
(* Wallet: transaction.service.ts and the final debit of the handlers.     *)
(***************************************************************************)
CanReserveBalance(w, a) == w.base - w.reserved >= a
ReserveBalance(w, a) == [w EXCEPT !.reserved = @ + a]

CanReleaseBalance(w, a) == w.reserved >= a
ReleaseBalance(w, a) == [w EXCEPT !.reserved = @ - a]

\* Mutation of CanFinalizeBalance: the reservedBalance >= amount clause of the
\* final debit is left out.
CanFinalizeUnreserved(w, a) == w.base >= a

CanFinalizeBalance(w, a) == w.base >= a /\ w.reserved >= a

FinalizeBalance(w, a) == [w EXCEPT !.base = @ - a, !.reserved = @ - a]

CreditBalance(w, a) == [w EXCEPT !.base = @ + a]

(***************************************************************************)
(* Company account: company-liquidity.service.ts.                          *)
(***************************************************************************)
\* Mutation of CanReserveLiquidity: the reservation already made is not
\* subtracted from the total.
CanReserveLiquidityTotal(c, a) == c.total >= a

CanReserveLiquidity(c, a) == c.total - c.reserved >= a
ReserveLiquidity(c, a) == [c EXCEPT !.reserved = @ + a]

CanReleaseLiquidity(c, a) == c.reserved >= a
ReleaseLiquidity(c, a) == [c EXCEPT !.reserved = @ - a]

CanConsumeLiquidity(c, a) == c.reserved >= a /\ c.total >= a
ConsumeReservedLiquidity(c, a) ==
    [c EXCEPT !.reserved = @ - a, !.total = @ - a]

AddLiquidity(c, a) == [c EXCEPT !.total = @ + a]

CanSubtractInternal(c, a) == c.internal >= a
SubtractInternal(c, a) == [c EXCEPT !.internal = @ - a]
AddInternal(c, a) == [c EXCEPT !.internal = @ + a]

(***************************************************************************)
(* Solvency: no row ever promises more than it holds.                      *)
(***************************************************************************)
WalletSolvent(w) == w.reserved <= w.base
CompanySolvent(c) == c.reserved <= c.total
===========================================================================
