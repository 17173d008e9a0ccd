--------------------------- MODULE MCWithdrawal ---------------------------
(***************************************************************************)
(* Instances of Withdrawal for TLC: two withdrawals of 3 and 2 units on a  *)
(* wallet of 5; the company can back the first, or both once topped up.    *)
(***************************************************************************)
EXTENDS Withdrawal, TLC

CONSTANTS w1, w2

MCTotal == w1 :> 3 @@ w2 :> 2
MCFee == w1 :> 1 @@ w2 :> 0

Only(F) == [f \in Faults |-> IF f \in F THEN 1 ELSE 0]

With(c, F) == [company |-> c, budget |-> Only(F)]

SettleOrRetry == {With(5, {"crash", "transient"}), With(4, {"expiry", "topup"})}
EveryFault == {With(4, Faults \ {"topup"}),
               With(4, {"topup", "crash", "transient"})}
NoFault == {With(5, {})}
===========================================================================
