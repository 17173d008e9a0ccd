----------------------------- MODULE MCServices -----------------------------
(***************************************************************************)
(* Two vaults, two loans, two networks, a purchase, two bills and a        *)
(* payment, each with a budget of one mishap of every kind.                *)
(***************************************************************************)
EXTENDS Services, TLC

CONSTANTS v1, v2, l1, l2, b1, r1, r2, d1

MCPrincipal == v1 :> 100 @@ v2 :> 10
MCTiers == <<[min |-> 0, max |-> 5, percent |-> 50],
             [min |-> 6, max |-> 20, percent |-> 25]>>
MCQuoted == v2 :> 200
MCAsk == l1 :> 60 @@ l2 :> 42
MCCost == b1 :> 2
MCVolume == b1 :> 1
MCSize == d1 :> 2
MCPaidBy == d1 :> "quidax"
MCFunds == "quidax" :> 3 @@ "paystack" :> 2
MCKinds ==
    {"lostAnswer", "error", "crash", "refusal",
     "cancel", "overlap", "staleCancel", "spentElsewhere",
     "again", "early", "shared", "raced", "timeout", "transferFailed",
     "stall", "expiry", "reversal",
     "repeat", "twice", "unpaid", "pending", "lateNews", "undeleted", "uncaught"}
OneOfEach == [k \in MCKinds |-> 1]

\* One initial state of the services the behaviour is not of.
MCInit == /\ Init
          /\ subject # "vault" => coUsdt.total = 220
          /\ subject # "loans" => coLoan.crypto = 30
          /\ subject # "buy" => production /\ funds = 4
          /\ subject # "liquidity" => row.made = "own"

MCSpec == MCInit /\ [][Next]_servicesVars /\ Fairness
=============================================================================
