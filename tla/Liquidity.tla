----------------------------- MODULE Liquidity -----------------------------
(***************************************************************************)
(* One row of CompanyLiquidity, the one of naira, between those who change *)
(* it by differences and those who overwrite it.  A payment reserves, and  *)
(* consumes or releases once the provider has answered.  Three schedulers  *)
(* without a lock read a balance first and write it later as an absolute   *)
(* value: the naira at Quidax and the naira at Paystack both into          *)
(* totalBalance, the sum of the users' wallets into internalBalance.       *)
(***************************************************************************)
EXTENDS Mishaps

CONSTANTS Deals,      \* payments of the company
          Size,       \* what each of them takes
          PaidBy,     \* the provider that pays it
          Funds,      \* what the company has at each of them
          SettleTries, \* attempts of the webhook's job
          Syncs       \* runs of schedulers at once

ASSUME LiquidityAssumption ==
    /\ IsFiniteSet(Deals) /\ Size \in [Deals -> Nat \ {0}]
    /\ PaidBy \in [Deals -> {"quidax", "paystack"}]
    /\ Funds \in [{"quidax", "paystack"} -> Nat]
    /\ SettleTries \in Nat \ {0}

VARIABLES row,    \* the row: how it was made, total, reserved, internal
          fund,   \* what the providers and the users' wallets really hold
          deal,   \* each payment's stage and failed attempts to settle it
          task,   \* runs of the schedulers
          paystackCache,  \* Redis: the balance at Paystack
          income, \* a deposit on its way into the books
          drift   \* since the last overwriting, what moved since its read

liquidityVars == <<row, fund, deal, task, paystackCache, income, drift>>

Feeds == {"quidax", "paystack", "users"}
Idle == [of |-> "none", at |-> "none", seen |-> 0, moved |-> 0, held |-> 0]

\* Whose balance a column shows: total that of a provider, internal the users'.
Column(f) == IF f = "users" THEN "internal" ELSE "total"

LiquidityTypeOK ==
    /\ row \in [made : {"none", "own", "paystack"}, total : Int,
                reserved : Nat, internal : Int]
    /\ fund \in [Feeds -> Nat]
    /\ deal \in [Deals -> [at : {"new", "held", "sent", "checked", "refused",
                                 "paid", "released", "stuck"},
                           tries : 0..SettleTries]]
    /\ task \in [Syncs -> [of : Feeds \cup {"none"}, at : {"none", "read", "wrote"},
                           seen : Int, moved : Nat, held : Nat]]
    /\ paystackCache \in [on : BOOLEAN, total : Nat, reserved : Nat, moved : Nat]
    /\ income \in {"none", "arrived", "booked"}
    /\ drift \in [{"total", "internal"} -> [feed : Feeds \cup {"none"}, by : Nat]]

\* A new installation, or one whose row has the id of the Paystack scheduler
\* or one of its own, up to date with Quidax.
LiquidityInit ==
    /\ fund = [f \in Feeds |-> IF f = "users" THEN Funds["quidax"] ELSE Funds[f]]
    /\ \E made \in {"none", "own", "paystack"} :
           row = [made |-> made, reserved |-> 0,
                  total |-> IF made = "none" THEN 0 ELSE Funds["quidax"],
                  internal |-> IF made = "none" THEN 0 ELSE Funds["quidax"]]
    /\ drift = [c \in {"total", "internal"} |->
                   [feed |-> IF row.made = "none" THEN "none"
                             ELSE IF c = "total" THEN "quidax" ELSE "users",
                    by |-> 0]]
    /\ deal = [d \in Deals |-> [at |-> "new", tries |-> 0]]
    /\ task = [s \in Syncs |-> Idle]
    /\ paystackCache = [on |-> FALSE, total |-> 0, reserved |-> 0, moved |-> 0]
    /\ income = "none"

-----------------------------------------------------------------------------
(* What the books remember of movements they have not seen.                *)

\* `amount` moves in the balance of f: every pending read of f, and what was
\* written from f, is behind by it.
Moved(f, amount) ==
    /\ task' = [s \in Syncs |-> IF task[s].of = f THEN [task[s] EXCEPT !.moved = @ + amount]
                                ELSE task[s]]
    /\ paystackCache' = IF f = "paystack" THEN [paystackCache EXCEPT !.moved = @ + amount]
                        ELSE paystackCache
BehindBy(D, f, amount) ==
    [D EXCEPT ![Column(f)].by = IF D[Column(f)].feed = f THEN @ + amount ELSE @]
\* totalBalance itself changes by a difference; internalBalance only does
\* together with the wallets.
Adjusted(D, amount) == [D EXCEPT !["total"].by = @ + amount]

-----------------------------------------------------------------------------
(* Payments: every operation is one guarded UPDATE.                        *)

CanReserve(r, amount) == r.made # "none" /\ r.total - r.reserved >= amount
CanConsume(r, amount) == r.reserved >= amount /\ r.total >= amount

Outstanding == {d \in Deals : deal[d].at \in {"held", "sent", "checked", "refused", "stuck"}}

\* What the users' wallets have beside what they hold for payments.
Unheld == fund["users"] - SumFunctionOnSet(Size, Outstanding)

\* The transaction that books the payment holds it in a wallet, and reserves it here.
Reserve(d) ==
    /\ deal[d].at = "new" /\ CanReserve(row, Size[d]) /\ Unheld >= Size[d]
    /\ row' = [row EXCEPT !.reserved = @ + Size[d]]
    /\ deal' = [deal EXCEPT ![d].at = "held"]
    /\ UNCHANGED <<fund, task, paystackCache, income, drift, budget>>

\* The provider pays out of what is really there.
PayOut(d) ==
    LET f == PaidBy[d]
    IN  /\ deal[d].at = "held" /\ fund[f] >= Size[d]
        /\ fund' = [fund EXCEPT ![f] = @ - Size[d]]
        /\ deal' = [deal EXCEPT ![d].at = "sent"]
        /\ Moved(f, Size[d])
        /\ drift' = BehindBy(drift, f, Size[d])
        /\ UNCHANGED <<row, income, budget>>

Refuse(d) ==
    /\ deal[d].at = "held"
    /\ \/ fund[PaidBy[d]] < Size[d] /\ UNCHANGED budget
       \/ Spend("refusal")
    /\ deal' = [deal EXCEPT ![d].at = "refused"]
    /\ UNCHANGED <<row, fund, task, paystackCache, income, drift>>

\* releaseLiquidity: throws rather than release more than is reserved.
Release(d) ==
    /\ deal[d].at = "refused" /\ row.reserved >= Size[d]
    /\ row' = [row EXCEPT !.reserved = @ - Size[d]]
    /\ deal' = [deal EXCEPT ![d].at = "released"]
    /\ UNCHANGED <<fund, task, paystackCache, income, drift, budget>>

Again(d) == [deal EXCEPT ![d] =
                [at |-> IF @.tries + 1 = SettleTries THEN "stuck" ELSE "sent",
                 tries |-> @.tries + 1]]

\* The webhook's transaction: updateInternalBalance reads the column and
\* compares it first, and decrements it in a second statement.
SettleCheck(d) ==
    /\ deal[d].at = "sent"
    /\ deal' = IF row.internal >= Size[d] THEN [deal EXCEPT ![d].at = "checked"]
               ELSE Again(d)
    /\ UNCHANGED <<row, fund, task, paystackCache, income, drift, budget>>

SettleCommit(d) ==
    /\ deal[d].at = "checked" /\ CanConsume(row, Size[d])
    /\ row' = [row EXCEPT !.reserved = @ - Size[d], !.total = @ - Size[d],
                          !.internal = @ - Size[d]]
    /\ fund' = [fund EXCEPT !["users"] = @ - Size[d]]
    /\ deal' = [deal EXCEPT ![d].at = "paid"]
    /\ Moved("users", Size[d])
    /\ drift' = Adjusted(drift, Size[d])
    /\ UNCHANGED <<income, budget>>

\* A balance that already lacks the payment does not cover it: the
\* transaction rolls back, and the job tries again.
SettleRefused(d) ==
    /\ deal[d].at = "checked" /\ ~ CanConsume(row, Size[d])
    /\ deal' = Again(d)
    /\ UNCHANGED <<row, fund, task, paystackCache, income, drift, budget>>

\* A deposit reaches Quidax, and is booked by its webhook: addLiquidity and
\* updateInternalBalance make the row where there is none.
Arrive ==
    /\ income = "none" /\ income' = "arrived" /\ Spend("again")
    /\ fund' = [fund EXCEPT !["quidax"] = @ + 1]
    /\ Moved("quidax", 1)
    /\ drift' = BehindBy(drift, "quidax", 1)
    /\ UNCHANGED <<row, deal>>

Book ==
    /\ income = "arrived" /\ income' = "booked"
    /\ row' = [row EXCEPT !.made = IF @ = "none" THEN "own" ELSE @,
                          !.total = @ + 1, !.internal = @ + 1]
    /\ fund' = [fund EXCEPT !["users"] = @ + 1]
    /\ Moved("users", 1)
    /\ drift' = Adjusted(drift, 1)
    /\ UNCHANGED <<deal, budget>>

-----------------------------------------------------------------------------
(* The schedulers: each minute, each minute, and every second hour.        *)

\* getCompanyWallets, getBalance, or the sum of the wallets.
Read(s, f) ==
    /\ task[s] = Idle /\ \A t \in Syncs : task[t] = Idle => s <= t
    /\ task' = [task EXCEPT ![s] = [Idle EXCEPT !.of = f, !.at = "read", !.seen = fund[f]]]
    /\ UNCHANGED <<row, fund, deal, paystackCache, income, drift, budget>>

Overwritten(f, s) == [drift EXCEPT ![Column(f)] = [feed |-> f, by |-> task[s].moved]]

\* What an upsert that replaces the row, or only creates it, would leave.
StartsAnew(r, amount, made) ==
    [r EXCEPT !.total = amount, !.reserved = 0, !.made = IF @ = "none" THEN made ELSE @]
KeepsTotal(r, amount, made) ==
    IF r.made = "none" THEN [r EXCEPT !.total = amount, !.made = made] ELSE r

\* INSERT .. ON CONFLICT (currency) DO UPDATE: what is reserved stays.
WithTotal(r, amount, made) ==
    [r EXCEPT !.total = amount, !.made = IF @ = "none" THEN made ELSE @]

SyncQuidax(s) ==
    /\ task[s].of = "quidax" /\ task[s].at = "read"
    /\ row' = WithTotal(row, task[s].seen, "own")
    /\ drift' = Overwritten("quidax", s)
    /\ task' = [task EXCEPT ![s] = Idle]
    /\ UNCHANGED <<fund, deal, paystackCache, income, budget>>

\* upsert by the id of the Paystack scheduler: a row somebody else made has
\* another id and the same currency, which is unique, and nothing happens.
SyncPaystack(s) ==
    /\ task[s].of = "paystack" /\ task[s].at = "read"
    /\ \/ /\ row.made # "own"
          /\ row' = WithTotal(row, task[s].seen, "paystack")
          /\ drift' = Overwritten("paystack", s)
          /\ task' = [task EXCEPT ![s] = [@ EXCEPT !.at = "wrote", !.held = row.reserved]]
       \/ /\ row.made = "own"
          /\ task' = [task EXCEPT ![s] = Idle]
          /\ UNCHANGED <<row, drift>>
    /\ UNCHANGED <<fund, deal, paystackCache, income, budget>>

\* What a second look at the row would give Redis, and the answer of the
\* upsert, as Redis gets it.
ReadAgain(s) == [on |-> TRUE, total |-> row.total, reserved |-> row.reserved,
                 moved |-> task[s].moved]
Answered(s) == [on |-> TRUE, total |-> task[s].seen, reserved |-> task[s].held,
                moved |-> task[s].moved]

CachePaystack(s) ==
    /\ task[s].of = "paystack" /\ task[s].at = "wrote"
    /\ paystackCache' = Answered(s)
    /\ task' = [task EXCEPT ![s] = Idle]
    /\ UNCHANGED <<row, fund, deal, income, drift, budget>>

SyncInternal(s) ==
    /\ task[s].of = "users" /\ task[s].at = "read"
    /\ row' = [row EXCEPT !.internal = task[s].seen,
                          !.made = IF @ = "none" THEN "own" ELSE @]
    /\ drift' = Overwritten("users", s)
    /\ task' = [task EXCEPT ![s] = Idle]
    /\ UNCHANGED <<fund, deal, paystackCache, income, budget>>

DealStep(d) == \/ PayOut(d) \/ Refuse(d) \/ Release(d)
               \/ SettleCheck(d) \/ SettleCommit(d) \/ SettleRefused(d)
SyncStep(s) == \/ SyncQuidax(s) \/ SyncInternal(s)
               \/ SyncPaystack(s) \/ CachePaystack(s)

LiquidityNext == \/ \E d \in Deals : Reserve(d) \/ DealStep(d)
                 \/ Arrive \/ Book
                 \/ \E s \in Syncs : SyncStep(s) \/ \E f \in Feeds : Read(s, f)

\* The row alone, with the whole budget to itself.
LiquiditySpec == LiquidityInit /\ budget = Budget
                 /\ [][LiquidityNext]_<<liquidityVars, budget>>

\* Providers answer and jobs run; each scheduler is started over and over.
LiquidityFairness ==
    /\ WF_liquidityVars(Of("liquidity") /\ (Book \/ \E d \in Deals : DealStep(d)))
    /\ WF_liquidityVars(Of("liquidity") /\ \E s \in Syncs : SyncStep(s))
    /\ \A f \in {"quidax", "users"} :
           SF_liquidityVars(Of("liquidity") /\ \E s \in Syncs : Read(s, f))

-----------------------------------------------------------------------------
Gap(a, b) == IF a > b THEN a - b ELSE b - a

\* What is reserved is what unsettled payments reserved, whichever scheduler
\* has overwritten the row in between.
ReservedExact == row.reserved = SumFunctionOnSet(Size, Outstanding)

\* A column differs from the balance it was last written from by no more than
\* what has moved there, or been booked here, since that balance was read.
DriftBounded == \A c \in {"total", "internal"} :
    drift[c].feed # "none" =>
        Gap(row[c], fund[drift[c].feed]) <= drift[c].by

\* What confirmSell takes for the balance at Paystack was that balance, up to
\* what Paystack has moved since: never the balance at Quidax, which is
\* written into the same row.
PurseHonest == paystackCache.on =>
    Gap(paystackCache.total, fund["paystack"]) <= paystackCache.moved

\* What the row of a currency says, whoever overwrites it.
LiquidityExact == ReservedExact /\ DriftBounded /\ PurseHonest

\* Once nothing is on its way, the books show what is there.
Reconciled ==
    /\ \A d \in Deals : deal[d].at \in {"new", "paid", "released", "stuck"}
    /\ income # "arrived"
    /\ row.made # "none" => \E f \in {"quidax", "paystack"} : row.total = fund[f]
    /\ row.internal = fund["users"]
=============================================================================
