----------------------------- MODULE Autostack -----------------------------
(***************************************************************************)
(* One autostack: USDT put aside at every due date, from the USDT wallet,  *)
(* by selling bitcoin at Quidax, or from a card, whose naira buy USDT at   *)
(* Quidax, with interest until it is unlocked (autostack.service.ts,       *)
(* autostack-interest.scheduler.ts, the autostack branches of              *)
(* swap-transaction.handler.ts, payment-status.handler.ts and              *)
(* order-done.handler.ts). Stacks meet only in the totals that every step  *)
(* adds to.                                                                *)
(*                                                                         *)
(* The jobs of one stack overlap: the queue runs ten at a time and a new   *)
(* one is put there every twenty minutes while the stack is due. Neither   *)
(* unlock nor cancelPending reads the stack again before it writes. What   *)
(* the two webhooks of a card read without a lock is Buy's subject: here   *)
(* a handler's reads go with its first transaction.                        *)
(***************************************************************************)
EXTENDS Ledger, Mishaps, Sequences, FiniteSets

CONSTANTS Sources,       \* what may pay: {"USDT", "BTC", "CARD"}
          Installment, InstallmentFee, \* USDT of a due date and its fee
          SourceCost,    \* bitcoin sold for an installment
          CardCost,      \* naira that buy an installment
          CardFee,       \* and the card is charged on top
          PerMille,      \* interest of a period
          StackUsdt, StackBtc,         \* the user's wallets
          CompanyBtc, BtcReserved,     \* the company's BTC, and what others hold
          CompanyNaira, NairaReserved, \* and its naira
          Jobs, Requests,
          MaxDates       \* bound on the due dates that pass

ASSUME AutostackAssumption ==
    /\ Sources \subseteq {"USDT", "BTC", "CARD"}
    /\ Installment \in Nat \ {0} /\ InstallmentFee \in Nat /\ SourceCost \in Nat
    /\ CardCost \in Nat /\ CardFee \in Nat
    /\ CompanyNaira \in Nat /\ NairaReserved \in 0..CompanyNaira
    /\ PerMille \in Nat /\ StackUsdt \in Nat /\ StackBtc \in Nat
    /\ CompanyBtc \in Nat /\ BtcReserved \in 0..CompanyBtc /\ MaxDates \in Nat
    /\ {"lostAnswer", "error", "crash", "refusal", "unlock", "cancelStack", "jobsOverlap",
        "afterEnd", "reopened", "staleRequest", "early"} \subseteq Kinds
    /\ \A f \in {"jobsOverlap", "afterEnd", "reopened", "staleRequest", "early"} :
          Budget[f] > 0

VARIABLES
    source,   \* what pays for the stack
    stack,    \* its row in "auto_stacks"
    round,    \* number of its current execution; 0 is the configuration
    due, ripe,\* nextExecutionAt and nextInterestAt have passed
    dates,    \* how many due dates have
    charge,   \* the transaction of each execution
    swaps,    \* swaps and purchases at Quidax, with their rows
    payment,  \* what Paystack did with each execution's reference, and its event
    usd, src, \* the user's USDT and BTC wallets
    coSrc,    \* the company's BTC account, or its naira, for a card
    totals,   \* the company's USDT: stacked, accrued, paid, internal
    job,      \* jobs of the scheduler, and confirm's own first charge
    request   \* unlock and cancelPending

plan == <<stack, round, due, ripe>>
wallets == <<usd, src>>
books == <<coSrc, totals>>
trades == <<swaps, payment>>
stackVars == <<source, plan, dates, charge, trades, wallets, books, job, request,
               budget>>

\* As many as two jobs make of the dates; none is begun beyond that.
Executions == 0..(MaxDates + 2)
Nobody == [pc |-> "idle", round |-> 0, held |-> FALSE, first |-> FALSE, swap |-> 0,
           order |-> "none"]
NoPayment == [at |-> "none", event |-> "none", init |-> "none", held |-> "none",
              swap |-> 0]
NoRequest == [pc |-> "idle", amount |-> 0, accrued |-> 0, early |-> FALSE,
              held |-> "none", order |-> "none", swap |-> 0]

StackTypeOK ==
    /\ source \in Sources
    /\ stack \in [status : {"none", "PENDING", "ACTIVE", "ENDED"}, amount : Nat,
                  accrued : Nat]
    /\ round \in Nat /\ due \in BOOLEAN /\ ripe \in BOOLEAN /\ dates \in Nat
    /\ charge \in [Executions ->
          [init : {"none", "PENDING", "PROCESSING", "SUBMITTED", "COMPLETED",
                   "FAILED", "CANCELLED"},
           held : {"none", "RESERVED", "RELEASED", "CONSUMED"},
           status : {"PENDING", "COMPLETED", "FAILED"},
           order : {"none", "marked", "placed"}]]
    /\ payment \in [Executions ->
          [at : {"none", "paid", "declined"},
           event : {"none", "waiting", "posting", "posted", "done"},
           init : {"none", "PENDING", "PROCESSING", "SUBMITTED", "COMPLETED",
                   "FAILED", "CANCELLED"},
           held : {"none", "RESERVED", "CONSUMED"}, swap : Nat]]
    /\ \A i \in DOMAIN swaps : swaps[i] \in
          [round : Executions, row : {"none", "PENDING", "COMPLETED", "FAILED"},
           at : {"open", "completed", "failed", "cancelled", "refused"},
           event : {"none", "waiting", "done"}]
    /\ usd \in [base : Nat, stacked : Nat, interest : Nat]
    /\ src \in Wallets /\ coSrc \in CompanyAccounts
    /\ totals \in [stacked : Nat, accrued : Nat, paid : Nat, internal : Nat]
    /\ job \in [Jobs -> [pc : {"idle", "check", "accrue", "force", "taken",
                               "reserved", "posted", "failed"},
                         round : Executions, held : BOOLEAN, first : BOOLEAN,
                         swap : Nat, order : {"none", "marked", "placed"}]]
    /\ request \in [Requests -> [pc : {"idle", "unlock", "cancel"}, amount : Nat,
                                 accrued : Nat, early : BOOLEAN,
                                 held : {"none", "RESERVED", "RELEASED", "CONSUMED"},
                                 order : {"none", "marked", "placed"}, swap : Nat]]

StackInit ==
    /\ source \in Sources
    /\ stack = [status |-> "none", amount |-> 0, accrued |-> 0]
    /\ round = 0 /\ due = FALSE /\ ripe = FALSE /\ dates = 0
    /\ charge = [r \in Executions |-> [init |-> "none", held |-> "none",
                                       status |-> "PENDING", order |-> "none"]]
    /\ swaps = <<>> /\ payment = [r \in Executions |-> NoPayment]
    /\ usd = [base |-> StackUsdt, stacked |-> 0, interest |-> 0]
    /\ src = [base |-> StackBtc, reserved |-> 0]
    /\ coSrc = IF source = "CARD"
               THEN [total |-> CompanyNaira, reserved |-> NairaReserved, internal |-> 0]
               ELSE [total |-> CompanyBtc, reserved |-> BtcReserved,
                     internal |-> StackBtc]
    /\ totals = [stacked |-> 0, accrued |-> 0, paid |-> 0, internal |-> StackUsdt]
    /\ job = [j \in Jobs |-> Nobody] /\ request = [q \in Requests |-> NoRequest]

NotBelowZero(n) == IF n > 0 THEN n ELSE 0

\* The fee in bitcoin, rounded up.
SourceTotal == SourceCost + (SourceCost * InstallmentFee + Installment - 1)
                              \div Installment
PeriodInterest(a) == (a * PerMille + 500) \div 1000

SetJob(j, pc) == job' = [job EXCEPT ![j].pc = pc]
Rest(j) == job' = [job EXCEPT ![j] = Nobody]
Cost == IF source = "CARD" THEN CardCost ELSE SourceCost
SetCharge(r, field, value) == charge' = [charge EXCEPT ![r][field] = value]
Running == {"PENDING", "ACTIVE"}
---------------------------------------------------------------------------
(* confirm; a stack that starts today is charged by the request itself.    *)

StackConfirm(j) ==
    /\ stack.status = "none" /\ job[j].pc = "idle"
    /\ stack' = [stack EXCEPT !.status = "PENDING", !.amount = Installment]
    /\ SetCharge(0, "init", "PENDING")
    /\ \/ due' = TRUE /\ ripe' = TRUE /\ dates' = 1 /\ SetJob(j, "force")
       \/ UNCHANGED <<due, ripe, dates, job>>
    /\ UNCHANGED <<source, round, trades, wallets, books, request, budget>>

\* The next date passes; a charge that has failed is due still.
DateCome ==
    /\ stack.status \in Running /\ ~(due /\ ripe) /\ dates < MaxDates
    /\ due' = TRUE /\ ripe' = TRUE /\ dates' = dates + 1
    /\ UNCHANGED <<source, stack, round, charge, trades, wallets, books, job,
                   request, budget>>

(* executeCharge: the interest of an active stack first.                   *)
ChargeStart(j) ==
    /\ job[j].pc = "idle" /\ stack.status \in Running /\ due
    /\ SetJob(j, IF stack.status = "PENDING" THEN "check" ELSE "accrue")
    /\ Note(\E k \in Jobs : job[k].pc # "idle", "jobsOverlap")
    /\ UNCHANGED <<source, plan, dates, charge, trades, wallets, books, request>>

\* Under the lock of the stack, whose status is not looked at.
Accrue(j) ==
    LET interest == PeriodInterest(stack.amount)
    IN  /\ job[j].pc = "accrue"
        /\ SetJob(j, "force")
        /\ IF ripe
           THEN /\ stack' = [stack EXCEPT !.accrued = @ + interest]
                /\ usd' = [usd EXCEPT !.interest = @ + interest]
                /\ totals' = [totals EXCEPT !.accrued = @ + interest]
                /\ ripe' = FALSE
                /\ Note(stack.status = "ENDED", "afterEnd")
           ELSE UNCHANGED <<stack, usd, totals, ripe, budget>>
        /\ UNCHANGED <<source, round, due, dates, charge, trades, src, coSrc,
                       request>>

\* initiateAutoStack: an execution that was submitted, or that somebody works
\* on, is left alone. The transaction of an active stack is found by its date.
Initiated(r, j) ==
    \/ charge[r].init \in {"SUBMITTED", "COMPLETED"}
    \/ charge[r].init = "PROCESSING" /\ \E k \in Jobs \ {j} :
          job[k].round = r /\ job[k].pc \in {"taken", "reserved", "posted", "failed"}

MayStart(j) == stack.status \in Running /\ (job[j].pc = "force" \/ due)

ChargeTake(j) ==
    /\ job[j].pc \in {"check", "force"} /\ round \in Executions
    /\ IF MayStart(j) /\ ~Initiated(round, j)
       THEN /\ SetCharge(round, "init", "PROCESSING")
            /\ job' = [job EXCEPT ![j] =
                  [pc |-> "taken", round |-> round,
                   held |-> charge[round].held = "RESERVED",
                   first |-> stack.status = "PENDING", swap |-> 0,
                   order |-> charge[round].order]]
       ELSE Rest(j) /\ UNCHANGED charge
    /\ UNCHANGED <<source, plan, dates, trades, wallets, books, request, budget>>

\* A settlement while a job is about to take the execution makes it take the next one.
NoteSettled ==
    LET overtaken == \E j \in Jobs : job[j].pc \in {"accrue", "force"}
    IN  NoteAll((IF stack.status = "ENDED" THEN {"reopened"} ELSE {})
                \cup (IF overtaken THEN {"jobsOverlap"} ELSE {}))

\* Mutation of Grow: the amount is that of the last execution.
GrowAnew(amount, first) ==
    /\ stack' = [stack EXCEPT !.amount = amount, !.status = "ACTIVE"]
    /\ round' = round + 1 /\ due' = FALSE /\ ripe' = FALSE /\ NoteSettled

\* What a settlement does to the plan, whatever has become of it.
Grow(amount, first) ==
    /\ stack' = [stack EXCEPT !.amount = IF first THEN amount ELSE @ + amount,
                              !.status = "ACTIVE"]
    /\ round' = round + 1 /\ due' = FALSE /\ ripe' = FALSE /\ NoteSettled

(* ... from the USDT wallet, in one transaction                            *)
StackFromWallet(j) ==
    /\ source = "USDT" /\ job[j].pc = "taken"
    /\ IF usd.base >= Installment + InstallmentFee
       THEN /\ usd' = [usd EXCEPT !.base = @ - (Installment + InstallmentFee),
                                  !.stacked = @ + Installment]
            /\ totals' = [totals EXCEPT !.stacked = @ + Installment]
            /\ Grow(Installment, job[j].first)
            /\ charge' = [charge EXCEPT ![job[j].round] =
                             [@ EXCEPT !.init = "COMPLETED", !.status = "COMPLETED"]]
            /\ Rest(j)
       ELSE SetJob(j, "failed") /\ UNCHANGED <<usd, totals, plan, charge, budget>>
    /\ UNCHANGED <<source, dates, trades, src, coSrc, request>>

(* ... from a card, on a hold of the company's naira. What a job read       *)
(* when it took the execution is what it writes back.                      *)
CardReserve(j) ==
    /\ source = "CARD" /\ job[j].pc = "taken"
    /\ IF job[j].held \/ CanReserveLiquidity(coSrc, CardCost)
       THEN /\ coSrc' = IF job[j].held THEN coSrc ELSE ReserveLiquidity(coSrc, CardCost)
            /\ charge' = [charge EXCEPT ![job[j].round] =
                  [@ EXCEPT !.init = "PROCESSING", !.held = "RESERVED",
                            !.order = job[j].order]]
            /\ SetJob(j, "reserved")
       ELSE SetJob(j, "failed") /\ UNCHANGED <<coSrc, charge>>
    /\ UNCHANGED <<source, plan, dates, trades, wallets, totals, request, budget>>

\* Paystack takes a reference once. Its answer is not looked at: a card that
\* is declined is submitted as well, and Paystack sends no event of it.
CardCharge(j) ==
    LET r == job[j].round
    IN  /\ source = "CARD" /\ job[j].pc = "reserved"
        /\ \/ /\ payment[r].at = "none"
              /\ payment' = [payment EXCEPT ![r] = [@ EXCEPT !.at = "paid",
                                                            !.event = "waiting"]]
              /\ \/ SetJob(j, "posted") /\ UNCHANGED budget
                 \/ SetJob(j, "failed") /\ Spend("lostAnswer")
           \/ /\ payment[r].at = "none" /\ Spend("refusal")
              /\ \/ SetJob(j, "posted")
                    /\ payment' = [payment EXCEPT ![r].at = "declined"]
                 \/ SetJob(j, "failed") /\ UNCHANGED payment
           \/ /\ payment[r].at # "none" /\ SetJob(j, "failed")
              /\ UNCHANGED <<payment, budget>>
        /\ UNCHANGED <<source, plan, dates, charge, swaps, wallets, books, request>>

CardRecord(j) ==
    /\ source = "CARD" /\ job[j].pc = "posted"
    /\ \/ /\ charge' = [charge EXCEPT ![job[j].round] =
                [@ EXCEPT !.init = "SUBMITTED", !.held = "RESERVED",
                          !.order = job[j].order]]
          /\ Rest(j) /\ UNCHANGED budget
       \/ SetJob(j, "failed") /\ Spend("error") /\ UNCHANGED charge
    /\ UNCHANGED <<source, plan, dates, trades, wallets, books, request>>

(* ... by a swap, on a hold of the user's and of the company's bitcoin     *)
StackReserve(j) ==
    LET already == job[j].held
    IN  /\ source = "BTC" /\ job[j].pc = "taken"
        /\ IF \/ already
              \/ /\ CanReserveBalance(src, SourceTotal)
                 /\ CanReserveLiquidity(coSrc, SourceCost)
           THEN /\ charge' = [charge EXCEPT ![job[j].round] =
                                 [@ EXCEPT !.init = "PROCESSING",
                                           !.held = "RESERVED"]]
                /\ src' = IF already THEN src ELSE ReserveBalance(src, SourceTotal)
                /\ coSrc' = IF already THEN coSrc
                            ELSE ReserveLiquidity(coSrc, SourceCost)
                /\ SetJob(j, "reserved")
           ELSE SetJob(j, "failed") /\ UNCHANGED <<charge, src, coSrc>>
        /\ UNCHANGED <<source, plan, dates, trades, usd, totals, request, budget>>

\* A quotation that Quidax refuses has failed. A confirmation it refuses has not:
\* the answer's status is not looked at, and the quotation's id is the swap's.
StackPost(j) ==
    LET sent(at) == Append(swaps, [round |-> job[j].round, row |-> "none", at |-> at,
                                   event |-> "none"])
    IN  /\ source = "BTC" /\ job[j].pc = "reserved"
        /\ \/ /\ \/ swaps' = sent("open") /\ UNCHANGED budget
                 \/ swaps' = sent("refused") /\ Spend("refusal")
              /\ job' = [job EXCEPT ![j] = [@ EXCEPT !.pc = "posted",
                                                    !.swap = Len(swaps) + 1]]
           \/ swaps' = sent("open") /\ SetJob(j, "failed") /\ Spend("lostAnswer")
           \/ SetJob(j, "failed") /\ Spend("refusal") /\ UNCHANGED swaps
        /\ UNCHANGED <<source, plan, dates, charge, payment, wallets, books, request>>

StackRecord(j) ==
    /\ source = "BTC" /\ job[j].pc = "posted"
    /\ \/ /\ swaps' = [swaps EXCEPT ![job[j].swap].row = "PENDING"]
          /\ SetCharge(job[j].round, "init", "SUBMITTED")
          /\ Rest(j) /\ UNCHANGED budget
       \/ SetJob(j, "failed") /\ Spend("error") /\ UNCHANGED <<swaps, charge>>
    /\ UNCHANGED <<source, plan, dates, payment, wallets, books, request>>

\* A release that fails is ignored; the job is tried again by the queue.
StackUndo(j) ==
    LET held == charge[job[j].round].held = "RESERVED"
    IN  /\ job[j].pc = "failed"
        /\ coSrc' = IF held /\ CanReleaseLiquidity(coSrc, Cost)
                    THEN ReleaseLiquidity(coSrc, Cost) ELSE coSrc
        /\ src' = IF source = "BTC" /\ held /\ CanReleaseBalance(src, SourceTotal)
                  THEN ReleaseBalance(src, SourceTotal) ELSE src
        /\ charge' = [charge EXCEPT ![job[j].round] =
              [@ EXCEPT !.init = "FAILED",
                        !.held = IF held THEN "RELEASED" ELSE charge[job[j].round].held]]
        /\ Rest(j)
        /\ UNCHANGED <<source, plan, dates, trades, usd, totals, request, budget>>
---------------------------------------------------------------------------
(* The swap's webhook.                                                     *)

StackSwapEnds(i) ==
    /\ swaps[i].at = "open"
    /\ \E end \in {"completed", "failed"} :
          /\ swaps' = [swaps EXCEPT ![i] = [@ EXCEPT !.at = end, !.event = "waiting"]]
          /\ IF end = "failed" THEN Spend("refusal") ELSE UNCHANGED budget
    /\ UNCHANGED <<source, plan, dates, charge, payment, wallets, books, job, request>>

\* A row in a final state, or of a charge that is final or was released, is
\* skipped: so is every swap of a charge that has failed once.
SwapIsNews(i) == /\ swaps[i].row = "PENDING"
                 /\ charge[swaps[i].round].status = "PENDING"
                 /\ charge[swaps[i].round].held # "RELEASED"

CanSettle(i) == /\ swaps[i].at = "completed" /\ SwapIsNews(i)
                /\ CanFinalizeBalance(src, SourceTotal)
                /\ CanSubtractInternal(coSrc, SourceCost)
                /\ CanConsumeLiquidity(coSrc, SourceCost)

SwapSettles(i) ==
    /\ src' = FinalizeBalance(src, SourceTotal)
    /\ coSrc' = ConsumeReservedLiquidity(SubtractInternal(coSrc, SourceCost),
                                         SourceCost)
    /\ usd' = [usd EXCEPT !.stacked = @ + Installment]
    /\ totals' = [totals EXCEPT !.stacked = @ + Installment,
                                !.internal = @ + Installment]
    /\ Grow(Installment, stack.status = "PENDING")
    /\ charge' = [charge EXCEPT ![swaps[i].round] =
          [@ EXCEPT !.init = "COMPLETED", !.held = "CONSUMED", !.status = "COMPLETED"]]

\* The failure path looks only at the swap's row.
CanFail(i) == /\ swaps[i].at = "failed" /\ swaps[i].row = "PENDING"
              /\ CanReleaseBalance(src, SourceTotal)
              /\ CanReleaseLiquidity(coSrc, SourceCost)

SwapFails(i) ==
    /\ src' = ReleaseBalance(src, SourceTotal)
    /\ coSrc' = ReleaseLiquidity(coSrc, SourceCost)
    /\ charge' = [charge EXCEPT ![swaps[i].round] =
          [@ EXCEPT !.init = "FAILED", !.held = "RELEASED", !.status = "FAILED"]]
    /\ UNCHANGED <<usd, totals, plan, budget>>

StackWebhook(i) ==
    LET ended(row) == swaps' = [swaps EXCEPT ![i] = [@ EXCEPT !.event = "done",
                                                              !.row = row]]
    IN  /\ source = "BTC" /\ swaps[i].event = "waiting"
        /\ \/ CanSettle(i) /\ SwapSettles(i) /\ ended("COMPLETED")
           \/ CanFail(i) /\ SwapFails(i) /\ ended("FAILED")
           \/ /\ ~CanSettle(i) /\ ~CanFail(i) /\ ended(swaps[i].row)
              /\ UNCHANGED <<wallets, books, charge, plan, budget>>
        /\ UNCHANGED <<source, dates, payment, job, request>>
---------------------------------------------------------------------------
(* charge.success: the purchase of the USDT, once per execution.           *)

Watching(r) == \E j \in Jobs : job[j].round = r /\ job[j].pc = "posted"
SetEvent(r, e) == payment' = [payment EXCEPT ![r].event = e]

\* An execution whose naira were given back is not bought for, although the
\* card was charged.
Bought(r) == charge[r].order # "none"
Wanted(r) == /\ charge[r].status # "FAILED" /\ ~Bought(r)
             /\ charge[r].held # "RELEASED"

CardPaid(r) ==
    /\ payment[r].event = "waiting"
    /\ IF Wanted(r)
       THEN /\ payment' = [payment EXCEPT ![r] =
                  [@ EXCEPT !.event = "posting", !.init = charge[r].init,
                            !.held = charge[r].held]]
            /\ SetCharge(r, "order", "marked")
       ELSE SetEvent(r, "done") /\ UNCHANGED charge
    /\ Note(Watching(r), "early")
    /\ UNCHANGED <<source, plan, dates, swaps, wallets, books, job, request>>

\* What the handler read when it marked the execution, with the mark removed
\* or replaced by the order.
Restored(r, order) ==
    charge' = [charge EXCEPT ![r] = [@ EXCEPT !.init = payment[r].init,
                                              !.held = payment[r].held,
                                              !.order = order]]

\* After an error, or an answer that is lost, the mark stays.
CardOrder(r) ==
    LET new == [round |-> r, row |-> "none", at |-> "open", event |-> "none"]
    IN  /\ payment[r].event = "posting"
        /\ \/ /\ swaps' = Append(swaps, new)
              /\ \/ /\ payment' = [payment EXCEPT ![r] =
                          [@ EXCEPT !.event = "posted", !.swap = Len(swaps) + 1]]
                    /\ UNCHANGED budget
                 \/ SetEvent(r, "waiting") /\ Spend("lostAnswer")
              /\ UNCHANGED charge
           \/ /\ Spend("refusal") /\ SetEvent(r, "waiting")
              /\ Restored(r, "none") /\ UNCHANGED swaps
           \/ /\ Spend("error") /\ SetEvent(r, "waiting")
              /\ UNCHANGED <<charge, swaps>>
        /\ UNCHANGED <<source, plan, dates, wallets, books, job, request>>

\* One order row per execution, of its last purchase.
CardOrdered(r) ==
    /\ payment[r].event = "posted"
    /\ \/ /\ swaps' = [i \in DOMAIN swaps |->
                CASE i = payment[r].swap -> [swaps[i] EXCEPT !.row = "PENDING"]
                  [] i # payment[r].swap /\ swaps[i].round = r ->
                        [swaps[i] EXCEPT !.row = "none"]
                  [] OTHER -> swaps[i]]
          /\ Restored(r, "placed") /\ SetEvent(r, "done")
          /\ Note(Watching(r), "early")
       \/ /\ Spend("error") /\ SetEvent(r, "waiting")
          /\ UNCHANGED <<charge, swaps>>
    /\ UNCHANGED <<source, plan, dates, wallets, books, job, request>>

(* order.done: the naira are consumed, if they are said to be reserved.    *)

OrderIsNews(i) == swaps[i].row = "PENDING" /\ charge[swaps[i].round].status = "PENDING"

\* Metadata without a status count as RESERVED; without an amount, the whole
\* charge does.
Backed(i) == charge[swaps[i].round].held \in {"none", "RESERVED"}
BackedBy(i) == CardCost + IF charge[swaps[i].round].held = "none" THEN CardFee ELSE 0

OrderFills(i) ==
    /\ coSrc' = IF Backed(i) THEN ConsumeReservedLiquidity(coSrc, BackedBy(i)) ELSE coSrc
    /\ charge' = [charge EXCEPT ![swaps[i].round] =
          IF Backed(i) THEN [@ EXCEPT !.init = "COMPLETED", !.held = "CONSUMED",
                                      !.status = "COMPLETED"]
                       ELSE [@ EXCEPT !.status = "COMPLETED"]]
    /\ usd' = [usd EXCEPT !.stacked = @ + Installment]
    /\ totals' = [totals EXCEPT !.stacked = @ + Installment,
                                !.internal = @ + Installment]
    /\ Grow(Installment, stack.status = "PENDING")

CanFill(i) == /\ swaps[i].at = "completed" /\ OrderIsNews(i)
              /\ Backed(i) => CanConsumeLiquidity(coSrc, BackedBy(i))

\* An order that failed, or that cannot be settled; the metadata tell of the
\* release only in the first case. The execution stays SUBMITTED, and is not
\* charged again.
CanReject(i) == /\ OrderIsNews(i) /\ ~CanFill(i)
                /\ Backed(i) => CanReleaseLiquidity(coSrc, BackedBy(i))

OrderFails(i) ==
    /\ coSrc' = IF Backed(i) THEN ReleaseLiquidity(coSrc, BackedBy(i)) ELSE coSrc
    /\ charge' = [charge EXCEPT ![swaps[i].round] =
          [@ EXCEPT !.held = IF Backed(i) /\ swaps[i].at = "failed" THEN "RELEASED"
                             ELSE charge[swaps[i].round].held,
                    !.status = "FAILED"]]
    /\ UNCHANGED <<usd, totals, plan, budget>>

CardOrderDone(i) ==
    LET ended(row) == swaps' = [swaps EXCEPT ![i] = [@ EXCEPT !.event = "done",
                                                              !.row = row]]
    IN  /\ source = "CARD" /\ swaps[i].event = "waiting"
        /\ \/ CanFill(i) /\ OrderFills(i) /\ ended("COMPLETED")
           \/ CanReject(i) /\ OrderFails(i) /\ ended("FAILED")
           \/ /\ ~CanFill(i) /\ ~CanReject(i) /\ ended(swaps[i].row)
              /\ Note(swaps[i].row = "none", "early")
              /\ UNCHANGED <<coSrc, charge, usd, totals, plan>>
        /\ UNCHANGED <<source, dates, payment, src, job, request>>
---------------------------------------------------------------------------
(* unlock and cancelPending: what was read before is what is written.      *)

UnlockStack(q) ==
    /\ stack.status = "ACTIVE" /\ request[q].pc = "idle"
    /\ Spend("unlock")
    /\ request' = [request EXCEPT ![q] =
          [NoRequest EXCEPT !.pc = "unlock", !.amount = stack.amount,
                            !.accrued = stack.accrued, !.early = ~ripe]]
    /\ UNCHANGED <<source, plan, dates, charge, trades, wallets, books, job>>

PayOut(q) ==
    LET r == request[q]
        back == IF r.early THEN r.amount - (r.amount * 5) \div 100
                ELSE r.amount + r.accrued
    IN  /\ r.pc = "unlock"
        /\ Note(stack # [status |-> "ACTIVE", amount |-> r.amount,
                         accrued |-> r.accrued], "staleRequest")
        /\ usd' = [base |-> usd.base + back,
                   stacked |-> NotBelowZero(usd.stacked - r.amount),
                   interest |-> NotBelowZero(usd.interest - r.accrued)]
        /\ totals' = [stacked |-> NotBelowZero(totals.stacked - r.amount),
                      accrued |-> NotBelowZero(totals.accrued - r.accrued),
                      paid |-> totals.paid + IF r.early THEN 0 ELSE r.accrued,
                      internal |-> totals.internal]
        /\ stack' = [stack EXCEPT !.status = "ENDED"]
        /\ request' = [request EXCEPT ![q] = NoRequest]
        /\ UNCHANGED <<source, round, due, ripe, dates, charge, trades, src, coSrc,
                       job>>

\* The swap of the first charge, as far as its row tells.
FirstSwap == {i \in DOMAIN swaps : /\ source = "BTC" /\ swaps[i].round = 0
                                   /\ swaps[i].row # "none"}
LastOf(S) == IF S = {} THEN 0 ELSE CHOOSE i \in S : \A k \in S : k <= i

\* A card's charge that may be under way is not given up.
UnderWay(c) == c.init \in {"PROCESSING", "SUBMITTED", "COMPLETED"} \/ c.order = "placed"

CancelStack(q) ==
    LET last == LastOf(FirstSwap)
    IN  /\ stack.status = "PENDING" /\ request[q].pc = "idle"
        /\ source = "CARD" => ~UnderWay(charge[0])
        /\ last # 0 => swaps[last].at # "completed"
        /\ Spend("cancelStack")
        /\ request' = [request EXCEPT ![q] =
              [NoRequest EXCEPT !.pc = "cancel", !.swap = last,
                                !.held = charge[0].held, !.order = charge[0].order]]
        /\ UNCHANGED <<source, plan, dates, charge, trades, wallets, books, job>>

\* At Quidax first, if there is a swap; then what was sold is released, not
\* its fee.
CancelStackCommit(q) ==
    LET r == request[q]
        held == r.held = "RESERVED"
        open == r.swap # 0 => swaps[r.swap].at = "open"
        able == held => /\ source = "BTC" => CanReleaseBalance(src, SourceCost)
                        /\ CanReleaseLiquidity(coSrc, Cost)
    IN  /\ r.pc = "cancel"
        /\ request' = [request EXCEPT ![q] = NoRequest]
        /\ swaps' = IF open /\ r.swap # 0
                    THEN [swaps EXCEPT ![r.swap].at = "cancelled"] ELSE swaps
        /\ IF open /\ able
           THEN /\ stack' = [stack EXCEPT !.status = "ENDED"]
                /\ charge' = [charge EXCEPT ![0] =
                      [@ EXCEPT !.init = "CANCELLED",
                                !.held = IF held THEN "RELEASED" ELSE r.held,
                                !.order = r.order]]
                /\ src' = IF held /\ source = "BTC"
                          THEN ReleaseBalance(src, SourceCost) ELSE src
                /\ coSrc' = IF held THEN ReleaseLiquidity(coSrc, Cost) ELSE coSrc
                /\ Note(\/ stack.status # "PENDING"
                        \/ [charge[0] EXCEPT !.init = "none"]
                             # [charge[0] EXCEPT !.init = "none", !.held = r.held,
                                                 !.order = r.order],
                        "staleRequest")
           ELSE UNCHANGED <<stack, charge, src, coSrc, budget>>
        /\ UNCHANGED <<source, round, due, ripe, dates, payment, usd, totals, job>>

\* The process dies; the queue hands its jobs out again, a request is lost.
StackCrash ==
    /\ Spend("crash")
    /\ job' = [j \in Jobs |-> Nobody]
    /\ request' = [q \in Requests |-> NoRequest]
    /\ payment' = [r \in Executions |->
          IF payment[r].event \in {"posting", "posted"}
          THEN [payment[r] EXCEPT !.event = "waiting"] ELSE payment[r]]
    /\ UNCHANGED <<source, plan, dates, charge, swaps, wallets, books>>

StackNext ==
    \/ \E j \in Jobs : \/ StackConfirm(j) \/ ChargeStart(j) \/ Accrue(j)
                       \/ ChargeTake(j) \/ StackFromWallet(j) \/ StackReserve(j)
                       \/ StackPost(j) \/ StackRecord(j) \/ StackUndo(j)
                       \/ CardReserve(j) \/ CardCharge(j) \/ CardRecord(j)
    \/ \E i \in DOMAIN swaps : StackSwapEnds(i) \/ StackWebhook(i) \/ CardOrderDone(i)
    \/ \E r \in Executions : CardPaid(r) \/ CardOrder(r) \/ CardOrdered(r)
    \/ \E q \in Requests : \/ UnlockStack(q) \/ PayOut(q)
                           \/ CancelStack(q) \/ CancelStackCommit(q)
    \/ DateCome \/ StackCrash
---------------------------------------------------------------------------
(***************************************************************************)
(* Properties                                                              *)
(***************************************************************************)
StackSafe == StackTypeOK /\ WalletSolvent(src) /\ CompanySolvent(coSrc)

Settled == {r \in Executions : charge[r].status = "COMPLETED"}
Held == {r \in Executions : charge[r].held = "RESERVED"}

\* The totals of the wallet and of the company are those of the stack, and the
\* stack is what was charged for it, whatever jobs overlap, fail or crash: as
\* long as no unlock or cancellation writes what it read before somebody else,
\* and no job goes on with a stack that has ended. And what is on hold is the
\* bitcoin of the executions that say so, unless one is cancelled.
StackBooks ==
    LET running == stack.status = "ACTIVE"
        ifRunning(n) == IF running THEN n ELSE 0
        each == Installment + InstallmentFee
    IN  /\ Untouched({"staleRequest", "reopened", "afterEnd"}) =>
             /\ totals.stacked = ifRunning(stack.amount)
             /\ totals.accrued = ifRunning(stack.accrued)
             /\ usd.stacked = totals.stacked /\ usd.interest = totals.accrued
             /\ running =>
                  /\ stack.amount = Installment * Cardinality(Settled)
                  /\ source = "USDT" =>
                       usd.base = StackUsdt - each * Cardinality(Settled)
        /\ source = "BTC" /\ Untouched({"cancelStack"}) =>
             /\ src.reserved = SourceTotal * Cardinality(Held)
             /\ coSrc.reserved = BtcReserved + SourceCost * Cardinality(Held)

\* Nobody is charged more often than due dates have passed, and no charge is
\* sold twice: unless two jobs of the stack overlap, or a settlement overtakes a
\* job that has yet to take its execution, so that one goes on with a date that
\* has not come; an answer of Quidax or of Paystack is lost,
\* or could not be written down, which is held for a refusal; an event comes
\* before what it is about is written; or the process dies before.
StackOnDate ==
    LET onTime == Untouched({"lostAnswer", "error", "crash"})
    IN  /\ Untouched({"jobsOverlap"})
             /\ (source = "CARD" => onTime /\ Untouched({"early", "staleRequest"}))
             => Cardinality(Settled) <= dates
        /\ onTime =>
             \A i \in DOMAIN swaps : \A k \in (i + 1)..Len(swaps) :
                swaps[i].round # swaps[k].round
                  \/ ~({swaps[i].at, swaps[k].at} \subseteq {"open", "completed"})

\* What a card has paid for is bought, once, and the company's naira are spent
\* on what is stacked and on nothing else: although Quidax refuses an order,
\* jobs overlap and stacks are cancelled or unlocked meanwhile. Not so when an
\* answer is lost or not written down, which is held for a refusal, as a charge
\* is that is tried again after the process died; or when an event comes before
\* what it is about is written, which a stale copy then wipes out.
CardBacked ==
    source = "CARD" /\ Untouched({"lostAnswer", "error", "crash", "early",
                                      "staleRequest"}) =>
        /\ coSrc.total = CompanyNaira - CardCost * Cardinality(Settled)
        /\ coSrc.reserved = NairaReserved + CardCost * Cardinality(Held)
        /\ \A r \in Executions :
              /\ payment[r].at = "paid" /\ payment[r].event = "done"
                   => \E i \in DOMAIN swaps : swaps[i].round = r
              /\ charge[r].status = "COMPLETED" => payment[r].at = "paid"
===========================================================================
