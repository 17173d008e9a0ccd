------------------------------- MODULE Vault -------------------------------
(***************************************************************************)
(* Vaults: money locked until a date, with interest. A stablecoin vault is *)
(* taken from the wallet by confirmVault; a bitcoin vault is first sold    *)
(* for USDT at Quidax, on a hold, and funded by the swap's webhook         *)
(* (vault.service.ts; the vault branches of swap-transaction.handler.ts).  *)
(* unlock pays it back early or late; vault-interest.scheduler.ts pays     *)
(* what is due.                                                            *)
(*                                                                         *)
(* confirmVault and unlock read the wallet without a lock and write base   *)
(* and locked amount as absolute values; the webhook and the scheduler add *)
(* in SQL. The setNx locks only slow down a second request: a quote's id   *)
(* is unique in "vaults", and unlock reads the vault again FOR UPDATE.     *)
(***************************************************************************)
EXTENDS Ledger, Mishaps, Sequences

CONSTANTS Stable,        \* vaults in a stablecoin
          Swapped,       \* vaults in bitcoin
          Principal,     \* what each vault locks, in its own currency
          Tiers,         \* [min, max, percent] sold beyond that, of bitcoin
          DefaultBuffer, MaxBuffer, \* percent
          Quoted,        \* USDT the swap of each bitcoin vault is quoted at
          Days, RateTenths, FeeRate, \* duration; rate and fee in 1/10 % and 1/10000 %
          InitialUsdt, InitialBtc,
          CompanyFunds,  \* amounts of USDT the company may have
          OthersReserved \* and what other flows reserve of them

Vaults == Stable \cup Swapped

\* The first tier that matches; a percentage of zero in a tier stands, and a
\* ceiling of zero is none.
BufferPercent(a) ==
    LET fits == {i \in DOMAIN Tiers : a \in Tiers[i].min..Tiers[i].max}
        percent == IF fits = {} THEN DefaultBuffer
                   ELSE Tiers[CHOOSE i \in fits : \A j \in fits : i <= j].percent
    IN  IF MaxBuffer > 0 /\ percent > MaxBuffer THEN MaxBuffer ELSE percent

Charge(v) == IF v \in Stable THEN Principal[v]
             ELSE Principal[v] + (Principal[v] * BufferPercent(Principal[v])) \div 100

ASSUME VaultAssumption ==
    /\ IsFiniteSet(Vaults) /\ Stable \cap Swapped = {}
    /\ Principal \in [Vaults -> Nat] /\ Quoted \in [Swapped -> Nat \ {0}]
    /\ Tiers \in Seq([min : Nat, max : Nat, percent : Nat])
    /\ DefaultBuffer \in Nat /\ MaxBuffer \in Nat
    /\ Days \in Nat \ {0} /\ RateTenths \in Nat
    /\ FeeRate \in Nat /\ FeeRate <= 1000000
    /\ InitialUsdt \in Nat /\ InitialBtc \in Nat
    /\ OthersReserved \in Nat /\ \A c \in CompanyFunds : c \in Nat /\ OthersReserved <= c
    /\ {"lostAnswer", "error", "crash", "cancel", "overlap", "staleCancel"} \subseteq Kinds
    \* What is only noted has to leave a trace.
    /\ Budget["overlap"] > 0 /\ Budget["staleCancel"] > 0

VARIABLES
    usdt,      \* the user's USDT wallet
    btc,       \* the user's BTC wallet
    coUsdt,    \* the company's USDT account
    coBtc,     \* the company's internal BTC balance
    locked,    \* its totals of locked principal, accrued and paid interest
    vault,     \* rows of "vaults"
    swap,      \* the transaction and the swap row of a bitcoin vault
    swapAt,    \* its swap at Quidax
    swapJob,   \* the job of the swap's event
    opening,   \* progress of confirmVault
    closing,   \* progress of unlock
    cancelling,\* progress of cancelPendingVault
    sawUsdt,   \* the wallet a request has read
    mature,    \* vaults whose maturity date has passed
    shards     \* vaults the scheduler has put into jobs

users == <<usdt, btc>>
company == <<coUsdt, coBtc, locked>>
records == <<vault, swap>>
atQuidax == <<swapAt, swapJob>>
requests == <<opening, closing, cancelling, sawUsdt>>
vaultVars == <<users, company, records, atQuidax, requests, mature, shards, budget>>

VaultStatus == {"none", "PENDING", "ACTIVE", "MATURED", "TERMINATED"}
Opening == {"new", "read", "held", "reserved", "posted", "unquoted", "refused",
            "done"}
Closing == {"idle", "early", "late", "earlyRead", "lateRead"}

VaultTypeOK ==
    /\ usdt \in [base : Nat, locked : Nat, interest : Nat]
    /\ btc \in Wallets /\ coUsdt \in CompanyAccounts /\ coBtc \in Nat
    /\ locked \in [principal : Nat, accrued : Nat, paid : Nat]
    /\ vault \in [Vaults -> [status : VaultStatus, amount : Nat, gain : Nat,
                             receive : Nat]]
    /\ swap \in [Swapped -> [status : {"none", "PENDING", "COMPLETED", "FAILED"},
                             known : BOOLEAN]]
    /\ swapAt \in [Swapped -> [status : {"none", "open", "completed", "failed",
                                         "cancelled"}, received : Nat]]
    /\ swapJob \in [Swapped -> {"none", "waiting", "done"}]
    /\ opening \in [Vaults -> Opening] /\ closing \in [Vaults -> Closing]
    /\ cancelling \in [Swapped -> {"idle", "local", "remote", "cancelled"}]
    /\ sawUsdt \in [Vaults -> [base : Nat, locked : Nat, interest : Nat]]
    /\ mature \in SUBSET Vaults /\ shards \in SUBSET Vaults

VaultInit ==
    /\ usdt = [base |-> InitialUsdt, locked |-> 0, interest |-> 0]
    /\ btc = [base |-> InitialBtc, reserved |-> 0]
    /\ \E c \in CompanyFunds :
          coUsdt = [total |-> c, reserved |-> OthersReserved,
                    internal |-> InitialUsdt]
    /\ coBtc = InitialBtc
    /\ locked = [principal |-> 0, accrued |-> 0, paid |-> 0]
    /\ vault = [v \in Vaults |-> [status |-> "none", amount |-> 0, gain |-> 0,
                                  receive |-> 0]]
    /\ swap = [v \in Swapped |-> [status |-> "none", known |-> FALSE]]
    /\ swapAt = [v \in Swapped |-> [status |-> "none", received |-> 0]]
    /\ swapJob = [v \in Swapped |-> "none"]
    /\ opening = [v \in Vaults |-> "new"]
    /\ closing = [v \in Vaults |-> "idle"]
    /\ cancelling = [v \in Swapped |-> "idle"]
    /\ sawUsdt = [v \in Vaults |-> usdt]
    /\ mature = {} /\ shards = {}

AtLeastZero(n) == IF n > 0 THEN n ELSE 0

\* Interest and fee: the preview of a stablecoin vault rounds the rate down,
\* the webhook of a bitcoin vault does not.
PreviewGain(a) == (a * (RateTenths \div 10) * Days) \div 36500
FundedGain(a) == (a * RateTenths * Days) \div 365000
AfterFee(payout) == payout - (payout * FeeRate) \div 1000000
Funded(a, gain) == [status |-> "ACTIVE", amount |-> a, gain |-> gain,
                    receive |-> AfterFee(a + gain)]
Interest(v) == AtLeastZero(vault[v].receive - vault[v].amount)

SetStatus(v, status) == vault' = [vault EXCEPT ![v].status = status]
SetSwap(v, status) == swap' = [swap EXCEPT ![v].status = status]
SetOpening(v, pc) == opening' = [opening EXCEPT ![v] = pc]
SetClosing(v, pc) == closing' = [closing EXCEPT ![v] = pc]

\* Requests that have read the wallet and not written it.
Reading == {v \in Vaults : opening[v] = "read"
                             \/ closing[v] \in {"earlyRead", "lateRead"}}

\* Locked principal and accrued interest of the company, with GREATEST.
Lock(l, a, gain) == [l EXCEPT !.principal = @ + a, !.accrued = @ + gain]
Unlock(l, a, gain, paid) == [principal |-> AtLeastZero(l.principal - a),
                             accrued |-> AtLeastZero(l.accrued - gain),
                             paid |-> l.paid + paid]
---------------------------------------------------------------------------
(* confirmVault, of a stablecoin: one database transaction, in which other *)
(* writers may come between the read and the write.                        *)

VaultRead(v) ==
    /\ v \in Stable /\ opening[v] = "new"
    /\ usdt.base >= Charge(v)
    /\ SetOpening(v, "read") /\ sawUsdt' = [sawUsdt EXCEPT ![v] = usdt]
    /\ UNCHANGED <<users, company, records, atQuidax, closing, cancelling, mature,
                   shards, budget>>

VaultOpen(v) ==
    LET gain == PreviewGain(Principal[v])
    IN  /\ opening[v] = "read"
        /\ Note(Reading # {v}, "overlap")
        /\ usdt' = [base |-> sawUsdt[v].base - Charge(v),
                    locked |-> sawUsdt[v].locked + Principal[v],
                    interest |-> usdt.interest + gain]
        /\ vault' = [vault EXCEPT ![v] = Funded(Principal[v], gain)]
        /\ locked' = Lock(locked, Principal[v], gain)
        /\ SetOpening(v, "done")
        /\ UNCHANGED <<btc, coUsdt, coBtc, swap, atQuidax, closing, cancelling,
                       sawUsdt, mature, shards>>

(* confirmVault, of bitcoin: the hold and the three rows ...               *)
VaultHold(v) ==
    /\ v \in Swapped /\ opening[v] = "new"
    /\ CanReserveBalance(btc, Charge(v))
    /\ btc' = ReserveBalance(btc, Charge(v))
    /\ SetStatus(v, "PENDING") /\ SetSwap(v, "PENDING")
    /\ SetOpening(v, "held")
    /\ UNCHANGED <<usdt, company, atQuidax, closing, cancelling, sawUsdt, mature,
                   shards, budget>>

\* ... then a quotation and the company's USDT. Without liquidity it goes the
\* way of a refused swap, which gives back what it has not reserved.
VaultReserve(v) ==
    /\ opening[v] = "held"
    /\ \/ SetOpening(v, "unquoted") /\ UNCHANGED coUsdt
       \/ /\ CanReserveLiquidity(coUsdt, Quoted[v])
          /\ coUsdt' = ReserveLiquidity(coUsdt, Quoted[v])
          /\ SetOpening(v, "reserved")
       \/ /\ ~CanReserveLiquidity(coUsdt, Quoted[v])
          /\ SetOpening(v, "refused") /\ UNCHANGED coUsdt
    /\ UNCHANGED <<users, coBtc, locked, records, atQuidax, closing, cancelling,
                   sawUsdt, mature, shards, budget>>

VaultPost(v) ==
    /\ opening[v] = "reserved"
    /\ \/ /\ swapAt' = [swapAt EXCEPT ![v].status = "open"]
          /\ \/ SetOpening(v, "posted") /\ UNCHANGED budget
             \/ SetOpening(v, "refused") /\ Spend("lostAnswer")
       \/ SetOpening(v, "refused") /\ UNCHANGED <<swapAt, budget>>
    /\ UNCHANGED <<users, company, records, swapJob, closing, cancelling, sawUsdt,
                   mature, shards>>

VaultRecord(v) ==
    /\ opening[v] = "posted"
    /\ \/ /\ swap' = [swap EXCEPT ![v].known = TRUE]
          /\ SetOpening(v, "done") /\ UNCHANGED budget
       \/ SetOpening(v, "refused") /\ Spend("error") /\ UNCHANGED swap
    /\ UNCHANGED <<users, company, vault, atQuidax, closing, cancelling, sawUsdt,
                   mature, shards>>

\* Whatever failed, and whatever became of the vault meanwhile; or nothing, if
\* one of the two releases throws.
VaultUndo(v) ==
    LET quoted == opening[v] = "refused"
    IN  /\ opening[v] \in {"unquoted", "refused"}
        /\ SetOpening(v, "done")
        /\ IF /\ CanReleaseBalance(btc, Charge(v))
              /\ quoted => CanReleaseLiquidity(coUsdt, Quoted[v])
           THEN /\ btc' = ReleaseBalance(btc, Charge(v))
                /\ coUsdt' = IF quoted THEN ReleaseLiquidity(coUsdt, Quoted[v])
                             ELSE coUsdt
                /\ SetStatus(v, "TERMINATED") /\ SetSwap(v, "FAILED")
           ELSE UNCHANGED <<btc, coUsdt, records>>
        /\ UNCHANGED <<usdt, coBtc, locked, atQuidax, closing, cancelling,
                       sawUsdt, mature, shards, budget>>
---------------------------------------------------------------------------
(* cancelPendingVault: a swap that is known is cancelled at Quidax first.  *)

CancelVault(v) ==
    /\ vault[v].status = "PENDING" /\ cancelling[v] = "idle"
    /\ ~(swap[v].known /\ swapAt[v].status = "completed")
    /\ Spend("cancel")
    /\ cancelling' = [cancelling EXCEPT ![v] =
                         IF swap[v].known THEN "remote" ELSE "local"]
    /\ UNCHANGED <<users, company, records, atQuidax, opening, closing, sawUsdt,
                   mature, shards>>

\* Quidax refuses to cancel what has ended, and sends an event of what it has
\* cancelled.
CancelSwap(v) ==
    /\ cancelling[v] = "remote"
    /\ IF swapAt[v].status = "open"
       THEN /\ swapAt' = [swapAt EXCEPT ![v].status = "cancelled"]
            /\ swapJob' = [swapJob EXCEPT ![v] = "waiting"]
            /\ cancelling' = [cancelling EXCEPT ![v] = "cancelled"]
       ELSE /\ cancelling' = [cancelling EXCEPT ![v] = "idle"]
            /\ UNCHANGED atQuidax
    /\ UNCHANGED <<users, company, records, opening, closing, sawUsdt, mature,
                   shards, budget>>

\* Whatever became of the vault meanwhile; the transaction stays PENDING.
CancelCommit(v) ==
    LET known == cancelling[v] = "cancelled"
        stale == vault[v].status # "PENDING"
                   \/ opening[v] # "done" \/ swap[v].known # known
    IN  /\ cancelling[v] \in {"local", "cancelled"}
        /\ cancelling' = [cancelling EXCEPT ![v] = "idle"]
        /\ IF /\ CanReleaseBalance(btc, Charge(v))
              /\ known => CanReleaseLiquidity(coUsdt, Quoted[v])
           THEN /\ Note(stale, "staleCancel")
                /\ SetStatus(v, "TERMINATED")
                /\ btc' = ReleaseBalance(btc, Charge(v))
                /\ coUsdt' = IF known THEN ReleaseLiquidity(coUsdt, Quoted[v])
                             ELSE coUsdt
           ELSE UNCHANGED <<btc, coUsdt, vault, budget>>
        /\ UNCHANGED <<usdt, coBtc, locked, swap, atQuidax, opening, closing,
                       sawUsdt, mature, shards>>
---------------------------------------------------------------------------
(* The swap's webhook.                                                     *)

VaultSwapEnds(v) ==
    /\ swapAt[v].status = "open"
    /\ \E end \in {"completed", "failed"}, diff \in {-1, 0, 1} :
          swapAt' = [swapAt EXCEPT ![v] =
                        [status |-> end, received |-> Quoted[v] + diff]]
    /\ swapJob' = [swapJob EXCEPT ![v] = "waiting"]
    /\ UNCHANGED <<users, company, records, requests, mature, shards, budget>>

\* The row is looked up by the swap's id and must not be terminal.
Found(v) == swap[v].known /\ swap[v].status = "PENDING"

Fundable(v) == vault[v].status \in {"ACTIVE", "PENDING"}

\* Released if so much is reserved, by whomever.
ReleasedIfThere(c, a) == IF CanReleaseLiquidity(c, a) THEN ReleaseLiquidity(c, a)
                         ELSE c
CanFund(v) == CanFinalizeBalance(btc, Charge(v)) /\ coBtc >= Charge(v)

Fund(v) ==
    LET gain == FundedGain(Quoted[v])
        received == swapAt[v].received
    IN  /\ CanFund(v)
        /\ Note(Reading # {}, "overlap")
        /\ btc' = FinalizeBalance(btc, Charge(v))
        /\ coBtc' = coBtc - Charge(v)
        /\ usdt' = [base |-> usdt.base + received - Quoted[v],
                    locked |-> usdt.locked + Quoted[v],
                    interest |-> usdt.interest + gain]
        /\ coUsdt' = AddInternal(ReleasedIfThere(coUsdt, Quoted[v]), received)
        /\ locked' = Lock(locked, Quoted[v], gain)
        /\ vault' = [vault EXCEPT ![v] = Funded(Quoted[v], gain)]
        /\ SetSwap(v, "COMPLETED")

\* The swap failed, and the vault gets nothing ...
Fail(v) ==
    /\ vault[v].status # "TERMINATED"
    /\ CanReleaseBalance(btc, Charge(v))
    /\ btc' = ReleaseBalance(btc, Charge(v))
    /\ coUsdt' = ReleasedIfThere(coUsdt, Quoted[v])
    /\ SetStatus(v, "TERMINATED") /\ SetSwap(v, "FAILED")
    /\ UNCHANGED <<usdt, coBtc, locked, budget>>

\* ... nor if it brought less than was quoted: what it did bring stays with
\* the company, and so do the bitcoin it sold with the user.
FallsShort(v) ==
    /\ Fundable(v) /\ swapAt[v].received < Quoted[v]
    /\ CanReleaseBalance(btc, Charge(v))
    /\ btc' = ReleaseBalance(btc, Charge(v))
    /\ coUsdt' = ReleasedIfThere(coUsdt, Quoted[v])
    /\ SetStatus(v, "TERMINATED") /\ SetSwap(v, "FAILED")
    /\ UNCHANGED <<usdt, coBtc, locked, budget>>

\* One serializable transaction; the job runs again after an error, which the
\* status makes harmless, and is used up otherwise.
VaultWebhook(v) ==
    LET completed == swapAt[v].status = "completed"
        enough == swapAt[v].received >= Quoted[v]
        useful == Found(v) /\ IF completed THEN Fundable(v)
                              ELSE vault[v].status # "TERMINATED"
    IN  /\ swapJob[v] = "waiting"
        /\ swapJob' = [swapJob EXCEPT ![v] = "done"]
        /\ \/ useful /\ completed /\ enough /\ Fund(v)
           \/ useful /\ completed /\ FallsShort(v)
           \/ useful /\ ~completed /\ Fail(v)
           \/ /\ \/ ~useful
                 \/ ~CanReleaseBalance(btc, Charge(v))
                 \/ /\ completed /\ enough
                    /\ ~CanFund(v)
              /\ UNCHANGED <<users, company, records, budget>>
        /\ UNCHANGED <<swapAt, requests, mature, shards>>
---------------------------------------------------------------------------
(* unlock: early or late is decided before the transaction.                *)

UnlockStart(v) ==
    /\ vault[v].status = "ACTIVE" /\ closing[v] = "idle"
    /\ SetClosing(v, IF v \in mature THEN "late" ELSE "early")
    /\ UNCHANGED <<users, company, records, atQuidax, opening, cancelling, sawUsdt,
                   mature, shards, budget>>

\* Mutation of StillActive: the vault is not read again under its lock.
OnceActive(v) == TRUE

StillActive(v) == vault[v].status = "ACTIVE"

\* From here to the end of the transaction the vault's row is locked.
UnlockRead(v) ==
    /\ closing[v] \in {"early", "late"}
    /\ IF StillActive(v)
       THEN /\ SetClosing(v, IF closing[v] = "early" THEN "earlyRead"
                             ELSE "lateRead")
            /\ sawUsdt' = [sawUsdt EXCEPT ![v] = usdt]
       ELSE SetClosing(v, "idle") /\ UNCHANGED sawUsdt
    /\ UNCHANGED <<users, company, records, atQuidax, opening, cancelling, mature,
                   shards, budget>>

Penalty(a) == (a * 5) \div 100

UnlockWrite(v) ==
    LET early == closing[v] = "earlyRead"
        a == vault[v].amount
        back == IF early THEN a - Penalty(a) ELSE vault[v].receive
    IN  /\ closing[v] \in {"earlyRead", "lateRead"}
        /\ Note(Reading # {v}, "overlap")
        /\ usdt' = [base |-> sawUsdt[v].base + back,
                    locked |-> AtLeastZero(sawUsdt[v].locked - a),
                    interest |-> usdt.interest - vault[v].gain]
        /\ SetStatus(v, IF early THEN "TERMINATED" ELSE "MATURED")
        /\ locked' = Unlock(locked, a, vault[v].gain,
                            IF early THEN 0 ELSE Interest(v))
        /\ SetClosing(v, "idle")
        /\ UNCHANGED <<btc, coUsdt, coBtc, swap, atQuidax, opening, cancelling,
                       sawUsdt, mature, shards>>
---------------------------------------------------------------------------
(* vault-interest.scheduler.ts                                             *)

TimePasses(v) ==
    /\ vault[v].status = "ACTIVE" /\ v \notin mature
    /\ mature' = mature \cup {v}
    /\ UNCHANGED <<users, company, records, atQuidax, requests, shards, budget>>

DueForPayment(v) == v \in mature /\ vault[v].status = "ACTIVE"

Dispatch ==
    /\ shards = {} /\ \E v \in Vaults : DueForPayment(v)
    /\ shards' = {v \in Vaults : DueForPayment(v)}
    /\ UNCHANGED <<users, company, records, atQuidax, requests, mature, budget>>

\* The vaults of a shard one by one, each in a transaction that waits for the
\* vault's row; an error is logged and the next run tries again.
MatureOne(v) ==
    LET a == vault[v].amount
    IN  /\ v \in shards /\ closing[v] \notin {"earlyRead", "lateRead"}
        /\ shards' = shards \ {v}
        /\ \/ /\ StillActive(v)
              /\ Note(Reading # {}, "overlap")
              /\ usdt' = [base |-> usdt.base + vault[v].receive,
                          locked |-> AtLeastZero(usdt.locked - a),
                          interest |-> AtLeastZero(usdt.interest - vault[v].gain)]
              /\ SetStatus(v, "MATURED")
              /\ locked' = Unlock(locked, a, vault[v].gain, Interest(v))
           \/ ~StillActive(v) /\ UNCHANGED <<usdt, vault, locked, budget>>
           \/ Spend("error") /\ UNCHANGED <<usdt, vault, locked>>
        /\ UNCHANGED <<btc, coUsdt, coBtc, swap, atQuidax, requests, mature>>

\* The process dies: requests end where they are, jobs are handed out again.
VaultCrash ==
    /\ Spend("crash")
    /\ opening' = [v \in Vaults |-> IF opening[v] = "new" THEN "new" ELSE "done"]
    /\ closing' = [v \in Vaults |-> "idle"]
    /\ cancelling' = [v \in Swapped |-> "idle"]
    /\ UNCHANGED <<users, company, records, atQuidax, sawUsdt, mature, shards>>

VaultNext ==
    \/ \E v \in Vaults :
         \/ VaultRead(v) \/ VaultOpen(v)
         \/ UnlockStart(v) \/ UnlockRead(v) \/ UnlockWrite(v)
         \/ TimePasses(v) \/ MatureOne(v)
    \/ \E v \in Swapped :
         \/ VaultHold(v) \/ VaultReserve(v) \/ VaultPost(v) \/ VaultRecord(v)
         \/ VaultUndo(v)
         \/ CancelVault(v) \/ CancelSwap(v) \/ CancelCommit(v)
         \/ VaultSwapEnds(v) \/ VaultWebhook(v)
    \/ Dispatch \/ VaultCrash

\* The vaults' own behaviours.
VaultSpec == VaultInit /\ budget = Budget /\ [][VaultNext]_vaultVars

\* The scheduler runs every twelve hours and its jobs are carried out; a
\* request goes on until it ends.
VaultFairness ==
    /\ WF_vaultVars(Of("vault") /\ Dispatch)
    /\ WF_vaultVars(Of("vault") /\ \E v \in Vaults :
                        MatureOne(v) \/ UnlockRead(v) \/ UnlockWrite(v))
---------------------------------------------------------------------------
(***************************************************************************)
(* Properties                                                              *)
(***************************************************************************)
Total(f, S) == SumFunctionOnSet(f, S)
Is(status) == {v \in Vaults : vault[v].status = status}

\* No order of requests, webhooks and scheduler runs takes a balance below
\* zero or reserves more than there is.
VaultSafe == VaultTypeOK /\ WalletSolvent(btc) /\ CompanySolvent(coUsdt)

\* What a vault has given the user's USDT wallet, or taken from it.
PaidTo(v) ==
    LET opened == IF v \in Stable THEN 0 - Charge(v)
                  ELSE swapAt[v].received - Quoted[v]
        funded == IF v \in Stable THEN vault[v].status # "none"
                  ELSE swap[v].status = "COMPLETED"
    IN  IF ~funded THEN 0
        ELSE CASE vault[v].status = "ACTIVE" -> opened
               [] vault[v].status = "MATURED" -> opened + vault[v].receive
               [] OTHER -> opened + vault[v].amount - Penalty(vault[v].amount)

\* The company's totals are those of the active vaults, and every vault has
\* paid once: whichever of unlock and the scheduler does it, however often, and
\* whatever crashes. The wallet agrees, unless two requests overlap between
\* their read and their write; a cancellation that commits after its vault was
\* funded spoils both.
VaultBooks ==
    Untouched({"staleCancel"}) =>
      /\ locked.principal = Total([v \in Vaults |-> vault[v].amount], Is("ACTIVE"))
      /\ locked.accrued = Total([v \in Vaults |-> vault[v].gain], Is("ACTIVE"))
      /\ locked.paid = Total([v \in Vaults |-> Interest(v)], Is("MATURED"))
      /\ usdt.interest = locked.accrued
      /\ Untouched({"overlap"}) =>
           /\ usdt.locked = locked.principal
           /\ usdt.base = InitialUsdt + Total([v \in Vaults |-> PaidTo(v)], Vaults)

\* The bitcoin of every vault that waits for its swap are held, and no others;
\* so are the company's USDT from the quotation to the webhook, on top of what
\* others reserve. It may be less when the company had not enough: then a
\* refused vault gives back what it has not reserved.
VaultHeld ==
    LET pending == Is("PENDING")
        backed == {v \in pending : opening[v] \in {"reserved", "posted"}
                                     \/ opening[v] = "refused" \/ swap[v].known}
        enough == coUsdt.total - OthersReserved >= Total(Quoted, Swapped)
    IN  Untouched({"staleCancel"}) =>
          /\ btc.reserved = Total([v \in Vaults |-> Charge(v)], pending)
          /\ enough /\ Untouched({"crash"}) =>
               coUsdt.reserved = OthersReserved + Total(Quoted, backed)

\* What vaults hold, and what they have got and paid.
VaultExact == VaultBooks /\ VaultHeld

\* A vault that is due is paid, although a run of the scheduler may fail.
VaultsPaid == \A v \in Vaults : v \in mature => vault[v].status # "ACTIVE"
===========================================================================
