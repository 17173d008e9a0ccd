------------------------- MODULE Withdrawal_proofs -------------------------
(***************************************************************************)
(* Theorems about Withdrawal, for every set of withdrawals, every amount,  *)
(* any number of cancel requests and processors, and every fault budget.   *)
(*                                                                         *)
(* Sound carries the types and the solvency of both rows; a job that is    *)
(* not dead has an attempt left, without which attempts could go below     *)
(* zero. PaidInv follows the provider's Done from the job that looked it   *)
(* up to the records it wrote. NoPhantomHold bounds the wallet's hold by a *)
(* sum over the open withdrawals, with Begins for those yet to be opened.  *)
(* Flow and Backed are the exact books, of requests and scheduler alone.   *)
(***************************************************************************)
EXTENDS Withdrawal, Ledger_proofs

Ended == {"Done", "Rejected"}

\* A job exists only for a withdrawal Quidax ended, so it is created once,
\* and unless it is dead it has an attempt left.
AttemptsLeft ==
    \A w \in Withdrawals :
        /\ job[w] # "none" => quidax[w] \in Ended
        /\ job[w] # "dead" => attempts[w] > 0

Sound == TypeOK /\ Solvent /\ AttemptsLeft

\* The amounts of a withdrawal are naturals, its fee within its total.
LEMMA Amounts ==
    ASSUME NEW w \in Withdrawals
    PROVE Total[w] \in Nat /\ Fee[w] \in Nat /\ Sent(w) \in Nat
BY AmountsAssumption DEF Sent

\* The rows of a Sound state are good rows in the sense of Ledger_proofs.
LEMMA GoodRows == Sound => GoodWallet(wallet) /\ GoodCompany(company)
BY DEF Sound, TypeOK, Solvent, GoodWallet, GoodCompany

\* Giving both reservations back leaves both rows good.
LEMMA ReleaseBothGood ==
    ASSUME Sound, NEW w \in Withdrawals, CanReleaseBoth(w), ReleaseBoth(w)
    PROVE GoodWallet(wallet') /\ GoodCompany(company')
BY Amounts, GoodRows, ReleaseBalanceGood, ReleaseLiquidityGood DEF CanReleaseBoth, ReleaseBoth

\* The four updates of a settlement leave the company's row good.
LEMMA SettledGood ==
    ASSUME Sound, NEW w \in Withdrawals, CanSettle(w)
    PROVE GoodCompany(Settled(company, w))
<1> DEFINE c1 == SubtractInternal(company, Sent(w))
           c2 == ConsumeReservedLiquidity(c1, Sent(w))
<1>1. GoodCompany(company) /\ Sent(w) \in Nat /\ Fee[w] \in Nat
      /\ Total[w] \in Nat /\ Sent(w) = Total[w] - Fee[w]
  BY Amounts, GoodRows DEF Sent
<1>2. GoodCompany(c1)
  BY <1>1, SubtractInternalGood DEF CanSettle
<1>3. c1.reserved = company.reserved /\ c1.total = company.total
  BY <1>1 DEF GoodCompany, CompanyAccounts, SubtractInternal
<1>4. CanConsumeLiquidity(c1, Sent(w))
  BY <1>3 DEF CanSettle, CanConsumeLiquidity
<1>5. GoodCompany(c2)
  <2> HIDE DEF c1
  <2>. QED  BY <1>1, <1>2, <1>4, ConsumeLiquidityGood
<1>6. c2.reserved = company.reserved - Sent(w)
  <2> HIDE DEF c1
  <2>. QED  BY <1>2, <1>3 DEF GoodCompany, CompanyAccounts, ConsumeReservedLiquidity
<1>7. CanReleaseLiquidity(c2, Fee[w])
  <2> HIDE DEF c2
  <2>1. company.reserved \in Nat /\ company.reserved >= Total[w]
    BY <1>1 DEF CanSettle, GoodCompany, CompanyAccounts
  <2>. QED  BY <1>1, <1>6, <2>1 DEF CanReleaseLiquidity
<1>8. GoodCompany(ReleaseLiquidity(c2, Fee[w]))
  <2> HIDE DEF c2
  <2>. QED  BY <1>1, <1>5, <1>7, ReleaseLiquidityGood
<1>. QED  BY <1>8 DEF Settled

---------------------------------------------------------------------------
(* Sound is inductive. Each lemma covers the actions of one handler.       *)

\* What a step must leave behind, with the rows in the form of the lemmas.
LEMMA SoundFromRows ==
    ASSUME GoodWallet(wallet'), GoodCompany(company'), AttemptsLeft',
           txn' \in [Withdrawals -> [status : TxStates, processed : BOOLEAN]],
           wd' \in [Withdrawals -> WdStates],
           providerId' \in SUBSET Withdrawals,
           queued' \in SUBSET Withdrawals,
           quidax' \in [Withdrawals -> QuidaxStates],
           confirm' \in [Withdrawals -> ConfirmPc],
           cancel' \in [Cancellers -> [Withdrawals -> CancelPc]],
           job' \in [Withdrawals -> JobPc],
           attempts' \in [Withdrawals -> Nat],
           retry' \in [Processors -> [Withdrawals -> RetryPc]],
           budget' \in [Faults -> Nat]
    PROVE Sound'
BY DEF Sound, TypeOK, Solvent, GoodWallet, GoodCompany

LEMMA SoundInit == Init => Sound
BY AmountsAssumption, BoundsAssumption DEF Init, Sound, TypeOK, Solvent, AttemptsLeft, Wallets,
  CompanyAccounts, WalletSolvent, CompanySolvent, TxStates, WdStates, QuidaxStates, ConfirmPc,
  CancelPc, JobPc, RetryPc

\* A spent fault leaves the budget a budget.
LEMMA SpendType ==
    ASSUME TypeOK, NEW f \in Faults, Spend(f)
    PROVE budget' \in [Faults -> Nat]
<1>1. budget[f] - 1 \in Nat
  BY DEF TypeOK, Spend
<1>. QED  BY <1>1 DEF TypeOK, Spend

\* Writing a transaction's or a withdrawal's status keeps the column's type.
LEMMA SetTxnType ==
    ASSUME TypeOK, NEW w \in Withdrawals, NEW s \in TxStates,
           NEW p \in BOOLEAN, SetTxn(w, s, p)
    PROVE txn' \in [Withdrawals -> [status : TxStates, processed : BOOLEAN]]
BY DEF TypeOK, SetTxn

LEMMA SetWdType ==
    ASSUME TypeOK, NEW w \in Withdrawals, NEW s \in WdStates, SetWd(w, s)
    PROVE wd' \in [Withdrawals -> WdStates]
BY DEF TypeOK, SetWd

\* A step that leaves the jobs alone, and what Quidax ended ended, keeps the
\* attempts accounted for.
LEMMA AttemptsKept ==
    ASSUME AttemptsLeft, UNCHANGED <<job, attempts>>,
           \A v \in Withdrawals : quidax[v] \in Ended => quidax'[v] = quidax[v]
    PROVE AttemptsLeft'
BY DEF AttemptsLeft

\* Moving a program counter keeps its type.
LEMMA SetCancelType ==
    ASSUME TypeOK, NEW c \in Cancellers, NEW w \in Withdrawals,
           NEW pc \in CancelPc, SetCancel(c, w, pc)
    PROVE cancel' \in [Cancellers -> [Withdrawals -> CancelPc]]
BY DEF TypeOK, SetCancel

LEMMA SetRetryType ==
    ASSUME TypeOK, NEW p \in Processors, NEW w \in Withdrawals,
           NEW pc \in RetryPc, SetRetry(p, w, pc)
    PROVE retry' \in [Processors -> [Withdrawals -> RetryPc]]
BY DEF TypeOK, SetRetry

\* confirmSend keeps Sound: the DB transaction, the POST and what follows it.
LEMMA SoundConfirm ==
    ASSUME Sound, NEW w \in Withdrawals, ConfirmStep(w)
    PROVE Sound'
<1>1. /\ GoodWallet(wallet) /\ GoodCompany(company) /\ Total[w] \in Nat
      /\ TypeOK /\ AttemptsLeft
  BY Amounts, GoodRows DEF Sound
<1>2. CASE ConfirmReserve(w)
  <2>1. GoodWallet(wallet')
    BY <1>1, <1>2, ReserveBalanceGood DEF ConfirmReserve
  <2>2. GoodCompany(company')
    BY <1>1, <1>2, ReserveLiquidityGood DEF ConfirmReserve
  <2>3. /\ txn' \in [Withdrawals -> [status : TxStates, processed : BOOLEAN]]
        /\ wd' \in [Withdrawals -> WdStates]
    BY <1>1, <1>2, SetTxnType, SetWdType DEF ConfirmReserve, TxStates, WdStates
  <2>4. confirm' \in [Withdrawals -> ConfirmPc]
        /\ queued' \in SUBSET Withdrawals
    BY <1>1, <1>2 DEF ConfirmReserve, TypeOK, ConfirmPc
  <2>5. AttemptsLeft'
    BY <1>1, <1>2, AttemptsKept DEF ConfirmReserve
  <2>. QED
    BY <1>1, <1>2, <2>1, <2>2, <2>3, <2>4, <2>5, SoundFromRows DEF ConfirmReserve, TypeOK
<1>3. CASE ConfirmPost(w)
  <2>1. quidax' \in [Withdrawals -> QuidaxStates]
        /\ confirm' \in [Withdrawals -> ConfirmPc]
    BY <1>1, <1>3 DEF ConfirmPost, TypeOK, QuidaxStates, ConfirmPc
  <2>2. budget' \in [Faults -> Nat]
    <3>1. CASE Spend("lostAnswer")
      BY <1>1, <3>1, SpendType DEF Faults
    <3>. QED  BY <1>1, <1>3, <3>1 DEF ConfirmPost, TypeOK
  <2>3. AttemptsLeft'
    BY <1>1, <1>3, AttemptsKept DEF ConfirmPost, TypeOK, Ended
  <2>. QED
    BY <1>1, <1>3, <2>1, <2>2, <2>3, SoundFromRows DEF ConfirmPost, TypeOK, db
<1>4. CASE ConfirmCompensate(w)
  <2>1. GoodWallet(wallet') /\ GoodCompany(company')
    BY <1>1, <1>4, ReleaseBothGood DEF ConfirmCompensate
  <2>2. /\ txn' \in [Withdrawals -> [status : TxStates, processed : BOOLEAN]]
        /\ wd' \in [Withdrawals -> WdStates]
    <3>1. CASE CanReleaseBoth(w)
      BY <1>1, <1>4, <3>1, SetTxnType, SetWdType DEF ConfirmCompensate, TxStates, WdStates
    <3>. QED  BY <1>1, <1>4, <3>1 DEF ConfirmCompensate, TypeOK
  <2>3. confirm' \in [Withdrawals -> ConfirmPc] /\ AttemptsLeft'
    BY <1>1, <1>4, AttemptsKept DEF ConfirmCompensate, TypeOK, ConfirmPc
  <2>. QED
    BY <1>1, <1>4, <2>1, <2>2, <2>3, SoundFromRows DEF ConfirmCompensate, TypeOK
<1>5. CASE ConfirmRecord(w)
  <2>1. /\ confirm' \in [Withdrawals -> ConfirmPc]
        /\ providerId' \in SUBSET Withdrawals /\ AttemptsLeft'
    BY <1>1, <1>5, AttemptsKept DEF ConfirmRecord, TypeOK, ConfirmPc
  <2>. QED
    BY <1>1, <1>5, <2>1, SoundFromRows DEF ConfirmRecord, TypeOK
<1>6. CASE ConfirmError(w)
  <2>1. /\ confirm' \in [Withdrawals -> ConfirmPc]
        /\ budget' \in [Faults -> Nat] /\ AttemptsLeft'
    BY <1>1, <1>6, AttemptsKept, SpendType DEF ConfirmError, TypeOK, ConfirmPc, Faults
  <2>. QED
    BY <1>1, <1>6, <2>1, SoundFromRows DEF ConfirmError, TypeOK, db
<1>. QED  BY <1>2, <1>3, <1>4, <1>5, <1>6 DEF ConfirmStep

\* cancelWithdrawal keeps Sound, on whatever its stale reads decided.
LEMMA SoundCancel ==
    ASSUME Sound, NEW w \in Withdrawals, NEW c \in Cancellers,
           CancelStep(c, w)
    PROVE Sound'
<1>1. /\ GoodWallet(wallet) /\ GoodCompany(company) /\ Total[w] \in Nat
      /\ TypeOK /\ AttemptsLeft
  BY Amounts, GoodRows DEF Sound
<1>2. CASE CancelRead(c, w)
  <2>1. cancel' \in [Cancellers -> [Withdrawals -> CancelPc]]
    BY <1>1, <1>2, SetCancelType DEF CancelRead, CancelPc
  <2>2. AttemptsLeft'
    BY <1>1, <1>2, AttemptsKept DEF CancelRead
  <2>. QED
    BY <1>1, <1>2, <2>1, <2>2, SoundFromRows DEF CancelRead, TypeOK, db
<1>3. CASE CancelLocal(c, w)
  <2>1. GoodWallet(wallet') /\ GoodCompany(company')
    BY <1>1, <1>3, ReleaseBothGood, ReleaseBalanceGood DEF CancelLocal
  <2>2. /\ txn' \in [Withdrawals -> [status : TxStates, processed : BOOLEAN]]
        /\ wd' \in [Withdrawals -> WdStates]
    <3>1. CASE CancelRecords(w)
      BY <1>1, <3>1, SetTxnType, SetWdType DEF CancelRecords, TxStates, WdStates
    <3>. QED  BY <1>1, <1>3, <3>1 DEF CancelLocal, TypeOK
  <2>3. cancel' \in [Cancellers -> [Withdrawals -> CancelPc]]
    BY <1>1, <1>3, SetCancelType DEF CancelLocal, CancelPc
  <2>4. AttemptsLeft'
    BY <1>1, <1>3, AttemptsKept DEF CancelLocal
  <2>. QED
    BY <1>1, <1>3, <2>1, <2>2, <2>3, <2>4, SoundFromRows DEF CancelLocal, TypeOK
<1>4. CASE CancelRemote(c, w)
  <2>1. quidax' \in [Withdrawals -> QuidaxStates]
    BY <1>1, <1>4 DEF CancelRemote, TypeOK, QuidaxStates
  <2>2. cancel' \in [Cancellers -> [Withdrawals -> CancelPc]]
    BY <1>1, <1>4, SetCancelType DEF CancelRemote, CancelPc
  <2>3. budget' \in [Faults -> Nat]
    <3>1. CASE Spend("lostAnswer")
      BY <1>1, <3>1, SpendType DEF Faults
    <3>. QED  BY <1>1, <1>4, <3>1 DEF CancelRemote, TypeOK
  <2>4. AttemptsLeft'
    BY <1>1, <1>4, AttemptsKept DEF CancelRemote, TypeOK, Ended
  <2>. QED
    BY <1>1, <1>4, <2>1, <2>2, <2>3, <2>4, SoundFromRows DEF CancelRemote, TypeOK, db
<1>5. CASE CancelFinish(c, w)
  <2>1. GoodWallet(wallet') /\ GoodCompany(company')
    BY <1>1, <1>5, ReleaseBothGood DEF CancelFinish
  <2>2. /\ txn' \in [Withdrawals -> [status : TxStates, processed : BOOLEAN]]
        /\ wd' \in [Withdrawals -> WdStates]
    <3>1. CASE CancelRecords(w)
      BY <1>1, <3>1, SetTxnType, SetWdType DEF CancelRecords, TxStates, WdStates
    <3>. QED  BY <1>1, <1>5, <3>1 DEF CancelFinish, TypeOK
  <2>3. cancel' \in [Cancellers -> [Withdrawals -> CancelPc]]
    BY <1>1, <1>5, SetCancelType DEF CancelFinish, CancelPc
  <2>4. AttemptsLeft'
    BY <1>1, <1>5, AttemptsKept DEF CancelFinish
  <2>. QED
    BY <1>1, <1>5, <2>1, <2>2, <2>3, <2>4, SoundFromRows DEF CancelFinish, TypeOK
<1>6. CASE CancelError(c, w)
  <2>1. /\ cancel' \in [Cancellers -> [Withdrawals -> CancelPc]]
        /\ budget' \in [Faults -> Nat] /\ AttemptsLeft'
    BY <1>1, <1>6, AttemptsKept, SpendType, SetCancelType DEF CancelError, CancelPc, Faults
  <2>. QED
    BY <1>1, <1>6, <2>1, SoundFromRows DEF CancelError, TypeOK, db
<1>. QED  BY <1>2, <1>3, <1>4, <1>5, <1>6 DEF CancelStep

\* Quidax ending a withdrawal hands its job to a worker.
LEMMA SoundQuidax ==
    ASSUME Sound, NEW w \in Withdrawals, QuidaxFinish(w)
    PROVE Sound'
<1>1. GoodWallet(wallet) /\ GoodCompany(company) /\ TypeOK /\ AttemptsLeft
  BY GoodRows DEF Sound
<1>. QED
  <2>1. /\ quidax' \in [Withdrawals -> QuidaxStates]
        /\ job' \in [Withdrawals -> JobPc]
    BY <1>1 DEF QuidaxFinish, TypeOK, QuidaxStates, JobPc
  <2>2. AttemptsLeft'
    BY <1>1 DEF QuidaxFinish, TypeOK, AttemptsLeft, Ended
  <2>. QED  BY <1>1, <2>1, <2>2, SoundFromRows DEF QuidaxFinish, TypeOK, db

\* The webhook job keeps Sound, retries and the error branch included.
LEMMA SoundJob ==
    ASSUME Sound, NEW w \in Withdrawals, JobStep(w)
    PROVE Sound'
<1>1. /\ GoodWallet(wallet) /\ GoodCompany(company) /\ Total[w] \in Nat
      /\ TypeOK /\ AttemptsLeft
  BY Amounts, GoodRows DEF Sound
<1>2. CASE JobCheck(w)
  <2>1. job' \in [Withdrawals -> JobPc] /\ AttemptsLeft'
    BY <1>1, <1>2 DEF JobCheck, TypeOK, JobPc, AttemptsLeft
  <2>2. budget' \in [Faults -> Nat]
    <3>1. CASE Spend("lookup")
      BY <1>1, <3>1, SpendType DEF Faults
    <3>. QED  BY <1>1, <1>2, <3>1 DEF JobCheck, TypeOK
  <2>. QED
    BY <1>1, <1>2, <2>1, <2>2, SoundFromRows DEF JobCheck, TypeOK, db
<1>3. CASE JobCommit(w)
  <2>1. GoodWallet(wallet')
    BY <1>1, <1>3, FinalizeBalanceGood DEF JobCommit, CanSettle
  <2>2. GoodCompany(company')
    BY <1>1, <1>3, SettledGood DEF JobCommit
  <2>3. /\ txn' \in [Withdrawals -> [status : TxStates, processed : BOOLEAN]]
        /\ wd' \in [Withdrawals -> WdStates]
    BY <1>1, <1>3, SetTxnType, SetWdType DEF JobCommit, TxStates, WdStates
  <2>4. job' \in [Withdrawals -> JobPc] /\ AttemptsLeft'
    BY <1>1, <1>3 DEF JobCommit, TypeOK, JobPc, AttemptsLeft
  <2>. QED
    BY <1>1, <1>3, <2>1, <2>2, <2>3, <2>4, SoundFromRows DEF JobCommit, TypeOK
<1>4. CASE JobMarkFailed(w)
  <2>1. wd' \in [Withdrawals -> WdStates]
    BY <1>1, <1>4, SetWdType DEF JobMarkFailed, WdStates
  <2>2. job' \in [Withdrawals -> JobPc] /\ AttemptsLeft'
    BY <1>1, <1>4 DEF JobMarkFailed, TypeOK, JobPc, AttemptsLeft
  <2>. QED
    BY <1>1, <1>4, <2>1, <2>2, SoundFromRows DEF JobMarkFailed, TypeOK
<1>5. CASE JobTransient(w)
  <2>1. attempts[w] - 1 \in Nat
    BY <1>1, <1>5 DEF JobTransient, TypeOK, AttemptsLeft
  <2>2. attempts' \in [Withdrawals -> Nat] /\ job' \in [Withdrawals -> JobPc]
    BY <1>1, <1>5, <2>1 DEF JobTransient, TypeOK, JobPc
  <2>3. AttemptsLeft'
    BY <1>1, <1>5, <2>1 DEF JobTransient, TypeOK, AttemptsLeft, LastAttempt
  <2>4. budget' \in [Faults -> Nat]
    BY <1>1, <1>5, SpendType DEF JobTransient, Faults
  <2>. QED
    BY <1>1, <1>5, <2>2, <2>3, <2>4, SoundFromRows DEF JobTransient, TypeOK, db
<1>6. CASE JobFinish(w)
  <2>1. job' \in [Withdrawals -> JobPc] /\ AttemptsLeft'
    BY <1>1, <1>6 DEF JobFinish, TypeOK, JobPc, AttemptsLeft
  <2>. QED  BY <1>1, <1>6, <2>1, SoundFromRows DEF JobFinish, TypeOK, db
<1>7. CASE JobError(w)
  <2>1. job' \in [Withdrawals -> JobPc] /\ AttemptsLeft'
    BY <1>1, <1>7 DEF JobError, TypeOK, JobPc, AttemptsLeft
  <2>2. budget' \in [Faults -> Nat]
    <3>1. CASE Spend("dbError")
      BY <1>1, <3>1, SpendType DEF Faults
    <3>. QED  BY <1>1, <1>7, <3>1 DEF JobError, TypeOK
  <2>. QED
    BY <1>1, <1>7, <2>1, <2>2, SoundFromRows DEF JobError, TypeOK, db
<1>. QED  BY <1>2, <1>3, <1>4, <1>5, <1>6, <1>7 DEF JobStep

\* The retry of a queued record keeps Sound, by either processor.
LEMMA SoundRetry ==
    ASSUME Sound, NEW w \in Withdrawals, NEW p \in Processors,
           RetryStep(p, w)
    PROVE Sound'
<1>1. /\ GoodWallet(wallet) /\ GoodCompany(company) /\ Total[w] \in Nat
      /\ TypeOK /\ AttemptsLeft
  BY Amounts, GoodRows DEF Sound
<1>2. AttemptsLeft'
  BY <1>1, AttemptsKept DEF RetryStep, RetryCheck, RetryReserve, RetryPost, RetryRecord,
    RetryFinish, RetryUndo, RetryError, db, TypeOK, Ended
<1>3. retry' \in [Processors -> [Withdrawals -> RetryPc]]
  BY <1>1, SetRetryType DEF RetryStep, RetryCheck, RetryReserve, RetryPost, RetryRecord,
    RetryFinish, RetryUndo, RetryError, RetryPc, TypeOK
<1>4. CASE RetryCheck(p, w)
  BY <1>1, <1>2, <1>3, <1>4, SoundFromRows DEF RetryCheck, TypeOK
<1>5. CASE RetryReserve(p, w)
  <2>1. GoodCompany(company')
    BY <1>1, <1>5, ReserveLiquidityGood DEF RetryReserve
  <2>. QED
    BY <1>1, <1>2, <1>3, <1>5, <2>1, SoundFromRows DEF RetryReserve, TypeOK
<1>6. CASE RetryPost(p, w)
  <2>1. quidax' \in [Withdrawals -> QuidaxStates]
    BY <1>1, <1>6 DEF RetryPost, TypeOK, QuidaxStates
  <2>2. budget' \in [Faults -> Nat]
    <3>1. CASE Spend("lostAnswer")
      BY <1>1, <3>1, SpendType DEF Faults
    <3>. QED  BY <1>1, <1>6, <3>1 DEF RetryPost, TypeOK
  <2>. QED
    BY <1>1, <1>2, <1>3, <1>6, <2>1, <2>2, SoundFromRows DEF RetryPost, TypeOK, db
<1>7. CASE RetryRecord(p, w)
  <2>1. txn[w].processed \in BOOLEAN
    BY <1>1 DEF TypeOK
  <2>2. /\ txn' \in [Withdrawals -> [status : TxStates, processed : BOOLEAN]]
        /\ wd' \in [Withdrawals -> WdStates]
    BY <1>1, <1>7, <2>1, SetTxnType, SetWdType DEF RetryRecord, TxStates, WdStates
  <2>. QED
    BY <1>1, <1>2, <1>3, <1>7, <2>2, SoundFromRows DEF RetryRecord, TypeOK
<1>8. CASE RetryFinish(p, w)
  BY <1>1, <1>2, <1>3, <1>8, SoundFromRows DEF RetryFinish, TypeOK
<1>9. CASE RetryUndo(p, w)
  <2>1. GoodCompany(company')
    BY <1>1, <1>9, ReleaseLiquidityGood DEF RetryUndo, GivenBack
  <2>. QED
    BY <1>1, <1>2, <1>3, <1>9, <2>1, SoundFromRows DEF RetryUndo, TypeOK
<1>10. CASE RetryError(p, w)
  <2>1. budget' \in [Faults -> Nat]
    BY <1>1, <1>10, SpendType DEF RetryError, Faults
  <2>. QED
    BY <1>1, <1>2, <1>3, <1>10, <2>1, SoundFromRows DEF RetryError, TypeOK, db
<1>. QED  BY <1>4, <1>5, <1>6, <1>7, <1>8, <1>9, <1>10 DEF RetryStep

\* The expiry of a queued record keeps Sound, from a snapshot or not.
LEMMA SoundExpire ==
    ASSUME Sound, NEW w \in Withdrawals, ExpireStep(w)
    PROVE Sound'
<1>1. /\ GoodWallet(wallet) /\ GoodCompany(company) /\ Total[w] \in Nat
      /\ TypeOK /\ AttemptsLeft /\ Hourly \in Processors
  BY Amounts, GoodRows DEF Sound, Processors
<1>2. AttemptsLeft'
  BY <1>1, AttemptsKept DEF ExpireStep, ExpireRead, ExpireCommit
<1>3. retry' \in [Processors -> [Withdrawals -> RetryPc]]
  BY <1>1, SetRetryType DEF ExpireStep, ExpireRead, ExpireCommit, RetryPc, TypeOK
<1>4. CASE ExpireRead(w)
  <2>1. budget' \in [Faults -> Nat]
    BY <1>1, <1>4, SpendType DEF ExpireRead, Faults
  <2>. QED
    BY <1>1, <1>2, <1>3, <1>4, <2>1, SoundFromRows DEF ExpireRead, TypeOK
<1>5. CASE ExpireCommit(w)
  <2>1. GoodWallet(wallet')
    BY <1>1, <1>5, ReleaseBalanceGood DEF ExpireCommit
  <2>2. /\ txn' \in [Withdrawals -> [status : TxStates, processed : BOOLEAN]]
        /\ queued' \in SUBSET Withdrawals
    <3>1. CASE ExpireRecords(w)
      BY <1>1, <3>1, SetTxnType DEF ExpireRecords, TxStates, TypeOK
    <3>. QED  BY <1>1, <1>5, <3>1 DEF ExpireCommit, TypeOK
  <2>. QED
    BY <1>1, <1>2, <1>3, <1>5, <2>1, <2>2, SoundFromRows DEF ExpireCommit, TypeOK
<1>. QED  BY <1>4, <1>5 DEF ExpireStep

\* Outside liquidity, and the death of the process, keep Sound.
LEMMA SoundOutside ==
    ASSUME Sound, TopUp \/ Crash
    PROVE Sound'
<1>1. GoodWallet(wallet) /\ GoodCompany(company) /\ TypeOK /\ AttemptsLeft
  BY GoodRows DEF Sound
<1>2. budget' \in [Faults -> Nat]
  BY <1>1, SpendType DEF TopUp, Crash, Faults
<1>3. CASE TopUp
  <2>1. GoodCompany(company') /\ AttemptsLeft'
    BY <1>1, <1>3, AddLiquidityGood, AmountsAssumption, AttemptsKept DEF TopUp
  <2>. QED  BY <1>1, <1>2, <1>3, <2>1, SoundFromRows DEF TopUp, TypeOK
<1>4. CASE Crash
  <2>1. /\ confirm' \in [Withdrawals -> ConfirmPc]
        /\ cancel' \in [Cancellers -> [Withdrawals -> CancelPc]]
        /\ job' \in [Withdrawals -> JobPc]
        /\ retry' \in [Processors -> [Withdrawals -> RetryPc]]
    BY <1>1, <1>4 DEF Crash, TypeOK, ConfirmPc, CancelPc, JobPc, RetryPc
  <2>2. AttemptsLeft'
    BY <1>1, <1>4 DEF Crash, TypeOK, AttemptsLeft
  <2>. QED
    BY <1>1, <1>2, <1>4, <2>1, <2>2, SoundFromRows DEF Crash, TypeOK, db
<1>. QED  BY <1>3, <1>4

LEMMA SoundNext == Sound /\ [Next]_vars => Sound'
<1>. SUFFICES ASSUME Sound, [Next]_vars PROVE Sound'
  OBVIOUS
<1>1. CASE UNCHANGED vars
  BY <1>1 DEF vars, Sound, TypeOK, Solvent, AttemptsLeft
<1>2. CASE Next
  BY <1>2, SoundConfirm, SoundJob, SoundExpire, SoundQuidax, SoundCancel, SoundRetry, SoundOutside
    DEF Next
<1>. QED  BY <1>1, <1>2

\* Every reachable state is Sound.
THEOREM SoundAlways == Spec => []Sound
BY SoundInit, SoundNext, PTL DEF Spec

\* The types are right, whatever the amounts, requests and faults.
THEOREM TypeCorrect == Spec => []TypeOK
<1>1. Sound => TypeOK
  BY DEF Sound
<1>. QED  BY <1>1, SoundAlways, PTL

\* Whatever confirmSend, the cancellations, the webhook jobs, the retries and
\* the expiry do to the two rows, in any order and with any fault, no wallet
\* reserves more than it holds, no company account over-commits its total,
\* and no column goes negative.
THEOREM AlwaysSolvent == Spec => []Solvent
<1>1. Sound => Solvent
  BY DEF Sound
<1>. QED  BY <1>1, SoundAlways, PTL

---------------------------------------------------------------------------
(* No transaction is COMPLETED unless Quidax paid it.                      *)

\* A job that passed the lookup knows Quidax said Done, and Done is final.
PaidInv ==
    \A w \in Withdrawals :
        /\ job[w] \in {"confirmed", "failing", "committed"}
             => quidax[w] = "Done"
        /\ txn[w].status = "COMPLETED" \/ wd[w] = "SUCCESS"
             => quidax[w] = "Done"

LEMMA PaidInit == Init => PaidInv
BY DEF Init, PaidInv

\* What Quidax paid stays paid, so a completed lookup stays true.
LEMMA DoneStays ==
    ASSUME TypeOK, Next, NEW w \in Withdrawals, quidax[w] = "Done"
    PROVE quidax'[w] = "Done"
<1>1. ASSUME NEW v \in Withdrawals, ConfirmStep(v) PROVE quidax'[w] = "Done"
  BY <1>1 DEF TypeOK, ConfirmStep, ConfirmReserve, ConfirmPost, ConfirmCompensate, ConfirmRecord,
    ConfirmError
<1>2. ASSUME NEW v \in Withdrawals, NEW c \in Cancellers, CancelStep(c, v)
      PROVE quidax'[w] = "Done"
  BY <1>2 DEF TypeOK, CancelStep, CancelRead, CancelLocal, CancelRemote, CancelFinish, CancelError
<1>3. ASSUME NEW v \in Withdrawals, NEW p \in Processors, RetryStep(p, v)
      PROVE quidax'[w] = "Done"
  BY <1>3 DEF TypeOK, RetryStep, RetryCheck, RetryReserve, RetryPost, RetryRecord, RetryFinish,
    RetryUndo, RetryError
<1>4. ASSUME NEW v \in Withdrawals,
             JobStep(v) \/ ExpireStep(v) \/ QuidaxFinish(v)
      PROVE quidax'[w] = "Done"
  BY <1>4 DEF TypeOK, JobStep, JobCheck, JobCommit, JobError, JobMarkFailed, JobTransient,
    JobFinish, ExpireStep, ExpireRead, ExpireCommit, QuidaxFinish
<1>5. CASE TopUp \/ Crash
  BY <1>5 DEF TopUp, Crash
<1>. QED  BY <1>1, <1>2, <1>3, <1>4, <1>5 DEF Next

\* Nothing new is claimed of w: no lookup passed, no record completed.
NoNewClaim(w) ==
    /\ job'[w] \in {"confirmed", "failing", "committed"}
         => job[w] \in {"confirmed", "failing", "committed"}
    /\ txn'[w].status = "COMPLETED" => txn[w].status = "COMPLETED"
    /\ wd'[w] = "SUCCESS" => wd[w] = "SUCCESS"

\* Only the webhook handler claims that a withdrawal was paid.
LEMMA OnlyJobsClaim ==
    ASSUME TypeOK, NEW w \in Withdrawals, Next,
           ~ \E v \in Withdrawals : JobStep(v)
    PROVE NoNewClaim(w)
<1>. USE DEF NoNewClaim, SetTxn, SetWd, TypeOK
<1>1. ASSUME NEW v \in Withdrawals, ConfirmStep(v) PROVE NoNewClaim(w)
  <2>1. CASE ConfirmReserve(v)
    BY <2>1 DEF ConfirmReserve
  <2>2. CASE ConfirmPost(v)
    BY <2>2 DEF ConfirmPost, db
  <2>3. CASE ConfirmCompensate(v)
    BY <2>3 DEF ConfirmCompensate
  <2>4. CASE ConfirmRecord(v) \/ ConfirmError(v)
    BY <2>4 DEF ConfirmRecord, ConfirmError, db
  <2>. QED  BY <1>1, <2>1, <2>2, <2>3, <2>4 DEF ConfirmStep
<1>2. ASSUME NEW v \in Withdrawals, NEW c \in Cancellers, CancelStep(c, v)
      PROVE NoNewClaim(w)
  <2>1. CASE CancelRead(c, v) \/ CancelError(c, v)
    BY <2>1 DEF CancelRead, CancelError, db
  <2>2. CASE CancelLocal(c, v)
    BY <2>2 DEF CancelLocal, CancelRecords
  <2>3. CASE CancelRemote(c, v)
    BY <2>3 DEF CancelRemote, db
  <2>4. CASE CancelFinish(c, v)
    BY <2>4 DEF CancelFinish, CancelRecords
  <2>. QED  BY <1>2, <2>1, <2>2, <2>3, <2>4 DEF CancelStep
<1>3. ASSUME NEW v \in Withdrawals, NEW p \in Processors, RetryStep(p, v)
      PROVE NoNewClaim(w)
  <2>1. CASE RetryRecord(p, v)
    BY <2>1 DEF RetryRecord
  <2>2. CASE RetryPost(p, v) \/ RetryError(p, v)
    BY <2>2 DEF RetryPost, RetryError, db
  <2>. QED
    BY <1>3, <2>1, <2>2 DEF RetryStep, RetryCheck, RetryReserve, RetryFinish, RetryUndo
<1>4. ASSUME NEW v \in Withdrawals, ExpireStep(v) PROVE NoNewClaim(w)
  <2>1. CASE ExpireRead(v)
    BY <2>1 DEF ExpireRead
  <2>2. CASE ExpireCommit(v)
    BY <2>2 DEF ExpireCommit, ExpireRecords
  <2>. QED  BY <1>4, <2>1, <2>2 DEF ExpireStep
<1>5. ASSUME NEW v \in Withdrawals, QuidaxFinish(v) PROVE NoNewClaim(w)
  BY <1>5 DEF QuidaxFinish, db
<1>6. CASE TopUp \/ Crash
  BY <1>6 DEF TopUp, Crash, db
<1>. QED  BY <1>1, <1>2, <1>3, <1>4, <1>5, <1>6 DEF Next

\* The handler claims it of the withdrawal it looked up, and of no other.
LEMMA JobsClaimPaid ==
    ASSUME TypeOK, PaidInv, NEW w \in Withdrawals, NEW v \in Withdrawals,
           JobStep(v)
    PROVE NoNewClaim(w) \/ quidax[w] = "Done"
<1>. USE DEF NoNewClaim, SetTxn, SetWd, TypeOK, PaidInv
<1>1. CASE JobCheck(v)
  BY <1>1 DEF JobCheck, ProviderConfirms, db
<1>2. CASE JobCommit(v)
  BY <1>2 DEF JobCommit
<1>3. CASE JobMarkFailed(v)
  BY <1>3 DEF JobMarkFailed
<1>4. CASE JobTransient(v)
  BY <1>4 DEF JobTransient, db
<1>5. CASE JobFinish(v)
  BY <1>5 DEF JobFinish, db
<1>6. CASE JobError(v)
  BY <1>6 DEF JobError, db
<1>. QED  BY <1>1, <1>2, <1>3, <1>4, <1>5, <1>6 DEF JobStep

LEMMA PaidNext == TypeOK /\ PaidInv /\ [Next]_vars => PaidInv'
<1>. SUFFICES ASSUME TypeOK, PaidInv, [Next]_vars PROVE PaidInv'
  OBVIOUS
<1>1. CASE UNCHANGED vars
  BY <1>1 DEF vars, PaidInv
<1>2. CASE Next
  <2>1. ASSUME NEW w \in Withdrawals
        PROVE NoNewClaim(w) \/ quidax[w] = "Done"
    BY <1>2, OnlyJobsClaim, JobsClaimPaid
  <2>2. ASSUME NEW w \in Withdrawals, quidax[w] = "Done"
        PROVE quidax'[w] = "Done"
    BY <1>2, <2>2, DoneStays
  <2>. QED  BY <2>1, <2>2 DEF PaidInv, NoNewClaim
<1>. QED  BY <1>1, <1>2

\* A withdrawal the records call COMPLETED or SUCCESS was paid by Quidax,
\* whatever jobs were rerun, retries overwrote statuses or requests crashed.
THEOREM CompletedOnlyIfPaid == Spec => []CompletedWasPaid
<1>1. PaidInv => CompletedWasPaid
  BY DEF PaidInv, CompletedWasPaid
<1>. QED  BY <1>1, PaidInit, PaidNext, TypeCorrect, PTL DEF Spec

\* Both together: what the run WithdrawalEvery checks with two withdrawals, for
\* every number of them.
THEOREM AlwaysSafe == Spec => []Safe
BY TypeCorrect, AlwaysSolvent, PTL DEF Safe

---------------------------------------------------------------------------
(* No hold without an open transaction. The reservation is bounded by a    *)
(* sum over the open withdrawals, of which there may be any number.        *)

\* Nothing exists yet of a withdrawal nobody confirmed.
Fresh(w) == /\ txn[w].status = "none" /\ quidax[w] = "none"
            /\ job[w] = "none" /\ w \notin queued
            /\ \A c \in Cancellers : cancel[c][w] = "idle"
            /\ \A p \in Processors : retry[p][w] = "idle"

Begins == \A w \in Withdrawals : confirm[w] = "idle" => Fresh(w)

LEMMA BeginsInit == Init => Begins
BY DEF Init, Begins, Fresh

\* A step for v changes nothing of the other withdrawals that Fresh reads.
OnlyFor(v) == \A w \in Withdrawals \ {v} :
                 /\ confirm'[w] = confirm[w]
                 /\ Fresh(w) => Fresh(w)'

LEMMA BeginsStep ==
    ASSUME Begins, NEW v \in Withdrawals, confirm'[v] # "idle", OnlyFor(v)
    PROVE  Begins'
BY DEF Begins, OnlyFor

\* confirmSend is what ends the freshness of its withdrawal.
LEMMA BeginsConfirm ==
    ASSUME TypeOK, Begins, NEW v \in Withdrawals,
           ConfirmStep(v)
    PROVE  Begins'
<1>. USE DEF TypeOK, OnlyFor, Fresh, SetTxn, SetWd
<1>1. CASE ConfirmReserve(v)
  <2>1. confirm'[v] # "idle" /\ OnlyFor(v)
    BY <1>1 DEF ConfirmReserve, Begins
  <2>. QED  BY <2>1, BeginsStep
<1>2. CASE ConfirmPost(v)
  <2>1. confirm'[v] # "idle" /\ OnlyFor(v)
    BY <1>2 DEF ConfirmPost, Begins, db
  <2>. QED  BY <2>1, BeginsStep
<1>3. CASE ConfirmCompensate(v)
  <2>1. confirm'[v] # "idle" /\ OnlyFor(v)
    BY <1>3 DEF ConfirmCompensate, Begins
  <2>. QED  BY <2>1, BeginsStep
<1>4. CASE ConfirmRecord(v)
  <2>1. confirm'[v] # "idle" /\ OnlyFor(v)
    BY <1>4 DEF ConfirmRecord, Begins
  <2>. QED  BY <2>1, BeginsStep
<1>5. CASE ConfirmError(v)
  <2>1. confirm'[v] # "idle" /\ OnlyFor(v)
    BY <1>5 DEF ConfirmError, Begins, db
  <2>. QED  BY <2>1, BeginsStep
<1>. QED  BY <1>1, <1>2, <1>3, <1>4, <1>5 DEF ConfirmStep

\* A cancellation reads a transaction first.
LEMMA BeginsCancel ==
    ASSUME TypeOK, Begins, NEW v \in Withdrawals, NEW c \in Cancellers,
           CancelStep(c, v)
    PROVE  Begins'
<1>. USE DEF TypeOK, OnlyFor, Fresh, SetTxn, SetWd, SetCancel, CancelRecords
<1>1. CASE CancelRead(c, v)
  <2>1. confirm'[v] # "idle" /\ OnlyFor(v)
    BY <1>1 DEF CancelRead, Begins, db
  <2>. QED  BY <2>1, BeginsStep
<1>2. CASE CancelLocal(c, v)
  <2>1. confirm'[v] # "idle" /\ OnlyFor(v)
    BY <1>2 DEF CancelLocal, Begins
  <2>. QED  BY <2>1, BeginsStep
<1>3. CASE CancelRemote(c, v)
  <2>1. confirm'[v] # "idle" /\ OnlyFor(v)
    BY <1>3 DEF CancelRemote, Begins, db
  <2>. QED  BY <2>1, BeginsStep
<1>4. CASE CancelFinish(c, v)
  <2>1. confirm'[v] # "idle" /\ OnlyFor(v)
    BY <1>4 DEF CancelFinish, Begins
  <2>. QED  BY <2>1, BeginsStep
<1>5. CASE CancelError(c, v)
  <2>1. confirm'[v] # "idle" /\ OnlyFor(v)
    BY <1>5 DEF CancelError, Begins, db
  <2>. QED  BY <2>1, BeginsStep
<1>. QED  BY <1>1, <1>2, <1>3, <1>4, <1>5 DEF CancelStep

\* A job follows a webhook of what was submitted.
LEMMA BeginsJob ==
    ASSUME TypeOK, Begins, NEW v \in Withdrawals,
           JobStep(v)
    PROVE  Begins'
<1>. USE DEF TypeOK, OnlyFor, Fresh, SetTxn, SetWd
<1>1. CASE JobCheck(v)
  <2>1. confirm'[v] # "idle" /\ OnlyFor(v)
    BY <1>1 DEF JobCheck, Begins, db
  <2>. QED  BY <2>1, BeginsStep
<1>2. CASE JobCommit(v)
  <2>1. confirm'[v] # "idle" /\ OnlyFor(v)
    BY <1>2 DEF JobCommit, Begins
  <2>. QED  BY <2>1, BeginsStep
<1>3. CASE JobError(v)
  <2>1. confirm'[v] # "idle" /\ OnlyFor(v)
    BY <1>3 DEF JobError, Begins, db
  <2>. QED  BY <2>1, BeginsStep
<1>4. CASE JobMarkFailed(v)
  <2>1. confirm'[v] # "idle" /\ OnlyFor(v)
    BY <1>4 DEF JobMarkFailed, Begins
  <2>. QED  BY <2>1, BeginsStep
<1>5. CASE JobTransient(v)
  <2>1. confirm'[v] # "idle" /\ OnlyFor(v)
    BY <1>5 DEF JobTransient, Begins, db
  <2>. QED  BY <2>1, BeginsStep
<1>6. CASE JobFinish(v)
  <2>1. confirm'[v] # "idle" /\ OnlyFor(v)
    BY <1>6 DEF JobFinish, Begins, db
  <2>. QED  BY <2>1, BeginsStep
<1>. QED  BY <1>1, <1>2, <1>3, <1>4, <1>5, <1>6 DEF JobStep

\* A retry's own program counter is the only one it moves.
LEMMA RetryOnly ==
    ASSUME TypeOK, NEW v \in Withdrawals, NEW p \in Processors, NEW pc,
           SetRetry(p, v, pc), NEW w \in Withdrawals \ {v}, NEW q \in Processors
    PROVE  retry'[q][w] = retry[q][w]
BY DEF TypeOK, SetRetry

\* A retry is of a queued record.
LEMMA BeginsRetry ==
    ASSUME TypeOK, Begins, NEW v \in Withdrawals, NEW p \in Processors,
           RetryStep(p, v)
    PROVE  Begins'
<1>1. CASE RetryCheck(p, v)
  <2>1. confirm'[v] # "idle" /\ OnlyFor(v)
    <3>1. confirm'[v] # "idle"
      BY <1>1 DEF RetryCheck, Begins, Fresh
    <3>2. \A w \in Withdrawals \ {v}, q \in Processors : retry'[q][w] = retry[q][w]
      BY <1>1, RetryOnly DEF RetryCheck
    <3>3. \A w \in Withdrawals \ {v} :
            /\ confirm'[w] = confirm[w] /\ txn'[w] = txn[w] /\ job'[w] = job[w]
            /\ quidax'[w] = quidax[w]
            /\ w \notin queued => w \notin queued'
            /\ \A c \in Cancellers : cancel'[c][w] = cancel[c][w]
      BY <1>1 DEF RetryCheck, TypeOK
    <3>. QED  BY <3>1, <3>2, <3>3 DEF OnlyFor, Fresh
  <2>. QED  BY <2>1, BeginsStep
<1>2. CASE RetryReserve(p, v)
  <2>1. confirm'[v] # "idle" /\ OnlyFor(v)
    <3>1. confirm'[v] # "idle"
      BY <1>2 DEF RetryReserve, Begins, Fresh
    <3>2. \A w \in Withdrawals \ {v}, q \in Processors : retry'[q][w] = retry[q][w]
      BY <1>2, RetryOnly DEF RetryReserve
    <3>3. \A w \in Withdrawals \ {v} :
            /\ confirm'[w] = confirm[w] /\ txn'[w] = txn[w] /\ job'[w] = job[w]
            /\ quidax'[w] = quidax[w]
            /\ w \notin queued => w \notin queued'
            /\ \A c \in Cancellers : cancel'[c][w] = cancel[c][w]
      BY <1>2 DEF RetryReserve, TypeOK
    <3>. QED  BY <3>1, <3>2, <3>3 DEF OnlyFor, Fresh
  <2>. QED  BY <2>1, BeginsStep
<1>3. CASE RetryPost(p, v)
  <2>1. confirm'[v] # "idle" /\ OnlyFor(v)
    <3>1. confirm'[v] # "idle"
      BY <1>3 DEF RetryPost, Begins, Fresh
    <3>2. \A w \in Withdrawals \ {v}, q \in Processors : retry'[q][w] = retry[q][w]
      BY <1>3, RetryOnly DEF RetryPost
    <3>3. \A w \in Withdrawals \ {v} :
            /\ confirm'[w] = confirm[w] /\ txn'[w] = txn[w] /\ job'[w] = job[w]
            /\ quidax'[w] = quidax[w]
            /\ w \notin queued => w \notin queued'
            /\ \A c \in Cancellers : cancel'[c][w] = cancel[c][w]
      BY <1>3 DEF RetryPost, TypeOK, db
    <3>. QED  BY <3>1, <3>2, <3>3 DEF OnlyFor, Fresh
  <2>. QED  BY <2>1, BeginsStep
<1>4. CASE RetryRecord(p, v)
  <2>1. confirm'[v] # "idle" /\ OnlyFor(v)
    BY <1>4 DEF RetryRecord, Begins, TypeOK, OnlyFor, Fresh, SetTxn, SetWd, SetRetry
  <2>. QED  BY <2>1, BeginsStep
<1>5. CASE RetryFinish(p, v)
  <2>1. confirm'[v] # "idle" /\ OnlyFor(v)
    BY <1>5 DEF RetryFinish, Begins, TypeOK, OnlyFor, Fresh, SetTxn, SetWd, SetRetry
  <2>. QED  BY <2>1, BeginsStep
<1>6. CASE RetryUndo(p, v)
  <2>1. confirm'[v] # "idle" /\ OnlyFor(v)
    BY <1>6 DEF RetryUndo, Begins, TypeOK, OnlyFor, Fresh, SetTxn, SetWd, SetRetry
  <2>. QED  BY <2>1, BeginsStep
<1>7. CASE RetryError(p, v)
  <2>1. \A w \in Withdrawals \ {v}, q \in Processors : retry'[q][w] = retry[q][w]
    BY <1>7, RetryOnly DEF RetryError
  <2>2. confirm'[v] # "idle" /\ OnlyFor(v)
    BY <1>7, <2>1 DEF RetryError, Begins, OnlyFor, Fresh, db
  <2>. QED  BY <2>2, BeginsStep
<1>. QED  BY <1>1, <1>2, <1>3, <1>4, <1>5, <1>6, <1>7 DEF RetryStep

\* And so is an expiry.
LEMMA BeginsExpire ==
    ASSUME TypeOK, Begins, NEW v \in Withdrawals,
           ExpireStep(v)
    PROVE  Begins'
<1>. USE DEF TypeOK, OnlyFor, Fresh, SetTxn, SetWd, SetRetry, ExpireRecords, Processors
<1>1. CASE ExpireRead(v)
  <2>1. confirm'[v] # "idle" /\ OnlyFor(v)
    BY <1>1 DEF ExpireRead, Begins
  <2>. QED  BY <2>1, BeginsStep
<1>2. CASE ExpireCommit(v)
  <2>1. confirm'[v] # "idle" /\ OnlyFor(v)
    BY <1>2 DEF ExpireCommit, Begins
  <2>. QED  BY <2>1, BeginsStep
<1>. QED  BY <1>1, <1>2 DEF ExpireStep

LEMMA BeginsNext == TypeOK /\ Begins /\ [Next]_vars => Begins'
<1>. SUFFICES ASSUME TypeOK, Begins, [Next]_vars PROVE Begins'
  OBVIOUS
<1>1. ASSUME NEW v \in Withdrawals, QuidaxFinish(v) PROVE Begins'
  <2>1. confirm'[v] # "idle" /\ OnlyFor(v)
    BY <1>1 DEF QuidaxFinish, Begins, TypeOK, OnlyFor, Fresh, db
  <2>. QED  BY <2>1, BeginsStep
<1>2. CASE TopUp
  BY <1>2 DEF TopUp, Begins, Fresh
<1>3. CASE Crash
  BY <1>3 DEF Crash, Begins, Fresh, TypeOK, db
<1>4. CASE UNCHANGED vars
  BY <1>4 DEF vars, Begins, Fresh
<1>. QED
  BY <1>1, <1>2, <1>3, <1>4, BeginsConfirm, BeginsCancel, BeginsJob, BeginsRetry, BeginsExpire DEF
    Next

\* Any set of withdrawals has a total, which more of them do not make smaller.
LEMMA SumOverNat ==
    ASSUME NEW S \in SUBSET Withdrawals
    PROVE  IsFiniteSet(S) /\ SumOver(S) \in Nat
<1>1. IsFiniteSet(S)
  BY RequestsAssumption, FS_Subset
<1>2. \A w \in S : Total[w] \in Nat
  BY Amounts
<1>. QED  BY <1>1, <1>2, SumNatural DEF SumOver

LEMMA SumOverSubset ==
    ASSUME NEW S \in SUBSET Withdrawals, NEW T \in SUBSET S
    PROVE  SumOver(T) <= SumOver(S)
<1>1. IsFiniteSet(S)
  BY SumOverNat
<1>2. \A w \in S : Total[w] \in Nat
  BY Amounts
<1>. QED  BY <1>1, <1>2, SumSubset DEF SumOver

LEMMA SumOverRest ==
    ASSUME NEW S \in SUBSET Withdrawals, NEW w \in Withdrawals
    PROVE  SumOver(S) <= SumOver(S \ {w}) + Total[w]
<1>1. IsFiniteSet(S)
  BY SumOverNat
<1>2. \A v \in S \cup {w} : Total[v] \in Nat
  BY Amounts
<1>. QED  BY <1>1, <1>2, SumWithout DEF SumOver

LEMMA SumOverMore ==
    ASSUME NEW S \in SUBSET Withdrawals, NEW w \in Withdrawals, w \notin S
    PROVE  SumOver(S \cup {w}) = Total[w] + SumOver(S)
<1>1. IsFiniteSet(S)
  BY SumOverNat
<1>2. \A v \in S \cup {w} : Total[v] \in Int
  BY Amounts
<1>. QED  BY <1>1, <1>2, SumAdd DEF SumOver

OpenOnes == {w \in Withdrawals : Open(w)}

\* The open withdrawals, and the hold that is theirs, after a step that closes
\* at most one and gives at least its total back.
LEMMA HoldDropped ==
    ASSUME Sound, Sound', NoPhantomHold, NEW w \in Withdrawals,
           \A v \in Withdrawals \ {w} : Open(v) => Open(v)',
           wallet'.reserved <= wallet.reserved - Total[w]
    PROVE  NoPhantomHold'
<1>1. OpenOnes \ {w} \in SUBSET OpenOnes' /\ OpenOnes' \in SUBSET Withdrawals
  BY DEF OpenOnes
<1>2. SumOver(OpenOnes \ {w}) <= SumOver(OpenOnes')
  BY <1>1, SumOverSubset
<1>3. SumOver(OpenOnes) <= SumOver(OpenOnes \ {w}) + Total[w]
  BY SumOverRest DEF OpenOnes
<1>4. /\ SumOver(OpenOnes) \in Nat /\ SumOver(OpenOnes \ {w}) \in Nat
      /\ SumOver(OpenOnes') \in Nat
  BY SumOverNat DEF OpenOnes
<1>5. wallet.reserved <= SumOver(OpenOnes)
  BY DEF NoPhantomHold, OpenOnes
<1>6. wallet.reserved \in Nat /\ wallet'.reserved \in Nat /\ Total[w] \in Nat
  BY Amounts DEF Sound, TypeOK, Wallets
<1>7. wallet'.reserved <= SumOver(OpenOnes')
  BY <1>2, <1>3, <1>4, <1>5, <1>6
<1>. QED  BY <1>7 DEF NoPhantomHold, OpenOnes, SumOver

\* ... and after one that closes none and reserves nothing.
LEMMA HoldKept ==
    ASSUME Sound, Sound', NoPhantomHold,
           \A v \in Withdrawals : Open(v) => Open(v)',
           wallet'.reserved = wallet.reserved
    PROVE  NoPhantomHold'
<1>1. OpenOnes \in SUBSET OpenOnes' /\ OpenOnes' \in SUBSET Withdrawals
  BY DEF OpenOnes
<1>2. SumOver(OpenOnes) <= SumOver(OpenOnes')
  BY <1>1, SumOverSubset
<1>3. SumOver(OpenOnes) \in Nat /\ SumOver(OpenOnes') \in Nat
  BY SumOverNat DEF OpenOnes
<1>4. wallet.reserved <= SumOver(OpenOnes)
  BY DEF NoPhantomHold, OpenOnes
<1>5. wallet.reserved \in Nat
  BY DEF Sound, TypeOK, Wallets
<1>6. wallet'.reserved <= SumOver(OpenOnes')
  BY <1>2, <1>3, <1>4, <1>5
<1>. QED  BY <1>6 DEF NoPhantomHold, OpenOnes, SumOver

\* confirmSend reserves for a withdrawal that was not open and now is.
LEMMA HoldAdded ==
    ASSUME Sound, Sound', Begins, NoPhantomHold, NEW w \in Withdrawals,
           ConfirmReserve(w)
    PROVE  NoPhantomHold'
<1>1. w \notin OpenOnes
  BY DEF ConfirmReserve, Begins, Fresh, OpenOnes, Open
<1>2. OpenOnes \cup {w} \in SUBSET OpenOnes' /\ OpenOnes' \in SUBSET Withdrawals
  BY DEF ConfirmReserve, OpenOnes, Open, SetTxn, Sound, TypeOK
<1>3. SumOver(OpenOnes \cup {w}) = Total[w] + SumOver(OpenOnes)
  BY <1>1, SumOverMore DEF OpenOnes
<1>4. SumOver(OpenOnes \cup {w}) <= SumOver(OpenOnes')
  BY <1>2, SumOverSubset
<1>5. SumOver(OpenOnes) \in Nat /\ SumOver(OpenOnes') \in Nat
  BY SumOverNat DEF OpenOnes
<1>6. wallet'.reserved = wallet.reserved + Total[w]
  BY DEF ConfirmReserve, ReserveBalance, Sound, TypeOK, Wallets
<1>7. wallet.reserved \in Nat /\ Total[w] \in Nat
  BY Amounts DEF Sound, TypeOK, Wallets
<1>8. wallet.reserved <= SumOver(OpenOnes)
  BY DEF NoPhantomHold, OpenOnes
<1>9. wallet'.reserved <= SumOver(OpenOnes')
  BY <1>3, <1>4, <1>5, <1>6, <1>7, <1>8
<1>. QED  BY <1>9 DEF NoPhantomHold, OpenOnes, SumOver

\* The final debit takes the same from both columns.
LEMMA FinalizeReserved ==
    ASSUME NEW r \in Wallets, NEW a \in Nat
    PROVE  /\ FinalizeBalance(r, a).reserved = r.reserved - a
           /\ FinalizeBalance(r, a).base = r.base - a
BY DEF Wallets, FinalizeBalance

\* What the steps do to a hold: they leave it alone, or close one withdrawal
\* at most and give its total back.
HoldsAlone == /\ \A v \in Withdrawals : Open(v) => Open(v)'
              /\ wallet'.reserved = wallet.reserved
GivesBack(w) == /\ \A v \in Withdrawals \ {w} : Open(v) => Open(v)'
                /\ wallet'.reserved <= wallet.reserved - Total[w]

LEMMA HoldSteps ==
    ASSUME TypeOK, NEW w \in Withdrawals,
           \/ ConfirmStep(w) \/ JobStep(w) \/ ExpireStep(w) \/ QuidaxFinish(w)
           \/ \E c \in Cancellers : CancelStep(c, w)
           \/ \E p \in Processors : RetryStep(p, w)
    PROVE  ConfirmReserve(w) \/ HoldsAlone \/ GivesBack(w)
<1>. USE Amounts DEF TypeOK, Wallets, SetTxn, SetWd, Open, HoldsAlone,
                     GivesBack, db
<1>1. CASE ConfirmStep(w)
  BY <1>1 DEF ConfirmStep, ConfirmPost, ConfirmCompensate, ConfirmRecord, ConfirmError, ReleaseBoth,
    ReleaseBalance
<1>2. CASE JobStep(w)
  <2>1. CASE JobCommit(w)
    <3>1. FinalizeBalance(wallet, Total[w]).reserved = wallet.reserved - Total[w]
      BY FinalizeReserved
    <3>. QED  BY <2>1, <3>1 DEF JobCommit
  <2>. QED  BY <1>2, <2>1 DEF JobStep, JobCheck, JobError, JobMarkFailed, JobTransient, JobFinish
<1>3. CASE ExpireStep(w)
  BY <1>3 DEF ExpireStep, ExpireRead, ExpireCommit, ExpireRecords, ReleaseBalance
<1>4. CASE QuidaxFinish(w)
  BY <1>4 DEF QuidaxFinish
<1>5. ASSUME NEW c \in Cancellers, CancelStep(c, w)
      PROVE  HoldsAlone \/ GivesBack(w)
  BY <1>5 DEF CancelStep, CancelRead, CancelLocal, CancelRemote, CancelFinish, CancelError,
    CancelRecords, ReleaseBoth, ReleaseBalance
<1>6. ASSUME NEW p \in Processors, RetryStep(p, w)
      PROVE  HoldsAlone \/ GivesBack(w)
  <2>1. CASE RetryRecord(p, w)
    BY <2>1 DEF RetryRecord
  <2>2. CASE RetryFinish(p, w) \/ RetryUndo(p, w) \/ RetryError(p, w)
    BY <2>2 DEF RetryFinish, RetryUndo, RetryError
  <2>3. CASE RetryCheck(p, w) \/ RetryReserve(p, w) \/ RetryPost(p, w)
    BY <2>3 DEF RetryCheck, RetryReserve, RetryPost
  <2>. QED  BY <1>6, <2>1, <2>2, <2>3 DEF RetryStep
<1>. QED  BY <1>1, <1>2, <1>3, <1>4, <1>5, <1>6

LEMMA PhantomNext ==
    Sound /\ Sound' /\ Begins /\ NoPhantomHold /\ [Next]_vars => NoPhantomHold'
<1>. SUFFICES ASSUME Sound, Sound', Begins, NoPhantomHold, [Next]_vars
              PROVE  NoPhantomHold'
  OBVIOUS
<1>1. CASE TopUp \/ Crash \/ UNCHANGED vars
  <2>1. HoldsAlone
    BY <1>1 DEF TopUp, Crash, vars, db, HoldsAlone, Open
  <2>. QED  BY <2>1, HoldKept DEF HoldsAlone
<1>2. ASSUME NEW w \in Withdrawals, ConfirmReserve(w) \/ HoldsAlone \/ GivesBack(w)
      PROVE  NoPhantomHold'
  BY <1>2, HoldAdded, HoldKept, HoldDropped DEF HoldsAlone, GivesBack
<1>. QED  BY <1>1, <1>2, HoldSteps DEF Next, Sound

LEMMA PhantomInit == Init => NoPhantomHold
<1>. SUFFICES ASSUME Init PROVE NoPhantomHold
  OBVIOUS
<1>1. SumOver(OpenOnes) \in Nat
  BY SumOverNat DEF OpenOnes
<1>. QED  BY <1>1 DEF Init, NoPhantomHold, OpenOnes, SumOver

\* However many withdrawals are in flight, and whatever the requests, jobs,
\* processors and faults do to them, every unit the wallet reserves belongs to
\* one whose transaction is still open: nothing stays locked for a finished one.
THEOREM NothingLocked == Spec => []NoPhantomHold
BY BeginsInit, BeginsNext, PhantomInit, PhantomNext, SoundAlways, TypeCorrect, PTL DEF Spec

\* No user has less at their disposal than what is open or was paid accounts
\* for: the state property the run WithdrawalEvery checks.
THEOREM NeverShortAlways == Spec => []NeverShort
BY NothingLocked, CompletedOnlyIfPaid, PTL DEF NeverShort

---------------------------------------------------------------------------
(* A withdrawal is charged once.                                           *)

\* A completed withdrawal is in a terminal status, and a job that has found it
\* in none has not yet completed it: the job is created once.
Uncharged ==
    \A w \in Withdrawals :
        /\ txn[w].status = "COMPLETED" => wd[w] \in {"SUCCESS", "FAILED"}
        /\ job[w] = "confirmed" => txn[w].status # "COMPLETED"

LEMMA UnchargedInit == Init => Uncharged
BY DEF Init, Uncharged

\* Who writes a withdrawal FAILED or PROCESSING leaves no completed one.
LEMMA UnchargedNext == TypeOK /\ Begins /\ Uncharged /\ [Next]_vars => Uncharged'
<1>. SUFFICES ASSUME TypeOK, Begins, Uncharged, [Next]_vars PROVE Uncharged'
  OBVIOUS
<1>. USE DEF TypeOK, Uncharged, SetTxn, SetWd, db
<1>1. ASSUME NEW v \in Withdrawals, ConfirmStep(v) PROVE Uncharged'
  <2>1. CASE ConfirmReserve(v)
    BY <2>1 DEF ConfirmReserve, Begins, Fresh
  <2>2. CASE ConfirmPost(v)
    BY <2>2 DEF ConfirmPost
  <2>3. CASE ConfirmCompensate(v)
    <3>1. CASE CanReleaseBoth(v)
      BY <2>3, <3>1 DEF ConfirmCompensate
    <3>2. CASE ~CanReleaseBoth(v)
      BY <2>3, <3>2 DEF ConfirmCompensate
    <3>. QED  BY <3>1, <3>2
  <2>4. CASE ConfirmRecord(v) \/ ConfirmError(v)
    BY <2>4 DEF ConfirmRecord, ConfirmError, db
  <2>. QED  BY <1>1, <2>1, <2>2, <2>3, <2>4 DEF ConfirmStep
<1>2. ASSUME NEW v \in Withdrawals, NEW c \in Cancellers, CancelStep(c, v)
      PROVE  Uncharged'
  <2>1. CASE CancelRead(c, v) \/ CancelError(c, v)
    BY <2>1 DEF CancelRead, CancelError
  <2>2. CASE CancelLocal(c, v)
    BY <2>2 DEF CancelLocal, CancelRecords
  <2>3. CASE CancelRemote(c, v)
    BY <2>3 DEF CancelRemote
  <2>4. CASE CancelFinish(c, v)
    BY <2>4 DEF CancelFinish, CancelRecords
  <2>. QED  BY <1>2, <2>1, <2>2, <2>3, <2>4 DEF CancelStep
<1>3. ASSUME NEW v \in Withdrawals, JobStep(v) PROVE Uncharged'
  <2>1. CASE JobCheck(v)
    BY <2>1 DEF JobCheck, Terminal
  <2>2. CASE JobCommit(v)
    BY <2>2 DEF JobCommit
  <2>3. CASE JobError(v)
    BY <2>3 DEF JobError
  <2>4. CASE JobMarkFailed(v)
    BY <2>4 DEF JobMarkFailed
  <2>5. CASE JobTransient(v)
    BY <2>5 DEF JobTransient
  <2>6. CASE JobFinish(v)
    BY <2>6 DEF JobFinish
  <2>. QED  BY <1>3, <2>1, <2>2, <2>3, <2>4, <2>5, <2>6 DEF JobStep
<1>4. ASSUME NEW v \in Withdrawals, NEW p \in Processors, RetryStep(p, v)
      PROVE  Uncharged'
  <2>1. CASE RetryRecord(p, v)
    BY <2>1 DEF RetryRecord
  <2>2. CASE RetryPost(p, v) \/ RetryError(p, v)
    BY <2>2 DEF RetryPost, RetryError
  <2>. QED
    BY <1>4, <2>1, <2>2 DEF RetryStep, RetryCheck, RetryReserve, RetryFinish, RetryUndo
<1>5. ASSUME NEW v \in Withdrawals, ExpireStep(v) PROVE Uncharged'
  <2>1. CASE ExpireRead(v)
    BY <2>1 DEF ExpireRead
  <2>2. CASE ExpireCommit(v)
    BY <2>2 DEF ExpireCommit, ExpireRecords
  <2>. QED  BY <1>5, <2>1, <2>2 DEF ExpireStep
<1>6. ASSUME NEW v \in Withdrawals, QuidaxFinish(v) PROVE Uncharged'
  BY <1>6 DEF QuidaxFinish
<1>7. CASE TopUp \/ Crash \/ UNCHANGED vars
  BY <1>7 DEF TopUp, Crash, vars
<1>. QED  BY <1>1, <1>2, <1>3, <1>4, <1>5, <1>6, <1>7 DEF Next

\* A hold, a release and a record leave the balance itself alone.
BaseAlone == wallet'.base = wallet.base

LEMMA OnlyJobsCharge ==
    ASSUME TypeOK, [Next]_vars, ~ \E w \in Withdrawals : JobCommit(w)
    PROVE  BaseAlone
<1>. USE DEF TypeOK, Wallets, BaseAlone, db, ReserveBalance, ReleaseBalance
<1>1. ASSUME NEW v \in Withdrawals, ConfirmStep(v) PROVE BaseAlone
  BY <1>1 DEF ConfirmStep, ConfirmReserve, ConfirmPost, ConfirmCompensate, ConfirmRecord,
    ConfirmError, ReleaseBoth
<1>2. ASSUME NEW v \in Withdrawals, NEW c \in Cancellers, CancelStep(c, v)
      PROVE  BaseAlone
  BY <1>2 DEF CancelStep, CancelRead, CancelLocal, CancelRemote, CancelFinish, CancelError,
    ReleaseBoth
<1>3. ASSUME NEW v \in Withdrawals, JobStep(v) PROVE BaseAlone
  BY <1>3 DEF JobStep, JobCheck, JobError, JobMarkFailed, JobTransient, JobFinish
<1>4. ASSUME NEW v \in Withdrawals, NEW p \in Processors, RetryStep(p, v)
      PROVE  BaseAlone
  BY <1>4 DEF RetryStep, RetryCheck, RetryReserve, RetryPost, RetryRecord, RetryFinish, RetryUndo,
    RetryError
<1>5. ASSUME NEW v \in Withdrawals, ExpireStep(v) \/ QuidaxFinish(v)
      PROVE  BaseAlone
  BY <1>5 DEF ExpireStep, ExpireRead, ExpireCommit, QuidaxFinish
<1>6. CASE TopUp \/ Crash \/ UNCHANGED vars
  BY <1>6 DEF TopUp, Crash, vars
<1>. QED  BY <1>1, <1>2, <1>3, <1>4, <1>5, <1>6 DEF Next

Charged ==
    wallet'.base # wallet.base =>
        \E w \in Withdrawals :
           /\ quidax[w] = "Done"
           /\ txn[w].status # "COMPLETED" /\ txn'[w].status = "COMPLETED"
           /\ wallet'.base = wallet.base - Total[w]

LEMMA ChargedNext == TypeOK /\ PaidInv /\ Uncharged /\ [Next]_vars => Charged
<1>. SUFFICES ASSUME TypeOK, PaidInv, Uncharged, [Next]_vars PROVE Charged
  OBVIOUS
<1>1. ASSUME NEW w \in Withdrawals, JobCommit(w) PROVE Charged
  <2>1. quidax[w] = "Done" /\ txn[w].status # "COMPLETED"
    BY <1>1 DEF JobCommit, PaidInv, Uncharged
  <2>2. txn'[w].status = "COMPLETED"
    BY <1>1 DEF JobCommit, SetTxn, TypeOK
  <2>3. wallet'.base = wallet.base - Total[w]
    BY <1>1, Amounts, FinalizeReserved DEF JobCommit, TypeOK
  <2>. QED  BY <2>1, <2>2, <2>3 DEF Charged
<1>. QED  BY <1>1, OnlyJobsCharge DEF BaseAlone, Charged

\* Whatever is retried, rerun, cancelled or crashed, a step that takes money
\* off the wallet completes a withdrawal that was not completed and that Quidax
\* paid, and takes its total and no more.
THEOREM ChargedOnceEach == Spec => ChargedOnce
BY ChargedNext, UnchargedInit, UnchargedNext, BeginsInit, BeginsNext, PaidInit, PaidNext,
  TypeCorrect, PTL DEF Spec, ChargedOnce, Charged

---------------------------------------------------------------------------
(* Without cancellations and with one processor the books are exact, but   *)
(* for four mishaps whose traces nothing in the code removes.              *)

\* How far the scheduler is with a withdrawal, and the stages in which the
\* company's money is reserved for it.
Stage(w) == retry[Hourly][w]
Late == {"reserved", "posted", "refused", "recorded"}

\* The mishaps: an answer of Quidax is lost; the process dies, or the database
\* fails, in a retry that has reserved; an error follows the commit of a
\* settlement; the job of one that a late reply of the retry has reopened, or
\* yet may, is run again.
Undisturbed ==
    /\ budget'["lostAnswer"] = budget["lostAnswer"]
    /\ Crash \/ (\E w \in Withdrawals : RetryError(Hourly, w))
         => \A w \in Withdrawals : Stage(w) \notin Late
    /\ \A w \in Withdrawals :
          job[w] = "committed" =>
            /\ job'[w] # "failing"
            /\ job'[w] = "waiting" => wd[w] = "SUCCESS" /\ Stage(w) # "posted"

\* Where a withdrawal is in its request, on the queue, at Quidax and in its job.
Asked(w) == quidax[w] # "none"

InRequest(w) ==
    /\ confirm[w] \in {"posting", "refused"} =>
          Open(w) /\ w \notin queued /\ ~Asked(w)
    /\ confirm[w] = "accepted" => w \notin queued

OnQueue(w) ==
    /\ w \in queued => /\ confirm[w] = "done"
                       /\ Asked(w) => Stage(w) \in {"posted", "recorded"}
    /\ Stage(w) # "idle" => w \in queued
    /\ Stage(w) \in {"expiring", "checked", "reserved", "refused"} =>
          Open(w) /\ ~Asked(w)
    /\ Stage(w) = "posted" =>
          \/ Open(w)
          \/ txn[w].status = "COMPLETED" /\ txn[w].processed

AtQuidax(w) ==
    Asked(w) =>
       \/ Open(w) /\ job[w] # "committed"
       \/ /\ txn[w].processed /\ txn[w].status \in {"COMPLETED", "PENDING"}
          /\ \/ job[w] \in {"committed", "finished", "dead"}
             \/ job[w] = "waiting" /\ wd[w] = "SUCCESS" /\ Stage(w) # "posted"

InJob(w) ==
    /\ job[w] \in {"confirmed", "failing"} => Open(w)
    /\ job[w] # "none" => Asked(w)

Agrees(w) == txn[w].status = "COMPLETED" <=> wd[w] = "SUCCESS"

FlowOf(w) == InRequest(w) /\ OnQueue(w) /\ AtQuidax(w) /\ InJob(w) /\ Agrees(w)

\* The scheduler works on one withdrawal at a time.
Alone == \A v, w \in Withdrawals :
            Stage(v) # "idle" /\ Stage(w) # "idle" => v = w

Flow == Alone /\ \A w \in Withdrawals : FlowOf(w)

\* A step for another withdrawal.
SameAt(w) ==
    /\ confirm'[w] = confirm[w] /\ txn'[w] = txn[w] /\ wd'[w] = wd[w]
    /\ quidax'[w] = quidax[w] /\ job'[w] = job[w] /\ Stage(w)' = Stage(w)
    /\ w \in queued' <=> w \in queued
Touches(w) == \A v \in Withdrawals \ {w} : SameAt(v)

LEMMA FlowOfSame ==
    ASSUME NEW w \in Withdrawals, FlowOf(w), SameAt(w)
    PROVE  FlowOf(w)'
BY DEF FlowOf, InRequest, OnQueue, AtQuidax, InJob, Agrees, SameAt, Asked, Open

\* The columns these arguments read.
FlowTypes ==
    /\ txn \in [Withdrawals -> [status : TxStates, processed : BOOLEAN]]
    /\ wd \in [Withdrawals -> WdStates]
    /\ quidax \in [Withdrawals -> QuidaxStates]
    /\ confirm \in [Withdrawals -> ConfirmPc]
    /\ job \in [Withdrawals -> JobPc]
    /\ retry \in [Processors -> [Withdrawals -> RetryPc]]

LEMMA StageMoves ==
    ASSUME FlowTypes, NEW w \in Withdrawals, NEW pc, SetRetry(Hourly, w, pc)
    PROVE  /\ Stage(w)' = pc
           /\ \A v \in Withdrawals \ {w} : Stage(v)' = Stage(v)
BY DEF FlowTypes, SetRetry, Stage, Processors

\* No answer of Quidax is lost.
LEMMA NothingLost ==
    ASSUME Undisturbed, budget \in [Faults -> Nat]
    PROVE  ~Spend("lostAnswer")
<1>. SUFFICES ASSUME Spend("lostAnswer") PROVE FALSE
  OBVIOUS
<1>1. budget'["lostAnswer"] = budget["lostAnswer"] - 1
  BY DEF Spend, Faults
<1>2. budget["lostAnswer"] \in Nat
  BY DEF Faults
<1>. QED  BY <1>1, <1>2 DEF Undisturbed

LEMMA ConfirmFlow ==
    ASSUME FlowTypes, Begins, NEW w \in Withdrawals, FlowOf(w),
           ~Spend("lostAnswer"), ConfirmStep(w)
    PROVE  Touches(w) /\ FlowOf(w)' /\ Stage(w)' = Stage(w)
<1>. USE DEF FlowTypes, Touches, SameAt, Stage, SetTxn, SetWd, Open, Asked, db,
             FlowOf, InRequest, OnQueue, AtQuidax, InJob, Agrees
<1>1. CASE ConfirmReserve(w)
  <2>1. Fresh(w) /\ Stage(w) = "idle"
    BY <1>1 DEF Begins, ConfirmReserve, Fresh, Processors
  <2>. QED  BY <1>1, <2>1 DEF ConfirmReserve, Fresh
<1>2. CASE ConfirmPost(w)
  BY <1>2 DEF ConfirmPost
<1>3. CASE ConfirmCompensate(w)
  BY <1>3 DEF ConfirmCompensate
<1>4. CASE ConfirmRecord(w) \/ ConfirmError(w)
  BY <1>4 DEF ConfirmRecord, ConfirmError
<1>. QED  BY <1>1, <1>2, <1>3, <1>4 DEF ConfirmStep

LEMMA JobFlow ==
    ASSUME FlowTypes, NEW w \in Withdrawals, FlowOf(w), Undisturbed, JobStep(w)
    PROVE  Touches(w) /\ FlowOf(w)' /\ Stage(w)' = Stage(w)
<1>. USE DEF FlowTypes, Touches, SameAt, Stage, SetTxn, SetWd, Open, Asked, db,
             FlowOf, InRequest, OnQueue, AtQuidax, InJob, Agrees
<1>1. CASE JobCheck(w)
  BY <1>1 DEF JobCheck, Terminal
<1>2. CASE JobCommit(w)
  BY <1>2 DEF JobCommit
<1>3. CASE JobError(w)
  BY <1>3 DEF JobError, Undisturbed
<1>4. CASE JobMarkFailed(w)
  BY <1>4 DEF JobMarkFailed
<1>5. CASE JobTransient(w)
  BY <1>5 DEF JobTransient, Undisturbed
<1>6. CASE JobFinish(w)
  BY <1>6 DEF JobFinish
<1>. QED  BY <1>1, <1>2, <1>3, <1>4, <1>5, <1>6 DEF JobStep

LEMMA QuidaxFlow ==
    ASSUME FlowTypes, AttemptsLeft, NEW w \in Withdrawals, FlowOf(w),
           QuidaxFinish(w)
    PROVE  Touches(w) /\ FlowOf(w)' /\ Stage(w)' = Stage(w)
<1>1. job[w] = "none"
  BY DEF QuidaxFinish, AttemptsLeft, Ended
<1>. QED
  BY <1>1 DEF FlowTypes, Touches, SameAt, Stage, Open, Asked, db, FlowOf, InRequest, OnQueue,
    AtQuidax, InJob, Agrees, QuidaxFinish

LEMMA RetryFlow ==
    ASSUME FlowTypes, NEW w \in Withdrawals, FlowOf(w), ~Spend("lostAnswer"),
           RetryStep(Hourly, w), RetryError(Hourly, w) => Stage(w) \notin Late
    PROVE  /\ Touches(w) /\ FlowOf(w)'
           /\ Stage(w) # "idle" \/ IdleProcessor(Hourly)
<1>. USE DEF FlowTypes, Touches, SameAt, SetTxn, SetWd, Open, Asked, db,
             FlowOf, InRequest, OnQueue, AtQuidax, InJob, Agrees
<1>1. CASE RetryCheck(Hourly, w)
  <2>1. Stage(w) = "idle" /\ IdleProcessor(Hourly)
    BY <1>1 DEF RetryCheck, IdleProcessor, Stage
  <2>2. CASE Open(w) /\ SetRetry(Hourly, w, "checked") /\ UNCHANGED queued
    BY <1>1, <2>1, <2>2, StageMoves DEF RetryCheck
  <2>3. CASE queued' = queued \ {w} /\ UNCHANGED retry
    BY <1>1, <2>1, <2>3 DEF RetryCheck, Stage
  <2>. QED  BY <1>1, <2>1, <2>2, <2>3 DEF RetryCheck
<1>2. CASE RetryReserve(Hourly, w)
  <2>1. Stage(w) = "checked"
    BY <1>2 DEF RetryReserve, Stage
  <2>2. CASE SetRetry(Hourly, w, "reserved")
    BY <1>2, <2>1, <2>2, StageMoves DEF RetryReserve
  <2>3. CASE SetRetry(Hourly, w, "idle")
    BY <1>2, <2>1, <2>3, StageMoves DEF RetryReserve
  <2>. QED  BY <1>2, <2>2, <2>3 DEF RetryReserve
<1>3. CASE RetryPost(Hourly, w)
  <2>1. Stage(w) = "reserved"
    BY <1>3 DEF RetryPost, Stage
  <2>2. CASE SetRetry(Hourly, w, "posted")
    BY <1>3, <2>1, <2>2, StageMoves DEF RetryPost
  <2>3. CASE SetRetry(Hourly, w, "refused")
    BY <1>3, <2>1, <2>3, StageMoves DEF RetryPost
  <2>. QED  BY <1>3, <2>2, <2>3 DEF RetryPost
<1>4. CASE RetryRecord(Hourly, w)
  <2>1. Stage(w) = "posted"
    BY <1>4 DEF RetryRecord, Stage
  <2>. QED  BY <1>4, <2>1, StageMoves DEF RetryRecord
<1>5. CASE RetryFinish(Hourly, w)
  <2>1. Stage(w) = "recorded"
    BY <1>5 DEF RetryFinish, Stage
  <2>. QED  BY <1>5, <2>1, StageMoves DEF RetryFinish
<1>6. CASE RetryUndo(Hourly, w)
  <2>1. Stage(w) = "refused"
    BY <1>6 DEF RetryUndo, Stage
  <2>. QED  BY <1>6, <2>1, StageMoves DEF RetryUndo
<1>7. CASE RetryError(Hourly, w)
  <2>1. Stage(w) \in {"checked", "expiring"} /\ SetRetry(Hourly, w, "idle")
    BY <1>7 DEF RetryError, Stage, Late
  <2>. QED  BY <1>7, <2>1, StageMoves DEF RetryError
<1>. QED  BY <1>1, <1>2, <1>3, <1>4, <1>5, <1>6, <1>7 DEF RetryStep

LEMMA ExpireFlow ==
    ASSUME FlowTypes, NEW w \in Withdrawals, FlowOf(w), ExpireStep(w)
    PROVE  /\ Touches(w) /\ FlowOf(w)'
           /\ Stage(w) # "idle" \/ IdleProcessor(Hourly)
<1>. USE DEF FlowTypes, Touches, SameAt, SetTxn, SetWd, Open, Asked, db,
             FlowOf, InRequest, OnQueue, AtQuidax, InJob, Agrees
<1>1. CASE ExpireRead(w)
  <2>1. Stage(w) = "idle" /\ IdleProcessor(Hourly)
    BY <1>1 DEF ExpireRead, IdleProcessor, Stage
  <2>2. CASE Open(w) /\ SetRetry(Hourly, w, "expiring") /\ UNCHANGED queued
    BY <1>1, <2>1, <2>2, StageMoves DEF ExpireRead
  <2>3. CASE queued' = queued \ {w} /\ UNCHANGED retry
    BY <1>1, <2>1, <2>3 DEF ExpireRead, Stage
  <2>. QED  BY <1>1, <2>1, <2>2, <2>3 DEF ExpireRead
<1>2. CASE ExpireCommit(w)
  <2>1. Stage(w) = "expiring"
    BY <1>2 DEF ExpireCommit, Stage
  <2>. QED  BY <1>2, <2>1, StageMoves DEF ExpireCommit, ExpireRecords
<1>. QED  BY <1>1, <1>2 DEF ExpireStep

LEMMA CrashFlow ==
    ASSUME FlowTypes, Flow, Undisturbed, Crash
    PROVE  Flow'
<1>1. ASSUME NEW w \in Withdrawals PROVE Stage(w)' = "idle"
  BY <1>1 DEF Crash, Stage, Processors
<1>2. ASSUME NEW w \in Withdrawals PROVE FlowOf(w)'
  <2>1. Stage(w) \notin Late
    BY DEF Undisturbed
  <2>. QED
    BY <1>1, <2>1 DEF FlowTypes, Flow, FlowOf, InRequest, OnQueue, AtQuidax, InJob, Agrees, Asked,
      Open, Late, Undisturbed, Crash, db
<1>. QED  BY <1>1, <1>2 DEF Flow, Alone

\* Only an idle scheduler begins with another withdrawal.
LEMMA FlowKept ==
    ASSUME Flow, NEW w \in Withdrawals, Touches(w), FlowOf(w)',
           \/ Stage(w)' = Stage(w) \/ Stage(w) # "idle"
           \/ IdleProcessor(Hourly)
    PROVE  Flow'
<1>1. \A v \in Withdrawals : FlowOf(v)'
  BY FlowOfSame DEF Flow, Touches
<1>2. \A v \in Withdrawals \ {w} : Stage(v)' = Stage(v)
  BY DEF Touches, SameAt
<1>3. Alone'
  BY <1>2 DEF Flow, Alone, IdleProcessor, Stage
<1>. QED  BY <1>1, <1>3 DEF Flow

LEMMA FlowInit == Init => Flow
BY DEF Init, Flow, Alone, FlowOf, InRequest, OnQueue, AtQuidax, InJob, Agrees, Asked, Open, Stage,
  Processors

\* What a step without cancellers and admins does.
LEMMA OneProcessor ==
    ASSUME Cancellers = {}, Admins = {}, [Next]_vars
    PROVE  \/ \E w \in Withdrawals :
                \/ ConfirmStep(w) \/ JobStep(w) \/ ExpireStep(w)
                \/ QuidaxFinish(w) \/ RetryStep(Hourly, w)
           \/ TopUp \/ Crash \/ UNCHANGED vars
BY DEF Next, Processors

LEMMA FlowNext ==
    ASSUME Cancellers = {}, Admins = {}, Sound, Begins, Flow, Undisturbed,
           [Next]_vars
    PROVE  Flow'
<1>1. FlowTypes /\ AttemptsLeft /\ budget \in [Faults -> Nat]
  BY DEF Sound, TypeOK, FlowTypes
<1>2. ~Spend("lostAnswer")
  BY <1>1, NothingLost
<1>3. ASSUME NEW w \in Withdrawals,
             \/ ConfirmStep(w) \/ JobStep(w) \/ ExpireStep(w)
             \/ QuidaxFinish(w) \/ RetryStep(Hourly, w)
      PROVE  Flow'
  <2>1. FlowOf(w) /\ (RetryError(Hourly, w) => Stage(w) \notin Late)
    BY DEF Flow, Undisturbed
  <2>. QED
    BY <1>1, <1>2, <1>3, <2>1, FlowKept, ConfirmFlow, JobFlow, ExpireFlow, QuidaxFlow, RetryFlow
<1>4. CASE TopUp \/ UNCHANGED vars
  BY <1>4 DEF TopUp, vars, Flow, Alone, FlowOf, InRequest, OnQueue, AtQuidax, InJob, Agrees, Asked,
    Open, Stage
<1>5. CASE Crash
  BY <1>1, <1>5, CrashFlow
<1>. QED  BY <1>3, <1>4, <1>5, OneProcessor

\* The reservations: of the wallet for every open withdrawal, of the company for
\* those that are not just waiting on the queue.
Held(w) == Open(w) /\ (w \notin queued \/ Stage(w) \in Late)
HeldOnes == {w \in Withdrawals : Held(w)}

Backed == /\ wallet.reserved = SumOver(OpenOnes)
          /\ company.reserved = SumOver(HeldOnes)

Part(in, w) == IF in THEN Total[w] ELSE 0

LEMMA SumOverMoves ==
    ASSUME NEW S \in SUBSET Withdrawals, NEW T \in SUBSET Withdrawals,
           NEW w \in Withdrawals, S \ {w} = T \ {w}
    PROVE  SumOver(T) = SumOver(S) + Part(w \in T, w) - Part(w \in S, w)
<1>. SumOver(S) \in Nat /\ SumOver(T) \in Nat /\ Total[w] \in Nat
  BY SumOverNat, Amounts
<1>1. CASE w \in S /\ w \in T
  <2>1. S = T
    BY <1>1
  <2>. QED  BY <1>1, <2>1 DEF Part
<1>2. CASE w \notin S /\ w \notin T
  <2>1. S = T
    BY <1>2
  <2>. QED  BY <1>2, <2>1 DEF Part
<1>3. CASE w \in T /\ w \notin S
  <2>1. T = S \cup {w}
    BY <1>3
  <2>. QED  BY <1>3, <2>1, SumOverMore DEF Part
<1>4. CASE w \in S /\ w \notin T
  <2>1. S = T \cup {w}
    BY <1>4
  <2>. QED  BY <1>4, <2>1, SumOverMore DEF Part
<1>. QED  BY <1>1, <1>2, <1>3, <1>4

\* What is reserved for one of a set is there.
LEMMA SumOverCovers ==
    ASSUME NEW S \in SUBSET Withdrawals, NEW w \in S
    PROVE  SumOver(S) >= Total[w]
<1>1. S = (S \ {w}) \cup {w}
  OBVIOUS
<1>2. SumOver(S) = Total[w] + SumOver(S \ {w})
  BY <1>1, SumOverMore
<1>3. SumOver(S \ {w}) \in Nat /\ Total[w] \in Nat
  BY SumOverNat, Amounts
<1>. QED  BY <1>2, <1>3

Covered(w) == /\ Open(w) => wallet.reserved >= Total[w]
              /\ Held(w) => company.reserved >= Total[w]

LEMMA BackedCovers ==
    ASSUME Backed, NEW w \in Withdrawals
    PROVE  Covered(w)
<1>1. Open(w) => SumOver(OpenOnes) >= Total[w]
  BY SumOverCovers DEF OpenOnes
<1>2. Held(w) => SumOver(HeldOnes) >= Total[w]
  BY SumOverCovers DEF HeldOnes
<1>. QED  BY <1>1, <1>2 DEF Backed, Covered

\* What the steps do to the hold of a withdrawal on the wallet ...
Places(w) == /\ txn[w].status = "none" /\ CanReserveBalance(wallet, Total[w])
             /\ wallet' = ReserveBalance(wallet, Total[w])
             /\ SetTxn(w, "PENDING", FALSE)
Settles(w) == /\ Open(w) /\ CanFinalizeBalance(wallet, Total[w])
              /\ wallet' = FinalizeBalance(wallet, Total[w])
              /\ SetTxn(w, "COMPLETED", TRUE)
Releases(w) == /\ Open(w) /\ CanReleaseBalance(wallet, Total[w])
               /\ wallet' = ReleaseBalance(wallet, Total[w])
               /\ \E processed \in BOOLEAN : SetTxn(w, "FAILED", processed)
Leaves(w) == /\ UNCHANGED wallet
             /\ \/ UNCHANGED txn
                \/ Open(w) /\ SetTxn(w, "PENDING", FALSE)
                \/ /\ txn[w].status = "COMPLETED" /\ txn[w].processed
                   /\ SetTxn(w, "PENDING", TRUE)

\* ... and to the company's reservation.
CompanyMoves(w) ==
    company'.reserved = company.reserved + Part(Held(w)', w) - Part(Held(w), w)

MoneyStep(w) == /\ Places(w) \/ Settles(w) \/ Releases(w) \/ Leaves(w)
                /\ CompanyMoves(w)

LEMMA FailedCloses ==
    ASSUME FlowTypes, NEW w \in Withdrawals, NEW p, SetTxn(w, "FAILED", p)
    PROVE  ~Open(w)'
BY DEF FlowTypes, SetTxn, Open

LEMMA SettledReserved ==
    ASSUME Sound, NEW w \in Withdrawals, CanSettle(w)
    PROVE  Settled(company, w).reserved = company.reserved - Total[w]
<1> DEFINE c1 == SubtractInternal(company, Sent(w))
           c2 == ConsumeReservedLiquidity(c1, Sent(w))
<1>1. GoodCompany(company) /\ Sent(w) \in Nat /\ Fee[w] \in Nat
      /\ Total[w] \in Nat /\ Sent(w) = Total[w] - Fee[w]
  BY Amounts, GoodRows DEF Sent
<1>2. GoodCompany(c1) /\ c1.reserved = company.reserved /\ c1.total = company.total
  BY <1>1, SubtractInternalGood DEF CanSettle, GoodCompany, CompanyAccounts, SubtractInternal
<1>3. CanConsumeLiquidity(c1, Sent(w))
  BY <1>2 DEF CanSettle, CanConsumeLiquidity
<1>4. GoodCompany(c2) /\ c2.reserved = company.reserved - Sent(w)
  <2> HIDE DEF c1
  <2>. QED  BY <1>1, <1>2, <1>3, ConsumeLiquidityGood DEF GoodCompany, CompanyAccounts,
    ConsumeReservedLiquidity
<1>5. ReleaseLiquidity(c2, Fee[w]).reserved = c2.reserved - Fee[w]
  <2> HIDE DEF c2
  <2>. QED  BY <1>1, <1>4 DEF GoodCompany, CompanyAccounts, ReleaseLiquidity
<1>6. company.reserved \in Nat
  BY <1>1 DEF GoodCompany, CompanyAccounts
<1>7. Settled(company, w).reserved = c2.reserved - Fee[w]
  BY <1>5 DEF Settled
<1>. HIDE DEF c2
<1>. QED  BY <1>1, <1>4, <1>6, <1>7

LEMMA JobMoney ==
    ASSUME Sound, FlowTypes, NEW w \in Withdrawals, FlowOf(w), Covered(w),
           JobStep(w)
    PROVE  MoneyStep(w)
<1>. Total[w] \in Nat /\ company.reserved \in Nat /\ wallet \in Wallets
  BY Amounts DEF Sound, TypeOK, CompanyAccounts
<1>1. CASE JobCommit(w)
  <2>1. Open(w) /\ Settles(w)
    BY <1>1 DEF JobCommit, FlowOf, InJob, Settles, CanSettle
  <2>2. Held(w) /\ ~Held(w)'
    BY <1>1, <2>1 DEF JobCommit, Held, FlowOf, InJob, OnQueue, Open, SetTxn, FlowTypes, Late
  <2>3. company'.reserved = company.reserved - Total[w]
    BY <1>1, SettledReserved DEF JobCommit
  <2>. QED  BY <2>1, <2>2, <2>3 DEF MoneyStep, CompanyMoves, Part
<1>2. CASE ~JobCommit(w)
  <2>1. UNCHANGED <<wallet, txn, company, queued, retry>>
    BY <1>2 DEF JobStep, JobCheck, JobError, JobMarkFailed, JobTransient, JobFinish, db
  <2>. QED  BY <2>1 DEF MoneyStep, Leaves, CompanyMoves, Part, Held, Open, Stage
<1>. QED  BY <1>1, <1>2

LEMMA ConfirmMoney ==
    ASSUME Sound, Begins, FlowTypes, NEW w \in Withdrawals, FlowOf(w),
           Covered(w), ConfirmStep(w)
    PROVE  MoneyStep(w)
<1>. Total[w] \in Nat /\ company \in CompanyAccounts /\ wallet \in Wallets
  BY Amounts DEF Sound, TypeOK
<1>. USE DEF FlowTypes, Stage, Open, Held
<1>1. CASE ConfirmReserve(w)
  <2>1. Fresh(w) /\ Stage(w) = "idle"
    BY <1>1 DEF Begins, ConfirmReserve, Fresh, Processors
  <2>2. Places(w) /\ ~Held(w)
    BY <1>1, <2>1 DEF ConfirmReserve, Fresh, Places
  <2>3. CompanyMoves(w)
    BY <1>1, <2>1, <2>2 DEF ConfirmReserve, Fresh, CompanyMoves, Part, SetTxn, Late,
      CompanyAccounts, ReserveLiquidity
  <2>. QED  BY <2>2, <2>3 DEF MoneyStep
<1>2. CASE ConfirmCompensate(w)
  <2>1. Open(w) /\ Held(w)
    BY <1>2 DEF ConfirmCompensate, FlowOf, InRequest
  <2>2. CanReleaseBoth(w)
    BY <2>1 DEF Covered, CanReleaseBoth, CanReleaseBalance, CanReleaseLiquidity
  <2>3. Releases(w) /\ ~Held(w)'
    <3>1. SetTxn(w, "FAILED", FALSE)
      BY <1>2, <2>2 DEF ConfirmCompensate
    <3>2. Releases(w)
      BY <1>2, <2>1, <2>2, <3>1 DEF ConfirmCompensate, ReleaseBoth, CanReleaseBoth, Releases
    <3>. QED  BY <3>1, <3>2, FailedCloses
  <2>4. CompanyMoves(w)
    BY <1>2, <2>1, <2>2, <2>3 DEF ConfirmCompensate, ReleaseBoth, CompanyMoves, Part,
      CompanyAccounts, ReleaseLiquidity
  <2>. QED  BY <2>3, <2>4 DEF MoneyStep
<1>3. CASE ConfirmPost(w) \/ ConfirmRecord(w) \/ ConfirmError(w)
  <2>1. UNCHANGED <<wallet, txn, company, queued, retry>>
    BY <1>3 DEF ConfirmPost, ConfirmRecord, ConfirmError, db
  <2>. QED  BY <2>1 DEF MoneyStep, Leaves, CompanyMoves, Part, CompanyAccounts
<1>. QED  BY <1>1, <1>2, <1>3 DEF ConfirmStep

LEMMA RetryMoney ==
    ASSUME Sound, FlowTypes, NEW w \in Withdrawals, FlowOf(w), Covered(w),
           RetryStep(Hourly, w), RetryError(Hourly, w) => Stage(w) \notin Late
    PROVE  MoneyStep(w)
<1>. Total[w] \in Nat /\ company \in CompanyAccounts
  BY Amounts DEF Sound, TypeOK
<1>. USE DEF Held, MoneyStep, CompanyMoves, Part, CompanyAccounts
<1>1. CASE RetryCheck(Hourly, w)
  <2>1. Stage(w) = "idle" /\ UNCHANGED <<wallet, txn, company>>
    BY <1>1 DEF RetryCheck, IdleProcessor, Stage
  <2>2. Open(w)' = Open(w) /\ Leaves(w)
    BY <2>1 DEF Open, Leaves
  <2>3. CASE Open(w) /\ SetRetry(Hourly, w, "checked") /\ UNCHANGED queued
    BY <2>1, <2>2, <2>3, StageMoves DEF Late
  <2>4. CASE ~Open(w)
    BY <2>1, <2>2, <2>4
  <2>. QED  BY <1>1, <2>3, <2>4 DEF RetryCheck
<1>2. CASE RetryReserve(Hourly, w)
  <2>1. Stage(w) = "checked" /\ UNCHANGED <<wallet, txn, queued>>
    BY <1>2 DEF RetryReserve, Stage
  <2>2. Open(w)' = Open(w) /\ Leaves(w) /\ Open(w) /\ w \in queued
    BY <2>1 DEF Open, Leaves, FlowOf, OnQueue
  <2>3. CASE /\ company' = ReserveLiquidity(company, Total[w])
             /\ SetRetry(Hourly, w, "reserved")
    BY <2>1, <2>2, <2>3, StageMoves DEF Late, ReserveLiquidity
  <2>4. CASE SetRetry(Hourly, w, "idle") /\ UNCHANGED company
    BY <2>1, <2>2, <2>4, StageMoves DEF Late
  <2>. QED  BY <1>2, <2>3, <2>4 DEF RetryReserve
<1>3. CASE RetryPost(Hourly, w)
  <2>1. Stage(w) = "reserved" /\ UNCHANGED <<wallet, txn, company, queued>>
    BY <1>3 DEF RetryPost, Stage, db
  <2>2. Open(w)' = Open(w) /\ Leaves(w)
    BY <2>1 DEF Open, Leaves
  <2>3. Stage(w)' \in Late
    BY <1>3, StageMoves DEF RetryPost, Late
  <2>. QED  BY <2>1, <2>2, <2>3 DEF Late
<1>4. CASE RetryRecord(Hourly, w)
  <2>1. Stage(w) = "posted" /\ UNCHANGED <<wallet, company, queued>>
    BY <1>4 DEF RetryRecord, Stage
  <2>2. Stage(w)' = "recorded" /\ SetTxn(w, "PENDING", txn[w].processed)
    BY <1>4, StageMoves DEF RetryRecord
  <2>3. Open(w)' = Open(w) /\ Leaves(w)
    <3>1. \/ Open(w) /\ txn[w].processed = FALSE
          \/ /\ ~Open(w) /\ txn[w].status = "COMPLETED"
             /\ txn[w].processed = TRUE
      BY <2>1 DEF FlowOf, OnQueue, Open, FlowTypes
    <3>. QED  BY <2>1, <2>2, <3>1 DEF Leaves, Open, SetTxn, FlowTypes
  <2>. QED  BY <2>1, <2>2, <2>3 DEF Late
<1>5. CASE RetryFinish(Hourly, w)
  <2>1. Stage(w) = "recorded" /\ UNCHANGED <<wallet, txn, company>>
        /\ queued' = queued \ {w}
    BY <1>5 DEF RetryFinish, Stage
  <2>2. Open(w)' = Open(w) /\ Leaves(w)
    BY <2>1 DEF Open, Leaves
  <2>. QED  BY <2>1, <2>2 DEF Late
<1>6. CASE RetryUndo(Hourly, w)
  <2>1. Stage(w) = "refused" /\ UNCHANGED <<wallet, txn, queued>>
    BY <1>6 DEF RetryUndo, Stage
  <2>2. Open(w)' = Open(w) /\ Leaves(w) /\ Open(w) /\ w \in queued
    BY <2>1 DEF Open, Leaves, FlowOf, OnQueue
  <2>3. company'.reserved = company.reserved - Total[w]
    BY <1>6, <2>1, <2>2 DEF RetryUndo, GivenBack, Covered, Late, CanReleaseLiquidity,
      ReleaseLiquidity
  <2>4. Stage(w)' = "idle"
    BY <1>6, StageMoves DEF RetryUndo
  <2>. QED  BY <2>1, <2>2, <2>3, <2>4 DEF Late
<1>7. CASE RetryError(Hourly, w)
  <2>1. /\ Stage(w) \in {"checked", "expiring"} /\ SetRetry(Hourly, w, "idle")
        /\ UNCHANGED <<wallet, txn, company, queued>>
    BY <1>7 DEF RetryError, Stage, Late, db
  <2>2. Open(w)' = Open(w) /\ Leaves(w) /\ Stage(w)' = "idle"
    BY <2>1, StageMoves DEF Open, Leaves
  <2>. QED  BY <2>1, <2>2 DEF Late
<1>. QED  BY <1>1, <1>2, <1>3, <1>4, <1>5, <1>6, <1>7 DEF RetryStep

LEMMA ExpireMoney ==
    ASSUME Sound, FlowTypes, NEW w \in Withdrawals, FlowOf(w), Covered(w),
           ExpireStep(w)
    PROVE  MoneyStep(w)
<1>. Total[w] \in Nat /\ company.reserved \in Nat
  BY Amounts DEF Sound, TypeOK, CompanyAccounts
<1>. USE DEF Held, MoneyStep, CompanyMoves, Part
<1>1. CASE ExpireRead(w)
  <2>1. Stage(w) = "idle" /\ UNCHANGED <<wallet, txn, company>> /\ w \in queued
    BY <1>1 DEF ExpireRead, IdleProcessor, Stage
  <2>2. Open(w)' = Open(w) /\ Leaves(w)
    BY <2>1 DEF Open, Leaves
  <2>3. CASE Open(w) /\ SetRetry(Hourly, w, "expiring") /\ UNCHANGED queued
    BY <2>1, <2>2, <2>3, StageMoves DEF Late
  <2>4. CASE ~Open(w)
    BY <2>1, <2>2, <2>4
  <2>. QED  BY <1>1, <2>3, <2>4 DEF ExpireRead
<1>2. CASE ExpireCommit(w)
  <2>1. Stage(w) = "expiring" /\ UNCHANGED company
    BY <1>2 DEF ExpireCommit, Stage
  <2>2. Open(w) /\ w \in queued
    BY <2>1 DEF FlowOf, OnQueue
  <2>3. CanReleaseBalance(wallet, Total[w])
    BY <2>2 DEF Covered, CanReleaseBalance
  <2>4. Releases(w) /\ ~Open(w)'
    <3>1. SetTxn(w, "FAILED", TRUE)
      BY <1>2, <2>2, <2>3 DEF ExpireCommit, ExpireRecords
    <3>2. Releases(w)
      BY <1>2, <2>2, <2>3, <3>1 DEF ExpireCommit, Releases
    <3>. QED  BY <3>1, <3>2, FailedCloses
  <2>. QED  BY <2>1, <2>2, <2>4 DEF Late
<1>. QED  BY <1>1, <1>2 DEF ExpireStep

LEMMA WalletMoves ==
    ASSUME Sound, FlowTypes, NEW w \in Withdrawals, MoneyStep(w)
    PROVE  wallet'.reserved
             = wallet.reserved + Part(Open(w)', w) - Part(Open(w), w)
<1>. Total[w] \in Nat /\ wallet \in Wallets /\ wallet.reserved \in Nat
  BY Amounts DEF Sound, TypeOK, Wallets
<1>1. CASE Places(w)
  <2>1. ~Open(w) /\ Open(w)'
    BY <1>1 DEF Places, Open, SetTxn, FlowTypes
  <2>2. wallet'.reserved = wallet.reserved + Total[w]
    BY <1>1 DEF Places, ReserveBalance, Wallets
  <2>. QED  BY <2>1, <2>2 DEF Part
<1>2. CASE Settles(w)
  <2>1. Open(w) /\ ~Open(w)'
    BY <1>2 DEF Settles, Open, SetTxn, FlowTypes
  <2>2. wallet'.reserved = wallet.reserved - Total[w]
    BY <1>2, FinalizeReserved DEF Settles
  <2>. QED  BY <2>1, <2>2 DEF Part
<1>3. CASE Releases(w)
  <2>1. Open(w) /\ ~Open(w)'
    BY <1>3, FailedCloses DEF Releases
  <2>2. wallet'.reserved = wallet.reserved - Total[w]
    BY <1>3 DEF Releases, ReleaseBalance, Wallets
  <2>. QED  BY <2>1, <2>2 DEF Part
<1>4. CASE Leaves(w)
  <2>1. Open(w)' = Open(w)
    BY <1>4 DEF Leaves, Open, SetTxn, FlowTypes
  <2>. QED  BY <1>4, <2>1 DEF Leaves, Part
<1>. QED  BY <1>1, <1>2, <1>3, <1>4 DEF MoneyStep

LEMMA BackedKept ==
    ASSUME Sound, FlowTypes, Backed, NEW w \in Withdrawals, Touches(w),
           MoneyStep(w)
    PROVE  Backed'
<1>1. OpenOnes \ {w} = OpenOnes' \ {w} /\ HeldOnes \ {w} = HeldOnes' \ {w}
  BY DEF Touches, SameAt, OpenOnes, HeldOnes, Held, Open
<1>2. /\ OpenOnes \in SUBSET Withdrawals /\ OpenOnes' \in SUBSET Withdrawals
      /\ HeldOnes \in SUBSET Withdrawals /\ HeldOnes' \in SUBSET Withdrawals
  BY DEF OpenOnes, HeldOnes
<1>3. /\ w \in OpenOnes <=> Open(w)
      /\ w \in OpenOnes' <=> Open(w)'
      /\ w \in HeldOnes <=> Held(w)
      /\ w \in HeldOnes' <=> Held(w)'
  BY DEF OpenOnes, HeldOnes
<1>4. /\ Part(w \in OpenOnes, w) = Part(Open(w), w)
      /\ Part(w \in OpenOnes', w) = Part(Open(w)', w)
      /\ Part(w \in HeldOnes, w) = Part(Held(w), w)
      /\ Part(w \in HeldOnes', w) = Part(Held(w)', w)
  BY <1>3 DEF Part
<1>5. SumOver(OpenOnes')
        = SumOver(OpenOnes) + Part(Open(w)', w) - Part(Open(w), w)
  BY <1>1, <1>2, <1>4, SumOverMoves
<1>6. SumOver(HeldOnes')
        = SumOver(HeldOnes) + Part(Held(w)', w) - Part(Held(w), w)
  BY <1>1, <1>2, <1>4, SumOverMoves
<1>. QED
  BY <1>5, <1>6, WalletMoves DEF Backed, MoneyStep, CompanyMoves, SumOver

LEMMA BackedInit == Init => Backed
<1>. SUFFICES ASSUME Init PROVE Backed
  OBVIOUS
<1>1. OpenOnes = {} /\ HeldOnes = {}
  BY DEF Init, OpenOnes, HeldOnes, Held, Open
<1>2. SumOver({}) = 0
  BY SumEmpty DEF SumOver
<1>. QED  BY <1>1, <1>2 DEF Init, Backed

\* The holds as ImplementsHolds maps them.
HoldOf(w) == IF txn[w].status = "none" THEN "none"
             ELSE IF Open(w) THEN "held"
             ELSE IF txn[w].status = "FAILED" THEN "released"
             ELSE "settled"
Hold == [w \in Withdrawals |-> HoldOf(w)]

LEMMA HoldFollows ==
    ASSUME FlowTypes, NEW w \in Withdrawals, Touches(w), MoneyStep(w)
    PROVE  Holds!HNext \/ UNCHANGED Holds!hvars
<1>1. \A v \in Withdrawals \ {w} : HoldOf(v)' = HoldOf(v)
  BY DEF Touches, SameAt, HoldOf, Open
<1>2. ASSUME NEW h, HoldOf(w)' = h
      PROVE  Hold' = [Hold EXCEPT ![w] = h]
  BY <1>1, <1>2 DEF Hold
<1>3. CASE Places(w)
  <2>1. HoldOf(w) = "none" /\ HoldOf(w)' = "held"
    BY <1>3 DEF Places, HoldOf, Open, SetTxn, FlowTypes
  <2>2. Hold[w] = "none" /\ Hold' = [Hold EXCEPT ![w] = "held"]
    BY <1>2, <2>1 DEF Hold
  <2>3. Holds!Place(w)
    BY <1>3, <2>2 DEF Places, Hold, HoldOf, Holds!Place, CanReserveBalance, ReserveBalance,
      Holds!CanReserveBalance, Holds!ReserveBalance
  <2>. QED  BY <2>3 DEF Holds!HNext
<1>4. CASE Settles(w)
  <2>1. HoldOf(w) = "held" /\ HoldOf(w)' = "settled"
    BY <1>4 DEF Settles, HoldOf, Open, SetTxn, FlowTypes
  <2>2. Hold[w] = "held" /\ Hold' = [Hold EXCEPT ![w] = "settled"]
    BY <1>2, <2>1 DEF Hold
  <2>3. Holds!Settle(w)
    BY <1>4, <2>2 DEF Settles, Hold, HoldOf, Holds!Settle, CanFinalizeBalance, FinalizeBalance,
      Holds!CanFinalizeBalance, Holds!FinalizeBalance
  <2>. QED  BY <2>3 DEF Holds!HNext
<1>5. CASE Releases(w)
  <2>1. HoldOf(w) = "held" /\ HoldOf(w)' = "released"
    BY <1>5 DEF Releases, HoldOf, Open, SetTxn, FlowTypes
  <2>2. Hold[w] = "held" /\ Hold' = [Hold EXCEPT ![w] = "released"]
    BY <1>2, <2>1 DEF Hold
  <2>3. Holds!Release(w)
    BY <1>5, <2>2 DEF Releases, Hold, HoldOf, Holds!Release, CanReleaseBalance, ReleaseBalance,
      Holds!CanReleaseBalance, Holds!ReleaseBalance
  <2>. QED  BY <2>3 DEF Holds!HNext
<1>6. CASE Leaves(w)
  <2>1. HoldOf(w)' = HoldOf(w)
    BY <1>6 DEF Leaves, HoldOf, Open, SetTxn, FlowTypes
  <2>2. Hold' = Hold
    BY <1>1, <2>1 DEF Hold
  <2>. QED  BY <1>6, <2>2 DEF Leaves, Holds!hvars, Hold, HoldOf
<1>. QED  BY <1>3, <1>4, <1>5, <1>6 DEF MoneyStep

\* Every step does one of these things for one withdrawal, or leaves wallet,
\* transactions and reservations alone.
Quiet == /\ UNCHANGED <<wallet, txn, queued>>
         /\ company'.reserved = company.reserved
         /\ \A w \in Withdrawals : Stage(w)' \in Late <=> Stage(w) \in Late

LEMMA StepsAre ==
    ASSUME Cancellers = {}, Admins = {}, Sound, Begins, Flow, Backed,
           Undisturbed, [Next]_vars
    PROVE  \/ Quiet
           \/ \E w \in Withdrawals : Touches(w) /\ MoneyStep(w)
<1>1. FlowTypes /\ AttemptsLeft /\ budget \in [Faults -> Nat]
      /\ company \in CompanyAccounts
  BY DEF Sound, TypeOK, FlowTypes
<1>2. ~Spend("lostAnswer")
  BY <1>1, NothingLost
<1>3. ASSUME NEW w \in Withdrawals,
             \/ ConfirmStep(w) \/ JobStep(w) \/ ExpireStep(w)
             \/ RetryStep(Hourly, w)
      PROVE  Touches(w) /\ MoneyStep(w)
  <2>1. /\ FlowOf(w) /\ Covered(w)
        /\ RetryError(Hourly, w) => Stage(w) \notin Late
    BY BackedCovers DEF Flow, Undisturbed
  <2>. QED
    BY <1>1, <1>2, <1>3, <2>1, ConfirmFlow, JobFlow, ExpireFlow, RetryFlow, ConfirmMoney, JobMoney,
      ExpireMoney, RetryMoney
<1>4. ASSUME NEW w \in Withdrawals, QuidaxFinish(w) PROVE Quiet
  BY <1>4 DEF QuidaxFinish, Quiet, Stage, db
<1>5. CASE TopUp \/ UNCHANGED vars
  BY <1>1, <1>5 DEF TopUp, AddLiquidity, CompanyAccounts, vars, Quiet, Stage
<1>6. CASE Crash
  <2>1. \A w \in Withdrawals : Stage(w)' = "idle" /\ Stage(w) \notin Late
    BY <1>6 DEF Crash, Stage, Processors, Undisturbed
  <2>. QED  BY <1>6, <2>1 DEF Crash, Quiet, Late, db
<1>. QED  BY <1>3, <1>4, <1>5, <1>6, OneProcessor

LEMMA BackedNext ==
    ASSUME Cancellers = {}, Admins = {}, Sound, Begins, Flow, Backed,
           Undisturbed, [Next]_vars
    PROVE  Backed' /\ (Holds!HNext \/ UNCHANGED Holds!hvars)
<1>1. FlowTypes
  BY DEF Sound, TypeOK, FlowTypes
<1>2. CASE Quiet
  <2>1. OpenOnes' = OpenOnes /\ HeldOnes' = HeldOnes
    BY <1>2 DEF Quiet, OpenOnes, HeldOnes, Held, Open
  <2>2. Backed'
    BY <1>2, <2>1 DEF Quiet, Backed, SumOver
  <2>3. UNCHANGED Holds!hvars
    BY <1>2 DEF Quiet, Holds!hvars, Open
  <2>. QED  BY <2>2, <2>3
<1>3. ASSUME NEW w \in Withdrawals, Touches(w), MoneyStep(w)
      PROVE  Backed' /\ (Holds!HNext \/ UNCHANGED Holds!hvars)
  BY <1>1, <1>3, BackedKept, HoldFollows
<1>. QED  BY <1>2, <1>3, StepsAre

BooksInv == Sound /\ Begins /\ Flow /\ Backed

LEMMA BooksInvExact ==
    ASSUME Admins = {}, BooksInv
    PROVE  BooksExact
<1>1. HeldOnes = CompanyHeld
  BY DEF HeldOnes, CompanyHeld, Held, Late, Stage, Processors
<1>2. RecordsAgree
  BY DEF BooksInv, Flow, FlowOf, Agrees, RecordsAgree
<1>. QED
  BY <1>1, <1>2 DEF BooksInv, Backed, BooksExact, HoldsExact, CompanyExact, OpenOnes

LEMMA BooksInvInit == Init => BooksInv
BY SoundInit, BeginsInit, FlowInit, BackedInit DEF BooksInv

LEMMA BooksInvNext ==
    ASSUME Cancellers = {}, Admins = {}, BooksInv, [Next]_vars,
           [Undisturbed]_vars
    PROVE  BooksInv' /\ [Holds!HNext]_(Holds!hvars)
<1>1. Undisturbed
  <2>1. CASE UNCHANGED vars
    <3>1. ASSUME NEW f \in Faults PROVE ~Spend(f)
      <4>1. budget \in [Faults -> Nat]
        BY DEF BooksInv, Sound, TypeOK
      <4>2. ASSUME Spend(f) PROVE budget'[f] = budget[f] - 1
        BY <4>1, <4>2 DEF Spend
      <4>. QED  BY <2>1, <4>1, <4>2 DEF vars
    <3>2. ~Crash /\ \A w \in Withdrawals : ~RetryError(Hourly, w)
      BY <3>1 DEF Crash, RetryError, Faults
    <3>. QED  BY <2>1, <3>2 DEF vars, Undisturbed
  <2>. QED  BY <2>1
<1>2. Sound /\ Begins /\ Flow /\ Backed /\ TypeOK
  BY DEF BooksInv, Sound
<1>. QED
  BY <1>1, <1>2, FlowNext, BackedNext, SoundNext, BeginsNext DEF BooksInv

\* Without cancellations and admins both reservations are at every moment what
\* the open withdrawals need, and the tables agree, whatever is retried, expires,
\* crashes or fails, but for the four mishaps of Undisturbed.
THEOREM BooksAlwaysExact ==
    ASSUME Cancellers = {}, Admins = {}
    PROVE  Spec /\ [][Undisturbed]_vars => []BooksExact
<1>1. BooksInv /\ [Next]_vars /\ [Undisturbed]_vars => BooksInv'
  BY BooksInvNext
<1>2. BooksInv => BooksExact
  BY BooksInvExact
<1>. QED  BY <1>1, <1>2, BooksInvInit, PTL DEF Spec

\* Under the same conditions every step of the flow is one of HoldLedger: a
\* withdrawal is held for once, and then settled or released, once and never both.
THEOREM HoldsImplemented ==
    ASSUME Cancellers = {}, Admins = {}
    PROVE  Spec /\ [][Undisturbed]_vars => ImplementsHolds
<1>1. BooksInv /\ [Next]_vars /\ [Undisturbed]_vars
        => BooksInv' /\ [~Reopens => Holds!HNext]_(Holds!hvars)
  BY BooksInvNext
<1>2. Init => Holds!HInit
  BY DEF Init, Holds!HInit, Open
<1>. QED  BY <1>1, <1>2, BooksInvInit, PTL DEF Spec, ImplementsHolds
===========================================================================
