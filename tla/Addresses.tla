----------------------------- MODULE Addresses -----------------------------
(***************************************************************************)
(* From a user's first PIN to the addresses deposits are sent to: the job  *)
(* that opens the account at Quidax (quidax-account.worker.ts) and the     *)
(* handler of the events that tell of generated addresses                  *)
(* (address-generated.handler.ts). One user and the wallet of one coin.    *)
(*                                                                         *)
(* The job asks Quidax from within a database transaction. A row that is   *)
(* there already fails the whole of it: PostgreSQL refuses what follows a  *)
(* failed statement, each refusal is swallowed with its currency, and the  *)
(* commit rolls back without an error. So the branches that look at a row  *)
(* of an earlier run (its age, its second claim) are never reached.        *)
(***************************************************************************)
EXTENDS Mishaps

CONSTANTS Nets,     \* the networks of the coin
          Tagged,   \* those for which Quidax later names no network
          JobTries  \* attempts of the job (10 in the code)

ASSUME AddressesAssumption ==
    /\ Tagged \subseteq Nets /\ {"tagged", "none"} \cap Nets = {}
    /\ JobTries \in Nat \ {0}
    /\ {"lostAnswer", "refusal", "timeout", "crash"} \subseteq Kinds

VARIABLES
    account,  \* at Quidax: opened; on the user's row: saved
    setup,    \* where the job is, the networks left, and its attempts
    wallet,   \* id of the wallet's row: that of Quidax, or made up by the handler
    addresses,\* the committed rows, by network
    pending,  \* what the job's open transaction has written
    lostTx,   \* how many of its transactions were rolled back
    news      \* the event of each address Quidax has made

addressVars == <<account, setup, wallet, addresses, pending, lostTx, news, budget>>

\* The k-th address of a network: each but the first is asked for after a mishap.
Ids == Nets \X (1..(MaxFaults + 1))
NoId == <<"none", 0>>
Keys == Nets \cup {"tagged"}
KeyOf(id) == IF id[1] \in Tagged THEN "tagged" ELSE id[1]

NoRows == [key \in Keys |-> [status |-> "none", id |-> NoId]]
NoTx == [wallet |-> FALSE, rows |-> NoRows]
RowSets == [Keys -> [status : {"none", "PROCESSING", "ACTIVE", "FAILED"},
                     id : Ids \cup {NoId}]]

AddressTypeOK ==
    /\ account \in [opened : BOOLEAN, saved : BOOLEAN]
    /\ setup \in [pc : {"none", "queued", "named", "asking", "posting", "aborted",
                        "committed", "done", "failed"},
                  todo : SUBSET Nets, net : Nets \cup {"none"}, tries : Nat]
    /\ wallet \in {"none", "quidax", "made up"}
    /\ addresses \in RowSets /\ pending \in [wallet : BOOLEAN, rows : RowSets]
    /\ lostTx \in Nat
    /\ news \in [Ids -> {"none", "sent", "creating", "done", "lost"}]

AddressInit ==
    /\ account = [opened |-> FALSE, saved |-> FALSE]
    /\ setup = [pc |-> "none", todo |-> {}, net |-> "none", tries |-> JobTries]
    /\ wallet = "none" /\ addresses = NoRows /\ pending = NoTx /\ lostTx = 0
    /\ news = [i \in Ids |-> "none"]
---------------------------------------------------------------------------
(* The job                                                                 *)

At(pc) == setup.pc = pc
To(pc) == setup' = [setup EXCEPT !.pc = pc]
JobFails == setup' = [setup EXCEPT !.pc = IF setup.tries > 1 THEN "queued" ELSE "failed",
                                   !.tries = @ - 1, !.todo = {}, !.net = "none"]
Rollback == /\ pending' = NoTx
            /\ lostTx' = lostTx + (IF pending = NoTx THEN 0 ELSE 1)

\* jobId names the user: there is one job at most.
CreateQuidaxSubaccount ==
    /\ At("none") /\ To("queued")
    /\ UNCHANGED <<account, wallet, addresses, pending, lostTx, news, budget>>

\* Of an account it has opened already, Quidax answers with that account or refuses. Dying
\* before the answer is saved is losing it.
OpenAccount ==
    /\ At("queued")
    /\ \/ To("named") /\ account' = [opened |-> TRUE, saved |-> TRUE] /\ UNCHANGED budget
       \/ /\ JobFails /\ account' = [account EXCEPT !.opened = TRUE]
          /\ Spend("lostAnswer")
       \/ account.opened /\ JobFails /\ UNCHANGED <<account, budget>>
    /\ UNCHANGED <<wallet, addresses, pending, lostTx, news>>

\* handleWalletSync: the wallet as Quidax knows it, under the id Quidax has for it.
\* There is one wallet per user and coin, so a made-up one is in the way. Quidax may
\* not have the wallet, or not on any network.
SyncWallet ==
    /\ At("named")
    /\ \/ /\ wallet = "made up" /\ To("aborted") /\ UNCHANGED pending
       \/ /\ wallet # "made up"
          /\ \E networks \in {{}, Nets} :
                 setup' = [setup EXCEPT !.pc = "asking", !.todo = networks]
          /\ pending' = [NoTx EXCEPT !.wallet = TRUE]
       \/ To("asking") /\ UNCHANGED pending
    /\ UNCHANGED <<account, wallet, addresses, lostTx, news, budget>>

\* Mutation of RowFree: rows are told apart by nothing.
AnyRow(n) == TRUE

RowFree(n) == addresses[n].status = "none"

\* ensurePaymentAddress, up to its question.
ClaimRow(n) ==
    /\ At("asking") /\ n \in setup.todo
    /\ \/ /\ RowFree(n)
          /\ setup' = [setup EXCEPT !.pc = "posting", !.net = n, !.todo = @ \ {n}]
          /\ pending' = [pending EXCEPT !.rows[n].status = "PROCESSING"]
          /\ UNCHANGED lostTx
       \/ ~RowFree(n) /\ To("aborted") /\ Rollback
    /\ UNCHANGED <<account, wallet, addresses, news, budget>>

Latest(n) == Cardinality({k \in 1..(MaxFaults + 1) : news[<<n, k>>] # "none"})

\* createPaymentAddress: Quidax makes an address, and names it at once or later. An
\* error, whether or not an address was made, fails the row for good.
AskAddress ==
    LET n == setup.net
        id == <<n, Latest(n) + 1>>
        Row(status, i) == pending' = [pending EXCEPT !.rows[n] =
                                         [status |-> status, id |-> i]]
        Made == news' = [news EXCEPT ![id] = "sent"]
    IN  /\ At("posting") /\ setup' = [setup EXCEPT !.pc = "asking", !.net = "none"]
        /\ \/ Row("ACTIVE", id) /\ Made /\ UNCHANGED budget
           \/ Row("PROCESSING", NoId) /\ Made /\ UNCHANGED budget
           \/ Row("FAILED", NoId) /\ Made /\ Spend("lostAnswer")
           \/ Row("FAILED", NoId) /\ UNCHANGED news /\ Spend("refusal")
        /\ UNCHANGED <<account, wallet, addresses, lostTx>>

CommitSetup ==
    /\ \/ At("aborted") /\ UNCHANGED <<wallet, addresses>>
       \/ /\ At("asking") /\ setup.todo = {}
          /\ wallet' = IF pending.wallet THEN "quidax" ELSE wallet
          /\ addresses' = [key \in Keys |-> IF pending.rows[key].status = "none"
                                            THEN addresses[key] ELSE pending.rows[key]]
    /\ To("committed") /\ pending' = NoTx
    /\ UNCHANGED <<account, lostTx, news, budget>>

SetupDone ==
    /\ At("committed") /\ To("done")
    /\ UNCHANGED <<account, wallet, addresses, pending, lostTx, news, budget>>

\* An interactive transaction may take five seconds.
TxTimesOut ==
    /\ setup.pc \in {"asking", "posting"} /\ Spend("timeout")
    /\ JobFails /\ Rollback
    /\ UNCHANGED <<account, wallet, addresses, news>>

SetupCrash ==
    /\ setup.pc \notin {"none", "done", "failed"} /\ Spend("crash")
    /\ setup' = [setup EXCEPT !.pc = "queued", !.todo = {}, !.net = "none"] /\ Rollback
    /\ news' = [i \in Ids |-> IF news[i] = "creating"
                              THEN "sent" ELSE news[i]]
    /\ UNCHANGED <<account, wallet, addresses>>
---------------------------------------------------------------------------
(* The handler of the event of an address                                  *)

Heard(i, pc) == news' = [news EXCEPT ![i] = pc]

\* The account is on the user's row before an address is asked for, so the handler
\* knows the user. It has seen no wallet. The insert waits for a transaction that has
\* inserted one, and when there is one after all it throws, and the event is tried again.
AddressRead(i) ==
    /\ news[i] = "sent" /\ wallet = "none" /\ Heard(i, "creating")
    /\ UNCHANGED <<account, setup, wallet, addresses, pending, lostTx, budget>>

WalletCreate(i) ==
    /\ news[i] = "creating" /\ ~pending.wallet /\ Heard(i, "sent")
    /\ wallet' = IF wallet = "none" THEN "made up" ELSE wallet
    /\ UNCHANGED <<account, setup, addresses, pending, lostTx, budget>>

Upserted(key, i) == [addresses EXCEPT ![key] = [status |-> "ACTIVE", id |-> i]]

\* With a wallet, the handler asks Quidax for the address again: an error throws, an
\* answer without success ends it. No two rows have one id. The row of a transaction
\* under way is waited for.
AddressSave(i) ==
    /\ news[i] = "sent" /\ wallet # "none"
    /\ \/ /\ pending.rows[KeyOf(i)].status = "none"
          /\ \A key \in Keys \ {KeyOf(i)} : addresses[key].id # i
          /\ addresses' = Upserted(KeyOf(i), i) /\ Heard(i, "done") /\ UNCHANGED budget
       \/ /\ \E key \in Keys \ {KeyOf(i)} : addresses[key].id = i
          /\ Heard(i, "lost") /\ UNCHANGED <<addresses, budget>>
       \/ Heard(i, "lost") /\ Spend("refusal") /\ UNCHANGED addresses
    /\ UNCHANGED <<account, setup, wallet, pending, lostTx>>
---------------------------------------------------------------------------
SetupStep == \/ OpenAccount \/ SyncWallet \/ AskAddress \/ CommitSetup
             \/ SetupDone \/ \E n \in Nets : ClaimRow(n)
AddressStep(i) == AddressRead(i) \/ WalletCreate(i) \/ AddressSave(i)

AddressNext == \/ CreateQuidaxSubaccount \/ SetupStep \/ TxTimesOut \/ SetupCrash
               \/ \E i \in Ids : AddressStep(i)

\* The addresses alone, with the whole budget to themselves.
AddressSpec == AddressInit /\ budget = Budget /\ [][AddressNext]_addressVars

\* Workers run the jobs they have; nobody is obliged to set a PIN.
AddressFairness ==
    WF_addressVars(Of("addresses") /\ (SetupStep \/ \E i \in Ids : AddressStep(i)))
---------------------------------------------------------------------------
(***************************************************************************)
(* Properties                                                              *)
(***************************************************************************)
\* However often the job runs and wherever it dies, Quidax is asked for another
\* address of a network, and a wallet gets an id that is not Quidax's, only after a
\* transaction of the job was rolled back; and a row in use has the id of an address
\* that Quidax has made, on its own network.
AddressesExact ==
    /\ \A n \in Nets : Latest(n) <= 1 + lostTx
    /\ wallet = "made up" => lostTx > 0
    /\ \A key \in Keys : addresses[key].status = "ACTIVE" =>
           \E i \in Ids : /\ i = addresses[key].id /\ news[i] # "none"
                          /\ key \in {i[1], KeyOf(i)}

InUse(n) == \E key \in Keys : addresses[key].status = "ACTIVE" /\ addresses[key].id[1] = n

\* Each address that Quidax makes is in use in the end, also when the transaction that
\* asked for it is rolled back, or its answer lost, unless its event was dropped.
AddressesUp == \A i \in Ids : news[i] \notin {"none", "lost"} => InUse(i[1])
===========================================================================
