---------------------------- MODULE BankAccounts ----------------------------
(***************************************************************************)
(* The bank accounts of one user (account.service.ts). An account is first *)
(* verified at Paystack, which leaves a token in Redis with the name that  *)
(* it has there; the token then adds the account. The list of the banks is *)
(* kept in Redis for a day. Account numbers have no unique key.            *)
(***************************************************************************)
EXTENDS Mishaps

CONSTANTS BankNumbers,  \* account numbers
          OwnNumbers,   \* those whose name at the bank is the user's
          BankTokens,   \* verifications
          BankSlots     \* requests that may be under way at once

ASSUME BankAssumption ==
    /\ OwnNumbers \subseteq BankNumbers /\ "none" \notin BankNumbers
    /\ {"refusal", "error", "expiry", "crash", "overlap"} \subseteq Kinds
    \* What is only noted has to leave a trace.
    /\ Budget["overlap"] > 0

VARIABLES
    bankToken,    \* Redis: verifications, of which number, and whether it is still there
    bankList,     \* Redis: the banks, which an answer without data leaves empty
    bankRows,     \* how many rows there are of each number
    bankRequest   \* the requests: where each of them is

bankVars == <<bankToken, bankList, bankRows, bankRequest, budget>>

NoBankRequest == [pc |-> "idle", token |-> "none"]

BankTypeOK ==
    /\ bankToken \in [BankTokens -> [of : BankNumbers \cup {"none"}, live : BOOLEAN]]
    /\ bankList \in {"none", "full", "empty"}
    /\ bankRows \in [BankNumbers -> Nat]
    /\ bankRequest \in [BankSlots -> [pc : {"idle", "begun", "named", "add", "forget"},
                                      token : BankTokens \cup {"none"}]]

BankInit == /\ bankToken = [t \in BankTokens |-> [of |-> "none", live |-> FALSE]]
            /\ bankList = "none" /\ bankRows = [n \in BankNumbers |-> 0]
            /\ bankRequest = [s \in BankSlots |-> NoBankRequest]

BankAt(s, pc) == bankRequest[s].pc = pc
BankGo(s, pc) == bankRequest' = [bankRequest EXCEPT ![s].pc = pc]
BankEnds(s) == bankRequest' = [bankRequest EXCEPT ![s] = NoBankRequest]
NumberOf(s) == bankToken[bankRequest[s].token].of
---------------------------------------------------------------------------
\* Paystack knows the account.
VerifyBankAccount(t, n) ==
    /\ bankToken[t].of = "none"
    /\ bankToken' = [bankToken EXCEPT ![t] = [of |-> n, live |-> TRUE]]
    /\ UNCHANGED <<bankList, bankRows, bankRequest, budget>>

\* The signature of a token outlives its entry in Redis.
CreateBankAccount(s, t) ==
    /\ BankAt(s, "idle") /\ bankToken[t].live
    /\ bankRequest' = [bankRequest EXCEPT ![s] = [pc |-> "begun", token |-> t]]
    /\ UNCHANGED <<bankToken, bankList, bankRows, budget>>

\* The banks from Redis, or from Paystack and then kept, whatever it has answered; a call
\* that fails keeps nothing.
BankListed(list) ==
    \/ bankList # "none" /\ list = bankList /\ UNCHANGED <<bankList, budget>>
    \/ bankList = "none" /\ list = "full" /\ bankList' = list /\ UNCHANGED budget
    \/ bankList = "none" /\ list = "empty" /\ bankList' = list /\ Spend("refusal")
    \/ bankList = "none" /\ list = "none" /\ UNCHANGED bankList /\ Spend("error")

\* The token stays when the bank is not found.
BankNamed(s) ==
    /\ BankAt(s, "begun")
    /\ \E list \in {"none", "full", "empty"} :
           BankListed(list) /\ IF list = "full" THEN BankGo(s, "named") ELSE BankEnds(s)
    /\ UNCHANGED <<bankToken, bankRows>>

AllBanks == /\ \E list \in {"none", "full", "empty"} : BankListed(list)
            /\ UNCHANGED <<bankToken, bankRows, bankRequest>>

\* Mutation of BankKnown: the look for the account is left out.
NeverListed(n) == FALSE

BankKnown(n) == bankRows[n] > 0

BankChecked(s) ==
    LET n == NumberOf(s)
    IN  /\ BankAt(s, "named")
        /\ BankGo(s, IF n \notin OwnNumbers \/ BankKnown(n) THEN "forget" ELSE "add")
        /\ Note(\E u \in BankSlots \ {s} : BankAt(u, "add") /\ NumberOf(u) = n, "overlap")
        /\ UNCHANGED <<bankToken, bankList, bankRows>>

BankAdded(s) ==
    /\ BankAt(s, "add")
    /\ \/ /\ bankRows' = [bankRows EXCEPT ![NumberOf(s)] = @ + 1] /\ BankGo(s, "forget")
          /\ UNCHANGED budget
       \/ UNCHANGED bankRows /\ BankEnds(s) /\ Spend("error")
    /\ UNCHANGED <<bankToken, bankList>>

\* After an account was added, and after one was refused.
BankForgotten(s) ==
    /\ BankAt(s, "forget") /\ BankEnds(s)
    /\ bankToken' = [bankToken EXCEPT ![bankRequest[s].token].live = FALSE]
    /\ UNCHANGED <<bankList, bankRows, budget>>

DeleteBankAccount(n) ==
    /\ bankRows[n] > 0 /\ bankRows' = [bankRows EXCEPT ![n] = @ - 1]
    /\ UNCHANGED <<bankToken, bankList, bankRequest, budget>>

\* Five minutes, or a day.
BankExpires ==
    /\ Spend("expiry")
    /\ \/ \E t \in BankTokens : /\ bankToken[t].live /\ UNCHANGED bankList
                                /\ bankToken' = [bankToken EXCEPT ![t].live = FALSE]
       \/ bankList # "none" /\ bankList' = "none" /\ UNCHANGED bankToken
    /\ UNCHANGED <<bankRows, bankRequest>>

BankCrash ==
    /\ \E s \in BankSlots : ~BankAt(s, "idle")
    /\ bankRequest' = [s \in BankSlots |-> NoBankRequest] /\ Spend("crash")
    /\ UNCHANGED <<bankToken, bankList, bankRows>>

BankNext ==
    \/ AllBanks \/ BankExpires \/ BankCrash
    \/ \E n \in BankNumbers : \/ DeleteBankAccount(n)
                              \/ \E t \in BankTokens : VerifyBankAccount(t, n)
    \/ \E s \in BankSlots : \/ BankNamed(s) \/ BankChecked(s) \/ BankAdded(s)
                            \/ BankForgotten(s)
                            \/ \E t \in BankTokens : CreateBankAccount(s, t)
---------------------------------------------------------------------------
(***************************************************************************)
(* Properties                                                              *)
(***************************************************************************)
\* However its requests, its failures and its repetitions fall, an account is there once,
\* and only one in the user's name: unless two requests to add it are under way at the
\* same time, with one token or two, since nothing but the look keeps them apart.
BanksExact == \A n \in BankNumbers : /\ bankRows[n] > 0 => n \in OwnNumbers
                                     /\ Untouched({"overlap"}) => bankRows[n] <= 1
=============================================================================
