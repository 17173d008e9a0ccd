------------------------------ MODULE Accounts ------------------------------
(***************************************************************************)
(* The account of one e-mail address (users.service.ts, otp.service.ts,    *)
(* token.service.ts, auth.service.ts, admin-users.service.ts): signing up, *)
(* its PIN and the codes that change it, wrong PINs, the second factor,    *)
(* and what administrators make of it.                                     *)
(*                                                                         *)
(* A request reads the account, the counters and the codes, and writes     *)
(* later what follows from what it has read. Codes and counters are in     *)
(* Redis, whose failures are logged and otherwise ignored: a read finds    *)
(* nothing, a write is not made. Whoever sends a code has got it by mail.  *)
(* What a session is good for is left out.                                 *)
(***************************************************************************)
EXTENDS Mishaps, FiniteSets

CONSTANTS Slots,        \* requests that may be under way at once
          MaxRequests,  \* bound on the requests that change an account
          LoginLimit,   \* LOGIN_ATTEMPT_LIMIT
          ChangeLimit,  \* MAX_ATTEMPTS
          ResendLimit   \* RESEND_MAX_PER_HOUR

ASSUME AccountsAssumption ==
    /\ MaxRequests \in Nat /\ LoginLimit \in Nat \ {0} /\ ChangeLimit \in Nat \ {0}
    /\ ResendLimit \in Nat /\ {"overlap", "error", "expiry", "redis"} \subseteq Kinds

VARIABLES
    profile,  \* the row of the user
    welcome,  \* whether setUserPin has queued the opening of the account at Quidax
    code,     \* Redis: purposes a code is waiting for
    pass,     \* Redis: what codes have been exchanged for
    count,    \* Redis: the counters, and the pause between two mails
    refresh,  \* the refresh token
    slot,     \* the requests under way
    served,   \* how many requests there have been
    tally     \* what has happened: wrong PINs in a row, codes left, a deletion, a PIN
              \* that was reset before it was set

accountVars == <<profile, welcome, code, pass, count, refresh, slot, served, tally,
                 budget>>

Purposes == {"signup", "pin_reset", "pin_change", "enable_2fa", "login_2fa"}
Passes == {"registration", "pin reset"}
Limits == [login |-> LoginLimit, change |-> ChangeLimit, resend |-> ResendLimit,
           forgot |-> ResendLimit]
NoProfile == [there |-> FALSE, pin |-> FALSE, status |-> "PENDING", two |-> FALSE]
Idle == [op |-> "none", pc |-> "idle", two |-> FALSE, n |-> 0, right |-> FALSE]

Signing == {"resend", "verify", "complete"}
Signed == {"setPin", "changeAsk", "changeDo", "delete", "twoAsk", "twoDo", "twoOff"}
Public == {"login", "login2", "forgot", "reset"}
Ops == Signing \cup Signed \cup Public \cup {"flag", "unflag"}

AccountTypeOK ==
    LET Profiles == [there : BOOLEAN, pin : BOOLEAN, two : BOOLEAN,
                 status : {"PENDING", "ACTIVE", "FLAGGED", "DELETED"}]
    IN  /\ profile \in Profiles
        /\ slot \in [Slots -> [op : Ops \cup {"none"}, pc : {"idle", "read", "written"},
                               two : BOOLEAN, n : Nat, right : BOOLEAN]]
        /\ welcome \in BOOLEAN
        /\ code \in SUBSET Purposes /\ pass \in SUBSET Passes
        /\ count \in [login : Nat, change : Nat, resend : Nat, forgot : Nat,
                      pause : BOOLEAN]
        /\ refresh \in {"none", "live", "revoked"} /\ served \in Nat
        /\ tally \in [login : Nat, change : Nat, codes : Int, gone : BOOLEAN,
                     early : BOOLEAN]

\* Of somebody new, or of a user.
AccountInit ==
    /\ \/ profile = NoProfile /\ welcome = FALSE
       \/ /\ profile = [there |-> TRUE, pin |-> TRUE, status |-> "ACTIVE", two |-> FALSE]
          /\ welcome = TRUE
    /\ code = {} /\ pass = {} /\ refresh = "none" /\ served = 0
    /\ count = [login |-> 0, change |-> 0, resend |-> 0, forgot |-> 0, pause |-> FALSE]
    /\ slot = [s \in Slots |-> Idle]
    /\ tally = [login |-> 0, change |-> 0, codes |-> 0, gone |-> FALSE, early |-> FALSE]
---------------------------------------------------------------------------
(* Beginning: what a request finds                                         *)

\* AuthGuard, and who gets to the handler at all. Of the status of an account only
\* FLAGGED matters to it.
Admitted(op) ==
    CASE op \in Signed -> profile.there /\ profile.status # "FLAGGED"
      [] op \in {"resend", "complete"} -> ~profile.there
      [] op = "verify" -> TRUE
      [] OTHER -> profile.there

\* validateUser and initiatePinChange.
Usable(op) ==
    /\ profile.pin /\ profile.status # "DELETED"
    /\ op = "changeAsk" => profile.status # "FLAGGED"

\* What a request finds in Redis, if not one of its reads fails: a counter, the pause
\* between two mails, the code that verify looks for first.
Kept == [count |-> count, code |-> code]
Found(op) ==
    {Kept} \cup
    CASE op = "resend" -> {[Kept EXCEPT !.count.resend = 0], [Kept EXCEPT !.count.pause = FALSE]}
      [] op = "forgot" -> {[Kept EXCEPT !.count.forgot = 0]}
      [] op = "login" -> {[Kept EXCEPT !.count.login = 0]}
      [] op = "changeAsk" -> {[Kept EXCEPT !.count.change = 0]}
      [] op = "verify" -> {[Kept EXCEPT !.code = @ \ {"pin_reset"}]}
      [] OTHER -> {}

\* The first checks of each handler; the others are made with what it has read.
Proceeds(op, seen) ==
    CASE op \in {"login", "changeAsk"} -> Usable(op)
      [] op = "setPin" -> ~profile.pin
      [] op = "changeDo" -> "pin_change" \in code
      [] op = "forgot" -> seen.count.forgot < ResendLimit
      [] op = "resend" -> seen.count.resend < ResendLimit /\ ~seen.count.pause
      [] op = "verify" -> seen.code \cap {"signup", "pin_reset"} # {}
      [] op = "complete" -> "registration" \in pass
      [] op = "reset" -> "pin reset" \in pass
      [] op = "delete" -> TRUE
      [] op = "twoAsk" -> profile.pin /\ ~profile.two
      [] op = "twoDo" -> ~profile.two /\ "enable_2fa" \in code
      [] op = "twoOff" -> profile.two
      [] op = "login2" -> profile.two /\ "login_2fa" \in code
      [] op = "flag" -> profile.status \notin {"DELETED", "FLAGGED"}
      [] op = "unflag" -> profile.status = "FLAGGED"

\* That of verify tells the codes apart: one to reset a PIN goes first.
CountOf(op, seen) ==
    CASE op \in {"login", "resend", "forgot"} -> seen.count[op]
      [] op = "changeAsk" -> seen.count.change
      [] op = "verify" /\ "pin_reset" \in seen.code -> 1
      [] OTHER -> 0

BeginRequest(s, op, right, seen) ==
    /\ slot[s].pc = "idle" /\ served < MaxRequests /\ served' = served + 1
    /\ Admitted(op) /\ Proceeds(op, seen)
    /\ right \/ op \in {"login", "changeAsk"}
    /\ slot' = [slot EXCEPT ![s] = [op |-> op, pc |-> "read", two |-> profile.two,
                                    right |-> right, n |-> CountOf(op, seen)]]
    /\ IF \E t \in Slots : slot[t].pc # "idle" THEN Spend("overlap")
       ELSE IF seen # Kept THEN Spend("redis") ELSE UNCHANGED budget
    /\ UNCHANGED <<profile, welcome, code, pass, count, refresh, tally>>

\* initiateClientSignUp: no limit, and nothing to be read.
SignUp == /\ ~profile.there /\ "signup" \notin code /\ code' = code \cup {"signup"}
          /\ UNCHANGED <<profile, welcome, pass, count, refresh, slot, served, tally,
                         budget>>
---------------------------------------------------------------------------
(* Going on: what a request writes                                         *)

Doing(s, op, pc) == slot[s].op = op /\ slot[s].pc = pc
Ends(s) == slot' = [slot EXCEPT ![s] = Idle]
Writes(s) == slot' = [slot EXCEPT ![s].pc = "written"]

\* What Redis keeps from now on, if no write fails; a code that was to replace another
\* may have gone without it.
Caches(p, codes, passes, counts) ==
    \/ code' = codes /\ pass' = passes /\ count' = counts /\ UNCHANGED budget
    \/ /\ Spend("redis")
       /\ code' \in {codes, code, code \ {p}} /\ pass' \in {passes, pass}
       /\ count' \in {counts, count, [counts EXCEPT !.pause = count.pause],
                     [count EXCEPT !.pause = counts.pause]}

\* issueOtp: a code replaces the one before. verifyOtp deletes one with which it agrees.
Mails(p, counts) == Caches(p, code \cup {p}, pass, counts)
UsesCode(p, passes, counts) == Caches(p, code \ {p}, passes, counts)
CountsAs(counts) == Caches("none", code, pass, counts)

\* A failure of the database, or of the process, before a row is written or between a
\* row and what follows it; the code may have been used by then.
CodeOf(op) == CASE op = "changeDo" -> {"pin_change"} [] op = "twoDo" -> {"enable_2fa"}
                [] op = "login2" -> {"login_2fa"} [] OTHER -> {}
RequestFails(s) ==
    /\ slot[s].pc # "idle" /\ Ends(s) /\ Spend("error")
    /\ code' \in {code, code \ CodeOf(slot[s].op)}
    /\ UNCHANGED <<profile, welcome, pass, count, refresh, served, tally>>

Resend(s) ==
    /\ Doing(s, "resend", "read") /\ Ends(s)
    /\ Mails("signup", [count EXCEPT !.resend = slot[s].n + 1, !.pause = TRUE])
    /\ UNCHANGED <<profile, welcome, refresh, served, tally>>

VerifyOtp(s) ==
    /\ Doing(s, "verify", "read") /\ Ends(s)
    /\ \/ slot[s].n = 1 /\ UsesCode("pin_reset", pass \cup {"pin reset"}, count)
       \/ slot[s].n = 0 /\ UsesCode("signup", pass \cup {"registration"}, count)
    /\ UNCHANGED <<profile, welcome, refresh, served, tally>>

\* The row's address is unique.
CompleteSignUp(s) ==
    /\ Doing(s, "complete", "read") /\ Ends(s)
    /\ \/ /\ ~profile.there /\ profile' = [profile EXCEPT !.there = TRUE]
          /\ refresh' = "live" /\ Caches("none", code, pass \ {"registration"}, count)
       \/ profile.there /\ UNCHANGED <<profile, refresh, code, pass, count, budget>>
    /\ UNCHANGED <<welcome, served, tally>>

SetPin(s) ==
    /\ Doing(s, "setPin", "read") /\ Writes(s)
    /\ profile' = [profile EXCEPT !.pin = TRUE, !.status = "ACTIVE"]
    /\ UNCHANGED <<welcome, code, pass, count, refresh, served, tally, budget>>

\* Its row of userDailyPercentage bears the time, so two requests may both get here and
\* both go on. What fails (RequestFails) cannot be repeated, since the PIN is set.
SetPinRest(s) ==
    /\ Doing(s, "setPin", "written") /\ Ends(s) /\ welcome' = TRUE
    /\ UNCHANGED <<profile, code, pass, count, refresh, served, tally, budget>>

ForgotPin(s) ==
    /\ Doing(s, "forgot", "read") /\ Ends(s)
    /\ Mails("pin_reset", [count EXCEPT !.forgot = slot[s].n + 1])
    /\ tally' = [tally EXCEPT !.codes = @ + 1]
    /\ UNCHANGED <<profile, welcome, refresh, served>>

\* The transaction, with the check of the token in it, and then the token.
ResetPin(s) ==
    /\ Doing(s, "reset", "read")
    /\ \/ "pin reset" \in pass /\ Writes(s) /\ profile' = [profile EXCEPT !.pin = TRUE]
          /\ tally' = [tally EXCEPT !.codes = @ - 1, !.early = @ \/ ~profile.pin]
       \/ "pin reset" \notin pass /\ Ends(s) /\ UNCHANGED <<profile, tally>>
    /\ UNCHANGED <<welcome, code, pass, count, refresh, served, budget>>

ResetDone(s) ==
    /\ Doing(s, "reset", "written") /\ Ends(s)
    /\ Caches("none", code, pass \ {"pin reset"}, count)
    /\ UNCHANGED <<profile, welcome, refresh, served, tally>>

ConfirmPinChange(s) ==
    /\ Doing(s, "changeDo", "read") /\ Ends(s)
    /\ UsesCode("pin_change", pass, [count EXCEPT !.change = 0])
    /\ profile' = [profile EXCEPT !.pin = TRUE]
    /\ tally' = [tally EXCEPT !.codes = @ - 1, !.change = 0]
    /\ UNCHANGED <<welcome, refresh, served>>
---------------------------------------------------------------------------
(* PINs, right and wrong                                                   *)

Counter(op) == IF op = "login" THEN "login" ELSE "change"

\* Mutation of Reached: an off-by-one.
Passed(op, n) == n > Limits[Counter(op)]
Reached(op, n) == n >= Limits[Counter(op)]

\* The counter is what was read and one; then, with another write, the account may be
\* locked, whatever has become of it. Nothing makes up for that write when it fails
\* (RequestFails).
WrongPin(s, op) ==
    /\ op \in {"login", "changeAsk"} /\ Doing(s, op, "read") /\ ~slot[s].right
    /\ CountsAs([count EXCEPT ![Counter(op)] = slot[s].n + 1])
    /\ IF Reached(op, slot[s].n + 1) THEN Writes(s) ELSE Ends(s)
    /\ tally' = [tally EXCEPT ![Counter(op)] = @ + 1]
    /\ UNCHANGED <<profile, welcome, refresh, served>>

LockAccount(s, op) ==
    /\ op \in {"login", "changeAsk"} /\ Doing(s, op, "written") /\ Ends(s)
    /\ profile' = [profile EXCEPT !.status = "FLAGGED"]
    /\ UNCHANGED <<welcome, code, pass, count, refresh, served, tally, budget>>

\* A login without a second factor starts a session, unless that transaction fails; one
\* with it mails a code, if it is still there when the user is read again.
LogIn(s) ==
    LET counts == [count EXCEPT !.login = 0]
    IN  /\ Doing(s, "login", "read") /\ slot[s].right /\ Ends(s)
        /\ tally' = [tally EXCEPT !.login = 0]
        /\ \/ ~slot[s].two /\ refresh' \in {"live", refresh} /\ CountsAs(counts)
           \/ slot[s].two /\ profile.two /\ Mails("login_2fa", counts) /\ UNCHANGED refresh
           \/ slot[s].two /\ ~profile.two /\ CountsAs(counts) /\ UNCHANGED refresh
        /\ UNCHANGED <<profile, welcome, served>>

InitiatePinChange(s) ==
    /\ Doing(s, "changeAsk", "read") /\ slot[s].right /\ Ends(s)
    /\ Mails("pin_change", [count EXCEPT !.change = 0])
    /\ tally' = [tally EXCEPT !.change = 0, !.codes = @ + 1]
    /\ UNCHANGED <<profile, welcome, refresh, served>>
---------------------------------------------------------------------------
(* The second factor, sessions, and the end of an account                  *)

LogInTwoFactor(s) ==
    /\ Doing(s, "login2", "read") /\ Ends(s) /\ UsesCode("login_2fa", pass, count)
    /\ refresh' = "live"
    /\ UNCHANGED <<profile, welcome, served, tally>>

InitiateTwoFactor(s) ==
    /\ Doing(s, "twoAsk", "read") /\ Ends(s) /\ Mails("enable_2fa", count)
    /\ UNCHANGED <<profile, welcome, refresh, served, tally>>

VerifyTwoFactor(s) ==
    /\ Doing(s, "twoDo", "read") /\ Ends(s) /\ UsesCode("enable_2fa", pass, count)
    /\ profile' = [profile EXCEPT !.two = TRUE]
    /\ UNCHANGED <<welcome, refresh, served, tally>>

DisableTwoFactor(s) ==
    /\ Doing(s, "twoOff", "read") /\ Ends(s) /\ profile' = [profile EXCEPT !.two = FALSE]
    /\ UNCHANGED <<welcome, code, pass, count, refresh, served, tally, budget>>

LogOut ==
    /\ refresh = "live" /\ refresh' = "revoked"
    /\ UNCHANGED <<profile, welcome, code, pass, count, slot, served, tally, budget>>

DeleteAccount(s) ==
    /\ Doing(s, "delete", "read") /\ Ends(s)
    /\ profile' = [profile EXCEPT !.status = "DELETED"]
    /\ tally' = [tally EXCEPT !.gone = @ \/ profile.pin]
    /\ UNCHANGED <<welcome, code, pass, count, refresh, served, budget>>

FlagUser(s) ==
    /\ Doing(s, "flag", "read") /\ Ends(s)
    /\ profile' = [profile EXCEPT !.status = "FLAGGED"]
    /\ UNCHANGED <<welcome, code, pass, count, refresh, served, tally, budget>>

\* Wrong PINs are still counted, but an administrator has forgiven them.
UnflagUser(s) ==
    /\ Doing(s, "unflag", "read") /\ Ends(s)
    /\ profile' = [profile EXCEPT !.status = "ACTIVE"]
    /\ tally' = [tally EXCEPT !.login = 0, !.change = 0]
    /\ UNCHANGED <<welcome, code, pass, count, refresh, served, budget>>

\* Redis: the time to live of a code, a token or a counter ends.
Expires ==
    /\ Spend("expiry")
    /\ \/ \E p \in code : code' = code \ {p} /\ UNCHANGED <<pass, count>>
       \/ \E p \in pass : pass' = pass \ {p} /\ UNCHANGED <<code, count>>
       \/ \E c \in DOMAIN Limits : count[c] > 0 /\ count' = [count EXCEPT ![c] = 0]
                                   /\ UNCHANGED <<code, pass>>
    /\ UNCHANGED <<profile, welcome, refresh, slot, served, tally>>

\* A minute passes since the last mail.
PauseEnds ==
    /\ count.pause /\ count' = [count EXCEPT !.pause = FALSE]
    /\ UNCHANGED <<profile, welcome, code, pass, refresh, slot, served, tally, budget>>
---------------------------------------------------------------------------
RequestStep(s) ==
    \/ Resend(s) \/ VerifyOtp(s) \/ CompleteSignUp(s) \/ SetPin(s) \/ SetPinRest(s)
    \/ ForgotPin(s) \/ ResetPin(s) \/ ResetDone(s) \/ ConfirmPinChange(s)
    \/ LogIn(s) \/ InitiatePinChange(s)
    \/ \E op \in {"login", "changeAsk"} : WrongPin(s, op) \/ LockAccount(s, op)
    \/ LogInTwoFactor(s) \/ InitiateTwoFactor(s) \/ VerifyTwoFactor(s)
    \/ DisableTwoFactor(s) \/ DeleteAccount(s) \/ FlagUser(s) \/ UnflagUser(s)
    \/ RequestFails(s)

AccountNext ==
    \/ SignUp \/ LogOut \/ Expires \/ PauseEnds
    \/ \E s \in Slots : \/ RequestStep(s)
                        \/ \E op \in Ops, right \in BOOLEAN : \E seen \in Found(op) :
                               BeginRequest(s, op, right, seen)
---------------------------------------------------------------------------
(***************************************************************************)
(* Properties                                                              *)
(***************************************************************************)
\* An account with a PIN that was deleted stays so, unless a request was under way
\* that had read it before. (One without a PIN is revived by setUserPin.)
DeletedStays == tally.gone /\ Untouched({"overlap"}) => profile.status = "DELETED"

\* A PIN is changed no more often than codes for it have been mailed, unless requests
\* overlap, one dies between the change and the deletion of its token, or Redis does not
\* delete a code or a token, which nobody is told.
CodeOnce == Untouched({"overlap", "error", "redis"}) => tally.codes >= 0

\* When setUserPin has set the PIN the account at Quidax is going to be opened, whatever
\* two requests at once do. A failure in between (Redis' apart) stands in the way for
\* good, and so does a PIN that was reset before there was one: then setUserPin refuses.
PinOpensAccount ==
    /\ profile.pin /\ ~tally.early /\ Untouched({"error"})
    /\ \A s \in Slots : slot[s].op # "setPin"
    => welcome

\* What becomes of an account that is used.
AccountKept == DeletedStays /\ CodeOnce /\ PinOpensAccount

\* So many wrong PINs in a row and the account is locked, unless two requests count at
\* once, the counter expires or Redis loses a count: nothing else forgives them but a
\* right PIN and an administrator. When the row is not written after the counter the
\* account stays open, but the counter at its limit, so the next wrong PIN locks it.
WrongPinsLock ==
    Untouched({"overlap", "expiry", "redis"}) /\ (\A s \in Slots : slot[s].pc = "idle") =>
        \A c \in {"login", "change"} : tally[c] >= Limits[c] =>
            \/ profile.status \in {"FLAGGED", "DELETED"}
            \/ ~Untouched({"error"}) /\ count[c] >= Limits[c]
=============================================================================
