------------------------------- MODULE Cards -------------------------------
(***************************************************************************)
(* The cards a user saves (card.service.ts). Paystack charges a card 100   *)
(* naira under a new reference, and calls back when it is paid. The        *)
(* callback, which anybody's browser may repeat, books the charge, saves   *)
(* the card and has the charge refunded, all in one transaction of the     *)
(* database, though Paystack is outside it. Cards have no unique key.      *)
(***************************************************************************)
EXTENDS Mishaps, FiniteSets

CONSTANTS References,  \* verification charges
          Plastics,    \* cards
          Callbacks    \* requests that may be under way at once

ASSUME CardsAssumption ==
    /\ {"lostAnswer", "timeout", "refusal", "error", "crash", "cardDeleted", "overlap"}
           \subseteq Kinds
    \* What is only noted has to leave a trace.
    /\ Budget["overlap"] > 0

VARIABLES
    cardCharge,  \* Paystack: what has become of each charge, and the card it was
    cardBooks,   \* charges booked with their refunds
    savedCards,  \* rows of payment_cards, each by the charge it was saved for
    cardTold,    \* Redis: references whose card is announced, until it is asked for
    callback     \* the requests: where each of them is

cardVars == <<cardCharge, cardBooks, savedCards, cardTold, callback, budget>>

NoCallback == [pc |-> "idle", ref |-> "none"]
CallbackSteps == {"idle", "verified", "debit", "refund", "commit", "tell"}

CardTypeOK ==
    /\ cardCharge \in [References -> [at : {"none", "open", "paid", "refunded"},
                                      card : Plastics \cup {"none"}]]
    /\ cardBooks \subseteq References /\ savedCards \subseteq References
    /\ cardTold \subseteq References
    /\ callback \in [Callbacks -> [pc : CallbackSteps, ref : References \cup {"none"}]]

CardInit == /\ cardCharge = [r \in References |-> [at |-> "none", card |-> "none"]]
            /\ cardBooks = {} /\ savedCards = {} /\ cardTold = {}
            /\ callback = [v \in Callbacks |-> NoCallback]

CardOf(r) == cardCharge[r].card
SavedAs(card) == {r \in savedCards : CardOf(r) = card}
CardStep(v, pc) == callback' = [callback EXCEPT ![v].pc = pc]
CardEnds(v) == callback' = [callback EXCEPT ![v] = NoCallback]
CardAt(v, pc) == callback[v].pc = pc
---------------------------------------------------------------------------
InitializeCard(r) ==
    /\ cardCharge[r].at = "none" /\ cardCharge' = [cardCharge EXCEPT ![r].at = "open"]
    /\ UNCHANGED <<cardBooks, savedCards, cardTold, callback, budget>>

\* On Paystack's page, with any card.
PayCard(r, card) ==
    /\ cardCharge[r].at = "open"
    /\ cardCharge' = [cardCharge EXCEPT ![r] = [at |-> "paid", card |-> card]]
    /\ UNCHANGED <<cardBooks, savedCards, cardTold, callback, budget>>

\* Paystack is asked what has become of the charge. What it answers of one that was
\* refunded is its own affair: here it may still be a success.
VerifyCard(v, r) ==
    /\ CardAt(v, "idle") /\ cardCharge[r].at \in {"paid", "refunded"}
    /\ callback' = [callback EXCEPT ![v] = [pc |-> "verified", ref |-> r]]
    /\ UNCHANGED <<cardCharge, cardBooks, savedCards, cardTold, budget>>

\* Mutation of KnownCard: the look for a card like it is left out.
NeverKnown(card) == FALSE

KnownCard(card) == SavedAs(card) # {}

\* Between the look for the card and the commit of its row.
Storing(v) == callback[v].pc \in {"debit", "refund", "commit"}

\* The transaction begins. A card that is known leaves the charge as it is: neither
\* booked nor refunded.
CardLook(v) ==
    LET r == callback[v].ref
    IN  /\ CardAt(v, "verified")
        /\ CardStep(v, IF KnownCard(CardOf(r)) THEN "tell" ELSE "debit")
        /\ Note(\E u \in Callbacks \ {v} : /\ Storing(u) /\ callback[u].ref # r
                                           /\ CardOf(callback[u].ref) = CardOf(r),
                "overlap")
        /\ UNCHANGED <<cardCharge, cardBooks, savedCards, cardTold>>

\* The debit's id is unique: another transaction that has inserted it is waited for, and
\* one that has committed it makes this one fail. The row follows, seen by nobody else.
CardDebit(v) ==
    LET r == callback[v].ref
    IN  /\ CardAt(v, "debit")
        /\ \A u \in Callbacks : callback[u].ref = r =>
               callback[u].pc \notin {"refund", "commit"}
        /\ IF r \in cardBooks THEN CardEnds(v) ELSE CardStep(v, "refund")
        /\ UNCHANGED <<cardCharge, cardBooks, savedCards, cardTold, budget>>

\* Paystack refunds a charge once. When its answer is lost, or comes after the time an
\* interactive transaction has, the books are undone and the refund is not.
CardRefund(v) ==
    LET r == callback[v].ref
    IN  /\ CardAt(v, "refund")
        /\ \/ /\ cardCharge[r].at = "paid"
              /\ cardCharge' = [cardCharge EXCEPT ![r].at = "refunded"]
              /\ \/ CardStep(v, "commit") /\ UNCHANGED budget
                 \/ CardEnds(v) /\ (Spend("lostAnswer") \/ Spend("timeout"))
           \/ /\ CardEnds(v) /\ UNCHANGED cardCharge
              /\ IF cardCharge[r].at = "refunded" THEN UNCHANGED budget
                 ELSE Spend("refusal")
        /\ UNCHANGED <<cardBooks, savedCards, cardTold>>

\* The refund's record, and the commit.
CardCommit(v) ==
    LET r == callback[v].ref
    IN  /\ CardAt(v, "commit")
        /\ \/ /\ cardBooks' = cardBooks \cup {r} /\ savedCards' = savedCards \cup {r}
              /\ CardStep(v, "tell") /\ UNCHANGED budget
           \/ CardEnds(v) /\ Spend("error") /\ UNCHANGED <<cardBooks, savedCards>>
        /\ UNCHANGED <<cardCharge, cardTold>>

CardTell(v) ==
    /\ CardAt(v, "tell") /\ CardEnds(v)
    /\ \/ cardTold' = cardTold \cup {callback[v].ref} /\ UNCHANGED budget
       \/ UNCHANGED cardTold /\ Spend("error")
    /\ UNCHANGED <<cardCharge, cardBooks, savedCards>>

\* Told once, or not at all when the three minutes are over.
IsCardAdded(r) ==
    /\ r \in cardTold /\ cardTold' = cardTold \ {r}
    /\ UNCHANGED <<cardCharge, cardBooks, savedCards, callback, budget>>

DeleteCard(r) ==
    /\ r \in savedCards /\ savedCards' = savedCards \ {r} /\ Spend("cardDeleted")
    /\ UNCHANGED <<cardCharge, cardBooks, cardTold, callback>>

\* The process dies, and with it its open transactions.
CardsCrash ==
    /\ \E v \in Callbacks : ~CardAt(v, "idle")
    /\ callback' = [v \in Callbacks |-> NoCallback] /\ Spend("crash")
    /\ UNCHANGED <<cardCharge, cardBooks, savedCards, cardTold>>

CardNext ==
    \/ CardsCrash
    \/ \E r \in References : \/ InitializeCard(r) \/ IsCardAdded(r) \/ DeleteCard(r)
                             \/ \E card \in Plastics : PayCard(r, card)
    \/ \E v \in Callbacks : \/ CardLook(v) \/ CardDebit(v) \/ CardRefund(v)
                            \/ CardCommit(v) \/ CardTell(v)
                            \/ \E r \in References : VerifyCard(v, r)
---------------------------------------------------------------------------
(***************************************************************************)
(* Properties                                                              *)
(***************************************************************************)
\* What is saved was booked, and what is booked was refunded.
CardsBacked == /\ savedCards \subseteq cardBooks
               /\ \A r \in cardBooks : cardCharge[r].at = "refunded"

\* A charge that was refunded is booked, or about to be, unless the transaction is
\* undone after the refund: Paystack does not refund again, so that the card can never
\* be saved under that reference.
RefundsBooked ==
    Untouched({"lostAnswer", "timeout", "error", "crash"}) =>
        \A r \in References : cardCharge[r].at = "refunded" =>
            \/ r \in cardBooks
            \/ \E v \in Callbacks : CardAt(v, "commit") /\ callback[v].ref = r

\* However often a callback comes, a card is saved once, unless two charges of it are
\* verified at the same time: nothing but the look keeps them apart.
OneRowPerCard ==
    Untouched({"overlap"}) => \A card \in Plastics : Cardinality(SavedAs(card)) <= 1

\* Who is told that a card was added finds it, unless it has been deleted since.
ToldIsSaved ==
    Untouched({"cardDeleted"}) => \A r \in cardTold : SavedAs(CardOf(r)) # {}

CardsExact == CardsBacked /\ RefundsBooked /\ OneRowPerCard /\ ToldIsSaved
=============================================================================
