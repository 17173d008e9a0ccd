------------------------------- MODULE Quotes -------------------------------
(***************************************************************************)
(* The life of one quotation (quotation.service.ts): its price, what it    *)
(* promises, and how previews, PIN checks and confirmations (buy, sell,    *)
(* swap and withdrawal.service.ts) read it from Redis and write it back.   *)
(*                                                                         *)
(* A preview and a PIN check put back the whole quotation they have read,  *)
(* so they lose what was written meanwhile and revive what was deleted.    *)
(* What follows a confirmation is in Buy, Sell, Swap and Withdrawal, and   *)
(* so is what differs outside production. A request that dies is one that  *)
(* takes no further step.                                                  *)
(***************************************************************************)
EXTENDS Mishaps, FiniteSets, Sequences

CONSTANTS PayeeOf,     \* payment method or bank account each preview names
          AskCap,      \* how many requests of each kind may come
          AtOnce,      \* how many requests may be under way at once
          CoinAmounts, \* how many coins may be asked for
          Prices,      \* in tenths of a kobo, or of the target's minor unit
          QuotedPrice, \* that of the quotation
          QuotedUnits, \* minor units of a coin, of the network when it is quoted
          CoinUnits,   \* and of all its networks
          LeastValue,  \* of an order: two USDT, in kobo or the target's minor unit
          BufferTiers, \* buffer_tiers of the currency, in their order
          BufferDefault, BufferCap  \* defaultBufferPercent, maxBufferPercent

ASSUME QuotesAssumption ==
    /\ AskCap \in Nat \ {0} /\ AtOnce \in Nat \ {0}
    /\ CoinAmounts \subseteq Nat \ {0} /\ Prices \subseteq Nat \ {0}
    /\ QuotedPrice \in Prices
    /\ CoinUnits \subseteq Nat \ {0} /\ QuotedUnits \in CoinUnits
    /\ LeastValue \in Nat
    /\ BufferDefault \in 0..99 /\ BufferCap \in 0..99
    /\ BufferTiers \in Seq([type : {"buy", "sell", "any"}, min : Nat, max : Nat,
                            percent : 0..99])
    /\ {"overlap", "changed", "relisted", "refusal"} \subseteq Kinds
    /\ Budget["overlap"] > 0 /\ Budget["changed"] > 0

Payees == {PayeeOf[n] : n \in 1..AskCap}
\* Numbered as they come.
Asks == [kind : {"preview", "pin", "confirm"}, nr : 1..AskCap]
Sides == {"buy", "sell", "swap", "send"}

VARIABLES
    side,    \* of the quotation
    offer,   \* the numbers of the quotation, which no request changes
    quote,   \* its entry in Redis
    late,    \* expiresAt has passed
    cooling, \* the user's confirmation cooldown
    asked,   \* where each request is, with the quotation it has read
    shown,   \* whom the last preview before the transaction has named
    agreed,  \* whom the last PIN was given for
    made     \* the transaction of the quotation

quoteVars == <<side, offer, quote, late, cooling, asked, shown, agreed,
               made, budget>>

NoOffer == [coins |-> 0, units |-> 0, minor |-> 0, fee |-> 0, total |-> 0, guard |-> 0]
NoQuote == [there |-> FALSE, payee |-> "none", pin |-> FALSE]
NoTrade == [count |-> 0, posts |-> 0, payee |-> "none", units |-> 0, price |-> 0,
            row |-> FALSE]

QuotesTypeOK ==
    /\ side \in Sides
    /\ offer \in [coins : Nat, units : CoinUnits \cup {0}, minor : Nat, fee : Nat,
                  total : Nat, guard : Nat]
    /\ LET Entries == [there : BOOLEAN, payee : Payees \cup {"none"}, pin : BOOLEAN]
       IN  /\ quote \in Entries
           /\ asked \in [Asks -> [pc : {"new", "read", "checked", "reserved", "posted",
                                        "done"}, copy : Entries]]
    /\ late \in BOOLEAN /\ cooling \in BOOLEAN
    /\ shown \in Payees \cup {"none"} /\ agreed \in Payees \cup {"none"}
    /\ made \in [count : Nat, posts : Nat, payee : Payees \cup {"none"},
                 units : CoinUnits \cup {0}, price : Prices \cup {0}, row : BOOLEAN]

QuotesInit ==
    /\ side \in Sides /\ offer = NoOffer /\ quote = NoQuote
    /\ late = FALSE /\ cooling = FALSE
    /\ asked = [a \in Asks |-> [pc |-> "new", copy |-> NoQuote]]
    /\ shown = "none" /\ agreed = "none" /\ made = NoTrade
---------------------------------------------------------------------------
(* Prices                                                                  *)

\* toFixed and toDecimalPlaces: n / d to the nearest unit, halves up.
Rounded(n, d) == (2 * n + d) \div (2 * d)

\* toBase: an amount of coins in minor units of its network.
Minor(coins, units) == coins * units

\* The first tier for this kind of order and amount, else the default; never more
\* than the cap. Without any tier or default there are no orders, but with tiers
\* that do not match and no default there is no buffer.
Buffer(type, minor) ==
    LET fits(t) == t.type \in {type, "any"} /\ minor >= t.min /\ minor <= t.max
        found == {i \in DOMAIN BufferTiers : fits(BufferTiers[i])}
        first == CHOOSE i \in found : \A k \in found : i <= k
        percent == IF found # {} THEN BufferTiers[first].percent ELSE BufferDefault
    IN  IF BufferCap > 0 /\ percent > BufferCap THEN BufferCap ELSE percent

Priced == BufferTiers # <<>> \/ BufferDefault > 0

\* Naira are in kobo, coins in their minor units. The platform's fee is 0.5 percent:
\* of the naira of a purchase, of the coins of anything else. "guard" is the price
\* a confirmation will check, "total" the naira to pay, to get, or the coins to get.
BuyOffer(coins, units, market) ==
    LET percent == 100 + Buffer("buy", Minor(coins, units))
    IN  [coins |-> coins, units |-> units, minor |-> Minor(coins, units),
         guard |-> Rounded(market * percent, 1000),
         fee |-> Rounded(coins * market * percent, 200 * 1000),
         total |-> Rounded(coins * market * percent * 201, 200 * 1000)]

SellOffer(coins, units, market) ==
    LET percent == 100 - Buffer("sell", Minor(coins, units))
    IN  [coins |-> coins, units |-> units, minor |-> Minor(coins, units),
         guard |-> Rounded(market * percent, 1000),
         fee |-> Rounded(Minor(coins, units), 200),
         total |-> Rounded(coins * market * percent, 1000)]

\* The rate the user is promised is lowered by the buffers of both currencies.
SwapOffer(coins, units, market) ==
    LET out == Rounded(coins * market, 10)
        percents == (100 - Buffer("sell", Minor(coins, units))) * (100 - Buffer("buy", out))
    IN  [coins |-> coins, units |-> units, minor |-> Minor(coins, units),
         guard |-> Rounded(market * percents, 10 * 10000),
         fee |-> Rounded(Minor(coins, units), 200),
         total |-> Rounded(coins * market * percents, 10 * 10000)]

\* Here the fee is rounded down, and the network's is left out.
SendOffer(coins, units) ==
    [coins |-> coins, units |-> units, minor |-> Minor(coins, units), guard |-> 0,
     fee |-> Minor(coins, units) \div 200,
     total |-> Minor(coins, units) + (Minor(coins, units) \div 200)]

Offer(coins, units, market) ==
    CASE side = "buy" -> BuyOffer(coins, units, market)
      [] side = "sell" -> SellOffer(coins, units, market)
      [] side = "swap" -> SwapOffer(coins, units, market)
      [] side = "send" -> SendOffer(coins, units)

\* A quotation to send has no least value.
Enough(coins, market) == side = "send" \/ coins * market >= 10 * LeastValue

\* At the price of the moment, in the decimals of the network the company's wallet
\* is on as far as this process knows. A quotation to send is its own preview, and
\* starts the cooldown.
GetQuote(coins, units, market) ==
    /\ offer = NoOffer /\ Enough(coins, market) /\ (side = "send" \/ Priced)
    /\ offer' = Offer(coins, units, market) /\ quote' = [NoQuote EXCEPT !.there = TRUE]
    /\ cooling' = (side = "send")
    /\ UNCHANGED <<side, late, asked, shown, agreed, made, budget>>
---------------------------------------------------------------------------
(* Previews and PIN checks                                                 *)

Turns(a, pc, copy) == asked' = [asked EXCEPT ![a] = [pc |-> pc, copy |-> copy]]
Answers(a) == Turns(a, "done", NoQuote)
Comes(a, kind) ==
    /\ a.kind = kind /\ asked[a].pc = "new"
    /\ Cardinality({b \in Asks : asked[b].pc \notin {"new", "done"}}) < AtOnce
    /\ \A b \in Asks : b.kind = kind /\ b.nr < a.nr => asked[b].pc # "new"
Confirming == \E a \in Asks : a.kind = "confirm" /\ asked[a].pc \notin {"new", "done"}

\* A quotation found too old is deleted.
AskLate(a) ==
    /\ quote.there /\ late
    /\ \/ Comes(a, "confirm") /\ ~cooling /\ (quote.pin \/ side = "sell")
       \/ Comes(a, "preview") /\ side # "send"
       \/ Comes(a, "pin")
    /\ quote' = NoQuote /\ Answers(a)
    /\ UNCHANGED <<side, offer, late, cooling, shown, agreed, made, budget>>

\* The preview of a swap only looks.
PreviewSwap(a) ==
    /\ Comes(a, "preview") /\ quote.there /\ ~late /\ side = "swap" /\ Answers(a)
    /\ UNCHANGED <<side, offer, quote, late, cooling, shown, agreed, made, budget>>

PreviewRead(a) ==
    /\ Comes(a, "preview") /\ quote.there /\ ~late /\ side \in {"buy", "sell"}
    /\ Turns(a, "read", quote)
    /\ UNCHANGED <<side, offer, quote, late, cooling, shown, agreed, made, budget>>

Renewed(copy, payee) == [copy EXCEPT !.payee = payee]

\* previewSell leaves it alone when it is too late, previewBuy does not.
Rewrites == side = "buy" \/ ~late

\* The PIN given for another payee still counts ("changed").
PreviewWrite(a) ==
    LET copy == asked[a].copy
        payee == PayeeOf[a.nr]
    IN  /\ a.kind = "preview" /\ asked[a].pc = "read" /\ Answers(a)
        /\ quote' = IF Rewrites THEN Renewed(copy, payee) ELSE quote
        /\ shown' = IF made.count = 0 THEN payee ELSE shown
        /\ NoteAll((IF quote # copy \/ Confirming THEN {"overlap"} ELSE {})
                     \cup IF copy.pin THEN {"changed"} ELSE {})
        /\ UNCHANGED <<side, offer, late, cooling, agreed, made>>

PinRead(a) ==
    /\ Comes(a, "pin") /\ quote.there /\ ~late
    /\ \/ Turns(a, "read", quote)
       \/ Answers(a) \* not the user's PIN
    /\ UNCHANGED <<side, offer, quote, late, cooling, shown, agreed, made, budget>>

\* With a new lease, however old the quotation is; expiresAt stays.
PinWrite(a) ==
    LET copy == asked[a].copy
    IN  /\ a.kind = "pin" /\ asked[a].pc = "read" /\ Answers(a)
        /\ quote' = [copy EXCEPT !.pin = TRUE]
        /\ agreed' = IF made.count = 0 THEN copy.payee ELSE agreed
        /\ Note(quote # copy \/ Confirming, "overlap")
        /\ UNCHANGED <<side, offer, late, cooling, shown, made>>
---------------------------------------------------------------------------
(* Confirmations                                                           *)

QuoteConfirmRead(c) ==
    /\ Comes(c, "confirm") /\ quote.there /\ ~late /\ ~cooling
    /\ IF quote.pin THEN Turns(c, "read", quote) ELSE Answers(c)
    /\ UNCHANGED <<side, offer, quote, late, cooling, shown, agreed, made, budget>>

\* Mutation of Guarded: the price is what it was.
Unguarded(price) == TRUE

\* A purchase must not cost more than its guard, a sale or swap not bring less.
Guarded(price) == CASE side = "buy" -> price <= 10 * offer.guard
                    [] side \in {"sell", "swap"} -> price >= 10 * offer.guard
                    [] side = "send" -> TRUE

\* A swap looks for its row, which comes last; a withdrawal looks in the transaction.
Submitted == CASE side = "swap" -> made.row
               [] side \in {"buy", "sell"} -> made.count > 0
               [] side = "send" -> FALSE

\* The price and the duplicate are looked up, in one order or the other.
QuoteConfirmCheck(c, market) ==
    /\ c.kind = "confirm" /\ asked[c].pc = "read"
    /\ IF ~Submitted /\ Guarded(market)
            /\ (side \in {"buy", "sell"} => asked[c].copy.payee # "none")
       THEN /\ Turns(c, "checked", asked[c].copy)
            /\ made' = IF made.count = 0 THEN [made EXCEPT !.price = market] ELSE made
       ELSE Answers(c) /\ UNCHANGED made
    /\ UNCHANGED <<side, offer, quote, late, cooling, shown, agreed,
                   budget>>

\* Its transactionUniqueId is the quotation's, and unique: buy, sell and send look
\* for it in the database transaction, a swap runs into the constraint.
Taken == made.count > 0

\* What the provider will be asked for is the minor units in today's decimals: others
\* when the scheduler has found the company's wallet on another network.
\* Without liquidity the transaction is queued, and the quotation deleted by all but
\* a withdrawal; a duplicate of a purchase or sale deletes it too.
QuoteConfirmReserve(c, units) ==
    LET deletes == quote' = IF side = "send" THEN quote ELSE NoQuote
    IN  /\ asked[c].pc = "checked"
        /\ IF Taken
           THEN /\ Answers(c) /\ UNCHANGED <<made, budget>>
                /\ IF side \in {"buy", "sell"} THEN deletes ELSE UNCHANGED quote
           ELSE /\ made' = [made EXCEPT !.count = @ + 1, !.units = units,
                                        !.payee = asked[c].copy.payee]
                /\ IF units # offer.units THEN Spend("relisted") ELSE UNCHANGED budget
                /\ \/ Turns(c, "reserved", NoQuote) /\ UNCHANGED quote
                   \/ Answers(c) /\ deletes
        /\ UNCHANGED <<side, offer, late, cooling, shown, agreed>>

\* Paystack or Quidax accepts or refuses; the quotation of a refused withdrawal,
\* purchase or sale stays.
QuoteConfirmPost(c) ==
    /\ asked[c].pc = "reserved"
    /\ made' = [made EXCEPT !.posts = @ + 1]
    /\ \/ Turns(c, "posted", NoQuote) /\ UNCHANGED <<quote, budget>>
       \/ /\ Answers(c) /\ Spend("refusal")
          /\ quote' = IF side = "swap" THEN NoQuote ELSE quote
    /\ UNCHANGED <<side, offer, late, cooling, shown, agreed>>

QuoteConfirmForget(c) ==
    /\ asked[c].pc = "posted" /\ Answers(c)
    /\ made' = [made EXCEPT !.row = TRUE] /\ quote' = NoQuote
    /\ UNCHANGED <<side, offer, late, cooling, shown, agreed, budget>>
---------------------------------------------------------------------------
(* Time and the world                                                      *)

CoolingEnds ==
    /\ cooling /\ cooling' = FALSE
    /\ UNCHANGED <<side, offer, quote, late, asked, shown, agreed, made, budget>>

QuoteExpires ==
    /\ offer # NoOffer /\ ~cooling /\ ~late /\ late' = TRUE
    /\ UNCHANGED <<side, offer, quote, cooling, asked, shown, agreed, made, budget>>

\* Redis deletes the entry at last.
QuoteEvicted ==
    /\ quote.there /\ late /\ quote' = NoQuote
    /\ UNCHANGED <<side, offer, late, cooling, asked, shown, agreed, made, budget>>

QuotesNext ==
    \/ \E coins \in CoinAmounts : GetQuote(coins, QuotedUnits, QuotedPrice)
    \/ \E a \in Asks :
         \/ AskLate(a) \/ PreviewSwap(a) \/ PreviewRead(a) \/ PreviewWrite(a)
         \/ PinRead(a) \/ PinWrite(a)
         \/ QuoteConfirmRead(a)
         \/ \E market \in Prices : QuoteConfirmCheck(a, market)
         \/ \E units \in CoinUnits : QuoteConfirmReserve(a, units)
         \/ QuoteConfirmPost(a) \/ QuoteConfirmForget(a)
    \/ CoolingEnds \/ QuoteExpires \/ QuoteEvicted
---------------------------------------------------------------------------
(***************************************************************************)
(* Properties                                                              *)
(***************************************************************************)

\* One transaction and one order come of a quotation, however often it is confirmed
\* and although a PIN check may put it back. It pays whom the last preview named and
\* the PIN was given for, and what was quoted: unless two requests overlap, a
\* preview came after the PIN, or the currency's decimals changed.
QuoteKept ==
    /\ made.count <= 1 /\ made.posts <= 1
    /\ made.count = 1 =>
         /\ Untouched({"relisted"}) => offer.minor = Minor(offer.coins, made.units)
         /\ Untouched({"overlap"}) /\ side \in {"buy", "sell"} => made.payee = shown
         /\ Untouched({"overlap", "changed"}) => made.payee = agreed

\* The naira set aside for a purchase buy its coins at the price it was checked
\* against; those a sale pays out, and the coins a swap gives, are worth no more than
\* what is sold; but for half a kobo per coin and one for rounding.
QuoteCovers ==
    LET worth == offer.coins * made.price
        rounding == 5 * offer.coins + 10
    IN  made.count = 1 =>
          /\ side = "buy" => 10 * (offer.total - offer.fee) + rounding >= worth
          /\ side \in {"sell", "swap"} => 10 * offer.total <= worth + rounding
=============================================================================
