------------------------------ MODULE Platform ------------------------------
(***************************************************************************)
(* The platform the services stand on, side by side as in Services: a      *)
(* behaviour is one of one of its parts, which share the mishaps only.     *)
(***************************************************************************)
EXTENDS Autostack, Settings, Accounts, Cards, BankAccounts, Kyc, Staff, Quotes,
        LiquidityCache, Schedule, Snapshots

Parts == {"autostack", "settings", "accounts", "cards", "banks", "kyc", "staff", "quotes",
          "cache", "schedule", "snapshots"}

Init == /\ subject \in Parts /\ budget = Budget
        /\ StackInit /\ SettingsInit /\ AccountInit /\ CardInit /\ BankInit /\ KycInit
        /\ StaffInit /\ QuotesInit
        /\ CacheInit /\ ScheduleInit /\ SnapshotInit

\* The variables of the parts but the mishaps, which they share.
StackOwn == <<source, plan, dates, charge, trades, wallets, books, job, request>>
SettingsOwn == <<family, range, terms, cached, admin, reader, ops>>
AccountsOwn == <<profile, welcome, code, pass, count, refresh, slot, served, tally>>
CardsOwn == <<cardCharge, cardBooks, savedCards, cardTold, callback>>
BanksOwn == <<bankToken, bankList, bankRows, bankRequest>>
KycOwn == <<known, tier, inquiry>>
StaffOwn == <<roles, before, officer, roleKept, mapping, desk, filler, acts>>
QuotesOwn == <<side, offer, quote, late, cooling, asked, shown, agreed, made>>

Keeps(names) ==
    /\ "autostack" \in names => UNCHANGED StackOwn
    /\ "settings" \in names => UNCHANGED SettingsOwn
    /\ "accounts" \in names => UNCHANGED AccountsOwn
    /\ "cards" \in names => UNCHANGED CardsOwn
    /\ "banks" \in names => UNCHANGED BanksOwn
    /\ "kyc" \in names => UNCHANGED KycOwn
    /\ "staff" \in names => UNCHANGED StaffOwn
    /\ "quotes" \in names => UNCHANGED QuotesOwn
    /\ "cache" \in names => UNCHANGED cacheVars
    /\ "schedule" \in names => UNCHANGED scheduleVars
    /\ "snapshots" \in names => UNCHANGED snapshotVars

Next ==
    /\ UNCHANGED subject
    /\ \/ subject = "autostack" /\ StackNext
       \/ subject = "settings" /\ SettingsNext
       \/ subject = "accounts" /\ AccountNext
       \/ subject = "cards" /\ CardNext
       \/ subject = "banks" /\ BankNext
       \/ subject = "kyc" /\ KycNext
       \/ subject = "staff" /\ StaffNext
       \/ subject = "quotes" /\ QuotesNext
       \/ subject = "cache" /\ CacheNext
       \/ subject = "schedule" /\ ScheduleNext
       \/ subject = "snapshots" /\ SnapshotNext
    /\ Keeps(Parts \ {subject})

platformVars == <<subject, StackOwn, SettingsOwn, AccountsOwn, CardsOwn, BanksOwn,
                  KycOwn, StaffOwn, QuotesOwn, cacheVars, scheduleVars,
                  snapshotVars, budget>>

Spec == Init /\ [][Next]_platformVars
---------------------------------------------------------------------------
(***************************************************************************)
(* Properties                                                              *)
(***************************************************************************)
\* Every part keeps its types, and autostacks promise no more than there is.
PlatformSafe ==
    CASE Of("autostack") -> StackSafe
      [] Of("settings") -> SettingsTypeOK
      [] Of("accounts") -> AccountTypeOK
      [] Of("cards") -> CardTypeOK
      [] Of("banks") -> BankTypeOK
      [] Of("kyc") -> KycTypeOK
      [] Of("staff") -> StaffTypeOK
      [] Of("quotes") -> QuotesTypeOK
      [] Of("cache") -> CacheTypeOK
      [] Of("schedule") -> ScheduleTypeOK
      [] Of("snapshots") -> SnapshotTypeOK

\* What an autostack has stored, and when it was charged.
StackExact == Of("autostack") => StackBooks /\ StackOnDate /\ CardBacked

\* The rows of the settings, and what the cache says of them.
SettingsExact == Of("settings") => RangesDisjoint /\ CacheCurrent

\* What becomes of an account, its codes and wrong PINs, and of what a user adds to it:
\* cards, bank accounts and proofs of who it is.
AccountsExact == /\ Of("accounts") => AccountKept /\ WrongPinsLock
                 /\ Of("cards") => CardsExact
                 /\ Of("banks") => BanksExact
                 /\ Of("kyc") => KycExact

\* A quotation is used as it was given, and covers what is booked.
QuotesHonest == Of("quotes") => QuoteKept /\ QuoteCovers

\* Periodic work is done: once, alone, not too seldom, for everyone.
JobsExact == /\ Of("schedule") => OneInside /\ OncePerSlot /\ GapBounded
             /\ Of("snapshots") => EveryoneShown
             /\ Of("cache") => StaleBounded
=============================================================================
