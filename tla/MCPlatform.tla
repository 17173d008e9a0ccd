----------------------------- MODULE MCPlatform -----------------------------
(***************************************************************************)
(* The platform with two of everything that may meet another of its kind,  *)
(* each behaviour with a budget of two mishaps.                            *)
(***************************************************************************)
EXTENDS Platform, TLC

CONSTANTS j1, j2, q1, q2, a1, a2, r1, r2, o1, t1, t2, c1, c2, c3

MCAsked == {[from |-> ends[1], to |-> ends[2]] :
               ends \in {<<0, 1>>, <<1, 4>>, <<2, 3>>, <<4, 5>>}}
MCPayees == <<"bank1", "bank2">>
MCTiers == <<[type |-> "buy", min |-> 0, max |-> 200, percent |-> 1],
             [type |-> "any", min |-> 0, max |-> 1000, percent |-> 2]>>
MCBearers == [n \in {"nin1", "nin2"} |-> IF n = "nin1" THEN {"ada", "ayo"} ELSE {"ada"}]
MCKinds ==
    {"lostAnswer", "error", "crash", "refusal", "stall",
     "unlock", "cancelStack", "jobsOverlap", "afterEnd", "reopened", "staleRequest",
     "adminsOverlap", "unchecked", "patched", "newTerms", "lateFill", "cacheLost",
     "expiry", "evicted", "restart", "early", "requestsOverlap", "requestDies",
     "overlap", "changed", "relisted",
     "timeout", "cardDeleted", "renewed", "redis"}
OneOfEach == [k \in MCKinds |-> 1]

\* The second date of a card is followed for one fault or outside event only, and the
\* settings for one of the mishaps that their properties except or get through.
FewFaults ==
    /\ source = "CARD" /\ dates = 2 => Spent(Kinds) <= 1
    /\ Of("settings") => Spent({"crash", "error", "cacheLost", "adminsOverlap",
                                "unchecked", "lateFill"}) <= 1

\* One initial state of the parts the behaviour is not of; the two roles of the
\* staff are alike.
MCInit == /\ Init
          /\ subject # "autostack" => source = "USDT"
          /\ subject # "settings" => family = "rates"
          /\ subject # "accounts" => ~profile.there
          /\ subject # "quotes" => side = "buy"
          /\ subject # "schedule" => style = "plain"
          /\ subject # "snapshots" => members = Users
          /\ roles[t1].there

MCSpec == MCInit /\ [][Next]_platformVars
=============================================================================
