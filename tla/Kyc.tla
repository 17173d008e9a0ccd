-------------------------------- MODULE Kyc --------------------------------
(***************************************************************************)
(* How users are identified (kyc.service.ts): the national number (NIN),   *)
(* which Dojah confirms and the database keeps unique, and then a document *)
(* that raises the tier. A request looks, asks Dojah, which may take       *)
(* minutes (retryWithBreaker repeats a call five times), and writes.       *)
(***************************************************************************)
EXTENDS Mishaps

CONSTANTS People,    \* users
          Nins,      \* national numbers
          BearersOf, \* the users with the name that each number has at Dojah
          KycSlots   \* requests that may be under way at once

ASSUME KycAssumption ==
    /\ BearersOf \in [Nins -> SUBSET People] /\ People # {}
    /\ "none" \notin Nins
    /\ {"refusal", "error", "crash", "renewed"} \subseteq Kinds
    \* What is only noted has to leave a trace.
    /\ Budget["renewed"] > 0

VARIABLES
    known,    \* per user: the NIN, the document that is kept, the address
    tier,     \* per user: the tier, and with it the status of the verification
    inquiry   \* the requests: where each of them is

kycVars == <<known, tier, inquiry, budget>>

NoInquiry == [pc |-> "idle", who |-> "none", nin |-> "none"]

KycTypeOK ==
    /\ known \in [People -> [nin : Nins \cup {"none"}, address : BOOLEAN,
                             document : {"none", "nin", "paper"}]]
    /\ tier \in [People -> {1, 2}]
    /\ inquiry \in [KycSlots -> [pc : {"idle", "nin", "paper", "kept"},
                                 who : People \cup {"none"}, nin : Nins \cup {"none"}]]

KycInit ==
    /\ known = [p \in People |-> [nin |-> "none", document |-> "none", address |-> FALSE]]
    /\ tier = [p \in People |-> 1] /\ inquiry = [s \in KycSlots |-> NoInquiry]

Asking(s, pc) == inquiry[s].pc = pc
Inquires(s, pc, p, n) ==
    /\ Asking(s, "idle")
    /\ inquiry' = [inquiry EXCEPT ![s] = [pc |-> pc, who |-> p, nin |-> n]]
Inquired(s) == inquiry' = [inquiry EXCEPT ![s] = NoInquiry]
---------------------------------------------------------------------------
HasNin(n) == {p \in People : known[p].nin = n}

\* Nobody has the number yet, the user included.
ValidateNin(s, p, n) == /\ HasNin(n) = {} /\ Inquires(s, "nin", p, n)
                        /\ UNCHANGED <<known, tier, budget>>

\* Mutation of NinFree: the column has no unique key.
NinAnyway(n, p) == TRUE

NinFree(n, p) == HasNin(n) \subseteq {p}

\* Dojah has answered, and the name is the user's. The NIN becomes the document that is
\* kept, in place of any other.
SaveNin(s) ==
    LET p == inquiry[s].who
        n == inquiry[s].nin
    IN  /\ Asking(s, "nin") /\ Inquired(s)
        /\ \/ /\ p \in BearersOf[n] /\ NinFree(n, p)
              /\ known' = [known EXCEPT ![p].nin = n, ![p].document = "nin"]
              /\ Note(known[p].nin # "none", "renewed")
           \/ ~(p \in BearersOf[n] /\ NinFree(n, p)) /\ UNCHANGED <<known, budget>>
           \/ UNCHANGED known /\ Spend("refusal")
        /\ UNCHANGED tier

UploadDocument(s, p) == /\ known[p].nin # "none" /\ Inquires(s, "paper", p, "none")
                        /\ UNCHANGED <<known, tier, budget>>

\* Dojah accepts the document, and its pictures are stored: or else nothing is kept.
KeepDocument(s) ==
    /\ Asking(s, "paper")
    /\ \/ /\ known' = [known EXCEPT ![inquiry[s].who].document = "paper"]
          /\ inquiry' = [inquiry EXCEPT ![s].pc = "kept"] /\ UNCHANGED budget
       \/ Inquired(s) /\ UNCHANGED known /\ Spend("refusal")
    /\ UNCHANGED tier

\* A statement of its own, not in one transaction with the document.
RaiseTier(s) ==
    /\ Asking(s, "kept") /\ Inquired(s)
    /\ \/ tier' = [tier EXCEPT ![inquiry[s].who] = 2] /\ UNCHANGED budget
       \/ UNCHANGED tier /\ Spend("error")
    /\ UNCHANGED known

VerifyAddress(p) == /\ known' = [known EXCEPT ![p].address = TRUE]
                    /\ UNCHANGED <<tier, inquiry, budget>>

KycCrash == /\ \E s \in KycSlots : ~Asking(s, "idle")
            /\ inquiry' = [s \in KycSlots |-> NoInquiry] /\ Spend("crash")
            /\ UNCHANGED <<known, tier>>

KycNext ==
    \/ KycCrash
    \/ \E p \in People : VerifyAddress(p)
    \/ \E s \in KycSlots :
           \/ SaveNin(s) \/ KeepDocument(s) \/ RaiseTier(s)
           \/ \E p \in People : \/ UploadDocument(s, p)
                                \/ \E n \in Nins : ValidateNin(s, p, n)
---------------------------------------------------------------------------
(***************************************************************************)
(* Properties                                                              *)
(***************************************************************************)
\* Two users who ask for one number at once do not both get it, and nobody gets one in
\* another name.
NinsOwn == \A n \in Nins : \E p \in People : HasNin(n) \subseteq {p} \cap BearersOf[n]

\* The tier follows the document that was accepted, or is about to, unless the request
\* ends between the two; and it is raised only with a document that is kept, unless the
\* user has verified another number since, which takes its place.
TierFollowsDocument ==
    \A p \in People :
        /\ known[p].document = "paper" /\ Untouched({"error", "crash"}) =>
               tier[p] = 2 \/ \E s \in KycSlots : Asking(s, "kept") /\ inquiry[s].who = p
        /\ tier[p] = 2 => /\ known[p].nin # "none"
                          /\ Untouched({"renewed"}) => known[p].document = "paper"

KycExact == NinsOwn /\ TierFollowsDocument
=============================================================================
