------------------------------ MODULE Vouchers ------------------------------
(***************************************************************************)
(* VouchersService: prepaid cards.  A card is printed, handed to resellers *)
(* and, once, redeemed: into a customer's wallet, or at a hotspot, where   *)
(* its code and PIN become a login in the RADIUS tables.  Every request    *)
(* reads the card, checks it, and writes later.  The RADIUS tables are     *)
(* written statement by statement, outside any transaction.                *)
(*                                                                         *)
(* Codes, PINs, amounts and who may see which card are left out.           *)
(***************************************************************************)
EXTENDS Naturals

CONSTANTS
  Cards,
  Customers,    \* subscribers with a wallet
  Nobody,
  Holders,      \* resellers that may hold cards as stock
  Shelf,        \* no reseller holds the card
  WithPlan,     \* cards with a package; only the database itself can set one
  Requests,     \* requests that may run at the same time
  MaxTroubles   \* bound: processes that die and statements that fail for good

ASSUME VouchersAssumption ==
  /\ Cards # {} /\ WithPlan \subseteq Cards
  /\ Nobody \notin Customers /\ Shelf \notin Holders /\ MaxTroubles \in Nat

VARIABLES
  card,         \* Voucher rows
  lapsed,       \* cards whose expireDate has passed
  topups,       \* BalanceTransaction rows `VOUCHER#id`, which raised somebody's wallet, per card
  posted,       \* cash and wallet liability posted to the ledger, per card
  radius,       \* what the RADIUS tables hold for the card's code
  handed,       \* history: logins reported as ready to a hotspot customer, per card
  request,
  troubles      \* history

vars == <<card, lapsed, topups, posted, radius, handed, request, troubles>>

Statuses == {"UNUSED", "USED", "EXPIRED"}

Rows == [status : Statuses \cup {"NONE", "GONE"}, usedBy : Customers \cup {Nobody},
         holder : Holders \cup {Shelf}]

SyncSteps == {"clear", "login", "limits"}

Steps == {"idle", "expire", "credit", "post", "grab", "answer", "release", "delete"} \cup SyncSteps

Idle == [pc |-> "idle", card |-> CHOOSE c \in Cards : TRUE, for |-> Nobody]

At(r, step) == request[r].pc = step

Go(r, step) == request' = [request EXCEPT ![r].pc = step]

End(r) == request' = [request EXCEPT ![r] = Idle]

Of(r) == request[r].card

Exists(c) == card[c].status \in Statuses

\* What is left of a deleted row: its number is not given out again.
Erased == [status |-> "GONE", usedBy |-> Nobody, holder |-> Shelf]

SetStatus(c, s) == card' = [card EXCEPT ![c].status = s]

\* The condition of both claims, evaluated by the update itself.
Claimable(c) == card[c].status = "UNUSED" /\ c \notin lapsed

Trouble == troubles < MaxTroubles /\ troubles' = troubles + 1

-----------------------------------------------------------------------------
(* Stock.                                                                  *)

\* createBulk, onto the shelf or straight to a reseller
CreateBulk(S, h) ==
  /\ S # {} /\ \A c \in S : card[c].status = "NONE"
  /\ card' = [c \in Cards |-> IF c \in S THEN [status |-> "UNUSED", usedBy |-> Nobody, holder |-> h] ELSE card[c]]
  /\ UNCHANGED <<lapsed, topups, posted, radius, handed, request, troubles>>

\* Mutant: cards move whatever became of them.
AllocateAny(S, h) ==
  /\ card' = [c \in Cards |-> IF c \in S /\ Exists(c) THEN [card[c] EXCEPT !.holder = h] ELSE card[c]]
  /\ UNCHANGED <<lapsed, topups, posted, radius, handed, request, troubles>>

\* allocate: one conditional update over the cards or the batch
Allocate(S, h) ==
  /\ card' = [c \in Cards |-> IF c \in S /\ card[c].status = "UNUSED" THEN [card[c] EXCEPT !.holder = h] ELSE card[c]]
  /\ UNCHANGED <<lapsed, topups, posted, radius, handed, request, troubles>>

Lapse(c) ==
  /\ Exists(c) /\ c \notin lapsed
  /\ lapsed' = lapsed \cup {c}
  /\ UNCHANGED <<card, topups, posted, radius, handed, request, troubles>>

-----------------------------------------------------------------------------
(* Requests.  A refusal changes nothing and is left out.                   *)

Begin(r, c, p, step) ==
  /\ At(r, "idle")
  /\ request' = [request EXCEPT ![r] = [pc |-> step, card |-> c, for |-> p]]
  /\ UNCHANGED <<card, lapsed, topups, posted, radius, handed, troubles>>

AfterLook(c, step) == IF c \in lapsed THEN "expire" ELSE step

LookForWallet(r, c, p) == card[c].status = "UNUSED" /\ Begin(r, c, p, AfterLook(c, "credit"))

LookAtHotspot(r, c) ==
  /\ card[c].status = "UNUSED" /\ (c \in lapsed \/ c \in WithPlan)
  /\ Begin(r, c, Nobody, AfterLook(c, "grab"))

LookToDelete(r, c) == card[c].status \in {"UNUSED", "EXPIRED"} /\ Begin(r, c, Nobody, "delete")

\* By id: whatever the card has become since it was read.
WriteExpired(r) ==
  /\ At(r, "expire")
  /\ IF Exists(Of(r)) THEN SetStatus(Of(r), "EXPIRED") ELSE UNCHANGED card
  /\ End(r)
  /\ UNCHANGED <<lapsed, topups, posted, radius, handed, troubles>>

\* By id, too: the row goes with all that it says.
Delete(r) ==
  /\ At(r, "delete")
  /\ IF Exists(Of(r)) THEN card' = [card EXCEPT ![Of(r)] = Erased] ELSE UNCHANGED card
  /\ End(r)
  /\ UNCHANGED <<lapsed, topups, posted, radius, handed, troubles>>

\* Mutant: the status that was read decides.
CreditAsRead(r) ==
  /\ At(r, "credit")
  /\ card' = [card EXCEPT ![Of(r)].status = "USED", ![Of(r)].usedBy = request[r].for]
  /\ topups' = [topups EXCEPT ![Of(r)] = @ + 1]
  /\ Go(r, "post")
  /\ UNCHANGED <<lapsed, posted, radius, handed, troubles>>

\* Mutant: nothing is posted after the transaction.
CreditUnposted(r) ==
  /\ At(r, "credit")
  /\ IF Claimable(Of(r))
     THEN /\ card' = [card EXCEPT ![Of(r)].status = "USED", ![Of(r)].usedBy = request[r].for]
          /\ topups' = [topups EXCEPT ![Of(r)] = @ + 1]
     ELSE UNCHANGED <<card, topups>>
  /\ End(r)
  /\ UNCHANGED <<lapsed, posted, radius, handed, troubles>>

\* One transaction: the claim, the wallet and its statement.
Credit(r) ==
  /\ At(r, "credit")
  /\ IF Claimable(Of(r))
     THEN /\ card' = [card EXCEPT ![Of(r)].status = "USED", ![Of(r)].usedBy = request[r].for]
          /\ topups' = [topups EXCEPT ![Of(r)] = @ + 1]
          /\ Go(r, "post")
     ELSE End(r) /\ UNCHANGED <<card, topups>>
  /\ UNCHANGED <<lapsed, posted, radius, handed, troubles>>

\* After it, the ledger; a failure is logged and forgotten.
Post(r) ==
  /\ At(r, "post")
  /\ \/ posted' = [posted EXCEPT ![Of(r)] = @ + 1] /\ UNCHANGED troubles
     \/ Trouble /\ UNCHANGED posted
  /\ End(r)
  /\ UNCHANGED <<card, lapsed, topups, radius, handed>>

\* usedBy is not written.
Grab(r) ==
  /\ At(r, "grab")
  /\ IF Claimable(Of(r)) THEN SetStatus(Of(r), "USED") /\ Go(r, "clear") ELSE End(r) /\ UNCHANGED card
  /\ UNCHANGED <<lapsed, topups, posted, radius, handed, troubles>>

\* syncSubscriberProfile: old rows go, the password comes, then the limits.
Written(step) == CASE step = "clear" -> "none" [] step = "login" -> "login" [] step = "limits" -> "full"

After(step) == CASE step = "clear" -> "login" [] step = "login" -> "limits" [] step = "limits" -> "answer"

Sync(r) ==
  /\ request[r].pc \in SyncSteps
  /\ radius' = [radius EXCEPT ![Of(r)] = Written(request[r].pc)]
  /\ Go(r, After(request[r].pc))
  /\ UNCHANGED <<card, lapsed, topups, posted, handed, troubles>>

\* A statement fails; it may have done its work all the same.
SyncFails(r) ==
  /\ request[r].pc \in SyncSteps
  /\ radius' \in {radius, [radius EXCEPT ![Of(r)] = Written(request[r].pc)]}
  /\ Go(r, "release")
  /\ UNCHANGED <<card, lapsed, topups, posted, handed, troubles>>

Answer(r) ==
  /\ At(r, "answer")
  /\ handed' = [handed EXCEPT ![Of(r)] = @ + 1]
  /\ End(r)
  /\ UNCHANGED <<card, lapsed, topups, posted, radius, troubles>>

\* Mutant: the card is put back only if it is still good.
ReleaseUnlapsed(r) ==
  /\ At(r, "release")
  /\ IF Exists(Of(r)) /\ Of(r) \notin lapsed THEN SetStatus(Of(r), "UNUSED") ELSE UNCHANGED card
  /\ End(r)
  /\ UNCHANGED <<lapsed, topups, posted, radius, handed, troubles>>

\* The card is put back by id; if that fails, too, nobody is told.
Release(r) ==
  /\ At(r, "release")
  /\ \/ /\ IF Exists(Of(r)) THEN SetStatus(Of(r), "UNUSED") ELSE UNCHANGED card
        /\ UNCHANGED troubles
     \/ Trouble /\ UNCHANGED card
  /\ End(r)
  /\ UNCHANGED <<lapsed, topups, posted, radius, handed>>

\* The process that serves a request dies.
Die(r) ==
  /\ ~At(r, "idle")
  /\ Trouble /\ End(r)
  /\ UNCHANGED <<card, lapsed, topups, posted, radius, handed>>

-----------------------------------------------------------------------------
Init ==
  /\ card = [c \in Cards |-> [status |-> "NONE", usedBy |-> Nobody, holder |-> Shelf]]
  /\ lapsed = {}
  /\ topups = [c \in Cards |-> 0]
  /\ posted = [c \in Cards |-> 0]
  /\ radius = [c \in Cards |-> "none"]
  /\ handed = [c \in Cards |-> 0]
  /\ request = [r \in Requests |-> Idle]
  /\ troubles = 0

Look(r) ==
  \E c \in Cards : (\E p \in Customers : LookForWallet(r, c, p)) \/ LookAtHotspot(r, c) \/ LookToDelete(r, c)

Work(r) ==
  \/ WriteExpired(r) \/ Delete(r)
  \/ Credit(r) \/ Post(r)
  \/ Grab(r) \/ Sync(r) \/ SyncFails(r) \/ Answer(r) \/ Release(r)

Stock == \E S \in SUBSET Cards, h \in Holders \cup {Shelf} : CreateBulk(S, h) \/ Allocate(S, h)

Next == Stock \/ (\E c \in Cards : Lapse(c)) \/ \E r \in Requests : Look(r) \/ Work(r) \/ Die(r)

\* A request that runs goes on until it ends or its process dies.
Spec == Init /\ [][Next]_vars /\ \A r \in Requests : WF_vars(Work(r))

-----------------------------------------------------------------------------
\* Every variable has its type.
TypeOK ==
  /\ card \in [Cards -> Rows]
  /\ lapsed \subseteq Cards
  /\ topups \in [Cards -> Nat]
  /\ posted \in [Cards -> Nat]
  /\ radius \in [Cards -> {"none", "login", "full"}]
  /\ handed \in [Cards -> Nat]
  /\ request \in [Requests -> [pc : Steps, card : Cards, for : Customers \cup {Nobody}]]
  /\ troubles \in 0 .. MaxTroubles

\* A card gives what it is worth once: to one wallet or to one customer who was
\* told that the login is ready, never twice and never both, however requests
\* for it overlap, expire it, delete it, fail and give it back.
GivenOnce == \A c \in Cards : topups[c] + handed[c] <= 1

\* A card that gave its value is never moved to another reseller: moving its batch, and every
\* request that is still under way for it, leaves its holder alone for as long as its row exists.
\* (A deletion that read the card before it was redeemed erases the row, see RedeemedIsKept.)
NoSoldCardMoves ==
  [][\A c \in Cards : topups[c] + handed[c] > 0 /\ Exists(c)' => card'[c].holder = card[c].holder]_vars

\* A card that a hotspot customer claimed is not burned for nothing: the login
\* is ready or the card is taken back, unless a process died or the taking back
\* failed as well.
NotBurned ==
  \A c \in Cards :
    card[c].status = "USED" /\ topups[c] = 0 ~> handed[c] > 0 \/ card[c].status # "USED" \/ troubles > 0

\* Money that reached a wallet reaches the ledger, unless something failed.
CreditsArePosted == \A c \in Cards : topups[c] > 0 ~> posted[c] = topups[c] \/ troubles > 0

\* A redeemed card is never deleted.
RedeemedIsKept == \A c \in Cards : topups[c] > 0 => card[c].status # "GONE"

\* A card whose value is in a wallet logs nobody in at a hotspot.
CreditedLogsNobodyIn == \A c \in Cards : topups[c] > 0 => radius[c] = "none"

=============================================================================
