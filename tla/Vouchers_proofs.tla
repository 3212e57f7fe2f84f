-------------------------- MODULE Vouchers_proofs ---------------------------
\* Proofs about Vouchers for any cards, customers, resellers, requests and troubles.
EXTENDS Vouchers, TLAPS

Ledgers == <<lapsed, topups, posted, radius, handed>>

-----------------------------------------------------------------------------
\* Types.

Requested == [pc : Steps, card : Cards, for : Customers \cup {Nobody}]

LEMMA IdleTyped == Idle \in Requested
  <1>1. (CHOOSE c \in Cards : TRUE) \in Cards
    BY VouchersAssumption
  <1> QED BY <1>1 DEF Idle, Requested, Steps

LEMMA GoTyped ==
  ASSUME TypeOK, NEW r \in Requests, NEW step \in Steps, Go(r, step)
  PROVE  /\ request' \in [Requests -> Requested]
         /\ request'[r].pc = step /\ request'[r].card = Of(r)
         /\ \A s \in Requests \ {r} : request'[s] = request[s]
  BY DEF TypeOK, Go, Requested, Of

LEMMA EndTyped ==
  ASSUME TypeOK, NEW r \in Requests, End(r)
  PROVE  /\ request' \in [Requests -> Requested]
         /\ request'[r].pc = "idle"
         /\ \A s \in Requests \ {r} : request'[s] = request[s]
  <1>1. request' \in [Requests -> Requested] /\ request'[r] = Idle
        /\ \A s \in Requests \ {r} : request'[s] = request[s]
    BY IdleTyped DEF TypeOK, End, Requested
  <1> QED BY <1>1 DEF Idle

LEMMA StatusTyped ==
  ASSUME TypeOK, NEW c \in Cards, NEW s \in Statuses, SetStatus(c, s)
  PROVE  /\ card' \in [Cards -> Rows]
         /\ card'[c].status = s
         /\ \A d \in Cards : card'[d].holder = card[d].holder
         /\ \A d \in Cards \ {c} : card'[d] = card[d]
  <1>0. card[c] \in Rows
    BY DEF TypeOK
  <1>1. [card[c] EXCEPT !.status = s] \in Rows
    BY <1>0 DEF Rows
  <1>2. card' = [card EXCEPT ![c] = [card[c] EXCEPT !.status = s]]
    BY DEF SetStatus, TypeOK
  <1>3. [card[c] EXCEPT !.status = s].holder = card[c].holder /\ [card[c] EXCEPT !.status = s].status = s
    BY DEF TypeOK, Rows
  <1> QED BY <1>1, <1>2, <1>3 DEF TypeOK

LEMMA DeleteTyped ==
  ASSUME TypeOK, NEW r \in Requests, Delete(r)
  PROVE  /\ card' \in [Cards -> Rows]
         /\ \A d \in Cards : card'[d] = card[d] \/ card'[d].status = "GONE"
  <1>1. PICK gone \in Rows : gone = Erased
    BY DEF Erased, Rows
  <1>2. gone.status = "GONE"
    BY <1>1 DEF Erased
  <1>3. PICK c \in Cards : c = Of(r)
    BY DEF TypeOK, Of
  <1>4. card' = card \/ card' = [card EXCEPT ![c] = gone]
    BY <1>1, <1>3 DEF Delete
  <1> QED BY <1>2, <1>4 DEF TypeOK

LEMMA TroubleTyped ==
  ASSUME TypeOK, Trouble
  PROVE  troubles' \in 0 .. MaxTroubles
  BY VouchersAssumption DEF TypeOK, Trouble

LEMMA OfTyped == ASSUME TypeOK, NEW r \in Requests PROVE Of(r) \in Cards
  BY DEF TypeOK, Of

LEMMA SyncTyped ==
  ASSUME NEW step \in SyncSteps
  PROVE  Written(step) \in {"none", "login", "full"} /\ After(step) \in {"login", "limits", "answer"}
  BY DEF SyncSteps, Written, After

LEMMA StockTyped ==
  ASSUME TypeOK, NEW S \in SUBSET Cards, NEW h \in Holders \cup {Shelf},
         CreateBulk(S, h) \/ Allocate(S, h)
  PROVE  TypeOK'
  <1>1. card' \in [Cards -> Rows]
    BY DEF TypeOK, CreateBulk, Allocate, Rows, Statuses
  <1>2. UNCHANGED <<Ledgers, request, troubles>>
    BY DEF CreateBulk, Allocate, Ledgers
  <1> QED BY <1>1, <1>2 DEF TypeOK, Ledgers

\* The first statement of a request: it has read a card and remembers whom it is for.
LEMMA LookBegins ==
  ASSUME TypeOK, NEW r \in Requests, Look(r)
  PROVE  /\ UNCHANGED <<card, Ledgers, troubles>>
         /\ request' \in [Requests -> Requested]
         /\ request'[r].pc \in {"expire", "credit", "grab", "delete"}
         /\ \A s \in Requests \ {r} : request'[s] = request[s]
  <1>1. PICK c \in Cards, p \in Customers \cup {Nobody},
             step \in {"expire", "credit", "grab", "delete"} : Begin(r, c, p, step)
    BY DEF Look, LookForWallet, LookAtHotspot, LookToDelete, AfterLook
  <1> QED BY <1>1 DEF Begin, TypeOK, Ledgers, Requested, Steps

LEMMA CreditSteps ==
  ASSUME TypeOK, NEW r \in Requests, Credit(r), Claimable(Of(r))
  PROVE  /\ card' \in [Cards -> Rows] /\ topups' \in [Cards -> Nat]
         /\ card'[Of(r)].status = "USED" /\ topups'[Of(r)] = topups[Of(r)] + 1
         /\ \A d \in Cards : card'[d].holder = card[d].holder
         /\ \A d \in Cards \ {Of(r)} : card'[d] = card[d] /\ topups'[d] = topups[d]
  <1>1. PICK c \in Cards, p \in Customers \cup {Nobody} : c = Of(r) /\ p = request[r].for
    BY OfTyped DEF TypeOK
  <1>2. /\ card' = [card EXCEPT ![c].status = "USED", ![c].usedBy = p]
        /\ topups' = [topups EXCEPT ![c] = @ + 1]
    BY <1>1 DEF Credit
  <1>3. /\ card' \in [Cards -> Rows] /\ card'[c].status = "USED"
        /\ \A d \in Cards : card'[d].holder = card[d].holder
        /\ \A d \in Cards \ {c} : card'[d] = card[d]
    <2>1. card \in [Cards -> Rows]
      BY DEF TypeOK
    <2>2. PICK row \in Rows : row = [card[c] EXCEPT !.status = "USED", !.usedBy = p]
      BY <2>1 DEF Rows, Statuses
    <2>3. row.status = "USED" /\ row.holder = card[c].holder
      BY <2>1, <2>2 DEF Rows
    <2>4. card' = [card EXCEPT ![c] = row]
      BY <1>2, <2>1, <2>2
    <2> QED BY <2>1, <2>3, <2>4
  <1>4. /\ topups' \in [Cards -> Nat] /\ topups'[c] = topups[c] + 1
        /\ \A d \in Cards \ {c} : topups'[d] = topups[d]
    BY <1>2 DEF TypeOK
  <1> QED BY <1>1, <1>3, <1>4

LEMMA WorkTyped ==
  ASSUME TypeOK, NEW r \in Requests, Work(r) \/ Die(r)
  PROVE  TypeOK'
  <1>1. Of(r) \in Cards
    BY OfTyped
  <1>2. ASSUME WriteExpired(r) \/ Delete(r) \/ Grab(r) \/ Release(r)
        PROVE  TypeOK'
    <2>1. card' \in [Cards -> Rows]
      BY <1>1, <1>2, StatusTyped, DeleteTyped DEF WriteExpired, Grab, Release, TypeOK, Statuses
    <2>2. request' \in [Requests -> Requested]
      BY <1>2, EndTyped, GoTyped DEF WriteExpired, Delete, Grab, Release, Steps, SyncSteps
    <2>3. troubles' \in 0 .. MaxTroubles
      BY <1>2, TroubleTyped DEF WriteExpired, Delete, Grab, Release, TypeOK
    <2>4. UNCHANGED Ledgers
      BY <1>2 DEF WriteExpired, Delete, Grab, Release, Ledgers
    <2> QED BY <2>1, <2>2, <2>3, <2>4 DEF TypeOK, Ledgers, Requested
  <1>3. CASE Credit(r)
    <2>1. card' \in [Cards -> Rows] /\ topups' \in [Cards -> Nat]
      BY <1>3, CreditSteps DEF Credit, TypeOK
    <2>2. request' \in [Requests -> Requested]
      BY <1>3, EndTyped, GoTyped DEF Credit, Steps
    <2> QED BY <1>3, <2>1, <2>2 DEF Credit, TypeOK, Requested
  <1>4. CASE Post(r)
    <2>1. posted' \in [Cards -> Nat] /\ troubles' \in 0 .. MaxTroubles
      BY <1>1, <1>4, TroubleTyped DEF Post, TypeOK
    <2>2. request' \in [Requests -> Requested]
      BY <1>4, EndTyped DEF Post
    <2> QED BY <1>4, <2>1, <2>2 DEF Post, TypeOK, Requested
  <1>5. CASE Sync(r) \/ SyncFails(r)
    <2>1. PICK step \in SyncSteps : step = request[r].pc
      BY <1>5 DEF Sync, SyncFails
    <2>2. radius' \in [Cards -> {"none", "login", "full"}]
      BY <1>1, <1>5, <2>1, SyncTyped DEF Sync, SyncFails, TypeOK
    <2>3. request' \in [Requests -> Requested]
      BY <1>5, <2>1, SyncTyped, GoTyped DEF Sync, SyncFails, Steps, SyncSteps
    <2> QED BY <1>5, <2>2, <2>3 DEF Sync, SyncFails, TypeOK, Requested
  <1>6. CASE Answer(r)
    <2>1. handed' \in [Cards -> Nat]
      BY <1>1, <1>6 DEF Answer, TypeOK
    <2>2. request' \in [Requests -> Requested]
      BY <1>6, EndTyped DEF Answer
    <2> QED BY <1>6, <2>1, <2>2 DEF Answer, TypeOK, Requested
  <1>7. CASE Die(r)
    <2>1. request' \in [Requests -> Requested] /\ troubles' \in 0 .. MaxTroubles
      BY <1>7, EndTyped, TroubleTyped DEF Die
    <2> QED BY <1>7, <2>1 DEF Die, TypeOK, Requested
  <1> QED BY <1>2, <1>3, <1>4, <1>5, <1>6, <1>7 DEF Work

LEMMA StepTyped == TypeOK /\ [Next]_vars => TypeOK'
  <1> SUFFICES ASSUME TypeOK, [Next]_vars PROVE TypeOK'
    OBVIOUS
  <1>1. CASE Stock
    BY <1>1, StockTyped DEF Stock
  <1>2. ASSUME NEW c \in Cards, Lapse(c) PROVE TypeOK'
    BY <1>2 DEF Lapse, TypeOK
  <1>3. ASSUME NEW r \in Requests, Look(r) PROVE TypeOK'
    BY <1>3, LookBegins DEF TypeOK, Ledgers, Requested
  <1>4. ASSUME NEW r \in Requests, Work(r) \/ Die(r) PROVE TypeOK'
    BY <1>4, WorkTyped
  <1>5. CASE UNCHANGED vars
    BY <1>5 DEF vars, TypeOK
  <1> QED BY <1>1, <1>2, <1>3, <1>4, <1>5 DEF Next

LEMMA InitTyped == Init => TypeOK
  BY IdleTyped, VouchersAssumption DEF Init, TypeOK, Rows, Requested

\* Cards, wallet rows, postings, RADIUS rows and waiting requests keep their types.
THEOREM TypeCorrect == Spec => []TypeOK
  BY InitTyped, StepTyped, PTL DEF Spec

-----------------------------------------------------------------------------
(* A card gives its value once.  A hotspot claim takes the card, works for *)
(* a while and then either hands the login over or gives the card back by  *)
(* id, whatever became of it; so the right to write that card must be one  *)
(* request's alone, and end when the value is out.                         *)

GrabSteps == {"clear", "login", "limits", "answer", "release"}

\* Request r holds card c, whose login it is making or whose claim it is about to undo.
Holds(r, c) == Of(r) = c /\ request[r].pc \in GrabSteps

Value(c) == topups[c] + handed[c]

\* A card that may be claimed, or is not printed yet, gave nothing and is nobody's; a card that
\* a request holds gave nothing either, and no other request holds it.
CardInv(c) ==
  /\ Value(c) <= 1
  /\ card[c].status \in {"NONE", "UNUSED"} => Value(c) = 0 /\ \A r \in Requests : ~Holds(r, c)
  /\ \A r \in Requests : Holds(r, c) => Value(c) = 0 /\ \A s \in Requests \ {r} : ~Holds(s, c)

ValueInv == \A c \in Cards : CardInv(c)

\* A step at whose end nobody holds a card that nobody held before, no value went out, and the only
\* cards that may be claimed again are those nobody holds and that gave nothing.
LEMMA NothingGiven ==
  ASSUME ValueInv, UNCHANGED <<topups, handed>>,
         NEW r \in Requests, \A s \in Requests \ {r} : request'[s] = request[s],
         \A c \in Cards : Holds(r, c)' => Holds(r, c),
         \A c \in Cards : card'[c].status \in {"NONE", "UNUSED"} =>
           \/ card[c].status \in {"NONE", "UNUSED"}
           \/ Holds(r, c) /\ ~Holds(r, c)'
  PROVE  ValueInv'
  <1> SUFFICES ASSUME NEW c \in Cards PROVE CardInv(c)'
    BY DEF ValueInv
  <1>1. CardInv(c)
    BY DEF ValueInv
  <1>2. Value(c)' = Value(c)
    BY DEF Value
  <1>3. \A s \in Requests : Holds(s, c)' => Holds(s, c)
    BY DEF Holds, Of
  <1>4. \A s \in Requests \ {r} : Holds(s, c)' <=> Holds(s, c)
    BY DEF Holds, Of
  <1> QED BY <1>1, <1>2, <1>3, <1>4 DEF CardInv

\* Other cards are not concerned by the step of a request about its card.
LEMMA OtherCards ==
  ASSUME TypeOK, ValueInv, NEW r \in Requests, NEW c \in Cards, c # Of(r),
         \A s \in Requests \ {r} : request'[s] = request[s],
         Holds(r, c)' => FALSE, card'[c] = card[c], topups'[c] = topups[c], handed'[c] = handed[c]
  PROVE  CardInv(c)'
  <1>1. CardInv(c) /\ ~Holds(r, c)
    BY DEF ValueInv, Holds
  <1>2. Value(c)' = Value(c)
    BY DEF Value
  <1>3. \A s \in Requests : Holds(s, c)' <=> Holds(s, c)
    BY <1>1 DEF Holds, Of
  <1> QED BY <1>1, <1>2, <1>3 DEF CardInv

LEMMA StockGives ==
  ASSUME TypeOK, ValueInv, NEW S \in SUBSET Cards, NEW h \in Holders \cup {Shelf},
         CreateBulk(S, h) \/ Allocate(S, h)
  PROVE  ValueInv'
  <1> SUFFICES ASSUME NEW c \in Cards PROVE CardInv(c)'
    BY DEF ValueInv
  <1>1. CardInv(c)
    BY DEF ValueInv
  <1>2. card'[c].status \in {"NONE", "UNUSED"} => card[c].status \in {"NONE", "UNUSED"}
    BY DEF TypeOK, CreateBulk, Allocate
  <1>3. UNCHANGED <<topups, handed, request>>
    BY DEF CreateBulk, Allocate
  <1>4. Value(c)' = Value(c) /\ \A s \in Requests : Holds(s, c)' <=> Holds(s, c)
    BY <1>3 DEF Value, Holds, Of
  <1> QED BY <1>1, <1>2, <1>4 DEF CardInv

\* The wallet gets its money in the statement that takes the card.
LEMMA CreditGives ==
  ASSUME TypeOK, ValueInv, NEW r \in Requests, Credit(r)
  PROVE  ValueInv'
  <1>1. Of(r) \in Cards /\ request[r].pc = "credit" /\ UNCHANGED handed
    BY OfTyped DEF Credit, At
  <1>2. /\ request'[r].pc \in {"post", "idle"}
        /\ \A s \in Requests \ {r} : request'[s] = request[s]
    BY GoTyped, EndTyped DEF Credit, Steps
  <1>3. \A c \in Cards : ~Holds(r, c) /\ ~Holds(r, c)'
    BY <1>1, <1>2 DEF Holds, GrabSteps
  <1>4. CASE ~Claimable(Of(r))
    <2>1. UNCHANGED <<card, topups>>
      BY <1>4 DEF Credit
    <2> QED BY <1>1, <1>2, <1>3, <2>1, NothingGiven
  <1>5. CASE Claimable(Of(r))
    <2>1. /\ card'[Of(r)].status = "USED" /\ topups'[Of(r)] = topups[Of(r)] + 1
          /\ \A d \in Cards \ {Of(r)} : card'[d] = card[d] /\ topups'[d] = topups[d]
      BY <1>5, CreditSteps
    <2>2. ASSUME NEW c \in Cards, c = Of(r) PROVE CardInv(c)'
      <3>1. card[c].status = "UNUSED" /\ CardInv(c)
        BY <1>5, <2>2 DEF Claimable, ValueInv
      <3>2. Value(c) = 0 /\ \A s \in Requests : ~Holds(s, c)
        BY <3>1 DEF CardInv
      <3>3. Value(c)' = 1
        BY <1>1, <2>1, <2>2, <3>2 DEF Value, TypeOK
      <3>4. \A s \in Requests : ~Holds(s, c)'
        BY <1>2, <1>3, <3>2 DEF Holds, Of
      <3> QED BY <2>1, <2>2, <3>3, <3>4 DEF CardInv
    <2>3. ASSUME NEW c \in Cards, c # Of(r) PROVE CardInv(c)'
      BY <1>1, <1>2, <1>3, <2>1, <2>3, OtherCards
    <2> QED BY <2>2, <2>3 DEF ValueInv
  <1> QED BY <1>4, <1>5

\* A hotspot claim takes a card that nobody holds.
LEMMA GrabGives ==
  ASSUME TypeOK, ValueInv, NEW r \in Requests, Grab(r)
  PROVE  ValueInv'
  <1>1. Of(r) \in Cards /\ request[r].pc = "grab" /\ UNCHANGED <<topups, handed>>
    BY OfTyped DEF Grab, At
  <1>2. CASE ~Claimable(Of(r))
    <2>1. UNCHANGED card /\ End(r)
      BY <1>2 DEF Grab
    <2>2. /\ request'[r].pc = "idle"
          /\ \A s \in Requests \ {r} : request'[s] = request[s]
      BY <2>1, EndTyped
    <2>3. \A c \in Cards : ~Holds(r, c)'
      BY <2>2 DEF Holds, GrabSteps
    <2> QED BY <1>1, <2>1, <2>2, <2>3, NothingGiven
  <1>3. CASE Claimable(Of(r))
    <2>1. SetStatus(Of(r), "USED") /\ Go(r, "clear")
      BY <1>3 DEF Grab
    <2>2. card'[Of(r)].status = "USED" /\ \A d \in Cards \ {Of(r)} : card'[d] = card[d]
      BY <1>1, <2>1, StatusTyped DEF Statuses
    <2>3. /\ request'[r].pc = "clear" /\ request'[r].card = Of(r)
          /\ \A s \in Requests \ {r} : request'[s] = request[s]
      BY <2>1, GoTyped DEF Steps, SyncSteps
    <2>4. ASSUME NEW c \in Cards, c = Of(r) PROVE CardInv(c)'
      <3>1. card[c].status = "UNUSED" /\ CardInv(c)
        BY <1>3, <2>4 DEF Claimable, ValueInv
      <3>2. Value(c) = 0 /\ \A s \in Requests : ~Holds(s, c)
        BY <3>1 DEF CardInv
      <3>3. Value(c)' = 0
        BY <1>1, <3>2 DEF Value
      <3>4. \A s \in Requests \ {r} : ~Holds(s, c)'
        BY <2>3, <3>2 DEF Holds, Of
      <3> QED BY <2>2, <2>4, <3>3, <3>4 DEF CardInv
    <2>5. ASSUME NEW c \in Cards, c # Of(r) PROVE CardInv(c)'
      <3>1. ~Holds(r, c)'
        BY <2>3, <2>5 DEF Holds, Of
      <3> QED BY <1>1, <2>2, <2>3, <2>5, <3>1, OtherCards
    <2> QED BY <2>4, <2>5 DEF ValueInv
  <1> QED BY <1>2, <1>3

\* The customer is told of the login: the value is out, and the card is nobody's any more.
LEMMA AnswerGives ==
  ASSUME TypeOK, ValueInv, NEW r \in Requests, Answer(r)
  PROVE  ValueInv'
  <1>1. Of(r) \in Cards /\ request[r].pc = "answer" /\ UNCHANGED <<card, topups>>
    BY OfTyped DEF Answer, At
  <1>2. /\ request'[r].pc = "idle"
        /\ \A s \in Requests \ {r} : request'[s] = request[s]
    BY EndTyped DEF Answer
  <1>3. \A c \in Cards : ~Holds(r, c)'
    BY <1>2 DEF Holds, GrabSteps
  <1>4. /\ handed'[Of(r)] = handed[Of(r)] + 1
        /\ \A d \in Cards \ {Of(r)} : handed'[d] = handed[d]
    BY <1>1 DEF Answer, TypeOK
  <1>5. ASSUME NEW c \in Cards, c = Of(r) PROVE CardInv(c)'
    <2>1. Holds(r, c) /\ CardInv(c)
      BY <1>1, <1>5 DEF Holds, GrabSteps, ValueInv
    <2>2. /\ Value(c) = 0 /\ card[c].status \notin {"NONE", "UNUSED"}
          /\ \A s \in Requests \ {r} : ~Holds(s, c)
      BY <2>1 DEF CardInv
    <2>3. Value(c)' = 1
      BY <1>1, <1>4, <1>5, <2>2 DEF Value, TypeOK
    <2>4. \A s \in Requests : ~Holds(s, c)'
      BY <1>2, <1>3, <2>2 DEF Holds, Of
    <2> QED BY <1>1, <2>2, <2>3, <2>4 DEF CardInv
  <1>6. ASSUME NEW c \in Cards, c # Of(r) PROVE CardInv(c)'
    BY <1>1, <1>2, <1>3, <1>4, <1>6, OtherCards
  <1> QED BY <1>5, <1>6 DEF ValueInv

\* Steps that give nothing: expiry and deletion by id, statements on the RADIUS tables, the card
\* given back by the request that holds it, a posting, a death.
LEMMA OthersGive ==
  ASSUME TypeOK, ValueInv, NEW r \in Requests,
         \/ WriteExpired(r) \/ Delete(r) \/ Post(r) \/ Sync(r) \/ SyncFails(r)
         \/ Release(r) \/ Die(r)
  PROVE  ValueInv'
  <1>1. Of(r) \in Cards /\ UNCHANGED <<topups, handed>>
    BY OfTyped DEF WriteExpired, Delete, Post, Sync, SyncFails, Release, Die
  <1>2. CASE WriteExpired(r) \/ Delete(r)
    <2>1. /\ request'[r].pc = "idle"
          /\ \A s \in Requests \ {r} : request'[s] = request[s]
      BY <1>2, EndTyped DEF WriteExpired, Delete
    <2>2. \A c \in Cards : card'[c].status \in {"NONE", "UNUSED"} =>
                           card[c].status \in {"NONE", "UNUSED"}
      <3>1. CASE WriteExpired(r)
        BY <1>1, <3>1, StatusTyped DEF WriteExpired, Statuses
      <3>2. CASE Delete(r)
        BY <3>2, DeleteTyped
      <3> QED BY <1>2, <3>1, <3>2
    <2>3. \A c \in Cards : ~Holds(r, c)'
      BY <2>1 DEF Holds, GrabSteps
    <2> QED BY <1>1, <2>1, <2>2, <2>3, NothingGiven
  <1>3. CASE Post(r) \/ Die(r)
    <2>1. /\ request'[r].pc = "idle" /\ UNCHANGED card
          /\ \A s \in Requests \ {r} : request'[s] = request[s]
      BY <1>3, EndTyped DEF Post, Die
    <2>2. \A c \in Cards : ~Holds(r, c)'
      BY <2>1 DEF Holds, GrabSteps
    <2> QED BY <1>1, <2>1, <2>2, NothingGiven
  <1>4. CASE Sync(r) \/ SyncFails(r)
    <2>1. PICK step \in SyncSteps : step = request[r].pc
      BY <1>4 DEF Sync, SyncFails
    <2>2. PICK to \in Steps : Go(r, to)
      BY <1>4, <2>1, SyncTyped DEF Sync, SyncFails, Steps, SyncSteps
    <2>3. /\ request'[r].card = Of(r) /\ UNCHANGED card
          /\ \A s \in Requests \ {r} : request'[s] = request[s]
      BY <1>4, <2>2, GoTyped DEF Sync, SyncFails
    <2>4. \A c \in Cards : Holds(r, c)' => Holds(r, c)
      BY <2>1, <2>3 DEF Holds, Of, GrabSteps, SyncSteps
    <2> QED BY <1>1, <2>3, <2>4, NothingGiven
  <1>5. CASE Release(r)
    <2>1. /\ request'[r].pc = "idle" /\ request[r].pc = "release"
          /\ \A s \in Requests \ {r} : request'[s] = request[s]
      BY <1>5, EndTyped DEF Release, At
    <2>2. \A c \in Cards : ~Holds(r, c)'
      BY <2>1 DEF Holds, GrabSteps
    <2>3. Holds(r, Of(r))
      BY <2>1 DEF Holds, GrabSteps
    <2>4. \A c \in Cards \ {Of(r)} : card'[c] = card[c]
      BY <1>1, <1>5, StatusTyped DEF Release, Statuses
    <2> QED BY <1>1, <2>1, <2>2, <2>3, <2>4, NothingGiven
  <1> QED BY <1>2, <1>3, <1>4, <1>5

LEMMA ValueStep == TypeOK /\ ValueInv /\ [Next]_vars => ValueInv'
  <1> SUFFICES ASSUME TypeOK, ValueInv, [Next]_vars PROVE ValueInv'
    OBVIOUS
  <1>1. CASE Stock
    BY <1>1, StockGives DEF Stock
  <1>2. ASSUME UNCHANGED <<card, topups, handed, request>> PROVE ValueInv'
    BY <1>2 DEF ValueInv, CardInv, Value, Holds, Of
  <1>3. ASSUME NEW c \in Cards, Lapse(c) PROVE ValueInv'
    BY <1>2, <1>3 DEF Lapse
  <1>4. ASSUME NEW r \in Requests, Look(r) PROVE ValueInv'
    <2>1. /\ UNCHANGED <<card, topups, handed>>
          /\ request'[r].pc \in {"expire", "credit", "grab", "delete"}
          /\ \A s \in Requests \ {r} : request'[s] = request[s]
      BY <1>4, LookBegins DEF Ledgers
    <2>2. \A c \in Cards : ~Holds(r, c)'
      BY <2>1 DEF Holds, GrabSteps
    <2> QED BY <2>1, <2>2, NothingGiven
  <1>5. ASSUME NEW r \in Requests, Work(r) \/ Die(r) PROVE ValueInv'
    BY <1>5, CreditGives, GrabGives, AnswerGives, OthersGive DEF Work
  <1>6. CASE UNCHANGED vars
    BY <1>2, <1>6 DEF vars
  <1> QED BY <1>1, <1>3, <1>4, <1>5, <1>6 DEF Next

LEMMA ValueInit == Init => ValueInv
  <1> SUFFICES ASSUME Init PROVE ValueInv
    OBVIOUS
  <1>1. \A r \in Requests : request[r].pc = "idle"
    BY DEF Init, Idle
  <1>2. ASSUME NEW c \in Cards PROVE CardInv(c)
    <2>1. topups[c] = 0 /\ handed[c] = 0
      BY DEF Init
    <2>2. Value(c) = 0
      BY <2>1 DEF Value
    <2>3. \A r \in Requests : ~Holds(r, c)
      BY <1>1 DEF Holds, GrabSteps
    <2> QED BY <2>2, <2>3 DEF CardInv
  <1> QED BY <1>2 DEF ValueInv

\* A card gives what it is worth to one wallet or to one hotspot customer, however many requests
\* redeem, expire, delete and give it back at once, fail or die.
THEOREM CardsGiveOnce == Spec => []GivenOnce
  <1>1. TypeOK /\ ValueInv /\ [Next]_vars => ValueInv'
    BY ValueStep
  <1>2. ValueInv => GivenOnce
    BY DEF ValueInv, CardInv, Value, GivenOnce
  <1> QED BY <1>1, <1>2, ValueInit, TypeCorrect, PTL DEF Spec

-----------------------------------------------------------------------------
\* Which reseller sold a card.

\* Requests never write the holder, whatever they make of the card; a deletion takes the row.
LEMMA HoldersStay ==
  ASSUME TypeOK, NEW r \in Requests, Work(r) \/ Die(r), NEW c \in Cards, Exists(c)'
  PROVE  card'[c].holder = card[c].holder
  <1>1. Of(r) \in Cards
    BY OfTyped
  <1>2. CASE WriteExpired(r) \/ Grab(r) \/ Release(r)
    BY <1>1, <1>2, StatusTyped DEF WriteExpired, Grab, Release, Statuses
  <1>3. CASE Delete(r)
    BY <1>3, DeleteTyped DEF Exists, Statuses
  <1>4. CASE Credit(r)
    BY <1>4, CreditSteps DEF Credit
  <1>5. CASE Post(r) \/ Sync(r) \/ SyncFails(r) \/ Answer(r) \/ Die(r)
    BY <1>5 DEF Post, Sync, SyncFails, Answer, Die
  <1> QED BY <1>2, <1>3, <1>4, <1>5 DEF Work

\* Once a card gave its value its holder stays while its row does, also when its batch is moved.
THEOREM HoldersOfSoldCardsStay == Spec => NoSoldCardMoves
  <1>1. TypeOK /\ ValueInv /\ [Next]_vars =>
          [\A c \in Cards : topups[c] + handed[c] > 0 /\ Exists(c)'
                             => card'[c].holder = card[c].holder]_vars
    <2> SUFFICES ASSUME TypeOK, ValueInv, Next,
                        NEW c \in Cards, topups[c] + handed[c] > 0, Exists(c)'
                 PROVE  card'[c].holder = card[c].holder
      OBVIOUS
    <2>1. card[c].status \notin {"NONE", "UNUSED"}
      BY DEF ValueInv, CardInv, Value
    <2>2. CASE Stock
      BY <2>1, <2>2 DEF Stock, CreateBulk, Allocate, TypeOK
    <2>3. ASSUME NEW d \in Cards, Lapse(d) PROVE card'[c].holder = card[c].holder
      BY <2>3 DEF Lapse
    <2>4. ASSUME NEW r \in Requests, Look(r) \/ Work(r) \/ Die(r)
          PROVE  card'[c].holder = card[c].holder
      BY <2>4, LookBegins, HoldersStay
    <2> QED BY <2>2, <2>3, <2>4 DEF Next
  <1>2. TypeOK /\ ValueInv /\ [Next]_vars => ValueInv'
    BY ValueStep
  <1> QED BY <1>1, <1>2, ValueInit, TypeCorrect, PTL DEF Spec, NoSoldCardMoves

=============================================================================
