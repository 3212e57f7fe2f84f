--------------------------- MODULE Renewals_proofs ---------------------------
(***************************************************************************)
(* Proofs about Renewals for every set of handlers and keys, every price,  *)
(* credit limit, package duration and clock.                               *)
(***************************************************************************)
EXTENDS Renewals, SequenceTheorems, FiniteSetTheorems, TLAPS

-----------------------------------------------------------------------------
(* Sequences.                                                              *)

LEMMA FunctionIsSeq ==
  ASSUME NEW S, NEW n \in Nat, NEW f \in [1 .. n -> S]
  PROVE  f \in Seq(S)
  BY SeqDef

LEMMA UpdatedIsSeq ==
  ASSUME NEW S, NEW s \in Seq(S), NEW f \in [DOMAIN s -> S]
  PROVE  f \in Seq(S)
  <1>1. DOMAIN s = 1 .. Len(s) /\ Len(s) \in Nat
    OBVIOUS
  <1> QED BY <1>1, FunctionIsSeq

Distinct(s) == \A i, j \in DOMAIN s : s[i] = s[j] => i = j

LEMMA AppendDistinct ==
  ASSUME NEW S, NEW s \in Seq(S), NEW e \in S, Distinct(s), ~ \E i \in DOMAIN s : s[i] = e
  PROVE  Distinct(Append(s, e))
  <1>1. DOMAIN Append(s, e) = 1 .. Len(s) + 1 /\ DOMAIN s = 1 .. Len(s) /\ Len(s) \in Nat
    OBVIOUS
  <1>2. \A i \in 1 .. Len(s) : Append(s, e)[i] = s[i]
    OBVIOUS
  <1>3. Append(s, e)[Len(s) + 1] = e
    OBVIOUS
  <1> QED BY <1>1, <1>2, <1>3 DEF Distinct

-----------------------------------------------------------------------------
(* Types.                                                                  *)

LEMMA Numbers ==
  /\ Cost \in Nat /\ CreditLimit \in Nat /\ DealerStart \in Nat /\ Days \in Nat \ {0}
  /\ MaxTime \in Nat /\ MaxWallet \in Nat
  BY RenewalsAssumption

LEMMA NewTyped == NewSubscriber \in Subscribers
  BY DEF NewSubscriber, Subscribers

LEMMA BlankTyped == Blank \in Handlers
  BY DEF Blank, Handlers, Steps, Modes

LEMMA HalvesAreWhole == \A n \in Nat : n \div 2 \in Nat /\ DaysUntil(n) \in Nat
  BY DEF DaysUntil

LEMMA ContinueTyped ==
  ASSUME req \in [Requests -> Handlers], NEW r \in Requests, NEW h \in Handlers, Continue(r, h)
  PROVE  req' \in [Requests -> Handlers]
  BY DEF Continue

LEMMA FinishTyped ==
  ASSUME req \in [Requests -> Handlers], NEW r \in Requests, Finish(r)
  PROVE  req' \in [Requests -> Handlers]
  <1>1. [Blank EXCEPT !.pc = "done"] \in Handlers
    BY BlankTyped DEF Handlers
  <1> QED BY <1>1, ContinueTyped DEF Finish

LEMMA GotoTyped ==
  ASSUME req \in [Requests -> Handlers], NEW r \in Requests, NEW step \in Steps, Goto(r, step)
  PROVE  req' \in [Requests -> Handlers]
  BY DEF Goto, Handlers

LEMMA StatusTyped ==
  ASSUME sub \in Subscribers, NEW status \in {"INACTIVE", "ACTIVE", "EXPIRED"},
         sub' = [sub EXCEPT !.status = status]
  PROVE  sub' \in Subscribers
  BY DEF Subscribers

LEMMA ExpiryTyped ==
  ASSUME sub \in Subscribers, NEW expiry \in Nat, sub' = [sub EXCEPT !.expiry = expiry]
  PROVE  sub' \in Subscribers
  BY DEF Subscribers

LEMMA BalanceTyped ==
  ASSUME sub \in Subscribers, NEW balance \in Int, sub' = [sub EXCEPT !.balance = balance]
  PROVE  sub' \in Subscribers
  BY DEF Subscribers

LEMMA PeriodTyped ==
  ASSUME sub \in Subscribers, NEW expiry \in Nat, NEW balance \in Int,
         sub' = [sub EXCEPT !.expiry = expiry, !.balance = balance]
  PROVE  sub' \in Subscribers
  BY DEF Subscribers

LEMMA InitTyped == Init => TypeOK
  <1> SUFFICES ASSUME Init PROVE TypeOK
    OBVIOUS
  <1>1. rows \in Seq(References) /\ bills \in Seq(Bills)
    BY DEF Init
  <1>2. req \in [Requests -> Handlers]
    BY BlankTyped DEF Init
  <1>3. sub \in Subscribers /\ dealer \in Int /\ clock \in 0 .. MaxTime
    BY NewTyped, Numbers DEF Init
  <1>4. recent \subseteq References /\ renewed \in Nat /\ charged \subseteq Nat /\ skipped \subseteq Nat
    BY DEF Init
  <1> QED BY <1>1, <1>2, <1>3, <1>4 DEF TypeOK

LEMMA ActStartTyped ==
  ASSUME TypeOK, NEW r \in Requests, ActStart(r)
  PROVE  TypeOK'
  <1>1. PICK choice \in Offered, key \in ClientKeys \cup {NoKey} :
          Continue(r, [Blank EXCEPT !.pc = "act_quote", !.mode = choice[1], !.days = choice[2],
                                    !.key = key, !.active = (sub.status = "ACTIVE")])
    BY DEF ActStart
  <1>2. choice[1] \in Modes /\ choice[2] \in Nat
    BY RenewalsAssumption
  <1>3. (sub.status = "ACTIVE") \in BOOLEAN
    OBVIOUS
  <1>4. [Blank EXCEPT !.pc = "act_quote", !.mode = choice[1], !.days = choice[2],
                      !.key = key, !.active = (sub.status = "ACTIVE")] \in Handlers
    BY <1>2, <1>3, BlankTyped DEF Handlers, Steps
  <1>5. req' \in [Requests -> Handlers]
    BY <1>1, <1>4, ContinueTyped DEF TypeOK
  <1> QED BY <1>5 DEF ActStart, TypeOK, history

LEMMA ActQuoteTyped ==
  ASSUME TypeOK, NEW r \in Requests, ActQuote(r)
  PROVE  TypeOK'
  <1> DEFINE first == ~req[r].active
             days  == QuotedDays(r, first)
             until == PeriodStart(first) + 2 * days
  <1>1. CASE req[r].mode = "BALANCE" /\ days \notin 1 .. Days + 1
    <2>1. Finish(r)
      BY <1>1 DEF ActQuote
    <2> QED BY <2>1, FinishTyped DEF ActQuote, TypeOK, history
  <1>2. CASE ~(req[r].mode = "BALANCE" /\ days \notin 1 .. Days + 1)
    <2>1. req[r] \in Handlers /\ sub.expiry \in Nat /\ clock \in Nat
      BY DEF TypeOK, Subscribers
    <2>2. days \in Nat
      <3>1. CASE req[r].mode = "BALANCE"
        BY <3>1, <1>2, Numbers
      <3>2. CASE req[r].mode = "NONE" /\ first /\ sub.expiry - clock > 2
        <4>1. sub.expiry - clock \in Nat
          BY <3>2, <2>1
        <4>2. days = DaysUntil(sub.expiry - clock)
          BY <3>2 DEF QuotedDays
        <4> QED BY <4>1, <4>2, HalvesAreWhole
      <3>3. CASE ~(req[r].mode = "BALANCE") /\ ~(req[r].mode = "NONE" /\ first /\ sub.expiry - clock > 2)
        <4>1. days = req[r].days \/ days = Days
          BY <3>3 DEF QuotedDays
        <4> QED BY <4>1, <2>1, Numbers DEF Handlers
      <3> QED BY <3>1, <3>2, <3>3
    <2>3. until \in Nat
      BY <2>1, <2>2 DEF PeriodStart
    <2>4. req' = [req EXCEPT ![r] = [req[r] EXCEPT !.pc = "act_commit", !.days = days, !.until = until]]
      BY <1>2, <2>1 DEF ActQuote, TypeOK, Handlers
    <2>5. [req[r] EXCEPT !.pc = "act_commit", !.days = days, !.until = until] \in Handlers
      BY <2>1, <2>2, <2>3 DEF Handlers, Steps
    <2>6. req' \in [Requests -> Handlers]
      BY <2>4, <2>5, ContinueTyped DEF Continue, TypeOK
    <2> QED BY <2>6 DEF ActQuote, TypeOK, history
  <1> QED BY <1>1, <1>2

LEMMA ReferenceTyped ==
  ASSUME TypeOK, NEW r \in Requests
  PROVE  /\ ActRef(r) \in References
         /\ WalletRef(r) \in References
         /\ RenewRef(r) \in References
  <1>1. DayOf(req[r].until) \in Nat /\ req[r].days \in Nat
    BY HalvesAreWhole DEF TypeOK, Handlers, DayOf
  <1> QED BY <1>1 DEF ActRef, WalletRef, RenewRef, Ref, References

LEMMA ActSoldTyped ==
  ASSUME TypeOK, NEW r \in Requests, ActSold(r), UNCHANGED <<clock, history>>
  PROVE  TypeOK'
  <1> DEFINE bill == [status |-> "UNPAID", key |-> req[r].key, due |-> req[r].until, payment |-> TRUE]
             next == [Blank EXCEPT !.pc = "act_activate", !.bill = Len(bills) + 1]
  <1>1. req[r] \in Handlers
    BY DEF TypeOK
  <1>2. bill \in Bills /\ bills \in Seq(Bills) /\ bills' = Append(bills, bill)
    BY <1>1 DEF Handlers, Bills, TypeOK, ActSold
  <1>3. bills' \in Seq(Bills) /\ Len(bills) + 1 \in Nat
    BY <1>2
  <1>4. next \in Handlers
    <2>1. \A n \in Nat : [Blank EXCEPT !.pc = "act_activate", !.bill = n] \in Handlers
      BY BlankTyped DEF Handlers, Steps
    <2> QED BY <1>3, <2>1
  <1>5. req' \in [Requests -> Handlers]
    BY <1>4, ContinueTyped DEF ActSold, TypeOK
  <1>6. rows' \in Seq(References)
    BY ReferenceTyped DEF ActSold, TypeOK
  <1>7. sub' \in Subscribers
    <2> DEFINE balance == IF FromWallet(r) THEN sub.balance - req[r].days ELSE sub.balance
    <2>1. balance \in Int /\ req[r].until \in Nat
      BY <1>1 DEF TypeOK, Subscribers, Handlers
    <2>2. sub' = [sub EXCEPT !.expiry = req[r].until, !.balance = balance]
      BY DEF ActSold
    <2>3. sub \in Subscribers
      BY DEF TypeOK
    <2> HIDE DEF balance
    <2> QED BY <2>1, <2>2, <2>3, PeriodTyped
  <1>8. dealer' \in Int
    BY Numbers DEF ActSold, TypeOK
  <1>9. recent' \subseteq References
    BY ReferenceTyped DEF ActSold, TypeOK
  <1> QED BY <1>3, <1>5, <1>6, <1>7, <1>8, <1>9 DEF TypeOK, history

LEMMA ActCommitTyped ==
  ASSUME TypeOK, NEW r \in Requests, ActCommit(r)
  PROVE  TypeOK'
  <1>1. UNCHANGED <<clock, history>>
    BY DEF ActCommit
  <1>2. CASE ActRefused(r)
    BY <1>1, <1>2, FinishTyped DEF ActRefused, TypeOK, history
  <1>3. CASE ActUnpaid(r)
    <2>1. req' \in [Requests -> Handlers]
      BY <1>3, FinishTyped, GotoTyped DEF ActUnpaid, TypeOK, Steps
    <2> QED BY <1>1, <1>3, <2>1 DEF ActUnpaid, TypeOK, history
  <1>4. CASE ActRecovered(r)
    <2>1. [Blank EXCEPT !.pc = "act_activate"] \in Handlers
      BY BlankTyped DEF Handlers, Steps
    <2>2. req' \in [Requests -> Handlers]
      BY <1>4, <2>1, ContinueTyped DEF ActRecovered, TypeOK
    <2>3. sub' \in Subscribers
      BY <1>4 DEF ActRecovered, TypeOK, Subscribers, Handlers
    <2> QED BY <1>1, <1>4, <2>2, <2>3 DEF ActRecovered, TypeOK, history
  <1>5. CASE ActSold(r)
    BY <1>1, <1>5, ActSoldTyped
  <1> QED BY <1>2, <1>3, <1>4, <1>5 DEF ActCommit

LEMMA ActEndTyped ==
  ASSUME TypeOK, NEW r \in Requests, ActActivate(r) \/ ActFinish(r) \/ ActAbort(r)
  PROVE  TypeOK'
  <1>1. CASE ActActivate(r)
    <2>1. req' \in [Requests -> Handlers]
      BY <1>1, GotoTyped DEF ActActivate, TypeOK, Steps
    <2> QED BY <1>1, <2>1, StatusTyped DEF ActActivate, TypeOK, history
  <1>2. CASE ActFinish(r)
    <2> DEFINE paid == IF req[r].bill > 0 THEN {req[r].bill} ELSE Newest
    <2>1. bills' = [i \in DOMAIN bills |->
                      IF i \in paid THEN [bills[i] EXCEPT !.status = "PAID"] ELSE bills[i]]
      BY <1>2 DEF ActFinish
    <2>2. \A i \in DOMAIN bills : bills[i] \in Bills
      BY DEF TypeOK
    <2>3. \A b \in Bills : [b EXCEPT !.status = "PAID"] \in Bills
      BY DEF Bills
    <2>4. bills' \in [DOMAIN bills -> Bills]
      BY <2>1, <2>2, <2>3
    <2>5. bills' \in Seq(Bills)
      BY <2>4, UpdatedIsSeq DEF TypeOK
    <2> QED BY <1>2, <2>5, FinishTyped DEF ActFinish, TypeOK, history
  <1>3. CASE ActAbort(r)
    BY <1>3, StatusTyped, FinishTyped DEF ActAbort, TypeOK, history
  <1> QED BY <1>1, <1>2, <1>3

LEMMA RenewDaysTyped ==
  ASSUME TypeOK, NEW r \in Requests
  PROVE  RenewDays(r) \in Nat
  <1>1. Lapsed(r) \in Int
    BY DEF Lapsed, DaysUntil, TypeOK, Handlers
  <1> QED BY <1>1, Numbers DEF RenewDays

LEMMA RenewTyped ==
  ASSUME TypeOK, NEW r \in Requests, Renew(r)
  PROVE  TypeOK'
  <1>1. CASE RenewList(r)
    <2>1. [Blank EXCEPT !.pc = "renew_settle", !.until = sub.expiry, !.balance = sub.balance]
            \in Handlers
      BY BlankTyped DEF Handlers, Steps, TypeOK, Subscribers
    <2>2. req' \in [Requests -> Handlers]
      BY <1>1, <2>1, ContinueTyped DEF RenewList, TypeOK
    <2> QED BY <1>1, <2>2 DEF RenewList, TypeOK, history
  <1>2. CASE RenewSettle(r)
    <2> DEFINE ref  == Ref("dealer", "AUTO", DayOf(clock))
               next == [Blank EXCEPT !.pc = "renew_deduct", !.days = RenewDays(r), !.until = clock]
    <2>1. clock \in Nat /\ RenewDays(r) \in Nat /\ DayOf(clock) \in Nat
      <3>1. clock \in Nat
        BY Numbers DEF TypeOK
      <3> QED BY <3>1, RenewDaysTyped, HalvesAreWhole DEF DayOf
    <2>2. next \in Handlers
      BY <2>1, BlankTyped DEF Handlers, Steps
    <2>3. ref \in References
      BY <2>1 DEF Ref, References
    <2>4. Finish(r) \/ Continue(r, next)
      BY <1>2 DEF RenewSettle
    <2>5. req' \in [Requests -> Handlers]
      BY <2>2, <2>4, ContinueTyped, FinishTyped DEF TypeOK
    <2>6. rows' \in Seq(References) /\ dealer' \in Int
      <3>1. rows' = rows \/ rows' = Append(rows, ref)
        BY <1>2 DEF RenewSettle
      <3>2. dealer' = dealer \/ dealer' = dealer - Cost
        BY <1>2 DEF RenewSettle
      <3>3. rows' \in Seq(References)
        BY <3>1, <2>3 DEF TypeOK
      <3>4. dealer' \in Int
        BY <3>2, Numbers DEF TypeOK
      <3> QED BY <3>3, <3>4
    <2> QED BY <1>2, <2>5, <2>6 DEF RenewSettle, TypeOK, history
  <1>3. CASE RenewDeduct(r)
    <2>1. req' \in [Requests -> Handlers]
      BY <1>3, FinishTyped, GotoTyped DEF RenewDeduct, TypeOK, Steps
    <2>2. rows' \in Seq(References)
      <3>1. rows' = rows \/ rows' = Append(rows, RenewRef(r))
        BY <1>3 DEF RenewDeduct
      <3> QED BY <3>1, ReferenceTyped DEF TypeOK
    <2>3. sub' \in Subscribers
      <3>1. sub.balance - req[r].days \in Int /\ sub \in Subscribers
        BY DEF TypeOK, Subscribers, Handlers
      <3>2. sub' = sub \/ sub' = [sub EXCEPT !.balance = sub.balance - req[r].days]
        BY <1>3 DEF RenewDeduct
      <3> QED BY <3>1, <3>2, BalanceTyped
    <2>4. DayOf(clock) \in Nat /\ DayOf(req[r].until) \in Nat
      <3>1. clock \in Nat /\ req[r].until \in Nat
        BY Numbers DEF TypeOK, Handlers
      <3> QED BY <3>1, HalvesAreWhole DEF DayOf
    <2>5. charged' \subseteq Nat /\ skipped' \subseteq Nat
      BY <1>3, <2>4 DEF RenewDeduct, TypeOK
    <2> QED BY <1>3, <2>1, <2>2, <2>3, <2>5 DEF RenewDeduct, TypeOK
  <1>4. CASE RenewExtend(r)
    <2>1. req' \in [Requests -> Handlers]
      BY <1>4, GotoTyped DEF RenewExtend, TypeOK, Steps
    <2>2. sub' \in Subscribers
      <3>1. clock + 2 * req[r].days \in Nat /\ sub \in Subscribers
        BY Numbers DEF TypeOK, Handlers
      <3>2. sub' = [sub EXCEPT !.expiry = clock + 2 * req[r].days]
        BY <1>4 DEF RenewExtend
      <3> QED BY <3>1, <3>2, ExpiryTyped
    <2> QED BY <1>4, <2>1, <2>2 DEF RenewExtend, TypeOK
  <1>5. CASE RenewActivate(r)
    BY <1>5, StatusTyped, FinishTyped DEF RenewActivate, TypeOK, history
  <1> QED BY <1>1, <1>2, <1>3, <1>4, <1>5 DEF Renew

LEMMA OtherTyped ==
  ASSUME TypeOK, NEW r \in Requests,
         \/ SuspendList(r) \/ SuspendWrite(r) \/ BillList(r) \/ BillWrite(r)
         \/ Deactivate(r) \/ Crash(r)
  PROVE  TypeOK'
  <1>1. CASE SuspendList(r)
    <2>1. [Blank EXCEPT !.pc = "suspend_write"] \in Handlers
      BY BlankTyped DEF Handlers, Steps
    <2> QED BY <1>1, <2>1, ContinueTyped DEF SuspendList, TypeOK, history
  <1>2. CASE SuspendWrite(r)
    BY <1>2, StatusTyped, FinishTyped DEF SuspendWrite, TypeOK, history
  <1>3. CASE BillList(r)
    <2>1. [Blank EXCEPT !.pc = "bill_write", !.until = sub.expiry] \in Handlers
      BY BlankTyped DEF Handlers, Steps, TypeOK, Subscribers
    <2> QED BY <1>3, <2>1, ContinueTyped DEF BillList, TypeOK, history
  <1>4. CASE BillWrite(r)
    <2>1. [status |-> "UNPAID", key |-> NoKey, due |-> req[r].until, payment |-> FALSE] \in Bills
      BY DEF Bills, TypeOK, Handlers
    <2>2. bills' \in Seq(Bills)
      BY <1>4, <2>1 DEF BillWrite, TypeOK
    <2> QED BY <1>4, <2>2, FinishTyped DEF BillWrite, TypeOK, history
  <1>5. CASE Deactivate(r)
    BY <1>5, StatusTyped, FinishTyped DEF Deactivate, TypeOK, history
  <1>6. CASE Crash(r)
    BY <1>6, FinishTyped DEF Crash, TypeOK, history
  <1> QED BY <1>1, <1>2, <1>3, <1>4, <1>5, <1>6

LEMMA StepTyped == TypeOK /\ [Next]_vars => TypeOK'
  <1> SUFFICES ASSUME TypeOK, [Next]_vars PROVE TypeOK'
    OBVIOUS
  <1>1. CASE Tick
    BY <1>1, Numbers DEF Tick, TypeOK, history
  <1>2. CASE SettlementsAge
    BY <1>2 DEF SettlementsAge, TypeOK, history
  <1>3. ASSUME NEW amount \in 1 .. MaxWallet, TopUp(amount) PROVE TypeOK'
    <2>1. sub' \in Subscribers
      <3>1. sub.balance + amount \in Int /\ sub \in Subscribers
        BY Numbers DEF TypeOK, Subscribers
      <3>2. sub' = [sub EXCEPT !.balance = sub.balance + amount]
        BY <1>3 DEF TopUp
      <3> QED BY <3>1, <3>2, BalanceTyped
    <2> QED BY <1>3, <2>1 DEF TopUp, TypeOK, history
  <1>4. ASSUME NEW r \in Requests, Activate(r) PROVE TypeOK'
    BY <1>4, ActStartTyped, ActQuoteTyped, ActCommitTyped, ActEndTyped DEF Activate
  <1>5. CASE UNCHANGED vars
    BY <1>5 DEF TypeOK, vars, history
  <1> QED BY <1>1, <1>2, <1>3, <1>4, <1>5, RenewTyped, OtherTyped DEF Next

\* The rows, wallets, clocks and handlers keep their types.
THEOREM TypeCorrect == Spec => []TypeOK
  BY InitTyped, StepTyped, PTL DEF Spec

-----------------------------------------------------------------------------
(* A reference is charged once.                                            *)

LEMMA OtherRows ==
  ASSUME [Next]_vars,
         \A r \in Requests : ~ActCommit(r) /\ ~RenewSettle(r) /\ ~RenewDeduct(r)
  PROVE  rows' = rows
  <1>1. ASSUME NEW r \in Requests, Activate(r) PROVE rows' = rows
    BY <1>1 DEF Activate, ActStart, ActQuote, ActActivate, ActFinish, ActAbort
  <1>2. ASSUME NEW r \in Requests, Renew(r) PROVE rows' = rows
    BY <1>2 DEF Renew, RenewList, RenewExtend, RenewActivate
  <1>3. ASSUME NEW r \in Requests,
               \/ SuspendList(r) \/ SuspendWrite(r) \/ BillList(r) \/ BillWrite(r)
               \/ Deactivate(r) \/ Crash(r)
        PROVE  rows' = rows
    BY <1>3 DEF SuspendList, SuspendWrite, BillList, BillWrite, Deactivate, Crash
  <1>4. ASSUME Tick \/ SettlementsAge \/ \E amount \in 1 .. MaxWallet : TopUp(amount)
        PROVE  rows' = rows
    BY <1>4 DEF Tick, SettlementsAge, TopUp
  <1> QED BY <1>1, <1>2, <1>3, <1>4 DEF Next, vars

LEMMA SoldRows ==
  ASSUME TypeOK, OneRowPerReference, NEW r \in Requests, ActSold(r)
  PROVE  OneRowPerReference'
  <1> DEFINE dealt == IF Cost > 0 THEN Append(rows, ActRef(r)) ELSE rows
  <1>1. rows \in Seq(References) /\ Distinct(rows)
    BY DEF TypeOK, OneRowPerReference, Distinct
  <1>2. ~ \E i \in DOMAIN rows : rows[i] = ActRef(r)
    BY DEF ActSold, Carried
  <1>3. dealt \in Seq(References) /\ Distinct(dealt)
    BY <1>1, <1>2, ReferenceTyped, AppendDistinct
  <1>4. rows' = IF FromWallet(r) THEN Append(dealt, WalletRef(r)) ELSE dealt
    <2> DEFINE dealerRow   == IF Cost > 0 THEN <<ActRef(r)>> ELSE << >>
               customerRow == IF FromWallet(r) THEN <<WalletRef(r)>> ELSE << >>
    <2>1. rows' = rows \o dealerRow \o customerRow
      BY DEF ActSold
    <2>2. \A s \in Seq(References) : s \o << >> = s
      OBVIOUS
    <2>3. \A s \in Seq(References), e \in References : s \o <<e>> = Append(s, e)
      OBVIOUS
    <2>4. rows \o dealerRow = dealt
      BY <1>1, <2>2, <2>3, ReferenceTyped
    <2>5. dealt \o customerRow = IF FromWallet(r) THEN Append(dealt, WalletRef(r)) ELSE dealt
      BY <1>3, <2>2, <2>3, ReferenceTyped
    <2> QED BY <2>1, <2>4, <2>5
  <1>5. CASE FromWallet(r)
    <2>1. ~ \E i \in DOMAIN rows : rows[i] = WalletRef(r)
      BY <1>5 DEF ActSold, Carried
    <2>2. WalletRef(r) # ActRef(r)
      BY DEF WalletRef, ActRef, Ref
    <2>3. ASSUME NEW i \in DOMAIN Append(rows, ActRef(r)), Append(rows, ActRef(r))[i] = WalletRef(r)
          PROVE  FALSE
      <3>1. i \in 1 .. Len(rows) + 1 /\ DOMAIN rows = 1 .. Len(rows) /\ Len(rows) \in Nat
        BY <1>1
      <3>2. CASE i = Len(rows) + 1
        BY <3>2, <1>1, <2>2, <2>3
      <3>3. CASE i \in 1 .. Len(rows)
        BY <3>1, <3>3, <1>1, <2>1, <2>3
      <3> QED BY <3>1, <3>2, <3>3
    <2>4. ~ \E i \in DOMAIN dealt : dealt[i] = WalletRef(r)
      BY <2>1, <2>3
    <2>5. Distinct(Append(dealt, WalletRef(r)))
      BY <1>3, <2>4, ReferenceTyped, AppendDistinct
    <2> QED BY <1>4, <1>5, <2>5 DEF OneRowPerReference, Distinct
  <1>6. CASE ~FromWallet(r)
    BY <1>3, <1>4, <1>6 DEF OneRowPerReference, Distinct
  <1> QED BY <1>5, <1>6

LEMMA StepRows == TypeOK /\ OneRowPerReference /\ [Next]_vars => OneRowPerReference'
  <1> SUFFICES ASSUME TypeOK, OneRowPerReference, [Next]_vars PROVE OneRowPerReference'
    OBVIOUS
  <1>1. rows \in Seq(References) /\ Distinct(rows)
    BY DEF TypeOK, OneRowPerReference, Distinct
  <1>2. ASSUME NEW r \in Requests, ActCommit(r) PROVE OneRowPerReference'
    <2>1. CASE ActSold(r)
      BY <2>1, SoldRows
    <2>2. CASE ActRefused(r) \/ ActUnpaid(r) \/ ActRecovered(r)
      BY <2>2 DEF ActRefused, ActUnpaid, ActRecovered, OneRowPerReference
    <2> QED BY <1>2, <2>1, <2>2 DEF ActCommit
  <1>3. ASSUME NEW r \in Requests, RenewSettle(r) PROVE OneRowPerReference'
    <2> DEFINE ref == Ref("dealer", "AUTO", DayOf(clock))
    <2>1. rows' = rows \/ (rows' = Append(rows, ref) /\ ~Carried(ref))
      BY <1>3 DEF RenewSettle
    <2>2. ref \in References
      <3>1. DayOf(clock) \in Nat
        BY Numbers, HalvesAreWhole DEF TypeOK, DayOf
      <3> QED BY <3>1 DEF Ref, References
    <2>3. ASSUME rows' = Append(rows, ref), ~Carried(ref) PROVE Distinct(rows')
      BY <1>1, <2>2, <2>3, AppendDistinct DEF Carried
    <2> QED BY <1>1, <2>1, <2>3 DEF OneRowPerReference, Distinct
  <1>4. ASSUME NEW r \in Requests, RenewDeduct(r) PROVE OneRowPerReference'
    <2>1. rows' = rows \/ (rows' = Append(rows, RenewRef(r)) /\ ~Carried(RenewRef(r)))
      BY <1>4 DEF RenewDeduct
    <2>2. ASSUME rows' = Append(rows, RenewRef(r)), ~Carried(RenewRef(r)) PROVE Distinct(rows')
      BY <1>1, <2>2, ReferenceTyped, AppendDistinct DEF Carried
    <2> QED BY <1>1, <2>1, <2>2 DEF OneRowPerReference, Distinct
  <1>5. CASE \A r \in Requests : ~ActCommit(r) /\ ~RenewSettle(r) /\ ~RenewDeduct(r)
    BY <1>5, OtherRows DEF OneRowPerReference
  <1> QED BY <1>2, <1>3, <1>4, <1>5

\* Whatever clicks, nightly jobs and deaths cross, no charge is written twice under its reference.
THEOREM ChargedOnce == Spec => []OneRowPerReference
  <1>1. Init => OneRowPerReference
    BY DEF Init, OneRowPerReference
  <1> QED BY <1>1, StepRows, TypeCorrect, PTL DEF Spec

-----------------------------------------------------------------------------
(* Nobody is overdrawn.                                                    *)

LEMMA OtherWallets ==
  ASSUME TypeOK, [Next]_vars,
         \A r \in Requests : ~ActCommit(r) /\ ~RenewSettle(r) /\ ~RenewDeduct(r),
         \A amount \in 1 .. MaxWallet : ~TopUp(amount)
  PROVE  dealer' = dealer /\ sub'.balance = sub.balance
  <1>1. ASSUME NEW r \in Requests, Activate(r) PROVE dealer' = dealer /\ sub'.balance = sub.balance
    BY <1>1 DEF Activate, ActStart, ActQuote, ActActivate, ActFinish, ActAbort, TypeOK, Subscribers
  <1>2. ASSUME NEW r \in Requests, Renew(r) PROVE dealer' = dealer /\ sub'.balance = sub.balance
    BY <1>2 DEF Renew, RenewList, RenewExtend, RenewActivate, TypeOK, Subscribers
  <1>3. ASSUME NEW r \in Requests,
               \/ SuspendList(r) \/ SuspendWrite(r) \/ BillList(r) \/ BillWrite(r)
               \/ Deactivate(r) \/ Crash(r)
        PROVE  dealer' = dealer /\ sub'.balance = sub.balance
    BY <1>3 DEF SuspendList, SuspendWrite, BillList, BillWrite, Deactivate, Crash, TypeOK, Subscribers
  <1>4. ASSUME Tick \/ SettlementsAge PROVE dealer' = dealer /\ sub'.balance = sub.balance
    BY <1>4 DEF Tick, SettlementsAge
  <1> QED BY <1>1, <1>2, <1>3, <1>4 DEF Next, vars

LEMMA StepWallets == TypeOK /\ NoOverdraft /\ [Next]_vars => NoOverdraft'
  <1> SUFFICES ASSUME TypeOK, NoOverdraft, [Next]_vars PROVE NoOverdraft'
    OBVIOUS
  <1>1. dealer \in Int /\ sub \in Subscribers /\ sub.balance \in Int
    BY DEF TypeOK, Subscribers
  <1>2. ASSUME NEW r \in Requests, ActCommit(r) PROVE NoOverdraft'
    <2>1. CASE ActSold(r)
      <3> DEFINE balance == IF FromWallet(r) THEN sub.balance - req[r].days ELSE sub.balance
      <3>1. req[r].days \in Nat
        BY DEF TypeOK, Handlers
      <3>2. balance >= 0
        BY <2>1, <3>1, <1>1 DEF ActSold, NoOverdraft
      <3>3. sub' = [sub EXCEPT !.expiry = req[r].until, !.balance = balance]
        BY <2>1 DEF ActSold
      <3>4. sub'.balance = balance
        BY <3>3, <1>1 DEF Subscribers
      <3>5. dealer' >= -CreditLimit
        BY <2>1, <1>1, Numbers DEF ActSold, DealerShort, NoOverdraft
      <3> QED BY <3>2, <3>4, <3>5 DEF NoOverdraft
    <2>2. CASE ActRefused(r) \/ ActUnpaid(r)
      BY <2>2 DEF ActRefused, ActUnpaid, NoOverdraft
    <2>3. CASE ActRecovered(r)
      BY <2>3, <1>1 DEF ActRecovered, NoOverdraft, Subscribers
    <2> QED BY <1>2, <2>1, <2>2, <2>3 DEF ActCommit
  <1>3. ASSUME NEW r \in Requests, RenewSettle(r) PROVE NoOverdraft'
    <2>1. dealer' = dealer \/ (dealer' = dealer - Cost /\ ~DealerShort(Cost))
      BY <1>3 DEF RenewSettle
    <2>2. dealer' >= -CreditLimit
      BY <2>1, <1>1, Numbers DEF DealerShort, NoOverdraft
    <2> QED BY <1>3, <2>2 DEF RenewSettle, NoOverdraft
  <1>4. ASSUME NEW r \in Requests, RenewDeduct(r) PROVE NoOverdraft'
    <2>1. dealer' = dealer /\ req[r].days \in Nat
      BY <1>4 DEF RenewDeduct, TypeOK, Handlers
    <2>2. \/ sub' = sub
          \/ sub' = [sub EXCEPT !.balance = sub.balance - req[r].days] /\ sub.balance >= req[r].days
      BY <1>4, <2>1, <1>1 DEF RenewDeduct
    <2>3. sub'.balance >= 0
      <3>1. CASE sub' = sub
        BY <3>1 DEF NoOverdraft
      <3>2. CASE sub' = [sub EXCEPT !.balance = sub.balance - req[r].days]
                   /\ sub.balance >= req[r].days
        <4>1. sub'.balance = sub.balance - req[r].days
          BY <3>2, <1>1 DEF Subscribers
        <4> QED BY <4>1, <3>2, <2>1, <1>1
      <3> QED BY <2>2, <3>1, <3>2
    <2> QED BY <2>1, <2>3 DEF NoOverdraft
  <1>5. ASSUME NEW amount \in 1 .. MaxWallet, TopUp(amount) PROVE NoOverdraft'
    <2>1. sub'.balance = sub.balance + amount
      BY <1>5, <1>1 DEF TopUp, Subscribers
    <2> QED BY <1>5, <1>1, <2>1 DEF TopUp, NoOverdraft
  <1>6. CASE /\ \A r \in Requests : ~ActCommit(r) /\ ~RenewSettle(r) /\ ~RenewDeduct(r)
             /\ \A amount \in 1 .. MaxWallet : ~TopUp(amount)
    BY <1>6, OtherWallets DEF NoOverdraft
  <1> QED BY <1>2, <1>3, <1>4, <1>5, <1>6

\* Prepaid: the dealer never passes the credit limit and no wallet goes below zero.
THEOREM Prepaid == Spec => []NoOverdraft
  <1>1. Init => NoOverdraft
    BY Numbers DEF Init, NoOverdraft, NewSubscriber
  <1> QED BY <1>1, StepWallets, TypeCorrect, PTL DEF Spec

-----------------------------------------------------------------------------
(* A click sells once.                                                     *)

LEMMA OtherBills ==
  ASSUME [Next]_vars,
         \A r \in Requests : ~ActCommit(r) /\ ~ActFinish(r) /\ ~BillWrite(r)
  PROVE  bills' = bills
  <1>1. ASSUME NEW r \in Requests, Activate(r) PROVE bills' = bills
    BY <1>1 DEF Activate, ActStart, ActQuote, ActActivate, ActAbort
  <1>2. ASSUME NEW r \in Requests, Renew(r) PROVE bills' = bills
    BY <1>2 DEF Renew, RenewList, RenewSettle, RenewDeduct, RenewExtend, RenewActivate
  <1>3. ASSUME NEW r \in Requests,
               \/ SuspendList(r) \/ SuspendWrite(r) \/ BillList(r) \/ Deactivate(r) \/ Crash(r)
        PROVE  bills' = bills
    BY <1>3 DEF SuspendList, SuspendWrite, BillList, Deactivate, Crash
  <1>4. ASSUME Tick \/ SettlementsAge \/ \E amount \in 1 .. MaxWallet : TopUp(amount)
        PROVE  bills' = bills
    BY <1>4 DEF Tick, SettlementsAge, TopUp
  <1> QED BY <1>1, <1>2, <1>3, <1>4 DEF Next, vars

\* A further bill keeps the keys apart if its key is new or if it has none.
LEMMA FreshKey ==
  ASSUME bills \in Seq(Bills), OneClickOneSale, NEW bill \in Bills,
         bill.key = NoKey \/ \A i \in DOMAIN bills : bills[i].key # bill.key,
         bills' = Append(bills, bill)
  PROVE  OneClickOneSale'
  <1>1. DOMAIN bills' = 1 .. Len(bills) + 1 /\ DOMAIN bills = 1 .. Len(bills) /\ Len(bills) \in Nat
    OBVIOUS
  <1>2. \A i \in 1 .. Len(bills) : bills'[i] = bills[i]
    OBVIOUS
  <1>3. bills'[Len(bills) + 1] = bill
    OBVIOUS
  <1> QED BY <1>1, <1>2, <1>3 DEF OneClickOneSale

LEMMA StepClicks == TypeOK /\ OneClickOneSale /\ [Next]_vars => OneClickOneSale'
  <1> SUFFICES ASSUME TypeOK, OneClickOneSale, [Next]_vars PROVE OneClickOneSale'
    OBVIOUS
  <1>1. bills \in Seq(Bills)
    BY DEF TypeOK
  <1>2. ASSUME NEW r \in Requests, ActCommit(r) PROVE OneClickOneSale'
    <2>1. CASE ActSold(r)
      <3> DEFINE bill == [status |-> "UNPAID", key |-> req[r].key, due |-> req[r].until,
                          payment |-> TRUE]
      <3>1. bill \in Bills
        BY DEF Bills, TypeOK, Handlers
      <3>2. bill.key = NoKey \/ \A i \in DOMAIN bills : bills[i].key # bill.key
        BY <2>1 DEF ActSold, Replayed
      <3>3. bills' = Append(bills, bill)
        BY <2>1 DEF ActSold
      <3> HIDE DEF bill
      <3> QED BY <1>1, <3>1, <3>2, <3>3, FreshKey
    <2>2. CASE ActRefused(r) \/ ActUnpaid(r) \/ ActRecovered(r)
      BY <2>2 DEF ActRefused, ActUnpaid, ActRecovered, OneClickOneSale
    <2> QED BY <1>2, <2>1, <2>2 DEF ActCommit
  <1>3. ASSUME NEW r \in Requests, ActFinish(r) PROVE OneClickOneSale'
    <2> DEFINE paid == IF req[r].bill > 0 THEN {req[r].bill} ELSE Newest
    <2>1. bills' = [i \in DOMAIN bills |->
                      IF i \in paid THEN [bills[i] EXCEPT !.status = "PAID"] ELSE bills[i]]
      BY <1>3 DEF ActFinish
    <2>2. \A b \in Bills : [b EXCEPT !.status = "PAID"].key = b.key
      BY DEF Bills
    <2>3. \A i \in DOMAIN bills : bills[i] \in Bills
      BY <1>1
    <2>4. DOMAIN bills' = DOMAIN bills /\ \A i \in DOMAIN bills : bills'[i].key = bills[i].key
      BY <2>1, <2>2, <2>3
    <2> QED BY <2>4 DEF OneClickOneSale
  <1>4. ASSUME NEW r \in Requests, BillWrite(r) PROVE OneClickOneSale'
    <2> DEFINE bill == [status |-> "UNPAID", key |-> NoKey, due |-> req[r].until, payment |-> FALSE]
    <2>1. bill \in Bills /\ bill.key = NoKey
      BY DEF Bills, TypeOK, Handlers
    <2>2. bills' = bills \/ bills' = Append(bills, bill)
      BY <1>4 DEF BillWrite
    <2>3. CASE bills' = bills
      BY <2>3 DEF OneClickOneSale
    <2>4. CASE bills' = Append(bills, bill)
      <3> HIDE DEF bill
      <3> QED BY <1>1, <2>1, <2>4, FreshKey
    <2> QED BY <2>2, <2>3, <2>4
  <1>5. CASE \A r \in Requests : ~ActCommit(r) /\ ~ActFinish(r) /\ ~BillWrite(r)
    BY <1>5, OtherBills DEF OneClickOneSale
  <1> QED BY <1>2, <1>3, <1>4, <1>5

\* However often a click is delivered, and whatever period each delivery computes, it sells once.
THEOREM ClickSellsOnce == Spec => []OneClickOneSale
  <1>1. Init => OneClickOneSale
    BY DEF Init, OneClickOneSale
  <1> QED BY <1>1, StepClicks, TypeCorrect, PTL DEF Spec

-----------------------------------------------------------------------------
(* Counting the entries of a ledger.                                       *)

\* The places of a sequence that hold an element of S.
Places(s, S) == {i \in DOMAIN s : s[i] \in S}

LEMMA PlacesCounted ==
  ASSUME NEW T, NEW s \in Seq(T), NEW S
  PROVE  IsFiniteSet(Places(s, S)) /\ Cardinality(Places(s, S)) \in Nat
  <1>1. Len(s) \in Nat /\ Places(s, S) \subseteq 1 .. Len(s)
    BY DEF Places
  <1>2. IsFiniteSet(1 .. Len(s))
    BY <1>1, FS_Interval
  <1>3. IsFiniteSet(Places(s, S))
    BY <1>1, <1>2, FS_Subset
  <1> QED BY <1>3, FS_CardinalityType

\* A further entry counts if it is of the kind that is counted, and changes no earlier one.
LEMMA AppendCounted ==
  ASSUME NEW T, NEW s \in Seq(T), NEW e \in T, NEW S
  PROVE  Cardinality(Places(Append(s, e), S)) =
           IF e \in S THEN Cardinality(Places(s, S)) + 1 ELSE Cardinality(Places(s, S))
  <1>1. /\ DOMAIN Append(s, e) = 1 .. Len(s) + 1
        /\ DOMAIN s = 1 .. Len(s)
        /\ Len(s) \in Nat
        /\ \A i \in 1 .. Len(s) : Append(s, e)[i] = s[i]
        /\ Append(s, e)[Len(s) + 1] = e
    OBVIOUS
  <1>2. Places(Append(s, e), S) =
          IF e \in S THEN Places(s, S) \cup {Len(s) + 1} ELSE Places(s, S)
    BY <1>1 DEF Places
  <1>3. Len(s) + 1 \notin Places(s, S)
    BY <1>1 DEF Places
  <1>4. Cardinality(Places(s, S) \cup {Len(s) + 1}) = Cardinality(Places(s, S)) + 1
    BY <1>3, PlacesCounted, FS_AddElement
  <1> QED BY <1>2, <1>4

\* The rows that one activation adds: the dealer's if he pays, the customer's if the wallet does.
LEMMA SaleAppends ==
  ASSUME TypeOK, NEW r \in Requests, ActSold(r)
  PROVE  \E dealt \in Seq(References) :
           /\ dealt = IF Cost > 0 THEN Append(rows, ActRef(r)) ELSE rows
           /\ rows' = IF FromWallet(r) THEN Append(dealt, WalletRef(r)) ELSE dealt
  <1> DEFINE dealt       == IF Cost > 0 THEN Append(rows, ActRef(r)) ELSE rows
             dealerRow   == IF Cost > 0 THEN <<ActRef(r)>> ELSE << >>
             customerRow == IF FromWallet(r) THEN <<WalletRef(r)>> ELSE << >>
  <1>1. rows \in Seq(References)
    BY DEF TypeOK
  <1>2. dealt \in Seq(References)
    BY <1>1, ReferenceTyped
  <1>3. rows' = rows \o dealerRow \o customerRow
    BY DEF ActSold
  <1>4. \A s \in Seq(References) : s \o << >> = s
    OBVIOUS
  <1>5. \A s \in Seq(References), e \in References : s \o <<e>> = Append(s, e)
    OBVIOUS
  <1>6. rows \o dealerRow = dealt
    BY <1>1, <1>4, <1>5, ReferenceTyped
  <1>7. dealt \o customerRow = IF FromWallet(r) THEN Append(dealt, WalletRef(r)) ELSE dealt
    BY <1>2, <1>4, <1>5, ReferenceTyped
  <1> QED BY <1>2, <1>3, <1>6, <1>7

-----------------------------------------------------------------------------
(* No free service.                                                        *)

NightlyRefs == {ref \in References : NightlyCharge(ref)}

\* The jobs that have charged the wallet and not yet moved the expiry.
Extending == {r \in Requests : At(r, "renew_extend")}

\* Every charge of the nightly job pays for one period, granted or about to be; a worker that
\* dies in between leaves a charge without a period, never the other way round.
NightlyInv ==
  /\ IsFiniteSet(Extending)
  /\ renewed + Cardinality(Extending) <= Cardinality(Places(rows, NightlyRefs))

LEMMA LeavesExtending ==
  ASSUME req \in [Requests -> Handlers], NEW r \in Requests, NEW h,
         h.pc # "renew_extend", Continue(r, h)
  PROVE  Extending' \subseteq Extending \ {r}
  BY DEF Continue, Extending, At

LEMMA FinishLeaves ==
  ASSUME req \in [Requests -> Handlers], NEW r \in Requests, Finish(r)
  PROVE  Extending' \subseteq Extending \ {r}
  <1>1. [Blank EXCEPT !.pc = "done"].pc # "renew_extend"
    BY DEF Blank
  <1> QED BY <1>1, LeavesExtending DEF Finish

LEMMA GotoLeaves ==
  ASSUME req \in [Requests -> Handlers], NEW r \in Requests, NEW step, step # "renew_extend",
         Goto(r, step)
  PROVE  Extending' \subseteq Extending \ {r}
  BY DEF Goto, Extending, At, Handlers

\* Only the deduction brings a job to the extension.
LEMMA OtherExtending ==
  ASSUME TypeOK, [Next]_vars, \A r \in Requests : ~RenewDeduct(r)
  PROVE  Extending' \subseteq Extending
  <1> USE DEF Blank
  <1>1. req \in [Requests -> Handlers]
    BY DEF TypeOK
  <1>2. ASSUME NEW r \in Requests, Activate(r) PROVE Extending' \subseteq Extending
    <2>1. CASE ActStart(r)
      BY <1>1, <2>1, LeavesExtending DEF ActStart
    <2>2. CASE ActQuote(r)
      BY <1>1, <2>2, FinishLeaves DEF ActQuote, Extending, At, Handlers
    <2>3. CASE ActCommit(r)
      BY <1>1, <2>3, FinishLeaves, GotoLeaves, LeavesExtending
         DEF ActCommit, ActRefused, ActUnpaid, ActRecovered, ActSold
    <2>4. CASE ActActivate(r) \/ ActFinish(r) \/ ActAbort(r)
      BY <1>1, <2>4, FinishLeaves, GotoLeaves DEF ActActivate, ActFinish, ActAbort
    <2> QED BY <1>2, <2>1, <2>2, <2>3, <2>4 DEF Activate
  <1>3. ASSUME NEW r \in Requests, Renew(r) PROVE Extending' \subseteq Extending
    <2>1. CASE RenewList(r)
      BY <1>1, <2>1, LeavesExtending DEF RenewList
    <2>2. CASE RenewSettle(r)
      BY <1>1, <2>2, FinishLeaves, LeavesExtending DEF RenewSettle
    <2>3. CASE RenewExtend(r) \/ RenewActivate(r)
      BY <1>1, <2>3, FinishLeaves, GotoLeaves DEF RenewExtend, RenewActivate
    <2> QED BY <1>3, <2>1, <2>2, <2>3 DEF Renew
  <1>4. ASSUME NEW r \in Requests,
               \/ SuspendList(r) \/ SuspendWrite(r) \/ BillList(r) \/ BillWrite(r)
               \/ Deactivate(r) \/ Crash(r)
        PROVE  Extending' \subseteq Extending
    BY <1>1, <1>4, FinishLeaves, LeavesExtending
       DEF SuspendList, SuspendWrite, BillList, BillWrite, Deactivate, Crash
  <1>5. ASSUME \/ Tick \/ SettlementsAge \/ \E amount \in 1 .. MaxWallet : TopUp(amount)
               \/ UNCHANGED vars
        PROVE  Extending' \subseteq Extending
    BY <1>5 DEF Tick, SettlementsAge, TopUp, vars, Extending, At
  <1> QED BY <1>2, <1>3, <1>4, <1>5 DEF Next

LEMMA OtherRenewed ==
  ASSUME [Next]_vars, \A r \in Requests : ~RenewExtend(r)
  PROVE  renewed' = renewed
  <1>1. ASSUME NEW r \in Requests, Activate(r) PROVE renewed' = renewed
    BY <1>1 DEF Activate, ActStart, ActQuote, ActCommit, ActActivate, ActFinish, ActAbort, history
  <1>2. ASSUME NEW r \in Requests, Renew(r) PROVE renewed' = renewed
    BY <1>2 DEF Renew, RenewList, RenewSettle, RenewDeduct, RenewActivate, history
  <1>3. ASSUME NEW r \in Requests,
               \/ SuspendList(r) \/ SuspendWrite(r) \/ BillList(r) \/ BillWrite(r)
               \/ Deactivate(r) \/ Crash(r)
        PROVE  renewed' = renewed
    BY <1>3 DEF SuspendList, SuspendWrite, BillList, BillWrite, Deactivate, Crash, history
  <1>4. ASSUME Tick \/ SettlementsAge \/ \E amount \in 1 .. MaxWallet : TopUp(amount)
        PROVE  renewed' = renewed
    BY <1>4 DEF Tick, SettlementsAge, TopUp, history
  <1> QED BY <1>1, <1>2, <1>3, <1>4 DEF Next, vars, history

\* No step takes a nightly charge back.
LEMMA NightlyRowsStay ==
  ASSUME TypeOK, [Next]_vars
  PROVE  Cardinality(Places(rows', NightlyRefs)) >= Cardinality(Places(rows, NightlyRefs))
  <1>1. \A s \in Seq(References), e \in References :
          Cardinality(Places(Append(s, e), NightlyRefs)) >= Cardinality(Places(s, NightlyRefs))
    <2> TAKE s \in Seq(References), e \in References
    <2>1. Cardinality(Places(s, NightlyRefs)) \in Nat
      BY PlacesCounted
    <2> QED BY <2>1, AppendCounted
  <1>2. rows \in Seq(References) /\ Cardinality(Places(rows, NightlyRefs)) \in Nat
    BY PlacesCounted DEF TypeOK
  <1>3. ASSUME NEW r \in Requests, ActSold(r)
        PROVE  Cardinality(Places(rows', NightlyRefs)) >= Cardinality(Places(rows, NightlyRefs))
    <2>1. PICK dealt \in Seq(References) :
            /\ dealt = IF Cost > 0 THEN Append(rows, ActRef(r)) ELSE rows
            /\ rows' = IF FromWallet(r) THEN Append(dealt, WalletRef(r)) ELSE dealt
      BY <1>3, SaleAppends
    <2>2. Cardinality(Places(dealt, NightlyRefs)) \in Nat /\ rows' \in Seq(References)
      <3>1. Cardinality(Places(dealt, NightlyRefs)) \in Nat
        BY PlacesCounted
      <3>2. WalletRef(r) \in References
        BY ReferenceTyped
      <3>3. rows' \in Seq(References)
        BY <2>1, <3>2
      <3> QED BY <3>1, <3>3
    <2>3. Cardinality(Places(rows', NightlyRefs)) \in Nat
      BY <2>2, PlacesCounted
    <2>4. Cardinality(Places(dealt, NightlyRefs)) >= Cardinality(Places(rows, NightlyRefs))
      <3>1. CASE dealt = rows
        BY <1>2, <3>1
      <3>2. CASE dealt = Append(rows, ActRef(r))
        <4>1. ActRef(r) \in References
          BY ReferenceTyped
        <4> QED BY <1>1, <1>2, <3>2, <4>1
      <3> QED BY <2>1, <3>1, <3>2
    <2>5. Cardinality(Places(rows', NightlyRefs)) >= Cardinality(Places(dealt, NightlyRefs))
      <3>1. CASE rows' = dealt
        BY <2>2, <3>1
      <3>2. CASE rows' = Append(dealt, WalletRef(r))
        <4>1. WalletRef(r) \in References
          BY ReferenceTyped
        <4> QED BY <1>1, <2>1, <3>2, <4>1
      <3> QED BY <2>1, <3>1, <3>2
    <2> QED BY <1>2, <2>2, <2>3, <2>4, <2>5
  <1>4. ASSUME NEW r \in Requests, ActCommit(r), ~ActSold(r)
        PROVE  rows' = rows
    BY <1>4 DEF ActCommit, ActRefused, ActUnpaid, ActRecovered
  <1>5. ASSUME NEW r \in Requests, RenewSettle(r) \/ RenewDeduct(r)
        PROVE  Cardinality(Places(rows', NightlyRefs)) >= Cardinality(Places(rows, NightlyRefs))
    <2> DEFINE ref == Ref("dealer", "AUTO", DayOf(clock))
    <2>1. rows' = rows \/ rows' = Append(rows, ref) \/ rows' = Append(rows, RenewRef(r))
      BY <1>5 DEF RenewSettle, RenewDeduct
    <2>2. ref \in References
      <3>1. DayOf(clock) \in Nat
        BY Numbers, HalvesAreWhole DEF TypeOK, DayOf
      <3> QED BY <3>1 DEF Ref, References
    <2>3. RenewRef(r) \in References
      BY ReferenceTyped
    <2> HIDE DEF ref
    <2>4. CASE rows' = rows
      BY <1>2, <2>4
    <2>5. CASE rows' = Append(rows, ref)
      BY <1>1, <1>2, <2>2, <2>5
    <2>6. CASE rows' = Append(rows, RenewRef(r))
      BY <1>1, <1>2, <2>3, <2>6
    <2> QED BY <2>1, <2>4, <2>5, <2>6
  <1> QED BY <1>2, <1>3, <1>4, <1>5, OtherRows

LEMMA StepNightly == TypeOK /\ NightlyInv /\ [Next]_vars => NightlyInv'
  <1> SUFFICES ASSUME TypeOK, NightlyInv, [Next]_vars PROVE NightlyInv'
    OBVIOUS
  <1>1. /\ rows \in Seq(References) /\ renewed \in Nat /\ req \in [Requests -> Handlers]
        /\ IsFiniteSet(Extending)
        /\ renewed + Cardinality(Extending) <= Cardinality(Places(rows, NightlyRefs))
    BY DEF TypeOK, NightlyInv
  <1>2. Cardinality(Extending) \in Nat /\ Cardinality(Places(rows, NightlyRefs)) \in Nat
    BY <1>1, PlacesCounted, FS_CardinalityType
  <1>3. rows' \in Seq(References) /\ Cardinality(Places(rows', NightlyRefs)) \in Nat
    <2>1. rows' \in Seq(References)
      BY StepTyped DEF TypeOK
    <2> QED BY <2>1, PlacesCounted
  <1>4. ASSUME Extending' \subseteq Extending
        PROVE  IsFiniteSet(Extending') /\ Cardinality(Extending') \in Nat
               /\ Cardinality(Extending') <= Cardinality(Extending)
    BY <1>1, <1>4, FS_Subset, FS_CardinalityType
  <1>5. ASSUME NEW r \in Requests, RenewDeduct(r) PROVE NightlyInv'
    <2>1. renewed' = renewed
      BY <1>5 DEF RenewDeduct
    <2>2. CASE Finish(r)
      <3>1. Extending' \subseteq Extending
        BY <1>1, <2>2, FinishLeaves
      <3> QED BY <1>1, <1>2, <1>3, <1>4, <2>1, <3>1, NightlyRowsStay DEF NightlyInv
    <2>3. CASE rows' = Append(rows, RenewRef(r)) /\ Goto(r, "renew_extend")
      <3>1. RenewRef(r) \in NightlyRefs
        <4>1. RenewRef(r) \in References
          BY ReferenceTyped
        <4>2. NightlyCharge(RenewRef(r))
          BY DEF NightlyCharge, RenewRef, Ref
        <4> QED BY <4>1, <4>2 DEF NightlyRefs
      <3>2. Cardinality(Places(rows', NightlyRefs)) = Cardinality(Places(rows, NightlyRefs)) + 1
        <4>1. RenewRef(r) \in References
          BY ReferenceTyped
        <4> QED BY <1>1, <2>3, <3>1, <4>1, AppendCounted
      <3>3. r \notin Extending /\ Extending' = Extending \cup {r}
        BY <1>1, <1>5, <2>3 DEF RenewDeduct, Extending, At, Goto, Handlers
      <3>4. IsFiniteSet(Extending') /\ Cardinality(Extending') = Cardinality(Extending) + 1
        BY <1>1, <3>3, FS_AddElement
      <3> QED BY <1>1, <1>2, <2>1, <3>2, <3>4 DEF NightlyInv
    <2> QED BY <1>5, <2>2, <2>3 DEF RenewDeduct
  <1>6. ASSUME NEW r \in Requests, RenewExtend(r) PROVE NightlyInv'
    <2>1. renewed' = renewed + 1 /\ rows' = rows
      BY <1>6 DEF RenewExtend
    <2>2. r \in Extending /\ Extending' = Extending \ {r}
      BY <1>1, <1>6 DEF RenewExtend, Extending, At, Goto, Handlers
    <2>3. IsFiniteSet(Extending') /\ Cardinality(Extending') = Cardinality(Extending) - 1
      BY <1>1, <2>2, FS_RemoveElement
    <2> QED BY <1>1, <1>2, <2>1, <2>3 DEF NightlyInv
  <1>7. CASE \A r \in Requests : ~RenewDeduct(r) /\ ~RenewExtend(r)
    BY <1>1, <1>2, <1>3, <1>4, <1>7, OtherExtending, OtherRenewed, NightlyRowsStay DEF NightlyInv
  <1> QED BY <1>5, <1>6, <1>7

\* However nightly jobs, repeated jobs and deaths cross, no period is granted without a charge.
THEOREM NightlyServiceIsPaid == Spec => []RenewalsArePaid
  <1>1. Init => NightlyInv
    <2> SUFFICES ASSUME Init PROVE NightlyInv
      OBVIOUS
    <2>1. Extending = {}
      BY DEF Init, Extending, At, Blank
    <2>2. rows \in Seq(References) /\ renewed = 0
      BY DEF Init
    <2>3. IsFiniteSet(Extending) /\ Cardinality(Extending) = 0
      BY <2>1, FS_EmptySet
    <2>4. Cardinality(Places(rows, NightlyRefs)) \in Nat
      BY <2>2, PlacesCounted
    <2> QED BY <2>2, <2>3, <2>4 DEF NightlyInv
  <1>2. TypeOK /\ NightlyInv => RenewalsArePaid
    <2> SUFFICES ASSUME TypeOK, NightlyInv PROVE RenewalsArePaid
      OBVIOUS
    <2>1. Places(rows, NightlyRefs) = {i \in DOMAIN rows : NightlyCharge(rows[i])}
      BY DEF TypeOK, Places, NightlyRefs
    <2>2. Cardinality(Extending) \in Nat /\ Cardinality(Places(rows, NightlyRefs)) \in Nat
      BY FS_CardinalityType, PlacesCounted DEF NightlyInv, TypeOK
    <2> QED BY <2>1, <2>2 DEF RenewalsArePaid, NightlyInv, TypeOK
  <1> QED BY <1>1, <1>2, StepNightly, TypeCorrect, PTL DEF Spec

-----------------------------------------------------------------------------
(* Sold or refused as a whole.                                             *)

ActivationRefs == {ref \in References : ref.wallet = "dealer" /\ ref.kind = "ACT"}

SaleBills == {bill \in Bills : bill.payment}

\* As many activation charges on the dealer's wallet as invoices with a payment.
SettledInv ==
  Cost > 0 => Cardinality(Places(rows, ActivationRefs)) = Cardinality(Places(bills, SaleBills))

LEMMA SettledMeans == TypeOK => (SettledInv <=> SalesAreSettled)
  <1> SUFFICES ASSUME TypeOK PROVE SettledInv <=> SalesAreSettled
    OBVIOUS
  <1>1. Places(rows, ActivationRefs)
          = {i \in DOMAIN rows : rows[i].wallet = "dealer" /\ rows[i].kind = "ACT"}
    BY DEF TypeOK, Places, ActivationRefs
  <1>2. Places(bills, SaleBills) = {i \in DOMAIN bills : bills[i].payment}
    BY DEF TypeOK, Places, SaleBills
  <1> QED BY <1>1, <1>2 DEF SettledInv, SalesAreSettled

\* A sale adds one charge to the dealer's wallet and one invoice with a payment.
LEMMA SaleSettles ==
  ASSUME TypeOK, SettledInv, NEW r \in Requests, ActSold(r)
  PROVE  SettledInv'
  <1> SUFFICES ASSUME Cost > 0
               PROVE  Cardinality(Places(rows', ActivationRefs))
                        = Cardinality(Places(bills', SaleBills))
    BY DEF SettledInv
  <1>1. rows \in Seq(References) /\ bills \in Seq(Bills)
    BY DEF TypeOK
  <1>2. ActRef(r) \in ActivationRefs /\ ActRef(r) \in References
    <2>1. ActRef(r) \in References
      BY ReferenceTyped
    <2> QED BY <2>1 DEF ActivationRefs, ActRef, Ref
  <1>3. WalletRef(r) \notin ActivationRefs /\ WalletRef(r) \in References
    <2>1. WalletRef(r) \in References
      BY ReferenceTyped
    <2> QED BY <2>1 DEF ActivationRefs, WalletRef, Ref
  <1>4. Cardinality(Places(rows', ActivationRefs)) = Cardinality(Places(rows, ActivationRefs)) + 1
    <2>1. PICK dealt \in Seq(References) :
            /\ dealt = IF Cost > 0 THEN Append(rows, ActRef(r)) ELSE rows
            /\ rows' = IF FromWallet(r) THEN Append(dealt, WalletRef(r)) ELSE dealt
      BY SaleAppends
    <2>2. Cardinality(Places(dealt, ActivationRefs)) = Cardinality(Places(rows, ActivationRefs)) + 1
      <3>1. dealt = Append(rows, ActRef(r))
        BY <2>1
      <3> QED BY <1>1, <1>2, <3>1, AppendCounted
    <2>3. Cardinality(Places(Append(dealt, WalletRef(r)), ActivationRefs))
            = Cardinality(Places(dealt, ActivationRefs))
      BY <1>3, AppendCounted
    <2> QED BY <2>1, <2>2, <2>3
  <1>5. Cardinality(Places(bills', SaleBills)) = Cardinality(Places(bills, SaleBills)) + 1
    <2> DEFINE bill == [status |-> "UNPAID", key |-> req[r].key, due |-> req[r].until,
                        payment |-> TRUE]
    <2>1. bill \in SaleBills /\ bill \in Bills
      BY DEF Bills, SaleBills, TypeOK, Handlers
    <2>2. bills' = Append(bills, bill)
      BY DEF ActSold
    <2> HIDE DEF bill
    <2> QED BY <1>1, <2>1, <2>2, AppendCounted
  <1> QED BY <1>4, <1>5 DEF SettledInv

\* Elsewhere the rows that are written are not activation charges...
LEMMA OtherActivations ==
  ASSUME TypeOK, [Next]_vars, \A r \in Requests : ~ActSold(r)
  PROVE  Cardinality(Places(rows', ActivationRefs)) = Cardinality(Places(rows, ActivationRefs))
  <1>1. rows \in Seq(References)
    BY DEF TypeOK
  <1>2. ASSUME NEW r \in Requests, ActCommit(r)
        PROVE  rows' = rows
    BY <1>2 DEF ActCommit, ActRefused, ActUnpaid, ActRecovered
  <1>3. ASSUME NEW r \in Requests, RenewSettle(r) \/ RenewDeduct(r)
        PROVE  Cardinality(Places(rows', ActivationRefs)) = Cardinality(Places(rows, ActivationRefs))
    <2> DEFINE ref == Ref("dealer", "AUTO", DayOf(clock))
    <2>1. rows' = rows \/ rows' = Append(rows, ref) \/ rows' = Append(rows, RenewRef(r))
      BY <1>3 DEF RenewSettle, RenewDeduct
    <2>2. ref \in References
      <3>1. DayOf(clock) \in Nat
        BY Numbers, HalvesAreWhole DEF TypeOK, DayOf
      <3> QED BY <3>1 DEF Ref, References
    <2>3. RenewRef(r) \in References
      BY ReferenceTyped
    <2>4. ref \notin ActivationRefs /\ RenewRef(r) \notin ActivationRefs
      BY DEF ActivationRefs, RenewRef, Ref
    <2> HIDE DEF ref
    <2>5. Cardinality(Places(Append(rows, ref), ActivationRefs))
            = Cardinality(Places(rows, ActivationRefs))
      BY <1>1, <2>2, <2>4, AppendCounted
    <2>6. Cardinality(Places(Append(rows, RenewRef(r)), ActivationRefs))
            = Cardinality(Places(rows, ActivationRefs))
      BY <1>1, <2>3, <2>4, AppendCounted
    <2> QED BY <2>1, <2>5, <2>6
  <1> QED BY <1>2, <1>3, OtherRows

\* ... and the invoices that are written have no payment; marking one paid gives it none.
LEMMA OtherSales ==
  ASSUME TypeOK, [Next]_vars, \A r \in Requests : ~ActSold(r)
  PROVE  Cardinality(Places(bills', SaleBills)) = Cardinality(Places(bills, SaleBills))
  <1>1. bills \in Seq(Bills)
    BY DEF TypeOK
  <1>2. ASSUME NEW r \in Requests, ActCommit(r)
        PROVE  bills' = bills
    BY <1>2 DEF ActCommit, ActRefused, ActUnpaid, ActRecovered
  <1>3. ASSUME NEW r \in Requests, ActFinish(r)
        PROVE  Places(bills', SaleBills) = Places(bills, SaleBills)
    <2> DEFINE paid == IF req[r].bill > 0 THEN {req[r].bill} ELSE Newest
    <2>1. bills' = [i \in DOMAIN bills |->
                      IF i \in paid THEN [bills[i] EXCEPT !.status = "PAID"] ELSE bills[i]]
      BY <1>3 DEF ActFinish
    <2>2. \A b \in Bills : [b EXCEPT !.status = "PAID"] \in SaleBills <=> b \in SaleBills
      BY DEF Bills, SaleBills
    <2>3. \A i \in DOMAIN bills : bills[i] \in Bills
      BY <1>1
    <2>4. DOMAIN bills' = DOMAIN bills
          /\ \A i \in DOMAIN bills : bills'[i] \in SaleBills <=> bills[i] \in SaleBills
      BY <2>1, <2>2, <2>3
    <2> QED BY <2>4 DEF Places
  <1>4. ASSUME NEW r \in Requests, BillWrite(r)
        PROVE  Cardinality(Places(bills', SaleBills)) = Cardinality(Places(bills, SaleBills))
    <2> DEFINE bill == [status |-> "UNPAID", key |-> NoKey, due |-> req[r].until, payment |-> FALSE]
    <2>1. bill \in Bills /\ bill \notin SaleBills
      BY DEF Bills, SaleBills, TypeOK, Handlers
    <2>2. bills' = bills \/ bills' = Append(bills, bill)
      BY <1>4 DEF BillWrite
    <2> HIDE DEF bill
    <2>3. Cardinality(Places(Append(bills, bill), SaleBills)) = Cardinality(Places(bills, SaleBills))
      BY <1>1, <2>1, AppendCounted
    <2> QED BY <2>2, <2>3
  <1> QED BY <1>2, <1>3, <1>4, OtherBills

\* Across races, recoveries and deaths: one charge on the dealer for one paid activation.
THEOREM SoldOrRefused == Spec => []SalesAreSettled
  <1>1. Init => SettledInv
    <2> SUFFICES ASSUME Init PROVE SettledInv
      OBVIOUS
    <2>1. Places(rows, ActivationRefs) = {} /\ Places(bills, SaleBills) = {}
      BY DEF Init, Places
    <2> QED BY <2>1 DEF SettledInv
  <1>2. TypeOK /\ SettledInv /\ [Next]_vars => SettledInv'
    <2> SUFFICES ASSUME TypeOK, SettledInv, [Next]_vars PROVE SettledInv'
      OBVIOUS
    <2>1. ASSUME NEW r \in Requests, ActSold(r) PROVE SettledInv'
      BY <2>1, SaleSettles
    <2>2. CASE \A r \in Requests : ~ActSold(r)
      BY <2>2, OtherActivations, OtherSales DEF SettledInv
    <2> QED BY <2>1, <2>2
  <1> QED BY <1>1, <1>2, SettledMeans, TypeCorrect, PTL DEF Spec

=============================================================================
