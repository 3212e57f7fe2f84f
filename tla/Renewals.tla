------------------------------ MODULE Renewals ------------------------------
(***************************************************************************)
(* One customer's service periods and the two wallets that pay for them:   *)
(* SubscribersService.activateRenewal (staff, with double clicks, retries  *)
(* and crashes), BillingService's nightly jobs (renewal from the wallet,   *)
(* suspension, invoices ahead of the expiry), the dealer's settlement      *)
(* (ResellerPricingService.settleActivation) and the customer's            *)
(* (AccountingService.deductBalance).                                      *)
(*                                                                         *)
(* Time is counted in half days, so that "the same time yesterday", "a     *)
(* little earlier" and "a little later" differ.  A package costs the       *)
(* customer one unit a day.  The RADIUS credentials and isBlocked, which   *)
(* every path sets right after Subscriber.status, are left out, and so are *)
(* the paid invoice and payment of an automatic renewal: nothing here      *)
(* reads them.                                                             *)
(***************************************************************************)
EXTENDS Integers, Sequences, FiniteSets

CONSTANTS
  Requests,     \* identities of the handlers that may run; each runs once
  ClientKeys,   \* idempotency keys that a browser may mint
  NoKey,        \* a request without one
  Offered,      \* what staff choose in the activation dialog: a mode and the days of DAYS
  Days,         \* Package.duration
  Cost,         \* the dealer's buy price; 0 if the company owns the customer
  CreditLimit,  \* User.creditLimit of the dealer
  Grace,        \* BILLING_GRACE_DAYS
  Lead,         \* INVOICE_LEAD_DAYS
  MaxTime,      \* bound: half days
  MaxWallet,    \* bound: the customer's wallet
  DealerStart,  \* the dealer's wallet at the start
  Ops,          \* the operations this instance lets run
  MaxInFlight   \* how many handlers may be between two awaits at once

Modes == {"FULL", "DAYS", "BALANCE", "NONE"}

ASSUME RenewalsAssumption ==
  /\ Offered \subseteq Modes \X (1 .. Days)
  /\ Days \in Nat \ {0}
  /\ {Cost, CreditLimit, Grace, Lead, MaxTime, MaxWallet, DealerStart, MaxInFlight} \subseteq Nat
  /\ NoKey \notin ClientKeys

VARIABLES
  clock,     \* half days since the start
  sub,       \* Subscriber and ServiceSettings
  dealer,    \* User.balance of the owner
  rows,      \* UserBalanceTransaction and BalanceTransaction rows: their references
  recent,    \* references settled in the last 15 seconds
  bills,     \* Invoice rows, oldest first
  renewed,   \* history: periods granted by the nightly job
  charged,   \* history: days on which the job charged the wallet
  skipped,   \* history: days for which the job said "already charged"
  req        \* the handlers

history == <<renewed, charged, skipped>>

vars == <<clock, sub, dealer, rows, recent, bills, history, req>>

-----------------------------------------------------------------------------
(* References: `ACT:package:day` and `AUTO:package:day` on the dealer's    *)
(* wallet; on the customer's `Auto-renewal package [day]` and `Pro-rated   *)
(* renewal (n/duration days)`, and `ACT:...` again.                        *)

DayOf(time) == time \div 2

References == [wallet : {"dealer", "customer"}, kind : {"ACT", "AUTO", "PRORATED"}, n : Nat]

Ref(wallet, kind, n) == [wallet |-> wallet, kind |-> kind, n |-> n]

\* Mutant: only what was settled a moment ago counts as charged.
CarriedJustNow(ref) == ref \in recent

Carried(ref) == \E i \in DOMAIN rows : rows[i] = ref

DaysUntil(ticks) == (ticks + 1) \div 2       \* Math.ceil

Steps == {"act_quote", "act_commit", "act_activate", "act_finish", "act_abort",
          "renew_settle", "renew_deduct", "renew_extend", "renew_activate",
          "suspend_write", "bill_write"}

Subscribers == [status : {"INACTIVE", "ACTIVE", "EXPIRED"}, expiry : Nat, balance : Int]

Bills == [status : {"UNPAID", "PAID"}, key : ClientKeys \cup {NoKey}, due : Nat, payment : BOOLEAN]

Handlers == [pc : Steps \cup {"idle", "done"}, key : ClientKeys \cup {NoKey},
             mode : Modes, active : BOOLEAN, days : Nat, balance : Int, until : Nat, bill : Nat]

NewSubscriber == [status |-> "INACTIVE", expiry |-> 0, balance |-> 0]

Blank == [pc |-> "idle", key |-> NoKey, mode |-> "NONE", active |-> FALSE, days |-> 0,
          balance |-> 0, until |-> 0, bill |-> 0]

Running(r) == req[r].pc \in Steps

InFlight == {r \in Requests : Running(r)}

CanStart(r, op) ==
  /\ op \in Ops
  /\ req[r].pc = "idle"
  /\ Cardinality(InFlight) < MaxInFlight

At(r, step) == req[r].pc = step

Goto(r, step) == req' = [req EXCEPT ![r].pc = step]

\* At the next await, remembering nothing but the given variables.
Continue(r, locals) == req' = [req EXCEPT ![r] = locals]

Finish(r) == Continue(r, [Blank EXCEPT !.pc = "done"])

Init ==
  /\ clock = 0
  /\ sub = NewSubscriber
  /\ dealer = DealerStart
  /\ rows = << >>
  /\ recent = {}
  /\ bills = << >>
  /\ renewed = 0
  /\ charged = {}
  /\ skipped = {}
  /\ req = [r \in Requests |-> Blank]

-----------------------------------------------------------------------------
(* activateRenewal.                                                        *)

\* Staff click; an ACTIVE customer is renewed only with force.
ActStart(r) ==
  /\ CanStart(r, "activate")
  /\ \E choice \in Offered, key \in ClientKeys \cup {NoKey}, force \in BOOLEAN :
       /\ sub.status = "ACTIVE" => force
       /\ Continue(r, [Blank EXCEPT !.pc = "act_quote", !.mode = choice[1], !.days = choice[2],
                                    !.key = key, !.active = (sub.status = "ACTIVE")])
  /\ UNCHANGED <<clock, sub, dealer, rows, recent, bills, history>>

\* A first activation runs from now, a renewal from the expiry that lies ahead.
PeriodStart(first) == IF first \/ sub.expiry < clock THEN clock ELSE sub.expiry

\* The days sold: without a mode, what is left of a period that was already paid.
QuotedDays(r, first) ==
  CASE req[r].mode = "BALANCE" -> sub.balance
    [] req[r].mode = "NONE" /\ first /\ sub.expiry - clock > 2 -> DaysUntil(sub.expiry - clock)
    [] req[r].mode = "DAYS" -> req[r].days
    [] OTHER -> Days

\* RenewalService.quote reads the subscriber again; a wallet that buys nothing, or more than
\* one period, is refused.
ActQuote(r) ==
  /\ At(r, "act_quote")
  /\ LET first == ~req[r].active
         days  == QuotedDays(r, first)
     IN IF req[r].mode = "BALANCE" /\ days \notin 1 .. Days + 1
        THEN Finish(r)
        ELSE req' = [req EXCEPT ![r].pc = "act_commit", ![r].days = days,
                       ![r].until = PeriodStart(first) + 2 * days]
  /\ UNCHANGED <<clock, sub, dealer, rows, recent, bills, history>>

ActRef(r) == Ref("dealer", "ACT", DayOf(req[r].until))

WalletRef(r) == Ref("customer", "ACT", DayOf(req[r].until))

\* Mutant: neither the query nor the unique index knows the key.
ReplayedNever(r) == FALSE

\* This click was recorded before (the query, or the unique index).
Replayed(r) == req[r].key # NoKey /\ \E i \in DOMAIN bills : bills[i].key = req[r].key

\* Its period was settled before: a double click, or a customer who has it already...
Duplicate(r) == Carried(ActRef(r)) /\ (ActRef(r) \in recent \/ req[r].active)

\* ... or a charge whose activation is held to have died half way.
HalfDone(r) == Carried(ActRef(r)) /\ ~Duplicate(r)

\* Mutant: the price is not part of the check.
DealerShortBefore(need) == dealer < -CreditLimit

DealerShort(need) == dealer < need - CreditLimit

FromWallet(r) == req[r].mode = "BALANCE" /\ req[r].days > 0

ActRefused(r) ==
  /\ \/ Replayed(r)
     \/ Duplicate(r)
     \/ /\ ~HalfDone(r) /\ ~DealerShort(Cost)
        /\ FromWallet(r) /\ Carried(WalletRef(r))
  /\ Finish(r)
  /\ UNCHANGED <<sub, dealer, rows, recent, bills>>

\* A charge that fails rolls back; then abortActivationUnpaid.
ActUnpaid(r) ==
  /\ ~Replayed(r) /\ ~Carried(ActRef(r))
  /\ \/ Cost > 0 /\ DealerShort(Cost)
     \/ FromWallet(r) /\ ~Carried(WalletRef(r)) /\ sub.balance < req[r].days
  /\ IF ~req[r].active THEN Goto(r, "act_abort") ELSE Finish(r)
  /\ UNCHANGED <<sub, dealer, rows, recent, bills>>

\* Mutant: a recovery writes an invoice and a payment of its own.
ActRecoveredBilled(r) ==
  /\ ~Replayed(r) /\ HalfDone(r)
  /\ sub' = [sub EXCEPT !.expiry = req[r].until]
  /\ bills' = Append(bills, [status |-> "UNPAID", key |-> req[r].key, due |-> req[r].until,
                             payment |-> TRUE])
  /\ Continue(r, [Blank EXCEPT !.pc = "act_activate", !.bill = Len(bills) + 1])
  /\ UNCHANGED <<dealer, rows, recent>>

\* Recovery: the period is written again, nobody is charged, no invoice is made.
ActRecovered(r) ==
  /\ ~Replayed(r) /\ HalfDone(r)
  /\ sub' = [sub EXCEPT !.expiry = req[r].until]
  /\ Continue(r, [Blank EXCEPT !.pc = "act_activate"])
  /\ UNCHANGED <<dealer, rows, recent, bills>>

\* Period, charges, invoice and payment commit together.
ActSold(r) ==
  /\ ~Replayed(r) /\ ~Carried(ActRef(r))
  /\ Cost > 0 => ~DealerShort(Cost)
  /\ FromWallet(r) => ~Carried(WalletRef(r)) /\ sub.balance >= req[r].days
  /\ sub' = [sub EXCEPT !.expiry = req[r].until,
                        !.balance = IF FromWallet(r) THEN @ - req[r].days ELSE @]
  /\ dealer' = dealer - Cost
  /\ rows' = rows \o (IF Cost > 0 THEN <<ActRef(r)>> ELSE << >>)
                  \o (IF FromWallet(r) THEN <<WalletRef(r)>> ELSE << >>)
  /\ recent' = IF Cost > 0 THEN recent \cup {ActRef(r)} ELSE recent
  /\ bills' = Append(bills, [status |-> "UNPAID", key |-> req[r].key, due |-> req[r].until,
                             payment |-> TRUE])
  /\ Continue(r, [Blank EXCEPT !.pc = "act_activate", !.bill = Len(bills) + 1])

\* One transaction; its first update locks the Subscriber row until it commits.
ActCommit(r) ==
  /\ At(r, "act_commit")
  /\ ActRefused(r) \/ ActUnpaid(r) \/ ActRecovered(r) \/ ActSold(r)
  /\ UNCHANGED <<clock, history>>

ActActivate(r) ==
  /\ At(r, "act_activate")
  /\ sub' = [sub EXCEPT !.status = "ACTIVE"]
  /\ Goto(r, "act_finish")
  /\ UNCHANGED <<clock, dealer, rows, recent, bills, history>>

\* The newest unpaid invoice of the customer.
Newest == {i \in DOMAIN bills : /\ bills[i].status = "UNPAID"
                                /\ \A j \in DOMAIN bills : j > i => bills[j].status # "UNPAID"}

\* The sale's own invoice is marked paid; a recovery marks the newest unpaid one.
ActFinish(r) ==
  /\ At(r, "act_finish")
  /\ LET paid == IF req[r].bill > 0 THEN {req[r].bill} ELSE Newest
     IN bills' = [i \in DOMAIN bills |->
                    IF i \in paid THEN [bills[i] EXCEPT !.status = "PAID"] ELSE bills[i]]
  /\ Finish(r)
  /\ UNCHANGED <<clock, sub, dealer, rows, recent, history>>

\* abortActivationUnpaid of what was read as a first activation.
ActAbort(r) ==
  /\ At(r, "act_abort")
  /\ sub' = [sub EXCEPT !.status = "INACTIVE"]
  /\ Finish(r)
  /\ UNCHANGED <<clock, dealer, rows, recent, bills, history>>

Activate(r) == \/ ActStart(r) \/ ActQuote(r) \/ ActCommit(r)
               \/ ActActivate(r) \/ ActFinish(r) \/ ActAbort(r)

-----------------------------------------------------------------------------
(* runAutoRenewal: the candidates are read once; the loop works on that    *)
(* reading: until is the candidate's expiry, then the day of the charge.   *)

RenewList(r) ==
  /\ CanStart(r, "renew")
  /\ sub.status \in {"ACTIVE", "EXPIRED"}
  /\ sub.balance > 0
  /\ sub.expiry <= clock
  /\ Continue(r, [Blank EXCEPT !.pc = "renew_settle", !.until = sub.expiry,
                               !.balance = sub.balance])
  /\ UNCHANGED <<clock, sub, dealer, rows, recent, bills, history>>

Lapsed(r) == DaysUntil(clock - req[r].until)

\* The days that the job sells: the rest of the period, if part of one has lapsed.
RenewDays(r) == IF Lapsed(r) \in 1 .. Days - 1 THEN Days - Lapsed(r) ELSE Days

\* The dealer is charged first, in a transaction of its own, unless this day is charged.
RenewSettle(r) ==
  /\ At(r, "renew_settle")
  /\ LET ref == Ref("dealer", "AUTO", DayOf(clock))
     IN IF req[r].balance < RenewDays(r) \/ (Cost > 0 /\ ~Carried(ref) /\ DealerShort(Cost))
        THEN Finish(r) /\ UNCHANGED <<dealer, rows>>
        ELSE /\ Continue(r, [Blank EXCEPT !.pc = "renew_deduct", !.days = RenewDays(r),
                                          !.until = clock])
             /\ IF Cost > 0 /\ ~Carried(ref)
                THEN dealer' = dealer - Cost /\ rows' = Append(rows, ref)
                ELSE UNCHANGED <<dealer, rows>>
  /\ UNCHANGED <<clock, sub, recent, bills, history>>

\* The note that doubles as the reference of the wallet charge.
RenewRef(r) == IF req[r].days < Days THEN Ref("customer", "PRORATED", req[r].days)
               ELSE Ref("customer", "AUTO", DayOf(req[r].until))

\* Mutant: the answer of deductBalance is not looked at.
RenewDeductGoesOn(r) ==
  /\ At(r, "renew_deduct")
  /\ IF Carried(RenewRef(r)) \/ sub.balance < req[r].days
     THEN IF Carried(RenewRef(r))
          THEN Goto(r, "renew_extend") /\ UNCHANGED <<sub, rows, charged>>
          ELSE Finish(r) /\ UNCHANGED <<sub, rows, charged>>
     ELSE /\ sub' = [sub EXCEPT !.balance = @ - req[r].days]
          /\ rows' = Append(rows, RenewRef(r))
          /\ charged' = charged \cup {DayOf(clock)}
          /\ Goto(r, "renew_extend")
  /\ UNCHANGED <<clock, dealer, recent, bills, renewed, skipped>>

\* deductBalance: under the row lock, once per reference, and never below zero.
RenewDeduct(r) ==
  /\ At(r, "renew_deduct")
  /\ IF Carried(RenewRef(r)) \/ sub.balance < req[r].days
     THEN /\ skipped' = IF Carried(RenewRef(r)) THEN skipped \cup {DayOf(req[r].until)} ELSE skipped
          /\ Finish(r)
          /\ UNCHANGED <<sub, rows, charged>>
     ELSE /\ sub' = [sub EXCEPT !.balance = @ - req[r].days]
          /\ rows' = Append(rows, RenewRef(r))
          /\ charged' = charged \cup {DayOf(clock)}
          /\ Goto(r, "renew_extend")
          /\ UNCHANGED skipped
  /\ UNCHANGED <<clock, dealer, recent, bills, renewed>>

RenewExtend(r) ==
  /\ At(r, "renew_extend")
  /\ sub' = [sub EXCEPT !.expiry = clock + 2 * req[r].days]
  /\ renewed' = renewed + 1
  /\ Goto(r, "renew_activate")
  /\ UNCHANGED <<clock, dealer, rows, recent, bills, charged, skipped>>

RenewActivate(r) ==
  /\ At(r, "renew_activate")
  /\ sub' = [sub EXCEPT !.status = "ACTIVE"]
  /\ Finish(r)
  /\ UNCHANGED <<clock, dealer, rows, recent, bills, history>>

Renew(r) == \/ RenewList(r) \/ RenewSettle(r) \/ RenewDeduct(r)
            \/ RenewExtend(r) \/ RenewActivate(r)

-----------------------------------------------------------------------------
(* runSuspension, runAutoInvoice, deactivateAndRelease, topUpBalance.      *)

SuspendList(r) ==
  /\ CanStart(r, "suspend")
  /\ sub.status = "ACTIVE"
  /\ sub.expiry < clock - 2 * Grace
  /\ Continue(r, [Blank EXCEPT !.pc = "suspend_write"])
  /\ UNCHANGED <<clock, sub, dealer, rows, recent, bills, history>>

\* Mutant: the status of a manual suspension.
SuspendWriteManual(r) ==
  /\ At(r, "suspend_write")
  /\ sub' = [sub EXCEPT !.status = "SUSPENDED"]
  /\ Finish(r)
  /\ UNCHANGED <<clock, dealer, rows, recent, bills, history>>

SuspendWrite(r) ==
  /\ At(r, "suspend_write")
  /\ sub' = [sub EXCEPT !.status = "EXPIRED"]
  /\ Finish(r)
  /\ UNCHANGED <<clock, dealer, rows, recent, bills, history>>

BillList(r) ==
  /\ CanStart(r, "bill")
  /\ sub.status = "ACTIVE"
  /\ sub.expiry <= clock + 2 * Lead
  /\ Continue(r, [Blank EXCEPT !.pc = "bill_write", !.until = sub.expiry])
  /\ UNCHANGED <<clock, sub, dealer, rows, recent, bills, history>>

\* An invoice for the next period, unless one is open for it.
BillWrite(r) ==
  /\ At(r, "bill_write")
  /\ LET expiry == req[r].until
         open   == \E i \in DOMAIN bills : bills[i].status = "UNPAID" /\ bills[i].due >= expiry
     IN bills' = IF open THEN bills
                 ELSE Append(bills, [status |-> "UNPAID", key |-> NoKey, due |-> expiry,
                                     payment |-> FALSE])
  /\ Finish(r)
  /\ UNCHANGED <<clock, sub, dealer, rows, recent, history>>

Deactivate(r) ==
  /\ CanStart(r, "deactivate")
  /\ sub' = [sub EXCEPT !.status = "INACTIVE"]
  /\ Finish(r)
  /\ UNCHANGED <<clock, dealer, rows, recent, bills, history>>

TopUp(amount) ==
  /\ sub.balance + amount <= MaxWallet
  /\ sub' = [sub EXCEPT !.balance = @ + amount]
  /\ UNCHANGED <<clock, dealer, rows, recent, bills, history, req>>

-----------------------------------------------------------------------------
(* The environment: time, and the death of a worker.                       *)

\* A handler takes seconds; with "midnight" it may run across the end of a half day.
Tick ==
  /\ clock < MaxTime
  /\ InFlight = {} \/ "midnight" \in Ops
  /\ clock' = clock + 1
  /\ UNCHANGED <<sub, dealer, rows, recent, bills, history, req>>

\* Fifteen seconds pass since the settlements.
SettlementsAge ==
  /\ recent # {}
  /\ recent' = {}
  /\ UNCHANGED <<clock, sub, dealer, rows, bills, history, req>>

Crash(r) ==
  /\ "crash" \in Ops
  /\ Running(r)
  /\ Finish(r)
  /\ UNCHANGED <<clock, sub, dealer, rows, recent, bills, history>>

Next ==
  \/ Tick \/ SettlementsAge
  \/ \E amount \in 1 .. MaxWallet : TopUp(amount)
  \/ \E r \in Requests :
       \/ Activate(r) \/ Renew(r) \/ SuspendList(r) \/ SuspendWrite(r)
       \/ BillList(r) \/ BillWrite(r) \/ Deactivate(r) \/ Crash(r)

Spec == Init /\ [][Next]_vars

-----------------------------------------------------------------------------

\* The rows and the handlers' variables stay in their domains.
TypeOK ==
  /\ clock \in 0 .. MaxTime
  /\ sub \in Subscribers
  /\ dealer \in Int
  /\ rows \in Seq(References)
  /\ recent \subseteq References
  /\ bills \in Seq(Bills)
  /\ renewed \in Nat
  /\ charged \subseteq Nat
  /\ skipped \subseteq Nat
  /\ req \in [Requests -> Handlers]

\* "The same click can never charge twice": one browser key makes one sale, also when the
\* repeated request computes another period because the first one already moved the expiry.
OneClickOneSale ==
  \A i, j \in DOMAIN bills : bills[i].key = bills[j].key /\ bills[i].key # NoKey => i = j

\* A reference is charged once, whichever of activation, recovery, nightly job and repeated
\* job wrote it; the unique indexes of ensureMoneyConstraints are never what stops it.
OneRowPerReference == \A i, j \in DOMAIN rows : rows[i] = rows[j] => i = j

\* Prepaid: however sales and renewals cross, the dealer stays within the credit limit and
\* the customer's wallet is never overdrawn.
NoOverdraft == dealer >= -CreditLimit /\ sub.balance >= 0

NightlyCharge(ref) == ref.wallet = "customer" /\ ref.kind # "ACT"

\* No free service: the nightly job grants no more periods than it took from the wallet.
RenewalsArePaid == renewed <= Cardinality({i \in DOMAIN rows : NightlyCharge(rows[i])})

\* An activation is either sold or refused as a whole: every sale has charged the dealer once,
\* and every activation charge stands for a sale, across recoveries, races and deaths.
SalesAreSettled ==
  Cost > 0 => Cardinality({i \in DOMAIN rows : rows[i].wallet = "dealer" /\ rows[i].kind = "ACT"})
                = Cardinality({i \in DOMAIN bills : bills[i].payment})

\* "If the charge was already taken for this period the renewal must stop here": on a day for
\* which the job says so, it has charged the wallet.
SkippedWasCharged == skipped \subseteq charged

\* A recovery completes "the original invoice (the real record of the money already taken)":
\* an invoice that is marked paid has a payment.
PaidBillsHavePayments == \A i \in DOMAIN bills : bills[i].status = "PAID" => bills[i].payment

=============================================================================
