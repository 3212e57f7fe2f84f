--------------------------- MODULE OnlinePayments ---------------------------
(***************************************************************************)
(* Online payment of an invoice while cashiers work on it.  The panel has  *)
(* two settlement paths: GatewayService (table GatewayTransaction, one     *)
(* driver per provider, all ending in handleSuccess or handleFailure) and  *)
(* PaymentGatewaysService (table PaymentTransaction, one webhook).  Each   *)
(* delivery of a browser redirect, a server notification or a retry is a   *)
(* handler; nothing bounds how often the same result arrives but Requests. *)
(***************************************************************************)
EXTENDS PaymentEntry

CONSTANTS
  Gateway,      \* rows of table GatewayTransaction
  Hosted        \* rows of table PaymentTransaction

ASSUME OnlineAssumption ==
  /\ Gateway \cup Hosted \subseteq Refs
  /\ Gateway \cap Hosted = {}
  /\ "ONLINE" \in Methods
  /\ IsFiniteSet(Gateway)

VARIABLES
  txs,          \* both tables
  periods,      \* service periods from now to ServiceSettings.expiryDate
  held,         \* req[r]'s reading of the expiry date
  captured,     \* external: transactions whose money the provider holds
  credits,      \* history: payments recorded for each transaction
  reopened      \* history: how often a transaction left SUCCESS again

onlineVars == <<txs, periods, held, captured, credits, reopened>>

vars == <<invoice, payments, books, wallet, given, req, txs, periods, held, captured, credits, reopened>>

Txs == Gateway \cup Hosted

\* CANCELLED and FAILED differ in wording only; both stand here as FAILED.
TxRows == [status : {"none", "INITIATED", "PENDING", "FAILED", "SUCCESS"}, amount : Nat]

Init ==
  /\ InitBooks
  /\ txs      = [t \in Txs |-> [status |-> "none", amount |-> 0]]
  /\ periods  = -1      \* the customer's last period ended a period ago
  /\ held     = [r \in Requests |-> 0]
  /\ captured = {}
  /\ credits  = [t \in Txs |-> 0]
  /\ reopened = [t \in Txs |-> 0]

-----------------------------------------------------------------------------
(* GatewayService.initiate, PaymentGatewaysService.createCheckout.         *)

Initiate(t) ==
  /\ t \in Gateway
  /\ txs[t].status = "none"
  /\ invoice.status \notin {"PAID", "CANCELLED"}
  /\ txs' = [txs EXCEPT ![t] = [status |-> "INITIATED",
                                amount |-> IF invoice.due > 0 THEN invoice.due ELSE Total]]
  /\ UNCHANGED <<bookVars, periods, held, captured, credits, reopened>>

\* The amount of a hosted checkout comes from the client.
CreateCheckout(t) ==
  /\ t \in Hosted
  /\ txs[t].status = "none"
  /\ \E amount \in Amounts : txs' = [txs EXCEPT ![t] = [status |-> "PENDING", amount |-> amount]]
  /\ UNCHANGED <<bookVars, periods, held, captured, credits, reopened>>

\* The customer pays at the provider, also after the panel saw a cancel redirect.
CustomerPays(t) ==
  /\ txs[t].status # "none"
  /\ t \notin captured
  /\ captured' = captured \cup {t}
  /\ UNCHANGED <<bookVars, txs, periods, held, credits, reopened>>

-----------------------------------------------------------------------------
(* GatewayService.handleSuccess, reached with the provider's proof.        *)

\* findUnique: a transaction that already reads SUCCESS is a replay.
SettleStart(r) ==
  /\ CanStart(r, "settle")
  /\ \E t \in Gateway \cap captured :
       /\ txs[t].status # "SUCCESS"
       /\ req' = [req EXCEPT ![r] = [Blank EXCEPT !.pc = "settle_claim", !.op = "settle",
                    !.ref = t, !.amount = txs[t].amount, !.method = "ONLINE"]]
  /\ UNCHANGED <<invoice, payments, books, wallet, given, onlineVars>>

\* Mutant: the claim is an unconditional update.
SettleClaimBlind(r) ==
  /\ At(r, "settle_claim")
  /\ txs' = [txs EXCEPT ![req[r].ref].status = "SUCCESS"]
  /\ Goto(r, "record_guard")
  /\ UNCHANGED <<invoice, payments, books, wallet, given, periods, held, captured, credits, reopened>>

\* updateMany where status is not SUCCESS; the winner enters recordPayment without an actor.
SettleClaim(r) ==
  /\ At(r, "settle_claim")
  /\ LET t == req[r].ref
     IN IF txs[t].status # "SUCCESS"
        THEN txs' = [txs EXCEPT ![t].status = "SUCCESS"] /\ Goto(r, "record_guard")
        ELSE Finish(r) /\ UNCHANGED txs
  /\ UNCHANGED <<invoice, payments, books, wallet, given, periods, held, captured, credits, reopened>>

\* recordPayment's own steps, for a cashier or for the callback that won the claim.
RecordStep(r) ==
  /\ Record(r)
  /\ LET recorded == payments' # payments /\ req[r].op = "settle"
     IN credits' = IF recorded THEN [credits EXCEPT ![req[r].ref] = @ + 1] ELSE credits
  /\ UNCHANGED <<txs, periods, held, captured, reopened>>

\* extendServiceAfterPayment: from the expiry date if it lies ahead, else from now.
ExtendRead(r) ==
  /\ At(r, "extend_read")
  /\ held' = [held EXCEPT ![r] = Floor0(periods)]
  /\ Goto(r, "extend_write")
  /\ UNCHANGED <<invoice, payments, books, wallet, given, txs, periods, captured, credits, reopened>>

ExtendWrite(r) ==
  /\ At(r, "extend_write")
  /\ periods' = held[r] + 1
  /\ held' = [held EXCEPT ![r] = 0]
  /\ Finish(r)
  /\ UNCHANGED <<invoice, payments, books, wallet, given, txs, captured, credits, reopened>>

-----------------------------------------------------------------------------
(* GatewayService.handleFailure: a cancel redirect, or a driver that could *)
(* not confirm the payment (a second capture of the same order, say).      *)

FailStart(r) ==
  /\ CanStart(r, "fail")
  /\ \E t \in Gateway :
       /\ txs[t].status = "INITIATED"
       /\ req' = [req EXCEPT ![r] = [Blank EXCEPT !.pc = "fail_write", !.op = "fail", !.ref = t]]
  /\ UNCHANGED <<invoice, payments, books, wallet, given, onlineVars>>

FailWrite(r) ==
  /\ At(r, "fail_write")
  /\ LET t == req[r].ref
     IN /\ txs' = [txs EXCEPT ![t].status = "FAILED"]
        /\ reopened' = IF txs[t].status = "SUCCESS" THEN [reopened EXCEPT ![t] = @ + 1] ELSE reopened
  /\ Finish(r)
  /\ UNCHANGED <<invoice, payments, books, wallet, given, periods, held, captured, credits>>

-----------------------------------------------------------------------------
(* PaymentGatewaysService.handleWebhook.                                   *)

\* A verified delivery; success says what the provider reports.
WebhookStart(r) ==
  /\ CanStart(r, "webhook")
  /\ \E t \in Hosted, success \in BOOLEAN :
       /\ txs[t].status \notin {"none", "SUCCESS"}
       /\ success => t \in captured
       /\ req' = [req EXCEPT ![r] = [Blank EXCEPT !.pc = "webhook_commit", !.op = "webhook",
                    !.ref = t, !.amount = txs[t].amount, !.method = "ONLINE", !.success = success]]
  /\ UNCHANGED <<invoice, payments, books, wallet, given, onlineVars>>

\* A delivery that settles transaction t and leaves the invoice at paid.
Settles(r, t, paid) ==
  /\ \E p \in PaymentIds :
       /\ payments[p].st = "none"
       /\ payments' = [payments EXCEPT ![p] = NewPayment(r)]
  /\ invoice' = Settle(invoice, paid, IF paid >= Total THEN "PAID" ELSE "PARTIAL")
  /\ credits' = [credits EXCEPT ![t] = @ + 1]

\* Mutant: a replayed success is settled again.
WebhookCommitReplays(r) ==
  /\ At(r, "webhook_commit")
  /\ LET t == req[r].ref
     IN IF txs[t].status = "SUCCESS" /\ ~req[r].success
        THEN UNCHANGED <<txs, payments, invoice, credits>>
        ELSE /\ txs' = [txs EXCEPT ![t].status = IF req[r].success THEN "SUCCESS" ELSE "FAILED"]
             /\ IF req[r].success THEN Settles(r, t, invoice.paid + req[r].amount)
                ELSE UNCHANGED <<payments, invoice, credits>>
  /\ Finish(r)
  /\ UNCHANGED <<books, wallet, given, periods, held, captured, reopened>>

\* Mutant: paidAmount is set, not incremented.
WebhookCommitSets(r) ==
  /\ At(r, "webhook_commit")
  /\ LET t == req[r].ref
     IN IF txs[t].status = "SUCCESS"
        THEN UNCHANGED <<txs, payments, invoice, credits>>
        ELSE /\ txs' = [txs EXCEPT ![t].status = IF req[r].success THEN "SUCCESS" ELSE "FAILED"]
             /\ IF req[r].success THEN Settles(r, t, req[r].amount)
                ELSE UNCHANGED <<payments, invoice, credits>>
  /\ Finish(r)
  /\ UNCHANGED <<books, wallet, given, periods, held, captured, reopened>>

\* The claim, the Payment and the invoice increment commit together.
WebhookCommit(r) ==
  /\ At(r, "webhook_commit")
  /\ LET t == req[r].ref
     IN IF txs[t].status = "SUCCESS"
        THEN UNCHANGED <<txs, payments, invoice, credits>>
        ELSE /\ txs' = [txs EXCEPT ![t].status = IF req[r].success THEN "SUCCESS" ELSE "FAILED"]
             /\ IF req[r].success THEN Settles(r, t, invoice.paid + req[r].amount)
                ELSE UNCHANGED <<payments, invoice, credits>>
  /\ Finish(r)
  /\ UNCHANGED <<books, wallet, given, periods, held, captured, reopened>>

-----------------------------------------------------------------------------

Next ==
  \/ \E t \in Txs : Initiate(t) \/ CreateCheckout(t) \/ CustomerPays(t)
  \/ \E r \in Requests :
       \/ SettleStart(r) \/ SettleClaim(r) \/ RecordStep(r) \/ ExtendRead(r) \/ ExtendWrite(r)
       \/ FailStart(r) \/ FailWrite(r)
       \/ WebhookStart(r) \/ WebhookCommit(r)
       \/ Crash(r) /\ UNCHANGED onlineVars
  \/ \E p \in PaymentIds : WindowPasses(p) /\ UNCHANGED onlineVars

Spec == Init /\ [][Next]_vars

-----------------------------------------------------------------------------

\* Rows and local variables stay in their domains.
TypeOK ==
  /\ TypeOKBooks
  /\ txs \in [Txs -> TxRows]
  /\ periods \in Int
  /\ held \in [Requests -> Nat]
  /\ captured \subseteq Txs
  /\ credits \in [Txs -> Nat]
  /\ reopened \in [Txs -> Nat]

\* The lock in recordPayment and the atomic increment in handleWebhook compose: the invoice
\* equals its payments in every state, not only at rest, however cashiers, callbacks,
\* webhooks and crashes interleave.
PaidIsThePayments == invoice.paid = NetPayments

\* What cashiers took.
StaffTakings ==
  [p \in PaymentIds |-> IF p \in Kept /\ payments[p].staff THEN payments[p].amount ELSE 0]

\* Cashiers together never put more on the invoice than its total (and the half unit of
\* tolerance), although each checks against a reading that callbacks may overtake.
StaffWithinTotal == SumFunctionOnSet(StaffTakings, PaymentIds) <= Total + Slack

\* PaymentGatewaysService keeps the promise of ChargeOnce for its transactions.
HostedCharges == INSTANCE ChargeOnce WITH
  Charges  <- Hosted,
  captured <- captured \cap Hosted,
  credits  <- [t \in Hosted |-> credits[t]]

HostedSettleOnce == HostedCharges!ChargeSpec

\* A GatewayService transaction is credited once for the claim that won, and once more at
\* most for each time handleFailure took it out of SUCCESS again.
CreditsNeedReopening == \A t \in Gateway : credits[t] <= 1 + reopened[t]

\* Nobody gets service for nothing: each extension had a payment recorded before it.
ServiceIsPaidFor == periods <= SumFunctionOnSet(credits, Gateway)

\* "The claim is a conditional update, so two deliveries cannot both settle."
NoSecondSettlement == \A t \in Gateway : credits[t] <= 1

\* "A gateway callback (no actor) has already taken the customer's money, so it is recorded
\* whatever the invoice says."
ClaimedIsRecorded ==
  (InFlight = {}) => \A t \in Gateway : txs[t].status = "SUCCESS" => credits[t] >= 1

=============================================================================
