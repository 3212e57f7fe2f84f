----------------------------- MODULE InvoiceDesk ----------------------------
(***************************************************************************)
(* The staff side of an invoice: cashiers on the invoice screen and on the *)
(* payments screen, administrators who correct payments, and the refund    *)
(* desk, all working on the same invoice at once.  PaymentEntry and        *)
(* Refunds give the handlers; this module interleaves them and states what *)
(* must hold between the invoice, its payments and the books.              *)
(***************************************************************************)
EXTENDS PaymentEntry, Refunds

vars == <<invoice, payments, books, wallet, given, req, tickets, moves>>

Init == InitBooks /\ InitRefunds

Entry(r) == Record(r) \/ Create(r) \/ Update(r) \/ Remove(r) \/ Crash(r)

MoneyBack(r) == Refund(r) \/ Approval(r) \/ Reverse(r)

Next == \/ \E r \in Requests : \/ Entry(r) /\ UNCHANGED refundVars
                               \/ MoneyBack(r)
        \/ \E p \in PaymentIds : WindowPasses(p) /\ UNCHANGED refundVars

Spec == Init /\ [][Next]_vars

-----------------------------------------------------------------------------

\* Every row and every local variable stays in its domain: no path writes a status, an
\* amount or a program counter that another path could not read.
TypeOK == TypeOKBooks /\ TypeOKRefunds

\* What Invoice.paidAmount must be once every handler has come to rest: "an invoice's
\* paidAmount = its payments minus what was refunded" (AccountingService.reconciliation).
Reconciles == (InFlight = {}) => invoice.paid = NetPayments

\* However refunds interleave, no more is claimed on a payment than was paid, and a payment
\* is closed to further refunds exactly when nothing is left of it.
ClaimsWithinPayments ==
  \A p \in Kept : /\ payments[p].refunded <= payments[p].amount
                  /\ payments[p].closed <=> payments[p].refunded = payments[p].amount

\* What handler r has claimed of payment p and not handed back, or died before it could.
Owing(r, p) ==
  /\ req[r].pay = p
  /\ \/ Stopped(r, {"refund_invoice", "refund_wallet", "refund_credit"})
     \/ Stopped(r, {"refund_post"}) /\ ~req[r].toBalance

OwedOn(p) == [r \in Requests |-> IF Owing(r, p) THEN req[r].amount ELSE 0]

\* A claimed refund is handed back once: it is either still owed by the handler that
\* claimed it (perhaps for ever, if that handler died) or it was given, never both.
EveryClaimGivenOnce ==
  \A p \in Kept : payments[p].refunded = given[p] + SumFunctionOnSet(OwedOn(p), Requests)

\* Money that came in and was not given back, payment by payment.
Takings == [p \in PaymentIds |-> IF p \in Kept THEN payments[p].amount - given[p] ELSE 0]

\* Postings that lag behind the money: a receipt that is not in the ledger yet, and a wallet
\* credit that is not.
Lag == [r \in Requests |->
          IF Stopped(r, {"create_read", "create_write", "create_post", "record_post"})
          THEN req[r].amount
          ELSE IF Stopped(r, {"refund_post"}) /\ req[r].toBalance THEN -req[r].amount ELSE 0]

\* The ledger knows of all money that came in and went out, except for what handlers that
\* are still running, or died, had not posted yet; nothing is posted twice.
LedgerTracksMoney ==
  books.cash + books.wallet = SumFunctionOnSet(Takings, PaymentIds) - SumFunctionOnSet(Lag, Requests)

\* An approved refund request did move money, also when approvals and rejections of the
\* same request cross.
ApprovedMoved == \A t \in Tickets : tickets[t].status = "APPROVED" => moves[t] > 0

\* "Reject a queued refund - nothing was ever posted, so just close it."
RejectedMovedNothing == \A t \in Tickets : tickets[t].status = "REJECTED" => moves[t] = 0

-----------------------------------------------------------------------------
(* One operator at a time: corrections bring everything back in step.      *)

\* No correction had its posting fail.
AllPosted == \A r \in Requests : req[r].at = "idle"

\* With nobody else at work the invoice's figures, its status and the receivables follow
\* from its payments alone, whatever sequence of receipts, edits, deletions and reversals
\* led here; only a posting that failed sets the ledger apart.
BooksAtRest ==
  (InFlight = {}) =>
    /\ invoice.due = IF invoice.status = "CANCELLED" THEN 0 ELSE Owed(invoice)
    /\ invoice.status # "CANCELLED" => invoice.status = StatusAfter(invoice.paid)
    /\ AllPosted => books.cash = NetPayments
    /\ AllPosted => books.receivable = (IF invoice.reversed THEN 0 ELSE Total) - NetPayments

\* "Invoice has payments - refund them before reversing the invoice": a cancelled invoice
\* holds no money.
CancelledHoldsNoMoney == invoice.status = "CANCELLED" => \A p \in Kept : payments[p].closed

\* However handlers overlap, only two statements can leave money on a cancelled invoice, each
\* relying on a check its handler made before: the cancellation of reverseInvoice and the insert of
\* PaymentsService.create.  And only handlers that write what they worked out from an earlier
\* reading can open it again; a receipt of the invoice screen, checked in its transaction, cannot.
CancelledByStaleChecks ==
  [][/\ CancelledHoldsNoMoney =>
          CancelledHoldsNoMoney' \/ \E r \in Requests : ReverseWrite(r) \/ CreateInsert(r)
     /\ invoice.status = "CANCELLED" =>
          \/ invoice'.status = "CANCELLED"
          \/ \E r \in Requests : CreateWrite(r) \/ UpdateWrite(r) \/ RemoveWrite(r) \/ RefundInvoice(r)]_vars

Received == SumFunctionOnSet([p \in PaymentIds |-> IF p \in Kept THEN payments[p].amount ELSE 0], PaymentIds)

\* Whatever is lost between the read of one handler and its write, Invoice.paidAmount never
\* shows money that did not come in: an invoice that reads PAID was paid.
PaidAmountWasReceived ==
  /\ invoice.paid <= Received
  /\ invoice.status = "PAID" => Total <= Received

=============================================================================
