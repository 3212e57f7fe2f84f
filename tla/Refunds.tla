------------------------------ MODULE Refunds -------------------------------
(***************************************************************************)
(* Money back: AccountingService.refundPayment with the approval of large  *)
(* refunds in front of it, and reverseInvoice.  The commission clawback at *)
(* the end of refundPayment touches reseller balances only and is left     *)
(* out, as are the activity log rows.                                      *)
(***************************************************************************)
EXTENDS InvoiceBooks

CONSTANTS
  Tickets,      \* rows of table RefundRequest that may be created
  Threshold     \* refundApprovalThreshold; 0 switches the approval off

ASSUME RefundsAssumption == Tickets \subseteq Refs /\ Threshold \in Nat

VARIABLES
  tickets,      \* the RefundRequest rows
  moves         \* history: how often money was claimed for each of them

refundVars == <<tickets, moves>>

TicketRows == [status : {"none", "PENDING", "APPROVED", "REJECTED"},
               pay : PaymentIds \cup {NoOne}, amount : Nat, toBalance : BOOLEAN]

NoTicket == [status |-> "none", pay |-> NoOne, amount |-> 0, toBalance |-> FALSE]

InitRefunds ==
  /\ tickets = [t \in Tickets |-> NoTicket]
  /\ moves   = [t \in Tickets |-> 0]

TypeOKRefunds ==
  /\ tickets \in [Tickets -> TicketRows]
  /\ moves \in [Tickets -> Nat]

Remaining(row) == row.amount - row.refunded

-----------------------------------------------------------------------------
(* requestRefund.  slice = 0 is a body without an amount: the whole of     *)
(* what is left, worked out again by refundPayment when it reads the row.  *)

NeedsApproval(row, amount, owner) ==
  Threshold > 0 /\ row.refunded + amount > Threshold /\ ~owner

RefundStart(r) ==
  /\ CanStart(r, "refund")
  /\ \E p \in Kept, slice \in Amounts \cup {0}, toBalance, owner \in BOOLEAN :
       LET row    == payments[p]
           amount == IF slice = 0 THEN Remaining(row) ELSE slice
       IN /\ ~row.closed
          /\ amount > 0
          /\ IF NeedsApproval(row, amount, owner)
             THEN \E t \in Tickets :
                    /\ tickets[t].status = "none"
                    /\ tickets' = [tickets EXCEPT ![t] = [status |-> "PENDING", pay |-> p,
                                     amount |-> amount, toBalance |-> toBalance]]
                    /\ Finish(r)
             ELSE /\ req' = [req EXCEPT ![r] = [Blank EXCEPT !.pc = "refund_read", !.op = "refund",
                               !.pay = p, !.amount = slice, !.toBalance = toBalance]]
                  /\ UNCHANGED tickets
  /\ UNCHANGED <<invoice, payments, books, wallet, given, moves>>

\* Mutant: the request is marked before the money moves.
ApproveStartMarks(r) ==
  /\ CanStart(r, "approve")
  /\ \E t \in Tickets :
       /\ tickets[t].status = "PENDING"
       /\ tickets' = [tickets EXCEPT ![t].status = "APPROVED"]
       /\ req' = [req EXCEPT ![r] = [Blank EXCEPT !.pc = "refund_read", !.op = "approve", !.ref = t,
                    !.pay = tickets[t].pay, !.amount = tickets[t].amount,
                    !.toBalance = tickets[t].toBalance]]
  /\ UNCHANGED <<invoice, payments, books, wallet, given, moves>>

\* approveRefundRequest: the status check, then refundPayment for the stored amount.
ApproveStart(r) ==
  /\ CanStart(r, "approve")
  /\ \E t \in Tickets :
       /\ tickets[t].status = "PENDING"
       /\ req' = [req EXCEPT ![r] = [Blank EXCEPT !.pc = "refund_read", !.op = "approve", !.ref = t,
                    !.pay = tickets[t].pay, !.amount = tickets[t].amount,
                    !.toBalance = tickets[t].toBalance]]
  /\ UNCHANGED <<invoice, payments, books, wallet, given, tickets, moves>>

-----------------------------------------------------------------------------
(* refundPayment.                                                          *)

\* Mutant: the amount is not compared with what is left.
RefundReadUnlimited(r) ==
  /\ At(r, "refund_read")
  /\ LET p      == req[r].pay
         row    == payments[p]
         amount == IF req[r].amount = 0 THEN Remaining(row) ELSE req[r].amount
     IN IF p \in Kept /\ ~row.closed /\ amount > 0
        THEN req' = [req EXCEPT ![r].pc = "refund_claim", ![r].amount = amount,
                       ![r].row = row, ![r].inv = invoice]
        ELSE Finish(r)
  /\ UNCHANGED <<invoice, payments, books, wallet, given, tickets, moves>>

\* One query reads the payment with its invoice; the amount is checked against this reading.
RefundRead(r) ==
  /\ At(r, "refund_read")
  /\ LET p      == req[r].pay
         row    == payments[p]
         amount == IF req[r].amount = 0 THEN Remaining(row) ELSE req[r].amount
     IN IF p \in Kept /\ ~row.closed /\ amount \in 1 .. Remaining(row)
        THEN req' = [req EXCEPT ![r].pc = "refund_claim", ![r].amount = amount,
                       ![r].row = row, ![r].inv = invoice]
        ELSE Finish(r)
  /\ UNCHANGED <<invoice, payments, books, wallet, given, tickets, moves>>

\* Mutant: the refunded total is written back without comparing it.
RefundClaimBlind(r) ==
  /\ At(r, "refund_claim")
  /\ LET p     == req[r].pay
         total == req[r].row.refunded + req[r].amount
     IN /\ payments' = [payments EXCEPT ![p].refunded = total,
                          ![p].closed = (total >= req[r].row.amount)]
        /\ moves' = IF req[r].ref \in Tickets THEN [moves EXCEPT ![req[r].ref] = @ + 1] ELSE moves
  /\ Goto(r, "refund_invoice")
  /\ UNCHANGED <<invoice, books, wallet, given, tickets>>

\* updateMany where refundedAt is null and refundedAmount is what was read.
RefundClaim(r) ==
  /\ At(r, "refund_claim")
  /\ LET p     == req[r].pay
         total == req[r].row.refunded + req[r].amount
     IN IF p \in Kept /\ ~payments[p].closed /\ payments[p].refunded = req[r].row.refunded
        THEN /\ payments' = [payments EXCEPT ![p].refunded = total,
                               ![p].closed = (total >= req[r].row.amount)]
             /\ moves' = IF req[r].ref \in Tickets THEN [moves EXCEPT ![req[r].ref] = @ + 1] ELSE moves
             /\ Goto(r, "refund_invoice")
        ELSE Finish(r) /\ UNCHANGED <<payments, moves>>
  /\ UNCHANGED <<invoice, books, wallet, given, tickets>>

\* The invoice is overwritten with figures computed from the reading.
RefundInvoice(r) ==
  /\ At(r, "refund_invoice")
  /\ LET paid == Floor0(req[r].inv.paid - req[r].amount)
     IN invoice' = [invoice EXCEPT !.paid = paid, !.due = Total - paid, !.status = StatusAfter(paid)]
  /\ Goto(r, IF req[r].toBalance THEN "refund_wallet" ELSE "refund_post")
  /\ UNCHANGED <<payments, books, wallet, given, tickets, moves>>

RefundWallet(r) ==
  /\ At(r, "refund_wallet")
  /\ req' = [req EXCEPT ![r].pc = "refund_credit", ![r].balance = wallet.balance]
  /\ UNCHANGED <<invoice, payments, books, wallet, given, tickets, moves>>

\* The balance is incremented; the statement row says what was read plus the refund.
RefundCredit(r) ==
  /\ At(r, "refund_credit")
  /\ wallet' = [balance |-> wallet.balance + req[r].amount,
                statement |-> req[r].balance + req[r].amount]
  /\ given' = [given EXCEPT ![req[r].pay] = @ + req[r].amount]
  /\ Goto(r, "refund_post")
  /\ UNCHANGED <<invoice, payments, books, tickets, moves>>

\* Mutant: the sides of the posting are swapped.
RefundPostSwapped(r) ==
  /\ At(r, "refund_post")
  /\ Post(IF req[r].toBalance THEN "wallet" ELSE "cash", "receivable", req[r].amount)
  /\ given' = IF req[r].toBalance THEN given
              ELSE [given EXCEPT ![req[r].pay] = @ + req[r].amount]
  /\ IF req[r].op = "approve" THEN Goto(r, "approve_mark") ELSE Finish(r)
  /\ UNCHANGED <<invoice, payments, wallet, tickets, moves>>

RefundPost(r) ==
  /\ At(r, "refund_post")
  /\ Post("receivable", IF req[r].toBalance THEN "wallet" ELSE "cash", req[r].amount)
  /\ given' = IF req[r].toBalance THEN given
              ELSE [given EXCEPT ![req[r].pay] = @ + req[r].amount]
  /\ IF req[r].op = "approve" THEN Goto(r, "approve_mark") ELSE Finish(r)
  /\ UNCHANGED <<invoice, payments, wallet, tickets, moves>>

ApproveMark(r) ==
  /\ At(r, "approve_mark")
  /\ tickets' = [tickets EXCEPT ![req[r].ref].status = "APPROVED"]
  /\ Finish(r)
  /\ UNCHANGED <<invoice, payments, books, wallet, given, moves>>

-----------------------------------------------------------------------------
(* rejectRefundRequest.                                                    *)

RejectStart(r) ==
  /\ CanStart(r, "reject")
  /\ \E t \in Tickets :
       /\ tickets[t].status = "PENDING"
       /\ req' = [req EXCEPT ![r] = [Blank EXCEPT !.pc = "reject_mark", !.op = "reject", !.ref = t]]
  /\ UNCHANGED <<invoice, payments, books, wallet, given, tickets, moves>>

RejectMark(r) ==
  /\ At(r, "reject_mark")
  /\ tickets' = [tickets EXCEPT ![req[r].ref].status = "REJECTED"]
  /\ Finish(r)
  /\ UNCHANGED <<invoice, payments, books, wallet, given, moves>>

-----------------------------------------------------------------------------
(* reverseInvoice: refused while a payment is not fully refunded.          *)

\* Mutant: the payments are not looked at.
ReverseStartAnyway(r) ==
  /\ CanStart(r, "reverse")
  /\ invoice.status # "CANCELLED"
  /\ req' = [req EXCEPT ![r] = [Blank EXCEPT !.pc = "reverse_write", !.op = "reverse"]]
  /\ UNCHANGED <<invoice, payments, books, wallet, given, tickets, moves>>

ReverseStart(r) ==
  /\ CanStart(r, "reverse")
  /\ invoice.status # "CANCELLED"
  /\ \A p \in Kept : payments[p].closed
  /\ req' = [req EXCEPT ![r] = [Blank EXCEPT !.pc = "reverse_write", !.op = "reverse"]]
  /\ UNCHANGED <<invoice, payments, books, wallet, given, tickets, moves>>

ReverseWrite(r) ==
  /\ At(r, "reverse_write")
  /\ invoice' = [invoice EXCEPT !.status = "CANCELLED", !.due = 0, !.reversed = TRUE]
  /\ Goto(r, "reverse_post")
  /\ UNCHANGED <<payments, books, wallet, given, tickets, moves>>

ReversePost(r) ==
  /\ At(r, "reverse_post")
  /\ Post("revenue", "receivable", Total)
  /\ Finish(r)
  /\ UNCHANGED <<invoice, payments, wallet, given, tickets, moves>>

Refund(r) == \/ RefundStart(r) \/ RefundRead(r) \/ RefundClaim(r) \/ RefundInvoice(r)
             \/ RefundWallet(r) \/ RefundCredit(r) \/ RefundPost(r)

Approval(r) == ApproveStart(r) \/ ApproveMark(r) \/ RejectStart(r) \/ RejectMark(r)

Reverse(r) == ReverseStart(r) \/ ReverseWrite(r) \/ ReversePost(r)

=============================================================================
