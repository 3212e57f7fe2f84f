---------------------------- MODULE InvoiceBooks ----------------------------
(***************************************************************************)
(* The rows that every money path of the panel shares: one invoice, the    *)
(* payments recorded against it, the double-entry ledger and the           *)
(* subscriber's wallet, together with the HTTP requests (or gateway        *)
(* callbacks) that are working on them.                                    *)
(*                                                                         *)
(* A request is an async handler of a NestJS service.  Every await of the  *)
(* handler is a point where other handlers run, in this process or in      *)
(* another worker of the cluster, so a handler is a sequence of steps and  *)
(* req[r].pc says which statement comes next.  What the handler has read   *)
(* and still holds in local variables is in req[r].inv and req[r].row.     *)
(*                                                                         *)
(* Amounts are whole multiples of half a currency unit: the handlers'      *)
(* tolerance of 0.5 on "not more than is due" is Slack = 1, and their      *)
(* rounding tolerances of 0.005 and 0.01 are below the grid.               *)
(***************************************************************************)
EXTENDS Integers, FiniteSets, FiniteSetsExt

CONSTANTS
  Requests,     \* identities of the handlers that may run; each runs once
  PaymentIds,   \* rows of table Payment that may be created
  Refs,         \* what a handler may work for: refund requests, gateway transactions
  NoOne,        \* "no payment", "nothing": null
  Total,        \* Invoice.total
  Slack,        \* how far above the due amount staff may go
  Amounts,      \* amounts that staff key in
  Methods,      \* PaymentMethod
  Ops,          \* the operations this instance lets run
  MaxInFlight   \* how many handlers may be between two awaits at once

ASSUME BooksAssumption ==
  /\ Total \in Nat \ {0}
  /\ Slack \in Nat
  /\ Amounts \subseteq Nat \ {0}
  /\ MaxInFlight \in Nat
  /\ IsFiniteSet(Requests) /\ IsFiniteSet(PaymentIds)
  /\ NoOne \notin PaymentIds \cup Refs \cup Methods

VARIABLES
  invoice,   \* the Invoice row
  payments,  \* the Payment rows
  books,     \* LedgerEntry: net debit of each account
  wallet,    \* Subscriber.balance and balanceAfter of the latest BalanceTransaction
  given,     \* history: money handed back for each payment, cash or wallet
  req        \* the handlers

bookVars == <<invoice, payments, books, wallet, given, req>>

-----------------------------------------------------------------------------
(* Rows.  A Payment carries refundedAmount (refunded), refundedAt # null   *)
(* (closed) and createdAt within the last 90 seconds (fresh).              *)

InvoiceStatus == {"UNPAID", "PARTIAL", "PAID", "CANCELLED"}

InvoiceRows == [paid : Int, due : Int, status : InvoiceStatus, reversed : BOOLEAN]

PaymentRows == [st : {"none", "kept", "deleted"}, amount : Nat, refunded : Nat,
                closed : BOOLEAN, fresh : BOOLEAN,
                method : Methods \cup {NoOne}, staff : BOOLEAN]

NewInvoice == [paid |-> 0, due |-> Total, status |-> "UNPAID", reversed |-> FALSE]

NoRow == [st |-> "none", amount |-> 0, refunded |-> 0, closed |-> FALSE,
          fresh |-> FALSE, method |-> NoOne, staff |-> FALSE]

Floor0(n) == IF n > 0 THEN n ELSE 0

\* What the handlers call "due": computed from total and paidAmount, not from dueAmount.
Owed(inv) == Floor0(Total - inv.paid)

\* The triple that every path but the refund writes after paidAmount becomes p.
Settle(inv, p, status) == [inv EXCEPT !.paid = p, !.due = Floor0(Total - p), !.status = status]

\* Mutant: a status that the column does not have.
StatusAfterRefunded(p) == IF p >= Total THEN "PAID" ELSE IF p > 0 THEN "PARTIAL" ELSE "REFUNDED"

StatusAfter(p) == IF p >= Total THEN "PAID" ELSE IF p > 0 THEN "PARTIAL" ELSE "UNPAID"

Kept == {p \in PaymentIds : payments[p].st = "kept"}

\* accounting.post: a balanced pair of lines, in one createMany.
Post(debit, credit, n) == books' = [books EXCEPT ![debit] = @ + n, ![credit] = @ - n]

-----------------------------------------------------------------------------
(* The handlers' local state.                                              *)

Steps == {"record_guard", "record_commit", "record_post", "extend_read", "extend_write",
          "create_guard", "create_insert", "create_read", "create_write", "create_post",
          "update_row", "update_read", "update_write", "update_post",
          "remove_read", "remove_write", "remove_post", "remove_delete",
          "refund_read", "refund_claim", "refund_invoice", "refund_wallet",
          "refund_credit", "refund_post", "approve_mark", "reject_mark",
          "reverse_write", "reverse_post", "settle_claim", "fail_write", "webhook_commit"}

Handlers == [pc : Steps \cup {"idle", "done", "crashed"}, at : Steps \cup {"idle"},
              op : Ops \cup {"none"}, pay : PaymentIds \cup {NoOne},
              ref : Refs \cup {NoOne}, method : Methods \cup {NoOne}, amount : Nat,
              staff : BOOLEAN, force : BOOLEAN, toBalance : BOOLEAN, success : BOOLEAN,
              inv : InvoiceRows, row : PaymentRows, balance : Int]

Blank == [pc |-> "idle", at |-> "idle", op |-> "none", pay |-> NoOne, ref |-> NoOne,
          method |-> NoOne, amount |-> 0, staff |-> FALSE, force |-> FALSE,
          toBalance |-> FALSE, success |-> FALSE,
          inv |-> NewInvoice, row |-> NoRow, balance |-> 0]

Running(r) == req[r].pc \in Steps

InFlight == {r \in Requests : Running(r)}

\* A new handler of kind op may be entered by r.
CanStart(r, op) ==
  /\ op \in Ops
  /\ req[r].pc = "idle"
  /\ Cardinality(InFlight) < MaxInFlight

At(r, step) == req[r].pc = step

Goto(r, step) == req' = [req EXCEPT ![r].pc = step]

\* The handler returns or throws; its local variables are gone.
Finish(r) == req' = [req EXCEPT ![r] = [Blank EXCEPT !.pc = "done", !.at = req[r].at]]

\* A posting fails, the error is logged and the handler goes on without it.
PostingFails == "postfail" \in Ops /\ UNCHANGED books

\* r is about to execute one of these steps, or died just before it.
Stopped(r, steps) == req[r].pc \in steps \/ (req[r].pc = "crashed" /\ req[r].at \in steps)

\* The worker process dies, or the statement that comes next throws out of the handler.
Crash(r) ==
  /\ "crash" \in Ops
  /\ Running(r)
  /\ req' = [req EXCEPT ![r].pc = "crashed", ![r].at = req[r].pc]
  /\ UNCHANGED <<invoice, payments, books, wallet, given>>

\* Ninety seconds pass since payment p was created.
WindowPasses(p) ==
  /\ payments[p].fresh
  /\ payments' = [payments EXCEPT ![p].fresh = FALSE]
  /\ UNCHANGED <<invoice, books, wallet, given, req>>

-----------------------------------------------------------------------------
(* InvoicesService.create has just run: the invoice is unpaid and its      *)
(* total is posted to receivables and revenue.                             *)

InitBooks ==
  /\ invoice  = NewInvoice
  /\ payments = [p \in PaymentIds |-> NoRow]
  /\ books    = [cash |-> 0, receivable |-> Total, revenue |-> -Total, wallet |-> 0]
  /\ wallet   = [balance |-> 0, statement |-> 0]
  /\ given    = [p \in PaymentIds |-> 0]
  /\ req      = [r \in Requests |-> Blank]

TypeOKBooks ==
  /\ invoice \in InvoiceRows
  /\ payments \in [PaymentIds -> PaymentRows]
  /\ books \in [cash : Int, receivable : Int, revenue : Int, wallet : Int]
  /\ wallet \in [balance : Int, statement : Int]
  /\ given \in [PaymentIds -> Nat]
  /\ req \in [Requests -> Handlers]

\* The payments of the invoice, less what was refunded of them.
NetOf == [p \in PaymentIds |-> IF p \in Kept THEN payments[p].amount - payments[p].refunded ELSE 0]

NetPayments == SumFunctionOnSet(NetOf, PaymentIds)

=============================================================================
