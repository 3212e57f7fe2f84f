---------------------------- MODULE PaymentEntry ----------------------------
(***************************************************************************)
(* Money in, and the correction of it: InvoicesService.recordPayment (the  *)
(* invoice screen and the gateway callbacks), PaymentsService.create,      *)
(* update and remove (the payments screen).                                *)
(***************************************************************************)
EXTENDS InvoiceBooks

\* The check both staff paths make before taking money against invoice row inv.
MayTake(inv, amount) ==
  /\ inv.status \notin {"CANCELLED", "PAID"}
  /\ Owed(inv) > 0
  /\ amount <= Owed(inv) + Slack

\* The duplicate guard: a payment of the same amount and method, not refunded, in the last 90 s.
RecentTwin(amount, method) ==
  \E p \in Kept : /\ payments[p].fresh
                  /\ ~payments[p].closed
                  /\ payments[p].amount = amount
                  /\ payments[p].method = method

NewPayment(r) == [st |-> "kept", amount |-> req[r].amount, refunded |-> 0, closed |-> FALSE,
                  fresh |-> TRUE, method |-> req[r].method, staff |-> req[r].staff]

-----------------------------------------------------------------------------
(* InvoicesService.recordPayment.                                          *)

\* A cashier's request: the unlocked checks.
RecordStart(r) ==
  /\ CanStart(r, "record")
  /\ \E amount \in Amounts, method \in Methods, force \in BOOLEAN :
       /\ MayTake(invoice, amount)
       /\ req' = [req EXCEPT ![r] = [Blank EXCEPT !.pc = "record_guard", !.op = "record",
                    !.amount = amount, !.method = method, !.force = force, !.staff = TRUE]]
  /\ UNCHANGED <<invoice, payments, books, wallet, given>>

\* Mutant: a duplicate counts as recorded, and a callback extends the service for it.
RecordGuardExtends(r) ==
  /\ At(r, "record_guard")
  /\ IF ~req[r].force /\ RecentTwin(req[r].amount, req[r].method)
     THEN IF req[r].op = "settle" THEN Goto(r, "extend_read") ELSE Finish(r)
     ELSE Goto(r, "record_commit")
  /\ UNCHANGED <<invoice, payments, books, wallet, given>>

RecordGuard(r) ==
  /\ At(r, "record_guard")
  /\ IF ~req[r].force /\ RecentTwin(req[r].amount, req[r].method)
     THEN Finish(r)
     ELSE Goto(r, "record_commit")
  /\ UNCHANGED <<invoice, payments, books, wallet, given>>

\* Mutant: the locked row is not checked again.
RecordCommitUnchecked(r) ==
  /\ At(r, "record_commit")
  /\ \E p \in PaymentIds :
       LET paid == invoice.paid + req[r].amount
       IN /\ payments[p].st = "none"
          /\ payments' = [payments EXCEPT ![p] = NewPayment(r)]
          /\ invoice' = Settle(invoice, paid, IF paid >= Total THEN "PAID" ELSE "PARTIAL")
          /\ req' = [req EXCEPT ![r].pc = "record_post", ![r].pay = p]
  /\ UNCHANGED <<books, wallet, given>>

\* ONE LOCKED TRANSACTION: the row is locked, re-read and, for staff, re-checked.
RecordCommit(r) ==
  /\ At(r, "record_commit")
  /\ \E p \in PaymentIds :
       /\ payments[p].st = "none"
       /\ IF req[r].staff => MayTake(invoice, req[r].amount)
          THEN LET paid == invoice.paid + req[r].amount
               IN /\ payments' = [payments EXCEPT ![p] = NewPayment(r)]
                  /\ invoice' = Settle(invoice, paid, IF paid >= Total THEN "PAID" ELSE "PARTIAL")
                  /\ req' = [req EXCEPT ![r].pc = "record_post", ![r].pay = p]
          ELSE Finish(r) /\ UNCHANGED <<invoice, payments>>
  /\ UNCHANGED <<books, wallet, given>>

\* postPaymentReceived; a gateway callback then goes on to extend the service.
RecordPost(r) ==
  /\ At(r, "record_post")
  /\ Post("cash", "receivable", req[r].amount)
  /\ IF req[r].op = "settle" THEN Goto(r, "extend_read") ELSE Finish(r)
  /\ UNCHANGED <<invoice, payments, wallet, given>>

Record(r) == RecordStart(r) \/ RecordGuard(r) \/ RecordCommit(r) \/ RecordPost(r)

-----------------------------------------------------------------------------
(* PaymentsService.create: the payment is inserted, then the invoice is    *)
(* read and written back without a lock.                                   *)

CreateStart(r) ==
  /\ CanStart(r, "create")
  /\ \E amount \in Amounts, method \in Methods, force \in BOOLEAN :
       /\ MayTake(invoice, amount)
       /\ req' = [req EXCEPT ![r] = [Blank EXCEPT !.pc = "create_guard", !.op = "create",
                    !.amount = amount, !.method = method, !.force = force, !.staff = TRUE]]
  /\ UNCHANGED <<invoice, payments, books, wallet, given>>

CreateGuard(r) ==
  /\ At(r, "create_guard")
  /\ IF ~req[r].force /\ RecentTwin(req[r].amount, req[r].method)
     THEN Finish(r)
     ELSE Goto(r, "create_insert")
  /\ UNCHANGED <<invoice, payments, books, wallet, given>>

CreateInsert(r) ==
  /\ At(r, "create_insert")
  /\ \E p \in PaymentIds :
       /\ payments[p].st = "none"
       /\ payments' = [payments EXCEPT ![p] = NewPayment(r)]
       /\ req' = [req EXCEPT ![r].pc = "create_read", ![r].pay = p]
  /\ UNCHANGED <<invoice, books, wallet, given>>

CreateRead(r) ==
  /\ At(r, "create_read")
  /\ req' = [req EXCEPT ![r].pc = "create_write", ![r].inv = invoice]
  /\ UNCHANGED <<invoice, payments, books, wallet, given>>

CreateWrite(r) ==
  /\ At(r, "create_write")
  /\ LET paid == req[r].inv.paid + req[r].amount
         status == IF paid > 0 THEN StatusAfter(paid) ELSE req[r].inv.status
     IN invoice' = Settle(invoice, paid, status)
  /\ Goto(r, "create_post")
  /\ UNCHANGED <<payments, books, wallet, given>>

CreatePost(r) ==
  /\ At(r, "create_post")
  /\ Post("cash", "receivable", req[r].amount)
  /\ Finish(r)
  /\ UNCHANGED <<invoice, payments, wallet, given>>

Create(r) == \/ CreateStart(r) \/ CreateGuard(r) \/ CreateInsert(r)
             \/ CreateRead(r) \/ CreateWrite(r) \/ CreatePost(r)

-----------------------------------------------------------------------------
(* PaymentsService.update, when the body changes the amount (req.amount is *)
(* the new amount, req.row the payment as it was read).                    *)

UpdateStart(r) ==
  /\ CanStart(r, "update")
  /\ \E p \in Kept, amount \in Amounts :
       req' = [req EXCEPT ![r] = [Blank EXCEPT !.pc = "update_row", !.op = "update",
                 !.pay = p, !.amount = amount, !.row = payments[p]]]
  /\ UNCHANGED <<invoice, payments, books, wallet, given>>

Delta(r) == req[r].amount - req[r].row.amount

UpdateRow(r) ==
  /\ At(r, "update_row")
  /\ LET p == req[r].pay
     IN IF p \in Kept
        THEN /\ payments' = [payments EXCEPT ![p].amount = req[r].amount]
             /\ IF Delta(r) = 0 THEN Finish(r) ELSE Goto(r, "update_read")
        ELSE Finish(r) /\ UNCHANGED payments
  /\ UNCHANGED <<invoice, books, wallet, given>>

UpdateRead(r) ==
  /\ At(r, "update_read")
  /\ req' = [req EXCEPT ![r].pc = "update_write", ![r].inv = invoice]
  /\ UNCHANGED <<invoice, payments, books, wallet, given>>

\* Mutant: the new amount is added, not the difference.
UpdateWriteWhole(r) ==
  /\ At(r, "update_write")
  /\ LET paid == req[r].inv.paid + req[r].amount
     IN invoice' = Settle(invoice, paid, StatusAfter(paid))
  /\ Goto(r, "update_post")
  /\ UNCHANGED <<payments, books, wallet, given>>

UpdateWrite(r) ==
  /\ At(r, "update_write")
  /\ LET paid == Floor0(req[r].inv.paid + Delta(r))
     IN invoice' = Settle(invoice, paid, StatusAfter(paid))
  /\ Goto(r, "update_post")
  /\ UNCHANGED <<payments, books, wallet, given>>

\* Mutant: the size of the difference is posted as a receipt, whatever its sign.
UpdatePostUnsigned(r) ==
  /\ At(r, "update_post")
  /\ Post("cash", "receivable", IF Delta(r) > 0 THEN Delta(r) ELSE -Delta(r))
  /\ Finish(r)
  /\ UNCHANGED <<invoice, payments, wallet, given>>

\* The adjustment is posted, or fails and is only logged.
UpdatePost(r) ==
  /\ At(r, "update_post")
  /\ \/ Post("cash", "receivable", Delta(r)) /\ Finish(r)
     \/ /\ PostingFails
        /\ req' = [req EXCEPT ![r] = [Blank EXCEPT !.pc = "done", !.at = "update_post"]]
  /\ UNCHANGED <<invoice, payments, wallet, given>>

Update(r) == UpdateStart(r) \/ UpdateRow(r) \/ UpdateRead(r) \/ UpdateWrite(r) \/ UpdatePost(r)

-----------------------------------------------------------------------------
(* PaymentsService.remove: the effects are undone first, the row goes last.*)

RemoveStart(r) ==
  /\ CanStart(r, "remove")
  /\ \E p \in Kept :
       req' = [req EXCEPT ![r] = [Blank EXCEPT !.pc = "remove_read", !.op = "remove",
                 !.pay = p, !.row = payments[p]]]
  /\ UNCHANGED <<invoice, payments, books, wallet, given>>

RemoveRead(r) ==
  /\ At(r, "remove_read")
  /\ req' = [req EXCEPT ![r].pc = "remove_write", ![r].inv = invoice]
  /\ UNCHANGED <<invoice, payments, books, wallet, given>>

RemoveWrite(r) ==
  /\ At(r, "remove_write")
  /\ LET paid == Floor0(req[r].inv.paid - req[r].row.amount)
     IN invoice' = Settle(invoice, paid, StatusAfter(paid))
  /\ Goto(r, "remove_post")
  /\ UNCHANGED <<payments, books, wallet, given>>

RemovePost(r) ==
  /\ At(r, "remove_post")
  /\ \/ Post("receivable", "cash", req[r].row.amount) /\ Goto(r, "remove_delete")
     \/ /\ PostingFails
        /\ req' = [req EXCEPT ![r].pc = "remove_delete", ![r].at = "remove_post"]
  /\ UNCHANGED <<invoice, payments, wallet, given>>

\* Deleting a row that another request deleted first throws; nothing is left to undo.
RemoveDelete(r) ==
  /\ At(r, "remove_delete")
  /\ LET p == req[r].pay
     IN payments' = IF p \in Kept THEN [payments EXCEPT ![p] = [NoRow EXCEPT !.st = "deleted"]]
                    ELSE payments
  /\ Finish(r)
  /\ UNCHANGED <<invoice, books, wallet, given>>

Remove(r) == RemoveStart(r) \/ RemoveRead(r) \/ RemoveWrite(r) \/ RemovePost(r) \/ RemoveDelete(r)

=============================================================================
