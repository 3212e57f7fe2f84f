-------------------------- MODULE InvoiceDesk_proofs ------------------------
(***************************************************************************)
(* Proofs about InvoiceDesk for every set of handlers, payments, refund    *)
(* requests and amounts.                                                   *)
(***************************************************************************)
EXTENDS InvoiceDesk, PaymentEntry_proofs

-----------------------------------------------------------------------------
(* What the statements of a refund or an edit do to the rows.              *)

LEMMA MoreGiven ==
  ASSUME given \in [PaymentIds -> Nat], NEW p, NEW n \in Nat
  PROVE  [given EXCEPT ![p] = @ + n] \in [PaymentIds -> Nat]
  <1>1. CASE p \in PaymentIds
    BY <1>1
  <1>2. CASE p \notin PaymentIds
    BY <1>2
  <1> QED BY <1>1, <1>2

LEMMA DeltaTyped ==
  ASSUME req \in [Requests -> Handlers], NEW r \in Requests
  PROVE  Delta(r) \in Int
  BY DEF Delta, Handlers, PaymentRows

-----------------------------------------------------------------------------
(* Type correctness, one lemma for each handler.                           *)

LEMMA RecordTyped ==
  ASSUME TypeOK, NEW r \in Requests, Record(r), UNCHANGED refundVars
  PROVE  TypeOK'
  BY RecordKeepsTypes DEF TypeOK, TypeOKRefunds, refundVars

LEMMA CreateTyped ==
  ASSUME TypeOK, NEW r \in Requests, Create(r), UNCHANGED refundVars
  PROVE  TypeOK'
  <1> USE DEF TypeOK, TypeOKBooks, TypeOKRefunds, refundVars
  <1>1. CASE CreateStart(r)
    <2>1. PICK amount \in Amounts, method \in Methods, force \in BOOLEAN :
            req' = [req EXCEPT ![r] = [Blank EXCEPT !.pc = "create_guard", !.op = "create",
                      !.amount = amount, !.method = method, !.force = force, !.staff = TRUE]]
      BY <1>1 DEF CreateStart
    <2>2. "create" \in Ops /\ amount \in Nat /\ "create_guard" \in Steps
      BY <1>1, BooksAssumption DEF CreateStart, CanStart, Steps
    <2>3. [Blank EXCEPT !.pc = "create_guard", !.op = "create", !.amount = amount,
             !.method = method, !.force = force, !.staff = TRUE] \in Handlers
      BY <2>2, BlankTyped DEF Handlers
    <2>4. req' \in [Requests -> Handlers]
      BY <2>1, <2>3, UpdatedTyped
    <2> QED BY <1>1, <2>4 DEF CreateStart
  <1>2. CASE CreateGuard(r)
    <2>1. req' \in [Requests -> Handlers]
      BY <1>2, FinishTyped, GotoTyped DEF CreateGuard, Steps
    <2> QED BY <1>2, <2>1 DEF CreateGuard
  <1>3. CASE CreateInsert(r)
    <2>1. payments' \in [PaymentIds -> PaymentRows]
      BY <1>3, NewPaymentTyped DEF CreateInsert
    <2>2. req' \in [Requests -> Handlers]
      BY <1>3, GotoPayTyped DEF CreateInsert, Steps
    <2> QED BY <1>3, <2>1, <2>2 DEF CreateInsert
  <1>4. CASE CreateRead(r)
    <2>1. req' \in [Requests -> Handlers]
      BY <1>4, GotoInvTyped DEF CreateRead, Steps
    <2> QED BY <1>4, <2>1 DEF CreateRead
  <1>5. CASE CreateWrite(r)
    <2> DEFINE paid == req[r].inv.paid + req[r].amount
               status == IF paid > 0 THEN StatusAfter(paid) ELSE req[r].inv.status
    <2>1. paid \in Int /\ req[r].inv.status \in InvoiceStatus
      BY DEF Handlers, InvoiceRows
    <2>2. status \in InvoiceStatus
      BY <2>1, StatusAfterTyped
    <2>3. invoice' = Settle(invoice, paid, status)
      BY <1>5 DEF CreateWrite
    <2>4. invoice' \in InvoiceRows
      <3> HIDE DEF paid, status
      <3> QED BY <2>1, <2>2, <2>3, SettleTyped
    <2>5. req' \in [Requests -> Handlers]
      BY <1>5, GotoTyped DEF CreateWrite, Steps
    <2> QED BY <1>5, <2>4, <2>5 DEF CreateWrite
  <1>6. CASE CreatePost(r)
    <2>1. req' \in [Requests -> Handlers]
      BY <1>6, FinishTyped DEF CreatePost
    <2>2. req[r].amount \in Int
      BY DEF Handlers
    <2>3. books' \in [cash : Int, receivable : Int, revenue : Int, wallet : Int]
      BY <1>6, <2>2, PostTyped DEF CreatePost
    <2> QED BY <1>6, <2>1, <2>3 DEF CreatePost
  <1> QED BY <1>1, <1>2, <1>3, <1>4, <1>5, <1>6 DEF Create

LEMMA UpdateTyped ==
  ASSUME TypeOK, NEW r \in Requests, Update(r), UNCHANGED refundVars
  PROVE  TypeOK'
  <1> USE DEF TypeOK, TypeOKBooks, TypeOKRefunds, refundVars
  <1>1. CASE UpdateStart(r)
    <2>1. PICK p \in Kept, amount \in Amounts :
            req' = [req EXCEPT ![r] = [Blank EXCEPT !.pc = "update_row", !.op = "update",
                      !.pay = p, !.amount = amount, !.row = payments[p]]]
      BY <1>1 DEF UpdateStart
    <2>2. /\ "update" \in Ops
          /\ amount \in Nat
          /\ p \in PaymentIds
          /\ payments[p] \in PaymentRows
          /\ "update_row" \in Steps
      BY <1>1, BooksAssumption DEF UpdateStart, CanStart, Kept, Steps
    <2>3. [Blank EXCEPT !.pc = "update_row", !.op = "update", !.pay = p,
             !.amount = amount, !.row = payments[p]] \in Handlers
      BY <2>2, BlankTyped DEF Handlers
    <2>4. req' \in [Requests -> Handlers]
      BY <2>1, <2>3, UpdatedTyped
    <2> QED BY <1>1, <2>4 DEF UpdateStart
  <1>2. CASE UpdateRow(r)
    <2>1. payments' \in [PaymentIds -> PaymentRows]
      BY <1>2 DEF UpdateRow, Handlers, PaymentRows
    <2>2. req' \in [Requests -> Handlers]
      BY <1>2, FinishTyped, GotoTyped DEF UpdateRow, Steps
    <2> QED BY <1>2, <2>1, <2>2 DEF UpdateRow
  <1>3. CASE UpdateRead(r)
    <2>1. req' \in [Requests -> Handlers]
      BY <1>3, GotoInvTyped DEF UpdateRead, Steps
    <2> QED BY <1>3, <2>1 DEF UpdateRead
  <1>4. CASE UpdateWrite(r)
    <2> DEFINE paid == Floor0(req[r].inv.paid + Delta(r))
    <2>1. req[r].inv.paid + Delta(r) \in Int
      BY DeltaTyped DEF Handlers, InvoiceRows
    <2>2. paid \in Int
      BY <2>1 DEF Floor0
    <2>3. invoice' = Settle(invoice, paid, StatusAfter(paid))
      BY <1>4 DEF UpdateWrite
    <2>4. invoice' \in InvoiceRows
      <3> HIDE DEF paid
      <3> QED BY <2>2, <2>3, SettleTyped, StatusAfterTyped
    <2>5. req' \in [Requests -> Handlers]
      BY <1>4, GotoTyped DEF UpdateWrite, Steps
    <2> QED BY <1>4, <2>4, <2>5 DEF UpdateWrite
  <1>5. CASE UpdatePost(r)
    <2>1. CASE PostingFails
      <3>0. "update_post" \in Steps
        BY DEF Steps
      <3>1. [Blank EXCEPT !.pc = "done", !.at = "update_post"] \in Handlers
        BY <3>0, BlankTyped DEF Handlers
      <3>2. req' \in [Requests -> Handlers] /\ books' \in [cash : Int, receivable : Int, revenue : Int, wallet : Int]
        BY <1>5, <2>1, <3>1, UpdatedTyped, FinishTyped DEF UpdatePost, PostingFails
      <3> QED BY <1>5, <3>2 DEF UpdatePost
    <2>2. CASE ~PostingFails
      <3>1. req' \in [Requests -> Handlers]
        BY <1>5, <2>2, FinishTyped DEF UpdatePost
      <3>2. books' \in [cash : Int, receivable : Int, revenue : Int, wallet : Int]
        BY <1>5, <2>2, DeltaTyped, PostTyped DEF UpdatePost
      <3> QED BY <1>5, <3>1, <3>2 DEF UpdatePost
    <2> QED BY <2>1, <2>2
  <1> QED BY <1>1, <1>2, <1>3, <1>4, <1>5 DEF Update

LEMMA RemoveTyped ==
  ASSUME TypeOK, NEW r \in Requests, Remove(r), UNCHANGED refundVars
  PROVE  TypeOK'
  <1> USE DEF TypeOK, TypeOKBooks, TypeOKRefunds, refundVars
  <1>1. CASE RemoveStart(r)
    <2>1. PICK p \in Kept :
            req' = [req EXCEPT ![r] = [Blank EXCEPT !.pc = "remove_read", !.op = "remove",
                      !.pay = p, !.row = payments[p]]]
      BY <1>1 DEF RemoveStart
    <2>2. /\ "remove" \in Ops
          /\ p \in PaymentIds
          /\ payments[p] \in PaymentRows
          /\ "remove_read" \in Steps
      BY <1>1 DEF RemoveStart, CanStart, Kept, Steps
    <2>3. [Blank EXCEPT !.pc = "remove_read", !.op = "remove", !.pay = p,
             !.row = payments[p]] \in Handlers
      BY <2>2, BlankTyped DEF Handlers
    <2>4. req' \in [Requests -> Handlers]
      BY <2>1, <2>3, UpdatedTyped
    <2> QED BY <1>1, <2>4 DEF RemoveStart
  <1>2. CASE RemoveRead(r)
    <2>1. req' \in [Requests -> Handlers]
      BY <1>2, GotoInvTyped DEF RemoveRead, Steps
    <2> QED BY <1>2, <2>1 DEF RemoveRead
  <1>3. CASE RemoveWrite(r)
    <2> DEFINE paid == Floor0(req[r].inv.paid - req[r].row.amount)
    <2>1. req[r].inv.paid - req[r].row.amount \in Int
      BY DEF Handlers, InvoiceRows, PaymentRows
    <2>2. paid \in Int
      BY <2>1 DEF Floor0
    <2>3. invoice' = Settle(invoice, paid, StatusAfter(paid))
      BY <1>3 DEF RemoveWrite
    <2>4. invoice' \in InvoiceRows
      <3> HIDE DEF paid
      <3> QED BY <2>2, <2>3, SettleTyped, StatusAfterTyped
    <2>5. req' \in [Requests -> Handlers]
      BY <1>3, GotoTyped DEF RemoveWrite, Steps
    <2> QED BY <1>3, <2>4, <2>5 DEF RemoveWrite
  <1>4. CASE RemovePost(r)
    <2>1. req' \in [Requests -> Handlers]
      <3>1. CASE Goto(r, "remove_delete")
        BY <3>1, GotoTyped DEF Steps
      <3>2. CASE req' = [req EXCEPT ![r].pc = "remove_delete", ![r].at = "remove_post"]
        BY <3>2, GotoAtTyped DEF Steps
      <3> QED BY <1>4, <3>1, <3>2 DEF RemovePost
    <2>2. req[r].row.amount \in Int
      BY DEF Handlers, PaymentRows
    <2>3. books' \in [cash : Int, receivable : Int, revenue : Int, wallet : Int]
      BY <1>4, <2>2, PostTyped DEF RemovePost, PostingFails
    <2> QED BY <1>4, <2>1, <2>3 DEF RemovePost
  <1>5. CASE RemoveDelete(r)
    <2>1. [NoRow EXCEPT !.st = "deleted"] \in PaymentRows
      BY DEF NoRow, PaymentRows
    <2>2. payments' \in [PaymentIds -> PaymentRows]
      BY <1>5, <2>1 DEF RemoveDelete
    <2>3. req' \in [Requests -> Handlers]
      BY <1>5, FinishTyped DEF RemoveDelete
    <2> QED BY <1>5, <2>2, <2>3 DEF RemoveDelete
  <1> QED BY <1>1, <1>2, <1>3, <1>4, <1>5 DEF Remove

LEMMA RefundTyped ==
  ASSUME TypeOK, NEW r \in Requests, Refund(r)
  PROVE  TypeOK'
  <1> USE DEF TypeOK, TypeOKBooks, TypeOKRefunds
  <1>1. CASE RefundStart(r)
    <2>1. PICK p \in Kept, slice \in Amounts \cup {0}, toBalance \in BOOLEAN, owner \in BOOLEAN :
            LET row    == payments[p]
                amount == IF slice = 0 THEN Remaining(row) ELSE slice
            IN /\ ~row.closed
               /\ amount > 0
               /\ IF NeedsApproval(row, amount, owner)
                  THEN \E t \in Tickets :
                         /\ tickets[t].status = "none"
                         /\ tickets' = [tickets EXCEPT ![t] = [status |-> "PENDING", pay |-> p,
                                          amount |-> amount, toBalance |-> toBalance]]
                         /\ Finish(r)
                  ELSE /\ req' = [req EXCEPT ![r] = [Blank EXCEPT !.pc = "refund_read", !.op = "refund",
                                    !.pay = p, !.amount = slice, !.toBalance = toBalance]]
                       /\ UNCHANGED tickets
      BY <1>1 DEF RefundStart
    <2> DEFINE amount == IF slice = 0 THEN Remaining(payments[p]) ELSE slice
    <2>2. /\ "refund" \in Ops
          /\ "refund_read" \in Steps
          /\ slice \in Nat
          /\ p \in PaymentIds
      BY <1>1, BooksAssumption DEF RefundStart, CanStart, Kept, Steps
    <2>3. CASE NeedsApproval(payments[p], amount, owner)
      <3>1. amount \in Nat
        BY <2>1, <2>2 DEF Remaining, PaymentRows
      <3>2. PICK t \in Tickets :
              /\ tickets' = [tickets EXCEPT ![t] = [status |-> "PENDING", pay |-> p,
                               amount |-> amount, toBalance |-> toBalance]]
              /\ Finish(r)
        BY <2>1, <2>3
      <3>3. tickets' \in [Tickets -> TicketRows]
        <4> HIDE DEF amount
        <4> QED BY <2>2, <3>1, <3>2 DEF TicketRows
      <3>4. req' \in [Requests -> Handlers]
        BY <3>2, FinishTyped
      <3> QED BY <1>1, <3>3, <3>4 DEF RefundStart
    <2>4. CASE ~NeedsApproval(payments[p], amount, owner)
      <3>1. /\ req' = [req EXCEPT ![r] = [Blank EXCEPT !.pc = "refund_read", !.op = "refund",
                         !.pay = p, !.amount = slice, !.toBalance = toBalance]]
            /\ UNCHANGED tickets
        BY <2>1, <2>4
      <3>2. [Blank EXCEPT !.pc = "refund_read", !.op = "refund", !.pay = p, !.amount = slice,
               !.toBalance = toBalance] \in Handlers
        BY <2>2, BlankTyped DEF Handlers
      <3>3. req' \in [Requests -> Handlers]
        BY <3>1, <3>2, UpdatedTyped
      <3> QED BY <1>1, <3>1, <3>3 DEF RefundStart
    <2> QED BY <2>3, <2>4
  <1>2. CASE RefundRead(r)
    <2> DEFINE p == req[r].pay
               amount == IF req[r].amount = 0 THEN Remaining(payments[p]) ELSE req[r].amount
    <2>1. CASE p \in Kept /\ ~payments[p].closed /\ amount \in 1 .. Remaining(payments[p])
      <3>1. payments[p] \in PaymentRows
        BY <2>1 DEF Kept
      <3>2. amount \in Nat
        BY <2>1, <3>1 DEF Remaining, PaymentRows
      <3>3. req' = [req EXCEPT ![r].pc = "refund_claim", ![r].amount = amount,
                      ![r].row = payments[p], ![r].inv = invoice]
        BY <1>2, <2>1 DEF RefundRead
      <3>4. req' = [req EXCEPT ![r] = [req[r] EXCEPT !.pc = "refund_claim", !.amount = amount,
                      !.row = payments[p], !.inv = invoice]]
        <4> HIDE DEF amount, p
        <4> QED BY <3>3
      <3>5. "refund_claim" \in Steps
        BY DEF Steps
      <3>6. ASSUME NEW h \in Handlers
            PROVE  [h EXCEPT !.pc = "refund_claim", !.amount = amount, !.row = payments[p],
                      !.inv = invoice] \in Handlers
        <4> HIDE DEF amount, p
        <4> QED BY <3>1, <3>2, <3>5 DEF Handlers
      <3>7. req' \in [Requests -> Handlers]
        <4> HIDE DEF amount, p
        <4> QED BY <3>4, <3>6, UpdatedTyped
      <3> QED BY <1>2, <3>7 DEF RefundRead
    <2>2. CASE ~(p \in Kept /\ ~payments[p].closed /\ amount \in 1 .. Remaining(payments[p]))
      <3>1. req' \in [Requests -> Handlers]
        BY <1>2, <2>2, FinishTyped DEF RefundRead
      <3> QED BY <1>2, <3>1 DEF RefundRead
    <2> QED BY <2>1, <2>2
  <1>3. CASE RefundClaim(r)
    <2>1. req[r].row.refunded + req[r].amount \in Nat
      BY DEF Handlers, PaymentRows
    <2>2. payments' \in [PaymentIds -> PaymentRows]
      BY <1>3, <2>1 DEF RefundClaim, PaymentRows
    <2>3. moves' \in [Tickets -> Nat]
      BY <1>3 DEF RefundClaim
    <2>4. req' \in [Requests -> Handlers]
      BY <1>3, FinishTyped, GotoTyped DEF RefundClaim, Steps
    <2> QED BY <1>3, <2>2, <2>3, <2>4 DEF RefundClaim
  <1>4. CASE RefundInvoice(r)
    <2> DEFINE paid == Floor0(req[r].inv.paid - req[r].amount)
    <2>1. req[r].inv.paid - req[r].amount \in Int
      BY DEF Handlers, InvoiceRows
    <2>2. paid \in Int /\ Total - paid \in Int
      BY <2>1, BooksAssumption DEF Floor0
    <2>3. invoice' = [invoice EXCEPT !.paid = paid, !.due = Total - paid, !.status = StatusAfter(paid)]
      BY <1>4 DEF RefundInvoice
    <2>4. invoice' \in InvoiceRows
      <3> HIDE DEF paid
      <3> QED BY <2>2, <2>3, StatusAfterTyped DEF InvoiceRows
    <2>5. req' \in [Requests -> Handlers]
      BY <1>4, GotoTyped DEF RefundInvoice, Steps
    <2> QED BY <1>4, <2>4, <2>5 DEF RefundInvoice
  <1>5. CASE RefundWallet(r)
    <2>1. ASSUME NEW h \in Handlers
          PROVE  [h EXCEPT !.pc = "refund_credit", !.balance = wallet.balance] \in Handlers
      BY DEF Handlers, Steps
    <2>2. req' = [req EXCEPT ![r] = [req[r] EXCEPT !.pc = "refund_credit", !.balance = wallet.balance]]
      BY <1>5 DEF RefundWallet
    <2>3. req' \in [Requests -> Handlers]
      BY <2>1, <2>2, UpdatedTyped
    <2> QED BY <1>5, <2>3 DEF RefundWallet
  <1>6. CASE RefundCredit(r)
    <2>1. req[r].amount \in Nat /\ req[r].balance \in Int
      BY DEF Handlers
    <2>2. wallet' \in [balance : Int, statement : Int]
      BY <1>6, <2>1 DEF RefundCredit
    <2>3. given' \in [PaymentIds -> Nat]
      BY <1>6, <2>1, MoreGiven DEF RefundCredit
    <2>4. req' \in [Requests -> Handlers]
      BY <1>6, GotoTyped DEF RefundCredit, Steps
    <2> QED BY <1>6, <2>2, <2>3, <2>4 DEF RefundCredit
  <1>7. CASE RefundPost(r)
    <2>1. req[r].amount \in Nat
      BY DEF Handlers
    <2>2. books' \in [cash : Int, receivable : Int, revenue : Int, wallet : Int]
      BY <1>7, <2>1, PostTyped DEF RefundPost
    <2>3. given' \in [PaymentIds -> Nat]
      BY <1>7, <2>1, MoreGiven DEF RefundPost
    <2>4. req' \in [Requests -> Handlers]
      BY <1>7, FinishTyped, GotoTyped DEF RefundPost, Steps
    <2> QED BY <1>7, <2>2, <2>3, <2>4 DEF RefundPost
  <1> QED BY <1>1, <1>2, <1>3, <1>4, <1>5, <1>6, <1>7 DEF Refund

LEMMA ApprovalTyped ==
  ASSUME TypeOK, NEW r \in Requests, Approval(r)
  PROVE  TypeOK'
  <1> USE DEF TypeOK, TypeOKBooks, TypeOKRefunds
  <1>m. ASSUME NEW t, NEW s \in {"APPROVED", "REJECTED"}
        PROVE  [tickets EXCEPT ![t].status = s] \in [Tickets -> TicketRows]
    <2> HIDE DEF TypeOK
    <2>1. tickets \in [Tickets -> TicketRows]
      BY DEF TypeOK
    <2>2. CASE t \in Tickets
      <3>1. [tickets[t] EXCEPT !.status = s] \in TicketRows
        BY <2>1, <2>2 DEF TicketRows
      <3>2. [tickets EXCEPT ![t].status = s] = [tickets EXCEPT ![t] = [tickets[t] EXCEPT !.status = s]]
        BY <2>1, <2>2
      <3> QED BY <2>1, <2>2, <3>1, <3>2
    <2> QED BY <2>1, <2>2
  <1>1. CASE ApproveStart(r)
    <2>1. PICK t \in Tickets :
            req' = [req EXCEPT ![r] = [Blank EXCEPT !.pc = "refund_read", !.op = "approve", !.ref = t,
                      !.pay = tickets[t].pay, !.amount = tickets[t].amount,
                      !.toBalance = tickets[t].toBalance]]
      BY <1>1 DEF ApproveStart
    <2>2. /\ "approve" \in Ops
          /\ "refund_read" \in Steps
          /\ t \in Refs
          /\ tickets[t].pay \in PaymentIds \cup {NoOne}
          /\ tickets[t].amount \in Nat
          /\ tickets[t].toBalance \in BOOLEAN
      BY <1>1, RefundsAssumption DEF ApproveStart, CanStart, TicketRows, Steps
    <2>3. [Blank EXCEPT !.pc = "refund_read", !.op = "approve", !.ref = t, !.pay = tickets[t].pay,
             !.amount = tickets[t].amount, !.toBalance = tickets[t].toBalance] \in Handlers
      BY <2>2, BlankTyped DEF Handlers
    <2>4. req' \in [Requests -> Handlers]
      BY <2>1, <2>3, UpdatedTyped
    <2> QED BY <1>1, <2>4 DEF ApproveStart
  <1>2. CASE ApproveMark(r)
    <2>1. tickets' \in [Tickets -> TicketRows]
      BY <1>2, <1>m DEF ApproveMark
    <2>2. req' \in [Requests -> Handlers]
      BY <1>2, FinishTyped DEF ApproveMark
    <2> QED BY <1>2, <2>1, <2>2 DEF ApproveMark
  <1>3. CASE RejectStart(r)
    <2>1. PICK t \in Tickets :
            req' = [req EXCEPT ![r] = [Blank EXCEPT !.pc = "reject_mark", !.op = "reject", !.ref = t]]
      BY <1>3 DEF RejectStart
    <2>2. "reject" \in Ops /\ "reject_mark" \in Steps /\ t \in Refs
      BY <1>3, RefundsAssumption DEF RejectStart, CanStart, Steps
    <2>3. [Blank EXCEPT !.pc = "reject_mark", !.op = "reject", !.ref = t] \in Handlers
      BY <2>2, BlankTyped DEF Handlers
    <2>4. req' \in [Requests -> Handlers]
      BY <2>1, <2>3, UpdatedTyped
    <2> QED BY <1>3, <2>4 DEF RejectStart
  <1>4. CASE RejectMark(r)
    <2>1. tickets' \in [Tickets -> TicketRows]
      BY <1>4, <1>m DEF RejectMark
    <2>2. req' \in [Requests -> Handlers]
      BY <1>4, FinishTyped DEF RejectMark
    <2> QED BY <1>4, <2>1, <2>2 DEF RejectMark
  <1> QED BY <1>1, <1>2, <1>3, <1>4 DEF Approval

LEMMA ReverseTyped ==
  ASSUME TypeOK, NEW r \in Requests, Reverse(r)
  PROVE  TypeOK'
  <1> USE DEF TypeOK, TypeOKBooks, TypeOKRefunds
  <1>1. CASE ReverseStart(r)
    <2>1. "reverse" \in Ops /\ "reverse_write" \in Steps
      BY <1>1 DEF ReverseStart, CanStart, Steps
    <2>2. [Blank EXCEPT !.pc = "reverse_write", !.op = "reverse"] \in Handlers
      BY <2>1, BlankTyped DEF Handlers
    <2>3. req' \in [Requests -> Handlers]
      BY <1>1, <2>2, UpdatedTyped DEF ReverseStart
    <2> QED BY <1>1, <2>3 DEF ReverseStart
  <1>2. CASE ReverseWrite(r)
    <2>1. ASSUME NEW inv \in InvoiceRows
          PROVE  [inv EXCEPT !.status = "CANCELLED", !.due = 0, !.reversed = TRUE] \in InvoiceRows
      <3>1. "CANCELLED" \in InvoiceStatus /\ TRUE \in BOOLEAN /\ 0 \in Int
        BY DEF InvoiceStatus
      <3> QED BY <3>1 DEF InvoiceRows
    <2>2. invoice' \in InvoiceRows
      BY <1>2, <2>1 DEF ReverseWrite
    <2>3. req' \in [Requests -> Handlers]
      BY <1>2, GotoTyped DEF ReverseWrite, Steps
    <2> QED BY <1>2, <2>2, <2>3 DEF ReverseWrite
  <1>3. CASE ReversePost(r)
    <2>1. books' \in [cash : Int, receivable : Int, revenue : Int, wallet : Int]
      BY <1>3, PostTyped, BooksAssumption DEF ReversePost
    <2>2. req' \in [Requests -> Handlers]
      BY <1>3, FinishTyped DEF ReversePost
    <2> QED BY <1>3, <2>1, <2>2 DEF ReversePost
  <1> QED BY <1>1, <1>2, <1>3 DEF Reverse

LEMMA CrashTyped ==
  ASSUME TypeOK, NEW r \in Requests, Crash(r), UNCHANGED refundVars
  PROVE  TypeOK'
  BY CrashKeepsTypes DEF TypeOK, TypeOKRefunds, refundVars

LEMMA WindowTyped ==
  ASSUME TypeOK, NEW p \in PaymentIds, WindowPasses(p), UNCHANGED refundVars
  PROVE  TypeOK'
  BY WindowKeepsTypes DEF TypeOK, TypeOKRefunds, refundVars

LEMMA InitTyped == Init => TypeOK
  <1> SUFFICES ASSUME Init PROVE TypeOK
    OBVIOUS
  <1> USE DEF Init
  <1>1. TypeOKBooks
    BY BooksStartTyped
  <1>2. TypeOKRefunds
    BY DEF InitRefunds, TypeOKRefunds, NoTicket, TicketRows
  <1> QED BY <1>1, <1>2 DEF TypeOK

LEMMA StepTyped == TypeOK /\ [Next]_vars => TypeOK'
  <1> SUFFICES ASSUME TypeOK, [Next]_vars PROVE TypeOK'
    OBVIOUS
  <1>1. ASSUME NEW r \in Requests, Entry(r), UNCHANGED refundVars PROVE TypeOK'
    BY <1>1, RecordTyped, CreateTyped, UpdateTyped, RemoveTyped, CrashTyped DEF Entry
  <1>2. ASSUME NEW r \in Requests, MoneyBack(r) PROVE TypeOK'
    BY <1>2, RefundTyped, ApprovalTyped, ReverseTyped DEF MoneyBack
  <1>3. ASSUME NEW p \in PaymentIds, WindowPasses(p), UNCHANGED refundVars PROVE TypeOK'
    BY <1>3, WindowTyped
  <1>4. CASE UNCHANGED vars
    BY <1>4 DEF vars, TypeOK, TypeOKBooks, TypeOKRefunds
  <1> QED BY <1>1, <1>2, <1>3, <1>4 DEF Next

\* Every row of the invoice, payment, refund-request and wallet tables and every local
\* variable of a handler stays in its domain, whatever the handlers and amounts.
THEOREM TypeCorrect == Spec => []TypeOK
  <1>1. Init => TypeOK
    BY InitTyped
  <1>2. TypeOK /\ [Next]_vars => TypeOK'
    BY StepTyped
  <1> QED BY <1>1, <1>2, PTL DEF Spec

-----------------------------------------------------------------------------
(* Refunds never exceed the payment.  RefundClaim compares refundedAmount  *)
(* with the reading but takes the limit, payment.amount, from the reading  *)
(* alone: what makes that sound is that no other handler changes amount    *)
(* between the reading and the claim.  PaymentsService.update does, so the *)
(* theorem is about desks that do not edit payments.                       *)

\* Steps at which a handler holds an amount it will write to a payment.
Special == {"record_guard", "record_commit", "create_guard", "create_insert",
            "update_row", "refund_claim"}

AmountsPositive ==
  /\ \A p \in Kept : payments[p].amount > 0
  /\ \A r \in Requests :
       req[r].pc \in {"record_guard", "record_commit", "create_guard", "create_insert"}
         => req[r].amount > 0

\* A payment that was read is not inserted again and keeps the amount that was read.
ReadingsHold ==
  \A r \in Requests : At(r, "refund_claim") =>
    /\ req[r].pay \in PaymentIds
    /\ payments[req[r].pay].st # "none"
    /\ req[r].pay \in Kept => req[r].row.amount = payments[req[r].pay].amount
    /\ req[r].amount > 0
    /\ req[r].row.refunded + req[r].amount <= req[r].row.amount

NobodyEdits == \A r \in Requests : ~At(r, "update_row")

ClaimInv == AmountsPositive /\ ReadingsHold /\ NobodyEdits /\ ClaimsWithinPayments

\* Handlers other than r stand where they stood.
OthersWait(r) == \A s \in Requests \ {r} : req'[s] = req[s]

LEMMA QuietStep ==
  ASSUME ClaimInv, NEW r \in Requests, OthersWait(r), req'[r].pc \notin Special,
         UNCHANGED payments
  PROVE  ClaimInv'
  BY DEF ClaimInv, AmountsPositive, ReadingsHold, NobodyEdits, ClaimsWithinPayments, OthersWait,
     Special, At, Kept

LEMMA FinishQuiet ==
  ASSUME TypeOK, NEW r \in Requests, Finish(r)
  PROVE  OthersWait(r) /\ req'[r].pc \notin Special
  BY DEF TypeOK, TypeOKBooks, Finish, OthersWait, Special, Blank

LEMMA GotoQuiet ==
  ASSUME TypeOK, NEW r \in Requests, NEW step \in Steps \ Special, Goto(r, step)
  PROVE  OthersWait(r) /\ req'[r].pc \notin Special
  BY DEF TypeOK, TypeOKBooks, Goto, OthersWait, Special, Handlers

\* Inserting a payment of a positive amount, in a row that nobody can have read.
LEMMA InsertStep ==
  ASSUME TypeOK, ClaimInv, NEW r \in Requests, NEW p \in PaymentIds,
         payments[p].st = "none", req[r].amount > 0,
         payments' = [payments EXCEPT ![p] = NewPayment(r)],
         OthersWait(r), req'[r].pc \notin Special
  PROVE  ClaimInv'
  <1> USE DEF TypeOK, TypeOKBooks
  <1>1. /\ payments'[p].amount = req[r].amount
        /\ payments'[p].refunded = 0
        /\ payments'[p].closed = FALSE
        /\ payments'[p].st = "kept"
    BY DEF NewPayment
  <1>2. \A q \in PaymentIds \ {p} : payments'[q] = payments[q]
    OBVIOUS
  <1>3. req[r].amount \in Nat
    BY DEF Handlers
  <1>4. AmountsPositive'
    BY <1>1, <1>2 DEF ClaimInv, AmountsPositive, Kept, OthersWait, Special
  <1>5. ClaimsWithinPayments'
    BY <1>1, <1>2, <1>3 DEF ClaimInv, ClaimsWithinPayments, Kept
  <1>6. ReadingsHold'
    <2> SUFFICES ASSUME NEW s \in Requests, At(s, "refund_claim")'
                 PROVE  /\ req'[s].pay \in PaymentIds
                        /\ payments'[req'[s].pay].st # "none"
                        /\ (req[s].pay \in Kept)' => req'[s].row.amount = payments'[req'[s].pay].amount
                        /\ req'[s].amount > 0
                        /\ req'[s].row.refunded + req'[s].amount <= req'[s].row.amount
      BY DEF ReadingsHold
    <2>1. s # r
      BY DEF At, Special
    <2>2. req'[s] = req[s] /\ At(s, "refund_claim")
      BY <2>1 DEF OthersWait, At
    <2>3. req[s].pay \in PaymentIds /\ req[s].pay # p
      BY <2>2 DEF ClaimInv, ReadingsHold
    <2> QED BY <1>2, <2>2, <2>3 DEF ClaimInv, ReadingsHold, Kept
  <1>7. NobodyEdits'
    BY DEF ClaimInv, NobodyEdits, OthersWait, At, Special
  <1> QED BY <1>4, <1>5, <1>6, <1>7 DEF ClaimInv

\* A handler comes to hold a positive amount for a payment it has not inserted yet.
LEMMA HoldStep ==
  ASSUME ClaimInv, NEW r \in Requests, OthersWait(r),
         req'[r].pc \in {"record_guard", "record_commit", "create_guard", "create_insert"},
         req'[r].amount > 0, UNCHANGED payments
  PROVE  ClaimInv'
  BY DEF ClaimInv, AmountsPositive, ReadingsHold, NobodyEdits, ClaimsWithinPayments, OthersWait,
     At, Kept

\* A payment row disappears.
LEMMA DeleteStep ==
  ASSUME TypeOK, ClaimInv, NEW r \in Requests, NEW p \in PaymentIds,
         payments' = [payments EXCEPT ![p] = [NoRow EXCEPT !.st = "deleted"]],
         OthersWait(r), req'[r].pc \notin Special
  PROVE  ClaimInv'
  <1> USE DEF TypeOK, TypeOKBooks
  <1>1. payments'[p].st = "deleted"
    BY DEF NoRow
  <1>2. \A q \in PaymentIds \ {p} : payments'[q] = payments[q]
    OBVIOUS
  <1>3. p \notin Kept'
    BY <1>1 DEF Kept
  <1>4. AmountsPositive' /\ ClaimsWithinPayments'
    BY <1>2, <1>3 DEF ClaimInv, AmountsPositive, ClaimsWithinPayments, Kept, OthersWait, Special
  <1>5. ReadingsHold'
    <2> SUFFICES ASSUME NEW s \in Requests, At(s, "refund_claim")'
                 PROVE  /\ req'[s].pay \in PaymentIds
                        /\ payments'[req'[s].pay].st # "none"
                        /\ (req[s].pay \in Kept)' => req'[s].row.amount = payments'[req'[s].pay].amount
                        /\ req'[s].amount > 0
                        /\ req'[s].row.refunded + req'[s].amount <= req'[s].row.amount
      BY DEF ReadingsHold
    <2>1. s # r
      BY DEF At, Special
    <2>2. req'[s] = req[s] /\ At(s, "refund_claim")
      BY <2>1 DEF OthersWait, At
    <2>3. CASE req[s].pay = p
      BY <1>1, <1>3, <2>2, <2>3 DEF ClaimInv, ReadingsHold
    <2>4. CASE req[s].pay # p
      <3>1. req[s].pay \in PaymentIds
        BY <2>2 DEF ClaimInv, ReadingsHold
      <3> QED BY <1>2, <2>2, <2>4, <3>1 DEF ClaimInv, ReadingsHold, Kept
    <2> QED BY <2>3, <2>4
  <1>6. NobodyEdits'
    BY DEF ClaimInv, NobodyEdits, OthersWait, At, Special
  <1> QED BY <1>4, <1>5, <1>6 DEF ClaimInv

LEMMA RecordClaims ==
  ASSUME TypeOK, ClaimInv, NEW r \in Requests, Record(r)
  PROVE  ClaimInv'
  <1> USE DEF TypeOK, TypeOKBooks
  <1>1. CASE RecordStart(r)
    <2>1. PICK amount \in Amounts, method \in Methods, force \in BOOLEAN :
            req' = [req EXCEPT ![r] = [Blank EXCEPT !.pc = "record_guard", !.op = "record",
                      !.amount = amount, !.method = method, !.force = force, !.staff = TRUE]]
      BY <1>1 DEF RecordStart
    <2>2. OthersWait(r) /\ req'[r].pc = "record_guard" /\ req'[r].amount = amount
      BY <2>1 DEF OthersWait, Blank
    <2>3. amount > 0 /\ UNCHANGED payments
      BY <1>1, BooksAssumption DEF RecordStart
    <2> QED BY <2>2, <2>3, HoldStep
  <1>2. CASE RecordGuard(r)
    <2>1. UNCHANGED payments
      BY <1>2 DEF RecordGuard
    <2>2. CASE Finish(r)
      BY <2>1, <2>2, FinishQuiet, QuietStep
    <2>3. CASE Goto(r, "record_commit")
      <3>1. OthersWait(r) /\ req'[r].pc = "record_commit" /\ req'[r].amount = req[r].amount
        BY <2>3 DEF Goto, OthersWait, Handlers
      <3>2. req[r].amount > 0
        BY <1>2 DEF RecordGuard, At, ClaimInv, AmountsPositive
      <3> QED BY <2>1, <3>1, <3>2, HoldStep
    <2> QED BY <1>2, <2>2, <2>3 DEF RecordGuard
  <1>3. CASE RecordCommit(r)
    <2>1. CASE Finish(r) /\ UNCHANGED payments
      BY <2>1, FinishQuiet, QuietStep
    <2>2. CASE \E p \in PaymentIds :
                 /\ payments[p].st = "none"
                 /\ payments' = [payments EXCEPT ![p] = NewPayment(r)]
                 /\ req' = [req EXCEPT ![r].pc = "record_post", ![r].pay = p]
      <3>1. PICK p \in PaymentIds :
              /\ payments[p].st = "none"
              /\ payments' = [payments EXCEPT ![p] = NewPayment(r)]
              /\ req' = [req EXCEPT ![r].pc = "record_post", ![r].pay = p]
        BY <2>2
      <3>2. OthersWait(r) /\ req'[r].pc \notin Special
        BY <3>1 DEF OthersWait, Special, Handlers
      <3>3. req[r].amount > 0
        BY <1>3 DEF RecordCommit, At, ClaimInv, AmountsPositive
      <3> QED BY <3>1, <3>2, <3>3, InsertStep
    <2> QED BY <1>3, <2>1, <2>2 DEF RecordCommit
  <1>4. CASE RecordPost(r)
    <2>1. OthersWait(r) /\ req'[r].pc \notin Special
      BY <1>4, FinishQuiet, GotoQuiet DEF RecordPost, Steps, Special
    <2> QED BY <1>4, <2>1, QuietStep DEF RecordPost
  <1> QED BY <1>1, <1>2, <1>3, <1>4 DEF Record

LEMMA CreateClaims ==
  ASSUME TypeOK, ClaimInv, NEW r \in Requests, Create(r)
  PROVE  ClaimInv'
  <1> USE DEF TypeOK, TypeOKBooks
  <1>1. CASE CreateStart(r)
    <2>1. PICK amount \in Amounts, method \in Methods, force \in BOOLEAN :
            req' = [req EXCEPT ![r] = [Blank EXCEPT !.pc = "create_guard", !.op = "create",
                      !.amount = amount, !.method = method, !.force = force, !.staff = TRUE]]
      BY <1>1 DEF CreateStart
    <2>2. OthersWait(r) /\ req'[r].pc = "create_guard" /\ req'[r].amount = amount
      BY <2>1 DEF OthersWait, Blank
    <2>3. amount > 0 /\ UNCHANGED payments
      BY <1>1, BooksAssumption DEF CreateStart
    <2> QED BY <2>2, <2>3, HoldStep
  <1>2. CASE CreateGuard(r)
    <2>1. UNCHANGED payments
      BY <1>2 DEF CreateGuard
    <2>2. CASE Finish(r)
      BY <2>1, <2>2, FinishQuiet, QuietStep
    <2>3. CASE Goto(r, "create_insert")
      <3>1. OthersWait(r) /\ req'[r].pc = "create_insert" /\ req'[r].amount = req[r].amount
        BY <2>3 DEF Goto, OthersWait, Handlers
      <3>2. req[r].amount > 0
        BY <1>2 DEF CreateGuard, At, ClaimInv, AmountsPositive
      <3> QED BY <2>1, <3>1, <3>2, HoldStep
    <2> QED BY <1>2, <2>2, <2>3 DEF CreateGuard
  <1>3. CASE CreateInsert(r)
    <2>1. PICK p \in PaymentIds :
            /\ payments[p].st = "none"
            /\ payments' = [payments EXCEPT ![p] = NewPayment(r)]
            /\ req' = [req EXCEPT ![r].pc = "create_read", ![r].pay = p]
      BY <1>3 DEF CreateInsert
    <2>2. OthersWait(r) /\ req'[r].pc \notin Special
      BY <2>1 DEF OthersWait, Special, Handlers
    <2>3. req[r].amount > 0
      BY <1>3 DEF CreateInsert, At, ClaimInv, AmountsPositive
    <2> QED BY <2>1, <2>2, <2>3, InsertStep
  <1>4. CASE CreateRead(r)
    <2>1. OthersWait(r) /\ req'[r].pc \notin Special
      BY <1>4 DEF CreateRead, OthersWait, Special, Handlers
    <2> QED BY <1>4, <2>1, QuietStep DEF CreateRead
  <1>5. CASE CreateWrite(r)
    <2>1. OthersWait(r) /\ req'[r].pc \notin Special
      BY <1>5, GotoQuiet DEF CreateWrite, Steps, Special
    <2> QED BY <1>5, <2>1, QuietStep DEF CreateWrite
  <1>6. CASE CreatePost(r)
    BY <1>6, FinishQuiet, QuietStep DEF CreatePost
  <1> QED BY <1>1, <1>2, <1>3, <1>4, <1>5, <1>6 DEF Create

LEMMA UpdateClaims ==
  ASSUME TypeOK, ClaimInv, NEW r \in Requests, Update(r), "update" \notin Ops
  PROVE  ClaimInv'
  <1> USE DEF TypeOK, TypeOKBooks
  <1>1. ~UpdateStart(r) /\ ~UpdateRow(r)
    BY DEF UpdateStart, CanStart, UpdateRow, ClaimInv, NobodyEdits
  <1>2. CASE UpdateRead(r)
    <2>1. OthersWait(r) /\ req'[r].pc \notin Special
      BY <1>2 DEF UpdateRead, OthersWait, Special, Handlers
    <2> QED BY <1>2, <2>1, QuietStep DEF UpdateRead
  <1>3. CASE UpdateWrite(r)
    <2>1. OthersWait(r) /\ req'[r].pc \notin Special
      BY <1>3, GotoQuiet DEF UpdateWrite, Steps, Special
    <2> QED BY <1>3, <2>1, QuietStep DEF UpdateWrite
  <1>4. CASE UpdatePost(r)
    <2>1. CASE req' = [req EXCEPT ![r] = [Blank EXCEPT !.pc = "done", !.at = "update_post"]]
      <3>1. OthersWait(r) /\ req'[r].pc \notin Special
        BY <2>1 DEF OthersWait, Special, Blank
      <3> QED BY <1>4, <3>1, QuietStep DEF UpdatePost
    <2>2. CASE Finish(r)
      BY <1>4, <2>2, FinishQuiet, QuietStep DEF UpdatePost
    <2> QED BY <1>4, <2>1, <2>2 DEF UpdatePost
  <1> QED BY <1>1, <1>2, <1>3, <1>4 DEF Update

LEMMA RemoveClaims ==
  ASSUME TypeOK, ClaimInv, NEW r \in Requests, Remove(r)
  PROVE  ClaimInv'
  <1> USE DEF TypeOK, TypeOKBooks
  <1>1. CASE RemoveStart(r)
    <2>1. PICK p \in Kept :
            req' = [req EXCEPT ![r] = [Blank EXCEPT !.pc = "remove_read", !.op = "remove",
                      !.pay = p, !.row = payments[p]]]
      BY <1>1 DEF RemoveStart
    <2>2. OthersWait(r) /\ req'[r].pc \notin Special
      BY <2>1 DEF OthersWait, Special, Blank
    <2> QED BY <1>1, <2>2, QuietStep DEF RemoveStart
  <1>2. CASE RemoveRead(r)
    <2>1. OthersWait(r) /\ req'[r].pc \notin Special
      BY <1>2 DEF RemoveRead, OthersWait, Special, Handlers
    <2> QED BY <1>2, <2>1, QuietStep DEF RemoveRead
  <1>3. CASE RemoveWrite(r)
    <2>1. OthersWait(r) /\ req'[r].pc \notin Special
      BY <1>3, GotoQuiet DEF RemoveWrite, Steps, Special
    <2> QED BY <1>3, <2>1, QuietStep DEF RemoveWrite
  <1>4. CASE RemovePost(r)
    <2>1. CASE req' = [req EXCEPT ![r].pc = "remove_delete", ![r].at = "remove_post"]
      <3>1. OthersWait(r) /\ req'[r].pc \notin Special
        BY <2>1 DEF OthersWait, Special, Handlers
      <3> QED BY <1>4, <3>1, QuietStep DEF RemovePost
    <2>2. CASE Goto(r, "remove_delete")
      <3>1. OthersWait(r) /\ req'[r].pc \notin Special
        BY <2>2, GotoQuiet DEF Steps, Special
      <3> QED BY <1>4, <3>1, QuietStep DEF RemovePost
    <2> QED BY <1>4, <2>1, <2>2 DEF RemovePost
  <1>5. CASE RemoveDelete(r)
    <2>1. OthersWait(r) /\ req'[r].pc \notin Special
      BY <1>5, FinishQuiet DEF RemoveDelete
    <2>2. CASE req[r].pay \in Kept
      BY <1>5, <2>1, <2>2, DeleteStep DEF RemoveDelete, Kept
    <2>3. CASE req[r].pay \notin Kept
      BY <1>5, <2>1, <2>3, QuietStep DEF RemoveDelete
    <2> QED BY <2>2, <2>3
  <1> QED BY <1>1, <1>2, <1>3, <1>4, <1>5 DEF Remove

LEMMA RefundClaims ==
  ASSUME TypeOK, ClaimInv, NEW r \in Requests, Refund(r)
  PROVE  ClaimInv'
  <1> USE DEF TypeOK, TypeOKBooks
  <1>1. CASE RefundStart(r)
    <2>1. UNCHANGED payments
      BY <1>1 DEF RefundStart
    <2>2. CASE Finish(r)
      BY <2>1, <2>2, FinishQuiet, QuietStep
    <2>3. CASE \E p \in Kept, slice \in Amounts \cup {0}, toBalance \in BOOLEAN :
                 req' = [req EXCEPT ![r] = [Blank EXCEPT !.pc = "refund_read", !.op = "refund",
                           !.pay = p, !.amount = slice, !.toBalance = toBalance]]
      <3>1. OthersWait(r) /\ req'[r].pc \notin Special
        BY <2>3 DEF OthersWait, Special, Blank
      <3> QED BY <2>1, <3>1, QuietStep
    <2> QED BY <1>1, <2>2, <2>3 DEF RefundStart
  <1>2. CASE RefundRead(r)
    <2> DEFINE p == req[r].pay
               amount == IF req[r].amount = 0 THEN Remaining(payments[p]) ELSE req[r].amount
    <2>1. UNCHANGED payments
      BY <1>2 DEF RefundRead
    <2>2. CASE Finish(r)
      BY <2>1, <2>2, FinishQuiet, QuietStep
    <2>3. CASE ~Finish(r)
      <3>1. /\ p \in Kept
            /\ amount \in 1 .. Remaining(payments[p])
            /\ req' = [req EXCEPT ![r].pc = "refund_claim", ![r].amount = amount,
                         ![r].row = payments[p], ![r].inv = invoice]
        BY <1>2, <2>3 DEF RefundRead
      <3>2. p \in PaymentIds /\ payments[p] \in PaymentRows /\ payments[p].st = "kept"
        BY <3>1 DEF Kept
      <3>3. amount \in Nat /\ amount > 0 /\ payments[p].refunded + amount <= payments[p].amount
        <4> HIDE DEF amount, p
        <4>1. payments[p].amount \in Nat /\ payments[p].refunded \in Nat
          BY <3>2 DEF PaymentRows
        <4> QED BY <3>1, <4>1 DEF Remaining
      <3>4. /\ OthersWait(r)
            /\ req'[r].pc = "refund_claim"
            /\ req'[r].pay = p
            /\ req'[r].amount = amount
            /\ req'[r].row = payments[p]
        <4>1. req[r] \in Handlers
          OBVIOUS
        <4> HIDE DEF amount
        <4> QED BY <3>1, <4>1 DEF OthersWait, Handlers
      <3>5. ReadingsHold'
        <4> HIDE DEF amount, p
        <4> QED BY <2>1, <3>2, <3>3, <3>4 DEF ClaimInv, ReadingsHold, OthersWait, At, Kept
      <3>6. AmountsPositive' /\ NobodyEdits' /\ ClaimsWithinPayments'
        <4> HIDE DEF amount, p
        <4> QED BY <2>1, <3>4 DEF ClaimInv, AmountsPositive, NobodyEdits, ClaimsWithinPayments,
                   OthersWait, At, Kept
      <3> QED BY <3>5, <3>6 DEF ClaimInv
    <2> QED BY <2>2, <2>3
  <1>3. CASE RefundClaim(r)
    <2> DEFINE p == req[r].pay
               total == req[r].row.refunded + req[r].amount
    <2>1. OthersWait(r) /\ req'[r].pc \notin Special
      BY <1>3, FinishQuiet, GotoQuiet DEF RefundClaim, Steps, Special
    <2>2. CASE UNCHANGED payments
      BY <2>1, <2>2, QuietStep
    <2>3. CASE ~UNCHANGED payments
      <3>1. /\ p \in Kept
            /\ payments' = [payments EXCEPT ![p].refunded = total, ![p].closed = (total >= req[r].row.amount)]
        BY <1>3, <2>3 DEF RefundClaim
      <3>2. /\ p \in PaymentIds
            /\ req[r].row.amount = payments[p].amount
            /\ req[r].amount > 0
            /\ total <= payments[p].amount
        BY <1>3, <3>1 DEF RefundClaim, ClaimInv, ReadingsHold, At
      <3>3. /\ payments'[p].refunded = total
            /\ payments'[p].closed = (total >= payments[p].amount)
            /\ payments'[p].amount = payments[p].amount
            /\ payments'[p].st = payments[p].st
            /\ \A q \in PaymentIds \ {p} : payments'[q] = payments[q]
        <4>1. payments[p] \in PaymentRows
          BY <3>2
        <4> HIDE DEF total, p
        <4> QED BY <3>1, <3>2, <4>1 DEF PaymentRows
      <3>4. total \in Nat /\ payments[p].amount \in Nat
        BY <3>2 DEF Handlers, PaymentRows
      <3>5. \A q \in PaymentIds : payments'[q].st = payments[q].st /\ payments'[q].amount = payments[q].amount
        BY <3>3
      <3>6. AmountsPositive' /\ NobodyEdits'
        BY <2>1, <3>5 DEF ClaimInv, AmountsPositive, NobodyEdits, Kept, OthersWait, At, Special
      <3>7. ReadingsHold'
        BY <2>1, <3>5 DEF ClaimInv, ReadingsHold, Kept, OthersWait, At, Special
      <3>8. ClaimsWithinPayments'
        <4> SUFFICES ASSUME NEW q \in Kept'
                     PROVE  /\ payments'[q].refunded <= payments'[q].amount
                            /\ payments'[q].closed <=> payments'[q].refunded = payments'[q].amount
          BY DEF ClaimsWithinPayments
        <4>1. q \in Kept
          BY <3>5 DEF Kept
        <4>2. CASE q = p
          <5> HIDE DEF total, p
          <5>1. payments'[p].refunded <= payments'[p].amount
            BY <3>2, <3>3
          <5>2. (total >= payments[p].amount) <=> (total = payments[p].amount)
            BY <3>2, <3>4
          <5>3. payments'[p].closed <=> payments'[p].refunded = payments'[p].amount
            BY <3>3, <5>2
          <5> QED BY <4>2, <5>1, <5>3
        <4>3. CASE q # p
          BY <3>3, <4>1, <4>3 DEF ClaimInv, ClaimsWithinPayments, Kept
        <4> QED BY <4>2, <4>3
      <3> QED BY <3>6, <3>7, <3>8 DEF ClaimInv
    <2> QED BY <2>2, <2>3
  <1>4. CASE RefundInvoice(r)
    <2>1. OthersWait(r) /\ req'[r].pc \notin Special
      BY <1>4, GotoQuiet DEF RefundInvoice, Steps, Special
    <2> QED BY <1>4, <2>1, QuietStep DEF RefundInvoice
  <1>5. CASE RefundWallet(r)
    <2>1. OthersWait(r) /\ req'[r].pc \notin Special
      BY <1>5 DEF RefundWallet, OthersWait, Special, Handlers
    <2> QED BY <1>5, <2>1, QuietStep DEF RefundWallet
  <1>6. CASE RefundCredit(r)
    <2>1. OthersWait(r) /\ req'[r].pc \notin Special
      BY <1>6, GotoQuiet DEF RefundCredit, Steps, Special
    <2> QED BY <1>6, <2>1, QuietStep DEF RefundCredit
  <1>7. CASE RefundPost(r)
    <2>1. OthersWait(r) /\ req'[r].pc \notin Special
      BY <1>7, FinishQuiet, GotoQuiet DEF RefundPost, Steps, Special
    <2> QED BY <1>7, <2>1, QuietStep DEF RefundPost
  <1> QED BY <1>1, <1>2, <1>3, <1>4, <1>5, <1>6, <1>7 DEF Refund

LEMMA ApprovalClaims ==
  ASSUME TypeOK, ClaimInv, NEW r \in Requests, Approval(r)
  PROVE  ClaimInv'
  <1> USE DEF TypeOK, TypeOKBooks
  <1>1. CASE ApproveStart(r)
    <2>1. OthersWait(r) /\ req'[r].pc \notin Special
      BY <1>1 DEF ApproveStart, OthersWait, Special, Blank
    <2> QED BY <1>1, <2>1, QuietStep DEF ApproveStart
  <1>2. CASE RejectStart(r)
    <2>1. OthersWait(r) /\ req'[r].pc \notin Special
      BY <1>2 DEF RejectStart, OthersWait, Special, Blank
    <2> QED BY <1>2, <2>1, QuietStep DEF RejectStart
  <1>3. CASE ApproveMark(r) \/ RejectMark(r)
    BY <1>3, FinishQuiet, QuietStep DEF ApproveMark, RejectMark
  <1> QED BY <1>1, <1>2, <1>3 DEF Approval

LEMMA ReverseClaims ==
  ASSUME TypeOK, ClaimInv, NEW r \in Requests, Reverse(r)
  PROVE  ClaimInv'
  <1> USE DEF TypeOK, TypeOKBooks
  <1>1. CASE ReverseStart(r)
    <2>1. OthersWait(r) /\ req'[r].pc \notin Special
      BY <1>1 DEF ReverseStart, OthersWait, Special, Blank
    <2> QED BY <1>1, <2>1, QuietStep DEF ReverseStart
  <1>2. CASE ReverseWrite(r)
    <2>1. OthersWait(r) /\ req'[r].pc \notin Special
      BY <1>2, GotoQuiet DEF ReverseWrite, Steps, Special
    <2> QED BY <1>2, <2>1, QuietStep DEF ReverseWrite
  <1>3. CASE ReversePost(r)
    BY <1>3, FinishQuiet, QuietStep DEF ReversePost
  <1> QED BY <1>1, <1>2, <1>3 DEF Reverse

LEMMA CrashClaims ==
  ASSUME TypeOK, ClaimInv, NEW r \in Requests, Crash(r)
  PROVE  ClaimInv'
  <1> USE DEF TypeOK, TypeOKBooks
  <1>1. OthersWait(r) /\ req'[r].pc \notin Special
    BY DEF Crash, OthersWait, Special, Handlers
  <1> QED BY <1>1, QuietStep DEF Crash

LEMMA WindowClaims ==
  ASSUME TypeOK, ClaimInv, NEW p \in PaymentIds, WindowPasses(p)
  PROVE  ClaimInv'
  <1> USE DEF TypeOK, TypeOKBooks
  <1>1. \A q \in PaymentIds : /\ payments'[q].st = payments[q].st
                              /\ payments'[q].amount = payments[q].amount
                              /\ payments'[q].refunded = payments[q].refunded
                              /\ payments'[q].closed = payments[q].closed
    BY DEF WindowPasses, PaymentRows
  <1>2. UNCHANGED req
    BY DEF WindowPasses
  <1> QED BY <1>1, <1>2 DEF ClaimInv, AmountsPositive, ReadingsHold, NobodyEdits,
            ClaimsWithinPayments, Kept, At

LEMMA ClaimInit == Init => ClaimInv
  BY DEF Init, InitBooks, ClaimInv, AmountsPositive, ReadingsHold, NobodyEdits,
     ClaimsWithinPayments, Kept, At, NoRow, Blank

LEMMA ClaimStep ==
  ASSUME "update" \notin Ops, TypeOK, ClaimInv, [Next]_vars
  PROVE  ClaimInv'
  <1>1. ASSUME NEW r \in Requests, Entry(r) PROVE ClaimInv'
    BY <1>1, RecordClaims, CreateClaims, UpdateClaims, RemoveClaims, CrashClaims DEF Entry
  <1>2. ASSUME NEW r \in Requests, MoneyBack(r) PROVE ClaimInv'
    BY <1>2, RefundClaims, ApprovalClaims, ReverseClaims DEF MoneyBack
  <1>3. ASSUME NEW p \in PaymentIds, WindowPasses(p) PROVE ClaimInv'
    BY <1>3, WindowClaims
  <1>4. CASE UNCHANGED vars
    BY <1>4 DEF vars, ClaimInv, AmountsPositive, ReadingsHold, NobodyEdits,
       ClaimsWithinPayments, Kept, At
  <1> QED BY <1>1, <1>2, <1>3, <1>4 DEF Next

\* However many refunds, approvals, deletions and crashes interleave, no more is claimed on
\* a payment than was paid, as long as nobody edits the amounts of payments.
THEOREM RefundsWithinPayments ==
  ASSUME "update" \notin Ops
  PROVE  Spec => []ClaimsWithinPayments
  <1>1. Init => TypeOK /\ ClaimInv
    BY InitTyped, ClaimInit
  <1>2. TypeOK /\ ClaimInv /\ [Next]_vars => TypeOK' /\ ClaimInv'
    BY StepTyped, ClaimStep
  <1>3. ClaimInv => ClaimsWithinPayments
    BY DEF ClaimInv
  <1> QED BY <1>1, <1>2, <1>3, PTL DEF Spec

-----------------------------------------------------------------------------
(* An approved refund request moved money.  approveRefundRequest marks the *)
(* request only after refundPayment returned, and refundPayment returns    *)
(* only after its claim; the request may have been rejected in between.    *)

\* Steps that a refund reaches only through a claim that succeeded.
Claimed == {"refund_invoice", "refund_wallet", "refund_credit", "refund_post", "approve_mark"}

ApprovalInv ==
  /\ \A r \in Requests :
       /\ req[r].op = "approve" => req[r].ref \in Tickets
       /\ req[r].op = "approve" /\ req[r].pc \in Claimed => moves[req[r].ref] > 0
       /\ req[r].pc = "approve_mark" => req[r].op = "approve"
  /\ ApprovedMoved

\* r's step leaves it without a claim, working for the request it worked for, or for none.
ApprovalIdle(r) ==
  /\ OthersWait(r)
  /\ req'[r].pc \notin Claimed
  /\ req'[r].op = "approve" => req[r].op = "approve" /\ req'[r].ref = req[r].ref

LEMMA IdleStep ==
  ASSUME ApprovalInv, NEW r \in Requests, ApprovalIdle(r), UNCHANGED refundVars
  PROVE  ApprovalInv'
  BY DEF ApprovalInv, ApprovedMoved, ApprovalIdle, OthersWait, Claimed, refundVars

LEMMA FinishIdle ==
  ASSUME TypeOK, NEW r \in Requests, Finish(r)
  PROVE  ApprovalIdle(r)
  BY DEF TypeOK, TypeOKBooks, Finish, ApprovalIdle, OthersWait, Claimed, Blank

LEMMA GotoIdle ==
  ASSUME TypeOK, NEW r \in Requests, NEW step \in Steps \ Claimed, Goto(r, step)
  PROVE  ApprovalIdle(r)
  BY DEF TypeOK, TypeOKBooks, Goto, ApprovalIdle, OthersWait, Handlers

LEMMA OthersIdle ==
  ASSUME TypeOK, NEW r \in Requests, Entry(r) \/ Reverse(r)
  PROVE  ApprovalIdle(r)
  <1> USE DEF TypeOK, TypeOKBooks
  <1>1. CASE RecordStart(r)
    <2>1. PICK amount \in Amounts, method \in Methods, force \in BOOLEAN :
            req' = [req EXCEPT ![r] = [Blank EXCEPT !.pc = "record_guard", !.op = "record",
                      !.amount = amount, !.method = method, !.force = force, !.staff = TRUE]]
      BY <1>1 DEF RecordStart
    <2> QED BY <2>1 DEF ApprovalIdle, OthersWait, Blank, Claimed
  <1>2. CASE RecordGuard(r)
    BY <1>2, FinishIdle, GotoIdle DEF RecordGuard, Steps, Claimed
  <1>3. CASE RecordCommit(r)
    <2>1. CASE Finish(r)
      BY <2>1, FinishIdle
    <2>2. CASE \E p \in PaymentIds : req' = [req EXCEPT ![r].pc = "record_post", ![r].pay = p]
      BY <2>2 DEF ApprovalIdle, OthersWait, Claimed, Handlers
    <2> QED BY <1>3, <2>1, <2>2 DEF RecordCommit
  <1>4. CASE RecordPost(r)
    BY <1>4, FinishIdle, GotoIdle DEF RecordPost, Steps, Claimed
  <1>5. CASE CreateStart(r)
    <2>1. PICK amount \in Amounts, method \in Methods, force \in BOOLEAN :
            req' = [req EXCEPT ![r] = [Blank EXCEPT !.pc = "create_guard", !.op = "create",
                      !.amount = amount, !.method = method, !.force = force, !.staff = TRUE]]
      BY <1>5 DEF CreateStart
    <2> QED BY <2>1 DEF ApprovalIdle, OthersWait, Blank, Claimed
  <1>6. CASE CreateGuard(r)
    BY <1>6, FinishIdle, GotoIdle DEF CreateGuard, Steps, Claimed
  <1>7. CASE CreateInsert(r)
    BY <1>7 DEF CreateInsert, ApprovalIdle, OthersWait, Finish, Goto, Blank, Claimed, Handlers
  <1>8. CASE CreateRead(r)
    BY <1>8 DEF CreateRead, ApprovalIdle, OthersWait, Finish, Goto, Blank, Claimed, Handlers
  <1>9. CASE CreateWrite(r)
    BY <1>9, FinishIdle, GotoIdle DEF CreateWrite, Steps, Claimed
  <1>10. CASE CreatePost(r)
    BY <1>10, FinishIdle, GotoIdle DEF CreatePost, Steps, Claimed
  <1>11. CASE UpdateStart(r)
    <2>1. PICK p \in Kept, amount \in Amounts :
            req' = [req EXCEPT ![r] = [Blank EXCEPT !.pc = "update_row", !.op = "update",
                      !.pay = p, !.amount = amount, !.row = payments[p]]]
      BY <1>11 DEF UpdateStart
    <2> QED BY <2>1 DEF ApprovalIdle, OthersWait, Blank, Claimed
  <1>12. CASE UpdateRow(r)
    BY <1>12, FinishIdle, GotoIdle DEF UpdateRow, Steps, Claimed
  <1>13. CASE UpdateRead(r)
    BY <1>13 DEF UpdateRead, ApprovalIdle, OthersWait, Finish, Goto, Blank, Claimed, Handlers
  <1>14. CASE UpdateWrite(r)
    BY <1>14, FinishIdle, GotoIdle DEF UpdateWrite, Steps, Claimed
  <1>15. CASE UpdatePost(r)
    <2>1. CASE Finish(r)
      BY <2>1, FinishIdle
    <2>2. CASE req' = [req EXCEPT ![r] = [Blank EXCEPT !.pc = "done", !.at = "update_post"]]
      BY <2>2 DEF ApprovalIdle, OthersWait, Claimed, Blank
    <2> QED BY <1>15, <2>1, <2>2 DEF UpdatePost
  <1>16. CASE RemoveStart(r)
    BY <1>16 DEF RemoveStart, ApprovalIdle, OthersWait, Finish, Goto, Blank, Claimed, Handlers
  <1>17. CASE RemoveRead(r)
    BY <1>17 DEF RemoveRead, ApprovalIdle, OthersWait, Finish, Goto, Blank, Claimed, Handlers
  <1>18. CASE RemoveWrite(r)
    BY <1>18 DEF RemoveWrite, ApprovalIdle, OthersWait, Finish, Goto, Blank, Claimed, Handlers
  <1>19. CASE RemovePost(r)
    BY <1>19 DEF RemovePost, ApprovalIdle, OthersWait, Finish, Goto, Blank, Claimed, Handlers
  <1>20. CASE RemoveDelete(r)
    BY <1>20, FinishIdle, GotoIdle DEF RemoveDelete, Steps, Claimed
  <1>21. CASE Crash(r)
    BY <1>21 DEF Crash, ApprovalIdle, OthersWait, Finish, Goto, Blank, Claimed, Handlers
  <1>22. CASE ReverseStart(r)
    BY <1>22 DEF ReverseStart, ApprovalIdle, OthersWait, Finish, Goto, Blank, Claimed, Handlers
  <1>23. CASE ReverseWrite(r)
    BY <1>23, FinishIdle, GotoIdle DEF ReverseWrite, Steps, Claimed
  <1>24. CASE ReversePost(r)
    BY <1>24, FinishIdle, GotoIdle DEF ReversePost, Steps, Claimed
  <1> QED
    BY <1>1, <1>2, <1>3, <1>4, <1>5, <1>6, <1>7, <1>8, <1>9, <1>10, <1>11, <1>12, <1>13, <1>14, <1>15, <1>16, <1>17, <1>18, <1>19, <1>20, <1>21, <1>22, <1>23, <1>24
    DEF Entry, Record, Create, Update, Remove, Reverse

\* A refund that has claimed money goes on to its next statement.
LEMMA ClaimedStep ==
  ASSUME ApprovalInv, NEW r \in Requests, req[r].pc \in Claimed, OthersWait(r),
         req'[r].pc \in Claimed, req'[r].op = req[r].op, req'[r].ref = req[r].ref,
         req'[r].pc = "approve_mark" => req[r].op = "approve", UNCHANGED refundVars
  PROVE  ApprovalInv'
  BY DEF ApprovalInv, ApprovedMoved, OthersWait, refundVars

LEMMA GotoOthers ==
  ASSUME TypeOK, NEW r \in Requests, NEW step \in Steps, Goto(r, step)
  PROVE  /\ OthersWait(r)
         /\ req'[r].pc = step
         /\ req'[r].op = req[r].op
         /\ req'[r].ref = req[r].ref
  BY DEF TypeOK, TypeOKBooks, Goto, OthersWait, Handlers

LEMMA RefundApproved ==
  ASSUME TypeOK, ApprovalInv, NEW r \in Requests, Refund(r)
  PROVE  ApprovalInv'
  <1> USE DEF TypeOK, TypeOKBooks, TypeOKRefunds
  <1>1. CASE RefundStart(r)
    <2>1. UNCHANGED moves
      BY <1>1 DEF RefundStart
    <2>2. CASE \E t \in Tickets :
                 /\ Finish(r)
                 /\ \A u \in Tickets \ {t} : tickets'[u] = tickets[u]
                 /\ tickets'[t].status = "PENDING"
      <3>1. ApprovalIdle(r)
        BY <2>2, FinishIdle
      <3>2. \A u \in Tickets : tickets'[u].status = "APPROVED" => tickets[u].status = "APPROVED"
        BY <2>2
      <3>3. ApprovedMoved'
        BY <2>1, <3>2 DEF ApprovalInv, ApprovedMoved
      <3> QED BY <2>1, <3>1, <3>3 DEF ApprovalInv, ApprovalIdle, OthersWait, Claimed
    <2>3. CASE \E p \in Kept, slice \in Amounts \cup {0}, toBalance \in BOOLEAN :
                 /\ req' = [req EXCEPT ![r] = [Blank EXCEPT !.pc = "refund_read", !.op = "refund",
                              !.pay = p, !.amount = slice, !.toBalance = toBalance]]
                 /\ UNCHANGED tickets
      <3>1. ApprovalIdle(r)
        BY <2>3 DEF ApprovalIdle, OthersWait, Blank, Claimed
      <3> QED BY <2>1, <2>3, <3>1, IdleStep DEF refundVars
    <2>4. PICK p \in Kept, slice \in Amounts \cup {0}, toBalance \in BOOLEAN, owner \in BOOLEAN :
            LET row    == payments[p]
                amount == IF slice = 0 THEN Remaining(row) ELSE slice
            IN /\ ~row.closed
               /\ amount > 0
               /\ IF NeedsApproval(row, amount, owner)
                  THEN \E t \in Tickets :
                         /\ tickets[t].status = "none"
                         /\ tickets' = [tickets EXCEPT ![t] = [status |-> "PENDING", pay |-> p,
                                          amount |-> amount, toBalance |-> toBalance]]
                         /\ Finish(r)
                  ELSE /\ req' = [req EXCEPT ![r] = [Blank EXCEPT !.pc = "refund_read", !.op = "refund",
                                    !.pay = p, !.amount = slice, !.toBalance = toBalance]]
                       /\ UNCHANGED tickets
      BY <1>1 DEF RefundStart
    <2> DEFINE amount == IF slice = 0 THEN Remaining(payments[p]) ELSE slice
    <2>5. CASE NeedsApproval(payments[p], amount, owner)
      <3>1. PICK t \in Tickets :
              /\ tickets' = [tickets EXCEPT ![t] = [status |-> "PENDING", pay |-> p,
                               amount |-> amount, toBalance |-> toBalance]]
              /\ Finish(r)
        BY <2>4, <2>5
      <3>2. /\ \A u \in Tickets \ {t} : tickets'[u] = tickets[u]
            /\ tickets'[t].status = "PENDING"
        <4> HIDE DEF amount
        <4> QED BY <3>1
      <3> QED BY <2>2, <3>1, <3>2
    <2>6. CASE ~NeedsApproval(payments[p], amount, owner)
      BY <2>3, <2>4, <2>6
    <2> QED BY <2>5, <2>6
  <1>2. CASE RefundRead(r)
    <2>1. UNCHANGED refundVars
      BY <1>2 DEF RefundRead, refundVars
    <2>2. CASE Finish(r)
      BY <2>1, <2>2, FinishIdle, IdleStep
    <2>3. CASE ~Finish(r)
      <3>1. PICK amount, row :
              req' = [req EXCEPT ![r].pc = "refund_claim", ![r].amount = amount, ![r].row = row, ![r].inv = invoice]
        BY <1>2, <2>3 DEF RefundRead
      <3>2. ApprovalIdle(r)
        BY <3>1 DEF ApprovalIdle, OthersWait, Claimed, Handlers
      <3> QED BY <2>1, <3>2, IdleStep
    <2> QED BY <2>2, <2>3
  <1>3. CASE RefundClaim(r)
    <2>1. CASE Finish(r) /\ UNCHANGED moves
      BY <1>3, <2>1, FinishIdle, IdleStep DEF RefundClaim, refundVars
    <2>2. CASE ~(Finish(r) /\ UNCHANGED moves)
      <3>1. /\ moves' = IF req[r].ref \in Tickets THEN [moves EXCEPT ![req[r].ref] = @ + 1] ELSE moves
            /\ Goto(r, "refund_invoice")
            /\ UNCHANGED tickets
        BY <1>3, <2>2 DEF RefundClaim
      <3>2. /\ OthersWait(r)
            /\ req'[r].pc = "refund_invoice"
            /\ req'[r].op = req[r].op
            /\ req'[r].ref = req[r].ref
        BY <3>1, GotoOthers DEF Steps
      <3>3. \A t \in Tickets : moves'[t] >= moves[t] /\ moves[t] >= 0
        BY <3>1
      <3>4. req[r].ref \in Tickets => moves'[req[r].ref] > 0
        BY <3>1
      <3>5. \A t \in Tickets : moves[t] > 0 => moves'[t] > 0
        BY <3>1
      <3> QED BY <3>1, <3>2, <3>4, <3>5 DEF ApprovalInv, ApprovedMoved, OthersWait
    <2> QED BY <2>1, <2>2
  <1>4. CASE RefundInvoice(r)
    <2>1. req[r].pc \in Claimed /\ UNCHANGED refundVars
      BY <1>4 DEF RefundInvoice, At, Claimed, refundVars
    <2>2. OthersWait(r) /\ req'[r].pc \in {"refund_wallet", "refund_post"}
            /\ req'[r].op = req[r].op /\ req'[r].ref = req[r].ref
      BY <1>4, GotoOthers DEF RefundInvoice, Steps
    <2> QED BY <2>1, <2>2, ClaimedStep DEF Claimed
  <1>5. CASE RefundWallet(r)
    <2>1. req[r].pc \in Claimed /\ UNCHANGED refundVars
      BY <1>5 DEF RefundWallet, At, Claimed, refundVars
    <2>2. OthersWait(r) /\ req'[r].pc = "refund_credit"
            /\ req'[r].op = req[r].op /\ req'[r].ref = req[r].ref
      BY <1>5 DEF RefundWallet, OthersWait, Handlers
    <2> QED BY <2>1, <2>2, ClaimedStep DEF Claimed
  <1>6. CASE RefundCredit(r)
    <2>1. req[r].pc \in Claimed /\ UNCHANGED refundVars
      BY <1>6 DEF RefundCredit, At, Claimed, refundVars
    <2>2. OthersWait(r) /\ req'[r].pc = "refund_post"
            /\ req'[r].op = req[r].op /\ req'[r].ref = req[r].ref
      BY <1>6, GotoOthers DEF RefundCredit, Steps
    <2> QED BY <2>1, <2>2, ClaimedStep DEF Claimed
  <1>7. CASE RefundPost(r)
    <2>1. req[r].pc \in Claimed /\ UNCHANGED refundVars
      BY <1>7 DEF RefundPost, At, Claimed, refundVars
    <2>2. CASE req[r].op = "approve"
      <3>1. OthersWait(r) /\ req'[r].pc = "approve_mark"
              /\ req'[r].op = req[r].op /\ req'[r].ref = req[r].ref
        BY <1>7, <2>2, GotoOthers DEF RefundPost, Steps
      <3> QED BY <2>1, <2>2, <3>1, ClaimedStep DEF Claimed
    <2>3. CASE req[r].op # "approve"
      BY <1>7, <2>1, <2>3, FinishIdle, IdleStep DEF RefundPost
    <2> QED BY <2>2, <2>3
  <1> QED BY <1>1, <1>2, <1>3, <1>4, <1>5, <1>6, <1>7 DEF Refund

LEMMA ApprovalApproved ==
  ASSUME TypeOK, ApprovalInv, NEW r \in Requests, Approval(r)
  PROVE  ApprovalInv'
  <1> USE DEF TypeOK, TypeOKBooks, TypeOKRefunds
  <1>1. CASE ApproveStart(r)
    <2>1. PICK t \in Tickets :
            req' = [req EXCEPT ![r] = [Blank EXCEPT !.pc = "refund_read", !.op = "approve", !.ref = t,
                      !.pay = tickets[t].pay, !.amount = tickets[t].amount,
                      !.toBalance = tickets[t].toBalance]]
      BY <1>1 DEF ApproveStart
    <2>2. OthersWait(r) /\ req'[r].ref = t /\ req'[r].pc = "refund_read"
      BY <2>1 DEF OthersWait, Blank
    <2>3. UNCHANGED refundVars
      BY <1>1 DEF ApproveStart, refundVars
    <2> QED BY <2>2, <2>3 DEF ApprovalInv, ApprovedMoved, OthersWait, Claimed, refundVars
  <1>2. CASE ApproveMark(r)
    <2>1. ApprovalIdle(r) /\ UNCHANGED moves
      BY <1>2, FinishIdle DEF ApproveMark
    <2>2. tickets' = [tickets EXCEPT ![req[r].ref].status = "APPROVED"]
      BY <1>2 DEF ApproveMark
    <2>3. req[r].ref \in Tickets /\ moves[req[r].ref] > 0
      BY <1>2 DEF ApproveMark, At, ApprovalInv, Claimed
    <2>4. \A t \in Tickets : t # req[r].ref => tickets'[t] = tickets[t]
      BY <2>2
    <2>5. ApprovedMoved'
      BY <2>1, <2>3, <2>4 DEF ApprovalInv, ApprovedMoved
    <2> QED BY <2>1, <2>5 DEF ApprovalInv, ApprovalIdle, OthersWait, Claimed
  <1>3. CASE RejectStart(r)
    <2>1. ApprovalIdle(r)
      BY <1>3 DEF RejectStart, ApprovalIdle, OthersWait, Blank, Claimed
    <2> QED BY <1>3, <2>1, IdleStep DEF RejectStart, refundVars
  <1>4. CASE RejectMark(r)
    <2>1. ApprovalIdle(r) /\ UNCHANGED moves
      BY <1>4, FinishIdle DEF RejectMark
    <2>2. \A t \in Tickets : tickets'[t].status = "APPROVED" => tickets[t].status = "APPROVED"
      BY <1>4 DEF RejectMark, TicketRows
    <2>3. ApprovedMoved'
      BY <2>1, <2>2 DEF ApprovalInv, ApprovedMoved
    <2> QED BY <2>1, <2>3 DEF ApprovalInv, ApprovalIdle, OthersWait, Claimed
  <1> QED BY <1>1, <1>2, <1>3, <1>4 DEF Approval

LEMMA ApprovalInit == Init => ApprovalInv
  BY DEF Init, InitBooks, InitRefunds, ApprovalInv, ApprovedMoved, Blank, NoTicket, Claimed

LEMMA ApprovalStep ==
  ASSUME TypeOK, ApprovalInv, [Next]_vars
  PROVE  ApprovalInv'
  <1>1. ASSUME NEW r \in Requests, Entry(r), UNCHANGED refundVars PROVE ApprovalInv'
    BY <1>1, OthersIdle, IdleStep
  <1>2. ASSUME NEW r \in Requests, Reverse(r) PROVE ApprovalInv'
    <2>1. UNCHANGED refundVars
      BY <1>2 DEF Reverse, ReverseStart, ReverseWrite, ReversePost, refundVars
    <2> QED BY <1>2, <2>1, OthersIdle, IdleStep
  <1>3. ASSUME NEW r \in Requests, MoneyBack(r) PROVE ApprovalInv'
    BY <1>2, <1>3, RefundApproved, ApprovalApproved DEF MoneyBack
  <1>4. ASSUME NEW p \in PaymentIds, WindowPasses(p), UNCHANGED refundVars PROVE ApprovalInv'
    BY <1>4 DEF WindowPasses, refundVars, ApprovalInv, ApprovedMoved
  <1>5. CASE UNCHANGED vars
    BY <1>5 DEF vars, ApprovalInv, ApprovedMoved
  <1> QED BY <1>1, <1>3, <1>4, <1>5 DEF Next

\* A refund request that reads APPROVED moved money, also when approvals and rejections of
\* the same request cross or an approver's handler dies.
THEOREM ApprovedRequestsMoved == Spec => []ApprovedMoved
  <1>1. Init => TypeOK /\ ApprovalInv
    BY InitTyped, ApprovalInit
  <1>2. TypeOK /\ ApprovalInv /\ [Next]_vars => TypeOK' /\ ApprovalInv'
    BY StepTyped, ApprovalStep
  <1>3. ApprovalInv => ApprovedMoved
    BY DEF ApprovalInv
  <1> QED BY <1>1, <1>2, <1>3, PTL DEF Spec

-----------------------------------------------------------------------------
(* A claimed refund is handed back once.  What every step but a refund's   *)
(* claim and its hand-over has in common is that its handler owes nothing  *)
(* before or after it; a handler that dies owes what it owed.              *)

\* Steps at which a refund has claimed money that it has not posted.
OwingSteps == {"refund_invoice", "refund_wallet", "refund_credit", "refund_post"}

OwesNothing(r) == req[r].pc \notin OwingSteps \cup {"crashed"}

Debt(r, p) == IF Owing(r, p) THEN req[r].amount ELSE 0

\* No row is inserted twice, and no refund total changes but of a row that is inserted.
RefundedStays ==
  \A p \in PaymentIds :
    /\ payments'[p].st = "none" => payments[p].st = "none"
    /\ payments'[p].st = "kept" =>
         \/ payments[p].st = "kept" /\ payments'[p].refunded = payments[p].refunded
         \/ payments[p].st = "none" /\ payments'[p].refunded = 0

\* r's step has nothing to do with handing money back.
PlainStep(r) ==
  /\ OthersWait(r)
  /\ OwesNothing(r)
  /\ OwesNothing(r)'
  /\ RefundedStays
  /\ UNCHANGED given

GivenInv ==
  /\ \A p \in PaymentIds :
       payments[p].st = "none" => given[p] = 0 /\ \A r \in Requests : ~Owing(r, p)
  /\ \A r \in Requests : Stopped(r, {"refund_wallet", "refund_credit"}) => req[r].toBalance
  /\ EveryClaimGivenOnce

LEMMA FinishPlain ==
  ASSUME TypeOK, NEW r \in Requests, Finish(r)
  PROVE  OthersWait(r) /\ OwesNothing(r)'
  BY DEF TypeOK, TypeOKBooks, Finish, OthersWait, OwesNothing, OwingSteps, Blank

LEMMA GotoPlain ==
  ASSUME TypeOK, NEW r \in Requests, NEW step \in Steps \ OwingSteps, Goto(r, step)
  PROVE  OthersWait(r) /\ OwesNothing(r)'
  <1>1. step # "crashed"
    BY DEF Steps
  <1> QED BY <1>1 DEF TypeOK, TypeOKBooks, Goto, OthersWait, OwesNothing, OwingSteps, Handlers

LEMMA SamePlain == UNCHANGED payments => RefundedStays
  <1> SUFFICES ASSUME payments' = payments PROVE RefundedStays
    OBVIOUS
  <1> QED BY DEF RefundedStays

LEMMA InsertPlain ==
  ASSUME TypeOK, NEW r \in Requests, NEW p \in PaymentIds, payments[p].st = "none",
         payments' = [payments EXCEPT ![p] = NewPayment(r)]
  PROVE  RefundedStays
  BY DEF TypeOK, TypeOKBooks, NewPayment, RefundedStays

LEMMA RecordPlain ==
  ASSUME TypeOK, NEW r \in Requests, Record(r)
  PROVE  PlainStep(r)
  <1> USE DEF TypeOK, TypeOKBooks
  <1>1. OwesNothing(r) /\ UNCHANGED given
    BY DEF Record, RecordStart, CanStart, RecordGuard, RecordCommit, RecordPost, At, OwesNothing,
       OwingSteps
  <1>2. CASE RecordStart(r)
    <2>1. OthersWait(r) /\ OwesNothing(r)'
      BY <1>2 DEF RecordStart, OthersWait, OwesNothing, OwingSteps, Blank
    <2> QED BY <1>1, <1>2, <2>1, SamePlain DEF RecordStart, PlainStep
  <1>3. CASE RecordGuard(r)
    <2>1. OthersWait(r) /\ OwesNothing(r)'
      BY <1>3, FinishPlain, GotoPlain DEF RecordGuard, Steps, OwingSteps
    <2> QED BY <1>1, <1>3, <2>1, SamePlain DEF RecordGuard, PlainStep
  <1>4. CASE RecordCommit(r)
    <2>1. CASE Finish(r) /\ UNCHANGED payments
      BY <1>1, <2>1, FinishPlain, SamePlain DEF PlainStep
    <2>2. CASE ~(Finish(r) /\ UNCHANGED payments)
      <3>1. PICK p \in PaymentIds :
              /\ payments[p].st = "none"
              /\ payments' = [payments EXCEPT ![p] = NewPayment(r)]
              /\ req' = [req EXCEPT ![r].pc = "record_post", ![r].pay = p]
        BY <1>4, <2>2 DEF RecordCommit
      <3>2. OthersWait(r) /\ OwesNothing(r)'
        BY <3>1 DEF OthersWait, OwesNothing, OwingSteps, Handlers
      <3> QED BY <1>1, <3>1, <3>2, InsertPlain DEF PlainStep
    <2> QED BY <2>1, <2>2
  <1>5. CASE RecordPost(r)
    <2>1. OthersWait(r) /\ OwesNothing(r)'
      BY <1>5, FinishPlain, GotoPlain DEF RecordPost, Steps, OwingSteps
    <2> QED BY <1>1, <1>5, <2>1, SamePlain DEF RecordPost, PlainStep
  <1> QED BY <1>2, <1>3, <1>4, <1>5 DEF Record

LEMMA CreatePlain ==
  ASSUME TypeOK, NEW r \in Requests, Create(r)
  PROVE  PlainStep(r)
  <1> USE DEF TypeOK, TypeOKBooks
  <1>1. OwesNothing(r) /\ UNCHANGED given
    BY DEF Create, CreateStart, CanStart, CreateGuard, CreateInsert, CreateRead, CreateWrite,
       CreatePost, At, OwesNothing, OwingSteps
  <1>2. CASE CreateStart(r)
    <2>1. OthersWait(r) /\ OwesNothing(r)'
      BY <1>2 DEF CreateStart, OthersWait, OwesNothing, OwingSteps, Blank
    <2> QED BY <1>1, <1>2, <2>1, SamePlain DEF CreateStart, PlainStep
  <1>3. CASE CreateGuard(r)
    <2>1. OthersWait(r) /\ OwesNothing(r)'
      BY <1>3, FinishPlain, GotoPlain DEF CreateGuard, Steps, OwingSteps
    <2> QED BY <1>1, <1>3, <2>1, SamePlain DEF CreateGuard, PlainStep
  <1>4. CASE CreateInsert(r)
    <2>1. PICK p \in PaymentIds :
            /\ payments[p].st = "none"
            /\ payments' = [payments EXCEPT ![p] = NewPayment(r)]
            /\ req' = [req EXCEPT ![r].pc = "create_read", ![r].pay = p]
      BY <1>4 DEF CreateInsert
    <2>2. OthersWait(r) /\ OwesNothing(r)'
      BY <2>1 DEF OthersWait, OwesNothing, OwingSteps, Handlers
    <2> QED BY <1>1, <2>1, <2>2, InsertPlain DEF PlainStep
  <1>5. CASE CreateRead(r)
    <2>1. OthersWait(r) /\ OwesNothing(r)'
      BY <1>5 DEF CreateRead, OthersWait, OwesNothing, OwingSteps, Handlers
    <2> QED BY <1>1, <1>5, <2>1, SamePlain DEF CreateRead, PlainStep
  <1>6. CASE CreateWrite(r)
    <2>1. OthersWait(r) /\ OwesNothing(r)'
      BY <1>6, GotoPlain DEF CreateWrite, Steps, OwingSteps
    <2> QED BY <1>1, <1>6, <2>1, SamePlain DEF CreateWrite, PlainStep
  <1>7. CASE CreatePost(r)
    <2>1. OthersWait(r) /\ OwesNothing(r)'
      BY <1>7, FinishPlain DEF CreatePost
    <2> QED BY <1>1, <1>7, <2>1, SamePlain DEF CreatePost, PlainStep
  <1> QED BY <1>2, <1>3, <1>4, <1>5, <1>6, <1>7 DEF Create

LEMMA UpdatePlain ==
  ASSUME TypeOK, NEW r \in Requests, Update(r)
  PROVE  PlainStep(r)
  <1> USE DEF TypeOK, TypeOKBooks
  <1>1. OwesNothing(r) /\ UNCHANGED given
    BY DEF Update, UpdateStart, CanStart, UpdateRow, UpdateRead, UpdateWrite, UpdatePost, At,
       OwesNothing, OwingSteps
  <1>2. CASE UpdateStart(r)
    <2>1. OthersWait(r) /\ OwesNothing(r)'
      BY <1>2 DEF UpdateStart, OthersWait, OwesNothing, OwingSteps, Blank
    <2> QED BY <1>1, <1>2, <2>1, SamePlain DEF UpdateStart, PlainStep
  <1>3. CASE UpdateRow(r)
    <2>1. OthersWait(r) /\ OwesNothing(r)'
      BY <1>3, FinishPlain, GotoPlain DEF UpdateRow, Steps, OwingSteps
    <2>2. RefundedStays
      <3>1. CASE UNCHANGED payments
        BY <3>1, SamePlain
      <3>2. CASE payments' = [payments EXCEPT ![req[r].pay].amount = req[r].amount]
        BY <3>2 DEF RefundedStays, PaymentRows
      <3> QED BY <1>3, <3>1, <3>2 DEF UpdateRow
    <2> QED BY <1>1, <2>1, <2>2 DEF PlainStep
  <1>4. CASE UpdateRead(r)
    <2>1. OthersWait(r) /\ OwesNothing(r)'
      BY <1>4 DEF UpdateRead, OthersWait, OwesNothing, OwingSteps, Handlers
    <2> QED BY <1>1, <1>4, <2>1, SamePlain DEF UpdateRead, PlainStep
  <1>5. CASE UpdateWrite(r)
    <2>1. OthersWait(r) /\ OwesNothing(r)'
      BY <1>5, GotoPlain DEF UpdateWrite, Steps, OwingSteps
    <2> QED BY <1>1, <1>5, <2>1, SamePlain DEF UpdateWrite, PlainStep
  <1>6. CASE UpdatePost(r)
    <2>1. OthersWait(r) /\ OwesNothing(r)'
      <3>1. CASE Finish(r)
        BY <3>1, FinishPlain
      <3>2. CASE req' = [req EXCEPT ![r] = [Blank EXCEPT !.pc = "done", !.at = "update_post"]]
        BY <3>2 DEF OthersWait, OwesNothing, OwingSteps, Blank
      <3> QED BY <1>6, <3>1, <3>2 DEF UpdatePost
    <2> QED BY <1>1, <1>6, <2>1, SamePlain DEF UpdatePost, PlainStep
  <1> QED BY <1>2, <1>3, <1>4, <1>5, <1>6 DEF Update

LEMMA RemovePlain ==
  ASSUME TypeOK, NEW r \in Requests, Remove(r)
  PROVE  PlainStep(r)
  <1> USE DEF TypeOK, TypeOKBooks
  <1>1. OwesNothing(r) /\ UNCHANGED given
    BY DEF Remove, RemoveStart, CanStart, RemoveRead, RemoveWrite, RemovePost, RemoveDelete, At,
       OwesNothing, OwingSteps
  <1>2. CASE RemoveStart(r)
    <2>1. OthersWait(r) /\ OwesNothing(r)'
      BY <1>2 DEF RemoveStart, OthersWait, OwesNothing, OwingSteps, Blank
    <2> QED BY <1>1, <1>2, <2>1, SamePlain DEF RemoveStart, PlainStep
  <1>3. CASE RemoveRead(r)
    <2>1. OthersWait(r) /\ OwesNothing(r)'
      BY <1>3 DEF RemoveRead, OthersWait, OwesNothing, OwingSteps, Handlers
    <2> QED BY <1>1, <1>3, <2>1, SamePlain DEF RemoveRead, PlainStep
  <1>4. CASE RemoveWrite(r)
    <2>1. OthersWait(r) /\ OwesNothing(r)'
      BY <1>4, GotoPlain DEF RemoveWrite, Steps, OwingSteps
    <2> QED BY <1>1, <1>4, <2>1, SamePlain DEF RemoveWrite, PlainStep
  <1>5. CASE RemovePost(r)
    <2>1. OthersWait(r) /\ OwesNothing(r)'
      BY <1>5 DEF RemovePost, Goto, OthersWait, OwesNothing, OwingSteps, Handlers
    <2> QED BY <1>1, <1>5, <2>1, SamePlain DEF RemovePost, PlainStep
  <1>6. CASE RemoveDelete(r)
    <2>1. OthersWait(r) /\ OwesNothing(r)'
      BY <1>6, FinishPlain DEF RemoveDelete
    <2>2. RefundedStays
      <3>1. CASE UNCHANGED payments
        BY <3>1, SamePlain
      <3>2. CASE payments' = [payments EXCEPT ![req[r].pay] = [NoRow EXCEPT !.st = "deleted"]]
        BY <3>2 DEF RefundedStays, NoRow
      <3> QED BY <1>6, <3>1, <3>2 DEF RemoveDelete
    <2> QED BY <1>1, <2>1, <2>2 DEF PlainStep
  <1> QED BY <1>2, <1>3, <1>4, <1>5, <1>6 DEF Remove

LEMMA ReversePlain ==
  ASSUME TypeOK, NEW r \in Requests, Reverse(r)
  PROVE  PlainStep(r)
  <1> USE DEF TypeOK, TypeOKBooks
  <1>1. OwesNothing(r) /\ UNCHANGED <<given, payments>>
    BY DEF Reverse, ReverseStart, CanStart, ReverseWrite, ReversePost, At, OwesNothing, OwingSteps
  <1>2. OthersWait(r) /\ OwesNothing(r)'
    <2>1. CASE ReverseStart(r)
      BY <2>1 DEF ReverseStart, OthersWait, OwesNothing, OwingSteps, Blank
    <2>2. CASE ReverseWrite(r)
      BY <2>2, GotoPlain DEF ReverseWrite, Steps, OwingSteps
    <2>3. CASE ReversePost(r)
      BY <2>3, FinishPlain DEF ReversePost
    <2> QED BY <2>1, <2>2, <2>3 DEF Reverse
  <1> QED BY <1>1, <1>2, SamePlain DEF PlainStep

LEMMA ApprovalPlain ==
  ASSUME TypeOK, NEW r \in Requests, Approval(r)
  PROVE  PlainStep(r)
  <1> USE DEF TypeOK, TypeOKBooks
  <1>1. OwesNothing(r) /\ UNCHANGED <<given, payments>>
    BY DEF Approval, ApproveStart, CanStart, ApproveMark, RejectStart, RejectMark, At, OwesNothing,
       OwingSteps
  <1>2. OthersWait(r) /\ OwesNothing(r)'
    <2>1. CASE ApproveStart(r)
      BY <2>1 DEF ApproveStart, OthersWait, OwesNothing, OwingSteps, Blank
    <2>2. CASE RejectStart(r)
      BY <2>2 DEF RejectStart, OthersWait, OwesNothing, OwingSteps, Blank
    <2>3. CASE ApproveMark(r) \/ RejectMark(r)
      BY <2>3, FinishPlain DEF ApproveMark, RejectMark
    <2> QED BY <1>1, <2>1, <2>2, <2>3 DEF Approval
  <1> QED BY <1>1, <1>2, SamePlain DEF PlainStep

\* A refund up to its claim.
LEMMA RefundReadPlain ==
  ASSUME TypeOK, NEW r \in Requests, RefundStart(r) \/ RefundRead(r)
  PROVE  PlainStep(r)
  <1> USE DEF TypeOK, TypeOKBooks
  <1>1. OwesNothing(r) /\ UNCHANGED <<given, payments>>
    BY DEF RefundStart, CanStart, RefundRead, At, OwesNothing, OwingSteps
  <1>2. OthersWait(r) /\ OwesNothing(r)'
    <2>1. CASE Finish(r)
      BY <2>1, FinishPlain
    <2>2. CASE \E p \in Kept, slice \in Amounts \cup {0}, toBalance \in BOOLEAN :
                 req' = [req EXCEPT ![r] = [Blank EXCEPT !.pc = "refund_read", !.op = "refund",
                           !.pay = p, !.amount = slice, !.toBalance = toBalance]]
      BY <2>2 DEF OthersWait, OwesNothing, OwingSteps, Blank
    <2>3. ASSUME NEW amount, NEW row,
                 req' = [req EXCEPT ![r].pc = "refund_claim", ![r].amount = amount,
                           ![r].row = row, ![r].inv = invoice]
          PROVE  OthersWait(r) /\ OwesNothing(r)'
      BY <2>3 DEF OthersWait, OwesNothing, OwingSteps, Handlers
    <2>4. CASE RefundStart(r)
      BY <2>1, <2>2, <2>4 DEF RefundStart
    <2>5. CASE RefundRead(r) /\ ~Finish(r)
      <3>1. PICK amount, row :
              req' = [req EXCEPT ![r].pc = "refund_claim", ![r].amount = amount,
                        ![r].row = row, ![r].inv = invoice]
        BY <2>5 DEF RefundRead
      <3> QED BY <3>1, <2>3
    <2> QED BY <2>1, <2>4, <2>5
  <1> QED BY <1>1, <1>2, SamePlain DEF PlainStep

\* A plain step is nothing to the claims.
NoDebts(r) ==
  /\ ~Stopped(r, {"refund_wallet", "refund_credit"})
  /\ \A p \in PaymentIds : ~Owing(r, p) /\ Debt(r, p) = 0

LEMMA NothingOwed ==
  ASSUME NEW r \in Requests
  PROVE  (OwesNothing(r) => NoDebts(r)) /\ (OwesNothing(r)' => NoDebts(r)')
  BY DEF OwesNothing, OwingSteps, Stopped, Owing, Debt, NoDebts

DebtsTyped ==
  \A p \in PaymentIds, s \in Requests : OwedOn(p)[s] = Debt(s, p) /\ Debt(s, p) \in Nat

LEMMA DebtTyped == (TypeOK => DebtsTyped) /\ (TypeOK' => DebtsTyped')
  BY DEF TypeOK, TypeOKBooks, Handlers, OwedOn, Debt, DebtsTyped

\* What is owed on p follows the handler that takes the step.
LEMMA OwedChange ==
  ASSUME TypeOK, TypeOK', NEW r \in Requests, OthersWait(r), NEW p \in PaymentIds
  PROVE  /\ SumFunctionOnSet(OwedOn(p), Requests) \in Int
         /\ SumFunctionOnSet(OwedOn(p), Requests)'
              = SumFunctionOnSet(OwedOn(p), Requests) - Debt(r, p) + Debt(r, p)'
  <1>1. IsFiniteSet(Requests)
    BY BooksAssumption
  <1>2. PICK f, h : f = OwedOn(p) /\ h = OwedOn(p)'
    OBVIOUS
  <1>3. \A s \in Requests : f[s] = Debt(s, p) /\ h[s] = Debt(s, p)' /\ f[s] \in Int /\ h[s] \in Int
    BY <1>2, DebtTyped DEF DebtsTyped
  <1>4. \A s \in Requests \ {r} : h[s] = f[s]
    BY <1>3 DEF OthersWait, Debt, Owing, Stopped
  <1>5. SumFunctionOnSet(h, Requests) = SumFunctionOnSet(f, Requests) - f[r] + h[r]
    BY <1>1, <1>3, <1>4, SumChange
  <1>6. SumFunctionOnSet(f, Requests) \in Int
    BY <1>1, <1>3, SumType
  <1> QED BY <1>2, <1>3, <1>5, <1>6

\* Nobody owes anything on a row that was not inserted.
LEMMA NothingOwedOn ==
  ASSUME NEW p \in PaymentIds, \A s \in Requests : ~Owing(s, p)'
  PROVE  SumFunctionOnSet(OwedOn(p), Requests)' = 0
  <1>1. IsFiniteSet(Requests)
    BY BooksAssumption
  <1>2. PICK f : f = OwedOn(p)'
    OBVIOUS
  <1>3. \A s \in Requests : f[s] = 0
    BY <1>2 DEF OwedOn
  <1>4. SumFunctionOnSet(f, Requests) = 0
    BY <1>1, <1>3, SumZero
  <1> QED BY <1>2, <1>4

\* A step keeps the account of p if what is claimed grows by what is handed back and what is
\* newly owed.
LEMMA AccountKept ==
  ASSUME TypeOK, TypeOK', NEW r \in Requests, OthersWait(r), NEW p \in PaymentIds,
         payments[p].refunded = given[p] + SumFunctionOnSet(OwedOn(p), Requests),
         payments'[p].refunded
           = payments[p].refunded + (given'[p] - given[p]) + (Debt(r, p)' - Debt(r, p))
  PROVE  payments'[p].refunded = given'[p] + SumFunctionOnSet(OwedOn(p), Requests)'
  <1>1. payments[p].refunded \in Nat /\ given[p] \in Nat /\ given'[p] \in Nat
    BY DEF TypeOK, TypeOKBooks, PaymentRows
  <1>2. Debt(r, p) \in Nat /\ Debt(r, p)' \in Nat
    BY DebtTyped DEF DebtsTyped
  <1>3. PICK a, b : a = SumFunctionOnSet(OwedOn(p), Requests)
                    /\ b = SumFunctionOnSet(OwedOn(p), Requests)'
    OBVIOUS
  <1>4. a \in Int /\ b = a - Debt(r, p) + Debt(r, p)'
    BY <1>3, OwedChange
  <1> QED BY <1>1, <1>2, <1>3, <1>4

\* What remains to be shown of each step.
LEMMA GivenKept ==
  ASSUME TypeOK, TypeOK', GivenInv, NEW r \in Requests, OthersWait(r),
         Stopped(r, {"refund_wallet", "refund_credit"})' => req'[r].toBalance,
         \A p \in PaymentIds : payments'[p].st = "none" =>
           payments[p].st = "none" /\ given'[p] = given[p] /\ ~Owing(r, p)',
         \A p \in PaymentIds : payments'[p].st = "kept" =>
           \/ /\ payments[p].st = "kept"
              /\ payments'[p].refunded
                   = payments[p].refunded + (given'[p] - given[p]) + (Debt(r, p)' - Debt(r, p))
           \/ /\ payments[p].st = "none" /\ payments'[p].refunded = 0
              /\ given'[p] = given[p] /\ ~Owing(r, p)'
  PROVE  GivenInv'
  <1>1. \A s \in Requests \ {r} :
          /\ Stopped(s, {"refund_wallet", "refund_credit"})' => req'[s].toBalance
          /\ \A p \in PaymentIds : Owing(s, p)' <=> Owing(s, p)
    BY DEF GivenInv, OthersWait, Stopped, Owing
  <1>2. ASSUME NEW p \in PaymentIds, payments[p].st = "none", ~Owing(r, p)'
        PROVE  given[p] = 0 /\ \A s \in Requests : ~Owing(s, p)'
    BY <1>1, <1>2 DEF GivenInv
  <1>3. ASSUME NEW p \in PaymentIds, payments'[p].st = "kept"
        PROVE  payments'[p].refunded = given'[p] + SumFunctionOnSet(OwedOn(p), Requests)'
    <2>1. CASE /\ payments[p].st = "kept"
               /\ payments'[p].refunded
                    = payments[p].refunded + (given'[p] - given[p]) + (Debt(r, p)' - Debt(r, p))
      <3>1. payments[p].refunded = given[p] + SumFunctionOnSet(OwedOn(p), Requests)
        BY <2>1 DEF GivenInv, EveryClaimGivenOnce, Kept
      <3> QED BY <2>1, <3>1, AccountKept
    <2>2. CASE /\ payments[p].st = "none" /\ payments'[p].refunded = 0
               /\ given'[p] = given[p] /\ ~Owing(r, p)'
      <3>1. given[p] = 0 /\ \A s \in Requests : ~Owing(s, p)'
        BY <1>2, <2>2
      <3>2. SumFunctionOnSet(OwedOn(p), Requests)' = 0
        BY <3>1, NothingOwedOn
      <3> QED BY <2>2, <3>1, <3>2
    <2> QED BY <1>3, <2>1, <2>2
  <1>4. EveryClaimGivenOnce'
    BY <1>3 DEF EveryClaimGivenOnce, Kept
  <1> QED BY <1>1, <1>2, <1>4 DEF GivenInv

LEMMA PlainGiven ==
  ASSUME TypeOK, TypeOK', GivenInv, NEW r \in Requests, PlainStep(r)
  PROVE  GivenInv'
  <1>1. /\ ~Stopped(r, {"refund_wallet", "refund_credit"})'
        /\ \A p \in PaymentIds : ~Owing(r, p)' /\ Debt(r, p)' = 0
    BY NothingOwed DEF PlainStep, NoDebts
  <1>2. \A p \in PaymentIds : Debt(r, p) = 0
    BY NothingOwed DEF PlainStep, NoDebts
  <1>3. \A p \in PaymentIds : given'[p] = given[p] /\ given[p] \in Nat /\ payments[p].refunded \in Nat
    BY DEF PlainStep, TypeOK, TypeOKBooks, PaymentRows
  <1>4. ASSUME NEW p \in PaymentIds, payments'[p].st = "kept"
        PROVE  \/ /\ payments[p].st = "kept"
                  /\ payments'[p].refunded
                       = payments[p].refunded + (given'[p] - given[p]) + (Debt(r, p)' - Debt(r, p))
               \/ /\ payments[p].st = "none" /\ payments'[p].refunded = 0
                  /\ given'[p] = given[p] /\ ~Owing(r, p)'
    <2>1. \/ payments[p].st = "kept" /\ payments'[p].refunded = payments[p].refunded
          \/ payments[p].st = "none" /\ payments'[p].refunded = 0
      BY <1>4 DEF PlainStep, RefundedStays
    <2>2. payments[p].refunded + (given'[p] - given[p]) + (Debt(r, p)' - Debt(r, p))
            = payments[p].refunded
      BY <1>1, <1>2, <1>3
    <2> QED BY <1>1, <1>3, <2>1, <2>2
  <1>5. \A p \in PaymentIds : payments'[p].st = "none" =>
          payments[p].st = "none" /\ given'[p] = given[p] /\ ~Owing(r, p)'
    BY <1>1, <1>3 DEF PlainStep, RefundedStays
  <1>6. OthersWait(r)
    BY DEF PlainStep
  <1> QED BY <1>1, <1>4, <1>5, <1>6, GivenKept

\* A refund's statements after its claim: the handler goes on with the same payment and amount.
RefundGoesOn(r) ==
  /\ OthersWait(r)
  /\ req'[r].pay = req[r].pay
  /\ req'[r].amount = req[r].amount
  /\ req'[r].toBalance = req[r].toBalance

LEMMA GotoGoesOn ==
  ASSUME TypeOK, NEW r \in Requests, NEW step, Goto(r, step)
  PROVE  RefundGoesOn(r) /\ req'[r].pc = step
  BY DEF TypeOK, TypeOKBooks, Goto, OthersWait, RefundGoesOn, Handlers

LEMMA ClaimGiven ==
  ASSUME TypeOK, TypeOK', GivenInv, NEW r \in Requests, RefundClaim(r)
  PROVE  GivenInv'
  <1> DEFINE p == req[r].pay
             total == req[r].row.refunded + req[r].amount
  <1>1. OwesNothing(r) /\ UNCHANGED given
    BY DEF RefundClaim, At, OwesNothing, OwingSteps
  <1>2. CASE Finish(r) /\ UNCHANGED payments
    BY <1>1, <1>2, FinishPlain, SamePlain, PlainGiven DEF PlainStep
  <1>3. CASE ~(Finish(r) /\ UNCHANGED payments)
    <2>1. /\ p \in Kept /\ payments[p].refunded = req[r].row.refunded
          /\ payments' = [payments EXCEPT ![p].refunded = total,
                            ![p].closed = (total >= req[r].row.amount)]
          /\ Goto(r, "refund_invoice")
      BY <1>3 DEF RefundClaim
    <2>2. RefundGoesOn(r) /\ req'[r].pc = "refund_invoice"
      BY <2>1, GotoGoesOn
    <2>3. p \in PaymentIds /\ payments[p].st = "kept" /\ payments[p] \in PaymentRows
      BY <2>1 DEF Kept, TypeOK, TypeOKBooks
    <2>4. /\ payments'[p].refunded = payments[p].refunded + req[r].amount
          /\ payments'[p].st = "kept"
          /\ \A q \in PaymentIds \ {p} : payments'[q] = payments[q]
      <3> HIDE DEF p
      <3>1. payments \in [PaymentIds -> PaymentRows]
        BY DEF TypeOK, TypeOKBooks
      <3>2. payments'[p].refunded = total
        <4> HIDE DEF total
        <4> QED BY <2>1, <2>3, <3>1 DEF PaymentRows
      <3>3. payments'[p].st = "kept" /\ \A q \in PaymentIds \ {p} : payments'[q] = payments[q]
        <4> HIDE DEF total
        <4> QED BY <2>1, <2>3, <3>1 DEF PaymentRows
      <3> QED BY <2>1, <3>2, <3>3
    <2>5. \A q \in PaymentIds : Owing(r, q)' <=> q = p
      BY <2>2 DEF Owing, Stopped, RefundGoesOn
    <2>6. \A q \in PaymentIds : /\ Debt(r, q) = 0
                                /\ Debt(r, q)' = IF q = p THEN req[r].amount ELSE 0
      <3>1. \A q \in PaymentIds : Debt(r, q) = 0
        BY <1>1, NothingOwed DEF NoDebts
      <3> QED BY <2>2, <2>5, <3>1 DEF Debt, RefundGoesOn
    <2>7. \A q \in PaymentIds :
            given'[q] = given[q] /\ given[q] \in Nat /\ payments[q].refunded \in Nat
      BY <1>1 DEF TypeOK, TypeOKBooks, PaymentRows
    <2>8. req[r].amount \in Nat
      BY DEF TypeOK, TypeOKBooks, Handlers
    <2>9. ASSUME NEW q \in PaymentIds, payments'[q].st = "kept"
          PROVE  /\ payments[q].st = "kept"
                 /\ payments'[q].refunded
                      = payments[q].refunded + (given'[q] - given[q]) + (Debt(r, q)' - Debt(r, q))
      <3>1. CASE q = p
        <4>1. payments'[q].refunded = payments[q].refunded + req[r].amount
          BY <2>4, <3>1
        <4>2. Debt(r, q)' = req[r].amount /\ Debt(r, q) = 0
          BY <2>3, <2>6, <3>1
        <4>3. payments[q].st = "kept"
          BY <2>3, <3>1
        <4> QED BY <2>7, <2>8, <4>1, <4>2, <4>3
      <3>2. CASE q # p
        <4>1. payments'[q] = payments[q]
          BY <2>4, <3>2
        <4>2. Debt(r, q)' = 0 /\ Debt(r, q) = 0
          BY <2>6, <3>2
        <4> QED BY <2>7, <2>9, <4>1, <4>2
      <3> QED BY <3>1, <3>2
    <2>10. ASSUME NEW q \in PaymentIds, payments'[q].st = "none"
           PROVE  payments[q].st = "none" /\ given'[q] = given[q] /\ ~Owing(r, q)'
      <3>1. q # p
        BY <2>4, <2>10
      <3> QED BY <2>4, <2>5, <2>7, <2>10, <3>1
    <2>11. ~Stopped(r, {"refund_wallet", "refund_credit"})' /\ OthersWait(r)
      BY <2>2 DEF Stopped, RefundGoesOn
    <2> QED BY <2>9, <2>10, <2>11, GivenKept
  <1> QED BY <1>2, <1>3

LEMMA RefundGiven ==
  ASSUME TypeOK, TypeOK', GivenInv, NEW r \in Requests, Refund(r)
  PROVE  GivenInv'
  <1>1. CASE RefundStart(r) \/ RefundRead(r)
    BY <1>1, RefundReadPlain, PlainGiven
  <1>2. CASE RefundClaim(r)
    BY <1>2, ClaimGiven
  <1>3. \A p \in PaymentIds :
          given[p] \in Nat /\ given'[p] \in Nat /\ payments[p].refunded \in Nat
    BY DEF TypeOK, TypeOKBooks, PaymentRows
  <1>4. req[r].amount \in Nat /\ given \in [PaymentIds -> Nat]
    BY DEF TypeOK, TypeOKBooks, Handlers
  <1>5. CASE RefundInvoice(r) \/ RefundWallet(r)
    <2>1. RefundGoesOn(r)
      <3>1. CASE RefundInvoice(r)
        BY <3>1, GotoGoesOn DEF RefundInvoice
      <3>2. CASE RefundWallet(r)
        BY <3>2 DEF RefundWallet, RefundGoesOn, OthersWait, TypeOK, TypeOKBooks, Handlers
      <3> QED BY <1>5, <3>1, <3>2
    <2>2. \/ req[r].pc = "refund_invoice" /\ req'[r].pc = "refund_wallet" /\ req[r].toBalance
          \/ req[r].pc = "refund_invoice" /\ req'[r].pc = "refund_post" /\ ~req[r].toBalance
          \/ req[r].pc = "refund_wallet" /\ req'[r].pc = "refund_credit" /\ req[r].toBalance
      <3>1. CASE RefundInvoice(r)
        BY <3>1, GotoGoesOn DEF RefundInvoice, At
      <3>2. CASE RefundWallet(r)
        BY <3>2 DEF RefundWallet, At, TypeOK, TypeOKBooks, Handlers, GivenInv, Stopped
      <3> QED BY <1>5, <3>1, <3>2
    <2>3. \A p \in PaymentIds : (Owing(r, p)' <=> Owing(r, p)) /\ Debt(r, p)' = Debt(r, p)
      BY <2>1, <2>2 DEF RefundGoesOn, Owing, Stopped, Debt
    <2>4. Stopped(r, {"refund_wallet", "refund_credit"})' => req'[r].toBalance
      BY <2>1, <2>2 DEF RefundGoesOn, Stopped
    <2>5. UNCHANGED <<payments, given>>
      BY <1>5 DEF RefundInvoice, RefundWallet
    <2>6. \A p \in PaymentIds : payments'[p].st = "none" =>
            payments[p].st = "none" /\ given'[p] = given[p] /\ ~Owing(r, p)'
      BY <2>3, <2>5 DEF GivenInv
    <2>7. \A p \in PaymentIds : payments'[p].st = "kept" =>
            /\ payments[p].st = "kept"
            /\ payments'[p].refunded
                 = payments[p].refunded + (given'[p] - given[p]) + (Debt(r, p)' - Debt(r, p))
      <3>1. \A p \in PaymentIds : Debt(r, p) \in Nat
        BY DebtTyped DEF DebtsTyped
      <3> QED BY <1>3, <2>3, <2>5, <3>1
    <2>8. OthersWait(r)
      BY <2>1 DEF RefundGoesOn
    <2> QED BY <2>4, <2>6, <2>7, <2>8, GivenKept
  <1>6. CASE \/ RefundCredit(r)
             \/ RefundPost(r) /\ ~req[r].toBalance
    <2> DEFINE p == req[r].pay
    <2>1. /\ Owing(r, p)
          /\ given' = [given EXCEPT ![p] = @ + req[r].amount]
          /\ UNCHANGED payments
      BY <1>6 DEF RefundCredit, RefundPost, At, Owing, Stopped
    <2>2. OthersWait(r) /\ NoDebts(r)'
      <3>1. CASE RefundCredit(r)
        <4>1. RefundGoesOn(r) /\ req'[r].pc = "refund_post" /\ req[r].toBalance
          BY <3>1, GotoGoesOn DEF RefundCredit, GivenInv, At, Stopped
        <4> QED BY <4>1 DEF RefundGoesOn, NoDebts, Owing, Stopped, Debt
      <3>2. CASE RefundPost(r)
        <4>1. OthersWait(r) /\ OwesNothing(r)'
          BY <3>2, FinishPlain, GotoPlain DEF RefundPost, Steps, OwingSteps
        <4> QED BY <4>1, NothingOwed
      <3> QED BY <1>6, <3>1, <3>2
    <2>3. \A q \in PaymentIds :
            /\ q # p => Debt(r, q) = 0 /\ given'[q] = given[q]
            /\ q = p => Debt(r, q) = req[r].amount /\ given'[q] = given[q] + req[r].amount
      BY <1>4, <2>1 DEF Debt, Owing
    <2>4. \A q \in PaymentIds : Debt(r, q)' = 0 /\ ~Owing(r, q)'
      BY <2>2 DEF NoDebts
    <2>5. \A q \in PaymentIds : payments'[q].st = "none" =>
            payments[q].st = "none" /\ given'[q] = given[q] /\ ~Owing(r, q)'
      BY <2>1, <2>3, <2>4 DEF GivenInv
    <2>6. ASSUME NEW q \in PaymentIds, payments'[q].st = "kept"
          PROVE  /\ payments[q].st = "kept"
                 /\ payments'[q].refunded
                      = payments[q].refunded + (given'[q] - given[q]) + (Debt(r, q)' - Debt(r, q))
      <3> HIDE DEF p
      <3>1. payments'[q] = payments[q] /\ Debt(r, q)' = 0
        BY <2>1, <2>4
      <3>2. given'[q] - given[q] = Debt(r, q) /\ Debt(r, q) \in Nat
        BY <1>3, <1>4, <2>3
      <3> QED BY <1>3, <2>6, <3>1, <3>2
    <2>7. Stopped(r, {"refund_wallet", "refund_credit"})' => req'[r].toBalance
      BY <2>2 DEF NoDebts
    <2> QED BY <2>2, <2>5, <2>6, <2>7, GivenKept
  <1>7. CASE RefundPost(r) /\ req[r].toBalance
    <2>1. UNCHANGED <<payments, given>> /\ NoDebts(r)
      BY <1>7 DEF RefundPost, At, NoDebts, Owing, Stopped, Debt
    <2>2. OthersWait(r) /\ OwesNothing(r)'
      BY <1>7, FinishPlain, GotoPlain DEF RefundPost, Steps, OwingSteps
    <2>3. NoDebts(r)'
      BY <2>2, NothingOwed
    <2>4. \A p \in PaymentIds : payments'[p].st = "none" =>
            payments[p].st = "none" /\ given'[p] = given[p] /\ ~Owing(r, p)'
      BY <2>1, <2>3 DEF NoDebts
    <2>5. \A p \in PaymentIds : payments'[p].st = "kept" =>
            /\ payments[p].st = "kept"
            /\ payments'[p].refunded
                 = payments[p].refunded + (given'[p] - given[p]) + (Debt(r, p)' - Debt(r, p))
      BY <1>3, <2>1, <2>3 DEF NoDebts
    <2>6. Stopped(r, {"refund_wallet", "refund_credit"})' => req'[r].toBalance
      BY <2>3 DEF NoDebts
    <2> QED BY <2>2, <2>4, <2>5, <2>6, GivenKept
  <1> QED BY <1>1, <1>2, <1>5, <1>6, <1>7 DEF Refund

\* A handler that dies owes what it owed.
LEMMA CrashGiven ==
  ASSUME TypeOK, TypeOK', GivenInv, NEW r \in Requests, Crash(r)
  PROVE  GivenInv'
  <1>1. /\ OthersWait(r)
        /\ req'[r].pc = "crashed" /\ req'[r].at = req[r].pc /\ req[r].pc # "crashed"
        /\ req'[r].pay = req[r].pay
        /\ req'[r].amount = req[r].amount
        /\ req'[r].toBalance = req[r].toBalance
        /\ UNCHANGED <<payments, given>>
    BY DEF Crash, Running, Steps, OthersWait, TypeOK, TypeOKBooks, Handlers
  <1>2. \A p \in PaymentIds : (Owing(r, p)' <=> Owing(r, p)) /\ Debt(r, p)' = Debt(r, p)
    BY <1>1 DEF Owing, Stopped, Debt
  <1>3. Stopped(r, {"refund_wallet", "refund_credit"})' => req'[r].toBalance
    BY <1>1 DEF Stopped, GivenInv
  <1>4. \A p \in PaymentIds :
          given[p] \in Nat /\ payments[p].refunded \in Nat /\ Debt(r, p) \in Nat
    <2>1. \A p \in PaymentIds : Debt(r, p) \in Nat
      BY DebtTyped DEF DebtsTyped
    <2> QED BY <2>1 DEF TypeOK, TypeOKBooks, PaymentRows
  <1>5. \A p \in PaymentIds : payments'[p].st = "none" =>
          payments[p].st = "none" /\ given'[p] = given[p] /\ ~Owing(r, p)'
    BY <1>1, <1>2 DEF GivenInv
  <1>6. \A p \in PaymentIds : payments'[p].st = "kept" =>
          /\ payments[p].st = "kept"
          /\ payments'[p].refunded
               = payments[p].refunded + (given'[p] - given[p]) + (Debt(r, p)' - Debt(r, p))
    BY <1>1, <1>2, <1>4
  <1> QED BY <1>1, <1>3, <1>5, <1>6, GivenKept

LEMMA WindowGiven ==
  ASSUME GivenInv, TypeOK, NEW p \in PaymentIds, WindowPasses(p)
  PROVE  GivenInv'
  <1>1. \A q \in PaymentIds : payments'[q].st = payments[q].st
                              /\ payments'[q].refunded = payments[q].refunded
    BY DEF WindowPasses, TypeOK, TypeOKBooks, PaymentRows
  <1>2. UNCHANGED <<given, req>>
    BY DEF WindowPasses
  <1>3. \A q \in PaymentIds : OwedOn(q)' = OwedOn(q)
    BY <1>2 DEF OwedOn, Owing, Stopped
  <1>4. EveryClaimGivenOnce'
    BY <1>1, <1>2, <1>3 DEF GivenInv, EveryClaimGivenOnce, Kept
  <1> QED BY <1>1, <1>2, <1>4 DEF GivenInv, Owing, Stopped

LEMMA GivenStep == TypeOK /\ GivenInv /\ [Next]_vars => GivenInv'
  <1> SUFFICES ASSUME TypeOK, GivenInv, [Next]_vars PROVE GivenInv'
    OBVIOUS
  <1>1. TypeOK'
    BY StepTyped
  <1>2. ASSUME NEW r \in Requests, Entry(r) PROVE GivenInv'
    BY <1>1, <1>2, RecordPlain, CreatePlain, UpdatePlain, RemovePlain, PlainGiven, CrashGiven DEF Entry
  <1>3. ASSUME NEW r \in Requests, MoneyBack(r) PROVE GivenInv'
    BY <1>1, <1>3, RefundGiven, ApprovalPlain, ReversePlain, PlainGiven DEF MoneyBack
  <1>4. ASSUME NEW p \in PaymentIds, WindowPasses(p) PROVE GivenInv'
    BY <1>4, WindowGiven
  <1>5. CASE UNCHANGED vars
    <2>1. UNCHANGED <<payments, given, req>>
      BY <1>5 DEF vars
    <2>2. \A q \in PaymentIds : OwedOn(q)' = OwedOn(q)
      BY <2>1 DEF OwedOn, Owing, Stopped
    <2>3. EveryClaimGivenOnce'
      BY <2>1, <2>2 DEF GivenInv, EveryClaimGivenOnce, Kept
    <2> QED BY <2>1, <2>3 DEF GivenInv, Owing, Stopped
  <1> QED BY <1>2, <1>3, <1>4, <1>5 DEF Next

LEMMA GivenInit == Init => GivenInv
  BY DEF Init, InitBooks, GivenInv, EveryClaimGivenOnce, Kept, NoRow, Blank, Owing, Stopped

\* Whatever refunds, approvals, edits, deletions and deaths interleave, every unit of money that
\* a refund claimed was handed back once or is still owed by the handler that claimed it.
THEOREM ClaimsAreGivenOnce == Spec => []EveryClaimGivenOnce
  <1>1. GivenInv => EveryClaimGivenOnce
    BY DEF GivenInv
  <1> QED BY <1>1, GivenInit, GivenStep, TypeCorrect, PTL DEF Spec

-----------------------------------------------------------------------------
(* The ledger tracks the money.  Deletions and edits of payments post      *)
(* their differences before or after they change the row, so the theorem   *)
(* is about desks that record and refund; BooksAtRest is about those that  *)
(* correct.                                                                *)

Correcting == {"update_row", "update_read", "update_write", "update_post",
               "remove_read", "remove_write", "remove_post", "remove_delete"}

\* Steps at which money has moved and the ledger does not know.
LagSteps == {"create_read", "create_write", "create_post", "record_post", "refund_post"}

LedgerInv ==
  /\ \A r \in Requests : req[r].pc \notin Correcting
  /\ \A r \in Requests : req[r].pc \in OwingSteps => req[r].pay \in Kept
  /\ LedgerTracksMoney

Held == books.cash + books.wallet

TotalTakings == SumFunctionOnSet(Takings, PaymentIds)

TotalLag == SumFunctionOnSet(Lag, Requests)

LagsTyped == \A r \in Requests : Lag[r] \in Int

TakingsTyped == \A p \in PaymentIds : Takings[p] \in Int

LEMMA LedgerTyped ==
  /\ TypeOK => LagsTyped /\ TakingsTyped
  /\ TypeOK' => LagsTyped' /\ TakingsTyped'
  BY DEF TypeOK, TypeOKBooks, Handlers, PaymentRows, LagsTyped, TakingsTyped, Lag, Takings

\* Between the steps of LagSteps the ledger owes nothing on account of a handler.
LEMMA NoLag ==
  ASSUME NEW r \in Requests
  PROVE  /\ req[r].pc \notin LagSteps \cup {"crashed"} => Lag[r] = 0
         /\ req'[r].pc \notin LagSteps \cup {"crashed"} => Lag'[r] = 0
  BY DEF LagSteps, Lag, Stopped

LEMMA LagChange ==
  ASSUME TypeOK, TypeOK', NEW r \in Requests, OthersWait(r)
  PROVE  TotalLag \in Int /\ TotalLag' = TotalLag - Lag[r] + Lag'[r]
  <1>1. IsFiniteSet(Requests)
    BY BooksAssumption
  <1>2. PICK f, h : f = Lag /\ h = Lag'
    OBVIOUS
  <1>3. \A s \in Requests : f[s] \in Int /\ h[s] \in Int
    BY <1>2, LedgerTyped DEF LagsTyped
  <1>4. \A s \in Requests \ {r} : h[s] = f[s]
    BY <1>2 DEF OthersWait, Lag, Stopped
  <1>5. SumFunctionOnSet(h, Requests) = SumFunctionOnSet(f, Requests) - f[r] + h[r]
    <2>1. PICK S : S = Requests
      OBVIOUS
    <2>2. SumFunctionOnSet(h, S) = SumFunctionOnSet(f, S) - f[r] + h[r]
      BY <1>1, <1>3, <1>4, <2>1, SumChange
    <2> QED BY <2>1, <2>2
  <1>6. SumFunctionOnSet(f, Requests) \in Int
    BY <1>1, <1>3, SumType
  <1> QED BY <1>2, <1>5, <1>6 DEF TotalLag

LEMMA TakingsChange ==
  ASSUME TypeOK, TypeOK', NEW p \in PaymentIds, \A q \in PaymentIds \ {p} : Takings'[q] = Takings[q]
  PROVE  TotalTakings \in Int /\ TotalTakings' = TotalTakings - Takings[p] + Takings'[p]
  <1>1. IsFiniteSet(PaymentIds)
    BY BooksAssumption
  <1>2. PICK f, h : f = Takings /\ h = Takings'
    OBVIOUS
  <1>3. \A q \in PaymentIds : f[q] \in Int /\ h[q] \in Int
    BY <1>2, LedgerTyped DEF TakingsTyped
  <1>4. \A q \in PaymentIds \ {p} : h[q] = f[q]
    BY <1>2
  <1>5. SumFunctionOnSet(h, PaymentIds) = SumFunctionOnSet(f, PaymentIds) - f[p] + h[p]
    BY <1>1, <1>3, <1>4, SumChange
  <1>6. SumFunctionOnSet(f, PaymentIds) \in Int
    BY <1>1, <1>3, SumType
  <1> QED BY <1>2, <1>5, <1>6 DEF TotalTakings

LEMMA TakingsSame ==
  ASSUME TypeOK, \A q \in PaymentIds : Takings'[q] = Takings[q]
  PROVE  TotalTakings \in Int /\ TotalTakings' = TotalTakings
  <1>1. IsFiniteSet(PaymentIds)
    BY BooksAssumption
  <1>2. PICK f, h : f = Takings /\ h = Takings'
    OBVIOUS
  <1>3. \A q \in PaymentIds : f[q] \in Int /\ h[q] = f[q]
    BY <1>2, LedgerTyped DEF TakingsTyped
  <1>4. SumFunctionOnSet(f, PaymentIds) = SumFunctionOnSet(h, PaymentIds)
    BY <1>1, <1>3, SumSame
  <1>5. SumFunctionOnSet(f, PaymentIds) \in Int
    BY <1>1, <1>3, SumType
  <1> QED BY <1>2, <1>4, <1>5 DEF TotalTakings

\* What remains to be shown of each step: n is the money that came in by it.
LEMMA LedgerKept ==
  ASSUME TypeOK, TypeOK', LedgerInv, NEW r \in Requests, OthersWait(r),
         req'[r].pc \notin Correcting, Kept \subseteq Kept',
         req'[r].pc \in OwingSteps => req'[r].pay \in Kept',
         NEW n \in Int, TotalTakings \in Int, TotalTakings' = TotalTakings + n,
         Held' = Held + n - (Lag'[r] - Lag[r])
  PROVE  LedgerInv'
  <1>1. TotalLag \in Int /\ TotalLag' = TotalLag - Lag[r] + Lag'[r]
    BY LagChange
  <1>2. Lag[r] \in Int /\ Lag'[r] \in Int
    BY LedgerTyped DEF LagsTyped
  <1>3. Held \in Int
    BY DEF TypeOK, TypeOKBooks, Held
  <1>4. Held = TotalTakings - TotalLag
    BY DEF LedgerInv, LedgerTracksMoney, Held, TotalTakings, TotalLag
  <1>5. Held' = TotalTakings' - TotalLag'
    BY <1>1, <1>2, <1>3, <1>4
  <1>6. LedgerTracksMoney'
    BY <1>5 DEF LedgerTracksMoney, Held, TotalTakings, TotalLag
  <1>7. \A s \in Requests : req'[s].pc \notin Correcting
    BY DEF LedgerInv, OthersWait
  <1>8. \A s \in Requests : req'[s].pc \in OwingSteps => req'[s].pay \in Kept'
    BY DEF LedgerInv, OthersWait
  <1> QED BY <1>6, <1>7, <1>8 DEF LedgerInv

\* A step that moves no money, posts none and leaves its handler's lag alone.
LEMMA SameLedger ==
  ASSUME TypeOK, TypeOK', LedgerInv, NEW r \in Requests, OthersWait(r),
         req'[r].pc \notin Correcting, req'[r].pc \in OwingSteps => req'[r].pay \in Kept,
         Lag'[r] = Lag[r], UNCHANGED <<payments, given>>, Held' = Held
  PROVE  LedgerInv'
  <1>1. \A q \in PaymentIds : Takings'[q] = Takings[q]
    BY DEF Takings, Kept
  <1>2. TotalTakings \in Int /\ TotalTakings' = TotalTakings
    BY <1>1, TakingsSame
  <1>3. Kept' = Kept
    BY DEF Kept
  <1>4. Lag[r] \in Int
    BY LedgerTyped DEF LagsTyped
  <1>5. Held \in Int
    BY DEF TypeOK, TypeOKBooks, Held
  <1> QED BY <1>2, <1>3, <1>4, <1>5, LedgerKept

\* So does a step between two others at which nothing lags.
LEMMA IdleLedger ==
  ASSUME TypeOK, TypeOK', LedgerInv, NEW r \in Requests, OthersWait(r),
         req[r].pc \notin LagSteps \cup {"crashed"},
         req'[r].pc \notin LagSteps \cup Correcting \cup {"crashed"},
         req'[r].pc \in OwingSteps => req'[r].pay \in Kept,
         UNCHANGED <<payments, given>>, Held' = Held
  PROVE  LedgerInv'
  <1>1. Lag[r] = 0 /\ Lag'[r] = 0
    BY NoLag
  <1> QED BY <1>1, SameLedger

LEMMA FinishDone ==
  ASSUME TypeOK, NEW r \in Requests, Finish(r)
  PROVE  OthersWait(r) /\ req'[r].pc = "done"
  BY DEF TypeOK, TypeOKBooks, Finish, OthersWait, Blank

\* The payment of a receipt is inserted: the money is in, the ledger lags behind.
LEMMA InsertLedger ==
  ASSUME TypeOK, TypeOK', GivenInv, LedgerInv, NEW r \in Requests, NEW p \in PaymentIds,
         payments[p].st = "none", payments' = [payments EXCEPT ![p] = NewPayment(r)],
         req[r].pc \notin LagSteps \cup {"crashed"},
         OthersWait(r), req'[r].pc \in {"record_post", "create_read"},
         req'[r].amount = req[r].amount, UNCHANGED <<given, books>>
  PROVE  LedgerInv'
  <1>1. /\ payments'[p].st = "kept" /\ payments'[p].amount = req[r].amount
        /\ \A q \in PaymentIds \ {p} : payments'[q] = payments[q]
    BY DEF TypeOK, TypeOKBooks, NewPayment
  <1>2. given[p] = 0 /\ given'[p] = 0
    BY DEF GivenInv
  <1>3. req[r].amount \in Nat
    BY DEF TypeOK, TypeOKBooks, Handlers
  <1>4. /\ Takings[p] = 0 /\ Takings'[p] = req[r].amount
        /\ \A q \in PaymentIds \ {p} : Takings'[q] = Takings[q]
    BY <1>1, <1>2, <1>3 DEF Takings, Kept
  <1>5. TotalTakings \in Int /\ TotalTakings' = TotalTakings + req[r].amount
    <2>1. TotalTakings \in Int /\ TotalTakings' = TotalTakings - Takings[p] + Takings'[p]
      BY <1>4, TakingsChange
    <2> QED BY <1>3, <1>4, <2>1
  <1>6. Lag[r] = 0
    BY NoLag
  <1>7. Lag'[r] = req[r].amount
    BY DEF Lag, Stopped
  <1>8. Held \in Int /\ Held' = Held
    BY DEF TypeOK, TypeOKBooks, Held
  <1>9. Held' = Held + req[r].amount - (Lag'[r] - Lag[r])
    BY <1>3, <1>6, <1>7, <1>8
  <1>10. Kept \subseteq Kept' /\ req'[r].pc \notin Correcting \cup OwingSteps
    BY <1>1 DEF Kept, Correcting, OwingSteps
  <1>11. req[r].amount \in Int
    BY <1>3
  <1> QED BY <1>5, <1>9, <1>10, <1>11, LedgerKept

\* A receipt is posted.
LEMMA ReceiptLedger ==
  ASSUME TypeOK, TypeOK', LedgerInv, NEW r \in Requests,
         req[r].pc \in {"record_post", "create_post"}, Post("cash", "receivable", req[r].amount),
         OthersWait(r), req'[r].pc \notin LagSteps \cup Correcting \cup OwingSteps \cup {"crashed"},
         UNCHANGED <<payments, given>>
  PROVE  LedgerInv'
  <1>1. \A q \in PaymentIds : Takings'[q] = Takings[q]
    BY DEF Takings, Kept
  <1>2. TotalTakings \in Int /\ TotalTakings' = TotalTakings
    BY <1>1, TakingsSame
  <1>3. Lag[r] = req[r].amount
    BY DEF Lag, Stopped
  <1>4. Lag'[r] = 0
    BY NoLag
  <1>5. req[r].amount \in Nat /\ Held \in Int /\ Held' = Held + req[r].amount
    BY DEF TypeOK, TypeOKBooks, Handlers, Post, Held
  <1>6. Held' = Held + 0 - (Lag'[r] - Lag[r])
    BY <1>3, <1>4, <1>5
  <1>7. Kept' = Kept
    BY DEF Kept
  <1> QED BY <1>2, <1>6, <1>7, LedgerKept

LEMMA RecordLedger ==
  ASSUME TypeOK, TypeOK', GivenInv, LedgerInv, NEW r \in Requests, Record(r)
  PROVE  LedgerInv'
  <1> USE DEF TypeOK, TypeOKBooks
  <1>1. CASE RecordStart(r)
    <2>1. PICK amount \in Amounts, method \in Methods, force \in BOOLEAN :
            req' = [req EXCEPT ![r] = [Blank EXCEPT !.pc = "record_guard", !.op = "record",
                      !.amount = amount, !.method = method, !.force = force, !.staff = TRUE]]
      BY <1>1 DEF RecordStart
    <2>2. OthersWait(r) /\ req'[r].pc = "record_guard"
      BY <2>1 DEF OthersWait, Blank
    <2>3. req[r].pc = "idle" /\ UNCHANGED <<payments, given>> /\ Held' = Held
      BY <1>1 DEF RecordStart, CanStart, Held
    <2> QED BY <2>2, <2>3, IdleLedger DEF LagSteps, Correcting, OwingSteps
  <1>2. CASE RecordGuard(r)
    <2>1. OthersWait(r) /\ req'[r].pc \in {"done", "record_commit"}
      BY <1>2, FinishDone, GotoGoesOn DEF RecordGuard, RefundGoesOn
    <2>2. req[r].pc = "record_guard" /\ UNCHANGED <<payments, given>> /\ Held' = Held
      BY <1>2 DEF RecordGuard, At, Held
    <2> QED BY <2>1, <2>2, IdleLedger DEF LagSteps, Correcting, OwingSteps
  <1>3. CASE RecordCommit(r)
    <2>1. req[r].pc = "record_commit" /\ UNCHANGED <<given, books>>
      BY <1>3 DEF RecordCommit, At
    <2>2. CASE Finish(r) /\ UNCHANGED payments
      <3>1. OthersWait(r) /\ req'[r].pc = "done" /\ Held' = Held
        BY <2>1, <2>2, FinishDone DEF Held
      <3> QED BY <2>1, <2>2, <3>1, IdleLedger DEF LagSteps, Correcting, OwingSteps
    <2>3. ASSUME NEW p \in PaymentIds,
                 /\ payments[p].st = "none"
                 /\ payments' = [payments EXCEPT ![p] = NewPayment(r)]
                 /\ req' = [req EXCEPT ![r].pc = "record_post", ![r].pay = p]
          PROVE  LedgerInv'
      <3>1. /\ OthersWait(r) /\ req'[r].pc = "record_post"
            /\ req'[r].amount = req[r].amount
        BY <2>3 DEF OthersWait, Handlers
      <3>2. req[r].pc \notin LagSteps \cup {"crashed"}
        BY <2>1 DEF LagSteps
      <3> QED BY <2>1, <2>3, <3>1, <3>2, InsertLedger
    <2> QED BY <1>3, <2>2, <2>3 DEF RecordCommit
  <1>4. CASE RecordPost(r)
    <2>1. OthersWait(r) /\ req'[r].pc \in {"done", "extend_read"}
      BY <1>4, FinishDone, GotoGoesOn DEF RecordPost, RefundGoesOn
    <2>2. /\ req[r].pc = "record_post" /\ Post("cash", "receivable", req[r].amount)
          /\ UNCHANGED <<payments, given>>
      BY <1>4 DEF RecordPost, At
    <2> QED BY <2>1, <2>2, ReceiptLedger DEF LagSteps, Correcting, OwingSteps
  <1> QED BY <1>1, <1>2, <1>3, <1>4 DEF Record

LEMMA CreateLedger ==
  ASSUME TypeOK, TypeOK', GivenInv, LedgerInv, NEW r \in Requests, Create(r)
  PROVE  LedgerInv'
  <1> USE DEF TypeOK, TypeOKBooks
  <1>1. CASE CreateStart(r)
    <2>1. PICK amount \in Amounts, method \in Methods, force \in BOOLEAN :
            req' = [req EXCEPT ![r] = [Blank EXCEPT !.pc = "create_guard", !.op = "create",
                      !.amount = amount, !.method = method, !.force = force, !.staff = TRUE]]
      BY <1>1 DEF CreateStart
    <2>2. OthersWait(r) /\ req'[r].pc = "create_guard"
      BY <2>1 DEF OthersWait, Blank
    <2>3. req[r].pc = "idle" /\ UNCHANGED <<payments, given>> /\ Held' = Held
      BY <1>1 DEF CreateStart, CanStart, Held
    <2> QED BY <2>2, <2>3, IdleLedger DEF LagSteps, Correcting, OwingSteps
  <1>2. CASE CreateGuard(r)
    <2>1. OthersWait(r) /\ req'[r].pc \in {"done", "create_insert"}
      BY <1>2, FinishDone, GotoGoesOn DEF CreateGuard, RefundGoesOn
    <2>2. req[r].pc = "create_guard" /\ UNCHANGED <<payments, given>> /\ Held' = Held
      BY <1>2 DEF CreateGuard, At, Held
    <2> QED BY <2>1, <2>2, IdleLedger DEF LagSteps, Correcting, OwingSteps
  <1>3. CASE CreateInsert(r)
    <2>1. req[r].pc \notin LagSteps \cup {"crashed"} /\ UNCHANGED <<given, books>>
      BY <1>3 DEF CreateInsert, At, LagSteps
    <2>2. PICK p \in PaymentIds :
            /\ payments[p].st = "none"
            /\ payments' = [payments EXCEPT ![p] = NewPayment(r)]
            /\ req' = [req EXCEPT ![r].pc = "create_read", ![r].pay = p]
      BY <1>3 DEF CreateInsert
    <2>3. OthersWait(r) /\ req'[r].pc = "create_read" /\ req'[r].amount = req[r].amount
      BY <2>2 DEF OthersWait, Handlers
    <2> QED BY <2>1, <2>2, <2>3, InsertLedger
  <1>4. CASE CreateRead(r) \/ CreateWrite(r)
    <2>1. /\ OthersWait(r) /\ req'[r].amount = req[r].amount
          /\ req'[r].pc \in {"create_write", "create_post"}
      <3>1. CASE CreateRead(r)
        BY <3>1 DEF CreateRead, OthersWait, Handlers
      <3>2. CASE CreateWrite(r)
        BY <3>2, GotoGoesOn DEF CreateWrite, RefundGoesOn
      <3> QED BY <1>4, <3>1, <3>2
    <2>2. /\ req[r].pc \in {"create_read", "create_write"}
          /\ UNCHANGED <<payments, given>> /\ Held' = Held
      BY <1>4 DEF CreateRead, CreateWrite, At, Held
    <2>3. Lag'[r] = Lag[r]
      BY <2>1, <2>2 DEF Lag, Stopped
    <2> QED BY <2>1, <2>2, <2>3, SameLedger DEF Correcting, OwingSteps
  <1>5. CASE CreatePost(r)
    <2>1. OthersWait(r) /\ req'[r].pc = "done"
      BY <1>5, FinishDone DEF CreatePost
    <2>2. /\ req[r].pc = "create_post" /\ Post("cash", "receivable", req[r].amount)
          /\ UNCHANGED <<payments, given>>
      BY <1>5 DEF CreatePost, At
    <2> QED BY <2>1, <2>2, ReceiptLedger DEF LagSteps, Correcting, OwingSteps
  <1> QED BY <1>1, <1>2, <1>3, <1>4, <1>5 DEF Create

\* Money goes back on p.
LEMMA HandedBack ==
  ASSUME TypeOK, TypeOK', NEW r \in Requests, NEW p \in Kept, UNCHANGED payments,
         given' = [given EXCEPT ![p] = @ + req[r].amount]
  PROVE  TotalTakings \in Int /\ TotalTakings' = TotalTakings + (-req[r].amount)
  <1>1. p \in PaymentIds
    BY DEF Kept
  <1>2. given'[p] = given[p] + req[r].amount /\ \A q \in PaymentIds \ {p} : given'[q] = given[q]
    BY <1>1 DEF TypeOK, TypeOKBooks
  <1>3. given[p] \in Nat /\ req[r].amount \in Nat /\ payments[p].amount \in Nat
    BY <1>1 DEF TypeOK, TypeOKBooks, Handlers, PaymentRows
  <1>4. Takings[p] = payments[p].amount - given[p] /\ Takings'[p] = payments[p].amount - given'[p]
    BY <1>1 DEF Takings, Kept
  <1>5. \A q \in PaymentIds \ {p} : Takings'[q] = Takings[q]
    BY <1>2 DEF Takings, Kept
  <1>6. TotalTakings \in Int /\ TotalTakings' = TotalTakings - Takings[p] + Takings'[p]
    BY <1>1, <1>5, TakingsChange
  <1> QED BY <1>2, <1>3, <1>4, <1>6

LEMMA RefundLedger ==
  ASSUME TypeOK, TypeOK', GivenInv, LedgerInv, NEW r \in Requests, Refund(r)
  PROVE  LedgerInv'
  <1> USE DEF TypeOK, TypeOKBooks
  <1>1. req[r].amount \in Nat /\ Held \in Int
    BY DEF Handlers, Held
  <1>2. UNCHANGED payments => Kept' = Kept
    BY DEF Kept
  <1>3. CASE RefundStart(r) \/ RefundRead(r)
    <2>1. OthersWait(r) /\ OwesNothing(r)' /\ req'[r].pc \in {"done", "refund_read", "refund_claim"}
      <3>1. OthersWait(r) /\ OwesNothing(r)'
        BY <1>3, RefundReadPlain DEF PlainStep
      <3>2. CASE Finish(r)
        BY <3>1, <3>2, FinishDone
      <3>3. CASE RefundStart(r) /\ ~Finish(r)
        <4>1. PICK p \in Kept, slice \in Amounts \cup {0}, toBalance \in BOOLEAN :
                req' = [req EXCEPT ![r] = [Blank EXCEPT !.pc = "refund_read", !.op = "refund",
                          !.pay = p, !.amount = slice, !.toBalance = toBalance]]
          BY <3>3 DEF RefundStart
        <4> QED BY <3>1, <4>1 DEF Blank
      <3>4. CASE RefundRead(r) /\ ~Finish(r)
        <4>1. PICK amount, row :
                req' = [req EXCEPT ![r].pc = "refund_claim", ![r].amount = amount,
                          ![r].row = row, ![r].inv = invoice]
          BY <3>4 DEF RefundRead
        <4> QED BY <3>1, <4>1 DEF Handlers
      <3> QED BY <1>3, <3>2, <3>3, <3>4
    <2>2. req[r].pc \in {"idle", "refund_read"} /\ UNCHANGED <<payments, given>> /\ Held' = Held
      BY <1>3 DEF RefundStart, RefundRead, CanStart, At, Held
    <2> QED BY <2>1, <2>2, IdleLedger DEF LagSteps, Correcting, OwingSteps
  <1>4. CASE RefundClaim(r)
    <2>1. req[r].pc = "refund_claim" /\ UNCHANGED given /\ Held' = Held
      BY <1>4 DEF RefundClaim, At, Held
    <2>2. CASE Finish(r) /\ UNCHANGED payments
      <3>1. OthersWait(r) /\ req'[r].pc = "done"
        BY <2>2, FinishDone
      <3> QED BY <2>1, <2>2, <3>1, IdleLedger DEF LagSteps, Correcting, OwingSteps
    <2>3. CASE ~(Finish(r) /\ UNCHANGED payments)
      <3>1. /\ req[r].pay \in Kept
            /\ payments' = [payments EXCEPT
                              ![req[r].pay].refunded = req[r].row.refunded + req[r].amount,
                              ![req[r].pay].closed =
                                 (req[r].row.refunded + req[r].amount >= req[r].row.amount)]
            /\ Goto(r, "refund_invoice")
        BY <1>4, <2>3 DEF RefundClaim
      <3>2. OthersWait(r) /\ req'[r].pc = "refund_invoice" /\ req'[r].pay = req[r].pay
        BY <3>1, GotoGoesOn DEF RefundGoesOn
      <3>3. \A q \in PaymentIds : /\ payments'[q].st = payments[q].st
                                  /\ payments'[q].amount = payments[q].amount
        <4>1. payments \in [PaymentIds -> PaymentRows]
          BY DEF TypeOK
        <4> HIDE DEF TypeOK, TypeOKBooks
        <4>2. PICK n, refunded, closed : payments' = [payments EXCEPT ![n].refunded = refunded, ![n].closed = closed]
          BY <3>1
        <4>3. payments' = [payments EXCEPT ![n] = [payments[n] EXCEPT !.refunded = refunded, !.closed = closed]]
          BY <4>1, <4>2
        <4>4. \A q \in PaymentIds : /\ [payments[q] EXCEPT !.refunded = refunded, !.closed = closed].st = payments[q].st
                                    /\ [payments[q] EXCEPT !.refunded = refunded, !.closed = closed].amount = payments[q].amount
          BY <4>1 DEF PaymentRows
        <4> QED BY <4>1, <4>3, <4>4
      <3>4. Kept' = Kept /\ \A q \in PaymentIds : Takings'[q] = Takings[q]
        BY <2>1, <3>3 DEF Kept, Takings
      <3>5. TotalTakings \in Int /\ TotalTakings' = TotalTakings
        BY <3>4, TakingsSame
      <3>6. Lag[r] = 0 /\ Lag'[r] = 0
        BY <2>1, <3>2, NoLag DEF LagSteps
      <3>7. TotalTakings' = TotalTakings + 0 /\ Held' = Held + 0 - (Lag'[r] - Lag[r])
        BY <1>1, <2>1, <3>5, <3>6
      <3>8. req[r].pay \in Kept
        BY <3>1
      <3> QED BY <3>2, <3>4, <3>5, <3>7, <3>8, LedgerKept DEF Correcting
    <2> QED BY <2>2, <2>3
  <1>5. CASE RefundInvoice(r) \/ RefundWallet(r)
    <2>1. /\ OthersWait(r) /\ req'[r].pay = req[r].pay
          /\ req'[r].toBalance = req[r].toBalance
          /\ \/ req'[r].pc \in {"refund_wallet", "refund_credit"}
             \/ req'[r].pc = "refund_post" /\ ~req[r].toBalance
      <3>1. CASE RefundInvoice(r)
        BY <3>1, GotoGoesOn DEF RefundInvoice, RefundGoesOn
      <3>2. CASE RefundWallet(r)
        BY <3>2 DEF RefundWallet, OthersWait, Handlers
      <3> QED BY <1>5, <3>1, <3>2
    <2>2. /\ req[r].pc \in {"refund_invoice", "refund_wallet"}
          /\ UNCHANGED <<payments, given>> /\ Held' = Held
      BY <1>5 DEF RefundInvoice, RefundWallet, At, Held
    <2>3. Lag[r] = 0 /\ Lag'[r] = 0
      BY <2>1, <2>2 DEF Lag, Stopped
    <2>4. req[r].pay \in Kept
      BY <2>2 DEF LedgerInv, OwingSteps
    <2> QED BY <2>1, <2>2, <2>3, <2>4, SameLedger DEF Correcting
  <1>6. CASE RefundCredit(r)
    <2>1. /\ req[r].pc = "refund_credit" /\ req[r].toBalance /\ Held' = Held
          /\ given' = [given EXCEPT ![req[r].pay] = @ + req[r].amount] /\ UNCHANGED payments
      BY <1>6 DEF RefundCredit, At, Held, GivenInv, Stopped
    <2>2. /\ OthersWait(r) /\ req'[r].pay = req[r].pay /\ req'[r].amount = req[r].amount
          /\ req'[r].toBalance = req[r].toBalance /\ req'[r].pc = "refund_post"
      BY <1>6, GotoGoesOn DEF RefundCredit, RefundGoesOn
    <2>3. req[r].pay \in Kept
      BY <2>1 DEF LedgerInv, OwingSteps
    <2>4. TotalTakings \in Int /\ TotalTakings' = TotalTakings + (-req[r].amount)
      BY <2>1, <2>3, HandedBack
    <2>5. Lag[r] = 0 /\ Lag'[r] = -req[r].amount
      BY <2>1, <2>2 DEF Lag, Stopped
    <2>6. Held' = Held + (-req[r].amount) - (Lag'[r] - Lag[r]) /\ -req[r].amount \in Int
      BY <1>1, <2>1, <2>5
    <2> QED BY <1>2, <2>1, <2>2, <2>3, <2>4, <2>6, LedgerKept DEF Correcting
  <1>7. CASE RefundPost(r)
    <2>1. req[r].pc = "refund_post" /\ UNCHANGED payments /\ req[r].pay \in Kept
      BY <1>7 DEF RefundPost, At, LedgerInv, OwingSteps
    <2>2. OthersWait(r) /\ req'[r].pc \in {"done", "approve_mark"}
      BY <1>7, FinishDone, GotoGoesOn DEF RefundPost, RefundGoesOn
    <2>3. Lag'[r] = 0 /\ Lag[r] = IF req[r].toBalance THEN -req[r].amount ELSE 0
      BY <2>1, <2>2 DEF Lag, Stopped
    <2>4. Held' = Held - req[r].amount
      BY <1>7 DEF RefundPost, Post, Held, Handlers
    <2>5. CASE req[r].toBalance
      <3>1. UNCHANGED <<payments, given>>
        BY <1>7, <2>5 DEF RefundPost
      <3>2. \A q \in PaymentIds : Takings'[q] = Takings[q]
        BY <3>1 DEF Takings, Kept
      <3>3. TotalTakings \in Int /\ TotalTakings' = TotalTakings
        BY <3>2, TakingsSame
      <3>4. Held' = Held + 0 - (Lag'[r] - Lag[r])
        BY <1>1, <2>3, <2>4, <2>5
      <3> QED BY <1>2, <2>1, <2>2, <3>3, <3>4, LedgerKept DEF Correcting, OwingSteps
    <2>6. CASE ~req[r].toBalance
      <3>1. given' = [given EXCEPT ![req[r].pay] = @ + req[r].amount]
        BY <1>7, <2>6 DEF RefundPost
      <3>2. TotalTakings \in Int /\ TotalTakings' = TotalTakings + (-req[r].amount)
        BY <2>1, <3>1, HandedBack
      <3>3. Held' = Held + (-req[r].amount) - (Lag'[r] - Lag[r]) /\ -req[r].amount \in Int
        BY <1>1, <2>3, <2>4, <2>6
      <3> QED BY <1>2, <2>1, <2>2, <3>2, <3>3, LedgerKept DEF Correcting, OwingSteps
    <2> QED BY <2>5, <2>6
  <1> QED BY <1>3, <1>4, <1>5, <1>6, <1>7 DEF Refund

LEMMA ApprovalLedger ==
  ASSUME TypeOK, TypeOK', LedgerInv, NEW r \in Requests, Approval(r)
  PROVE  LedgerInv'
  <1>1. /\ req[r].pc \in {"idle", "approve_mark", "reject_mark"}
        /\ UNCHANGED <<payments, given>> /\ Held' = Held
    BY DEF Approval, ApproveStart, ApproveMark, RejectStart, RejectMark, CanStart, At, Held
  <1>2. OthersWait(r) /\ req'[r].pc \in {"refund_read", "reject_mark", "done"}
    <2>1. CASE ApproveStart(r)
      BY <2>1 DEF ApproveStart, OthersWait, Blank, TypeOK, TypeOKBooks
    <2>2. CASE RejectStart(r)
      BY <2>2 DEF RejectStart, OthersWait, Blank, TypeOK, TypeOKBooks
    <2>3. CASE ApproveMark(r) \/ RejectMark(r)
      BY <2>3, FinishDone DEF ApproveMark, RejectMark
    <2> QED BY <2>1, <2>2, <2>3 DEF Approval
  <1> QED BY <1>1, <1>2, IdleLedger DEF LagSteps, Correcting, OwingSteps

LEMMA ReverseLedger ==
  ASSUME TypeOK, TypeOK', LedgerInv, NEW r \in Requests, Reverse(r)
  PROVE  LedgerInv'
  <1> USE DEF TypeOK, TypeOKBooks
  <1>1. /\ req[r].pc \in {"idle", "reverse_write", "reverse_post"}
        /\ UNCHANGED <<payments, given>> /\ Held' = Held
    BY DEF Reverse, ReverseStart, ReverseWrite, ReversePost, CanStart, At, Post, Held
  <1>2. OthersWait(r) /\ req'[r].pc \in {"reverse_write", "reverse_post", "done"}
    <2>1. CASE ReverseStart(r)
      BY <2>1 DEF ReverseStart, OthersWait, Blank
    <2>2. CASE ReverseWrite(r)
      BY <2>2, GotoGoesOn DEF ReverseWrite, RefundGoesOn
    <2>3. CASE ReversePost(r)
      BY <2>3, FinishDone DEF ReversePost
    <2> QED BY <2>1, <2>2, <2>3 DEF Reverse
  <1> QED BY <1>1, <1>2, IdleLedger DEF LagSteps, Correcting, OwingSteps

\* What a dead handler had not posted stays unposted.
LEMMA CrashLedger ==
  ASSUME TypeOK, TypeOK', LedgerInv, NEW r \in Requests, Crash(r)
  PROVE  LedgerInv'
  <1>1. /\ OthersWait(r)
        /\ req'[r].pc = "crashed" /\ req'[r].at = req[r].pc /\ req[r].pc # "crashed"
        /\ req'[r].amount = req[r].amount /\ req'[r].toBalance = req[r].toBalance
        /\ UNCHANGED <<payments, given, books>>
    <2>1. req \in [Requests -> Handlers] /\ req[r].pc # "crashed"
      BY DEF Crash, Running, Steps, TypeOK, TypeOKBooks
    <2>2. OthersWait(r) /\ UNCHANGED <<payments, given, books>>
      BY <2>1 DEF Crash, OthersWait
    <2>3. req'[r] = [req[r] EXCEPT !.pc = "crashed", !.at = req[r].pc]
      BY <2>1 DEF Crash
    <2>4. req[r] \in Handlers
      BY <2>1
    <2> QED BY <2>1, <2>2, <2>3, <2>4 DEF Handlers
  <1>2. Lag'[r] = Lag[r] /\ Held' = Held
    BY <1>1 DEF Lag, Stopped, Held
  <1> QED BY <1>1, <1>2, SameLedger DEF Correcting, OwingSteps

LEMMA WindowLedger ==
  ASSUME TypeOK, LedgerInv, NEW p \in PaymentIds, WindowPasses(p)
  PROVE  LedgerInv'
  <1>1. \A q \in PaymentIds : payments'[q].st = payments[q].st
                              /\ payments'[q].amount = payments[q].amount
    BY DEF WindowPasses, TypeOK, TypeOKBooks, PaymentRows
  <1>2. UNCHANGED <<given, req, books>>
    BY DEF WindowPasses
  <1>3. Kept' = Kept /\ \A q \in PaymentIds : Takings'[q] = Takings[q]
    BY <1>1, <1>2 DEF Kept, Takings
  <1>4. TotalTakings' = TotalTakings
    BY <1>3, TakingsSame
  <1>5. TotalLag' = TotalLag
    BY <1>2 DEF TotalLag, Lag, Stopped
  <1>6. LedgerTracksMoney'
    BY <1>2, <1>4, <1>5 DEF LedgerInv, LedgerTracksMoney, TotalTakings, TotalLag
  <1> QED BY <1>2, <1>3, <1>6 DEF LedgerInv

LEMMA LedgerStep ==
  ASSUME "update" \notin Ops, "remove" \notin Ops, TypeOK, GivenInv, LedgerInv, [Next]_vars
  PROVE  LedgerInv'
  <1>1. TypeOK'
    BY StepTyped
  <1>2. \A r \in Requests : ~Update(r) /\ ~Remove(r)
    BY DEF Update, UpdateStart, UpdateRow, UpdateRead, UpdateWrite, UpdatePost,
       Remove, RemoveStart, RemoveRead, RemoveWrite, RemovePost, RemoveDelete,
       CanStart, At, LedgerInv, Correcting
  <1>3. ASSUME NEW r \in Requests, Entry(r) PROVE LedgerInv'
    BY <1>1, <1>2, <1>3, RecordLedger, CreateLedger, CrashLedger DEF Entry
  <1>4. ASSUME NEW r \in Requests, MoneyBack(r) PROVE LedgerInv'
    BY <1>1, <1>4, RefundLedger, ApprovalLedger, ReverseLedger DEF MoneyBack
  <1>5. ASSUME NEW p \in PaymentIds, WindowPasses(p) PROVE LedgerInv'
    BY <1>5, WindowLedger
  <1>6. CASE UNCHANGED vars
    BY <1>6 DEF vars, LedgerInv, LedgerTracksMoney, Kept, Takings, Lag, Stopped
  <1> QED BY <1>3, <1>4, <1>5, <1>6 DEF Next

LEMMA LedgerInit == Init => LedgerInv
  <1> SUFFICES ASSUME Init PROVE LedgerInv
    OBVIOUS
  <1>1. \A r \in Requests : req[r].pc = "idle" /\ Lag[r] = 0
    BY DEF Init, InitBooks, Blank, Lag, Stopped
  <1>2. \A p \in PaymentIds : Takings[p] = 0
    BY DEF Init, InitBooks, NoRow, Kept, Takings
  <1>3. IsFiniteSet(Requests) /\ IsFiniteSet(PaymentIds)
    BY BooksAssumption
  <1>4. PICK f, h : f = Takings /\ h = Lag
    OBVIOUS
  <1>5. SumFunctionOnSet(f, PaymentIds) = 0
    BY <1>2, <1>3, <1>4, SumZero
  <1>6. SumFunctionOnSet(h, Requests) = 0
    BY <1>1, <1>3, <1>4, SumZero
  <1>7. books.cash + books.wallet = 0
    BY DEF Init, InitBooks
  <1> QED BY <1>1, <1>4, <1>5, <1>6, <1>7 DEF LedgerInv, LedgerTracksMoney, Correcting, OwingSteps

\* While nobody edits or deletes a payment, whatever receipts, refunds, approvals, reversals and
\* deaths interleave, the ledger's cash and wallet accounts hold the money that came in less
\* what was handed back, up to the postings that handlers in flight or dead still owe.
THEOREM LedgerKnowsTheMoney ==
  ASSUME "update" \notin Ops, "remove" \notin Ops
  PROVE  Spec => []LedgerTracksMoney
  <1>1. TypeOK /\ GivenInv /\ LedgerInv /\ [Next]_vars => LedgerInv'
    BY LedgerStep
  <1>2. LedgerInv => LedgerTracksMoney
    BY DEF LedgerInv
  <1> QED BY <1>1, <1>2, LedgerInit, GivenInit, GivenStep, TypeCorrect, PTL DEF Spec

-----------------------------------------------------------------------------
(* A cancelled invoice.  Handlers overlap as they like: a handler that     *)
(* takes a payment for an invoice checks that it is not cancelled, and a   *)
(* reversal that no payment is left, before they write.  recordPayment     *)
(* checks again inside its locked transaction; the others do not.          *)

\* The handlers other than the one that takes a step stand still.
LEMMA StepsWait ==
  ASSUME TypeOK, NEW r \in Requests, Entry(r) \/ MoneyBack(r)
  PROVE  OthersWait(r)
  <1>1. CASE Record(r) \/ Create(r) \/ Update(r) \/ Remove(r)
    BY <1>1, RecordPlain, CreatePlain, UpdatePlain, RemovePlain DEF PlainStep
  <1>2. CASE Crash(r)
    BY <1>2 DEF Crash, OthersWait, TypeOK, TypeOKBooks
  <1>3. CASE Approval(r) \/ Reverse(r)
    BY <1>3, ApprovalPlain, ReversePlain DEF PlainStep
  <1>4. CASE RefundStart(r) \/ RefundRead(r)
    BY <1>4, RefundReadPlain DEF PlainStep
  <1>5. CASE RefundClaim(r) \/ RefundInvoice(r) \/ RefundCredit(r) \/ RefundPost(r)
    BY <1>5, FinishDone, GotoGoesOn
       DEF RefundClaim, RefundInvoice, RefundCredit, RefundPost, RefundGoesOn
  <1>6. CASE RefundWallet(r)
    BY <1>6 DEF RefundWallet, OthersWait, TypeOK, TypeOKBooks
  <1> QED BY <1>1, <1>2, <1>3, <1>4, <1>5, <1>6 DEF Entry, MoneyBack, Refund

LEMMA UpdatePlaces ==
  ASSUME TypeOK, NEW r \in Requests, UpdateRow(r) \/ UpdateWrite(r)
  PROVE  req'[r].pc \in {"update_read", "update_post", "done"}
  <1>1. CASE Finish(r)
    BY <1>1, FinishDone
  <1>2. CASE Goto(r, "update_read")
    BY <1>2, GotoGoesOn
  <1>3. CASE Goto(r, "update_post")
    BY <1>3, GotoGoesOn
  <1>4. Finish(r) \/ Goto(r, "update_read") \/ Goto(r, "update_post")
    BY DEF UpdateRow, UpdateWrite
  <1> QED BY <1>1, <1>2, <1>3, <1>4

\* Where a handler can be after a step of each kind.
LEMMA Places ==
  ASSUME TypeOK, NEW r \in Requests
  PROVE  /\ Record(r) => req'[r].pc \in {"record_guard", "record_commit", "record_post",
                                         "extend_read", "done"}
         /\ Create(r) => req'[r].pc \in {"create_guard", "create_insert", "create_read",
                                         "create_write", "create_post", "done"}
         /\ Update(r) => req'[r].pc \in {"update_row", "update_read", "update_write",
                                         "update_post", "done"}
         /\ Remove(r) => req'[r].pc \in {"remove_read", "remove_write", "remove_post",
                                         "remove_delete", "done"}
         /\ Crash(r) => req'[r].pc = "crashed"
         /\ Approval(r) => req'[r].pc \in {"refund_read", "reject_mark", "done"}
         /\ Reverse(r) => req'[r].pc \in {"reverse_write", "reverse_post", "done"}
  <1> USE DEF TypeOK, TypeOKBooks
  <1>1. ASSUME Record(r)
        PROVE  req'[r].pc \in {"record_guard", "record_commit", "record_post", "extend_read", "done"}
    <2>1. CASE RecordStart(r)
      BY <2>1 DEF RecordStart, Blank
    <2>2. CASE RecordGuard(r)
      BY <2>2, FinishDone, GotoGoesOn DEF RecordGuard
    <2>3. CASE RecordCommit(r)
      <3>1. CASE Finish(r)
        BY <3>1, FinishDone
      <3>2. CASE ~Finish(r)
        <4>1. PICK p \in PaymentIds : req' = [req EXCEPT ![r].pc = "record_post", ![r].pay = p]
          BY <2>3, <3>2 DEF RecordCommit
        <4> QED BY <4>1 DEF Handlers
      <3> QED BY <3>1, <3>2
    <2>4. CASE RecordPost(r)
      BY <2>4, FinishDone, GotoGoesOn DEF RecordPost
    <2> QED BY <1>1, <2>1, <2>2, <2>3, <2>4 DEF Record
  <1>2. ASSUME Create(r)
        PROVE  req'[r].pc \in {"create_guard", "create_insert", "create_read", "create_write",
                               "create_post", "done"}
    <2>1. CASE CreateStart(r)
      BY <2>1 DEF CreateStart, Blank
    <2>2. CASE CreateGuard(r) \/ CreateWrite(r) \/ CreatePost(r)
      BY <2>2, FinishDone, GotoGoesOn DEF CreateGuard, CreateWrite, CreatePost
    <2>3. CASE CreateInsert(r) \/ CreateRead(r)
      BY <2>3 DEF CreateInsert, CreateRead, Handlers
    <2> QED BY <1>2, <2>1, <2>2, <2>3 DEF Create
  <1>3. ASSUME Update(r)
        PROVE  req'[r].pc \in {"update_row", "update_read", "update_write", "update_post", "done"}
    <2>1. CASE UpdateStart(r)
      BY <2>1 DEF UpdateStart, Blank
    <2>2. CASE UpdateRead(r)
      BY <2>2 DEF UpdateRead, Handlers
    <2>3. CASE UpdateRow(r) \/ UpdateWrite(r)
      BY <2>3, UpdatePlaces
    <2>4. CASE UpdatePost(r)
      <3>1. CASE Finish(r)
        BY <3>1, FinishDone
      <3>2. CASE req' = [req EXCEPT ![r] = [Blank EXCEPT !.pc = "done", !.at = "update_post"]]
        BY <3>2 DEF Blank
      <3> QED BY <2>4, <3>1, <3>2 DEF UpdatePost
    <2> QED BY <1>3, <2>1, <2>2, <2>3, <2>4 DEF Update
  <1>4. ASSUME Remove(r)
        PROVE  req'[r].pc \in {"remove_read", "remove_write", "remove_post", "remove_delete", "done"}
    <2>1. CASE RemoveStart(r)
      BY <2>1 DEF RemoveStart, Blank
    <2>2. CASE RemoveRead(r)
      BY <2>2 DEF RemoveRead, Handlers
    <2>3. CASE RemoveWrite(r) \/ RemoveDelete(r)
      BY <2>3, FinishDone, GotoGoesOn DEF RemoveWrite, RemoveDelete
    <2>4. CASE RemovePost(r)
      BY <2>4, GotoGoesOn DEF RemovePost, Handlers
    <2> QED BY <1>4, <2>1, <2>2, <2>3, <2>4 DEF Remove
  <1>5. ASSUME Crash(r) PROVE req'[r].pc = "crashed"
    BY <1>5 DEF Crash, Handlers
  <1>6. ASSUME Approval(r) PROVE req'[r].pc \in {"refund_read", "reject_mark", "done"}
    <2>1. CASE ApproveStart(r)
      BY <2>1 DEF ApproveStart, Blank
    <2>2. CASE RejectStart(r)
      BY <2>2 DEF RejectStart, Blank
    <2>3. CASE ApproveMark(r) \/ RejectMark(r)
      BY <2>3, FinishDone DEF ApproveMark, RejectMark
    <2> QED BY <1>6, <2>1, <2>2, <2>3 DEF Approval
  <1>7. ASSUME Reverse(r) PROVE req'[r].pc \in {"reverse_write", "reverse_post", "done"}
    <2>1. CASE ReverseStart(r)
      BY <2>1 DEF ReverseStart, Blank
    <2>2. CASE ReverseWrite(r) \/ ReversePost(r)
      BY <2>2, FinishDone, GotoGoesOn DEF ReverseWrite, ReversePost
    <2> QED BY <1>7, <2>1, <2>2 DEF Reverse
  <1> QED BY <1>1, <1>2, <1>3, <1>4, <1>5, <1>6, <1>7

\* The statements of a refund, up to its claim and after it.
LEMMA RefundPlaces ==
  ASSUME TypeOK, NEW r \in Requests
  PROVE  /\ RefundStart(r) => req'[r].pc \in {"refund_read", "done"}
         /\ RefundRead(r) => req'[r].pc = "done" \/ (/\ req'[r].pc = "refund_claim"
                                                    /\ req'[r].inv = invoice)
         /\ RefundClaim(r) => req'[r].pc = "done" \/ Goto(r, "refund_invoice")
         /\ RefundInvoice(r) => req'[r].pc \in {"refund_wallet", "refund_post"}
         /\ RefundWallet(r) => req'[r].pc = "refund_credit"
         /\ RefundCredit(r) \/ RefundPost(r) => req'[r].pc \in {"refund_post", "approve_mark", "done"}
  <1> USE DEF TypeOK, TypeOKBooks
  <1>1. CASE Finish(r)
    <2>1. req'[r].pc = "done"
      BY <1>1, FinishDone
    <2>2. ~RefundWallet(r) /\ ~RefundInvoice(r)
      BY <1>1, <2>1, GotoGoesOn DEF RefundWallet, RefundInvoice, Handlers
    <2> QED BY <2>1, <2>2
  <1>2. CASE ~Finish(r)
    <2>1. ASSUME RefundStart(r) PROVE req'[r].pc = "refund_read"
      <3>1. PICK p \in Kept, slice \in Amounts \cup {0}, toBalance \in BOOLEAN :
              req' = [req EXCEPT ![r] = [Blank EXCEPT !.pc = "refund_read", !.op = "refund",
                        !.pay = p, !.amount = slice, !.toBalance = toBalance]]
        BY <1>2, <2>1 DEF RefundStart
      <3> QED BY <3>1 DEF Blank
    <2>2. ASSUME RefundRead(r) PROVE req'[r].pc = "refund_claim" /\ req'[r].inv = invoice
      <3>1. PICK amount, row : req' = [req EXCEPT ![r].pc = "refund_claim", ![r].amount = amount,
                                         ![r].row = row, ![r].inv = invoice]
        BY <1>2, <2>2 DEF RefundRead
      <3> QED BY <3>1 DEF Handlers
    <2>3. RefundClaim(r) => Goto(r, "refund_invoice")
      BY <1>2 DEF RefundClaim
    <2>4. RefundInvoice(r) => req'[r].pc \in {"refund_wallet", "refund_post"}
      BY GotoGoesOn DEF RefundInvoice
    <2>5. RefundWallet(r) => req'[r].pc = "refund_credit"
      BY DEF RefundWallet, Handlers
    <2>6. RefundCredit(r) \/ RefundPost(r) => req'[r].pc \in {"refund_post", "approve_mark", "done"}
      BY <1>2, GotoGoesOn DEF RefundCredit, RefundPost
    <2> QED BY <2>1, <2>2, <2>3, <2>4, <2>5, <2>6
  <1> QED BY <1>1, <1>2

\* Handlers that will insert a payment, or have inserted it and not told the invoice.
Minding == {"record_guard", "record_commit", "create_guard", "create_insert",
            "create_read", "create_write"}

Sound(r) ==
  /\ req[r].pc \in Minding => req[r].staff /\ req[r].amount > 0
  /\ req[r].pc = "create_write" => req[r].inv.paid >= 0

SoundInv == invoice.paid >= 0 /\ \A r \in Requests : Sound(r)

LEMMA SoundKept ==
  ASSUME SoundInv, NEW r \in Requests, OthersWait(r), Sound(r)', invoice'.paid >= 0
  PROVE  SoundInv'
  BY DEF SoundInv, Sound, OthersWait

\* A step to a statement that minds nothing, with the paid amount as it was.
LEMMA QuietSound ==
  ASSUME SoundInv, NEW r \in Requests, OthersWait(r), req'[r].pc \notin Minding,
         invoice'.paid >= 0
  PROVE  SoundInv'
  <1>1. Sound(r)'
    BY DEF Sound, Minding
  <1> QED BY <1>1, SoundKept

LEMMA FloorNat == ASSUME NEW n \in Int PROVE Floor0(n) >= 0 /\ Floor0(n) \in Int
  BY DEF Floor0

LEMMA SettledPaid ==
  ASSUME TypeOK, NEW n, NEW status, invoice' = Settle(invoice, n, status)
  PROVE  invoice'.paid = n /\ invoice'.status = status
  BY DEF TypeOK, TypeOKBooks, InvoiceRows, Settle

LEMMA OpenStatus ==
  ASSUME NEW n
  PROVE  StatusAfter(n) # "CANCELLED"
  BY DEF StatusAfter

LEMMA RecordSound ==
  ASSUME TypeOK, SoundInv, NEW r \in Requests, Record(r), OthersWait(r)
  PROVE  SoundInv'
  <1>t. req \in [Requests -> Handlers] /\ invoice \in InvoiceRows
    BY DEF TypeOK, TypeOKBooks
  <1>n. invoice.paid >= 0 /\ invoice.paid \in Int /\ req[r].amount \in Nat
    BY <1>t DEF SoundInv, InvoiceRows, Handlers
  <1>1. CASE RecordStart(r)
    <2>1. PICK amount \in Amounts : req'[r].pc = "record_guard" /\ req'[r].staff /\ req'[r].amount = amount
      BY <1>1, <1>t DEF RecordStart, Blank
    <2>2. Sound(r)' /\ UNCHANGED invoice
      BY <1>1, <2>1, BooksAssumption DEF RecordStart, Sound
    <2> QED BY <1>n, <2>2, SoundKept
  <1>2. CASE RecordGuard(r)
    <2>1. UNCHANGED invoice
      BY <1>2 DEF RecordGuard
    <2>2. CASE Finish(r)
      BY <1>n, <2>1, <2>2, FinishDone, QuietSound DEF Minding
    <2>3. CASE Goto(r, "record_commit")
      <3>1. req'[r].pc = "record_commit" /\ req'[r].staff = req[r].staff /\ req'[r].amount = req[r].amount
        BY <1>t, <2>3 DEF Goto, Handlers
      <3>2. Sound(r)'
        BY <1>2, <3>1 DEF SoundInv, Sound, Minding, RecordGuard, At
      <3> QED BY <1>n, <2>1, <3>2, SoundKept
    <2> QED BY <1>2, <2>2, <2>3 DEF RecordGuard
  <1>3. CASE RecordCommit(r)
    <2>1. req'[r].pc \notin Minding
      <3>1. CASE Finish(r)
        BY <3>1, FinishDone DEF Minding
      <3>2. CASE ~Finish(r)
        <4>1. PICK p \in PaymentIds : req' = [req EXCEPT ![r].pc = "record_post", ![r].pay = p]
          BY <1>3, <3>2 DEF RecordCommit
        <4> QED BY <1>t, <4>1 DEF Handlers, Minding
      <3> QED BY <3>1, <3>2
    <2>2. invoice'.paid >= 0
      <3>1. CASE UNCHANGED invoice
        BY <1>n, <3>1
      <3>2. CASE ~UNCHANGED invoice
        <4>1. PICK status : invoice' = Settle(invoice, invoice.paid + req[r].amount, status)
          BY <1>3, <3>2 DEF RecordCommit
        <4> QED BY <1>n, <4>1, SettledPaid
      <3> QED BY <3>1, <3>2
    <2> QED BY <2>1, <2>2, QuietSound
  <1>4. CASE RecordPost(r)
    <2>1. req'[r].pc \in {"done", "extend_read"} /\ UNCHANGED invoice
      BY <1>4, FinishDone, GotoGoesOn DEF RecordPost
    <2> QED BY <1>n, <2>1, QuietSound DEF Minding
  <1> QED BY <1>1, <1>2, <1>3, <1>4 DEF Record

LEMMA CreateSound ==
  ASSUME TypeOK, SoundInv, NEW r \in Requests, Create(r), OthersWait(r)
  PROVE  SoundInv'
  <1>t. req \in [Requests -> Handlers] /\ invoice \in InvoiceRows
    BY DEF TypeOK, TypeOKBooks
  <1>n. /\ invoice.paid >= 0 /\ invoice.paid \in Int
        /\ req[r].amount \in Nat /\ req[r].inv.paid \in Int
    BY <1>t DEF SoundInv, InvoiceRows, Handlers
  <1>1. CASE CreateStart(r)
    <2>1. PICK amount \in Amounts : req'[r].pc = "create_guard" /\ req'[r].staff /\ req'[r].amount = amount
      BY <1>1, <1>t DEF CreateStart, Blank
    <2>2. Sound(r)' /\ UNCHANGED invoice
      BY <1>1, <2>1, BooksAssumption DEF CreateStart, Sound
    <2> QED BY <1>n, <2>2, SoundKept
  <1>2. CASE CreateGuard(r)
    <2>1. UNCHANGED invoice
      BY <1>2 DEF CreateGuard
    <2>2. CASE Finish(r)
      BY <1>n, <2>1, <2>2, FinishDone, QuietSound DEF Minding
    <2>3. CASE Goto(r, "create_insert")
      <3>1. req'[r].pc = "create_insert" /\ req'[r].staff = req[r].staff /\ req'[r].amount = req[r].amount
        BY <1>t, <2>3 DEF Goto, Handlers
      <3>2. Sound(r)'
        BY <1>2, <3>1 DEF SoundInv, Sound, Minding, CreateGuard, At
      <3> QED BY <1>n, <2>1, <3>2, SoundKept
    <2> QED BY <1>2, <2>2, <2>3 DEF CreateGuard
  <1>3. CASE CreateInsert(r)
    <2>1. /\ req'[r].pc = "create_read" /\ req'[r].staff = req[r].staff
          /\ req'[r].amount = req[r].amount /\ UNCHANGED invoice
      BY <1>3, <1>t DEF CreateInsert, Handlers
    <2>2. Sound(r)'
      BY <1>3, <2>1 DEF SoundInv, Sound, Minding, CreateInsert, At
    <2> QED BY <1>n, <2>1, <2>2, SoundKept
  <1>4. CASE CreateRead(r)
    <2>1. /\ req'[r].pc = "create_write" /\ req'[r].staff = req[r].staff
          /\ req'[r].amount = req[r].amount /\ req'[r].inv = invoice /\ UNCHANGED invoice
      BY <1>4, <1>t DEF CreateRead, Handlers
    <2>2. Sound(r)'
      BY <1>4, <1>n, <2>1 DEF SoundInv, Sound, Minding, CreateRead, At
    <2> QED BY <1>n, <2>1, <2>2, SoundKept
  <1>5. CASE CreateWrite(r)
    <2>1. req[r].inv.paid >= 0 /\ req'[r].pc = "create_post"
      BY <1>5, GotoGoesOn DEF CreateWrite, At, SoundInv, Sound
    <2>2. PICK status : invoice' = Settle(invoice, req[r].inv.paid + req[r].amount, status)
      BY <1>5 DEF CreateWrite
    <2>3. invoice'.paid >= 0
      BY <1>n, <2>1, <2>2, SettledPaid
    <2> QED BY <2>1, <2>3, QuietSound DEF Minding
  <1>6. CASE CreatePost(r)
    <2>1. req'[r].pc = "done" /\ UNCHANGED invoice
      BY <1>6, FinishDone DEF CreatePost
    <2> QED BY <1>n, <2>1, QuietSound DEF Minding
  <1> QED BY <1>1, <1>2, <1>3, <1>4, <1>5, <1>6 DEF Create

\* Corrections, refunds and reversals never write a paid amount below zero.
LEMMA PaidStaysSound ==
  ASSUME TypeOK, SoundInv, NEW r \in Requests,
         \/ Update(r) \/ Remove(r) \/ Crash(r)
         \/ Refund(r) \/ Approval(r) \/ Reverse(r)
  PROVE  invoice'.paid >= 0
  <1>t. req[r] \in Handlers /\ invoice \in InvoiceRows
    BY DEF TypeOK, TypeOKBooks
  <1>1. CASE UNCHANGED invoice
    BY <1>1 DEF SoundInv
  <1>2. CASE UpdateWrite(r)
    <2>1. req[r].inv.paid + Delta(r) \in Int
      BY <1>t DEF Handlers, InvoiceRows, PaymentRows, Delta
    <2>2. PICK n, status : n = Floor0(req[r].inv.paid + Delta(r)) /\ invoice' = Settle(invoice, n, status)
      BY <1>2 DEF UpdateWrite
    <2> QED BY <2>1, <2>2, FloorNat, SettledPaid
  <1>3. CASE RemoveWrite(r)
    <2>1. req[r].inv.paid - req[r].row.amount \in Int
      BY <1>t DEF Handlers, InvoiceRows, PaymentRows
    <2>2. PICK n, status : /\ n = Floor0(req[r].inv.paid - req[r].row.amount)
                           /\ invoice' = Settle(invoice, n, status)
      BY <1>3 DEF RemoveWrite
    <2> QED BY <2>1, <2>2, FloorNat, SettledPaid
  <1>4. CASE RefundInvoice(r)
    <2>1. req[r].inv.paid - req[r].amount \in Int
      BY <1>t DEF Handlers, InvoiceRows
    <2>2. PICK n : /\ n = Floor0(req[r].inv.paid - req[r].amount)
                   /\ invoice' = [invoice EXCEPT !.paid = n, !.due = Total - n, !.status = StatusAfter(n)]
      BY <1>4 DEF RefundInvoice
    <2>3. invoice'.paid = n
      BY <1>t, <2>2 DEF InvoiceRows
    <2> QED BY <2>1, <2>2, <2>3, FloorNat
  <1>5. CASE ReverseWrite(r)
    <2>1. invoice'.paid = invoice.paid
      BY <1>t, <1>5 DEF ReverseWrite, InvoiceRows
    <2> QED BY <2>1 DEF SoundInv
  <1>6. UNCHANGED invoice \/ UpdateWrite(r) \/ RemoveWrite(r) \/ RefundInvoice(r) \/ ReverseWrite(r)
    BY DEF Update, UpdateStart, UpdateRow, UpdateRead, UpdatePost,
           Remove, RemoveStart, RemoveRead, RemovePost, RemoveDelete, Crash,
           Refund, RefundStart, RefundRead, RefundClaim, RefundWallet, RefundCredit, RefundPost,
           Approval, ApproveStart, ApproveMark, RejectStart, RejectMark,
           Reverse, ReverseStart, ReversePost
  <1> QED BY <1>1, <1>2, <1>3, <1>4, <1>5, <1>6

LEMMA SoundStep == TypeOK /\ SoundInv /\ [Next]_vars => SoundInv'
  <1> SUFFICES ASSUME TypeOK, SoundInv, [Next]_vars PROVE SoundInv'
    OBVIOUS
  <1>1. ASSUME NEW r \in Requests, Entry(r) \/ MoneyBack(r) PROVE SoundInv'
    <2>1. OthersWait(r)
      BY <1>1, StepsWait
    <2>2. CASE Record(r) \/ Create(r)
      BY <2>1, <2>2, RecordSound, CreateSound
    <2>3. CASE Update(r) \/ Remove(r) \/ Crash(r) \/ Refund(r) \/ Approval(r) \/ Reverse(r)
      <3>1. req'[r].pc \notin Minding
        <4>1. CASE Update(r) \/ Remove(r) \/ Crash(r) \/ Approval(r) \/ Reverse(r)
          BY <4>1, Places DEF Minding
        <4>2. CASE Refund(r)
          BY <4>2, RefundPlaces, GotoGoesOn DEF Refund, Minding
        <4> QED BY <2>3, <4>1, <4>2
      <3> QED BY <2>1, <2>3, <3>1, PaidStaysSound, QuietSound
    <2> QED BY <1>1, <2>2, <2>3 DEF Entry, MoneyBack
  <1>2. ASSUME NEW p \in PaymentIds, WindowPasses(p) PROVE SoundInv'
    BY <1>2 DEF WindowPasses, SoundInv, Sound
  <1>3. CASE UNCHANGED vars
    BY <1>3 DEF vars, SoundInv, Sound
  <1> QED BY <1>1, <1>2, <1>3 DEF Next

LEMMA SoundInit == Init => SoundInv
  BY DEF Init, InitBooks, SoundInv, Sound, Minding, NewInvoice, Blank

\* No payment is added and none that was refunded in full is opened again.
ClosedStays ==
  \A p \in PaymentIds : payments'[p].st = "kept" =>
    payments[p].st = "kept" /\ (payments[p].closed => payments'[p].closed)

LEMMA SameClosed == UNCHANGED payments => ClosedStays
  <1> SUFFICES ASSUME payments' = payments PROVE ClosedStays
    OBVIOUS
  <1> QED BY DEF ClosedStays

\* What all but two statements do: they leave the invoice in another status than CANCELLED, or
\* as it is and bring no open payment.
LeavesNone == invoice'.status # "CANCELLED" \/ (UNCHANGED invoice /\ ClosedStays)

LEMMA EmptyKept ==
  ASSUME CancelledHoldsNoMoney, LeavesNone
  PROVE  CancelledHoldsNoMoney'
  BY DEF CancelledHoldsNoMoney, LeavesNone, ClosedStays, Kept

LEMMA RecordLeavesNone ==
  ASSUME TypeOK, SoundInv, NEW r \in Requests, Record(r)
  PROVE  LeavesNone
  <1>1. CASE UNCHANGED <<invoice, payments>>
    BY <1>1, SameClosed DEF LeavesNone
  <1>2. CASE ~UNCHANGED <<invoice, payments>>
    <2>1. RecordCommit(r)
      BY <1>2 DEF Record, RecordStart, RecordGuard, RecordPost
    <2>2. PICK n : invoice' = Settle(invoice, n, IF n >= Total THEN "PAID" ELSE "PARTIAL")
      BY <1>2, <2>1 DEF RecordCommit
    <2>3. invoice'.status # "CANCELLED"
      BY <2>2, SettledPaid
    <2> QED BY <2>3 DEF LeavesNone
  <1> QED BY <1>1, <1>2

LEMMA CreateLeavesNone ==
  ASSUME TypeOK, SoundInv, NEW r \in Requests, Create(r), ~CreateInsert(r)
  PROVE  LeavesNone
  <1>1. CASE UNCHANGED <<invoice, payments>>
    BY <1>1, SameClosed DEF LeavesNone
  <1>2. CASE CreateWrite(r)
    <2>1. req[r].inv.paid \in Int /\ req[r].amount \in Nat /\ req[r].inv.paid >= 0 /\ req[r].amount > 0
      BY <1>2 DEF CreateWrite, At, SoundInv, Sound, Minding, TypeOK, TypeOKBooks, Handlers, InvoiceRows
    <2>2. PICK n : /\ n = req[r].inv.paid + req[r].amount
                   /\ invoice' = Settle(invoice, n, IF n > 0 THEN StatusAfter(n) ELSE req[r].inv.status)
      BY <1>2 DEF CreateWrite
    <2>3. n > 0
      BY <2>1, <2>2
    <2>4. invoice'.status = StatusAfter(n)
      BY <2>2, <2>3, SettledPaid
    <2> QED BY <2>4, OpenStatus DEF LeavesNone
  <1> QED BY <1>1, <1>2 DEF Create, CreateStart, CreateGuard, CreateRead, CreatePost

LEMMA CorrectionLeavesNone ==
  ASSUME TypeOK, NEW r \in Requests, Update(r) \/ Remove(r)
  PROVE  LeavesNone
  <1>1. CASE UNCHANGED <<invoice, payments>>
    BY <1>1, SameClosed DEF LeavesNone
  <1>2. CASE UpdateRow(r) /\ ~UNCHANGED payments
    <2>1. payments' = [payments EXCEPT ![req[r].pay].amount = req[r].amount] /\ UNCHANGED invoice
      BY <1>2 DEF UpdateRow
    <2>2. \A q \in PaymentIds : /\ payments'[q].st = payments[q].st
                                /\ payments'[q].closed = payments[q].closed
      BY <2>1 DEF TypeOK, TypeOKBooks, PaymentRows
    <2> QED BY <2>1, <2>2 DEF LeavesNone, ClosedStays
  <1>3. CASE RemoveDelete(r) /\ ~UNCHANGED payments
    <2>1. /\ payments' = [payments EXCEPT ![req[r].pay] = [NoRow EXCEPT !.st = "deleted"]]
          /\ UNCHANGED invoice
      BY <1>3 DEF RemoveDelete
    <2> QED BY <2>1 DEF LeavesNone, ClosedStays, NoRow, TypeOK, TypeOKBooks
  <1>4. CASE UpdateWrite(r) \/ RemoveWrite(r)
    <2>1. PICK n : invoice' = Settle(invoice, n, StatusAfter(n))
      BY <1>4 DEF UpdateWrite, RemoveWrite
    <2>2. invoice'.status = StatusAfter(n)
      BY <2>1, SettledPaid
    <2> QED BY <2>2, OpenStatus DEF LeavesNone
  <1>5. \/ UNCHANGED <<invoice, payments>> \/ UpdateWrite(r) \/ RemoveWrite(r)
        \/ UpdateRow(r) /\ ~UNCHANGED payments
        \/ RemoveDelete(r) /\ ~UNCHANGED payments
    BY DEF Update, UpdateStart, UpdateRow, UpdateRead, UpdatePost,
           Remove, RemoveStart, RemoveRead, RemovePost, RemoveDelete
  <1> QED BY <1>1, <1>2, <1>3, <1>4, <1>5

\* A claim is on a payment that is open, and closes it or not.
LEMMA ClaimMarks ==
  ASSUME TypeOK, NEW r \in Requests, RefundClaim(r)
  PROVE  /\ UNCHANGED invoice /\ ClosedStays
         /\ \A q \in PaymentIds : /\ payments'[q].st = payments[q].st
                                  /\ payments'[q].amount = payments[q].amount
  <1>1. CASE UNCHANGED payments
    BY <1>1, SameClosed DEF RefundClaim
  <1>2. CASE ~UNCHANGED payments
    <2>1. PICK p \in Kept : \E total, closed :
            /\ ~payments[p].closed
            /\ payments' = [payments EXCEPT ![p].refunded = total, ![p].closed = closed]
      BY <1>2 DEF RefundClaim
    <2>2. \A q \in PaymentIds : /\ payments'[q].st = payments[q].st
                                /\ payments'[q].amount = payments[q].amount
                                /\ q # p => payments'[q].closed = payments[q].closed
      BY <2>1 DEF TypeOK, TypeOKBooks, PaymentRows
    <2>3. UNCHANGED invoice
      BY DEF RefundClaim
    <2> QED BY <2>1, <2>2, <2>3 DEF ClosedStays
  <1> QED BY <1>1, <1>2

LEMMA MoneyBackLeavesNone ==
  ASSUME TypeOK, NEW r \in Requests, MoneyBack(r), ~ReverseWrite(r)
  PROVE  LeavesNone
  <1>1. CASE UNCHANGED <<invoice, payments>>
    BY <1>1, SameClosed DEF LeavesNone
  <1>2. CASE RefundClaim(r)
    BY <1>2, ClaimMarks DEF LeavesNone
  <1>3. CASE RefundInvoice(r)
    <2>1. PICK n : invoice' = [invoice EXCEPT !.paid = n, !.due = Total - n, !.status = StatusAfter(n)]
      BY <1>3 DEF RefundInvoice
    <2>2. invoice'.status = StatusAfter(n)
      BY <2>1 DEF TypeOK, TypeOKBooks, InvoiceRows
    <2> QED BY <2>2, OpenStatus DEF LeavesNone
  <1>4. UNCHANGED <<invoice, payments>> \/ RefundClaim(r) \/ RefundInvoice(r)
    BY DEF MoneyBack, Refund, RefundStart, RefundRead, RefundWallet, RefundCredit, RefundPost,
           Approval, ApproveStart, ApproveMark, RejectStart, RejectMark,
           Reverse, ReverseStart, ReversePost
  <1> QED BY <1>1, <1>2, <1>3, <1>4

LEMMA CancelledStep ==
  ASSUME TypeOK, SoundInv, [Next]_vars, CancelledHoldsNoMoney
  PROVE  CancelledHoldsNoMoney' \/ \E r \in Requests : ReverseWrite(r) \/ CreateInsert(r)
  <1>1. ASSUME NEW r \in Requests, Entry(r) \/ MoneyBack(r), ~ReverseWrite(r), ~CreateInsert(r)
        PROVE  CancelledHoldsNoMoney'
    <2>1. CASE Crash(r)
      BY <2>1 DEF Crash, CancelledHoldsNoMoney, Kept
    <2>2. CASE ~Crash(r)
      BY <1>1, <2>2, RecordLeavesNone, CreateLeavesNone, CorrectionLeavesNone, MoneyBackLeavesNone,
         EmptyKept DEF Entry
    <2> QED BY <2>1, <2>2
  <1>2. ASSUME NEW p \in PaymentIds, WindowPasses(p) PROVE CancelledHoldsNoMoney'
    <2>1. UNCHANGED invoice
      BY <1>2 DEF WindowPasses
    <2>2. \A q \in PaymentIds : /\ payments'[q].st = payments[q].st
                                /\ payments'[q].closed = payments[q].closed
      BY <1>2 DEF WindowPasses, TypeOK, TypeOKBooks, PaymentRows
    <2> QED BY <2>1, <2>2 DEF CancelledHoldsNoMoney, Kept
  <1>3. ASSUME UNCHANGED vars PROVE CancelledHoldsNoMoney'
    BY <1>3 DEF vars, CancelledHoldsNoMoney, Kept
  <1> QED BY <1>1, <1>2, <1>3 DEF Next

\* Only an invoice that was read before is written back in another status.
LEMMA ReopenedStep ==
  ASSUME TypeOK, SoundInv, [Next]_vars, invoice.status = "CANCELLED"
  PROVE  \/ invoice'.status = "CANCELLED"
         \/ \E r \in Requests : CreateWrite(r) \/ UpdateWrite(r) \/ RemoveWrite(r) \/ RefundInvoice(r)
  <1>1. ASSUME NEW r \in Requests, Entry(r) \/ MoneyBack(r), ~UNCHANGED invoice
        PROVE  \/ invoice'.status = "CANCELLED"
               \/ CreateWrite(r) \/ UpdateWrite(r) \/ RemoveWrite(r) \/ RefundInvoice(r)
    <2>1. ~RecordCommit(r)
      <3>1. SUFFICES ASSUME RecordCommit(r) PROVE FALSE
        OBVIOUS
      <3>2. req[r].staff
        BY <3>1 DEF RecordCommit, At, SoundInv, Sound, Minding
      <3>3. ~MayTake(invoice, req[r].amount)
        BY DEF MayTake
      <3> QED BY <1>1, <3>1, <3>2, <3>3 DEF RecordCommit
    <2>2. CASE Record(r)
      BY <1>1, <2>1, <2>2 DEF Record, RecordStart, RecordGuard, RecordPost
    <2>3. CASE Create(r)
      BY <1>1, <2>3 DEF Create, CreateStart, CreateGuard, CreateInsert, CreateRead, CreatePost
    <2>4. CASE Update(r) \/ Remove(r) \/ Crash(r)
      BY <1>1, <2>4 DEF Update, UpdateStart, UpdateRow, UpdateRead, UpdatePost,
         Remove, RemoveStart, RemoveRead, RemovePost, RemoveDelete, Crash
    <2>5. CASE Refund(r) \/ Approval(r)
      BY <1>1, <2>5 DEF Refund, RefundStart, RefundRead, RefundClaim, RefundWallet, RefundCredit,
         RefundPost, Approval, ApproveStart, ApproveMark, RejectStart, RejectMark
    <2>6. CASE Reverse(r)
      <3>1. ReverseWrite(r)
        BY <1>1, <2>6 DEF Reverse, ReverseStart, ReversePost
      <3>2. invoice'.status = "CANCELLED"
        BY <3>1 DEF ReverseWrite, TypeOK, TypeOKBooks, InvoiceRows
      <3> QED BY <3>2
    <2> QED BY <1>1, <2>2, <2>3, <2>4, <2>5, <2>6 DEF Entry, MoneyBack
  <1>2. ASSUME NEW p \in PaymentIds, WindowPasses(p) PROVE UNCHANGED invoice
    BY <1>2 DEF WindowPasses
  <1> QED BY <1>1, <1>2 DEF Next, vars

\* Whatever overlaps and dies, money is on a cancelled invoice only by a reversal that cancels
\* after its check went stale, or by a payments screen that inserts after its own did; and only
\* figures worked out from an older reading open it again.
THEOREM OnlyStaleChecksSpoilCancelled == Spec => CancelledByStaleChecks
  <1>1. TypeOK /\ SoundInv /\ [Next]_vars =>
          [/\ CancelledHoldsNoMoney =>
                CancelledHoldsNoMoney' \/ \E r \in Requests : ReverseWrite(r) \/ CreateInsert(r)
           /\ invoice.status = "CANCELLED" =>
                \/ invoice'.status = "CANCELLED"
                \/ \E r \in Requests : CreateWrite(r) \/ UpdateWrite(r) \/ RemoveWrite(r) \/ RefundInvoice(r)]_vars
    BY CancelledStep, ReopenedStep
  <1>2. TypeOK /\ SoundInv /\ [Next]_vars => SoundInv'
    BY SoundStep
  <1> QED BY <1>1, <1>2, SoundInit, TypeCorrect, PTL DEF Spec, CancelledByStaleChecks

-----------------------------------------------------------------------------
(* What Invoice.paidAmount shows was received.  A handler that writes the  *)
(* figures it worked out from an earlier reading erases what others wrote  *)
(* in between.  As long as nobody edits or deletes a payment this can only *)
(* lose money: paidAmount, and every reading of it that a handler still    *)
(* holds, stays below the receipts that handlers have told the invoice of. *)

\* Statements at which the handler holds a reading of the invoice that it will use.
ReadingSteps == {"create_write", "refund_claim", "refund_invoice"}

\* Money that r has inserted and not told the invoice.
Coming == [r \in Requests |-> IF req[r].pc \in {"create_read", "create_write"} THEN req[r].amount ELSE 0]

TotalComing == SumFunctionOnSet(Coming, Requests)

Entered == Received - TotalComing

ReceivedInv ==
  /\ \A r \in Requests : req[r].pc \notin Correcting
  /\ invoice.paid <= Entered
  /\ invoice.status = "PAID" => Total <= invoice.paid
  /\ \A r \in Requests : req[r].pc \in ReadingSteps => req[r].inv.paid <= Entered

AmountOf == [p \in PaymentIds |-> IF p \in Kept THEN payments[p].amount ELSE 0]

LEMMA ReceivedTyped == TypeOK => Received \in Int
  <1> SUFFICES ASSUME TypeOK PROVE Received \in Int
    OBVIOUS
  <1>1. PICK f : f = AmountOf
    OBVIOUS
  <1>2. \A p \in PaymentIds : f[p] \in Int
    BY <1>1 DEF AmountOf, TypeOK, TypeOKBooks, PaymentRows
  <1> QED BY <1>1, <1>2, SumType, BooksAssumption DEF Received, AmountOf

LEMMA ComingTyped ==
  /\ TypeOK => \A r \in Requests : Coming[r] \in Nat
  /\ TypeOK' => \A r \in Requests : Coming'[r] \in Nat
  BY DEF TypeOK, TypeOKBooks, Handlers, Coming

LEMMA TotalComingTyped == TypeOK => TotalComing \in Nat
  <1> SUFFICES ASSUME TypeOK PROVE TotalComing \in Nat
    OBVIOUS
  <1>1. PICK f : f = Coming
    OBVIOUS
  <1>2. \A r \in Requests : f[r] \in Nat
    BY <1>1, ComingTyped
  <1> QED BY <1>1, <1>2, SumNat, BooksAssumption DEF TotalComing

LEMMA EnteredTyped == TypeOK => Entered \in Int /\ Entered <= Received /\ Received \in Int
  BY ReceivedTyped, TotalComingTyped DEF Entered

LEMMA ComingChange ==
  ASSUME TypeOK, TypeOK', NEW r \in Requests, OthersWait(r)
  PROVE  TotalComing' = TotalComing - Coming[r] + Coming'[r]
  <1>1. PICK f, h, S : f = Coming /\ h = Coming' /\ S = Requests
    OBVIOUS
  <1>2. \A s \in S : f[s] \in Int /\ h[s] \in Int
    BY <1>1, ComingTyped
  <1>3. \A s \in S \ {r} : h[s] = f[s]
    BY <1>1 DEF OthersWait, Coming
  <1>4. SumFunctionOnSet(h, S) = SumFunctionOnSet(f, S) - f[r] + h[r]
    BY <1>1, <1>2, <1>3, SumChange, BooksAssumption
  <1> QED BY <1>1, <1>4 DEF TotalComing

LEMMA ReceivedStays ==
  ASSUME \A q \in PaymentIds : /\ payments'[q].st = payments[q].st
                               /\ payments'[q].amount = payments[q].amount
  PROVE  Received' = Received
  BY DEF Received, Kept

LEMMA ReceivedChange ==
  ASSUME TypeOK, TypeOK', NEW p \in PaymentIds,
         \A q \in PaymentIds \ {p} : AmountOf'[q] = AmountOf[q]
  PROVE  Received' = Received - AmountOf[p] + AmountOf'[p]
  <1>1. PICK f, h, S : f = AmountOf /\ h = AmountOf' /\ S = PaymentIds
    OBVIOUS
  <1>2. \A q \in S : f[q] \in Int /\ h[q] \in Int
    BY <1>1 DEF AmountOf, TypeOK, TypeOKBooks, PaymentRows
  <1>3. \A q \in S \ {p} : h[q] = f[q]
    BY <1>1
  <1>4. SumFunctionOnSet(h, S) = SumFunctionOnSet(f, S) - f[p] + h[p]
    BY <1>1, <1>2, <1>3, SumChange, BooksAssumption
  <1> QED BY <1>1, <1>4 DEF Received, AmountOf

LEMMA ReceivedGrows ==
  ASSUME TypeOK, TypeOK', NEW r \in Requests, NEW p \in PaymentIds, payments[p].st = "none",
         payments' = [payments EXCEPT ![p] = NewPayment(r)]
  PROVE  Received' = Received + req[r].amount
  <1>1. \A q \in PaymentIds \ {p} : payments'[q] = payments[q]
    BY DEF TypeOK, TypeOKBooks
  <1>2. \A q \in PaymentIds \ {p} : AmountOf'[q] = AmountOf[q]
    BY <1>1 DEF AmountOf, Kept
  <1>3. payments'[p] = NewPayment(r)
    BY DEF TypeOK, TypeOKBooks
  <1>4. p \notin Kept /\ p \in Kept' /\ payments'[p].amount = req[r].amount
    BY <1>3 DEF Kept, NewPayment
  <1>5. AmountOf[p] = 0 /\ AmountOf'[p] = req[r].amount
    BY <1>4 DEF AmountOf
  <1>6. Received \in Int /\ req[r].amount \in Int
    BY ReceivedTyped DEF TypeOK, TypeOKBooks, Handlers
  <1> QED BY <1>2, <1>5, <1>6, ReceivedChange

\* What remains to be shown of each step: n is the money that it brings.
LEMMA ReceivedKept ==
  ASSUME TypeOK, TypeOK', ReceivedInv, NEW r \in Requests, OthersWait(r),
         req'[r].pc \notin Correcting,
         NEW n \in Int, Received' = Received + n, n + Coming[r] >= Coming'[r],
         \/ invoice'.paid <= invoice.paid
         \/ invoice'.paid <= Entered + n + Coming[r] - Coming'[r],
         invoice'.status = "PAID" => Total <= invoice'.paid,
         req'[r].pc \in ReadingSteps =>
           \/ req'[r].inv.paid <= invoice.paid
           \/ req[r].pc \in ReadingSteps /\ req'[r].inv = req[r].inv
  PROVE  ReceivedInv'
  <1>1. Coming[r] \in Nat /\ Coming'[r] \in Nat
    BY ComingTyped
  <1>2. TotalComing' = TotalComing - Coming[r] + Coming'[r] /\ TotalComing \in Int /\ Received \in Int
    BY ComingChange, TotalComingTyped, ReceivedTyped
  <1>3. Entered' = Entered + n + Coming[r] - Coming'[r] /\ Entered \in Int
    BY <1>1, <1>2 DEF Entered
  <1>4. Entered <= Entered' /\ Entered' \in Int
    BY <1>1, <1>3
  <1>5. invoice.paid \in Int /\ invoice'.paid \in Int
    BY DEF TypeOK, TypeOKBooks, InvoiceRows
  <1>6. invoice'.paid <= Entered'
    BY <1>3, <1>4, <1>5 DEF ReceivedInv
  <1>7. ASSUME NEW s \in Requests, req'[s].pc \in ReadingSteps
        PROVE  req'[s].inv.paid <= Entered'
    <2>1. req'[s].inv.paid \in Int
      BY DEF TypeOK, TypeOKBooks, Handlers, InvoiceRows
    <2>2. req'[s].inv.paid <= Entered
      <3>1. CASE req'[s].inv.paid <= invoice.paid
        BY <1>3, <1>5, <2>1, <3>1 DEF ReceivedInv
      <3>2. CASE req[s].pc \in ReadingSteps /\ req'[s].inv = req[s].inv
        BY <3>2 DEF ReceivedInv
      <3> QED BY <1>7, <3>1, <3>2 DEF OthersWait
    <2> QED BY <1>3, <1>4, <2>1, <2>2
  <1>8. \A s \in Requests : req'[s].pc \notin Correcting
    BY DEF ReceivedInv, OthersWait
  <1> QED BY <1>6, <1>7, <1>8 DEF ReceivedInv

\* A step that leaves the invoice and the payments alone, or marks a row, and holds no reading.
LEMMA QuietReceived ==
  ASSUME TypeOK, TypeOK', ReceivedInv, NEW r \in Requests, OthersWait(r),
         req'[r].pc \notin Correcting \cup ReadingSteps \cup {"create_read"},
         invoice'.paid = invoice.paid, invoice'.status \in {invoice.status, "CANCELLED"},
         Received' = Received
  PROVE  ReceivedInv'
  <1>1. Coming'[r] = 0 /\ Coming[r] \in Nat
    BY ComingTyped DEF Coming, ReadingSteps
  <1>2. Received' = Received + 0 /\ Received \in Int
    BY ReceivedTyped
  <1>3. invoice.paid \in Int
    BY DEF TypeOK, TypeOKBooks, InvoiceRows
  <1>4. invoice'.status = "PAID" => Total <= invoice'.paid
    BY DEF ReceivedInv
  <1> QED BY <1>1, <1>2, <1>3, <1>4, ReceivedKept

LEMMA SamePayments == UNCHANGED payments => Received' = Received
  BY DEF Received, Kept

LEMMA PaidStatus ==
  ASSUME NEW n \in Int
  PROVE  StatusAfter(n) = "PAID" => Total <= n
  BY BooksAssumption DEF StatusAfter

LEMMA GotoSame ==
  ASSUME TypeOK, NEW r \in Requests, NEW step, Goto(r, step)
  PROVE  /\ req'[r].pc = step /\ req'[r].at = req[r].at /\ req'[r].op = req[r].op
         /\ req'[r].pay = req[r].pay /\ req'[r].amount = req[r].amount
         /\ req'[r].row = req[r].row /\ req'[r].inv = req[r].inv
  BY DEF TypeOK, TypeOKBooks, Goto, Handlers

LEMMA RecordReceived ==
  ASSUME TypeOK, TypeOK', ReceivedInv, NEW r \in Requests, OthersWait(r), Record(r)
  PROVE  ReceivedInv'
  <1>1. req'[r].pc \notin Correcting \cup ReadingSteps \cup {"create_read"}
    BY Places DEF Correcting, ReadingSteps
  <1>2. CASE UNCHANGED <<invoice, payments>>
    BY <1>1, <1>2, SamePayments, QuietReceived
  <1>3. CASE ~UNCHANGED <<invoice, payments>>
    <2>1. RecordCommit(r)
      BY <1>3 DEF Record, RecordStart, RecordGuard, RecordPost
    <2>0. PICK n : n = invoice.paid + req[r].amount
      OBVIOUS
    <2>2. PICK p \in PaymentIds :
            /\ payments[p].st = "none"
            /\ payments' = [payments EXCEPT ![p] = NewPayment(r)]
            /\ invoice' = Settle(invoice, n, IF n >= Total THEN "PAID" ELSE "PARTIAL")
      BY <1>3, <2>0, <2>1 DEF RecordCommit
    <2>3. Received' = Received + req[r].amount
      BY <2>2, ReceivedGrows
    <2>4. Coming[r] = 0 /\ Coming'[r] = 0
      BY <1>1, <2>1 DEF Coming, ReadingSteps, RecordCommit, At
    <2>5. /\ req[r].amount \in Nat /\ invoice.paid \in Int /\ Entered \in Int
          /\ invoice.paid <= Entered
      BY EnteredTyped DEF TypeOK, TypeOKBooks, Handlers, InvoiceRows, ReceivedInv
    <2>6. invoice'.paid = n /\ (invoice'.status = "PAID" => Total <= n)
      <3>1. PICK status : /\ status = IF n >= Total THEN "PAID" ELSE "PARTIAL"
                          /\ invoice' = Settle(invoice, n, status)
        BY <2>2
      <3>2. n \in Int
        BY <2>0, <2>5
      <3> QED BY <3>1, <3>2, SettledPaid, BooksAssumption
    <2>7. invoice'.paid <= Entered + req[r].amount + Coming[r] - Coming'[r]
      BY <2>0, <2>4, <2>5, <2>6
    <2> QED BY <1>1, <2>3, <2>4, <2>5, <2>6, <2>7, ReceivedKept
  <1> QED BY <1>2, <1>3

LEMMA CreateReceived ==
  ASSUME TypeOK, TypeOK', SoundInv, ReceivedInv, NEW r \in Requests, OthersWait(r), Create(r)
  PROVE  ReceivedInv'
  <1>t. /\ req \in [Requests -> Handlers] /\ req[r].amount \in Nat /\ req[r].inv.paid \in Int
        /\ invoice.paid \in Int
    BY DEF TypeOK, TypeOKBooks, Handlers, InvoiceRows
  <1>r. Received \in Int /\ Entered \in Int
    BY EnteredTyped
  <1>0. req'[r].pc \notin Correcting
    BY Places DEF Correcting
  <1>p. invoice.status = "PAID" => Total <= invoice.paid
    BY DEF ReceivedInv
  <1>1. CASE CreateStart(r) \/ CreateGuard(r) \/ CreatePost(r)
    <2>1. UNCHANGED <<invoice, payments>>
      BY <1>1 DEF CreateStart, CreateGuard, CreatePost
    <2>2. req'[r].pc \in {"create_guard", "create_insert", "done"}
      <3>1. CASE CreateStart(r)
        BY <1>t, <3>1 DEF CreateStart, Blank
      <3>2. CASE CreateGuard(r) \/ CreatePost(r)
        BY <3>2, FinishDone, GotoGoesOn DEF CreateGuard, CreatePost
      <3> QED BY <1>1, <3>1, <3>2
    <2> QED BY <1>0, <2>1, <2>2, SamePayments, QuietReceived DEF ReadingSteps
  <1>2. CASE CreateInsert(r)
    <2>1. PICK p \in PaymentIds : /\ payments[p].st = "none"
                                  /\ payments' = [payments EXCEPT ![p] = NewPayment(r)]
                                  /\ req' = [req EXCEPT ![r].pc = "create_read", ![r].pay = p]
      BY <1>2 DEF CreateInsert
    <2>2. Received' = Received + req[r].amount
      BY <2>1, ReceivedGrows
    <2>3. req'[r].pc = "create_read" /\ req'[r].amount = req[r].amount
      BY <1>t, <2>1 DEF Handlers
    <2>4. Coming[r] = 0 /\ Coming'[r] = req[r].amount
      BY <1>2, <2>3 DEF Coming, CreateInsert, At
    <2>5. UNCHANGED invoice
      BY <1>2 DEF CreateInsert
    <2> QED BY <1>0, <1>p, <1>t, <2>2, <2>3, <2>4, <2>5, ReceivedKept DEF ReadingSteps
  <1>3. CASE CreateRead(r)
    <2>1. /\ req'[r].pc = "create_write" /\ req'[r].amount = req[r].amount
          /\ req'[r].inv = invoice /\ UNCHANGED <<invoice, payments>>
      BY <1>3, <1>t DEF CreateRead, Handlers
    <2>2. Coming[r] = req[r].amount /\ Coming'[r] = req[r].amount
      BY <1>3, <2>1 DEF Coming, CreateRead, At
    <2>3. Received' = Received + 0
      BY <1>r, <2>1, SamePayments
    <2> QED BY <1>0, <1>p, <1>t, <2>1, <2>2, <2>3, ReceivedKept
  <1>4. CASE CreateWrite(r)
    <2>1. /\ req[r].pc = "create_write" /\ req[r].inv.paid >= 0 /\ req[r].amount > 0
          /\ req[r].inv.paid <= Entered
      BY <1>4 DEF CreateWrite, At, SoundInv, Sound, Minding, ReceivedInv, ReadingSteps
    <2>2. PICK n : /\ n = req[r].inv.paid + req[r].amount
                   /\ invoice' = Settle(invoice, n, IF n > 0 THEN StatusAfter(n) ELSE req[r].inv.status)
      BY <1>4 DEF CreateWrite
    <2>3. n > 0 /\ n \in Int /\ n <= Entered + req[r].amount
      BY <1>t, <1>r, <2>1, <2>2
    <2>4. invoice'.paid = n /\ invoice'.status = StatusAfter(n)
      BY <2>2, <2>3, SettledPaid
    <2>5. req'[r].pc = "create_post" /\ UNCHANGED payments
      BY <1>4, GotoGoesOn DEF CreateWrite
    <2>6. Coming[r] = req[r].amount /\ Coming'[r] = 0
      BY <2>1, <2>5 DEF Coming
    <2>7. Received' = Received + 0
      BY <1>r, <2>5, SamePayments
    <2>8. invoice'.paid <= Entered + 0 + Coming[r] - Coming'[r]
      BY <1>t, <1>r, <2>3, <2>4, <2>6
    <2>9. invoice'.status = "PAID" => Total <= invoice'.paid
      BY <2>3, <2>4, PaidStatus
    <2> QED BY <1>0, <1>t, <2>5, <2>6, <2>7, <2>8, <2>9, ReceivedKept DEF ReadingSteps
  <1> QED BY <1>1, <1>2, <1>3, <1>4 DEF Create

LEMMA RefundReceived ==
  ASSUME TypeOK, TypeOK', SoundInv, ReceivedInv, NEW r \in Requests, OthersWait(r), Refund(r)
  PROVE  ReceivedInv'
  <1>t. /\ req[r].amount \in Nat /\ req[r].inv.paid \in Int /\ invoice.paid \in Int
        /\ invoice \in InvoiceRows
    BY DEF TypeOK, TypeOKBooks, Handlers, InvoiceRows
  <1>r. Received \in Int /\ Entered \in Int
    BY EnteredTyped
  <1>p. /\ invoice.status = "PAID" => Total <= invoice.paid
        /\ invoice.paid <= Entered /\ invoice.paid >= 0
    BY DEF ReceivedInv, SoundInv
  <1>1. CASE RefundStart(r) \/ RefundWallet(r) \/ RefundCredit(r) \/ RefundPost(r)
    <2>1. UNCHANGED <<invoice, payments>>
      BY <1>1 DEF RefundStart, RefundWallet, RefundCredit, RefundPost
    <2>2. req'[r].pc \in {"refund_read", "refund_credit", "refund_post", "approve_mark", "done"}
      BY <1>1, RefundPlaces
    <2> QED BY <2>1, <2>2, SamePayments, QuietReceived DEF ReadingSteps, Correcting
  <1>2. CASE RefundRead(r)
    <2>1. UNCHANGED <<invoice, payments>> /\ Coming[r] = 0
      BY <1>2 DEF RefundRead, Coming, At
    <2>2. CASE req'[r].pc = "done"
      BY <2>1, <2>2, SamePayments, QuietReceived DEF ReadingSteps, Correcting
    <2>3. CASE req'[r].pc = "refund_claim" /\ req'[r].inv = invoice
      <3>1. Coming'[r] = 0 /\ req'[r].pc \notin Correcting
        BY <2>3 DEF Coming, Correcting
      <3>2. Received' = Received + 0
        BY <1>r, <2>1, SamePayments
      <3> QED BY <1>p, <1>t, <2>1, <2>3, <3>1, <3>2, ReceivedKept
    <2> QED BY <1>2, <2>2, <2>3, RefundPlaces
  <1>3. CASE RefundClaim(r)
    <2>1. UNCHANGED invoice /\ Received' = Received
      BY <1>3, ClaimMarks, ReceivedStays
    <2>2. CASE req'[r].pc = "done"
      BY <2>1, <2>2, QuietReceived DEF ReadingSteps, Correcting
    <2>3. CASE Goto(r, "refund_invoice")
      <3>1. req'[r].pc = "refund_invoice" /\ req'[r].inv = req[r].inv
        BY <2>3, GotoSame
      <3>2. req[r].pc = "refund_claim"
        BY <1>3 DEF RefundClaim, At
      <3>3. Coming[r] = 0 /\ Coming'[r] = 0 /\ Received' = Received + 0
        BY <1>r, <2>1, <3>1, <3>2 DEF Coming
      <3> QED BY <1>p, <1>t, <2>1, <3>1, <3>2, <3>3, ReceivedKept DEF ReadingSteps, Correcting
    <2> QED BY <1>3, <2>2, <2>3, RefundPlaces
  <1>4. CASE RefundInvoice(r)
    <2>1. req[r].pc = "refund_invoice" /\ req'[r].pc \in {"refund_wallet", "refund_post"}
      BY <1>4, RefundPlaces DEF RefundInvoice, At
    <2>2. req[r].inv.paid <= Entered
      BY <2>1 DEF ReceivedInv, ReadingSteps
    <2>3. PICK n : /\ n = Floor0(req[r].inv.paid - req[r].amount)
                   /\ invoice' = [invoice EXCEPT !.paid = n, !.due = Total - n, !.status = StatusAfter(n)]
      BY <1>4 DEF RefundInvoice
    <2>4. n \in Int /\ n <= Entered
      BY <1>t, <1>r, <1>p, <2>2, <2>3 DEF Floor0
    <2>5. invoice'.paid = n /\ invoice'.status = StatusAfter(n)
      BY <1>t, <2>3 DEF InvoiceRows
    <2>6. Coming[r] = 0 /\ Coming'[r] = 0
      BY <2>1 DEF Coming
    <2>7. Received' = Received + 0
      BY <1>4, <1>r, SamePayments DEF RefundInvoice
    <2>8. invoice'.paid <= Entered + 0 + Coming[r] - Coming'[r]
      BY <1>r, <2>4, <2>5, <2>6
    <2>9. invoice'.status = "PAID" => Total <= invoice'.paid
      BY <2>4, <2>5, PaidStatus
    <2> QED BY <2>1, <2>6, <2>7, <2>8, <2>9, ReceivedKept DEF ReadingSteps, Correcting
  <1> QED BY <1>1, <1>2, <1>3, <1>4 DEF Refund

LEMMA DecisionReceived ==
  ASSUME TypeOK, TypeOK', ReceivedInv, NEW r \in Requests, OthersWait(r),
         Approval(r) \/ Reverse(r) \/ Crash(r)
  PROVE  ReceivedInv'
  <1>1. req'[r].pc \notin Correcting \cup ReadingSteps \cup {"create_read"}
    BY Places DEF Correcting, ReadingSteps
  <1>2. UNCHANGED payments
    BY DEF Approval, ApproveStart, ApproveMark, RejectStart, RejectMark, Crash,
           Reverse, ReverseStart, ReverseWrite, ReversePost
  <1>3. invoice'.paid = invoice.paid /\ invoice'.status \in {invoice.status, "CANCELLED"}
    <2>1. CASE UNCHANGED invoice
      BY <2>1
    <2>2. CASE ReverseWrite(r)
      BY <2>2 DEF ReverseWrite, TypeOK, TypeOKBooks, InvoiceRows
    <2> QED BY <2>1, <2>2 DEF Approval, ApproveStart, ApproveMark, RejectStart, RejectMark, Crash,
               Reverse, ReverseStart, ReversePost
  <1> QED BY <1>1, <1>2, <1>3, SamePayments, QuietReceived

LEMMA NoCorrections ==
  ASSUME ReceivedInv, "update" \notin Ops, "remove" \notin Ops, NEW r \in Requests
  PROVE  ~Update(r) /\ ~Remove(r)
  BY DEF ReceivedInv, Correcting, Update, UpdateStart, UpdateRow, UpdateRead, UpdateWrite, UpdatePost,
     Remove, RemoveStart, RemoveRead, RemoveWrite, RemovePost, RemoveDelete, CanStart, At

LEMMA ReceivedStep ==
  ASSUME "update" \notin Ops, "remove" \notin Ops, TypeOK, SoundInv, ReceivedInv, [Next]_vars
  PROVE  ReceivedInv'
  <1>0. TypeOK'
    BY StepTyped
  <1>1. ASSUME NEW r \in Requests, Entry(r) \/ MoneyBack(r) PROVE ReceivedInv'
    <2>1. OthersWait(r)
      BY <1>1, StepsWait
    <2> QED BY <1>0, <1>1, <2>1, NoCorrections, RecordReceived, CreateReceived, RefundReceived,
               DecisionReceived DEF Entry, MoneyBack
  <1>2. ASSUME UNCHANGED <<invoice, req>>, Received' = Received PROVE ReceivedInv'
    BY <1>2 DEF ReceivedInv, Entered, TotalComing, Coming
  <1>3. ASSUME NEW p \in PaymentIds, WindowPasses(p) PROVE ReceivedInv'
    <2>1. \A q \in PaymentIds : /\ payments'[q].st = payments[q].st
                                /\ payments'[q].amount = payments[q].amount
      BY <1>3 DEF WindowPasses, TypeOK, TypeOKBooks, PaymentRows
    <2> QED BY <1>2, <1>3, <2>1, ReceivedStays DEF WindowPasses
  <1>4. CASE UNCHANGED vars
    BY <1>2, <1>4, SamePayments DEF vars
  <1> QED BY <1>1, <1>3, <1>4 DEF Next

LEMMA ReceivedInit == Init => ReceivedInv
  <1> SUFFICES ASSUME Init PROVE ReceivedInv
    OBVIOUS
  <1>1. \A r \in Requests : req[r].pc = "idle" /\ Coming[r] = 0
    BY DEF Init, InitBooks, Blank, Coming
  <1>2. \A p \in PaymentIds : AmountOf[p] = 0
    BY DEF Init, InitBooks, NoRow, Kept, AmountOf
  <1>3. PICK f, h : f = AmountOf /\ h = Coming
    OBVIOUS
  <1>4. SumFunctionOnSet(f, PaymentIds) = 0 /\ SumFunctionOnSet(h, Requests) = 0
    BY <1>1, <1>2, <1>3, SumZero, BooksAssumption
  <1>5. Entered = 0
    BY <1>3, <1>4 DEF Entered, Received, AmountOf, TotalComing
  <1>6. invoice.paid = 0 /\ invoice.status = "UNPAID"
    BY DEF Init, InitBooks, NewInvoice
  <1> QED BY <1>1, <1>5, <1>6 DEF ReceivedInv, Correcting, ReadingSteps

\* Whatever receipts, refunds, approvals, reversals and deaths overlap, the invoice never shows
\* more as paid than was received, and none that reads PAID was received less for than its total,
\* as long as nobody edits or deletes a payment: a lost update only ever loses.
THEOREM NothingIsPaidTwice ==
  ASSUME "update" \notin Ops, "remove" \notin Ops
  PROVE  Spec => []PaidAmountWasReceived
  <1>1. TypeOK /\ SoundInv /\ ReceivedInv /\ [Next]_vars => ReceivedInv'
    BY ReceivedStep
  <1>2. TypeOK /\ ReceivedInv => PaidAmountWasReceived
    <2> SUFFICES ASSUME TypeOK, ReceivedInv PROVE PaidAmountWasReceived
      OBVIOUS
    <2>1. /\ Entered \in Int /\ Entered <= Received /\ Received \in Int
          /\ invoice.paid \in Int /\ Total \in Int
      BY EnteredTyped, BooksAssumption DEF TypeOK, TypeOKBooks, InvoiceRows
    <2> QED BY <2>1 DEF ReceivedInv, PaidAmountWasReceived
  <1> QED BY <1>1, <1>2, ReceivedInit, SoundInit, SoundStep, TypeCorrect, PTL DEF Spec

-----------------------------------------------------------------------------
(* Many handlers at a time.  On a desk that only receives money through    *)
(* recordPayment and reverses invoices, any number of handlers may         *)
(* overlap and die: the locked transaction reads and writes the invoice in *)
(* one step, and nothing else writes paidAmount.                           *)

Untouched == \A p \in PaymentIds : payments[p].refunded = 0 /\ ~payments[p].closed

LEMMA NetTyped ==
  ASSUME TypeOK
  PROVE  NetPayments \in Int
  <1>1. PICK f : f = NetOf
    OBVIOUS
  <1>2. \A p \in PaymentIds : f[p] \in Int
    BY <1>1, NetOfTyped DEF TypeOK
  <1> QED BY <1>1, <1>2, SumType, BooksAssumption DEF NetPayments

\* Payments that nobody refunds count in full, and together no less than each of them.
LEMMA NetFull ==
  ASSUME TypeOK, Untouched
  PROVE  /\ NetPayments \in Nat
         /\ \A p \in PaymentIds : NetOf[p] = IF p \in Kept THEN payments[p].amount ELSE 0
         /\ \A p \in Kept : payments[p].amount <= NetPayments
  <1>1. IsFiniteSet(PaymentIds)
    BY BooksAssumption
  <1>2. \A p \in PaymentIds : NetOf[p] = IF p \in Kept THEN payments[p].amount ELSE 0
    BY DEF TypeOK, TypeOKBooks, PaymentRows, NetOf, Untouched
  <1>3. PICK f : f = NetOf
    OBVIOUS
  <1>4. \A p \in PaymentIds : f[p] \in Nat
    BY <1>2, <1>3 DEF TypeOK, TypeOKBooks, PaymentRows
  <1>5. SumFunctionOnSet(f, PaymentIds) \in Nat
        /\ \A p \in PaymentIds : f[p] <= SumFunctionOnSet(f, PaymentIds)
    BY <1>1, <1>4, SumNat
  <1> QED BY <1>2, <1>3, <1>5 DEF NetPayments, Kept

LEMMA NetStays ==
  ASSUME \A q \in PaymentIds : /\ payments'[q].st = payments[q].st
                               /\ payments'[q].amount = payments[q].amount
                               /\ payments'[q].refunded = payments[q].refunded
  PROVE  NetPayments' = NetPayments
  BY DEF NetPayments, NetOf, Kept

CounterSteps == {"record_guard", "record_commit", "record_post"}

\* What r is doing at such a desk.
Receives(r) ==
  /\ Running(r) => req[r].pc \in CounterSteps \cup {"reverse_write", "reverse_post"}
  /\ req[r].pc \in CounterSteps => req[r].op = "record" /\ req[r].amount > 0
  /\ req[r].pc = "idle" => req[r].at = "idle"

CounterInv ==
  /\ invoice.paid = NetPayments
  /\ Untouched
  /\ \A t \in Tickets : tickets[t].status = "none"
  /\ \A r \in Requests : Receives(r)

LEMMA OnlyReceipts ==
  ASSUME CounterInv, Ops \cap {"create", "update", "remove", "refund"} = {}, NEW r \in Requests
  PROVE  ~Create(r) /\ ~Update(r) /\ ~Remove(r) /\ ~Refund(r) /\ ~Approval(r)
  <1>1. /\ req[r].pc \in Steps => req[r].pc \in CounterSteps \cup {"reverse_write", "reverse_post"}
        /\ \A t \in Tickets : tickets[t].status = "none"
    BY DEF CounterInv, Receives, Running
  <1>2. ~Create(r)
    BY <1>1 DEF Create, CreateStart, CreateGuard, CreateInsert, CreateRead, CreateWrite, CreatePost,
       CanStart, At, Steps, CounterSteps
  <1>3. ~Update(r)
    BY <1>1 DEF Update, UpdateStart, UpdateRow, UpdateRead, UpdateWrite, UpdatePost,
       CanStart, At, Steps, CounterSteps
  <1>4. ~Remove(r)
    BY <1>1 DEF Remove, RemoveStart, RemoveRead, RemoveWrite, RemovePost, RemoveDelete,
       CanStart, At, Steps, CounterSteps
  <1>5. ~Refund(r)
    BY <1>1 DEF Refund, RefundStart, RefundRead, RefundClaim, RefundInvoice, RefundWallet,
       RefundCredit, RefundPost, CanStart, At, Steps, CounterSteps
  <1>6. ~Approval(r)
    BY <1>1 DEF Approval, ApproveStart, ApproveMark, RejectStart, RejectMark, At, Steps, CounterSteps
  <1> QED BY <1>2, <1>3, <1>4, <1>5, <1>6

\* What remains to be shown of a step that leaves payments and paid amount alone.
LEMMA CounterQuiet ==
  ASSUME CounterInv, NEW r \in Requests, OthersWait(r), UNCHANGED <<payments, tickets>>,
         invoice'.paid = invoice.paid, Receives(r)'
  PROVE  CounterInv'
  <1>1. NetPayments' = NetPayments
    BY NetStays
  <1>2. \A s \in Requests : Receives(s)'
    BY DEF CounterInv, OthersWait, Receives, Running
  <1> QED BY <1>1, <1>2 DEF CounterInv, Untouched

\* Handlers that have returned or died do nothing more.
LEMMA RestReceives ==
  ASSUME NEW r \in Requests, req'[r].pc \in {"done", "crashed"}
  PROVE  Receives(r)'
  BY DEF Receives, Running, Steps, CounterSteps

LEMMA RecordCounter ==
  ASSUME TypeOK, CounterInv, NEW r \in Requests, Record(r), UNCHANGED tickets
  PROVE  CounterInv'
  <1>t. TypeOKBooks /\ req[r] \in Handlers /\ req \in [Requests -> Handlers]
    BY DEF TypeOK, TypeOKBooks
  <1>r. Receives(r)
    BY DEF CounterInv
  <1>1. CASE RecordStart(r)
    <2>1. PICK amount \in Amounts, method \in Methods, force \in BOOLEAN :
            req' = [req EXCEPT ![r] = [Blank EXCEPT !.pc = "record_guard", !.op = "record",
                          !.amount = amount, !.method = method, !.force = force, !.staff = TRUE]]
      BY <1>1 DEF RecordStart
    <2>2. OthersWait(r) /\ req'[r].pc = "record_guard" /\ req'[r].op = "record" /\ req'[r].amount = amount
      BY <1>t, <2>1 DEF OthersWait, Blank
    <2>3. Receives(r)'
      BY <2>2, BooksAssumption DEF Receives, CounterSteps
    <2> QED BY <1>1, <2>2, <2>3, CounterQuiet DEF RecordStart
  <1>2. CASE RecordGuard(r)
    <2>1. req[r].pc = "record_guard" /\ UNCHANGED <<invoice, payments>>
      BY <1>2 DEF RecordGuard, At
    <2>2. CASE Finish(r)
      BY <2>1, <2>2, FinishDone, RestReceives, CounterQuiet
    <2>3. CASE Goto(r, "record_commit")
      <3>1. OthersWait(r)
        BY <1>t, <2>3 DEF Goto, OthersWait
      <3>2. req'[r].pc = "record_commit" /\ req'[r].op = req[r].op /\ req'[r].amount = req[r].amount
        BY <2>3, GotoSame
      <3>3. Receives(r)'
        BY <1>r, <2>1, <3>2 DEF Receives, CounterSteps
      <3> QED BY <2>1, <3>1, <3>3, CounterQuiet
    <2> QED BY <1>2, <2>2, <2>3 DEF RecordGuard
  <1>3. CASE RecordCommit(r)
    <2>1. req[r].pc = "record_commit" /\ req[r].op = "record" /\ req[r].amount > 0
      BY <1>3, <1>r DEF RecordCommit, At, Receives, CounterSteps
    <2>2. CASE Finish(r) /\ UNCHANGED <<invoice, payments>>
      BY <2>2, FinishDone, RestReceives, CounterQuiet
    <2>3. ASSUME NEW p \in PaymentIds, payments[p].st = "none",
                 payments' = [payments EXCEPT ![p] = NewPayment(r)],
                 invoice' = Settle(invoice, invoice.paid + req[r].amount,
                              IF invoice.paid + req[r].amount >= Total THEN "PAID" ELSE "PARTIAL"),
                 req' = [req EXCEPT ![r].pc = "record_post", ![r].pay = p]
          PROVE  CounterInv'
      <3>1. OthersWait(r)
        BY <1>t, <2>3 DEF OthersWait
      <3>2. req'[r].pc = "record_post" /\ req'[r].op = req[r].op /\ req'[r].amount = req[r].amount
        BY <1>t, <2>3 DEF Handlers
      <3>3. NetPayments' = NetPayments + req[r].amount
        BY <1>t, <2>3, NewPaymentCounts
      <3>4. invoice'.paid = invoice.paid + req[r].amount
        BY <1>t, <2>3 DEF TypeOKBooks, InvoiceRows, Settle
      <3>5. Receives(r)'
        BY <2>1, <3>2 DEF Receives, CounterSteps
      <3>6. \A s \in Requests : Receives(s)'
        BY <3>1, <3>5 DEF CounterInv, OthersWait, Receives, Running
      <3>7. Untouched'
        BY <1>t, <2>3 DEF TypeOKBooks, CounterInv, Untouched, NewPayment
      <3> QED BY <3>3, <3>4, <3>6, <3>7 DEF CounterInv
    <2> QED BY <1>3, <2>2, <2>3 DEF RecordCommit
  <1>4. CASE RecordPost(r)
    <2>1. Finish(r) /\ UNCHANGED <<invoice, payments>>
      BY <1>4, <1>r DEF RecordPost, At, Receives, CounterSteps
    <2> QED BY <2>1, FinishDone, RestReceives, CounterQuiet
  <1> QED BY <1>1, <1>2, <1>3, <1>4 DEF Record

LEMMA ReverseCounter ==
  ASSUME TypeOK, CounterInv, NEW r \in Requests, Reverse(r)
  PROVE  CounterInv'
  <1>t. req \in [Requests -> Handlers] /\ invoice \in InvoiceRows
    BY DEF TypeOK, TypeOKBooks
  <1>1. CASE ReverseStart(r)
    <2>1. req' = [req EXCEPT ![r] = [Blank EXCEPT !.pc = "reverse_write", !.op = "reverse"]]
          /\ UNCHANGED <<invoice, payments, tickets>>
      BY <1>1 DEF ReverseStart
    <2>2. OthersWait(r) /\ req'[r].pc = "reverse_write"
      BY <1>t, <2>1 DEF OthersWait, Blank
    <2>3. Receives(r)'
      BY <2>2 DEF Receives, CounterSteps
    <2> QED BY <2>1, <2>2, <2>3, CounterQuiet
  <1>2. CASE ReverseWrite(r)
    <2>1. /\ invoice' = [invoice EXCEPT !.status = "CANCELLED", !.due = 0, !.reversed = TRUE]
          /\ Goto(r, "reverse_post") /\ UNCHANGED <<payments, tickets>>
      BY <1>2 DEF ReverseWrite
    <2>2. OthersWait(r)
      BY <1>t, <2>1 DEF Goto, OthersWait
    <2>3. req'[r].pc = "reverse_post"
      BY <2>1, GotoSame
    <2>4. Receives(r)' /\ invoice'.paid = invoice.paid
      BY <1>t, <2>1, <2>3 DEF Receives, CounterSteps, InvoiceRows
    <2> QED BY <2>1, <2>2, <2>4, CounterQuiet
  <1>3. CASE ReversePost(r)
    <2>1. Finish(r) /\ UNCHANGED <<invoice, payments, tickets>>
      BY <1>3 DEF ReversePost
    <2> QED BY <2>1, FinishDone, RestReceives, CounterQuiet
  <1> QED BY <1>1, <1>2, <1>3 DEF Reverse

LEMMA CounterStep ==
  ASSUME TypeOK, CounterInv, Ops \cap {"create", "update", "remove", "refund"} = {}, [Next]_vars
  PROVE  CounterInv'
  <1>1. ASSUME NEW r \in Requests, (Entry(r) /\ UNCHANGED refundVars) \/ MoneyBack(r)
        PROVE  CounterInv'
    <2>1. CASE Crash(r) /\ UNCHANGED refundVars
      <3>1. UNCHANGED <<invoice, payments, tickets>>
        BY <2>1 DEF Crash, refundVars
      <3>2. OthersWait(r) /\ req'[r].pc = "crashed"
        BY <2>1 DEF Crash, OthersWait, TypeOK, TypeOKBooks, Handlers
      <3> QED BY <3>1, <3>2, RestReceives, CounterQuiet
    <2>2. CASE Record(r) /\ UNCHANGED refundVars
      BY <2>2, RecordCounter DEF refundVars
    <2>3. CASE Reverse(r)
      BY <2>3, ReverseCounter
    <2> QED BY <1>1, <2>1, <2>2, <2>3, OnlyReceipts DEF Entry, MoneyBack
  <1>2. ASSUME UNCHANGED <<invoice, req, tickets>>,
               \A q \in PaymentIds : /\ payments'[q].st = payments[q].st
                                     /\ payments'[q].amount = payments[q].amount
                                     /\ payments'[q].refunded = payments[q].refunded
                                     /\ payments'[q].closed = payments[q].closed
        PROVE  CounterInv'
    <2>1. NetPayments' = NetPayments
      BY <1>2, NetStays
    <2>2. Untouched' /\ \A r \in Requests : Receives(r)'
      BY <1>2 DEF CounterInv, Untouched, Receives, Running
    <2> QED BY <1>2, <2>1, <2>2 DEF CounterInv
  <1>3. ASSUME NEW p \in PaymentIds, WindowPasses(p), UNCHANGED refundVars
        PROVE  CounterInv'
    BY <1>2, <1>3 DEF WindowPasses, refundVars, TypeOK, TypeOKBooks, PaymentRows
  <1>4. CASE UNCHANGED vars
    BY <1>2, <1>4 DEF vars
  <1> QED BY <1>1, <1>3, <1>4 DEF Next

LEMMA CounterInit == Init => CounterInv
  <1> SUFFICES ASSUME Init PROVE CounterInv
    OBVIOUS
  <1>1. \A r \in Requests : req[r].pc = "idle" /\ req[r].at = "idle"
    BY DEF Init, InitBooks, Blank
  <1>2. PICK f : f = NetOf
    OBVIOUS
  <1>3. \A p \in PaymentIds : f[p] = 0
    BY <1>2 DEF Init, InitBooks, NoRow, Kept, NetOf
  <1>4. NetPayments = 0
    BY <1>2, <1>3, SumZero, BooksAssumption DEF NetPayments
  <1>5. invoice.paid = NetPayments /\ Untouched
    BY <1>4 DEF Init, InitBooks, NewInvoice, NoRow, Untouched
  <1>6. \A t \in Tickets : tickets[t].status = "none"
    BY DEF Init, InitRefunds, NoTicket
  <1>7. \A r \in Requests : Receives(r)
    BY <1>1 DEF Receives, Running, Steps, CounterSteps
  <1> QED BY <1>5, <1>6, <1>7 DEF CounterInv

\* However many cashiers record payments at once while others reverse the invoice, and whichever
\* of them die, no receipt is lost from Invoice.paidAmount and none is counted twice.
THEOREM ReceiptsAreNeverLost ==
  ASSUME Ops \cap {"create", "update", "remove", "refund"} = {}
  PROVE  Spec => []Reconciles
  <1>1. TypeOK /\ CounterInv /\ [Next]_vars => CounterInv'
    BY CounterStep
  <1>2. CounterInv => Reconciles
    BY DEF CounterInv, Reconciles
  <1> QED BY <1>1, <1>2, CounterInit, TypeCorrect, PTL DEF Spec

\* The due amount and the status follow from the paid amount.
Face ==
  /\ invoice.due = IF invoice.status = "CANCELLED" THEN 0 ELSE Owed(invoice)
  /\ invoice.status # "CANCELLED" => invoice.status = StatusAfter(invoice.paid)
  /\ invoice.reversed <=> invoice.status = "CANCELLED"

\* Without reversals the other figures follow as well, whenever the desk comes to rest.
FiguresInv ==
  /\ CounterInv
  /\ Face /\ invoice.status # "CANCELLED"
  /\ \A r \in Requests : req[r].pc \notin {"reverse_write", "reverse_post"}
  /\ \A p \in PaymentIds : given[p] = 0
  /\ books.wallet = 0 /\ books.cash + books.receivable = Total

\* A step that leaves the invoice, the books and what was given alone.
LEMMA FiguresQuiet ==
  ASSUME FiguresInv, CounterInv', UNCHANGED <<invoice, books, given>>,
         \A r \in Requests : req'[r].pc \notin {"reverse_write", "reverse_post"}
  PROVE  FiguresInv'
  BY DEF FiguresInv, Face, Owed

LEMMA RecordFigures ==
  ASSUME TypeOK, FiguresInv, CounterInv', NEW r \in Requests, Record(r)
  PROVE  FiguresInv'
  <1>t. /\ TypeOKBooks /\ req[r] \in Handlers /\ invoice \in InvoiceRows /\ req \in [Requests -> Handlers]
        /\ books \in [cash : Int, receivable : Int, revenue : Int, wallet : Int]
    BY DEF TypeOK, TypeOKBooks
  <1>r. Receives(r) /\ invoice.status # "CANCELLED" /\ invoice.paid = NetPayments /\ Untouched
    BY DEF FiguresInv, CounterInv
  <1>w. ASSUME req'[r].pc \notin {"reverse_write", "reverse_post"}, OthersWait(r)
        PROVE  \A s \in Requests : req'[s].pc \notin {"reverse_write", "reverse_post"}
    BY <1>w DEF FiguresInv, OthersWait
  <1>1. CASE RecordStart(r)
    <2>1. OthersWait(r) /\ req'[r].pc = "record_guard"
      BY <1>1, <1>t DEF RecordStart, OthersWait, Blank
    <2> QED BY <1>1, <1>w, <2>1, FiguresQuiet DEF RecordStart
  <1>2. CASE RecordGuard(r)
    <2>1. OthersWait(r) /\ req'[r].pc \in {"done", "record_commit"}
      <3>1. CASE Finish(r)
        BY <3>1, FinishDone
      <3>2. CASE Goto(r, "record_commit")
        BY <1>t, <3>2, GotoSame DEF Goto, OthersWait
      <3> QED BY <1>2, <3>1, <3>2 DEF RecordGuard
    <2> QED BY <1>2, <1>w, <2>1, FiguresQuiet DEF RecordGuard
  <1>3. CASE RecordCommit(r)
    <2>1. req[r].amount > 0 /\ UNCHANGED <<books, given>>
      BY <1>3, <1>r DEF RecordCommit, At, Receives, CounterSteps
    <2>2. CASE Finish(r) /\ UNCHANGED <<invoice, payments>>
      BY <1>w, <2>1, <2>2, FinishDone, FiguresQuiet
    <2>3. ASSUME NEW p \in PaymentIds,
                 invoice' = Settle(invoice, invoice.paid + req[r].amount,
                              IF invoice.paid + req[r].amount >= Total THEN "PAID" ELSE "PARTIAL"),
                 req' = [req EXCEPT ![r].pc = "record_post", ![r].pay = p]
          PROVE  FiguresInv'
      <3>1. OthersWait(r) /\ req'[r].pc = "record_post"
        BY <1>t, <2>3 DEF OthersWait, Handlers
      <3>2. NetPayments \in Nat /\ req[r].amount \in Nat
        BY <1>r, <1>t, NetFull DEF Handlers
      <3>3. PICK n \in Int : n = invoice.paid + req[r].amount /\ n > 0
        BY <1>r, <2>1, <3>2
      <3>4. PICK status : /\ status = StatusAfter(n)
                          /\ status = IF n >= Total THEN "PAID" ELSE "PARTIAL"
        BY <3>3 DEF StatusAfter
      <3>5. /\ invoice'.paid = n /\ invoice'.due = Floor0(Total - n) /\ invoice'.status = status
            /\ invoice'.reversed = invoice.reversed
        BY <1>t, <2>3, <3>3, <3>4 DEF InvoiceRows, Settle
      <3>6. status # "CANCELLED"
        BY <3>4, OpenStatus
      <3>7. Face' /\ invoice'.status # "CANCELLED"
        BY <1>r, <3>4, <3>5, <3>6 DEF FiguresInv, Face, Owed
      <3> QED BY <1>w, <2>1, <3>1, <3>7 DEF FiguresInv
    <2> QED BY <1>3, <2>2, <2>3 DEF RecordCommit
  <1>4. CASE RecordPost(r)
    <2>1. /\ Finish(r) /\ UNCHANGED <<invoice, given>>
          /\ Post("cash", "receivable", req[r].amount)
      BY <1>4, <1>r DEF RecordPost, At, Receives, CounterSteps
    <2>2. /\ books'.cash = books.cash + req[r].amount
          /\ books'.receivable = books.receivable - req[r].amount
          /\ books'.wallet = books.wallet
      BY <1>t, <2>1 DEF Post
    <2>3. books'.wallet = 0 /\ books'.cash + books'.receivable = Total
      BY <1>t, <2>2 DEF FiguresInv, Handlers
    <2>4. Face' /\ invoice'.status # "CANCELLED"
      BY <2>1 DEF FiguresInv, Face, Owed
    <2> QED BY <1>w, <2>1, <2>3, <2>4, FinishDone DEF FiguresInv
  <1> QED BY <1>1, <1>2, <1>3, <1>4 DEF Record

LEMMA FiguresStep ==
  ASSUME TypeOK, FiguresInv, Ops \cap {"create", "update", "remove", "refund", "reverse"} = {},
         [Next]_vars
  PROVE  FiguresInv'
  <1>1. CounterInv'
    BY CounterStep DEF FiguresInv
  <1>2. ASSUME NEW r \in Requests, Entry(r) \/ MoneyBack(r)
        PROVE  FiguresInv'
    <2>1. CASE Crash(r)
      <3>1. OthersWait(r) /\ req'[r].pc = "crashed"
        BY <2>1 DEF Crash, OthersWait, TypeOK, TypeOKBooks, Handlers
      <3>2. \A s \in Requests : req'[s].pc \notin {"reverse_write", "reverse_post"}
        BY <3>1 DEF FiguresInv, OthersWait
      <3> QED BY <1>1, <2>1, <3>2, FiguresQuiet DEF Crash
    <2>2. CASE Record(r)
      BY <1>1, <2>2, RecordFigures
    <2>3. ~Reverse(r)
      BY DEF FiguresInv, Reverse, ReverseStart, ReverseWrite, ReversePost, CanStart, At
    <2>4. CounterInv /\ Ops \cap {"create", "update", "remove", "refund"} = {}
      BY DEF FiguresInv
    <2>5. ~Create(r) /\ ~Update(r) /\ ~Remove(r) /\ ~Refund(r) /\ ~Approval(r)
      BY <2>4, OnlyReceipts
    <2> QED BY <1>2, <2>1, <2>2, <2>3, <2>5 DEF Entry, MoneyBack
  <1>3. ASSUME NEW p \in PaymentIds, WindowPasses(p) PROVE FiguresInv'
    BY <1>1, <1>3, FiguresQuiet DEF WindowPasses, FiguresInv
  <1>4. CASE UNCHANGED vars
    BY <1>1, <1>4, FiguresQuiet DEF vars, FiguresInv
  <1> QED BY <1>2, <1>3, <1>4 DEF Next

LEMMA FiguresInit == Init => FiguresInv
  <1> SUFFICES ASSUME Init PROVE FiguresInv
    OBVIOUS
  <1>1. Face
    BY BooksAssumption DEF Init, InitBooks, NewInvoice, Face, Owed, Floor0, StatusAfter
  <1>2. invoice.status # "CANCELLED" /\ \A r \in Requests : req[r].pc = "idle"
    BY DEF Init, InitBooks, NewInvoice, Blank
  <1>3. (\A p \in PaymentIds : given[p] = 0) /\ books.wallet = 0 /\ books.cash + books.receivable = Total
    BY BooksAssumption DEF Init, InitBooks
  <1> QED BY <1>1, <1>2, <1>3, CounterInit DEF FiguresInv

\* At rest, with no handler dead, no posting is outstanding.
LEMMA CounterAtRest ==
  ASSUME TypeOK, FiguresInv, LedgerTracksMoney
  PROVE  BooksAtRest
  <1>1. ASSUME InFlight = {}, AllPosted
        PROVE  books.cash = NetPayments /\ books.receivable = Total - NetPayments
    <2>1. \A r \in Requests : Lag[r] = 0
      <3>1. \A r \in Requests : req[r].pc \notin Steps /\ req[r].at = "idle"
        BY <1>1 DEF InFlight, Running, AllPosted
      <3> QED BY <3>1 DEF Lag, Stopped, Steps
    <2>2. PICK f, h : f = Lag /\ h = Takings
      OBVIOUS
    <2>3. SumFunctionOnSet(f, Requests) = 0
      BY <2>1, <2>2, BooksAssumption, SumZero
    <2>4. Takings = NetOf
      <3>1. \A p \in PaymentIds : given[p] = 0 /\ payments[p].refunded = 0
        BY DEF FiguresInv, CounterInv, Untouched
      <3> QED BY <3>1 DEF Takings, NetOf
    <2>5. NetPayments \in Int /\ books.cash \in Int /\ books.receivable \in Int
      BY NetTyped DEF TypeOK, TypeOKBooks
    <2>6. books.cash + books.wallet = NetPayments - 0
      BY <2>2, <2>3, <2>4 DEF LedgerTracksMoney, NetPayments
    <2>7. books.wallet = 0 /\ books.cash + books.receivable = Total
      BY DEF FiguresInv
    <2> QED BY <2>5, <2>6, <2>7
  <1>2. Face /\ invoice.status # "CANCELLED" /\ ~invoice.reversed
    BY DEF FiguresInv, Face, TypeOK, TypeOKBooks, InvoiceRows
  <1> QED BY <1>1, <1>2 DEF BooksAtRest, Face

\* However many cashiers record payments at once, the invoice's due amount and status follow from
\* its payments at every rest, and so do the ledger's cash and receivables unless a handler died.
THEOREM ReceiptsKeepTheBooks ==
  ASSUME Ops \cap {"create", "update", "remove", "refund", "reverse"} = {}
  PROVE  Spec => []BooksAtRest
  <1>1. TypeOK /\ FiguresInv /\ [Next]_vars => FiguresInv'
    BY FiguresStep
  <1>2. Spec => []LedgerTracksMoney
    BY LedgerKnowsTheMoney
  <1>3. TypeOK /\ FiguresInv /\ LedgerTracksMoney => BooksAtRest
    BY CounterAtRest
  <1> QED BY <1>1, <1>2, <1>3, FiguresInit, TypeCorrect, PTL DEF Spec

=============================================================================
