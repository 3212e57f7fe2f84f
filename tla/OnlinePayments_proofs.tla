------------------------ MODULE OnlinePayments_proofs -----------------------
(***************************************************************************)
(* Proofs about OnlinePayments for every set of handlers, payments,        *)
(* transactions and amounts.                                               *)
(***************************************************************************)
EXTENDS OnlinePayments, PaymentEntry_proofs, FiniteSetTheorems

-----------------------------------------------------------------------------
(* Type correctness, one lemma for each settlement path.                   *)

LEMMA TxsAreRefs ==
  /\ Gateway \subseteq Refs /\ Hosted \subseteq Refs /\ Txs \subseteq Refs
  /\ Gateway \subseteq Txs /\ Hosted \subseteq Txs
  BY OnlineAssumption DEF Txs

LEMMA StatusTyped ==
  ASSUME txs \in [Txs -> TxRows], NEW t,
         NEW status \in {"FAILED", "SUCCESS"}, txs' = [txs EXCEPT ![t].status = status]
  PROVE  txs' \in [Txs -> TxRows]
  <1>1. ASSUME NEW row \in TxRows PROVE [row EXCEPT !.status = status] \in TxRows
    BY DEF TxRows
  <1>2. CASE t \in Txs
    BY <1>1, <1>2
  <1>3. CASE t \notin Txs
    BY <1>3
  <1> QED BY <1>2, <1>3

LEMMA CountTyped ==
  ASSUME NEW f \in [Txs -> Nat], NEW t
  PROVE  [f EXCEPT ![t] = @ + 1] \in [Txs -> Nat]
  <1>1. CASE t \in Txs
    BY <1>1
  <1>2. CASE t \notin Txs
    BY <1>2
  <1> QED BY <1>1, <1>2

LEMMA CheckoutTyped ==
  ASSUME TypeOK, NEW t \in Txs, Initiate(t) \/ CreateCheckout(t) \/ CustomerPays(t)
  PROVE  TypeOK'
  <1> USE DEF TypeOK
  <1>1. CASE Initiate(t)
    <2>1. (IF invoice.due > 0 THEN invoice.due ELSE Total) \in Nat
      BY BooksAssumption DEF TypeOKBooks, InvoiceRows
    <2>2. txs' \in [Txs -> TxRows]
      BY <1>1, <2>1 DEF Initiate, TxRows
    <2> QED BY <1>1, <2>2 DEF Initiate, TypeOKBooks, bookVars
  <1>2. CASE CreateCheckout(t)
    <2>1. txs' \in [Txs -> TxRows]
      BY <1>2, BooksAssumption DEF CreateCheckout, TxRows
    <2> QED BY <1>2, <2>1 DEF CreateCheckout, TypeOKBooks, bookVars
  <1>3. CASE CustomerPays(t)
    BY <1>3 DEF CustomerPays, TypeOKBooks, bookVars
  <1> QED BY <1>1, <1>2, <1>3

LEMMA SettleStepTyped ==
  ASSUME TypeOK, NEW r \in Requests, SettleStart(r) \/ SettleClaim(r) \/ RecordStep(r)
  PROVE  TypeOK'
  <1> USE DEF TypeOK
  <1>1. CASE SettleStart(r)
    <2>1. PICK t \in Gateway \cap captured :
            req' = [req EXCEPT ![r] = [Blank EXCEPT !.pc = "settle_claim", !.op = "settle",
                      !.ref = t, !.amount = txs[t].amount, !.method = "ONLINE"]]
      BY <1>1 DEF SettleStart
    <2>2. /\ t \in Refs /\ txs[t].amount \in Nat /\ "settle" \in Ops
          /\ "settle_claim" \in Steps /\ "ONLINE" \in Methods
      BY <1>1, TxsAreRefs, OnlineAssumption DEF SettleStart, CanStart, Steps, TxRows
    <2>3. [Blank EXCEPT !.pc = "settle_claim", !.op = "settle", !.ref = t,
             !.amount = txs[t].amount, !.method = "ONLINE"] \in Handlers
      BY <2>2, BlankTyped DEF Handlers
    <2>4. req' \in [Requests -> Handlers]
      BY <2>1, <2>3, UpdatedTyped DEF TypeOKBooks
    <2> QED BY <1>1, <2>4 DEF SettleStart, TypeOKBooks, onlineVars
  <1>2. CASE SettleClaim(r)
    <2>1. req' \in [Requests -> Handlers]
      BY <1>2, FinishTyped, GotoTyped DEF SettleClaim, TypeOKBooks, Steps
    <2>2. txs' = txs \/ txs' = [txs EXCEPT ![req[r].ref].status = "SUCCESS"]
      BY <1>2 DEF SettleClaim
    <2>3. txs' \in [Txs -> TxRows]
      BY <2>2, StatusTyped
    <2> QED BY <1>2, <2>1, <2>3 DEF SettleClaim, TypeOKBooks
  <1>3. CASE RecordStep(r)
    <2>1. TypeOKBooks'
      BY <1>3, RecordKeepsTypes DEF RecordStep
    <2>2. credits' \in [Txs -> Nat]
      BY <1>3, CountTyped DEF RecordStep
    <2> QED BY <1>3, <2>1, <2>2 DEF RecordStep
  <1> QED BY <1>1, <1>2, <1>3

LEMMA ExtendTyped ==
  ASSUME TypeOK, NEW r \in Requests, ExtendRead(r) \/ ExtendWrite(r)
  PROVE  TypeOK'
  <1> USE DEF TypeOK
  <1>1. CASE ExtendRead(r)
    <2>1. req' \in [Requests -> Handlers]
      BY <1>1, GotoTyped DEF ExtendRead, TypeOKBooks, Steps
    <2>2. Floor0(periods) \in Nat
      BY DEF Floor0
    <2> QED BY <1>1, <2>1, <2>2 DEF ExtendRead, TypeOKBooks
  <1>2. CASE ExtendWrite(r)
    <2>1. req' \in [Requests -> Handlers]
      BY <1>2, FinishTyped DEF ExtendWrite, TypeOKBooks
    <2>2. periods' \in Int /\ held' \in [Requests -> Nat]
      BY <1>2 DEF ExtendWrite
    <2> QED BY <1>2, <2>1, <2>2 DEF ExtendWrite, TypeOKBooks
  <1> QED BY <1>1, <1>2

LEMMA FailTyped ==
  ASSUME TypeOK, NEW r \in Requests, FailStart(r) \/ FailWrite(r)
  PROVE  TypeOK'
  <1> USE DEF TypeOK
  <1>1. CASE FailStart(r)
    <2>1. PICK t \in Gateway :
            req' = [req EXCEPT ![r] = [Blank EXCEPT !.pc = "fail_write", !.op = "fail", !.ref = t]]
      BY <1>1 DEF FailStart
    <2>2. t \in Refs /\ "fail" \in Ops /\ "fail_write" \in Steps
      BY <1>1, TxsAreRefs DEF FailStart, CanStart, Steps
    <2>3. [Blank EXCEPT !.pc = "fail_write", !.op = "fail", !.ref = t] \in Handlers
      BY <2>2, BlankTyped DEF Handlers
    <2>4. req' \in [Requests -> Handlers]
      BY <2>1, <2>3, UpdatedTyped DEF TypeOKBooks
    <2> QED BY <1>1, <2>4 DEF FailStart, TypeOKBooks, onlineVars
  <1>2. CASE FailWrite(r)
    <2>1. req' \in [Requests -> Handlers]
      BY <1>2, FinishTyped DEF FailWrite, TypeOKBooks
    <2>2. txs' \in [Txs -> TxRows]
      BY <1>2, StatusTyped DEF FailWrite
    <2>3. reopened' \in [Txs -> Nat]
      BY <1>2, CountTyped DEF FailWrite
    <2> QED BY <1>2, <2>1, <2>2, <2>3 DEF FailWrite, TypeOKBooks
  <1> QED BY <1>1, <1>2

LEMMA WebhookTyped ==
  ASSUME TypeOK, NEW r \in Requests, WebhookStart(r) \/ WebhookCommit(r)
  PROVE  TypeOK'
  <1> USE DEF TypeOK
  <1>1. CASE WebhookStart(r)
    <2>1. PICK t \in Hosted, success \in BOOLEAN :
            req' = [req EXCEPT ![r] = [Blank EXCEPT !.pc = "webhook_commit", !.op = "webhook",
                      !.ref = t, !.amount = txs[t].amount, !.method = "ONLINE", !.success = success]]
      BY <1>1 DEF WebhookStart
    <2>2. /\ t \in Refs /\ txs[t].amount \in Nat /\ "webhook" \in Ops
          /\ "webhook_commit" \in Steps /\ "ONLINE" \in Methods
      BY <1>1, TxsAreRefs, OnlineAssumption DEF WebhookStart, CanStart, Steps, TxRows
    <2>3. [Blank EXCEPT !.pc = "webhook_commit", !.op = "webhook", !.ref = t,
             !.amount = txs[t].amount, !.method = "ONLINE", !.success = success] \in Handlers
      BY <2>2, BlankTyped DEF Handlers
    <2>4. req' \in [Requests -> Handlers]
      BY <2>1, <2>3, UpdatedTyped DEF TypeOKBooks
    <2> QED BY <1>1, <2>4 DEF WebhookStart, TypeOKBooks, onlineVars
  <1>2. CASE WebhookCommit(r)
    <2> DEFINE t == req[r].ref
               paid == invoice.paid + req[r].amount
    <2>1. req' \in [Requests -> Handlers]
      BY <1>2, FinishTyped DEF WebhookCommit, TypeOKBooks
    <2>2. txs' \in [Txs -> TxRows]
      BY <1>2, StatusTyped DEF WebhookCommit
    <2>3. ASSUME Settles(r, t, paid)
          PROVE  /\ payments' \in [PaymentIds -> PaymentRows]
                 /\ invoice' \in InvoiceRows
                 /\ credits' \in [Txs -> Nat]
      <3>1. paid \in Int
        BY DEF TypeOKBooks, InvoiceRows, Handlers
      <3>2. (IF paid >= Total THEN "PAID" ELSE "PARTIAL") \in InvoiceStatus
        BY DEF InvoiceStatus
      <3>3. invoice' \in InvoiceRows
        BY <2>3, <3>1, <3>2, SettleTyped DEF Settles, TypeOKBooks
      <3>4. payments' \in [PaymentIds -> PaymentRows]
        BY <2>3, NewPaymentTyped DEF Settles, TypeOKBooks
      <3>5. credits' \in [Txs -> Nat]
        BY <2>3, CountTyped DEF Settles
      <3> QED BY <3>3, <3>4, <3>5
    <2>4. /\ payments' \in [PaymentIds -> PaymentRows]
          /\ invoice' \in InvoiceRows
          /\ credits' \in [Txs -> Nat]
      BY <1>2, <2>3 DEF WebhookCommit, TypeOKBooks
    <2> QED BY <1>2, <2>1, <2>2, <2>4 DEF WebhookCommit, TypeOKBooks
  <1> QED BY <1>1, <1>2

LEMMA InitTyped == Init => TypeOK
  BY BooksStartTyped DEF Init, TypeOK, TxRows

LEMMA StepTyped == TypeOK /\ [Next]_vars => TypeOK'
  <1> SUFFICES ASSUME TypeOK, [Next]_vars PROVE TypeOK'
    OBVIOUS
  <1>1. ASSUME NEW t \in Txs, Initiate(t) \/ CreateCheckout(t) \/ CustomerPays(t) PROVE TypeOK'
    BY <1>1, CheckoutTyped
  <1>2. ASSUME NEW r \in Requests, SettleStart(r) \/ SettleClaim(r) \/ RecordStep(r) PROVE TypeOK'
    BY <1>2, SettleStepTyped
  <1>3. ASSUME NEW r \in Requests, ExtendRead(r) \/ ExtendWrite(r) PROVE TypeOK'
    BY <1>3, ExtendTyped
  <1>4. ASSUME NEW r \in Requests, FailStart(r) \/ FailWrite(r) PROVE TypeOK'
    BY <1>4, FailTyped
  <1>5. ASSUME NEW r \in Requests, WebhookStart(r) \/ WebhookCommit(r) PROVE TypeOK'
    BY <1>5, WebhookTyped
  <1>6. ASSUME NEW r \in Requests, Crash(r), UNCHANGED onlineVars PROVE TypeOK'
    BY <1>6, CrashKeepsTypes DEF TypeOK, onlineVars
  <1>7. ASSUME NEW p \in PaymentIds, WindowPasses(p), UNCHANGED onlineVars PROVE TypeOK'
    BY <1>7, WindowKeepsTypes DEF TypeOK, onlineVars
  <1>8. CASE UNCHANGED vars
    BY <1>8 DEF vars, TypeOK, TypeOKBooks
  <1> QED BY <1>1, <1>2, <1>3, <1>4, <1>5, <1>6, <1>7, <1>8 DEF Next

\* Invoice, payments, both transaction tables and the local variables of cashiers, callbacks
\* and webhooks stay in their domains, whatever is delivered and however often.
THEOREM TypeCorrect == Spec => []TypeOK
  BY InitTyped, StepTyped, PTL DEF Spec

-----------------------------------------------------------------------------
(* What a delivery works for: a redirect or a cancellation for a gateway   *)
(* transaction, a webhook for a hosted one, and a success only for money   *)
(* that the provider holds.  Only recordPayment is entered by staff.       *)

Genuine(h, money) ==
  /\ h.op \in {"settle", "fail"} => h.ref \in Gateway
  /\ h.op = "webhook" => h.ref \in Hosted /\ (h.success => h.ref \in money)
  /\ h.pc = "settle_claim" => h.op = "settle"
  /\ h.pc = "fail_write" => h.op = "fail"
  /\ h.pc = "webhook_commit" => h.op = "webhook"
  /\ h.staff => h.op = "record"

Deliveries == \A r \in Requests : Genuine(req[r], captured)

LEMMA BlankGenuine == Genuine(Blank, captured)
  BY DEF Genuine, Blank

LEMMA UpdateGenuine ==
  ASSUME TypeOKBooks, Deliveries, NEW r \in Requests, NEW h, Genuine(h, captured),
         req' = [req EXCEPT ![r] = h], UNCHANGED captured
  PROVE  Deliveries'
  <1>1. \A s \in Requests : req'[s] = IF s = r THEN h ELSE req[s]
    BY DEF TypeOKBooks
  <1>2. ASSUME NEW s \in Requests PROVE Genuine(req'[s], captured')
    BY <1>1 DEF Deliveries
  <1> QED BY <1>2 DEF Deliveries

LEMMA GotoGenuine ==
  ASSUME TypeOKBooks, Deliveries, NEW r \in Requests, NEW step, Goto(r, step),
         step \notin {"settle_claim", "fail_write", "webhook_commit"}, UNCHANGED captured
  PROVE  Deliveries'
  <1>1. req[r] \in Handlers /\ Genuine(req[r], captured)
    BY DEF TypeOKBooks, Deliveries
  <1>2. Genuine([req[r] EXCEPT !.pc = step], captured)
    BY <1>1 DEF Genuine, Handlers
  <1>3. req' = [req EXCEPT ![r] = [req[r] EXCEPT !.pc = step]]
    BY DEF Goto, TypeOKBooks
  <1> QED BY <1>2, <1>3, UpdateGenuine

LEMMA FinishGenuine ==
  ASSUME TypeOKBooks, Deliveries, NEW r \in Requests, Finish(r), UNCHANGED captured
  PROVE  Deliveries'
  <1>1. Genuine([Blank EXCEPT !.pc = "done", !.at = req[r].at], captured)
    BY DEF Genuine, Blank
  <1> QED BY <1>1, UpdateGenuine DEF Finish

LEMMA CrashGenuine ==
  ASSUME TypeOKBooks, Deliveries, NEW r \in Requests, Crash(r), UNCHANGED captured
  PROVE  Deliveries'
  <1>1. req[r] \in Handlers /\ Genuine(req[r], captured)
    BY DEF TypeOKBooks, Deliveries
  <1>2. Genuine([req[r] EXCEPT !.pc = "crashed", !.at = req[r].pc], captured)
    BY <1>1 DEF Genuine, Handlers
  <1>3. req' = [req EXCEPT ![r] = [req[r] EXCEPT !.pc = "crashed", !.at = req[r].pc]]
    BY DEF Crash, TypeOKBooks
  <1> QED BY <1>2, <1>3, UpdateGenuine

LEMMA RecordGenuine ==
  ASSUME TypeOKBooks, Deliveries, NEW r \in Requests, Record(r), UNCHANGED captured
  PROVE  Deliveries'
  <1>1. CASE RecordStart(r)
    <2>1. PICK amount \in Amounts, method \in Methods, force \in BOOLEAN :
            req' = [req EXCEPT ![r] = [Blank EXCEPT !.pc = "record_guard", !.op = "record",
                      !.amount = amount, !.method = method, !.force = force, !.staff = TRUE]]
      BY <1>1 DEF RecordStart
    <2>2. Genuine([Blank EXCEPT !.pc = "record_guard", !.op = "record", !.amount = amount,
                     !.method = method, !.force = force, !.staff = TRUE], captured)
      BY DEF Genuine, Blank
    <2> QED BY <2>1, <2>2, UpdateGenuine
  <1>2. CASE RecordGuard(r)
    BY <1>2, GotoGenuine, FinishGenuine DEF RecordGuard
  <1>3. CASE RecordCommit(r)
    <2>1. ASSUME NEW p \in PaymentIds, req' = [req EXCEPT ![r].pc = "record_post", ![r].pay = p]
          PROVE  Deliveries'
      <3>1. req[r] \in Handlers /\ Genuine(req[r], captured)
        BY DEF TypeOKBooks, Deliveries
      <3>2. Genuine([req[r] EXCEPT !.pc = "record_post", !.pay = p], captured)
        BY <3>1 DEF Genuine, Handlers
      <3>3. req' = [req EXCEPT ![r] = [req[r] EXCEPT !.pc = "record_post", !.pay = p]]
        BY <2>1, <3>1 DEF TypeOKBooks, Handlers
      <3> QED BY <3>2, <3>3, UpdateGenuine
    <2> QED BY <1>3, <2>1, FinishGenuine DEF RecordCommit
  <1>4. CASE RecordPost(r)
    BY <1>4, GotoGenuine, FinishGenuine DEF RecordPost
  <1> QED BY <1>1, <1>2, <1>3, <1>4 DEF Record

LEMMA PayGenuine ==
  ASSUME Deliveries, UNCHANGED req, captured \subseteq captured'
  PROVE  Deliveries'
  BY DEF Deliveries, Genuine

LEMMA StepGenuine == TypeOK /\ Deliveries /\ [Next]_vars => Deliveries'
  <1> SUFFICES ASSUME TypeOK, Deliveries, [Next]_vars PROVE Deliveries'
    OBVIOUS
  <1>t. TypeOKBooks
    BY DEF TypeOK
  <1>1. ASSUME NEW t \in Txs, Initiate(t) \/ CreateCheckout(t) \/ CustomerPays(t)
        PROVE  Deliveries'
    BY <1>1, PayGenuine DEF Initiate, CreateCheckout, CustomerPays, bookVars
  <1>2. ASSUME NEW r \in Requests, SettleStart(r) \/ FailStart(r) \/ WebhookStart(r)
        PROVE  Deliveries'
    <2>1. CASE SettleStart(r)
      <3>1. PICK t \in Gateway \cap captured :
              req' = [req EXCEPT ![r] = [Blank EXCEPT !.pc = "settle_claim", !.op = "settle",
                        !.ref = t, !.amount = txs[t].amount, !.method = "ONLINE"]]
        BY <2>1 DEF SettleStart
      <3>2. Genuine([Blank EXCEPT !.pc = "settle_claim", !.op = "settle", !.ref = t,
                       !.amount = txs[t].amount, !.method = "ONLINE"], captured)
        BY DEF Genuine, Blank
      <3> QED BY <1>t, <2>1, <3>1, <3>2, UpdateGenuine DEF SettleStart, onlineVars
    <2>2. CASE FailStart(r)
      <3>1. PICK t \in Gateway :
              req' = [req EXCEPT ![r] = [Blank EXCEPT !.pc = "fail_write", !.op = "fail", !.ref = t]]
        BY <2>2 DEF FailStart
      <3>2. Genuine([Blank EXCEPT !.pc = "fail_write", !.op = "fail", !.ref = t], captured)
        BY DEF Genuine, Blank
      <3> QED BY <1>t, <2>2, <3>1, <3>2, UpdateGenuine DEF FailStart, onlineVars
    <2>3. CASE WebhookStart(r)
      <3>1. PICK t \in Hosted, success \in BOOLEAN :
              /\ success => t \in captured
              /\ req' = [req EXCEPT ![r] = [Blank EXCEPT !.pc = "webhook_commit", !.op = "webhook",
                        !.ref = t, !.amount = txs[t].amount, !.method = "ONLINE", !.success = success]]
        BY <2>3 DEF WebhookStart
      <3>2. Genuine([Blank EXCEPT !.pc = "webhook_commit", !.op = "webhook", !.ref = t,
                       !.amount = txs[t].amount, !.method = "ONLINE", !.success = success], captured)
        BY <3>1 DEF Genuine, Blank
      <3> QED BY <1>t, <2>3, <3>1, <3>2, UpdateGenuine DEF WebhookStart, onlineVars
    <2> QED BY <1>2, <2>1, <2>2, <2>3
  <1>3. ASSUME NEW r \in Requests, SettleClaim(r) \/ ExtendRead(r) \/ ExtendWrite(r)
                                     \/ FailWrite(r) \/ WebhookCommit(r)
        PROVE  Deliveries'
    BY <1>t, <1>3, GotoGenuine, FinishGenuine
       DEF SettleClaim, ExtendRead, ExtendWrite, FailWrite, WebhookCommit
  <1>4. ASSUME NEW r \in Requests, RecordStep(r) PROVE Deliveries'
    BY <1>t, <1>4, RecordGenuine DEF RecordStep
  <1>5. ASSUME NEW r \in Requests, Crash(r), UNCHANGED onlineVars PROVE Deliveries'
    BY <1>t, <1>5, CrashGenuine DEF onlineVars
  <1>6. ASSUME NEW p \in PaymentIds, WindowPasses(p), UNCHANGED onlineVars PROVE Deliveries'
    BY <1>6, PayGenuine DEF WindowPasses, onlineVars
  <1>7. CASE UNCHANGED vars
    BY <1>7, PayGenuine DEF vars
  <1> QED BY <1>1, <1>2, <1>3, <1>4, <1>5, <1>6, <1>7 DEF Next

-----------------------------------------------------------------------------
(* Hosted checkouts implement ChargeOnce.  A credit and the status SUCCESS *)
(* are written together and nothing takes a hosted transaction out of      *)
(* SUCCESS, so the status tells whether the credit was given.              *)

CreditedIsSettled ==
  \A t \in Hosted : credits[t] = 0 \/ (credits[t] = 1 /\ txs[t].status = "SUCCESS")

HostedInv == TypeOK /\ Deliveries /\ CreditedIsSettled

HostedCredits == [t \in Hosted |-> credits[t]]

\* A step of one charge, or one that no charge sees.
ChargeStep == [HostedCharges!ChargeNext]_<<captured \cap Hosted, HostedCredits>>

LEMMA UnseenStep ==
  ASSUME HostedInv, UNCHANGED captured,
         \A t \in Hosted : credits'[t] = credits[t] /\ (txs[t].status = "SUCCESS" => txs'[t] = txs[t])
  PROVE  CreditedIsSettled' /\ ChargeStep
  BY DEF HostedInv, CreditedIsSettled, ChargeStep, HostedCredits

LEMMA CheckoutCharges ==
  ASSUME HostedInv, NEW t \in Txs, Initiate(t) \/ CreateCheckout(t) \/ CustomerPays(t)
  PROVE  CreditedIsSettled' /\ ChargeStep
  <1>1. CASE Initiate(t) \/ CreateCheckout(t)
    <2>1. \A h \in Hosted : txs[h].status = "SUCCESS" => txs'[h] = txs[h]
      BY <1>1, TxsAreRefs DEF Initiate, CreateCheckout, HostedInv, TypeOK
    <2> QED BY <1>1, <2>1, UnseenStep DEF Initiate, CreateCheckout
  <1>2. CASE CustomerPays(t)
    <2>1. CreditedIsSettled'
      BY <1>2 DEF CustomerPays, CreditedIsSettled, HostedInv
    <2>2. HostedCredits' = HostedCredits
      BY <1>2 DEF CustomerPays, HostedCredits
    <2>3. ASSUME t \in Hosted PROVE HostedCharges!Capture(t)
      <3>1. /\ t \in Hosted \ (captured \cap Hosted)
            /\ captured' \cap Hosted = (captured \cap Hosted) \cup {t}
        BY <1>2, <2>3 DEF CustomerPays
      <3> QED BY <2>2, <3>1 DEF HostedCharges!Capture, HostedCredits
    <2>4. ASSUME t \notin Hosted PROVE captured' \cap Hosted = captured \cap Hosted
      BY <1>2, <2>4 DEF CustomerPays
    <2>5. ChargeStep
      BY <2>2, <2>3, <2>4 DEF ChargeStep, HostedCharges!ChargeNext
    <2> QED BY <2>1, <2>5
  <1> QED BY <1>1, <1>2

LEMMA GatewayUnseen ==
  ASSUME HostedInv, NEW g \in Gateway, UNCHANGED captured,
         \A t \in Txs \ {g} : credits'[t] = credits[t] /\ txs'[t] = txs[t]
  PROVE  CreditedIsSettled' /\ ChargeStep
  <1>1. \A t \in Hosted : t \in Txs \ {g}
    BY OnlineAssumption DEF Txs
  <1> QED BY <1>1, UnseenStep

LEMMA WebhookCharges ==
  ASSUME HostedInv, NEW r \in Requests, WebhookCommit(r)
  PROVE  CreditedIsSettled' /\ ChargeStep
  <1> DEFINE t == req[r].ref
  <1>t. /\ txs \in [Txs -> TxRows] /\ credits \in [Txs -> Nat] /\ Hosted \subseteq Txs
        /\ UNCHANGED captured
    BY TxsAreRefs DEF HostedInv, TypeOK, WebhookCommit
  <1>1. t \in Hosted /\ (req[r].success => t \in captured)
    BY DEF WebhookCommit, At, HostedInv, Deliveries, Genuine
  <1>2. CASE txs[t].status = "SUCCESS"
    BY <1>2, <1>t, UnseenStep DEF WebhookCommit
  <1>3. CASE txs[t].status # "SUCCESS" /\ ~req[r].success
    <2>1. credits' = credits /\ \A h \in Hosted \ {t} : txs'[h] = txs[h]
      BY <1>3, <1>t DEF WebhookCommit
    <2> QED BY <1>3, <1>t, <2>1, UnseenStep
  <1>4. CASE txs[t].status # "SUCCESS" /\ req[r].success
    <2>1. /\ credits' = [credits EXCEPT ![t] = @ + 1]
          /\ txs' = [txs EXCEPT ![t].status = "SUCCESS"]
      BY <1>4 DEF WebhookCommit, Settles
    <2>2. credits[t] = 0
      BY <1>1, <1>4 DEF HostedInv, CreditedIsSettled
    <2>3. \A h \in Hosted : credits'[h] = IF h = t THEN 1 ELSE credits[h]
      BY <1>1, <1>t, <2>1, <2>2
    <2>4. txs'[t].status = "SUCCESS" /\ \A h \in Hosted \ {t} : txs'[h] = txs[h]
      BY <1>1, <1>t, <2>1 DEF TxRows
    <2>5. CreditedIsSettled'
      BY <2>3, <2>4 DEF HostedInv, CreditedIsSettled
    <2>6. PICK h \in Hosted : h = t
      BY <1>1
    <2>7. HostedCharges!Credit(h)
      <3>1. HostedCredits' = [HostedCredits EXCEPT ![h] = 1] /\ HostedCredits[h] = 0
        BY <2>2, <2>3, <2>6 DEF HostedCredits
      <3> QED BY <1>1, <1>4, <1>t, <2>6, <3>1 DEF HostedCharges!Credit, HostedCredits
    <2>8. HostedCharges!ChargeNext
      BY <2>7 DEF HostedCharges!ChargeNext
    <2>9. ChargeStep
      BY <2>8 DEF ChargeStep
    <2> QED BY <2>5, <2>9
  <1> QED BY <1>2, <1>3, <1>4

LEMMA StepCharges ==
  HostedInv /\ [Next]_vars => CreditedIsSettled' /\ ChargeStep
  <1> SUFFICES ASSUME HostedInv, [Next]_vars PROVE CreditedIsSettled' /\ ChargeStep
    OBVIOUS
  <1>t. txs \in [Txs -> TxRows] /\ credits \in [Txs -> Nat]
    BY DEF HostedInv, TypeOK
  <1>1. ASSUME NEW t \in Txs, Initiate(t) \/ CreateCheckout(t) \/ CustomerPays(t)
        PROVE  CreditedIsSettled' /\ ChargeStep
    BY <1>1, CheckoutCharges
  <1>2. ASSUME NEW r \in Requests, SettleClaim(r) \/ FailWrite(r)
        PROVE  CreditedIsSettled' /\ ChargeStep
    <2>1. req[r].ref \in Gateway
      BY <1>2 DEF SettleClaim, FailWrite, At, HostedInv, Deliveries, Genuine
    <2>2. \A t \in Txs \ {req[r].ref} : credits'[t] = credits[t] /\ txs'[t] = txs[t]
      BY <1>2, <1>t DEF SettleClaim, FailWrite
    <2> QED BY <1>2, <2>1, <2>2, GatewayUnseen DEF SettleClaim, FailWrite
  <1>3. ASSUME NEW r \in Requests, RecordStep(r) PROVE CreditedIsSettled' /\ ChargeStep
    <2>1. CASE credits' = credits
      BY <1>3, <2>1, UnseenStep DEF RecordStep
    <2>2. CASE req[r].op = "settle" /\ credits' = [credits EXCEPT ![req[r].ref] = @ + 1]
      <3>1. req[r].ref \in Gateway
        BY <2>2 DEF HostedInv, Deliveries, Genuine
      <3>2. \A t \in Txs \ {req[r].ref} : credits'[t] = credits[t] /\ txs'[t] = txs[t]
        BY <1>3, <1>t, <2>2 DEF RecordStep
      <3> QED BY <1>3, <3>1, <3>2, GatewayUnseen DEF RecordStep
    <2> QED BY <1>3, <2>1, <2>2 DEF RecordStep
  <1>4. ASSUME NEW r \in Requests, WebhookCommit(r) PROVE CreditedIsSettled' /\ ChargeStep
    BY <1>4, WebhookCharges
  <1>5. CASE UNCHANGED <<txs, credits, captured>>
    BY <1>5, UnseenStep
  <1>6. ASSUME NEW r \in Requests,
               \/ SettleStart(r) \/ FailStart(r) \/ WebhookStart(r)
               \/ ExtendRead(r) \/ ExtendWrite(r)
        PROVE  UNCHANGED <<txs, credits, captured>>
    BY <1>6 DEF SettleStart, FailStart, WebhookStart, ExtendRead, ExtendWrite, onlineVars
  <1>7. UNCHANGED onlineVars \/ UNCHANGED vars => UNCHANGED <<txs, credits, captured>>
    BY DEF onlineVars, vars
  <1> QED BY <1>1, <1>2, <1>3, <1>4, <1>5, <1>6, <1>7 DEF Next

LEMMA HostedStart == Init => HostedInv
  <1> SUFFICES ASSUME Init PROVE HostedInv
    OBVIOUS
  <1>1. Deliveries
    BY BlankGenuine DEF Init, InitBooks, Deliveries, Genuine, Blank
  <1>2. CreditedIsSettled
    BY TxsAreRefs DEF Init, CreditedIsSettled
  <1> QED BY <1>1, <1>2, InitTyped DEF HostedInv

LEMMA HostedStep == HostedInv /\ [Next]_vars => HostedInv'
  BY StepTyped, StepGenuine, StepCharges DEF HostedInv

\* Whatever cashiers, redirects, cancellations, repeated webhooks and crashes do, a hosted
\* transaction is credited at most once, and only when the provider holds its money.
THEOREM HostedChargesOnce == Spec => HostedSettleOnce
  <1>1. Init => HostedCharges!ChargeInit
    BY TxsAreRefs DEF Init, HostedCharges!ChargeInit
  <1>2. HostedInv /\ [Next]_vars
          => [HostedCharges!ChargeNext]_<<captured \cap Hosted, [t \in Hosted |-> credits[t]]>>
    BY StepCharges DEF ChargeStep, HostedCredits
  <1> QED BY <1>1, <1>2, HostedStart, HostedStep, PTL
      DEF Spec, HostedSettleOnce, HostedCharges!ChargeSpec

-----------------------------------------------------------------------------
(* A gateway transaction is credited once per reopening.  Credits alone    *)
(* are not enough for the induction: a callback that won the claim will    *)
(* credit later, whatever the row says by then.  What it still may do is   *)
(* counted with what was done.                                             *)

\* Callbacks that won the claim on t and have not recorded its payment yet.
Claimed(t) == {r \in Requests : /\ req[r].op = "settle"
                                /\ req[r].ref = t
                                /\ req[r].pc \in {"record_guard", "record_commit"}}

Allowed(t) == reopened[t] + (IF txs[t].status = "SUCCESS" THEN 1 ELSE 0)

CreditsCovered == \A t \in Gateway : credits[t] + Cardinality(Claimed(t)) <= Allowed(t)

GatewayInv == TypeOK /\ Deliveries /\ CreditsCovered

LEMMA ClaimedFinite == \A t : IsFiniteSet(Claimed(t)) /\ Cardinality(Claimed(t)) \in Nat
  <1> SUFFICES ASSUME NEW t PROVE IsFiniteSet(Claimed(t)) /\ Cardinality(Claimed(t)) \in Nat
    OBVIOUS
  <1>1. Claimed(t) \in SUBSET Requests
    BY DEF Claimed
  <1> QED BY <1>1, BooksAssumption, FS_Subset, FS_CardinalityType

LEMMA FewerClaimed ==
  ASSUME TypeOK, NEW t \in Gateway, Claimed(t)' \subseteq Claimed(t),
         credits[t] + Cardinality(Claimed(t)) <= Allowed(t),
         credits'[t] = credits[t], Allowed(t)' = Allowed(t)
  PROVE  credits'[t] + Cardinality(Claimed(t)') <= Allowed(t)'
  <1>1. /\ Cardinality(Claimed(t)') \in Nat /\ Cardinality(Claimed(t)) \in Nat
        /\ Cardinality(Claimed(t)') <= Cardinality(Claimed(t))
    BY ClaimedFinite, FS_Subset, FS_CardinalityType
  <1>2. credits[t] \in Nat /\ reopened[t] \in Nat /\ Allowed(t) \in Nat
    BY TxsAreRefs DEF TypeOK, Allowed
  <1> QED BY <1>1, <1>2

\* The handler that moves is not, or no longer, among the claimed ones.
LEMMA OnlyLess ==
  ASSUME TypeOK, NEW r \in Requests, \A s \in Requests \ {r} : req'[s] = req[s],
         \/ req'[r].op # "settle"
         \/ req'[r].pc \notin {"record_guard", "record_commit"}
  PROVE  \A t : Claimed(t)' = Claimed(t) \ {r}
  BY DEF Claimed

LEMMA OthersStay ==
  ASSUME TypeOK, NEW r \in Requests, NEW h, req' = [req EXCEPT ![r] = h]
  PROVE  req'[r] = h /\ \A s \in Requests \ {r} : req'[s] = req[s]
  BY DEF TypeOK, TypeOKBooks

LEMMA StartMoves ==
  ASSUME TypeOK, NEW r \in Requests, NEW h, req' = [req EXCEPT ![r] = h],
         h.op # "settle" \/ h.pc \notin {"record_guard", "record_commit"}
  PROVE  \A t : Claimed(t)' \subseteq Claimed(t)
  <1>1. req'[r] = h /\ \A s \in Requests \ {r} : req'[s] = req[s]
    BY OthersStay
  <1>2. \A t : Claimed(t)' = Claimed(t) \ {r}
    BY <1>1, OnlyLess
  <1> QED BY <1>2

LEMMA QuietCovered ==
  ASSUME GatewayInv, UNCHANGED credits, \A t \in Gateway : Claimed(t)' \subseteq Claimed(t),
         \A t \in Gateway : Allowed(t)' = Allowed(t)
  PROVE  CreditsCovered'
  <1>1. ASSUME NEW t \in Gateway PROVE credits'[t] + Cardinality(Claimed(t)') <= Allowed(t)'
    BY FewerClaimed DEF GatewayInv, CreditsCovered
  <1> QED BY <1>1 DEF CreditsCovered

\* Goto of a handler, seen from outside.
LEMMA GotoMoves ==
  ASSUME TypeOK, NEW r \in Requests, NEW step, Goto(r, step)
  PROVE  /\ req'[r].op = req[r].op /\ req'[r].ref = req[r].ref /\ req'[r].pc = step
         /\ \A s \in Requests \ {r} : req'[s] = req[s]
  BY DEF Goto, TypeOK, TypeOKBooks, Handlers

LEMMA FinishMoves ==
  ASSUME TypeOK, NEW r \in Requests, Finish(r)
  PROVE  /\ req'[r].op = "none" /\ req'[r].pc = "done"
         /\ \A s \in Requests \ {r} : req'[s] = req[s]
  BY DEF Finish, Blank, TypeOK, TypeOKBooks

LEMMA SettleClaimCovered ==
  ASSUME GatewayInv, NEW r \in Requests, SettleClaim(r)
  PROVE  CreditsCovered'
  <1>g. PICK g \in Gateway : g = req[r].ref
    BY DEF GatewayInv, SettleClaim, At, Deliveries, Genuine
  <1>t. TypeOK /\ txs \in [Txs -> TxRows] /\ g \in Txs
    BY TxsAreRefs DEF GatewayInv, TypeOK
  <1>1. CASE txs[g].status = "SUCCESS"
    <2>1. Finish(r) /\ UNCHANGED <<txs, credits, reopened>>
      BY <1>1, <1>g DEF SettleClaim
    <2>2. \A t : Claimed(t)' \subseteq Claimed(t)
      BY <1>t, <2>1, FinishMoves, OnlyLess
    <2> QED BY <2>1, <2>2, QuietCovered DEF Allowed
  <1>2. CASE txs[g].status # "SUCCESS"
    <2>1. /\ Goto(r, "record_guard") /\ UNCHANGED <<credits, reopened>>
          /\ txs' = [txs EXCEPT ![g].status = "SUCCESS"]
      BY <1>2, <1>g DEF SettleClaim
    <2>2. txs'[g].status = "SUCCESS" /\ \A t \in Txs \ {g} : txs'[t] = txs[t]
      BY <1>t, <2>1 DEF TxRows
    <2>3. \A t : Claimed(t)' \subseteq Claimed(t) \cup {r}
      BY <1>t, <2>1, GotoMoves DEF Claimed
    <2>4. \A t \in Gateway \ {g} : Claimed(t)' = Claimed(t)
      BY <1>g, <1>t, <2>1, GotoMoves DEF Claimed
    <2>5. ASSUME NEW t \in Gateway \ {g}
          PROVE  credits'[t] + Cardinality(Claimed(t)') <= Allowed(t)'
      <3>1. Allowed(t)' = Allowed(t)
        BY <2>1, <2>2, TxsAreRefs DEF Allowed
      <3> QED BY <2>1, <2>4, <3>1 DEF GatewayInv, CreditsCovered
    <2>6. credits'[g] + Cardinality(Claimed(g)') <= Allowed(g)'
      <3>1. /\ IsFiniteSet(Claimed(g)) /\ Cardinality(Claimed(g)) \in Nat
            /\ IsFiniteSet(Claimed(g) \cup {r})
            /\ Cardinality(Claimed(g) \cup {r}) <= Cardinality(Claimed(g)) + 1
        BY ClaimedFinite, FS_AddElement
      <3>2. /\ Cardinality(Claimed(g)') \in Nat
            /\ Cardinality(Claimed(g)') <= Cardinality(Claimed(g) \cup {r})
            /\ Cardinality(Claimed(g) \cup {r}) \in Nat
        BY <2>3, <3>1, FS_Subset, FS_CardinalityType
      <3>3. credits[g] + Cardinality(Claimed(g)) <= reopened[g]
        BY <1>2, <1>t DEF GatewayInv, CreditsCovered, Allowed, TypeOK
      <3>4. credits[g] \in Nat /\ reopened[g] \in Nat
        BY <1>t DEF TypeOK
      <3>5. Allowed(g)' = reopened[g] + 1
        BY <2>1, <2>2 DEF Allowed
      <3> QED BY <2>1, <3>1, <3>2, <3>3, <3>4, <3>5
    <2> QED BY <2>5, <2>6 DEF CreditsCovered
  <1> QED BY <1>1, <1>2

LEMMA RecordCovered ==
  ASSUME GatewayInv, NEW r \in Requests, RecordStep(r)
  PROVE  CreditsCovered'
  <1>t. TypeOK /\ credits \in [Txs -> Nat] /\ \A t : Allowed(t)' = Allowed(t)
    BY DEF GatewayInv, TypeOK, RecordStep, Allowed
  <1>1. CASE RecordStart(r) \/ RecordGuard(r) \/ RecordPost(r)
    <2>1. credits' = credits
      BY <1>1 DEF RecordStep, RecordStart, RecordGuard, RecordPost
    <2>2. CASE RecordStart(r)
      <3>1. PICK amount \in Amounts, method \in Methods, force \in BOOLEAN :
              req' = [req EXCEPT ![r] = [Blank EXCEPT !.pc = "record_guard", !.op = "record",
                        !.amount = amount, !.method = method, !.force = force, !.staff = TRUE]]
        BY <2>2 DEF RecordStart
      <3>2. [Blank EXCEPT !.pc = "record_guard", !.op = "record", !.amount = amount,
               !.method = method, !.force = force, !.staff = TRUE].op # "settle"
        BY DEF Blank
      <3>3. \A t : Claimed(t)' \subseteq Claimed(t)
        BY <1>t, <3>1, <3>2, StartMoves
      <3> QED BY <1>t, <2>1, <3>3, QuietCovered
    <2>3. CASE RecordGuard(r)
      <3>1. CASE Finish(r)
        <4>1. \A t : Claimed(t)' \subseteq Claimed(t)
          BY <1>t, <3>1, FinishMoves, OnlyLess
        <4> QED BY <1>t, <2>1, <4>1, QuietCovered
      <3>2. CASE Goto(r, "record_commit")
        <4>1. \A t : Claimed(t)' \subseteq Claimed(t)
          BY <1>t, <2>3, <3>2, GotoMoves DEF Claimed, RecordGuard, At
        <4> QED BY <1>t, <2>1, <4>1, QuietCovered
      <3> QED BY <2>3, <3>1, <3>2 DEF RecordGuard
    <2>4. CASE RecordPost(r)
      <3>1. Finish(r) \/ Goto(r, "extend_read")
        BY <2>4 DEF RecordPost
      <3>2. \A t : Claimed(t)' \subseteq Claimed(t)
        BY <1>t, <3>1, FinishMoves, GotoMoves, OnlyLess
      <3> QED BY <1>t, <2>1, <3>2, QuietCovered
    <2> QED BY <1>1, <2>2, <2>3, <2>4
  <1>2. CASE RecordCommit(r)
    <2>1. /\ req'[r].pc \in {"record_post", "done"}
          /\ \A s \in Requests \ {r} : req'[s] = req[s]
      <3>1. CASE Finish(r)
        BY <1>t, <3>1, FinishMoves
      <3>2. ASSUME NEW p \in PaymentIds, req' = [req EXCEPT ![r].pc = "record_post", ![r].pay = p]
            PROVE  /\ req'[r].pc = "record_post"
                   /\ \A s \in Requests \ {r} : req'[s] = req[s]
        BY <1>t, <3>2 DEF TypeOK, TypeOKBooks, Handlers
      <3> QED BY <1>2, <3>1, <3>2 DEF RecordCommit
    <2>2. \A t : Claimed(t)' = Claimed(t) \ {r}
      BY <1>t, <2>1, OnlyLess
    <2>3. CASE credits' = credits
      BY <1>t, <2>2, <2>3, QuietCovered
    <2>4. CASE req[r].op = "settle" /\ credits' = [credits EXCEPT ![req[r].ref] = @ + 1]
      <3>1. PICK g \in Gateway : g = req[r].ref
        BY <2>4 DEF GatewayInv, Deliveries, Genuine
      <3>2. /\ \A t \in Gateway \ {g} : credits'[t] = credits[t]
            /\ credits'[g] = credits[g] + 1 /\ credits[g] \in Nat
        BY <1>t, <2>4, <3>1, TxsAreRefs
      <3>3. ASSUME NEW t \in Gateway \ {g}
            PROVE  credits'[t] + Cardinality(Claimed(t)') <= Allowed(t)'
        <4>1. Claimed(t)' \subseteq Claimed(t)
          BY <2>2
        <4> QED BY <1>t, <3>2, <4>1, FewerClaimed DEF GatewayInv, CreditsCovered
      <3>4. credits'[g] + Cardinality(Claimed(g)') <= Allowed(g)'
        <4>1. r \in Claimed(g)
          BY <1>2, <2>4, <3>1 DEF Claimed, RecordCommit, At
        <4>2. /\ Cardinality(Claimed(g)') = Cardinality(Claimed(g)) - 1
              /\ Cardinality(Claimed(g)) \in Nat
          BY <2>2, <4>1, ClaimedFinite, FS_RemoveElement
        <4>3. credits[g] + Cardinality(Claimed(g)) <= Allowed(g) /\ Allowed(g)' = Allowed(g)
          BY <1>t DEF GatewayInv, CreditsCovered
        <4>4. Allowed(g) \in Nat
          BY TxsAreRefs DEF GatewayInv, TypeOK, Allowed
        <4> QED BY <3>2, <4>2, <4>3, <4>4
      <3> QED BY <3>3, <3>4 DEF CreditsCovered
    <2> QED BY <2>3, <2>4 DEF RecordStep
  <1> QED BY <1>1, <1>2 DEF RecordStep, Record

LEMMA FailWriteCovered ==
  ASSUME GatewayInv, NEW r \in Requests, FailWrite(r)
  PROVE  CreditsCovered'
  <1>g. PICK g \in Gateway : g = req[r].ref
    BY DEF GatewayInv, FailWrite, At, Deliveries, Genuine
  <1>t. /\ TypeOK /\ txs \in [Txs -> TxRows] /\ reopened \in [Txs -> Nat]
        /\ g \in Txs /\ Gateway \subseteq Txs
    BY TxsAreRefs DEF GatewayInv, TypeOK
  <1>1. /\ Finish(r) /\ credits' = credits
        /\ txs' = [txs EXCEPT ![g].status = "FAILED"]
        /\ reopened' = IF txs[g].status = "SUCCESS" THEN [reopened EXCEPT ![g] = @ + 1] ELSE reopened
    BY <1>g DEF FailWrite
  <1>2. \A t : Claimed(t)' \subseteq Claimed(t)
    BY <1>t, <1>1, FinishMoves, OnlyLess
  <1>3. ASSUME NEW t \in Gateway PROVE Allowed(t)' = Allowed(t)
    <2>1. CASE t = g
      <3>1. txs'[g].status = "FAILED"
        BY <1>t, <1>1 DEF TxRows
      <3> QED BY <1>t, <1>1, <2>1, <3>1 DEF Allowed
    <2>2. CASE t # g
      BY <1>t, <1>1, <2>2 DEF Allowed
    <2> QED BY <2>1, <2>2
  <1> QED BY <1>1, <1>2, <1>3, QuietCovered

LEMMA WebhookCovered ==
  ASSUME GatewayInv, NEW r \in Requests, WebhookCommit(r)
  PROVE  CreditsCovered'
  <1>t. /\ TypeOK /\ txs \in [Txs -> TxRows] /\ credits \in [Txs -> Nat]
        /\ req[r].ref \in Hosted
    BY DEF GatewayInv, TypeOK, WebhookCommit, At, Deliveries, Genuine
  <1>1. \A t \in Gateway : t \in Txs /\ t # req[r].ref
    BY <1>t, OnlineAssumption DEF Txs
  <1>2. \A t \in Gateway : credits'[t] = credits[t] /\ txs'[t] = txs[t] /\ reopened'[t] = reopened[t]
    BY <1>t, <1>1 DEF WebhookCommit, Settles
  <1>3. Finish(r)
    BY DEF WebhookCommit
  <1>4. \A t : Claimed(t)' \subseteq Claimed(t)
    BY <1>t, <1>3, FinishMoves, OnlyLess
  <1>5. ASSUME NEW t \in Gateway PROVE credits'[t] + Cardinality(Claimed(t)') <= Allowed(t)'
    <2>1. Allowed(t)' = Allowed(t)
      BY <1>2 DEF Allowed
    <2> QED BY <1>t, <1>2, <1>4, <2>1, FewerClaimed DEF GatewayInv, CreditsCovered
  <1> QED BY <1>5 DEF CreditsCovered

LEMMA StartCovered ==
  ASSUME GatewayInv, NEW r \in Requests, SettleStart(r) \/ FailStart(r) \/ WebhookStart(r)
  PROVE  CreditsCovered'
  <1>t. TypeOK
    BY DEF GatewayInv
  <1>1. UNCHANGED onlineVars
    BY DEF SettleStart, FailStart, WebhookStart
  <1>2. \A t : Claimed(t)' \subseteq Claimed(t)
    <2>1. CASE SettleStart(r)
      <3>1. PICK t \in Gateway \cap captured :
              req' = [req EXCEPT ![r] = [Blank EXCEPT !.pc = "settle_claim", !.op = "settle",
                        !.ref = t, !.amount = txs[t].amount, !.method = "ONLINE"]]
        BY <2>1 DEF SettleStart
      <3>2. [Blank EXCEPT !.pc = "settle_claim", !.op = "settle", !.ref = t,
               !.amount = txs[t].amount, !.method = "ONLINE"].pc = "settle_claim"
        BY DEF Blank
      <3> QED BY <1>t, <3>1, <3>2, StartMoves
    <2>2. CASE FailStart(r)
      <3>1. PICK t \in Gateway :
              req' = [req EXCEPT ![r] = [Blank EXCEPT !.pc = "fail_write", !.op = "fail", !.ref = t]]
        BY <2>2 DEF FailStart
      <3>2. [Blank EXCEPT !.pc = "fail_write", !.op = "fail", !.ref = t].pc = "fail_write"
        BY DEF Blank
      <3> QED BY <1>t, <3>1, <3>2, StartMoves
    <2>3. CASE WebhookStart(r)
      <3>1. PICK t \in Hosted, success \in BOOLEAN :
              req' = [req EXCEPT ![r] = [Blank EXCEPT !.pc = "webhook_commit", !.op = "webhook",
                        !.ref = t, !.amount = txs[t].amount, !.method = "ONLINE", !.success = success]]
        BY <2>3 DEF WebhookStart
      <3>2. [Blank EXCEPT !.pc = "webhook_commit", !.op = "webhook", !.ref = t,
               !.amount = txs[t].amount, !.method = "ONLINE", !.success = success].pc = "webhook_commit"
        BY DEF Blank
      <3> QED BY <1>t, <3>1, <3>2, StartMoves
    <2> QED BY <2>1, <2>2, <2>3
  <1> QED BY <1>1, <1>2, QuietCovered DEF onlineVars, Allowed

LEMMA CheckoutCovered ==
  ASSUME GatewayInv, NEW t \in Txs, Initiate(t) \/ CreateCheckout(t) \/ CustomerPays(t)
  PROVE  CreditsCovered'
  <1>1. \A g \in Txs : txs'[g].status = txs[g].status
                         \/ (txs[g].status = "none" /\ txs'[g].status # "SUCCESS")
    BY DEF GatewayInv, TypeOK, TxRows, Initiate, CreateCheckout, CustomerPays
  <1>2. UNCHANGED <<req, credits, reopened>>
    BY DEF Initiate, CreateCheckout, CustomerPays, bookVars
  <1>3. \A g \in Gateway : Allowed(g)' = Allowed(g)
    BY <1>1, <1>2, TxsAreRefs DEF Allowed
  <1> QED BY <1>2, <1>3, QuietCovered DEF Claimed

LEMMA StepCovered == GatewayInv /\ [Next]_vars => CreditsCovered'
  <1> SUFFICES ASSUME GatewayInv, [Next]_vars PROVE CreditsCovered'
    OBVIOUS
  <1>t. TypeOK
    BY DEF GatewayInv
  <1>1. ASSUME NEW t \in Txs, Initiate(t) \/ CreateCheckout(t) \/ CustomerPays(t)
        PROVE  CreditsCovered'
    BY <1>1, CheckoutCovered
  <1>2. ASSUME NEW r \in Requests, SettleStart(r) \/ FailStart(r) \/ WebhookStart(r)
        PROVE  CreditsCovered'
    BY <1>2, StartCovered
  <1>3. ASSUME NEW r \in Requests, SettleClaim(r) \/ RecordStep(r) \/ FailWrite(r) \/ WebhookCommit(r)
        PROVE  CreditsCovered'
    BY <1>3, SettleClaimCovered, RecordCovered, FailWriteCovered, WebhookCovered
  <1>4. ASSUME NEW r \in Requests, ExtendRead(r) \/ ExtendWrite(r) PROVE CreditsCovered'
    <2>1. UNCHANGED <<txs, credits, reopened>>
      BY <1>4 DEF ExtendRead, ExtendWrite
    <2>2. Goto(r, "extend_write") \/ Finish(r)
      BY <1>4 DEF ExtendRead, ExtendWrite
    <2>3. \A t : Claimed(t)' \subseteq Claimed(t)
      BY <1>t, <2>2, GotoMoves, FinishMoves, OnlyLess
    <2> QED BY <2>1, <2>3, QuietCovered DEF Allowed
  <1>5. ASSUME NEW r \in Requests, Crash(r), UNCHANGED onlineVars PROVE CreditsCovered'
    <2>1. req'[r].pc = "crashed" /\ \A s \in Requests \ {r} : req'[s] = req[s]
      BY <1>t, <1>5 DEF Crash, TypeOK, TypeOKBooks, Handlers
    <2>2. \A t : Claimed(t)' \subseteq Claimed(t)
      BY <1>t, <2>1, OnlyLess
    <2> QED BY <1>5, <2>2, QuietCovered DEF onlineVars, Allowed
  <1>6. CASE UNCHANGED <<req, txs, credits, reopened>>
    BY <1>6, QuietCovered DEF Claimed, Allowed
  <1>7. ASSUME NEW p \in PaymentIds, WindowPasses(p), UNCHANGED onlineVars
        PROVE  UNCHANGED <<req, txs, credits, reopened>>
    BY <1>7 DEF WindowPasses, onlineVars
  <1>8. UNCHANGED vars => UNCHANGED <<req, txs, credits, reopened>>
    BY DEF vars
  <1> QED BY <1>1, <1>2, <1>3, <1>4, <1>5, <1>6, <1>7, <1>8 DEF Next

LEMMA GatewayStart == Init => GatewayInv
  <1> SUFFICES ASSUME Init PROVE GatewayInv
    OBVIOUS
  <1>1. ASSUME NEW t \in Gateway PROVE credits[t] + Cardinality(Claimed(t)) <= Allowed(t)
    <2>1. Claimed(t) = {}
      BY DEF Init, InitBooks, Claimed, Blank
    <2>2. credits[t] = 0 /\ Allowed(t) = 0
      BY TxsAreRefs DEF Init, Allowed
    <2> QED BY <2>1, <2>2, FS_EmptySet
  <1> QED BY <1>1, HostedStart, InitTyped DEF HostedInv, GatewayInv, CreditsCovered

LEMMA GatewayStep == GatewayInv /\ [Next]_vars => GatewayInv'
  BY StepTyped, StepGenuine, StepCovered DEF GatewayInv

\* However often redirects, notifications and cancellations of a gateway transaction arrive,
\* in whatever order, and wherever a callback dies, its payment is recorded once and at most
\* once more for each time handleFailure took it out of SUCCESS.
THEOREM CreditsPerReopening == Spec => []CreditsNeedReopening
  <1>1. GatewayInv => CreditsNeedReopening
    <2> SUFFICES ASSUME GatewayInv, NEW t \in Gateway PROVE credits[t] <= 1 + reopened[t]
      BY DEF CreditsNeedReopening
    <2>1. credits[t] + Cardinality(Claimed(t)) <= Allowed(t)
      BY DEF GatewayInv, CreditsCovered
    <2>2. Cardinality(Claimed(t)) \in Nat /\ credits[t] \in Nat /\ reopened[t] \in Nat
      BY ClaimedFinite, TxsAreRefs DEF GatewayInv, TypeOK
    <2> QED BY <2>1, <2>2 DEF Allowed
  <1> QED BY <1>1, GatewayStart, GatewayStep, PTL DEF Spec

-----------------------------------------------------------------------------
(* The money on the invoice.  Every step either leaves the invoice and its *)
(* payments as they were, or adds one payment to both.                     *)

\* What any step does to the invoice and its payments.
MoneyStays ==
  /\ invoice' = invoice
  /\ NetOf' = NetOf
  /\ StaffTakings' = StaffTakings

MoneyComes(r, p) ==
  /\ payments[p].st = "none"
  /\ payments' = [payments EXCEPT ![p] = NewPayment(r)]
  /\ invoice'.paid = invoice.paid + req[r].amount
  /\ req[r].staff => MayTake(invoice, req[r].amount)

MoneyStep == MoneyStays \/ \E r \in Requests, p \in PaymentIds : MoneyComes(r, p)

LEMMA MoneyUnchanged == UNCHANGED <<invoice, payments>> => MoneyStays
  BY DEF MoneyStays, NetOf, StaffTakings, Kept

LEMMA RecordMoney ==
  ASSUME TypeOK, NEW r \in Requests, Record(r)
  PROVE  MoneyStep
  <1>1. CASE RecordStart(r) \/ RecordGuard(r) \/ RecordPost(r)
    BY <1>1, MoneyUnchanged DEF RecordStart, RecordGuard, RecordPost, MoneyStep
  <1>2. CASE RecordCommit(r)
    <2>1. PICK p \in PaymentIds :
            /\ payments[p].st = "none"
            /\ IF req[r].staff => MayTake(invoice, req[r].amount)
               THEN /\ payments' = [payments EXCEPT ![p] = NewPayment(r)]
                    /\ invoice' = Settle(invoice, invoice.paid + req[r].amount,
                                    IF invoice.paid + req[r].amount >= Total THEN "PAID" ELSE "PARTIAL")
               ELSE UNCHANGED <<invoice, payments>>
      BY <1>2 DEF RecordCommit
    <2>2. CASE req[r].staff => MayTake(invoice, req[r].amount)
      <3>1. invoice'.paid = invoice.paid + req[r].amount
        BY <2>1, <2>2 DEF Settle, TypeOK, TypeOKBooks, InvoiceRows
      <3> QED BY <2>1, <2>2, <3>1 DEF MoneyStep, MoneyComes
    <2>3. CASE ~(req[r].staff => MayTake(invoice, req[r].amount))
      BY <2>1, <2>3, MoneyUnchanged DEF MoneyStep
    <2> QED BY <2>2, <2>3
  <1> QED BY <1>1, <1>2 DEF Record

LEMMA WebhookMoney ==
  ASSUME TypeOK, Deliveries, NEW r \in Requests, WebhookCommit(r)
  PROVE  MoneyStep
  <1>1. ASSUME Settles(r, req[r].ref, invoice.paid + req[r].amount) PROVE MoneyStep
    <2>1. PICK p \in PaymentIds : /\ payments[p].st = "none"
                                  /\ payments' = [payments EXCEPT ![p] = NewPayment(r)]
      BY <1>1 DEF Settles
    <2>2. invoice'.paid = invoice.paid + req[r].amount
      BY <1>1 DEF Settles, Settle, TypeOK, TypeOKBooks, InvoiceRows
    <2>3. ~req[r].staff
      BY DEF WebhookCommit, At, Deliveries, Genuine
    <2> QED BY <2>1, <2>2, <2>3 DEF MoneyStep, MoneyComes
  <1> QED BY <1>1, MoneyUnchanged DEF WebhookCommit, MoneyStep

LEMMA WindowMoney ==
  ASSUME TypeOK, NEW p \in PaymentIds, WindowPasses(p)
  PROVE  MoneyStep
  <1>1. \A q \in PaymentIds :
          /\ payments'[q].st = payments[q].st /\ payments'[q].amount = payments[q].amount
          /\ payments'[q].refunded = payments[q].refunded /\ payments'[q].staff = payments[q].staff
    BY DEF WindowPasses, TypeOK, TypeOKBooks, PaymentRows
  <1>2. NetOf' = NetOf /\ StaffTakings' = StaffTakings
    BY <1>1 DEF NetOf, StaffTakings, Kept
  <1> QED BY <1>2 DEF WindowPasses, MoneyStep, MoneyStays

LEMMA StepMoney == TypeOK /\ Deliveries /\ [Next]_vars => MoneyStep
  <1> SUFFICES ASSUME TypeOK, Deliveries, [Next]_vars PROVE MoneyStep
    OBVIOUS
  <1>1. CASE UNCHANGED <<invoice, payments>>
    BY <1>1, MoneyUnchanged DEF MoneyStep
  <1>2. ASSUME NEW t \in Txs, Initiate(t) \/ CreateCheckout(t) \/ CustomerPays(t)
        PROVE  UNCHANGED <<invoice, payments>>
    BY <1>2 DEF Initiate, CreateCheckout, CustomerPays, bookVars
  <1>3. ASSUME NEW r \in Requests,
               \/ SettleStart(r) \/ SettleClaim(r) \/ ExtendRead(r) \/ ExtendWrite(r)
               \/ FailStart(r) \/ FailWrite(r) \/ WebhookStart(r) \/ Crash(r)
        PROVE  UNCHANGED <<invoice, payments>>
    BY <1>3 DEF SettleStart, SettleClaim, ExtendRead, ExtendWrite, FailStart, FailWrite,
       WebhookStart, Crash
  <1>4. ASSUME NEW r \in Requests, RecordStep(r) \/ WebhookCommit(r) PROVE MoneyStep
    BY <1>4, RecordMoney, WebhookMoney DEF RecordStep
  <1>5. ASSUME NEW p \in PaymentIds, WindowPasses(p) PROVE MoneyStep
    BY <1>5, WindowMoney
  <1>6. UNCHANGED vars => UNCHANGED <<invoice, payments>>
    BY DEF vars
  <1> QED BY <1>1, <1>2, <1>3, <1>4, <1>5, <1>6 DEF Next

\* What cashiers took is part of what was paid, and within the total.
StaffPart == SumFunctionOnSet(StaffTakings, PaymentIds)

StaffCovered == StaffPart <= invoice.paid /\ StaffWithinTotal

MoneyInv == TypeOK /\ Deliveries /\ PaidIsThePayments /\ StaffCovered

LEMMA StaffPartChange ==
  ASSUME NEW p \in PaymentIds,
         \A q \in PaymentIds : StaffTakings[q] \in Int /\ StaffTakings'[q] \in Int,
         \A q \in PaymentIds \ {p} : StaffTakings'[q] = StaffTakings[q]
  PROVE  StaffPart \in Int /\ StaffPart' = StaffPart - StaffTakings[p] + StaffTakings'[p]
  <1>1. IsFiniteSet(PaymentIds)
    BY BooksAssumption
  <1>2. PICK f, h : f = StaffTakings /\ h = StaffTakings'
    OBVIOUS
  <1>3. SumFunctionOnSet(h, PaymentIds) = SumFunctionOnSet(f, PaymentIds) - f[p] + h[p]
    BY <1>1, <1>2, SumChange
  <1>4. SumFunctionOnSet(f, PaymentIds) \in Int
    BY <1>1, <1>2, SumType
  <1> QED BY <1>2, <1>3, <1>4 DEF StaffPart

LEMMA MoneyComesKeeps ==
  ASSUME MoneyInv, NEW r \in Requests, NEW p \in PaymentIds, MoneyComes(r, p)
  PROVE  PaidIsThePayments' /\ StaffCovered'
  <1>t. /\ TypeOKBooks /\ req[r] \in Handlers /\ req[r].amount \in Nat /\ invoice.paid \in Int
        /\ Total \in Nat /\ Slack \in Nat
    BY BooksAssumption DEF MoneyInv, TypeOK, TypeOKBooks, Handlers, InvoiceRows
  <1>1. NetPayments' = NetPayments + req[r].amount
    BY <1>t, NewPaymentCounts DEF MoneyComes
  <1>2. PaidIsThePayments'
    BY <1>1 DEF MoneyInv, PaidIsThePayments, MoneyComes
  <1>3. /\ StaffTakings[p] = 0
        /\ StaffTakings'[p] = IF req[r].staff THEN req[r].amount ELSE 0
        /\ \A q \in PaymentIds \ {p} : StaffTakings'[q] = StaffTakings[q]
    BY <1>t DEF MoneyComes, StaffTakings, Kept, NewPayment, TypeOKBooks, PaymentRows, Handlers
  <1>4. \A q \in PaymentIds : StaffTakings[q] \in Int
    BY <1>t DEF StaffTakings, TypeOKBooks, PaymentRows
  <1>5. \A q \in PaymentIds : StaffTakings'[q] \in Int
    BY <1>t, <1>3, <1>4
  <1>6. /\ StaffPart \in Int
        /\ StaffPart' = StaffPart + (IF req[r].staff THEN req[r].amount ELSE 0)
    <2>1. StaffPart \in Int /\ StaffPart' = StaffPart - StaffTakings[p] + StaffTakings'[p]
      BY <1>3, <1>4, <1>5, StaffPartChange
    <2> QED BY <1>t, <1>3, <2>1
  <1>7. StaffPart' <= invoice'.paid
    BY <1>t, <1>6 DEF MoneyInv, StaffCovered, MoneyComes
  <1>8. StaffPart' <= Total + Slack
    <2>1. CASE req[r].staff
      <3>1. req[r].amount <= Total - invoice.paid + Slack
        BY <1>t, <2>1 DEF MoneyComes, MayTake, Owed, Floor0
      <3> QED BY <1>t, <1>6, <2>1, <3>1 DEF MoneyInv, StaffCovered
    <2>2. CASE ~req[r].staff
      BY <1>t, <1>6, <2>2 DEF MoneyInv, StaffCovered, StaffWithinTotal, StaffPart
    <2> QED BY <2>1, <2>2
  <1> QED BY <1>2, <1>7, <1>8 DEF StaffCovered, StaffWithinTotal, StaffPart

LEMMA StepKeepsMoney == MoneyInv /\ [Next]_vars => MoneyInv'
  <1> SUFFICES ASSUME MoneyInv, [Next]_vars PROVE MoneyInv'
    OBVIOUS
  <1>1. TypeOK' /\ Deliveries' /\ MoneyStep
    BY StepTyped, StepGenuine, StepMoney DEF MoneyInv
  <1>2. CASE MoneyStays
    BY <1>1, <1>2 DEF MoneyInv, MoneyStays, PaidIsThePayments, NetPayments, StaffCovered,
       StaffPart, StaffWithinTotal
  <1>3. ASSUME NEW r \in Requests, NEW p \in PaymentIds, MoneyComes(r, p) PROVE MoneyInv'
    BY <1>1, <1>3, MoneyComesKeeps DEF MoneyInv
  <1> QED BY <1>1, <1>2, <1>3 DEF MoneyStep

LEMMA MoneyAtStart == Init => MoneyInv
  <1> SUFFICES ASSUME Init PROVE MoneyInv
    OBVIOUS
  <1>1. \A p \in PaymentIds : NetOf[p] = 0 /\ StaffTakings[p] = 0
    BY DEF Init, InitBooks, NoRow, NetOf, StaffTakings, Kept
  <1>2. PICK f, h : f = NetOf /\ h = StaffTakings
    OBVIOUS
  <1>3. SumFunctionOnSet(f, PaymentIds) = 0 /\ SumFunctionOnSet(h, PaymentIds) = 0
    BY <1>1, <1>2, BooksAssumption, SumZero
  <1>4. invoice.paid = 0
    BY DEF Init, InitBooks, NewInvoice
  <1> QED BY <1>2, <1>3, <1>4, HostedStart, BooksAssumption
      DEF MoneyInv, HostedInv, PaidIsThePayments, NetPayments, StaffCovered, StaffPart, StaffWithinTotal

\* However cashiers, gateway callbacks, webhooks and deaths of handlers interleave, the
\* invoice says in every state what its payments add up to: the lock in recordPayment and
\* the increment in handleWebhook lose no update of each other.
THEOREM PaidMatchesPayments == Spec => []PaidIsThePayments
  <1>1. MoneyInv => PaidIsThePayments
    BY DEF MoneyInv
  <1> QED BY <1>1, MoneyAtStart, StepKeepsMoney, PTL DEF Spec

\* However many cashiers take money at once, and whatever callbacks add in between, what
\* the cashiers took stays within the total and the tolerance.
THEOREM StaffTakeNoMoreThanTotal == Spec => []StaffWithinTotal
  <1>1. MoneyInv => StaffWithinTotal
    BY DEF MoneyInv, StaffCovered
  <1> QED BY <1>1, MoneyAtStart, StepKeepsMoney, PTL DEF Spec

-----------------------------------------------------------------------------
(* Service periods against recorded payments.  Periods alone are not       *)
(* enough for the induction: a callback that recorded its payment will     *)
(* extend the service later, from a reading that others overtake.  What it *)
(* is still entitled to is counted with what was granted.                  *)

\* Callbacks that recorded a payment and have not extended the service for it yet.
Entitled == [r \in Requests |->
               IF \/ req[r].pc = "record_post" /\ req[r].op = "settle"
                  \/ req[r].pc \in {"extend_read", "extend_write"}
               THEN 1 ELSE 0]

Promised == SumFunctionOnSet(Entitled, Requests)

Credited == SumFunctionOnSet(credits, Gateway)

ServiceCovered ==
  /\ Floor0(periods) + Promised <= Credited
  /\ \A r \in Requests : req[r].pc = "extend_write" => held[r] + Promised <= Credited

ServiceInv == TypeOK /\ Deliveries /\ ServiceCovered

LEMMA SumsTyped ==
  ASSUME TypeOK
  PROVE  /\ Promised \in Nat /\ Credited \in Nat
         /\ \A r \in Requests : Entitled[r] \in {0, 1}
  <1>1. IsFiniteSet(Requests) /\ IsFiniteSet(Gateway)
    BY BooksAssumption, OnlineAssumption
  <1>2. \A r \in Requests : Entitled[r] \in {0, 1}
    BY DEF Entitled
  <1>3. \A r \in Requests : Entitled[r] \in Nat
    BY <1>2
  <1>4. PICK f : f = Entitled
    OBVIOUS
  <1>5. SumFunctionOnSet(f, Requests) \in Nat
    BY <1>1, <1>3, <1>4, SumNat
  <1>6. \A t \in Gateway : credits[t] \in Nat
    BY TxsAreRefs DEF TypeOK
  <1>7. PICK g : g = credits
    OBVIOUS
  <1>8. SumFunctionOnSet(g, Gateway) \in Nat
    BY <1>1, <1>6, <1>7, SumNat
  <1> QED BY <1>2, <1>4, <1>5, <1>7, <1>8 DEF Promised, Credited

\* Only handler r moves.
LEMMA PromisedChange ==
  ASSUME NEW r \in Requests, \A s \in Requests \ {r} : req'[s] = req[s]
  PROVE  Promised' = Promised - Entitled[r] + Entitled'[r]
  <1>1. IsFiniteSet(Requests)
    BY BooksAssumption
  <1>2. PICK f, h : f = Entitled /\ h = Entitled'
    OBVIOUS
  <1>3. /\ \A s \in Requests : f[s] \in Int /\ h[s] \in Int
        /\ \A s \in Requests \ {r} : h[s] = f[s]
    BY <1>2 DEF Entitled
  <1>4. SumFunctionOnSet(h, Requests) = SumFunctionOnSet(f, Requests) - f[r] + h[r]
    BY <1>1, <1>3, SumChange
  <1> QED BY <1>2, <1>4 DEF Promised

LEMMA SumUp ==
  ASSUME NEW S, IsFiniteSet(S), NEW f, NEW h, NEW x \in S,
         \A y \in S : f[y] \in Int /\ h[y] \in Int,
         \A y \in S \ {x} : h[y] = f[y],
         h[x] = f[x] + 1
  PROVE  SumFunctionOnSet(h, S) = SumFunctionOnSet(f, S) + 1
  <1>1. SumFunctionOnSet(h, S) = SumFunctionOnSet(f, S) - f[x] + h[x]
    BY SumChange
  <1>2. SumFunctionOnSet(f, S) \in Int
    BY SumType
  <1>3. f[x] \in Int
    OBVIOUS
  <1> QED BY <1>1, <1>2, <1>3

LEMMA CreditedChange ==
  ASSUME TypeOK, NEW t \in Gateway, credits' = [credits EXCEPT ![t] = @ + 1]
  PROVE  Credited' = Credited + 1
  <1>1. IsFiniteSet(Gateway) /\ Gateway \subseteq Txs
    BY OnlineAssumption, TxsAreRefs
  <1>2. PICK f, h : f = credits /\ h = credits'
    OBVIOUS
  <1>3. \A s \in Gateway : f[s] \in Int /\ h[s] \in Int
    BY <1>1, <1>2 DEF TypeOK
  <1>4. \A s \in Gateway \ {t} : h[s] = f[s]
    BY <1>1, <1>2 DEF TypeOK
  <1>5. h[t] = f[t] + 1
    BY <1>1, <1>2 DEF TypeOK
  <1>6. SumFunctionOnSet(h, Gateway) = SumFunctionOnSet(f, Gateway) + 1
    BY <1>1, <1>3, <1>4, <1>5, SumUp
  <1> QED BY <1>2, <1>6 DEF Credited

LEMMA CreditedSame ==
  ASSUME TypeOK, \A t \in Gateway : credits'[t] = credits[t]
  PROVE  Credited' = Credited
  <1>1. IsFiniteSet(Gateway) /\ \A t \in Gateway : credits[t] \in Int
    BY OnlineAssumption, TxsAreRefs DEF TypeOK
  <1>2. PICK f, h : f = credits /\ h = credits'
    OBVIOUS
  <1>3. SumFunctionOnSet(f, Gateway) = SumFunctionOnSet(h, Gateway)
    BY <1>1, <1>2, SumSame
  <1> QED BY <1>2, <1>3 DEF Credited

\* A step of r that grants nothing new.
LEMMA QuietService ==
  ASSUME ServiceInv, NEW r \in Requests, \A s \in Requests \ {r} : req'[s] = req[s],
         req'[r].pc # "extend_write", Entitled'[r] <= Entitled[r],
         UNCHANGED <<periods, held>>, Credited' = Credited
  PROVE  ServiceCovered'
  <1>1. /\ Promised \in Nat /\ Credited \in Nat /\ Entitled[r] \in {0, 1}
        /\ Promised' = Promised - Entitled[r] + Entitled'[r]
    BY SumsTyped, PromisedChange DEF ServiceInv
  <1>2. Entitled'[r] \in {0, 1}
    BY DEF Entitled
  <1>3. Promised' <= Promised /\ Promised' \in Int
    BY <1>1, <1>2
  <1>4. Floor0(periods) \in Nat /\ \A s \in Requests : held[s] \in Nat
    BY DEF ServiceInv, TypeOK, Floor0
  <1>5. Floor0(periods') + Promised' <= Credited'
    BY <1>1, <1>3, <1>4 DEF ServiceInv, ServiceCovered
  <1>6. ASSUME NEW s \in Requests, req'[s].pc = "extend_write"
        PROVE  held'[s] + Promised' <= Credited'
    <2>1. s # r /\ req[s].pc = "extend_write"
      BY <1>6
    <2>2. held[s] + Promised <= Credited /\ held'[s] = held[s]
      BY <2>1 DEF ServiceInv, ServiceCovered
    <2> QED BY <1>1, <1>3, <1>4, <2>2
  <1> QED BY <1>5, <1>6 DEF ServiceCovered

\* What is not in the second half of a settlement is entitled to nothing.
LEMMA NotEntitled ==
  ASSUME NEW r \in Requests, req'[r].pc \notin {"extend_read", "extend_write"},
         req'[r].pc # "record_post" \/ req'[r].op # "settle"
  PROVE  Entitled'[r] <= Entitled[r]
  BY DEF Entitled

LEMMA StartService ==
  ASSUME ServiceInv, NEW r \in Requests, NEW h, req' = [req EXCEPT ![r] = h],
         h.pc \in {"record_guard", "settle_claim", "fail_write", "webhook_commit"},
         UNCHANGED <<periods, held, credits>>
  PROVE  ServiceCovered'
  <1>1. req'[r] = h /\ \A s \in Requests \ {r} : req'[s] = req[s]
    BY OthersStay DEF ServiceInv
  <1>2. Entitled'[r] <= Entitled[r]
    BY <1>1, NotEntitled
  <1> QED BY <1>1, <1>2, QuietService, CreditedSame DEF ServiceInv

LEMMA FinishService ==
  ASSUME ServiceInv, NEW r \in Requests, Finish(r),
         UNCHANGED <<periods, held>>, Credited' = Credited
  PROVE  ServiceCovered'
  <1>1. /\ req'[r].op = "none" /\ req'[r].pc = "done"
        /\ \A s \in Requests \ {r} : req'[s] = req[s]
    BY FinishMoves DEF ServiceInv
  <1>2. Entitled'[r] <= Entitled[r]
    BY <1>1, NotEntitled
  <1> QED BY <1>1, <1>2, QuietService

LEMMA GotoService ==
  ASSUME ServiceInv, NEW r \in Requests, NEW step \in {"record_guard", "record_commit"},
         Goto(r, step), UNCHANGED <<periods, held>>, Credited' = Credited
  PROVE  ServiceCovered'
  <1>1. req'[r].pc = step /\ \A s \in Requests \ {r} : req'[s] = req[s]
    BY GotoMoves DEF ServiceInv
  <1>2. Entitled'[r] <= Entitled[r]
    BY <1>1, NotEntitled
  <1> QED BY <1>1, <1>2, QuietService

\* The payment is recorded: one more credit, and one more entitled if a callback did it.
LEMMA CommitService ==
  ASSUME ServiceInv, NEW r \in Requests, RecordCommit(r), RecordStep(r)
  PROVE  ServiceCovered'
  <1>t. TypeOK /\ UNCHANGED <<periods, held>>
    BY DEF ServiceInv, RecordStep
  <1>1. PICK p \in PaymentIds :
          /\ payments[p].st = "none"
          /\ IF req[r].staff => MayTake(invoice, req[r].amount)
             THEN /\ payments' = [payments EXCEPT ![p] = NewPayment(r)]
                  /\ req' = [req EXCEPT ![r].pc = "record_post", ![r].pay = p]
             ELSE Finish(r) /\ UNCHANGED payments
    BY DEF RecordCommit
  <1>2. CASE Finish(r) /\ payments' = payments
    <2>1. credits' = credits
      BY <1>2 DEF RecordStep
    <2> QED BY <1>t, <1>2, <2>1, FinishService, CreditedSame
  <1>3. CASE /\ payments' = [payments EXCEPT ![p] = NewPayment(r)]
             /\ req' = [req EXCEPT ![r].pc = "record_post", ![r].pay = p]
    <2>1. /\ req'[r].pc = "record_post" /\ req'[r].op = req[r].op
          /\ \A s \in Requests \ {r} : req'[s] = req[s]
      BY <1>3, <1>t DEF TypeOK, TypeOKBooks, Handlers
    <2>2. payments' # payments
      <3>1. payments'[p].st = "kept"
        BY <1>3, <1>t DEF TypeOK, TypeOKBooks, NewPayment
      <3> QED BY <1>1, <3>1
    <2>3. CASE req[r].op # "settle"
      <3>1. credits' = credits
        BY <2>3 DEF RecordStep
      <3>2. Entitled'[r] <= Entitled[r]
        BY <2>1, <2>3, NotEntitled
      <3> QED BY <1>t, <2>1, <3>1, <3>2, QuietService, CreditedSame
    <2>4. CASE req[r].op = "settle"
      <3>1. PICK g \in Gateway : g = req[r].ref
        BY <2>4 DEF ServiceInv, Deliveries, Genuine
      <3>2. credits' = [credits EXCEPT ![g] = @ + 1]
        BY <2>2, <2>4, <3>1 DEF RecordStep
      <3>3. Credited' = Credited + 1
        BY <1>t, <3>1, <3>2, CreditedChange
      <3>4. Entitled[r] = 0 /\ Entitled'[r] = 1
        BY <2>1, <2>4 DEF Entitled, RecordCommit, At
      <3>5. Promised' = Promised + 1 /\ Promised \in Nat /\ Credited \in Nat
        BY <1>t, <2>1, <3>4, SumsTyped, PromisedChange
      <3>6. Floor0(periods) \in Nat /\ \A s \in Requests : held[s] \in Nat
        BY <1>t DEF TypeOK, Floor0
      <3>7. Floor0(periods') + Promised' <= Credited'
        BY <1>t, <3>3, <3>5, <3>6 DEF ServiceInv, ServiceCovered
      <3>8. ASSUME NEW s \in Requests, req'[s].pc = "extend_write"
            PROVE  held'[s] + Promised' <= Credited'
        <4>1. req[s].pc = "extend_write"
          BY <2>1, <3>8
        <4>2. held[s] + Promised <= Credited /\ held'[s] = held[s]
          BY <1>t, <4>1 DEF ServiceInv, ServiceCovered
        <4> QED BY <3>3, <3>5, <3>6, <4>2
      <3> QED BY <3>7, <3>8 DEF ServiceCovered
    <2> QED BY <2>3, <2>4
  <1> QED BY <1>1, <1>2, <1>3

LEMMA RecordService ==
  ASSUME ServiceInv, NEW r \in Requests, RecordStep(r)
  PROVE  ServiceCovered'
  <1>t. TypeOK /\ UNCHANGED <<periods, held>>
    BY DEF ServiceInv, RecordStep
  <1>1. CASE RecordCommit(r)
    BY <1>1, CommitService
  <1>2. CASE RecordStart(r) \/ RecordGuard(r) \/ RecordPost(r)
    <2>1. credits' = credits /\ Credited' = Credited
      <3>1. credits' = credits
        BY <1>2 DEF RecordStep, RecordStart, RecordGuard, RecordPost
      <3> QED BY <1>t, <3>1, CreditedSame
    <2>2. CASE RecordStart(r)
      <3>1. PICK amount \in Amounts, method \in Methods, force \in BOOLEAN :
              req' = [req EXCEPT ![r] = [Blank EXCEPT !.pc = "record_guard", !.op = "record",
                        !.amount = amount, !.method = method, !.force = force, !.staff = TRUE]]
        BY <2>2 DEF RecordStart
      <3>2. [Blank EXCEPT !.pc = "record_guard", !.op = "record", !.amount = amount,
               !.method = method, !.force = force, !.staff = TRUE].pc = "record_guard"
        BY DEF Blank
      <3> QED BY <1>t, <2>1, <3>1, <3>2, StartService
    <2>3. CASE RecordGuard(r)
      BY <1>t, <2>1, <2>3, FinishService, GotoService DEF RecordGuard
    <2>4. CASE RecordPost(r)
      <3>1. CASE Finish(r)
        BY <1>t, <2>1, <3>1, FinishService
      <3>2. CASE req[r].op = "settle" /\ Goto(r, "extend_read")
        <4>1. req'[r].pc = "extend_read" /\ \A s \in Requests \ {r} : req'[s] = req[s]
          BY <1>t, <3>2, GotoMoves
        <4>2. Entitled'[r] <= Entitled[r]
          BY <2>4, <3>2, <4>1 DEF Entitled, RecordPost, At
        <4> QED BY <1>t, <2>1, <4>1, <4>2, QuietService
      <3> QED BY <2>4, <3>1, <3>2 DEF RecordPost
    <2> QED BY <1>2, <2>2, <2>3, <2>4
  <1> QED BY <1>1, <1>2 DEF RecordStep, Record

\* The service is extended from the reading, and the entitlement is used up.
LEMMA ExtendService ==
  ASSUME ServiceInv, NEW r \in Requests, ExtendRead(r) \/ ExtendWrite(r)
  PROVE  ServiceCovered'
  <1>t. /\ TypeOK /\ periods \in Int /\ held \in [Requests -> Nat]
        /\ Promised \in Nat /\ Credited \in Nat
    BY SumsTyped DEF ServiceInv, TypeOK
  <1>1. Credited' = Credited
    BY <1>t, CreditedSame DEF ExtendRead, ExtendWrite
  <1>2. CASE ExtendRead(r)
    <2>1. req'[r].pc = "extend_write" /\ \A s \in Requests \ {r} : req'[s] = req[s]
      BY <1>t, <1>2, GotoMoves DEF ExtendRead
    <2>2. Entitled[r] = 1 /\ Entitled'[r] = 1
      BY <1>2, <2>1 DEF Entitled, ExtendRead, At
    <2>3. Promised' = Promised
      BY <1>t, <2>1, <2>2, PromisedChange
    <2>4. ASSUME NEW s \in Requests, req'[s].pc = "extend_write"
          PROVE  held'[s] + Promised' <= Credited'
      <3>1. CASE s = r
        BY <1>t, <1>1, <1>2, <2>3, <3>1 DEF ExtendRead, ServiceInv, ServiceCovered
      <3>2. CASE s # r
        BY <1>t, <1>1, <1>2, <2>1, <2>3, <2>4, <3>2 DEF ExtendRead, ServiceInv, ServiceCovered
      <3> QED BY <3>1, <3>2
    <2> QED BY <1>1, <1>2, <2>3, <2>4 DEF ExtendRead, ServiceInv, ServiceCovered
  <1>3. CASE ExtendWrite(r)
    <2>1. req'[r].pc = "done" /\ \A s \in Requests \ {r} : req'[s] = req[s]
      BY <1>t, <1>3, FinishMoves DEF ExtendWrite
    <2>2. Entitled[r] = 1 /\ Entitled'[r] = 0
      BY <1>3, <2>1 DEF Entitled, ExtendWrite, At
    <2>3. Promised' = Promised - 1
      BY <1>t, <2>1, <2>2, PromisedChange
    <2>4. held[r] + Promised <= Credited
      BY <1>3 DEF ExtendWrite, At, ServiceInv, ServiceCovered
    <2>5. Floor0(periods') + Promised' <= Credited'
      BY <1>t, <1>1, <1>3, <2>3, <2>4 DEF ExtendWrite, Floor0
    <2>6. ASSUME NEW s \in Requests, req'[s].pc = "extend_write"
          PROVE  held'[s] + Promised' <= Credited'
      <3>1. s # r /\ req[s].pc = "extend_write"
        BY <2>1, <2>6
      <3>2. held'[s] = held[s] /\ held[s] + Promised <= Credited /\ held[s] \in Nat
        BY <1>t, <1>3, <3>1 DEF ExtendWrite, ServiceInv, ServiceCovered
      <3> QED BY <1>t, <1>1, <2>3, <3>2
    <2> QED BY <2>5, <2>6 DEF ServiceCovered
  <1> QED BY <1>2, <1>3

LEMMA DeliveryService ==
  ASSUME ServiceInv, NEW r \in Requests,
         \/ SettleStart(r) \/ FailStart(r) \/ WebhookStart(r)
         \/ SettleClaim(r) \/ FailWrite(r) \/ WebhookCommit(r)
  PROVE  ServiceCovered'
  <1>t. TypeOK
    BY DEF ServiceInv
  <1>1. CASE SettleStart(r)
    <2>1. PICK t \in Gateway \cap captured :
            req' = [req EXCEPT ![r] = [Blank EXCEPT !.pc = "settle_claim", !.op = "settle",
                      !.ref = t, !.amount = txs[t].amount, !.method = "ONLINE"]]
      BY <1>1 DEF SettleStart
    <2>2. [Blank EXCEPT !.pc = "settle_claim", !.op = "settle", !.ref = t,
             !.amount = txs[t].amount, !.method = "ONLINE"].pc = "settle_claim"
      BY DEF Blank
    <2> QED BY <1>1, <2>1, <2>2, StartService DEF SettleStart, onlineVars
  <1>2. CASE FailStart(r)
    <2>1. PICK t \in Gateway :
            req' = [req EXCEPT ![r] = [Blank EXCEPT !.pc = "fail_write", !.op = "fail", !.ref = t]]
      BY <1>2 DEF FailStart
    <2>2. [Blank EXCEPT !.pc = "fail_write", !.op = "fail", !.ref = t].pc = "fail_write"
      BY DEF Blank
    <2> QED BY <1>2, <2>1, <2>2, StartService DEF FailStart, onlineVars
  <1>3. CASE WebhookStart(r)
    <2>1. PICK t \in Hosted, success \in BOOLEAN :
            req' = [req EXCEPT ![r] = [Blank EXCEPT !.pc = "webhook_commit", !.op = "webhook",
                      !.ref = t, !.amount = txs[t].amount, !.method = "ONLINE", !.success = success]]
      BY <1>3 DEF WebhookStart
    <2>2. [Blank EXCEPT !.pc = "webhook_commit", !.op = "webhook", !.ref = t,
             !.amount = txs[t].amount, !.method = "ONLINE", !.success = success].pc = "webhook_commit"
      BY DEF Blank
    <2> QED BY <1>3, <2>1, <2>2, StartService DEF WebhookStart, onlineVars
  <1>4. CASE SettleClaim(r)
    BY <1>t, <1>4, CreditedSame, FinishService, GotoService DEF SettleClaim
  <1>5. CASE FailWrite(r)
    BY <1>t, <1>5, CreditedSame, FinishService DEF FailWrite
  <1>6. CASE WebhookCommit(r)
    <2>1. req[r].ref \in Hosted
      BY <1>6 DEF WebhookCommit, At, ServiceInv, Deliveries, Genuine
    <2>2. \A t \in Gateway : t \in Txs /\ t # req[r].ref
      BY <2>1, OnlineAssumption DEF Txs
    <2>3. \A t \in Gateway : credits'[t] = credits[t]
      BY <1>t, <1>6, <2>2 DEF WebhookCommit, Settles, TypeOK
    <2> QED BY <1>t, <1>6, <2>3, CreditedSame, FinishService DEF WebhookCommit
  <1> QED BY <1>1, <1>2, <1>3, <1>4, <1>5, <1>6

LEMMA StepService == ServiceInv /\ [Next]_vars => ServiceCovered'
  <1> SUFFICES ASSUME ServiceInv, [Next]_vars PROVE ServiceCovered'
    OBVIOUS
  <1>t. TypeOK
    BY DEF ServiceInv
  <1>1. ASSUME NEW r \in Requests,
               \/ SettleStart(r) \/ FailStart(r) \/ WebhookStart(r)
               \/ SettleClaim(r) \/ FailWrite(r) \/ WebhookCommit(r)
        PROVE  ServiceCovered'
    BY <1>1, DeliveryService
  <1>2. ASSUME NEW r \in Requests, RecordStep(r) \/ ExtendRead(r) \/ ExtendWrite(r)
        PROVE  ServiceCovered'
    BY <1>2, RecordService, ExtendService
  <1>3. ASSUME NEW r \in Requests, Crash(r), UNCHANGED onlineVars PROVE ServiceCovered'
    <2>1. req'[r].pc = "crashed" /\ \A s \in Requests \ {r} : req'[s] = req[s]
      BY <1>t, <1>3 DEF Crash, TypeOK, TypeOKBooks, Handlers
    <2>2. Entitled'[r] <= Entitled[r]
      BY <2>1, NotEntitled
    <2> QED BY <1>t, <1>3, <2>1, <2>2, QuietService, CreditedSame DEF onlineVars
  <1>4. CASE UNCHANGED <<req, periods, held, credits>>
    BY <1>4 DEF ServiceInv, ServiceCovered, Promised, Entitled, Credited
  <1>5. ASSUME NEW t \in Txs, Initiate(t) \/ CreateCheckout(t) \/ CustomerPays(t)
        PROVE  UNCHANGED <<req, periods, held, credits>>
    BY <1>5 DEF Initiate, CreateCheckout, CustomerPays, bookVars
  <1>6. ASSUME NEW p \in PaymentIds, WindowPasses(p), UNCHANGED onlineVars
        PROVE  UNCHANGED <<req, periods, held, credits>>
    BY <1>6 DEF WindowPasses, onlineVars
  <1>7. UNCHANGED vars => UNCHANGED <<req, periods, held, credits>>
    BY DEF vars
  <1> QED BY <1>1, <1>2, <1>3, <1>4, <1>5, <1>6, <1>7 DEF Next

LEMMA ServiceStart == Init => ServiceInv
  <1> SUFFICES ASSUME Init PROVE ServiceInv
    OBVIOUS
  <1>1. TypeOK /\ Deliveries
    BY HostedStart DEF HostedInv
  <1>2. \A r \in Requests : req[r].pc = "idle" /\ Entitled[r] = 0
    BY DEF Init, InitBooks, Blank, Entitled
  <1>3. PICK f : f = Entitled
    OBVIOUS
  <1>4. SumFunctionOnSet(f, Requests) = 0
    BY <1>2, <1>3, BooksAssumption, SumZero
  <1>5. Promised = 0 /\ Credited \in Nat
    BY <1>1, <1>3, <1>4, SumsTyped DEF Promised
  <1>6. Floor0(periods) = 0
    BY DEF Init, Floor0
  <1> QED BY <1>1, <1>2, <1>5, <1>6 DEF ServiceInv, ServiceCovered

LEMMA ServiceStep == ServiceInv /\ [Next]_vars => ServiceInv'
  BY StepTyped, StepGenuine, StepService DEF ServiceInv

\* Whatever repeats, crosses or dies, the customer gets no more periods of service than
\* payments were recorded for gateway transactions: a duplicate that is not recorded extends
\* nothing, and an extension from an overtaken reading never grants a period twice.
THEOREM NoServiceUnpaid == Spec => []ServiceIsPaidFor
  <1>1. ServiceInv => ServiceIsPaidFor
    <2> SUFFICES ASSUME ServiceInv PROVE ServiceIsPaidFor
      OBVIOUS
    <2>1. Promised \in Nat /\ Credited \in Nat
      BY SumsTyped DEF ServiceInv
    <2> QED BY <2>1 DEF ServiceInv, ServiceCovered, TypeOK, Floor0, ServiceIsPaidFor, Credited
  <1> QED BY <1>1, ServiceStart, ServiceStep, PTL DEF Spec

=============================================================================
