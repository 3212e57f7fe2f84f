---------------------------- MODULE MCInvoiceDesk ---------------------------
(* Small instances of InvoiceDesk.  Handlers, payment rows and refund requests are
   interchangeable. *)
EXTENDS InvoiceDesk, TLC

MCSymmetry == Permutations(Requests) \cup Permutations(PaymentIds)

=============================================================================
