-------------------------- MODULE MCOnlinePayments --------------------------
(* Small instances of OnlinePayments.  Handlers and payment rows are interchangeable. *)
EXTENDS OnlinePayments, TLC

MCSymmetry == Permutations(Requests) \cup Permutations(PaymentIds) \cup Permutations(Gateway)

=============================================================================
