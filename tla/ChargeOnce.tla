----------------------------- MODULE ChargeOnce -----------------------------
(***************************************************************************)
(* What settling an online payment promises, whatever provider, retry or   *)
(* crash is involved: money that the provider captured for a transaction   *)
(* is credited to the invoice at most once, and nothing else is credited.  *)
(***************************************************************************)
EXTENDS Naturals

CONSTANT Charges       \* online transactions

VARIABLES
  captured,            \* the provider holds the customer's money
  credits              \* how many payments were recorded for each transaction

ChargeInit == captured = {} /\ credits = [c \in Charges |-> 0]

\* The customer pays at the provider.
Capture(c) ==
  /\ c \in Charges \ captured
  /\ captured' = captured \cup {c}
  /\ UNCHANGED credits

\* The panel credits the invoice.
Credit(c) ==
  /\ c \in captured
  /\ credits[c] = 0
  /\ credits' = [credits EXCEPT ![c] = 1]
  /\ UNCHANGED captured

ChargeNext == \E c \in Charges : Capture(c) \/ Credit(c)

ChargeSpec == ChargeInit /\ [][ChargeNext]_<<captured, credits>>

=============================================================================
