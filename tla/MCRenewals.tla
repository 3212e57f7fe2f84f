----------------------------- MODULE MCRenewals -----------------------------
(* Small instances of Renewals.  Handlers and browser keys are interchangeable. *)
EXTENDS Renewals, TLC

MCSymmetry == Permutations(Requests) \cup Permutations(ClientKeys)

\* One day for cash, or as many as the wallet buys.
MCDays == {<<"DAYS", 1>>, <<"BALANCE", Days>>}

\* A whole period, or what is left of the one that was paid.
MCPeriods == {<<"FULL", Days>>, <<"NONE", Days>>}

=============================================================================
