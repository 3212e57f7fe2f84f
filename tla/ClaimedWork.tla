---------------------------- MODULE ClaimedWork ----------------------------
(***************************************************************************)
(* What a claim on a row promises, whoever works on it: an item is held by *)
(* one numbered claim at a time, an outcome is decided only by the claim   *)
(* that holds the item, a claim that was given up decides nothing, an item *)
(* whose outcome is not known waits for a person, and an ended item stays  *)
(* ended.                                                                  *)
(***************************************************************************)
EXTENDS Naturals

CONSTANTS
  Items,       \* pieces of work
  MaxClaims    \* how often an item may be claimed

VARIABLES
  place,       \* where each item is
  claims,      \* how many claims it has had; the last one may hold it
  decided      \* the claim that decided its last outcome, 0 if none has

workVars == <<place, claims, decided>>

Places == {"open", "held", "unsure", "ended"}

WorkInit ==
  /\ place = [i \in Items |-> "open"]
  /\ claims = [i \in Items |-> 0]
  /\ decided = [i \in Items |-> 0]

Move(i, p) == place' = [place EXCEPT ![i] = p]

TakeClaim(i) ==
  /\ place[i] = "open" /\ claims[i] < MaxClaims
  /\ Move(i, "held")
  /\ claims' = [claims EXCEPT ![i] = @ + 1]
  /\ UNCHANGED decided

\* The holder reports: finished, or open again if another claim is allowed.
Decide(i) ==
  /\ place[i] = "held"
  /\ \/ Move(i, "ended")
     \/ claims[i] < MaxClaims /\ Move(i, "open")
  /\ decided' = [decided EXCEPT ![i] = claims[i]]
  /\ UNCHANGED claims

\* The claim is given up without an answer.
GiveUp(i) == place[i] = "held" /\ Move(i, "unsure") /\ UNCHANGED <<claims, decided>>

\* A person orders another try.
TryAgain(i) ==
  /\ place[i] = "unsure" /\ claims[i] < MaxClaims
  /\ Move(i, "open")
  /\ UNCHANGED <<claims, decided>>

Withdraw(i) == place[i] = "open" /\ Move(i, "ended") /\ UNCHANGED <<claims, decided>>

WorkNext ==
  \E i \in Items : TakeClaim(i) \/ Decide(i) \/ GiveUp(i) \/ TryAgain(i) \/ Withdraw(i)

WorkSpec == WorkInit /\ [][WorkNext]_workVars

=============================================================================
