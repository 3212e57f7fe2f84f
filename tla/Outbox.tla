------------------------------- MODULE Outbox -------------------------------
(***************************************************************************)
(* NotificationsService: SMS and e-mail as rows of the Message table,      *)
(* carried to the provider by the `send-message` queue of QueueService.    *)
(* With Redis the queue is durable and tries a failed job again; without   *)
(* it a job lives in the process that added it, and two cron jobs requeue  *)
(* what lies QUEUED too long and give up claims that are SENDING too long; *)
(* how long a row has lain is left open, so either may act at any time.    *)
(*                                                                         *)
(* A message is identified with its idempotency key.  The number of the    *)
(* attempt stands for the instant (`sendingAt`) that marks a claim.        *)
(***************************************************************************)
EXTENDS Naturals, FiniteSets

CONSTANTS
  MaxMessages,    \* bound: rows of Message
  Carriers,       \* deliveries that may run at the same time
  People,         \* recipients
  Nobody,         \* no recipient
  MaxAttempts,    \* MAX_DELIVERY_ATTEMPTS
  MaxJobs,        \* bound: queue entries of one message
  MaxCrashes,     \* bound
  MaxRetries      \* bound: retries ordered by staff

Messages == 1 .. MaxMessages

ASSUME OutboxAssumption ==
  /\ {MaxMessages, MaxAttempts, MaxJobs} \subseteq Nat \ {0}
  /\ {MaxCrashes, MaxRetries} \subseteq Nat
  /\ IsFiniteSet(Carriers) /\ Nobody \notin People

VARIABLES
  durable,        \* deployment: REDIS_URL is set
  connected,      \* deployment: an SMS gateway or a mail server is configured
  msgs,           \* Message rows
  jobs,           \* entries of the queue, per message
  calls,          \* processMessage under way
  confirmed,      \* history: how often the provider took each message and said so
  retried,        \* history: how often staff ordered another try
  decided,        \* history: the claim that wrote the last outcome
  crashes

deployment == <<durable, connected>>

outcomes == <<confirmed, decided>>

outboxVars == <<deployment, msgs, jobs, calls, outcomes, retried, crashes>>

Open == {"QUEUED", "FAILED"}

Ended == {"SENT", "SIMULATED", "FAILED_FINAL", "CANCELLED"}

Rows == [status : {"NONE", "SENDING", "UNKNOWN"} \cup Open \cup Ended,
         attempts : 0 .. MaxAttempts, sending : 0 .. MaxAttempts,
         to : People \cup {Nobody}]

NoRow == [status |-> "NONE", attempts |-> 0, sending |-> 0, to |-> Nobody]

Calls == [pc : {"idle", "calling", "sent", "simulated", "threw"},
          m : 0 .. MaxMessages, claim : 0 .. MaxAttempts]

NoCall == [pc |-> "idle", m |-> 0, claim |-> 0]

On(c, step) == calls[c].pc = step

Claimable(m) == msgs[m].status \in Open /\ msgs[m].attempts < MaxAttempts

\* A new status, and no claim.
Marked(m, s) == [msgs EXCEPT ![m].status = s, ![m].sending = 0]

AddJob(m) == jobs[m] < MaxJobs /\ jobs' = [jobs EXCEPT ![m] = @ + 1]

-----------------------------------------------------------------------------
(* processMessage.                                                         *)

\* The claim is a conditional update; an entry that finds nothing to claim is done.
TakeJob(c, m) ==
  /\ On(c, "idle") /\ jobs[m] > 0
  /\ jobs' = [jobs EXCEPT ![m] = @ - 1]
  /\ IF Claimable(m)
     THEN LET n == msgs[m].attempts + 1 IN
          /\ msgs' = [msgs EXCEPT ![m] = [@ EXCEPT !.status = "SENDING",
                                                   !.attempts = n, !.sending = n]]
          /\ calls' = [calls EXCEPT ![c] = [pc |-> "calling", m |-> m, claim |-> n]]
     ELSE UNCHANGED <<msgs, calls>>
  /\ UNCHANGED <<deployment, outcomes, retried, crashes>>

Step(c, step) == calls' = [calls EXCEPT ![c].pc = step]

\* The provider takes the message and says so.
ProviderTakes(c) ==
  /\ On(c, "calling") /\ connected
  /\ Step(c, "sent")
  /\ confirmed' = [confirmed EXCEPT ![calls[c].m] = @ + 1]
  /\ UNCHANGED <<deployment, msgs, jobs, decided, retried, crashes>>

\* It refuses, or it takes the message and the answer is lost: to a time-out, a
\* broken connection, or the statement that should have saved it.  The panel
\* cannot tell which and counts every one as a failed attempt.
ProviderFails(c) ==
  /\ On(c, "calling") /\ connected
  /\ Step(c, "threw")
  /\ UNCHANGED <<deployment, msgs, jobs, outcomes, retried, crashes>>

Simulate(c) ==
  /\ On(c, "calling") /\ ~connected
  /\ Step(c, "simulated")
  /\ UNCHANGED <<deployment, msgs, jobs, outcomes, retried, crashes>>

\* Mutant: any carrier of a message that is being sent may write its outcome.
StillSending(c) == msgs[calls[c].m].status = "SENDING"

StillHeld(c) == msgs[calls[c].m].status = "SENDING" /\ msgs[calls[c].m].sending = calls[c].claim

\* The outcome is written if the row still carries this claim.
WriteIfHeld(c, s) ==
  IF StillHeld(c)
  THEN /\ msgs' = Marked(calls[c].m, s)
       /\ decided' = [decided EXCEPT ![calls[c].m] = calls[c].claim]
  ELSE UNCHANGED <<msgs, decided>>

\* Mutant: a delivery that was only logged counts as sent.
SaveAnswerAsSent(c) ==
  /\ On(c, "sent") \/ On(c, "simulated")
  /\ WriteIfHeld(c, "SENT")
  /\ calls' = [calls EXCEPT ![c] = NoCall]
  /\ UNCHANGED <<deployment, jobs, confirmed, retried, crashes>>

SaveAnswer(c) ==
  /\ \/ On(c, "sent") /\ WriteIfHeld(c, "SENT")
     \/ On(c, "simulated") /\ WriteIfHeld(c, "SIMULATED")
  /\ calls' = [calls EXCEPT ![c] = NoCall]
  /\ UNCHANGED <<deployment, jobs, confirmed, retried, crashes>>

\* Mutant: the last attempt leaves the message FAILED like the others.
SaveErrorAlike(c) ==
  /\ On(c, "threw")
  /\ WriteIfHeld(c, "FAILED")
  /\ calls' = [calls EXCEPT ![c] = NoCall]
  /\ UNCHANGED jobs \/ (durable /\ AddJob(calls[c].m))
  /\ UNCHANGED <<deployment, confirmed, retried, crashes>>

\* The error goes on to the queue: a durable one may run the job again.
SaveError(c) ==
  /\ On(c, "threw")
  /\ WriteIfHeld(c, IF calls[c].claim >= MaxAttempts THEN "FAILED_FINAL" ELSE "FAILED")
  /\ calls' = [calls EXCEPT ![c] = NoCall]
  /\ \/ UNCHANGED jobs
     \/ durable /\ AddJob(calls[c].m)
  /\ UNCHANGED <<deployment, confirmed, retried, crashes>>

-----------------------------------------------------------------------------
(* The cron jobs, staff, time and crashes.                                 *)

\* recoverQueuedMessages
RequeueStale(m) ==
  /\ ~durable
  /\ msgs[m].status = "QUEUED"
  /\ AddJob(m)
  /\ UNCHANGED <<deployment, msgs, calls, outcomes, retried, crashes>>

\* Mutant: a claim that is too old goes back to the queue.
ExpireToQueue(m) ==
  /\ msgs[m].status = "SENDING"
  /\ msgs' = Marked(m, IF msgs[m].attempts < MaxAttempts THEN "QUEUED" ELSE "FAILED_FINAL")
  /\ UNCHANGED <<deployment, jobs, calls, outcomes, retried, crashes>>

\* recoverStaleMessageClaims
ExpireClaim(m) ==
  /\ msgs[m].status = "SENDING"
  /\ msgs' = Marked(m, "UNKNOWN")
  /\ UNCHANGED <<deployment, jobs, calls, outcomes, retried, crashes>>

\* retryMessage: the row is queued and then the job added; in between the
\* queue may refuse it, or the process die.
StaffRetry(m) ==
  /\ msgs[m].status \in {"FAILED", "UNKNOWN"} /\ msgs[m].attempts < MaxAttempts
  /\ retried[m] < MaxRetries
  /\ retried' = [retried EXCEPT ![m] = @ + 1]
  /\ \/ msgs' = Marked(m, "QUEUED") /\ AddJob(m) /\ UNCHANGED crashes
     \/ msgs' = Marked(m, "FAILED") /\ durable /\ UNCHANGED <<jobs, crashes>>
     \/ msgs' = Marked(m, "QUEUED") /\ crashes < MaxCrashes /\ crashes' = crashes + 1 /\ UNCHANGED jobs
  /\ UNCHANGED <<deployment, calls, outcomes>>

\* Deliveries die with their process.  Jobs in its memory do, too; a durable
\* queue runs what was under way again.
LoseProcess ==
  /\ crashes < MaxCrashes
  /\ crashes' = crashes + 1
  /\ calls' = [c \in Carriers |-> NoCall]
  /\ jobs' = [m \in Messages |->
                IF durable
                THEN LET n == jobs[m] + Cardinality({c \in Carriers : calls[c].m = m})
                     IN IF n < MaxJobs THEN n ELSE MaxJobs
                ELSE 0]
  /\ UNCHANGED <<deployment, msgs, outcomes, retried>>

-----------------------------------------------------------------------------
OutboxInit ==
  /\ durable \in BOOLEAN
  /\ connected \in BOOLEAN
  /\ msgs = [m \in Messages |-> NoRow]
  /\ jobs = [m \in Messages |-> 0]
  /\ calls = [c \in Carriers |-> NoCall]
  /\ confirmed = [m \in Messages |-> 0]
  /\ retried = [m \in Messages |-> 0]
  /\ decided = [m \in Messages |-> 0]
  /\ crashes = 0

Carry(c) ==
  \/ ProviderTakes(c) \/ ProviderFails(c) \/ Simulate(c)
  \/ SaveAnswer(c) \/ SaveError(c)

Sweep(m) == RequeueStale(m) \/ ExpireClaim(m)

OutboxNext ==
  \/ \E c \in Carriers, m \in Messages : TakeJob(c, m)
  \/ \E c \in Carriers : Carry(c)
  \/ \E m \in Messages : Sweep(m) \/ StaffRetry(m)

-----------------------------------------------------------------------------
OutboxTypeOK ==
  /\ durable \in BOOLEAN /\ connected \in BOOLEAN
  /\ msgs \in [Messages -> Rows]
  /\ jobs \in [Messages -> 0 .. MaxJobs]
  /\ calls \in [Carriers -> Calls]
  /\ confirmed \in [Messages -> Nat]
  /\ retried \in [Messages -> 0 .. MaxRetries]
  /\ decided \in [Messages -> 0 .. MaxAttempts]
  /\ crashes \in 0 .. MaxCrashes

\* A message whose delivery was confirmed once is not delivered again unless a
\* person ordered it: crashes, duplicate queue entries, both cron jobs and late
\* carriers never send it a second time by themselves.  (One whose answer was
\* lost, see ProviderFails, is sent again by design.)
NoSilentDuplicate == \A m \in Messages : confirmed[m] <= 1 + retried[m]

\* Every message that waits can still be claimed; one that could not would
\* stay in the queue for ever.
WaitingIsClaimable == \A m \in Messages : msgs[m].status \in Open => msgs[m].attempts < MaxAttempts

\* What is reported as sent was taken by the provider.
SentWasTaken == \A m \in Messages : msgs[m].status = "SENT" => confirmed[m] > 0

Placed(m) ==
  CASE msgs[m].status \in {"NONE"} \cup Open -> "open"
    [] msgs[m].status = "SENDING" -> "held"
    [] msgs[m].status = "UNKNOWN" -> "unsure"
    [] OTHER -> "ended"

\* Claims on messages keep what ClaimedWork promises.
Claims == INSTANCE ClaimedWork WITH
  Items <- Messages, MaxClaims <- MaxAttempts,
  place <- [m \in Messages |-> Placed(m)],
  claims <- [m \in Messages |-> msgs[m].attempts],
  decided <- decided

ClaimsHold == Claims!WorkSpec

=============================================================================
