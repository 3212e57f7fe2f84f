--------------------------- MODULE TaskReminders ---------------------------
(***************************************************************************)
(* TasksService: the reminder of a task, which a cron job claims, hands to *)
(* NotificationsService.send() as a message, and settles from what became  *)
(* of that message.  Staff assign, close, reopen and reschedule the task   *)
(* meanwhile; syncReminder() then withdraws or renews the reminder.        *)
(*                                                                         *)
(* One task and one time slot: the row TaskReminder is unique per task and *)
(* time.  The slot is due; another time is the reminder switched off here. *)
(* When a claim's five minutes are over is left open: an overlapping run   *)
(* of the cron job, or one after a crash, may find them over at any time.  *)
(***************************************************************************)
EXTENDS Outbox

CONSTANTS
  Ticks,          \* runs of the cron job that may overlap
  First,          \* the employee the task is created for
  MaxReminders,   \* MAX_TASK_REMINDER_ATTEMPTS
  MaxEdits        \* bound: changes of the task by staff

ASSUME RemindersAssumption ==
  /\ First \in People /\ IsFiniteSet(Ticks)
  /\ MaxReminders \in Nat \ {0}
  /\ MaxEdits \in Nat /\ MaxEdits < MaxMessages

VARIABLES
  task,           \* is it open, for whom, is its reminder at this time
  reminder,       \* the TaskReminder row
  minted,         \* idempotency keys given out; a key is also its message
  edits,          \* history
  ticks           \* cronTaskReminders() under way, with the row it read

reminderVars == <<task, reminder, minted, edits>>

vars == <<outboxVars, reminderVars, ticks>>

Active == {"PENDING", "FAILED", "PROCESSING", "QUEUED"}

Settled == {"DELIVERED", "SIMULATED", "CANCELLED", "FAILED_FINAL"}

\* A QUEUED row is claimed without another look at its attempts, so each run
\* that overlaps another may count one more than the maximum.
MostAttempts == MaxReminders + Cardinality(Ticks) - 1

Reminders ==
  [status : {"NONE"} \cup Active \cup Settled, attempts : 0 .. MostAttempts,
   key : 0 .. MaxMessages, message : 0 .. MaxMessages,
   for : People \cup {Nobody}]

NoReminder == [status |-> "NONE", attempts |-> 0,
               key |-> 0, message |-> 0, for |-> Nobody]

Pending(k, p) == [NoReminder EXCEPT !.status = "PENDING", !.key = k, !.for = p]

TickSteps == {"settle", "write", "claim", "read", "cancel", "fail", "find", "requeue", "add", "hand"}

NoTick == [pc |-> "idle", seen |-> NoReminder, verdict |-> NoReminder]

In(t, step) == ticks[t].pc = step

Go(t, step) == ticks' = [ticks EXCEPT ![t].pc = step]

Done(t) == ticks' = [ticks EXCEPT ![t] = NoTick]

Seen(t) == ticks[t].seen

WithStatus(s) == [reminder EXCEPT !.status = s]

\* Most writes of the cron job ask for the id and for this status only.
WhereProcessing(row) == reminder' = IF reminder.status = "PROCESSING" THEN row ELSE reminder

SameOutbox == UNCHANGED outboxVars

SameMessages == UNCHANGED <<deployment, calls, outcomes, retried, crashes>>

-----------------------------------------------------------------------------
(* syncReminder, in the transaction that changes the task.                 *)

\* Mutant: the renewed reminder goes on with its old key.
RenewedKeepingKey(p) == IF minted = 0 THEN Pending(1, p) ELSE Pending(reminder.key, p)

Renewed(p) == Pending(minted + 1, p)

CancelMessage(m) == IF m # 0 /\ msgs[m].status = "QUEUED" THEN Marked(m, "CANCELLED") ELSE msgs

Sync(p, on) ==
  LET wanted == on /\ p # Nobody
      obsolete == reminder.status \in Active /\ ~(wanted /\ reminder.for = p)
      renew == wanted /\ \/ reminder.status \in {"NONE", "CANCELLED"} \/ obsolete
                         \/ reminder.status # "DELIVERED" /\ reminder.for # p
      again == wanted /\ reminder.status = "FAILED" /\ reminder.for = p
  IN /\ msgs' = IF obsolete \/ renew THEN CancelMessage(reminder.message) ELSE msgs
     /\ reminder' = CASE renew -> Renewed(p)
                      [] again -> [WithStatus("PENDING") EXCEPT !.attempts = 0]
                      [] obsolete /\ ~wanted -> WithStatus("CANCELLED")
                      [] OTHER -> reminder
     /\ minted' = IF renew THEN minted + 1 ELSE minted

Edit(p, open, on) ==
  /\ edits < MaxEdits
  /\ edits' = edits + 1
  /\ task' = [open |-> open, for |-> p, on |-> on]
  /\ UNCHANGED <<jobs, ticks>> /\ SameMessages

Assign(p) == task.open /\ Edit(p, TRUE, task.on) /\ Sync(p, task.on)

SetReminder(on) ==
  /\ task.open /\ (on => task.for # Nobody)
  /\ Edit(task.for, TRUE, on) /\ Sync(task.for, on)

Close == task.open /\ Edit(task.for, FALSE, task.on) /\ Sync(task.for, FALSE)

\* Reopened, or moved between PLANNED and IN_PROGRESS.
Proceed ==
  /\ Edit(task.for, TRUE, task.on)
  /\ IF task.on /\ task.for # Nobody THEN Sync(task.for, TRUE) ELSE UNCHANGED <<msgs, reminder, minted>>

Staff == (\E p \in People \cup {Nobody} : Assign(p)) \/ (\E on \in BOOLEAN : SetReminder(on)) \/ Close \/ Proceed

-----------------------------------------------------------------------------
(* cronTaskReminders: what it does with one row it found due.              *)

\* Mutant: a claim whose lock has expired is not looked at again.
DueUnlessClaimed ==
  \/ reminder.status \in {"PENDING", "FAILED"} /\ reminder.attempts < MaxReminders
  \/ reminder.status = "QUEUED"

Due ==
  \/ reminder.status \in {"PENDING", "FAILED"} /\ reminder.attempts < MaxReminders
  \/ reminder.status \in {"PROCESSING", "QUEUED"}

Look(t) ==
  /\ In(t, "idle") /\ Due
  /\ LET done == reminder.status = "PROCESSING" /\ reminder.attempts >= MaxReminders IN
     ticks' = [ticks EXCEPT ![t].seen = reminder,
                            ![t].pc = IF done \/ reminder.status = "QUEUED" THEN "settle" ELSE "claim"]
  /\ SameOutbox /\ UNCHANGED reminderVars

Followed(status) ==
  CASE status = "SENT" -> "DELIVERED"
    [] status \in {"SIMULATED", "CANCELLED"} -> status
    [] OTHER -> "FAILED_FINAL"

\* The message of a claim that ran out: named by the row or else by its key.
\* What is still on its way is followed, the rest is given up.
LateVerdict(seen) ==
  LET m == IF seen.message # 0 THEN seen.message ELSE seen.key
      s == msgs[m].status
  IN [seen EXCEPT !.status = IF s \in {"QUEUED", "SENDING"} THEN "QUEUED" ELSE Followed(s),
                  !.message = IF s = "NONE" THEN @ ELSE m]

\* The message of a reminder that was handed over: not yet known, to be tried
\* again, or an outcome.
OnItsWay(seen) == msgs[seen.message].status \in {"QUEUED", "SENDING"} /\ seen.attempts < MaxReminders

TryAgain(seen) ==
  /\ msgs[seen.message].status = "FAILED"
  /\ msgs[seen.message].attempts < MaxReminders /\ seen.attempts < MaxReminders

Settle(t) ==
  /\ In(t, "settle")
  /\ LET seen == Seen(t)
         Decide(row) == ticks' = [ticks EXCEPT ![t].pc = "write", ![t].verdict = row]
     IN \/ seen.status = "PROCESSING" /\ Decide(LateVerdict(seen))
        \/ /\ seen.status = "QUEUED"
           /\ \/ OnItsWay(seen) /\ Done(t)
              \/ TryAgain(seen) /\ Go(t, "claim")
              \/ /\ ~OnItsWay(seen) /\ ~TryAgain(seen)
                 /\ Decide([seen EXCEPT !.status = Followed(msgs[seen.message].status)])
  /\ SameOutbox /\ UNCHANGED reminderVars

\* The row is as it was seen, as far as these two updates ask: it follows the
\* same message, or no other run renewed the lock with another attempt.
AsSeen(t) ==
  /\ reminder.status = Seen(t).status
  /\ IF Seen(t).status = "QUEUED" THEN reminder.message = Seen(t).message
     ELSE reminder.attempts = Seen(t).attempts

WriteVerdict(t) ==
  /\ In(t, "write")
  /\ LET v == ticks[t].verdict IN
     reminder' = IF AsSeen(t) THEN [reminder EXCEPT !.status = v.status, !.message = v.message]
                 ELSE reminder
  /\ Done(t)
  /\ SameOutbox /\ UNCHANGED <<task, minted, edits>>

ClaimReminder(t) ==
  /\ In(t, "claim")
  /\ LET free == IF Seen(t).status = "QUEUED" THEN AsSeen(t)
                 ELSE /\ reminder.attempts < MaxReminders
                      /\ reminder.status \in {"PENDING", "FAILED"} \/ AsSeen(t)
     IN IF free
        THEN /\ reminder' = [reminder EXCEPT !.status = "PROCESSING", !.attempts = @ + 1]
             /\ Go(t, "read")
        ELSE Done(t) /\ UNCHANGED reminder
  /\ SameOutbox /\ UNCHANGED <<task, minted, edits>>

\* The task is read again.  The employee may have left, or have no phone and
\* no mail address.
ReadTask(t) ==
  /\ In(t, "read")
  /\ LET stands == task.open /\ task.on /\ task.for # Nobody /\ task.for = Seen(t).for
     IN \/ Go(t, "cancel")
        \/ stands /\ (Go(t, "fail") \/ Go(t, "find"))
  /\ SameOutbox /\ UNCHANGED reminderVars

CancelReminder(t) ==
  /\ In(t, "cancel")
  /\ WhereProcessing(WithStatus("CANCELLED")) /\ Done(t)
  /\ SameOutbox /\ UNCHANGED <<task, minted, edits>>

\* The number of the attempt is reckoned from the row as it was first read.
FailReminder(t) ==
  /\ In(t, "fail")
  /\ WhereProcessing(WithStatus(IF Seen(t).attempts + 1 >= MaxReminders THEN "FAILED_FINAL" ELSE "FAILED"))
  /\ Done(t)
  /\ SameOutbox /\ UNCHANGED <<task, minted, edits>>

-----------------------------------------------------------------------------
(* NotificationsService.send, called by the cron job with the key it read. *)

SendFind(t) ==
  /\ In(t, "find")
  /\ LET k == Seen(t).key
         s == msgs[k].status
     IN /\ msgs' = IF s = "NONE" THEN [msgs EXCEPT ![k] = [NoRow EXCEPT !.status = "QUEUED", !.to = Seen(t).for]]
                   ELSE msgs
        /\ CASE s \in {"NONE", "QUEUED"} -> Go(t, "add")
             [] s = "FAILED" /\ msgs[k].attempts < MaxAttempts -> Go(t, "requeue")
             [] OTHER -> Go(t, "hand")
  /\ UNCHANGED <<jobs, reminderVars>> /\ SameMessages

SendRequeue(t) ==
  /\ In(t, "requeue")
  /\ LET k == Seen(t).key IN
     IF msgs[k].status = "FAILED" /\ msgs[k].attempts < MaxAttempts
     THEN msgs' = Marked(k, "QUEUED") /\ Go(t, "add")
     ELSE Go(t, "hand") /\ UNCHANGED msgs
  /\ UNCHANGED <<jobs, reminderVars>> /\ SameMessages

\* A durable queue may refuse the job; the message is then FAILED.
SendAdd(t) ==
  /\ In(t, "add")
  /\ LET k == Seen(t).key IN
     \/ AddJob(k) /\ Go(t, "hand") /\ UNCHANGED msgs
     \/ /\ durable
        /\ msgs' = IF msgs[k].status = "QUEUED" THEN Marked(k, "FAILED") ELSE msgs
        /\ Go(t, "fail") /\ UNCHANGED jobs
  /\ UNCHANGED reminderVars /\ SameMessages

\* The transaction that records the hand-over may fail.
HandOver(t) ==
  /\ In(t, "hand")
  /\ \/ /\ WhereProcessing([WithStatus("QUEUED") EXCEPT !.message = Seen(t).key])
        /\ Done(t)
     \/ Go(t, "fail") /\ UNCHANGED reminder
  /\ SameOutbox /\ UNCHANGED <<task, minted, edits>>

-----------------------------------------------------------------------------
Crash ==
  /\ LoseProcess
  /\ ticks' = [t \in Ticks |-> NoTick]
  /\ UNCHANGED reminderVars

-----------------------------------------------------------------------------
Init ==
  /\ OutboxInit
  /\ task \in [open : {TRUE}, for : {First}, on : BOOLEAN]
  /\ IF task.on THEN reminder = Pending(1, First) /\ minted = 1 ELSE reminder = NoReminder /\ minted = 0
  /\ edits = 0
  /\ ticks = [t \in Ticks |-> NoTick]

TickStep(t) ==
  \/ Look(t) \/ Settle(t) \/ WriteVerdict(t) \/ ClaimReminder(t) \/ ReadTask(t)
  \/ CancelReminder(t) \/ FailReminder(t)
  \/ SendFind(t) \/ SendRequeue(t) \/ SendAdd(t) \/ HandOver(t)

Deliver == OutboxNext /\ UNCHANGED <<reminderVars, ticks>>

Next == Deliver \/ Staff \/ Crash \/ \E t \in Ticks : TickStep(t)

\* Cron jobs come round every minute and deliveries have time limits; staff need do nothing and nothing has to crash.
Fairness ==
  /\ \A t \in Ticks : WF_vars(TickStep(t))
  /\ \A m \in Messages :
       /\ WF_vars((\E c \in Carriers : TakeJob(c, m)) /\ UNCHANGED <<reminderVars, ticks>>)
       /\ WF_vars(Sweep(m) /\ UNCHANGED <<reminderVars, ticks>>)
  /\ \A c \in Carriers : WF_vars(Carry(c) /\ UNCHANGED <<reminderVars, ticks>>)

Spec == Init /\ [][Next]_vars /\ Fairness

-----------------------------------------------------------------------------
\* Every variable has its type: rows, keys, the queue and the cron runs.
TypeOK ==
  /\ OutboxTypeOK
  /\ task \in [open : BOOLEAN, for : People \cup {Nobody}, on : BOOLEAN]
  /\ reminder \in Reminders
  /\ minted \in 0 .. MaxMessages
  /\ edits \in 0 .. MaxEdits
  /\ ticks \in [Ticks -> [pc : TickSteps \cup {"idle"}, seen : Reminders, verdict : Reminders]]

\* A reminder that is shown as delivered reached the employee it is for: its
\* message is to that employee and the provider took it, although the task was
\* assigned, closed and reopened while the cron job worked on an older reading.
DeliveredToAssignee ==
  reminder.status = "DELIVERED" =>
    /\ reminder.message # 0
    /\ msgs[reminder.message].to = reminder.for
    /\ confirmed[reminder.message] > 0

\* What is shown as delivered was taken by the provider, also when runs of the
\* cron job overlap.
DeliveredWasTaken ==
  reminder.status = "DELIVERED" => reminder.message # 0 /\ confirmed[reminder.message] > 0

\* The row names a message that is not its own: one run wrote what it had
\* concluded from the row before another claimed it under a new key.
NamesOldMessage == reminder.message \notin {0, reminder.key}

\* A reminder is not tried more often than MAX_TASK_REMINDER_ATTEMPTS, the
\* limit that most claims ask for.
TriesWithinMaximum == reminder.attempts <= MaxReminders

\* A message that a durable queue will never see again: staff ordered another
\* try, and the process died between the row and the queue.
Stranded == durable /\ reminder.status = "QUEUED" /\ msgs[reminder.message].status = "QUEUED"
            /\ jobs[reminder.message] = 0

\* A reminder is not forgotten: whatever crashes, refuses, times out or is
\* edited meanwhile, it is delivered, withdrawn or given up in the end.
RemindersSettle == reminder.status \in Active ~> (reminder.status \notin Active \/ Stranded)

\* The same without the exception.
NoneStranded == reminder.status \in Active ~> reminder.status \notin Active

=============================================================================
