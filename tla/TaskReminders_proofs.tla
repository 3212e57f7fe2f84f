------------------------ MODULE TaskReminders_proofs ------------------------
\* Proofs about Outbox and TaskReminders for any number of messages, carriers, attempts,
\* people, cron runs and crashes.
EXTENDS TaskReminders, FiniteSetTheorems, TLAPS

-----------------------------------------------------------------------------
\* Types of the reminder, as far as the messages depend on them.

AnyReminder ==
  [status : {"NONE"} \cup Active \cup Settled, attempts : Nat, key : Nat, message : Nat,
   for : People \cup {Nobody}]

RemindersTyped ==
  /\ task \in [open : BOOLEAN, for : People \cup {Nobody}, on : BOOLEAN]
  /\ reminder \in AnyReminder
  /\ minted \in Nat
  /\ ticks \in [Ticks -> [pc : TickSteps \cup {"idle"}, seen : AnyReminder, verdict : AnyReminder]]

LEMMA InitRemindersTyped == Init => RemindersTyped
  <1>1. NoReminder \in AnyReminder /\ Pending(1, First) \in AnyReminder
    BY RemindersAssumption DEF NoReminder, Pending, AnyReminder, Active
  <1>2. NoTick \in [pc : TickSteps \cup {"idle"}, seen : AnyReminder, verdict : AnyReminder]
    BY <1>1 DEF NoTick
  <1> SUFFICES ASSUME Init PROVE RemindersTyped
    OBVIOUS
  <1>3. reminder \in AnyReminder /\ minted \in Nat
    BY <1>1 DEF Init
  <1>4. task \in [open : BOOLEAN, for : People \cup {Nobody}, on : BOOLEAN]
    BY RemindersAssumption DEF Init
  <1>5. ticks \in [Ticks -> [pc : TickSteps \cup {"idle"}, seen : AnyReminder, verdict : AnyReminder]]
    BY <1>2 DEF Init
  <1> QED BY <1>3, <1>4, <1>5 DEF RemindersTyped

LEMMA SyncTyped ==
  ASSUME RemindersTyped, NEW p \in People \cup {Nobody}, NEW on \in BOOLEAN, Sync(p, on)
  PROVE  reminder' \in AnyReminder /\ minted' \in Nat
  <1>1. \A s \in Active \cup Settled : WithStatus(s) \in AnyReminder
    BY DEF RemindersTyped, WithStatus, AnyReminder
  <1>2. Pending(minted + 1, p) \in AnyReminder
    <2>1. minted + 1 \in Nat
      BY DEF RemindersTyped
    <2>2. NoReminder \in AnyReminder
      BY DEF NoReminder, AnyReminder
    <2> QED BY <2>1, <2>2 DEF Pending, AnyReminder, Active
  <1>3. [WithStatus("PENDING") EXCEPT !.attempts = 0] \in AnyReminder
    BY <1>1 DEF AnyReminder, Active
  <1>4. reminder' \in {Renewed(p), [WithStatus("PENDING") EXCEPT !.attempts = 0],
                       WithStatus("CANCELLED"), reminder}
    BY DEF Sync
  <1>5. minted' \in {minted, minted + 1}
    BY DEF Sync
  <1> QED BY <1>1, <1>2, <1>3, <1>4, <1>5 DEF RemindersTyped, Renewed, Settled

LEMMA EditTyped ==
  ASSUME NEW p \in People \cup {Nobody}, NEW open \in BOOLEAN, NEW on \in BOOLEAN,
         Edit(p, open, on)
  PROVE  task' \in [open : BOOLEAN, for : People \cup {Nobody}, on : BOOLEAN] /\ ticks' = ticks
  BY DEF Edit

LEMMA StaffTyped == RemindersTyped /\ Staff => RemindersTyped'
  <1> SUFFICES ASSUME RemindersTyped, Staff
               PROVE  RemindersTyped'
    OBVIOUS
  <1>t. task.for \in People \cup {Nobody} /\ task.on \in BOOLEAN
    BY DEF RemindersTyped
  <1>1. ASSUME NEW p \in People \cup {Nobody}, Assign(p)
        PROVE  RemindersTyped'
    BY <1>1, <1>t, SyncTyped, EditTyped DEF Assign, RemindersTyped
  <1>2. ASSUME NEW on \in BOOLEAN, SetReminder(on)
        PROVE  RemindersTyped'
    BY <1>2, <1>t, SyncTyped, EditTyped DEF SetReminder, RemindersTyped
  <1>3. CASE Close
    BY <1>3, <1>t, SyncTyped, EditTyped DEF Close, RemindersTyped
  <1>4. CASE Proceed
    BY <1>4, <1>t, SyncTyped, EditTyped DEF Proceed, RemindersTyped
  <1> QED BY <1>1, <1>2, <1>3, <1>4 DEF Staff

LEMMA Verdicts ==
  ASSUME NEW seen \in AnyReminder
  PROVE  /\ LateVerdict(seen) \in AnyReminder
         /\ \A s : [seen EXCEPT !.status = Followed(s)] \in AnyReminder
  <1>1. \A s : Followed(s) \in Settled
    BY DEF Followed, Settled
  <1>2. \A s : [seen EXCEPT !.status = Followed(s)] \in AnyReminder
    BY <1>1 DEF AnyReminder
  <1>3. LateVerdict(seen) \in AnyReminder
    BY <1>1 DEF LateVerdict, AnyReminder, Active
  <1> QED BY <1>2, <1>3

LEMMA TickTyped ==
  ASSUME RemindersTyped, NEW t \in Ticks, TickStep(t)
  PROVE  RemindersTyped'
  <1>g. ASSUME NEW step \in TickSteps, Go(t, step), UNCHANGED <<task, minted>>,
               reminder' \in AnyReminder
        PROVE  RemindersTyped'
    BY <1>g DEF Go, RemindersTyped
  <1>d. ASSUME Done(t), UNCHANGED <<task, minted>>, reminder' \in AnyReminder
        PROVE  RemindersTyped'
    <2>1. NoTick \in [pc : TickSteps \cup {"idle"}, seen : AnyReminder, verdict : AnyReminder]
      BY DEF NoTick, NoReminder, AnyReminder
    <2> QED BY <1>d, <2>1 DEF Done, RemindersTyped
  <1>s. /\ reminder \in AnyReminder /\ Seen(t) \in AnyReminder /\ ticks[t].verdict \in AnyReminder
        /\ \A s \in Active \cup Settled : WithStatus(s) \in AnyReminder
    BY DEF RemindersTyped, Seen, WithStatus, AnyReminder
  <1>1. CASE Look(t)
    <2>1. PICK step \in TickSteps : ticks' = [ticks EXCEPT ![t].seen = reminder, ![t].pc = step]
      BY <1>1 DEF Look, TickSteps
    <2>2. UNCHANGED <<task, minted, reminder>>
      BY <1>1 DEF Look, reminderVars
    <2>3. [ticks[t] EXCEPT !.seen = reminder, !.pc = step]
            \in [pc : TickSteps \cup {"idle"}, seen : AnyReminder, verdict : AnyReminder]
      BY <1>s DEF RemindersTyped
    <2>4. ticks' = [ticks EXCEPT ![t] = [ticks[t] EXCEPT !.seen = reminder, !.pc = step]]
      BY <2>1 DEF RemindersTyped
    <2> QED BY <2>2, <2>3, <2>4 DEF RemindersTyped
  <1>2. CASE Settle(t)
    <2>1. ASSUME NEW row \in AnyReminder,
                 ticks' = [ticks EXCEPT ![t].pc = "write", ![t].verdict = row]
          PROVE  RemindersTyped'
      BY <1>2, <2>1 DEF Settle, reminderVars, RemindersTyped, TickSteps
    <2>2. UNCHANGED <<task, minted, reminder>>
      BY <1>2 DEF Settle, reminderVars
    <2> QED BY <1>2, <1>g, <1>d, <1>s, <2>1, <2>2, Verdicts DEF Settle, TickSteps
  <1>3. CASE WriteVerdict(t)
    <2>1. reminder' \in AnyReminder
      BY <1>3, <1>s DEF WriteVerdict, AnyReminder
    <2> QED BY <1>3, <1>d, <2>1 DEF WriteVerdict
  <1>4. CASE ClaimReminder(t)
    <2>1. [reminder EXCEPT !.status = "PROCESSING", !.attempts = @ + 1] \in AnyReminder
      <3>1. reminder.attempts + 1 \in Nat
        BY <1>s DEF AnyReminder
      <3> QED BY <1>s, <3>1 DEF AnyReminder, Active
    <2>2. UNCHANGED <<task, minted>>
      BY <1>4 DEF ClaimReminder
    <2> QED BY <1>4, <1>g, <1>d, <1>s, <2>1, <2>2 DEF ClaimReminder, TickSteps
  <1>5. CASE ReadTask(t)
    BY <1>5, <1>g, <1>s DEF ReadTask, reminderVars, TickSteps
  <1>6. CASE CancelReminder(t)
    BY <1>6, <1>d, <1>s DEF CancelReminder, WhereProcessing, Settled
  <1>7. CASE FailReminder(t)
    BY <1>7, <1>d, <1>s DEF FailReminder, WhereProcessing, Active, Settled
  <1>8. CASE SendFind(t)
    BY <1>8, <1>g, <1>s DEF SendFind, reminderVars, TickSteps
  <1>9. CASE SendRequeue(t)
    BY <1>9, <1>g, <1>s DEF SendRequeue, reminderVars, TickSteps
  <1>10. CASE SendAdd(t)
    BY <1>10, <1>g, <1>s DEF SendAdd, reminderVars, TickSteps
  <1>11. CASE HandOver(t)
    <2>1. [WithStatus("QUEUED") EXCEPT !.message = Seen(t).key] \in AnyReminder
      BY <1>s DEF AnyReminder, Active
    <2> QED BY <1>11, <1>g, <1>d, <1>s, <2>1 DEF HandOver, WhereProcessing, TickSteps
  <1> QED BY <1>1, <1>2, <1>3, <1>4, <1>5, <1>6, <1>7, <1>8, <1>9, <1>10, <1>11 DEF TickStep

LEMMA StepRemindersTyped == RemindersTyped /\ [Next]_vars => RemindersTyped'
  <1> SUFFICES ASSUME RemindersTyped, [Next]_vars
               PROVE  RemindersTyped'
    OBVIOUS
  <1>1. CASE UNCHANGED vars \/ Deliver
    BY <1>1 DEF vars, Deliver, reminderVars, RemindersTyped
  <1>2. CASE Crash
    <2>1. NoTick \in [pc : TickSteps \cup {"idle"}, seen : AnyReminder, verdict : AnyReminder]
      BY DEF NoTick, NoReminder, AnyReminder
    <2> QED BY <1>2, <2>1 DEF Crash, reminderVars, RemindersTyped
  <1> QED BY <1>1, <1>2, StaffTyped, TickTyped DEF Next

-----------------------------------------------------------------------------
\* What tasks and their reminders do to messages: they write one, queue a failed one again,
\* fail one that the queue refused, or withdraw one that waits.

Requested(m) ==
  \/ /\ msgs[m].status = "NONE"
     /\ \E p \in People \cup {Nobody} :
          msgs' = [msgs EXCEPT ![m] = [NoRow EXCEPT !.status = "QUEUED", !.to = p]]
  \/ Claimable(m) /\ \E s \in Open \cup {"CANCELLED"} : msgs' = Marked(m, s)

OutboxTyped ==
  /\ msgs \in [Messages -> Rows]
  /\ calls \in [Carriers -> Calls]
  /\ \A c \in Carriers : ~On(c, "idle") => calls[c].m \in Messages
  /\ confirmed \in [Messages -> Nat]
  /\ retried \in [Messages -> Nat]
  /\ decided \in [Messages -> 0 .. MaxAttempts]

\* A claim carries the number of the last attempt, a row that was not written had none,
\* and one that waits is allowed another.
RowsSound ==
  \A m \in Messages :
    /\ msgs[m].status = "NONE" => msgs[m].attempts = 0
    /\ msgs[m].status = "SENDING" => msgs[m].sending = msgs[m].attempts
    /\ msgs[m].status \in Open => msgs[m].attempts < MaxAttempts

Sound == RemindersTyped /\ OutboxTyped /\ RowsSound

LEMMA StaffRequests ==
  ASSUME Sound, Staff
  PROVE  UNCHANGED <<calls, outcomes, retried>> /\ (UNCHANGED msgs \/ \E m \in Messages : Requested(m))
  <1>1. \A p, open, on : Edit(p, open, on) => UNCHANGED <<calls, outcomes, retried>>
    BY DEF Edit, SameMessages
  <1>2. ASSUME NEW p, NEW on, Sync(p, on)
        PROVE  UNCHANGED msgs \/ \E m \in Messages : Requested(m)
    <2>1. CASE msgs' = msgs
      BY <2>1
    <2>2. CASE msgs' # msgs
      <3>1. PICK n : n = reminder.message
        OBVIOUS
      <3>2. msgs[n].status = "QUEUED" /\ msgs' = Marked(n, "CANCELLED")
        BY <1>2, <2>2, <3>1 DEF Sync, CancelMessage
      <3>3. n \in Messages
        BY <2>2, <3>2 DEF Marked, Sound, OutboxTyped
      <3> QED BY <3>2, <3>3 DEF Requested, Claimable, Sound, RowsSound, Open
    <2> QED BY <2>1, <2>2
  <1> QED BY <1>1, <1>2 DEF Staff, Assign, SetReminder, Close, Proceed

LEMMA TickRequests ==
  ASSUME Sound, NEW t \in Ticks, TickStep(t)
  PROVE  UNCHANGED <<calls, outcomes, retried>> /\ (UNCHANGED msgs \/ \E m \in Messages : Requested(m))
  <1>k. PICK k : k = Seen(t).key
    OBVIOUS
  <1>p. Seen(t).for \in People \cup {Nobody}
    BY DEF Sound, RemindersTyped, Seen, AnyReminder
  <1>o. \A row : k \notin Messages => [msgs EXCEPT ![k] = row] = msgs
    BY DEF Sound, OutboxTyped
  <1>n. \A s : k \notin Messages => Marked(k, s) = msgs
    BY DEF Sound, OutboxTyped, Marked
  <1>1. CASE SameOutbox
    BY <1>1 DEF SameOutbox, outboxVars, outcomes
  <1>2. CASE SendFind(t)
    <2>1. UNCHANGED <<calls, outcomes, retried>>
      BY <1>2 DEF SendFind, SameMessages
    <2>2. \/ UNCHANGED msgs
          \/ /\ msgs[k].status = "NONE"
             /\ msgs' = [msgs EXCEPT ![k] = [NoRow EXCEPT !.status = "QUEUED", !.to = Seen(t).for]]
      BY <1>2, <1>k DEF SendFind
    <2> QED BY <1>p, <1>o, <2>1, <2>2 DEF Requested
  <1>3. CASE SendRequeue(t)
    <2>1. UNCHANGED <<calls, outcomes, retried>>
      BY <1>3 DEF SendRequeue, SameMessages
    <2>2. \/ UNCHANGED msgs
          \/ msgs[k].status = "FAILED" /\ msgs[k].attempts < MaxAttempts /\ msgs' = Marked(k, "QUEUED")
      BY <1>3, <1>k DEF SendRequeue
    <2> QED BY <1>n, <2>1, <2>2 DEF Requested, Claimable, Open
  <1>4. CASE SendAdd(t)
    <2>1. UNCHANGED <<calls, outcomes, retried>>
      BY <1>4 DEF SendAdd, SameMessages
    <2>2. \/ UNCHANGED msgs
          \/ msgs[k].status = "QUEUED" /\ msgs' = Marked(k, "FAILED")
      BY <1>4, <1>k DEF SendAdd
    <2> QED BY <1>n, <2>1, <2>2 DEF Requested, Claimable, Open, Sound, RowsSound
  <1>5. SameOutbox \/ SendFind(t) \/ SendRequeue(t) \/ SendAdd(t)
    BY DEF TickStep, Look, Settle, WriteVerdict, ClaimReminder, ReadTask, CancelReminder,
       FailReminder, HandOver
  <1> QED BY <1>1, <1>2, <1>3, <1>4, <1>5

\* The steps of the whole, as the messages see them.
LEMMA MessageSteps ==
  ASSUME Sound, [Next]_vars
  PROVE  \/ OutboxNext
         \/ UNCHANGED <<calls, outcomes, retried>> /\ (UNCHANGED msgs \/ \E m \in Messages : Requested(m))
         \/ calls' = [c \in Carriers |-> NoCall] /\ UNCHANGED <<msgs, outcomes, retried>>
  <1>1. CASE UNCHANGED vars
    BY <1>1 DEF vars, outboxVars, outcomes
  <1>2. CASE Deliver
    BY <1>2 DEF Deliver
  <1>3. CASE Staff
    BY <1>3, StaffRequests
  <1>4. CASE Crash
    BY <1>4 DEF Crash, LoseProcess
  <1>5. ASSUME NEW t \in Ticks, TickStep(t)
        PROVE  UNCHANGED <<calls, outcomes, retried>> /\ (UNCHANGED msgs \/ \E m \in Messages : Requested(m))
    BY <1>5, TickRequests
  <1> QED BY <1>1, <1>2, <1>3, <1>4, <1>5 DEF Next

-----------------------------------------------------------------------------
\* Rows stay sound.

LEMMA Bounds ==
  /\ MaxAttempts \in Nat \ {0} /\ MaxMessages \in Nat \ {0}
  /\ 0 \in 0 .. MaxAttempts /\ 0 \in 0 .. MaxMessages
  BY OutboxAssumption

LEMMA InitSound == Init => Sound
  <1> SUFFICES ASSUME Init PROVE OutboxTyped /\ RowsSound
    BY InitRemindersTyped DEF Sound
  <1>1. MaxAttempts \in Nat \ {0} /\ MaxMessages \in Nat
    BY OutboxAssumption
  <1>2. NoRow \in Rows /\ NoCall \in Calls
    BY <1>1 DEF NoRow, Rows, NoCall, Calls
  <1> QED BY <1>1, <1>2 DEF Init, OutboxInit, OutboxTyped, RowsSound, NoRow, NoCall, On, Open

\* A row of which the attempts stay within what its new status allows.
LEMMA RowReplaced ==
  ASSUME OutboxTyped, RowsSound, NEW m \in Messages, NEW row \in Rows,
         msgs' = [msgs EXCEPT ![m] = row],
         row.status = "NONE" => row.attempts = 0,
         row.status = "SENDING" => row.sending = row.attempts,
         row.status \in Open => row.attempts < MaxAttempts
  PROVE  msgs' \in [Messages -> Rows] /\ RowsSound'
  BY DEF OutboxTyped, RowsSound

LEMMA RowMarked ==
  ASSUME OutboxTyped, RowsSound, NEW m \in Messages, NEW s \in Open \cup Ended \cup {"UNKNOWN"},
         s \in Open => msgs[m].attempts < MaxAttempts,
         msgs' = Marked(m, s)
  PROVE  msgs' \in [Messages -> Rows] /\ RowsSound'
  <1>1. PICK row : row = [msgs[m] EXCEPT !.status = s, !.sending = 0]
    OBVIOUS
  <1>2. row \in Rows /\ row.status = s /\ row.attempts = msgs[m].attempts
    <2>1. msgs[m] \in Rows
      BY DEF OutboxTyped
    <2> QED BY <1>1, <2>1, Bounds DEF Rows
  <1>3. msgs' = [msgs EXCEPT ![m] = row]
    BY <1>1 DEF Marked, OutboxTyped
  <1> QED BY <1>2, <1>3, RowReplaced DEF Open, Ended

LEMMA CallTyped ==
  ASSUME OutboxTyped, NEW c \in Carriers
  PROVE  /\ calls' = [calls EXCEPT ![c] = NoCall]
              => /\ calls' \in [Carriers -> Calls]
                 /\ \A d \in Carriers : calls'[d].pc # "idle" => calls'[d].m \in Messages
         /\ ~On(c, "idle") => \A step \in {"calling", "sent", "simulated", "threw"} : Step(c, step)
              => /\ calls' \in [Carriers -> Calls]
                 /\ \A d \in Carriers : calls'[d].pc # "idle" => calls'[d].m \in Messages
  <1>1. NoCall \in Calls
    BY OutboxAssumption DEF NoCall, Calls
  <1>2. calls' = [calls EXCEPT ![c] = NoCall]
          => /\ calls' \in [Carriers -> Calls]
             /\ \A d \in Carriers : calls'[d].pc # "idle" => calls'[d].m \in Messages
    BY <1>1 DEF OutboxTyped, NoCall, On
  <1>3. ASSUME ~On(c, "idle"), NEW step \in {"calling", "sent", "simulated", "threw"}, Step(c, step)
        PROVE  /\ calls' \in [Carriers -> Calls]
               /\ \A d \in Carriers : calls'[d].pc # "idle" => calls'[d].m \in Messages
    BY <1>3 DEF OutboxTyped, Step, On, Calls
  <1> QED BY <1>2, <1>3

LEMMA HeldWritten ==
  ASSUME OutboxTyped, RowsSound, NEW c \in Carriers, ~On(c, "idle"),
         NEW s \in Open \cup Ended, s \in Open => calls[c].claim < MaxAttempts,
         WriteIfHeld(c, s)
  PROVE  /\ msgs' \in [Messages -> Rows] /\ RowsSound'
         /\ decided' \in [Messages -> 0 .. MaxAttempts]
  <1>1. PICK m \in Messages : m = calls[c].m
    BY DEF OutboxTyped
  <1>2. CASE StillHeld(c)
    <2>1. msgs[m].attempts = calls[c].claim
      BY <1>1, <1>2 DEF StillHeld, RowsSound
    <2>2. msgs' = Marked(m, s) /\ decided' = [decided EXCEPT ![m] = calls[c].claim]
      BY <1>1, <1>2 DEF WriteIfHeld
    <2>3. decided' \in [Messages -> 0 .. MaxAttempts]
      BY <2>2 DEF OutboxTyped, Calls
    <2> QED BY <2>1, <2>2, <2>3, RowMarked
  <1>3. CASE ~StillHeld(c)
    BY <1>3 DEF WriteIfHeld, OutboxTyped, RowsSound
  <1> QED BY <1>2, <1>3

LEMMA RequestSound ==
  ASSUME Sound, NEW m \in Messages, Requested(m)
  PROVE  msgs' \in [Messages -> Rows] /\ RowsSound'
  <1>1. CASE msgs[m].status = "NONE"
    <2>1. PICK p \in People \cup {Nobody} :
            msgs' = [msgs EXCEPT ![m] = [NoRow EXCEPT !.status = "QUEUED", !.to = p]]
      BY <1>1 DEF Requested, Claimable, Open
    <2>2. PICK row : row = [NoRow EXCEPT !.status = "QUEUED", !.to = p]
      OBVIOUS
    <2>3. row \in Rows /\ row.status = "QUEUED" /\ row.attempts = 0
      BY <2>2, Bounds DEF NoRow, Rows, Open
    <2>4. msgs' = [msgs EXCEPT ![m] = row]
      BY <2>1, <2>2
    <2>5. row.attempts < MaxAttempts /\ row.status \notin {"NONE", "SENDING"}
      BY <2>3, Bounds
    <2> QED BY <2>3, <2>4, <2>5, RowReplaced DEF Sound
  <1>2. CASE msgs[m].status # "NONE"
    <2>1. PICK s \in Open \cup {"CANCELLED"} : Claimable(m) /\ msgs' = Marked(m, s)
      BY <1>2 DEF Requested
    <2> QED BY <2>1, RowMarked DEF Sound, Claimable, Ended
  <1> QED BY <1>1, <1>2

LEMMA OutboxStepSound ==
  ASSUME OutboxTyped, RowsSound, OutboxNext
  PROVE  OutboxTyped' /\ RowsSound'
  <1>1. ASSUME NEW c \in Carriers, NEW m \in Messages, TakeJob(c, m)
        PROVE  OutboxTyped' /\ RowsSound'
    <2>1. UNCHANGED <<outcomes, retried>>
      BY <1>1 DEF TakeJob
    <2>2. CASE Claimable(m)
      <3>1. PICK n : n = msgs[m].attempts + 1
        OBVIOUS
      <3>2. n \in 1 .. MaxAttempts
        BY <2>2, <3>1, OutboxAssumption DEF Claimable, OutboxTyped, Rows
      <3>3. PICK row : row = [msgs[m] EXCEPT !.status = "SENDING", !.attempts = n, !.sending = n]
        OBVIOUS
      <3>4. msgs' = [msgs EXCEPT ![m] = row]
        BY <1>1, <2>2, <3>1, <3>3 DEF TakeJob
      <3>5. row \in Rows /\ row.status = "SENDING" /\ row.sending = row.attempts
        <4>1. msgs[m] \in Rows
          BY DEF OutboxTyped
        <4>2. n \in 0 .. MaxAttempts
          BY <3>2
        <4> QED BY <3>3, <4>1, <4>2 DEF Rows
      <3>6. PICK call : call = [pc |-> "calling", m |-> m, claim |-> n]
        OBVIOUS
      <3>7. calls' = [calls EXCEPT ![c] = call]
        BY <1>1, <2>2, <3>1, <3>6 DEF TakeJob
      <3>8. call \in Calls /\ call.m \in Messages
        BY <3>2, <3>6, OutboxAssumption DEF Calls, Messages
      <3> QED BY <2>1, <3>4, <3>5, <3>7, <3>8, RowReplaced DEF OutboxTyped, outcomes, On, Open
    <2>3. CASE ~Claimable(m)
      BY <1>1, <2>1, <2>3 DEF TakeJob, OutboxTyped, RowsSound, outcomes, On
    <2> QED BY <2>2, <2>3
  <1>2. ASSUME NEW c \in Carriers, ProviderTakes(c)
        PROVE  OutboxTyped' /\ RowsSound'
    <2>1. confirmed' \in [Messages -> Nat]
      <3>1. confirmed' = [confirmed EXCEPT ![calls[c].m] = @ + 1] /\ calls[c].m \in Messages
        BY <1>2 DEF ProviderTakes, OutboxTyped, On
      <3> QED BY <3>1 DEF OutboxTyped
    <2>2. ~On(c, "idle") /\ Step(c, "sent") /\ UNCHANGED <<msgs, decided, retried>>
      BY <1>2 DEF ProviderTakes, On
    <2> QED BY <2>1, <2>2, CallTyped DEF OutboxTyped, RowsSound, On
  <1>3. ASSUME NEW c \in Carriers, ProviderFails(c) \/ Simulate(c)
        PROVE  OutboxTyped' /\ RowsSound'
    <2>1. /\ ~On(c, "idle") /\ \E step \in {"threw", "simulated"} : Step(c, step)
          /\ UNCHANGED <<msgs, outcomes, retried>>
      BY <1>3 DEF ProviderFails, Simulate, On
    <2> QED BY <2>1, CallTyped DEF OutboxTyped, RowsSound, On, outcomes
  <1>4. ASSUME NEW c \in Carriers, SaveAnswer(c)
        PROVE  OutboxTyped' /\ RowsSound'
    <2>1. /\ ~On(c, "idle") /\ \E s \in Ended \ Open : WriteIfHeld(c, s)
          /\ calls' = [calls EXCEPT ![c] = NoCall] /\ UNCHANGED <<confirmed, retried>>
      BY <1>4 DEF SaveAnswer, On, Ended, Open
    <2> QED BY <2>1, HeldWritten, CallTyped DEF OutboxTyped, On
  <1>5. ASSUME NEW c \in Carriers, SaveError(c)
        PROVE  OutboxTyped' /\ RowsSound'
    <2>1. /\ ~On(c, "idle")
          /\ WriteIfHeld(c, IF calls[c].claim >= MaxAttempts THEN "FAILED_FINAL" ELSE "FAILED")
          /\ calls' = [calls EXCEPT ![c] = NoCall] /\ UNCHANGED <<confirmed, retried>>
      BY <1>5 DEF SaveError, On
    <2>2. calls[c].claim \in Nat /\ MaxAttempts \in Nat
      BY OutboxAssumption DEF OutboxTyped, Calls
    <2>3. \E s \in Open \cup Ended : (s \in Open => calls[c].claim < MaxAttempts) /\ WriteIfHeld(c, s)
      BY <2>1, <2>2 DEF Open, Ended
    <2> QED BY <2>1, <2>3, HeldWritten, CallTyped DEF OutboxTyped, On
  <1>6. ASSUME NEW m \in Messages, Sweep(m)
        PROVE  OutboxTyped' /\ RowsSound'
    <2>1. UNCHANGED <<calls, outcomes, retried>> /\ (UNCHANGED msgs \/ msgs' = Marked(m, "UNKNOWN"))
      BY <1>6 DEF Sweep, RequeueStale, ExpireClaim
    <2>2. CASE UNCHANGED msgs
      BY <2>1, <2>2 DEF OutboxTyped, RowsSound, outcomes, On
    <2>3. CASE msgs' = Marked(m, "UNKNOWN")
      BY <2>1, <2>3, RowMarked DEF OutboxTyped, outcomes, On, Open
    <2> QED BY <2>1, <2>2, <2>3
  <1>7. ASSUME NEW m \in Messages, StaffRetry(m)
        PROVE  OutboxTyped' /\ RowsSound'
    <2>1. /\ msgs[m].attempts < MaxAttempts /\ UNCHANGED <<calls, outcomes>>
          /\ retried' = [retried EXCEPT ![m] = @ + 1]
          /\ \E s \in Open : msgs' = Marked(m, s)
      BY <1>7 DEF StaffRetry, Open
    <2>2. retried' \in [Messages -> Nat]
      BY <2>1 DEF OutboxTyped
    <2> QED BY <2>1, <2>2, RowMarked DEF OutboxTyped, outcomes, On
  <1> QED BY <1>1, <1>2, <1>3, <1>4, <1>5, <1>6, <1>7 DEF OutboxNext, Carry

LEMMA StepSound == Sound /\ [Next]_vars => Sound'
  <1> SUFFICES ASSUME Sound, [Next]_vars
               PROVE  OutboxTyped' /\ RowsSound'
    BY StepRemindersTyped DEF Sound
  <1>1. CASE OutboxNext
    BY <1>1, OutboxStepSound DEF Sound
  <1>2. CASE UNCHANGED <<calls, outcomes, retried>> /\ UNCHANGED msgs
    BY <1>2 DEF Sound, OutboxTyped, RowsSound, outcomes, On
  <1>3. ASSUME UNCHANGED <<calls, outcomes, retried>>, NEW m \in Messages, Requested(m)
        PROVE  OutboxTyped' /\ RowsSound'
    BY <1>3, RequestSound DEF Sound, OutboxTyped, outcomes, On
  <1>4. CASE calls' = [c \in Carriers |-> NoCall] /\ UNCHANGED <<msgs, outcomes, retried>>
    <2>1. NoCall \in Calls
      BY OutboxAssumption DEF NoCall, Calls
    <2> QED BY <1>4, <2>1 DEF Sound, OutboxTyped, RowsSound, outcomes, On, NoCall
  <1> QED BY <1>1, <1>2, <1>3, <1>4, MessageSteps

\* Every message that waits may still be claimed, for any number of attempts and carriers.
THEOREM WaitingMayBeClaimed == Spec => []WaitingIsClaimable
  <1>1. Sound => WaitingIsClaimable
    BY DEF Sound, RowsSound, WaitingIsClaimable
  <1> QED BY <1>1, InitSound, StepSound, PTL DEF Spec

-----------------------------------------------------------------------------
\* Messages implement ClaimedWork.

PlaceOf == [m \in Messages |-> Placed(m)]

ClaimsOf == [m \in Messages |-> msgs[m].attempts]

\* What a mark does to the abstract item.
LEMMA MarkMoves ==
  ASSUME OutboxTyped, NEW m \in Messages, NEW s \in Open \cup Ended \cup {"UNKNOWN"},
         msgs' = Marked(m, s)
  PROVE  /\ ClaimsOf' = ClaimsOf
         /\ s \in Open => PlaceOf' = [PlaceOf EXCEPT ![m] = "open"]
         /\ s = "UNKNOWN" => PlaceOf' = [PlaceOf EXCEPT ![m] = "unsure"]
         /\ s \in Ended \ Open => PlaceOf' = [PlaceOf EXCEPT ![m] = "ended"]
  <1>1. \A n \in Messages : msgs'[n].attempts = msgs[n].attempts
    BY DEF OutboxTyped, Marked, Rows
  <1>2. \A n \in Messages \ {m} : msgs'[n] = msgs[n]
    BY DEF OutboxTyped, Marked
  <1>3. msgs'[m].status = s
    BY DEF OutboxTyped, Marked, Rows
  <1>4. ClaimsOf' = ClaimsOf
    BY <1>1 DEF ClaimsOf
  <1>5. \A n \in Messages \ {m} : Placed(n)' = Placed(n)
    BY <1>2 DEF Placed
  <1>6. /\ s \in Open => Placed(m)' = "open"
        /\ s = "UNKNOWN" => Placed(m)' = "unsure"
        /\ s \in Ended \ Open => Placed(m)' = "ended"
    BY <1>3 DEF Placed, Open, Ended
  <1>7. PlaceOf' = [PlaceOf EXCEPT ![m] = Placed(m)']
    BY <1>5 DEF PlaceOf
  <1> QED BY <1>4, <1>6, <1>7

LEMMA PlaceIs ==
  ASSUME NEW m \in Messages
  PROVE  /\ PlaceOf[m] = Placed(m) /\ ClaimsOf[m] = msgs[m].attempts
         /\ msgs[m].status \in {"NONE"} \cup Open => PlaceOf[m] = "open"
         /\ msgs[m].status = "SENDING" => PlaceOf[m] = "held"
         /\ msgs[m].status = "UNKNOWN" => PlaceOf[m] = "unsure"
  BY DEF PlaceOf, ClaimsOf, Placed, Open

LEMMA Stays ==
  ASSUME NEW m \in Messages, NEW p, p = PlaceOf[m]
  PROVE  [PlaceOf EXCEPT ![m] = p] = PlaceOf
  BY DEF PlaceOf

WorkStep == [Claims!WorkNext]_(Claims!workVars)

\* A step of the abstract item m, in terms of the rows.
LEMMA WorkSteps ==
  ASSUME NEW m \in Messages
  PROVE  /\ UNCHANGED <<PlaceOf, ClaimsOf, decided>> => WorkStep
         /\ /\ PlaceOf[m] = "open" /\ ClaimsOf[m] < MaxAttempts
            /\ PlaceOf' = [PlaceOf EXCEPT ![m] = "held"]
            /\ ClaimsOf' = [ClaimsOf EXCEPT ![m] = @ + 1]
            /\ UNCHANGED decided
            => WorkStep
         /\ /\ PlaceOf[m] = "held"
            /\ \/ PlaceOf' = [PlaceOf EXCEPT ![m] = "ended"]
               \/ ClaimsOf[m] < MaxAttempts /\ PlaceOf' = [PlaceOf EXCEPT ![m] = "open"]
            /\ decided' = [decided EXCEPT ![m] = ClaimsOf[m]] /\ ClaimsOf' = ClaimsOf
            => WorkStep
         /\ /\ PlaceOf[m] = "held" /\ PlaceOf' = [PlaceOf EXCEPT ![m] = "unsure"]
            /\ UNCHANGED <<ClaimsOf, decided>>
            => WorkStep
         /\ /\ PlaceOf[m] = "unsure" /\ ClaimsOf[m] < MaxAttempts
            /\ PlaceOf' = [PlaceOf EXCEPT ![m] = "open"] /\ UNCHANGED <<ClaimsOf, decided>>
            => WorkStep
         /\ /\ PlaceOf[m] = "open" /\ PlaceOf' = [PlaceOf EXCEPT ![m] = "ended"]
            /\ UNCHANGED <<ClaimsOf, decided>>
            => WorkStep
  BY DEF WorkStep, PlaceOf, ClaimsOf, Claims!WorkNext, Claims!workVars, Claims!TakeClaim, Claims!Decide,
     Claims!GiveUp, Claims!TryAgain, Claims!Withdraw, Claims!Move

LEMMA TakeIsClaim ==
  ASSUME Sound, NEW c \in Carriers, NEW m \in Messages, TakeJob(c, m)
  PROVE  WorkStep
  <1>1. CASE Claimable(m)
    <2>1. PICK n : n = msgs[m].attempts + 1
      OBVIOUS
    <2>2. msgs' = [msgs EXCEPT ![m] = [msgs[m] EXCEPT !.status = "SENDING", !.attempts = n, !.sending = n]]
      BY <1>1, <2>1 DEF TakeJob
    <2>3. msgs[m] \in Rows
      BY DEF Sound, OutboxTyped
    <2>4. msgs'[m].status = "SENDING" /\ msgs'[m].attempts = n /\ \A i \in Messages \ {m} : msgs'[i] = msgs[i]
      BY <2>2, <2>3 DEF Sound, OutboxTyped, Rows
    <2>5. Placed(m)' = "held" /\ \A i \in Messages \ {m} : Placed(i)' = Placed(i)
      BY <2>4 DEF Placed, Open
    <2>6. PlaceOf' = [PlaceOf EXCEPT ![m] = "held"]
      BY <2>5 DEF PlaceOf
    <2>7. ClaimsOf' = [ClaimsOf EXCEPT ![m] = @ + 1]
      BY <2>1, <2>4 DEF ClaimsOf
    <2>8. PlaceOf[m] = "open" /\ ClaimsOf[m] < MaxAttempts
      BY <1>1, PlaceIs DEF Claimable
    <2>9. UNCHANGED decided
      BY DEF TakeJob, outcomes
    <2> QED BY <2>6, <2>7, <2>8, <2>9, WorkSteps
  <1>2. CASE ~Claimable(m)
    <2>1. UNCHANGED <<msgs, decided>>
      BY <1>2 DEF TakeJob, outcomes
    <2>2. UNCHANGED <<PlaceOf, ClaimsOf, decided>>
      BY <2>1 DEF PlaceOf, Placed, ClaimsOf
    <2> QED BY <2>2, WorkSteps
  <1> QED BY <1>1, <1>2

LEMMA WriteIsDecision ==
  ASSUME Sound, NEW c \in Carriers, ~On(c, "idle"), NEW s \in {"FAILED"} \cup (Ended \ Open),
         s = "FAILED" => calls[c].claim < MaxAttempts,
         WriteIfHeld(c, s)
  PROVE  WorkStep
  <1>1. PICK m \in Messages : m = calls[c].m
    BY DEF Sound, OutboxTyped
  <1>2. CASE StillHeld(c)
    <2>1. msgs[m].status = "SENDING" /\ msgs[m].attempts = calls[c].claim
      BY <1>1, <1>2 DEF StillHeld, Sound, RowsSound
    <2>2. msgs' = Marked(m, s) /\ decided' = [decided EXCEPT ![m] = calls[c].claim]
      BY <1>1, <1>2 DEF WriteIfHeld
    <2>3. PlaceOf[m] = "held" /\ ClaimsOf[m] = calls[c].claim
      BY <2>1, PlaceIs
    <2>4. /\ ClaimsOf' = ClaimsOf
          /\ s = "FAILED" => PlaceOf' = [PlaceOf EXCEPT ![m] = "open"]
          /\ s # "FAILED" => PlaceOf' = [PlaceOf EXCEPT ![m] = "ended"]
      BY <2>2, MarkMoves DEF Sound, Open
    <2> QED BY <2>2, <2>3, <2>4, WorkSteps
  <1>3. CASE ~StillHeld(c)
    <2>1. UNCHANGED <<PlaceOf, ClaimsOf, decided>>
      BY <1>3 DEF WriteIfHeld, PlaceOf, Placed, ClaimsOf
    <2> QED BY <1>1, <2>1, WorkSteps
  <1> QED BY <1>2, <1>3

LEMMA RequestIsWork ==
  ASSUME Sound, NEW m \in Messages, Requested(m), UNCHANGED decided
  PROVE  WorkStep
  <1>1. CASE msgs[m].status = "NONE"
    <2>1. msgs[m].attempts = 0
      BY <1>1 DEF Sound, RowsSound
    <2>2. PICK p : msgs' = [msgs EXCEPT ![m] = [NoRow EXCEPT !.status = "QUEUED", !.to = p]]
      BY <1>1 DEF Requested, Claimable, Open
    <2>3. msgs'[m].status = "QUEUED" /\ msgs'[m].attempts = 0 /\ \A i \in Messages \ {m} : msgs'[i] = msgs[i]
      BY <2>2 DEF Sound, OutboxTyped, NoRow
    <2>4. \A i \in Messages : Placed(i)' = Placed(i)
      BY <1>1, <2>3 DEF Placed, Open
    <2>5. \A i \in Messages : msgs'[i].attempts = msgs[i].attempts
      BY <2>1, <2>3
    <2>6. UNCHANGED <<PlaceOf, ClaimsOf>>
      BY <2>4, <2>5 DEF PlaceOf, ClaimsOf
    <2> QED BY <2>6, WorkSteps
  <1>2. CASE msgs[m].status # "NONE"
    <2>1. PICK s \in Open \cup {"CANCELLED"} : Claimable(m) /\ msgs' = Marked(m, s)
      BY <1>2 DEF Requested
    <2>2. PlaceOf[m] = "open"
      BY <2>1, PlaceIs DEF Claimable
    <2>3. CASE s \in Open
      <3>1. PlaceOf' = PlaceOf /\ ClaimsOf' = ClaimsOf
        BY <2>1, <2>2, <2>3, MarkMoves, Stays DEF Sound
      <3> QED BY <3>1, WorkSteps
    <2>4. CASE s = "CANCELLED"
      <3>1. PlaceOf' = [PlaceOf EXCEPT ![m] = "ended"] /\ ClaimsOf' = ClaimsOf
        BY <2>1, <2>4, MarkMoves DEF Sound, Open, Ended
      <3> QED BY <2>2, <3>1, WorkSteps
    <2> QED BY <2>1, <2>3, <2>4
  <1> QED BY <1>1, <1>2

LEMMA OutboxStepIsWork ==
  ASSUME Sound, OutboxNext
  PROVE  WorkStep
  <1>u. ASSUME UNCHANGED <<msgs, decided>>
        PROVE  WorkStep
    <2>1. UNCHANGED <<PlaceOf, ClaimsOf, decided>>
      BY <1>u DEF PlaceOf, Placed, ClaimsOf
    <2>2. 1 \in Messages
      BY Bounds DEF Messages
    <2> QED BY <2>1, <2>2, WorkSteps
  <1>1. ASSUME NEW c \in Carriers, ProviderTakes(c) \/ ProviderFails(c) \/ Simulate(c)
        PROVE  WorkStep
    BY <1>1, <1>u DEF ProviderTakes, ProviderFails, Simulate, outcomes
  <1>2. ASSUME NEW c \in Carriers, SaveAnswer(c)
        PROVE  WorkStep
    <2>1. ~On(c, "idle") /\ \E s \in Ended \ Open : WriteIfHeld(c, s) /\ s # "FAILED"
      BY <1>2 DEF SaveAnswer, On, Ended, Open
    <2> QED BY <2>1, WriteIsDecision
  <1>3. ASSUME NEW c \in Carriers, SaveError(c)
        PROVE  WorkStep
    <2>1. ~On(c, "idle") /\ WriteIfHeld(c, IF calls[c].claim >= MaxAttempts THEN "FAILED_FINAL" ELSE "FAILED")
      BY <1>3 DEF SaveError, On
    <2>2. calls[c].claim \in Nat /\ MaxAttempts \in Nat
      BY Bounds DEF Sound, OutboxTyped, Calls
    <2>3. CASE calls[c].claim >= MaxAttempts
      <3>1. WriteIfHeld(c, "FAILED_FINAL") /\ "FAILED_FINAL" \in Ended \ Open
        BY <2>1, <2>3 DEF Ended, Open
      <3> QED BY <2>1, <3>1, WriteIsDecision
    <2>4. CASE calls[c].claim < MaxAttempts
      <3>1. WriteIfHeld(c, "FAILED")
        BY <2>1, <2>2, <2>4
      <3> QED BY <2>1, <2>4, <3>1, WriteIsDecision
    <2> QED BY <2>2, <2>3, <2>4
  <1>4. ASSUME NEW m \in Messages, Sweep(m)
        PROVE  WorkStep
    <2>1. CASE RequeueStale(m)
      BY <2>1, <1>u DEF RequeueStale, outcomes
    <2>2. CASE ExpireClaim(m)
      <3>1. msgs[m].status = "SENDING" /\ msgs' = Marked(m, "UNKNOWN") /\ UNCHANGED decided
        BY <2>2 DEF ExpireClaim, outcomes
      <3>2. PlaceOf[m] = "held" /\ PlaceOf' = [PlaceOf EXCEPT ![m] = "unsure"] /\ ClaimsOf' = ClaimsOf
        BY <3>1, PlaceIs, MarkMoves DEF Sound
      <3> QED BY <3>1, <3>2, WorkSteps
    <2> QED BY <1>4, <2>1, <2>2 DEF Sweep
  <1>5. ASSUME NEW m \in Messages, StaffRetry(m)
        PROVE  WorkStep
    <2>1. /\ msgs[m].status \in {"FAILED", "UNKNOWN"} /\ msgs[m].attempts < MaxAttempts
          /\ UNCHANGED decided /\ \E s \in Open : msgs' = Marked(m, s)
      BY <1>5 DEF StaffRetry, outcomes, Open
    <2>2. PlaceOf' = [PlaceOf EXCEPT ![m] = "open"] /\ ClaimsOf' = ClaimsOf /\ ClaimsOf[m] < MaxAttempts
      BY <2>1, PlaceIs, MarkMoves DEF Sound
    <2>3. PlaceOf[m] \in {"open", "unsure"}
      BY <2>1, PlaceIs DEF Open
    <2>4. CASE PlaceOf[m] = "open"
      BY <2>1, <2>2, <2>4, Stays, WorkSteps
    <2>5. CASE PlaceOf[m] = "unsure"
      BY <2>1, <2>2, <2>5, WorkSteps
    <2> QED BY <2>3, <2>4, <2>5
  <1> QED BY <1>1, <1>2, <1>3, <1>4, <1>5, TakeIsClaim DEF OutboxNext, Carry

LEMMA StepIsWork == Sound /\ [Next]_vars => WorkStep
  <1> SUFFICES ASSUME Sound, [Next]_vars
               PROVE  WorkStep
    OBVIOUS
  <1>1. ASSUME UNCHANGED <<msgs, decided>>
        PROVE  WorkStep
    <2>1. UNCHANGED <<PlaceOf, ClaimsOf, decided>>
      BY <1>1 DEF PlaceOf, Placed, ClaimsOf
    <2>2. 1 \in Messages
      BY Bounds DEF Messages
    <2> QED BY <2>1, <2>2, WorkSteps
  <1>2. ASSUME UNCHANGED outcomes, NEW m \in Messages, Requested(m)
        PROVE  WorkStep
    BY <1>2, RequestIsWork DEF outcomes
  <1> QED BY <1>1, <1>2, MessageSteps, OutboxStepIsWork DEF outcomes

\* However many carriers, duplicated entries, crashes, expired claims and edits of tasks there
\* are, the claims on messages are those of ClaimedWork.
THEOREM MessagesAreClaimedWork == Spec => ClaimsHold
  <1>1. Init => Claims!WorkInit
    BY DEF Init, OutboxInit, NoRow, Claims!WorkInit, Placed, Open
  <1>2. Sound /\ [Next]_vars => [Claims!WorkNext]_(Claims!workVars)
    BY StepIsWork DEF WorkStep
  <1> QED BY <1>1, <1>2, InitSound, StepSound, PTL DEF Spec, ClaimsHold, Claims!WorkSpec

-----------------------------------------------------------------------------
\* Confirmations are spent like permissions: the first attempt and every retry by staff are
\* one each. A carrier that has its answer still before it counts as a confirmation to come.

Flying(m) == {c \in Carriers : calls[c].m = m /\ calls[c].pc \in {"calling", "threw"}}

Waiting(m) == msgs[m].status \in {"NONE"} \cup Open

Allowed(m) == IF Waiting(m) THEN retried[m] ELSE retried[m] + 1

WithinAllowance == \A m \in Messages : confirmed[m] + Cardinality(Flying(m)) <= Allowed(m)

\* What a carrier reports as sent, and what is marked as sent, was confirmed.
ReportsTrue ==
  /\ \A c \in Carriers : On(c, "sent") => confirmed[calls[c].m] > 0
  /\ \A m \in Messages : msgs[m].status = "SENT" => confirmed[m] > 0

LEMMA FlyingFinite == \A m : IsFiniteSet(Flying(m)) /\ Cardinality(Flying(m)) \in Nat
  <1> SUFFICES ASSUME NEW m PROVE IsFiniteSet(Flying(m)) /\ Cardinality(Flying(m)) \in Nat
    OBVIOUS
  <1>1. Flying(m) \subseteq Carriers
    BY DEF Flying
  <1> QED BY <1>1, OutboxAssumption, FS_Subset, FS_CardinalityType

\* A step by which no more carriers fly than before and the allowance shrinks no further.
LEMMA NoMoreFly ==
  ASSUME OutboxTyped, OutboxTyped', WithinAllowance, NEW m \in Messages,
         Flying(m)' \subseteq Flying(m), confirmed'[m] = confirmed[m], Allowed(m) <= Allowed(m)'
  PROVE  confirmed'[m] + Cardinality(Flying(m)') <= Allowed(m)'
  <1>1. Cardinality(Flying(m)') \in Nat /\ Cardinality(Flying(m)) \in Nat
        /\ Cardinality(Flying(m)') <= Cardinality(Flying(m))
    BY FlyingFinite, FS_Subset, FS_CardinalityType
  <1>2. confirmed[m] + Cardinality(Flying(m)) <= Allowed(m)
    BY DEF WithinAllowance
  <1>3. confirmed[m] \in Nat /\ Allowed(m) \in Nat /\ Allowed(m)' \in Nat
    BY DEF OutboxTyped, Allowed
  <1> QED BY <1>1, <1>2, <1>3

\* A carrier that stops flying leaves room for one.
LEMMA OneLands ==
  ASSUME OutboxTyped, OutboxTyped', WithinAllowance, NEW m \in Messages, NEW c \in Flying(m),
         Flying(m)' = Flying(m) \ {c},
         \/ confirmed'[m] = confirmed[m] + 1 /\ Allowed(m)' = Allowed(m)
         \/ confirmed'[m] = confirmed[m] /\ Allowed(m) - 1 <= Allowed(m)'
  PROVE  confirmed'[m] + Cardinality(Flying(m)') <= Allowed(m)'
  <1>1. Cardinality(Flying(m)) \in Nat /\ Cardinality(Flying(m)') = Cardinality(Flying(m)) - 1
    BY FlyingFinite, FS_RemoveElement
  <1>2. confirmed[m] + Cardinality(Flying(m)) <= Allowed(m)
    BY DEF WithinAllowance
  <1>3. confirmed[m] \in Nat /\ Allowed(m) \in Nat /\ Allowed(m)' \in Nat
    BY DEF OutboxTyped, Allowed
  <1> QED BY <1>1, <1>2, <1>3

Books == Sound /\ WithinAllowance /\ ReportsTrue

LEMMA InitBooks == Init => Books
  <1> SUFFICES ASSUME Init PROVE WithinAllowance /\ ReportsTrue
    BY InitSound DEF Books
  <1>1. \A m \in Messages : Flying(m) = {}
    BY DEF Init, OutboxInit, NoCall, Flying
  <1>2. \A m \in Messages : Allowed(m) = 0 /\ confirmed[m] = 0
    BY DEF Init, OutboxInit, NoRow, Allowed, Waiting
  <1>3. WithinAllowance
    BY <1>1, <1>2, FS_EmptySet DEF WithinAllowance
  <1>4. ReportsTrue
    BY DEF Init, OutboxInit, NoCall, NoRow, ReportsTrue, On
  <1> QED BY <1>3, <1>4

\* Steps that confirm nothing and send no carrier off.
LEMMA OthersKeepBooks ==
  ASSUME Books, Sound', UNCHANGED <<confirmed, retried>>,
         \A m \in Messages : Flying(m)' \subseteq Flying(m) /\ (Waiting(m)' => Waiting(m))
                             /\ (msgs'[m].status = "SENT" => msgs[m].status = "SENT" \/ confirmed[m] > 0),
         \A c \in Carriers : On(c, "sent")' => On(c, "sent") /\ calls'[c] = calls[c]
  PROVE  WithinAllowance' /\ ReportsTrue'
  <1>1. \A m \in Messages : retried[m] \in Nat
    BY DEF Books, Sound, OutboxTyped
  <1>2. \A m \in Messages : Allowed(m) <= Allowed(m)'
    BY <1>1 DEF Allowed
  <1>3. \A m \in Messages : confirmed'[m] = confirmed[m]
    OBVIOUS
  <1>4. ASSUME NEW m \in Messages
        PROVE  confirmed'[m] + Cardinality(Flying(m)') <= Allowed(m)'
    BY <1>2, <1>3, NoMoreFly DEF Books, Sound
  <1>5. WithinAllowance'
    BY <1>4 DEF WithinAllowance
  <1>6. ReportsTrue'
    BY DEF Books, ReportsTrue
  <1> QED BY <1>5, <1>6

\* What a mark leaves of a row.
LEMMA MarkedRow ==
  ASSUME OutboxTyped, NEW m \in Messages, NEW s, msgs' = Marked(m, s)
  PROVE  msgs'[m].status = s /\ \A n \in Messages \ {m} : msgs'[n] = msgs[n]
  BY DEF OutboxTyped, Marked, Rows

LEMMA TakeKeepsBooks ==
  ASSUME Books, Sound', NEW c \in Carriers, NEW m \in Messages, TakeJob(c, m)
  PROVE  WithinAllowance' /\ ReportsTrue'
  <1>1. UNCHANGED <<confirmed, retried>>
    BY DEF TakeJob, outcomes
  <1>t. OutboxTyped /\ OutboxTyped' /\ WithinAllowance /\ ReportsTrue
    BY DEF Books, Sound
  <1>2. CASE Claimable(m)
    <2>1. PICK n : n = msgs[m].attempts + 1
      OBVIOUS
    <2>2. msgs' = [msgs EXCEPT ![m] = [msgs[m] EXCEPT !.status = "SENDING", !.attempts = n, !.sending = n]]
      BY <1>2, <2>1 DEF TakeJob
    <2>3. msgs'[m].status = "SENDING" /\ \A k \in Messages \ {m} : msgs'[k] = msgs[k]
      BY <1>t, <2>2 DEF OutboxTyped, Rows
    <2>4. calls' = [calls EXCEPT ![c] = [pc |-> "calling", m |-> m, claim |-> n]] /\ calls[c].pc = "idle"
      BY <1>2, <2>1 DEF TakeJob, On
    <2>5. calls'[c].pc = "calling" /\ calls'[c].m = m /\ \A d \in Carriers \ {c} : calls'[d] = calls[d]
      BY <1>t, <2>4 DEF OutboxTyped
    <2>6. Flying(m)' = Flying(m) \cup {c} /\ c \notin Flying(m)
      BY <2>4, <2>5 DEF Flying
    <2>7. \A k \in Messages \ {m} : Flying(k)' = Flying(k)
      BY <2>4, <2>5 DEF Flying
    <2>8. Cardinality(Flying(m)') = Cardinality(Flying(m)) + 1
      BY <2>6, FlyingFinite, FS_AddElement
    <2>9. Allowed(m)' = Allowed(m) + 1
      BY <1>1, <1>2, <2>3 DEF Allowed, Waiting, Claimable, Open
    <2>10. \A k \in Messages \ {m} : Allowed(k)' = Allowed(k)
      BY <1>1, <2>3 DEF Allowed, Waiting
    <2>11. confirmed[m] \in Nat /\ Allowed(m) \in Nat /\ Cardinality(Flying(m)) \in Nat
      BY <1>t, FlyingFinite DEF OutboxTyped, Allowed
    <2>12. confirmed'[m] + Cardinality(Flying(m)') <= Allowed(m)'
      BY <1>1, <1>t, <2>8, <2>9, <2>11 DEF WithinAllowance
    <2>13. \A k \in Messages \ {m} : confirmed'[k] + Cardinality(Flying(k)') <= Allowed(k)'
      BY <1>1, <1>t, <2>7, <2>10 DEF WithinAllowance
    <2>14. WithinAllowance'
      BY <2>12, <2>13 DEF WithinAllowance
    <2>15. ReportsTrue'
      BY <1>1, <1>t, <2>3, <2>5 DEF ReportsTrue, On
    <2> QED BY <2>14, <2>15
  <1>3. CASE ~Claimable(m)
    <2>1. UNCHANGED <<msgs, calls>>
      BY <1>3 DEF TakeJob
    <2> QED BY <1>1, <2>1, OthersKeepBooks DEF Flying, Waiting, On
  <1> QED BY <1>2, <1>3

LEMMA CarryKeepsBooks ==
  ASSUME Books, Sound', NEW c \in Carriers, Carry(c)
  PROVE  WithinAllowance' /\ ReportsTrue'
  <1>t. OutboxTyped /\ OutboxTyped' /\ WithinAllowance /\ ReportsTrue
    BY DEF Books, Sound
  <1>i. ~On(c, "idle")
    BY DEF Carry, ProviderTakes, ProviderFails, Simulate, SaveAnswer, SaveError, On
  <1>m. PICK m \in Messages : m = calls[c].m
    BY <1>t, <1>i DEF OutboxTyped
  <1>s. ASSUME NEW step, Step(c, step)
        PROVE  /\ calls'[c].pc = step /\ calls'[c].m = m
               /\ \A d \in Carriers \ {c} : calls'[d] = calls[d]
    BY <1>s, <1>t, <1>m DEF Step, OutboxTyped, Calls
  <1>e. ASSUME calls' = [calls EXCEPT ![c] = NoCall]
        PROVE  /\ calls'[c].pc = "idle"
               /\ \A d \in Carriers \ {c} : calls'[d] = calls[d]
    BY <1>e, <1>t DEF OutboxTyped, NoCall
  <1>w. ASSUME NEW s, WriteIfHeld(c, s)
        PROVE  /\ \A n \in Messages \ {m} : msgs'[n] = msgs[n]
               /\ \/ msgs' = msgs
                  \/ msgs[m].status = "SENDING" /\ msgs'[m].status = s
    BY <1>w, <1>t, <1>m, MarkedRow DEF WriteIfHeld, StillHeld
  <1>1. CASE ProviderTakes(c)
    <2>1. On(c, "calling") /\ Step(c, "sent") /\ UNCHANGED <<msgs, retried>>
          /\ confirmed' = [confirmed EXCEPT ![m] = @ + 1]
      BY <1>1, <1>m DEF ProviderTakes
    <2>2. confirmed'[m] = confirmed[m] + 1 /\ \A n \in Messages \ {m} : confirmed'[n] = confirmed[n]
      BY <1>t, <2>1 DEF OutboxTyped
    <2>3. c \in Flying(m) /\ Flying(m)' = Flying(m) \ {c}
      BY <1>m, <1>s, <2>1 DEF Flying, On
    <2>4. \A n \in Messages \ {m} : Flying(n)' \subseteq Flying(n)
      BY <1>m, <1>s, <2>1 DEF Flying, On
    <2>5. \A n \in Messages : Allowed(n)' = Allowed(n) /\ Allowed(n) \in Nat
      BY <1>t, <2>1 DEF Allowed, Waiting, OutboxTyped
    <2>6. confirmed'[m] + Cardinality(Flying(m)') <= Allowed(m)'
      BY <1>t, <2>2, <2>3, <2>5, OneLands
    <2>7. ASSUME NEW n \in Messages \ {m}
          PROVE  confirmed'[n] + Cardinality(Flying(n)') <= Allowed(n)'
      BY <1>t, <2>2, <2>4, <2>5, NoMoreFly
    <2>8. WithinAllowance'
      BY <2>6, <2>7 DEF WithinAllowance
    <2>9. \A n \in Messages : confirmed[n] \in Nat
      BY <1>t DEF OutboxTyped
    <2>10. ASSUME NEW d \in Carriers, On(d, "sent")'
           PROVE  confirmed'[calls'[d].m] > 0
      <3>1. CASE d = c
        BY <1>s, <2>1, <2>2, <2>9, <3>1
      <3>2. CASE d # c
        <4>1. On(d, "sent") /\ calls'[d].m = calls[d].m /\ calls[d].m \in Messages
          BY <1>s, <1>t, <2>1, <2>10, <3>2 DEF On, OutboxTyped
        <4>2. confirmed[calls[d].m] > 0
          BY <1>t, <4>1 DEF ReportsTrue
        <4> QED BY <2>2, <2>9, <4>1, <4>2
      <3> QED BY <3>1, <3>2
    <2>11. ASSUME NEW n \in Messages, msgs'[n].status = "SENT"
           PROVE  confirmed'[n] > 0
      BY <1>t, <2>1, <2>2, <2>9, <2>11 DEF ReportsTrue
    <2> QED BY <2>8, <2>10, <2>11 DEF ReportsTrue
  <1>2. CASE ProviderFails(c) \/ Simulate(c)
    <2>1. On(c, "calling") /\ UNCHANGED <<msgs, confirmed, retried>>
          /\ \E step \in {"threw", "simulated"} : Step(c, step)
      BY <1>2 DEF ProviderFails, Simulate, outcomes
    <2>2. calls'[c].pc \in {"threw", "simulated"} /\ calls'[c].m = m
          /\ \A d \in Carriers \ {c} : calls'[d] = calls[d]
      BY <1>s, <2>1
    <2>3. \A n \in Messages : Flying(n)' \subseteq Flying(n)
      BY <1>m, <2>1, <2>2 DEF Flying, On
    <2>4. \A d \in Carriers : On(d, "sent")' => On(d, "sent") /\ calls'[d] = calls[d]
      BY <2>2 DEF On
    <2>5. \A n \in Messages : (Waiting(n)' => Waiting(n)) /\ (msgs'[n].status = "SENT" => msgs[n].status = "SENT")
      BY <2>1 DEF Waiting
    <2> QED BY <2>1, <2>3, <2>4, <2>5, OthersKeepBooks
  <1>3. CASE SaveAnswer(c)
    <2>1. /\ calls' = [calls EXCEPT ![c] = NoCall] /\ UNCHANGED <<confirmed, retried>>
          /\ \/ On(c, "sent") /\ WriteIfHeld(c, "SENT")
             \/ On(c, "simulated") /\ WriteIfHeld(c, "SIMULATED")
      BY <1>3 DEF SaveAnswer
    <2>2. \A n \in Messages : Flying(n)' \subseteq Flying(n)
      BY <1>e, <2>1 DEF Flying
    <2>3. \A d \in Carriers : On(d, "sent")' => On(d, "sent") /\ calls'[d] = calls[d]
      BY <1>e, <2>1 DEF On
    <2>4. On(c, "sent") => confirmed[m] > 0
      BY <1>m, <1>t DEF ReportsTrue
    <2>5. \A n \in Messages : (Waiting(n)' => Waiting(n))
                              /\ (msgs'[n].status = "SENT" => msgs[n].status = "SENT" \/ confirmed[n] > 0)
      BY <1>w, <2>1, <2>4 DEF Waiting, Open
    <2> QED BY <2>1, <2>2, <2>3, <2>5, OthersKeepBooks
  <1>4. CASE SaveError(c)
    <2>1. /\ calls' = [calls EXCEPT ![c] = NoCall] /\ UNCHANGED <<confirmed, retried>> /\ On(c, "threw")
          /\ \E s \in {"FAILED", "FAILED_FINAL"} : WriteIfHeld(c, s)
      BY <1>4 DEF SaveError
    <2>2. c \in Flying(m) /\ Flying(m)' = Flying(m) \ {c}
      BY <1>e, <1>m, <2>1 DEF Flying, On
    <2>3. \A n \in Messages \ {m} : Flying(n)' \subseteq Flying(n)
      BY <1>e, <2>1 DEF Flying
    <2>4. \A n \in Messages \ {m} : msgs'[n] = msgs[n]
      BY <1>w, <2>1
    <2>5. \A n \in Messages : retried[n] \in Nat
      BY <1>t DEF OutboxTyped
    <2>6. Allowed(m) - 1 <= Allowed(m)' /\ \A n \in Messages \ {m} : Allowed(n) <= Allowed(n)'
      BY <2>1, <2>4, <2>5 DEF Allowed, Waiting
    <2>7. confirmed'[m] + Cardinality(Flying(m)') <= Allowed(m)'
      BY <1>t, <2>1, <2>2, <2>6, OneLands
    <2>8. ASSUME NEW n \in Messages \ {m}
          PROVE  confirmed'[n] + Cardinality(Flying(n)') <= Allowed(n)'
      BY <1>t, <2>1, <2>3, <2>6, NoMoreFly
    <2>9. WithinAllowance'
      BY <2>7, <2>8 DEF WithinAllowance
    <2>10. \A d \in Carriers : On(d, "sent")' => On(d, "sent") /\ calls'[d] = calls[d]
      BY <1>e, <2>1 DEF On
    <2>11. \A n \in Messages : msgs'[n].status = "SENT" => msgs[n].status = "SENT"
      BY <1>w, <2>1
    <2>12. ReportsTrue'
      BY <1>t, <2>1, <2>10, <2>11 DEF ReportsTrue
    <2> QED BY <2>9, <2>12
  <1> QED BY <1>1, <1>2, <1>3, <1>4 DEF Carry

LEMMA StepBooks == Books /\ [Next]_vars => Books'
  <1> SUFFICES ASSUME Books, [Next]_vars
               PROVE  WithinAllowance' /\ ReportsTrue'
    BY StepSound DEF Books
  <1>t. Sound /\ Sound' /\ OutboxTyped /\ OutboxTyped' /\ WithinAllowance /\ ReportsTrue
    BY StepSound DEF Books, Sound
  <1>1. ASSUME NEW c \in Carriers, NEW m \in Messages, TakeJob(c, m)
        PROVE  WithinAllowance' /\ ReportsTrue'
    BY <1>1, <1>t, TakeKeepsBooks
  <1>2. ASSUME NEW c \in Carriers, Carry(c)
        PROVE  WithinAllowance' /\ ReportsTrue'
    BY <1>2, <1>t, CarryKeepsBooks
  <1>3. ASSUME NEW m \in Messages, Sweep(m)
        PROVE  WithinAllowance' /\ ReportsTrue'
    <2>1. UNCHANGED <<calls, confirmed, retried>>
          /\ (UNCHANGED msgs \/ (msgs[m].status = "SENDING" /\ msgs' = Marked(m, "UNKNOWN")))
      BY <1>3 DEF Sweep, RequeueStale, ExpireClaim, outcomes
    <2>2. \A n \in Messages : (Waiting(n)' => Waiting(n)) /\ (msgs'[n].status = "SENT" => msgs[n].status = "SENT")
      BY <1>t, <2>1, MarkedRow DEF Waiting, Open
    <2> QED BY <2>1, <2>2, <1>t, OthersKeepBooks DEF Flying, On
  <1>4. ASSUME NEW m \in Messages, StaffRetry(m)
        PROVE  WithinAllowance' /\ ReportsTrue'
    <2>1. /\ UNCHANGED <<calls, confirmed>> /\ retried' = [retried EXCEPT ![m] = @ + 1]
          /\ \E s \in Open : msgs' = Marked(m, s)
      BY <1>4 DEF StaffRetry, outcomes, Open
    <2>2. msgs'[m].status \in Open /\ \A n \in Messages \ {m} : msgs'[n] = msgs[n]
      BY <1>t, <2>1, MarkedRow
    <2>3. /\ \A n \in Messages : retried[n] \in Nat
          /\ retried'[m] = retried[m] + 1 /\ \A n \in Messages \ {m} : retried'[n] = retried[n]
      BY <1>t, <2>1 DEF OutboxTyped
    <2>4. \A n \in Messages : Allowed(n) <= Allowed(n)'
      BY <2>2, <2>3 DEF Allowed, Waiting
    <2>5. \A n \in Messages : Flying(n)' = Flying(n)
      BY <2>1 DEF Flying
    <2>6. ASSUME NEW n \in Messages
          PROVE  confirmed'[n] + Cardinality(Flying(n)') <= Allowed(n)'
      BY <1>t, <2>1, <2>4, <2>5, NoMoreFly
    <2>7. WithinAllowance'
      BY <2>6 DEF WithinAllowance
    <2>8. ReportsTrue'
      BY <1>t, <2>1, <2>2 DEF ReportsTrue, On, Open
    <2> QED BY <2>7, <2>8
  <1>5. CASE UNCHANGED <<calls, outcomes, retried>> /\ UNCHANGED msgs
    BY <1>5, <1>t, OthersKeepBooks DEF Flying, Waiting, On, outcomes
  <1>6. ASSUME UNCHANGED <<calls, outcomes, retried>>, NEW m \in Messages, Requested(m)
        PROVE  WithinAllowance' /\ ReportsTrue'
    <2>1. Waiting(m)
      BY <1>6 DEF Requested, Claimable, Waiting
    <2>2. msgs'[m].status # "SENT" /\ \A n \in Messages \ {m} : msgs'[n] = msgs[n]
      <3>1. CASE \E s \in Open \cup {"CANCELLED"} : msgs' = Marked(m, s)
        BY <1>t, <3>1, MarkedRow DEF Open
      <3>2. ASSUME NEW p, msgs' = [msgs EXCEPT ![m] = [NoRow EXCEPT !.status = "QUEUED", !.to = p]]
            PROVE  msgs'[m].status # "SENT" /\ \A n \in Messages \ {m} : msgs'[n] = msgs[n]
        BY <1>t, <3>2 DEF OutboxTyped, NoRow
      <3> QED BY <1>6, <3>1, <3>2 DEF Requested
    <2>3. \A n \in Messages : (Waiting(n)' => Waiting(n)) /\ (msgs'[n].status = "SENT" => msgs[n].status = "SENT")
      BY <2>1, <2>2 DEF Waiting
    <2> QED BY <1>6, <1>t, <2>3, OthersKeepBooks DEF Flying, On, outcomes
  <1>7. CASE calls' = [c \in Carriers |-> NoCall] /\ UNCHANGED <<msgs, outcomes, retried>>
    <2>1. \A n \in Messages : Flying(n)' = {}
      BY <1>7 DEF Flying, NoCall
    <2>2. \A c \in Carriers : ~On(c, "sent")'
      BY <1>7 DEF On, NoCall
    <2>3. \A n \in Messages : Flying(n)' \subseteq Flying(n)
      BY <2>1
    <2>4. \A n \in Messages : (Waiting(n)' => Waiting(n)) /\ (msgs'[n].status = "SENT" => msgs[n].status = "SENT")
      BY <1>7 DEF Waiting
    <2> QED BY <1>7, <1>t, <2>2, <2>3, <2>4, OthersKeepBooks DEF outcomes
  <1> QED BY <1>1, <1>2, <1>3, <1>4, <1>5, <1>6, <1>7, <1>t, MessageSteps DEF OutboxNext

\* The provider confirms a message once, and once more for each retry that a person orders,
\* whatever crashes, queues and cron jobs do in between.
THEOREM ConfirmedWithinRetries == Spec => []NoSilentDuplicate
  <1>1. Books => NoSilentDuplicate
    <2> SUFFICES ASSUME Books, NEW m \in Messages
                 PROVE  confirmed[m] <= 1 + retried[m]
      BY DEF NoSilentDuplicate
    <2>1. confirmed[m] + Cardinality(Flying(m)) <= Allowed(m)
      BY DEF Books, WithinAllowance
    <2>2. Cardinality(Flying(m)) \in Nat /\ confirmed[m] \in Nat /\ retried[m] \in Nat
      BY FlyingFinite DEF Books, Sound, OutboxTyped
    <2> QED BY <2>1, <2>2 DEF Allowed
  <1> QED BY <1>1, InitBooks, StepBooks, PTL DEF Spec

\* What is marked as sent was confirmed by the provider.
THEOREM SentMeansTaken == Spec => []SentWasTaken
  <1>1. Books => SentWasTaken
    BY DEF Books, ReportsTrue, SentWasTaken
  <1> QED BY <1>1, InitBooks, StepBooks, PTL DEF Spec

-----------------------------------------------------------------------------
\* What is shown as delivered was taken by the provider, and a message under the row's own key
\* is to the employee the row is for, however many runs of the cron job overlap.

LinkedIn(row, ms, lastKey) ==
  /\ row.key <= lastKey
  /\ row.status \in Active => row.key # 0
  /\ row.message # 0 => row.message \in Messages /\ ms[row.message].status # "NONE"
  /\ row.status = "QUEUED" => row.message # 0

\* The message that a row names was written, and a row that was handed over names one.
Linked(row) == LinkedIn(row, msgs, minted)

ShownIn(row, ms) == row.status = "DELIVERED" => row.message # 0 /\ ms[row.message].status = "SENT"

Shown(row) == ShownIn(row, msgs)

Written(m) == msgs[m].status # "NONE"

Owned == reminder.key # 0 /\ Written(reminder.key) => msgs[reminder.key].to = reminder.for

\* No message is written before its key is given out.
KeysFresh ==
  /\ edits \in 0 .. MaxEdits /\ minted <= edits + 1
  /\ \A m \in Messages : Written(m) => m <= minted

\* A key belongs to one employee: the row a run works with is for the employee of its key.
Working(t) ==
  /\ Linked(Seen(t)) /\ Seen(t).status \in Active
  /\ reminder.key = Seen(t).key => reminder.for = Seen(t).for

JudgedIn(row, ms) ==
  /\ row.message # 0 => row.message \in Messages /\ ms[row.message].status # "NONE"
  /\ row.status = "QUEUED" => row.message # 0
  /\ ShownIn(row, ms)

RunSound(t) ==
  /\ ~In(t, "idle") => Working(t)
  /\ ticks[t].pc \in {"requeue", "add", "hand"} => Written(Seen(t).key)
  /\ In(t, "write") => JudgedIn(ticks[t].verdict, msgs)

RowSound == Linked(reminder) /\ Owned /\ KeysFresh /\ Shown(reminder)

AddressInv == RowSound /\ \A t \in Ticks : RunSound(t)

-----------------------------------------------------------------------------
\* Messages keep their recipient, and what is sent stays sent.

Kept ==
  \A m \in Messages :
    /\ msgs[m].status # "NONE" => msgs'[m].status # "NONE" /\ msgs'[m].to = msgs[m].to
    /\ msgs[m].status = "SENT" => msgs'[m].status = "SENT"

NoneWritten == \A m \in Messages : msgs[m].status = "NONE" => msgs'[m].status = "NONE"

LEMMA MarkKeeps ==
  ASSUME OutboxTyped, NEW m \in Messages, msgs[m].status \notin {"NONE", "SENT"},
         NEW s, s # "NONE", msgs' = Marked(m, s)
  PROVE  Kept /\ NoneWritten
  BY DEF OutboxTyped, Marked, Rows, Kept, NoneWritten

LEMMA OutboxKeeps ==
  ASSUME OutboxTyped, OutboxNext
  PROVE  Kept /\ NoneWritten
  <1>s. msgs' = msgs => Kept /\ NoneWritten
    BY DEF Kept, NoneWritten
  <1>1. ASSUME NEW c \in Carriers, NEW m \in Messages, TakeJob(c, m)
        PROVE  Kept /\ NoneWritten
    <2>1. CASE Claimable(m)
      <3>1. PICK n : n = msgs[m].attempts + 1
        OBVIOUS
      <3>2. msgs' = [msgs EXCEPT ![m] = [msgs[m] EXCEPT !.status = "SENDING", !.attempts = n, !.sending = n]]
        BY <1>1, <2>1, <3>1 DEF TakeJob
      <3>3. msgs[m].status \in {"QUEUED", "FAILED"} /\ msgs[m] \in Rows
        BY <2>1 DEF Claimable, Open, OutboxTyped
      <3> QED BY <3>2, <3>3 DEF OutboxTyped, Rows, Kept, NoneWritten
    <2>2. CASE ~Claimable(m)
      BY <1>1, <1>s, <2>2 DEF TakeJob
    <2> QED BY <2>1, <2>2
  <1>2. ASSUME NEW c \in Carriers, ~On(c, "idle"), NEW s, s # "NONE", WriteIfHeld(c, s)
        PROVE  Kept /\ NoneWritten
    <2>1. calls[c].m \in Messages
      BY <1>2 DEF OutboxTyped
    <2> QED BY <1>2, <1>s, <2>1, MarkKeeps DEF WriteIfHeld, StillHeld
  <1>3. ASSUME NEW c \in Carriers, Carry(c)
        PROVE  Kept /\ NoneWritten
    <2>1. \/ UNCHANGED msgs
          \/ ~On(c, "idle") /\ \E s \in {"SENT", "SIMULATED", "FAILED", "FAILED_FINAL"} : WriteIfHeld(c, s)
      BY <1>3 DEF Carry, ProviderTakes, ProviderFails, Simulate, SaveAnswer, SaveError, On
    <2> QED BY <1>2, <1>s, <2>1
  <1>4. ASSUME NEW m \in Messages, Sweep(m) \/ StaffRetry(m)
        PROVE  Kept /\ NoneWritten
    <2>1. \/ UNCHANGED msgs
          \/ /\ msgs[m].status \in {"SENDING", "FAILED", "UNKNOWN"}
             /\ \E s \in {"UNKNOWN", "QUEUED", "FAILED"} : msgs' = Marked(m, s)
      BY <1>4 DEF Sweep, RequeueStale, ExpireClaim, StaffRetry
    <2> QED BY <1>s, <2>1, MarkKeeps
  <1> QED BY <1>1, <1>3, <1>4 DEF OutboxNext

LEMMA CancelKeeps ==
  ASSUME OutboxTyped, NEW m, msgs' = CancelMessage(m)
  PROVE  Kept /\ NoneWritten
  <1>s. msgs' = msgs => Kept /\ NoneWritten
    BY DEF Kept, NoneWritten
  <1>1. CASE m \in Messages
    BY <1>1, <1>s, MarkKeeps DEF CancelMessage
  <1>2. CASE m \notin Messages
    BY <1>2, <1>s DEF CancelMessage, Marked, OutboxTyped
  <1> QED BY <1>1, <1>2

LEMMA LinkedKept ==
  ASSUME Kept, NEW row \in AnyReminder, NEW k \in Nat, NEW l \in Nat, k <= l
  PROVE  /\ LinkedIn(row, msgs, k) => LinkedIn(row, msgs', l)
         /\ LinkedIn(row, msgs, k) /\ ShownIn(row, msgs) => ShownIn(row, msgs')
         /\ JudgedIn(row, msgs) => JudgedIn(row, msgs')
  <1>1. row.key \in Nat
    BY DEF AnyReminder
  <1> QED BY <1>1 DEF LinkedIn, ShownIn, JudgedIn, Kept

LEMMA KeysFit ==
  ASSUME Sound, KeysFresh
  PROVE  minted \in Nat /\ minted <= MaxMessages /\ (edits < MaxEdits => minted + 1 \in Messages)
  BY Bounds, RemindersAssumption DEF KeysFresh, Sound, RemindersTyped, Messages

LEMMA LinkedKey ==
  ASSUME Sound, KeysFresh, NEW row \in AnyReminder, Linked(row), row.key # 0
  PROVE  row.key \in Messages
  <1>1. row.key \in Nat /\ row.key <= minted
    BY DEF AnyReminder, Linked, LinkedIn
  <1> QED BY <1>1, Bounds, KeysFit DEF Messages

\* A row that keeps its key and whom it is for stays theirs, and keys stay fresh.
LEMMA KeysKept ==
  ASSUME Sound, RowSound, Kept, NoneWritten, UNCHANGED <<minted, edits>>,
         reminder'.key = reminder.key, reminder'.for = reminder.for
  PROVE  Owned' /\ KeysFresh'
  <1>1. reminder.key # 0 => reminder.key \in Messages
    BY LinkedKey DEF Sound, RemindersTyped, RowSound
  <1>2. Owned'
    BY <1>1 DEF RowSound, Owned, Written, Kept, NoneWritten
  <1>3. KeysFresh'
    BY DEF RowSound, KeysFresh, Written, NoneWritten
  <1> QED BY <1>2, <1>3

LEMMA RowKept ==
  ASSUME Sound, RowSound, Kept, NoneWritten, UNCHANGED <<reminder, minted, edits>>
  PROVE  RowSound'
  <1>1. reminder \in AnyReminder /\ minted \in Nat
    BY DEF Sound, RemindersTyped
  <1>2. Linked(reminder)' /\ Shown(reminder)'
    BY <1>1, LinkedKept DEF RowSound, Linked, Shown
  <1> QED BY <1>2, KeysKept DEF RowSound

\* What a run goes by stays sound, unless its key went to somebody else.
LEMMA RunKept ==
  ASSUME Sound, KeysFresh, NEW t \in Ticks, RunSound(t), Kept, minted' \in Nat, minted <= minted',
         ticks'[t] = ticks[t],
         ~In(t, "idle") /\ reminder'.key = Seen(t).key => reminder'.for = Seen(t).for
  PROVE  RunSound(t)'
  <1>1. minted \in Nat /\ Seen(t) \in AnyReminder /\ ticks[t].verdict \in AnyReminder
    BY DEF Sound, RemindersTyped, Seen
  <1>2. Seen(t)' = Seen(t) /\ (In(t, "idle")' <=> In(t, "idle")) /\ (In(t, "write")' <=> In(t, "write"))
    BY DEF Seen, In
  <1>3. ~In(t, "idle") => Working(t)'
    BY <1>1, <1>2, LinkedKept DEF RunSound, Working, Linked
  <1>4. In(t, "write") => JudgedIn(ticks[t].verdict, msgs)'
    BY <1>1, LinkedKept DEF RunSound
  <1>5. ticks[t].pc \in {"requeue", "add", "hand"} => Written(Seen(t).key)'
    <2> SUFFICES ASSUME ticks[t].pc \in {"requeue", "add", "hand"} PROVE Written(Seen(t).key)'
      OBVIOUS
    <2>1. Written(Seen(t).key) /\ Working(t)
      BY DEF RunSound, In
    <2>2. Seen(t).key \in Messages
      BY <1>1, <2>1, LinkedKey DEF Working, Linked, LinkedIn
    <2> QED BY <1>2, <2>1, <2>2 DEF Written, Kept
  <1> QED BY <1>2, <1>3, <1>4, <1>5 DEF RunSound

\* The row after a change of the task.
LEMMA SyncSound ==
  ASSUME Sound, RowSound, NEW p \in People \cup {Nobody}, NEW on \in BOOLEAN, Sync(p, on),
         edits < MaxEdits, edits' = edits + 1
  PROVE  /\ Kept /\ minted' \in {minted, minted + 1}
         /\ RowSound'
         /\ \/ reminder'.key = reminder.key /\ reminder'.for = reminder.for
            \/ reminder'.key = minted + 1
  <1>t. /\ minted \in Nat /\ minted <= MaxMessages /\ minted + 1 \in Messages
        /\ reminder \in AnyReminder /\ OutboxTyped
        /\ Linked(reminder) /\ Owned /\ KeysFresh /\ Shown(reminder)
    BY KeysFit DEF Sound, RemindersTyped, RowSound
  <1>1. Kept /\ NoneWritten
    BY <1>t, CancelKeeps DEF Sync, Kept, NoneWritten
  <1>2. minted' \in {minted, minted + 1}
    BY DEF Sync
  <1>3. minted' \in Nat /\ minted <= minted'
    BY <1>t, <1>2
  <1>4. KeysFresh'
    <2>1. \A m \in Messages : Written(m)' => m <= minted
      BY <1>t, <1>1 DEF KeysFresh, NoneWritten, Written
    <2>2. \A m \in Messages : Written(m)' => m <= minted'
      BY <1>t, <1>2, <2>1 DEF Messages
    <2>3. edits' \in 0 .. MaxEdits /\ minted' <= edits' + 1
      BY <1>t, <1>2, RemindersAssumption DEF KeysFresh
    <2> QED BY <2>2, <2>3 DEF KeysFresh
  <1>5. CASE reminder' = Renewed(p) /\ minted' = minted + 1
    <2>1. /\ reminder'.status = "PENDING" /\ reminder'.key = minted + 1
          /\ reminder'.message = 0 /\ reminder'.for = p
      BY <1>5 DEF Renewed, Pending, NoReminder
    <2>2. msgs[minted + 1].status = "NONE"
      BY <1>t DEF KeysFresh, Written
    <2>3. msgs'[minted + 1].status = "NONE"
      BY <1>t, <1>1, <2>2 DEF NoneWritten
    <2>4. Linked(reminder)' /\ Shown(reminder)' /\ Owned'
      BY <1>t, <1>5, <2>1, <2>3 DEF Linked, LinkedIn, Shown, ShownIn, Owned, Written
    <2> QED BY <1>1, <1>2, <1>4, <2>1, <2>4 DEF RowSound
  <1>6. ASSUME minted' = minted, reminder'.key = reminder.key, reminder'.for = reminder.for,
               reminder'.message = reminder.message,
               reminder' = reminder \/ reminder'.status \in {"PENDING", "CANCELLED"},
               reminder'.status \in Active => reminder.status \in Active
        PROVE  RowSound'
    <2>1. LinkedIn(reminder, msgs', minted') /\ ShownIn(reminder, msgs')
      BY <1>t, <1>1, <1>3, LinkedKept DEF Linked, Shown
    <2>2. Linked(reminder)' /\ Shown(reminder)'
      BY <1>6, <2>1 DEF Linked, LinkedIn, Shown, ShownIn
    <2>3. reminder.key # 0 => reminder.key \in Messages
      BY <1>t, LinkedKey
    <2>4. Owned'
      BY <1>t, <1>1, <1>6, <2>3 DEF Owned, Written, Kept, NoneWritten
    <2> QED BY <1>4, <2>2, <2>4 DEF RowSound
  <1>7. CASE reminder' = [WithStatus("PENDING") EXCEPT !.attempts = 0] /\ minted' = minted
             /\ reminder.status = "FAILED"
    <2>1. /\ reminder'.status = "PENDING" /\ reminder'.key = reminder.key
          /\ reminder'.message = reminder.message /\ reminder'.for = reminder.for
      BY <1>t, <1>7 DEF WithStatus, AnyReminder
    <2> QED BY <1>1, <1>2, <1>6, <1>7, <2>1 DEF Active
  <1>8. CASE reminder' = WithStatus("CANCELLED") /\ minted' = minted
    <2>1. /\ reminder'.status = "CANCELLED" /\ reminder'.key = reminder.key
          /\ reminder'.message = reminder.message /\ reminder'.for = reminder.for
      BY <1>t, <1>8 DEF WithStatus, AnyReminder
    <2> QED BY <1>1, <1>2, <1>6, <1>8, <2>1 DEF Active
  <1>9. CASE reminder' = reminder /\ minted' = minted
    BY <1>1, <1>2, <1>6, <1>9
  <1>10. \/ reminder' = Renewed(p) /\ minted' = minted + 1
         \/ reminder' = [WithStatus("PENDING") EXCEPT !.attempts = 0] /\ minted' = minted
            /\ reminder.status = "FAILED"
         \/ reminder' = WithStatus("CANCELLED") /\ minted' = minted
         \/ reminder' = reminder /\ minted' = minted
    BY DEF Sync
  <1> QED BY <1>5, <1>7, <1>8, <1>9, <1>10

\* Staff change the task: a run under way goes by a key that is not given out again.
LEMMA StaffAddress ==
  ASSUME Sound, AddressInv, Staff
  PROVE  AddressInv'
  <1>t. task.for \in People \cup {Nobody} /\ task.on \in BOOLEAN /\ RowSound /\ minted \in Nat
    BY DEF Sound, RemindersTyped, AddressInv
  <1>1. ASSUME NEW p \in People \cup {Nobody}, NEW on \in BOOLEAN, NEW open, NEW on2,
               Sync(p, on), Edit(p, open, on2)
        PROVE  AddressInv'
    <2>1. edits < MaxEdits /\ edits' = edits + 1 /\ ticks' = ticks
      BY <1>1 DEF Edit
    <2>2. /\ Kept /\ minted' \in {minted, minted + 1} /\ RowSound'
          /\ \/ reminder'.key = reminder.key /\ reminder'.for = reminder.for
             \/ reminder'.key = minted + 1
      BY <1>1, <1>t, <2>1, SyncSound
    <2>3. ASSUME NEW t \in Ticks
          PROVE  RunSound(t)'
      <3>1. ~In(t, "idle") => Working(t)
        BY DEF AddressInv, RunSound
      <3>2. ASSUME ~In(t, "idle"), reminder'.key = Seen(t).key
            PROVE  reminder'.for = Seen(t).for
        <4>1. Seen(t).key <= minted /\ Seen(t).key \in Nat
          BY <3>1, <3>2 DEF Working, Linked, LinkedIn, Sound, RemindersTyped, Seen, AnyReminder
        <4>2. reminder'.key # minted + 1
          BY <1>t, <3>2, <4>1
        <4> QED BY <2>2, <3>1, <3>2, <4>2 DEF Working
      <3>3. minted' \in Nat /\ minted <= minted' /\ ticks'[t] = ticks[t]
        BY <1>t, <2>1, <2>2
      <3> QED BY <2>2, <3>2, <3>3, RunKept DEF AddressInv, RowSound
    <2> QED BY <2>2, <2>3 DEF AddressInv
  <1>2. ASSUME NEW p \in People \cup {Nobody}, Assign(p)
        PROVE  AddressInv'
    BY <1>1, <1>2, <1>t DEF Assign
  <1>3. ASSUME NEW on \in BOOLEAN, SetReminder(on)
        PROVE  AddressInv'
    BY <1>1, <1>3, <1>t DEF SetReminder
  <1>4. CASE Close
    BY <1>1, <1>4, <1>t DEF Close
  <1>5. CASE Proceed
    <2>1. CASE task.on /\ task.for # Nobody
      BY <1>1, <1>5, <1>t, <2>1 DEF Proceed
    <2>2. CASE ~(task.on /\ task.for # Nobody)
      <3>1. edits < MaxEdits /\ edits' = edits + 1 /\ UNCHANGED <<msgs, reminder, minted, ticks>>
        BY <1>5, <2>2 DEF Proceed, Edit
      <3>2. KeysFresh'
        BY <1>t, <3>1, RemindersAssumption DEF RowSound, KeysFresh, Written
      <3>3. RowSound'
        BY <1>t, <3>1, <3>2 DEF RowSound, Linked, Shown, Owned, Written
      <3>4. \A t \in Ticks : RunSound(t)'
        BY <3>1 DEF AddressInv, RunSound, Working, Linked, Written, Seen, In
      <3> QED BY <3>3, <3>4 DEF AddressInv
    <2> QED BY <2>1, <2>2
  <1> QED BY <1>2, <1>3, <1>4, <1>5 DEF Staff

-----------------------------------------------------------------------------
\* A run of the cron job, among others that stand still.

LEMMA TickMintsNone ==
  ASSUME NEW t \in Ticks, TickStep(t)
  PROVE  UNCHANGED <<minted, edits>>
  <1>1. CASE Look(t) \/ Settle(t) \/ ReadTask(t) \/ SendFind(t) \/ SendRequeue(t) \/ SendAdd(t)
    BY <1>1 DEF Look, Settle, ReadTask, SendFind, SendRequeue, SendAdd, reminderVars
  <1>2. CASE WriteVerdict(t) \/ ClaimReminder(t) \/ CancelReminder(t) \/ FailReminder(t) \/ HandOver(t)
    BY <1>2 DEF WriteVerdict, ClaimReminder, CancelReminder, FailReminder, HandOver
  <1> QED BY <1>1, <1>2 DEF TickStep

LEMMA OthersStand ==
  ASSUME Sound, NEW t \in Ticks, TickStep(t)
  PROVE  \A s \in Ticks \ {t} : ticks'[s] = ticks[s]
  <1>1. ASSUME Done(t) \/ \E step : Go(t, step)
        PROVE  \A s \in Ticks \ {t} : ticks'[s] = ticks[s]
    BY <1>1 DEF Done, Go, Sound, RemindersTyped
  <1>2. CASE Look(t) \/ Settle(t)
    BY <1>1, <1>2 DEF Look, Settle, Sound, RemindersTyped
  <1>3. CASE WriteVerdict(t) \/ ClaimReminder(t) \/ ReadTask(t) \/ CancelReminder(t) \/ FailReminder(t)
    BY <1>1, <1>3 DEF WriteVerdict, ClaimReminder, ReadTask, CancelReminder, FailReminder
  <1>4. CASE SendFind(t) \/ SendRequeue(t) \/ SendAdd(t) \/ HandOver(t)
    BY <1>1, <1>4 DEF SendFind, SendRequeue, SendAdd, HandOver
  <1> QED BY <1>2, <1>3, <1>4 DEF TickStep

\* A run leaves the row its key and whom it is for.
LEMMA RowOwned ==
  ASSUME Sound, NEW t \in Ticks, TickStep(t)
  PROVE  reminder'.key = reminder.key /\ reminder'.for = reminder.for
  <1>t. reminder \in AnyReminder
    BY DEF Sound, RemindersTyped
  <1>1. CASE Look(t) \/ Settle(t) \/ ReadTask(t) \/ SendFind(t) \/ SendRequeue(t) \/ SendAdd(t)
    BY <1>1 DEF Look, Settle, ReadTask, SendFind, SendRequeue, SendAdd, reminderVars
  <1>2. CASE WriteVerdict(t) \/ ClaimReminder(t)
    BY <1>2, <1>t DEF WriteVerdict, ClaimReminder, AnyReminder
  <1>3. CASE CancelReminder(t) \/ FailReminder(t) \/ HandOver(t)
    BY <1>3, <1>t DEF CancelReminder, FailReminder, HandOver, WhereProcessing, WithStatus, AnyReminder
  <1> QED BY <1>1, <1>2, <1>3 DEF TickStep

LEMMA OthersSound ==
  ASSUME Sound, AddressInv, NEW t \in Ticks, TickStep(t), Kept, RowSound', RunSound(t)'
  PROVE  AddressInv'
  <1>1. ASSUME NEW s \in Ticks \ {t}
        PROVE  RunSound(s)'
    <2>1. minted' \in Nat /\ minted <= minted'
      BY TickMintsNone DEF Sound, RemindersTyped
    <2>2. ticks'[s] = ticks[s] /\ RunSound(s)
      BY OthersStand DEF AddressInv
    <2>3. ~In(s, "idle") /\ reminder'.key = Seen(s).key => reminder'.for = Seen(s).for
      BY <2>2, RowOwned DEF RunSound, Working
    <2> QED BY <2>1, <2>2, <2>3, RunKept DEF AddressInv, RowSound
  <1> QED BY <1>1 DEF AddressInv

LEMMA RunOver ==
  ASSUME Sound, NEW t \in Ticks, Done(t)
  PROVE  RunSound(t)'
  <1>1. ticks'[t].pc = "idle"
    BY DEF Done, NoTick, Sound, RemindersTyped
  <1> QED BY <1>1 DEF RunSound, In

LEMMA GoneOn ==
  ASSUME Sound, NEW t \in Ticks, NEW step \in TickSteps, Go(t, step)
  PROVE  Seen(t)' = Seen(t) /\ ticks'[t].pc = step /\ ticks'[t].verdict = ticks[t].verdict
  BY DEF Sound, RemindersTyped, Go, Seen

\* A run that goes on from the same reading.
LEMMA RunGoesOn ==
  ASSUME Sound, AddressInv, NEW t \in Ticks, TickStep(t), ~In(t, "idle"), Kept,
         NEW step \in TickSteps \ {"write"}, Go(t, step),
         step \in {"requeue", "add", "hand"} => Written(Seen(t).key)'
  PROVE  RunSound(t)'
  <1>1. Seen(t)' = Seen(t) /\ ticks'[t].pc = step
    BY GoneOn
  <1>2. Working(t) /\ Seen(t) \in AnyReminder /\ minted \in Nat
    BY DEF AddressInv, RunSound, Sound, RemindersTyped, Seen
  <1>3. Linked(Seen(t))'
    BY <1>1, <1>2, LinkedKept, TickMintsNone DEF Working, Linked
  <1>4. Working(t)'
    BY <1>1, <1>2, <1>3, RowOwned DEF Working
  <1> QED BY <1>1, <1>4 DEF RunSound, In

\* The row that a run writes, messages left alone.
LEMMA RowRewritten ==
  ASSUME Sound, RowSound, NEW t \in Ticks, TickStep(t), UNCHANGED msgs,
         reminder'.status \in Active => reminder.status \in Active,
         JudgedIn(reminder', msgs)
  PROVE  RowSound'
  <1>1. Kept /\ NoneWritten
    BY DEF Kept, NoneWritten
  <1>2. Owned' /\ KeysFresh'
    BY <1>1, RowOwned, TickMintsNone, KeysKept
  <1>3. Linked(reminder)'
    BY RowOwned, TickMintsNone DEF RowSound, Linked, LinkedIn, JudgedIn
  <1>4. Shown(reminder)'
    BY DEF JudgedIn, Shown, ShownIn
  <1> QED BY <1>2, <1>3, <1>4 DEF RowSound

\* A run that reads, or that sends a message already written.
LEMMA ReadingAddress ==
  ASSUME Sound, AddressInv, NEW t \in Ticks, TickStep(t), Kept, NoneWritten, UNCHANGED reminder, RunSound(t)'
  PROVE  AddressInv'
  BY RowKept, TickMintsNone, OthersSound DEF AddressInv

LEMMA LookAddress ==
  ASSUME Sound, AddressInv, NEW t \in Ticks, TickStep(t), Look(t)
  PROVE  AddressInv'
  <1>1. UNCHANGED <<msgs, reminder, minted>> /\ Kept /\ NoneWritten
    BY DEF Look, SameOutbox, outboxVars, reminderVars, Kept, NoneWritten
  <1>2. Seen(t)' = reminder /\ ticks'[t].pc \in {"settle", "claim"}
    BY DEF Look, Sound, RemindersTyped, Seen
  <1>3. reminder.status \in Active /\ Linked(reminder)
    BY DEF Look, Due, Active, AddressInv, RowSound
  <1>4. RunSound(t)'
    BY <1>1, <1>2, <1>3 DEF RunSound, Working, Linked, In
  <1> QED BY <1>1, <1>4, ReadingAddress

\* What a run concludes names a message that was written, and DELIVERED one that was sent.
LEMMA VerdictJudged ==
  ASSUME Sound, RowSound, NEW seen \in AnyReminder, Linked(seen), seen.status \in Active
  PROVE  /\ JudgedIn(LateVerdict(seen), msgs)
         /\ seen.status = "QUEUED" => JudgedIn([seen EXCEPT !.status = Followed(msgs[seen.message].status)], msgs)
  <1>1. \A s : Followed(s) \in Settled /\ (Followed(s) = "DELIVERED" => s = "SENT")
    BY DEF Followed, Settled
  <1>2. seen.key \in Messages
    BY LinkedKey DEF RowSound, Linked, LinkedIn
  <1>3. JudgedIn(LateVerdict(seen), msgs)
    <2>1. PICK m : m = IF seen.message # 0 THEN seen.message ELSE seen.key
      OBVIOUS
    <2>2. m \in Messages /\ m # 0
      BY <1>2, <2>1 DEF Linked, LinkedIn, Messages
    <2>3. PICK s : s = msgs[m].status
      OBVIOUS
    <2>4. s = "NONE" => seen.message = 0
      BY <2>1, <2>3 DEF Linked, LinkedIn
    <2>5. PICK v : v = LateVerdict(seen)
      OBVIOUS
    <2>6. /\ v.status = IF s \in {"QUEUED", "SENDING"} THEN "QUEUED" ELSE Followed(s)
          /\ v.message = IF s = "NONE" THEN seen.message ELSE m
      BY <2>1, <2>3, <2>5 DEF LateVerdict, AnyReminder
    <2>7. v.message # 0 => v.message = m /\ s # "NONE"
      BY <2>4, <2>6
    <2>8. v.status = "QUEUED" => v.message # 0
      BY <1>1, <2>2, <2>6 DEF Settled
    <2>9. v.status = "DELIVERED" => v.message = m /\ s = "SENT"
      BY <1>1, <2>6
    <2> QED BY <2>2, <2>3, <2>5, <2>7, <2>8, <2>9 DEF JudgedIn, ShownIn
  <1>4. ASSUME seen.status = "QUEUED"
        PROVE  JudgedIn([seen EXCEPT !.status = Followed(msgs[seen.message].status)], msgs)
    <2>1. PICK v : v = [seen EXCEPT !.status = Followed(msgs[seen.message].status)]
      OBVIOUS
    <2>2. v.status = Followed(msgs[seen.message].status) /\ v.message = seen.message
      BY <2>1 DEF AnyReminder
    <2>3. seen.message # 0 /\ seen.message \in Messages /\ msgs[seen.message].status # "NONE"
      BY <1>4 DEF Linked, LinkedIn
    <2> QED BY <1>1, <2>1, <2>2, <2>3 DEF JudgedIn, ShownIn
  <1> QED BY <1>3, <1>4

LEMMA SettleAddress ==
  ASSUME Sound, AddressInv, NEW t \in Ticks, TickStep(t), Settle(t)
  PROVE  AddressInv'
  <1>1. UNCHANGED <<msgs, reminder, minted>> /\ Kept /\ NoneWritten
    BY DEF Settle, SameOutbox, outboxVars, reminderVars, Kept, NoneWritten
  <1>2. ~In(t, "idle") /\ RowSound /\ Working(t) /\ Seen(t) \in AnyReminder
    BY DEF AddressInv, RunSound, Settle, In, Sound, RemindersTyped, Seen
  <1>3. CASE Done(t)
    BY <1>1, <1>3, RunOver, ReadingAddress
  <1>4. CASE Go(t, "claim")
    BY <1>1, <1>2, <1>4, RunGoesOn, ReadingAddress DEF TickSteps
  <1>5. ASSUME NEW v, ticks' = [ticks EXCEPT ![t].pc = "write", ![t].verdict = v], JudgedIn(v, msgs)
        PROVE  AddressInv'
    <2>1. Seen(t)' = Seen(t) /\ ticks'[t].pc = "write" /\ ticks'[t].verdict = v
      BY <1>5 DEF Sound, RemindersTyped, Seen
    <2>2. RunSound(t)'
      BY <1>1, <1>2, <1>5, <2>1 DEF RunSound, Working, Linked, In
    <2> QED BY <1>1, <2>2, ReadingAddress
  <1>6. /\ JudgedIn(LateVerdict(Seen(t)), msgs)
        /\ Seen(t).status = "QUEUED"
             => JudgedIn([Seen(t) EXCEPT !.status = Followed(msgs[Seen(t).message].status)], msgs)
    BY <1>2, VerdictJudged DEF Working
  <1> QED BY <1>3, <1>4, <1>5, <1>6 DEF Settle

LEMMA WriteAddress ==
  ASSUME Sound, AddressInv, NEW t \in Ticks, TickStep(t), WriteVerdict(t)
  PROVE  AddressInv'
  <1>1. UNCHANGED msgs /\ Done(t) /\ Kept /\ NoneWritten
    BY DEF WriteVerdict, SameOutbox, outboxVars, Kept, NoneWritten
  <1>2. /\ RowSound /\ JudgedIn(ticks[t].verdict, msgs) /\ Seen(t).status \in Active
        /\ reminder \in AnyReminder
    BY DEF AddressInv, RunSound, WriteVerdict, In, Working, Sound, RemindersTyped
  <1>3. CASE ~AsSeen(t)
    BY <1>1, <1>3, RunOver, ReadingAddress DEF WriteVerdict
  <1>4. CASE AsSeen(t)
    <2>1. reminder'.status = ticks[t].verdict.status /\ reminder'.message = ticks[t].verdict.message
      BY <1>2, <1>4 DEF WriteVerdict, AnyReminder
    <2>2. JudgedIn(reminder', msgs) /\ reminder.status \in Active
      BY <1>2, <1>4, <2>1 DEF JudgedIn, ShownIn, AsSeen
    <2> QED BY <1>1, <1>2, <2>2, RowRewritten, RunOver, OthersSound
  <1> QED BY <1>3, <1>4

LEMMA ClaimAddress ==
  ASSUME Sound, AddressInv, NEW t \in Ticks, TickStep(t), ClaimReminder(t)
  PROVE  AddressInv'
  <1>1. UNCHANGED msgs /\ Kept /\ NoneWritten /\ ~In(t, "idle")
    BY DEF ClaimReminder, SameOutbox, outboxVars, Kept, NoneWritten, In
  <1>2. RowSound /\ Linked(reminder) /\ Seen(t).status \in Active /\ reminder \in AnyReminder
    BY <1>1 DEF AddressInv, RunSound, Working, RowSound, Sound, RemindersTyped
  <1>3. CASE UNCHANGED reminder /\ Done(t)
    BY <1>1, <1>3, RunOver, ReadingAddress
  <1>4. CASE /\ reminder' = [reminder EXCEPT !.status = "PROCESSING", !.attempts = @ + 1] /\ Go(t, "read")
             /\ reminder.status \in {"PENDING", "FAILED"} \/ AsSeen(t)
    <2>1. reminder'.status = "PROCESSING" /\ reminder'.message = reminder.message
      BY <1>2, <1>4 DEF AnyReminder
    <2>2. reminder.status \in Active
      BY <1>2, <1>4 DEF AsSeen, Active
    <2>3. JudgedIn(reminder', msgs)
      BY <1>2, <2>1 DEF Linked, LinkedIn, JudgedIn, ShownIn
    <2> QED BY <1>1, <1>2, <1>4, <2>2, <2>3, RowRewritten, RunGoesOn, OthersSound DEF TickSteps
  <1> QED BY <1>3, <1>4 DEF ClaimReminder

\* A run that goes on, and leaves the row alone.
LEMMA GoesOnAddress ==
  ASSUME Sound, AddressInv, NEW t \in Ticks, TickStep(t), ~In(t, "idle"), Kept, NoneWritten, UNCHANGED reminder,
         NEW step \in TickSteps \ {"write"}, Go(t, step),
         step \in {"requeue", "add", "hand"} => Written(Seen(t).key)'
  PROVE  AddressInv'
  BY RunGoesOn, ReadingAddress

LEMMA ReadAddress ==
  ASSUME Sound, AddressInv, NEW t \in Ticks, TickStep(t), ReadTask(t)
  PROVE  AddressInv'
  <1>1. ~In(t, "idle") /\ Kept /\ NoneWritten /\ UNCHANGED reminder
    BY DEF ReadTask, SameOutbox, outboxVars, reminderVars, Kept, NoneWritten, In
  <1>2. Go(t, "cancel") \/ Go(t, "fail") \/ Go(t, "find")
    BY DEF ReadTask
  <1> QED BY <1>1, <1>2, GoesOnAddress DEF TickSteps

LEMMA GiveUpAddress ==
  ASSUME Sound, AddressInv, NEW t \in Ticks, TickStep(t), CancelReminder(t) \/ FailReminder(t)
  PROVE  AddressInv'
  <1>1. UNCHANGED msgs /\ Done(t) /\ Kept /\ NoneWritten
    BY DEF CancelReminder, FailReminder, SameOutbox, outboxVars, Kept, NoneWritten
  <1>2. PICK s \in {"CANCELLED", "FAILED", "FAILED_FINAL"} : WhereProcessing(WithStatus(s))
    BY DEF CancelReminder, FailReminder
  <1>3. CASE reminder.status # "PROCESSING"
    BY <1>1, <1>2, <1>3, RunOver, ReadingAddress DEF WhereProcessing
  <1>4. CASE reminder.status = "PROCESSING"
    <2>1. RowSound /\ reminder \in AnyReminder
      BY DEF AddressInv, Sound, RemindersTyped
    <2>2. reminder'.status = s /\ reminder'.message = reminder.message
      BY <1>2, <1>4, <2>1 DEF WhereProcessing, WithStatus, AnyReminder
    <2>3. JudgedIn(reminder', msgs) /\ reminder.status \in Active
      BY <1>4, <2>1, <2>2 DEF RowSound, Linked, LinkedIn, JudgedIn, ShownIn, Active
    <2> QED BY <1>1, <2>1, <2>3, RowRewritten, RunOver, OthersSound
  <1> QED BY <1>3, <1>4

\* A message is written under the key that was read, for the employee that was read.
LEMMA FindAddress ==
  ASSUME Sound, AddressInv, NEW t \in Ticks, TickStep(t), SendFind(t)
  PROVE  AddressInv'
  <1>1. /\ ~In(t, "idle") /\ UNCHANGED <<reminder, minted, edits>>
        /\ \E step \in {"requeue", "add", "hand"} : Go(t, step)
    BY DEF SendFind, In, reminderVars
  <1>2. RowSound /\ Working(t) /\ OutboxTyped /\ Seen(t) \in AnyReminder /\ reminder \in AnyReminder /\ minted \in Nat
    BY <1>1 DEF AddressInv, RunSound, Sound, RemindersTyped, Seen
  <1>3. PICK k : k = Seen(t).key
    OBVIOUS
  <1>4. k \in Messages /\ k <= minted
    BY <1>2, <1>3, LinkedKey DEF RowSound, Working, Linked, LinkedIn
  <1>5. CASE Written(k)
    <2>1. Kept /\ NoneWritten
      BY <1>3, <1>5 DEF SendFind, Kept, NoneWritten, Written
    <2>2. \E step \in {"requeue", "add", "hand"} : Go(t, step) /\ Seen(t)' = Seen(t)
      BY <1>1, GoneOn DEF TickSteps
    <2>3. Written(Seen(t).key)'
      BY <1>3, <1>4, <1>5, <2>1, <2>2 DEF Kept, Written
    <2> QED BY <1>1, <2>1, <2>3, GoesOnAddress DEF TickSteps
  <1>6. CASE ~Written(k)
    <2>1. msgs' = [msgs EXCEPT ![k] = [NoRow EXCEPT !.status = "QUEUED", !.to = Seen(t).for]]
      BY <1>3, <1>6 DEF SendFind, Written
    <2>2. /\ msgs'[k].status = "QUEUED" /\ msgs'[k].to = Seen(t).for
          /\ \A m \in Messages \ {k} : msgs'[m] = msgs[m]
      BY <1>2, <1>4, <2>1 DEF OutboxTyped, NoRow
    <2>3. Kept
      BY <1>6, <2>2 DEF Kept, Written
    <2>4. Linked(reminder)' /\ Shown(reminder)'
      BY <1>1, <1>2, <2>3, LinkedKept DEF RowSound, Linked, Shown
    <2>5. Owned'
      <3>1. reminder.key # 0 => reminder.key \in Messages
        BY <1>2, LinkedKey DEF RowSound
      <3>2. CASE reminder.key = k
        BY <1>1, <1>2, <1>3, <2>2, <3>2 DEF Owned, Working
      <3>3. CASE reminder.key # k
        BY <1>1, <1>2, <2>2, <3>1, <3>3 DEF Owned, RowSound, Written
      <3> QED BY <3>2, <3>3
    <2>6. KeysFresh'
      BY <1>1, <1>2, <1>4, <2>2 DEF RowSound, KeysFresh, Written
    <2>7. RowSound'
      BY <2>4, <2>5, <2>6 DEF RowSound
    <2>8. Go(t, "add") /\ Seen(t)' = Seen(t)
      BY <1>3, <1>6, GoneOn DEF SendFind, Written, TickSteps
    <2>9. Written(Seen(t).key)'
      BY <1>3, <2>2, <2>8 DEF Written
    <2> QED BY <1>1, <2>3, <2>7, <2>8, <2>9, RunGoesOn, OthersSound DEF TickSteps
  <1> QED BY <1>5, <1>6

LEMMA QueueAddress ==
  ASSUME Sound, AddressInv, NEW t \in Ticks, TickStep(t), SendRequeue(t) \/ SendAdd(t)
  PROVE  AddressInv'
  <1>1. ~In(t, "idle") /\ UNCHANGED reminder /\ \E step \in {"fail", "add", "hand"} : Go(t, step)
    BY DEF SendRequeue, SendAdd, In, reminderVars
  <1>2. RowSound /\ Working(t) /\ Written(Seen(t).key) /\ Seen(t) \in AnyReminder /\ OutboxTyped
    BY <1>1 DEF AddressInv, RunSound, Sound, RemindersTyped, Seen, SendRequeue, SendAdd, In
  <1>3. Seen(t).key \in Messages
    BY <1>2, LinkedKey DEF RowSound, Working, Linked, LinkedIn
  <1>4. Kept /\ NoneWritten
    <2>1. \/ UNCHANGED msgs
          \/ /\ msgs[Seen(t).key].status \in {"FAILED", "QUEUED"}
             /\ \E s \in {"QUEUED", "FAILED"} : msgs' = Marked(Seen(t).key, s)
      BY DEF SendRequeue, SendAdd
    <2> QED BY <1>2, <1>3, <2>1, MarkKeeps DEF Kept, NoneWritten
  <1>5. Seen(t)' = Seen(t)
    BY <1>1, GoneOn DEF TickSteps
  <1>6. Written(Seen(t).key)'
    BY <1>2, <1>3, <1>4, <1>5 DEF Kept, Written
  <1> QED BY <1>1, <1>4, <1>6, GoesOnAddress DEF TickSteps

\* The row is handed over to a message that was written, if its claim was not taken away.
LEMMA HandOverAddress ==
  ASSUME Sound, AddressInv, NEW t \in Ticks, TickStep(t), HandOver(t)
  PROVE  AddressInv'
  <1>1. UNCHANGED msgs /\ Kept /\ NoneWritten /\ ~In(t, "idle")
    BY DEF HandOver, SameOutbox, outboxVars, Kept, NoneWritten, In
  <1>2. /\ RowSound /\ Working(t) /\ Written(Seen(t).key)
        /\ Seen(t) \in AnyReminder /\ reminder \in AnyReminder
    BY <1>1 DEF AddressInv, RunSound, Sound, RemindersTyped, Seen, HandOver, In
  <1>3. CASE Go(t, "fail") /\ UNCHANGED reminder
    BY <1>1, <1>3, GoesOnAddress DEF TickSteps
  <1>4. CASE Done(t) /\ reminder.status # "PROCESSING" /\ UNCHANGED reminder
    BY <1>1, <1>4, RunOver, ReadingAddress
  <1>5. CASE Done(t) /\ reminder.status = "PROCESSING"
             /\ reminder' = [WithStatus("QUEUED") EXCEPT !.message = Seen(t).key]
    <2>1. Seen(t).key \in Messages
      BY <1>2, LinkedKey DEF RowSound, Working, Linked, LinkedIn
    <2>2. reminder'.status = "QUEUED" /\ reminder'.message = Seen(t).key
      BY <1>2, <1>5 DEF WithStatus, AnyReminder
    <2>3. JudgedIn(reminder', msgs) /\ reminder.status \in Active
      BY <1>2, <1>5, <2>1, <2>2 DEF JudgedIn, ShownIn, Written, Active, Messages
    <2> QED BY <1>1, <1>2, <1>5, <2>3, RowRewritten, RunOver, OthersSound
  <1> QED BY <1>3, <1>4, <1>5 DEF HandOver, WhereProcessing

LEMMA InitAddress == Init => AddressInv
  <1>t. Init => \A t \in Ticks : ticks[t].pc = "idle"
    BY DEF Init, NoTick
  <1> SUFFICES ASSUME Init PROVE RowSound
    BY <1>t DEF AddressInv, RunSound, In
  <1>1. \A m \in Messages : ~Written(m)
    BY DEF Init, OutboxInit, NoRow, Written
  <1>2. KeysFresh
    BY <1>1, RemindersAssumption DEF Init, KeysFresh
  <1>3. CASE task.on
    <2>1. reminder.status = "PENDING" /\ reminder.key = 1 /\ reminder.message = 0 /\ minted = 1
      BY <1>3 DEF Init, Pending, NoReminder
    <2>2. 1 \in Messages
      BY Bounds DEF Messages
    <2> QED BY <1>1, <1>2, <2>1, <2>2 DEF RowSound, Linked, LinkedIn, Owned, Shown, ShownIn
  <1>4. CASE ~task.on
    <2>1. reminder = NoReminder /\ minted = 0
      BY <1>4 DEF Init
    <2> QED BY <1>2, <2>1 DEF NoReminder, RowSound, Linked, LinkedIn, Owned, Shown, ShownIn, Active
  <1> QED BY <1>3, <1>4

LEMMA StepAddress == Sound /\ AddressInv /\ [Next]_vars => AddressInv'
  <1> SUFFICES ASSUME Sound, AddressInv, [Next]_vars
               PROVE  AddressInv'
    OBVIOUS
  <1>1. CASE UNCHANGED vars \/ Deliver
    <2>1. Kept /\ NoneWritten /\ UNCHANGED <<reminder, minted, edits>> /\ ticks' = ticks
      BY <1>1, OutboxKeeps DEF vars, outboxVars, reminderVars, Deliver, Kept, NoneWritten, Sound
    <2>2. RowSound /\ RowSound' /\ minted \in Nat
      BY <2>1, RowKept DEF AddressInv, Sound, RemindersTyped
    <2>3. ASSUME NEW t \in Ticks
          PROVE  RunSound(t)'
      <3>1. ~In(t, "idle") /\ reminder'.key = Seen(t).key => reminder'.for = Seen(t).for
        BY <2>1 DEF AddressInv, RunSound, Working
      <3> QED BY <2>1, <2>2, <3>1, RunKept DEF AddressInv, RowSound
    <2> QED BY <2>2, <2>3 DEF AddressInv
  <1>2. CASE Staff
    BY <1>2, StaffAddress
  <1>3. CASE Crash
    <2>1. /\ Kept /\ NoneWritten /\ UNCHANGED <<reminder, minted, edits>>
          /\ \A t \in Ticks : ticks'[t].pc = "idle"
      BY <1>3 DEF Crash, LoseProcess, reminderVars, Kept, NoneWritten, NoTick
    <2>2. RowSound'
      BY <2>1, RowKept DEF AddressInv
    <2> QED BY <2>1, <2>2 DEF AddressInv, RunSound, In
  <1>4. ASSUME NEW t \in Ticks, TickStep(t)
        PROVE  AddressInv'
    BY <1>4, LookAddress, SettleAddress, WriteAddress, ClaimAddress, ReadAddress, GiveUpAddress,
       FindAddress, QueueAddress, HandOverAddress DEF TickStep
  <1> QED BY <1>1, <1>2, <1>3, <1>4 DEF Next

\* Whatever staff, carriers, retries, crashes and any number of overlapping cron runs do: a
\* reminder shown as delivered names a message that the provider took, and if that message is
\* the row's own, it went to the employee the reminder is for.
THEOREM RemindersReachTheirAssignee ==
  Spec => [](DeliveredWasTaken /\ (NamesOldMessage \/ DeliveredToAssignee))
  <1>1. Init => Books /\ AddressInv
    BY InitBooks, InitAddress
  <1>2. Books /\ AddressInv /\ [Next]_vars => Books' /\ AddressInv'
    BY StepBooks, StepAddress DEF Books
  <1>3. ASSUME Books, AddressInv
        PROVE  DeliveredWasTaken /\ (NamesOldMessage \/ DeliveredToAssignee)
    <2>1. /\ Linked(reminder) /\ Owned /\ Shown(reminder)
          /\ \A m \in Messages : msgs[m].status = "SENT" => confirmed[m] > 0
      BY <1>3 DEF Books, ReportsTrue, AddressInv, RowSound
    <2>2. DeliveredWasTaken
      BY <2>1 DEF Linked, LinkedIn, Shown, ShownIn, DeliveredWasTaken
    <2>3. ~NamesOldMessage => DeliveredToAssignee
      BY <2>1, <2>2 DEF Linked, LinkedIn, Owned, Written, NamesOldMessage, DeliveredWasTaken,
         DeliveredToAssignee
    <2> QED BY <2>2, <2>3
  <1> QED BY <1>1, <1>2, <1>3, PTL DEF Spec

-----------------------------------------------------------------------------
\* The limits: attempts of a reminder, keys, queue entries, retries and crashes.

QueueBounded ==
  /\ durable \in BOOLEAN /\ connected \in BOOLEAN
  /\ jobs \in [Messages -> 0 .. MaxJobs]
  /\ retried \in [Messages -> 0 .. MaxRetries]
  /\ crashes \in 0 .. MaxCrashes

KeysCounted == edits \in 0 .. MaxEdits /\ minted <= edits + 1

\* Runs that follow a QUEUED row which they saw with attempts left: each may still claim it,
\* whatever the attempts of the row are by then.
Retrying ==
  {t \in Ticks : /\ In(t, "settle") \/ In(t, "claim")
                 /\ Seen(t).status = "QUEUED" /\ Seen(t).attempts < MaxReminders}

Counted(t) ==
  /\ Seen(t) \in Reminders /\ ticks[t].verdict \in Reminders
  /\ In(t, "claim") /\ Seen(t).status = "QUEUED" => Seen(t).attempts < MaxReminders

TriesLeft == reminder.attempts + Cardinality(Retrying) <= MostAttempts

TriesCounted == reminder \in Reminders /\ TriesLeft /\ \A t \in Ticks : Counted(t)

LEMMA LimitsAreNat ==
  /\ MaxJobs \in Nat \ {0} /\ MaxRetries \in Nat /\ MaxCrashes \in Nat
  /\ MaxReminders \in Nat \ {0} /\ MaxEdits \in Nat /\ MaxMessages \in Nat
  /\ MaxEdits + 1 <= MaxMessages
  BY OutboxAssumption, RemindersAssumption

LEMMA RunsAreFew ==
  /\ Cardinality(Ticks) \in Nat /\ MostAttempts \in Nat
  /\ MostAttempts = MaxReminders - 1 + Cardinality(Ticks)
  /\ \A S \in SUBSET Ticks : /\ IsFiniteSet(S) /\ Cardinality(S) \in Nat
                             /\ Cardinality(S) <= Cardinality(Ticks)
  /\ \A S, T : S \subseteq T /\ T \subseteq Ticks => Cardinality(S) <= Cardinality(T)
  <1>1. IsFiniteSet(Ticks)
    BY RemindersAssumption
  <1>2. Cardinality(Ticks) \in Nat
    BY <1>1, FS_CardinalityType
  <1>3. ASSUME NEW S \in SUBSET Ticks
        PROVE  IsFiniteSet(S) /\ Cardinality(S) \in Nat /\ Cardinality(S) <= Cardinality(Ticks)
    BY <1>1, FS_Subset, FS_CardinalityType
  <1>4. ASSUME NEW S, NEW T, S \subseteq T, T \subseteq Ticks
        PROVE  Cardinality(S) <= Cardinality(T)
    BY <1>3, <1>4, FS_Subset
  <1>5. MostAttempts \in Nat /\ MostAttempts = MaxReminders - 1 + Cardinality(Ticks)
    BY <1>2, LimitsAreNat DEF MostAttempts
  <1> QED BY <1>2, <1>3, <1>4, <1>5

\* The attempts and those still to come stay within bounds when no run is added to them, when
\* the row has attempts left, or when the run that takes one drops out.
LEMMA TriesBounded ==
  ASSUME reminder \in Reminders, TriesLeft, reminder'.attempts \in Nat,
         \/ reminder'.attempts = reminder.attempts /\ Retrying' \subseteq Retrying
         \/ reminder'.attempts < MaxReminders
         \/ reminder'.attempts <= MaxReminders /\ \E t \in Ticks : t \notin Retrying'
         \/ /\ reminder'.attempts = reminder.attempts + 1
            /\ \E t \in Retrying : Retrying' \subseteq Retrying \ {t}
  PROVE  TriesLeft' /\ reminder'.attempts \in 0 .. MostAttempts
  <1>1. Retrying \subseteq Ticks /\ Retrying' \subseteq Ticks
    BY DEF Retrying
  <1>2. /\ Cardinality(Retrying) \in Nat /\ Cardinality(Retrying') \in Nat
        /\ Cardinality(Retrying') <= Cardinality(Ticks) /\ Cardinality(Ticks) \in Nat
    BY <1>1, RunsAreFew
  <1>3. /\ reminder.attempts \in Nat /\ MostAttempts \in Nat /\ MaxReminders \in Nat
        /\ MostAttempts = MaxReminders - 1 + Cardinality(Ticks)
    BY RunsAreFew, LimitsAreNat DEF Reminders
  <1>4. reminder'.attempts + Cardinality(Retrying') <= MostAttempts
    <2>1. CASE reminder'.attempts = reminder.attempts /\ Retrying' \subseteq Retrying
      <3>1. Cardinality(Retrying') <= Cardinality(Retrying)
        BY <1>1, <2>1, RunsAreFew
      <3> QED BY <1>2, <1>3, <2>1, <3>1 DEF TriesLeft
    <2>2. CASE reminder'.attempts < MaxReminders
      BY <1>2, <1>3, <2>2
    <2>3. ASSUME reminder'.attempts <= MaxReminders, NEW t \in Ticks, t \notin Retrying'
          PROVE  reminder'.attempts + Cardinality(Retrying') <= MostAttempts
      <3>1. Retrying' \subseteq Ticks \ {t}
        BY <1>1, <2>3
      <3>2. Cardinality(Retrying') <= Cardinality(Ticks \ {t})
        BY <3>1, RunsAreFew
      <3>3. Cardinality(Ticks \ {t}) = Cardinality(Ticks) - 1
        BY RemindersAssumption, FS_RemoveElement
      <3> QED BY <1>2, <1>3, <2>3, <3>2, <3>3
    <2>4. ASSUME reminder'.attempts = reminder.attempts + 1, NEW t \in Retrying,
                 Retrying' \subseteq Retrying \ {t}
          PROVE  reminder'.attempts + Cardinality(Retrying') <= MostAttempts
      <3>1. Cardinality(Retrying') <= Cardinality(Retrying \ {t})
        BY <1>1, <2>4, RunsAreFew
      <3>2. Cardinality(Retrying \ {t}) = Cardinality(Retrying) - 1
        BY <1>1, RunsAreFew, FS_RemoveElement
      <3> QED BY <1>2, <1>3, <2>4, <3>1, <3>2 DEF TriesLeft
    <2> QED BY <2>1, <2>2, <2>3, <2>4
  <1>5. TriesLeft'
    BY <1>4 DEF TriesLeft, MostAttempts
  <1> QED BY <1>2, <1>3, <1>4, <1>5

LEMMA JobAdded ==
  ASSUME QueueBounded, NEW m, AddJob(m)
  PROVE  jobs' \in [Messages -> 0 .. MaxJobs]
  <1>1. jobs[m] < MaxJobs /\ jobs' = [jobs EXCEPT ![m] = @ + 1]
    BY DEF AddJob
  <1>2. CASE m \in Messages
    <2>1. jobs[m] + 1 \in 0 .. MaxJobs
      BY <1>1, <1>2, LimitsAreNat DEF QueueBounded
    <2> QED BY <1>1, <2>1 DEF QueueBounded
  <1>3. CASE m \notin Messages
    BY <1>1, <1>3 DEF QueueBounded
  <1> QED BY <1>2, <1>3

\* Every step of carriers, cron jobs and staff on messages keeps the queue within its limits.
LEMMA OutboxBounded ==
  ASSUME QueueBounded, OutboxNext
  PROVE  QueueBounded'
  <1>1. ASSUME NEW c \in Carriers, NEW m \in Messages, TakeJob(c, m)
        PROVE  QueueBounded'
    <2>1. /\ jobs[m] > 0 /\ jobs' = [jobs EXCEPT ![m] = @ - 1]
          /\ UNCHANGED <<durable, connected, retried, crashes>>
      BY <1>1 DEF TakeJob, deployment
    <2>2. jobs[m] - 1 \in 0 .. MaxJobs
      BY <2>1, LimitsAreNat DEF QueueBounded
    <2> QED BY <2>1, <2>2 DEF QueueBounded
  <1>2. ASSUME NEW c \in Carriers, ProviderTakes(c) \/ ProviderFails(c) \/ Simulate(c) \/ SaveAnswer(c)
        PROVE  QueueBounded'
    <2>1. UNCHANGED <<durable, connected, jobs, retried, crashes>>
      BY <1>2 DEF ProviderTakes, ProviderFails, Simulate, SaveAnswer, deployment
    <2> QED BY <2>1 DEF QueueBounded
  <1>3. ASSUME NEW c \in Carriers, SaveError(c)
        PROVE  QueueBounded'
    <2>1. /\ UNCHANGED <<durable, connected, retried, crashes>>
          /\ UNCHANGED jobs \/ AddJob(calls[c].m)
      BY <1>3 DEF SaveError, deployment
    <2>2. jobs' \in [Messages -> 0 .. MaxJobs]
      BY <2>1, JobAdded DEF QueueBounded
    <2> QED BY <2>1, <2>2 DEF QueueBounded
  <1>4. ASSUME NEW m \in Messages, Sweep(m)
        PROVE  QueueBounded'
    <2>1. /\ UNCHANGED <<durable, connected, retried, crashes>>
          /\ UNCHANGED jobs \/ AddJob(m)
      BY <1>4 DEF Sweep, RequeueStale, ExpireClaim, deployment
    <2>2. jobs' \in [Messages -> 0 .. MaxJobs]
      BY <2>1, JobAdded DEF QueueBounded
    <2> QED BY <2>1, <2>2 DEF QueueBounded
  <1>5. ASSUME NEW m \in Messages, StaffRetry(m)
        PROVE  QueueBounded'
    <2>1. /\ UNCHANGED <<durable, connected>>
          /\ UNCHANGED jobs \/ AddJob(m)
          /\ retried[m] < MaxRetries /\ retried' = [retried EXCEPT ![m] = @ + 1]
          /\ UNCHANGED crashes \/ (crashes < MaxCrashes /\ crashes' = crashes + 1)
      BY <1>5 DEF StaffRetry, deployment
    <2>2. jobs' \in [Messages -> 0 .. MaxJobs]
      BY <2>1, JobAdded DEF QueueBounded
    <2>3. retried[m] + 1 \in 0 .. MaxRetries
      BY <2>1, LimitsAreNat DEF QueueBounded
    <2>4. retried' \in [Messages -> 0 .. MaxRetries]
      BY <2>1, <2>3 DEF QueueBounded
    <2>5. crashes' \in 0 .. MaxCrashes
      BY <2>1, LimitsAreNat DEF QueueBounded
    <2> QED BY <2>1, <2>2, <2>4, <2>5 DEF QueueBounded
  <1> QED BY <1>1, <1>2, <1>3, <1>4, <1>5 DEF OutboxNext, Carry

LEMMA CrashBounded ==
  ASSUME QueueBounded, LoseProcess
  PROVE  QueueBounded'
  <1>1. ASSUME NEW m \in Messages
        PROVE  LET n == jobs[m] + Cardinality({c \in Carriers : calls[c].m = m})
               IN  (IF n < MaxJobs THEN n ELSE MaxJobs) \in 0 .. MaxJobs
    <2>1. Cardinality({c \in Carriers : calls[c].m = m}) \in Nat
      <3>1. IsFiniteSet({c \in Carriers : calls[c].m = m})
        BY OutboxAssumption, FS_Subset
      <3> QED BY <3>1, FS_CardinalityType
    <2>2. jobs[m] \in Nat
      BY LimitsAreNat DEF QueueBounded
    <2> QED BY <2>1, <2>2, LimitsAreNat
  <1>2. jobs' \in [Messages -> 0 .. MaxJobs]
    <2>1. 0 \in 0 .. MaxJobs
      BY LimitsAreNat
    <2> QED BY <1>1, <2>1 DEF LoseProcess
  <1>3. crashes' \in 0 .. MaxCrashes
    BY LimitsAreNat DEF LoseProcess, QueueBounded
  <1> QED BY <1>2, <1>3 DEF LoseProcess, QueueBounded, deployment

\* A cron run leaves the queue alone, but for the entry of the message it sends.
LEMMA TickBounded ==
  ASSUME QueueBounded, NEW t \in Ticks, TickStep(t)
  PROVE  QueueBounded'
  <1>1. UNCHANGED <<durable, connected, retried, crashes>> /\ (UNCHANGED jobs \/ AddJob(Seen(t).key))
    <2>1. CASE Look(t) \/ Settle(t) \/ WriteVerdict(t) \/ ClaimReminder(t) \/ ReadTask(t)
      BY <2>1 DEF Look, Settle, WriteVerdict, ClaimReminder, ReadTask, SameOutbox, outboxVars, deployment
    <2>2. CASE CancelReminder(t) \/ FailReminder(t) \/ HandOver(t)
      BY <2>2 DEF CancelReminder, FailReminder, HandOver, SameOutbox, outboxVars, deployment
    <2>3. CASE SendFind(t) \/ SendRequeue(t) \/ SendAdd(t)
      BY <2>3 DEF SendFind, SendRequeue, SendAdd, SameMessages, deployment
    <2> QED BY <2>1, <2>2, <2>3 DEF TickStep
  <1>2. jobs' \in [Messages -> 0 .. MaxJobs]
    BY <1>1, JobAdded DEF QueueBounded
  <1> QED BY <1>1, <1>2 DEF QueueBounded

LEMMA StaffBounded ==
  ASSUME QueueBounded, Staff
  PROVE  QueueBounded'
  <1>1. UNCHANGED <<durable, connected, jobs, retried, crashes>>
    BY DEF Staff, Assign, SetReminder, Close, Proceed, Edit, SameMessages, deployment
  <1> QED BY <1>1 DEF QueueBounded

LEMMA StepBounded == QueueBounded /\ [Next]_vars => QueueBounded'
  <1> SUFFICES ASSUME QueueBounded, [Next]_vars
               PROVE  QueueBounded'
    OBVIOUS
  <1>1. CASE UNCHANGED vars
    BY <1>1 DEF vars, outboxVars, deployment, QueueBounded
  <1>2. CASE Deliver
    BY <1>2, OutboxBounded DEF Deliver
  <1>3. CASE Crash
    BY <1>3, CrashBounded DEF Crash
  <1> QED BY <1>1, <1>2, <1>3, StaffBounded, TickBounded DEF Next

\* Whatever staff change, keys stay within their number, and attempts begin anew or stay.
LEMMA SyncCounted ==
  ASSUME Sound, TriesCounted, KeysCounted, NEW p \in People \cup {Nobody}, NEW on \in BOOLEAN, Sync(p, on),
         edits < MaxEdits, edits' = edits + 1, ticks' = ticks
  PROVE  TriesCounted' /\ KeysCounted'
  <1>1. reminder \in Reminders /\ minted \in Nat
    BY DEF TriesCounted, Sound, RemindersTyped
  <1>2. minted + 1 \in 0 .. MaxMessages /\ 0 \in 0 .. MostAttempts /\ 0 \in 0 .. MaxMessages
    BY <1>1, LimitsAreNat, RunsAreFew DEF KeysCounted
  <1>3. KeysCounted'
    <2>1. minted' \in {minted, minted + 1}
      BY DEF Sync
    <2> QED BY <1>1, <2>1, LimitsAreNat DEF KeysCounted
  <1>4. Renewed(p) \in Reminders /\ Renewed(p).attempts = 0
    <2>1. NoReminder \in Reminders /\ NoReminder.attempts = 0
      BY <1>2 DEF NoReminder, Reminders
    <2> QED BY <1>2, <2>1 DEF Renewed, Pending, Reminders, Active
  <1>5. \A s \in Active \cup Settled : WithStatus(s) \in Reminders /\ WithStatus(s).attempts = reminder.attempts
    BY <1>1 DEF WithStatus, Reminders
  <1>6. /\ [WithStatus("PENDING") EXCEPT !.attempts = 0] \in Reminders
        /\ [WithStatus("PENDING") EXCEPT !.attempts = 0].attempts = 0
    BY <1>2, <1>5 DEF Reminders, Active
  <1>7. reminder' \in {Renewed(p), [WithStatus("PENDING") EXCEPT !.attempts = 0],
                       WithStatus("CANCELLED"), reminder}
    BY DEF Sync
  <1>8. reminder' \in Reminders /\ reminder'.attempts \in {0, reminder.attempts}
    BY <1>1, <1>4, <1>5, <1>6, <1>7 DEF Settled
  <1>9. TriesLeft'
    <2>1. Retrying' = Retrying
      BY DEF Retrying, Seen, In
    <2>2. reminder'.attempts \in Nat
      BY <1>8, RunsAreFew DEF Reminders
    <2> QED BY <1>1, <1>8, <2>1, <2>2, TriesBounded, LimitsAreNat DEF TriesCounted
  <1>10. ASSUME NEW t \in Ticks
         PROVE  Counted(t)'
    BY DEF TriesCounted, Counted, Seen, In
  <1> QED BY <1>3, <1>8, <1>9, <1>10 DEF TriesCounted

LEMMA StaffCounted ==
  ASSUME Sound, TriesCounted, KeysCounted, Staff
  PROVE  TriesCounted' /\ KeysCounted'
  <1>t. task.for \in People \cup {Nobody} /\ task.on \in BOOLEAN
    BY DEF Sound, RemindersTyped
  <1>1. ASSUME NEW p \in People \cup {Nobody}, NEW on \in BOOLEAN, NEW open, NEW on2, Edit(p, open, on2), Sync(p, on)
        PROVE  TriesCounted' /\ KeysCounted'
    <2>1. edits < MaxEdits /\ edits' = edits + 1 /\ ticks' = ticks
      BY <1>1 DEF Edit
    <2> QED BY <1>1, <2>1, SyncCounted
  <1>2. ASSUME NEW p \in People \cup {Nobody}, Assign(p)
        PROVE  TriesCounted' /\ KeysCounted'
    BY <1>1, <1>2, <1>t DEF Assign
  <1>3. ASSUME NEW on \in BOOLEAN, SetReminder(on)
        PROVE  TriesCounted' /\ KeysCounted'
    BY <1>1, <1>3, <1>t DEF SetReminder
  <1>4. CASE Close
    BY <1>1, <1>4, <1>t DEF Close
  <1>5. CASE Proceed
    <2>1. CASE task.on /\ task.for # Nobody
      BY <1>1, <1>5, <1>t, <2>1 DEF Proceed
    <2>2. CASE ~(task.on /\ task.for # Nobody)
      <3>1. edits < MaxEdits /\ edits' = edits + 1 /\ UNCHANGED <<reminder, minted, ticks>>
        BY <1>5, <2>2 DEF Proceed, Edit
      <3>2. minted \in Nat
        BY DEF Sound, RemindersTyped
      <3>3. KeysCounted'
        BY <3>1, <3>2, LimitsAreNat DEF KeysCounted
      <3> QED BY <3>1, <3>3 DEF TriesCounted, TriesLeft, Retrying, Counted, Seen, In
    <2> QED BY <2>1, <2>2
  <1> QED BY <1>2, <1>3, <1>4, <1>5 DEF Staff

\* The verdict about a row stays within the limits of the row.
LEMMA VerdictsCounted ==
  ASSUME NEW seen \in Reminders
  PROVE  /\ LateVerdict(seen) \in Reminders
         /\ \A s : [seen EXCEPT !.status = Followed(s)] \in Reminders
  <1>1. \A s : Followed(s) \in Settled
    BY DEF Followed, Settled
  <1>2. \A s : [seen EXCEPT !.status = Followed(s)] \in Reminders
    BY <1>1 DEF Reminders
  <1>3. LateVerdict(seen) \in Reminders
    BY <1>1 DEF LateVerdict, Reminders, Active
  <1> QED BY <1>2, <1>3

\* What the other runs may still count does not grow.
LEMMA OthersCounted ==
  ASSUME Sound, TriesCounted, NEW t \in Ticks, TickStep(t)
  PROVE  Retrying' \subseteq Retrying \cup {t} /\ \A s \in Ticks \ {t} : Counted(s)'
  BY OthersStand DEF Retrying, TriesCounted, Counted, Seen, In

\* A run that claims a QUEUED row takes the attempt it was allowed when it saw the row; one
\* that claims another row looks at the attempts in the same statement.
LEMMA TickCounted ==
  ASSUME Sound, TriesCounted, NEW t \in Ticks, TickStep(t)
  PROVE  TriesCounted'
  <1>t. /\ reminder \in Reminders /\ Seen(t) \in Reminders /\ ticks[t].verdict \in Reminders
        /\ reminder.attempts \in Nat /\ TriesLeft
        /\ Retrying' \subseteq Retrying \cup {t}
    BY OthersCounted, RunsAreFew DEF TriesCounted, Counted, Reminders
  <1>n. NoReminder \in Reminders
    BY LimitsAreNat, RunsAreFew DEF NoReminder, Reminders
  <1>q. ASSUME reminder' \in Reminders, reminder'.attempts = reminder.attempts,
               t \in Retrying' => t \in Retrying, Counted(t)'
        PROVE  TriesCounted'
    <2>1. Retrying' \subseteq Retrying
      BY <1>t, <1>q
    <2>2. TriesLeft'
      BY <1>t, <1>q, <2>1, TriesBounded
    <2> QED BY <1>q, <2>2, OthersCounted DEF TriesCounted
  <1>d. ASSUME Done(t), reminder' \in Reminders, reminder'.attempts = reminder.attempts
        PROVE  TriesCounted'
    <2>1. ticks'[t] = NoTick
      BY <1>d DEF Done, Sound, RemindersTyped
    <2>2. Counted(t)' /\ t \notin Retrying'
      BY <1>n, <2>1 DEF Counted, Retrying, Seen, In, NoTick
    <2> QED BY <1>d, <1>q, <2>2
  <1>g. ASSUME NEW step \in TickSteps \ {"settle", "claim"}, Go(t, step)
        PROVE  Counted(t)' /\ t \notin Retrying'
    <2>1. Seen(t)' = Seen(t) /\ ticks'[t].pc = step /\ ticks'[t].verdict = ticks[t].verdict
      BY <1>g, GoneOn
    <2> QED BY <1>t, <2>1 DEF Counted, Retrying, In
  <1>1. CASE Look(t)
    <2>1. /\ Seen(t)' = reminder /\ reminder' = reminder /\ ticks'[t].verdict = ticks[t].verdict
          /\ ticks'[t].pc = "claim" => reminder.status # "QUEUED"
      BY <1>1 DEF Look, Sound, RemindersTyped, Seen, reminderVars
    <2>2. Counted(t)'
      BY <1>t, <2>1 DEF Counted, In
    <2>3. CASE t \in Retrying'
      <3>1. reminder'.attempts < MaxReminders
        BY <2>1, <2>3 DEF Retrying
      <3>2. TriesLeft'
        BY <1>t, <2>1, <3>1, TriesBounded
      <3> QED BY <1>t, <2>1, <2>2, <3>2, OthersCounted DEF TriesCounted
    <2>4. CASE t \notin Retrying'
      BY <1>t, <1>q, <2>1, <2>2, <2>4
    <2> QED BY <2>3, <2>4
  <1>2. CASE Settle(t)
    <2>1. reminder' = reminder /\ In(t, "settle")
      BY <1>2 DEF Settle, reminderVars
    <2>2. ASSUME NEW row \in Reminders, ticks' = [ticks EXCEPT ![t].pc = "write", ![t].verdict = row]
          PROVE  TriesCounted'
      <3>1. Seen(t)' = Seen(t) /\ ticks'[t].pc = "write" /\ ticks'[t].verdict = row
        BY <2>2 DEF Seen, Sound, RemindersTyped
      <3>2. Counted(t)' /\ t \notin Retrying'
        BY <1>t, <3>1 DEF Counted, Retrying, In
      <3> QED BY <1>t, <1>q, <2>1, <3>2
    <2>3. ASSUME Go(t, "claim"), Seen(t).attempts < MaxReminders, Seen(t).status = "QUEUED"
          PROVE  TriesCounted'
      <3>1. Seen(t)' = Seen(t) /\ ticks'[t].verdict = ticks[t].verdict
        BY <2>3, GoneOn DEF TickSteps
      <3>2. Counted(t)' /\ t \in Retrying
        BY <1>t, <2>1, <2>3, <3>1 DEF Counted, Retrying
      <3> QED BY <1>t, <1>q, <2>1, <3>2
    <2>4. CASE Done(t)
      BY <1>d, <1>t, <2>1, <2>4
    <2>5. \/ \E row \in Reminders : ticks' = [ticks EXCEPT ![t].pc = "write", ![t].verdict = row]
          \/ Done(t)
          \/ Go(t, "claim") /\ Seen(t).attempts < MaxReminders /\ Seen(t).status = "QUEUED"
      BY <1>2, <1>t, VerdictsCounted DEF Settle, TryAgain
    <2> QED BY <2>2, <2>3, <2>4, <2>5
  <1>3. CASE WriteVerdict(t)
    <2>1. reminder' \in Reminders /\ reminder'.attempts = reminder.attempts
      BY <1>3, <1>t DEF WriteVerdict, Reminders
    <2> QED BY <1>3, <1>d, <2>1 DEF WriteVerdict
  <1>4. CASE ClaimReminder(t)
    <2>1. CASE Done(t) /\ UNCHANGED reminder
      BY <1>d, <1>t, <2>1
    <2>2. CASE ~(Done(t) /\ UNCHANGED reminder)
      <3>1. /\ In(t, "claim") /\ Go(t, "read")
            /\ reminder' = [reminder EXCEPT !.status = "PROCESSING", !.attempts = @ + 1]
            /\ Seen(t).status = "QUEUED" \/ reminder.attempts < MaxReminders
        BY <1>4, <2>2 DEF ClaimReminder
      <3>2. reminder'.attempts = reminder.attempts + 1 /\ reminder'.attempts \in Nat
        BY <1>t, <3>1 DEF Reminders
      <3>3. Counted(t)' /\ t \notin Retrying'
        BY <1>g, <3>1 DEF TickSteps
      <3>4. TriesLeft' /\ reminder'.attempts \in 0 .. MostAttempts
        <4>1. CASE Seen(t).status = "QUEUED"
          <5>1. t \in Retrying
            BY <3>1, <4>1 DEF TriesCounted, Counted, Retrying
          <5>2. Retrying' \subseteq Retrying \ {t}
            BY <1>t, <3>3
          <5> QED BY <1>t, <3>2, <5>1, <5>2, TriesBounded
        <4>2. CASE reminder.attempts < MaxReminders
          <5>1. reminder'.attempts <= MaxReminders
            BY <1>t, <3>2, <4>2, LimitsAreNat
          <5> QED BY <1>t, <3>2, <3>3, <5>1, TriesBounded
        <4> QED BY <3>1, <4>1, <4>2
      <3>5. reminder' \in Reminders
        BY <1>t, <3>1, <3>2, <3>4 DEF Reminders, Active
      <3> QED BY <3>3, <3>4, <3>5, OthersCounted DEF TriesCounted
    <2> QED BY <2>1, <2>2
  <1>5. CASE ReadTask(t) \/ SendFind(t) \/ SendRequeue(t) \/ SendAdd(t)
    <2>1. reminder' = reminder /\ \E step \in {"cancel", "find", "add", "requeue", "hand", "fail"} : Go(t, step)
      BY <1>5 DEF ReadTask, SendFind, SendRequeue, SendAdd, reminderVars
    <2>2. Counted(t)' /\ t \notin Retrying'
      BY <1>g, <2>1 DEF TickSteps
    <2> QED BY <1>t, <1>q, <2>1, <2>2
  <1>6. CASE CancelReminder(t) \/ FailReminder(t)
    <2>1. reminder' \in Reminders /\ reminder'.attempts = reminder.attempts
      BY <1>6, <1>t DEF CancelReminder, FailReminder, WhereProcessing, WithStatus, Reminders, Active, Settled
    <2> QED BY <1>6, <1>d, <2>1 DEF CancelReminder, FailReminder
  <1>7. CASE HandOver(t)
    <2>1. reminder' \in Reminders /\ reminder'.attempts = reminder.attempts
      BY <1>7, <1>t DEF HandOver, WhereProcessing, WithStatus, Reminders, Active
    <2>2. CASE Done(t)
      BY <1>d, <2>1, <2>2
    <2>3. CASE Go(t, "fail")
      <3>1. Counted(t)' /\ t \notin Retrying'
        BY <1>g, <2>3 DEF TickSteps
      <3> QED BY <1>q, <2>1, <3>1
    <2> QED BY <1>7, <2>2, <2>3 DEF HandOver
  <1> QED BY <1>1, <1>2, <1>3, <1>4, <1>5, <1>6, <1>7 DEF TickStep

LEMMA StepCounted ==
  ASSUME Sound, TriesCounted, KeysCounted, [Next]_vars
  PROVE  TriesCounted' /\ KeysCounted'
  <1>1. CASE UNCHANGED vars \/ Deliver
    <2>1. UNCHANGED <<reminder, minted, edits, ticks>>
      BY <1>1 DEF vars, Deliver, reminderVars
    <2> QED BY <2>1 DEF TriesCounted, TriesLeft, Retrying, KeysCounted, Counted, Seen, In
  <1>2. CASE Crash
    <2>1. UNCHANGED <<reminder, minted, edits>> /\ \A t \in Ticks : ticks'[t] = NoTick
      BY <1>2 DEF Crash, reminderVars
    <2>2. NoReminder \in Reminders
      BY LimitsAreNat, RunsAreFew DEF NoReminder, Reminders
    <2>3. Retrying' = {}
      BY <2>1 DEF Retrying, In, NoTick
    <2>4. TriesLeft'
      <3>1. reminder.attempts \in Nat
        BY RunsAreFew DEF TriesCounted, Reminders
      <3> QED BY <2>1, <2>3, <3>1, TriesBounded DEF TriesCounted
    <2> QED BY <2>1, <2>2, <2>4 DEF TriesCounted, KeysCounted, Counted, Seen, In, NoTick
  <1>3. ASSUME NEW t \in Ticks, TickStep(t)
        PROVE  TriesCounted' /\ KeysCounted'
    BY <1>3, TickCounted, TickMintsNone DEF KeysCounted
  <1> QED BY <1>1, <1>2, <1>3, StaffCounted DEF Next

LEMMA InitCounted == Init => QueueBounded /\ KeysCounted /\ TriesCounted
  <1> SUFFICES ASSUME Init PROVE QueueBounded /\ KeysCounted /\ TriesCounted
    OBVIOUS
  <1>1. 0 \in 0 .. MaxJobs /\ 0 \in 0 .. MaxRetries /\ 0 \in 0 .. MaxCrashes /\ 0 \in 0 .. MaxEdits
        /\ 0 \in 0 .. MostAttempts /\ 0 \in 0 .. MaxMessages /\ 1 \in 0 .. MaxMessages
    BY LimitsAreNat, RunsAreFew
  <1>2. QueueBounded
    BY <1>1 DEF Init, OutboxInit, QueueBounded
  <1>3. KeysCounted
    BY <1>1 DEF Init, KeysCounted
  <1>4. NoReminder \in Reminders
    BY <1>1 DEF NoReminder, Reminders
  <1>5. /\ Pending(1, First) \in Reminders
        /\ Pending(1, First).attempts = 0 /\ NoReminder.attempts = 0
    BY <1>1, <1>4, RemindersAssumption DEF Pending, NoReminder, Reminders, Active
  <1>6. reminder \in Reminders /\ reminder.attempts = 0 /\ \A t \in Ticks : ticks[t] = NoTick
    BY <1>4, <1>5 DEF Init
  <1>7. TriesLeft
    <2>1. Retrying = {}
      BY <1>6 DEF Retrying, In, NoTick
    <2> QED BY <1>6, <2>1, RunsAreFew, FS_EmptySet DEF TriesLeft
  <1>8. TriesCounted
    BY <1>4, <1>6, <1>7 DEF TriesCounted, Counted, Seen, In, NoTick
  <1> QED BY <1>2, <1>3, <1>8

\* Every variable keeps its type and its limits, however many runs of the cron job overlap.  In
\* particular a reminder is tried at most MAX_TASK_REMINDER_ATTEMPTS times by runs that do not
\* overlap, and at most once more for each further run that may: a QUEUED row is claimed
\* without another look at its attempts.
THEOREM TypeCorrect == Spec => []TypeOK
  <1>1. Init => Sound /\ QueueBounded /\ KeysCounted /\ TriesCounted
    BY InitSound, InitCounted
  <1>2. Sound /\ QueueBounded /\ KeysCounted /\ TriesCounted /\ [Next]_vars
          => (Sound /\ QueueBounded /\ KeysCounted /\ TriesCounted)'
    BY StepSound, StepBounded, StepCounted
  <1>3. Sound /\ QueueBounded /\ KeysCounted /\ TriesCounted => TypeOK
    <2> SUFFICES ASSUME Sound, QueueBounded, KeysCounted, TriesCounted PROVE TypeOK
      OBVIOUS
    <2>1. OutboxTypeOK
      BY DEF Sound, OutboxTyped, QueueBounded, OutboxTypeOK
    <2>2. minted \in 0 .. MaxMessages /\ edits \in 0 .. MaxEdits
      BY LimitsAreNat DEF Sound, RemindersTyped, KeysCounted
    <2>3. ticks \in [Ticks -> [pc : TickSteps \cup {"idle"}, seen : Reminders, verdict : Reminders]]
      <3>1. ASSUME NEW t \in Ticks
            PROVE  ticks[t] \in [pc : TickSteps \cup {"idle"}, seen : Reminders, verdict : Reminders]
        BY DEF TriesCounted, Counted, Seen, Sound, RemindersTyped
      <3> QED BY <3>1 DEF Sound, RemindersTyped
    <2> QED BY <2>1, <2>2, <2>3 DEF TypeOK, TriesCounted, Sound, RemindersTyped
  <1> QED BY <1>1, <1>2, <1>3, PTL DEF Spec

=============================================================================
