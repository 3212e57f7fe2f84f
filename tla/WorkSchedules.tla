--------------------------- MODULE WorkSchedules ---------------------------
\* Recurring work orders: FieldJobSchedulesService (field-job-schedules.service.ts). Every
\* minute a cron of the primary instance claims a schedule that is due and queues an entry
\* with the claim's token; the queue's worker creates the field job of the occurrence and
\* moves the schedule on.
\*
\* One schedule, since none reads another. Calendar and time zone are abstracted to a grid
\* start, start + period, ... of instants; a lease may run out at any moment.
EXTENDS Integers, FiniteSets

CONSTANTS
  Crons,        \* runs of generateDueOccurrences; a slow one overlaps the next
  Tokens,       \* claim tokens in use at the same time
  Plans,        \* recurrences <<start, period, end>> that staff may ask for
  Horizon,      \* bound: last instant
  MaxEdits,     \* bound: edits and changes of status
  MaxTroubles,  \* bound: failures, delays past a lease and restarts
  Attempts,     \* JOB_OPTIONS.attempts
  Never         \* null

ASSUME SchedulesAssumption ==
  /\ {Horizon, Attempts} \subseteq Nat \ {0}
  /\ \A p \in Plans :
       /\ p[1] \in Nat /\ p[2] \in Nat \ {0}
       /\ p[3] # Never => p[3] \in Nat /\ p[1] <= p[3]
  /\ {MaxEdits, MaxTroubles} \subseteq Nat
  /\ Never \notin Nat \cup Tokens

VARIABLES
  durable,   \* deployment: with Redis a queue entry survives a restart and is tried again
  now,       \* the instant, coarse enough for leases to run out in between
  sched,     \* the row: status, start, period, end, next (nextRunAt), lock
  cron,      \* cron[c]: where the run is, and the row as it read it
  queue,     \* entries [token, tries]
  slots,     \* FieldJobOccurrence rows, by occurrenceAt
  made,      \* history: field jobs generated per instant
  since,     \* history: when the recurrence was last edited
  edits,     \* history: edits and changes of status
  troubles   \* history: failures and restarts

scheduleVars == <<durable, now, sched, cron, queue, slots, made, since, edits, troubles>>

Instants == 0 .. Horizon
NoLock   == [token |-> Never, live |-> FALSE]
AtRest   == [at |-> "idle", next |-> Never, lock |-> NoLock]

Trouble == troubles < MaxTroubles /\ troubles' = troubles + 1
Locks(l) == sched' = [sched EXCEPT !.lock = l]

-----------------------------------------------------------------------------
\* Recurrence.

UpTo(end, t) == IF end # Never /\ t > end THEN Never ELSE t

\* Unlike followingRun: counts from the present.
FollowingRunFromNow(s, t) == UpTo(s.end, t + ((now - t) \div s.period + 1) * s.period)

followingRun(s, t) == UpTo(s.end, t + s.period)

\* The first occurrence at or after the edit.
nextRunAfterEdit(s) ==
  LET steps == IF s.start >= now THEN 0 ELSE (now - s.start + s.period - 1) \div s.period
  IN  UpTo(s.end, s.start + steps * s.period)

OnGrid(t) ==
  /\ t >= sched.start /\ (t - sched.start) % sched.period = 0
  /\ sched.end # Never => t <= sched.end

-----------------------------------------------------------------------------
\* generateDueOccurrences: find, claim, queue.

Due == sched.status = "ACTIVE" /\ sched.next # Never /\ sched.next <= now

\* Unlike the cron's query: a lease that ran out still counts.
FindUnlocked(c) ==
  /\ cron[c].at = "idle"
  /\ Due /\ sched.lock = NoLock
  /\ cron' = [cron EXCEPT ![c] = [at |-> "claim", next |-> sched.next, lock |-> sched.lock]]
  /\ UNCHANGED <<durable, now, sched, queue, slots, made, since, edits, troubles>>

Find(c) ==
  /\ cron[c].at = "idle"
  /\ Due /\ ~sched.lock.live
  /\ cron' = [cron EXCEPT ![c] = [at |-> "claim", next |-> sched.next, lock |-> sched.lock]]
  /\ UNCHANGED <<durable, now, sched, queue, slots, made, since, edits, troubles>>

\* randomUUID: a token that nothing refers to, whichever it is.
Fresh == {token \in Tokens :
  /\ sched.lock.token # token
  /\ \A c \in Crons : cron[c].lock.token # token
  /\ \A e \in queue : e.token # token}

\* A lock made after the query ends after the instant the run compares with.
Claim(c) ==
  /\ cron[c].at = "claim"
  /\ IF /\ sched.status = "ACTIVE" /\ sched.next = cron[c].next
        /\ sched.lock \in {NoLock, cron[c].lock}
     THEN LET token == CHOOSE t \in Fresh : TRUE IN
            /\ Fresh # {}
            /\ Locks([token |-> token, live |-> TRUE])
            /\ cron' = [cron EXCEPT ![c].at = "queue", ![c].lock.token = token]
     ELSE cron' = [cron EXCEPT ![c] = AtRest] /\ UNCHANGED sched
  /\ UNCHANGED <<durable, now, queue, slots, made, since, edits, troubles>>

Enqueue(c) ==
  /\ cron[c].at = "queue"
  /\ queue' = queue \cup {[token |-> cron[c].lock.token, tries |-> 0]}
  /\ cron'  = [cron EXCEPT ![c] = AtRest]
  /\ UNCHANGED <<durable, now, sched, slots, made, since, edits, troubles>>

EnqueueFails(c) ==
  /\ cron[c].at = "queue" /\ durable
  /\ Trouble
  /\ cron' = [cron EXCEPT ![c].at = "release"]
  /\ UNCHANGED <<durable, now, sched, queue, slots, made, since, edits>>

\* The claim is given back, unless that fails as well.
Release(c) ==
  /\ cron[c].at = "release"
  /\ IF sched.lock.token = cron[c].lock.token THEN Locks(NoLock) ELSE UNCHANGED sched
  /\ cron' = [cron EXCEPT ![c] = AtRest]
  /\ UNCHANGED <<durable, now, queue, slots, made, since, edits, troubles>>

ReleaseFails(c) ==
  /\ cron[c].at = "release"
  /\ Trouble
  /\ cron' = [cron EXCEPT ![c] = AtRest]
  /\ UNCHANGED <<durable, now, sched, queue, slots, made, since, edits>>

-----------------------------------------------------------------------------
\* generateOne, one serializable transaction.

\* Unlike generateOne: does not look for an occurrence that exists.
GenerateAnyway(e) ==
  /\ e \in queue
  /\ queue' = queue \ {e}
  /\ IF Due /\ sched.lock.token = e.token
     THEN /\ slots' = slots \cup {sched.next}
          /\ made'  = [made EXCEPT ![sched.next] = @ + 1]
          /\ sched' = [sched EXCEPT !.next = followingRun(sched, sched.next), !.lock = NoLock]
     ELSE UNCHANGED <<slots, made, sched>>
  /\ UNCHANGED <<durable, now, cron, since, edits, troubles>>

Generate(e) ==
  /\ e \in queue
  /\ queue' = queue \ {e}
  /\ IF Due /\ sched.lock.token = e.token
     THEN /\ slots' = slots \cup {sched.next}
          /\ made'  = IF sched.next \in slots THEN made
                      ELSE [made EXCEPT ![sched.next] = @ + 1]
          /\ sched' = [sched EXCEPT !.next = followingRun(sched, sched.next), !.lock = NoLock]
     ELSE UNCHANGED <<slots, made, sched>>
  /\ UNCHANGED <<durable, now, cron, since, edits, troubles>>

\* The queue tries a failed entry again, within limits and only if it is durable.
GenerateFails(e) ==
  /\ e \in queue
  /\ Trouble
  /\ queue' = (queue \ {e}) \cup
       {f \in {[e EXCEPT !.tries = @ + 1]} : durable /\ f.tries < Attempts}
  /\ UNCHANGED <<durable, now, sched, cron, slots, made, since, edits>>

\* A restart of the process ends its cron runs and loses what it only held in memory.
Restart ==
  /\ Trouble
  /\ cron'  = [c \in Crons |-> AtRest]
  /\ queue' = IF durable THEN queue ELSE {}
  /\ UNCHANGED <<durable, now, sched, slots, made, since, edits>>

-----------------------------------------------------------------------------
\* Staff.

Edited == edits < MaxEdits /\ edits' = edits + 1

\* update, of the recurrence: a held lease refuses it, an expired one is cleared.
Update ==
  /\ sched.status # "CANCELLED" /\ ~sched.lock.live
  /\ Edited
  /\ \E p \in Plans :
       LET plan == [sched EXCEPT !.start = p[1], !.period = p[2], !.end = p[3]] IN
       /\ plan # sched
       /\ sched' = [plan EXCEPT !.next = nextRunAfterEdit(plan), !.lock = NoLock]
  /\ since' = now
  /\ UNCHANGED <<durable, now, cron, queue, slots, made, troubles>>

SetStatus ==
  /\ sched.status # "CANCELLED" /\ ~sched.lock.live
  /\ Edited
  /\ \E status \in {"ACTIVE", "PAUSED", "CANCELLED"} :
       /\ status = "ACTIVE" => sched.next # Never
       /\ sched' = [sched EXCEPT !.status = status, !.lock = NoLock]
  /\ UNCHANGED <<durable, now, cron, queue, slots, made, since, troubles>>

-----------------------------------------------------------------------------
Held ==
  \/ \E c \in Crons : cron[c].lock.token = sched.lock.token
  \/ \E e \in queue : e.token = sched.lock.token

\* Ten minutes are up: always in the end if nobody is left to use the claim, and as a failure
\* like others if a run or the queue was slower than that.
LeaseExpires ==
  /\ sched.lock.live /\ ~Held
  /\ Locks([sched.lock EXCEPT !.live = FALSE])
  /\ UNCHANGED <<durable, now, cron, queue, slots, made, since, edits, troubles>>

LeaseOutrun ==
  /\ sched.lock.live /\ Held
  /\ Trouble
  /\ Locks([sched.lock EXCEPT !.live = FALSE])
  /\ UNCHANGED <<durable, now, cron, queue, slots, made, since, edits>>

Pass ==
  /\ now < Horizon
  /\ now' = now + 1
  /\ UNCHANGED <<durable, sched, cron, queue, slots, made, since, edits, troubles>>

InitSchedule ==
  /\ durable \in BOOLEAN
  /\ now = 0
  /\ \E p \in Plans :
       sched = [status |-> "ACTIVE", start |-> p[1], period |-> p[2], end |-> p[3],
                next |-> p[1], lock |-> NoLock]
  /\ cron = [c \in Crons |-> AtRest]
  /\ queue = {} /\ slots = {}
  /\ made = [t \in Instants |-> 0]
  /\ since = 0 /\ edits = 0 /\ troubles = 0

CronRun(c) == Find(c) \/ Claim(c) \/ Enqueue(c) \/ Release(c)

Work == \E e \in queue : Generate(e)

NextSchedule ==
  \/ \E c \in Crons : CronRun(c) \/ EnqueueFails(c) \/ ReleaseFails(c)
  \/ Work
  \/ \E e \in queue : GenerateFails(e)
  \/ LeaseExpires \/ LeaseOutrun \/ Pass \/ Restart
  \/ Update \/ SetStatus

\* The cron comes every minute and goes on, the worker takes what is queued, and time runs
\* out the lease of a claim that nobody uses.
SpecSchedule ==
  /\ InitSchedule /\ [][NextSchedule]_scheduleVars
  /\ \A c \in Crons : WF_scheduleVars(CronRun(c))
  /\ WF_scheduleVars(Work) /\ WF_scheduleVars(LeaseExpires)

-----------------------------------------------------------------------------
\* Properties.

\* One visit per occurrence: overlapping runs, leases that ran out under a slow worker,
\* queue entries tried again and edits that move the plan back over occurrences already
\* served never send a technician twice.
OneJobPerSlot == \A t \in Instants : made[t] <= 1

\* "Recurrence changes recalculate the next run to the first matching time at or after the
\* edit, skipping overdue ungenerated slots" - those and no others: whatever lies on the
\* plan between the last edit and the next run has its job, also after a pause or an outage
\* that lasted for several occurrences.
NoSlotSkipped ==
  \A t \in Instants :
    OnGrid(t) /\ t >= since /\ (sched.next # Never => t < sched.next) => t \in slots

\* An occurrence that falls due is served, or staff change the plan: no failure or restart
\* between claim and job leaves the schedule locked for good.
DueIsServed ==
  \A t \in Instants : (Due /\ sched.next = t) ~> ~(Due /\ sched.next = t)

=============================================================================
