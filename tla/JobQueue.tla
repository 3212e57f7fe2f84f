------------------------------ MODULE JobQueue ------------------------------
(***************************************************************************)
(* JobsService: background jobs as rows of the Job table, drained one at a *)
(* time by every process of the cluster that has booted.  A process finds  *)
(* the oldest QUEUED row, claims it with a conditional update, runs the    *)
(* handler and writes the outcome by id.  A process that boots requeues    *)
(* every RUNNING row.                                                      *)
(*                                                                         *)
(* Progress, totals, labels and the tenant of a job are left out.          *)
(***************************************************************************)
EXTENDS Naturals, FiniteSets

CONSTANTS
  Workers,      \* processes of the cluster
  Jobs,         \* rows that may be created
  NoJob,        \* a drain between two jobs
  Late,         \* jobs whose handler another service registers when it boots
  MaxTroubles   \* bound: crashes of a process and failing statements

ASSUME JobsAssumption ==
  Late \subseteq Jobs /\ IsFiniteSet(Jobs) /\ NoJob \notin Jobs /\ MaxTroubles \in Nat

VARIABLES
  job,          \* Job rows: status, and createdAt as a rank
  worker,       \* processes: up, handlers registered, where drain() stands
  kicks,        \* enqueue requests whose insert has returned and that will kick drain()
  troubles,     \* history: crashes and failed statements so far
  overtaken     \* history: jobs requeued by a boot while a live process ran them

vars == <<job, worker, kicks, troubles, overtaken>>

Finished == {"DONE", "FAILED", "UNHANDLED"}     \* UNHANDLED: FAILED with `No handler for ...`

Rows == [status : {"NONE", "QUEUED", "RUNNING"} \cup Finished, rank : 0 .. Cardinality(Jobs)]

NoRow == [status |-> "NONE", rank |-> 0]

\* drain(): "look" before findFirst, "empty" and "claim" after it, "work" in
\* the handler, "done" and "failed" before the outcome is written.
DrainSteps == {"look", "empty", "claim", "work", "done", "failed"}

Processes == [up : BOOLEAN, ready : BOOLEAN, pc : DrainSteps \cup {"off"}, job : Jobs \cup {NoJob}]

At(w, step) == worker[w].pc = step

Goto(w, step) == worker' = [worker EXCEPT ![w].pc = step]

\* At a place where run() has returned and no job is in hand.
PutDown(w, step) == worker' = [worker EXCEPT ![w].pc = step, ![w].job = NoJob]

SetStatus(j, s) == job' = [job EXCEPT ![j].status = s]

Working(j) == {w \in Workers : worker[w].job = j /\ worker[w].pc \in {"work", "done", "failed"}}

Oldest(j) ==
  /\ job[j].status = "QUEUED"
  /\ \A k \in Jobs : job[k].status = "QUEUED" => job[j].rank <= job[k].rank

Registered(w, j) == j \notin Late \/ worker[w].ready

Trouble == troubles < MaxTroubles /\ troubles' = troubles + 1

-----------------------------------------------------------------------------
(* Enqueue: the row is created, and then drain() is kicked.                *)

Created == {j \in Jobs : job[j].status # "NONE"}

Enqueue(w, j) ==
  /\ worker[w].up
  /\ Registered(w, j)
  /\ job[j].status = "NONE"
  /\ job' = [job EXCEPT ![j] = [status |-> "QUEUED", rank |-> Cardinality(Created) + 1]]
  /\ kicks' = [kicks EXCEPT ![w] = @ \cup {j}]
  /\ UNCHANGED <<worker, troubles, overtaken>>

\* A drain under way makes the kick a no-op, however near its end it is.
Kick(w) ==
  \E j \in kicks[w] :
    /\ kicks' = [kicks EXCEPT ![w] = @ \ {j}]
    /\ IF At(w, "off") THEN Goto(w, "look") ELSE UNCHANGED worker
    /\ UNCHANGED <<job, troubles, overtaken>>

-----------------------------------------------------------------------------
(* drain() and run().                                                      *)

Look(w) ==
  /\ At(w, "look")
  /\ \/ \E j \in Jobs : Oldest(j) /\ worker' = [worker EXCEPT ![w].pc = "claim", ![w].job = j]
     \/ (\A j \in Jobs : job[j].status # "QUEUED") /\ Goto(w, "empty")
  /\ UNCHANGED <<job, kicks, troubles, overtaken>>

Stop(w) == At(w, "empty") /\ Goto(w, "off") /\ UNCHANGED <<job, kicks, troubles, overtaken>>

\* Mutant: the row is marked RUNNING whatever it has become since findFirst.
ClaimBlindly(w) ==
  LET j == worker[w].job IN
  /\ At(w, "claim")
  /\ Registered(w, j)
  /\ SetStatus(j, "RUNNING") /\ Goto(w, "work")
  /\ UNCHANGED <<kicks, troubles, overtaken>>

Claim(w) ==
  LET j == worker[w].job IN
  /\ At(w, "claim")
  /\ Registered(w, j)
  /\ \/ job[j].status = "QUEUED" /\ SetStatus(j, "RUNNING") /\ Goto(w, "work")
     \/ job[j].status # "QUEUED" /\ PutDown(w, "look") /\ UNCHANGED job
  /\ UNCHANGED <<kicks, troubles, overtaken>>

\* Mutant: a row of an unknown type is passed over.
PassOver(w) ==
  /\ At(w, "claim")
  /\ ~Registered(w, worker[w].job)
  /\ PutDown(w, "look")
  /\ UNCHANGED <<job, kicks, troubles, overtaken>>

\* The row is failed by id.
TurnAway(w) ==
  /\ At(w, "claim")
  /\ ~Registered(w, worker[w].job)
  /\ SetStatus(worker[w].job, "UNHANDLED") /\ PutDown(w, "look")
  /\ UNCHANGED <<kicks, troubles, overtaken>>

HandlerEnds(w) ==
  /\ At(w, "work")
  /\ \E outcome \in {"done", "failed"} : Goto(w, outcome)
  /\ UNCHANGED <<job, kicks, troubles, overtaken>>

\* Mutant: the outcome is written and the job is kept in hand.
WriteAndHold(w) ==
  /\ \/ At(w, "done") /\ SetStatus(worker[w].job, "DONE")
     \/ At(w, "failed") /\ SetStatus(worker[w].job, "FAILED")
  /\ Goto(w, "look")
  /\ UNCHANGED <<kicks, troubles, overtaken>>

WriteOutcome(w) ==
  /\ \/ At(w, "done") /\ SetStatus(worker[w].job, "DONE")
     \/ At(w, "failed") /\ SetStatus(worker[w].job, "FAILED")
  /\ PutDown(w, "look")
  /\ UNCHANGED <<kicks, troubles, overtaken>>

\* A statement throws: after the handler the job is failed instead, anywhere
\* else the drain ends with its flag reset and the row as it was.
StatementFails(w) ==
  /\ \/ At(w, "done") /\ Goto(w, "failed")
     \/ worker[w].pc \in {"look", "claim", "failed"} /\ PutDown(w, "off")
  /\ Trouble
  /\ UNCHANGED <<job, kicks, overtaken>>

-----------------------------------------------------------------------------
(* Processes die and are started again.                                    *)

Dead == [up |-> FALSE, ready |-> FALSE, pc |-> "off", job |-> NoJob]

Crash(w) ==
  /\ worker[w].up
  /\ worker' = [worker EXCEPT ![w] = Dead]
  /\ kicks' = [kicks EXCEPT ![w] = {}]
  /\ Trouble
  /\ UNCHANGED <<job, overtaken>>

StartDrain(w) == worker' = [worker EXCEPT ![w].up = TRUE, ![w].pc = "look"]

\* Mutant: rows left RUNNING are not requeued.
BootAsIs(w) ==
  /\ ~worker[w].up
  /\ StartDrain(w)
  /\ UNCHANGED <<job, kicks, troubles, overtaken>>

\* Mutant: what failed before the restart is tried again.
BootRetrying(w) ==
  /\ ~worker[w].up
  /\ StartDrain(w)
  /\ job' = [j \in Jobs |-> IF job[j].status \in {"RUNNING", "FAILED"}
                            THEN [job[j] EXCEPT !.status = "QUEUED"] ELSE job[j]]
  /\ UNCHANGED <<kicks, troubles, overtaken>>

Boot(w) ==
  LET running == {j \in Jobs : job[j].status = "RUNNING"} IN
  /\ ~worker[w].up
  /\ StartDrain(w)
  /\ job' = [j \in Jobs |-> IF j \in running THEN [job[j] EXCEPT !.status = "QUEUED"] ELSE job[j]]
  /\ overtaken' = overtaken \cup {j \in running : Working(j) # {}}
  /\ UNCHANGED <<kicks, troubles>>

\* The requeue throws and is ignored.
BootWithoutRequeue(w) == ~worker[w].up /\ StartDrain(w) /\ Trouble /\ UNCHANGED <<job, kicks, overtaken>>

\* The other services' onModuleInit has registered their handlers.
Register(w) ==
  /\ worker[w].up /\ ~worker[w].ready
  /\ worker' = [worker EXCEPT ![w].ready = TRUE]
  /\ UNCHANGED <<job, kicks, troubles, overtaken>>

-----------------------------------------------------------------------------
Init ==
  /\ job = [j \in Jobs |-> NoRow]
  /\ worker = [w \in Workers |-> Dead]
  /\ kicks = [w \in Workers |-> {}]
  /\ troubles = 0
  /\ overtaken = {}

Drain(w) == Look(w) \/ Stop(w) \/ Claim(w) \/ TurnAway(w) \/ HandlerEnds(w) \/ WriteOutcome(w)

Next ==
  \E w \in Workers :
    \/ \E j \in Jobs : Enqueue(w, j)
    \/ Kick(w)
    \/ Drain(w)
    \/ StatementFails(w)
    \/ Crash(w)
    \/ Boot(w)
    \/ BootWithoutRequeue(w)
    \/ Register(w)

\* The event loop carries on what has been started, handlers return (their own
\* work is bounded by time-outs), and the process manager restarts a process
\* that died.  Nobody is obliged to enqueue, and nothing must fail.
Fairness == \A w \in Workers : WF_vars(Kick(w)) /\ WF_vars(Drain(w)) /\ WF_vars(Boot(w))

Spec == Init /\ [][Next]_vars /\ Fairness

-----------------------------------------------------------------------------
\* Rows and processes have the shapes that the code gives them: a drain holds a
\* job from findFirst to the outcome, and a dead process neither drains nor starts a drain.
TypeOK ==
  /\ job \in [Jobs -> Rows]
  /\ worker \in [Workers -> Processes]
  /\ \A w \in Workers :
       /\ worker[w].job # NoJob <=> worker[w].pc \in {"claim", "work", "done", "failed"}
       /\ worker[w].up \/ (At(w, "off") /\ kicks[w] = {})
  /\ kicks \in [Workers -> SUBSET Jobs]
  /\ troubles \in 0 .. MaxTroubles
  /\ overtaken \subseteq Jobs

\* Two processes are never inside the same job, unless a third one booted
\* meanwhile and requeued it: the conditional claim is all there is.
OneRunner == \A j \in Jobs \ overtaken : Cardinality(Working(j)) <= 1

\* `two workers never run the same job`, without a reservation.
NeverTwoRunners == \A j \in Jobs : Cardinality(Working(j)) <= 1

\* The outcome of a job that was neither requeued under its runner nor meets a
\* process that does not know its type is never replaced.
OutcomesStand ==
  [][\A j \in Jobs \ (Late \cup overtaken') :
       job[j].status \in Finished => job'[j].status = job[j].status]_vars

\* No job waits for ever while processes keep draining: older rows, lost
\* claims and other processes only delay it.
NoJobStarves ==
  \A j \in Jobs : []<>(job[j].status # "QUEUED" \/ \A w \in Workers : At(w, "off"))

\* Whatever is queued or running when a process is down reaches an outcome
\* after the restart, once nothing else fails: an interrupted job is requeued
\* at boot.
LeftoversFinish ==
  \A j \in Jobs :
    (/\ job[j].status \in {"QUEUED", "RUNNING"}
     /\ \E w \in Workers : ~worker[w].up
     /\ troubles = MaxTroubles)
      ~> job[j].status \in Finished

\* `Set-and-forget`: a job that was accepted is eventually taken from the queue.
AcceptedIsTaken == \A j \in Jobs : (job[j].status = "QUEUED") ~> (job[j].status # "QUEUED")

\* A job is accepted only if its type is known, so it never ends for want of a handler.
NoneTurnedAway == \A j \in Jobs : job[j].status # "UNHANDLED"

=============================================================================
