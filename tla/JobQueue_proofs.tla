--------------------------- MODULE JobQueue_proofs ---------------------------
\* Proofs about JobQueue for any number of processes, jobs and troubles.
EXTENDS JobQueue, FiniteSetTheorems, TLAPS

-----------------------------------------------------------------------------
\* Types.

LEMMA InitTyped == Init => TypeOK
  <1>1. Cardinality(Jobs) \in Nat
    BY JobsAssumption, FS_CardinalityType
  <1>2. NoRow \in Rows
    BY <1>1 DEF NoRow, Rows
  <1>3. Dead \in Processes
    BY DEF Dead, Processes
  <1> QED BY <1>2, <1>3, JobsAssumption DEF Init, TypeOK, Dead, At

LEMMA NextRank ==
  ASSUME NEW j \in Jobs, job[j].status = "NONE"
  PROVE  Cardinality(Created) + 1 \in 0 .. Cardinality(Jobs)
  <1>1. Created \subseteq Jobs /\ Created # Jobs
    BY DEF Created
  <1>2. IsFiniteSet(Created) /\ Cardinality(Created) <= Cardinality(Jobs)
        /\ Cardinality(Created) # Cardinality(Jobs)
    BY <1>1, JobsAssumption, FS_Subset
  <1>3. Cardinality(Created) \in Nat /\ Cardinality(Jobs) \in Nat
    BY <1>2, JobsAssumption, FS_CardinalityType
  <1> QED BY <1>2, <1>3

LEMMA StatusTyped ==
  ASSUME TypeOK, NEW j, NEW s \in {"NONE", "QUEUED", "RUNNING"} \cup Finished, SetStatus(j, s)
  PROVE  job' \in [Jobs -> Rows]
  BY DEF TypeOK, SetStatus, Rows

LEMMA StepTyped == TypeOK /\ [Next]_vars => TypeOK'
  <1> SUFFICES ASSUME TypeOK, [Next]_vars
               PROVE  TypeOK'
    OBVIOUS
  <1>1. CASE UNCHANGED vars
    BY <1>1 DEF vars, TypeOK, At
  <1>2. ASSUME NEW w \in Workers, NEW j \in Jobs, Enqueue(w, j)
        PROVE  TypeOK'
    <2>1. [status |-> "QUEUED", rank |-> Cardinality(Created) + 1] \in Rows
      BY <1>2, NextRank DEF Enqueue, Rows
    <2> QED BY <1>2, <2>1 DEF Enqueue, TypeOK, At
  <1>3. ASSUME NEW w \in Workers, Kick(w)
        PROVE  TypeOK'
    <2>1. PICK j \in kicks[w] :
            /\ kicks' = [kicks EXCEPT ![w] = @ \ {j}]
            /\ IF At(w, "off") THEN Goto(w, "look") ELSE UNCHANGED worker
            /\ UNCHANGED <<job, troubles, overtaken>>
      BY <1>3 DEF Kick
    <2>2. worker[w].up
      BY <2>1 DEF TypeOK
    <2>3. kicks' \in [Workers -> SUBSET Jobs] /\ \A v \in Workers : kicks[v] = {} => kicks'[v] = {}
      BY <2>1 DEF TypeOK
    <2>4. CASE At(w, "off")
      BY <2>1, <2>2, <2>3, <2>4 DEF Goto, TypeOK, At, Processes, DrainSteps
    <2>5. CASE ~At(w, "off")
      BY <2>1, <2>3, <2>5 DEF TypeOK, At
    <2> QED BY <2>4, <2>5
  <1>4. ASSUME NEW w \in Workers, Look(w)
        PROVE  TypeOK'
    BY <1>4, JobsAssumption DEF Look, Goto, TypeOK, At, Processes, DrainSteps
  <1>5. ASSUME NEW w \in Workers, Stop(w)
        PROVE  TypeOK'
    BY <1>5 DEF Stop, Goto, TypeOK, At, Processes, DrainSteps
  <1>6. ASSUME NEW w \in Workers, Claim(w)
        PROVE  TypeOK'
    <2>1. CASE SetStatus(worker[w].job, "RUNNING") /\ Goto(w, "work")
      BY <1>6, <2>1, StatusTyped DEF Claim, Goto, TypeOK, At, Processes, DrainSteps
    <2>2. CASE PutDown(w, "look") /\ UNCHANGED job
      BY <1>6, <2>2 DEF Claim, PutDown, TypeOK, At, Processes, DrainSteps
    <2> QED BY <1>6, <2>1, <2>2 DEF Claim
  <1>7. ASSUME NEW w \in Workers, TurnAway(w)
        PROVE  TypeOK'
    <2>1. job' \in [Jobs -> Rows]
      BY <1>7, StatusTyped DEF TurnAway, Finished
    <2> QED BY <1>7, <2>1 DEF TurnAway, PutDown, TypeOK, At, Processes, DrainSteps
  <1>8. ASSUME NEW w \in Workers, HandlerEnds(w)
        PROVE  TypeOK'
    BY <1>8 DEF HandlerEnds, Goto, TypeOK, At, Processes, DrainSteps
  <1>9. ASSUME NEW w \in Workers, WriteOutcome(w)
        PROVE  TypeOK'
    <2>1. job' \in [Jobs -> Rows]
      BY <1>9, StatusTyped DEF WriteOutcome, Finished
    <2> QED BY <1>9, <2>1 DEF WriteOutcome, PutDown, TypeOK, At, Processes, DrainSteps
  <1>10. ASSUME NEW w \in Workers, StatementFails(w)
         PROVE  TypeOK'
    BY <1>10, JobsAssumption DEF StatementFails, PutDown, Goto, Trouble, TypeOK, At, Processes, DrainSteps
  <1>11. ASSUME NEW w \in Workers, Crash(w)
         PROVE  TypeOK'
    BY <1>11, JobsAssumption DEF Crash, Dead, Trouble, TypeOK, At, Processes, DrainSteps
  <1>12. ASSUME NEW w \in Workers, Boot(w)
         PROVE  TypeOK'
    <2>1. job' \in [Jobs -> Rows]
      BY <1>12 DEF Boot, TypeOK, Rows
    <2> QED BY <1>12, <2>1 DEF Boot, StartDrain, TypeOK, At, Processes, DrainSteps
  <1>13. ASSUME NEW w \in Workers, BootWithoutRequeue(w)
         PROVE  TypeOK'
    BY <1>13, JobsAssumption DEF BootWithoutRequeue, StartDrain, Trouble, TypeOK, At, Processes, DrainSteps
  <1>14. ASSUME NEW w \in Workers, Register(w)
         PROVE  TypeOK'
    BY <1>14 DEF Register, TypeOK, At, Processes
  <1> QED
    BY <1>1, <1>2, <1>3, <1>4, <1>5, <1>6, <1>7, <1>8, <1>9, <1>10, <1>11, <1>12, <1>13, <1>14
    DEF Next, Drain

\* Rows and processes keep their shapes for any number of them: a drain has a job from
\* findFirst to the outcome, and a dead process neither drains nor will.
THEOREM TypeCorrect == Spec => []TypeOK
  BY InitTyped, StepTyped, PTL DEF Spec

-----------------------------------------------------------------------------
\* One runner per job.

\* The runners of a job that no boot took over are one at most, and while there is
\* one, no other process can claim the row.
Reserved(j) ==
  /\ \A v, w \in Working(j) : v = w
  /\ Working(j) # {} => job[j].status \notin {"NONE", "QUEUED"}

\* A claim is made on a row that exists.
ClaimsRows == \A w \in Workers : worker[w].job # NoJob => job[worker[w].job].status # "NONE"

Runners == TypeOK /\ ClaimsRows /\ \A j \in Jobs \ overtaken : Reserved(j)

LEMMA InitRunners == Init => Runners
  BY InitTyped, JobsAssumption DEF Init, Runners, ClaimsRows, Reserved, Working, Dead

\* A step that gives no job another runner, and that queues only rows nobody runs.
LEMMA NoNewRunner ==
  ASSUME Runners, TypeOK', overtaken \subseteq overtaken',
         \A j \in Jobs : Working(j)' \subseteq Working(j),
         \A j \in Jobs \ overtaken' :
           Working(j)' # {} /\ job'[j].status \in {"NONE", "QUEUED"}
             => job[j].status \in {"NONE", "QUEUED"}
  PROVE  \A j \in Jobs \ overtaken' : Reserved(j)'
  BY DEF Runners, Reserved

LEMMA StepRunners == Runners /\ [Next]_vars => Runners'
  <1> SUFFICES ASSUME Runners, [Next]_vars
               PROVE  Runners'
    OBVIOUS
  <1>t. TypeOK /\ TypeOK'
    BY StepTyped DEF Runners
  <1>c. ClaimsRows'
    <2>1. CASE UNCHANGED vars
      BY <2>1 DEF vars, Runners, ClaimsRows
    <2>2. ASSUME NEW w \in Workers, NEW j \in Jobs, Enqueue(w, j)
          PROVE  ClaimsRows'
      BY <2>2, <1>t DEF Enqueue, Runners, ClaimsRows, TypeOK, Processes
    <2>3. ASSUME NEW w \in Workers, Kick(w)
          PROVE  ClaimsRows'
      BY <2>3, <1>t DEF Kick, Goto, Runners, ClaimsRows, TypeOK, Processes
    <2>4. ASSUME NEW w \in Workers, Look(w)
          PROVE  ClaimsRows'
      BY <2>4, <1>t DEF Look, Oldest, Goto, Runners, ClaimsRows, TypeOK, Processes
    <2>5. ASSUME NEW w \in Workers, Stop(w) \/ HandlerEnds(w)
          PROVE  ClaimsRows'
      BY <2>5, <1>t DEF Stop, HandlerEnds, Goto, Runners, ClaimsRows, TypeOK, Processes
    <2>6. ASSUME NEW w \in Workers, Claim(w) \/ TurnAway(w) \/ WriteOutcome(w)
          PROVE  ClaimsRows'
      BY <2>6, <1>t DEF Claim, TurnAway, WriteOutcome, SetStatus, Goto, PutDown, Runners, ClaimsRows,
         TypeOK, Processes, Rows
    <2>7. ASSUME NEW w \in Workers, StatementFails(w) \/ Crash(w) \/ Register(w)
          PROVE  ClaimsRows'
      BY <2>7, <1>t DEF StatementFails, Crash, Register, Dead, Goto, PutDown, Runners, ClaimsRows,
         TypeOK, Processes
    <2>8. ASSUME NEW w \in Workers, Boot(w) \/ BootWithoutRequeue(w)
          PROVE  ClaimsRows'
      <3>1. \A v \in Workers : worker'[v].job = worker[v].job
        BY <2>8, <1>t DEF Boot, BootWithoutRequeue, StartDrain, TypeOK, Processes
      <3>2. \A j \in Jobs : job'[j].status = "NONE" => job[j].status = "NONE"
        BY <2>8, <1>t DEF Boot, BootWithoutRequeue, TypeOK, Rows
      <3>3. \A v \in Workers : worker[v].job # NoJob => worker[v].job \in Jobs
        BY <1>t DEF TypeOK, Processes
      <3> QED BY <3>1, <3>2, <3>3 DEF Runners, ClaimsRows
    <2> QED BY <2>1, <2>2, <2>3, <2>4, <2>5, <2>6, <2>7, <2>8 DEF Next, Drain
  <1>1. CASE UNCHANGED vars
    BY <1>1, <1>c, <1>t DEF vars, Runners, Reserved, Working
  <1>2. ASSUME NEW w \in Workers, NEW j \in Jobs, Enqueue(w, j)
        PROVE  Runners'
    <2>1. \A k \in Jobs : job'[k].status \in {"NONE", "QUEUED"} => job[k].status \in {"NONE", "QUEUED"}
      BY <1>2, <1>t DEF Enqueue, TypeOK
    <2> QED BY <1>2, <2>1, <1>c, <1>t, NoNewRunner DEF Enqueue, Working, Runners
  <1>3. ASSUME NEW w \in Workers, Kick(w)
        PROVE  Runners'
    <2>1. \A k \in Jobs : Working(k)' \subseteq Working(k)
      BY <1>3, <1>t DEF Kick, Goto, Working, TypeOK, Processes
    <2> QED BY <1>3, <2>1, <1>c, <1>t, NoNewRunner DEF Kick, Runners
  <1>4. ASSUME NEW w \in Workers, Look(w) \/ Stop(w)
        PROVE  Runners'
    <2>1. \A k \in Jobs : Working(k)' \subseteq Working(k)
      BY <1>4, <1>t DEF Look, Stop, Goto, Working, TypeOK, Processes, At
    <2> QED BY <1>4, <2>1, <1>c, <1>t, NoNewRunner DEF Look, Stop, Runners
  <1>5. ASSUME NEW w \in Workers, Claim(w)
        PROVE  Runners'
    <2>j. PICK j \in Jobs : j = worker[w].job
      BY <1>5, <1>t DEF Claim, TypeOK, Processes, At
    <2>1. CASE job[j].status = "QUEUED" /\ SetStatus(j, "RUNNING") /\ Goto(w, "work")
      <3>1. Working(j)' = Working(j) \cup {w}
        BY <1>5, <2>1, <2>j, <1>t DEF Claim, Goto, Working, TypeOK, Processes, At
      <3>2. \A k \in Jobs \ {j} : Working(k)' = Working(k) /\ job'[k] = job[k]
        BY <1>5, <2>1, <2>j, <1>t DEF Claim, Goto, SetStatus, Working, TypeOK, Processes, At
      <3>3. job'[j].status = "RUNNING"
        BY <2>1, <2>j, <1>t DEF SetStatus, TypeOK, Rows
      <3>4. j \notin overtaken => Working(j) = {}
        BY <2>1, <2>j DEF Runners, Reserved
      <3>5. \A k \in Jobs \ overtaken' : Reserved(k)'
        <4>1. overtaken' = overtaken
          BY <1>5 DEF Claim
        <4>2. ASSUME NEW k \in Jobs \ {j}, k \notin overtaken
              PROVE  Reserved(k)'
          BY <3>2, <4>2 DEF Runners, Reserved
        <4>3. ASSUME j \notin overtaken
              PROVE  Reserved(j)'
          <5>1. Working(j)' = {w}
            BY <3>1, <3>4, <4>3
          <5>2. \A u, v \in Working(j)' : u = v
            BY <5>1
          <5> QED BY <3>3, <5>2 DEF Reserved
        <4> QED
          <5> SUFFICES ASSUME NEW k \in Jobs \ overtaken
                       PROVE  Reserved(k)'
            BY <4>1
          <5>1. CASE k = j
            BY <4>3, <5>1
          <5> QED BY <4>2, <5>1
      <3> QED BY <3>5, <1>c, <1>t DEF Runners
    <2>2. CASE PutDown(w, "look") /\ UNCHANGED job
      <3>1. \A k \in Jobs : Working(k)' \subseteq Working(k)
        BY <2>2, <1>t DEF PutDown, Working, TypeOK, Processes
      <3> QED BY <1>5, <2>2, <3>1, <1>c, <1>t, NoNewRunner DEF Claim, Runners
    <2> QED BY <1>5, <2>j, <2>1, <2>2 DEF Claim
  <1>6. ASSUME NEW w \in Workers, TurnAway(w) \/ WriteOutcome(w)
        PROVE  Runners'
    <2>1. \A k \in Jobs : Working(k)' \subseteq Working(k)
      BY <1>6, <1>t DEF TurnAway, WriteOutcome, PutDown, Working, TypeOK, Processes
    <2>2. \A k \in Jobs : job'[k].status \in {"NONE", "QUEUED"} => job[k].status \in {"NONE", "QUEUED"}
      BY <1>6, <1>t DEF TurnAway, WriteOutcome, SetStatus, TypeOK, Rows
    <2> QED BY <1>6, <2>1, <2>2, <1>c, <1>t, NoNewRunner DEF TurnAway, WriteOutcome, Runners
  <1>7. ASSUME NEW w \in Workers, HandlerEnds(w)
        PROVE  Runners'
    <2>1. \A k \in Jobs : Working(k)' \subseteq Working(k)
      BY <1>7, <1>t DEF HandlerEnds, Goto, Working, TypeOK, Processes, At
    <2> QED BY <1>7, <2>1, <1>c, <1>t, NoNewRunner DEF HandlerEnds, Runners
  <1>8. ASSUME NEW w \in Workers, StatementFails(w) \/ Crash(w) \/ Register(w)
        PROVE  Runners'
    <2>1. \A k \in Jobs : Working(k)' \subseteq Working(k)
      BY <1>8, <1>t DEF StatementFails, Crash, Register, Dead, Goto, PutDown, Working, TypeOK,
         Processes, At
    <2> QED BY <1>8, <2>1, <1>c, <1>t, NoNewRunner DEF StatementFails, Crash, Register, Runners
  <1>9. ASSUME NEW w \in Workers, Boot(w)
        PROVE  Runners'
    <2>1. \A k \in Jobs : Working(k)' \subseteq Working(k)
      BY <1>9, <1>t DEF Boot, StartDrain, Working, TypeOK, Processes
    <2>2. \A k \in Jobs \ overtaken' :
            Working(k) # {} => job[k].status # "RUNNING" /\ job'[k] = job[k]
      BY <1>9, <1>t DEF Boot, TypeOK
    <2>3. overtaken \subseteq overtaken'
      BY <1>9 DEF Boot
    <2> QED BY <2>1, <2>2, <2>3, <1>c, <1>t, NoNewRunner DEF Runners
  <1>10. ASSUME NEW w \in Workers, BootWithoutRequeue(w)
         PROVE  Runners'
    <2>1. \A k \in Jobs : Working(k)' \subseteq Working(k)
      BY <1>10, <1>t DEF BootWithoutRequeue, StartDrain, Working, TypeOK, Processes
    <2> QED BY <1>10, <2>1, <1>c, <1>t, NoNewRunner DEF BootWithoutRequeue, Runners
  <1> QED
    BY <1>1, <1>2, <1>3, <1>4, <1>5, <1>6, <1>7, <1>8, <1>9, <1>10 DEF Next, Drain

LEMMA RunnersAreOne == Runners => OneRunner
  <1> SUFFICES ASSUME Runners, NEW j \in Jobs \ overtaken
               PROVE  Cardinality(Working(j)) <= 1
    BY DEF OneRunner
  <1>1. CASE Working(j) = {}
    BY <1>1, FS_EmptySet
  <1>2. ASSUME NEW w \in Working(j)
        PROVE  Cardinality(Working(j)) <= 1
    <2>1. Working(j) = {w}
      BY <1>2 DEF Runners, Reserved
    <2> QED BY <2>1, FS_Singleton
  <1> QED BY <1>1, <1>2

\* However many processes drain, crash and boot, none enters a job that another one is
\* inside, unless a boot has requeued it meanwhile.
THEOREM ClaimsExclude == Spec => []OneRunner
  <1>1. Spec => []Runners
    BY InitRunners, StepRunners, PTL DEF Spec
  <1> QED BY <1>1, RunnersAreOne, PTL

-----------------------------------------------------------------------------
\* Outcomes stand.

Ordinary == Jobs \ (overtaken \cup Late)

\* Whoever is inside an ordinary job finds its row RUNNING.
RowsFollow == \A j \in Ordinary : Working(j) # {} => job[j].status = "RUNNING"

JobKeeps(j) == job[j].status \in Finished => job'[j].status = job[j].status

\* Rows of ordinary jobs are as they were, or new, and nobody enters a job.
Uneventful ==
  /\ overtaken' = overtaken
  /\ \A j \in Ordinary : /\ Working(j)' \subseteq Working(j)
                         /\ job'[j].status = job[j].status \/ job[j].status = "NONE"

LEMMA UneventfulKeeps ==
  ASSUME RowsFollow, Uneventful
  PROVE  RowsFollow' /\ \A j \in Ordinary' : JobKeeps(j)
  BY DEF RowsFollow, Uneventful, Ordinary, JobKeeps, Finished

LEMMA StepKeepsOutcomes ==
  ASSUME Runners, RowsFollow, [Next]_vars
  PROVE  RowsFollow' /\ \A j \in Ordinary' : JobKeeps(j)
  <1>t. TypeOK
    BY DEF Runners
  <1>1. CASE UNCHANGED vars
    <2>1. Uneventful
      BY <1>1 DEF vars, Uneventful, Working
    <2> QED BY <2>1, UneventfulKeeps
  <1>2. ASSUME NEW w \in Workers, NEW j \in Jobs, Enqueue(w, j)
        PROVE  Uneventful
    BY <1>2, <1>t DEF Enqueue, TypeOK, Uneventful, Ordinary, Working
  <1>3. ASSUME NEW w \in Workers, Kick(w)
        PROVE  Uneventful
    BY <1>3, <1>t DEF Kick, Goto, TypeOK, Processes, At, Uneventful, Working
  <1>4. ASSUME NEW w \in Workers, Look(w) \/ Stop(w) \/ HandlerEnds(w)
        PROVE  Uneventful
    BY <1>4, <1>t DEF Look, Stop, HandlerEnds, Goto, TypeOK, Processes, At, Uneventful, Working
  <1>5. ASSUME NEW w \in Workers, Claim(w)
        PROVE  RowsFollow' /\ \A j \in Ordinary' : JobKeeps(j)
    <2>1. CASE PutDown(w, "look") /\ UNCHANGED job
      <3>1. Uneventful
        BY <1>5, <2>1, <1>t DEF Claim, PutDown, TypeOK, Processes, Uneventful, Working
      <3> QED BY <3>1, UneventfulKeeps
    <2>2. CASE job[worker[w].job].status = "QUEUED" /\ SetStatus(worker[w].job, "RUNNING") /\ Goto(w, "work")
      <3>1. PICK j \in Jobs : j = worker[w].job
        BY <1>5, <1>t DEF Claim, TypeOK, Processes, At
      <3>2. job'[j].status = "RUNNING" /\ \A k \in Jobs \ {j} : job'[k] = job[k]
        BY <2>2, <3>1, <1>t DEF SetStatus, TypeOK, Rows
      <3>3. \A k \in Jobs \ {j} : Working(k)' \subseteq Working(k)
        BY <1>5, <2>2, <3>1, <1>t DEF Claim, Goto, TypeOK, Processes, At, Working
      <3>4. overtaken' = overtaken
        BY <1>5 DEF Claim
      <3>5. RowsFollow'
        BY <3>2, <3>3, <3>4 DEF RowsFollow, Ordinary
      <3>6. job[j].status \notin Finished
        BY <2>2, <3>1 DEF Finished
      <3> QED BY <3>2, <3>4, <3>5, <3>6 DEF Ordinary, JobKeeps
    <2> QED BY <1>5, <2>1, <2>2 DEF Claim
  <1>6. ASSUME NEW w \in Workers, TurnAway(w)
        PROVE  Uneventful
    <2>1. worker[w].job \in Late
      BY <1>6 DEF TurnAway, Registered
    <2>2. \A k \in Jobs \ Late : job'[k].status = job[k].status
      BY <1>6, <2>1, <1>t DEF TurnAway, SetStatus, TypeOK
    <2>3. \A k \in Jobs : Working(k)' \subseteq Working(k)
      BY <1>6, <1>t DEF TurnAway, PutDown, TypeOK, Processes, Working
    <2> QED BY <1>6, <2>2, <2>3 DEF TurnAway, Uneventful, Ordinary
  <1>7. ASSUME NEW w \in Workers, WriteOutcome(w)
        PROVE  RowsFollow' /\ \A j \in Ordinary' : JobKeeps(j)
    <2>1. PICK j \in Jobs : j = worker[w].job
      BY <1>7, <1>t DEF WriteOutcome, TypeOK, Processes, At
    <2>2. w \in Working(j)
      BY <1>7, <2>1 DEF WriteOutcome, Working, At
    <2>3. /\ \A k \in Jobs : Working(k)' \subseteq Working(k)
          /\ w \notin Working(j)'
      BY <1>7, <2>1, <1>t DEF WriteOutcome, PutDown, TypeOK, Processes, Working
    <2>4. \A k \in Jobs \ {j} : job'[k] = job[k]
      BY <1>7, <2>1, <1>t DEF WriteOutcome, SetStatus, TypeOK
    <2>5. overtaken' = overtaken
      BY <1>7 DEF WriteOutcome
    <2>6. j \in Ordinary => Working(j)' = {} /\ job[j].status = "RUNNING"
      BY <2>2, <2>3 DEF Runners, Reserved, RowsFollow, Ordinary
    <2>7. RowsFollow'
      BY <2>3, <2>4, <2>5, <2>6 DEF RowsFollow, Ordinary
    <2> QED BY <2>4, <2>5, <2>6, <2>7 DEF Ordinary, JobKeeps, Finished
  <1>8. ASSUME NEW w \in Workers, StatementFails(w) \/ Crash(w) \/ Register(w)
        PROVE  Uneventful
    BY <1>8, <1>t DEF StatementFails, Crash, Register, Dead, Goto, PutDown, TypeOK, Processes, At,
       Uneventful, Working
  <1>9. ASSUME NEW w \in Workers, Boot(w)
        PROVE  RowsFollow' /\ \A j \in Ordinary' : JobKeeps(j)
    <2>1. \A k \in Jobs : Working(k)' = Working(k)
      BY <1>9, <1>t DEF Boot, StartDrain, TypeOK, Processes, Working
    <2>2. \A k \in Ordinary' : k \in Ordinary /\ Working(k) = {}
      BY <1>9 DEF Boot, Ordinary, RowsFollow
    <2>3. \A k \in Jobs : job[k].status # "RUNNING" => job'[k] = job[k]
      BY <1>9 DEF Boot
    <2>4. RowsFollow'
      BY <2>1, <2>2 DEF RowsFollow, Ordinary
    <2> QED BY <2>3, <2>4 DEF Ordinary, JobKeeps, Finished
  <1>10. ASSUME NEW w \in Workers, BootWithoutRequeue(w)
         PROVE  Uneventful
    BY <1>10, <1>t DEF BootWithoutRequeue, StartDrain, TypeOK, Processes, Uneventful, Working
  <1> QED
    BY <1>1, <1>2, <1>3, <1>4, <1>5, <1>6, <1>7, <1>8, <1>9, <1>10, UneventfulKeeps DEF Next, Drain

\* The outcome of a job that no boot took from its runner and whose type every process knows is
\* written once, however many processes drain, crash and boot.
THEOREM OutcomesAreKept == Spec => OutcomesStand
  <1>1. Init => RowsFollow
    BY DEF Init, RowsFollow, Working, Dead
  <1>2. Runners /\ RowsFollow /\ [Next]_vars
          => RowsFollow' /\ [\A j \in Jobs \ (Late \cup overtaken') :
                               job[j].status \in Finished => job'[j].status = job[j].status]_vars
    BY StepKeepsOutcomes DEF Ordinary, JobKeeps
  <1> QED BY <1>1, <1>2, InitRunners, StepRunners, PTL DEF Spec, OutcomesStand

=============================================================================
