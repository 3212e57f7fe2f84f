----------------------------- MODULE FieldWork -----------------------------
\* Field jobs and the material they use: FieldJobsService (field-jobs.service.ts) and
\* InventoryService (inventory.service.ts) over FieldJob and InventoryItem.
\*
\* A transaction under SERIALIZABLE is one step, and so is a handler whose only write is a
\* conditional update that names everything it read (updatedAt for a job, the owner, the
\* status and both job columns for an item). What runs under neither is split: unassign
\* counts material in one statement and writes the job in another, and remove checks the
\* job first and then deletes it by id.
EXTENDS Integers, FiniteSets

CONSTANTS
  Jobs,      \* field jobs that may be created
  Items,     \* serialized units of stock
  Techs,     \* technicians with an active employee profile
  Desks,     \* concurrent requests to unassign or to delete
  Windows,   \* appointments <<scheduledAt, appointmentEndsAt>> in hours, the end may be open
  NoOne      \* null in any column

ASSUME FieldWorkAssumption ==
  /\ NoOne \notin Jobs
  /\ \A w \in Windows : w[1] \in Int /\ (w[2] # NoOne => w[2] \in Int)

VARIABLES
  job,    \* job[j]: the row of j
  item,   \* item[i]: the row of i
  moved,  \* <<i, j>>: InventoryMovement rows of item i that name job j
  desk    \* desk[d]: what d has read and is about to write

vars == <<job, item, moved, desk>>

OpenStatuses == {"PENDING", "ASSIGNED", "IN_PROGRESS", "PENDING_REVIEW"}
Exists(j)    == job[j].status \notin {"ABSENT", "DELETED"}
Outstanding(j) == {i \in Items : item[i].issued = j \/ item[i].reserved = j}

\* A written row has a new updatedAt: requests that read it before now fail their
\* conditional update.
Overtaken(j) == [d \in Desks |-> IF desk[d].job = j THEN [desk[d] EXCEPT !.fresh = FALSE]
                                 ELSE desk[d]]
Save(j, row) == job' = [job EXCEPT ![j] = row] /\ desk' = Overtaken(j)

-----------------------------------------------------------------------------
\* Appointments.

EndOf(w) == IF w[2] = NoOne THEN w[1] + 1 ELSE w[2]

\* Unlike assertScheduleAvailable: without the branch for open ends.
InTheWayIfEnded(k, w) ==
  /\ job[k].window # NoOne
  /\ job[k].window[1] < EndOf(w)
  /\ job[k].window[2] # NoOne /\ job[k].window[2] > w[1]

\* assertScheduleAvailable: an appointment with an open end stands in the way of whatever
\* ends after its start.
InTheWay(k, w) ==
  /\ job[k].window # NoOne
  /\ job[k].window[1] < EndOf(w)
  /\ job[k].window[2] = NoOne \/ job[k].window[2] > w[1]

ScheduleAvailable(j, t, w) ==
  w # NoOne => \A k \in Jobs \ {j} :
    job[k].tech = t /\ job[k].status \in OpenStatuses => ~InTheWay(k, w)

-----------------------------------------------------------------------------
\* The work of a job.

Create(j, t, w) ==
  /\ job[j].status = "ABSENT"
  /\ t # NoOne => ScheduleAvailable(j, t, w)
  /\ Save(j, [status |-> IF t = NoOne THEN "PENDING" ELSE "ASSIGNED",
              tech |-> t, window |-> w, arrived |-> FALSE])
  /\ UNCHANGED <<item, moved>>

\* update and updateChecklist: the details of a job that nothing here depends on.
Edit(j) ==
  /\ Exists(j) /\ job[j].status \notin {"COMPLETED", "CANCELLED"}
  /\ Save(j, job[j])
  /\ UNCHANGED <<item, moved>>

\* "An active visit cannot be reassigned or rescheduled."
Assignable(row) ==
  /\ row.status \in {"PENDING", "ASSIGNED", "FAILED"}
  /\ ~row.arrived

\* Unlike assign: no look at the material of the former technician.
AssignOverMaterial(j, t, w) ==
  /\ Assignable(job[j])
  /\ ScheduleAvailable(j, t, w)
  /\ Save(j, [status |-> "ASSIGNED", tech |-> t, window |-> w, arrived |-> FALSE])
  /\ UNCHANGED <<item, moved>>

Assign(j, t, w) ==
  /\ Assignable(job[j])
  /\ job[j].tech # t => Outstanding(j) = {}
  /\ ScheduleAvailable(j, t, w)
  /\ Save(j, [status |-> "ASSIGNED", tech |-> t, window |-> w, arrived |-> FALSE])
  /\ UNCHANGED <<item, moved>>

\* arrive, and recordLocationCapture for a check-in.
Arrive(j) ==
  /\ job[j].status = "ASSIGNED" /\ ~job[j].arrived
  /\ Save(j, [job[j] EXCEPT !.arrived = TRUE])
  /\ UNCHANGED <<item, moved>>

Start(j) ==
  /\ job[j].status = "ASSIGNED" /\ job[j].arrived
  /\ Save(j, [job[j] EXCEPT !.status = "IN_PROGRESS"])
  /\ UNCHANGED <<item, moved>>

Complete(j, success) ==
  /\ job[j].status = "IN_PROGRESS"
  /\ Save(j, [job[j] EXCEPT !.status = IF success THEN "PENDING_REVIEW" ELSE "FAILED"])
  /\ UNCHANGED <<item, moved>>

ReviewCompletion(j, approved) ==
  /\ job[j].status = "PENDING_REVIEW"
  /\ approved => Outstanding(j) = {}
  /\ Save(j, [job[j] EXCEPT !.status = IF approved THEN "COMPLETED" ELSE "FAILED"])
  /\ UNCHANGED <<item, moved>>

\* Unlike cancel: the reservations stay.
CancelKeepingReservations(j) ==
  /\ job[j].status \in {"PENDING", "ASSIGNED"}
  /\ \A i \in Items : item[i].issued # j
  /\ Save(j, [job[j] EXCEPT !.status = "CANCELLED"])
  /\ UNCHANGED <<item, moved>>

\* Reservations are released with the cancellation, issued material forbids it.
Cancel(j) ==
  /\ job[j].status \in {"PENDING", "ASSIGNED"}
  /\ \A i \in Items : item[i].issued # j
  /\ item' = [i \in Items |-> IF item[i].reserved = j
                              THEN [item[i] EXCEPT !.reserved = NoOne] ELSE item[i]]
  /\ moved' = moved \cup (Outstanding(j) \X {j})
  /\ Save(j, [job[j] EXCEPT !.status = "CANCELLED"])

-----------------------------------------------------------------------------
\* unassign and remove, a statement at a time.

Idle == [op |-> "idle", job |-> NoOne, fresh |-> FALSE]

UnassignCount(d, j) ==
  /\ desk[d] = Idle
  /\ job[j].status \in {"PENDING", "ASSIGNED"}
  /\ Outstanding(j) = {}
  /\ desk' = [desk EXCEPT ![d] = [op |-> "unassign", job |-> j, fresh |-> TRUE]]
  /\ UNCHANGED <<job, item, moved>>

UnassignWrite(d) ==
  /\ desk[d].op = "unassign"
  /\ LET j == desk[d].job IN
       IF desk[d].fresh
       THEN /\ job' = [job EXCEPT ![j].status = "PENDING", ![j].tech = NoOne,
                                  ![j].window = NoOne]
            /\ desk' = [Overtaken(j) EXCEPT ![d] = Idle]
       ELSE /\ desk' = [desk EXCEPT ![d] = Idle]
            /\ UNCHANGED job
  /\ UNCHANGED <<item, moved>>

RemoveCheck(d, j) ==
  /\ desk[d] = Idle
  /\ job[j].status = "PENDING"
  /\ \A i \in Items : <<i, j>> \notin moved
  /\ desk' = [desk EXCEPT ![d] = [op |-> "remove", job |-> j, fresh |-> TRUE]]
  /\ UNCHANGED <<job, item, moved>>

\* The row goes by its id alone; the database sets the columns that named it to null.
RemoveDelete(d) ==
  /\ desk[d].op = "remove"
  /\ LET j == desk[d].job
         Forget(c) == IF c = j THEN NoOne ELSE c IN
       /\ job'   = [job EXCEPT ![j] = [status |-> "DELETED", tech |-> NoOne,
                                       window |-> NoOne, arrived |-> FALSE]]
       /\ item'  = [i \in Items |-> [item[i] EXCEPT !.issued = Forget(@),
                                                    !.reserved = Forget(@)]]
       /\ moved' = {m \in moved : m[2] # j}
       /\ desk'  = [Overtaken(j) EXCEPT ![d] = Idle]

-----------------------------------------------------------------------------
\* Material for a job: applyFieldJobMovement. A repeated idempotency key returns the
\* movement it made before and changes nothing.

Working == {"PENDING", "ASSIGNED", "IN_PROGRESS"}
InHand  == {"IN_STOCK", "ASSIGNED"}

\* The conditional update of the item and the movement row that goes with it.
Moves(j, i, row) ==
  /\ item'  = [item EXCEPT ![i] = row]
  /\ moved' = moved \cup {<<i, j>>}
  /\ UNCHANGED <<job, desk>>

Reserve(j, i) ==
  /\ job[j].status \in Working /\ job[j].tech # NoOne
  /\ item[i].issued = NoOne /\ item[i].reserved = NoOne
  /\ item[i].status \in InHand
  /\ Moves(j, i, [item[i] EXCEPT !.reserved = j])

Unreserve(j, i) ==
  /\ item[i].reserved = j /\ item[i].issued = NoOne
  /\ Moves(j, i, [item[i] EXCEPT !.reserved = NoOne])

Issue(j, i) ==
  /\ job[j].status \in Working /\ job[j].tech # NoOne
  /\ item[i].issued = NoOne /\ item[i].reserved \in {j, NoOne}
  /\ item[i].status \in InHand
  /\ Moves(j, i, [status |-> "ASSIGNED", owner |-> job[j].tech,
                  issued |-> j, reserved |-> NoOne])

Consume(j, i) ==
  /\ job[j].status \in {"IN_PROGRESS", "PENDING_REVIEW"}
  /\ item[i].issued = j /\ item[i].status = "ASSIGNED"
  /\ Moves(j, i, [item[i] EXCEPT !.status = "INSTALLED", !.issued = NoOne, !.reserved = NoOne])

\* RETURN hands the unit to the company, DAMAGED and LOST leave it with its holder.
GiveBack(j, i, outcome) ==
  /\ item[i].issued = j /\ item[i].status = "ASSIGNED"
  /\ Moves(j, i, [status |-> outcome, issued |-> NoOne, reserved |-> NoOne,
                  owner |-> IF outcome = "IN_STOCK" THEN NoOne ELSE item[i].owner])

-----------------------------------------------------------------------------
\* Stock that no job holds: assignToUser, installAtSubscriber, returnItem and remove.

Free(i) == item[i].issued = NoOne /\ item[i].reserved = NoOne /\ item[i].status # "GONE"

Stocks(i, row) == item' = [item EXCEPT ![i] = row] /\ UNCHANGED <<job, moved, desk>>

AssignToUser(i, t) ==
  /\ Free(i) /\ item[i].status # "INSTALLED"
  /\ Stocks(i, [item[i] EXCEPT !.status = "ASSIGNED", !.owner = t])

InstallAtSubscriber(i) ==
  /\ Free(i)
  /\ Stocks(i, [item[i] EXCEPT !.status = "INSTALLED"])

ReturnItem(i, status) ==
  /\ Free(i)
  /\ Stocks(i, [item[i] EXCEPT !.status = status,
                               !.owner = IF status = "IN_STOCK" THEN NoOne ELSE @])

\* The movement rows of the unit go with it.
RemoveItem(i) ==
  /\ Free(i) /\ item[i].status # "INSTALLED"
  /\ item'  = [item EXCEPT ![i].status = "GONE", ![i].owner = NoOne]
  /\ moved' = {m \in moved : m[1] # i}
  /\ UNCHANGED <<job, desk>>

-----------------------------------------------------------------------------
Init ==
  /\ job   = [j \in Jobs |-> [status |-> "ABSENT", tech |-> NoOne, window |-> NoOne,
                              arrived |-> FALSE]]
  /\ item  = [i \in Items |-> [status |-> "IN_STOCK", owner |-> NoOne,
                               issued |-> NoOne, reserved |-> NoOne]]
  /\ moved = {}
  /\ desk  = [d \in Desks |-> Idle]

Dispatch(j) ==
  \/ \E t \in Techs \cup {NoOne}, w \in Windows \cup {NoOne} : Create(j, t, w)
  \/ \E t \in Techs, w \in Windows \cup {NoOne} : Assign(j, t, w)
  \/ \E approved \in BOOLEAN : ReviewCompletion(j, approved)
  \/ Cancel(j)
  \/ Edit(j)

Visit(j) ==
  \/ Arrive(j)
  \/ Start(j)
  \/ \E success \in BOOLEAN : Complete(j, success)

AtDesk(d) ==
  \/ \E j \in Jobs : UnassignCount(d, j) \/ RemoveCheck(d, j)
  \/ UnassignWrite(d)
  \/ RemoveDelete(d)

Material(j, i) ==
  \/ Reserve(j, i)
  \/ Unreserve(j, i)
  \/ Issue(j, i)
  \/ Consume(j, i)
  \/ \E outcome \in {"IN_STOCK", "FAULTY", "LOST"} : GiveBack(j, i, outcome)

Stock(i) ==
  \/ \E t \in Techs : AssignToUser(i, t)
  \/ InstallAtSubscriber(i)
  \/ \E status \in {"IN_STOCK", "FAULTY", "RETURNED", "LOST"} : ReturnItem(i, status)
  \/ RemoveItem(i)

Next ==
  \/ \E j \in Jobs : Dispatch(j) \/ Visit(j)
  \/ \E d \in Desks : AtDesk(d)
  \/ \E j \in Jobs, i \in Items : Material(j, i)
  \/ \E i \in Items : Stock(i)

Spec == Init /\ [][Next]_vars

-----------------------------------------------------------------------------
\* Properties.

JobRows == [status : {"ABSENT", "DELETED", "COMPLETED", "FAILED", "CANCELLED"} \cup OpenStatuses,
            tech : Techs \cup {NoOne}, window : Windows \cup {NoOne}, arrived : BOOLEAN]

ItemRows == [status : {"IN_STOCK", "ASSIGNED", "INSTALLED", "FAULTY", "RETURNED", "LOST", "GONE"},
             owner : Techs \cup {NoOne}, issued : Jobs \cup {NoOne},
             reserved : Jobs \cup {NoOne}]

Desktops == [op : {"idle", "unassign", "remove"}, job : Jobs \cup {NoOne}, fresh : BOOLEAN]

\* Every row holds what its columns allow, and what waits at a desk names a job.
TypeOK ==
  /\ job \in [Jobs -> JobRows]
  /\ item \in [Items -> ItemRows]
  /\ moved \subseteq Items \X Jobs
  /\ desk \in [Desks -> Desktops]
  /\ \A d \in Desks : desk[d].op # "idle" => desk[d].job \in Jobs

\* "Dispatcher closure blocks any outstanding reservation or issuance" and cancellation
\* settles the rest: no closed or deleted job holds material, although the checks run
\* beside material movements and beside requests that delete jobs by id.
ClosedJobsHoldNothing ==
  \A j \in Jobs : ~Exists(j) \/ job[j].status \in {"COMPLETED", "CANCELLED"}
    => Outstanding(j) = {}

\* Material issued to a job is never on the books of anyone but the technician the job is
\* assigned to; at worst the job has lost its technician (see IssuedHasATechnician).
IssuedToItsTechnician ==
  \A i \in Items : item[i].issued # NoOne =>
    /\ item[i].status = "ASSIGNED"
    /\ job[item[i].issued].tech \in {item[i].owner, NoOne}

\* A technician is never promised to two customers at the same time, with appointments
\* that have no end taken to last an hour, whichever of creation, assignment, failed
\* visits and unassignment led here.
NoDoubleBooking ==
  \A j, k \in Jobs :
    /\ j # k
    /\ job[j].tech = job[k].tech /\ job[j].tech # NoOne
    /\ {job[j].status, job[k].status} \subseteq OpenStatuses
    /\ job[j].window # NoOne /\ job[k].window # NoOne
    => \/ EndOf(job[j].window) <= job[k].window[1]
       \/ EndOf(job[k].window) <= job[j].window[1]

\* "Release reserved or issued materials before unassigning this job."
IssuedHasATechnician ==
  \A i \in Items : item[i].issued # NoOne => job[item[i].issued].tech # NoOne

\* assign clears the visit of a FAILED job so that it can be visited again ("multiple visit
\* records"): a failed job can be assigned.
FailedJobsComeBack == \A j \in Jobs : job[j].status = "FAILED" => Assignable(job[j])

=============================================================================
