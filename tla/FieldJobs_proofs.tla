-------------------------- MODULE FieldJobs_proofs --------------------------
(***************************************************************************)
(* Proofs about the two modules of src/backend/src/field-jobs: FieldWork,  *)
(* for every set of jobs, units, technicians, requests and appointments,   *)
(* and WorkSchedules, for any plans, numbers of cron runs, claim tokens    *)
(* and troubles.  Neither reads the other's variables.                     *)
(***************************************************************************)
EXTENDS FieldWork, WorkSchedules, TLAPS

-----------------------------------------------------------------------------
\* Types.

LEMMA OvertakenTyped ==
  ASSUME TypeOK, NEW j \in Jobs
  PROVE  /\ Overtaken(j) \in [Desks -> Desktops]
         /\ \A d \in Desks : Overtaken(j)[d].op # "idle" => Overtaken(j)[d].job \in Jobs
  BY DEF TypeOK, Overtaken, Desktops

LEMMA SaveTyped ==
  ASSUME TypeOK, NEW j \in Jobs, NEW row \in JobRows, Save(j, row)
  PROVE  /\ job' \in [Jobs -> JobRows]
         /\ desk' \in [Desks -> Desktops]
         /\ \A d \in Desks : desk'[d].op # "idle" => desk'[d].job \in Jobs
  BY OvertakenTyped DEF TypeOK, Save

LEMMA MovesTyped ==
  ASSUME TypeOK, NEW j \in Jobs, NEW i \in Items, NEW row \in ItemRows, Moves(j, i, row)
  PROVE  TypeOK'
  BY DEF TypeOK, Moves

LEMMA StocksTyped ==
  ASSUME TypeOK, NEW i \in Items, NEW row \in ItemRows, Stocks(i, row)
  PROVE  TypeOK'
  BY DEF TypeOK, Stocks

LEMMA IdleTyped == Idle \in Desktops
  BY DEF Idle, Desktops

LEMMA InitTyped == Init => TypeOK
  BY IdleTyped DEF Init, TypeOK, JobRows, ItemRows, Idle

LEMMA DispatchTyped ==
  ASSUME TypeOK, NEW j \in Jobs, Dispatch(j)
  PROVE  TypeOK'
  <1>1. job[j] \in JobRows
    BY DEF TypeOK
  <1>2. ASSUME NEW t \in Techs \cup {NoOne}, NEW w \in Windows \cup {NoOne}, Create(j, t, w)
        PROVE  TypeOK'
    <2>1. [status |-> IF t = NoOne THEN "PENDING" ELSE "ASSIGNED",
           tech |-> t, window |-> w, arrived |-> FALSE] \in JobRows
      BY DEF JobRows, OpenStatuses
    <2> QED BY <1>2, <2>1, SaveTyped DEF Create, TypeOK
  <1>3. ASSUME NEW t \in Techs, NEW w \in Windows \cup {NoOne}, Assign(j, t, w)
        PROVE  TypeOK'
    <2>1. [status |-> "ASSIGNED", tech |-> t, window |-> w, arrived |-> FALSE] \in JobRows
      BY DEF JobRows, OpenStatuses
    <2> QED BY <1>3, <2>1, SaveTyped DEF Assign, TypeOK
  <1>4. ASSUME NEW approved \in BOOLEAN, ReviewCompletion(j, approved)
        PROVE  TypeOK'
    <2>1. [job[j] EXCEPT !.status = IF approved THEN "COMPLETED" ELSE "FAILED"] \in JobRows
      BY <1>1 DEF JobRows
    <2> QED BY <1>4, <2>1, SaveTyped DEF ReviewCompletion, TypeOK
  <1>5. CASE Cancel(j)
    <2>1. [job[j] EXCEPT !.status = "CANCELLED"] \in JobRows
      BY <1>1 DEF JobRows
    <2>2. item' \in [Items -> ItemRows]
      BY <1>5 DEF Cancel, TypeOK, ItemRows
    <2>3. moved' \subseteq Items \X Jobs
      BY <1>5 DEF Cancel, TypeOK, Outstanding
    <2> QED BY <1>5, <2>1, <2>2, <2>3, SaveTyped DEF Cancel, TypeOK
  <1>6. CASE Edit(j)
    BY <1>6, <1>1, SaveTyped DEF Edit, TypeOK
  <1> QED BY <1>2, <1>3, <1>4, <1>5, <1>6 DEF Dispatch

LEMMA VisitTyped ==
  ASSUME TypeOK, NEW j \in Jobs, Visit(j)
  PROVE  TypeOK'
  <1>1. job[j] \in JobRows
    BY DEF TypeOK
  <1>2. PICK row \in JobRows : Save(j, row)
    <2>1. [job[j] EXCEPT !.arrived = TRUE] \in JobRows
      BY <1>1 DEF JobRows
    <2>2. [job[j] EXCEPT !.status = "IN_PROGRESS"] \in JobRows
      BY <1>1 DEF JobRows, OpenStatuses
    <2>3. \A success \in BOOLEAN :
            [job[j] EXCEPT !.status = IF success THEN "PENDING_REVIEW" ELSE "FAILED"] \in JobRows
      BY <1>1 DEF JobRows, OpenStatuses
    <2> QED BY <2>1, <2>2, <2>3 DEF Visit, Arrive, Start, Complete
  <1>3. UNCHANGED <<item, moved>>
    BY DEF Visit, Arrive, Start, Complete
  <1> QED BY <1>2, <1>3, SaveTyped DEF TypeOK

LEMMA AtDeskTyped ==
  ASSUME TypeOK, NEW d \in Desks, AtDesk(d)
  PROVE  TypeOK'
  <1>1. ASSUME NEW j \in Jobs, UnassignCount(d, j) \/ RemoveCheck(d, j)
        PROVE  TypeOK'
    <2>1. PICK op \in {"unassign", "remove"} :
            desk' = [desk EXCEPT ![d] = [op |-> op, job |-> j, fresh |-> TRUE]]
      BY <1>1 DEF UnassignCount, RemoveCheck
    <2>2. [op |-> op, job |-> j, fresh |-> TRUE] \in Desktops
      BY DEF Desktops
    <2>3. UNCHANGED <<job, item, moved>>
      BY <1>1 DEF UnassignCount, RemoveCheck
    <2> QED BY <2>1, <2>2, <2>3 DEF TypeOK
  <1>2. CASE UnassignWrite(d)
    <2> DEFINE j == desk[d].job
    <2>1. j \in Jobs /\ job[j] \in JobRows
      BY <1>2 DEF UnassignWrite, TypeOK
    <2>2. CASE desk[d].fresh
      <3>1. job' \in [Jobs -> JobRows]
        BY <1>2, <2>1, <2>2 DEF UnassignWrite, TypeOK, JobRows, OpenStatuses
      <3>2. desk' = [Overtaken(j) EXCEPT ![d] = Idle]
        BY <1>2, <2>2 DEF UnassignWrite
      <3> QED BY <1>2, <2>1, <3>1, <3>2, OvertakenTyped, IdleTyped DEF UnassignWrite, TypeOK, Idle
    <2>3. CASE ~desk[d].fresh
      <3>1. UNCHANGED <<job, item, moved>> /\ desk' = [desk EXCEPT ![d] = Idle]
        BY <1>2, <2>3 DEF UnassignWrite
      <3> QED BY <3>1, IdleTyped DEF TypeOK, Idle
    <2> QED BY <2>2, <2>3
  <1>3. CASE RemoveDelete(d)
    <2> DEFINE j == desk[d].job
    <2>1. j \in Jobs
      BY <1>3 DEF RemoveDelete, TypeOK
    <2>2. job' \in [Jobs -> JobRows]
      BY <1>3, <2>1 DEF RemoveDelete, TypeOK, JobRows
    <2>3. item' \in [Items -> ItemRows]
      <3>1. \A i \in Items, c, e \in Jobs \cup {NoOne} :
              [item[i] EXCEPT !.issued = c, !.reserved = e] \in ItemRows
        BY DEF TypeOK, ItemRows
      <3>2. \A i \in Items : item[i].issued \in Jobs \cup {NoOne} /\ item[i].reserved \in Jobs \cup {NoOne}
        BY DEF TypeOK, ItemRows
      <3> DEFINE Forget(c) == IF c = j THEN NoOne ELSE c
      <3>3. item' = [i \in Items |-> [item[i] EXCEPT !.issued = Forget(@), !.reserved = Forget(@)]]
        BY <1>3 DEF RemoveDelete
      <3>4. \A i \in Items : Forget(item[i].issued) \in Jobs \cup {NoOne} /\ Forget(item[i].reserved) \in Jobs \cup {NoOne}
        BY <3>2
      <3> HIDE DEF Forget
      <3> QED BY <3>1, <3>3, <3>4
    <2>4. moved' \subseteq Items \X Jobs
      BY <1>3 DEF RemoveDelete, TypeOK
    <2>5. desk' = [Overtaken(j) EXCEPT ![d] = Idle]
      BY <1>3 DEF RemoveDelete
    <2> QED BY <2>1, <2>2, <2>3, <2>4, <2>5, OvertakenTyped, IdleTyped DEF TypeOK, Idle
  <1> QED BY <1>1, <1>2, <1>3 DEF AtDesk

LEMMA MaterialTyped ==
  ASSUME TypeOK, NEW j \in Jobs, NEW i \in Items, Material(j, i)
  PROVE  TypeOK'
  <1>1. item[i] \in ItemRows /\ job[j] \in JobRows
    BY DEF TypeOK
  <1>2. [item[i] EXCEPT !.reserved = j] \in ItemRows /\ [item[i] EXCEPT !.reserved = NoOne] \in ItemRows
    BY <1>1 DEF ItemRows
  <1>3. [status |-> "ASSIGNED", owner |-> job[j].tech, issued |-> j, reserved |-> NoOne] \in ItemRows
    BY <1>1 DEF ItemRows, JobRows
  <1>4. [item[i] EXCEPT !.status = "INSTALLED", !.issued = NoOne, !.reserved = NoOne] \in ItemRows
    BY <1>1 DEF ItemRows
  <1>5. ASSUME NEW outcome \in {"IN_STOCK", "FAULTY", "LOST"}
        PROVE  [status |-> outcome, issued |-> NoOne, reserved |-> NoOne,
                owner |-> IF outcome = "IN_STOCK" THEN NoOne ELSE item[i].owner] \in ItemRows
    BY <1>1 DEF ItemRows
  <1>6. PICK row \in ItemRows : Moves(j, i, row)
    BY <1>2, <1>3, <1>4, <1>5 DEF Material, Reserve, Unreserve, Issue, Consume, GiveBack
  <1> QED BY <1>6, MovesTyped

LEMMA StockTyped ==
  ASSUME TypeOK, NEW i \in Items, Stock(i)
  PROVE  TypeOK'
  <1>1. item[i] \in ItemRows
    BY DEF TypeOK
  <1>2. ASSUME NEW t \in Techs
        PROVE  [item[i] EXCEPT !.status = "ASSIGNED", !.owner = t] \in ItemRows
    BY <1>1 DEF ItemRows
  <1>3. [item[i] EXCEPT !.status = "INSTALLED"] \in ItemRows
    BY <1>1 DEF ItemRows
  <1>4. ASSUME NEW status \in {"IN_STOCK", "FAULTY", "RETURNED", "LOST"}
        PROVE  [item[i] EXCEPT !.status = status,
                               !.owner = IF status = "IN_STOCK" THEN NoOne ELSE @] \in ItemRows
    BY <1>1 DEF ItemRows
  <1>5. CASE RemoveItem(i)
    BY <1>1, <1>5 DEF RemoveItem, TypeOK, ItemRows
  <1>6. CASE ~RemoveItem(i)
    <2>1. PICK row \in ItemRows : Stocks(i, row)
      BY <1>2, <1>3, <1>4, <1>6 DEF Stock, AssignToUser, InstallAtSubscriber, ReturnItem
    <2> QED BY <2>1, StocksTyped
  <1> QED BY <1>5, <1>6

LEMMA StepTyped == TypeOK /\ [Next]_vars => TypeOK'
  <1> SUFFICES ASSUME TypeOK, [Next]_vars PROVE TypeOK'
    OBVIOUS
  <1>1. CASE UNCHANGED vars
    BY <1>1 DEF TypeOK, vars
  <1>2. CASE Next
    BY <1>2, DispatchTyped, VisitTyped, AtDeskTyped, MaterialTyped, StockTyped DEF Next
  <1> QED BY <1>1, <1>2

\* Rows of jobs, stock, movements and requests hold what their columns allow.
THEOREM TypeCorrect == Spec => []TypeOK
  <1>1. Init => TypeOK
    BY InitTyped
  <1>2. TypeOK /\ [Next]_vars => TypeOK'
    BY StepTyped
  <1> QED BY <1>1, <1>2, PTL DEF Spec

-----------------------------------------------------------------------------
\* Custody of material.

Closed(j) == ~Exists(j) \/ job[j].status \in {"COMPLETED", "CANCELLED"}

Custody == ClosedJobsHoldNothing /\ IssuedToItsTechnician

\* Custody of one unit.
Kept(i) ==
  /\ item[i].issued # NoOne =>
       /\ ~Closed(item[i].issued)
       /\ item[i].status = "ASSIGNED"
       /\ job[item[i].issued].tech \in {item[i].owner, NoOne}
  /\ item[i].reserved # NoOne => ~Closed(item[i].reserved)

LEMMA CustodyIsKept == TypeOK => (Custody <=> \A i \in Items : Kept(i))
  BY FieldWorkAssumption DEF Custody, ClosedJobsHoldNothing, IssuedToItsTechnician, Kept, Closed,
     Outstanding, TypeOK, ItemRows

\* Stock moves on while every job stays as it is.
LEMMA KeptBesideJobs ==
  ASSUME TypeOK, UNCHANGED job, NEW i \in Items, NEW row,
         \A k \in Items : Kept(k), item' = [item EXCEPT ![i] = row],
         row.issued # NoOne =>
           /\ ~Closed(row.issued) /\ row.status = "ASSIGNED"
           /\ job[row.issued].tech \in {row.owner, NoOne},
         row.reserved # NoOne => ~Closed(row.reserved)
  PROVE  \A k \in Items : Kept(k)'
  <1> SUFFICES ASSUME NEW k \in Items PROVE Kept(k)'
    OBVIOUS
  <1>1. CASE k = i
    BY <1>1 DEF TypeOK, Kept, Closed, Exists
  <1>2. CASE k # i
    <2>1. item'[k] = item[k] /\ Kept(k)
      BY <1>2 DEF TypeOK
    <2> QED BY <2>1 DEF Kept, Closed, Exists
  <1> QED BY <1>1, <1>2

\* A job moves on while all stock stays as it is: fine if the job holds nothing, and if it
\* stays open and with the same technician, or with none.
LEMMA KeptBesideStock ==
  ASSUME TypeOK, UNCHANGED item, NEW j \in Jobs, NEW row \in JobRows,
         \A i \in Items : Kept(i), job' = [job EXCEPT ![j] = row],
         \/ Outstanding(j) = {}
         \/ /\ row.status \notin {"ABSENT", "DELETED", "COMPLETED", "CANCELLED"}
            /\ row.tech \in {job[j].tech, NoOne}
  PROVE  \A i \in Items : Kept(i)'
  <1> SUFFICES ASSUME NEW i \in Items PROVE Kept(i)'
    OBVIOUS
  <1>1. item[i] \in ItemRows /\ Kept(i) /\ item'[i] = item[i]
    BY DEF TypeOK
  <1>2. ASSUME NEW k \in Jobs, k # j
        PROVE  job'[k] = job[k] /\ (Closed(k)' <=> Closed(k))
    BY <1>2 DEF TypeOK, Closed, Exists
  <1>3. job'[j] = row
    BY DEF TypeOK
  <1>4. CASE Outstanding(j) = {}
    <2>1. item[i].issued # j /\ item[i].reserved # j
      BY <1>4 DEF Outstanding
    <2> QED BY <1>1, <1>2, <2>1 DEF Kept, ItemRows
  <1>5. CASE /\ row.status \notin {"ABSENT", "DELETED", "COMPLETED", "CANCELLED"}
             /\ row.tech \in {job[j].tech, NoOne}
    <2>1. ~Closed(j)'
      BY <1>3, <1>5 DEF Closed, Exists
    <2>2. item[i].issued = j => job'[j].tech \in {item[i].owner, NoOne}
      BY <1>1, <1>3, <1>5, FieldWorkAssumption DEF Kept
    <2>3. item[i].issued # NoOne =>
            /\ ~Closed(item[i].issued)'
            /\ job'[item[i].issued].tech \in {item[i].owner, NoOne}
      BY <1>1, <1>2, <2>1, <2>2 DEF Kept, ItemRows
    <2>4. item[i].reserved # NoOne => ~Closed(item[i].reserved)'
      BY <1>1, <1>2, <2>1 DEF Kept, ItemRows
    <2> QED BY <1>1, <2>3, <2>4 DEF Kept, Closed, Exists
  <1> QED BY <1>4, <1>5

LEMMA SaveKept ==
  ASSUME TypeOK, UNCHANGED item, NEW j \in Jobs, NEW row \in JobRows,
         \A i \in Items : Kept(i), Save(j, row),
         \/ Outstanding(j) = {}
         \/ /\ row.status \notin {"ABSENT", "DELETED", "COMPLETED", "CANCELLED"}
            /\ row.tech \in {job[j].tech, NoOne}
  PROVE  \A i \in Items : Kept(i)'
  BY KeptBesideStock DEF Save

LEMMA DispatchKept ==
  ASSUME TypeOK, NEW j \in Jobs, \A i \in Items : Kept(i), Dispatch(j)
  PROVE  \A i \in Items : Kept(i)'
  <1>1. job[j] \in JobRows
    BY DEF TypeOK
  <1>2. ASSUME NEW t \in Techs \cup {NoOne}, NEW w \in Windows \cup {NoOne}, Create(j, t, w)
        PROVE  \A i \in Items : Kept(i)'
    <2> DEFINE row == [status |-> IF t = NoOne THEN "PENDING" ELSE "ASSIGNED",
                       tech |-> t, window |-> w, arrived |-> FALSE]
    <2>1. row \in JobRows
      BY DEF JobRows, OpenStatuses
    <2>2. Closed(j)
      BY <1>2 DEF Create, Closed, Exists
    <2>3. Outstanding(j) = {}
      BY <2>2, FieldWorkAssumption DEF Kept, Outstanding
    <2>4. Save(j, row) /\ UNCHANGED item
      BY <1>2 DEF Create
    <2> HIDE DEF row
    <2> QED BY <2>1, <2>3, <2>4, SaveKept
  <1>3. ASSUME NEW t \in Techs, NEW w \in Windows \cup {NoOne}, Assign(j, t, w)
        PROVE  \A i \in Items : Kept(i)'
    <2> DEFINE row == [status |-> "ASSIGNED", tech |-> t, window |-> w, arrived |-> FALSE]
    <2>1. row \in JobRows
      BY DEF JobRows, OpenStatuses
    <2>2. Save(j, row) /\ UNCHANGED item
      BY <1>3 DEF Assign
    <2>3. Outstanding(j) = {} \/ row.tech = job[j].tech
      BY <1>3 DEF Assign
    <2>4. row.status \notin {"ABSENT", "DELETED", "COMPLETED", "CANCELLED"}
      OBVIOUS
    <2> HIDE DEF row
    <2> QED BY <2>1, <2>2, <2>3, <2>4, SaveKept
  <1>4. ASSUME NEW approved \in BOOLEAN, ReviewCompletion(j, approved)
        PROVE  \A i \in Items : Kept(i)'
    <2> DEFINE row == [job[j] EXCEPT !.status = IF approved THEN "COMPLETED" ELSE "FAILED"]
    <2>1. row \in JobRows /\ row.tech = job[j].tech
      BY <1>1 DEF JobRows
    <2>2. Save(j, row) /\ UNCHANGED item
      BY <1>4 DEF ReviewCompletion
    <2>3. approved => Outstanding(j) = {}
      BY <1>4 DEF ReviewCompletion
    <2>4. ~approved => row.status \notin {"ABSENT", "DELETED", "COMPLETED", "CANCELLED"}
      BY <1>1 DEF JobRows
    <2> HIDE DEF row
    <2> QED BY <2>1, <2>2, <2>3, <2>4, SaveKept
  <1>5. ASSUME Cancel(j), NEW i \in Items
        PROVE  Kept(i)'
    <2>1. item[i] \in ItemRows /\ Kept(i) /\ item[i].issued # j
      BY <1>5 DEF TypeOK, Cancel
    <2>2. /\ item'[i].issued = item[i].issued /\ item'[i].status = item[i].status
          /\ item'[i].owner = item[i].owner
          /\ item'[i].reserved = IF item[i].reserved = j THEN NoOne ELSE item[i].reserved
      BY <1>5, <2>1 DEF Cancel, ItemRows
    <2>3. ASSUME NEW k \in Jobs, k # j
          PROVE  job'[k] = job[k] /\ (Closed(k)' <=> Closed(k))
      BY <1>5, <2>3 DEF Cancel, Save, TypeOK, Closed, Exists
    <2> QED BY <2>1, <2>2, <2>3 DEF Kept, ItemRows
  <1>6. CASE Edit(j)
    <2>1. Save(j, job[j]) /\ UNCHANGED item
      BY <1>6 DEF Edit
    <2>2. job[j].status \notin {"ABSENT", "DELETED", "COMPLETED", "CANCELLED"}
      BY <1>6 DEF Edit, Exists
    <2> QED BY <1>1, <2>1, <2>2, SaveKept
  <1> QED BY <1>2, <1>3, <1>4, <1>5, <1>6 DEF Dispatch

LEMMA VisitKept ==
  ASSUME TypeOK, NEW j \in Jobs, \A i \in Items : Kept(i), Visit(j)
  PROVE  \A i \in Items : Kept(i)'
  <1>1. job[j] \in JobRows
    BY DEF TypeOK
  <1>2. PICK row \in JobRows :
          /\ Save(j, row) /\ row.tech = job[j].tech
          /\ row.status \in {"ASSIGNED", "IN_PROGRESS", "PENDING_REVIEW", "FAILED"}
    <2>1. CASE Arrive(j)
      <3>1. [job[j] EXCEPT !.arrived = TRUE] \in JobRows
        BY <1>1 DEF JobRows
      <3> QED BY <1>1, <2>1, <3>1 DEF Arrive, JobRows
    <2>2. CASE Start(j)
      <3>1. [job[j] EXCEPT !.status = "IN_PROGRESS"] \in JobRows
        BY <1>1 DEF JobRows, OpenStatuses
      <3> QED BY <1>1, <2>2, <3>1 DEF Start, JobRows
    <2>3. ASSUME NEW success \in BOOLEAN, Complete(j, success)
          PROVE  \E row \in JobRows :
                   /\ Save(j, row) /\ row.tech = job[j].tech
                   /\ row.status \in {"ASSIGNED", "IN_PROGRESS", "PENDING_REVIEW", "FAILED"}
      <3>1. [job[j] EXCEPT !.status = IF success THEN "PENDING_REVIEW" ELSE "FAILED"] \in JobRows
        BY <1>1 DEF JobRows, OpenStatuses
      <3> QED BY <1>1, <2>3, <3>1 DEF Complete, JobRows
    <2> QED BY <2>1, <2>2, <2>3 DEF Visit
  <1>3. UNCHANGED item
    BY DEF Visit, Arrive, Start, Complete
  <1> QED BY <1>2, <1>3, SaveKept

LEMMA AtDeskKept ==
  ASSUME TypeOK, NEW d \in Desks, \A i \in Items : Kept(i), AtDesk(d)
  PROVE  \A i \in Items : Kept(i)'
  <1>1. CASE UNCHANGED <<job, item>>
    BY <1>1 DEF Kept, Closed, Exists
  <1>2. CASE UnassignWrite(d) /\ desk[d].fresh
    <2> DEFINE j == desk[d].job
               row == [job[j] EXCEPT !.status = "PENDING", !.tech = NoOne, !.window = NoOne]
    <2>1. j \in Jobs /\ job[j] \in JobRows
      BY <1>2 DEF UnassignWrite, TypeOK
    <2>2. row \in JobRows /\ row.status = "PENDING" /\ row.tech = NoOne
      BY <2>1 DEF JobRows, OpenStatuses
    <2>3. job' = [job EXCEPT ![j] = row] /\ UNCHANGED item
      BY <1>2, <2>1 DEF UnassignWrite, TypeOK
    <2> HIDE DEF row
    <2> QED BY <2>1, <2>2, <2>3, KeptBesideStock
  <1>3. ASSUME RemoveDelete(d), NEW i \in Items
        PROVE  Kept(i)'
    <2> DEFINE j == desk[d].job
    <2>1. item[i] \in ItemRows /\ Kept(i) /\ j \in Jobs
      BY <1>3 DEF TypeOK, RemoveDelete
    <2>2. /\ item'[i].status = item[i].status /\ item'[i].owner = item[i].owner
          /\ item'[i].issued = IF item[i].issued = j THEN NoOne ELSE item[i].issued
          /\ item'[i].reserved = IF item[i].reserved = j THEN NoOne ELSE item[i].reserved
      BY <1>3, <2>1 DEF RemoveDelete, ItemRows
    <2>3. ASSUME NEW k \in Jobs, k # j
          PROVE  job'[k] = job[k] /\ (Closed(k)' <=> Closed(k))
      BY <1>3, <2>3 DEF RemoveDelete, TypeOK, Closed, Exists
    <2> QED BY <2>1, <2>2, <2>3 DEF Kept, ItemRows
  <1> QED BY <1>1, <1>2, <1>3 DEF AtDesk, UnassignCount, RemoveCheck, UnassignWrite

LEMMA MaterialKept ==
  ASSUME TypeOK, NEW j \in Jobs, NEW i \in Items, \A k \in Items : Kept(k), Material(j, i)
  PROVE  \A k \in Items : Kept(k)'
  <1>1. item[i] \in ItemRows /\ job[j] \in JobRows /\ Kept(i)
    BY DEF TypeOK
  <1>2. PICK row :
          /\ item' = [item EXCEPT ![i] = row] /\ UNCHANGED job
          /\ row.issued # NoOne =>
               /\ ~Closed(row.issued) /\ row.status = "ASSIGNED"
               /\ job[row.issued].tech \in {row.owner, NoOne}
          /\ row.reserved # NoOne => ~Closed(row.reserved)
    <2> DEFINE Good(row) ==
          /\ row.issued # NoOne =>
               /\ ~Closed(row.issued) /\ row.status = "ASSIGNED"
               /\ job[row.issued].tech \in {row.owner, NoOne}
          /\ row.reserved # NoOne => ~Closed(row.reserved)
    <2>1. job[j].status \in Working => ~Closed(j)
      BY DEF Working, Closed, Exists
    <2>2. CASE Reserve(j, i)
      <3>1. Good([item[i] EXCEPT !.reserved = j])
        BY <1>1, <2>1, <2>2 DEF Reserve, ItemRows
      <3> QED BY <2>2, <3>1 DEF Reserve, Moves
    <2>3. CASE Unreserve(j, i)
      <3>1. Good([item[i] EXCEPT !.reserved = NoOne])
        BY <1>1, <2>3 DEF Unreserve, ItemRows
      <3> QED BY <2>3, <3>1 DEF Unreserve, Moves
    <2>4. CASE Issue(j, i)
      <3>1. Good([status |-> "ASSIGNED", owner |-> job[j].tech, issued |-> j, reserved |-> NoOne])
        BY <2>1, <2>4 DEF Issue
      <3> QED BY <2>4, <3>1 DEF Issue, Moves
    <2>5. CASE Consume(j, i)
      <3>1. Good([item[i] EXCEPT !.status = "INSTALLED", !.issued = NoOne, !.reserved = NoOne])
        BY <1>1 DEF ItemRows
      <3> QED BY <2>5, <3>1 DEF Consume, Moves
    <2>6. ASSUME NEW outcome \in {"IN_STOCK", "FAULTY", "LOST"}, GiveBack(j, i, outcome)
          PROVE  \E row : Good(row) /\ item' = [item EXCEPT ![i] = row] /\ UNCHANGED job
      <3>1. Good([status |-> outcome, issued |-> NoOne, reserved |-> NoOne,
                  owner |-> IF outcome = "IN_STOCK" THEN NoOne ELSE item[i].owner])
        OBVIOUS
      <3> QED BY <2>6, <3>1 DEF GiveBack, Moves
    <2> QED BY <2>2, <2>3, <2>4, <2>5, <2>6 DEF Material
  <1> QED BY <1>2, KeptBesideJobs

LEMMA StockKept ==
  ASSUME TypeOK, NEW i \in Items, \A k \in Items : Kept(k), Stock(i)
  PROVE  \A k \in Items : Kept(k)'
  <1>1. item[i] \in ItemRows
    BY DEF TypeOK
  <1>2. Free(i) /\ UNCHANGED job
    BY DEF Stock, AssignToUser, InstallAtSubscriber, ReturnItem, RemoveItem, Stocks
  <1>3. PICK row : /\ item' = [item EXCEPT ![i] = row]
                   /\ row.issued = NoOne /\ row.reserved = NoOne
    <2>1. ASSUME NEW t \in Techs, AssignToUser(i, t)
          PROVE  \E row : /\ item' = [item EXCEPT ![i] = row]
                          /\ row.issued = NoOne /\ row.reserved = NoOne
      <3> DEFINE row == [item[i] EXCEPT !.status = "ASSIGNED", !.owner = t]
      <3>1. row.issued = NoOne /\ row.reserved = NoOne
        BY <1>1, <1>2 DEF Free, ItemRows
      <3>2. item' = [item EXCEPT ![i] = row]
        BY <2>1 DEF AssignToUser, Stocks
      <3> QED BY <3>1, <3>2
    <2>2. CASE InstallAtSubscriber(i)
      <3> DEFINE row == [item[i] EXCEPT !.status = "INSTALLED"]
      <3>1. row.issued = NoOne /\ row.reserved = NoOne
        BY <1>1, <1>2 DEF Free, ItemRows
      <3>2. item' = [item EXCEPT ![i] = row]
        BY <2>2 DEF InstallAtSubscriber, Stocks
      <3> QED BY <3>1, <3>2
    <2>3. ASSUME NEW status \in {"IN_STOCK", "FAULTY", "RETURNED", "LOST"}, ReturnItem(i, status)
          PROVE  \E row : /\ item' = [item EXCEPT ![i] = row]
                          /\ row.issued = NoOne /\ row.reserved = NoOne
      <3> DEFINE row == [item[i] EXCEPT !.status = status,
                                        !.owner = IF status = "IN_STOCK" THEN NoOne ELSE @]
      <3>1. row.issued = NoOne /\ row.reserved = NoOne
        BY <1>1, <1>2 DEF Free, ItemRows
      <3>2. item' = [item EXCEPT ![i] = row]
        BY <2>3 DEF ReturnItem, Stocks
      <3> HIDE DEF row
      <3> QED BY <3>1, <3>2
    <2>4. CASE RemoveItem(i)
      <3> DEFINE row == [item[i] EXCEPT !.status = "GONE", !.owner = NoOne]
      <3>1. row.issued = NoOne /\ row.reserved = NoOne
        BY <1>1, <1>2 DEF Free, ItemRows
      <3>2. item' = [item EXCEPT ![i] = row]
        BY <1>1, <2>4 DEF RemoveItem, TypeOK, ItemRows
      <3> HIDE DEF row
      <3> QED BY <3>1, <3>2
    <2> QED BY <2>1, <2>2, <2>3, <2>4 DEF Stock
  <1> QED BY <1>2, <1>3, KeptBesideJobs

LEMMA CustodyInvariant == Spec => [](TypeOK /\ Custody)
  <1>1. Init => TypeOK /\ Custody
    <2>1. Init => \A i \in Items : Kept(i)
      BY DEF Init, Kept
    <2> QED BY <2>1, InitTyped, CustodyIsKept
  <1>2. TypeOK /\ Custody /\ [Next]_vars => (TypeOK /\ Custody)'
    <2> SUFFICES ASSUME TypeOK, Custody, [Next]_vars PROVE TypeOK' /\ Custody'
      OBVIOUS
    <2>1. \A i \in Items : Kept(i)
      BY CustodyIsKept
    <2>2. TypeOK'
      BY StepTyped
    <2>3. CASE UNCHANGED vars
      <3>1. UNCHANGED <<job, item>>
        BY <2>3 DEF vars
      <3>2. ClosedJobsHoldNothing' /\ IssuedToItsTechnician'
        BY <3>1 DEF Custody, ClosedJobsHoldNothing, IssuedToItsTechnician, Exists, Outstanding
      <3> QED BY <2>2, <3>2 DEF Custody
    <2>4. CASE Next
      <3>1. \A i \in Items : Kept(i)'
        BY <2>1, <2>4, DispatchKept, VisitKept, AtDeskKept, MaterialKept, StockKept DEF Next
      <3>2. (TypeOK => (Custody <=> \A i \in Items : Kept(i)))'
        BY CustodyIsKept, PTL
      <3> QED BY <2>2, <3>1, <3>2
    <2> QED BY <2>2, <2>3, <2>4
  <1> QED BY <1>1, <1>2, PTL DEF Spec

\* No closed or deleted job holds reserved or issued material.
THEOREM ClosureSettlesMaterial == Spec => []ClosedJobsHoldNothing
  <1>1. Custody => ClosedJobsHoldNothing
    BY DEF Custody
  <1> QED BY <1>1, CustodyInvariant, PTL

\* Issued material is on the books of its job's technician, if the job has one.
THEOREM IssuesNameTheTechnician == Spec => []IssuedToItsTechnician
  <1>1. Custody => IssuedToItsTechnician
    BY DEF Custody
  <1> QED BY <1>1, CustodyInvariant, PTL

-----------------------------------------------------------------------------
\* Appointments.

\* The appointment of an open job that has a technician.
Booked(j) ==
  /\ job[j].tech # NoOne /\ job[j].status \in OpenStatuses /\ job[j].window # NoOne

Apart(v, w) == EndOf(v) <= w[1] \/ EndOf(w) <= v[1]

LEMMA BookingsApart ==
  NoDoubleBooking <=>
    \A j, k \in Jobs : j # k /\ job[j].tech = job[k].tech /\ Booked(j) /\ Booked(k)
                         => Apart(job[j].window, job[k].window)
  BY DEF NoDoubleBooking, Booked, Apart

LEMMA EndsAreInstants == \A w \in Windows : w[1] \in Int /\ EndOf(w) \in Int
  BY FieldWorkAssumption DEF EndOf

\* What is not in the way is apart.
LEMMA OutOfTheWay ==
  ASSUME NEW k \in Jobs, NEW w \in Windows, job[k].window \in Windows,
         job[k].window # NoOne, ~InTheWay(k, w)
  PROVE  Apart(job[k].window, w)
  <1>1. EndOf(w) \in Int /\ w[1] \in Int /\ job[k].window[1] \in Int
    BY EndsAreInstants
  <1>2. CASE ~(job[k].window[1] < EndOf(w))
    BY <1>1, <1>2 DEF Apart
  <1>3. CASE job[k].window[2] # NoOne /\ ~(job[k].window[2] > w[1])
    <2>1. EndOf(job[k].window) = job[k].window[2] /\ job[k].window[2] \in Int
      BY <1>3, FieldWorkAssumption DEF EndOf
    <2> QED BY <1>1, <1>3, <2>1 DEF Apart
  <1> QED BY <1>2, <1>3 DEF InTheWay

\* A job whose row is replaced keeps the bookings apart, if its appointment was looked at or
\* is the one it had.
LEMMA BookingsStayApart ==
  ASSUME TypeOK, NoDoubleBooking, NEW j \in Jobs, NEW row \in JobRows,
         job' = [job EXCEPT ![j] = row],
         \/ row.tech = NoOne
         \/ row.status \notin OpenStatuses
         \/ ScheduleAvailable(j, row.tech, row.window)
         \/ /\ job[j].status \in OpenStatuses
            /\ row.tech = job[j].tech /\ row.window = job[j].window
  PROVE  NoDoubleBooking'
  <1> DEFINE Separate(l, k) == l # k /\ job[l].tech = job[k].tech /\ Booked(l) /\ Booked(k)
                                  => Apart(job[l].window, job[k].window)
  <1>1. \A l, k \in Jobs : Separate(l, k)
    BY BookingsApart
  <1>2. job'[j] = row
    BY DEF TypeOK
  <1>3. ASSUME NEW k \in Jobs, k # j
        PROVE  job'[k] = job[k] /\ job[k] \in JobRows
    BY <1>3 DEF TypeOK
  <1>4. ASSUME NEW k \in Jobs, k # j, row.tech = job[k].tech, Booked(j)', Booked(k)
        PROVE  Apart(row.window, job[k].window)
    <2>1. row.tech # NoOne /\ row.status \in OpenStatuses /\ row.window \in Windows /\ row.window # NoOne
      BY <1>2, <1>4 DEF Booked, JobRows
    <2>2. CASE ScheduleAvailable(j, row.tech, row.window)
      <3>1. ~InTheWay(k, row.window)
        BY <1>4, <2>1, <2>2 DEF ScheduleAvailable, Booked
      <3>2. job[k].window \in Windows /\ job[k].window # NoOne
        BY <1>3, <1>4 DEF Booked, JobRows
      <3> QED BY <2>1, <3>1, <3>2, OutOfTheWay DEF Apart
    <2>3. CASE job[j].status \in OpenStatuses /\ row.tech = job[j].tech /\ row.window = job[j].window
      <3>1. Booked(j)
        BY <2>1, <2>3 DEF Booked
      <3>2. Separate(j, k)
        BY <1>1
      <3> QED BY <1>4, <2>3, <3>1, <3>2
    <2> QED BY <2>1, <2>2, <2>3
  <1>5. ASSUME NEW l \in Jobs, NEW k \in Jobs
        PROVE  Separate(l, k)'
    <2>1. CASE l # j /\ k # j
      <3>1. Separate(l, k) /\ job'[l] = job[l] /\ job'[k] = job[k]
        BY <1>1, <1>3, <2>1
      <3> QED BY <3>1 DEF Booked, Apart, EndOf
    <2>2. CASE l = j /\ k # j
      <3>1. job'[k] = job[k] /\ (Booked(k)' <=> Booked(k))
        BY <1>3, <2>2 DEF Booked
      <3> QED BY <1>2, <1>4, <2>2, <3>1 DEF Apart, EndOf
    <2>3. CASE l # j /\ k = j
      <3>1. job'[l] = job[l] /\ (Booked(l)' <=> Booked(l))
        BY <1>3, <2>3 DEF Booked
      <3> QED BY <1>2, <1>4, <2>3, <3>1 DEF Apart, EndOf
    <2> QED BY <2>1, <2>2, <2>3
  <1> QED BY <1>5 DEF NoDoubleBooking, Booked, Apart

LEMMA BookingsStep == TypeOK /\ NoDoubleBooking /\ [Next]_vars => NoDoubleBooking'
  <1> SUFFICES ASSUME TypeOK, NoDoubleBooking, [Next]_vars PROVE NoDoubleBooking'
    OBVIOUS
  <1>1. CASE UNCHANGED job
    BY <1>1 DEF NoDoubleBooking, EndOf
  <1>2. ASSUME NEW j \in Jobs, Dispatch(j)
        PROVE  NoDoubleBooking'
    <2>1. job[j] \in JobRows
      BY DEF TypeOK
    <2>2. ASSUME NEW t \in Techs \cup {NoOne}, NEW w \in Windows \cup {NoOne}, Create(j, t, w)
          PROVE  NoDoubleBooking'
      <3> DEFINE row == [status |-> IF t = NoOne THEN "PENDING" ELSE "ASSIGNED",
                         tech |-> t, window |-> w, arrived |-> FALSE]
      <3>1. row \in JobRows /\ row.tech = t /\ row.window = w
        BY DEF JobRows, OpenStatuses
      <3>2. job' = [job EXCEPT ![j] = row] /\ (t # NoOne => ScheduleAvailable(j, t, w))
        BY <2>2 DEF Create, Save
      <3> HIDE DEF row
      <3> QED BY <3>1, <3>2, BookingsStayApart
    <2>3. ASSUME NEW t \in Techs, NEW w \in Windows \cup {NoOne}, Assign(j, t, w)
          PROVE  NoDoubleBooking'
      <3> DEFINE row == [status |-> "ASSIGNED", tech |-> t, window |-> w, arrived |-> FALSE]
      <3>1. row \in JobRows /\ row.tech = t /\ row.window = w
        BY DEF JobRows, OpenStatuses
      <3>2. job' = [job EXCEPT ![j] = row] /\ ScheduleAvailable(j, t, w)
        BY <2>3 DEF Assign, Save
      <3> HIDE DEF row
      <3> QED BY <3>1, <3>2, BookingsStayApart
    <2>4. ASSUME NEW approved \in BOOLEAN, ReviewCompletion(j, approved)
          PROVE  NoDoubleBooking'
      <3> DEFINE row == [job[j] EXCEPT !.status = IF approved THEN "COMPLETED" ELSE "FAILED"]
      <3>1. row \in JobRows /\ row.status \notin OpenStatuses
        BY <2>1 DEF JobRows, OpenStatuses
      <3>2. job' = [job EXCEPT ![j] = row]
        BY <2>4 DEF ReviewCompletion, Save
      <3> HIDE DEF row
      <3> QED BY <3>1, <3>2, BookingsStayApart
    <2>5. CASE Cancel(j)
      <3> DEFINE row == [job[j] EXCEPT !.status = "CANCELLED"]
      <3>1. row \in JobRows /\ row.status \notin OpenStatuses
        BY <2>1 DEF JobRows, OpenStatuses
      <3>2. job' = [job EXCEPT ![j] = row]
        BY <2>5 DEF Cancel, Save
      <3> HIDE DEF row
      <3> QED BY <3>1, <3>2, BookingsStayApart
    <2>6. CASE Edit(j)
      <3>1. job' = job
        BY <2>1, <2>6 DEF Edit, Save, TypeOK
      <3> QED BY <3>1, <1>1
    <2> QED BY <1>2, <2>2, <2>3, <2>4, <2>5, <2>6 DEF Dispatch
  <1>3. ASSUME NEW j \in Jobs, Visit(j)
        PROVE  NoDoubleBooking'
    <2>1. job[j] \in JobRows
      BY DEF TypeOK
    <2>2. CASE Arrive(j)
      <3> DEFINE row == [job[j] EXCEPT !.arrived = TRUE]
      <3>1. row \in JobRows /\ row.tech = job[j].tech /\ row.window = job[j].window
        BY <2>1 DEF JobRows
      <3>2. job' = [job EXCEPT ![j] = row] /\ job[j].status \in OpenStatuses
        BY <2>2 DEF Arrive, Save, OpenStatuses
      <3> HIDE DEF row
      <3> QED BY <3>1, <3>2, BookingsStayApart
    <2>3. CASE Start(j)
      <3> DEFINE row == [job[j] EXCEPT !.status = "IN_PROGRESS"]
      <3>1. row \in JobRows /\ row.tech = job[j].tech /\ row.window = job[j].window
        BY <2>1 DEF JobRows, OpenStatuses
      <3>2. job' = [job EXCEPT ![j] = row] /\ job[j].status \in OpenStatuses
        BY <2>3 DEF Start, Save, OpenStatuses
      <3> HIDE DEF row
      <3> QED BY <3>1, <3>2, BookingsStayApart
    <2>4. ASSUME NEW success \in BOOLEAN, Complete(j, success)
          PROVE  NoDoubleBooking'
      <3> DEFINE row == [job[j] EXCEPT !.status = IF success THEN "PENDING_REVIEW" ELSE "FAILED"]
      <3>1. row \in JobRows /\ row.tech = job[j].tech /\ row.window = job[j].window
        BY <2>1 DEF JobRows, OpenStatuses
      <3>2. job' = [job EXCEPT ![j] = row] /\ job[j].status \in OpenStatuses
        BY <2>4 DEF Complete, Save, OpenStatuses
      <3> HIDE DEF row
      <3> QED BY <3>1, <3>2, BookingsStayApart
    <2> QED BY <1>3, <2>2, <2>3, <2>4 DEF Visit
  <1>4. ASSUME NEW d \in Desks, AtDesk(d), ~ UNCHANGED job
        PROVE  NoDoubleBooking'
    <2> DEFINE j == desk[d].job
    <2>1. CASE UnassignWrite(d) /\ desk[d].fresh
      <3> DEFINE row == [job[j] EXCEPT !.status = "PENDING", !.tech = NoOne, !.window = NoOne]
      <3>1. j \in Jobs /\ job[j] \in JobRows
        BY <2>1 DEF UnassignWrite, TypeOK
      <3>2. row \in JobRows /\ row.tech = NoOne
        BY <3>1 DEF JobRows, OpenStatuses
      <3>3. job' = [job EXCEPT ![j] = row]
        BY <2>1, <3>1 DEF UnassignWrite, TypeOK
      <3> HIDE DEF row
      <3> QED BY <3>1, <3>2, <3>3, BookingsStayApart
    <2>2. CASE RemoveDelete(d)
      <3> DEFINE row == [status |-> "DELETED", tech |-> NoOne, window |-> NoOne, arrived |-> FALSE]
      <3>1. j \in Jobs /\ row \in JobRows /\ row.tech = NoOne
        BY <2>2 DEF RemoveDelete, TypeOK, JobRows
      <3>2. job' = [job EXCEPT ![j] = row]
        BY <2>2 DEF RemoveDelete
      <3> HIDE DEF row
      <3> QED BY <3>1, <3>2, BookingsStayApart
    <2> QED BY <1>4, <2>1, <2>2 DEF AtDesk, UnassignCount, RemoveCheck, UnassignWrite
  <1>5. ASSUME NEW j \in Jobs, NEW i \in Items, Material(j, i)
        PROVE  UNCHANGED job
    BY <1>5 DEF Material, Reserve, Unreserve, Issue, Consume, GiveBack, Moves
  <1>6. ASSUME NEW i \in Items, Stock(i)
        PROVE  UNCHANGED job
    BY <1>6 DEF Stock, AssignToUser, InstallAtSubscriber, ReturnItem, RemoveItem, Stocks
  <1> QED BY <1>1, <1>2, <1>3, <1>4, <1>5, <1>6 DEF Next, vars

\* No technician is promised to two customers at the same time.
THEOREM AppointmentsStayApart == Spec => []NoDoubleBooking
  <1>1. Init => NoDoubleBooking
    BY DEF Init, NoDoubleBooking
  <1>2. TypeOK /\ NoDoubleBooking /\ [Next]_vars => NoDoubleBooking'
    BY BookingsStep
  <1>3. Spec => []TypeOK
    BY TypeCorrect
  <1> QED BY <1>1, <1>2, <1>3, PTL DEF Spec

-----------------------------------------------------------------------------
(* WorkSchedules.                                                          *)

Plan == [status : {"ACTIVE", "PAUSED", "CANCELLED"}, start : Nat, period : Nat \ {0},
         end : Nat \cup {Never}, next : Nat \cup {Never},
         lock : [token : Tokens \cup {Never}, live : BOOLEAN]]

-----------------------------------------------------------------------------
\* The grid of a plan.

\* Two occurrences of a plan that are less than a period apart are the same.
LEMMA GridIsSparse ==
  ASSUME NEW a \in Nat, NEW b \in Nat, NEW p \in Nat \ {0},
         a % p = 0, b % p = 0, a <= b, b < a + p
  PROVE  a = b
  <1> DEFINE i == a \div p
             k == b \div p
  <1>1. i \in Nat /\ k \in Nat /\ a = i * p /\ b = k * p
    OBVIOUS
  <1>2. CASE k <= i
    <2>1. k * p <= i * p
      BY <1>1, <1>2
    <2> QED BY <1>1, <2>1
  <1>3. CASE k > i
    <2>1. (i + 1) * p <= k * p
      BY <1>1, <1>3
    <2>2. (i + 1) * p = i * p + p
      BY <1>1
    <2> QED BY <1>1, <2>1, <2>2
  <1> QED BY <1>1, <1>2, <1>3

LEMMA MultipleOnGrid ==
  ASSUME NEW n \in Nat, NEW p \in Nat \ {0}
  PROVE  n * p \in Nat /\ (n * p) % p = 0
  OBVIOUS

LEMMA NextOnGrid ==
  ASSUME NEW a \in Nat, NEW p \in Nat \ {0}, a % p = 0
  PROVE  (a + p) % p = 0
  <1>1. PICK n \in Nat : n = (a \div p) + 1
    OBVIOUS
  <1>2. a = (a \div p) * p
    OBVIOUS
  <1>3. a + p = n * p
    BY <1>1, <1>2
  <1>4. (n * p) % p = 0
    BY MultipleOnGrid
  <1> QED BY <1>3, <1>4

\* The number of periods from `start` to the first occurrence that is not before `t`.
LEMMA FirstFrom ==
  ASSUME NEW d \in Nat, NEW p \in Nat \ {0}, NEW x \in Nat, x % p = 0, d <= x
  PROVE  ((d + p - 1) \div p) * p <= x
  <1> DEFINE i == (d + p - 1) \div p
             k == x \div p
  <1>1. i \in Nat /\ k \in Nat /\ x = k * p /\ i * p <= d + p - 1
    OBVIOUS
  <1>2. CASE i <= k
    <2>1. i * p <= k * p
      BY <1>1, <1>2
    <2> QED BY <1>1, <2>1
  <1>3. CASE i > k
    <2>1. (k + 1) * p <= i * p
      BY <1>1, <1>3
    <2>2. (k + 1) * p = k * p + p
      BY <1>1
    <2> QED BY <1>1, <2>1, <2>2
  <1> QED BY <1>1, <1>2, <1>3

LEMMA PeriodsFrom ==
  ASSUME NEW d \in Nat, NEW p \in Nat \ {0}
  PROVE  (d + p - 1) \div p \in Nat
  OBVIOUS

-----------------------------------------------------------------------------
\* Types, and the next run is an occurrence of the plan.

NextOnPlan == sched.next # Never => OnGrid(sched.next)

Planned == sched \in Plan /\ now \in Nat /\ NextOnPlan

LEMMA InitPlanned == InitSchedule => Planned
  <1> SUFFICES ASSUME InitSchedule PROVE Planned
    OBVIOUS
  <1>1. PICK p \in Plans : sched = [status |-> "ACTIVE", start |-> p[1], period |-> p[2], end |-> p[3],
                                    next |-> p[1], lock |-> NoLock]
    BY DEF InitSchedule
  <1>2. p[1] \in Nat /\ p[2] \in Nat \ {0} /\ (p[3] # Never => p[3] \in Nat /\ p[1] <= p[3])
    BY SchedulesAssumption
  <1>3. (p[1] - p[1]) % p[2] = 0
    BY <1>2
  <1>4. NoLock \in [token : Tokens \cup {Never}, live : BOOLEAN]
    BY DEF NoLock
  <1>5. sched \in Plan
    BY <1>1, <1>2, <1>4 DEF Plan
  <1>6. NextOnPlan
    BY <1>1, <1>2, <1>3 DEF NextOnPlan, OnGrid
  <1> QED BY <1>5, <1>6 DEF Planned, InitSchedule

\* A step that neither moves the plan nor its next run.
LEMMA SamePlan ==
  ASSUME Planned, now' \in Nat, sched' \in Plan,
         sched'.next = sched.next, sched'.start = sched.start,
         sched'.period = sched.period, sched'.end = sched.end
  PROVE  Planned'
  BY DEF Planned, NextOnPlan, OnGrid

\* followingRun: the next occurrence of the plan, one period on.
LEMMA Following ==
  ASSUME Planned, sched.next # Never
  PROVE  LET t == followingRun(sched, sched.next)
         IN  /\ t \in Nat \cup {Never}
             /\ t # Never => OnGrid(t) /\ t = sched.next + sched.period
             /\ t = Never => sched.end # Never /\ sched.end < sched.next + sched.period
  <1>1. /\ sched.start \in Nat /\ sched.next \in Nat /\ sched.period \in Nat \ {0}
        /\ sched.end # Never => sched.end \in Nat
        /\ sched.start <= sched.next /\ (sched.next - sched.start) % sched.period = 0
    BY DEF Planned, NextOnPlan, OnGrid, Plan
  <1>2. PICK n \in Nat, s \in Nat, p \in Nat \ {0} :
          n = sched.next /\ s = sched.start /\ p = sched.period
    BY <1>1
  <1>3. ((n - s) + p) % p = 0
    BY <1>1, <1>2, NextOnGrid
  <1>4. (n - s) + p = (n + p) - s /\ n + p \in Nat /\ n + p >= s
    BY <1>1, <1>2
  <1>5. ((n + p) - s) % p = 0
    BY <1>3, <1>4
  <1>6. CASE sched.end # Never /\ n + p > sched.end
    BY <1>1, <1>2, <1>6 DEF followingRun, UpTo
  <1>7. CASE ~(sched.end # Never /\ n + p > sched.end)
    <2>1. followingRun(sched, sched.next) = n + p
      BY <1>2, <1>7 DEF followingRun, UpTo
    <2>2. sched.end # Never => n + p <= sched.end
      BY <1>1, <1>4, <1>7
    <2> HIDE DEF followingRun
    <2>3. OnGrid(n + p)
      BY <1>2, <1>4, <1>5, <2>2 DEF OnGrid
    <2> QED BY <1>2, <1>4, <2>1, <2>3, SchedulesAssumption
  <1> QED BY <1>6, <1>7

\* nextRunAfterEdit: an occurrence of the new plan, and none between the edit and it.
LEMMA AfterEdit ==
  ASSUME NEW plan \in Plan, NEW moment \in Nat, now = moment
  PROVE  LET t == nextRunAfterEdit(plan)
             On(x) == /\ x >= plan.start /\ (x - plan.start) % plan.period = 0
                      /\ plan.end # Never => x <= plan.end
         IN  /\ t \in Nat \cup {Never}
             /\ t # Never => On(t)
             /\ \A x \in Nat : On(x) /\ x >= moment => t # Never /\ t <= x
  <1>1. PICK s \in Nat, p \in Nat \ {0} : s = plan.start /\ p = plan.period
    BY DEF Plan
  <1> DEFINE steps == IF s >= moment THEN 0 ELSE (moment - s + p - 1) \div p
             first == s + steps * p
  <1>2. steps \in Nat
    <2>1. CASE s >= moment
      BY <2>1
    <2>2. CASE ~(s >= moment)
      <3>1. moment - s \in Nat
        BY <2>2
      <3>2. ((moment - s) + p - 1) \div p \in Nat
        BY <3>1, PeriodsFrom
      <3> QED BY <2>2, <3>2
    <2> QED BY <2>1, <2>2
  <1>3. steps * p \in Nat /\ (steps * p) % p = 0
    BY <1>2, MultipleOnGrid
  <1>4. first \in Nat /\ first >= s /\ first - s = steps * p
    BY <1>3
  <1>5. ASSUME NEW x \in Nat, x >= s, (x - s) % p = 0, x >= moment
        PROVE  first <= x
    <2>1. CASE s >= moment
      BY <1>5, <2>1
    <2>2. CASE ~(s >= moment)
      <3>1. moment - s \in Nat /\ x - s \in Nat /\ moment - s <= x - s
        BY <1>5, <2>2
      <3>2. (((moment - s) + p - 1) \div p) * p <= x - s
        BY <1>5, <3>1, FirstFrom
      <3>3. steps * p <= x - s
        BY <2>2, <3>2
      <3> HIDE DEF steps
      <3> QED BY <1>3, <3>3
    <2> QED BY <2>1, <2>2
  <1>6. nextRunAfterEdit(plan) = UpTo(plan.end, first)
    BY <1>1 DEF nextRunAfterEdit
  <1> HIDE DEF first
  <1>7. plan.end # Never => plan.end \in Nat
    BY DEF Plan
  <1>8. CASE plan.end # Never /\ first > plan.end
    <2>1. nextRunAfterEdit(plan) = Never
      BY <1>6, <1>8 DEF UpTo
    <2>2. \A x \in Nat : x >= s /\ (x - s) % p = 0 /\ x >= moment => x > plan.end
      BY <1>4, <1>5, <1>7, <1>8
    <2> HIDE DEF nextRunAfterEdit
    <2> QED BY <1>1, <1>7, <1>8, <2>1, <2>2
  <1>9. CASE ~(plan.end # Never /\ first > plan.end)
    <2>1. nextRunAfterEdit(plan) = first
      BY <1>6, <1>9 DEF UpTo
    <2>2. first \in Nat /\ first # Never
      BY <1>4, SchedulesAssumption
    <2>3. first >= s /\ (first - s) % p = 0 /\ (plan.end # Never => first <= plan.end)
      BY <1>3, <1>4, <1>7, <1>9
    <2> HIDE DEF nextRunAfterEdit
    <2> QED BY <1>1, <1>5, <2>1, <2>2, <2>3
  <1> QED BY <1>8, <1>9

-----------------------------------------------------------------------------
\* Every step.

Quiet ==
  /\ sched' \in Plan /\ now' \in Nat
  /\ sched'.next = sched.next /\ sched'.start = sched.start
  /\ sched'.period = sched.period /\ sched'.end = sched.end
  /\ UNCHANGED <<slots, made, since>>

\* Only Generate and Update touch the plan, its next run or what was served.
LEMMA OthersAreQuiet ==
  ASSUME Planned, [NextSchedule]_scheduleVars,
         ~Update, ~\E e \in queue : Generate(e)
  PROVE  Quiet
  <1> USE DEF Planned
  <1>n. NoLock \in [token : Tokens \cup {Never}, live : BOOLEAN]
    BY DEF NoLock
  <1>1. CASE UNCHANGED scheduleVars
    BY <1>1 DEF scheduleVars, Quiet
  <1>2. ASSUME NEW c \in Crons, Find(c) \/ Enqueue(c) \/ EnqueueFails(c) \/ ReleaseFails(c)
        PROVE  Quiet
    BY <1>2 DEF Find, Enqueue, EnqueueFails, ReleaseFails, Quiet
  <1>3. ASSUME NEW c \in Crons, Claim(c)
        PROVE  Quiet
    <2>1. CASE UNCHANGED sched
      BY <1>3, <2>1 DEF Claim, Quiet
    <2>2. ASSUME NEW token \in Tokens, Locks([token |-> token, live |-> TRUE])
          PROVE  Quiet
      BY <1>3, <2>2 DEF Claim, Locks, Plan, Quiet
    <2>3. Fresh # {} => (CHOOSE t \in Fresh : TRUE) \in Tokens
      BY DEF Fresh
    <2> QED BY <1>3, <2>1, <2>2, <2>3 DEF Claim
  <1>4. ASSUME NEW c \in Crons, Release(c)
        PROVE  Quiet
    BY <1>4, <1>n DEF Release, Locks, Plan, Quiet
  <1>5. ASSUME NEW e \in queue, GenerateFails(e)
        PROVE  Quiet
    BY <1>5 DEF GenerateFails, Quiet
  <1>6. ASSUME LeaseExpires \/ LeaseOutrun
        PROVE  Quiet
    <2>1. [sched.lock EXCEPT !.live = FALSE] \in [token : Tokens \cup {Never}, live : BOOLEAN]
      BY DEF Plan
    <2> QED BY <1>6, <2>1 DEF LeaseExpires, LeaseOutrun, Locks, Plan, Quiet
  <1>7. ASSUME Pass \/ Restart
        PROVE  Quiet
    BY <1>7 DEF Pass, Restart, Quiet
  <1>8. ASSUME SetStatus
        PROVE  Quiet
    <2>1. PICK status \in {"ACTIVE", "PAUSED", "CANCELLED"} :
            sched' = [sched EXCEPT !.status = status, !.lock = NoLock]
      BY <1>8 DEF SetStatus
    <2> QED BY <1>8, <1>n, <2>1 DEF SetStatus, Plan, Quiet
  <1> QED BY <1>1, <1>2, <1>3, <1>4, <1>5, <1>6, <1>7, <1>8 DEF NextSchedule, CronRun, Work

LEMMA UpdatePlans ==
  ASSUME Planned, Update
  PROVE  /\ Planned' /\ since' = now /\ UNCHANGED <<slots, made>>
         /\ \A x \in Nat : OnGrid(x)' /\ x >= now => sched'.next # Never /\ sched'.next <= x
  <1>1. PICK p \in Plans :
          LET plan == [sched EXCEPT !.start = p[1], !.period = p[2], !.end = p[3]]
          IN  sched' = [plan EXCEPT !.next = nextRunAfterEdit(plan), !.lock = NoLock]
    BY DEF Update
  <1>2. PICK plan : plan = [sched EXCEPT !.start = p[1], !.period = p[2], !.end = p[3]]
    OBVIOUS
  <1>3. plan \in Plan
    BY <1>2, SchedulesAssumption DEF Planned, Plan
  <1>4. PICK t : t = nextRunAfterEdit(plan)
    OBVIOUS
  <1>5. sched' = [plan EXCEPT !.next = t, !.lock = NoLock]
    BY <1>1, <1>2, <1>4
  <1>6. /\ t \in Nat \cup {Never}
        /\ t # Never => /\ t >= plan.start /\ (t - plan.start) % plan.period = 0
                        /\ plan.end # Never => t <= plan.end
        /\ \A x \in Nat : /\ x >= plan.start /\ (x - plan.start) % plan.period = 0
                          /\ plan.end # Never => x <= plan.end
                          /\ x >= now
                          => t # Never /\ t <= x
    BY <1>3, <1>4, AfterEdit DEF Planned
  <1>7. /\ sched' \in Plan /\ sched'.next = t /\ sched'.start = plan.start
        /\ sched'.period = plan.period /\ sched'.end = plan.end
    BY <1>3, <1>5, <1>6 DEF Plan, NoLock
  <1>8. since' = now /\ now' = now /\ UNCHANGED <<slots, made>>
    BY DEF Update
  <1>9. NextOnPlan'
    BY <1>6, <1>7 DEF NextOnPlan, OnGrid
  <1>10. \A x \in Nat : OnGrid(x)' /\ x >= now => sched'.next # Never /\ sched'.next <= x
    BY <1>6, <1>7 DEF OnGrid
  <1> QED BY <1>7, <1>8, <1>9, <1>10 DEF Planned

\* generateOne either leaves everything as it was or serves the next run and moves on by a period.
LEMMA GenerateServes ==
  ASSUME Planned, NEW e \in queue, Generate(e)
  PROVE  /\ Planned'
         /\ \/ Quiet
            \/ LET t == sched.next IN
               /\ t \in Nat /\ slots' = slots \cup {t}
               /\ made' = IF t \in slots THEN made ELSE [made EXCEPT ![t] = @ + 1]
               /\ since' = since
               /\ sched'.next = followingRun(sched, t)
               /\ \A x : OnGrid(x)' <=> OnGrid(x)
  <1>1. CASE Due /\ sched.lock.token = e.token
    <2>1. sched.next # Never /\ sched.next \in Nat
      BY <1>1 DEF Due, Planned, Plan
    <2>2. PICK t : t = followingRun(sched, sched.next)
      OBVIOUS
    <2>3. sched' = [sched EXCEPT !.next = t, !.lock = NoLock]
      BY <1>1, <2>2 DEF Generate
    <2>4. t \in Nat \cup {Never} /\ (t # Never => OnGrid(t))
      BY <2>1, <2>2, Following
    <2>5. /\ sched' \in Plan /\ sched'.next = t /\ sched'.start = sched.start
          /\ sched'.period = sched.period /\ sched'.end = sched.end
      BY <2>3, <2>4 DEF Planned, Plan, NoLock
    <2>6. \A x : OnGrid(x)' <=> OnGrid(x)
      BY <2>5 DEF OnGrid
    <2>7. now' = now
      BY DEF Generate
    <2>8. NextOnPlan'
      BY <2>4, <2>5 DEF NextOnPlan, OnGrid
    <2> QED BY <1>1, <2>1, <2>2, <2>5, <2>6, <2>7, <2>8 DEF Generate, Planned
  <1>2. CASE ~(Due /\ sched.lock.token = e.token)
    <2>1. Quiet
      BY <1>2 DEF Generate, Quiet, Planned
    <2> QED BY <2>1, SamePlan DEF Quiet
  <1> QED BY <1>1, <1>2

LEMMA StepPlanned == Planned /\ [NextSchedule]_scheduleVars => Planned'
  <1> SUFFICES ASSUME Planned, [NextSchedule]_scheduleVars
               PROVE  Planned'
    OBVIOUS
  <1>1. CASE Update
    BY <1>1, UpdatePlans
  <1>2. ASSUME NEW e \in queue, Generate(e)
        PROVE  Planned'
    BY <1>2, GenerateServes
  <1>3. CASE ~Update /\ ~\E e \in queue : Generate(e)
    BY <1>3, OthersAreQuiet, SamePlan DEF Quiet
  <1> QED BY <1>1, <1>2, <1>3

-----------------------------------------------------------------------------
\* One job per occurrence.

Served == made = [t \in Instants |-> IF t \in slots THEN 1 ELSE 0]

\* However many runs of the cron overlap, whatever leases run out and whatever staff move, no
\* occurrence ever gets two jobs.
THEOREM OneJobEach == SpecSchedule => []OneJobPerSlot
  <1>1. InitSchedule => Planned /\ Served
    BY InitPlanned DEF InitSchedule, Served
  <1>2. Planned /\ Served /\ [NextSchedule]_scheduleVars => (Planned /\ Served)'
    <2> SUFFICES ASSUME Planned, Served, [NextSchedule]_scheduleVars
                 PROVE  Served'
      BY StepPlanned
    <2>1. CASE Update
      BY <2>1, UpdatePlans DEF Served
    <2>2. ASSUME NEW e \in queue, Generate(e)
          PROVE  Served'
      <3>1. CASE Quiet
        BY <3>1 DEF Quiet, Served
      <3>2. CASE ~Quiet
        <4>1. PICK t \in Nat : /\ slots' = slots \cup {t}
                               /\ made' = IF t \in slots THEN made ELSE [made EXCEPT ![t] = @ + 1]
          BY <2>2, <3>2, GenerateServes
        <4>2. made' = [i \in Instants |-> IF i \in slots' THEN 1 ELSE 0]
          <5>1. CASE t \in slots
            BY <4>1, <5>1 DEF Served
          <5>2. CASE t \notin slots
            <6>1. \A i \in Instants : made'[i] = IF i \in slots' THEN 1 ELSE 0
              BY <4>1, <5>2 DEF Served
            <6> QED BY <4>1, <5>2, <6>1 DEF Served
          <5> QED BY <5>1, <5>2
        <4> QED BY <4>2 DEF Served, Instants
      <3> QED BY <3>1, <3>2
    <2>3. CASE ~Update /\ ~\E e \in queue : Generate(e)
      BY <2>3, OthersAreQuiet DEF Quiet, Served
    <2> QED BY <2>1, <2>2, <2>3
  <1>3. Served => OneJobPerSlot
    BY DEF Served, OneJobPerSlot
  <1> QED BY <1>1, <1>2, <1>3, PTL DEF SpecSchedule

-----------------------------------------------------------------------------
\* No occurrence is passed over.

\* From the last edit to the next run, every occurrence of the plan has its job, for plans of
\* any length and after outages of any number of periods.
THEOREM NoneSkipped == SpecSchedule => []NoSlotSkipped
  <1>1. InitSchedule => Planned /\ NoSlotSkipped
    <2> SUFFICES ASSUME InitSchedule
                 PROVE  NoSlotSkipped
      BY InitPlanned
    <2>1. Planned /\ sched.next = sched.start /\ sched.next # Never
      BY InitPlanned, SchedulesAssumption DEF InitSchedule
    <2> QED BY <2>1 DEF NoSlotSkipped, OnGrid, Planned, Plan, Instants
  <1>2. Planned /\ NoSlotSkipped /\ [NextSchedule]_scheduleVars => (Planned /\ NoSlotSkipped)'
    <2> SUFFICES ASSUME Planned, NoSlotSkipped, [NextSchedule]_scheduleVars
                 PROVE  NoSlotSkipped'
      BY StepPlanned
    <2>i. \A x \in Instants : x \in Nat
      BY DEF Instants
    <2>1. CASE Update
      <3> SUFFICES ASSUME NEW x \in Instants, OnGrid(x)', x >= since',
                          sched'.next # Never => x < sched'.next
                   PROVE  FALSE
        BY DEF NoSlotSkipped, Instants
      <3>1. sched'.next # Never /\ sched'.next <= x
        BY <2>1, <2>i, UpdatePlans
      <3>2. sched'.next \in Nat
        BY <2>1, <3>1, UpdatePlans DEF Planned, Plan
      <3> QED BY <2>i, <3>1, <3>2
    <2>2. ASSUME NEW e \in queue, Generate(e)
          PROVE  NoSlotSkipped'
      <3>1. CASE Quiet
        BY <3>1 DEF Quiet, NoSlotSkipped, OnGrid, Instants
      <3>2. CASE ~Quiet
        <4>1. PICK t \in Nat : /\ t = sched.next /\ slots' = slots \cup {t} /\ since' = since
                               /\ sched'.next = followingRun(sched, t)
                               /\ \A y : OnGrid(y)' <=> OnGrid(y)
          BY <2>2, <3>2, GenerateServes
        <4>2. t # Never
          BY SchedulesAssumption
        <4> SUFFICES ASSUME NEW x \in Instants, OnGrid(x), x >= since,
                            sched'.next # Never => x < sched'.next, x # t
                     PROVE  x \in slots
          BY <4>1 DEF NoSlotSkipped, Instants
        <4>3. x < t
          <5>1. /\ sched.start \in Nat /\ sched.period \in Nat \ {0}
                /\ sched.end # Never => sched.end \in Nat
            BY DEF Planned, Plan
          <5>2. OnGrid(t)
            BY <4>1, <4>2 DEF Planned, NextOnPlan
          <5>3. x < t + sched.period
            <6>1. CASE sched'.next = Never
              <7>1. sched.end # Never /\ sched.end < t + sched.period
                BY <4>1, <4>2, <6>1, Following
              <7> QED BY <2>i, <5>1, <7>1 DEF OnGrid
            <6>2. CASE sched'.next # Never
              BY <4>1, <4>2, <6>2, Following
            <6> QED BY <6>1, <6>2
          <5>4. PICK a \in Nat, b \in Nat, p \in Nat \ {0} :
                  a = t - sched.start /\ b = x - sched.start /\ p = sched.period
            BY <2>i, <5>1, <5>2 DEF OnGrid
          <5>5. a % p = 0 /\ b % p = 0 /\ b < a + p
            BY <2>i, <5>1, <5>2, <5>3, <5>4 DEF OnGrid
          <5>6. a <= b => a = b
            BY <5>5, GridIsSparse
          <5> QED BY <2>i, <5>1, <5>4, <5>6
        <4> QED BY <4>1, <4>3 DEF NoSlotSkipped
      <3> QED BY <3>1, <3>2
    <2>3. CASE ~Update /\ ~\E e \in queue : Generate(e)
      BY <2>3, OthersAreQuiet DEF Quiet, NoSlotSkipped, OnGrid, Instants
    <2> QED BY <2>1, <2>2, <2>3
  <1> QED BY <1>1, <1>2, PTL DEF SpecSchedule

=============================================================================
