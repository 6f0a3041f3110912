-------------------------- MODULE TaskGate_proofs --------------------------
(***************************************************************************)
(* Proofs about TaskGate: who closes a task and what an approval leads to, *)
(* for any number of agents, commands, tasks, calls and faults.            *)
(***************************************************************************)
EXTENDS TaskGateProps, TLAPS

(***************************************************************************)
(* Owners: the tools pass the tasks of the user by, so whatever a process  *)
(* is about to close is not the user's or was asked for by the user; and   *)
(* the parents of approvals, closed without any check, are not the user's. *)
(***************************************************************************)
Approval(t) == Exists(t) /\ task[t].kind = "approval"

Owners ==
  /\ \A p \in Procs : pc[p] \in {"block", "approval"} => task[cur[p]].owner # "user"
  /\ \A p \in Procs : At(p, "complete") => task[cur[p]].owner # "user" \/ cur[p] \in asked
  /\ \A p \in Procs : At(p, "parent") => Approval(cur[p])
  /\ \A t \in TaskIds : Approval(t) => task[task[t].parent].owner # "user"
  /\ \A t \in TaskIds : Exists(t) /\ ~Approval(t) => task[t].parent = NoTask

OwnersInv == TypeOK /\ Owners /\ UserTasksDoneByUser

LEMMA OwnersInit == Init => OwnersInv
<1> SUFFICES ASSUME Init PROVE OwnersInv
  OBVIOUS
<1> USE GateAssumption DEF Init, Blank
<1>1. TypeOK
  BY DEF TypeOK, TaskRow, Statuses, At, Procs
<1>2. Owners
  BY DEF Owners, Approval, Exists, At
<1>3. UserTasksDoneByUser
  BY DEF UserTasksDoneByUser
<1> QED BY <1>1, <1>2, <1>3 DEF OwnersInv

(* What a process at work knows of its task. *)
LEMMA AtWork ==
  ASSUME OwnersInv, NEW p \in Procs, pc[p] # "idle"
  PROVE  /\ cur[p] \in TaskIds /\ Exists(cur[p])
         /\ At(p, "parent") => /\ task[cur[p]].parent \in TaskIds
                               /\ Exists(task[cur[p]].parent)
                               /\ task[task[cur[p]].parent].owner # "user"
BY DEF OwnersInv, TypeOK, Owners, Approval, At

(* UpdateStatus changes nothing but the status of one row. *)
LEMMA UpdateStatusRow ==
  ASSUME TypeOK, NEW t \in TaskIds, NEW st \in Statuses, UpdateStatus(t, st)
  PROVE  /\ task' \in [TaskIds -> TaskRow]
         /\ undone' \subseteq TaskIds /\ undone \subseteq undone'
         /\ task[t].status = "done" /\ st # "done" => t \in undone'
         /\ task'[t].status = st
         /\ \A u \in TaskIds :
              /\ u # t => task'[u] = task[u]
              /\ task'[u].owner = task[u].owner /\ task'[u].kind = task[u].kind
              /\ task'[u].parent = task[u].parent /\ task'[u].needs = task[u].needs
BY DEF TypeOK, UpdateStatus, TaskRow, Statuses

LEMMA OwnersStep == OwnersInv /\ [Next]_vars => OwnersInv'
<1> SUFFICES ASSUME OwnersInv, [Next]_vars PROVE OwnersInv'
  OBVIOUS
<1> USE DEF hist
<1>a. TypeOK /\ Owners /\ UserTasksDoneByUser
  BY DEF OwnersInv
<1>1. ASSUME NEW t \in TaskIds, NEW owner \in {"agent", "user"}, NEW needs \in BOOLEAN,
             CreateTask(t, owner, needs)
      PROVE  OwnersInv'
  <2>1. /\ ~Exists(t) /\ task' \in [TaskIds -> TaskRow]
        /\ task'[t].status = "open" /\ task'[t].kind = "work" /\ task'[t].parent = NoTask
        /\ \A u \in TaskIds : u # t => task'[u] = task[u]
    BY <1>a, <1>1 DEF CreateTask, NewId, Blank, TypeOK, TaskRow, Statuses
  <2>2. \A p \in Procs : ~At(p, "idle") => cur[p] \in TaskIds /\ cur[p] # t
    BY <1>a, <2>1 DEF TypeOK
  <2>3. \A u \in TaskIds : task[u].kind = "approval" => task[u].parent # t
    BY <1>a, <2>1 DEF TypeOK
  <2>4. TypeOK'
    BY <1>a, <1>1, <2>1, <2>2 DEF TypeOK, CreateTask, At, Exists
  <2>5. Owners'
    BY <1>a, <1>1, <2>1, <2>2, <2>3 DEF TypeOK, Owners, CreateTask, At, Exists, Approval
  <2>6. UserTasksDoneByUser'
    BY <1>a, <1>1, <2>1 DEF UserTasksDoneByUser, CreateTask
  <2> QED BY <2>4, <2>5, <2>6 DEF OwnersInv
<1>2. ASSUME NEW t \in TaskIds, BlockTask(t)
      PROVE  OwnersInv'
  <2>1. "held" \in Statuses /\ UpdateStatus(t, "held") /\ Exists(t)
    BY <1>2 DEF BlockTask, Statuses
  <2>2. TypeOK'
    BY <1>a, <1>2, <2>1, UpdateStatusRow DEF TypeOK, BlockTask, At, Exists
  <2>3. Owners'
    BY <1>a, <1>2, <2>1, UpdateStatusRow DEF TypeOK, Owners, BlockTask, At, Exists, Approval
  <2>4. UserTasksDoneByUser'
    BY <1>a, <1>2, <2>1, UpdateStatusRow DEF UserTasksDoneByUser, BlockTask
  <2> QED BY <2>2, <2>3, <2>4 DEF OwnersInv
<1>3. ASSUME NEW p \in Procs, BlockParent(p)
      PROVE  OwnersInv'
  <2>1. /\ "awaiting" \in Statuses /\ UpdateStatus(cur[p], "awaiting")
        /\ pc[p] = "block" /\ cur[p] \in TaskIds /\ Exists(cur[p])
    BY <1>3, AtWork DEF BlockParent, Statuses, At
  <2>2. TypeOK'
    BY <1>a, <1>3, <2>1, UpdateStatusRow DEF TypeOK, BlockParent, Become, At, Exists
  <2>3. Owners'
    BY <1>a, <1>3, <2>1, UpdateStatusRow
    DEF TypeOK, Owners, BlockParent, Become, At, Exists, Approval
  <2>4. UserTasksDoneByUser'
    BY <1>a, <1>3, <2>1, UpdateStatusRow DEF UserTasksDoneByUser, BlockParent
  <2> QED BY <2>2, <2>3, <2>4 DEF OwnersInv
<1>4. ASSUME NEW p \in Procs, CompleteTask(p)
      PROVE  OwnersInv'
  <2>1. /\ "done" \in Statuses /\ UpdateStatus(cur[p], "done")
        /\ pc[p] = "complete" /\ cur[p] \in TaskIds /\ Exists(cur[p])
    BY <1>4, AtWork DEF CompleteTask, Statuses, At
  <2>2. /\ \/ /\ task[cur[p]].kind = "approval"
              /\ pc' = [pc EXCEPT ![p] = "parent"] /\ cur' = [cur EXCEPT ![p] = cur[p]]
           \/ pc' = [pc EXCEPT ![p] = "idle"] /\ cur' = [cur EXCEPT ![p] = NoTask]
        /\ UNCHANGED <<calls, held, asked, hurt, faults>>
    BY <1>4 DEF CompleteTask, Return, Become
  <2>3. TypeOK'
    BY <1>a, <2>1, <2>2, UpdateStatusRow DEF TypeOK, At, Exists
  <2>4. Owners'
    BY <1>a, <2>1, <2>2, UpdateStatusRow DEF TypeOK, Owners, At, Exists, Approval
  <2>5. UserTasksDoneByUser'
    BY <1>a, <2>1, <2>2, UpdateStatusRow DEF UserTasksDoneByUser, Owners, At
  <2> QED BY <2>3, <2>4, <2>5 DEF OwnersInv
<1>5. ASSUME NEW p \in Procs, CompleteParent(p)
      PROVE  OwnersInv'
  <2> DEFINE t == task[cur[p]].parent
  <2>1. /\ "done" \in Statuses /\ UpdateStatus(t, "done")
        /\ pc[p] = "parent" /\ t \in TaskIds /\ Exists(t) /\ task[t].owner # "user"
    BY <1>5, AtWork DEF CompleteParent, Statuses, At
  <2> HIDE DEF t
  <2>2. /\ pc' = [pc EXCEPT ![p] = "idle"] /\ cur' = [cur EXCEPT ![p] = NoTask]
        /\ UNCHANGED <<calls, held, asked, hurt, faults>>
    BY <1>5 DEF CompleteParent, Return, Become
  <2>3. TypeOK'
    BY <1>a, <2>1, <2>2, UpdateStatusRow DEF TypeOK, At, Exists
  <2>4. Owners'
    BY <1>a, <2>1, <2>2, UpdateStatusRow DEF TypeOK, Owners, At, Exists, Approval
  <2>5. UserTasksDoneByUser'
    BY <1>a, <2>1, <2>2, UpdateStatusRow DEF UserTasksDoneByUser
  <2> QED BY <2>3, <2>4, <2>5 DEF OwnersInv
<1>6. ASSUME NEW p \in Procs, Fail(p) \/ BlockFails(p)
      PROVE  OwnersInv'
  <2>1. /\ UNCHANGED <<task, asked, calls, held, undone>>
        /\ pc[p] # "idle" /\ hurt' = hurt \cup Touched(p) /\ faults' = faults + 1
        /\ \/ Return(p)
           \/ pc[p] = "block" /\ Become(p, "approval", cur[p])
    BY <1>6 DEF Fail, BlockFails, Fault, At
  <2>2. cur[p] \in TaskIds /\ Exists(cur[p]) /\ Touched(p) \subseteq TaskIds
    BY <2>1, AtWork DEF Touched
  <2>3. TypeOK'
    BY <1>a, <2>1, <2>2 DEF TypeOK, Return, Become, At, Exists
  <2>4. Owners'
    BY <1>a, <2>1, <2>2 DEF TypeOK, Owners, Return, Become, At, Exists, Approval
  <2>5. UserTasksDoneByUser'
    BY <1>a, <2>1 DEF UserTasksDoneByUser
  <2> QED BY <2>3, <2>4, <2>5 DEF OwnersInv
<1>7. ASSUME NEW p \in Procs, NEW t \in TaskIds, StartComplete(p, t)
      PROVE  OwnersInv'
  <2>1. TypeOK'
    BY <1>a, <1>7 DEF TypeOK, StartComplete, Become, At, Exists
  <2>2. Owners'
    BY <1>a, <1>7 DEF TypeOK, Owners, StartComplete, MayComplete, Become, At, Exists, Approval
  <2>3. UserTasksDoneByUser'
    BY <1>a, <1>7 DEF UserTasksDoneByUser, StartComplete
  <2> QED BY <2>1, <2>2, <2>3 DEF OwnersInv
<1>8. ASSUME NEW p \in Procs, NEW a \in TaskIds, OpenApproval(p, a)
      PROVE  OwnersInv'
  <2>1. pc[p] = "approval" /\ cur[p] \in TaskIds /\ Exists(cur[p])
    BY <1>8, AtWork DEF OpenApproval, At
  <2>2. /\ ~Exists(a) /\ task' \in [TaskIds -> TaskRow]
        /\ task'[a].status = "open" /\ task'[a].kind = "approval"
        /\ task'[a].owner = "user" /\ task'[a].parent = cur[p]
        /\ \A u \in TaskIds : u # a => task'[u] = task[u]
    BY <1>a, <1>8, <2>1 DEF OpenApproval, NewId, Blank, TypeOK, TaskRow, Statuses
  <2>3. \A q \in Procs : ~At(q, "idle") => cur[q] \in TaskIds /\ cur[q] # a
    BY <1>a, <2>2 DEF TypeOK
  <2>4. \A u \in TaskIds : task[u].kind = "approval" => task[u].parent # a
    BY <1>a, <2>2 DEF TypeOK
  <2>5. /\ pc' = [pc EXCEPT ![p] = "idle"] /\ cur' = [cur EXCEPT ![p] = NoTask]
        /\ UNCHANGED <<calls, held, asked, hurt, undone, faults>>
    BY <1>8 DEF OpenApproval, Return, Become
  <2>6. TypeOK'
    BY <1>a, <2>1, <2>2, <2>3, <2>5 DEF TypeOK, At, Exists
  <2>7. Owners'
    BY <1>a, <2>1, <2>2, <2>3, <2>4, <2>5 DEF TypeOK, Owners, At, Exists, Approval
  <2>8. UserTasksDoneByUser'
    BY <1>a, <2>2, <2>5 DEF UserTasksDoneByUser
  <2> QED BY <2>6, <2>7, <2>8 DEF OwnersInv
<1>9. ASSUME NEW p \in Procs, NEW t \in TaskIds, StartCommand(p, t)
      PROVE  OwnersInv'
  <2>1. TypeOK'
    BY <1>a, <1>9 DEF TypeOK, StartCommand, Become, At, Exists
  <2>2. Owners'
    BY <1>a, <1>9 DEF TypeOK, Owners, StartCommand, Become, At, Exists, Approval
  <2>3. UserTasksDoneByUser'
    BY <1>a, <1>9 DEF UserTasksDoneByUser, StartCommand
  <2> QED BY <2>1, <2>2, <2>3 DEF OwnersInv
<1>10. CASE UNCHANGED vars
  BY <1>10 DEF vars, OwnersInv, TypeOK, Owners, UserTasksDoneByUser, At, Exists, Approval
<1> QED
  BY <1>1, <1>2, <1>3, <1>4, <1>5, <1>6, <1>7, <1>8, <1>9, <1>10 DEF Next

(***************************************************************************)
(* What an approval leads to.  Both properties are inductive once the      *)
(* owners are known: an approval is never set to awaiting, for task_block  *)
(* is the only tool that reaches a task of the user.                       *)
(***************************************************************************)
ApprovalsInv == OwnersInv /\ AwaitingHasApproval /\ ApprovedTasksGetDone

\* Some process is between the two statements of an approval of t.
Carrying(t) == \E p \in Procs : At(p, "parent") /\ task[cur[p]].parent = t

LEMMA ApprovalsInit == Init => ApprovalsInv
BY OwnersInit
   DEF Init, Blank, ApprovalsInv, AwaitingHasApproval, ApprovedTasksGetDone, Approvals, Exists

LEMMA ApprovalsStep == ApprovalsInv /\ [Next]_vars => ApprovalsInv'
<1> SUFFICES ASSUME ApprovalsInv, [Next]_vars
             PROVE  AwaitingHasApproval' /\ ApprovedTasksGetDone'
  BY OwnersStep DEF ApprovalsInv
<1> USE DEF hist
<1>a. OwnersInv /\ TypeOK /\ Owners /\ AwaitingHasApproval /\ ApprovedTasksGetDone
  BY DEF ApprovalsInv, OwnersInv
<1>b. NoTask \notin TaskIds
  BY GateAssumption
<1>1. ASSUME NEW t \in TaskIds, NEW owner \in {"agent", "user"}, NEW needs \in BOOLEAN,
             CreateTask(t, owner, needs)
      PROVE  AwaitingHasApproval' /\ ApprovedTasksGetDone'
  <2>1. /\ ~Exists(t)
        /\ task'[t].status = "open" /\ task'[t].kind = "work" /\ task'[t].parent = NoTask
        /\ \A u \in TaskIds : u # t => task'[u] = task[u]
        /\ UNCHANGED <<pc, cur, hurt, undone>>
    BY <1>a, <1>1 DEF CreateTask, NewId, Blank, TypeOK, TaskRow, Statuses
  <2>2. \A p \in Procs : ~At(p, "idle") => cur[p] \in TaskIds /\ cur[p] # t
    BY <1>a, <2>1 DEF TypeOK
  <2>3. \A u \in TaskIds : Approvals(u)' = Approvals(u)
    BY <1>b, <2>1 DEF Approvals, Exists
  <2>4. \A u \in TaskIds : Carrying(u)' <=> Carrying(u)
    BY <2>1, <2>2 DEF Carrying, At
  <2>5. \A u \in TaskIds : \A a \in Approvals(u) : task'[a] = task[a]
    BY <2>1 DEF Approvals
  <2>6. AwaitingHasApproval'
    BY <1>a, <2>1, <2>3, <2>4, <2>5 DEF AwaitingHasApproval, Carrying, At
  <2>7. Approvals(t) = {}
    BY <1>a, <1>b, <2>1 DEF Owners, TypeOK, Approvals, Approval
  <2>8. ApprovedTasksGetDone'
    BY <1>a, <2>1, <2>3, <2>4, <2>5, <2>7 DEF ApprovedTasksGetDone, Carrying, At
  <2> QED BY <2>6, <2>8
<1>2. ASSUME NEW t \in TaskIds, BlockTask(t)
      PROVE  AwaitingHasApproval' /\ ApprovedTasksGetDone'
  <2>1. "held" \in Statuses /\ UpdateStatus(t, "held") /\ UNCHANGED <<pc, cur, hurt>>
    BY <1>2 DEF BlockTask, Statuses
  <2>2. \A u \in TaskIds : Approvals(u) \subseteq Approvals(u)'
    BY <1>a, <2>1, UpdateStatusRow DEF Approvals, Exists
  <2>3. \A u \in TaskIds : Carrying(u) => Carrying(u)'
    BY <1>a, <2>1, UpdateStatusRow DEF Carrying, At, TypeOK
  <2>4. AwaitingHasApproval'
    BY <1>a, <2>1, <2>2, <2>3, UpdateStatusRow DEF AwaitingHasApproval, Approvals, Carrying, At
  <2>5. ApprovedTasksGetDone'
    BY <1>a, <1>2, <2>1, <2>3, UpdateStatusRow
    DEF ApprovedTasksGetDone, Approvals, Carrying, At, BlockTask, Exists
  <2> QED BY <2>4, <2>5
<1>3. ASSUME NEW p \in Procs, BlockParent(p)
      PROVE  AwaitingHasApproval' /\ ApprovedTasksGetDone'
  <2>1. /\ "awaiting" \in Statuses /\ UpdateStatus(cur[p], "awaiting")
        /\ pc[p] = "block" /\ cur[p] \in TaskIds /\ Exists(cur[p])
        /\ pc' = [pc EXCEPT ![p] = "approval"] /\ cur' = [cur EXCEPT ![p] = cur[p]]
        /\ hurt' = hurt
    BY <1>a, <1>3, AtWork DEF BlockParent, Become, Statuses, At
  <2>2. task[cur[p]].kind # "approval"
    BY <1>a, <2>1 DEF TypeOK, Owners
  <2>3. \A u \in TaskIds : \A a \in Approvals(u) : a # cur[p]
    BY <1>a, <1>b, <2>1, <2>2 DEF Owners, Approvals, Approval
  <2>4. \A u \in TaskIds : Approvals(u) = Approvals(u)'
    BY <1>a, <2>1, UpdateStatusRow DEF Approvals, Exists
  <2>5. \A u \in TaskIds : Carrying(u) => Carrying(u)'
    BY <1>a, <2>1, UpdateStatusRow DEF Carrying, At, TypeOK
  <2>6. \A u \in TaskIds : \A a \in Approvals(u) : task'[a] = task[a]
    BY <1>a, <2>1, <2>3, UpdateStatusRow DEF Approvals
  <2>7. AwaitingHasApproval'
    <3> SUFFICES ASSUME NEW u \in TaskIds, task'[u].status = "awaiting", u \notin hurt',
                        ~Carrying(u)', ~ \E q \in Procs : At(q, "approval")' /\ cur'[q] = u
                 PROVE  \E a \in Approvals(u)' : task'[a].status = "open" \/ task'[a].status = "held"
      BY DEF AwaitingHasApproval, Carrying
    <3>1. u # cur[p]
      BY <1>a, <2>1 DEF TypeOK, At
    <3>2. ~ \E q \in Procs : At(q, "approval") /\ cur[q] = u
      BY <1>a, <2>1 DEF TypeOK, At
    <3>3. task[u].status = "awaiting" /\ u \notin hurt /\ ~Carrying(u)
      BY <1>a, <2>1, <2>5, <3>1, UpdateStatusRow
    <3> QED BY <1>a, <2>4, <2>6, <3>2, <3>3 DEF AwaitingHasApproval, Carrying
  <2>8. ApprovedTasksGetDone'
    BY <1>a, <1>3, <2>1, <2>4, <2>5, <2>6, UpdateStatusRow
    DEF ApprovedTasksGetDone, Carrying, BlockParent
  <2> QED BY <2>7, <2>8
<1>4. ASSUME NEW p \in Procs, CompleteTask(p)
      PROVE  AwaitingHasApproval' /\ ApprovedTasksGetDone'
  <2> DEFINE c == cur[p]
  <2>1. /\ "done" \in Statuses /\ UpdateStatus(c, "done")
        /\ pc[p] = "complete" /\ c \in TaskIds /\ Exists(c)
        /\ hurt' = hurt
    BY <1>a, <1>4, AtWork DEF CompleteTask, Statuses, At
  <2>2. /\ task[c].kind = "approval" =>
             pc' = [pc EXCEPT ![p] = "parent"] /\ cur' = [cur EXCEPT ![p] = c]
        /\ task[c].kind # "approval" =>
             pc' = [pc EXCEPT ![p] = "idle"] /\ cur' = [cur EXCEPT ![p] = NoTask]
    BY <1>4 DEF CompleteTask, Return, Become
  <2> HIDE DEF c
  <2>3. \A u \in TaskIds : Approvals(u) = Approvals(u)'
    BY <1>a, <2>1, UpdateStatusRow DEF Approvals, Exists
  <2>4. \A u \in TaskIds : Carrying(u) => Carrying(u)'
    BY <1>a, <2>1, <2>2, UpdateStatusRow DEF Carrying, At, TypeOK
  <2>5. \A u \in TaskIds : c \in Approvals(u) => Carrying(u)'
    BY <1>a, <1>b, <2>1, <2>2, UpdateStatusRow DEF Carrying, At, TypeOK, Owners, Approvals, Approval
  <2>6. \A q \in Procs : At(q, "approval") => At(q, "approval")' /\ cur'[q] = cur[q]
    BY <1>a, <2>1, <2>2 DEF TypeOK, At
  <2>7. AwaitingHasApproval'
    <3> SUFFICES ASSUME NEW u \in TaskIds, task'[u].status = "awaiting", u \notin hurt',
                        ~Carrying(u)', ~ \E q \in Procs : At(q, "approval")' /\ cur'[q] = u
                 PROVE  \E a \in Approvals(u)' : task'[a].status = "open" \/ task'[a].status = "held"
      BY DEF AwaitingHasApproval, Carrying
    <3>1. task[u].status = "awaiting" /\ u \notin hurt /\ ~Carrying(u) /\ c \notin Approvals(u)
      BY <1>a, <2>1, <2>4, <2>5, UpdateStatusRow
    <3>2. \A a \in Approvals(u) : task'[a] = task[a]
      BY <1>a, <2>1, <3>1, UpdateStatusRow DEF Approvals
    <3> QED BY <1>a, <2>3, <2>6, <3>1, <3>2 DEF AwaitingHasApproval, Carrying
  <2>8. ApprovedTasksGetDone'
    <3> SUFFICES ASSUME NEW u \in TaskIds, NEW a \in Approvals(u)', task'[a].status = "done",
                        ~Carrying(u)', u \notin undone' \cup hurt'
                 PROVE  task'[u].status = "done"
      BY DEF ApprovedTasksGetDone, Carrying
    <3>1. a \in Approvals(u) /\ a # c /\ ~Carrying(u) /\ u \notin undone \cup hurt
      BY <1>a, <2>1, <2>3, <2>4, <2>5, UpdateStatusRow
    <3>2. task[a].status = "done"
      BY <1>a, <2>1, <3>1, UpdateStatusRow DEF Approvals
    <3>3. task[u].status = "done"
      BY <1>a, <3>1, <3>2 DEF ApprovedTasksGetDone, Carrying
    <3> QED BY <1>a, <2>1, <3>3, UpdateStatusRow
  <2> QED BY <2>7, <2>8
<1>5. ASSUME NEW p \in Procs, CompleteParent(p)
      PROVE  AwaitingHasApproval' /\ ApprovedTasksGetDone'
  <2> DEFINE t == task[cur[p]].parent
  <2>1. /\ "done" \in Statuses /\ UpdateStatus(t, "done")
        /\ pc[p] = "parent" /\ t \in TaskIds /\ Exists(t) /\ task[t].owner # "user"
        /\ pc' = [pc EXCEPT ![p] = "idle"] /\ cur' = [cur EXCEPT ![p] = NoTask]
        /\ hurt' = hurt
    BY <1>a, <1>5, AtWork DEF CompleteParent, Return, Become, Statuses, At
  <2>2. \A u \in TaskIds : Carrying(u) => u = t \/ Carrying(u)'
    BY <1>a, <2>1, UpdateStatusRow DEF Carrying, At, TypeOK
  <2> HIDE DEF t
  <2>3. \A u \in TaskIds : \A a \in Approvals(u) : a # t
    BY <1>a, <1>b, <2>1 DEF TypeOK, Owners, Approvals, Approval
  <2>4. \A u \in TaskIds : Approvals(u) = Approvals(u)'
    BY <1>a, <2>1, UpdateStatusRow DEF Approvals, Exists
  <2>5. \A u \in TaskIds : \A a \in Approvals(u) : task'[a] = task[a]
    BY <1>a, <2>1, <2>3, UpdateStatusRow DEF Approvals
  <2>6. \A q \in Procs : At(q, "approval") => At(q, "approval")' /\ cur'[q] = cur[q]
    BY <1>a, <2>1 DEF TypeOK, At
  <2>7. AwaitingHasApproval'
    BY <1>a, <2>1, <2>2, <2>4, <2>5, <2>6, UpdateStatusRow DEF AwaitingHasApproval, Carrying
  <2>8. ApprovedTasksGetDone'
    BY <1>a, <2>1, <2>2, <2>4, <2>5, UpdateStatusRow DEF ApprovedTasksGetDone, Carrying
  <2> QED BY <2>7, <2>8
<1>6. ASSUME NEW p \in Procs, Fail(p) \/ BlockFails(p)
      PROVE  AwaitingHasApproval' /\ ApprovedTasksGetDone'
  <2>1. /\ UNCHANGED <<task, undone>>
        /\ pc[p] # "idle" /\ hurt' = hurt \cup Touched(p)
        /\ \/ pc' = [pc EXCEPT ![p] = "idle"] /\ cur' = [cur EXCEPT ![p] = NoTask]
           \/ /\ pc[p] = "block"
              /\ pc' = [pc EXCEPT ![p] = "approval"] /\ cur' = [cur EXCEPT ![p] = cur[p]]
    BY <1>6 DEF Fail, BlockFails, Fault, Return, Become, At
  <2>2. cur[p] \in TaskIds
    BY <1>a, <2>1, AtWork
  <2>3. \A u \in TaskIds : Carrying(u) => u \in hurt' \/ Carrying(u)'
    BY <1>a, <2>1, <2>2 DEF Carrying, Touched, At, TypeOK
  <2>4. \A u \in TaskIds : \A q \in Procs :
          At(q, "approval") /\ cur[q] = u => u \in hurt' \/ (At(q, "approval")' /\ cur'[q] = u)
    BY <1>a, <2>1, <2>2 DEF Touched, At, TypeOK
  <2>5. \A u \in TaskIds : Approvals(u) = Approvals(u)'
    BY <2>1 DEF Approvals, Exists
  <2>6. AwaitingHasApproval'
    BY <1>a, <2>1, <2>3, <2>4, <2>5 DEF AwaitingHasApproval, Carrying
  <2>7. ApprovedTasksGetDone'
    BY <1>a, <2>1, <2>3, <2>5 DEF ApprovedTasksGetDone, Carrying
  <2> QED BY <2>6, <2>7
<1>7. ASSUME NEW p \in Procs, NEW t \in TaskIds, StartComplete(p, t) \/ StartCommand(p, t)
      PROVE  AwaitingHasApproval' /\ ApprovedTasksGetDone'
  <2>1. /\ UNCHANGED <<task, hurt, undone>> /\ pc[p] = "idle"
        /\ cur' = [cur EXCEPT ![p] = t]
        /\ pc' = [pc EXCEPT ![p] = "block"] \/ pc' = [pc EXCEPT ![p] = "complete"]
    BY <1>7 DEF StartComplete, StartCommand, Become, At
  <2>2. \A u \in TaskIds : Carrying(u) => Carrying(u)'
    BY <1>a, <2>1 DEF Carrying, At, TypeOK
  <2>3. \A q \in Procs : At(q, "approval") => At(q, "approval")' /\ cur'[q] = cur[q]
    BY <1>a, <2>1 DEF TypeOK, At
  <2>4. \A u \in TaskIds : Approvals(u) = Approvals(u)'
    BY <2>1 DEF Approvals, Exists
  <2> QED
    BY <1>a, <2>1, <2>2, <2>3, <2>4 DEF AwaitingHasApproval, ApprovedTasksGetDone, Carrying
<1>8. ASSUME NEW p \in Procs, NEW b \in TaskIds, OpenApproval(p, b)
      PROVE  AwaitingHasApproval' /\ ApprovedTasksGetDone'
  <2>1. pc[p] = "approval" /\ cur[p] \in TaskIds /\ Exists(cur[p])
    BY <1>a, <1>8, AtWork DEF OpenApproval, At
  <2>2. /\ ~Exists(b) /\ task'[b].status = "open" /\ task'[b].parent = cur[p]
        /\ \A u \in TaskIds : u # b => task'[u] = task[u]
        /\ pc' = [pc EXCEPT ![p] = "idle"] /\ cur' = [cur EXCEPT ![p] = NoTask]
        /\ UNCHANGED <<hurt, undone>>
    BY <1>a, <1>8, <2>1 DEF OpenApproval, NewId, Blank, TypeOK, TaskRow, Return, Become
  <2>3. \A q \in Procs : ~At(q, "idle") => cur[q] \in TaskIds /\ cur[q] # b
    BY <1>a, <2>2 DEF TypeOK
  <2>4. \A u \in TaskIds : Carrying(u) => Carrying(u)'
    BY <1>a, <2>1, <2>2, <2>3 DEF Carrying, At, TypeOK
  <2>5. \A u \in TaskIds : \A a \in Approvals(u) : a \in Approvals(u)' /\ task'[a] = task[a]
    BY <2>2 DEF Approvals, Exists
  <2>6. \A u \in TaskIds : \A a \in Approvals(u)' : a = b \/ a \in Approvals(u)
    BY <2>2 DEF Approvals, Exists
  <2>7. \A u \in TaskIds : u = cur[p] => b \in Approvals(u)'
    BY <2>2 DEF Approvals, Exists
  <2>8. \A q \in Procs : At(q, "approval") => q = p \/ (At(q, "approval")' /\ cur'[q] = cur[q])
    BY <1>a, <2>2 DEF TypeOK, At
  <2>9. AwaitingHasApproval'
    BY <1>a, <2>1, <2>2, <2>4, <2>5, <2>7, <2>8 DEF AwaitingHasApproval, Carrying
  <2>10. ~ \E a \in Approvals(b) : TRUE
    BY <1>a, <1>b, <2>2 DEF Owners, TypeOK, Approvals, Approval
  <2>11. ApprovedTasksGetDone'
    BY <1>a, <2>2, <2>4, <2>5, <2>6, <2>10 DEF ApprovedTasksGetDone, Carrying
  <2> QED BY <2>9, <2>11
<1>9. CASE UNCHANGED vars
  BY <1>a, <1>9
  DEF vars, AwaitingHasApproval, ApprovedTasksGetDone, Approvals, At, Exists
<1> QED
  BY <1>1, <1>2, <1>3, <1>4, <1>5, <1>6, <1>7, <1>8, <1>9 DEF Next

\* Every row, process and counter keeps its type, and an approval is always a
\* task of the user with a parent that exists.
THEOREM GateTypeCorrect == Spec => []TypeOK
<1>1. OwnersInv => TypeOK
  BY DEF OwnersInv
<1> QED BY <1>1, OwnersInit, OwnersStep, PTL DEF Spec

\* The tools never close a task of the user, neither directly nor as the parent
\* of an approval (task_tools.go:138, main.go:149).
THEOREM UserTasksAreTheUsers == Spec => []UserTasksDoneByUser
<1>1. OwnersInv => UserTasksDoneByUser
  BY DEF OwnersInv
<1> QED BY <1>1, OwnersInit, OwnersStep, PTL DEF Spec

\* A task is never left waiting for an approval that does not exist, whatever
\* the order of two agents and a command, unless a fault hit its completion.
THEOREM NoLostApproval == Spec => []AwaitingHasApproval
<1>1. ApprovalsInv => AwaitingHasApproval
  BY DEF ApprovalsInv
<1> QED BY <1>1, ApprovalsInit, ApprovalsStep, PTL DEF Spec

\* An approval that is done has its parent done, or is just about to, unless a
\* fault hit its completion or a tool blocked the parent again.
THEOREM ApprovalsAreCarriedOut == Spec => []ApprovedTasksGetDone
<1>1. ApprovalsInv => ApprovedTasksGetDone
  BY DEF ApprovalsInv
<1> QED BY <1>1, ApprovalsInit, ApprovalsStep, PTL DEF Spec

(***************************************************************************)
(* The guard of task_complete.  It lets a task that requires approval pass *)
(* only while the task is blocked: by task_block, or by an earlier call.   *)
(***************************************************************************)
Excused(t) == ApprovedBy(t) \/ calls[t] > 1 \/ t \in held

Guarded ==
  /\ \A t \in TaskIds : /\ task[t].status = "awaiting" => calls[t] > 0
                        /\ task[t].status = "held" => t \in held
                        /\ task[t].needs /\ task[t].status = "done" => Excused(t)
  /\ \A p \in Procs : /\ At(p, "block") => calls[cur[p]] > 0
                      /\ At(p, "complete") /\ task[cur[p]].needs => Excused(cur[p])
                      /\ At(p, "parent") => cur[p] \in asked

LEMMA GuardedStep == OwnersInv /\ Guarded /\ [Next]_vars => Guarded'
<1> SUFFICES ASSUME OwnersInv, Guarded, [Next]_vars PROVE Guarded'
  OBVIOUS
<1> USE DEF hist
<1>a. /\ TypeOK /\ Owners
      /\ \A t \in TaskIds : calls[t] \in Nat
      /\ \A p \in Procs : pc[p] # "idle" => cur[p] \in TaskIds /\ Exists(cur[p])
  BY AtWork DEF OwnersInv, TypeOK
\* What excuses a task goes on to.
<1>b. ASSUME NEW t \in TaskIds, Excused(t), asked \subseteq asked', held \subseteq held',
             calls'[t] \in Nat, calls[t] <= calls'[t],
             \A u \in TaskIds : Exists(u) => Exists(u)' /\ task'[u].parent = task[u].parent
      PROVE  Excused(t)'
  <2>1. Approvals(t) \subseteq Approvals(t)'
    BY <1>b DEF Approvals
  <2>2. ApprovedBy(t) => ApprovedBy(t)'
    BY <1>b, <2>1 DEF ApprovedBy
  <2>3. calls[t] > 1 => calls'[t] > 1
    BY <1>a, <1>b
  <2> QED BY <1>b, <2>2, <2>3 DEF Excused
\* A row is added.
<1>1. ASSUME NEW t \in TaskIds, ~Exists(t), task'[t].status = "open",
             \A u \in TaskIds : u # t => task'[u] = task[u],
             UNCHANGED <<calls, held, asked>>,
             \A p \in Procs : pc'[p] = "idle" \/ (pc'[p] = pc[p] /\ cur'[p] = cur[p])
      PROVE  Guarded'
  <2>1. \A u \in TaskIds : Exists(u) => Exists(u)' /\ task'[u].parent = task[u].parent
    BY <1>1 DEF Exists
  <2>2. \A u \in TaskIds : Excused(u) => Excused(u)'
    BY <1>a, <1>b, <1>1, <2>1
  <2>3. \A p \in Procs : pc[p] # "idle" => cur[p] # t
    BY <1>a, <1>1
  <2> QED BY <1>a, <1>1, <2>2, <2>3 DEF Guarded, At
<1>2. ASSUME NEW t \in TaskIds, NEW owner \in {"agent", "user"}, NEW needs \in BOOLEAN,
             CreateTask(t, owner, needs)
      PROVE  Guarded'
  <2>1. /\ ~Exists(t) /\ task'[t].status = "open"
        /\ \A u \in TaskIds : u # t => task'[u] = task[u]
    BY <1>a, <1>2 DEF CreateTask, NewId, Blank, TypeOK
  <2> QED BY <1>1, <1>2, <2>1 DEF CreateTask
<1>3. ASSUME NEW p \in Procs, NEW t \in TaskIds, OpenApproval(p, t) PROVE Guarded'
  <2>1. /\ ~Exists(t) /\ task'[t].status = "open"
        /\ \A u \in TaskIds : u # t => task'[u] = task[u]
    BY <1>a, <1>3 DEF OpenApproval, NewId, Blank, TypeOK
  <2> QED BY <1>a, <1>1, <1>3, <2>1 DEF OpenApproval, Return, Become, TypeOK
\* The status of a row is changed.
<1>4. ASSUME NEW t \in TaskIds, NEW st \in {"held", "awaiting", "done"}, UpdateStatus(t, st), Exists(t),
             UNCHANGED <<calls, asked>>, held \subseteq held',
             st = "awaiting" => calls[t] > 0,
             st = "held" => t \in held',
             st = "done" /\ task[t].needs => Excused(t),
             \A p \in Procs : \/ pc'[p] \in {"idle", "approval"}
                              \/ pc'[p] = pc[p] /\ cur'[p] = cur[p]
                              \/ pc'[p] = "parent" /\ cur'[p] \in asked
      PROVE  Guarded'
  <2>1. /\ st \in Statuses
        /\ task'[t].status = st
        /\ \A u \in TaskIds :
             /\ u # t => task'[u] = task[u]
             /\ task'[u].parent = task[u].parent /\ task'[u].needs = task[u].needs
    <3>1. st \in Statuses
      BY DEF Statuses
    <3> QED BY <1>a, <1>4, <3>1, UpdateStatusRow
  <2>2. \A u \in TaskIds : Exists(u) => Exists(u)' /\ task'[u].parent = task[u].parent
    BY <2>1 DEF Exists
  <2>3. \A u \in TaskIds : Excused(u) => Excused(u)'
    BY <1>a, <1>b, <1>4, <2>2
  <2>4. \A u \in TaskIds : /\ task'[u].status = "awaiting" => calls'[u] > 0
                           /\ task'[u].status = "held" => u \in held'
                           /\ task'[u].needs /\ task'[u].status = "done" => Excused(u)'
    BY <1>4, <2>1, <2>3 DEF Guarded
  <2>5. \A p \in Procs : /\ At(p, "block")' => calls'[cur'[p]] > 0
                         /\ At(p, "parent")' => cur'[p] \in asked'
    BY <1>a, <1>4 DEF Guarded, At
  <2>6. ASSUME NEW p \in Procs, pc'[p] = "complete", NEW c, c = cur'[p], task'[c].needs
        PROVE  Excused(c)'
    <3>1. pc[p] = "complete" /\ cur[p] = c /\ c \in TaskIds /\ task[c].needs
      BY <1>a, <1>4, <2>1, <2>6
    <3> QED BY <2>3, <3>1 DEF Guarded, At
  <2>7. \A p \in Procs : At(p, "complete")' /\ task'[cur'[p]].needs => Excused(cur[p])'
    BY <2>6 DEF At, Excused, ApprovedBy, Approvals, Exists
  <2> QED BY <2>4, <2>5, <2>7 DEF Guarded
<1>5. ASSUME NEW t \in TaskIds, BlockTask(t) PROVE Guarded'
  BY <1>4, <1>5 DEF BlockTask
<1>6. ASSUME NEW p \in Procs, BlockParent(p) PROVE Guarded'
  <2> SUFFICES ASSUME NEW t, t = cur[p] PROVE Guarded'
    OBVIOUS
  <2>1. /\ t \in TaskIds /\ Exists(t) /\ calls[t] > 0 /\ UpdateStatus(t, "awaiting")
        /\ UNCHANGED <<calls, held, asked>>
    BY <1>a, <1>6 DEF BlockParent, Guarded, At
  <2>2. \A q \in Procs : pc'[q] = "approval" \/ (pc'[q] = pc[q] /\ cur'[q] = cur[q])
    BY <1>a, <1>6 DEF BlockParent, Become, TypeOK
  <2> QED BY <1>4, <2>1, <2>2
<1>7. ASSUME NEW p \in Procs, CompleteTask(p) PROVE Guarded'
  <2> SUFFICES ASSUME NEW t, t = cur[p] PROVE Guarded'
    OBVIOUS
  <2>1. /\ t \in TaskIds /\ Exists(t) /\ UpdateStatus(t, "done")
        /\ task[t].needs => Excused(t)
        /\ UNCHANGED <<calls, held, asked>>
    BY <1>a, <1>7 DEF CompleteTask, Guarded, At
  <2>2. task[t].kind = "approval" => t \in asked
    BY <1>a, <1>7 DEF CompleteTask, At, Owners, TypeOK
  <2>3. \A q \in Procs : \/ pc'[q] = "idle" \/ (pc'[q] = pc[q] /\ cur'[q] = cur[q])
                         \/ pc'[q] = "parent" /\ cur'[q] \in asked
    BY <1>a, <1>7, <2>2 DEF CompleteTask, Return, Become, TypeOK
  <2> QED BY <1>4, <2>1, <2>3
<1>8. ASSUME NEW p \in Procs, CompleteParent(p) PROVE Guarded'
  <2> SUFFICES ASSUME NEW t, t = task[cur[p]].parent PROVE Guarded'
    OBVIOUS
  <2>1. t \in TaskIds /\ Exists(t) /\ UpdateStatus(t, "done") /\ UNCHANGED <<calls, held, asked>>
    BY <1>8, AtWork DEF CompleteParent, At
  <2>2. Excused(t)
    BY <1>a, <1>8 DEF CompleteParent, Guarded, At, Excused, ApprovedBy, Approvals
  <2>3. \A q \in Procs : pc'[q] = "idle" \/ (pc'[q] = pc[q] /\ cur'[q] = cur[q])
    BY <1>a, <1>8 DEF CompleteParent, Return, Become, TypeOK
  <2> QED BY <1>4, <2>1, <2>2, <2>3
\* A call begins.
<1>9. ASSUME NEW p \in Procs, NEW t \in TaskIds, StartComplete(p, t) \/ StartCommand(p, t)
      PROVE  Guarded'
  <2>1. /\ task' = task /\ held' = held /\ asked \subseteq asked' /\ Exists(t)
        /\ \A u \in TaskIds : calls'[u] \in Nat /\ calls[u] <= calls'[u]
    BY <1>a, <1>9 DEF StartComplete, StartCommand, TypeOK
  <2>2. \A u \in TaskIds : Excused(u) => Excused(u)'
    BY <1>b, <2>1 DEF Exists
  <2>3. \A q \in Procs : q # p => pc'[q] = pc[q] /\ cur'[q] = cur[q]
    BY <1>a, <1>9 DEF StartComplete, StartCommand, Become, TypeOK
  <2>4. /\ cur'[p] = t /\ pc'[p] \in {"block", "complete"}
        /\ pc'[p] = "block" => calls'[t] > 0
    BY <1>a, <1>9 DEF StartComplete, StartCommand, Become, TypeOK
  <2>5. pc'[p] = "complete" /\ task[t].needs => Excused(t)'
    <3>1. CASE StartCommand(p, t)
      BY <3>1 DEF StartCommand, Excused, ApprovedBy
    <3>2. CASE StartComplete(p, t) /\ task[t].needs /\ Blocked(t)
      <4>1. t \in held \/ calls[t] > 0
        BY <3>2 DEF Guarded, Blocked
      <4>2. calls'[t] = calls[t] + 1
        BY <1>a, <3>2 DEF StartComplete, TypeOK
      <4> QED BY <1>a, <2>1, <4>1, <4>2 DEF Excused
    <3>3. CASE StartComplete(p, t) /\ ~(task[t].needs /\ Blocked(t))
      BY <1>a, <3>3 DEF StartComplete, AsksApproval, Become, TypeOK
    <3> QED BY <1>9, <3>1, <3>2, <3>3
  <2>6. \A u \in TaskIds : /\ task'[u].status = "awaiting" => calls'[u] > 0
                           /\ task'[u].status = "held" => u \in held'
                           /\ task'[u].needs /\ task'[u].status = "done" => Excused(u)'
    BY <1>a, <2>1, <2>2 DEF Guarded
  <2>7. \A q \in Procs : /\ At(q, "block")' => calls'[cur'[q]] > 0
                         /\ At(q, "parent")' => cur'[q] \in asked'
    BY <1>a, <2>1, <2>3, <2>4 DEF Guarded, At
  <2>8. ASSUME NEW q \in Procs, pc'[q] = "complete", NEW c, c = cur'[q], task[c].needs
        PROVE  Excused(c)'
    <3>1. CASE q = p
      BY <2>4, <2>5, <2>8, <3>1
    <3>2. CASE q # p
      BY <1>a, <2>2, <2>3, <2>8, <3>2 DEF Guarded, At
    <3> QED BY <3>1, <3>2
  <2>9. \A q \in Procs : At(q, "complete")' /\ task'[cur'[q]].needs => Excused(cur[q])'
    BY <2>1, <2>8 DEF At, Excused, ApprovedBy, Approvals, Exists
  <2> QED BY <2>6, <2>7, <2>9 DEF Guarded
<1>10. ASSUME NEW p \in Procs, Fail(p) \/ BlockFails(p) PROVE Guarded'
  <2>1. /\ UNCHANGED <<task, calls, held, asked>>
        /\ \A q \in Procs : pc'[q] \in {"idle", "approval"} \/ (pc'[q] = pc[q] /\ cur'[q] = cur[q])
    BY <1>a, <1>10 DEF Fail, BlockFails, Fault, Return, Become, TypeOK
  <2>2. \A u \in TaskIds : Excused(u) => Excused(u)'
    BY <1>a, <1>b, <2>1 DEF Exists
  <2> QED BY <1>a, <2>1, <2>2 DEF Guarded, At
<1>11. CASE UNCHANGED vars
  BY <1>11 DEF vars, Guarded, Excused, ApprovedBy, Approvals, Exists, At
<1> QED BY <1>2, <1>3, <1>5, <1>6, <1>7, <1>8, <1>9, <1>10, <1>11 DEF Next

\* The guard of task_complete holds once: only a second call of it, or a
\* task_block, closes a task that requires approval without one
\* (task_tools.go:142).
THEOREM GuardHoldsOnce == Spec => []ApprovalHoldsOnce
<1>1. Init => Guarded
  BY DEF Init, Blank, Guarded, At
<1>2. Guarded => ApprovalHoldsOnce
  BY DEF Guarded, ApprovalHoldsOnce, Excused
<1> QED BY <1>1, <1>2, OwnersInit, OwnersStep, GuardedStep, PTL DEF Spec
=============================================================================
