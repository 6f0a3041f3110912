--------------------------- MODULE TaskGateProps ---------------------------
(***************************************************************************)
(* The properties of TaskGate.                                             *)
(***************************************************************************)
EXTENDS TaskGate

Approvals(t) == {a \in TaskIds : Exists(a) /\ task[a].parent = t}

\* Type invariant: every row has its type, an approval is the user's and has a
\* parent that exists, and a process in the middle of a call has its task.
TypeOK ==
  /\ task \in [TaskIds -> TaskRow]
  /\ pc \in [Procs -> {"idle", "block", "approval", "complete", "parent"}]
  /\ cur \in [Procs -> TaskIds \cup {NoTask}]
  /\ calls \in [TaskIds -> Nat] /\ faults \in Nat
  /\ held \subseteq TaskIds /\ asked \subseteq TaskIds
  /\ hurt \subseteq TaskIds /\ undone \subseteq TaskIds
  /\ \A p \in Procs : ~At(p, "idle") => cur[p] \in TaskIds /\ Exists(cur[p])
  /\ \A t \in TaskIds : task[t].kind = "approval" =>
       task[t].owner = "user" /\ task[t].parent \in TaskIds /\ Exists(task[t].parent)

\* "Agent tools may not complete owner=user tasks" (task_tools.go:138): a task
\* of the user is done only if a command asked for it, whatever the tools and
\* the completions of approvals did in between.
UserTasksDoneByUser ==
  \A t \in TaskIds : task[t].owner = "user" /\ task[t].status = "done" => t \in asked

\* A task that waits for approval has an open approval task, or one is on its
\* way, or its last one is just being carried over to it; only a fault leaves
\* it waiting for something that does not exist.
AwaitingHasApproval ==
  \A t \in TaskIds : task[t].status = "awaiting" =>
    \/ \E a \in Approvals(t) : task[a].status = "open" \/ task[a].status = "held"
    \/ \E p \in Procs : At(p, "approval") /\ cur[p] = t
    \/ \E p \in Procs : At(p, "parent") /\ task[cur[p]].parent = t
    \/ t \in hurt

\* A task whose approval is done gets done, unless a fault came between the
\* two statements; later it is not done only if some tool blocked it again.
ApprovedTasksGetDone ==
  \A t \in TaskIds : (\E a \in Approvals(t) : task[a].status = "done") =>
    \/ task[t].status = "done"
    \/ \E p \in Procs : At(p, "parent") /\ task[cur[p]].parent = t
    \/ t \in undone \cup hurt

\* A task that requires approval is done only if the user completed it or an
\* approval of it, as long as the agent calls task_complete on it once and
\* never blocks it: the guard of task_complete holds once.
ApprovedBy(t) == t \in asked \/ \E a \in Approvals(t) : a \in asked
ApprovalHoldsOnce ==
  \A t \in TaskIds : task[t].needs /\ task[t].status = "done" =>
    ApprovedBy(t) \/ calls[t] > 1 \/ t \in held

-----------------------------------------------------------------------------
(* What the documents say and the code does not do. *)

\* "Agent-owned work that requires human gate: block parent + open owner=user
\* approval task" (BYZCLAW_BUILD_PLAN.md:27).
ApprovalHolds ==
  \A t \in TaskIds : task[t].needs /\ task[t].status = "done" => ApprovedBy(t)
=============================================================================
