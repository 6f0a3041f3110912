------------------------------ MODULE TaskGate ------------------------------
(***************************************************************************)
(* Who may close a task: the task tools of the agent                       *)
(* (internal/adapters/tool/task_tools.go) and the command "byzclaw task    *)
(* complete" of the user (cmd/byzclaw/main.go) over the tasks table.       *)
(*                                                                         *)
(* A task that requires approval is blocked by task_complete, which opens  *)
(* an approval task of the user; completing that one completes its parent. *)
(* Each statement on the table is a step of its own: the gateway, a        *)
(* "byzclaw run" and the commands of the user are separate processes.      *)
(*                                                                         *)
(* An operator with an underscore in its name is a variant with a fault:   *)
(* no action uses it; it is there to see that a property notices it.       *)
(***************************************************************************)
EXTENDS Integers, FiniteSets

CONSTANTS
  Agents,       \* processes whose agent calls the task tools
  Commands,     \* processes running byzclaw task complete
  TaskIds,      \* bound: a finite set of numbers
  MaxTasks,     \* bound: tasks created by the agents and the scheduler
  MaxCalls,     \* bound: calls of task_complete on one task
  MaxFaults,    \* bound: crashes and failed statements
  NoTask

Procs == Agents \cup Commands

ASSUME GateAssumption ==
  /\ TaskIds \subseteq Nat /\ NoTask \notin TaskIds
  /\ Agents \cap Commands = {}
  /\ MaxTasks \in Nat /\ MaxCalls \in Nat /\ MaxFaults \in Nat

VARIABLES
  task,      \* task[t]: the row of task t, see TaskRow
  pc, cur,   \* where each process is, and the task it completes
  (* history, read by properties only *)
  calls,     \* calls[t]: calls of task_complete on t that went past the owner check
  held,      \* tasks that task_block was called on
  asked,     \* tasks a user asked to complete
  hurt,      \* tasks whose completion met a crash or a failed statement
  undone,    \* tasks that were done and then blocked
  faults

hist == <<calls, held, asked, hurt, undone, faults>>
vars == <<task, pc, cur, hist>>

\* "awaiting" is blocked with reason awaiting_approval, "held" blocked with
\* another; the owners other than the user are all treated like the agent.
\* kind tells an approval from the other kinds.
Statuses == {"none", "open", "awaiting", "held", "done"}
TaskRow == [status : Statuses, owner : {"agent", "user"}, kind : {"work", "approval"},
            needs : BOOLEAN, parent : TaskIds \cup {NoTask}]
Blank == [status |-> "none", owner |-> "agent", kind |-> "work",
          needs |-> FALSE, parent |-> NoTask]

Exists(t)  == task[t].status # "none"
NewId(t)   == ~Exists(t) /\ \A u \in TaskIds : ~Exists(u) => t <= u
Works      == {t \in TaskIds : Exists(t) /\ task[t].kind = "work"}
Blocked(t) == task[t].status \in {"awaiting", "held"}

\* UpdateStatus does not look at the status the row has.
UpdateStatus(t, status) ==
  /\ task' = [task EXCEPT ![t].status = status]
  /\ undone' = IF task[t].status = "done" /\ status # "done" THEN undone \cup {t} ELSE undone

At(p, label) == pc[p] = label
Become(p, label, t) ==
  /\ pc' = [pc EXCEPT ![p] = label]
  /\ cur' = [cur EXCEPT ![p] = t]
Return(p) == Become(p, "idle", NoTask)

-----------------------------------------------------------------------------
(* The tools *)

\* task_create, and the tasks the scheduler mints
CreateTask(t, owner, needs) ==
  /\ NewId(t) /\ Cardinality(Works) < MaxTasks
  /\ task' = [task EXCEPT ![t] = [Blank EXCEPT !.status = "open", !.owner = owner, !.needs = needs]]
  /\ UNCHANGED <<pc, cur, hist>>

\* task_block, on whatever task the agent names
BlockTask(t) ==
  /\ Exists(t)
  /\ UpdateStatus(t, "held")
  /\ held' = held \cup {t}
  /\ UNCHANGED <<pc, cur, calls, asked, hurt, faults>>

MayComplete_any(t) == TRUE
MayComplete(t)     == task[t].owner # "user"

AsksApproval_never(t) == FALSE
AsksApproval(t)       == task[t].needs /\ ~Blocked(t)

\* task_complete: what the row says now decides; the row may change before
\* the next statement.
StartComplete(p, t) ==
  /\ p \in Agents /\ At(p, "idle")
  /\ Exists(t) /\ MayComplete(t) /\ calls[t] < MaxCalls
  /\ calls' = [calls EXCEPT ![t] = @ + 1]
  /\ Become(p, IF AsksApproval(t) THEN "block" ELSE "complete", t)
  /\ UNCHANGED <<task, held, asked, hurt, undone, faults>>

BlockParent_only(p) ==
  /\ At(p, "block")
  /\ UpdateStatus(cur[p], "awaiting")
  /\ Return(p)
  /\ UNCHANGED <<calls, held, asked, hurt, faults>>

BlockParent(p) ==
  /\ At(p, "block")
  /\ UpdateStatus(cur[p], "awaiting")
  /\ Become(p, "approval", cur[p])
  /\ UNCHANGED <<calls, held, asked, hurt, faults>>

OpenApproval_noOwner(p, a) ==
  /\ At(p, "approval") /\ NewId(a)
  /\ task' = [task EXCEPT ![a] = [Blank EXCEPT !.status = "open",
                                               !.kind = "approval", !.parent = cur[p]]]
  /\ Return(p)
  /\ UNCHANGED hist

OpenApproval(p, a) ==
  /\ At(p, "approval") /\ NewId(a)
  /\ task' = [task EXCEPT ![a] = [Blank EXCEPT !.status = "open", !.owner = "user",
                                               !.kind = "approval", !.parent = cur[p]]]
  /\ Return(p)
  /\ UNCHANGED hist

CompleteTask_alone(p) ==
  /\ At(p, "complete")
  /\ UpdateStatus(cur[p], "done")
  /\ Return(p)
  /\ UNCHANGED <<calls, held, asked, hurt, faults>>

\* The same two statements in the tool and in the command.
CompleteTask(p) ==
  /\ At(p, "complete")
  /\ UpdateStatus(cur[p], "done")
  /\ IF task[cur[p]].kind = "approval" THEN Become(p, "parent", cur[p]) ELSE Return(p)
  /\ UNCHANGED <<calls, held, asked, hurt, faults>>

CompleteParent(p) ==
  /\ At(p, "parent")
  /\ UpdateStatus(task[cur[p]].parent, "done")
  /\ Return(p)
  /\ UNCHANGED <<calls, held, asked, hurt, faults>>

-----------------------------------------------------------------------------
(* The command, faults *)

\* byzclaw task complete --id t
StartCommand(p, t) ==
  /\ p \in Commands /\ At(p, "idle") /\ Exists(t)
  /\ asked' = asked \cup {t}
  /\ Become(p, "complete", t)
  /\ UNCHANGED <<task, calls, held, hurt, undone, faults>>

\* The task a process is about to change, and its parent.
Touched(p) == {cur[p], task[cur[p]].parent} \cap TaskIds

Fault(p) ==
  /\ faults < MaxFaults /\ ~At(p, "idle")
  /\ faults' = faults + 1
  /\ hurt' = hurt \cup Touched(p)
  /\ UNCHANGED <<task, calls, held, asked, undone>>

\* The process dies, or the statement fails: Block's error is ignored, every
\* other one ends the call.
Fail(p)       == Fault(p) /\ Return(p)
BlockFails(p) == At(p, "block") /\ Fault(p) /\ Become(p, "approval", cur[p])

-----------------------------------------------------------------------------

Init ==
  /\ task = [t \in TaskIds |-> Blank]
  /\ pc = [p \in Procs |-> "idle"] /\ cur = [p \in Procs |-> NoTask]
  /\ calls = [t \in TaskIds |-> 0]
  /\ held = {} /\ asked = {} /\ hurt = {} /\ undone = {} /\ faults = 0

Next ==
  \/ \E t \in TaskIds :
       \/ \E owner \in {"agent", "user"}, needs \in BOOLEAN : CreateTask(t, owner, needs)
       \/ BlockTask(t)
  \/ \E p \in Procs :
       \/ BlockParent(p) \/ CompleteTask(p) \/ CompleteParent(p) \/ Fail(p) \/ BlockFails(p)
       \/ \E t \in TaskIds : StartComplete(p, t) \/ OpenApproval(p, t) \/ StartCommand(p, t)

Spec == Init /\ [][Next]_vars
=============================================================================
