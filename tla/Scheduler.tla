----------------------------- MODULE Scheduler -----------------------------
(***************************************************************************)
(* The scheduler (internal/core/scheduler.go, quiet_hours.go) over the     *)
(* schedule, task and inbox tables: on every tick it mints tasks from the  *)
(* schedules that are due and puts wakes for due tasks into the inbox.     *)
(*                                                                         *)
(* Each gateway process runs one scheduler; all share the database.  A     *)
(* step is one statement sent to the database, so another scheduler, the   *)
(* agent or a crash can come between any two.  Time is counted in minutes. *)
(* The agent side (inbox drain, task tools) is here only as what it does   *)
(* to the three tables.                                                    *)
(*                                                                         *)
(* An operator with an underscore in its name is a variant with a fault:   *)
(* no action uses it; it is there to see that a property notices it.       *)
(***************************************************************************)
EXTENDS Integers, FiniteSets

CONSTANTS
  Procs, Schedules,
  TaskIds,               \* bound: a finite set of numbers
  Plan,                  \* Plan[s]: the row of schedule s, see PlanRow
  KeyNames,              \* the texts of dedupe templates, placeholders apart
  Minutes, Hours,        \* minutes in an hour, hours in a day
  QuietStart, QuietEnd,  \* minute of the day, or NoTime
  DueLimit,              \* the LIMIT of ListDueOpen
  DueTimes, AgentWakes,  \* the due_at and wake values agents give to tasks
  MaxTime,               \* bound: the last minute
  MaxAgentTasks,         \* bound: tasks created by agents
  MaxFaults,             \* bound: crashes and failed writes
  NoTime, NoKey, NoTask, NoSchedule

Wakes == {"", "none", "on_mint", "when_due"}
Day == Minutes * Hours

\* A schedule row: an interval, or a cron expression of which only the minute
\* and the hour are looked at; -1 is the field "*".
Specs ==
  [kind : {"interval"}, every : Nat]
    \cup [kind : {"cron"}, minute : -1 .. Minutes - 1, hour : -1 .. Hours - 1]
Templates == [name : KeyNames, date : BOOLEAN, hour : BOOLEAN] \cup {NoKey}
PlanRow == [spec : Specs, template : Templates, wake : Wakes]

ASSUME ConstantsAssumption ==
  /\ Minutes \in Nat \ {0} /\ Hours \in Nat \ {0}
  /\ Plan \in [Schedules -> PlanRow]
  /\ QuietStart \in 0 .. Day - 1 \cup {NoTime} /\ QuietEnd \in 0 .. Day - 1 \cup {NoTime}
  /\ NoTime \notin Int
  /\ DueTimes \subseteq Nat \cup {NoTime} /\ AgentWakes \subseteq Wakes
  /\ DueLimit \in Nat /\ MaxTime \in Nat /\ MaxAgentTasks \in Nat /\ MaxFaults \in Nat
  /\ TaskIds \subseteq Nat
  /\ NoSchedule \notin Schedules /\ NoTask \notin TaskIds
  /\ NoKey \notin KeyNames \X Nat \X Nat
  /\ NoKey \notin [name : KeyNames, date : BOOLEAN, hour : BOOLEAN]

VARIABLES
  now,
  (* the database *)
  lastFired,     \* lastFired[s]: last_fired_at of schedule s, or NoTime
  task,          \* task[t]: the row of task t, see TaskRow
  pending,       \* pending[t]: pending inbox items with external id task-wake:t
  (* the schedulers *)
  pc,
  tick,          \* tick[p]: the time the tick of p began
  list,          \* list[p]: enabled schedules still to be looked at, as listed
  dues,          \* dues[p]: due tasks still to be woken, as listed
  sch, cur,      \* the schedule being fired, the task being minted or woken
  (* history, read by properties only *)
  woken,         \* tasks that had an inbox item
  faults         \* crashes and failed writes

db    == <<lastFired, task, pending>>
local == <<pc, tick, list, dues, sch, cur>>
hist  == <<woken, faults>>
vars  == <<now, db, local, hist>>

\* "closed" stands for blocked, done and cancelled: no statement of the
\* program sets a task back to open.
TaskRow == [status : {"none", "open", "closed"}, by : Schedules \cup {NoSchedule},
            key : (KeyNames \X Nat \X Nat) \cup {NoKey},
            due : Nat \cup {NoTime}, wake : Wakes]
Blank == [status |-> "none", by |-> NoSchedule, key |-> NoKey, due |-> NoTime, wake |-> "none"]

Fresh(t) == task[t].status = "none"

\* Ids are handed out in order, which loses nothing: the code draws them at random.
NewId(t) == Fresh(t) /\ \A u \in TaskIds : Fresh(u) => t <= u
CreatedBy(s) == {t \in TaskIds : ~Fresh(t) /\ task[t].by = s}

-----------------------------------------------------------------------------
(* Pure parts *)

\* InQuietHours: a window that ends before it starts goes over midnight.
InQuietHours(t) ==
  LET m == t % Day IN
  /\ QuietStart # NoTime /\ QuietEnd # NoTime
  /\ \/ QuietStart < QuietEnd /\ QuietStart <= m /\ m < QuietEnd
     \/ QuietStart > QuietEnd /\ (QuietStart <= m \/ m < QuietEnd)

cronFieldMatch(field, value) == field = -1 \/ field = value

\* scheduleDue
ScheduleDue(s, last, t) ==
  LET spec == Plan[s].spec IN
  \/ /\ spec.kind = "interval"
     /\ last # NoTime => last + spec.every <= t
  \/ /\ spec.kind = "cron"
     /\ cronFieldMatch(spec.minute, t % Minutes)
     /\ cronFieldMatch(spec.hour, (t \div Minutes) % Hours)
     /\ last # t

\* expandDedupe: the day and the hour stand for the text of the placeholders.
Key(s, t) ==
  LET k == Plan[s].template IN
  IF k = NoKey THEN NoKey
  ELSE <<k.name, IF k.date THEN t \div Day ELSE 0,
                 IF k.hour THEN (t \div Minutes) % Hours ELSE 0>>

\* The wake a minted task gets, and whether minting wakes.
WakeOf(s) == IF Plan[s].wake = "" THEN "on_mint" ELSE Plan[s].wake
WakesOnMint_notDue(s) == WakeOf(s) = "on_mint"
WakesOnMint(s) == WakeOf(s) \in {"on_mint", "when_due"}

KeyTaken(k) == k # NoKey /\ \E t \in TaskIds : ~Fresh(t) /\ task[t].key = k

\* ListDueOpen: open tasks due at the time of the tick, the earliest first,
\* at most DueLimit of them.
DueOpen(t0) ==
  {t \in TaskIds : task[t].status = "open" /\ task[t].due # NoTime /\ task[t].due <= t0}
ListDueOpen(t0) ==
  {D \in SUBSET DueOpen(t0) :
     /\ Cardinality(D) <= DueLimit
     /\ D # DueOpen(t0) => Cardinality(D) = DueLimit
     /\ \A t \in D, u \in DueOpen(t0) \ D : task[t].due <= task[u].due}

Silent_never(t) == FALSE
Silent_unset(t) == task[t].wake \in {"", "none"}
Silent(t) == task[t].wake = "none"

-----------------------------------------------------------------------------
(* A tick *)

At(p, label) == pc[p] = label

\* Scheduler p goes on at label, with schedule s and task t at hand.
Become(p, label, s, t) ==
  /\ pc' = [pc EXCEPT ![p] = label]
  /\ sch' = [sch EXCEPT ![p] = s]
  /\ cur' = [cur EXCEPT ![p] = t]
Back(p, label) == Become(p, label, NoSchedule, NoTask)

\* TickOnce, unless it is quiet, up to the listing of the schedules.
StartTick(p) ==
  /\ At(p, "idle") /\ ~InQuietHours(now)
  /\ tick' = [tick EXCEPT ![p] = now]
  /\ list' = [list EXCEPT ![p] = {<<s, lastFired[s]>> : s \in Schedules}]
  /\ Back(p, "fire")
  /\ UNCHANGED <<now, db, dues, hist>>

\* fireSchedules takes the next row; the order of the rows is left open.
Take(p, row) ==
  /\ At(p, "fire") /\ row \in list[p]
  /\ list' = [list EXCEPT ![p] = @ \ {row}]
  /\ UNCHANGED <<now, tick, dues>>

Due(p, row)   == ScheduleDue(row[1], row[2], tick[p])
KeyNow(p, s)  == Key(s, tick[p])

SkipSchedule(p, row) ==
  /\ Take(p, row) /\ ~Due(p, row)
  /\ UNCHANGED <<db, pc, sch, cur, hist>>

\* The task of this period exists: the schedule only counts as fired.
AlreadyMinted(p, row) ==
  /\ Take(p, row) /\ Due(p, row)
  /\ KeyTaken(KeyNow(p, row[1]))
  /\ lastFired' = [lastFired EXCEPT ![row[1]] = tick[p]]
  /\ UNCHANGED <<task, pending, pc, sch, cur, hist>>

FireSchedule(p, row) ==
  /\ Take(p, row) /\ Due(p, row)
  /\ ~KeyTaken(KeyNow(p, row[1]))
  /\ Become(p, "mint", row[1], NoTask)
  /\ UNCHANGED <<db, hist>>

NewTask(by, key, due, wake) ==
  [status |-> "open", by |-> by, key |-> key, due |-> due, wake |-> wake]

MintTask_noIndex(p, t) ==
  LET s == sch[p] IN
  /\ At(p, "mint") /\ NewId(t)
  /\ task' = [task EXCEPT ![t] = NewTask(s, KeyNow(p, s), NoTime, WakeOf(s))]
  /\ Become(p, "minted", s, t)
  /\ UNCHANGED <<now, lastFired, pending, tick, list, dues, hist>>

\* Tasks.Create: the unique index on dedupe_key may still refuse the row.
MintTask(p, t) ==
  LET s == sch[p] IN
  /\ At(p, "mint") /\ NewId(t)
  /\ ~KeyTaken(KeyNow(p, s))
  /\ task' = [task EXCEPT ![t] = NewTask(s, KeyNow(p, s), NoTime, WakeOf(s))]
  /\ Become(p, "minted", s, t)
  /\ UNCHANGED <<now, lastFired, pending, tick, list, dues, hist>>

MintRefused(p) ==
  /\ At(p, "mint") /\ KeyTaken(KeyNow(p, sch[p]))
  /\ Back(p, "fire")
  /\ UNCHANGED <<now, db, tick, list, dues, hist>>

AfterMint_noTask(p) ==
  IF WakesOnMint(sch[p]) THEN Become(p, "check mint", NoSchedule, NoTask) ELSE Back(p, "fire")
AfterMint(p) ==
  IF WakesOnMint(sch[p]) THEN Become(p, "check mint", NoSchedule, cur[p]) ELSE Back(p, "fire")

MarkFired_skipped(p) ==
  /\ At(p, "minted")
  /\ AfterMint(p)
  /\ UNCHANGED <<now, db, tick, list, dues, hist>>

MarkFired(p) ==
  /\ At(p, "minted")
  /\ lastFired' = [lastFired EXCEPT ![sch[p]] = tick[p]]
  /\ AfterMint(p)
  /\ UNCHANGED <<now, task, pending, tick, list, dues, hist>>

\* wakeDueTasks, once every schedule was looked at.
ListDue(p) ==
  /\ At(p, "fire") /\ list[p] = {}
  /\ \E D \in ListDueOpen(tick[p]) : dues' = [dues EXCEPT ![p] = D]
  /\ Back(p, "wake")
  /\ UNCHANGED <<now, db, tick, list, hist>>

WakeDue(p, t) ==
  /\ At(p, "wake") /\ t \in dues[p]
  /\ dues' = [dues EXCEPT ![p] = @ \ {t}]
  /\ IF Silent(t) THEN Back(p, "wake") ELSE Become(p, "check due", NoSchedule, t)
  /\ UNCHANGED <<now, db, tick, list, hist>>

EndTick(p) ==
  /\ At(p, "wake") /\ dues[p] = {}
  /\ tick' = [tick EXCEPT ![p] = 0]
  /\ Back(p, "idle")
  /\ UNCHANGED <<now, db, list, dues, hist>>

\* enqueueTaskWake: Enqueue looks for a pending item of the task, then inserts
\* one; the unique index on pending items may still refuse it.
Checking  == {"check mint", "check due"}
Inserting == {"insert mint", "insert due"}
AfterEnqueue(p) == Back(p, IF pc[p] \in {"check mint", "insert mint"} THEN "fire" ELSE "wake")

PendingFound(p) ==
  /\ pc[p] \in Checking \cup Inserting /\ pending[cur[p]] > 0
  /\ AfterEnqueue(p)
  /\ UNCHANGED <<now, db, tick, list, dues, hist>>

NoPendingFound(p) ==
  /\ pc[p] \in Checking /\ pending[cur[p]] = 0
  /\ Become(p, IF At(p, "check mint") THEN "insert mint" ELSE "insert due", NoSchedule, cur[p])
  /\ UNCHANGED <<now, db, tick, list, dues, hist>>

InsertWake_noIndex(p) ==
  /\ pc[p] \in Inserting
  /\ pending' = [pending EXCEPT ![cur[p]] = @ + 1]
  /\ woken' = woken \cup {cur[p]}
  /\ AfterEnqueue(p)
  /\ UNCHANGED <<now, lastFired, task, tick, list, dues, faults>>

InsertWake(p) ==
  /\ pc[p] \in Inserting /\ pending[cur[p]] = 0
  /\ pending' = [pending EXCEPT ![cur[p]] = 1]
  /\ woken' = woken \cup {cur[p]}
  /\ AfterEnqueue(p)
  /\ UNCHANGED <<now, lastFired, task, tick, list, dues, faults>>

\* A statement fails: no error is reported further than the tick, each skips
\* the schedule, the wake or the half of the tick at hand.
Fault ==
  /\ faults < MaxFaults
  /\ faults' = faults + 1
  /\ UNCHANGED <<now, db, woken>>

\* ... the listing of the schedules
ListFails(p) ==
  /\ Fault
  /\ At(p, "idle") /\ ~InQuietHours(now)
  /\ tick' = [tick EXCEPT ![p] = now]
  /\ Back(p, "fire")
  /\ UNCHANGED <<list, dues>>

\* ... MarkFired of a schedule whose task exists
RowFails(p, row) ==
  /\ Fault
  /\ Take(p, row) /\ Due(p, row) /\ KeyTaken(KeyNow(p, row[1]))
  /\ UNCHANGED <<pc, sch, cur>>

\* ... the listing of the due tasks, Create, MarkFired or Enqueue
WriteFails(p) ==
  /\ Fault
  /\ \/ At(p, "fire") /\ list[p] = {} /\ Back(p, "wake")
     \/ At(p, "mint") /\ Back(p, "fire")
     \/ At(p, "minted") /\ AfterMint(p)
     \/ pc[p] \in Checking \cup Inserting /\ AfterEnqueue(p)
  /\ UNCHANGED <<tick, list, dues>>

\* The process dies; a new one starts with a tick.
Crash(p) ==
  /\ Fault
  /\ ~At(p, "idle")
  /\ tick' = [tick EXCEPT ![p] = 0]
  /\ list' = [list EXCEPT ![p] = {}]
  /\ dues' = [dues EXCEPT ![p] = {}]
  /\ Back(p, "idle")

-----------------------------------------------------------------------------
(* The clock and the agent side *)

Advance ==
  /\ now < MaxTime
  /\ now' = now + 1
  /\ UNCHANGED <<db, local, hist>>

\* task_create
CreateTask(t, due, wake) ==
  /\ NewId(t) /\ Cardinality(CreatedBy(NoSchedule)) < MaxAgentTasks
  /\ task' = [task EXCEPT ![t] = NewTask(NoSchedule, NoKey, due, wake)]
  /\ UNCHANGED <<now, lastFired, pending, local, hist>>

\* task_complete, task_block, byzclaw task complete
CloseTask(t) ==
  /\ task[t].status = "open"
  /\ task' = [task EXCEPT ![t].status = "closed"]
  /\ UNCHANGED <<now, lastFired, pending, local, hist>>

\* MarkDelivered, after the agent handled the item.
Deliver(t) ==
  /\ pending[t] > 0
  /\ pending' = [pending EXCEPT ![t] = @ - 1]
  /\ UNCHANGED <<now, lastFired, task, local, hist>>

-----------------------------------------------------------------------------

Init ==
  /\ now = 0
  /\ lastFired = [s \in Schedules |-> NoTime]
  /\ task = [t \in TaskIds |-> Blank]
  /\ pending = [t \in TaskIds |-> 0]
  /\ pc = [p \in Procs |-> "idle"]
  /\ tick = [p \in Procs |-> 0]
  /\ list = [p \in Procs |-> {}]
  /\ dues = [p \in Procs |-> {}]
  /\ sch = [p \in Procs |-> NoSchedule]
  /\ cur = [p \in Procs |-> NoTask]
  /\ woken = {} /\ faults = 0

Tick(p) ==
  \/ StartTick(p) \/ MintRefused(p) \/ MarkFired(p) \/ ListDue(p) \/ EndTick(p)
  \/ PendingFound(p) \/ NoPendingFound(p) \/ InsertWake(p)
  \/ \E row \in list[p] : SkipSchedule(p, row) \/ AlreadyMinted(p, row) \/ FireSchedule(p, row)
  \/ \E t \in TaskIds : MintTask(p, t) \/ WakeDue(p, t)

Next ==
  \/ \E p \in Procs :
       \/ Tick(p) \/ ListFails(p) \/ WriteFails(p) \/ Crash(p)
       \/ \E row \in list[p] : RowFails(p, row)
  \/ Advance
  \/ \E t \in TaskIds :
       \/ \E due \in DueTimes, wake \in AgentWakes : CreateTask(t, due, wake)
       \/ CloseTask(t) \/ Deliver(t)

Spec == Init /\ [][Next]_vars

\* The ticker goes on ticking, a tick goes on, and time passes.
FairSpec == Spec /\ WF_vars(Advance) /\ \A p \in Procs : WF_vars(Tick(p))
=============================================================================
