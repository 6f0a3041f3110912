--------------------------- MODULE SchedulerProps ---------------------------
(***************************************************************************)
(* The properties of Scheduler.                                            *)
(***************************************************************************)
EXTENDS Scheduler

Labels == {"idle", "fire", "mint", "minted", "wake"} \cup Checking \cup Inserting
Times  == Nat \cup {NoTime}

\* Type invariant: every column and every local of a tick has its type, and a
\* tick that mints or wakes has a schedule or a task at hand.
TypeOK ==
  /\ now \in Nat /\ faults \in Nat
  /\ lastFired \in [Schedules -> Times]
  /\ task \in [TaskIds -> TaskRow]
  /\ pending \in [TaskIds -> Nat]
  /\ pc \in [Procs -> Labels]
  /\ tick \in [Procs -> Nat]
  /\ list \in [Procs -> SUBSET (Schedules \X Times)]
  /\ dues \in [Procs -> SUBSET TaskIds]
  /\ sch \in [Procs -> Schedules \cup {NoSchedule}]
  /\ cur \in [Procs -> TaskIds \cup {NoTask}]
  /\ \A p \in Procs : pc[p] \in {"mint", "minted"} => sch[p] \in Schedules
  /\ \A p \in Procs : pc[p] \in Checking \cup Inserting => cur[p] \in TaskIds
  /\ woken \subseteq TaskIds

\* "Scheduler mints once per dedupe_key" (BYZCLAW_BUILD_PLAN.md:291), also when
\* two schedulers look for the key before either has inserted its task.
OneTaskPerKey ==
  \A t, u \in TaskIds : task[t].key # NoKey /\ task[t].key = task[u].key => t = u

\* A task has at most one pending wake, also when two schedulers look for a
\* pending item before either has inserted one.
OnePendingWake == \A t \in TaskIds : pending[t] <= 1

\* "Task without wake never appears in inbox" (BYZCLAW_BUILD_PLAN.md:293),
\* neither when it is minted nor when it is due.
SilentTasksNeverWake == \A t \in TaskIds : t \in woken => task[t].wake # "none"

\* A task minted by a schedule that wakes gets its wake, unless a crash or a
\* failed write came between the two inserts: nothing but a fault loses it.
Minting(t) == \E p \in Procs : cur[p] = t /\ pc[p] \in {"minted", "check mint", "insert mint"}
Forgotten ==
  {t \in TaskIds : task[t].by # NoSchedule /\ task[t].wake # "none" /\ t \notin woken /\ ~Minting(t)}
WakesLostByFaultsOnly == Cardinality(Forgotten) <= faults

\* With one scheduler, a schedule without dedupe template mints at most one
\* task in each interval (each minute for a cron expression), and one more
\* for each fault: the tick may be much shorter than the interval.
Interval(s) == IF Plan[s].spec.kind = "interval" THEN Plan[s].spec.every ELSE 1
MintRate ==
  \A s \in Schedules : Interval(s) > 0 =>
    Cardinality(CreatedBy(s)) <= now \div Interval(s) + 1 + faults

\* A task that is due and may wake the agent gets into the inbox, or is closed
\* before, whatever fails in between.
DueTasksWake ==
  \A t \in TaskIds :
    (task[t].status = "open" /\ task[t].due # NoTime /\ task[t].wake # "none")
      ~> (t \in woken \/ task[t].status = "closed")
=============================================================================
