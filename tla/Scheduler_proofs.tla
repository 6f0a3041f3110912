-------------------------- MODULE Scheduler_proofs --------------------------
(***************************************************************************)
(* Proofs about Scheduler: types, and what may be minted and woken, for    *)
(* any number of schedulers, schedules, tasks, minutes and faults.         *)
(***************************************************************************)
EXTENDS SchedulerProps, TLAPS

(***************************************************************************)
(* A task at hand, listed or woken is a row of the table, a free row is    *)
(* blank, and a task on its way to the inbox may wake the agent.           *)
(***************************************************************************)
Waking == Checking \cup Inserting

AtHand ==
  /\ \A t \in TaskIds : Fresh(t) => task[t] = Blank
  /\ \A t \in woken : ~Fresh(t)
  /\ \A p \in Procs : \A t \in dues[p] : ~Fresh(t)
  /\ \A p \in Procs : pc[p] = "minted" =>
       cur[p] \in TaskIds /\ ~Fresh(cur[p]) /\ task[cur[p]].wake = WakeOf(sch[p])
  /\ \A p \in Procs : pc[p] \in Waking =>
       cur[p] \in TaskIds /\ ~Fresh(cur[p]) /\ task[cur[p]].wake # "none"

Inv == TypeOK /\ AtHand /\ OneTaskPerKey /\ OnePendingWake /\ SilentTasksNeverWake

LEMMA BlankRow == Blank \in TaskRow /\ Blank.key = NoKey /\ Blank.wake = "none" /\ Blank.status = "none"
BY DEF Blank, TaskRow, Wakes

LEMMA PlanWakes == ASSUME NEW s \in Schedules PROVE Plan[s].wake \in Wakes /\ WakeOf(s) \in Wakes
BY ConstantsAssumption DEF PlanRow, WakeOf, Wakes

LEMMA DayPositive == Day \in Nat /\ Day > 0
BY ConstantsAssumption DEF Day

LEMMA KeyType ==
  ASSUME NEW s \in Schedules, NEW t \in Nat
  PROVE  Key(s, t) \in (KeyNames \X Nat \X Nat) \cup {NoKey}
<1>1. Plan[s].template \in Templates
  BY ConstantsAssumption DEF PlanRow
<1>2. t \div Day \in Nat
  BY DayPositive
<1>3. t \div Minutes \in Nat
  BY ConstantsAssumption
<1>4. (t \div Minutes) % Hours \in Nat
  BY <1>3, ConstantsAssumption
<1>5. CASE Plan[s].template = NoKey
  BY <1>5 DEF Key
<1>6. CASE Plan[s].template # NoKey
  <2>1. Plan[s].template \in [name : KeyNames, date : BOOLEAN, hour : BOOLEAN]
    BY <1>1, <1>6 DEF Templates
  <2>2. Plan[s].template.name \in KeyNames
    BY <2>1
  <2> QED BY <1>2, <1>4, <1>6, <2>2 DEF Key
<1> QED BY <1>5, <1>6

LEMMA InvInit == Init => Inv
<1> SUFFICES ASSUME Init PROVE Inv
  OBVIOUS
<1> USE ConstantsAssumption, BlankRow DEF Init
<1>1. TypeOK
  BY DEF TypeOK, Labels, Times, Checking, Inserting
<1>2. AtHand
  BY DEF AtHand, Waking, Checking, Inserting
<1> QED
  BY <1>1, <1>2 DEF Inv, OneTaskPerKey, OnePendingWake, SilentTasksNeverWake

(***************************************************************************)
(* The steps that write no task and no inbox item.  RowsOK is what they    *)
(* keep of the listed rows; Held is what the task at hand has to be at     *)
(* each label.                                                             *)
(***************************************************************************)
RowsOK ==
  /\ now \in Nat /\ faults \in Nat
  /\ lastFired \in [Schedules -> Times]
  /\ tick \in [Procs -> Nat]
  /\ list \in [Procs -> SUBSET (Schedules \X Times)]
  /\ dues \in [Procs -> SUBSET TaskIds]
  /\ \A p \in Procs : \A t \in dues[p] : ~Fresh(t)

Held(label, s, t) ==
  /\ label \in Labels
  /\ s \in Schedules \cup {NoSchedule} /\ t \in TaskIds \cup {NoTask}
  /\ label \in {"mint", "minted"} => s \in Schedules
  /\ label = "minted" => t \in TaskIds /\ ~Fresh(t) /\ task[t].wake = WakeOf(s)
  /\ label \in Waking => t \in TaskIds /\ ~Fresh(t) /\ task[t].wake # "none"

LEMMA InvParts ==
  Inv <=> /\ RowsOK /\ OneTaskPerKey /\ OnePendingWake /\ SilentTasksNeverWake
          /\ pc \in [Procs -> Labels] /\ sch \in [Procs -> Schedules \cup {NoSchedule}]
          /\ cur \in [Procs -> TaskIds \cup {NoTask}]
          /\ \A p \in Procs : Held(pc[p], sch[p], cur[p])
          /\ task \in [TaskIds -> TaskRow] /\ pending \in [TaskIds -> Nat]
          /\ woken \subseteq TaskIds /\ \A t \in woken : ~Fresh(t)
          /\ \A t \in TaskIds : Fresh(t) => task[t] = Blank
BY DEF Inv, TypeOK, AtHand, RowsOK, Held, Waking

LEMMA Stay ==
  ASSUME Inv, RowsOK', UNCHANGED <<task, pending, woken, pc, sch, cur>>
  PROVE  Inv'
<1>1. /\ OneTaskPerKey' /\ OnePendingWake' /\ SilentTasksNeverWake'
      /\ \A t \in TaskIds : Fresh(t)' <=> Fresh(t)
  BY InvParts DEF OneTaskPerKey, OnePendingWake, SilentTasksNeverWake, Fresh
<1>2. \A p \in Procs : Held(pc[p], sch[p], cur[p])'
  BY InvParts DEF Held, Fresh
<1> QED BY <1>1, <1>2, InvParts DEF Inv, TypeOK, AtHand, RowsOK, Held, Waking, Fresh

LEMMA Move ==
  ASSUME Inv, RowsOK', UNCHANGED <<task, pending, woken>>,
         NEW p \in Procs, NEW label, NEW s, NEW t, Held(label, s, t), Become(p, label, s, t)
  PROVE  Inv'
<1>1. /\ OneTaskPerKey' /\ OnePendingWake' /\ SilentTasksNeverWake'
      /\ \A u \in TaskIds : Fresh(u)' <=> Fresh(u)
  BY InvParts DEF OneTaskPerKey, OnePendingWake, SilentTasksNeverWake, Fresh
<1>2. /\ pc' \in [Procs -> Labels] /\ sch' \in [Procs -> Schedules \cup {NoSchedule}]
      /\ cur' \in [Procs -> TaskIds \cup {NoTask}]
  BY InvParts DEF Become, Held
<1>3. ASSUME NEW q \in Procs PROVE Held(pc[q], sch[q], cur[q])'
  <2>1. CASE q = p
    BY <2>1, InvParts DEF Become, Held, Fresh
  <2>2. CASE q # p
    <3>1. pc'[q] = pc[q] /\ sch'[q] = sch[q] /\ cur'[q] = cur[q]
      BY <2>2, InvParts DEF Become
    <3> QED BY <3>1, InvParts DEF Held, Fresh
  <2> QED BY <2>1, <2>2
<1> QED
  BY <1>1, <1>2, <1>3, InvParts DEF Inv, TypeOK, AtHand, RowsOK, Held, Waking, Fresh

(* In a step without a table, dues and the clock are the only rows at risk. *)
LEMMA RowsStay ==
  ASSUME Inv, UNCHANGED task, now' \in Nat, faults' \in Nat,
         lastFired' \in [Schedules -> Times], tick' \in [Procs -> Nat],
         list' \in [Procs -> SUBSET (Schedules \X Times)],
         dues' \in [Procs -> SUBSET TaskIds],
         \A p \in Procs : \A t \in dues'[p] : t \in dues[p] \/ ~Fresh(t)
  PROVE  RowsOK'
BY DEF Inv, AtHand, RowsOK, Fresh

LEMMA Locals ==
  ASSUME Inv
  PROVE  /\ now \in Nat /\ faults \in Nat
         /\ lastFired \in [Schedules -> Times] /\ tick \in [Procs -> Nat]
         /\ list \in [Procs -> SUBSET (Schedules \X Times)]
         /\ dues \in [Procs -> SUBSET TaskIds]
         /\ \A p \in Procs : Held(pc[p], sch[p], cur[p])
         /\ Held("idle", NoSchedule, NoTask) /\ Held("fire", NoSchedule, NoTask)
         /\ Held("wake", NoSchedule, NoTask)
         /\ RowsOK
BY InvParts DEF RowsOK, Held, Labels, Waking, Checking, Inserting

LEMMA TakeRow ==
  ASSUME Inv, NEW p \in Procs, NEW row \in list[p], Take(p, row), UNCHANGED task,
         lastFired' \in [Schedules -> Times], faults' \in Nat
  PROVE  RowsOK'
<1>1. list' \in [Procs -> SUBSET (Schedules \X Times)] /\ UNCHANGED <<now, tick, dues>>
  BY Locals DEF Take
<1> QED BY <1>1, Locals, RowsStay

LEMMA AfterMintMoves ==
  ASSUME Inv, NEW p \in Procs, pc[p] = "minted", AfterMint(p), RowsOK',
         UNCHANGED <<task, pending, woken>>
  PROVE  Inv'
<1>1. Held("minted", sch[p], cur[p])
  BY Locals
<1>2. CASE WakesOnMint(sch[p])
  <2>1. Held("check mint", NoSchedule, cur[p])
    BY <1>1, <1>2 DEF Held, WakesOnMint, Labels, Waking, Checking, Inserting
  <2>2. Become(p, "check mint", NoSchedule, cur[p])
    BY <1>2 DEF AfterMint
  <2> QED BY <2>1, <2>2, Move
<1>3. CASE ~WakesOnMint(sch[p])
  <2>1. Become(p, "fire", NoSchedule, NoTask)
    BY <1>3 DEF AfterMint, Back
  <2> QED BY <2>1, Locals, Move
<1> QED BY <1>2, <1>3

LEMMA AfterEnqueueMoves ==
  ASSUME Inv, NEW p \in Procs, AfterEnqueue(p), RowsOK', UNCHANGED <<task, pending, woken>>
  PROVE  Inv'
<1>1. Become(p, "fire", NoSchedule, NoTask) \/ Become(p, "wake", NoSchedule, NoTask)
  BY DEF AfterEnqueue, Back
<1> QED BY <1>1, Locals, Move

LEMMA TickStep ==
  ASSUME Inv, NEW p \in Procs,
         \/ StartTick(p) \/ MintRefused(p) \/ MarkFired(p) \/ ListDue(p) \/ EndTick(p)
         \/ PendingFound(p) \/ NoPendingFound(p)
         \/ \E row \in list[p] : SkipSchedule(p, row) \/ AlreadyMinted(p, row) \/ FireSchedule(p, row)
         \/ \E t \in TaskIds : WakeDue(p, t)
  PROVE  Inv'
<1> USE DEF db, hist, Back, At
<1>1. CASE StartTick(p)
  <2>1. list' \in [Procs -> SUBSET (Schedules \X Times)] /\ tick' \in [Procs -> Nat]
    BY <1>1, Locals DEF StartTick
  <2>2. RowsOK' /\ Become(p, "fire", NoSchedule, NoTask) /\ UNCHANGED <<task, pending, woken>>
    BY <1>1, <2>1, Locals, RowsStay DEF StartTick
  <2> QED BY <2>2, Locals, Move
<1>2. CASE MintRefused(p)
  <2>1. RowsOK' /\ Become(p, "fire", NoSchedule, NoTask) /\ UNCHANGED <<task, pending, woken>>
    BY <1>2, Locals, RowsStay DEF MintRefused
  <2> QED BY <2>1, Locals, Move
<1>3. CASE MarkFired(p)
  <2>1. lastFired' \in [Schedules -> Times]
    BY <1>3, Locals DEF MarkFired, Times
  <2>2. RowsOK' /\ UNCHANGED <<task, pending, woken>>
    BY <1>3, <2>1, Locals, RowsStay DEF MarkFired
  <2> QED BY <1>3, <2>2, AfterMintMoves DEF MarkFired
<1>4. CASE ListDue(p)
  <2>1. PICK D \in ListDueOpen(tick[p]) : dues' = [dues EXCEPT ![p] = D]
    BY <1>4 DEF ListDue
  <2>2. D \subseteq TaskIds /\ \A t \in D : ~Fresh(t)
    BY DEF ListDueOpen, DueOpen, Fresh
  <2>3. /\ dues' \in [Procs -> SUBSET TaskIds]
        /\ \A q \in Procs : \A t \in dues'[q] : t \in dues[q] \/ ~Fresh(t)
    BY <2>1, <2>2, Locals
  <2>4. RowsOK' /\ Become(p, "wake", NoSchedule, NoTask) /\ UNCHANGED <<task, pending, woken>>
    BY <1>4, <2>3, Locals, RowsStay DEF ListDue
  <2> QED BY <2>4, Locals, Move
<1>5. CASE EndTick(p)
  <2>1. tick' \in [Procs -> Nat]
    BY <1>5, Locals DEF EndTick
  <2>2. RowsOK' /\ Become(p, "idle", NoSchedule, NoTask) /\ UNCHANGED <<task, pending, woken>>
    BY <1>5, <2>1, Locals, RowsStay DEF EndTick
  <2> QED BY <2>2, Locals, Move
<1>6. CASE PendingFound(p)
  <2>1. RowsOK' /\ AfterEnqueue(p) /\ UNCHANGED <<task, pending, woken>>
    BY <1>6, Locals, RowsStay DEF PendingFound
  <2> QED BY <2>1, AfterEnqueueMoves
<1>7. CASE NoPendingFound(p)
  <2>1. /\ RowsOK' /\ UNCHANGED <<task, pending, woken>> /\ pc[p] \in Checking
        /\ \/ Become(p, "insert mint", NoSchedule, cur[p])
           \/ Become(p, "insert due", NoSchedule, cur[p])
    BY <1>7, Locals, RowsStay DEF NoPendingFound
  <2>2. Held("insert mint", NoSchedule, cur[p]) /\ Held("insert due", NoSchedule, cur[p])
    BY <2>1, Locals DEF Held, Labels, Waking, Checking, Inserting
  <2> QED BY <2>1, <2>2, Move
<1>8. ASSUME NEW row \in list[p], SkipSchedule(p, row) \/ AlreadyMinted(p, row)
      PROVE  Inv'
  <2>1. row \in Schedules \X Times
    BY Locals
  <2>2. lastFired' \in [Schedules -> Times] /\ Take(p, row)
    BY <1>8, <2>1, Locals DEF SkipSchedule, AlreadyMinted, Times
  <2>3. UNCHANGED <<task, pending, woken, pc, sch, cur, faults>>
    BY <1>8 DEF SkipSchedule, AlreadyMinted
  <2> QED BY <2>2, <2>3, Locals, TakeRow, Stay
<1>9. ASSUME NEW row \in list[p], FireSchedule(p, row)
      PROVE  Inv'
  <2>1. row[1] \in Schedules
    BY Locals
  <2>2. /\ Take(p, row) /\ UNCHANGED <<task, pending, woken, lastFired, faults>>
        /\ Become(p, "mint", row[1], NoTask)
    BY <1>9 DEF FireSchedule
  <2>3. Held("mint", row[1], NoTask)
    BY <2>1 DEF Held, Labels, Waking, Checking, Inserting
  <2> QED BY <2>2, <2>3, Locals, TakeRow, Move
<1>10. ASSUME NEW t \in TaskIds, WakeDue(p, t)
       PROVE  Inv'
  <2>1. /\ dues' = [dues EXCEPT ![p] = @ \ {t}] /\ t \in dues[p]
        /\ UNCHANGED <<now, task, pending, woken, faults, lastFired, tick, list>>
        /\ \/ Become(p, "wake", NoSchedule, NoTask)
           \/ task[t].wake # "none" /\ Become(p, "check due", NoSchedule, t)
    BY <1>10 DEF WakeDue, Silent
  <2>2. /\ dues' \in [Procs -> SUBSET TaskIds]
        /\ \A q \in Procs : \A u \in dues'[q] : u \in dues[q]
    BY <2>1, Locals
  <2>3. RowsOK'
    BY <2>1, <2>2, Locals, RowsStay
  <2>4. ~Fresh(t)
    BY <2>1, Locals DEF RowsOK
  <2>5. task[t].wake # "none" => Held("check due", NoSchedule, t)
    BY <2>4 DEF Held, Labels, Waking, Checking, Inserting
  <2> QED BY <2>1, <2>3, <2>5, Locals, Move
<1> QED BY <1>1, <1>2, <1>3, <1>4, <1>5, <1>6, <1>7, <1>8, <1>9, <1>10

LEMMA FaultStep ==
  ASSUME Inv,
         \/ Advance
         \/ \E p \in Procs : ListFails(p) \/ WriteFails(p) \/ Crash(p)
                               \/ \E row \in list[p] : RowFails(p, row)
  PROVE  Inv'
<1> USE DEF db, hist, Back, At, Fault
<1>1. CASE Advance
  <2>1. /\ now' \in Nat
        /\ UNCHANGED <<lastFired, task, pending, pc, tick, list, dues, sch, cur, woken, faults>>
    BY <1>1, Locals DEF Advance, local
  <2> QED BY <2>1, Locals, RowsStay, Stay
<1>2. ASSUME NEW p \in Procs, ListFails(p) PROVE Inv'
  <2>1. faults' \in Nat /\ tick' \in [Procs -> Nat]
    BY <1>2, Locals DEF ListFails
  <2>2. RowsOK' /\ Become(p, "fire", NoSchedule, NoTask) /\ UNCHANGED <<task, pending, woken>>
    BY <1>2, <2>1, Locals, RowsStay DEF ListFails
  <2> QED BY <2>2, Locals, Move
<1>3. ASSUME NEW p \in Procs, WriteFails(p) PROVE Inv'
  <2>1. /\ faults' \in Nat /\ UNCHANGED <<now, lastFired, task, pending, woken, tick, list, dues>>
        /\ \/ Become(p, "wake", NoSchedule, NoTask)
           \/ Become(p, "fire", NoSchedule, NoTask)
           \/ pc[p] = "minted" /\ AfterMint(p)
           \/ AfterEnqueue(p)
    BY <1>3, Locals DEF WriteFails
  <2>2. RowsOK'
    BY <2>1, Locals, RowsStay
  <2> QED BY <2>1, <2>2, Locals, Move, AfterMintMoves, AfterEnqueueMoves
<1>4. ASSUME NEW p \in Procs, Crash(p) PROVE Inv'
  <2>1. /\ faults' \in Nat /\ tick' \in [Procs -> Nat]
        /\ list' \in [Procs -> SUBSET (Schedules \X Times)]
        /\ dues' \in [Procs -> SUBSET TaskIds]
        /\ \A q \in Procs : \A t \in dues'[q] : t \in dues[q]
    BY <1>4, Locals DEF Crash
  <2>2. RowsOK' /\ Become(p, "idle", NoSchedule, NoTask) /\ UNCHANGED <<task, pending, woken>>
    BY <1>4, <2>1, Locals, RowsStay DEF Crash
  <2> QED BY <2>2, Locals, Move
<1>5. ASSUME NEW p \in Procs, NEW row \in list[p], RowFails(p, row) PROVE Inv'
  <2>1. /\ Take(p, row) /\ faults' \in Nat
        /\ UNCHANGED <<lastFired, task, pending, woken, pc, sch, cur>>
    BY <1>5, Locals DEF RowFails
  <2> QED BY <2>1, Locals, TakeRow, Stay
<1> QED BY <1>1, <1>2, <1>3, <1>4, <1>5

(***************************************************************************)
(* The steps that write a task or an inbox item.                           *)
(***************************************************************************)

(* A new row with a key nobody has: the other rows, and so everything that *)
(* is said of tasks at hand, stay.                                         *)
LEMMA TaskAdded ==
  ASSUME Inv, NEW t \in TaskIds, Fresh(t), NEW r \in TaskRow, r.status # "none",
         r.key # NoKey => ~KeyTaken(r.key),
         task' = [task EXCEPT ![t] = r],
         UNCHANGED <<now, lastFired, pending, tick, list, dues, woken, faults>>,
         pc' \in [Procs -> Labels], sch' \in [Procs -> Schedules \cup {NoSchedule}],
         cur' \in [Procs -> TaskIds \cup {NoTask}],
         \A p \in Procs : Held(pc[p], sch[p], cur[p])'
  PROVE  Inv'
<1>1. task' \in [TaskIds -> TaskRow] /\ task'[t] = r /\ ~Fresh(t)'
      /\ \A u \in TaskIds \ {t} : task'[u] = task[u] /\ (Fresh(u)' <=> Fresh(u))
  BY InvParts DEF Fresh
<1>2. RowsOK'
  BY <1>1, InvParts DEF RowsOK
<1>3. OneTaskPerKey'
  <2>1. ASSUME NEW u \in TaskIds, NEW v \in TaskIds, task'[u].key # NoKey,
               task'[u].key = task'[v].key
        PROVE  u = v
    <3>1. \A w \in TaskIds : w # t /\ task[w].key # NoKey => ~Fresh(w)
      BY InvParts, BlankRow
    <3>2. \A w \in TaskIds : w # t /\ task[w].key # NoKey => task[w].key # r.key
      BY <3>1 DEF KeyTaken
    <3> QED BY <1>1, <2>1, <3>2, InvParts DEF OneTaskPerKey
  <2> QED BY <2>1 DEF OneTaskPerKey
<1>4. OnePendingWake'
  BY InvParts DEF OnePendingWake
<1>5. SilentTasksNeverWake' /\ \A u \in woken' : ~Fresh(u)'
  BY <1>1, InvParts DEF SilentTasksNeverWake
<1>6. \A u \in TaskIds : Fresh(u)' => task'[u] = Blank
  BY <1>1, InvParts
<1> QED BY <1>1, <1>2, <1>3, <1>4, <1>5, <1>6, InvParts
        DEF Inv, TypeOK, AtHand, RowsOK, Held, Waking, Fresh

LEMMA MintTaskStep ==
  ASSUME Inv, NEW p \in Procs, NEW t \in TaskIds, MintTask(p, t)
  PROVE  Inv'
<1> DEFINE s == sch[p]
           r == NewTask(s, KeyNow(p, s), NoTime, WakeOf(s))
<1>1. Held("mint", s, cur[p])
  BY Locals DEF MintTask, At
<1>2. s \in Schedules /\ tick[p] \in Nat
  BY <1>1, Locals DEF Held
<1>3. KeyNow(p, s) \in (KeyNames \X Nat \X Nat) \cup {NoKey} /\ WakeOf(s) \in Wakes
  BY <1>2, KeyType, PlanWakes DEF KeyNow
<1>4. r \in TaskRow /\ r.status # "none" /\ r.wake = WakeOf(s) /\ r.key = KeyNow(p, s)
  BY <1>2, <1>3 DEF NewTask, TaskRow
<1>5. /\ Fresh(t) /\ ~KeyTaken(r.key) /\ task' = [task EXCEPT ![t] = r]
      /\ UNCHANGED <<now, lastFired, pending, tick, list, dues, woken, faults>>
      /\ Become(p, "minted", s, t)
  BY <1>4 DEF MintTask, NewId, hist
<1>6. task'[t] = r /\ \A u \in TaskIds \ {t} : task'[u] = task[u]
  BY <1>5, InvParts
<1>7. /\ pc' \in [Procs -> Labels] /\ sch' \in [Procs -> Schedules \cup {NoSchedule}]
      /\ cur' \in [Procs -> TaskIds \cup {NoTask}]
  BY <1>2, <1>5, InvParts DEF Become, Labels
<1>8. ASSUME NEW q \in Procs PROVE Held(pc[q], sch[q], cur[q])'
  <2>1. CASE q = p
    <3>1. pc'[q] = "minted" /\ sch'[q] = s /\ cur'[q] = t
      BY <1>5, <2>1, InvParts DEF Become
    <3> QED BY <1>2, <1>4, <1>6, <3>1 DEF Held, Fresh, Labels, Waking, Checking, Inserting
  <2>2. CASE q # p
    <3>1. pc'[q] = pc[q] /\ sch'[q] = sch[q] /\ cur'[q] = cur[q] /\ Held(pc[q], sch[q], cur[q])
      BY <1>5, <2>2, InvParts DEF Become
    <3> QED BY <1>5, <1>6, <3>1 DEF Held, Fresh
  <2> QED BY <2>1, <2>2
<1> QED BY <1>4, <1>5, <1>7, <1>8, TaskAdded

LEMMA CreateTaskStep ==
  ASSUME Inv, NEW t \in TaskIds, NEW due \in DueTimes, NEW wake \in AgentWakes,
         CreateTask(t, due, wake)
  PROVE  Inv'
<1> DEFINE r == NewTask(NoSchedule, NoKey, due, wake)
<1>1. r \in TaskRow /\ r.status # "none" /\ r.key = NoKey
  BY ConstantsAssumption DEF NewTask, TaskRow
<1>2. /\ Fresh(t) /\ task' = [task EXCEPT ![t] = r]
      /\ UNCHANGED <<now, lastFired, pending, pc, tick, list, dues, sch, cur, woken, faults>>
  BY DEF CreateTask, NewId, hist, local
<1>3. \A u \in TaskIds \ {t} : task'[u] = task[u]
  BY <1>2, InvParts
<1>4. \A q \in Procs : Held(pc[q], sch[q], cur[q])'
  BY <1>2, <1>3, InvParts DEF Held, Fresh
<1> QED BY <1>1, <1>2, <1>4, InvParts, TaskAdded

LEMMA CloseTaskStep ==
  ASSUME Inv, NEW t \in TaskIds, CloseTask(t)
  PROVE  Inv'
<1>1. /\ task' \in [TaskIds -> TaskRow] /\ ~Fresh(t)
      /\ \A u \in TaskIds : /\ Fresh(u)' <=> Fresh(u)
                            /\ task'[u].key = task[u].key /\ task'[u].wake = task[u].wake
                            /\ u # t => task'[u] = task[u]
      /\ UNCHANGED <<now, lastFired, pending, pc, tick, list, dues, sch, cur, woken, faults>>
  BY InvParts DEF CloseTask, Fresh, TaskRow, hist, local
<1>2. OneTaskPerKey' /\ OnePendingWake' /\ SilentTasksNeverWake' /\ RowsOK'
  BY <1>1, InvParts DEF OneTaskPerKey, OnePendingWake, SilentTasksNeverWake, RowsOK
<1>3. \A q \in Procs : Held(pc[q], sch[q], cur[q])'
  BY <1>1, InvParts DEF Held
<1>4. \A u \in TaskIds : Fresh(u)' => task'[u] = Blank
  BY <1>1, InvParts
<1>5. \A u \in woken' : ~Fresh(u)'
  BY <1>1, InvParts
<1> QED BY <1>1, <1>2, <1>3, <1>4, <1>5, InvParts
        DEF Inv, TypeOK, AtHand, RowsOK, Held, Waking

LEMMA DeliverStep ==
  ASSUME Inv, NEW t \in TaskIds, Deliver(t)
  PROVE  Inv'
<1>1. /\ pending' \in [TaskIds -> Nat] /\ \A u \in TaskIds : pending'[u] <= pending[u]
      /\ UNCHANGED <<now, lastFired, task, pc, tick, list, dues, sch, cur, woken, faults>>
  BY InvParts DEF Deliver, hist, local
<1>2. OnePendingWake'
  BY <1>1, InvParts DEF OnePendingWake
<1>3. /\ OneTaskPerKey' /\ SilentTasksNeverWake' /\ RowsOK'
      /\ \A u \in TaskIds : Fresh(u)' <=> Fresh(u)
  BY <1>1, InvParts DEF OneTaskPerKey, SilentTasksNeverWake, RowsOK, Fresh
<1>4. \A q \in Procs : Held(pc[q], sch[q], cur[q])'
  BY <1>1, InvParts DEF Held, Fresh
<1> QED BY <1>1, <1>2, <1>3, <1>4, InvParts DEF Inv, TypeOK, AtHand, RowsOK, Held, Waking

LEMMA InsertWakeStep ==
  ASSUME Inv, NEW p \in Procs, InsertWake(p)
  PROVE  Inv'
<1> DEFINE t == cur[p]
<1>1. t \in TaskIds /\ ~Fresh(t) /\ task[t].wake # "none"
  BY Locals DEF InsertWake, Held, Waking
<1>2. /\ pending' = [pending EXCEPT ![t] = 1] /\ woken' = woken \cup {t}
      /\ AfterEnqueue(p)
      /\ UNCHANGED <<now, lastFired, task, tick, list, dues, faults>>
  BY DEF InsertWake
<1>3. PICK label \in {"fire", "wake"} : Become(p, label, NoSchedule, NoTask)
  BY <1>2 DEF AfterEnqueue, Back
<1>4. /\ pc' \in [Procs -> Labels] /\ sch' \in [Procs -> Schedules \cup {NoSchedule}]
      /\ cur' \in [Procs -> TaskIds \cup {NoTask}]
  BY <1>3, InvParts DEF Become, Labels
<1>5. ASSUME NEW q \in Procs PROVE Held(pc[q], sch[q], cur[q])'
  <2>1. CASE q = p
    <3>1. pc'[q] = label /\ sch'[q] = NoSchedule /\ cur'[q] = NoTask
      BY <1>3, <2>1, InvParts DEF Become
    <3> QED BY <3>1 DEF Held, Labels, Waking, Checking, Inserting
  <2>2. CASE q # p
    <3>1. pc'[q] = pc[q] /\ sch'[q] = sch[q] /\ cur'[q] = cur[q] /\ Held(pc[q], sch[q], cur[q])
      BY <1>3, <2>2, InvParts DEF Become
    <3> QED BY <1>2, <3>1 DEF Held, Fresh
  <2> QED BY <2>1, <2>2
<1>6. pending' \in [TaskIds -> Nat] /\ OnePendingWake'
  <2>1. pending \in [TaskIds -> Nat] /\ OnePendingWake
    BY InvParts
  <2>2. \A u \in TaskIds : pending'[u] = 1 \/ pending'[u] = pending[u]
    BY <1>2, <2>1
  <2>3. pending' \in [TaskIds -> Nat]
    BY <1>2, <2>1
  <2> QED BY <2>1, <2>2, <2>3 DEF OnePendingWake
<1>7. OneTaskPerKey' /\ RowsOK' /\ \A u \in TaskIds : Fresh(u)' <=> Fresh(u)
  BY <1>2, InvParts DEF OneTaskPerKey, RowsOK, Fresh
<1>8. woken' \subseteq TaskIds /\ \A u \in woken' : ~Fresh(u)'
  BY <1>1, <1>2, <1>7, InvParts
<1>9. SilentTasksNeverWake'
  BY <1>1, <1>2, InvParts DEF SilentTasksNeverWake
<1> QED BY <1>2, <1>4, <1>5, <1>6, <1>7, <1>8, <1>9, InvParts
        DEF Inv, TypeOK, AtHand, RowsOK, Held, Waking

LEMMA InvStep == Inv /\ [Next]_vars => Inv'
<1> SUFFICES ASSUME Inv, [Next]_vars PROVE Inv'
  OBVIOUS
<1>1. ASSUME NEW p \in Procs, Tick(p) PROVE Inv'
  BY <1>1, TickStep, InsertWakeStep, MintTaskStep DEF Tick
<1>2. ASSUME NEW t \in TaskIds,
             \/ \E due \in DueTimes, wake \in AgentWakes : CreateTask(t, due, wake)
             \/ CloseTask(t) \/ Deliver(t)
      PROVE  Inv'
  BY <1>2, CreateTaskStep, CloseTaskStep, DeliverStep
<1>3. CASE UNCHANGED vars
  <2>1. UNCHANGED <<now, lastFired, task, pending, pc, tick, list, dues, sch, cur, woken, faults>>
    BY <1>3 DEF vars, db, local, hist
  <2> QED BY <2>1, Locals, RowsStay, Stay
<1> QED BY <1>1, <1>2, <1>3, FaultStep DEF Next

THEOREM Invariance == Spec => []Inv
<1> QED BY InvInit, InvStep, PTL DEF Spec

(* Every column and local keeps its type, and a tick that mints or wakes   *)
(* has a schedule or a task at hand, for every plan of schedules.          *)
THEOREM SchedulerTypeCorrect == Spec => []TypeOK
<1>1. Inv => TypeOK
  BY DEF Inv
<1> QED BY <1>1, Invariance, PTL

(* However many schedulers look for a key at once, it is minted once.      *)
THEOREM MintedOncePerKey == Spec => []OneTaskPerKey
<1>1. Inv => OneTaskPerKey
  BY DEF Inv
<1> QED BY <1>1, Invariance, PTL

(* However many schedulers enqueue at once, a task has one pending wake.   *)
THEOREM WokenOnceAtATime == Spec => []OnePendingWake
<1>1. Inv => OnePendingWake
  BY DEF Inv
<1> QED BY <1>1, Invariance, PTL

(* A task that shall not wake never gets into the inbox, on any path: a    *)
(* mint, a due list that is stale, or a retry after a fault.               *)
THEOREM SilentStaysSilent == Spec => []SilentTasksNeverWake
<1>1. Inv => SilentTasksNeverWake
  BY DEF Inv
<1> QED BY <1>1, Invariance, PTL
=============================================================================
