----------------------- MODULE SchedulerCounts_proofs -----------------------
(***************************************************************************)
(* Proofs about Scheduler that count: what faults may cost, for any number *)
(* of schedulers, and how often one scheduler mints.                       *)
(***************************************************************************)
EXTENDS Scheduler_proofs, FiniteSetTheorems

(***************************************************************************)
(* Wakes that are lost.  A step without a fault forgets no task; a fault   *)
(* forgets at most the one its scheduler has at hand.                      *)
(***************************************************************************)
MintLabels == {"minted", "check mint", "insert mint"}

\* What is pending was inserted, and the faults pay for what was forgotten.
WakesInv ==
  /\ Inv
  /\ \A t \in TaskIds : pending[t] > 0 => t \in woken
  /\ IsFiniteSet(Forgotten)
  /\ WakesLostByFaultsOnly

LEMMA NobodyMoves ==
  ASSUME UNCHANGED <<task, pc, cur>>, woken \subseteq woken'
  PROVE  Forgotten' \subseteq Forgotten
BY DEF Forgotten, Minting

(* Scheduler p moves: it keeps the task it mints, or the task is woken, or *)
(* it is not one to wake.                                                  *)
LEMMA OneMoves ==
  ASSUME Inv, NEW p \in Procs, NEW label, NEW s, NEW u, Become(p, label, s, u),
         UNCHANGED task, woken \subseteq woken',
         pc[p] \in MintLabels =>
           \/ (label \in MintLabels /\ u = cur[p])
           \/ cur[p] \in woken'
           \/ task[cur[p]].wake = "none"
  PROVE  Forgotten' \subseteq Forgotten
<1>1. /\ \A q \in Procs \ {p} : pc'[q] = pc[q] /\ cur'[q] = cur[q]
      /\ pc'[p] = label /\ cur'[p] = u
  BY InvParts DEF Become
<1>2. ASSUME NEW t \in TaskIds, Minting(t), t \notin woken', task[t].wake # "none"
      PROVE  Minting(t)'
  <2>1. PICK q \in Procs : cur[q] = t /\ pc[q] \in MintLabels
    BY <1>2 DEF Minting, MintLabels
  <2>2. cur'[q] = t /\ pc'[q] \in MintLabels
    BY <1>1, <1>2, <2>1
  <2> QED BY <2>2 DEF Minting, MintLabels
<1> QED BY <1>2 DEF Forgotten

LEMMA OneForgets ==
  ASSUME Inv, NEW p \in Procs, NEW label, NEW s, NEW u, Become(p, label, s, u),
         UNCHANGED <<task, woken>>
  PROVE  Forgotten' \subseteq Forgotten \cup {cur[p]}
<1>1. \A q \in Procs \ {p} : pc'[q] = pc[q] /\ cur'[q] = cur[q]
  BY InvParts DEF Become
<1>2. ASSUME NEW t \in TaskIds, Minting(t), t # cur[p]
      PROVE  Minting(t)'
  <2>1. PICK q \in Procs : cur[q] = t /\ pc[q] \in MintLabels
    BY <1>2 DEF Minting, MintLabels
  <2>2. cur'[q] = t /\ pc'[q] \in MintLabels
    BY <1>1, <1>2, <2>1
  <2> QED BY <2>2 DEF Minting, MintLabels
<1> QED BY <1>2 DEF Forgotten

LEMMA AfterMintIsMove ==
  ASSUME Inv, NEW p \in Procs, pc[p] = "minted", AfterMint(p)
  PROVE  \E label, s, u :
           /\ Become(p, label, s, u)
           /\ (label \in MintLabels /\ u = cur[p]) \/ task[cur[p]].wake = "none"
<1>1. sch[p] \in Schedules /\ task[cur[p]].wake = WakeOf(sch[p])
  BY Locals DEF Held
<1>2. CASE WakesOnMint(sch[p])
  BY <1>2 DEF AfterMint, MintLabels
<1>3. CASE ~WakesOnMint(sch[p])
  <2>1. WakeOf(sch[p]) = "none"
    BY <1>1, <1>3, PlanWakes DEF WakesOnMint, WakeOf, Wakes
  <2> QED BY <1>1, <1>3, <2>1 DEF AfterMint, Back
<1> QED BY <1>2, <1>3

LEMMA AfterEnqueueIsMove ==
  ASSUME NEW p \in Procs, AfterEnqueue(p)
  PROVE  \E label : Become(p, label, NoSchedule, NoTask)
BY DEF AfterEnqueue, Back

(* What a scheduler does when nothing fails forgets no task.               *)
LEMMA TickForgetsNone ==
  ASSUME WakesInv, NEW p \in Procs, Tick(p)
  PROVE  Forgotten' \subseteq Forgotten
<1> USE DEF WakesInv, db, hist, Back, At, MintLabels, Checking, Inserting
<1>1. CASE StartTick(p)
  BY <1>1, OneMoves DEF StartTick
<1>2. CASE MintRefused(p)
  BY <1>2, OneMoves DEF MintRefused
<1>3. CASE MarkFired(p)
  <2>1. pc[p] = "minted" /\ AfterMint(p) /\ UNCHANGED <<task, woken>>
    BY <1>3 DEF MarkFired
  <2>2. PICK label, s, u :
           /\ Become(p, label, s, u)
           /\ (label \in MintLabels /\ u = cur[p]) \/ task[cur[p]].wake = "none"
    BY <2>1, AfterMintIsMove
  <2> QED BY <2>1, <2>2, OneMoves
<1>4. CASE ListDue(p)
  BY <1>4, OneMoves DEF ListDue
<1>5. CASE EndTick(p)
  BY <1>5, OneMoves DEF EndTick
<1>6. CASE PendingFound(p)
  <2>1. cur[p] \in woken
    BY <1>6, Locals DEF PendingFound, Held, Waking
  <2>2. AfterEnqueue(p) /\ UNCHANGED <<task, woken>>
    BY <1>6 DEF PendingFound
  <2> QED BY <2>1, <2>2, AfterEnqueueIsMove, OneMoves
<1>7. CASE NoPendingFound(p)
  <2>1. /\ UNCHANGED <<task, woken>> /\ pc[p] \in Checking
        /\ IF pc[p] = "check mint" THEN Become(p, "insert mint", NoSchedule, cur[p])
                                   ELSE Become(p, "insert due", NoSchedule, cur[p])
    BY <1>7 DEF NoPendingFound
  <2> QED BY <2>1, OneMoves
<1>8. CASE InsertWake(p)
  <2>1. AfterEnqueue(p) /\ UNCHANGED task /\ woken \subseteq woken' /\ cur[p] \in woken'
    BY <1>8 DEF InsertWake
  <2> QED BY <2>1, AfterEnqueueIsMove, OneMoves
<1>9. ASSUME NEW row \in list[p], SkipSchedule(p, row) \/ AlreadyMinted(p, row)
      PROVE  Forgotten' \subseteq Forgotten
  BY <1>9, NobodyMoves DEF SkipSchedule, AlreadyMinted
<1>10. ASSUME NEW row \in list[p], FireSchedule(p, row)
       PROVE  Forgotten' \subseteq Forgotten
  BY <1>10, OneMoves DEF FireSchedule, Take
<1>11. ASSUME NEW t \in TaskIds, WakeDue(p, t)
       PROVE  Forgotten' \subseteq Forgotten
  <2>1. /\ pc[p] = "wake" /\ UNCHANGED <<task, woken>>
        /\ Become(p, "wake", NoSchedule, NoTask) \/ Become(p, "check due", NoSchedule, t)
    BY <1>11 DEF WakeDue
  <2> QED BY <2>1, OneMoves
<1>12. ASSUME NEW t \in TaskIds, MintTask(p, t)
       PROVE  Forgotten' \subseteq Forgotten
  <2>1. /\ pc[p] = "mint" /\ UNCHANGED woken /\ Become(p, "minted", sch[p], t)
        /\ \A u \in TaskIds \ {t} : task'[u] = task[u]
    BY <1>12, InvParts DEF MintTask
  <2>2. /\ \A q \in Procs \ {p} : pc'[q] = pc[q] /\ cur'[q] = cur[q]
        /\ pc'[p] = "minted" /\ cur'[p] = t
    BY <2>1, InvParts DEF Become
  <2>3. Minting(t)'
    BY <2>2 DEF Minting
  <2>4. ASSUME NEW u \in TaskIds, Minting(u) PROVE Minting(u)'
    <3>1. PICK q \in Procs : cur[q] = u /\ pc[q] \in MintLabels
      BY <2>4 DEF Minting
    <3>2. q # p /\ cur'[q] = u /\ pc'[q] \in MintLabels
      BY <2>1, <2>2, <3>1
    <3> QED BY <3>2 DEF Minting
  <2> QED BY <2>1, <2>3, <2>4 DEF Forgotten
<1> QED
  BY <1>1, <1>2, <1>3, <1>4, <1>5, <1>6, <1>7, <1>8, <1>9, <1>10, <1>11, <1>12 DEF Tick

LEMMA FaultForgetsOne ==
  ASSUME Inv, NEW p \in Procs,
         \/ ListFails(p) \/ WriteFails(p) \/ Crash(p)
         \/ \E row \in list[p] : RowFails(p, row)
  PROVE  /\ Forgotten' \subseteq Forgotten \cup {cur[p]}
         /\ faults' = faults + 1 /\ UNCHANGED <<pending, woken>>
<1>1. faults' = faults + 1 /\ UNCHANGED <<task, pending, woken>>
  BY DEF ListFails, WriteFails, Crash, RowFails, Fault, db
<1>2. (\E label, s, u : Become(p, label, s, u)) \/ UNCHANGED <<pc, sch, cur>>
  <2>1. AfterMint(p) => \E label, s, u : Become(p, label, s, u)
    BY DEF AfterMint, Back
  <2> QED BY <2>1, AfterEnqueueIsMove DEF ListFails, WriteFails, Crash, RowFails, Back
<1>3. CASE UNCHANGED <<pc, sch, cur>>
  BY <1>1, <1>3, NobodyMoves
<1>4. ASSUME NEW label, NEW s, NEW u, Become(p, label, s, u)
      PROVE  Forgotten' \subseteq Forgotten \cup {cur[p]}
  BY <1>1, <1>4, OneForgets
<1> QED BY <1>1, <1>2, <1>3, <1>4

LEMMA AgentForgetsNone ==
  ASSUME Inv, NEW t \in TaskIds,
         \/ \E due \in DueTimes, wake \in AgentWakes : CreateTask(t, due, wake)
         \/ CloseTask(t) \/ Deliver(t)
  PROVE  /\ Forgotten' \subseteq Forgotten /\ UNCHANGED <<woken, faults>>
         /\ \A u \in TaskIds : pending'[u] > 0 => pending[u] > 0
<1>1. UNCHANGED <<woken, faults, pc, cur>>
  BY DEF CreateTask, CloseTask, Deliver, local, hist
<1>2. CASE \E due \in DueTimes, wake \in AgentWakes : CreateTask(t, due, wake)
  <2>1. /\ task'[t].by = NoSchedule /\ UNCHANGED pending
        /\ \A u \in TaskIds \ {t} : task'[u] = task[u]
    BY <1>2, InvParts DEF CreateTask, NewTask
  <2> QED BY <1>1, <2>1 DEF Forgotten, Minting
<1>3. CASE CloseTask(t)
  <2>1. /\ \A u \in TaskIds : task'[u].by = task[u].by /\ task'[u].wake = task[u].wake
        /\ UNCHANGED pending
    BY <1>3, InvParts DEF CloseTask, TaskRow
  <2> QED BY <1>1, <2>1 DEF Forgotten, Minting
<1>4. CASE Deliver(t)
  <2>1. UNCHANGED task /\ \A u \in TaskIds : pending'[u] > 0 => pending[u] > 0
    BY <1>4, InvParts DEF Deliver
  <2> QED BY <1>1, <2>1, NobodyMoves
<1> QED BY <1>2, <1>3, <1>4

LEMMA WokenIfPending ==
  ASSUME WakesInv, NEW p \in Procs, Tick(p)
  PROVE  UNCHANGED faults /\ \A t \in TaskIds : pending'[t] > 0 => t \in woken'
<1>1. CASE InsertWake(p)
  <2>1. cur[p] \in TaskIds
    BY <1>1, Locals DEF WakesInv, InsertWake, Held, Waking
  <2> QED BY <1>1, <2>1, InvParts DEF WakesInv, InsertWake
<1>2. CASE ~InsertWake(p)
  <2>1. UNCHANGED <<pending, woken, faults>>
    BY <1>2 DEF Tick, StartTick, MintRefused, MarkFired, ListDue, EndTick, PendingFound,
                NoPendingFound, SkipSchedule, AlreadyMinted, FireSchedule, MintTask, WakeDue, db, hist
  <2> QED BY <2>1 DEF WakesInv
<1> QED BY <1>1, <1>2

LEMMA WakesInvInit == Init => WakesInv
<1> SUFFICES ASSUME Init PROVE WakesInv
  OBVIOUS
<1>1. Forgotten = {}
  BY DEF Init, Forgotten, Blank
<1> QED BY <1>1, InvInit, FS_EmptySet DEF Init, WakesInv, WakesLostByFaultsOnly

LEMMA WakesInvStep == WakesInv /\ [Next]_vars => WakesInv'
<1> SUFFICES ASSUME WakesInv, [Next]_vars PROVE WakesInv'
  OBVIOUS
<1>1. Inv /\ Inv' /\ faults \in Nat
  BY InvStep, Locals DEF WakesInv
<1>2. ASSUME Forgotten' \subseteq Forgotten, UNCHANGED faults,
             \A t \in TaskIds : pending'[t] > 0 => t \in woken'
      PROVE  WakesInv'
  <2>1. IsFiniteSet(Forgotten') /\ Cardinality(Forgotten') <= Cardinality(Forgotten)
        /\ Cardinality(Forgotten) \in Nat /\ Cardinality(Forgotten') \in Nat
    BY <1>2, FS_Subset, FS_CardinalityType DEF WakesInv
  <2> QED BY <1>1, <1>2, <2>1 DEF WakesInv, WakesLostByFaultsOnly
<1>3. ASSUME NEW p \in Procs,
             \/ ListFails(p) \/ WriteFails(p) \/ Crash(p)
             \/ \E row \in list[p] : RowFails(p, row)
      PROVE  WakesInv'
  <2>1. /\ Forgotten' \subseteq Forgotten \cup {cur[p]}
        /\ faults' = faults + 1 /\ UNCHANGED <<pending, woken>>
    BY <1>1, <1>3, FaultForgetsOne
  <2>2. IsFiniteSet(Forgotten) /\ Cardinality(Forgotten) \in Nat
    BY FS_CardinalityType DEF WakesInv
  <2>3. /\ IsFiniteSet(Forgotten \cup {cur[p]})
        /\ Cardinality(Forgotten \cup {cur[p]}) =
             IF cur[p] \in Forgotten THEN Cardinality(Forgotten) ELSE Cardinality(Forgotten) + 1
    BY <2>2, FS_AddElement
  <2>4. /\ IsFiniteSet(Forgotten') /\ Cardinality(Forgotten') \in Nat
        /\ Cardinality(Forgotten') <= Cardinality(Forgotten \cup {cur[p]})
    BY <2>1, <2>3, FS_Subset, FS_CardinalityType
  <2> QED BY <1>1, <2>1, <2>2, <2>3, <2>4 DEF WakesInv, WakesLostByFaultsOnly
<1>4. ASSUME NEW p \in Procs, Tick(p) PROVE WakesInv'
  BY <1>2, <1>4, TickForgetsNone, WokenIfPending
<1>5. ASSUME NEW t \in TaskIds,
             \/ \E due \in DueTimes, wake \in AgentWakes : CreateTask(t, due, wake)
             \/ CloseTask(t) \/ Deliver(t)
      PROVE  WakesInv'
  BY <1>1, <1>2, <1>5, AgentForgetsNone DEF WakesInv
<1>6. CASE Advance \/ UNCHANGED vars
  <2>1. UNCHANGED <<task, pending, pc, cur, woken, faults>>
    BY <1>6 DEF Advance, vars, db, local, hist
  <2> QED BY <1>2, <2>1, NobodyMoves DEF WakesInv
<1> QED BY <1>3, <1>4, <1>5, <1>6 DEF Next

(* No interleaving of schedulers, deliveries and agents loses the wake of  *)
(* a minted task: each crash and each failed write loses at most one.      *)
THEOREM FaultsAloneLoseWakes == Spec => []WakesLostByFaultsOnly
<1>1. WakesInv => WakesLostByFaultsOnly
  BY DEF WakesInv
<1> QED BY <1>1, WakesInvInit, WakesInvStep, PTL DEF Spec
(***************************************************************************)
(* How often one scheduler mints.  Every task of a schedule is paid for by *)
(* an interval that last_fired_at has passed, by a fault, or is in hand:   *)
(* minted, its schedule not yet marked.  While it is in hand, and when it  *)
(* is about to be minted, the schedule is due by its row as it stands now. *)
(***************************************************************************)
OneScheduler == \A p, q \in Procs : p = q

Fired(s)  == IF lastFired[s] = NoTime THEN 0 ELSE lastFired[s] \div Interval(s) + 1
InHand(s) == \E p \in Procs : pc[p] = "minted" /\ sch[p] = s

Firing == {"mint", "minted"}
Listed == {"idle", "wake", "check due", "insert due"}

\* No time lies ahead of the clock or, in a tick, of the tick.
ClockOK ==
  /\ \A p \in Procs : tick[p] <= now
  /\ \A s \in Schedules : lastFired[s] # NoTime => lastFired[s] <= now
  /\ \A p \in Procs, s \in Schedules :
       pc[p] # "idle" /\ lastFired[s] # NoTime => lastFired[s] <= tick[p]

\* The rows listed are those of the table, also when they are looked at late.
ListOK ==
  \A p \in Procs :
    /\ pc[p] \in Listed => list[p] = {}
    /\ \A row \in list[p] : row[2] = lastFired[row[1]]
    /\ pc[p] \in Firing => /\ ScheduleDue(sch[p], lastFired[sch[p]], tick[p])
                           /\ \A row \in list[p] : row[1] # sch[p]

Paid(s) ==
  /\ IsFiniteSet(CreatedBy(s))
  /\ Cardinality(CreatedBy(s)) <= Fired(s) + faults + (IF InHand(s) THEN 1 ELSE 0)
PaidOK == \A s \in Schedules : Interval(s) > 0 => Paid(s)

RateInv == Inv /\ ClockOK /\ ListOK /\ PaidOK

LEMMA IntervalType ==
  ASSUME NEW s \in Schedules
  PROVE  /\ Interval(s) \in Nat /\ Plan[s].spec \in Specs
         /\ Plan[s].spec.kind = "interval" => Interval(s) = Plan[s].spec.every
         /\ Plan[s].spec.kind # "interval" => Interval(s) = 1 /\ Plan[s].spec.kind = "cron"
<1>1. Plan[s].spec \in Specs
  BY ConstantsAssumption DEF PlanRow
<1> QED BY <1>1 DEF Specs, Interval

LEMMA DivMonotone ==
  ASSUME NEW a \in Nat, NEW b \in Nat, NEW k \in Nat \ {0}, a <= b
  PROVE  a \div k <= b \div k /\ a \div k \in Nat /\ b \div k \in Nat
OBVIOUS

LEMMA DivAdvances ==
  ASSUME NEW a \in Nat, NEW b \in Nat, NEW k \in Nat \ {0}, a + k <= b
  PROVE  a \div k + 1 <= b \div k
<1>1. (a + k) \div k = a \div k + 1
  OBVIOUS
<1> QED BY <1>1, DivMonotone

(* A schedule that is due again has passed an interval since it fired.     *)
LEMMA DueGap ==
  ASSUME NEW s \in Schedules, NEW a \in Nat, NEW t \in Nat, a <= t, ScheduleDue(s, a, t)
  PROVE  a + Interval(s) <= t
BY IntervalType, ConstantsAssumption DEF ScheduleDue

LEMMA FiredType ==
  ASSUME Inv, NEW s \in Schedules, Interval(s) > 0
  PROVE  Fired(s) \in Nat
<1>1. lastFired[s] \in Times
  BY Locals
<1> QED BY <1>1, DivMonotone, IntervalType DEF Fired, Times

(* Marking a schedule as fired pays for one more task when it was due.     *)
LEMMA MarkPays ==
  ASSUME Inv, NEW s \in Schedules, Interval(s) > 0, NEW t \in Nat, lastFired'[s] = t,
         lastFired[s] # NoTime => lastFired[s] <= t,
         ScheduleDue(s, lastFired[s], t)
  PROVE  Fired(s)' \in Nat /\ Fired(s) + 1 <= Fired(s)'
<1>1. lastFired[s] \in Times /\ t # NoTime /\ Interval(s) \in Nat \ {0}
  BY Locals, IntervalType, ConstantsAssumption
<1>2. Fired(s)' = t \div Interval(s) + 1 /\ t \div Interval(s) \in Nat
  BY <1>1, DivMonotone DEF Fired
<1>3. CASE lastFired[s] = NoTime
  BY <1>2, <1>3 DEF Fired
<1>4. CASE lastFired[s] # NoTime
  <2>1. lastFired[s] \in Nat /\ lastFired[s] + Interval(s) <= t
    BY <1>1, <1>4, DueGap DEF Times
  <2>2. lastFired[s] \div Interval(s) + 1 <= t \div Interval(s) /\ lastFired[s] \div Interval(s) \in Nat
    BY <1>1, <2>1, DivAdvances, DivMonotone
  <2> QED BY <1>2, <1>4, <2>2 DEF Fired
<1> QED BY <1>3, <1>4

LEMMA RateInvInit == Init => RateInv
<1> SUFFICES ASSUME Init PROVE RateInv
  OBVIOUS
<1>1. ClockOK /\ ListOK
  BY DEF Init, ClockOK, ListOK, Firing
<1>2. ASSUME NEW s \in Schedules PROVE Paid(s)
  <2>1. CreatedBy(s) = {} /\ Fired(s) = 0 /\ ~InHand(s)
    BY DEF Init, CreatedBy, Fresh, Blank, Fired, InHand
  <2> QED BY <2>1, FS_EmptySet DEF Init, Paid
<1> QED BY <1>1, <1>2, InvInit DEF RateInv, PaidOK

(* Steps that mint nothing and mark nothing.                               *)
LEMMA SameTasks ==
  ASSUME \A t \in TaskIds : (Fresh(t)' <=> Fresh(t)) /\ task'[t].by = task[t].by
  PROVE  \A s \in Schedules : CreatedBy(s)' = CreatedBy(s)
BY DEF CreatedBy

LEMMA StillPaid ==
  ASSUME Inv, PaidOK, NEW s \in Schedules, Interval(s) > 0,
         CreatedBy(s)' = CreatedBy(s), faults' \in {faults, faults + 1},
         \/ Fired(s)' = Fired(s) /\ (InHand(s) => InHand(s)' \/ faults' = faults + 1)
         \/ Fired(s)' \in Nat /\ Fired(s) + 1 <= Fired(s)'
  PROVE  Paid(s)'
<1>1. /\ IsFiniteSet(CreatedBy(s)) /\ Cardinality(CreatedBy(s)) \in Nat
      /\ Cardinality(CreatedBy(s)) <= Fired(s) + faults + (IF InHand(s) THEN 1 ELSE 0)
      /\ Fired(s) \in Nat /\ faults \in Nat /\ faults' \in Nat
  BY FS_CardinalityType, FiredType, Locals DEF PaidOK, Paid
<1>2. Cardinality(CreatedBy(s)) <= Fired(s)' + faults' + (IF InHand(s)' THEN 1 ELSE 0)
  BY <1>1
<1> QED BY <1>1, <1>2 DEF Paid

(* Nobody moves: rows may leave the list, the clock and the faults go up.  *)
LEMMA NobodyFires ==
  ASSUME RateInv, Inv', UNCHANGED <<pc, sch, lastFired, tick>>,
         \A q \in Procs : list'[q] \subseteq list[q],
         now' \in {now, now + 1}, faults' \in {faults, faults + 1},
         \A s \in Schedules : CreatedBy(s)' = CreatedBy(s)
  PROVE  RateInv'
<1> USE DEF RateInv
<1>1. /\ now \in Nat /\ now' \in Nat /\ faults \in Nat /\ faults' \in Nat
      /\ tick \in [Procs -> Nat] /\ lastFired \in [Schedules -> Times]
  BY DEF Inv, TypeOK
<1>2. ClockOK'
  BY <1>1 DEF ClockOK, Times
<1>3. ListOK'
  <2> SUFFICES ASSUME NEW q \in Procs
      PROVE  /\ pc[q] \in Listed => list'[q] = {}
             /\ \A row \in list'[q] : row[2] = lastFired[row[1]]
             /\ pc[q] \in Firing => /\ ScheduleDue(sch[q], lastFired[sch[q]], tick[q])
                                    /\ \A row \in list'[q] : row[1] # sch[q]
    BY DEF ListOK
  <2>1. list'[q] \subseteq list[q]
    OBVIOUS
  <2> QED BY <2>1 DEF ListOK
<1>4. ASSUME NEW s \in Schedules, Interval(s) > 0 PROVE Paid(s)'
  <2>1. Fired(s)' = Fired(s) /\ Fired(s) \in Nat /\ (InHand(s)' <=> InHand(s))
    BY <1>4, FiredType DEF Fired, InHand
  <2> QED BY <1>1, <1>4, <2>1, StillPaid
<1> QED BY <1>2, <1>3, <1>4 DEF PaidOK

(* The scheduler moves inside its tick, with no schedule in hand after it. *)
LEMMA MovesOn ==
  ASSUME RateInv, OneScheduler, Inv',
         NEW p \in Procs, NEW label, NEW v, NEW u, Become(p, label, v, u),
         \/ label \in {"fire", "check mint", "insert mint"}
         \/ label \in {"wake", "check due", "insert due"} /\ list[p] = {},
         pc[p] # "idle",
         UNCHANGED <<now, lastFired, tick, list, task>>,
         (UNCHANGED faults /\ pc[p] # "minted") \/ faults' = faults + 1
  PROVE  RateInv'
<1> USE DEF RateInv
<1>1. \A q \in Procs : q = p /\ pc'[q] = label
  BY InvParts DEF Become, OneScheduler
<1>2. ClockOK'
  BY <1>1 DEF ClockOK
<1>3. ListOK'
  BY <1>1 DEF ListOK, Firing, Listed
<1>4. ASSUME NEW s \in Schedules, Interval(s) > 0 PROVE Paid(s)'
  <2>1. Fired(s)' = Fired(s) /\ Fired(s) \in Nat
    BY <1>4, FiredType DEF Fired
  <2>2. InHand(s) => faults' = faults + 1
    BY <1>1 DEF InHand
  <2>3. CreatedBy(s)' = CreatedBy(s)
    BY DEF CreatedBy, Fresh
  <2> QED BY <1>4, <2>1, <2>2, <2>3, StillPaid
<1> QED BY <1>2, <1>3, <1>4 DEF PaidOK

(* A tick ends or the process dies: it has nothing listed when it starts.  *)
LEMMA StopsTick ==
  ASSUME RateInv, OneScheduler, Inv', NEW p \in Procs, Back(p, "idle"),
         tick' = [tick EXCEPT ![p] = 0], list'[p] = {},
         UNCHANGED <<now, lastFired, task>>,
         (UNCHANGED faults /\ pc[p] # "minted") \/ faults' = faults + 1
  PROVE  RateInv'
<1> USE DEF RateInv
<1>1. \A q \in Procs : q = p /\ pc'[q] = "idle" /\ tick'[q] = 0 /\ now \in Nat
  BY InvParts DEF Back, Become, OneScheduler, RowsOK
<1>2. ClockOK'
  BY <1>1 DEF ClockOK
<1>3. ListOK'
  BY <1>1 DEF ListOK, Firing
<1>4. ASSUME NEW s \in Schedules, Interval(s) > 0 PROVE Paid(s)'
  <2>1. Fired(s)' = Fired(s) /\ Fired(s) \in Nat
    BY <1>4, FiredType DEF Fired
  <2>2. InHand(s) => faults' = faults + 1
    BY <1>1 DEF InHand
  <2>3. CreatedBy(s)' = CreatedBy(s)
    BY DEF CreatedBy, Fresh
  <2> QED BY <1>4, <2>1, <2>2, <2>3, StillPaid
<1> QED BY <1>2, <1>3, <1>4 DEF PaidOK

(* A tick starts, with the schedules as they are now or, when the listing  *)
(* failed, with none.                                                      *)
LEMMA StartsTick ==
  ASSUME RateInv, OneScheduler, Inv', NEW p \in Procs, pc[p] = "idle", Back(p, "fire"),
         tick' = [tick EXCEPT ![p] = now],
         \A row \in list'[p] : row[2] = lastFired[row[1]],
         UNCHANGED <<now, lastFired, task>>, faults' \in {faults, faults + 1}
  PROVE  RateInv'
<1> USE DEF RateInv
<1>1. \A q \in Procs : q = p /\ pc'[q] = "fire" /\ tick'[q] = now /\ now \in Nat
  BY InvParts DEF Back, Become, OneScheduler, RowsOK
<1>2. ClockOK'
  BY <1>1 DEF ClockOK
<1>3. ListOK'
  BY <1>1 DEF ListOK, Firing, Listed
<1>4. ASSUME NEW s \in Schedules, Interval(s) > 0 PROVE Paid(s)'
  <2>1. Fired(s)' = Fired(s) /\ Fired(s) \in Nat
    BY <1>4, FiredType DEF Fired
  <2>2. ~InHand(s)
    BY <1>1 DEF InHand
  <2>3. CreatedBy(s)' = CreatedBy(s)
    BY DEF CreatedBy, Fresh
  <2> QED BY <1>4, <2>1, <2>2, <2>3, StillPaid
<1> QED BY <1>2, <1>3, <1>4 DEF PaidOK

LEMMA LeqSelf == \A n \in Nat : n <= n
OBVIOUS

(* last_fired_at of a due schedule is set to the time of the tick.  The    *)
(* rows of the other schedules stay what the table says.                   *)
LEMMA MarksFired ==
  ASSUME RateInv, OneScheduler, Inv', NEW p \in Procs, NEW s \in Schedules,
         pc[p] # "idle", pc'[p] \in {"fire", "check mint"},
         ScheduleDue(s, lastFired[s], tick[p]),
         lastFired' = [lastFired EXCEPT ![s] = tick[p]],
         list'[p] \subseteq list[p], \A row \in list'[p] : row[1] # s,
         pc[p] = "minted" => sch[p] = s,
         UNCHANGED <<now, tick, task, faults>>
  PROVE  RateInv'
<1> USE DEF RateInv
<1>1. /\ \A q \in Procs : q = p
      /\ tick[p] \in Nat /\ now \in Nat /\ tick[p] <= now
      /\ lastFired \in [Schedules -> Times]
      /\ list[p] \subseteq Schedules \X Times
  BY InvParts DEF OneScheduler, RowsOK, ClockOK
<1>2. ClockOK'
  <2>1. PICK t \in Nat : t = tick[p] /\ t <= now /\ t <= t
    BY <1>1, LeqSelf
  <2>2. \A u \in Schedules : lastFired'[u] = t \/ lastFired'[u] = lastFired[u]
    BY <1>1, <2>1
  <2>3. \A u \in Schedules : lastFired[u] # NoTime => lastFired[u] <= now /\ lastFired[u] <= t
    BY <2>1 DEF ClockOK
  <2>4. \A u \in Schedules : lastFired'[u] # NoTime => lastFired'[u] <= now /\ lastFired'[u] <= t
    BY <2>1, <2>2, <2>3
  <2> QED BY <1>1, <2>1, <2>4 DEF ClockOK
<1>3. ListOK'
  <2>1. \A row \in list'[p] : row[2] = lastFired'[row[1]]
    <3> SUFFICES ASSUME NEW row \in list'[p] PROVE row[2] = lastFired'[row[1]]
      OBVIOUS
    <3>1. row \in list[p] /\ row[1] # s /\ row \in Schedules \X Times
      BY <1>1
    <3>2. row[1] \in Schedules /\ row[2] = lastFired[row[1]]
      BY <3>1 DEF ListOK
    <3> QED BY <1>1, <3>1, <3>2
  <2> QED BY <1>1, <2>1 DEF ListOK, Firing, Listed
<1>4. ASSUME NEW u \in Schedules, Interval(u) > 0 PROVE Paid(u)'
  <2>1. CreatedBy(u)' = CreatedBy(u)
    BY InvParts DEF CreatedBy, Fresh
  <2>2. CASE u = s
    <3>1. Fired(s)' \in Nat /\ Fired(s) + 1 <= Fired(s)' /\ Fired(s) \in Nat
      BY <1>1, <1>4, <2>2, FiredType, MarkPays DEF ClockOK
    <3> QED BY <1>1, <1>4, <2>1, <2>2, <3>1, StillPaid
  <2>3. CASE u # s
    <3>1. Fired(u)' = Fired(u) /\ Fired(u) \in Nat /\ ~InHand(u)
      BY <1>1, <1>4, <2>3, FiredType DEF Fired, InHand
    <3> QED BY <1>1, <1>4, <2>1, <3>1, StillPaid
  <2> QED BY <2>2, <2>3
<1> QED BY <1>2, <1>3, <1>4 DEF PaidOK

(* A due schedule is taken in hand: its row is the only one it has.        *)
LEMMA TakesSchedule ==
  ASSUME RateInv, OneScheduler, Inv', NEW p \in Procs, NEW row \in list[p], FireSchedule(p, row)
  PROVE  RateInv'
<1> USE DEF RateInv
<1>1. /\ pc[p] = "fire" /\ list' = [list EXCEPT ![p] = @ \ {row}]
      /\ UNCHANGED <<now, tick, lastFired, task, faults>>
      /\ ScheduleDue(row[1], row[2], tick[p])
      /\ pc'[p] = "mint" /\ sch'[p] = row[1] /\ \A q \in Procs : q = p
      /\ row \in Schedules \X Times /\ list[p] \subseteq Schedules \X Times
  BY InvParts DEF FireSchedule, Take, At, Due, Become, db, hist, OneScheduler, RowsOK
<1>2. ClockOK'
  BY <1>1 DEF ClockOK
<1>3. ListOK'
  <2>1. row[2] = lastFired[row[1]] /\ list'[p] = list[p] \ {row}
    BY <1>1, InvParts DEF ListOK, RowsOK
  <2>2. \A other \in list'[p] : other[1] # row[1] /\ other[2] = lastFired[other[1]]
    BY <1>1, <2>1 DEF ListOK
  <2> QED BY <1>1, <2>1, <2>2 DEF ListOK, Firing, Listed
<1>4. ASSUME NEW s \in Schedules, Interval(s) > 0 PROVE Paid(s)'
  <2>1. Fired(s)' = Fired(s) /\ Fired(s) \in Nat /\ ~InHand(s)
    BY <1>1, <1>4, FiredType DEF Fired, InHand
  <2>2. CreatedBy(s)' = CreatedBy(s)
    BY <1>1 DEF CreatedBy, Fresh
  <2> QED BY <1>1, <1>4, <2>1, <2>2, StillPaid
<1> QED BY <1>2, <1>3, <1>4 DEF PaidOK

(* A task is minted: it is in hand until its schedule is marked.           *)
LEMMA MintsTask ==
  ASSUME RateInv, OneScheduler, Inv', NEW p \in Procs, NEW t \in TaskIds, MintTask(p, t)
  PROVE  RateInv'
<1> USE DEF RateInv
<1>0. PICK s : s = sch[p]
  OBVIOUS
<1>1. /\ pc[p] = "mint" /\ UNCHANGED <<now, tick, lastFired, list, faults>>
      /\ pc'[p] = "minted" /\ sch'[p] = s /\ \A q \in Procs : q = p
      /\ Fresh(t) /\ ~Fresh(t)' /\ task'[t].by = s
      /\ \A u \in TaskIds \ {t} : task'[u] = task[u]
      /\ s \in Schedules
  BY <1>0, InvParts DEF MintTask, NewId, NewTask, Fresh, At, Become, hist, OneScheduler, Held
<1>2. ClockOK'
  BY <1>1 DEF ClockOK
<1>3. ListOK'
  <2>1. /\ ScheduleDue(s, lastFired[s], tick[p])
        /\ \A row \in list[p] : row[1] # s /\ row[2] = lastFired[row[1]]
    BY <1>0, <1>1 DEF ListOK, Firing
  <2>2. pc'[p] \notin Listed
    BY <1>1 DEF Listed
  <2> QED BY <1>1, <2>1, <2>2 DEF ListOK
<1>4. ASSUME NEW v \in Schedules, Interval(v) > 0 PROVE Paid(v)'
  <2>1. /\ Fired(v)' = Fired(v) /\ Fired(v) \in Nat /\ ~InHand(v)
        /\ faults' = faults /\ faults \in Nat
    BY <1>1, <1>4, FiredType, InvParts DEF Fired, InHand, RowsOK
  <2>2. CASE v # s
    <3>1. CreatedBy(v)' = CreatedBy(v)
      BY <1>1, <2>2 DEF CreatedBy, Fresh
    <3> QED BY <1>4, <2>1, <3>1, StillPaid
  <2>3. CASE v = s
    <3>1. CreatedBy(s)' = CreatedBy(s) \cup {t} /\ t \notin CreatedBy(s) /\ InHand(s)'
      BY <1>1 DEF CreatedBy, Fresh, InHand
    <3>2. /\ IsFiniteSet(CreatedBy(s)) /\ Cardinality(CreatedBy(s)) \in Nat
          /\ Cardinality(CreatedBy(s)) <= Fired(s) + faults
      BY <1>1, <1>4, <2>1, <2>3, FS_CardinalityType DEF PaidOK, Paid
    <3>3. IsFiniteSet(CreatedBy(s)') /\ Cardinality(CreatedBy(s)') = Cardinality(CreatedBy(s)) + 1
      BY <3>1, <3>2, FS_AddElement
    <3>4. Cardinality(CreatedBy(s)') <= Fired(s)' + faults' + 1
      BY <2>1, <2>3, <3>2, <3>3
    <3> QED BY <2>3, <3>1, <3>3, <3>4 DEF Paid
  <2> QED BY <2>2, <2>3
<1> QED BY <1>2, <1>3, <1>4 DEF PaidOK

LEMMA EnqueueRate ==
  ASSUME RateInv, OneScheduler, Inv', NEW p \in Procs,
         pc[p] \in Checking \cup Inserting, AfterEnqueue(p),
         UNCHANGED <<now, lastFired, tick, list, task>>,
         faults' \in {faults, faults + 1}
  PROVE  RateInv'
<1>1. CASE pc[p] \in {"check mint", "insert mint"}
  <2>1. Become(p, "fire", NoSchedule, NoTask)
    BY <1>1 DEF AfterEnqueue, Back
  <2> QED BY <1>1, <2>1, MovesOn
<1>2. CASE pc[p] \in {"check due", "insert due"}
  <2>1. Become(p, "wake", NoSchedule, NoTask) /\ list[p] = {}
    BY <1>2 DEF AfterEnqueue, Back, RateInv, ListOK, Listed
  <2> QED BY <1>2, <2>1, MovesOn
<1> QED BY <1>1, <1>2 DEF Checking, Inserting

LEMMA TickRate ==
  ASSUME RateInv, OneScheduler, Inv', NEW p \in Procs, Tick(p)
  PROVE  RateInv'
<1> USE DEF db, hist, At, Back, Checking, Inserting
<1>0. Inv
  BY DEF RateInv
<1>l. tick \in [Procs -> Nat] /\ list \in [Procs -> SUBSET (Schedules \X Times)]
  BY <1>0, Locals
<1>1. CASE StartTick(p)
  <2>1. list'[p] = {<<s, lastFired[s]>> : s \in Schedules}
    BY <1>l, <1>1 DEF StartTick
  <2>2. \A row \in list'[p] : row[2] = lastFired[row[1]]
    BY <2>1
  <2>3. /\ pc[p] = "idle" /\ Become(p, "fire", NoSchedule, NoTask)
        /\ tick' = [tick EXCEPT ![p] = now] /\ UNCHANGED <<now, lastFired, task, faults>>
    BY <1>1 DEF StartTick
  <2> QED BY <1>0, <2>2, <2>3, StartsTick
<1>2. CASE MintRefused(p)
  <2>1. /\ pc[p] = "mint" /\ Become(p, "fire", NoSchedule, NoTask)
        /\ UNCHANGED <<now, lastFired, tick, list, task, faults>>
    BY <1>2 DEF MintRefused
  <2> QED BY <1>0, <2>1, MovesOn
<1>3. CASE MarkFired(p)
  <2>1. /\ pc[p] = "minted" /\ lastFired' = [lastFired EXCEPT ![sch[p]] = tick[p]]
        /\ UNCHANGED <<now, task, tick, list, faults>> /\ AfterMint(p) /\ sch[p] \in Schedules
    BY <1>0, <1>3, Locals DEF MarkFired, Held
  <2>2. pc'[p] \in {"fire", "check mint"}
    BY <1>0, <2>1, InvParts DEF AfterMint, Become
  <2>3. /\ ScheduleDue(sch[p], lastFired[sch[p]], tick[p])
        /\ \A row \in list[p] : row[1] # sch[p]
    BY <2>1 DEF RateInv, ListOK, Firing
  <2> QED BY <2>1, <2>2, <2>3, MarksFired
<1>4. CASE ListDue(p)
  <2>1. /\ pc[p] = "fire" /\ list[p] = {} /\ Become(p, "wake", NoSchedule, NoTask)
        /\ UNCHANGED <<now, lastFired, tick, list, task, faults>>
    BY <1>4 DEF ListDue
  <2> QED BY <1>0, <2>1, MovesOn
<1>5. CASE EndTick(p)
  <2>1. pc[p] = "wake" /\ list'[p] = {}
    BY <1>5 DEF EndTick, RateInv, ListOK, Listed
  <2> QED BY <1>0, <1>5, <2>1, StopsTick DEF EndTick
<1>6. CASE PendingFound(p) \/ InsertWake(p)
  <2>1. /\ pc[p] \in Checking \cup Inserting /\ AfterEnqueue(p)
        /\ UNCHANGED <<now, lastFired, tick, list, task, faults>>
    BY <1>6 DEF PendingFound, InsertWake
  <2> QED BY <1>0, <2>1, EnqueueRate
<1>7. CASE NoPendingFound(p)
  <2>1. /\ pc[p] \in Checking
        /\ IF pc[p] = "check mint" THEN Become(p, "insert mint", NoSchedule, cur[p])
                                   ELSE Become(p, "insert due", NoSchedule, cur[p])
        /\ UNCHANGED <<now, lastFired, tick, list, task, faults>>
    BY <1>7 DEF NoPendingFound
  <2>2. pc[p] = "check due" => list[p] = {}
    BY DEF RateInv, ListOK, Listed
  <2> QED BY <1>0, <2>1, <2>2, MovesOn
<1>9. ASSUME NEW row \in list[p], SkipSchedule(p, row) PROVE RateInv'
  <2>1. /\ \A q \in Procs : list'[q] \subseteq list[q]
        /\ UNCHANGED <<now, tick, lastFired, task, pc, sch, faults>>
    BY <1>l, <1>9 DEF SkipSchedule, Take
  <2> QED BY <1>0, <2>1, SameTasks, NobodyFires DEF Fresh
<1>10. ASSUME NEW row \in list[p], AlreadyMinted(p, row) PROVE RateInv'
  <2>1. /\ pc[p] = "fire" /\ list'[p] = list[p] \ {row} /\ row \in Schedules \X Times
        /\ list[p] \subseteq Schedules \X Times
        /\ UNCHANGED <<now, tick, task, pc, sch, faults>>
        /\ ScheduleDue(row[1], row[2], tick[p])
        /\ lastFired' = [lastFired EXCEPT ![row[1]] = tick[p]]
    BY <1>l, <1>10 DEF AlreadyMinted, Take, Due
  <2>2. row[2] = lastFired[row[1]]
    BY DEF RateInv, ListOK
  <2>3. ASSUME NEW other \in list'[p], other[1] = row[1] PROVE FALSE
    <3>1. other \in list[p] /\ other # row
      BY <2>1
    <3>2. other[2] = row[2] /\ other \in Schedules \X Times
      BY <2>1, <2>2, <2>3, <3>1 DEF RateInv, ListOK
    <3> QED BY <2>1, <2>3, <3>1, <3>2
  <2> QED BY <1>0, <2>1, <2>2, <2>3, MarksFired
<1>11. ASSUME NEW row \in list[p], FireSchedule(p, row) PROVE RateInv'
  BY <1>11, TakesSchedule
<1>12. ASSUME NEW t \in TaskIds, WakeDue(p, t) PROVE RateInv'
  <2>1. /\ pc[p] = "wake" /\ UNCHANGED <<now, tick, lastFired, list, task, faults>>
        /\ Become(p, "wake", NoSchedule, NoTask) \/ Become(p, "check due", NoSchedule, t)
    BY <1>12 DEF WakeDue
  <2>2. list[p] = {}
    BY <2>1 DEF RateInv, ListOK, Listed
  <2> QED BY <1>0, <2>1, <2>2, MovesOn
<1>13. ASSUME NEW t \in TaskIds, MintTask(p, t) PROVE RateInv'
  BY <1>13, MintsTask
<1> QED
  BY <1>1, <1>2, <1>3, <1>4, <1>5, <1>6, <1>7, <1>9, <1>10, <1>11, <1>12, <1>13 DEF Tick

LEMMA FaultRate ==
  ASSUME RateInv, OneScheduler, Inv', NEW p \in Procs,
         \/ ListFails(p) \/ WriteFails(p) \/ Crash(p)
         \/ \E row \in list[p] : RowFails(p, row)
  PROVE  RateInv'
<1> USE DEF db, Back, At, Checking, Inserting
<1>0. Inv /\ list \in [Procs -> SUBSET (Schedules \X Times)]
  BY Locals DEF RateInv
<1>1. faults' = faults + 1 /\ UNCHANGED <<now, lastFired, task>>
  BY DEF ListFails, WriteFails, Crash, RowFails, Fault
<1>2. CASE ListFails(p)
  <2>1. list'[p] = {} /\ pc[p] = "idle"
    BY <1>0, <1>2 DEF ListFails, RateInv, ListOK, Listed
  <2>2. Become(p, "fire", NoSchedule, NoTask) /\ tick' = [tick EXCEPT ![p] = now]
    BY <1>2 DEF ListFails
  <2> QED BY <1>1, <2>1, <2>2, StartsTick
<1>3. CASE WriteFails(p)
  <2>1. UNCHANGED <<tick, list>>
    BY <1>3 DEF WriteFails
  <2>2. CASE pc[p] \in Checking \cup Inserting /\ AfterEnqueue(p)
    BY <1>1, <2>1, <2>2, EnqueueRate
  <2>3. CASE pc[p] = "minted" /\ AfterMint(p)
    <3>1. \/ Become(p, "check mint", NoSchedule, cur[p])
          \/ Become(p, "fire", NoSchedule, NoTask)
      BY <2>3 DEF AfterMint
    <3> QED BY <1>1, <2>1, <2>3, <3>1, MovesOn
  <2>4. CASE \/ pc[p] = "fire" /\ list[p] = {} /\ Become(p, "wake", NoSchedule, NoTask)
             \/ pc[p] = "mint" /\ Become(p, "fire", NoSchedule, NoTask)
    BY <1>1, <2>1, <2>4, MovesOn
  <2> QED BY <1>3, <2>2, <2>3, <2>4 DEF WriteFails
<1>4. CASE Crash(p)
  <2>1. Become(p, "idle", NoSchedule, NoTask) /\ tick' = [tick EXCEPT ![p] = 0] /\ list'[p] = {}
    BY <1>0, <1>4 DEF Crash
  <2> QED BY <1>1, <2>1, StopsTick
<1>5. ASSUME NEW row \in list[p], RowFails(p, row) PROVE RateInv'
  <2>1. /\ \A q \in Procs : list'[q] \subseteq list[q]
        /\ UNCHANGED <<tick, pc, sch>>
    BY <1>0, <1>5 DEF RowFails, Take
  <2> QED BY <1>0, <1>1, <2>1, SameTasks, NobodyFires, Locals DEF Fresh
<1> QED BY <1>2, <1>3, <1>4, <1>5

LEMMA OutsideRate ==
  ASSUME RateInv, Inv',
         \/ Advance \/ UNCHANGED vars
         \/ \E t \in TaskIds :
              \/ \E due \in DueTimes, wake \in AgentWakes : CreateTask(t, due, wake)
              \/ CloseTask(t) \/ Deliver(t)
  PROVE  RateInv'
<1>1. Inv /\ now \in Nat /\ faults \in Nat
  BY Locals DEF RateInv
<1>2. /\ UNCHANGED <<pc, sch, lastFired, tick, list, faults>>
      /\ now' = now \/ now' = now + 1
  BY DEF Advance, vars, db, local, hist, CreateTask, CloseTask, Deliver
<1>3. \A s \in Schedules : CreatedBy(s)' = CreatedBy(s)
  <2>1. CASE Advance \/ UNCHANGED vars
    BY <2>1, SameTasks DEF Advance, vars, db, Fresh
  <2>2. ASSUME NEW t \in TaskIds, NEW due \in DueTimes, NEW wake \in AgentWakes,
               CreateTask(t, due, wake)
        PROVE  \A s \in Schedules : CreatedBy(s)' = CreatedBy(s)
    <3>1. /\ Fresh(t) /\ task'[t].by = NoSchedule
          /\ \A u \in TaskIds \ {t} : task'[u] = task[u]
      BY <1>1, <2>2, InvParts DEF CreateTask, NewId, NewTask
    <3>2. \A s \in Schedules, u \in TaskIds :
            (~Fresh(u)' /\ task'[u].by = s) <=> (~Fresh(u) /\ task[u].by = s)
      BY <3>1, ConstantsAssumption, InvParts, BlankRow DEF Fresh, Blank
    <3> QED BY <3>2 DEF CreatedBy
  <2>3. ASSUME NEW t \in TaskIds, CloseTask(t)
        PROVE  \A s \in Schedules : CreatedBy(s)' = CreatedBy(s)
    <3>1. \A u \in TaskIds : (Fresh(u)' <=> Fresh(u)) /\ task'[u].by = task[u].by
      BY <1>1, <2>3, InvParts DEF CloseTask, TaskRow, Fresh
    <3> QED BY <3>1, SameTasks
  <2>4. ASSUME NEW t \in TaskIds, Deliver(t)
        PROVE  \A s \in Schedules : CreatedBy(s)' = CreatedBy(s)
    BY <2>4, SameTasks DEF Deliver, Fresh
  <2> QED BY <2>1, <2>2, <2>3, <2>4
<1> QED BY <1>1, <1>2, <1>3, NobodyFires

LEMMA RateInvStep == OneScheduler /\ RateInv /\ [Next]_vars => RateInv'
<1> SUFFICES ASSUME OneScheduler, RateInv, [Next]_vars PROVE RateInv'
  OBVIOUS
<1>1. Inv'
  BY InvStep DEF RateInv
<1> QED BY <1>1, TickRate, FaultRate, OutsideRate DEF Next

LEMMA RateFollows == RateInv => MintRate
<1> SUFFICES ASSUME RateInv, NEW s \in Schedules, Interval(s) > 0
             PROVE  Cardinality(CreatedBy(s)) <= now \div Interval(s) + 1 + faults
  BY DEF MintRate
<1>1. /\ now \in Nat /\ faults \in Nat /\ lastFired[s] \in Times /\ Interval(s) \in Nat \ {0}
      /\ Fired(s) \in Nat /\ Cardinality(CreatedBy(s)) \in Nat
      /\ Cardinality(CreatedBy(s)) <= Fired(s) + faults + (IF InHand(s) THEN 1 ELSE 0)
      /\ now \div Interval(s) \in Nat
  BY Locals, IntervalType, FiredType, DivMonotone, FS_CardinalityType DEF RateInv, PaidOK, Paid
<1>2. CASE ~InHand(s)
  <2>1. Fired(s) <= now \div Interval(s) + 1
    BY <1>1, DivMonotone DEF Fired, Times, RateInv, ClockOK
  <2> QED BY <1>1, <1>2, <2>1
<1>3. CASE InHand(s)
  <2>1. PICK p \in Procs : pc[p] = "minted" /\ sch[p] = s
    BY <1>3 DEF InHand
  <2>2. /\ tick[p] \in Nat /\ tick[p] <= now /\ ScheduleDue(s, lastFired[s], tick[p])
        /\ lastFired[s] # NoTime => lastFired[s] <= tick[p]
    BY <2>1, Locals DEF RateInv, ClockOK, ListOK, Firing
  <2>3. Fired(s) <= now \div Interval(s)
    <3>1. CASE lastFired[s] = NoTime
      BY <1>1, <3>1 DEF Fired
    <3>2. CASE lastFired[s] # NoTime
      <4>1. lastFired[s] \in Nat /\ lastFired[s] + Interval(s) <= now
        BY <1>1, <2>2, <3>2, DueGap DEF Times
      <4> QED BY <1>1, <3>2, <4>1, DivAdvances DEF Fired
    <3> QED BY <3>1, <3>2
  <2> QED BY <1>1, <2>3
<1> QED BY <1>2, <1>3

(* One scheduler mints no faster than the schedule says, however often it  *)
(* ticks and wherever it stops: each fault costs one task at most.         *)
THEOREM OneMintPerInterval == ASSUME OneScheduler PROVE Spec => []MintRate
<1>1. Init => RateInv
  BY RateInvInit
<1>2. RateInv /\ [Next]_vars => RateInv'
  BY RateInvStep
<1> QED BY <1>1, <1>2, RateFollows, PTL DEF Spec

=============================================================================
