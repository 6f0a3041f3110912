----------------------- MODULE AgentLoopPrompt_proofs -----------------------
(***************************************************************************)
(* Proofs about the prompt of AgentLoop: what one goroutine lists, sums up *)
(* and deletes of its session, whatever the others do.                     *)
(***************************************************************************)
EXTENDS AgentLoop_proofs

Rows(w) == msgs[sess[cur[w]]]

(* A goroutine moves alone: no other one, and no session of another one,   *)
(* is touched by its step.                                                 *)
LEMMA OthersStay ==
  ASSUME TypeOK, OneProcessOnly, Ownership, NEW w \in Workers, Step(w) \/ Fail(w),
         NEW x \in Workers, x # w
  PROVE  /\ pc'[x] = pc[x] /\ cur'[x] = cur[x] /\ view'[x] = view[x]
         /\ req'[x] = req[x] /\ todo'[x] = todo[x]
         /\ Busy(x) => Rows(x)' = Rows(x)
         /\ phase' = phase
<1> USE DEF At, tables, db, procs, mine, batch
<1>1. Working(w) \/ Leaving(w) \/ CompleteRun(w)
  BY DEF Step, Working, Leaving
<1>2. CASE Leaving(w)
  <2>1. Leave(w) /\ sess' = sess /\ msgs' = msgs
    BY <1>2, LeavingSteps DEF Leaving, StopAtLimit, StopRepeated, Fail, MarkDelivered
  <2> QED BY <2>1 DEF Leave, Rows, TypeOK, WorkersOK
<1>3. CASE CompleteRun(w)
  BY <1>3 DEF CompleteRun, Goto, Rows, TypeOK, WorkersOK
<1>4. CASE Working(w)
  <2>1. /\ Busy(w) /\ \E l \in Labels : Goto(w, l)
        /\ UNCHANGED <<sess, phase, cur>>
    BY <1>4, WorkingSteps
  <2>2. pc'[x] = pc[x] /\ cur'[x] = cur[x]
    BY <2>1 DEF Goto, TypeOK, WorkersOK
  <2>3. /\ view'[x] = view[x] /\ req'[x] = req[x] /\ todo'[x] = todo[x]
        /\ msgs' = msgs \/ \E m : msgs' = [msgs EXCEPT ![sess[cur[w]]] = m]
    BY <1>4 DEF Working, SaveUserMessage, BuildPrompt, SaveSummary, DropCompacted, DeleteFails,
         AskModel, SaveAnswer, BeginTools, FinishTools, SaveToolCalls, ExecTool, RefuseCall,
         PersistResult, SaveMessage, TypeOK, WorkersOK
  <2>4. ASSUME Busy(x) PROVE Rows(x)' = Rows(x)
    <3>1. sess[cur[x]] # sess[cur[w]] /\ cur[x] \in RunIds /\ sess[cur[x]] \in Sessions
      BY <2>1, <2>4 DEF Ownership, BusyOK, TypeOK, WorkersOK, TablesOK, Busy
    <3> QED BY <2>1, <2>3, <3>1 DEF Rows, TypeOK, TablesOK
  <2> QED BY <2>1, <2>2, <2>3, <2>4
<1> QED BY <1>1, <1>2, <1>3, <1>4

(* What a step does to the label, the session and the list of its own      *)
(* goroutine: l, m and v before, k, n and u after.                         *)
Viewing == {"prompt", "drop", "ready", "model"}

Effect(l, m, v, k, n, u, r, s) ==
  \/ k = "idle" /\ n = m
  \/ l = "accepted" /\ k = "loop" /\ n = Append(m, User(r))
  \/ l = "loop" /\ k = "prompt" /\ n = m /\ u = ListMessages(s)
  \/ /\ l = "prompt" /\ k = "drop" /\ n = Append(m, Summary(r)) /\ u = v
     /\ Len(v) >= CompactTail + 4 /\ Len(v) > KeptTail
  \/ /\ l = "drop" /\ k = "ready"
     /\ n = SubSeq(m, HeadLen(v) + 1, Len(m)) \/ (MayFail /\ n = m)
     /\ u = <<Summary(r)>> \o SubSeq(v, HeadLen(v) + 1, Len(v))
  \/ l \in {"prompt", "ready"} /\ k = "model" /\ n = m /\ u = v
  \/ /\ l \notin {"idle", "accepted"} /\ k \notin Viewing \cup {"idle", "accepted"}
     /\ n = m \/ \E g \in Message :
                  /\ n = Append(m, g)
                  /\ IsRequest(g) => /\ l = "model" /\ k = "called"
                                     /\ g.run = r /\ g.round = rounds[r] + 1

LEMMA StepEffect ==
  ASSUME TypeOK, NEW w \in Workers, Step(w) \/ Fail(w)
  PROVE  /\ cur[w] \in RunIds /\ sess[cur[w]] \in Sessions /\ Busy(w)
         /\ pc'[w] = "idle" \/ cur'[w] = cur[w]
         /\ Effect(pc[w], Rows(w), view[w], pc'[w], msgs'[sess[cur[w]]], view'[w], cur[w], sess[cur[w]])
         /\ sess' = sess /\ \A s \in Sessions : s # sess[cur[w]] => msgs'[s] = msgs[s]
<1> USE DEF At, tables, db, procs, mine, batch
<1>1. Working(w) \/ Leaving(w) \/ CompleteRun(w)
  BY DEF Step, Working, Leaving
<1>2. ASSUME pc[w] # "idle" PROVE cur[w] \in RunIds /\ sess[cur[w]] \in Sessions /\ Busy(w)
  BY <1>2, BusyRun DEF TypeOK, WorkersOK, Busy
<1>3. pc \in [Workers -> Labels] /\ view \in [Workers -> Seq(Message)]
      /\ msgs \in [Sessions -> Seq(Message)] /\ cur \in [Workers -> RunIds \cup {NoRun}]
  BY DEF TypeOK, WorkersOK, TablesOK
<1>4. CASE Leaving(w)
  <2>1. Busy(w) /\ Leave(w) /\ sess' = sess
    BY <1>4, LeavingSteps
  <2>2. pc[w] # "idle"
    BY <2>1 DEF Busy, TypeOK, WorkersOK
  <2>3. msgs' = msgs
    BY <1>4 DEF Leaving, StopAtLimit, StopRepeated, Fail, MarkDelivered
  <2> QED BY <1>2, <1>3, <2>1, <2>2, <2>3 DEF Leave, Effect, Rows
<1>5. CASE CompleteRun(w)
  BY <1>2, <1>3, <1>5 DEF CompleteRun, Goto, Effect, Viewing, Rows
<1>6. CASE Working(w)
  <2> DEFINE s == sess[cur[w]]
  <2>1. Busy(w) /\ pc[w] # "idle" /\ UNCHANGED <<sess, cur>>
    BY <1>6, WorkingSteps DEF Busy, TypeOK, WorkersOK
  <2>2. cur[w] \in RunIds /\ s \in Sessions
    BY <1>2, <2>1
  <2>3. \A m : SaveMessage(s, m) => msgs'[s] = Append(msgs[s], m)
    BY <1>3, <2>2 DEF SaveMessage
  <2>4. \A l : Goto(w, l) => pc'[w] = l
    BY <1>3 DEF Goto
  <2>5. \A x \in Sessions : x # s => msgs'[x] = msgs[x]
    <3>1. msgs' = msgs \/ \E m : msgs' = [msgs EXCEPT ![s] = m]
      BY <1>6 DEF Working, SaveUserMessage, BuildPrompt, SaveSummary, DropCompacted, DeleteFails,
         AskModel, SaveAnswer, BeginTools, FinishTools, SaveToolCalls, ExecTool, RefuseCall,
         PersistResult, SaveMessage
    <3> QED BY <1>3, <2>2, <3>1
  <2> SUFFICES Effect(pc[w], Rows(w), view[w], pc'[w], msgs'[s], view'[w], cur[w], s)
    BY <1>2, <2>1, <2>2, <2>5
  <2> USE DEF Rows, Effect, Viewing
  <2>16. CASE SaveUserMessage(w)
    BY <1>2, <2>1, <2>3, <2>4, <2>16 DEF SaveUserMessage
  <2>6. CASE BuildPrompt(w)
    BY <1>2, <1>3, <2>1, <2>4, <2>6 DEF BuildPrompt
  <2>7. CASE SaveSummary(w)
    BY <1>2, <2>1, <2>3, <2>4, <2>7 DEF SaveSummary
  <2>8. CASE DropCompacted(w)
    <3>1. msgs'[s] = SubSeq(msgs[s], HeadLen(view[w]) + 1, Len(msgs[s]))
      BY <1>3, <2>2, <2>8 DEF DropCompacted
    <3>2. /\ view'[w] = <<Summary(cur[w])>> \o SubSeq(view[w], HeadLen(view[w]) + 1, Len(view[w]))
          /\ pc[w] = "drop" /\ pc'[w] = "ready"
      BY <1>3, <2>4, <2>8 DEF DropCompacted
    <3> QED BY <1>2, <2>1, <3>1, <3>2
  <2>9. CASE DeleteFails(w)
    <3>1. /\ view'[w] = <<Summary(cur[w])>> \o SubSeq(view[w], HeadLen(view[w]) + 1, Len(view[w]))
          /\ pc[w] = "drop" /\ pc'[w] = "ready" /\ MayFail /\ msgs' = msgs
      BY <1>3, <2>4, <2>9 DEF DeleteFails
    <3> QED BY <1>2, <2>1, <3>1
  <2>10. CASE AskModel(w)
    BY <1>2, <2>1, <2>4, <2>10 DEF AskModel
  <2>11. CASE SaveAnswer(w)
    <3>1. Assistant(cur[w], 0) \in Message /\ ~IsRequest(Assistant(cur[w], 0))
      BY <2>2 DEF IsRequest, Assistant, Message, TypeOK, HistoryOK
    <3> QED BY <1>2, <2>1, <2>3, <2>4, <2>11, <3>1 DEF SaveAnswer
  <2>12. CASE BeginTools(w) \/ FinishTools(w)
    BY <1>2, <2>1, <2>4, <2>12 DEF BeginTools, FinishTools
  <2>13. ASSUME NEW n \in 1 .. MaxCalls, SaveToolCalls(w, n)
         PROVE  Effect(pc[w], Rows(w), view[w], pc'[w], msgs'[s], view'[w], cur[w], s)
    <3>1. /\ Assistant(cur[w], n) \in Message /\ Assistant(cur[w], n).run = cur[w]
          /\ Assistant(cur[w], n).round = rounds[cur[w]] + 1
      BY <2>2 DEF Assistant, Message, TypeOK, HistoryOK
    <3> QED BY <2>1, <2>3, <2>4, <2>13, <3>1 DEF SaveToolCalls
  <2>14. ASSUME NEW c \in todo[w], PersistResult(w, c)
         PROVE  Effect(pc[w], Rows(w), view[w], pc'[w], msgs'[s], view'[w], cur[w], s)
    <3>1. Result(req[w], c) \in Message /\ ~IsRequest(Result(req[w], c))
      BY <2>14 DEF PersistResult, TypeOK, WorkersOK, IsRequest, NoRequest, Message, Result
    <3>2. pc'[w] \in {"tool", "stop"} /\ pc[w] = "result" /\ msgs'[s] = Append(msgs[s], Result(req[w], c))
      BY <2>3, <2>4, <2>14 DEF PersistResult
    <3> QED BY <2>1, <3>1, <3>2
  <2>15. CASE \/ \E c \in todo[w], outcome \in {"ok"} \cup ErrKinds : ExecTool(w, c, outcome)
              \/ \E outcome \in {"denied", "unknown"} : RefuseCall(w, outcome)
    <3>1. pc[w] = "tool" /\ pc'[w] = "result" /\ msgs' = msgs
      BY <2>4, <2>15 DEF ExecTool, RefuseCall
    <3> QED BY <1>2, <2>1, <3>1
  <2> QED BY <1>2, <1>6, <2>1, <2>16, <2>6, <2>7, <2>8, <2>9, <2>10, <2>11, <2>12, <2>13, <2>14, <2>15
          DEF Working
<1> QED BY <1>1, <1>4, <1>5, <1>6

(* What any step does to one goroutine: it stays as it is, its session     *)
(* included, or moves, or is outside the loop, or has just entered it.     *)
Stays(x) ==
  /\ pc'[x] = pc[x] /\ cur'[x] = cur[x] /\ view'[x] = view[x]
  /\ req'[x] = req[x] /\ todo'[x] = todo[x]
  /\ Busy(x) /\ Rows(x)' = Rows(x) /\ sess'[cur[x]] = sess[cur[x]] /\ phase' = phase

Moves(x) ==
  /\ Step(x) \/ Fail(x)
  /\ cur[x] \in RunIds /\ sess[cur[x]] \in Sessions
  /\ Effect(pc[x], Rows(x), view[x], pc'[x], msgs'[sess[cur[x]]], view'[x], cur[x], sess[cur[x]])
  /\ cur'[x] = cur[x] /\ sess' = sess /\ phase' = phase

Enters(x) == pc'[x] = "accepted" /\ status[cur'[x]] = "none"

Resumes(x) ==
  /\ phase'[ProcOf[x]] = "recovering" /\ pc'[x] \in {"loop", "tool"}
  /\ \E row \in queue[ProcOf[x]] : ResumeModel(x, row[1], row[2]) \/ ResumeTools(x, row[1], row[2])

LEMMA WorkerSteps ==
  ASSUME TypeOK, OneProcessOnly, Ownership, [Next]_vars, NEW x \in Workers
  PROVE  Stays(x) \/ Moves(x) \/ pc'[x] = "idle" \/ Enters(x) \/ Resumes(x)
<1> USE ConstantsAssumption DEF OneProcessOnly
<1>1. ASSUME NEW w \in Workers, NEW r \in RunIds, NEW s \in Sessions,
             NEW i \in Items \cup {NoItem}, Accept(w, r, s, i)
      PROVE  pc'[x] = "idle" \/ Enters(x) \/ Stays(x)
  <2>1. /\ pc' = [pc EXCEPT ![w] = "accepted"] /\ cur' = [cur EXCEPT ![w] = r]
        /\ sess' = [sess EXCEPT ![r] = s] /\ UNCHANGED <<msgs, view, req, todo, phase>>
        /\ status[r] = "none"
    BY <1>1 DEF Accept, Goto, batch
  <2>2. CASE x = w
    BY <2>1, <2>2 DEF Enters, TypeOK, WorkersOK
  <2>3. CASE x # w /\ Busy(x)
    <3>1. cur[x] \in RunIds /\ cur[x] # r
      BY <2>1, <2>3 DEF Ownership, BusyOK, IsOpen, Incomplete, TypeOK, WorkersOK, Busy
    <3> QED BY <2>1, <2>3, <3>1 DEF Stays, Rows, TypeOK, WorkersOK, TablesOK
  <2>4. CASE x # w /\ ~Busy(x)
    BY <2>1, <2>4 DEF TypeOK, WorkersOK, Busy, At
  <2> QED BY <2>2, <2>3, <2>4
<1>2. ASSUME NEW w \in Workers, Step(w) \/ Fail(w)
      PROVE  Stays(x) \/ Moves(x) \/ pc'[x] = "idle"
  <2>1. sess' = sess
    BY <1>2, StepEffect
  <2>2. CASE x = w
    <3>1. phase' = phase
      BY <1>2 DEF Step, Fail, SaveUserMessage, StopAtLimit, BuildPrompt, SaveSummary, DropCompacted,
         DeleteFails, AskModel, SaveAnswer, CompleteRun, MarkDelivered, BeginTools, FinishTools,
         StopRepeated, SaveToolCalls, ExecTool, RefuseCall, PersistResult, Leave, procs
    <3> QED BY <1>2, <2>1, <2>2, <3>1, StepEffect DEF Moves
  <2>3. CASE x # w /\ Busy(x)
    BY <1>2, <2>1, <2>3, OthersStay DEF Stays
  <2>4. CASE x # w /\ ~Busy(x)
    BY <1>2, <2>4, OthersStay DEF TypeOK, WorkersOK, Busy, At
  <2> QED BY <2>2, <2>3, <2>4
<1>3. ASSUME NEW w \in Workers, Recover(w)
      PROVE  pc'[x] = "idle" \/ Resumes(x)
  <2>1. PICK row \in queue[ProcOf[w]] : \/ CloseInterrupted(w, row[1], row[2])
                                        \/ ResumeModel(w, row[1], row[2])
                                        \/ ResumeTools(w, row[1], row[2])
    BY <1>3 DEF Recover
  <2>2. /\ phase' = phase /\ phase[ProcOf[x]] = "recovering" /\ pc[x] = "idle"
    BY <2>1 DEF CloseInterrupted, ResumeModel, ResumeTools, Resume, AllIdle, At
  <2>3. CASE x = w /\ (ResumeModel(w, row[1], row[2]) \/ ResumeTools(w, row[1], row[2]))
    <3>1. pc'[x] \in {"loop", "tool"}
      BY <2>3 DEF ResumeModel, ResumeTools, Goto, TypeOK, WorkersOK
    <3> QED BY <2>2, <2>3, <3>1 DEF Resumes
  <2>4. CASE x # w \/ CloseInterrupted(w, row[1], row[2])
    <3>1. pc' = pc \/ \E l \in {"loop", "tool"} : pc' = [pc EXCEPT ![w] = l]
      BY <2>1 DEF CloseInterrupted, ResumeModel, ResumeTools, Goto, local
    <3>2. CloseInterrupted(w, row[1], row[2]) => pc' = pc
      BY DEF CloseInterrupted, local
    <3> QED BY <2>2, <2>4, <3>1, <3>2 DEF TypeOK, WorkersOK
  <2> QED BY <2>1, <2>3, <2>4
<1>4. ASSUME NEW p \in Procs, Boot(p) \/ Serve(p) \/ Exit(p) \/ Crash(p)
      PROVE  pc'[x] = "idle"
  <2>1. phase[p] = "down" => pc[x] = "idle"
    BY DEF Ownership, BusyOK, Busy, TypeOK, WorkersOK, At
  <2>2. CASE Crash(p)
    BY <2>2 DEF Crash
  <2>3. CASE Boot(p) \/ Serve(p) \/ Exit(p)
    BY <2>1, <2>3 DEF Boot, Serve, Exit, AllIdle, At, local
  <2> QED BY <1>4, <2>2, <2>3
<1>5. CASE UNCHANGED vars
  <2>1. UNCHANGED <<pc, cur, view, req, todo, msgs, sess, phase>>
    BY <1>5 DEF vars, db, tables, procs, local, mine, batch
  <2> QED BY <2>1 DEF Stays, Rows, Busy, TypeOK, WorkersOK, At
<1> QED BY <1>1, <1>2, <1>3, <1>4, <1>5 DEF Next

(***************************************************************************)
(* Lists.                                                                  *)
(***************************************************************************)
LEMMA TailOf ==
  ASSUME NEW S, NEW v \in Seq(S), NEW h \in Nat, h <= Len(v)
  PROVE  /\ SubSeq(v, h + 1, Len(v)) \in Seq(S)
         /\ Len(SubSeq(v, h + 1, Len(v))) = Len(v) - h
         /\ \A j \in 1 .. Len(v) - h : SubSeq(v, h + 1, Len(v))[j] = v[j + h]
<1>1. Len(v) \in Nat /\ \A i \in h + 1 .. Len(v) : v[i] \in S
  OBVIOUS
<1> DEFINE u == SubSeq(v, h + 1, Len(v))
<1>2. /\ u \in Seq(S) /\ Len(u) = IF h + 1 <= Len(v) THEN Len(v) - (h + 1) + 1 ELSE 0
      /\ \A i \in 1 .. Len(v) - (h + 1) + 1 : u[i] = v[(h + 1) + i - 1]
  BY <1>1, SubSeqProperties
<1> HIDE DEF u
<1>3. Len(u) = Len(v) - h /\ \A j \in 1 .. Len(v) - h : u[j] = v[j + h]
  BY <1>1, <1>2
<1> QED BY <1>2, <1>3 DEF u

LEMMA Listed ==
  ASSUME TypeOK, NEW s \in Sessions
  PROVE  /\ msgs[s] \in Seq(Message) /\ Len(msgs[s]) \in Nat
         /\ Len(ListMessages(s)) <= Len(msgs[s])
         /\ Len(msgs[s]) <= ListLimit => ListMessages(s) = msgs[s]
<1>1. msgs[s] \in Seq(Message) /\ Len(msgs[s]) \in Nat
  BY DEF TypeOK, TablesOK
<1>2. CASE Len(msgs[s]) <= ListLimit
  BY <1>1, <1>2, SubSeqFull DEF ListMessages
<1>3. CASE ~(Len(msgs[s]) <= ListLimit)
  <2>1. ListLimit \in Nat /\ ListMessages(s) = SubSeq(msgs[s], 1, ListLimit) /\ ListLimit <= Len(msgs[s])
    BY <1>1, <1>3, ConstantsAssumption DEF ListMessages
  <2>2. \A i \in 1 .. ListLimit : msgs[s][i] \in Message
    BY <1>1, <2>1
  <2>3. Len(SubSeq(msgs[s], 1, ListLimit)) = IF 1 <= ListLimit THEN ListLimit - 1 + 1 ELSE 0
    BY <2>1, <2>2, SubSeqProperties
  <2> QED BY <1>1, <1>3, <2>1, <2>3
<1> QED BY <1>1, <1>2, <1>3

(***************************************************************************)
(* The question.  Appending keeps it in the session; the delete of a       *)
(* compaction takes away the head of the list, and leaves the summary,     *)
(* which is the last row, because the list is shorter than the session.    *)
(***************************************************************************)
HasQuestion(v, r) == \E k \in DOMAIN v : v[k] = User(r) \/ v[k].kind = "summary"

Asked(l, m, v, r, ph) ==
  /\ l = "prompt" => Len(v) <= Len(m)
  /\ l = "drop" => Len(v) < Len(m) /\ Len(v) > KeptTail /\ m[Len(m)].kind = "summary"
  /\ ph = "up" /\ l \notin {"idle", "accepted"} => HasQuestion(m, r)
  /\ ph = "up" /\ l \in Viewing => HasQuestion(v, r) \/ Len(m) > ListLimit

QuestionOK ==
  \A w \in Workers : Asked(pc[w], Rows(w), view[w], cur[w], phase[ProcOf[w]])

LEMMA HistoryMessages ==
  ASSUME TypeOK, NEW r \in RunIds
  PROVE  User(r) \in Message /\ Summary(r) \in Message /\ Summary(r).kind = "summary"
BY DEF User, Summary, Message, TypeOK, HistoryOK

LEMMA AppendKeepsQuestion ==
  ASSUME NEW m \in Seq(Message), NEW g \in Message, NEW r, HasQuestion(m, r)
  PROVE  HasQuestion(Append(m, g), r)
BY AppendProperties DEF HasQuestion

\* The cut of a list m by the head of a shorter list v.
LEMMA CutBy ==
  ASSUME NEW m \in Seq(Message), NEW v \in Seq(Message), Len(v) > KeptTail, Len(v) < Len(m)
  PROVE  /\ HeadLen(v) \in Nat /\ HeadLen(v) <= Len(v) /\ KeptTail \in Nat
         /\ Len(m) - HeadLen(v) \in Nat \ {0}
<1>1. KeptTail \in Nat /\ KeptTail >= 2 /\ Len(v) \in Nat /\ Len(m) \in Nat
  BY ConstantsAssumption DEF KeptTail
<1> QED BY <1>1 DEF HeadLen

LEMMA MoveKeepsQuestion ==
  ASSUME TypeOK, NEW s \in Sessions, NEW r \in RunIds, NEW l, NEW k,
         NEW v \in Seq(Message), NEW n \in Seq(Message), NEW u \in Seq(Message),
         NEW ph,
         Asked(l, msgs[s], v, r, ph), Effect(l, msgs[s], v, k, n, u, r, s)
  PROVE  Asked(k, n, u, r, ph)
<1> DEFINE m == msgs[s]
<1>1. /\ m \in Seq(Message) /\ Len(m) \in Nat /\ Len(ListMessages(s)) <= Len(m)
      /\ Len(m) <= ListLimit => ListMessages(s) = m
      /\ ListLimit \in Nat /\ Len(v) \in Nat
  BY Listed, ConstantsAssumption
<1>2. User(r) \in Message /\ Summary(r) \in Message /\ Summary(r).kind = "summary"
  BY HistoryMessages
<1>3. \A g \in Message : /\ Append(m, g) \in Seq(Message) /\ Len(Append(m, g)) = Len(m) + 1
                         /\ Append(m, g)[Len(m) + 1] = g
                         /\ HasQuestion(m, r) => HasQuestion(Append(m, g), r)
  BY <1>1, AppendProperties, AppendKeepsQuestion
<1>4. ASSUME NEW g \in Message, g = User(r) \/ g.kind = "summary"
      PROVE  HasQuestion(Append(m, g), r)
  <2>1. Len(m) + 1 \in DOMAIN Append(m, g) /\ Append(m, g)[Len(m) + 1] = g
    BY <1>1, <1>3
  <2> QED BY <1>4, <2>1 DEF HasQuestion
<1> HIDE DEF m
<1>5. CASE k = "idle" /\ n = m
  BY <1>5 DEF Asked, Viewing
<1>6. CASE l = "accepted" /\ k = "loop" /\ n = Append(m, User(r))
  BY <1>2, <1>4, <1>6 DEF Asked, Viewing
<1>7. CASE l = "loop" /\ k = "prompt" /\ n = m /\ u = ListMessages(s)
  <2>1. ph = "up" => HasQuestion(m, r)
    BY <1>7 DEF Asked, m
  <2> QED BY <1>1, <1>7, <2>1 DEF Asked
<1>8. CASE /\ l = "prompt" /\ k = "drop" /\ n = Append(m, Summary(r)) /\ u = v
           /\ Len(v) >= CompactTail + 4 /\ Len(v) > KeptTail
  <2>1. Len(v) <= Len(m) /\ (ph = "up" => HasQuestion(v, r) \/ Len(m) > ListLimit)
    BY <1>8 DEF Asked, Viewing, m
  <2>2. /\ Len(n) = Len(m) + 1 /\ n[Len(n)].kind = "summary" /\ HasQuestion(n, r)
    BY <1>1, <1>2, <1>3, <1>4, <1>8
  <2> QED BY <1>1, <1>8, <2>1, <2>2 DEF Asked
<1>9. CASE /\ l = "drop" /\ k = "ready"
           /\ n = SubSeq(m, HeadLen(v) + 1, Len(m)) \/ (MayFail /\ n = m)
           /\ u = <<Summary(r)>> \o SubSeq(v, HeadLen(v) + 1, Len(v))
  <2>1. /\ Len(v) < Len(m) /\ Len(v) > KeptTail /\ m[Len(m)].kind = "summary"
        /\ ph = "up" => HasQuestion(m, r)
    BY <1>9 DEF Asked, m
  <2> DEFINE h == HeadLen(v)
  <2>2. h \in Nat /\ h <= Len(v) /\ Len(m) - h \in Nat \ {0}
    BY <1>1, <2>1, CutBy
  <2> HIDE DEF h
  <2>3. ASSUME n = SubSeq(m, h + 1, Len(m)) PROVE HasQuestion(n, r)
    <3>1. /\ Len(n) = Len(m) - h /\ \A j \in 1 .. Len(m) - h : n[j] = m[j + h]
      BY <1>1, <2>1, <2>2, <2>3, TailOf
    <3>2. Len(m) - h \in DOMAIN n /\ n[Len(m) - h] = m[Len(m)]
      BY <1>1, <2>2, <3>1
    <3> QED BY <2>1, <3>2 DEF HasQuestion
  <2>4. HasQuestion(u, r)
    <3>1. SubSeq(v, h + 1, Len(v)) \in Seq(Message)
      BY <2>2, TailOf
    <3>2. 1 \in DOMAIN u /\ u[1] = Summary(r)
      BY <1>2, <1>9, <3>1 DEF h
    <3> QED BY <1>2, <3>2 DEF HasQuestion
  <2> QED BY <1>9, <2>1, <2>3, <2>4 DEF Asked, h
<1>10. CASE l \in {"prompt", "ready"} /\ k = "model" /\ n = m /\ u = v
  BY <1>10 DEF Asked, Viewing, m
<1>11. CASE /\ l \notin {"idle", "accepted"} /\ k \notin Viewing \cup {"idle", "accepted"}
            /\ n = m \/ \E g \in Message : n = Append(m, g)
  <2>1. ph = "up" => HasQuestion(n, r)
    BY <1>3, <1>11 DEF Asked, m
  <2> QED BY <1>11, <2>1 DEF Asked, Viewing
<1> QED BY <1>5, <1>6, <1>7, <1>8, <1>9, <1>10, <1>11 DEF Effect, m

\* The parts of a move, as values.
MoveOf(x, s, r, v, n, u) ==
  /\ s = sess[cur[x]] /\ r = cur[x] /\ v = view[x] /\ msgs[s] = Rows(x)
  /\ n = Rows(x)' /\ u = view'[x] /\ cur'[x] = r
  /\ Effect(pc[x], msgs[s], v, pc'[x], n, u, r, s)

LEMMA MoveParts ==
  ASSUME TypeOK, TypeOK', NEW x \in Workers, Moves(x)
  PROVE  \E s \in Sessions, r \in RunIds, v, n, u \in Seq(Message) : MoveOf(x, s, r, v, n, u)
<1>1. /\ view[x] \in Seq(Message) /\ view'[x] \in Seq(Message)
      /\ msgs'[sess[cur[x]]] \in Seq(Message)
  BY DEF Moves, TypeOK, TablesOK, WorkersOK
<1> QED BY <1>1 DEF Moves, MoveOf, Rows

LEMMA QuestionStep ==
  ASSUME TypeOK, TypeOK', OneProcessOnly, Ownership, QuestionOK, [Next]_vars
  PROVE  QuestionOK'
<1> SUFFICES ASSUME NEW x \in Workers
             PROVE  Asked(pc'[x], Rows(x)', view'[x], cur'[x], phase'[ProcOf[x]])
  BY DEF QuestionOK, Asked, HasQuestion, User, Viewing, KeptTail
<1>1. Asked(pc[x], Rows(x), view[x], cur[x], phase[ProcOf[x]])
  BY DEF QuestionOK
<1>2. CASE Stays(x)
  BY <1>1, <1>2 DEF Stays
<1>3. CASE Moves(x)
  <2>1. PICK s \in Sessions, r \in RunIds, v, n, u \in Seq(Message) :
          MoveOf(x, s, r, v, n, u) /\ phase' = phase
    BY <1>3, MoveParts DEF Moves
  <2>2. Asked(pc[x], msgs[s], v, r, phase[ProcOf[x]])
    BY <1>1, <2>1 DEF MoveOf
  <2>3. Asked(pc'[x], n, u, r, phase[ProcOf[x]])
    BY <2>1, <2>2, MoveKeepsQuestion DEF MoveOf
  <2> QED BY <2>1, <2>3 DEF MoveOf
<1>4. CASE pc'[x] = "idle" \/ Enters(x)
  BY <1>4 DEF Asked, Viewing, Enters
<1>5. CASE Resumes(x)
  BY <1>5 DEF Asked, Viewing, Resumes
<1> QED BY <1>2, <1>3, <1>4, <1>5, WorkerSteps

(***************************************************************************)
(* Several processes.  A second process may recover a run that a goroutine *)
(* of the first is working on, and both write to its session.  Without     *)
(* compaction a session only grows, so that whoever writes to it, the      *)
(* question stays.                                                         *)
(***************************************************************************)
KnownToWorkers ==
  /\ \A w \in Workers : Busy(w) => status[cur[w]] # "none"
  /\ \A p \in Procs : \A row \in queue[p] : status[row[1]] # "none"

NeverDrops == \A w \in Workers : pc[w] # "drop"

SharedOK == KnownToWorkers /\ NeverDrops /\ QuestionOK

LEMMA PeersStay ==
  ASSUME TypeOK, NEW w \in Workers, Step(w) \/ Fail(w), NEW x \in Workers, x # w
  PROVE  pc'[x] = pc[x] /\ cur'[x] = cur[x] /\ view'[x] = view[x]
<1> USE DEF tables, db, procs, mine, batch, TypeOK, WorkersOK
<1>1. Working(w) \/ Leaving(w) \/ CompleteRun(w)
  BY DEF Step, Working, Leaving
<1>2. CASE Leaving(w)
  BY <1>2, LeavingSteps DEF Leave
<1>3. CASE CompleteRun(w)
  BY <1>3 DEF CompleteRun, Goto
<1>4. CASE Working(w)
  <2>1. (\E l \in Labels : Goto(w, l)) /\ cur' = cur
    BY <1>4, WorkingSteps
  <2>2. view'[x] = view[x]
    BY <1>4 DEF Working, SaveUserMessage, BuildPrompt, SaveSummary, DropCompacted, DeleteFails,
       AskModel, SaveAnswer, BeginTools, FinishTools, SaveToolCalls, ExecTool, RefuseCall,
       PersistResult
  <2> QED BY <2>1, <2>2 DEF Goto
<1> QED BY <1>1, <1>2, <1>3, <1>4

LEMMA ProcessesStay ==
  ASSUME NEW w \in Workers, Step(w) \/ Fail(w)
  PROVE  phase' = phase /\ queue' = queue
BY DEF Step, Fail, SaveUserMessage, StopAtLimit, BuildPrompt, SaveSummary, DropCompacted,
   DeleteFails, AskModel, SaveAnswer, CompleteRun, MarkDelivered, BeginTools, FinishTools,
   StopRepeated, SaveToolCalls, ExecTool, RefuseCall, PersistResult, Leave, procs

(* What somebody else appends takes no question away. *)
LEMMA AppendKeepsAsked ==
  ASSUME NEW m \in Seq(Message), NEW g \in Message, NEW l, l # "drop", NEW v \in Seq(Message), NEW r,
         NEW ph, Asked(l, m, v, r, ph), ListLimit \in Nat
  PROVE  Asked(l, Append(m, g), v, r, ph)
<1>1. Len(Append(m, g)) = Len(m) + 1 /\ Len(m) \in Nat /\ Len(v) \in Nat
  BY AppendProperties
<1>2. HasQuestion(m, r) => HasQuestion(Append(m, g), r)
  BY AppendKeepsQuestion
<1>3. Len(m) > ListLimit => Len(Append(m, g)) > ListLimit
  BY <1>1
<1>4. Len(v) <= Len(m) => Len(v) <= Len(Append(m, g))
  BY <1>1
<1> HIDE DEF HasQuestion
<1> QED BY <1>2, <1>3, <1>4 DEF Asked

LEMMA OnlyGrows ==
  ASSUME TypeOK, NEW r \in RunIds, NEW s, NEW l, l # "drop", NEW k,
         NEW m, NEW v, NEW n, NEW u, Effect(l, m, v, k, n, u, r, s)
  PROVE  n = m \/ \E g \in Message : n = Append(m, g)
BY HistoryMessages DEF Effect

LEMMA StatusStaysKnown ==
  ASSUME TypeOK, [Next]_vars, NEW q \in RunIds, status[q] # "none"
  PROVE  status'[q] # "none"
<1>1. status \in [RunIds -> {"none"} \cup Incomplete \cup Terminal]
      /\ "none" \notin Incomplete \cup Terminal
  BY DEF TypeOK, TablesOK, Incomplete, Terminal
<1>2. ASSUME NEW r, NEW st \in Incomplete \cup Terminal, NEW it, SaveRun(r, st, it)
      PROVE  status'[q] # "none"
  BY <1>1, <1>2 DEF SaveRun
<1>3. ASSUME NEW w \in Workers, Step(w) \/ Fail(w) PROVE status'[q] # "none"
  <2>1. Working(w) \/ Leaving(w) \/ CompleteRun(w)
    BY <1>3 DEF Step, Working, Leaving
  <2>2. \/ UNCHANGED status
        \/ \E st \in Incomplete \cup Terminal : \E it : SaveRun(cur[w], st, it)
    BY <2>1, WorkingSteps, LeavingSteps DEF CompleteRun, Incomplete, Terminal
  <2> QED BY <1>2, <2>2
<1>4. ASSUME NEW w \in Workers, Recover(w) PROVE status'[q] # "none"
  <2>1. \E r, it : \E st \in Incomplete \cup Terminal : SaveRun(r, st, it)
    BY <1>4 DEF Recover, CloseInterrupted, ResumeModel, ResumeTools, Incomplete, Terminal
  <2> QED BY <1>2, <2>1
<1>5. ASSUME NEW w \in Workers, NEW r \in RunIds, NEW s \in Sessions,
             NEW i \in Items \cup {NoItem}, Accept(w, r, s, i)
      PROVE  status'[q] # "none"
  BY <1>2, <1>5 DEF Accept, Incomplete
<1>6. ASSUME NEW p \in Procs, Boot(p) \/ Serve(p) \/ Exit(p) \/ Crash(p) PROVE status'[q] # "none"
  BY <1>6 DEF Boot, Serve, Exit, Crash, db, tables
<1>7. CASE UNCHANGED vars
  BY <1>7 DEF vars, db, tables
<1> QED BY <1>3, <1>4, <1>5, <1>6, <1>7 DEF Next

LEMMA SharedWork ==
  ASSUME TypeOK, TypeOK', ~Compacting, SharedOK, NEW w \in Workers, Step(w) \/ Fail(w)
  PROVE  SharedOK'
<1> USE DEF SharedOK
<1>1. /\ cur[w] \in RunIds /\ sess[cur[w]] \in Sessions /\ Busy(w)
      /\ pc'[w] = "idle" \/ cur'[w] = cur[w]
      /\ Effect(pc[w], Rows(w), view[w], pc'[w], msgs'[sess[cur[w]]], view'[w], cur[w], sess[cur[w]])
      /\ sess' = sess /\ \A s \in Sessions : s # sess[cur[w]] => msgs'[s] = msgs[s]
  BY StepEffect
<1>2. phase' = phase /\ queue' = queue /\ [Next]_vars
  BY ProcessesStay DEF Next
<1>3. \A x \in Workers : x # w => pc'[x] = pc[x] /\ cur'[x] = cur[x] /\ view'[x] = view[x]
  BY PeersStay
<1>4. KnownToWorkers'
  <2>1. \A x \in Workers : Busy(x)' => Busy(x) /\ cur'[x] = cur[x]
    <3>1. pc'[w] = "idle" => ~Busy(w)'
      BY DEF Busy, TypeOK, WorkersOK, At
    <3> QED BY <1>1, <1>3, <3>1 DEF Busy
  <2>2. \A x \in Workers : Busy(x) => cur[x] \in RunIds
    BY DEF Busy, TypeOK, WorkersOK
  <2>3. \A p \in Procs : \A row \in queue[p] : row[1] \in RunIds
    BY DEF TypeOK, ProcsOK
  <2> QED BY <1>2, <2>1, <2>2, <2>3, StatusStaysKnown DEF KnownToWorkers
<1>5. NeverDrops'
  <2>1. pc'[w] # "drop"
    <3>1. ~SaveSummary(w)
      BY DEF SaveSummary
    <3>2. \A l : Goto(w, l) => pc'[w] = l
      BY DEF Goto, TypeOK, WorkersOK
    <3>3. Leave(w) => pc'[w] = "idle"
      BY DEF Leave, TypeOK, WorkersOK
    <3> QED BY <3>1, <3>2, <3>3 DEF Step, Fail, SaveUserMessage, StopAtLimit, BuildPrompt,
      DropCompacted, DeleteFails, AskModel, SaveAnswer, CompleteRun, MarkDelivered, BeginTools,
      FinishTools, StopRepeated, SaveToolCalls, ExecTool, RefuseCall, PersistResult
  <2> QED BY <1>3, <2>1 DEF NeverDrops
<1>6. ASSUME NEW x \in Workers PROVE Asked(pc'[x], Rows(x)', view'[x], cur'[x], phase'[ProcOf[x]])
  <2>1. CASE pc'[x] = "idle"
    BY <2>1 DEF Asked, Viewing
  <2>2. CASE x = w /\ pc'[x] # "idle"
    <3>1. Moves(x)
      BY <1>1, <1>2, <2>2 DEF Moves
    <3>2. PICK s \in Sessions, r \in RunIds, v, n, u \in Seq(Message) : MoveOf(x, s, r, v, n, u)
      BY <3>1, MoveParts
    <3> DEFINE l == pc[x]
               k == pc'[x]
               ph == phase[ProcOf[x]]
    <3>3. Asked(l, msgs[s], v, r, ph) /\ Effect(l, msgs[s], v, k, n, u, r, s)
      BY <3>2 DEF MoveOf, QuestionOK
    <3> HIDE DEF l, k, ph
    <3>4. Asked(k, n, u, r, ph)
      BY <3>3, MoveKeepsQuestion
    <3> QED BY <1>2, <3>2, <3>4 DEF MoveOf, k, ph
  <2>3. CASE x # w /\ pc'[x] # "idle"
    <3>1. pc'[x] = pc[x] /\ cur'[x] = cur[x] /\ view'[x] = view[x] /\ cur[x] \in RunIds
          /\ sess[cur[x]] \in Sessions
      BY <1>3, <2>3, BusyRun
    <3>2. msgs'[sess[cur[x]]] = Rows(x) \/ \E g \in Message : msgs'[sess[cur[x]]] = Append(Rows(x), g)
      <4>1. CASE sess[cur[x]] # sess[cur[w]]
        BY <1>1, <3>1, <4>1 DEF Rows
      <4>2. CASE sess[cur[x]] = sess[cur[w]]
        <5> DEFINE s == sess[cur[w]]
                   l == pc[w]
                   k == pc'[w]
                   m == Rows(w)
                   v == view[w]
                   n == msgs'[s]
                   u == view'[w]
                   r == cur[w]
        <5>1. l # "drop" /\ r \in RunIds /\ Effect(l, m, v, k, n, u, r, s)
          BY <1>1 DEF NeverDrops
        <5>2. Rows(x) = m /\ msgs'[sess[cur[x]]] = n
          BY <4>2 DEF Rows
        <5> HIDE DEF s, l, k, m, v, n, u, r
        <5> QED BY <5>1, <5>2, OnlyGrows
      <4> QED BY <4>1, <4>2
    <3>3. Asked(pc[x], Rows(x), view[x], cur[x], phase[ProcOf[x]])
      BY DEF QuestionOK
    <3>4. Rows(x) \in Seq(Message) /\ view[x] \in Seq(Message) /\ pc[x] # "drop" /\ ListLimit \in Nat
      BY <3>1, ConstantsAssumption DEF Rows, TypeOK, TablesOK, WorkersOK, NeverDrops
    <3> DEFINE m == Rows(x)
               l == pc[x]
               v == view[x]
               r == cur[x]
               ph == phase[ProcOf[x]]
    <3> HIDE DEF m, l, v, r, ph
    <3>5. \A g \in Message : Asked(l, Append(m, g), v, r, ph)
      BY <3>3, <3>4, AppendKeepsAsked DEF m, l, v, r, ph
    <3>6. Rows(x)' = msgs'[sess[cur[x]]]
      BY <1>1, <3>1 DEF Rows
    <3> QED BY <1>2, <3>1, <3>2, <3>3, <3>5, <3>6 DEF m, l, v, r, ph
  <2> QED BY <2>1, <2>2, <2>3
<1> QED BY <1>4, <1>5, <1>6 DEF QuestionOK

LEMMA SharedRest ==
  ASSUME TypeOK, TypeOK', SharedOK, [Next]_vars, ~\E w \in Workers : Step(w) \/ Fail(w)
  PROVE  SharedOK'
<1> USE ConstantsAssumption DEF SharedOK
<1>1. ASSUME NEW x \in Workers, pc'[x] = pc[x], cur'[x] = cur[x], view'[x] = view[x],
             Rows(x)' = Rows(x), phase'[ProcOf[x]] = phase[ProcOf[x]]
      PROVE  Asked(pc'[x], Rows(x)', view'[x], cur'[x], phase'[ProcOf[x]])
  BY <1>1 DEF QuestionOK
<1>2. ASSUME NEW x \in Workers,
             \/ pc'[x] \in {"idle", "accepted"}
             \/ pc'[x] \in {"loop", "tool"} /\ phase'[ProcOf[x]] # "up"
      PROVE  Asked(pc'[x], Rows(x)', view'[x], cur'[x], phase'[ProcOf[x]])
  BY <1>2 DEF Asked, Viewing
<1>3. \A q \in RunIds : status[q] # "none" => status'[q] # "none"
  BY StatusStaysKnown
<1>4. /\ pc \in [Workers -> Labels] /\ cur \in [Workers -> RunIds \cup {NoRun}]
      /\ queue \in [Procs -> SUBSET (RunIds \X Nat)]
  BY DEF TypeOK, WorkersOK, ProcsOK
<1>5. ASSUME NEW w \in Workers, NEW r \in RunIds, NEW s \in Sessions,
             NEW i \in Items \cup {NoItem}, Accept(w, r, s, i)
      PROVE  SharedOK'
  <2>1. /\ pc' = [pc EXCEPT ![w] = "accepted"] /\ cur' = [cur EXCEPT ![w] = r]
        /\ sess' = [sess EXCEPT ![r] = s] /\ UNCHANGED <<msgs, view, phase, queue>>
        /\ status[r] = "none" /\ status' = [status EXCEPT ![r] = "accepted"]
    BY <1>5 DEF Accept, Goto, SaveRun
  <2>2. KnownToWorkers'
    BY <1>3, <1>4, <2>1 DEF KnownToWorkers, Busy, TypeOK, TablesOK
  <2>3. NeverDrops'
    BY <1>4, <2>1 DEF NeverDrops
  <2>4. ASSUME NEW x \in Workers PROVE Asked(pc'[x], Rows(x)', view'[x], cur'[x], phase'[ProcOf[x]])
    <3>1. CASE x = w
      BY <1>2, <1>4, <2>1, <3>1
    <3>2. CASE x # w /\ ~Busy(x)
      BY <1>2, <1>4, <2>1, <3>2 DEF Busy, TypeOK, WorkersOK, At
    <3>3. CASE x # w /\ Busy(x)
      <4>1. cur[x] \in RunIds /\ cur[x] # r
        BY <1>4, <2>1, <3>3 DEF KnownToWorkers, Busy
      <4>2. Rows(x)' = Rows(x)
        BY <1>4, <2>1, <3>3, <4>1 DEF Rows, TypeOK, TablesOK
      <4> QED BY <1>1, <1>4, <2>1, <3>3, <4>2
    <3> QED BY <3>1, <3>2, <3>3
  <2> QED BY <2>2, <2>3, <2>4 DEF QuestionOK
<1>6. ASSUME NEW w \in Workers, Recover(w) PROVE SharedOK'
  <2>1. PICK row \in queue[ProcOf[w]] : \/ CloseInterrupted(w, row[1], row[2])
                                        \/ ResumeModel(w, row[1], row[2])
                                        \/ ResumeTools(w, row[1], row[2])
    BY <1>6 DEF Recover
  <2>2. /\ UNCHANGED <<msgs, sess, view, phase>> /\ phase[ProcOf[w]] = "recovering"
        /\ queue' = [queue EXCEPT ![ProcOf[w]] = @ \ {<<row[1], row[2]>>}]
        /\ \/ UNCHANGED <<pc, cur>>
           \/ /\ cur' = [cur EXCEPT ![w] = row[1]]
              /\ \E l \in {"loop", "tool"} : pc' = [pc EXCEPT ![w] = l]
    BY <2>1 DEF CloseInterrupted, ResumeModel, ResumeTools, Resume, Goto, local, mine
  <2>3. row[1] \in RunIds /\ status[row[1]] # "none"
    BY <1>4 DEF KnownToWorkers
  <2>4. KnownToWorkers'
    BY <1>3, <1>4, <2>2, <2>3 DEF KnownToWorkers, Busy
  <2>5. NeverDrops'
    BY <1>4, <2>2 DEF NeverDrops
  <2>6. ASSUME NEW x \in Workers PROVE Asked(pc'[x], Rows(x)', view'[x], cur'[x], phase'[ProcOf[x]])
    <3>1. CASE pc'[x] = pc[x] /\ cur'[x] = cur[x]
      BY <1>1, <2>2, <3>1 DEF Rows
    <3>2. CASE ~(pc'[x] = pc[x] /\ cur'[x] = cur[x])
      BY <1>2, <1>4, <2>2, <3>2
    <3> QED BY <3>1, <3>2
  <2> QED BY <2>4, <2>5, <2>6 DEF QuestionOK
<1>7. ASSUME NEW p \in Procs, Boot(p) \/ Serve(p) \/ Exit(p) \/ Crash(p) PROVE SharedOK'
  <2>1. /\ UNCHANGED <<msgs, sess, status>>
        /\ \A x \in Workers : \/ pc'[x] = pc[x] /\ cur'[x] = cur[x] /\ view'[x] = view[x]
                              \/ pc'[x] = "idle" /\ cur'[x] = NoRun
    <3>1. CASE Boot(p) \/ Serve(p) \/ Exit(p)
      BY <3>1 DEF Boot, Serve, Exit, db, tables, local, mine
    <3>2. CASE Crash(p)
      BY <3>2 DEF Crash, db, tables
    <3> QED BY <1>7, <3>1, <3>2
  <2>2. \A x \in Workers : pc'[x] = "idle" \/ phase'[ProcOf[x]] = phase[ProcOf[x]] \/ phase'[ProcOf[x]] # "up"
    BY <1>7 DEF Boot, Serve, Exit, Crash, AllIdle, At, local, TypeOK, ProcsOK
  <2>3. \A q \in Procs : \A row \in queue'[q] : status[row[1]] # "none"
    <3>1. CASE Boot(p)
      BY <1>4, <3>1 DEF Boot, KnownToWorkers, Incomplete
    <3>2. CASE Serve(p) \/ Exit(p) \/ Crash(p)
      BY <1>4, <3>2 DEF Serve, Exit, Crash, KnownToWorkers
    <3> QED BY <1>7, <3>1, <3>2
  <2>4. KnownToWorkers'
    BY <2>1, <2>3 DEF KnownToWorkers, Busy
  <2>5. NeverDrops'
    BY <2>1 DEF NeverDrops
  <2>6. ASSUME NEW x \in Workers PROVE Asked(pc'[x], Rows(x)', view'[x], cur'[x], phase'[ProcOf[x]])
    <3>1. CASE pc'[x] = "idle"
      BY <1>2, <3>1
    <3>2. CASE pc'[x] # "idle"
      <4>1. pc'[x] = pc[x] /\ cur'[x] = cur[x] /\ view'[x] = view[x] /\ Rows(x)' = Rows(x)
        BY <2>1, <3>2 DEF Rows
      <4> QED BY <1>1, <2>2, <3>2, <4>1 DEF QuestionOK, Asked
    <3> QED BY <3>1, <3>2
  <2> QED BY <2>4, <2>5, <2>6 DEF QuestionOK
<1>8. CASE UNCHANGED vars
  <2>1. UNCHANGED <<pc, cur, view, msgs, sess, phase, queue, status>>
    BY <1>8 DEF vars, db, tables, procs, local, mine
  <2> QED BY <2>1 DEF KnownToWorkers, Busy, NeverDrops, QuestionOK, Rows
<1> QED BY <1>5, <1>6, <1>7, <1>8 DEF Next

\* What the model is asked holds the user's question or the summary that
\* replaced it.  In one process with compaction: the rows a compaction deletes
\* are counted on the list the goroutine read and not on the table, and they
\* never reach the summary it has just saved, whatever the other goroutines
\* save, and whether the delete succeeds or not (compact.go:60-89).  Without
\* compaction, in any number of processes, also when two work on one session.
THEOREM PromptKeepsQuestion ==
  ASSUME Compacting => OneProcessOnly
  PROVE  Spec => []PromptHasQuestion
<1>1. Init => QuestionOK /\ SharedOK
  BY ConstantsAssumption
  DEF Init, QuestionOK, Asked, Viewing, SharedOK, KnownToWorkers, NeverDrops, Busy
<1>2. QuestionOK => PromptHasQuestion
  BY DEF QuestionOK, Asked, HasQuestion, Viewing, PromptHasQuestion, At, Rows
<1>3. CASE OneProcessOnly
  <2>1. TypeOK /\ Ownership /\ [Next]_vars => Ownership'
    BY <1>3, OwnershipStep
  <2>2. TypeOK /\ TypeOK' /\ Ownership /\ QuestionOK /\ [Next]_vars => QuestionOK'
    BY <1>3, QuestionStep
  <2> QED BY <1>1, <1>2, <2>1, <2>2, OwnershipInit, TypeCorrect, PTL DEF Spec
<1>4. CASE ~Compacting
  <2>1. TypeOK /\ TypeOK' /\ SharedOK /\ [Next]_vars => SharedOK'
    BY <1>4, SharedWork, SharedRest
  <2>2. SharedOK => PromptHasQuestion
    BY <1>2 DEF SharedOK
  <2> QED BY <1>1, <2>1, <2>2, TypeCorrect, PTL DEF Spec
<1> QED BY <1>3, <1>4

(***************************************************************************)
(* Compaction.  While the LIMIT of ListMessages hides no row, the list is  *)
(* the session and the summary is the one row that follows it.             *)
(***************************************************************************)
Shrinking(l, m, v) ==
  /\ l = "prompt" => Len(m) = Len(v)
  /\ l = "drop" => /\ Len(m) = Len(v) + 1
                   /\ Len(v) >= CompactTail + 4 /\ Len(v) > KeptTail
  /\ l = "ready" => /\ Len(v) = KeptTail + 1
                    /\ Len(m) = KeptTail + 1 \/ (MayFail /\ Len(m) > CompactTail + 4)

ShrinkOK == \A w \in Workers : Shrinking(pc[w], Rows(w), view[w])

LEMMA MoveShrinks ==
  ASSUME TypeOK, NEW s \in Sessions, NEW r \in RunIds, NEW l, NEW k,
         NEW v \in Seq(Message), NEW n \in Seq(Message), NEW u \in Seq(Message),
         Len(msgs[s]) <= ListLimit,
         Shrinking(l, msgs[s], v), Effect(l, msgs[s], v, k, n, u, r, s)
  PROVE  Shrinking(k, n, u)
<1> DEFINE m == msgs[s]
<1>1. /\ m \in Seq(Message) /\ Len(m) \in Nat /\ ListMessages(s) = m /\ Len(v) \in Nat
      /\ CompactTail \in Nat /\ Summary(r) \in Message
  BY Listed, HistoryMessages, ConstantsAssumption
<1>2. Len(Append(m, Summary(r))) = Len(m) + 1
  BY <1>1
<1> HIDE DEF m
<1>3. CASE l = "loop" /\ k = "prompt" /\ n = m /\ u = ListMessages(s)
  BY <1>1, <1>3 DEF Shrinking
<1>4. CASE /\ l = "prompt" /\ k = "drop" /\ n = Append(m, Summary(r)) /\ u = v
           /\ Len(v) >= CompactTail + 4 /\ Len(v) > KeptTail
  <2>1. Len(m) = Len(v)
    BY <1>4 DEF Shrinking, m
  <2> QED BY <1>2, <1>4, <2>1 DEF Shrinking
<1>5. CASE /\ l = "drop" /\ k = "ready"
           /\ n = SubSeq(m, HeadLen(v) + 1, Len(m)) \/ (MayFail /\ n = m)
           /\ u = <<Summary(r)>> \o SubSeq(v, HeadLen(v) + 1, Len(v))
  <2>1. Len(m) = Len(v) + 1 /\ Len(v) >= CompactTail + 4 /\ Len(v) > KeptTail
    BY <1>5 DEF Shrinking, m
  <2> DEFINE h == HeadLen(v)
  <2>2. h \in Nat /\ h <= Len(v) /\ KeptTail \in Nat /\ Len(v) - h = KeptTail
    BY <1>1, <2>1, CutBy DEF HeadLen
  <2> HIDE DEF h
  <2>3. ASSUME n = SubSeq(m, h + 1, Len(m)) PROVE Len(n) = KeptTail + 1
    <3>1. \A a, b, c, d \in Nat : a = b + 1 /\ b - c = d /\ c <= b => c <= a /\ a - c = d + 1
      OBVIOUS
    <3>2. Len(m) \in Nat /\ Len(v) \in Nat
      BY <1>1
    <3>3. Len(m) = Len(v) + 1
      BY <2>1
    <3>4. Len(v) - h = KeptTail /\ h <= Len(v) /\ h \in Nat /\ KeptTail \in Nat
      BY <2>2
    <3>5. h <= Len(m) /\ Len(m) - h = KeptTail + 1
      BY <3>1, <3>2, <3>3, <3>4
    <3> QED BY <1>1, <2>2, <2>3, <3>5, TailOf
  <2>4. /\ SubSeq(v, h + 1, Len(v)) \in Seq(Message) /\ Len(SubSeq(v, h + 1, Len(v))) = KeptTail
    BY <2>2, TailOf
  <2>5. Len(u) = KeptTail + 1
    BY <1>1, <1>5, <2>2, <2>4 DEF h
  <2>6. Len(n) = KeptTail + 1 \/ (MayFail /\ Len(n) > CompactTail + 4)
    BY <1>1, <1>5, <2>1, <2>3 DEF h
  <2> QED BY <1>5, <2>5, <2>6 DEF Shrinking
<1>6. CASE k \notin {"prompt", "drop", "ready"}
  BY <1>6 DEF Shrinking
<1> QED BY <1>3, <1>4, <1>5, <1>6 DEF Effect, Viewing, m

LEMMA ShrinkStep ==
  ASSUME TypeOK, TypeOK', OneProcessOnly, Ownership, Fits, ShrinkOK, [Next]_vars
  PROVE  ShrinkOK'
<1> SUFFICES ASSUME NEW x \in Workers PROVE Shrinking(pc'[x], Rows(x)', view'[x])
  BY DEF ShrinkOK, Shrinking, KeptTail
<1>1. Shrinking(pc[x], Rows(x), view[x])
  BY DEF ShrinkOK
<1>2. CASE Stays(x)
  BY <1>1, <1>2 DEF Stays
<1>3. CASE Moves(x)
  <2>1. PICK s \in Sessions, r \in RunIds, v, n, u \in Seq(Message) : MoveOf(x, s, r, v, n, u)
    BY <1>3, MoveParts
  <2>2. Shrinking(pc[x], msgs[s], v)
    BY <1>1, <2>1 DEF MoveOf
  <2>3. Shrinking(pc'[x], n, u)
    BY <2>1, <2>2, MoveShrinks DEF MoveOf, Fits
  <2> QED BY <2>1, <2>3 DEF MoveOf
<1>4. CASE pc'[x] = "idle" \/ Enters(x) \/ Resumes(x)
  BY <1>4 DEF Shrinking, Enters, Resumes
<1> QED BY <1>2, <1>3, <1>4, WorkerSteps

\* As long as no session outgrows the LIMIT of ListMessages, a compaction
\* leaves exactly the kept tail and the summary in the prompt, and in the
\* session the same or, when the delete failed, everything it held
\* (compact.go:78-89).  Over the limit the rows the list leaves out stay in the
\* session too, whose length then says nothing.
THEOREM CompactionLeavesTail ==
  ASSUME OneProcessOnly
  PROVE  Spec /\ []Fits => []CompactionShrinks
<1>1. Init => ShrinkOK
  BY DEF Init, ShrinkOK, Shrinking
<1>2. ShrinkOK => CompactionShrinks
  BY DEF ShrinkOK, Shrinking, CompactionShrinks, At, Rows
<1>3. TypeOK /\ Ownership /\ [Next]_vars => Ownership'
  BY OneProcessOnly, OwnershipStep
<1>4. TypeOK /\ TypeOK' /\ Ownership /\ Fits /\ ShrinkOK /\ [Next]_vars => ShrinkOK'
  BY OneProcessOnly, ShrinkStep
<1> QED BY <1>1, <1>2, <1>3, <1>4, OwnershipInit, TypeCorrect, PTL DEF Spec
=============================================================================
