-------------------------- MODULE AgentLoop_proofs --------------------------
(***************************************************************************)
(* Proofs about AgentLoop: type correctness, and what holds for any number *)
(* of goroutines, sessions, runs, tool calls and crashes of one process.   *)
(***************************************************************************)
EXTENDS AgentLoopProps, SequenceTheorems, TLAPS

(***************************************************************************)
(* Type correctness.  PromptOK is what compaction needs of the list it cut.*)
(***************************************************************************)
PromptOK == \A w \in Workers : At(w, "drop") => Len(view[w]) > KeptTail

TypeInv == TypeOK /\ PromptOK

LEMMA ListMessagesType ==
  ASSUME TypeOK, NEW s \in Sessions
  PROVE  ListMessages(s) \in Seq(Message)
<1> DEFINE n == IF Len(msgs[s]) <= ListLimit THEN Len(msgs[s]) ELSE ListLimit
<1>1. msgs[s] \in Seq(Message)
  BY DEF TypeOK, TablesOK
<1>2. n \in Nat /\ n <= Len(msgs[s])
  BY <1>1, ConstantsAssumption
<1>3. \A k \in 1 .. n : msgs[s][k] \in Message
  BY <1>1, <1>2
<1> HIDE DEF n
<1>4. SubSeq(msgs[s], 1, n) \in Seq(Message)
  BY <1>2, <1>3, SubSeqProperties
<1> QED BY <1>4 DEF ListMessages, n

LEMMA LeaveType ==
  ASSUME TypeInv, NEW w \in Workers, Leave(w)
  PROVE  ProcsOK' /\ WorkersOK' /\ PromptOK'
<1>1. ProcsOK'
  BY ConstantsAssumption DEF TypeInv, TypeOK, ProcsOK, Leave
<1>2. NoErrs \in [ErrKeys -> Nat]
  BY DEF NoErrs
<1>3. WorkersOK'
  BY <1>2 DEF TypeInv, TypeOK, WorkersOK, Leave, At, Labels
<1>4. PromptOK'
  BY DEF TypeInv, TypeOK, WorkersOK, PromptOK, Leave, At
<1> QED BY <1>1, <1>3, <1>4

LEMMA SaveRunType ==
  ASSUME TypeOK, NEW r \in RunIds, NEW st \in Incomplete \cup Terminal, NEW it \in Nat,
         SaveRun(r, st, it)
  PROVE  /\ status' \in [RunIds -> {"none"} \cup Incomplete \cup Terminal]
         /\ riter' \in [RunIds -> Nat]
BY DEF TypeOK, TablesOK, SaveRun

LEMMA SaveMessageType ==
  ASSUME TypeOK, NEW s \in Sessions, NEW m \in Message, SaveMessage(s, m)
  PROVE  msgs' \in [Sessions -> Seq(Message)]
BY DEF TypeOK, TablesOK, SaveMessage

LEMMA TypeInit == Init => TypeInv
<1> SUFFICES ASSUME Init PROVE TypeInv
  OBVIOUS
<1> USE ConstantsAssumption DEF Init
<1>1. TablesOK
  BY DEF TablesOK
<1>2. ProcsOK
  BY DEF ProcsOK
<1>3. NoErrs \in [ErrKeys -> Nat]
  BY DEF NoErrs
<1>4. WorkersOK
  BY <1>3 DEF WorkersOK, Labels, At
<1>5. HistoryOK
  BY DEF HistoryOK
<1>6. PromptOK
  BY DEF PromptOK, At
<1> QED BY <1>1, <1>2, <1>4, <1>5, <1>6 DEF TypeInv, TypeOK

(* A busy goroutine has a run, and the run a session. *)
LEMMA BusyRun ==
  ASSUME TypeOK, NEW w \in Workers, pc[w] # "idle"
  PROVE  cur[w] \in RunIds /\ sess[cur[w]] \in Sessions /\ iter[w] \in Nat
BY DEF TypeOK, WorkersOK, TablesOK, At

LEMMA TypeStep == TypeInv /\ [Next]_vars => TypeInv'
<1> SUFFICES ASSUME TypeInv, [Next]_vars PROVE TypeInv'
  OBVIOUS
<1> USE ConstantsAssumption DEF TypeInv
<1>1. ASSUME NEW w \in Workers, NEW r \in RunIds, NEW s \in Sessions,
             NEW i \in Items \cup {NoItem}, Accept(w, r, s, i)
      PROVE  TypeInv'
  <2>1. TablesOK' /\ ProcsOK' /\ HistoryOK'
    BY <1>1 DEF TypeOK, TablesOK, ProcsOK, HistoryOK, Accept, SaveRun, Incomplete, hist
  <2>2. WorkersOK' /\ PromptOK'
    BY <1>1 DEF TypeOK, WorkersOK, PromptOK, Accept, Goto, At, Labels, batch
  <2> QED BY <2>1, <2>2 DEF TypeOK
<1>2. ASSUME NEW w \in Workers, SaveUserMessage(w) PROVE TypeInv'
  <2>1. cur[w] \in RunIds /\ sess[cur[w]] \in Sessions
    BY <1>2, BusyRun DEF SaveUserMessage, At
  <2>2. User(cur[w]) \in Message
    BY <2>1 DEF User, Message
  <2>3. TablesOK'
    BY <1>2, <2>1, <2>2, SaveMessageType DEF TypeOK, TablesOK, SaveUserMessage, tables
  <2>4. ProcsOK' /\ HistoryOK'
    BY <1>2 DEF TypeOK, ProcsOK, HistoryOK, SaveUserMessage, procs, hist
  <2>5. WorkersOK' /\ PromptOK'
    BY <1>2 DEF TypeOK, WorkersOK, PromptOK, SaveUserMessage, Goto, At, Labels, mine, batch
  <2> QED BY <2>3, <2>4, <2>5 DEF TypeOK
<1>3. ASSUME NEW w \in Workers, StopAtLimit(w) PROVE TypeInv'
  <2>1. cur[w] \in RunIds /\ iter[w] \in Nat
    BY <1>3, BusyRun DEF StopAtLimit, At
  <2>2. TablesOK' /\ HistoryOK'
    BY <1>3, <2>1, SaveRunType DEF TypeOK, TablesOK, HistoryOK, StopAtLimit, Terminal, hist
  <2> QED BY <1>3, <2>2, LeaveType DEF TypeOK, StopAtLimit
<1>4. ASSUME NEW w \in Workers, StopRepeated(w) PROVE TypeInv'
  <2>1. cur[w] \in RunIds /\ iter[w] \in Nat
    BY <1>4, BusyRun DEF StopRepeated, At
  <2>2. TablesOK' /\ HistoryOK'
    BY <1>4, <2>1, SaveRunType DEF TypeOK, TablesOK, HistoryOK, StopRepeated, Terminal, hist
  <2> QED BY <1>4, <2>2, LeaveType DEF TypeOK, StopRepeated
<1>5. ASSUME NEW w \in Workers, Fail(w) PROVE TypeInv'
  <2>1. cur[w] \in RunIds /\ iter[w] \in Nat
    BY <1>5, BusyRun DEF Fail, At, Failing
  <2>2. TablesOK' /\ HistoryOK'
    BY <1>5, <2>1, SaveRunType DEF TypeOK, TablesOK, HistoryOK, Fail, Terminal, hist
  <2> QED BY <1>5, <2>2, LeaveType DEF TypeOK, Fail
<1>6. ASSUME NEW w \in Workers, MarkDelivered(w) PROVE TypeInv'
  <2>1. cur[w] \in RunIds
    BY <1>6, BusyRun DEF MarkDelivered, At
  <2>2. TablesOK' /\ HistoryOK'
    BY <1>6, <2>1 DEF TypeOK, TablesOK, HistoryOK, MarkDelivered, hist
  <2> QED BY <1>6, <2>2, LeaveType DEF TypeOK, MarkDelivered
<1>7. ASSUME NEW w \in Workers, BuildPrompt(w) PROVE TypeInv'
  <2>1. ListMessages(sess[cur[w]]) \in Seq(Message)
    BY <1>7, BusyRun, ListMessagesType DEF BuildPrompt, At
  <2>2. TablesOK' /\ ProcsOK' /\ HistoryOK'
    BY <1>7 DEF TypeOK, TablesOK, ProcsOK, HistoryOK, BuildPrompt, db, tables, procs, hist
  <2>3. WorkersOK' /\ PromptOK'
    BY <1>7, <2>1 DEF TypeOK, WorkersOK, PromptOK, BuildPrompt, Goto, At, Labels, mine, batch
  <2> QED BY <2>2, <2>3 DEF TypeOK
<1>8. ASSUME NEW w \in Workers, SaveSummary(w) PROVE TypeInv'
  <2>1. cur[w] \in RunIds /\ sess[cur[w]] \in Sessions
    BY <1>8, BusyRun DEF SaveSummary, At
  <2>2. Summary(cur[w]) \in Message
    BY <2>1 DEF Summary, Message, TypeOK, HistoryOK
  <2>3. TablesOK' /\ ProcsOK' /\ HistoryOK'
    BY <1>8, <2>1, <2>2, SaveMessageType
    DEF TypeOK, TablesOK, ProcsOK, HistoryOK, SaveSummary, tables, procs, hist
  <2>4. WorkersOK' /\ PromptOK'
    BY <1>8 DEF TypeOK, WorkersOK, PromptOK, SaveSummary, Goto, At, Labels, mine, batch
  <2> QED BY <2>3, <2>4 DEF TypeOK
<1>9. ASSUME NEW w \in Workers, DropCompacted(w) PROVE TypeInv'
  <2> DEFINE s == sess[cur[w]]
             v == view[w]
             h == HeadLen(v) + 1
  <2>1. cur[w] \in RunIds /\ s \in Sessions
    BY <1>9, BusyRun DEF DropCompacted, At
  <2>2. v \in Seq(Message) /\ msgs[s] \in Seq(Message)
    BY <2>1 DEF TypeOK, TablesOK, WorkersOK
  <2>3. h \in Nat /\ h >= 1
    BY <1>9, <2>2 DEF PromptOK, DropCompacted, HeadLen, KeptTail
  <2>4. Summary(cur[w]) \in Message
    BY <2>1 DEF Summary, Message, TypeOK, HistoryOK
  <2>5. SubSeq(msgs[s], h, Len(msgs[s])) \in Seq(Message)
    <3>1. \A k \in h .. Len(msgs[s]) : msgs[s][k] \in Message
      BY <2>2, <2>3
    <3> QED BY <2>2, <2>3, <3>1, SubSeqProperties
  <2>6. SubSeq(v, h, Len(v)) \in Seq(Message)
    <3>1. \A k \in h .. Len(v) : v[k] \in Message
      BY <2>2, <2>3
    <3> QED BY <2>2, <2>3, <3>1, SubSeqProperties
  <2>7. <<Summary(cur[w])>> \o SubSeq(v, h, Len(v)) \in Seq(Message)
    BY <2>4, <2>6, ConcatProperties
  <2>8. TablesOK' /\ ProcsOK' /\ HistoryOK'
    BY <1>9, <2>1, <2>5 DEF TypeOK, TablesOK, ProcsOK, HistoryOK, DropCompacted, tables,
      procs, hist
  <2>9. WorkersOK' /\ PromptOK'
    BY <1>9, <2>7 DEF TypeOK, WorkersOK, PromptOK, DropCompacted, Goto, At, Labels, mine,
      batch
  <2> QED BY <2>8, <2>9 DEF TypeOK
<1>25. ASSUME NEW w \in Workers, DeleteFails(w) PROVE TypeInv'
  <2> DEFINE v == view[w]
             h == HeadLen(v) + 1
  <2>1. cur[w] \in RunIds
    BY <1>25, BusyRun DEF DeleteFails, At
  <2>2. v \in Seq(Message)
    BY DEF TypeOK, WorkersOK
  <2>3. h \in Nat /\ h >= 1
    BY <1>25, <2>2 DEF PromptOK, DeleteFails, HeadLen, KeptTail
  <2>4. Summary(cur[w]) \in Message
    BY <2>1 DEF Summary, Message, TypeOK, HistoryOK
  <2>5. SubSeq(v, h, Len(v)) \in Seq(Message)
    <3>1. \A k \in h .. Len(v) : v[k] \in Message
      BY <2>2, <2>3
    <3> QED BY <2>2, <2>3, <3>1, SubSeqProperties
  <2>6. <<Summary(cur[w])>> \o SubSeq(v, h, Len(v)) \in Seq(Message)
    BY <2>4, <2>5, ConcatProperties
  <2>7. TablesOK' /\ ProcsOK' /\ HistoryOK'
    BY <1>25 DEF TypeOK, TablesOK, ProcsOK, HistoryOK, DeleteFails, db, tables, procs, hist
  <2>8. WorkersOK' /\ PromptOK'
    BY <1>25, <2>6 DEF TypeOK, WorkersOK, PromptOK, DeleteFails, Goto, At, Labels, mine, batch
  <2> QED BY <2>7, <2>8 DEF TypeOK
<1>10. ASSUME NEW w \in Workers, AskModel(w) PROVE TypeInv'
  <2>1. cur[w] \in RunIds /\ iter[w] \in Nat
    BY <1>10, BusyRun DEF AskModel, At
  <2>2. TablesOK' /\ ProcsOK' /\ HistoryOK'
    BY <1>10, <2>1, SaveRunType DEF TypeOK, TablesOK, ProcsOK, HistoryOK, AskModel, Incomplete,
      Terminal, procs, hist
  <2>3. WorkersOK' /\ PromptOK'
    BY <1>10 DEF TypeOK, WorkersOK, PromptOK, AskModel, Goto, At, Labels, mine, batch
  <2> QED BY <2>2, <2>3 DEF TypeOK
<1>11. ASSUME NEW w \in Workers, CompleteRun(w) PROVE TypeInv'
  <2>1. cur[w] \in RunIds /\ iter[w] \in Nat
    BY <1>11, BusyRun DEF CompleteRun, At
  <2>2. TablesOK' /\ ProcsOK' /\ HistoryOK'
    BY <1>11, <2>1, SaveRunType DEF TypeOK, TablesOK, ProcsOK, HistoryOK, CompleteRun, Incomplete,
      Terminal, procs, hist
  <2>3. WorkersOK' /\ PromptOK'
    BY <1>11 DEF TypeOK, WorkersOK, PromptOK, CompleteRun, Goto, At, Labels, mine, batch
  <2> QED BY <2>2, <2>3 DEF TypeOK
<1>12. ASSUME NEW w \in Workers, SaveAnswer(w) PROVE TypeInv'
  <2>1. cur[w] \in RunIds /\ sess[cur[w]] \in Sessions
    BY <1>12, BusyRun DEF SaveAnswer, At
  <2>2. Assistant(cur[w], 0) \in Message
    BY <2>1 DEF Assistant, Message, TypeOK, HistoryOK
  <2>3. TablesOK'
    BY <1>12, <2>1, <2>2, SaveMessageType DEF TypeOK, TablesOK, SaveAnswer, tables
  <2>4. ProcsOK' /\ HistoryOK'
    BY <1>12, <2>1 DEF TypeOK, ProcsOK, HistoryOK, SaveAnswer, procs
  <2>5. WorkersOK' /\ PromptOK'
    BY <1>12, <2>2 DEF TypeOK, WorkersOK, PromptOK, SaveAnswer, Goto, At, Labels, mine, batch
  <2> QED BY <2>3, <2>4, <2>5 DEF TypeOK
<1>13. ASSUME NEW w \in Workers, NEW n \in 1 .. MaxCalls, SaveToolCalls(w, n) PROVE TypeInv'
  <2>1. cur[w] \in RunIds /\ sess[cur[w]] \in Sessions
    BY <1>13, BusyRun DEF SaveToolCalls, At
  <2>2. Assistant(cur[w], n) \in Message
    BY <2>1 DEF Assistant, Message, TypeOK, HistoryOK
  <2>3. TablesOK'
    BY <1>13, <2>1, <2>2, SaveMessageType DEF TypeOK, TablesOK, SaveToolCalls, tables
  <2>4. ProcsOK' /\ HistoryOK'
    BY <1>13, <2>1 DEF TypeOK, ProcsOK, HistoryOK, SaveToolCalls, procs
  <2>5. WorkersOK' /\ PromptOK'
    BY <1>13, <2>2 DEF TypeOK, WorkersOK, PromptOK, SaveToolCalls, Goto, At, Labels, mine, batch, IsRequest, Assistant
  <2> QED BY <2>3, <2>4, <2>5 DEF TypeOK
<1>14. ASSUME NEW w \in Workers, BeginTools(w) PROVE TypeInv'
  <2>1. cur[w] \in RunIds /\ iter[w] \in Nat
    BY <1>14, BusyRun DEF BeginTools, At
  <2>2. TablesOK' /\ ProcsOK' /\ HistoryOK'
    BY <1>14, <2>1, SaveRunType DEF TypeOK, TablesOK, ProcsOK, HistoryOK, BeginTools, Incomplete,
      procs, hist
  <2>3. Calls(req[w]) \in SUBSET Nat
    BY <1>14 DEF BeginTools, At, TypeOK, WorkersOK, IsRequest, NoRequest, Message, Calls
  <2>4. WorkersOK' /\ PromptOK'
    BY <1>14, <2>3 DEF TypeOK, WorkersOK, PromptOK, BeginTools, Goto, At, Labels, mine
  <2> QED BY <2>2, <2>4 DEF TypeOK
<1>15. ASSUME NEW w \in Workers, FinishTools(w) PROVE TypeInv'
  <2>1. cur[w] \in RunIds /\ iter[w] + 1 \in Nat
    BY <1>15, BusyRun DEF FinishTools, At
  <2>2. TablesOK' /\ ProcsOK' /\ HistoryOK'
    BY <1>15, <2>1, SaveRunType DEF TypeOK, TablesOK, ProcsOK, HistoryOK, FinishTools, Incomplete,
      procs, hist
  <2>3. NoErrs \in [ErrKeys -> Nat]
    BY DEF NoErrs
  <2>4. WorkersOK' /\ PromptOK'
    BY <1>15, <2>1, <2>3 DEF TypeOK, WorkersOK, PromptOK, FinishTools, Goto, At, Labels
  <2> QED BY <2>2, <2>4 DEF TypeOK
<1>16. ASSUME NEW w \in Workers, NEW c \in todo[w], NEW outcome \in {"ok"} \cup ErrKinds,
             ExecTool(w, c, outcome)
      PROVE  TypeInv'
  <2>1. Call(req[w], c) \in RunIds \X Nat \X Nat
    BY <1>16 DEF ExecTool, At, TypeOK, WorkersOK, IsRequest, NoRequest, Message, Call
  <2>2. TablesOK' /\ ProcsOK' /\ HistoryOK'
    BY <1>16, <2>1 DEF TypeOK, TablesOK, ProcsOK, HistoryOK, ExecTool, db, tables, procs
  <2>3. WorkersOK' /\ PromptOK'
    BY <1>16 DEF TypeOK, WorkersOK, PromptOK, ExecTool, Goto, At, Labels, mine, ErrKeys
  <2> QED BY <2>2, <2>3 DEF TypeOK
<1>17. ASSUME NEW w \in Workers, NEW outcome \in {"denied", "unknown"}, RefuseCall(w, outcome)
      PROVE  TypeInv'
  <2>1. TablesOK' /\ ProcsOK' /\ HistoryOK'
    BY <1>17 DEF TypeOK, TablesOK, ProcsOK, HistoryOK, RefuseCall, db, tables, procs, hist
  <2>2. WorkersOK' /\ PromptOK'
    BY <1>17 DEF TypeOK, WorkersOK, PromptOK, RefuseCall, Goto, At, Labels, mine, ErrKeys
  <2> QED BY <2>1, <2>2 DEF TypeOK
<1>18. ASSUME NEW w \in Workers, NEW c \in todo[w], PersistResult(w, c) PROVE TypeInv'
  <2>1. cur[w] \in RunIds /\ sess[cur[w]] \in Sessions
    BY <1>18, BusyRun DEF PersistResult, At
  <2>2. Result(req[w], c) \in Message
    BY <1>18 DEF PersistResult, At, TypeOK, WorkersOK, IsRequest, NoRequest, Message, Result
  <2>3. TablesOK'
    BY <1>18, <2>1, <2>2, SaveMessageType DEF TypeOK, TablesOK, PersistResult, tables
  <2>4. ProcsOK' /\ HistoryOK'
    BY <1>18 DEF TypeOK, ProcsOK, HistoryOK, PersistResult, procs, hist
  <2>5. errs' \in [Workers -> [ErrKeys -> Nat]]
    BY <1>18 DEF PersistResult, TypeOK, WorkersOK
  <2>6. WorkersOK' /\ PromptOK'
    BY <1>18, <2>5 DEF TypeOK, WorkersOK, PromptOK, PersistResult, Goto, At, Labels, mine
  <2> QED BY <2>3, <2>4, <2>6 DEF TypeOK
<1>19. ASSUME NEW p \in Procs, Boot(p) \/ Serve(p) \/ Exit(p) PROVE TypeInv'
  <2>1. TablesOK' /\ HistoryOK'
    BY <1>19 DEF TypeOK, TablesOK, HistoryOK, Boot, Serve, Exit, db, tables, hist
  <2> DEFINE rows == {<<r, riter[r]>> : r \in {q \in RunIds : status[q] \in Incomplete}}
  <2>2. rows \in SUBSET (RunIds \X Nat)
    BY DEF TypeOK, TablesOK
  <2> HIDE DEF rows
  <2>3. ASSUME Boot(p) PROVE ProcsOK'
    BY <2>2, <2>3 DEF TypeOK, ProcsOK, Boot, rows
  <2>4. ProcsOK'
    BY <1>19, <2>3 DEF TypeOK, ProcsOK, Serve, Exit
  <2>5. WorkersOK' /\ PromptOK'
    BY <1>19 DEF TypeOK, WorkersOK, PromptOK, Boot, Serve, Exit, At, local, mine, batch
  <2> QED BY <2>1, <2>4, <2>5 DEF TypeOK
<1>20. ASSUME NEW p \in Procs, Crash(p) PROVE TypeInv'
  <2>1. TablesOK' /\ HistoryOK'
    BY <1>20 DEF TypeOK, TablesOK, HistoryOK, Crash, db, tables
  <2>2. ProcsOK'
    BY <1>20 DEF TypeOK, ProcsOK, Crash
  <2>3. NoErrs \in [ErrKeys -> Nat]
    BY DEF NoErrs
  <2>4. /\ pc' \in [Workers -> Labels]
        /\ cur' \in [Workers -> RunIds \cup {NoRun}]
        /\ item' \in [Workers -> Items \cup {NoItem}]
        /\ iter' \in [Workers -> Nat]
        /\ req' \in [Workers -> Message \cup {NoRequest}]
        /\ todo' \in [Workers -> SUBSET Nat]
    BY <1>20 DEF TypeOK, WorkersOK, Crash, Labels
  <2>5. /\ resumed' \in [Workers -> BOOLEAN]
        /\ res' \in [Workers -> {"ok", "denied"} \cup ErrKeys]
        /\ errs' \in [Workers -> [ErrKeys -> Nat]]
        /\ view' \in [Workers -> Seq(Message)]
    <3>1. resumed' \in [Workers -> BOOLEAN]
      BY <1>20 DEF TypeOK, WorkersOK, Crash
    <3>2. res' \in [Workers -> {"ok", "denied"} \cup ErrKeys]
      BY <1>20 DEF TypeOK, WorkersOK, Crash
    <3>3. errs' \in [Workers -> [ErrKeys -> Nat]]
      BY <1>20, <2>3 DEF TypeOK, WorkersOK, Crash
    <3>4. view' \in [Workers -> Seq(Message)]
      BY <1>20 DEF TypeOK, WorkersOK, Crash
    <3> QED BY <3>1, <3>2, <3>3, <3>4
  <2>6. \A w \in Workers :
          \/ pc'[w] = "idle" /\ cur'[w] = NoRun
          \/ pc'[w] = pc[w] /\ cur'[w] = cur[w] /\ req'[w] = req[w] /\ view'[w] = view[w]
    BY <1>20 DEF Crash
  <2>7. WorkersOK' /\ PromptOK'
    BY <2>4, <2>5, <2>6 DEF TypeOK, WorkersOK, PromptOK, At
  <2> QED BY <2>1, <2>2, <2>7 DEF TypeOK
<1>21. ASSUME NEW w \in Workers, NEW row \in queue[ProcOf[w]],
             CloseInterrupted(w, row[1], row[2])
      PROVE  TypeInv'
  <2>1. row[1] \in RunIds /\ row[2] \in Nat
    BY DEF TypeOK, ProcsOK
  <2>2. TablesOK' /\ ProcsOK' /\ HistoryOK'
    BY <1>21, <2>1, SaveRunType DEF TypeOK, TablesOK, ProcsOK, HistoryOK, CloseInterrupted,
      Resume, Terminal, hist
  <2>3. WorkersOK' /\ PromptOK'
    BY <1>21 DEF TypeOK, WorkersOK, PromptOK, CloseInterrupted, At, local, mine, batch
  <2> QED BY <2>2, <2>3 DEF TypeOK
<1>22. ASSUME NEW w \in Workers, NEW row \in queue[ProcOf[w]],
             ResumeModel(w, row[1], row[2])
      PROVE  TypeInv'
  <2>1. row[1] \in RunIds /\ row[2] \in Nat
    BY DEF TypeOK, ProcsOK
  <2>2. TablesOK' /\ ProcsOK' /\ HistoryOK'
    BY <1>22, <2>1, SaveRunType DEF TypeOK, TablesOK, ProcsOK, HistoryOK, ResumeModel,
      Resume, Incomplete, hist
  <2>3. WorkersOK' /\ PromptOK'
    BY <1>22, <2>1 DEF TypeOK, WorkersOK, PromptOK, ResumeModel, Goto, At, Labels, batch
  <2> QED BY <2>2, <2>3 DEF TypeOK
<1>23. ASSUME NEW w \in Workers, NEW row \in queue[ProcOf[w]],
             ResumeTools(w, row[1], row[2])
      PROVE  TypeInv'
  <2>1. row[1] \in RunIds /\ row[2] \in Nat /\ sess[row[1]] \in Sessions
    BY DEF TypeOK, ProcsOK, TablesOK
  <2> DEFINE v == ListMessages(sess[row[1]])
  <2>2. v \in Seq(Message)
    BY <2>1, ListMessagesType
  <2> HIDE DEF v
  <2>3. PICK k \in DOMAIN v : /\ IsLastRequest(v, k)
                              /\ req' = [req EXCEPT ![w] = v[k]]
                              /\ todo' = [todo EXCEPT ![w] = MissingAfter(v, k)]
    BY <1>23 DEF ResumeTools, v
  <2>4. v[k] \in Message /\ IsRequest(v[k])
    BY <2>2, <2>3 DEF IsLastRequest, RequestsIn
  <2>5. MissingAfter(v, k) \in SUBSET Nat
    BY <2>4 DEF MissingAfter, Calls, Message
  <2>6. TablesOK' /\ ProcsOK' /\ HistoryOK'
    BY <1>23, <2>1, SaveRunType DEF TypeOK, TablesOK, ProcsOK, HistoryOK, ResumeTools,
      Resume, Incomplete, hist
  <2>7. WorkersOK' /\ PromptOK'
    BY <1>23, <2>1, <2>3, <2>4, <2>5 DEF TypeOK, WorkersOK, PromptOK, ResumeTools, Goto, At,
      Labels
  <2> QED BY <2>6, <2>7 DEF TypeOK
<1>24. CASE UNCHANGED vars
  <2>1. TablesOK' /\ ProcsOK' /\ WorkersOK' /\ HistoryOK' /\ PromptOK'
    BY <1>24 DEF TypeOK, TablesOK, ProcsOK, WorkersOK, HistoryOK, PromptOK, At, vars, db,
      tables, procs, local, mine, batch, hist
  <2> QED BY <2>1 DEF TypeOK
<1> QED BY <1>1, <1>2, <1>3, <1>4, <1>5, <1>6, <1>7, <1>8, <1>9, <1>10, <1>11, <1>12,
    <1>13, <1>14, <1>15, <1>16, <1>17, <1>18, <1>19, <1>20, <1>21, <1>22, <1>23, <1>24, <1>25
    DEF Next, Step, Recover

\* Every variable holds a value of its kind in every reachable state, for any
\* number of processes, goroutines, sessions, calls and crashes.
THEOREM TypeCorrect == Spec => []TypeOK
<1>1. TypeInv => TypeOK
  BY DEF TypeInv
<1> QED BY <1>1, TypeInit, TypeStep, PTL DEF Spec

(***************************************************************************)
(* One process: who works on which run.                                    *)
(***************************************************************************)

LEMMA OwnershipInit == Init => Ownership
BY ConstantsAssumption
DEF Init, Ownership, BusyOK, QueueOK, OpenOK, OneOpenRunPerSession, Busy, IsOpen, Incomplete

(* A step inside the loop leaves the run open and in the same hands. *)
LEMMA WorkKeepsOwnership ==
  ASSUME TypeOK, OneProcessOnly, Ownership,
         NEW w \in Workers, NEW l \in Labels \ {"idle", "completed"},
         Busy(w), ~At(w, "completed"), Goto(w, l),
         UNCHANGED <<sess, phase, queue, active, cur>>,
         \/ UNCHANGED <<status, riter>>
         \/ \E st \in Incomplete, it \in Nat : SaveRun(cur[w], st, it)
  PROVE  Ownership'
<1> USE ConstantsAssumption DEF OneProcessOnly
<1>1. cur[w] \in RunIds /\ IsOpen(cur[w]) /\ Owned(cur[w])
  BY DEF TypeOK, WorkersOK, Busy, Owned, Ownership, BusyOK
<1>2. \A r \in RunIds : IsOpen(r)' <=> IsOpen(r)
  BY <1>1 DEF TypeOK, TablesOK, SaveRun, IsOpen
<1>3. \A r \in RunIds : r # cur[w] => riter'[r] = riter[r] /\ status'[r] = status[r]
  BY <1>1 DEF TypeOK, TablesOK, SaveRun
<1>4. \A r : Owned(r)' <=> Owned(r)
  BY DEF Owned
<1>5. BusyOK'
  <2>1. \A x \in Workers : Busy(x) => cur[x] \in RunIds
    BY DEF TypeOK, WorkersOK, Busy
  <2>2. \A x \in Workers : Busy(x) /\ x # w => cur[x] # cur[w]
    BY DEF Ownership, BusyOK
  <2>3. \A x \in Workers : x # w => pc'[x] = pc[x]
    BY DEF Goto, TypeOK, WorkersOK
  <2>4. pc'[w] # "completed"
    BY DEF Goto, TypeOK, WorkersOK
  <2> QED BY <1>1, <1>2, <1>3, <2>1, <2>2, <2>3, <2>4 DEF Ownership, BusyOK, Busy, At
<1>6. QueueOK'
  <2> SUFFICES ASSUME NEW p \in Procs, NEW row \in queue'[p]
               PROVE  /\ phase'[p] = "recovering"
                      /\ IsOpen(row[1])' /\ row[2] = riter'[row[1]] /\ ~Owned(row[1])'
    BY DEF QueueOK
  <2>1. row \in queue[p] /\ row[1] \in RunIds
    BY DEF TypeOK, ProcsOK
  <2>2. phase[p] = "recovering" /\ IsOpen(row[1]) /\ row[2] = riter[row[1]] /\ ~Owned(row[1])
    BY <2>1 DEF Ownership, QueueOK
  <2> QED BY <1>1, <1>2, <1>3, <1>4, <2>1, <2>2
<1>7. OpenOK'
  <2> SUFFICES ASSUME NEW p \in Procs, NEW r \in RunIds, IsOpen(r)', ~Owned(r)', phase[p]' # "down"
               PROVE  phase[p]' = "recovering" /\ <<r, riter[r]>>' \in queue[p]'
    BY DEF OpenOK
  <2>1. IsOpen(r) /\ ~Owned(r) /\ riter'[r] = riter[r]
    BY <1>1, <1>2, <1>3, <1>4
  <2> QED BY <2>1 DEF Ownership, OpenOK
<1>8. OneOpenRunPerSession'
  BY <1>2 DEF Ownership, OneOpenRunPerSession
<1> QED BY <1>5, <1>6, <1>7, <1>8 DEF Ownership

(* A goroutine leaves the loop once its run is closed. *)
LEMMA LeaveKeepsOwnership ==
  ASSUME TypeOK, OneProcessOnly, Ownership, NEW w \in Workers, Busy(w), Leave(w),
         sess' = sess,
         \/ At(w, "completed") /\ UNCHANGED <<status, riter>>
         \/ \E it \in Nat : SaveRun(cur[w], "failed", it)
  PROVE  Ownership'
<1> USE ConstantsAssumption DEF OneProcessOnly
<1>1. cur[w] \in RunIds /\ Owned(cur[w]) /\ ProcOf[w] \in Procs
  BY DEF TypeOK, WorkersOK, Busy, Owned
<1>2. status'[cur[w]] \notin Incomplete
  BY <1>1 DEF TypeOK, TablesOK, SaveRun, IsOpen, Ownership, BusyOK, Incomplete
<1>3. \A r \in RunIds : r # cur[w] => riter'[r] = riter[r] /\ status'[r] = status[r]
  BY <1>1 DEF TypeOK, TablesOK, SaveRun
<1>4. cur' = [cur EXCEPT ![w] = NoRun] /\ pc' = [pc EXCEPT ![w] = "idle"]
      /\ phase' = phase /\ queue' = queue
      /\ active' = [active EXCEPT ![ProcOf[w]] = @ \ {sess[cur[w]]}]
  BY DEF Leave
<1>5. \A r \in RunIds : r # cur[w] => (Owned(r)' <=> Owned(r))
  BY <1>4 DEF Owned, TypeOK, WorkersOK
<1>6. \A r \in RunIds : Owned(r)' => r # cur[w]
  <2>1. \A x \in Workers : x # w /\ Busy(x) => cur[x] # cur[w]
    BY DEF Ownership, BusyOK
  <2> QED BY <1>1, <1>4, <2>1 DEF Owned, Busy, TypeOK, WorkersOK
<1>7. BusyOK'
  <2> SUFFICES ASSUME NEW x \in Workers, Busy(x)'
               PROVE  /\ phase'[ProcOf[x]] # "down"
                      /\ At(x, "completed")' => status'[cur'[x]] = "completed"
                      /\ ~At(x, "completed")' => IsOpen(cur[x])'
                      /\ phase'[ProcOf[x]] = "up" => sess'[cur'[x]] \in active'[ProcOf[x]]
                      /\ \A y \in Workers : Busy(y)' /\ y # x =>
                           phase'[ProcOf[x]] = "up" /\ sess'[cur'[y]] # sess'[cur'[x]]
    BY DEF BusyOK
  <2>1. x # w /\ Busy(x) /\ cur'[x] = cur[x] /\ pc'[x] = pc[x] /\ cur[x] \in RunIds
    BY <1>4 DEF Busy, TypeOK, WorkersOK
  <2>2. cur[x] # cur[w] /\ sess[cur[x]] # sess[cur[w]]
    BY <2>1 DEF Ownership, BusyOK
  <2>3. phase'[ProcOf[x]] = "up" => sess'[cur'[x]] \in active'[ProcOf[x]]
    BY <1>4, <2>1, <2>2 DEF Ownership, BusyOK, TypeOK, ProcsOK
  <2>4. \A y \in Workers : Busy(y)' => Busy(y) /\ cur'[y] = cur[y]
    BY <1>4 DEF Busy, TypeOK, WorkersOK
  <2> QED BY <1>3, <1>4, <2>1, <2>2, <2>3, <2>4 DEF Ownership, BusyOK, At, IsOpen
<1>8. QueueOK'
  <2> SUFFICES ASSUME NEW p \in Procs, NEW row \in queue'[p]
               PROVE  /\ phase'[p] = "recovering"
                      /\ IsOpen(row[1])' /\ row[2] = riter'[row[1]] /\ ~Owned(row[1])'
    BY DEF QueueOK
  <2>1. row \in queue[p] /\ row[1] \in RunIds
    BY <1>4 DEF TypeOK, ProcsOK
  <2>2. phase[p] = "recovering" /\ IsOpen(row[1]) /\ row[2] = riter[row[1]] /\ ~Owned(row[1])
    BY <2>1 DEF Ownership, QueueOK
  <2> QED BY <1>1, <1>3, <1>4, <1>5, <2>1, <2>2 DEF IsOpen
<1>9. OpenOK'
  <2> SUFFICES ASSUME NEW p \in Procs, NEW r \in RunIds, IsOpen(r)', ~Owned(r)', phase[p]' # "down"
               PROVE  phase[p]' = "recovering" /\ <<r, riter[r]>>' \in queue[p]'
    BY DEF OpenOK
  <2>1. r # cur[w] /\ IsOpen(r) /\ ~Owned(r) /\ riter'[r] = riter[r]
    BY <1>2, <1>3, <1>5 DEF IsOpen
  <2> QED BY <1>4, <2>1 DEF Ownership, OpenOK
<1>10. OneOpenRunPerSession'
  BY <1>2, <1>3 DEF Ownership, OneOpenRunPerSession, IsOpen
<1> QED BY <1>7, <1>8, <1>9, <1>10 DEF Ownership

(* A session that is not active has no open run: Handle may open one. *)
LEMMA AcceptKeepsOwnership ==
  ASSUME TypeOK, OneProcessOnly, Ownership, NEW w \in Workers, NEW r \in RunIds,
         NEW s \in Sessions, NEW i \in Items \cup {NoItem}, Accept(w, r, s, i)
  PROVE  Ownership'
<1> USE ConstantsAssumption DEF OneProcessOnly
<1>1. /\ phase[ProcOf[w]] = "up" /\ cur[w] = NoRun /\ status[r] = "none"
      /\ s \notin active[ProcOf[w]]
      /\ phase' = phase /\ queue' = queue /\ riter' = [riter EXCEPT ![r] = 0]
      /\ active' = [active EXCEPT ![ProcOf[w]] = @ \cup {s}]
      /\ status' = [status EXCEPT ![r] = "accepted"] /\ sess' = [sess EXCEPT ![r] = s]
      /\ cur' = [cur EXCEPT ![w] = r] /\ pc' = [pc EXCEPT ![w] = "accepted"]
  BY DEF Accept, At, Goto, SaveRun, IsBusy, TypeOK, WorkersOK
<1>2. /\ status'[r] = "accepted" /\ sess'[r] = s
      /\ \A q \in RunIds : q # r => status'[q] = status[q] /\ sess'[q] = sess[q]
                                    /\ riter'[q] = riter[q]
  BY <1>1 DEF TypeOK, TablesOK
<1>3. \A x \in Workers : x # w => cur'[x] = cur[x] /\ pc'[x] = pc[x]
  BY <1>1 DEF TypeOK, WorkersOK
<1>4. cur'[w] = r /\ pc'[w] = "accepted" /\ r # NoRun
  BY <1>1 DEF TypeOK, WorkersOK
<1>5. ASSUME NEW x \in Workers, Busy(x)
      PROVE  /\ x # w /\ cur[x] \in RunIds /\ cur[x] # r /\ sess[cur[x]] # s
             /\ ProcOf[x] = ProcOf[w]
  <2>1. ProcOf[x] = ProcOf[w] /\ ProcOf[w] \in Procs
    OBVIOUS
  <2>2. cur[x] \in RunIds /\ x # w
    BY <1>1, <1>5 DEF Busy, TypeOK, WorkersOK
  <2>3. status[cur[x]] # "none" /\ sess[cur[x]] \in active[ProcOf[x]]
    BY <1>1, <1>5, <2>1 DEF Ownership, BusyOK, IsOpen, Incomplete
  <2> QED BY <1>1, <2>1, <2>2, <2>3
<1>6. \A q \in RunIds : IsOpen(q) => sess[q] # s
  <2> SUFFICES ASSUME NEW q \in RunIds, IsOpen(q) PROVE sess[q] # s
    OBVIOUS
  <2>1. PICK x \in Workers : cur[x] = q
    BY <1>1 DEF Ownership, OpenOK, Owned
  <2> QED BY <1>5, <2>1 DEF Busy
<1>7. BusyOK'
  <2> SUFFICES ASSUME NEW x \in Workers, Busy(x)'
               PROVE  /\ phase'[ProcOf[x]] # "down"
                      /\ At(x, "completed")' => status'[cur'[x]] = "completed"
                      /\ ~At(x, "completed")' => IsOpen(cur[x])'
                      /\ phase'[ProcOf[x]] = "up" => sess'[cur'[x]] \in active'[ProcOf[x]]
                      /\ \A y \in Workers : Busy(y)' /\ y # x =>
                           phase'[ProcOf[x]] = "up" /\ sess'[cur'[y]] # sess'[cur'[x]]
    BY DEF BusyOK
  <2>1. \A y \in Workers : Busy(y)' /\ y # w => Busy(y)
    BY <1>3 DEF Busy
  <2>2. ProcOf[x] = ProcOf[w] /\ phase'[ProcOf[x]] = "up"
    BY <1>1
  <2>3. sess'[cur'[x]] \in active'[ProcOf[x]]
    <3>1. CASE x = w
      BY <1>1, <1>2, <1>4, <3>1 DEF TypeOK, ProcsOK
    <3>2. CASE x # w
      BY <1>1, <1>2, <1>3, <1>5, <2>1, <2>2, <3>2 DEF TypeOK, ProcsOK, Ownership, BusyOK
    <3> QED BY <3>1, <3>2
  <2>4. \A y \in Workers : Busy(y)' /\ y # x => sess'[cur'[y]] # sess'[cur'[x]]
    BY <1>2, <1>3, <1>4, <1>5, <2>1 DEF Ownership, BusyOK
  <2>5. /\ At(x, "completed")' => status'[cur'[x]] = "completed"
        /\ ~At(x, "completed")' => IsOpen(cur[x])'
    <3>1. CASE x = w
      BY <1>2, <1>4, <3>1 DEF At, IsOpen, Incomplete
    <3>2. CASE x # w
      BY <1>2, <1>3, <1>5, <2>1, <3>2 DEF Ownership, BusyOK, At, IsOpen
    <3> QED BY <3>1, <3>2
  <2> QED BY <2>2, <2>3, <2>4, <2>5
<1>8. QueueOK'
  BY <1>1 DEF Ownership, QueueOK
<1>9. OpenOK'
  <2> SUFFICES ASSUME NEW p \in Procs, NEW q \in RunIds, IsOpen(q)' PROVE Owned(q)'
    BY DEF OpenOK
  <2>1. CASE q = r
    BY <1>4, <2>1 DEF Owned
  <2>2. CASE q # r
    <3>1. Owned(q)
      BY <1>1, <1>2, <2>2 DEF Ownership, OpenOK, IsOpen
    <3> QED BY <1>1, <1>3, <3>1 DEF Owned, TypeOK, WorkersOK
  <2> QED BY <2>1, <2>2
<1>10. OneOpenRunPerSession'
  BY <1>2, <1>6 DEF Ownership, OneOpenRunPerSession, IsOpen
<1> QED BY <1>7, <1>8, <1>9, <1>10 DEF Ownership

(* The life of the process. *)
LEMMA ProcessKeepsOwnership ==
  ASSUME TypeOK, OneProcessOnly, Ownership, NEW p \in Procs,
         Boot(p) \/ Serve(p) \/ Exit(p) \/ Crash(p)
  PROVE  Ownership'
<1> USE ConstantsAssumption DEF OneProcessOnly
<1>1. UNCHANGED <<status, riter, sess>>
  BY DEF Boot, Serve, Exit, Crash, db, tables
<1>2. \A w \in Workers : ~Busy(w)'
  <2>1. \A w \in Workers : ProcOf[w] = p
    OBVIOUS
  <2>2. CASE Boot(p)
    BY <2>1, <2>2 DEF Boot, local, mine, Ownership, BusyOK, Busy
  <2>3. CASE Serve(p) \/ Exit(p)
    BY <2>1, <2>3 DEF Serve, Exit, AllIdle, local, mine, TypeOK, WorkersOK, Busy
  <2>4. CASE Crash(p)
    BY <2>1, <2>4 DEF Crash, Busy
  <2> QED BY <2>2, <2>3, <2>4
<1>3. BusyOK'
  BY <1>2 DEF BusyOK
<1>4. OneOpenRunPerSession'
  BY <1>1 DEF Ownership, OneOpenRunPerSession, IsOpen
<1>5. QueueOK' /\ OpenOK'
  <2>1. CASE Boot(p)
    <3>1. /\ phase'[p] = "recovering"
          /\ queue'[p] = {<<r, riter[r]>> : r \in {q \in RunIds : status[q] \in Incomplete}}
      BY <2>1 DEF Boot, TypeOK, ProcsOK
    <3>2. \A r \in RunIds : ~Owned(r)'
      BY <1>2, ConstantsAssumption DEF Owned, Busy
    <3> QED BY <1>1, <3>1, <3>2 DEF QueueOK, OpenOK, IsOpen
  <2>2. CASE Serve(p)
    <3>1. phase[p] = "recovering" /\ queue[p] = {} /\ queue' = queue /\ phase'[p] = "up"
          /\ cur' = cur
      BY <2>2 DEF Serve, local, mine, TypeOK, ProcsOK
    <3>2. \A r \in RunIds : ~Owned(r)
      BY <1>2, <3>1 DEF Owned, Busy
    <3> QED BY <1>1, <3>1, <3>2 DEF Ownership, QueueOK, OpenOK, IsOpen
  <2>3. CASE Exit(p) \/ Crash(p)
    <3>1. phase'[p] = "down"
      BY <2>3 DEF Exit, Crash, TypeOK, ProcsOK
    <3>2. queue'[p] = {}
      <4>1. CASE Exit(p)
        BY <4>1 DEF Exit, TypeOK, ProcsOK, Ownership, QueueOK
      <4>2. CASE Crash(p)
        BY <4>2 DEF Crash, TypeOK, ProcsOK
      <4> QED BY <2>3, <4>1, <4>2
    <3> QED BY <3>1, <3>2 DEF QueueOK, OpenOK
  <2> QED BY <2>1, <2>2, <2>3
<1> QED BY <1>3, <1>4, <1>5 DEF Ownership

(* Recovery takes a listed run, or closes it. *)
LEMMA RecoverKeepsOwnership ==
  ASSUME TypeOK, OneProcessOnly, Ownership, NEW w \in Workers, NEW row \in queue[ProcOf[w]],
         \/ CloseInterrupted(w, row[1], row[2])
         \/ ResumeModel(w, row[1], row[2])
         \/ ResumeTools(w, row[1], row[2])
  PROVE  Ownership'
<1> DEFINE p == ProcOf[w]
           r == row[1]
<1> USE ConstantsAssumption DEF OneProcessOnly
<1>1. /\ p \in Procs /\ r \in RunIds /\ row = <<r, row[2]>> /\ row[2] = riter[r]
      /\ phase[p] = "recovering" /\ IsOpen(r)
  BY DEF TypeOK, ProcsOK, Ownership, QueueOK
<1>2. \A x \in Workers : ~Busy(x)
  BY DEF CloseInterrupted, ResumeModel, ResumeTools, Resume, AllIdle, TypeOK, WorkersOK, Busy
<1>3. /\ phase' = phase /\ sess' = sess
      /\ queue' = [queue EXCEPT ![p] = @ \ {row}]
  BY <1>1 DEF CloseInterrupted, ResumeModel, ResumeTools, Resume
<1>4. PICK st \in Incomplete \cup {"failed"} : SaveRun(r, st, row[2])
  BY DEF CloseInterrupted, ResumeModel, ResumeTools, Incomplete
<1>5. /\ status'[r] = st /\ riter' = riter
      /\ \A q \in RunIds : q # r => status'[q] = status[q]
  BY <1>1, <1>4 DEF SaveRun, TypeOK, TablesOK
<1>6. \A q \in RunIds : IsOpen(q)' => IsOpen(q)
  BY <1>1, <1>5 DEF IsOpen
<1>7. OneOpenRunPerSession'
  BY <1>3, <1>6 DEF Ownership, OneOpenRunPerSession
<1>8. queue'[p] = queue[p] \ {row} /\ \A x \in Procs : x = p
  BY <1>1, <1>3 DEF TypeOK, ProcsOK
<1>9. \A q \in queue'[p] : q[1] \in RunIds /\ q[1] # r
  <2> SUFFICES ASSUME NEW q \in queue[p], q # row PROVE q[1] \in RunIds /\ q[1] # r
    BY <1>8
  <2>1. q = <<q[1], q[2]>> /\ q[1] \in RunIds /\ q[2] = riter[q[1]]
    BY <1>1 DEF TypeOK, ProcsOK, Ownership, QueueOK
  <2> QED BY <1>1, <2>1
<1>10. \A q \in RunIds : IsOpen(q) => <<q, riter[q]>> \in queue[p]
  BY <1>1, <1>2 DEF Ownership, OpenOK, Owned, Busy
<1>11. CASE CloseInterrupted(w, r, row[2])
  <2>1. cur' = cur /\ pc' = pc /\ status'[r] = "failed"
    BY <1>1, <1>11 DEF CloseInterrupted, local, mine, SaveRun, TypeOK, TablesOK
  <2>2. ~IsOpen(r)'
    BY <2>1 DEF IsOpen, Incomplete
  <2>3. BusyOK'
    BY <1>2, <2>1 DEF BusyOK, Busy
  <2>4. QueueOK'
    BY <1>1, <1>3, <1>5, <1>8, <1>9, <2>1 DEF Ownership, QueueOK, IsOpen, Owned
  <2>5. OpenOK'
    BY <1>1, <1>3, <1>5, <1>6, <1>8, <1>10, <2>2 DEF OpenOK
  <2> QED BY <1>7, <2>3, <2>4, <2>5 DEF Ownership
<1>12. CASE ResumeModel(w, r, row[2]) \/ ResumeTools(w, r, row[2])
  <2>1. /\ cur' = [cur EXCEPT ![w] = r] /\ IsOpen(r)'
        /\ pc'[w] # "completed"
    BY <1>1, <1>12 DEF ResumeModel, ResumeTools, Goto, SaveRun, IsOpen, Incomplete, TypeOK,
      WorkersOK, TablesOK
  <2>2. cur'[w] = r /\ \A x \in Workers : x # w => cur'[x] = NoRun
    BY <1>2, <2>1 DEF TypeOK, WorkersOK, Busy
  <2>3. BusyOK'
    BY <1>1, <1>3, <2>1, <2>2 DEF BusyOK, Busy, At
  <2>4. \A q \in RunIds : Owned(q)' <=> q = r
    BY <1>1, <2>2 DEF Owned
  <2>5. QueueOK'
    BY <1>1, <1>3, <1>5, <1>8, <1>9, <2>4 DEF Ownership, QueueOK, IsOpen
  <2>6. OpenOK'
    BY <1>1, <1>3, <1>5, <1>6, <1>8, <1>10, <2>4 DEF OpenOK
  <2> QED BY <1>7, <2>3, <2>5, <2>6 DEF Ownership
<1> QED BY <1>11, <1>12

(* The steps inside the loop, and what they leave alone. *)
Working(w) ==
  \/ SaveUserMessage(w) \/ BuildPrompt(w) \/ SaveSummary(w) \/ DropCompacted(w)
  \/ DeleteFails(w)
  \/ AskModel(w) \/ SaveAnswer(w) \/ BeginTools(w) \/ FinishTools(w)
  \/ \E n \in 1 .. MaxCalls : SaveToolCalls(w, n)
  \/ \E c \in todo[w], outcome \in {"ok"} \cup ErrKinds : ExecTool(w, c, outcome)
  \/ \E outcome \in {"denied", "unknown"} : RefuseCall(w, outcome)
  \/ \E c \in todo[w] : PersistResult(w, c)

LEMMA WorkingSteps ==
  ASSUME TypeOK, NEW w \in Workers, Working(w)
  PROVE  /\ Busy(w) /\ ~At(w, "completed")
         /\ \E l \in Labels \ {"idle", "completed"} : Goto(w, l)
         /\ UNCHANGED <<sess, deliveredBy, phase, queue, active, cur>>
         /\ \/ UNCHANGED <<status, riter>>
            \/ \E st \in Incomplete, it \in Nat : SaveRun(cur[w], st, it)
<1> USE DEF Labels, At, Busy, tables, db, procs, mine
<1>1. Busy(w) <=> pc[w] # "idle"
  BY DEF TypeOK, WorkersOK
<1>2. iter[w] \in Nat
  BY DEF TypeOK, WorkersOK
<1>3. CASE SaveUserMessage(w)
  BY <1>1, <1>3 DEF SaveUserMessage
<1>4. CASE BuildPrompt(w)
  BY <1>1, <1>4 DEF BuildPrompt
<1>5. CASE SaveSummary(w)
  BY <1>1, <1>5 DEF SaveSummary
<1>6. CASE DropCompacted(w)
  BY <1>1, <1>6 DEF DropCompacted
<1>7. CASE AskModel(w)
  BY <1>1, <1>2, <1>7 DEF AskModel, Incomplete
<1>8. CASE SaveAnswer(w)
  BY <1>1, <1>8 DEF SaveAnswer
<1>9. CASE BeginTools(w)
  BY <1>1, <1>2, <1>9 DEF BeginTools, Incomplete
<1>10. CASE FinishTools(w)
  BY <1>1, <1>2, <1>10 DEF FinishTools, Incomplete
<1>11. ASSUME NEW n \in 1 .. MaxCalls, SaveToolCalls(w, n)
       PROVE  Busy(w) /\ pc[w] = "model" /\ Goto(w, "called")
              /\ UNCHANGED <<sess, deliveredBy, phase, queue, active, cur, status, riter>>
  BY <1>1, <1>11 DEF SaveToolCalls
<1>12. ASSUME NEW c \in todo[w], NEW outcome \in {"ok"} \cup ErrKinds, ExecTool(w, c, outcome)
       PROVE  Busy(w) /\ pc[w] = "tool" /\ Goto(w, "result")
              /\ UNCHANGED <<sess, deliveredBy, phase, queue, active, cur, status, riter>>
  BY <1>1, <1>12 DEF ExecTool
<1>13. ASSUME NEW outcome \in {"denied", "unknown"}, RefuseCall(w, outcome)
       PROVE  Busy(w) /\ pc[w] = "tool" /\ Goto(w, "result")
              /\ UNCHANGED <<sess, deliveredBy, phase, queue, active, cur, status, riter>>
  BY <1>1, <1>13 DEF RefuseCall
<1>14. ASSUME NEW c \in todo[w], PersistResult(w, c)
       PROVE  Busy(w) /\ pc[w] = "result" /\ (Goto(w, "tool") \/ Goto(w, "stop"))
              /\ UNCHANGED <<sess, deliveredBy, phase, queue, active, cur, status, riter>>
  BY <1>1, <1>14 DEF PersistResult
<1>15. CASE DeleteFails(w)
  BY <1>1, <1>15 DEF DeleteFails
<1> QED BY <1>3, <1>4, <1>5, <1>6, <1>7, <1>8, <1>9, <1>10, <1>11, <1>12, <1>13, <1>14,
    <1>15 DEF Working

(* The steps that close the run, or have closed it, and leave. *)
Leaving(w) == StopAtLimit(w) \/ StopRepeated(w) \/ Fail(w) \/ MarkDelivered(w)

LEMMA LeavingSteps ==
  ASSUME TypeOK, NEW w \in Workers, Leaving(w)
  PROVE  /\ Busy(w) /\ Leave(w) /\ sess' = sess
         /\ \/ At(w, "completed") /\ UNCHANGED <<status, riter>>
            \/ \E it \in Nat : SaveRun(cur[w], "failed", it)
<1>1. iter[w] \in Nat /\ (Busy(w) <=> pc[w] # "idle")
  BY DEF TypeOK, WorkersOK, Busy, At
<1>2. CASE StopAtLimit(w) \/ StopRepeated(w)
  BY <1>1, <1>2 DEF StopAtLimit, StopRepeated, At
<1>3. CASE Fail(w)
  BY <1>1, <1>3 DEF Fail, Failing
<1>4. CASE MarkDelivered(w)
  BY <1>1, <1>4 DEF MarkDelivered, At
<1> QED BY <1>2, <1>3, <1>4 DEF Leaving

(* The completed run stays in the hands of its goroutine. *)
LEMMA CompleteKeepsOwnership ==
  ASSUME TypeOK, OneProcessOnly, Ownership, NEW w \in Workers, CompleteRun(w)
  PROVE  Ownership'
<1> USE ConstantsAssumption DEF OneProcessOnly
<1>1. /\ cur[w] \in RunIds /\ Busy(w) /\ Owned(cur[w]) /\ IsOpen(cur[w])
      /\ iter[w] \in Nat
  BY DEF CompleteRun, At, TypeOK, WorkersOK, Busy, Owned, Ownership, BusyOK
<1>2. /\ cur' = cur /\ sess' = sess /\ phase' = phase /\ queue' = queue /\ active' = active
      /\ pc' = [pc EXCEPT ![w] = "completed"] /\ status'[cur[w]] = "completed"
      /\ \A r \in RunIds : r # cur[w] => riter'[r] = riter[r] /\ status'[r] = status[r]
  BY <1>1 DEF CompleteRun, Goto, SaveRun, mine, procs, TypeOK, TablesOK
<1>3. \A r \in RunIds : IsOpen(r)' <=> IsOpen(r) /\ r # cur[w]
  BY <1>1, <1>2 DEF IsOpen, Incomplete
<1>4. \A x \in Workers : x # w => pc'[x] = pc[x]
  BY <1>2 DEF TypeOK, WorkersOK
<1>5. BusyOK'
  <2>1. \A x \in Workers : Busy(x) => cur[x] \in RunIds
    BY DEF TypeOK, WorkersOK, Busy
  <2>2. \A x \in Workers : Busy(x) /\ x # w => cur[x] # cur[w]
    BY <1>1 DEF Ownership, BusyOK
  <2>3. pc'[w] = "completed"
    BY <1>2 DEF TypeOK, WorkersOK
  <2> QED BY <1>1, <1>2, <1>3, <1>4, <2>1, <2>2, <2>3 DEF Ownership, BusyOK, Busy, At
<1>6. QueueOK'
  <2> SUFFICES ASSUME NEW p \in Procs, NEW row \in queue[p]
               PROVE  /\ phase[p] = "recovering"
                      /\ IsOpen(row[1])' /\ row[2] = riter'[row[1]] /\ ~Owned(row[1])
    BY <1>2 DEF QueueOK, Owned
  <2>1. /\ row[1] \in RunIds /\ phase[p] = "recovering" /\ IsOpen(row[1])
        /\ row[2] = riter[row[1]] /\ ~Owned(row[1])
    BY DEF TypeOK, ProcsOK, Ownership, QueueOK
  <2> QED BY <1>1, <1>2, <1>3, <2>1
<1>7. OpenOK'
  BY <1>2, <1>3 DEF Ownership, OpenOK, Owned
<1>8. OneOpenRunPerSession'
  BY <1>2, <1>3 DEF Ownership, OneOpenRunPerSession
<1> QED BY <1>5, <1>6, <1>7, <1>8 DEF Ownership

LEMMA OwnershipStep ==
  ASSUME TypeOK, OneProcessOnly, Ownership, [Next]_vars
  PROVE  Ownership'
<1>1. ASSUME NEW w \in Workers, NEW r \in RunIds, NEW s \in Sessions,
             NEW i \in Items \cup {NoItem}, Accept(w, r, s, i)
      PROVE  Ownership'
  BY <1>1, AcceptKeepsOwnership
<1>2. ASSUME NEW w \in Workers, Working(w) PROVE Ownership'
  BY <1>2, WorkingSteps, WorkKeepsOwnership
<1>3. ASSUME NEW w \in Workers, Leaving(w) PROVE Ownership'
  BY <1>3, LeavingSteps, LeaveKeepsOwnership
<1>4. ASSUME NEW w \in Workers, CompleteRun(w) PROVE Ownership'
  BY <1>4, CompleteKeepsOwnership
<1>5. ASSUME NEW w \in Workers, Recover(w) PROVE Ownership'
  <2>1. PICK row \in queue[ProcOf[w]] : \/ CloseInterrupted(w, row[1], row[2])
                                        \/ ResumeModel(w, row[1], row[2])
                                        \/ ResumeTools(w, row[1], row[2])
    BY <1>5 DEF Recover
  <2> QED BY <2>1, RecoverKeepsOwnership
<1>6. ASSUME NEW p \in Procs, Boot(p) \/ Serve(p) \/ Exit(p) \/ Crash(p) PROVE Ownership'
  BY <1>6, ProcessKeepsOwnership
<1>7. CASE UNCHANGED vars
  BY <1>7 DEF vars, db, tables, procs, local, mine, Ownership, BusyOK, QueueOK, OpenOK,
    OneOpenRunPerSession, Busy, Owned, IsOpen, At
<1>8. \A w \in Workers : Step(w) \/ Fail(w) => Working(w) \/ Leaving(w) \/ CompleteRun(w)
  BY DEF Step, Working, Leaving
<1> QED BY <1>1, <1>2, <1>3, <1>4, <1>5, <1>6, <1>7, <1>8 DEF Next

\* One process never has two unfinished runs of a session in the run table,
\* and once it serves each of its unfinished runs is some goroutine's own:
\* the in-memory map Loop.active, set up afresh at every start, agrees with
\* what the table says after any crash and recovery.
THEOREM OneOpenRun ==
  ASSUME OneProcessOnly
  PROVE  Spec => [](OneOpenRunPerSession /\ NoOrphanRun)
<1>1. TypeOK /\ Ownership => OneOpenRunPerSession /\ NoOrphanRun
  BY DEF Ownership, OpenOK, Owned, NoOrphanRun
<1>2. TypeOK /\ Ownership /\ [Next]_vars => Ownership'
  BY OneProcessOnly, OwnershipStep
<1> QED BY <1>1, <1>2, OwnershipInit, TypeCorrect, PTL DEF Spec

\* No return of the loop leaves its run open behind it.
THEOREM NoOrphans ==
  ASSUME OneProcessOnly
  PROVE  Spec => []NoOrphanRun
BY OneProcessOnly, OneOpenRun, PTL

(***************************************************************************)
(* Tool rounds.  The iterations counted and the rounds saved differ by the *)
(* round in progress and by one for each crash.                            *)
(***************************************************************************)
Asking == {"prompt", "drop", "ready", "model"}

(* What IterationOK says of a goroutine that has a run. *)
RoundsOK(l, it, n) ==
  /\ l \in Serving => n <= it + 1 + crashes
  /\ l \notin Serving => n <= it + crashes
  /\ l \in Asking => it < MaxToolIterations

LEMMA IterationInit == Init => IterationOK
BY ConstantsAssumption
DEF Init, IterationOK, Busy, Owned, IsOpen, Incomplete, ToolRoundsBounded

(* A step of one goroutine on its own run disturbs no other goroutine. *)
LEMMA HoldKeepsIteration ==
  ASSUME TypeOK, Ownership, IterationOK, NEW w \in Workers, Busy(w),
         UNCHANGED <<cur, crashes>>, status'[cur[w]] # "none",
         \A x \in Workers : x # w => pc'[x] = pc[x] /\ iter'[x] = iter[x],
         \A r \in RunIds : r # cur[w] =>
           status'[r] = status[r] /\ riter'[r] = riter[r] /\ rounds'[r] = rounds[r],
         iter'[w] = riter'[cur[w]],
         RoundsOK(pc'[w], iter'[w], rounds'[cur[w]]),
         rounds'[cur[w]] <= MaxToolIterations + crashes
  PROVE  IterationOK'
<1>1. cur[w] \in RunIds /\ Owned(cur[w])
  BY DEF TypeOK, WorkersOK, Busy, Owned
<1>2. \A x \in Workers : x # w /\ Busy(x) => cur[x] \in RunIds /\ cur[x] # cur[w]
  <2>1. \A x \in Workers : x # w /\ Busy(x) => sess[cur[x]] # sess[cur[w]]
    BY DEF Ownership, BusyOK
  <2>2. \A x \in Workers : Busy(x) => cur[x] \in RunIds
    BY DEF TypeOK, WorkersOK, Busy
  <2> QED BY <2>1, <2>2
<1>3. \A x \in Workers : ~Busy(x)' => iter'[x] = 0
  BY DEF IterationOK, Busy
<1>4. ASSUME NEW x \in Workers, Busy(x)'
      PROVE  iter'[x] = riter'[cur'[x]] /\ RoundsOK(pc[x], iter[x], rounds[cur[x]])'
  <2>1. CASE x = w
    BY <2>1 DEF RoundsOK
  <2>2. CASE x # w
    <3>1. Busy(x) /\ cur[x] \in RunIds /\ cur[x] # cur[w]
      BY <1>2, <1>4, <2>2 DEF Busy
    <3> QED BY <2>2, <3>1 DEF IterationOK, RoundsOK, Asking
  <2> QED BY <2>1, <2>2
<1>5. \A r \in RunIds : status'[r] = "none" => rounds'[r] = 0
  BY DEF IterationOK
<1>6. ASSUME NEW r \in RunIds, IsOpen(r)', ~Owned(r)'
      PROVE  rounds'[r] <= riter'[r] + crashes'
  <2>1. r # cur[w] /\ ~Owned(r)
    BY <1>1, <1>6 DEF Owned
  <2>2. IsOpen(r) /\ rounds'[r] = rounds[r] /\ riter'[r] = riter[r]
    BY <1>6, <2>1 DEF IsOpen
  <2> QED BY <2>1, <2>2 DEF IterationOK
<1>7. ToolRoundsBounded'
  BY DEF IterationOK, ToolRoundsBounded
<1> QED BY <1>3, <1>4, <1>5, <1>6, <1>7 DEF IterationOK, RoundsOK, Asking

(* What a goroutine at work knows of its run. *)
LEMMA AtRounds ==
  ASSUME TypeOK, Ownership, IterationOK, NEW w \in Workers, pc[w] # "idle"
  PROVE  /\ Busy(w) /\ cur[w] \in RunIds /\ iter[w] \in Nat /\ crashes \in Nat
         /\ rounds[cur[w]] \in Nat /\ iter[w] = riter[cur[w]] /\ status[cur[w]] # "none"
         /\ RoundsOK(pc[w], iter[w], rounds[cur[w]])
         /\ rounds[cur[w]] <= MaxToolIterations + crashes
<1>1. Busy(w) /\ cur[w] \in RunIds /\ iter[w] \in Nat
  BY DEF TypeOK, WorkersOK, Busy, At
<1>2. crashes \in Nat /\ rounds[cur[w]] \in Nat
  BY <1>1 DEF TypeOK, HistoryOK
<1>3. status[cur[w]] # "none"
  BY <1>1 DEF Ownership, BusyOK, IsOpen, Incomplete
<1>4. /\ iter[w] = riter[cur[w]] /\ RoundsOK(pc[w], iter[w], rounds[cur[w]])
      /\ rounds[cur[w]] <= MaxToolIterations + crashes
  BY <1>1 DEF IterationOK, RoundsOK, Asking, ToolRoundsBounded
<1> QED BY <1>1, <1>2, <1>3, <1>4

(* Steps that save no round: the iteration goes along with the row. *)
LEMMA GotoKeepsIteration ==
  ASSUME TypeOK, Ownership, IterationOK, NEW w \in Workers, pc[w] # "idle",
         NEW l \in Labels, Goto(w, l), UNCHANGED <<cur, rounds, crashes>>,
         \/ /\ UNCHANGED <<status, riter, iter>>
         \/ /\ \E st \in Incomplete \cup {"completed"} : SaveRun(cur[w], st, iter[w])
            /\ UNCHANGED iter,
         RoundsOK(l, iter[w], rounds[cur[w]])
  PROVE  IterationOK'
<1>1. /\ Busy(w) /\ cur[w] \in RunIds /\ iter[w] = riter[cur[w]] /\ status[cur[w]] # "none"
      /\ rounds[cur[w]] <= MaxToolIterations + crashes
  BY AtRounds
<1>2. pc'[w] = l /\ \A x \in Workers : x # w => pc'[x] = pc[x]
  BY DEF Goto, TypeOK, WorkersOK
<1>3. /\ status'[cur[w]] # "none" /\ riter'[cur[w]] = iter[w]
      /\ \A r \in RunIds : r # cur[w] => status'[r] = status[r] /\ riter'[r] = riter[r]
  BY <1>1 DEF SaveRun, TypeOK, TablesOK, Incomplete
<1> QED BY <1>1, <1>2, <1>3, HoldKeepsIteration

LEMMA SaveToolCallsKeepsIteration ==
  ASSUME TypeOK, Ownership, IterationOK, NEW w \in Workers, NEW n \in 1 .. MaxCalls,
         SaveToolCalls(w, n)
  PROVE  IterationOK'
<1>1. /\ pc[w] = "model" /\ Goto(w, "called") /\ rounds' = [rounds EXCEPT ![cur[w]] = @ + 1]
      /\ UNCHANGED <<cur, iter, status, riter, crashes>>
  BY DEF SaveToolCalls, At, mine, tables
<1>2. /\ Busy(w) /\ cur[w] \in RunIds /\ iter[w] \in Nat /\ crashes \in Nat
      /\ rounds[cur[w]] \in Nat /\ iter[w] = riter[cur[w]] /\ status[cur[w]] # "none"
      /\ RoundsOK("model", iter[w], rounds[cur[w]])
  BY <1>1, AtRounds
<1>3. /\ rounds'[cur[w]] = rounds[cur[w]] + 1
      /\ \A r \in RunIds : r # cur[w] => rounds'[r] = rounds[r]
  BY <1>1, <1>2 DEF TypeOK, HistoryOK
<1>4. pc'[w] = "called" /\ \A x \in Workers : x # w => pc'[x] = pc[x]
  BY <1>1 DEF Goto, TypeOK, WorkersOK
<1>5. rounds[cur[w]] <= iter[w] + crashes /\ iter[w] < MaxToolIterations
  BY <1>2 DEF RoundsOK, Serving, Asking
<1>6. /\ rounds'[cur[w]] <= iter[w] + 1 + crashes
      /\ rounds'[cur[w]] <= MaxToolIterations + crashes
  BY <1>2, <1>3, <1>5, ConstantsAssumption
<1>7. RoundsOK(pc'[w], iter'[w], rounds'[cur[w]])
  BY <1>1, <1>4, <1>6 DEF RoundsOK, Serving, Asking
<1> QED BY <1>1, <1>2, <1>3, <1>4, <1>6, <1>7, HoldKeepsIteration

LEMMA FinishToolsKeepsIteration ==
  ASSUME TypeOK, Ownership, IterationOK, NEW w \in Workers, FinishTools(w)
  PROVE  IterationOK'
<1>1. /\ pc[w] = "tool" /\ Goto(w, "loop") /\ iter' = [iter EXCEPT ![w] = @ + 1]
      /\ SaveRun(cur[w], "tool_done", iter[w] + 1)
      /\ UNCHANGED <<cur, rounds, crashes>>
  BY DEF FinishTools, At, hist
<1>2. /\ Busy(w) /\ cur[w] \in RunIds /\ iter[w] \in Nat /\ crashes \in Nat
      /\ rounds[cur[w]] \in Nat
      /\ RoundsOK("tool", iter[w], rounds[cur[w]])
      /\ rounds[cur[w]] <= MaxToolIterations + crashes
  BY <1>1, AtRounds
<1>3. iter'[w] = iter[w] + 1 /\ \A x \in Workers : x # w => iter'[x] = iter[x]
  BY <1>1 DEF TypeOK, WorkersOK
<1>4. pc'[w] = "loop" /\ \A x \in Workers : x # w => pc'[x] = pc[x]
  BY <1>1 DEF Goto, TypeOK, WorkersOK
<1>5. /\ status'[cur[w]] = "tool_done" /\ riter'[cur[w]] = iter[w] + 1
      /\ \A r \in RunIds : r # cur[w] => status'[r] = status[r] /\ riter'[r] = riter[r]
  BY <1>1, <1>2 DEF SaveRun, TypeOK, TablesOK
<1>6. RoundsOK(pc'[w], iter'[w], rounds'[cur[w]])
  BY <1>1, <1>2, <1>3, <1>4 DEF RoundsOK, Serving, Asking
<1> QED BY <1>1, <1>2, <1>3, <1>4, <1>5, <1>6, HoldKeepsIteration

(* The other steps inside the loop save no round. *)
LEMMA WorkKeepsIteration ==
  ASSUME TypeOK, Ownership, IterationOK, NEW w \in Workers, Working(w) \/ CompleteRun(w)
  PROVE  IterationOK'
<1> USE DEF At, tables, db, mine, hist
<1>1. pc[w] # "idle" => RoundsOK(pc[w], iter[w], rounds[cur[w]])
  BY AtRounds
<1>2. CASE SaveUserMessage(w)
  <2>1. /\ pc[w] = "accepted" /\ Goto(w, "loop") /\ UNCHANGED <<cur, rounds, crashes, status, riter, iter>>
        /\ RoundsOK("loop", iter[w], rounds[cur[w]])
    BY <1>1, <1>2 DEF SaveUserMessage, RoundsOK, Serving, Asking
  <2> QED BY <2>1, GotoKeepsIteration DEF Labels
<1>3. CASE BuildPrompt(w)
  <2>1. /\ pc[w] = "loop" /\ Goto(w, "prompt") /\ UNCHANGED <<cur, rounds, crashes, status, riter, iter>>
        /\ RoundsOK("prompt", iter[w], rounds[cur[w]])
    BY <1>1, <1>3 DEF BuildPrompt, RoundsOK, Serving, Asking
  <2> QED BY <2>1, GotoKeepsIteration DEF Labels
<1>4. CASE SaveSummary(w)
  <2>1. /\ pc[w] = "prompt" /\ Goto(w, "drop") /\ UNCHANGED <<cur, rounds, crashes, status, riter, iter>>
        /\ RoundsOK("drop", iter[w], rounds[cur[w]])
    BY <1>1, <1>4 DEF SaveSummary, RoundsOK, Serving, Asking
  <2> QED BY <2>1, GotoKeepsIteration DEF Labels
<1>5. CASE DropCompacted(w)
  <2>1. /\ pc[w] = "drop" /\ Goto(w, "ready") /\ UNCHANGED <<cur, rounds, crashes, status, riter, iter>>
        /\ RoundsOK("ready", iter[w], rounds[cur[w]])
    BY <1>1, <1>5 DEF DropCompacted, RoundsOK, Serving, Asking
  <2> QED BY <2>1, GotoKeepsIteration DEF Labels
<1>6. CASE AskModel(w)
  <2>1. /\ pc[w] \in {"prompt", "ready"} /\ Goto(w, "model") /\ UNCHANGED <<cur, rounds, crashes, iter>>
        /\ SaveRun(cur[w], "model", iter[w]) /\ RoundsOK("model", iter[w], rounds[cur[w]])
    BY <1>1, <1>6 DEF AskModel, RoundsOK, Serving, Asking
  <2> QED BY <2>1, GotoKeepsIteration DEF Labels, Incomplete
<1>7. CASE SaveAnswer(w)
  <2>1. /\ pc[w] = "model" /\ Goto(w, "answered") /\ UNCHANGED <<cur, rounds, crashes, status, riter, iter>>
        /\ RoundsOK("answered", iter[w], rounds[cur[w]])
    BY <1>1, <1>7 DEF SaveAnswer, RoundsOK, Serving, Asking
  <2> QED BY <2>1, GotoKeepsIteration DEF Labels
<1>8. CASE BeginTools(w)
  <2>1. /\ pc[w] = "called" /\ Goto(w, "tool") /\ UNCHANGED <<cur, rounds, crashes, iter>>
        /\ SaveRun(cur[w], "tool_pending", iter[w]) /\ RoundsOK("tool", iter[w], rounds[cur[w]])
    BY <1>1, <1>8 DEF BeginTools, RoundsOK, Serving, Asking
  <2> QED BY <2>1, GotoKeepsIteration DEF Labels, Incomplete
<1>9. CASE FinishTools(w)
  BY <1>9, FinishToolsKeepsIteration
<1>10. ASSUME NEW n \in 1 .. MaxCalls, SaveToolCalls(w, n) PROVE IterationOK'
  BY <1>10, SaveToolCallsKeepsIteration
<1>11. ASSUME \/ \E c \in todo[w], outcome \in {"ok"} \cup ErrKinds : ExecTool(w, c, outcome)
              \/ \E outcome \in {"denied", "unknown"} : RefuseCall(w, outcome)
              \/ \E c \in todo[w] : PersistResult(w, c)
       PROVE  IterationOK'
  <2>1. PICK l \in {"result", "tool", "stop"} :
          /\ pc[w] \in {"tool", "result"} /\ Goto(w, l)
          /\ UNCHANGED <<cur, rounds, crashes, status, riter, iter>>
    BY <1>11 DEF ExecTool, RefuseCall, PersistResult
  <2>2. RoundsOK(l, iter[w], rounds[cur[w]])
    BY <1>1, <2>1 DEF RoundsOK, Serving, Asking
  <2> QED BY <2>1, <2>2, GotoKeepsIteration DEF Labels
<1>12. CASE CompleteRun(w)
  <2>1. /\ pc[w] = "answered" /\ Goto(w, "completed") /\ UNCHANGED <<cur, rounds, crashes, iter>>
        /\ SaveRun(cur[w], "completed", iter[w]) /\ RoundsOK("completed", iter[w], rounds[cur[w]])
    BY <1>1, <1>12 DEF CompleteRun, RoundsOK, Serving, Asking
  <2> QED BY <2>1, GotoKeepsIteration DEF Labels
<1>13. CASE DeleteFails(w)
  <2>1. /\ pc[w] = "drop" /\ Goto(w, "ready") /\ UNCHANGED <<cur, rounds, crashes, status, riter, iter>>
        /\ RoundsOK("ready", iter[w], rounds[cur[w]])
    BY <1>1, <1>13 DEF DeleteFails, RoundsOK, Serving, Asking
  <2> QED BY <2>1, GotoKeepsIteration DEF Labels
<1> QED BY <1>2, <1>3, <1>4, <1>5, <1>6, <1>7, <1>8, <1>9, <1>10, <1>11, <1>12, <1>13 DEF Working

(* A run that its goroutine leaves is closed, and its rounds are final. *)
LEMMA LeaveKeepsIteration ==
  ASSUME TypeOK, Ownership, IterationOK, NEW w \in Workers, Leaving(w)
  PROVE  IterationOK'
<1>1. /\ Busy(w) /\ cur[w] \in RunIds /\ UNCHANGED <<rounds, crashes>>
      /\ cur' = [cur EXCEPT ![w] = NoRun] /\ iter' = [iter EXCEPT ![w] = 0]
      /\ pc' = [pc EXCEPT ![w] = "idle"]
  BY LeavingSteps DEF Leaving, StopAtLimit, StopRepeated, Fail, MarkDelivered, Leave, hist,
     TypeOK, WorkersOK, Busy
<1>2. /\ status'[cur[w]] \in Terminal
      /\ \A r \in RunIds : r # cur[w] => status'[r] = status[r] /\ riter'[r] = riter[r]
  <2>1. CASE At(w, "completed") /\ UNCHANGED <<status, riter>>
    BY <1>1, <2>1 DEF Ownership, BusyOK, Terminal
  <2>2. CASE \E it \in Nat : SaveRun(cur[w], "failed", it)
    BY <1>1, <2>2 DEF SaveRun, TypeOK, TablesOK, Terminal
  <2> QED BY <2>1, <2>2, LeavingSteps
<1>3. /\ cur'[w] = NoRun /\ iter'[w] = 0
      /\ \A x \in Workers : x # w => cur'[x] = cur[x] /\ iter'[x] = iter[x] /\ pc'[x] = pc[x]
  BY <1>1 DEF TypeOK, WorkersOK
<1>4. \A x \in Workers : x # w /\ Busy(x) => cur[x] \in RunIds /\ cur[x] # cur[w]
  BY <1>1 DEF Ownership, BusyOK, TypeOK, WorkersOK, Busy
<1>5. \A x \in Workers : ~Busy(x)' => iter'[x] = 0
  BY <1>3 DEF IterationOK, Busy
<1>6. ASSUME NEW x \in Workers, Busy(x)'
      PROVE  iter'[x] = riter'[cur'[x]] /\ RoundsOK(pc[x], iter[x], rounds[cur[x]])'
  <2>1. x # w /\ Busy(x) /\ cur[x] \in RunIds /\ cur[x] # cur[w]
    BY <1>3, <1>4, <1>6 DEF Busy
  <2> QED BY <1>1, <1>2, <1>3, <2>1 DEF IterationOK, RoundsOK, Asking
<1>7. \A r \in RunIds : status'[r] = "none" => rounds'[r] = 0
  BY <1>1, <1>2 DEF IterationOK, Terminal
<1>8. ASSUME NEW r \in RunIds, IsOpen(r)', ~Owned(r)'
      PROVE  rounds'[r] <= riter'[r] + crashes'
  <2>1. r # cur[w]
    BY <1>2, <1>8 DEF IsOpen, Incomplete, Terminal
  <2>2. IsOpen(r) /\ ~Owned(r) /\ rounds'[r] = rounds[r] /\ riter'[r] = riter[r]
    BY <1>1, <1>2, <1>3, <1>8, <2>1 DEF IsOpen, Owned
  <2> QED BY <1>1, <2>2 DEF IterationOK
<1>9. ToolRoundsBounded'
  BY <1>1 DEF IterationOK, ToolRoundsBounded
<1> QED BY <1>5, <1>6, <1>7, <1>8, <1>9 DEF IterationOK, RoundsOK, Asking

LEMMA AcceptKeepsIteration ==
  ASSUME TypeOK, Ownership, IterationOK, NEW w \in Workers, NEW r \in RunIds,
         NEW s \in Sessions, NEW i \in Items \cup {NoItem}, Accept(w, r, s, i)
  PROVE  IterationOK'
<1>1. /\ ~Busy(w) /\ status[r] = "none" /\ UNCHANGED <<iter, rounds, crashes>>
      /\ cur' = [cur EXCEPT ![w] = r] /\ pc' = [pc EXCEPT ![w] = "accepted"]
      /\ status' = [status EXCEPT ![r] = "accepted"] /\ riter' = [riter EXCEPT ![r] = 0]
  BY DEF Accept, SaveRun, Goto, hist, At, TypeOK, WorkersOK, Busy
<1>2. /\ status'[r] = "accepted" /\ riter'[r] = 0
      /\ \A q \in RunIds : q # r => status'[q] = status[q] /\ riter'[q] = riter[q]
  BY <1>1 DEF TypeOK, TablesOK
<1>3. /\ cur'[w] = r /\ pc'[w] = "accepted" /\ iter'[w] = 0
      /\ \A x \in Workers : x # w => cur'[x] = cur[x] /\ pc'[x] = pc[x] /\ iter'[x] = iter[x]
  BY <1>1 DEF TypeOK, WorkersOK, IterationOK
<1>4. rounds[r] = 0 /\ crashes \in Nat
  BY <1>1 DEF IterationOK, TypeOK, HistoryOK
<1>5. \A x \in Workers : Busy(x) => cur[x] \in RunIds /\ cur[x] # r
  <2>1. \A x \in Workers : Busy(x) => status[cur[x]] # "none"
    BY DEF Ownership, BusyOK, IsOpen, Incomplete
  <2>2. \A x \in Workers : Busy(x) => cur[x] \in RunIds
    BY DEF TypeOK, WorkersOK, Busy
  <2> QED BY <1>1, <2>1, <2>2
<1>6. \A x \in Workers : ~Busy(x)' => iter'[x] = 0
  BY <1>3 DEF IterationOK, Busy
<1>7. ASSUME NEW x \in Workers, Busy(x)'
      PROVE  iter'[x] = riter'[cur'[x]] /\ RoundsOK(pc[x], iter[x], rounds[cur[x]])'
  <2>1. CASE x = w
    BY <1>1, <1>2, <1>3, <1>4, <2>1 DEF RoundsOK, Serving, Asking
  <2>2. CASE x # w
    <3>1. Busy(x) /\ cur[x] \in RunIds /\ cur[x] # r
      BY <1>3, <1>5, <1>7, <2>2 DEF Busy
    <3> QED BY <1>1, <1>2, <1>3, <2>2, <3>1 DEF IterationOK, RoundsOK, Asking
  <2> QED BY <2>1, <2>2
<1>8. \A q \in RunIds : status'[q] = "none" => rounds'[q] = 0
  BY <1>1, <1>2 DEF IterationOK
<1>9. ASSUME NEW q \in RunIds, IsOpen(q)', ~Owned(q)'
      PROVE  rounds'[q] <= riter'[q] + crashes'
  <2>1. q # r
    BY <1>3, <1>9 DEF Owned
  <2>2. IsOpen(q) /\ ~Owned(q)
    <3>1. \A x \in Workers : cur[x] = q => cur'[x] = q
      BY <1>1, <1>3, ConstantsAssumption DEF Busy
    <3> QED BY <1>2, <1>9, <2>1, <3>1 DEF IsOpen, Owned
  <2> QED BY <1>1, <1>2, <2>1, <2>2 DEF IterationOK
<1>10. ToolRoundsBounded'
  BY <1>1 DEF IterationOK, ToolRoundsBounded
<1> QED BY <1>6, <1>7, <1>8, <1>9, <1>10 DEF IterationOK, RoundsOK, Asking

(* A crash leaves rounds that were not counted, one at most for each run.  *)
LEMMA ProcessKeepsIteration ==
  ASSUME TypeOK, OneProcessOnly, Ownership, IterationOK, NEW p \in Procs,
         Boot(p) \/ Serve(p) \/ Exit(p) \/ Crash(p)
  PROVE  IterationOK'
<1>1. UNCHANGED <<status, riter, rounds>>
  BY DEF Boot, Serve, Exit, Crash, db, tables, hist
<1>2. CASE Boot(p) \/ Serve(p) \/ Exit(p)
  <2>1. UNCHANGED <<pc, cur, iter, crashes>>
    BY <1>2 DEF Boot, Serve, Exit, local, mine, hist
  <2> QED BY <1>1, <2>1 DEF IterationOK, ToolRoundsBounded, Busy, Owned, IsOpen, At
<1>3. CASE Crash(p)
  <2>1. /\ crashes \in Nat /\ crashes' = crashes + 1
        /\ \A w \in Workers : cur'[w] = NoRun /\ iter'[w] = 0
    BY <1>3, ConstantsAssumption DEF Crash, OneProcessOnly, TypeOK, HistoryOK
  <2>2. ASSUME NEW r \in RunIds, IsOpen(r) PROVE rounds[r] <= riter[r] + crashes + 1
    <3>1. riter[r] \in Nat /\ rounds[r] \in Nat
      BY DEF TypeOK, TablesOK, HistoryOK
    <3>2. CASE ~Owned(r)
      BY <2>1, <2>2, <3>1, <3>2 DEF IterationOK
    <3>3. CASE Owned(r)
      <4>1. PICK w \in Workers : cur[w] = r
        BY <3>3 DEF Owned
      <4>2. Busy(w)
        BY <4>1, ConstantsAssumption DEF Busy
      <4>3. /\ iter[w] = riter[r]
            /\ rounds[r] <= iter[w] + 1 + crashes \/ rounds[r] <= iter[w] + crashes
        BY <4>1, <4>2 DEF IterationOK
      <4> QED BY <2>1, <3>1, <4>3
    <3> QED BY <3>2, <3>3
  <2>3. \A w \in Workers : ~Busy(w)' /\ iter'[w] = 0
    BY <2>1 DEF Busy
  <2>4. \A r \in RunIds : IsOpen(r)' => rounds'[r] <= riter'[r] + crashes'
    <3> SUFFICES ASSUME NEW r \in RunIds, IsOpen(r) PROVE rounds[r] <= riter[r] + (crashes + 1)
      BY <1>1, <2>1 DEF IsOpen
    <3>1. riter[r] \in Nat /\ rounds[r] \in Nat
      BY DEF TypeOK, TablesOK, HistoryOK
    <3> QED BY <2>1, <2>2, <3>1
  <2>5. ToolRoundsBounded'
    <3> SUFFICES ASSUME NEW r \in RunIds PROVE rounds[r] <= MaxToolIterations + (crashes + 1)
      BY <1>1, <2>1 DEF ToolRoundsBounded
    <3>1. rounds[r] \in Nat /\ rounds[r] <= MaxToolIterations + crashes
      BY DEF TypeOK, HistoryOK, IterationOK, ToolRoundsBounded
    <3> QED BY <2>1, <3>1, ConstantsAssumption
  <2>6. \A r \in RunIds : status'[r] = "none" => rounds'[r] = 0
    BY <1>1 DEF IterationOK
  <2> QED BY <2>3, <2>4, <2>5, <2>6 DEF IterationOK
<1> QED BY <1>2, <1>3

(* Recovery goes on from the iteration in the row it listed. *)
LEMMA RecoverKeepsIteration ==
  ASSUME TypeOK, OneProcessOnly, Ownership, IterationOK,
         NEW w \in Workers, NEW row \in queue[ProcOf[w]],
         \/ CloseInterrupted(w, row[1], row[2])
         \/ ResumeModel(w, row[1], row[2])
         \/ ResumeTools(w, row[1], row[2])
  PROVE  IterationOK'
<1> DEFINE r == row[1]
<1>1. r \in RunIds /\ row[2] = riter[r] /\ IsOpen(r) /\ ~Owned(r) /\ riter[r] \in Nat
  BY ConstantsAssumption DEF TypeOK, TablesOK, ProcsOK, Ownership, QueueOK
<1>2. \A x \in Workers : ~Busy(x)
  BY ConstantsAssumption DEF OneProcessOnly, CloseInterrupted, ResumeModel, ResumeTools, Resume,
     AllIdle, TypeOK, WorkersOK, Busy
<1>3. UNCHANGED <<rounds, crashes>>
  BY DEF CloseInterrupted, ResumeModel, ResumeTools, hist
<1>4. PICK st \in Incomplete \cup {"failed"} : SaveRun(r, st, row[2])
  BY DEF CloseInterrupted, ResumeModel, ResumeTools, Incomplete
<1>5. /\ status'[r] = st /\ riter' = riter /\ \A q \in RunIds : q # r => status'[q] = status[q]
  BY <1>1, <1>4 DEF SaveRun, TypeOK, TablesOK
<1>6. \A q \in RunIds : IsOpen(q)' => IsOpen(q)
  BY <1>1, <1>5 DEF IsOpen
<1>7. rounds[r] <= riter[r] + crashes /\ \A x \in Workers : iter[x] = 0
  BY <1>1, <1>2 DEF IterationOK
<1>8. \A q \in RunIds : IsOpen(q)' => rounds'[q] <= riter'[q] + crashes'
  <2>1. \A q \in RunIds : ~Owned(q)
    BY <1>2, ConstantsAssumption DEF Owned, Busy
  <2> QED BY <1>3, <1>5, <1>6, <2>1 DEF IterationOK
<1>9. \A q \in RunIds : status'[q] = "none" => rounds'[q] = 0
  BY <1>3, <1>5 DEF IterationOK, Incomplete
<1>10. ToolRoundsBounded'
  BY <1>3 DEF IterationOK, ToolRoundsBounded
<1>11. CASE CloseInterrupted(w, row[1], row[2])
  <2>1. UNCHANGED <<cur, iter>>
    BY <1>11 DEF CloseInterrupted, local, mine
  <2> QED BY <1>2, <1>7, <1>8, <1>9, <1>10, <2>1 DEF IterationOK, Busy
<1>12. CASE ResumeModel(w, row[1], row[2]) \/ ResumeTools(w, row[1], row[2])
  <2>1. /\ cur' = [cur EXCEPT ![w] = r] /\ iter' = [iter EXCEPT ![w] = row[2]]
        /\ Goto(w, "loop") \/ Goto(w, "tool")
    BY <1>12 DEF ResumeModel, ResumeTools
  <2>2. /\ cur'[w] = r /\ iter'[w] = riter[r] /\ pc'[w] \in {"loop", "tool"}
        /\ \A x \in Workers : x # w => ~Busy(x)' /\ iter'[x] = 0
    BY <1>1, <1>2, <1>7, <2>1 DEF Goto, TypeOK, WorkersOK, Busy
  <2>3. crashes \in Nat /\ rounds[r] \in Nat
    BY <1>1 DEF TypeOK, HistoryOK
  <2>4. RoundsOK(pc'[w], iter'[w], rounds'[r])
    BY <1>1, <1>3, <1>7, <2>2, <2>3 DEF RoundsOK, Serving, Asking
  <2>5. \A x \in Workers : ~Busy(x)' => iter'[x] = 0
    BY <1>1, <2>2, ConstantsAssumption DEF Busy
  <2>6. \A x \in Workers : Busy(x)' =>
          iter'[x] = riter'[cur'[x]] /\ RoundsOK(pc[x], iter[x], rounds[cur[x]])'
    BY <1>3, <1>5, <2>2, <2>4 DEF RoundsOK
  <2> QED BY <1>8, <1>9, <1>10, <2>5, <2>6 DEF IterationOK, RoundsOK, Asking
<1> QED BY <1>11, <1>12

LEMMA IterationStep ==
  ASSUME TypeOK, OneProcessOnly, Ownership, IterationOK, [Next]_vars
  PROVE  IterationOK'
<1>1. ASSUME NEW w \in Workers, NEW r \in RunIds, NEW s \in Sessions,
             NEW i \in Items \cup {NoItem}, Accept(w, r, s, i)
      PROVE  IterationOK'
  BY <1>1, AcceptKeepsIteration
<1>2. ASSUME NEW w \in Workers, Working(w) \/ CompleteRun(w) PROVE IterationOK'
  BY <1>2, WorkKeepsIteration
<1>3. ASSUME NEW w \in Workers, Leaving(w) PROVE IterationOK'
  BY <1>3, LeaveKeepsIteration
<1>4. ASSUME NEW w \in Workers, Recover(w) PROVE IterationOK'
  <2>1. PICK row \in queue[ProcOf[w]] : \/ CloseInterrupted(w, row[1], row[2])
                                        \/ ResumeModel(w, row[1], row[2])
                                        \/ ResumeTools(w, row[1], row[2])
    BY <1>4 DEF Recover
  <2> QED BY <2>1, RecoverKeepsIteration
<1>5. ASSUME NEW p \in Procs, Boot(p) \/ Serve(p) \/ Exit(p) \/ Crash(p) PROVE IterationOK'
  BY <1>5, ProcessKeepsIteration
<1>6. CASE UNCHANGED vars
  BY <1>6 DEF vars, db, tables, procs, local, mine, hist, IterationOK, ToolRoundsBounded,
    Busy, Owned, IsOpen, At
<1>7. \A w \in Workers : Step(w) \/ Fail(w) => Working(w) \/ Leaving(w) \/ CompleteRun(w)
  BY DEF Step, Working, Leaving
<1> QED BY <1>1, <1>2, <1>3, <1>4, <1>5, <1>6, <1>7 DEF Next

\* A run of one process asks for tools at most MaxToolIterations times and
\* once more for each crash, although the count is saved after the batch and
\* each recovery goes on from the row.
THEOREM RoundsAreBounded ==
  ASSUME OneProcessOnly
  PROVE  Spec => []ToolRoundsBounded
<1>1. IterationOK => ToolRoundsBounded
  BY DEF IterationOK
<1>2. TypeOK /\ Ownership /\ [Next]_vars => Ownership'
  BY OneProcessOnly, OwnershipStep
<1>3. TypeOK /\ Ownership /\ IterationOK /\ [Next]_vars => IterationOK'
  BY OneProcessOnly, IterationStep
<1> QED BY <1>1, <1>2, <1>3, OwnershipInit, IterationInit, TypeCorrect, PTL DEF Spec

(***************************************************************************)
(* The run book.  The status of an open run is hidden; a step of the loop  *)
(* opens a run, closes one, marks an item, or shows nothing.               *)
(***************************************************************************)
LEMMA BookUnchanged ==
  ASSUME UNCHANGED <<sess, deliveredBy>>,
         \A r \in RunIds : status'[r] = status[r] \/ (IsOpen(r) /\ IsOpen(r)')
  PROVE  UNCHANGED Book!vars
<1>1. \A r \in RunIds : (IF IsOpen(r) THEN "open" ELSE status[r])'
                        = IF IsOpen(r) THEN "open" ELSE status[r]
  BY DEF IsOpen
<1> QED BY <1>1 DEF Book!vars

LEMMA BookClosed ==
  ASSUME TypeOK, NEW r \in RunIds, IsOpen(r), NEW outcome \in Terminal, NEW it \in Nat,
         SaveRun(r, outcome, it), UNCHANGED <<sess, deliveredBy>>
  PROVE  Book!Next
<1>1. status'[r] = outcome /\ \A q \in RunIds : q # r => status'[q] = status[q]
  BY DEF SaveRun, TypeOK, TablesOK
<1>2. ~IsOpen(r)' /\ \A q \in RunIds : q # r => (IsOpen(q)' <=> IsOpen(q))
  BY <1>1 DEF IsOpen, Incomplete, Terminal
<1>3. Book!Close(r, outcome)
  BY <1>1, <1>2 DEF Book!Close
<1> QED BY <1>3 DEF Book!Next, Terminal

(* In a session that is not active no run is open. *)
LEMMA BookOpened ==
  ASSUME TypeOK, Ownership, NEW w \in Workers, NEW r \in RunIds, NEW s \in Sessions,
         NEW i \in Items \cup {NoItem}, Accept(w, r, s, i), OneProcessOnly
  PROVE  Book!Next
<1> USE ConstantsAssumption DEF OneProcessOnly
<1>1. /\ ProcOf[w] \in Procs /\ phase[ProcOf[w]] = "up" /\ s \notin active[ProcOf[w]]
      /\ status[r] = "none" /\ UNCHANGED deliveredBy
      /\ status' = [status EXCEPT ![r] = "accepted"] /\ sess' = [sess EXCEPT ![r] = s]
  BY DEF Accept, IsBusy, SaveRun
<1>2. \A q \in RunIds : IsOpen(q) => sess[q] # s
  <2> SUFFICES ASSUME NEW q \in RunIds, IsOpen(q) PROVE sess[q] # s
    OBVIOUS
  <2>1. PICK x \in Workers : cur[x] = q
    BY <1>1 DEF Ownership, OpenOK, Owned
  <2>2. ProcOf[x] = ProcOf[w] /\ Busy(x)
    BY <2>1 DEF Busy
  <2> QED BY <1>1, <2>1, <2>2 DEF Ownership, BusyOK
<1>3. status'[r] = "accepted" /\ \A q \in RunIds : q # r => status'[q] = status[q]
  BY <1>1 DEF TypeOK, TablesOK
<1>4. ~IsOpen(r) /\ IsOpen(r)' /\ \A q \in RunIds : q # r => (IsOpen(q)' <=> IsOpen(q))
  BY <1>1, <1>3 DEF IsOpen, Incomplete
<1>5. \A q \in RunIds : status[q] # "open"
  BY DEF TypeOK, TablesOK, Incomplete, Terminal
<1>6. Book!Open(r, s)
  <2> DEFINE book == [q \in RunIds |-> IF IsOpen(q) THEN "open" ELSE status[q]]
  <2>1. book[r] = "none" /\ \A q \in RunIds : book[q] = "open" => sess[q] # s
    BY <1>1, <1>2, <1>4, <1>5
  <2>2. book' = [book EXCEPT ![r] = "open"]
    BY <1>3, <1>4
  <2> QED BY <1>1, <2>1, <2>2 DEF Book!Open
<1> QED BY <1>6 DEF Book!Next

(* The run that marks the item is completed; without an item nothing shows. *)
LEMMA BookDelivered ==
  ASSUME TypeOK, Ownership, NEW w \in Workers, MarkDelivered(w)
  PROVE  Book!Next \/ UNCHANGED Book!vars
<1>1. cur[w] \in RunIds /\ status[cur[w]] = "completed" /\ UNCHANGED <<status, sess>>
  BY BusyRun DEF MarkDelivered, At, Busy, Ownership, BusyOK, TypeOK, WorkersOK
<1>2. deliveredBy' = [i \in Items |-> IF i = item[w] /\ deliveredBy[i] = NoRun
                                      THEN cur[w] ELSE deliveredBy[i]]
  BY DEF MarkDelivered
<1>3. deliveredBy = [i \in Items |-> deliveredBy[i]]
  BY DEF TypeOK, TablesOK
<1>4. CASE item[w] \in Items /\ deliveredBy[item[w]] = NoRun
  <2>1. Book!Deliver(cur[w], item[w])
    BY <1>1, <1>2, <1>3, <1>4 DEF Book!Deliver, IsOpen, Incomplete
  <2> QED BY <1>1, <1>4, <2>1 DEF Book!Next
<1>5. CASE ~(item[w] \in Items /\ deliveredBy[item[w]] = NoRun)
  <2>1. deliveredBy' = deliveredBy
    BY <1>2, <1>3, <1>5
  <2> QED BY <1>1, <2>1, BookUnchanged
<1> QED BY <1>4, <1>5

LEMMA BookStep ==
  ASSUME TypeOK, OneProcessOnly, Ownership, [Next]_vars
  PROVE  Book!Next \/ UNCHANGED Book!vars
<1>1. ASSUME NEW w \in Workers, NEW r \in RunIds, NEW s \in Sessions,
             NEW i \in Items \cup {NoItem}, Accept(w, r, s, i)
      PROVE  Book!Next
  BY <1>1, BookOpened
<1>2. ASSUME NEW w \in Workers, Working(w) PROVE UNCHANGED Book!vars
  <2>1. /\ cur[w] \in RunIds /\ IsOpen(cur[w]) /\ UNCHANGED <<sess, deliveredBy>>
        /\ \/ UNCHANGED <<status, riter>>
           \/ \E st \in Incomplete, it \in Nat : SaveRun(cur[w], st, it)
    BY <1>2, WorkingSteps DEF Busy, Ownership, BusyOK, TypeOK, WorkersOK
  <2>2. \A r \in RunIds : status'[r] = status[r] \/ (IsOpen(r) /\ IsOpen(r)')
    BY <2>1 DEF SaveRun, IsOpen, TypeOK, TablesOK
  <2> QED BY <2>1, <2>2, BookUnchanged
<1>3. ASSUME NEW w \in Workers, CompleteRun(w) PROVE Book!Next
  <2>1. /\ cur[w] \in RunIds /\ iter[w] \in Nat /\ IsOpen(cur[w])
    BY <1>3, BusyRun DEF CompleteRun, At, Busy, Ownership, BusyOK, TypeOK, WorkersOK
  <2> QED BY <1>3, <2>1, BookClosed DEF CompleteRun, Terminal
<1>4. ASSUME NEW w \in Workers, StopAtLimit(w) \/ StopRepeated(w) \/ Fail(w) PROVE Book!Next
  <2>1. /\ cur[w] \in RunIds /\ iter[w] \in Nat /\ IsOpen(cur[w])
        /\ SaveRun(cur[w], "failed", iter[w]) /\ UNCHANGED <<sess, deliveredBy>>
    BY <1>4, BusyRun DEF StopAtLimit, StopRepeated, Fail, Failing, At, Busy, Ownership, BusyOK,
      TypeOK, WorkersOK
  <2> QED BY <2>1, BookClosed DEF Terminal
<1>5. ASSUME NEW w \in Workers, MarkDelivered(w) PROVE Book!Next \/ UNCHANGED Book!vars
  BY <1>5, BookDelivered
<1>6. ASSUME NEW w \in Workers, NEW row \in queue[ProcOf[w]],
             CloseInterrupted(w, row[1], row[2])
      PROVE  Book!Next
  <2>1. row[1] \in RunIds /\ row[2] \in Nat /\ IsOpen(row[1])
    BY ConstantsAssumption DEF TypeOK, ProcsOK, Ownership, QueueOK
  <2> QED BY <1>6, <2>1, BookClosed DEF CloseInterrupted, Terminal
<1>7. ASSUME NEW w \in Workers, NEW row \in queue[ProcOf[w]],
             ResumeModel(w, row[1], row[2]) \/ ResumeTools(w, row[1], row[2])
      PROVE  UNCHANGED Book!vars
  <2>1. row[1] \in RunIds /\ IsOpen(row[1])
    BY ConstantsAssumption DEF TypeOK, ProcsOK, Ownership, QueueOK
  <2>2. /\ UNCHANGED <<sess, deliveredBy>>
        /\ \E st \in Incomplete : status' = [status EXCEPT ![row[1]] = st]
    BY <1>7 DEF ResumeModel, ResumeTools, SaveRun, Incomplete
  <2>3. \A r \in RunIds : status'[r] = status[r] \/ (IsOpen(r) /\ IsOpen(r)')
    BY <2>1, <2>2 DEF IsOpen, TypeOK, TablesOK
  <2> QED BY <2>2, <2>3, BookUnchanged
<1>8. ASSUME NEW p \in Procs, Boot(p) \/ Serve(p) \/ Exit(p) \/ Crash(p) PROVE UNCHANGED Book!vars
  <2>1. UNCHANGED <<status, sess, deliveredBy>>
    BY <1>8 DEF Boot, Serve, Exit, Crash, db, tables
  <2> QED BY <2>1, BookUnchanged
<1>9. CASE UNCHANGED vars
  <2>1. UNCHANGED <<status, sess, deliveredBy>>
    BY <1>9 DEF vars, db, tables
  <2> QED BY <2>1, BookUnchanged
<1>10. \A w \in Workers : Step(w) \/ Fail(w) =>
         \/ Working(w) \/ CompleteRun(w) \/ MarkDelivered(w)
         \/ StopAtLimit(w) \/ StopRepeated(w) \/ Fail(w)
  BY DEF Step, Working
<1> QED BY <1>1, <1>2, <1>3, <1>4, <1>5, <1>6, <1>7, <1>8, <1>9, <1>10 DEF Next, Recover

\* The loop of one process implements the run book, for any number of
\* goroutines, sessions and crashes: whatever goes on inside, a session has one
\* open run at most, a run is closed once, and a completed run marks its item.
THEOREM ImplementsRunBook ==
  ASSUME OneProcessOnly
  PROVE  Spec => RunBookSpec
<1>1. Init => Book!Init
  BY ConstantsAssumption DEF Init, Book!Init, IsOpen, Incomplete
<1>2. TypeOK /\ Ownership /\ [Next]_vars => [Book!Next]_(Book!vars)
  BY OneProcessOnly, BookStep
<1>3. TypeOK /\ Ownership /\ [Next]_vars => Ownership'
  BY OneProcessOnly, OwnershipStep
<1> QED BY <1>1, <1>2, <1>3, OwnershipInit, TypeCorrect, PTL DEF Spec, RunBookSpec, Book!Spec

LEMMA ClosedStep ==
  ASSUME TypeOK, OneProcessOnly, Ownership, [Next]_vars, NEW r \in RunIds, status[r] \in Terminal
  PROVE  status'[r] = status[r]
<1> DEFINE Shown == [q \in RunIds |-> IF IsOpen(q) THEN "open" ELSE status[q]]
<1>1. Shown[r] = status[r] /\ Shown[r] # "none" /\ Shown[r] # "open" /\ ~IsOpen(r)
  BY DEF IsOpen, Incomplete, Terminal
<1>2. Shown'[r] = Shown[r]
  BY <1>1, BookStep DEF Book!Next, Book!Open, Book!Close, Book!Deliver, Book!vars
<1>3. Shown'[r] = IF IsOpen(r)' THEN "open" ELSE status'[r]
  OBVIOUS
<1> QED BY <1>1, <1>2, <1>3

\* A closed run keeps its status: a step of the run book never touches it.
THEOREM ClosedRuns ==
  ASSUME OneProcessOnly
  PROVE  Spec => ClosedRunsStayClosed
<1>1. TypeOK /\ Ownership /\ [Next]_vars =>
        [\A r \in RunIds : status[r] \in Terminal => status'[r] = status[r]]_vars
  BY OneProcessOnly, ClosedStep
<1>2. TypeOK /\ Ownership /\ [Next]_vars => Ownership'
  BY OneProcessOnly, OwnershipStep
<1> QED BY <1>1, <1>2, OwnershipInit, TypeCorrect, PTL DEF Spec, ClosedRunsStayClosed

\* Two goroutines of one process are never inside the loop in one session:
\* neither Handle nor recovery, which enters sessions of its own, lets them.
THEOREM OneHandlePerSession ==
  ASSUME OneProcessOnly
  PROVE  Spec => []NoParallelHandle
<1>1. TypeOK /\ Ownership => NoParallelHandle
  BY DEF TypeOK, WorkersOK, Ownership, BusyOK, Busy, NoParallelHandle
<1>2. TypeOK /\ Ownership /\ [Next]_vars => Ownership'
  BY OneProcessOnly, OwnershipStep
<1> QED BY <1>1, <1>2, OwnershipInit, TypeCorrect, PTL DEF Spec

(***************************************************************************)
(* Answers.  A goroutine that is about to complete its run has saved the   *)
(* answer, and no step of another one comes between.                       *)
(***************************************************************************)
AnswerOK ==
  /\ \A w \in Workers : At(w, "answered") => cur[w] \in answered
  /\ DeliveredItemsAreAnswered

\* Who may be about to complete a run after a step, and what was answered.
LEMMA AnswerSteps ==
  ASSUME TypeOK, [Next]_vars
  PROVE  /\ answered \subseteq answered'
         /\ \A w \in Workers : At(w, "answered")' =>
              \/ At(w, "answered") /\ cur'[w] = cur[w]
              \/ cur'[w] \in answered'
<1> USE ConstantsAssumption DEF At, TypeOK, WorkersOK
<1>1. ASSUME NEW w \in Workers, SaveAnswer(w)
      PROVE  /\ answered' = answered \cup {cur[w]} /\ cur' = cur
             /\ pc' = [pc EXCEPT ![w] = "answered"]
  BY <1>1 DEF SaveAnswer, Goto, mine
<1>2. ASSUME NEW w \in Workers, Step(w) \/ Fail(w), ~SaveAnswer(w)
      PROVE  /\ answered' = answered
             /\ \E l \in Labels \ {"answered"} : pc' = [pc EXCEPT ![w] = l]
             /\ \A x \in Workers : x # w => cur'[x] = cur[x]
  <2>1. CASE Leave(w) /\ UNCHANGED answered
    BY <2>1 DEF Leave, Labels
  <2>2. CASE UNCHANGED <<cur, answered>> /\ \E l \in Labels \ {"answered"} : Goto(w, l)
    BY <2>2 DEF Goto
  <2>3. StopAtLimit(w) \/ StopRepeated(w) \/ Fail(w) \/ MarkDelivered(w) =>
          Leave(w) /\ UNCHANGED answered
    BY DEF StopAtLimit, StopRepeated, Fail, MarkDelivered, hist
  <2>4. SaveUserMessage(w) \/ BuildPrompt(w) \/ SaveSummary(w) \/ DropCompacted(w)
        \/ DeleteFails(w) \/ AskModel(w) \/ CompleteRun(w) \/ BeginTools(w) \/ FinishTools(w)
          => UNCHANGED <<cur, answered>> /\ \E l \in Labels \ {"answered"} : Goto(w, l)
    BY DEF SaveUserMessage, BuildPrompt, SaveSummary, DropCompacted, DeleteFails, AskModel,
      CompleteRun, BeginTools, FinishTools, Labels, hist, mine
  <2>5. ASSUME \/ \E n \in 1 .. MaxCalls : SaveToolCalls(w, n)
               \/ \E c \in todo[w], outcome \in {"ok"} \cup ErrKinds : ExecTool(w, c, outcome)
               \/ \E outcome \in {"denied", "unknown"} : RefuseCall(w, outcome)
               \/ \E c \in todo[w] : PersistResult(w, c)
        PROVE  UNCHANGED <<cur, answered>> /\ \E l \in Labels \ {"answered"} : Goto(w, l)
    BY <2>5 DEF SaveToolCalls, ExecTool, RefuseCall, PersistResult, Labels, hist, mine
  <2> QED BY <1>2, <2>1, <2>2, <2>3, <2>4, <2>5 DEF Step
<1>3. ASSUME NEW w \in Workers, NEW r \in RunIds, NEW s \in Sessions,
             NEW i \in Items \cup {NoItem}, Accept(w, r, s, i)
      PROVE  /\ answered' = answered /\ pc' = [pc EXCEPT ![w] = "accepted"]
             /\ cur' = [cur EXCEPT ![w] = r]
  BY <1>3 DEF Accept, Goto, hist
<1>4. ASSUME NEW w \in Workers, Recover(w)
      PROVE  /\ answered' = answered
             /\ \/ pc' = pc /\ cur' = cur
                \/ \E r : \E l \in {"loop", "tool"} : /\ pc' = [pc EXCEPT ![w] = l]
                                                     /\ cur' = [cur EXCEPT ![w] = r]
  BY <1>4 DEF Recover, CloseInterrupted, ResumeModel, ResumeTools, Goto, local, mine, hist
<1>5. ASSUME NEW p \in Procs, Boot(p) \/ Serve(p) \/ Exit(p) \/ UNCHANGED vars
      PROVE  UNCHANGED <<answered, pc, cur>>
  BY <1>5 DEF Boot, Serve, Exit, vars, local, mine, hist
<1>6. ASSUME NEW p \in Procs, Crash(p)
      PROVE  /\ answered' = answered
             /\ \A x \in Workers : pc'[x] = "idle" \/ (pc'[x] = pc[x] /\ cur'[x] = cur[x])
  BY <1>6 DEF Crash
<1>7. CASE UNCHANGED vars
  BY <1>7 DEF vars, local, mine, hist
<1>8. CASE \E w \in Workers : Step(w) \/ Fail(w)
  <2>1. PICK w \in Workers : Step(w) \/ Fail(w)
    BY <1>8
  <2>2. CASE SaveAnswer(w)
    BY <1>1, <2>2
  <2>3. CASE ~SaveAnswer(w)
    BY <1>2, <2>1, <2>3
  <2> QED BY <2>2, <2>3
<1>9. CASE \E w \in Workers : Recover(w)
  BY <1>4, <1>9
<1>10. CASE \E w \in Workers, r \in RunIds, s \in Sessions, i \in Items \cup {NoItem} :
              Accept(w, r, s, i)
  BY <1>3, <1>10
<1>11. CASE \E p \in Procs : Boot(p) \/ Serve(p) \/ Exit(p) \/ Crash(p)
  BY <1>5, <1>6, <1>11
<1> QED BY <1>7, <1>8, <1>9, <1>10, <1>11 DEF Next

\* A run becomes completed only from "answered".
LEMMA CompletedSteps ==
  ASSUME TypeOK, [Next]_vars, NEW r \in RunIds, status'[r] = "completed"
  PROVE  \/ status[r] = "completed"
         \/ \E w \in Workers : At(w, "answered") /\ cur[w] = r
<1> USE DEF TypeOK, TablesOK
<1>1. ASSUME NEW q \in RunIds, NEW st \in Incomplete \cup {"failed"}, NEW it, SaveRun(q, st, it)
      PROVE  status[r] = "completed"
  BY <1>1 DEF SaveRun, Incomplete
<1>2. ASSUME NEW w \in Workers, Working(w) PROVE status[r] = "completed"
  <2>1. cur[w] \in RunIds
    BY <1>2, WorkingSteps DEF Busy, WorkersOK
  <2> QED BY <1>1, <1>2, <2>1, WorkingSteps
<1>3. ASSUME NEW w \in Workers, Leaving(w) PROVE status[r] = "completed"
  <2>1. cur[w] \in RunIds
    BY <1>3, LeavingSteps DEF Busy, WorkersOK
  <2> QED BY <1>1, <1>3, <2>1, LeavingSteps
<1>4. ASSUME NEW w \in Workers, CompleteRun(w)
      PROVE  status[r] = "completed" \/ (At(w, "answered") /\ cur[w] = r)
  BY <1>4 DEF CompleteRun, SaveRun
<1>5. ASSUME NEW w \in Workers, Recover(w) PROVE status[r] = "completed"
  <2>1. \A row \in queue[ProcOf[w]] : row[1] \in RunIds
    BY ConstantsAssumption DEF ProcsOK
  <2>2. \E row \in queue[ProcOf[w]] : \E st \in Incomplete \cup {"failed"} :
          SaveRun(row[1], st, row[2])
    BY <1>5 DEF Recover, CloseInterrupted, ResumeModel, ResumeTools, Incomplete
  <2> QED BY <1>1, <2>1, <2>2
<1>6. ASSUME NEW w \in Workers, NEW q \in RunIds, NEW s \in Sessions,
             NEW i \in Items \cup {NoItem}, Accept(w, q, s, i)
      PROVE  status[r] = "completed"
  BY <1>1, <1>6 DEF Accept, Incomplete
<1>7. ASSUME NEW p \in Procs, Boot(p) \/ Serve(p) \/ Exit(p) \/ Crash(p) PROVE status' = status
  BY <1>7 DEF Boot, Serve, Exit, Crash, db, tables
<1>8. CASE UNCHANGED vars
  BY <1>8 DEF vars, db, tables
<1>9. \A w \in Workers : Step(w) \/ Fail(w) => Working(w) \/ Leaving(w) \/ CompleteRun(w)
  BY DEF Step, Working, Leaving
<1> QED BY <1>2, <1>3, <1>4, <1>5, <1>6, <1>7, <1>8, <1>9 DEF Next

LEMMA AnswerStep ==
  ASSUME TypeOK, OneProcessOnly, Ownership, AnswerOK, [Next]_vars
  PROVE  AnswerOK'
<1>1. \A w \in Workers : At(w, "answered")' => cur'[w] \in answered'
  BY AnswerSteps DEF AnswerOK
<1>2. \A r \in RunIds : status'[r] = "completed" => r \in answered'
  BY AnswerSteps, CompletedSteps DEF AnswerOK, DeliveredItemsAreAnswered
<1>3. ASSUME NEW i \in Items, deliveredBy'[i] # NoRun
      PROVE  status'[deliveredBy'[i]] = "completed"
  <2>1. \A r \in RunIds : status[r] = "completed" => status'[r] = "completed"
    BY ClosedStep DEF Terminal
  <2>2. CASE deliveredBy'[i] = deliveredBy[i]
    BY <1>3, <2>1, <2>2 DEF AnswerOK, DeliveredItemsAreAnswered, TypeOK, TablesOK
  <2>3. CASE deliveredBy'[i] # deliveredBy[i]
    <3>1. PICK r \in RunIds, j \in Items : Book!Deliver(r, j)
      BY <2>3, BookStep DEF Book!Next, Book!Open, Book!Close, Book!vars
    <3>2. status[r] = "completed" /\ deliveredBy'[i] = r
      BY <2>3, <3>1 DEF Book!Deliver, TypeOK, TablesOK, IsOpen
    <3> QED BY <2>1, <3>2
  <2> QED BY <2>2, <2>3
<1> QED BY <1>1, <1>2, <1>3 DEF AnswerOK, DeliveredItemsAreAnswered

\* An item is marked only by a run that completed, and the answer of a
\* completed run was saved, whatever crash came between the three writes.
THEOREM DeliveredAreAnswered ==
  ASSUME OneProcessOnly
  PROVE  Spec => []DeliveredItemsAreAnswered
<1>1. Init => AnswerOK
  BY ConstantsAssumption DEF Init, AnswerOK, DeliveredItemsAreAnswered, At
<1>2. AnswerOK => DeliveredItemsAreAnswered
  BY DEF AnswerOK
<1>3. TypeOK /\ Ownership /\ [Next]_vars => Ownership'
  BY OneProcessOnly, OwnershipStep
<1>4. TypeOK /\ Ownership /\ AnswerOK /\ [Next]_vars => AnswerOK'
  BY OneProcessOnly, AnswerStep
<1> QED BY <1>1, <1>2, <1>3, <1>4, OwnershipInit, TypeCorrect, PTL DEF Spec
=============================================================================
