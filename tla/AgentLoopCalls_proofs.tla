----------------------- MODULE AgentLoopCalls_proofs ------------------------
(***************************************************************************)
(* Proofs about the tool calls of AgentLoop: which are still to be         *)
(* answered, who answers them, and what the model sees of them.  As long   *)
(* as no session outgrows the LIMIT of ListMessages (Fits), what recovery  *)
(* reads is the whole session.                                             *)
(***************************************************************************)
EXTENDS AgentLoopPrompt_proofs, FiniteSetTheorems

(***************************************************************************)
(* Lists, and the tool-call messages in them.                              *)
(***************************************************************************)
LEMMA IsResult ==
  ASSUME NEW g \in Message, NEW q \in Message, NEW c
  PROVE  g.kind = "tool" /\ Call(g, g.n) = Call(q, c) <=> g = Result(q, c)
BY DEF Message, Call, Result

LEMMA MissingIs ==
  ASSUME NEW v \in Seq(Message), NEW k \in DOMAIN v
  PROVE  /\ MissingAfter(v, k) =
              {c \in Calls(v[k]) : \A j \in k + 1 .. Len(v) : v[j] # Result(v[k], c)}
         /\ AnsweredIn(v, k) <=> MissingAfter(v, k) = {}
<1>1. \A j \in DOMAIN v : v[j] \in Message
  OBVIOUS
<1>2. Len(v) \in Nat /\ k \in Nat /\ DOMAIN v = 1 .. Len(v) /\ k \in 1 .. Len(v)
  OBVIOUS
<1>3. \A j : j \in DOMAIN v /\ j > k <=> j \in k + 1 .. Len(v)
  BY <1>2
<1>4. MissingAfter(v, k) =
        {c \in Calls(v[k]) : \A j \in k + 1 .. Len(v) : v[j] # Result(v[k], c)}
  BY <1>1, <1>3, IsResult DEF MissingAfter
<1>5. AnsweredIn(v, k) <=> MissingAfter(v, k) = {}
  BY <1>4 DEF AnsweredIn
<1> QED BY <1>4, <1>5

(* The tool-call messages of n are those of m, d rows further on, and no   *)
(* answer was lost.                                                        *)
Inherits(n, m, d) ==
  \A k \in RequestsIn(n) :
    k + d \in RequestsIn(m) /\ n[k] = m[k + d] /\ MissingAfter(n, k) \subseteq MissingAfter(m, k + d)

LEMMA ShiftInherits ==
  ASSUME NEW m \in Seq(Message), NEW n \in Seq(Message), NEW d \in Nat, NEW e \in Nat,
         \A j \in DOMAIN n : j > e => j + d \in DOMAIN m /\ n[j] = m[j + d],
         \A j \in DOMAIN n : j <= e => ~IsRequest(n[j]),
         \A j \in DOMAIN m : j > e + d => j - d \in DOMAIN n /\ n[j - d] = m[j]
  PROVE  Inherits(n, m, d)
<1> SUFFICES ASSUME NEW k \in RequestsIn(n)
             PROVE  /\ k + d \in RequestsIn(m) /\ n[k] = m[k + d]
                    /\ MissingAfter(n, k) \subseteq MissingAfter(m, k + d)
  BY DEF Inherits
<1>1. k \in DOMAIN n /\ k \in Nat /\ k > e /\ Len(n) \in Nat /\ Len(m) \in Nat
  BY DEF RequestsIn
<1>2. k + d \in DOMAIN m /\ n[k] = m[k + d]
  BY <1>1
<1>3. ASSUME NEW c \in MissingAfter(n, k) PROVE c \in MissingAfter(m, k + d)
  <2>1. c \in Calls(n[k]) /\ \A j \in k + 1 .. Len(n) : n[j] # Result(n[k], c)
    BY <1>1, <1>3, MissingIs
  <2>2. ASSUME NEW j \in k + d + 1 .. Len(m) PROVE m[j] # Result(m[k + d], c)
    <3>1. j \in DOMAIN m /\ j \in Nat /\ j > e + d /\ j > k + d
      BY <1>1
    <3>2. j - d \in DOMAIN n /\ n[j - d] = m[j]
      BY <3>1
    <3>3. j - d \in k + 1 .. Len(n)
      BY <1>1, <3>1, <3>2
    <3> QED BY <1>2, <2>1, <3>2, <3>3
  <2>3. MissingAfter(m, k + d) =
          {b \in Calls(m[k + d]) : \A j \in k + d + 1 .. Len(m) : m[j] # Result(m[k + d], b)}
    BY <1>2, MissingIs
  <2> QED BY <1>2, <2>1, <2>2, <2>3
<1> QED BY <1>1, <1>2, <1>3 DEF RequestsIn

LEMMA AppendInherits ==
  ASSUME NEW m \in Seq(Message), NEW g \in Message, ~IsRequest(g)
  PROVE  Inherits(Append(m, g), m, 0) /\ RequestsIn(Append(m, g)) = RequestsIn(m)
<1> DEFINE n == Append(m, g)
<1>1. /\ n \in Seq(Message) /\ Len(n) = Len(m) + 1 /\ Len(m) \in Nat
      /\ \A j \in 1 .. Len(m) : n[j] = m[j]
      /\ n[Len(m) + 1] = g
  BY AppendProperties
<1> HIDE DEF n
<1>2. RequestsIn(n) = RequestsIn(m)
  BY <1>1 DEF RequestsIn
<1>3. ASSUME NEW k \in RequestsIn(n)
      PROVE  /\ k + 0 \in RequestsIn(m) /\ n[k] = m[k + 0]
             /\ MissingAfter(n, k) \subseteq MissingAfter(m, k + 0)
  <2>1. k \in DOMAIN m /\ k \in DOMAIN n /\ k + 0 = k /\ n[k] = m[k]
    BY <1>1, <1>2 DEF RequestsIn
  <2>2. \A j \in k + 1 .. Len(m) : j \in k + 1 .. Len(n) /\ n[j] = m[j]
    BY <1>1, <2>1
  <2>3. MissingAfter(n, k) \subseteq MissingAfter(m, k)
    BY <1>1, <2>1, <2>2, MissingIs
  <2> QED BY <1>2, <2>1, <2>3
<1> QED BY <1>2, <1>3 DEF Inherits, n

LEMMA SelfInherits == ASSUME NEW m \in Seq(Message) PROVE Inherits(m, m, 0)
<1>1. \A k \in RequestsIn(m) : k + 0 = k
  BY DEF RequestsIn
<1> QED BY <1>1 DEF Inherits

LEMMA TailInherits ==
  ASSUME NEW m \in Seq(Message), NEW h \in Nat, h <= Len(m)
  PROVE  Inherits(SubSeq(m, h + 1, Len(m)), m, h)
<1> DEFINE n == SubSeq(m, h + 1, Len(m))
<1>1. /\ n \in Seq(Message) /\ Len(n) = Len(m) - h /\ Len(m) \in Nat
      /\ \A j \in 1 .. Len(m) - h : n[j] = m[j + h]
  BY TailOf
<1> HIDE DEF n
<1>2. \A j \in DOMAIN n : j > 0 => j + h \in DOMAIN m /\ n[j] = m[j + h]
  BY <1>1
<1>3. \A j \in DOMAIN n : j <= 0 => ~IsRequest(n[j])
  BY <1>1
<1>4. \A j \in DOMAIN m : j > 0 + h => j - h \in DOMAIN n /\ n[j - h] = m[j]
  <2> SUFFICES ASSUME NEW j \in DOMAIN m, j > 0 + h PROVE j - h \in DOMAIN n /\ n[j - h] = m[j]
    OBVIOUS
  <2>1. j - h \in 1 .. Len(m) - h /\ (j - h) + h = j
    BY <1>1
  <2> QED BY <1>1, <2>1
<1>5. Inherits(n, m, h)
  BY <1>1, <1>2, <1>3, <1>4, ShiftInherits
<1> QED BY <1>5 DEF n

LEMMA PromptInherits ==
  ASSUME NEW v \in Seq(Message), NEW g \in Message, ~IsRequest(g), NEW h \in Nat \ {0}, h <= Len(v)
  PROVE  Inherits(<<g>> \o SubSeq(v, h + 1, Len(v)), v, h - 1)
<1> DEFINE t == SubSeq(v, h + 1, Len(v))
           u == <<g>> \o t
<1>1. /\ t \in Seq(Message) /\ Len(t) = Len(v) - h /\ Len(v) \in Nat
      /\ \A j \in 1 .. Len(v) - h : t[j] = v[j + h]
  BY TailOf
<1> HIDE DEF t
<1>2. /\ u \in Seq(Message) /\ Len(u) = 1 + Len(t) /\ u[1] = g
      /\ \A j \in 2 .. Len(u) : u[j] = t[j - 1]
  BY <1>1
<1> HIDE DEF u
<1> DEFINE d == h - 1
<1>3. d \in Nat /\ h = d + 1
  OBVIOUS
<1> HIDE DEF d
<1>4. \A j \in DOMAIN u : j > 1 => j + d \in DOMAIN v /\ u[j] = v[j + d]
  <2> SUFFICES ASSUME NEW j \in DOMAIN u, j > 1 PROVE j + d \in DOMAIN v /\ u[j] = v[j + d]
    OBVIOUS
  <2>1. j \in 2 .. Len(u) /\ j - 1 \in 1 .. Len(v) - h /\ (j - 1) + h = j + d
    BY <1>1, <1>2, <1>3
  <2>2. t[j - 1] = v[(j - 1) + h] /\ u[j] = t[j - 1]
    BY <1>1, <1>2, <2>1
  <2>3. j + d \in DOMAIN v
    BY <1>1, <2>1
  <2> QED BY <2>1, <2>2, <2>3
<1>5. \A j \in DOMAIN u : j <= 1 => ~IsRequest(u[j])
  BY <1>1, <1>2
<1>6. \A j \in DOMAIN v : j > 1 + d => j - d \in DOMAIN u /\ u[j - d] = v[j]
  <2> SUFFICES ASSUME NEW j \in DOMAIN v, j > 1 + d PROVE j - d \in DOMAIN u /\ u[j - d] = v[j]
    OBVIOUS
  <2>1. j - d \in DOMAIN u /\ j - d \in Nat /\ j - d > 1 /\ (j - d) + d = j
    BY <1>1, <1>2, <1>3
  <2> QED BY <1>4, <2>1
<1>7. Inherits(u, v, d)
  BY <1>2, <1>3, <1>4, <1>5, <1>6, ShiftInherits
<1> QED BY <1>7 DEF u, t, d

(***************************************************************************)
(* What a step does to a run and to the list of a session.                 *)
(***************************************************************************)
LEMMA RunSteps ==
  ASSUME TypeOK, [Next]_vars, NEW q \in RunIds, status[q] # "none"
  PROVE  status'[q] # "none" /\ sess'[q] = sess[q]
<1>1. ASSUME NEW w \in Workers, NEW r \in RunIds, NEW s \in Sessions,
             NEW i \in Items \cup {NoItem}, Accept(w, r, s, i)
      PROVE  sess'[q] = sess[q]
  BY <1>1 DEF Accept, TypeOK, TablesOK
<1>2. ASSUME NEW w \in Workers, Recover(w) PROVE sess' = sess
  BY <1>2 DEF Recover, CloseInterrupted, ResumeModel, ResumeTools
<1>3. ASSUME NEW p \in Procs, Boot(p) \/ Serve(p) \/ Exit(p) \/ Crash(p) PROVE sess' = sess
  BY <1>3 DEF Boot, Serve, Exit, Crash, db, tables
<1>4. CASE UNCHANGED vars
  BY <1>4 DEF vars, db, tables
<1> QED BY <1>1, <1>2, <1>3, <1>4, StepEffect, StatusStaysKnown DEF Next

(* The goroutine w saves the tool-call message g in session s. *)
AsksIn(w, s, g) ==
  /\ Busy(w) /\ sess[cur[w]] = s /\ pc[w] = "model" /\ pc'[w] = "called" /\ cur'[w] = cur[w]
  /\ msgs'[s] = Append(msgs[s], g)
  /\ IsRequest(g) /\ g.run = cur[w] /\ g.round = rounds[cur[w]] + 1

LEMMA NotRequests ==
  ASSUME NEW r \in RunIds
  PROVE  ~IsRequest(User(r)) /\ ~IsRequest(Summary(r))
BY DEF IsRequest, User, Summary

(* A step inherits the tool-call messages of a session, or asks for more.  *)
InheritsOrAsks(l, k, m, n, r) ==
  \/ \E d \in Nat : Inherits(n, m, d)
  \/ \E g \in Message : /\ l = "model" /\ k = "called" /\ n = Append(m, g)
                        /\ IsRequest(g) /\ g.run = r /\ g.round = rounds[r] + 1

LEMMA MoveInherits ==
  ASSUME TypeOK, NEW s \in Sessions, NEW r \in RunIds, NEW l, NEW k,
         NEW v \in Seq(Message), NEW n \in Seq(Message), NEW u \in Seq(Message),
         Shrinking(l, msgs[s], v), Effect(l, msgs[s], v, k, n, u, r, s)
  PROVE  InheritsOrAsks(l, k, msgs[s], n, r)
<1> DEFINE m == msgs[s]
<1>1. m \in Seq(Message) /\ Len(m) \in Nat /\ User(r) \in Message /\ Summary(r) \in Message
  BY Listed, HistoryMessages
<1>2. ASSUME n = m PROVE Inherits(n, m, 0)
  BY <1>1, <1>2, SelfInherits
<1>3. ASSUME NEW g \in Message, ~IsRequest(g), n = Append(m, g) PROVE Inherits(n, m, 0)
  BY <1>1, <1>3, AppendInherits
<1>4. ASSUME l = "drop", n = SubSeq(m, HeadLen(v) + 1, Len(m))
      PROVE  \E d \in Nat : Inherits(n, m, d)
  <2>1. Len(v) > KeptTail /\ Len(v) < Len(m)
    <3>1. Len(m) = Len(v) + 1 /\ Len(v) > KeptTail /\ Len(v) \in Nat
      BY <1>4 DEF Shrinking
    <3> QED BY <3>1
  <2>2. HeadLen(v) \in Nat /\ HeadLen(v) <= Len(m)
    <3>1. HeadLen(v) \in Nat /\ HeadLen(v) <= Len(v) /\ Len(v) \in Nat
      BY <1>1, <2>1, CutBy
    <3> QED BY <1>1, <2>1, <3>1
  <2> QED BY <1>1, <1>4, <2>2, TailInherits
<1> HIDE DEF m
<1>5. \/ n = m
      \/ \E g \in Message : ~IsRequest(g) /\ n = Append(m, g)
      \/ l = "drop" /\ n = SubSeq(m, HeadLen(v) + 1, Len(m))
      \/ \E g \in Message : /\ l = "model" /\ k = "called" /\ n = Append(m, g)
                            /\ IsRequest(g) /\ g.run = r /\ g.round = rounds[r] + 1
  BY <1>1, NotRequests DEF Effect, m
<1> QED BY <1>2, <1>3, <1>4, <1>5 DEF InheritsOrAsks, m

LEMMA ListSteps ==
  ASSUME TypeOK, TypeOK', ShrinkOK, [Next]_vars, NEW s \in Sessions
  PROVE  \/ \E d \in Nat : Inherits(msgs'[s], msgs[s], d)
         \/ \E w \in Workers, g \in Message : AsksIn(w, s, g)
<1>1. msgs[s] \in Seq(Message) /\ msgs'[s] \in Seq(Message)
  BY DEF TypeOK, TablesOK
<1>2. ASSUME msgs'[s] = msgs[s] PROVE \E d \in Nat : Inherits(msgs'[s], msgs[s], d)
  BY <1>1, <1>2, SelfInherits
<1>3. ASSUME NEW w \in Workers, Step(w) \/ Fail(w), s = sess[cur[w]]
      PROVE  \/ \E d \in Nat : Inherits(msgs'[s], msgs[s], d)
             \/ \E g \in Message : AsksIn(w, s, g)
  <2>1. /\ cur[w] \in RunIds /\ Busy(w)
        /\ pc'[w] = "idle" \/ cur'[w] = cur[w]
        /\ Effect(pc[w], msgs[s], view[w], pc'[w], msgs'[s], view'[w], cur[w], s)
    BY <1>3, StepEffect DEF Rows
  <2>2. PICK r \in RunIds, v, n, u \in Seq(Message) :
          r = cur[w] /\ v = view[w] /\ n = msgs'[s] /\ u = view'[w]
    BY <1>1, <2>1 DEF TypeOK, WorkersOK
  <2> DEFINE l == pc[w]
             k == pc'[w]
  <2>3. Effect(l, msgs[s], v, k, n, u, r, s) /\ Shrinking(l, msgs[s], v)
    BY <1>3, <2>1, <2>2 DEF ShrinkOK, Rows
  <2> HIDE DEF l, k
  <2>4. InheritsOrAsks(l, k, msgs[s], n, r)
    BY <2>3, MoveInherits
  <2> QED BY <1>3, <2>1, <2>2, <2>4 DEF InheritsOrAsks, AsksIn, l, k
<1>4. ASSUME NEW w \in Workers, Step(w) \/ Fail(w), s # sess[cur[w]] PROVE msgs'[s] = msgs[s]
  BY <1>4, StepEffect
<1>5. ASSUME NEW w \in Workers, NEW r \in RunIds, NEW t \in Sessions,
             NEW i \in Items \cup {NoItem}, Accept(w, r, t, i)
      PROVE  msgs'[s] = msgs[s]
  BY <1>5 DEF Accept
<1>6. ASSUME NEW w \in Workers, Recover(w) PROVE msgs'[s] = msgs[s]
  BY <1>6 DEF Recover, CloseInterrupted, ResumeModel, ResumeTools
<1>7. ASSUME NEW p \in Procs, Boot(p) \/ Serve(p) \/ Exit(p) \/ Crash(p) PROVE msgs'[s] = msgs[s]
  BY <1>7 DEF Boot, Serve, Exit, Crash, db
<1>8. CASE UNCHANGED vars
  BY <1>2, <1>8 DEF vars, db
<1> QED BY <1>2, <1>3, <1>4, <1>5, <1>6, <1>7, <1>8 DEF Next

(***************************************************************************)
(* A tool-call message is answered, or its run failed, or its run is still *)
(* open: then it is the last of its session and whoever holds the run is   *)
(* serving it.                                                             *)
(***************************************************************************)
Settled(v, k) == MissingAfter(v, k) = {} \/ status[v[k].run] = "failed"

Pending(v, k) ==
  /\ IsOpen(v[k].run) /\ IsLastRequest(v, k)
  /\ \A w \in Workers : cur[w] = v[k].run => pc[w] \in Serving

KnownRuns ==
  \A s \in Sessions : \A k \in RequestsIn(msgs[s]) :
    sess[msgs[s][k].run] = s /\ status[msgs[s][k].run] # "none"

AnswersOK ==
  \A s \in Sessions : \A k \in RequestsIn(msgs[s]) : Settled(msgs[s], k) \/ Pending(msgs[s], k)

(* The batch t a goroutine serves is what is missing of the last tool-call *)
(* message q, its own or a failed run's.                                   *)
Failed == {r \in RunIds : status[r] = "failed"}

Serves(l, m, q, t, r, failed) ==
  /\ l = "called" => q.run = r /\ Len(m) > 0 /\ q = m[Len(m)]
  /\ l \in {"tool", "result"} =>
       /\ q.run = r \/ q.run \in failed
       /\ \E k \in DOMAIN m : IsLastRequest(m, k) /\ q = m[k] /\ t = MissingAfter(m, k)

BatchOK == \A w \in Workers : Serves(pc[w], Rows(w), req[w], todo[w], cur[w], Failed)

LEMMA RequestRun ==
  ASSUME TypeOK, NEW s \in Sessions, NEW k \in RequestsIn(msgs[s])
  PROVE  k \in DOMAIN msgs[s] /\ msgs[s][k] \in Message /\ msgs[s][k].run \in RunIds
<1>1. msgs[s] \in Seq(Message) /\ k \in DOMAIN msgs[s]
  BY DEF TypeOK, TablesOK, RequestsIn
<1>2. msgs[s][k] \in Message
  BY <1>1
<1> QED BY <1>1, <1>2 DEF Message

LEMMA AppendRequest ==
  ASSUME NEW m \in Seq(Message), NEW g \in Message, NEW k \in RequestsIn(Append(m, g))
  PROVE  \/ k \in RequestsIn(m) /\ Append(m, g)[k] = m[k]
         \/ k = Len(m) + 1 /\ Append(m, g)[k] = g
<1>1. /\ Len(Append(m, g)) = Len(m) + 1 /\ Len(m) \in Nat
      /\ \A j \in 1 .. Len(m) : Append(m, g)[j] = m[j]
      /\ Append(m, g)[Len(m) + 1] = g /\ Append(m, g) \in Seq(Message)
  BY AppendProperties
<1> QED BY <1>1 DEF RequestsIn

LEMMA HeldRun ==
  ASSUME TypeOK, Ownership, NEW w \in Workers, Busy(w)
  PROVE  /\ cur[w] \in RunIds /\ status[cur[w]] # "none" /\ sess[cur[w]] \in Sessions
         /\ pc[w] # "completed" => IsOpen(cur[w])
BY DEF TypeOK, WorkersOK, TablesOK, Ownership, BusyOK, Busy, At, IsOpen, Incomplete

LEMMA KnownStep ==
  ASSUME TypeOK, TypeOK', Ownership, ShrinkOK, KnownRuns, [Next]_vars
  PROVE  KnownRuns'
<1> SUFFICES ASSUME NEW s \in Sessions, NEW k \in RequestsIn(msgs'[s])
             PROVE  sess'[msgs'[s][k].run] = s /\ status'[msgs'[s][k].run] # "none"
  BY DEF KnownRuns
<1>1. ASSUME NEW q \in RunIds, sess[q] = s, status[q] # "none"
      PROVE  sess'[q] = s /\ status'[q] # "none"
  BY <1>1, RunSteps
<1>2. ASSUME NEW j \in RequestsIn(msgs[s]), msgs'[s][k] = msgs[s][j]
      PROVE  sess'[msgs'[s][k].run] = s /\ status'[msgs'[s][k].run] # "none"
  BY <1>1, <1>2, RequestRun DEF KnownRuns
<1>3. ASSUME NEW d \in Nat, Inherits(msgs'[s], msgs[s], d)
      PROVE  \E j \in RequestsIn(msgs[s]) : msgs'[s][k] = msgs[s][j]
  BY <1>3 DEF Inherits
<1>4. ASSUME NEW w \in Workers, NEW g \in Message, AsksIn(w, s, g)
      PROVE  \/ \E j \in RequestsIn(msgs[s]) : msgs'[s][k] = msgs[s][j]
             \/ msgs'[s][k].run = cur[w] /\ Busy(w) /\ sess[cur[w]] = s
  <2>1. msgs[s] \in Seq(Message)
    BY DEF TypeOK, TablesOK
  <2> QED BY <1>4, <2>1, AppendRequest DEF AsksIn
<1>5. ASSUME NEW w \in Workers, msgs'[s][k].run = cur[w], Busy(w), sess[cur[w]] = s
      PROVE  sess'[msgs'[s][k].run] = s /\ status'[msgs'[s][k].run] # "none"
  BY <1>1, <1>5, HeldRun
<1> QED BY <1>2, <1>3, <1>4, <1>5, ListSteps

LEMMA ServingSteps ==
  ASSUME TypeOK, NEW w \in Workers, pc[w] \in Serving, Step(w) \/ Fail(w)
  PROVE  pc'[w] \in Serving \cup {"idle"} \/ FinishTools(w)
<1>1. pc \in [Workers -> Labels]
  BY DEF TypeOK, WorkersOK
<1>2. \A l : Goto(w, l) => pc'[w] = l
  BY <1>1 DEF Goto
<1>3. CASE Step(w)
  <2>1. CASE \/ BeginTools(w) \/ \E c \in todo[w] : PersistResult(w, c)
             \/ \E c \in todo[w], outcome \in {"ok"} \cup ErrKinds : ExecTool(w, c, outcome)
             \/ \E outcome \in {"denied", "unknown"} : RefuseCall(w, outcome)
    BY <1>2, <2>1 DEF BeginTools, PersistResult, ExecTool, RefuseCall, Serving
  <2>2. CASE StopRepeated(w)
    BY <1>1, <2>2 DEF StopRepeated, Leave
  <2> QED BY <1>3, <2>1, <2>2 DEF Step, SaveUserMessage, StopAtLimit, BuildPrompt, SaveSummary,
    DropCompacted, DeleteFails, AskModel, SaveAnswer, CompleteRun, MarkDelivered, SaveToolCalls,
    Serving, At
<1>4. CASE Fail(w)
  BY <1>1, <1>4 DEF Fail, Leave
<1> QED BY <1>3, <1>4

(* Who serves a run goes on serving, or has finished, or goes on to the    *)
(* model because recovery found nothing missing.                           *)
LEMMA OwnerSteps ==
  ASSUME TypeOK, TypeOK', OneProcessOnly, Ownership, [Next]_vars,
         NEW x \in Workers, NEW q \in RunIds, status[q] # "none",
         cur[x] = q => pc[x] \in Serving, cur'[x] = q
  PROVE  \/ pc'[x] \in Serving
         \/ FinishTools(x) /\ cur[x] = q
         \/ \E it : ResumeModel(x, q, it)
<1>1. pc'[x] # "idle"
  BY ConstantsAssumption DEF TypeOK, WorkersOK, At
<1>2. CASE Stays(x)
  BY <1>2 DEF Stays
<1>3. CASE Moves(x)
  BY <1>1, <1>3, ServingSteps DEF Moves
<1>4. CASE Enters(x)
  BY <1>4 DEF Enters
<1>5. CASE Resumes(x)
  <2>1. PICK row \in queue[ProcOf[x]] : ResumeModel(x, row[1], row[2]) \/ ResumeTools(x, row[1], row[2])
    BY <1>5 DEF Resumes
  <2>2. CASE ResumeTools(x, row[1], row[2])
    BY <1>1, <2>2 DEF ResumeTools, Goto, Serving, TypeOK, WorkersOK
  <2>3. CASE ResumeModel(x, row[1], row[2])
    <3>1. cur'[x] = row[1]
      BY <2>3 DEF ResumeModel, TypeOK, WorkersOK
    <3> QED BY <2>3, <3>1
  <2> QED BY <2>1, <2>2, <2>3
<1> QED BY <1>1, <1>2, <1>3, <1>4, <1>5, WorkerSteps

(* Where the owner of a pending message is serving it, nobody else writes  *)
(* to the session, and what the owner saves is a result.                   *)
LEMMA PendingList ==
  ASSUME TypeOK, TypeOK', Ownership, [Next]_vars, NEW s \in Sessions, NEW q \in RunIds,
         IsOpen(q), sess[q] = s, \A w \in Workers : cur[w] = q => pc[w] \in Serving
  PROVE  msgs'[s] = msgs[s] \/ \E g \in Message : ~IsRequest(g) /\ msgs'[s] = Append(msgs[s], g)
<1>1. ASSUME NEW w \in Workers, Step(w) \/ Fail(w), s = sess[cur[w]]
      PROVE  \/ msgs'[s] = msgs[s]
             \/ \E g \in Message : ~IsRequest(g) /\ msgs'[s] = Append(msgs[s], g)
  <2>1. /\ cur[w] \in RunIds /\ Busy(w)
        /\ Effect(pc[w], msgs[s], view[w], pc'[w], msgs'[s], view'[w], cur[w], s)
    BY <1>1, StepEffect DEF Rows
  <2>2. pc[w] \in Serving \cup {"completed"}
    <3>1. pc[w] # "completed" => IsOpen(cur[w])
      BY <2>1, HeldRun
    <3> QED BY <1>1, <2>1, <3>1 DEF Ownership, OneOpenRunPerSession
  <2> QED BY <2>1, <2>2 DEF Effect, Serving
<1>2. ASSUME NEW w \in Workers, Step(w) \/ Fail(w), s # sess[cur[w]] PROVE msgs'[s] = msgs[s]
  BY <1>2, StepEffect
<1>3. ASSUME NEW w \in Workers, NEW r \in RunIds, NEW t \in Sessions,
             NEW i \in Items \cup {NoItem}, Accept(w, r, t, i)
      PROVE  msgs'[s] = msgs[s]
  BY <1>3 DEF Accept
<1>4. ASSUME NEW w \in Workers, Recover(w) PROVE msgs'[s] = msgs[s]
  BY <1>4 DEF Recover, CloseInterrupted, ResumeModel, ResumeTools
<1>5. ASSUME NEW p \in Procs, Boot(p) \/ Serve(p) \/ Exit(p) \/ Crash(p) PROVE msgs'[s] = msgs[s]
  BY <1>5 DEF Boot, Serve, Exit, Crash, db
<1>6. CASE UNCHANGED vars
  BY <1>6 DEF vars, db
<1> QED BY <1>1, <1>2, <1>3, <1>4, <1>5, <1>6 DEF Next

(* The last of a list is one message. *)
LEMMA OneLast ==
  ASSUME NEW v, NEW j, NEW k, IsLastRequest(v, j), IsLastRequest(v, k), v \in Seq(Message)
  PROVE  j = k
<1>1. j \in Nat /\ k \in Nat /\ j <= k /\ k <= j
  BY DEF IsLastRequest, RequestsIn
<1> QED BY <1>1

LEMMA PendingStep ==
  ASSUME TypeOK, TypeOK', OneProcessOnly, Ownership, Fits, KnownRuns, BatchOK, [Next]_vars,
         NEW s \in Sessions, NEW j \in RequestsIn(msgs[s]), NEW q, q = msgs[s][j].run,
         Pending(msgs[s], j), MissingAfter(msgs[s], j) # {}, status'[q] # "failed"
  PROVE  /\ Inherits(msgs'[s], msgs[s], 0) /\ RequestsIn(msgs'[s]) = RequestsIn(msgs[s])
         /\ msgs'[s][j] = msgs[s][j] /\ status'[q] \in Incomplete
         /\ \A w \in Workers : cur'[w] = q => pc'[w] \in Serving
<1>1. /\ q \in RunIds /\ sess[q] = s /\ IsOpen(q) /\ IsLastRequest(msgs[s], j)
      /\ \A w \in Workers : cur[w] = q => pc[w] \in Serving
  BY RequestRun DEF KnownRuns, Pending
<1>2. status[q] # "none" /\ msgs[s] \in Seq(Message) /\ status[q] # "completed"
  BY <1>1 DEF IsOpen, Incomplete, TypeOK, TablesOK
<1>3. msgs'[s] = msgs[s] \/ \E g \in Message : ~IsRequest(g) /\ msgs'[s] = Append(msgs[s], g)
  BY <1>1, PendingList
<1>4. Inherits(msgs'[s], msgs[s], 0) /\ RequestsIn(msgs'[s]) = RequestsIn(msgs[s])
  BY <1>2, <1>3, SelfInherits, AppendInherits
<1>5. msgs'[s][j] = msgs[s][j]
  <2>1. j + 0 = j
    BY <1>2 DEF RequestsIn
  <2> QED BY <1>4, <2>1 DEF Inherits
<1>6. status'[q] \in Incomplete
  <2>1. status'[q] # "none"
    BY <1>1, <1>2, RunSteps
  <2>2. status'[q] # "completed"
    <3>1. ~\E w \in Workers : At(w, "answered") /\ cur[w] = q
      BY <1>1 DEF At, Serving
    <3> QED BY <1>1, <1>2, <3>1, CompletedSteps
  <2> QED BY <1>1, <2>1, <2>2 DEF IsOpen, Incomplete, Terminal, TypeOK, TablesOK
<1>7. ASSUME NEW w \in Workers, cur'[w] = q PROVE pc'[w] \in Serving
  <2>1. CASE FinishTools(w) /\ cur[w] = q
    <3>1. pc[w] = "tool" /\ todo[w] = {} /\ Rows(w) = msgs[s]
      BY <1>1, <2>1 DEF FinishTools, At, Rows
    <3>2. PICK k \in DOMAIN msgs[s] : IsLastRequest(msgs[s], k) /\ todo[w] = MissingAfter(msgs[s], k)
      BY <3>1 DEF BatchOK, Serves
    <3> QED BY <1>1, <1>2, <3>1, <3>2, OneLast
  <2>2. ASSUME NEW it, ResumeModel(w, q, it) PROVE FALSE
    <3>1. ListMessages(s) = msgs[s]
      BY Listed DEF Fits
    <3>2. PICK k \in DOMAIN msgs[s] : IsLastRequest(msgs[s], k) /\ MissingAfter(msgs[s], k) = {}
      BY <1>1, <2>2, <3>1 DEF ResumeModel
    <3> QED BY <1>1, <1>2, <3>2, OneLast
  <2> QED BY <1>1, <1>2, <1>7, <2>1, <2>2, OwnerSteps
<1> QED BY <1>4, <1>5, <1>6, <1>7

LEMMA AppendMissing ==
  ASSUME NEW m \in Seq(Message), NEW g \in Message, NEW k \in RequestsIn(m)
  PROVE  Append(m, g)[k] = m[k] /\ MissingAfter(Append(m, g), k) \subseteq MissingAfter(m, k)
<1> DEFINE n == Append(m, g)
<1>1. /\ n \in Seq(Message) /\ Len(n) = Len(m) + 1 /\ Len(m) \in Nat
      /\ \A j \in 1 .. Len(m) : n[j] = m[j]
  BY AppendProperties
<1> HIDE DEF n
<1>2. k \in DOMAIN m /\ k \in DOMAIN n /\ k \in Nat /\ n[k] = m[k]
  BY <1>1 DEF RequestsIn
<1>3. \A j \in k + 1 .. Len(m) : j \in k + 1 .. Len(n) /\ n[j] = m[j]
  BY <1>1, <1>2
<1>4. /\ MissingAfter(m, k) = {c \in Calls(m[k]) : \A j \in k + 1 .. Len(m) : m[j] # Result(m[k], c)}
      /\ MissingAfter(n, k) = {c \in Calls(n[k]) : \A j \in k + 1 .. Len(n) : n[j] # Result(n[k], c)}
  BY <1>1, <1>2, MissingIs
<1>5. MissingAfter(n, k) \subseteq MissingAfter(m, k)
  BY <1>2, <1>3, <1>4
<1> QED BY <1>2, <1>5 DEF n

(* A goroutine that is not serving has nothing pending in its session. *)
LEMMA NothingPending ==
  ASSUME TypeOK, Ownership, KnownRuns, AnswersOK, NEW w \in Workers, Busy(w),
         pc[w] \notin Serving \cup {"completed"}, NEW s, s = sess[cur[w]], NEW k \in RequestsIn(msgs[s])
  PROVE  Settled(msgs[s], k)
<1>1. cur[w] \in RunIds /\ s \in Sessions /\ IsOpen(cur[w])
  BY HeldRun
<1>2. Settled(msgs[s], k) \/ Pending(msgs[s], k)
  BY <1>1 DEF AnswersOK
<1>3. ~Pending(msgs[s], k)
  <2>1. msgs[s][k].run \in RunIds /\ sess[msgs[s][k].run] = s
    BY <1>1, RequestRun DEF KnownRuns
  <2> QED BY <1>1, <2>1 DEF Pending, Ownership, OneOpenRunPerSession
<1> QED BY <1>2, <1>3

LEMMA AnswersStep ==
  ASSUME TypeOK, TypeOK', OneProcessOnly, Ownership, Ownership', Fits, ShrinkOK, KnownRuns,
         BatchOK, AnswersOK, [Next]_vars
  PROVE  AnswersOK'
<1> SUFFICES ASSUME NEW s \in Sessions, NEW k \in RequestsIn(msgs'[s])
             PROVE  \/ MissingAfter(msgs'[s], k) = {} \/ status'[msgs'[s][k].run] = "failed"
                    \/ /\ status'[msgs'[s][k].run] \in Incomplete /\ IsLastRequest(msgs'[s], k)
                       /\ \A w \in Workers : cur'[w] = msgs'[s][k].run => pc'[w] \in Serving
  BY DEF AnswersOK, Settled, Pending, IsOpen, RequestsIn, IsLastRequest, MissingAfter, Calls, Call,
     IsRequest
<1> DEFINE m == msgs[s]
           n == msgs'[s]
<1>1. m \in Seq(Message) /\ n \in Seq(Message)
  BY DEF TypeOK, TablesOK
<1>2. ASSUME NEW j \in RequestsIn(m), Settled(m, j), n[k] = m[j],
             MissingAfter(n, k) \subseteq MissingAfter(m, j)
      PROVE  MissingAfter(n, k) = {} \/ status'[n[k].run] = "failed"
  <2>1. m[j].run \in RunIds
    BY RequestRun
  <2>2. status[m[j].run] = "failed" => status'[m[j].run] = "failed"
    BY <2>1, ClosedStep DEF Terminal
  <2> QED BY <1>2, <2>2 DEF Settled
<1>3. CASE \E j \in RequestsIn(m) :
             Pending(m, j) /\ MissingAfter(m, j) # {} /\ status'[m[j].run] # "failed"
  <2>1. PICK j \in RequestsIn(m) :
               Pending(m, j) /\ MissingAfter(m, j) # {} /\ status'[m[j].run] # "failed"
    BY <1>3
  <2>2. /\ Inherits(n, m, 0) /\ RequestsIn(n) = RequestsIn(m) /\ n[j] = m[j] /\ status'[m[j].run] \in Incomplete
        /\ \A w \in Workers : cur'[w] = m[j].run => pc'[w] \in Serving
    BY <2>1, PendingStep
  <2>3. CASE k = j
    <3>1. IsLastRequest(n, j)
      BY <2>1, <2>2 DEF Pending, IsLastRequest
    <3> QED BY <2>2, <2>3, <3>1
  <2>4. CASE k # j
    <3>1. k \in RequestsIn(m) /\ ~Pending(m, k)
      BY <1>1, <2>1, <2>2, <2>4, OneLast DEF Pending
    <3>2. Settled(m, k) /\ k + 0 = k
      BY <1>1, <3>1 DEF AnswersOK, RequestsIn
    <3>3. n[k] = m[k] /\ MissingAfter(n, k) \subseteq MissingAfter(m, k)
      BY <2>2, <3>2 DEF Inherits
    <3> QED BY <1>2, <3>1, <3>2, <3>3
  <2> QED BY <2>3, <2>4
<1>4. CASE ~\E j \in RequestsIn(m) :
             Pending(m, j) /\ MissingAfter(m, j) # {} /\ status'[m[j].run] # "failed"
  <2>1. ASSUME NEW j \in RequestsIn(m), n[k] = m[j], MissingAfter(n, k) \subseteq MissingAfter(m, j)
        PROVE  MissingAfter(n, k) = {} \/ status'[n[k].run] = "failed"
    <3>1. CASE Settled(m, j)
      BY <1>2, <2>1, <3>1
    <3>2. CASE ~Settled(m, j)
      BY <1>4, <2>1, <3>2 DEF AnswersOK, Settled
    <3> QED BY <3>1, <3>2
  <2>2. ASSUME NEW d \in Nat, Inherits(n, m, d)
        PROVE  MissingAfter(n, k) = {} \/ status'[n[k].run] = "failed"
    BY <2>1, <2>2 DEF Inherits
  <2>3. ASSUME NEW w \in Workers, NEW g \in Message, AsksIn(w, s, g), k \in RequestsIn(m)
        PROVE  MissingAfter(n, k) = {} \/ status'[n[k].run] = "failed"
    <3>1. n = Append(m, g)
      BY <2>3 DEF AsksIn
    <3>2. n[k] = m[k] /\ MissingAfter(n, k) \subseteq MissingAfter(m, k)
      BY <1>1, <2>3, <3>1, AppendMissing
    <3> QED BY <2>1, <2>3, <3>2
  <2>4. ASSUME NEW w \in Workers, NEW g \in Message, AsksIn(w, s, g), k \notin RequestsIn(m)
        PROVE  /\ status'[n[k].run] \in Incomplete /\ IsLastRequest(n, k)
               /\ \A x \in Workers : cur'[x] = n[k].run => pc'[x] \in Serving
    <3>1. k = Len(m) + 1 /\ n[k] = g /\ n = Append(m, g)
      BY <1>1, <2>4, AppendRequest DEF AsksIn
    <3>2. /\ cur'[w] = cur[w] /\ g.run = cur[w] /\ pc'[w] = "called" /\ Busy(w)' /\ sess'[cur[w]] \in Sessions
          /\ cur[w] \in RunIds
      BY <2>4, HeldRun DEF AsksIn, Busy, TypeOK, TablesOK
    <3>3. status'[cur[w]] \in Incomplete
      BY <3>2 DEF Ownership, BusyOK, At, Busy, IsOpen
    <3>4. IsLastRequest(n, k)
      BY <1>1, <3>1 DEF IsLastRequest, RequestsIn
    <3>5. ASSUME NEW x \in Workers, cur'[x] = cur[w] PROVE x = w
      BY <3>2, <3>5 DEF Ownership, BusyOK, Busy
    <3> QED BY <3>1, <3>2, <3>3, <3>4, <3>5 DEF Serving
  <2> QED BY <2>2, <2>3, <2>4, ListSteps
<1> QED BY <1>3, <1>4

(* Saving the result of a call of the last message takes it off the batch. *)
LEMMA AnswerLast ==
  ASSUME NEW m \in Seq(Message), NEW k \in DOMAIN m, IsLastRequest(m, k), NEW c \in Calls(m[k])
  PROVE  LET n == Append(m, Result(m[k], c)) IN
         /\ k \in DOMAIN n /\ IsLastRequest(n, k) /\ n[k] = m[k]
         /\ MissingAfter(n, k) = MissingAfter(m, k) \ {c}
<1> DEFINE g == Result(m[k], c)
           n == Append(m, g)
<1>1. m[k] \in Message /\ g \in Message /\ ~IsRequest(g)
  <2>1. m[k] \in Message
    OBVIOUS
  <2>2. m[k].run \in RunIds /\ m[k].round \in Nat /\ c \in Nat
    BY <2>1 DEF Message, Calls
  <2> QED BY <2>1, <2>2 DEF IsRequest, Result, Message
<1>2. \A b \in Calls(m[k]) : g = Result(m[k], b) <=> b = c
  BY DEF Result
<1> HIDE DEF g
<1>3. /\ n \in Seq(Message) /\ Len(n) = Len(m) + 1 /\ Len(m) \in Nat
      /\ \A j \in 1 .. Len(m) : n[j] = m[j]
      /\ n[Len(m) + 1] = g
  BY <1>1, AppendProperties
<1>4. RequestsIn(n) = RequestsIn(m)
  BY <1>1, AppendInherits
<1> HIDE DEF n
<1>5. k \in DOMAIN n /\ k \in Nat /\ k <= Len(m) /\ n[k] = m[k] /\ IsLastRequest(n, k)
  BY <1>3, <1>4 DEF IsLastRequest
<1>6. /\ MissingAfter(m, k) = {b \in Calls(m[k]) : \A j \in k + 1 .. Len(m) : m[j] # Result(m[k], b)}
      /\ MissingAfter(n, k) = {b \in Calls(n[k]) : \A j \in k + 1 .. Len(n) : n[j] # Result(n[k], b)}
  BY <1>3, <1>5, MissingIs
<1>7. ASSUME NEW b \in Calls(m[k])
      PROVE  (\A j \in k + 1 .. Len(n) : n[j] # Result(m[k], b))
             <=> b # c /\ \A j \in k + 1 .. Len(m) : m[j] # Result(m[k], b)
  <2>1. \A j : j \in k + 1 .. Len(n) <=> j \in k + 1 .. Len(m) \/ j = Len(m) + 1
    BY <1>3, <1>5
  <2>2. \A j \in k + 1 .. Len(m) : n[j] = m[j]
    BY <1>3, <1>5
  <2> QED BY <1>2, <1>3, <2>1, <2>2
<1>8. MissingAfter(n, k) = MissingAfter(m, k) \ {c}
  BY <1>5, <1>6, <1>7
<1> QED BY <1>5, <1>8 DEF n, g

LEMMA BatchMove ==
  ASSUME TypeOK, TypeOK', BatchOK, NEW x \in Workers, Step(x) \/ Fail(x)
  PROVE  Serves(pc'[x], msgs'[sess[cur[x]]], req'[x], todo'[x], cur[x], Failed')
<1> DEFINE s == sess[cur[x]]
<1> USE DEF At
<1>1. /\ pc \in [Workers -> Labels] /\ req \in [Workers -> Message \cup {NoRequest}]
      /\ todo \in [Workers -> SUBSET Nat] /\ msgs \in [Sessions -> Seq(Message)]
  BY DEF TypeOK, WorkersOK, TablesOK
<1>2. \A l : Goto(x, l) => pc'[x] = l
  BY <1>1 DEF Goto
<1>3. cur[x] \in RunIds /\ s \in Sessions /\ msgs[s] = Rows(x) /\ msgs[s] \in Seq(Message)
  BY <1>1, StepEffect DEF Rows
<1>4. \A m : SaveMessage(s, m) => msgs'[s] = Append(msgs[s], m)
  BY <1>1, <1>3 DEF SaveMessage
<1>5. Serves(pc[x], msgs[s], req[x], todo[x], cur[x], Failed)
  BY <1>3 DEF BatchOK
<1>6. pc[x] \in {"called", "tool", "result"} => IsRequest(req[x])
  BY DEF TypeOK, WorkersOK
<1> HIDE DEF s
<1>7. ASSUME NEW n \in 1 .. MaxCalls, SaveToolCalls(x, n)
      PROVE  Serves(pc'[x], msgs'[s], req'[x], todo'[x], cur[x], Failed')
  <2>1. Assistant(cur[x], n) \in Message /\ Assistant(cur[x], n).run = cur[x]
    BY <1>3 DEF Assistant, Message, TypeOK, HistoryOK
  <2>2. /\ pc'[x] = "called" /\ req'[x] = Assistant(cur[x], n)
        /\ msgs'[s] = Append(msgs[s], Assistant(cur[x], n))
    BY <1>1, <1>2, <1>4, <1>7 DEF SaveToolCalls, s
  <2>3. msgs'[s][Len(msgs'[s])] = req'[x] /\ Len(msgs'[s]) > 0
    BY <1>3, <2>1, <2>2, AppendProperties
  <2> QED BY <2>1, <2>2, <2>3 DEF Serves
<1>8. CASE BeginTools(x)
  <2>1. /\ pc[x] = "called" /\ pc'[x] = "tool" /\ msgs' = msgs /\ req' = req
        /\ todo'[x] = Calls(req[x])
    BY <1>1, <1>2, <1>8 DEF BeginTools
  <2> DEFINE k == Len(msgs[s])
  <2>2. req[x].run = cur[x] /\ k \in DOMAIN msgs[s] /\ k \in Nat /\ req[x] = msgs[s][k]
    BY <1>3, <1>5, <2>1 DEF Serves
  <2>3. IsLastRequest(msgs[s], k)
    BY <1>3, <1>6, <2>1, <2>2 DEF IsLastRequest, RequestsIn
  <2>4. \A j \in k + 1 .. Len(msgs[s]) : FALSE
    BY <2>2
  <2> HIDE DEF k
  <2>5. MissingAfter(msgs[s], k) = Calls(msgs[s][k])
    <3>1. MissingAfter(msgs[s], k) = {c \in Calls(msgs[s][k]) :
            \A j \in k + 1 .. Len(msgs[s]) : msgs[s][j] # Result(msgs[s][k], c)}
      BY <1>3, <2>2, MissingIs
    <3> QED BY <2>4, <3>1
  <2>6. /\ req'[x].run = cur[x]
        /\ IsLastRequest(msgs'[s], k) /\ req'[x] = msgs'[s][k]
        /\ todo'[x] = MissingAfter(msgs'[s], k) /\ k \in DOMAIN msgs'[s]
    BY <2>1, <2>2, <2>3, <2>5
  <2> QED BY <2>1, <2>6 DEF Serves, s
<1>9. CASE \/ \E c \in todo[x], outcome \in {"ok"} \cup ErrKinds : ExecTool(x, c, outcome)
           \/ \E outcome \in {"denied", "unknown"} : RefuseCall(x, outcome)
  <2>1. /\ pc[x] = "tool" /\ pc'[x] = "result"
        /\ UNCHANGED <<msgs, req, todo, status>>
    BY <1>2, <1>9 DEF ExecTool, RefuseCall, db, tables, batch
  <2>2. Failed' = Failed
    BY <2>1 DEF Failed
  <2> QED BY <1>5, <2>1, <2>2 DEF Serves, s
<1>10. ASSUME NEW c \in todo[x], PersistResult(x, c)
       PROVE  Serves(pc'[x], msgs'[s], req'[x], todo'[x], cur[x], Failed')
  <2>1. /\ pc[x] = "result" /\ pc'[x] \in {"tool", "stop"} /\ UNCHANGED <<req, status>>
        /\ todo'[x] = todo[x] \ {c} /\ msgs'[s] = Append(msgs[s], Result(req[x], c))
    BY <1>1, <1>2, <1>4, <1>10 DEF PersistResult, s, tables
  <2>2. PICK k \in DOMAIN msgs[s] :
          IsLastRequest(msgs[s], k) /\ req[x] = msgs[s][k] /\ todo[x] = MissingAfter(msgs[s], k)
    BY <1>5, <2>1 DEF Serves
  <2>3. c \in Calls(msgs[s][k])
    BY <1>10, <2>2 DEF MissingAfter
  <2>4. /\ k \in DOMAIN msgs'[s] /\ IsLastRequest(msgs'[s], k) /\ msgs'[s][k] = msgs[s][k]
        /\ MissingAfter(msgs'[s], k) = MissingAfter(msgs[s], k) \ {c}
    BY <1>3, <2>1, <2>2, <2>3, AnswerLast
  <2>5. req[x].run = cur[x] \/ req[x].run \in Failed'
    BY <1>5, <2>1 DEF Serves, Failed
  <2> QED BY <2>1, <2>2, <2>4, <2>5 DEF Serves
<1>11. CASE Fail(x) \/ StopAtLimit(x) \/ MarkDelivered(x) \/ StopRepeated(x)
  <2>1. pc'[x] = "idle"
    BY <1>1, <1>11 DEF Fail, StopAtLimit, MarkDelivered, StopRepeated, Leave
  <2> QED BY <2>1 DEF Serves
<1>12. CASE \/ SaveUserMessage(x) \/ BuildPrompt(x) \/ SaveSummary(x) \/ DropCompacted(x)
            \/ DeleteFails(x) \/ AskModel(x) \/ SaveAnswer(x) \/ CompleteRun(x) \/ FinishTools(x)
  <2>1. pc'[x] \notin {"called", "tool", "result"}
    BY <1>2, <1>12 DEF SaveUserMessage, BuildPrompt, SaveSummary, DropCompacted, DeleteFails,
      AskModel, SaveAnswer, CompleteRun, FinishTools
  <2> QED BY <2>1 DEF Serves
<1> QED BY <1>7, <1>8, <1>9, <1>10, <1>11, <1>12 DEF Step, s

LEMMA FailedStay ==
  ASSUME TypeOK, OneProcessOnly, Ownership, [Next]_vars
  PROVE  Failed \subseteq Failed'
BY ClosedStep DEF Failed, Terminal

LEMMA BatchStep ==
  ASSUME TypeOK, TypeOK', OneProcessOnly, Ownership, Fits, KnownRuns, AnswersOK, BatchOK, [Next]_vars
  PROVE  BatchOK'
<1> SUFFICES ASSUME NEW x \in Workers
             PROVE  Serves(pc'[x], msgs'[sess'[cur'[x]]], req'[x], todo'[x], cur'[x], Failed')
  BY DEF BatchOK, Rows
<1>1. Serves(pc[x], Rows(x), req[x], todo[x], cur[x], Failed) /\ Failed \subseteq Failed'
  BY FailedStay DEF BatchOK
<1>2. CASE Stays(x)
  <2>1. /\ pc'[x] = pc[x] /\ msgs'[sess'[cur'[x]]] = Rows(x) /\ req'[x] = req[x]
        /\ todo'[x] = todo[x] /\ cur'[x] = cur[x]
    BY <1>2 DEF Stays, Rows
  <2> QED BY <1>1, <2>1 DEF Serves
<1>3. CASE Moves(x)
  BY <1>3, BatchMove DEF Moves
<1>4. CASE pc'[x] = "idle" \/ Enters(x)
  BY <1>4 DEF Serves, Enters
<1>5. CASE Resumes(x)
  <2>1. PICK row \in queue[ProcOf[x]] : ResumeModel(x, row[1], row[2]) \/ ResumeTools(x, row[1], row[2])
    BY <1>5 DEF Resumes
  <2> DEFINE r == row[1]
  <2>2. r \in RunIds /\ IsOpen(r)
    BY ConstantsAssumption DEF Ownership, QueueOK, TypeOK, ProcsOK
  <2>3. CASE ResumeModel(x, r, row[2])
    BY <2>3 DEF ResumeModel, Goto, Serves, TypeOK, WorkersOK
  <2>4. CASE ResumeTools(x, r, row[2])
    <3> DEFINE s == sess[r]
               m == msgs[s]
    <3>1. s \in Sessions /\ m \in Seq(Message) /\ ListMessages(s) = m
      BY <2>2, Listed DEF Fits, TypeOK, TablesOK
    <3>2. PICK k \in DOMAIN m : /\ IsLastRequest(m, k) /\ MissingAfter(m, k) # {}
                                /\ req'[x] = m[k] /\ todo'[x] = MissingAfter(m, k)
      <4>1. /\ req \in [Workers -> Message \cup {NoRequest}] /\ todo \in [Workers -> SUBSET Nat]
            /\ \E k \in DOMAIN ListMessages(s) :
                 /\ IsLastRequest(ListMessages(s), k) /\ MissingAfter(ListMessages(s), k) # {}
                 /\ req' = [req EXCEPT ![x] = ListMessages(s)[k]]
                 /\ todo' = [todo EXCEPT ![x] = MissingAfter(ListMessages(s), k)]
        BY <2>4 DEF ResumeTools, TypeOK, WorkersOK
      <4> QED BY <3>1, <4>1
    <3>3. pc'[x] = "tool" /\ cur'[x] = r /\ sess' = sess /\ msgs' = msgs
      BY <2>4 DEF ResumeTools, Goto, TypeOK, WorkersOK
    <3>4. k \in RequestsIn(m) /\ m[k].run \in RunIds /\ sess[m[k].run] = s
      BY <3>1, <3>2, RequestRun DEF IsLastRequest, KnownRuns
    <3>5. m[k].run = r \/ m[k].run \in Failed
      <4>1. Settled(m, k) \/ Pending(m, k)
        BY <3>1, <3>4 DEF AnswersOK
      <4>2. Pending(m, k) => m[k].run = r
        BY <2>2, <3>4 DEF Pending, Ownership, OneOpenRunPerSession
      <4> QED BY <3>2, <3>4, <4>1, <4>2 DEF Settled, Failed
    <3> QED BY <1>1, <3>2, <3>3, <3>5 DEF Serves
  <2> QED BY <2>1, <2>3, <2>4
<1> QED BY <1>2, <1>3, <1>4, <1>5, WorkerSteps

(* The list for the model was read, and cut, with nothing pending in it.   *)
Complete(l, v, failed) ==
  l \in Viewing => \A k \in RequestsIn(v) : MissingAfter(v, k) = {} \/ v[k].run \in failed

ViewOK == \A w \in Workers : Complete(pc[w], view[w], Failed)

LEMMA CompleteInherits ==
  ASSUME NEW v, NEW u, NEW d, NEW F, NEW l \in Viewing, NEW k, Complete(l, v, F), Inherits(u, v, d)
  PROVE  Complete(k, u, F)
<1> SUFFICES ASSUME NEW j \in RequestsIn(u) PROVE MissingAfter(u, j) = {} \/ u[j].run \in F
  BY DEF Complete
<1>1. j + d \in RequestsIn(v) /\ u[j] = v[j + d] /\ MissingAfter(u, j) \subseteq MissingAfter(v, j + d)
  BY DEF Inherits
<1>2. MissingAfter(v, j + d) = {} \/ v[j + d].run \in F
  BY <1>1 DEF Complete
<1> QED BY <1>1, <1>2

LEMMA MoveCompletes ==
  ASSUME TypeOK, NEW s \in Sessions, NEW r \in RunIds, NEW l, NEW k,
         NEW v \in Seq(Message), NEW n \in Seq(Message), NEW u \in Seq(Message),
         Len(msgs[s]) <= ListLimit,
         l = "loop" => \A j \in RequestsIn(msgs[s]) : Settled(msgs[s], j),
         Shrinking(l, msgs[s], v), Complete(l, v, Failed), Effect(l, msgs[s], v, k, n, u, r, s)
  PROVE  Complete(k, u, Failed)
<1> DEFINE m == msgs[s]
<1>1. Len(v) \in Nat /\ KeptTail \in Nat /\ ListMessages(s) = m /\ Summary(r) \in Message
  BY Listed, HistoryMessages, ConstantsAssumption DEF KeptTail
<1>2. CASE k \notin Viewing
  BY <1>2 DEF Complete
<1>3. CASE l = "loop" /\ u = ListMessages(s)
  <2>1. ASSUME NEW j \in RequestsIn(m) PROVE MissingAfter(m, j) = {} \/ m[j].run \in Failed
    BY <1>3, RequestRun DEF Settled, Failed
  <2> QED BY <1>1, <1>3, <2>1 DEF Complete
<1>4. CASE l \in Viewing /\ u = v
  BY <1>4 DEF Complete
<1>5. CASE l = "drop" /\ u = <<Summary(r)>> \o SubSeq(v, HeadLen(v) + 1, Len(v))
  <2>1. HeadLen(v) \in Nat \ {0} /\ HeadLen(v) <= Len(v)
    <3>1. Len(v) > KeptTail
      BY <1>5 DEF Shrinking
    <3> QED BY <1>1, <3>1 DEF HeadLen
  <2>2. ~IsRequest(Summary(r))
    BY NotRequests
  <2> DEFINE h == HeadLen(v)
             g == Summary(r)
  <2> HIDE DEF h, g
  <2>3. Inherits(<<g>> \o SubSeq(v, h + 1, Len(v)), v, h - 1)
    BY <1>1, <2>1, <2>2, PromptInherits DEF h, g
  <2>4. Inherits(u, v, h - 1)
    BY <1>5, <2>3 DEF h, g
  <2>5. l \in Viewing
    BY <1>5 DEF Viewing
  <2> QED BY <2>4, <2>5, CompleteInherits
<1> QED BY <1>2, <1>3, <1>4, <1>5 DEF Effect, Viewing

LEMMA ViewStep ==
  ASSUME TypeOK, TypeOK', OneProcessOnly, Ownership, Fits, ShrinkOK, KnownRuns, AnswersOK, ViewOK,
         [Next]_vars
  PROVE  ViewOK'
<1> SUFFICES ASSUME NEW x \in Workers PROVE Complete(pc'[x], view'[x], Failed')
  BY DEF ViewOK
<1>1. Complete(pc[x], view[x], Failed)
  BY DEF ViewOK
<1>2. ASSUME NEW l, NEW v, Complete(l, v, Failed) PROVE Complete(l, v, Failed')
  BY <1>2, FailedStay DEF Complete
<1>3. CASE Stays(x)
  BY <1>1, <1>2, <1>3 DEF Stays
<1>4. CASE Moves(x)
  <2>1. PICK s \in Sessions, r \in RunIds, v, n, u \in Seq(Message) : MoveOf(x, s, r, v, n, u)
    BY <1>4, MoveParts
  <2> DEFINE l == pc[x]
             k == pc'[x]
  <2>2. /\ Effect(l, msgs[s], v, k, n, u, r, s) /\ Complete(l, v, Failed)
        /\ Shrinking(l, msgs[s], v) /\ Len(msgs[s]) <= ListLimit
    BY <1>1, <2>1 DEF MoveOf, ShrinkOK, Fits
  <2>3. l = "loop" => \A j \in RequestsIn(msgs[s]) : Settled(msgs[s], j)
    <3>1. s = sess[cur[x]]
      BY <2>1 DEF MoveOf
    <3>2. Busy(x)
      BY <1>4, StepEffect DEF Moves
    <3> QED BY <3>1, <3>2, NothingPending DEF Serving
  <2> HIDE DEF l, k
  <2>4. Complete(k, u, Failed)
    BY <2>2, <2>3, MoveCompletes
  <2> QED BY <1>2, <2>1, <2>4 DEF MoveOf, k
<1>5. CASE pc'[x] = "idle" \/ Enters(x) \/ Resumes(x)
  BY <1>5 DEF Complete, Viewing, Enters, Resumes
<1> QED BY <1>3, <1>4, <1>5, WorkerSteps

CallsInv == Ownership /\ ShrinkOK /\ KnownRuns /\ AnswersOK /\ BatchOK /\ ViewOK

LEMMA CallsInit == Init => CallsInv
<1> SUFFICES ASSUME Init PROVE CallsInv
  OBVIOUS
<1>1. KnownRuns /\ AnswersOK
  BY DEF Init, KnownRuns, AnswersOK, RequestsIn
<1>2. ShrinkOK /\ BatchOK /\ ViewOK
  BY DEF Init, ShrinkOK, Shrinking, BatchOK, Serves, ViewOK, Complete, Viewing
<1> QED BY <1>1, <1>2, OwnershipInit DEF CallsInv

LEMMA CallsStep ==
  ASSUME TypeOK, TypeOK', OneProcessOnly, Fits, CallsInv, [Next]_vars
  PROVE  CallsInv'
<1> USE DEF CallsInv
<1>1. Ownership' /\ ShrinkOK'
  BY OwnershipStep, ShrinkStep
<1>2. KnownRuns' /\ BatchOK' /\ ViewOK'
  BY KnownStep, BatchStep, ViewStep
<1>3. AnswersOK'
  BY <1>1, AnswersStep
<1> QED BY <1>1, <1>2, <1>3

LEMMA CallsAlways ==
  ASSUME OneProcessOnly
  PROVE  Spec /\ []Fits => [](TypeOK /\ CallsInv)
<1>1. TypeOK /\ TypeOK' /\ Fits /\ CallsInv /\ [Next]_vars => CallsInv'
  BY OneProcessOnly, CallsStep
<1> QED BY <1>1, CallsInit, TypeCorrect, PTL DEF Spec

\* A goroutine never serves the calls of a run that is completed or that goes
\* on elsewhere, though recovery takes them from the last tool-call message of
\* the session and not of the run (loop.go:318): a batch still unanswered
\* belongs to the run itself or to one that failed.
THEOREM BatchIsOwnOrFailed ==
  ASSUME OneProcessOnly
  PROVE  Spec /\ []Fits => []ServesOwnOrFailed
<1>1. TypeOK /\ CallsInv => ServesOwnOrFailed
  BY DEF CallsInv, BatchOK, Serves, Failed, ServesOwnOrFailed, At
<1> QED BY <1>1, OneProcessOnly, CallsAlways, PTL

\* What the model is shown without a result was left by a run that failed: the
\* batch of a run that goes on is complete in the session before its next
\* prompt is read, also when a crash cut it and recovery served the rest, and
\* no compaction separates a call it keeps from its result (loop.go:142-190).
THEOREM DanglingIsFailed ==
  ASSUME OneProcessOnly
  PROVE  Spec /\ []Fits => []PromptDanglesOnlyAfterFailure
<1>1. TypeOK /\ CallsInv => PromptDanglesOnlyAfterFailure
  <2> SUFFICES ASSUME TypeOK, CallsInv, NEW w \in Workers, At(w, "model"),
                      NEW k \in RequestsIn(view[w])
               PROVE  AnsweredIn(view[w], k) \/ status[view[w][k].run] = "failed"
    BY DEF PromptDanglesOnlyAfterFailure
  <2>1. MissingAfter(view[w], k) = {} \/ status[view[w][k].run] = "failed"
    BY DEF CallsInv, ViewOK, Complete, Viewing, Failed, At
  <2>2. view[w] \in Seq(Message) /\ k \in DOMAIN view[w]
    BY DEF TypeOK, WorkersOK, RequestsIn
  <2> QED BY <2>1, <2>2, MissingIs
<1> QED BY <1>1, OneProcessOnly, CallsAlways, PTL

(***************************************************************************)
(* Executions.  Of the calls still to be answered only the next one can    *)
(* have been executed already: tools run one after the other and each      *)
(* result is saved before the next call.                                   *)
(***************************************************************************)
IsExecuted(q, c) == Call(q, c) \in executed

LeastOnly(q, t) == \A c \in t : IsExecuted(q, c) => \A d \in t : c <= d

RoundsKnown ==
  \A s \in Sessions : \A k \in RequestsIn(msgs[s]) :
    /\ msgs[s][k].round <= rounds[msgs[s][k].run]
    /\ \A j \in RequestsIn(msgs[s]) :
         msgs[s][j].run = msgs[s][k].run /\ msgs[s][j].round = msgs[s][k].round => j = k

ExecutedKnown == \A q \in RunIds, i \in Nat, c \in Nat : <<q, i, c>> \in executed => i <= rounds[q]

LeastExecuted ==
  \A s \in Sessions : \A k \in RequestsIn(msgs[s]) : LeastOnly(msgs[s][k], MissingAfter(msgs[s], k))

FreshCalls ==
  \A w \in Workers : pc[w] = "called" => \A c \in Calls(req[w]) : ~IsExecuted(req[w], c)

ExecInv == RoundsKnown /\ ExecutedKnown /\ LeastExecuted /\ FreshCalls

Executes(w, c) ==
  /\ pc[w] = "tool" /\ NextCall(w, c) /\ pc'[w] = "result"
  /\ executed' = executed \cup {Call(req[w], c)}
  /\ reexecs' = IF Call(req[w], c) \in executed THEN reexecs + 1 ELSE reexecs
  /\ UNCHANGED <<msgs, status, sess, phase, queue, cur, req, todo, rounds, crashes>>
  /\ \A x \in Workers : x # w => pc'[x] = pc[x]

LEMMA ExecSteps ==
  ASSUME TypeOK, [Next]_vars
  PROVE  \/ UNCHANGED <<executed, reexecs>>
         \/ \E w \in Workers : \E c \in todo[w] : Executes(w, c)
<1>1. ASSUME NEW w \in Workers, NEW r \in RunIds, NEW s \in Sessions,
             NEW i \in Items \cup {NoItem}, Accept(w, r, s, i)
      PROVE  UNCHANGED <<executed, reexecs>>
  BY <1>1 DEF Accept, hist
<1>2. ASSUME NEW w \in Workers, NEW c \in todo[w], NEW o \in {"ok"} \cup ErrKinds, ExecTool(w, c, o)
      PROVE  Executes(w, c)
  BY <1>2 DEF ExecTool, Executes, At, Goto, db, tables, procs, mine, TypeOK, WorkersOK
<1>3. ASSUME NEW w \in Workers, Step(w) \/ Fail(w),
             ~\E c \in todo[w], o \in {"ok"} \cup ErrKinds : ExecTool(w, c, o)
      PROVE  UNCHANGED <<executed, reexecs>>
  BY <1>3 DEF Step, Fail, SaveUserMessage, StopAtLimit, BuildPrompt, SaveSummary, DropCompacted,
     DeleteFails, AskModel, SaveAnswer, CompleteRun, MarkDelivered, BeginTools, FinishTools,
     StopRepeated, SaveToolCalls, RefuseCall, PersistResult, hist
<1>4. ASSUME NEW w \in Workers, Recover(w) PROVE UNCHANGED <<executed, reexecs>>
  BY <1>4 DEF Recover, CloseInterrupted, ResumeModel, ResumeTools, hist
<1>5. ASSUME NEW p \in Procs, Boot(p) \/ Serve(p) \/ Exit(p) \/ Crash(p)
      PROVE  UNCHANGED <<executed, reexecs>>
  BY <1>5 DEF Boot, Serve, Exit, Crash, hist
<1>6. CASE UNCHANGED vars
  BY <1>6 DEF vars, hist
<1> QED BY <1>1, <1>2, <1>3, <1>4, <1>5, <1>6 DEF Next

LEMMA RoundSteps ==
  ASSUME TypeOK, [Next]_vars, NEW q \in RunIds
  PROVE  rounds'[q] = rounds[q] \/ rounds'[q] = rounds[q] + 1
<1>1. ASSUME NEW w \in Workers, NEW n \in 1 .. MaxCalls, SaveToolCalls(w, n)
      PROVE  rounds'[q] = rounds[q] \/ rounds'[q] = rounds[q] + 1
  BY <1>1 DEF SaveToolCalls, TypeOK, HistoryOK
<1>2. ASSUME NEW w \in Workers, Step(w) \/ Fail(w), ~\E n \in 1 .. MaxCalls : SaveToolCalls(w, n)
      PROVE  rounds' = rounds
  BY <1>2 DEF Step, Fail, SaveUserMessage, StopAtLimit, BuildPrompt, SaveSummary, DropCompacted,
     DeleteFails, AskModel, SaveAnswer, CompleteRun, MarkDelivered, BeginTools, FinishTools,
     StopRepeated, ExecTool, RefuseCall, PersistResult, hist
<1>3. ASSUME NEW w \in Workers, Recover(w) PROVE rounds' = rounds
  BY <1>3 DEF Recover, CloseInterrupted, ResumeModel, ResumeTools, hist
<1>4. ASSUME NEW p \in Procs, Boot(p) \/ Serve(p) \/ Exit(p) \/ Crash(p) PROVE rounds' = rounds
  BY <1>4 DEF Boot, Serve, Exit, Crash, hist
<1>5. ASSUME NEW w \in Workers, NEW r \in RunIds, NEW s \in Sessions,
             NEW i \in Items \cup {NoItem}, Accept(w, r, s, i)
      PROVE  rounds' = rounds
  BY <1>5 DEF Accept, hist
<1>6. CASE UNCHANGED vars
  BY <1>6 DEF vars, hist
<1> QED BY <1>1, <1>2, <1>3, <1>4, <1>5, <1>6 DEF Next

(* Saving a tool-call message. *)
LEMMA CallSteps ==
  ASSUME TypeOK, TypeOK', OneProcessOnly, Ownership, [Next]_vars, NEW x \in Workers,
         pc'[x] = "called", ~Stays(x)
  PROVE  /\ req'[x].run = cur[x] /\ req'[x].round = rounds[cur[x]] + 1
         /\ rounds'[cur[x]] = rounds[cur[x]] + 1 /\ executed' = executed /\ cur[x] \in RunIds
<1>1. Moves(x)
  BY WorkerSteps DEF Enters, Resumes
<1>2. \A l : Goto(x, l) => pc'[x] = l
  BY DEF Goto, TypeOK, WorkersOK
<1>3. PICK n \in 1 .. MaxCalls : SaveToolCalls(x, n)
  <2>1. ~Fail(x) /\ ~StopAtLimit(x) /\ ~MarkDelivered(x) /\ ~StopRepeated(x)
    <3>1. \/ Fail(x) \/ StopAtLimit(x) \/ MarkDelivered(x) \/ StopRepeated(x) => pc'[x] = "idle"
      BY DEF Fail, StopAtLimit, MarkDelivered, StopRepeated, Leave, TypeOK, WorkersOK
    <3> QED BY <3>1
  <2> QED BY <1>1, <1>2, <2>1 DEF Moves, Step, SaveUserMessage, BuildPrompt, SaveSummary,
    DropCompacted, DeleteFails, AskModel, SaveAnswer, CompleteRun, BeginTools, FinishTools,
    ExecTool, RefuseCall, PersistResult
<1>4. cur[x] \in RunIds
  BY <1>1 DEF Moves
<1> QED BY <1>3, <1>4 DEF SaveToolCalls, Assistant, TypeOK, HistoryOK, WorkersOK

(* The message a goroutine serves is one of its session's, and names a run *)
(* of the session.                                                         *)
LEMMA ServedRequest ==
  ASSUME TypeOK, Ownership, KnownRuns, BatchOK, NEW w \in Workers, pc[w] \in {"tool", "result"}
  PROVE  \E s \in Sessions : \E k \in RequestsIn(msgs[s]) :
           /\ s = sess[cur[w]] /\ cur[w] \in RunIds /\ IsOpen(cur[w])
           /\ req[w] = msgs[s][k] /\ todo[w] = MissingAfter(msgs[s], k)
           /\ req[w] \in Message /\ req[w].run \in RunIds /\ req[w].round \in Nat
           /\ sess[req[w].run] = s
<1>1. cur[w] \in RunIds /\ sess[cur[w]] \in Sessions /\ IsOpen(cur[w])
  BY BusyRun, HeldRun DEF Busy, TypeOK, WorkersOK, At
<1>2. PICK k \in DOMAIN Rows(w) :
        IsLastRequest(Rows(w), k) /\ req[w] = Rows(w)[k] /\ todo[w] = MissingAfter(Rows(w), k)
  BY DEF BatchOK, Serves
<1>3. k \in RequestsIn(msgs[sess[cur[w]]])
  BY <1>2 DEF IsLastRequest, Rows
<1>4. req[w] = msgs[sess[cur[w]]][k] /\ todo[w] = MissingAfter(msgs[sess[cur[w]]], k)
  BY <1>2 DEF Rows
<1>5. req[w] \in Message /\ req[w].run \in RunIds /\ req[w].round \in Nat
  BY <1>1, <1>3, <1>4, RequestRun DEF Message
<1>6. sess[req[w].run] = sess[cur[w]]
  BY <1>1, <1>3, <1>4 DEF KnownRuns
<1> QED BY <1>1, <1>3, <1>4, <1>5, <1>6

LEMMA RoundsKnownStep ==
  ASSUME TypeOK, TypeOK', OneProcessOnly, Ownership, ShrinkOK, KnownRuns, RoundsKnown, [Next]_vars
  PROVE  RoundsKnown'
<1> SUFFICES ASSUME NEW s \in Sessions, NEW k \in RequestsIn(msgs'[s])
             PROVE  /\ msgs'[s][k].round <= rounds'[msgs'[s][k].run]
                    /\ \A j \in RequestsIn(msgs'[s]) :
                         /\ msgs'[s][j].run = msgs'[s][k].run
                         /\ msgs'[s][j].round = msgs'[s][k].round
                         => j = k
  BY DEF RoundsKnown, RequestsIn, IsRequest
<1> DEFINE m == msgs[s]
           n == msgs'[s]
<1>1. m \in Seq(Message) /\ n \in Seq(Message)
  BY DEF TypeOK, TablesOK
<1>2. \A j \in RequestsIn(m) : m[j] \in Message /\ m[j].run \in RunIds /\ m[j].round \in Nat
  BY RequestRun DEF Message
<1>3. ASSUME NEW q \in RunIds, NEW i \in Nat, i <= rounds[q] PROVE i <= rounds'[q]
  <2>1. rounds[q] \in Nat /\ (rounds'[q] = rounds[q] \/ rounds'[q] = rounds[q] + 1)
    BY RoundSteps DEF TypeOK, HistoryOK
  <2> QED BY <1>3, <2>1
<1>4. \A j \in RequestsIn(m) : m[j].round <= rounds[m[j].run] /\ m[j].round <= rounds'[m[j].run]
  BY <1>2, <1>3 DEF RoundsKnown
<1>5. \A i, j \in RequestsIn(m) : m[i].run = m[j].run /\ m[i].round = m[j].round => i = j
  BY DEF RoundsKnown
<1>6. ASSUME NEW d \in Nat, Inherits(n, m, d)
      PROVE  /\ n[k].round <= rounds'[n[k].run]
             /\ \A j \in RequestsIn(n) : n[j].run = n[k].run /\ n[j].round = n[k].round => j = k
  <2>1. \A j \in RequestsIn(n) : j \in Nat /\ j + d \in RequestsIn(m) /\ n[j] = m[j + d]
    BY <1>1, <1>6 DEF Inherits, RequestsIn
  <2>2. \A i, j \in Nat : i + d = j + d => i = j
    OBVIOUS
  <2> QED BY <1>4, <1>5, <2>1, <2>2
<1>7. ASSUME NEW w \in Workers, NEW g \in Message, AsksIn(w, s, g)
      PROVE  /\ n[k].round <= rounds'[n[k].run]
             /\ \A j \in RequestsIn(n) : n[j].run = n[k].run /\ n[j].round = n[k].round => j = k
  <2>1. n = Append(m, g) /\ g.run = cur[w] /\ g.round = rounds[cur[w]] + 1
    BY <1>7 DEF AsksIn
  <2>2. cur[w] \in RunIds /\ rounds[cur[w]] \in Nat /\ rounds'[cur[w]] = rounds[cur[w]] + 1
    BY <1>7, CallSteps DEF AsksIn, Stays, TypeOK, HistoryOK
  <2>3. \A j \in RequestsIn(n) :
          \/ j \in RequestsIn(m) /\ n[j] = m[j]
          \/ j = Len(m) + 1 /\ n[j] = g
    BY <1>1, <2>1, AppendRequest
  <2>4. \A j \in RequestsIn(m) : ~(m[j].run = g.run /\ m[j].round = g.round)
    BY <1>2, <1>4, <2>1, <2>2
  <2>5. g.round <= rounds'[g.run]
    BY <2>1, <2>2
  <2>6. n[k].round <= rounds'[n[k].run]
    BY <1>4, <2>3, <2>5
  <2>7. ASSUME NEW j \in RequestsIn(n), n[j].run = n[k].run, n[j].round = n[k].round PROVE j = k
    BY <1>5, <2>3, <2>4, <2>7
  <2> QED BY <2>6, <2>7
<1> QED BY <1>6, <1>7, ListSteps

LEMMA ExecutedKnownStep ==
  ASSUME TypeOK, TypeOK', Ownership, KnownRuns, BatchOK, RoundsKnown, ExecutedKnown, [Next]_vars
  PROVE  ExecutedKnown'
<1> SUFFICES ASSUME NEW q \in RunIds, NEW i \in Nat, NEW c \in Nat, <<q, i, c>> \in executed'
             PROVE  i <= rounds'[q]
  BY DEF ExecutedKnown
<1>1. rounds[q] \in Nat /\ (rounds'[q] = rounds[q] \/ rounds'[q] = rounds[q] + 1)
  BY RoundSteps DEF TypeOK, HistoryOK
<1>2. i <= rounds[q]
  <2>1. CASE executed' = executed
    BY <2>1 DEF ExecutedKnown
  <2>2. ASSUME NEW w \in Workers, NEW b \in todo[w], Executes(w, b) PROVE i <= rounds[q]
    <3>1. CASE <<q, i, c>> \in executed
      BY <3>1 DEF ExecutedKnown
    <3>2. CASE <<q, i, c>> = Call(req[w], b)
      <4>1. q = req[w].run /\ i = req[w].round
        BY <3>2 DEF Call
      <4>2. PICK s \in Sessions : \E k \in RequestsIn(msgs[s]) : req[w] = msgs[s][k]
        BY <2>2, ServedRequest DEF Executes
      <4> QED BY <4>1, <4>2 DEF RoundsKnown
    <3> QED BY <2>2, <3>1, <3>2 DEF Executes
  <2> QED BY <2>1, <2>2, ExecSteps
<1> QED BY <1>1, <1>2

LEMMA LeastExecutedStep ==
  ASSUME TypeOK, TypeOK', OneProcessOnly, Ownership, ShrinkOK, KnownRuns, BatchOK,
         RoundsKnown, ExecutedKnown, LeastExecuted, [Next]_vars
  PROVE  LeastExecuted'
<1> SUFFICES ASSUME NEW s \in Sessions, NEW k \in RequestsIn(msgs'[s]),
                    NEW c \in MissingAfter(msgs'[s], k), Call(msgs'[s][k], c) \in executed',
                    NEW d \in MissingAfter(msgs'[s], k)
             PROVE  c <= d
  BY DEF LeastExecuted, LeastOnly, IsExecuted, RequestsIn, IsRequest, MissingAfter, Calls, Call
<1> DEFINE m == msgs[s]
           n == msgs'[s]
<1>1. m \in Seq(Message) /\ n \in Seq(Message)
  BY DEF TypeOK, TablesOK
<1>2. CASE executed' = executed
  <2>1. ASSUME NEW j \in RequestsIn(m), n[k] = m[j], MissingAfter(n, k) \subseteq MissingAfter(m, j)
        PROVE  c <= d
    BY <1>2, <2>1 DEF LeastExecuted, LeastOnly, IsExecuted
  <2>2. ASSUME NEW e \in Nat, Inherits(n, m, e) PROVE c <= d
    BY <2>1, <2>2 DEF Inherits
  <2>3. ASSUME NEW w \in Workers, NEW g \in Message, AsksIn(w, s, g) PROVE c <= d
    <3>1. n = Append(m, g)
      BY <2>3 DEF AsksIn
    <3>2. CASE k \in RequestsIn(m)
      <4>1. n[k] = m[k] /\ MissingAfter(n, k) \subseteq MissingAfter(m, k)
        BY <1>1, <3>1, <3>2, AppendMissing
      <4> QED BY <2>1, <3>2, <4>1
    <3>3. CASE k \notin RequestsIn(m)
      <4>1. n[k] = g
        BY <1>1, <3>1, <3>3, AppendRequest
      <4>2. cur[w] \in RunIds /\ g.run = cur[w] /\ g.round = rounds[cur[w]] + 1
            /\ rounds[cur[w]] \in Nat
        BY <2>3, HeldRun DEF AsksIn, TypeOK, HistoryOK
      <4>3. c \in Nat
        BY DEF MissingAfter, Calls
      <4>4. <<cur[w], rounds[cur[w]] + 1, c>> \in executed
        BY <1>2, <4>1, <4>2 DEF Call
      <4>5. rounds[cur[w]] + 1 \in Nat /\ ~(rounds[cur[w]] + 1 <= rounds[cur[w]])
        BY <4>2
      <4> QED BY <4>2, <4>3, <4>4, <4>5 DEF ExecutedKnown
    <3> QED BY <3>2, <3>3
  <2> QED BY <2>2, <2>3, ListSteps
<1>3. ASSUME NEW w \in Workers, NEW b \in todo[w], Executes(w, b) PROVE c <= d
  <2>1. n = m /\ k \in RequestsIn(m) /\ c \in MissingAfter(m, k) /\ d \in MissingAfter(m, k)
    BY <1>3 DEF Executes
  <2>2. CASE Call(m[k], c) \in executed
    BY <2>1, <2>2 DEF LeastExecuted, LeastOnly, IsExecuted
  <2>3. CASE Call(m[k], c) = Call(req[w], b)
    <3>1. m[k].run = req[w].run /\ m[k].round = req[w].round /\ c = b
      BY <2>3 DEF Call
    <3>2. PICK t \in Sessions : \E i \in RequestsIn(msgs[t]) :
            req[w] = msgs[t][i] /\ todo[w] = MissingAfter(msgs[t], i) /\ sess[req[w].run] = t
      BY <1>3, ServedRequest DEF Executes
    <3>3. PICK j \in RequestsIn(msgs[t]) :
            req[w] = msgs[t][j] /\ todo[w] = MissingAfter(msgs[t], j) /\ sess[req[w].run] = t
      BY <3>2
    <3>4. t = s
      BY <2>1, <3>1, <3>3 DEF KnownRuns
    <3>5. j = k
      BY <2>1, <3>1, <3>4, <3>3 DEF RoundsKnown
    <3>6. d \in todo[w]
      BY <2>1, <3>4, <3>5, <3>3
    <3> QED BY <1>3, <3>1, <3>6 DEF Executes, NextCall
  <2> QED BY <1>3, <2>1, <2>2, <2>3 DEF Executes
<1> QED BY <1>2, <1>3, ExecSteps

LEMMA FreshStep ==
  ASSUME TypeOK, TypeOK', OneProcessOnly, Ownership, KnownRuns, BatchOK, ExecutedKnown, FreshCalls,
         [Next]_vars
  PROVE  FreshCalls'
<1> SUFFICES ASSUME NEW x \in Workers, pc'[x] = "called", NEW c \in Calls(req'[x])
             PROVE  Call(req'[x], c) \notin executed'
  BY DEF FreshCalls, IsExecuted, Calls, Call
<1>1. c \in Nat
  BY DEF Calls
<1>2. CASE Stays(x)
  <2>1. pc[x] = "called" /\ req'[x] = req[x] /\ Call(req[x], c) \notin executed
        /\ req[x].run = cur[x] /\ Busy(x)
    BY <1>2 DEF Stays, FreshCalls, IsExecuted, BatchOK, Serves
  <2>2. ASSUME NEW w \in Workers, NEW b \in todo[w], Executes(w, b) PROVE Call(req[x], c) # Call(req[w], b)
    <3>1. sess[req[w].run] = sess[cur[w]] /\ cur[w] \in RunIds /\ pc[w] = "tool"
      BY <2>2, ServedRequest DEF Executes
    <3>2. w # x /\ Busy(w)
      BY <2>1, <3>1, ConstantsAssumption DEF Busy
    <3>3. sess[cur[x]] # sess[cur[w]]
      BY <2>1, <3>2 DEF Ownership, BusyOK
    <3> QED BY <2>1, <3>1, <3>3 DEF Call
  <2> QED BY <2>1, <2>2, ExecSteps DEF Executes
<1>3. CASE ~Stays(x)
  <2>1. /\ req'[x].run = cur[x] /\ req'[x].round = rounds[cur[x]] + 1
        /\ executed' = executed /\ cur[x] \in RunIds
    BY <1>3, CallSteps
  <2>2. rounds[cur[x]] \in Nat
    BY <2>1 DEF TypeOK, HistoryOK
  <2>3. rounds[cur[x]] + 1 \in Nat /\ ~(rounds[cur[x]] + 1 <= rounds[cur[x]])
    BY <2>2
  <2> QED BY <1>1, <2>1, <2>3 DEF ExecutedKnown, Call
<1> QED BY <1>2, <1>3

LEMMA ExecStep ==
  ASSUME TypeOK, TypeOK', OneProcessOnly, CallsInv, ExecInv, [Next]_vars
  PROVE  ExecInv'
<1> USE DEF CallsInv, ExecInv
<1>1. RoundsKnown' /\ ExecutedKnown'
  BY RoundsKnownStep, ExecutedKnownStep
<1>2. LeastExecuted' /\ FreshCalls'
  BY LeastExecutedStep, FreshStep
<1> QED BY <1>1, <1>2

LEMMA ExecInit == Init => ExecInv
BY DEF Init, ExecInv, RoundsKnown, ExecutedKnown, LeastExecuted, FreshCalls, RequestsIn

(***************************************************************************)
(* Executions that are repeated.  A run is endangered when the call its    *)
(* batch takes next may have been executed already: while its process is   *)
(* down, while it waits for recovery, or while a goroutine is about to     *)
(* serve such a call.  Only a crash endangers runs, no more than there are *)
(* goroutines, and a repetition saves the run it happens to.               *)
(***************************************************************************)
Open == {r \in RunIds : IsOpen(r)}

Down      == \E p \in Procs : phase[p] = "down"
Waits(r)  == \E p \in Procs : \E row \in queue[p] : row[1] = r
AtRisk(w) == pc[w] = "tool" /\ \E c \in todo[w] : IsExecuted(req[w], c)

Endangered == {r \in Open : Down \/ Waits(r) \/ \E w \in Workers : cur[w] = r /\ AtRisk(w)}

LEMMA NewRun ==
  ASSUME TypeOK, OneProcessOnly, Ownership, [Next]_vars, NEW r \in RunIds,
         status[r] = "none", status'[r] # "none"
  PROVE  \E w \in Workers, s \in Sessions, i \in Items \cup {NoItem} : Accept(w, r, s, i)
<1>1. status \in [RunIds -> {"none"} \cup Incomplete \cup Terminal]
  BY DEF TypeOK, TablesOK
<1>2. ASSUME NEW q, NEW st, NEW it, SaveRun(q, st, it) PROVE q = r \/ status'[r] = status[r]
  BY <1>1, <1>2 DEF SaveRun
<1>3. ASSUME NEW w \in Workers, Step(w) \/ Fail(w) PROVE FALSE
  <2>1. Working(w) \/ Leaving(w) \/ CompleteRun(w)
    BY <1>3 DEF Step, Working, Leaving
  <2>2. UNCHANGED status \/ \E st, it : SaveRun(cur[w], st, it)
    BY <2>1, WorkingSteps, LeavingSteps DEF CompleteRun
  <2>3. status[cur[w]] # "none"
    BY <1>3, StepEffect, HeldRun
  <2> QED BY <1>2, <2>2, <2>3
<1>4. ASSUME NEW w \in Workers, Recover(w) PROVE FALSE
  <2>1. PICK row \in queue[ProcOf[w]] : \/ CloseInterrupted(w, row[1], row[2])
                                        \/ ResumeModel(w, row[1], row[2])
                                        \/ ResumeTools(w, row[1], row[2])
    BY <1>4 DEF Recover
  <2>2. \E st : SaveRun(row[1], st, row[2])
    BY <2>1 DEF CloseInterrupted, ResumeModel, ResumeTools
  <2>3. status[row[1]] # "none"
    BY ConstantsAssumption DEF Ownership, QueueOK, IsOpen, Incomplete
  <2> QED BY <1>2, <2>2, <2>3
<1>5. ASSUME NEW p \in Procs, Boot(p) \/ Serve(p) \/ Exit(p) \/ Crash(p) PROVE FALSE
  BY <1>5 DEF Boot, Serve, Exit, Crash, db, tables
<1>6. ASSUME NEW w \in Workers, NEW q \in RunIds, NEW s \in Sessions,
             NEW i \in Items \cup {NoItem}, Accept(w, q, s, i)
      PROVE  Accept(w, r, s, i)
  BY <1>2, <1>6 DEF Accept
<1>7. CASE UNCHANGED vars
  BY <1>7 DEF vars, db, tables
<1> QED BY <1>3, <1>4, <1>5, <1>6, <1>7 DEF Next

LEMMA OpenStep ==
  ASSUME TypeOK, TypeOK', OneProcessOnly, Ownership, [Next]_vars, NEW r \in Open', r \notin Open
  PROVE  \E w \in Workers, s \in Sessions, i \in Items \cup {NoItem} : Accept(w, r, s, i)
<1>1. r \in RunIds /\ status'[r] \in Incomplete /\ status[r] \notin Incomplete
  BY DEF Open, IsOpen
<1>2. status[r] \in {"none"} \cup Terminal /\ "none" \notin Incomplete /\ Incomplete \cap Terminal = {}
  BY <1>1 DEF TypeOK, TablesOK, Incomplete, Terminal
<1>3. status[r] = "none"
  BY <1>1, <1>2, ClosedStep
<1> QED BY <1>1, <1>2, <1>3, NewRun

LEMMA StepExecutes ==
  ASSUME TypeOK, OneProcessOnly, Ownership, NEW w \in Workers, Step(w) \/ Fail(w)
  PROVE  UNCHANGED <<executed, reexecs>> \/ \E c \in todo[w] : Executes(w, c)
<1>1. [Next]_vars
  BY DEF Next
<1>2. ASSUME NEW x \in Workers, NEW c \in todo[x], Executes(x, c) PROVE x = w
  BY <1>2, OthersStay DEF Executes
<1> QED BY <1>1, <1>2, ExecSteps

(* The other goroutines serve other calls. *)
LEMMA OthersNotAtRisk ==
  ASSUME TypeOK, OneProcessOnly, CallsInv, NEW w \in Workers, Step(w) \/ Fail(w),
         NEW x \in Workers, x # w, AtRisk(x)'
  PROVE  AtRisk(x) /\ cur'[x] = cur[x]
<1>1. Ownership /\ KnownRuns /\ BatchOK
  BY DEF CallsInv
<1>2. /\ pc'[x] = pc[x] /\ cur'[x] = cur[x] /\ req'[x] = req[x] /\ todo'[x] = todo[x]
      /\ pc[x] = "tool"
  BY <1>1, OthersStay DEF AtRisk
<1>3. PICK c \in todo[x] : Call(req[x], c) \in executed'
  BY <1>2 DEF AtRisk, IsExecuted, Call
<1>4. ASSUME NEW b \in todo[w], Executes(w, b) PROVE Call(req[x], c) # Call(req[w], b)
  <2>1. pc[w] = "tool"
    BY <1>4 DEF Executes
  <2>2. sess[req[w].run] = sess[cur[w]] /\ cur[w] \in RunIds
    BY <1>1, <2>1, ServedRequest
  <2>3. sess[req[x].run] = sess[cur[x]] /\ cur[x] \in RunIds
    BY <1>1, <1>2, ServedRequest
  <2>4. sess[cur[x]] # sess[cur[w]]
    BY <1>1, <2>2, <2>3, ConstantsAssumption DEF Ownership, BusyOK, Busy
  <2> QED BY <2>2, <2>3, <2>4 DEF Call
<1>5. Call(req[x], c) \in executed
  BY <1>1, <1>3, <1>4, StepExecutes DEF Executes
<1> QED BY <1>2, <1>5 DEF AtRisk, IsExecuted

(* A goroutine that goes on to the next call goes on to one not executed.  *)
LEMMA NextCallIsFresh ==
  ASSUME TypeOK, TypeOK', OneProcessOnly, CallsInv, ExecInv, NEW w \in Workers, Step(w) \/ Fail(w)
  PROVE  ~AtRisk(w)'
<1> SUFFICES ASSUME pc'[w] = "tool", NEW b \in todo'[w], Call(req'[w], b) \in executed' PROVE FALSE
  BY DEF AtRisk, IsExecuted, Call
<1>1. \A l : Goto(w, l) => pc'[w] = l
  BY DEF Goto, TypeOK, WorkersOK
<1>2. ~Fail(w) /\ ~StopAtLimit(w) /\ ~MarkDelivered(w) /\ ~StopRepeated(w)
  <2>1. \/ Fail(w) \/ StopAtLimit(w) \/ MarkDelivered(w) \/ StopRepeated(w) => pc'[w] = "idle"
    BY DEF Fail, StopAtLimit, MarkDelivered, StopRepeated, Leave, TypeOK, WorkersOK
  <2> QED BY <2>1
<1>3. CASE BeginTools(w)
  <2>1. pc[w] = "called" /\ req' = req /\ todo'[w] = Calls(req[w]) /\ executed' = executed
    BY <1>3 DEF BeginTools, At, TypeOK, WorkersOK, hist
  <2> QED BY <2>1 DEF ExecInv, FreshCalls, IsExecuted
<1>4. ASSUME NEW c \in todo[w], PersistResult(w, c) PROVE FALSE
  <2>1. /\ pc[w] = "result" /\ req' = req /\ todo'[w] = todo[w] \ {c} /\ executed' = executed
        /\ \A d \in todo[w] : c <= d
    BY <1>4 DEF PersistResult, At, TypeOK, WorkersOK, hist, NextCall
  <2>2. PICK s \in Sessions : \E k \in RequestsIn(msgs[s]) :
          req[w] = msgs[s][k] /\ todo[w] = MissingAfter(msgs[s], k)
    BY <2>1, ServedRequest DEF CallsInv
  <2>3. LeastOnly(req[w], todo[w])
    BY <2>2 DEF ExecInv, LeastExecuted
  <2>4. b \in todo[w] /\ b # c /\ c <= b /\ b <= c
    BY <2>1, <2>3 DEF LeastOnly, IsExecuted
  <2>5. b \in Nat /\ c \in Nat
    BY <2>4 DEF TypeOK, WorkersOK
  <2> QED BY <2>4, <2>5
<1> QED BY <1>1, <1>2, <1>3, <1>4 DEF Step, SaveUserMessage, BuildPrompt, SaveSummary,
  DropCompacted, DeleteFails, AskModel, SaveAnswer, CompleteRun, FinishTools, SaveToolCalls,
  ExecTool, RefuseCall

Saved(r) == r \in Endangered /\ Endangered' \subseteq Endangered \ {r}

WorkRisk ==
  \/ Endangered' \subseteq Endangered /\ reexecs' = reexecs
  \/ reexecs' = reexecs + 1 /\ \E r \in Endangered : Saved(r)

LEMMA StepRisk ==
  ASSUME TypeOK, TypeOK', OneProcessOnly, CallsInv, ExecInv, NEW w \in Workers, Step(w) \/ Fail(w)
  PROVE  WorkRisk
<1>1. [Next]_vars /\ Ownership
  BY DEF Next, CallsInv
<1>2. phase' = phase /\ queue' = queue
  BY DEF Step, Fail, SaveUserMessage, StopAtLimit, BuildPrompt, SaveSummary, DropCompacted,
     DeleteFails, AskModel, SaveAnswer, CompleteRun, MarkDelivered, BeginTools, FinishTools,
     StopRepeated, SaveToolCalls, ExecTool, RefuseCall, PersistResult, Leave, procs
<1>3. cur[w] \in RunIds /\ Busy(w) /\ phase[ProcOf[w]] # "down"
  BY <1>1, StepEffect DEF Ownership, BusyOK
<1>4. ~Down /\ ~Down' /\ \A r : Waits(r)' <=> Waits(r)
  BY <1>2, <1>3, ConstantsAssumption DEF Down, Waits, OneProcessOnly
<1>5. Open' \subseteq Open
  <2>1. ASSUME NEW x \in Workers, NEW r \in RunIds, NEW s \in Sessions,
               NEW i \in Items \cup {NoItem}, Accept(x, r, s, i)
        PROVE  FALSE
    <3>1. status[r] = "none" /\ status'[r] = "accepted"
      BY <2>1 DEF Accept, SaveRun, TypeOK, TablesOK
    <3>2. Working(w) \/ Leaving(w) \/ CompleteRun(w)
      BY DEF Step, Working, Leaving
    <3>3. UNCHANGED status \/ \E st, it : SaveRun(cur[w], st, it)
      BY <3>2, WorkingSteps, LeavingSteps DEF CompleteRun
    <3>4. status[cur[w]] # "none"
      BY <1>1, <1>3, HeldRun
    <3> QED BY <3>1, <3>3, <3>4 DEF SaveRun, TypeOK, TablesOK
  <2> QED BY <1>1, <2>1, OpenStep DEF Open
<1>6. ASSUME NEW x \in Workers, AtRisk(x)' PROVE x # w /\ AtRisk(x) /\ cur'[x] = cur[x]
  BY <1>6, NextCallIsFresh, OthersNotAtRisk
<1>7. Endangered' \subseteq Endangered
  BY <1>4, <1>5, <1>6 DEF Endangered
<1>8. ASSUME NEW c \in todo[w], Executes(w, c), Call(req[w], c) \in executed
      PROVE  reexecs' = reexecs + 1 /\ Saved(cur[w])
  <2>1. pc[w] = "tool" /\ AtRisk(w)
    BY <1>8 DEF Executes, AtRisk, IsExecuted
  <2>2. cur[w] \in Endangered
    BY <1>1, <1>3, <2>1, HeldRun DEF Endangered, Open
  <2>3. cur[w] \notin Endangered'
    <3>1. ~Waits(cur[w])
      BY <1>1 DEF Waits, Ownership, QueueOK, Owned
    <3>2. ASSUME NEW x \in Workers, AtRisk(x)', cur'[x] = cur[w] PROVE FALSE
      BY <1>1, <1>3, <1>6, <3>2 DEF Ownership, BusyOK, Busy
    <3> QED BY <1>4, <3>1, <3>2 DEF Endangered
  <2> QED BY <1>7, <1>8, <2>2, <2>3 DEF Saved, Executes
<1>9. ASSUME NEW c \in todo[w], Executes(w, c), Call(req[w], c) \notin executed
      PROVE  reexecs' = reexecs
  BY <1>9 DEF Executes
<1> QED BY <1>1, <1>7, <1>8, <1>9, StepExecutes DEF WorkRisk, Saved

LEMMA CrashSteps ==
  ASSUME [Next]_vars
  PROVE  \/ crashes' = crashes
         \/ \E p \in Procs : Crash(p)
<1>1. ASSUME NEW w \in Workers, Step(w) \/ Fail(w) PROVE crashes' = crashes
  BY <1>1 DEF Step, Fail, SaveUserMessage, StopAtLimit, BuildPrompt, SaveSummary, DropCompacted,
     DeleteFails, AskModel, SaveAnswer, CompleteRun, MarkDelivered, BeginTools, FinishTools,
     StopRepeated, SaveToolCalls, ExecTool, RefuseCall, PersistResult, hist
<1>2. ASSUME NEW w \in Workers, Recover(w) PROVE crashes' = crashes
  BY <1>2 DEF Recover, CloseInterrupted, ResumeModel, ResumeTools, hist
<1>3. ASSUME NEW p \in Procs, Boot(p) \/ Serve(p) \/ Exit(p) PROVE crashes' = crashes
  BY <1>3 DEF Boot, Serve, Exit, hist
<1>4. ASSUME NEW w \in Workers, NEW r \in RunIds, NEW s \in Sessions,
             NEW i \in Items \cup {NoItem}, Accept(w, r, s, i)
      PROVE  crashes' = crashes
  BY <1>4 DEF Accept, hist
<1>5. CASE UNCHANGED vars
  BY <1>5 DEF vars, hist
<1> QED BY <1>1, <1>2, <1>3, <1>4, <1>5 DEF Next

LEMMA AcceptRisk ==
  ASSUME TypeOK, TypeOK', OneProcessOnly, CallsInv, NEW w \in Workers, NEW q \in RunIds,
         NEW s \in Sessions, NEW i \in Items \cup {NoItem}, Accept(w, q, s, i)
  PROVE  WorkRisk
<1>1. Ownership
  BY DEF CallsInv
<1>2. /\ status[q] = "none" /\ status' = [status EXCEPT ![q] = "accepted"]
      /\ cur' = [cur EXCEPT ![w] = q] /\ pc' = [pc EXCEPT ![w] = "accepted"]
      /\ UNCHANGED <<phase, queue, req, todo, executed, reexecs>>
  BY DEF Accept, SaveRun, Goto, batch, hist
<1>3. ASSUME NEW x \in Workers, AtRisk(x)' PROVE AtRisk(x) /\ cur'[x] = cur[x] /\ cur[x] # q
  <2>1. x # w
    BY <1>2, <1>3 DEF AtRisk, TypeOK, WorkersOK
  <2>2. pc'[x] = pc[x] /\ cur'[x] = cur[x] /\ AtRisk(x)
    BY <1>2, <1>3, <2>1 DEF AtRisk, IsExecuted, TypeOK, WorkersOK
  <2>3. status[cur[x]] # "none"
    BY <1>1, <2>2, HeldRun DEF AtRisk, Busy, TypeOK, WorkersOK, At
  <2> QED BY <1>2, <2>2, <2>3
<1>4. \A r : (Down' <=> Down) /\ (Waits(r)' <=> Waits(r))
  BY <1>2 DEF Down, Waits
<1>5. ~Down /\ ~Waits(q)
  <2>1. phase[ProcOf[w]] = "up"
    BY DEF Accept
  <2>2. ~IsOpen(q)
    BY <1>2 DEF IsOpen, Incomplete
  <2> QED BY <1>1, <2>1, <2>2, ConstantsAssumption DEF Down, Waits, OneProcessOnly, Ownership, QueueOK
<1>6. \A r \in RunIds : r # q => (r \in Open' <=> r \in Open)
  BY <1>2 DEF Open, IsOpen, TypeOK, TablesOK
<1>7. Endangered' \subseteq Endangered
  BY <1>3, <1>4, <1>5, <1>6 DEF Endangered, Open
<1> QED BY <1>2, <1>7 DEF WorkRisk

LEMMA RecoverRisk ==
  ASSUME TypeOK, TypeOK', OneProcessOnly, CallsInv, NEW w \in Workers, Recover(w)
  PROVE  WorkRisk
<1>1. Ownership /\ [Next]_vars
  BY DEF CallsInv, Next
<1>2. PICK row \in queue[ProcOf[w]] : \/ CloseInterrupted(w, row[1], row[2])
                                      \/ ResumeModel(w, row[1], row[2])
                                      \/ ResumeTools(w, row[1], row[2])
  BY DEF Recover
<1>3. /\ phase' = phase /\ queue' = [queue EXCEPT ![ProcOf[w]] = @ \ {<<row[1], row[2]>>}]
      /\ phase[ProcOf[w]] = "recovering" /\ AllIdle(ProcOf[w])
      /\ reexecs' = reexecs
  BY <1>2 DEF CloseInterrupted, ResumeModel, ResumeTools, Resume, hist
<1>4. Down' => Down
  BY <1>3 DEF Down
<1>5. \A r : Waits(r)' => Waits(r)
  BY <1>3, ConstantsAssumption DEF Waits, TypeOK, ProcsOK
<1>6. ASSUME NEW x \in Workers, AtRisk(x)' PROVE cur'[x] = row[1]
  <2>1. pc[x] = "idle" /\ pc'[x] = "tool"
    BY <1>3, <1>6, ConstantsAssumption DEF AllIdle, OneProcessOnly, At, AtRisk
  <2>2. ResumeTools(w, row[1], row[2]) /\ x = w
    BY <1>2, <2>1 DEF CloseInterrupted, ResumeModel, ResumeTools, Goto, local, TypeOK, WorkersOK
  <2> QED BY <2>2 DEF ResumeTools, TypeOK, WorkersOK
<1>7. Waits(row[1])
  BY ConstantsAssumption DEF Waits
<1>8. Open' \subseteq Open
  <2>1. ASSUME NEW x \in Workers, NEW r \in RunIds, NEW s \in Sessions,
               NEW i \in Items \cup {NoItem}, Accept(x, r, s, i)
        PROVE  FALSE
    BY <1>3, <2>1, ConstantsAssumption DEF Accept, OneProcessOnly
  <2> QED BY <1>1, <2>1, OpenStep DEF Open
<1>9. Endangered' \subseteq Endangered
  BY <1>4, <1>5, <1>6, <1>7, <1>8 DEF Endangered
<1> QED BY <1>3, <1>9 DEF WorkRisk

LEMMA ProcessRisk ==
  ASSUME TypeOK, TypeOK', OneProcessOnly, CallsInv, NEW p \in Procs, Boot(p) \/ Serve(p) \/ Exit(p)
  PROVE  WorkRisk
<1>1. Ownership
  BY DEF CallsInv
<1>2. Open' = Open /\ reexecs' = reexecs
  BY DEF Boot, Serve, Exit, db, tables, hist, Open, IsOpen
<1>3. \A x \in Workers : cur'[x] = cur[x] /\ (AtRisk(x)' <=> AtRisk(x))
  BY DEF Boot, Serve, Exit, local, mine, batch, hist, AtRisk, IsExecuted
<1>4. CASE Boot(p)
  <2>1. Down
    BY <1>4 DEF Boot, Down
  <2>2. Endangered = Open
    BY <2>1 DEF Endangered
  <2> QED BY <1>2, <2>2 DEF Endangered, WorkRisk
<1>5. CASE Serve(p)
  <2>1. (Down' => Down) /\ \A r : Waits(r)' <=> Waits(r)
    BY <1>5 DEF Serve, Down, Waits, TypeOK, ProcsOK
  <2> QED BY <1>2, <1>3, <2>1 DEF Endangered, WorkRisk
<1>6. CASE Exit(p)
  <2>1. ASSUME NEW r \in Open PROVE FALSE
    <3>1. PICK w \in Workers : cur[w] = r
      BY <1>1, <1>6 DEF Exit, Open, Ownership, OpenOK, Owned
    <3>2. pc[w] = "idle"
      BY <1>6, ConstantsAssumption DEF Exit, AllIdle, At, OneProcessOnly
    <3> QED BY <3>1, <3>2, ConstantsAssumption DEF Open, TypeOK, WorkersOK, At
  <2> QED BY <1>2, <2>1 DEF Endangered, WorkRisk
<1> QED BY <1>4, <1>5, <1>6

(* One crash puts every open run in danger, and repeats nothing yet. *)
CrashRisk ==
  Endangered' \subseteq Open' /\ Open' = Open /\ reexecs' = reexecs /\ crashes' = crashes + 1

LEMMA RiskStep ==
  ASSUME TypeOK, TypeOK', OneProcessOnly, CallsInv, ExecInv, [Next]_vars
  PROVE  (WorkRisk /\ crashes' = crashes) \/ CrashRisk
<1>1. ASSUME NEW p \in Procs, Crash(p) PROVE CrashRisk
  BY <1>1 DEF Crash, CrashRisk, Endangered, Open, IsOpen, db, tables
<1>2. CASE ~\E p \in Procs : Crash(p)
  <2>1. crashes' = crashes
    BY <1>2, CrashSteps
  <2>2. CASE UNCHANGED vars
    <3>1. UNCHANGED <<phase, queue, status, pc, cur, req, todo, executed, reexecs>>
      BY <2>2 DEF vars, db, tables, procs, local, mine, batch, hist
    <3>2. Endangered' = Endangered
      BY <3>1 DEF Endangered, Open, IsOpen, Down, Waits, AtRisk, IsExecuted
    <3> QED BY <2>1, <3>1, <3>2 DEF WorkRisk
  <2> QED BY <1>2, <2>1, <2>2, StepRisk, AcceptRisk, RecoverRisk, ProcessRisk DEF Next
<1> QED BY <1>1, <1>2

(* Outside a restart every open run is held, by a goroutine of its own. *)
LEMMA HeldAreFew ==
  ASSUME IsFiniteSet(Workers), NEW S, NEW c, \A r \in S : \E w \in Workers : c[w] = r
  PROVE  IsFiniteSet(S) /\ Cardinality(S) <= Cardinality(Workers)
<1> DEFINE f == [r \in S |-> CHOOSE w \in Workers : c[w] = r]
<1>1. \A r \in S : f[r] \in Workers /\ c[f[r]] = r
  OBVIOUS
<1>2. f \in Injection(S, Workers)
  BY <1>1 DEF Injection, IsInjective
<1> QED BY <1>2, FS_Injection

OpenFew == IsFiniteSet(Open) /\ Cardinality(Open) <= Cardinality(Workers)

LEMMA OpenFewStep ==
  ASSUME TypeOK, TypeOK', OneProcessOnly, IsFiniteSet(Workers), Ownership, Ownership', OpenFew,
         [Next]_vars
  PROVE  OpenFew'
<1>1. CASE Open' \subseteq Open
  <2> DEFINE S == Open
             T == Open'
  <2>1. T \in SUBSET S /\ IsFiniteSet(S) /\ Cardinality(S) <= Cardinality(Workers)
    BY <1>1 DEF OpenFew
  <2> HIDE DEF S, T
  <2>2. IsFiniteSet(T) /\ Cardinality(T) <= Cardinality(S)
    BY <2>1, FS_Subset
  <2>3. Cardinality(T) \in Nat /\ Cardinality(S) \in Nat /\ Cardinality(Workers) \in Nat
    BY <2>1, <2>2, FS_CardinalityType
  <2>4. Cardinality(T) <= Cardinality(Workers)
    BY <2>1, <2>2, <2>3
  <2> QED BY <2>2, <2>4 DEF OpenFew, T
<1>2. CASE ~(Open' \subseteq Open)
  <2>1. PICK w \in Workers : \E r \in RunIds, s \in Sessions, i \in Items \cup {NoItem} : Accept(w, r, s, i)
    BY <1>2, OpenStep DEF Open
  <2>2. phase'[ProcOf[w]] = "up"
    BY <2>1 DEF Accept
  <2>3. \A r \in Open' : \E x \in Workers : cur'[x] = r
    BY <2>2, ConstantsAssumption DEF Ownership, OpenOK, Owned, Open
  <2> DEFINE T == Open'
             c == cur'
  <2>4. \A r \in T : \E x \in Workers : c[x] = r
    BY <2>3
  <2> HIDE DEF T, c
  <2>5. IsFiniteSet(T) /\ Cardinality(T) <= Cardinality(Workers)
    BY <2>4, HeldAreFew
  <2> QED BY <2>5 DEF OpenFew, T
<1> QED BY <1>1, <1>2

(***************************************************************************)
(* The account: what was repeated, and what may still be, is covered by    *)
(* the crashes.                                                            *)
(***************************************************************************)
RiskOK == reexecs + Cardinality(Endangered) <= crashes * Cardinality(Workers)

LEMMA OneMoreCrash ==
  ASSUME NEW n \in Nat, NEW m \in Nat
  PROVE  (n + 1) * m = n * m + m /\ n * m \in Nat
OBVIOUS

LEMMA FewerAre ==
  ASSUME NEW S, IsFiniteSet(S), NEW T, T \subseteq S
  PROVE  /\ IsFiniteSet(T) /\ Cardinality(T) \in Nat /\ Cardinality(S) \in Nat
         /\ Cardinality(T) <= Cardinality(S)
         /\ \A r \in S : T \subseteq S \ {r} => Cardinality(T) + 1 <= Cardinality(S)
<1>1. IsFiniteSet(T) /\ Cardinality(T) \in Nat /\ Cardinality(S) \in Nat /\ Cardinality(T) <= Cardinality(S)
  BY FS_Subset, FS_CardinalityType
<1>2. ASSUME NEW r \in S, T \subseteq S \ {r} PROVE Cardinality(T) + 1 <= Cardinality(S)
  <2>1. IsFiniteSet(S \ {r}) /\ Cardinality(S \ {r}) = Cardinality(S) - 1
    BY FS_RemoveElement
  <2>2. Cardinality(T) <= Cardinality(S \ {r})
    BY <1>2, <2>1, FS_Subset
  <2> QED BY <1>1, <2>1, <2>2
<1> QED BY <1>1, <1>2

LEMMA RiskOKStep ==
  ASSUME TypeOK, TypeOK', OneProcessOnly, IsFiniteSet(Workers), CallsInv, CallsInv', ExecInv,
         OpenFew, RiskOK, [Next]_vars
  PROVE  OpenFew' /\ RiskOK'
<1>1. OpenFew'
  BY OpenFewStep DEF CallsInv
<1>2. PICK O, P, S, T : O = Open /\ P = Open' /\ S = Endangered /\ T = Endangered'
  OBVIOUS
<1>3. S \subseteq O /\ T \subseteq P
  BY <1>2 DEF Endangered
<1>4. /\ IsFiniteSet(O) /\ IsFiniteSet(P)
      /\ Cardinality(O) <= Cardinality(Workers) /\ Cardinality(P) <= Cardinality(Workers)
  BY <1>1, <1>2 DEF OpenFew
<1> DEFINE N == Cardinality(Workers)
           a == Cardinality(S)
           b == Cardinality(T)
           x == reexecs
           k == crashes
<1>5. IsFiniteSet(S) /\ IsFiniteSet(T) /\ a \in Nat /\ b \in Nat /\ N \in Nat
  BY <1>3, <1>4, FewerAre, FS_CardinalityType
<1>6. x \in Nat /\ k \in Nat
  BY DEF TypeOK, HistoryOK
<1>7. x + a <= k * N
  BY <1>2 DEF RiskOK
<1>8. k * N \in Nat /\ (k + 1) * N = k * N + N
  BY <1>5, <1>6, OneMoreCrash
<1> HIDE DEF N, a, b, x, k
<1>9. CASE T \subseteq S /\ reexecs' = x /\ crashes' = k
  <2>1. b <= a
    BY <1>5, <1>9, FewerAre DEF a, b
  <2>2. x + b <= k * N
    BY <1>5, <1>6, <1>7, <1>8, <2>1
  <2> QED BY <1>1, <1>2, <1>9, <2>2 DEF RiskOK, b, N
<1>10. CASE reexecs' = x + 1 /\ crashes' = k /\ \E r \in S : T \subseteq S \ {r}
  <2>1. b + 1 <= a
    BY <1>5, <1>10, FewerAre DEF a, b
  <2>2. x + 1 + b <= k * N
    BY <1>5, <1>6, <1>7, <1>8, <2>1
  <2> QED BY <1>1, <1>2, <1>10, <2>2 DEF RiskOK, b, N
<1>11. CASE T \subseteq P /\ P = O /\ reexecs' = x /\ crashes' = k + 1
  <2>1. b <= Cardinality(P) /\ Cardinality(P) <= N /\ Cardinality(P) \in Nat
    BY <1>4, <1>11, FewerAre DEF b, N
  <2>2. b <= N
    BY <1>5, <2>1
  <2>3. x + b <= (k + 1) * N
    BY <1>5, <1>6, <1>7, <1>8, <2>2
  <2> QED BY <1>1, <1>2, <1>11, <2>3 DEF RiskOK, b, N
<1> QED BY <1>2, <1>9, <1>10, <1>11, RiskStep DEF WorkRisk, CrashRisk, Saved, x, k

LEMMA RiskInit ==
  ASSUME IsFiniteSet(Workers), Init
  PROVE  OpenFew /\ RiskOK
<1>1. Open = {} /\ Endangered = {} /\ reexecs = 0 /\ crashes = 0
  BY DEF Init, Endangered, Open, IsOpen, Incomplete
<1>2. Cardinality(Workers) \in Nat /\ Cardinality({}) = 0 /\ IsFiniteSet({})
  BY FS_CardinalityType, FS_EmptySet
<1> QED BY <1>1, <1>2 DEF OpenFew, RiskOK

\* However often the process dies between a tool and the saving of its result,
\* a tool call is executed a second time no more often than there were
\* goroutines at each crash: recovery serves only what has no result yet
\* (loop.go:318), and of that only the next call can have been executed.
THEOREM RepetitionsAreBounded ==
  ASSUME OneProcessOnly, IsFiniteSet(Workers)
  PROVE  Spec /\ []Fits => []ReexecutionsBounded
<1>1. TypeOK /\ TypeOK' /\ CallsInv /\ CallsInv' /\ ExecInv /\ OpenFew /\ RiskOK /\ [Next]_vars
      => ExecInv' /\ OpenFew' /\ RiskOK'
  BY OneProcessOnly, IsFiniteSet(Workers), ExecStep, RiskOKStep
<1>2. Init => ExecInv /\ OpenFew /\ RiskOK
  BY IsFiniteSet(Workers), ExecInit, RiskInit
<1>3. TypeOK /\ OpenFew /\ RiskOK => ReexecutionsBounded
  <2> SUFFICES ASSUME TypeOK, OpenFew, RiskOK PROVE ReexecutionsBounded
    OBVIOUS
  <2>1. Endangered \subseteq Open /\ IsFiniteSet(Open)
    BY DEF Endangered, OpenFew
  <2>2. Cardinality(Endangered) \in Nat /\ Cardinality(Workers) \in Nat
    BY <2>1, FewerAre, FS_CardinalityType, IsFiniteSet(Workers)
  <2>3. reexecs \in Nat /\ crashes \in Nat
    BY DEF TypeOK, HistoryOK
  <2>4. crashes * Cardinality(Workers) \in Nat
    BY <2>2, <2>3, OneMoreCrash
  <2> QED BY <2>2, <2>3, <2>4 DEF RiskOK, ReexecutionsBounded
<1> QED BY <1>1, <1>2, <1>3, OneProcessOnly, CallsAlways, PTL DEF Spec
=============================================================================
