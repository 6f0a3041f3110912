--------------------------- MODULE Gateway_proofs ---------------------------
(***************************************************************************)
(* Proofs about Gateway: types, what is handled, lost, repeated and left   *)
(* behind, for any messages, capacity, drain and number of faults.         *)
(***************************************************************************)
EXTENDS GatewayProps, SequenceTheorems, FiniteSetTheorems, TLAPS

(***************************************************************************)
(* Sequences: their first element, and one more at their end.              *)
(***************************************************************************)
LEMMA FirstElement ==
  ASSUME NEW S, NEW s \in Seq(S), s # <<>>
  PROVE  /\ Head(s) \in S /\ Head(s) = s[1] /\ Tail(s) \in Seq(S)
         /\ Len(s) \in Nat \ {0} /\ Len(Tail(s)) = Len(s) - 1
         /\ \A k \in 1 .. Len(s) - 1 : Tail(s)[k] = s[k + 1]
         /\ Elems(s) = {Head(s)} \cup Elems(Tail(s))
<1>1. /\ Head(s) \in S /\ Tail(s) \in Seq(S) /\ Len(Tail(s)) = Len(s) - 1
      /\ \A k \in 1 .. Len(Tail(s)) : Tail(s)[k] = s[k + 1]
  BY HeadTailProperties
<1>2. Len(s) \in Nat \ {0} /\ DOMAIN s = 1 .. Len(s) /\ DOMAIN Tail(s) = 1 .. Len(s) - 1
  BY <1>1, EmptySeq, LenProperties
<1>3. Head(s) = s[1]
  OBVIOUS
<1>4. Elems(s) \subseteq {Head(s)} \cup Elems(Tail(s))
  <2> SUFFICES ASSUME NEW k \in 1 .. Len(s), k # 1 PROVE s[k] \in Elems(Tail(s))
    BY <1>2, <1>3 DEF Elems
  <2>1. k - 1 \in 1 .. Len(s) - 1 /\ (k - 1) + 1 = k
    BY <1>2
  <2>2. Tail(s)[k - 1] = s[k]
    BY <1>1, <2>1
  <2> QED BY <1>2, <2>1, <2>2 DEF Elems
<1>5. Elems(Tail(s)) \subseteq Elems(s)
  <2> SUFFICES ASSUME NEW k \in 1 .. Len(s) - 1 PROVE Tail(s)[k] \in Elems(s)
    BY <1>2 DEF Elems
  <2>1. Tail(s)[k] = s[k + 1] /\ k + 1 \in 1 .. Len(s)
    BY <1>1, <1>2
  <2> QED BY <1>2, <2>1 DEF Elems
<1>6. Head(s) \in Elems(s)
  BY <1>2, <1>3 DEF Elems
<1> QED BY <1>1, <1>2, <1>3, <1>4, <1>5, <1>6

LEMMA OneMore ==
  ASSUME NEW S, NEW s \in Seq(S), NEW e \in S
  PROVE  /\ Append(s, e) \in Seq(S) /\ Len(Append(s, e)) = Len(s) + 1
         /\ Len(s) \in Nat /\ DOMAIN s = 1 .. Len(s)
         /\ DOMAIN Append(s, e) = (DOMAIN s) \cup {Len(s) + 1} /\ Len(s) + 1 \notin DOMAIN s
         /\ \A k \in DOMAIN s : Append(s, e)[k] = s[k]
         /\ Append(s, e)[Len(s) + 1] = e
         /\ Elems(Append(s, e)) = Elems(s) \cup {e}
<1>1. /\ Append(s, e) \in Seq(S) /\ Len(Append(s, e)) = Len(s) + 1
      /\ \A k \in 1 .. Len(s) : Append(s, e)[k] = s[k]
      /\ Append(s, e)[Len(s) + 1] = e
  BY AppendProperties
<1>2. /\ Len(s) \in Nat /\ DOMAIN s = 1 .. Len(s) /\ DOMAIN Append(s, e) = 1 .. Len(s) + 1
  BY <1>1, LenProperties
<1>3. 1 .. Len(s) + 1 = (1 .. Len(s)) \cup {Len(s) + 1} /\ Len(s) + 1 \notin 1 .. Len(s)
  BY <1>2
<1>4. Elems(Append(s, e)) = Elems(s) \cup {e}
  BY <1>1, <1>2, <1>3 DEF Elems
<1> QED BY <1>1, <1>2, <1>3, <1>4

LEMMA FunctionIsSeq ==
  ASSUME NEW S, NEW n \in Nat, NEW f \in [1 .. n -> S]
  PROVE  f \in Seq(S) /\ Len(f) = n
<1>1. f \in Seq(S)
  BY SeqDef
<1> QED BY <1>1, LenProperties

(* A row is inserted at the end of the table. *)
LEMMA Inserted ==
  ASSUME TableOK, NEW m \in Messages, Insert(m)
  PROVE  LET n == Len(inbox) + 1 IN
         /\ TableOK'
         /\ DOMAIN inbox' = (DOMAIN inbox) \cup {n} /\ n \notin DOMAIN inbox /\ n # 0
         /\ \A i \in DOMAIN inbox : /\ inbox'[i] = inbox[i] /\ open'[i] = open[i]
                                    /\ answers'[i] = answers[i]
         /\ inbox'[n] = [msg |-> m, state |-> "pending"] /\ open'[n] = 0 /\ answers'[n] = 0
<1> DEFINE n == Len(inbox) + 1
           r == [msg |-> m, state |-> "pending"]
<1>1. r \in Row /\ inbox \in Seq(Row)
  BY DEF Row, TableOK
<1>2. /\ inbox' = Append(inbox, r) /\ open' = Append(open, 0) /\ answers' = Append(answers, 0)
  BY DEF Insert
<1>3. /\ inbox' \in Seq(Row) /\ DOMAIN inbox' = (DOMAIN inbox) \cup {n} /\ n \notin DOMAIN inbox
      /\ n # 0 /\ inbox'[n] = r /\ \A i \in DOMAIN inbox : inbox'[i] = inbox[i]
      /\ Len(inbox) \in Nat /\ DOMAIN inbox = 1 .. Len(inbox)
  BY <1>1, <1>2, OneMore
<1>4. /\ open \in Seq(Nat) /\ Len(open) = Len(inbox)
      /\ answers \in Seq(Nat) /\ Len(answers) = Len(inbox)
  BY <1>3, FunctionIsSeq DEF TableOK
<1>5. /\ open' \in Seq(Nat) /\ DOMAIN open' = DOMAIN inbox' /\ open'[n] = 0
      /\ \A i \in DOMAIN inbox : open'[i] = open[i]
  BY <1>2, <1>3, <1>4, OneMore
<1>6. /\ answers' \in Seq(Nat) /\ DOMAIN answers' = DOMAIN inbox' /\ answers'[n] = 0
      /\ \A i \in DOMAIN inbox : answers'[i] = answers[i]
  BY <1>2, <1>3, <1>4, OneMore
<1>7. open' \in [DOMAIN inbox' -> Nat] /\ answers' \in [DOMAIN inbox' -> Nat]
  BY <1>5, <1>6, LenProperties
<1> QED BY <1>3, <1>5, <1>6, <1>7 DEF TableOK

(***************************************************************************)
(* Types.  That a run is closed at most as often as it was opened takes    *)
(* OpenOK: whoever is about to close a run holds one that is open, and a   *)
(* recovery lists no more runs than are open.                              *)
(***************************************************************************)
OpenOK ==
  /\ pc \in {"handle", "answered"} => open[row] > 0
  /\ pc \in {"resume", "resumed"} =>
       \A i \in DOMAIN inbox :
         listed[i] + (IF pc = "resumed" /\ row = i THEN 1 ELSE 0) <= open[i]
Types == TypeOK /\ OpenOK

LEMMA TypesInit == Init => Types
<1> SUFFICES ASSUME Init PROVE Types
  OBVIOUS
<1>1. /\ <<>> \in Seq(1 .. arrived) /\ <<>> \in Seq(Messages \ Wakes) /\ Len(<<>>) = 0
      /\ <<>> \in Seq(Row) /\ DOMAIN <<>> = {}
  OBVIOUS
<1>2. <<>> \in [{} -> Nat]
  BY <1>1
<1>3. FrontOK /\ MemoryOK
  BY <1>1, GatewayAssumption DEF Init, FrontOK, MemoryOK, Updates, At
<1>4. TableOK /\ WorkerOK /\ HistoryOK
  BY <1>1, <1>2 DEF Init, TableOK, WorkerOK, HistoryOK, Unmarked, Handling
<1> QED BY <1>3, <1>4 DEF Types, TypeOK, OpenOK, Init

LEMMA NamesOK == \A m : NameOf(m) \in Names
BY DEF NameOf, Names

LEMMA SendOK == TypeOK /\ row # 0 => \A names \in SUBSET Names : Send(names) => sent' \subseteq (DOMAIN inbox) \X Names
BY DEF TypeOK, WorkerOK, HistoryOK, Send

(* The channels. *)
LEMMA FrontTypes ==
  ASSUME Types,
         \/ Poller \/ SendUpdate
         \/ \E m \in Posts \cup Lines : Submit(m) \/ Accept(m) \/ RefusePost(m)
  PROVE  FrontOK' /\ MemoryOK'
<1> USE DEF Types, TypeOK, FrontOK, MemoryOK, At
<1>1. /\ arrived \in Nat /\ confirmed \in Nat /\ offset \in Nat /\ LastUpdate \in Nat
      /\ Len(chan) \in Nat /\ Cap \in Nat
  BY GatewayAssumption DEF Updates
<1>2. CASE SendUpdate
  <2>1. arrived' = arrived + 1 /\ arrived' \in Updates
    BY <1>2 DEF SendUpdate
  <2>2. 1 .. arrived \subseteq 1 .. arrived' /\ 0 .. arrived \subseteq 0 .. arrived'
    BY <1>1, <2>1
  <2>3. batch \in Seq(1 .. arrived')
    BY <2>2, SeqMonotonic
  <2> QED BY <1>2, <2>1, <2>2, <2>3 DEF SendUpdate, worker
<1>3. CASE Poll
  <2> DEFINE from == IF offset > confirmed THEN offset ELSE confirmed
  <2>1. from \in 0 .. arrived
    BY <1>1
  <2>2. arrived - from \in Nat /\ batch' = [k \in 1 .. arrived - from |-> from + k]
    BY <1>1, <1>3, <2>1 DEF Poll
  <2>3. \A k \in 1 .. arrived - from : from + k \in 1 .. arrived
    BY <1>1, <2>1
  <2>4. batch' \in [1 .. arrived - from -> 1 .. arrived]
    BY <2>2, <2>3
  <2>5. batch' \in Seq(1 .. arrived)
    BY <2>2, <2>4, FunctionIsSeq
  <2> QED BY <1>3, <2>1, <2>5 DEF Poll, worker
<1>4. CASE PushUpdate \/ SkipUpdate
  <2>1. batch # <<>> /\ batch' = Tail(batch) /\ offset' = Head(batch)
    BY <1>4 DEF PushUpdate, SkipUpdate, Taken
  <2>2. Head(batch) \in 1 .. arrived /\ Tail(batch) \in Seq(1 .. arrived)
    BY <2>1, FirstElement
  <2>3. UNCHANGED <<arrived, confirmed, client, got, pc>>
    BY <1>4 DEF PushUpdate, SkipUpdate, worker
  <2>4. FrontOK'
    BY <1>1, <2>1, <2>2, <2>3
  <2>5. Head(batch) \in Messages \ Wakes
    BY <1>1, <2>2, GatewayAssumption DEF Messages, Updates
  <2>6. Append(chan, Head(batch)) \in Seq(Messages \ Wakes) /\ Len(Append(chan, Head(batch))) = Len(chan) + 1
    BY <2>5, OneMore
  <2>7. chan' = chan \/ (chan' = Append(chan, Head(batch)) /\ Len(chan) < Cap)
    BY <1>4 DEF PushUpdate, SkipUpdate, Push, HasRoom
  <2>8. MemoryOK'
    BY <1>1, <2>3, <2>6, <2>7
  <2> QED BY <2>4, <2>8
<1>5. ASSUME NEW m \in Posts \cup Lines, Submit(m) \/ Accept(m) \/ RefusePost(m)
      PROVE  FrontOK' /\ MemoryOK'
  <2>1. FrontOK' /\ UNCHANGED <<got, pc>>
    BY <1>5 DEF Submit, Accept, RefusePost, Client, worker
  <2>2. m \in Messages \ Wakes
    BY GatewayAssumption DEF Messages
  <2>3. Append(chan, m) \in Seq(Messages \ Wakes) /\ Len(Append(chan, m)) = Len(chan) + 1
    BY <2>2, OneMore
  <2>4. MemoryOK'
    BY <1>1, <1>5, <2>1, <2>3 DEF Submit, Accept, RefusePost, Client, Push, HasRoom
  <2> QED BY <2>1, <2>4
<1> QED BY <1>2, <1>3, <1>4, <1>5 DEF Poller

(* A run is opened, closed or answered, a row marked. *)
LEMMA RowKept ==
  ASSUME Types, NEW i \in DOMAIN inbox
  PROVE  /\ open[i] > 0 /\ CloseRun(i) => open' \in [DOMAIN inbox -> Nat]
         /\ MarkDelivered(i) => inbox' \in Seq(Row) /\ DOMAIN inbox' = DOMAIN inbox
                               /\ \A j \in DOMAIN inbox : inbox'[j].msg = inbox[j].msg
<1>1. open \in [DOMAIN inbox -> Nat] /\ inbox \in Seq(Row) /\ i \in 1 .. Len(inbox)
  BY LenProperties DEF Types, TypeOK, TableOK
<1>2. ASSUME open[i] > 0, CloseRun(i) PROVE open' \in [DOMAIN inbox -> Nat]
  <2>1. open[i] \in Nat /\ open[i] - 1 \in Nat
    BY <1>1, <1>2
  <2> QED BY <1>1, <1>2, <2>1 DEF CloseRun
<1>3. ASSUME MarkDelivered(i)
      PROVE  /\ inbox' \in Seq(Row) /\ DOMAIN inbox' = DOMAIN inbox
             /\ \A j \in DOMAIN inbox : inbox'[j].msg = inbox[j].msg
  <2> DEFINE r == [inbox[i] EXCEPT !.state = "delivered"]
  <2>1. inbox[i] \in Row
    BY <1>1, ElementOfSeq
  <2>2. r \in Row /\ r.msg = inbox[i].msg
    BY <2>1 DEF Row
  <2>3. inbox' = [inbox EXCEPT ![i] = r]
    BY <1>3 DEF MarkDelivered
  <2>4. /\ inbox' \in Seq(Row) /\ Len(inbox') = Len(inbox)
        /\ \A j \in 1 .. Len(inbox) : inbox'[j] = IF j = i THEN r ELSE inbox[j]
    BY <1>1, <2>2, <2>3, ExceptSeq
  <2> QED BY <1>1, <2>2, <2>4, LenProperties
<1> QED BY <1>2, <1>3

LEMMA TypesStep == Types /\ [Next]_vars => Types'
<1> SUFFICES ASSUME Types, [Next]_vars PROVE Types'
  OBVIOUS
<1> USE DEF Types, TypeOK, At
<1>0. row # 0 => row \in DOMAIN inbox /\ open[row] \in Nat
  BY DEF WorkerOK, TableOK
<1>1. CASE UNCHANGED vars
  BY <1>1 DEF vars, front, table, worker, hist, FrontOK, MemoryOK, TableOK, WorkerOK, HistoryOK, OpenOK
<1>2. CASE \/ Poller \/ SendUpdate
           \/ \E m \in Posts \cup Lines : Submit(m) \/ Accept(m) \/ RefusePost(m)
  <2>1. FrontOK' /\ MemoryOK'
    BY <1>2, FrontTypes
  <2>2. UNCHANGED <<table, worker, hist>>
    BY <1>2 DEF Poller, Poll, PushUpdate, SkipUpdate, SendUpdate, Submit, Accept, RefusePost, Client
  <2>3. TableOK' /\ WorkerOK' /\ HistoryOK' /\ OpenOK'
    BY <2>2 DEF table, worker, hist, TableOK, WorkerOK, HistoryOK, OpenOK
  <2> QED BY <2>1, <2>3
<1>3. CASE ListIncomplete
  <2>1. listed' = open /\ pc = "recover" /\ pc' = "resume" /\ row = 0
    BY <1>3 DEF ListIncomplete, WorkerOK, Unmarked, Handling
  <2>2. OpenOK'
    BY <1>3, <2>1 DEF ListIncomplete, table, OpenOK, TableOK
  <2> QED BY <1>3, <2>1, <2>2 DEF ListIncomplete, front, table, hist,
            FrontOK, MemoryOK, TableOK, WorkerOK, HistoryOK, Unmarked, Handling
<1>4. CASE EndRecovery
  BY <1>4 DEF EndRecovery, front, table, hist,
       FrontOK, MemoryOK, TableOK, WorkerOK, HistoryOK, OpenOK, Unmarked, Handling
<1>5. CASE SkipRecovery
  BY <1>5 DEF SkipRecovery, Fault, front, table, hist,
       FrontOK, MemoryOK, TableOK, WorkerOK, HistoryOK, OpenOK, Unmarked, Handling
<1>6. ASSUME NEW i \in DOMAIN open, CloseInterrupted(i) \/ ResumeAnswers(i) PROVE Types'
  <2>1. /\ i \in DOMAIN inbox /\ pc = "resume" /\ listed[i] \in Nat /\ listed[i] > 0
        /\ listed' = [listed EXCEPT ![i] = @ - 1] /\ listed \in [DOMAIN inbox -> Nat]
        /\ inbox' = inbox
    BY <1>6 DEF CloseInterrupted, ResumeAnswers, TakeListed, TableOK, WorkerOK, table
  <2>2. listed' \in [DOMAIN inbox -> Nat]
    <3>1. listed[i] - 1 \in Nat
      BY <2>1
    <3> QED BY <2>1, <3>1
  <2>3. \A j \in DOMAIN inbox : listed[j] \in Nat /\ open[j] \in Nat /\ listed[j] <= open[j]
    BY <2>1 DEF OpenOK, TableOK
  <2>4. i # 0
    <3>1. DOMAIN inbox = 1 .. Len(inbox)
      BY LenProperties DEF TableOK
    <3> QED BY <2>1, <3>1
  <2>5. CASE CloseInterrupted(i)
    <3>1. open[i] > 0 /\ CloseRun(i) /\ pc' = pc
      BY <2>1, <2>3, <2>5 DEF CloseInterrupted
    <3>2. TableOK'
      BY <2>1, <2>5, <3>1, RowKept DEF CloseInterrupted, hist, TableOK
    <3>3. OpenOK'
      BY <2>1, <2>3, <2>5, <3>1 DEF CloseInterrupted, CloseRun, OpenOK, TableOK
    <3> QED BY <2>1, <2>2, <2>5, <3>1, <3>2, <3>3 DEF CloseInterrupted, front, hist,
              FrontOK, MemoryOK, WorkerOK, HistoryOK
  <2>6. CASE ResumeAnswers(i)
    <3>1. /\ pc' = "resumed" /\ row' = i /\ open' = open
          /\ answers' = [answers EXCEPT ![i] = @ + 1]
      BY <2>6 DEF ResumeAnswers, table
    <3>2. TableOK'
      BY <2>1, <3>1 DEF TableOK
    <3>3. OpenOK'
      BY <2>1, <2>3, <3>1 DEF OpenOK, TableOK
    <3> QED BY <2>1, <2>2, <2>4, <2>6, <3>1, <3>2, <3>3 DEF ResumeAnswers, front,
              FrontOK, MemoryOK, WorkerOK, HistoryOK, Unmarked, Handling
  <2> QED BY <1>6, <2>5, <2>6
<1>7. CASE CompleteResumed
  <2>1. /\ pc = "resumed" /\ row \in DOMAIN inbox /\ open[row] > 0
        /\ listed \in [DOMAIN inbox -> Nat] /\ listed[row] <= open[row] - 1
    <3>1. pc = "resumed" /\ row \in DOMAIN inbox /\ listed \in [DOMAIN inbox -> Nat]
      BY <1>7 DEF CompleteResumed, WorkerOK
    <3>2. listed[row] \in Nat /\ open[row] \in Nat /\ listed[row] + 1 <= open[row]
      BY <3>1 DEF OpenOK, TableOK
    <3> QED BY <3>1, <3>2
  <2>2. TableOK'
    BY <1>7, <2>1, RowKept DEF CompleteResumed, hist, TableOK
  <2>3. \A j \in DOMAIN inbox : listed[j] \in Nat /\ open[j] \in Nat
                                /\ listed[j] + (IF row = j THEN 1 ELSE 0) <= open[j]
    BY <2>1 DEF OpenOK, TableOK
  <2>4. \A j \in DOMAIN inbox : listed[j] <= open'[j]
    <3>1. open' = [open EXCEPT ![row] = @ - 1] /\ open \in [DOMAIN inbox -> Nat]
      BY <1>7 DEF CompleteResumed, CloseRun, TableOK
    <3>2. \A j \in DOMAIN inbox : open'[j] = IF j = row THEN open[j] - 1 ELSE open[j]
      BY <2>1, <3>1
    <3> QED BY <2>1, <2>3, <3>2
  <2>5. OpenOK'
    BY <1>7, <2>3, <2>4 DEF CompleteResumed, OpenOK
  <2> QED BY <1>7, <2>1, <2>2, <2>5 DEF CompleteResumed, front, hist,
            FrontOK, MemoryOK, WorkerOK, HistoryOK, Unmarked, Handling
<1>8. CASE Receive
  <2>1. /\ Head(chan) \in Messages \ Wakes /\ Tail(chan) \in Seq(Messages \ Wakes)
        /\ Len(Tail(chan)) <= Cap /\ Head(chan) # NoMsg
    <3>1. /\ Head(chan) \in Messages \ Wakes /\ Tail(chan) \in Seq(Messages \ Wakes)
          /\ Len(chan) \in Nat /\ Len(Tail(chan)) = Len(chan) - 1
      BY <1>8, FirstElement DEF Receive, MemoryOK
    <3>2. Head(chan) # NoMsg
      BY <3>1, GatewayAssumption
    <3> QED BY <3>1, <3>2, GatewayAssumption DEF MemoryOK
  <2> QED BY <1>8, <2>1 DEF Receive, front, table, hist,
            FrontOK, MemoryOK, TableOK, WorkerOK, HistoryOK, OpenOK, Unmarked, Handling
<1>9. CASE ListPending
  <2>1. todo' \subseteq DOMAIN inbox
    BY <1>9 DEF ListPending, Oldest, PendingRows
  <2> QED BY <1>9, <2>1 DEF ListPending, front, table, hist,
            FrontOK, MemoryOK, TableOK, WorkerOK, HistoryOK, OpenOK, Unmarked, Handling
<1>10. CASE AcceptInbound
  <2>1. got \in Messages /\ pc = "accept" /\ Insert(got) /\ NoMsg \notin Messages
    BY <1>10, GatewayAssumption DEF AcceptInbound, MemoryOK
  <2>2. /\ TableOK' /\ DOMAIN inbox' = (DOMAIN inbox) \cup {row'} /\ row' # 0
    BY <1>10, <2>1, Inserted DEF AcceptInbound
  <2> QED BY <1>10, <2>1, <2>2 DEF AcceptInbound, front,
            FrontOK, MemoryOK, WorkerOK, HistoryOK, OpenOK, Unmarked, Handling
<1>11. ASSUME NEW k \in Wakes, EnqueueWake(k) PROVE Types'
  <2>1. k \in Messages /\ Insert(k) /\ pc \notin {"recover", "resume", "resumed"}
    BY <1>11 DEF EnqueueWake, Messages, Started
  <2>2. /\ TableOK' /\ DOMAIN inbox \subseteq DOMAIN inbox'
        /\ \A i \in DOMAIN inbox : open'[i] = open[i]
    BY <2>1, Inserted
  <2> QED BY <1>0, <1>11, <2>1, <2>2 DEF EnqueueWake, front, worker,
            FrontOK, MemoryOK, WorkerOK, HistoryOK, OpenOK, Unmarked, Handling
<1>12. CASE NextItem
  <2>1. PICK i \in todo : pc' = "begin" /\ row' = i /\ todo' = todo \ {i} /\ direct' = FALSE
    BY <1>12 DEF NextItem
  <2>2. i \in DOMAIN inbox /\ i # 0
    <3>1. i \in DOMAIN inbox /\ DOMAIN inbox = 1 .. Len(inbox)
      BY LenProperties DEF WorkerOK, TableOK
    <3> QED BY <3>1
  <2> QED BY <1>12, <2>1, <2>2 DEF NextItem, front, table, hist,
            FrontOK, MemoryOK, TableOK, WorkerOK, HistoryOK, OpenOK, Unmarked, Handling
<1>13. CASE EndDrain
  BY <1>13 DEF EndDrain, front, table, hist,
       FrontOK, MemoryOK, TableOK, WorkerOK, HistoryOK, OpenOK, Unmarked, Handling
<1>14. CASE BeginRun
  <2>1. /\ pc = "begin" /\ pc' = "handle" /\ row' = row /\ row \in DOMAIN inbox
        /\ open' = [open EXCEPT ![row] = @ + 1] /\ open \in [DOMAIN inbox -> Nat]
        /\ inbox' = inbox
    BY <1>14 DEF BeginRun, WorkerOK, TableOK, Unmarked, Handling
  <2>2. TableOK' /\ open'[row] > 0
    BY <1>14, <2>1 DEF BeginRun, TableOK, hist
  <2> QED BY <1>14, <2>1, <2>2 DEF BeginRun, front, hist,
            FrontOK, MemoryOK, WorkerOK, HistoryOK, OpenOK, Unmarked, Handling
<1>15. CASE SaveAnswer
  BY <1>15 DEF SaveAnswer, front, table,
       FrontOK, MemoryOK, TableOK, WorkerOK, HistoryOK, OpenOK, Unmarked, Handling
<1>16. ASSUME pc \in {"handle", "answered"}
       PROVE  row \in DOMAIN inbox /\ (CloseRun(row) => open' \in [DOMAIN inbox -> Nat])
  <2>1. row \in DOMAIN inbox /\ open[row] > 0
    BY <1>16 DEF WorkerOK, OpenOK, Unmarked, Handling
  <2> QED BY <2>1, RowKept
<1>17. CASE CompleteRun
  BY <1>16, <1>17 DEF CompleteRun, front, hist,
       FrontOK, MemoryOK, TableOK, WorkerOK, HistoryOK, OpenOK, Unmarked, Handling
<1>18. CASE MarkItem
  <2>1. row \in DOMAIN inbox /\ MarkDelivered(row)
    BY <1>18 DEF MarkItem, WorkerOK, Unmarked, Handling
  <2>2. inbox' \in Seq(Row) /\ DOMAIN inbox' = DOMAIN inbox
    BY <2>1, RowKept
  <2> QED BY <1>18, <2>1, <2>2 DEF MarkItem, front,
            FrontOK, MemoryOK, TableOK, WorkerOK, HistoryOK, OpenOK, Unmarked, Handling
<1>19. CASE SayOnConsole
  <2>1. row # 0 /\ Channels \cap {"cli"} \in SUBSET Names
    BY <1>19 DEF SayOnConsole, WorkerOK, Unmarked, Handling, Names
  <2>2. sent' \subseteq (DOMAIN inbox) \X Names
    BY <1>19, <2>1, SendOK DEF SayOnConsole
  <2> QED BY <1>19, <2>2 DEF SayOnConsole, front, table,
            FrontOK, MemoryOK, TableOK, WorkerOK, HistoryOK, OpenOK, Unmarked, Handling
<1>20. CASE HandleStops
  BY <1>16, <1>20 DEF HandleStops, Spoils, Fault, front, hist,
       FrontOK, MemoryOK, TableOK, WorkerOK, HistoryOK, OpenOK, Unmarked, Handling
<1>21. CASE HandleFails
  <2>1. /\ pc = "handle" /\ CloseRun(row) /\ Finish
        /\ UNCHANGED <<front, chan, inbox, listed, got, todo, answers, sent, early, cut, spilled>>
        /\ faults' \in Nat
    BY <1>21 DEF HandleFails, Spoils, Fault, hist, HistoryOK
  <2>2. pc' \in {"drain", "next"} /\ row' = 0 /\ direct' = FALSE
    BY <2>1 DEF Finish
  <2> QED BY <1>16, <2>1, <2>2 DEF front,
            FrontOK, MemoryOK, TableOK, WorkerOK, HistoryOK, OpenOK, Unmarked, Handling
<1>22. CASE Reply
  <2>1. row # 0
    BY <1>22 DEF Reply, WorkerOK, Unmarked, Handling
  <2>2. ReplyTo \in SUBSET Names
    BY NamesOK DEF ReplyTo, Names
  <2>3. sent' \subseteq (DOMAIN inbox) \X Names
    BY <1>22, <2>1, <2>2, SendOK DEF Reply
  <2> QED BY <1>22, <2>3 DEF Reply, Finish, front, table,
            FrontOK, MemoryOK, TableOK, WorkerOK, HistoryOK, OpenOK, Unmarked, Handling
<1>23. CASE WriteLost
  <2>1. CASE pc = "resumed"
    <3>1. listed \in [DOMAIN inbox -> Nat]
      BY <2>1 DEF WorkerOK
    <3>2. OpenOK'
      BY <1>23, <2>1, <3>1 DEF WriteLost, table, OpenOK, TableOK
    <3> QED BY <1>23, <2>1, <3>1, <3>2 DEF WriteLost, Fault, front, table,
              FrontOK, MemoryOK, TableOK, WorkerOK, HistoryOK, Unmarked, Handling
  <2>2. CASE pc # "resumed"
    BY <1>23, <2>2 DEF WriteLost, Fault, front, table,
         FrontOK, MemoryOK, TableOK, WorkerOK, HistoryOK, OpenOK, Unmarked, Handling
  <2> QED BY <2>1, <2>2
<1>24. CASE SendFails
  <2>1. \/ pc' = "reply" /\ UNCHANGED <<row, direct>>
        \/ pc' \in {"drain", "next"} /\ row' = 0 /\ direct' = FALSE
    BY <1>24 DEF SendFails, Finish
  <2>2. /\ pc \in {"say", "reply"} /\ row \in DOMAIN inbox
        /\ cut' = cut \cup {row} /\ faults' \in Nat
        /\ UNCHANGED <<front, chan, table, listed, got, todo, answers, sent, early, spilled>>
    BY <1>24 DEF SendFails, Cut, Fault, HistoryOK, WorkerOK, Unmarked, Handling
  <2> QED BY <2>1, <2>2 DEF front, table,
            FrontOK, MemoryOK, TableOK, WorkerOK, HistoryOK, OpenOK, Unmarked, Handling
<1>25. CASE InsertFails
  BY <1>25, GatewayAssumption DEF InsertFails, Fault, front, table,
       FrontOK, MemoryOK, TableOK, WorkerOK, HistoryOK, OpenOK, Unmarked, Handling
<1>26. CASE Crash
  <2>1. /\ <<>> \in Seq(1 .. arrived) /\ <<>> \in Seq(Messages \ Wakes) /\ Len(<<>>) = 0
    OBVIOUS
  <2>2. FrontOK'
    <3>1. 0 \in 0 .. arrived
      BY GatewayAssumption DEF FrontOK, Updates
    <3> QED BY <1>26, <2>1, <3>1 DEF Crash, FrontOK
  <2>3. MemoryOK'
    BY <1>26, <2>1, GatewayAssumption DEF Crash, MemoryOK
  <2>4. Elems(chan) \cup ({got} \ {NoMsg}) \subseteq Messages
    BY LenProperties, ElementOfSeq DEF MemoryOK, Elems
  <2>5. HistoryOK'
    BY <1>26, <2>4 DEF Crash, Cut, Fault, table, HistoryOK, WorkerOK, Unmarked, Handling
  <2> QED BY <1>26, <2>2, <2>3, <2>5 DEF Crash, table, TableOK, WorkerOK, OpenOK, Unmarked, Handling
<1> QED BY <1>1, <1>2, <1>3, <1>4, <1>5, <1>6, <1>7, <1>8, <1>9, <1>10, <1>11, <1>12, <1>13,
           <1>14, <1>15, <1>17, <1>18, <1>19, <1>20, <1>21, <1>22, <1>23, <1>24, <1>25, <1>26
        DEF Next, Step, Recover, Handle

(***************************************************************************)
(* Every table, buffer and local of the gateway keeps its type.            *)
(***************************************************************************)
THEOREM GatewayTypeCorrect == Spec => []TypeOK
<1>1. Spec => []Types
  BY TypesInit, TypesStep, PTL DEF Spec
<1> QED BY <1>1, PTL DEF Types

(***************************************************************************)
(* The rows at hand.  A drain lists rows once, and only the goroutine that *)
(* handles them marks rows, each when its turn is over.                    *)
(***************************************************************************)
LEMMA PendingStep == Types /\ HandlesPendingOnly /\ [Next]_vars => HandlesPendingOnly'
<1> SUFFICES ASSUME Types, HandlesPendingOnly, [Next]_vars PROVE HandlesPendingOnly'
  OBVIOUS
<1>0. /\ todo \subseteq PendingRows /\ TableOK /\ WorkerOK
      /\ pc \in Unmarked => row \in PendingRows \ todo
  BY DEF HandlesPendingOnly, Types, TypeOK
<1>1. ASSUME UNCHANGED <<inbox, todo>>, pc' \in Unmarked => pc \in Unmarked /\ row' = row
      PROVE  HandlesPendingOnly'
  BY <1>0, <1>1 DEF HandlesPendingOnly, PendingRows
<1>2. CASE \/ Poller \/ SendUpdate \/ UNCHANGED vars
           \/ \E m \in Posts \cup Lines : Submit(m) \/ Accept(m) \/ RefusePost(m)
  BY <1>1, <1>2 DEF vars, table, worker,
       Poller, Poll, PushUpdate, SkipUpdate, SendUpdate, Submit, Accept, RefusePost, Client
<1>3. CASE \/ ListIncomplete \/ CompleteResumed \/ EndRecovery \/ SkipRecovery
           \/ \E i \in DOMAIN open : CloseInterrupted(i) \/ ResumeAnswers(i)
  BY <1>1, <1>3 DEF ListIncomplete, CompleteResumed, EndRecovery, SkipRecovery, CloseInterrupted,
       ResumeAnswers, TakeListed, At, table, Unmarked
<1>4. CASE Receive \/ EndDrain \/ InsertFails
  BY <1>1, <1>4 DEF Receive, EndDrain, InsertFails, table, Unmarked
<1>5. CASE ListPending
  BY <1>5 DEF ListPending, Oldest, HandlesPendingOnly, PendingRows, table, Unmarked
<1>6. ASSUME NEW m \in Messages, Insert(m)
      PROVE  /\ PendingRows' = PendingRows \cup {Len(inbox) + 1}
             /\ PendingRows \subseteq DOMAIN inbox /\ Len(inbox) + 1 \notin DOMAIN inbox
  <2> DEFINE n == Len(inbox) + 1
  <2>1. /\ DOMAIN inbox' = (DOMAIN inbox) \cup {n} /\ n \notin DOMAIN inbox
        /\ \A i \in DOMAIN inbox : inbox'[i] = inbox[i]
        /\ inbox'[n] = [msg |-> m, state |-> "pending"]
    BY <1>0, <1>6, Inserted
  <2>2. inbox'[n].state = "pending"
    BY <2>1
  <2> QED BY <2>1, <2>2 DEF PendingRows
<1>7. CASE AcceptInbound
  <2>1. got \in Messages /\ Insert(got) /\ row' = Len(inbox) + 1 /\ todo' = todo
    BY <1>7, GatewayAssumption DEF AcceptInbound, Types, TypeOK, MemoryOK
  <2> QED BY <1>0, <1>6, <2>1 DEF HandlesPendingOnly
<1>8. ASSUME NEW k \in Wakes, EnqueueWake(k) PROVE HandlesPendingOnly'
  <2>1. k \in Messages /\ Insert(k) /\ UNCHANGED <<pc, row, todo>>
    BY <1>8 DEF EnqueueWake, Messages, worker
  <2> QED BY <1>0, <1>6, <2>1 DEF HandlesPendingOnly
<1>9. CASE NextItem
  BY <1>0, <1>9 DEF NextItem, HandlesPendingOnly, PendingRows, table
<1>10. CASE BeginRun \/ SaveAnswer \/ CompleteRun \/ SayOnConsole \/ HandleStops
  BY <1>1, <1>10 DEF BeginRun, SaveAnswer, CompleteRun, SayOnConsole, HandleStops, At, table, Unmarked
<1>11. CASE HandleFails \/ Reply
  BY <1>1, <1>11 DEF HandleFails, Reply, Finish, table, Unmarked
<1>12. CASE MarkItem
  <2>1. /\ row \in PendingRows \ todo /\ MarkDelivered(row) /\ pc' = "say" /\ todo' = todo
    BY <1>0, <1>12 DEF MarkItem, At, Unmarked
  <2>2. /\ DOMAIN inbox' = DOMAIN inbox
        /\ \A i \in DOMAIN inbox : i # row => inbox'[i] = inbox[i]
    BY <2>1 DEF MarkDelivered
  <2> QED BY <1>0, <2>1, <2>2 DEF HandlesPendingOnly, PendingRows, Unmarked
<1>13. CASE WriteLost
  BY <1>1, <1>13 DEF WriteLost, At, table, Unmarked
<1>14. CASE SendFails
  BY <1>1, <1>14 DEF SendFails, At, Finish, table, Unmarked
<1>15. CASE Crash
  BY <1>15 DEF Crash, HandlesPendingOnly, Unmarked
<1> QED BY <1>2, <1>3, <1>4, <1>5, <1>7, <1>8, <1>9, <1>10, <1>11, <1>12, <1>13, <1>14, <1>15
        DEF Next, Step, Recover, Handle

Handled == Types /\ HandlesPendingOnly

LEMMA HandledInvariant == Spec => []Handled
<1>1. Init => HandlesPendingOnly
  BY DEF Init, HandlesPendingOnly, Unmarked
<1> QED BY <1>1, TypesInit, TypesStep, PendingStep, PTL DEF Spec, Handled

(***************************************************************************)
(* Whatever the drain lists and the faults do, a row that is handled is    *)
(* still pending: no answered message is answered again from an old list.  *)
(***************************************************************************)
THEOREM OnlyPendingHandled == Spec => []HandlesPendingOnly
BY HandledInvariant, PTL DEF Handled

(***************************************************************************)
(* Runs and their answers.  Most steps neither write the table nor are in  *)
(* the middle of a run; the others are looked at one by one.               *)
(***************************************************************************)
InRun == {"handle", "answered", "completed", "resumed"}
Quiet ==
  /\ UNCHANGED <<inbox, open, answers>> /\ faults' \in {faults, faults + 1}
  /\ UNCHANGED <<pc, row>> \/ (pc \notin InRun /\ pc' \notin InRun)

LEMMA StepKinds ==
  ASSUME Types, [Next]_vars
  PROVE  \/ Quiet \/ AcceptInbound \/ \E k \in Wakes : EnqueueWake(k)
         \/ BeginRun \/ SaveAnswer \/ CompleteRun \/ MarkItem \/ HandleStops \/ HandleFails
         \/ WriteLost \/ Crash \/ CompleteResumed
         \/ \E i \in DOMAIN inbox : CloseInterrupted(i) \/ ResumeAnswers(i)
<1>1. CASE \/ Poller \/ SendUpdate \/ UNCHANGED vars
           \/ \E m \in Posts \cup Lines : Submit(m) \/ Accept(m) \/ RefusePost(m)
  BY <1>1 DEF Quiet, vars, table, worker, hist,
       Poller, Poll, PushUpdate, SkipUpdate, SendUpdate, Submit, Accept, RefusePost, Client
<1>2. CASE ListIncomplete \/ EndRecovery \/ SkipRecovery \/ Receive \/ ListPending \/ EndDrain
  BY <1>2 DEF Quiet, InRun, At, Fault, table, hist,
       ListIncomplete, EndRecovery, SkipRecovery, Receive, ListPending, EndDrain
<1>3. CASE NextItem \/ SayOnConsole \/ Reply
  BY <1>3 DEF Quiet, InRun, At, Finish, table, hist, NextItem, SayOnConsole, Reply
<1>4. CASE InsertFails \/ SendFails
  BY <1>4 DEF Quiet, InRun, At, Finish, Fault, table, hist, InsertFails, SendFails
<1> QED BY <1>1, <1>2, <1>3, <1>4 DEF Next, Step, Recover, Handle, Types, TypeOK, TableOK

\* The run at hand, which is open or answered.
Own(i) == IF row = i /\ pc \in {"handle", "answered"} THEN 1 ELSE 0

LEMMA RunsStep == Types /\ RunsLeftByFaultsOnly /\ [Next]_vars => RunsLeftByFaultsOnly'
<1> SUFFICES ASSUME Types, RunsLeftByFaultsOnly, [Next]_vars PROVE RunsLeftByFaultsOnly'
  OBVIOUS
<1>0. /\ TableOK /\ WorkerOK /\ faults \in Nat
      /\ \A i \in DOMAIN inbox : open[i] \in Nat /\ open[i] <= faults + Own(i)
  BY DEF RunsLeftByFaultsOnly, Types, TypeOK, HistoryOK, TableOK, Own
<1>a. SUFFICES ASSUME NEW i \in DOMAIN inbox' PROVE open'[i] <= faults' + Own(i)'
  BY DEF RunsLeftByFaultsOnly, Own
<1>1. CASE Quiet
  BY <1>0, <1>1 DEF Quiet, InRun, Own
<1>2. ASSUME NEW m \in Messages, Insert(m), faults' = faults, \A j \in DOMAIN inbox : Own(j)' = Own(j)
      PROVE  open'[i] <= faults' + Own(i)'
  <2> DEFINE n == Len(inbox) + 1
  <2>1. /\ DOMAIN inbox' = (DOMAIN inbox) \cup {n} /\ open'[n] = 0
        /\ \A j \in DOMAIN inbox : open'[j] = open[j]
    BY <1>0, <1>2, Inserted
  <2>2. Own(i)' \in {0, 1}
    BY DEF Own
  <2>3. CASE i \in DOMAIN inbox
    BY <1>0, <1>2, <2>1, <2>3
  <2> QED BY <1>0, <1>2, <2>1, <2>2, <2>3
<1>3. CASE AcceptInbound
  <2>1. /\ got \in Messages /\ Insert(got) /\ faults' = faults
        /\ pc = "accept" /\ pc' = "begin"
    BY <1>3, GatewayAssumption DEF AcceptInbound, At, Types, TypeOK, MemoryOK
  <2> QED BY <1>2, <2>1 DEF Own
<1>4. ASSUME NEW k \in Wakes, EnqueueWake(k) PROVE open'[i] <= faults' + Own(i)'
  <2>1. k \in Messages /\ Insert(k) /\ UNCHANGED <<pc, row, faults>>
    BY <1>4 DEF EnqueueWake, Messages, worker
  <2> QED BY <1>2, <2>1 DEF Own
<1>5. CASE BeginRun
  BY <1>0, <1>5 DEF BeginRun, At, hist, Own, TableOK
<1>6. CASE SaveAnswer
  BY <1>0, <1>6 DEF SaveAnswer, At, table, Own
<1>7. CASE MarkItem
  BY <1>0, <1>7 DEF MarkItem, MarkDelivered, At, Own
<1>8. CASE CompleteRun \/ HandleStops \/ HandleFails
  <2>1. /\ open' = [open EXCEPT ![row] = @ - 1] /\ inbox' = inbox
        /\ faults' \in {faults, faults + 1}
        /\ pc \in {"handle", "answered"} /\ pc' \notin {"handle", "answered"}
    BY <1>8 DEF CompleteRun, HandleStops, HandleFails, CloseRun, Spoils, Fault, Finish, At, hist
  <2> QED BY <1>0, <2>1 DEF Own, TableOK
<1>9. CASE CompleteResumed
  BY <1>0, <1>9 DEF CompleteResumed, CloseRun, At, hist, Own, TableOK
<1>10. ASSUME NEW j \in DOMAIN inbox, CloseInterrupted(j) \/ ResumeAnswers(j)
       PROVE  open'[i] <= faults' + Own(i)'
  <2>1. /\ open' = open \/ open' = [open EXCEPT ![j] = @ - 1]
        /\ UNCHANGED <<inbox, faults>>
        /\ pc = "resume"
    BY <1>10 DEF CloseInterrupted, ResumeAnswers, CloseRun, TakeListed, At, hist, table
  <2>2. open'[i] <= open[i] /\ Own(i) = 0 /\ Own(i)' \in {0, 1}
    BY <1>0, <2>1 DEF Own, TableOK
  <2>3. open'[i] \in Int
    BY <1>0, <2>1 DEF TableOK
  <2> QED BY <1>0, <2>1, <2>2, <2>3
<1>11. CASE WriteLost
  BY <1>0, <1>11 DEF WriteLost, Fault, At, table, Own
<1>12. CASE Crash
  BY <1>0, <1>12 DEF Crash, Fault, table, Own
<1> QED BY <1>1, <1>3, <1>4, <1>5, <1>6, <1>7, <1>8, <1>9, <1>10, <1>11, <1>12, StepKinds

(***************************************************************************)
(* Every return and every recovery closes its run: but for the one at      *)
(* hand, a row has at most one unfinished run for each fault.              *)
(***************************************************************************)
THEOREM RunsLeft == Spec => []RunsLeftByFaultsOnly
<1>1. Init => RunsLeftByFaultsOnly
  BY DEF Init, RunsLeftByFaultsOnly
<1> QED BY <1>1, TypesInit, TypesStep, RunsStep, PTL DEF Spec

(***************************************************************************)
(* Answers.  What bounds them is what may still come: one of the handling  *)
(* that a pending row waits for, and one of each run that a recovery may   *)
(* find open.  Without a fault neither grows; a fault adds one of each.    *)
(***************************************************************************)
ToCome(i)    == IF i \in PendingRows /\ ~(row = i /\ pc \in {"answered", "completed"}) THEN 1 ELSE 0
Resumable(i) == open[i] - (IF row = i /\ pc \in {"handle", "answered", "resumed"} THEN 1 ELSE 0)
AnswersOK    == \A i \in DOMAIN inbox : answers[i] + ToCome(i) + Resumable(i) <= 1 + 2 * faults

LEMMA AnswersStep == Types /\ HandlesPendingOnly /\ AnswersOK /\ [Next]_vars => AnswersOK'
<1> SUFFICES ASSUME Types, HandlesPendingOnly, AnswersOK, [Next]_vars PROVE AnswersOK'
  OBVIOUS
<1>0. /\ TableOK /\ WorkerOK /\ faults \in Nat /\ 0 \notin DOMAIN inbox
      /\ \A i \in DOMAIN inbox : /\ open[i] \in Nat /\ answers[i] \in Nat
                                 /\ answers[i] + ToCome(i) + Resumable(i) <= 1 + 2 * faults
  <2>1. DOMAIN inbox = 1 .. Len(inbox)
    BY LenProperties DEF Types, TypeOK, TableOK
  <2> QED BY <2>1 DEF AnswersOK, Types, TypeOK, HistoryOK, TableOK
<1>a. SUFFICES ASSUME NEW i \in DOMAIN inbox'
               PROVE  answers'[i] + ToCome(i)' + Resumable(i)' <= 1 + 2 * faults'
  BY DEF AnswersOK
<1> DEFINE Goal == answers'[i] + ToCome(i)' + Resumable(i)' <= 1 + 2 * faults'
<1>1. CASE Quiet
  BY <1>0, <1>1 DEF Quiet, InRun, ToCome, Resumable, PendingRows
<1>2. ASSUME NEW m \in Messages, Insert(m), faults' = faults,
             UNCHANGED <<pc, row>> \/ (pc \notin InRun /\ pc' \notin InRun)
      PROVE  Goal
  <2> DEFINE n == Len(inbox) + 1
  <2>1. /\ DOMAIN inbox' = (DOMAIN inbox) \cup {n} /\ n \notin DOMAIN inbox /\ n # 0
        /\ \A j \in DOMAIN inbox : /\ inbox'[j] = inbox[j] /\ open'[j] = open[j]
                                   /\ answers'[j] = answers[j]
        /\ open'[n] = 0 /\ answers'[n] = 0
    BY <1>0, <1>2, Inserted
  <2>2. CASE i \in DOMAIN inbox
    BY <1>0, <1>2, <2>1, <2>2 DEF ToCome, Resumable, PendingRows, InRun
  <2>3. CASE i = n
    <3>1. ToCome(i)' \in {0, 1} /\ (row' = n => pc' \notin InRun)
      BY <1>0, <1>2, <2>1 DEF ToCome, WorkerOK
    <3> QED BY <1>0, <1>2, <2>1, <2>3, <3>1 DEF Resumable, InRun
  <2> QED BY <2>1, <2>2, <2>3
<1>3. CASE AcceptInbound
  <2>1. /\ got \in Messages /\ Insert(got) /\ faults' = faults
        /\ pc = "accept" /\ pc' = "begin"
    BY <1>3, GatewayAssumption DEF AcceptInbound, At, Types, TypeOK, MemoryOK
  <2> QED BY <1>2, <2>1 DEF InRun
<1>4. ASSUME NEW k \in Wakes, EnqueueWake(k) PROVE Goal
  <2>1. k \in Messages /\ Insert(k) /\ UNCHANGED <<pc, row, faults>>
    BY <1>4 DEF EnqueueWake, Messages, worker
  <2> QED BY <1>2, <2>1
<1>5. CASE BeginRun
  BY <1>0, <1>5 DEF BeginRun, At, hist, ToCome, Resumable, PendingRows, TableOK
<1>6. CASE SaveAnswer
  <2>1. /\ UNCHANGED <<inbox, open, faults, row>> /\ pc = "handle" /\ pc' = "answered"
        /\ answers' = [answers EXCEPT ![row] = @ + 1]
    BY <1>6 DEF SaveAnswer, At, table
  <2>2. PendingRows' = PendingRows /\ Resumable(i)' = Resumable(i)
    BY <2>1 DEF PendingRows, Resumable
  <2>3. row \in PendingRows
    BY <2>1 DEF HandlesPendingOnly, Unmarked
  <2> QED BY <1>0, <2>1, <2>2, <2>3 DEF ToCome, Resumable, TableOK
<1>7. CASE MarkItem
  BY <1>0, <1>7 DEF MarkItem, MarkDelivered, At, ToCome, Resumable, PendingRows
<1>8. CASE CompleteRun
  BY <1>0, <1>8 DEF CompleteRun, CloseRun, At, hist, ToCome, Resumable, PendingRows, TableOK
<1>9. CASE HandleStops \/ HandleFails
  <2>1. /\ open' = [open EXCEPT ![row] = @ - 1] /\ UNCHANGED <<inbox, answers>>
        /\ faults' \in {faults, faults + 1}
        /\ pc = "handle" /\ pc' \notin InRun
    BY <1>9 DEF HandleStops, HandleFails, CloseRun, Spoils, Fault, Finish, At, hist, InRun
  <2> QED BY <1>0, <2>1 DEF ToCome, Resumable, PendingRows, TableOK, InRun
<1>10. CASE CompleteResumed
  BY <1>0, <1>10 DEF CompleteResumed, CloseRun, At, hist, ToCome, Resumable, PendingRows, TableOK
<1>11. ASSUME NEW j \in DOMAIN inbox, CloseInterrupted(j) PROVE Goal
  BY <1>0, <1>11 DEF CloseInterrupted, CloseRun, TakeListed, At, hist, ToCome, Resumable,
       PendingRows, TableOK
<1>12. ASSUME NEW j \in DOMAIN inbox, ResumeAnswers(j) PROVE Goal
  BY <1>0, <1>12 DEF ResumeAnswers, TakeListed, At, table, ToCome, Resumable, PendingRows, TableOK
<1>13. CASE WriteLost
  BY <1>0, <1>13 DEF WriteLost, Fault, At, table, ToCome, Resumable, PendingRows
<1>14. CASE Crash
  BY <1>0, <1>14 DEF Crash, Fault, table, ToCome, Resumable, PendingRows
<1> QED BY <1>1, <1>3, <1>4, <1>5, <1>6, <1>7, <1>8, <1>9, <1>10, <1>11, <1>12, <1>13, <1>14, StepKinds

(***************************************************************************)
(* A row is answered once, and at most twice more for each fault: by the   *)
(* run that the fault left open, and by the next handling of the row,      *)
(* which that run does not mark.                                           *)
(***************************************************************************)
THEOREM AnsweredAgain == Spec => []AnsweredAgainAfterFaultsOnly
<1>1. Init => AnswersOK
  BY DEF Init, AnswersOK
<1>2. ASSUME Types, AnswersOK PROVE AnsweredAgainAfterFaultsOnly
  <2> SUFFICES ASSUME NEW i \in DOMAIN inbox PROVE answers[i] <= 1 + 2 * faults
    BY DEF AnsweredAgainAfterFaultsOnly
  <2>1. answers[i] \in Nat /\ open[i] \in Nat /\ faults \in Nat
    BY <1>2 DEF Types, TypeOK, TableOK, HistoryOK
  <2>2. Resumable(i) \in Nat
    <3>1. row = i /\ pc = "resumed" => listed[i] \in Nat /\ listed[i] + 1 <= open[i]
      BY <1>2 DEF Types, TypeOK, OpenOK, WorkerOK
    <3>2. row = i /\ pc \in {"handle", "answered", "resumed"} => open[i] > 0
      BY <1>2, <2>1, <3>1 DEF Types, OpenOK
    <3> QED BY <2>1, <3>2 DEF Resumable
  <2>3. ToCome(i) \in {0, 1} /\ answers[i] + ToCome(i) + Resumable(i) <= 1 + 2 * faults
    BY <1>2 DEF AnswersOK, ToCome
  <2> QED BY <2>1, <2>2, <2>3
<1> QED BY <1>1, <1>2, HandledInvariant, AnswersStep, PTL DEF Spec, Handled

(***************************************************************************)
(* Replies.  A row is marked before its two sends: once they are over both *)
(* are done or cut off, and between them the first is.                     *)
(***************************************************************************)
Replied(i) ==
  /\ Console => <<i, "cli">> \in sent
  /\ i \notin early /\ NameOf(inbox[i].msg) \in Channels => <<i, NameOf(inbox[i].msg)>> \in sent
RepliesOK ==
  /\ \A i \in Marked \ cut : (row = i /\ pc \in {"say", "reply"}) \/ Replied(i)
  /\ row \in Marked \ cut /\ pc = "reply" => (Console => <<row, "cli">> \in sent)
  /\ row \in Marked /\ pc \in {"say", "reply"} /\ direct => row \in early

LEMMA RepliesStep == Handled /\ RepliesOK /\ [Next]_vars => RepliesOK'
<1> SUFFICES ASSUME Handled, RepliesOK, [Next]_vars PROVE RepliesOK'
  OBVIOUS
<1>0. /\ Types /\ TableOK /\ WorkerOK /\ HistoryOK
      /\ pc \in Unmarked => row \in PendingRows
      /\ \A i \in PendingRows : i \notin Marked
      /\ \A i \in Marked \ cut : (row = i /\ pc \in {"say", "reply"}) \/ Replied(i)
  BY DEF Handled, HandlesPendingOnly, Types, TypeOK, RepliesOK, PendingRows, Marked
<1>1. ASSUME UNCHANGED <<inbox, sent, early>>, cut \subseteq cut',
             pc \in {"say", "reply"} => row \in cut' \/ UNCHANGED <<pc, row, direct>>,
             pc' \in {"say", "reply"} => UNCHANGED <<pc, row, direct>> \/ row' \notin Marked
      PROVE  RepliesOK'
  <2>1. Marked' = Marked /\ \A i : Replied(i)' = Replied(i)
    BY <1>1 DEF Marked, Replied
  <2> QED BY <1>1, <2>1 DEF RepliesOK
<1>2. CASE \/ Poller \/ SendUpdate \/ UNCHANGED vars
           \/ \E m \in Posts \cup Lines : Submit(m) \/ Accept(m) \/ RefusePost(m)
  BY <1>1, <1>2 DEF vars, table, worker, hist,
       Poller, Poll, PushUpdate, SkipUpdate, SendUpdate, Submit, Accept, RefusePost, Client
<1>3. CASE \/ ListIncomplete \/ CompleteResumed \/ EndRecovery \/ SkipRecovery
           \/ \E i \in DOMAIN open : CloseInterrupted(i) \/ ResumeAnswers(i)
  BY <1>1, <1>3 DEF ListIncomplete, CompleteResumed, EndRecovery, SkipRecovery, CloseInterrupted,
       ResumeAnswers, TakeListed, At, table, hist
<1>4. CASE Receive \/ ListPending \/ EndDrain \/ InsertFails \/ NextItem
  BY <1>1, <1>4 DEF Receive, ListPending, EndDrain, InsertFails, NextItem, At, table, hist
<1>5. CASE BeginRun \/ SaveAnswer \/ CompleteRun \/ HandleStops
  BY <1>0, <1>1, <1>5 DEF BeginRun, SaveAnswer, CompleteRun, HandleStops, At, table, hist, Unmarked
<1>6. CASE HandleFails
  BY <1>1, <1>6 DEF HandleFails, Finish, At, hist
<1>7. ASSUME NEW m \in Messages, Insert(m)
      PROVE  /\ Marked' = Marked /\ Marked \subseteq DOMAIN inbox
             /\ \A i \in DOMAIN inbox : inbox'[i] = inbox[i]
  <2> DEFINE n == Len(inbox) + 1
  <2>1. /\ DOMAIN inbox' = (DOMAIN inbox) \cup {n} /\ n \notin DOMAIN inbox
        /\ \A i \in DOMAIN inbox : inbox'[i] = inbox[i]
        /\ inbox'[n] = [msg |-> m, state |-> "pending"]
    BY <1>0, <1>7, Inserted
  <2>2. inbox'[n].state = "pending"
    BY <2>1
  <2> QED BY <2>1, <2>2 DEF Marked
<1>8. CASE AcceptInbound
  <2>1. /\ got \in Messages /\ Insert(got) /\ pc = "accept" /\ pc' = "begin"
        /\ UNCHANGED <<sent, early, cut>>
    BY <1>8, GatewayAssumption DEF AcceptInbound, At, Types, TypeOK, MemoryOK, Handled
  <2> QED BY <1>0, <1>7, <2>1 DEF RepliesOK, Replied
<1>9. ASSUME NEW k \in Wakes, EnqueueWake(k) PROVE RepliesOK'
  <2>1. k \in Messages /\ Insert(k) /\ UNCHANGED <<pc, row, direct, sent, early, cut>>
    BY <1>9 DEF EnqueueWake, Messages, worker
  <2> QED BY <1>0, <1>7, <2>1 DEF RepliesOK, Replied
<1>10. CASE MarkItem
  <2>1. /\ row \in PendingRows /\ MarkDelivered(row) /\ pc' = "say" /\ pc = "completed"
        /\ early' = (IF direct THEN early \cup {row} ELSE early)
        /\ UNCHANGED <<row, direct, sent, cut>>
    BY <1>0, <1>10 DEF MarkItem, At, Unmarked
  <2>2. /\ DOMAIN inbox' = DOMAIN inbox
        /\ \A i \in DOMAIN inbox : i # row => inbox'[i] = inbox[i]
    BY <2>1 DEF MarkDelivered
  <2>3. Marked' \subseteq Marked \cup {row}
    BY <2>2 DEF Marked
  <2> QED BY <1>0, <2>1, <2>2, <2>3 DEF RepliesOK, Replied, Marked
<1>11. CASE SayOnConsole
  <2>1. /\ pc = "say" /\ pc' = "reply" /\ Send(Channels \cap {"cli"})
        /\ UNCHANGED <<inbox, row, direct, early, cut>>
    BY <1>11 DEF SayOnConsole, At, table
  <2>2. sent \subseteq sent' /\ (row \notin PendingRows /\ Console => <<row, "cli">> \in sent')
    BY <2>1 DEF Send, Channels
  <2>3. Marked' = Marked /\ \A i \in Marked : Replied(i) => Replied(i)'
    BY <2>1, <2>2 DEF Marked, Replied
  <2> QED BY <1>0, <2>1, <2>2, <2>3 DEF RepliesOK
<1>12. CASE Reply
  <2>1. /\ pc = "reply" /\ pc' \notin {"say", "reply"} /\ row' = 0 /\ Send(ReplyTo)
        /\ UNCHANGED <<inbox, early, cut>>
    BY <1>12 DEF Reply, Finish, At, table
  <2>2. sent \subseteq sent'
    BY <2>1 DEF Send
  <2>3. Marked' = Marked /\ \A i \in Marked : Replied(i) => Replied(i)'
    BY <2>1, <2>2 DEF Marked, Replied
  <2>4. ASSUME NEW r \in Marked \ cut, r = row PROVE Replied(r)'
    <3>1. Console => <<r, "cli">> \in sent'
      BY <2>1, <2>2, <2>4 DEF RepliesOK
    <3>2. ASSUME r \notin early, NameOf(inbox[r].msg) \in Channels
          PROVE  <<r, NameOf(inbox[r].msg)>> \in sent'
      <4>1. ReplyTo = {NameOf(inbox[r].msg)}
        BY <2>1, <2>4, <3>2 DEF RepliesOK, ReplyTo, WorkerOK
      <4>2. sent' = sent \cup ({r} \X ReplyTo)
        BY <1>0, <2>1, <2>4 DEF Send
      <4> QED BY <4>1, <4>2
    <3> QED BY <2>1, <3>1, <3>2 DEF Replied
  <2> QED BY <1>0, <2>1, <2>3, <2>4 DEF RepliesOK
<1>13. CASE WriteLost
  BY <1>0, <1>1, <1>13 DEF WriteLost, At, table, Unmarked
<1>14. CASE SendFails
  <2>1. /\ row \in cut' /\ cut \subseteq cut' /\ UNCHANGED <<inbox, sent, early>>
        /\ \/ pc = "say" /\ pc' = "reply" /\ UNCHANGED <<row, direct>>
           \/ pc' \notin {"say", "reply"}
    BY <1>14 DEF SendFails, Cut, Finish, At, table
  <2>2. Marked' = Marked /\ \A i : Replied(i)' = Replied(i)
    BY <2>1 DEF Marked, Replied
  <2> QED BY <1>0, <2>1, <2>2 DEF RepliesOK
<1>15. CASE Crash
  <2>1. /\ pc' \notin {"say", "reply"} /\ UNCHANGED <<inbox, sent, early>> /\ cut \subseteq cut'
        /\ pc \in {"say", "reply"} => row \in cut'
    BY <1>15 DEF Crash, Cut, table
  <2> QED BY <1>1, <2>1
<1> QED BY <1>2, <1>3, <1>4, <1>5, <1>6, <1>8, <1>9, <1>10, <1>11, <1>12, <1>13, <1>14, <1>15
        DEF Next, Step, Recover, Handle

(***************************************************************************)
(* A marked row has its answer on the console, and, if a drain handled it, *)
(* on the channel it came by, unless a fault cut the sending off.          *)
(***************************************************************************)
THEOREM RepliesLost == Spec => []RepliesLostByFaultsOnly
<1>1. Init => RepliesOK
  BY DEF Init, RepliesOK, Marked
<1>2. RepliesOK => RepliesLostByFaultsOnly
  BY DEF RepliesOK, RepliesLostByFaultsOnly, Replied
<1> QED BY <1>1, <1>2, HandledInvariant, RepliesStep, PTL DEF Spec

(***************************************************************************)
(* What is received.  The updates taken are 1 .. Top, the batch has those  *)
(* that follow, and every update taken and every request accepted is in    *)
(* memory or beyond it.                                                    *)
(***************************************************************************)
Top     == IF offset > confirmed THEN offset ELSE confirmed
BatchOK == \A k \in DOMAIN batch : batch[k] = Top + k
Safe(m) == InInbox(m) \/ m \in InMemory \/ m \in spilled
TakenOK ==
  /\ \A u \in (1 .. Top) \ Foreign : Safe(u)
  /\ \A m \in DOMAIN client : client[m] = "accepted" => Safe(m)

\* The next update of the batch.
LEMMA NextUpdate ==
  ASSUME Types, BatchOK, batch # <<>>, offset' = Head(batch), batch' = Tail(batch),
         confirmed' = confirmed
  PROVE  Head(batch) = Top + 1 /\ Top' = Top + 1 /\ Top \in Nat /\ BatchOK'
<1>1. /\ offset \in Nat /\ confirmed \in Nat /\ batch \in Seq(1 .. arrived)
  BY GatewayAssumption DEF Types, TypeOK, FrontOK, Updates
<1>2. /\ Head(batch) = batch[1] /\ Len(batch) \in Nat \ {0} /\ DOMAIN batch = 1 .. Len(batch)
      /\ DOMAIN Tail(batch) = 1 .. Len(batch) - 1
      /\ \A k \in 1 .. Len(batch) - 1 : Tail(batch)[k] = batch[k + 1]
  BY <1>1, FirstElement, LenProperties
<1>3. Head(batch) = Top + 1 /\ Top \in Nat /\ offset <= Top /\ confirmed <= Top
  BY <1>1, <1>2 DEF BatchOK, Top
<1>4. Top' = Top + 1
  BY <1>1, <1>3 DEF Top
<1>5. ASSUME NEW k \in 1 .. Len(batch) - 1 PROVE Tail(batch)[k] = (Top + 1) + k
  <2>1. k + 1 \in DOMAIN batch /\ Tail(batch)[k] = batch[k + 1]
    BY <1>2
  <2>2. Tail(batch)[k] = Top + (k + 1)
    BY <2>1 DEF BatchOK
  <2> QED BY <1>3, <2>2
<1> QED BY <1>2, <1>3, <1>4, <1>5 DEF BatchOK

LEMMA BatchStep == Types /\ BatchOK /\ [Next]_vars => BatchOK' /\ (Top' # Top => PushUpdate \/ SkipUpdate \/ Crash)
<1> SUFFICES ASSUME Types, BatchOK, [Next]_vars
             PROVE  BatchOK' /\ (Top' # Top => PushUpdate \/ SkipUpdate \/ Crash)
  OBVIOUS
<1>1. CASE UNCHANGED <<batch, offset, confirmed>>
  BY <1>1 DEF BatchOK, Top
<1>2. CASE PushUpdate \/ SkipUpdate
  BY <1>2, NextUpdate DEF PushUpdate, SkipUpdate, Taken
<1>3. CASE Crash
  BY <1>3 DEF Crash, BatchOK
<1>4. CASE Poll
  <2>1. /\ confirmed' = Top /\ offset' = offset /\ confirmed \in Nat /\ offset \in Nat
        /\ batch' = [k \in 1 .. arrived - Top |-> Top + k]
    BY <1>4, GatewayAssumption DEF Poll, Top, Types, TypeOK, FrontOK, Updates
  <2>2. Top' = Top
    BY <2>1 DEF Top
  <2> QED BY <2>1, <2>2 DEF BatchOK
<1>5. CASE \/ SendUpdate \/ UNCHANGED vars
           \/ \E m \in Posts \cup Lines : Submit(m) \/ Accept(m) \/ RefusePost(m)
           \/ \E k \in Wakes : EnqueueWake(k)
  BY <1>1, <1>5 DEF vars, front, SendUpdate, Submit, Accept, RefusePost, Client, EnqueueWake
<1>6. CASE Recover \/ SkipRecovery \/ Receive \/ ListPending \/ AcceptInbound \/ NextItem \/ EndDrain
  BY <1>1, <1>6 DEF Recover, SkipRecovery, Receive, ListPending, AcceptInbound, NextItem, EndDrain,
       ListIncomplete, CompleteResumed, EndRecovery, CloseInterrupted, ResumeAnswers, front
<1>7. CASE Handle \/ WriteLost \/ SendFails \/ InsertFails
  BY <1>1, <1>7 DEF Handle, WriteLost, SendFails, InsertFails, BeginRun, SaveAnswer, CompleteRun,
       MarkItem, SayOnConsole, HandleStops, HandleFails, Reply, front
<1> QED BY <1>2, <1>3, <1>4, <1>5, <1>6, <1>7 DEF Next, Step, Poller

\* Where the messages are: what each step does to the channel, the hand and
\* the names of the rows.
MessageOf == [i \in DOMAIN inbox |-> inbox[i].msg]
LEMMA Moves ==
  ASSUME Types, [Next]_vars
  PROVE  \/ UNCHANGED <<chan, got, spilled, MessageOf>>
         \/ PushUpdate \/ \E m \in Posts \cup Lines : Accept(m)
         \/ Receive \/ AcceptInbound \/ InsertFails \/ Crash \/ \E k \in Wakes : EnqueueWake(k)
<1>0. TableOK
  BY DEF Types, TypeOK
<1>1. CASE \/ Poll \/ SkipUpdate \/ SendUpdate \/ UNCHANGED vars
           \/ \E m \in Posts \cup Lines : Submit(m) \/ RefusePost(m)
  BY <1>1 DEF MessageOf, vars, table, worker, hist, Poll, SkipUpdate, SendUpdate, Submit, RefusePost, Client
<1>2. CASE Recover \/ SkipRecovery \/ ListPending \/ NextItem \/ EndDrain
  BY <1>2 DEF MessageOf, Recover, SkipRecovery, ListPending, NextItem, EndDrain,
       ListIncomplete, CompleteResumed, EndRecovery, CloseInterrupted, ResumeAnswers, table, hist
<1>3. CASE \/ WriteLost \/ SendFails \/ BeginRun \/ SaveAnswer \/ CompleteRun
           \/ SayOnConsole \/ HandleStops \/ HandleFails \/ Reply
  BY <1>3 DEF MessageOf, WriteLost, SendFails, BeginRun, SaveAnswer, CompleteRun,
       SayOnConsole, HandleStops, HandleFails, Reply, table, hist
<1>4. CASE MarkItem
  <2>1. row \in DOMAIN inbox /\ MarkDelivered(row) /\ UNCHANGED <<chan, got, spilled>>
    BY <1>4 DEF MarkItem, At, Types, TypeOK, WorkerOK, Unmarked, Handling
  <2>2. DOMAIN inbox' = DOMAIN inbox /\ \A j \in DOMAIN inbox : inbox'[j].msg = inbox[j].msg
    BY <2>1, RowKept
  <2> QED BY <2>1, <2>2 DEF MessageOf
<1> QED BY <1>1, <1>2, <1>3, <1>4 DEF Next, Step, Handle, Poller

\* A row inserted gives its message one more row, and takes none away.
RowsOf(m) == {i \in DOMAIN inbox : inbox[i].msg = m}
LEMMA RowsMore ==
  ASSUME Types, NEW m \in Messages, Insert(m)
  PROVE  /\ RowsOf(m)' = RowsOf(m) \cup {Len(inbox) + 1} /\ Len(inbox) + 1 \notin RowsOf(m)
         /\ \A k : k # m => RowsOf(k)' = RowsOf(k)
<1> DEFINE n == Len(inbox) + 1
<1>1. /\ DOMAIN inbox' = (DOMAIN inbox) \cup {n} /\ n \notin DOMAIN inbox
      /\ \A i \in DOMAIN inbox : inbox'[i] = inbox[i]
      /\ inbox'[n] = [msg |-> m, state |-> "pending"]
  BY Inserted DEF Types, TypeOK
<1>2. inbox'[n].msg = m
  BY <1>1
<1> QED BY <1>1, <1>2 DEF RowsOf
LEMMA RowsSame == ASSUME UNCHANGED MessageOf PROVE \A m : RowsOf(m)' = RowsOf(m)
<1>1. DOMAIN inbox' = DOMAIN inbox
  BY DEF MessageOf
<1>2. \A i \in DOMAIN inbox : MessageOf[i] = inbox[i].msg /\ MessageOf'[i] = inbox'[i].msg
  BY <1>1 DEF MessageOf
<1> QED BY <1>1, <1>2 DEF RowsOf
LEMMA InInboxRows == \A m : InInbox(m) <=> RowsOf(m) # {}
BY DEF InInbox, RowsOf

LEMMA SafeKept == Types /\ [Next]_vars => \A m : Safe(m) => Safe(m)'
<1> SUFFICES ASSUME Types, [Next]_vars, NEW m, Safe(m) PROVE Safe(m)'
  OBVIOUS
<1>0. /\ chan \in Seq(Messages \ Wakes) /\ NoMsg \notin Messages
      /\ got \in (Messages \ Wakes) \cup {NoMsg} /\ (pc = "accept" <=> got # NoMsg)
  BY GatewayAssumption DEF Types, TypeOK, MemoryOK, At
<1>1. RowsOf(m) # {} \/ m \in Elems(chan) \/ (m = got /\ got # NoMsg) \/ m \in spilled
  BY InInboxRows DEF Safe, InMemory
<1>a. SUFFICES RowsOf(m)' # {} \/ m \in Elems(chan)' \/ (m = got' /\ got' # NoMsg) \/ m \in spilled'
  BY DEF Safe, InMemory, InInbox, RowsOf
<1>2. CASE UNCHANGED <<chan, got, spilled, MessageOf>>
  BY <1>1, <1>2, RowsSame DEF Elems
<1>3. ASSUME NEW e \in Messages \ Wakes, Push(e), UNCHANGED <<got, spilled, inbox>>
      PROVE  RowsOf(m)' # {} \/ m \in Elems(chan)' \/ (m = got' /\ got' # NoMsg) \/ m \in spilled'
  <2>1. chan' = Append(chan, e) /\ Elems(Append(chan, e)) = Elems(chan) \cup {e}
    BY <1>0, <1>3, OneMore DEF Push
  <2>2. Elems(chan)' = Elems(chan')
    BY DEF Elems
  <2> QED BY <1>1, <1>3, <2>1, <2>2 DEF RowsOf
<1>4. CASE PushUpdate
  <2>1. Head(batch) \in Messages \ Wakes
    <3>1. Head(batch) \in 1 .. arrived /\ arrived \in Updates \cup {0}
      BY <1>4, FirstElement DEF PushUpdate, Types, TypeOK, FrontOK
    <3> QED BY <3>1, GatewayAssumption DEF Updates, Messages
  <2> QED BY <1>3, <1>4, <2>1 DEF PushUpdate, table, worker, hist
<1>5. ASSUME NEW e \in Posts \cup Lines, Accept(e)
      PROVE  RowsOf(m)' # {} \/ m \in Elems(chan)' \/ (m = got' /\ got' # NoMsg) \/ m \in spilled'
  <2>1. e \in Messages \ Wakes
    BY GatewayAssumption DEF Messages
  <2> QED BY <1>3, <1>5, <2>1 DEF Accept, Client, table, worker, hist
<1>6. CASE Receive
  <2>1. /\ chan # <<>> /\ chan' = Tail(chan) /\ got' = Head(chan) /\ pc = "wait"
        /\ UNCHANGED <<inbox, spilled>>
    BY <1>6 DEF Receive, At, table, hist
  <2>2. Head(chan) \in Messages \ Wakes /\ Elems(chan) = {Head(chan)} \cup Elems(Tail(chan))
    BY <1>0, <2>1, FirstElement
  <2>3. Elems(chan)' = Elems(Tail(chan))
    BY <2>1 DEF Elems
  <2>4. got = NoMsg /\ Head(chan) # NoMsg /\ (RowsOf(m) # {} => RowsOf(m)' # {})
    BY <1>0, <2>1, <2>2 DEF RowsOf
  <2> QED BY <1>1, <2>1, <2>2, <2>3, <2>4
<1>7. CASE AcceptInbound
  <2> SUFFICES ASSUME NEW g, g = got
               PROVE  RowsOf(m)' # {} \/ m \in Elems(chan)' \/ (m = got' /\ got' # NoMsg) \/ m \in spilled'
    OBVIOUS
  <2>1. g \in Messages /\ Insert(g) /\ UNCHANGED <<chan, spilled>>
    BY <1>0, <1>7 DEF AcceptInbound, At
  <2>2. RowsOf(g)' # {} /\ (m # g => RowsOf(m)' = RowsOf(m))
    BY <2>1, RowsMore
  <2> QED BY <1>1, <2>1, <2>2 DEF Elems
<1>8. CASE InsertFails
  BY <1>1, <1>8 DEF InsertFails, table, RowsOf, Elems
<1>9. CASE Crash
  BY <1>1, <1>9 DEF Crash, table, RowsOf
<1>10. ASSUME NEW k \in Wakes, EnqueueWake(k)
       PROVE  RowsOf(m)' # {} \/ m \in Elems(chan)' \/ (m = got' /\ got' # NoMsg) \/ m \in spilled'
  <2>1. k \in Messages /\ Insert(k) /\ UNCHANGED <<chan, got, spilled>>
    BY <1>10 DEF EnqueueWake, Messages, worker
  <2>2. RowsOf(m) # {} => RowsOf(m)' # {}
    BY <2>1, RowsMore
  <2> QED BY <1>1, <2>1, <2>2 DEF Elems
<1> QED BY <1>2, <1>4, <1>5, <1>6, <1>7, <1>8, <1>9, <1>10, Moves

\* An update is safe when it is pushed, a request when it is accepted.
LEMMA PushedSafe ==
  ASSUME Types, NEW e \in Messages \ Wakes, Push(e)
  PROVE  Safe(e)'
<1>1. chan' = Append(chan, e) /\ Elems(Append(chan, e)) = Elems(chan) \cup {e}
  BY OneMore DEF Push, Types, TypeOK, MemoryOK
<1>2. Elems(chan)' = Elems(chan')
  BY DEF Elems
<1> QED BY <1>1, <1>2 DEF Safe, InMemory

\* Who moves a client.
LEMMA ClientStep ==
  [Next]_vars => \/ client' = client \/ Crash
                 \/ \E m \in Posts \cup Lines : Submit(m) \/ Accept(m) \/ RefusePost(m)
<1> SUFFICES ASSUME [Next]_vars
             PROVE  \/ client' = client \/ Crash
                    \/ \E m \in Posts \cup Lines : Submit(m) \/ Accept(m) \/ RefusePost(m)
  OBVIOUS
<1>1. CASE Poller \/ SendUpdate \/ UNCHANGED vars \/ \E k \in Wakes : EnqueueWake(k)
  BY <1>1 DEF Poller, Poll, PushUpdate, SkipUpdate, SendUpdate, EnqueueWake, vars, front
<1>2. CASE Recover \/ SkipRecovery \/ Receive \/ ListPending \/ AcceptInbound \/ NextItem \/ EndDrain
  BY <1>2 DEF Recover, SkipRecovery, Receive, ListPending, AcceptInbound, NextItem, EndDrain,
       ListIncomplete, CompleteResumed, EndRecovery, CloseInterrupted, ResumeAnswers, front
<1>3. CASE Handle \/ WriteLost \/ SendFails \/ InsertFails
  BY <1>3 DEF Handle, WriteLost, SendFails, InsertFails, BeginRun, SaveAnswer, CompleteRun,
       MarkItem, SayOnConsole, HandleStops, HandleFails, Reply, front
<1> QED BY <1>1, <1>2, <1>3 DEF Next, Step

LEMMA TakenStep == Types /\ BatchOK /\ TakenOK /\ [Next]_vars => TakenOK'
<1> SUFFICES ASSUME Types, BatchOK, TakenOK, [Next]_vars PROVE TakenOK'
  OBVIOUS
<1>0. /\ confirmed \in Nat /\ offset \in Nat /\ arrived \in Nat /\ Top \in Nat
      /\ batch \in Seq(1 .. arrived) /\ arrived \in Updates \cup {0}
      /\ confirmed <= Top
  BY GatewayAssumption DEF Types, TypeOK, FrontOK, Updates, Top
<1>1. \A m : Safe(m) => Safe(m)'
  BY SafeKept
<1>2. \A u \in (1 .. Top)' \ Foreign : Safe(u)'
  <2>1. CASE Top' = Top
    BY <1>1, <2>1 DEF TakenOK
  <2>2. CASE PushUpdate \/ SkipUpdate
    <3> SUFFICES ASSUME NEW e, e = Head(batch) PROVE \A u \in (1 .. Top)' \ Foreign : Safe(u)'
      OBVIOUS
    <3>1. Top' = Top + 1 /\ e = Top + 1
      BY <2>2, NextUpdate DEF PushUpdate, SkipUpdate, Taken
    <3>2. CASE SkipUpdate
      BY <1>0, <1>1, <3>1, <3>2 DEF SkipUpdate, TakenOK
    <3>3. CASE PushUpdate
      <4>1. e \in 1 .. arrived
        BY <1>0, <3>3, FirstElement DEF PushUpdate
      <4>2. e \in Messages \ Wakes
        BY <1>0, <4>1, GatewayAssumption DEF Updates, Messages
      <4>3. Safe(e)'
        BY <3>3, <4>2, PushedSafe DEF PushUpdate
      <4> QED BY <1>0, <1>1, <3>1, <4>3 DEF TakenOK
    <3> QED BY <2>2, <3>2, <3>3
  <2>3. CASE Crash
    <3>1. confirmed' = confirmed /\ offset' = 0
      BY <2>3 DEF Crash
    <3>2. Top' <= Top /\ Top' \in Nat
      BY <1>0, <3>1 DEF Top
    <3> QED BY <1>0, <1>1, <3>2 DEF TakenOK
  <2> QED BY <2>1, <2>2, <2>3, BatchStep
<1>3. \A m \in DOMAIN client' : client'[m] = "accepted" => Safe(m)'
  <2>1. CASE client' = client
    BY <1>1, <2>1 DEF TakenOK
  <2>2. CASE Crash
    BY <1>1, <2>2 DEF Crash, TakenOK
  <2>3. ASSUME NEW m \in Posts \cup Lines, Submit(m) \/ Accept(m) \/ RefusePost(m)
        PROVE  \A k \in DOMAIN client' : client'[k] = "accepted" => Safe(k)'
    <3>1. /\ DOMAIN client' = DOMAIN client
          /\ \A k \in DOMAIN client : k # m => client'[k] = client[k]
          /\ m \in DOMAIN client /\ client'[m] = "accepted" => Accept(m)
      BY <2>3 DEF Submit, Accept, RefusePost, Client
    <3>2. Accept(m) => Safe(m)'
      <4>1. m \in Messages \ Wakes
        BY GatewayAssumption DEF Messages
      <4> QED BY <4>1, PushedSafe DEF Accept
    <3> QED BY <1>1, <3>1, <3>2 DEF TakenOK
  <2> QED BY <2>1, <2>2, <2>3, ClientStep
<1> QED BY <1>2, <1>3 DEF TakenOK

(***************************************************************************)
(* What a sender counts as delivered is in memory or in the inbox, or was  *)
(* in memory when the process died or the insert failed.                   *)
(***************************************************************************)
THEOREM LostOnly == Spec => []LostOnlyInMemory
<1>1. Init => BatchOK /\ TakenOK
  BY DEF Init, BatchOK, TakenOK, Top
<1>2. ASSUME Types, TakenOK PROVE LostOnlyInMemory
  <2>1. confirmed \in Nat /\ offset \in Nat /\ Top \in Nat /\ confirmed <= Top
    BY <1>2, GatewayAssumption DEF Types, TypeOK, FrontOK, Updates, Top
  <2> QED BY <1>2, <2>1 DEF TakenOK, LostOnlyInMemory, Trusted, Safe
<1>3. BatchOK /\ Types /\ [Next]_vars => BatchOK'
  BY BatchStep
<1> QED BY <1>1, <1>2, <1>3, TypesInit, TypesStep, TakenStep, PTL DEF Spec

(***************************************************************************)
(* Duplicates.  A message that is in memory, or may still get there, is    *)
(* there once, and its next row is the only one to come; a restart brings  *)
(* back the updates the server has not seen confirmed.                     *)
(***************************************************************************)
Ahead(m)  == \/ m \in Updates /\ m > Top
             \/ m \in DOMAIN client /\ client[m] \in {"new", "waiting"}
Coming(m) == IF m \in Elems(chan) \/ m = got \/ Ahead(m) THEN 1 ELSE 0
Distinct  == \A i, j \in DOMAIN chan : chan[i] = chan[j] => i = j
OnceOK ==
  /\ Distinct /\ got \notin Elems(chan)
  /\ \A m \in InMemory : ~Ahead(m)
  /\ \A m \in Messages \ Wakes : Cardinality(RowsOf(m)) + Coming(m) <= 1 + faults

\* No message gets ahead again without a crash.
LEMMA AheadStep ==
  ASSUME Types, BatchOK, [Next]_vars
  PROVE  faults' \in Nat /\ faults <= faults' /\ (Crash \/ \A m : Ahead(m)' => Ahead(m))
<1>1. faults \in Nat /\ (faults' = faults \/ faults' = faults + 1)
  <2>1. CASE UNCHANGED faults \/ Fault
    BY <2>1 DEF Fault, Types, TypeOK, HistoryOK
  <2>2. CASE \/ Poller \/ SendUpdate \/ UNCHANGED vars
             \/ \E m \in Posts \cup Lines : Submit(m) \/ Accept(m) \/ RefusePost(m)
             \/ \E k \in Wakes : EnqueueWake(k)
    BY <2>1, <2>2 DEF vars, hist, Poller, Poll, PushUpdate, SkipUpdate, SendUpdate, Submit, Accept,
         RefusePost, Client, EnqueueWake
  <2>3. CASE Recover \/ SkipRecovery \/ Receive \/ ListPending \/ AcceptInbound \/ NextItem \/ EndDrain
    BY <2>1, <2>3 DEF Recover, SkipRecovery, Receive, ListPending, AcceptInbound, NextItem, EndDrain,
         ListIncomplete, CompleteResumed, EndRecovery, CloseInterrupted, ResumeAnswers, hist
  <2>4. CASE Handle \/ WriteLost \/ SendFails \/ InsertFails \/ Crash
    BY <2>1, <2>4 DEF Handle, WriteLost, SendFails, InsertFails, BeginRun, SaveAnswer, CompleteRun,
         MarkItem, SayOnConsole, HandleStops, HandleFails, Spoils, Reply, Crash, hist
  <2> QED BY <2>2, <2>3, <2>4 DEF Next, Step
<1>2. ASSUME ~Crash, NEW m, Ahead(m)' PROVE Ahead(m)
  <2>1. Top \in Nat /\ (Top' = Top \/ Top' = Top + 1)
    BY <1>2, BatchStep, NextUpdate, GatewayAssumption
    DEF PushUpdate, SkipUpdate, Taken, Top, Types, TypeOK, FrontOK, Updates
  <2>2. /\ DOMAIN client' = DOMAIN client
        /\ m \in DOMAIN client /\ client'[m] \in {"new", "waiting"} => client[m] \in {"new", "waiting"}
    BY <1>2, ClientStep DEF Submit, Accept, RefusePost, Client
  <2> QED BY <1>2, <2>1, <2>2, GatewayAssumption DEF Ahead, Updates
<1> QED BY <1>1, <1>2

LEMMA RowsFinite == Types => \A m : IsFiniteSet(RowsOf(m)) /\ Cardinality(RowsOf(m)) \in Nat
<1> SUFFICES ASSUME Types, NEW m PROVE IsFiniteSet(RowsOf(m)) /\ Cardinality(RowsOf(m)) \in Nat
  OBVIOUS
<1>1. DOMAIN inbox = 1 .. Len(inbox) /\ Len(inbox) \in Nat
  BY LenProperties DEF Types, TypeOK, TableOK
<1>2. IsFiniteSet(DOMAIN inbox) /\ RowsOf(m) \subseteq DOMAIN inbox
  BY <1>1, FS_Interval DEF RowsOf
<1> QED BY <1>2, FS_Subset, FS_CardinalityType

\* A message that is ahead is pushed: it is in memory, and ahead no longer.
LEMMA OncePushed ==
  ASSUME Types, OnceOK, NEW e \in Messages \ Wakes, Ahead(e), ~Ahead(e)', Push(e),
         UNCHANGED <<got, inbox, faults>>, \A m : Ahead(m)' => Ahead(m)
  PROVE  OnceOK'
<1>1. /\ chan \in Seq(Messages \ Wakes) /\ got # e /\ e \notin Elems(chan) /\ NoMsg # e
      /\ chan' = Append(chan, e)
  BY GatewayAssumption DEF OnceOK, InMemory, Push, Types, TypeOK, MemoryOK
<1>2. /\ Elems(Append(chan, e)) = Elems(chan) \cup {e}
      /\ DOMAIN Append(chan, e) = (DOMAIN chan) \cup {Len(chan) + 1}
      /\ Append(chan, e)[Len(chan) + 1] = e
      /\ \A i \in DOMAIN chan : Append(chan, e)[i] = chan[i]
  BY <1>1, OneMore
<1>3. Elems(chan)' = Elems(chan) \cup {e}
  BY <1>1, <1>2 DEF Elems
<1>4. \A i \in DOMAIN chan : chan[i] # e
  BY <1>1 DEF Elems
<1>5. Distinct'
  BY <1>1, <1>2, <1>4 DEF Distinct, OnceOK
<1>6. \A m \in InMemory' : ~Ahead(m)'
  BY <1>3 DEF InMemory, OnceOK
<1>7. ASSUME NEW m \in Messages \ Wakes
      PROVE  (Cardinality(RowsOf(m)) + Coming(m) <= 1 + faults)'
  <2>1. Coming(m)' = 1 => Coming(m) = 1
    BY <1>3 DEF Coming
  <2>2. RowsOf(m)' = RowsOf(m) /\ Coming(m) \in {0, 1} /\ Coming(m)' \in {0, 1}
    BY DEF RowsOf, Coming
  <2> QED BY <2>1, <2>2, RowsFinite DEF OnceOK, Types, TypeOK, HistoryOK
<1> QED BY <1>1, <1>3, <1>5, <1>6, <1>7 DEF OnceOK

LEMMA OnceStep == Types /\ BatchOK /\ OnceOK /\ [Next]_vars => OnceOK'
<1> SUFFICES ASSUME Types, BatchOK, OnceOK, [Next]_vars PROVE OnceOK'
  OBVIOUS
<1>0. /\ chan \in Seq(Messages \ Wakes) /\ NoMsg \notin Messages
      /\ got \in (Messages \ Wakes) \cup {NoMsg} /\ (pc = "accept" <=> got # NoMsg)
      /\ faults \in Nat /\ faults' \in Nat /\ faults <= faults'
      /\ \A m : Coming(m) \in {0, 1} /\ Coming(m)' \in {0, 1}
      /\ \A m : Cardinality(RowsOf(m)) \in Nat
      /\ \A m \in Messages \ Wakes : Cardinality(RowsOf(m)) + Coming(m) <= 1 + faults
  BY GatewayAssumption, RowsFinite, AheadStep DEF Types, TypeOK, MemoryOK, HistoryOK, At, Coming, OnceOK
<1>1. CASE Crash
  <2>1. /\ chan' = <<>> /\ got' = NoMsg /\ inbox' = inbox /\ faults' = faults + 1
    BY <1>1 DEF Crash, Fault, table
  <2>2. InMemory' = {} /\ Elems(chan)' = {} /\ Distinct' /\ \A m : RowsOf(m)' = RowsOf(m)
    BY <2>1 DEF InMemory, Elems, Distinct, RowsOf
  <2>3. ASSUME NEW m \in Messages \ Wakes
        PROVE  (Cardinality(RowsOf(m)) + Coming(m) <= 1 + faults)'
    BY <1>0, <2>1, <2>2
  <2> QED BY <2>1, <2>2, <2>3 DEF OnceOK
<1> SUFFICES ASSUME ~Crash, \A m : Ahead(m)' => Ahead(m) PROVE OnceOK'
  BY <1>1, AheadStep
\* Nothing is inserted: what comes after came before.
<1>2. ASSUME \A m : RowsOf(m)' = RowsOf(m), Distinct', InMemory' \subseteq InMemory,
             got' \notin Elems(chan)', got' = NoMsg \/ got' \in InMemory,
             Elems(chan)' \subseteq InMemory
      PROVE  OnceOK'
  <2>1. ASSUME NEW m \in Messages \ Wakes
        PROVE  (Cardinality(RowsOf(m)) + Coming(m) <= 1 + faults)'
    <3>1. Coming(m)' = 1 => Coming(m) = 1
      BY <1>0, <1>2, <2>1 DEF Coming, InMemory
    <3>2. RowsOf(m)' = RowsOf(m)
      BY <1>2
    <3> QED BY <1>0, <3>1, <3>2
  <2> QED BY <1>2, <2>1 DEF OnceOK
<1>3. CASE UNCHANGED <<chan, got, spilled, MessageOf>>
  <2>1. Elems(chan)' = Elems(chan) /\ InMemory' = InMemory /\ Distinct'
    BY <1>3 DEF Elems, InMemory, Distinct, OnceOK
  <2> QED BY <1>0, <1>2, <1>3, <2>1, RowsSame DEF InMemory, OnceOK
<1>4. CASE PushUpdate
  <2> SUFFICES ASSUME NEW e, e = Head(batch) PROVE OnceOK'
    OBVIOUS
  <2>1. e = Top + 1 /\ Top' = Top + 1 /\ Top \in Nat
    BY <1>4, NextUpdate DEF PushUpdate, Taken
  <2>2. e \in 1 .. arrived /\ arrived \in Updates \cup {0}
    BY <1>4, FirstElement DEF PushUpdate, Types, TypeOK, FrontOK
  <2>3. e \in Updates /\ e \in Messages \ Wakes
    BY <2>2, GatewayAssumption DEF Updates, Messages
  <2>4. e \notin DOMAIN client'
    BY <1>4, <2>3, GatewayAssumption DEF PushUpdate, Types, TypeOK, FrontOK
  <2>5. Ahead(e) /\ ~Ahead(e)'
    BY <2>1, <2>3, <2>4 DEF Ahead
  <2> QED BY <1>4, <2>3, <2>5, OncePushed DEF PushUpdate, table, worker, hist
<1>5. ASSUME NEW e \in Posts \cup Lines, Accept(e) PROVE OnceOK'
  <2>1. e \in Messages \ Wakes /\ e \notin Updates
    BY GatewayAssumption DEF Messages
  <2>2. client \in [Posts \cup Lines -> {"new", "waiting", "accepted", "refused"}]
    BY DEF Types, TypeOK, FrontOK
  <2>3. client[e] = "waiting" /\ client'[e] = "accepted"
    BY <1>5, <2>2 DEF Accept, Client
  <2>4. Ahead(e) /\ ~Ahead(e)'
    BY <2>1, <2>2, <2>3 DEF Ahead
  <2> QED BY <1>5, <2>1, <2>4, OncePushed DEF Accept, Client, table, worker, hist
<1>6. CASE Receive
  <2>1. /\ chan # <<>> /\ chan' = Tail(chan) /\ got' = Head(chan) /\ pc = "wait" /\ inbox' = inbox
    BY <1>6 DEF Receive, At, table, hist
  <2>2. /\ Head(chan) \in Messages \ Wakes /\ Elems(chan) = {Head(chan)} \cup Elems(Tail(chan))
        /\ Head(chan) = chan[1] /\ Len(chan) \in Nat \ {0} /\ Tail(chan) \in Seq(Messages \ Wakes)
        /\ Len(Tail(chan)) = Len(chan) - 1
        /\ \A k \in 1 .. Len(chan) - 1 : Tail(chan)[k] = chan[k + 1]
    BY <1>0, <2>1, FirstElement
  <2>3. DOMAIN chan = 1 .. Len(chan) /\ DOMAIN Tail(chan) = 1 .. Len(chan) - 1
    BY <1>0, <2>2, LenProperties
  <2>4. Elems(chan)' = Elems(Tail(chan))
    BY <2>1 DEF Elems
  <2>5. \A i, j \in 1 .. Len(chan) : chan[i] = chan[j] => i = j
    BY <2>3 DEF OnceOK, Distinct
  <2>6. Distinct'
    <3> SUFFICES ASSUME NEW i \in 1 .. Len(chan) - 1, NEW j \in 1 .. Len(chan) - 1,
                        Tail(chan)[i] = Tail(chan)[j]
                 PROVE  i = j
      BY <2>1, <2>3 DEF Distinct
    <3>1. i + 1 \in 1 .. Len(chan) /\ j + 1 \in 1 .. Len(chan) /\ chan[i + 1] = chan[j + 1]
      BY <2>2
    <3> QED BY <2>5, <3>1
  <2>7. Head(chan) \notin Elems(Tail(chan))
    <3> SUFFICES ASSUME NEW i \in 1 .. Len(chan) - 1 PROVE Tail(chan)[i] # Head(chan)
      BY <2>3 DEF Elems
    <3>1. i + 1 \in 1 .. Len(chan) /\ 1 \in 1 .. Len(chan) /\ i + 1 # 1
      BY <2>2
    <3> QED BY <2>2, <2>5, <3>1
  <2>8. Head(chan) # NoMsg /\ got = NoMsg
    BY <1>0, <2>1, <2>2
  <2>9. InMemory' = InMemory
    BY <2>1, <2>2, <2>4, <2>8 DEF InMemory
  <2> QED BY <1>2, <2>1, <2>2, <2>4, <2>6, <2>7, <2>9 DEF RowsOf, InMemory
<1>7. CASE InsertFails
  <2>1. UNCHANGED <<chan, inbox>> /\ got' = NoMsg
    BY <1>7 DEF InsertFails, table
  <2>2. Elems(chan)' = Elems(chan) /\ Distinct' /\ NoMsg \notin Elems(chan)
    BY <1>0, <2>1 DEF Elems, Distinct, OnceOK
  <2> QED BY <1>2, <2>1, <2>2 DEF RowsOf, InMemory
\* A row is inserted.
<1>8. ASSUME NEW g \in Messages, Insert(g), chan' = chan, faults' = faults,
             (got' = got /\ g \in Wakes) \/ (got' = NoMsg /\ g = got)
      PROVE  OnceOK'
  <2>1. Elems(chan)' = Elems(chan) /\ Distinct' /\ NoMsg \notin Elems(chan)
    BY <1>0, <1>8 DEF Elems, Distinct, OnceOK
  <2>2. /\ RowsOf(g)' = RowsOf(g) \cup {Len(inbox) + 1} /\ Len(inbox) + 1 \notin RowsOf(g)
        /\ \A k : k # g => RowsOf(k)' = RowsOf(k)
    BY <1>8, RowsMore
  <2>3. ASSUME NEW m \in Messages \ Wakes
        PROVE  (Cardinality(RowsOf(m)) + Coming(m) <= 1 + faults)'
    <3>1. CASE m # g
      <4>1. Coming(m)' = 1 => Coming(m) = 1
        BY <1>0, <1>8, <2>1, <2>3 DEF Coming
      <4>2. RowsOf(m)' = RowsOf(m)
        BY <2>2, <3>1
      <4> QED BY <1>0, <1>8, <4>1, <4>2
    <3>2. CASE m = g
      <4>1. Coming(m) = 1 /\ got = m /\ got' = NoMsg
        BY <1>8, <3>2 DEF Coming
      <4>2. m \notin Elems(chan) /\ ~Ahead(m)
        BY <1>0, <4>1 DEF OnceOK, InMemory
      <4>3. Coming(m)' = 0
        BY <1>0, <2>1, <4>1, <4>2 DEF Coming
      <4>4. Cardinality(RowsOf(m)') = Cardinality(RowsOf(m)) + 1
        BY <2>2, <3>2, RowsFinite, FS_AddElement
      <4>5. Cardinality(RowsOf(m))' = Cardinality(RowsOf(m)')
        OBVIOUS
      <4>6. Cardinality(RowsOf(m)) \in Nat /\ Cardinality(RowsOf(m)) + 1 <= 1 + faults
        BY <1>0, <4>1
      <4> QED BY <1>0, <1>8, <4>3, <4>4, <4>5, <4>6
    <3> QED BY <3>1, <3>2
  <2> QED BY <1>8, <2>1, <2>3 DEF OnceOK, InMemory
<1>9. CASE AcceptInbound
  <2> SUFFICES ASSUME NEW g, g = got PROVE OnceOK'
    OBVIOUS
  <2>1. g \in Messages /\ Insert(g) /\ chan' = chan /\ faults' = faults /\ got' = NoMsg
    BY <1>0, <1>9 DEF AcceptInbound, At
  <2> QED BY <1>8, <2>1
<1>10. ASSUME NEW k \in Wakes, EnqueueWake(k) PROVE OnceOK'
  <2>1. k \in Messages /\ Insert(k) /\ chan' = chan /\ faults' = faults /\ got' = got
    BY <1>10 DEF EnqueueWake, Messages, worker
  <2> QED BY <1>8, <2>1
<1> QED BY <1>3, <1>4, <1>5, <1>6, <1>7, <1>9, <1>10, Moves

(***************************************************************************)
(* A message gets one row, and one more for each restart.                  *)
(***************************************************************************)
THEOREM Duplicates == Spec => []DuplicatesOnlyAfterRestart
<1>1. Init => BatchOK /\ OnceOK
  <2> SUFFICES ASSUME Init PROVE BatchOK /\ OnceOK
    OBVIOUS
  <2>1. /\ BatchOK /\ Elems(chan) = {} /\ InMemory = {} /\ Distinct /\ faults = 0
        /\ \A m : RowsOf(m) = {} /\ Coming(m) \in {0, 1}
    BY DEF Init, BatchOK, Elems, InMemory, Distinct, RowsOf, Coming
  <2> QED BY <2>1, FS_EmptySet DEF OnceOK
<1>2. ASSUME Types, OnceOK PROVE DuplicatesOnlyAfterRestart
  <2> SUFFICES ASSUME NEW m \in Updates \cup Posts \cup Lines
               PROVE  Cardinality(RowsOf(m)) <= 1 + faults
    BY DEF DuplicatesOnlyAfterRestart, RowsOf
  <2>1. m \in Messages \ Wakes
    BY GatewayAssumption DEF Messages
  <2>2. Coming(m) \in {0, 1} /\ faults \in Nat /\ Cardinality(RowsOf(m)) \in Nat
    BY <1>2, RowsFinite DEF Coming, Types, TypeOK, HistoryOK
  <2> QED BY <1>2, <2>1, <2>2 DEF OnceOK
<1>3. BatchOK /\ Types /\ [Next]_vars => BatchOK'
  BY BatchStep
<1> QED BY <1>1, <1>2, <1>3, TypesInit, TypesStep, OnceStep, PTL DEF Spec

=============================================================================
