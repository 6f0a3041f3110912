---------------------------- MODULE GatewayProps ----------------------------
(***************************************************************************)
(* The properties of Gateway.                                              *)
(***************************************************************************)
EXTENDS Gateway

\* The labels inside handleInboxItem, and those before the item is marked.
Unmarked == {"begin", "handle", "answered", "completed"}
Handling == Unmarked \cup {"say", "reply"}

FrontOK ==
  /\ arrived \in Updates \cup {0} /\ confirmed \in 0 .. arrived /\ offset \in 0 .. arrived
  /\ batch \in Seq(1 .. arrived)
  /\ client \in [Posts \cup Lines -> {"new", "waiting", "accepted", "refused"}]
MemoryOK ==
  /\ chan \in Seq(Messages \ Wakes) /\ Len(chan) <= Cap
  /\ got \in (Messages \ Wakes) \cup {NoMsg} /\ (At("accept") <=> got # NoMsg)
TableOK ==
  /\ inbox \in Seq(Row)
  /\ open \in [DOMAIN inbox -> Nat] /\ answers \in [DOMAIN inbox -> Nat]
WorkerOK ==
  /\ pc \in {"recover", "resume", "resumed", "boot", "wait", "accept", "next", "drain"} \cup Handling
  /\ IF pc \in {"resume", "resumed"} THEN listed \in [DOMAIN inbox -> Nat] ELSE listed = <<>>
  /\ todo \subseteq DOMAIN inbox
  /\ row \in DOMAIN inbox \cup {0} /\ (row # 0 <=> pc \in Handling \cup {"resumed"})
  /\ direct \in BOOLEAN
HistoryOK ==
  /\ sent \subseteq (DOMAIN inbox) \X Names /\ early \cup cut \subseteq DOMAIN inbox
  /\ spilled \subseteq Messages /\ faults \in Nat

\* Type invariant: every table, buffer and local has its type, the row at hand
\* and the rows listed exist, and the channel keeps to its capacity.
TypeOK == FrontOK /\ MemoryOK /\ TableOK /\ WorkerOK /\ HistoryOK

InInbox(m) == \E i \in DOMAIN inbox : inbox[i].msg = m
InMemory   == Elems(chan) \cup ({got} \ {NoMsg})

\* A message that its sender counts as delivered (an update confirmed to the
\* server, a request answered "accepted") is in memory or in the inbox, or
\* was in memory when the process died or the insert failed: nothing but the
\* channel in memory loses messages.
Trusted == ((1 .. confirmed) \ Foreign) \cup {m \in DOMAIN client : client[m] = "accepted"}
LostOnlyInMemory == \A m \in Trusted : InInbox(m) \/ m \in InMemory \/ m \in spilled

\* A message gets one row in the inbox, and one more for each restart, which
\* makes the poller ask again for what was not confirmed.
DuplicatesOnlyAfterRestart ==
  \A m \in Updates \cup Posts \cup Lines :
    Cardinality({i \in DOMAIN inbox : inbox[i].msg = m}) <= 1 + faults

\* The list of a drain is read once and handled later: every row of it is
\* still pending when its turn comes, so no answered message is answered again.
HandlesPendingOnly ==
  /\ todo \subseteq PendingRows
  /\ pc \in Unmarked => row \in PendingRows \ todo

\* A row is answered once, and at most twice more for each fault: if the process
\* dies with the answer saved and the run open, the run is resumed and answers
\* again, then the row, which the resumed run did not mark, is handled again.
\* Nothing else repeats an answer.
AnsweredAgainAfterFaultsOnly == \A i \in DOMAIN inbox : answers[i] <= 1 + 2 * faults

\* Every return of the loop and every recovery closes its run: but for the run
\* at hand, a fault leaves at most one unfinished run of a row behind.
RunsLeftByFaultsOnly ==
  \A i \in DOMAIN inbox :
    open[i] <= faults + IF row = i /\ pc \in {"handle", "answered"} THEN 1 ELSE 0

\* The reply is sent after the row is marked: a marked row has its answer on
\* the console, and, if a drain handled it, on the channel it came by, unless
\* a crash or a failing Send came between.
Marked == {i \in DOMAIN inbox : inbox[i].state = "delivered"}
RepliesLostByFaultsOnly ==
  \A i \in Marked \ (cut \cup {row}) :
    /\ Console => <<i, "cli">> \in sent
    /\ i \notin early /\ NameOf(inbox[i].msg) \in Channels => <<i, NameOf(inbox[i].msg)>> \in sent

\* A pending message is answered in the end, whatever fails in between and
\* although rows that are never answered stay before it, if those are fewer than
\* the rows a drain lists.
Waits(m) == \E i \in PendingRows : inbox[i].msg = m
MessagesAnswered == \A m \in Messages \ (Poison \cup Foreign) : Waits(m) ~> ~Waits(m)

\* An update that reaches the server gets into the inbox, unless it was in the
\* memory of a process that died, or its insert failed.
UpdatesGetIn ==
  \A u \in Updates \ Foreign : (arrived >= u) ~> (InInbox(u) \/ u \in spilled)

-----------------------------------------------------------------------------
(* What the documents say and the code does not do. *)

\* The Telegram channel "sends replies via sendMessage" (telegram.go:17).
TelegramGetsReplies ==
  \A i \in DOMAIN inbox :
    inbox[i].msg \in Updates /\ inbox[i].state = "delivered" /\ row # i
      => <<i, "telegram">> \in sent
=============================================================================
