------------------------------ MODULE Gateway ------------------------------
(***************************************************************************)
(* The gateway process (internal/app/gateway.go): messages come in over    *)
(* Telegram, the webhook and the console, wait in a channel in memory, are *)
(* put into the inbox table and handled one at a time by one goroutine,    *)
(* which also drains what the scheduler and earlier attempts left pending. *)
(*                                                                         *)
(* Of the run that handles an item only the writes are steps that a crash  *)
(* may come between: the run is opened, its answer saved, the run closed,  *)
(* the item marked, the answer sent (module AgentLoop has the rest).  A    *)
(* run left open is resumed at the next start, which knows nothing of the  *)
(* item.  The Telegram server and the clients are modelled from how the    *)
(* channels use them.                                                      *)
(*                                                                         *)
(* An operator with an underscore in its name is a variant with a fault:   *)
(* no action uses it; it is there to see that a property notices it.       *)
(***************************************************************************)
EXTENDS Integers, Sequences, FiniteSets

CONSTANTS
  LastUpdate,   \* Telegram updates are numbered 1 .. LastUpdate, in order
  Foreign,      \* the updates that are not from an allowed sender, or empty
  Posts, Lines, \* webhook requests and console lines
  Wakes,        \* the tasks the scheduler wakes the agent for
  Poison,       \* messages whose handling never reaches an answer
  Console,      \* whether the console channel runs
  Cap,          \* capacity of the channel in memory
  DrainLimit,   \* the LIMIT of a drain
  MaxRows,      \* bound: rows of the inbox for a wake to come
  MaxFaults,    \* bound: crashes, failed inserts, failed attempts
  NoMsg

Updates  == 1 .. LastUpdate
Messages == Updates \cup Posts \cup Lines \cup Wakes
Names    == {"telegram", "webhook", "cli", "scheduler"}
NameOf(m) == CASE m \in Updates -> "telegram" [] m \in Posts -> "webhook"
               [] m \in Lines -> "cli" [] OTHER -> "scheduler"
Channels == {"telegram", "webhook"} \cup (IF Console THEN {"cli"} ELSE {})

ASSUME GatewayAssumption ==
  /\ LastUpdate \in Nat
  /\ Wakes \cap (Updates \cup Posts \cup Lines) = {} /\ Updates \cap (Posts \cup Lines) = {}
  /\ Foreign \subseteq Updates /\ Poison \subseteq Messages
  /\ NoMsg \notin Messages /\ Console \in BOOLEAN
  /\ Cap \in Nat \ {0} /\ DrainLimit \in Nat \ {0}
  /\ MaxRows \in Nat /\ MaxFaults \in Nat

VARIABLES
  arrived,     \* updates 1 .. arrived reached the Telegram server
  confirmed,   \* the server keeps the updates after this one for getUpdates
  offset,      \* the last update the poller has taken, in memory
  batch,       \* updates received and still to be pushed
  client,      \* state of each webhook request and console line
  chan,        \* the channel in memory
  inbox,       \* the rows of the inbox table, in order of arrival
  open,        \* open[i]: unfinished runs in the table that handle row i
  pc,          \* the gateway goroutine
  listed,      \* listed[i]: the unfinished runs of row i still to be resumed
  got,         \* the message it received
  todo,        \* the rows it listed and has still to handle, oldest first
  row,         \* the row it handles, or whose run it resumes, or 0
  direct,      \* whether it handles it on arrival
  (* history, read by properties only *)
  answers,     \* answers[i]: the answers saved for row i, by any run
  sent,        \* pairs <<i, c>>: channel c got an answer for row i
  early,       \* the rows marked when they were handled on arrival
  cut,         \* the rows whose reply a crash or a failing Send cut off
  spilled,     \* messages in memory when the process died, or not inserted
  faults

front  == <<arrived, confirmed, offset, batch, client>>
table  == <<inbox, open>>
worker == <<pc, listed, got, todo, row, direct>>
hist   == <<answers, sent, early, cut, spilled, faults>>
vars   == <<front, chan, table, worker, hist>>

Row == [msg : Messages, state : {"pending", "delivered"}]
PendingRows == {i \in DOMAIN inbox : inbox[i].state = "pending"}
Elems(s) == {s[i] : i \in DOMAIN s}
HasRoom  == Len(chan) < Cap
Push(m)  == chan' = Append(chan, m)

-----------------------------------------------------------------------------
(* The channels *)

At(label) == pc = label

\* Recovery comes before the channels and the scheduler are started.
Started == pc \notin {"recover", "resume", "resumed"}

SendUpdate ==
  /\ arrived + 1 \in Updates
  /\ arrived' = arrived + 1
  /\ UNCHANGED <<confirmed, offset, batch, client, chan, table, worker, hist>>

\* getUpdates: asking from offset + 1 on confirms what comes before.
Poll_eager ==
  /\ Started /\ batch = <<>> /\ confirmed < arrived
  /\ confirmed' = arrived
  /\ batch' = [k \in 1 .. arrived - confirmed |-> confirmed + k]
  /\ UNCHANGED <<arrived, offset, client, chan, table, worker, hist>>

\* A poll that neither confirms nor brings anything, or fails, is left out.
Poll ==
  LET from == IF offset > confirmed THEN offset ELSE confirmed IN
  /\ Started /\ batch = <<>> /\ confirmed < arrived
  /\ confirmed' = from
  /\ batch' = [k \in 1 .. arrived - from |-> from + k]
  /\ UNCHANGED <<arrived, offset, client, chan, table, worker, hist>>

Taken_none == UNCHANGED offset
Taken      == offset' = Head(batch)

PushUpdate_drop ==
  /\ batch # <<>> /\ Head(batch) \notin Foreign
  /\ Taken
  /\ IF HasRoom THEN Push(Head(batch)) ELSE UNCHANGED chan
  /\ batch' = Tail(batch)
  /\ UNCHANGED <<arrived, confirmed, client, table, worker, hist>>

PushUpdate ==
  /\ batch # <<>> /\ Head(batch) \notin Foreign /\ HasRoom
  /\ Push(Head(batch)) /\ Taken
  /\ batch' = Tail(batch)
  /\ UNCHANGED <<arrived, confirmed, client, table, worker, hist>>

SkipUpdate ==
  /\ batch # <<>> /\ Head(batch) \in Foreign
  /\ Taken
  /\ batch' = Tail(batch)
  /\ UNCHANGED <<arrived, confirmed, client, chan, table, worker, hist>>

Client(m, from, to) ==
  /\ client[m] = from
  /\ client' = [client EXCEPT ![m] = to]
  /\ UNCHANGED <<arrived, confirmed, offset, batch, table, worker, hist>>

Submit(m)    == Started /\ Client(m, "new", "waiting") /\ UNCHANGED chan
Accept(m)    == Client(m, "waiting", "accepted") /\ HasRoom /\ Push(m)
\* The webhook answers 503 after five seconds, or the client hangs up.
RefusePost(m) == m \in Posts /\ Client(m, "waiting", "refused") /\ UNCHANGED chan

-----------------------------------------------------------------------------
(* The inbox *)

Insert(m) ==
  /\ inbox' = Append(inbox, [msg |-> m, state |-> "pending"])
  /\ open' = Append(open, 0)
  /\ answers' = Append(answers, 0)

\* The scheduler wakes the agent for a task that has no pending wake.
EnqueueWake(k) ==
  /\ Started /\ Len(inbox) < MaxRows
  /\ \A i \in PendingRows : inbox[i].msg # k
  /\ Insert(k)
  /\ UNCHANGED <<front, chan, worker, sent, early, cut, spilled, faults>>

\* ListPendingAny: the oldest pending rows, at most DrainLimit.
Oldest_all(n) == {i \in DOMAIN inbox : i <= n}
Oldest(n) == {i \in PendingRows : Cardinality({j \in PendingRows : j < i}) < n}

MarkDelivered(i) == inbox' = [inbox EXCEPT ![i].state = "delivered"]

-----------------------------------------------------------------------------
(* Recovery: the unfinished runs of the table, one after the other.  No      *)
(* channel is set yet, so nobody is sent what a resumed run answers; and     *)
(* none of them marks the item it was started for.                           *)

CloseRun(i) == open' = [open EXCEPT ![i] = @ - 1]
Fault == faults < MaxFaults /\ faults' = faults + 1

ListIncomplete ==
  /\ At("recover")
  /\ listed' = open /\ pc' = "resume"
  /\ UNCHANGED <<front, chan, table, got, todo, row, direct, hist>>

\* The list cannot be read: the gateway goes on without it.
SkipRecovery ==
  /\ At("recover") /\ Fault
  /\ pc' = "boot"
  /\ UNCHANGED <<front, chan, table, listed, got, todo, row, direct, answers, sent, early, cut, spilled>>

TakeListed(i) ==
  /\ At("resume") /\ i \in DOMAIN listed /\ listed[i] > 0
  /\ listed' = [listed EXCEPT ![i] = @ - 1]

\* Nothing to resume, or the resumed run fails or stops at a limit.
CloseInterrupted(i) ==
  /\ TakeListed(i)
  /\ CloseRun(i)
  /\ UNCHANGED <<front, chan, inbox, pc, got, todo, row, direct, hist>>

ResumeAnswers(i) ==
  /\ TakeListed(i) /\ inbox[i].msg \notin Poison
  /\ answers' = [answers EXCEPT ![i] = @ + 1]
  /\ pc' = "resumed" /\ row' = i
  /\ UNCHANGED <<front, chan, table, got, todo, direct, sent, early, cut, spilled, faults>>

CompleteResumed ==
  /\ At("resumed")
  /\ CloseRun(row)
  /\ pc' = "resume" /\ row' = 0
  /\ UNCHANGED <<front, chan, inbox, listed, got, todo, direct, hist>>

EndRecovery ==
  /\ At("resume") /\ \A i \in DOMAIN listed : listed[i] = 0
  /\ pc' = "boot" /\ listed' = <<>>
  /\ UNCHANGED <<front, chan, table, got, todo, row, direct, hist>>

-----------------------------------------------------------------------------
(* The gateway goroutine *)

\* The select of the main loop takes a message ...
Receive ==
  /\ At("wait") /\ chan # <<>>
  /\ pc' = "accept" /\ got' = Head(chan) /\ chan' = Tail(chan)
  /\ UNCHANGED <<front, table, listed, todo, row, direct, hist>>

\* ... or the two seconds are over; "boot" and "drain" drain in any case.
\* A drain that finds nothing goes back to the select.
ListPending ==
  /\ pc \in {"boot", "wait", "drain"}
  /\ todo' = Oldest(DrainLimit)
  /\ pc' = "next"
  /\ UNCHANGED <<front, chan, table, listed, got, row, direct, hist>>

\* acceptInbound: IsBusy is false, for this goroutine is the only one to call
\* Handle.  The new row is handled at once, before older pending ones.
AcceptInbound ==
  /\ At("accept")
  /\ Insert(got)
  /\ pc' = "begin" /\ row' = Len(inbox) + 1 /\ direct' = TRUE /\ got' = NoMsg
  /\ UNCHANGED <<front, chan, listed, todo, sent, early, cut, spilled, faults>>

NextItem ==
  \E i \in todo :
    /\ At("next") /\ \A j \in todo : i <= j
    /\ pc' = "begin" /\ row' = i /\ todo' = todo \ {i} /\ direct' = FALSE
    /\ UNCHANGED <<front, chan, table, listed, got, hist>>

EndDrain ==
  /\ At("next") /\ todo = {}
  /\ pc' = "wait"
  /\ UNCHANGED <<front, chan, table, listed, got, todo, row, direct, hist>>

-----------------------------------------------------------------------------
(* handleInboxItem *)

\* Handle saves its new run.
BeginRun ==
  /\ At("begin")
  /\ open' = [open EXCEPT ![row] = @ + 1]
  /\ pc' = "handle"
  /\ UNCHANGED <<front, chan, inbox, listed, got, todo, row, direct, hist>>

SaveAnswer ==
  /\ At("handle") /\ inbox[row].msg \notin Poison
  /\ answers' = [answers EXCEPT ![row] = @ + 1]
  /\ pc' = "answered"
  /\ UNCHANGED <<front, chan, table, listed, got, todo, row, direct, sent, early, cut, spilled, faults>>

CompleteRun ==
  /\ At("answered")
  /\ CloseRun(row)
  /\ pc' = "completed"
  /\ UNCHANGED <<front, chan, inbox, listed, got, todo, row, direct, hist>>

MarkItem_skip ==
  /\ At("completed")
  /\ pc' = "say"
  /\ UNCHANGED <<front, chan, table, listed, got, todo, row, direct, hist>>

MarkItem ==
  /\ At("completed")
  /\ MarkDelivered(row)
  /\ early' = IF direct THEN early \cup {row} ELSE early
  /\ pc' = "say"
  /\ UNCHANGED <<front, chan, open, listed, got, todo, row, direct, answers, sent, cut, spilled, faults>>

\* The notice that a run stopped at a limit is not an answer.
Send(names) == sent' = IF row \in PendingRows THEN sent ELSE sent \cup ({row} \X names)

\* The loop writes the answer to the console, if there is one.
SayOnConsole ==
  /\ At("say")
  /\ Send(Channels \cap {"cli"})
  /\ pc' = "reply"
  /\ UNCHANGED <<front, chan, table, listed, got, todo, row, direct, answers, early, cut, spilled, faults>>

Finish_stale == pc' = (IF direct THEN "drain" ELSE "next") /\ row' = row /\ direct' = FALSE
Finish_abort == pc' = "wait" /\ row' = 0 /\ direct' = FALSE
Finish ==
  /\ pc' = IF direct THEN "drain" ELSE "next"
  /\ row' = 0 /\ direct' = FALSE

\* The limits of a run and its errors leave the row pending.  Only a limit
\* gives something to send.
Spoils == IF inbox[row].msg \in Poison THEN UNCHANGED faults ELSE Fault

HandleStops ==
  /\ At("handle") /\ Spoils
  /\ CloseRun(row)
  /\ pc' = "reply"
  /\ UNCHANGED <<front, chan, inbox, listed, got, todo, row, direct, answers, sent, early, cut, spilled>>

HandleFails_open ==
  /\ At("handle") /\ Spoils
  /\ Finish
  /\ UNCHANGED <<front, chan, table, listed, got, todo, answers, sent, early, cut, spilled>>

HandleFails ==
  /\ At("handle") /\ Spoils
  /\ CloseRun(row)
  /\ Finish
  /\ UNCHANGED <<front, chan, inbox, listed, got, todo, answers, sent, early, cut, spilled>>

\* The reply goes to the channel of the message if the call knows the
\* channels, which only a drain does, and otherwise to the console.
ReplyTo_first == Channels \cap {"cli"}
ReplyTo ==
  LET name == NameOf(inbox[row].msg) IN
  IF ~direct /\ name \in Channels THEN {name} ELSE Channels \cap {"cli"}
Reply ==
  /\ At("reply")
  /\ Send(ReplyTo)
  /\ Finish
  /\ UNCHANGED <<front, chan, table, listed, got, todo, answers, early, cut, spilled, faults>>

Cut == cut' = IF pc \in {"say", "reply"} THEN cut \cup {row} ELSE cut

\* A failing Send is ignored.
SendFails ==
  /\ pc \in {"say", "reply"} /\ Fault
  /\ Cut
  /\ IF At("say") THEN pc' = "reply" /\ UNCHANGED <<row, direct>> ELSE Finish
  /\ UNCHANGED <<front, chan, table, listed, got, todo, answers, sent, early, spilled>>

\* A SaveRun that closes a run, or the MarkDelivered, fails: its error is
\* ignored, the row stays as it was, and the goroutine goes on.
WriteLost ==
  /\ Fault
  /\ \/ At("answered") /\ pc' = "completed" /\ UNCHANGED row
     \/ At("completed") /\ pc' = "say" /\ UNCHANGED row
     \/ At("resumed") /\ pc' = "resume" /\ row' = 0
  /\ UNCHANGED <<front, chan, table, listed, got, todo, direct, answers, sent, early, cut, spilled>>

\* The insert fails: the message is dropped.
InsertFails ==
  /\ At("accept") /\ Fault
  /\ spilled' = spilled \cup {got}
  /\ pc' = "drain" /\ got' = NoMsg
  /\ UNCHANGED <<front, chan, table, listed, todo, row, direct, answers, sent, early, cut>>

\* The process dies, with all it has in memory; a new one is started.
Crash ==
  /\ Fault /\ Cut
  /\ spilled' = spilled \cup Elems(chan) \cup ({got} \ {NoMsg})
  /\ offset' = 0 /\ batch' = <<>> /\ chan' = <<>>
  /\ client' = [m \in DOMAIN client |-> IF client[m] = "waiting" THEN "refused" ELSE client[m]]
  /\ pc' = "recover" /\ listed' = <<>>
  /\ got' = NoMsg /\ todo' = {} /\ row' = 0 /\ direct' = FALSE
  /\ UNCHANGED <<arrived, confirmed, table, answers, sent, early>>

-----------------------------------------------------------------------------

Init ==
  /\ arrived = 0 /\ confirmed = 0 /\ offset = 0 /\ batch = <<>>
  /\ client = [m \in Posts \cup Lines |-> "new"]
  /\ chan = <<>> /\ inbox = <<>> /\ open = <<>>
  /\ pc = "recover" /\ listed = <<>> /\ got = NoMsg /\ todo = {} /\ row = 0 /\ direct = FALSE
  /\ answers = <<>> /\ sent = {} /\ early = {} /\ cut = {} /\ spilled = {} /\ faults = 0

Recover ==
  \/ \E i \in DOMAIN open : CloseInterrupted(i) \/ ResumeAnswers(i)
  \/ ListIncomplete \/ CompleteResumed \/ EndRecovery

Handle ==
  \/ BeginRun \/ SaveAnswer \/ CompleteRun \/ MarkItem \/ SayOnConsole
  \/ HandleStops \/ HandleFails \/ Reply

Step == Recover \/ Receive \/ ListPending \/ AcceptInbound \/ NextItem \/ EndDrain \/ Handle

Poller == Poll \/ PushUpdate \/ SkipUpdate

Next ==
  \/ Step \/ SkipRecovery \/ WriteLost \/ SendFails \/ InsertFails \/ Crash
  \/ Poller \/ SendUpdate
  \/ \E m \in Posts \cup Lines : Submit(m) \/ Accept(m) \/ RefusePost(m)
  \/ \E k \in Wakes : EnqueueWake(k)

Spec == Init /\ [][Next]_vars

\* The goroutine goes on, and neither its select nor the senders blocked on
\* the channel, which Go serves in order, are passed over for ever.
FairSpec ==
  /\ Spec
  /\ WF_vars(Step) /\ SF_vars(Receive) /\ SF_vars(Poller)
  /\ \A m \in Posts \cup Lines : SF_vars(Accept(m))
=============================================================================
