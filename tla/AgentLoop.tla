----------------------------- MODULE AgentLoop -----------------------------
(***************************************************************************)
(* The durable agent loop (internal/core/loop.go, internal/core/compact.go)*)
(* over the message, run and inbox tables of the store.                    *)
(*                                                                         *)
(* A worker is a goroutine that calls Loop.Handle.  A process is an OS     *)
(* process (the gateway, a "byzclaw run") with its own Loop value, hence   *)
(* its own in-memory set of active sessions; all processes share one       *)
(* SQLite database.  A step is one write to the database or one call to    *)
(* the model or to a tool: a process can crash between any two steps, and  *)
(* recovers at its next start with RecoverIncomplete.                      *)
(*                                                                         *)
(* Contents are abstracted: what a message says is dropped, what it asks   *)
(* (how many tool calls) and what it answers (which call) is kept.         *)
(* Writes whose error the code ignores are taken to succeed; every error   *)
(* that the code does look at is action Fail.                              *)
(***************************************************************************)
EXTENDS Naturals, Sequences, FiniteSets

CONSTANTS
  Procs, Workers, ProcOf,   \* worker w is a goroutine of process ProcOf[w]
  Sessions, RunIds,
  Items, SessionOfItem,     \* inbox items and the session each belongs to
  ErrKinds,                 \* the distinct errors an executed tool returns
  MaxToolIterations, RepeatLimit,
  MaxCalls,                 \* bound: tool calls in one model answer
  Compacting, CompactTail,  \* is compaction enabled; CompactTailMessages
  ListLimit,                \* the LIMIT of ListMessages
  MaxCrashes,               \* bound: crashes in one behaviour
  MayFail,                  \* may the store, a hook or the model return an error
  NoRun, NoItem

ASSUME ConstantsAssumption ==
  /\ Sessions # {}
  /\ ProcOf \in [Workers -> Procs]
  /\ SessionOfItem \in [Items -> Sessions]
  /\ MaxToolIterations \in Nat /\ RepeatLimit \in Nat
  /\ MaxCalls \in Nat /\ CompactTail \in Nat /\ MaxCrashes \in Nat
  /\ ListLimit \in Nat \ {0}
  /\ Compacting \in BOOLEAN
  /\ Compacting => \A w, x \in Workers : ProcOf[w] = ProcOf[x]
  /\ MayFail \in BOOLEAN
  /\ NoRun \notin RunIds /\ NoItem \notin Items

VARIABLES
  (* the database *)
  msgs,          \* msgs[s]: the messages of session s in created_at order
  status, riter, \* status[r], riter[r]: status and iteration of run r
  sess,          \* sess[r]: the session of run r
  deliveredBy,   \* deliveredBy[i]: delivered_run_id of item i, NoRun if pending
  (* the processes *)
  phase,         \* phase[p]: "down", "recovering" or "up"
  queue,         \* queue[p]: rows of ListIncompleteRuns still to be resumed
  active,        \* active[p]: Loop.active
  (* the workers *)
  pc, cur,       \* where worker w is, and the run it works on
  item,          \* Loop.InboxItemID
  iter,          \* run.Iteration of the worker's own copy of the run
  req, todo,     \* the tool-call message being served, its calls left
  resumed,       \* resumeOne, not continueRun, started the batch being served
  res,           \* outcome of the call just made, not yet persisted
  errs,          \* errCounts
  view,          \* the messages listed for the next prompt
  (* history, read by properties only *)
  rounds,        \* rounds[r]: tool-call messages saved by run r
  answered,      \* runs whose final answer was saved
  executed,      \* calls a tool has executed
  reexecs,       \* executions of a call that had been executed before
  crashes

tables == <<status, riter, sess, deliveredBy>>
db     == <<msgs, tables>>
procs  == <<phase, queue, active>>
mine   == <<cur, item, iter>>
batch  == <<req, todo, resumed, res, errs>>
local  == <<pc, mine, batch, view>>
hist   == <<rounds, answered, executed, reexecs, crashes>>
vars   == <<db, procs, local, hist>>

-----------------------------------------------------------------------------
(* Data *)

\* Operators with an underscore in their name are faults a change of the code could
\* bring in; no action uses them.  Each is put in the place of the definition
\* after it to see that the properties notice.

Incomplete_withFailed == {"accepted", "model", "tool_pending", "tool_done", "failed"}
Incomplete == {"accepted", "model", "tool_pending", "tool_done"}
Terminal   == {"completed", "failed"}

\* A message: a user message, an assistant message asking for n tool calls
\* (n = 0: the final answer), the result of call n, or a compaction summary.
\* run, round and n together stand for its id.
Message == [kind : {"user", "assistant", "tool", "summary"},
            run : RunIds, round : Nat, n : Nat]

User(r)          == [kind |-> "user", run |-> r, round |-> 0, n |-> 0]
Assistant(r, n)  == [kind |-> "assistant", run |-> r, round |-> rounds[r] + 1, n |-> n]
Result(q, c)     == [kind |-> "tool", run |-> q.run, round |-> q.round, n |-> c]
Summary(r)       == [kind |-> "summary", run |-> r, round |-> rounds[r] + 1, n |-> crashes]

NoRequest == [kind |-> "none"]
IsRequest(m) == m.kind = "assistant" /\ m.n > 0
Call(q, c)   == <<q.run, q.round, c>>
Calls(q)     == 1 .. q.n

\* The errors execToolCalls counts: those of the tools, and "unknown tool".
ErrKeys == ErrKinds \cup {"unknown"}
NoErrs  == [k \in ErrKeys |-> 0]

ListMessages_short(s) ==
  SubSeq(msgs[s], 1, IF Len(msgs[s]) < ListLimit THEN Len(msgs[s]) ELSE ListLimit - 1)

\* The oldest rows, up to the limit.
ListMessages(s) ==
  SubSeq(msgs[s], 1, IF Len(msgs[s]) <= ListLimit THEN Len(msgs[s]) ELSE ListLimit)

\* missingToolCalls looks at the last tool-call message of the whole list.
RequestsIn(v) == {k \in DOMAIN v : IsRequest(v[k])}
IsLastRequest_anyMessage(v, k) == k \in DOMAIN v /\ \A j \in DOMAIN v : j <= k
IsLastRequest(v, k) == k \in RequestsIn(v) /\ \A j \in RequestsIn(v) : j <= k
MissingAfter_all(v, k) == Calls(v[k])
MissingAfter_anyResult(v, k) ==
  {c \in Calls(v[k]) : \A j \in DOMAIN v : j > k => v[j].kind # "tool"}
MissingAfter(v, k) ==
  {c \in Calls(v[k]) :
     \A j \in DOMAIN v : j > k => ~(v[j].kind = "tool" /\ Call(v[j], v[j].n) = Call(v[k], c))}

\* The least element is the next call of the batch.
NextCall(w, c) == c \in todo[w] /\ \A d \in todo[w] : c <= d

-----------------------------------------------------------------------------
(* Pieces of steps *)

At(w, label) == pc[w] = label
Goto(w, label) == pc' = [pc EXCEPT ![w] = label]

SaveRun(r, st, it) ==
  /\ status' = [status EXCEPT ![r] = st]
  /\ riter' = [riter EXCEPT ![r] = it]

SaveMessage(s, m) == msgs' = [msgs EXCEPT ![s] = Append(@, m)]

\* Handle and resumeOne leave the session when they return.
Leave(w) ==
  /\ active' = [active EXCEPT ![ProcOf[w]] = @ \ {sess[cur[w]]}]
  /\ UNCHANGED <<phase, queue>>
  /\ pc' = [pc EXCEPT ![w] = "idle"]
  /\ cur' = [cur EXCEPT ![w] = NoRun]
  /\ item' = [item EXCEPT ![w] = NoItem]
  /\ iter' = [iter EXCEPT ![w] = 0]
  /\ req' = [req EXCEPT ![w] = NoRequest]
  /\ todo' = [todo EXCEPT ![w] = {}]
  /\ resumed' = [resumed EXCEPT ![w] = FALSE]
  /\ res' = [res EXCEPT ![w] = "ok"]
  /\ errs' = [errs EXCEPT ![w] = NoErrs]
  /\ view' = [view EXCEPT ![w] = <<>>]

IsBusy_never(p, s) == FALSE
IsBusy(p, s) == s \in active[p]

AllIdle(p) == \A w \in Workers : ProcOf[w] = p => At(w, "idle")

-----------------------------------------------------------------------------
(* Handle *)

\* Handle enters the session, unless it is active, and saves the new run.
Accept(w, r, s, i) ==
  LET p == ProcOf[w] IN
  /\ phase[p] = "up" /\ At(w, "idle")
  /\ ~IsBusy(p, s)
  /\ status[r] = "none"
  /\ i # NoItem => deliveredBy[i] = NoRun /\ SessionOfItem[i] = s
  /\ active' = [active EXCEPT ![p] = @ \cup {s}]
  /\ SaveRun(r, "accepted", 0)
  /\ sess' = [sess EXCEPT ![r] = s]
  /\ cur' = [cur EXCEPT ![w] = r]
  /\ item' = [item EXCEPT ![w] = i]
  /\ Goto(w, "accepted")
  /\ UNCHANGED <<msgs, deliveredBy, phase, queue, iter, batch, view, hist>>

SaveUserMessage(w) ==
  /\ At(w, "accepted")
  /\ SaveMessage(sess[cur[w]], User(cur[w]))
  /\ Goto(w, "loop")
  /\ UNCHANGED <<tables, procs, mine, batch, view, hist>>

-----------------------------------------------------------------------------
(* continueRun *)

StopAtLimit_unsaved(w) ==
  /\ At(w, "loop")
  /\ iter[w] >= MaxToolIterations
  /\ Leave(w)
  /\ UNCHANGED <<db, hist>>

\* The iteration limit closes the run; the inbox item, if any, stays pending.
StopAtLimit(w) ==
  /\ At(w, "loop")
  /\ iter[w] >= MaxToolIterations
  /\ SaveRun(cur[w], "failed", iter[w])
  /\ Leave(w)
  /\ UNCHANGED <<msgs, sess, deliveredBy, hist>>

BuildPrompt_oneMore(w) ==
  /\ At(w, "loop")
  /\ iter[w] <= MaxToolIterations
  /\ view' = [view EXCEPT ![w] = ListMessages(sess[cur[w]])]
  /\ Goto(w, "prompt")
  /\ UNCHANGED <<db, procs, mine, batch, hist>>

BuildPrompt(w) ==
  /\ At(w, "loop")
  /\ iter[w] < MaxToolIterations
  /\ view' = [view EXCEPT ![w] = ListMessages(sess[cur[w]])]
  /\ Goto(w, "prompt")
  /\ UNCHANGED <<db, procs, mine, batch, hist>>

\* CompactIfNeeded: whether the listed text is over the token threshold is
\* left open, and so is whether the summarising call succeeds.
KeptTail == IF CompactTail < 2 THEN 2 ELSE CompactTail
HeadLen_short(v) == Len(v) - KeptTail - 1
HeadLen(v) == Len(v) - KeptTail

SaveSummary(w) ==
  /\ At(w, "prompt")
  /\ Compacting
  /\ Len(view[w]) >= CompactTail + 4 /\ Len(view[w]) > KeptTail
  /\ SaveMessage(sess[cur[w]], Summary(cur[w]))
  /\ Goto(w, "drop")
  /\ UNCHANGED <<tables, procs, mine, batch, view, hist>>

DropCompacted_noSummary(w) ==
  LET v == view[w] IN
  /\ At(w, "drop")
  /\ msgs' = [msgs EXCEPT ![sess[cur[w]]] = SubSeq(@, HeadLen(v) + 1, Len(@))]
  /\ view' = [view EXCEPT ![w] = SubSeq(v, HeadLen(v) + 1, Len(v))]
  /\ Goto(w, "ready")
  /\ UNCHANGED <<tables, procs, mine, batch, hist>>

\* The rows deleted are those of the head of the list, which are the first
\* rows of the session: with one process nobody else writes to the session.
\* In the table the summary comes after the kept tail, in the prompt before.
DropCompacted(w) ==
  LET v == view[w] IN
  /\ At(w, "drop")
  /\ msgs' = [msgs EXCEPT ![sess[cur[w]]] = SubSeq(@, HeadLen(v) + 1, Len(@))]
  /\ view' = [view EXCEPT ![w] = <<Summary(cur[w])>> \o SubSeq(v, HeadLen(v) + 1, Len(v))]
  /\ Goto(w, "ready")
  /\ UNCHANGED <<tables, procs, mine, batch, hist>>

\* The delete is one transaction.  When it fails the prompt is the compacted one
\* all the same, and the session holds its old rows and the summary.
DeleteFails(w) ==
  LET v == view[w] IN
  /\ MayFail
  /\ At(w, "drop")
  /\ view' = [view EXCEPT ![w] = <<Summary(cur[w])>> \o SubSeq(v, HeadLen(v) + 1, Len(v))]
  /\ Goto(w, "ready")
  /\ UNCHANGED <<db, procs, mine, batch, hist>>

AskModel(w) ==
  /\ At(w, "prompt") \/ At(w, "ready")
  /\ SaveRun(cur[w], "model", iter[w])
  /\ Goto(w, "model")
  /\ UNCHANGED <<msgs, sess, deliveredBy, procs, mine, batch, view, hist>>

\* The model answers without tool calls.
SaveAnswer(w) ==
  /\ At(w, "model")
  /\ SaveMessage(sess[cur[w]], Assistant(cur[w], 0))
  /\ answered' = answered \cup {cur[w]}
  /\ view' = [view EXCEPT ![w] = <<>>]
  /\ Goto(w, "answered")
  /\ UNCHANGED <<tables, procs, mine, batch, rounds, executed, reexecs, crashes>>

\* The model asks for n tool calls.
SaveToolCalls(w, n) ==
  /\ At(w, "model")
  /\ SaveMessage(sess[cur[w]], Assistant(cur[w], n))
  /\ req' = [req EXCEPT ![w] = Assistant(cur[w], n)]
  /\ rounds' = [rounds EXCEPT ![cur[w]] = @ + 1]
  /\ view' = [view EXCEPT ![w] = <<>>]
  /\ Goto(w, "called")
  /\ UNCHANGED <<tables, procs, mine, todo, resumed, res, errs, answered, executed, reexecs, crashes>>

CompleteRun(w) ==
  /\ At(w, "answered")
  /\ SaveRun(cur[w], "completed", iter[w])
  /\ Goto(w, "completed")
  /\ UNCHANGED <<msgs, sess, deliveredBy, procs, mine, batch, view, hist>>

MarkDelivered_early(w) ==
  /\ At(w, "answered")
  /\ deliveredBy' = [i \in Items |-> IF i = item[w] THEN cur[w] ELSE deliveredBy[i]]
  /\ Leave(w)
  /\ UNCHANGED <<msgs, status, riter, sess, hist>>

\* MarkDelivered touches the item only while it is pending.
MarkDelivered(w) ==
  /\ At(w, "completed")
  /\ deliveredBy' = [i \in Items |-> IF i = item[w] /\ deliveredBy[i] = NoRun
                                     THEN cur[w] ELSE deliveredBy[i]]
  /\ Leave(w)
  /\ UNCHANGED <<msgs, status, riter, sess, hist>>

BeginTools(w) ==
  /\ At(w, "called")
  /\ SaveRun(cur[w], "tool_pending", iter[w])
  /\ todo' = [todo EXCEPT ![w] = Calls(req[w])]
  /\ Goto(w, "tool")
  /\ UNCHANGED <<msgs, sess, deliveredBy, procs, mine, req, resumed, res, errs, view, hist>>

FinishTools(w) ==
  /\ At(w, "tool") /\ todo[w] = {}
  /\ SaveRun(cur[w], "tool_done", iter[w] + 1)
  /\ iter' = [iter EXCEPT ![w] = @ + 1]
  /\ req' = [req EXCEPT ![w] = NoRequest]
  \* resumeOne goes on with fresh counts, continueRun keeps its own
  /\ errs' = IF resumed[w] THEN [errs EXCEPT ![w] = NoErrs] ELSE errs
  /\ resumed' = [resumed EXCEPT ![w] = FALSE]
  /\ Goto(w, "loop")
  /\ UNCHANGED <<msgs, sess, deliveredBy, procs, cur, item, todo, res, view, hist>>

-----------------------------------------------------------------------------
(* execToolCalls *)

\* The tool runs, to success or to one of its errors.
ExecTool(w, c, outcome) ==
  /\ At(w, "tool") /\ NextCall(w, c)
  /\ outcome \in {"ok"} \cup ErrKinds
  /\ res' = [res EXCEPT ![w] = outcome]
  /\ executed' = executed \cup {Call(req[w], c)}
  /\ reexecs' = IF Call(req[w], c) \in executed THEN reexecs + 1 ELSE reexecs
  /\ Goto(w, "result")
  /\ UNCHANGED <<db, procs, mine, req, todo, resumed, errs, view, rounds, answered, crashes>>

\* The policy denies the call, or no tool has that name: nothing runs.
RefuseCall(w, outcome) ==
  /\ At(w, "tool") /\ todo[w] # {}
  /\ outcome \in {"denied", "unknown"}
  /\ res' = [res EXCEPT ![w] = outcome]
  /\ Goto(w, "result")
  /\ UNCHANGED <<db, procs, mine, req, todo, resumed, errs, view, hist>>

\* The result is saved; the third equal error ends the run (a denial is not
\* counted).
PersistResult(w, c) ==
  /\ At(w, "result") /\ NextCall(w, c)
  /\ SaveMessage(sess[cur[w]], Result(req[w], c))
  /\ todo' = [todo EXCEPT ![w] = @ \ {c}]
  /\ errs' = IF res[w] \in ErrKeys THEN [errs EXCEPT ![w][res[w]] = @ + 1] ELSE errs
  /\ Goto(w, IF res[w] \in ErrKeys /\ errs[w][res[w]] + 1 >= RepeatLimit
             THEN "stop" ELSE "tool")
  /\ res' = [res EXCEPT ![w] = "ok"]
  /\ UNCHANGED <<tables, procs, mine, req, resumed, view, hist>>

StopRepeated(w) ==
  /\ At(w, "stop")
  /\ SaveRun(cur[w], "failed", iter[w])
  /\ Leave(w)
  /\ UNCHANGED <<msgs, sess, deliveredBy, hist>>

\* fail: a hook, the model or the store reported an error.  (When it happens
\* during recovery RecoverIncomplete saves the run as failed once more.)
Failing == {"accepted", "loop", "prompt", "ready", "model", "tool", "result"}

Fail(w) ==
  /\ MayFail
  /\ pc[w] \in Failing
  /\ At(w, "loop") => iter[w] < MaxToolIterations
  /\ At(w, "tool") => todo[w] # {}
  /\ SaveRun(cur[w], "failed", iter[w])
  /\ Leave(w)
  /\ UNCHANGED <<msgs, sess, deliveredBy, hist>>

-----------------------------------------------------------------------------
(* RecoverIncomplete, and the life of a process *)

Boot(p) ==
  /\ phase[p] = "down"
  /\ phase' = [phase EXCEPT ![p] = "recovering"]
  /\ queue' = [queue EXCEPT ![p] =
                 {<<r, riter[r]>> : r \in {q \in RunIds : status[q] \in Incomplete}}]
  /\ UNCHANGED <<db, active, local, hist>>

\* resumeOne is called for the listed rows one after the other.  Their order
\* (by updated_at) is left open.
Resume(w, r, it) ==
  /\ phase[ProcOf[w]] = "recovering" /\ AllIdle(ProcOf[w])
  /\ <<r, it>> \in queue[ProcOf[w]]
  /\ queue' = [queue EXCEPT ![ProcOf[w]] = @ \ {<<r, it>>}]
  /\ phase' = phase

\* No tool-call message in the session: the run is closed.
CloseInterrupted(w, r, it) ==
  /\ Resume(w, r, it)
  /\ RequestsIn(ListMessages(sess[r])) = {}
  /\ SaveRun(r, "failed", it)
  /\ UNCHANGED <<msgs, sess, deliveredBy, active, local, hist>>

\* Every call of the last tool-call message is answered: on to the model.
ResumeModel(w, r, it) ==
  LET v == ListMessages(sess[r]) IN
  /\ Resume(w, r, it)
  /\ \E k \in DOMAIN v : IsLastRequest(v, k) /\ MissingAfter(v, k) = {}
  /\ SaveRun(r, "tool_done", it)
  /\ cur' = [cur EXCEPT ![w] = r]
  /\ iter' = [iter EXCEPT ![w] = it]
  /\ Goto(w, "loop")
  /\ UNCHANGED <<msgs, sess, deliveredBy, active, item, batch, view, hist>>

\* Some are not: they are executed first.
ResumeTools(w, r, it) ==
  LET v == ListMessages(sess[r]) IN
  /\ Resume(w, r, it)
  /\ ~IsBusy(ProcOf[w], sess[r])
  /\ \E k \in DOMAIN v :
       /\ IsLastRequest(v, k) /\ MissingAfter(v, k) # {}
       /\ req' = [req EXCEPT ![w] = v[k]]
       /\ todo' = [todo EXCEPT ![w] = MissingAfter(v, k)]
  /\ active' = [active EXCEPT ![ProcOf[w]] = @ \cup {sess[r]}]
  /\ SaveRun(r, "tool_pending", it)
  /\ cur' = [cur EXCEPT ![w] = r]
  /\ iter' = [iter EXCEPT ![w] = it]
  /\ resumed' = [resumed EXCEPT ![w] = TRUE]
  /\ Goto(w, "tool")
  /\ UNCHANGED <<msgs, sess, deliveredBy, item, res, errs, view, hist>>

Serve_early(p) ==
  /\ phase[p] = "recovering" /\ AllIdle(p)
  /\ phase' = [phase EXCEPT ![p] = "up"]
  /\ UNCHANGED <<db, queue, active, local, hist>>

Serve(p) ==
  /\ phase[p] = "recovering" /\ AllIdle(p) /\ queue[p] = {}
  /\ phase' = [phase EXCEPT ![p] = "up"]
  /\ UNCHANGED <<db, queue, active, local, hist>>

\* A process that has nothing in progress is stopped.
Exit(p) ==
  /\ phase[p] = "up" /\ AllIdle(p)
  /\ phase' = [phase EXCEPT ![p] = "down"]
  /\ UNCHANGED <<db, queue, active, local, hist>>

\* A crash loses whatever the process keeps in memory.
Crash(p) ==
  LET Keep(f, lost) == [w \in Workers |-> IF ProcOf[w] = p THEN lost ELSE f[w]] IN
  /\ phase[p] # "down" /\ crashes < MaxCrashes
  /\ crashes' = crashes + 1
  /\ phase' = [phase EXCEPT ![p] = "down"]
  /\ queue' = [queue EXCEPT ![p] = {}]
  /\ active' = [active EXCEPT ![p] = {}]
  /\ pc' = Keep(pc, "idle") /\ cur' = Keep(cur, NoRun) /\ item' = Keep(item, NoItem)
  /\ iter' = Keep(iter, 0) /\ req' = Keep(req, NoRequest) /\ todo' = Keep(todo, {})
  /\ resumed' = Keep(resumed, FALSE) /\ res' = Keep(res, "ok") /\ errs' = Keep(errs, NoErrs)
  /\ view' = Keep(view, <<>>)
  /\ UNCHANGED <<db, rounds, answered, executed, reexecs>>

-----------------------------------------------------------------------------

Init ==
  /\ msgs = [s \in Sessions |-> <<>>]
  /\ status = [r \in RunIds |-> "none"]
  /\ riter = [r \in RunIds |-> 0]
  /\ sess \in [RunIds -> {CHOOSE s \in Sessions : TRUE}]
  /\ deliveredBy = [i \in Items |-> NoRun]
  /\ phase = [p \in Procs |-> "down"]
  /\ queue = [p \in Procs |-> {}]
  /\ active = [p \in Procs |-> {}]
  /\ pc = [w \in Workers |-> "idle"]
  /\ cur = [w \in Workers |-> NoRun]
  /\ item = [w \in Workers |-> NoItem]
  /\ iter = [w \in Workers |-> 0]
  /\ req = [w \in Workers |-> NoRequest]
  /\ todo = [w \in Workers |-> {}]
  /\ resumed = [w \in Workers |-> FALSE]
  /\ res = [w \in Workers |-> "ok"]
  /\ errs = [w \in Workers |-> NoErrs]
  /\ view = [w \in Workers |-> <<>>]
  /\ rounds = [r \in RunIds |-> 0]
  /\ answered = {} /\ executed = {} /\ reexecs = 0 /\ crashes = 0

\* What a worker does by itself once it has a run.
Step(w) ==
  \/ SaveUserMessage(w) \/ StopAtLimit(w) \/ BuildPrompt(w) \/ SaveSummary(w)
  \/ DropCompacted(w) \/ DeleteFails(w) \/ AskModel(w) \/ SaveAnswer(w)
  \/ CompleteRun(w) \/ MarkDelivered(w) \/ BeginTools(w) \/ FinishTools(w) \/ StopRepeated(w)
  \/ \E n \in 1 .. MaxCalls : SaveToolCalls(w, n)
  \/ \E c \in todo[w], outcome \in {"ok"} \cup ErrKinds : ExecTool(w, c, outcome)
  \/ \E outcome \in {"denied", "unknown"} : RefuseCall(w, outcome)
  \/ \E c \in todo[w] : PersistResult(w, c)

Recover(w) ==
  \E row \in queue[ProcOf[w]] :
    \/ CloseInterrupted(w, row[1], row[2])
    \/ ResumeModel(w, row[1], row[2])
    \/ ResumeTools(w, row[1], row[2])

Next ==
  \/ \E w \in Workers, r \in RunIds, s \in Sessions, i \in Items \cup {NoItem} :
       Accept(w, r, s, i)
  \/ \E w \in Workers : Step(w) \/ Fail(w) \/ Recover(w)
  \/ \E p \in Procs : Boot(p) \/ Serve(p) \/ Exit(p) \/ Crash(p)

Spec == Init /\ [][Next]_vars

\* A goroutine that can go on does; a process that is down is started again.
Fairness ==
  /\ \A w \in Workers : WF_vars(Step(w)) /\ WF_vars(Recover(w))
  /\ \A p \in Procs : WF_vars(Boot(p)) /\ WF_vars(Serve(p))

FairSpec == Spec /\ Fairness
=============================================================================
