--------------------------- MODULE AgentLoopProps ---------------------------
(***************************************************************************)
(* The properties of AgentLoop.                                            *)
(***************************************************************************)
EXTENDS AgentLoop

Labels == {"idle", "accepted", "loop", "prompt", "drop", "ready", "model", "answered",
           "completed", "called", "tool", "result", "stop"}

TablesOK ==
  /\ msgs \in [Sessions -> Seq(Message)]
  /\ status \in [RunIds -> {"none"} \cup Incomplete \cup Terminal]
  /\ riter \in [RunIds -> Nat]
  /\ sess \in [RunIds -> Sessions]
  /\ deliveredBy \in [Items -> RunIds \cup {NoRun}]

ProcsOK ==
  /\ phase \in [Procs -> {"down", "recovering", "up"}]
  /\ queue \in [Procs -> SUBSET (RunIds \X Nat)]
  /\ active \in [Procs -> SUBSET Sessions]

WorkersOK ==
  /\ pc \in [Workers -> Labels]
  /\ cur \in [Workers -> RunIds \cup {NoRun}]
  /\ item \in [Workers -> Items \cup {NoItem}]
  /\ iter \in [Workers -> Nat]
  /\ req \in [Workers -> Message \cup {NoRequest}]
  /\ todo \in [Workers -> SUBSET Nat]
  /\ resumed \in [Workers -> BOOLEAN]
  /\ res \in [Workers -> {"ok", "denied"} \cup ErrKeys]
  /\ errs \in [Workers -> [ErrKeys -> Nat]]
  /\ view \in [Workers -> Seq(Message)]
  /\ \A w \in Workers : At(w, "idle") <=> cur[w] = NoRun
  /\ \A w \in Workers : pc[w] \in {"called", "tool", "result"} => IsRequest(req[w])

HistoryOK ==
  /\ rounds \in [RunIds -> Nat]
  /\ answered \in SUBSET RunIds
  /\ executed \in SUBSET (RunIds \X Nat \X Nat)
  /\ reexecs \in Nat /\ crashes \in Nat

\* Type invariant: every variable holds a value of the kind the code keeps in
\* it; a goroutine has a run exactly while it is inside the loop, and a
\* tool-call message exactly while it serves a batch.
TypeOK == TablesOK /\ ProcsOK /\ WorkersOK /\ HistoryOK

IsOpen(r) == status[r] \in Incomplete

\* "One active run per session" (loop.go:80), in the table and not only in the
\* memory of one Loop: two unfinished runs never share a session, whatever
\* crashes and recoveries happened.
OneOpenRunPerSession ==
  \A r, q \in RunIds : IsOpen(r) /\ IsOpen(q) /\ sess[r] = sess[q] => r = q

\* Once recovery is over, an unfinished run is one that some goroutine is
\* working on: no early return leaves its run open in the table for ever.
NoOrphanRun ==
  \A p \in Procs, r \in RunIds :
    phase[p] = "up" /\ IsOpen(r) => \E w \in Workers : cur[w] = r

\* An inbox item is marked delivered only by a run that is completed, and
\* the answer of a completed run was saved: a crash between these writes may
\* repeat the work but never lose the answer.
DeliveredItemsAreAnswered ==
  /\ \A r \in RunIds : status[r] = "completed" => r \in answered
  /\ \A i \in Items : deliveredBy[i] # NoRun => status[deliveredBy[i]] = "completed"

\* A run asks for tools at most MaxToolIterations times, plus once for each
\* crash that hit before the iteration was counted.
ToolRoundsBounded == \A r \in RunIds : rounds[r] <= MaxToolIterations + crashes

\* A tool call is executed a second time only because a crash (or a failed
\* write, which ends the run) hit between its execution and the saving of its
\* result; each crash repeats at most one call per goroutine.
ReexecutionsBounded == reexecs <= crashes * Cardinality(Workers)

\* While the model is being asked, every tool call in its prompt that has no
\* result was left by a run that failed: a batch is complete before the loop
\* goes on, also when recovery resumed it half way.
AnsweredIn(v, k) ==
  \A c \in Calls(v[k]) : \E j \in k + 1 .. Len(v) : v[j] = Result(v[k], c)
PromptDanglesOnlyAfterFailure ==
  \A w \in Workers : At(w, "model") =>
    \A k \in RequestsIn(view[w]) : AnsweredIn(view[w], k) \/ status[view[w][k].run] = "failed"

\* The prompt of a run that was not interrupted holds the user message it
\* answers, or the summary that replaced it: compaction forgets no question.
\* The one exception is a session that outgrew the LIMIT of ListMessages, which
\* keeps the oldest rows (loop.go:142, sqlite.go:94).
PromptHasQuestion ==
  \A w \in Workers : At(w, "model") /\ phase[ProcOf[w]] = "up" =>
    \/ \E k \in DOMAIN view[w] : view[w][k] = User(cur[w]) \/ view[w][k].kind = "summary"
    \/ Len(msgs[sess[cur[w]]]) > ListLimit

\* The calls a goroutine serves are those its own run asked for, or what a failed
\* run left unanswered: recovery reads the last tool-call message of the session
\* and not of the run (loop.go:318), and must not take it from a run that is
\* completed, or that goes on elsewhere.
ServesOwnOrFailed ==
  \A w \in Workers : At(w, "tool") \/ At(w, "result") =>
    req[w].run = cur[w] \/ status[req[w].run] = "failed"

\* Compaction shortens the list: the prompt that follows it holds the tail and
\* the new summary, and so does the session, unless the delete failed and all of
\* the old rows are still there: nothing in between (compact.go:78-89).
CompactionShrinks ==
  \A w \in Workers : At(w, "ready") =>
    LET rows == msgs[sess[cur[w]]] IN
    /\ Len(view[w]) = KeptTail + 1
    /\ Len(rows) = KeptTail + 1 \/ (MayFail /\ Len(rows) > CompactTail + 4)

\* A run that is completed or failed keeps that status: neither a recovery
\* from an old list of runs nor a late write reopens or changes it.
ClosedRunsStayClosed ==
  [][\A r \in RunIds : status[r] \in Terminal => status'[r] = status[r]]_vars

\* Every run that was accepted is closed in the end, after any number of
\* restarts, if goroutines go on and stopped processes are started again.
EveryRunCloses == \A r \in RunIds : IsOpen(r) ~> status[r] \in Terminal

\* The loop implements the run book.
Book == INSTANCE RunBook WITH
  book <- [r \in RunIds |-> IF IsOpen(r) THEN "open" ELSE status[r]],
  sessionOf <- sess
RunBookSpec == Book!Spec

-----------------------------------------------------------------------------
(* The inductive invariant for the goroutines of one process. *)

OneProcessOnly == \A p, q \in Procs : p = q

Busy(w)  == cur[w] # NoRun
Owned(r) == \E w \in Workers : cur[w] = r

\* A goroutine inside the loop holds an open run (a completed one while it
\* marks the item), in a session of its own that is active once the process
\* serves; during recovery one goroutine at most is inside.
BusyOK ==
  \A w \in Workers : Busy(w) =>
    /\ phase[ProcOf[w]] # "down"
    /\ At(w, "completed") => status[cur[w]] = "completed"
    /\ ~At(w, "completed") => IsOpen(cur[w])
    /\ phase[ProcOf[w]] = "up" => sess[cur[w]] \in active[ProcOf[w]]
    /\ \A x \in Workers : Busy(x) /\ x # w =>
         phase[ProcOf[w]] = "up" /\ sess[cur[x]] # sess[cur[w]]

\* A row still to be resumed is the current row of an open run nobody holds.
QueueOK ==
  \A p \in Procs : \A row \in queue[p] :
    /\ phase[p] = "recovering"
    /\ IsOpen(row[1]) /\ row[2] = riter[row[1]] /\ ~Owned(row[1])

\* An open run is held by a goroutine or, during recovery, still listed.
OpenOK ==
  \A p \in Procs, r \in RunIds : IsOpen(r) =>
    \/ phase[p] = "down"
    \/ Owned(r)
    \/ phase[p] = "recovering" /\ <<r, riter[r]>> \in queue[p]

Ownership == BusyOK /\ QueueOK /\ OpenOK /\ OneOpenRunPerSession

\* The iterations counted lag behind the tool rounds by one while a batch is
\* served, and by one more for each crash.
Serving == {"called", "tool", "result", "stop"}
IterationOK ==
  /\ \A w \in Workers :
       /\ ~Busy(w) => iter[w] = 0
       /\ Busy(w) => /\ iter[w] = riter[cur[w]]
                     /\ pc[w] \in Serving => rounds[cur[w]] <= iter[w] + 1 + crashes
                     /\ pc[w] \notin Serving => rounds[cur[w]] <= iter[w] + crashes
                     /\ pc[w] \in {"prompt", "drop", "ready", "model"} =>
                          iter[w] < MaxToolIterations
  /\ \A r \in RunIds :
       /\ status[r] = "none" => rounds[r] = 0
       /\ IsOpen(r) /\ ~Owned(r) => rounds[r] <= riter[r] + crashes
  /\ ToolRoundsBounded

\* No session has outgrown the LIMIT of ListMessages: what is listed is all there is.
Fits == \A s \in Sessions : Len(msgs[s]) <= ListLimit

-----------------------------------------------------------------------------
(* What the documents say and the code does not do. *)

\* "crash-safe; no dangling tool_call_ids" (BYZCLAW_BUILD_PLAN.md:73): every
\* tool call the model sees has its result.
NoDanglingToolCalls ==
  \A w \in Workers : At(w, "model") =>
    \A k \in RequestsIn(view[w]) : AnsweredIn(view[w], k)

\* "No parallel Handle on same session while run active" (README.md:51).
NoParallelHandle ==
  \A w, x \in Workers : w # x /\ ~At(w, "idle") /\ ~At(x, "idle") => sess[cur[w]] # sess[cur[x]]
=============================================================================
