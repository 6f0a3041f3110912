------------------------------ MODULE RunBook ------------------------------
(***************************************************************************)
(* What the agent loop promises about its runs, seen through the run table *)
(* and the inbox table of the store, whatever the loop does in between and *)
(* whenever its process crashes: a session has at most one open run, a run *)
(* is closed once and for all, and an inbox item is marked delivered only  *)
(* by a run that completed.  AgentLoop implements this specification.      *)
(***************************************************************************)
CONSTANTS Sessions, RunIds, Items, NoRun

VARIABLES
  book,          \* book[r]: "none", "open", "completed" or "failed"
  sessionOf,     \* sessionOf[r]: the session of run r (any value until opened)
  deliveredBy    \* deliveredBy[i]: the run that delivered item i, or NoRun

vars == <<book, sessionOf, deliveredBy>>

Init ==
  /\ book = [r \in RunIds |-> "none"]
  /\ sessionOf \in [RunIds -> Sessions]
  /\ deliveredBy = [i \in Items |-> NoRun]

Open(r, s) ==
  /\ book[r] = "none"
  /\ \A q \in RunIds : book[q] = "open" => sessionOf[q] # s
  /\ book' = [book EXCEPT ![r] = "open"]
  /\ sessionOf' = [sessionOf EXCEPT ![r] = s]
  /\ UNCHANGED deliveredBy

Close(r, outcome) ==
  /\ book[r] = "open"
  /\ book' = [book EXCEPT ![r] = outcome]
  /\ UNCHANGED <<sessionOf, deliveredBy>>

Deliver(r, i) ==
  /\ book[r] = "completed"
  /\ deliveredBy[i] = NoRun
  /\ deliveredBy' = [deliveredBy EXCEPT ![i] = r]
  /\ UNCHANGED <<book, sessionOf>>

Next ==
  \/ \E r \in RunIds, s \in Sessions : Open(r, s)
  \/ \E r \in RunIds, outcome \in {"completed", "failed"} : Close(r, outcome)
  \/ \E r \in RunIds, i \in Items : Deliver(r, i)

Spec == Init /\ [][Next]_vars
=============================================================================
