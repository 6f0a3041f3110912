------------------------------ MODULE Toolbox ------------------------------
(***************************************************************************)
(* Processes that come up with their tools (module Runtime) and write      *)
(* files with them (module Workspace), over one home that the user changes *)
(* under their hands.  A process calls the tools it came up with, whatever *)
(* the skills say by now, and may stop inside a call.                      *)
(***************************************************************************)
EXTENDS Naturals, Sequences

CONSTANTS
  Processes, LastDir, Files, Configs, NoId, NoDir, Broken, NoRow, Nothing,
  WorkspaceRoot, MemoryRoot, Requests, UserDirs, NoCall, Torn, Directory,
  MaxUserSteps, MaxFaults   \* bounds: steps of the user; failures

VARIABLES config, disk, registry, proc, fresh, tree, call, told, userSteps, faults
runtime   == <<config, disk, registry, proc, fresh>>
workspace == <<tree, call, told>>
vars == <<config, disk, registry, proc, fresh, tree, call, told, userSteps, faults>>

Rt == INSTANCE Runtime
Ws == INSTANCE Workspace

ASSUME ToolboxAssumption ==
  /\ LastDir \in Nat
  /\ \A f \in Files : /\ f.id \in Rt!Dirs \cup {NoId} /\ f.tools # NoRow
                      /\ \A id \in Rt!Dirs : [id |-> id, tools |-> f.tools] # Nothing
  /\ {WorkspaceRoot, MemoryRoot} \cup UserDirs \subseteq Seq(STRING) \ {<<>>}
  /\ \A r \in Requests, placed \in BOOLEAN :
       /\ Ws!Named(r) \in Seq(STRING)
       /\ [root |-> Ws!RootOf(r), name |-> Ws!Named(r), placed |-> placed] \notin {Directory, Torn}

Init == Rt!Init /\ Ws!Init /\ userSteps = 0 /\ faults = 0

\* The loop hands a call only to a tool of the process.
Call(p) ==
  /\ proc[p].stage = "up"
  /\ \E request \in Requests : request.tool \in proc[p].tools /\ Ws!StartWrite(p, request)
  /\ UNCHANGED runtime

Write(p) == Ws!Write(p) /\ UNCHANGED runtime

Open(p) == (Rt!Begin(p) \/ Rt!Step(p)) /\ UNCHANGED workspace

Stop(p) ==
  /\ Rt!Stop(p)
  /\ IF call[p] = NoCall THEN UNCHANGED workspace ELSE Ws!Abandon(p)

Process(p) == (Call(p) \/ Write(p) \/ Open(p) \/ Stop(p)) /\ UNCHANGED <<userSteps, faults>>

Fault(p) ==
  /\ faults < MaxFaults
  /\ faults' = faults + 1
  /\ \/ Rt!Fault(p) /\ UNCHANGED workspace
     \/ Ws!WriteTorn(p) /\ UNCHANGED runtime
  /\ UNCHANGED userSteps

User ==
  /\ userSteps < MaxUserSteps
  /\ userSteps' = userSteps + 1
  /\ \/ Rt!User /\ UNCHANGED workspace
     \/ Ws!User /\ UNCHANGED runtime
  /\ UNCHANGED faults

Next == (\E p \in Processes : Process(p) \/ Fault(p)) \/ User

Spec == Init /\ [][Next]_vars
=============================================================================
