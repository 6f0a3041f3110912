----------------------------- MODULE Workspace -----------------------------
(***************************************************************************)
(* The file tools and their path policy (internal/core/policy.go,          *)
(* internal/adapters/tool/workspace.go, memory_tool.go) over a directory   *)
(* tree that the user changes as well.                                     *)
(*                                                                         *)
(* A path is a sequence of names.  A file holds the path its writer named: *)
(* that is what tells two writes apart.  A call is two steps, the policy   *)
(* and the write, and anything can happen to the tree in between; that the *)
(* tools ask the policy twice, AllowPath and Resolve, is left out, and so  *)
(* are symbolic links.                                                     *)
(*                                                                         *)
(* An operator with an underscore in its name is a variant with a fault:   *)
(* no action uses it; it is there to see that a property notices it.       *)
(***************************************************************************)
EXTENDS Naturals, Sequences, SequencesExt, FiniteSetsExt

CONSTANTS
  Processes,                   \* who calls the tools
  WorkspaceRoot, MemoryRoot,   \* the Root of the two policies
  Requests,                    \* calls of the tools that write: [tool, abs, names]
  UserDirs,                    \* directories the user makes and removes
  NoCall, Torn, Directory

RootOf(request) == IF request.tool = "memory_write" THEN MemoryRoot ELSE WorkspaceRoot

VARIABLES
  tree,   \* what each existing path is: a Directory, or a file and what it holds
  call,   \* call[p]: the write that p is about to do, or NoCall
  told    \* history: names answered "wrote", and nothing excuses a loss since
vars == <<tree, call, told>>

Exists(p)   == p \in DOMAIN tree
IsDir(p)    == Exists(p) /\ tree[p] = Directory
IsFile(p)   == Exists(p) /\ tree[p] # Directory
Parent(p)   == IF p = <<>> THEN p ELSE Front(p)

-----------------------------------------------------------------------------
(* PathPolicy *)

\* filepath.Clean: ".." takes the name before it away.
Step(p, name) == IF name = ".." THEN Parent(p) ELSE Append(p, name)
Clean(p) == FoldLeft(Step, <<>>, p)

\* The path a request names.
Named(request) == Clean(IF request.abs THEN request.names ELSE RootOf(request) \o request.names)

\* resolveExistingAncestor, without its check of the root
ExistingAncestor(d) == SubSeq(d, 1, Max({Len(p) : p \in {q \in Prefixes(d) : Exists(q)}}))

\* Resolve: a path that does not exist is its nearest existing directory and
\* its base.  The directories between the two are dropped.
Resolve_rootOnly(p) == IF Exists(p) THEN p ELSE Append(SubSeq(p, 1, 1), Last(p))
Resolve(p) == IF Exists(p) THEN p ELSE Append(ExistingAncestor(Parent(p)), Last(p))

\* What AllowPath lets pass.
Allowed_ancestorOnly(root, p) ==
  Exists(p) \/ Exists(Parent(p)) \/ IsPrefix(root, ExistingAncestor(Parent(p)))
Allowed(root, p) ==
  /\ IsPrefix(root, Resolve(p))
  /\ Exists(p) \/ Exists(Parent(p)) \/ IsPrefix(root, ExistingAncestor(Parent(p)))

-----------------------------------------------------------------------------
(* The tools *)

\* execWrite, up to the answer of the policy.  A request that is refused, and
\* a call that reads or lists, changes nothing.
StartWrite(c, request) ==
  LET p == Named(request) IN
  /\ call[c] = NoCall
  /\ Allowed(RootOf(request), p)
  /\ call' = [call EXCEPT ![c] = [root |-> RootOf(request), name |-> p, node |-> Resolve(p),
                                  placed |-> Exists(p) \/ Exists(Parent(p))]]
  /\ UNCHANGED <<tree, told>>

Finish(c) == call' = [call EXCEPT ![c] = NoCall]

\* MkdirAll fails where a file is in the way, WriteFile where a directory is.
Writable(p) == ~IsDir(p) /\ \A d \in Prefixes(Parent(p)) : ~IsFile(d)

Put(p, content) ==
  [q \in DOMAIN tree \cup Prefixes(Parent(p)) \cup {p} |->
    IF q = p THEN content ELSE IF Exists(q) THEN tree[q] ELSE Directory]

\* Notes that write w leaves readable: it puts no file at or above their name,
\* brings back no directory they were written without, and has another base,
\* or goes just where it was asked to while they lie where they were asked to.
Spared(p, w) ==
  /\ ~IsPrefix(w.node, p)
  /\ Exists(Parent(p)) \/ Exists(Parent(w.node))
  /\ Last(p) # Last(w.name) \/ (w.node = w.name /\ Exists(Parent(p)))

\* The name still leads to the file, and will when the file is there.
Found(w) == Resolve(w.name) = w.node /\ (w.node = w.name \/ ~IsPrefix(w.node, w.name))

WriteFile(c) ==
  LET w == call[c] IN
  /\ w # NoCall /\ Writable(w.node)
  /\ tree' = Put(w.node, [root |-> w.root, name |-> w.name, placed |-> w.placed])
  /\ told' = {p \in told : Spared(p, w)} \cup (IF Found(w) THEN {w.name} ELSE {})
  /\ Finish(c)

\* The answer is an error and nothing changed.
WriteRefused(c) ==
  /\ call[c] # NoCall /\ ~Writable(call[c].node)
  /\ Finish(c)
  /\ UNCHANGED <<tree, told>>

\* os.WriteFile empties the file before it writes: an error in the middle
\* (a full disk), or a crash, leaves neither the old note nor the new one.
WriteTorn(c) ==
  LET w == call[c] IN
  /\ w # NoCall /\ Writable(w.node)
  /\ tree' = Put(w.node, Torn)
  /\ told' = {p \in told : Spared(p, w)}
  /\ Finish(c)

\* The process stops between the two steps.
Abandon(c) == call[c] # NoCall /\ Finish(c) /\ UNCHANGED <<tree, told>>

-----------------------------------------------------------------------------
(* The user *)

MakeDir(d) ==
  /\ ~Exists(d) /\ IsDir(Parent(d))
  /\ tree' = Put(d, Directory)
  /\ told' = {}
  /\ UNCHANGED call

RemoveAll(d) ==
  /\ Exists(d)
  /\ tree' = [p \in {q \in DOMAIN tree : ~IsPrefix(d, q)} |-> tree[p]]
  /\ told' = {}
  /\ UNCHANGED call

-----------------------------------------------------------------------------

Init ==
  /\ \E made \in SUBSET UserDirs :
       tree = [p \in UNION {Prefixes(d) : d \in {WorkspaceRoot, MemoryRoot} \cup made} |-> Directory]
  /\ call = [c \in Processes |-> NoCall]
  /\ told = {}

Write(c) == WriteFile(c) \/ WriteRefused(c)
User     == \E d \in UserDirs : MakeDir(d) \/ RemoveAll(d)

Next ==
  \/ \E c \in Processes :
       \/ \E request \in Requests : StartWrite(c, request)
       \/ Write(c) \/ WriteTorn(c) \/ Abandon(c)
  \/ User

Spec == Init /\ [][Next]_vars
=============================================================================
