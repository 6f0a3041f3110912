---------------------------- MODULE ToolboxProps ----------------------------
(***************************************************************************)
(* The properties of Toolbox.                                              *)
(***************************************************************************)
EXTENDS Toolbox, SequencesExt, FiniteSetsExt

Holds(f) == tree[f] \notin {Directory, Torn}

\* A file a tool wrote lies below the root of its policy, under the base that
\* was asked for, in the directory asked for or one above it; and just where
\* it was asked for if that directory was there.
WritesLandNearby ==
  \A f \in {g \in DOMAIN tree : Holds(g)} :
    LET w == tree[f] IN
    /\ IsPrefix(w.root, f)
    /\ Last(f) = Last(w.name) /\ IsPrefix(Front(f), Front(w.name))
    /\ w.placed => f = w.name

\* A note whose write was answered "wrote" is read back under its name until
\* it is excused: by a step of the user, or by a write that puts a file at or
\* above its name, that brings back a missing directory it was written without,
\* or that has its base, unless both notes lie just where they were asked for.
WrittenIsReadBack ==
  \A p \in told :
    LET f == Ws!Resolve(p) IN f \in DOMAIN tree /\ Holds(f) /\ tree[f].name = p

DirsOf(id) == {d \in Rt!OnDisk : Rt!IdOf(d) = id}
Ids        == {id \in Rt!Dirs : DirsOf(id) # {}}
Row(id)    == disk[Max(DirsOf(id))].tools

\* After a sync that nothing disturbed (no edit since it began, no other sync
\* at its side, no failure) the registry has, for every id on disk, what the
\* last directory of that id says.
RegistryFollowsDisk ==
  fresh /\ Rt!Syncing = {} => \A id \in Ids : registry[id] = Row(id)

\* What skills list: on disk, and by rows that nothing on disk stands for.
Orphans == {id \in Rt!Dirs \ Ids : registry[id] # NoRow}
Listed ==
  IF config.doctorSync
  THEN UNION ({Row(id) : id \in Ids} \cup {registry[id] : id \in Orphans})
  ELSE UNION Rt!InFiles

\* What the skills should give a process: the registered tools they list, and
\* the shell and the task tools if they are on; all if they list none.
Due ==
  IF Listed \cap Rt!Registered = {} THEN Rt!Registered
  ELSE Rt!Registered \cap (Listed \cup {"shell", "task_complete"})

\* A process that came up on an undisturbed registry has, until the next edit,
\* just the tools that the skills on disk and the orphaned rows give it; and
\* none ever has a tool that the configuration leaves out.
ToolsFollowDisk ==
  \A p \in Processes :
    /\ proc[p].tools \subseteq Rt!Registered
    /\ proc[p].stage = "up" /\ proc[p].clean => proc[p].tools = Due
=============================================================================
