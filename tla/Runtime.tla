------------------------------ MODULE Runtime ------------------------------
(***************************************************************************)
(* How a process comes up with its tools: OpenRuntime                      *)
(* (internal/app/runtime.go), the skills it reads from the registry        *)
(* (internal/core/skills.go, internal/core/skill_sync.go,                  *)
(* internal/adapters/store/skills.go), and doctor, which fills the         *)
(* registry as well (internal/app/doctor.go).                              *)
(*                                                                         *)
(* The files below skills/ are the user's, who edits them at any time; the *)
(* registry is what the processes share.  SyncSkillsDir copies the files   *)
(* to the registry one by one and never takes a row away; the tools of a   *)
(* process are settled when it comes up, by the rows the registry has      *)
(* then.  Of a skill only its id and the tools it lists are kept.          *)
(*                                                                         *)
(* An operator with an underscore in its name is a variant with a fault:   *)
(* no action uses it; it is there to see that a property notices it.       *)
(***************************************************************************)
EXTENDS Naturals, FiniteSetsExt

CONSTANTS
  Processes,                \* processes over one home
  LastDir,                  \* directories below skills/: 1 .. LastDir, in the order of ReadDir
  Files,                    \* files the user writes: [id, tools]
  Configs,                  \* what config.yaml may say: [doctorSync, shell, tasks]
  NoId, NoDir, Broken, NoRow, Nothing

Dirs  == 1 .. LastDir
Tools == {"workspace_write", "memory_write", "shell", "task_complete"}

VARIABLES
  config,
  disk,       \* disk[d]: the SKILL.md in d, Broken if it cannot be read, or NoDir
  registry,   \* registry[id]: the tools that the skill's row lists, or NoRow
  proc,       \* proc[p]: how far p is, what it holds, its tools
  fresh       \* history: the last sync that ended saw the disk as it is, undisturbed
vars == <<config, disk, registry, proc, fresh>>

Down == [stage |-> "down", doctor |-> FALSE, left |-> {}, held |-> Nothing,
         tools |-> {}, clean |-> FALSE]

OnDisk  == {d \in Dirs : disk[d] \notin {NoDir, Broken}}
Syncing == {p \in Processes : proc[p].stage = "sync"}

\* The id of a file without one is the name of its directory.
IdOf(d)  == IF disk[d].id = NoId THEN d ELSE disk[d].id
Skill(d) == [id |-> IdOf(d), tools |-> disk[d].tools]

-----------------------------------------------------------------------------
(* SyncSkillsDir *)

\* Syncs that overlap with an edit, or with each other, may leave old rows.
Disturbed(procs) ==
  [p \in Processes |-> IF p \in procs THEN [proc[p] EXCEPT !.clean = FALSE] ELSE proc[p]]

\* OpenRuntime or doctor begins; a process without doctor_sync opens at once.
Start(p, doctor) ==
  /\ proc[p].stage = "down"
  /\ doctor => config.doctorSync
  /\ proc' = [Disturbed(Syncing) EXCEPT ![p] =
       IF config.doctorSync
       THEN [Down EXCEPT !.stage = "sync", !.doctor = doctor, !.clean = (Syncing = {}),
                         !.left = {d \in Dirs : disk[d] # NoDir}]
       ELSE [Down EXCEPT !.stage = "load"]]
  /\ UNCHANGED <<config, disk, registry, fresh>>

\* ParseSkillFile of the next directory; one that cannot be read is skipped.
ReadSkill(p) ==
  LET d == Min(proc[p].left) IN
  /\ proc[p].stage = "sync" /\ proc[p].left # {} /\ proc[p].held = Nothing
  /\ proc' = [proc EXCEPT ![p].left = @ \ {d},
                          ![p].held = IF d \in OnDisk THEN Skill(d) ELSE Nothing]
  /\ UNCHANGED <<config, disk, registry, fresh>>

\* INSERT ... ON CONFLICT(id) DO UPDATE
UpsertSkill_keep(p) ==
  LET skill == proc[p].held IN
  /\ skill # Nothing
  /\ registry' = [registry EXCEPT ![skill.id] = IF @ = NoRow THEN skill.tools ELSE @]
  /\ proc' = [proc EXCEPT ![p].held = Nothing]
  /\ UNCHANGED <<config, disk, fresh>>
UpsertSkill(p) ==
  LET skill == proc[p].held IN
  /\ skill # Nothing
  /\ registry' = [registry EXCEPT ![skill.id] = skill.tools]
  /\ proc' = [proc EXCEPT ![p].held = Nothing]
  /\ UNCHANGED <<config, disk, fresh>>

AfterSync(p) == IF proc[p].doctor THEN Down ELSE [Down EXCEPT !.stage = "load"]

\* The first upsert that fails ends the sync; OpenRuntime ignores the error.
UpsertFails(p) ==
  /\ proc[p].held # Nothing
  /\ fresh' = FALSE
  /\ proc' = [proc EXCEPT ![p] = AfterSync(p)]
  /\ UNCHANGED <<config, disk, registry>>

EndSync(p) ==
  /\ proc[p].stage = "sync" /\ proc[p].left = {} /\ proc[p].held = Nothing
  /\ fresh' = (fresh \/ proc[p].clean)
  /\ proc' = [proc EXCEPT ![p] = AfterSync(p)]
  /\ UNCHANGED <<config, disk, registry>>

-----------------------------------------------------------------------------
(* OpenRuntime *)

Registered == {t \in Tools : /\ t = "shell" => config.shell
                             /\ t = "task_complete" => config.tasks}

\* The tools the skills list between them; all, if that leaves none.
FilterToolsBySkills_strict(all, lists) == IF UNION lists = {} THEN all ELSE all \cap UNION lists
FilterToolsBySkills(all, lists) ==
  IF all \cap UNION lists = {} THEN all ELSE all \cap UNION lists

\* Shell and the task tools are put back, whatever the skills list.
Offered(lists) == FilterToolsBySkills(Registered, lists) \cup (Registered \cap {"shell", "task_complete"})

InRegistry == {registry[id] : id \in {i \in Dirs : registry[i] # NoRow}}
InFiles    == {disk[d].tools : d \in OnDisk}

\* Without rows, the files themselves are read.
Lists(rows) == IF rows = {} THEN InFiles ELSE rows

Load(p) ==
  /\ proc[p].stage = "load"
  /\ proc' = [proc EXCEPT ![p] = [Down EXCEPT !.stage = "up", !.tools = Offered(Lists(InRegistry)),
                                              !.clean = /\ Syncing = {}
                                                        /\ config.doctorSync => fresh]]
  /\ UNCHANGED <<config, disk, registry, fresh>>

\* ListEnabled fails, and its error is dropped.
LoadFails(p) ==
  /\ proc[p].stage = "load"
  /\ proc' = [proc EXCEPT ![p] = [Down EXCEPT !.stage = "up", !.tools = Offered(Lists({}))]]
  /\ UNCHANGED <<config, disk, registry, fresh>>

\* The policies, the model or the configuration are not as they should be.
OpenFails(p) ==
  /\ proc[p].stage = "load"
  /\ proc' = [proc EXCEPT ![p] = Down]
  /\ UNCHANGED <<config, disk, registry, fresh>>

Stop(p) ==
  /\ proc[p].stage = "up"
  /\ proc' = [proc EXCEPT ![p] = Down]
  /\ UNCHANGED <<config, disk, registry, fresh>>

Crash(p) ==
  /\ proc[p].stage = "sync"
  /\ fresh' = FALSE
  /\ proc' = [proc EXCEPT ![p] = Down]
  /\ UNCHANGED <<config, disk, registry>>

-----------------------------------------------------------------------------
(* The user, who writes, breaks and removes skills *)

Edit(d, file) ==
  /\ disk[d] # file
  /\ disk' = [disk EXCEPT ![d] = file]
  /\ fresh' = FALSE
  /\ proc' = Disturbed(Processes)
  /\ UNCHANGED <<config, registry>>

-----------------------------------------------------------------------------

Init ==
  /\ config \in Configs
  /\ disk \in [Dirs -> Files \cup {NoDir}]
  /\ registry = [id \in Dirs |-> NoRow]
  /\ proc = [p \in Processes |-> Down]
  /\ fresh = FALSE

Begin(p) == \E doctor \in BOOLEAN : Start(p, doctor)
Step(p)  == ReadSkill(p) \/ UpsertSkill(p) \/ EndSync(p) \/ Load(p)
Fault(p) == UpsertFails(p) \/ LoadFails(p) \/ OpenFails(p) \/ Crash(p)
User     == \E d \in Dirs, file \in Files \cup {NoDir, Broken} : Edit(d, file)

Next ==
  \/ \E p \in Processes : Begin(p) \/ Step(p) \/ Fault(p) \/ Stop(p)
  \/ User

Spec == Init /\ [][Next]_vars
=============================================================================
