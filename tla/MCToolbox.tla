----------------------------- MODULE MCToolbox -----------------------------
(* A small instance of Toolbox: a workspace and a memory directory, calls  *)
(* that name one file in several ways, two skills, one of them misnamed.   *)
EXTENDS ToolboxProps, TLC

Symmetric == Permutations(Processes)

HomeWorkspace == <<"workspace">>
HomeMemory    == <<"memory">>

Ask(tool, names) == [tool |-> tool, abs |-> FALSE, names |-> names]
SomeRequests == {Ask("workspace_write", <<"x">>), Ask("workspace_write", <<"a">>),
                 Ask("workspace_write", <<"a", "x">>),
                 [tool |-> "memory_write", abs |-> TRUE, names |-> <<"memory", "..", "workspace", "x">>]}
SomeDirs     == {<<"workspace", "a">>}

SomeFiles == {[id |-> NoId, tools |-> {"workspace_write"}], [id |-> 1, tools |-> {"gone"}]}
SomeConfigs == {[doctorSync |-> TRUE, shell |-> FALSE, tasks |-> TRUE],
                [doctorSync |-> FALSE, shell |-> TRUE, tasks |-> FALSE]}
=============================================================================
