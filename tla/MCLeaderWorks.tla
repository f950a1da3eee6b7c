---------------------------- MODULE MCLeaderWorks ----------------------------
EXTENDS LeaderWorks
CONSTANTS tasks, kv

WorkLists == (tasks :> <<"guard", "scheduler">>) @@ (kv :> <<"guard">>)
TasksOnly == tasks :> WorkLists[tasks]
=============================================================================
