----------------------------- MODULE MCSpokeMemory -----------------------------
(* TLC instance of SpokeMemory: a delegation and an end by the agent's own subject, *)
(* a start and a message of the user by the subject of all agents.                 *)
EXTENDS SpokeMemory

CONSTANTS start, hello, task, end

MCSchema == start :> "start-thread" @@ hello :> "add-user-message"
              @@ task :> "agent-delegation" @@ end :> "end-thread"
MCServes == [l \in {"own", "all"} |-> IF l = "own" THEN {task, end} ELSE {start, hello}]
MCContext == [e \in Events |-> IF e = task THEN 1 ELSE 0]
=============================================================================
