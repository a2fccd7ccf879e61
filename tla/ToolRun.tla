------------------------------- MODULE ToolRun -------------------------------
(***************************************************************************)
(* One tool at a time, run to a deadline: runTool of                       *)
(* src/src/detection/exec.ts, which every scanner, fuzzer, build, repro    *)
(* and test command goes through.                                          *)
(*                                                                         *)
(* The tool leads a process group of its own and may leave a helper in it  *)
(* that keeps its pipes open after the tool itself has exited; the wait is *)
(* for the pipes.  How long a tool runs is not modelled: the deadline may  *)
(* fire at any point before the wait is over.                              *)
(***************************************************************************)

VARIABLES
  tool,     \* the wait: none, on its way, or over with a result to be taken
  child,    \* the process, or how it ended
  helper,   \* another process of the group holds the pipes
  timedOut

tool_vars == <<tool, child, helper, timedOut>>

Exits == {"zero", "nonzero", "signal"}

ToolInit ==
  tool = "idle" /\ child = "none" /\ helper = FALSE /\ timedOut = FALSE

StartTool ==
  /\ tool = "idle" /\ tool' = "running"
  /\ child' \in {"running", "unspawned"}
  /\ helper' = FALSE /\ timedOut' = FALSE

ChildForks ==
  /\ tool = "running" /\ child = "running" /\ ~helper
  /\ helper' = TRUE
  /\ UNCHANGED <<tool, child, timedOut>>

ChildExits ==
  /\ tool = "running" /\ child = "running"
  /\ child' \in Exits
  /\ UNCHANGED <<tool, helper, timedOut>>

HelperExits ==
  /\ tool = "running" /\ helper
  /\ helper' = FALSE
  /\ UNCHANGED <<tool, child, timedOut>>

\* Mutant: the deadline signals the tool alone.
Deadline_ChildOnly ==
  /\ tool = "running" /\ child # "unspawned" /\ ~timedOut
  /\ timedOut' = TRUE
  /\ child' = IF child = "running" THEN "killed" ELSE child
  /\ UNCHANGED <<tool, helper>>

\* killGroup: the whole group, whether or not the tool has exited.
Deadline ==
  /\ tool = "running" /\ child # "unspawned" /\ ~timedOut
  /\ timedOut' = TRUE
  /\ child' = IF child = "running" THEN "killed" ELSE child
  /\ helper' = FALSE
  /\ UNCHANGED tool

ToolReturns ==
  /\ tool = "running" /\ child # "running" /\ ~helper
  /\ tool' = "over"
  /\ UNCHANGED <<child, helper, timedOut>>

\* The fields of ToolResult that callers look at.
SpawnError == child = "unspawned"
ExitZero == child = "zero"

ToolStep ==
  ChildForks \/ ChildExits \/ HelperExits \/ Deadline \/ ToolReturns

\* A caller takes the result; the next tool may start.
TakeResult == tool = "over" /\ tool' = "idle" /\ UNCHANGED <<child, helper, timedOut>>

=============================================================================
