-------------------------------- MODULE Access --------------------------------
(***************************************************************************)
(* What may be touched, and by whom: the path scope and the permissions of *)
(* src/src/policy, the routing table of src/src/router, and the scope the  *)
(* detectors get in src/src/detection/scope.ts.                            *)
(*                                                                         *)
(* A place is a sequence of names from the root of the file system, and a  *)
(* path is a place as it is spelled: some of the names on the way may be   *)
(* links, and a path that starts with Here is relative to a directory.  A  *)
(* pattern is the place, relative to the repository, that it matches.  A   *)
(* link leads to a place that is itself no link, and need not exist.       *)
(***************************************************************************)
EXTENDS Naturals, SequencesExt

CONSTANTS
  Root,          \* the target repository, a place
  Excluded,      \* config.target.excludedPaths, relative to it
  ScanExcluded,  \* config.target.scanExcludes
  DottedNames    \* names that begin with two dots

VARIABLES
  exists,   \* the places there are
  links     \* the links among the names: where each leads

fs_vars == <<exists, links>>

-----------------------------------------------------------------------------
(* The file system                                                         *)

Follow(place) == IF place \in DOMAIN links THEN links[place] ELSE place

\* Where a path leads, each name on the way followed if it is a link.
Real(path) ==
  LET at[n \in 0..Len(path)] ==
        IF n = 0 THEN <<>> ELSE Follow(Append(at[n-1], path[n]))
  IN  at[Len(path)]

Exists(path) == Real(path) \in exists

\* Some name on the way is a link to a place that does not exist.
Dangles(path) ==
  \E k \in DOMAIN path :
    LET name == Append(Real(SubSeq(path, 1, k - 1)), path[k])
    IN  name \in DOMAIN links /\ links[name] \notin exists

Here == "."

\* A path as it is taken in a directory.
From(dir, path) ==
  IF path # <<>> /\ Head(path) = Here THEN dir \o Tail(path) ELSE path

Under(place, dir) == IsPrefix(dir, place)

-----------------------------------------------------------------------------
(* The path scope                                                          *)

\* Mutant: a path is taken as it is spelled.
RealPathOfNearestExisting_Spelled(path) == path

\* The longest part of the path that exists, resolved, and the rest of it.  A link
\* to what does not exist does not exist either, and is taken as it is spelled.
RealPathOfNearestExisting(path) ==
  LET n == Max({k \in 0..Len(path) : Exists(SubSeq(path, 1, k))})
  IN  Real(SubSeq(path, 1, n)) \o SubSeq(path, n + 1, Len(path))

\* A pattern that matches a directory excludes what is under it.
IsExcluded(place, patterns) ==
  \E pattern \in patterns : Under(place, Root \o pattern)

\* A place that, relative to the repository, begins with two dots.
Outside(place) ==
  ~Under(place, Root) \/ \E name \in DottedNames : Under(place, Append(Root, name))

InScope(path, patterns) ==
  LET place == RealPathOfNearestExisting(From(Root, path))
  IN  ~Outside(place) /\ ~IsExcluded(place, patterns)

\* scopeOf: detectors are kept out of both lists, and agents out of one.
DetectorExclusions == Excluded \cup ScanExcluded

\* Mutant: one list for both, as it once was.
AgentExclusions_BothLists == DetectorExclusions

AgentExclusions == Excluded

-----------------------------------------------------------------------------
(* Routing and permissions                                                 *)

Agents == {"claude", "grok"}
Subtasks ==
  {"crash-analysis", "candidate-confirmation", "repro-authoring",
   "exploitability-assessment", "cold-hunt", "fix-planning",
   "fix", "refactor", "test-repair"}
FixSubtasks == {"fix", "refactor", "test-repair"}

RouteSubtask(subtask) == IF subtask \in FixSubtasks THEN "claude" ELSE "grok"

\* Mutant: the split is left to the prompts.
MayWrite_Anyone(agent) == TRUE

MayWrite(agent) == agent = "claude"

ToolAccessOf(kind) ==
  CASE kind \in {"read", "search", "fetch"} -> "read"
    [] kind \in {"edit", "delete", "move"}  -> "write"
    [] kind = "execute"                     -> "execute"
    [] OTHER                                -> "other"

ReadFile(agent, path) == InScope(path, AgentExclusions)

WriteFile(agent, path) == MayWrite(agent) /\ InScope(path, AgentExclusions)

ToolCall(agent, kind, paths) ==
  /\ \A path \in paths : InScope(path, AgentExclusions)
  /\ ToolAccessOf(kind) = "write" => MayWrite(agent)

=============================================================================
