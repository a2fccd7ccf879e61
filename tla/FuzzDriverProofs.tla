-------------------------- MODULE FuzzDriverProofs --------------------------
(***************************************************************************)
(* Theorems of one harness's fuzzing, for every harness (whatever its      *)
(* inputs crash with), every corpus, budget, cap and tool limit, and of    *)
(* its crashes' signatures, for all an engine may print that tells the     *)
(* failure plainly.                                                        *)
(***************************************************************************)
EXTENDS FuzzDriver, Recursion

-----------------------------------------------------------------------------
(* The inductive invariant                                                 *)

Emitting == {"replay", "minimize", "recheck"}

Typed ==
  /\ phase \in {"loop", "fuzzing", "done"} \cup Emitting
  /\ status \in {"none", "ok", "error"}
  /\ elapsed \in Nat /\ runIndex \in Nat /\ dry \in Nat
  /\ IsFiniteSet(seen)
  /\ corpus \subseteq Seeds /\ crashedOn \in [Seeds -> Nat]

\* A run starts with budget left; a crash's replays and its minimization come
\* after the run that met it, each adding no more than its own limit.
ClockInv ==
  /\ phase = "fuzzing" => elapsed < Budget
  /\ phase = "replay" => elapsed <= Budget + KillGrace
  /\ phase = "minimize" => elapsed <= Budget + KillGrace + ReplayTime
  /\ phase = "recheck" => elapsed <= Budget + KillGrace + ReplayTime + MinimizeTime
  /\ OverrunIsBounded

\* The first crash is new; from then on every new one pays for the runs without
\* news that came since the one before it.
PaidFor == (Cardinality(seen) - 1) * DryRunsBeforeStop + dry + 1

RestartInv ==
  /\ phase # "done" => dry < DryRunsBeforeStop
  /\ seen = {} => dry = 0 /\ runIndex <= 1 /\ phase \notin Emitting
                /\ (phase = "loop" => runIndex = 0)
  /\ seen # {} =>
       /\ phase \in {"loop"} \cup Emitting => runIndex <= PaidFor
       /\ phase = "fuzzing" => runIndex <= PaidFor + 1
  /\ RestartsAreEarned

\* A seed of the corpus directory that ended a run is no longer in it.
SeedInv == \A i \in TopSeeds : crashedOn[i] = 0 \/ (crashedOn[i] = 1 /\ i \notin corpus)

\* Past its first replay, a crash is one that replayed.
ReplayInv ==
  /\ phase \in {"minimize", "recheck"} => <<raw, signature>> \in replayed
  /\ ShippedReproduces

\* What replayed is reported and stored, or is on its way, or the run failed.
ProvenInv ==
  /\ phase # "done" => status = "none"
  /\ \A pair \in replayed :
       \/ status = "error"
       \/ pair[2] \in findings /\ pair[2] \in DOMAIN store
       \/ phase \in {"minimize", "recheck"} /\ pair[2] = signature

-----------------------------------------------------------------------------
(* The clock, and the steps that leave everything but the tool alone       *)

\* Taking a tool's result moves the clock forward by at most its limit.
LEMMA ClockMoves ==
  ASSUME Typed, ClockInv, TakeInTime
  PROVE  elapsed' \in Nat /\ elapsed <= elapsed' /\ elapsed' <= elapsed + Limit
<1>1. Limit \in Nat
  <2>1. phase = "fuzzing" => elapsed < Budget
    BY DEF ClockInv
  <2> QED BY <2>1, FuzzAssumption DEF Limit, Typed
<1>2. elapsed' = elapsed + Limit \/ elapsed' \in elapsed .. elapsed + Limit
  BY DEF TakeInTime
<1> QED BY <1>1, <1>2 DEF Typed

\* While a tool runs, and while nothing happens, the driver stands still.
Still == UNCHANGED <<elapsed, phase, drive_vars, crash_vars, store, history>>

\* The steps of the driver.
LEMMA DriverSteps ==
  ASSUME [Next]_vars
  PROVE  \/ NotRun \/ LoopEnds \/ StartRun
         \/ RunCannotStart \/ RunFindsNothing \/ CrashUnreadable
         \/ \E i \in Inputs, bug \in Bugs \cup {Fine} : \E report \in reports[bug] :
              KnownCrash(i, bug, report)
         \/ \E i \in Inputs, bug \in Bugs \cup {Fine} : \E report \in reports[bug] :
              NewCrash(i, bug, report)
         \/ \E reported : RawReplayed(reported)
         \/ \E reported : MinimizedReplayed(reported)
         \/ MinimizerWroteNothing
         \/ \E i \in Inputs : MinimizerWrote(i)
         \/ Still
<1>1. CASE UNCHANGED vars \/ Tools
  BY <1>1 DEF vars, Tools, Waiting, clock, Still
<1>2. CASE StartEmitTool
  BY <1>2 DEF StartEmitTool, clock, Still
<1>3. ASSUME NEW i \in Inputs, NEW bug \in BugsOf(i)
      PROVE  bug \in Bugs \cup {Fine}
  BY <1>3, FuzzAssumption DEF BugsOf
<1> QED BY <1>1, <1>2, <1>3 DEF Next, Drive

LEMMA TypedInit == Init => Typed
<1> SUFFICES ASSUME Init PROVE Typed
  OBVIOUS
<1>1. IsFiniteSet(seen)
  BY FS_EmptySet DEF Init
<1> QED BY <1>1 DEF Init, Typed, Seeds, Emitting

LEMMA TypedStep ==
  ASSUME Typed, ClockInv, [Next]_vars
  PROVE  Typed'
<1> USE FuzzAssumption DEF Emitting
<1>1. CASE NotRun
  BY <1>1 DEF NotRun, Fail, Typed, clock, history
<1>2. CASE LoopEnds
  BY <1>2 DEF LoopEnds, Finish, Typed, clock, history
<1>3. CASE StartRun
  BY <1>3 DEF StartRun, Typed, clock, history
<1>4. CASE RunCannotStart
  BY <1>4, ClockMoves DEF RunCannotStart, Fail, Typed, history
<1>5. CASE RunFindsNothing
  BY <1>5, ClockMoves DEF RunFindsNothing, Finish, Typed, history
<1>6. CASE CrashUnreadable
  BY <1>6, ClockMoves DEF CrashUnreadable, RunCrashed, Fail, Typed, history
<1>7. ASSUME NEW i, NEW bug, NEW r, Crashed(i, bug, r)
      PROVE  corpus' \subseteq Seeds /\ crashedOn' \in [Seeds -> Nat] /\ elapsed' \in Nat
  <2>1. corpus' \subseteq Seeds
    BY <1>7 DEF Crashed, DropCorpusUnitMatching, Typed
  <2>2. crashedOn' \in [Seeds -> Nat]
    BY <1>7 DEF Crashed, Typed
  <2>3. elapsed' \in Nat
    BY <1>7, ClockMoves DEF Crashed, RunCrashed
  <2> QED BY <2>1, <2>2, <2>3
<1>8. ASSUME NEW i, NEW bug, NEW r, KnownCrash(i, bug, r)
      PROVE  Typed'
  BY <1>7, <1>8 DEF KnownCrash, Finish, Typed
<1>9. ASSUME NEW i, NEW bug, NEW r, NewCrash(i, bug, r)
      PROVE  Typed'
  <2>1. IsFiniteSet(seen')
    BY <1>9, FS_AddElement DEF NewCrash, Typed
  <2> QED BY <1>7, <1>9, <2>1 DEF NewCrash, Typed
<1>10. ASSUME NEW reported, RawReplayed(reported)
       PROVE  Typed'
  BY <1>10, ClockMoves DEF RawReplayed, Typed, drive_vars
<1>11. ASSUME NEW reported, MinimizedReplayed(reported)
       PROVE  Typed'
  BY <1>11, ClockMoves DEF MinimizedReplayed, Ship, Typed
<1>12. CASE MinimizerWroteNothing
  BY <1>12, ClockMoves DEF MinimizerWroteNothing, Ship, Typed, history
<1>13. ASSUME NEW i, MinimizerWrote(i)
       PROVE  Typed'
  BY <1>13, ClockMoves DEF MinimizerWrote, Typed, drive_vars, history
<1>14. CASE Still
  BY <1>14 DEF Still, Typed, drive_vars, history
<1> QED BY <1>1, <1>2, <1>3, <1>4, <1>5, <1>6, <1>8, <1>9, <1>10, <1>11, <1>12, <1>13,
           <1>14, DriverSteps

-----------------------------------------------------------------------------
(* The budget                                                              *)

LEMMA ClockStep ==
  ASSUME Typed, ClockInv, [Next]_vars
  PROVE  ClockInv'
<1> USE FuzzAssumption DEF Emitting
<1> DEFINE Most == Budget + KillGrace + 2 * ReplayTime + MinimizeTime
<1>1. CASE elapsed' = elapsed /\ (phase' = phase \/ phase' \in {"loop", "done"})
  BY <1>1 DEF ClockInv, OverrunIsBounded
<1>2. CASE StartRun
  BY <1>2 DEF StartRun, TimeLeft, ClockInv, OverrunIsBounded, clock, Typed
<1>3. CASE phase = "fuzzing" /\ TakeInTime /\ phase' \in {"loop", "done", "replay"}
  <2>1. elapsed' <= Budget + KillGrace /\ elapsed' \in Nat
    BY <1>3, ClockMoves DEF Limit, Typed
  <2>2. phase' = "replay" => elapsed' <= Budget + KillGrace
    BY <2>1
  <2>3. elapsed' <= Most
    BY <2>1
  <2> QED BY <1>3, <2>2, <2>3 DEF ClockInv, OverrunIsBounded
<1>4. CASE phase = "replay" /\ TakeInTime /\ phase' \in {"minimize", "loop"}
  <2>1. elapsed' <= Budget + KillGrace + ReplayTime /\ elapsed' \in Nat
    BY <1>4, ClockMoves DEF Limit, Typed, ClockInv
  <2>2. elapsed' <= Most
    BY <2>1
  <2> QED BY <1>4, <2>1, <2>2 DEF ClockInv, OverrunIsBounded
<1>5. CASE phase = "minimize" /\ TakeInTime /\ phase' \in {"recheck", "loop"}
  <2>1. elapsed' <= Budget + KillGrace + ReplayTime + MinimizeTime /\ elapsed' \in Nat
    BY <1>5, ClockMoves DEF Limit, Typed, ClockInv
  <2>2. elapsed' <= Most
    BY <2>1
  <2> QED BY <1>5, <2>1, <2>2 DEF ClockInv, OverrunIsBounded
<1>6. CASE phase = "recheck" /\ TakeInTime /\ phase' = "loop"
  <2>1. elapsed' <= Most
    BY <1>6, ClockMoves DEF Limit, Typed, ClockInv
  <2> QED BY <1>6, <2>1 DEF ClockInv, OverrunIsBounded
<1>7. NotRun \/ LoopEnds \/ Still =>
        elapsed' = elapsed /\ (phase' = phase \/ phase' \in {"loop", "done"})
  BY DEF NotRun, LoopEnds, Still, Fail, Finish, clock
<1>8. ASSUME \/ RunCannotStart \/ RunFindsNothing \/ CrashUnreadable
             \/ \E i, bug, r : KnownCrash(i, bug, r) \/ NewCrash(i, bug, r)
      PROVE  phase = "fuzzing" /\ TakeInTime /\ phase' \in {"loop", "done", "replay"}
  BY <1>8 DEF RunCannotStart, RunFindsNothing, CrashUnreadable, KnownCrash, NewCrash,
              Crashed, RunCrashed, Finish, Fail
<1>9. ASSUME NEW reported, RawReplayed(reported)
      PROVE  phase = "replay" /\ TakeInTime /\ phase' \in {"minimize", "loop"}
  BY <1>9 DEF RawReplayed
<1>10. ASSUME MinimizerWroteNothing \/ \E i : MinimizerWrote(i)
       PROVE  phase = "minimize" /\ TakeInTime /\ phase' \in {"recheck", "loop"}
  BY <1>10 DEF MinimizerWroteNothing, MinimizerWrote, Ship
<1>11. ASSUME NEW reported, MinimizedReplayed(reported)
       PROVE  phase = "recheck" /\ TakeInTime /\ phase' = "loop"
  BY <1>11 DEF MinimizedReplayed, Ship
<1> HIDE DEF Most
<1> QED BY <1>1, <1>2, <1>3, <1>4, <1>5, <1>6, <1>7, <1>8, <1>9, <1>10, <1>11, DriverSteps

LEMMA ClockInit == Init => ClockInv
<1> SUFFICES ASSUME Init PROVE ClockInv
  OBVIOUS
<1>1. elapsed = 0 /\ phase = "loop"
  BY DEF Init
<1>2. 0 <= Budget + KillGrace + 2 * ReplayTime + MinimizeTime
  BY FuzzAssumption
<1> QED BY <1>1, <1>2 DEF ClockInv, OverrunIsBounded

\* The clock's invariant comes with the types it is said in.
LEMMA DriverTyped == Spec => [](Typed /\ ClockInv)
<1>1. Init => Typed /\ ClockInv
  BY TypedInit, ClockInit
<1>2. Typed /\ ClockInv /\ [Next]_vars => Typed' /\ ClockInv'
  BY TypedStep, ClockStep
<1> QED BY <1>1, <1>2, PTL DEF Spec

\* fuzz.ts:26: whatever crashes, and however often, a harness is over its budget by
\* at most one engine's grace, two replays and one minimization.
THEOREM OverrunStaysBounded == Spec => []OverrunIsBounded
<1>1. ClockInv => OverrunIsBounded
  BY DEF ClockInv
<1> QED BY <1>1, DriverTyped, PTL

-----------------------------------------------------------------------------
(* Restarts                                                                *)

\* One more signature pays for DryRunsBeforeStop more runs.
LEMMA OneMorePays ==
  ASSUME NEW n \in Nat
  PROVE  (n + 1) * DryRunsBeforeStop = n * DryRunsBeforeStop + DryRunsBeforeStop
BY FuzzAssumption

\* How many signatures there are, of at least one.
LEMMA SeenSize ==
  ASSUME Typed
  PROVE  /\ Cardinality(seen) \in Nat
         /\ seen # {} => Cardinality(seen) - 1 \in Nat
<1>1. Cardinality(seen) \in Nat /\ (Cardinality(seen) = 0 <=> seen = {})
  BY FS_CardinalityType, FS_EmptySet DEF Typed
<1> QED BY <1>1

LEMMA RestartStep ==
  ASSUME Typed, RestartInv, [Next]_vars
  PROVE  RestartInv'
<1> USE FuzzAssumption DEF Emitting
<1> DEFINE c == Cardinality(seen)
           D == DryRunsBeforeStop
<1>0. D \in Nat \ {0} /\ runIndex \in Nat /\ dry \in Nat
  BY DEF Typed
<1>1. /\ c \in Nat /\ (seen = {} => c = 0 /\ c * D = 0)
      /\ seen # {} => (c - 1) * D \in Nat /\ c * D = (c - 1) * D + D
  <2>1. c \in Nat /\ (c = 0 <=> seen = {})
    BY FS_CardinalityType, FS_EmptySet DEF Typed
  <2>2. ASSUME seen # {}
        PROVE  (c - 1) * D \in Nat /\ c * D = (c - 1) * D + D
    <3>1. c - 1 \in Nat /\ (c - 1) + 1 = c
      BY <2>1, <2>2
    <3>2. (c - 1) * D \in Nat
      BY <3>1
    <3> QED BY <3>1, <3>2, OneMorePays
  <2> QED BY <2>1, <2>2
<1>2. CASE /\ runIndex' = runIndex /\ dry' = dry /\ seen' = seen
           /\ \/ phase' = phase \/ phase' = "done"
              \/ phase \in Emitting /\ phase' \in {"loop"} \cup Emitting
  <2>1. PaidFor' = PaidFor
    BY <1>2 DEF PaidFor
  <2> QED BY <1>2, <2>1 DEF RestartInv, RestartsAreEarned
<1>3. CASE StartRun
  <2>1. /\ phase = "loop" /\ phase' = "fuzzing" /\ runIndex' = runIndex + 1
        /\ dry' = dry /\ seen' = seen
    BY <1>3 DEF StartRun
  <2>2. PaidFor' = PaidFor
    BY <2>1 DEF PaidFor
  <2>3. CASE seen = {}
    BY <1>0, <1>1, <2>1, <2>3 DEF RestartInv, RestartsAreEarned
  <2>4. CASE seen # {}
    <3>1. runIndex <= PaidFor /\ dry < D
      BY <2>1, <2>4 DEF RestartInv
    <3>2. PaidFor = (c - 1) * D + dry + 1
      BY DEF PaidFor
    <3>3. runIndex' <= c * D + 1 /\ runIndex' <= PaidFor + 1
      <4> HIDE DEF c, D
      <4> QED BY <1>0, <1>1, <2>1, <2>4, <3>1, <3>2
    <3> QED BY <2>1, <2>2, <2>4, <3>1, <3>3 DEF RestartInv, RestartsAreEarned
  <2> QED BY <2>3, <2>4
<1>4. ASSUME NEW i, NEW bug, NEW r, KnownCrash(i, bug, r)
      PROVE  RestartInv'
  <2>1. /\ phase = "fuzzing" /\ runIndex' = runIndex /\ dry' = dry + 1 /\ seen' = seen
        /\ seen # {} /\ phase' \in {"loop", "done"} /\ (phase' = "loop" => dry' < D)
    BY <1>0, <1>4 DEF KnownCrash, Crashed, RunCrashed, Finish
  <2>2. PaidFor' = PaidFor + 1
    <3> HIDE DEF c, D
    <3>1. PaidFor = (c - 1) * D + dry + 1 /\ PaidFor' = (c - 1) * D + dry' + 1
      BY <2>1 DEF PaidFor, c, D
    <3> QED BY <1>0, <1>1, <2>1, <3>1
  <2> QED BY <2>1, <2>2 DEF RestartInv, RestartsAreEarned
<1>5. ASSUME NEW i, NEW bug, NEW r, NewCrash(i, bug, r)
      PROVE  RestartInv'
  <2>1. /\ phase = "fuzzing" /\ runIndex' = runIndex /\ dry' = 0 /\ seen' = seen \cup {r.signature}
        /\ r.signature \notin seen /\ phase' = "replay"
    BY <1>5 DEF NewCrash, Crashed, RunCrashed
  <2>2. Cardinality(seen') = c + 1
    BY <2>1, FS_AddElement DEF Typed
  <2>3. PaidFor' = c * D + 1
    <3> HIDE DEF c, D
    <3>1. PaidFor' = ((c + 1) - 1) * D + 0 + 1
      BY <2>1, <2>2 DEF PaidFor, c, D
    <3>2. (c + 1) - 1 = c
      BY <1>1
    <3>3. c * D \in Nat
      BY <1>0, <1>1
    <3> QED BY <3>1, <3>2, <3>3
  <2>4. runIndex <= c * D + 1
    BY DEF RestartInv, RestartsAreEarned
  <2>5. RestartsAreEarned'
    <3> HIDE DEF c, D
    <3>1. (c + 1) * D = c * D + D /\ c * D \in Nat
      BY <1>0, <1>1, OneMorePays DEF D
    <3>2. runIndex' <= (c + 1) * D + 1
      BY <1>0, <2>1, <2>4, <3>1
    <3> QED BY <2>2, <3>2 DEF RestartsAreEarned, D
  <2> QED BY <1>0, <2>1, <2>3, <2>4, <2>5 DEF RestartInv
<1>6. NotRun \/ LoopEnds \/ RunCannotStart \/ RunFindsNothing \/ CrashUnreadable =>
        runIndex' = runIndex /\ dry' = dry /\ seen' = seen /\ phase' = "done"
  BY DEF NotRun, LoopEnds, RunCannotStart, RunFindsNothing, CrashUnreadable, Fail, Finish
<1>7. ASSUME \/ \E reported : RawReplayed(reported) \/ MinimizedReplayed(reported)
             \/ MinimizerWroteNothing \/ \E i : MinimizerWrote(i)
      PROVE  /\ runIndex' = runIndex /\ dry' = dry /\ seen' = seen
             /\ phase \in Emitting /\ phase' \in {"loop"} \cup Emitting
  BY <1>7 DEF RawReplayed, MinimizedReplayed, MinimizerWroteNothing, MinimizerWrote, Ship,
              drive_vars
<1>8. Still => runIndex' = runIndex /\ dry' = dry /\ seen' = seen /\ phase' = phase
  BY DEF Still, drive_vars
<1> QED BY <1>2, <1>3, <1>4, <1>5, <1>6, <1>7, <1>8, DriverSteps

\* libfuzzer-driver.ts: the engine is restarted no more often than its new crashes
\* pay for, whatever the budget and the cap on runs.
THEOREM RestartsStayEarned == Spec => []RestartsAreEarned
<1>1. ASSUME Init
      PROVE  RestartInv
  <2>1. /\ seen = {} /\ dry = 0 /\ runIndex = 0 /\ phase = "loop"
        /\ Cardinality(seen) = 0
    BY <1>1, FS_EmptySet DEF Init
  <2>2. RestartsAreEarned
    BY <2>1, FuzzAssumption DEF RestartsAreEarned
  <2> QED BY <2>1, <2>2, FuzzAssumption DEF RestartInv, Emitting
<1>2. Typed /\ RestartInv /\ [Next]_vars => RestartInv'
  BY RestartStep
<1>3. RestartInv => RestartsAreEarned
  BY DEF RestartInv
<1> QED BY <1>1, <1>2, <1>3, DriverTyped, PTL DEF Spec

-----------------------------------------------------------------------------
(* Seeds                                                                   *)

LEMMA SeedStep ==
  ASSUME Typed, SeedInv, [Next]_vars
  PROVE  SeedInv'
<1>1. ASSUME NEW i, NEW bug, NEW r, Crashed(i, bug, r)
      PROVE  SeedInv'
  <2> SUFFICES ASSUME NEW seed \in TopSeeds
               PROVE  \/ crashedOn'[seed] = 0
                      \/ crashedOn'[seed] = 1 /\ seed \notin corpus'
    BY DEF SeedInv
  <2>1. corpus' = corpus \ ({i} \cap TopSeeds) /\ seed \in Seeds
    BY <1>1 DEF Crashed, DropCorpusUnitMatching, Seeds
  <2>2. CASE i \in corpus /\ seed = i
    <3>1. crashedOn'[seed] = crashedOn[seed] + 1
      BY <1>1, <2>1, <2>2 DEF Crashed, Typed
    <3>2. crashedOn[seed] = 0
      BY <2>2 DEF SeedInv
    <3> QED BY <2>1, <2>2, <3>1, <3>2
  <2>3. CASE ~(i \in corpus /\ seed = i)
    <3>1. crashedOn'[seed] = crashedOn[seed]
      BY <1>1, <2>1, <2>3 DEF Crashed, Typed
    <3> QED BY <2>1, <3>1 DEF SeedInv
  <2> QED BY <2>2, <2>3
<1>2. CASE UNCHANGED <<corpus, crashedOn>>
  BY <1>2 DEF SeedInv
<1>3. \/ \E i, bug, r : Crashed(i, bug, r)
      \/ UNCHANGED <<corpus, crashedOn>>
  BY DriverSteps DEF NotRun, LoopEnds, StartRun, RunCannotStart, RunFindsNothing,
     CrashUnreadable, KnownCrash, NewCrash, RawReplayed, MinimizedReplayed,
     MinimizerWroteNothing, MinimizerWrote, Still, drive_vars, history
<1> QED BY <1>1, <1>2, <1>3

\* libfuzzer-driver.ts:173: a crashing seed of the corpus directory ends one run.
THEOREM SeedsCrashOnce == Spec => []NoSeedCrashesTwice
<1>1. Init => SeedInv
  BY DEF Init, SeedInv, Seeds
<1>2. Typed /\ SeedInv /\ [Next]_vars => SeedInv'
  BY SeedStep
<1>3. SeedInv => NoSeedCrashesTwice
  BY DEF SeedInv, NoSeedCrashesTwice
<1> QED BY <1>1, <1>2, <1>3, DriverTyped, PTL DEF Spec

-----------------------------------------------------------------------------
(* What is shipped, and what is reported                                   *)

LEMMA ReplayStep ==
  ASSUME ReplayInv, [Next]_vars
  PROVE  ReplayInv'
<1>1. ASSUME NEW artifact, Ship(artifact),
             <<raw, signature>> \in replayed, raw' = raw, signature' = signature,
             replayed \subseteq replayed', <<artifact, signature>> \in replayed'
      PROVE  ReplayInv'
  <2>1. \A s \in DOMAIN store' : <<store'[s][1], s>> \in replayed'
    BY <1>1 DEF Ship, ReplayInv, ShippedReproduces
  <2> QED BY <1>1, <2>1 DEF ReplayInv, ShippedReproduces
<1>2. ASSUME NEW reported, RawReplayed(reported)
      PROVE  ReplayInv'
  BY <1>2 DEF RawReplayed, ReplayInv, ShippedReproduces, crash_vars
<1>3. ASSUME NEW reported, MinimizedReplayed(reported)
      PROVE  ReplayInv'
  <2>1. Ship(minimized) \/ Ship(raw)
    BY <1>3 DEF MinimizedReplayed
  <2>2. /\ <<raw, signature>> \in replayed /\ replayed \subseteq replayed'
        /\ raw' = raw /\ signature' = signature
    BY <1>3 DEF MinimizedReplayed, ReplayInv, crash_vars
  <2>3. CASE Replays(minimized, reported)
    BY <1>1, <1>3, <2>2, <2>3 DEF MinimizedReplayed
  <2>4. CASE ~Replays(minimized, reported)
    BY <1>1, <1>3, <2>2, <2>4 DEF MinimizedReplayed
  <2> QED BY <2>3, <2>4
<1>4. CASE MinimizerWroteNothing
  BY <1>1, <1>4 DEF MinimizerWroteNothing, ReplayInv, crash_vars, history
<1>5. ASSUME NEW i, MinimizerWrote(i)
      PROVE  ReplayInv'
  BY <1>5 DEF MinimizerWrote, ReplayInv, ShippedReproduces, history
<1>6. CASE Still
  BY <1>6 DEF Still, ReplayInv, ShippedReproduces, crash_vars, history
<1>7. CASE /\ phase' \notin {"minimize", "recheck"}
           /\ UNCHANGED <<store, replayed>>
  BY <1>7 DEF ReplayInv, ShippedReproduces
<1>8. ASSUME \/ NotRun \/ LoopEnds \/ StartRun \/ RunCannotStart \/ RunFindsNothing
             \/ CrashUnreadable
             \/ \E i, bug, r : KnownCrash(i, bug, r) \/ NewCrash(i, bug, r)
      PROVE  phase' \notin {"minimize", "recheck"} /\ UNCHANGED <<store, replayed>>
  BY <1>8 DEF NotRun, LoopEnds, StartRun, RunCannotStart, RunFindsNothing,
     CrashUnreadable, KnownCrash, NewCrash, Fail, Finish, history
<1> QED BY <1>2, <1>3, <1>4, <1>5, <1>6, <1>7, <1>8, DriverSteps

LEMMA ReplayInit == Init => ReplayInv
BY DEF Init, ReplayInv, ShippedReproduces

\* replaysWithSignature: an artifact in the target reproduces the crash it is filed
\* under, whatever the minimizer made of it.
THEOREM ShippedStaysReproducible == Spec => []ShippedReproduces
<1>1. ReplayInv /\ [Next]_vars => ReplayInv'
  BY ReplayStep
<1>2. ReplayInv => ShippedReproduces
  BY DEF ReplayInv
<1> QED BY <1>1, <1>2, ReplayInit, PTL DEF Spec

LEMMA ProvenStep ==
  ASSUME ProvenInv, [Next]_vars
  PROVE  ProvenInv'
<1>1. ASSUME NEW artifact, Ship(artifact), phase # "done",
             status' = status, signature' = signature,
             \A pair \in replayed' : pair \in replayed \/ pair[2] = signature
      PROVE  ProvenInv'
  <2>1. /\ DOMAIN store' = DOMAIN store \cup {signature}
        /\ findings' = findings \cup {signature}
    BY <1>1 DEF Ship
  <2> QED BY <1>1, <2>1 DEF ProvenInv
<1>2. ASSUME NEW reported, RawReplayed(reported)
      PROVE  ProvenInv'
  BY <1>2 DEF RawReplayed, ProvenInv, drive_vars, crash_vars
<1>3. ASSUME NEW reported, MinimizedReplayed(reported)
      PROVE  ProvenInv'
  BY <1>1, <1>3 DEF MinimizedReplayed, crash_vars
<1>4. CASE MinimizerWroteNothing
  BY <1>1, <1>4 DEF MinimizerWroteNothing, crash_vars, history
<1>5. ASSUME NEW i, MinimizerWrote(i)
      PROVE  ProvenInv'
  BY <1>5 DEF MinimizerWrote, ProvenInv, drive_vars, history
<1>6. CASE Still
  BY <1>6 DEF Still, ProvenInv, drive_vars, crash_vars, history
<1>7. CASE Fail
  BY <1>7 DEF Fail, ProvenInv
<1>8. CASE /\ phase \notin {"done", "minimize", "recheck"}
           /\ UNCHANGED <<store, replayed, findings>> /\ (phase' # "done" => status' = status)
  BY <1>8 DEF ProvenInv
<1>9. NotRun \/ RunCannotStart \/ CrashUnreadable => Fail
  BY DEF NotRun, RunCannotStart, CrashUnreadable
<1>10. ASSUME \/ LoopEnds \/ StartRun \/ RunFindsNothing
              \/ \E i, bug, r : KnownCrash(i, bug, r) \/ NewCrash(i, bug, r)
       PROVE  /\ phase \notin {"done", "minimize", "recheck"}
              /\ UNCHANGED <<store, replayed, findings>> /\ (phase' # "done" => status' = status)
  BY <1>10 DEF LoopEnds, StartRun, RunFindsNothing, KnownCrash, NewCrash, Crashed,
               RunCrashed, Finish, history
<1> QED BY <1>2, <1>3, <1>4, <1>5, <1>6, <1>7, <1>8, <1>9, <1>10, DriverSteps

\* A crash that replayed is reported and stored, however its minimization went,
\* unless the whole run is reported as an error.
THEOREM ProvenIsReported == Spec => []NothingProvenIsLost
<1>1. Init => ProvenInv
  BY DEF Init, ProvenInv
<1>2. ProvenInv /\ [Next]_vars => ProvenInv'
  BY ProvenStep
<1>3. ProvenInv => NothingProvenIsLost
  BY DEF ProvenInv, NothingProvenIsLost
<1> QED BY <1>1, <1>2, <1>3, PTL DEF Spec

-----------------------------------------------------------------------------
(* What a crash is told apart by                                           *)

LEMMA LeastIs ==
  ASSUME NEW S \in SUBSET Nat, NEW m \in S, \A k \in S : m <= k
  PROVE  Min(S) = m
<1> DEFINE Least(x) == x \in S /\ \A y \in S : x <= y
           least == CHOOSE x \in S : \A y \in S : x <= y
<1>1. Least(m)
  OBVIOUS
<1>2. Least(least)
  BY <1>1
<1>3. m \in Nat /\ least \in Nat /\ m <= least /\ least <= m
  BY <1>1, <1>2
<1>4. least = m
  <2> HIDE DEF least
  <2> QED BY <1>3
<1> QED BY <1>4 DEF Min

LEMMA AmongNone ==
  ASSUME NEW X, NEW S, X \cap S = {}
  PROVE  \A s \in Seq(X) : Among(s, S) = <<>>
<1> SUFFICES ASSUME NEW s \in Seq(X) PROVE Among(s, S) = <<>>
  OBVIOUS
<1>1. Among(s, S) \in Seq(X \cap S)
  BY AmongTyped
<1> QED BY <1>1, EmptySeq

LEMMA Between ==
  ASSUME NEW X, NEW s \in Seq(X), NEW a \in 1..Len(s), NEW b \in Nat, a <= b + 1, b <= Len(s)
  PROVE  /\ SubSeq(s, a, b) \in Seq(X) /\ Len(SubSeq(s, a, b)) = b - a + 1
         /\ \A k \in 1 .. b - a + 1 : SubSeq(s, a, b)[k] = s[a + k - 1]
OBVIOUS

LEMMA TwoParts ==
  ASSUME NEW X, NEW s \in Seq(X), NEW a \in 1..Len(s), NEW b \in Nat, NEW c \in Nat,
         a <= b, b <= c, c <= Len(s)
  PROVE  /\ SubSeq(s, a, b) \in Seq(X) /\ SubSeq(s, b + 1, c) \in Seq(X)
         /\ SubSeq(s, a, c) = SubSeq(s, a, b) \o SubSeq(s, b + 1, c)
         /\ Len(SubSeq(s, b + 1, c)) = c - b
         /\ \A k \in 1 .. c - b : SubSeq(s, b + 1, c)[k] = s[b + k]
OBVIOUS

LEMMA AllAmong ==
  ASSUME NEW X, NEW s \in Seq(X), NEW F, \A k \in 1..Len(s) : s[k] \in F
  PROVE  s \in Seq(F)
OBVIOUS

LEMMA KindIsRead ==
  ASSUME NEW eng \in Engines, NEW stderr, stderr \in Seq(ToSet(stderr)), NEW kind,
         NamesKind(eng, stderr, kind)
  PROVE  CrashKind(eng, stderr) = kind
<1> DEFINE shapes == Shapes[eng]
           Of(shape) == {i \in DOMAIN stderr : stderr[i].line = shape}
           found == {n \in DOMAIN shapes : Of(shapes[n]) # {}}
<1>1. PICK n \in DOMAIN shapes, i \in DOMAIN stderr :
        /\ stderr[i] = Says(shapes[n], kind)
        /\ \A j \in DOMAIN stderr :
             /\ j < i => stderr[j].line # shapes[n]
             /\ \A m \in DOMAIN shapes : m < n => stderr[j].line # shapes[m]
  BY DEF NamesKind
<1>2. DOMAIN shapes \subseteq Nat /\ DOMAIN stderr \subseteq Nat
  <2>1. DOMAIN shapes = 1..3
    BY DEF Shapes, Engines
  <2>2. DOMAIN stderr = 1..Len(stderr)
    OBVIOUS
  <2> QED BY <2>1, <2>2
<1>3. stderr[i].line = shapes[n] /\ stderr[i].kind = kind
  BY <1>1 DEF Says
<1> HIDE DEF shapes
<1>4. Min(Of(shapes[n])) = i
  <2>1. i \in Of(shapes[n]) /\ Of(shapes[n]) \in SUBSET Nat
    BY <1>1, <1>2, <1>3
  <2>2. \A j \in Of(shapes[n]) : i <= j
    BY <1>1, <1>2
  <2> HIDE DEF Of
  <2> QED BY <2>1, <2>2, LeastIs
<1>5. Min(found) = n /\ found # {}
  <2>1. n \in found /\ found \in SUBSET Nat
    BY <1>1, <1>2, <1>3
  <2>2. \A m \in found : n <= m
    BY <1>1, <1>2
  <2> HIDE DEF found
  <2> QED BY <2>1, <2>2, LeastIs
<1>6. CrashKind(eng, stderr) = IF found = {} THEN NoKind ELSE stderr[Min(Of(shapes[Min(found)]))].kind
  BY DEF CrashKind, shapes
<1> HIDE DEF found, Of
<1> QED BY <1>3, <1>4, <1>5, <1>6

\* V8's stack: the frames there are in a row.
LEMMA RowIsRead ==
  ASSUME NEW X, NEW stderr \in Seq(X), NEW first \in 1..Len(stderr), NEW last \in first..Len(stderr),
         \A i \in 1 .. first - 1 : ~IsFrame(stderr[i]),
         \A i \in first .. last : IsFrame(stderr[i]),
         \A i \in 1..Len(stderr) : i = last + 1 => ~IsFrame(stderr[i])
  PROVE  LET frames == {i \in DOMAIN stderr : IsFrame(stderr[i])}
         IN  FromTo(stderr, frames, DOMAIN stderr \ frames) = SubSeq(stderr, first, last)
<1> DEFINE frames == {i \in DOMAIN stderr : IsFrame(stderr[i])}
           after == {e \in DOMAIN stderr \ frames : e > first} \cup {Len(stderr) + 1}
<1>1. DOMAIN stderr = 1..Len(stderr) /\ Len(stderr) \in Nat /\ first \in Nat /\ last \in Nat
  OBVIOUS
<1>2. Min(frames) = first /\ frames # {}
  <2>1. first \in frames /\ frames \in SUBSET Nat
    BY <1>1
  <2>2. \A i \in frames : first <= i
    BY <1>1
  <2> HIDE DEF frames
  <2> QED BY <2>1, <2>2, LeastIs
<1>3. Min(after) = last + 1
  <2>1. last + 1 \in after /\ after \in SUBSET Nat
    BY <1>1
  <2>2. \A e \in after : last + 1 <= e
    BY <1>1
  <2> HIDE DEF after
  <2> QED BY <1>1, <2>1, <2>2, LeastIs
<1>4. FromTo(stderr, frames, DOMAIN stderr \ frames) = SubSeq(stderr, Min(frames), Min(after) - 1)
  <2>1. after = {e \in DOMAIN stderr \ frames : e > Min(frames)} \cup {Len(stderr) + 1}
    <3> HIDE DEF frames
    <3> QED BY <1>2
  <2> HIDE DEF frames, after
  <2> QED BY <1>2, <2>1 DEF FromTo
<1> HIDE DEF frames, after
<1>5. (last + 1) - 1 = last
  BY <1>1
<1>6. FromTo(stderr, frames, DOMAIN stderr \ frames) = SubSeq(stderr, first, last)
  BY <1>2, <1>3, <1>4, <1>5
<1> QED BY <1>6 DEF frames

\* The frames among the lines from one place to another, if those are the first of
\* them up to a place between.
LEMMA FramesFirst ==
  ASSUME NEW X, NEW s \in Seq(X), NEW a \in 1..Len(s), NEW b \in a..Len(s), NEW c \in b..Len(s),
         \A i \in a..b : IsFrame(s[i]), \A i \in b + 1 .. c : ~IsFrame(s[i])
  PROVE  Frames(SubSeq(s, a, c)) = SubSeq(s, a, b)
<1> DEFINE F == {x \in X : IsFrame(x)}
           stack == SubSeq(s, a, b)
           rest == SubSeq(s, b + 1, c)
           region == SubSeq(s, a, c)
<1>1. /\ stack \in Seq(X) /\ rest \in Seq(X) /\ region = stack \o rest
      /\ Len(rest) = c - b /\ \A k \in 1 .. c - b : rest[k] = s[b + k]
  <2>1. b \in Nat /\ c \in Nat /\ a <= b /\ b <= c /\ c <= Len(s)
    OBVIOUS
  <2> QED BY ONLY <2>1, s \in Seq(X), a \in 1..Len(s), TwoParts
<1>2. Len(stack) = b - a + 1 /\ \A k \in 1 .. b - a + 1 : stack[k] = s[a + k - 1]
  <2>1. b \in Nat /\ a <= b + 1 /\ b <= Len(s)
    OBVIOUS
  <2> QED BY ONLY <2>1, s \in Seq(X), a \in 1..Len(s), Between
<1>3. region \in Seq(X)
  <2>1. c \in Nat /\ a <= c + 1 /\ c <= Len(s)
    OBVIOUS
  <2> QED BY ONLY <2>1, s \in Seq(X), a \in 1..Len(s), Between
<1> HIDE DEF stack, rest, region
<1>4. stack \in Seq(F)
  <2>1. ASSUME NEW k \in 1..Len(stack)
        PROVE  stack[k] \in F
    <3>1. stack[k] \in X /\ stack[k] = s[a + k - 1] /\ a + k - 1 \in a..b
      BY <1>1, <1>2
    <3> QED BY <3>1
  <2> HIDE DEF F
  <2> QED BY ONLY <1>1, <2>1, AllAmong
<1>5. rest \in Seq(X \ F)
  <2>1. ASSUME NEW k \in 1..Len(rest)
        PROVE  rest[k] \in X \ F
    <3>1. rest[k] \in X /\ rest[k] = s[b + k] /\ b + k \in b + 1 .. c
      BY <1>1
    <3> QED BY <3>1
  <2> HIDE DEF F
  <2> QED BY ONLY <1>1, <2>1, AllAmong
<1>6. Among(region, F) = stack
  <2>1. Among(region, F) = Among(stack, F) \o Among(rest, F)
    <3> HIDE DEF F
    <3> QED BY <1>1, AmongConcat
  <2>2. Among(stack, F) = stack
    <3> HIDE DEF F
    <3> QED BY <1>4, AmongAll
  <2>3. Among(rest, F) = <<>>
    <3>1. (X \ F) \cap F = {}
      OBVIOUS
    <3> HIDE DEF F
    <3> QED BY <1>5, <3>1, AmongNone
  <2>4. stack \o <<>> = stack
    BY <1>1
  <2> QED BY <2>1, <2>2, <2>3, <2>4
<1>7. Frames(region) = Among(region, F)
  <2> DEFINE Y == ToSet(region)
             S == {x \in Y : IsFrame(x)}
  <2>1. region \in Seq(Y) /\ Y \subseteq X
    <3>1. DOMAIN region = 1..Len(region) /\ \A k \in 1..Len(region) : region[k] \in X
      BY <1>3
    <3>2. Y = {region[k] : k \in DOMAIN region}
      BY DEF ToSet
    <3>3. \A k \in 1..Len(region) : region[k] \in Y
      BY <3>1, <3>2
    <3>4. Y \subseteq X
      BY <3>1, <3>2
    <3> HIDE DEF Y
    <3>5. region \in Seq(Y)
      BY ONLY <1>3, <3>3, AllAmong
    <3> QED BY <3>4, <3>5
  <2>2. \A x \in Y : x \in S <=> x \in F
    BY <2>1
  <2>3. Frames(region) = Among(region, S)
    BY DEF Frames
  <2> HIDE DEF S, Y, F
  <2> QED BY <2>1, <2>2, <2>3, AmongSame
<1> QED BY <1>6, <1>7 DEF stack, region

\* A sanitizer's stack: the frames from one numbered 0 to before the next.
LEMMA NumberedIsRead ==
  ASSUME NEW X, NEW stderr \in Seq(X), NEW first \in 1..Len(stderr), NEW last \in first..Len(stderr),
         \A i \in 1 .. first - 1 : ~IsFrame(stderr[i]),
         \A i \in first .. last : IsFrame(stderr[i]) /\ (stderr[i].at = 0 <=> i = first),
         \A i \in last + 1 .. Len(stderr) :
           IsFrame(stderr[i]) => \E j \in last + 1 .. i : IsFrame(stderr[j]) /\ stderr[j].at = 0
  PROVE  LET frames == {i \in DOMAIN stderr : IsFrame(stderr[i])}
             zeros == {i \in frames : stderr[i].at = 0}
         IN  Frames(FromTo(stderr, zeros, zeros)) = SubSeq(stderr, first, last)
<1> DEFINE frames == {i \in DOMAIN stderr : IsFrame(stderr[i])}
           zeros == {i \in frames : stderr[i].at = 0}
           after == {e \in zeros : e > first} \cup {Len(stderr) + 1}
<1>1. DOMAIN stderr = 1..Len(stderr) /\ Len(stderr) \in Nat /\ first \in Nat /\ last \in Nat
  OBVIOUS
<1>2. \A i \in zeros : i \in 1..Len(stderr) /\ IsFrame(stderr[i]) /\ stderr[i].at = 0
  BY <1>1
<1>3. \A i \in 1..Len(stderr) : IsFrame(stderr[i]) /\ stderr[i].at = 0 => i \in zeros
  BY <1>1
<1> HIDE DEF zeros
<1>4. Min(zeros) = first /\ zeros # {}
  <2>1. first \in zeros
    BY <1>1, <1>3
  <2>2. zeros \in SUBSET Nat
    BY <1>2
  <2>3. \A i \in zeros : first <= i
    BY <1>1, <1>2
  <2> QED BY <2>1, <2>2, <2>3, LeastIs
<1>5. after \in SUBSET Nat /\ after # {}
  BY <1>1, <1>2
<1>6. PICK end \in after : \A e \in after : end <= e
  <2> HIDE DEF after
  <2> QED BY <1>5, LeastNumber
<1>7. end \in Nat /\ end > last /\ end <= Len(stderr) + 1
  <2>1. end \in Nat /\ end > first /\ end <= Len(stderr) + 1
    BY <1>1, <1>2
  <2>2. CASE end \in zeros
    BY <1>1, <1>2, <2>1, <2>2
  <2>3. CASE end = Len(stderr) + 1
    BY <1>1, <2>1, <2>3
  <2> QED BY <2>2, <2>3
<1>8. ASSUME NEW i \in last + 1 .. end - 1, IsFrame(stderr[i])
      PROVE  FALSE
  <2>1. i \in last + 1 .. Len(stderr)
    BY <1>1, <1>7
  <2>2. PICK j \in last + 1 .. i : IsFrame(stderr[j]) /\ stderr[j].at = 0
    BY <1>8, <2>1
  <2>3. j \in 1..Len(stderr) /\ j > first /\ j < end
    BY <1>1, <1>7, <2>1
  <2>4. j \in after
    BY <1>3, <2>2, <2>3
  <2> QED BY <1>6, <1>7, <2>3, <2>4
<1>9. FromTo(stderr, zeros, zeros) = SubSeq(stderr, first, end - 1)
  <2>1. Min(after) = end
    <3> HIDE DEF after
    <3> QED BY <1>5, <1>6, LeastIs
  <2>2. after = {e \in zeros : e > Min(zeros)} \cup {Len(stderr) + 1}
    BY <1>4
  <2> HIDE DEF after
  <2> QED BY <1>4, <2>1, <2>2 DEF FromTo
<1>10. Frames(SubSeq(stderr, first, end - 1)) = SubSeq(stderr, first, last)
  <2> DEFINE c == end - 1
  <2>1. c \in last..Len(stderr) /\ last \in first..Len(stderr)
    BY <1>1, <1>7
  <2>2. \A i \in first..last : IsFrame(stderr[i])
    OBVIOUS
  <2>3. \A i \in last + 1 .. c : ~IsFrame(stderr[i])
    BY <1>8
  <2> HIDE DEF c
  <2>4. Frames(SubSeq(stderr, first, c)) = SubSeq(stderr, first, last)
    BY ONLY <2>1, <2>2, <2>3, stderr \in Seq(X), first \in 1..Len(stderr), FramesFirst
  <2> QED BY <2>4 DEF c
<1>11. Frames(FromTo(stderr, zeros, zeros)) = SubSeq(stderr, first, last)
  BY <1>9, <1>10
<1> QED BY <1>11 DEF zeros

\* Whatever an engine prints with a stack, the parser reads that stack.
LEMMA StackIsRead ==
  ASSUME NEW eng \in Engines, NEW stderr, stderr \in Seq(ToSet(stderr)), NEW stack,
         ShowsStack(eng, stderr, stack)
  PROVE  ParseFrames(eng, stderr) = stack
<1> DEFINE X == ToSet(stderr)
           frames == {i \in DOMAIN stderr : IsFrame(stderr[i])}
           zeros == {i \in frames : stderr[i].at = 0}
<1>1. stderr \in Seq(X) /\ DOMAIN stderr = 1..Len(stderr) /\ Len(stderr) \in Nat
  OBVIOUS
<1>2. ParseFrames(eng, stderr) = IF eng = "libfuzzer" THEN Frames(FromTo(stderr, zeros, zeros))
                                    ELSE FromTo(stderr, frames, DOMAIN stderr \ frames)
  BY DEF ParseFrames
<1>3. CASE stack = <<>> /\ \A i \in DOMAIN stderr : ~IsFrame(stderr[i])
  <2>1. frames = {} /\ zeros = {}
    BY <1>3
  <2>2. \A ends : FromTo(stderr, {}, ends) = <<>>
    BY DEF FromTo
  <2>3. Frames(<<>>) = <<>>
    BY AmongNothing DEF Frames
  <2> HIDE DEF frames, zeros
  <2> QED BY <1>2, <1>3, <2>1, <2>2, <2>3
<1>4. ASSUME NEW first \in DOMAIN stderr, NEW last,
             last = first + Len(stack) - 1,
             stack # <<>>, last <= Len(stderr), stack = SubSeq(stderr, first, last),
             \A i \in DOMAIN stack :
               IsFrame(stack[i]) /\ (eng = "libfuzzer" => (stack[i].at = 0 <=> i = 1)),
             \A i \in 1 .. first - 1 : ~IsFrame(stderr[i]),
             AnotherFrom(eng, stderr, last + 1)
      PROVE  ParseFrames(eng, stderr) = stack
  <2>1. first \in 1..Len(stderr) /\ last \in first..Len(stderr)
    <3>1. last \in Int
      <4>1. Len(stack) \in Int
        BY <1>1, <1>4, SubSeqProperties
      <4> QED BY <1>1, <1>4, <4>1
    <3>2. ~(last < first)
      <4> SUFFICES ASSUME last < first PROVE FALSE
        OBVIOUS
      <4>1. SubSeq(stderr, first, last) = <<>>
        BY <1>1, <3>1
      <4> QED BY <1>4, <4>1
    <3> QED BY <1>1, <1>4, <3>1, <3>2
  <2>2. Len(stack) = last - first + 1 /\ \A k \in 1 .. last - first + 1 : stack[k] = stderr[first + k - 1]
    <3>1. last \in Nat /\ first <= last + 1 /\ last <= Len(stderr)
      BY <1>1, <2>1
    <3>2. /\ Len(SubSeq(stderr, first, last)) = last - first + 1
          /\ \A k \in 1 .. last - first + 1 : SubSeq(stderr, first, last)[k] = stderr[first + k - 1]
      BY ONLY <1>1, <2>1, <3>1, Between
    <3> QED BY ONLY <3>2, <1>4
  <2>3. DOMAIN stack = 1 .. last - first + 1
    <3>1. SubSeq(stderr, first, last) \in Seq(X)
      BY ONLY <1>1, <2>1, Between
    <3> QED BY ONLY <1>4, <2>2, <3>1
  <2>4. ASSUME NEW i \in first..last
        PROVE  IsFrame(stderr[i]) /\ (eng = "libfuzzer" => (stderr[i].at = 0 <=> i = first))
    <3> DEFINE k == i - first + 1
    <3>1. k \in 1 .. last - first + 1 /\ first + k - 1 = i /\ (k = 1 <=> i = first)
      BY <1>1, <2>1
    <3> HIDE DEF k
    <3>2. stack[k] = stderr[i] /\ k \in DOMAIN stack
      BY ONLY <2>2, <2>3, <3>1
    <3> QED BY ONLY <1>4, <3>1, <3>2
  <2>5. CASE eng = "libfuzzer"
    <3>1. \A i \in last + 1 .. Len(stderr) :
            IsFrame(stderr[i]) => \E j \in last + 1 .. i : IsFrame(stderr[j]) /\ stderr[j].at = 0
      BY ONLY <1>4, <2>5 DEF AnotherFrom
    <3>2. \A i \in first .. last : IsFrame(stderr[i]) /\ (stderr[i].at = 0 <=> i = first)
      BY ONLY <2>4, <2>5
    <3>3. \A i \in 1 .. first - 1 : ~IsFrame(stderr[i])
      BY ONLY <1>4
    <3>4. Frames(FromTo(stderr, zeros, zeros)) = SubSeq(stderr, first, last)
      BY ONLY <1>1, <2>1, <3>1, <3>2, <3>3, NumberedIsRead
    <3> QED BY ONLY <1>2, <1>4, <2>5, <3>4
  <2>6. CASE eng # "libfuzzer"
    <3>1. \A i \in 1..Len(stderr) : i = last + 1 => ~IsFrame(stderr[i])
      <4>1. last + 1 > Len(stderr) \/ ~IsFrame(stderr[last + 1])
        BY ONLY <1>4, <2>6 DEF AnotherFrom
      <4> SUFFICES ASSUME NEW i \in 1..Len(stderr), i = last + 1 PROVE ~IsFrame(stderr[i])
        OBVIOUS
      <4>2. ~(last + 1 > Len(stderr))
        BY <1>1
      <4> QED BY ONLY <4>1, <4>2, i = last + 1
    <3>2. \A i \in first .. last : IsFrame(stderr[i])
      BY ONLY <2>4
    <3>3. \A i \in 1 .. first - 1 : ~IsFrame(stderr[i])
      BY ONLY <1>4
    <3>4. FromTo(stderr, frames, DOMAIN stderr \ frames) = SubSeq(stderr, first, last)
      BY ONLY <1>1, <2>1, <3>1, <3>2, <3>3, RowIsRead
    <3> QED BY ONLY <1>2, <1>4, <2>6, <3>4
  <2> QED BY <2>5, <2>6
<1> HIDE DEF X, frames, zeros
<1> QED BY <1>3, <1>4 DEF ShowsStack

\* The signature of a plain report is of the failure it tells of, whatever else is
\* in it.
LEMMA ReportIsRead ==
  ASSUME NEW eng \in Engines, NEW failure, NEW stderr, Tells(eng, stderr, failure)
  PROVE  ParseReport(eng, stderr) \in {NoReport, SignatureOf(failure.kind, failure.stack)}
<1>1. CrashKind(eng, stderr) = failure.kind
  BY KindIsRead DEF Tells
<1>2. ParseFrames(eng, stderr) = failure.stack
  BY StackIsRead DEF Tells
<1> QED BY <1>1, <1>2 DEF ParseReport

\* What a run met is one of its bug's reports, and a plain one is of what crashed.
MetInv ==
  /\ \A bug \in Bugs : \A report \in reports[bug] :
       report.plain => report.signature \in {NoReport, WhatCrashed(bug)}
  /\ \A p \in met : p[1] \in Bugs /\ p[2] \in reports[p[1]] /\ p[2].signature # NoReport

LEMMA MetInit == Init => MetInv
<1> SUFFICES ASSUME Init PROVE MetInv
  OBVIOUS
<1>1. engine \in Engines /\ met = {}
  BY DEF Init
<1>2. ASSUME NEW bug \in Bugs, NEW report \in reports[bug], report.plain
      PROVE  report.signature \in {NoReport, WhatCrashed(bug)}
  <2>1. PICK stderr \in Prints[engine][bug] :
          report = [signature |-> ParseReport(engine, stderr),
                    plain |-> Tells(engine, stderr, Failure[engine][bug])]
    BY <1>2 DEF Init
  <2>2. Tells(engine, stderr, Failure[engine][bug])
    BY <1>2, <2>1
  <2>3. report.signature = ParseReport(engine, stderr)
    BY <2>1
  <2> QED BY <1>1, <2>2, <2>3, ReportIsRead DEF WhatCrashed
<1> QED BY <1>1, <1>2 DEF MetInv

LEMMA MetStep ==
  ASSUME MetInv, [Next]_vars
  PROVE  MetInv'
<1>1. reports' = reports /\ engine' = engine
  BY DEF Next, Drive, Tools, Waiting, clock, vars, NotRun, LoopEnds, StartRun, RunCannotStart,
     RunFindsNothing, CrashUnreadable, KnownCrash, NewCrash, Crashed, RunCrashed, StartEmitTool,
     RawReplayed, MinimizedReplayed, MinimizerWroteNothing, MinimizerWrote, TakeInTime
<1>2. \/ met' = met
      \/ \E bug \in Bugs : \E r \in reports[bug] :
           r.signature # NoReport /\ met' = met \cup {<<bug, r>>}
  <2>1. ASSUME NEW i \in Inputs, NEW bug \in BugsOf(i), NEW r \in reports[bug],
               KnownCrash(i, bug, r) \/ NewCrash(i, bug, r)
        PROVE  bug \in Bugs /\ r.signature # NoReport /\ met' = met \cup {<<bug, r>>}
    <3>1. bug \in Bugs
      BY FuzzAssumption DEF BugsOf
    <3> QED BY <2>1, <3>1 DEF KnownCrash, NewCrash, Crashed
  <2>2. \/ \E i \in Inputs : \E bug \in BugsOf(i) : \E r \in reports[bug] :
             KnownCrash(i, bug, r) \/ NewCrash(i, bug, r)
        \/ met' = met
    BY DEF Next, Drive, Tools, Waiting, vars, NotRun, LoopEnds, StartRun, RunCannotStart,
       RunFindsNothing, CrashUnreadable, StartEmitTool, RawReplayed, MinimizedReplayed,
       MinimizerWroteNothing, MinimizerWrote, history
  <2> QED BY <2>1, <2>2
<1>3. \A p \in met' : p[1] \in Bugs /\ p[2] \in reports[p[1]] /\ p[2].signature # NoReport
  BY <1>2 DEF MetInv
<1> QED BY <1>1, <1>3 DEF MetInv, WhatCrashed

LEMMA MetAreTold == MetInv => OneBugOneSignature
<1> SUFFICES ASSUME MetInv, NEW p \in met, NEW q \in met, p[2].plain, q[2].plain
             PROVE  p[2].signature = q[2].signature <=> WhatCrashed(p[1]) = WhatCrashed(q[1])
  BY DEF OneBugOneSignature
<1>1. p[2].signature = WhatCrashed(p[1]) /\ q[2].signature = WhatCrashed(q[1])
  BY DEF MetInv
<1> QED BY <1>1

\* crash-report.ts:18, for every engine output: crashes whose failure is told plainly
\* (Tells: no frame and no better believed name comes before its own) have one
\* signature just when their kinds and top frames are the same, however many other
\* stacks, lines and less believed names follow.
THEOREM BugsKeepTheirSignature == Spec => []OneBugOneSignature
BY MetInit, MetStep, MetAreTold, PTL DEF Spec

=============================================================================
