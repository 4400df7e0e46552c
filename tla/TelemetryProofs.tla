-------------------------- MODULE TelemetryProofs --------------------------
(***************************************************************************)
(* Theorems about Telemetry.tla, for every set of collectors and any       *)
(* number of builds and launches.  Which exporters live is a function of   *)
(* where Configure is; that it is, at every step, is what makes a failed   *)
(* build, a replaced pipeline and an exit in the middle leave none behind. *)
(***************************************************************************)
EXTENDS Telemetry, TLAPS

Building == {"metrics", "logs", "instruments"}

\* The worker: what it was called with, and that the page waits for it.
WorkerOK ==
  /\ worker \in {"idle", "enter", "report"} \cup
                {"save", "traces", "metrics", "logs", "instruments",
                 "rollback", "swap", "retire"}
  /\ wants \in Setting /\ settings \in Setting
  /\ keeps \in BOOLEAN /\ shut \in BOOLEAN /\ spoiled \in BOOLEAN
  /\ worker # "idle" => page = IF keeps THEN "saving" ELSE "away"
  /\ worker \in {"save", "rollback"} => keeps
  /\ worker \in Building \cup {"traces"} => wants # Off

\* The record: what saving is allowed by, and what it has to do with the worker.
RecordOK ==
  /\ approved \subseteq Setting
  /\ stored \in approved \cup {Unreadable}
  /\ canSave => stored # Unreadable
  /\ keeps => canSave
  /\ worker \in Building \cup {"traces", "swap", "rollback"} => stored = wants
  /\ worker = "enter" /\ ~keeps => stored = wants
  /\ worker \in {"idle", "report", "save", "retire"} \/ (worker = "enter" /\ keeps) =>
       shut \/ spoiled \/ stored = settings

\* The pipelines: each was built for settings that had been stored.
PipesOK ==
  /\ builds \in 0..MaxBuilds
  /\ dest \in [1..MaxBuilds -> Setting]
  /\ pipe \in 1..builds \cup {None}
  /\ old \in 1..builds \cup {None}
  /\ \A p \in 1..builds : dest[p] \in approved
  /\ ~shut => settings = IF pipe = None THEN Off ELSE dest[pipe]
  /\ worker \in Building \/ (worker = "swap" /\ wants # Off) =>
       builds > 0 /\ pipe # builds /\ dest[builds] = wants
  /\ worker = "retire" => old = None \/ old # pipe

\* The parts there are of the pipeline under construction.
Made ==
  CASE worker = "metrics" -> {"traces"}
    [] worker = "logs" -> {"traces", "metrics"}
    [] worker = "instruments" \/ (worker = "swap" /\ wants # Off) -> Parts
    [] OTHER -> {}

Alive(p, part) ==
  \/ p = pipe
  \/ p = builds /\ part \in Made
  \/ worker = "retire" /\ p = old

LiveOK ==
  /\ live \subseteq (1..builds) \X Parts
  /\ \A p \in 1..builds, part \in Parts : <<p, part>> \in live <=> Alive(p, part)

ExitOK ==
  /\ exit \in {"no", "view", "database", "done"}
  /\ shut = (exit = "done")
  /\ shut => pipe = None /\ ~Locked

IInv == WorkerOK /\ RecordOK /\ PipesOK /\ LiveOK /\ ExitOK

USE TelemetryAssumption

-----------------------------------------------------------------------------
(***************************************************************************)
(* One lemma for each action: each part of the invariant again.            *)
(***************************************************************************)
LEMMA Frame ==
  ASSUME IInv, UNCHANGED <<recordVars, managerVars, buildVars, workerVars, canSave, spoiled>>
  PROVE  RecordOK' /\ PipesOK' /\ LiveOK'
<1>1. RecordOK'
  BY DEF IInv, RecordOK, recordVars, managerVars, workerVars
<1>2. PipesOK'
  BY DEF IInv, PipesOK, recordVars, managerVars, buildVars, workerVars
<1>3. LiveOK'
  BY DEF IInv, LiveOK, Alive, Made, managerVars, buildVars, workerVars
<1> QED BY <1>1, <1>2, <1>3

LEMMA OpenKeeps == IInv /\ Open => IInv'
<1> SUFFICES ASSUME IInv, Open PROVE IInv'
  OBVIOUS
<1>1. RecordOK' /\ PipesOK' /\ LiveOK'
  BY Frame DEF Open, buildVars, launchVars, managerVars, workerVars
<1>2. WorkerOK'
  BY DEF IInv, Open, StartedUp, launchVars, managerVars, workerVars, WorkerOK
<1>3. ExitOK'
  BY DEF IInv, Open, StartedUp, launchVars, managerVars, workerVars, ExitOK,
     Locked
<1> QED BY <1>1, <1>2, <1>3 DEF IInv

LEMMA BackKeeps == IInv /\ Back => IInv'
<1> SUFFICES ASSUME IInv, Back PROVE IInv'
  OBVIOUS
<1>1. RecordOK' /\ PipesOK' /\ LiveOK'
  BY Frame DEF Back, buildVars, launchVars, managerVars, workerVars
<1>2. WorkerOK'
  BY DEF IInv, Back, launchVars, managerVars, workerVars, WorkerOK
<1>3. ExitOK'
  BY DEF IInv, Back, launchVars, managerVars, workerVars, ExitOK, Locked
<1> QED BY <1>1, <1>2, <1>3 DEF IInv

LEMMA CloseViewKeeps == IInv /\ CloseView => IInv'
<1> SUFFICES ASSUME IInv, CloseView PROVE IInv'
  OBVIOUS
<1>1. RecordOK' /\ PipesOK' /\ LiveOK'
  BY Frame DEF CloseView, Exits, launchVars, workerVars, managerVars,
     buildVars
<1>2. WorkerOK'
  BY DEF IInv, CloseView, Exits, StartedUp, launchVars, workerVars,
     managerVars, WorkerOK
<1>3. ExitOK'
  BY DEF IInv, CloseView, Exits, StartedUp, launchVars, workerVars,
     managerVars, ExitOK, Locked
<1> QED BY <1>1, <1>2, <1>3 DEF IInv

LEMMA CloseDatabaseKeeps == IInv /\ CloseDatabase => IInv'
<1> SUFFICES ASSUME IInv, CloseDatabase PROVE IInv'
  OBVIOUS
<1>1. RecordOK' /\ PipesOK' /\ LiveOK'
  BY Frame DEF CloseDatabase, Exits, launchVars, workerVars, managerVars,
     buildVars
<1>2. WorkerOK'
  BY DEF IInv, CloseDatabase, Exits, StartedUp, launchVars, workerVars,
     managerVars, WorkerOK
<1>3. ExitOK'
  BY DEF IInv, CloseDatabase, Exits, StartedUp, launchVars, workerVars,
     managerVars, ExitOK, Locked
<1> QED BY <1>1, <1>2, <1>3 DEF IInv

LEMMA StutterKeeps == IInv /\ UNCHANGED vars => IInv'
<1> SUFFICES ASSUME IInv, UNCHANGED vars PROVE IInv'
  OBVIOUS
<1>1. RecordOK' /\ PipesOK' /\ LiveOK'
  BY Frame DEF vars, buildVars, launchVars, managerVars, workerVars
<1>2. WorkerOK'
  BY DEF IInv, vars, launchVars, managerVars, workerVars, WorkerOK
<1>3. ExitOK'
  BY DEF IInv, vars, launchVars, managerVars, workerVars, ExitOK, Locked
<1> QED BY <1>1, <1>2, <1>3 DEF IInv

LEMMA ReportKeeps == IInv /\ Report => IInv'
<1> SUFFICES ASSUME IInv, Report PROVE IInv'
  OBVIOUS
<1>1. WorkerOK'
  BY DEF IInv, Report, buildVars, launchVars, managerVars, recordVars,
     WorkerOK, RecordOK, Building, Setting
<1>2. RecordOK'
  BY DEF IInv, Report, buildVars, launchVars, managerVars, recordVars,
     WorkerOK, RecordOK, Building, Setting
<1>3. PipesOK'
  BY DEF IInv, Report, buildVars, launchVars, managerVars, recordVars,
     WorkerOK, RecordOK, PipesOK, Building, Setting
<1>4. LiveOK'
  BY DEF IInv, Report, buildVars, launchVars, managerVars, recordVars,
     WorkerOK, PipesOK, LiveOK, Alive, Made, Building, Parts, Exporters
<1>5. ExitOK'
  BY DEF IInv, Report, buildVars, launchVars, managerVars, recordVars,
     WorkerOK, ExitOK, Locked
<1> QED BY <1>1, <1>2, <1>3, <1>4, <1>5 DEF IInv

LEMMA EnterKeeps == IInv /\ Enter => IInv'
<1> SUFFICES ASSUME IInv, Enter PROVE IInv'
  OBVIOUS
<1>1. WorkerOK'
  BY DEF IInv, Enter, Goes, buildVars, managerVars, recordVars, launchVars,
     WorkerOK, RecordOK, Building, Setting
<1>2. RecordOK'
  BY DEF IInv, Enter, Goes, buildVars, managerVars, recordVars, launchVars,
     WorkerOK, RecordOK, Building, Setting
<1>3. PipesOK'
  BY DEF IInv, Enter, Goes, buildVars, managerVars, recordVars, launchVars,
     WorkerOK, RecordOK, PipesOK, Building, Setting
<1>4. LiveOK'
  BY DEF IInv, Enter, Goes, buildVars, managerVars, recordVars, launchVars,
     WorkerOK, PipesOK, LiveOK, Alive, Made, Building, Parts, Exporters
<1>5. ExitOK'
  BY DEF IInv, Enter, Goes, buildVars, managerVars, recordVars, launchVars,
     WorkerOK, ExitOK, Locked
<1> QED BY <1>1, <1>2, <1>3, <1>4, <1>5 DEF IInv

LEMMA SaveKeeps == IInv /\ Save => IInv'
<1> SUFFICES ASSUME IInv, Save PROVE IInv'
  OBVIOUS
<1>1. WorkerOK'
  BY DEF IInv, Save, Goes, Stores, BuildOrSwap, buildVars, managerVars,
     launchVars, WorkerOK, RecordOK, Building, Setting
<1>2. RecordOK'
  BY DEF IInv, Save, Goes, Stores, BuildOrSwap, buildVars, managerVars,
     launchVars, WorkerOK, RecordOK, Building, Setting
<1>3. PipesOK'
  BY DEF IInv, Save, Goes, Stores, BuildOrSwap, buildVars, managerVars,
     launchVars, WorkerOK, RecordOK, PipesOK, Building, Setting
<1>4. LiveOK'
  BY DEF IInv, Save, Goes, Stores, BuildOrSwap, buildVars, managerVars,
     launchVars, WorkerOK, PipesOK, LiveOK, Alive, Made, Building, Parts,
     Exporters
<1>5. ExitOK'
  BY DEF IInv, Save, Goes, Stores, BuildOrSwap, buildVars, managerVars,
     launchVars, WorkerOK, ExitOK, Locked
<1> QED BY <1>1, <1>2, <1>3, <1>4, <1>5 DEF IInv

LEMMA SaveFailsKeeps == IInv /\ SaveFails => IInv'
<1> SUFFICES ASSUME IInv, SaveFails PROVE IInv'
  OBVIOUS
<1>1. WorkerOK'
  BY DEF IInv, SaveFails, Goes, buildVars, managerVars, recordVars,
     launchVars, WorkerOK, RecordOK, Building, Setting
<1>2. RecordOK'
  BY DEF IInv, SaveFails, Goes, buildVars, managerVars, recordVars,
     launchVars, WorkerOK, RecordOK, Building, Setting
<1>3. PipesOK'
  BY DEF IInv, SaveFails, Goes, buildVars, managerVars, recordVars,
     launchVars, WorkerOK, RecordOK, PipesOK, Building, Setting
<1>4. LiveOK'
  BY DEF IInv, SaveFails, Goes, buildVars, managerVars, recordVars,
     launchVars, WorkerOK, PipesOK, LiveOK, Alive, Made, Building, Parts,
     Exporters
<1>5. ExitOK'
  BY DEF IInv, SaveFails, Goes, buildVars, managerVars, recordVars,
     launchVars, WorkerOK, ExitOK, Locked
<1> QED BY <1>1, <1>2, <1>3, <1>4, <1>5 DEF IInv

LEMMA CreateTracesKeeps == IInv /\ CreateTraces => IInv'
<1> SUFFICES ASSUME IInv, CreateTraces PROVE IInv'
  OBVIOUS
<1>1. WorkerOK'
  BY DEF IInv, CreateTraces, Goes, managerVars, recordVars, launchVars,
     WorkerOK, RecordOK, Building, Setting
<1>2. RecordOK'
  BY DEF IInv, CreateTraces, Goes, managerVars, recordVars, launchVars,
     WorkerOK, RecordOK, Building, Setting
<1>3. PipesOK'
  BY DEF IInv, CreateTraces, Goes, managerVars, recordVars, launchVars,
     WorkerOK, RecordOK, PipesOK, Building, Setting
<1>4. LiveOK'
  BY DEF IInv, CreateTraces, Goes, managerVars, recordVars, launchVars,
     WorkerOK, PipesOK, LiveOK, Alive, Made, Building, Parts, Exporters
<1>5. ExitOK'
  BY DEF IInv, CreateTraces, Goes, managerVars, recordVars, launchVars,
     WorkerOK, ExitOK, Locked
<1> QED BY <1>1, <1>2, <1>3, <1>4, <1>5 DEF IInv

LEMMA InstrumentKeeps == IInv /\ Instrument => IInv'
<1> SUFFICES ASSUME IInv, Instrument PROVE IInv'
  OBVIOUS
<1>1. WorkerOK'
  BY DEF IInv, Instrument, Goes, buildVars, managerVars, recordVars,
     launchVars, WorkerOK, RecordOK, Building, Setting
<1>2. RecordOK'
  BY DEF IInv, Instrument, Goes, buildVars, managerVars, recordVars,
     launchVars, WorkerOK, RecordOK, Building, Setting
<1>3. PipesOK'
  BY DEF IInv, Instrument, Goes, buildVars, managerVars, recordVars,
     launchVars, WorkerOK, RecordOK, PipesOK, Building, Setting
<1>4. LiveOK'
  BY DEF IInv, Instrument, Goes, buildVars, managerVars, recordVars,
     launchVars, WorkerOK, PipesOK, LiveOK, Alive, Made, Building, Parts,
     Exporters
<1>5. ExitOK'
  BY DEF IInv, Instrument, Goes, buildVars, managerVars, recordVars,
     launchVars, WorkerOK, ExitOK, Locked
<1> QED BY <1>1, <1>2, <1>3, <1>4, <1>5 DEF IInv

LEMMA RollbackKeeps == IInv /\ Rollback => IInv'
<1> SUFFICES ASSUME IInv, Rollback PROVE IInv'
  OBVIOUS
<1>1. WorkerOK'
  BY DEF IInv, Rollback, Goes, Stores, buildVars, managerVars, recordVars,
     launchVars, WorkerOK, RecordOK, Building, Setting
<1>2. RecordOK'
  BY DEF IInv, Rollback, Goes, Stores, buildVars, managerVars, recordVars,
     launchVars, WorkerOK, RecordOK, Building, Setting
<1>3. PipesOK'
  BY DEF IInv, Rollback, Goes, Stores, buildVars, managerVars, recordVars,
     launchVars, WorkerOK, RecordOK, PipesOK, Building, Setting
<1>4. LiveOK'
  BY DEF IInv, Rollback, Goes, Stores, buildVars, managerVars, recordVars,
     launchVars, WorkerOK, PipesOK, LiveOK, Alive, Made, Building, Parts,
     Exporters
<1>5. ExitOK'
  BY DEF IInv, Rollback, Goes, Stores, buildVars, managerVars, recordVars,
     launchVars, WorkerOK, ExitOK, Locked
<1> QED BY <1>1, <1>2, <1>3, <1>4, <1>5 DEF IInv

LEMMA SwapKeeps == IInv /\ Swap => IInv'
<1> SUFFICES ASSUME IInv, Swap PROVE IInv'
  OBVIOUS
<1>1. WorkerOK'
  BY DEF IInv, Swap, Goes, buildVars, recordVars, launchVars, WorkerOK,
     RecordOK, Building, Setting
<1>2. RecordOK'
  BY DEF IInv, Swap, Goes, buildVars, recordVars, launchVars, WorkerOK,
     RecordOK, Building, Setting
<1>3. PipesOK'
  BY DEF IInv, Swap, Goes, buildVars, recordVars, launchVars, WorkerOK,
     RecordOK, PipesOK, Building, Setting
<1>4. LiveOK'
  BY DEF IInv, Swap, Goes, buildVars, recordVars, launchVars, WorkerOK,
     PipesOK, LiveOK, Alive, Made, Building, Parts, Exporters
<1>5. ExitOK'
  BY DEF IInv, Swap, Goes, buildVars, recordVars, launchVars, WorkerOK,
     ExitOK, Locked
<1> QED BY <1>1, <1>2, <1>3, <1>4, <1>5 DEF IInv

LEMMA RetireKeeps == IInv /\ Retire => IInv'
<1> SUFFICES ASSUME IInv, Retire PROVE IInv'
  OBVIOUS
<1>1. WorkerOK'
  BY DEF IInv, Retire, Goes, managerVars, recordVars, launchVars, WorkerOK,
     RecordOK, Building, Setting
<1>2. RecordOK'
  BY DEF IInv, Retire, Goes, managerVars, recordVars, launchVars, WorkerOK,
     RecordOK, Building, Setting
<1>3. PipesOK'
  BY DEF IInv, Retire, Goes, managerVars, recordVars, launchVars, WorkerOK,
     RecordOK, PipesOK, Building, Setting
<1>4. LiveOK'
  BY DEF IInv, Retire, Goes, managerVars, recordVars, launchVars, WorkerOK,
     PipesOK, LiveOK, Alive, Made, Building, Parts, Exporters
<1>5. ExitOK'
  BY DEF IInv, Retire, Goes, managerVars, recordVars, launchVars, WorkerOK,
     ExitOK, Locked
<1> QED BY <1>1, <1>2, <1>3, <1>4, <1>5 DEF IInv

LEMMA CloseManagerKeeps == IInv /\ CloseManager => IInv'
<1> SUFFICES ASSUME IInv, CloseManager PROVE IInv'
  OBVIOUS
<1>1. WorkerOK'
  BY DEF IInv, CloseManager, Exits, Locked, StartedUp, launchVars, recordVars,
     workerVars, WorkerOK, RecordOK, Building, Setting
<1>2. RecordOK'
  BY DEF IInv, CloseManager, Exits, Locked, StartedUp, launchVars, recordVars,
     workerVars, WorkerOK, RecordOK, Building, Setting
<1>3. PipesOK'
  BY DEF IInv, CloseManager, Exits, Locked, StartedUp, launchVars, recordVars,
     workerVars, WorkerOK, RecordOK, PipesOK, Building, Setting
<1>4. LiveOK'
  BY DEF IInv, CloseManager, Exits, Locked, StartedUp, launchVars, recordVars,
     workerVars, WorkerOK, PipesOK, LiveOK, Alive, Made, Building, Parts,
     Exporters
<1>5. ExitOK'
  BY DEF IInv, CloseManager, Exits, Locked, StartedUp, launchVars, recordVars,
     workerVars, WorkerOK, ExitOK
<1> QED BY <1>1, <1>2, <1>3, <1>4, <1>5 DEF IInv

LEMMA RelaunchKeeps == IInv /\ Relaunch => IInv'
<1> SUFFICES ASSUME IInv, Relaunch PROVE IInv'
  OBVIOUS
<1>1. WorkerOK'
  BY DEF IInv, Relaunch, CanSave, recordVars, WorkerOK, RecordOK, Building,
     Setting
<1>2. RecordOK'
  BY DEF IInv, Relaunch, CanSave, recordVars, WorkerOK, RecordOK, Building,
     Setting
<1>3. PipesOK'
  BY DEF IInv, Relaunch, CanSave, recordVars, WorkerOK, RecordOK, PipesOK,
     Building, Setting
<1>4. LiveOK'
  BY DEF IInv, Relaunch, CanSave, recordVars, WorkerOK, PipesOK, LiveOK,
     Alive, Made, Building, Parts, Exporters
<1>5. ExitOK'
  BY DEF IInv, Relaunch, CanSave, recordVars, WorkerOK, ExitOK, Locked
<1> QED BY <1>1, <1>2, <1>3, <1>4, <1>5 DEF IInv

LEMMA SubmitKeeps ==
  ASSUME IInv, NEW t \in Setting, Submit(t)
  PROVE  IInv'
<1>1. WorkerOK'
  BY DEF IInv, Submit, buildVars, launchVars, managerVars, recordVars,
     WorkerOK, RecordOK, Building, Setting
<1>2. RecordOK'
  BY DEF IInv, Submit, buildVars, launchVars, managerVars, recordVars,
     WorkerOK, RecordOK, Building, Setting
<1>3. PipesOK'
  BY DEF IInv, Submit, buildVars, launchVars, managerVars, recordVars,
     WorkerOK, RecordOK, PipesOK, Building, Setting
<1>4. LiveOK'
  BY DEF IInv, Submit, buildVars, launchVars, managerVars, recordVars,
     WorkerOK, PipesOK, LiveOK, Alive, Made, Building, Parts, Exporters
<1>5. ExitOK'
  BY DEF IInv, Submit, buildVars, launchVars, managerVars, recordVars,
     WorkerOK, ExitOK, Locked
<1> QED BY <1>1, <1>2, <1>3, <1>4, <1>5 DEF IInv

LEMMA CreateKeeps ==
  ASSUME IInv, NEW part \in Parts, NEW there,
         <<part, there>> \in {<<"metrics", "logs">>, <<"logs", "instruments">>}, Create(part, there)
  PROVE  IInv'
<1>1. WorkerOK'
  BY DEF IInv, Create, Goes, managerVars, recordVars, launchVars, WorkerOK,
     RecordOK, Building, Setting
<1>2. RecordOK'
  BY DEF IInv, Create, Goes, managerVars, recordVars, launchVars, WorkerOK,
     RecordOK, Building, Setting
<1>3. PipesOK'
  BY DEF IInv, Create, Goes, managerVars, recordVars, launchVars, WorkerOK,
     RecordOK, PipesOK, Building, Setting
<1>4. LiveOK'
  BY DEF IInv, Create, Goes, managerVars, recordVars, launchVars, WorkerOK,
     PipesOK, LiveOK, Alive, Made, Building, Parts, Exporters
<1>5. ExitOK'
  BY DEF IInv, Create, Goes, managerVars, recordVars, launchVars, WorkerOK,
     ExitOK, Locked
<1> QED BY <1>1, <1>2, <1>3, <1>4, <1>5 DEF IInv

LEMMA BuildFailsKeeps ==
  ASSUME IInv, NEW here \in Parts \cup {"instruments"}, BuildFails(here)
  PROVE  IInv'
<1>1. WorkerOK'
  BY DEF IInv, BuildFails, Goes, Unmade, managerVars, recordVars, launchVars,
     Parts, WorkerOK, RecordOK, Building, Setting
<1>2. RecordOK'
  BY DEF IInv, BuildFails, Goes, Unmade, managerVars, recordVars, launchVars,
     Parts, WorkerOK, RecordOK, Building, Setting
<1>3. PipesOK'
  BY DEF IInv, BuildFails, Goes, Unmade, managerVars, recordVars, launchVars,
     Parts, WorkerOK, RecordOK, PipesOK, Building, Setting
<1>4. LiveOK'
  BY DEF IInv, BuildFails, Goes, Unmade, managerVars, recordVars, launchVars,
     Parts, WorkerOK, PipesOK, LiveOK, Alive, Made, Building, Exporters
<1>5. ExitOK'
  BY DEF IInv, BuildFails, Goes, Unmade, managerVars, recordVars, launchVars,
     Parts, WorkerOK, ExitOK, Locked
<1> QED BY <1>1, <1>2, <1>3, <1>4, <1>5 DEF IInv

LEMMA InitHolds == Init => IInv
<1> SUFFICES ASSUME Init PROVE IInv
  OBVIOUS
<1>1. WorkerOK
  BY DEF Init, WorkerOK, Building, Setting
<1>2. RecordOK
  BY DEF Init, CanSave, RecordOK, Building, Setting
<1>3. PipesOK
  BY DEF Init, PipesOK, Building, Setting
<1>4. LiveOK
  BY DEF Init, LiveOK, Alive, Made
<1>5. ExitOK
  BY DEF Init, ExitOK, Locked
<1> QED BY <1>1, <1>2, <1>3, <1>4, <1>5 DEF IInv

LEMMA NextKeeps == IInv /\ [Next]_vars => IInv'
<1> SUFFICES ASSUME IInv, [Next]_vars PROVE IInv'
  OBVIOUS
<1>1. CASE Open \/ Back \/ Relaunch \/ CloseView \/ CloseDatabase \/ CloseManager
  BY <1>1, OpenKeeps, BackKeeps, RelaunchKeeps, CloseViewKeeps, CloseDatabaseKeeps,
     CloseManagerKeeps
<1>2. CASE \E t \in Setting : Submit(t)
  BY <1>2, SubmitKeeps
<1>3. CASE Enter \/ Save \/ SaveFails \/ CreateTraces
  BY <1>3, EnterKeeps, SaveKeeps, SaveFailsKeeps, CreateTracesKeeps
<1>4. CASE Instrument \/ Rollback \/ Swap \/ Retire \/ Report
  BY <1>4, InstrumentKeeps, RollbackKeeps, SwapKeeps, RetireKeeps, ReportKeeps
<1>5. CASE Create("metrics", "logs") \/ Create("logs", "instruments")
  <2>1. {"metrics", "logs"} \subseteq Parts
    BY DEF Parts
  <2> QED BY <1>5, <2>1, CreateKeeps
<1>6. CASE \E here \in Parts \cup {"instruments"} : BuildFails(here)
  BY <1>6, BuildFailsKeeps
<1>7. CASE UNCHANGED vars
  BY <1>7, StutterKeeps
<1> QED BY <1>1, <1>2, <1>3, <1>4, <1>5, <1>6, <1>7 DEF Next, Configure

LEMMA Inductive == Spec => []IInv
BY InitHolds, NextKeeps, PTL DEF Spec

-----------------------------------------------------------------------------
(***************************************************************************)
(* Between two calls of Configure what is stored is in force, unless the   *)
(* launch could not build it or not write it back (telemetry.go:106).      *)
(***************************************************************************)
THEOREM StoredIsInForce == Spec => []StoredIsActive
<1>1. IInv => StoredIsActive
  BY DEF IInv, RecordOK, StoredIsActive
<1> QED BY <1>1, Inductive, PTL

(***************************************************************************)
(* Whatever exports, exports to what had been stored (telemetry.go:105).   *)
(***************************************************************************)
THEOREM ExportsWereApproved == Spec => []ExportsAreApproved
<1>1. IInv => ExportsAreApproved
  BY DEF IInv, PipesOK, LiveOK, ExportsAreApproved
<1> QED BY <1>1, Inductive, PTL

(***************************************************************************)
(* No exporter is left behind by a build that failed or a pipeline that    *)
(* was replaced (telemetry.go:200, 137).                                   *)
(***************************************************************************)
THEOREM NoExporterIsLeft == Spec => []ExportersAreCurrent
<1>1. IInv => ExportersAreCurrent
  <2> SUFFICES ASSUME IInv, worker \in {"idle", "report"}
               PROVE  /\ live = IF pipe = None THEN {} ELSE Exporters(pipe)
                      /\ ~shut => IF pipe = None THEN settings = Off ELSE settings = dest[pipe]
    BY DEF ExportersAreCurrent
  <2>1. \A p \in 1..builds, part \in Parts : <<p, part>> \in live <=> p = pipe
    BY DEF IInv, LiveOK, Alive, Made
  <2>2. live = IF pipe = None THEN {} ELSE Exporters(pipe)
    BY <2>1 DEF IInv, LiveOK, PipesOK, Exporters
  <2> QED BY <2>2 DEF IInv, PipesOK
<1> QED BY <1>1, Inductive, PTL

(***************************************************************************)
(* Nothing exports once the manager is closed (telemetry.go:142).          *)
(***************************************************************************)
THEOREM NothingExportsInTheEnd == Spec => []ClosedExportsNothing
<1>1. IInv => ClosedExportsNothing
  <2> SUFFICES ASSUME IInv, exit = "done" PROVE live = {}
    BY DEF ClosedExportsNothing
  <2>1. pipe = None /\ ~Locked
    BY DEF IInv, ExitOK
  <2>2. Made = {}
    BY <2>1 DEF Made, Locked
  <2>3. \A p \in 1..builds : p # pipe
    BY <2>1 DEF IInv, PipesOK
  <2>4. \A p \in 1..builds, part \in Parts : ~Alive(p, part)
    BY <2>1, <2>2, <2>3 DEF Alive, Locked
  <2> QED BY <2>4 DEF IInv, LiveOK
<1> QED BY <1>1, Inductive, PTL

(***************************************************************************)
(* No launch writes over a record it could not read (TELEMETRY.md:39).     *)
(***************************************************************************)
THEOREM UnreadableStays == Spec => UnreadableIsUntouched
<1>1. IInv /\ [Next]_vars /\ stored = Unreadable => stored' = Unreadable
  <2> SUFFICES ASSUME IInv, [Next]_vars, stored = Unreadable PROVE stored' = stored
    OBVIOUS
  <2>1. worker \notin {"save", "rollback"}
    BY DEF IInv, WorkerOK, RecordOK
  <2>2. CASE UNCHANGED recordVars
    BY <2>2 DEF recordVars
  <2>3. CASE Next
    BY <2>1, <2>2, <2>3 DEF Next, Configure, Open, Back, Relaunch, Submit, Report, Enter,
       Save, SaveFails, CreateTraces, Create, Instrument, BuildFails, Rollback, Swap,
       Retire, CloseView, CloseDatabase, CloseManager, Exits, Goes
  <2> QED BY <2>2, <2>3 DEF vars
<1>2. IInv /\ [Next]_vars => [stored = Unreadable => stored' = Unreadable]_vars
  BY <1>1
<1> QED BY <1>2, Inductive, PTL DEF Spec, UnreadableIsUntouched
=============================================================================
