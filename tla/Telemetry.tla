----------------------------- MODULE Telemetry -----------------------------
(***************************************************************************)
(* The export settings: the page they are edited on (ui/fyne/telemetry.go),*)
(* the manager that saves them and builds a pipeline of three exporters    *)
(* (telemetry/telemetry.go), and the record they are kept in               *)
(* (stations/preferences.go), from launch to exit and on to the next.      *)
(*                                                                         *)
(* A setting is where to export to, or nowhere.  The worker started by     *)
(* Save runs Configure, which holds m.mu from Save to Retire; the exit     *)
(* (cmd/dccex-driver/main.go) closes the view, the database and the        *)
(* manager in that order, and waits for nobody but that mutex.             *)
(***************************************************************************)
EXTENDS Naturals

CONSTANTS
  Dest,         \* collectors
  Off,          \* the setting that exports nothing, the default
  None,         \* no pipeline
  Unreadable,   \* a saved record this build cannot read
  MaxBuilds,    \* bound: pipelines built in a launch
  MaxLaunches   \* bound: launches

ASSUME TelemetryAssumption ==
  /\ Off \notin Dest /\ Unreadable \notin Dest \cup {Off}
  /\ MaxBuilds \in Nat /\ None \notin 1..MaxBuilds
  /\ MaxLaunches \in Nat

VARIABLES
  stored,    \* the saved record
  canSave,   \* is View.saveTelemetry set
  settings,  \* m.settings
  pipe,      \* m.current
  builds,    \* pipelines begun
  dest,      \* where each of them exports to
  live,      \* exporters that have not been shut down, as <<pipeline, part>>
  shut,      \* m.closed
  worker,    \* where Configure is; "idle" when nobody runs it
  wants,     \* the settings it was called with
  keeps,     \* was it called with a save function
  old,       \* the pipeline it has swapped out
  failed,    \* has it failed
  page,      \* the settings page: "away", "open", or "saving"
  exit,      \* how far the exit has come
  spoiled,   \* could this launch not build, or not restore, what is stored
  approved,  \* settings that have been stored, now or by an earlier launch
  launches

recordVars == <<stored, approved>>
managerVars == <<settings, pipe, shut>>
buildVars == <<builds, dest, live>>
workerVars == <<worker, wants, keeps, old, failed>>
launchVars == <<canSave, launches>>
vars == <<recordVars, managerVars, buildVars, workerVars, launchVars, page, exit, spoiled>>

Setting == Dest \cup {Off}
Parts == {"traces", "metrics", "logs"}
Exporters(p) == {p} \X Parts
Running == exit \in {"no", "view"}      \* the database is open
Locked == worker \in {"save", "traces", "metrics", "logs", "instruments",
                      "rollback", "swap", "retire"}

-----------------------------------------------------------------------------
(***************************************************************************)
(* A launch.  A readable record is configured without saving it; one that  *)
(* is not leaves the export off, and no way to save.                       *)
(***************************************************************************)
\* Variant: an unreadable record can be saved over.
SavesAlways(record) == TRUE

CanSave(record) == record # Unreadable

Init ==
  /\ stored \in Setting \cup {Unreadable}
  /\ approved = {stored} \cap Setting
  /\ canSave = CanSave(stored)
  /\ settings = Off /\ pipe = None /\ shut = FALSE
  /\ builds = 0 /\ dest = [p \in 1..MaxBuilds |-> Off] /\ live = {}
  /\ worker = (IF stored = Unreadable THEN "idle" ELSE "enter")
  /\ wants = (IF stored = Unreadable THEN Off ELSE stored)
  /\ keeps = FALSE /\ old = None /\ failed = FALSE
  /\ page = "away" /\ exit = "no" /\ spoiled = (stored = Unreadable)
  /\ launches = 1

\* The process has ended or was killed, and its exporters with it.
Relaunch ==
  /\ launches < MaxLaunches
  /\ launches' = launches + 1 /\ UNCHANGED recordVars
  /\ canSave' = CanSave(stored)
  /\ settings' = Off /\ pipe' = None /\ shut' = FALSE
  /\ builds' = 0 /\ dest' = [p \in 1..MaxBuilds |-> Off] /\ live' = {}
  /\ worker' = (IF stored = Unreadable THEN "idle" ELSE "enter")
  /\ wants' = (IF stored = Unreadable THEN Off ELSE stored)
  /\ keeps' = FALSE /\ old' = None /\ failed' = FALSE
  /\ page' = "away" /\ exit' = "no" /\ spoiled' = (stored = Unreadable)

-----------------------------------------------------------------------------
(***************************************************************************)
(* The page.  It opens once at a time, is not left while a save is under   *)
(* way, and comes back when the worker reports, unless the view is closed. *)
(***************************************************************************)
StartedUp == worker = "idle" \/ keeps

Open ==
  /\ page = "away" /\ exit = "no" /\ StartedUp
  /\ page' = "open"
  /\ UNCHANGED <<recordVars, managerVars, buildVars, workerVars, launchVars, exit, spoiled>>

Back ==
  /\ page = "open" /\ exit = "no"
  /\ page' = "away"
  /\ UNCHANGED <<recordVars, managerVars, buildVars, workerVars, launchVars, exit, spoiled>>

Submit(s) ==
  /\ page = "open" /\ exit = "no" /\ canSave
  /\ page' = "saving"
  /\ worker' = "enter" /\ wants' = s /\ keeps' = TRUE /\ old' = None /\ failed' = FALSE
  /\ UNCHANGED <<recordVars, managerVars, buildVars, launchVars, exit, spoiled>>

\* Variant: only a success is reported to the page.
ReportSuccess ==
  /\ worker = "report" /\ worker' = "idle"
  /\ page' = IF exit = "no" /\ page = "saving" /\ ~failed THEN "open" ELSE page
  /\ UNCHANGED <<recordVars, managerVars, buildVars, wants, keeps, old, failed,
                 launchVars, exit, spoiled>>

Report ==
  /\ worker = "report" /\ worker' = "idle"
  /\ page' = IF exit = "no" /\ page = "saving" THEN "open" ELSE page
  /\ UNCHANGED <<recordVars, managerVars, buildVars, wants, keeps, old, failed,
                 launchVars, exit, spoiled>>

-----------------------------------------------------------------------------
(***************************************************************************)
(* Configure.                                                              *)
(***************************************************************************)
Goes(here, there) ==
  /\ worker = here /\ worker' = there
  /\ UNCHANGED <<wants, keeps, launchVars, page, exit>>

Enter ==
  /\ Goes("enter", IF shut THEN "report" ELSE IF keeps THEN "save"
                   ELSE IF wants = Off THEN "swap" ELSE "traces")
  /\ failed' = shut
  /\ UNCHANGED <<recordVars, managerVars, buildVars, old, spoiled>>

BuildOrSwap == IF wants = Off THEN "swap" ELSE "traces"

Stores(s) ==
  Running /\ stored' = s /\ approved' = approved \cup {s}

Save ==
  /\ Goes("save", BuildOrSwap) /\ Stores(wants)
  /\ UNCHANGED <<managerVars, buildVars, old, failed, spoiled>>

\* Variant: the pipeline is built although the settings could not be saved.
SaveErrorIgnored ==
  /\ Goes("save", BuildOrSwap)
  /\ UNCHANGED <<recordVars, managerVars, buildVars, old, failed, spoiled>>

SaveFails ==
  /\ Goes("save", "report") /\ failed' = TRUE
  /\ UNCHANGED <<recordVars, managerVars, buildVars, old, spoiled>>

(***************************************************************************)
(* build: one exporter after the other, and the instruments on them; what  *)
(* was made is shut down when a step fails.                                *)
(***************************************************************************)
CreateTraces ==
  /\ builds < MaxBuilds
  /\ Goes("traces", "metrics")
  /\ builds' = builds + 1
  /\ dest' = [dest EXCEPT ![builds + 1] = wants]
  /\ live' = live \cup {<<builds + 1, "traces">>}
  /\ UNCHANGED <<recordVars, managerVars, old, failed, spoiled>>

Create(part, there) ==
  /\ Goes(part, there)
  /\ live' = live \cup {<<builds, part>>}
  /\ UNCHANGED <<recordVars, managerVars, builds, dest, old, failed, spoiled>>

Instrument ==
  /\ Goes("instruments", "swap")
  /\ UNCHANGED <<recordVars, managerVars, buildVars, old, failed, spoiled>>

\* Variant: only the exporters behind complete instruments are shut down.
UnmadeLast(here) ==
  IF here = "instruments" THEN live \ Exporters(builds) ELSE live

Unmade(here) ==
  IF here = "traces" THEN live ELSE live \ Exporters(builds)

BuildFails(here) ==
  /\ Goes(here, IF keeps THEN "rollback" ELSE "report")
  /\ live' = Unmade(here)
  /\ failed' = TRUE /\ spoiled' = (spoiled \/ ~keeps)
  /\ UNCHANGED <<recordVars, managerVars, builds, dest, old>>

\* Variant: the record keeps what could not be built.
LeavesStored ==
  /\ Goes("rollback", "report")
  /\ UNCHANGED <<recordVars, managerVars, buildVars, old, failed, spoiled>>

\* The record gets the settings in force again, if it can be written.
Rollback ==
  /\ Goes("rollback", "report")
  /\ \/ Stores(settings) /\ UNCHANGED spoiled
     \/ spoiled' = TRUE /\ UNCHANGED recordVars
  /\ UNCHANGED <<managerVars, buildVars, old, failed>>

Swap ==
  /\ Goes("swap", "retire")
  /\ old' = pipe
  /\ pipe' = IF wants = Off THEN None ELSE builds
  /\ settings' = wants
  /\ spoiled' = (spoiled /\ ~keeps)
  /\ UNCHANGED <<recordVars, shut, buildVars, failed>>

Retire ==
  /\ Goes("retire", "report")
  /\ live' = IF old = None THEN live ELSE live \ Exporters(old)
  /\ UNCHANGED <<recordVars, managerVars, builds, dest, old, failed, spoiled>>

-----------------------------------------------------------------------------
(***************************************************************************)
(* The exit: view.Close, then db.Close, then observer.Close, which waits   *)
(* for a Configure under way.                                              *)
(***************************************************************************)
Exits(here, there) ==
  /\ exit = here /\ exit' = there /\ StartedUp
  /\ UNCHANGED <<recordVars, workerVars, launchVars, builds, dest, settings, page, spoiled>>

CloseView ==
  Exits("no", "view") /\ UNCHANGED <<pipe, shut, live>>

CloseDatabase ==
  Exits("view", "database") /\ UNCHANGED <<pipe, shut, live>>

\* Variant: the mutex is not taken.
CloseManagerAtOnce ==
  /\ Exits("database", "done")
  /\ shut' = TRUE /\ pipe' = None
  /\ live' = IF pipe = None THEN live ELSE live \ Exporters(pipe)

CloseManager ==
  /\ Exits("database", "done") /\ ~Locked
  /\ shut' = TRUE /\ pipe' = None
  /\ live' = IF pipe = None THEN live ELSE live \ Exporters(pipe)

Configure ==
  \/ Enter \/ Save \/ SaveFails
  \/ CreateTraces \/ Create("metrics", "logs") \/ Create("logs", "instruments")
  \/ Instrument \/ Rollback \/ Swap \/ Retire \/ Report
  \/ \E here \in Parts \cup {"instruments"} : BuildFails(here)

Next ==
  \/ Configure \/ Open \/ Back \/ Relaunch
  \/ \E s \in Setting : Submit(s)
  \/ CloseView \/ CloseDatabase \/ CloseManager

Spec == Init /\ [][Next]_vars

\* The worker is scheduled: saves and shutdowns end, the latter within 3 seconds.
FairSpec == Spec /\ WF_vars(Configure)

-----------------------------------------------------------------------------
(***************************************************************************)
(* Between two calls of Configure what is stored is what is in force,      *)
(* unless this launch could not build the stored settings or not write     *)
(* them back ("Setup failure rolls back storage and leaves the old         *)
(* pipeline active", telemetry.go:106).                                    *)
(***************************************************************************)
StoredIsActive ==
  worker \in {"idle", "report"} /\ ~shut /\ ~spoiled => stored = settings

(***************************************************************************)
(* Nothing is exported to a collector that was not stored first: "A failed *)
(* save never sends data to the proposed destination" (telemetry.go:105).  *)
(***************************************************************************)
ExportsAreApproved == \A e \in live : dest[e[1]] \in approved

(***************************************************************************)
(* When nobody configures, the exporters that run are those of the current *)
(* pipeline, and it exports where the settings say: none is left behind by *)
(* a build that failed or a pipeline that was replaced.                    *)
(***************************************************************************)
ExportersAreCurrent ==
  worker \in {"idle", "report"} =>
    /\ live = IF pipe = None THEN {} ELSE Exporters(pipe)
    /\ ~shut => IF pipe = None THEN settings = Off ELSE settings = dest[pipe]

(***************************************************************************)
(* Once the manager is closed nothing exports, not even for a save that    *)
(* was waiting for the mutex while the program ended.                      *)
(***************************************************************************)
ClosedExportsNothing == exit = "done" => live = {}

(***************************************************************************)
(* A damaged record is never overwritten ("Unsupported or damaged saved    *)
(* telemetry settings disable export and are not overwritten               *)
(* automatically", TELEMETRY.md:39).                                       *)
(***************************************************************************)
UnreadableIsUntouched == [][stored = Unreadable => stored' = Unreadable]_vars

(***************************************************************************)
(* A save that was started gives the page back, whatever failed, unless    *)
(* the view is closed first: Back is disabled until then.                  *)
(***************************************************************************)
PageComesBack == page = "saving" ~> (page # "saving" \/ exit # "no")
=============================================================================
