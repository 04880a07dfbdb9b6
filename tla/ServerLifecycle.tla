-------------------------- MODULE ServerLifecycle ---------------------------
(***************************************************************************)
(* The life of the server process: the desktop controller, the supervisor  *)
(* that loads settings, builds a server and runs it again when a restart   *)
(* was granted, the application runtime that the server starts and closes, *)
(* and the Admin updates that change its settings.                         *)
(*                                                                         *)
(* Settings are the version of the configuration file they were read from. *)
(* The supervisor runs in a thread of its own; restarts and stops come     *)
(* from the tray and from the server's Admin pages.  Uvicorn is external:  *)
(* a server that is told to exit before it has started may start and close *)
(* its runtime, or return without closing it.                              *)
(***************************************************************************)
EXTENDS Naturals

CONSTANTS
  Supervisors,  \* 1 .. n: supervisors the controller's factory makes
  MaxVersion,   \* bound on changes of the file, for model checking
  MaxRestarts   \* bound on restarts a supervisor grants, for model checking

VARIABLES
  file,           \* version of the configuration file
  cached,         \* version get_settings has cached, or NoVersion
  supervisor,     \* the controller's supervisor
  scheduled,      \* supervisors with _run_scheduled
  stopRequested,  \* supervisors with _stop_requested
  restarts,       \* _restart_generation of a supervisor
  worker,         \* where the server thread is in ServerSupervisor.run
  taken,          \* restart_generation read by the loop
  loaded,         \* settings read by the loop
  shouldExit,     \* should_exit of its server
  rerun,          \* what _run_once has returned
  leftOpen,       \* a runtime of this run was started and not closed
  owned,          \* resources the application runtime owns
  quiesced,       \* ingress of its messaging runtime is stopped
  cleanup,        \* the step it is at
  isClosed,       \* is_closed
  published,      \* settings of the current provider generation
  update,         \* the Admin update under way
  applied,        \* last version reported as applied
  wanted          \* file when a restart was last granted to a loop at work

thread     == <<worker, taken, loaded, shouldExit, rerun, leftOpen>>
requests   == <<supervisor, scheduled, stopRequested, restarts, wanted>>
runtime    == <<owned, quiesced, cleanup, isClosed>>
settings   == <<file, cached, published, update, applied>>
serverVars == <<thread, requests, runtime, settings>>

NoVersion == MaxVersion + 1
NoUpdate  == [kind |-> "none", version |-> 0]
Messaging == {"platform", "workflow"}
Resources == Messaging \cup {"transcriber", "providers", "accounts"}

Init ==
  /\ file = 0 /\ cached = NoVersion
  /\ supervisor = 1 /\ scheduled = {} /\ stopRequested = {}
  /\ restarts = [s \in Supervisors |-> 0] /\ wanted = 0
  /\ worker = "none" /\ taken = 0 /\ loaded = 0
  /\ shouldExit = FALSE /\ rerun = FALSE /\ leftOpen = FALSE
  /\ owned = {} /\ quiesced = FALSE /\ cleanup = "no" /\ isClosed = FALSE
  /\ published = 0 /\ update = NoUpdate /\ applied = 0

-----------------------------------------------------------------------------
(* Requests to a supervisor, each under its lock.                          *)

Running   == worker \notin {"none", "entering", "dying"}
HasServer == worker \in {"starting", "serving", "exiting", "returned"}

Granted ==
  /\ supervisor \notin stopRequested
  /\ supervisor \in scheduled \/ Running

RequestRestart ==
  /\ Granted /\ restarts[supervisor] < MaxRestarts
  /\ restarts' = [restarts EXCEPT ![supervisor] = @ + 1]
  /\ wanted' = IF worker \in {"entering", "deciding"} THEN wanted ELSE file
  /\ shouldExit' = (shouldExit \/ (supervisor \notin scheduled /\ HasServer))
  /\ UNCHANGED <<worker, taken, loaded, rerun, leftOpen, supervisor, scheduled,
                 stopRequested, runtime, settings>>

RequestStop ==
  /\ supervisor \notin stopRequested
  /\ stopRequested' = stopRequested \cup {supervisor}
  /\ scheduled' = scheduled \ {supervisor}
  /\ shouldExit' = (shouldExit \/ HasServer)
  /\ UNCHANGED <<worker, taken, loaded, rerun, leftOpen, supervisor, restarts, wanted,
                 runtime, settings>>

(* DesktopController._start_server: a supervisor that was stopped is       *)
(* replaced.                                                               *)
StartServer ==
  /\ worker = "none"
  /\ IF supervisor \in stopRequested
     THEN supervisor + 1 \in Supervisors /\ supervisor' = supervisor + 1
     ELSE UNCHANGED supervisor
  /\ scheduled' = scheduled \cup {supervisor'}
  /\ worker' = "entering"
  /\ UNCHANGED <<taken, loaded, shouldExit, rerun, leftOpen, stopRequested, restarts, wanted,
                 runtime, settings>>

-----------------------------------------------------------------------------
(* ServerSupervisor.run.                                                   *)

RunBegins ==
  /\ worker = "entering"
  /\ scheduled' = scheduled \ {supervisor}
  /\ worker' = IF supervisor \in stopRequested THEN "dying" ELSE "deciding"
  /\ leftOpen' = FALSE /\ wanted' = 0
  /\ UNCHANGED <<taken, loaded, shouldExit, rerun, supervisor, stopRequested, restarts,
                 runtime, settings>>

ReadGeneration ==
  /\ worker = "deciding"
  /\ IF supervisor \in stopRequested
     THEN worker' = "ending" /\ UNCHANGED taken
     ELSE worker' = "loading" /\ taken' = restarts[supervisor]
  /\ UNCHANGED <<loaded, shouldExit, rerun, leftOpen, requests, runtime, settings>>

LoadSettings ==
  /\ worker = "loading" /\ worker' = "building"
  /\ loaded' = IF cached = NoVersion THEN file ELSE cached
  /\ cached' = loaded'
  /\ UNCHANGED <<taken, shouldExit, rerun, leftOpen, requests, runtime,
                 file, published, update, applied>>

(* Slip: the restart generation is read when the server is built.          *)
BuildServerAnew ==
  /\ worker = "building" /\ worker' = "starting"
  /\ taken' = restarts[supervisor]
  /\ shouldExit' = (supervisor \in stopRequested)
  /\ owned' = {"transcriber", "providers", "accounts"}
  /\ quiesced' = FALSE /\ cleanup' = "no" /\ isClosed' = FALSE
  /\ published' = loaded /\ update' = NoUpdate
  /\ UNCHANGED <<loaded, rerun, leftOpen, requests, file, cached, applied>>

(* _run_once: build_asgi_app, and a last look at what was requested.       *)
BuildServer ==
  /\ worker = "building" /\ worker' = "starting"
  /\ shouldExit' = (supervisor \in stopRequested \/ restarts[supervisor] # taken)
  /\ owned' = {"transcriber", "providers", "accounts"}
  /\ quiesced' = FALSE /\ cleanup' = "no" /\ isClosed' = FALSE
  /\ published' = loaded /\ update' = NoUpdate
  /\ UNCHANGED <<taken, loaded, rerun, leftOpen, requests, file, cached, applied>>

(* The address is in use; a bounded number of times it is tried again, with *)
(* the settings that are cached.                                           *)
BindFails ==
  /\ worker = "starting" /\ cleanup = "no" /\ "platform" \notin owned
  /\ owned' = {} /\ wanted' = 0
  /\ worker' \in {"ending"} \cup (IF supervisor \in stopRequested THEN {} ELSE {"deciding"})
  /\ UNCHANGED <<taken, loaded, shouldExit, rerun, leftOpen, supervisor, scheduled, stopRequested,
                 restarts, quiesced, cleanup, isClosed, settings>>

(* server.run has returned: restart only what is wanted and fully closed.  *)
RunOnceReturns ==
  /\ worker = "returned" /\ worker' = "judged"
  /\ rerun' = (restarts[supervisor] # taken /\ supervisor \notin stopRequested /\ isClosed)
  /\ UNCHANGED <<taken, loaded, shouldExit, leftOpen, requests, runtime, settings>>

RunDecides ==
  /\ worker = "judged"
  /\ IF rerun THEN worker' = "deciding" /\ cached' = NoVersion
              ELSE worker' = "ending" /\ UNCHANGED cached
  /\ UNCHANGED <<taken, loaded, shouldExit, rerun, leftOpen, requests, runtime,
                 file, published, update, applied>>

RunEnds ==
  /\ \/ worker = "ending" /\ worker' = "dying"
     \/ worker = "dying" /\ worker' = "none"
  /\ UNCHANGED <<taken, loaded, shouldExit, rerun, leftOpen, requests, runtime, settings>>

-----------------------------------------------------------------------------
(* ApplicationRuntime.start, driven by the lifespan of the server.         *)

(* Messaging starts, or fails half way; then it is cleaned up again, and   *)
(* if that fails the whole start does.                                     *)
MessagingBegins ==
  /\ worker = "starting" /\ cleanup = "no" /\ "platform" \notin owned
  /\ owned' = owned \cup {"platform"}
  /\ quiesced' = FALSE
  /\ UNCHANGED <<thread, requests, cleanup, isClosed, settings>>

MessagingWorkflowBegins ==
  /\ worker = "starting" /\ cleanup = "no" /\ "platform" \in owned /\ "workflow" \notin owned
  /\ owned' = owned \cup {"workflow"}
  /\ UNCHANGED <<thread, requests, quiesced, cleanup, isClosed, settings>>

MessagingFails ==
  /\ worker = "starting" /\ cleanup = "no" /\ "platform" \in owned
  /\ cleanup' = "undoing quiesce"
  /\ UNCHANGED <<thread, requests, owned, quiesced, isClosed, settings>>

(* A server that was told to exit meanwhile goes on to its shutdown, or    *)
(* returns at once.                                                        *)
StartCompletes ==
  /\ worker = "starting" /\ cleanup = "no"
  /\ "platform" \in owned => "workflow" \in owned
  /\ worker' \in (IF shouldExit THEN {"serving", "returned"} ELSE {"serving"})
  /\ leftOpen' = (worker' = "returned")
  /\ UNCHANGED <<taken, loaded, shouldExit, rerun, requests, runtime, settings>>

(* Anything else raises, or the start is cancelled: everything is closed.  *)
StartFails ==
  /\ worker = "starting" /\ cleanup = "no"
  /\ worker' = "exiting" /\ cleanup' = "quiesce"
  /\ UNCHANGED <<taken, loaded, shouldExit, rerun, leftOpen, requests, owned, quiesced, isClosed,
                 settings>>

-----------------------------------------------------------------------------
(* ApplicationRuntime.close: step by step, and no further than the first   *)
(* one that fails.                                                         *)

(* Ctrl-C, a fatal error, or should_exit.                                  *)
ServerExits ==
  /\ worker = "serving"
  /\ worker' = "exiting" /\ cleanup' = "quiesce"
  /\ UNCHANGED <<taken, loaded, shouldExit, rerun, leftOpen, requests, owned, quiesced, isClosed,
                 settings>>

NextStep(step) ==
  CASE step = "quiesce"     -> "workflow"
    [] step = "workflow"    -> "platform"
    [] step = "platform"    -> "transcriber"
    [] step = "transcriber" -> "providers"
    [] step = "providers"   -> "accounts"
    [] step = "accounts"    -> "over"

(* A step that has nothing left to do succeeds; quiesce is repeated as     *)
(* long as there is a platform.                                            *)
StepSucceeds ==
  /\ worker = "exiting" /\ cleanup \notin {"no", "over"}
  /\ owned' = owned \ {cleanup}
  /\ quiesced' = IF cleanup = "quiesce" THEN "platform" \in owned
                 ELSE quiesced /\ "platform" \in owned'
  /\ cleanup' = NextStep(cleanup)
  /\ isClosed' = (cleanup' = "over")
  /\ UNCHANGED <<thread, requests, settings>>

StepFails ==
  /\ worker = "exiting" /\ cleanup \notin {"no", "over"}
  /\ IF cleanup = "quiesce" THEN "platform" \in owned ELSE cleanup \in owned
  /\ cleanup' = "over"
  /\ UNCHANGED <<thread, requests, owned, quiesced, isClosed, settings>>

CloseReturns ==
  /\ worker = "exiting" /\ cleanup = "over"
  /\ worker' = "returned" /\ cleanup' = "no"
  /\ leftOpen' = ~isClosed
  /\ update' = NoUpdate
  /\ UNCHANGED <<taken, loaded, shouldExit, rerun, requests, owned, quiesced, isClosed,
                 file, cached, published, applied>>

(* _cleanup_messaging after a failed messaging start, the same three steps.*)
UndoMessaging ==
  /\ worker = "starting"
  /\ \/ cleanup = "undoing quiesce" /\ cleanup' = "undoing workflow"
        /\ quiesced' = TRUE /\ UNCHANGED owned
     \/ cleanup = "undoing workflow" /\ cleanup' = "undoing platform"
        /\ owned' = owned \ {"workflow"} /\ UNCHANGED quiesced
     \/ cleanup = "undoing platform" /\ cleanup' = "undone"
        /\ owned' = owned \ {"platform"} /\ quiesced' = FALSE
  /\ UNCHANGED <<thread, requests, isClosed, settings>>

UndoFails ==
  /\ worker = "starting" /\ cleanup \in {"undoing quiesce", "undoing workflow", "undoing platform"}
  /\ worker' = "exiting" /\ cleanup' = "quiesce"
  /\ UNCHANGED <<taken, loaded, shouldExit, rerun, leftOpen, requests, owned, quiesced, isClosed,
                 settings>>

StartWithoutMessaging ==
  /\ worker = "starting" /\ cleanup = "undone"
  /\ worker' \in (IF shouldExit THEN {"serving", "returned"} ELSE {"serving"})
  /\ leftOpen' = (worker' = "returned")
  /\ cleanup' = "no"
  /\ UNCHANGED <<taken, loaded, shouldExit, rerun, requests, owned, quiesced, isClosed, settings>>

-----------------------------------------------------------------------------
(* Changes of the configuration.                                           *)

EditByHand ==
  /\ file < MaxVersion /\ file' = file + 1
  /\ UNCHANGED <<thread, requests, runtime, cached, published, update, applied>>

(* The tray asks for the settings, and so do many others.                  *)
SettingsRead ==
  /\ cached = NoVersion /\ cached' = file
  /\ UNCHANGED <<thread, requests, runtime, file, published, update, applied>>

(* apply_admin_config, one at a time: an update is published to the        *)
(* providers, or waits for the restart that follows its answer.            *)
ApplyPrepares(kind) ==
  /\ worker = "serving" /\ update = NoUpdate /\ file < MaxVersion
  /\ update' = [kind |-> kind, version |-> 0]
  /\ UNCHANGED <<thread, requests, runtime, file, cached, published, applied>>

ApplyCommits ==
  /\ update.kind # "none" /\ update.version = 0 /\ file < MaxVersion
  /\ update.kind = "hot" => "providers" \in owned
  /\ file' = file + 1 /\ cached' = NoVersion
  /\ update' = [update EXCEPT !.version = file']
  /\ UNCHANGED <<thread, requests, runtime, published, applied>>

ApplyAnswers ==
  /\ update.version > 0
  /\ IF update.kind = "hot"
     THEN published' = update.version /\ applied' = update.version
     ELSE UNCHANGED <<published, applied>>
  /\ update' = NoUpdate
  /\ UNCHANGED <<thread, requests, runtime, file, cached>>

(* The commit fails, or the request is cancelled when the server exits.    *)
ApplyFails ==
  /\ update # NoUpdate
  /\ update.version > 0 => worker = "exiting"
  /\ update' = NoUpdate
  /\ UNCHANGED <<thread, requests, runtime, file, cached, published, applied>>

-----------------------------------------------------------------------------
Requests == RequestRestart \/ RequestStop \/ StartServer

SupervisorRuns ==
  \/ RunBegins \/ ReadGeneration \/ LoadSettings \/ BuildServer \/ BindFails
  \/ RunOnceReturns \/ RunDecides \/ RunEnds

RuntimeStarts ==
  \/ MessagingBegins \/ MessagingWorkflowBegins \/ MessagingFails \/ StartCompletes
  \/ StartFails \/ UndoMessaging \/ UndoFails \/ StartWithoutMessaging

RuntimeCloses == ServerExits \/ StepSucceeds \/ StepFails \/ CloseReturns

ConfigurationChanges ==
  \/ EditByHand \/ SettingsRead \/ ApplyCommits \/ ApplyAnswers \/ ApplyFails
  \/ \E kind \in {"hot", "pending"} : ApplyPrepares(kind)

ServerNext ==
  \/ Requests \/ SupervisorRuns \/ RuntimeStarts \/ RuntimeCloses \/ ConfigurationChanges

Spec == Init /\ [][ServerNext]_serverVars

-----------------------------------------------------------------------------
(* Types.                                                                  *)
TypeOK ==
  /\ file \in 0 .. MaxVersion /\ cached \in 0 .. NoVersion
  /\ supervisor \in Supervisors
  /\ scheduled \subseteq Supervisors /\ stopRequested \subseteq Supervisors
  /\ restarts \in [Supervisors -> 0 .. MaxRestarts]
  /\ worker \in {"none", "entering", "deciding", "loading", "building", "starting", "serving",
                 "exiting", "returned", "judged", "ending", "dying"}
  /\ {taken, loaded, published, applied, wanted} \subseteq Nat
  /\ {shouldExit, rerun, leftOpen, quiesced, isClosed} \subseteq BOOLEAN
  /\ owned \subseteq Resources
  /\ update \in [kind : {"none", "hot", "pending"}, version : 0 .. MaxVersion]

(* A server that goes on serving has seen every restart that was granted,  *)
(* with the configuration of that moment and every update that was         *)
(* reported as applied, and was not asked to stop.                         *)
ServesWhatWasAsked ==
  worker = "serving" /\ ~shouldExit =>
    /\ taken = restarts[supervisor] /\ supervisor \notin stopRequested
    /\ published >= wanted /\ published >= applied

(* A run builds its next runtime only when the one before is closed.       *)
NoSecondRuntime == worker \in {"deciding", "loading", "building", "starting", "serving"} => ~leftOpen

(* Cleanup stops at the first dependency that will not close: what the     *)
(* work still alive may need stays open, and a closed runtime owns nothing.*)
ClosedInOrder ==
  /\ "providers" \notin owned /\ "accounts" \in owned =>
       owned \cap (Messaging \cup {"transcriber"}) = {}
  /\ "transcriber" \notin owned /\ "providers" \in owned => owned \cap Messaging = {}
  /\ worker = "exiting" /\ "platform" \in owned /\ cleanup \in {"workflow", "platform"} => quiesced
  /\ isClosed => owned = {}

(* A restart is served by a runtime with the settings that were asked for, *)
(* built after the one before has closed in order.                         *)
RestartsAreServed == ServesWhatWasAsked /\ NoSecondRuntime /\ ClosedInOrder
=============================================================================
