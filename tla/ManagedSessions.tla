-------------------------- MODULE ManagedSessions ---------------------------
(***************************************************************************)
(* The pool of managed Claude sessions: ManagedClaudeSessionManager, the   *)
(* sessions it hands out and the subprocesses they launch, as the node     *)
(* runners of the messaging workflow use them.                             *)
(*                                                                         *)
(* A runner borrows or creates a session, launches a process in it, reads  *)
(* its output through an async generator and removes the session when it   *)
(* is done.  Its task may be cancelled anywhere.  If that happens outside  *)
(* the generator, the generator is closed only after the runner is gone.   *)
(* The manager's lock is held while a session stops.                       *)
(*                                                                         *)
(* A runner's process has the runner's name, and so has the session it     *)
(* creates, with its temporary id.  A conversation runs one prompt at a    *)
(* time (MessagingTrees), so a session is resumed by one runner at a time. *)
(***************************************************************************)
EXTENDS Naturals, FiniteSets

CONSTANTS
  Runs,  \* node runners
  Ids,   \* session ids that the CLI reports
  NONE   \* no id, no session

VARIABLES
  run,         \* where a runner is
  generator,   \* where its start_task generator is
  uses,        \* the session it was given
  handle,      \* captured_session_id or temp_session_id
  captured,    \* runners whose handle is a real id
  pending,     \* _pending_sessions
  sessions,    \* _sessions
  tempToReal,  \* _temp_to_real
  realToTemp,  \* _real_to_temp
  closing,     \* _closing_sessions
  busy,        \* who holds the manager's lock across a suspension
  todo,        \* the sessions stop_all has still to stop
  failures,    \* it counted a failure
  closed,      \* sessions that are terminal
  process,     \* the process a session refers to
  alive,       \* processes that run
  pids,        \* the process registry
  unremoved    \* runners whose removal of the session was cancelled

vars == <<run, generator, uses, handle, captured, pending, sessions, tempToReal, realToTemp,
          closing, busy, todo, failures, closed, process, alive, pids, unremoved>>

runner    == <<uses, handle, captured>>
tables    == <<pending, sessions, tempToReal, realToTemp>>
manager   == <<tables, closing, busy, todo, failures>>
processes == <<closed, process, alive, pids>>

Handles == Ids \cup Runs

Init ==
  /\ run = [r \in Runs |-> "idle"] /\ generator = [r \in Runs |-> "none"]
  /\ uses = [r \in Runs |-> NONE] /\ handle = [r \in Runs |-> NONE] /\ captured = {}
  /\ pending = [h \in Handles |-> NONE] /\ sessions = [i \in Ids |-> NONE]
  /\ tempToReal = [h \in Handles |-> NONE] /\ realToTemp = [i \in Ids |-> NONE]
  /\ closing = {} /\ busy = NONE /\ todo = {} /\ failures = FALSE
  /\ closed = {} /\ process = [s \in Runs |-> NONE] /\ alive = {} /\ pids = {}
  /\ unremoved = {}

-----------------------------------------------------------------------------
(* Session lookup and creation.                                            *)

Real(h) == IF tempToReal[h] = NONE THEN h ELSE tempToReal[h]

(* _session_for_id: by real id first, then among the pending ones.         *)
SessionFor(h) ==
  IF Real(h) \in Ids /\ sessions[Real(h)] # NONE THEN sessions[Real(h)]
  ELSE pending[Real(h)]

(* The parent sessions a prompt may resume: those no other runner is at.   *)
Resumable ==
  {p \in Ids : \A q \in Runs : run[q] \notin {"idle", "over"} =>
                             handle[q] # p /\ uses[q] # SessionFor(p)}

(* get_or_create_session: a session that is closing is refused.            *)
Borrow(r, p) ==
  /\ run[r] = "idle" /\ busy = NONE
  /\ p \in Resumable /\ SessionFor(p) # NONE
  /\ IF SessionFor(p) \in closing
     THEN run' = [run EXCEPT ![r] = "over"] /\ UNCHANGED runner
     ELSE /\ run' = [run EXCEPT ![r] = "ready"]
          /\ uses' = [uses EXCEPT ![r] = SessionFor(p)]
          /\ handle' = [handle EXCEPT ![r] = Real(p)]
          /\ captured' = captured \cup {r}
  /\ UNCHANGED <<generator, manager, processes, unremoved>>

(* A new session is pending under the parent's id or a temporary one.      *)
Create(r, h) ==
  /\ run[r] = "idle" /\ busy = NONE
  /\ h = r \/ (h \in Resumable /\ SessionFor(h) = NONE)
  /\ run' = [run EXCEPT ![r] = "ready"]
  /\ uses' = [uses EXCEPT ![r] = r]
  /\ handle' = [handle EXCEPT ![r] = h]
  /\ pending' = [pending EXCEPT ![h] = r]
  /\ UNCHANGED <<generator, captured, sessions, tempToReal, realToTemp, closing, busy, todo,
                 failures, processes, unremoved>>

-----------------------------------------------------------------------------
(* start_task.  _cli_lock is held while the generator lives, and           *)
(* _lifecycle_lock while a process is launched and fed its prompt.         *)

Idle(s)        == \A r \in Runs : uses[r] = s => generator[r] \in {"none", "ended"}
NotLaunching(s) == \A r \in Runs : uses[r] = s => generator[r] \notin {"spawning", "feeding"}

Launch(r) ==
  /\ run[r] = "ready" /\ Idle(uses[r])
  /\ IF uses[r] \in closed
     THEN run' = [run EXCEPT ![r] = "removing"] /\ UNCHANGED generator
     ELSE /\ run' = [run EXCEPT ![r] = "running"]
          /\ generator' = [generator EXCEPT ![r] = "spawning"]
  /\ UNCHANGED <<runner, manager, processes, unremoved>>

Spawn(r) ==
  /\ generator[r] = "spawning"
  /\ generator' = [generator EXCEPT ![r] = "feeding"]
  /\ process' = [process EXCEPT ![uses[r]] = r]
  /\ alive' = alive \cup {r} /\ pids' = pids \cup {r}
  /\ UNCHANGED <<run, runner, manager, closed, unremoved>>

Feed(r) ==
  /\ generator[r] = "feeding"
  /\ generator' = [generator EXCEPT ![r] = "reading"]
  /\ UNCHANGED <<run, runner, manager, processes, unremoved>>

(* The launch fails, or it is cancelled; a process that was launched is    *)
(* left to the removal of the session.                                     *)
LaunchBreaks(r) ==
  /\ generator[r] \in {"spawning", "feeding"}
  /\ generator' = [generator EXCEPT ![r] = "ended"]
  /\ run' = [run EXCEPT ![r] = "removing"]
  /\ pids' = IF generator[r] = "feeding" /\ r \notin alive THEN pids \ {r} ELSE pids
  /\ UNCHANGED <<runner, manager, closed, process, alive, unremoved>>

(* A process ends on its own.                                              *)
Exit(r) ==
  /\ r \in alive /\ alive' = alive \ {r}
  /\ UNCHANGED <<run, generator, runner, manager, closed, process, pids, unremoved>>

(* The output has ended and so has the process; or the wait for it is      *)
(* cancelled.                                                              *)
OutputEnds(r) ==
  /\ run[r] = "running" /\ generator[r] = "reading"
  /\ generator' = [generator EXCEPT ![r] = "ended"]
  /\ run' = [run EXCEPT ![r] = "removing"]
  /\ pids' = IF r \in alive THEN pids ELSE pids \ {r}
  /\ UNCHANGED <<runner, manager, closed, process, alive, unremoved>>

(* ManagedClaudeSession.stop: terminal first, then the process killed.     *)
Stopped(s) ==
  /\ NotLaunching(s)
  /\ closed' = closed \cup {s}
  /\ alive' = alive \ {process[s]} /\ pids' = pids \ {process[s]}
  /\ UNCHANGED process

NotStopped(s) ==
  /\ NotLaunching(s)
  /\ closed' = closed \cup {s}
  /\ process[s] \in alive
  /\ UNCHANGED <<process, alive, pids>>

(* Cancelled while it reads, or a line too long: the generator stops its   *)
(* session before it ends.                                                 *)
ReadBreaks(r) ==
  /\ run[r] = "running" /\ generator[r] = "reading"
  /\ Stopped(uses[r]) \/ NotStopped(uses[r])
  /\ generator' = [generator EXCEPT ![r] = "ended"]
  /\ run' = [run EXCEPT ![r] = "removing"]
  /\ UNCHANGED <<runner, manager, unremoved>>

(* The runner fails or is cancelled between two events.                    *)
Leave(r) ==
  /\ run[r] = "running" /\ generator[r] = "reading"
  /\ run' = [run EXCEPT ![r] = "removing"]
  /\ UNCHANGED <<generator, runner, manager, processes, unremoved>>

AbandonedCloses(r) ==
  /\ run[r] = "over" /\ generator[r] = "reading"
  /\ Stopped(uses[r]) \/ NotStopped(uses[r])
  /\ generator' = [generator EXCEPT ![r] = "ended"]
  /\ UNCHANGED <<run, runner, manager, unremoved>>

-----------------------------------------------------------------------------
(* register_real_session_id, on the first id the CLI reports.              *)

(* Slip: whoever owns the real id loses it.                                *)
IsPending(r, i) == pending[handle[r]] # NONE /\ pending[handle[r]] \notin closing

Registrable(r, i) ==
  /\ pending[handle[r]] # NONE
  /\ pending[handle[r]] \notin closing
  /\ SessionFor(i) \in {NONE, pending[handle[r]]}

Register(r, i) ==
  /\ run[r] = "running" /\ generator[r] = "reading" /\ r \notin captured /\ busy = NONE
  /\ Registrable(r, i)
  /\ sessions' = [sessions EXCEPT ![i] = pending[handle[r]]]
  /\ pending' = [pending EXCEPT ![handle[r]] = NONE]
  /\ tempToReal' = [tempToReal EXCEPT ![handle[r]] = i]
  /\ realToTemp' = [realToTemp EXCEPT ![i] = handle[r]]
  /\ handle' = [handle EXCEPT ![r] = i] /\ captured' = captured \cup {r}
  /\ UNCHANGED <<run, generator, uses, closing, busy, todo, failures, processes, unremoved>>

(* Refused, the runner fails and leaves the generator.                     *)
RegisterRefused(r, i) ==
  /\ run[r] = "running" /\ generator[r] = "reading" /\ r \notin captured /\ busy = NONE
  /\ ~Registrable(r, i)
  /\ run' = [run EXCEPT ![r] = "removing"]
  /\ UNCHANGED <<generator, runner, manager, processes, unremoved>>

-----------------------------------------------------------------------------
(* Removal.                                                                *)

(* _forget_session.                                                        *)
Forget(s) ==
  LET temps == {h \in Handles : pending[h] = s}
      reals == {i \in Ids : sessions[i] = s}
      olds  == temps \cup {realToTemp[i] : i \in reals}
  IN /\ pending'    = [h \in Handles |-> IF h \in temps THEN NONE ELSE pending[h]]
     /\ sessions'   = [i \in Ids |-> IF i \in reals THEN NONE ELSE sessions[i]]
     /\ tempToReal' = [h \in Handles |-> IF h \in olds THEN NONE ELSE tempToReal[h]]
     /\ realToTemp' = [i \in Ids |-> IF i \in reals THEN NONE ELSE realToTemp[i]]
     /\ closing'    = closing \ {s}

RemoveBegins(r) ==
  /\ run[r] = "removing" /\ busy = NONE
  /\ IF handle[r] = NONE \/ SessionFor(handle[r]) = NONE
     THEN run' = [run EXCEPT ![r] = "over"] /\ UNCHANGED <<closing, busy>>
     ELSE /\ closing' = closing \cup {SessionFor(handle[r])}
          /\ busy' = r
          /\ UNCHANGED run
  /\ UNCHANGED <<generator, runner, tables, todo, failures, processes, unremoved>>

RemoveStops(r) ==
  /\ busy = r /\ busy' = NONE
  /\ run' = [run EXCEPT ![r] = "over"]
  /\ \/ Stopped(SessionFor(handle[r])) /\ Forget(SessionFor(handle[r]))
     \/ NotStopped(SessionFor(handle[r])) /\ UNCHANGED <<tables, closing>>
  /\ UNCHANGED <<generator, runner, todo, failures, unremoved>>

(* Cancelled while it waits for a lock.                                    *)
RemoveCancelled(r) ==
  /\ run[r] = "removing"
  /\ run' = [run EXCEPT ![r] = "over"]
  /\ busy' = IF busy = r THEN NONE ELSE busy
  /\ unremoved' = unremoved \cup {r}
  /\ UNCHANGED <<generator, runner, tables, closing, todo, failures, processes>>

Owned == (closing \cup {pending[h] : h \in Handles} \cup {sessions[i] : i \in Ids}) \ {NONE}

StopAllBegins ==
  /\ busy = NONE /\ busy' = "stop_all"
  /\ todo' = Owned /\ closing' = Owned /\ failures' = FALSE
  /\ UNCHANGED <<run, generator, runner, tables, processes, unremoved>>

(* One after the other, whatever becomes of each.                          *)
StopAllStops(s) ==
  /\ busy = "stop_all" /\ s \in todo /\ todo' = todo \ {s}
  /\ \/ Stopped(s) /\ Forget(s) /\ UNCHANGED failures
     \/ NotStopped(s) /\ failures' = TRUE /\ UNCHANGED <<tables, closing>>
  /\ UNCHANGED <<run, generator, runner, busy, unremoved>>

StopAllReturns ==
  /\ busy = "stop_all" /\ todo = {}
  /\ busy' = NONE /\ failures' = FALSE
  /\ UNCHANGED <<run, generator, runner, tables, closing, todo, processes, unremoved>>

-----------------------------------------------------------------------------
RunnerStep(r) ==
  \/ (\E p \in Ids : Borrow(r, p)) \/ (\E h \in Handles : Create(r, h))
  \/ Launch(r) \/ Spawn(r) \/ Feed(r) \/ LaunchBreaks(r) \/ Exit(r)
  \/ OutputEnds(r) \/ ReadBreaks(r) \/ Leave(r) \/ AbandonedCloses(r)
  \/ (\E i \in Ids : Register(r, i) \/ RegisterRefused(r, i))
  \/ RemoveBegins(r) \/ RemoveStops(r) \/ RemoveCancelled(r)

StopAll == StopAllBegins \/ (\E s \in Runs : StopAllStops(s)) \/ StopAllReturns

SessionsNext == (\E r \in Runs : RunnerStep(r)) \/ StopAll

Spec == Init /\ [][SessionsNext]_vars

-----------------------------------------------------------------------------
(* Type invariant.                                                         *)
TypeOK ==
  /\ run \in [Runs -> {"idle", "ready", "running", "removing", "over"}]
  /\ generator \in [Runs -> {"none", "spawning", "feeding", "reading", "ended"}]
  /\ uses \in [Runs -> Runs \cup {NONE}] /\ handle \in [Runs -> Handles \cup {NONE}]
  /\ pending \in [Handles -> Runs \cup {NONE}] /\ sessions \in [Ids -> Runs \cup {NONE}]
  /\ tempToReal \in [Handles -> Ids \cup {NONE}] /\ realToTemp \in [Ids -> Handles \cup {NONE}]
  /\ UNION {captured, closing, todo, closed, alive, pids, unremoved} \subseteq Runs
  /\ busy \in Runs \cup {NONE, "stop_all"} /\ failures \in BOOLEAN
  /\ process \in [Runs -> Runs \cup {NONE}]

(* A process that runs has its pid in the registry and is the process of a *)
(* session the manager can still stop, however its runner ended and        *)
(* whatever ids were reported, reused or refused; and when stop_all has    *)
(* no failure to report, no process runs.  The exception is a process that *)
(* was left running by a runner cancelled once more while it waited to     *)
(* remove its session: the next runner in that session replaces it.        *)
NoOrphans ==
  /\ alive \subseteq pids
  /\ \A r \in alive \ unremoved : \E s \in Owned : process[s] = r
  /\ busy = "stop_all" /\ todo = {} /\ ~failures => alive \subseteq unremoved
=============================================================================
