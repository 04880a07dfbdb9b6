----------------------- MODULE MCProviderGenerations -----------------------
(* Small instances of the components of the server process: the provider   *)
(* generations, the server's own life, the response of a request, hedged   *)
(* opens and the Claude sessions.  In these modules they do not interact;  *)
(* a behaviour runs the one that it has chosen at the start and leaves the *)
(* others alone.                                                           *)
EXTENDS ProviderGenerations, FiniteSets

CONSTANTS
  Supervisors, MaxVersion, MaxRestarts,
  Runs, Ids,
  Tools, MaxAttempts, MaxContent,
  Opens, Keys, Slots, RateLimit, MaxFailures

VARIABLES
  component,
  file, cached, supervisor, scheduled, stopRequested, restarts, worker, taken, loaded,
  shouldExit, rerun, leftOpen, owned, quiesced, closingStep, isClosed, published, update,
  applied, wanted,
  run, generator, uses, handle, captured, pending, sessions, tempToReal, realToTemp,
  closing, busy, todo, failures, closed, process, alive, pids, unremoved,
  phase, outcome, upstream, accepted, finish, attempts, ledger, held, committed,
  client, salvage, content, serving, reply, frame, released,
  opening, task, key, losers, extra, tries, permits, idleOrder, sent, strikes, retired,
  cooling

serverVars  == <<file, cached, supervisor, scheduled, stopRequested, restarts, worker, taken,
                 loaded, shouldExit, rerun, leftOpen, owned, quiesced, closingStep, isClosed,
                 published, update, applied, wanted>>
sessionVars == <<run, generator, uses, handle, captured, pending, sessions, tempToReal,
                 realToTemp, closing, busy, todo, failures, closed, process, alive, pids,
                 unremoved>>
replyVars   == <<phase, outcome, upstream, accepted, finish, attempts, ledger, held, committed,
                 client, salvage, content, serving, reply, frame, released>>
hedgeVars   == <<opening, task, key, losers, extra, tries, permits, idleOrder, sent, strikes,
                 retired, cooling>>
allVars     == <<component, vars, serverVars, sessionVars, replyVars, hedgeVars>>

(* Supervisors are numbered from 1, and the bounds are numbers.            *)
ASSUME ServerAssumption ==
  Supervisors \subseteq Nat /\ 1 \in Supervisors /\ MaxVersion \in Nat /\ MaxRestarts \in Nat

(* The opens in flight and the keys are finitely many, no key is NONE.     *)
ASSUME HedgeAssumption ==
  /\ IsFiniteSet(Opens) /\ IsFiniteSet(Keys) /\ NONE \notin Keys
  /\ Slots \in Nat /\ RateLimit \in Nat /\ MaxFailures \in Nat

(* The attempts of a request are bounded by a number.                      *)
ASSUME ResponseAssumption == MaxAttempts \in Nat

(* Runners and the ids that the CLI reports are told apart.                *)
ASSUME SessionsAssumption ==
  Runs \cap Ids = {} /\ NONE \notin Runs \cup Ids /\ "stop_all" \notin Runs \cup {NONE}

Server   == INSTANCE ServerLifecycle WITH cleanup <- closingStep
Claude   == INSTANCE ManagedSessions
Response == INSTANCE InferenceResponse
Hedge    == INSTANCE HedgedOpen WITH stage <- opening

MCInit ==
  /\ component \in {"generations", "server", "sessions", "response", "hedge"}
  /\ Init /\ Server!Init /\ Claude!Init /\ Response!RequestInit /\ Hedge!Init

MCNext ==
  /\ UNCHANGED component
  /\ \/ /\ component = "generations" /\ Next
        /\ UNCHANGED <<serverVars, sessionVars, replyVars, hedgeVars>>
     \/ /\ component = "server" /\ Server!ServerNext
        /\ UNCHANGED <<vars, sessionVars, replyVars, hedgeVars>>
     \/ /\ component = "sessions" /\ Claude!SessionsNext
        /\ UNCHANGED <<vars, serverVars, replyVars, hedgeVars>>
     \/ /\ component = "response" /\ Response!RequestNext
        /\ UNCHANGED <<vars, serverVars, sessionVars, hedgeVars>>
     \/ /\ component = "hedge" /\ Hedge!HedgeNext
        /\ UNCHANGED <<vars, serverVars, sessionVars, replyVars>>

(* The fairness of the two components that have one, while they are chosen.*)
GenerationsAreFair ==
  LET on == component = "generations" IN
  /\ \A g \in Runtimes : /\ WF_vars(on /\ BackgroundStarts(g))
                         /\ WF_vars(on /\ refresh[g] = "cancelled" /\ BackgroundEnds(g))
                         /\ WF_vars(on /\ \E ok \in BOOLEAN : CleanupEnds(g, ok))
  /\ \A u \in Users : WF_vars(on /\ RefreshLeases(u))
  /\ WF_vars(on /\ (ReplacePrepares \/ CommitFails \/ Publish \/ ReplaceEnds))
  /\ WF_vars(on /\ (CloseRetires \/ CloseEnds \/ \E forced \in BOOLEAN : CloseGenerations(forced)))

RequestIsFair ==
  LET on == component = "response" IN
  /\ WF_replyVars(on /\ Response!ProgressExpires)
  /\ WF_replyVars(on /\ Response!BodyMoves)
  /\ WF_replyVars(on /\ Response!CleanupMoves)

MCSpec == MCInit /\ [][MCNext]_allVars /\ GenerationsAreFair /\ RequestIsFair

-----------------------------------------------------------------------------
(* The properties of the other components, each stated in its module.      *)

(* A restart is served by a runtime with the settings it asked for.        *)
RestartsAreServed == component = "server" => Server!TypeOK /\ Server!RestartsAreServed

(* No process outlives the session that answers for it.                    *)
NoOrphans == component = "sessions" => Claude!TypeOK /\ Claude!NoOrphans

(* The client's view of a response obeys the stream contract, and all that *)
(* it shows comes from one upstream answer.                                *)
ContractKept ==
  component = "response" => Response!TypeOK /\ Response!ContractKept /\ Response!OneAnswer

(* A lease is released once, after its stream is closed.                   *)
LeaseOutlivesStream == component = "response" => Response!LeaseOutlivesStream

(* Every request ends and gives its lease back, unless a send blocks for   *)
(* ever.                                                                   *)
RequestEnds ==
  (component = "response" /\ released = 0) ~> (released > 0 \/ [](serving = "blocked"))

(* The slot of a hedge is returned once, after its racer is gone.          *)
HedgeSlotsReturn == component = "hedge" => Hedge!TypeOK /\ Hedge!HedgeSlotsReturn
=============================================================================
