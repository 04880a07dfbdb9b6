------------------------ MODULE ProviderGenerations ------------------------
(***************************************************************************)
(* ProviderRuntimeManager: the provider generations of a running server.   *)
(* Requests lease the current generation; an admin apply replaces it while *)
(* old requests go on; the last lease of a retired generation closes it;   *)
(* shutdown drains every generation for a while and then closes them all.  *)
(*                                                                         *)
(* Everything runs on one event loop, so code between two awaits is one    *)
(* step.  _replace_lock is held across awaits by replace, by the first     *)
(* part of close and by an explicit refresh while it cancels the           *)
(* background one; releases, cleanups and the drain of close run without   *)
(* it.  Any of these callers may be cancelled at an await.                 *)
(*                                                                         *)
(* Operators marked "Slip:" are plausible defective variants of the        *)
(* operator they precede; the specification does not use them.             *)
(***************************************************************************)
EXTENDS Naturals

CONSTANTS
  Users,      \* requests and explicit refreshes, each with one lease at a time
  Runtimes,   \* ProviderRuntime objects, numbered in order of construction
  NONE

(* Holders of _replace_lock that are not users.                            *)
Operations == {"replace", "close"}

ASSUME GenerationsAssumption ==
  /\ Runtimes \subseteq Nat
  /\ 1 \in Runtimes
  /\ NONE \notin Users \cup Runtimes /\ NONE \notin Operations
  /\ Users \cap Operations = {}

VARIABLES
  current,      \* _current
  stage,        \* how each runtime is owned
  lease,        \* the generation each user holds
  refresh,      \* the background refresh task of each generation
  refreshTask,  \* _refresh_task
  cleanup,      \* the cleanup task of each generation
  lock,         \* holder of _replace_lock
  step,         \* where the holder of the lock waits
  awaited,      \* the generation whose refresh or cleanup the holder waits for
  candidate,    \* the runtime whose configuration is being committed
  closer,       \* progress of close()
  targets,      \* generations that close() has still to visit
  joined,       \* generations whose cleanup close() waits for
  clean         \* no cleanup of this close() has failed

vars == <<current, stage, lease, refresh, refreshTask, cleanup, lock, step, awaited,
          candidate, closer, targets, joined, clean>>

lockVars  == <<lock, step, awaited>>
closeVars == <<closer, targets, joined, clean>>

(* "unpublished": built for a replacement that failed and not cleaned up;  *)
(* "abandoned": built for a replacement that was cancelled while it        *)
(* committed, after which nothing refers to it.                            *)
Stages  == {"unused", "candidate", "unpublished", "dropped", "abandoned",
            "current", "retired", "closed"}
Phases  == {"none", "created", "running", "cancelled"}
Cleanup == {"idle", "running", "forced", "failed"}
Steps   == {"none", "cancelling", "committing", "retiring"}
Closer  == {"open", "cancelling", "draining", "closing", "incomplete", "closed"}

Init ==
  /\ current     = 1
  /\ stage       = [g \in Runtimes |-> IF g = 1 THEN "current" ELSE "unused"]
  /\ lease       = [u \in Users |-> NONE]
  /\ refresh     = [g \in Runtimes |-> IF g = 1 THEN "created" ELSE "none"]
  /\ refreshTask = 1
  /\ cleanup     = [g \in Runtimes |-> "idle"]
  /\ lock = NONE /\ step = "none" /\ awaited = NONE
  /\ candidate   = NONE
  /\ closer = "open" /\ targets = {} /\ joined = {} /\ clean = TRUE

-----------------------------------------------------------------------------
Closing == closer # "open"

CleaningUp(g) == cleanup[g] \in {"running", "forced"}

Refreshing(g) == refresh[g] \in {"running", "cancelled"}

(* generation.active_leases is positive.                                   *)
Leased(g) == Refreshing(g) \/ \E u \in Users : lease[u] = g

Fresh(g) == stage[g] = "unused" /\ \A h \in Runtimes : h < g => stage[h] # "unused"

(* A cleanup task is created unless one is running.                        *)
WithCleanup(G) == [g \in Runtimes |-> IF g \in G /\ ~CleaningUp(g) THEN "running" ELSE cleanup[g]]

(* Slip: any release of a retired generation closes it.                    *)
EveryRelease(g, last) ==
  cleanup' = IF stage[g] = "retired" /\ ~Closing THEN WithCleanup({g}) ELSE cleanup

(* ProviderRuntimeManager._release: the last lease of a retired generation *)
(* closes it, except during shutdown.                                      *)
LastRelease(g, last) ==
  cleanup' = IF last /\ stage[g] = "retired" /\ ~Closing THEN WithCleanup({g}) ELSE cleanup

(* Slip: the task is waited for but not cancelled.                         *)
WaitRefresh ==
  /\ refreshTask' = NONE
  /\ refresh' = refresh
  /\ awaited' = refreshTask

(* _cancel_refresh, by the holder of the lock: forget the task and wait    *)
(* for it.                                                                 *)
CancelRefresh ==
  /\ refreshTask' = NONE
  /\ refresh' = [g \in Runtimes |->
                   IF g # refreshTask THEN refresh[g]
                   ELSE IF refresh[g] = "running" THEN "cancelled"
                   ELSE IF refresh[g] = "created" THEN "none" ELSE refresh[g]]
  /\ awaited' = refreshTask

RefreshGone == awaited # NONE => refresh[awaited] = "none"

Take(who, at) == lock = NONE /\ lock' = who /\ step' = at
Free          == lock' = NONE /\ step' = "none" /\ awaited' = NONE

-----------------------------------------------------------------------------
(* Leases.                                                                 *)

Acquire(u) ==
  /\ lock = NONE /\ ~Closing
  /\ lease[u] = NONE
  /\ lease' = [lease EXCEPT ![u] = current]
  /\ UNCHANGED <<current, stage, refresh, refreshTask, cleanup, candidate, lockVars, closeVars>>

Release(u) ==
  /\ lease[u] # NONE
  /\ lease' = [lease EXCEPT ![u] = NONE]
  /\ LastRelease(lease[u], ~Refreshing(lease[u]) /\ \A v \in Users \ {u} : lease[v] # lease[u])
  /\ UNCHANGED <<current, stage, refresh, refreshTask, candidate, lockVars, closeVars>>

(* An explicit refresh waits for the background one before it leases.      *)
RefreshBegins(u) ==
  /\ ~Closing
  /\ lease[u] = NONE
  /\ Take(u, "cancelling")
  /\ CancelRefresh
  /\ UNCHANGED <<current, stage, lease, cleanup, candidate, closeVars>>

RefreshLeases(u) ==
  /\ lock = u /\ RefreshGone
  /\ lease' = [lease EXCEPT ![u] = current]
  /\ Free
  /\ UNCHANGED <<current, stage, refresh, refreshTask, cleanup, candidate, closeVars>>

RefreshCancelled(u) ==
  /\ lock = u
  /\ Free
  /\ UNCHANGED <<current, stage, lease, refresh, refreshTask, cleanup, candidate, closeVars>>

(* The background refresh leases its generation when its task first runs.  *)
BackgroundStarts(g) ==
  /\ refresh[g] = "created"
  /\ refresh' = [refresh EXCEPT ![g] = IF stage[g] = "closed" THEN "none" ELSE "running"]
  /\ UNCHANGED <<current, stage, lease, refreshTask, cleanup, candidate, lockVars, closeVars>>

BackgroundEnds(g) ==
  /\ Refreshing(g)
  /\ refresh' = [refresh EXCEPT ![g] = "none"]
  /\ LastRelease(g, \A u \in Users : lease[u] # g)
  /\ UNCHANGED <<current, stage, lease, refreshTask, candidate, lockVars, closeVars>>

-----------------------------------------------------------------------------
(* Replacement.                                                            *)

ReplaceBegins ==
  /\ ~Closing
  /\ \E g \in Runtimes : Fresh(g)
  /\ Take("replace", "cancelling")
  /\ CancelRefresh
  /\ UNCHANGED <<current, stage, lease, cleanup, candidate, closeVars>>

(* Unpublished runtimes of earlier failures are cleaned up again, then the *)
(* factory builds the candidate or raises.                                 *)
ReplacePrepares ==
  /\ lock = "replace" /\ step = "cancelling" /\ RefreshGone
  /\ \E cleaned \in SUBSET {g \in Runtimes : stage[g] = "unpublished"}, g \in Runtimes :
       LET kept == [h \in Runtimes |-> IF h \in cleaned THEN "dropped" ELSE stage[h]] IN
       /\ Fresh(g)
       /\ \/ /\ stage' = [kept EXCEPT ![g] = "candidate"]
             /\ candidate' = g
             /\ step' = "committing" /\ awaited' = NONE
             /\ UNCHANGED lock
          \/ /\ stage' = kept
             /\ Free
             /\ UNCHANGED candidate
  /\ UNCHANGED <<current, lease, refresh, refreshTask, cleanup, closeVars>>

CommitFails ==
  /\ lock = "replace" /\ step = "committing"
  /\ \E s \in {"dropped", "unpublished"} : stage' = [stage EXCEPT ![candidate] = s]
  /\ candidate' = NONE
  /\ Free
  /\ UNCHANGED <<current, lease, refresh, refreshTask, cleanup, closeVars>>

(* Slip: the previous generation is left to its last lease, if any.        *)
PublishOnly ==
  /\ lock = "replace" /\ step = "committing"
  /\ current' = candidate
  /\ stage' = [stage EXCEPT ![candidate] = "current", ![current] = "retired"]
  /\ refresh' = [refresh EXCEPT ![candidate] = "created"]
  /\ refreshTask' = candidate
  /\ candidate' = NONE
  /\ Free
  /\ UNCHANGED <<lease, cleanup, closeVars>>

(* Publication: the previous generation is retired, and closed here if no  *)
(* lease holds it; the lock is kept until that cleanup is over.            *)
Publish ==
  /\ lock = "replace" /\ step = "committing"
  /\ current' = candidate
  /\ stage' = [stage EXCEPT ![candidate] = "current", ![current] = "retired"]
  /\ refresh' = [refresh EXCEPT ![candidate] = "created"]
  /\ refreshTask' = candidate
  /\ candidate' = NONE
  /\ IF Leased(current)
     THEN Free /\ UNCHANGED cleanup
     ELSE /\ cleanup' = WithCleanup({current})
          /\ step' = "retiring" /\ awaited' = current
          /\ UNCHANGED lock
  /\ UNCHANGED <<lease, closeVars>>

ReplaceEnds ==
  /\ lock = "replace" /\ step = "retiring"
  /\ ~CleaningUp(awaited)
  /\ Free
  /\ UNCHANGED <<current, stage, lease, refresh, refreshTask, cleanup, candidate, closeVars>>

ReplaceCancelled ==
  /\ lock = "replace"
  /\ stage' = IF step = "committing" THEN [stage EXCEPT ![candidate] = "abandoned"] ELSE stage
  /\ candidate' = NONE
  /\ Free
  /\ UNCHANGED <<current, lease, refresh, refreshTask, cleanup, closeVars>>

-----------------------------------------------------------------------------
(* Cleanup and shutdown.                                                   *)

(* _run_generation_cleanup; a failed generation stays in _retired.         *)
CleanupEnds(g, ok) ==
  /\ CleaningUp(g)
  /\ cleanup' = [cleanup EXCEPT ![g] = IF ok THEN "idle" ELSE "failed"]
  /\ stage' = IF ok THEN [stage EXCEPT ![g] = "closed"] ELSE stage
  /\ joined' = joined \ {g}
  /\ clean' = (clean /\ (g \in joined => ok))
  /\ UNCHANGED <<current, lease, refresh, refreshTask, candidate, lockVars, closer, targets>>

(* close(), possibly again after an attempt that failed or was cancelled.  *)
CloseBegins ==
  /\ closer \in {"open", "incomplete"}
  /\ Take("close", "cancelling")
  /\ closer' = "cancelling" /\ targets' = {} /\ joined' = {} /\ clean' = TRUE
  /\ CancelRefresh
  /\ UNCHANGED <<current, stage, lease, cleanup, candidate>>

(* Slip: generations retired earlier are left out of the shutdown.         *)
CloseRetiresCurrent ==
  /\ lock = "close" /\ RefreshGone
  /\ stage' = IF stage[current] = "current" THEN [stage EXCEPT ![current] = "retired"] ELSE stage
  /\ targets' = {current}
  /\ closer' = "draining"
  /\ Free
  /\ UNCHANGED <<current, lease, refresh, refreshTask, cleanup, candidate, joined, clean>>

CloseRetires ==
  /\ lock = "close" /\ RefreshGone
  /\ stage' = IF stage[current] = "current" THEN [stage EXCEPT ![current] = "retired"] ELSE stage
  /\ targets' = {g \in Runtimes : stage'[g] = "retired"}
  /\ closer' = "draining"
  /\ Free
  /\ UNCHANGED <<current, lease, refresh, refreshTask, cleanup, candidate, joined, clean>>

(* Slip: the drain is not awaited before an unforced cleanup.              *)
CloseWithoutDrain(forced) ==
  /\ closer = "draining"
  /\ closer' = "closing"
  /\ joined' = {g \in targets : stage[g] = "retired"}
  /\ cleanup' = [g \in Runtimes |-> IF g \notin joined' \/ CleaningUp(g) THEN cleanup[g]
                                    ELSE IF forced THEN "forced" ELSE "running"]
  /\ targets' = {}
  /\ UNCHANGED <<current, stage, lease, refresh, refreshTask, candidate, clean, lockVars>>

(* Slip: the drain has no time limit.                                      *)
CloseAfterDrain(forced) ==
  /\ closer = "draining"
  /\ \A g \in targets : ~Leased(g)
  /\ closer' = "closing"
  /\ joined' = {g \in targets : stage[g] = "retired"}
  /\ cleanup' = [g \in Runtimes |-> IF g \notin joined' \/ CleaningUp(g) THEN cleanup[g]
                                    ELSE IF forced THEN "forced" ELSE "running"]
  /\ targets' = {}
  /\ UNCHANGED <<current, stage, lease, refresh, refreshTask, candidate, clean, lockVars>>

(* The drain ends when no target is leased, or after                       *)
(* SHUTDOWN_DRAIN_TIMEOUT_SECONDS; then each target's cleanup task is      *)
(* created or joined.                                                      *)
CloseGenerations(forced) ==
  /\ closer = "draining"
  /\ forced \/ \A g \in targets : ~Leased(g)
  /\ closer' = "closing"
  /\ joined' = {g \in targets : stage[g] = "retired"}
  /\ cleanup' = [g \in Runtimes |-> IF g \notin joined' \/ CleaningUp(g) THEN cleanup[g]
                                    ELSE IF forced THEN "forced" ELSE "running"]
  /\ targets' = {}
  /\ UNCHANGED <<current, stage, lease, refresh, refreshTask, candidate, clean, lockVars>>

(* Unpublished runtimes are cleaned up once more; any failure so far makes *)
(* close raise, and the owner may call it again.                           *)
CloseEnds ==
  /\ closer = "closing" /\ joined = {}
  /\ \E cleaned \in SUBSET {g \in Runtimes : stage[g] = "unpublished"} :
       /\ stage' = [g \in Runtimes |-> IF g \in cleaned THEN "dropped" ELSE stage[g]]
       /\ closer' = IF clean /\ \A g \in Runtimes : stage'[g] # "unpublished"
                    THEN "closed" ELSE "incomplete"
  /\ UNCHANGED <<current, lease, refresh, refreshTask, cleanup, candidate, targets, joined,
                 clean, lockVars>>

CloseCancelled ==
  /\ closer \in {"cancelling", "draining", "closing"}
  /\ closer' = "incomplete" /\ targets' = {} /\ joined' = {}
  /\ IF lock = "close" THEN Free ELSE UNCHANGED lockVars
  /\ UNCHANGED <<current, stage, lease, refresh, refreshTask, cleanup, candidate, clean>>

-----------------------------------------------------------------------------
Lease   == \E u \in Users : Acquire(u) \/ Release(u) \/ RefreshBegins(u) \/ RefreshLeases(u)
                            \/ RefreshCancelled(u)
Replace == ReplaceBegins \/ ReplacePrepares \/ CommitFails \/ Publish \/ ReplaceEnds
           \/ ReplaceCancelled
Close   == \/ CloseBegins \/ CloseRetires \/ CloseEnds \/ CloseCancelled
           \/ \E forced \in BOOLEAN : CloseGenerations(forced)
Background(g) == BackgroundStarts(g) \/ BackgroundEnds(g) \/ \E ok \in BOOLEAN : CleanupEnds(g, ok)

Next == Lease \/ Replace \/ Close \/ \E g \in Runtimes : Background(g)

Spec == Init /\ [][Next]_vars

-----------------------------------------------------------------------------
(* Type invariant.                                                         *)
TypeOK ==
  /\ current     \in Runtimes
  /\ stage       \in [Runtimes -> Stages]
  /\ lease       \in [Users -> Runtimes \cup {NONE}]
  /\ refresh     \in [Runtimes -> Phases]
  /\ refreshTask \in Runtimes \cup {NONE}
  /\ cleanup     \in [Runtimes -> Cleanup]
  /\ lock        \in Users \cup Operations \cup {NONE}
  /\ step        \in Steps
  /\ awaited     \in Runtimes \cup {NONE}
  /\ candidate   \in Runtimes \cup {NONE}
  /\ closer      \in Closer
  /\ targets     \subseteq Runtimes
  /\ joined      \subseteq Runtimes
  /\ clean       \in BOOLEAN

(* A provider is never taken away under a request: a leased generation is  *)
(* neither closed nor being closed, unless shutdown ran out of time.       *)
LeasedStaysOpen ==
  \A g \in Runtimes :
    Leased(g) /\ ~Closing => stage[g] \in {"current", "retired"} /\ ~CleaningUp(g)

(* No generation is forgotten: until shutdown takes over, a retired one is *)
(* leased, being cleaned up, or failed its cleanup.                        *)
RetiredIsAccountedFor ==
  \A g \in Runtimes :
    stage[g] = "retired" /\ ~Closing => Leased(g) \/ CleaningUp(g) \/ cleanup[g] = "failed"

(* The manager becomes terminal only when every runtime it owns is closed, *)
(* whatever failed or was cancelled on the way.  One runtime it disowns: a *)
(* candidate whose replacement was cancelled during its commit is dropped  *)
(* open, neither published nor cleaned up ("abandoned").                   *)
ClosedMeansClean ==
  closer = "closed" =>
    \A g \in Runtimes :
      /\ stage[g] \in {"unused", "dropped", "abandoned", "closed"}
      /\ ~CleaningUp(g)

(* Each generation is a leased resource: no lease after it is retired, no  *)
(* cleanup under a lease unless forced, none after one that succeeded.     *)
Resource(g) == INSTANCE LeasedResource WITH
  held    <- Leased(g),
  life    <- CASE stage[g] = "current" -> "open"
               [] stage[g] \in {"retired", "closed"} -> stage[g]
               [] OTHER -> "unused",
  cleanup <- cleanup[g]

EachGenerationIsLeased ==
  /\ \A g \in Runtimes : Resource(g)!Init
  /\ [][\A g \in Runtimes : UNCHANGED Resource(g)!vars \/ Resource(g)!Next]_vars

-----------------------------------------------------------------------------
(* Scheduling.  The event loop runs every ready task; commits, discovery   *)
(* requests that were cancelled, and provider cleanups return.  Nothing is *)
(* assumed of a request: a stream may keep its lease for ever.             *)
Fairness ==
  /\ \A g \in Runtimes : /\ WF_vars(BackgroundStarts(g))
                         /\ WF_vars(refresh[g] = "cancelled" /\ BackgroundEnds(g))
                         /\ WF_vars(\E ok \in BOOLEAN : CleanupEnds(g, ok))
  /\ \A u \in Users : WF_vars(RefreshLeases(u))
  /\ WF_vars(ReplacePrepares \/ CommitFails \/ Publish \/ ReplaceEnds)
  /\ WF_vars(CloseRetires \/ CloseEnds \/ \E forced \in BOOLEAN : CloseGenerations(forced))

FairSpec == Spec /\ Fairness

(* Shutdown ends even if a request never gives its lease back.             *)
ShutdownEnds == (closer = "cancelling") ~> (closer \in {"closed", "incomplete"})

(* Nobody is kept waiting for the lock for ever: a replacement that closes *)
(* the old generation under it does not stop new requests for good.        *)
LockIsFreed == (lock # NONE) ~> (lock = NONE)

(* Both waits end.                                                         *)
WaitsEnd == ShutdownEnds /\ LockIsFreed
=============================================================================
