--------------------- MODULE ProviderGenerationsProofs ---------------------
(***************************************************************************)
(* Proofs about ProviderGenerations: no provider is taken away under a     *)
(* request, no retired generation is forgotten, and the manager is closed  *)
(* only when everything it owned is, for any requests and generations.     *)
(***************************************************************************)
EXTENDS ProviderGenerations, TLAPS

(* Who may hold the lock, and what it owns while it does.                  *)
LockShape ==
  /\ lock \in Users \cup {"replace"} => ~Closing
  /\ lock = "close" <=> closer = "cancelling"
  /\ Closing \/ (lock # NONE /\ step # "retiring") => refreshTask = NONE
  /\ step \in {"committing", "retiring"} => lock = "replace"
  /\ candidate # NONE <=> step = "committing"
  /\ \A u \in Users : lock = u => lease[u] = NONE

(* There is one current generation and at most one candidate.              *)
StageShape ==
  /\ ~Closing => stage[current] = "current"
  /\ stage[current] \in {"current", "retired", "closed"}
  /\ closer \in {"draining", "closing", "closed"} => stage[current] # "current"
  /\ \A g \in Runtimes : stage[g] = "current" => g = current
  /\ \A g \in Runtimes : stage[g] = "candidate" <=> g = candidate

(* Only the current generation starts a refresh, and only a retired one is *)
(* cleaned up.                                                             *)
RefreshShape ==
  \A g \in Runtimes :
    /\ refresh[g] \in {"created", "running"} => refreshTask = g /\ g = current
    /\ CleaningUp(g) => stage[g] = "retired"

(* A shutdown that has had no failure so far has every retired generation  *)
(* in view.                                                                *)
ShutdownShape ==
  /\ closer = "draining" => \A g \in Runtimes : stage[g] = "retired" => g \in targets
  /\ closer = "closing" /\ clean => \A g \in Runtimes : stage[g] = "retired" => g \in joined

(* The inductive invariant.                                                *)
IInv == /\ TypeOK /\ LockShape /\ StageShape /\ RefreshShape /\ ShutdownShape
        /\ LeasedStaysOpen /\ RetiredIsAccountedFor /\ ClosedMeansClean

-----------------------------------------------------------------------------
(* Effects on the stages.                                                  *)

(* What ReplacePrepares does to the runtimes: the generations keep their   *)
(* stage, and the only candidate is the new one, if it could be built.     *)
LEMMA PreparedStages ==
  ASSUME IInv, ReplacePrepares
  PROVE  /\ stage' \in [Runtimes -> Stages]
         /\ \A h \in Runtimes :
              stage[h] \in {"current", "retired", "closed"} \/ stage'[h] \in {"current", "retired", "closed"} =>
                stage'[h] = stage[h]
         /\ \A h \in Runtimes : stage'[h] = "candidate" <=> h = candidate'
         /\ \/ candidate' \in Runtimes /\ step' = "committing" /\ awaited' = NONE /\ lock' = lock
            \/ candidate' = candidate /\ Free
<1>1. PICK cleaned \in SUBSET {g \in Runtimes : stage[g] = "unpublished"}, g \in Runtimes :
        LET kept == [h \in Runtimes |-> IF h \in cleaned THEN "dropped" ELSE stage[h]] IN
        /\ Fresh(g)
        /\ \/ /\ stage' = [kept EXCEPT ![g] = "candidate"]
              /\ candidate' = g
              /\ step' = "committing" /\ awaited' = NONE
              /\ UNCHANGED lock
           \/ /\ stage' = kept
              /\ Free
              /\ UNCHANGED candidate
  BY DEF ReplacePrepares
<1> DEFINE kept == [h \in Runtimes |-> IF h \in cleaned THEN "dropped" ELSE stage[h]]
<1>2. /\ \A h \in cleaned : stage[h] = "unpublished"
      /\ stage[g] = "unused"
      /\ candidate = NONE
  BY <1>1 DEF Fresh, IInv, LockShape, ReplacePrepares
<1>3. kept \in [Runtimes -> Stages]
  BY DEF IInv, TypeOK, Stages
<1>4. \A h \in Runtimes : stage[h] # "candidate"
  BY <1>2, GenerationsAssumption DEF IInv, StageShape
<1>5. CASE stage' = [kept EXCEPT ![g] = "candidate"] /\ candidate' = g /\ step' = "committing"
           /\ awaited' = NONE /\ UNCHANGED lock
  BY <1>2, <1>3, <1>4, <1>5 DEF Stages
<1>6. CASE stage' = kept /\ Free /\ UNCHANGED candidate
  BY <1>2, <1>3, <1>4, <1>6, GenerationsAssumption
<1> QED
  BY <1>1, <1>5, <1>6

(* A candidate that fails to commit is cleaned up or kept for later.       *)
LEMMA FailedStages ==
  ASSUME IInv, CommitFails
  PROVE  /\ stage' \in [Runtimes -> Stages]
         /\ \A h \in Runtimes : h # candidate => stage'[h] = stage[h]
         /\ candidate \in Runtimes /\ stage'[candidate] \in {"dropped", "unpublished"}
<1>1. candidate \in Runtimes
  BY DEF IInv, TypeOK, LockShape, CommitFails
<1>2. PICK s \in {"dropped", "unpublished"} : stage' = [stage EXCEPT ![candidate] = s]
  BY DEF CommitFails
<1> QED
  BY <1>1, <1>2 DEF IInv, TypeOK, Stages

(* Publication retires the current generation for the candidate.           *)
LEMMA PublishedStages ==
  ASSUME IInv, Publish
  PROVE  /\ candidate \in Runtimes /\ candidate # current
         /\ stage' \in [Runtimes -> Stages]
         /\ refresh' \in [Runtimes -> Phases]
         /\ cleanup' \in [Runtimes -> Cleanup]
         /\ step' \in Steps /\ awaited' \in Runtimes \cup {NONE}
         /\ lock' \in Users \cup Operations \cup {NONE}
<1>1. candidate \in Runtimes /\ current \in Runtimes
  BY DEF IInv, TypeOK, LockShape, Publish
<1>2. candidate # current
  BY <1>1 DEF IInv, StageShape
<1>3. stage' \in [Runtimes -> Stages]
  BY <1>1 DEF IInv, TypeOK, Publish, Stages
<1>4. refresh' \in [Runtimes -> Phases]
  BY <1>1 DEF IInv, TypeOK, Publish, Phases
<1>5. cleanup' \in [Runtimes -> Cleanup]
  <2>1. CASE Leased(current)
    BY <2>1 DEF IInv, TypeOK, Publish
  <2>2. CASE ~Leased(current)
    BY <2>2 DEF IInv, TypeOK, Publish, WithCleanup, Cleanup
  <2> QED
    BY <2>1, <2>2
<1>6. /\ step' \in Steps /\ awaited' \in Runtimes \cup {NONE}
      /\ lock' \in Users \cup Operations \cup {NONE}
  BY <1>1 DEF IInv, TypeOK, Publish, Free, Steps
<1> QED
  BY <1>1, <1>2, <1>3, <1>4, <1>5, <1>6

-----------------------------------------------------------------------------
(* Every step keeps the invariant.                                         *)


(* A request leases the current generation.                                *)
LEMMA AcquireStep == ASSUME IInv, NEW u \in Users, Acquire(u) PROVE IInv'
<1>1. TypeOK'
  BY GenerationsAssumption DEF IInv, TypeOK, Stages, Phases, Cleanup, Steps, Closer,
     Operations, Closing, CleaningUp, Acquire, lockVars, closeVars
<1>2. LockShape'
  BY GenerationsAssumption DEF IInv, TypeOK, LockShape, Operations, Closing,
     CleaningUp, Acquire, lockVars, closeVars
<1>3. StageShape'
  BY GenerationsAssumption DEF IInv, TypeOK, LockShape, StageShape, RefreshShape,
     Closing, CleaningUp, Acquire, lockVars, closeVars
<1>4. RefreshShape'
  BY GenerationsAssumption DEF IInv, TypeOK, LockShape, StageShape, RefreshShape,
     Closing, CleaningUp, Acquire, lockVars, closeVars
<1>5. ShutdownShape'
  BY GenerationsAssumption DEF IInv, TypeOK, LockShape, StageShape, RefreshShape,
     ShutdownShape, Closing, CleaningUp, Acquire, lockVars, closeVars
<1>6. LeasedStaysOpen'
  BY GenerationsAssumption DEF IInv, TypeOK, LockShape, StageShape, RefreshShape,
     LeasedStaysOpen, Leased, Refreshing, Closing, CleaningUp, Acquire, lockVars,
     closeVars
<1>7. RetiredIsAccountedFor'
  BY GenerationsAssumption DEF IInv, TypeOK, LockShape, StageShape, RefreshShape,
     RetiredIsAccountedFor, Leased, Refreshing, Closing, CleaningUp, Acquire,
     lockVars, closeVars
<1>8. ClosedMeansClean'
  BY GenerationsAssumption DEF IInv, TypeOK, LockShape, StageShape, RefreshShape,
     ShutdownShape, ClosedMeansClean, Closing, CleaningUp, Acquire, lockVars,
     closeVars
<1> QED
  BY <1>1, <1>2, <1>3, <1>4, <1>5, <1>6, <1>7, <1>8 DEF IInv

(* The last lease of a retired generation starts its cleanup.              *)
LEMMA ReleaseStep == ASSUME IInv, NEW u \in Users, Release(u) PROVE IInv'
<1>1. TypeOK'
  BY GenerationsAssumption DEF IInv, TypeOK, Stages, Phases, Cleanup, Steps, Closer,
     Operations, Closing, CleaningUp, Release, LastRelease, WithCleanup, lockVars,
     closeVars
<1>2. LockShape'
  BY GenerationsAssumption DEF IInv, TypeOK, LockShape, Operations, Closing,
     CleaningUp, Release, LastRelease, WithCleanup, lockVars, closeVars
<1>3. StageShape'
  BY GenerationsAssumption DEF IInv, TypeOK, LockShape, StageShape, RefreshShape,
     Closing, CleaningUp, Release, LastRelease, WithCleanup, lockVars, closeVars
<1>4. RefreshShape'
  BY GenerationsAssumption DEF IInv, TypeOK, LockShape, StageShape, RefreshShape,
     Closing, CleaningUp, Release, LastRelease, WithCleanup, lockVars, closeVars
<1>5. ShutdownShape'
  BY GenerationsAssumption DEF IInv, TypeOK, LockShape, StageShape, RefreshShape,
     ShutdownShape, Closing, CleaningUp, Release, LastRelease, WithCleanup,
     lockVars, closeVars
<1>6. LeasedStaysOpen'
  BY GenerationsAssumption DEF IInv, TypeOK, LockShape, StageShape, RefreshShape,
     LeasedStaysOpen, Leased, Refreshing, Closing, CleaningUp, Release, LastRelease,
     WithCleanup, lockVars, closeVars
<1>7. RetiredIsAccountedFor'
  BY GenerationsAssumption DEF IInv, TypeOK, LockShape, StageShape, RefreshShape,
     RetiredIsAccountedFor, Leased, Refreshing, Closing, CleaningUp, Release,
     LastRelease, WithCleanup, lockVars, closeVars
<1>8. ClosedMeansClean'
  BY GenerationsAssumption DEF IInv, TypeOK, LockShape, StageShape, RefreshShape,
     ShutdownShape, ClosedMeansClean, Closing, CleaningUp, Release, LastRelease,
     WithCleanup, lockVars, closeVars
<1> QED
  BY <1>1, <1>2, <1>3, <1>4, <1>5, <1>6, <1>7, <1>8 DEF IInv

(* An explicit refresh stops the background one.                           *)
LEMMA RefreshBeginsStep == ASSUME IInv, NEW u \in Users, RefreshBegins(u) PROVE IInv'
<1>1. TypeOK'
  BY GenerationsAssumption DEF IInv, TypeOK, Stages, Phases, Cleanup, Steps, Closer,
     Operations, Closing, CleaningUp, RefreshBegins, Take, CancelRefresh, lockVars,
     closeVars
<1>2. LockShape'
  BY GenerationsAssumption DEF IInv, TypeOK, LockShape, Operations, Closing,
     CleaningUp, RefreshBegins, Take, CancelRefresh, lockVars, closeVars
<1>3. StageShape'
  BY GenerationsAssumption DEF IInv, TypeOK, LockShape, StageShape, RefreshShape,
     Closing, CleaningUp, RefreshBegins, Take, CancelRefresh, lockVars, closeVars
<1>4. RefreshShape'
  BY GenerationsAssumption DEF IInv, TypeOK, LockShape, StageShape, RefreshShape,
     Closing, CleaningUp, RefreshBegins, Take, CancelRefresh, lockVars, closeVars
<1>5. ShutdownShape'
  BY GenerationsAssumption DEF IInv, TypeOK, LockShape, StageShape, RefreshShape,
     ShutdownShape, Closing, CleaningUp, RefreshBegins, Take, CancelRefresh,
     lockVars, closeVars
<1>6. LeasedStaysOpen'
  BY GenerationsAssumption DEF IInv, TypeOK, LockShape, StageShape, RefreshShape,
     LeasedStaysOpen, Leased, Refreshing, Closing, CleaningUp, RefreshBegins, Take,
     CancelRefresh, lockVars, closeVars
<1>7. RetiredIsAccountedFor'
  BY GenerationsAssumption DEF IInv, TypeOK, LockShape, StageShape, RefreshShape,
     RetiredIsAccountedFor, Leased, Refreshing, Closing, CleaningUp, RefreshBegins,
     Take, CancelRefresh, lockVars, closeVars
<1>8. ClosedMeansClean'
  BY GenerationsAssumption DEF IInv, TypeOK, LockShape, StageShape, RefreshShape,
     ShutdownShape, ClosedMeansClean, Closing, CleaningUp, RefreshBegins, Take,
     CancelRefresh, lockVars, closeVars
<1> QED
  BY <1>1, <1>2, <1>3, <1>4, <1>5, <1>6, <1>7, <1>8 DEF IInv

(* And leases the current generation, which shutdown cannot have retired.  *)
LEMMA RefreshLeasesStep == ASSUME IInv, NEW u \in Users, RefreshLeases(u) PROVE IInv'
<1>1. TypeOK'
  BY GenerationsAssumption DEF IInv, TypeOK, Stages, Phases, Cleanup, Steps, Closer,
     Operations, Closing, CleaningUp, RefreshLeases, Free, lockVars, closeVars
<1>2. LockShape'
  BY GenerationsAssumption DEF IInv, TypeOK, LockShape, Operations, Closing,
     CleaningUp, RefreshLeases, Free, lockVars, closeVars
<1>3. StageShape'
  BY GenerationsAssumption DEF IInv, TypeOK, LockShape, StageShape, RefreshShape,
     Closing, CleaningUp, RefreshLeases, Free, lockVars, closeVars
<1>4. RefreshShape'
  BY GenerationsAssumption DEF IInv, TypeOK, LockShape, StageShape, RefreshShape,
     Closing, CleaningUp, RefreshLeases, Free, lockVars, closeVars
<1>5. ShutdownShape'
  BY GenerationsAssumption DEF IInv, TypeOK, LockShape, StageShape, RefreshShape,
     ShutdownShape, Closing, CleaningUp, RefreshLeases, Free, lockVars, closeVars
<1>6. LeasedStaysOpen'
  BY GenerationsAssumption DEF IInv, TypeOK, LockShape, StageShape, RefreshShape,
     LeasedStaysOpen, Leased, Refreshing, Closing, CleaningUp, RefreshLeases, Free,
     lockVars, closeVars
<1>7. RetiredIsAccountedFor'
  BY GenerationsAssumption DEF IInv, TypeOK, LockShape, StageShape, RefreshShape,
     RetiredIsAccountedFor, Leased, Refreshing, Closing, CleaningUp, RefreshLeases,
     Free, lockVars, closeVars
<1>8. ClosedMeansClean'
  BY GenerationsAssumption DEF IInv, TypeOK, LockShape, StageShape, RefreshShape,
     ShutdownShape, ClosedMeansClean, Closing, CleaningUp, RefreshLeases, Free,
     lockVars, closeVars
<1> QED
  BY <1>1, <1>2, <1>3, <1>4, <1>5, <1>6, <1>7, <1>8 DEF IInv

(* It may give up.                                                         *)
LEMMA RefreshCancelledStep == ASSUME IInv, NEW u \in Users, RefreshCancelled(u) PROVE IInv'
<1>1. TypeOK'
  BY GenerationsAssumption DEF IInv, TypeOK, Stages, Phases, Cleanup, Steps, Closer,
     Operations, Closing, CleaningUp, RefreshCancelled, Free, lockVars, closeVars
<1>2. LockShape'
  BY GenerationsAssumption DEF IInv, TypeOK, LockShape, Operations, Closing,
     CleaningUp, RefreshCancelled, Free, lockVars, closeVars
<1>3. StageShape'
  BY GenerationsAssumption DEF IInv, TypeOK, LockShape, StageShape, RefreshShape,
     Closing, CleaningUp, RefreshCancelled, Free, lockVars, closeVars
<1>4. RefreshShape'
  BY GenerationsAssumption DEF IInv, TypeOK, LockShape, StageShape, RefreshShape,
     Closing, CleaningUp, RefreshCancelled, Free, lockVars, closeVars
<1>5. ShutdownShape'
  BY GenerationsAssumption DEF IInv, TypeOK, LockShape, StageShape, RefreshShape,
     ShutdownShape, Closing, CleaningUp, RefreshCancelled, Free, lockVars, closeVars
<1>6. LeasedStaysOpen'
  BY GenerationsAssumption DEF IInv, TypeOK, LockShape, StageShape, RefreshShape,
     LeasedStaysOpen, Leased, Refreshing, Closing, CleaningUp, RefreshCancelled,
     Free, lockVars, closeVars
<1>7. RetiredIsAccountedFor'
  BY GenerationsAssumption DEF IInv, TypeOK, LockShape, StageShape, RefreshShape,
     RetiredIsAccountedFor, Leased, Refreshing, Closing, CleaningUp,
     RefreshCancelled, Free, lockVars, closeVars
<1>8. ClosedMeansClean'
  BY GenerationsAssumption DEF IInv, TypeOK, LockShape, StageShape, RefreshShape,
     ShutdownShape, ClosedMeansClean, Closing, CleaningUp, RefreshCancelled, Free,
     lockVars, closeVars
<1> QED
  BY <1>1, <1>2, <1>3, <1>4, <1>5, <1>6, <1>7, <1>8 DEF IInv

(* A replacement stops the background refresh first.                       *)
LEMMA ReplaceBeginsStep == ASSUME IInv, ReplaceBegins PROVE IInv'
<1>1. TypeOK'
  BY GenerationsAssumption DEF IInv, TypeOK, Stages, Phases, Cleanup, Steps, Closer,
     Operations, Closing, CleaningUp, ReplaceBegins, Take, CancelRefresh, lockVars,
     closeVars
<1>2. LockShape'
  BY GenerationsAssumption DEF IInv, TypeOK, LockShape, Operations, Closing,
     CleaningUp, ReplaceBegins, Take, CancelRefresh, lockVars, closeVars
<1>3. StageShape'
  BY GenerationsAssumption DEF IInv, TypeOK, LockShape, StageShape, RefreshShape,
     Closing, CleaningUp, ReplaceBegins, Take, CancelRefresh, lockVars, closeVars
<1>4. RefreshShape'
  BY GenerationsAssumption DEF IInv, TypeOK, LockShape, StageShape, RefreshShape,
     Closing, CleaningUp, ReplaceBegins, Take, CancelRefresh, lockVars, closeVars
<1>5. ShutdownShape'
  BY GenerationsAssumption DEF IInv, TypeOK, LockShape, StageShape, RefreshShape,
     ShutdownShape, Closing, CleaningUp, ReplaceBegins, Take, CancelRefresh,
     lockVars, closeVars
<1>6. LeasedStaysOpen'
  BY GenerationsAssumption DEF IInv, TypeOK, LockShape, StageShape, RefreshShape,
     LeasedStaysOpen, Leased, Refreshing, Closing, CleaningUp, ReplaceBegins, Take,
     CancelRefresh, lockVars, closeVars
<1>7. RetiredIsAccountedFor'
  BY GenerationsAssumption DEF IInv, TypeOK, LockShape, StageShape, RefreshShape,
     RetiredIsAccountedFor, Leased, Refreshing, Closing, CleaningUp, ReplaceBegins,
     Take, CancelRefresh, lockVars, closeVars
<1>8. ClosedMeansClean'
  BY GenerationsAssumption DEF IInv, TypeOK, LockShape, StageShape, RefreshShape,
     ShutdownShape, ClosedMeansClean, Closing, CleaningUp, ReplaceBegins, Take,
     CancelRefresh, lockVars, closeVars
<1> QED
  BY <1>1, <1>2, <1>3, <1>4, <1>5, <1>6, <1>7, <1>8 DEF IInv

(* The candidate is a fresh runtime.                                       *)
LEMMA ReplacePreparesStep == ASSUME IInv, ReplacePrepares PROVE IInv'
<1>1. TypeOK'
  BY PreparedStages, GenerationsAssumption
  DEF IInv, TypeOK, Steps, ReplacePrepares, Free, closeVars
<1>2. LockShape'
  BY PreparedStages, GenerationsAssumption
  DEF IInv, TypeOK, LockShape, Operations, ReplacePrepares, Free, Closing, closeVars
<1>3. StageShape'
  BY PreparedStages DEF IInv, TypeOK, StageShape, ReplacePrepares, Closing, closeVars
<1>4. RefreshShape'
  BY PreparedStages DEF IInv, TypeOK, RefreshShape, ReplacePrepares, CleaningUp
<1>5. ShutdownShape'
  BY GenerationsAssumption DEF IInv, LockShape, ShutdownShape, Closing, Operations, ReplacePrepares, closeVars
<1>6. LeasedStaysOpen'
  BY PreparedStages
  DEF IInv, TypeOK, LeasedStaysOpen, Leased, Refreshing, CleaningUp, Closing, ReplacePrepares,
      closeVars
<1>7. RetiredIsAccountedFor'
  BY PreparedStages
  DEF IInv, TypeOK, RetiredIsAccountedFor, Leased, Refreshing, CleaningUp, Closing, ReplacePrepares,
      closeVars
<1>8. ClosedMeansClean'
  BY GenerationsAssumption DEF IInv, TypeOK, LockShape, StageShape, RefreshShape,
     ShutdownShape, ClosedMeansClean, Closing, CleaningUp, ReplacePrepares, Free,
     Fresh, lockVars, closeVars
<1> QED
  BY <1>1, <1>2, <1>3, <1>4, <1>5, <1>6, <1>7, <1>8 DEF IInv

(* A candidate that fails to commit leaves the current generation alone.   *)
LEMMA CommitFailsStep == ASSUME IInv, CommitFails PROVE IInv'
<1>1. TypeOK'
  BY FailedStages DEF IInv, TypeOK, Steps, CommitFails, Free, closeVars
<1>2. LockShape'
  BY GenerationsAssumption DEF IInv, TypeOK, LockShape, Operations, Closing,
     CleaningUp, CommitFails, Free, lockVars, closeVars
<1>3. StageShape'
  BY GenerationsAssumption DEF IInv, TypeOK, LockShape, StageShape, RefreshShape,
     Closing, CleaningUp, CommitFails, Free, lockVars, closeVars
<1>4. RefreshShape'
  BY GenerationsAssumption DEF IInv, TypeOK, LockShape, StageShape, RefreshShape,
     Closing, CleaningUp, CommitFails, Free, lockVars, closeVars
<1>5. ShutdownShape'
  BY GenerationsAssumption DEF IInv, TypeOK, LockShape, StageShape, RefreshShape,
     ShutdownShape, Closing, CleaningUp, CommitFails, Free, lockVars, closeVars
<1>6. LeasedStaysOpen'
  BY GenerationsAssumption DEF IInv, TypeOK, LockShape, StageShape, RefreshShape,
     LeasedStaysOpen, Leased, Refreshing, Closing, CleaningUp, CommitFails, Free,
     lockVars, closeVars
<1>7. RetiredIsAccountedFor'
  BY GenerationsAssumption DEF IInv, TypeOK, LockShape, StageShape, RefreshShape,
     RetiredIsAccountedFor, Leased, Refreshing, Closing, CleaningUp, CommitFails,
     Free, lockVars, closeVars
<1>8. ClosedMeansClean'
  BY GenerationsAssumption DEF IInv, TypeOK, LockShape, StageShape, RefreshShape,
     ShutdownShape, ClosedMeansClean, Closing, CleaningUp, CommitFails, Free,
     lockVars, closeVars
<1> QED
  BY <1>1, <1>2, <1>3, <1>4, <1>5, <1>6, <1>7, <1>8 DEF IInv

(* The previous generation is leased or cleaned up as it is retired.       *)
LEMMA PublishStep == ASSUME IInv, Publish PROVE IInv'
<1>1. TypeOK'
  BY PublishedStages DEF IInv, TypeOK, Publish, closeVars
<1>2. LockShape'
  BY GenerationsAssumption DEF IInv, TypeOK, LockShape, Operations, Closing,
     CleaningUp, Publish, Free, WithCleanup, lockVars, closeVars
<1>3. StageShape'
  BY GenerationsAssumption DEF IInv, TypeOK, LockShape, StageShape, RefreshShape,
     Closing, CleaningUp, Publish, Free, WithCleanup, lockVars, closeVars
<1>4. RefreshShape'
  <2>1. refreshTask = NONE /\ ~Closing /\ stage[current] = "current"
    BY GenerationsAssumption DEF IInv, LockShape, StageShape, Operations, Publish
  <2>2. ASSUME NEW g \in Runtimes, refresh'[g] \in {"created", "running"}
        PROVE  refreshTask' = g /\ g = current'
    BY <2>1, <2>2, PublishedStages, GenerationsAssumption DEF IInv, TypeOK, RefreshShape, Publish
  <2>3. ASSUME NEW g \in Runtimes, cleanup'[g] \in {"running", "forced"} PROVE stage'[g] = "retired"
    <3>1. g = current \/ (cleanup[g] \in {"running", "forced"} /\ stage[g] = "retired")
      BY <2>3 DEF IInv, TypeOK, RefreshShape, CleaningUp, Publish, WithCleanup
    <3>2. stage[candidate] = "candidate"
      BY PublishedStages DEF IInv, StageShape
    <3> QED
      BY <3>1, <3>2, PublishedStages DEF IInv, TypeOK, Publish
  <2> QED
    BY <2>2, <2>3 DEF RefreshShape, CleaningUp
<1>5. ShutdownShape'
  BY GenerationsAssumption DEF IInv, TypeOK, LockShape, StageShape, RefreshShape,
     ShutdownShape, Closing, CleaningUp, Publish, Free, WithCleanup, lockVars,
     closeVars
<1>6. LeasedStaysOpen'
  BY GenerationsAssumption DEF IInv, TypeOK, LockShape, StageShape, RefreshShape,
     LeasedStaysOpen, Leased, Refreshing, Closing, CleaningUp, Publish, Free,
     WithCleanup, lockVars, closeVars
<1>7. RetiredIsAccountedFor'
  BY GenerationsAssumption DEF IInv, TypeOK, LockShape, StageShape, RefreshShape,
     RetiredIsAccountedFor, Leased, Refreshing, Closing, CleaningUp, Publish, Free,
     WithCleanup, lockVars, closeVars
<1>8. ClosedMeansClean'
  BY GenerationsAssumption DEF IInv, TypeOK, LockShape, StageShape, RefreshShape,
     ShutdownShape, ClosedMeansClean, Closing, CleaningUp, Publish, Free,
     WithCleanup, lockVars, closeVars
<1> QED
  BY <1>1, <1>2, <1>3, <1>4, <1>5, <1>6, <1>7, <1>8 DEF IInv

(* The lock is freed after the cleanup.                                    *)
LEMMA ReplaceEndsStep == ASSUME IInv, ReplaceEnds PROVE IInv'
<1>1. TypeOK'
  BY GenerationsAssumption DEF IInv, TypeOK, Stages, Phases, Cleanup, Steps, Closer,
     Operations, Closing, CleaningUp, ReplaceEnds, Free, lockVars, closeVars
<1>2. LockShape'
  BY GenerationsAssumption DEF IInv, TypeOK, LockShape, Operations, Closing,
     CleaningUp, ReplaceEnds, Free, lockVars, closeVars
<1>3. StageShape'
  BY GenerationsAssumption DEF IInv, TypeOK, LockShape, StageShape, RefreshShape,
     Closing, CleaningUp, ReplaceEnds, Free, lockVars, closeVars
<1>4. RefreshShape'
  BY GenerationsAssumption DEF IInv, TypeOK, LockShape, StageShape, RefreshShape,
     Closing, CleaningUp, ReplaceEnds, Free, lockVars, closeVars
<1>5. ShutdownShape'
  BY GenerationsAssumption DEF IInv, TypeOK, LockShape, StageShape, RefreshShape,
     ShutdownShape, Closing, CleaningUp, ReplaceEnds, Free, lockVars, closeVars
<1>6. LeasedStaysOpen'
  BY GenerationsAssumption DEF IInv, TypeOK, LockShape, StageShape, RefreshShape,
     LeasedStaysOpen, Leased, Refreshing, Closing, CleaningUp, ReplaceEnds, Free,
     lockVars, closeVars
<1>7. RetiredIsAccountedFor'
  BY GenerationsAssumption DEF IInv, TypeOK, LockShape, StageShape, RefreshShape,
     RetiredIsAccountedFor, Leased, Refreshing, Closing, CleaningUp, ReplaceEnds,
     Free, lockVars, closeVars
<1>8. ClosedMeansClean'
  BY GenerationsAssumption DEF IInv, TypeOK, LockShape, StageShape, RefreshShape,
     ShutdownShape, ClosedMeansClean, Closing, CleaningUp, ReplaceEnds, Free,
     lockVars, closeVars
<1> QED
  BY <1>1, <1>2, <1>3, <1>4, <1>5, <1>6, <1>7, <1>8 DEF IInv

(* A cancelled replacement abandons its candidate.                         *)
LEMMA ReplaceCancelledStep == ASSUME IInv, ReplaceCancelled PROVE IInv'
<1>1. TypeOK'
  BY GenerationsAssumption DEF IInv, TypeOK, Stages, Phases, Cleanup, Steps, Closer,
     Operations, Closing, CleaningUp, ReplaceCancelled, Free, lockVars, closeVars
<1>2. LockShape'
  BY GenerationsAssumption DEF IInv, TypeOK, LockShape, Operations, Closing,
     CleaningUp, ReplaceCancelled, Free, lockVars, closeVars
<1>3. StageShape'
  BY GenerationsAssumption DEF IInv, TypeOK, LockShape, StageShape, RefreshShape,
     Closing, CleaningUp, ReplaceCancelled, Free, lockVars, closeVars
<1>4. RefreshShape'
  BY GenerationsAssumption DEF IInv, TypeOK, LockShape, StageShape, RefreshShape,
     Closing, CleaningUp, ReplaceCancelled, Free, lockVars, closeVars
<1>5. ShutdownShape'
  BY GenerationsAssumption DEF IInv, TypeOK, LockShape, StageShape, RefreshShape,
     ShutdownShape, Closing, CleaningUp, ReplaceCancelled, Free, lockVars, closeVars
<1>6. LeasedStaysOpen'
  BY GenerationsAssumption DEF IInv, TypeOK, LockShape, StageShape, RefreshShape,
     LeasedStaysOpen, Leased, Refreshing, Closing, CleaningUp, ReplaceCancelled,
     Free, lockVars, closeVars
<1>7. RetiredIsAccountedFor'
  BY GenerationsAssumption DEF IInv, TypeOK, LockShape, StageShape, RefreshShape,
     RetiredIsAccountedFor, Leased, Refreshing, Closing, CleaningUp,
     ReplaceCancelled, Free, lockVars, closeVars
<1>8. ClosedMeansClean'
  BY GenerationsAssumption DEF IInv, TypeOK, LockShape, StageShape, RefreshShape,
     ShutdownShape, ClosedMeansClean, Closing, CleaningUp, ReplaceCancelled, Free,
     lockVars, closeVars
<1> QED
  BY <1>1, <1>2, <1>3, <1>4, <1>5, <1>6, <1>7, <1>8 DEF IInv

(* Shutdown begins when nobody holds the lock.                             *)
LEMMA CloseBeginsStep == ASSUME IInv, CloseBegins PROVE IInv'
<1>1. TypeOK'
  BY GenerationsAssumption DEF IInv, TypeOK, Stages, Phases, Cleanup, Steps, Closer,
     Operations, Closing, CleaningUp, CloseBegins, Take, CancelRefresh, lockVars,
     closeVars
<1>2. LockShape'
  BY GenerationsAssumption DEF IInv, TypeOK, LockShape, Operations, Closing,
     CleaningUp, CloseBegins, Take, CancelRefresh, lockVars, closeVars
<1>3. StageShape'
  BY GenerationsAssumption DEF IInv, TypeOK, LockShape, StageShape, RefreshShape,
     Closing, CleaningUp, CloseBegins, Take, CancelRefresh, lockVars, closeVars
<1>4. RefreshShape'
  BY GenerationsAssumption DEF IInv, TypeOK, LockShape, StageShape, RefreshShape,
     Closing, CleaningUp, CloseBegins, Take, CancelRefresh, lockVars, closeVars
<1>5. ShutdownShape'
  BY GenerationsAssumption DEF IInv, TypeOK, LockShape, StageShape, RefreshShape,
     ShutdownShape, Closing, CleaningUp, CloseBegins, Take, CancelRefresh, lockVars,
     closeVars
<1>6. LeasedStaysOpen'
  BY GenerationsAssumption DEF IInv, TypeOK, LockShape, StageShape, RefreshShape,
     LeasedStaysOpen, Leased, Refreshing, Closing, CleaningUp, CloseBegins, Take,
     CancelRefresh, lockVars, closeVars
<1>7. RetiredIsAccountedFor'
  BY GenerationsAssumption DEF IInv, TypeOK, LockShape, StageShape, RefreshShape,
     RetiredIsAccountedFor, Leased, Refreshing, Closing, CleaningUp, CloseBegins,
     Take, CancelRefresh, lockVars, closeVars
<1>8. ClosedMeansClean'
  BY GenerationsAssumption DEF IInv, TypeOK, LockShape, StageShape, RefreshShape,
     ShutdownShape, ClosedMeansClean, Closing, CleaningUp, CloseBegins, Take,
     CancelRefresh, lockVars, closeVars
<1> QED
  BY <1>1, <1>2, <1>3, <1>4, <1>5, <1>6, <1>7, <1>8 DEF IInv

(* It retires the current generation and collects every retired one.       *)
LEMMA CloseRetiresStep == ASSUME IInv, CloseRetires PROVE IInv'
<1>1. TypeOK'
  BY GenerationsAssumption DEF IInv, TypeOK, Stages, Phases, Cleanup, Steps, Closer,
     Operations, Closing, CleaningUp, CloseRetires, Free, lockVars, closeVars
<1>2. LockShape'
  BY GenerationsAssumption DEF IInv, TypeOK, LockShape, Operations, Closing,
     CleaningUp, CloseRetires, Free, lockVars, closeVars
<1>3. StageShape'
  BY GenerationsAssumption DEF IInv, TypeOK, LockShape, StageShape, RefreshShape,
     Closing, CleaningUp, CloseRetires, Free, lockVars, closeVars
<1>4. RefreshShape'
  BY GenerationsAssumption DEF IInv, TypeOK, LockShape, StageShape, RefreshShape,
     Closing, CleaningUp, CloseRetires, Free, lockVars, closeVars
<1>5. ShutdownShape'
  BY GenerationsAssumption DEF IInv, TypeOK, LockShape, StageShape, RefreshShape,
     ShutdownShape, Closing, CleaningUp, CloseRetires, Free, lockVars, closeVars
<1>6. LeasedStaysOpen'
  BY GenerationsAssumption DEF IInv, TypeOK, LockShape, StageShape, RefreshShape,
     LeasedStaysOpen, Leased, Refreshing, Closing, CleaningUp, CloseRetires, Free,
     lockVars, closeVars
<1>7. RetiredIsAccountedFor'
  BY GenerationsAssumption DEF IInv, TypeOK, LockShape, StageShape, RefreshShape,
     RetiredIsAccountedFor, Leased, Refreshing, Closing, CleaningUp, CloseRetires,
     Free, lockVars, closeVars
<1>8. ClosedMeansClean'
  BY GenerationsAssumption DEF IInv, TypeOK, LockShape, StageShape, RefreshShape,
     ShutdownShape, ClosedMeansClean, Closing, CleaningUp, CloseRetires, Free,
     lockVars, closeVars
<1> QED
  BY <1>1, <1>2, <1>3, <1>4, <1>5, <1>6, <1>7, <1>8 DEF IInv

(* Every collected generation that is still retired gets a cleanup.        *)
LEMMA CloseGenerationsStep == ASSUME IInv, NEW forced \in BOOLEAN, CloseGenerations(forced) PROVE IInv'
<1>1. TypeOK'
  BY GenerationsAssumption DEF IInv, TypeOK, Stages, Phases, Cleanup, Steps, Closer,
     Operations, Closing, CleaningUp, CloseGenerations, lockVars, closeVars
<1>2. LockShape'
  BY GenerationsAssumption DEF IInv, TypeOK, LockShape, Operations, Closing,
     CleaningUp, CloseGenerations, lockVars, closeVars
<1>3. StageShape'
  BY GenerationsAssumption DEF IInv, TypeOK, LockShape, StageShape, RefreshShape,
     Closing, CleaningUp, CloseGenerations, lockVars, closeVars
<1>4. RefreshShape'
  BY GenerationsAssumption DEF IInv, TypeOK, LockShape, StageShape, RefreshShape,
     Closing, CleaningUp, CloseGenerations, lockVars, closeVars
<1>5. ShutdownShape'
  BY GenerationsAssumption DEF IInv, TypeOK, LockShape, StageShape, RefreshShape,
     ShutdownShape, Closing, CleaningUp, CloseGenerations, lockVars, closeVars
<1>6. LeasedStaysOpen'
  BY GenerationsAssumption DEF IInv, TypeOK, LockShape, StageShape, RefreshShape,
     LeasedStaysOpen, Leased, Refreshing, Closing, CleaningUp, CloseGenerations,
     lockVars, closeVars
<1>7. RetiredIsAccountedFor'
  BY GenerationsAssumption DEF IInv, TypeOK, LockShape, StageShape, RefreshShape,
     RetiredIsAccountedFor, Leased, Refreshing, Closing, CleaningUp,
     CloseGenerations, lockVars, closeVars
<1>8. ClosedMeansClean'
  BY GenerationsAssumption DEF IInv, TypeOK, LockShape, StageShape, RefreshShape,
     ShutdownShape, ClosedMeansClean, Closing, CleaningUp, CloseGenerations,
     lockVars, closeVars
<1> QED
  BY <1>1, <1>2, <1>3, <1>4, <1>5, <1>6, <1>7, <1>8 DEF IInv

(* A shutdown without failure has closed every generation.                 *)
LEMMA CloseEndsStep == ASSUME IInv, CloseEnds PROVE IInv'
<1>1. TypeOK'
  BY GenerationsAssumption DEF IInv, TypeOK, Stages, Phases, Cleanup, Steps, Closer,
     Operations, Closing, CleaningUp, CloseEnds, lockVars, closeVars
<1>2. LockShape'
  BY GenerationsAssumption DEF IInv, TypeOK, LockShape, Operations, Closing,
     CleaningUp, CloseEnds, lockVars, closeVars
<1>3. StageShape'
  BY GenerationsAssumption DEF IInv, TypeOK, LockShape, StageShape, RefreshShape,
     Closing, CleaningUp, CloseEnds, lockVars, closeVars
<1>4. RefreshShape'
  BY GenerationsAssumption DEF IInv, TypeOK, LockShape, StageShape, RefreshShape,
     Closing, CleaningUp, CloseEnds, lockVars, closeVars
<1>5. ShutdownShape'
  BY GenerationsAssumption DEF IInv, TypeOK, LockShape, StageShape, RefreshShape,
     ShutdownShape, Closing, CleaningUp, CloseEnds, lockVars, closeVars
<1>6. LeasedStaysOpen'
  BY GenerationsAssumption DEF IInv, TypeOK, LockShape, StageShape, RefreshShape,
     LeasedStaysOpen, Leased, Refreshing, Closing, CleaningUp, CloseEnds, lockVars,
     closeVars
<1>7. RetiredIsAccountedFor'
  BY GenerationsAssumption DEF IInv, TypeOK, LockShape, StageShape, RefreshShape,
     RetiredIsAccountedFor, Leased, Refreshing, Closing, CleaningUp, CloseEnds,
     lockVars, closeVars
<1>8. ClosedMeansClean'
  <2>1. PICK cleaned \in SUBSET {g \in Runtimes : stage[g] = "unpublished"} :
          /\ stage' = [g \in Runtimes |-> IF g \in cleaned THEN "dropped" ELSE stage[g]]
          /\ closer' = IF clean /\ \A g \in Runtimes : stage'[g] # "unpublished"
                       THEN "closed" ELSE "incomplete"
    BY DEF CloseEnds
  <2>2. SUFFICES ASSUME closer' = "closed", NEW g \in Runtimes
                 PROVE  /\ stage'[g] \in {"unused", "dropped", "abandoned", "closed"}
                        /\ cleanup'[g] \notin {"running", "forced"}
    BY DEF ClosedMeansClean, CleaningUp
  <2>3. clean /\ stage'[g] # "unpublished"
    BY <2>1, <2>2
  <2>4. stage[g] # "retired" /\ ~CleaningUp(g)
    BY <2>3 DEF IInv, RefreshShape, ShutdownShape, CloseEnds
  <2>5. stage[g] # "current" /\ stage[g] # "candidate"
    BY GenerationsAssumption DEF IInv, TypeOK, LockShape, StageShape, Closing, Operations, CloseEnds
  <2>6. stage[g] \in Stages /\ stage'[g] \in {stage[g], "dropped"}
    BY <2>1 DEF IInv, TypeOK
  <2> QED
    BY <2>3, <2>4, <2>5, <2>6 DEF CleaningUp, CloseEnds, Stages
<1> QED
  BY <1>1, <1>2, <1>3, <1>4, <1>5, <1>6, <1>7, <1>8 DEF IInv

(* A cancelled shutdown is incomplete.                                     *)
LEMMA CloseCancelledStep == ASSUME IInv, CloseCancelled PROVE IInv'
<1>1. TypeOK'
  BY GenerationsAssumption DEF IInv, TypeOK, Stages, Phases, Cleanup, Steps, Closer,
     Operations, Closing, CleaningUp, CloseCancelled, Free, lockVars, closeVars
<1>2. LockShape'
  BY GenerationsAssumption DEF IInv, TypeOK, LockShape, Operations, Closing,
     CleaningUp, CloseCancelled, Free, lockVars, closeVars
<1>3. StageShape'
  BY GenerationsAssumption DEF IInv, TypeOK, LockShape, StageShape, RefreshShape,
     Closing, CleaningUp, CloseCancelled, Free, lockVars, closeVars
<1>4. RefreshShape'
  BY GenerationsAssumption DEF IInv, TypeOK, LockShape, StageShape, RefreshShape,
     Closing, CleaningUp, CloseCancelled, Free, lockVars, closeVars
<1>5. ShutdownShape'
  BY GenerationsAssumption DEF IInv, TypeOK, LockShape, StageShape, RefreshShape,
     ShutdownShape, Closing, CleaningUp, CloseCancelled, Free, lockVars, closeVars
<1>6. LeasedStaysOpen'
  BY GenerationsAssumption DEF IInv, TypeOK, LockShape, StageShape, RefreshShape,
     LeasedStaysOpen, Leased, Refreshing, Closing, CleaningUp, CloseCancelled, Free,
     lockVars, closeVars
<1>7. RetiredIsAccountedFor'
  BY GenerationsAssumption DEF IInv, TypeOK, LockShape, StageShape, RefreshShape,
     RetiredIsAccountedFor, Leased, Refreshing, Closing, CleaningUp, CloseCancelled,
     Free, lockVars, closeVars
<1>8. ClosedMeansClean'
  BY GenerationsAssumption DEF IInv, TypeOK, LockShape, StageShape, RefreshShape,
     ShutdownShape, ClosedMeansClean, Closing, CleaningUp, CloseCancelled, Free,
     lockVars, closeVars
<1> QED
  BY <1>1, <1>2, <1>3, <1>4, <1>5, <1>6, <1>7, <1>8 DEF IInv

(* Only the refresh of the current generation starts.                      *)
LEMMA BackgroundStartsStep == ASSUME IInv, NEW g \in Runtimes, BackgroundStarts(g) PROVE IInv'
<1>1. TypeOK'
  BY GenerationsAssumption DEF IInv, TypeOK, Stages, Phases, Cleanup, Steps, Closer,
     Operations, Closing, CleaningUp, BackgroundStarts, lockVars, closeVars
<1>2. LockShape'
  BY GenerationsAssumption DEF IInv, TypeOK, LockShape, Operations, Closing,
     CleaningUp, BackgroundStarts, lockVars, closeVars
<1>3. StageShape'
  BY GenerationsAssumption DEF IInv, TypeOK, LockShape, StageShape, RefreshShape,
     Closing, CleaningUp, BackgroundStarts, lockVars, closeVars
<1>4. RefreshShape'
  BY GenerationsAssumption DEF IInv, TypeOK, LockShape, StageShape, RefreshShape,
     Closing, CleaningUp, BackgroundStarts, lockVars, closeVars
<1>5. ShutdownShape'
  BY GenerationsAssumption DEF IInv, TypeOK, LockShape, StageShape, RefreshShape,
     ShutdownShape, Closing, CleaningUp, BackgroundStarts, lockVars, closeVars
<1>6. LeasedStaysOpen'
  BY GenerationsAssumption DEF IInv, TypeOK, LockShape, StageShape, RefreshShape,
     LeasedStaysOpen, Leased, Refreshing, Closing, CleaningUp, BackgroundStarts,
     lockVars, closeVars
<1>7. RetiredIsAccountedFor'
  BY GenerationsAssumption DEF IInv, TypeOK, LockShape, StageShape, RefreshShape,
     RetiredIsAccountedFor, Leased, Refreshing, Closing, CleaningUp,
     BackgroundStarts, lockVars, closeVars
<1>8. ClosedMeansClean'
  BY GenerationsAssumption DEF IInv, TypeOK, LockShape, StageShape, RefreshShape,
     ShutdownShape, ClosedMeansClean, Closing, CleaningUp, BackgroundStarts,
     lockVars, closeVars
<1> QED
  BY <1>1, <1>2, <1>3, <1>4, <1>5, <1>6, <1>7, <1>8 DEF IInv

(* Its end is a release like any other.                                    *)
LEMMA BackgroundEndsStep == ASSUME IInv, NEW g \in Runtimes, BackgroundEnds(g) PROVE IInv'
<1>1. TypeOK'
  BY GenerationsAssumption DEF IInv, TypeOK, Stages, Phases, Cleanup, Steps, Closer,
     Operations, Closing, CleaningUp, BackgroundEnds, LastRelease, WithCleanup,
     lockVars, closeVars
<1>2. LockShape'
  BY GenerationsAssumption DEF IInv, TypeOK, LockShape, Operations, Closing,
     CleaningUp, BackgroundEnds, LastRelease, WithCleanup, lockVars, closeVars
<1>3. StageShape'
  BY GenerationsAssumption DEF IInv, TypeOK, LockShape, StageShape, RefreshShape,
     Closing, CleaningUp, BackgroundEnds, LastRelease, WithCleanup, lockVars,
     closeVars
<1>4. RefreshShape'
  BY GenerationsAssumption DEF IInv, TypeOK, LockShape, StageShape, RefreshShape,
     Closing, CleaningUp, BackgroundEnds, LastRelease, WithCleanup, lockVars,
     closeVars
<1>5. ShutdownShape'
  BY GenerationsAssumption DEF IInv, TypeOK, LockShape, StageShape, RefreshShape,
     ShutdownShape, Closing, CleaningUp, BackgroundEnds, LastRelease, WithCleanup,
     lockVars, closeVars
<1>6. LeasedStaysOpen'
  BY GenerationsAssumption DEF IInv, TypeOK, LockShape, StageShape, RefreshShape,
     LeasedStaysOpen, Leased, Refreshing, Closing, CleaningUp, BackgroundEnds,
     LastRelease, WithCleanup, lockVars, closeVars
<1>7. RetiredIsAccountedFor'
  BY GenerationsAssumption DEF IInv, TypeOK, LockShape, StageShape, RefreshShape,
     RetiredIsAccountedFor, Leased, Refreshing, Closing, CleaningUp, BackgroundEnds,
     LastRelease, WithCleanup, lockVars, closeVars
<1>8. ClosedMeansClean'
  BY GenerationsAssumption DEF IInv, TypeOK, LockShape, StageShape, RefreshShape,
     ShutdownShape, ClosedMeansClean, Closing, CleaningUp, BackgroundEnds,
     LastRelease, WithCleanup, lockVars, closeVars
<1> QED
  BY <1>1, <1>2, <1>3, <1>4, <1>5, <1>6, <1>7, <1>8 DEF IInv

(* A cleanup closes its generation or marks its failure.                   *)
LEMMA CleanupEndsStep == ASSUME IInv, NEW g \in Runtimes, NEW ok \in BOOLEAN, CleanupEnds(g, ok) PROVE IInv'
<1>1. TypeOK'
  BY GenerationsAssumption DEF IInv, TypeOK, Stages, Phases, Cleanup, Steps, Closer,
     Operations, Closing, CleaningUp, CleanupEnds, lockVars, closeVars
<1>2. LockShape'
  BY GenerationsAssumption DEF IInv, TypeOK, LockShape, Operations, Closing,
     CleaningUp, CleanupEnds, lockVars, closeVars
<1>3. StageShape'
  BY GenerationsAssumption DEF IInv, TypeOK, LockShape, StageShape, RefreshShape,
     Closing, CleaningUp, CleanupEnds, lockVars, closeVars
<1>4. RefreshShape'
  BY GenerationsAssumption DEF IInv, TypeOK, LockShape, StageShape, RefreshShape,
     Closing, CleaningUp, CleanupEnds, lockVars, closeVars
<1>5. ShutdownShape'
  BY GenerationsAssumption DEF IInv, TypeOK, LockShape, StageShape, RefreshShape,
     ShutdownShape, Closing, CleaningUp, CleanupEnds, lockVars, closeVars
<1>6. LeasedStaysOpen'
  BY GenerationsAssumption DEF IInv, TypeOK, LockShape, StageShape, RefreshShape,
     LeasedStaysOpen, Leased, Refreshing, Closing, CleaningUp, CleanupEnds,
     lockVars, closeVars
<1>7. RetiredIsAccountedFor'
  BY GenerationsAssumption DEF IInv, TypeOK, LockShape, StageShape, RefreshShape,
     RetiredIsAccountedFor, Leased, Refreshing, Closing, CleaningUp, CleanupEnds,
     lockVars, closeVars
<1>8. ClosedMeansClean'
  BY GenerationsAssumption DEF IInv, TypeOK, LockShape, StageShape, RefreshShape,
     ShutdownShape, ClosedMeansClean, Closing, CleaningUp, CleanupEnds, lockVars,
     closeVars
<1> QED
  BY <1>1, <1>2, <1>3, <1>4, <1>5, <1>6, <1>7, <1>8 DEF IInv

-----------------------------------------------------------------------------
(* The theorems.                                                           *)

(* The server starts with its first generation.                            *)
LEMMA InvInit == ASSUME Init PROVE IInv
<1>1. TypeOK
  BY GenerationsAssumption DEF Init, TypeOK, Stages, Phases, Cleanup, Steps, Closer, Operations
<1>2. LockShape
  BY GenerationsAssumption DEF Init, LockShape, Closing, Operations
<1>3. StageShape
  BY GenerationsAssumption DEF Init, StageShape, Closing
<1>4. RefreshShape /\ ShutdownShape
  BY GenerationsAssumption DEF Init, RefreshShape, ShutdownShape, CleaningUp
<1>5. LeasedStaysOpen /\ RetiredIsAccountedFor /\ ClosedMeansClean
  BY GenerationsAssumption
  DEF Init, LeasedStaysOpen, RetiredIsAccountedFor, ClosedMeansClean, Leased, Refreshing, CleaningUp
<1> QED
  BY <1>1, <1>2, <1>3, <1>4, <1>5 DEF IInv

(* Every step of requests, replacement, shutdown and background tasks.     *)
LEMMA InvNext == ASSUME IInv, [Next]_vars PROVE IInv'
<1>1. CASE Lease
  BY <1>1, AcquireStep, ReleaseStep, RefreshBeginsStep, RefreshLeasesStep, RefreshCancelledStep
  DEF Lease
<1>2. CASE Replace
  BY <1>2, ReplaceBeginsStep, ReplacePreparesStep, CommitFailsStep, PublishStep, ReplaceEndsStep,
     ReplaceCancelledStep DEF Replace
<1>3. CASE Close
  BY <1>3, CloseBeginsStep, CloseRetiresStep, CloseEndsStep, CloseCancelledStep,
     CloseGenerationsStep DEF Close
<1>4. ASSUME NEW g \in Runtimes, Background(g) PROVE IInv'
  BY <1>4, BackgroundStartsStep, BackgroundEndsStep, CleanupEndsStep DEF Background
<1>5. CASE UNCHANGED vars
  BY <1>5 DEF vars, IInv, TypeOK, LockShape, StageShape, RefreshShape, ShutdownShape,
              LeasedStaysOpen, RetiredIsAccountedFor, ClosedMeansClean, Closing, CleaningUp,
              Leased, Refreshing
<1> QED
  BY <1>1, <1>2, <1>3, <1>4, <1>5 DEF Next

(* The invariant holds in every reachable state.                           *)
LEMMA InvCorrect == Spec => []IInv
  BY InvInit, InvNext, PTL DEF Spec

(* Every variable keeps its type.                                          *)
THEOREM TypeCorrect == Spec => []TypeOK
<1>1. IInv => TypeOK
  BY DEF IInv
<1> QED
  BY <1>1, InvCorrect, PTL

(* A provider is never taken away under a request: a leased generation is  *)
(* neither closed nor being closed while the server is not shutting down.  *)
THEOREM LeasedCorrect == Spec => []LeasedStaysOpen
<1>1. IInv => LeasedStaysOpen
  BY DEF IInv
<1> QED
  BY <1>1, InvCorrect, PTL

(* No retired generation is forgotten before the shutdown.                 *)
THEOREM RetiredCorrect == Spec => []RetiredIsAccountedFor
<1>1. IInv => RetiredIsAccountedFor
  BY DEF IInv
<1> QED
  BY <1>1, InvCorrect, PTL

(* The manager is closed only when every runtime it owned is, whatever     *)
(* failed or was cancelled on the way.                                     *)
THEOREM ClosedCorrect == Spec => []ClosedMeansClean
<1>1. IInv => ClosedMeansClean
  BY DEF IInv
<1> QED
  BY <1>1, InvCorrect, PTL

-----------------------------------------------------------------------------
(* Refinement: each generation is a leased resource.                       *)

(* What a step may do to one generation.                                   *)
Follows(g) == UNCHANGED Resource(g)!vars \/ Resource(g)!Next

(* A generation whose holders, stage and cleanup stay as they are.         *)
LEMMA Stutters ==
  ASSUME NEW h \in Runtimes, Leased(h)' = Leased(h), stage'[h] = stage[h], cleanup'[h] = cleanup[h]
  PROVE  Follows(h)
  BY DEF Follows, Resource!vars

(* A generation that loses its last holder.                                *)
LEMMA Leaves ==
  ASSUME TypeOK, NEW h \in Runtimes, Leased(h), ~Leased(h)', stage'[h] = stage[h],
         cleanup'[h] # cleanup[h] => stage[h] = "retired" /\ ~CleaningUp(h) /\ cleanup'[h] = "running"
  PROVE  Follows(h)
  BY DEF TypeOK, Cleanup, Follows, Resource!Next, Resource!Leave, Resource!Idle, CleaningUp

(* A step from which nothing but the stages of unowned runtimes changes.   *)
LEMMA KeptStage ==
  ASSUME NEW h \in Runtimes, Leased(h)' = Leased(h), cleanup'[h] = cleanup[h],
         stage[h] \in {"current", "retired", "closed"} \/ stage'[h] \in {"current", "retired", "closed"} =>
           stage'[h] = stage[h]
  PROVE  Follows(h)
  BY DEF Follows, Resource!vars

(* A request takes a lease of the open generation.                         *)
LEMMA AcquireFollows ==
  ASSUME IInv, NEW u \in Users, Acquire(u), NEW h \in Runtimes PROVE Follows(h)
  BY GenerationsAssumption DEF IInv, TypeOK, LockShape, StageShape, RefreshShape,
     Follows, Resource!vars, Resource!Next, Resource!Idle, Resource!Open,
     Resource!Lease, Resource!Leave, Resource!Retire, Resource!StartCleanup,
     Resource!CleanupEnds, Operations, Closing, CleaningUp, Leased, Refreshing,
     Acquire, lockVars, closeVars

(* It leaves, and the last one may start the cleanup.                      *)
LEMMA ReleaseFollows ==
  ASSUME IInv, NEW u \in Users, Release(u), NEW h \in Runtimes PROVE Follows(h)
<1>1. lease[u] # NONE /\ lease' = [lease EXCEPT ![u] = NONE] /\ lease[u] \in Runtimes
  BY DEF IInv, TypeOK, Release
<1>2. stage' = stage /\ refresh' = refresh
  BY DEF Release
<1>3. CASE Leased(h)' = Leased(h)
  <2>1. lease[u] # h \/ ~(~Refreshing(h) /\ \A v \in Users \ {u} : lease[v] # h)
    BY <1>1, <1>2, <1>3, GenerationsAssumption DEF IInv, TypeOK, Leased, Refreshing
  <2>2. cleanup'[h] = cleanup[h]
    BY <1>1, <2>1 DEF IInv, TypeOK, Release, LastRelease, WithCleanup
  <2> QED
    BY <1>2, <1>3, <2>2, Stutters
<1>4. CASE Leased(h)' # Leased(h)
  <2>1. Leased(h) /\ ~Leased(h)'
    BY <1>1, <1>2, <1>4, GenerationsAssumption DEF IInv, TypeOK, Leased, Refreshing
  <2>2. cleanup'[h] # cleanup[h] => stage[h] = "retired" /\ ~CleaningUp(h) /\ cleanup'[h] = "running"
    BY DEF IInv, TypeOK, Release, LastRelease, WithCleanup
  <2> QED
    BY <1>2, <2>1, <2>2, Leaves DEF IInv
<1> QED
  BY <1>3, <1>4

(* A cancelled background refresh still holds its lease.                   *)
LEMMA RefreshBeginsFollows ==
  ASSUME IInv, NEW u \in Users, RefreshBegins(u), NEW h \in Runtimes PROVE Follows(h)
<1>1. Leased(h)' = Leased(h) /\ stage'[h] = stage[h] /\ cleanup'[h] = cleanup[h]
  BY DEF IInv, TypeOK, RefreshBegins, CancelRefresh, Leased, Refreshing
<1> QED
  BY <1>1, Stutters

(* An explicit refresh takes a lease of the open generation.               *)
LEMMA RefreshLeasesFollows ==
  ASSUME IInv, NEW u \in Users, RefreshLeases(u), NEW h \in Runtimes PROVE Follows(h)
  BY GenerationsAssumption DEF IInv, TypeOK, LockShape, StageShape, RefreshShape,
     Follows, Resource!vars, Resource!Next, Resource!Idle, Resource!Open,
     Resource!Lease, Resource!Leave, Resource!Retire, Resource!StartCleanup,
     Resource!CleanupEnds, Operations, Closing, CleaningUp, Leased, Refreshing,
     RefreshLeases, Free, lockVars, closeVars

(* Nothing happens to any generation.                                      *)
LEMMA RefreshCancelledFollows ==
  ASSUME IInv, NEW u \in Users, RefreshCancelled(u), NEW h \in Runtimes PROVE Follows(h)
<1>1. Leased(h)' = Leased(h) /\ stage'[h] = stage[h] /\ cleanup'[h] = cleanup[h]
  BY DEF IInv, TypeOK, RefreshCancelled, Leased, Refreshing
<1> QED
  BY <1>1, Stutters

(* Here neither.                                                           *)
LEMMA ReplaceBeginsFollows ==
  ASSUME IInv, ReplaceBegins, NEW h \in Runtimes PROVE Follows(h)
<1>1. Leased(h)' = Leased(h) /\ stage'[h] = stage[h] /\ cleanup'[h] = cleanup[h]
  BY DEF IInv, TypeOK, ReplaceBegins, CancelRefresh, Leased, Refreshing
<1> QED
  BY <1>1, Stutters

(* The candidate is not in use yet.                                        *)
LEMMA ReplacePreparesFollows ==
  ASSUME IInv, ReplacePrepares, NEW h \in Runtimes PROVE Follows(h)
<1>1. Leased(h)' = Leased(h) /\ cleanup'[h] = cleanup[h]
  BY DEF ReplacePrepares, Leased, Refreshing
<1> QED
  BY <1>1, PreparedStages, KeptStage

(* And never will be.                                                      *)
LEMMA CommitFailsFollows ==
  ASSUME IInv, CommitFails, NEW h \in Runtimes PROVE Follows(h)
<1>1. Leased(h)' = Leased(h) /\ cleanup'[h] = cleanup[h]
  BY DEF CommitFails, Leased, Refreshing
<1>2. stage[candidate] = "candidate" /\ candidate \in Runtimes
  BY FailedStages DEF IInv, StageShape
<1> QED
  BY <1>1, <1>2, FailedStages, KeptStage

(* The candidate opens, the current generation is retired.                 *)
LEMMA PublishFollows ==
  ASSUME IInv, Publish, NEW h \in Runtimes PROVE Follows(h)
<1>1. stage[current] = "current" /\ ~Closing /\ current \in Runtimes
  BY GenerationsAssumption DEF IInv, TypeOK, LockShape, StageShape, Operations, Publish
<1>2. stage[candidate] = "candidate" /\ candidate \in Runtimes /\ candidate # current
  BY PublishedStages DEF IInv, StageShape
<1>3. refresh[candidate] \notin {"running", "cancelled"} =>
        Leased(h)' = Leased(h)
  BY <1>2 DEF IInv, TypeOK, Publish, Leased, Refreshing
<1>4. ~Leased(candidate)
  BY <1>1, <1>2 DEF IInv, LeasedStaysOpen
<1>5. Leased(h)' = Leased(h)
  BY <1>3, <1>4 DEF Leased, Refreshing
<1>6. CASE h = candidate
  <2>1. stage'[h] = "current" /\ cleanup'[h] = cleanup[h]
    BY <1>2, <1>6 DEF IInv, TypeOK, Publish, WithCleanup
  <2> QED
    BY <1>2, <1>5, <1>6, <2>1 DEF Follows, Resource!Next, Resource!Open
<1>7. CASE h = current
  <2>1. stage'[h] = "retired"
    BY <1>1, <1>2, <1>7 DEF IInv, TypeOK, Publish
  <2>2. cleanup'[h] \in {cleanup[h], "running"} /\ (cleanup'[h] = "running" => ~Leased(h))
    BY <1>1, <1>7 DEF IInv, TypeOK, RefreshShape, CleaningUp, Publish, WithCleanup
  <2> QED
    BY <1>1, <1>5, <1>7, <2>1, <2>2 DEF Follows, Resource!Next, Resource!Retire
<1>8. CASE h # candidate /\ h # current
  <2>1. stage'[h] = stage[h] /\ cleanup'[h] = cleanup[h]
    BY <1>8 DEF IInv, TypeOK, Publish, WithCleanup
  <2> QED
    BY <1>5, <2>1, Stutters
<1> QED
  BY <1>6, <1>7, <1>8

(* Nothing happens to any generation.                                      *)
LEMMA ReplaceEndsFollows ==
  ASSUME IInv, ReplaceEnds, NEW h \in Runtimes PROVE Follows(h)
<1>1. Leased(h)' = Leased(h) /\ stage'[h] = stage[h] /\ cleanup'[h] = cleanup[h]
  BY DEF IInv, TypeOK, ReplaceEnds, Leased, Refreshing
<1> QED
  BY <1>1, Stutters

(* The candidate is not in use.                                            *)
LEMMA ReplaceCancelledFollows ==
  ASSUME IInv, ReplaceCancelled, NEW h \in Runtimes PROVE Follows(h)
  BY GenerationsAssumption DEF IInv, TypeOK, LockShape, StageShape, RefreshShape,
     Follows, Resource!vars, Resource!Next, Resource!Idle, Resource!Open,
     Resource!Lease, Resource!Leave, Resource!Retire, Resource!StartCleanup,
     Resource!CleanupEnds, Operations, Closing, CleaningUp, Leased, Refreshing,
     ReplaceCancelled, Free, lockVars, closeVars

(* A cancelled background refresh still holds its lease.                   *)
LEMMA CloseBeginsFollows ==
  ASSUME IInv, CloseBegins, NEW h \in Runtimes PROVE Follows(h)
<1>1. Leased(h)' = Leased(h) /\ stage'[h] = stage[h] /\ cleanup'[h] = cleanup[h]
  BY DEF IInv, TypeOK, CloseBegins, CancelRefresh, Leased, Refreshing
<1> QED
  BY <1>1, Stutters

(* The current generation is retired.                                      *)
LEMMA CloseRetiresFollows ==
  ASSUME IInv, CloseRetires, NEW h \in Runtimes PROVE Follows(h)
  BY GenerationsAssumption DEF IInv, TypeOK, LockShape, StageShape, RefreshShape,
     Follows, Resource!vars, Resource!Next, Resource!Idle, Resource!Open,
     Resource!Lease, Resource!Leave, Resource!Retire, Resource!StartCleanup,
     Resource!CleanupEnds, Operations, Closing, CleaningUp, Leased, Refreshing,
     CloseRetires, Free, lockVars, closeVars

(* Cleanups start, under a lease only if forced.                           *)
LEMMA CloseGenerationsFollows ==
  ASSUME IInv, NEW forced \in BOOLEAN, CloseGenerations(forced), NEW h \in Runtimes PROVE Follows(h)
<1>1. Leased(h)' = Leased(h) /\ stage'[h] = stage[h]
  BY DEF CloseGenerations, Leased, Refreshing
<1>2. CASE cleanup'[h] = cleanup[h]
  BY <1>1, <1>2, Stutters
<1>3. CASE cleanup'[h] # cleanup[h]
  <2>1. h \in targets /\ stage[h] = "retired" /\ ~CleaningUp(h)
    BY <1>3 DEF IInv, TypeOK, CloseGenerations
  <2>2. cleanup'[h] = IF forced THEN "forced" ELSE "running"
    BY <1>3, <2>1 DEF IInv, TypeOK, CloseGenerations
  <2>3. forced \/ ~Leased(h)
    BY <2>1 DEF CloseGenerations
  <2> QED
    BY <1>1, <2>1, <2>2, <2>3
    DEF IInv, TypeOK, Cleanup, Follows, Resource!Next, Resource!StartCleanup, Resource!Idle, CleaningUp
<1> QED
  BY <1>2, <1>3

(* Unpublished runtimes were never in use.                                 *)
LEMMA CloseEndsFollows ==
  ASSUME IInv, CloseEnds, NEW h \in Runtimes PROVE Follows(h)
  BY GenerationsAssumption DEF IInv, TypeOK, LockShape, StageShape, RefreshShape,
     Follows, Resource!vars, Resource!Next, Resource!Idle, Resource!Open,
     Resource!Lease, Resource!Leave, Resource!Retire, Resource!StartCleanup,
     Resource!CleanupEnds, Operations, Closing, CleaningUp, Leased, Refreshing,
     CloseEnds, lockVars, closeVars

(* Nothing happens to any generation.                                      *)
LEMMA CloseCancelledFollows ==
  ASSUME IInv, CloseCancelled, NEW h \in Runtimes PROVE Follows(h)
<1>1. Leased(h)' = Leased(h) /\ stage'[h] = stage[h] /\ cleanup'[h] = cleanup[h]
  BY DEF IInv, TypeOK, CloseCancelled, Leased, Refreshing
<1> QED
  BY <1>1, Stutters

(* The background refresh takes a lease of the open generation.            *)
LEMMA BackgroundStartsFollows ==
  ASSUME IInv, NEW g \in Runtimes, BackgroundStarts(g), NEW h \in Runtimes PROVE Follows(h)
  BY GenerationsAssumption DEF IInv, TypeOK, LockShape, StageShape, RefreshShape,
     Follows, Resource!vars, Resource!Next, Resource!Idle, Resource!Open,
     Resource!Lease, Resource!Leave, Resource!Retire, Resource!StartCleanup,
     Resource!CleanupEnds, Operations, Closing, CleaningUp, Leased, Refreshing,
     BackgroundStarts, lockVars, closeVars

(* It leaves, and the last one may start the cleanup.                      *)
LEMMA BackgroundEndsFollows ==
  ASSUME IInv, NEW g \in Runtimes, BackgroundEnds(g), NEW h \in Runtimes PROVE Follows(h)
<1>1. refresh' = [refresh EXCEPT ![g] = "none"] /\ Refreshing(g)
  BY DEF BackgroundEnds
<1>2. stage' = stage /\ lease' = lease
  BY DEF BackgroundEnds
<1>3. CASE Leased(h)' = Leased(h)
  <2>1. h # g \/ ~(\A v \in Users : lease[v] # h)
    BY <1>1, <1>2, <1>3 DEF IInv, TypeOK, Leased, Refreshing
  <2>2. cleanup'[h] = cleanup[h]
    BY <2>1 DEF IInv, TypeOK, BackgroundEnds, LastRelease, WithCleanup
  <2> QED
    BY <1>2, <1>3, <2>2, Stutters
<1>4. CASE Leased(h)' # Leased(h)
  <2>1. Leased(h) /\ ~Leased(h)'
    BY <1>1, <1>2, <1>4 DEF IInv, TypeOK, Leased, Refreshing
  <2>2. cleanup'[h] # cleanup[h] => stage[h] = "retired" /\ ~CleaningUp(h) /\ cleanup'[h] = "running"
    BY DEF IInv, TypeOK, BackgroundEnds, LastRelease, WithCleanup
  <2> QED
    BY <1>2, <2>1, <2>2, Leaves DEF IInv
<1> QED
  BY <1>3, <1>4

(* A cleanup ends.                                                         *)
LEMMA CleanupEndsFollows ==
  ASSUME IInv, NEW g \in Runtimes, NEW ok \in BOOLEAN, CleanupEnds(g, ok), NEW h \in Runtimes PROVE Follows(h)
  BY GenerationsAssumption DEF IInv, TypeOK, LockShape, StageShape, RefreshShape,
     Follows, Resource!vars, Resource!Next, Resource!Idle, Resource!Open,
     Resource!Lease, Resource!Leave, Resource!Retire, Resource!StartCleanup,
     Resource!CleanupEnds, Operations, Closing, CleaningUp, Leased, Refreshing,
     CleanupEnds, lockVars, closeVars

(* No generation is in use but the first, which is open.                   *)
LEMMA ResourceInit == ASSUME Init, NEW h \in Runtimes PROVE Resource(h)!Init
<1>1. ~Leased(h) /\ cleanup[h] = "idle" /\ stage[h] \in {"current", "unused"}
  BY GenerationsAssumption DEF Init, Leased, Refreshing
<1> QED
  BY <1>1 DEF Resource!Init, Leased, Refreshing

(* Every step is one of the leased resource, or none, for each generation. *)
LEMMA ResourceNext == ASSUME IInv, [Next]_vars, NEW h \in Runtimes PROVE Follows(h)
<1>1. CASE Lease
  BY <1>1, AcquireFollows, ReleaseFollows, RefreshBeginsFollows, RefreshLeasesFollows,
     RefreshCancelledFollows DEF Lease
<1>2. CASE Replace
  BY <1>2, ReplaceBeginsFollows, ReplacePreparesFollows, CommitFailsFollows, PublishFollows,
     ReplaceEndsFollows, ReplaceCancelledFollows DEF Replace
<1>3. CASE Close
  BY <1>3, CloseBeginsFollows, CloseRetiresFollows, CloseEndsFollows, CloseCancelledFollows,
     CloseGenerationsFollows DEF Close
<1>4. ASSUME NEW g \in Runtimes, Background(g) PROVE Follows(h)
  BY <1>4, BackgroundStartsFollows, BackgroundEndsFollows, CleanupEndsFollows DEF Background
<1>5. CASE UNCHANGED vars
  BY <1>5, Stutters DEF vars, Leased, Refreshing
<1> QED
  BY <1>1, <1>2, <1>3, <1>4, <1>5 DEF Next

(* Every generation is a leased resource: no lease after it is retired, no *)
(* cleanup under a lease unless forced, none after one that succeeded.     *)
THEOREM GenerationsAreLeased == Spec => EachGenerationIsLeased
<1>1. Init => \A g \in Runtimes : Resource(g)!Init
  BY ResourceInit
<1>2. IInv /\ [Next]_vars => [\A g \in Runtimes : UNCHANGED Resource(g)!vars \/ Resource(g)!Next]_vars
  BY ResourceNext DEF Follows
<1> QED
  BY <1>1, <1>2, InvCorrect, PTL DEF Spec, EachGenerationIsLeased
=============================================================================
