------------------------- MODULE ProviderAdmission -------------------------
(***************************************************************************)
(* ProviderAdmissionController: how the executions that call one upstream  *)
(* share its rate window, its concurrency slots and its recovery episode.  *)
(* The first retryable failure opens an episode; its leader alone sends    *)
(* probes, the other callers park on a condition until the episode closes, *)
(* changes hands or ends in a terminal cooldown.                           *)
(*                                                                         *)
(* No section under the condition's lock suspends, so the lock is never    *)
(* contended and each section is one step.  A caller may be cancelled      *)
(* wherever it suspends.  Episodes are kept per model and do not interact; *)
(* this module follows the callers of one model.  Which errors are worth   *)
(* another attempt is FailurePolicy's decision.                            *)
(*                                                                         *)
(* Operators marked "Slip:" are plausible defective variants of the        *)
(* operator they precede; the specification does not use them.             *)
(***************************************************************************)
EXTENDS Naturals, FiniteSets, FailurePolicy

CONSTANTS
  Sessions,    \* logical executions, each with a ProviderRetrySession
  Runners,     \* executions that own a stream: they suspend between a failed
               \* attempt and the next one, and close the stream before the
               \* attempt (the stream runners; not run_with_retry)
  MaxAttempts, \* UPSTREAM_TRANSIENT_TOTAL_ATTEMPTS
  Slots,       \* max_concurrency
  NONE

ASSUME AdmissionAssumption ==
  /\ IsFiniteSet(Sessions) /\ Runners \subseteq Sessions
  /\ NONE \notin Sessions
  /\ MaxAttempts \in Nat \ {0} /\ Slots \in Nat \ {0}

VARIABLES
  phase,      \* where each execution is
  attempts,   \* _attempts_started
  exhausted,  \* executions whose _terminal_error is set
  permit,     \* generation of the probe permit or of the backoff slept for,
              \* 0 for an ordinary permit
  episode,    \* generation of the open episode, 0 if there is none
  created,    \* episodes so far; _next_generation - 1
  leader,     \* episode.leader
  probing,    \* episode.probe_active
  due,        \* episode.ready_at has been reached
  terminal,   \* episode.terminal_until: "no", "cooling" (ahead) or "over"
  waiters,    \* episode.waiters
  slots       \* free concurrency slots

vars == <<phase, attempts, exhausted, permit, episode, created, leader, probing, due,
          terminal, waiters, slots>>

episodeVars == <<episode, created, leader, probing, due, terminal, waiters>>

(* "between" attempts a caller is outside the controller; a "parked" one   *)
(* waits on the condition and is "woken" by a notification; "sleeping" is  *)
(* the leader's backoff; "rate" and "slot" hold a permit; an attempt is    *)
(* "open", then "accepted"; "retrying", "ending" and "aborting" attempts   *)
(* still hold their slot until they are closed, the last one unresolved.   *)
Phases  == {"between", "parked", "woken", "sleeping", "rate", "slot", "open",
            "accepted", "retrying", "ending", "aborting", "done"}
Holding == {"open", "accepted", "retrying", "ending", "aborting"}
Holders == {s \in Sessions : phase[s] \in Holding}

Init ==
  /\ phase     = [s \in Sessions |-> "between"]
  /\ attempts  = [s \in Sessions |-> 0]
  /\ exhausted = {}
  /\ permit    = [s \in Sessions |-> 0]
  /\ episode = 0 /\ created = 0
  /\ leader = NONE /\ probing = FALSE /\ due = FALSE /\ terminal = "no"
  /\ waiters = {}
  /\ slots = Slots

-----------------------------------------------------------------------------
(* Pieces of the controller's sections.                                    *)

CanAttempt(s) == attempts[s] < MaxAttempts

(* s moves to phase at, and the condition's notify_all wakes the parked.   *)
NotifyAll(s, at) ==
  phase' = [x \in Sessions |-> IF x = s THEN at
                               ELSE IF phase[x] = "parked" THEN "woken" ELSE phase[x]]

Move(s, at) == phase' = [phase EXCEPT ![s] = at]

(* Slip: any attempt of an open episode counts as its probe.               *)
AnyAttempt(s) == episode # 0

MatchingProbe(s) ==
  /\ permit[s] # 0
  /\ episode = permit[s]
  /\ leader = s
  /\ probing

PermitIsCurrent(s) ==
  IF permit[s] = 0 THEN episode = 0 ELSE MatchingProbe(s) /\ terminal = "no"

StartEpisode(s) ==
  /\ created' = created + 1
  /\ episode' = created + 1
  /\ leader'  = s

CloseEpisode ==
  /\ episode' = 0
  /\ leader' = NONE /\ probing' = FALSE /\ due' = FALSE /\ terminal' = "no" /\ waiters' = {}
  /\ UNCHANGED created

(* Slip: nobody is told.                                                   *)
VacateSilently(s, at) ==
  /\ leader' = NONE /\ probing' = FALSE /\ due' = TRUE
  /\ Move(s, at)
  /\ UNCHANGED <<episode, created, terminal, waiters>>

(* The leader gives the episode up; any parked caller may take it over.    *)
Vacate(s, at) ==
  /\ leader' = NONE /\ probing' = FALSE /\ due' = TRUE
  /\ NotifyAll(s, at)
  /\ UNCHANGED <<episode, created, terminal, waiters>>

(* _abandon_probe_permit and _attempt_abandoned.                           *)
AbandonProbe(s, at) ==
  IF MatchingProbe(s) THEN Vacate(s, at) ELSE Move(s, at) /\ UNCHANGED episodeVars

Probe(s, generation) ==
  /\ probing' = TRUE
  /\ permit' = [permit EXCEPT ![s] = generation]
  /\ Move(s, "rate")

-----------------------------------------------------------------------------
(* The gate (_wait_for_gate_loop): one turn of its loop, by a caller that  *)
(* arrives in open_attempt or has been woken.                              *)

AtGate(s) == \/ phase[s] = "between" /\ CanAttempt(s)
             \/ phase[s] = "woken"

(* The episode of this caller, or the one that is open, ended in a         *)
(* cooldown.                                                               *)
GateExhausted(s) ==
  /\ AtGate(s)
  /\ s \in exhausted \/ (episode # 0 /\ terminal = "cooling")
  /\ Move(s, "done")
  /\ UNCHANGED <<attempts, exhausted, permit, slots, episodeVars>>

(* No recovery is under way.                                               *)
GateFree(s) ==
  /\ AtGate(s) /\ s \notin exhausted
  /\ episode = 0
  /\ permit' = [permit EXCEPT ![s] = 0]
  /\ Move(s, "rate")
  /\ UNCHANGED <<attempts, exhausted, slots, episodeVars>>

(* A cooldown that is over: the caller becomes the next probe.             *)
GateRestarts(s) ==
  /\ AtGate(s) /\ s \notin exhausted
  /\ episode # 0 /\ terminal = "over"
  /\ StartEpisode(s)
  /\ due' = TRUE /\ terminal' = "no" /\ waiters' = {}
  /\ Probe(s, created + 1)
  /\ UNCHANGED <<attempts, exhausted, slots>>

(* Slip: a caller at the gate takes the episode from a leader that sleeps. *)
GateOvertakes(s) ==
  /\ AtGate(s) /\ s \notin exhausted
  /\ episode # 0 /\ terminal = "no"
  /\ leader' = s
  /\ waiters' = waiters \ {s}
  /\ IF due
     THEN Probe(s, episode)
     ELSE /\ permit' = [permit EXCEPT ![s] = episode]
          /\ Move(s, "sleeping")
          /\ UNCHANGED probing
  /\ UNCHANGED <<attempts, exhausted, slots, episode, created, due, terminal>>

(* The caller takes over an episode without a leader, or goes on leading   *)
(* its own.                                                                *)
GateLeads(s) ==
  /\ AtGate(s) /\ s \notin exhausted
  /\ episode # 0 /\ terminal = "no"
  /\ leader \in {NONE, s} /\ ~(leader = s /\ probing)
  /\ leader' = s
  /\ waiters' = IF leader = NONE THEN waiters \ {s} ELSE waiters
  /\ IF due
     THEN Probe(s, episode)
     ELSE /\ permit' = [permit EXCEPT ![s] = episode]
          /\ Move(s, "sleeping")
          /\ UNCHANGED probing
  /\ UNCHANGED <<attempts, exhausted, slots, episode, created, due, terminal>>

(* Somebody else leads the episode.                                        *)
GateParks(s) ==
  /\ AtGate(s) /\ s \notin exhausted
  /\ episode # 0 /\ terminal = "no"
  /\ leader # NONE /\ (leader = s => probing)
  /\ waiters' = IF leader = s THEN waiters ELSE waiters \cup {s}
  /\ Move(s, "parked")
  /\ UNCHANGED <<attempts, exhausted, permit, slots, episode, created, leader, probing, due,
                 terminal>>

(* The backoff of the leader is over.                                      *)
SleepEnds(s) ==
  /\ phase[s] = "sleeping" /\ due
  /\ IF episode = permit[s] /\ leader = s /\ ~probing /\ terminal = "no"
     THEN Probe(s, episode)
     ELSE Move(s, "woken") /\ UNCHANGED <<permit, probing>>
  /\ UNCHANGED <<attempts, exhausted, slots, episode, created, leader, due, terminal, waiters>>

(* The sliding window has room; the permit is looked at again.             *)
RateAdmits(s) ==
  /\ phase[s] = "rate"
  /\ IF PermitIsCurrent(s)
     THEN Move(s, "slot") /\ UNCHANGED episodeVars
     ELSE AbandonProbe(s, "woken")
  /\ UNCHANGED <<attempts, exhausted, permit, slots>>

(* Slip: the slot is kept when the permit turns out to be stale.           *)
SlotKept(s) ==
  /\ phase[s] = "slot" /\ slots > 0
  /\ slots' = slots - 1
  /\ IF PermitIsCurrent(s)
     THEN /\ attempts' = [attempts EXCEPT ![s] = @ + 1]
          /\ Move(s, "open")
          /\ UNCHANGED episodeVars
     ELSE AbandonProbe(s, "woken") /\ UNCHANGED attempts
  /\ UNCHANGED <<exhausted, permit>>

(* The permit may have gone stale while the caller waited for its slot.    *)
SlotAcquired(s) ==
  /\ phase[s] = "slot" /\ slots > 0
  /\ IF PermitIsCurrent(s)
     THEN /\ slots' = slots - 1
          /\ attempts' = [attempts EXCEPT ![s] = @ + 1]
          /\ Move(s, "open")
          /\ UNCHANGED episodeVars
     ELSE AbandonProbe(s, "woken") /\ UNCHANGED <<slots, attempts>>
  /\ UNCHANGED <<exhausted, permit>>

-----------------------------------------------------------------------------
(* Outcomes of an attempt (ProviderAttempt).                               *)

(* Slip: the probe's success is not announced.                             *)
SucceededSilently(s) ==
  /\ phase[s] = "open"
  /\ Move(s, "accepted")
  /\ IF MatchingProbe(s) THEN CloseEpisode ELSE UNCHANGED episodeVars
  /\ UNCHANGED <<attempts, exhausted, permit, slots>>

(* The first chunk, or the result of a call that does not stream.          *)
Succeeded(s) ==
  /\ phase[s] = "open"
  /\ IF MatchingProbe(s)
     THEN CloseEpisode /\ NotifyAll(s, "accepted")
     ELSE Move(s, "accepted") /\ UNCHANGED episodeVars
  /\ UNCHANGED <<attempts, exhausted, permit, slots>>

(* An error that is not worth another attempt.  A stream runner may repair *)
(* the request and go on.                                                  *)
Rejected(s) ==
  /\ phase[s] = "open" /\ NotRetried # {}
  /\ \E next \in IF s \in Runners /\ CanAttempt(s) THEN {"ending", "retrying"} ELSE {"ending"} :
       IF MatchingProbe(s)
       THEN CloseEpisode /\ NotifyAll(s, next)
       ELSE Move(s, next) /\ UNCHANGED episodeVars
  /\ UNCHANGED <<attempts, exhausted, permit, slots>>

(* retry_immediately: a stream runner corrected its request; a probe keeps *)
(* its episode.                                                            *)
Corrected(s) ==
  /\ s \in Runners /\ phase[s] = "open" /\ CanAttempt(s)
  /\ IF MatchingProbe(s)
     THEN /\ probing' = FALSE /\ due' = TRUE
          /\ NotifyAll(s, "retrying")
          /\ UNCHANGED <<episode, created, leader, terminal, waiters>>
     ELSE Move(s, "retrying") /\ UNCHANGED episodeVars
  /\ UNCHANGED <<attempts, exhausted, permit, slots>>

(* An error that is, of an execution that may try again.                   *)
Failed(s) ==
  /\ phase[s] = "open" /\ CanAttempt(s) /\ Retried # {}
  /\ NotifyAll(s, "retrying")
  /\ IF episode = 0
     THEN /\ StartEpisode(s)
          /\ probing' = FALSE /\ due' = FALSE /\ terminal' = "no" /\ waiters' = {}
          /\ UNCHANGED exhausted
     ELSE /\ IF MatchingProbe(s)
             THEN probing' = FALSE /\ due' = FALSE /\ UNCHANGED <<exhausted, waiters>>
             ELSE /\ exhausted' = IF terminal # "no" THEN exhausted \cup {s} ELSE exhausted
                  /\ waiters' = IF terminal = "no" THEN waiters \cup {s} ELSE waiters
                  /\ UNCHANGED <<probing, due>>
          /\ UNCHANGED <<episode, created, leader, terminal>>
  /\ UNCHANGED <<attempts, permit, slots>>

(* Slip: the callers that wait for the episode are not told.               *)
FailedForGood(s) ==
  /\ phase[s] = "open" /\ ~CanAttempt(s)
  /\ IF episode = 0 \/ MatchingProbe(s)
     THEN /\ IF episode = 0 THEN StartEpisode(NONE)
             ELSE leader' = NONE /\ UNCHANGED <<episode, created>>
          /\ probing' = FALSE /\ due' = TRUE /\ terminal' = "cooling"
          /\ waiters' = {}
          /\ NotifyAll(s, "ending")
     ELSE Move(s, "ending") /\ UNCHANGED episodeVars
  /\ UNCHANGED <<attempts, exhausted, permit, slots>>

(* _attempt_failed of an execution whose budget is spent: the episode      *)
(* becomes terminal and takes every coalesced execution with it.           *)
FailedFinally(s) ==
  /\ phase[s] = "open" /\ ~CanAttempt(s) /\ Retried # {}
  /\ IF episode = 0 \/ MatchingProbe(s)
     THEN /\ IF episode = 0 THEN StartEpisode(NONE)
             ELSE leader' = NONE /\ UNCHANGED <<episode, created>>
          /\ probing' = FALSE /\ due' = TRUE /\ terminal' = "cooling"
          /\ exhausted' = exhausted \cup waiters
          /\ waiters' = {}
          /\ NotifyAll(s, "ending")
     ELSE Move(s, "ending") /\ UNCHANGED <<exhausted, episodeVars>>
  /\ UNCHANGED <<attempts, permit, slots>>

(* An accepted stream ends, or breaks and is retried by itself alone.      *)
AcceptedEnds(s) ==
  /\ phase[s] = "accepted"
  /\ \E next \in IF s \in Runners /\ CanAttempt(s) THEN {"ending", "retrying"} ELSE {"ending"} :
       Move(s, next)
  /\ UNCHANGED <<attempts, exhausted, permit, slots, episodeVars>>

(* aclose: an unresolved attempt abandons its probe; the slot is freed.    *)
AttemptCloses(s) ==
  /\ phase[s] \in {"retrying", "ending", "aborting"}
  /\ slots' = slots + 1
  /\ IF phase[s] = "aborting"
     THEN AbandonProbe(s, "done")
     ELSE /\ Move(s, IF phase[s] = "retrying" THEN "between" ELSE "done")
          /\ UNCHANGED episodeVars
  /\ UNCHANGED <<attempts, exhausted, permit>>

-----------------------------------------------------------------------------
(* Cancellation, or another exception, where a caller suspends.            *)

(* _abandon_orphaned_leadership: a cancelled caller that still leads.      *)
AbandonLeadership(s) ==
  IF leader = s
  THEN leader' = NONE /\ probing' = FALSE /\ due' = TRUE /\ NotifyAll(s, "done")
  ELSE Move(s, "done") /\ UNCHANGED <<leader, probing, due>>

(* In the gate a cancelled caller leaves the waiters and, should it still  *)
(* be the leader, the episode.                                             *)
CancelledInGate(s) ==
  /\ phase[s] \in {"parked", "woken"}
  /\ waiters' = waiters \ {s}
  /\ AbandonLeadership(s)
  /\ UNCHANGED <<attempts, exhausted, permit, slots, episode, created, terminal>>

(* The next leader still waits for the backoff of this one.                *)
CancelledAsleep(s) ==
  /\ phase[s] = "sleeping"
  /\ IF episode = permit[s] /\ leader = s /\ ~probing
     THEN leader' = NONE /\ NotifyAll(s, "done") /\ UNCHANGED <<probing, due>>
     ELSE AbandonLeadership(s)
  /\ UNCHANGED <<attempts, exhausted, permit, slots, episode, created, terminal, waiters>>

CancelledWithPermit(s) ==
  /\ phase[s] \in {"rate", "slot"}
  /\ AbandonProbe(s, "done")
  /\ UNCHANGED <<attempts, exhausted, permit, slots>>

CancelledInAttempt(s) ==
  /\ phase[s] \in {"open", "accepted"}
  /\ Move(s, IF phase[s] = "open" THEN "aborting" ELSE "ending")
  /\ UNCHANGED <<attempts, exhausted, permit, slots, episodeVars>>

(* A runner that closes its stream when the exception arrives, so that its *)
(* attempt is never closed, or that is outside the controller.  In neither *)
(* case does the controller hear of it.                                    *)
RunnerLost(s) ==
  /\ s \in Runners
  /\ phase[s] \in {"between", "retrying", "ending", "aborting"}
  /\ Move(s, "done")
  /\ UNCHANGED <<attempts, exhausted, permit, slots, episodeVars>>

(* The clock.                                                              *)
BackoffElapses ==
  /\ episode # 0 /\ ~due
  /\ due' = TRUE
  /\ UNCHANGED <<phase, attempts, exhausted, permit, slots, episode, created, leader, probing,
                 terminal, waiters>>

CooldownElapses ==
  /\ terminal = "cooling"
  /\ terminal' = "over"
  /\ UNCHANGED <<phase, attempts, exhausted, permit, slots, episode, created, leader, probing,
                 due, waiters>>

-----------------------------------------------------------------------------
Gate(s) == \/ GateExhausted(s) \/ GateFree(s) \/ GateRestarts(s) \/ GateLeads(s) \/ GateParks(s)
           \/ SleepEnds(s) \/ RateAdmits(s) \/ SlotAcquired(s)

Outcome(s) == Succeeded(s) \/ Rejected(s) \/ Corrected(s) \/ Failed(s) \/ FailedFinally(s)
              \/ AcceptedEnds(s) \/ AttemptCloses(s)

Cancelled(s) == CancelledInGate(s) \/ CancelledAsleep(s) \/ CancelledWithPermit(s)
                \/ CancelledInAttempt(s) \/ RunnerLost(s)

Clock == BackoffElapses \/ CooldownElapses

Next == Clock \/ \E s \in Sessions : Gate(s) \/ Outcome(s) \/ Cancelled(s)

Spec == Init /\ [][Next]_vars

-----------------------------------------------------------------------------
(* Type invariant: the budget of an execution is never exceeded, and the   *)
(* generations, leaders and permits are of the right kind.                 *)
TypeOK ==
  /\ phase     \in [Sessions -> Phases]
  /\ attempts  \in [Sessions -> 0..MaxAttempts]
  /\ exhausted \in SUBSET Sessions
  /\ permit    \in [Sessions -> Nat]
  /\ episode \in Nat /\ created \in Nat
  /\ leader    \in Sessions \cup {NONE}
  /\ probing \in BOOLEAN /\ due \in BOOLEAN
  /\ terminal  \in {"no", "cooling", "over"}
  /\ waiters   \in SUBSET Sessions
  /\ slots     \in Nat

(* One probe at a time: whoever holds a probe permit, from the gate until  *)
(* the attempt is resolved, leads the open episode.                        *)
ProbeLeadsEpisode ==
  \A s \in Sessions :
    phase[s] \in {"rate", "slot", "open", "aborting"} /\ permit[s] # 0 =>
      MatchingProbe(s) /\ terminal = "no"

(* No lost wakeup: a caller is parked only behind an episode that somebody *)
(* leads and whose waiters it belongs to, so the episode's end, hand-over  *)
(* or exhaustion reaches it.                                               *)
ParkedBehindLeader ==
  \A s \in Sessions :
    phase[s] = "parked" =>
      /\ episode # 0 /\ terminal = "no"
      /\ leader \notin {NONE, s}
      /\ s \in waiters

(* The leader of an episode, unless it is a stream runner that was lost,   *)
(* is on its way to the next probe or holds it.                            *)
LeaderIsAtWork ==
  leader # NONE /\ leader \notin Runners =>
    phase[leader] \in IF probing THEN {"rate", "slot", "open", "aborting"}
                      ELSE {"sleeping", "retrying", "between"}

(* Both: nobody is parked for ever, unless behind a stream runner that was *)
(* lost.                                                                   *)
WaitersAreLed == ParkedBehindLeader /\ LeaderIsAtWork

(* The stream runners that have ended: the executions that can lose a slot.*)
RunnersDone == {s \in Runners : phase[s] = "done"}

(* A slot is never given back twice, and only runners lose one.            *)
SlotsAccounted ==
  /\ slots + Cardinality(Holders) <= Slots
  /\ slots + Cardinality(Holders) + Cardinality(RunnersDone) >= Slots

(* An attempt that is not the current probe says nothing about the         *)
(* episode: its late success, rejection or failure neither closes nor      *)
(* delays it.                                                              *)
StaleOutcomeIsInert ==
  [][\A s \in Sessions :
       phase[s] = "open" /\ phase'[s] # "open" /\ episode # 0 /\ permit[s] # episode =>
         UNCHANGED <<episode, leader, probing, due, terminal>>]_vars

(* When the leader's budget is spent, every caller that was parked behind  *)
(* it or had failed along with it fails too, without another attempt.      *)
CoalescedFailTogether ==
  [][/\ terminal = "no" /\ terminal' = "cooling" =>
          \A s \in Sessions : phase[s] = "parked" => s \in exhausted'
     /\ \A s \in exhausted : attempts'[s] = attempts[s]]_vars

(* ARCHITECTURE.md: the cancellation of a leader transfers its episode.    *)
LeaderIsAlive == leader # NONE => phase[leader] # "done"

(* ARCHITECTURE.md: a slot is held only while a stream is active.          *)
SlotsReturn == slots + Cardinality(Holders) = Slots

-----------------------------------------------------------------------------
(* Scheduling: the event loop resumes every ready caller, the clock and    *)
(* the sliding window move on, the upstream answers or times out, and the  *)
(* semaphore serves its waiters in turn.                                   *)
Fairness ==
  /\ WF_vars(BackoffElapses) /\ WF_vars(CooldownElapses)
  /\ \A s \in Sessions :
       /\ WF_vars(Gate(s)) /\ WF_vars(Outcome(s))
       /\ SF_vars(SlotAcquired(s))

FairSpec == Spec /\ Fairness

(* While no lost runner leads an episode and slots remain, every execution *)
(* ends: nobody stays parked, asleep or queued for ever.                   *)
EveryCallEnds ==
  [](LeaderIsAlive /\ slots + Cardinality(Holders) > 0) =>
    \A s \in Sessions : <>(phase[s] = "done")
=============================================================================
