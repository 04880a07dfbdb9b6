------------------------ MODULE ProviderServicesProofs -----------------------
(***************************************************************************)
(* Proofs about what providers share (MCProviderAdmission): the admission  *)
(* of executions, at most one probe of a recovery episode and nobody       *)
(* parked behind an episode that no one leads; the model catalog, which    *)
(* lists usable providers only; the account of a user, whose processes     *)
(* never adopt a sign-in that was cancelled; and the failure policy, the   *)
(* decisions of which about one exception agree.                           *)
(***************************************************************************)
EXTENDS MCProviderAdmission, FiniteSetTheorems, TLAPS

-----------------------------------------------------------------------------
(* The admission of executions.                                            *)

(* An episode that is closed, or cooling, has neither leader nor waiters.   *)
EpisodeShape ==
  /\ episode = 0 => leader = NONE /\ terminal = "no" /\ waiters = {}
  /\ terminal # "no" => leader = NONE /\ waiters = {}
  /\ probing => leader # NONE

(* Where the leader may be: with the probe, on its way to it, or lost.     *)
LeaderPlace ==
  leader # NONE =>
    \/ /\ probing
       /\ phase[leader] \in {"rate", "slot", "open", "aborting"}
       /\ permit[leader] = episode
    \/ /\ ~probing
       /\ phase[leader] \in {"retrying", "between"}
    \/ /\ ~probing
       /\ phase[leader] = "sleeping"
       /\ permit[leader] = episode
    \/ leader \in Runners /\ phase[leader] = "done"

(* Nobody who waits for an episode leads it or holds a permit.             *)
WaitersPlace ==
  \A s \in waiters : s # leader /\ phase[s] \in {"parked", "woken", "retrying", "between", "done"}

(* Nobody whom an episode has failed leads one or holds a permit.          *)
ExhaustedPlace ==
  \A s \in exhausted : s # leader /\ phase[s] \in {"woken", "retrying", "between", "done"}

(* A caller inside the gate has an attempt left.                           *)
BudgetLeft ==
  \A s \in Sessions :
    phase[s] \in {"parked", "woken", "sleeping", "rate", "slot"} => CanAttempt(s)

(* The inductive invariant: the properties of the episode, and where its   *)
(* leader, its waiters and the executions that failed with it may be.      *)
IInv == /\ TypeOK /\ EpisodeShape /\ LeaderPlace /\ WaitersPlace /\ ExhaustedPlace
        /\ BudgetLeft /\ ProbeLeadsEpisode /\ ParkedBehindLeader

-----------------------------------------------------------------------------
(* Phases.                                                                 *)

(* Moving one caller leaves every phase a phase.                           *)
LEMMA MoveType ==
  ASSUME TypeOK, NEW s \in Sessions, NEW at \in Phases, Move(s, at)
  PROVE  phase' \in [Sessions -> Phases]
  BY DEF TypeOK, Move

(* So does moving it and waking the parked callers.                        *)
LEMMA NotifyAllType ==
  ASSUME TypeOK, NEW s \in Sessions, NEW at \in Phases, NotifyAll(s, at)
  PROVE  phase' \in [Sessions -> Phases]
  BY DEF TypeOK, NotifyAll, Phases

(* The types of the episode's variables.                                   *)
EpisodeTypes ==
  /\ episode \in Nat /\ created \in Nat
  /\ leader \in Sessions \cup {NONE}
  /\ probing \in BOOLEAN /\ due \in BOOLEAN
  /\ terminal \in {"no", "cooling", "over"}
  /\ waiters \in SUBSET Sessions

(* They survive a step that closes the episode or leaves it alone.         *)
LEMMA EpisodeTypesKept ==
  ASSUME TypeOK, CloseEpisode \/ UNCHANGED episodeVars
  PROVE  EpisodeTypes'
<1>1. CASE CloseEpisode
  BY <1>1 DEF TypeOK, EpisodeTypes, CloseEpisode
<1>2. CASE UNCHANGED episodeVars
  BY <1>2 DEF TypeOK, EpisodeTypes, episodeVars
<1> QED
  BY <1>1, <1>2

(* Abandoning a probe keeps the types of the episode and of the phases.    *)
LEMMA AbandonProbeType ==
  ASSUME TypeOK, NEW s \in Sessions, NEW at \in Phases, AbandonProbe(s, at)
  PROVE  phase' \in [Sessions -> Phases] /\ EpisodeTypes'
<1>1. CASE MatchingProbe(s)
  <2>1. NotifyAll(s, at)
    BY <1>1 DEF AbandonProbe, Vacate
  <2> QED
    BY <1>1, <2>1, NotifyAllType DEF TypeOK, EpisodeTypes, AbandonProbe, Vacate
<1>2. CASE ~MatchingProbe(s)
  <2>1. Move(s, at) /\ UNCHANGED episodeVars
    BY <1>2 DEF AbandonProbe
  <2> QED
    BY <2>1, MoveType, EpisodeTypesKept
<1> QED
  BY <1>1, <1>2

-----------------------------------------------------------------------------
(* Every step keeps the invariant.                                         *)

(* A caller that gives up at the gate does not lead.                       *)
LEMMA GateExhaustedStep == ASSUME IInv, NEW s \in Sessions, GateExhausted(s) PROVE IInv'
<1>1. TypeOK'
  BY AdmissionAssumption DEF IInv, TypeOK, Phases, GateExhausted, Move, AtGate, episodeVars
<1>2. EpisodeShape' /\ LeaderPlace'
  BY AdmissionAssumption DEF IInv, TypeOK, EpisodeShape, LeaderPlace, ExhaustedPlace,
                             ProbeLeadsEpisode, GateExhausted, Move, AtGate, episodeVars,
                             MatchingProbe
<1>3. WaitersPlace' /\ ExhaustedPlace'
  BY AdmissionAssumption DEF IInv, TypeOK, EpisodeShape, LeaderPlace, WaitersPlace,
                             ExhaustedPlace, GateExhausted, Move, AtGate, episodeVars
<1>4. BudgetLeft'
  BY AdmissionAssumption DEF IInv, TypeOK, BudgetLeft, CanAttempt, GateExhausted, Move, AtGate,
                             episodeVars
<1>5. ProbeLeadsEpisode'
  BY AdmissionAssumption DEF IInv, TypeOK, EpisodeShape, LeaderPlace, ProbeLeadsEpisode,
                             GateExhausted, Move, AtGate, episodeVars, MatchingProbe
<1>6. ParkedBehindLeader'
  BY AdmissionAssumption DEF IInv, TypeOK, EpisodeShape, LeaderPlace, ParkedBehindLeader,
                             GateExhausted, Move, AtGate, episodeVars
<1> QED
  BY <1>1, <1>2, <1>3, <1>4, <1>5, <1>6 DEF IInv

(* Without an episode the caller gets an ordinary permit.                  *)
LEMMA GateFreeStep == ASSUME IInv, NEW s \in Sessions, GateFree(s) PROVE IInv'
<1>1. TypeOK'
  BY AdmissionAssumption DEF IInv, TypeOK, Phases, GateFree, Move, AtGate, episodeVars
<1>2. EpisodeShape' /\ LeaderPlace'
  BY AdmissionAssumption DEF IInv, TypeOK, EpisodeShape, LeaderPlace, ExhaustedPlace,
                             ProbeLeadsEpisode, GateFree, Move, AtGate, episodeVars, MatchingProbe
<1>3. WaitersPlace' /\ ExhaustedPlace'
  BY AdmissionAssumption DEF IInv, TypeOK, EpisodeShape, LeaderPlace, WaitersPlace,
                             ExhaustedPlace, GateFree, Move, AtGate, episodeVars
<1>4. BudgetLeft'
  BY AdmissionAssumption DEF IInv, TypeOK, BudgetLeft, CanAttempt, GateFree, Move, AtGate,
                             episodeVars
<1>5. ProbeLeadsEpisode'
  BY AdmissionAssumption DEF IInv, TypeOK, EpisodeShape, LeaderPlace, ProbeLeadsEpisode, GateFree,
                             Move, AtGate, episodeVars, MatchingProbe
<1>6. ParkedBehindLeader'
  BY AdmissionAssumption DEF IInv, TypeOK, EpisodeShape, LeaderPlace, ParkedBehindLeader,
                             GateFree, Move, AtGate, episodeVars
<1> QED
  BY <1>1, <1>2, <1>3, <1>4, <1>5, <1>6 DEF IInv

(* After a cooldown nobody is parked and the caller becomes the only       *)
(* probe.                                                                  *)
LEMMA GateRestartsStep == ASSUME IInv, NEW s \in Sessions, GateRestarts(s) PROVE IInv'
<1>1. TypeOK'
  BY AdmissionAssumption DEF IInv, TypeOK, Phases, GateRestarts, Move, Probe, StartEpisode,
                             AtGate, episodeVars
<1>2. EpisodeShape' /\ LeaderPlace'
  BY AdmissionAssumption DEF IInv, TypeOK, EpisodeShape, LeaderPlace, ExhaustedPlace,
                             ProbeLeadsEpisode, GateRestarts, Move, Probe, StartEpisode, AtGate,
                             episodeVars, MatchingProbe
<1>3. WaitersPlace' /\ ExhaustedPlace'
  BY AdmissionAssumption DEF IInv, TypeOK, EpisodeShape, LeaderPlace, WaitersPlace,
                             ExhaustedPlace, GateRestarts, Move, Probe, StartEpisode, AtGate,
                             episodeVars
<1>4. BudgetLeft'
  BY AdmissionAssumption DEF IInv, TypeOK, BudgetLeft, CanAttempt, GateRestarts, Move, Probe,
                             StartEpisode, AtGate, episodeVars
<1>5. ProbeLeadsEpisode'
  BY AdmissionAssumption DEF IInv, TypeOK, EpisodeShape, LeaderPlace, ProbeLeadsEpisode,
                             GateRestarts, Move, Probe, StartEpisode, AtGate, episodeVars,
                             MatchingProbe
<1>6. ParkedBehindLeader'
  BY AdmissionAssumption DEF IInv, TypeOK, EpisodeShape, LeaderPlace, ParkedBehindLeader,
                             GateRestarts, Move, Probe, StartEpisode, AtGate, episodeVars
<1> QED
  BY <1>1, <1>2, <1>3, <1>4, <1>5, <1>6 DEF IInv

(* The caller that takes an episode over, or goes on leading it, is its    *)
(* only prober.                                                            *)
LEMMA GateLeadsStep == ASSUME IInv, NEW s \in Sessions, GateLeads(s) PROVE IInv'
<1>1. TypeOK'
  BY AdmissionAssumption DEF IInv, TypeOK, Phases, GateLeads, Move, Probe, AtGate, episodeVars
<1>2. EpisodeShape' /\ LeaderPlace'
  BY AdmissionAssumption DEF IInv, TypeOK, EpisodeShape, LeaderPlace, ExhaustedPlace,
                             ProbeLeadsEpisode, GateLeads, Move, Probe, AtGate, episodeVars,
                             MatchingProbe
<1>3. WaitersPlace' /\ ExhaustedPlace'
  BY AdmissionAssumption DEF IInv, TypeOK, EpisodeShape, LeaderPlace, WaitersPlace,
                             ExhaustedPlace, GateLeads, Move, Probe, AtGate, episodeVars
<1>4. BudgetLeft'
  BY AdmissionAssumption DEF IInv, TypeOK, BudgetLeft, CanAttempt, GateLeads, Move, Probe, AtGate,
                             episodeVars
<1>5. ProbeLeadsEpisode'
  BY AdmissionAssumption DEF IInv, TypeOK, EpisodeShape, LeaderPlace, ProbeLeadsEpisode,
                             GateLeads, Move, Probe, AtGate, episodeVars, MatchingProbe
<1>6. ParkedBehindLeader'
  BY AdmissionAssumption DEF IInv, TypeOK, EpisodeShape, LeaderPlace, ParkedBehindLeader,
                             GateLeads, Move, Probe, AtGate, episodeVars
<1> QED
  BY <1>1, <1>2, <1>3, <1>4, <1>5, <1>6 DEF IInv

(* A caller parks only behind another one: its own probe cannot be active  *)
(* while it is at the gate.                                                *)
LEMMA GateParksStep == ASSUME IInv, NEW s \in Sessions, GateParks(s) PROVE IInv'
<1>1. TypeOK'
  BY AdmissionAssumption DEF IInv, TypeOK, Phases, GateParks, Move, AtGate, episodeVars
<1>2. EpisodeShape' /\ LeaderPlace'
  BY AdmissionAssumption DEF IInv, TypeOK, EpisodeShape, LeaderPlace, ExhaustedPlace,
                             ProbeLeadsEpisode, GateParks, Move, AtGate, episodeVars,
                             MatchingProbe
<1>3. WaitersPlace' /\ ExhaustedPlace'
  BY AdmissionAssumption DEF IInv, TypeOK, EpisodeShape, LeaderPlace, WaitersPlace,
                             ExhaustedPlace, GateParks, Move, AtGate, episodeVars
<1>4. BudgetLeft'
  BY AdmissionAssumption DEF IInv, TypeOK, BudgetLeft, CanAttempt, GateParks, Move, AtGate,
                             episodeVars
<1>5. ProbeLeadsEpisode'
  BY AdmissionAssumption DEF IInv, TypeOK, EpisodeShape, LeaderPlace, ProbeLeadsEpisode,
                             GateParks, Move, AtGate, episodeVars, MatchingProbe
<1>6. ParkedBehindLeader'
  BY AdmissionAssumption DEF IInv, TypeOK, EpisodeShape, LeaderPlace, ParkedBehindLeader,
                             GateParks, Move, AtGate, episodeVars
<1> QED
  BY <1>1, <1>2, <1>3, <1>4, <1>5, <1>6 DEF IInv

(* The leader wakes from its backoff to probe.                             *)
LEMMA SleepEndsStep == ASSUME IInv, NEW s \in Sessions, SleepEnds(s) PROVE IInv'
<1>1. TypeOK'
  BY AdmissionAssumption DEF IInv, TypeOK, Phases, SleepEnds, Move, Probe, episodeVars
<1>2. EpisodeShape' /\ LeaderPlace'
  BY AdmissionAssumption DEF IInv, TypeOK, EpisodeShape, LeaderPlace, ExhaustedPlace,
                             ProbeLeadsEpisode, SleepEnds, Move, Probe, episodeVars, MatchingProbe
<1>3. WaitersPlace' /\ ExhaustedPlace'
  BY AdmissionAssumption DEF IInv, TypeOK, EpisodeShape, LeaderPlace, WaitersPlace,
                             ExhaustedPlace, SleepEnds, Move, Probe, episodeVars
<1>4. BudgetLeft'
  BY AdmissionAssumption DEF IInv, TypeOK, BudgetLeft, CanAttempt, SleepEnds, Move, Probe,
                             episodeVars
<1>5. ProbeLeadsEpisode'
  BY AdmissionAssumption DEF IInv, TypeOK, EpisodeShape, LeaderPlace, ProbeLeadsEpisode,
                             SleepEnds, Move, Probe, episodeVars, MatchingProbe
<1>6. ParkedBehindLeader'
  BY AdmissionAssumption DEF IInv, TypeOK, EpisodeShape, LeaderPlace, ParkedBehindLeader,
                             SleepEnds, Move, Probe, episodeVars
<1> QED
  BY <1>1, <1>2, <1>3, <1>4, <1>5, <1>6 DEF IInv

(* A probe permit is still current after the rate window.                  *)
LEMMA RateAdmitsStep == ASSUME IInv, NEW s \in Sessions, RateAdmits(s) PROVE IInv'
<1>1. TypeOK'
  <2>1. CASE PermitIsCurrent(s)
    <3>1. Move(s, "slot") /\ UNCHANGED episodeVars
      BY <2>1 DEF RateAdmits
    <3> QED
      BY <3>1, MoveType, EpisodeTypesKept DEF IInv, TypeOK, EpisodeTypes, Phases, RateAdmits
  <2>2. CASE ~PermitIsCurrent(s)
    <3>1. AbandonProbe(s, "woken")
      BY <2>2 DEF RateAdmits
    <3> QED
      BY <3>1, AbandonProbeType DEF IInv, TypeOK, EpisodeTypes, Phases, RateAdmits
  <2> QED
    BY <2>1, <2>2
<1>2. EpisodeShape' /\ LeaderPlace'
  BY AdmissionAssumption DEF IInv, TypeOK, EpisodeShape, LeaderPlace, ExhaustedPlace,
                             ProbeLeadsEpisode, RateAdmits, Move, PermitIsCurrent, AbandonProbe,
                             Vacate, NotifyAll, MatchingProbe, episodeVars
<1>3. WaitersPlace' /\ ExhaustedPlace'
  BY AdmissionAssumption DEF IInv, TypeOK, EpisodeShape, LeaderPlace, WaitersPlace,
                             ExhaustedPlace, RateAdmits, Move, PermitIsCurrent, AbandonProbe,
                             Vacate, NotifyAll, MatchingProbe, episodeVars
<1>4. BudgetLeft'
  BY AdmissionAssumption DEF IInv, TypeOK, BudgetLeft, CanAttempt, RateAdmits, Move,
                             PermitIsCurrent, AbandonProbe, Vacate, NotifyAll, MatchingProbe,
                             episodeVars
<1>5. ProbeLeadsEpisode'
  BY AdmissionAssumption DEF IInv, TypeOK, EpisodeShape, LeaderPlace, ProbeLeadsEpisode,
                             RateAdmits, Move, PermitIsCurrent, AbandonProbe, Vacate, NotifyAll,
                             MatchingProbe, episodeVars
<1>6. ParkedBehindLeader'
  BY AdmissionAssumption DEF IInv, TypeOK, EpisodeShape, LeaderPlace, ParkedBehindLeader,
                             RateAdmits, Move, PermitIsCurrent, AbandonProbe, Vacate, NotifyAll,
                             MatchingProbe, episodeVars
<1> QED
  BY <1>1, <1>2, <1>3, <1>4, <1>5, <1>6 DEF IInv

(* And after the wait for the slot.                                        *)
LEMMA SlotAcquiredStep == ASSUME IInv, NEW s \in Sessions, SlotAcquired(s) PROVE IInv'
<1>1. TypeOK'
  <2>1. CASE PermitIsCurrent(s)
    <3>1. Move(s, "open") /\ UNCHANGED episodeVars
      BY <2>1 DEF SlotAcquired
    <3>2. phase' \in [Sessions -> Phases] /\ EpisodeTypes'
      BY <3>1, MoveType, EpisodeTypesKept DEF IInv, Phases
    <3>3. attempts[s] \in Nat /\ attempts[s] + 1 \in 0..MaxAttempts
      BY <2>1, AdmissionAssumption DEF IInv, TypeOK, SlotAcquired, BudgetLeft, CanAttempt
    <3>4. attempts' \in [Sessions -> 0..MaxAttempts]
      BY <2>1, <3>3 DEF IInv, TypeOK, SlotAcquired
    <3>5. slots' \in Nat
      BY <2>1 DEF IInv, TypeOK, SlotAcquired
    <3> QED
      BY <3>2, <3>4, <3>5 DEF IInv, TypeOK, EpisodeTypes, SlotAcquired
  <2>2. CASE ~PermitIsCurrent(s)
    <3>1. AbandonProbe(s, "woken")
      BY <2>2 DEF SlotAcquired
    <3> QED
      BY <2>2, <3>1, AbandonProbeType DEF IInv, TypeOK, EpisodeTypes, Phases, SlotAcquired
  <2> QED
    BY <2>1, <2>2
<1>2. EpisodeShape' /\ LeaderPlace'
  BY AdmissionAssumption DEF IInv, TypeOK, EpisodeShape, LeaderPlace, ExhaustedPlace,
                             ProbeLeadsEpisode, SlotAcquired, Move, PermitIsCurrent, AbandonProbe,
                             Vacate, NotifyAll, MatchingProbe, CanAttempt, episodeVars
<1>3. WaitersPlace' /\ ExhaustedPlace'
  BY AdmissionAssumption DEF IInv, TypeOK, EpisodeShape, LeaderPlace, WaitersPlace,
                             ExhaustedPlace, SlotAcquired, Move, PermitIsCurrent, AbandonProbe,
                             Vacate, NotifyAll, MatchingProbe, CanAttempt, episodeVars
<1>4. BudgetLeft'
  BY AdmissionAssumption DEF IInv, TypeOK, BudgetLeft, CanAttempt, SlotAcquired, Move,
                             PermitIsCurrent, AbandonProbe, Vacate, NotifyAll, MatchingProbe,
                             episodeVars
<1>5. ProbeLeadsEpisode'
  BY AdmissionAssumption DEF IInv, TypeOK, EpisodeShape, LeaderPlace, ProbeLeadsEpisode,
                             SlotAcquired, Move, PermitIsCurrent, AbandonProbe, Vacate, NotifyAll,
                             MatchingProbe, CanAttempt, episodeVars
<1>6. ParkedBehindLeader'
  BY AdmissionAssumption DEF IInv, TypeOK, EpisodeShape, LeaderPlace, ParkedBehindLeader,
                             SlotAcquired, Move, PermitIsCurrent, AbandonProbe, Vacate, NotifyAll,
                             MatchingProbe, CanAttempt, episodeVars
<1> QED
  BY <1>1, <1>2, <1>3, <1>4, <1>5, <1>6 DEF IInv

(* Only the probe closes the episode, and all parked callers are woken.    *)
LEMMA SucceededStep == ASSUME IInv, NEW s \in Sessions, Succeeded(s) PROVE IInv'
<1>1. TypeOK'
  <2>1. phase' \in [Sessions -> Phases]
    BY MoveType, NotifyAllType DEF IInv, Phases, Succeeded
  <2>2. EpisodeTypes'
    BY EpisodeTypesKept DEF IInv, Succeeded
  <2> QED
    BY <2>1, <2>2 DEF IInv, TypeOK, EpisodeTypes, Succeeded
<1>2. EpisodeShape' /\ LeaderPlace'
  BY AdmissionAssumption DEF IInv, TypeOK, EpisodeShape, LeaderPlace, ExhaustedPlace,
                             ProbeLeadsEpisode, Succeeded, Move, NotifyAll, CloseEpisode,
                             MatchingProbe, episodeVars
<1>3. WaitersPlace' /\ ExhaustedPlace'
  BY AdmissionAssumption DEF IInv, TypeOK, EpisodeShape, LeaderPlace, WaitersPlace,
                             ExhaustedPlace, Succeeded, Move, NotifyAll, CloseEpisode,
                             MatchingProbe, episodeVars
<1>4. BudgetLeft'
  BY AdmissionAssumption DEF IInv, TypeOK, BudgetLeft, CanAttempt, Succeeded, Move, NotifyAll,
                             CloseEpisode, MatchingProbe, episodeVars
<1>5. ProbeLeadsEpisode'
  BY AdmissionAssumption DEF IInv, TypeOK, EpisodeShape, LeaderPlace, ProbeLeadsEpisode,
                             Succeeded, Move, NotifyAll, CloseEpisode, MatchingProbe, episodeVars
<1>6. ParkedBehindLeader'
  BY AdmissionAssumption DEF IInv, TypeOK, EpisodeShape, LeaderPlace, ParkedBehindLeader,
                             Succeeded, Move, NotifyAll, CloseEpisode, MatchingProbe, episodeVars
<1> QED
  BY <1>1, <1>2, <1>3, <1>4, <1>5, <1>6 DEF IInv

(* A final rejection of the probe does the same.                           *)
LEMMA RejectedStep == ASSUME IInv, NEW s \in Sessions, Rejected(s) PROVE IInv'
<1>1. TypeOK'
  <2>1. PICK next \in {"ending", "retrying"} :
          IF MatchingProbe(s) THEN CloseEpisode /\ NotifyAll(s, next)
          ELSE Move(s, next) /\ UNCHANGED episodeVars
    BY DEF Rejected
  <2>2. next \in Phases
    BY DEF Phases
  <2>3. phase' \in [Sessions -> Phases]
    BY <2>1, <2>2, MoveType, NotifyAllType DEF IInv
  <2>4. EpisodeTypes'
    BY <2>1, EpisodeTypesKept DEF IInv
  <2> QED
    BY <2>3, <2>4 DEF IInv, TypeOK, EpisodeTypes, Rejected
<1>2. EpisodeShape' /\ LeaderPlace'
  BY AdmissionAssumption DEF IInv, TypeOK, EpisodeShape, LeaderPlace, ExhaustedPlace,
                             ProbeLeadsEpisode, Rejected, Move, NotifyAll, CloseEpisode,
                             MatchingProbe, CanAttempt, episodeVars
<1>3. WaitersPlace' /\ ExhaustedPlace'
  BY AdmissionAssumption DEF IInv, TypeOK, EpisodeShape, LeaderPlace, WaitersPlace,
                             ExhaustedPlace, Rejected, Move, NotifyAll, CloseEpisode,
                             MatchingProbe, CanAttempt, episodeVars
<1>4. BudgetLeft'
  BY AdmissionAssumption DEF IInv, TypeOK, BudgetLeft, CanAttempt, Rejected, Move, NotifyAll,
                             CloseEpisode, MatchingProbe, episodeVars
<1>5. ProbeLeadsEpisode'
  BY AdmissionAssumption DEF IInv, TypeOK, EpisodeShape, LeaderPlace, ProbeLeadsEpisode, Rejected,
                             Move, NotifyAll, CloseEpisode, MatchingProbe, CanAttempt, episodeVars
<1>6. ParkedBehindLeader'
  BY AdmissionAssumption DEF IInv, TypeOK, EpisodeShape, LeaderPlace, ParkedBehindLeader,
                             Rejected, Move, NotifyAll, CloseEpisode, MatchingProbe, CanAttempt,
                             episodeVars
<1> QED
  BY <1>1, <1>2, <1>3, <1>4, <1>5, <1>6 DEF IInv

(* A corrected probe leads on without a permit.                            *)
LEMMA CorrectedStep == ASSUME IInv, NEW s \in Sessions, Corrected(s) PROVE IInv'
<1>1. TypeOK'
  BY AdmissionAssumption DEF IInv, TypeOK, Phases, Corrected, Move, NotifyAll, MatchingProbe,
                             CanAttempt, episodeVars
<1>2. EpisodeShape' /\ LeaderPlace'
  BY AdmissionAssumption DEF IInv, TypeOK, EpisodeShape, LeaderPlace, ExhaustedPlace,
                             ProbeLeadsEpisode, Corrected, Move, NotifyAll, MatchingProbe,
                             CanAttempt, episodeVars
<1>3. WaitersPlace' /\ ExhaustedPlace'
  BY AdmissionAssumption DEF IInv, TypeOK, EpisodeShape, LeaderPlace, WaitersPlace,
                             ExhaustedPlace, Corrected, Move, NotifyAll, MatchingProbe,
                             CanAttempt, episodeVars
<1>4. BudgetLeft'
  BY AdmissionAssumption DEF IInv, TypeOK, BudgetLeft, CanAttempt, Corrected, Move, NotifyAll,
                             MatchingProbe, episodeVars
<1>5. ProbeLeadsEpisode'
  BY AdmissionAssumption DEF IInv, TypeOK, EpisodeShape, LeaderPlace, ProbeLeadsEpisode,
                             Corrected, Move, NotifyAll, MatchingProbe, CanAttempt, episodeVars
<1>6. ParkedBehindLeader'
  BY AdmissionAssumption DEF IInv, TypeOK, EpisodeShape, LeaderPlace, ParkedBehindLeader,
                             Corrected, Move, NotifyAll, MatchingProbe, CanAttempt, episodeVars
<1> QED
  BY <1>1, <1>2, <1>3, <1>4, <1>5, <1>6 DEF IInv

(* A failure opens an episode, or keeps the one it probes, or joins the    *)
(* waiters.                                                                *)
LEMMA FailedStep == ASSUME IInv, NEW s \in Sessions, Failed(s) PROVE IInv'
<1>1. TypeOK'
  <2>1. phase' \in [Sessions -> Phases]
    BY NotifyAllType DEF IInv, Phases, Failed
  <2>2. CASE episode = 0
    <3>1. created + 1 \in Nat
      BY DEF IInv, TypeOK
    <3> QED
      BY <2>1, <2>2, <3>1, AdmissionAssumption DEF IInv, TypeOK, Failed, StartEpisode
  <2>3. CASE episode # 0 /\ MatchingProbe(s)
    BY <2>1, <2>3 DEF IInv, TypeOK, Failed
  <2>4. CASE episode # 0 /\ ~MatchingProbe(s)
    BY <2>1, <2>4 DEF IInv, TypeOK, Failed
  <2> QED
    BY <2>2, <2>3, <2>4
<1>2. EpisodeShape' /\ LeaderPlace'
  BY AdmissionAssumption DEF IInv, TypeOK, EpisodeShape, LeaderPlace, ExhaustedPlace,
                             ProbeLeadsEpisode, Failed, NotifyAll, MatchingProbe, StartEpisode,
                             CanAttempt, episodeVars
<1>3. WaitersPlace' /\ ExhaustedPlace'
  BY AdmissionAssumption DEF IInv, TypeOK, EpisodeShape, LeaderPlace, WaitersPlace,
                             ExhaustedPlace, Failed, NotifyAll, MatchingProbe, StartEpisode,
                             CanAttempt, episodeVars
<1>4. BudgetLeft'
  BY AdmissionAssumption DEF IInv, TypeOK, BudgetLeft, CanAttempt, Failed, NotifyAll,
                             MatchingProbe, StartEpisode, episodeVars
<1>5. ProbeLeadsEpisode'
  BY AdmissionAssumption DEF IInv, TypeOK, EpisodeShape, LeaderPlace, ProbeLeadsEpisode, Failed,
                             NotifyAll, MatchingProbe, StartEpisode, CanAttempt, episodeVars
<1>6. ParkedBehindLeader'
  BY AdmissionAssumption DEF IInv, TypeOK, EpisodeShape, LeaderPlace, ParkedBehindLeader, Failed,
                             NotifyAll, MatchingProbe, StartEpisode, CanAttempt, episodeVars
<1> QED
  BY <1>1, <1>2, <1>3, <1>4, <1>5, <1>6 DEF IInv

(* A spent budget leaves a cooling episode without leader and wakes        *)
(* everybody.                                                              *)
LEMMA FailedFinallyStep == ASSUME IInv, NEW s \in Sessions, FailedFinally(s) PROVE IInv'
<1>1. TypeOK'
  <2>1. phase' \in [Sessions -> Phases]
    BY MoveType, NotifyAllType DEF IInv, Phases, FailedFinally
  <2>2. CASE episode = 0
    <3>1. created + 1 \in Nat
      BY DEF IInv, TypeOK
    <3> QED
      BY <2>1, <2>2, <3>1, AdmissionAssumption DEF IInv, TypeOK, FailedFinally, StartEpisode
  <2>3. CASE episode # 0 /\ MatchingProbe(s)
    BY <2>1, <2>3 DEF IInv, TypeOK, FailedFinally
  <2>4. CASE episode # 0 /\ ~MatchingProbe(s)
    <3>1. EpisodeTypes'
      BY <2>4, EpisodeTypesKept DEF IInv, FailedFinally
    <3> QED
      BY <2>1, <2>4, <3>1 DEF IInv, TypeOK, EpisodeTypes, FailedFinally
  <2> QED
    BY <2>2, <2>3, <2>4
<1>2. EpisodeShape' /\ LeaderPlace'
  BY AdmissionAssumption DEF IInv, TypeOK, EpisodeShape, LeaderPlace, ExhaustedPlace,
                             ProbeLeadsEpisode, FailedFinally, Move, NotifyAll, MatchingProbe,
                             StartEpisode, CanAttempt, episodeVars
<1>3. WaitersPlace' /\ ExhaustedPlace'
  BY AdmissionAssumption DEF IInv, TypeOK, EpisodeShape, LeaderPlace, WaitersPlace,
                             ExhaustedPlace, FailedFinally, Move, NotifyAll, MatchingProbe,
                             StartEpisode, CanAttempt, episodeVars
<1>4. BudgetLeft'
  BY AdmissionAssumption DEF IInv, TypeOK, BudgetLeft, CanAttempt, FailedFinally, Move, NotifyAll,
                             MatchingProbe, StartEpisode, episodeVars
<1>5. ProbeLeadsEpisode'
  BY AdmissionAssumption DEF IInv, TypeOK, EpisodeShape, LeaderPlace, ProbeLeadsEpisode,
                             FailedFinally, Move, NotifyAll, MatchingProbe, StartEpisode,
                             CanAttempt, episodeVars
<1>6. ParkedBehindLeader'
  BY AdmissionAssumption DEF IInv, TypeOK, EpisodeShape, LeaderPlace, ParkedBehindLeader,
                             FailedFinally, Move, NotifyAll, MatchingProbe, StartEpisode,
                             CanAttempt, episodeVars
<1> QED
  BY <1>1, <1>2, <1>3, <1>4, <1>5, <1>6 DEF IInv

(* An accepted attempt does not lead.                                      *)
LEMMA AcceptedEndsStep == ASSUME IInv, NEW s \in Sessions, AcceptedEnds(s) PROVE IInv'
<1>1. TypeOK'
  BY AdmissionAssumption DEF IInv, TypeOK, Phases, AcceptedEnds, Move, CanAttempt, episodeVars
<1>2. EpisodeShape' /\ LeaderPlace'
  BY AdmissionAssumption DEF IInv, TypeOK, EpisodeShape, LeaderPlace, ExhaustedPlace,
                             ProbeLeadsEpisode, AcceptedEnds, Move, CanAttempt, episodeVars,
                             MatchingProbe
<1>3. WaitersPlace' /\ ExhaustedPlace'
  BY AdmissionAssumption DEF IInv, TypeOK, EpisodeShape, LeaderPlace, WaitersPlace,
                             ExhaustedPlace, AcceptedEnds, Move, CanAttempt, episodeVars
<1>4. BudgetLeft'
  BY AdmissionAssumption DEF IInv, TypeOK, BudgetLeft, CanAttempt, AcceptedEnds, Move, episodeVars
<1>5. ProbeLeadsEpisode'
  BY AdmissionAssumption DEF IInv, TypeOK, EpisodeShape, LeaderPlace, ProbeLeadsEpisode,
                             AcceptedEnds, Move, CanAttempt, episodeVars, MatchingProbe
<1>6. ParkedBehindLeader'
  BY AdmissionAssumption DEF IInv, TypeOK, EpisodeShape, LeaderPlace, ParkedBehindLeader,
                             AcceptedEnds, Move, CanAttempt, episodeVars
<1> QED
  BY <1>1, <1>2, <1>3, <1>4, <1>5, <1>6 DEF IInv

(* Closing an attempt abandons an unresolved probe.                        *)
LEMMA AttemptClosesStep == ASSUME IInv, NEW s \in Sessions, AttemptCloses(s) PROVE IInv'
<1>1. TypeOK'
  <2>1. CASE phase[s] = "aborting"
    <3>1. AbandonProbe(s, "done")
      BY <2>1 DEF AttemptCloses
    <3> QED
      BY <3>1, AbandonProbeType DEF IInv, TypeOK, EpisodeTypes, Phases, AttemptCloses
  <2>2. CASE phase[s] # "aborting"
    <3>1. UNCHANGED episodeVars /\ \E at \in {"between", "done"} : Move(s, at)
      BY <2>2 DEF AttemptCloses
    <3>2. phase' \in [Sessions -> Phases] /\ EpisodeTypes'
      BY <3>1, MoveType, EpisodeTypesKept DEF IInv, Phases
    <3> QED
      BY <3>2 DEF IInv, TypeOK, EpisodeTypes, AttemptCloses
  <2> QED
    BY <2>1, <2>2
<1>2. EpisodeShape' /\ LeaderPlace'
  BY AdmissionAssumption DEF IInv, TypeOK, EpisodeShape, LeaderPlace, ExhaustedPlace,
                             ProbeLeadsEpisode, AttemptCloses, Move, AbandonProbe, Vacate,
                             NotifyAll, MatchingProbe, episodeVars
<1>3. WaitersPlace' /\ ExhaustedPlace'
  BY AdmissionAssumption DEF IInv, TypeOK, EpisodeShape, LeaderPlace, WaitersPlace,
                             ExhaustedPlace, AttemptCloses, Move, AbandonProbe, Vacate, NotifyAll,
                             MatchingProbe, episodeVars
<1>4. BudgetLeft'
  BY AdmissionAssumption DEF IInv, TypeOK, BudgetLeft, CanAttempt, AttemptCloses, Move,
                             AbandonProbe, Vacate, NotifyAll, MatchingProbe, episodeVars
<1>5. ProbeLeadsEpisode'
  BY AdmissionAssumption DEF IInv, TypeOK, EpisodeShape, LeaderPlace, ProbeLeadsEpisode,
                             AttemptCloses, Move, AbandonProbe, Vacate, NotifyAll, MatchingProbe,
                             episodeVars
<1>6. ParkedBehindLeader'
  BY AdmissionAssumption DEF IInv, TypeOK, EpisodeShape, LeaderPlace, ParkedBehindLeader,
                             AttemptCloses, Move, AbandonProbe, Vacate, NotifyAll, MatchingProbe,
                             episodeVars
<1> QED
  BY <1>1, <1>2, <1>3, <1>4, <1>5, <1>6 DEF IInv

(* Parked and woken callers do not lead.                                   *)
LEMMA CancelledInGateStep == ASSUME IInv, NEW s \in Sessions, CancelledInGate(s) PROVE IInv'
<1>1. TypeOK'
  BY AdmissionAssumption DEF IInv, TypeOK, Phases, CancelledInGate, Move, NotifyAll,
                             AbandonLeadership, episodeVars
<1>2. EpisodeShape' /\ LeaderPlace'
  BY AdmissionAssumption DEF IInv, TypeOK, EpisodeShape, LeaderPlace, ExhaustedPlace,
                             ProbeLeadsEpisode, CancelledInGate, Move, NotifyAll,
                             AbandonLeadership, episodeVars, MatchingProbe
<1>3. WaitersPlace' /\ ExhaustedPlace'
  BY AdmissionAssumption DEF IInv, TypeOK, EpisodeShape, LeaderPlace, WaitersPlace,
                             ExhaustedPlace, CancelledInGate, Move, NotifyAll, AbandonLeadership,
                             episodeVars
<1>4. BudgetLeft'
  BY AdmissionAssumption DEF IInv, TypeOK, BudgetLeft, CanAttempt, CancelledInGate, Move,
                             NotifyAll, AbandonLeadership, episodeVars
<1>5. ProbeLeadsEpisode'
  BY AdmissionAssumption DEF IInv, TypeOK, EpisodeShape, LeaderPlace, ProbeLeadsEpisode,
                             CancelledInGate, Move, NotifyAll, AbandonLeadership, episodeVars,
                             MatchingProbe
<1>6. ParkedBehindLeader'
  BY AdmissionAssumption DEF IInv, TypeOK, EpisodeShape, LeaderPlace, ParkedBehindLeader,
                             CancelledInGate, Move, NotifyAll, AbandonLeadership, episodeVars
<1> QED
  BY <1>1, <1>2, <1>3, <1>4, <1>5, <1>6 DEF IInv

(* A cancelled leader hands over and wakes everybody.                      *)
LEMMA CancelledAsleepStep == ASSUME IInv, NEW s \in Sessions, CancelledAsleep(s) PROVE IInv'
<1>1. TypeOK'
  BY AdmissionAssumption DEF IInv, TypeOK, Phases, CancelledAsleep, Move, NotifyAll,
                             AbandonLeadership, episodeVars
<1>2. EpisodeShape' /\ LeaderPlace'
  BY AdmissionAssumption DEF IInv, TypeOK, EpisodeShape, LeaderPlace, ExhaustedPlace,
                             ProbeLeadsEpisode, CancelledAsleep, Move, NotifyAll,
                             AbandonLeadership, episodeVars, MatchingProbe
<1>3. WaitersPlace' /\ ExhaustedPlace'
  BY AdmissionAssumption DEF IInv, TypeOK, EpisodeShape, LeaderPlace, WaitersPlace,
                             ExhaustedPlace, CancelledAsleep, Move, NotifyAll, AbandonLeadership,
                             episodeVars
<1>4. BudgetLeft'
  BY AdmissionAssumption DEF IInv, TypeOK, BudgetLeft, CanAttempt, CancelledAsleep, Move,
                             NotifyAll, AbandonLeadership, episodeVars
<1>5. ProbeLeadsEpisode'
  BY AdmissionAssumption DEF IInv, TypeOK, EpisodeShape, LeaderPlace, ProbeLeadsEpisode,
                             CancelledAsleep, Move, NotifyAll, AbandonLeadership, episodeVars,
                             MatchingProbe
<1>6. ParkedBehindLeader'
  BY AdmissionAssumption DEF IInv, TypeOK, EpisodeShape, LeaderPlace, ParkedBehindLeader,
                             CancelledAsleep, Move, NotifyAll, AbandonLeadership, episodeVars
<1> QED
  BY <1>1, <1>2, <1>3, <1>4, <1>5, <1>6 DEF IInv

(* A cancelled prober does too.                                            *)
LEMMA CancelledWithPermitStep ==
  ASSUME IInv, NEW s \in Sessions, CancelledWithPermit(s) PROVE IInv'
<1>1. TypeOK'
  BY AdmissionAssumption DEF IInv, TypeOK, Phases, CancelledWithPermit, Move, AbandonProbe,
                             Vacate, NotifyAll, MatchingProbe, episodeVars
<1>2. EpisodeShape' /\ LeaderPlace'
  BY AdmissionAssumption DEF IInv, TypeOK, EpisodeShape, LeaderPlace, ExhaustedPlace,
                             ProbeLeadsEpisode, CancelledWithPermit, Move, AbandonProbe, Vacate,
                             NotifyAll, MatchingProbe, episodeVars
<1>3. WaitersPlace' /\ ExhaustedPlace'
  BY AdmissionAssumption DEF IInv, TypeOK, EpisodeShape, LeaderPlace, WaitersPlace,
                             ExhaustedPlace, CancelledWithPermit, Move, AbandonProbe, Vacate,
                             NotifyAll, MatchingProbe, episodeVars
<1>4. BudgetLeft'
  BY AdmissionAssumption DEF IInv, TypeOK, BudgetLeft, CanAttempt, CancelledWithPermit, Move,
                             AbandonProbe, Vacate, NotifyAll, MatchingProbe, episodeVars
<1>5. ProbeLeadsEpisode'
  BY AdmissionAssumption DEF IInv, TypeOK, EpisodeShape, LeaderPlace, ProbeLeadsEpisode,
                             CancelledWithPermit, Move, AbandonProbe, Vacate, NotifyAll,
                             MatchingProbe, episodeVars
<1>6. ParkedBehindLeader'
  BY AdmissionAssumption DEF IInv, TypeOK, EpisodeShape, LeaderPlace, ParkedBehindLeader,
                             CancelledWithPermit, Move, AbandonProbe, Vacate, NotifyAll,
                             MatchingProbe, episodeVars
<1> QED
  BY <1>1, <1>2, <1>3, <1>4, <1>5, <1>6 DEF IInv

(* A cancelled probe stays one until its attempt is closed.                *)
LEMMA CancelledInAttemptStep == ASSUME IInv, NEW s \in Sessions, CancelledInAttempt(s) PROVE IInv'
<1>1. TypeOK'
  BY AdmissionAssumption DEF IInv, TypeOK, Phases, CancelledInAttempt, Move, episodeVars
<1>2. EpisodeShape' /\ LeaderPlace'
  BY AdmissionAssumption DEF IInv, TypeOK, EpisodeShape, LeaderPlace, ExhaustedPlace,
                             ProbeLeadsEpisode, CancelledInAttempt, Move, episodeVars,
                             MatchingProbe
<1>3. WaitersPlace' /\ ExhaustedPlace'
  BY AdmissionAssumption DEF IInv, TypeOK, EpisodeShape, LeaderPlace, WaitersPlace,
                             ExhaustedPlace, CancelledInAttempt, Move, episodeVars
<1>4. BudgetLeft'
  BY AdmissionAssumption DEF IInv, TypeOK, BudgetLeft, CanAttempt, CancelledInAttempt, Move,
                             episodeVars
<1>5. ProbeLeadsEpisode'
  BY AdmissionAssumption DEF IInv, TypeOK, EpisodeShape, LeaderPlace, ProbeLeadsEpisode,
                             CancelledInAttempt, Move, episodeVars, MatchingProbe
<1>6. ParkedBehindLeader'
  BY AdmissionAssumption DEF IInv, TypeOK, EpisodeShape, LeaderPlace, ParkedBehindLeader,
                             CancelledInAttempt, Move, episodeVars
<1> QED
  BY <1>1, <1>2, <1>3, <1>4, <1>5, <1>6 DEF IInv

(* A runner that is lost goes on leading.                                  *)
LEMMA RunnerLostStep == ASSUME IInv, NEW s \in Sessions, RunnerLost(s) PROVE IInv'
<1>1. TypeOK'
  BY AdmissionAssumption DEF IInv, TypeOK, Phases, RunnerLost, Move, episodeVars
<1>2. EpisodeShape' /\ LeaderPlace'
  BY AdmissionAssumption DEF IInv, TypeOK, EpisodeShape, LeaderPlace, ExhaustedPlace,
                             ProbeLeadsEpisode, RunnerLost, Move, episodeVars, MatchingProbe
<1>3. WaitersPlace' /\ ExhaustedPlace'
  BY AdmissionAssumption DEF IInv, TypeOK, EpisodeShape, LeaderPlace, WaitersPlace,
                             ExhaustedPlace, RunnerLost, Move, episodeVars
<1>4. BudgetLeft'
  BY AdmissionAssumption DEF IInv, TypeOK, BudgetLeft, CanAttempt, RunnerLost, Move, episodeVars
<1>5. ProbeLeadsEpisode'
  BY AdmissionAssumption DEF IInv, TypeOK, EpisodeShape, LeaderPlace, ProbeLeadsEpisode,
                             RunnerLost, Move, episodeVars, MatchingProbe
<1>6. ParkedBehindLeader'
  BY AdmissionAssumption DEF IInv, TypeOK, EpisodeShape, LeaderPlace, ParkedBehindLeader,
                             RunnerLost, Move, episodeVars
<1> QED
  BY <1>1, <1>2, <1>3, <1>4, <1>5, <1>6 DEF IInv

(* The clock moves nobody.                                                 *)
LEMMA BackoffElapsesStep == ASSUME IInv, BackoffElapses PROVE IInv'
  BY DEF IInv, TypeOK, EpisodeShape, LeaderPlace, WaitersPlace, ExhaustedPlace, BudgetLeft,
         CanAttempt, ProbeLeadsEpisode, ParkedBehindLeader, MatchingProbe, BackoffElapses

(* A cooldown has no leader and no waiters.                                *)
LEMMA CooldownElapsesStep == ASSUME IInv, CooldownElapses PROVE IInv'
  BY DEF IInv, TypeOK, EpisodeShape, LeaderPlace, WaitersPlace, ExhaustedPlace, BudgetLeft,
         CanAttempt, ProbeLeadsEpisode, ParkedBehindLeader, MatchingProbe, CooldownElapses

-----------------------------------------------------------------------------
(* The theorems.                                                           *)

(* Nobody has called yet.                                                  *)
LEMMA InvInit == ASSUME Init PROVE IInv
<1>1. TypeOK
  <2>1. 0 \in 0..MaxAttempts /\ Slots \in Nat
    BY AdmissionAssumption
  <2> QED
    BY <2>1 DEF Init, TypeOK, Phases
<1>2. EpisodeShape /\ LeaderPlace /\ WaitersPlace /\ ExhaustedPlace
  BY DEF Init, EpisodeShape, LeaderPlace, WaitersPlace, ExhaustedPlace
<1>3. BudgetLeft /\ ProbeLeadsEpisode /\ ParkedBehindLeader
  BY DEF Init, BudgetLeft, ProbeLeadsEpisode, ParkedBehindLeader
<1> QED
  BY <1>1, <1>2, <1>3 DEF IInv

(* A stuttering step changes nothing.                                      *)
LEMMA InvStutter == ASSUME IInv, UNCHANGED vars PROVE IInv'
  BY DEF vars, IInv, TypeOK, EpisodeShape, LeaderPlace, WaitersPlace, ExhaustedPlace, BudgetLeft,
         CanAttempt, ProbeLeadsEpisode, ParkedBehindLeader, MatchingProbe

(* Every step of the controller, its callers and the clock.                *)
LEMMA InvNext == ASSUME IInv, [Next]_vars PROVE IInv'
<1>1. CASE Clock
  BY <1>1, BackoffElapsesStep, CooldownElapsesStep DEF Clock
<1>2. ASSUME NEW s \in Sessions, Gate(s) PROVE IInv'
  BY <1>2, GateExhaustedStep, GateFreeStep, GateRestartsStep, GateLeadsStep, GateParksStep,
     SleepEndsStep, RateAdmitsStep, SlotAcquiredStep DEF Gate
<1>3. ASSUME NEW s \in Sessions, Outcome(s) PROVE IInv'
  BY <1>3, SucceededStep, RejectedStep, CorrectedStep, FailedStep, FailedFinallyStep,
     AcceptedEndsStep, AttemptClosesStep DEF Outcome
<1>4. ASSUME NEW s \in Sessions, Cancelled(s) PROVE IInv'
  BY <1>4, CancelledInGateStep, CancelledAsleepStep, CancelledWithPermitStep,
     CancelledInAttemptStep, RunnerLostStep DEF Cancelled
<1>5. CASE UNCHANGED vars
  BY <1>5, InvStutter
<1> QED
  BY <1>1, <1>2, <1>3, <1>4, <1>5 DEF Next

(* The invariant holds in every reachable state.                           *)
LEMMA InvCorrect == Spec => []IInv
  BY InvInit, InvNext, PTL DEF Spec

(* Every variable keeps its type; no execution makes more attempts than    *)
(* its budget.                                                             *)
THEOREM TypeCorrect == Spec => []TypeOK
<1>1. IInv => TypeOK
  BY DEF IInv
<1> QED
  BY <1>1, InvCorrect, PTL

(* Whoever holds a probe permit leads the open episode: there is at most   *)
(* one probe, for any number of callers and however they are cancelled.    *)
THEOREM ProbeCorrect == Spec => []ProbeLeadsEpisode
<1>1. IInv => ProbeLeadsEpisode
  BY DEF IInv
<1> QED
  BY <1>1, InvCorrect, PTL

(* No wakeup is lost: a parked caller waits behind another one that leads. *)
THEOREM ParkedCorrect == Spec => []ParkedBehindLeader
<1>1. IInv => ParkedBehindLeader
  BY DEF IInv
<1> QED
  BY <1>1, InvCorrect, PTL

(* A leader that is not a lost runner is on its way to a probe or in one.  *)
THEOREM LeaderCorrect == Spec => []LeaderIsAtWork
<1>1. IInv => LeaderIsAtWork
  BY DEF IInv, LeaderPlace, LeaderIsAtWork
<1> QED
  BY <1>1, InvCorrect, PTL

(* Whoever is parked has a leader, and that leader is at work.             *)
THEOREM LedCorrect == Spec => []WaitersAreLed
<1> QED
  BY ParkedCorrect, LeaderCorrect, PTL DEF WaitersAreLed

-----------------------------------------------------------------------------
(* Action properties.                                                      *)

(* Whoever moves, an open attempt stays open unless it is the one that     *)
(* moves.                                                                  *)
LEMMA OthersStayOpen ==
  ASSUME TypeOK, NEW x \in Sessions, NEW s \in Sessions, s # x, phase[s] = "open",
         Gate(x) \/ Outcome(x) \/ Cancelled(x)
  PROVE  phase'[s] = "open"
<1>1. \E at \in Phases : Move(x, at) \/ NotifyAll(x, at)
  BY DEF Gate, GateExhausted, GateFree, GateRestarts, GateLeads, GateParks, SleepEnds, RateAdmits,
         SlotAcquired, Outcome, Succeeded, Rejected, Corrected, Failed, FailedFinally,
         AcceptedEnds, AttemptCloses, Cancelled, CancelledInGate, CancelledAsleep,
         CancelledWithPermit, CancelledInAttempt, RunnerLost, Probe, AbandonProbe, Vacate,
         AbandonLeadership, Phases
<1> QED
  BY <1>1 DEF TypeOK, Move, NotifyAll

(* The outcome of an attempt that is not the current probe.                *)
LEMMA StaleStep ==
  ASSUME TypeOK, NEW s \in Sessions, phase[s] = "open", episode # 0, permit[s] # episode,
         Gate(s) \/ Outcome(s) \/ Cancelled(s)
  PROVE  UNCHANGED <<episode, leader, probing, due, terminal>>
<1>1. ~MatchingProbe(s)
  BY DEF MatchingProbe
<1> QED
  BY <1>1 DEF Gate, GateExhausted, GateFree, GateRestarts, GateLeads, GateParks, AtGate,
              SleepEnds, RateAdmits, SlotAcquired, Outcome, Succeeded, Rejected, Corrected,
              Failed, FailedFinally, AcceptedEnds, AttemptCloses, Cancelled, CancelledInGate,
              CancelledAsleep, CancelledWithPermit, CancelledInAttempt, RunnerLost, episodeVars

(* An attempt that is not the current probe cannot close, delay or hand    *)
(* over the episode, however late its outcome arrives.                     *)
THEOREM StaleCorrect == Spec => StaleOutcomeIsInert
<1>1. ASSUME IInv, [Next]_vars, NEW s \in Sessions,
             phase[s] = "open", phase'[s] # "open", episode # 0, permit[s] # episode
      PROVE  UNCHANGED <<episode, leader, probing, due, terminal>>
  <2>1. CASE Clock \/ UNCHANGED vars
    BY <1>1, <2>1 DEF Clock, BackoffElapses, CooldownElapses, vars
  <2>2. ASSUME NEW x \in Sessions, Gate(x) \/ Outcome(x) \/ Cancelled(x)
        PROVE  UNCHANGED <<episode, leader, probing, due, terminal>>
    BY <1>1, <2>2, OthersStayOpen, StaleStep DEF IInv
  <2> QED
    BY <1>1, <2>1, <2>2 DEF Next
<1>2. ASSUME IInv, [Next]_vars
      PROVE  [\A s \in Sessions :
                phase[s] = "open" /\ phase'[s] # "open" /\ episode # 0 /\ permit[s] # episode =>
                  UNCHANGED <<episode, leader, probing, due, terminal>>]_vars
  BY <1>1, <1>2
<1> QED
  BY <1>2, InvCorrect, PTL DEF Spec, StaleOutcomeIsInert

(* Only the spent budget of a probe, or of a caller that fails alone,      *)
(* starts a cooldown.                                                      *)
LEMMA CooldownStart ==
  ASSUME NEW x \in Sessions, Gate(x) \/ Outcome(x) \/ Cancelled(x),
         terminal = "no", terminal' = "cooling"
  PROVE  waiters \subseteq exhausted' \/ episode = 0
  BY DEF Gate, GateExhausted, GateFree, GateRestarts, GateLeads, GateParks, SleepEnds, RateAdmits,
         SlotAcquired, Outcome, Succeeded, Rejected, Corrected, Failed, FailedFinally,
         AcceptedEnds, AttemptCloses, Cancelled, CancelledInGate, CancelledAsleep,
         CancelledWithPermit, CancelledInAttempt, RunnerLost, AbandonProbe, Vacate, CloseEpisode,
         episodeVars

(* An execution that failed with the episode makes no further attempt.     *)
LEMMA ExhaustedMakesNoAttempt ==
  ASSUME IInv, NEW x \in Sessions, Gate(x) \/ Outcome(x) \/ Cancelled(x), NEW s \in exhausted
  PROVE  attempts'[s] = attempts[s]
<1>1. s \in Sessions /\ phase[s] # "slot"
  BY DEF IInv, TypeOK, ExhaustedPlace
<1>2. attempts' = attempts \/ (phase[x] = "slot" /\ attempts' = [attempts EXCEPT ![x] = @ + 1])
  BY DEF Gate, GateExhausted, GateFree, GateRestarts, GateLeads, GateParks, SleepEnds, RateAdmits,
         SlotAcquired, Outcome, Succeeded, Rejected, Corrected, Failed, FailedFinally,
         AcceptedEnds, AttemptCloses, Cancelled, CancelledInGate, CancelledAsleep,
         CancelledWithPermit, CancelledInAttempt, RunnerLost
<1> QED
  BY <1>1, <1>2 DEF IInv, TypeOK

(* The callers that wait for an episode fail together with it.             *)
THEOREM CoalescedCorrect == Spec => CoalescedFailTogether
<1>1. ASSUME IInv, [Next]_vars, terminal = "no", terminal' = "cooling",
             NEW s \in Sessions, phase[s] = "parked"
      PROVE  s \in exhausted'
  <2>1. s \in waiters /\ episode # 0
    BY <1>1 DEF IInv, ParkedBehindLeader
  <2>2. CASE Clock \/ UNCHANGED vars
    BY <1>1, <2>2 DEF Clock, BackoffElapses, CooldownElapses, vars
  <2>3. ASSUME NEW x \in Sessions, Gate(x) \/ Outcome(x) \/ Cancelled(x) PROVE s \in exhausted'
    BY <1>1, <2>1, <2>3, CooldownStart
  <2> QED
    BY <1>1, <2>2, <2>3 DEF Next
<1>2. ASSUME IInv, [Next]_vars, NEW s \in exhausted
      PROVE  attempts'[s] = attempts[s]
  <2>1. CASE Clock \/ UNCHANGED vars
    BY <2>1 DEF Clock, BackoffElapses, CooldownElapses, vars
  <2>2. ASSUME NEW x \in Sessions, Gate(x) \/ Outcome(x) \/ Cancelled(x)
        PROVE  attempts'[s] = attempts[s]
    BY <1>2, <2>2, ExhaustedMakesNoAttempt
  <2> QED
    BY <1>2, <2>1, <2>2 DEF Next
<1>3. ASSUME IInv, [Next]_vars
      PROVE  [/\ terminal = "no" /\ terminal' = "cooling" =>
                   \A s \in Sessions : phase[s] = "parked" => s \in exhausted'
              /\ \A s \in exhausted : attempts'[s] = attempts[s]]_vars
  BY <1>1, <1>2, <1>3
<1> QED
  BY <1>3, InvCorrect, PTL DEF Spec, CoalescedFailTogether

-----------------------------------------------------------------------------
(* Concurrency slots.                                                      *)

(* The holders of slots and the runners that are over can be counted.      *)
LEMMA FiniteCounts == IsFiniteSet(Holders) /\ IsFiniteSet(RunnersDone)
  BY AdmissionAssumption, FS_Subset DEF Holders, RunnersDone

(* The effect of moving one caller on who holds a slot and who is over.    *)
LEMMA MoveCounts ==
  ASSUME TypeOK, NEW s \in Sessions, NEW at, Move(s, at) \/ NotifyAll(s, at)
  PROVE  /\ Holders' = IF at \in Holding THEN Holders \cup {s} ELSE Holders \ {s}
         /\ RunnersDone' = IF at = "done" /\ s \in Runners THEN RunnersDone \cup {s}
                           ELSE RunnersDone \ {s}
<1>1. ASSUME NEW x \in Sessions, x # s
      PROVE  (phase'[x] \in Holding <=> phase[x] \in Holding)
             /\ (phase'[x] = "done" <=> phase[x] = "done")
  BY <1>1 DEF TypeOK, Move, NotifyAll, Holding
<1>2. phase'[s] = at
  BY DEF TypeOK, Move, NotifyAll
<1> QED
  BY <1>1, <1>2, AdmissionAssumption DEF Holders, RunnersDone

(* Counting with one caller more or less.                                  *)
LEMMA Counts ==
  ASSUME NEW s \in Sessions
  PROVE  /\ Cardinality(Holders) \in Nat /\ Cardinality(RunnersDone) \in Nat
         /\ s \notin Holders => Cardinality(Holders \cup {s}) = Cardinality(Holders) + 1
         /\ s \in Holders => Cardinality(Holders \ {s}) = Cardinality(Holders) - 1
         /\ s \notin Holders => Holders \ {s} = Holders
         /\ s \notin RunnersDone =>
              Cardinality(RunnersDone \cup {s}) = Cardinality(RunnersDone) + 1
         /\ Cardinality(RunnersDone \cup {s}) \in Nat
         /\ Cardinality(RunnersDone \cup {s}) >= Cardinality(RunnersDone)
<1>1. Cardinality(Holders) \in Nat /\ Cardinality(RunnersDone) \in Nat
  BY FiniteCounts, FS_CardinalityType
<1>2. /\ Cardinality(Holders \cup {s}) = IF s \in Holders THEN Cardinality(Holders)
                                        ELSE Cardinality(Holders) + 1
      /\ Cardinality(RunnersDone \cup {s}) = IF s \in RunnersDone THEN Cardinality(RunnersDone)
                                            ELSE Cardinality(RunnersDone) + 1
  BY FiniteCounts, FS_AddElement
<1>3. Cardinality(Holders \ {s}) = IF s \in Holders THEN Cardinality(Holders) - 1
                                   ELSE Cardinality(Holders)
  BY FiniteCounts, FS_RemoveElement
<1> QED
  BY <1>1, <1>2, <1>3

(* A step that leaves the slots and its caller's claim to one alone.       *)
LEMMA SlotsUntouched ==
  ASSUME TypeOK, SlotsAccounted, NEW s \in Sessions, NEW at, Move(s, at) \/ NotifyAll(s, at),
         phase[s] # "done", phase[s] \in Holding <=> at \in Holding, slots' = slots
  PROVE  SlotsAccounted'
<1>1. Holders' = Holders
  BY MoveCounts DEF Holders
<1>2. RunnersDone' = RunnersDone \cup {s} \/ RunnersDone' = RunnersDone
  BY MoveCounts DEF RunnersDone
<1>3. Cardinality(RunnersDone') >= Cardinality(RunnersDone)
  <2>1. CASE RunnersDone' = RunnersDone \cup {s}
    BY <2>1, Counts
  <2>2. CASE RunnersDone' = RunnersDone
    <3>1. Cardinality(RunnersDone') = Cardinality(RunnersDone) /\ Cardinality(RunnersDone) \in Nat
      BY <2>2, Counts
    <3> QED
      BY <3>1
  <2> QED
    BY <1>2, <2>1, <2>2
<1>4. Cardinality(Holders') = Cardinality(Holders)
  BY <1>1
<1>5. /\ Cardinality(Holders) \in Nat /\ Cardinality(RunnersDone) \in Nat
      /\ Cardinality(RunnersDone') \in Nat /\ slots \in Nat /\ Slots \in Nat
  BY <1>2, Counts, AdmissionAssumption DEF TypeOK
<1> QED
  BY <1>3, <1>4, <1>5 DEF SlotsAccounted

(* A slot is taken with the attempt that it is for.                        *)
LEMMA SlotTaken ==
  ASSUME TypeOK, SlotsAccounted, NEW s \in Sessions, Move(s, "open"), phase[s] = "slot",
         slots > 0, slots' = slots - 1
  PROVE  SlotsAccounted'
<1>1. Holders' = Holders \cup {s} /\ s \notin Holders
  BY MoveCounts DEF Holders, Holding
<1>2. RunnersDone' = RunnersDone
  BY MoveCounts DEF RunnersDone
<1>3. Cardinality(Holders') = Cardinality(Holders) + 1
  BY <1>1, Counts
<1>4. Cardinality(RunnersDone') = Cardinality(RunnersDone)
  BY <1>2
<1>5. /\ Cardinality(Holders) \in Nat /\ Cardinality(RunnersDone) \in Nat
      /\ slots \in Nat /\ Slots \in Nat
  BY Counts, AdmissionAssumption DEF TypeOK
<1> QED
  BY <1>3, <1>4, <1>5 DEF SlotsAccounted

(* It is given back by the attempt that held it.                           *)
LEMMA SlotGivenBack ==
  ASSUME TypeOK, SlotsAccounted, NEW s \in Sessions, NEW at \in {"between", "done"},
         Move(s, at) \/ NotifyAll(s, at), phase[s] \in Holding, slots' = slots + 1
  PROVE  SlotsAccounted'
<1>1. Holders' = Holders \ {s} /\ s \in Holders
  BY MoveCounts DEF Holders, Holding
<1>2. RunnersDone' = RunnersDone \cup {s} \/ RunnersDone' = RunnersDone
  BY MoveCounts DEF RunnersDone, Holding
<1>3. Cardinality(RunnersDone') >= Cardinality(RunnersDone)
  <2>1. CASE RunnersDone' = RunnersDone \cup {s}
    BY <2>1, Counts
  <2>2. CASE RunnersDone' = RunnersDone
    <3>1. Cardinality(RunnersDone') = Cardinality(RunnersDone) /\ Cardinality(RunnersDone) \in Nat
      BY <2>2, Counts
    <3> QED
      BY <3>1
  <2> QED
    BY <1>2, <2>1, <2>2
<1>4. Cardinality(Holders') = Cardinality(Holders) - 1
  BY <1>1, Counts
<1>5. /\ Cardinality(Holders) \in Nat /\ Cardinality(RunnersDone) \in Nat
      /\ Cardinality(RunnersDone') \in Nat /\ slots \in Nat /\ Slots \in Nat
  BY <1>2, Counts, AdmissionAssumption DEF TypeOK
<1> QED
  BY <1>3, <1>4, <1>5 DEF SlotsAccounted

(* Only a runner loses one.                                                *)
LEMMA SlotLost ==
  ASSUME TypeOK, SlotsAccounted, NEW s \in Sessions, RunnerLost(s)
  PROVE  SlotsAccounted'
<1>1. Move(s, "done") /\ s \in Runners /\ phase[s] # "done" /\ slots' = slots
  BY DEF RunnerLost
<1>2. Holders' = Holders \ {s}
  BY <1>1, MoveCounts DEF Holding
<1>3. RunnersDone' = RunnersDone \cup {s} /\ s \notin RunnersDone
  BY <1>1, MoveCounts DEF RunnersDone
<1>4. Cardinality(Holders') \in {Cardinality(Holders), Cardinality(Holders) - 1}
  BY <1>2, Counts
<1>5. Cardinality(RunnersDone') = Cardinality(RunnersDone) + 1
  BY <1>3, Counts
<1>6. /\ Cardinality(Holders) \in Nat /\ Cardinality(RunnersDone) \in Nat
      /\ slots \in Nat /\ Slots \in Nat
  BY Counts, AdmissionAssumption DEF TypeOK
<1> QED
  BY <1>1, <1>4, <1>5, <1>6 DEF SlotsAccounted

(* The steps of the gate.                                                  *)
LEMMA SlotsGate ==
  ASSUME TypeOK, SlotsAccounted, NEW s \in Sessions, Gate(s)
  PROVE  SlotsAccounted'
<1>1. CASE SlotAcquired(s) /\ PermitIsCurrent(s)
  BY <1>1, SlotTaken DEF SlotAcquired
<1>2. CASE ~(SlotAcquired(s) /\ PermitIsCurrent(s))
  <2>1. slots' = slots /\ phase[s] # "done" /\ phase[s] \notin Holding
    BY <1>2 DEF Gate, GateExhausted, GateFree, GateRestarts, GateLeads, GateParks, AtGate,
                SleepEnds, RateAdmits, SlotAcquired, Holding
  <2>2. \E at \in Phases \ Holding : Move(s, at) \/ NotifyAll(s, at)
    BY <1>2 DEF Gate, GateExhausted, GateFree, GateRestarts, GateLeads, GateParks, SleepEnds,
                RateAdmits, SlotAcquired, Probe, AbandonProbe, Vacate, Phases, Holding
  <2> QED
    BY <2>1, <2>2, SlotsUntouched
<1> QED
  BY <1>1, <1>2

(* The outcomes of an attempt.                                             *)
LEMMA SlotsOutcome ==
  ASSUME TypeOK, SlotsAccounted, NEW s \in Sessions, Outcome(s)
  PROVE  SlotsAccounted'
<1>1. CASE AttemptCloses(s)
  <2>1. \E at \in {"between", "done"} : Move(s, at) \/ NotifyAll(s, at)
    BY <1>1 DEF AttemptCloses, AbandonProbe, Vacate
  <2> QED
    BY <1>1, <2>1, SlotGivenBack DEF AttemptCloses, Holding
<1>2. CASE ~AttemptCloses(s)
  <2>1. slots' = slots /\ phase[s] \in {"open", "accepted"}
    BY <1>2 DEF Outcome, Succeeded, Rejected, Corrected, Failed, FailedFinally, AcceptedEnds
  <2>2. \E at \in Holding : Move(s, at) \/ NotifyAll(s, at)
    BY <1>2 DEF Outcome, Succeeded, Rejected, Corrected, Failed, FailedFinally, AcceptedEnds,
                Holding
  <2> QED
    BY <2>1, <2>2, SlotsUntouched DEF Holding
<1> QED
  BY <1>1, <1>2

(* Cancellations.                                                          *)
LEMMA SlotsCancelled ==
  ASSUME TypeOK, SlotsAccounted, NEW s \in Sessions, Cancelled(s)
  PROVE  SlotsAccounted'
<1>1. CASE CancelledInAttempt(s)
  BY <1>1, SlotsUntouched DEF CancelledInAttempt, Holding
<1>2. CASE CancelledInGate(s) \/ CancelledAsleep(s) \/ CancelledWithPermit(s)
  <2>1. slots' = slots /\ phase[s] # "done" /\ phase[s] \notin Holding
    BY <1>2 DEF CancelledInGate, CancelledAsleep, CancelledWithPermit, Holding
  <2>2. Move(s, "done") \/ NotifyAll(s, "done")
    BY <1>2 DEF CancelledInGate, CancelledAsleep, CancelledWithPermit, AbandonLeadership,
                AbandonProbe, Vacate
  <2> QED
    BY <2>1, <2>2, SlotsUntouched DEF Holding
<1> QED
  BY <1>1, <1>2, SlotLost DEF Cancelled

(* Initially every slot is free.                                           *)
LEMMA SlotsInit == Init => SlotsAccounted
<1>1. ASSUME Init PROVE Holders = {} /\ RunnersDone = {}
  BY <1>1, AdmissionAssumption DEF Init, Holders, Holding, RunnersDone
<1>2. ASSUME Init PROVE slots = Slots /\ Cardinality(Holders) = 0 /\ Cardinality(RunnersDone) = 0
  BY <1>1, <1>2, FS_EmptySet DEF Init
<1> QED
  BY <1>2, AdmissionAssumption DEF SlotsAccounted

(* No slot is given back twice, so at most Slots attempts are under way;   *)
(* and only a stream runner ever loses one.                                *)
THEOREM SlotsCorrect == Spec => []SlotsAccounted
<1>1. ASSUME TypeOK, SlotsAccounted, [Next]_vars PROVE SlotsAccounted'
  <2>1. CASE Clock \/ UNCHANGED vars
    BY <1>1, <2>1 DEF Clock, BackoffElapses, CooldownElapses, vars, SlotsAccounted, Holders,
                      RunnersDone
  <2>2. ASSUME NEW s \in Sessions, Gate(s) \/ Outcome(s) \/ Cancelled(s) PROVE SlotsAccounted'
    BY <1>1, <2>2, SlotsGate, SlotsOutcome, SlotsCancelled
  <2> QED
    BY <1>1, <2>1, <2>2 DEF Next
<1> QED
  BY <1>1, SlotsInit, TypeCorrect, PTL DEF Spec

-----------------------------------------------------------------------------
(* The model catalog.                                                      *)

(* What a discovery has been told.                                         *)
JobRecord == [at : {"idle", "warming", "created", "waiting", "asking"},
              asked : SUBSET Providers, connected : BOOLEAN, revision : 0 .. MaxRevision]

(* The statuses of the account that were read are not ahead of it.         *)
StatusIsPast == seen <= revision /\ \A j \in Catalog!Jobs : job[j].revision <= revision

(* A manager that is closed has no call at work under its lock.            *)
ClosedIsUnlocked == shut => holder = "none"

(* The inductive invariant.                                                *)
CatalogIInv == Catalog!TypeOK /\ StatusIsPast /\ ClosedIsUnlocked /\ Catalog!CatalogIsUsable

-----------------------------------------------------------------------------
(* The constants.                                                          *)

(* A job that has been told what to ask, and one that is idle.             *)
LEMMA JobTypes ==
  /\ Catalog!NoJob \in JobRecord /\ Catalog!NoJob.at = "idle" /\ Catalog!NoJob.revision = 0
         /\ \A at \in {"warming", "created", "asking"}, P \in SUBSET Providers :
              Catalog!Job(at, P) \in JobRecord /\ Catalog!Job(at, P).revision = 0
<1>1. 0 \in 0 .. MaxRevision
  BY CatalogAssumption
<1> QED
  BY <1>1 DEF Catalog!NoJob, Catalog!Job, JobRecord

(* A change of one job keeps the jobs' types and the order of statuses.    *)
LEMMA JobChange ==
  ASSUME Catalog!TypeOK, StatusIsPast, NEW j \in Catalog!Jobs, NEW told \in JobRecord,
         told.revision <= revision,
         job' = [job EXCEPT ![j] = told]
  PROVE  job' \in [Catalog!Jobs -> JobRecord]
         /\ \A k \in Catalog!Jobs : job'[k].revision <= revision
  BY DEF Catalog!TypeOK, StatusIsPast, JobRecord

(* Cancelling the background discovery does too.                           *)
LEMMA Cancelling ==
  ASSUME Catalog!TypeOK, StatusIsPast, job' = Catalog!CancelBackground
  PROVE  job' \in [Catalog!Jobs -> JobRecord]
         /\ \A k \in Catalog!Jobs : job'[k].revision <= revision
<1>1. job["background"] \in JobRecord /\ job["background"].revision <= revision
      /\ "background" \in Catalog!Jobs
  BY DEF Catalog!TypeOK, StatusIsPast, JobRecord, Catalog!Jobs
<1>2. Catalog!NoJob \in JobRecord /\ Catalog!NoJob.revision <= revision
  BY JobTypes DEF Catalog!TypeOK
<1> QED
  BY <1>1, <1>2, JobChange DEF Catalog!CancelBackground

(* Usable providers are providers.                                         *)
LEMMA Usable ==
  ASSUME NEW S \in SUBSET Providers
  PROVE  Catalog!UsableUnder(S) \subseteq Providers
  BY CatalogAssumption DEF Catalog!UsableUnder

(* A publication leaves in cache and catalog what the settings and the     *)
(* account allow, or marks the catalog as behind.                          *)
LEMMA Publishing ==
  ASSUME Catalog!TypeOK, NEW S \in SUBSET Providers, NEW C, Catalog!Publish(S, C),
         UNCHANGED connected
  PROVE  /\ available' \subseteq Providers /\ cache' \subseteq Providers
         /\ catalog' \in {Missing} \cup SUBSET Providers
         /\ behind' \in BOOLEAN
         /\ ~behind' => catalog' \subseteq Catalog!UsableUnder(S)
  BY Usable DEF Catalog!Publish, Catalog!TypeOK

-----------------------------------------------------------------------------
(* The initial states.                                                     *)
LEMMA CatalogInitially ==
  ASSUME Catalog!Init
  PROVE  CatalogIInv
<1>1. job \in [Catalog!Jobs -> JobRecord] /\ \A j \in Catalog!Jobs : job[j].revision = 0
  BY JobTypes DEF Catalog!Init
<1>2. Catalog!TypeOK
  <2>1. configured \in SUBSET Providers /\ 0 \in 0 .. MaxRevision
    BY CatalogAssumption DEF Catalog!Init
  <2>2. available \subseteq Providers
    BY <2>1, Usable DEF Catalog!Init, Catalog!UsableUnder
  <2>3. /\ configured \subseteq Providers \ {Account} /\ connected \in BOOLEAN
        /\ revision = 0 /\ seen = 0 /\ cache = {} /\ behind = FALSE /\ shut = FALSE
        /\ catalog \in {Missing} \cup SUBSET Providers
        /\ holder = "none"
    BY DEF Catalog!Init
  <2> QED
    BY <1>1, <2>1, <2>2, <2>3 DEF Catalog!TypeOK, JobRecord
<1>3. StatusIsPast /\ ClosedIsUnlocked
  BY <1>1 DEF Catalog!Init, StatusIsPast, ClosedIsUnlocked
<1> QED
  BY <1>2, <1>3 DEF Catalog!Init, CatalogIInv, Catalog!CatalogIsUsable

(* Steps of one discovery that leave account, cache and catalog alone.     *)
LEMMA QuietStep ==
  ASSUME CatalogIInv, UNCHANGED <<configured, Catalog!account, seen, catalog, behind, shut>>,
         job' \in [Catalog!Jobs -> JobRecord],
         \A j \in Catalog!Jobs : job'[j].revision <= revision,
         available' \subseteq Providers, cache' \subseteq Providers,
         holder' \in {"none", "replace", "explicit"}, shut => holder' = "none",
         shut => \A j \in Catalog!Jobs : job[j].at = "idle" => job'[j].at = "idle"
  PROVE  CatalogIInv'
<1>1. Catalog!TypeOK' /\ StatusIsPast' /\ ClosedIsUnlocked'
  BY DEF CatalogIInv, Catalog!TypeOK, StatusIsPast, ClosedIsUnlocked, JobRecord, Catalog!account
<1>2. Catalog!CatalogIsUsable'
  BY DEF CatalogIInv, Catalog!CatalogIsUsable, Catalog!UsableUnder, Catalog!account
<1> QED
  BY <1>1, <1>2 DEF CatalogIInv

(* Steps that publish the catalog under the settings from then on.         *)
LEMMA PublishingStep ==
  ASSUME CatalogIInv, NEW C, Catalog!Publish(configured', C), UNCHANGED <<Catalog!account, shut>>,
         configured' \subseteq Providers \ {Account}, ~shut,
         seen' \in 0 .. MaxRevision, seen' <= revision,
         job' \in [Catalog!Jobs -> JobRecord],
         \A j \in Catalog!Jobs : job'[j].revision <= revision,
         holder' \in {"none", "replace", "explicit"}
  PROVE  CatalogIInv'
<1>1. configured' \in SUBSET Providers
  OBVIOUS
<1>2. /\ available' \subseteq Providers /\ cache' \subseteq Providers
      /\ catalog' \in {Missing} \cup SUBSET Providers
      /\ behind' \in BOOLEAN
      /\ ~behind' => catalog' \subseteq Catalog!UsableUnder(configured')
  BY <1>1, Publishing DEF CatalogIInv, Catalog!account
<1>3. Catalog!TypeOK' /\ StatusIsPast' /\ ClosedIsUnlocked'
  BY <1>2 DEF CatalogIInv, Catalog!TypeOK, StatusIsPast, ClosedIsUnlocked, JobRecord,
              Catalog!account
<1>4. Catalog!CatalogIsUsable'
  BY <1>2 DEF Catalog!CatalogIsUsable, Catalog!UsableUnder, Catalog!account
<1> QED
  BY <1>3, <1>4 DEF CatalogIInv

-----------------------------------------------------------------------------
(* One lemma for each group of actions.                                    *)

(* The warming up at the start.                                            *)
LEMMA WarmKeeps ==
  ASSUME CatalogIInv, Catalog!Warm
  PROVE  CatalogIInv'
<1>1. "background" \in Catalog!Jobs /\ configured \in SUBSET Providers /\ revision \in Nat
      /\ ~shut
  BY DEF Catalog!Warm, CatalogIInv, Catalog!TypeOK, Catalog!Jobs, Catalog!CatalogIsUsable
<1>2. Catalog!Job("created", configured) \in JobRecord
      /\ Catalog!Job("created", configured).revision <= revision
  BY <1>1, JobTypes
<1>3. job' \in [Catalog!Jobs -> JobRecord] /\ \A k \in Catalog!Jobs : job'[k].revision <= revision
  BY <1>1, <1>2, JobChange DEF Catalog!Warm, CatalogIInv
<1>4. PICK P \in SUBSET job["background"].asked :
        IF catalog = Missing
        THEN Catalog!Publish(configured, Catalog!Cached(P))
        ELSE cache' = Catalog!Cached(P) /\ UNCHANGED <<available, catalog, behind>>
  BY DEF Catalog!Warm
<1>5. CASE catalog = Missing
  <2>1. Catalog!Publish(configured', Catalog!Cached(P))
    BY <1>4, <1>5 DEF Catalog!Warm
  <2> QED
    BY <1>1, <1>3, <2>1, PublishingStep DEF Catalog!Warm, CatalogIInv, Catalog!TypeOK,
                                            StatusIsPast
<1>6. CASE catalog # Missing
  <2>1. cache' \subseteq Providers /\ available' \subseteq Providers
    BY <1>4, <1>6 DEF Catalog!Cached, CatalogIInv, Catalog!TypeOK
  <2> QED
    BY <1>1, <1>3, <1>4, <1>6, <2>1, QuietStep
       DEF Catalog!Warm, CatalogIInv, Catalog!TypeOK, Catalog!account
<1> QED
  BY <1>5, <1>6

(* The answers of a discovery, or its end without them.                    *)
LEMMA AnswerKeeps ==
  ASSUME CatalogIInv, NEW j \in Catalog!Jobs, Catalog!Answer(j)
  PROVE  CatalogIInv'
<1>1. Catalog!NoJob \in JobRecord /\ Catalog!NoJob.revision <= revision /\ ~shut
  BY JobTypes DEF Catalog!Answer, CatalogIInv, Catalog!TypeOK, Catalog!CatalogIsUsable
<1>2. job' \in [Catalog!Jobs -> JobRecord] /\ \A k \in Catalog!Jobs : job'[k].revision <= revision
  BY <1>1, JobChange DEF Catalog!Answer, CatalogIInv
<1>3. seen' \in 0 .. MaxRevision /\ seen' <= revision
  BY DEF Catalog!Answer, CatalogIInv, Catalog!TypeOK, StatusIsPast
<1>4. PICK P \in SUBSET job[j].asked : Catalog!Publish(configured', Catalog!Cached(P))
  BY DEF Catalog!Answer
<1> QED
  BY <1>1, <1>2, <1>3, <1>4, PublishingStep DEF Catalog!Answer, CatalogIInv, Catalog!TypeOK

LEMMA AskingEndsKeeps ==
  ASSUME CatalogIInv, NEW j \in Catalog!Jobs, Catalog!AskingEnds(j)
  PROVE  CatalogIInv'
<1>1. Catalog!NoJob \in JobRecord /\ Catalog!NoJob.revision <= revision
      /\ Catalog!NoJob.at = "idle"
  BY JobTypes DEF CatalogIInv, Catalog!TypeOK
<1>2. job' \in [Catalog!Jobs -> JobRecord] /\ \A k \in Catalog!Jobs : job'[k].revision <= revision
  BY <1>1, JobChange DEF Catalog!AskingEnds, CatalogIInv
<1> QED
  BY <1>1, <1>2, QuietStep DEF Catalog!AskingEnds, CatalogIInv, Catalog!TypeOK, ClosedIsUnlocked

(* The beginnings of a discovery.                                          *)
LEMMA BackgroundStartsKeeps ==
  ASSUME CatalogIInv, Catalog!BackgroundStarts
  PROVE  CatalogIInv'
<1>1. /\ "background" \in Catalog!Jobs /\ job["background"].asked \in SUBSET Providers
      /\ revision \in Nat /\ ~shut
  BY DEF Catalog!BackgroundStarts, CatalogIInv, Catalog!TypeOK, Catalog!Jobs,
         Catalog!CatalogIsUsable
<1>2. PICK P \in Catalog!ListedBy(job["background"].asked) :
        job' = [job EXCEPT !["background"] = Catalog!Job("asking", P)]
  BY DEF Catalog!BackgroundStarts
<1>3. P \in SUBSET Providers
  BY <1>1, Usable DEF Catalog!ListedBy
<1>4. Catalog!Job("asking", P) \in JobRecord /\ Catalog!Job("asking", P).revision <= revision
  BY <1>1, <1>3, JobTypes
<1>5. job' \in [Catalog!Jobs -> JobRecord] /\ \A k \in Catalog!Jobs : job'[k].revision <= revision
  BY <1>1, <1>2, <1>4, JobChange DEF CatalogIInv
<1> QED
  BY <1>1, <1>5, QuietStep DEF Catalog!BackgroundStarts, CatalogIInv, Catalog!TypeOK

LEMMA ExplicitKeeps ==
  ASSUME CatalogIInv,
         Catalog!ExplicitBegins \/ Catalog!ReplaceBegins
         \/ Catalog!ExplicitAsks \/ Catalog!ReplaceFails
  PROVE  CatalogIInv'
<1>1. CASE Catalog!ExplicitBegins \/ Catalog!ReplaceBegins
  <2>1. job' \in [Catalog!Jobs -> JobRecord]
        /\ \A k \in Catalog!Jobs : job'[k].revision <= revision
    BY <1>1, Cancelling DEF Catalog!ExplicitBegins, Catalog!ReplaceBegins, CatalogIInv
  <2> QED
    BY <1>1, <2>1, QuietStep DEF Catalog!ExplicitBegins, Catalog!ReplaceBegins, CatalogIInv,
                                 Catalog!TypeOK
<1>2. CASE Catalog!ReplaceFails
  BY <1>2, QuietStep DEF Catalog!ReplaceFails, CatalogIInv, Catalog!TypeOK, StatusIsPast,
                         JobRecord
<1>3. CASE Catalog!ExplicitAsks
  <2>1. ~shut /\ "request" \in Catalog!Jobs /\ configured \in SUBSET Providers /\ revision \in Nat
    BY <1>3 DEF Catalog!ExplicitAsks, CatalogIInv, Catalog!TypeOK, ClosedIsUnlocked, Catalog!Jobs
  <2>2. job' \in [Catalog!Jobs -> JobRecord]
        /\ \A k \in Catalog!Jobs : job'[k].revision <= revision
    <3>1. CASE UNCHANGED job
      BY <3>1 DEF CatalogIInv, Catalog!TypeOK, StatusIsPast, JobRecord
    <3>2. CASE \E P \in Catalog!ListedBy(configured) :
            job' = [job EXCEPT !["request"] = Catalog!Job("asking", P)]
      <4>1. PICK P \in Catalog!ListedBy(configured) :
              job' = [job EXCEPT !["request"] = Catalog!Job("asking", P)]
        BY <3>2
      <4>2. P \in SUBSET Providers
        BY <2>1, Usable DEF Catalog!ListedBy
      <4>3. Catalog!Job("asking", P) \in JobRecord
            /\ Catalog!Job("asking", P).revision <= revision
        BY <2>1, <4>2, JobTypes
      <4> QED
        BY <2>1, <4>1, <4>3, JobChange DEF CatalogIInv
    <3> QED
      BY <1>3, <3>1, <3>2 DEF Catalog!ExplicitAsks
  <2> QED
    BY <1>3, <2>1, <2>2, QuietStep DEF Catalog!ExplicitAsks, CatalogIInv, Catalog!TypeOK
<1> QED
  BY <1>1, <1>2, <1>3

LEMMA TestBeginsKeeps ==
  ASSUME CatalogIInv, Catalog!TestBegins
  PROVE  CatalogIInv'
<1>1. "request" \in Catalog!Jobs /\ revision \in Nat
  BY DEF CatalogIInv, Catalog!TypeOK, Catalog!Jobs
<1>2. PICK q \in Providers : job' = [job EXCEPT !["request"] = Catalog!Job("asking", {q})]
  BY DEF Catalog!TestBegins
<1>3. Catalog!Job("asking", {q}) \in JobRecord /\ Catalog!Job("asking", {q}).revision <= revision
  BY <1>1, JobTypes
<1>4. job' \in [Catalog!Jobs -> JobRecord] /\ \A k \in Catalog!Jobs : job'[k].revision <= revision
  BY <1>1, <1>2, <1>3, JobChange DEF CatalogIInv
<1> QED
  BY <1>4, QuietStep DEF Catalog!TestBegins, CatalogIInv, Catalog!TypeOK

(* A list of the models for a client.                                      *)
LEMMA ListModelsKeeps ==
  ASSUME CatalogIInv, Catalog!ListModels
  PROVE  CatalogIInv'
<1>1. available' \subseteq Providers /\ cache' \subseteq Providers
  BY Usable DEF Catalog!ListModels, CatalogIInv, Catalog!TypeOK
<1>2. job' \in [Catalog!Jobs -> JobRecord] /\ \A k \in Catalog!Jobs : job'[k].revision <= revision
  BY DEF Catalog!ListModels, CatalogIInv, Catalog!TypeOK, StatusIsPast, JobRecord
<1> QED
  BY <1>1, <1>2, QuietStep DEF Catalog!ListModels, CatalogIInv, Catalog!TypeOK, ClosedIsUnlocked

(* A replacement publishes under its own settings.                         *)
LEMMA ReplacePublishesKeeps ==
  ASSUME CatalogIInv, Catalog!ReplacePublishes
  PROVE  CatalogIInv'
<1>1. "background" \in Catalog!Jobs /\ configured' \in SUBSET Providers /\ revision \in Nat
      /\ ~shut
  BY DEF Catalog!ReplacePublishes, CatalogIInv, Catalog!TypeOK, Catalog!Jobs, ClosedIsUnlocked
<1>2. Catalog!Job("created", configured') \in JobRecord
      /\ Catalog!Job("created", configured').revision <= revision
  BY <1>1, JobTypes
<1>3. job' \in [Catalog!Jobs -> JobRecord] /\ \A k \in Catalog!Jobs : job'[k].revision <= revision
  BY <1>1, <1>2, JobChange DEF Catalog!ReplacePublishes, CatalogIInv
<1> QED
  BY <1>1, <1>3, PublishingStep
     DEF Catalog!ReplacePublishes, CatalogIInv, Catalog!TypeOK, StatusIsPast

(* Changes of the account, and the calls that follow them up.              *)
LEMMA AccountChangesKeeps ==
  ASSUME CatalogIInv, Catalog!AccountChanges
  PROVE  CatalogIInv'
<1>1. Catalog!TypeOK' /\ StatusIsPast' /\ ClosedIsUnlocked'
  BY CatalogAssumption DEF Catalog!AccountChanges, CatalogIInv, Catalog!TypeOK, StatusIsPast,
                           ClosedIsUnlocked
<1>2. Catalog!CatalogIsUsable'
  BY DEF Catalog!AccountChanges, CatalogIInv, Catalog!TypeOK, StatusIsPast,
         Catalog!CatalogIsUsable
<1> QED
  BY <1>1, <1>2 DEF CatalogIInv

LEMMA SyncBeginsKeeps ==
  ASSUME CatalogIInv, NEW s \in Syncs, Catalog!SyncBegins(s)
  PROVE  CatalogIInv'
<1> DEFINE told == [at |-> "waiting", asked |-> {}, connected |-> connected',
    revision |-> revision']
<1>1. s \in Catalog!Jobs /\ ~shut /\ ~shut'
  BY DEF Catalog!Jobs, Catalog!SyncBegins
<1>2. /\ revision' \in 0 .. MaxRevision /\ connected' \in BOOLEAN /\ revision <= revision'
      /\ (revision' = revision /\ connected' = connected) \/ seen < revision'
  <2>1. revision \in 0 .. MaxRevision /\ seen \in 0 .. MaxRevision /\ seen <= revision
        /\ MaxRevision \in Nat
        /\ connected \in BOOLEAN
    BY CatalogAssumption DEF CatalogIInv, Catalog!TypeOK, StatusIsPast
  <2>2. CASE UNCHANGED Catalog!account
    BY <2>1, <2>2 DEF Catalog!account
  <2>3. CASE revision < MaxRevision /\ revision' = revision + 1 /\ connected' = FALSE
    <3> HIDE DEF told
    <3>1. revision' \in 0 .. MaxRevision /\ revision <= revision' /\ seen < revision'
      BY <2>1, <2>3
    <3>2. connected' \in BOOLEAN
      BY <2>3
    <3> QED
      BY <3>1, <3>2
  <2> QED
    BY <2>2, <2>3 DEF Catalog!SyncBegins
<1>3. told \in JobRecord /\ told.revision = revision'
  BY <1>2 DEF JobRecord
<1>4. job' = [job EXCEPT ![s] = told]
  BY DEF Catalog!SyncBegins
<1>5. job' \in [Catalog!Jobs -> JobRecord]
      /\ \A k \in Catalog!Jobs : job'[k].revision <= revision'
  <2> HIDE DEF told
  <2>1. job' \in [Catalog!Jobs -> JobRecord]
    BY <1>1, <1>3, <1>4 DEF CatalogIInv, Catalog!TypeOK, JobRecord
  <2>2. ASSUME NEW k \in Catalog!Jobs PROVE job'[k].revision <= revision'
    <3>1. job[k].revision \in Nat /\ job[k].revision <= revision /\ revision \in Nat
          /\ revision' \in Nat
      BY <1>2 DEF CatalogIInv, Catalog!TypeOK, StatusIsPast
    <3>2. job'[k] = IF k = s THEN told ELSE job[k]
      BY <1>1, <1>4 DEF CatalogIInv, Catalog!TypeOK
    <3> QED
      BY <1>2, <1>3, <3>1, <3>2
  <2> QED
    BY <2>1, <2>2
<1>6. Catalog!TypeOK' /\ StatusIsPast' /\ ClosedIsUnlocked'
  <2> HIDE DEF told
  <2> QED
    BY <1>1, <1>2, <1>5 DEF Catalog!SyncBegins, CatalogIInv, Catalog!TypeOK, StatusIsPast,
                            ClosedIsUnlocked, JobRecord
<1>7. Catalog!CatalogIsUsable'
  <2> HIDE DEF told
  <2>1. Catalog!UsableUnder(configured)' = Catalog!UsableUnder(configured) \/ seen' # revision'
    BY <1>2 DEF Catalog!SyncBegins, Catalog!UsableUnder, CatalogIInv, Catalog!TypeOK
  <2> QED
    BY <1>1, <1>2, <2>1 DEF Catalog!SyncBegins, CatalogIInv, Catalog!TypeOK,
                            Catalog!CatalogIsUsable, Catalog!UsableUnder
<1> QED
  BY <1>6, <1>7 DEF CatalogIInv

LEMMA RemoveAccountKeeps ==
  ASSUME CatalogIInv, NEW s \in Syncs, Catalog!RemoveAccount(s)
  PROVE  CatalogIInv'
<1>1. Catalog!NoJob \in JobRecord /\ Catalog!NoJob.revision <= revision /\ s \in Catalog!Jobs
      /\ ~shut
  <2>1. Catalog!NoJob \in JobRecord /\ Catalog!NoJob.revision <= revision
    BY JobTypes DEF CatalogIInv, Catalog!TypeOK
  <2>2. s \in Catalog!Jobs /\ job[s].at = "waiting"
    BY DEF Catalog!RemoveAccount, Catalog!Jobs
  <2> QED
    BY <2>1, <2>2 DEF CatalogIInv, Catalog!CatalogIsUsable
<1>2. job' \in [Catalog!Jobs -> JobRecord] /\ \A k \in Catalog!Jobs : job'[k].revision <= revision
  BY <1>1, JobChange DEF Catalog!RemoveAccount, CatalogIInv
<1>3. seen' \in 0 .. MaxRevision /\ seen' <= revision
  BY <1>1 DEF Catalog!RemoveAccount, CatalogIInv, Catalog!TypeOK, StatusIsPast
<1>4. Catalog!Publish(configured', cache \ {Account})
  BY DEF Catalog!RemoveAccount
<1> QED
  BY <1>1, <1>2, <1>3, <1>4, PublishingStep DEF Catalog!RemoveAccount, CatalogIInv, Catalog!TypeOK

LEMMA AddAccountKeeps ==
  ASSUME CatalogIInv, NEW s \in Syncs, Catalog!AddAccount(s)
  PROVE  CatalogIInv'
<1> DEFINE told == [job[s] EXCEPT !.at = "asking", !.asked = {Account}]
<1>1. s \in Catalog!Jobs /\ ~shut
  BY DEF Catalog!AddAccount, CatalogIInv, Catalog!CatalogIsUsable, Catalog!Jobs
<1>2. job[s] \in JobRecord /\ job[s].revision <= revision
  BY <1>1 DEF CatalogIInv, Catalog!TypeOK, StatusIsPast, JobRecord
<1>3. told \in JobRecord /\ told.revision <= revision
  BY CatalogAssumption, <1>2 DEF JobRecord
<1>4. job' = [job EXCEPT ![s] = told]
  BY <1>1 DEF Catalog!AddAccount, CatalogIInv, Catalog!TypeOK
<1>5. job' \in [Catalog!Jobs -> JobRecord] /\ \A k \in Catalog!Jobs : job'[k].revision <= revision
  <2> HIDE DEF told
  <2> QED
    BY <1>1, <1>3, <1>4, JobChange DEF CatalogIInv
<1> HIDE DEF told
<1>6. available' \subseteq Providers
  BY CatalogAssumption DEF Catalog!AddAccount, CatalogIInv, Catalog!TypeOK
<1> QED
  BY <1>1, <1>5, <1>6, QuietStep DEF Catalog!AddAccount, CatalogIInv, Catalog!TypeOK

LEMMA SyncFailsKeeps ==
  ASSUME CatalogIInv, NEW s \in Syncs, Catalog!SyncFails(s)
  PROVE  CatalogIInv'
<1>1. Catalog!NoJob \in JobRecord /\ Catalog!NoJob.revision <= revision
      /\ Catalog!NoJob.at = "idle" /\ s \in Catalog!Jobs
  BY JobTypes DEF CatalogIInv, Catalog!TypeOK, Catalog!Jobs
<1>2. job' \in [Catalog!Jobs -> JobRecord] /\ \A k \in Catalog!Jobs : job'[k].revision <= revision
  BY <1>1, JobChange DEF Catalog!SyncFails, CatalogIInv
<1> QED
  BY <1>1, <1>2, QuietStep DEF Catalog!SyncFails, CatalogIInv, Catalog!TypeOK, ClosedIsUnlocked

(* The manager closes when only the background discovery may be at work.   *)
LEMMA CloseKeeps ==
  ASSUME CatalogIInv, Catalog!Close
  PROVE  CatalogIInv'
<1>1. job' \in [Catalog!Jobs -> JobRecord] /\ \A k \in Catalog!Jobs : job'[k].revision <= revision
  BY Cancelling DEF Catalog!Close, CatalogIInv
<1>2. Catalog!TypeOK' /\ StatusIsPast' /\ ClosedIsUnlocked'
  BY <1>1 DEF Catalog!Close, CatalogIInv, Catalog!TypeOK, StatusIsPast, ClosedIsUnlocked,
              JobRecord, Catalog!account
<1>3. \A j \in Catalog!Jobs : job'[j].at = "idle"
  <2>1. job' = [job EXCEPT !["background"] = Catalog!NoJob]
    BY DEF Catalog!Close, Catalog!CancelBackground
  <2> QED
    BY <2>1 DEF Catalog!Close, CatalogIInv, Catalog!TypeOK, Catalog!NoJob, Catalog!Job,
                Catalog!Jobs
<1>4. Catalog!CatalogIsUsable'
  BY <1>3 DEF Catalog!Close, CatalogIInv, Catalog!CatalogIsUsable, Catalog!UsableUnder,
              Catalog!account
<1> QED
  BY <1>2, <1>4 DEF CatalogIInv

-----------------------------------------------------------------------------
(* Every step keeps the invariant.                                         *)
LEMMA CatalogStepKeeps ==
  ASSUME CatalogIInv, [Catalog!CatalogNext]_Catalog!catalogVars
  PROVE  CatalogIInv'
<1>1. CASE UNCHANGED Catalog!catalogVars
  <2>1. Catalog!TypeOK' /\ StatusIsPast' /\ ClosedIsUnlocked'
    BY <1>1 DEF Catalog!catalogVars, CatalogIInv, Catalog!TypeOK, StatusIsPast, ClosedIsUnlocked
  <2> QED
    BY <1>1, <2>1 DEF Catalog!catalogVars, CatalogIInv, Catalog!CatalogIsUsable,
                      Catalog!UsableUnder
<1>2. CASE Catalog!CatalogNext
  BY <1>2, WarmKeeps, AnswerKeeps, AskingEndsKeeps, BackgroundStartsKeeps, ExplicitKeeps,
     TestBeginsKeeps, ListModelsKeeps, ReplacePublishesKeeps, AccountChangesKeeps,
     SyncBeginsKeeps, RemoveAccountKeeps, AddAccountKeeps, SyncFailsKeeps, CloseKeeps
     DEF Catalog!CatalogNext
<1> QED
  BY <1>1, <1>2

-----------------------------------------------------------------------------
(* The account of a user.                                                  *)

(* _state_lock is held through a refresh and through the end of a          *)
(* disconnect, and by nobody else across an await.                         *)
StateLockShape ==
  \A p \in Processes :
    /\ access[p] # "idle" <=> stateLock[p] = "access"
    /\ admin[p] = "deleting" <=> stateLock[p] = "admin"

(* What is refreshed are credentials, and they stay while they are.        *)
RefreshShape == \A p \in Processes : access[p] # "idle" => creds[p] # 0

(* A sign-in task that has not come to its end is the current one.         *)
SignInShape ==
  \A p \in Processes :
    login[p] \in {"granting", "locking", "writing", "saved", "failed"} => isCurrent[p]

(* The inductive invariant.                                                *)
AccountIInv == Codex!TypeOK /\ StateLockShape /\ RefreshShape /\ SignInShape

(* A sign-in that holds what it was granted, written or not.               *)
Grantee(p) == login[p] \in {"locking", "writing", "saved"}

(* What was granted to a sign-in that has not begun to write, or to one    *)
(* that was cancelled before, is held by nobody and granted once.          *)
GrantShape ==
  /\ \A p \in Processes : login[p] = "locking" =>
       /\ grant[p] \in 1 .. issued /\ Codex!HeldByNobody(grant[p])
       /\ \A q \in Processes : q # p /\ Grantee(q) => grant[q] # grant[p]
  /\ \A v \in withdrawn :
       /\ v \in 1 .. issued /\ Codex!HeldByNobody(v)
       /\ \A q \in Processes : Grantee(q) => grant[q] # v

-----------------------------------------------------------------------------
(* The initial states.                                                     *)
LEMMA AccountInitially ==
  ASSUME Codex!Init
  PROVE  AccountIInv
<1>1. PICK v \in {0, 1} : saved = v /\ issued = v /\ creds = [p \in Processes |-> v]
  BY DEF Codex!Init
<1>2. Codex!TypeOK
  <2>1. issued \in 0 .. MaxIssued /\ v = issued /\ v \in 0 .. issued
    BY AccountAssumption, <1>1
  <2> QED
    BY <1>1, <2>1 DEF Codex!Init, Codex!TypeOK
<1>3. StateLockShape /\ RefreshShape /\ SignInShape
  BY AccountAssumption DEF Codex!Init, StateLockShape, RefreshShape, SignInShape
<1> QED
  BY <1>2, <1>3 DEF AccountIInv

-----------------------------------------------------------------------------
(* The sign-in task.                                                       *)

LEMMA StartLoginKeeps ==
  ASSUME AccountIInv, NEW p \in Processes, Codex!StartLogin(p)
  PROVE  AccountIInv'
<1>1. Codex!TypeOK'
  BY AccountAssumption DEF AccountIInv, Codex!TypeOK, RefreshShape, Codex!StartLogin,
                           Codex!StateFree, Codex!server, Codex!signIn, Codex!refreshing
<1>2. StateLockShape' /\ RefreshShape'
  BY AccountAssumption DEF AccountIInv, Codex!TypeOK, StateLockShape, RefreshShape,
                           Codex!StartLogin, Codex!StateFree, Codex!server, Codex!signIn,
                           Codex!refreshing
<1>3. SignInShape'
  BY DEF AccountIInv, Codex!TypeOK, SignInShape, Codex!StartLogin, Codex!StateFree, Codex!server,
         Codex!signIn, Codex!refreshing
<1> QED
  BY <1>1, <1>2, <1>3 DEF AccountIInv

LEMMA LoginStartsKeeps ==
  ASSUME AccountIInv, NEW p \in Processes, Codex!LoginStarts(p)
  PROVE  AccountIInv'
<1>1. Codex!TypeOK'
  BY AccountAssumption DEF AccountIInv, Codex!TypeOK, RefreshShape, Codex!LoginStarts,
                           Codex!StateFree, Codex!server, Codex!refreshing
<1>2. StateLockShape' /\ RefreshShape'
  BY AccountAssumption DEF AccountIInv, Codex!TypeOK, StateLockShape, RefreshShape,
                           Codex!LoginStarts, Codex!StateFree, Codex!server, Codex!refreshing
<1>3. SignInShape'
  BY DEF AccountIInv, Codex!TypeOK, SignInShape, Codex!LoginStarts, Codex!StateFree, Codex!server,
         Codex!refreshing
<1> QED
  BY <1>1, <1>2, <1>3 DEF AccountIInv

LEMMA StartFailsKeeps ==
  ASSUME AccountIInv, NEW p \in Processes, Codex!StartFails(p)
  PROVE  AccountIInv'
<1>1. Codex!TypeOK'
  BY AccountAssumption DEF AccountIInv, Codex!TypeOK, RefreshShape, Codex!StartFails,
                           Codex!StateFree, Codex!server, Codex!signIn, Codex!refreshing
<1>2. StateLockShape' /\ RefreshShape'
  BY AccountAssumption DEF AccountIInv, Codex!TypeOK, StateLockShape, RefreshShape,
                           Codex!StartFails, Codex!StateFree, Codex!server, Codex!signIn,
                           Codex!refreshing
<1>3. SignInShape'
  BY DEF AccountIInv, Codex!TypeOK, SignInShape, Codex!StartFails, Codex!StateFree, Codex!server,
         Codex!signIn, Codex!refreshing
<1> QED
  BY <1>1, <1>2, <1>3 DEF AccountIInv

LEMMA GrantArrivesKeeps ==
  ASSUME AccountIInv, NEW p \in Processes, Codex!GrantArrives(p)
  PROVE  AccountIInv'
<1>1. Codex!TypeOK'
  BY AccountAssumption DEF AccountIInv, Codex!TypeOK, RefreshShape, Codex!GrantArrives,
                           Codex!refreshing, Codex!calls
<1>2. StateLockShape' /\ RefreshShape'
  BY AccountAssumption DEF AccountIInv, Codex!TypeOK, StateLockShape, RefreshShape,
                           Codex!GrantArrives, Codex!refreshing, Codex!calls
<1>3. SignInShape'
  BY DEF AccountIInv, Codex!TypeOK, SignInShape, Codex!GrantArrives, Codex!refreshing, Codex!calls
<1> QED
  BY <1>1, <1>2, <1>3 DEF AccountIInv

LEMMA LoginLocksKeeps ==
  ASSUME AccountIInv, NEW p \in Processes, Codex!LoginLocks(p)
  PROVE  AccountIInv'
<1>1. Codex!TypeOK'
  BY AccountAssumption DEF AccountIInv, Codex!TypeOK, RefreshShape, Codex!LoginLocks,
                           Codex!Holder, Codex!server, Codex!refreshing, Codex!calls
<1>2. StateLockShape' /\ RefreshShape'
  BY AccountAssumption DEF AccountIInv, Codex!TypeOK, StateLockShape, RefreshShape,
                           Codex!LoginLocks, Codex!Holder, Codex!server, Codex!refreshing,
                           Codex!calls
<1>3. SignInShape'
  BY DEF AccountIInv, Codex!TypeOK, SignInShape, Codex!LoginLocks, Codex!Holder, Codex!server,
         Codex!refreshing, Codex!calls
<1> QED
  BY <1>1, <1>2, <1>3 DEF AccountIInv

LEMMA LoginWritesKeeps ==
  ASSUME AccountIInv, NEW p \in Processes, Codex!LoginWrites(p)
  PROVE  AccountIInv'
<1>1. Codex!TypeOK'
  BY AccountAssumption DEF AccountIInv, Codex!TypeOK, RefreshShape, Codex!LoginWrites,
                           Codex!server, Codex!refreshing, Codex!calls
<1>2. StateLockShape' /\ RefreshShape'
  BY AccountAssumption DEF AccountIInv, Codex!TypeOK, StateLockShape, RefreshShape,
                           Codex!LoginWrites, Codex!server, Codex!refreshing, Codex!calls
<1>3. SignInShape'
  BY DEF AccountIInv, Codex!TypeOK, SignInShape, Codex!LoginWrites, Codex!server,
         Codex!refreshing, Codex!calls
<1> QED
  BY <1>1, <1>2, <1>3 DEF AccountIInv

LEMMA LoginFailsKeeps ==
  ASSUME AccountIInv, NEW p \in Processes, Codex!LoginFails(p)
  PROVE  AccountIInv'
<1>1. Codex!TypeOK'
  BY AccountAssumption DEF AccountIInv, Codex!TypeOK, RefreshShape, Codex!LoginFails,
                           Codex!Unlocked, Codex!server, Codex!refreshing, Codex!calls
<1>2. StateLockShape' /\ RefreshShape'
  BY AccountAssumption DEF AccountIInv, Codex!TypeOK, StateLockShape, RefreshShape,
                           Codex!LoginFails, Codex!Unlocked, Codex!server, Codex!refreshing,
                           Codex!calls
<1>3. SignInShape'
  BY DEF AccountIInv, Codex!TypeOK, SignInShape, Codex!LoginFails, Codex!Unlocked, Codex!server,
         Codex!refreshing, Codex!calls
<1> QED
  BY <1>1, <1>2, <1>3 DEF AccountIInv

LEMMA LoginAdoptsKeeps ==
  ASSUME AccountIInv, NEW p \in Processes, Codex!LoginAdopts(p)
  PROVE  AccountIInv'
<1>1. Codex!TypeOK'
  BY AccountAssumption DEF AccountIInv, Codex!TypeOK, RefreshShape, Codex!LoginAdopts,
                           Codex!StateFree, Codex!server, Codex!refreshing, Codex!calls
<1>2. StateLockShape' /\ RefreshShape'
  BY AccountAssumption DEF AccountIInv, Codex!TypeOK, StateLockShape, RefreshShape,
                           Codex!LoginAdopts, Codex!StateFree, Codex!server, Codex!refreshing,
                           Codex!calls
<1>3. SignInShape'
  BY DEF AccountIInv, Codex!TypeOK, SignInShape, Codex!LoginAdopts, Codex!StateFree, Codex!server,
         Codex!refreshing, Codex!calls
<1> QED
  BY <1>1, <1>2, <1>3 DEF AccountIInv

LEMMA LoginReportsKeeps ==
  ASSUME AccountIInv, NEW p \in Processes, Codex!LoginReports(p)
  PROVE  AccountIInv'
<1>1. Codex!TypeOK'
  BY AccountAssumption DEF AccountIInv, Codex!TypeOK, RefreshShape, Codex!LoginReports,
                           Codex!StateFree, Codex!server, Codex!refreshing, Codex!calls
<1>2. StateLockShape' /\ RefreshShape'
  BY AccountAssumption DEF AccountIInv, Codex!TypeOK, StateLockShape, RefreshShape,
                           Codex!LoginReports, Codex!StateFree, Codex!server, Codex!refreshing,
                           Codex!calls
<1>3. SignInShape'
  BY DEF AccountIInv, Codex!TypeOK, SignInShape, Codex!LoginReports, Codex!StateFree,
         Codex!server, Codex!refreshing, Codex!calls
<1> QED
  BY <1>1, <1>2, <1>3 DEF AccountIInv

LEMMA LoginLeavesKeeps ==
  ASSUME AccountIInv, NEW p \in Processes, Codex!LoginLeaves(p)
  PROVE  AccountIInv'
<1>1. Codex!TypeOK'
  BY AccountAssumption DEF AccountIInv, Codex!TypeOK, RefreshShape, Codex!LoginLeaves,
                           Codex!StateFree, Codex!server, Codex!refreshing, Codex!calls
<1>2. StateLockShape' /\ RefreshShape'
  BY AccountAssumption DEF AccountIInv, Codex!TypeOK, StateLockShape, RefreshShape,
                           Codex!LoginLeaves, Codex!StateFree, Codex!server, Codex!refreshing,
                           Codex!calls
<1>3. SignInShape'
  BY DEF AccountIInv, Codex!TypeOK, SignInShape, Codex!LoginLeaves, Codex!StateFree, Codex!server,
         Codex!refreshing, Codex!calls
<1> QED
  BY <1>1, <1>2, <1>3 DEF AccountIInv

-----------------------------------------------------------------------------
(* Admin calls.                                                            *)

LEMMA DetachKeeps ==
  ASSUME AccountIInv, NEW p \in Processes, NEW call \in {"cancel", "disconnect", "close"},
         Codex!Detach(p, call)
  PROVE  AccountIInv'
<1>1. Codex!TypeOK'
  <2>1. withdrawn' \subseteq 0 .. issued
    <3>1. withdrawn \subseteq 0 .. issued /\ grant[p] \in 0 .. issued
      BY DEF AccountIInv, Codex!TypeOK
    <3>2. withdrawn' \in {withdrawn, withdrawn \cup {grant[p]}}
      BY DEF Codex!Detach, Codex!CancelTask
    <3> QED
      BY <3>1, <3>2
  <2>2. stray' \in [Processes -> 0 .. issued]
    BY DEF AccountIInv, Codex!TypeOK, Codex!Detach, Codex!CancelTask
  <2>3. login' \in [Processes -> {"none", "granting", "locking", "writing", "saved", "failed",
                                  "leaving"}]
    BY DEF AccountIInv, Codex!TypeOK, Codex!Detach, Codex!CancelTask
  <2>4. fileLock' \in {NONE} \cup Processes \X {"access", "login"}
    BY DEF AccountIInv, Codex!TypeOK, Codex!Detach, Codex!CancelTask, Codex!Unlocked
  <2>5. /\ isCurrent' \in [Processes -> BOOLEAN]
        /\ admin' \in [Processes -> {"idle", "starting", "cancel", "disconnect", "close",
                                     "disconnecting", "deleting"}]
    BY DEF AccountIInv, Codex!TypeOK, Codex!Detach
  <2>6. isClosed' \in [Processes -> BOOLEAN]
    <3>1. (isClosed[p] \/ call = "close") \in BOOLEAN
      OBVIOUS
    <3> QED
      BY <3>1 DEF AccountIInv, Codex!TypeOK, Codex!Detach
  <2>7. UNCHANGED <<saved, creds, issued, expiring, spent, access, renewed, grant, listening,
                    stateLock>>
    BY DEF Codex!Detach
  <2> QED
    BY <2>1, <2>2, <2>3, <2>4, <2>5, <2>6, <2>7 DEF AccountIInv, Codex!TypeOK
<1>2. StateLockShape' /\ RefreshShape'
  BY AccountAssumption DEF AccountIInv, Codex!TypeOK, StateLockShape, RefreshShape, Codex!Detach,
                           Codex!CancelTask, Codex!Unlocked, Codex!StateFree, Codex!server
<1>3. SignInShape'
  BY DEF AccountIInv, Codex!TypeOK, SignInShape, Codex!Detach, Codex!CancelTask, Codex!Unlocked,
         Codex!StateFree, Codex!server
<1> QED
  BY <1>1, <1>2, <1>3 DEF AccountIInv

LEMMA LoginGatheredKeeps ==
  ASSUME AccountIInv, NEW p \in Processes, Codex!LoginGathered(p)
  PROVE  AccountIInv'
<1>1. Codex!TypeOK'
  BY AccountAssumption DEF AccountIInv, Codex!TypeOK, RefreshShape, Codex!LoginGathered,
                           Codex!server, Codex!refreshing
<1>2. StateLockShape' /\ RefreshShape'
  BY AccountAssumption DEF AccountIInv, Codex!TypeOK, StateLockShape, RefreshShape,
                           Codex!LoginGathered, Codex!server, Codex!refreshing
<1>3. SignInShape'
  BY DEF AccountIInv, Codex!TypeOK, SignInShape, Codex!LoginGathered, Codex!server,
         Codex!refreshing
<1> QED
  BY <1>1, <1>2, <1>3 DEF AccountIInv

LEMMA RevokeKeeps ==
  ASSUME AccountIInv, NEW p \in Processes, Codex!Revoke(p)
  PROVE  AccountIInv'
<1>1. Codex!TypeOK'
  <2>1. {creds[p]} \ {0} \subseteq 1 .. issued /\ spent \subseteq 1 .. issued
    BY DEF AccountIInv, Codex!TypeOK
  <2>2. spent' \subseteq 1 .. issued
    BY <2>1 DEF Codex!Revoke
  <2> QED
    BY <2>2 DEF AccountIInv, Codex!TypeOK, Codex!Revoke, Codex!refreshing, Codex!signIn
<1>2. StateLockShape' /\ RefreshShape'
  BY AccountAssumption DEF AccountIInv, Codex!TypeOK, StateLockShape, RefreshShape, Codex!Revoke,
                           Codex!StateFree, Codex!signIn, Codex!refreshing
<1>3. SignInShape'
  BY DEF AccountIInv, Codex!TypeOK, SignInShape, Codex!Revoke, Codex!StateFree, Codex!signIn,
         Codex!refreshing
<1> QED
  BY <1>1, <1>2, <1>3 DEF AccountIInv

LEMMA DisconnectEndsKeeps ==
  ASSUME AccountIInv, NEW p \in Processes, Codex!DisconnectEnds(p)
  PROVE  AccountIInv'
<1>1. Codex!TypeOK'
  BY AccountAssumption DEF AccountIInv, Codex!TypeOK, RefreshShape, Codex!DisconnectEnds,
                           Codex!server, Codex!signIn, Codex!refreshing
<1>2. StateLockShape' /\ RefreshShape'
  BY AccountAssumption DEF AccountIInv, Codex!TypeOK, StateLockShape, RefreshShape,
                           Codex!DisconnectEnds, Codex!server, Codex!signIn, Codex!refreshing
<1>3. SignInShape'
  BY DEF AccountIInv, Codex!TypeOK, SignInShape, Codex!DisconnectEnds, Codex!server, Codex!signIn,
         Codex!refreshing
<1> QED
  BY <1>1, <1>2, <1>3 DEF AccountIInv

-----------------------------------------------------------------------------
(* Requests.                                                               *)

LEMMA RefreshBeginsKeeps ==
  ASSUME AccountIInv, NEW p \in Processes, Codex!RefreshBegins(p)
  PROVE  AccountIInv'
<1>1. Codex!TypeOK'
  BY AccountAssumption DEF AccountIInv, Codex!TypeOK, RefreshShape, Codex!RefreshBegins,
                           Codex!StateFree, Codex!server, Codex!signIn, Codex!calls
<1>2. StateLockShape' /\ RefreshShape'
  BY AccountAssumption DEF AccountIInv, Codex!TypeOK, StateLockShape, RefreshShape,
                           Codex!RefreshBegins, Codex!StateFree, Codex!server, Codex!signIn,
                           Codex!calls
<1>3. SignInShape'
  BY DEF AccountIInv, Codex!TypeOK, SignInShape, Codex!RefreshBegins, Codex!StateFree,
         Codex!server, Codex!signIn, Codex!calls
<1> QED
  BY <1>1, <1>2, <1>3 DEF AccountIInv

LEMMA RecoverKeeps ==
  ASSUME AccountIInv, NEW p \in Processes, Codex!Recover(p)
  PROVE  AccountIInv'
<1>1. Codex!TypeOK'
  BY AccountAssumption DEF AccountIInv, Codex!TypeOK, RefreshShape, Codex!Recover,
                           Codex!StateFree, Codex!server, Codex!signIn, Codex!refreshing,
                           Codex!calls
<1>2. StateLockShape' /\ RefreshShape'
  BY AccountAssumption DEF AccountIInv, Codex!TypeOK, StateLockShape, RefreshShape, Codex!Recover,
                           Codex!StateFree, Codex!server, Codex!signIn, Codex!refreshing,
                           Codex!calls
<1>3. SignInShape'
  BY DEF AccountIInv, Codex!TypeOK, SignInShape, Codex!Recover, Codex!StateFree, Codex!server,
         Codex!signIn, Codex!refreshing, Codex!calls
<1> QED
  BY <1>1, <1>2, <1>3 DEF AccountIInv

LEMMA RefreshLocksKeeps ==
  ASSUME AccountIInv, NEW p \in Processes, Codex!RefreshLocks(p)
  PROVE  AccountIInv'
<1>1. Codex!TypeOK'
  BY AccountAssumption DEF AccountIInv, Codex!TypeOK, RefreshShape, Codex!RefreshLocks,
                           Codex!EndRefresh, Codex!Unlocked, Codex!Holder, Codex!server,
                           Codex!signIn, Codex!calls
<1>2. StateLockShape' /\ RefreshShape'
  BY AccountAssumption DEF AccountIInv, Codex!TypeOK, StateLockShape, RefreshShape,
                           Codex!RefreshLocks, Codex!EndRefresh, Codex!Unlocked, Codex!Holder,
                           Codex!server, Codex!signIn, Codex!calls
<1>3. SignInShape'
  BY DEF AccountIInv, Codex!TypeOK, SignInShape, Codex!RefreshLocks, Codex!EndRefresh,
         Codex!Unlocked, Codex!Holder, Codex!server, Codex!signIn, Codex!calls
<1> QED
  BY <1>1, <1>2, <1>3 DEF AccountIInv

LEMMA RefreshGrantedKeeps ==
  ASSUME AccountIInv, NEW p \in Processes, Codex!RefreshGranted(p)
  PROVE  AccountIInv'
<1>1. Codex!TypeOK'
  <2>1. issued \in Nat /\ issued' \in 0 .. MaxIssued /\ issued' = issued + 1
    BY AccountAssumption DEF Codex!RefreshGranted, AccountIInv, Codex!TypeOK
  <2>2. creds[p] \in 1 .. issued
    BY DEF Codex!RefreshGranted, AccountIInv, Codex!TypeOK, RefreshShape
  <2>3. spent' \subseteq 1 .. issued'
    <3>1. spent \subseteq 1 .. issued /\ 1 .. issued \subseteq 1 .. issued'
      BY <2>1 DEF AccountIInv, Codex!TypeOK
    <3> QED
      BY <2>2, <3>1 DEF Codex!RefreshGranted
  <2>4. 0 .. issued \subseteq 0 .. issued' /\ 1 .. issued \subseteq 1 .. issued'
        /\ issued' \in 0 .. issued'
    BY <2>1
  <2>5. /\ creds' \in [Processes -> 0 .. issued'] /\ stray' \in [Processes -> 0 .. issued']
        /\ grant' \in [Processes -> 0 .. issued'] /\ saved' \in 0 .. issued'
        /\ renewed' \in [Processes -> 0 .. issued'] /\ expiring' \subseteq 1 .. issued'
    BY <2>4 DEF Codex!RefreshGranted, AccountIInv, Codex!TypeOK, Codex!signIn
  <2> QED
    BY <2>1, <2>3, <2>5 DEF Codex!RefreshGranted, AccountIInv, Codex!TypeOK, Codex!signIn,
                            Codex!calls
<1>2. StateLockShape' /\ RefreshShape'
  BY AccountAssumption DEF AccountIInv, Codex!TypeOK, StateLockShape, RefreshShape,
                           Codex!RefreshGranted, Codex!signIn, Codex!calls
<1>3. SignInShape'
  BY DEF AccountIInv, Codex!TypeOK, SignInShape, Codex!RefreshGranted, Codex!signIn, Codex!calls
<1> QED
  BY <1>1, <1>2, <1>3 DEF AccountIInv

LEMMA RefreshWritesKeeps ==
  ASSUME AccountIInv, NEW p \in Processes, Codex!RefreshWrites(p)
  PROVE  AccountIInv'
<1>1. Codex!TypeOK'
  BY AccountAssumption DEF AccountIInv, Codex!TypeOK, RefreshShape, Codex!RefreshWrites,
                           Codex!EndRefresh, Codex!Unlocked, Codex!server, Codex!signIn,
                           Codex!calls
<1>2. StateLockShape' /\ RefreshShape'
  BY AccountAssumption DEF AccountIInv, Codex!TypeOK, StateLockShape, RefreshShape,
                           Codex!RefreshWrites, Codex!EndRefresh, Codex!Unlocked, Codex!server,
                           Codex!signIn, Codex!calls
<1>3. SignInShape'
  BY DEF AccountIInv, Codex!TypeOK, SignInShape, Codex!RefreshWrites, Codex!EndRefresh,
         Codex!Unlocked, Codex!server, Codex!signIn, Codex!calls
<1> QED
  BY <1>1, <1>2, <1>3 DEF AccountIInv

LEMMA RefreshRejectedKeeps ==
  ASSUME AccountIInv, NEW p \in Processes, Codex!RefreshRejected(p)
  PROVE  AccountIInv'
<1>1. Codex!TypeOK'
  BY AccountAssumption DEF AccountIInv, Codex!TypeOK, RefreshShape, Codex!RefreshRejected,
                           Codex!EndRefresh, Codex!Unlocked, Codex!server, Codex!signIn,
                           Codex!calls
<1>2. StateLockShape' /\ RefreshShape'
  BY AccountAssumption DEF AccountIInv, Codex!TypeOK, StateLockShape, RefreshShape,
                           Codex!RefreshRejected, Codex!EndRefresh, Codex!Unlocked, Codex!server,
                           Codex!signIn, Codex!calls
<1>3. SignInShape'
  BY DEF AccountIInv, Codex!TypeOK, SignInShape, Codex!RefreshRejected, Codex!EndRefresh,
         Codex!Unlocked, Codex!server, Codex!signIn, Codex!calls
<1> QED
  BY <1>1, <1>2, <1>3 DEF AccountIInv

LEMMA RefreshFailsKeeps ==
  ASSUME AccountIInv, NEW p \in Processes, Codex!RefreshFails(p)
  PROVE  AccountIInv'
<1>1. Codex!TypeOK'
  <2>1. access[p] = "posting" => creds[p] \in 1 .. issued
    BY DEF AccountIInv, Codex!TypeOK, RefreshShape
  <2>2. spent' \subseteq 1 .. issued
    <3>1. \/ spent' = spent
          \/ access[p] = "posting" /\ spent' = spent \cup {creds[p]}
      BY DEF Codex!RefreshFails, Codex!EndRefresh
    <3>2. spent \subseteq 1 .. issued
      BY DEF AccountIInv, Codex!TypeOK
    <3> QED
      BY <2>1, <3>1, <3>2
  <2>3. renewed[p] \in 0 .. issued /\ 0 \in 0 .. issued
    BY DEF AccountIInv, Codex!TypeOK
  <2> QED
    BY <2>2, <2>3 DEF AccountIInv, Codex!TypeOK, Codex!RefreshFails, Codex!EndRefresh,
                      Codex!Unlocked, Codex!signIn, Codex!calls
<1>2. StateLockShape' /\ RefreshShape'
  BY AccountAssumption DEF AccountIInv, Codex!TypeOK, StateLockShape, RefreshShape,
                           Codex!RefreshFails, Codex!EndRefresh, Codex!Unlocked, Codex!signIn,
                           Codex!calls
<1>3. SignInShape'
  BY DEF AccountIInv, Codex!TypeOK, SignInShape, Codex!RefreshFails, Codex!EndRefresh,
         Codex!Unlocked, Codex!signIn, Codex!calls
<1> QED
  BY <1>1, <1>2, <1>3 DEF AccountIInv

LEMMA RefreshCancelledKeeps ==
  ASSUME AccountIInv, NEW p \in Processes, Codex!RefreshCancelled(p)
  PROVE  AccountIInv'
<1>1. Codex!TypeOK'
  <2>1. access[p] = "posting" => creds[p] \in 1 .. issued
    BY DEF AccountIInv, Codex!TypeOK, RefreshShape
  <2>2. spent' \subseteq 1 .. issued
    BY <2>1 DEF Codex!RefreshCancelled, AccountIInv, Codex!TypeOK
  <2>3. renewed[p] \in 0 .. issued /\ 0 \in 0 .. issued
    BY DEF AccountIInv, Codex!TypeOK
  <2> QED
    BY <2>2, <2>3 DEF AccountIInv, Codex!TypeOK, Codex!RefreshCancelled, Codex!EndRefresh,
                      Codex!Unlocked, Codex!signIn, Codex!calls
<1>2. StateLockShape' /\ RefreshShape'
  BY AccountAssumption DEF AccountIInv, Codex!TypeOK, StateLockShape, RefreshShape,
                           Codex!RefreshCancelled, Codex!EndRefresh, Codex!Unlocked, Codex!signIn,
                           Codex!calls
<1>3. SignInShape'
  BY DEF AccountIInv, Codex!TypeOK, SignInShape, Codex!RefreshCancelled, Codex!EndRefresh,
         Codex!Unlocked, Codex!signIn, Codex!calls
<1> QED
  BY <1>1, <1>2, <1>3 DEF AccountIInv

LEMMA StrayWritesKeeps ==
  ASSUME AccountIInv, NEW p \in Processes, Codex!StrayWrites(p)
  PROVE  AccountIInv'
<1>1. Codex!TypeOK'
  BY AccountAssumption DEF AccountIInv, Codex!TypeOK, RefreshShape, Codex!StrayWrites,
                           Codex!server, Codex!signIn, Codex!calls
<1>2. StateLockShape' /\ RefreshShape'
  BY AccountAssumption DEF AccountIInv, Codex!TypeOK, StateLockShape, RefreshShape,
                           Codex!StrayWrites, Codex!server, Codex!signIn, Codex!calls
<1>3. SignInShape'
  BY DEF AccountIInv, Codex!TypeOK, SignInShape, Codex!StrayWrites, Codex!server, Codex!signIn,
         Codex!calls
<1> QED
  BY <1>1, <1>2, <1>3 DEF AccountIInv

(* Time passes.                                                            *)
LEMMA ExpiresKeeps ==
  ASSUME AccountIInv, Codex!Expires
  PROVE  AccountIInv'
  BY DEF Codex!Expires, AccountIInv, Codex!TypeOK, StateLockShape, RefreshShape, SignInShape,
         Codex!signIn, Codex!refreshing, Codex!calls

-----------------------------------------------------------------------------
(* Every step keeps the invariant.                                         *)
LEMMA AccountStepKeeps ==
  ASSUME AccountIInv, [Codex!AccountNext]_Codex!accountVars
  PROVE  AccountIInv'
<1>1. CASE UNCHANGED Codex!accountVars
  BY <1>1 DEF Codex!accountVars, AccountIInv, Codex!TypeOK, StateLockShape, RefreshShape,
              SignInShape
<1>2. CASE Codex!AccountNext
  BY <1>2, ExpiresKeeps, StartLoginKeeps, LoginStartsKeeps, StartFailsKeeps, GrantArrivesKeeps,
     LoginLocksKeeps, LoginWritesKeeps, LoginFailsKeeps, LoginAdoptsKeeps, LoginReportsKeeps,
     LoginLeavesKeeps, DetachKeeps, LoginGatheredKeeps, RevokeKeeps, DisconnectEndsKeeps,
     RefreshBeginsKeeps, RecoverKeeps, RefreshLocksKeeps, RefreshGrantedKeeps, RefreshWritesKeeps,
     RefreshRejectedKeeps, RefreshFailsKeeps, RefreshCancelledKeeps, StrayWritesKeeps
     DEF Codex!AccountNext, Codex!LoginMoves, Codex!AdminMoves, Codex!RefreshMoves
<1> QED
  BY <1>1, <1>2

-----------------------------------------------------------------------------
(* No step of the account gives away what nobody holds.                    *)

LEMMA GrantsKept ==
  ASSUME AccountIInv, GrantShape, [Codex!AccountNext]_Codex!accountVars
  PROVE  GrantShape'
<1> USE DEF GrantShape, Grantee, Codex!HeldByNobody
<1>1. CASE UNCHANGED Codex!accountVars
  BY <1>1 DEF Codex!accountVars
<1>2. ASSUME Codex!Expires PROVE GrantShape'
  BY <1>2 DEF Codex!Expires, Codex!refreshing, Codex!signIn
<1>3. ASSUME NEW p \in Processes, Codex!StartLogin(p) PROVE GrantShape'
  BY <1>3 DEF AccountIInv, Codex!TypeOK, Codex!StartLogin, Codex!server, Codex!signIn,
              Codex!refreshing
<1>4. ASSUME NEW p \in Processes, Codex!LoginStarts(p) PROVE GrantShape'
  BY <1>4 DEF AccountIInv, Codex!TypeOK, Codex!LoginStarts, Codex!server, Codex!refreshing
<1>5. ASSUME NEW p \in Processes, Codex!StartFails(p) PROVE GrantShape'
  BY <1>5 DEF AccountIInv, Codex!TypeOK, Codex!StartFails, Codex!server, Codex!signIn,
              Codex!refreshing
<1>6. ASSUME NEW p \in Processes, Codex!GrantArrives(p) PROVE GrantShape'
  BY <1>6 DEF AccountIInv, Codex!TypeOK, Codex!GrantArrives, Codex!refreshing
<1>7. ASSUME NEW p \in Processes, Codex!LoginLocks(p) PROVE GrantShape'
  BY <1>7 DEF AccountIInv, Codex!TypeOK, Codex!LoginLocks, Codex!server, Codex!refreshing
<1>8. ASSUME NEW p \in Processes, Codex!LoginWrites(p) PROVE GrantShape'
  BY <1>8 DEF AccountIInv, Codex!TypeOK, Codex!LoginWrites, Codex!server, Codex!refreshing
<1>9. ASSUME NEW p \in Processes, Codex!LoginFails(p) PROVE GrantShape'
  BY <1>9 DEF AccountIInv, Codex!TypeOK, Codex!LoginFails, Codex!server, Codex!refreshing
<1>10. ASSUME NEW p \in Processes, Codex!LoginAdopts(p) PROVE GrantShape'
  BY <1>10 DEF AccountIInv, Codex!TypeOK, Codex!LoginAdopts, Codex!server, Codex!refreshing
<1>11. ASSUME NEW p \in Processes, Codex!LoginReports(p) PROVE GrantShape'
  BY <1>11 DEF AccountIInv, Codex!TypeOK, Codex!LoginReports, Codex!server, Codex!refreshing
<1>12. ASSUME NEW p \in Processes, Codex!LoginLeaves(p) PROVE GrantShape'
  BY <1>12 DEF AccountIInv, Codex!TypeOK, Codex!LoginLeaves, Codex!server, Codex!refreshing
<1>13. ASSUME NEW p \in Processes, Codex!LoginGathered(p) PROVE GrantShape'
  BY <1>13 DEF AccountIInv, Codex!TypeOK, Codex!LoginGathered, Codex!server, Codex!refreshing
<1>14. ASSUME NEW p \in Processes, Codex!Revoke(p) PROVE GrantShape'
  BY <1>14 DEF AccountIInv, Codex!TypeOK, Codex!Revoke, Codex!signIn, Codex!refreshing
<1>15. ASSUME NEW p \in Processes, Codex!DisconnectEnds(p) PROVE GrantShape'
  BY <1>15 DEF AccountIInv, Codex!TypeOK, Codex!DisconnectEnds, Codex!server, Codex!signIn,
               Codex!refreshing
<1>16. ASSUME NEW p \in Processes, Codex!RefreshBegins(p) PROVE GrantShape'
  BY <1>16 DEF AccountIInv, Codex!TypeOK, Codex!RefreshBegins, Codex!server, Codex!signIn
<1>17. ASSUME NEW p \in Processes, Codex!Recover(p) PROVE GrantShape'
  BY <1>17 DEF AccountIInv, Codex!TypeOK, Codex!Recover, Codex!server, Codex!signIn,
               Codex!refreshing
<1>18. ASSUME NEW p \in Processes, Codex!RefreshLocks(p) PROVE GrantShape'
  BY <1>18 DEF AccountIInv, Codex!TypeOK, Codex!RefreshLocks, Codex!server, Codex!signIn,
               Codex!EndRefresh
<1>19. ASSUME NEW p \in Processes, Codex!RefreshGranted(p) PROVE GrantShape'
  BY <1>19 DEF AccountIInv, Codex!TypeOK, Codex!RefreshGranted, Codex!signIn
<1>20. ASSUME NEW p \in Processes, Codex!RefreshWrites(p) PROVE GrantShape'
  BY <1>20 DEF AccountIInv, Codex!TypeOK, Codex!RefreshWrites, Codex!server, Codex!signIn,
               Codex!EndRefresh
<1>21. ASSUME NEW p \in Processes, Codex!RefreshRejected(p) PROVE GrantShape'
  BY <1>21 DEF AccountIInv, Codex!TypeOK, Codex!RefreshRejected, Codex!server, Codex!signIn,
               Codex!EndRefresh
<1>22. ASSUME NEW p \in Processes, Codex!RefreshFails(p) PROVE GrantShape'
  BY <1>22 DEF AccountIInv, Codex!TypeOK, Codex!RefreshFails, Codex!signIn, Codex!EndRefresh
<1>23. ASSUME NEW p \in Processes, Codex!RefreshCancelled(p) PROVE GrantShape'
  BY <1>23 DEF AccountIInv, Codex!TypeOK, Codex!RefreshCancelled, Codex!signIn, Codex!EndRefresh
<1>24. ASSUME NEW p \in Processes, Codex!StrayWrites(p) PROVE GrantShape'
  BY <1>24 DEF AccountIInv, Codex!TypeOK, Codex!StrayWrites, Codex!server, Codex!signIn
<1>25. ASSUME NEW p \in Processes, NEW call \in {"cancel", "disconnect", "close"},
             Codex!Detach(p, call)
      PROVE  GrantShape'
  BY <1>25 DEF AccountIInv, Codex!TypeOK, Codex!Detach, Codex!CancelTask
<1> QED
  BY <1>1, <1>2, <1>3, <1>4, <1>5, <1>6, <1>7, <1>8, <1>9, <1>10, <1>11, <1>12, <1>13, <1>14,
     <1>15, <1>16, <1>17, <1>18, <1>19, <1>20, <1>21, <1>22, <1>23, <1>24, <1>25
     DEF Codex!AccountNext, Codex!LoginMoves, Codex!AdminMoves, Codex!RefreshMoves

-----------------------------------------------------------------------------
(* A behaviour of the composition is, for each component, one of its own   *)
(* specification, in which the component may never move.                   *)
LEMMA EachRuns ==
  MCSpec => Spec /\ Catalog!CatalogSpec /\ Codex!AccountSpec
<1>1. MCInit => Init /\ Catalog!Init /\ Codex!Init
  BY DEF MCInit
<1>2. [MCNext]_allVars => [Next]_vars
  BY Zenon DEF MCNext, allVars
<1>3. [MCNext]_allVars => [Catalog!CatalogNext]_Catalog!catalogVars
  BY Zenon DEF MCNext, allVars, catalogVars, Catalog!catalogVars
<1>4. [MCNext]_allVars => [Codex!AccountNext]_Codex!accountVars
  BY Zenon DEF MCNext, allVars, accountVars, Codex!accountVars
<1> QED
  BY <1>1, <1>2, <1>3, <1>4, PTL DEF MCSpec, Spec, Catalog!CatalogSpec, Codex!AccountSpec

(* The catalog lists usable providers only, for any number of providers,   *)
(* of administrators and of changes of the account.                        *)
THEOREM CatalogCorrect ==
  MCSpec => []CatalogIsUsable
<1>1. Catalog!Init => CatalogIInv
  BY CatalogInitially
<1>2. CatalogIInv /\ [Catalog!CatalogNext]_Catalog!catalogVars => CatalogIInv'
  BY CatalogStepKeeps
<1>3. CatalogIInv => CatalogIsUsable
  BY DEF CatalogIInv, CatalogIsUsable
<1> QED
  BY <1>1, <1>2, <1>3, EachRuns, PTL DEF Catalog!CatalogSpec

(* A sign-in that cancel_login, disconnect or close has detached does not  *)
(* make itself the account of its process, and what was granted to one     *)
(* that had not begun to write is never in the file nor the account of any *)
(* process, for any number of processes that share the account; and every  *)
(* variable of it keeps its type.  (Of one whose write had begun the       *)
(* credentials may be taken from the file: CodexAccount says how.)         *)
THEOREM CancelledCorrect ==
  MCSpec => CancelledLoginStaysOut
<1>1. Codex!Init => AccountIInv /\ GrantShape
  BY AccountInitially DEF Codex!Init, GrantShape
<1>2. AccountIInv /\ GrantShape /\ [Codex!AccountNext]_Codex!accountVars =>
        AccountIInv' /\ GrantShape'
  BY AccountStepKeeps, GrantsKept
<1>3. AccountIInv /\ [Codex!AccountNext]_Codex!accountVars =>
        [\A p \in Processes :
           creds'[p] # creds[p] /\ login[p] = "saved" /\ login'[p] = "leaving" =>
             isCurrent[p]]_Codex!accountVars
  BY DEF AccountIInv, SignInShape
<1>4. GrantShape => \A v \in withdrawn : Codex!HeldByNobody(v)
  BY DEF GrantShape
<1>5. AccountIInv => (component = "account" => Codex!TypeOK)
  BY DEF AccountIInv
<1> QED
  BY <1>1, <1>2, <1>3, <1>4, <1>5, EachRuns, PTL
     DEF Codex!AccountSpec, Codex!CancelledLoginStaysOut, CancelledLoginStaysOut

-----------------------------------------------------------------------------
(* The failure policy.                                                     *)

(* What the set of exceptions says of one of them.                         *)
LEMMA RawFields ==
  ASSUME NEW e \in RawErrors(Statuses, Nat)
  PROVE  /\ e.class \in Classes \ {"Failure"} /\ e.status \in {0} \cup Statuses /\ e.body \in Nat
         /\ e.window \in BOOLEAN /\ e.status \in StatusesOf(e.class)
         /\ e.class \notin SDKClasses => e.body = 0
         /\ e.class \in TransportClasses \cup {"APITimeout", "APIConnection", "Protocol"} =>
           e.body = 0 /\ e.markers = {} /\ ~e.window
  BY DEF RawErrors

(* The flag of a finished failure.                                         *)
LEMMA FailureRetryable ==
  /\ ContextExceeded.retryable = FALSE /\ OverloadedFailure.retryable = TRUE
  /\ \A kind, status, retryable : Failure(kind, status, retryable).retryable = retryable
  BY DEF Failure, ContextExceeded, OverloadedFailure

(* The order in which a raw exception is classified.                       *)
LEMMA ClassifiedBy ==
  ASSUME NEW e \in RawErrors(Statuses, Nat)
  PROVE  /\ e.window = TRUE => Classified(e) = ContextExceeded
         /\ e.window = FALSE /\ ReportedStatus(e) = 413 =>
              Classified(e) = Failure("invalid_request", 413, FALSE)
         /\ e.window = FALSE /\ ReportedStatus(e) # 413 => Classified(e) = OfClass(e)
<1>1. e.window \in BOOLEAN /\ e.class # "Failure"
  BY RawFields
<1>. QED BY <1>1 DEF Classified

(* An exhausted window and a request too large are final.                  *)
LEMMA NotOfClass ==
  ASSUME NEW e \in RawErrors(Statuses, Nat), e.window = TRUE \/ ReportedStatus(e) = 413
  PROVE  Classified(e).retryable = FALSE
<1>1. e.window \in BOOLEAN
  BY RawFields
<1>2. CASE e.window = TRUE
  BY <1>2, ClassifiedBy, FailureRetryable
<1>3. CASE e.window = FALSE
  <2>1. Classified(e) = Failure("invalid_request", 413, FALSE)
    BY <1>3, ClassifiedBy
  <2>. QED BY <2>1 DEF Failure
<1>. QED BY <1>1, <1>2, <1>3

(* The decision about any exception but those that are refused or          *)
(* transport.                                                              *)
LEMMA RetryableOf ==
  ASSUME NEW e \in RawErrors(Statuses, Nat), e.class \notin Refused,
         e.class \notin TransportClasses \cup {"APITimeout", "APIConnection", "Protocol"}
  PROVE  /\ Retryable(e) <=> ReportedStatus(e) # 413 /\ TransientStatus(e) # 0
         /\ StreamRetryable(e) <=> TransientStatus(e) # 0
<1>1. e.class # "Failure"
  BY RawFields
<1>2. Retryable(e) <=> ReportedStatus(e) # 413 /\ TransientStatus(e) # 0
  BY <1>1 DEF Retryable
<1>3. StreamRetryable(e) <=> TransientStatus(e) # 0
  BY <1>1 DEF StreamRetryable, TransportClasses
<1>. QED BY <1>2, <1>3

(* An exhausted window and a request too large are not transient.          *)
LEMMA TransientOf ==
  ASSUME NEW e \in RawErrors(Statuses, Nat), e.window = TRUE \/ ReportedStatus(e) = 413
  PROVE  TransientStatus(e) = 0
<1>1. e.class # "Failure" /\ e.window \in BOOLEAN
  BY RawFields
<1>2. CASE e.class = "HTTPStatus"
  <2>1. e.body = 0 /\ e.status # 0
    BY <1>2, RawFields DEF SDKClasses, StatusesOf, Statuses
  <2>. QED BY <1>1, <1>2, <2>1 DEF TransientStatus, ReportedStatus
<1>3. CASE e.class # "HTTPStatus"
  BY <1>1, <1>3 DEF TransientStatus
<1>. QED BY <1>2, <1>3

(* The decisions about an exception agree.                                 *)
Agrees(e) == /\ Classified(e).retryable = TRUE <=> Retryable(e)
             /\ StreamRetryable(e) <=> Retryable(e) /\ e.class # "WaitTimeout"

(* It is enough that the failure of the class agrees.                      *)
LEMMA AgreesBy ==
  ASSUME NEW e \in RawErrors(Statuses, Nat), e.class \notin Refused,
         e.class \notin TransportClasses \cup {"APITimeout", "APIConnection", "Protocol"},
         e.window = FALSE /\ ReportedStatus(e) # 413 =>
            (OfClass(e).retryable = TRUE <=> TransientStatus(e) # 0)
  PROVE  Agrees(e)
<1>1. e.window \in BOOLEAN /\ e.class # "WaitTimeout"
  BY RawFields DEF TransportClasses
<1>2. CASE e.window = TRUE \/ ReportedStatus(e) = 413
  BY <1>1, <1>2, NotOfClass, TransientOf, RetryableOf DEF Agrees
<1>3. CASE e.window = FALSE /\ ReportedStatus(e) # 413
  <2>1. Classified(e) = OfClass(e)
    BY <1>3, ClassifiedBy
  <2>. QED BY <1>1, <1>3, <2>1, RetryableOf DEF Agrees
<1>. QED BY <1>1, <1>2, <1>3

(* Transport errors have no class of their own.                            *)
LEMMA TransportClass ==
  ASSUME NEW e, e.class \in TransportClasses \cup {"Protocol"}
  PROVE  OfClass(e) = OfTransport(e)
<1>1. CASE e.class = "WaitTimeout"
  BY <1>1 DEF OfClass
<1>2. CASE e.class = "Timeout"
  BY <1>2 DEF OfClass
<1>3. CASE e.class = "Network"
  BY <1>3 DEF OfClass
<1>4. CASE e.class = "RemoteProtocol"
  BY <1>4 DEF OfClass
<1>5. CASE e.class = "Protocol"
  BY <1>5 DEF OfClass
<1>. QED BY <1>1, <1>2, <1>3, <1>4, <1>5 DEF TransportClasses

(* Connection, transport and protocol errors.                              *)
LEMMA ConnectionAgrees ==
  ASSUME NEW e \in RawErrors(Statuses, Nat),
         e.class \in TransportClasses \cup {"APITimeout", "APIConnection", "Protocol"}
  PROVE  Agrees(e)
<1>1. e.status = 0 /\ ReportedStatus(e) = 0 /\ e.window = FALSE /\ e.markers = {} /\ e.body = 0
  BY RawFields DEF ReportedStatus, StatusesOf, TransportClasses
<1>2. TransientStatus(e) = 0
  BY <1>1 DEF TransientStatus, TransportClasses, IsRetryableStatus, MarkedStatus
<1>3. Retryable(e)
  BY <1>1 DEF Retryable, TransportClasses, Refused
<1>4. StreamRetryable(e) <=> e.class # "WaitTimeout"
  BY <1>2 DEF StreamRetryable, TransportClasses, Refused
<1>5. Classified(e) = OfClass(e)
  <2>1. e.window = FALSE /\ ReportedStatus(e) # 413
    BY <1>1
  <2>. QED BY <2>1, ClassifiedBy
<1>6. CASE e.class \in TransportClasses \cup {"Protocol"}
  <2>1. OfClass(e) = OfTransport(e)
    BY <1>6, TransportClass
  <2>2. Classified(e).retryable = Retryable(e)
    BY <1>5, <2>1 DEF Failure, OverloadedFailure, OfTransport
  <2>3. Retryable(e) = TRUE
    BY <1>1, <1>6 DEF Retryable, TransportClasses, Refused
  <2>. QED BY <1>3, <1>4, <2>2, <2>3 DEF Agrees
<1>7. CASE e.class = "APITimeout"
  <2>1. Classified(e) = Failure("timeout", 500, TRUE)
    BY <1>5, <1>7 DEF OfClass
  <2>. QED BY <1>3, <1>4, <2>1 DEF Failure, OverloadedFailure, Agrees
<1>8. CASE e.class = "APIConnection"
  <2>1. Classified(e) = Failure("unavailable", 500, TRUE)
    BY <1>5, <1>8 DEF OfClass
  <2>. QED BY <1>3, <1>4, <2>1 DEF Failure, OverloadedFailure, Agrees
<1>. QED BY <1>6, <1>7, <1>8

(* Refused requests.                                                       *)
LEMMA RefusedAgrees ==
  ASSUME NEW e \in RawErrors(Statuses, Nat), e.class \in Refused
  PROVE  Agrees(e)
<1>1. ~Retryable(e) /\ ~StreamRetryable(e)
  BY DEF Retryable, StreamRetryable, Refused
<1>2. OfClass(e).retryable = FALSE
  <2>1. \/ OfClass(e) = Failure("authentication", 401, FALSE)
        \/ OfClass(e) = Failure("permission", 403, FALSE)
        \/ OfClass(e) = Failure("invalid_request", 400, FALSE)
    <3>1. CASE e.class = "Authentication"
      BY <3>1 DEF OfClass
    <3>2. CASE e.class = "PermissionDenied"
      BY <3>2 DEF OfClass
    <3>3. CASE e.class = "BadRequest"
      BY <3>3 DEF OfClass
    <3>. QED BY <3>1, <3>2, <3>3 DEF Refused
  <2>. QED BY <2>1 DEF Failure, OverloadedFailure
<1>3. e.window \in BOOLEAN
  BY RawFields
<1>4. Classified(e).retryable = FALSE
  <2>1. CASE e.window = TRUE \/ ReportedStatus(e) = 413
    BY <2>1, NotOfClass
  <2>2. CASE e.window = FALSE /\ ReportedStatus(e) # 413
    BY <1>2, <2>2, ClassifiedBy
  <2>. QED BY <1>3, <2>1, <2>2
<1>. QED BY <1>1, <1>4 DEF Agrees

(* Rate limits and server errors of the SDK.                               *)
LEMMA BusyAgrees ==
  ASSUME NEW e \in RawErrors(Statuses, Nat), e.class \in {"RateLimit", "InternalServer"}
  PROVE  Agrees(e)
<1>1. e.status = 429 \/ e.status \in 500 .. 599
  BY RawFields DEF StatusesOf
<1>2. IsRetryableStatus(e.status) /\ e.status # 0
  BY <1>1 DEF IsRetryableStatus
<1>3. ASSUME e.window = FALSE, ReportedStatus(e) # 413 PROVE TransientStatus(e) # 0
  BY <1>2, <1>3 DEF TransientStatus
<1>4. OfClass(e).retryable = TRUE
  <2>1. \/ OfClass(e) = Failure("rate_limit", 429, TRUE)
        \/ OfClass(e) = OverloadedFailure
        \/ OfClass(e) = Failure("upstream", e.status, TRUE)
    <3>1. CASE e.class = "RateLimit"
      BY <3>1 DEF OfClass
    <3>2. CASE e.class = "InternalServer"
      BY <3>2 DEF OfClass
    <3>. QED BY <3>1, <3>2
  <2>. QED BY <2>1 DEF Failure, OverloadedFailure
<1>. QED BY <1>3, <1>4, AgreesBy DEF Refused, TransportClasses

(* Status errors of httpx.                                                 *)
LEMMA HTTPAgrees ==
  ASSUME NEW e \in RawErrors(Statuses, Nat), e.class = "HTTPStatus"
  PROVE  Agrees(e)
<1>1. e.status \in Statuses /\ e.status # 0
  BY RawFields DEF StatusesOf, Statuses
<1>2. OfClass(e) = OfHTTPStatus(e.status)
  BY DEF OfClass
<1>3. ASSUME e.window = FALSE, ReportedStatus(e) # 413
      PROVE  TransientStatus(e) # 0 <=> IsRetryableStatus(e.status)
  BY <1>1, <1>3 DEF TransientStatus, ReportedStatus
<1>4. OfHTTPStatus(e.status).retryable = TRUE <=> IsRetryableStatus(e.status)
  <2>1. CASE e.status = 401
    <3>1. OfHTTPStatus(e.status) = Failure("authentication", 401, FALSE)
      BY <2>1 DEF OfHTTPStatus, OfStatus
    <3>. QED BY <2>1, <3>1 DEF Failure, OverloadedFailure, IsRetryableStatus
  <2>2. CASE e.status = 403
    <3>1. OfHTTPStatus(e.status) = Failure("permission", 403, FALSE)
      BY <2>2 DEF OfHTTPStatus, OfStatus
    <3>. QED BY <2>2, <3>1 DEF Failure, OverloadedFailure, IsRetryableStatus
  <2>3. CASE e.status = 429
    <3>1. OfHTTPStatus(e.status) = Failure("rate_limit", 429, TRUE)
      BY <2>3 DEF OfHTTPStatus, OfStatus
    <3>. QED BY <2>3, <3>1 DEF Failure, OverloadedFailure, IsRetryableStatus
  <2>4. CASE e.status = 400
    <3>1. OfHTTPStatus(e.status) = Failure("invalid_request", 400, FALSE)
      BY <2>4 DEF OfHTTPStatus, OfStatus
    <3>. QED BY <2>4, <3>1 DEF Failure, OverloadedFailure, IsRetryableStatus
  <2>5. CASE e.status \in 502 .. 504
    <3>1. e.status \notin {400, 401, 403, 429}
      BY <1>1, <2>5 DEF Statuses
    <3>2. OfHTTPStatus(e.status) = OverloadedFailure
      BY <2>5, <3>1 DEF OfHTTPStatus, OfStatus
    <3>. QED BY <2>5, <3>2 DEF Failure, OverloadedFailure, IsRetryableStatus
  <2>6. CASE e.status \notin {400, 401, 403, 429} \cup 502 .. 504
    <3>1. OfHTTPStatus(e.status) = Failure("upstream", e.status, IsRetryableStatus(e.status))
      BY <2>6 DEF OfHTTPStatus, OfStatus
    <3>2. IsRetryableStatus(e.status) \in BOOLEAN
      BY DEF IsRetryableStatus
    <3>. QED BY <3>1, <3>2 DEF Failure, OverloadedFailure
  <2>. QED BY <2>1, <2>2, <2>3, <2>4, <2>5, <2>6
<1>. QED BY <1>2, <1>3, <1>4, AgreesBy DEF Refused, TransportClasses

(* Any other exception.                                                    *)
LEMMA OtherAgrees ==
  ASSUME NEW e \in RawErrors(Statuses, Nat), e.class = "Other"
  PROVE  Agrees(e)
<1>1. OfClass(e) = OfTransport(e)
  BY DEF OfClass
<1>2. OfTransport(e).retryable = Retryable(e)
  BY DEF Failure, OverloadedFailure, OfTransport
<1>3. ReportedStatus(e) # 413 => (Retryable(e) <=> TransientStatus(e) # 0)
  BY RetryableOf DEF Refused, TransportClasses
<1>4. Retryable(e) \in BOOLEAN
  BY DEF Retryable
<1>. QED BY <1>1, <1>2, <1>3, <1>4, AgreesBy DEF Refused, TransportClasses

(* An APIError of no other class.                                          *)
LEMMA APIAgrees ==
  ASSUME NEW e \in RawErrors(Statuses, Nat), e.class = "API"
  PROVE  Agrees(e)
<1>1. OfClass(e) = OfAPIError(e)
  BY DEF OfClass
<1>2. SUFFICES ASSUME e.window = FALSE, ReportedStatus(e) # 413
               PROVE  OfAPIError(e).retryable = TRUE <=> TransientStatus(e) # 0
  BY <1>1, AgreesBy DEF Refused, TransportClasses
<1>3. Retryable(e) <=> TransientStatus(e) # 0
  BY <1>2, RetryableOf DEF Refused, TransportClasses
<1>4. TransientStatus(e) # 0 => IsRetryableStatus(TransientStatus(e))
  BY DEF TransientStatus, MarkedStatus, IsRetryableStatus
<1>5. Overloaded(e) => TransientStatus(e) # 0
  BY <1>2 DEF Overloaded, TransientStatus, MarkedStatus, IsRetryableStatus
<1>6. e.status # 401 /\ e.status # 403
  BY RawFields DEF StatusesOf
<1>. DEFINE status == IF TransientStatus(e) # 0 THEN TransientStatus(e)
                      ELSE IF e.status # 0 THEN e.status ELSE 500
<1>7. status # 401 /\ status # 403
  BY <1>4, <1>6 DEF IsRetryableStatus
<1>8. CASE TransientStatus(e) = 429
  <2>1. OfAPIError(e) = Failure("rate_limit", 429, TRUE)
    BY <1>8 DEF OfAPIError
  <2>. QED BY <1>8, <2>1 DEF Failure, OverloadedFailure
<1>9. CASE TransientStatus(e) # 429 /\ Overloaded(e)
  <2>1. OfAPIError(e) = OverloadedFailure
    BY <1>9 DEF OfAPIError
  <2>. QED BY <1>5, <1>9, <2>1 DEF Failure, OverloadedFailure
<1>10. CASE TransientStatus(e) # 429 /\ ~Overloaded(e)
  <2>1. OfAPIError(e) = OfStatus(status, Failure("upstream", status, Retryable(e)))
    BY <1>10 DEF OfAPIError
  <2>2. OfAPIError(e) = Failure("upstream", status, Retryable(e))
    <3>1. \A st, f : st # 401 /\ st # 403 => OfStatus(st, f) = f
      BY DEF OfStatus
    <3>. HIDE DEF status
    <3>. QED BY <1>7, <2>1, <3>1
  <2>3. Retryable(e) \in BOOLEAN
    BY DEF Retryable
  <2>. QED BY <1>3, <2>2, <2>3 DEF Failure, OverloadedFailure
<1>. QED BY <1>8, <1>9, <1>10

(* Every raw exception.                                                    *)
LEMMA RawAgrees == ASSUME NEW e \in RawErrors(Statuses, Nat) PROVE Agrees(e)
<1>1. e.class \in Classes \ {"Failure"}
  BY RawFields
<1>. QED
  BY <1>1, ConnectionAgrees, RefusedAgrees, BusyAgrees, HTTPAgrees, OtherAgrees, APIAgrees
  DEF Classes, SDKClasses, Refused

(* A finished failure: that of a request too large is never retryable.     *)
Finished(f) ==
  /\ f.class = "Failure" /\ f.status \in Nat /\ f.body = 0 /\ f.retryable \in BOOLEAN
  /\ f.status = 413 => f.retryable = FALSE

(* A finished failure is final and agrees with itself.                     *)
LEMMA FinishedAgrees == ASSUME NEW f, Finished(f) PROVE Agrees(f) /\ Classified(f) = f
<1>1. Classified(f) = f
  BY DEF Finished, Classified
<1>2. ReportedStatus(f) = f.status
  BY DEF Finished, ReportedStatus
<1>3. Retryable(f) <=> f.retryable = TRUE
  BY <1>2 DEF Finished, Retryable
<1>4. StreamRetryable(f) <=> f.retryable = TRUE
  BY DEF Finished, StreamRetryable
<1>. QED BY <1>1, <1>3, <1>4 DEF Agrees, Finished

(* What makes a failure finished.                                          *)
LEMMA FinishedBy ==
  ASSUME NEW kind, NEW status \in Nat, NEW retryable \in BOOLEAN,
         status = 413 => retryable = FALSE
  PROVE  Finished(Failure(kind, status, retryable))
  BY DEF Finished, Failure

(* The failures of fixed meaning are finished.                             *)
LEMMA ConstantsFinished ==
  /\ Finished(ContextExceeded) /\ Finished(OverloadedFailure)
  /\ Finished(Failure("invalid_request", 400, FALSE))
  /\ Finished(Failure("invalid_request", 413, FALSE))
  /\ Finished(Failure("authentication", 401, FALSE))
  /\ Finished(Failure("permission", 403, FALSE))
  /\ Finished(Failure("rate_limit", 429, TRUE))
  /\ Finished(Failure("timeout", 500, TRUE))
  /\ Finished(Failure("timeout", 504, FALSE))
  /\ Finished(Failure("unavailable", 500, TRUE))
  /\ Finished(Failure("upstream", 500, FALSE))
  /\ Finished(Failure("upstream", 502, TRUE))
  /\ Finished(Failure("upstream", 502, FALSE))
  BY DEF Finished, Failure, ContextExceeded, OverloadedFailure

(* A failure by its status is finished.                                    *)
LEMMA StatusFinished ==
  ASSUME NEW status, NEW f, Finished(f) PROVE Finished(OfStatus(status, f))
<1>1. CASE status = 401
  <2>1. OfStatus(status, f) = Failure("authentication", 401, FALSE)
    BY <1>1 DEF OfStatus
  <2>. QED BY <2>1 DEF Finished, Failure, ContextExceeded, OverloadedFailure
<1>2. CASE status = 403
  <2>1. OfStatus(status, f) = Failure("permission", 403, FALSE)
    BY <1>2 DEF OfStatus
  <2>. QED BY <2>1 DEF Finished, Failure, ContextExceeded, OverloadedFailure
<1>3. CASE status \notin {401, 403}
  BY <1>3 DEF OfStatus
<1>. QED BY <1>1, <1>2, <1>3

(* The failure of a class is finished.                                     *)
LEMMA ClassFinished ==
  ASSUME NEW e \in RawErrors(Statuses, Nat), ReportedStatus(e) # 413
  PROVE  Finished(OfClass(e))
<1>1. e.class \in Classes \ {"Failure"} /\ e.status \in Nat
  BY RawFields DEF Statuses
<1>2. Retryable(e) \in BOOLEAN /\ IsRetryableStatus(e.status) \in BOOLEAN
  BY DEF Retryable, IsRetryableStatus
<1>3. e.status # 413
  BY DEF ReportedStatus
<1>4. CASE e.class \in TransportClasses \cup {"Protocol", "Other"}
  <2>1. OfClass(e) = OfTransport(e)
    <3>1. CASE e.class = "Other"
      BY <3>1 DEF OfClass
    <3>2. CASE e.class \in TransportClasses \cup {"Protocol"}
      BY <3>2, TransportClass
    <3>. QED BY <1>4, <3>1, <3>2
  <2>. QED BY <1>2, <2>1 DEF OfTransport, Finished, Failure
<1>5. CASE e.class \in {"APITimeout", "APIConnection"} \cup Refused \cup {"RateLimit"}
  <2>1. CASE e.class = "APITimeout"
    BY <2>1, ConstantsFinished DEF OfClass
  <2>2. CASE e.class = "APIConnection"
    BY <2>2, ConstantsFinished DEF OfClass
  <2>3. CASE e.class = "BadRequest"
    BY <2>3, ConstantsFinished DEF OfClass
  <2>4. CASE e.class = "Authentication"
    BY <2>4, ConstantsFinished DEF OfClass
  <2>5. CASE e.class = "PermissionDenied"
    BY <2>5, ConstantsFinished DEF OfClass
  <2>6. CASE e.class = "RateLimit"
    BY <2>6, ConstantsFinished DEF OfClass
  <2>. QED BY <1>5, <2>1, <2>2, <2>3, <2>4, <2>5, <2>6 DEF Refused
<1>6. CASE e.class = "InternalServer"
  <2>1. OfClass(e) = OverloadedFailure \/ OfClass(e) = Failure("upstream", e.status, TRUE)
    BY <1>6 DEF OfClass
  <2>2. Finished(Failure("upstream", e.status, TRUE))
    BY <1>1, <1>3, FinishedBy
  <2>3. CASE OfClass(e) = OverloadedFailure
    BY <2>3 DEF Finished, Failure, OverloadedFailure
  <2>. QED BY <2>1, <2>2, <2>3
<1>7. CASE e.class = "HTTPStatus"
  <2>1. OfClass(e) = OfHTTPStatus(e.status)
    BY <1>7 DEF OfClass
  <2>2. Finished(Failure("upstream", e.status, IsRetryableStatus(e.status)))
    BY <1>1, <1>2, <1>3, FinishedBy
  <2>. DEFINE f == CASE e.status = 429 -> Failure("rate_limit", 429, TRUE)
                     [] e.status = 400 -> Failure("invalid_request", 400, FALSE)
                     [] e.status \in 502 .. 504 -> OverloadedFailure
                     [] OTHER -> Failure("upstream", e.status, IsRetryableStatus(e.status))
  <2>3. \/ f = Failure("rate_limit", 429, TRUE)
        \/ f = Failure("invalid_request", 400, FALSE)
        \/ f = OverloadedFailure
        \/ f = Failure("upstream", e.status, IsRetryableStatus(e.status))
    <3>1. CASE e.status = 429
      BY <3>1
    <3>2. CASE e.status = 400
      BY <3>2
    <3>3. CASE e.status \in 502 .. 504
      <4>1. e.status # 429 /\ e.status # 400
        BY <1>1, <3>3
      <4>. QED BY <3>3, <4>1
    <3>4. CASE e.status \notin {400, 429} \cup 502 .. 504
      BY <3>4
    <3>. QED BY <3>1, <3>2, <3>3, <3>4
  <2>4. Finished(f)
    BY <2>2, <2>3, ConstantsFinished
  <2>5. OfHTTPStatus(e.status) = OfStatus(e.status, f)
    BY DEF OfHTTPStatus
  <2>. HIDE DEF f
  <2>. QED BY <2>1, <2>4, <2>5, StatusFinished
<1>8. CASE e.class = "API"
  <2>. DEFINE status == IF TransientStatus(e) # 0 THEN TransientStatus(e)
                        ELSE IF e.status # 0 THEN e.status ELSE 500
  <2>1. OfClass(e) = OfAPIError(e)
    BY <1>8 DEF OfClass
  <2>2. TransientStatus(e) # 0 => IsRetryableStatus(TransientStatus(e))
    BY <1>8 DEF TransientStatus, MarkedStatus, IsRetryableStatus
  <2>3. status \in Nat /\ status # 413
    BY <1>1, <1>3, <2>2 DEF IsRetryableStatus
  <2>4. Finished(OfStatus(status, Failure("upstream", status, Retryable(e))))
    <3>. HIDE DEF status
    <3>1. Finished(Failure("upstream", status, Retryable(e)))
      BY <1>2, <2>3, FinishedBy
    <3>. QED BY <3>1, StatusFinished
  <2>5. \/ OfAPIError(e) = Failure("rate_limit", 429, TRUE)
        \/ OfAPIError(e) = OverloadedFailure
        \/ OfAPIError(e) = OfStatus(status, Failure("upstream", status, Retryable(e)))
    BY DEF OfAPIError
  <2>. HIDE DEF status
  <2>6. CASE OfAPIError(e) = Failure("rate_limit", 429, TRUE)
    BY <2>1, <2>6 DEF Finished, Failure
  <2>7. CASE OfAPIError(e) = OverloadedFailure
    BY <2>1, <2>7 DEF Finished, Failure, OverloadedFailure
  <2>. QED BY <2>1, <2>4, <2>5, <2>6, <2>7
<1>. QED BY <1>1, <1>4, <1>5, <1>6, <1>7, <1>8 DEF Classes, SDKClasses, Refused

(* Classification yields a finished failure.                               *)
LEMMA ClassifiedFinished ==
  ASSUME NEW e \in RawErrors(Statuses, Nat) PROVE Finished(Classified(e))
<1>1. e.window \in BOOLEAN
  BY RawFields
<1>2. CASE e.window = TRUE
  <2>1. Classified(e) = ContextExceeded
    BY <1>2, ClassifiedBy
  <2>. QED BY <2>1 DEF Finished, Failure, ContextExceeded
<1>3. CASE e.window = FALSE /\ ReportedStatus(e) = 413
  <2>1. Classified(e) = Failure("invalid_request", 413, FALSE)
    BY <1>3, ClassifiedBy
  <2>. QED BY <2>1 DEF Finished, Failure
<1>4. CASE e.window = FALSE /\ ReportedStatus(e) # 413
  BY <1>4, ClassifiedBy, ClassFinished
<1>. QED BY <1>1, <1>2, <1>3, <1>4

(* A provider's override yields a finished failure.                        *)
LEMMA OverridesFinished ==
  ASSUME NEW e, NEW f \in OfNIM(e) \cup OfOpenRouter(e) \cup OfCodex(e) PROVE Finished(f)
<1>1. CASE f \in OfNIM(e)
  <2>1. \/ f = ContextExceeded
        \/ f = OverloadedFailure
        \/ f = Failure("timeout", 504, FALSE)
        \/ f = Failure("upstream", 500, FALSE)
    BY <1>1 DEF OfNIM
  <2>2. CASE f = ContextExceeded
    BY <2>2 DEF Finished, Failure, ContextExceeded
  <2>3. CASE f = OverloadedFailure
    BY <2>3 DEF Finished, Failure, OverloadedFailure
  <2>4. CASE f = Failure("timeout", 504, FALSE)
    BY <2>4 DEF Finished, Failure
  <2>5. CASE f = Failure("upstream", 500, FALSE)
    BY <2>5 DEF Finished, Failure
  <2>. QED BY <2>1, <2>2, <2>3, <2>4, <2>5
<1>2. CASE f \in OfOpenRouter(e)
  <2>1. f = Failure("invalid_request", 400, FALSE)
    BY <1>2 DEF OfOpenRouter
  <2>. QED BY <2>1 DEF Finished, Failure, ContextExceeded, OverloadedFailure
<1>3. CASE f \in OfCodex(e)
  <2>1. \/ f = ContextExceeded
        \/ f = OverloadedFailure
        \/ f = Failure("authentication", 401, FALSE)
        \/ f = Failure("rate_limit", 429, TRUE)
        \/ f = Failure("upstream", 502, TRUE)
        \/ f = Failure("upstream", 502, FALSE)
    BY <1>3 DEF OfCodex
  <2>2. CASE f = ContextExceeded
    BY <2>2 DEF Finished, Failure, ContextExceeded
  <2>3. CASE f = OverloadedFailure
    BY <2>3 DEF Finished, Failure, OverloadedFailure
  <2>4. CASE f = Failure("authentication", 401, FALSE)
    BY <2>4 DEF Finished, Failure
  <2>5. CASE f = Failure("rate_limit", 429, TRUE)
    BY <2>5 DEF Finished, Failure
  <2>6. CASE f = Failure("upstream", 502, TRUE)
    BY <2>6 DEF Finished, Failure
  <2>7. CASE f = Failure("upstream", 502, FALSE)
    BY <2>7 DEF Finished, Failure
  <2>. QED BY <2>1, <2>2, <2>3, <2>4, <2>5, <2>6, <2>7
<1>. QED BY <1>1, <1>2, <1>3

(* The three decisions about an exception agree, whatever its class, its   *)
(* statuses and its text, and whatever a provider's override makes of it:  *)
(* the client is told "retryable" exactly when the controller would spend  *)
(* another attempt on it (the ceiling of Retry-After aside),               *)
(* the stream runner differs from the admission controller on connect,     *)
(* write and pool timeouts only, and a failure that is raised again by an  *)
(* outer layer keeps its meaning.                                          *)
THEOREM DecisionsAgree ==
  ASSUME NEW e \in RawErrors(Statuses, Nat), NEW f \in Effective(e)
  PROVE  /\ Classified(f).retryable = TRUE <=> Retryable(f)
         /\ StreamRetryable(f) <=> Retryable(f) /\ f.class # "WaitTimeout"
         /\ Classified(Classified(f)) = Classified(f)
         /\ Retryable(Classified(f)) <=> Retryable(f)
         /\ StreamRetryable(Classified(f)) <=> Retryable(f)
<1>1. Agrees(f) /\ Finished(Classified(f))
  <2>1. CASE f = e
    BY <2>1, RawAgrees, ClassifiedFinished
  <2>2. CASE f # e
    <3>1. Finished(f)
      BY <2>2, OverridesFinished DEF Effective
    <3>2. Agrees(f) /\ Classified(f) = f
      BY <3>1, FinishedAgrees
    <3>. QED BY <3>1, <3>2
  <2>. QED BY <2>1, <2>2
<1>. DEFINE told == Classified(f)
<1>2. Agrees(told) /\ Classified(told) = told
  BY <1>1, FinishedAgrees
<1>3. told.class = "Failure"
  BY <1>1 DEF Finished, Failure
<1>. HIDE DEF told
<1>4. told.retryable = TRUE <=> Retryable(f)
  BY <1>1 DEF Agrees, told
<1>5. /\ Retryable(told) <=> told.retryable = TRUE
      /\ StreamRetryable(told) <=> Retryable(told)
  BY <1>2, <1>3 DEF Agrees
<1>. QED BY <1>1, <1>2, <1>4, <1>5 DEF Agrees, told
=============================================================================
