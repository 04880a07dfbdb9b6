----------------------------- MODULE HedgedOpen -----------------------------
(***************************************************************************)
(* Opening an upstream stream on a pool of API keys: ApiKeyPool and the    *)
(* sequential and hedged opens of OpenAIChatProvider.                      *)
(*                                                                         *)
(* An open holds one concurrency slot, the one of its admitted attempt,    *)
(* until its stream is closed.  A hedged open takes the longest-idle key   *)
(* and, if that key stays quiet, races it against a second one under a     *)
(* second slot, which it takes straight from the semaphore and returns by  *)
(* hand.  A race that is left early is cleaned up by a background task.    *)
(*                                                                         *)
(* Time is abstract: a hold on a key and an entry of its window expire at  *)
(* any moment.  A 403 rotates like a 401, or is any other failure, as the  *)
(* provider has it.  has_eligible_key and get_next_key run without a       *)
(* suspension between them, so the key that the first saw is there.        *)
(***************************************************************************)
EXTENDS Naturals, FiniteSets, SequencesExt, FiniteSetsExt

CONSTANTS
  Opens,        \* executions of _create_stream
  Keys,         \* the distinct API keys
  Slots,        \* the provider's max_concurrency
  RateLimit,    \* sends per key and window
  MaxFailures,  \* _MAX_CONSECUTIVE_FAILURES
  NONE          \* no key

VARIABLES
  stage,     \* where an open is
  task,      \* its two racers
  key,       \* the keys they use
  losers,    \* racers left to the cleanup task
  extra,     \* hedge_slots_held, and those the cleanup task has to return
  tries,     \* keys the sequential open may still try
  permits,   \* _concurrency_sem._value
  idleOrder, \* the keys by last_used_at
  sent,      \* sends in a key's window
  strikes,   \* consecutive_failures
  retired,   \* keys with failed set
  cooling    \* keys whose unavailable_until is ahead

open == <<stage, task, key, losers, extra, tries>>
pool == <<idleOrder, sent, strikes, retired, cooling>>
vars == <<open, permits, pool>>

Racers  == {1, 2}
Results == {"opened", "refused", "limited", "failed"}

AtRest  == {"idle", "cleaning", "cancelled"}  \* without a slot of its own

Init ==
  /\ stage = [o \in Opens |-> "idle"]
  /\ task = [o \in Opens |-> [i \in Racers |-> "none"]]
  /\ key = [o \in Opens |-> [i \in Racers |-> NONE]]
  /\ losers = [o \in Opens |-> {}]
  /\ extra = [o \in Opens |-> 0]
  /\ tries = [o \in Opens |-> 0]
  /\ permits = Slots
  /\ idleOrder = SetToSeq(Keys)
  /\ sent = [k \in Keys |-> 0]
  /\ strikes = [k \in Keys |-> 0]
  /\ retired = {} /\ cooling = {}

-----------------------------------------------------------------------------
(* The key pool.                                                           *)

Usable(k) == k \notin retired \cup cooling

KeyAt(places) == IF places = {} THEN NONE ELSE idleOrder[Min(places)]

(* Slip: a key whose window is full is picked all the same.                *)
AnyUsableKey(excluded) ==
  KeyAt({i \in DOMAIN idleOrder : Usable(idleOrder[i]) /\ idleOrder[i] \notin excluded})

(* get_next_key: the longest-idle usable key with room in its window.      *)
NextKey(excluded) ==
  KeyAt({i \in DOMAIN idleOrder : /\ Usable(idleOrder[i]) /\ idleOrder[i] \notin excluded
                                  /\ sent[idleOrder[i]] < RateLimit})

Reserve(k) ==
  /\ sent' = [sent EXCEPT ![k] = @ + 1]
  /\ \E i \in DOMAIN idleOrder :
       idleOrder[i] = k /\ idleOrder' = Append(RemoveAt(idleOrder, i), k)
  /\ UNCHANGED <<strikes, retired, cooling>>

(* mark_succeeded, mark_failed and mark_rate_limited.                      *)
Judge(k, result) ==
  /\ strikes' = [strikes EXCEPT ![k] = CASE result = "opened"  -> 0
                                           [] result = "refused" -> Min({@ + 1, MaxFailures})
                                           [] OTHER              -> @]
  /\ retired' = IF strikes'[k] = MaxFailures THEN retired \cup {k} ELSE retired
  /\ cooling' = IF \/ result = "limited"
                   \/ result = "refused" /\ strikes'[k] < MaxFailures
                THEN cooling \cup {k} ELSE cooling
  /\ UNCHANGED <<idleOrder, sent>>

HoldExpires(k) ==
  /\ k \in cooling
  /\ cooling' = cooling \ {k}
  /\ UNCHANGED <<open, permits, idleOrder, sent, strikes, retired>>

WindowMoves(k) ==
  /\ sent[k] > 0
  /\ sent' = [sent EXCEPT ![k] = @ - 1]
  /\ UNCHANGED <<open, permits, idleOrder, strikes, retired, cooling>>

-----------------------------------------------------------------------------
(* Racers.                                                                 *)

Running(o) == {i \in Racers : task[o][i] # "none"} \ losers[o]
Other(i)   == 3 - i

RacerEnds(o, i, result) ==
  /\ task[o][i] = "running"
  /\ task' = [task EXCEPT ![o][i] = result]
  /\ UNCHANGED <<stage, key, losers, extra, tries, permits, pool>>

(* Slip: the finally block returns the slot and leaves it to the cleanup.  *)
LeaveRaceTwice(o, left, next) ==
  /\ stage' = [stage EXCEPT ![o] = IF next = "cancelled" /\ left = {} THEN "idle" ELSE next]
  /\ losers' = [losers EXCEPT ![o] = left]
  /\ extra' = [extra EXCEPT ![o] = IF left = {} THEN 0 ELSE @]
  /\ permits' = permits + extra[o] + (IF next \in AtRest THEN 1 ELSE 0)

(* The finally block: what is still racing goes to the cleanup task, with  *)
(* the extra slot; otherwise the slot is returned here.  An open that ends *)
(* returns its own slot too.                                               *)
LeaveRace(o, left, next) ==
  /\ stage' = [stage EXCEPT ![o] = IF next = "cancelled" /\ left = {} THEN "idle" ELSE next]
  /\ losers' = [losers EXCEPT ![o] = left]
  /\ extra' = [extra EXCEPT ![o] = IF left = {} THEN 0 ELSE @]
  /\ permits' = permits + (IF left = {} THEN extra[o] ELSE 0)
                        + (IF next \in AtRest THEN 1 ELSE 0)

(* _cancel_remaining returns the slot when the last racer is gone.         *)
RacerCancelled(o, i) ==
  /\ i \in losers[o]
  /\ task' = [task EXCEPT ![o][i] = "none"]
  /\ key' = [key EXCEPT ![o][i] = NONE]
  /\ losers' = [losers EXCEPT ![o] = @ \ {i}]
  /\ IF losers'[o] = {}
     THEN /\ permits' = permits + extra[o]
          /\ extra' = [extra EXCEPT ![o] = 0]
          /\ stage' = [stage EXCEPT ![o] = IF @ \in AtRest THEN "idle" ELSE @]
     ELSE UNCHANGED <<permits, extra, stage>>
  /\ UNCHANGED <<tries, pool>>

-----------------------------------------------------------------------------
(* The opens.                                                              *)

OpenAttempt(o) ==
  /\ stage[o] = "idle" /\ permits > 0
  /\ stage' = [stage EXCEPT ![o] = "admitted"]
  /\ permits' = permits - 1
  /\ UNCHANGED <<task, key, losers, extra, tries, pool>>

StartOn(o, i, k, next) ==
  /\ Reserve(k)
  /\ task' = [task EXCEPT ![o][i] = "running"]
  /\ key' = [key EXCEPT ![o][i] = k]
  /\ stage' = [stage EXCEPT ![o] = next]

TurnSequential(o) == /\ stage' = [stage EXCEPT ![o] = "sequential"]
                     /\ tries' = [tries EXCEPT ![o] = Cardinality(Keys)]

StartHedged(o) ==
  /\ stage[o] = "admitted"
  /\ IF NextKey({}) = NONE
     THEN TurnSequential(o) /\ UNCHANGED <<task, key, pool>>
     ELSE StartOn(o, 1, NextKey({}), "quiet") /\ UNCHANGED tries
  /\ UNCHANGED <<losers, extra, permits>>

(* The hedge delay is over: a second key, if there is one and a slot.      *)
Hedge(o) ==
  /\ stage[o] = "quiet" /\ task[o][1] = "running"
  /\ LET k == NextKey({key[o][1]})
     IN  \/ /\ k # NONE /\ permits > 0
            /\ StartOn(o, 2, k, "racing")
            /\ extra' = [extra EXCEPT ![o] = @ + 1]
            /\ permits' = permits - 1
         \/ /\ stage' = [stage EXCEPT ![o] = "alone"]
            /\ UNCHANGED <<task, key, extra, permits, pool>>
  /\ UNCHANGED <<losers, tries>>

Forget(o, i) == /\ task' = [task EXCEPT ![o][i] = "none"]
                /\ key' = [key EXCEPT ![o][i] = NONE]

(* The only racer has ended, before the delay or without a second key.     *)
SoleRacerDone(o) ==
  /\ stage[o] \in {"quiet", "alone"} /\ task[o][1] \in Results
  /\ Judge(key[o][1], task[o][1]) /\ Forget(o, 1)
  /\ CASE task[o][1] = "opened" -> LeaveRace(o, {}, "streaming") /\ UNCHANGED tries
       [] task[o][1] = "failed" -> LeaveRace(o, {}, "idle") /\ UNCHANGED tries
       [] OTHER -> TurnSequential(o) /\ UNCHANGED <<losers, extra, permits>>

(* A racer has ended: the first to open wins; a failure returns the extra  *)
(* slot, and the last one decides whether the rest of the pool is tried.   *)
RacerDone(o, i) ==
  /\ stage[o] = "racing" /\ task[o][i] \in Results
  /\ Judge(key[o][i], task[o][i]) /\ Forget(o, i)
  /\ LET left    == Running(o) \ {i}
         surplus == extra[o] > 0 /\ Cardinality(left) <= extra[o]
     IN  CASE task[o][i] = "opened" -> LeaveRace(o, left, "streaming") /\ UNCHANGED tries
           [] task[o][i] # "opened" /\ left # {} ->
                /\ extra' = [extra EXCEPT ![o] = IF surplus THEN @ - 1 ELSE @]
                /\ permits' = permits + (IF surplus THEN 1 ELSE 0)
                /\ UNCHANGED <<stage, losers, tries>>
           [] task[o][i] = "failed" /\ left = {} -> LeaveRace(o, {}, "idle") /\ UNCHANGED tries
           [] OTHER -> TurnSequential(o) /\ UNCHANGED <<losers, extra, permits>>

(* The next key in turn.  The open waits a moment for a window to move if  *)
(* no key was tried yet, and fails when there is no key left.              *)
Waiting(o) == stage[o] = "sequential" /\ tries[o] = Cardinality(Keys)

SequentialTry(o) ==
  /\ stage[o] \in {"sequential", "lingering"}
  /\ LET k == NextKey({})
     IN  \/ /\ tries[o] > 0 /\ k # NONE
            /\ StartOn(o, 1, k, "calling")
            /\ tries' = [tries EXCEPT ![o] = @ - 1]
            /\ UNCHANGED permits
         \/ /\ k = NONE /\ Waiting(o) /\ \E j \in Keys : Usable(j)
            /\ stage' = [stage EXCEPT ![o] = "lingering"]
            /\ UNCHANGED <<task, key, tries, permits, pool>>
         \/ /\ k = NONE \/ tries[o] = 0
            /\ stage' = [stage EXCEPT ![o] = "idle"]
            /\ permits' = permits + 1
            /\ UNCHANGED <<task, key, tries, pool>>
  /\ UNCHANGED <<losers, extra>>

SequentialDone(o) ==
  /\ stage[o] = "calling" /\ task[o][1] \in Results
  /\ Judge(key[o][1], task[o][1]) /\ Forget(o, 1)
  /\ stage' = [stage EXCEPT ![o] = CASE task[o][1] = "opened" -> "streaming"
                                     [] task[o][1] = "failed" -> "idle"
                                     [] OTHER                 -> "sequential"]
  /\ permits' = permits + (IF task[o][1] = "failed" THEN 1 ELSE 0)
  /\ UNCHANGED <<losers, extra, tries>>

(* The stream ends, or the caller is cancelled while it opens.             *)
CloseStream(o) ==
  /\ stage[o] = "streaming"
  /\ stage' = [stage EXCEPT ![o] = IF losers[o] = {} THEN "idle" ELSE "cleaning"]
  /\ permits' = permits + 1
  /\ UNCHANGED <<task, key, losers, extra, tries, pool>>

Cancel(o) ==
  /\ \/ /\ stage[o] \in {"quiet", "alone", "racing"}
        /\ LeaveRace(o, Running(o), "cancelled")
        /\ UNCHANGED <<task, key>>
     \/ /\ stage[o] \in {"admitted", "sequential", "lingering", "calling"}
        /\ Forget(o, 1)
        /\ LeaveRace(o, {}, "idle")
  /\ UNCHANGED <<tries, pool>>

OpenStep(o) ==
  \/ OpenAttempt(o) \/ StartHedged(o) \/ Hedge(o) \/ SoleRacerDone(o)
  \/ SequentialTry(o) \/ SequentialDone(o) \/ CloseStream(o) \/ Cancel(o)
  \/ \E i \in Racers : \/ RacerDone(o, i) \/ RacerCancelled(o, i)
                       \/ \E result \in Results : RacerEnds(o, i, result)

HedgeNext == \/ \E o \in Opens : OpenStep(o)
             \/ \E k \in Keys : HoldExpires(k) \/ WindowMoves(k)

Spec == Init /\ [][HedgeNext]_vars

-----------------------------------------------------------------------------
(* Types.                                                                  *)
TypeOK ==
  /\ stage \in [Opens -> {"admitted", "quiet", "alone", "racing", "sequential",
                          "lingering", "calling", "streaming"} \cup AtRest]
  /\ task \in [Opens -> [Racers -> {"none", "running"} \cup Results]]
  /\ key \in [Opens -> [Racers -> Keys \cup {NONE}]]
  /\ losers \in [Opens -> SUBSET Racers]
  /\ extra \in [Opens -> 0 .. 1]
  /\ tries \in [Opens -> 0 .. Cardinality(Keys)]
  /\ permits \in Nat
  /\ ToSet(idleOrder) = Keys /\ Len(idleOrder) = Cardinality(Keys)
  /\ sent \in [Keys -> 0 .. RateLimit]
  /\ strikes \in [Keys -> 0 .. MaxFailures]
  /\ retired \subseteq Keys /\ cooling \subseteq Keys

Admitted == {o \in Opens : stage[o] \notin AtRest}

(* Every slot is accounted for: free, held by an admitted open, or the     *)
(* extra one of a race or of the cleanup of one.                           *)
SlotsAccounted == permits + Cardinality(Admitted) + Cardinality({o \in Opens : extra[o] = 1}) = Slots

(* The upstream calls an open has in flight, its stream included, are no   *)
(* more than the slots it has, unless it was cancelled: then its racers    *)
(* are being torn down while its own slot is free already.                 *)
CallsHaveSlots ==
  \A o \in Opens : stage[o] # "cancelled" =>
    Cardinality({i \in Racers : task[o][i] # "none"}) + (IF stage[o] = "streaming" THEN 1 ELSE 0)
      <= (IF o \in Admitted THEN 1 ELSE 0) + extra[o]

(* The slots a hedged open takes and returns by hand: each is returned     *)
(* once, whichever way the race ends, and not before its racer is gone.    *)
HedgeSlotsReturn == SlotsAccounted /\ CallsHaveSlots
=============================================================================
