----------------------------- MODULE ClaimQueue -----------------------------
(***************************************************************************)
(* What one conversation tree promises about execution: a single server    *)
(* that is granted one claim at a time.  A prompt that arrives while the   *)
(* server is free is granted it at once, otherwise it waits; a waiting     *)
(* prompt may be withdrawn; and when the served claim is released the      *)
(* prompt that has waited longest is granted the next one.  No claim id is *)
(* granted twice.                                                          *)
(***************************************************************************)
CONSTANTS Nodes, Claims, NONE

VARIABLES
  waiting,  \* prompts that wait
  before,   \* pairs <<a, b>> of waiting prompts, a having arrived first
  serving,  \* the granted claim and its prompt, NONE when the server is free
  granted   \* every claim id granted so far

vars == <<waiting, before, serving, granted>>

Init ==
  /\ waiting = {}
  /\ before  = {}
  /\ serving = NONE
  /\ granted = {}

Grant(n, k) ==
  /\ k \in Claims \ granted
  /\ serving' = [claim |-> k, node |-> n]
  /\ granted' = granted \cup {k}

Stay(S) ==
  /\ waiting' = S
  /\ before'  = before \cap (S \X S)

ArriveFree(n, k) ==
  /\ serving = NONE
  /\ Grant(n, k)
  /\ UNCHANGED <<waiting, before>>

ArriveBusy(n) ==
  /\ serving # NONE
  /\ n \notin waiting
  /\ waiting' = waiting \cup {n}
  /\ before'  = before \cup (waiting \X {n})
  /\ UNCHANGED <<serving, granted>>

Withdraw(rest) ==
  /\ Stay(rest)
  /\ UNCHANGED <<serving, granted>>

ReleaseIdle ==
  /\ serving # NONE
  /\ waiting = {}
  /\ serving' = NONE
  /\ UNCHANGED <<waiting, before, granted>>

ReleaseNext(n, k) ==
  /\ serving # NONE
  /\ n \in waiting
  /\ \A m \in waiting : <<m, n>> \notin before
  /\ Grant(n, k)
  /\ Stay(waiting \ {n})

Next ==
  \/ \E n \in Nodes : ArriveBusy(n) \/ \E k \in Claims : ArriveFree(n, k) \/ ReleaseNext(n, k)
  \/ \E rest \in SUBSET waiting : Withdraw(rest)
  \/ ReleaseIdle

Spec == Init /\ [][Next]_vars
=============================================================================
