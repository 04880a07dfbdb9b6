------------------------------ MODULE AdminConsole ------------------------------
(***************************************************************************)
(* The server controls of the admin page: a poll that shows whether the    *)
(* server answers, and the Restart and Stop buttons of a page that is      *)
(* served by the process it controls.                                      *)
(*                                                                         *)
(* A restart is done when another instance answers.  A poll that is under  *)
(* way when a button is clicked goes on, and may enable the buttons again, *)
(* so that two actions can overlap.                                        *)
(*                                                                         *)
(* Operators marked "Slip:" are plausible defective variants of the        *)
(* operator they precede; the specification does not use them.             *)
(***************************************************************************)
EXTENDS Naturals, FiniteSets

CONSTANTS
  Polls,        \* polls that may be under way at once
  Clicks,       \* clicks, each an action of the page
  MaxInstances  \* servers that are started, for model checking

VARIABLES
  server,       \* the instance that answers, zero if none does
  born,         \* instances so far
  pill,         \* serverState on the page
  controls,     \* Restart and Stop are enabled
  busy,         \* serverBusy
  timer,        \* a poll is scheduled
  poll,         \* each poll under way, or "none"
  act,          \* each click: what it is and how far it got
  config        \* the load after a restart "failed", or not (an observer)

vars == <<server, born, pill, controls, busy, timer, poll, act, config>>

New == [kind |-> "none", at |-> "new", previous |-> 0, started |-> 0, seen |-> 0]

Init ==
  /\ server = 1 /\ born = 1
  /\ pill = "unknown" /\ controls = TRUE /\ busy = FALSE /\ timer = FALSE
  /\ poll \in [Polls -> {"none", "asked"}]
  /\ Cardinality({q \in Polls : poll[q] = "asked"}) = 1
  /\ act = [c \in Clicks |-> New]
  /\ config = "loaded"

-----------------------------------------------------------------------------
(* The server.                                                             *)

(* It ends because it was asked to, or for another reason.                 *)
Ends ==
  /\ server # 0 /\ server' = 0
  /\ UNCHANGED <<born, pill, controls, busy, timer, poll, act, config>>

(* By the restart, by the desktop application or by a user.                *)
Starts ==
  /\ server = 0 /\ born < MaxInstances
  /\ server' = born + 1 /\ born' = born + 1
  /\ UNCHANGED <<pill, controls, busy, timer, poll, act, config>>

-----------------------------------------------------------------------------
(* Polling.                                                                *)

(* pollServerState: a page that is busy does not poll, nor schedules one.  *)
PollFires ==
  /\ timer /\ timer' = FALSE
  /\ IF busy THEN UNCHANGED poll
     ELSE \E q \in Polls : poll[q] = "none" /\ poll' = [poll EXCEPT ![q] = "asked"]
  /\ UNCHANGED <<server, born, pill, controls, busy, act, config>>

(* What serverInstance finds; a request may fail for another reason.       *)
Probes == {server, 0}

PollAnswered(q) ==
  /\ poll[q] = "asked"
  /\ \E i \in Probes : poll' = [poll EXCEPT ![q] = IF i # 0 THEN "up" ELSE "down"]
  /\ UNCHANGED <<server, born, pill, controls, busy, timer, act, config>>

Shows(up) == pill' = (IF up THEN "running" ELSE "stopped") /\ controls' = up

PollArrives(q) ==
  /\ poll[q] \in {"up", "down"}
  /\ Shows(poll[q] = "up") /\ timer' = TRUE
  /\ poll' = [poll EXCEPT ![q] = "none"]
  /\ UNCHANGED <<server, born, busy, act, config>>

-----------------------------------------------------------------------------
(* Restart and stop.                                                       *)

Step(c, at) == act' = [act EXCEPT ![c].at = at]
Over(c)     == act' = [act EXCEPT ![c] = [New EXCEPT !.at = "done"]]

Click(c) ==
  /\ act[c].at = "new" /\ controls
  /\ \E kind \in {"restart", "stop"} :
       act' = [act EXCEPT ![c].kind = kind, ![c].started = server,
                          ![c].at = IF kind = "restart" THEN "probing" ELSE "posting"]
  /\ busy' = TRUE /\ timer' = FALSE /\ controls' = FALSE /\ pill' = "changing"
  /\ UNCHANGED <<server, born, poll, config>>

Probed(c) ==
  /\ act[c].at = "probing"
  /\ \E i \in Probes : act' = [act EXCEPT ![c].previous = i, ![c].at = "posting"]
  /\ UNCHANGED <<server, born, pill, controls, busy, timer, poll, config>>

(* The request may be lost, and its answer too, which is the same for the  *)
(* page.                                                                   *)
Posted(c) ==
  /\ act[c].at = "posting"
  /\ Step(c, "waiting")
  /\ UNCHANGED <<server, born, pill, controls, busy, timer, poll, config>>

(* Slip: any instance that answers ends a restart.                         *)
IsBackAny(c, i) == i # 0
IsBack(c, i) == i # 0 /\ i # act[c].previous

(* The wait of a restart: another instance answers, and the page loads the *)
(* configuration again.                                                    *)
ComesBack(c) ==
  /\ act[c].at = "waiting" /\ act[c].kind = "restart"
  /\ \E i \in Probes : IsBack(c, i) /\ act' = [act EXCEPT ![c].at = "loading", ![c].seen = i]
  /\ busy' = FALSE /\ Shows(TRUE)
  /\ UNCHANGED <<server, born, timer, poll, config>>

(* It ran into its timeout.                                                *)
StaysAway(c) ==
  /\ act[c].at = "waiting" /\ act[c].kind = "restart"
  /\ busy' = FALSE /\ Shows(FALSE) /\ timer' = TRUE /\ Over(c)
  /\ UNCHANGED <<server, born, poll, config>>

(* load() after a restart; nothing is scheduled when it fails.             *)
Reloaded(c) ==
  /\ act[c].at = "loading"
  /\ Over(c)
  /\ \/ server # 0 /\ timer' = TRUE /\ config' = "loaded"
     \/ timer' = timer /\ config' = "failed"
  /\ UNCHANGED <<server, born, pill, controls, busy, poll>>

(* The wait of a stop: nothing answers, or its timeout.  The buttons stay  *)
(* as they are.                                                            *)
Stopped(c) ==
  /\ act[c].at = "waiting" /\ act[c].kind = "stop"
  /\ busy' = FALSE /\ pill' = "stopped" /\ timer' = TRUE /\ Over(c)
  /\ UNCHANGED <<server, born, controls, poll, config>>

ConsoleNext ==
  \/ Ends \/ Starts \/ PollFires
  \/ \E q \in Polls : PollAnswered(q) \/ PollArrives(q)
  \/ \E c \in Clicks :
       Click(c) \/ Probed(c) \/ Posted(c) \/ ComesBack(c) \/ StaysAway(c) \/ Reloaded(c) \/ Stopped(c)

ConsoleSpec == Init /\ [][ConsoleNext]_vars

-----------------------------------------------------------------------------
(* Type invariant.                                                         *)
ConsoleTypeOK ==
  /\ server \in 0..born /\ born \in 1..MaxInstances
  /\ pill \in {"unknown", "running", "stopped", "changing"}
  /\ {controls, busy, timer} \subseteq BOOLEAN
  /\ poll \in [Polls -> {"none", "asked", "up", "down"}]
  /\ \A c \in Clicks : act[c].at \in {"new", "probing", "posting", "waiting", "loading", "done"}

UnderWay == {c \in Clicks : act[c].at \notin {"new", "done"}}
Watches  == timer \/ UnderWay # {} \/ \E q \in Polls : poll[q] # "none"

(* A restart that is reported has put another server in the place of the   *)
(* one that answered when it was clicked, unless that one could not be     *)
(* identified.                                                             *)
RestartsAreReal ==
  \A c \in Clicks :
    act[c].seen # 0 => act[c].seen # act[c].started \/ act[c].previous = 0

(* The page goes on watching its server, however polls and actions overlap *)
(* and however they end, unless it could not load the configuration after  *)
(* a restart.                                                              *)
WatchesOn == Watches \/ config = "failed"

ConsoleHolds == RestartsAreReal /\ WatchesOn
================================================================================
