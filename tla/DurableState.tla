---------------------------- MODULE DurableState ----------------------------
(***************************************************************************)
(* What the session store promises about the state it persists: the copy   *)
(* on disk only moves forward, never ahead of the state in memory; once a  *)
(* flush or an authoritative write has returned, what it was called for is *)
(* on disk; and a crash goes back to the copy on disk.                     *)
(***************************************************************************)
EXTENDS Naturals

VARIABLES
  memory,  \* version of the state in memory
  disk,    \* version of the copy on disk
  acked    \* last version that a call has confirmed

vars == <<memory, disk, acked>>

Init == memory = 0 /\ disk = 0 /\ acked = 0

Change ==
  /\ memory' = memory + 1
  /\ UNCHANGED <<disk, acked>>

Persist ==
  /\ disk' \in disk..memory
  /\ UNCHANGED <<memory, acked>>

Confirm ==
  /\ disk = memory
  /\ acked' = memory
  /\ UNCHANGED <<memory, disk>>

Crash ==
  /\ memory' = disk
  /\ UNCHANGED <<disk, acked>>

Next == Change \/ Persist \/ Confirm \/ Crash

Spec == Init /\ [][Next]_vars
=============================================================================
