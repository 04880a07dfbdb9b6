--------------------------- MODULE LeasedResource ---------------------------
(***************************************************************************)
(* What one provider generation promises to those who use it: it may be    *)
(* leased while it is open, it is retired once and for all, it is cleaned  *)
(* up only when it is retired and nobody holds it - unless the owner       *)
(* forces it - and a cleanup that succeeded is never repeated.             *)
(***************************************************************************)
VARIABLES
  held,     \* somebody holds a lease
  life,     \* "unused", "open", "retired" or "closed"
  cleanup   \* "idle", "running", "forced", or "failed" after a failed attempt

vars == <<held, life, cleanup>>

Idle == cleanup \in {"idle", "failed"}

Init ==
  /\ held = FALSE
  /\ life \in {"unused", "open"}
  /\ cleanup = "idle"

Open ==
  /\ life = "unused" /\ life' = "open"
  /\ UNCHANGED <<held, cleanup>>

Lease ==
  /\ life = "open"
  /\ held' = TRUE
  /\ UNCHANGED <<life, cleanup>>

(* The last holder leaves; a retired generation may be cleaned up at once. *)
Leave ==
  /\ held /\ ~held'
  /\ UNCHANGED life
  /\ cleanup' # cleanup => life = "retired" /\ Idle /\ cleanup' = "running"

Retire ==
  /\ life = "open" /\ life' = "retired"
  /\ cleanup' \in {cleanup, "running"}
  /\ cleanup' = "running" => ~held
  /\ UNCHANGED held

StartCleanup ==
  /\ life = "retired" /\ Idle
  /\ \/ ~held /\ cleanup' = "running"
     \/ cleanup' = "forced"
  /\ UNCHANGED <<held, life>>

CleanupEnds ==
  /\ ~Idle
  /\ \/ life' = "closed" /\ cleanup' = "idle"
     \/ UNCHANGED life /\ cleanup' = "failed"
  /\ UNCHANGED held

Next == Open \/ Lease \/ Leave \/ Retire \/ StartCleanup \/ CleanupEnds

Spec == Init /\ [][Next]_vars
=============================================================================
