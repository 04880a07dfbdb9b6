------------------------- MODULE SessionPersistence -------------------------
(***************************************************************************)
(* DebouncedJsonPersistence under the SessionStore: one thread, that of    *)
(* the event loop, changes the conversation state, flushes it and clears   *)
(* it; every change starts a timer thread that saves the state a moment    *)
(* later, and replaces the timer before it.                                *)
(*                                                                         *)
(* Three locks order the threads.  The store's lock covers each change     *)
(* with its scheduling, each snapshot, each write of the dirty flag, and   *)
(* the whole of a clear, its file write included.  The timer lock covers   *)
(* the registered timer and the generation.  The writer lock covers a file *)
(* write and the check of the generation that precedes it.  A section of   *)
(* the first two that does not wait is one step.  The file is replaced     *)
(* atomically, so that a crash leaves the old copy or the new one.  Taking *)
(* a snapshot copies strings and does not fail; a file write may.          *)
(*                                                                         *)
(* Operators marked "Slip:" are plausible defective variants of the        *)
(* operator they precede; the specification does not use them.             *)
(***************************************************************************)
EXTENDS Naturals

CONSTANTS
  Timers,      \* timer threads, named by the generation that started them
  Main,        \* the thread of the event loop
  MaxVersion   \* bound on the changes, for model checking

ASSUME PersistenceAssumption ==
  /\ Timers \subseteq Nat \ {0}
  /\ Main \notin Nat
  /\ MaxVersion \in Nat

Writers == Timers \cup {Main}

VARIABLES
  memory,      \* version of the state in the store
  disk,        \* version of the session file
  acked,       \* last version that a flush or clear returned for (history)
  full,        \* file writes fail at present
  dirty,       \* SessionStore._dirty
  generation,  \* _save_generation
  timer,       \* _save_timer: the registered timer, 0 for None
  phase,       \* where each thread is
  tag,         \* generation of the _PendingWrite of each thread
  snapshot,    \* version of its snapshot
  clearing     \* the call of the main thread is clear_scope

vars == <<memory, disk, acked, full, dirty, generation, timer, phase, tag, snapshot, clearing>>

(* "waiting" is the debounce interval, during which a timer can be         *)
(* cancelled; a "fired" one can not.  "flushing" is a flush that has not   *)
(* claimed the timer.  A "claimed" write has its generation, a "snapped"   *)
(* one its snapshot; "writing" holds the writer lock; a "written" one has  *)
(* released it, and found itself current in "marking"; a "failing" one is  *)
(* about to record its failure.                                            *)
Phases == {"idle", "waiting", "fired", "flushing", "claimed", "snapped", "writing", "written",
           "marking", "failing"}

Init ==
  /\ memory = 0 /\ disk = 0 /\ acked = 0
  /\ full = FALSE /\ dirty = FALSE
  /\ generation = 0 /\ timer = 0
  /\ phase = [w \in Writers |-> "idle"]
  /\ tag = [w \in Writers |-> 0] /\ snapshot = [w \in Writers |-> 0]
  /\ clearing = FALSE

-----------------------------------------------------------------------------
(* The store's lock is free, or held by the clear that w carries out.      *)
StoreFree(w) == clearing => w = Main

(* Slip: the dirty flag is set before the writer lock is released.         *)
WriterHeldToMark == \A w \in Writers : phase[w] \notin {"writing", "written", "marking"}

WriterFree == \A w \in Writers : phase[w] # "writing"

(* The threads after the registered timer is cancelled, if it still waits. *)
Stopped == [w \in Writers |-> IF w = timer /\ phase[w] = "waiting" THEN "idle" ELSE phase[w]]

Move(w, at) == phase' = [phase EXCEPT ![w] = at]

(* The save of w is over; a call that returns normally is a confirmation.  *)
Return(w) ==
  /\ Move(w, "idle")
  /\ acked' = IF w = Main THEN memory ELSE acked
  /\ clearing' = (clearing /\ w # Main)

-----------------------------------------------------------------------------
(* Calls of the main thread.                                               *)

(* Slip: a timer that waits is left to save the later change as well.      *)
SaveOnce ==
  /\ phase[Main] = "idle" /\ memory < MaxVersion
  /\ generation + 1 \in Timers
  /\ memory' = memory + 1
  /\ generation' = generation + 1
  /\ timer' = IF timer # 0 THEN timer ELSE generation'
  /\ phase' = IF timer # 0 THEN phase ELSE [phase EXCEPT ![generation'] = "waiting"]
  /\ dirty' = TRUE
  /\ UNCHANGED <<disk, acked, full, tag, snapshot, clearing>>

(* A change, with schedule_save.                                           *)
Save ==
  /\ phase[Main] = "idle" /\ memory < MaxVersion
  /\ generation + 1 \in Timers
  /\ memory' = memory + 1
  /\ generation' = generation + 1
  /\ timer' = generation'
  /\ phase' = [Stopped EXCEPT ![generation'] = "waiting"]
  /\ dirty' = TRUE
  /\ UNCHANGED <<disk, acked, full, tag, snapshot, clearing>>

Flush ==
  /\ phase[Main] = "idle"
  /\ Move(Main, "flushing")
  /\ dirty' = TRUE
  /\ UNCHANGED <<memory, disk, acked, full, generation, timer, tag, snapshot, clearing>>

(* Slip: the pending snapshots of earlier changes stay valid.              *)
ClearInPlace ==
  /\ phase[Main] = "idle" /\ memory < MaxVersion
  /\ memory' = memory + 1
  /\ timer' = 0
  /\ phase' = [Stopped EXCEPT ![Main] = "snapped"]
  /\ tag' = [tag EXCEPT ![Main] = generation]
  /\ snapshot' = [snapshot EXCEPT ![Main] = memory']
  /\ clearing' = TRUE /\ dirty' = TRUE
  /\ UNCHANGED <<disk, acked, full, generation>>

(* clear_scope up to write_data's wait for the writer lock, the store's    *)
(* lock held.                                                              *)
Clear ==
  /\ phase[Main] = "idle" /\ memory < MaxVersion
  /\ generation + 1 \in Timers
  /\ memory' = memory + 1
  /\ generation' = generation + 1
  /\ timer' = 0
  /\ phase' = [Stopped EXCEPT ![Main] = "snapped"]
  /\ tag' = [tag EXCEPT ![Main] = generation']
  /\ snapshot' = [snapshot EXCEPT ![Main] = memory']
  /\ clearing' = TRUE /\ dirty' = TRUE
  /\ UNCHANGED <<disk, acked, full>>

(* A flush claims whatever timer there is (_claim_timer).                  *)
FlushClaims ==
  /\ phase[Main] = "flushing"
  /\ phase' = [Stopped EXCEPT ![Main] = "claimed"]
  /\ tag' = [tag EXCEPT ![Main] = generation]
  /\ timer' = 0
  /\ UNCHANGED <<memory, disk, acked, full, dirty, generation, snapshot, clearing>>

-----------------------------------------------------------------------------
(* Timer threads.                                                          *)

TimerFires(g) ==
  /\ phase[g] = "waiting"
  /\ Move(g, "fired")
  /\ UNCHANGED <<memory, disk, acked, full, dirty, generation, timer, tag, snapshot, clearing>>

(* A timer that was superseded or claimed after it had fired does nothing. *)
TimerClaims(g) ==
  /\ phase[g] = "fired"
  /\ IF generation = g /\ timer # 0
     THEN /\ Move(g, "claimed")
          /\ tag' = [tag EXCEPT ![g] = generation]
          /\ timer' = 0
     ELSE Move(g, "idle") /\ UNCHANGED <<tag, timer>>
  /\ UNCHANGED <<memory, disk, acked, full, dirty, generation, snapshot, clearing>>

-----------------------------------------------------------------------------
(* The rest of a save, by either kind of thread.                           *)

TakeSnapshot(w) ==
  /\ phase[w] = "claimed" /\ StoreFree(w)
  /\ snapshot' = [snapshot EXCEPT ![w] = memory]
  /\ Move(w, "snapped")
  /\ UNCHANGED <<memory, disk, acked, full, dirty, generation, timer, tag, clearing>>

(* Slip: the generation is not checked again.                              *)
WriteAnyway(w) ==
  /\ phase[w] = "snapped" /\ WriterFree
  /\ Move(w, "writing")
  /\ UNCHANGED <<memory, disk, acked, full, dirty, generation, timer, tag, snapshot, clearing>>

(* _write_if_current; a superseded save returns without writing.           *)
WriteBegins(w) ==
  /\ phase[w] = "snapped" /\ WriterFree
  /\ IF tag[w] = generation
     THEN Move(w, "writing") /\ UNCHANGED <<acked, clearing>>
     ELSE Return(w)
  /\ UNCHANGED <<memory, disk, full, dirty, generation, timer, tag, snapshot>>

WriteEnds(w) ==
  /\ phase[w] = "writing"
  /\ IF full
     THEN Move(w, "failing") /\ UNCHANGED disk
     ELSE Move(w, "written") /\ disk' = snapshot[w]
  /\ UNCHANGED <<memory, acked, full, dirty, generation, timer, tag, snapshot, clearing>>

(* The failure of a timer is only recorded; that of a call is raised.      *)
WriteFailed(w) ==
  /\ phase[w] = "failing" /\ StoreFree(w)
  /\ dirty' = TRUE
  /\ Move(w, "idle")
  /\ clearing' = (clearing /\ w # Main)
  /\ UNCHANGED <<memory, disk, acked, full, generation, timer, tag, snapshot>>

(* _mark_clean_if_current looks under the timer lock and writes after it.  *)
MarkChecks(w) ==
  /\ phase[w] = "written"
  /\ IF timer = 0 /\ tag[w] = generation
     THEN Move(w, "marking") /\ UNCHANGED <<acked, clearing>>
     ELSE Return(w)
  /\ UNCHANGED <<memory, disk, full, dirty, generation, timer, tag, snapshot>>

MarkClean(w) ==
  /\ phase[w] = "marking" /\ StoreFree(w)
  /\ dirty' = FALSE
  /\ Return(w)
  /\ UNCHANGED <<memory, disk, full, generation, timer, tag, snapshot>>

-----------------------------------------------------------------------------
(* The environment.                                                        *)

DiskChanges ==
  /\ full' = ~full
  /\ UNCHANGED <<memory, disk, acked, dirty, generation, timer, phase, tag, snapshot, clearing>>

(* The process dies, timers with it, and the next one loads the file.      *)
Crash ==
  /\ memory' = disk
  /\ dirty' = FALSE /\ generation' = 0 /\ timer' = 0
  /\ phase' = [w \in Writers |-> "idle"]
  /\ tag' = [w \in Writers |-> 0] /\ snapshot' = [w \in Writers |-> 0]
  /\ clearing' = FALSE
  /\ UNCHANGED <<disk, acked, full>>

-----------------------------------------------------------------------------
Call        == Save \/ Flush \/ Clear
TimerStep(g) == TimerFires(g) \/ TimerClaims(g)
SaveStep(w) == \/ TakeSnapshot(w) \/ WriteBegins(w) \/ WriteEnds(w) \/ WriteFailed(w)
               \/ MarkChecks(w) \/ MarkClean(w)

Next ==
  \/ Call \/ FlushClaims
  \/ \E g \in Timers : TimerStep(g)
  \/ \E w \in Writers : SaveStep(w)
  \/ DiskChanges \/ Crash

Spec == Init /\ [][Next]_vars

-----------------------------------------------------------------------------
(* Type invariant; a registered timer is the newest one.                   *)
TypeOK ==
  /\ memory \in Nat /\ disk \in Nat /\ acked \in Nat
  /\ full \in BOOLEAN /\ dirty \in BOOLEAN /\ clearing \in BOOLEAN
  /\ generation \in Timers \cup {0}
  /\ timer      \in {0, generation}
  /\ phase      \in [Writers -> Phases]
  /\ tag        \in [Writers -> Timers \cup {0}]
  /\ snapshot   \in [Writers -> Nat]

(* No older snapshot lands after a newer one, whichever timers, flushes    *)
(* and clears overlap and wherever the process dies: what a clear removed  *)
(* from the file never comes back.                                         *)
DiskNeverGoesBack == [][disk' >= disk]_vars

(* A flush or a clear that returned without an error has put its state on  *)
(* disk, even if its own write was found superseded.                       *)
ConfirmedIsDurable == acked <= disk

(* The store is a durable state.                                           *)
Durable == INSTANCE DurableState

StoreIsDurable == Durable!Spec

-----------------------------------------------------------------------------
(* Scheduling: threads run, timers fire and file writes end.               *)
Fairness ==
  /\ WF_vars(FlushClaims)
  /\ \A g \in Timers : WF_vars(TimerStep(g))
  /\ \A w \in Writers : WF_vars(SaveStep(w))

FairSpec == Spec /\ Fairness

(* Once changes stop, and if no write fails, every change reaches the disk *)
(* without a flush: no timer is cancelled that was needed.                 *)
ChangesReachDisk == []~full => ((memory # disk) ~> (memory = disk))

(* Every flush and every clear returns or raises: the clear, which waits   *)
(* for the writer lock with the store's lock held, does not wait for a     *)
(* writer that waits for the store.                                        *)
CallsReturn == (phase[Main] # "idle") ~> (phase[Main] = "idle")
=============================================================================
