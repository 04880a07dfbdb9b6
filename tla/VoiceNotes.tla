----------------------------- MODULE VoiceNotes -----------------------------
(***************************************************************************)
(* Voice notes on their way into the messaging workflow: the registry of   *)
(* pending voices (PendingVoiceRegistry) and the flow that drives one note *)
(* (VoiceNoteFlow.handle).                                                 *)
(*                                                                         *)
(* A flow reserves the note, posts and binds a status message, transcribes *)
(* and hands the text to the workflow in a task of its own, which owns the *)
(* note until it ends.  A stop or a clear takes ownership away and drains  *)
(* the handoffs.  The text may be such a command itself: then the handoff  *)
(* is the one that drains.                                                 *)
(*                                                                         *)
(* A claim stands for one generation of a note: a note that is delivered   *)
(* again gets another.  The registry's lock is never held across a         *)
(* suspension, so every critical section is one step.                      *)
(***************************************************************************)
EXTENDS Naturals, FiniteSets

CONSTANTS
  Claims,   \* generations of voice notes
  Voices,   \* voice message ids
  VoiceOf,  \* the note a claim is for
  Commands, \* stops and clears that are typed
  NONE      \* no claim

VARIABLES
  flow,      \* where VoiceNoteFlow.handle is
  notes,     \* _pending, by the note and by the claim's status message
  bound,     \* claims with a status_message_id
  handoff,   \* handoff_task
  draining,  \* what a cancellation waits for
  taking,    \* the claims it has removed
  completed, \* claims whose flow ended its own handoff
  reported   \* claims a cancellation has reported

vars == <<flow, notes, bound, handoff, draining, taking, completed, reported>>

(* A claim's own status message stands under the claim's name.             *)
Refs       == Voices \cup Claims
Cancellers == Claims \cup Commands

Init ==
  /\ flow = [c \in Claims |-> "idle"]
  /\ notes = [r \in Refs |-> NONE]
  /\ bound = {}
  /\ handoff = [c \in Claims |-> "none"]
  /\ draining = [x \in Cancellers |-> {}]
  /\ taking = [x \in Cancellers |-> {}]
  /\ completed = {} /\ reported = {}

-----------------------------------------------------------------------------
(* The registry's critical sections.                                       *)

(* _entry_for_claim                                                        *)
Owned(c) == notes[VoiceOf[c]] = c

(* _remove: both references, if they are this entry's.                     *)
Without(refs, gone) == [r \in Refs |-> IF refs[r] \in gone THEN NONE ELSE refs[r]]

Ended(c) == handoff[c] \in {"none", "ended"}

-----------------------------------------------------------------------------
(* The flow of one note.                                                   *)

Goto(c, place) == flow' = [flow EXCEPT ![c] = place]

(* reserve: a note that is pending is not taken twice.                     *)
ReserveNote(c) ==
  /\ flow[c] = "idle"
  /\ IF notes[VoiceOf[c]] # NONE
     THEN Goto(c, "over") /\ UNCHANGED notes
     ELSE /\ Goto(c, "reserved")
          /\ notes' = [notes EXCEPT ![VoiceOf[c]] = c]
  /\ UNCHANGED <<bound, handoff, draining, taking, completed, reported>>

(* The status message is posted, then bind_status.                         *)
BindStatus(c) ==
  /\ flow[c] = "reserved"
  /\ IF Owned(c)
     THEN /\ Goto(c, "bound")
          /\ bound' = bound \cup {c}
          /\ notes' = [notes EXCEPT ![c] = c]
     ELSE Goto(c, "failed") /\ UNCHANGED <<bound, notes>>
  /\ UNCHANGED <<handoff, draining, taking, completed, reported>>

(* The post, the download or the transcription fails, or the flow is       *)
(* cancelled there.                                                        *)
FlowFails(c) ==
  /\ flow[c] \in {"reserved", "bound"}
  /\ Goto(c, "failed")
  /\ UNCHANGED <<notes, bound, handoff, draining, taking, completed, reported>>

(* handoff: rejected unless the claim still owns its entry.                *)
StartHandoff(c) ==
  /\ flow[c] = "bound"
  /\ IF Owned(c)
     THEN Goto(c, "handing") /\ handoff' = [handoff EXCEPT ![c] = "running"]
     ELSE Goto(c, "failed") /\ UNCHANGED handoff
  /\ UNCHANGED <<notes, bound, draining, taking, completed, reported>>

(* The workflow is done with the text, or the handoff is cancelled in it.  *)
(* A command the handoff runs is finished first, in either case.           *)
HandoffEnds(c) ==
  /\ handoff[c] = "running" /\ taking[c] = {}
  /\ handoff' = [handoff EXCEPT ![c] = "ended"]
  /\ UNCHANGED <<flow, notes, bound, draining, taking, completed, reported>>

(* The caller is cancelled: the handoff is cancelled and drained.          *)
FlowCancelled(c) ==
  /\ flow[c] = "handing"
  /\ Goto(c, "draining")
  /\ UNCHANGED <<notes, bound, handoff, draining, taking, completed, reported>>

(* _complete_if_owned, in a task of its own, once the handoff has ended.   *)
FinishOwnership(c) ==
  /\ flow[c] \in {"handing", "draining"} /\ handoff[c] = "ended"
  /\ IF Owned(c)
     THEN /\ notes' = Without(notes, {c})
          /\ completed' = IF flow[c] = "handing" THEN completed \cup {c} ELSE completed
     ELSE UNCHANGED <<notes, completed>>
  /\ Goto(c, "over")
  /\ UNCHANGED <<bound, handoff, draining, taking, reported>>

(* discard, from _finish_failed_pending_voice, which no cancellation stops.*)
DiscardNote(c) ==
  /\ flow[c] = "failed"
  /\ notes' = IF Owned(c) THEN Without(notes, {c}) ELSE notes
  /\ Goto(c, "over")
  /\ UNCHANGED <<bound, handoff, draining, taking, completed, reported>>

-----------------------------------------------------------------------------
(* Cancellation: cancel for one reference, cancel_all for every one.       *)

(* Slip: only the handoff itself is left out.                              *)
ExcludedSelf(x) == {x}

(* _is_excluded: the handoff that runs the command, and every handoff that *)
(* is draining others itself.                                              *)
Excluded(x) == {x} \cup {c \in Claims : taking[c] # {}}

CancelMatching(x, refs) ==
  /\ x \in Claims => handoff[x] = "running"
  /\ taking[x] = {}
  /\ LET entries == {notes[r] : r \in refs} \ ({NONE} \cup Excluded(x))
     IN  /\ entries # {}
         /\ notes' = Without(notes, entries)
         /\ taking' = [taking EXCEPT ![x] = entries]
         /\ draining' = [draining EXCEPT ![x] = {c \in entries : handoff[c] # "none"}]
  /\ UNCHANGED <<flow, bound, handoff, completed, reported>>

(* The drain is over: the cancellation reports what it has taken.          *)
CancelReturns(x) ==
  /\ taking[x] # {} /\ \A c \in draining[x] : handoff[c] = "ended"
  /\ reported' = reported \cup taking[x]
  /\ taking' = [taking EXCEPT ![x] = {}]
  /\ draining' = [draining EXCEPT ![x] = {}]
  /\ UNCHANGED <<flow, notes, bound, handoff, completed>>

VoiceNext ==
  \/ \E c \in Claims : \/ ReserveNote(c) \/ BindStatus(c) \/ FlowFails(c)
                       \/ StartHandoff(c) \/ HandoffEnds(c) \/ FlowCancelled(c)
                       \/ FinishOwnership(c) \/ DiscardNote(c)
  \/ \E x \in Cancellers : \/ CancelMatching(x, Refs)
                           \/ \E r \in Refs : CancelMatching(x, {r})
                           \/ CancelReturns(x)

Spec == Init /\ [][VoiceNext]_vars

-----------------------------------------------------------------------------
(* Types.                                                                  *)
TypeOK ==
  /\ flow \in [Claims -> {"idle", "reserved", "bound", "handing", "draining", "failed", "over"}]
  /\ notes \in [Refs -> Claims \cup {NONE}]
  /\ bound \subseteq Claims
  /\ handoff \in [Claims -> {"none", "running", "ended"}]
  /\ draining \in [Cancellers -> SUBSET Claims]
  /\ taking \in [Cancellers -> SUBSET Claims]
  /\ completed \subseteq Claims /\ reported \subseteq Claims

(* A note is completed or stopped, and no cancellation that has taken it   *)
(* sees it completed.                                                      *)
OneOutcome == \A c \in completed : c \notin reported /\ \A x \in Cancellers : c \notin taking[x]

(* When a cancellation has reported a note, its handoff is over, and none  *)
(* starts later.                                                           *)
StoppedHasEnded == \A c \in reported : Ended(c)

(* A flow that is over has left no reference, and no generation loses its  *)
(* references to the end of an older one.                                  *)
NoStaleReference ==
  /\ \A c \in Claims : flow[c] = "over" => \A r \in Refs : notes[r] # c
  /\ \A c \in Claims : Owned(c) /\ c \in bound <=> notes[c] = c

(* Commands that are spoken do not wait for each other.                    *)
NoMutualDrain ==
  \A S \in (SUBSET Claims) \ {{}} :
    \E x \in S : draining[x] \cap S \cap {c \in Claims : ~Ended(c)} = {}

(* A voice note has one owner: its flow, or the stop that took it.         *)
VoiceHasOneOwner == OneOutcome /\ StoppedHasEnded /\ NoStaleReference /\ NoMutualDrain
=============================================================================
