------------------------ MODULE MCSessionPersistence ------------------------
(* Small instances of the components of messaging that have no interaction *)
(* here: the persistence of the session store, the workflow that admits    *)
(* and removes prompts, the voice notes, and the delivery of the edits of  *)
(* a message.  A behaviour runs the one that it has chosen at the start    *)
(* and leaves the others alone.                                            *)
EXTENDS SessionPersistence, TLC

CONSTANTS
  NONE,
  Turns, Chats, ChatOf, MaxStops, MaxClears,
  Claims, Voices, VoiceOf, Commands,
  Requests, Keys, KeyOf, Awaited, Forced, MaxRetries, message,
  chat, note, again, other, note1, note2

VARIABLES
  component,
  stopGeneration, clearGenerations, operation, turn, token, parent, nodes, live, stored,
  tracked, chatMessages, doomed, notice, noticed, leftBehind, stopped, cleared,
  flow, notes, bound, handoff, draining, taking, completed, reported,
  task, text, number, numbers, attempts, answer, ready, queue, func, futures, worker, current,
  active, shown, pending, recoveries, recovery, closing

workflowVars == <<stopGeneration, clearGenerations, operation, turn, token, parent, nodes, live,
                  stored, tracked, chatMessages, doomed, notice, noticed, leftBehind, stopped,
                  cleared>>
voiceVars    == <<flow, notes, bound, handoff, draining, taking, completed, reported>>
deliveryVars == <<task, text, number, numbers, attempts, answer, ready, queue, func, futures,
                  worker, current, active, shown, pending, recoveries, recovery, closing>>
allVars      == <<component, vars, workflowVars, voiceVars, deliveryVars>>

Workflow == INSTANCE MessagingWorkflow WITH chat <- chatMessages
Voice    == INSTANCE VoiceNotes
Delivery == INSTANCE MessageDelivery

(* The instances: prompts of one chat, and a note that comes twice.        *)
OneChat == [t \in Turns |-> chat]
OneMessage == [r \in Requests |-> message]
Notes   == (note :> note1) @@ (again :> note1) @@ (other :> note2)

(* Every generation is of one note, and has a name of its own.             *)
ASSUME VoiceAssumption ==
  /\ VoiceOf \in [Claims -> Voices] /\ Claims \cap Voices = {}
  /\ NONE \notin Claims

(* A prompt is of one chat, and no command that holds the lock is NONE.    *)
ASSUME WorkflowAssumption ==
  /\ ChatOf \in [Turns -> Chats] /\ MaxStops \in Nat /\ MaxClears \in Nat
  /\ NONE \notin [kind : {"stop_all", "stop_reply", "clear_reply", "clear"},
                  of : Turns \cup Chats \cup {NONE}, step : {"cancel", "save", "commit", "detach", "store"},
                  ids : SUBSET Workflow!Messages, failed : BOOLEAN]

MCInit ==
  /\ component \in {"persistence", "workflow", "voice", "delivery"}
  /\ Init /\ Workflow!Init /\ Voice!Init /\ Delivery!DeliveryInit

MCNext ==
  /\ UNCHANGED component
  /\ \/ component = "persistence" /\ Next /\ UNCHANGED <<workflowVars, voiceVars, deliveryVars>>
     \/ component = "workflow" /\ Workflow!WorkflowNext /\ UNCHANGED <<vars, voiceVars, deliveryVars>>
     \/ component = "voice" /\ Voice!VoiceNext /\ UNCHANGED <<vars, workflowVars, deliveryVars>>
     \/ component = "delivery" /\ Delivery!DeliveryNext /\ UNCHANGED <<vars, workflowVars, voiceVars>>

(* The fairness of the threads, while their component is chosen.           *)
ThreadsAreFair ==
  LET on == component = "persistence" IN
  /\ WF_vars(on /\ FlushClaims)
  /\ \A g \in Timers : WF_vars(on /\ TimerStep(g))
  /\ \A w \in Writers : WF_vars(on /\ SaveStep(w))

MCSpec == MCInit /\ [][MCNext]_allVars /\ ThreadsAreFair

-----------------------------------------------------------------------------
(* The properties of the other components, each stated in its module.      *)

(* What a stop or a clear passed by neither runs nor stays.                *)
BoundariesHold == component = "workflow" => Workflow!TypeOK /\ Workflow!BoundariesHold

(* A voice note has one owner.                                             *)
VoiceHasOneOwner == component = "voice" => Voice!TypeOK /\ Voice!VoiceHasOneOwner

(* Delivery loses no caller and no last edit, and stops for good.          *)
DeliveryHolds == component = "delivery" => Delivery!TypeOK /\ Delivery!DeliveryHolds
=============================================================================
