------------------------- MODULE InferenceResponse --------------------------
(***************************************************************************)
(* One streaming inference request: the chat-completion runner, the        *)
(* executor's progress deadline around it, and the HTTP response that      *)
(* pulls the events out of it, closes it and gives the generation lease    *)
(* back.                                                                   *)
(*                                                                         *)
(* The status line waits for the first event: a failure before it is a     *)
(* JSON error, a failure after it an error frame at the end of the stream. *)
(* The client may disconnect, or the server cancel the request, at any     *)
(* time and more than once; it may also stop reading, and a send to it     *)
(* then blocks the response, the runner and the deadline alike.            *)
(***************************************************************************)
EXTENDS OpenAIChatStream

VARIABLES
  serving,   \* where the task that serves the request is
  reply,     \* what the client was sent
  frame,     \* an error frame ended the stream
  released   \* how often the lease was released

responseVars == <<serving, reply, frame, released>>
requestVars  == <<vars, responseVars>>

RequestInit ==
  /\ Init
  /\ serving = "waiting" /\ reply = "none" /\ frame = FALSE /\ released = 0

-----------------------------------------------------------------------------
Pulling == serving \in {"waiting", "streaming"}

(* What is sent goes out at once, or the send waits for the client.        *)
Sends == {"streaming", "blocked"}

(* The runner advances while an event is awaited; the first one commits    *)
(* the response.                                                           *)
RunStep ==
  /\ Pulling /\ Run
  /\ IF client'.starts > 0 THEN reply' = "stream" ELSE reply' = reply
  /\ IF client'.starts > 0 /\ client' # client THEN serving' \in Sends
                                               ELSE UNCHANGED serving
  /\ UNCHANGED <<frame, released>>

(* The client takes what is sent: the generator resumes from its yield.    *)
SendEnds ==
  /\ serving = "blocked" /\ serving' = "streaming"
  /\ UNCHANGED <<vars, reply, frame, released>>

(* Slip: a keepalive renews the progress deadline.                         *)
ExpireInSilence ==
  /\ Pulling /\ ~committed
  /\ Abandon("expired")
  /\ UNCHANGED responseVars

(* No event but keepalives for the length of the progress timeout.  It is  *)
(* a time on the clock, tested when the next event is pulled.              *)
ProgressExpires ==
  /\ Pulling
  /\ Abandon("expired")
  /\ UNCHANGED responseVars

Failed == phase = "done" /\ outcome \in {"failed", "expired"}

(* _close_pre_start_body finds nothing left to close.                      *)
FirstEventFails ==
  /\ serving = "waiting" /\ Failed
  /\ reply' = "json" /\ serving' = "releasing"
  /\ UNCHANGED <<vars, frame, released>>

(* _PrefetchedStream turns the failure into the last frame.                *)
LaterEventFails ==
  /\ serving = "streaming" /\ Failed /\ ~frame
  /\ frame' = TRUE /\ serving' \in Sends
  /\ UNCHANGED <<vars, reply, released>>

BodyEnds ==
  /\ serving = "streaming" /\ phase = "done" /\ (outcome = "completed" \/ frame)
  /\ serving' = "closing"
  /\ UNCHANGED <<vars, reply, frame, released>>

(* Slip: the lease goes back while the body is being closed.               *)
LeaveAtOnce ==
  /\ Pulling \/ serving = "blocked"
  /\ serving' = "closing" /\ released' = released + 1
  /\ UNCHANGED <<vars, reply, frame>>

(* A disconnect, a cancellation, or a send that fails.                     *)
Leave ==
  /\ Pulling \/ serving = "blocked"
  /\ serving' = "closing"
  /\ UNCHANGED <<vars, reply, frame, released>>

(* Closing the body closes the runner, if it has not ended.                *)
CloseBody ==
  /\ serving = "closing" /\ serving' = "releasing"
  /\ IF phase = "done" THEN UNCHANGED vars ELSE Abandon("cancelled")
  /\ UNCHANGED <<reply, frame, released>>

ReleaseLease ==
  /\ serving = "releasing" /\ serving' = "over"
  /\ released' = released + 1
  /\ UNCHANGED <<vars, reply, frame>>

RequestNext ==
  \/ RunStep \/ SendEnds \/ ProgressExpires \/ FirstEventFails \/ LaterEventFails \/ BodyEnds
  \/ Leave \/ CloseBody \/ ReleaseLease

RequestSpec == RequestInit /\ [][RequestNext]_requestVars

(* Tasks run and closing ends.  Nothing is assumed of the upstream, nor of *)
(* the time it takes: the progress deadline is what ends a wait.  Nothing  *)
(* is assumed of the client either: no timeout bounds a send.              *)
BodyMoves    == FirstEventFails \/ LaterEventFails \/ BodyEnds
CleanupMoves == CloseBody \/ ReleaseLease

RequestFairness ==
  WF_requestVars(ProgressExpires) /\ WF_requestVars(BodyMoves) /\ WF_requestVars(CleanupMoves)

-----------------------------------------------------------------------------
(* Type invariant.                                                         *)
TypeOK ==
  /\ StreamTypeOK
  /\ serving \in {"waiting", "streaming", "blocked", "closing", "releasing", "over"}
  /\ reply \in {"none", "json", "stream"}
  /\ frame \in BOOLEAN /\ released \in Nat

(* What the client receives obeys the stream contract at every point,      *)
(* whatever was held back, replayed, continued or repaired; a provider     *)
(* failure leaves no block open, and a JSON error is sent to a client that *)
(* has seen nothing.                                                       *)
ContractKept ==
  /\ client.legal
  /\ outcome = "failed" => client.open = {}
  /\ reply = "json" => client = NewClient

(* All the content a client has seen comes from one upstream answer: once  *)
(* it has seen some, the request is not answered from the beginning again. *)
OneAnswer == client.of \subseteq {ledger.id}

(* The lease is released once, and not before the upstream stream and its  *)
(* admitted attempt are closed.                                            *)
LeaseOutlivesStream ==
  /\ released <= 1
  /\ released > 0 => phase = "done" /\ ~upstream

(* Every request ends and gives its lease back, though upstream be silent, *)
(* unless a send to a client that stays and does not read blocks for ever. *)
RequestEnds == (released = 0) ~> (released > 0 \/ [](serving = "blocked"))

(* ARCHITECTURE.md: a retry after a commit by keepalives reuses the        *)
(* message_start that was delivered.                                       *)
MessageStartsOnce == client.starts <= 1
=============================================================================
