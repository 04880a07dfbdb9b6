----------------------------- MODULE MCRequests -----------------------------
(* Small instances of the components that serve a request: the Messages    *)
(* endpoint, the store of the Responses adapter, the side panel and the    *)
(* bridge that runs its commands.  MCReplies runs them beside the others   *)
(* of its components; a behaviour runs the one that it has chosen.         *)
EXTENDS Naturals, FiniteSets

CONSTANTS
  NONE,
  MaxBlocks, MaxBuffered, MaxRedirects,
  Requests, MaxStored,
  MaxRounds, MaxCalls, MaxSends,
  MaxFrames

VARIABLES
  component,
  awaits, streaming, forwarded, feed, source, calls, buffer, pending, view, reply, frame, hops,
  connector,
  memory, file, loaded, turn, previous, turns, newer, unread,
  at, aborted, history, round, left, card, timer, saved, pinned, cleared, savedCleared, sends,
  replies,
  frames, pipe, open, host, serving, verdict, shell, kin, drained, answers, started, logged

endpointVars == <<awaits, streaming, forwarded, feed, source, calls, buffer, pending, view, reply,
                  frame, hops, connector>>
storeVars    == <<memory, file, loaded, turn, previous, turns, newer, unread>>
panelVars    == <<at, aborted, history, round, left, card, timer, saved, pinned, cleared,
                  savedCleared, sends, replies>>
bridgeVars   == <<frames, pipe, open, host, serving, verdict, shell, kin, drained, answers, started,
                  logged>>
requestVars  == <<endpointVars, storeVars, panelVars, bridgeVars>>

Endpoint == INSTANCE MessagesEndpoint WITH at <- awaits, upstream <- feed, client <- view
Store    == INSTANCE ResponsesStore WITH history <- turns
Panel    == INSTANCE SidePanel
Bridge   == INSTANCE CommandBridge

(* What the store keeps is at least the newest turn.                       *)
ASSUME StoreAssumption == MaxStored \in Nat \ {0} /\ NONE \notin Requests

(* A fetch follows so many redirects.                                     *)
ASSUME RedirectsAssumption == MaxRedirects \in Nat

(* The panel's bounds are numbers.                                         *)
ASSUME PanelAssumption == MaxRounds \in Nat /\ MaxCalls \in Nat /\ MaxSends \in Nat

RequestInit ==
  /\ Endpoint!Init /\ Store!Init /\ Panel!Init /\ Bridge!Init
  /\ component # "endpoint" => streaming

RequestNext ==
  \/ /\ component = "endpoint" /\ Endpoint!EndpointNext
     /\ UNCHANGED <<storeVars, panelVars, bridgeVars>>
  \/ /\ component = "store" /\ Store!StoreNext
     /\ UNCHANGED <<endpointVars, panelVars, bridgeVars>>
  \/ /\ component = "panel" /\ Panel!PanelNext
     /\ UNCHANGED <<endpointVars, storeVars, bridgeVars>>
  \/ /\ component = "bridge" /\ Bridge!BridgeNext
     /\ UNCHANGED <<endpointVars, storeVars, panelVars>>

-----------------------------------------------------------------------------
(* The properties, each stated in the module of its component.             *)

(* What is asked has one answer, its own: a Messages request one of the    *)
(* form it asked for, a frame of the bridge one in its turn, unless the    *)
(* host ends with it.                                                      *)
EachRequestIsAnswered ==
  /\ component = "endpoint" => Endpoint!EndpointTypeOK /\ Endpoint!EachRequestIsAnswered
  /\ component = "bridge" => Bridge!BridgeTypeOK /\ Bridge!EachFrameIsAnswered

(* A completed response can be continued.                                  *)
ContinuationsAreServed == component = "store" => Store!StoreTypeOK /\ Store!ContinuationsAreServed

(* The panel replays histories that a provider accepts.                    *)
RequestsAreReplayable ==
  /\ [](component = "panel" => Panel!PanelTypeOK)
  /\ Panel!RequestsAreReplayable
==============================================================================
