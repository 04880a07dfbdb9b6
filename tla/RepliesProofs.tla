----------------------------- MODULE RepliesProofs -----------------------------
(* What RequestProofs shows of the components that serve a request holds   *)
(* of every behaviour of MCReplies, whichever component it runs.           *)
EXTENDS MCReplies, RequestProofs

(* Whichever component runs, the store takes a step of its own or none.    *)
LEMMA StoreRuns ==
  ASSUME [MCNext]_allVars
  PROVE  [Store!StoreNext]_storeVars
<1>1. MCNext => [Store!StoreNext]_storeVars
  BY Zenon DEF MCNext, StreamNext, RequestNext, AdminNext, requestVars, storeVars
<1>2. UNCHANGED allVars => UNCHANGED storeVars
  BY Zenon DEF allVars, requestVars
<1> QED
  BY <1>1, <1>2

LEMMA EndpointRuns ==
  ASSUME [MCNext]_allVars
  PROVE  [Endpoint!EndpointNext]_endpointVars
<1>1. MCNext => [Endpoint!EndpointNext]_endpointVars
  BY Zenon DEF MCNext, StreamNext, RequestNext, AdminNext, requestVars, endpointVars
<1>2. UNCHANGED allVars => UNCHANGED endpointVars
  BY Zenon DEF allVars, requestVars
<1> QED
  BY <1>1, <1>2

LEMMA BridgeRuns ==
  ASSUME [MCNext]_allVars
  PROVE  [Bridge!BridgeNext]_bridgeVars
<1>1. MCNext => [Bridge!BridgeNext]_bridgeVars
  BY Zenon DEF MCNext, StreamNext, RequestNext, AdminNext, requestVars, bridgeVars
<1>2. UNCHANGED allVars => UNCHANGED bridgeVars
  BY Zenon DEF allVars, requestVars
<1> QED
  BY <1>1, <1>2

LEMMA PanelRuns ==
  ASSUME [MCNext]_allVars
  PROVE  [Panel!PanelNext]_panelVars
<1>1. MCNext => [Panel!PanelNext]_panelVars
  BY Zenon DEF MCNext, StreamNext, RequestNext, AdminNext, requestVars, panelVars
<1>2. UNCHANGED allVars => UNCHANGED panelVars
  BY Zenon DEF allVars, requestVars
<1> QED
  BY <1>1, <1>2

(* A response that its client has seen completed can be continued, with    *)
(* all of its turns, until it has made way or its file cannot be read: for *)
(* any number of requests and any capacity of the store.                   *)
THEOREM ContinuationsCorrect == MCSpec => []ContinuationsAreServed
<1>1. MCInit => StoreIInv
  BY StoreInitially, Zenon DEF MCInit, RequestInit
<1>2. StoreIInv /\ [MCNext]_allVars => StoreIInv'
  BY StoreRuns, StoreStepKeeps, Zenon
<1>3. StoreIInv => ContinuationsAreServed
  BY StoreIsServed, Zenon DEF ContinuationsAreServed
<1> QED
  BY <1>1, <1>2, <1>3, PTL DEF MCSpec

(* A Messages request has one answer of the form it asked for, which is    *)
(* one legal message or is known to have failed, for any bounds of its     *)
(* parts; a frame of the bridge has one answer, in its turn, for any       *)
(* number of frames.                                                       *)
THEOREM AnswersCorrect == MCSpec => []EachRequestIsAnswered
<1> DEFINE Inv == EndpointIInv /\ BridgeIInv
<1>1. MCInit => Inv
  BY EndpointInitially, BridgeInitially, Zenon DEF MCInit, RequestInit
<1>2. Inv /\ [MCNext]_allVars => Inv'
  BY EndpointRuns, EndpointStepKeeps, BridgeRuns, BridgeStepKeeps, Zenon
<1>3. Inv => EachRequestIsAnswered
  BY EndpointAnswers, BridgeAnswers, Zenon
  DEF EachRequestIsAnswered, EndpointIInv, BridgeIInv
<1> QED
  BY <1>1, <1>2, <1>3, PTL DEF MCSpec

(* Every request of the side panel replays a history that a provider       *)
(* accepts, whatever was stopped, cut off, trimmed or restored, unless the *)
(* conversation was cleared under the turn; and a turn that was stopped    *)
(* runs no further tool and waits for no approval.                         *)
THEOREM ReplaysCorrect == MCSpec => RequestsAreReplayable
<1>1. MCInit => PanelIInv
  BY PanelInitially DEF MCInit, RequestInit
<1>2. PanelIInv /\ [MCNext]_allVars => PanelIInv'
  BY PanelRuns, PanelKeeps
<1>3. PanelIInv => (component = "panel" => Panel!PanelTypeOK)
  BY DEF PanelIInv
<1>4. PanelIInv /\ PanelIInv' /\ [MCNext]_allVars =>
        [/\ Panel!Asks => cleared' \/ Panel!Replayable(history')
         /\ Panel!Acts => ~aborted
         /\ aborted' => at' # "approving"]_(Panel!vars)
  BY PanelRuns, PanelReplays
<1> QED
  BY <1>1, <1>2, <1>3, <1>4, PTL DEF MCSpec, RequestsAreReplayable, Panel!RequestsAreReplayable
================================================================================
