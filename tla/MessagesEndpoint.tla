---------------------------- MODULE MessagesEndpoint ----------------------------
(***************************************************************************)
(* One POST /v1/messages (api/handlers/messages.py): the request is        *)
(* refused, answered locally, answered with a web search or fetch of this  *)
(* process, or sent to a provider; and the answer, which is always         *)
(* produced as a stream of events, is passed on as one or folded into one  *)
(* JSON message, as the client asked.                                      *)
(*                                                                         *)
(* The automatic web search gives the provider one decision: its stream is *)
(* read to the end first, and then either replayed or replaced by the      *)
(* stream of a search that runs here.  The provider's stream is external;  *)
(* it keeps the contract of StreamContract, as the modules of the runners  *)
(* show of them, and ends only after its message has ended.                *)
(*                                                                         *)
(* Operators marked "Slip:" are plausible defective variants of the        *)
(* operator they precede; the specification does not use them.             *)
(***************************************************************************)
EXTENDS StreamContract, FiniteSets

CONSTANTS
  MaxBlocks,    \* content blocks of a provider's answer, for model checking
  MaxBuffered,  \* chunks that a decision may have (_MAX_SELECTION_STREAM_BYTES)
  MaxRedirects  \* _MAX_WEB_FETCH_REDIRECTS

VARIABLES
  at,           \* what the request awaits
  streaming,    \* request_data.stream
  forwarded,    \* tool definitions of the request that the provider got
  upstream,     \* the provider's stream: none, open or closed
  source,       \* what the provider has sent
  calls,        \* the tools that its message calls
  buffer,       \* chunks of a decision
  pending,      \* events of a body that are written without waiting
  client,       \* what the reader of the body, client or aggregator, has seen
  reply,        \* the answer so far
  frame,        \* an error frame ended the events
  hops,         \* redirect_hops
  connector     \* the connection of a fetch

vars == <<at, streaming, forwarded, upstream, source, calls, buffer, pending, client, reply, frame,
          hops, connector>>

-----------------------------------------------------------------------------
(* Which way a request goes.  A request is reduced to its tool_choice, the *)
(* kinds of its tools ("other" is a web tool of a version or a name that   *)
(* is not known), and what the checks of a search definition may find.     *)

ServerTools == {"search", "fetch", "other"}

MessageRequests ==
  [choice : {"auto", "search", "fetch", "any"}, tools : SUBSET (ServerTools \cup {"function"}),
   wellFormed : BOOLEAN, optimizable : BOOLEAN]

Forced(r) == r.choice \in {"search", "fetch"} /\ r.choice \in r.tools

(* plan_automatic_web_search: a search tool that comes alone, with a       *)
(* choice that forces nothing.                                             *)
Automatic(r) == r.choice = "auto" /\ r.tools = {"search"}

Route(r, enabled) ==
  CASE Automatic(r) /\ enabled /\ r.wellFormed     -> "automatic"
    [] Automatic(r) /\ ~(enabled /\ r.wellFormed)  -> "refused"
    [] ~Automatic(r) /\ Forced(r) /\ ~enabled      -> "refused"
    [] ~Automatic(r) /\ ~Forced(r) /\ r.tools \cap ServerTools # {} -> "refused"
    [] ~Automatic(r) /\ Forced(r) /\ enabled       -> "forced"
    [] r.tools \cap ServerTools = {} /\ r.optimizable -> "local"
    [] OTHER -> "provider"

(* The request of a decision has a plain function in place of the search.  *)
Translated(r) == IF Automatic(r) THEN {"function"} ELSE r.tools

-----------------------------------------------------------------------------
Init ==
  /\ at = "routing" /\ streaming \in BOOLEAN /\ forwarded = {} /\ upstream = "none"
  /\ source = NewClient /\ calls = <<>> /\ buffer = <<>> /\ pending = <<>>
  /\ client = NewClient /\ reply = "none" /\ frame = FALSE /\ hops = 0 /\ connector = FALSE

(* Events of an answer that is made here.                                  *)
Whole(b)   == <<Open(b, 2), Delta(b, 2), Close(b, 2)>>
Bare(b)    == <<Open(b, 2), Close(b, 2)>>
Announce   == <<Start(2)>> \o Bare(1)
ToolResult == Bare(2) \o Whole(3) \o Ending(2)
Mocked     == <<Start(2)>> \o Whole(1) \o Ending(2)

Refuse ==
  /\ at = "routing"
  /\ \E r \in MessageRequests, enabled \in BOOLEAN : Route(r, enabled) = "refused"
  /\ at' = "done" /\ reply' = "error"
  /\ UNCHANGED <<streaming, forwarded, upstream, source, calls, buffer, pending, client, frame,
                 hops, connector>>

(* A complete message is returned as it is, or written as events.          *)
AnswerLocally ==
  /\ at = "routing"
  /\ \E r \in MessageRequests, enabled \in BOOLEAN : Route(r, enabled) = "local"
  /\ IF streaming
     THEN at' = "writing" /\ pending' = Mocked /\ UNCHANGED <<client, reply>>
     ELSE /\ at' = "done" /\ reply' = "json" /\ UNCHANGED pending
          /\ client' = Follow(client, Mocked)
  /\ UNCHANGED <<streaming, forwarded, upstream, source, calls, buffer, frame, hops, connector>>

AnswerForced ==
  /\ at = "routing"
  /\ \E r \in MessageRequests, enabled \in BOOLEAN :
       /\ Route(r, enabled) = "forced"
       /\ at' = r.choice
  /\ pending' = Announce
  /\ UNCHANGED <<streaming, forwarded, upstream, source, calls, buffer, client, reply, frame, hops,
                 connector>>

AskProvider ==
  /\ at = "routing"
  /\ \E r \in MessageRequests, enabled \in BOOLEAN :
       /\ Route(r, enabled) \in {"provider", "automatic"}
       /\ forwarded' = Translated(r)
       /\ at' = IF Route(r, enabled) = "automatic" THEN "deciding" ELSE "reading"
  /\ upstream' = "open"
  /\ UNCHANGED <<streaming, source, calls, buffer, pending, client, reply, frame, hops, connector>>

-----------------------------------------------------------------------------
(* The reader of the body: the response of a streaming client, or the      *)
(* aggregator.  A failure before the first event is an error response, a   *)
(* later one an error frame.                                               *)

Read(events) ==
  /\ client' = Follow(client, events)
  /\ reply' = IF streaming THEN "events" ELSE reply

Ended == reply' = IF streaming THEN reply ELSE "json"

(* The failure of a body: what was held is given back on every path.       *)
BodyFails ==
  /\ at' = "done"
  /\ IF reply = "none" THEN reply' = "error" /\ UNCHANGED frame
     ELSE frame' = TRUE /\ UNCHANGED reply
  /\ pending' = <<>>

-----------------------------------------------------------------------------
(* The provider's stream.                                                  *)

NextBlock == Cardinality(source.seen) + 1

(* What the provider may send next, with the tool that a block calls.      *)
Sendable ==
  LET plain(e)   == [event |-> <<e>>, calls |-> <<>>]
      opening    == Open(NextBlock, 1)
      blocks     == IF NextBlock > MaxBlocks THEN {}
                    ELSE {[event |-> <<opening>>, calls |-> c] :
                            c \in {<<>>, <<"good">>, <<"bad">>}}
      candidates == {plain(Start(1)), plain(Ping)} \cup blocks
                    \cup {plain(Delta(b, 1)) : b \in source.open}
                    \cup {plain(Close(b, 1)) : b \in source.open}
                    \cup {[event |-> Ending(1), calls |-> <<>>]}
      started    == source.starts > 0
  IN {c \in candidates : /\ Legal(source, c.event[Len(c.event)])
                         /\ (c.event[1].type = "message_start") = ~started}

Sends(c) ==
  /\ upstream = "open"
  /\ source' = Follow(source, c.event)
  /\ calls' = calls \o c.calls

ReadChunk ==
  /\ at = "reading"
  /\ \E c \in Sendable : Sends(c) /\ Read(c.event)
  /\ UNCHANGED <<at, streaming, forwarded, upstream, buffer, pending, frame, hops, connector>>

ReadEnds ==
  /\ at = "reading" /\ source.stops = 1
  /\ at' = "done" /\ upstream' = "closed"
  /\ Ended
  /\ UNCHANGED <<streaming, forwarded, source, calls, buffer, pending, client, frame, hops,
                 connector>>

(* The provider fails, its stream stands still, or nothing was resolved.   *)
ProviderFails ==
  /\ at \in {"reading", "deciding"}
  /\ upstream' = "closed" /\ buffer' = <<>>
  /\ BodyFails
  /\ UNCHANGED <<streaming, forwarded, source, calls, client, hops, connector>>

-----------------------------------------------------------------------------
(* The decision of an automatic search.                                    *)

(* Slip: the chunks of a decision are passed on as they come.              *)
BufferChunkThrough ==
  /\ at = "deciding" /\ Len(buffer) < MaxBuffered
  /\ \E c \in Sendable : Sends(c) /\ Read(c.event) /\ buffer' = buffer \o c.event
  /\ UNCHANGED <<at, streaming, forwarded, upstream, pending, frame, hops, connector>>

BufferChunk ==
  /\ at = "deciding" /\ Len(buffer) < MaxBuffered
  /\ \E c \in Sendable : Sends(c) /\ buffer' = buffer \o c.event
  /\ UNCHANGED <<at, streaming, forwarded, upstream, pending, client, reply, frame, hops,
                 connector>>

DecisionTooLarge ==
  /\ at = "deciding" /\ Len(buffer) >= MaxBuffered /\ Sendable # {}
  /\ upstream' = "closed" /\ buffer' = <<>>
  /\ BodyFails
  /\ UNCHANGED <<streaming, forwarded, source, calls, client, hops, connector>>

(* No call: the answer is the message.  One well-formed search: it runs    *)
(* here.  Anything else breaks the protocol.                               *)
Decided ==
  /\ at = "deciding" /\ source.stops = 1
  /\ upstream' = "closed" /\ buffer' = <<>>
  /\ \/ /\ calls = <<>>
        /\ at' = "writing" /\ pending' = buffer
        /\ UNCHANGED <<reply, frame>>
     \/ /\ calls = <<"good">>
        /\ at' = "search" /\ pending' = Announce
        /\ UNCHANGED <<reply, frame>>
     \/ calls \notin {<<>>, <<"good">>} /\ BodyFails
  /\ UNCHANGED <<streaming, forwarded, source, calls, client, hops, connector>>

-----------------------------------------------------------------------------
(* Writing what needs no waiting for.                                      *)
WriteEvent ==
  /\ pending # <<>> /\ pending' = Tail(pending)
  /\ Read(<<Head(pending)>>)
  /\ UNCHANGED <<at, streaming, forwarded, upstream, source, calls, buffer, frame, hops, connector>>

WriteEnds ==
  /\ at = "writing" /\ pending = <<>>
  /\ at' = "done"
  /\ Ended
  /\ UNCHANGED <<streaming, forwarded, upstream, source, calls, buffer, pending, client, frame,
                 hops, connector>>

(* The search or the fetch is over; its failures are results too.          *)
ToolEnds ==
  /\ at' = "writing" /\ pending' = ToolResult /\ connector' = FALSE

Searched ==
  /\ at = "search" /\ pending = <<>>
  /\ ToolEnds
  /\ UNCHANGED <<streaming, forwarded, upstream, source, calls, buffer, client, reply, frame, hops>>

(* A hop is connected to the addresses that its check has resolved.        *)
FetchConnects ==
  /\ at = "fetch" /\ pending = <<>> /\ ~connector
  /\ connector' = TRUE
  /\ UNCHANGED <<at, streaming, forwarded, upstream, source, calls, buffer, pending, client, reply,
                 frame, hops>>

FetchRedirected ==
  /\ at = "fetch" /\ connector /\ hops < MaxRedirects
  /\ hops' = hops + 1 /\ connector' = FALSE
  /\ UNCHANGED <<at, streaming, forwarded, upstream, source, calls, buffer, pending, client, reply,
                 frame>>

(* The text has arrived, an address was refused, time is up or there are   *)
(* too many redirects.                                                     *)
Fetched ==
  /\ at = "fetch" /\ pending = <<>>
  /\ ToolEnds
  /\ UNCHANGED <<streaming, forwarded, upstream, source, calls, buffer, client, reply, frame, hops>>

-----------------------------------------------------------------------------
(* The client goes away: the body is closed wherever it waits.             *)
ClientLeaves ==
  /\ at # "done" /\ at' = "done"
  /\ reply' = "gone" /\ connector' = FALSE /\ pending' = <<>> /\ buffer' = <<>>
  /\ upstream' = IF upstream = "open" THEN "closed" ELSE upstream
  /\ UNCHANGED <<streaming, forwarded, source, calls, client, frame, hops>>

EndpointNext ==
  \/ Refuse \/ AnswerLocally \/ AnswerForced \/ AskProvider
  \/ ReadChunk \/ ReadEnds \/ ProviderFails
  \/ BufferChunk \/ DecisionTooLarge \/ Decided
  \/ WriteEvent \/ WriteEnds \/ Searched \/ FetchConnects \/ FetchRedirected \/ Fetched
  \/ ClientLeaves

EndpointSpec == Init /\ [][EndpointNext]_vars

-----------------------------------------------------------------------------
(* Type invariant.                                                         *)
EndpointTypeOK ==
  /\ at \in {"routing", "reading", "deciding", "search", "fetch", "writing", "done"}
  /\ {streaming, frame, connector} \subseteq BOOLEAN
  /\ upstream \in {"none", "open", "closed"}
  /\ reply \in {"none", "events", "json", "error", "gone"}
  /\ hops \in 0..MaxRedirects
  /\ forwarded \subseteq ServerTools \cup {"function"}

(* A request has one answer of the form it asked for, whole or known to    *)
(* have failed and never mixed from a provider's answer and one made here; *)
(* a decision that fails is an error response, for nothing of it was shown;*)
(* no provider is sent a web tool, and its stream and the connection of a  *)
(* fetch are closed as soon as nothing is read from them.                  *)
EachRequestIsAnswered ==
  /\ reply = "events" => streaming
  /\ reply = "json" => ~streaming /\ at = "done"
  /\ client.legal /\ client.starts <= 1 /\ Cardinality(client.of) <= 1
  /\ at = "done" => reply # "none"
  /\ at = "done" /\ reply \in {"events", "json"} => frame \/ client.stops = 1
  /\ frame => buffer = <<>> /\ client.of \subseteq {1}
  /\ at = "deciding" => client = NewClient
  /\ forwarded \cap ServerTools = {}
  /\ upstream = "open" => at \in {"reading", "deciding"}
  /\ connector => at = "fetch"
================================================================================
