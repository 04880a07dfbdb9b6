---------------------------- MODULE StreamContract ----------------------------
(***************************************************************************)
(* What a client may receive of a stream of Anthropic Messages events, as  *)
(* assert_anthropic_stream_contract of core/anthropic/stream_contracts.py  *)
(* checks it: the contract between the providers, which produce such       *)
(* streams, and the Responses adapter and the clients, which read them.    *)
(* An event is reduced to its type, to the block it is about and to "of",  *)
(* which tells apart the upstream answers that content comes from.         *)
(***************************************************************************)
EXTENDS Naturals, Sequences

Start(l)    == [type |-> "message_start", at |-> 0, of |-> l]
Open(i, l)  == [type |-> "content_block_start", at |-> i, of |-> l]
Delta(i, l) == [type |-> "content_block_delta", at |-> i, of |-> l]
Close(i, l) == [type |-> "content_block_stop", at |-> i, of |-> l]
Ending(l)   == <<[type |-> "message_delta", at |-> 0, of |-> l],
                 [type |-> "message_stop", at |-> 0, of |-> l]>>
Ping        == [type |-> "ping", at |-> 0, of |-> 0]

NewClient == [starts |-> 0, open |-> {}, seen |-> {}, of |-> {}, stops |-> 0, legal |-> TRUE]

(* What the contract asks of an event: a block starts once, its deltas     *)
(* come while it is open, and nothing precedes the start of the message or *)
(* follows its end.                                                        *)
Legal(c, e) ==
  /\ c.stops = 0
  /\ e.type # "message_start" => c.starts > 0
  /\ e.type = "content_block_start" => e.at \notin c.seen
  /\ e.type \in {"content_block_delta", "content_block_stop"} => e.at \in c.open
  /\ e.type = "message_stop" => c.open = {} /\ c.seen # {}

Receive(c, e) ==
  [starts |-> c.starts + (IF e.type = "message_start" THEN 1 ELSE 0),
   open   |-> CASE e.type = "content_block_start" -> c.open \cup {e.at}
                [] e.type = "content_block_stop"  -> c.open \ {e.at}
                [] OTHER -> c.open,
   seen   |-> c.seen \cup (IF e.type = "content_block_start" THEN {e.at} ELSE {}),
   of     |-> c.of \cup (IF e.type = "content_block_delta" THEN {e.of} ELSE {}),
   stops  |-> c.stops + (IF e.type = "message_stop" THEN 1 ELSE 0),
   legal  |-> c.legal /\ Legal(c, e)]

(* A reader that has received events, one after the other.                 *)
Follow(c, events) ==
  LET after[n \in 0 .. Len(events)] == IF n = 0 THEN c ELSE Receive(after[n - 1], events[n])
  IN after[Len(events)]

(* A change of the state of a translator with the events it emits.         *)
Change(s, events) == [state |-> s, events |-> events]
Then(c, Op(_))    == LET d == Op(c.state) IN Change(d.state, c.events \o d.events)
===============================================================================
