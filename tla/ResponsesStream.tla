---------------------------- MODULE ResponsesStream ----------------------------
(***************************************************************************)
(* One reply of /v1/responses: iter_responses_sse_from_anthropic reads the *)
(* events of an Anthropic message and writes those of a Responses stream.  *)
(*                                                                         *)
(* The translator trusts nothing about the order of what it reads: blocks  *)
(* may start twice, overlap, have no index or never end, the message may   *)
(* break off, fail or report an error.  Whatever it reads, the client must *)
(* be able to follow: every item is announced before its parts, finished   *)
(* once, and listed by the response that ends the stream.  A response is   *)
(* called completed only after its record was written, which may fail.     *)
(*                                                                         *)
(* Operators marked "Slip:" are plausible defective variants of the        *)
(* operator they precede; the specification does not use them.             *)
(***************************************************************************)
EXTENDS StreamContract, SequencesExt, Integers

CONSTANTS
  Indices,      \* content block indices of upstream events, positive
  MaxEvents     \* upstream events of a message, for model checking

VARIABLES
  stage,        \* "streaming", "recording" or "ended"
  assembler,    \* the ResponsesStreamAssembler
  ready,        \* output_chunks that wait for the record
  emitted,      \* emitted_any_chunk
  reader,       \* what the client has received (an observer)
  fed           \* upstream events so far, for the bound

vars == <<stage, assembler, ready, emitted, reader, fed>>

NoIndex == 0

(* An active block; "broken" is a function call whose arguments do not     *)
(* form a JSON object.                                                     *)
Kinds == {"text", "reasoning", "function", "broken", "custom"}
Block(index, slot, kind, grown) == [index |-> index, slot |-> slot, kind |-> kind, grown |-> grown]

(* Slots are reserved when an item is announced and filled when it is done.*)
NewAssembler ==
  [started |-> FALSE, seq |-> 0, slots |-> <<>>, active |-> {}, fallback |-> -1,
   stop |-> "none", provisional |-> FALSE, terminal |-> FALSE, pending |-> FALSE]

-----------------------------------------------------------------------------
(* The events of a Responses stream (event_builders): each but a comment   *)
(* has the next sequence number.                                           *)

Event(type, item, seq, output) == [type |-> type, item |-> item, seq |-> seq, output |-> output]

Output(a) == {k \in DOMAIN a.slots : a.slots[k]}

Emit(a, item, types) ==
  Change([a EXCEPT !.seq = @ + Len(types)],
         [k \in DOMAIN types |-> Event(types[k], item, a.seq + k, Output(a))])

Silent(a) == Change(a, <<>>)
Begun(a)  == IF a.started THEN Silent(a) ELSE Emit([a EXCEPT !.started = TRUE], 0, <<"created">>)

-----------------------------------------------------------------------------
(* ResponseBlockCompleter.complete_block.                                  *)

Fill(a, b) == [a EXCEPT !.slots[b.slot] = TRUE]

Complete(a, b) ==
  CASE b.kind = "text"      -> Emit(Fill(a, b), b.slot, <<"ended", "part_done", "done">>)
    [] b.kind = "reasoning" -> Emit(Fill(a, b), b.slot, (IF b.grown THEN <<"ended">> ELSE <<>>) \o <<"done">>)
    [] b.kind = "broken" /\ b.grown -> Silent([a EXCEPT !.provisional = TRUE])
    [] b.kind = "custom"    ->
         Emit(Fill(a, b), b.slot, (IF b.grown THEN <<"delta">> ELSE <<>>) \o <<"ended", "done">>)
    [] OTHER ->
         Emit(Fill(a, b), b.slot, (IF b.grown THEN <<>> ELSE <<"delta">>) \o <<"ended", "done">>)

At(a, index) == {b \in a.active : b.index = index}

CompleteAt(a, index) ==
  LET there == At(a, index) IN
  IF there = {} THEN Silent(a)
  ELSE Complete([a EXCEPT !.active = @ \ there], CHOOSE b \in there : TRUE)

(* In output order.                                                        *)
Flush(a) ==
  LET open == SetToSortSeq(a.active, LAMBDA b, d : b.slot < d.slot)
  IN FoldLeft(LAMBDA c, b : Then(c, LAMBDA m : Complete(m, b)), Silent([a EXCEPT !.active = {}]), open)

(* Slip: a block that starts at the index of another replaces it.          *)
StartBlockOver(a, index, kind) ==
  LET b == Block(index, Len(a.slots) + 1, kind, FALSE)
  IN Emit([a EXCEPT !.slots = Append(@, FALSE),
                    !.active = {d \in @ : d.index # index} \cup {b}], b.slot,
          IF kind = "text" THEN <<"added", "part">> ELSE <<"added">>)

(* A block at the index of another completes it first.                     *)
StartBlock(a, index, kind) ==
  Then(CompleteAt(a, index),
       LAMBDA m : LET b == Block(index, Len(m.slots) + 1, kind, FALSE)
                  IN Emit([m EXCEPT !.slots = Append(@, FALSE), !.active = @ \cup {b}], b.slot,
                          IF kind = "text" THEN <<"added", "part">> ELSE <<"added">>))

(* Text, reasoning and function arguments are passed on as they come; the  *)
(* input of a custom tool when its block completes.                        *)
GrowBlock(a, index) ==
  LET b == CHOOSE d \in At(a, index) : TRUE
  IN Emit([a EXCEPT !.active = (@ \ {b}) \cup {[b EXCEPT !.grown = TRUE]}], b.slot,
          IF b.kind = "custom" THEN <<>> ELSE <<"delta">>)

-----------------------------------------------------------------------------
(* process_anthropic_event, by event.                                      *)

(* Text without an index gets one of its own.                              *)
SafeIndex(a, index) == IF index = NoIndex THEN a.fallback ELSE index
Numbered(a, index)  == IF index = NoIndex THEN [a EXCEPT !.fallback = @ - 1] ELSE a

BlockStarts(a, index, kind, full) ==
  LET at == SafeIndex(a, index) IN
  IF kind # "text" /\ index = NoIndex THEN Silent(a)
  ELSE Then(StartBlock(Numbered(a, index), at, kind),
            LAMBDA m : IF full THEN GrowBlock(m, at) ELSE Silent(m))

(* A delta of another kind than the block at its index starts a new one.   *)
BlockGrows(a, index, kind) ==
  LET at   == SafeIndex(a, index)
      fits == \E b \in At(a, at) : b.kind = kind IN
  IF kind # "text" /\ index = NoIndex THEN Silent(a)
  ELSE Then(IF fits THEN Silent(Numbered(a, index)) ELSE StartBlock(Numbered(a, index), at, kind),
            LAMBDA m : GrowBlock(m, at))

InputGrows(a, index) ==
  IF \E b \in At(a, index) : b.kind \in {"function", "broken", "custom"}
  THEN GrowBlock(a, index) ELSE Silent(a)

StopReason(a, reason) == Silent([a EXCEPT !.stop = reason])

Failed(a) ==
  Emit([a EXCEPT !.provisional = FALSE, !.pending = FALSE, !.terminal = TRUE], 0, <<"failed">>)

FinishFlushed(m) ==
  IF m.provisional THEN Failed(m)
  ELSE IF m.stop = "max_tokens" THEN Emit([m EXCEPT !.terminal = TRUE], 0, <<"incomplete">>)
  ELSE Emit([m EXCEPT !.pending = TRUE], 0, <<"completed">>)

Finish(a) == Then(Flush(a), FinishFlushed)
Fail(a)   == Then(Flush(a), Failed)
Keepalive(a) == Change(a, <<Event("comment", 0, 0, {})>>)

Spans == Indices \cup {NoIndex}

Processed(a) ==
  {BlockStarts(a, i, k, full) : i \in Spans, k \in Kinds, full \in BOOLEAN}
  \cup {BlockGrows(a, i, k) : i \in Spans, k \in {"text", "reasoning"}}
  \cup {InputGrows(a, i) : i \in Indices}
  \cup {CompleteAt(a, i) : i \in Indices}
  \cup {StopReason(a, r) : r \in {"end_turn", "max_tokens"}}
  \cup {Silent(a), Keepalive(a), Finish(a), Fail(a)}

-----------------------------------------------------------------------------
(* The client.  An item is described by what it has received of it.        *)

NewReader ==
  [last |-> 0, added |-> {}, parts |-> {}, ended |-> {}, done |-> {}, final |-> "none",
   gap |-> FALSE, legal |-> TRUE]

Finals == {"completed", "incomplete", "failed"}

(* Created comes first; an item is announced once and in order, its parts  *)
(* come while it is open, it is done once; nothing follows the end, which  *)
(* lists exactly the items that are done.                                  *)
Follows(c, e) ==
  /\ c.final = "none"
  /\ e.type # "comment" => e.seq > c.last /\ (e.type = "created" <=> c.last = 0)
  /\ e.type = "added" => e.item = Cardinality(c.added) + 1
  /\ e.type \in {"part", "delta", "ended", "part_done", "done"} => e.item \in c.added \ c.done
  /\ e.type \in {"delta", "ended"} => e.item \notin c.ended
  /\ e.type = "part_done" => e.item \in c.parts \cap c.ended
  /\ e.type \in {"completed", "incomplete"} => c.added = c.done /\ e.output = c.done
  /\ e.type = "failed" => c.done \subseteq e.output

Hear(c, e) ==
  IF e.type = "comment" THEN [c EXCEPT !.legal = @ /\ Follows(c, e)]
  ELSE [last  |-> e.seq,
        added |-> c.added \cup (IF e.type = "added" THEN {e.item} ELSE {}),
        parts |-> c.parts \cup (IF e.type = "part" THEN {e.item} ELSE {}),
        ended |-> c.ended \cup (IF e.type = "ended" THEN {e.item} ELSE {}),
        done  |-> c.done \cup (IF e.type = "done" THEN {e.item} ELSE {}),
        final |-> IF e.type \in Finals THEN e.type ELSE c.final,
        gap   |-> c.gap \/ e.seq # c.last + 1,
        legal |-> c.legal /\ Follows(c, e)]

Send(events) ==
  /\ reader' = FoldLeft(Hear, reader, events)
  /\ emitted' = (emitted \/ events # <<>>)

-----------------------------------------------------------------------------
Init ==
  /\ stage = "streaming" /\ assembler = NewAssembler /\ ready = <<>> /\ emitted = FALSE
  /\ reader = NewReader /\ fed = 0

Deliver(c) ==
  /\ assembler' = c.state
  /\ IF c.state.pending THEN stage' = "recording" /\ ready' = c.events /\ UNCHANGED <<reader, emitted>>
     ELSE /\ stage' = (IF c.state.terminal THEN "ended" ELSE "streaming")
          /\ Send(c.events) /\ UNCHANGED ready

EventArrives ==
  /\ stage = "streaming" /\ fed < MaxEvents /\ fed' = fed + 1
  /\ \E c \in Processed(Begun(assembler).state) :
       Deliver(Change(c.state, Begun(assembler).events \o c.events))

(* The message ends without a message_stop.                                *)
UpstreamEnds ==
  /\ stage = "streaming"
  /\ Deliver(Then(Begun(assembler), Finish)) /\ UNCHANGED fed

(* _observe_completed_response.                                            *)
Recorded ==
  /\ stage = "recording" /\ stage' = "ended"
  /\ assembler' = [assembler EXCEPT !.pending = FALSE, !.terminal = TRUE]
  /\ Send(ready) /\ ready' = <<>>
  /\ UNCHANGED fed

(* An exception of upstream or of the record ends the response as failed,  *)
(* or is raised when nothing was sent; what was ready is not sent.         *)
Raises ==
  /\ stage \in {"streaming", "recording"} /\ stage' = "ended"
  /\ IF emitted THEN Send(Fail(assembler).events) /\ assembler' = Fail(assembler).state
     ELSE UNCHANGED <<assembler, reader, emitted>>
  /\ ready' = <<>> /\ UNCHANGED fed

(* The client goes away, or the task is cancelled.                         *)
Disconnects ==
  /\ stage # "ended" /\ stage' = "ended"
  /\ ready' = <<>> /\ UNCHANGED <<assembler, emitted, reader, fed>>

ReplyNext == EventArrives \/ UpstreamEnds \/ Recorded \/ Raises \/ Disconnects

ReplySpec == Init /\ [][ReplyNext]_vars

-----------------------------------------------------------------------------
(* Type invariant.                                                         *)
ReplyTypeOK ==
  /\ stage \in {"streaming", "recording", "ended"} /\ emitted \in BOOLEAN
  /\ assembler.slots \in Seq(BOOLEAN) /\ assembler.seq \in Nat
  /\ assembler.active \subseteq
       [index : Indices \cup (-(MaxEvents + 1)..-1), slot : DOMAIN assembler.slots, kind : Kinds,
        grown : BOOLEAN]
  /\ reader.final \in Finals \cup {"none"}

(* Whatever upstream sends, the client can follow the response, which is   *)
(* called completed only when every announced item is done; numbers are    *)
(* skipped only before a failure.                                          *)
ClientCanFollow ==
  /\ reader.legal
  /\ reader.gap => reader.final = "failed"
  /\ stage = "ended" /\ assembler.terminal => reader.final # "none"
================================================================================
