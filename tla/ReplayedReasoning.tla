-------------------------- MODULE ReplayedReasoning --------------------------
(***************************************************************************)
(* How the reasoning of earlier turns gets back to the Codex backend.  The *)
(* stream runner hands each reasoning item of an answer to its client as a *)
(* carrier, in the signature of a thinking block or the data of a redacted *)
(* one.  A later request brings the blocks back: they are turned into input*)
(* items, prepare_history unpacks the carriers that come from this backend *)
(* and puts the readable text of the others in their place, and when the   *)
(* backend rejects one record history_retry_body repairs that record.      *)
(*                                                                         *)
(* A mark says where a block's reasoning comes from: from nowhere ("none"),*)
(* from before there were carriers ("older"), from this backend ("ours") or*)
(* from another provider or protocol ("foreign").  What is readable of an  *)
(* item is one text or nothing; that the carriers are decoded as they were *)
(* encoded is taken for granted.                                           *)
(*                                                                         *)
(* Operators marked "Slip:" are plausible defective variants of the        *)
(* operator they precede; the specification does not use them.             *)
(***************************************************************************)
EXTENDS Naturals, Sequences, SequencesExt, FiniteSetsExt

CONSTANTS
  MaxBlocks,    \* bound on the blocks of the history, for model checking
  Attempts      \* the requests a stream runner may make

VARIABLES
  history,      \* the blocks of the assistant that the client sends back
  preface,      \* the message has a reasoning_content of its own
  body,         \* input of the request
  repairs,      \* how often the body was repaired
  course        \* of the request: composed, sent, or over for the repairs

reasoningVars == <<history, preface, body, repairs, course>>

-----------------------------------------------------------------------------
(* A carrier holds a native item: its text, its seal (encrypted_content),  *)
(* and an id that the backend accepts or not.                              *)
Native(mark, reads, sealed, clean) ==
  [mark |-> mark, reads |-> reads, sealed |-> sealed, clean |-> clean]

Nothing  == Native("none", FALSE, FALSE, TRUE)
Carriers == {Native("older", FALSE, TRUE, TRUE), Native("foreign", TRUE, TRUE, TRUE),
             Native("foreign", FALSE, TRUE, TRUE), Native("ours", TRUE, TRUE, FALSE),
             Native("ours", TRUE, FALSE, TRUE), Native("ours", FALSE, TRUE, TRUE)}

Thinking(native, said) == [kind |-> "thinking", native |-> native, said |-> said]
Redacted(native)       == [kind |-> "redacted_thinking", native |-> native, said |-> FALSE]
Plain(kind)            == [kind |-> kind, native |-> Nothing, said |-> FALSE]

Blocks == {Thinking(native, TRUE) : native \in Carriers \cup {Nothing}}
            \cup {Thinking(native, FALSE) : native \in Carriers}
            \cup {Redacted(native) : native \in Carriers} \cup {Plain("text"), Plain("tool_use")}

HasReplay(native) == native.mark \in {"ours", "foreign"}      \* is_replay

(* Items; from is the place of the block in the history, 0 for the preface.*)
Item(kind, from, native) == [kind |-> kind, from |-> from, native |-> native]
Context(from) == Item("context", from, Native("none", TRUE, FALSE, TRUE))

(* An item before preparation: what is in its encrypted_content, and       *)
(* whether it has a content of its own.                                    *)
Wrapped(from, native, content) ==
  [kind |-> "reasoning", from |-> from, native |-> native, content |-> content]

(* _assistant_items.  Older signatures keep their text beside them; a      *)
(* carrier whose item is readable needs no copy of it.                     *)
Items(b, i) ==
  CASE b.kind = "redacted_thinking" -> <<Wrapped(i, b.native, FALSE)>>
    [] b.kind = "thinking" /\ b.native.mark = "older" ->
         <<Wrapped(i, b.native, FALSE)>> \o (IF b.said THEN <<Context(i)>> ELSE <<>>)
    [] b.kind = "thinking" /\ b.native.mark # "older" ->
         <<Wrapped(i, b.native, b.said /\ ~(HasReplay(b.native) /\ b.native.reads))>>
    [] OTHER -> <<Item(b.kind, i, Nothing)>>

InputItems(blocks, top) ==
  (IF top /\ \A i \in DOMAIN blocks : blocks[i].kind # "thinking"
   THEN <<Wrapped(0, Nothing, TRUE)>> ELSE <<>>)
  \o FlattenSeq([i \in DOMAIN blocks |-> Items(blocks[i], i)])

-----------------------------------------------------------------------------
(* prepare_history.                                                        *)

Accepts(native) == native.mark = "ours"

(* Slip: an item that is accepted says everything itself.                  *)
PreparedBare(item) ==
  IF Accepts(item.native) \/ item.native.mark = "older"
  THEN <<Item("reasoning", item.from, item.native)>>
  ELSE IF item.native.reads \/ item.content THEN <<Context(item.from)>> ELSE <<>>

(* Slip: the endpoint's origin is not compared.                            *)
PreparedForAny(item) ==
  IF HasReplay(item.native) \/ item.native.mark = "older"
  THEN <<Item("reasoning", item.from, item.native)>>
         \o (IF item.content THEN <<Context(item.from)>> ELSE <<>>)
  ELSE IF item.content THEN <<Context(item.from)>> ELSE <<>>

Prepared(item) ==
  IF Accepts(item.native)
  THEN <<Item("reasoning", item.from, item.native)>>
         \o (IF ~item.native.reads /\ item.content THEN <<Context(item.from)>> ELSE <<>>)
  ELSE IF item.native.mark = "older"
  THEN <<Item("reasoning", item.from, item.native)>>
  ELSE IF item.native.reads \/ item.content THEN <<Context(item.from)>> ELSE <<>>

Projected(items) ==
  FlattenSeq([k \in DOMAIN items |->
                IF items[k].kind = "reasoning" THEN Prepared(items[k]) ELSE <<items[k]>>])

-----------------------------------------------------------------------------
(* history_retry_body.                                                     *)

(* A record of an error says what is wrong, and may name a place or ids.   *)
(* The first record that can be repaired counts, so one is enough here.    *)
Report(fault, place, ids) == [fault |-> fault, place |-> place, ids |-> ids]
Reports ==
  {Report(fault, place, {}) : fault \in {"id", "native"}, place \in 0 .. Len(body)}
    \cup {Report(fault, 0, ids) : fault \in {"id", "native"}, ids \in SUBSET (0 .. Len(history))}

Candidates == {k \in DOMAIN body : body[k].kind = "reasoning"}

(* _rejected_record: the items that a report can only mean.                *)
Rejected(report) ==
  LET named  == {k \in Candidates : body[k].from \in report.ids}
      opaque == {k \in Candidates : body[k].native.sealed}
  IN  IF report.place # 0 THEN {report.place} \cap Candidates
      ELSE IF report.ids # {} THEN {k \in named : {body[k].from} = report.ids}
      ELSE {k \in opaque : opaque = {k}}

Repairable(report) == {k \in Rejected(report) : report.fault = "id" => ~body[k].native.clean}

(* Slip: a rejected record is only removed.                                *)
RemovedOnly(k, fault) ==
  IF fault = "id" THEN [body EXCEPT ![k].native.clean = TRUE] ELSE RemoveAt(body, k)

(* Slip: the id that is corrected stays as it is.                          *)
KeptId(k, fault) ==
  IF fault = "id" THEN body
  ELSE IF body[k].native.reads THEN [body EXCEPT ![k] = Context(body[k].from)]
  ELSE RemoveAt(body, k)

Repaired(k, fault) ==
  IF fault = "id" THEN [body EXCEPT ![k].native.clean = TRUE]
  ELSE IF body[k].native.reads THEN [body EXCEPT ![k] = Context(body[k].from)]
  ELSE RemoveAt(body, k)

-----------------------------------------------------------------------------
Init ==
  /\ history = <<>> /\ preface = FALSE /\ body = <<>> /\ repairs = 0 /\ course = "composed"

(* The client's transcript.                                                *)
Keeps(b) ==
  /\ course = "composed" /\ Len(history) < MaxBlocks
  /\ history' = Append(history, b)
  /\ UNCHANGED <<preface, body, repairs, course>>

KeepsPreface ==
  /\ course = "composed" /\ ~preface
  /\ preface' = TRUE
  /\ UNCHANGED <<history, body, repairs, course>>

(* _build_body.                                                            *)
Send ==
  /\ course = "composed"
  /\ course' = "sent"
  /\ body' = Projected(InputItems(history, preface))
  /\ UNCHANGED <<history, preface, repairs>>

(* The backend rejects the request before anything was shown to the client.*)
Repair(report) ==
  /\ course = "sent" /\ repairs + 1 < Attempts
  /\ \E k \in Repairable(report) : body' = Repaired(k, report.fault)
  /\ repairs' = repairs + 1
  /\ UNCHANGED <<history, preface, course>>

(* It answers, or fails in a way that is not repaired.                     *)
Settle ==
  /\ course = "sent"
  /\ course' = "over"
  /\ UNCHANGED <<history, preface, body, repairs>>

ReplayNext ==
  \/ \E b \in Blocks : Keeps(b)
  \/ KeepsPreface \/ Send \/ Settle
  \/ \E report \in Reports : Repair(report)

ReplaySpec == Init /\ [][ReplayNext]_reasoningVars

-----------------------------------------------------------------------------
ReplayTypeOK ==
  /\ history \in Seq(Blocks) /\ preface \in BOOLEAN /\ repairs \in Nat
  /\ course \in {"composed", "sent", "over"}
  /\ \A k \in DOMAIN body :
       /\ body[k].kind \in {"reasoning", "context", "text", "tool_use"}
       /\ body[k].from \in 0 .. Len(history)

(* The backend gets records of its own, and those that may be.             *)
OnlyOwnRecords ==
  \A k \in Candidates : body[k].native.mark \in {"ours", "older"}

(* What could be read of a turn's reasoning reaches the backend once,      *)
(* whichever way it takes and however often the request is repaired.       *)
Readable(i) == history[i].said \/ history[i].native.reads
NothingForgotten ==
  \A i \in DOMAIN history :
    Cardinality({k \in DOMAIN body : body[k].from = i /\ body[k].native.reads})
      = IF Readable(i) THEN 1 ELSE 0

(* It stays at its place among what the turn said and called.              *)
InPlace ==
  /\ \A j, k \in DOMAIN body : j < k => body[j].from <= body[k].from
  /\ \A i \in DOMAIN history :
       history[i].kind \in {"text", "tool_use"} =>
         \E k \in DOMAIN body : body[k] = Item(history[i].kind, i, Nothing)

(* A repair leaves less to reject, so repairs would end without a budget.  *)
Left(items) ==
  Cardinality({k \in DOMAIN items : items[k].kind = "reasoning"})
    + Cardinality({k \in DOMAIN items : ~items[k].native.clean})
RepairsEnd == repairs + Left(body) <= Left(Projected(InputItems(history, preface)))

ReasoningIsReplayed ==
  course # "composed" => OnlyOwnRecords /\ NothingForgotten /\ InPlace /\ RepairsEnd
=============================================================================
