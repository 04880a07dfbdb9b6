----------------------------- MODULE ChatHistory -----------------------------
(***************************************************************************)
(* How a conversation is replayed to an OpenAI-compatible provider:        *)
(* AnthropicToOpenAIConverter walks over the Anthropic messages and feeds a*)
(* ledger, which holds everything that follows a call back until the call  *)
(* has its result; what comes out is closed and coalesced so that strict   *)
(* chat templates accept it, and put into the body of the request.         *)
(*                                                                         *)
(* A content block is its kind, the call it makes or answers, whether it   *)
(* carries an image ("rich", of a result), and where in the conversation it*)
(* stands; the content of a chat message is the sequence of the blocks     *)
(* whose text or image it holds.  Texts are not empty.  The ids of calls   *)
(* are the client's; they are not used twice.                              *)
(*                                                                         *)
(* Operators marked "Slip:" are plausible defective variants of the        *)
(* operator they precede; the specification does not use them.             *)
(***************************************************************************)
EXTENDS Naturals, Sequences, SequencesExt, FiniteSetsExt

CONSTANTS
  MaxMessages,  \* bound on the length of a conversation, for model checking
  NONE          \* no id

VARIABLES
  replay,       \* the provider's ReasoningReplayMode
  transcript,   \* the messages converted so far, as the client sent them
  output,       \* _output of the ledger
  segments,     \* _segments
  results,      \* _tool_results: the blocks that answer an id
  refused       \* the conversation cannot be represented

ledger == <<output, segments, results>>
vars   == <<replay, transcript, ledger, refused>>

Modes  == {"disabled", "think_tags", "reasoning_content", "reasoning"}
Fields == {"reasoning_content", "reasoning"}

Init ==
  /\ replay \in Modes
  /\ transcript = <<>> /\ output = <<>> /\ segments = <<>> /\ results = {}
  /\ refused = FALSE

-----------------------------------------------------------------------------
(* Blocks.                                                                 *)

Block(kind)        == [kind |-> kind, id |-> NONE, rich |-> FALSE, from |-> <<0, 0>>]
Call(id)           == [Block("tool_use") EXCEPT !.id = id]
Result(id, rich)   == [Block("tool_result") EXCEPT !.id = id, !.rich = rich]
Blank              == Block("blank")      \* a single space
Numbered(m, blocks) == [b \in DOMAIN blocks |-> [blocks[b] EXCEPT !.from = <<m, b>>]]

OfKind(blocks, kinds) == SelectSeq(blocks, LAMBDA b : b.kind \in kinds)
IdsOf(blocks)         == [k \in DOMAIN blocks |-> blocks[k].id]
Metadata              == {"tool_reference"}

(* Chat messages.                                                          *)
Chat(role, content) ==
  [role |-> role, content |-> content, calls |-> <<>>, reply |-> NONE,
   field |-> FALSE, reasoning |-> <<>>]

(* _convert_assistant_message; top is the message's reasoning_content.     *)
AssistantChat(blocks, top) ==
  LET said    == OfKind(blocks, {"text", "document"} \cup
                                (IF replay = "think_tags" THEN {"thinking"} ELSE {}))
      thought == IF replay \notin Fields THEN <<>>
                 ELSE IF top # <<>> THEN top ELSE OfKind(blocks, {"thinking"})
  IN  [Chat("assistant", IF said = <<>> THEN <<Blank>> ELSE said)
         EXCEPT !.reasoning = thought, !.field = thought # <<>>]

(* _openai_chat_tool_result: what a result with images holds moves to a    *)
(* user message.                                                           *)
ToolChat(b) == [Chat("tool", IF b.rich THEN <<>> ELSE <<b>>) EXCEPT !.reply = b.id]
RichChat(b) == IF b.rich THEN <<Chat("user", <<b>>)>> ELSE <<>>

(* _convert_user_message, of blocks none of which is a result.             *)
UserChat(blocks) ==
  LET said == OfKind(blocks, {"text", "image", "document"})
  IN  IF said = <<>> THEN <<>> ELSE <<Chat("user", said)>>

-----------------------------------------------------------------------------
(* Segments: messages, and the calls that must be answered before what is  *)
(* deferred, or anything after it, is emitted.                             *)

Plain(messages) == [messages |-> messages, calls |-> <<>>, deferred |-> <<>>, emitted |-> FALSE]

(* _convert_assistant_message_with_split: what is said after the first     *)
(* call waits for the results.                                             *)
ToolTurn(blocks, top) ==
  LET first == Min({k \in DOMAIN blocks : blocks[k].kind = "tool_use"})
      pre   == SubSeq(blocks, 1, first - 1)
      rest  == SelectSeq(SubSeq(blocks, first, Len(blocks)), LAMBDA b : b.kind # "tool_use")
      said  == IF pre # <<>> THEN AssistantChat(pre, top)
               ELSE LET thought == IF replay \in Fields THEN top ELSE <<>>
                    IN  [Chat("assistant", <<>>) EXCEPT !.reasoning = thought,
                                                        !.field = thought # <<>>]
      calls == IdsOf(OfKind(blocks, {"tool_use"}))
  IN  [messages |-> <<[said EXCEPT
                         !.calls = calls,
                         !.content = IF @ = <<Blank>> THEN <<>> ELSE @,
                         !.field = @ \/ replay = "reasoning_content"]>>,
       calls    |-> calls,
       deferred |-> IF rest = <<>> THEN <<>> ELSE <<AssistantChat(rest, <<>>)>>,
       emitted  |-> FALSE]

-----------------------------------------------------------------------------
(* _OpenAIChatHistoryLedger.                                               *)

Answered(l, s) == \A k \in DOMAIN s.calls : \E b \in l.results : b.id = s.calls[k]

(* A segment with all its results: theirs in the order of the calls, then  *)
(* the images, then what was deferred.                                     *)
Emitted(l, s) ==
  LET answers == [k \in DOMAIN s.calls |-> CHOOSE b \in l.results : b.id = s.calls[k]]
  IN  (IF s.emitted THEN <<>> ELSE s.messages)
      \o [k \in DOMAIN answers |-> ToolChat(answers[k])]
      \o FlattenSeq([k \in DOMAIN answers |-> RichChat(answers[k])])
      \o s.deferred

(* Slip: a turn whose results are missing holds nothing back.              *)
DrainThrough(l) ==
  LET held == SelectSeq(l.segments, LAMBDA s : ~Answered(l, s))
      go   == SelectSeq(l.segments, LAMBDA s : Answered(l, s))
  IN  [output |-> l.output \o FlattenSeq([k \in DOMAIN go |-> Emitted(l, go[k])]),
       segments |-> held, results |-> l.results]

(* _drain_ready_segments: up to the first turn that waits, whose own       *)
(* message goes out.                                                       *)
Drain(l) ==
  LET waits == {k \in DOMAIN l.segments : ~Answered(l, l.segments[k])}
      n     == IF waits = {} THEN Len(l.segments) ELSE Min(waits) - 1
      done  == SubSeq(l.segments, 1, n)
      rest  == SubSeq(l.segments, n + 1, Len(l.segments))
      used  == UNION {ToSet(done[k].calls) : k \in DOMAIN done}
  IN  [output   |-> l.output \o FlattenSeq([k \in DOMAIN done |-> Emitted(l, done[k])])
                             \o (IF rest = <<>> \/ rest[1].emitted THEN <<>> ELSE rest[1].messages),
       segments |-> IF rest = <<>> THEN <<>> ELSE [rest EXCEPT ![1].emitted = TRUE],
       results  |-> {b \in l.results : b.id \notin used}]

AddSegment(l, s) == Drain([l EXCEPT !.segments = Append(@, s)])
AddPlain(l, messages) == IF messages = <<>> THEN l ELSE AddSegment(l, Plain(messages))

Pending(l, id) == \E k \in DOMAIN l.segments : id \in ToSet(l.segments[k].calls)

(* Slip: the first result of a call stays.                                 *)
RecordFirst(l, b) ==
  IF Pending(l, b.id) /\ ~\E c \in l.results : c.id = b.id
  THEN [l EXCEPT !.results = @ \cup {b}] ELSE l

(* _record_tool_result: kept if a turn waits for it, the latest one; the   *)
(* answer to anything else is only a message of its own.                   *)
RecordResult(l, b) ==
  IF Pending(l, b.id) THEN [l EXCEPT !.results = {c \in @ : c.id # b.id} \cup {b}]
  ELSE AddPlain(l, <<ToolChat(b)>> \o RichChat(b))

(* add_user_blocks: the text before a result, then the result; the text    *)
(* that is left comes last.                                                *)
UserBlock(acc, b) ==
  CASE b.kind = "tool_result" ->
         [ledger |-> RecordResult(AddPlain(acc.ledger, UserChat(acc.texts)), b), texts |-> <<>>]
    [] b.kind \in Metadata -> acc
    [] OTHER -> [acc EXCEPT !.texts = Append(@, b)]

AddUserBlocks(l, blocks) ==
  LET acc == FoldLeft(UserBlock, [ledger |-> l, texts |-> <<>>], blocks)
  IN  Drain(AddPlain(acc.ledger, UserChat(acc.texts)))

-----------------------------------------------------------------------------
(* convert_messages, one message after the other.                          *)

Current == [output |-> output, segments |-> segments, results |-> results]
Becomes(l) == output' = l.output /\ segments' = l.segments /\ results' = l.results

(* The message joins the conversation.                                     *)
Read(role, blocks, top) ==
  /\ ~refused /\ Len(transcript) < MaxMessages
  /\ transcript' = Append(transcript, [role |-> role, blocks |-> blocks, top |-> top])
  /\ UNCHANGED replay

Next1 == Len(transcript) + 1
Used  == UNION {ToSet(IdsOf(OfKind(transcript[m].blocks, {"tool_use"}))) : m \in DOMAIN transcript}

AddUser(blocks) ==
  LET numbered == Numbered(Next1, blocks) IN
  /\ Read("user", numbered, <<>>)
  /\ Becomes(AddUserBlocks(Current, numbered))
  /\ UNCHANGED refused

(* An inline system message; an empty one says nothing.                    *)
AddSystem(blocks) ==
  LET numbered == Numbered(Next1, blocks) IN
  /\ Read("system", numbered, <<>>)
  /\ IF OfKind(blocks, {"text"} \cup Metadata) = blocks
     THEN Becomes(AddPlain(Current, UserChat(numbered))) /\ UNCHANGED refused
     ELSE refused' = TRUE /\ UNCHANGED ledger

(* Content that is a string.                                               *)
AddAssistantText ==
  LET text == Numbered(Next1, <<Block("text")>>)
      top  == <<[Block("top") EXCEPT !.from = <<Next1, 0>>]>>
      said == [Chat("assistant", IF replay = "think_tags" THEN top \o text ELSE text)
                 EXCEPT !.reasoning = IF replay \in Fields THEN top ELSE <<>>,
                        !.field = replay \in Fields]
  IN
  /\ Read("assistant", text, top)
  /\ Becomes(AddPlain(Current, <<said>>))
  /\ UNCHANGED refused

(* Content that is a list: a block that cannot be represented is refused.  *)
AddAssistant(blocks, thinks) ==
  LET numbered == Numbered(Next1, blocks)
      top == IF thinks THEN <<[Block("top") EXCEPT !.from = <<Next1, 0>>]>> ELSE <<>>
  IN
  /\ \A k \in DOMAIN blocks : blocks[k].id \notin Used
  /\ Read("assistant", numbered, top)
  /\ IF OfKind(blocks, {"image", "server_tool_use"}) # <<>>
     THEN refused' = TRUE /\ UNCHANGED ledger
     ELSE /\ Becomes(IF OfKind(blocks, {"tool_use"}) = <<>>
                     THEN AddPlain(Current, <<AssistantChat(numbered, top)>>)
                     ELSE AddSegment(Current, ToolTurn(numbered, top)))
          /\ UNCHANGED refused

(* finish: a turn that still waits for a result cannot be replayed.        *)
Complete == ~refused /\ segments = <<>>

(* What clients send: turns of one and of two calls, their results in one  *)
(* message or apart, among texts and images.                               *)
AssistantContents ==
  {<<Block("thinking"), Block("text")>>, <<Block("text"), Call(3)>>, <<Block("image")>>,
   <<Block("thinking"), Call(1), Block("text"), Call(2), Block("thinking")>>}

UserContents ==
  {<<Block("text")>>, <<Result(1, FALSE), Block("text"), Result(2, TRUE)>>, <<Result(2, FALSE)>>,
   <<Block("image"), Block("tool_reference"), Result(3, TRUE)>>}

ConvertNext ==
  \/ \E blocks \in AssistantContents : AddAssistant(blocks, OfKind(blocks, {"thinking"}) = <<>>)
  \/ \E blocks \in UserContents : AddUser(blocks)
  \/ AddAssistantText
  \/ \E kind \in {"text", "tool_result"} : AddSystem(<<Block(kind)>>)

ConvertSpec == Init /\ [][ConvertNext]_vars

-----------------------------------------------------------------------------
(* What is sent.                                                           *)

(* close_chat_tool_result_turns.                                           *)
Close(messages) ==
  FoldLeft(LAMBDA done, m : IF m.role = "user" /\ done # <<>> /\ Last(done).role = "tool"
                            THEN done \o <<Chat("assistant", <<Blank>>), m>>
                            ELSE Append(done, m), <<>>, messages)

(* _coalesce_openai_user_messages, _coalesce_openai_assistant_messages.    *)
Merge(p, m) ==
  [p EXCEPT !.content = @ \o m.content, !.calls = @ \o m.calls,
            !.reasoning = @ \o m.reasoning, !.field = @ \/ m.reasoning # <<>>]

Coalesce(messages, role) ==
  FoldLeft(LAMBDA done, m : IF m.role = role /\ done # <<>> /\ Last(done).role = role
                            THEN Append(Front(done), Merge(Last(done), m))
                            ELSE Append(done, m), <<>>, messages)

Wire == Coalesce(Coalesce(Close(output), "user"), "assistant")

-----------------------------------------------------------------------------
(* Types.                                                                  *)
Kinds == {"text", "thinking", "document", "image", "tool_use", "tool_result", "tool_reference",
          "server_tool_use", "top", "blank"}
Blocks == [kind : Kinds, id : (1 .. 3) \cup {NONE}, rich : BOOLEAN, from : (0 .. MaxMessages) \X Nat]

ConvertTypeOK ==
  /\ replay \in Modes
  /\ refused \in BOOLEAN
  /\ \A m \in DOMAIN transcript : transcript[m].role \in {"user", "assistant", "system"}
  /\ results \subseteq Blocks
  /\ \A k \in DOMAIN output : output[k].role \in {"user", "assistant", "tool"}
  /\ \A k \in DOMAIN segments : segments[k].emitted => k = 1

(* What strict chat templates ask: no user directly after a tool, no two   *)
(* users or assistants in a row, and after the calls of an assistant their *)
(* results, in the order of the calls.                                     *)
IsStrict(wire) ==
  \A k \in DOMAIN wire :
    LET m == wire[k] IN
    /\ k < Len(wire) => /\ m.role \in {"user", "assistant"} => wire[k + 1].role # m.role
                        /\ m.role = "tool" => wire[k + 1].role # "user"
    /\ k + Len(m.calls) <= Len(wire)
    /\ \A c \in DOMAIN m.calls : wire[k + c].reply = m.calls[c]

(* What was said, by the client or by the model, in the order it was said. *)
SaidBy(m) ==
  (IF replay = "think_tags" /\ m.role = "assistant" /\ OfKind(m.blocks, {"text"}) = m.blocks
      /\ Len(m.blocks) = 1 THEN m.top ELSE <<>>)
  \o OfKind(m.blocks, {"text", "image", "document"} \cup
                      (IF replay = "think_tags" THEN {"thinking"} ELSE {}))

(* The reasoning that goes into a field of its own: the message's, or that *)
(* of its blocks.                                                          *)
ThoughtBy(m) ==
  LET thinking == OfKind(m.blocks, {"thinking"}) IN
  IF replay \notin Fields THEN <<>> ELSE IF m.top = <<>> THEN thinking ELSE m.top

Every(Op(_), messages) == FlattenSeq([k \in DOMAIN messages |-> Op(messages[k])])

(* Whatever is held back, nothing is lost or changes its place: what was   *)
(* said, what was thought and what was called come out as they came in.    *)
OrderKept(wire) ==
  /\ SelectSeq(Every(LAMBDA m : m.content, wire), LAMBDA b : b.kind \notin {"blank", "tool_result"})
       = Every(SaidBy, transcript)
  /\ Every(LAMBDA m : m.reasoning, wire) = Every(ThoughtBy, transcript)
  /\ Every(LAMBDA m : m.calls, wire) =
       Every(LAMBDA m : IdsOf(OfKind(m.blocks, {"tool_use"})), transcript)

(* A result is sent once, unless a later one has answered the same call.   *)
ResultsKept(wire) ==
  LET all  == OfKind(Every(LAMBDA m : m.blocks, transcript), {"tool_result"})
      sent == OfKind(Every(LAMBDA m : m.content, wire), {"tool_result"})
  IN  \A j \in DOMAIN all :
        LET copies == {k \in DOMAIN sent : sent[k] = all[j]} IN
        \/ \E k \in copies : copies = {k}
        \/ copies = {} /\ \E k \in DOMAIN all : k > j /\ all[k].id = all[j].id

(* A call counts as answered by a result that comes later.                 *)
EveryCallAnswered ==
  \A m \in DOMAIN transcript : \A id \in ToSet(IdsOf(OfKind(transcript[m].blocks, {"tool_use"}))) :
    \E n \in DOMAIN transcript :
      n > m /\ id \in ToSet(IdsOf(OfKind(transcript[n].blocks, {"tool_result"})))

(* A conversation is replayed if every call in it is answered, and only    *)
(* then; what is replayed is what was said, in a form that is accepted.    *)
HistoryIsReplayed ==
  /\ ~refused => (Complete <=> EveryCallAnswered)
  /\ Complete => LET wire == Wire IN IsStrict(wire) /\ OrderKept(wire) /\ ResultsKept(wire)
=============================================================================
