-------------------------- MODULE OpenAIChatStream --------------------------
(***************************************************************************)
(* One run of _OpenAIChatStreamRunner: an upstream chat-completion stream, *)
(* opened, read and if need be replayed, continued or repaired, turned     *)
(* into the events of one Anthropic message.                               *)
(*                                                                         *)
(* A ledger records the message under construction.  Its events are held   *)
(* back for a moment, so that a stream that fails early can be replayed    *)
(* without the client noticing, and are released by time, by size or by a  *)
(* keepalive; from then on they go out as they come.  Which of these       *)
(* happens when is left open.  Text, reasoning and tool arguments are      *)
(* reduced to the blocks they are in, and an event to what StreamContract   *)
(* looks at; "of" is the ledger it comes from.                             *)
(*                                                                         *)
(* Operators marked "Slip:" are plausible defective variants of the        *)
(* operator they precede; the specification does not use them.             *)
(***************************************************************************)
EXTENDS StreamContract, FiniteSets

CONSTANTS
  Tools,        \* indexes of native tool calls
  MaxAttempts,  \* attempts of one ProviderRetrySession
  MaxContent    \* bound on chunks with content, for model checking

VARIABLES
  phase,        \* where the runner is
  outcome,      \* how the run ended
  upstream,     \* an upstream stream and its admitted attempt are held
  accepted,     \* attempt.accepted: a chunk of this stream has arrived
  finish,       \* a finish reason was read from it
  attempts,     \* attempts started
  ledger,       \* the AnthropicStreamLedger
  held,         \* events in the RecoveryHoldbackBuffer
  committed,    \* RecoveryHoldbackBuffer.committed
  client,       \* what the client has received (an observer)
  salvage,      \* complete_tool_salvageable of the failure being recovered from
  content       \* chunks with content so far, for the bound

vars == <<phase, outcome, upstream, accepted, finish, attempts, ledger, held, committed,
          client, salvage, content>>

Phases   == {"starting", "opening", "reading", "recovering", "closing", "done"}
Outcomes == {"none", "completed", "failed", "cancelled", "expired"}
Block    == [kind : {"thinking", "text", "tool"}, open : BOOLEAN, args : {"none", "part", "full"}]

-----------------------------------------------------------------------------
Received(events) == Follow(client, events)

-----------------------------------------------------------------------------
(* The ledger: its blocks, indexed from one; "slot" is the block of a      *)
(* started tool call, or zero.                                             *)

NewLedger(id, begun) ==
  [id |-> id, started |-> begun, blocks |-> <<>>, slot |-> [t \in Tools |-> 0]]

OpenOf(l, kinds) == {i \in DOMAIN l.blocks : l.blocks[i].open /\ l.blocks[i].kind \in kinds}
ToolBlocks(l)    == {i \in DOMAIN l.blocks : l.blocks[i].kind = "tool"}
Generated(l)     == l.blocks # <<>>

(* The numbers of a set in order: the kth one has k - 1 before it.         *)
Ascending(S)  == [k \in 1 .. Cardinality(S) |->
                    CHOOSE i \in S : Cardinality({j \in S : j < i}) = k - 1]
Descending(S) == [k \in 1 .. Cardinality(S) |->
                    CHOOSE i \in S : Cardinality({j \in S : j > i}) = k - 1]

CloseEach(l, order) ==
  Change([l EXCEPT !.blocks = [i \in DOMAIN l.blocks |->
                                 [l.blocks[i] EXCEPT !.open = @ /\ \A k \in DOMAIN order : i # order[k]]]],
         [k \in DOMAIN order |-> Close(order[k], l.id)])

CloseSet(l, is) == CloseEach(l, Ascending(is))

(* close_all_blocks: content first, then tools; after a failure the last   *)
(* one opened first.                                                       *)
CloseContent(l) == CloseSet(l, OpenOf(l, {"thinking", "text"}))
CloseAll(l)     == Then(CloseContent(l), LAMBDA m : CloseSet(m, OpenOf(m, {"tool"})))
Unwind(l)       == CloseEach(l, Descending(OpenOf(l, {"thinking", "text", "tool"})))

NewBlock(l, kind, args) ==
  Change([l EXCEPT !.blocks = Append(@, [kind |-> kind, open |-> TRUE, args |-> args])],
         <<Open(Len(l.blocks) + 1, l.id)>>)

(* ensure_text_block and ensure_thinking_block, followed by a delta.       *)
Say(l, kind) ==
  LET rest    == {"thinking", "text"} \ {kind}
      closed  == CloseSet(l, OpenOf(l, rest))
      ensured == IF OpenOf(l, {kind}) # {} THEN closed
                 ELSE Then(closed, LAMBDA m : NewBlock(m, kind, "none"))
      i       == CHOOSE i \in OpenOf(ensured.state, {kind}) : TRUE
  IN Change(ensured.state, Append(ensured.events, Delta(i, l.id)))

(* A tool call: its block is opened when its name is known, and grows.     *)
StartTool(l, t) ==
  IF l.slot[t] # 0 THEN Change(l, <<>>)
  ELSE LET c == NewBlock(l, "tool", "none")
       IN Change([c.state EXCEPT !.slot[t] = Len(c.state.blocks)], c.events)

GrowTool(l, t, args) ==
  Change([l EXCEPT !.blocks[l.slot[t]].args = args], <<Delta(l.slot[t], l.id)>>)

CallTool(l, t, args) ==
  Then(Then(CloseContent(l), LAMBDA m : StartTool(m, t)),
       LAMBDA m : IF args = "none" THEN Change(m, <<>>) ELSE GrowTool(m, t, args))

(* A tool call spelled out in text is emitted whole.                       *)
WriteTool(l) ==
  LET c == Then(CloseContent(l), LAMBDA m : NewBlock(m, "tool", "full"))
      i == Len(c.state.blocks)
  IN Then(Change(c.state, Append(c.events, Delta(i, l.id))), LAMBDA m : CloseSet(m, {i}))

(* A message needs some text beside reasoning alone.                       *)
Fill(l) ==
  IF \E i \in DOMAIN l.blocks : l.blocks[i].kind # "thinking" THEN Change(l, <<>>)
  ELSE Say(l, "text")

Complete(c) == LET d == Then(c, CloseAll) IN Change(d.state, d.events \o Ending(d.state.id))

AllToolsComplete(l) ==
  ToolBlocks(l) # {} /\ \A i \in ToolBlocks(l) : l.blocks[i].args = "full"

-----------------------------------------------------------------------------
Init ==
  /\ phase = "starting" /\ outcome = "none"
  /\ upstream = FALSE /\ accepted = FALSE /\ finish = FALSE /\ attempts = 0
  /\ ledger = NewLedger(1, FALSE)
  /\ held = <<>> /\ committed = FALSE
  /\ client = NewClient /\ salvage = FALSE /\ content = 0

(* RecoveryHoldbackBuffer.push: time or size may release all that is held. *)
Hold(events) ==
  /\ ~committed
  /\ held' = held \o events
  /\ UNCHANGED <<committed, client>>

Release(events) ==
  /\ client' = Received(held \o events)
  /\ held' = <<>> /\ committed' = TRUE

Push(events) == Hold(events) \/ Release(events)

Drop == upstream' = FALSE /\ accepted' = FALSE /\ finish' = FALSE

-----------------------------------------------------------------------------
(* Opening: the message starts once per ledger; admission, retries of the  *)
(* creation and the wait for headers are one wait, during which a quiet    *)
(* upstream has the client told so.                                        *)

Begin ==
  /\ phase = "starting" /\ phase' = "opening"
  /\ IF ledger.started
     THEN UNCHANGED <<ledger, held, committed, client>>
     ELSE ledger' = [ledger EXCEPT !.started = TRUE] /\ Hold(<<Start(ledger.id)>>)
  /\ UNCHANGED <<outcome, upstream, accepted, finish, attempts, salvage, content>>

OpenQuiet ==
  /\ phase = "opening"
  /\ Release(<<Ping>>)
  /\ UNCHANGED <<phase, outcome, upstream, accepted, finish, attempts, ledger, salvage, content>>

Spent(n) == attempts + n <= MaxAttempts /\ attempts' = attempts + n

OpenSucceeds(n) ==
  /\ phase = "opening" /\ phase' = "reading"
  /\ Spent(n)
  /\ upstream' = TRUE
  /\ UNCHANGED <<outcome, accepted, finish, ledger, held, committed, client, salvage, content>>

-----------------------------------------------------------------------------
(* Reading one chunk.                                                      *)

(* Usage, keepalive bytes, a fragment of text that the parsers keep.       *)
ReadNothing ==
  /\ phase = "reading"
  /\ accepted' = TRUE
  /\ UNCHANGED <<phase, outcome, upstream, finish, attempts, ledger, held, committed, client,
                 salvage, content>>

ReadFinish ==
  /\ phase = "reading"
  /\ accepted' = TRUE /\ finish' = TRUE
  /\ UNCHANGED <<phase, outcome, upstream, attempts, ledger, held, committed, client, salvage, content>>

(* A fragment of a tool call without its whole name only closes content.   *)
Contents(l) ==
  {Say(l, kind) : kind \in {"thinking", "text"}} \cup {WriteTool(l)}
  \cup {CallTool(l, t, args) : t \in Tools, args \in {"none", "part", "full"}}
  \cup {CloseContent(l)}

ReadContent ==
  /\ phase = "reading" /\ content < MaxContent
  /\ accepted' = TRUE /\ content' = content + 1
  /\ \E c \in Contents(ledger) : ledger' = c.state /\ Push(c.events)
  /\ UNCHANGED <<phase, outcome, upstream, finish, attempts, salvage>>

(* The holdback is over, or the upstream has said nothing for a while.     *)
HoldbackExpires ==
  /\ phase = "reading" /\ held # <<>>
  /\ Release(<<>>)
  /\ UNCHANGED <<phase, outcome, upstream, accepted, finish, attempts, ledger, salvage, content>>

ReadQuiet ==
  /\ phase = "reading"
  /\ Release(<<Ping>>)
  /\ UNCHANGED <<phase, outcome, upstream, accepted, finish, attempts, ledger, salvage, content>>

StreamEnds ==
  /\ phase = "reading" /\ finish
  /\ phase' = "closing"
  /\ Drop
  /\ UNCHANGED <<outcome, attempts, ledger, held, committed, client, salvage, content>>

(* Names held because they might be longer start their tools at the end.   *)
LateTools(l) == {Change(l, <<>>)} \cup {StartTool(l, t) : t \in Tools}

Finish ==
  /\ phase = "closing" /\ phase' = "done" /\ outcome' = "completed"
  /\ \E late \in LateTools(ledger) :
        LET c == Complete(Then(late, Fill)) IN ledger' = c.state /\ Release(c.events)
  /\ UNCHANGED <<upstream, accepted, finish, attempts, salvage, content>>

-----------------------------------------------------------------------------
(* Failures.                                                               *)

Remaining == MaxAttempts - attempts

Salvageable(identity) == ~identity /\ AllToolsComplete(ledger)

(* Slip: a stream that has shown output is replayed all the same.          *)
ReplayVisible(identity) ==
  /\ Remaining > 0
  /\ ~Salvageable(identity)
  /\ ~(Generated(ledger) /\ Remaining = 1)

(* RecoveryController.advance_failure: replay what the client has not      *)
(* seen, and keep the last attempt for a continuation if there is output.  *)
Replayable(identity) ==
  /\ Remaining > 0
  /\ ~committed \/ ~Generated(ledger)
  /\ ~Salvageable(identity)
  /\ ~(Generated(ledger) /\ Remaining = 1)

Recoverable(identity) == Generated(ledger) /\ (Remaining > 0 \/ Salvageable(identity))

(* The holdback starts afresh, and with it the ledger.                     *)
StartOver ==
  /\ held' = <<>> /\ committed' = FALSE
  /\ ledger' = NewLedger(ledger.id + 1, committed)
  /\ UNCHANGED client

(* Slip: a failure leaves the blocks it interrupts open.                   *)
GiveUpOpen(whole) ==
  /\ phase' = "done" /\ outcome' = "failed"
  /\ IF ~committed /\ ~(held # <<>> /\ whole)
     THEN held' = <<>> /\ UNCHANGED <<ledger, committed, client>>
     ELSE ledger' = ledger /\ Release(<<>>)

(* The final error: held output is dropped, unless a whole tool call is in *)
(* it; open blocks that the client has seen are closed.                    *)
GiveUp(whole) ==
  /\ phase' = "done" /\ outcome' = "failed"
  /\ IF ~committed /\ ~(held # <<>> /\ whole)
     THEN held' = <<>> /\ UNCHANGED <<ledger, committed, client>>
     ELSE LET c == Unwind(ledger) IN ledger' = c.state /\ Release(c.events)

(* The creation failed for good: no attempt is held, nothing was read.     *)
OpenFails(n) ==
  /\ phase = "opening"
  /\ Spent(n)
  /\ GiveUp(FALSE)
  /\ UNCHANGED <<upstream, accepted, finish, salvage, content>>

(* A request the provider can correct is sent again at once.               *)
Correct ==
  /\ phase = "reading" /\ ~accepted /\ Remaining > 0
  /\ phase' = "starting"
  /\ Drop
  /\ IF committed
     THEN UNCHANGED <<ledger, held, committed>>
     ELSE ledger' = NewLedger(ledger.id + 1, FALSE) /\ held' = <<>> /\ committed' = FALSE
  /\ UNCHANGED <<outcome, attempts, client, salvage, content>>

(* The stream fails, or ends without what must end it; "identity" is an    *)
(* ambiguous tool-call identity.                                           *)
Replay(identity) ==
  /\ phase = "reading" /\ Replayable(identity)
  /\ phase' = "starting"
  /\ Drop /\ StartOver
  /\ UNCHANGED <<outcome, attempts, salvage, content>>

Recover(identity) ==
  /\ phase = "reading" /\ ~Replayable(identity) /\ Recoverable(identity)
  /\ phase' = "recovering"
  /\ Drop
  /\ salvage' = Salvageable(identity)
  /\ UNCHANGED <<outcome, attempts, ledger, held, committed, client, content>>

(* Not retryable (a context window exceeded, a bad request), or exhausted. *)
Fail(identity) ==
  /\ phase = "reading"
  /\ GiveUp(Salvageable(identity))
  /\ Drop
  /\ UNCHANGED <<attempts, salvage, content>>

-----------------------------------------------------------------------------
(* Recovery, by a task of its own, while keepalives go to a client that    *)
(* has seen something.                                                     *)

RecoveryQuiet ==
  /\ phase = "recovering" /\ committed
  /\ client' = Received(<<Ping>>)
  /\ UNCHANGED <<phase, outcome, upstream, accepted, finish, attempts, ledger, held, committed,
                 salvage, content>>

RepairAll(l) ==
  LET broken == {i \in ToolBlocks(l) : l.blocks[i].args # "full"}
      order  == Ascending(broken)
  IN Change([l EXCEPT !.blocks = [i \in DOMAIN l.blocks |->
                                    IF i \in broken THEN [l.blocks[i] EXCEPT !.args = "full"]
                                    ELSE l.blocks[i]]],
            [k \in DOMAIN order |-> Delta(order[k], l.id)])

(* The continuation brings reasoning, text or whole tool calls.            *)
Continuations(l) ==
  {Say(l, "thinking"), Say(l, "text"), WriteTool(l)}
  \cup {CallTool(l, t, "full") : t \in Tools}
  \cup {Then(Say(l, "thinking"), LAMBDA m : Say(m, "text"))}

(* Complete tool calls are salvaged without an attempt.                    *)
RecoverySucceeds(n) ==
  /\ phase = "recovering" /\ phase' = "done" /\ outcome' = "completed"
  /\ Spent(n)
  /\ \E c \in IF ToolBlocks(ledger) # {} THEN {RepairAll(ledger)} ELSE Continuations(ledger) :
        ledger' = Complete(c).state /\ Release(Complete(c).events)
  /\ n = 0 => ToolBlocks(ledger) # {}
  /\ UNCHANGED <<upstream, accepted, finish, salvage, content>>

RecoveryFails(n) ==
  /\ phase = "recovering"
  /\ Spent(n)
  /\ GiveUp(salvage)
  /\ UNCHANGED <<upstream, accepted, finish, salvage, content>>

(* The iterator is closed or its task cancelled: whatever is held of the   *)
(* upstream is closed, a stream that opened in the meantime included.      *)
Abandon(as) ==
  /\ phase # "done" /\ phase' = "done" /\ outcome' = as
  /\ Drop
  /\ UNCHANGED <<attempts, ledger, held, committed, client, salvage, content>>

-----------------------------------------------------------------------------
Opening == OpenQuiet \/ \E n \in 1..MaxAttempts : OpenSucceeds(n) \/ OpenFails(n)
Reading ==
  \/ ReadNothing \/ ReadFinish \/ ReadContent \/ HoldbackExpires \/ ReadQuiet \/ StreamEnds
  \/ Correct
  \/ \E identity \in BOOLEAN : Replay(identity) \/ Recover(identity) \/ Fail(identity)
Recovering ==
  \/ RecoveryQuiet
  \/ \E n \in 0..MaxAttempts : RecoverySucceeds(n) \/ RecoveryFails(n)

Run == Begin \/ Opening \/ Reading \/ Finish \/ Recovering

-----------------------------------------------------------------------------
(* Type invariant.                                                         *)
StreamTypeOK ==
  /\ phase \in Phases /\ outcome \in Outcomes
  /\ upstream \in BOOLEAN /\ accepted \in BOOLEAN /\ finish \in BOOLEAN
  /\ committed \in BOOLEAN /\ salvage \in BOOLEAN
  /\ attempts \in 0..MaxAttempts /\ content \in Nat
  /\ ledger.blocks \in Seq(Block)
=============================================================================
