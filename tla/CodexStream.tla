------------------------------ MODULE CodexStream ------------------------------
(***************************************************************************)
(* One run of OpenAICodexProvider._run_stream: a Responses stream of the   *)
(* Codex backend, opened with the account's token, translated item by item *)
(* into the events of one Anthropic message, and started over when it      *)
(* fails before the client has seen content.                               *)
(*                                                                         *)
(* Unlike the chat-completion runner it never continues or repairs an      *)
(* answer; it has two corrections of its own, one renewal of a token that  *)
(* was refused and the removal of a history record that was refused.       *)
(* Items come as the protocol sends them: added at most once, deltas of    *)
(* several items in any order, done at most once, nothing of an item after *)
(* it is done.  The stream is read to its end, past its terminal event.    *)
(*                                                                         *)
(* Operators marked "Slip:" are plausible defective variants of the        *)
(* operator they precede; the specification does not use them.             *)
(***************************************************************************)
EXTENDS StreamContract, SequencesExt

CONSTANTS
  Items,        \* output items of an upstream response
  MaxAttempts,  \* attempts of one ProviderRetrySession
  MaxContent    \* bound on events with content, for model checking

VARIABLES
  phase,        \* where the run is
  outcome,      \* how it ended
  upstream,     \* a response or its admitted attempt is held
  accepted,     \* attempt.accepted
  attempts,     \* attempts started
  renewed,      \* authentication_recovered
  answer,       \* the ResponsesProviderStream of the current attempt
  held,         \* events in the RecoveryHoldbackBuffer
  committed,    \* RecoveryHoldbackBuffer.committed
  begun,        \* message_started_committed
  client,       \* what the client has received (an observer)
  late,         \* upstream fell silent or failed after its terminal event (an observer)
  content       \* events with content so far, for the bound

vars == <<phase, outcome, upstream, accepted, attempts, renewed, answer, held, committed, begun,
          client, late, content>>

(* An item: what it is, whether it was announced, named or done, and the   *)
(* block it is in, or zero.                                                *)
Unseen == [kind |-> "none", stage |-> "unseen", named |-> FALSE, pending |-> FALSE,
           received |-> FALSE, block |-> 0, stopped |-> FALSE]

NewAnswer(id) ==
  [id |-> id, blocks |-> <<>>, text |-> 0, items |-> [i \in Items |-> Unseen],
   generated |-> FALSE, completed |-> FALSE]

-----------------------------------------------------------------------------
(* Blocks are open or closed; "text" is the open block of text, or zero.   *)
OpenBlock(a) ==
  Change([a EXCEPT !.blocks = Append(@, TRUE), !.generated = TRUE],
         <<Open(Len(a.blocks) + 1, a.id)>>)

Grow(a, b) == Change([a EXCEPT !.generated = TRUE], <<Delta(b, a.id)>>)

Shut(a, b) ==
  Change([a EXCEPT !.blocks[b] = FALSE, !.text = IF @ = b THEN 0 ELSE @], <<Close(b, a.id)>>)

CloseText(a) == IF a.text = 0 THEN Change(a, <<>>) ELSE Shut(a, a.text)

Say(a) ==
  Then(IF a.text # 0 THEN Change(a, <<>>)
       ELSE LET c == OpenBlock(a)
            IN Change([c.state EXCEPT !.text = Len(c.state.blocks)], c.events),
       LAMBDA m : Grow(m, m.text))

(* _ensure_reasoning_started and _ensure_tool_started: the block of an item.*)
Place(a, i) ==
  IF a.items[i].block # 0 THEN Change(a, <<>>)
  ELSE LET c == OpenBlock(a)
       IN Change([c.state EXCEPT !.items[i].block = Len(c.state.blocks)], c.events)

GrowItem(a, i) == Grow(a, a.items[i].block)

StopItem(a, i) ==
  Change([Shut(a, a.items[i].block).state EXCEPT !.items[i].stopped = TRUE],
         Shut(a, a.items[i].block).events)

(* A tool call starts once its name is known, with what came before.       *)
BeginTool(a, i) ==
  LET quiet  == IF a.items[i].block # 0 THEN Change(a, <<>>) ELSE CloseText(a)
      placed == Then(quiet, LAMBDA m : Place(m, i))
  IN Then(placed,
          LAMBDA m : IF ~m.items[i].pending THEN Change(m, <<>>)
                     ELSE GrowItem([m EXCEPT !.items[i].pending = FALSE], i))

Reason(a, i) == Then(Then(CloseText(a), LAMBDA m : Place(m, i)), LAMBDA m : GrowItem(m, i))

-----------------------------------------------------------------------------
(* ResponsesProviderStream.feed, one event each.                           *)

Seen(a, i, kind, stage) == [a EXCEPT !.items[i].kind = kind, !.items[i].stage = stage]

(* "readable" is a reasoning item that comes with text.                    *)
AddItem(a, i, kind, readable) ==
  LET b == Seen(a, i, kind, "added") IN
  CASE kind = "tool" ->
         LET n == [b EXCEPT !.items[i].named = TRUE]
         IN IF n.items[i].pending THEN BeginTool(n, i) ELSE Change(n, <<>>)
    [] kind = "message"   -> CloseText(b)
    [] kind = "reasoning" -> IF readable THEN Reason(b, i) ELSE Change(b, <<>>)

(* Arguments of a call without a name are kept.                            *)
CallDelta(a, i) ==
  LET b == [a EXCEPT !.items[i].kind = "tool", !.items[i].received = TRUE] IN
  IF ~b.items[i].named THEN Change([b EXCEPT !.items[i].pending = TRUE], <<>>)
  ELSE Then(BeginTool(b, i), LAMBDA m : GrowItem(m, i))

ReasonDelta(a, i) == Reason([a EXCEPT !.items[i].kind = "reasoning"], i)

DoneTool(a, i) ==
  LET b == [Seen(a, i, "tool", "done") EXCEPT !.items[i].named = TRUE]
      whole(m) == IF m.items[i].received THEN Change(m, <<>>) ELSE GrowItem(m, i)
  IN Then(Then(BeginTool(b, i), whole), LAMBDA m : StopItem(m, i))

(* Text that was not streamed, and a signature or an encrypted record.     *)
DoneReasoning(a, i, readable, encrypted) ==
  LET b    == Seen(a, i, "reasoning", "done")
      rest == IF readable THEN Then(Place(b, i), LAMBDA m : GrowItem(m, i)) ELSE Change(b, <<>>)
      sign(m) ==
        IF m.items[i].block # 0 THEN Then(GrowItem(m, i), LAMBDA n : StopItem(n, i))
        ELSE IF encrypted THEN Then(Place(m, i), LAMBDA n : StopItem(n, i))
        ELSE Change(m, <<>>)
  IN Then(rest, sign)

DoneMessage(a, i) == Change(Seen(a, i, "message", "done"), <<>>)

(* _finish: calls that wait for their names start without one, everything  *)
(* open is stopped, and an answer without content is padded.               *)
Finish(a) ==
  LET waiting == {i \in Items : a.items[i].pending}
      started == FoldLeft(LAMBDA c, i : Then(c, LAMBDA m : BeginTool(m, i)), Change(a, <<>>),
                          SetToSeq(waiting))
      left(m) == SetToSortSeq({b \in DOMAIN m.blocks : m.blocks[b]}, <)
      shut(m) == FoldLeft(LAMBDA c, b : Then(c, LAMBDA n : Shut(n, b)), Change(m, <<>>), left(m))
      pad(m)  == IF m.blocks # <<>> THEN Change(m, <<>>)
                 ELSE LET p == Then(Say(m), CloseText)
                      IN Change([p.state EXCEPT !.generated = FALSE], p.events)
      c       == Then(Then(started, shut), pad)
  IN Change([c.state EXCEPT !.completed = TRUE], c.events \o Ending(a.id))

Live(a, i) == a.items[i].stage # "done"
Fits(a, i, kind) == Live(a, i) /\ a.items[i].kind \in {"none", kind}

Feeds(a) ==
  LET of(kind)  == {i \in Items : Fits(a, i, kind)}
      fresh(kind) == {i \in of(kind) : a.items[i].stage = "unseen"} IN
  {AddItem(a, i, "tool", FALSE) : i \in fresh("tool")}
  \cup {AddItem(a, i, "message", FALSE) : i \in fresh("message")}
  \cup {AddItem(a, i, "reasoning", r) : i \in fresh("reasoning"), r \in BOOLEAN}
  \cup {CallDelta(a, i) : i \in of("tool")} \cup {DoneTool(a, i) : i \in of("tool")}
  \cup {ReasonDelta(a, i) : i \in of("reasoning")}
  \cup {DoneReasoning(a, i, r, e) : i \in of("reasoning"), r \in BOOLEAN, e \in BOOLEAN}
  \cup {DoneMessage(a, i) : i \in of("message")}
  \cup {Say(a)}

-----------------------------------------------------------------------------
Init ==
  /\ phase = "starting" /\ outcome = "none"
  /\ upstream = FALSE /\ accepted = FALSE /\ attempts = 0 /\ renewed = FALSE
  /\ answer = NewAnswer(0)
  /\ held = <<>> /\ committed = FALSE /\ begun = FALSE
  /\ client = NewClient /\ late = FALSE /\ content = 0

Received(events) == Follow(client, events)
CanAttempt       == attempts < MaxAttempts

(* RecoveryHoldbackBuffer: what is pushed is held for a moment, until time *)
(* or size releases all of it.                                             *)
Hold(events) ==
  /\ ~committed
  /\ held' = held \o events
  /\ UNCHANGED <<committed, client>>

Release(events) ==
  /\ client' = Received(held \o events)
  /\ held' = <<>> /\ committed' = TRUE

Push(events) == Hold(events) \/ Release(events)

Discard == held' = <<>> /\ UNCHANGED <<committed, client>>
Drop    == upstream' = FALSE /\ accepted' = FALSE

-----------------------------------------------------------------------------
(* Opening.                                                                *)

(* A new answer per attempt; its message_start is not sent twice.          *)
Begin ==
  /\ phase = "starting" /\ CanAttempt
  /\ phase' = "admitting"
  /\ answer' = NewAnswer(answer.id + 1)
  /\ IF begun THEN UNCHANGED <<held, committed, client>>
     ELSE IF committed THEN Release(<<Start(answer.id + 1)>>) ELSE Hold(<<Start(answer.id + 1)>>)
  /\ UNCHANGED <<outcome, upstream, accepted, attempts, renewed, begun, late, content>>

(* The loop ends without a result after the last attempt was corrected.    *)
RunsOut ==
  /\ phase = "starting" /\ ~CanAttempt
  /\ phase' = "done" /\ outcome' = "failed"
  /\ UNCHANGED <<upstream, accepted, attempts, renewed, answer, held, committed, begun, client,
                 late, content>>

Admitted ==
  /\ phase = "admitting" /\ phase' = "sending"
  /\ attempts' = attempts + 1 /\ upstream' = TRUE
  /\ UNCHANGED <<outcome, accepted, renewed, answer, held, committed, begun, client, late, content>>

(* No token, or no admission: nothing is retried.                          *)
Refused ==
  /\ phase = "admitting"
  /\ phase' = "done" /\ outcome' = "failed"
  /\ IF committed THEN UNCHANGED <<held, committed, client>> ELSE Discard
  /\ UNCHANGED <<upstream, accepted, attempts, renewed, answer, begun, late, content>>

(* Slip: a keepalive releases the buffer without noting what it released.  *)
QuietUnnoted ==
  /\ phase \in {"sending", "reading"}
  /\ Release(<<Ping>>)
  /\ late' = (late \/ answer.completed)
  /\ UNCHANGED <<phase, outcome, upstream, accepted, attempts, renewed, answer, begun, content>>

(* A quiet upstream has the client told so, before and after the headers.  *)
Quiet ==
  /\ phase \in {"sending", "reading"}
  /\ Release(<<Ping>>)
  /\ begun' = TRUE /\ late' = (late \/ answer.completed)
  /\ UNCHANGED <<phase, outcome, upstream, accepted, attempts, renewed, answer, content>>

Opened ==
  /\ phase = "sending" /\ phase' = "reading"
  /\ UNCHANGED <<outcome, upstream, accepted, attempts, renewed, answer, held, committed, begun,
                 client, late, content>>

(* A refused token is renewed once, and the request sent again.            *)
Renew ==
  /\ phase = "sending" /\ ~renewed
  /\ phase' = "starting" /\ renewed' = TRUE
  /\ Drop
  /\ IF begun THEN UNCHANGED <<held, committed, client>> ELSE Discard
  /\ UNCHANGED <<outcome, attempts, answer, begun, late, content>>

-----------------------------------------------------------------------------
(* Reading.                                                                *)

HoldbackExpires ==
  /\ phase = "reading" /\ ~committed
  /\ Release(<<>>)
  /\ begun' = TRUE
  /\ UNCHANGED <<phase, outcome, upstream, accepted, attempts, renewed, answer, late, content>>

Reads(c) ==
  /\ phase = "reading" /\ ~answer.completed
  /\ accepted' = TRUE /\ answer' = c.state
  /\ IF c.events = <<>> THEN UNCHANGED <<held, committed, client>> ELSE Push(c.events)
  /\ UNCHANGED <<phase, outcome, upstream, attempts, renewed, begun, late>>

ReadItem == content < MaxContent /\ content' = content + 1 /\ \E c \in Feeds(answer) : Reads(c)

(* response.completed or response.incomplete; what follows is ignored.     *)
ReadTerminal == Reads(Finish(answer)) /\ UNCHANGED content

StreamEnds ==
  /\ phase = "reading" /\ answer.completed
  /\ phase' = "done" /\ outcome' = "completed"
  /\ Release(<<>>)
  /\ Drop
  /\ UNCHANGED <<attempts, renewed, answer, begun, late, content>>

-----------------------------------------------------------------------------
(* Failures: of the request, of the stream, its end without a terminal     *)
(* event, or an event that reports one.                                    *)

Fails == phase \in {"sending", "reading"} /\ Drop /\ late' = (late \/ answer.completed)

(* Content that was shown is not replayed.                                 *)
Replayable == CanAttempt /\ (~committed \/ ~answer.generated)

(* The failure is transient: the holdback starts afresh, as released as    *)
(* the one before it.                                                      *)
Replay ==
  /\ Fails /\ Replayable
  /\ phase' = "starting"
  /\ held' = <<>> /\ UNCHANGED <<committed, client>>
  /\ begun' = (begun \/ committed)
  /\ UNCHANGED <<outcome, attempts, renewed, answer, content>>

(* A history record was refused, before anything was shown: it is taken    *)
(* out of the request.  Only a response that was not opened says so: a     *)
(* failure that the stream reports leaves _effective_error with 429, 529,  *)
(* 502, or 400 for a full context, none of which history_retry_body takes. *)
Correct ==
  /\ Fails /\ phase = "sending" /\ ~begun /\ CanAttempt
  /\ phase' = "starting"
  /\ Discard
  /\ UNCHANGED <<outcome, attempts, renewed, answer, begun, content>>

Unwind == LET open == SetToSortSeq({b \in DOMAIN answer.blocks : answer.blocks[b]}, >)
          IN [k \in DOMAIN open |-> Close(open[k], answer.id)]

(* The failure is final; blocks that the client has seen are closed.       *)
GiveUp ==
  /\ Fails
  /\ phase' = "done" /\ outcome' = "failed"
  /\ IF committed THEN Release(Unwind) ELSE Discard
  /\ UNCHANGED <<attempts, renewed, answer, begun, content>>

(* The iterator is closed or its task cancelled.                           *)
Abandon ==
  /\ phase # "done" /\ phase' = "done" /\ outcome' = "cancelled"
  /\ Drop
  /\ UNCHANGED <<attempts, renewed, answer, held, committed, begun, client, late, content>>

-----------------------------------------------------------------------------
CodexNext ==
  \/ Begin \/ RunsOut \/ Admitted \/ Refused \/ Quiet \/ Opened \/ Renew
  \/ HoldbackExpires \/ ReadItem \/ ReadTerminal \/ StreamEnds
  \/ Replay \/ Correct \/ GiveUp \/ Abandon

CodexSpec == Init /\ [][CodexNext]_vars

-----------------------------------------------------------------------------
(* Type invariant.                                                         *)
TypeOK ==
  /\ phase \in {"starting", "admitting", "sending", "reading", "done"}
  /\ outcome \in {"none", "completed", "failed", "cancelled"}
  /\ {upstream, accepted, renewed, committed, begun, late} \subseteq BOOLEAN
  /\ attempts \in 0..MaxAttempts /\ content \in Nat
  /\ answer.blocks \in Seq(BOOLEAN) /\ answer.text \in 0..Len(answer.blocks)

(* The client receives one message: it is started once and obeys the       *)
(* contract whatever was replayed, its content is of one answer, and a     *)
(* failure leaves no block open.  (Not so when upstream falls silent or    *)
(* breaks off after its terminal event: a finished message may then be     *)
(* followed by a ping, by an error or even by another answer.)             *)
CodexContractKept ==
  /\ client.starts <= 1
  /\ ~late => client.legal /\ client.of \subseteq {answer.id}
  /\ outcome = "failed" => client.open = {}
  /\ outcome = "completed" => client.open = {} /\ client.stops >= 1
================================================================================
