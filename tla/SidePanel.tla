------------------------------- MODULE SidePanel -------------------------------
(***************************************************************************)
(* The turn loop of the browser side panel (sidepanel.js): a client of     *)
(* /v1/messages that replays its whole history with every request, runs    *)
(* the tools the model asks for, some after the user's approval, and saves *)
(* the conversation half a second after a turn.                            *)
(*                                                                         *)
(* JavaScript runs one handler at a time: a turn gives way only where it   *)
(* awaits (the pinned tab, the reply, an approval, a tool), and there the  *)
(* user may stop it, clear the conversation or close the panel, and the    *)
(* timer of the last turn may fire.                                        *)
(*                                                                         *)
(* Operators marked "Slip:" are plausible defective variants of the        *)
(* operator they precede; the specification does not use them.             *)
(***************************************************************************)
EXTENDS Naturals, Sequences, FiniteSets

CONSTANTS
  MaxRounds,    \* MAX_TOOL_ROUNDS
  MaxCalls,     \* tool calls of a reply
  MaxSends      \* prompts, for model checking

VARIABLES
  at,           \* where the turn awaits, or "idle"
  aborted,      \* the signal of stopController
  history,      \* the conversation, replayed with every request
  round,        \* tool rounds of the turn so far
  left,         \* tool calls of the reply that have no outcome yet
  card,         \* the approval card is on the page
  timer,        \* a save is scheduled
  saved,        \* the conversation in storage, empty if there is none
  pinned,       \* the conversation has its tab
  cleared,      \* the history was cleared under a turn, or saved under one (an observer)
  savedCleared, \* the same of what is saved (an observer)
  sends,        \* prompts so far, for the bound
  replies       \* replies with tool calls so far, which name them

vars == <<at, aborted, history, round, left, card, timer, saved, pinned, cleared, savedCleared,
          sends, replies>>

(* A message: who it is from, the calls it makes or answers, or zero.      *)
Prompt     == [from |-> "user", calls |-> 0, answers |-> 0]
Results(c) == [from |-> "user", calls |-> 0, answers |-> c]
Reply(c)   == [from |-> "assistant", calls |-> c, answers |-> 0]

IsPrompt(m) == m.from = "user" /\ m.answers = 0

Init ==
  /\ at = "idle" /\ aborted = FALSE /\ history = <<>> /\ round = 0 /\ left = 0 /\ card = FALSE
  /\ timer = FALSE /\ saved = <<>> /\ pinned = FALSE
  /\ cleared = FALSE /\ savedCleared = FALSE /\ sends = 0 /\ replies = 0

Busy == at # "idle"

-----------------------------------------------------------------------------
(* What the code does between two awaits.                                  *)

(* The finally block of send.                                              *)
Ends(h) ==
  /\ history' = h /\ at' = "idle" /\ aborted' = FALSE /\ timer' = TRUE
  /\ round' = 0 /\ left' = 0 /\ card' = FALSE

(* The next round: the signal is read before the history is sent.          *)
Continue(h, r, stopped) ==
  IF stopped \/ r = MaxRounds THEN Ends(h)
  ELSE /\ history' = h /\ at' = "requesting" /\ round' = r
       /\ left' = 0 /\ card' = FALSE /\ UNCHANGED <<aborted, timer>>

(* The next tool call; those of a stopped turn are answered without being  *)
(* run.  A page action and a command need approval.                        *)
NextCall(h, n, call, stopped) ==
  IF n = 0 \/ stopped THEN Continue(Append(h, Results(call)), round + 1, stopped)
  ELSE /\ history' = h /\ left' = n
       /\ \/ at' = "approving" /\ card' = TRUE
          \/ at' = "acting" /\ card' = FALSE
       /\ UNCHANGED <<aborted, round, timer>>

-----------------------------------------------------------------------------
Send ==
  /\ at = "idle" /\ sends < MaxSends /\ sends' = sends + 1
  /\ IF pinned THEN Continue(Append(history, Prompt), 0, FALSE)
     ELSE /\ at' = "pinning" /\ history' = Append(history, Prompt)
          /\ UNCHANGED <<aborted, round, left, card, timer>>
  /\ UNCHANGED <<saved, pinned, cleared, savedCleared, replies>>

(* There may be no active tab to pin.                                      *)
Pinned ==
  /\ at = "pinning"
  /\ pinned' \in BOOLEAN
  /\ Continue(history, 0, aborted)
  /\ UNCHANGED <<saved, cleared, savedCleared, sends, replies>>

(* The request or its stream fails, or is aborted before a reply arrived.  *)
RequestFails ==
  /\ at = "requesting"
  /\ Ends(history)
  /\ UNCHANGED <<saved, pinned, cleared, savedCleared, sends, replies>>

(* A reply of some content and calls.  Calls of a reply that was stopped   *)
(* or cut off are not kept.                                                *)
Kept(content) == IF content THEN Append(history, Reply(0)) ELSE history

Replied ==
  /\ at = "requesting"
  /\ \E content \in BOOLEAN, n \in 0..MaxCalls, whole \in BOOLEAN :
       IF aborted \/ ~whole \/ n = 0 THEN Ends(Kept(content)) /\ UNCHANGED replies
       ELSE /\ replies' = replies + 1
            /\ NextCall(Append(history, Reply(replies + 1)), n, replies + 1, FALSE)
  /\ UNCHANGED <<saved, pinned, cleared, savedCleared, sends>>

Allow ==
  /\ at = "approving" /\ card
  /\ at' = "acting" /\ card' = FALSE
  /\ UNCHANGED <<aborted, history, round, left, timer, saved, pinned, cleared, savedCleared, sends,
                 replies>>

Deny ==
  /\ at = "approving" /\ card
  /\ NextCall(history, left - 1, replies, FALSE)
  /\ UNCHANGED <<saved, pinned, cleared, savedCleared, sends, replies>>

(* A tool reports its failures as results.                                 *)
ToolReturns ==
  /\ at = "acting"
  /\ NextCall(history, left - 1, replies, aborted)
  /\ UNCHANGED <<saved, pinned, cleared, savedCleared, sends, replies>>

-----------------------------------------------------------------------------
(* The user.                                                               *)

(* Slip: a stop leaves a pending card on the page.                         *)
StopLeavesCard ==
  /\ Busy /\ ~aborted
  /\ aborted' = TRUE
  /\ UNCHANGED <<at, history, round, left, card, timer, saved, pinned, cleared, savedCleared, sends,
                 replies>>

(* A stop settles a pending card as denied.                                *)
Stop ==
  /\ Busy /\ ~aborted
  /\ IF at = "approving" THEN NextCall(history, left - 1, replies, TRUE)
     ELSE /\ aborted' = TRUE
          /\ UNCHANGED <<at, history, round, left, card, timer>>
  /\ UNCHANGED <<saved, pinned, cleared, savedCleared, sends, replies>>

(* A clear does not stop the turn; it takes its card off the page.         *)
Clear ==
  /\ history' = <<>> /\ pinned' = FALSE /\ card' = FALSE
  /\ timer' = FALSE /\ saved' = <<>>
  /\ cleared' = Busy /\ savedCleared' = FALSE
  /\ UNCHANGED <<at, aborted, round, left, sends, replies>>

TabCloses ==
  /\ pinned /\ pinned' = FALSE
  /\ UNCHANGED <<at, aborted, history, round, left, card, timer, saved, cleared, savedCleared, sends,
                 replies>>

-----------------------------------------------------------------------------
(* Saving, closing and opening.                                            *)

(* What trimLeading may leave: the messages from a later prompt on; it is  *)
(* called again while more than two messages are too many.                 *)
Prompts(h)  == {k \in 2..Len(h) : IsPrompt(h[k])}
From(h, k)  == SubSeq(h, k, Len(h))
Trimmed(h) ==
  LET cuts    == Prompts(h) \cup {1}
      large   == {k \in cuts : Len(h) - k + 1 > 2}
      after(k) == {c \in cuts : c > k /\ \A d \in cuts : d > k => c <= d}
  IN {From(h, k) : k \in {1} \cup UNION {after(k) : k \in large}}
     \cup {<<>> : k \in {k \in large : after(k) = {}}}

Unanswered == at \in {"approving", "acting"}

Save ==
  /\ timer /\ timer' = FALSE
  /\ IF history = <<>> THEN UNCHANGED <<saved, savedCleared>>
     ELSE /\ \E s \in Trimmed(history) : saved' = s
          /\ savedCleared' = (cleared \/ Unanswered)
  /\ UNCHANGED <<at, aborted, history, round, left, card, pinned, cleared, sends, replies>>

(* The panel is closed, with all it holds, and opened again.               *)
Reopen ==
  /\ at' = "idle" /\ aborted' = FALSE /\ round' = 0 /\ left' = 0 /\ card' = FALSE /\ timer' = FALSE
  /\ history' = saved /\ cleared' = savedCleared
  /\ pinned' \in (IF saved = <<>> THEN {FALSE} ELSE BOOLEAN)
  /\ UNCHANGED <<saved, savedCleared, sends, replies>>

PanelNext ==
  \/ Send \/ Pinned \/ RequestFails \/ Replied \/ Allow \/ Deny \/ ToolReturns
  \/ Stop \/ Clear \/ TabCloses \/ Save \/ Reopen

PanelSpec == Init /\ [][PanelNext]_vars

-----------------------------------------------------------------------------
(* Type invariant.                                                         *)
PanelTypeOK ==
  /\ at \in {"idle", "pinning", "requesting", "approving", "acting"}
  /\ {aborted, card, timer, pinned, cleared, savedCleared} \subseteq BOOLEAN
  /\ round \in 0..MaxRounds /\ left \in 0..MaxCalls /\ sends \in 0..MaxSends
  /\ card => at = "approving"

(* What a provider accepts: a history that begins and ends with the user,  *)
(* in which calls and results are neighbours.                              *)
ResultsFollowCalls(h) ==
  \A k \in 1..Len(h) : h[k].answers # 0 => k > 1 /\ h[k - 1].calls = h[k].answers
CallsAreAnswered(h) ==
  \A k \in 1..Len(h) : h[k].calls # 0 => k < Len(h) /\ h[k + 1].answers = h[k].calls
Replayable(h) ==
  /\ h # <<>> /\ IsPrompt(h[1]) /\ h[Len(h)].from = "user"
  /\ ResultsFollowCalls(h) /\ CallsAreAnswered(h)

Asks == at' = "requesting" /\ (at # "requesting" \/ round' > round)
Acts == at # "acting" /\ at' = "acting"

(* Every request replays a history that a provider accepts, whatever was   *)
(* stopped, cut off, trimmed or restored, unless the conversation was      *)
(* cleared under a turn or saved between calls and results; and nothing    *)
(* is run after a stop, nor for ever waited for.                           *)
RequestsAreReplayable ==
  [][/\ Asks => cleared' \/ Replayable(history')
     /\ Acts => ~aborted
     /\ aborted' => at' # "approving"]_vars

(* A request never sends a tool_result that does not follow the tool_use   *)
(* it answers, as trimLeading says of replay.                              *)
SentResultsFollowCalls == [][Asks => ResultsFollowCalls(history')]_vars
================================================================================
