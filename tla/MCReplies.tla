------------------------------ MODULE MCReplies ------------------------------
(* Small instances of components through which an answer reaches a client: *)
(* the runner of the Codex backend, the Messages endpoint, the Responses   *)
(* adapter and its store, the side panel and the bridge that runs its      *)
(* commands, the normaliser of native tool markup, and what an operator    *)
(* uses: the admin page with its settings editor, its server controls and  *)
(* its account card, and the scan of context windows.  In these modules    *)
(* they do not interact; a behaviour runs the one that it has chosen at    *)
(* the start and leaves the others alone.                                  *)
EXTENDS MCRequests, TLC

CONSTANTS
  Items, MaxAttempts, MaxContent,
  Indices, MaxEvents,
  Pages, ModelRefs, Routes, MaxEdits, MaxHands,
  Polls, Clicks, MaxInstances,
  Gets, MaxOrders,
  Rungs, MaxScans,
  MaxSegments, MaxBlockSize

VARIABLES
  phase, outcome, upstream, accepted, attempts, renewed, answer, held, committed, begun, client,
  late, content,
  stage, assembler, ready, emitted, reader, fed,
  env, override, table, page, call, edits, hands, handed,
  server, born, pill, controls, busy, ticking, poll, act, config,
  account, badge, timers, known, get, order, orders, excused,
  recorded, scan, asked, scans,
  script, heard, framer, structured, shown, native, finishes, parsing

codexVars     == <<phase, outcome, upstream, accepted, attempts, renewed, answer, held, committed,
                   begun, client, late, content>>
responsesVars == <<stage, assembler, ready, emitted, reader, fed>>
editorVars    == <<env, override, table, page, call, edits, hands, handed>>
consoleVars   == <<server, born, pill, controls, busy, ticking, poll, act, config>>
accountsVars  == <<account, badge, timers, known, get, order, orders, excused>>
scanVars      == <<recorded, scan, asked, scans>>
adminVars     == <<editorVars, consoleVars, accountsVars, scanVars>>
nativeVars    == <<script, heard, framer, structured, shown, native, finishes, parsing>>
streamVars    == <<codexVars, responsesVars, nativeVars>>
allVars       == <<component, streamVars, requestVars, adminVars>>

Codex     == INSTANCE CodexStream
Responses == INSTANCE ResponsesStream
Editor    == INSTANCE AdminEditor
Console   == INSTANCE AdminConsole WITH timer <- ticking
Accounts  == INSTANCE AdminAccounts WITH card <- badge
Scan      == INSTANCE ContextScan
Native    == INSTANCE NativeToolStream WITH outcome <- parsing

(* Pages of the editor differ by name only.                                *)
Symmetry == Permutations(Pages)

MCInit ==
  /\ component \in {"codex", "endpoint", "responses", "store", "panel", "bridge",
                    "editor", "console", "accounts", "scan", "native"}
  /\ RequestInit /\ Codex!Init /\ Responses!Init
  /\ Editor!Init /\ Console!Init /\ Accounts!Init
  /\ component # "editor" => env["pins"] = 0
  /\ component # "console" => \A q \in Polls : poll[q] = "asked" => q = 1
  /\ component # "accounts" => account = "connected"
  /\ Scan!Init
  /\ component # "scan" => recorded = [m \in Scan!Models |-> NONE]
  /\ IF component = "native" THEN Native!Init
     ELSE /\ script = [f \in Native!TextFields |-> <<>>] /\ heard = script /\ shown = script
          /\ framer = [f \in Native!TextFields |-> Native!NewFramer]
          /\ structured = FALSE /\ native = 0 /\ finishes = 0 /\ parsing = "streaming"

AdminNext ==
  \/ /\ component = "editor" /\ Editor!EditorNext
     /\ UNCHANGED <<consoleVars, accountsVars, scanVars>>
  \/ /\ component = "console" /\ Console!ConsoleNext
     /\ UNCHANGED <<editorVars, accountsVars, scanVars>>
  \/ /\ component = "accounts" /\ Accounts!AccountsNext
     /\ UNCHANGED <<editorVars, consoleVars, scanVars>>
  \/ /\ component = "scan" /\ Scan!ScanNext
     /\ UNCHANGED <<editorVars, consoleVars, accountsVars>>

StreamNext ==
  \/ /\ component = "codex" /\ Codex!CodexNext
     /\ UNCHANGED <<responsesVars, nativeVars>>
  \/ /\ component = "responses" /\ Responses!ReplyNext
     /\ UNCHANGED <<codexVars, nativeVars>>
  \/ /\ component = "native" /\ Native!NativeNext
     /\ UNCHANGED <<codexVars, responsesVars>>

MCNext ==
  /\ UNCHANGED component
  /\ \/ StreamNext /\ UNCHANGED <<requestVars, adminVars>>
     \/ RequestNext /\ UNCHANGED <<streamVars, adminVars>>
     \/ AdminNext /\ UNCHANGED <<streamVars, requestVars>>

MCSpec == MCInit /\ [][MCNext]_allVars

-----------------------------------------------------------------------------
(* The properties, each stated in the module of its component.             *)

(* A translated stream can be followed by whom it is for: a Codex answer   *)
(* as one legal message, a Responses reply to its end, an answer with      *)
(* native tool markup as text and calls.                                   *)
StreamsAreLegal ==
  /\ component = "codex" => Codex!TypeOK /\ Codex!CodexContractKept
  /\ component = "responses" => Responses!ReplyTypeOK /\ Responses!ClientCanFollow
  /\ component = "native" => Native!NativeTypeOK /\ Native!NativeToolsHold

(* What the operator relies on: what is applied is what was edited, a      *)
(* restart that is reported has happened and the page goes on watching its *)
(* server, a sign-in is followed to its end, and a scan of the windows     *)
(* keeps the recorded numbers of the models that it is to cover, except    *)
(* those of a provider for which it can resolve nothing.                   *)
OperatorIsServed ==
  /\ [](component = "editor" => Editor!EditorTypeOK)
  /\ Editor!EditsAreSaved
  /\ [](component = "console" => Console!ConsoleTypeOK /\ Console!ConsoleHolds)
  /\ [](component = "accounts" => Accounts!AccountsTypeOK /\ Accounts!QuietCardIsTrue)
  /\ [](component = "scan" => Scan!ScanTypeOK)
  /\ Scan!ScansKeepNumbers
==============================================================================
