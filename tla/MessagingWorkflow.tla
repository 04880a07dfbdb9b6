------------------------- MODULE MessagingWorkflow --------------------------
(***************************************************************************)
(* The messaging workflow around the conversation trees: how prompts are   *)
(* received, announced and admitted, and how a global stop, a stop or a    *)
(* clear of one message and the clear of a chat cut across them.           *)
(*                                                                         *)
(* Every handler is an asyncio task; _state_lock is held across the        *)
(* suspensions of a stop or a clear and for an instant by all others.      *)
(* The trees are reduced to the prompts they hold and those still to be    *)
(* answered (MessagingTrees has the rest), the session store to the        *)
(* prompts and message ids in its memory (SessionPersistence has the       *)
(* file).  Voice notes are handed over as prompts (VoiceNotes).  Replies   *)
(* to commands are left out.                                               *)
(***************************************************************************)
EXTENDS Naturals, FiniteSets

CONSTANTS
  Turns,      \* prompts
  Chats,      \* message scopes
  ChatOf,     \* the scope of a prompt
  NONE,       \* no parent, no operation
  MaxStops,   \* bound on global stops, for model checking
  MaxClears   \* bound on clears of chats, for model checking

VARIABLES
  stopGeneration,    \* _stop_generation
  clearGenerations,  \* _clear_generations
  operation,         \* the stop or clear that holds _state_lock
  turn,              \* where the handler of a prompt is
  token,             \* its AdmissionToken
  parent,            \* the prompt it replies to, when that resolved
  nodes,             \* prompts in published trees
  live,              \* those that are queued or running
  stored,            \* prompts in the store's conversation
  tracked,           \* message ids in the store's managed-message log
  chat,              \* messages to be seen on the platform
  doomed,            \* messages a clear has still to delete
  notice,            \* where the publisher of a chat's startup notice is
  noticed,           \* the clear generation it has read
  leftBehind,        \* messages a failed deletion or a failed clear left
  stopped,           \* stop generation of the last stop that succeeded
  cleared            \* clear generation of the last clear that succeeded

vars == <<stopGeneration, clearGenerations, operation, turn, token, parent, nodes, live,
          stored, tracked, chat, doomed, notice, noticed, leftBehind, stopped, cleared>>

generations == <<stopGeneration, clearGenerations>>
trees       == <<nodes, live>>
handlers    == <<turn, token, parent>>
notices     == <<notice, noticed>>
success     == <<stopped, cleared>>

Prompt(m) == <<m, "prompt">>
Status(m) == <<m, "status">>
Notice(c) == <<c, "notice">>

TurnsOf(c)     == {m \in Turns : ChatOf[m] = c}
MessagesOf(S)  == {Prompt(m) : m \in S} \cup {Status(m) : m \in S}
AllOf(c)       == MessagesOf(TurnsOf(c)) \cup {Notice(c)}

Init ==
  /\ stopGeneration = 0 /\ clearGenerations = [c \in Chats |-> 0]
  /\ operation = NONE
  /\ turn = [m \in Turns |-> "new"]
  /\ token = [m \in Turns |-> [stop |-> 0, clear |-> 0]]
  /\ parent = [m \in Turns |-> NONE]
  /\ nodes = {} /\ live = {} /\ stored = {} /\ tracked = {}
  /\ chat = {} /\ doomed = {}
  /\ notice = [c \in Chats |-> "new"] /\ noticed = [c \in Chats |-> 0]
  /\ leftBehind = {} /\ stopped = 0 /\ cleared = [c \in Chats |-> 0]

Unlocked == operation = NONE

Generations(m) == [stop |-> stopGeneration, clear |-> clearGenerations[ChatOf[m]]]

-----------------------------------------------------------------------------
(* A prompt is received, resolves its reply, announces itself and is       *)
(* admitted.                                                               *)

(* handle_message, and resolve_reply: an unknown reference is no parent.   *)
Receive(m) ==
  /\ turn[m] = "new" /\ Unlocked
  /\ turn' = [turn EXCEPT ![m] = "announcing"]
  /\ token' = [token EXCEPT ![m] = Generations(m)]
  /\ \E p \in {NONE} \cup (nodes \cap TurnsOf(ChatOf[m])) : parent' = [parent EXCEPT ![m] = p]
  /\ chat' = chat \cup {Prompt(m)}
  /\ tracked' = tracked \cup {Prompt(m)}
  /\ UNCHANGED <<generations, operation, trees, stored, doomed, notices, leftBehind, success>>

(* The status message appears before the handler learns its id.            *)
StatusAppears(m) ==
  /\ turn[m] = "announcing"
  /\ turn' = [turn EXCEPT ![m] = "announced"]
  /\ chat' = chat \cup {Status(m)}
  /\ UNCHANGED <<generations, operation, token, parent, trees, stored, tracked, doomed,
                 notices, leftBehind, success>>

StatusFails(m) ==
  /\ turn[m] = "announcing"
  /\ turn' = [turn EXCEPT ![m] = "over"]
  /\ UNCHANGED <<generations, operation, token, parent, trees, stored, tracked, chat, doomed,
                 notices, leftBehind, success>>

RecordStatus(m) ==
  /\ turn[m] = "announced"
  /\ turn' = [turn EXCEPT ![m] = "admitting"]
  /\ tracked' = tracked \cup {Status(m)}
  /\ UNCHANGED <<generations, operation, token, parent, trees, stored, chat, doomed, notices,
                 leftBehind, success>>

(* Slip: the token is taken for current when no stop has intervened.       *)
SinceLastStop(m) == token[m].stop = stopGeneration

CurrentToken(m) == token[m] = Generations(m)

(* The prompts of one tree: those that replies connect, over any distance. *)
WholeTrees(S) == \A n \in Turns : parent[n] # NONE => (n \in S <=> parent[n] \in S)
InTree(n, m)  == \A S \in SUBSET Turns : WholeTrees(S) /\ m \in S => n \in S

TreeWith(m, S) == {n \in S : InTree(n, m)}

(* save_tree_snapshot replaces what was stored of that tree.               *)
Saved(m, S) == (stored \ TreeWith(m, Turns)) \cup S

(* Generations, parent, admission and snapshot in one hold of the lock.    *)
Admit(m) ==
  /\ turn[m] = "admitting" /\ Unlocked
  /\ CurrentToken(m) /\ (parent[m] # NONE => parent[m] \in nodes)
  /\ turn' = [turn EXCEPT ![m] = "over"]
  /\ nodes' = nodes \cup {m} /\ live' = live \cup {m}
  /\ stored' = Saved(m, TreeWith(m, nodes'))
  /\ UNCHANGED <<generations, operation, token, parent, tracked, chat, doomed, notices,
                 leftBehind, success>>

(* A reply whose parent was removed takes its prompt with it.              *)
Reject(m) ==
  /\ turn[m] = "admitting" /\ Unlocked
  /\ \/ ~CurrentToken(m) /\ turn' = [turn EXCEPT ![m] = "discarding"]
     \/ CurrentToken(m) /\ parent[m] # NONE /\ parent[m] \notin nodes
        /\ turn' = [turn EXCEPT ![m] = "withdrawing"]
  /\ UNCHANGED <<generations, operation, token, parent, trees, stored, tracked, chat, doomed,
                 notices, leftBehind, success>>

(* The deletion may fail; the ids are forgotten either way.                *)
Discard(m) ==
  LET ids == IF turn[m] = "withdrawing" THEN MessagesOf({m}) ELSE {Status(m)} IN
  /\ turn[m] \in {"discarding", "withdrawing"}
  /\ turn' = [turn EXCEPT ![m] = "over"]
  /\ \/ chat' = chat \ ids /\ UNCHANGED leftBehind
     \/ leftBehind' = leftBehind \cup (ids \cap chat) /\ UNCHANGED chat
  /\ tracked' = tracked \ ids
  /\ UNCHANGED <<generations, operation, token, parent, trees, stored, doomed, notices, success>>

(* The runner of a prompt records its session or its end; the snapshot is  *)
(* saved before anything else can run.                                     *)
RunnerReports(m) ==
  /\ m \in live
  /\ live' \in {live, live \ {m}}
  /\ stored' = Saved(m, TreeWith(m, nodes))
  /\ UNCHANGED <<generations, operation, handlers, nodes, tracked, chat, doomed, notices,
                 leftBehind, success>>

-----------------------------------------------------------------------------
(* The startup notice of a chat.                                           *)

NoticeBegins(c) ==
  /\ notice[c] = "new" /\ Unlocked
  /\ notice' = [notice EXCEPT ![c] = "sending"]
  /\ noticed' = [noticed EXCEPT ![c] = clearGenerations[c]]
  /\ UNCHANGED <<generations, operation, handlers, trees, stored, tracked, chat, doomed,
                 leftBehind, success>>

NoticeAppears(c) ==
  /\ notice[c] = "sending"
  /\ notice' = [notice EXCEPT ![c] = "sent"]
  /\ chat' = chat \cup {Notice(c)}
  /\ UNCHANGED <<generations, operation, handlers, trees, stored, tracked, doomed, noticed,
                 leftBehind, success>>

(* _finalize_startup_notice: kept, or discarded if a clear crossed it or   *)
(* the publisher was cancelled.                                            *)
NoticeKept(c) ==
  /\ notice[c] = "sent" /\ Unlocked
  /\ noticed[c] = clearGenerations[c]
  /\ notice' = [notice EXCEPT ![c] = "over"]
  /\ tracked' = tracked \cup {Notice(c)}
  /\ UNCHANGED <<generations, operation, handlers, trees, stored, chat, doomed, noticed,
                 leftBehind, success>>

NoticeUnwanted(c) ==
  /\ notice[c] = "sent" /\ Unlocked
  /\ notice' = [notice EXCEPT ![c] = "discarding"]
  /\ UNCHANGED <<generations, operation, handlers, trees, stored, tracked, chat, doomed,
                 noticed, leftBehind, success>>

(* A notice that cannot be deleted is tracked for a later clear.           *)
NoticeDiscarded(c) ==
  /\ notice[c] = "discarding"
  /\ \/ /\ notice' = [notice EXCEPT ![c] = "over"]
        /\ chat' = chat \ {Notice(c)} /\ UNCHANGED leftBehind
     \/ /\ notice' = [notice EXCEPT ![c] = "undeleted"]
        /\ leftBehind' = leftBehind \cup {Notice(c)} /\ UNCHANGED chat
  /\ UNCHANGED <<generations, operation, handlers, trees, stored, tracked, doomed, noticed, success>>

NoticeTracked(c) ==
  /\ notice[c] = "undeleted" /\ Unlocked
  /\ notice' = [notice EXCEPT ![c] = "over"]
  /\ tracked' = tracked \cup {Notice(c)}
  /\ UNCHANGED <<generations, operation, handlers, trees, stored, chat, doomed, noticed,
                 leftBehind, success>>

-----------------------------------------------------------------------------
(* Stops and clears hold the lock from their first step to their last.     *)

Op(kind, of, step) == [kind |-> kind, of |-> of, step |-> step, ids |-> {}, failed |-> FALSE]

At(kind, step) == operation # NONE /\ operation.kind = kind /\ operation.step = step

Next(step) == operation' = [operation EXCEPT !.step = step]

StopAllBegins ==
  /\ Unlocked /\ stopGeneration < MaxStops
  /\ operation' = Op("stop_all", NONE, "cancel")
  /\ stopGeneration' = stopGeneration + 1
  /\ UNCHANGED <<clearGenerations, handlers, trees, stored, tracked, chat, doomed, notices,
                 leftBehind, success>>

(* cancel_all under the manager lock; it may raise between two trees.      *)
StopAllCancels ==
  /\ At("stop_all", "cancel")
  /\ \/ live' = {} /\ Next("save")
     \/ live' \in SUBSET live /\ operation' = NONE
  /\ UNCHANGED <<generations, handlers, nodes, stored, tracked, chat, doomed, notices,
                 leftBehind, success>>

(* The snapshots are saved, then the CLI sessions stopped, which may fail. *)
StopAllEnds ==
  /\ At("stop_all", "save")
  /\ operation' = NONE
  /\ stored' = stored \cup nodes
  /\ stopped' \in {stopped, stopGeneration}
  /\ UNCHANGED <<generations, handlers, trees, tracked, chat, doomed, notices, leftBehind, cleared>>

StopReply(m) ==
  /\ Unlocked /\ m \in nodes
  /\ operation' = Op("stop_reply", m, "save")
  /\ live' = live \ {m}
  /\ UNCHANGED <<generations, handlers, nodes, stored, tracked, chat, doomed, notices,
                 leftBehind, success>>

StopReplyEnds ==
  /\ At("stop_reply", "save")
  /\ operation' = NONE
  /\ stored' = Saved(operation.of, TreeWith(operation.of, nodes))
  /\ UNCHANGED <<generations, handlers, trees, tracked, chat, doomed, notices, leftBehind, success>>

(* A prompt with all that replies to it.                                   *)
Subtree(m) ==
  LET Down(S) == S \cup {x \in nodes : parent[x] \in S} IN Down(Down(Down({m})))

ClearReply(m) ==
  /\ Unlocked /\ m \in nodes
  /\ operation' = [Op("clear_reply", m, "save") EXCEPT !.ids = MessagesOf(Subtree(m))]
  /\ nodes' = nodes \ Subtree(m) /\ live' = live \ Subtree(m)
  /\ UNCHANGED <<generations, handlers, stored, tracked, chat, doomed, notices, leftBehind, success>>

(* The survivors are saved, or the tree removed from the store.            *)
ClearReplyEnds ==
  /\ At("clear_reply", "save")
  /\ operation' = NONE
  /\ stored' = Saved(operation.of, TreeWith(operation.of, nodes))
  /\ doomed' = doomed \cup operation.ids
  /\ UNCHANGED <<generations, handlers, trees, tracked, chat, notices, leftBehind, success>>

-----------------------------------------------------------------------------
(* The clear of a chat.                                                    *)

ClearBegins(c) ==
  /\ Unlocked /\ clearGenerations[c] < MaxClears
  /\ operation' = [Op("clear", c, "commit") EXCEPT !.ids = tracked \cap AllOf(c)]
  /\ UNCHANGED <<generations, handlers, trees, stored, tracked, chat, doomed, notices,
                 leftBehind, success>>

ClearCommits ==
  /\ At("clear", "commit")
  /\ operation' = [operation EXCEPT !.step = "detach",
                     !.ids = @ \cup MessagesOf(nodes \cap TurnsOf(operation.of))]
  /\ clearGenerations' = [clearGenerations EXCEPT ![operation.of] = @ + 1]
  /\ UNCHANGED <<stopGeneration, handlers, trees, stored, tracked, chat, doomed, notices,
                 leftBehind, success>>

(* The trees of the chat are detached; a failure is kept for later.        *)
ClearDetaches ==
  /\ At("clear", "detach")
  /\ \E gone \in SUBSET (nodes \cap TurnsOf(operation.of)) :
       /\ nodes' = nodes \ gone /\ live' = live \ gone
       /\ operation' = [operation EXCEPT !.step = "store",
                          !.failed = gone # nodes \cap TurnsOf(operation.of)]
  /\ UNCHANGED <<generations, handlers, stored, tracked, chat, doomed, notices, leftBehind, success>>

(* The store is cleared in memory even when the file cannot be written;    *)
(* a clear that failed deletes nothing from the chat.                      *)
ClearEnds ==
  LET c == operation.of IN
  /\ At("clear", "store")
  /\ operation' = NONE
  /\ stored' = stored \ TurnsOf(c)
  /\ tracked' = tracked \ AllOf(c)
  /\ \E written \in BOOLEAN :
       IF written /\ ~operation.failed
       THEN /\ doomed' = doomed \cup operation.ids
            /\ cleared' = [cleared EXCEPT ![c] = clearGenerations[c]]
            /\ UNCHANGED leftBehind
       ELSE /\ leftBehind' = leftBehind \cup (chat \cap operation.ids)
            /\ UNCHANGED <<doomed, cleared>>
  /\ UNCHANGED <<generations, handlers, trees, chat, notices, stopped>>

(* _delete_message_ids, outside the lock; what is deleted is forgotten.    *)
Delete ==
  /\ doomed # {} /\ doomed' = {}
  /\ \/ chat' = chat \ doomed /\ UNCHANGED leftBehind
     \/ leftBehind' = leftBehind \cup (chat \cap doomed) /\ UNCHANGED chat
  /\ tracked' = tracked \ doomed
  /\ UNCHANGED <<generations, operation, handlers, trees, stored, notices, success>>

-----------------------------------------------------------------------------
Handle(m) ==
  \/ Receive(m) \/ StatusAppears(m) \/ StatusFails(m) \/ RecordStatus(m)
  \/ Admit(m) \/ Reject(m) \/ Discard(m) \/ RunnerReports(m)
Publish(c) ==
  \/ NoticeBegins(c) \/ NoticeAppears(c) \/ NoticeKept(c) \/ NoticeUnwanted(c)
  \/ NoticeDiscarded(c) \/ NoticeTracked(c)
Stop  == StopAllBegins \/ StopAllCancels \/ StopAllEnds \/ StopReplyEnds
         \/ \E m \in Turns : StopReply(m)
Clear == ClearCommits \/ ClearDetaches \/ ClearEnds \/ ClearReplyEnds \/ Delete
         \/ (\E m \in Turns : ClearReply(m)) \/ (\E c \in Chats : ClearBegins(c))

WorkflowNext == (\E m \in Turns : Handle(m)) \/ (\E c \in Chats : Publish(c)) \/ Stop \/ Clear

Spec == Init /\ [][WorkflowNext]_vars

-----------------------------------------------------------------------------
TurnPhases   == {"new", "announcing", "announced", "admitting", "discarding", "withdrawing", "over"}
NoticePhases == {"new", "sending", "sent", "discarding", "undeleted", "over"}
Messages     == UNION {AllOf(c) : c \in Chats}

(* Type invariant.                                                         *)
TypeOK ==
  /\ stopGeneration \in 0..MaxStops /\ clearGenerations \in [Chats -> 0..MaxClears]
  /\ turn \in [Turns -> TurnPhases] /\ parent \in [Turns -> Turns \cup {NONE}]
  /\ token \in [Turns -> [stop : 0..MaxStops, clear : 0..MaxClears]]
  /\ nodes \subseteq Turns /\ live \subseteq nodes /\ stored \subseteq Turns
  /\ UNION {tracked, chat, doomed, leftBehind} \subseteq Messages
  /\ notice \in [Chats -> NoticePhases] /\ noticed \in [Chats -> 0..MaxClears]
  /\ stopped \in 0..stopGeneration
  /\ cleared \in [Chats -> 0..MaxClears]

(* Nothing received before a stop or a clear that succeeded runs after it. *)
NothingStoppedRuns ==
  \A m \in live : token[m].stop >= stopped /\ token[m].clear >= cleared[ChatOf[m]]

(* Nothing received before a clear that succeeded is in a tree, or in what *)
(* a restart restores.                                                     *)
NothingClearedIsKept ==
  \A m \in nodes \cup stored : token[m].clear >= cleared[ChatOf[m]]

(* A message on the platform can be deleted by a later clear, is about to  *)
(* be deleted, or belongs to a handler that is still at work; only failed  *)
(* deletions and failed clears leave others.                               *)
InFlight == {Status(m) : m \in {m \in Turns : turn[m] # "over"}}
            \cup {Notice(c) : c \in {c \in Chats : notice[c] # "over"}}

EveryMessageIsOwned == chat \subseteq UNION {tracked, doomed, InFlight, leftBehind}

(* Stops and clears are boundaries for every handler that overlaps them.   *)
BoundariesHold == NothingStoppedRuns /\ NothingClearedIsKept /\ EveryMessageIsOwned
=============================================================================
