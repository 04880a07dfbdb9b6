--------------------------- MODULE MessagingTrees ---------------------------
(***************************************************************************)
(* The conversation trees of the messaging runtime: the MessageTree        *)
(* aggregate (graph, FIFO queue, active claim), the TreeRepository that    *)
(* indexes the published aggregates, the TreeQueueManager whose single     *)
(* lock serialises every transition, and the asyncio task that            *)
(* TreeQueueProcessor attaches to each claim.                              *)
(*                                                                         *)
(* Every operation of the manager runs under one asyncio.Lock and takes a  *)
(* tree lock that nobody else holds, so each locked section is one action. *)
(* What interleaves are those sections and the scheduling points of the    *)
(* claim tasks: a task may be cancelled before it enters its body, while   *)
(* it announces itself, while its runner works, or while it finishes.      *)
(*                                                                         *)
(* Operators marked "Slip:" are plausible defective variants of the        *)
(* operator they precede; the specification does not use them.             *)
(***************************************************************************)
EXTENDS Naturals

CONSTANTS
  Nodes,          \* prompt messages; a member stands for (MessageScope, message id)
  Scopes,         \* platform chats
  ScopeOf,        \* the chat of each prompt message
  Trees,          \* MessageTree objects, numbered in order of creation
  Claims,         \* claim ids, never reused, numbered in order of use
  MaxAdmissions,  \* bound on accepted admissions, for model checking
  NONE

(* A NodeClaim, with the run whose CLI session it resumes.                 *)
ClaimRecord == [tree : Trees, node : Nodes, resumed : Claims \cup {NONE}]

ASSUME TreesAssumption ==
  /\ ScopeOf \in [Nodes -> Scopes]
  /\ Trees \subseteq Nat /\ Claims \subseteq Nat
  /\ NONE \notin Nodes \cup Trees \cup Claims \cup (Nodes \X {"prompt", "status"}) \cup ClaimRecord
  /\ NONE \notin [claim : Claims, node : Nodes]
  /\ MaxAdmissions \in Nat

(* A platform message that a reply can point at: the user's prompt or the  *)
(* status message the bot posted for it.                                   *)
Prompt(n) == <<n, "prompt">>
Status(n) == <<n, "status">>
Refs == Nodes \X {"prompt", "status"}

VARIABLES
  trees,      \* TreeRepository._trees: identity (root prompt) -> tree object
  index,      \* TreeRepository._reference_to_tree: reference -> identity
  root,       \* per tree object: its root prompt, NONE while unallocated
  state,      \* per tree object: MessageState of each node, or "absent"
  status,     \* per tree object: nodes that still have a status message
  replyTo,    \* per tree object: parent_reference_id of each node
  session,    \* per tree object: the run whose CLI session each node carries
  place,      \* per tree object: arrival stamp of each queued node, 0 if not queued
  active,     \* per tree object: the claim it has granted
  tombstoned, \* claims whose _ActiveClaim.cancellation_requested is set
  claim,      \* NodeClaim of each claim id, NONE while unused
  task,       \* where the asyncio task of each claim is
  cancelled,  \* claims whose task has been cancelled by the processor
  reported,   \* claims whose runner has completed or failed them
  admissions  \* accepted admissions so far

vars == <<trees, index, root, state, status, replyTo, session, place, active,
          tombstoned, claim, task, cancelled, reported, admissions>>

graphVars == <<root, status, replyTo>>
taskVars  == <<claim, task, cancelled, reported>>

NodeStates == {"absent", "pending", "in_progress", "completed", "error"}
Runnable   == {"pending", "in_progress"}

(* Life of a claim task.  "admitted" and "promoted" tasks exist but have   *)
(* not entered their body; only a promoted one announces itself first.     *)
(* An "unentered" task was cancelled before its body ran, and its recovery *)
(* task finishes the claim for it.                                         *)
TaskStates == {"none", "admitted", "promoted", "announcing", "running",
               "failing", "finishing", "unentered", "gone"}
LiveTasks  == TaskStates \ {"none", "gone"}

Init ==
  /\ trees      = [i \in Nodes |-> NONE]
  /\ index      = [r \in Refs |-> NONE]
  /\ root       = [t \in Trees |-> NONE]
  /\ state      = [t \in Trees |-> [n \in Nodes |-> "absent"]]
  /\ status     = [t \in Trees |-> {}]
  /\ replyTo    = [t \in Trees |-> [n \in Nodes |-> NONE]]
  /\ session    = [t \in Trees |-> [n \in Nodes |-> NONE]]
  /\ place      = [t \in Trees |-> [n \in Nodes |-> 0]]
  /\ active     = [t \in Trees |-> NONE]
  /\ tombstoned = {}
  /\ claim      = [c \in Claims |-> NONE]
  /\ task       = [c \in Claims |-> "none"]
  /\ cancelled  = {}
  /\ reported   = {}
  /\ admissions = 0

-----------------------------------------------------------------------------
(* Reading the graph and the repository.                                   *)

Live(t)     == {n \in Nodes : state[t][n] # "absent"}
LiveRefs(t) == {r \in Refs : IF r[2] = "prompt" THEN r[1] \in Live(t) ELSE r[1] \in status[t]}
Published   == {trees[i] : i \in Nodes} \ {NONE}

(* Slip: resolving a reference on the aggregates instead of the index, so  *)
(* that a tree cleared from the repository still answers.                  *)
AnyTreeFor(r) ==
  LET holders == {t \in Trees : r \in LiveRefs(t)} IN
  IF holders = {} THEN NONE ELSE CHOOSE t \in holders : \A u \in holders : t <= u

(* get_tree_for_reference: the published tree that owns a reference.       *)
TreeFor(r) == IF index[r] = NONE THEN NONE ELSE trees[index[r]]

(* The published tree that answers to a claim's identity; it need not be   *)
(* the tree object that granted the claim.                                 *)
TreeOfClaim(c) == trees[root[claim[c].tree]]

(* Slip: the parent prompt taken for its session.                          *)
ParentPrompt(t, reply, sessions) == IF reply = NONE THEN NONE ELSE reply[1]

ParentSession(t, reply, sessions) ==
  IF reply = NONE THEN NONE ELSE sessions[reply[1]]

(* Smallest set that holds S and is closed under step.                     *)
Closure(S, Universe, step(_, _)) ==
  {x \in Universe :
     \A C \in SUBSET Universe :
        (S \subseteq C /\ \A a \in C : \A b \in Universe \ C : ~step(a, b)) => x \in C}

(* Logical children: the nodes whose parent is n.                          *)
Descendants(t, n) ==
  Closure({n}, Nodes, LAMBDA a, b : replyTo[t][b] \in {Prompt(a), Status(a)})

(* Slip: replies to status messages forgotten.                             *)
PromptReplies(t, r) ==
  Closure(IF r[2] = "prompt" THEN {r[1]} ELSE {n \in Nodes : replyTo[t][n] = r},
          Nodes,
          LAMBDA a, b : replyTo[t][b] = Prompt(a))

(* Literal reply subtree: a prompt leads to its own status message, and    *)
(* either of them to the prompts that reply to it.  These are the prompts  *)
(* reached from r.                                                         *)
ReferencedNodes(t, r) ==
  Closure(IF r[2] = "prompt" THEN {r[1]} ELSE {n \in Nodes : replyTo[t][n] = r},
          Nodes,
          LAMBDA a, b : \/ replyTo[t][b] = Prompt(a)
                        \/ replyTo[t][b] = Status(a) /\ a \in status[t])

-----------------------------------------------------------------------------
(* Pieces of the aggregate's transitions.                                  *)

(* The nodes of S that were runnable are marked ERROR.                     *)
Errored(t, S) ==
  [n \in Nodes |-> IF n \in S /\ state[t][n] \in Runnable THEN "error" ELSE state[t][n]]

Unqueued(t, S) == [n \in Nodes |-> IF n \in S THEN 0 ELSE place[t][n]]

(* uuid4 in the code; any unused id would do.                              *)
Fresh(k) == claim[k] = NONE /\ \A j \in Claims : j < k => claim[j] # NONE

(* MessageTree._claim: grant the tree to node n under the fresh id k and   *)
(* attach a task in state phase.  nodes is the tree's state with n in it.  *)
Grant(t, n, k, nodes, reply, phase) ==
  /\ Fresh(k)
  /\ state'  = [state EXCEPT ![t] = [nodes EXCEPT ![n] = "in_progress"]]
  /\ active' = [active EXCEPT ![t] = k]
  /\ claim'  = [claim EXCEPT ![k] =
                  [tree |-> t, node |-> n, resumed |-> ParentSession(t, reply, session[t])]]
  /\ task'   = [task EXCEPT ![k] = phase]

(* Slip: the active claim is not looked at.                                *)
AlwaysClaim(t, n, nodes, reply, phase) ==
  /\ \E k \in Claims : Grant(t, n, k, nodes, reply, phase)
  /\ UNCHANGED place

(* MessageTree._enqueue_or_claim for a node that is PENDING in nodes.      *)
EnqueueOrClaim(t, n, nodes, reply, phase) ==
  IF active[t] = NONE
  THEN /\ \E k \in Claims : Grant(t, n, k, nodes, reply, phase)
       /\ UNCHANGED place
  ELSE /\ place' = [place EXCEPT ![t][n] = IF @ = 0 THEN admissions + 1 ELSE @]
       /\ state' = [state EXCEPT ![t] = nodes]
       /\ UNCHANGED <<active, claim, task>>

(* Whether a stop of the active claim raises: its node is already ERROR    *)
(* and has lost its status message, so no NodeUiTarget can be built.       *)
Unaddressable(t) ==
  /\ active[t] # NONE
  /\ state[t][claim[active[t]].node] = "error"
  /\ claim[active[t]].node \notin status[t]

ActiveOn(t, n) == active[t] # NONE /\ claim[active[t]].node = n

(* Slip: the tombstone of a stopped claim is not looked at.                *)
CurrentOrStopped(t, c) == t # NONE /\ active[t] = c

(* The claim c still speaks for its tree.                                  *)
Current(t, c) == t # NONE /\ active[t] = c /\ c \notin tombstoned

-----------------------------------------------------------------------------
(* Admission (TreeQueueManager.admit).  The claim's task is created right  *)
(* after the lock is released, with no suspension in between.              *)

AdmitRoot(n) ==
  /\ admissions < MaxAdmissions
  /\ index[Prompt(n)] = NONE /\ index[Status(n)] = NONE
  /\ \E t \in Trees :
       /\ root[t] = NONE
       /\ \A u \in Trees : root[u] # NONE => u < t
       /\ EnqueueOrClaim(t, n, [state[t] EXCEPT ![n] = "pending"], NONE, "admitted")
       /\ root'    = [root EXCEPT ![t] = n]
       /\ status'  = [status EXCEPT ![t] = @ \cup {n}]
       /\ trees'   = [trees EXCEPT ![n] = t]
  /\ index' = [index EXCEPT ![Prompt(n)] = n, ![Status(n)] = n]
  /\ admissions' = admissions + 1
  /\ UNCHANGED <<replyTo, session, tombstoned, cancelled, reported>>

(* The parent reference must still resolve; otherwise the admission is     *)
(* rejected as PARENT_REMOVED and nothing changes.                         *)
AdmitReply(n, r) ==
  LET t == TreeFor(r) IN
  /\ admissions < MaxAdmissions
  /\ index[Prompt(n)] = NONE /\ index[Status(n)] = NONE
  /\ ScopeOf[r[1]] = ScopeOf[n]
  /\ t # NONE
  /\ r \in LiveRefs(t)
  /\ EnqueueOrClaim(t, n, [state[t] EXCEPT ![n] = "pending"], r, "admitted")
  /\ status'  = [status EXCEPT ![t] = @ \cup {n}]
  /\ replyTo' = [replyTo EXCEPT ![t][n] = r]
  /\ index'   = [index EXCEPT ![Prompt(n)] = index[r], ![Status(n)] = index[r]]
  /\ admissions' = admissions + 1
  /\ UNCHANGED <<trees, root, session, tombstoned, cancelled, reported>>

(* A message delivered again is offered to the tree that already knows it. *)
(* This path launches nothing, whatever the tree decides.                  *)
AdmitAgain(n) ==
  LET t == TreeFor(Prompt(n)) IN
  /\ t # NONE
  /\ IF state[t][n] = "pending"
     THEN EnqueueOrClaim(t, n, state[t], replyTo[t][n], "none")
     ELSE UNCHANGED <<state, place, active, claim, task>>
  /\ UNCHANGED <<trees, index, root, status, replyTo, session, tombstoned,
                 cancelled, reported, admissions>>

-----------------------------------------------------------------------------
(* The claim task (TreeQueueProcessor._run_claim).                         *)

\* everything but task
taskOnly == <<trees, index, root, state, status, replyTo, session, place, active,
              tombstoned, claim, cancelled, reported, admissions>>

(* Slip: no recovery for a task that is cancelled before it starts.        *)
TaskStartsUnrecovered(c) ==
  /\ task[c] \in {"admitted", "promoted"}
  /\ task' = [task EXCEPT ![c] =
                IF c \in cancelled THEN "gone"
                ELSE IF @ = "admitted" THEN "running" ELSE "announcing"]
  /\ UNCHANGED taskOnly

TaskStarts(c) ==
  /\ task[c] \in {"admitted", "promoted"}
  /\ task' = [task EXCEPT ![c] =
                IF c \in cancelled THEN "unentered"
                ELSE IF @ = "admitted" THEN "running" ELSE "announcing"]
  /\ UNCHANGED taskOnly

(* The callbacks may swallow a cancellation, so the flag is read again.    *)
AnnouncementEnds(c) ==
  /\ task[c] = "announcing"
  /\ task' = [task EXCEPT ![c] = IF c \in cancelled THEN "finishing" ELSE "running"]
  /\ UNCHANGED taskOnly

(* Slip: the runner swallows its cancellation and waits for the CLI.       *)
RunnerIgnoresCancel(c) ==
  /\ task[c] = "running"
  /\ c \in reported
  /\ task' = [task EXCEPT ![c] = "finishing"]
  /\ UNCHANGED taskOnly

(* The runner returns only after it completed or failed its claim, or      *)
(* because it was cancelled.                                               *)
RunnerReturns(c) ==
  /\ task[c] = "running"
  /\ c \in reported \cup cancelled
  /\ task' = [task EXCEPT ![c] = "finishing"]
  /\ UNCHANGED taskOnly

RunnerRaises(c) ==
  /\ task[c] = "running"
  /\ task' = [task EXCEPT ![c] = "failing"]
  /\ UNCHANGED taskOnly

RecordSession(c) ==
  LET t == TreeOfClaim(c)
      n == claim[c].node IN
  /\ task[c] = "running"
  /\ Current(t, c)
  /\ state[t][n] = "in_progress"
  /\ session' = [session EXCEPT ![t][n] = c]
  /\ UNCHANGED <<trees, index, state, place, active, tombstoned, admissions, graphVars, taskVars>>

(* A success overrides an earlier recoverable failure of the same claim.   *)
(* The completion event may or may not carry a session id.                 *)
CompleteClaim(c) ==
  LET t == TreeOfClaim(c)
      n == claim[c].node IN
  /\ task[c] = "running"
  /\ IF Current(t, c) /\ state[t][n] \in {"in_progress", "error"}
     THEN /\ state' = [state EXCEPT ![t][n] = "completed"]
          /\ \E s \in {session[t][n], c} : session' = [session EXCEPT ![t][n] = s]
     ELSE UNCHANGED <<state, session>>
  /\ reported' = reported \cup {c}
  /\ UNCHANGED <<trees, index, place, active, tombstoned, claim, task, cancelled,
                 admissions, graphVars>>

(* Slip: failed descendants stay in the queue.                             *)
FailInPlace(c, propagate) ==
  LET t == TreeOfClaim(c)
      n == claim[c].node
      hit == IF propagate
             THEN {m \in Descendants(t, n) \ {n} : state[t][m] = "pending"}
             ELSE {} IN
  /\ IF Current(t, c) /\ state[t][n] \notin {"absent", "completed"}
     THEN state' = [state EXCEPT ![t] = Errored(t, hit \cup {n})]
     ELSE UNCHANGED state
  /\ UNCHANGED place

(* MessageTree.fail_claim: the node, and with propagate its still pending  *)
(* descendants, become ERROR; the descendants leave the queue.             *)
FailEffect(c, propagate) ==
  LET t == TreeOfClaim(c)
      n == claim[c].node
      hit == IF propagate
             THEN {m \in Descendants(t, n) \ {n} : state[t][m] = "pending"}
             ELSE {} IN
  IF Current(t, c) /\ state[t][n] \notin {"absent", "completed"}
  THEN /\ state' = [state EXCEPT ![t] = Errored(t, hit \cup {n})]
       /\ place' = [place EXCEPT ![t] = Unqueued(t, hit)]
  ELSE UNCHANGED <<state, place>>

FailClaim(c) ==
  /\ task[c] = "running"
  /\ \E propagate \in BOOLEAN : FailEffect(c, propagate)
  /\ reported' = reported \cup {c}
  /\ UNCHANGED <<trees, index, session, active, tombstoned, claim, task, cancelled,
                 admissions, graphVars>>

(* claim_failure_callback after an exception escaped the runner.           *)
FailureCallback(c) ==
  /\ task[c] = "failing"
  /\ FailEffect(c, TRUE)
  /\ task' = [task EXCEPT ![c] = "finishing"]
  /\ UNCHANGED <<trees, index, session, active, tombstoned, claim, cancelled, reported,
                 admissions, graphVars>>

(* Slip: the queue popped at the wrong end.                                *)
Newest(t, S) == {n \in S : \A m \in S : place[t][m] <= place[t][n]}

(* The node of S that was queued first.                                    *)
Oldest(t, S) == {n \in S : \A m \in S : place[t][n] <= place[t][m]}

(* Slip: the publication check inverted.                                   *)
SuccessorUnlaunched(t) == IF trees[root[t]] = t THEN "none" ELSE "promoted"

(* A successor gets a task only while this tree object is still published. *)
SuccessorTask(t) == IF trees[root[t]] = t THEN "promoted" ELSE "none"

(* TreeQueueManager._finish_claim: the matching claim releases the tree    *)
(* and the oldest queued PENDING node is granted it; entries ahead of that *)
(* node that are no longer PENDING are popped on the way.  The slot of c   *)
(* and its cancellation marks are dropped.                                 *)
FinishClaim(c) ==
  LET t        == claim[c].tree
      eligible == {n \in Nodes : place[t][n] # 0 /\ state[t][n] = "pending"}
      gone     == [task EXCEPT ![c] = "gone"] IN
  /\ task[c] \in {"finishing", "unentered"}
  /\ IF active[t] # c
     THEN task' = gone /\ UNCHANGED <<state, place, active, claim>>
     ELSE IF eligible = {}
     THEN /\ active' = [active EXCEPT ![t] = NONE]
          /\ place'  = [place EXCEPT ![t] = Unqueued(t, Nodes)]
          /\ task'   = gone
          /\ UNCHANGED <<state, claim>>
     ELSE \E n \in Oldest(t, eligible), k \in Claims :
          /\ Fresh(k)
          /\ state'  = [state EXCEPT ![t][n] = "in_progress"]
          /\ place'  = [place EXCEPT ![t] = Unqueued(t, {m \in Nodes : place[t][m] <= place[t][n]})]
          /\ active' = [active EXCEPT ![t] = k]
          /\ claim'  = [claim EXCEPT ![k] =
                          [tree |-> t, node |-> n,
                           resumed |-> ParentSession(t, replyTo[t][n], session[t])]]
          /\ task'   = [gone EXCEPT ![k] = SuccessorTask(t)]
  /\ tombstoned' = tombstoned \ {c}
  /\ cancelled'  = cancelled \ {c}
  /\ reported'   = reported \ {c}
  /\ UNCHANGED <<trees, index, session, admissions, graphVars>>

-----------------------------------------------------------------------------
(* Cancellation and removal.  The aggregate first marks the claim, and     *)
(* TreeQueueProcessor.cancel then cancels its task; an exception between   *)
(* the two leaves the task alone.                                          *)

(* Slip: the stop releases the tree before the task is over.               *)
CancelNodeReleases(n) ==
  LET t == TreeFor(Prompt(n))
      c == IF t # NONE /\ ActiveOn(t, n) THEN {active[t]} ELSE {} IN
  /\ t # NONE
  /\ tombstoned' = tombstoned \cup c
  /\ cancelled'  = cancelled \cup (IF c # {} /\ Unaddressable(t) THEN {} ELSE c)
  /\ active' = IF c # {} THEN [active EXCEPT ![t] = NONE] ELSE active
  /\ state' = [state EXCEPT ![t] = Errored(t, {n})]
  /\ place' = [place EXCEPT ![t] = Unqueued(t, {n})]
  /\ UNCHANGED <<trees, index, session, claim, task, reported, admissions, graphVars>>

(* /stop as a reply to a prompt or to its status message.                  *)
CancelNode(n) ==
  LET t == TreeFor(Prompt(n))
      c == IF t # NONE /\ ActiveOn(t, n) THEN {active[t]} ELSE {} IN
  /\ t # NONE
  /\ tombstoned' = tombstoned \cup c
  /\ cancelled'  = cancelled \cup (IF c # {} /\ Unaddressable(t) THEN {} ELSE c)
  /\ state' = [state EXCEPT ![t] = Errored(t, {n})]
  /\ place' = [place EXCEPT ![t] = Unqueued(t, {n})]
  /\ UNCHANGED <<trees, index, session, active, claim, task, reported, admissions, graphVars>>

(* cancel_all on the trees of P in creation order.  The first tree whose   *)
(* active claim cannot be addressed raises: it and the later trees keep    *)
(* their queues.                                                           *)
Reached(P) == {t \in P : \A u \in P : u < t => ~Unaddressable(u)}
Swept(P)   == {t \in Reached(P) : ~Unaddressable(t)}

Sweep(P) ==
  /\ tombstoned' = tombstoned \cup ({active[t] : t \in Reached(P)} \ {NONE})
  /\ cancelled'  = cancelled \cup ({active[t] : t \in Swept(P)} \ {NONE})
  /\ state' = [t \in Trees |-> IF t \in Swept(P) THEN Errored(t, Nodes) ELSE state[t]]
  /\ place' = [t \in Trees |-> IF t \in Swept(P) THEN Unqueued(t, Nodes) ELSE place[t]]
  /\ UNCHANGED <<root, status, replyTo, session, active, claim, task, reported, admissions>>

(* /stop, and the first step of shutdown.                                  *)
CancelAll ==
  /\ Sweep(Published)
  /\ UNCHANGED <<trees, index>>

(* Slip: the trees are dropped but their references stay indexed.          *)
ClearScopeKeepsIndex(s) ==
  LET P == {t \in Published : ScopeOf[root[t]] = s}
      detached == {root[t] : t \in Swept(P)} IN
  /\ Sweep(P)
  /\ trees' = [i \in Nodes |-> IF i \in detached THEN NONE ELSE trees[i]]
  /\ UNCHANGED index

(* /clear in a chat: the trees swept are detached at once.                 *)
ClearScope(s) ==
  LET P == {t \in Published : ScopeOf[root[t]] = s}
      detached == {root[t] : t \in Swept(P)} IN
  /\ Sweep(P)
  /\ trees' = [i \in Nodes |-> IF i \in detached THEN NONE ELSE trees[i]]
  /\ index' = [r \in Refs |-> IF index[r] \in detached THEN NONE ELSE index[r]]

(* /clear as a reply: the literal reply subtree of r leaves the graph and  *)
(* the index.  Clearing a status message keeps its prompt, as an ERROR     *)
(* node without status or session.                                         *)
RemoveNodes(t, r, removed) ==
  LET affected == removed \cup {r[1]}
      refs     == {r} \cup {x \in LiveRefs(t) : x[1] \in removed}
      c        == {active[t]} \cap {k \in Claims : claim[k] # NONE /\ claim[k].node \in affected} IN
  /\ ~(c # {} /\ Unaddressable(t))
  /\ tombstoned' = tombstoned \cup c
  /\ cancelled'  = cancelled \cup c
  /\ state'   = [state EXCEPT ![t] = [n \in Nodes |-> IF n \in removed THEN "absent"
                                                      ELSE IF n \in affected THEN "error" ELSE @[n]]]
  /\ place'   = [place EXCEPT ![t] = Unqueued(t, affected)]
  /\ status'  = [status EXCEPT ![t] = @ \ affected]
  /\ session' = [session EXCEPT ![t] = [n \in Nodes |-> IF n \in affected THEN NONE ELSE @[n]]]
  /\ replyTo' = [replyTo EXCEPT ![t] = [n \in Nodes |-> IF n \in removed THEN NONE ELSE @[n]]]
  /\ trees'   = IF root[t] \in removed THEN [trees EXCEPT ![root[t]] = NONE] ELSE trees
  /\ index'   = [x \in Refs |-> IF index[x] = root[t] /\ (root[t] \in removed \/ x \in refs)
                                THEN NONE ELSE index[x]]
  /\ UNCHANGED <<root, active, claim, task, reported, admissions>>

RemoveSubtree(r) ==
  LET t == TreeFor(r) IN
  /\ t # NONE
  /\ r \in LiveRefs(t)
  /\ \E removed \in {ReferencedNodes(t, r)} : RemoveNodes(t, r, removed)

(* The same request when the active claim among the affected nodes cannot  *)
(* be addressed: the exception leaves the graph alone, after some of the   *)
(* other affected nodes have already been failed.                          *)
RemoveSubtreeRaises(r) ==
  LET t        == TreeFor(r)
      affected == ReferencedNodes(t, r) \cup {r[1]} IN
  /\ t # NONE
  /\ r \in LiveRefs(t)
  /\ Unaddressable(t) /\ claim[active[t]].node \in affected
  /\ tombstoned' = tombstoned \cup {active[t]}
  /\ \E S \in SUBSET affected :
       /\ state' = [state EXCEPT ![t] = Errored(t, S)]
       /\ place' = [place EXCEPT ![t] = Unqueued(t, S)]
  /\ UNCHANGED <<trees, index, session, active, claim, task, cancelled, reported,
                 admissions, graphVars>>

-----------------------------------------------------------------------------
Admit == \E n \in Nodes : AdmitRoot(n) \/ AdmitAgain(n) \/ \E r \in Refs : AdmitReply(n, r)

TaskStep(c) ==
  \/ TaskStarts(c) \/ AnnouncementEnds(c)
  \/ RunnerReturns(c) \/ RunnerRaises(c)
  \/ RecordSession(c) \/ CompleteClaim(c) \/ FailClaim(c)
  \/ FailureCallback(c) \/ FinishClaim(c)

Cancel ==
  \/ \E n \in Nodes : CancelNode(n)
  \/ CancelAll
  \/ \E s \in Scopes : ClearScope(s)
  \/ \E r \in Refs : RemoveSubtree(r) \/ RemoveSubtreeRaises(r)

Next == Admit \/ Cancel \/ \E c \in Claims : TaskStep(c)

Spec == Init /\ [][Next]_vars

-----------------------------------------------------------------------------
(* Type invariant: every variable holds what the code keeps in it, and the *)
(* identities, parents and claims it names are of the right kind.          *)
TypeOK ==
  /\ trees      \in [Nodes -> Trees \cup {NONE}]
  /\ index      \in [Refs -> Nodes \cup {NONE}]
  /\ root       \in [Trees -> Nodes \cup {NONE}]
  /\ state      \in [Trees -> [Nodes -> NodeStates]]
  /\ status     \in [Trees -> SUBSET Nodes]
  /\ replyTo    \in [Trees -> [Nodes -> Refs \cup {NONE}]]
  /\ session    \in [Trees -> [Nodes -> Claims \cup {NONE}]]
  /\ place      \in [Trees -> [Nodes -> Nat]]
  /\ active     \in [Trees -> Claims \cup {NONE}]
  /\ tombstoned \in SUBSET Claims
  /\ claim      \in [Claims -> ClaimRecord \cup {NONE}]
  /\ task       \in [Claims -> TaskStates]
  /\ cancelled  \in SUBSET Claims
  /\ reported   \in SUBSET Claims
  /\ admissions \in Nat

(* A tree never has two claim tasks at once, whatever interleaving of      *)
(* finishing tasks, recoveries, stops and new admissions led here: any     *)
(* live task belongs to the claim its own tree object has granted.         *)
OneTaskPerTree ==
  \A c \in Claims :
    task[c] \in LiveTasks => claim[c] # NONE /\ active[claim[c].tree] = c

(* No conversation is stuck: a granted claim always has a task that will   *)
(* release it, and a task the processor never cancelled is never marked    *)
(* stopped in the aggregate.                                               *)
NoStrandedClaim ==
  \A t \in Trees :
    active[t] # NONE =>
      /\ task[active[t]] \in LiveTasks
      /\ claim[active[t]].tree = t
      /\ active[t] \in tombstoned => active[t] \in cancelled

(* The queue holds exactly the PENDING nodes, waits only behind a granted  *)
(* claim, and only the unstopped active claim's node is IN_PROGRESS.       *)
QueueIsPending ==
  \A t \in Trees : \A n \in Nodes :
    /\ place[t][n] # 0 <=> state[t][n] = "pending"
    /\ place[t][n] # 0 => active[t] # NONE
    /\ state[t][n] = "in_progress" => ActiveOn(t, n) /\ active[t] \notin tombstoned

(* The repository resolves a message exactly when a published tree still   *)
(* holds it: after a removal no reference leads to a node that is gone,    *)
(* and no message of a published tree is unreachable.                      *)
IndexIsExact ==
  /\ \A i \in Nodes : trees[i] # NONE => root[trees[i]] = i /\ i \in Live(trees[i])
  /\ \A r \in Refs : index[r] # NONE => trees[index[r]] # NONE /\ r \in LiveRefs(trees[index[r]])
  /\ \A i \in Nodes : trees[i] # NONE => \A r \in LiveRefs(trees[i]) : index[r] = i

(* Removing part of a conversation leaves no orphan: every node but the    *)
(* root still replies to a message of the tree, and a node never overtakes *)
(* its parent - it is not granted while the parent waits or runs.          *)
RepliesHaveParents ==
  \A t \in Trees : \A n \in Live(t) \ {root[t]} :
    LET p == replyTo[t][n][1] IN
    /\ replyTo[t][n] \in LiveRefs(t)
    /\ state[t][n] = "in_progress" => state[t][p] \notin Runnable
    /\ place[t][n] # 0 /\ place[t][p] # 0 => place[t][p] < place[t][n]

(* What three structures say of a conversation agrees: its queue, the      *)
(* index of the repository and the graph of replies.                       *)
ForestIsConsistent == QueueIsPending /\ IndexIsExact /\ RepliesHaveParents

(* A run that resumes a CLI session resumes one that an earlier run of the *)
(* same tree recorded, and that run's task is over: two runners never      *)
(* drive one session.                                                      *)
ResumedSessionIsIdle ==
  \A c \in Claims :
    claim[c] # NONE /\ claim[c].resumed # NONE =>
      LET s == claim[c].resumed IN
      /\ claim[s] # NONE /\ claim[s].tree = claim[c].tree
      /\ task[s] = "gone"

(* A stop is final: once a claim is marked, no later step of its runner    *)
(* completes a node or leaves a session behind, even if the CLI reports    *)
(* success while it is being killed.                                       *)
StoppedRunLeavesNoTrace ==
  [][\A t \in Trees : active[t] \in tombstoned =>
       \A n \in Nodes :
         /\ state'[t][n] = "completed" => state[t][n] = "completed"
         /\ session'[t][n] \in {session[t][n], NONE}]_vars

(* Detaching is final: a tree object that left the repository is never     *)
(* published again and never starts another claim task.                    *)
DetachedTreesStartNothing ==
  [][\A t \in Trees : root[t] # NONE /\ t \notin Published =>
       /\ t \notin Published'
       /\ \A c \in Claims : task[c] = "none" /\ task'[c] # "none" => claim'[c].tree # t]_vars

(* Execution order: every tree object, seen as a queue of claims, serves   *)
(* its prompts one at a time and in order of arrival, whatever stops,      *)
(* failures, removals and late reports interleave.                         *)
Queued(t) == {n \in Nodes : place[t][n] # 0}

Queue(t) == INSTANCE ClaimQueue WITH
  waiting <- Queued(t),
  before  <- {p \in Queued(t) \X Queued(t) : place[t][p[1]] < place[t][p[2]]},
  serving <- IF active[t] = NONE THEN NONE
             ELSE [claim |-> active[t], node |-> claim[active[t]].node],
  granted <- {k \in Claims : claim[k] # NONE /\ claim[k].tree = t}

EachTreeIsAFifoServer ==
  /\ \A t \in Trees : Queue(t)!Init
  /\ [][\A t \in Trees : UNCHANGED Queue(t)!vars \/ Queue(t)!Next]_vars

(* ARCHITECTURE.md: a global stop drains every queue.                      *)
StopDrainsEveryQueue ==
  [][CancelAll => \A t \in Published : \A n \in Nodes : place'[t][n] = 0]_vars

-----------------------------------------------------------------------------
(* Scheduling.  The event loop runs every ready task, and the callbacks    *)
(* and claim transitions a task awaits return.                             *)
Proceed(c) ==
  \/ TaskStarts(c) \/ AnnouncementEnds(c) \/ RunnerReturns(c)
  \/ FailureCallback(c) \/ FinishClaim(c)

SchedulerFairness == \A c \in Claims : WF_vars(Proceed(c))

(* A CLI run that nobody stops ends with a result or an error; nothing is  *)
(* assumed of one that is being killed.                                    *)
RunnerFairness ==
  \A c \in Claims : WF_vars(c \notin reported \cup cancelled /\ (CompleteClaim(c) \/ FailClaim(c)))

FairSpec == Spec /\ SchedulerFairness /\ RunnerFairness

(* A stopped run releases its tree, even if its CLI never ends by itself   *)
(* and whether the stop found the task waiting, announcing or running.     *)
StoppedRunReleasesTree ==
  \A t \in Trees : (active[t] \in tombstoned) ~> (active[t] \notin tombstoned)

(* Every queued prompt is eventually run, stopped or removed.              *)
QueuedPromptIsServed ==
  \A t \in Trees : \A n \in Nodes : (place[t][n] # 0) ~> (place[t][n] = 0)
=============================================================================
