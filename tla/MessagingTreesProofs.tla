------------------------ MODULE MessagingTreesProofs ------------------------
(***************************************************************************)
(* Theorems about MessagingTrees, for any number of chats, prompts, trees  *)
(* and claims: first the types and that a tree has one live claim task,    *)
(* then that the structures agree - the queue of a tree, its granted claim *)
(* and the task of that claim, the graph of replies and the index of the   *)
(* repository.                                                             *)
(***************************************************************************)
EXTENDS MessagingTrees, TLAPS

-----------------------------------------------------------------------------
(* Helpers.                                                                *)

(* A reference is a prompt paired with the kind of message.                *)
LEMMA RefParts == ASSUME NEW r \in Refs
                  PROVE  r[1] \in Nodes /\ r[2] \in {"prompt", "status"}
  BY DEF Refs

(* Both messages of a prompt are references.                               *)
LEMMA RefTypes == ASSUME NEW n \in Nodes
                  PROVE  Prompt(n) \in Refs /\ Status(n) \in Refs
  BY DEF Refs, Prompt, Status

(* A reply subtree consists of prompts.                                    *)
LEMMA ReferencedNodesType == ASSUME NEW t, NEW r
                             PROVE  ReferencedNodes(t, r) \subseteq Nodes
  BY DEF ReferencedNodes, Closure

(* A reference resolves to a tree object or to nothing.                    *)
LEMMA TreeForType == ASSUME TypeOK, NEW r \in Refs
                     PROVE  TreeFor(r) \in Trees \cup {NONE}
  BY DEF TypeOK, TreeFor

(* Marking and unqueueing nodes keeps the types of a tree's rows.          *)
LEMMA RowTypes == ASSUME TypeOK, NEW t \in Trees, NEW S
                  PROVE  /\ Errored(t, S) \in [Nodes -> NodeStates]
                         /\ Unqueued(t, S) \in [Nodes -> Nat]
  BY DEF TypeOK, Errored, Unqueued, NodeStates

(* A session found through a parent is a claim.                            *)
LEMMA ParentSessionType ==
  ASSUME TypeOK, NEW t \in Trees, NEW reply \in Refs \cup {NONE}
  PROVE  ParentSession(t, reply, session[t]) \in Claims \cup {NONE}
  BY RefParts DEF TypeOK, ParentSession

(* Granting or queueing a node keeps the types of what it writes.          *)
LEMMA EnqueueOrClaimType ==
  ASSUME TypeOK, NEW t \in Trees, NEW n \in Nodes, NEW nodes \in [Nodes -> NodeStates],
         NEW reply \in Refs \cup {NONE}, NEW phase \in TaskStates,
         EnqueueOrClaim(t, n, nodes, reply, phase)
  PROVE  /\ state'  \in [Trees -> [Nodes -> NodeStates]]
         /\ place'  \in [Trees -> [Nodes -> Nat]]
         /\ active' \in [Trees -> Claims \cup {NONE}]
         /\ claim'  \in [Claims -> ClaimRecord \cup {NONE}]
         /\ task'   \in [Claims -> TaskStates]
<1>1. CASE active[t] = NONE
  <2>1. PICK k \in Claims : Grant(t, n, k, nodes, reply, phase)
    BY <1>1 DEF EnqueueOrClaim
  <2>2. place' = place
    BY <1>1 DEF EnqueueOrClaim
  <2>3. [tree |-> t, node |-> n, resumed |-> ParentSession(t, reply, session[t])] \in ClaimRecord
    BY ParentSessionType DEF ClaimRecord
  <2>4. [nodes EXCEPT ![n] = "in_progress"] \in [Nodes -> NodeStates]
    BY DEF NodeStates
  <2> QED
    BY <2>1, <2>2, <2>3, <2>4 DEF Grant, TypeOK
<1>2. CASE active[t] # NONE
  <2>1. /\ place' = [place EXCEPT ![t][n] = IF @ = 0 THEN admissions + 1 ELSE @]
        /\ state' = [state EXCEPT ![t] = nodes]
        /\ UNCHANGED <<active, claim, task>>
    BY <1>2 DEF EnqueueOrClaim
  <2>2. \A a \in Trees, b \in Nodes : place[a][b] \in Nat /\ admissions + 1 \in Nat
    BY DEF TypeOK
  <2> QED
    BY <2>1, <2>2 DEF TypeOK
<1> QED
  BY <1>1, <1>2

(* Failing a claim does.                                                   *)
LEMMA FailEffectType ==
  ASSUME TypeOK, NEW c \in Claims, NEW propagate \in BOOLEAN, FailEffect(c, propagate)
  PROVE  state' \in [Trees -> [Nodes -> NodeStates]] /\ place' \in [Trees -> [Nodes -> Nat]]
<1> DEFINE t == TreeOfClaim(c)
           n == claim[c].node
           hit == IF propagate
                  THEN {m \in Descendants(t, n) \ {n} : state[t][m] = "pending"}
                  ELSE {}
<1>1. CASE Current(t, c) /\ state[t][n] \notin {"absent", "completed"}
  <2>1. state' = [state EXCEPT ![t] = Errored(t, hit \cup {n})]
    BY <1>1 DEF FailEffect
  <2>2. place' = [place EXCEPT ![t] = Unqueued(t, hit)]
    BY <1>1 DEF FailEffect
  <2>3. CASE t \in Trees
    BY <2>1, <2>2, <2>3, RowTypes DEF TypeOK
  <2>4. CASE t \notin Trees
    BY <2>1, <2>2, <2>4 DEF TypeOK
  <2> QED
    BY <2>3, <2>4
<1>2. CASE ~(Current(t, c) /\ state[t][n] \notin {"absent", "completed"})
  BY <1>2 DEF FailEffect, TypeOK
<1> QED
  BY <1>1, <1>2

(* A task that finishes does so for a granted claim.                       *)
LEMMA FinishClaimGranted ==
  ASSUME TypeOK, OneTaskPerTree, NEW c \in Claims, FinishClaim(c)
  PROVE  claim[c] \in ClaimRecord /\ claim[c].tree \in Trees /\ claim[c].node \in Nodes
<1>1. claim[c] # NONE
  BY DEF FinishClaim, OneTaskPerTree, LiveTasks, TaskStates
<1>2. claim[c] \in ClaimRecord
  BY <1>1 DEF TypeOK
<1> QED
  BY <1>2 DEF ClaimRecord

(* Finishing a claim keeps every type.                                     *)
LEMMA FinishType ==
  ASSUME TypeOK, OneTaskPerTree, NEW c \in Claims, FinishClaim(c)
  PROVE  TypeOK'
<1> DEFINE t        == claim[c].tree
           eligible == {n \in Nodes : place[t][n] # 0 /\ state[t][n] = "pending"}
           gone     == [task EXCEPT ![c] = "gone"]
<1>1. gone \in [Claims -> TaskStates]
  BY DEF TypeOK, TaskStates
<1>2. /\ tombstoned' \in SUBSET Claims /\ cancelled' \in SUBSET Claims
      /\ reported' \in SUBSET Claims
  BY DEF FinishClaim, TypeOK
<1>3. UNCHANGED <<trees, index, session, admissions, root, status, replyTo>>
  BY DEF FinishClaim, graphVars
<1>4. CASE active[t] # c
  BY <1>1, <1>2, <1>3, <1>4 DEF FinishClaim, TypeOK
<1>5. CASE active[t] = c /\ eligible = {}
  <2>1. /\ active' = [active EXCEPT ![t] = NONE]
        /\ place'  = [place EXCEPT ![t] = Unqueued(t, Nodes)]
        /\ task'   = gone
        /\ UNCHANGED <<state, claim>>
    BY <1>5 DEF FinishClaim
  <2>2. active' \in [Trees -> Claims \cup {NONE}]
    BY <2>1 DEF TypeOK
  <2>3. place' \in [Trees -> [Nodes -> Nat]]
    <3>1. CASE t \in Trees
      BY <2>1, <3>1, RowTypes DEF TypeOK
    <3>2. CASE t \notin Trees
      BY <2>1, <3>2 DEF TypeOK
    <3> QED
      BY <3>1, <3>2
  <2> QED
    BY <1>1, <1>2, <1>3, <2>1, <2>2, <2>3 DEF TypeOK
<1>6. CASE active[t] = c /\ eligible # {}
  <2>1. PICK n \in Oldest(t, eligible), k \in Claims :
          /\ state'  = [state EXCEPT ![t][n] = "in_progress"]
          /\ place'  = [place EXCEPT ![t] = Unqueued(t, {m \in Nodes : place[t][m] <= place[t][n]})]
          /\ active' = [active EXCEPT ![t] = k]
          /\ claim'  = [claim EXCEPT ![k] =
                          [tree |-> t, node |-> n,
                           resumed |-> ParentSession(t, replyTo[t][n], session[t])]]
          /\ task'   = [gone EXCEPT ![k] = SuccessorTask(t)]
    BY <1>6 DEF FinishClaim
  <2>2. n \in Nodes
    BY <2>1 DEF Oldest
  <2>3. t \in Trees
    BY FinishClaimGranted
  <2>4. state' \in [Trees -> [Nodes -> NodeStates]]
    BY <2>1, <2>2, <2>3 DEF TypeOK, NodeStates
  <2>5. place' \in [Trees -> [Nodes -> Nat]]
    BY <2>1, <2>3, RowTypes DEF TypeOK
  <2>6. active' \in [Trees -> Claims \cup {NONE}]
    BY <2>1 DEF TypeOK
  <2>7. replyTo[t][n] \in Refs \cup {NONE}
    BY <2>2, <2>3 DEF TypeOK
  <2>8. [tree |-> t, node |-> n, resumed |-> ParentSession(t, replyTo[t][n], session[t])] \in ClaimRecord
    BY <2>2, <2>3, <2>7, ParentSessionType DEF ClaimRecord
  <2>9. claim' \in [Claims -> ClaimRecord \cup {NONE}]
    BY <2>1, <2>8 DEF TypeOK
  <2>10. task' \in [Claims -> TaskStates]
    BY <1>1, <2>1 DEF SuccessorTask, TaskStates
  <2> QED
    BY <1>2, <1>3, <2>4, <2>5, <2>6, <2>9, <2>10 DEF TypeOK
<1> QED
  BY <1>4, <1>5, <1>6

(* So do sweeping a set of trees and removing a reply subtree.             *)
LEMMA SweepType ==
  ASSUME TypeOK, NEW P, Sweep(P),
         trees' \in [Nodes -> Trees \cup {NONE}], index' \in [Refs -> Nodes \cup {NONE}],
         P \subseteq Trees
  PROVE  TypeOK'
<1>1. Reached(P) \subseteq Trees /\ Swept(P) \subseteq Trees
  BY DEF Reached, Swept
<1>2. tombstoned' \in SUBSET Claims /\ cancelled' \in SUBSET Claims
  BY <1>1 DEF Sweep, TypeOK
<1>3. state' \in [Trees -> [Nodes -> NodeStates]]
  <2>1. state' = [t \in Trees |-> IF t \in Swept(P) THEN Errored(t, Nodes) ELSE state[t]]
    BY DEF Sweep
  <2>2. \A t \in Trees : Errored(t, Nodes) \in [Nodes -> NodeStates] /\ state[t] \in [Nodes -> NodeStates]
    BY RowTypes DEF TypeOK
  <2> QED
    BY <2>1, <2>2
<1>4. place' \in [Trees -> [Nodes -> Nat]]
  <2>1. place' = [t \in Trees |-> IF t \in Swept(P) THEN Unqueued(t, Nodes) ELSE place[t]]
    BY DEF Sweep
  <2>2. \A t \in Trees : Unqueued(t, Nodes) \in [Nodes -> Nat] /\ place[t] \in [Nodes -> Nat]
    BY RowTypes DEF TypeOK
  <2> QED
    BY <2>1, <2>2
<1> QED
  BY <1>2, <1>3, <1>4 DEF Sweep, TypeOK

(* The repository publishes tree objects.                                  *)
LEMMA PublishedTrees == TypeOK => Published \subseteq Trees
  BY DEF TypeOK, Published

(* Removing a reply subtree keeps every type.                              *)
LEMMA RemoveNodesType ==
  ASSUME TypeOK, NEW t \in Trees, NEW r \in Refs, NEW removed \in SUBSET Nodes,
         RemoveNodes(t, r, removed)
  PROVE  TypeOK'
<1> DEFINE affected == removed \cup {r[1]}
           c == {active[t]} \cap {k \in Claims : claim[k] # NONE /\ claim[k].node \in affected}
<1>1. tombstoned' \in SUBSET Claims /\ cancelled' \in SUBSET Claims
  <2>1. tombstoned' = tombstoned \cup c /\ cancelled' = cancelled \cup c
    BY DEF RemoveNodes
  <2> QED
    BY <2>1 DEF TypeOK
<1>2. state' \in [Trees -> [Nodes -> NodeStates]]
  <2>1. state' = [state EXCEPT ![t] = [n \in Nodes |-> IF n \in removed THEN "absent"
                                          ELSE IF n \in affected THEN "error" ELSE state[t][n]]]
    BY DEF RemoveNodes, TypeOK
  <2>2. [n \in Nodes |-> IF n \in removed THEN "absent" ELSE IF n \in affected THEN "error"
                         ELSE state[t][n]] \in [Nodes -> NodeStates]
    BY DEF TypeOK, NodeStates
  <2> QED
    BY <2>1, <2>2 DEF TypeOK
<1>3. place' \in [Trees -> [Nodes -> Nat]]
  BY RowTypes DEF RemoveNodes, TypeOK
<1>4. status' \in [Trees -> SUBSET Nodes]
  <2>1. status' = [status EXCEPT ![t] = @ \ affected]
    BY DEF RemoveNodes
  <2> QED
    BY <2>1 DEF TypeOK
<1>5. session' \in [Trees -> [Nodes -> Claims \cup {NONE}]]
  <2>1. session' = [session EXCEPT ![t] = [n \in Nodes |-> IF n \in affected THEN NONE ELSE session[t][n]]]
    BY DEF RemoveNodes, TypeOK
  <2> QED
    BY <2>1 DEF TypeOK
<1>6. replyTo' \in [Trees -> [Nodes -> Refs \cup {NONE}]]
  <2>1. replyTo' = [replyTo EXCEPT ![t] = [n \in Nodes |-> IF n \in removed THEN NONE ELSE replyTo[t][n]]]
    BY DEF RemoveNodes, TypeOK
  <2> QED
    BY <2>1 DEF TypeOK
<1>7. trees' \in [Nodes -> Trees \cup {NONE}]
  BY DEF RemoveNodes, TypeOK
<1>8. index' \in [Refs -> Nodes \cup {NONE}]
  BY DEF RemoveNodes, TypeOK
<1> QED
  BY <1>1, <1>2, <1>3, <1>4, <1>5, <1>6, <1>7, <1>8 DEF RemoveNodes, TypeOK

-----------------------------------------------------------------------------
(* Type correctness.                                                       *)

(* An empty repository has the right types.                                *)
LEMMA TypeInit == Init => TypeOK
  BY TreesAssumption DEF Init, TypeOK, NodeStates, TaskStates

(* So does every accepted, repeated or replying admission.                 *)
LEMMA AdmitType == ASSUME TypeOK, Admit PROVE TypeOK'
<1>1. ASSUME NEW n \in Nodes, AdmitRoot(n) PROVE TypeOK'
  <2>1. PICK t \in Trees :
          /\ EnqueueOrClaim(t, n, [state[t] EXCEPT ![n] = "pending"], NONE, "admitted")
          /\ root'    = [root EXCEPT ![t] = n]
          /\ status'  = [status EXCEPT ![t] = @ \cup {n}]
          /\ trees'   = [trees EXCEPT ![n] = t]
    BY <1>1 DEF AdmitRoot
  <2>2. [state[t] EXCEPT ![n] = "pending"] \in [Nodes -> NodeStates] /\ "admitted" \in TaskStates
    BY DEF TypeOK, NodeStates, TaskStates
  <2>3. /\ state' \in [Trees -> [Nodes -> NodeStates]] /\ place' \in [Trees -> [Nodes -> Nat]]
        /\ active' \in [Trees -> Claims \cup {NONE}]
        /\ claim' \in [Claims -> ClaimRecord \cup {NONE}] /\ task' \in [Claims -> TaskStates]
    BY <2>1, <2>2, EnqueueOrClaimType
  <2>4. /\ index' = [index EXCEPT ![Prompt(n)] = n, ![Status(n)] = n]
        /\ admissions' = admissions + 1
        /\ UNCHANGED <<replyTo, session, tombstoned, cancelled, reported>>
    BY <1>1 DEF AdmitRoot
  <2>5. index' \in [Refs -> Nodes \cup {NONE}]
    BY <2>4 DEF TypeOK
  <2>6. trees' \in [Nodes -> Trees \cup {NONE}]
    BY <2>1 DEF TypeOK
  <2>7. root' \in [Trees -> Nodes \cup {NONE}]
    BY <2>1 DEF TypeOK
  <2>8. status' \in [Trees -> SUBSET Nodes]
    BY <2>1 DEF TypeOK
  <2>9. admissions' \in Nat
    BY <2>4 DEF TypeOK
  <2> QED
    BY <2>3, <2>4, <2>5, <2>6, <2>7, <2>8, <2>9 DEF TypeOK
<1>2. ASSUME NEW n \in Nodes, NEW r \in Refs, AdmitReply(n, r) PROVE TypeOK'
  <2> DEFINE t == TreeFor(r)
  <2>1. t \in Trees
    BY <1>2, TreeForType DEF AdmitReply
  <2>2. [state[t] EXCEPT ![n] = "pending"] \in [Nodes -> NodeStates] /\ "admitted" \in TaskStates
    BY <2>1 DEF TypeOK, NodeStates, TaskStates
  <2>3. EnqueueOrClaim(t, n, [state[t] EXCEPT ![n] = "pending"], r, "admitted")
    BY <1>2 DEF AdmitReply
  <2>4. /\ state' \in [Trees -> [Nodes -> NodeStates]] /\ place' \in [Trees -> [Nodes -> Nat]]
        /\ active' \in [Trees -> Claims \cup {NONE}]
        /\ claim' \in [Claims -> ClaimRecord \cup {NONE}] /\ task' \in [Claims -> TaskStates]
    BY <2>1, <2>2, <2>3, EnqueueOrClaimType
  <2>5. /\ status'  = [status EXCEPT ![t] = @ \cup {n}]
        /\ replyTo' = [replyTo EXCEPT ![t][n] = r]
        /\ index'   = [index EXCEPT ![Prompt(n)] = index[r], ![Status(n)] = index[r]]
        /\ admissions' = admissions + 1
        /\ UNCHANGED <<trees, root, session, tombstoned, cancelled, reported>>
    BY <1>2 DEF AdmitReply
  <2>6. index[r] \in Nodes \cup {NONE}
    BY DEF TypeOK
  <2>7. index' \in [Refs -> Nodes \cup {NONE}]
    BY <2>5, <2>6 DEF TypeOK
  <2>10. admissions' \in Nat
    BY <2>5 DEF TypeOK
  <2>8. status' \in [Trees -> SUBSET Nodes]
    BY <2>1, <2>5 DEF TypeOK
  <2>9. replyTo' \in [Trees -> [Nodes -> Refs \cup {NONE}]]
    BY <2>1, <2>5 DEF TypeOK
  <2> QED
    BY <2>4, <2>5, <2>7, <2>8, <2>9, <2>10 DEF TypeOK
<1>3. ASSUME NEW n \in Nodes, AdmitAgain(n) PROVE TypeOK'
  <2> DEFINE t == TreeFor(Prompt(n))
  <2>1. t \in Trees /\ replyTo[t][n] \in Refs \cup {NONE} /\ state[t] \in [Nodes -> NodeStates]
    BY <1>3, TreeForType, RefTypes DEF AdmitAgain, TypeOK
  <2>2. UNCHANGED <<trees, index, root, status, replyTo, session, tombstoned,
                    cancelled, reported, admissions>>
    BY <1>3 DEF AdmitAgain
  <2>3. CASE state[t][n] = "pending"
    <3>1. EnqueueOrClaim(t, n, state[t], replyTo[t][n], "none") /\ "none" \in TaskStates
      BY <1>3, <2>3 DEF AdmitAgain, TaskStates
    <3>2. /\ state' \in [Trees -> [Nodes -> NodeStates]] /\ place' \in [Trees -> [Nodes -> Nat]]
          /\ active' \in [Trees -> Claims \cup {NONE}]
          /\ claim' \in [Claims -> ClaimRecord \cup {NONE}] /\ task' \in [Claims -> TaskStates]
      BY <2>1, <3>1, EnqueueOrClaimType
    <3> QED
      BY <2>2, <3>2 DEF TypeOK
  <2>4. CASE state[t][n] # "pending"
    BY <1>3, <2>2, <2>4 DEF AdmitAgain, TypeOK
  <2> QED
    BY <2>3, <2>4
<1> QED
  BY <1>1, <1>2, <1>3 DEF Admit

(* A step of a claim task keeps the types; a finishing task needs to be    *)
(* that of the granted claim, hence the second invariant.                  *)
LEMMA TaskType == ASSUME TypeOK, OneTaskPerTree, NEW c \in Claims, TaskStep(c) PROVE TypeOK'
<1> USE DEF TaskStates
<1>1. CASE TaskStarts(c)
  BY <1>1 DEF TaskStarts, taskOnly, TypeOK
<1>2. CASE AnnouncementEnds(c)
  BY <1>2 DEF AnnouncementEnds, taskOnly, TypeOK
<1>3. CASE RunnerReturns(c)
  BY <1>3 DEF RunnerReturns, taskOnly, TypeOK
<1>4. CASE RunnerRaises(c)
  BY <1>4 DEF RunnerRaises, taskOnly, TypeOK
<1>5. CASE RecordSession(c)
  <2>1. session' \in [Trees -> [Nodes -> Claims \cup {NONE}]]
    BY <1>5 DEF RecordSession, TypeOK
  <2> QED
    BY <1>5, <2>1 DEF RecordSession, graphVars, taskVars, TypeOK
<1>6. CASE CompleteClaim(c)
  <2> DEFINE t == TreeOfClaim(c)
             n == claim[c].node
  <2>1. CASE Current(t, c) /\ state[t][n] \in {"in_progress", "error"}
    <3>1. PICK s \in {session[t][n], c} : session' = [session EXCEPT ![t][n] = s]
      BY <1>6, <2>1 DEF CompleteClaim
    <3>2. session' \in [Trees -> [Nodes -> Claims \cup {NONE}]]
      <4>1. CASE t \in Trees /\ n \in Nodes
        BY <3>1, <4>1 DEF TypeOK
      <4>2. CASE t \notin Trees
        BY <3>1, <4>2 DEF TypeOK
      <4>3. CASE t \in Trees /\ n \notin Nodes
        <5>1. [session[t] EXCEPT ![n] = s] = session[t]
          BY <4>3 DEF TypeOK
        <5> QED
          BY <3>1, <4>3, <5>1 DEF TypeOK
      <4> QED
        BY <4>1, <4>2, <4>3
    <3>3. state' \in [Trees -> [Nodes -> NodeStates]]
      <4>1. state' = [state EXCEPT ![t][n] = "completed"]
        BY <1>6, <2>1 DEF CompleteClaim
      <4> QED
        BY <4>1 DEF TypeOK, NodeStates
    <3> QED
      BY <1>6, <3>2, <3>3 DEF CompleteClaim, graphVars, TypeOK
  <2>2. CASE ~(Current(t, c) /\ state[t][n] \in {"in_progress", "error"})
    BY <1>6, <2>2 DEF CompleteClaim, graphVars, TypeOK
  <2> QED
    BY <2>1, <2>2
<1>7. CASE FailClaim(c)
  <2>1. PICK propagate \in BOOLEAN : FailEffect(c, propagate)
    BY <1>7 DEF FailClaim
  <2>2. state' \in [Trees -> [Nodes -> NodeStates]] /\ place' \in [Trees -> [Nodes -> Nat]]
    BY <2>1, FailEffectType
  <2> QED
    BY <1>7, <2>2 DEF FailClaim, graphVars, TypeOK
<1>8. CASE FailureCallback(c)
  <2>1. state' \in [Trees -> [Nodes -> NodeStates]] /\ place' \in [Trees -> [Nodes -> Nat]]
    BY <1>8, FailEffectType DEF FailureCallback
  <2> QED
    BY <1>8, <2>1 DEF FailureCallback, graphVars, TypeOK
<1>9. CASE FinishClaim(c)
  BY <1>9, FinishType
<1> QED
  BY <1>1, <1>2, <1>3, <1>4, <1>5, <1>6, <1>7, <1>8, <1>9 DEF TaskStep

(* Stops, clears and removals keep the types.                              *)
LEMMA CancelType == ASSUME TypeOK, Cancel PROVE TypeOK'
<1>1. ASSUME NEW n \in Nodes, CancelNode(n) PROVE TypeOK'
  <2> DEFINE t == TreeFor(Prompt(n))
  <2>1. t \in Trees
    BY <1>1, TreeForType, RefTypes DEF CancelNode
  <2>2. state' \in [Trees -> [Nodes -> NodeStates]]
    BY <1>1, <2>1, RowTypes DEF CancelNode, TypeOK
  <2>3. place' \in [Trees -> [Nodes -> Nat]]
    BY <1>1, <2>1, RowTypes DEF CancelNode, TypeOK
  <2>4. tombstoned' \in SUBSET Claims /\ cancelled' \in SUBSET Claims
    BY <1>1, <2>1 DEF CancelNode, TypeOK, ActiveOn
  <2> QED
    BY <1>1, <2>2, <2>3, <2>4 DEF CancelNode, graphVars, TypeOK
<1>2. ASSUME CancelAll PROVE TypeOK'
  <2>1. Sweep(Published) /\ UNCHANGED <<trees, index>>
    BY <1>2 DEF CancelAll
  <2> QED
    BY <2>1, SweepType, PublishedTrees DEF TypeOK
<1>3. ASSUME NEW s \in Scopes, ClearScope(s) PROVE TypeOK'
  <2> DEFINE P == {t \in Published : ScopeOf[root[t]] = s}
             detached == {root[t] : t \in Swept(P)}
  <2>1. /\ Sweep(P)
        /\ trees' = [i \in Nodes |-> IF i \in detached THEN NONE ELSE trees[i]]
        /\ index' = [r \in Refs |-> IF index[r] \in detached THEN NONE ELSE index[r]]
    BY <1>3 DEF ClearScope
  <2>2. trees' \in [Nodes -> Trees \cup {NONE}] /\ index' \in [Refs -> Nodes \cup {NONE}]
    BY <2>1 DEF TypeOK
  <2>3. P \subseteq Trees
    BY PublishedTrees
  <2> QED
    BY <2>1, <2>2, <2>3, SweepType
<1>4. ASSUME NEW r \in Refs, RemoveSubtree(r) PROVE TypeOK'
  <2>1. TreeFor(r) \in Trees
    BY <1>4, TreeForType DEF RemoveSubtree
  <2>2. RemoveNodes(TreeFor(r), r, ReferencedNodes(TreeFor(r), r))
    BY <1>4 DEF RemoveSubtree
  <2> QED
    BY <2>1, <2>2, ReferencedNodesType, RemoveNodesType
<1>5. ASSUME NEW r \in Refs, RemoveSubtreeRaises(r) PROVE TypeOK'
  <2> DEFINE t == TreeFor(r)
  <2>1. t \in Trees
    BY <1>5, TreeForType DEF RemoveSubtreeRaises
  <2>2. PICK S \in SUBSET (ReferencedNodes(t, r) \cup {r[1]}) :
          /\ state' = [state EXCEPT ![t] = Errored(t, S)]
          /\ place' = [place EXCEPT ![t] = Unqueued(t, S)]
    BY <1>5 DEF RemoveSubtreeRaises
  <2>3. state' \in [Trees -> [Nodes -> NodeStates]] /\ place' \in [Trees -> [Nodes -> Nat]]
    BY <2>1, <2>2, RowTypes DEF TypeOK
  <2>4. tombstoned' \in SUBSET Claims
    BY <1>5, <2>1 DEF RemoveSubtreeRaises, Unaddressable, TypeOK
  <2> QED
    BY <1>5, <2>3, <2>4 DEF RemoveSubtreeRaises, graphVars, TypeOK
<1> QED
  BY <1>1, <1>2, <1>3, <1>4, <1>5 DEF Cancel

-----------------------------------------------------------------------------
(* One task per tree.                                                      *)

(* Every step keeps the types.                                             *)
LEMMA TypeNext == ASSUME TypeOK, OneTaskPerTree, [Next]_vars PROVE TypeOK'
<1>1. CASE UNCHANGED vars
  BY <1>1 DEF vars, TypeOK
<1> QED
  BY <1>1, AdmitType, CancelType, TaskType DEF Next

(* Initially there is no task.                                             *)
LEMMA OneTaskInit == Init => OneTaskPerTree
  BY DEF Init, OneTaskPerTree, LiveTasks

(* A tree that is granted a claim had none, so no other task is disturbed. *)
LEMMA EnqueueOrClaimOneTask ==
  ASSUME TypeOK, OneTaskPerTree, NEW t \in Trees, NEW n \in Nodes, NEW nodes,
         NEW reply \in Refs \cup {NONE}, NEW phase, EnqueueOrClaim(t, n, nodes, reply, phase)
  PROVE  OneTaskPerTree'
<1>1. CASE active[t] = NONE
  <2>1. PICK k \in Claims : Grant(t, n, k, nodes, reply, phase)
    BY <1>1 DEF EnqueueOrClaim
  <2> DEFINE record == [tree |-> t, node |-> n, resumed |-> ParentSession(t, reply, session[t])]
  <2>2. active' = [active EXCEPT ![t] = k] /\ claim' = [claim EXCEPT ![k] = record]
    BY <2>1 DEF Grant
  <2>3. record.tree = t /\ record # NONE
    BY ParentSessionType, TreesAssumption DEF ClaimRecord
  <2>4. \A c \in Claims \ {k} : task'[c] = task[c]
    BY <2>1 DEF Grant, TypeOK
  <2>5. claim'[k] # NONE /\ active'[claim'[k].tree] = k
    BY <2>2, <2>3 DEF TypeOK
  <2>6. \A d \in Claims \ {k} : task'[d] \in LiveTasks => claim'[d] # NONE /\ active'[claim'[d].tree] = d
    BY <2>2, <2>4, <1>1, TreesAssumption DEF OneTaskPerTree, TypeOK
  <2> QED
    BY <2>5, <2>6 DEF OneTaskPerTree
<1>2. CASE active[t] # NONE
  BY <1>2 DEF EnqueueOrClaim, OneTaskPerTree
<1> QED
  BY <1>1, <1>2

(* An admission attaches a task only to the claim it grants, and grants    *)
(* only on a tree that has no claim and therefore no task.                 *)
LEMMA AdmitOneTask == ASSUME TypeOK, OneTaskPerTree, Admit PROVE OneTaskPerTree'
<1>1. ASSUME NEW n \in Nodes, AdmitRoot(n) PROVE OneTaskPerTree'
  BY <1>1, EnqueueOrClaimOneTask DEF AdmitRoot
<1>2. ASSUME NEW n \in Nodes, NEW r \in Refs, AdmitReply(n, r) PROVE OneTaskPerTree'
  <2>1. TreeFor(r) \in Trees
    BY <1>2, TreeForType DEF AdmitReply
  <2> QED
    BY <1>2, <2>1, EnqueueOrClaimOneTask DEF AdmitReply
<1>3. ASSUME NEW n \in Nodes, AdmitAgain(n) PROVE OneTaskPerTree'
  <2> DEFINE t == TreeFor(Prompt(n))
  <2>1. t \in Trees /\ replyTo[t][n] \in Refs \cup {NONE}
    BY <1>3, TreeForType, RefTypes DEF AdmitAgain, TypeOK
  <2>2. CASE state[t][n] = "pending"
    BY <1>3, <2>1, <2>2, EnqueueOrClaimOneTask DEF AdmitAgain
  <2>3. CASE state[t][n] # "pending"
    BY <1>3, <2>3 DEF AdmitAgain, OneTaskPerTree
  <2> QED
    BY <2>2, <2>3
<1> QED
  BY <1>1, <1>2, <1>3 DEF Admit

(* The finishing task is the only one of its tree, and the successor takes *)
(* its place.                                                              *)
LEMMA FinishOneTask ==
  ASSUME TypeOK, OneTaskPerTree, NEW c \in Claims, FinishClaim(c)
  PROVE  OneTaskPerTree'
<1> DEFINE t        == claim[c].tree
           eligible == {n \in Nodes : place[t][n] # 0 /\ state[t][n] = "pending"}
           gone     == [task EXCEPT ![c] = "gone"]
<1>1. t \in Trees /\ active[t] = c
  BY FinishClaimGranted DEF FinishClaim, OneTaskPerTree, LiveTasks, TaskStates
<1>2. \A d \in Claims : gone[d] \in LiveTasks => d # c /\ task[d] \in LiveTasks
  BY DEF TypeOK, LiveTasks
<1>3. \A d \in Claims : gone[d] \in LiveTasks => claim[d] # NONE /\ active[claim[d].tree] = d /\ claim[d].tree # t
  BY <1>1, <1>2 DEF OneTaskPerTree
<1>4. CASE eligible = {}
  <2>1. active' = [active EXCEPT ![t] = NONE] /\ task' = gone /\ claim' = claim
    BY <1>1, <1>4 DEF FinishClaim
  <2> QED
    BY <1>3, <2>1 DEF OneTaskPerTree, TypeOK
<1>5. CASE eligible # {}
  <2>1. PICK n \in Oldest(t, eligible), k \in Claims :
          /\ Fresh(k)
          /\ active' = [active EXCEPT ![t] = k]
          /\ claim'  = [claim EXCEPT ![k] =
                          [tree |-> t, node |-> n,
                           resumed |-> ParentSession(t, replyTo[t][n], session[t])]]
          /\ task'   = [gone EXCEPT ![k] = SuccessorTask(t)]
    BY <1>1, <1>5 DEF FinishClaim
  <2> DEFINE record == [tree |-> t, node |-> n,
                        resumed |-> ParentSession(t, replyTo[t][n], session[t])]
  <2>2. n \in Nodes /\ replyTo[t][n] \in Refs \cup {NONE}
    BY <1>1, <2>1 DEF Oldest, TypeOK
  <2>3. record.tree = t /\ record # NONE
    BY <1>1, <2>2, ParentSessionType, TreesAssumption DEF ClaimRecord
  <2>4. \A d \in Claims \ {k} : task'[d] = gone[d] /\ claim'[d] = claim[d]
    BY <2>1 DEF TypeOK
  <2>5. claim'[k] # NONE /\ active'[claim'[k].tree] = k
    BY <1>1, <2>1, <2>3 DEF TypeOK
  <2>6. \A d \in Claims \ {k} : task'[d] \in LiveTasks => claim'[d] # NONE /\ active'[claim'[d].tree] = d
    <3>1. \A d \in Claims : claim[d] # NONE => claim[d].tree \in Trees
      BY DEF TypeOK, ClaimRecord
    <3>2. \A u \in Trees \ {t} : active'[u] = active[u]
      BY <2>1 DEF TypeOK
    <3> QED
      BY <1>3, <2>4, <3>1, <3>2
  <2> QED
    BY <2>5, <2>6 DEF OneTaskPerTree
<1> QED
  BY <1>4, <1>5

(* A task step short of finishing keeps its task live and grants nothing.  *)
LEMMA TaskOneTask ==
  ASSUME TypeOK, OneTaskPerTree, NEW c \in Claims, TaskStep(c)
  PROVE  OneTaskPerTree'
<1>1. CASE FinishClaim(c)
  BY <1>1, FinishOneTask
<1>2. CASE ~FinishClaim(c)
  <2>1. UNCHANGED <<active, claim>>
    BY <1>2 DEF TaskStep, TaskStarts, AnnouncementEnds, RunnerReturns, RunnerRaises, RecordSession,
                CompleteClaim, FailClaim, FailureCallback, taskOnly, taskVars
  <2>2. \A d \in Claims : task'[d] \in LiveTasks => task[d] \in LiveTasks
    BY <1>2 DEF TaskStep, TaskStarts, AnnouncementEnds, RunnerReturns, RunnerRaises, RecordSession,
                CompleteClaim, FailClaim, FailureCallback, taskVars, LiveTasks, TaskStates, TypeOK
  <2> QED
    BY <2>1, <2>2 DEF OneTaskPerTree
<1> QED
  BY <1>1, <1>2

(* Stops, clears and removals start no task and release no claim.          *)
LEMMA CancelOneTask == ASSUME OneTaskPerTree, Cancel PROVE OneTaskPerTree'
<1>1. UNCHANGED <<active, claim, task>>
  BY DEF Cancel, CancelNode, CancelAll, ClearScope, Sweep, RemoveSubtree, RemoveNodes, RemoveSubtreeRaises
<1> QED
  BY <1>1 DEF OneTaskPerTree

(* Both invariants hold together: the type of a claim that finishes is     *)
(* known because its tree has granted it.                                  *)
LEMMA TypeAndOneTask == Spec => [](TypeOK /\ OneTaskPerTree)
<1>1. Init => TypeOK /\ OneTaskPerTree
  BY TypeInit, OneTaskInit
<1>2. TypeOK /\ OneTaskPerTree /\ [Next]_vars => TypeOK' /\ OneTaskPerTree'
  <2> SUFFICES ASSUME TypeOK, OneTaskPerTree, [Next]_vars PROVE OneTaskPerTree'
    BY TypeNext
  <2>1. CASE UNCHANGED vars
    BY <2>1 DEF vars, OneTaskPerTree
  <2> QED
    BY <2>1, AdmitOneTask, CancelOneTask, TaskOneTask DEF Next
<1> QED
  BY <1>1, <1>2, PTL DEF Spec

(* Every variable keeps its type.                                          *)
THEOREM TypeCorrect == Spec => []TypeOK
  BY TypeAndOneTask, PTL

(* No conversation ever has two claim tasks: whoever stops, fails, removes *)
(* or finishes a claim, the aggregate grants the next one only to the task *)
(* that replaces the finished one.                                         *)
THEOREM OneTaskCorrect == Spec => []OneTaskPerTree
  BY TypeAndOneTask, PTL

-----------------------------------------------------------------------------
(* The structures of the trees agree.                                      *)

(* The graph of a tree: nothing is left of a node that is gone, and only   *)
(* the root is no reply.                                                   *)
NodeShape ==
  \A t \in Trees :
    /\ root[t] = NONE => Live(t) = {}
    /\ status[t] \subseteq Live(t)
    /\ \A n \in Nodes : n \notin Live(t) \/ n = root[t] => replyTo[t][n] = NONE

(* Every node of a tree is reached from its root by replies to messages    *)
(* that are still there, so that nothing is left when the root goes.       *)
Leads(t, a, b) ==
  replyTo[t][b] = Prompt(a) \/ (replyTo[t][b] = Status(a) /\ a \in status[t])
ClosedIn(t, C) == \A a \in C : \A b \in Nodes \ C : ~Leads(t, a, b)
Rooted ==
  \A t \in Trees : \A C \in SUBSET Nodes : root[t] \in C /\ ClosedIn(t, C) => Live(t) \subseteq C

(* The two halves of RepliesHaveParents.                                   *)
ParentsLive ==
  \A t \in Trees : \A n \in Live(t) \ {root[t]} : replyTo[t][n] \in LiveRefs(t)
ParentsFirst ==
  \A t \in Trees : \A n \in Live(t) \ {root[t]} :
    LET p == replyTo[t][n][1] IN
    /\ state[t][n] = "in_progress" => state[t][p] \notin Runnable
    /\ place[t][n] # 0 /\ place[t][p] # 0 => place[t][p] < place[t][n]

Graph == NodeShape /\ Rooted /\ IndexIsExact /\ ParentsLive

(* Only a published tree has something to run, what waits can be shown,    *)
(* and every place was given to one prompt, by an admission that came.     *)
RunnableIsPublished ==
  \A t \in Trees : \A n \in Nodes :
    state[t][n] \in Runnable => root[t] # NONE /\ trees[root[t]] = t
WaitingShape ==
  \A t \in Trees : \A n \in Nodes :
    /\ state[t][n] = "pending" => n \in status[t]
    /\ place[t][n] <= admissions
    /\ \A m \in Nodes : place[t][n] # 0 /\ place[t][m] = place[t][n] => m = n

Order == QueueIsPending /\ ParentsFirst /\ RunnableIsPublished /\ WaitingShape

(* A claim: what is marked is a claim, and a claim whose task is cancelled *)
(* is stopped.  A granted one that cannot be addressed is cancelled; until *)
(* it is stopped its node is there and has started; and when its task is   *)
(* over, or has reported its end, the node is in progress no more.         *)
ClaimShape ==
  /\ cancelled \subseteq tombstoned
  /\ \A c \in tombstoned \cup reported : claim[c] # NONE
  /\ \A t \in Trees : active[t] # NONE =>
       LET c == active[t]
           n == claim[c].node IN
       /\ root[t] # NONE
       /\ n \notin status[t] => c \in cancelled
       /\ c \notin tombstoned => state[t][n] \notin {"absent", "pending"}
       /\ c \in reported \/ task[c] \in {"finishing", "unentered"} => state[t][n] # "in_progress"

(* A session is one that a run of the same tree has recorded.              *)
SessionShape ==
  \A t \in Trees : \A n \in Nodes :
    session[t][n] # NONE =>
      /\ claim[session[t][n]] # NONE /\ claim[session[t][n]].tree = t
      /\ task[session[t][n]] # "none"

(* The inductive invariant.                                                *)
Agreement == TypeOK /\ OneTaskPerTree /\ Graph /\ Order /\ NoStrandedClaim /\ ClaimShape

-----------------------------------------------------------------------------
(* References.                                                             *)

(* A reference is one of the two messages of a prompt.                     *)
LEMMA RefCases == ASSUME NEW r \in Refs
                  PROVE  r[1] \in Nodes /\ (r = Prompt(r[1]) \/ r = Status(r[1]))
  BY DEF Refs, Prompt, Status

(* The messages of prompts are told apart.                                 *)
LEMMA RefFacts ==
  ASSUME NEW n, NEW m
  PROVE  /\ Prompt(n)[1] = n /\ Status(n)[1] = n
         /\ Prompt(n) # Status(m)
         /\ Prompt(n) = Prompt(m) <=> n = m
         /\ Status(n) = Status(m) <=> n = m
  BY DEF Prompt, Status

(* The messages that a tree holds.                                         *)
LEMMA LiveRefFacts ==
  ASSUME NEW t, NEW n \in Nodes
  PROVE  /\ Prompt(n) \in LiveRefs(t) <=> n \in Live(t)
         /\ Status(n) \in LiveRefs(t) <=> n \in status[t]
  BY DEF LiveRefs, Refs, Prompt, Status

(* The same after a step.                                                  *)
LEMMA LiveRefFactsNext ==
  ASSUME NEW t \in Trees, NEW n \in Nodes
  PROVE  /\ Prompt(n) \in LiveRefs(t)' <=> n \in Live(t)'
         /\ Status(n) \in LiveRefs(t)' <=> n \in (status[t])'
  BY DEF LiveRefs, Refs, Prompt, Status

(* NONE is no reference, and a live reference is a reference.              *)
LEMMA NoneIsNoRef == NONE \notin Refs
  BY TreesAssumption DEF Refs

-----------------------------------------------------------------------------
(* Steps that only settle nodes.                                           *)

(* Nodes end and leave the queue; the graph and the claims stay.           *)
Calms ==
  /\ UNCHANGED <<root, status, replyTo, active, claim, admissions>>
  /\ \A t \in Trees : \A n \in Nodes :
       /\ state'[t][n] = "absent" <=> state[t][n] = "absent"
       /\ state'[t][n] \in Runnable => state'[t][n] = state[t][n]
       /\ place'[t][n] = IF state'[t][n] = "pending" THEN place[t][n] ELSE 0
       /\ state'[t][n] = "in_progress" => active[t] \notin tombstoned'

(* And no tree is published, detached or indexed.                          *)
Settles == Calms /\ UNCHANGED <<trees, index>>

(* What is live stays so.                                                  *)
LEMMA CalmsLive ==
  ASSUME Calms
  PROVE  \A t \in Trees : Live(t)' = Live(t) /\ LiveRefs(t)' = LiveRefs(t)
<1> SUFFICES ASSUME NEW t \in Trees PROVE Live(t)' = Live(t) /\ LiveRefs(t)' = LiveRefs(t)
  OBVIOUS
<1>1. Live(t)' = Live(t)
  BY DEF Calms, Live
<1> QED
  BY <1>1 DEF Calms, LiveRefs

(* They keep the graph.                                                    *)
LEMMA SettlesGraph == ASSUME TypeOK, Graph, Settles PROVE Graph'
<1> UNCHANGED <<trees, index, root, status, replyTo>>
  BY DEF Settles, Calms
<1>1. NodeShape'
  BY CalmsLive DEF Settles, Graph, NodeShape
<1>2. Rooted'
  BY CalmsLive DEF Settles, Graph, Rooted, ClosedIn, Leads
<1>3. IndexIsExact'
  BY CalmsLive DEF Settles, Graph, IndexIsExact, TypeOK
<1>4. ParentsLive'
  BY CalmsLive DEF Settles, Graph, ParentsLive
<1> QED
  BY <1>1, <1>2, <1>3, <1>4 DEF Graph

(* A node that settles disturbs neither its children nor its parent.       *)
LEMMA CalmsOrder ==
  ASSUME TypeOK, Graph, Order, Calms
  PROVE  QueueIsPending' /\ WaitingShape' /\ ParentsFirst'
<1> UNCHANGED <<root, status, replyTo, active, claim, admissions>>
  BY DEF Calms
<1>1. QueueIsPending'
  BY DEF Calms, Order, QueueIsPending, ActiveOn, Runnable
<1>2. WaitingShape'
  BY DEF Calms, Order, WaitingShape, Runnable, TypeOK
<1>3. ParentsFirst'
  <2> SUFFICES ASSUME NEW t \in Trees, NEW n \in (Live(t) \ {root[t]})
               PROVE  LET p == replyTo[t][n][1] IN
                      /\ state'[t][n] = "in_progress" => state'[t][p] \notin Runnable
                      /\ place'[t][n] # 0 /\ place'[t][p] # 0 => place'[t][p] < place'[t][n]
    BY CalmsLive DEF ParentsFirst
  <2> DEFINE p == replyTo[t][n][1]
  <2>1. n \in Nodes /\ p \in Nodes
    BY RefParts DEF Graph, ParentsLive, LiveRefs, Live
  <2>2. /\ state[t][n] = "in_progress" => state[t][p] \notin Runnable
        /\ place[t][n] # 0 /\ place[t][p] # 0 => place[t][p] < place[t][n]
    BY DEF Order, ParentsFirst
  <2> QED
    BY <2>1, <2>2 DEF Calms, Runnable
<1> QED
  BY <1>1, <1>2, <1>3

(* What runs is still published.                                           *)
LEMMA SettlesOrder == ASSUME TypeOK, Graph, Order, Settles PROVE Order'
<1>1. RunnableIsPublished'
  BY DEF Settles, Calms, Order, RunnableIsPublished
<1> QED
  BY <1>1, CalmsOrder DEF Settles, Order

(* What a claim of the tree that granted it is.                            *)
LEMMA GrantedClaim ==
  ASSUME TypeOK, OneTaskPerTree, NoStrandedClaim, NEW t \in Trees, active[t] # NONE
  PROVE  /\ active[t] \in Claims /\ claim[active[t]] \in ClaimRecord
         /\ claim[active[t]].tree = t /\ claim[active[t]].node \in Nodes
  BY DEF TypeOK, OneTaskPerTree, NoStrandedClaim, ClaimRecord

(* Settling keeps what is known of the claims, if the marks agree.         *)
LEMMA CalmsShape ==
  ASSUME Agreement, Calms,
         cancelled \subseteq cancelled', tombstoned \subseteq tombstoned',
         cancelled' \subseteq tombstoned',
         \A c \in tombstoned' \cup reported' : claim[c] # NONE,
         \A t \in Trees : active[t] # NONE =>
           /\ task'[active[t]] \in LiveTasks
           /\ active[t] \in tombstoned' => active[t] \in cancelled'
           /\ active[t] \in reported' \/ task'[active[t]] \in {"finishing", "unentered"} =>
                state'[t][claim[active[t]].node] # "in_progress"
  PROVE  NoStrandedClaim' /\ ClaimShape'
<1>1. UNCHANGED <<root, status, active, claim>>
  BY DEF Calms
<1>2. NoStrandedClaim'
  BY <1>1 DEF Agreement, NoStrandedClaim
<1>3. ASSUME NEW t \in Trees, active[t] # NONE
      PROVE  LET c == active[t]
                 n == claim[c].node IN
             /\ root[t] # NONE
             /\ n \notin status[t] => c \in cancelled'
             /\ c \notin tombstoned' => state'[t][n] \notin {"absent", "pending"}
  <2> DEFINE c == active[t]
             n == claim[c].node
  <2>1. n \in Nodes
    BY <1>3, GrantedClaim DEF Agreement
  <2>2. /\ root[t] # NONE
        /\ n \notin status[t] => c \in cancelled
        /\ c \notin tombstoned => state[t][n] \notin {"absent", "pending"}
    BY <1>3 DEF Agreement, ClaimShape
  <2> HIDE DEF c, n
  <2>3. c \notin tombstoned' => state'[t][n] \notin {"absent", "pending"}
    BY <2>1, <2>2 DEF Calms, Runnable
  <2> QED
    BY <2>2, <2>3 DEF c, n
<1>4. ClaimShape'
  BY <1>1, <1>3 DEF ClaimShape
<1> QED
  BY <1>2, <1>4

-----------------------------------------------------------------------------
(* Which steps settle nodes.                                               *)

(* A step that touches neither nodes nor claims settles none.              *)
LEMMA QuietSettles ==
  ASSUME Order,
         UNCHANGED <<trees, index, root, state, status, replyTo, place, active, claim, admissions,
                     tombstoned>>
  PROVE  Settles
  BY DEF Order, QueueIsPending, Settles, Calms

(* Failing or completing a claim does: it is the granted claim of its tree.*)
LEMMA CurrentClaim ==
  ASSUME Agreement, NEW c \in Claims, Current(TreeOfClaim(c), c), task[c] \in LiveTasks
  PROVE  /\ TreeOfClaim(c) \in Trees /\ claim[c].tree = TreeOfClaim(c)
         /\ claim[c].node \in Nodes
<1> DEFINE u == claim[c].tree
<1>1. claim[c] \in ClaimRecord /\ active[u] = c
  BY DEF Agreement, OneTaskPerTree, TypeOK
<1>2. u \in Trees /\ c # NONE
  BY <1>1, TreesAssumption DEF ClaimRecord
<1>3. root[u] \in Nodes
  BY <1>1, <1>2 DEF Agreement, ClaimShape, TypeOK
<1>4. TreeOfClaim(c) \in Trees
  BY <1>3 DEF TreeOfClaim, Current, Agreement, TypeOK
<1>5. claim[active[TreeOfClaim(c)]].tree = TreeOfClaim(c)
  BY <1>2, <1>4, GrantedClaim DEF Current, Agreement
<1> QED
  BY <1>1, <1>4, <1>5 DEF Current, ClaimRecord

(* Failing a claim settles its node and waiting descendants.               *)
LEMMA FailSettles ==
  ASSUME Agreement, NEW c \in Claims, NEW propagate \in BOOLEAN, task[c] \in LiveTasks,
         FailEffect(c, propagate),
         UNCHANGED <<trees, index, root, status, replyTo, active, claim, admissions, tombstoned>>
  PROVE  Settles
<1> DEFINE t == TreeOfClaim(c)
           n == claim[c].node
           hit == IF propagate
                  THEN {m \in Descendants(t, n) \ {n} : state[t][m] = "pending"}
                  ELSE {}
<1>1. CASE Current(t, c) /\ state[t][n] \notin {"absent", "completed"}
  <2>1. /\ state' = [state EXCEPT ![t] = Errored(t, hit \cup {n})]
        /\ place' = [place EXCEPT ![t] = Unqueued(t, hit)]
    BY <1>1 DEF FailEffect
  <2>2. t \in Trees /\ n \in Nodes /\ state[t][n] # "pending"
    BY <1>1, CurrentClaim, TreesAssumption DEF Current, Agreement, ClaimShape
  <2>3. \A u \in Trees, m \in Nodes :
          /\ state'[u][m] = IF u = t THEN Errored(t, hit \cup {n})[m] ELSE state[u][m]
          /\ place'[u][m] = IF u = t THEN Unqueued(t, hit)[m] ELSE place[u][m]
    BY <2>1 DEF Agreement, TypeOK
  <2>4. \A m \in hit : state[t][m] = "pending"
    OBVIOUS
  <2> HIDE DEF hit, t, n
  <2> QED
    BY <2>2, <2>3, <2>4 DEF Settles, Calms, Errored, Unqueued, Runnable, Agreement, Order, QueueIsPending
<1>2. CASE ~(Current(t, c) /\ state[t][n] \notin {"absent", "completed"})
  BY <1>2, QuietSettles DEF FailEffect, Agreement
<1> QED
  BY <1>1, <1>2

(* Every step of a task but the last one does.                             *)
LEMMA TaskSettles ==
  ASSUME Agreement, NEW c \in Claims, TaskStep(c), ~FinishClaim(c)
  PROVE  Settles
<1>1. CASE TaskStarts(c) \/ AnnouncementEnds(c) \/ RunnerReturns(c) \/ RunnerRaises(c)
  BY <1>1, QuietSettles DEF TaskStarts, AnnouncementEnds, RunnerReturns, RunnerRaises, taskOnly, Agreement
<1>2. CASE RecordSession(c)
  BY <1>2, QuietSettles DEF RecordSession, graphVars, taskVars, Agreement
<1>3. CASE CompleteClaim(c)
  <2> DEFINE t == TreeOfClaim(c)
             n == claim[c].node
  <2>1. CASE Current(t, c) /\ state[t][n] \in {"in_progress", "error"}
    <3>1. state' = [state EXCEPT ![t][n] = "completed"]
      BY <1>3, <2>1 DEF CompleteClaim
    <3>2. t \in Trees /\ n \in Nodes
      BY <1>3, <2>1, CurrentClaim DEF CompleteClaim, LiveTasks, TaskStates
    <3>3. \A u \in Trees, m \in Nodes :
            state'[u][m] = IF u = t /\ m = n THEN "completed" ELSE state[u][m]
      BY <3>1, <3>2 DEF Agreement, TypeOK
    <3>4. UNCHANGED <<trees, index, root, status, replyTo, place, active, claim, admissions, tombstoned>>
      BY <1>3 DEF CompleteClaim, graphVars
    <3> HIDE DEF t, n
    <3> QED
      BY <2>1, <3>2, <3>3, <3>4 DEF Settles, Calms, Runnable, Agreement, Order, QueueIsPending
  <2>2. CASE ~(Current(t, c) /\ state[t][n] \in {"in_progress", "error"})
    BY <1>3, <2>2, QuietSettles DEF CompleteClaim, graphVars, Agreement
  <2> QED
    BY <2>1, <2>2
<1>4. CASE FailClaim(c)
  BY <1>4, FailSettles DEF FailClaim, graphVars, LiveTasks, TaskStates
<1>5. CASE FailureCallback(c)
  BY <1>5, FailSettles DEF FailureCallback, graphVars, LiveTasks, TaskStates
<1> QED
  BY <1>1, <1>2, <1>3, <1>4, <1>5 DEF TaskStep

(* So do a stop of one prompt, a sweep, and a removal that raises.         *)
LEMMA CancelNodeSettles ==
  ASSUME Agreement, NEW n \in Nodes, CancelNode(n)
  PROVE  Settles
<1> DEFINE t == TreeFor(Prompt(n))
<1>1. t \in Trees
  BY TreeForType, RefTypes DEF CancelNode, Agreement
<1>2. \A u \in Trees, m \in Nodes :
        /\ state'[u][m] = IF u = t THEN Errored(t, {n})[m] ELSE state[u][m]
        /\ place'[u][m] = IF u = t THEN Unqueued(t, {n})[m] ELSE place[u][m]
  BY <1>1 DEF CancelNode, Agreement, TypeOK
<1>3. tombstoned' \subseteq tombstoned \cup (IF ActiveOn(t, n) THEN {active[t]} ELSE {})
  BY DEF CancelNode
<1>4. \A u \in Trees : active[u] # NONE /\ active[u] = active[t] => u = t
  BY <1>1 DEF Agreement, NoStrandedClaim
<1>5. \A u \in Trees, m \in Nodes : state[u][m] = "in_progress" => ActiveOn(u, m) /\ active[u] \notin tombstoned
  BY DEF Agreement, Order, QueueIsPending
<1> HIDE DEF t
<1>6. \A u \in Trees, m \in Nodes : state'[u][m] = "in_progress" => active[u] \notin tombstoned'
  BY <1>1, <1>2, <1>3, <1>4, <1>5 DEF ActiveOn, Errored, Runnable
<1>7. UNCHANGED <<trees, index, root, status, replyTo, active, claim, admissions>>
  BY DEF CancelNode, graphVars
<1> QED
  BY <1>1, <1>2, <1>6, <1>7 DEF Settles, Calms, Errored, Unqueued, Runnable, Agreement, Order, QueueIsPending

(* A tree whose granted claim has failed runs nothing.                     *)
LEMMA UnaddressableIdle ==
  ASSUME Agreement, NEW t \in Trees, Unaddressable(t)
  PROVE  /\ \A n \in Nodes : state[t][n] # "in_progress"
         /\ active[t] \in cancelled /\ active[t] \in tombstoned
  BY DEF Agreement, Order, QueueIsPending, Unaddressable, ActiveOn, ClaimShape

(* A sweep settles the nodes of its trees: one that is marked and not      *)
(* swept has nothing in progress.                                          *)
LEMMA SweepNodes ==
  ASSUME Agreement, NEW P \in SUBSET Trees, Sweep(P), NEW t \in Trees, NEW n \in Nodes
  PROVE  /\ state'[t][n] = "absent" <=> state[t][n] = "absent"
         /\ state'[t][n] \in Runnable => state'[t][n] = state[t][n] /\ t \notin Swept(P)
         /\ place'[t][n] = IF state'[t][n] = "pending" THEN place[t][n] ELSE 0
         /\ state'[t][n] = "in_progress" => active[t] \notin tombstoned'
<1>1. /\ state'[t][n] = IF t \in Swept(P) THEN Errored(t, Nodes)[n] ELSE state[t][n]
      /\ place'[t][n] = IF t \in Swept(P) THEN Unqueued(t, Nodes)[n] ELSE place[t][n]
  BY DEF Sweep
<1>2. /\ place[t][n] # 0 <=> state[t][n] = "pending"
      /\ state[t][n] = "in_progress" => active[t] # NONE /\ active[t] \notin tombstoned
  BY DEF Agreement, Order, QueueIsPending, ActiveOn
<1>3. ASSUME state'[t][n] = "in_progress" PROVE active[t] \notin tombstoned'
  <2>1. t \notin Swept(P) /\ state[t][n] = "in_progress"
    BY <1>1, <1>3 DEF Errored, Runnable
  <2>2. ~Unaddressable(t)
    BY <2>1, UnaddressableIdle
  <2>3. \A u \in Reached(P) : active[u] # active[t]
    <3> SUFFICES ASSUME NEW u \in Reached(P), active[u] = active[t] PROVE FALSE
      OBVIOUS
    <3>1. u \in Trees /\ u = t
      BY <1>2, <2>1 DEF Reached, Agreement, NoStrandedClaim
    <3> QED
      BY <2>1, <2>2, <3>1 DEF Swept
  <2> QED
    BY <1>2, <2>1, <2>3 DEF Sweep
<1> QED
  BY <1>1, <1>2, <1>3 DEF Errored, Unqueued, Runnable

(* A global stop settles nodes.                                            *)
LEMMA CancelAllSettles == ASSUME Agreement, CancelAll PROVE Settles
<1>1. Published \in SUBSET Trees
  BY PublishedTrees DEF Agreement
<1> QED
  BY <1>1, SweepNodes DEF CancelAll, Sweep, Settles, Calms

(* So does a removal that raises half-way.                                 *)
LEMMA RaisesSettles ==
  ASSUME Agreement, NEW r \in Refs, RemoveSubtreeRaises(r)
  PROVE  Settles
<1> DEFINE t == TreeFor(r)
<1>1. t \in Trees
  BY TreeForType DEF RemoveSubtreeRaises, Agreement
<1>2. PICK S : /\ state' = [state EXCEPT ![t] = Errored(t, S)]
               /\ place' = [place EXCEPT ![t] = Unqueued(t, S)]
  BY DEF RemoveSubtreeRaises
<1>3. \A u \in Trees, m \in Nodes :
        /\ state'[u][m] = IF u = t THEN Errored(t, S)[m] ELSE state[u][m]
        /\ place'[u][m] = IF u = t THEN Unqueued(t, S)[m] ELSE place[u][m]
  BY <1>1, <1>2 DEF Agreement, TypeOK
<1>4. tombstoned' = tombstoned
  BY <1>1, UnaddressableIdle DEF RemoveSubtreeRaises
<1>5. UNCHANGED <<trees, index, root, status, replyTo, active, claim, admissions>>
  BY DEF RemoveSubtreeRaises, graphVars
<1> HIDE DEF t
<1> QED
  BY <1>1, <1>3, <1>4, <1>5
     DEF Settles, Calms, Errored, Unqueued, Runnable, Agreement, Order, QueueIsPending

-----------------------------------------------------------------------------
(* Arrivals.                                                               *)

(* What IndexIsExact says of each message of a prompt.                     *)
IndexPoints ==
  /\ \A i \in Nodes : trees[i] # NONE => root[trees[i]] = i /\ i \in Live(trees[i])
  /\ \A n \in Nodes : index[Prompt(n)] # NONE =>
       trees[index[Prompt(n)]] # NONE /\ n \in Live(trees[index[Prompt(n)]])
  /\ \A n \in Nodes : index[Status(n)] # NONE =>
       trees[index[Status(n)]] # NONE /\ n \in status[trees[index[Status(n)]]]
  /\ \A i \in Nodes : trees[i] # NONE =>
       /\ \A n \in Nodes : n \in Live(trees[i]) => index[Prompt(n)] = i
       /\ \A n \in Nodes : n \in status[trees[i]] => index[Status(n)] = i

(* It is the same.                                                         *)
LEMMA IndexExpanded ==
  ASSUME IndexIsExact, NodeShape, TypeOK
  PROVE  IndexPoints
<1>1. \A n \in Nodes : Prompt(n) \in Refs /\ Status(n) \in Refs
  BY RefTypes
<1>3. \A i \in Nodes : trees[i] # NONE => trees[i] \in Trees
  BY DEF TypeOK
<1>4. \A i \in Nodes : trees[i] # NONE => root[trees[i]] = i /\ i \in Live(trees[i])
  BY DEF IndexIsExact
<1>5. ASSUME NEW r \in Refs, index[r] # NONE
      PROVE  trees[index[r]] \in Trees /\ r \in LiveRefs(trees[index[r]]) /\ trees[index[r]] # NONE
  <2>1. index[r] \in Nodes
    BY <1>5 DEF TypeOK
  <2> QED
    BY <1>3, <1>5, <2>1 DEF IndexIsExact
<1>6. \A i \in Nodes : trees[i] # NONE => \A r \in LiveRefs(trees[i]) : index[r] = i
  BY DEF IndexIsExact
<1>7. ASSUME NEW n \in Nodes, index[Prompt(n)] # NONE
      PROVE  trees[index[Prompt(n)]] # NONE /\ n \in Live(trees[index[Prompt(n)]])
  BY <1>1, <1>5, <1>7, LiveRefFacts
<1>8. ASSUME NEW n \in Nodes, index[Status(n)] # NONE
      PROVE  trees[index[Status(n)]] # NONE /\ n \in status[trees[index[Status(n)]]]
  BY <1>1, <1>5, <1>8, LiveRefFacts
<1>9. ASSUME NEW i \in Nodes, trees[i] # NONE, NEW n \in Nodes
      PROVE  /\ n \in Live(trees[i]) => index[Prompt(n)] = i
             /\ n \in status[trees[i]] => index[Status(n)] = i
  BY <1>6, <1>9, LiveRefFacts
<1> QED
  BY <1>4, <1>7, <1>8, <1>9 DEF IndexPoints

(* Nor is there more to show of it after a step.                           *)
LEMMA IndexCollected ==
  ASSUME TypeOK', IndexPoints'
  PROVE  IndexIsExact'
<1>1. \A r \in Refs : r[1] \in Nodes /\ (r = Prompt(r[1]) \/ r = Status(r[1]))
  BY RefCases
<1>3. \A i \in Nodes : trees'[i] # NONE => trees'[i] \in Trees
  BY DEF TypeOK
<1>4. \A r \in Refs : index'[r] # NONE => index'[r] \in Nodes
  BY DEF TypeOK
<1>5. ASSUME NEW r \in Refs, index'[r] # NONE
      PROVE  trees'[index'[r]] # NONE /\ r \in LiveRefs(trees[index[r]])'
  <2>1. CASE r = Prompt(r[1])
    <3>1. trees'[index'[r]] # NONE /\ r[1] \in Live(trees[index[r]])'
      BY <1>1, <1>5, <2>1 DEF IndexPoints
    <3>2. trees'[index'[r]] \in Trees
      BY <1>3, <1>4, <1>5, <3>1
    <3> QED
      BY <1>1, <2>1, <3>1, <3>2, LiveRefFactsNext
  <2>2. CASE r = Status(r[1])
    <3>1. trees'[index'[r]] # NONE /\ r[1] \in status'[trees'[index'[r]]]
      BY <1>1, <1>5, <2>2 DEF IndexPoints
    <3>2. trees'[index'[r]] \in Trees
      BY <1>3, <1>4, <1>5, <3>1
    <3> QED
      BY <1>1, <2>2, <3>1, <3>2, LiveRefFactsNext
  <2> QED
    BY <1>1, <2>1, <2>2
<1>6. ASSUME NEW i \in Nodes, trees'[i] # NONE, NEW r \in LiveRefs(trees[i])'
      PROVE  index'[r] = i
  <2>1. r \in Refs /\ trees'[i] \in Trees
    BY <1>3, <1>6 DEF LiveRefs
  <2>2. r[1] \in Nodes
    BY <1>1, <2>1
  <2>3. CASE r = Prompt(r[1])
    <3>1. r[1] \in Live(trees[i])'
      BY <1>6, <2>1, <2>2, <2>3, LiveRefFactsNext
    <3> QED
      BY <1>6, <2>2, <2>3, <3>1 DEF IndexPoints
  <2>4. CASE r = Status(r[1])
    <3>1. r[1] \in status'[trees'[i]]
      BY <1>6, <2>1, <2>2, <2>4, LiveRefFactsNext
    <3> QED
      BY <1>6, <2>2, <2>4, <3>1 DEF IndexPoints
  <2> QED
    BY <1>1, <2>1, <2>3, <2>4
<1>7. \A i \in Nodes : trees'[i] # NONE => (root[trees[i]] = i /\ i \in Live(trees[i]))'
  BY DEF IndexPoints
<1> QED
  BY <1>5, <1>6, <1>7 DEF IndexIsExact

(* A message delivered again finds a granted claim, so nothing happens.    *)
LEMMA AgainIsQuiet ==
  ASSUME Agreement, NEW n \in Nodes, AdmitAgain(n)
  PROVE  UNCHANGED vars
<1> DEFINE t == TreeFor(Prompt(n))
<1>1. t \in Trees
  BY TreeForType, RefTypes DEF AdmitAgain, Agreement
<1>2. CASE state[t][n] = "pending"
  <2>1. active[t] # NONE /\ place[t][n] # 0
    BY <1>1, <1>2 DEF Agreement, Order, QueueIsPending
  <2>2. /\ place' = [place EXCEPT ![t][n] = IF @ = 0 THEN admissions + 1 ELSE @]
        /\ state' = [state EXCEPT ![t] = state[t]]
        /\ UNCHANGED <<active, claim, task>>
    BY <1>2, <2>1 DEF AdmitAgain, EnqueueOrClaim
  <2>3. place' = place /\ state' = state
    BY <1>1, <2>1, <2>2 DEF Agreement, TypeOK
  <2> QED
    BY <2>2, <2>3 DEF AdmitAgain, vars
<1>3. CASE state[t][n] # "pending"
  BY <1>3 DEF AdmitAgain, vars
<1> QED
  BY <1>2, <1>3

(* A prompt arrives in a tree that does not have it, and waits or runs.    *)
Arrives(t, n, reply) ==
  /\ n \notin Live(t)
  /\ EnqueueOrClaim(t, n, [state[t] EXCEPT ![n] = "pending"], reply, "admitted")
  /\ status' = [status EXCEPT ![t] = @ \cup {n}]
  /\ admissions' = admissions + 1
  /\ UNCHANGED <<session, tombstoned, cancelled, reported>>

(* What arrives waits if there is a granted claim, and is granted one      *)
(* otherwise.                                                              *)
LEMMA ArrivesNodes ==
  ASSUME TypeOK, Order, NEW t \in Trees, NEW n \in Nodes, NEW reply, Arrives(t, n, reply),
         NEW u \in Trees, NEW m \in Nodes
  PROVE  /\ state'[u][m] = IF u = t /\ m = n
                           THEN IF active[t] = NONE THEN "in_progress" ELSE "pending"
                           ELSE state[u][m]
         /\ place'[u][m] = IF u = t /\ m = n /\ active[t] # NONE THEN admissions + 1 ELSE place[u][m]
         /\ m \in status'[u] <=> m \in status[u] \/ (u = t /\ m = n)
<1>1. place[t][n] = 0 /\ state[t][n] = "absent"
  BY DEF Arrives, Live, Order, QueueIsPending
<1>2. m \in status'[u] <=> m \in status[u] \/ (u = t /\ m = n)
  BY DEF Arrives, TypeOK
<1>3. CASE active[t] = NONE
  BY <1>2, <1>3 DEF Arrives, EnqueueOrClaim, Grant, TypeOK
<1>4. CASE active[t] # NONE
  BY <1>1, <1>2, <1>4 DEF Arrives, EnqueueOrClaim, TypeOK
<1> QED
  BY <1>3, <1>4

(* The claim that it is granted is a new one.                              *)
LEMMA ArrivesClaim ==
  ASSUME TypeOK, NEW t \in Trees, NEW n \in Nodes, NEW reply \in Refs \cup {NONE},
         Arrives(t, n, reply)
  PROVE  /\ active[t] # NONE => UNCHANGED <<active, claim, task>>
         /\ active[t] = NONE =>
              \E k \in Claims :
                /\ k # NONE /\ claim[k] = NONE
                /\ active' = [active EXCEPT ![t] = k]
                /\ claim' = [claim EXCEPT ![k] =
                     [tree |-> t, node |-> n, resumed |-> ParentSession(t, reply, session[t])]]
                /\ task' = [task EXCEPT ![k] = "admitted"]
                /\ claim'[k] # NONE /\ claim'[k].tree = t /\ claim'[k].node = n
<1>1. CASE active[t] # NONE
  BY <1>1 DEF Arrives, EnqueueOrClaim
<1>2. CASE active[t] = NONE
  <2>1. PICK k \in Claims : Grant(t, n, k, [state[t] EXCEPT ![n] = "pending"], reply, "admitted")
    BY <1>2 DEF Arrives, EnqueueOrClaim
  <2> DEFINE record == [tree |-> t, node |-> n, resumed |-> ParentSession(t, reply, session[t])]
  <2>2. record \in ClaimRecord /\ record # NONE /\ k # NONE
    BY ParentSessionType, TreesAssumption DEF ClaimRecord
  <2>3. /\ claim[k] = NONE /\ active' = [active EXCEPT ![t] = k]
        /\ claim' = [claim EXCEPT ![k] = record] /\ task' = [task EXCEPT ![k] = "admitted"]
    BY <2>1 DEF Grant, Fresh
  <2>4. claim'[k] = record
    BY <2>3 DEF TypeOK
  <2>5. claim'[k] # NONE /\ claim'[k].tree = t /\ claim'[k].node = n
    BY <2>2, <2>4
  <2> HIDE DEF record
  <2> QED
    BY <1>2, <2>2, <2>3, <2>5 DEF record
<1> QED
  BY <1>1, <1>2

(* The queue after an arrival.                                             *)
LEMMA ArrivesQueue ==
  ASSUME Agreement, NEW t \in Trees, NEW n \in Nodes, NEW reply \in Refs \cup {NONE},
         Arrives(t, n, reply)
  PROVE  QueueIsPending' /\ WaitingShape'
<1>0. ASSUME NEW u \in Trees, NEW m \in Nodes, NEW o \in Nodes,
             place'[u][m] # 0, place'[u][o] = place'[u][m]
      PROVE  o = m
  <2>1. admissions \in Nat /\ place[u][m] \in Nat /\ place[u][o] \in Nat
    BY DEF Agreement, TypeOK
  <2>2. /\ place[u][m] <= admissions /\ place[u][o] <= admissions
        /\ place[u][m] # 0 /\ place[u][o] = place[u][m] => o = m
    BY DEF Agreement, Order, WaitingShape
  <2>3. /\ place'[u][m] = IF u = t /\ m = n /\ active[t] # NONE THEN admissions + 1 ELSE place[u][m]
        /\ place'[u][o] = IF u = t /\ o = n /\ active[t] # NONE THEN admissions + 1 ELSE place[u][o]
    BY ArrivesNodes DEF Agreement
  <2> QED
    BY <1>0, <2>1, <2>2, <2>3
<1>1. ASSUME NEW u \in Trees, NEW m \in Nodes
      PROVE  /\ state'[u][m] = "pending" => m \in status'[u]
             /\ place'[u][m] <= admissions'
             /\ place'[u][m] # 0 <=> state'[u][m] = "pending"
  <2>1. admissions \in Nat /\ admissions' = admissions + 1 /\ place[u][m] \in Nat
    BY DEF Agreement, TypeOK, Arrives
  <2>2. /\ state[u][m] = "pending" => m \in status[u]
        /\ place[u][m] <= admissions
        /\ place[u][m] # 0 <=> state[u][m] = "pending"
        /\ place[u][m] # 0 => active[u] # NONE
    BY DEF Agreement, Order, WaitingShape, QueueIsPending
  <2>3. u = t /\ m = n => place[u][m] = 0
    BY DEF Agreement, Order, QueueIsPending, Arrives, Live
  <2> QED
    BY <2>1, <2>2, <2>3, ArrivesNodes DEF Agreement
<1>2. CASE active[t] # NONE
  <2>1. UNCHANGED <<active, claim, tombstoned>>
    BY <1>2, ArrivesClaim DEF Agreement, Arrives
  <2>2. ASSUME NEW u \in Trees, NEW m \in Nodes
        PROVE  /\ place'[u][m] # 0 => active[u] # NONE
               /\ state'[u][m] = "in_progress" => ActiveOn(u, m) /\ active[u] \notin tombstoned
    BY <1>2, ArrivesNodes DEF Agreement, Order, QueueIsPending
  <2> QED
    BY <1>0, <1>1, <2>1, <2>2 DEF QueueIsPending, WaitingShape, ActiveOn
<1>3. CASE active[t] = NONE
  <2>1. PICK k \in Claims :
          /\ k # NONE /\ claim[k] = NONE
          /\ active' = [active EXCEPT ![t] = k]
          /\ claim'[k].node = n
          /\ \A c \in Claims \ {k} : claim'[c] = claim[c]
    BY <1>3, ArrivesClaim DEF Agreement, TypeOK
  <2>2. k \notin tombstoned /\ tombstoned' = tombstoned
    BY <2>1 DEF Agreement, ClaimShape, Arrives
  <2>3. \A u \in Trees : active'[u] = IF u = t THEN k ELSE active[u]
    BY <2>1 DEF Agreement, TypeOK
  <2>4. \A u \in Trees \ {t} : active[u] # NONE => active[u] \in Claims \ {k}
    BY <2>1, GrantedClaim, TreesAssumption DEF Agreement
  <2>5. ASSUME NEW u \in Trees, NEW m \in Nodes
        PROVE  /\ place'[u][m] # 0 => active'[u] # NONE
               /\ state'[u][m] = "in_progress" => ActiveOn(u, m)' /\ active'[u] \notin tombstoned'
    <3>1. CASE u = t
      BY <1>3, <2>1, <2>2, <2>3, <3>1, ArrivesNodes DEF Agreement, Order, QueueIsPending, ActiveOn
    <3>2. CASE u # t
      BY <2>1, <2>2, <2>3, <2>4, <3>2, ArrivesNodes DEF Agreement, Order, QueueIsPending, ActiveOn
    <3> QED
      BY <3>1, <3>2
  <2> QED
    BY <1>0, <1>1, <2>5 DEF QueueIsPending, WaitingShape
<1> QED
  BY <1>2, <1>3

(* The nodes, statuses and messages that a tree has after an arrival.      *)
LEMMA ArrivesLive ==
  ASSUME TypeOK, Order, NodeShape, NEW t \in Trees, NEW n \in Nodes, NEW reply,
         Arrives(t, n, reply), NEW u \in Trees
  PROVE  /\ Live(u)' = Live(u) \cup (IF u = t THEN {n} ELSE {})
         /\ (status[u])' = status[u] \cup (IF u = t THEN {n} ELSE {})
         /\ LiveRefs(u) \subseteq LiveRefs(u)'
         /\ u # t => LiveRefs(u)' = LiveRefs(u)
         /\ n \notin status[t]
<1>1. Live(u)' = Live(u) \cup (IF u = t THEN {n} ELSE {})
  BY ArrivesNodes DEF Live
<1>2. (status[u])' = status[u] \cup (IF u = t THEN {n} ELSE {})
  BY DEF Arrives, TypeOK
<1>3. n \notin status[t]
  BY DEF Arrives, NodeShape
<1> QED
  BY <1>1, <1>2, <1>3 DEF LiveRefs

(* Both messages of what arrives are indexed under the same identity.      *)
LEMMA IndexGrows ==
  ASSUME TypeOK, NEW n \in Nodes, NEW i \in Nodes,
         index' = [index EXCEPT ![Prompt(n)] = i, ![Status(n)] = i]
  PROVE  \A m \in Nodes : /\ index'[Prompt(m)] = IF m = n THEN i ELSE index[Prompt(m)]
                          /\ index'[Status(m)] = IF m = n THEN i ELSE index[Status(m)]
  BY RefFacts, RefTypes DEF TypeOK

(* A prompt that is not indexed is in no published tree.                   *)
LEMMA NotIndexed ==
  ASSUME IndexPoints, NEW n \in Nodes, index[Prompt(n)] = NONE, index[Status(n)] = NONE
  PROVE  /\ trees[n] = NONE
         /\ \A i \in Nodes : trees[i] # NONE => n \notin Live(trees[i]) /\ n \notin status[trees[i]]
  BY TreesAssumption DEF IndexPoints

(* A new conversation is an arrival in an empty tree.                      *)
LEMMA RootArrives ==
  ASSUME Agreement, NEW n \in Nodes, AdmitRoot(n)
  PROVE  \E t \in Trees :
           /\ root[t] = NONE /\ Live(t) = {}
           /\ Arrives(t, n, NONE)
           /\ root' = [root EXCEPT ![t] = n] /\ trees' = [trees EXCEPT ![n] = t]
           /\ index' = [index EXCEPT ![Prompt(n)] = n, ![Status(n)] = n]
           /\ replyTo' = replyTo
           /\ index[Prompt(n)] = NONE /\ index[Status(n)] = NONE
<1>1. PICK t \in Trees :
        /\ root[t] = NONE
        /\ EnqueueOrClaim(t, n, [state[t] EXCEPT ![n] = "pending"], NONE, "admitted")
        /\ root'    = [root EXCEPT ![t] = n]
        /\ status'  = [status EXCEPT ![t] = @ \cup {n}]
        /\ trees'   = [trees EXCEPT ![n] = t]
  BY DEF AdmitRoot
<1>2. Live(t) = {}
  BY <1>1 DEF Agreement, Graph, NodeShape
<1>3. Arrives(t, n, NONE)
  BY <1>1, <1>2 DEF AdmitRoot, Arrives
<1> QED
  BY <1>1, <1>2, <1>3 DEF AdmitRoot

(* A reply is an arrival in the published tree that holds its parent.      *)
LEMMA ReplyArrives ==
  ASSUME Agreement, NEW n \in Nodes, NEW r \in Refs, AdmitReply(n, r)
  PROVE  \E t \in Trees, i \in Nodes :
           /\ r \in LiveRefs(t)
           /\ trees[i] = t /\ root[t] = i
           /\ Arrives(t, n, r)
           /\ replyTo' = [replyTo EXCEPT ![t][n] = r]
           /\ index' = [index EXCEPT ![Prompt(n)] = i, ![Status(n)] = i]
           /\ UNCHANGED <<root, trees>>
           /\ index[Prompt(n)] = NONE /\ index[Status(n)] = NONE
<1> DEFINE t == TreeFor(r)
<1>1. t \in Trees /\ t # NONE
  BY TreeForType DEF AdmitReply, Agreement
<1>2. index[r] \in Nodes /\ trees[index[r]] = t
  BY <1>1 DEF TreeFor, Agreement, TypeOK
<1>3. IndexPoints
  BY IndexExpanded DEF Agreement, Graph
<1>4. root[t] = index[r]
  BY <1>1, <1>2, <1>3 DEF IndexPoints
<1>5. index[Prompt(n)] = NONE /\ index[Status(n)] = NONE
  BY DEF AdmitReply
<1>6. n \notin Live(t)
  BY <1>1, <1>2, <1>3, <1>5, NotIndexed
<1>7. Arrives(t, n, r)
  BY <1>6 DEF AdmitReply, Arrives
<1> QED
  BY <1>1, <1>2, <1>4, <1>5, <1>7 DEF AdmitReply

(* A new conversation keeps the graph.                                     *)
LEMMA RootGraph ==
  ASSUME Agreement, NEW n \in Nodes, AdmitRoot(n), TypeOK'
  PROVE  Graph' /\ RunnableIsPublished' /\ ParentsFirst'
<1>1. PICK t \in Trees :
           /\ root[t] = NONE /\ Live(t) = {}
           /\ Arrives(t, n, NONE)
           /\ root' = [root EXCEPT ![t] = n] /\ trees' = [trees EXCEPT ![n] = t]
           /\ index' = [index EXCEPT ![Prompt(n)] = n, ![Status(n)] = n]
           /\ replyTo' = replyTo
           /\ index[Prompt(n)] = NONE /\ index[Status(n)] = NONE
  BY RootArrives
<1>2. TypeOK /\ NodeShape /\ Order /\ IndexPoints
  BY IndexExpanded DEF Agreement, Graph
<1>3. \A u \in Trees : /\ Live(u)' = Live(u) \cup (IF u = t THEN {n} ELSE {})
                       /\ status'[u] = status[u] \cup (IF u = t THEN {n} ELSE {})
                       /\ u # t => LiveRefs(u)' = LiveRefs(u)
                       /\ root'[u] = IF u = t THEN n ELSE root[u]
  BY <1>1, <1>2, ArrivesLive DEF TypeOK
<1>4. /\ status[t] = {} /\ Live(t)' = {n} /\ status'[t] = {n} /\ root'[t] = n
      /\ \A m \in Nodes : replyTo[t][m] = NONE
  BY <1>1, <1>2, <1>3 DEF NodeShape
<1>5. trees[n] = NONE
  BY <1>1, <1>2, NotIndexed
<1>6. \A i \in Nodes : trees'[i] = IF i = n THEN t ELSE trees[i]
  BY <1>1, <1>2 DEF TypeOK
<1>7. \A m \in Nodes : /\ index'[Prompt(m)] = IF m = n THEN n ELSE index[Prompt(m)]
                       /\ index'[Status(m)] = IF m = n THEN n ELSE index[Status(m)]
  <2>1. index' = [index EXCEPT ![Prompt(n)] = n, ![Status(n)] = n]
    BY <1>1
  <2>2. TypeOK
    BY <1>2
  <2> QED
    BY <2>1, <2>2, IndexGrows
<1>8. t # NONE /\ n # NONE
  BY TreesAssumption
<1>9. NodeShape'
  BY <1>1, <1>2, <1>3, <1>4, <1>8 DEF NodeShape
<1>10. Rooted'
  <2> SUFFICES ASSUME NEW u \in Trees, NEW C \in SUBSET Nodes, root'[u] \in C, ClosedIn(u, C)'
               PROVE  Live(u)' \subseteq C
    BY DEF Rooted
  <2>1. CASE u = t
    BY <1>4, <2>1
  <2>2. CASE u # t
    <3>1. root[u] \in C /\ ClosedIn(u, C)
      BY <1>1, <1>3, <2>2 DEF ClosedIn, Leads
    <3> QED
      BY <1>3, <2>2, <3>1 DEF Agreement, Graph, Rooted
  <2> QED
    BY <2>1, <2>2
<1>11. IndexPoints'
  <2>1. \A i \in Nodes : trees[i] # NONE => trees[i] \in Trees /\ trees[i] # t
    BY <1>1, <1>2, <1>8, TreesAssumption DEF IndexPoints, TypeOK
  <2>2. \A m \in Nodes : /\ index[Prompt(m)] # NONE => index[Prompt(m)] \in Nodes /\ index[Prompt(m)] # n
                         /\ index[Status(m)] # NONE => index[Status(m)] \in Nodes /\ index[Status(m)] # n
    BY <1>2, <1>5, RefTypes DEF IndexPoints, TypeOK
  <2>3. ASSUME NEW i \in Nodes, trees'[i] # NONE
        PROVE  /\ root'[trees'[i]] = i /\ i \in Live(trees[i])'
               /\ \A m \in Nodes : m \in Live(trees[i])' => index'[Prompt(m)] = i
               /\ \A m \in Nodes : m \in status'[trees'[i]] => index'[Status(m)] = i
    <3>1. CASE i = n
      <4>1. trees'[i] = t
        BY <1>6, <3>1
      <4> QED
        BY <1>3, <1>4, <1>7, <3>1, <4>1
    <3>2. CASE i # n
      <4>1. trees'[i] = trees[i] /\ trees[i] \in Trees /\ trees[i] # t /\ trees[i] # NONE
        BY <1>6, <2>1, <2>3, <3>2
      <4>2. /\ \A m \in Nodes : m \in Live(trees[i])' <=> m \in Live(trees[i])
            /\ status'[trees[i]] = status[trees[i]] /\ root'[trees[i]] = root[trees[i]]
        <5> DEFINE v == trees[i]
        <5>1. v \in Trees /\ v # t /\ trees'[i] = v
          BY <4>1
        <5>2. \A m \in Nodes : state'[v][m] # "absent" <=> state[v][m] # "absent"
          BY <1>1, <1>2, <5>1, ArrivesNodes
        <5>3. status'[v] = status[v] /\ root'[v] = root[v]
          BY <1>3, <5>1
        <5> QED
          BY <5>1, <5>2, <5>3 DEF Live
      <4>3. \A m \in Nodes : (m \in Live(trees[i]) => m # n) /\ (m \in status[trees[i]] => m # n)
        BY <1>1, <1>2, <4>1, NotIndexed
      <4> QED
        BY <1>2, <1>7, <4>1, <4>2, <4>3 DEF IndexPoints
    <3> QED
      BY <3>1, <3>2
  <2>4. ASSUME NEW m \in Nodes, index'[Prompt(m)] # NONE
        PROVE  trees'[index'[Prompt(m)]] # NONE /\ m \in Live(trees[index[Prompt(m)]])'
    <3>1. CASE m = n
      <4>1. index'[Prompt(m)] = n /\ trees'[n] = t
        BY <1>6, <1>7, <3>1
      <4> QED
        BY <1>4, <1>8, <3>1, <4>1 DEF Live
    <3>2. CASE m # n
      <4> DEFINE i == index[Prompt(m)]
      <4>1. index'[Prompt(m)] = i /\ i # NONE /\ i \in Nodes /\ i # n
        BY <1>7, <2>2, <2>4, <3>2
      <4>2. trees'[i] = trees[i] /\ trees[i] # NONE /\ m \in Live(trees[i]) /\ trees[i] \in Trees
        BY <1>2, <1>6, <2>1, <4>1 DEF IndexPoints
      <4> QED
        BY <1>3, <4>1, <4>2 DEF Live
    <3> QED
      BY <3>1, <3>2
  <2>5. ASSUME NEW m \in Nodes, index'[Status(m)] # NONE
        PROVE  trees'[index'[Status(m)]] # NONE /\ m \in status'[trees'[index'[Status(m)]]]
    <3>1. CASE m = n
      <4>1. index'[Status(m)] = n /\ trees'[n] = t
        BY <1>6, <1>7, <3>1
      <4> QED
        BY <1>4, <1>8, <3>1, <4>1
    <3>2. CASE m # n
      <4> DEFINE i == index[Status(m)]
      <4>1. index'[Status(m)] = i /\ i # NONE /\ i \in Nodes /\ i # n
        BY <1>7, <2>2, <2>5, <3>2
      <4>2. trees'[i] = trees[i] /\ trees[i] # NONE /\ m \in status[trees[i]] /\ trees[i] \in Trees
        BY <1>2, <1>6, <2>1, <4>1 DEF IndexPoints
      <4> QED
        BY <1>3, <4>1, <4>2
    <3> QED
      BY <3>1, <3>2
  <2> QED
    BY <2>3, <2>4, <2>5 DEF IndexPoints
<1>12. IndexIsExact'
  BY <1>11, IndexCollected
<1>13. ParentsLive'
  <2> SUFFICES ASSUME NEW u \in Trees, NEW m \in Live(u)' \ {root'[u]}
               PROVE  replyTo'[u][m] \in LiveRefs(u)'
    BY DEF ParentsLive
  <2>1. u # t
    BY <1>4
  <2> QED
    BY <1>1, <1>3, <2>1 DEF Agreement, Graph, ParentsLive
<1>14. RunnableIsPublished'
  <2> SUFFICES ASSUME NEW u \in Trees, NEW m \in Nodes, state'[u][m] \in Runnable
               PROVE  root'[u] # NONE /\ trees'[root'[u]] = u
    BY DEF RunnableIsPublished
  <2>1. CASE u = t
    BY <1>4, <1>6, <1>8, <2>1
  <2>2. CASE u # t
    <3>1. root[u] # NONE /\ trees[root[u]] = u
      BY <1>1, <1>2, <2>2, ArrivesNodes DEF Agreement, Order, RunnableIsPublished
    <3>2. root[u] # n /\ root[u] \in Nodes /\ u # NONE
      BY <1>2, <1>5, <3>1, TreesAssumption DEF TypeOK
    <3> QED
      BY <1>3, <1>6, <2>2, <3>1, <3>2
  <2> QED
    BY <2>1, <2>2
<1>15. ParentsFirst'
  <2> SUFFICES ASSUME NEW u \in Trees, NEW m \in Live(u)' \ {root'[u]}
               PROVE  LET p == replyTo'[u][m][1] IN
                      /\ state'[u][m] = "in_progress" => state'[u][p] \notin Runnable
                      /\ place'[u][m] # 0 /\ place'[u][p] # 0 => place'[u][p] < place'[u][m]
    BY DEF ParentsFirst
  <2> DEFINE p == replyTo[u][m][1]
  <2>1. u # t
    BY <1>4
  <2>2. m \in Live(u) \ {root[u]} /\ m \in Nodes
    BY <1>3, <2>1 DEF Live
  <2>3. replyTo[u][m] \in Refs /\ p \in Nodes
    BY <2>2, RefParts DEF Agreement, Graph, ParentsLive, LiveRefs
  <2>4. /\ state'[u][m] = state[u][m] /\ state'[u][p] = state[u][p]
        /\ place'[u][m] = place[u][m] /\ place'[u][p] = place[u][p]
    BY <1>1, <1>2, <2>1, <2>2, <2>3, ArrivesNodes
  <2> QED
    BY <1>1, <2>2, <2>4 DEF Agreement, Order, ParentsFirst
<1> QED
  BY <1>9, <1>10, <1>12, <1>13, <1>14, <1>15 DEF Graph

(* So does a reply.                                                        *)
LEMMA ReplyGraph ==
  ASSUME Agreement, NEW n \in Nodes, NEW r \in Refs, AdmitReply(n, r), TypeOK'
  PROVE  Graph' /\ RunnableIsPublished' /\ ParentsFirst'
<1>1. PICK t \in Trees, i0 \in Nodes :
           /\ r \in LiveRefs(t)
           /\ trees[i0] = t /\ root[t] = i0
           /\ Arrives(t, n, r)
           /\ replyTo' = [replyTo EXCEPT ![t][n] = r]
           /\ index' = [index EXCEPT ![Prompt(n)] = i0, ![Status(n)] = i0]
           /\ UNCHANGED <<root, trees>>
           /\ index[Prompt(n)] = NONE /\ index[Status(n)] = NONE
  BY ReplyArrives
<1>2. TypeOK /\ NodeShape /\ Order /\ IndexPoints
  BY IndexExpanded DEF Agreement, Graph
<1>3. \A u \in Trees : /\ Live(u)' = Live(u) \cup (IF u = t THEN {n} ELSE {})
                       /\ status'[u] = status[u] \cup (IF u = t THEN {n} ELSE {})
                       /\ u # t => LiveRefs(u)' = LiveRefs(u)
                       /\ LiveRefs(u) \subseteq LiveRefs(u)'
  BY <1>1, <1>2, ArrivesLive
<1>4. \A u \in Trees, m \in Nodes :
        replyTo'[u][m] = IF u = t /\ m = n THEN r ELSE replyTo[u][m]
  BY <1>1, <1>2 DEF TypeOK
<1>5. n \notin Live(t) /\ n \notin status[t]
  BY <1>1, <1>2 DEF Arrives, NodeShape
<1>6. i0 \in Live(t) /\ i0 # n
  BY <1>1, <1>2, <1>5, TreesAssumption DEF IndexPoints
<1>7. \A m \in Nodes : /\ index'[Prompt(m)] = IF m = n THEN i0 ELSE index[Prompt(m)]
                       /\ index'[Status(m)] = IF m = n THEN i0 ELSE index[Status(m)]
  <2>1. index' = [index EXCEPT ![Prompt(n)] = i0, ![Status(n)] = i0]
    BY <1>1
  <2>2. TypeOK
    BY <1>2
  <2> QED
    BY <2>1, <2>2, IndexGrows
<1>8. t # NONE /\ i0 # NONE
  BY <1>1, TreesAssumption
<1>9. r[1] \in Live(t) /\ r[1] # n /\ (r = Prompt(r[1]) \/ (r = Status(r[1]) /\ r[1] \in status[t]))
  <2>1. r[1] \in Nodes /\ (r = Prompt(r[1]) \/ r = Status(r[1]))
    BY RefCases
  <2>2. r = Prompt(r[1]) => r[1] \in Live(t)
    BY <1>1, <2>1, LiveRefFacts
  <2>3. r = Status(r[1]) => r[1] \in status[t]
    BY <1>1, <2>1, LiveRefFacts
  <2> QED
    BY <1>2, <1>5, <2>1, <2>2, <2>3 DEF NodeShape
<1>10. NodeShape'
  <2> SUFFICES ASSUME NEW u \in Trees
               PROVE  /\ root'[u] = NONE => Live(u)' = {}
                      /\ status'[u] \subseteq Live(u)'
                      /\ \A m \in Nodes : m \notin Live(u)' \/ m = root'[u] => replyTo'[u][m] = NONE
    BY DEF NodeShape
  <2>1. CASE u = t
    BY <1>1, <1>2, <1>3, <1>4, <1>6, <1>8, <2>1 DEF NodeShape
  <2>2. CASE u # t
    BY <1>1, <1>2, <1>3, <1>4, <2>2 DEF NodeShape
  <2> QED
    BY <2>1, <2>2
<1>11. Rooted'
  <2> SUFFICES ASSUME NEW u \in Trees, NEW C \in SUBSET Nodes, root'[u] \in C, ClosedIn(u, C)'
               PROVE  Live(u)' \subseteq C
    BY DEF Rooted
  <2>1. ASSUME NEW a \in C, NEW b \in Nodes \ C, Leads(u, a, b) PROVE FALSE
    <3>1. ~Leads(u, a, b)'
      BY DEF ClosedIn
    <3>2. replyTo[u][b] # replyTo'[u][b]
      BY <1>3, <2>1, <3>1 DEF Leads
    <3>3. u = t /\ b = n
      BY <1>4, <3>2
    <3>4. replyTo[u][b] = NONE
      BY <1>2, <1>5, <3>3 DEF NodeShape
    <3>5. a \in Nodes /\ Prompt(a) \in Refs /\ Status(a) \in Refs
      BY RefTypes
    <3> QED
      BY <2>1, <3>4, <3>5, NoneIsNoRef DEF Leads
  <2>2. Live(u) \subseteq C
    BY <1>1, <2>1 DEF ClosedIn, Agreement, Graph, Rooted
  <2>3. CASE u # t
    BY <1>3, <2>2, <2>3
  <2>4. CASE u = t
    <3>1. r[1] \in C
      BY <1>9, <2>2, <2>4
    <3>2. Leads(t, r[1], n)'
      BY <1>3, <1>4, <1>9 DEF Leads
    <3>3. n \in C
      BY <2>4, <3>1, <3>2 DEF ClosedIn
    <3> QED
      BY <1>3, <2>2, <2>4, <3>3
  <2> QED
    BY <2>3, <2>4
<1>12. IndexPoints'
  <2>1. \A i \in Nodes : trees[i] # NONE => trees[i] \in Trees /\ (trees[i] = t <=> i = i0)
    BY <1>1, <1>2 DEF IndexPoints, TypeOK
  <2>2. ASSUME NEW i \in Nodes, trees[i] # NONE
        PROVE  /\ root'[trees'[i]] = i /\ i \in Live(trees[i])'
               /\ \A m \in Nodes : m \in Live(trees[i])' => index'[Prompt(m)] = i
               /\ \A m \in Nodes : m \in status'[trees'[i]] => index'[Status(m)] = i
    <3> DEFINE v == trees[i]
    <3>1. v \in Trees /\ trees'[i] = v /\ (v = t <=> i = i0)
      BY <1>1, <2>1, <2>2
    <3>2. \A m \in Nodes : m \in Live(v)' <=> m \in Live(v) \/ (v = t /\ m = n)
      BY <1>1, <1>2, <3>1, ArrivesNodes DEF Live
    <3>3. Live(trees[i])' = Live(v)'
      BY <3>1 DEF Live
    <3>4. \A m \in Nodes : m \in status'[v] <=> m \in status[v] \/ (v = t /\ m = n)
      BY <1>3, <3>1
    <3>5. /\ root[v] = i /\ i \in Live(v)
          /\ \A m \in Nodes : m \in Live(v) => index[Prompt(m)] = i
          /\ \A m \in Nodes : m \in status[v] => index[Status(m)] = i
          /\ n \notin Live(v) /\ n \notin status[v]
      BY <1>1, <1>2, <2>2, NotIndexed DEF IndexPoints
    <3> HIDE DEF v
    <3>6. \A m \in Nodes : m \in Live(v)' => index'[Prompt(m)] = i
      BY <1>7, <3>1, <3>2, <3>5
    <3>7. \A m \in Nodes : m \in status'[v] => index'[Status(m)] = i
      BY <1>7, <3>1, <3>4, <3>5
    <3> QED
      BY <1>1, <3>1, <3>2, <3>3, <3>5, <3>6, <3>7
  <2>3. ASSUME NEW m \in Nodes, index'[Prompt(m)] # NONE
        PROVE  trees'[index'[Prompt(m)]] # NONE /\ m \in Live(trees[index[Prompt(m)]])'
    <3> DEFINE i == index'[Prompt(m)]
    <3>1. i \in Nodes
      BY <1>1, <1>2, <1>7, <2>3, RefTypes DEF TypeOK
    <3>2. trees[i] # NONE /\ (m \in Live(trees[i]) \/ (trees[i] = t /\ m = n))
      <4>1. CASE m = n
        <5>1. i = i0
          BY <1>7, <4>1
        <5> QED
          BY <1>1, <1>8, <4>1, <5>1
      <4>2. CASE m # n
        <5>1. i = index[Prompt(m)]
          BY <1>7, <4>2
        <5> QED
          BY <1>2, <2>3, <5>1 DEF IndexPoints
      <4> QED
        BY <4>1, <4>2
    <3>3. trees[i] \in Trees /\ trees'[i] = trees[i]
      BY <1>1, <2>1, <3>1, <3>2
    <3>4. m \in Live(trees[i]) => state'[trees[i]][m] # "absent"
      BY <1>1, <1>2, <3>3, ArrivesNodes DEF Live
    <3>5. state'[t][n] # "absent"
      BY <1>1, <1>2, ArrivesNodes
    <3> QED
      BY <3>2, <3>3, <3>4, <3>5 DEF Live
  <2>4. ASSUME NEW m \in Nodes, index'[Status(m)] # NONE
        PROVE  trees'[index'[Status(m)]] # NONE /\ m \in status'[trees'[index'[Status(m)]]]
    <3> DEFINE i == index'[Status(m)]
    <3>1. i \in Nodes
      BY <1>1, <1>2, <1>7, <2>4, RefTypes DEF TypeOK
    <3>2. trees[i] # NONE /\ (m \in status[trees[i]] \/ (trees[i] = t /\ m = n))
      <4>1. CASE m = n
        <5>1. i = i0
          BY <1>7, <4>1
        <5> QED
          BY <1>1, <1>8, <4>1, <5>1
      <4>2. CASE m # n
        <5>1. i = index[Status(m)]
          BY <1>7, <4>2
        <5> QED
          BY <1>2, <2>4, <5>1 DEF IndexPoints
      <4> QED
        BY <4>1, <4>2
    <3>3. trees[i] \in Trees /\ trees'[i] = trees[i]
      BY <1>1, <2>1, <3>1, <3>2
    <3> QED
      BY <1>3, <3>2, <3>3
  <2> QED
    BY <1>1, <2>2, <2>3, <2>4 DEF IndexPoints
<1>13. IndexIsExact'
  BY <1>12, IndexCollected
<1>14. ParentsLive'
  <2> SUFFICES ASSUME NEW u \in Trees, NEW m \in Live(u)' \ {root'[u]}
               PROVE  replyTo'[u][m] \in LiveRefs(u)'
    BY DEF ParentsLive
  <2>1. CASE u = t /\ m = n
    BY <1>1, <1>3, <1>4, <2>1
  <2>2. CASE ~(u = t /\ m = n)
    <3>1. m \in Live(u) \ {root[u]} /\ m \in Nodes
      BY <1>1, <1>3, <2>2 DEF Live
    <3>2. replyTo[u][m] \in LiveRefs(u)
      BY <3>1 DEF Agreement, Graph, ParentsLive
    <3> QED
      BY <1>3, <1>4, <2>2, <3>1, <3>2
  <2> QED
    BY <2>1, <2>2
<1>15. RunnableIsPublished'
  BY <1>1, <1>2, <1>8, ArrivesNodes DEF Agreement, Order, RunnableIsPublished
<1>16. ParentsFirst'
  <2> SUFFICES ASSUME NEW u \in Trees, NEW m \in Live(u)' \ {root'[u]}
               PROVE  LET p == replyTo'[u][m][1] IN
                      /\ state'[u][m] = "in_progress" => state'[u][p] \notin Runnable
                      /\ place'[u][m] # 0 /\ place'[u][p] # 0 => place'[u][p] < place'[u][m]
    BY DEF ParentsFirst
  <2>1. CASE u = t /\ m = n
    <3> DEFINE p == r[1]
    <3>1. p \in Nodes /\ p # n /\ replyTo'[t][n][1] = p
      BY <1>4, <1>9 DEF Live
    <3>2. /\ state'[t][p] = state[t][p] /\ place'[t][p] = place[t][p]
          /\ state'[t][n] = IF active[t] = NONE THEN "in_progress" ELSE "pending"
          /\ place'[t][n] = IF active[t] = NONE THEN place[t][n] ELSE admissions + 1
      BY <1>1, <1>2, <3>1, ArrivesNodes
    <3>3. /\ active[t] = NONE => state[t][p] \notin Runnable
          /\ place[t][n] = 0
      BY <1>2, <1>5, <3>1 DEF Order, QueueIsPending, Runnable, ActiveOn, Live
    <3>4. place[t][p] <= admissions /\ place[t][p] \in Nat /\ admissions \in Nat
      BY <1>2, <3>1 DEF Order, WaitingShape, TypeOK
    <3> QED
      BY <2>1, <3>1, <3>2, <3>3, <3>4
  <2>2. CASE ~(u = t /\ m = n)
    <3> DEFINE p == replyTo[u][m][1]
    <3>1. m \in Live(u) \ {root[u]} /\ m \in Nodes /\ replyTo'[u][m] = replyTo[u][m]
      BY <1>1, <1>3, <1>4, <2>2 DEF Live
    <3>2. replyTo[u][m] \in LiveRefs(u) /\ replyTo[u][m] \in Refs /\ p \in Nodes
      BY <3>1, RefParts DEF Agreement, Graph, ParentsLive, LiveRefs
    <3>3. p \in Live(u)
      BY <1>2, <3>2, RefParts DEF LiveRefs, NodeShape
    <3>4. /\ state'[u][m] = state[u][m] /\ state'[u][p] = state[u][p]
          /\ place'[u][m] = place[u][m] /\ place'[u][p] = place[u][p]
      BY <1>1, <1>2, <1>5, <2>2, <3>1, <3>2, <3>3, ArrivesNodes
    <3> QED
      BY <3>1, <3>4 DEF Agreement, Order, ParentsFirst
  <2> QED
    BY <2>1, <2>2
<1> QED
  BY <1>10, <1>11, <1>13, <1>14, <1>15, <1>16 DEF Graph

(* The claims after an arrival.                                            *)
LEMMA ArrivesShape ==
  ASSUME Agreement, NEW t \in Trees, NEW n \in Nodes, NEW reply \in Refs \cup {NONE},
         Arrives(t, n, reply), root'[t] # NONE, \A u \in Trees \ {t} : root'[u] = root[u]
  PROVE  NoStrandedClaim' /\ ClaimShape'
<1>1. UNCHANGED <<tombstoned, cancelled, reported>>
  BY DEF Arrives
<1>2. ASSUME NEW u \in Trees, active[u] # NONE
      PROVE  LET c == active[u]
                 m == claim[c].node IN
             /\ c \in Claims /\ m \in Nodes /\ claim[c] # NONE
             /\ claim[c].tree = u /\ task[c] \in LiveTasks
             /\ c \in tombstoned => c \in cancelled
             /\ root'[u] # NONE
             /\ m \notin status'[u] => c \in cancelled
             /\ c \notin tombstoned => state'[u][m] \notin {"absent", "pending"}
             /\ c \in reported \/ task[c] \in {"finishing", "unentered"} => state'[u][m] # "in_progress"
  <2> DEFINE c == active[u]
             m == claim[c].node
  <2>1. c \in Claims /\ m \in Nodes /\ claim[c] \in ClaimRecord /\ claim[c] # NONE
    BY <1>2, GrantedClaim, TreesAssumption DEF Agreement
  <2>2. /\ claim[c].tree = u /\ task[c] \in LiveTasks
        /\ c \in tombstoned => c \in cancelled
    BY <1>2 DEF Agreement, NoStrandedClaim
  <2>3. /\ root[u] # NONE
        /\ m \notin status[u] => c \in cancelled
        /\ c \notin tombstoned => state[u][m] \notin {"absent", "pending"}
        /\ c \in reported \/ task[c] \in {"finishing", "unentered"} => state[u][m] # "in_progress"
        /\ cancelled \subseteq tombstoned
    BY <1>2 DEF Agreement, ClaimShape
  <2>4. m \in status[u] => m \in status'[u]
    BY <2>1, ArrivesNodes DEF Agreement
  <2>5. CASE u = t /\ m = n
    <3>1. active[t] # NONE /\ state[t][n] = "absent"
      BY <1>2, <2>5 DEF Arrives, Live
    <3>2. state'[t][n] = "pending"
      BY <3>1, ArrivesNodes DEF Agreement
    <3>3. state[u][m] = "absent" /\ state'[u][m] = "pending"
      BY <2>5, <3>1, <3>2
    <3> QED
      BY <2>1, <2>2, <2>3, <2>4, <3>3
  <2>6. CASE ~(u = t /\ m = n)
    <3>1. state'[u][m] = state[u][m]
      BY <2>1, <2>6, ArrivesNodes DEF Agreement
    <3> QED
      BY <2>1, <2>2, <2>3, <2>4, <3>1
  <2> QED
    BY <2>5, <2>6
<1>3. cancelled \subseteq tombstoned /\ \A c \in tombstoned \cup reported : claim[c] # NONE
  BY DEF Agreement, ClaimShape
<1>4. CASE active[t] # NONE
  <2>1. UNCHANGED <<active, claim, task>>
    BY <1>4, ArrivesClaim DEF Agreement
  <2> QED
    BY <1>1, <1>2, <1>3, <2>1 DEF NoStrandedClaim, ClaimShape
<1>5. CASE active[t] = NONE
  <2>1. PICK k \in Claims :
          /\ k # NONE /\ claim[k] = NONE
          /\ active' = [active EXCEPT ![t] = k]
          /\ claim'[k] # NONE /\ claim'[k].tree = t /\ claim'[k].node = n
          /\ task'[k] = "admitted"
          /\ \A c \in Claims \ {k} : claim'[c] = claim[c] /\ task'[c] = task[c]
    BY <1>5, ArrivesClaim DEF Agreement, TypeOK
  <2>2. \A u \in Trees : active'[u] = IF u = t THEN k ELSE active[u]
    BY <2>1 DEF Agreement, TypeOK
  <2>3. k \notin tombstoned /\ k \notin reported
    BY <1>3, <2>1
  <2>4. n \in status'[t] /\ state'[t][n] = "in_progress"
    BY <1>5, ArrivesNodes DEF Agreement
  <2>5. "admitted" \in LiveTasks
    BY DEF LiveTasks, TaskStates
  <2>6. ASSUME NEW u \in Trees, active'[u] # NONE
        PROVE  LET c == active'[u]
                   m == claim'[c].node IN
               /\ claim'[c].tree = u /\ task'[c] \in LiveTasks
               /\ c \in tombstoned => c \in cancelled
               /\ root'[u] # NONE
               /\ m \notin status'[u] => c \in cancelled
               /\ c \notin tombstoned => state'[u][m] \notin {"absent", "pending"}
               /\ c \in reported \/ task'[c] \in {"finishing", "unentered"} => state'[u][m] # "in_progress"
    <3>1. CASE u = t
      BY <2>1, <2>2, <2>3, <2>4, <2>5, <3>1
    <3>2. CASE u # t
      <4>1. active'[u] = active[u] /\ active[u] # NONE
        BY <2>2, <2>6, <3>2
      <4>2. active[u] \in Claims \ {k}
        BY <1>2, <2>1, <4>1
      <4>3. claim'[active[u]] = claim[active[u]] /\ task'[active[u]] = task[active[u]]
        BY <2>1, <4>2
      <4> QED
        BY <1>2, <4>1, <4>3
    <3> QED
      BY <3>1, <3>2
  <2>7. \A c \in tombstoned \cup reported : claim'[c] # NONE
    BY <1>3, <2>1 DEF Agreement, TypeOK
  <2> QED
    BY <1>1, <1>3, <2>6, <2>7 DEF NoStrandedClaim, ClaimShape
<1> QED
  BY <1>4, <1>5

(* A step that changes nothing keeps everything.                           *)
LEMMA QuietAgreement == ASSUME Agreement, UNCHANGED vars PROVE Agreement'
<1> UNCHANGED <<trees, index, root, state, status, replyTo, session, place, active,
                tombstoned, claim, task, cancelled, reported, admissions>>
  BY DEF vars
<1>1. TypeOK' /\ OneTaskPerTree'
  BY DEF Agreement, TypeOK, OneTaskPerTree
<1>2. Settles
  BY QuietSettles DEF Agreement
<1>3. Graph' /\ Order'
  BY <1>2, SettlesGraph, SettlesOrder DEF Agreement
<1>4. NoStrandedClaim' /\ ClaimShape'
  BY DEF Agreement, NoStrandedClaim, ClaimShape
<1> QED
  BY <1>1, <1>3, <1>4 DEF Agreement

(* Together: an admission keeps the structures in agreement.               *)
LEMMA AdmitAgreement == ASSUME Agreement, Admit PROVE Agreement'
<1>1. TypeOK' /\ OneTaskPerTree'
  BY AdmitType, AdmitOneTask DEF Agreement
<1>2. ASSUME NEW n \in Nodes, AdmitRoot(n) PROVE Agreement'
  <2>1. PICK t \in Trees : /\ Arrives(t, n, NONE)
                           /\ root' = [root EXCEPT ![t] = n]
    BY <1>2, RootArrives
  <2>2. root'[t] # NONE /\ \A u \in Trees \ {t} : root'[u] = root[u]
    BY <2>1, TreesAssumption DEF Agreement, TypeOK
  <2>3. QueueIsPending' /\ WaitingShape'
    BY <2>1, ArrivesQueue
  <2>4. NoStrandedClaim' /\ ClaimShape'
    BY <2>1, <2>2, ArrivesShape
  <2>5. Graph' /\ RunnableIsPublished' /\ ParentsFirst'
    BY <1>1, <1>2, RootGraph
  <2> QED
    BY <1>1, <2>3, <2>4, <2>5 DEF Agreement, Order
<1>3. ASSUME NEW n \in Nodes, NEW r \in Refs, AdmitReply(n, r) PROVE Agreement'
  <2>1. PICK t \in Trees : /\ Arrives(t, n, r) /\ root[t] \in Nodes
                           /\ root' = root
    BY <1>3, ReplyArrives
  <2>2. root'[t] # NONE /\ \A u \in Trees \ {t} : root'[u] = root[u]
    BY <2>1, TreesAssumption
  <2>3. QueueIsPending' /\ WaitingShape'
    BY <2>1, ArrivesQueue
  <2>4. NoStrandedClaim' /\ ClaimShape'
    BY <2>1, <2>2, ArrivesShape
  <2>5. Graph' /\ RunnableIsPublished' /\ ParentsFirst'
    BY <1>1, <1>3, ReplyGraph
  <2> QED
    BY <1>1, <2>3, <2>4, <2>5 DEF Agreement, Order
<1>4. ASSUME NEW n \in Nodes, AdmitAgain(n) PROVE Agreement'
  <2>1. UNCHANGED vars
    BY <1>4, AgainIsQuiet
  <2> QED
    BY <2>1, QuietAgreement
<1> QED
  BY <1>2, <1>3, <1>4 DEF Admit

-----------------------------------------------------------------------------
(* The claims after a step that settles nodes.                             *)

(* A task that ends has no node in progress: either it was cancelled, or   *)
(* it has reported its end.                                                *)
LEMMA EndedIsIdle ==
  ASSUME Agreement, NEW t \in Trees, active[t] # NONE, active[t] \in reported \cup cancelled
  PROVE  state[t][claim[active[t]].node] # "in_progress"
<1>1. claim[active[t]].node \in Nodes
  BY GrantedClaim DEF Agreement
<1>2. active[t] \in cancelled => active[t] \in tombstoned
  BY DEF Agreement, ClaimShape
<1> QED
  BY <1>1, <1>2 DEF Agreement, ClaimShape, Order, QueueIsPending

(* The tree that runs a claim is the published one that it speaks for.     *)
LEMMA RunningIsCurrent ==
  ASSUME Agreement, NEW t \in Trees, active[t] # NONE,
         state[t][claim[active[t]].node] = "in_progress"
  PROVE  TreeOfClaim(active[t]) = t /\ Current(t, active[t])
<1> DEFINE c == active[t]
<1>1. claim[c].node \in Nodes /\ claim[c].tree = t /\ t # NONE
  BY GrantedClaim, TreesAssumption DEF Agreement
<1>2. trees[root[t]] = t /\ c \notin tombstoned
  BY <1>1 DEF Agreement, Order, QueueIsPending, RunnableIsPublished, Runnable
<1> QED
  BY <1>1, <1>2 DEF TreeOfClaim, Current

(* A claim that fails has no node in progress.                             *)
LEMMA FailedIsIdle ==
  ASSUME Agreement, NEW c \in Claims, task[c] \in LiveTasks,
         NEW propagate \in BOOLEAN, FailEffect(c, propagate),
         NEW t \in Trees, active[t] = c
  PROVE  state'[t][claim[c].node] # "in_progress"
<1> DEFINE n == claim[c].node
           hit == IF propagate
                  THEN {m \in Descendants(t, n) \ {n} : state[t][m] = "pending"}
                  ELSE {}
<1>1. c # NONE /\ n \in Nodes
  BY GrantedClaim, TreesAssumption DEF Agreement
<1>2. CASE Current(TreeOfClaim(c), c) /\ state[TreeOfClaim(c)][n] \notin {"absent", "completed"}
  <2>1. TreeOfClaim(c) = t
    BY <1>1, <1>2, CurrentClaim, GrantedClaim DEF Agreement
  <2>2. state' = [state EXCEPT ![t] = Errored(t, hit \cup {n})]
    BY <1>2, <2>1 DEF FailEffect
  <2>3. state'[t][n] = Errored(t, hit \cup {n})[n]
    BY <2>2 DEF Agreement, TypeOK
  <2> HIDE DEF hit
  <2> QED
    BY <1>1, <2>3 DEF Errored, Runnable
<1>3. CASE ~(Current(TreeOfClaim(c), c) /\ state[TreeOfClaim(c)][n] \notin {"absent", "completed"})
  <2>1. state' = state
    BY <1>3 DEF FailEffect
  <2>2. state[t][n] # "in_progress"
    BY <1>1, <1>3, RunningIsCurrent
  <2> QED
    BY <2>1, <2>2
<1> QED
  BY <1>2, <1>3

(* Every step of a task but the last one keeps the claims in order.        *)
LEMMA TaskShape ==
  ASSUME Agreement, NEW c \in Claims, TaskStep(c), ~FinishClaim(c)
  PROVE  NoStrandedClaim' /\ ClaimShape'
<1> USE DEF LiveTasks, TaskStates
<1>1. Settles
  BY TaskSettles
<1>2. /\ UNCHANGED <<cancelled, tombstoned, active, claim>>
      /\ reported' \subseteq reported \cup {c}
      /\ task[c] \in LiveTasks /\ task'[c] \in LiveTasks
      /\ \A d \in Claims \ {c} : task'[d] = task[d]
  BY DEF TaskStep, TaskStarts, AnnouncementEnds, RunnerReturns, RunnerRaises, RecordSession,
         CompleteClaim, FailClaim, FailureCallback, taskOnly, taskVars, Agreement, TypeOK
<1>3. claim[c] # NONE /\ cancelled \subseteq tombstoned
  BY <1>2 DEF Agreement, OneTaskPerTree, ClaimShape
<1>4. \A d \in tombstoned' \cup reported' : claim[d] # NONE
  BY <1>2, <1>3 DEF Agreement, ClaimShape
<1>5. ASSUME NEW t \in Trees, active[t] = c, c \in reported' \/ task'[c] \in {"finishing", "unentered"}
      PROVE  state'[t][claim[c].node] # "in_progress"
  <2>1. c # NONE /\ claim[c].node \in Nodes
    BY <1>5, GrantedClaim, TreesAssumption DEF Agreement
  <2>2. c \in reported \cup cancelled => state'[t][claim[c].node] # "in_progress"
    BY <1>1, <1>5, <2>1, EndedIsIdle DEF Settles, Calms, Runnable
  <2>3. CASE c \in reported \cup cancelled
    BY <2>2, <2>3
  <2>4. CASE c \notin reported \cup cancelled
    <3>1. CASE CompleteClaim(c)
      <4> DEFINE n == claim[c].node
      <4>1. ~(Current(TreeOfClaim(c), c) /\ state[TreeOfClaim(c)][n] \in {"in_progress", "error"}) =>
              state' = state
        BY <3>1 DEF CompleteClaim
      <4>2. state[t][n] = "in_progress" => TreeOfClaim(c) = t /\ Current(t, c)
        BY <1>5, <2>1, RunningIsCurrent
      <4>3. state[t][n] = "in_progress" => state' = [state EXCEPT ![t][n] = "completed"]
        BY <3>1, <4>2 DEF CompleteClaim
      <4>4. state'[t][n] = "in_progress" => state[t][n] = "in_progress"
        BY <1>1, <2>1 DEF Settles, Calms, Runnable
      <4> QED
        BY <2>1, <4>3, <4>4 DEF Agreement, TypeOK
    <3>2. CASE FailClaim(c)
      BY <1>2, <1>5, <3>2, FailedIsIdle DEF FailClaim
    <3>3. CASE FailureCallback(c)
      BY <1>2, <1>5, <3>3, FailedIsIdle DEF FailureCallback
    <3>4. CASE ~(CompleteClaim(c) \/ FailClaim(c) \/ FailureCallback(c))
      <4>1. reported' = reported
        BY <3>4 DEF TaskStep, TaskStarts, AnnouncementEnds, RunnerReturns, RunnerRaises,
                    RecordSession, taskOnly, taskVars
      <4>2. task'[c] \notin {"finishing", "unentered"}
        BY <2>4, <3>4 DEF TaskStep, TaskStarts, AnnouncementEnds, RunnerReturns, RunnerRaises,
                          RecordSession, taskOnly, taskVars, Agreement, TypeOK
      <4> QED
        BY <1>5, <2>4, <4>1, <4>2
    <3> QED
      BY <3>1, <3>2, <3>3, <3>4
  <2> QED
    BY <2>3, <2>4
<1>6. ASSUME NEW t \in Trees, active[t] # NONE
      PROVE  /\ task'[active[t]] \in LiveTasks
             /\ active[t] \in tombstoned' => active[t] \in cancelled'
             /\ active[t] \in reported' \/ task'[active[t]] \in {"finishing", "unentered"} =>
                  state'[t][claim[active[t]].node] # "in_progress"
  <2>1. active[t] \in Claims /\ claim[active[t]].node \in Nodes
    BY <1>6, GrantedClaim DEF Agreement
  <2>2. /\ task[active[t]] \in LiveTasks
        /\ active[t] \in tombstoned => active[t] \in cancelled
        /\ active[t] \in reported \/ task[active[t]] \in {"finishing", "unentered"} =>
             state[t][claim[active[t]].node] # "in_progress"
    BY <1>6 DEF Agreement, NoStrandedClaim, ClaimShape
  <2>3. CASE active[t] = c
    BY <1>2, <1>5, <2>2, <2>3
  <2>4. CASE active[t] # c
    <3>1. task'[active[t]] = task[active[t]] /\ (active[t] \in reported' => active[t] \in reported)
      BY <1>2, <2>1, <2>4
    <3>2. state'[t][claim[active[t]].node] = "in_progress" => state[t][claim[active[t]].node] = "in_progress"
      BY <1>1, <2>1 DEF Settles, Calms, Runnable
    <3> QED
      BY <1>2, <2>2, <3>1, <3>2
  <2> QED
    BY <2>3, <2>4
<1> QED
  BY <1>1, <1>2, <1>3, <1>4, <1>6, CalmsShape DEF Settles

(* A cancellation that leaves the tasks alone does so too, if it cancels   *)
(* every task whose claim it marks.                                        *)
LEMMA CancelShape ==
  ASSUME Agreement, Calms, UNCHANGED <<task, reported>>,
         tombstoned \subseteq tombstoned', cancelled \subseteq cancelled',
         cancelled' \subseteq tombstoned', tombstoned' \subseteq tombstoned \cup cancelled',
         tombstoned' \subseteq tombstoned \cup ({active[t] : t \in Trees} \ {NONE})
  PROVE  NoStrandedClaim' /\ ClaimShape'
<1>1. \A t \in Trees : active[t] # NONE => claim[active[t]] # NONE
  BY GrantedClaim, TreesAssumption DEF Agreement
<1>2. \A c \in tombstoned' \cup reported' : claim[c] # NONE
  BY <1>1 DEF Agreement, ClaimShape
<1>3. ASSUME NEW t \in Trees, active[t] # NONE
      PROVE  /\ task'[active[t]] \in LiveTasks
             /\ active[t] \in tombstoned' => active[t] \in cancelled'
             /\ active[t] \in reported' \/ task'[active[t]] \in {"finishing", "unentered"} =>
                  state'[t][claim[active[t]].node] # "in_progress"
  <2>1. claim[active[t]].node \in Nodes
    BY <1>3, GrantedClaim DEF Agreement
  <2>2. /\ task[active[t]] \in LiveTasks
        /\ active[t] \in tombstoned => active[t] \in cancelled
        /\ active[t] \in reported \/ task[active[t]] \in {"finishing", "unentered"} =>
             state[t][claim[active[t]].node] # "in_progress"
    BY <1>3 DEF Agreement, NoStrandedClaim, ClaimShape
  <2>3. state'[t][claim[active[t]].node] = "in_progress" => state[t][claim[active[t]].node] = "in_progress"
    BY <2>1 DEF Calms, Runnable
  <2> QED
    BY <2>2, <2>3
<1> QED
  BY <1>2, <1>3, CalmsShape

(* A stop of one prompt marks the claim whose task it cancels.             *)
LEMMA CancelNodeShape ==
  ASSUME Agreement, NEW n \in Nodes, CancelNode(n)
  PROVE  NoStrandedClaim' /\ ClaimShape'
<1> DEFINE t == TreeFor(Prompt(n))
           c == IF t # NONE /\ ActiveOn(t, n) THEN {active[t]} ELSE {}
<1>1. t \in Trees
  BY TreeForType, RefTypes DEF CancelNode, Agreement
<1>2. /\ tombstoned' = tombstoned \cup c
      /\ cancelled'  = cancelled \cup (IF c # {} /\ Unaddressable(t) THEN {} ELSE c)
      /\ UNCHANGED <<task, reported>>
  BY DEF CancelNode
<1>3. c \subseteq {active[u] : u \in Trees} \ {NONE}
  BY <1>1 DEF ActiveOn
<1>4. Unaddressable(t) => c \subseteq cancelled
  BY <1>1, UnaddressableIdle
<1>5. cancelled \subseteq tombstoned
  BY DEF Agreement, ClaimShape
<1>6. Calms
  BY CancelNodeSettles DEF Settles
<1> HIDE DEF c, t
<1> QED
  BY <1>2, <1>3, <1>4, <1>5, <1>6, CancelShape

(* A sweep leaves tasks alone only where they are cancelled already.       *)
LEMMA SweepShape ==
  ASSUME Agreement, NEW P \in SUBSET Trees, Sweep(P)
  PROVE  Calms /\ NoStrandedClaim' /\ ClaimShape'
<1>1. Calms
  BY SweepNodes DEF Sweep, Calms
<1>2. /\ tombstoned' = tombstoned \cup ({active[t] : t \in Reached(P)} \ {NONE})
      /\ cancelled'  = cancelled \cup ({active[t] : t \in Swept(P)} \ {NONE})
      /\ UNCHANGED <<task, reported>>
  BY DEF Sweep
<1>3. /\ Reached(P) \subseteq Trees /\ Swept(P) \subseteq Reached(P)
      /\ \A t \in Reached(P) \ Swept(P) : active[t] \in cancelled
  BY UnaddressableIdle DEF Reached, Swept
<1>4. cancelled \subseteq tombstoned
  BY DEF Agreement, ClaimShape
<1>5. tombstoned' \subseteq tombstoned \cup cancelled'
  BY <1>2, <1>3
<1>6. tombstoned' \subseteq tombstoned \cup ({active[t] : t \in Trees} \ {NONE})
  BY <1>2, <1>3
<1>7. cancelled' \subseteq tombstoned' /\ tombstoned \subseteq tombstoned' /\ cancelled \subseteq cancelled'
  BY <1>2, <1>3, <1>4
<1> QED
  BY <1>1, <1>2, <1>5, <1>6, <1>7, CancelShape

(* Nor does a removal that raises.                                         *)
LEMMA RaisesShape ==
  ASSUME Agreement, NEW r \in Refs, RemoveSubtreeRaises(r)
  PROVE  NoStrandedClaim' /\ ClaimShape'
<1>1. TreeFor(r) \in Trees
  BY TreeForType DEF RemoveSubtreeRaises, Agreement
<1>2. tombstoned' = tombstoned
  BY <1>1, UnaddressableIdle DEF RemoveSubtreeRaises
<1>3. UNCHANGED <<cancelled, task, reported>>
  BY DEF RemoveSubtreeRaises
<1>4. cancelled \subseteq tombstoned
  BY DEF Agreement, ClaimShape
<1>5. Calms
  BY RaisesSettles DEF Settles
<1> QED
  BY <1>2, <1>3, <1>4, <1>5, CancelShape

-----------------------------------------------------------------------------
(* Detaching the trees of a chat.                                          *)

(* The trees of a chat that were swept leave the repository, with every    *)
(* message of theirs.                                                      *)
LEMMA ClearGraph ==
  ASSUME Agreement, NEW s \in Scopes, ClearScope(s), TypeOK'
  PROVE  Graph' /\ RunnableIsPublished'
<1> DEFINE P == {t \in Published : ScopeOf[root[t]] = s}
           detached == {root[t] : t \in Swept(P)}
<1>1. TypeOK /\ NodeShape /\ IndexPoints
  BY IndexExpanded DEF Agreement, Graph
<1>2. P \in SUBSET Trees
  BY <1>1, PublishedTrees
<1>3. /\ Sweep(P)
      /\ \A i \in Nodes : trees'[i] = IF i \in detached THEN NONE ELSE trees[i]
      /\ \A r \in Refs : index'[r] = IF index[r] \in detached THEN NONE ELSE index[r]
  BY DEF ClearScope
<1>4. UNCHANGED <<root, status, replyTo>>
  BY <1>3 DEF Sweep
<1>5. \A t \in Swept(P) : root[t] \in Nodes /\ trees[root[t]] = t
  BY <1>1 DEF Swept, Reached, Published, IndexPoints
<1>6. \A t \in Trees : Live(t)' = Live(t) /\ LiveRefs(t)' = LiveRefs(t)
  BY <1>2, <1>3, SweepShape, CalmsLive
<1> HIDE DEF P, detached
<1>7. NodeShape' /\ Rooted' /\ ParentsLive'
  BY <1>4, <1>6 DEF Agreement, Graph, NodeShape, Rooted, ParentsLive, ClosedIn, Leads
<1>8. \A m \in Nodes : /\ index'[Prompt(m)] = IF index[Prompt(m)] \in detached THEN NONE ELSE index[Prompt(m)]
                       /\ index'[Status(m)] = IF index[Status(m)] \in detached THEN NONE ELSE index[Status(m)]
  BY <1>3, RefTypes
<1>9. \A m \in Nodes : /\ index[Prompt(m)] # NONE => index[Prompt(m)] \in Nodes
                       /\ index[Status(m)] # NONE => index[Status(m)] \in Nodes
  BY <1>1, RefTypes DEF TypeOK
<1>10. \A i \in Nodes : trees'[i] # NONE =>
         i \notin detached /\ trees'[i] = trees[i] /\ trees[i] # NONE /\ trees[i] \in Trees
  BY <1>1, <1>3 DEF TypeOK
<1>11. \A t \in Trees, m \in Nodes : state'[t][m] # "absent" <=> state[t][m] # "absent"
  BY <1>2, <1>3, SweepNodes
<1>12. ASSUME NEW i \in Nodes, trees'[i] # NONE
       PROVE  /\ root'[trees'[i]] = i /\ i \in Live(trees[i])'
              /\ \A m \in Nodes : m \in Live(trees[i])' => index'[Prompt(m)] = i
              /\ \A m \in Nodes : m \in status'[trees'[i]] => index'[Status(m)] = i
  <2> DEFINE v == trees[i]
  <2>1. i \notin detached /\ trees'[i] = v /\ v # NONE /\ v \in Trees
    BY <1>10, <1>12
  <2>2. \A m \in Nodes : m \in Live(trees[i])' <=> m \in Live(v)
    BY <1>11, <2>1 DEF Live
  <2>3. /\ root[v] = i /\ i \in Live(v)
        /\ \A m \in Nodes : m \in Live(v) => index[Prompt(m)] = i
        /\ \A m \in Nodes : m \in status[v] => index[Status(m)] = i
    BY <1>1, <2>1 DEF IndexPoints
  <2> QED
    BY <1>4, <1>8, <2>1, <2>2, <2>3
<1>13. ASSUME NEW m \in Nodes, index'[Prompt(m)] # NONE
       PROVE  trees'[index'[Prompt(m)]] # NONE /\ m \in Live(trees[index[Prompt(m)]])'
  <2> DEFINE i == index[Prompt(m)]
  <2>1. index'[Prompt(m)] = i /\ i \in Nodes /\ i \notin detached
    BY <1>8, <1>9, <1>13
  <2>2. trees[i] # NONE /\ m \in Live(trees[i])
    BY <1>1, <1>13, <2>1 DEF IndexPoints
  <2>3. trees'[i] = trees[i] /\ trees[i] \in Trees
    BY <1>1, <1>3, <2>1, <2>2 DEF TypeOK
  <2> QED
    BY <1>11, <2>1, <2>2, <2>3 DEF Live
<1>14. ASSUME NEW m \in Nodes, index'[Status(m)] # NONE
       PROVE  trees'[index'[Status(m)]] # NONE /\ m \in status'[trees'[index'[Status(m)]]]
  <2> DEFINE i == index[Status(m)]
  <2>1. index'[Status(m)] = i /\ i \in Nodes /\ i \notin detached
    BY <1>8, <1>9, <1>14
  <2>2. trees[i] # NONE /\ m \in status[trees[i]]
    BY <1>1, <1>14, <2>1 DEF IndexPoints
  <2>3. trees'[i] = trees[i] /\ trees[i] \in Trees
    BY <1>1, <1>3, <2>1, <2>2 DEF TypeOK
  <2> QED
    BY <1>4, <2>1, <2>2, <2>3
<1>15. IndexIsExact'
  <2>1. IndexPoints'
    BY <1>12, <1>13, <1>14 DEF IndexPoints
  <2> QED
    BY <2>1, IndexCollected
<1>16. RunnableIsPublished'
  <2> SUFFICES ASSUME NEW t \in Trees, NEW n \in Nodes, state'[t][n] \in Runnable
               PROVE  root'[t] # NONE /\ trees'[root'[t]] = t
    BY DEF RunnableIsPublished
  <2>1. t \notin Swept(P) /\ state[t][n] \in Runnable
    BY <1>2, <1>3, SweepNodes
  <2>2. root[t] # NONE /\ trees[root[t]] = t /\ root[t] \in Nodes
    BY <1>1, <2>1 DEF Agreement, Order, RunnableIsPublished, TypeOK
  <2>3. root[t] \notin detached
    BY <1>5, <2>1, <2>2 DEF detached
  <2> QED
    BY <1>3, <1>4, <2>2, <2>3
<1> QED
  BY <1>7, <1>15, <1>16 DEF Graph

-----------------------------------------------------------------------------
(* The last step of a task.                                                *)

(* Where no node comes or goes the graph stays.                            *)
LEMMA GraphStays ==
  ASSUME TypeOK, Graph, UNCHANGED <<trees, index, root, status, replyTo>>,
         \A t \in Trees : \A n \in Nodes : state'[t][n] = "absent" <=> state[t][n] = "absent"
  PROVE  Graph' /\ \A t \in Trees : Live(t)' = Live(t)
<1>1. \A t \in Trees : Live(t)' = Live(t)
  BY DEF Live
<1>2. \A t \in Trees : LiveRefs(t)' = LiveRefs(t)
  BY <1>1 DEF LiveRefs
<1>3. NodeShape'
  BY <1>1 DEF Graph, NodeShape
<1>4. Rooted'
  BY <1>1 DEF Graph, Rooted, ClosedIn, Leads
<1>5. IndexIsExact'
  BY <1>1, <1>2 DEF Graph, IndexIsExact, TypeOK
<1>6. ParentsLive'
  BY <1>2, <1>1 DEF Graph, ParentsLive
<1> QED
  BY <1>1, <1>3, <1>4, <1>5, <1>6 DEF Graph

(* A claim is released, and the oldest prompt that waits is granted the    *)
(* tree.  Nothing is in progress by then, so the parent of that prompt is  *)
(* over, or gone.                                                          *)
LEMMA FinishAgreement == ASSUME Agreement, NEW c \in Claims, FinishClaim(c) PROVE Agreement'
<1> DEFINE t        == claim[c].tree
           eligible == {n \in Nodes : place[t][n] # 0 /\ state[t][n] = "pending"}
           gone     == [task EXCEPT ![c] = "gone"]
<1>1. TypeOK /\ OneTaskPerTree /\ Graph /\ Order /\ NoStrandedClaim /\ ClaimShape
  BY DEF Agreement
<1>2. TypeOK' /\ OneTaskPerTree'
  BY <1>1, FinishType, FinishOneTask
<1>3. t \in Trees /\ active[t] = c /\ c # NONE
  BY <1>1, FinishClaimGranted, TreesAssumption DEF FinishClaim, OneTaskPerTree, LiveTasks, TaskStates
<1>4. /\ tombstoned' = tombstoned \ {c} /\ cancelled' = cancelled \ {c} /\ reported' = reported \ {c}
      /\ UNCHANGED <<trees, index, session, admissions, root, status, replyTo>>
  BY DEF FinishClaim, graphVars
<1>5. root[t] # NONE /\ \A m \in Nodes : state[t][m] # "in_progress"
  BY <1>1, <1>3 DEF FinishClaim, ClaimShape, Order, QueueIsPending, ActiveOn
<1>6. \A m \in Nodes : place[t][m] # 0 <=> state[t][m] = "pending"
  BY <1>1, <1>3 DEF Order, QueueIsPending
<1>7. ASSUME NEW u \in Trees \ {t}, active[u] # NONE
      PROVE  /\ active[u] \in Claims \ {c} /\ claim[active[u]] # NONE /\ claim[active[u]].tree = u
             /\ task[active[u]] \in LiveTasks
  BY <1>1, <1>3, <1>7, GrantedClaim, TreesAssumption DEF NoStrandedClaim
<1> HIDE DEF t
<1>8. CASE eligible = {}
  <2>1. /\ active' = [active EXCEPT ![t] = NONE]
        /\ place'  = [place EXCEPT ![t] = Unqueued(t, Nodes)]
        /\ task'   = gone
        /\ UNCHANGED <<state, claim>>
    BY <1>3, <1>8 DEF FinishClaim, t
  <2>2. \A m \in Nodes : place[t][m] = 0 /\ state[t][m] # "pending"
    BY <1>6, <1>8
  <2>3. \A u \in Trees : active'[u] = IF u = t THEN NONE ELSE active[u]
    BY <1>1, <2>1 DEF TypeOK
  <2>4. place' = place
    BY <1>1, <2>1, <2>2 DEF TypeOK, Unqueued
  <2>5. \A d \in Claims \ {c} : task'[d] = task[d]
    BY <1>1, <2>1 DEF TypeOK
  <2>6. Graph'
    BY <1>1, <1>4, <2>1, GraphStays
  <2>7. \A u \in Trees : Live(u)' = Live(u)
    BY <2>1 DEF Live
  <2>8. QueueIsPending'
    BY <1>1, <1>4, <1>5, <2>1, <2>2, <2>3, <2>4 DEF Order, QueueIsPending, ActiveOn
  <2>9. ParentsFirst' /\ RunnableIsPublished' /\ WaitingShape'
    BY <1>1, <1>4, <2>1, <2>4, <2>7 DEF Order, ParentsFirst, RunnableIsPublished, WaitingShape
  <2>10. NoStrandedClaim'
    BY <1>1, <1>4, <1>7, <2>1, <2>3, <2>5 DEF NoStrandedClaim
  <2>11. ClaimShape'
    BY <1>1, <1>4, <1>7, <2>1, <2>3, <2>5 DEF ClaimShape
  <2> QED
    BY <1>2, <2>6, <2>8, <2>9, <2>10, <2>11 DEF Agreement, Order
<1>9. CASE eligible # {}
  <2>1. PICK n \in Oldest(t, eligible), k \in Claims :
          /\ Fresh(k)
          /\ state'  = [state EXCEPT ![t][n] = "in_progress"]
          /\ place'  = [place EXCEPT ![t] = Unqueued(t, {m \in Nodes : place[t][m] <= place[t][n]})]
          /\ active' = [active EXCEPT ![t] = k]
          /\ claim'  = [claim EXCEPT ![k] =
                          [tree |-> t, node |-> n,
                           resumed |-> ParentSession(t, replyTo[t][n], session[t])]]
          /\ task'   = [gone EXCEPT ![k] = SuccessorTask(t)]
    BY <1>3, <1>9 DEF FinishClaim, t
  <2>2. /\ n \in Nodes /\ place[t][n] # 0 /\ state[t][n] = "pending"
        /\ \A m \in Nodes : place[t][m] # 0 => place[t][n] <= place[t][m]
    BY <1>6 DEF Oldest
  <2>3. \A m \in Nodes : place[t][m] \in Nat /\ (place[t][m] = place[t][n] => m = n)
    BY <1>1, <1>3, <2>2 DEF TypeOK, Order, WaitingShape
  <2>4. claim[k] = NONE /\ k # NONE /\ k # c /\ k \notin tombstoned \cup reported
    BY <1>1, <2>1, FinishClaimGranted, TreesAssumption DEF Fresh, ClaimShape
  <2> DEFINE record == [tree |-> t, node |-> n,
                        resumed |-> ParentSession(t, replyTo[t][n], session[t])]
  <2>5. claim'[k] # NONE /\ claim'[k].tree = t /\ claim'[k].node = n
        /\ \A d \in Claims \ {k} : claim'[d] = claim[d]
    <3>1. replyTo[t][n] \in Refs \cup {NONE}
      BY <1>1, <1>3, <2>2 DEF TypeOK
    <3>2. record \in ClaimRecord /\ record # NONE
      BY <1>1, <1>3, <2>2, <3>1, ParentSessionType, TreesAssumption DEF ClaimRecord
    <3>3. claim'[k] = record /\ \A d \in Claims \ {k} : claim'[d] = claim[d]
      BY <1>1, <2>1 DEF TypeOK
    <3> QED
      BY <3>2, <3>3
  <2> HIDE DEF record
  <2>6. \A u \in Trees, m \in Nodes :
          /\ state'[u][m] = IF u = t /\ m = n THEN "in_progress" ELSE state[u][m]
          /\ place'[u][m] = IF u = t /\ m = n THEN 0 ELSE place[u][m]
    <3>1. \A u \in Trees, m \in Nodes :
            /\ state'[u][m] = IF u = t /\ m = n THEN "in_progress" ELSE state[u][m]
            /\ place'[u][m] = IF u = t /\ place[t][m] <= place[t][n] THEN 0 ELSE place[u][m]
      BY <1>1, <1>3, <2>1, <2>2 DEF TypeOK, Unqueued
    <3>2. \A m \in Nodes \ {n} : place[t][m] <= place[t][n] => place[t][m] = 0
      BY <2>2, <2>3
    <3> QED
      BY <2>2, <2>3, <3>1, <3>2
  <2>7. \A u \in Trees : active'[u] = IF u = t THEN k ELSE active[u]
    BY <1>1, <2>1 DEF TypeOK
  <2>8. task'[k] = "promoted" /\ \A d \in Claims \ {c, k} : task'[d] = task[d]
    <3>1. trees[root[t]] = t
      BY <1>1, <1>3, <2>2 DEF Order, RunnableIsPublished, Runnable
    <3> QED
      BY <1>1, <2>1, <2>4, <3>1 DEF SuccessorTask, TypeOK
  <2>9. \A u \in Trees \ {t} : active[u] # NONE => active[u] \in Claims \ {c, k}
    BY <1>7, <2>4
  <2>10. Graph' /\ \A u \in Trees : Live(u)' = Live(u)
    BY <1>1, <1>4, <2>2, <2>6, GraphStays
  <2>11. QueueIsPending'
    <3> SUFFICES ASSUME NEW u \in Trees, NEW m \in Nodes
                 PROVE  /\ place'[u][m] # 0 <=> state'[u][m] = "pending"
                        /\ place'[u][m] # 0 => active'[u] # NONE
                        /\ state'[u][m] = "in_progress" =>
                             ActiveOn(u, m)' /\ active'[u] \notin tombstoned'
      BY DEF QueueIsPending
    <3>1. CASE u = t
      BY <1>4, <1>5, <1>6, <2>4, <2>5, <2>6, <2>7, <3>1 DEF ActiveOn
    <3>2. CASE u # t
      <4>1. state'[u][m] = state[u][m] /\ place'[u][m] = place[u][m] /\ active'[u] = active[u]
        BY <2>6, <2>7, <3>2
      <4>2. active[u] # NONE => claim'[active[u]] = claim[active[u]]
        BY <2>5, <2>9, <3>2
      <4> QED
        BY <1>1, <1>4, <4>1, <4>2 DEF Order, QueueIsPending, ActiveOn
    <3> QED
      BY <3>1, <3>2
  <2>12. ParentsFirst'
    <3> SUFFICES ASSUME NEW u \in Trees, NEW m \in Live(u) \ {root[u]}
                 PROVE  LET p == replyTo[u][m][1] IN
                        /\ state'[u][m] = "in_progress" => state'[u][p] \notin Runnable
                        /\ place'[u][m] # 0 /\ place'[u][p] # 0 => place'[u][p] < place'[u][m]
      BY <1>4, <2>10 DEF ParentsFirst
    <3> DEFINE p == replyTo[u][m][1]
    <3>1. m \in Nodes /\ p \in Nodes
      BY <1>1, RefParts DEF Graph, ParentsLive, LiveRefs, Live
    <3>2. /\ state[u][m] = "in_progress" => state[u][p] \notin Runnable
          /\ place[u][m] # 0 /\ place[u][p] # 0 => place[u][p] < place[u][m]
      BY <1>1 DEF Order, ParentsFirst
    <3>3. u = t /\ m = n => place[t][p] = 0
      BY <2>2, <2>3, <3>1, <3>2
    <3>4. u = t /\ m = n => state[t][p] \notin Runnable
      BY <1>5, <1>6, <3>1, <3>3 DEF Runnable
    <3>5. ~(u = t /\ m = n /\ p = n)
      BY <2>2, <3>3
    <3> HIDE DEF p
    <3> QED
      BY <1>5, <2>2, <2>6, <3>1, <3>2, <3>3, <3>4, <3>5 DEF p
  <2>13. RunnableIsPublished'
    BY <1>1, <1>4, <2>2, <2>6 DEF Order, RunnableIsPublished, Runnable
  <2>14. WaitingShape'
    BY <1>1, <1>4, <2>2, <2>3, <2>6 DEF Order, WaitingShape, TypeOK
  <2>15. ASSUME NEW u \in Trees, active'[u] # NONE
         PROVE  LET d == active'[u]
                    m == claim'[d].node IN
                /\ claim'[d].tree = u /\ task'[d] \in LiveTasks
                /\ d \in tombstoned' => d \in cancelled'
                /\ root[u] # NONE
                /\ m \notin status[u] => d \in cancelled'
                /\ d \notin tombstoned' => state'[u][m] \notin {"absent", "pending"}
                /\ d \in reported' \/ task'[d] \in {"finishing", "unentered"} => state'[u][m] # "in_progress"
    <3>1. CASE u = t
      <4>1. n \in status[t] /\ state'[t][n] = "in_progress"
        BY <1>1, <1>3, <2>2, <2>6 DEF Order, WaitingShape
      <4> QED
        BY <1>4, <1>5, <2>4, <2>5, <2>7, <2>8, <3>1, <4>1 DEF LiveTasks, TaskStates
    <3>2. CASE u # t
      <4> DEFINE d == active[u]
      <4>1. active'[u] = d /\ d \in Claims \ {c, k}
        BY <2>7, <2>9, <2>15, <3>2
      <4>2. claim'[d] = claim[d] /\ task'[d] = task[d] /\ \A m \in Nodes : state'[u][m] = state[u][m]
        BY <2>5, <2>6, <2>8, <3>2, <4>1
      <4>3. claim[d].node \in Nodes /\ d # NONE
        BY <1>1, <2>15, <3>2, <4>1, GrantedClaim
      <4>4. /\ claim[d].tree = u /\ task[d] \in LiveTasks
            /\ d \in tombstoned => d \in cancelled
        BY <1>1, <4>3 DEF NoStrandedClaim
      <4>5. LET m == claim[d].node IN
            /\ root[u] # NONE
            /\ m \notin status[u] => d \in cancelled
            /\ d \notin tombstoned => state[u][m] \notin {"absent", "pending"}
            /\ d \in reported \/ task[d] \in {"finishing", "unentered"} => state[u][m] # "in_progress"
        BY <1>1, <4>3 DEF ClaimShape
      <4> HIDE DEF d
      <4> QED
        BY <1>4, <4>1, <4>2, <4>3, <4>4, <4>5
    <3> QED
      BY <3>1, <3>2
  <2>16. NoStrandedClaim'
    BY <2>15 DEF NoStrandedClaim
  <2>17. ClaimShape'
    <3>1. cancelled' \subseteq tombstoned' /\ \A d \in tombstoned' \cup reported' : claim'[d] # NONE
      BY <1>1, <1>4, <2>5 DEF ClaimShape, TypeOK
    <3> QED
      BY <1>4, <2>15, <3>1 DEF ClaimShape
  <2> QED
    BY <1>2, <2>10, <2>11, <2>12, <2>13, <2>14, <2>16, <2>17 DEF Agreement, Order
<1> QED
  BY <1>8, <1>9

-----------------------------------------------------------------------------
(* Removing a reply subtree.                                               *)

(* R is the reply subtree of r in t: it holds what replies to what it      *)
(* holds and to r, and the root only if r is the prompt of the root.       *)
Subtree(t, r, R) ==
  /\ \A a \in R : \A b \in Nodes : Leads(t, a, b) => b \in R
  /\ r = Prompt(r[1]) => r[1] \in R
  /\ \A b \in Nodes : r = Status(r[1]) /\ replyTo[t][b] = r => b \in R
  /\ root[t] \in R => r = Prompt(r[1]) /\ r[1] = root[t]
  /\ r[1] \in Live(t) /\ (r = Status(r[1]) => r[1] \in status[t])

(* The prompts reached from r are its reply subtree.                       *)
LEMMA ReferencedSubtree ==
  ASSUME TypeOK, NodeShape, NEW t \in Trees, NEW r \in Refs, r \in LiveRefs(t)
  PROVE  Subtree(t, r, ReferencedNodes(t, r))
<1> DEFINE S == IF r[2] = "prompt" THEN {r[1]} ELSE {n \in Nodes : replyTo[t][n] = r}
           Closed(C) == \A a \in C : \A b \in Nodes \ C : ~Leads(t, a, b)
           R == {x \in Nodes : \A C \in SUBSET Nodes : S \subseteq C /\ Closed(C) => x \in C}
<1>1. ReferencedNodes(t, r) = R
  BY DEF ReferencedNodes, Closure, Leads
<1>3. /\ r[1] \in Nodes
      /\ r = Prompt(r[1]) <=> r[2] = "prompt"
      /\ r = Status(r[1]) <=> r[2] = "status"
  BY RefCases, RefParts DEF Prompt, Status
<1>4. S \subseteq R
  BY <1>3
<1>5. ASSUME NEW a \in R, NEW b \in Nodes, Leads(t, a, b) PROVE b \in R
  <2> SUFFICES ASSUME NEW C \in SUBSET Nodes, S \subseteq C, Closed(C) PROVE b \in C
    OBVIOUS
  <2>1. a \in C
    OBVIOUS
  <2> QED
    BY <1>5, <2>1
<1>6. ASSUME root[t] \in R PROVE r = Prompt(r[1]) /\ r[1] = root[t]
  <2> DEFINE C == Nodes \ {root[t]}
  <2>1. replyTo[t][root[t]] = NONE
    BY <1>6 DEF NodeShape
  <2>2. Closed(C)
    <3> SUFFICES ASSUME NEW a \in Nodes, Leads(t, a, root[t]) PROVE FALSE
      BY <1>6
    <3>1. Prompt(a) \in Refs /\ Status(a) \in Refs
      BY RefTypes
    <3> QED
      BY <2>1, <3>1, NoneIsNoRef DEF Leads
  <2>3. ~(S \subseteq C)
    BY <1>6, <2>2
  <2>4. root[t] \in S
    BY <1>3, <2>3
  <2> QED
    BY <1>3, <2>1, <2>4, NoneIsNoRef
<1>7. r[1] \in Live(t) /\ (r = Status(r[1]) => r[1] \in status[t])
  BY <1>3, LiveRefFacts, RefCases DEF NodeShape
<1>8. r = Prompt(r[1]) => r[1] \in R
  BY <1>3, <1>4
<1>9. \A b \in Nodes : r = Status(r[1]) /\ replyTo[t][b] = r => b \in R
  BY <1>3, <1>4
<1> HIDE DEF R
<1> QED
  BY <1>1, <1>5, <1>6, <1>7, <1>8, <1>9 DEF Subtree

(* A removal takes the subtree of a message of a published tree.           *)
LEMMA RemovalTakesSubtree ==
  ASSUME Agreement, NEW r \in Refs, RemoveSubtree(r)
  PROVE  \E t \in Trees, i \in Nodes, R \in SUBSET Nodes :
           /\ trees[i] = t /\ root[t] = i /\ r \in LiveRefs(t)
           /\ Subtree(t, r, R) /\ RemoveNodes(t, r, R)
<1> DEFINE t == TreeFor(r)
           R == ReferencedNodes(t, r)
<1>1. t \in Trees /\ t # NONE /\ r \in LiveRefs(t)
  BY TreeForType DEF RemoveSubtree, Agreement
<1>2. index[r] \in Nodes /\ trees[index[r]] = t
  BY <1>1 DEF TreeFor, Agreement, TypeOK
<1>3. root[t] = index[r]
  BY <1>1, <1>2, IndexExpanded DEF Agreement, Graph, IndexPoints
<1>4. Subtree(t, r, R)
  BY <1>1, ReferencedSubtree DEF Agreement, Graph
<1>5. R \in SUBSET Nodes
  BY ReferencedNodesType
<1>6. RemoveNodes(t, r, R)
  BY DEF RemoveSubtree
<1> HIDE DEF t, R
<1> QED
  BY <1>1, <1>2, <1>3, <1>4, <1>5, <1>6

(* What a removal does to each node and tree.                              *)
LEMMA RemovedNodes ==
  ASSUME TypeOK, NEW t \in Trees, NEW r \in Refs, NEW R \in SUBSET Nodes, RemoveNodes(t, r, R),
         NEW u \in Trees, NEW m \in Nodes
  PROVE  /\ state'[u][m] = IF u = t /\ m \in R THEN "absent"
                           ELSE IF u = t /\ m = r[1] THEN "error" ELSE state[u][m]
         /\ place'[u][m] = IF u = t /\ (m \in R \/ m = r[1]) THEN 0 ELSE place[u][m]
         /\ m \in status'[u] <=> m \in status[u] /\ ~(u = t /\ (m \in R \/ m = r[1]))
         /\ replyTo'[u][m] = IF u = t /\ m \in R THEN NONE ELSE replyTo[u][m]
  BY DEF RemoveNodes, Unqueued, TypeOK

(* The live nodes after a removal.                                         *)
LEMMA RemovedLive ==
  ASSUME TypeOK, NEW t \in Trees, NEW r \in Refs, NEW R \in SUBSET Nodes, RemoveNodes(t, r, R),
         Subtree(t, r, R), NEW u \in Trees, NEW m \in Nodes
  PROVE  m \in Live(u)' <=> m \in Live(u) /\ ~(u = t /\ m \in R)
<1>1. state'[u][m] = IF u = t /\ m \in R THEN "absent"
                     ELSE IF u = t /\ m = r[1] THEN "error" ELSE state[u][m]
  BY RemovedNodes
<1>2. state[t][r[1]] # "absent"
  BY DEF Subtree, Live
<1> QED
  BY <1>1, <1>2 DEF Live

(* What is left hangs together.                                            *)
LEMMA RemovalGraph ==
  ASSUME Agreement, NEW t \in Trees, NEW r \in Refs, NEW R \in SUBSET Nodes,
         RemoveNodes(t, r, R), Subtree(t, r, R), root[t] \in Nodes
  PROVE  NodeShape' /\ Rooted' /\ ParentsLive' /\ (root[t] \in R => Live(t)' = {})
<1>1. TypeOK /\ NodeShape /\ Rooted /\ ParentsLive
  BY DEF Agreement, Graph
<1>2. root' = root
  BY DEF RemoveNodes
<1>3. \A u \in Trees, m \in Nodes : m \in Live(u)' <=> m \in Live(u) /\ ~(u = t /\ m \in R)
  BY <1>1, RemovedLive
<1>4. \A u \in Trees, m \in Nodes :
        /\ m \in status'[u] <=> m \in status[u] /\ ~(u = t /\ (m \in R \/ m = r[1]))
        /\ replyTo'[u][m] = IF u = t /\ m \in R THEN NONE ELSE replyTo[u][m]
  BY <1>1, RemovedNodes
<1>5. \A u \in Trees : /\ Live(u) \subseteq Nodes /\ Live(u)' \subseteq Nodes
                       /\ status[u] \subseteq Nodes /\ status'[u] \subseteq Nodes
  <2>1. \A u \in Trees : Live(u) \subseteq Nodes /\ Live(u)' \subseteq Nodes
    BY DEF Live
  <2>2. \A u \in Trees : status'[u] \subseteq status[u]
    BY <1>1 DEF RemoveNodes, TypeOK
  <2> QED
    BY <1>1, <2>1, <2>2 DEF TypeOK
<1>6. r = Prompt(r[1]) \/ r = Status(r[1])
  BY RefCases
<1>7. root[t] \in R => Live(t)' = {}
  <2> SUFFICES ASSUME root[t] \in R PROVE Live(t) \subseteq R
    BY <1>3, <1>5
  <2>1. ClosedIn(t, R)
    BY DEF ClosedIn, Subtree
  <2> QED
    BY <1>1, <2>1 DEF Rooted
<1>8. NodeShape'
  <2> SUFFICES ASSUME NEW u \in Trees
               PROVE  /\ root'[u] = NONE => Live(u)' = {}
                      /\ status'[u] \subseteq Live(u)'
                      /\ \A m \in Nodes : m \notin Live(u)' \/ m = root'[u] => replyTo'[u][m] = NONE
    BY DEF NodeShape
  <2>1. root'[u] = NONE => Live(u)' = {}
    BY <1>1, <1>2, <1>3, <1>5 DEF NodeShape
  <2>2. status'[u] \subseteq Live(u)'
    BY <1>1, <1>3, <1>4, <1>5 DEF NodeShape
  <2>3. \A m \in Nodes : m \notin Live(u)' \/ m = root'[u] => replyTo'[u][m] = NONE
    BY <1>1, <1>2, <1>3, <1>4 DEF NodeShape
  <2> QED
    BY <2>1, <2>2, <2>3
<1>9. Rooted'
  <2> SUFFICES ASSUME NEW u \in Trees, NEW C \in SUBSET Nodes, root'[u] \in C, ClosedIn(u, C)'
               PROVE  Live(u)' \subseteq C
    BY DEF Rooted
  <2>1. CASE u = t
    <3> DEFINE D == C \cup R
    <3>1. ClosedIn(t, D)
      <4> SUFFICES ASSUME NEW a \in D, NEW b \in Nodes \ D, Leads(t, a, b) PROVE FALSE
        BY DEF ClosedIn
      <4>1. a \in C /\ a \notin R /\ a \in Nodes
        BY DEF Subtree
      <4>2. ~Leads(t, a, b)'
        BY <2>1, <4>1 DEF ClosedIn
      <4>3. replyTo'[t][b] = replyTo[t][b]
        BY <1>4
      <4>4. replyTo[t][b] = Status(a) /\ a \in status[t] /\ a \notin status'[t]
        BY <4>2, <4>3 DEF Leads
      <4>5. a = r[1]
        BY <1>4, <4>1, <4>4
      <4>6. r = Status(a)
        BY <1>6, <4>1, <4>5 DEF Subtree
      <4> QED
        BY <4>4, <4>5, <4>6 DEF Subtree
    <3>2. Live(t) \subseteq D
      BY <1>1, <1>2, <2>1, <3>1 DEF Rooted
    <3> QED
      BY <1>3, <1>5, <2>1, <3>2
  <2>2. CASE u # t
    <3>1. ClosedIn(u, C)
      <4> SUFFICES ASSUME NEW a \in C, NEW b \in Nodes \ C PROVE ~Leads(u, a, b)
        BY DEF ClosedIn
      <4>1. ~Leads(u, a, b)'
        BY DEF ClosedIn
      <4>2. replyTo'[u][b] = replyTo[u][b] /\ (a \in status'[u] <=> a \in status[u])
        BY <1>4, <2>2
      <4> QED
        BY <4>1, <4>2 DEF Leads
    <3> QED
      BY <1>1, <1>2, <1>3, <1>5, <2>2, <3>1 DEF Rooted
  <2> QED
    BY <2>1, <2>2
<1>10. ParentsLive'
  <2> SUFFICES ASSUME NEW u \in Trees, NEW m \in Live(u)' \ {root'[u]}
               PROVE  replyTo'[u][m] \in LiveRefs(u)'
    BY DEF ParentsLive
  <2>1. m \in Nodes /\ m \in Live(u) \ {root[u]} /\ ~(u = t /\ m \in R)
    BY <1>2, <1>3, <1>5
  <2> DEFINE x == replyTo[u][m]
             a == x[1]
  <2>2. replyTo'[u][m] = x /\ x \in LiveRefs(u) /\ x \in Refs
    BY <1>1, <1>4, <2>1 DEF ParentsLive, LiveRefs
  <2>3. a \in Nodes /\ (x = Prompt(a) \/ x = Status(a))
    BY <2>2, RefCases
  <2> HIDE DEF a
  <2>4. CASE x = Prompt(a)
    <3>1. a \in Live(u)
      BY <2>2, <2>3, <2>4, LiveRefFacts
    <3>2. ~(u = t /\ a \in R)
      BY <2>1, <2>4 DEF Leads, Subtree
    <3>3. a \in Live(u)'
      BY <1>3, <2>3, <3>1, <3>2
    <3> QED
      BY <2>2, <2>3, <2>4, <3>3, LiveRefFactsNext
  <2>5. CASE x = Status(a)
    <3>1. a \in status[u]
      BY <2>2, <2>3, <2>5, LiveRefFacts
    <3>2. ~(u = t /\ a \in R)
      BY <2>1, <2>5, <3>1 DEF Leads, Subtree
    <3>3. ~(u = t /\ a = r[1])
      BY <1>6, <2>1, <2>5, <3>2 DEF Subtree
    <3>4. a \in (status[u])'
      BY <1>4, <2>3, <3>1, <3>2, <3>3
    <3> QED
      BY <2>2, <2>3, <2>5, <3>4, LiveRefFactsNext
  <2> QED
    BY <2>3, <2>4, <2>5
<1> QED
  BY <1>7, <1>8, <1>9, <1>10

(* The index follows: it forgets the messages that are gone, and all of    *)
(* them when the root goes.                                                *)
LEMMA RemovalIndex ==
  ASSUME Agreement, TypeOK', NEW t \in Trees, NEW i0 \in Nodes, NEW r \in Refs,
         NEW R \in SUBSET Nodes, RemoveNodes(t, r, R), Subtree(t, r, R),
         trees[i0] = t, root[t] = i0
  PROVE  IndexIsExact' /\ RunnableIsPublished'
<1> DEFINE refs == {r} \cup {x \in LiveRefs(t) : x[1] \in R}
<1>1. TypeOK /\ NodeShape /\ IndexPoints
  BY IndexExpanded DEF Agreement, Graph
<1>2. /\ root' = root
      /\ trees' = IF i0 \in R THEN [trees EXCEPT ![i0] = NONE] ELSE trees
      /\ \A x \in Refs : index'[x] = IF index[x] = i0 /\ (i0 \in R \/ x \in refs) THEN NONE ELSE index[x]
  BY DEF RemoveNodes
<1>3. \A i \in Nodes : trees'[i] = IF i = i0 /\ i0 \in R THEN NONE ELSE trees[i]
  BY <1>1, <1>2 DEF TypeOK
<1>4. \A u \in Trees, m \in Nodes : m \in Live(u)' <=> m \in Live(u) /\ ~(u = t /\ m \in R)
  BY <1>1, RemovedLive
<1>5. \A u \in Trees, m \in Nodes :
        m \in status'[u] <=> m \in status[u] /\ ~(u = t /\ (m \in R \/ m = r[1]))
  BY <1>1, RemovedNodes
<1>6. i0 # NONE /\ t # NONE
  BY TreesAssumption
<1>7. \A i \in Nodes : trees[i] # NONE => trees[i] \in Trees /\ (trees[i] = t <=> i = i0)
  BY <1>1 DEF IndexPoints, TypeOK
<1>8. r[1] \in Nodes /\ (r = Prompt(r[1]) \/ r = Status(r[1]))
  BY RefCases
<1>9. \A m \in Nodes :
        /\ m \in Live(t) => (Prompt(m) \in refs <=> m \in R)
        /\ m \in status[t] => (Status(m) \in refs <=> m \in R \/ m = r[1])
  <2> SUFFICES ASSUME NEW m \in Nodes
               PROVE  /\ m \in Live(t) => (Prompt(m) \in refs <=> m \in R)
                      /\ m \in status[t] => (Status(m) \in refs <=> m \in R \/ m = r[1])
    OBVIOUS
  <2>1. Prompt(m)[1] = m /\ Status(m)[1] = m
    BY RefFacts
  <2>2. m \in Live(t) => Prompt(m) \in LiveRefs(t)
    BY LiveRefFacts
  <2>3. m \in status[t] => Status(m) \in LiveRefs(t)
    BY LiveRefFacts
  <2>4. Prompt(m) = r => m \in R
    BY <2>1 DEF Subtree
  <2>5. Status(m) = r => m = r[1]
    BY <2>1
  <2>6. m = r[1] => Status(m) = r \/ m \in R
    BY <1>8 DEF Subtree
  <2> QED
    BY <2>1, <2>2, <2>3, <2>4, <2>5, <2>6
<1>10. \A m \in Nodes :
         /\ index'[Prompt(m)] = IF index[Prompt(m)] = i0 /\ (i0 \in R \/ Prompt(m) \in refs) THEN NONE
                                ELSE index[Prompt(m)]
         /\ index'[Status(m)] = IF index[Status(m)] = i0 /\ (i0 \in R \/ Status(m) \in refs) THEN NONE
                                ELSE index[Status(m)]
  BY <1>2, RefTypes
<1>11. \A m \in Nodes : /\ index[Prompt(m)] # NONE => index[Prompt(m)] \in Nodes
                        /\ index[Status(m)] # NONE => index[Status(m)] \in Nodes
  BY <1>1, RefTypes DEF TypeOK
<1> HIDE DEF refs
<1>12. ASSUME NEW i \in Nodes, trees'[i] # NONE
       PROVE  /\ root'[trees'[i]] = i /\ i \in Live(trees[i])'
              /\ \A m \in Nodes : m \in Live(trees[i])' => index'[Prompt(m)] = i
              /\ \A m \in Nodes : m \in status'[trees'[i]] => index'[Status(m)] = i
  <2> DEFINE v == trees[i]
  <2>1. trees'[i] = v /\ v # NONE /\ v \in Trees /\ (v = t <=> i = i0) /\ (i = i0 => i0 \notin R)
    BY <1>3, <1>7, <1>12
  <2>2. \A m \in Nodes : m \in Live(trees[i])' <=> m \in Live(v) /\ ~(v = t /\ m \in R)
    <3>1. \A m \in Nodes : m \in Live(trees[i])' <=> state'[v][m] # "absent"
      BY <2>1 DEF Live
    <3>3. \A m \in Nodes : state'[v][m] # "absent" <=> m \in Live(v) /\ ~(v = t /\ m \in R)
      <4> SUFFICES ASSUME NEW m \in Nodes
                   PROVE  state'[v][m] # "absent" <=> m \in Live(v) /\ ~(v = t /\ m \in R)
        OBVIOUS
      <4>1. state'[v][m] = IF v = t /\ m \in R THEN "absent"
                           ELSE IF v = t /\ m = r[1] THEN "error" ELSE state[v][m]
        BY <1>1, <2>1, RemovedNodes
      <4> QED
        BY <4>1 DEF Live, Subtree
    <3> QED
      BY <3>1, <3>3
  <2>3. \A m \in Nodes : m \in status'[v] <=> m \in status[v] /\ ~(v = t /\ (m \in R \/ m = r[1]))
    BY <1>5, <2>1
  <2>4. /\ root[v] = i /\ i \in Live(v)
        /\ \A m \in Nodes : m \in Live(v) => index[Prompt(m)] = i
        /\ \A m \in Nodes : m \in status[v] => index[Status(m)] = i
    BY <1>1, <2>1 DEF IndexPoints
  <2>5. \A m \in Nodes : m \in Live(trees[i])' => index'[Prompt(m)] = i
    BY <1>9, <1>10, <2>1, <2>2, <2>4
  <2>6. \A m \in Nodes : m \in status'[v] => index'[Status(m)] = i
    BY <1>9, <1>10, <2>1, <2>3, <2>4
  <2> HIDE DEF v
  <2> QED
    BY <1>2, <2>1, <2>2, <2>4, <2>5, <2>6
<1>13. ASSUME NEW m \in Nodes, index'[Prompt(m)] # NONE
       PROVE  trees'[index'[Prompt(m)]] # NONE /\ m \in Live(trees[index[Prompt(m)]])'
  <2> DEFINE i == index[Prompt(m)]
             v == trees[i]
  <2>1. index'[Prompt(m)] = i /\ i \in Nodes /\ (i = i0 => i0 \notin R /\ Prompt(m) \notin refs)
    BY <1>10, <1>11, <1>13
  <2>2. v # NONE /\ m \in Live(v)
    BY <1>1, <1>13, <2>1 DEF IndexPoints
  <2>3. trees'[i] = v /\ v \in Trees /\ (v = t <=> i = i0)
    BY <1>3, <1>7, <2>1, <2>2
  <2>4. ~(v = t /\ m \in R)
    BY <1>9, <2>1, <2>2, <2>3
  <2>5. state'[v][m] # "absent"
    <3>1. state'[v][m] = IF v = t /\ m \in R THEN "absent"
                         ELSE IF v = t /\ m = r[1] THEN "error" ELSE state[v][m]
      BY <1>1, <2>3, RemovedNodes
    <3> QED
      BY <2>2, <2>4, <3>1 DEF Live
  <2>6. trees'[index'[Prompt(m)]] = v
    BY <2>1, <2>3
  <2> HIDE DEF v, i
  <2> QED
    BY <2>2, <2>5, <2>6 DEF Live
<1>14. ASSUME NEW m \in Nodes, index'[Status(m)] # NONE
       PROVE  trees'[index'[Status(m)]] # NONE /\ m \in status'[trees'[index'[Status(m)]]]
  <2> DEFINE i == index[Status(m)]
             v == trees[i]
  <2>1. index'[Status(m)] = i /\ i \in Nodes /\ (i = i0 => i0 \notin R /\ Status(m) \notin refs)
    BY <1>10, <1>11, <1>14
  <2>2. v # NONE /\ m \in status[v]
    BY <1>1, <1>14, <2>1 DEF IndexPoints
  <2>3. trees'[i] = v /\ v \in Trees /\ (v = t <=> i = i0)
    BY <1>3, <1>7, <2>1, <2>2
  <2>4. ~(v = t /\ (m \in R \/ m = r[1]))
    BY <1>9, <2>1, <2>2, <2>3
  <2>5. m \in status'[v]
    BY <1>5, <2>2, <2>3, <2>4
  <2>6. trees'[index'[Status(m)]] = v
    BY <2>1, <2>3
  <2> HIDE DEF v, i
  <2> QED
    BY <2>2, <2>5, <2>6
<1>15. IndexIsExact'
  <2>1. IndexPoints'
    BY <1>12, <1>13, <1>14 DEF IndexPoints
  <2> QED
    BY <2>1, IndexCollected
<1>16. RunnableIsPublished'
  <2> SUFFICES ASSUME NEW u \in Trees, NEW m \in Nodes, state'[u][m] \in Runnable
               PROVE  root'[u] # NONE /\ trees'[root'[u]] = u
    BY DEF RunnableIsPublished
  <2>1. state[u][m] \in Runnable /\ ~(u = t /\ m \in R)
    BY <1>1, RemovedNodes DEF Runnable
  <2>2. root[u] # NONE /\ trees[root[u]] = u /\ root[u] \in Nodes
    BY <1>1, <2>1 DEF Agreement, Order, RunnableIsPublished, TypeOK
  <2>3. CASE u # t
    BY <1>2, <1>3, <2>2, <2>3
  <2>4. CASE u = t
    <3>1. m \in Live(t)'
      BY <1>4, <2>1, <2>4 DEF Live, Runnable
    <3>2. root[t] \notin R
      BY <3>1, RemovalGraph
    <3> QED
      BY <1>2, <1>3, <2>2, <2>4, <3>2
  <2> QED
    BY <2>3, <2>4
<1> QED
  BY <1>15, <1>16

(* The queue loses what was removed, and the claim that ran it is marked.  *)
LEMMA RemovalOrder ==
  ASSUME Agreement, NEW t \in Trees, NEW r \in Refs, NEW R \in SUBSET Nodes,
         RemoveNodes(t, r, R), Subtree(t, r, R), root[t] \in Nodes
  PROVE  /\ QueueIsPending' /\ WaitingShape' /\ ParentsFirst'
         /\ NoStrandedClaim' /\ ClaimShape'
<1> DEFINE affected == R \cup {r[1]}
           marked == {active[t]} \cap {k \in Claims : claim[k] # NONE /\ claim[k].node \in affected}
<1>1. TypeOK /\ Graph /\ Order /\ NoStrandedClaim /\ ClaimShape
  BY DEF Agreement
<1>2. /\ tombstoned' = tombstoned \cup marked /\ cancelled' = cancelled \cup marked
      /\ UNCHANGED <<root, active, claim, task, reported, admissions>>
  BY DEF RemoveNodes
<1>3. \A u \in Trees, m \in Nodes :
        /\ u = t /\ m \in affected => state'[u][m] \in {"absent", "error"} /\ place'[u][m] = 0
        /\ ~(u = t /\ m \in affected) =>
             /\ state'[u][m] = state[u][m] /\ place'[u][m] = place[u][m]
             /\ m \in status'[u] <=> m \in status[u]
  BY <1>1, RemovedNodes
<1>4. \A u \in Trees : active[u] # NONE =>
        /\ active[u] \in Claims /\ claim[active[u]] # NONE
        /\ claim[active[u]].tree = u /\ claim[active[u]].node \in Nodes
  BY <1>1, GrantedClaim, TreesAssumption DEF Agreement
<1>5. \A u \in Trees : active[u] # NONE =>
        (active[u] \in marked <=> u = t /\ claim[active[u]].node \in affected)
  BY <1>4
<1>6. marked \subseteq Claims /\ \A d \in marked : claim[d] # NONE
  OBVIOUS
<1> HIDE DEF affected, marked
<1>7. QueueIsPending'
  <2> SUFFICES ASSUME NEW u \in Trees, NEW m \in Nodes
               PROVE  /\ place'[u][m] # 0 <=> state'[u][m] = "pending"
                      /\ place'[u][m] # 0 => active[u] # NONE
                      /\ state'[u][m] = "in_progress" =>
                           ActiveOn(u, m) /\ active[u] \notin tombstoned'
    BY <1>2 DEF QueueIsPending, ActiveOn
  <2>1. CASE u = t /\ m \in affected
    BY <1>3, <2>1
  <2>2. CASE ~(u = t /\ m \in affected)
    <3>1. /\ place[u][m] # 0 <=> state[u][m] = "pending"
          /\ place[u][m] # 0 => active[u] # NONE
          /\ state[u][m] = "in_progress" => ActiveOn(u, m) /\ active[u] \notin tombstoned
      BY <1>1 DEF Order, QueueIsPending
    <3>2. ActiveOn(u, m) => active[u] \notin marked
      BY <1>5, <2>2 DEF ActiveOn
    <3> QED
      BY <1>2, <1>3, <2>2, <3>1, <3>2
  <2> QED
    BY <2>1, <2>2
<1>8. WaitingShape'
  <2> SUFFICES ASSUME NEW u \in Trees, NEW m \in Nodes
               PROVE  /\ state'[u][m] = "pending" => m \in status'[u]
                      /\ place'[u][m] <= admissions
                      /\ \A o \in Nodes : place'[u][m] # 0 /\ place'[u][o] = place'[u][m] => o = m
    BY <1>2 DEF WaitingShape
  <2>1. /\ state[u][m] = "pending" => m \in status[u]
        /\ place[u][m] <= admissions
        /\ \A o \in Nodes : place[u][m] # 0 /\ place[u][o] = place[u][m] => o = m
    BY <1>1 DEF Order, WaitingShape
  <2>2. \A o \in Nodes : place'[u][o] = place[u][o] \/ place'[u][o] = 0
    BY <1>3
  <2>3. admissions \in Nat
    BY <1>1 DEF TypeOK
  <2> QED
    BY <1>3, <2>1, <2>2, <2>3
<1>9. ParentsFirst'
  <2> SUFFICES ASSUME NEW u \in Trees, NEW m \in Live(u)' \ {root'[u]}
               PROVE  LET p == replyTo'[u][m][1] IN
                      /\ state'[u][m] = "in_progress" => state'[u][p] \notin Runnable
                      /\ place'[u][m] # 0 /\ place'[u][p] # 0 => place'[u][p] < place'[u][m]
    BY DEF ParentsFirst
  <2> DEFINE p == replyTo[u][m][1]
  <2>1. m \in Nodes
    BY DEF Live
  <2>2. m \in Live(u) \ {root[u]} /\ ~(u = t /\ m \in R)
    BY <1>1, <1>2, <2>1, RemovedLive
  <2>3. replyTo'[u][m] = replyTo[u][m]
    BY <1>1, <2>1, <2>2, RemovedNodes
  <2>4. p \in Nodes
    BY <1>1, <2>2, RefParts DEF Graph, ParentsLive, LiveRefs
  <2>5. /\ state[u][m] = "in_progress" => state[u][p] \notin Runnable
        /\ place[u][m] # 0 /\ place[u][p] # 0 => place[u][p] < place[u][m]
    BY <1>1, <2>2 DEF Order, ParentsFirst
  <2> HIDE DEF p
  <2>6. \A o \in Nodes : /\ place'[u][o] = place[u][o] \/ place'[u][o] = 0
                         /\ state'[u][o] = state[u][o] \/ state'[u][o] \in {"absent", "error"}
    BY <1>3
  <2>7. /\ state'[u][m] = "in_progress" => state'[u][p] \notin Runnable
        /\ place'[u][m] # 0 /\ place'[u][p] # 0 => place'[u][p] < place'[u][m]
    BY <2>1, <2>4, <2>5, <2>6 DEF Runnable
  <2> QED
    BY <2>3, <2>7 DEF p
<1>10. NoStrandedClaim'
  BY <1>1, <1>2 DEF NoStrandedClaim
<1>11. ClaimShape'
  <2>1. cancelled' \subseteq tombstoned' /\ \A d \in tombstoned' \cup reported' : claim'[d] # NONE
    BY <1>1, <1>2, <1>6 DEF ClaimShape
  <2>2. ASSUME NEW u \in Trees, active[u] # NONE
        PROVE  LET c == active[u]
                   n == claim[c].node IN
               /\ root[u] # NONE
               /\ n \notin status'[u] => c \in cancelled'
               /\ c \notin tombstoned' => state'[u][n] \notin {"absent", "pending"}
               /\ c \in reported \/ task[c] \in {"finishing", "unentered"} => state'[u][n] # "in_progress"
    <3> DEFINE c == active[u]
               n == claim[c].node
    <3>1. /\ root[u] # NONE
          /\ n \notin status[u] => c \in cancelled
          /\ c \notin tombstoned => state[u][n] \notin {"absent", "pending"}
          /\ c \in reported \/ task[c] \in {"finishing", "unentered"} => state[u][n] # "in_progress"
      BY <1>1, <2>2 DEF ClaimShape
    <3>2. n \in Nodes
      BY <1>4, <2>2
    <3>3. CASE u = t /\ n \in affected
      <4>1. c \in marked
        BY <1>5, <2>2, <3>3
      <4> HIDE DEF c, n
      <4> QED
        BY <1>2, <1>3, <3>1, <3>2, <3>3, <4>1 DEF c, n
    <3>4. CASE ~(u = t /\ n \in affected)
      <4> HIDE DEF c, n
      <4> QED
        BY <1>2, <1>3, <3>1, <3>2, <3>4 DEF c, n
    <3> QED
      BY <3>3, <3>4
  <2> QED
    BY <1>2, <2>1, <2>2 DEF ClaimShape
<1> QED
  BY <1>7, <1>8, <1>9, <1>10, <1>11

-----------------------------------------------------------------------------
(* The structures agree in every state.                                    *)

(* A step that settles nodes keeps them so, if it keeps the claims.        *)
LEMMA SettlesAgreement ==
  ASSUME Agreement, Settles, TypeOK', OneTaskPerTree', NoStrandedClaim', ClaimShape'
  PROVE  Agreement'
  BY SettlesGraph, SettlesOrder DEF Agreement

(* Every stop, clear and removal does.                                     *)
LEMMA CancelAgreement == ASSUME Agreement, Cancel PROVE Agreement'
<1>1. TypeOK' /\ OneTaskPerTree'
  BY CancelType, CancelOneTask DEF Agreement
<1>2. ASSUME NEW n \in Nodes, CancelNode(n) PROVE Agreement'
  BY <1>1, <1>2, CancelNodeSettles, CancelNodeShape, SettlesAgreement
<1>3. ASSUME CancelAll PROVE Agreement'
  <2>1. Published \in SUBSET Trees
    BY PublishedTrees DEF Agreement
  <2>2. NoStrandedClaim' /\ ClaimShape'
    BY <1>3, <2>1, SweepShape DEF CancelAll
  <2> QED
    BY <1>1, <1>3, <2>2, CancelAllSettles, SettlesAgreement
<1>4. ASSUME NEW s \in Scopes, ClearScope(s) PROVE Agreement'
  <2> DEFINE P == {t \in Published : ScopeOf[root[t]] = s}
  <2>1. P \in SUBSET Trees
    BY PublishedTrees DEF Agreement
  <2>2. Sweep(P)
    BY <1>4 DEF ClearScope
  <2>3. Calms /\ NoStrandedClaim' /\ ClaimShape'
    BY <2>1, <2>2, SweepShape
  <2>4. QueueIsPending' /\ WaitingShape' /\ ParentsFirst'
    BY <2>3, CalmsOrder DEF Agreement
  <2>5. Graph' /\ RunnableIsPublished'
    BY <1>1, <1>4, ClearGraph
  <2> QED
    BY <1>1, <2>3, <2>4, <2>5 DEF Agreement, Order
<1>5. ASSUME NEW r \in Refs, RemoveSubtree(r) PROVE Agreement'
  <2>1. PICK t \in Trees, i \in Nodes, R \in SUBSET Nodes :
           /\ trees[i] = t /\ root[t] = i /\ r \in LiveRefs(t)
           /\ Subtree(t, r, R) /\ RemoveNodes(t, r, R)
    BY <1>5, RemovalTakesSubtree
  <2>2. NodeShape' /\ Rooted' /\ ParentsLive'
    BY <2>1, RemovalGraph
  <2>3. IndexIsExact' /\ RunnableIsPublished'
    BY <1>1, <2>1, RemovalIndex
  <2>4. /\ QueueIsPending' /\ WaitingShape' /\ ParentsFirst'
        /\ NoStrandedClaim' /\ ClaimShape'
    BY <2>1, RemovalOrder
  <2> QED
    BY <1>1, <2>2, <2>3, <2>4 DEF Agreement, Graph, Order
<1>6. ASSUME NEW r \in Refs, RemoveSubtreeRaises(r) PROVE Agreement'
  BY <1>1, <1>6, RaisesSettles, RaisesShape, SettlesAgreement
<1> QED
  BY <1>2, <1>3, <1>4, <1>5, <1>6 DEF Cancel

(* Every step of a task does.                                              *)
LEMMA TaskAgreement == ASSUME Agreement, NEW c \in Claims, TaskStep(c) PROVE Agreement'
<1>1. CASE FinishClaim(c)
  BY <1>1, FinishAgreement
<1>2. CASE ~FinishClaim(c)
  <2>1. TypeOK' /\ OneTaskPerTree'
    BY TaskType, TaskOneTask DEF Agreement
  <2> QED
    BY <1>2, <2>1, TaskSettles, TaskShape, SettlesAgreement
<1> QED
  BY <1>1, <1>2

(* At first there is no tree, no queue and no claim.                       *)
LEMMA AgreementInit == Init => Agreement
<1> SUFFICES ASSUME Init PROVE Agreement
  OBVIOUS
<1>1. TypeOK /\ OneTaskPerTree
  BY TypeInit, OneTaskInit
<1>2. \A t \in Trees : Live(t) = {} /\ LiveRefs(t) = {}
  <2>1. \A t \in Trees : Live(t) = {}
    BY DEF Init, Live
  <2> QED
    BY <2>1, RefParts DEF Init, LiveRefs
<1>3. NodeShape /\ IndexIsExact /\ ParentsLive /\ Rooted
  BY <1>2 DEF Init, NodeShape, IndexIsExact, ParentsLive, Rooted
<1>4. Order
  BY <1>2 DEF Init, Order, QueueIsPending, ParentsFirst, RunnableIsPublished, WaitingShape, Runnable
<1>5. NoStrandedClaim /\ ClaimShape
  BY DEF Init, NoStrandedClaim, ClaimShape
<1> QED
  BY <1>1, <1>3, <1>4, <1>5 DEF Agreement, Graph

(* No step breaks the agreement.                                           *)
LEMMA AgreementNext == ASSUME Agreement, [Next]_vars PROVE Agreement'
  BY AdmitAgreement, CancelAgreement, TaskAgreement, QuietAgreement DEF Next

(* So it holds in every state.                                             *)
LEMMA AgreementHolds == Spec => []Agreement
  BY AgreementInit, AgreementNext, PTL DEF Spec

(* No conversation is stuck, whatever stops, failures, removals and late   *)
(* reports interleave: a claim that a MessageTree has granted always has a *)
(* TreeQueueProcessor task that will release it.                           *)
THEOREM NoStrandedCorrect == Spec => []NoStrandedClaim
<1>1. Agreement => NoStrandedClaim
  BY DEF Agreement
<1> QED
  BY <1>1, AgreementHolds, PTL

(* The queue of a tree, the index of TreeRepository and the graph of       *)
(* replies tell the same story after every admission, stop, clear and      *)
(* removal.                                                                *)
THEOREM ForestCorrect == Spec => []ForestIsConsistent
<1>1. Agreement => ForestIsConsistent
  BY DEF Agreement, Graph, Order, ForestIsConsistent, RepliesHaveParents, ParentsLive, ParentsFirst
<1> QED
  BY <1>1, AgreementHolds, PTL

-----------------------------------------------------------------------------
(* Sessions.                                                               *)

(* What a step of a task, but for the last, does to the claims.            *)
LEMMA TaskFrame ==
  ASSUME TypeOK, NEW c \in Claims, TaskStep(c), ~FinishClaim(c)
  PROVE  /\ claim' = claim /\ task[c] \in LiveTasks /\ task'[c] \in LiveTasks
         /\ \A d \in Claims \ {c} : task'[d] = task[d]
  BY DEF TaskStep, TaskStarts, AnnouncementEnds, RunnerReturns, RunnerRaises, RecordSession,
         CompleteClaim, FailClaim, FailureCallback, taskOnly, taskVars, TypeOK, LiveTasks, TaskStates

(* Sessions that are kept, dropped or recorded by a claim of the tree      *)
(* leave the claims that resume one alone.                                 *)
LEMMA SessionsKept ==
  ASSUME TypeOK, SessionShape, ResumedSessionIsIdle, UNCHANGED claim,
         \A d \in Claims : task'[d] = task[d] \/ (task[d] # "gone" /\ task'[d] # "none"),
         \A t \in Trees : \A n \in Nodes :
           \/ session'[t][n] \in {session[t][n], NONE}
           \/ LET c == session'[t][n] IN
              c \in Claims /\ claim[c] # NONE /\ claim[c].tree = t /\ task'[c] # "none"
  PROVE  SessionShape' /\ ResumedSessionIsIdle'
<1>1. ASSUME NEW t \in Trees, NEW n \in Nodes, session'[t][n] # NONE
      PROVE  /\ claim[session'[t][n]] # NONE /\ claim[session'[t][n]].tree = t
             /\ task'[session'[t][n]] # "none"
  <2> DEFINE s == session'[t][n]
  <2>1. CASE s = session[t][n]
    <3>1. s \in Claims /\ claim[s] # NONE /\ claim[s].tree = t /\ task[s] # "none"
      BY <1>1, <2>1 DEF SessionShape, TypeOK
    <3> HIDE DEF s
    <3>2. task'[s] # "none"
      BY <3>1
    <3> QED
      BY <3>1, <3>2 DEF s
  <2>2. CASE s # session[t][n]
    BY <1>1, <2>2
  <2> QED
    BY <2>1, <2>2
<1>2. ASSUME NEW c \in Claims, claim[c] # NONE, claim[c].resumed # NONE
      PROVE  LET s == claim[c].resumed IN
             claim[s] # NONE /\ claim[s].tree = claim[c].tree /\ task'[s] = "gone"
  <2> DEFINE s == claim[c].resumed
  <2>1. s \in Claims
    BY <1>2 DEF TypeOK, ClaimRecord
  <2>2. claim[s] # NONE /\ claim[s].tree = claim[c].tree /\ task[s] = "gone"
    BY <1>2 DEF ResumedSessionIsIdle
  <2> HIDE DEF s
  <2>3. task'[s] = "gone"
    BY <2>1, <2>2
  <2> QED
    BY <2>2, <2>3 DEF s
<1> QED
  BY <1>1, <1>2 DEF SessionShape, ResumedSessionIsIdle

(* A new claim of a tree resumes a session of that tree whose run is over. *)
LEMMA SessionGranted ==
  ASSUME TypeOK, OneTaskPerTree, SessionShape, ResumedSessionIsIdle, UNCHANGED session,
         NEW t \in Trees, NEW k \in Claims, NEW n \in Nodes, NEW reply \in Refs \cup {NONE},
         claim[k] = NONE,
         claim' = [claim EXCEPT ![k] =
                     [tree |-> t, node |-> n, resumed |-> ParentSession(t, reply, session[t])]],
         \A d \in Claims \ {k} : task'[d] \in {task[d], "gone"},
         active[t] # NONE => task'[active[t]] = "gone"
  PROVE  SessionShape' /\ ResumedSessionIsIdle'
<1> DEFINE s0 == ParentSession(t, reply, session[t])
           record == [tree |-> t, node |-> n, resumed |-> s0]
<1>1. claim'[k] = record /\ \A d \in Claims \ {k} : claim'[d] = claim[d]
  BY DEF TypeOK
<1>2. record.tree = t /\ record.resumed = s0
  OBVIOUS
<1>3. ASSUME NEW u \in Trees, NEW m \in Nodes, session[u][m] # NONE
      PROVE  /\ session[u][m] \in Claims \ {k}
             /\ claim'[session[u][m]] # NONE /\ claim'[session[u][m]].tree = u
             /\ task'[session[u][m]] # "none"
  <2> DEFINE s == session[u][m]
  <2>1. s \in Claims /\ claim[s] # NONE /\ claim[s].tree = u /\ task[s] # "none"
    BY <1>3 DEF SessionShape, TypeOK
  <2> HIDE DEF s
  <2>2. s # k
    BY <2>1
  <2>3. claim'[s] = claim[s] /\ task'[s] # "none"
    BY <1>1, <2>1, <2>2
  <2> QED
    BY <2>1, <2>2, <2>3 DEF s
<1>4. s0 # NONE => s0 \in Claims \ {k} /\ claim[s0] # NONE /\ claim[s0].tree = t /\ task'[s0] = "gone"
  <2> SUFFICES ASSUME s0 # NONE
               PROVE  s0 \in Claims \ {k} /\ claim[s0] # NONE /\ claim[s0].tree = t /\ task'[s0] = "gone"
    OBVIOUS
  <2>1. reply \in Refs /\ reply[1] \in Nodes /\ s0 = session[t][reply[1]]
    BY RefParts DEF ParentSession
  <2>2. s0 \in Claims \ {k}
    BY <1>3, <2>1
  <2>3. claim[s0] # NONE /\ claim[s0].tree = t /\ task[s0] # "none"
    BY <2>1 DEF SessionShape
  <2> HIDE DEF s0
  <2>4. CASE task[s0] \in LiveTasks
    <3>1. active[t] = s0
      BY <2>2, <2>3, <2>4 DEF OneTaskPerTree
    <3> QED
      BY <2>2, <2>3, <3>1
  <2>5. CASE task[s0] \notin LiveTasks
    <3>1. task[s0] = "gone"
      BY <2>2, <2>3, <2>5 DEF TypeOK, LiveTasks
    <3> QED
      BY <2>2, <2>3, <3>1
  <2> QED
    BY <2>4, <2>5
<1> HIDE DEF s0, record
<1>5. SessionShape'
  BY <1>3 DEF SessionShape
<1>6. ASSUME NEW c \in Claims, claim'[c] # NONE, claim'[c].resumed # NONE
      PROVE  LET s == claim'[c].resumed IN
             claim'[s] # NONE /\ claim'[s].tree = claim'[c].tree /\ task'[s] = "gone"
  <2>1. CASE c = k
    BY <1>1, <1>2, <1>4, <1>6, <2>1
  <2>2. CASE c # k
    <3> DEFINE s == claim[c].resumed
    <3>1. claim'[c] = claim[c]
      BY <1>1, <2>2
    <3>2. s \in Claims
      BY <1>6, <3>1 DEF TypeOK, ClaimRecord
    <3>3. claim[s] # NONE /\ claim[s].tree = claim[c].tree /\ task[s] = "gone"
      BY <1>6, <3>1 DEF ResumedSessionIsIdle
    <3> HIDE DEF s
    <3>4. claim'[s] = claim[s] /\ task'[s] = "gone"
      BY <1>1, <3>2, <3>3
    <3> QED
      BY <3>1, <3>3, <3>4 DEF s
  <2> QED
    BY <2>1, <2>2
<1>7. ResumedSessionIsIdle'
  BY <1>6 DEF ResumedSessionIsIdle
<1> QED
  BY <1>5, <1>7

(* A prompt that arrives resumes no session that is in use.                *)
LEMMA ArrivesSession ==
  ASSUME Agreement, SessionShape, ResumedSessionIsIdle, NEW t \in Trees, NEW n \in Nodes,
         NEW reply \in Refs \cup {NONE}, Arrives(t, n, reply)
  PROVE  SessionShape' /\ ResumedSessionIsIdle'
<1>1. session' = session /\ TypeOK /\ OneTaskPerTree
  BY DEF Arrives, Agreement
<1>2. CASE active[t] # NONE
  <2>1. UNCHANGED <<claim, task>>
    BY <1>1, <1>2, ArrivesClaim
  <2> QED
    BY <1>1, <2>1, SessionsKept
<1>3. CASE active[t] = NONE
  <2>1. PICK k \in Claims :
          /\ claim[k] = NONE
          /\ claim' = [claim EXCEPT ![k] =
               [tree |-> t, node |-> n, resumed |-> ParentSession(t, reply, session[t])]]
          /\ task' = [task EXCEPT ![k] = "admitted"]
    BY <1>1, <1>3, ArrivesClaim
  <2>2. \A d \in Claims \ {k} : task'[d] = task[d]
    BY <1>1, <2>1 DEF TypeOK
  <2> QED
    BY <1>1, <1>3, <2>1, <2>2, SessionGranted
<1> QED
  BY <1>2, <1>3

(* Nor does the one that waited longest.                                   *)
LEMMA FinishSession ==
  ASSUME Agreement, SessionShape, ResumedSessionIsIdle, NEW c \in Claims, FinishClaim(c)
  PROVE  SessionShape' /\ ResumedSessionIsIdle'
<1> DEFINE t    == claim[c].tree
           gone == [task EXCEPT ![c] = "gone"]
<1>1. TypeOK /\ OneTaskPerTree /\ session' = session /\ task[c] \notin {"none", "gone"}
  BY DEF FinishClaim, Agreement
<1>2. t \in Trees /\ active[t] = c
  BY <1>1, FinishClaimGranted DEF FinishClaim, OneTaskPerTree, LiveTasks, TaskStates
<1>3. gone[c] = "gone" /\ \A d \in Claims \ {c} : gone[d] = task[d]
  BY <1>1 DEF TypeOK
<1>4. CASE task' = gone /\ claim' = claim
  <2>1. \A d \in Claims : task'[d] = task[d] \/ (task[d] # "gone" /\ task'[d] # "none")
    BY <1>1, <1>3, <1>4
  <2> QED
    BY <1>1, <1>4, <2>1, SessionsKept
<1>5. CASE ~(task' = gone /\ claim' = claim)
  <2>1. PICK n \in Nodes, k \in Claims :
          /\ Fresh(k)
          /\ claim' = [claim EXCEPT ![k] =
                          [tree |-> t, node |-> n,
                           resumed |-> ParentSession(t, replyTo[t][n], session[t])]]
          /\ task'  = [gone EXCEPT ![k] = SuccessorTask(t)]
    BY <1>2, <1>5 DEF FinishClaim, Oldest
  <2>2. claim[k] = NONE /\ k # c
    BY <1>1, <2>1, FinishClaimGranted, TreesAssumption DEF Fresh
  <2>3. task'[c] = "gone" /\ \A d \in Claims \ {k} : task'[d] \in {task[d], "gone"}
    BY <1>1, <1>3, <2>1, <2>2 DEF TypeOK
  <2>4. PICK reply \in Refs \cup {NONE} : reply = replyTo[t][n]
    BY <1>1, <1>2 DEF TypeOK
  <2>5. PICK u \in Trees : u = t
    BY <1>2
  <2> HIDE DEF t, gone
  <2>6. claim' = [claim EXCEPT ![k] =
                    [tree |-> u, node |-> n, resumed |-> ParentSession(u, reply, session[u])]]
    BY <2>1, <2>4, <2>5
  <2> QED
    BY <1>1, <1>2, <2>2, <2>3, <2>5, <2>6, SessionGranted
<1> QED
  BY <1>4, <1>5

(* A session is recorded for the tree of the claim that reports it.        *)
LEMMA TaskSession ==
  ASSUME Agreement, SessionShape, ResumedSessionIsIdle, NEW c \in Claims, TaskStep(c)
  PROVE  SessionShape' /\ ResumedSessionIsIdle'
<1>1. CASE FinishClaim(c)
  BY <1>1, FinishSession
<1>2. CASE ~FinishClaim(c)
  <2>1. TypeOK
    BY DEF Agreement
  <2>2. /\ claim' = claim /\ task[c] \in LiveTasks /\ task'[c] \in LiveTasks
        /\ \A d \in Claims \ {c} : task'[d] = task[d]
    BY <1>2, <2>1, TaskFrame
  <2>3. \A d \in Claims : task'[d] = task[d] \/ (task[d] # "gone" /\ task'[d] # "none")
    BY <2>2 DEF LiveTasks
  <2>4. claim[c] # NONE
    BY <2>2 DEF Agreement, OneTaskPerTree
  <2>5. ASSUME NEW u \in Trees, NEW n \in Nodes
        PROVE  \/ session'[u][n] \in {session[u][n], NONE}
               \/ session'[u][n] = c /\ claim[c].tree = u
    <3>1. CASE RecordSession(c) \/ CompleteClaim(c)
      <4> DEFINE t == TreeOfClaim(c)
                 m == claim[c].node
      <4>1. CASE Current(t, c)
        <5>1. t \in Trees /\ claim[c].tree = t /\ m \in Nodes
          BY <2>2, <4>1, CurrentClaim
        <5>2. session' = session \/ \E s \in {session[t][m], c} : session' = [session EXCEPT ![t][m] = s]
          BY <3>1 DEF RecordSession, CompleteClaim
        <5> HIDE DEF t, m
        <5> QED
          BY <2>1, <5>1, <5>2 DEF TypeOK
      <4>2. CASE ~Current(t, c)
        BY <3>1, <4>2 DEF RecordSession, CompleteClaim
      <4> QED
        BY <4>1, <4>2
    <3>2. CASE ~(RecordSession(c) \/ CompleteClaim(c))
      BY <1>2, <3>2 DEF TaskStep, TaskStarts, AnnouncementEnds, RunnerReturns, RunnerRaises,
                        FailClaim, FailureCallback, taskOnly
    <3> QED
      BY <3>1, <3>2
  <2>6. task'[c] # "none"
    BY <2>2 DEF LiveTasks
  <2> QED
    BY <2>1, <2>2, <2>3, <2>4, <2>5, <2>6, SessionsKept
<1> QED
  BY <1>1, <1>2

(* A stop or a removal at most drops sessions.                             *)
LEMMA CancelSession ==
  ASSUME TypeOK, SessionShape, ResumedSessionIsIdle, Cancel
  PROVE  SessionShape' /\ ResumedSessionIsIdle'
<1>1. UNCHANGED <<claim, task>>
  BY DEF Cancel, CancelNode, CancelAll, ClearScope, Sweep, RemoveSubtree, RemoveNodes, RemoveSubtreeRaises
<1>2. \A t \in Trees : \A n \in Nodes : session'[t][n] \in {session[t][n], NONE}
  <2>1. CASE \E r \in Refs : RemoveSubtree(r)
    <3>1. PICK r \in Refs : RemoveSubtree(r)
      BY <2>1
    <3> DEFINE u == TreeFor(r)
               S == ReferencedNodes(u, r) \cup {r[1]}
    <3>2. RemoveNodes(u, r, ReferencedNodes(u, r))
      BY <3>1 DEF RemoveSubtree
    <3>3. session' = [session EXCEPT ![u] = [n \in Nodes |-> IF n \in S THEN NONE ELSE @[n]]]
      BY <3>2 DEF RemoveNodes
    <3> HIDE DEF u, S
    <3> QED
      BY <3>3 DEF TypeOK
  <2>2. CASE ~\E r \in Refs : RemoveSubtree(r)
    <3>1. session' = session
      BY <2>2 DEF Cancel, CancelNode, CancelAll, ClearScope, Sweep, RemoveSubtreeRaises
    <3> QED
      BY <3>1
  <2> QED
    BY <2>1, <2>2
<1> QED
  BY <1>1, <1>2, SessionsKept

(* Two runners never drive one CLI session: the session that a claim       *)
(* resumes was recorded by an earlier run of the same MessageTree, and the *)
(* task of that run is over.                                               *)
THEOREM ResumedCorrect == Spec => []ResumedSessionIsIdle
<1>1. Init => SessionShape /\ ResumedSessionIsIdle
  BY DEF Init, SessionShape, ResumedSessionIsIdle
<1>2. Agreement /\ SessionShape /\ ResumedSessionIsIdle /\ [Next]_vars =>
        SessionShape' /\ ResumedSessionIsIdle'
  <2> SUFFICES ASSUME Agreement, SessionShape, ResumedSessionIsIdle, [Next]_vars
               PROVE  SessionShape' /\ ResumedSessionIsIdle'
    OBVIOUS
  <2>1. ASSUME NEW n \in Nodes, AdmitRoot(n) PROVE SessionShape' /\ ResumedSessionIsIdle'
    BY <2>1, RootArrives, ArrivesSession
  <2>2. ASSUME NEW n \in Nodes, NEW r \in Refs, AdmitReply(n, r)
        PROVE  SessionShape' /\ ResumedSessionIsIdle'
    BY <2>2, ReplyArrives, ArrivesSession
  <2>3. CASE UNCHANGED vars
    BY <2>3 DEF vars, SessionShape, ResumedSessionIsIdle
  <2>4. ASSUME NEW n \in Nodes, AdmitAgain(n) PROVE SessionShape' /\ ResumedSessionIsIdle'
    BY <2>3, <2>4, AgainIsQuiet
  <2>5. CASE Cancel
    BY <2>5, CancelSession DEF Agreement
  <2> QED
    BY <2>1, <2>2, <2>3, <2>4, <2>5, TaskSession DEF Next, Admit
<1> QED
  BY <1>1, <1>2, AgreementHolds, PTL DEF Spec

-----------------------------------------------------------------------------
(* What a step may never do.                                               *)

(* Only a claim that is still current completes a node, its own.           *)
LEMMA CompletedBy ==
  ASSUME Agreement, Next, NEW t \in Trees, NEW n \in Nodes,
         state'[t][n] = "completed", state[t][n] # "completed"
  PROVE  active[t] \notin tombstoned
<1>1. TypeOK
  BY DEF Agreement
<1>2. CASE Admit
  <2>1. ASSUME NEW u \in Trees, NEW m \in Nodes, NEW reply, Arrives(u, m, reply) PROVE FALSE
    BY <1>1, <2>1, ArrivesNodes DEF Agreement
  <2>2. ASSUME NEW m \in Nodes, AdmitAgain(m) PROVE FALSE
    BY <2>2, AgainIsQuiet DEF vars
  <2> QED
    BY <1>2, <2>1, <2>2, RootArrives, ReplyArrives DEF Admit
<1>3. ASSUME NEW u, NEW S, state' = [state EXCEPT ![u] = Errored(u, S)] PROVE FALSE
  BY <1>1, <1>3 DEF TypeOK, Errored
<1>4. CASE Cancel
  <2>1. ASSUME NEW P, Sweep(P) PROVE FALSE
    BY <2>1 DEF Sweep, Errored
  <2>2. ASSUME NEW m \in Nodes, CancelNode(m) PROVE FALSE
    BY <1>3, <2>2 DEF CancelNode
  <2>3. ASSUME NEW r \in Refs, RemoveSubtree(r) PROVE FALSE
    <3> DEFINE u == TreeFor(r)
               R == ReferencedNodes(u, r)
    <3>1. RemoveNodes(u, r, R)
      BY <2>3 DEF RemoveSubtree
    <3> HIDE DEF u, R
    <3>2. state' = [state EXCEPT ![u] = [o \in Nodes |-> IF o \in R THEN "absent"
                                        ELSE IF o \in R \cup {r[1]} THEN "error" ELSE @[o]]]
      BY <3>1 DEF RemoveNodes
    <3> QED
      BY <1>1, <3>2 DEF TypeOK
  <2>4. ASSUME NEW r \in Refs, RemoveSubtreeRaises(r) PROVE FALSE
    BY <1>3, <2>4 DEF RemoveSubtreeRaises
  <2> QED
    BY <1>4, <2>1, <2>2, <2>3, <2>4 DEF Cancel, CancelAll, ClearScope
<1>5. ASSUME NEW c \in Claims, TaskStep(c) PROVE active[t] \notin tombstoned
  <2>1. CASE FinishClaim(c)
    <3> DEFINE u == claim[c].tree
    <3>1. u \in Trees
      BY <1>1, <2>1, FinishClaimGranted DEF Agreement
    <3>2. state' = state \/ \E m \in Nodes : state' = [state EXCEPT ![u][m] = "in_progress"]
      BY <2>1 DEF FinishClaim, Oldest
    <3> HIDE DEF u
    <3>3. CASE state' = state
      BY <3>3
    <3>4. CASE state' # state
      <4>1. PICK m \in Nodes : state' = [state EXCEPT ![u][m] = "in_progress"]
        BY <3>2, <3>4
      <4>2. state'[t][n] = IF t = u /\ n = m THEN "in_progress" ELSE state[t][n]
        BY <1>1, <3>1, <4>1 DEF TypeOK
      <4> QED
        BY <4>2
    <3> QED
      BY <3>3, <3>4
  <2>2. CASE CompleteClaim(c)
    <3> DEFINE u == TreeOfClaim(c)
               m == claim[c].node
    <3>1. Current(u, c) /\ state' = [state EXCEPT ![u][m] = "completed"]
      BY <2>2 DEF CompleteClaim
    <3> HIDE DEF u, m
    <3>2. t = u
      BY <1>1, <3>1 DEF TypeOK
    <3> QED
      BY <3>1, <3>2 DEF Current
  <2>3. CASE FailClaim(c) \/ FailureCallback(c)
    <3>1. state' = state \/ \E u, S : state' = [state EXCEPT ![u] = Errored(u, S)]
      BY <2>3 DEF FailClaim, FailureCallback, FailEffect
    <3> QED
      BY <1>3, <3>1
  <2>4. CASE ~(FinishClaim(c) \/ CompleteClaim(c) \/ FailClaim(c) \/ FailureCallback(c))
    BY <1>5, <2>4 DEF TaskStep, TaskStarts, AnnouncementEnds, RunnerReturns, RunnerRaises,
                      RecordSession, taskOnly
  <2> QED
    BY <2>1, <2>2, <2>3, <2>4
<1> QED
  BY <1>2, <1>4, <1>5 DEF Next

(* Only a claim that is still current records a session.                   *)
LEMMA RecordedBy ==
  ASSUME TypeOK, Next, NEW t \in Trees, NEW n \in Nodes,
         session'[t][n] \notin {session[t][n], NONE}
  PROVE  active[t] \notin tombstoned
<1>1. CASE Admit
  BY <1>1 DEF Admit, AdmitRoot, AdmitReply, AdmitAgain
<1>2. CASE Cancel
  <2>1. ASSUME NEW r \in Refs, RemoveSubtree(r) PROVE FALSE
    <3> DEFINE u == TreeFor(r)
               S == ReferencedNodes(u, r) \cup {r[1]}
    <3>1. RemoveNodes(u, r, ReferencedNodes(u, r))
      BY <2>1 DEF RemoveSubtree
    <3>2. session' = [session EXCEPT ![u] = [o \in Nodes |-> IF o \in S THEN NONE ELSE @[o]]]
      BY <3>1 DEF RemoveNodes
    <3> HIDE DEF u, S
    <3> QED
      BY <3>2 DEF TypeOK
  <2> QED
    BY <1>2, <2>1 DEF Cancel, CancelNode, CancelAll, ClearScope, Sweep, RemoveSubtreeRaises
<1>3. ASSUME NEW c \in Claims, TaskStep(c) PROVE active[t] \notin tombstoned
  <2>1. CASE RecordSession(c) \/ CompleteClaim(c)
    <3> DEFINE u == TreeOfClaim(c)
               m == claim[c].node
    <3>1. /\ Current(u, c)
          /\ \E s \in {session[u][m], c} : session' = [session EXCEPT ![u][m] = s]
      BY <2>1 DEF RecordSession, CompleteClaim
    <3> HIDE DEF u, m
    <3>2. t = u
      BY <3>1 DEF TypeOK
    <3> QED
      BY <3>1, <3>2 DEF Current
  <2>2. CASE ~(RecordSession(c) \/ CompleteClaim(c))
    BY <1>3, <2>2 DEF TaskStep, TaskStarts, AnnouncementEnds, RunnerReturns, RunnerRaises,
                      FailClaim, FailureCallback, FinishClaim, taskOnly
  <2> QED
    BY <2>1, <2>2
<1> QED
  BY <1>1, <1>2, <1>3 DEF Next

(* A stop is final: from the moment the aggregate has marked a claim,      *)
(* complete_claim, record_session and fail_claim leave neither a completed *)
(* node nor a session in its tree, whatever the CLI still reports.         *)
THEOREM StoppedCorrect == Spec => StoppedRunLeavesNoTrace
<1>1. Agreement => TypeOK
  BY DEF Agreement
<1>2. Agreement /\ [Next]_vars =>
        [\A t \in Trees : active[t] \in tombstoned =>
           \A n \in Nodes :
             /\ state'[t][n] = "completed" => state[t][n] = "completed"
             /\ session'[t][n] \in {session[t][n], NONE}]_vars
  BY <1>1, CompletedBy, RecordedBy
<1> QED
  BY <1>2, AgreementHolds, PTL DEF Spec, StoppedRunLeavesNoTrace

(* Only a published tree is admitted to, so only one starts a task.        *)
LEMMA StartedBy ==
  ASSUME Agreement, Next, NEW t \in Trees, root[t] # NONE, t \notin Published,
         NEW c \in Claims, task[c] = "none", task'[c] # "none"
  PROVE  claim'[c].tree # t
<1>1. TypeOK /\ root[t] \in Nodes
  BY DEF Agreement, TypeOK
<1>2. ASSUME NEW u \in Trees, NEW n \in Nodes, NEW reply \in Refs \cup {NONE}, Arrives(u, n, reply),
             u # t
      PROVE  claim'[c].tree # t
  <2>1. PICK k \in Claims :
          /\ task' = [task EXCEPT ![k] = "admitted"]
          /\ claim'[k].tree = u
    BY <1>1, <1>2, ArrivesClaim
  <2>2. c = k
    BY <1>1, <2>1 DEF TypeOK
  <2> QED
    BY <1>2, <2>1, <2>2
<1>3. \A i \in Nodes : trees[i] # t
  BY TreesAssumption DEF Published
<1>4. CASE Admit
  <2>1. ASSUME NEW n \in Nodes, AdmitRoot(n) PROVE claim'[c].tree # t
    <3>1. PICK u \in Trees : root[u] = NONE /\ Arrives(u, n, NONE)
      BY <2>1, RootArrives
    <3> QED
      BY <1>2, <3>1
  <2>2. ASSUME NEW n \in Nodes, NEW r \in Refs, AdmitReply(n, r) PROVE claim'[c].tree # t
    <3>1. PICK u \in Trees, i \in Nodes : trees[i] = u /\ Arrives(u, n, r)
      BY <2>2, ReplyArrives
    <3> QED
      BY <1>2, <1>3, <3>1
  <2>3. ASSUME NEW n \in Nodes, AdmitAgain(n) PROVE FALSE
    BY <2>3, AgainIsQuiet DEF vars
  <2> QED
    BY <1>4, <2>1, <2>2, <2>3 DEF Admit
<1>5. CASE Cancel
  BY <1>5 DEF Cancel, CancelNode, CancelAll, ClearScope, Sweep, RemoveSubtree, RemoveNodes,
              RemoveSubtreeRaises
<1>6. ASSUME NEW d \in Claims, TaskStep(d) PROVE claim'[c].tree # t
  <2>1. CASE ~FinishClaim(d)
    <3>1. task[d] \in LiveTasks /\ \A e \in Claims \ {d} : task'[e] = task[e]
      BY <1>1, <1>6, <2>1, TaskFrame
    <3> QED
      BY <3>1 DEF LiveTasks
  <2>2. CASE FinishClaim(d)
    <3> DEFINE u    == claim[d].tree
               gone == [task EXCEPT ![d] = "gone"]
    <3>1. task[d] # "none"
      BY <2>2 DEF FinishClaim
    <3>2. task' # gone
      BY <1>1, <3>1 DEF TypeOK
    <3>3. PICK n \in Nodes, k \in Claims :
            /\ Fresh(k)
            /\ claim' = [claim EXCEPT ![k] =
                           [tree |-> u, node |-> n,
                            resumed |-> ParentSession(u, replyTo[u][n], session[u])]]
            /\ task'  = [gone EXCEPT ![k] = SuccessorTask(u)]
      BY <2>2, <3>2 DEF FinishClaim, Oldest
    <3>4. c = k /\ task'[k] = SuccessorTask(u)
      BY <1>1, <3>1, <3>3 DEF TypeOK
    <3>5. claim'[k].tree = u
      BY <1>1, <3>3 DEF TypeOK
    <3>6. trees[root[u]] = u
      BY <3>4 DEF SuccessorTask
    <3> HIDE DEF u
    <3>7. u # t
      BY <1>1, <1>3, <3>6
    <3> QED
      BY <3>4, <3>5, <3>7
  <2> QED
    BY <2>1, <2>2
<1> QED
  BY <1>4, <1>5, <1>6 DEF Next

(* Detaching is final: a MessageTree that left the repository is never     *)
(* published again, and the processor starts no other task for it.         *)
THEOREM DetachedCorrect == Spec => DetachedTreesStartNothing
<1>1. Agreement /\ [Next]_vars =>
        [\A t \in Trees : root[t] # NONE /\ t \notin Published =>
           /\ t \notin Published'
           /\ \A c \in Claims : task[c] = "none" /\ task'[c] # "none" => claim'[c].tree # t]_vars
  <2> SUFFICES ASSUME Agreement, Next, NEW t \in Trees, root[t] # NONE, t \notin Published
               PROVE  /\ t \notin Published'
                      /\ \A c \in Claims :
                           task[c] = "none" /\ task'[c] # "none" => claim'[c].tree # t
    OBVIOUS
  <2>1. t \notin Published'
    <3>1. \A i \in Nodes : trees[i] # t
      BY TreesAssumption DEF Published
    <3>2. \A i \in Nodes : trees'[i] \in {trees[i], NONE} \/ trees'[i] # t
      <4>1. CASE Admit
        <5>1. ASSUME NEW n \in Nodes, AdmitRoot(n) PROVE \A i \in Nodes : trees'[i] # t
          <6>1. PICK u \in Trees : root[u] = NONE /\ trees' = [trees EXCEPT ![n] = u]
            BY <5>1 DEF AdmitRoot
          <6> QED
            BY <3>1, <6>1 DEF Agreement, TypeOK
        <5> QED
          BY <4>1, <5>1 DEF Admit, AdmitReply, AdmitAgain
      <4>2. CASE Cancel
        <5>1. ASSUME NEW r \in Refs, RemoveSubtree(r)
              PROVE  \A i \in Nodes : trees'[i] \in {trees[i], NONE}
          <6>1. trees' = trees \/ \E j : trees' = [trees EXCEPT ![j] = NONE]
            BY <5>1 DEF RemoveSubtree, RemoveNodes
          <6> QED
            BY <6>1 DEF Agreement, TypeOK
        <5>2. ASSUME NEW s \in Scopes, ClearScope(s)
              PROVE  \A i \in Nodes : trees'[i] \in {trees[i], NONE}
          BY <5>2 DEF ClearScope
        <5> QED
          BY <4>2, <5>1, <5>2 DEF Cancel, CancelNode, CancelAll, RemoveSubtreeRaises
      <4>3. ASSUME NEW c \in Claims, TaskStep(c) PROVE trees' = trees
        BY <4>3 DEF TaskStep, TaskStarts, AnnouncementEnds, RunnerReturns, RunnerRaises, RecordSession,
                    CompleteClaim, FailClaim, FailureCallback, FinishClaim, taskOnly
      <4> QED
        BY <4>1, <4>2, <4>3 DEF Next
    <3>3. t # NONE
      BY TreesAssumption
    <3> QED
      BY <3>1, <3>2, <3>3 DEF Published
  <2> QED
    BY <2>1, StartedBy
<1> QED
  BY <1>1, AgreementHolds, PTL DEF Spec, DetachedTreesStartNothing

-----------------------------------------------------------------------------
(* Order of execution.                                                     *)

(* What a tree shows of its queue: the claim it serves, the claims that it *)
(* has granted, and which of two prompts waits longer.                     *)
Served(t) == IF active[t] = NONE THEN NONE
             ELSE [claim |-> active[t], node |-> claim[active[t]].node]
Granted(t) == {k \in Claims : claim[k] # NONE /\ claim[k].tree = t}
Ahead(t) == {p \in Queued(t) \X Queued(t) : place[t][p[1]] < place[t][p[2]]}

(* The steps of ClaimQueue, in these terms: nothing happens,               *)
LEMMA QueueKept ==
  ASSUME NEW t \in Trees,
         Queued(t)' = Queued(t), Ahead(t)' = Ahead(t), Served(t)' = Served(t), Granted(t)' = Granted(t)
  PROVE  UNCHANGED Queue(t)!vars
  BY DEF Queue!vars, Served, Granted, Ahead

(* prompts are withdrawn,                                                  *)
LEMMA QueueWithdraws ==
  ASSUME NEW t \in Trees, Queued(t)' \subseteq Queued(t),
         Ahead(t)' = Ahead(t) \cap (Queued(t)' \X Queued(t)'),
         Served(t)' = Served(t), Granted(t)' = Granted(t)
  PROVE  Queue(t)!Next
<1>1. Queue(t)!Withdraw(Queued(t)')
  BY DEF Queue!Withdraw, Queue!Stay, Served, Granted, Ahead
<1> QED
  BY <1>1 DEF Queue!Next

(* a prompt arrives while a claim is served,                               *)
LEMMA QueueArrivesBusy ==
  ASSUME NEW t \in Trees, NEW n \in Nodes, Served(t) # NONE, n \notin Queued(t),
         Queued(t)' = Queued(t) \cup {n}, Ahead(t)' = Ahead(t) \cup (Queued(t) \X {n}),
         Served(t)' = Served(t), Granted(t)' = Granted(t)
  PROVE  Queue(t)!Next
<1>1. Queue(t)!ArriveBusy(n)
  BY DEF Queue!ArriveBusy, Served, Granted, Ahead
<1> QED
  BY <1>1 DEF Queue!Next

(* or while none is,                                                       *)
LEMMA QueueArrivesFree ==
  ASSUME NEW t \in Trees, NEW n \in Nodes, NEW k \in Claims, Served(t) = NONE, k \notin Granted(t),
         Queued(t)' = Queued(t), Ahead(t)' = Ahead(t),
         Served(t)' = [claim |-> k, node |-> n], Granted(t)' = Granted(t) \cup {k}
  PROVE  Queue(t)!Next
<1>1. Queue(t)!ArriveFree(n, k)
  BY DEF Queue!ArriveFree, Queue!Grant, Served, Granted, Ahead
<1> QED
  BY <1>1 DEF Queue!Next

(* the tree is released with nothing waiting,                              *)
LEMMA QueueReleasesIdle ==
  ASSUME NEW t \in Trees, Served(t) # NONE, Queued(t) = {}, Queued(t)' = Queued(t), Ahead(t)' = Ahead(t),
         Served(t)' = NONE, Granted(t)' = Granted(t)
  PROVE  Queue(t)!Next
<1>1. Queue(t)!ReleaseIdle
  BY DEF Queue!ReleaseIdle, Served, Granted, Ahead
<1> QED
  BY <1>1 DEF Queue!Next

(* or granted to the prompt that has waited longest.                       *)
LEMMA QueueReleasesNext ==
  ASSUME NEW t \in Trees, NEW n \in Nodes, NEW k \in Claims, Served(t) # NONE, k \notin Granted(t),
         n \in Queued(t), \A m \in Queued(t) : <<m, n>> \notin Ahead(t),
         Queued(t)' = Queued(t) \ {n},
         Ahead(t)' = Ahead(t) \cap ((Queued(t) \ {n}) \X (Queued(t) \ {n})),
         Served(t)' = [claim |-> k, node |-> n], Granted(t)' = Granted(t) \cup {k}
  PROVE  Queue(t)!Next
<1>1. Queue(t)!ReleaseNext(n, k)
  BY DEF Queue!ReleaseNext, Queue!Grant, Queue!Stay, Served, Granted, Ahead
<1> QED
  BY <1>1 DEF Queue!Next

(* Where no prompt is queued anew and no claim is granted or released,     *)
(* prompts are at most withdrawn.                                          *)
LEMMA QueueShrinks ==
  ASSUME TypeOK, NEW t \in Trees, UNCHANGED <<active, claim>>,
         \A n \in Nodes : place'[t][n] \in {place[t][n], 0}
  PROVE  Queue(t)!Next
<1>1. Served(t)' = Served(t) /\ Granted(t)' = Granted(t)
  BY DEF Served, Granted
<1>2. Queued(t)' \subseteq Queued(t)
  BY DEF Queued
<1>3. \A n \in Queued(t)' : n \in Queued(t) /\ place'[t][n] = place[t][n]
  BY DEF Queued
<1>4. Ahead(t)' = Ahead(t) \cap (Queued(t)' \X Queued(t)')
  BY <1>3 DEF Ahead
<1> QED
  BY <1>1, <1>2, <1>4, QueueWithdraws

(* A tree whose row and claims stay keeps its queue.                       *)
LEMMA QueueUntouched ==
  ASSUME NEW t \in Trees, \A n \in Nodes : place'[t][n] = place[t][n], active'[t] = active[t],
         active[t] # NONE => claim'[active[t]] = claim[active[t]],
         Granted(t)' = Granted(t)
  PROVE  UNCHANGED Queue(t)!vars
<1>1. Queued(t)' = Queued(t)
  BY DEF Queued
<1>2. Ahead(t)' = Ahead(t)
  BY <1>1 DEF Ahead, Queued
<1>3. Served(t)' = Served(t)
  BY DEF Served
<1> QED
  BY <1>1, <1>2, <1>3, QueueKept

(* A tree serves a claim if it has granted one.                            *)
LEMMA ServedFacts ==
  ASSUME Agreement, NEW t \in Trees
  PROVE  Served(t) = NONE <=> active[t] = NONE
<1>1. active[t] # NONE => active[t] \in Claims /\ claim[active[t]].node \in Nodes
  BY GrantedClaim DEF Agreement
<1> QED
  BY <1>1, TreesAssumption DEF Served

(* An arrival joins the end of one queue, or is granted its free tree.     *)
LEMMA ArrivesInOrder ==
  ASSUME Agreement, NEW t \in Trees, NEW n \in Nodes, NEW reply \in Refs \cup {NONE},
         Arrives(t, n, reply), NEW u \in Trees
  PROVE  UNCHANGED Queue(u)!vars \/ Queue(u)!Next
<1>1. TypeOK /\ Order
  BY DEF Agreement
<1>2. \A m \in Nodes : place'[u][m] = IF u = t /\ m = n /\ active[t] # NONE THEN admissions + 1
                                      ELSE place[u][m]
  BY <1>1, ArrivesNodes
<1>3. \A m \in Nodes : place[u][m] \in Nat /\ place[u][m] <= admissions /\ admissions \in Nat
  BY <1>1 DEF TypeOK, Order, WaitingShape
<1>4. place[t][n] = 0
  BY <1>1 DEF Arrives, Live, Order, QueueIsPending
<1>5. CASE active[t] # NONE
  <2>1. UNCHANGED <<active, claim>>
    BY <1>1, <1>5, ArrivesClaim
  <2>2. Served(u)' = Served(u) /\ Granted(u)' = Granted(u)
    BY <2>1 DEF Served, Granted
  <2>3. CASE u # t
    BY <1>2, <2>1, <2>2, <2>3, QueueUntouched
  <2>4. CASE u = t
    <3>1. n \notin Queued(t) /\ Queued(t)' = Queued(t) \cup {n}
      BY <1>2, <1>3, <1>4, <1>5, <2>4 DEF Queued
    <3>2. \A m \in Queued(t) : place'[t][m] = place[t][m] /\ place[t][m] < place'[t][n]
                               /\ ~(place'[t][n] < place'[t][m])
      BY <1>2, <1>3, <1>5, <2>4, <3>1 DEF Queued
    <3>3. ~(place'[t][n] < place'[t][n])
      BY <1>2, <1>3, <1>5, <2>4
    <3>4. Ahead(t)' = Ahead(t) \cup (Queued(t) \X {n})
      <4> SUFFICES ASSUME NEW a, NEW b
                   PROVE  <<a, b>> \in Ahead(t)' <=> <<a, b>> \in Ahead(t) \cup (Queued(t) \X {n})
        BY <3>1 DEF Ahead
      <4> QED
        BY <3>1, <3>2, <3>3 DEF Ahead
    <3>5. Served(t) # NONE
      BY <1>5, ServedFacts
    <3> QED
      BY <2>2, <2>4, <3>1, <3>4, <3>5, QueueArrivesBusy
  <2> QED
    BY <2>3, <2>4
<1>6. CASE active[t] = NONE
  <2>1. PICK k \in Claims :
          /\ k # NONE /\ claim[k] = NONE
          /\ active' = [active EXCEPT ![t] = k]
          /\ claim'[k] # NONE /\ claim'[k].tree = t /\ claim'[k].node = n
          /\ \A d \in Claims \ {k} : claim'[d] = claim[d]
    BY <1>1, <1>6, ArrivesClaim DEF TypeOK
  <2>2. \A m \in Nodes : place'[u][m] = place[u][m]
    BY <1>2, <1>6
  <2>3. k \notin Granted(u) /\ Granted(u)' = IF u = t THEN Granted(u) \cup {k} ELSE Granted(u)
    BY <2>1 DEF Granted
  <2>4. CASE u # t
    <3>1. active'[u] = active[u]
      BY <1>1, <2>1, <2>4 DEF TypeOK
    <3>2. active[u] # NONE => active[u] \in Claims \ {k}
      BY <1>1, <2>1, GrantedClaim, TreesAssumption DEF Agreement
    <3> QED
      BY <2>1, <2>2, <2>3, <2>4, <3>1, <3>2, QueueUntouched
  <2>5. CASE u = t
    <3>1. Queued(u)' = Queued(u)
      BY <2>2 DEF Queued
    <3>2. Ahead(u)' = Ahead(u)
      BY <2>2, <3>1 DEF Ahead, Queued
    <3>3. active'[t] = k
      BY <1>1, <2>1 DEF TypeOK
    <3>4. Served(u) = NONE /\ Served(u)' = [claim |-> k, node |-> n]
      BY <1>6, <2>1, <2>5, <3>3 DEF Served
    <3> QED
      BY <2>3, <2>5, <3>1, <3>2, <3>4, QueueArrivesFree
  <2> QED
    BY <2>4, <2>5
<1> QED
  BY <1>5, <1>6

(* What the end of a claim does to its tree's queue.                       *)
FinishIdle(t) ==
  /\ active' = [active EXCEPT ![t] = NONE]
  /\ place'  = [place EXCEPT ![t] = Unqueued(t, Nodes)]
  /\ claim'  = claim

FinishGrants(t, n, k) ==
  /\ Fresh(k)
  /\ place'  = [place EXCEPT ![t] = Unqueued(t, {m \in Nodes : place[t][m] <= place[t][n]})]
  /\ active' = [active EXCEPT ![t] = k]
  /\ claim'  = [claim EXCEPT ![k] =
                  [tree |-> t, node |-> n, resumed |-> ParentSession(t, replyTo[t][n], session[t])]]

FinishForm(t, Q) ==
  \/ Q = {} /\ FinishIdle(t)
  \/ \E n \in Oldest(t, Q), k \in Claims : FinishGrants(t, n, k)

LEMMA FinishTree ==
  ASSUME Agreement, NEW c \in Claims, FinishClaim(c)
  PROVE  \E t \in Trees : active[t] = c /\ c # NONE /\ FinishForm(t, Queued(t))
<1>1. TypeOK /\ OneTaskPerTree /\ Order
  BY DEF Agreement
<1> DEFINE t        == claim[c].tree
           eligible == {n \in Nodes : place[t][n] # 0 /\ state[t][n] = "pending"}
<1>2. t \in Trees /\ active[t] = c /\ c # NONE
  BY <1>1, FinishClaimGranted, TreesAssumption DEF FinishClaim, OneTaskPerTree, LiveTasks, TaskStates
<1>3. eligible = Queued(t)
  BY <1>1, <1>2 DEF Order, QueueIsPending, Queued
<1>4. CASE eligible = {}
  <2>1. FinishIdle(t)
    BY <1>2, <1>4 DEF FinishClaim, FinishIdle
  <2> QED
    BY <1>2, <1>3, <1>4, <2>1 DEF FinishForm
<1>5. CASE eligible # {}
  <2>1. \E n \in Oldest(t, eligible), k \in Claims : FinishGrants(t, n, k)
    BY <1>2, <1>5 DEF FinishClaim, FinishGrants
  <2>2. FinishForm(t, Queued(t))
    BY <1>3, <2>1 DEF FinishForm
  <2> QED
    BY <1>2, <2>2
<1> QED
  BY <1>4, <1>5

(* The end of a claim serves the one that waited longest.                  *)
LEMMA FinishInOrder ==
  ASSUME Agreement, NEW c \in Claims, FinishClaim(c), NEW u \in Trees
  PROVE  UNCHANGED Queue(u)!vars \/ Queue(u)!Next
<1>1. TypeOK /\ OneTaskPerTree /\ Order
  BY DEF Agreement
<1>2. PICK t \in Trees : active[t] = c /\ c # NONE /\ FinishForm(t, Queued(t))
  BY FinishTree
<1>3. Served(t) # NONE
  BY <1>2, ServedFacts
<1>5. CASE Queued(t) = {} /\ FinishIdle(t)
  <2>1. /\ active' = [active EXCEPT ![t] = NONE]
        /\ place'  = [place EXCEPT ![t] = Unqueued(t, Nodes)]
        /\ claim' = claim
    BY <1>5 DEF FinishIdle
  <2>2. \A v \in Trees : Granted(v)' = Granted(v)
    BY <2>1 DEF Granted
  <2>3. \A v \in Trees, m \in Nodes : place'[v][m] = IF v = t THEN 0 ELSE place[v][m]
    BY <1>1, <1>2, <2>1 DEF TypeOK, Unqueued
  <2>4. \A m \in Nodes : place[t][m] = 0
    BY <1>5 DEF Queued
  <2>5. \A v \in Trees : active'[v] = IF v = t THEN NONE ELSE active[v]
    BY <1>1, <2>1 DEF TypeOK
  <2>6. CASE u # t
    BY <2>1, <2>2, <2>3, <2>5, <2>6, QueueUntouched
  <2>7. CASE u = t
    <3>1. Queued(u) = {} /\ Queued(u)' = {}
      BY <2>3, <2>4, <2>7 DEF Queued
    <3>2. Ahead(u)' = Ahead(u)
      BY <3>1 DEF Ahead
    <3>3. Served(u)' = NONE
      BY <2>5, <2>7 DEF Served
    <3> QED
      BY <1>3, <2>2, <2>7, <3>1, <3>2, <3>3, QueueReleasesIdle
  <2> QED
    BY <2>6, <2>7
<1>6. CASE \E n \in Oldest(t, Queued(t)), k \in Claims : FinishGrants(t, n, k)
  <2>1. PICK n \in Oldest(t, Queued(t)), k \in Claims : FinishGrants(t, n, k)
    BY <1>6
  <2> DEFINE record == [tree |-> t, node |-> n,
                        resumed |-> ParentSession(t, replyTo[t][n], session[t])]
  <2>2. n \in Queued(t) /\ n \in Nodes /\ \A m \in Queued(t) : place[t][n] <= place[t][m]
    BY DEF Oldest, Queued
  <2>3. record \in ClaimRecord /\ record # NONE
    <3>1. replyTo[t][n] \in Refs \cup {NONE}
      BY <1>1, <1>2, <2>2 DEF TypeOK
    <3> QED
      BY <1>1, <1>2, <2>2, <3>1, ParentSessionType, TreesAssumption DEF ClaimRecord
  <2>4. claim'[k] = record /\ \A d \in Claims \ {k} : claim'[d] = claim[d]
    BY <1>1, <2>1 DEF TypeOK, FinishGrants
  <2>5. claim'[k] # NONE /\ claim'[k].tree = t /\ claim'[k].node = n /\ claim[k] = NONE /\ k # NONE
    BY <2>1, <2>3, <2>4, TreesAssumption DEF Fresh, FinishGrants
  <2> HIDE DEF record
  <2>6. \A m \in Nodes : place[t][m] \in Nat /\ (place[t][m] = place[t][n] => m = n)
    <3>1. place[t][n] # 0
      BY <2>2 DEF Queued
    <3>2. \A m \in Nodes : place[t][m] \in Nat
      BY <1>1 DEF TypeOK
    <3>3. \A m \in Nodes : place[t][m] = place[t][n] => m = n
      BY <1>1, <2>2, <3>1 DEF Order, WaitingShape
    <3> QED
      BY <3>2, <3>3
  <2>7. \A v \in Trees, m \in Nodes : place'[v][m] = IF v = t /\ m = n THEN 0 ELSE place[v][m]
    <3>1. \A v \in Trees, m \in Nodes :
            place'[v][m] = IF v = t /\ place[t][m] <= place[t][n] THEN 0 ELSE place[v][m]
      BY <1>1, <1>2, <2>1 DEF TypeOK, Unqueued, FinishGrants
    <3>2. \A m \in Nodes \ {n} : place[t][m] <= place[t][n] => place[t][m] = 0
      BY <2>2, <2>6 DEF Queued
    <3> QED
      BY <2>2, <2>6, <3>1, <3>2
  <2>8. \A v \in Trees : active'[v] = IF v = t THEN k ELSE active[v]
    BY <1>1, <2>1 DEF TypeOK, FinishGrants
  <2>9. k \notin Granted(u) /\ Granted(u)' = IF u = t THEN Granted(u) \cup {k} ELSE Granted(u)
    BY <2>4, <2>5 DEF Granted
  <2>10. CASE u # t
    <3>1. active[u] # NONE => active[u] \in Claims \ {k}
      BY <1>1, <2>5, GrantedClaim, TreesAssumption DEF Agreement
    <3> QED
      BY <2>4, <2>7, <2>8, <2>9, <2>10, <3>1, QueueUntouched
  <2>11. CASE u = t
    <3>1. Queued(t)' = Queued(t) \ {n}
      BY <1>2, <2>2, <2>7 DEF Queued
    <3>2. \A m \in Queued(t) \ {n} : place'[t][m] = place[t][m]
      BY <1>2, <2>7 DEF Queued
    <3>3. Ahead(t)' = Ahead(t) \cap ((Queued(t) \ {n}) \X (Queued(t) \ {n}))
      BY <3>1, <3>2 DEF Ahead
    <3>4. \A m \in Queued(t) : <<m, n>> \notin Ahead(t)
      <4>1. ASSUME NEW m \in Queued(t) PROVE ~(place[t][m] < place[t][n])
        <5>1. m \in Nodes
          BY DEF Queued
        <5>2. place[t][m] \in Nat /\ place[t][n] \in Nat /\ place[t][n] <= place[t][m]
          BY <2>2, <2>6, <5>1
        <5> QED
          BY <5>2
      <4> QED
        BY <4>1 DEF Ahead
    <3>5. Served(t)' = [claim |-> k, node |-> n]
      BY <1>2, <2>5, <2>8 DEF Served
    <3> QED
      BY <1>3, <2>2, <2>9, <2>11, <3>1, <3>3, <3>4, <3>5, QueueReleasesNext
  <2> QED
    BY <2>10, <2>11
<1> QED
  BY <1>2, <1>5, <1>6 DEF FinishForm

(* Where nodes only end, prompts are at most withdrawn.                    *)
LEMMA CalmsInOrder ==
  ASSUME TypeOK, Calms, NEW t \in Trees
  PROVE  Queue(t)!Next
<1>1. UNCHANGED <<active, claim>> /\ \A n \in Nodes : place'[t][n] \in {place[t][n], 0}
  BY DEF Calms
<1> QED
  BY <1>1, QueueShrinks

(* So they are by every stop, clear and removal.                           *)
LEMMA CancelInOrder ==
  ASSUME Agreement, Cancel, NEW t \in Trees
  PROVE  Queue(t)!Next
<1>1. TypeOK
  BY DEF Agreement
<1>2. ASSUME NEW n \in Nodes, CancelNode(n) PROVE Queue(t)!Next
  BY <1>1, <1>2, CancelNodeSettles, CalmsInOrder DEF Settles
<1>3. ASSUME CancelAll PROVE Queue(t)!Next
  BY <1>1, <1>3, CancelAllSettles, CalmsInOrder DEF Settles
<1>4. ASSUME NEW s \in Scopes, ClearScope(s) PROVE Queue(t)!Next
  <2> DEFINE P == {u \in Published : ScopeOf[root[u]] = s}
  <2>1. P \in SUBSET Trees
    BY <1>1, PublishedTrees
  <2>2. Sweep(P)
    BY <1>4 DEF ClearScope
  <2> HIDE DEF P
  <2>3. \A n \in Nodes : place'[t][n] \in {place[t][n], 0}
    BY <2>1, <2>2, SweepNodes
  <2>4. UNCHANGED <<active, claim>>
    BY <2>2 DEF Sweep
  <2> QED
    BY <1>1, <2>3, <2>4, QueueShrinks
<1>5. ASSUME NEW r \in Refs, RemoveSubtree(r) PROVE Queue(t)!Next
  <2>1. PICK u \in Trees, R \in SUBSET Nodes : RemoveNodes(u, r, R)
    BY <1>5, RemovalTakesSubtree
  <2>2. \A n \in Nodes : place'[t][n] \in {place[t][n], 0}
    BY <1>1, <2>1, RemovedNodes
  <2>3. UNCHANGED <<active, claim>>
    BY <2>1 DEF RemoveNodes
  <2> QED
    BY <1>1, <2>2, <2>3, QueueShrinks
<1>6. ASSUME NEW r \in Refs, RemoveSubtreeRaises(r) PROVE Queue(t)!Next
  BY <1>1, <1>6, RaisesSettles, CalmsInOrder DEF Settles
<1> QED
  BY <1>2, <1>3, <1>4, <1>5, <1>6 DEF Cancel

(* An admission is an arrival, or nothing happens to any queue.            *)
LEMMA AdmitInOrder ==
  ASSUME Agreement, Admit, NEW u \in Trees
  PROVE  UNCHANGED Queue(u)!vars \/ Queue(u)!Next
<1>1. ASSUME NEW n \in Nodes, AdmitRoot(n)
      PROVE  UNCHANGED Queue(u)!vars \/ Queue(u)!Next
  BY <1>1, RootArrives, ArrivesInOrder
<1>2. ASSUME NEW n \in Nodes, NEW r \in Refs, AdmitReply(n, r)
      PROVE  UNCHANGED Queue(u)!vars \/ Queue(u)!Next
  BY <1>2, ReplyArrives, ArrivesInOrder
<1>3. ASSUME NEW n \in Nodes, AdmitAgain(n)
      PROVE  UNCHANGED <<place, active, claim>>
  BY <1>3, AgainIsQuiet DEF Agreement, vars
<1>4. ASSUME UNCHANGED <<place, active, claim>>
      PROVE  Queue(u)!Next
  BY <1>4, QueueShrinks DEF Agreement
<1> QED
  BY <1>1, <1>2, <1>3, <1>4 DEF Admit

(* Execution order: every tree object serves its prompts one at a time and *)
(* in order of arrival, whatever stops, failures, removals and late        *)
(* reports interleave.                                                     *)
THEOREM FifoCorrect == Spec => EachTreeIsAFifoServer
<1>1. Init => \A t \in Trees : Queue(t)!Init
  BY DEF Init, Queue!Init, Queued
<1>2. ASSUME Agreement, [Next]_vars, NEW t \in Trees
      PROVE  UNCHANGED Queue(t)!vars \/ Queue(t)!Next
  <2>1. CASE Admit
    BY <1>2, <2>1, AdmitInOrder
  <2>2. CASE Cancel
    BY <1>2, <2>2, CancelInOrder
  <2>3. ASSUME NEW c \in Claims, TaskStep(c)
        PROVE  UNCHANGED Queue(t)!vars \/ Queue(t)!Next
    <3>1. CASE FinishClaim(c)
      BY <1>2, <3>1, FinishInOrder
    <3>2. CASE ~FinishClaim(c)
      BY <1>2, <2>3, <3>2, TaskSettles, CalmsInOrder DEF Settles, Agreement
    <3> QED
      BY <3>1, <3>2
  <2>4. CASE UNCHANGED vars
    BY <1>2, <2>4, QueueShrinks DEF Agreement, vars
  <2> QED
    BY <1>2, <2>1, <2>2, <2>3, <2>4 DEF Next
<1>3. Agreement /\ [Next]_vars => \A t \in Trees : UNCHANGED Queue(t)!vars \/ Queue(t)!Next
  BY <1>2
<1> QED
  BY <1>1, <1>3, AgreementHolds, PTL DEF Spec, EachTreeIsAFifoServer

=============================================================================
