-------------------------- MODULE MCMessagingTrees --------------------------
(* Small instances of MessagingTrees for TLC.                              *)
EXTENDS MessagingTrees, TLC

CONSTANTS n1, n2, n3, chat1, chat2

OneChat  == [n \in Nodes |-> chat1]
TwoChats == [n \in Nodes |-> IF n = n3 THEN chat2 ELSE chat1]

(* Prompts of one chat are interchangeable.                                *)
Symmetry == Permutations(Nodes)

(* Liveness is checked without symmetry reduction; since the prompts of    *)
(* one chat are interchangeable it is enough to let them arrive in one     *)
(* order: the k-th admission is of one of the first k prompts.             *)
Rank == (n1 :> 1) @@ (n2 :> 2) @@ (n3 :> 3)

InOrder == \A n \in Nodes : index[Prompt(n)] # index'[Prompt(n)] => Rank[n] <= admissions'

OrderedFairSpec == Init /\ [][Next /\ InOrder]_vars /\ SchedulerFairness /\ RunnerFairness
=============================================================================
