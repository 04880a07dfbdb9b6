------------------------ MODULE ManagedSessionsProofs ------------------------
(***************************************************************************)
(* Proofs about the Claude sessions of the server process, the component   *)
(* "sessions" of MCProviderGenerations (ManagedSessions): no process is    *)
(* left that no session answers for, for any number of runners and ids.    *)
(* The invariant says where the tables keep a session, under which id a    *)
(* runner finds it, and who answers for a process.                         *)
(***************************************************************************)
EXTENDS MCProviderGenerations, TLAPS

(* A session that the manager's tables hold.                               *)
InTables(s) ==
  (\E h \in Claude!Handles : pending[h] = s) \/ (\E i \in Ids : sessions[i] = s)

(* Every session is in the tables under one id.                            *)
OnePlace ==
  /\ \A g, h \in Claude!Handles : pending[g] = pending[h] /\ pending[g] # NONE => g = h
  /\ \A i, j \in Ids : sessions[i] = sessions[j] /\ sessions[i] # NONE => i = j
  /\ \A h \in Claude!Handles, i \in Ids : pending[h] # NONE => pending[h] # sessions[i]

(* The two maps between ids are inverse on the sessions that are known by  *)
(* their real id, and no id leads to two sessions.                         *)
IdsAgree ==
  /\ \A h \in Claude!Handles, i \in Ids :
       tempToReal[h] = i => sessions[i] # NONE /\ realToTemp[i] = h
  /\ \A i \in Ids :
       sessions[i] # NONE => /\ realToTemp[i] \in Claude!Handles
                             /\ tempToReal[realToTemp[i]] = i
                             /\ pending[i] = NONE /\ tempToReal[i] \in {NONE, i}
  /\ \A h \in Claude!Handles : pending[h] # NONE => tempToReal[h] = NONE

TablesOK ==
  /\ pending \in [Claude!Handles -> Runs \cup {NONE}]
  /\ sessions \in [Ids -> Runs \cup {NONE}]
  /\ tempToReal \in [Claude!Handles -> Ids \cup {NONE}]
  /\ realToTemp \in [Ids -> Claude!Handles \cup {NONE}]
  /\ OnePlace /\ IdsAgree

SessionTypes ==
  /\ run \in [Runs -> {"idle", "ready", "running", "removing", "over"}]
  /\ generator \in [Runs -> {"none", "spawning", "feeding", "reading", "ended"}]
  /\ uses \in [Runs -> Runs \cup {NONE}] /\ handle \in [Runs -> Claude!Handles \cup {NONE}]
  /\ process \in [Runs -> Runs \cup {NONE}]
  /\ captured \subseteq Runs /\ closing \subseteq Runs /\ todo \subseteq Runs
  /\ closed \subseteq Runs /\ alive \subseteq Runs /\ pids \subseteq Runs
  /\ unremoved \subseteq Runs
  /\ busy \in Runs \cup {NONE, "stop_all"} /\ failures \in BOOLEAN

(* A runner that has not begun is unknown everywhere.                      *)
Unbegun ==
  \A r \in Runs : run[r] = "idle" =>
    /\ ~InTables(r) /\ pending[r] = NONE /\ tempToReal[r] = NONE
    /\ r \notin alive /\ generator[r] = "none" /\ uses[r] = NONE
    /\ \A q \in Runs : uses[q] # r

Active(r) == run[r] \in {"ready", "running", "removing"}

(* What a runner was given is found under its handle, or was stopped; two  *)
(* runners that are at work do not share a session; none is launching in a *)
(* session that was stopped.                                               *)
RunnerShape(r) ==
  /\ Active(r) \/ generator[r] # "none" => uses[r] \in Runs
  /\ uses[r] # NONE => handle[r] \in Claude!Handles
  /\ \A s \in Runs, h \in Claude!Handles : uses[r] = s /\ handle[r] = h =>
       IF InTables(s) THEN Claude!SessionFor(h) = s ELSE s \in closed
  /\ generator[r] \in {"spawning", "feeding"} => run[r] = "running" /\ uses[r] \notin closed

Apart == \A q, r \in Runs : Active(q) /\ Active(r) /\ q # r => uses[q] # uses[r]

(* A process is that of its runner's session, which the manager holds; if  *)
(* the runner is over, its stop has failed.                                *)
Answered(r) ==
  \E s \in Runs : /\ uses[r] = s /\ process[s] = r /\ InTables(s)
                  /\ run[r] = "over" => s \in closed

(* Who holds the lock to remove a session has found one; stop_all has yet  *)
(* to stop what is left in the tables, unless it counted a failure.        *)
LockShape ==
  /\ \A r \in Runs : busy = r =>
       /\ run[r] = "removing"
       /\ \E h \in Claude!Handles : handle[r] = h /\ Claude!SessionFor(h) # NONE
  /\ busy = "stop_all" /\ ~failures => \A s \in Runs : InTables(s) => s \in todo

SessionIInv ==
  /\ SessionTypes /\ TablesOK /\ Unbegun /\ Apart /\ LockShape
  /\ \A r \in Runs : RunnerShape(r)
  /\ alive \subseteq pids
  /\ \A r \in alive \ unremoved : Answered(r)

(* Looking a session up.                                                   *)
LEMMA FoundInTables ==
  ASSUME TablesOK, NEW h \in Claude!Handles
  PROVE  /\ Claude!Real(h) \in Claude!Handles
         /\ Claude!SessionFor(h) \in Runs \cup {NONE}
         /\ Claude!SessionFor(h) # NONE => InTables(Claude!SessionFor(h))
<1>1. Claude!Real(h) \in Claude!Handles
  BY DEF TablesOK, Claude!Real, Claude!Handles
<1> QED
  BY <1>1 DEF TablesOK, Claude!SessionFor, InTables

LEMMA PendingIsFound ==
  ASSUME TablesOK, NEW h \in Claude!Handles, pending[h] # NONE
  PROVE  /\ Claude!Real(h) = h /\ Claude!SessionFor(h) = pending[h]
         /\ h \in Ids => sessions[h] = NONE
  BY DEF TablesOK, IdsAgree, Claude!Real, Claude!SessionFor

LEMMA RegisteredIsFound ==
  ASSUME TablesOK, SessionsAssumption, NEW i \in Ids, sessions[i] # NONE
  PROVE  Claude!Real(i) = i /\ Claude!SessionFor(i) = sessions[i]
<1>1. i \in Claude!Handles /\ tempToReal[i] \in {NONE, i}
  BY DEF Claude!Handles, TablesOK, IdsAgree
<1> QED
  BY <1>1 DEF Claude!Real, Claude!SessionFor

(* The id that a session was registered under is its own.                  *)
LEMMA RealIsFound ==
  ASSUME TablesOK, SessionsAssumption, NEW h \in Claude!Handles
  PROVE  Claude!SessionFor(Claude!Real(h)) = Claude!SessionFor(h)
<1>1. CASE tempToReal[h] = NONE
  BY <1>1 DEF Claude!Real
<1>2. CASE tempToReal[h] # NONE
  <2>1. /\ tempToReal[h] \in Ids /\ Claude!Real(h) = tempToReal[h]
        /\ sessions[tempToReal[h]] # NONE
    BY <1>2 DEF TablesOK, IdsAgree, Claude!Real
  <2>2. Claude!SessionFor(h) = sessions[tempToReal[h]]
    BY <2>1 DEF Claude!SessionFor
  <2> QED
    BY <2>1, <2>2, RegisteredIsFound
<1> QED
  BY <1>1, <1>2

-----------------------------------------------------------------------------
(* What happens to the tables.                                             *)

LEMMA CreateKeepsTables ==
  ASSUME SessionIInv, SessionsAssumption, NEW r \in Runs, NEW h \in Claude!Handles,
         Claude!Create(r, h)
  PROVE  /\ TablesOK'
         /\ \A s \in Runs : InTables(s)' <=> InTables(s) \/ s = r
         /\ Claude!SessionFor(h)' = r
         /\ \A g \in Claude!Handles :
              Claude!SessionFor(g) # NONE => Claude!SessionFor(g)' = Claude!SessionFor(g)
<1>1. /\ pending' = [pending EXCEPT ![h] = r]
      /\ UNCHANGED <<sessions, tempToReal, realToTemp>>
      /\ run[r] = "idle" /\ (h = r \/ Claude!SessionFor(h) = NONE)
  BY DEF Claude!Create
<1>2. TablesOK
  BY DEF SessionIInv
<1>3. /\ ~InTables(r) /\ pending[r] = NONE /\ tempToReal[r] = NONE /\ r # NONE
      /\ r \notin Ids /\ NONE \notin Ids
  BY <1>1, SessionsAssumption DEF SessionIInv, Unbegun
<1>4. tempToReal[h] = NONE /\ pending[h] = NONE /\ (h \in Ids => sessions[h] = NONE)
  <2>1. CASE h = r
    BY <2>1, <1>3
  <2>2. CASE h # r
    <3>1. Claude!SessionFor(h) = NONE
      BY <1>1, <2>2
    <3>2. tempToReal[h] = NONE
      <4> SUFFICES ASSUME tempToReal[h] # NONE PROVE FALSE
        OBVIOUS
      <4>1. tempToReal[h] \in Ids /\ sessions[tempToReal[h]] # NONE
        BY <1>2 DEF TablesOK, IdsAgree
      <4> QED
        BY <4>1, <3>1 DEF Claude!SessionFor, Claude!Real
    <3> QED
      BY <3>1, <3>2 DEF Claude!SessionFor, Claude!Real
  <2> QED
    BY <2>1, <2>2
<1>5. pending' \in [Claude!Handles -> Runs \cup {NONE}] /\ pending'[h] = r
      /\ \A g \in Claude!Handles : g # h => pending'[g] = pending[g]
  BY <1>1, <1>2 DEF TablesOK
<1>6. /\ \A g \in Claude!Handles : pending[g] # r
      /\ \A i \in Ids : sessions[i] # r
  BY <1>3 DEF InTables
<1>7. OnePlace'
  <2>1. \A g, k \in Claude!Handles :
          pending'[g] = pending'[k] /\ pending'[g] # NONE => g = k
    <3> TAKE g, k \in Claude!Handles
    <3>1. CASE g # h /\ k # h
      BY <3>1, <1>2, <1>5 DEF TablesOK, OnePlace
    <3>2. CASE g = h \/ k = h
      BY <3>2, <1>3, <1>5, <1>6
    <3> QED
      BY <3>1, <3>2
  <2>2. \A i, j \in Ids : sessions'[i] = sessions'[j] /\ sessions'[i] # NONE => i = j
    BY <1>1, <1>2, Zenon DEF TablesOK, OnePlace
  <2>3. \A g \in Claude!Handles, i \in Ids :
          pending'[g] # NONE => pending'[g] # sessions'[i]
    BY <1>1, <1>2, <1>5, <1>6 DEF TablesOK, OnePlace
  <2> QED
    BY <2>1, <2>2, <2>3 DEF OnePlace
<1>8. IdsAgree'
  BY <1>1, <1>2, <1>4, <1>5 DEF TablesOK, IdsAgree
<1>9. TablesOK'
  BY <1>1, <1>2, <1>5, <1>7, <1>8 DEF TablesOK
<1>10. \A s \in Runs : InTables(s)' <=> InTables(s) \/ s = r
  BY <1>1, <1>4, <1>5, SessionsAssumption DEF InTables
<1>11. Claude!SessionFor(h)' = r
  BY <1>1, <1>4, <1>5 DEF Claude!SessionFor, Claude!Real
<1>12. ASSUME NEW g \in Claude!Handles, Claude!SessionFor(g) # NONE
       PROVE  Claude!SessionFor(g)' = Claude!SessionFor(g)
  <2>1. Claude!Real(g)' = Claude!Real(g) /\ Claude!Real(g) \in Claude!Handles
    BY <1>1, <1>2, FoundInTables DEF Claude!Real
  <2>2. CASE Claude!Real(g) \in Ids /\ sessions[Claude!Real(g)] # NONE
    BY <1>1, <2>1, <2>2 DEF Claude!SessionFor
  <2>3. CASE ~(Claude!Real(g) \in Ids /\ sessions[Claude!Real(g)] # NONE)
    <3>1. Claude!SessionFor(g) = pending[Claude!Real(g)] /\ Claude!Real(g) # h
      BY <1>4, <1>12, <2>3 DEF Claude!SessionFor
    <3> QED
      BY <1>1, <1>5, <2>1, <2>3, <3>1 DEF Claude!SessionFor
  <2> QED
    BY <2>2, <2>3
<1> QED
  BY <1>9, <1>10, <1>11, <1>12

LEMMA ForgetKeepsTables ==
  ASSUME TablesOK, SessionsAssumption, NEW s \in Runs, Claude!Forget(s)
  PROVE  /\ TablesOK'
         /\ \A x \in Runs : InTables(x)' <=> InTables(x) /\ x # s
         /\ \A g \in Claude!Handles : Claude!SessionFor(g) \notin {NONE, s} =>
              Claude!SessionFor(g)' = Claude!SessionFor(g)
         /\ \A r \in Claude!Handles : /\ pending[r] = NONE => pending'[r] = NONE
                                      /\ tempToReal[r] = NONE => tempToReal'[r] = NONE
<1> DEFINE temps == {h \in Claude!Handles : pending[h] = s}
           reals == {i \in Ids : sessions[i] = s}
           olds  == temps \cup {realToTemp[i] : i \in reals}
<1>1. /\ pending' = [h \in Claude!Handles |-> IF h \in temps THEN NONE ELSE pending[h]]
      /\ sessions' = [i \in Ids |-> IF i \in reals THEN NONE ELSE sessions[i]]
      /\ tempToReal' = [h \in Claude!Handles |-> IF h \in olds THEN NONE ELSE tempToReal[h]]
      /\ realToTemp' = [i \in Ids |-> IF i \in reals THEN NONE ELSE realToTemp[i]]
  BY Zenon DEF Claude!Forget
<1>2. /\ s # NONE /\ NONE \notin Ids /\ NONE \notin Runs /\ NONE \notin Claude!Handles
      /\ Ids \subseteq Claude!Handles
  BY SessionsAssumption DEF Claude!Handles
<1>3. \A h \in Claude!Handles : /\ pending'[h] = IF pending[h] = s THEN NONE ELSE pending[h]
                                /\ tempToReal'[h] \in {NONE, tempToReal[h]}
  BY <1>1
<1>4. \A i \in Ids : /\ sessions'[i] = IF sessions[i] = s THEN NONE ELSE sessions[i]
                     /\ realToTemp'[i] = IF sessions[i] = s THEN NONE ELSE realToTemp[i]
  BY <1>1
<1>5. \A h \in Claude!Handles : h \in olds /\ tempToReal[h] # NONE =>
        tempToReal[h] \in Ids /\ sessions[tempToReal[h]] = s
  <2> SUFFICES ASSUME NEW h \in Claude!Handles, h \in olds, tempToReal[h] # NONE
               PROVE  tempToReal[h] \in Ids /\ sessions[tempToReal[h]] = s
    OBVIOUS
  <2>1. tempToReal[h] \in Ids /\ pending[h] = NONE
    BY DEF TablesOK, IdsAgree
  <2>2. PICK i \in Ids : sessions[i] = s /\ h = realToTemp[i]
    BY <2>1, <1>2
  <2>3. tempToReal[h] = i
    BY <2>2, <1>2 DEF TablesOK, IdsAgree
  <2> QED
    BY <2>1, <2>2, <2>3
<1>6. \A h \in Claude!Handles : tempToReal'[h] # tempToReal[h] =>
        tempToReal'[h] = NONE /\ tempToReal[h] \in Ids /\ sessions[tempToReal[h]] = s
  BY <1>1, <1>5
<1>7. \A h \in Claude!Handles, i \in Ids :
        tempToReal[h] = i /\ sessions[i] = s => tempToReal'[h] = NONE
  <2> SUFFICES ASSUME NEW h \in Claude!Handles, NEW i \in Ids, tempToReal[h] = i,
                      sessions[i] = s
               PROVE  tempToReal'[h] = NONE
    OBVIOUS
  <2>1. h = realToTemp[i] /\ i \in reals
    BY DEF TablesOK, IdsAgree
  <2> QED
    BY <1>1, <2>1
<1> HIDE DEF temps, reals, olds
<1>8. /\ pending' \in [Claude!Handles -> Runs \cup {NONE}]
      /\ sessions' \in [Ids -> Runs \cup {NONE}]
      /\ tempToReal' \in [Claude!Handles -> Ids \cup {NONE}]
      /\ realToTemp' \in [Ids -> Claude!Handles \cup {NONE}]
  <2>1. pending' \in [Claude!Handles -> Runs \cup {NONE}]
    BY <1>1 DEF TablesOK
  <2>2. sessions' \in [Ids -> Runs \cup {NONE}]
    BY <1>1 DEF TablesOK
  <2>3. tempToReal' \in [Claude!Handles -> Ids \cup {NONE}]
    BY <1>1 DEF TablesOK
  <2>4. realToTemp' \in [Ids -> Claude!Handles \cup {NONE}]
    BY <1>1 DEF TablesOK
  <2> QED
    BY <2>1, <2>2, <2>3, <2>4
<1>9. OnePlace'
  BY <1>3, <1>4 DEF TablesOK, OnePlace
<1>10. IdsAgree'
  <2>1. ASSUME NEW h \in Claude!Handles, NEW i \in Ids, tempToReal'[h] = i
        PROVE  sessions'[i] # NONE /\ realToTemp'[i] = h
    <3>1. tempToReal[h] = i
      BY <2>1, <1>2, <1>3
    <3>2. sessions[i] # s
      BY <3>1, <2>1, <1>2, <1>7
    <3> QED
      BY <3>1, <3>2, <1>4 DEF TablesOK, IdsAgree
  <2>2. ASSUME NEW i \in Ids, sessions'[i] # NONE
        PROVE  /\ realToTemp'[i] \in Claude!Handles /\ tempToReal'[realToTemp'[i]] = i
               /\ pending'[i] = NONE /\ tempToReal'[i] \in {NONE, i}
    <3>1. sessions[i] # NONE /\ sessions[i] # s /\ realToTemp'[i] = realToTemp[i]
      BY <2>2, <1>4
    <3>2. /\ realToTemp[i] \in Claude!Handles /\ tempToReal[realToTemp[i]] = i
          /\ pending[i] = NONE /\ tempToReal[i] \in {NONE, i}
      BY <3>1 DEF TablesOK, IdsAgree
    <3>3. tempToReal'[realToTemp[i]] = i
      BY <3>1, <3>2, <1>6
    <3>4. pending'[i] = NONE /\ tempToReal'[i] \in {NONE, i}
      BY <3>2, <1>2, <1>3
    <3> QED
      BY <3>1, <3>2, <3>3, <3>4
  <2>3. ASSUME NEW h \in Claude!Handles, pending'[h] # NONE
        PROVE  tempToReal'[h] = NONE
    <3>1. pending[h] # NONE
      BY <2>3, <1>3
    <3> QED
      BY <3>1, <1>3 DEF TablesOK, IdsAgree
  <2> QED
    BY <2>1, <2>2, <2>3 DEF IdsAgree
<1>11. \A x \in Runs : InTables(x)' <=> InTables(x) /\ x # s
  BY <1>2, <1>3, <1>4 DEF InTables
<1>12. ASSUME NEW g \in Claude!Handles, Claude!SessionFor(g) \notin {NONE, s}
       PROVE  Claude!SessionFor(g)' = Claude!SessionFor(g)
  <2>1. Claude!Real(g) \in Claude!Handles
    BY FoundInTables
  <2>2. tempToReal'[g] = tempToReal[g]
    <3> SUFFICES ASSUME tempToReal'[g] # tempToReal[g] PROVE FALSE
      OBVIOUS
    <3>1. tempToReal[g] \in Ids /\ sessions[tempToReal[g]] = s
      BY <1>6
    <3> QED
      BY <3>1, <1>2, <1>12 DEF Claude!SessionFor, Claude!Real
  <2>3. Claude!Real(g)' = Claude!Real(g)
    BY <2>2 DEF Claude!Real
  <2>4. CASE Claude!Real(g) \in Ids /\ sessions[Claude!Real(g)] # NONE
    <3>1. Claude!SessionFor(g) = sessions[Claude!Real(g)]
      BY <2>4 DEF Claude!SessionFor
    <3>2. sessions'[Claude!Real(g)] = sessions[Claude!Real(g)]
      BY <2>4, <3>1, <1>4, <1>12
    <3> QED
      BY <2>3, <2>4, <3>1, <3>2 DEF Claude!SessionFor
  <2>5. CASE ~(Claude!Real(g) \in Ids /\ sessions[Claude!Real(g)] # NONE)
    <3>1. Claude!SessionFor(g) = pending[Claude!Real(g)]
      BY <2>5 DEF Claude!SessionFor
    <3>2. pending'[Claude!Real(g)] = pending[Claude!Real(g)]
      BY <2>1, <3>1, <1>3, <1>12
    <3>3. ~(Claude!Real(g) \in Ids /\ sessions'[Claude!Real(g)] # NONE)
      BY <2>5, <1>4
    <3> QED
      BY <2>3, <3>1, <3>2, <3>3 DEF Claude!SessionFor
  <2> QED
    BY <2>4, <2>5
<1> QED
  BY <1>3, <1>8, <1>9, <1>10, <1>11, <1>12 DEF TablesOK

LEMMA RegisterKeepsTables ==
  ASSUME SessionIInv, SessionsAssumption, NEW r \in Runs, NEW i \in Ids,
         Claude!Register(r, i)
  PROVE  /\ TablesOK'
         /\ handle[r] \in Claude!Handles
         /\ \A s \in Runs : InTables(s)' <=> InTables(s)
         /\ Claude!SessionFor(i)' = Claude!SessionFor(handle[r])
         /\ \A g \in Claude!Handles :
              /\ Claude!SessionFor(g) # NONE => Claude!SessionFor(g)' = Claude!SessionFor(g)
              /\ pending[g] = NONE =>
                   pending'[g] = NONE /\ tempToReal'[g] = tempToReal[g]
<1>1. PICK h \in Claude!Handles : h = handle[r]
  <2>1. run[r] = "running" /\ NONE \notin Runs
    BY SessionsAssumption DEF Claude!Register
  <2>2. uses[r] # NONE
    BY <2>1 DEF SessionIInv, RunnerShape, Active
  <2> QED
    BY <2>2 DEF SessionIInv, RunnerShape
<1>2. PICK x \in Runs : x = pending[h]
  BY <1>1 DEF Claude!Register, Claude!Registrable, SessionIInv, TablesOK
<1>3. TablesOK /\ x # NONE /\ i \in Claude!Handles /\ NONE \notin Ids
  BY <1>1, <1>2, SessionsAssumption DEF SessionIInv, Claude!Handles
<1>4. tempToReal[h] = NONE /\ (h \in Ids => sessions[h] = NONE) /\ Claude!SessionFor(h) = x
  BY <1>2, <1>3, PendingIsFound DEF TablesOK, IdsAgree
<1>5. Claude!SessionFor(i) \in {NONE, x}
  BY <1>1, <1>2 DEF Claude!Register, Claude!Registrable
<1>6. sessions[i] = NONE
  <2> SUFFICES ASSUME sessions[i] # NONE PROVE FALSE
    OBVIOUS
  <2>1. Claude!SessionFor(i) = sessions[i]
    BY <1>3, RegisteredIsFound
  <2> QED
    BY <2>1, <1>2, <1>3, <1>5 DEF TablesOK, OnePlace
<1>7. tempToReal[i] = NONE
  <2> SUFFICES ASSUME tempToReal[i] # NONE PROVE FALSE
    OBVIOUS
  <2>1. PICK j \in Ids : j = tempToReal[i]
    BY <1>3 DEF TablesOK
  <2>2. sessions[j] # NONE /\ Claude!SessionFor(i) = sessions[j]
    BY <2>1, <1>3 DEF TablesOK, IdsAgree, Claude!SessionFor, Claude!Real
  <2> QED
    BY <2>2, <1>2, <1>3, <1>5 DEF TablesOK, OnePlace
<1>8. pending[i] # NONE => i = h
  <2>1. Claude!SessionFor(i) = pending[i]
    BY <1>6, <1>7 DEF Claude!SessionFor, Claude!Real
  <2> QED
    BY <2>1, <1>2, <1>3, <1>5 DEF TablesOK, OnePlace
<1>9. /\ pending' = [pending EXCEPT ![h] = NONE] /\ sessions' = [sessions EXCEPT ![i] = x]
      /\ tempToReal' = [tempToReal EXCEPT ![h] = i]
      /\ realToTemp' = [realToTemp EXCEPT ![i] = h]
  BY <1>1, <1>2 DEF Claude!Register
<1>10. /\ pending' \in [Claude!Handles -> Runs \cup {NONE}]
       /\ sessions' \in [Ids -> Runs \cup {NONE}]
       /\ tempToReal' \in [Claude!Handles -> Ids \cup {NONE}]
       /\ realToTemp' \in [Ids -> Claude!Handles \cup {NONE}]
  BY <1>3, <1>9 DEF TablesOK
<1>11. /\ pending'[h] = NONE /\ tempToReal'[h] = i
       /\ \A g \in Claude!Handles : g # h => /\ pending'[g] = pending[g]
                                             /\ tempToReal'[g] = tempToReal[g]
  BY <1>3, <1>9 DEF TablesOK
<1>12. /\ sessions'[i] = x /\ realToTemp'[i] = h
       /\ \A j \in Ids : j # i => /\ sessions'[j] = sessions[j]
                                  /\ realToTemp'[j] = realToTemp[j]
  BY <1>3, <1>9 DEF TablesOK
<1>13. OnePlace'
  <2>1. \A g, k \in Claude!Handles :
          pending'[g] = pending'[k] /\ pending'[g] # NONE => g = k
    BY <1>3, <1>11 DEF TablesOK, OnePlace
  <2>2. \A j, k \in Ids : sessions'[j] = sessions'[k] /\ sessions'[j] # NONE => j = k
    BY <1>2, <1>3, <1>12 DEF TablesOK, OnePlace
  <2>3. \A g \in Claude!Handles, j \in Ids :
          pending'[g] # NONE => pending'[g] # sessions'[j]
    BY <1>2, <1>3, <1>11, <1>12 DEF TablesOK, OnePlace
  <2> QED
    BY <2>1, <2>2, <2>3 DEF OnePlace
<1>14. IdsAgree'
  <2>1. ASSUME NEW g \in Claude!Handles, NEW j \in Ids, tempToReal'[g] = j
        PROVE  sessions'[j] # NONE /\ realToTemp'[j] = g
    <3>1. CASE g = h
      BY <2>1, <3>1, <1>3, <1>11, <1>12
    <3>2. CASE g # h
      <4>1. tempToReal[g] = j
        BY <2>1, <3>2, <1>11
      <4>2. sessions[j] # NONE /\ realToTemp[j] = g /\ j # i
        BY <4>1, <1>3, <1>6 DEF TablesOK, IdsAgree
      <4> QED
        BY <4>2, <1>12
    <3> QED
      BY <3>1, <3>2
  <2>2. ASSUME NEW j \in Ids, sessions'[j] # NONE
        PROVE  /\ realToTemp'[j] \in Claude!Handles /\ tempToReal'[realToTemp'[j]] = j
               /\ pending'[j] = NONE /\ tempToReal'[j] \in {NONE, j}
    <3>0. j \in Claude!Handles
      BY DEF Claude!Handles
    <3>1. CASE j = i
      BY <3>0, <3>1, <1>3, <1>7, <1>8, <1>11, <1>12
    <3>2. CASE j # i
      <4>1. sessions[j] # NONE /\ realToTemp'[j] = realToTemp[j]
        BY <2>2, <3>2, <1>12
      <4>2. /\ realToTemp[j] \in Claude!Handles /\ tempToReal[realToTemp[j]] = j
            /\ pending[j] = NONE /\ tempToReal[j] \in {NONE, j}
        BY <4>1, <1>3 DEF TablesOK, IdsAgree
      <4>3. j # h /\ realToTemp[j] # h
        BY <4>1, <4>2, <1>3, <1>4
      <4> QED
        BY <3>0, <4>1, <4>2, <4>3, <1>11
    <3> QED
      BY <3>1, <3>2
  <2>3. ASSUME NEW g \in Claude!Handles, pending'[g] # NONE
        PROVE  tempToReal'[g] = NONE
    <3>1. g # h /\ pending[g] # NONE
      BY <2>3, <1>11
    <3> QED
      BY <3>1, <1>3, <1>11 DEF TablesOK, IdsAgree
  <2> QED
    BY <2>1, <2>2, <2>3 DEF IdsAgree
<1>15. TablesOK'
  BY <1>10, <1>13, <1>14 DEF TablesOK
<1>16. \A s \in Runs : InTables(s)' <=> InTables(s)
  <2> TAKE s \in Runs
  <2>0. s # NONE
    BY SessionsAssumption
  <2>1. CASE s = x
    BY <2>1, <1>2, <1>12 DEF InTables
  <2>2. CASE s # x
    <3>1. \A g \in Claude!Handles : pending'[g] = s <=> pending[g] = s
      BY <2>0, <2>2, <1>2, <1>11
    <3>2. \A j \in Ids : sessions'[j] = s <=> sessions[j] = s
      BY <2>0, <2>2, <1>6, <1>12
    <3> QED
      BY <3>1, <3>2 DEF InTables
  <2> QED
    BY <2>1, <2>2
<1>17. Claude!SessionFor(i)' = x
  <2>1. Claude!Real(i)' = i
    BY <1>3, <1>7, <1>11 DEF Claude!Real
  <2> QED
    BY <2>1, <1>3, <1>12 DEF Claude!SessionFor
<1>18. ASSUME NEW g \in Claude!Handles, Claude!SessionFor(g) # NONE
       PROVE  Claude!SessionFor(g)' = Claude!SessionFor(g)
  <2>1. CASE g = h
    <3>1. Claude!Real(g)' = i
      BY <2>1, <1>3, <1>11 DEF Claude!Real
    <3> QED
      BY <2>1, <3>1, <1>3, <1>4, <1>12 DEF Claude!SessionFor
  <2>2. CASE g # h
    <3>1. /\ Claude!Real(g)' = Claude!Real(g) /\ Claude!Real(g) \in Claude!Handles
          /\ tempToReal[g] # NONE => Claude!Real(g) \in Ids /\ sessions[Claude!Real(g)] # NONE
      BY <2>2, <1>3, <1>11 DEF Claude!Real, TablesOK, IdsAgree, Claude!Handles
    <3>2. CASE Claude!Real(g) \in Ids /\ sessions[Claude!Real(g)] # NONE
      <4>1. sessions'[Claude!Real(g)] = sessions[Claude!Real(g)]
        BY <3>2, <1>6, <1>12
      <4> QED
        BY <3>1, <3>2, <4>1 DEF Claude!SessionFor
    <3>3. CASE ~(Claude!Real(g) \in Ids /\ sessions[Claude!Real(g)] # NONE)
      <4>1. /\ Claude!Real(g) = g /\ Claude!SessionFor(g) = pending[g] /\ pending[g] # NONE
            /\ g # i
        BY <3>1, <3>3, <2>2, <1>8, <1>18 DEF Claude!SessionFor, Claude!Real
      <4>2. pending'[g] = pending[g] /\ (g \in Ids => sessions'[g] = sessions[g])
        BY <4>1, <2>2, <1>11, <1>12
      <4> QED
        BY <3>1, <3>3, <4>1, <4>2 DEF Claude!SessionFor
    <3> QED
      BY <3>2, <3>3
  <2> QED
    BY <2>1, <2>2
<1>19. ASSUME NEW g \in Claude!Handles, pending[g] = NONE
       PROVE  pending'[g] = NONE /\ tempToReal'[g] = tempToReal[g]
  BY <1>2, <1>3, <1>11, <1>19
<1>20. Claude!SessionFor(i)' = Claude!SessionFor(handle[r])
  BY <1>1, <1>4, <1>17
<1> QED
  BY <1>1, <1>15, <1>16, <1>18, <1>19, <1>20

-----------------------------------------------------------------------------
(* The steps.                                                              *)

(* What a step may do to a runner other than hand it a session.            *)
GoesOn(r) ==
  /\ Active(r)' => Active(r)
  /\ generator'[r] # "none" => Active(r) \/ generator[r] # "none"
  /\ generator'[r] \in {"spawning", "feeding"} => run'[r] = "running" /\ uses[r] \notin closed'
  /\ run'[r] = "idle" => run[r] = "idle" /\ generator'[r] = "none" /\ r \notin alive'

(* A step that hands out no session keeps what is known of the runners, if *)
(* it only takes stopped sessions out of the tables.                       *)
LEMMA RunnersGoOn ==
  ASSUME SessionIInv, SessionsAssumption, SessionTypes', TablesOK',
         UNCHANGED <<uses, handle>>, closed \subseteq closed',
         \A s \in Runs : InTables(s)' => InTables(s),
         \A s \in Runs : InTables(s) => InTables(s)' \/ s \in closed',
         \A s \in Runs, h \in Claude!Handles :
           InTables(s)' /\ Claude!SessionFor(h) = s => Claude!SessionFor(h)' = s,
         \A h \in Claude!Handles : /\ pending[h] = NONE => pending'[h] = NONE
                                   /\ tempToReal[h] = NONE => tempToReal'[h] = NONE,
         \A r \in Runs : GoesOn(r)
  PROVE  Unbegun' /\ Apart' /\ \A r \in Runs : RunnerShape(r)'
<1>1. Unbegun'
  <2> SUFFICES ASSUME NEW r \in Runs, run'[r] = "idle"
               PROVE  /\ ~InTables(r)' /\ pending'[r] = NONE /\ tempToReal'[r] = NONE
                      /\ r \notin alive' /\ generator'[r] = "none" /\ uses'[r] = NONE
                      /\ \A q \in Runs : uses'[q] # r
    BY DEF Unbegun
  <2>1. run[r] = "idle" /\ generator'[r] = "none" /\ r \notin alive'
    BY DEF GoesOn
  <2>2. /\ ~InTables(r) /\ pending[r] = NONE /\ tempToReal[r] = NONE /\ uses[r] = NONE
        /\ \A q \in Runs : uses[q] # r
    BY <2>1 DEF SessionIInv, Unbegun
  <2>3. r \in Claude!Handles
    BY DEF Claude!Handles
  <2> QED
    BY <2>1, <2>2, <2>3
<1>2. Apart'
  <2>1. \A r \in Runs : Active(r)' => Active(r)
    BY Zenon DEF GoesOn
  <2>2. uses' = uses /\ Apart
    BY DEF SessionIInv
  <2> SUFFICES ASSUME NEW q \in Runs, NEW r \in Runs, Active(q)', Active(r)', q # r
               PROVE  uses'[q] # uses'[r]
    BY Zenon DEF Apart
  <2> QED
    BY <2>1, <2>2, Zenon DEF Apart
<1>3. ASSUME NEW r \in Runs PROVE RunnerShape(r)'
  <2>0. RunnerShape(r) /\ GoesOn(r) /\ uses' = uses /\ handle' = handle
    BY DEF SessionIInv
  <2>1. Active(r)' \/ generator'[r] # "none" => uses'[r] \in Runs
    BY <2>0, Zenon DEF RunnerShape, GoesOn
  <2>2. uses'[r] # NONE => handle'[r] \in Claude!Handles
    BY <2>0 DEF RunnerShape
  <2>3. ASSUME NEW s \in Runs, NEW h \in Claude!Handles, uses'[r] = s, handle'[r] = h
        PROVE  IF InTables(s)' THEN Claude!SessionFor(h)' = s ELSE s \in closed'
    <3>1. IF InTables(s) THEN Claude!SessionFor(h) = s ELSE s \in closed
      BY <2>0, <2>3, Zenon DEF RunnerShape
    <3> QED
      BY <3>1
  <2>4. generator'[r] \in {"spawning", "feeding"} =>
          run'[r] = "running" /\ uses'[r] \notin closed'
    BY <2>0 DEF GoesOn
  <2> QED
    BY <2>1, <2>2, <2>3, <2>4, Zenon DEF RunnerShape
<1> QED
  BY <1>1, <1>2, <1>3

(* The same when the tables are left alone.                                *)
LEMMA TablesStay ==
  ASSUME TablesOK, UNCHANGED Claude!tables
  PROVE  /\ TablesOK'
         /\ \A s \in Runs : InTables(s)' <=> InTables(s)
         /\ \A h \in Claude!Handles : /\ Claude!SessionFor(h)' = Claude!SessionFor(h)
                                      /\ pending'[h] = pending[h]
                                      /\ tempToReal'[h] = tempToReal[h]
<1>1. /\ pending' = pending /\ sessions' = sessions
      /\ tempToReal' = tempToReal /\ realToTemp' = realToTemp
  BY DEF Claude!tables
<1>2. TablesOK'
  BY <1>1 DEF TablesOK, OnePlace, IdsAgree
<1>3. \A s \in Runs : InTables(s)' <=> InTables(s)
  BY <1>1 DEF InTables
<1>4. \A h \in Claude!Handles : Claude!SessionFor(h)' = Claude!SessionFor(h)
  BY <1>1 DEF Claude!SessionFor, Claude!Real
<1> QED
  BY <1>1, <1>2, <1>3, <1>4

(* Who answers for its process goes on to do so if neither is touched.     *)
LEMMA StillAnswered ==
  ASSUME NEW r \in Runs, Answered(r), UNCHANGED <<uses, process>>, closed \subseteq closed',
         \A s \in Runs : InTables(s) /\ process[s] = r => InTables(s)',
         run'[r] = "over" => run[r] = "over"
  PROVE  Answered(r)'
<1>1. PICK s \in Runs : /\ uses[r] = s /\ process[s] = r /\ InTables(s)
                        /\ run[r] = "over" => s \in closed
  BY DEF Answered
<1>2. uses'[r] = s /\ process'[s] = r /\ InTables(s)' /\ (run'[r] = "over" => s \in closed')
  BY <1>1
<1> QED
  BY <1>2, Zenon DEF Answered

LEMMA LockStays ==
  ASSUME LockShape, TablesOK, UNCHANGED Claude!tables,
         UNCHANGED <<handle, busy, todo, failures>>,
         \A r \in Runs : run[r] = "removing" /\ busy = r => run'[r] = "removing"
  PROVE  LockShape'
<1>1. ASSUME NEW r \in Runs, busy' = r
      PROVE  /\ run'[r] = "removing"
             /\ \E h \in Claude!Handles : handle'[r] = h /\ Claude!SessionFor(h)' # NONE
  <2>1. PICK h \in Claude!Handles : handle[r] = h /\ Claude!SessionFor(h) # NONE
    BY <1>1, Zenon DEF LockShape
  <2>2. handle'[r] = h /\ Claude!SessionFor(h)' # NONE
    BY <2>1, TablesStay
  <2>3. run'[r] = "removing"
    BY <1>1, Zenon DEF LockShape
  <2> QED
    BY <2>2, <2>3, Zenon
<1>2. ASSUME busy' = "stop_all", ~failures', NEW s \in Runs, InTables(s)'
      PROVE  s \in todo'
  <2>1. InTables(s)
    BY <1>2, TablesStay
  <2> QED
    BY <2>1, <1>2 DEF LockShape
<1> QED
  BY <1>1, <1>2, Zenon DEF LockShape

(* A step that leaves the tables alone and hands out nothing.              *)
LEMMA QuietStep ==
  ASSUME SessionIInv, SessionsAssumption, SessionTypes', UNCHANGED Claude!tables,
         UNCHANGED <<uses, handle>>, closed \subseteq closed', \A r \in Runs : GoesOn(r),
         alive' \subseteq pids', \A r \in alive' \ unremoved' : Answered(r)', LockShape'
  PROVE  SessionIInv'
<1>1. TablesOK
  BY DEF SessionIInv
<1>2. /\ TablesOK' /\ \A s \in Runs : InTables(s)' <=> InTables(s)
      /\ \A h \in Claude!Handles : /\ Claude!SessionFor(h)' = Claude!SessionFor(h)
                                   /\ pending'[h] = pending[h]
                                   /\ tempToReal'[h] = tempToReal[h]
  BY <1>1, TablesStay
<1>3. Unbegun' /\ Apart' /\ \A r \in Runs : RunnerShape(r)'
  BY <1>2, RunnersGoOn
<1> QED
  BY <1>2, <1>3 DEF SessionIInv

(* A step of a runner that leaves its session where it is: the session may *)
(* be stopped, and processes may end.                                      *)
LEMMA OwnStep ==
  ASSUME SessionIInv, SessionsAssumption, NEW r \in Runs, SessionTypes',
         UNCHANGED <<Claude!tables, uses, handle, busy, todo, failures, process, unremoved>>,
         closed \subseteq closed',
         \A q \in Runs : q # r => run'[q] = run[q] /\ generator'[q] = generator[q],
         \A q \in Runs : q # r /\ generator[q] \in {"spawning", "feeding"} =>
                           uses[q] \notin closed',
         GoesOn(r),
         run[r] = "removing" => run'[r] = "removing",
         run'[r] = "over" => run[r] = "over",
         alive' \subseteq alive, alive' \subseteq pids'
  PROVE  SessionIInv'
<1>1. TablesOK /\ LockShape
  BY DEF SessionIInv
<1>2. UNCHANGED Claude!tables /\ UNCHANGED <<uses, handle, process, busy, todo, failures>>
  OBVIOUS
<1>3. ASSUME NEW q \in Runs PROVE GoesOn(q)
  <2>1. CASE q = r
    BY <2>1
  <2>2. CASE q # r
    <3>1. run'[q] = run[q] /\ generator'[q] = generator[q]
      BY <2>2
    <3>2. Active(q)' <=> Active(q)
      BY <3>1 DEF Active
    <3>3. generator[q] \in {"spawning", "feeding"} => run[q] = "running"
      BY DEF SessionIInv, RunnerShape
    <3>4. run[q] = "idle" => generator[q] = "none" /\ q \notin alive'
      BY DEF SessionIInv, Unbegun
    <3> QED
      BY <2>2, <3>1, <3>2, <3>3, <3>4 DEF GoesOn
  <2> QED
    BY <2>1, <2>2
<1>4. ASSUME NEW q \in Runs, q \in alive' \ unremoved' PROVE Answered(q)'
  <2>1. Answered(q)
    BY <1>4 DEF SessionIInv
  <2>2. \A s \in Runs : InTables(s) => InTables(s)'
    BY <1>1, <1>2, TablesStay
  <2>3. run'[q] = "over" => run[q] = "over"
    OBVIOUS
  <2> QED
    BY <2>1, <2>2, <2>3, <1>2, StillAnswered
<1>5. LockShape'
  <2>1. \A q \in Runs : run[q] = "removing" /\ busy = q => run'[q] = "removing"
    OBVIOUS
  <2> QED
    BY <2>1, <1>1, <1>2, LockStays
<1>6. \A q \in alive' \ unremoved' : Answered(q)'
  BY <1>4 DEF SessionIInv, SessionTypes
<1> QED
  BY <1>2, <1>3, <1>5, <1>6, QuietStep

LEMMA LaunchKeeps ==
  ASSUME SessionIInv, SessionsAssumption, NEW r \in Runs, Claude!Launch(r)
  PROVE  SessionIInv'
<1>1. /\ run[r] = "ready" /\ UNCHANGED <<uses, handle, captured, closing, busy, todo, failures,
                                          closed, process, alive, pids, unremoved>>
      /\ UNCHANGED Claude!tables
      /\ \/ run' = [run EXCEPT ![r] = "removing"] /\ generator' = generator
         \/ /\ run' = [run EXCEPT ![r] = "running"] /\ uses[r] \notin closed
            /\ generator' = [generator EXCEPT ![r] = "spawning"]
  BY DEF Claude!Launch, Claude!runner, Claude!manager, Claude!processes
<1>2. SessionTypes /\ RunnerShape(r) /\ alive \subseteq pids
      /\ \A q \in Runs : generator[q] \in {"spawning", "feeding"} => uses[q] \notin closed
  BY DEF SessionIInv, RunnerShape
<1>3. SessionTypes'
  BY <1>1, <1>2 DEF SessionTypes
<1>4. GoesOn(r)
  BY <1>1, <1>2 DEF GoesOn, Active, SessionTypes, RunnerShape
<1>5. \A q \in Runs : q # r => run'[q] = run[q] /\ generator'[q] = generator[q]
  BY <1>1, <1>2 DEF SessionTypes
<1>6. run'[r] # "over"
  BY <1>1, <1>2 DEF SessionTypes
<1> QED
  BY <1>1, <1>2, <1>3, <1>4, <1>5, <1>6, OwnStep

LEMMA FeedKeeps ==
  ASSUME SessionIInv, SessionsAssumption, NEW r \in Runs, Claude!Feed(r)
  PROVE  SessionIInv'
<1>1. /\ generator[r] = "feeding" /\ generator' = [generator EXCEPT ![r] = "reading"]
      /\ UNCHANGED <<run, uses, handle, captured, closing, busy, todo, failures, closed,
                     process, alive, pids, unremoved>>
      /\ UNCHANGED Claude!tables
  BY DEF Claude!Feed, Claude!runner, Claude!manager, Claude!processes
<1>2. SessionTypes /\ RunnerShape(r) /\ alive \subseteq pids
      /\ \A q \in Runs : generator[q] \in {"spawning", "feeding"} => uses[q] \notin closed
  BY DEF SessionIInv, RunnerShape
<1>3. SessionTypes'
  BY <1>1, <1>2 DEF SessionTypes
<1>4. GoesOn(r)
  BY <1>1, <1>2 DEF GoesOn, Active, SessionTypes, RunnerShape
<1>5. \A q \in Runs : q # r => run'[q] = run[q] /\ generator'[q] = generator[q]
  BY <1>1, <1>2 DEF SessionTypes
<1> QED
  BY <1>1, <1>2, <1>3, <1>4, <1>5, OwnStep

(* The launch breaks, or the output ends.                                  *)
LEMMA GeneratorEndsKeeps ==
  ASSUME SessionIInv, SessionsAssumption, NEW r \in Runs,
         Claude!LaunchBreaks(r) \/ Claude!OutputEnds(r)
  PROVE  SessionIInv'
<1>1. /\ generator[r] \in {"spawning", "feeding", "reading"}
      /\ generator[r] = "reading" => run[r] = "running"
      /\ generator' = [generator EXCEPT ![r] = "ended"]
      /\ run' = [run EXCEPT ![r] = "removing"]
      /\ pids' = pids \/ (pids' = pids \ {r} /\ r \notin alive)
      /\ UNCHANGED <<uses, handle, captured, closing, busy, todo, failures, closed,
                     process, alive, unremoved>>
      /\ UNCHANGED Claude!tables
  BY DEF Claude!LaunchBreaks, Claude!OutputEnds, Claude!runner, Claude!manager
<1>2. SessionTypes /\ RunnerShape(r) /\ alive \subseteq pids
      /\ \A q \in Runs : generator[q] \in {"spawning", "feeding"} => uses[q] \notin closed
  BY DEF SessionIInv, RunnerShape
<1>3. SessionTypes'
  BY <1>1, <1>2 DEF SessionTypes
<1>4. GoesOn(r)
  BY <1>1, <1>2 DEF GoesOn, Active, SessionTypes, RunnerShape
<1>5. \A q \in Runs : q # r => run'[q] = run[q] /\ generator'[q] = generator[q]
  BY <1>1, <1>2 DEF SessionTypes
<1>6. run'[r] = "removing" /\ alive' \subseteq pids'
  BY <1>1, <1>2 DEF SessionTypes
<1> QED
  BY <1>1, <1>2, <1>3, <1>4, <1>5, <1>6, OwnStep

LEMMA ExitKeeps ==
  ASSUME SessionIInv, SessionsAssumption, NEW r \in Runs, Claude!Exit(r)
  PROVE  SessionIInv'
<1>1. /\ alive' = alive \ {r}
      /\ UNCHANGED <<run, generator, uses, handle, captured, closing, busy, todo, failures,
                     closed, process, pids, unremoved>>
      /\ UNCHANGED Claude!tables
  BY DEF Claude!Exit, Claude!runner, Claude!manager
<1>2. SessionTypes /\ RunnerShape(r) /\ alive \subseteq pids
      /\ \A q \in Runs : generator[q] \in {"spawning", "feeding"} => uses[q] \notin closed
  BY DEF SessionIInv, RunnerShape
<1>3. SessionTypes'
  BY <1>1, <1>2 DEF SessionTypes
<1>4. run[r] = "idle" => generator[r] = "none"
  BY DEF SessionIInv, Unbegun
<1>5. GoesOn(r)
  BY <1>1, <1>2, <1>4 DEF GoesOn, Active, RunnerShape
<1> QED
  BY <1>1, <1>2, <1>3, <1>5, OwnStep

(* The runner is cancelled between two events, or its session's real id is *)
(* refused.                                                                *)
LEMMA LeaveKeeps ==
  ASSUME SessionIInv, SessionsAssumption, NEW r \in Runs,
         Claude!Leave(r) \/ \E i \in Ids : Claude!RegisterRefused(r, i)
  PROVE  SessionIInv'
<1>1. /\ generator[r] = "reading" /\ run[r] = "running"
      /\ run' = [run EXCEPT ![r] = "removing"]
      /\ UNCHANGED <<generator, uses, handle, captured, closing, busy, todo, failures,
                     closed, process, alive, pids, unremoved>>
      /\ UNCHANGED Claude!tables
  BY Zenon DEF Claude!Leave, Claude!RegisterRefused, Claude!runner, Claude!manager,
               Claude!processes
<1>2. SessionTypes /\ RunnerShape(r) /\ alive \subseteq pids
      /\ \A q \in Runs : generator[q] \in {"spawning", "feeding"} => uses[q] \notin closed
  BY DEF SessionIInv, RunnerShape
<1>3. SessionTypes'
  BY <1>1, <1>2 DEF SessionTypes
<1>4. GoesOn(r)
  BY <1>1, <1>2 DEF GoesOn, Active, SessionTypes, RunnerShape
<1>5. \A q \in Runs : q # r => run'[q] = run[q] /\ generator'[q] = generator[q]
  BY <1>1, <1>2 DEF SessionTypes
<1>6. run'[r] = "removing"
  BY <1>1, <1>2 DEF SessionTypes
<1> QED
  BY <1>1, <1>2, <1>3, <1>4, <1>5, <1>6, OwnStep

(* Whatever becomes of the stop of a session, it is terminal, and no       *)
(* process is added.                                                       *)
LEMMA StopEffect ==
  ASSUME SessionIInv, NEW s \in Runs, Claude!Stopped(s) \/ Claude!NotStopped(s)
  PROVE  /\ closed' = closed \cup {s} /\ process' = process
         /\ alive' \subseteq alive /\ alive' \subseteq pids' /\ pids' \subseteq pids
         /\ Claude!Stopped(s) => process[s] \notin alive'
         /\ \A q \in Runs : generator[q] \in {"spawning", "feeding"} => uses[q] \notin closed'
<1>1. /\ closed' = closed \cup {s} /\ process' = process
      /\ alive' \subseteq alive /\ alive' \subseteq pids' /\ pids' \subseteq pids
  BY DEF Claude!Stopped, Claude!NotStopped, SessionIInv
<1>2. Claude!Stopped(s) => process[s] \notin alive'
  BY DEF Claude!Stopped
<1>3. \A q \in Runs : generator[q] \in {"spawning", "feeding"} => uses[q] # s
  BY DEF Claude!Stopped, Claude!NotStopped, Claude!NotLaunching
<1>4. \A q \in Runs : generator[q] \in {"spawning", "feeding"} => uses[q] \notin closed
  BY DEF SessionIInv, RunnerShape
<1> QED
  BY <1>1, <1>2, <1>3, <1>4

(* The generator stops its session before it ends.                         *)
LEMMA GeneratorStopsKeeps ==
  ASSUME SessionIInv, SessionsAssumption, NEW r \in Runs,
         Claude!ReadBreaks(r) \/ Claude!AbandonedCloses(r)
  PROVE  SessionIInv'
<1>1. /\ generator[r] = "reading" /\ generator' = [generator EXCEPT ![r] = "ended"]
      /\ \/ run[r] = "running" /\ run' = [run EXCEPT ![r] = "removing"]
         \/ run[r] = "over" /\ run' = run
      /\ UNCHANGED <<uses, handle, captured, closing, busy, todo, failures, unremoved>>
      /\ UNCHANGED Claude!tables
      /\ Claude!Stopped(uses[r]) \/ Claude!NotStopped(uses[r])
  BY DEF Claude!ReadBreaks, Claude!AbandonedCloses, Claude!runner, Claude!manager
<1>2. SessionTypes /\ RunnerShape(r)
  BY DEF SessionIInv
<1>3. PICK s \in Runs : s = uses[r]
  BY <1>1, <1>2 DEF RunnerShape
<1>4. /\ closed' = closed \cup {s} /\ process' = process
      /\ alive' \subseteq alive /\ alive' \subseteq pids' /\ pids' \subseteq pids
      /\ \A q \in Runs : generator[q] \in {"spawning", "feeding"} => uses[q] \notin closed'
  BY <1>1, <1>3, StopEffect
<1>5. SessionTypes'
  BY <1>1, <1>2, <1>4 DEF SessionTypes
<1>6. GoesOn(r)
  BY <1>1, <1>2, <1>4 DEF GoesOn, Active, SessionTypes, RunnerShape
<1>7. \A q \in Runs : q # r => run'[q] = run[q] /\ generator'[q] = generator[q]
  BY <1>1, <1>2 DEF SessionTypes
<1>8. (run[r] = "removing" => run'[r] = "removing") /\ (run'[r] = "over" => run[r] = "over")
  BY <1>1, <1>2 DEF SessionTypes
<1> QED
  BY <1>1, <1>4, <1>5, <1>6, <1>7, <1>8, OwnStep

LEMMA SpawnKeeps ==
  ASSUME SessionIInv, SessionsAssumption, NEW r \in Runs, Claude!Spawn(r)
  PROVE  SessionIInv'
<1>1. /\ generator[r] = "spawning" /\ generator' = [generator EXCEPT ![r] = "feeding"]
      /\ process' = [process EXCEPT ![uses[r]] = r]
      /\ alive' = alive \cup {r} /\ pids' = pids \cup {r}
      /\ UNCHANGED <<run, uses, handle, captured, closing, busy, todo, failures, closed,
                     unremoved>>
      /\ UNCHANGED Claude!tables
  BY DEF Claude!Spawn, Claude!runner, Claude!manager
<1>2. /\ SessionTypes /\ TablesOK /\ LockShape /\ alive \subseteq pids
      /\ \A q \in Runs : /\ generator[q] \in {"spawning", "feeding"} =>
                              run[q] = "running" /\ uses[q] \notin closed
                         /\ run[q] = "idle" => generator[q] = "none" /\ q \notin alive
      /\ run[r] = "running" /\ uses[r] \notin closed
  BY <1>1 DEF SessionIInv, RunnerShape, Unbegun
<1>3. PICK s \in Runs, h \in Claude!Handles : uses[r] = s /\ handle[r] = h
  <2>1. RunnerShape(r) /\ uses[r] \in Runs /\ uses[r] # NONE
    BY <1>2, SessionsAssumption DEF SessionIInv, RunnerShape, Active
  <2> QED
    BY <2>1 DEF RunnerShape
<1>4. InTables(s) /\ s \notin closed
  BY <1>2, <1>3, Zenon DEF SessionIInv, RunnerShape
<1>5. \A x \in Runs : InTables(x)' <=> InTables(x)
  BY <1>1, <1>2, TablesStay
<1>6. SessionTypes'
  BY <1>1, <1>2 DEF SessionTypes
<1>7. ASSUME NEW q \in Runs PROVE GoesOn(q)
  <2>1. CASE q = r
    BY <2>1, <1>1, <1>2 DEF GoesOn, Active, SessionTypes
  <2>2. CASE q # r
    BY <2>2, <1>1, <1>2 DEF GoesOn, Active, SessionTypes
  <2> QED
    BY <2>1, <2>2
<1>8. ASSUME NEW q \in Runs, q \in alive' \ unremoved' PROVE Answered(q)'
  <2>1. CASE q = r
    <3>1. uses'[q] = s /\ process'[s] = q /\ InTables(s)' /\ run'[q] # "over"
      BY <2>1, <1>1, <1>2, <1>3, <1>4, <1>5 DEF SessionTypes
    <3> QED
      BY <3>1, Zenon DEF Answered
  <2>2. CASE q # r
    <3>1. Answered(q) /\ q \in alive
      BY <2>2, <1>1, <1>8 DEF SessionIInv
    <3>2. PICK x \in Runs : /\ uses[q] = x /\ process[x] = q /\ InTables(x)
                            /\ run[q] = "over" => x \in closed
      BY <3>1 DEF Answered
    <3>3. x # s
      <4> SUFFICES ASSUME x = s PROVE FALSE
        OBVIOUS
      <4>1. run[q] # "over" /\ run[q] # "idle"
        BY <3>1, <3>2, <1>2, <1>4
      <4>2. Active(q) /\ Active(r)
        BY <4>1, <1>2 DEF Active, SessionTypes
      <4>3. uses[q] # uses[r]
        BY <2>2, <4>2, Zenon DEF SessionIInv, Apart
      <4> QED
        BY <4>3, <3>2, <1>3
    <3>4. uses'[q] = x /\ process'[x] = q /\ InTables(x)' /\ (run'[q] = "over" => x \in closed')
      BY <3>2, <3>3, <1>1, <1>2, <1>3, <1>5 DEF SessionTypes
    <3> QED
      BY <3>4, Zenon DEF Answered
  <2> QED
    BY <2>1, <2>2
<1>9. \A q \in alive' \ unremoved' : Answered(q)'
  BY <1>6, <1>8 DEF SessionTypes
<1>10. LockShape'
  BY <1>1, <1>2, LockStays
<1>11. alive' \subseteq pids'
  BY <1>1, <1>2
<1> QED
  BY <1>1, <1>6, <1>7, <1>9, <1>10, <1>11, QuietStep

LEMMA BorrowKeeps ==
  ASSUME SessionIInv, SessionsAssumption, NEW r \in Runs, NEW p \in Ids, Claude!Borrow(r, p)
  PROVE  SessionIInv'
<1>1. /\ run[r] = "idle" /\ busy = NONE /\ p \in Claude!Resumable
      /\ Claude!SessionFor(p) # NONE
      /\ UNCHANGED <<generator, closing, busy, todo, failures, closed, process, alive, pids,
                     unremoved>>
      /\ UNCHANGED Claude!tables
  BY DEF Claude!Borrow, Claude!manager, Claude!processes
<1>2. SessionTypes /\ TablesOK /\ LockShape /\ alive \subseteq pids
  BY DEF SessionIInv
<1>3. \A x \in Runs : InTables(x)' <=> InTables(x)
  BY <1>1, <1>2, TablesStay
<1>4. /\ generator[r] = "none" /\ r \notin alive /\ uses[r] = NONE
      /\ r # NONE /\ NONE \notin Runs
  BY <1>1, SessionsAssumption DEF SessionIInv, Unbegun
<1>5. LockShape'
  BY <1>1, SessionsAssumption DEF LockShape
<1>6. \A q \in Runs : generator[q] \in {"spawning", "feeding"} =>
        run[q] = "running" /\ uses[q] \notin closed
  BY DEF SessionIInv, RunnerShape
<1>7. CASE Claude!SessionFor(p) \in closing
  <2>1. run' = [run EXCEPT ![r] = "over"] /\ UNCHANGED <<uses, handle, captured>>
    BY <1>7 DEF Claude!Borrow, Claude!runner
  <2>2. SessionTypes'
    BY <1>1, <1>2, <2>1 DEF SessionTypes
  <2>3. ASSUME NEW q \in Runs PROVE GoesOn(q)
    <3>1. run[q] = "idle" => generator[q] = "none" /\ q \notin alive
      BY DEF SessionIInv, Unbegun
    <3> QED
      BY <3>1, <2>1, <1>1, <1>2, <1>4, <1>6 DEF GoesOn, Active, SessionTypes
  <2>4. ASSUME NEW q \in Runs, q \in alive' \ unremoved' PROVE Answered(q)'
    <3>1. Answered(q) /\ q # r
      BY <2>4, <1>1, <1>4 DEF SessionIInv
    <3>2. run'[q] = run[q]
      BY <3>1, <2>1, <1>2 DEF SessionTypes
    <3> QED
      BY <3>1, <3>2, <2>1, <1>1, <1>3, StillAnswered
  <2>5. \A q \in alive' \ unremoved' : Answered(q)'
    BY <2>2, <2>4 DEF SessionTypes
  <2> QED
    BY <2>1, <2>2, <2>3, <2>5, <1>1, <1>2, <1>5, QuietStep
<1>8. CASE Claude!SessionFor(p) \notin closing
  <2>1. PICK s \in Runs : s = Claude!SessionFor(p)
    BY <1>1, <1>2, FoundInTables DEF Claude!Handles
  <2>2. PICK g \in Claude!Handles : g = Claude!Real(p)
    BY <1>2, FoundInTables DEF Claude!Handles
  <2>3. /\ InTables(s) /\ Claude!SessionFor(g) = s /\ s # r /\ g # NONE
        /\ \A q \in Runs : Active(q) => uses[q] # s
    <3>1. InTables(s) /\ Claude!SessionFor(g) = s
      BY <1>1, <1>2, <2>1, <2>2, FoundInTables, RealIsFound DEF Claude!Handles
    <3>2. s # r
      BY <1>1, <3>1 DEF SessionIInv, Unbegun
    <3>3. \A q \in Runs : Active(q) => uses[q] # s
      BY <1>1, <2>1 DEF Claude!Resumable, Active
    <3>4. g # NONE
      BY SessionsAssumption DEF Claude!Handles
    <3> QED
      BY <3>1, <3>2, <3>3, <3>4
  <2>4. /\ run' = [run EXCEPT ![r] = "ready"] /\ captured' = captured \cup {r}
        /\ uses' = [uses EXCEPT ![r] = s] /\ handle' = [handle EXCEPT ![r] = g]
    BY <1>8, <2>1, <2>2 DEF Claude!Borrow
  <2>5. SessionTypes'
    BY <1>1, <1>2, <2>4 DEF SessionTypes
  <2>6. /\ TablesOK'
        /\ \A h \in Claude!Handles : /\ Claude!SessionFor(h)' = Claude!SessionFor(h)
                                     /\ pending'[h] = pending[h]
                                     /\ tempToReal'[h] = tempToReal[h]
    BY <1>1, <1>2, TablesStay
  <2>7. /\ uses'[r] = s /\ handle'[r] = g /\ run'[r] = "ready"
        /\ \A q \in Runs : q # r => /\ uses'[q] = uses[q] /\ handle'[q] = handle[q]
                                    /\ run'[q] = run[q]
    BY <1>2, <2>4 DEF SessionTypes
  <2>8. Unbegun'
    <3> SUFFICES ASSUME NEW q \in Runs, run'[q] = "idle"
                 PROVE  /\ ~InTables(q)' /\ pending'[q] = NONE /\ tempToReal'[q] = NONE
                        /\ q \notin alive' /\ generator'[q] = "none" /\ uses'[q] = NONE
                        /\ \A u \in Runs : uses'[u] # q
      BY DEF Unbegun
    <3>1. /\ ~InTables(q) /\ pending[q] = NONE /\ tempToReal[q] = NONE
          /\ q \notin alive /\ generator[q] = "none" /\ uses[q] = NONE
          /\ \A u \in Runs : uses[u] # q
          /\ q # r /\ q \in Claude!Handles
      BY <2>7 DEF SessionIInv, Unbegun, Claude!Handles
    <3>2. s # q
      BY <3>1, <2>3
    <3> QED
      BY <3>1, <3>2, <2>6, <2>7, <1>1, <1>3
  <2>9. Apart'
    <3> SUFFICES ASSUME NEW q \in Runs, NEW u \in Runs, Active(q)', Active(u)', q # u
                 PROVE  uses'[q] # uses'[u]
      BY Zenon DEF Apart
    <3>1. q # r => Active(q)
      BY <2>7 DEF Active
    <3>2. u # r => Active(u)
      BY <2>7 DEF Active
    <3>3. CASE q # r /\ u # r
      BY <3>1, <3>2, <3>3, <2>7, Zenon DEF SessionIInv, Apart
    <3>4. CASE q = r \/ u = r
      BY <3>1, <3>2, <3>4, <2>3, <2>7
    <3> QED
      BY <3>3, <3>4
  <2>10. ASSUME NEW q \in Runs PROVE RunnerShape(q)'
    <3>1. CASE q = r
      <4>1. \A x \in Runs, h \in Claude!Handles : uses'[q] = x /\ handle'[q] = h =>
              IF InTables(x)' THEN Claude!SessionFor(h)' = x ELSE x \in closed'
        BY <3>1, <1>3, <2>3, <2>6, <2>7
      <4>2. /\ uses'[q] \in Runs /\ handle'[q] \in Claude!Handles
            /\ generator'[q] \notin {"spawning", "feeding"}
        BY <3>1, <1>1, <1>4, <2>7
      <4> QED
        BY <4>1, <4>2, Zenon DEF RunnerShape
    <3>2. CASE q # r
      <4>1. /\ uses'[q] = uses[q] /\ handle'[q] = handle[q] /\ run'[q] = run[q]
            /\ generator' = generator /\ closed' = closed
        BY <3>2, <2>7, <1>1
      <4>2. RunnerShape(q)
        BY DEF SessionIInv
      <4>3. Active(q)' <=> Active(q)
        BY <4>1 DEF Active
      <4>4. \A x \in Runs, h \in Claude!Handles : uses'[q] = x /\ handle'[q] = h =>
              IF InTables(x)' THEN Claude!SessionFor(h)' = x ELSE x \in closed'
        <5> TAKE x \in Runs, h \in Claude!Handles
        <5>1. uses[q] = x /\ handle[q] = h =>
                IF InTables(x) THEN Claude!SessionFor(h) = x ELSE x \in closed
          BY <4>2, Zenon DEF RunnerShape
        <5> QED
          BY <4>1, <5>1, <1>3, <2>6
      <4> QED
        BY <4>1, <4>2, <4>3, <4>4 DEF RunnerShape
    <3> QED
      BY <3>1, <3>2
  <2>11. ASSUME NEW q \in Runs, q \in alive' \ unremoved' PROVE Answered(q)'
    <3>1. Answered(q) /\ q # r
      BY <2>11, <1>1, <1>4 DEF SessionIInv
    <3>2. PICK x \in Runs : /\ uses[q] = x /\ process[x] = q /\ InTables(x)
                            /\ run[q] = "over" => x \in closed
      BY <3>1 DEF Answered
    <3>3. uses'[q] = x /\ process'[x] = q /\ InTables(x)' /\ (run'[q] = "over" => x \in closed')
      BY <3>1, <3>2, <1>1, <1>3, <2>7
    <3> QED
      BY <3>3, Zenon DEF Answered
  <2>12. \A q \in alive' \ unremoved' : Answered(q)'
    BY <2>5, <2>11 DEF SessionTypes
  <2> QED
    BY <2>5, <2>6, <2>8, <2>9, <2>10, <2>12, <1>1, <1>2, <1>5 DEF SessionIInv
<1> QED
  BY <1>7, <1>8

LEMMA CreateKeeps ==
  ASSUME SessionIInv, SessionsAssumption, NEW r \in Runs, NEW h \in Claude!Handles,
         Claude!Create(r, h)
  PROVE  SessionIInv'
<1>1. /\ run[r] = "idle" /\ busy = NONE /\ (h = r \/ h \in Ids)
      /\ run' = [run EXCEPT ![r] = "ready"] /\ uses' = [uses EXCEPT ![r] = r]
      /\ handle' = [handle EXCEPT ![r] = h] /\ pending' = [pending EXCEPT ![h] = r]
      /\ UNCHANGED <<generator, captured, tempToReal, closing, busy, todo, failures, closed,
                     process, alive, pids, unremoved>>
  BY DEF Claude!Create, Claude!processes, Claude!Resumable
<1>2. SessionTypes /\ TablesOK /\ LockShape /\ alive \subseteq pids
  BY DEF SessionIInv
<1>3. /\ generator[r] = "none" /\ r \notin alive /\ uses[r] = NONE /\ ~InTables(r)
      /\ \A q \in Runs : uses[q] # r
      /\ r # NONE /\ NONE \notin Runs /\ Runs \cap Ids = {} /\ h # NONE
  BY <1>1, SessionsAssumption DEF SessionIInv, Unbegun, Claude!Handles
<1>4. /\ TablesOK' /\ Claude!SessionFor(h)' = r
      /\ \A x \in Runs : InTables(x)' <=> InTables(x) \/ x = r
      /\ \A g \in Claude!Handles :
           Claude!SessionFor(g) # NONE => Claude!SessionFor(g)' = Claude!SessionFor(g)
  BY CreateKeepsTables
<1>5. LockShape'
  BY <1>1, SessionsAssumption DEF LockShape
<1>6. SessionTypes'
  BY <1>1, <1>2 DEF SessionTypes
<1>7. /\ uses'[r] = r /\ handle'[r] = h /\ run'[r] = "ready"
      /\ \A q \in Runs : q # r => /\ uses'[q] = uses[q] /\ handle'[q] = handle[q]
                                  /\ run'[q] = run[q]
  BY <1>1, <1>2 DEF SessionTypes
<1>8. Unbegun'
  <2> SUFFICES ASSUME NEW q \in Runs, run'[q] = "idle"
               PROVE  /\ ~InTables(q)' /\ pending'[q] = NONE /\ tempToReal'[q] = NONE
                      /\ q \notin alive' /\ generator'[q] = "none" /\ uses'[q] = NONE
                      /\ \A u \in Runs : uses'[u] # q
    BY DEF Unbegun
  <2>1. /\ ~InTables(q) /\ pending[q] = NONE /\ tempToReal[q] = NONE
        /\ q \notin alive /\ generator[q] = "none" /\ uses[q] = NONE
        /\ \A u \in Runs : uses[u] # q
        /\ q # r /\ q \in Claude!Handles
    BY <1>7 DEF SessionIInv, Unbegun, Claude!Handles
  <2>2. pending'[q] = NONE
    BY <2>1, <1>1, <1>2, <1>3 DEF TablesOK
  <2> QED
    BY <2>1, <2>2, <1>1, <1>4, <1>7
<1>9. Apart'
  <2> SUFFICES ASSUME NEW q \in Runs, NEW u \in Runs, Active(q)', Active(u)', q # u
               PROVE  uses'[q] # uses'[u]
    BY Zenon DEF Apart
  <2>1. q # r => Active(q)
    BY <1>7 DEF Active
  <2>2. u # r => Active(u)
    BY <1>7 DEF Active
  <2>3. CASE q # r /\ u # r
    BY <2>1, <2>2, <2>3, <1>7, Zenon DEF SessionIInv, Apart
  <2>4. CASE q = r \/ u = r
    BY <2>4, <1>3, <1>7
  <2> QED
    BY <2>3, <2>4
<1>10. ASSUME NEW q \in Runs PROVE RunnerShape(q)'
  <2>1. CASE q = r
    <3>1. \A x \in Runs, g \in Claude!Handles : uses'[q] = x /\ handle'[q] = g =>
            IF InTables(x)' THEN Claude!SessionFor(g)' = x ELSE x \in closed'
      BY <2>1, <1>4, <1>7
    <3>2. /\ uses'[q] \in Runs /\ handle'[q] \in Claude!Handles
          /\ generator'[q] \notin {"spawning", "feeding"}
      BY <2>1, <1>1, <1>3, <1>7
    <3> QED
      BY <3>1, <3>2, Zenon DEF RunnerShape
  <2>2. CASE q # r
    <3>1. /\ uses'[q] = uses[q] /\ handle'[q] = handle[q] /\ run'[q] = run[q]
          /\ generator' = generator /\ closed' = closed
      BY <2>2, <1>7, <1>1
    <3>2. RunnerShape(q)
      BY DEF SessionIInv
    <3>3. Active(q)' <=> Active(q)
      BY <3>1 DEF Active
    <3>4. \A x \in Runs, g \in Claude!Handles : uses'[q] = x /\ handle'[q] = g =>
            IF InTables(x)' THEN Claude!SessionFor(g)' = x ELSE x \in closed'
      <4> TAKE x \in Runs, g \in Claude!Handles
      <4>1. uses[q] = x /\ handle[q] = g =>
              IF InTables(x) THEN Claude!SessionFor(g) = x ELSE x \in closed
        BY <3>2, Zenon DEF RunnerShape
      <4>2. x # NONE /\ (uses[q] = x => x # r)
        BY <1>3
      <4> QED
        BY <3>1, <4>1, <4>2, <1>4
    <3> QED
      BY <3>1, <3>2, <3>3, <3>4 DEF RunnerShape
  <2> QED
    BY <2>1, <2>2
<1>11. ASSUME NEW q \in Runs, q \in alive' \ unremoved' PROVE Answered(q)'
  <2>1. Answered(q) /\ q # r
    BY <1>1, <1>3, <1>11 DEF SessionIInv
  <2>2. PICK x \in Runs : /\ uses[q] = x /\ process[x] = q /\ InTables(x)
                          /\ run[q] = "over" => x \in closed
    BY <2>1 DEF Answered
  <2>3. uses'[q] = x /\ process'[x] = q /\ InTables(x)' /\ (run'[q] = "over" => x \in closed')
    BY <2>1, <2>2, <1>1, <1>4, <1>7
  <2> QED
    BY <2>3, Zenon DEF Answered
<1>12. \A q \in alive' \ unremoved' : Answered(q)'
  BY <1>6, <1>11 DEF SessionTypes
<1> QED
  BY <1>1, <1>2, <1>4, <1>5, <1>6, <1>8, <1>9, <1>10, <1>12 DEF SessionIInv

LEMMA RegisterKeeps ==
  ASSUME SessionIInv, SessionsAssumption, NEW r \in Runs, NEW i \in Ids,
         Claude!Register(r, i)
  PROVE  SessionIInv'
<1>1. /\ run[r] = "running" /\ busy = NONE /\ handle' = [handle EXCEPT ![r] = i]
      /\ captured' = captured \cup {r}
      /\ UNCHANGED <<run, generator, uses, closing, busy, todo, failures, closed, process,
                     alive, pids, unremoved>>
  BY DEF Claude!Register, Claude!processes
<1>2. SessionTypes /\ TablesOK /\ LockShape /\ alive \subseteq pids
  BY DEF SessionIInv
<1>3. PICK k \in Claude!Handles : k = handle[r]
  BY RegisterKeepsTables
<1>4. /\ TablesOK' /\ Claude!SessionFor(i)' = Claude!SessionFor(k)
      /\ \A x \in Runs : InTables(x)' <=> InTables(x)
      /\ \A g \in Claude!Handles :
           /\ Claude!SessionFor(g) # NONE => Claude!SessionFor(g)' = Claude!SessionFor(g)
           /\ pending[g] = NONE => pending'[g] = NONE /\ tempToReal'[g] = tempToReal[g]
  BY <1>3, RegisterKeepsTables
<1>5. i \in Claude!Handles /\ i # NONE /\ NONE \notin Runs
  BY SessionsAssumption DEF Claude!Handles
<1>6. SessionTypes'
  BY <1>1, <1>2, <1>5 DEF SessionTypes
<1>7. LockShape'
  BY <1>1, SessionsAssumption DEF LockShape
<1>8. handle'[r] = i /\ \A q \in Runs : q # r => handle'[q] = handle[q]
  BY <1>1, <1>2 DEF SessionTypes
<1>9. Unbegun'
  <2> SUFFICES ASSUME NEW q \in Runs, run'[q] = "idle"
               PROVE  /\ ~InTables(q)' /\ pending'[q] = NONE /\ tempToReal'[q] = NONE
                      /\ q \notin alive' /\ generator'[q] = "none" /\ uses'[q] = NONE
                      /\ \A u \in Runs : uses'[u] # q
    BY DEF Unbegun
  <2>1. /\ ~InTables(q) /\ pending[q] = NONE /\ tempToReal[q] = NONE
        /\ q \notin alive /\ generator[q] = "none" /\ uses[q] = NONE
        /\ \A u \in Runs : uses[u] # q
        /\ q \in Claude!Handles
    BY <1>1 DEF SessionIInv, Unbegun, Claude!Handles
  <2> QED
    BY <2>1, <1>1, <1>4
<1>10. Apart'
  BY <1>1 DEF SessionIInv, Apart, Active
<1>11. ASSUME NEW q \in Runs PROVE RunnerShape(q)'
  <2>1. RunnerShape(q) /\ uses' = uses /\ run' = run /\ generator' = generator
        /\ closed' = closed
    BY <1>1 DEF SessionIInv
  <2>2. Active(q)' <=> Active(q)
    BY <2>1 DEF Active
  <2>3. uses'[q] # NONE => handle'[q] \in Claude!Handles
    BY <2>1, <1>5, <1>8 DEF RunnerShape
  <2>4. \A x \in Runs, g \in Claude!Handles : uses'[q] = x /\ handle'[q] = g =>
          IF InTables(x)' THEN Claude!SessionFor(g)' = x ELSE x \in closed'
    <3> TAKE x \in Runs, g \in Claude!Handles
    <3>1. \A f \in Claude!Handles : uses[q] = x /\ handle[q] = f =>
            IF InTables(x) THEN Claude!SessionFor(f) = x ELSE x \in closed
      BY <2>1, Zenon DEF RunnerShape
    <3>2. x # NONE
      BY <1>5
    <3>3. CASE q = r
      <4>1. uses[q] = x => IF InTables(x) THEN Claude!SessionFor(k) = x ELSE x \in closed
        BY <3>1, <3>3, <1>3
      <4> QED
        BY <3>3, <4>1, <2>1, <1>4, <1>8
    <3>4. CASE q # r
      BY <3>1, <3>2, <3>4, <2>1, <1>4, <1>8
    <3> QED
      BY <3>3, <3>4
  <2> QED
    BY <2>1, <2>2, <2>3, <2>4 DEF RunnerShape
<1>12. ASSUME NEW q \in Runs, q \in alive' \ unremoved' PROVE Answered(q)'
  <2>1. Answered(q)
    BY <1>1, <1>12 DEF SessionIInv
  <2> QED
    BY <2>1, <1>1, <1>4, StillAnswered
<1>13. \A q \in alive' \ unremoved' : Answered(q)'
  BY <1>6, <1>12 DEF SessionTypes
<1> QED
  BY <1>1, <1>2, <1>4, <1>6, <1>7, <1>9, <1>10, <1>11, <1>13 DEF SessionIInv

LEMMA RemoveBeginsKeeps ==
  ASSUME SessionIInv, SessionsAssumption, NEW r \in Runs, Claude!RemoveBegins(r)
  PROVE  SessionIInv'
<1>1. /\ run[r] = "removing" /\ busy = NONE
      /\ UNCHANGED <<generator, uses, handle, captured, todo, failures, closed, process,
                     alive, pids, unremoved>>
      /\ UNCHANGED Claude!tables
  BY DEF Claude!RemoveBegins, Claude!runner, Claude!processes
<1>2. SessionTypes /\ TablesOK /\ LockShape /\ alive \subseteq pids /\ NONE \notin Runs
  BY SessionsAssumption DEF SessionIInv
<1>3. /\ \A x \in Runs : InTables(x)' <=> InTables(x)
      /\ \A h \in Claude!Handles : Claude!SessionFor(h)' = Claude!SessionFor(h)
  BY <1>1, <1>2, TablesStay
<1>4. PICK h \in Claude!Handles : h = handle[r]
  <2>1. RunnerShape(r) /\ uses[r] # NONE
    BY <1>1, <1>2 DEF SessionIInv, RunnerShape, Active
  <2> QED
    BY <2>1 DEF RunnerShape
<1>5. h # NONE /\ r # "stop_all" /\ "stop_all" # NONE
  BY SessionsAssumption DEF Claude!Handles
<1>6. CASE Claude!SessionFor(h) = NONE
  <2>1. run' = [run EXCEPT ![r] = "over"] /\ UNCHANGED <<closing, busy>>
    BY <1>4, <1>6 DEF Claude!RemoveBegins
  <2>2. SessionTypes'
    BY <1>1, <1>2, <2>1 DEF SessionTypes
  <2>3. ASSUME NEW q \in Runs PROVE GoesOn(q)
    <3>1. /\ run[q] = "idle" => generator[q] = "none" /\ q \notin alive
          /\ generator[q] \in {"spawning", "feeding"} =>
               run[q] = "running" /\ uses[q] \notin closed
      BY DEF SessionIInv, Unbegun, RunnerShape
    <3> QED
      BY <3>1, <2>1, <1>1, <1>2 DEF GoesOn, Active, SessionTypes
  <2>4. ASSUME NEW q \in Runs, q \in alive' \ unremoved' PROVE Answered(q)'
    <3>1. Answered(q)
      BY <2>4, <1>1 DEF SessionIInv
    <3>2. q # r
      <4> SUFFICES ASSUME q = r PROVE FALSE
        OBVIOUS
      <4>1. PICK s \in Runs : uses[r] = s /\ InTables(s)
        BY <3>1 DEF Answered
      <4>2. Claude!SessionFor(h) = s
        BY <4>1, <1>4, Zenon DEF SessionIInv, RunnerShape
      <4> QED
        BY <4>2, <1>2, <1>6
    <3>3. run'[q] = run[q]
      BY <3>2, <2>1, <1>2 DEF SessionTypes
    <3> QED
      BY <3>1, <3>3, <2>1, <1>1, <1>3, StillAnswered
  <2>5. \A q \in alive' \ unremoved' : Answered(q)'
    BY <2>2, <2>4 DEF SessionTypes
  <2>6. LockShape'
    BY <1>1, <1>2, <1>5, <2>1 DEF LockShape
  <2> QED
    BY <2>1, <2>2, <2>3, <2>5, <2>6, <1>1, <1>2, QuietStep
<1>7. CASE Claude!SessionFor(h) # NONE
  <2>1. PICK s \in Runs : s = Claude!SessionFor(h)
    BY <1>2, <1>7, FoundInTables
  <2>2. busy' = r /\ run' = run /\ closing' = closing \cup {s}
    BY <1>4, <1>5, <1>7, <2>1 DEF Claude!RemoveBegins
  <2>3. SessionTypes'
    BY <1>1, <1>2, <2>2 DEF SessionTypes
  <2>4. ASSUME NEW q \in Runs PROVE GoesOn(q)
    <3>1. /\ run[q] = "idle" => generator[q] = "none" /\ q \notin alive
          /\ generator[q] \in {"spawning", "feeding"} =>
               run[q] = "running" /\ uses[q] \notin closed
      BY DEF SessionIInv, Unbegun, RunnerShape
    <3> QED
      BY <3>1, <2>2, <1>1, <1>2 DEF GoesOn, Active
  <2>5. ASSUME NEW q \in Runs, q \in alive' \ unremoved' PROVE Answered(q)'
    <3>1. Answered(q)
      BY <2>5, <1>1 DEF SessionIInv
    <3> QED
      BY <3>1, <2>2, <1>1, <1>3, StillAnswered
  <2>6. \A q \in alive' \ unremoved' : Answered(q)'
    BY <2>3, <2>5 DEF SessionTypes
  <2>7. LockShape'
    <3>1. ASSUME NEW q \in Runs, busy' = q
          PROVE  /\ run'[q] = "removing"
                 /\ \E g \in Claude!Handles : handle'[q] = g /\ Claude!SessionFor(g)' # NONE
      <4>1. q = r /\ handle'[q] = h /\ Claude!SessionFor(h)' # NONE
        BY <3>1, <2>2, <1>1, <1>3, <1>4, <1>7
      <4> QED
        BY <4>1, <2>2, <1>1
    <3> QED
      BY <3>1, <2>2, <1>5, Zenon DEF LockShape
  <2> QED
    BY <2>2, <2>3, <2>4, <2>6, <2>7, <1>1, <1>2, QuietStep
<1> QED
  BY <1>6, <1>7

LEMMA RemoveCancelledKeeps ==
  ASSUME SessionIInv, SessionsAssumption, NEW r \in Runs, Claude!RemoveCancelled(r)
  PROVE  SessionIInv'
<1>1. /\ run[r] = "removing" /\ run' = [run EXCEPT ![r] = "over"]
      /\ busy' = IF busy = r THEN NONE ELSE busy
      /\ unremoved' = unremoved \cup {r}
      /\ UNCHANGED <<generator, uses, handle, captured, closing, todo, failures, closed,
                     process, alive, pids>>
      /\ UNCHANGED Claude!tables
  BY DEF Claude!RemoveCancelled, Claude!runner, Claude!processes
<1>2. SessionTypes /\ TablesOK /\ LockShape /\ alive \subseteq pids
      /\ NONE \notin Runs /\ "stop_all" # NONE
  BY SessionsAssumption DEF SessionIInv
<1>3. /\ \A x \in Runs : InTables(x)' <=> InTables(x)
      /\ \A h \in Claude!Handles : Claude!SessionFor(h)' = Claude!SessionFor(h)
  BY <1>1, <1>2, TablesStay
<1>4. SessionTypes'
  BY <1>1, <1>2 DEF SessionTypes
<1>5. ASSUME NEW q \in Runs PROVE GoesOn(q)
  <2>1. /\ run[q] = "idle" => generator[q] = "none" /\ q \notin alive
        /\ generator[q] \in {"spawning", "feeding"} =>
             run[q] = "running" /\ uses[q] \notin closed
    BY DEF SessionIInv, Unbegun, RunnerShape
  <2> QED
    BY <2>1, <1>1, <1>2 DEF GoesOn, Active, SessionTypes
<1>6. ASSUME NEW q \in Runs, q \in alive' \ unremoved' PROVE Answered(q)'
  <2>1. Answered(q) /\ q # r
    BY <1>1, <1>6 DEF SessionIInv
  <2>2. run'[q] = run[q]
    BY <2>1, <1>1, <1>2 DEF SessionTypes
  <2> QED
    BY <2>1, <2>2, <1>1, <1>3, StillAnswered
<1>7. \A q \in alive' \ unremoved' : Answered(q)'
  BY <1>4, <1>6 DEF SessionTypes
<1>8. LockShape'
  <2>1. ASSUME NEW q \in Runs, busy' = q
        PROVE  /\ run'[q] = "removing"
               /\ \E h \in Claude!Handles : handle'[q] = h /\ Claude!SessionFor(h)' # NONE
    <3>1. busy = q /\ q # r
      BY <2>1, <1>1, <1>2
    <3>2. run[q] = "removing" /\ \E h \in Claude!Handles :
            handle[q] = h /\ Claude!SessionFor(h) # NONE
      BY <3>1, <1>2, Zenon DEF LockShape
    <3> QED
      BY <3>1, <3>2, <1>1, <1>2, <1>3 DEF SessionTypes
  <2>2. ASSUME busy' = "stop_all", ~failures', NEW s \in Runs, InTables(s)'
        PROVE  s \in todo'
    <3>1. busy = "stop_all" /\ ~failures /\ InTables(s) /\ todo' = todo
      BY <2>2, <1>1, <1>2, <1>3
    <3> QED
      BY <3>1, <1>2, Zenon DEF LockShape
  <2> QED
    BY <2>1, <2>2, Zenon DEF LockShape
<1> QED
  BY <1>1, <1>2, <1>4, <1>5, <1>7, <1>8, QuietStep

(* The manager stops a session and forgets it, or fails to.                *)
LEMMA StopStep ==
  ASSUME SessionIInv, SessionsAssumption, SessionTypes', LockShape', NEW s \in Runs,
         \/ Claude!Stopped(s) /\ Claude!Forget(s)
         \/ Claude!NotStopped(s) /\ UNCHANGED Claude!tables,
         UNCHANGED <<generator, uses, handle, unremoved>>,
         \A q \in Runs : \/ run'[q] = run[q]
                         \/ /\ run[q] = "removing" /\ run'[q] = "over"
                            /\ \E h \in Claude!Handles : handle[q] = h /\ Claude!SessionFor(h) = s
  PROVE  SessionIInv'
<1>1. TablesOK /\ SessionTypes /\ alive \subseteq pids /\ NONE \notin Runs
  BY SessionsAssumption DEF SessionIInv
<1>2. /\ closed' = closed \cup {s} /\ process' = process
      /\ alive' \subseteq alive /\ alive' \subseteq pids' /\ pids' \subseteq pids
      /\ Claude!Stopped(s) => process[s] \notin alive'
      /\ \A q \in Runs : generator[q] \in {"spawning", "feeding"} => uses[q] \notin closed'
  BY StopEffect
<1>3. /\ TablesOK'
      /\ \A x \in Runs : InTables(x)' => InTables(x)
      /\ \A x \in Runs : InTables(x) => InTables(x)' \/ x = s
      /\ \A x \in Runs, h \in Claude!Handles :
           InTables(x)' /\ Claude!SessionFor(h) = x => Claude!SessionFor(h)' = x
      /\ \A h \in Claude!Handles : /\ pending[h] = NONE => pending'[h] = NONE
                                   /\ tempToReal[h] = NONE => tempToReal'[h] = NONE
  <2>1. CASE Claude!Forget(s)
    <3>1. /\ TablesOK'
          /\ \A x \in Runs : InTables(x)' <=> InTables(x) /\ x # s
          /\ \A g \in Claude!Handles : Claude!SessionFor(g) \notin {NONE, s} =>
               Claude!SessionFor(g)' = Claude!SessionFor(g)
          /\ \A h \in Claude!Handles : /\ pending[h] = NONE => pending'[h] = NONE
                                       /\ tempToReal[h] = NONE => tempToReal'[h] = NONE
      BY <2>1, <1>1, ForgetKeepsTables
    <3> QED
      BY <3>1, <1>1
  <2>2. CASE UNCHANGED Claude!tables
    BY <2>2, <1>1, TablesStay
  <2> QED
    BY <2>1, <2>2
<1>4. ASSUME NEW q \in Runs PROVE GoesOn(q)
  <2>1. /\ run[q] = "idle" => generator[q] = "none" /\ q \notin alive
        /\ generator[q] \in {"spawning", "feeding"} => run[q] = "running"
    BY DEF SessionIInv, Unbegun, RunnerShape
  <2>2. run'[q] = run[q] \/ (run[q] = "removing" /\ run'[q] = "over")
    OBVIOUS
  <2> QED
    BY <2>1, <2>2, <1>2 DEF GoesOn, Active
<1>5. ASSUME NEW q \in Runs, q \in alive' \ unremoved' PROVE Answered(q)'
  <2>1. Answered(q)
    BY <1>2, <1>5 DEF SessionIInv
  <2>2. PICK x \in Runs : /\ uses[q] = x /\ process[x] = q /\ InTables(x)
                          /\ run[q] = "over" => x \in closed
    BY <2>1 DEF Answered
  <2>3. InTables(x)'
    <3>1. CASE Claude!Stopped(s)
      <4>1. x # s
        BY <3>1, <2>2, <1>2, <1>5
      <4> QED
        BY <4>1, <2>2, <1>3
    <3>2. CASE UNCHANGED Claude!tables
      BY <3>2, <2>2, <1>1, TablesStay
    <3> QED
      BY <3>1, <3>2
  <2>4. run'[q] = "over" => x \in closed'
    <3>1. CASE run'[q] = run[q]
      BY <3>1, <2>2, <1>2
    <3>2. CASE run'[q] # run[q]
      <4>1. PICK h \in Claude!Handles : handle[q] = h /\ Claude!SessionFor(h) = s
        BY <3>2
      <4>2. Claude!SessionFor(h) = x
        BY <4>1, <2>2, Zenon DEF SessionIInv, RunnerShape
      <4> QED
        BY <4>1, <4>2, <1>2
    <3> QED
      BY <3>1, <3>2
  <2>5. uses'[q] = x /\ process'[x] = q
    BY <2>2, <1>2
  <2> QED
    BY <2>3, <2>4, <2>5, Zenon DEF Answered
<1>6. \A q \in alive' \ unremoved' : Answered(q)'
  BY <1>5 DEF SessionTypes
<1>7. Unbegun' /\ Apart' /\ \A r \in Runs : RunnerShape(r)'
  <2>1. \A x \in Runs : InTables(x) => InTables(x)' \/ x \in closed'
    BY <1>2, <1>3
  <2> QED
    BY <2>1, <1>2, <1>3, <1>4, RunnersGoOn
<1> QED
  BY <1>2, <1>3, <1>6, <1>7 DEF SessionIInv

LEMMA RemoveStopsKeeps ==
  ASSUME SessionIInv, SessionsAssumption, NEW r \in Runs, Claude!RemoveStops(r)
  PROVE  SessionIInv'
<1>1. /\ busy = r /\ busy' = NONE /\ run' = [run EXCEPT ![r] = "over"]
      /\ UNCHANGED <<generator, uses, handle, captured, todo, failures, unremoved>>
  BY DEF Claude!RemoveStops, Claude!runner
<1>2. SessionTypes /\ TablesOK /\ NONE \notin Runs /\ NONE # "stop_all"
  BY SessionsAssumption DEF SessionIInv
<1>3. PICK h \in Claude!Handles : /\ run[r] = "removing" /\ handle[r] = h
                                  /\ Claude!SessionFor(h) # NONE
  BY <1>1, Zenon DEF SessionIInv, LockShape
<1>4. PICK s \in Runs : s = Claude!SessionFor(h)
  BY <1>2, <1>3, FoundInTables
<1>5. \/ Claude!Stopped(s) /\ Claude!Forget(s)
      \/ Claude!NotStopped(s) /\ UNCHANGED Claude!tables /\ closing' = closing
  BY <1>3, <1>4 DEF Claude!RemoveStops
<1>6. SessionTypes'
  <2>1. closing' \subseteq closing
    BY <1>5 DEF Claude!Forget
  <2>2. closed' = closed \cup {s} /\ process' = process /\ alive' \subseteq alive
        /\ pids' \subseteq pids
    BY <1>5, StopEffect
  <2> QED
    BY <2>1, <2>2, <1>1, <1>2 DEF SessionTypes
<1>7. LockShape'
  BY <1>1, <1>2 DEF LockShape
<1>8. \A q \in Runs : \/ run'[q] = run[q]
                      \/ /\ run[q] = "removing" /\ run'[q] = "over"
                         /\ \E g \in Claude!Handles : handle[q] = g /\ Claude!SessionFor(g) = s
  BY <1>1, <1>2, <1>3, <1>4 DEF SessionTypes
<1> QED
  BY <1>1, <1>5, <1>6, <1>7, <1>8, StopStep

LEMMA StopAllKeeps ==
  ASSUME SessionIInv, SessionsAssumption, Claude!StopAll
  PROVE  SessionIInv'
<1>0. /\ SessionTypes /\ TablesOK /\ LockShape /\ alive \subseteq pids
      /\ NONE # "stop_all" /\ NONE \notin Runs /\ "stop_all" \notin Runs
  BY SessionsAssumption DEF SessionIInv
<1>1. CASE Claude!StopAllBegins
  <2>1. /\ busy' = "stop_all" /\ todo' = Claude!Owned /\ closing' = Claude!Owned
        /\ failures' = FALSE
        /\ UNCHANGED <<run, generator, uses, handle, captured, closed, process, alive, pids,
                       unremoved>>
        /\ UNCHANGED Claude!tables
    BY <1>1 DEF Claude!StopAllBegins, Claude!runner, Claude!processes
  <2>2. Claude!Owned \subseteq Runs /\ \A s \in Runs : InTables(s) => s \in Claude!Owned
    BY <1>0 DEF Claude!Owned, SessionTypes, TablesOK, InTables
  <2>3. SessionTypes'
    BY <2>1, <2>2, <1>0 DEF SessionTypes
  <2>4. \A s \in Runs : InTables(s)' <=> InTables(s)
    BY <2>1, <1>0, TablesStay
  <2>5. LockShape'
    BY <2>1, <2>2, <2>4, <1>0 DEF LockShape
  <2>6. ASSUME NEW q \in Runs PROVE GoesOn(q)
    <3>1. /\ run[q] = "idle" => generator[q] = "none" /\ q \notin alive
          /\ generator[q] \in {"spawning", "feeding"} =>
               run[q] = "running" /\ uses[q] \notin closed
      BY DEF SessionIInv, Unbegun, RunnerShape
    <3> QED
      BY <3>1, <2>1 DEF GoesOn, Active
  <2>7. ASSUME NEW q \in Runs, q \in alive' \ unremoved' PROVE Answered(q)'
    <3>1. Answered(q)
      BY <2>1, <2>7 DEF SessionIInv
    <3> QED
      BY <3>1, <2>1, <2>4, StillAnswered
  <2>8. \A q \in alive' \ unremoved' : Answered(q)'
    BY <2>3, <2>7 DEF SessionTypes
  <2> QED
    BY <2>1, <2>3, <2>5, <2>6, <2>8, <1>0, QuietStep
<1>2. ASSUME NEW s \in Runs, Claude!StopAllStops(s) PROVE SessionIInv'
  <2>1. /\ busy = "stop_all" /\ busy' = busy /\ todo' = todo \ {s}
        /\ \/ Claude!Stopped(s) /\ Claude!Forget(s) /\ failures' = failures
           \/ Claude!NotStopped(s) /\ failures' = TRUE /\ UNCHANGED Claude!tables
              /\ closing' = closing
        /\ UNCHANGED <<run, generator, uses, handle, captured, unremoved>>
    BY <1>2 DEF Claude!StopAllStops, Claude!runner
  <2>2. SessionTypes'
    <3>1. closing' \subseteq closing
      BY <2>1 DEF Claude!Forget
    <3>2. closed' = closed \cup {s} /\ process' = process /\ alive' \subseteq alive
          /\ pids' \subseteq pids
      BY <2>1, StopEffect
    <3> QED
      BY <3>1, <3>2, <2>1, <1>0 DEF SessionTypes
  <2>3. LockShape'
    <3>1. ASSUME ~failures', NEW x \in Runs, InTables(x)' PROVE x \in todo'
      <4>1. Claude!Forget(s) /\ ~failures
        BY <2>1, <3>1
      <4>2. InTables(x) /\ x # s
        BY <3>1, <4>1, <1>0, ForgetKeepsTables
      <4> QED
        BY <4>1, <4>2, <2>1, <1>0 DEF LockShape
    <3> QED
      BY <3>1, <2>1, <1>0 DEF LockShape
  <2> QED
    BY <2>1, <2>2, <2>3, StopStep
<1>3. CASE Claude!StopAllReturns
  <2>1. /\ busy' = NONE /\ failures' = FALSE
        /\ UNCHANGED <<run, generator, uses, handle, captured, closing, todo, closed, process,
                       alive, pids, unremoved>>
        /\ UNCHANGED Claude!tables
    BY <1>3 DEF Claude!StopAllReturns, Claude!runner, Claude!processes
  <2>2. SessionTypes'
    BY <2>1, <1>0 DEF SessionTypes
  <2>3. LockShape'
    BY <2>1, <1>0 DEF LockShape
  <2>4. ASSUME NEW q \in Runs PROVE GoesOn(q)
    <3>1. /\ run[q] = "idle" => generator[q] = "none" /\ q \notin alive
          /\ generator[q] \in {"spawning", "feeding"} =>
               run[q] = "running" /\ uses[q] \notin closed
      BY DEF SessionIInv, Unbegun, RunnerShape
    <3> QED
      BY <3>1, <2>1 DEF GoesOn, Active
  <2>5. ASSUME NEW q \in Runs, q \in alive' \ unremoved' PROVE Answered(q)'
    <3>1. Answered(q)
      BY <2>1, <2>5 DEF SessionIInv
    <3>2. \A s \in Runs : InTables(s)' <=> InTables(s)
      BY <2>1, <1>0, TablesStay
    <3> QED
      BY <3>1, <3>2, <2>1, StillAnswered
  <2>6. \A q \in alive' \ unremoved' : Answered(q)'
    BY <2>2, <2>5 DEF SessionTypes
  <2> QED
    BY <2>1, <2>2, <2>3, <2>4, <2>6, <1>0, QuietStep
<1> QED
  BY <1>1, <1>2, <1>3 DEF Claude!StopAll

-----------------------------------------------------------------------------
LEMMA SessionsInitially ==
  ASSUME SessionsAssumption, Claude!Init
  PROVE  SessionIInv
<1>1. Runs \subseteq Claude!Handles /\ NONE \notin Runs /\ NONE # "stop_all"
  BY SessionsAssumption DEF Claude!Handles
<1>2. SessionTypes
  BY DEF Claude!Init, SessionTypes
<1>3. TablesOK
  BY SessionsAssumption DEF Claude!Init, TablesOK, OnePlace, IdsAgree, Claude!Handles
<1>4. \A s \in Runs : ~InTables(s)
  BY <1>1 DEF Claude!Init, InTables
<1>5. Unbegun
  BY <1>1, <1>4 DEF Claude!Init, Unbegun
<1>6. Apart /\ LockShape
  BY <1>1 DEF Claude!Init, Apart, Active, LockShape
<1>7. ASSUME NEW r \in Runs PROVE RunnerShape(r)
  BY <1>1 DEF Claude!Init, RunnerShape, Active
<1>8. alive = {}
  BY DEF Claude!Init
<1> QED
  BY <1>2, <1>3, <1>5, <1>6, <1>7, <1>8 DEF SessionIInv

LEMMA SessionsStep ==
  ASSUME SessionIInv, SessionsAssumption, Claude!SessionsNext
  PROVE  SessionIInv'
<1>1. ASSUME NEW r \in Runs, Claude!RunnerStep(r) PROVE SessionIInv'
  BY <1>1, BorrowKeeps, CreateKeeps, LaunchKeeps, SpawnKeeps, FeedKeeps, GeneratorEndsKeeps,
     ExitKeeps, GeneratorStopsKeeps, LeaveKeeps, RegisterKeeps, RemoveBeginsKeeps,
     RemoveStopsKeeps, RemoveCancelledKeeps, Zenon DEF Claude!RunnerStep
<1>2. CASE Claude!StopAll
  BY <1>2, StopAllKeeps
<1> QED
  BY <1>1, <1>2, Zenon DEF Claude!SessionsNext

LEMMA SessionsStutter ==
  ASSUME SessionIInv, UNCHANGED sessionVars
  PROVE  SessionIInv'
<1>1. /\ run' = run /\ generator' = generator /\ uses' = uses /\ handle' = handle
      /\ captured' = captured /\ pending' = pending /\ sessions' = sessions
      /\ tempToReal' = tempToReal /\ realToTemp' = realToTemp /\ closing' = closing
      /\ busy' = busy /\ todo' = todo /\ failures' = failures /\ closed' = closed
      /\ process' = process /\ alive' = alive /\ pids' = pids /\ unremoved' = unremoved
  BY DEF sessionVars
<1>2. SessionTypes' /\ Apart'
  BY <1>1 DEF SessionIInv, SessionTypes, Apart, Active
<1>3. TablesOK /\ UNCHANGED Claude!tables
  BY <1>1 DEF SessionIInv, Claude!tables
<1>4. \A r \in Runs : GoesOn(r)
  BY <1>1 DEF SessionIInv, GoesOn, Active, RunnerShape, Unbegun
<1>5. ASSUME NEW q \in Runs, q \in alive' \ unremoved' PROVE Answered(q)'
  <2>1. Answered(q)
    BY <1>1, <1>5 DEF SessionIInv
  <2>2. \A s \in Runs : InTables(s)' <=> InTables(s)
    BY <1>3, TablesStay
  <2> QED
    BY <2>1, <2>2, <1>1, StillAnswered
<1>6. \A q \in alive' \ unremoved' : Answered(q)'
  BY <1>2, <1>5 DEF SessionTypes
<1>7. LockShape'
  BY <1>1, <1>3, LockStays DEF SessionIInv
<1>8. alive' \subseteq pids'
  BY <1>1 DEF SessionIInv
<1> QED
  BY <1>1, <1>2, <1>3, <1>4, <1>6, <1>7, <1>8, QuietStep, SessionsAssumption

LEMMA NoneIsOrphaned ==
  ASSUME SessionIInv, SessionsAssumption
  PROVE  Claude!TypeOK /\ Claude!NoOrphans
<1>1. SessionTypes /\ TablesOK /\ LockShape /\ alive \subseteq pids /\ NONE \notin Runs
  BY SessionsAssumption DEF SessionIInv
<1>2. UNION {captured, closing, todo, closed, alive, pids, unremoved} \subseteq Runs
  BY <1>1 DEF SessionTypes
<1>3. Claude!TypeOK
  BY <1>1, <1>2 DEF SessionTypes, TablesOK, Claude!TypeOK
<1>4. ASSUME NEW r \in alive \ unremoved
      PROVE  \E s \in Runs : InTables(s) /\ process[s] = r
  BY <1>1 DEF SessionIInv, Answered
<1>5. \A s \in Runs : InTables(s) => s \in Claude!Owned
  BY <1>1 DEF Claude!Owned, InTables
<1>6. \A r \in alive \ unremoved : \E s \in Claude!Owned : process[s] = r
  BY <1>4, <1>5
<1>7. busy = "stop_all" /\ todo = {} /\ ~failures => alive \subseteq unremoved
  BY <1>1, <1>4 DEF LockShape
<1> QED
  BY <1>1, <1>3, <1>6, <1>7 DEF Claude!NoOrphans


(* While the Claude sessions are the component that runs, their invariant  *)
(* holds.                                                                  *)
SessionShape == component = "sessions" => SessionIInv

LEMMA ShapeIsKept ==
  ASSUME SessionShape, SessionsAssumption, [MCNext]_allVars
  PROVE  SessionShape'
<1> SUFFICES ASSUME component' = "sessions" PROVE SessionIInv'
  BY DEF SessionShape
<1>1. component = "sessions" /\ SessionIInv
  BY DEF MCNext, allVars, SessionShape
<1>2. Claude!SessionsNext \/ UNCHANGED sessionVars
  BY <1>1 DEF MCNext, allVars
<1> QED
  BY <1>1, <1>2, SessionsStep, SessionsStutter

(* Every Claude process that runs is known to the process registry, and is *)
(* the process of a session that the manager still holds, unless its       *)
(* runner was cancelled over the removal; and stop_all leaves none but     *)
(* those running when it has no failure to report.                         *)
THEOREM SessionsCorrect ==
  MCSpec => []NoOrphans
<1>1. MCInit => SessionShape
  BY SessionsInitially, SessionsAssumption DEF MCInit, SessionShape
<1>2. SessionShape /\ [MCNext]_allVars => SessionShape'
  BY ShapeIsKept, SessionsAssumption
<1>3. SessionShape => NoOrphans
  BY NoneIsOrphaned, SessionsAssumption DEF SessionShape, NoOrphans
<1> QED
  BY <1>1, <1>2, <1>3, PTL DEF MCSpec
=============================================================================
