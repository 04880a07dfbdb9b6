---------------------------- MODULE RequestProofs ----------------------------
(***************************************************************************)
(* Proofs about the components that serve a request.                       *)
(*                                                                         *)
(* The store of responses: what its client has seen completed can be       *)
(* continued.  The invariant relates memory and file to the turns that are *)
(* over: each record is true to its request, and no more records follow it *)
(* than were taken since (TrueRecords); what was seen completed is in the  *)
(* file, and in memory once that was read, or has made way (SeenIsKept).   *)
(*                                                                         *)
(* The Messages endpoint: a request has one answer of the form it asked    *)
(* for.  The invariant says what is still to be written (BodyShape): what  *)
(* the reader of the body has seen leads, through legal events only, by    *)
(* what is pending to a message that has its end; and what a decision has  *)
(* buffered leads from nothing to what the provider has sent.              *)
(*                                                                         *)
(* The bridge: each frame has one answer, in its turn.  The invariant      *)
(* says where frames begin in the pipe (PipeShape): each header is         *)
(* followed by its payload and then by the header of the next frame, and   *)
(* the first belongs to the frame after those that were taken.             *)
(*                                                                         *)
(* The side panel: every history it sends is one that a provider accepts.  *)
(* The invariant says that between rounds each call has its result (Neat), *)
(* and that in a round of tools the last reply, and no other, waits for    *)
(* its results (InRound), unless the conversation was cleared under it.    *)
(***************************************************************************)
EXTENDS MCRequests, Sequences, FiniteSetTheorems, FunctionTheorems, WellFoundedInduction, TLAPS

-----------------------------------------------------------------------------
(* The store of responses.                                                 *)

StoredRecords == [id : Requests, history : Seq(Requests)]

StoreTypes ==
  /\ turn \in [Requests -> {"new", "running", "rejected", "seen", "failed", "gone"}]
  /\ previous \in [Requests -> Requests \cup {NONE}]
  /\ turns \in [Requests -> Seq(Requests)] /\ newer \in [Requests -> Nat]
  /\ loaded \in BOOLEAN /\ unread \in BOOLEAN
  /\ memory \in Seq(StoredRecords) /\ Len(memory) <= MaxStored
  /\ file \in Seq(StoredRecords) /\ Len(file) <= MaxStored

(* The records of a store: each once, with the turns of a request that is  *)
(* over, and followed by no more of them than were taken since.            *)
TrueRecords(s) ==
  /\ \A k \in 1 .. Len(s) : /\ s[k].history = turns[s[k].id]
                            /\ turn[s[k].id] \in {"seen", "failed", "gone"}
                            /\ Len(s) - k <= newer[s[k].id]
  /\ \A j, k \in 1 .. Len(s) : s[j].id = s[k].id => j = k

(* A response that was seen completed is in the file, and in memory once   *)
(* it was read, or has made way.                                           *)
SeenIsKept ==
  \A r \in Requests :
    turn[r] = "seen" =>
      \/ unread \/ newer[r] >= MaxStored
      \/ r \in Store!Known(file) /\ (loaded => r \in Store!Known(memory))

(* What a request continues was seen completed; what it stands for is that *)
(* and itself; and it is rejected only when that has made way.             *)
TurnShape ==
  \A r \in Requests :
    /\ turn[r] = "new" => previous[r] = NONE
    /\ previous[r] # NONE => previous[r] \in Requests /\ turn[previous[r]] = "seen"
    /\ turn[r] \in {"running", "seen"} =>
         turns[r] = (IF previous[r] = NONE THEN <<r>> ELSE Append(turns[previous[r]], r))
    /\ turn[r] = "rejected" =>
         previous[r] # NONE /\ (unread \/ newer[previous[r]] >= MaxStored)

(* The inductive invariant of the store.                                   *)
StoreIInv ==
  StoreTypes /\ TrueRecords(memory) /\ TrueRecords(file) /\ SeenIsKept /\ TurnShape

(* A sequence of records with different ids has as many ids as records.    *)
LEMMA DistinctIds ==
  ASSUME NEW s \in Seq(StoredRecords), \A j, k \in 1 .. Len(s) : s[j].id = s[k].id => j = k
  PROVE  Cardinality(Store!Known(s)) = Len(s)
<1> DEFINE f == [k \in 1 .. Len(s) |-> s[k].id]
<1>1. DOMAIN s = 1 .. Len(s) /\ Len(s) \in Nat
  OBVIOUS
<1>2. f \in Bijection(1 .. Len(s), Store!Known(s))
  <2>1. f \in [1 .. Len(s) -> Store!Known(s)]
    BY <1>1 DEF Store!Known
  <2>2. \A e \in Store!Known(s) : \E k \in 1 .. Len(s) : f[k] = e
    BY <1>1 DEF Store!Known
  <2>3. \A j, k \in 1 .. Len(s) : f[j] = f[k] => j = k
    OBVIOUS
  <2> HIDE DEF f
  <2>4. f \in Injection(1 .. Len(s), Store!Known(s))
    BY <2>1, <2>3 DEF Injection, IsInjective
  <2>5. f \in Surjection(1 .. Len(s), Store!Known(s))
    BY <2>1, <2>2, Zenon DEF Surjection
  <2> QED
    BY <2>4, <2>5 DEF Bijection
<1>3. ExistsBijection(1 .. Len(s), Store!Known(s))
  BY <1>2 DEF ExistsBijection
<1>4. IsFiniteSet(1 .. Len(s)) /\ Cardinality(1 .. Len(s)) = Len(s)
  BY <1>1, FS_Interval
<1> QED
  BY <1>3, <1>4, FS_Bijection

LEMMA StoreIsServed ==
  ASSUME StoreIInv
  PROVE  Store!StoreTypeOK /\ Store!ContinuationsAreServed
<1>1. Cardinality(Store!Known(memory)) = Len(memory) /\ Cardinality(Store!Known(file)) = Len(file)
  BY DistinctIds DEF StoreIInv, StoreTypes, TrueRecords
<1>2. \A S : Store!Cardinality(S) = Cardinality(S)
  BY Zenon DEF Cardinality, Store!Cardinality
<1>3. Store!StoreTypeOK
  BY <1>1, <1>2 DEF StoreIInv, StoreTypes, Store!StoreTypeOK
<1>4. Store!ContinuationsAreServed
  <2>1. \A r \in Requests : turn[r] = "rejected" => unread \/ newer[previous[r]] >= MaxStored
    BY DEF StoreIInv, TurnShape
  <2>2. \A r \in Requests :
          turn[r] \in {"running", "seen"} =>
            turns[r] = (IF previous[r] = NONE THEN <<r>> ELSE Append(turns[previous[r]], r))
    BY DEF StoreIInv, TurnShape
  <2> QED
    BY <2>1, <2>2, Zenon DEF Store!ContinuationsAreServed
<1> QED
  BY <1>3, <1>4

(* Taking one record more drops at most the oldest one.                    *)
LEMMA NewestOf ==
  ASSUME NEW s \in Seq(StoredRecords), Len(s) <= MaxStored + 1
  PROVE  /\ Store!Newest(s) \in Seq(StoredRecords) /\ Len(Store!Newest(s)) <= MaxStored
         /\ \E d \in {0, 1} : /\ Len(Store!Newest(s)) = Len(s) - d
                              /\ \A k \in 1 .. Len(s) - d : Store!Newest(s)[k] = s[k + d]
                              /\ d = 1 => Len(s) = MaxStored + 1
<1>1. CASE Len(s) > MaxStored
  <2>1. Store!Newest(s) = SubSeq(s, 2, Len(s)) /\ Len(s) = MaxStored + 1
    BY <1>1, StoreAssumption DEF Store!Newest
  <2>2. SubSeq(s, 2, Len(s)) \in Seq(StoredRecords) /\ Len(SubSeq(s, 2, Len(s))) = Len(s) - 1
        /\ \A k \in 1 .. Len(s) - 1 : SubSeq(s, 2, Len(s))[k] = s[k + 1]
    BY <2>1, StoreAssumption
  <2> QED
    BY <2>1, <2>2, StoreAssumption
<1>2. CASE ~(Len(s) > MaxStored)
  BY <1>2, StoreAssumption DEF Store!Newest
<1> QED
  BY <1>1, <1>2

LEMMA StoreInitially ==
  ASSUME Store!Init
  PROVE  StoreIInv
<1>1. StoreTypes
  <2>1. <<>> \in Seq(StoredRecords) /\ <<>> \in Seq(Requests) /\ Len(<<>>) = 0
    OBVIOUS
  <2>2. loaded \in BOOLEAN /\ unread \in BOOLEAN
    BY Zenon DEF Store!Init
  <2>3. /\ turn = [r \in Requests |-> "new"] /\ previous = [r \in Requests |-> NONE]
        /\ turns = [r \in Requests |-> <<>>] /\ newer = [r \in Requests |-> 0]
        /\ memory = <<>> /\ file = <<>>
    BY Zenon DEF Store!Init
  <2> QED
    BY <2>1, <2>2, <2>3, StoreAssumption DEF StoreTypes
<1>2. TrueRecords(memory) /\ TrueRecords(file)
  BY DEF Store!Init, TrueRecords
<1>3. SeenIsKept /\ TurnShape
  BY DEF Store!Init, SeenIsKept, TurnShape
<1> QED
  BY <1>1, <1>2, <1>3 DEF StoreIInv

(* What the first use finds has only true records; and what was seen is    *)
(* among them, unless it has made way.                                     *)
LEMMA LoadsTrueRecords ==
  ASSUME StoreIInv, NEW s, Store!Loads(s)
  PROVE  /\ s \in Seq(StoredRecords) /\ Len(s) <= MaxStored /\ TrueRecords(s)
         /\ loaded' \in BOOLEAN /\ unread' \in BOOLEAN /\ (unread => unread')
         /\ \A r \in Requests :
              turn[r] = "seen" =>
                \/ unread' \/ newer[r] >= MaxStored
                \/ r \in Store!Known(file) /\ r \in Store!Known(s)
<1>1. Store!Newest(file) = file
  BY StoreAssumption DEF StoreIInv, StoreTypes, Store!Newest
<1>2. loaded' = TRUE /\ unread' \in BOOLEAN /\ (unread => unread')
  BY Zenon DEF Store!Loads, StoreIInv, StoreTypes
<1>3. CASE s = memory /\ loaded
  BY <1>2, <1>3 DEF StoreIInv, StoreTypes, SeenIsKept
<1>4. CASE s = file
  BY <1>2, <1>4 DEF StoreIInv, StoreTypes, SeenIsKept
<1>5. CASE s = <<>> /\ unread'
  <2>1. s \in Seq(StoredRecords) /\ Len(s) = 0
    BY <1>5
  <2>2. TrueRecords(s)
    BY <2>1 DEF TrueRecords
  <2> QED
    BY <1>2, <1>5, <2>1, <2>2, StoreAssumption
<1>6. (s = memory /\ loaded) \/ s = file \/ (s = <<>> /\ unread')
  BY <1>1, Zenon DEF Store!Loads
<1> QED
  BY <1>3, <1>4, <1>5, <1>6

(* True records are only about requests that are over, and counts of them. *)
LEMMA TrueRecordsStay ==
  ASSUME StoreTypes, NEW s \in Seq(StoredRecords), TrueRecords(s),
         newer' \in [Requests -> Nat], \A r \in Requests : newer'[r] >= newer[r],
         \A r \in Requests : turn[r] \in {"seen", "failed", "gone"} =>
                               turn'[r] = turn[r] /\ turns'[r] = turns[r]
  PROVE  /\ \A k \in 1 .. Len(s) : /\ s[k].history = turns'[s[k].id]
                                   /\ turn'[s[k].id] \in {"seen", "failed", "gone"}
                                   /\ Len(s) - k <= newer'[s[k].id]
         /\ \A j, k \in 1 .. Len(s) : s[j].id = s[k].id => j = k
<1>1. \A k \in 1 .. Len(s) : s[k].id \in Requests
  <2>1. \A k \in 1 .. Len(s) : s[k] \in StoredRecords
    OBVIOUS
  <2> QED
    BY <2>1, Zenon DEF StoredRecords
<1>2. Len(s) \in Nat /\ newer \in [Requests -> Nat]
  BY DEF StoreTypes
<1> QED
  BY <1>1, <1>2 DEF TrueRecords

(* A request begins, or passes without a record.                           *)
LEMMA StartKeeps ==
  ASSUME StoreIInv, NEW r \in Requests, Store!Start(r)
  PROVE  StoreIInv'
<1>1. /\ turn[r] = "new" /\ turn' = [turn EXCEPT ![r] = "running"]
      /\ turns' = [turns EXCEPT ![r] = <<r>>]
      /\ UNCHANGED <<memory, file, loaded, previous, newer, unread>>
  BY DEF Store!Start
<1>2. StoreTypes'
  BY <1>1 DEF StoreIInv, StoreTypes
<1>3. TrueRecords(memory)' /\ TrueRecords(file)'
  <2>1. /\ \A q \in Requests : newer'[q] >= newer[q]
        /\ \A q \in Requests : turn[q] \in {"seen", "failed", "gone"} =>
                                 turn'[q] = turn[q] /\ turns'[q] = turns[q]
    BY <1>1 DEF StoreIInv, StoreTypes
  <2>2. newer' \in [Requests -> Nat]
    BY <1>2 DEF StoreTypes
  <2>3. /\ StoreTypes /\ TrueRecords(memory) /\ TrueRecords(file)
        /\ memory \in Seq(StoredRecords) /\ file \in Seq(StoredRecords)
    BY DEF StoreIInv, StoreTypes
  <2>4. TrueRecords(memory)'
    <3>1. memory' = memory
      BY <1>1
    <3> QED
      BY <2>1, <2>2, <2>3, <3>1, TrueRecordsStay, Zenon DEF TrueRecords
  <2>5. TrueRecords(file)'
    <3>1. file' = file
      BY <1>1
    <3> QED
      BY <2>1, <2>2, <2>3, <3>1, TrueRecordsStay, Zenon DEF TrueRecords
  <2> QED
    BY <2>4, <2>5
<1>4. SeenIsKept'
  BY <1>1 DEF StoreIInv, StoreTypes, SeenIsKept, Store!Known
<1>5. TurnShape'
  BY <1>1, StoreAssumption DEF StoreIInv, StoreTypes, TurnShape
<1> QED
  BY <1>2, <1>3, <1>4, <1>5 DEF StoreIInv

LEMMA PassesKeeps ==
  ASSUME StoreIInv, NEW r \in Requests, Store!Passes(r)
  PROVE  StoreIInv'
<1>1. /\ turn[r] = "running" /\ turn' = [turn EXCEPT ![r] = "gone"]
      /\ UNCHANGED <<memory, file, loaded, previous, turns, newer, unread>>
  BY DEF Store!Passes
<1>2. StoreTypes'
  BY <1>1 DEF StoreIInv, StoreTypes
<1>3. TrueRecords(memory)' /\ TrueRecords(file)'
  <2>1. /\ \A q \in Requests : newer'[q] >= newer[q]
        /\ \A q \in Requests : turn[q] \in {"seen", "failed", "gone"} =>
                                 turn'[q] = turn[q] /\ turns'[q] = turns[q]
    BY <1>1 DEF StoreIInv, StoreTypes
  <2>2. newer' \in [Requests -> Nat]
    BY <1>2 DEF StoreTypes
  <2>3. /\ StoreTypes /\ TrueRecords(memory) /\ TrueRecords(file)
        /\ memory \in Seq(StoredRecords) /\ file \in Seq(StoredRecords)
    BY DEF StoreIInv, StoreTypes
  <2>4. TrueRecords(memory)'
    <3>1. memory' = memory
      BY <1>1
    <3> QED
      BY <2>1, <2>2, <2>3, <3>1, TrueRecordsStay, Zenon DEF TrueRecords
  <2>5. TrueRecords(file)'
    <3>1. file' = file
      BY <1>1
    <3> QED
      BY <2>1, <2>2, <2>3, <3>1, TrueRecordsStay, Zenon DEF TrueRecords
  <2> QED
    BY <2>4, <2>5
<1>4. SeenIsKept'
  BY <1>1 DEF StoreIInv, StoreTypes, SeenIsKept, Store!Known
<1>5. TurnShape'
  BY <1>1, StoreAssumption DEF StoreIInv, StoreTypes, TurnShape
<1> QED
  BY <1>2, <1>3, <1>4, <1>5 DEF StoreIInv

(* A restart forgets what memory has, and reads the file again.            *)
LEMMA RestartKeeps ==
  ASSUME StoreIInv, Store!Restart
  PROVE  StoreIInv'
<1>1. /\ memory' = <<>> /\ loaded' = FALSE
      /\ turn' = [r \in Requests |-> IF turn[r] = "running" THEN "gone" ELSE turn[r]]
      /\ UNCHANGED <<file, previous, turns, newer, unread>>
  BY Zenon DEF Store!Restart
<1>2. StoreTypes'
  <2>1. <<>> \in Seq(StoredRecords) /\ Len(<<>>) = 0
    OBVIOUS
  <2>2. loaded' \in BOOLEAN /\ unread' \in BOOLEAN
    BY <1>1, Zenon DEF StoreIInv, StoreTypes
  <2>3. turn' \in [Requests -> {"new", "running", "rejected", "seen", "failed", "gone"}]
    BY <1>1 DEF StoreIInv, StoreTypes
  <2> QED
    BY <1>1, <2>1, <2>2, <2>3, StoreAssumption DEF StoreIInv, StoreTypes
<1>3. TrueRecords(memory)' /\ TrueRecords(file)'
  <2>1. /\ \A q \in Requests : newer'[q] >= newer[q]
        /\ \A q \in Requests : turn[q] \in {"seen", "failed", "gone"} =>
                                 turn'[q] = turn[q] /\ turns'[q] = turns[q]
    BY <1>1 DEF StoreIInv, StoreTypes
  <2>2. TrueRecords(memory)'
    BY <1>1 DEF TrueRecords
  <2> QED
    BY <1>1, <1>2, <2>1, <2>2, TrueRecordsStay DEF StoreIInv, StoreTypes, TrueRecords
<1>4. SeenIsKept'
  BY <1>1, Zenon DEF StoreIInv, StoreTypes, SeenIsKept, Store!Known
<1>5. TurnShape'
  BY <1>1, StoreAssumption DEF StoreIInv, StoreTypes, TurnShape
<1> QED
  BY <1>2, <1>3, <1>4, <1>5 DEF StoreIInv

(* A request that continues a response.                                    *)
LEMMA ResolveKeeps ==
  ASSUME StoreIInv, NEW r \in Requests, NEW p \in Requests, Store!Resolve(r, p)
  PROVE  StoreIInv'
<1>1. PICK s \in Store!Memories :
        /\ Store!Loads(s) /\ memory' = s
        /\ IF p \in Store!Known(s)
           THEN /\ turn' = [turn EXCEPT ![r] = "running"]
                /\ turns' = [turns EXCEPT ![r] = Append(Store!Find(s, p).history, r)]
           ELSE turn' = [turn EXCEPT ![r] = "rejected"] /\ UNCHANGED turns
  BY Zenon DEF Store!Resolve
<1>2. /\ turn[r] = "new" /\ turn[p] = "seen" /\ previous' = [previous EXCEPT ![r] = p]
      /\ UNCHANGED <<file, newer>>
  BY Zenon DEF Store!Resolve
<1>3. /\ s \in Seq(StoredRecords) /\ Len(s) <= MaxStored /\ TrueRecords(s)
      /\ loaded' \in BOOLEAN /\ unread' \in BOOLEAN /\ (unread => unread')
      /\ \A q \in Requests :
           turn[q] = "seen" =>
             \/ unread' \/ newer[q] >= MaxStored
             \/ q \in Store!Known(file) /\ q \in Store!Known(s)
  BY <1>1, LoadsTrueRecords, Zenon
<1>4. PICK m \in {"running", "rejected"}, h \in Seq(Requests) :
        /\ turn' = [turn EXCEPT ![r] = m] /\ turns' = [turns EXCEPT ![r] = h]
        /\ m = "running" => h = Append(turns[p], r)
        /\ m = "rejected" => unread' \/ newer[p] >= MaxStored
  <2>1. CASE p \in Store!Known(s)
    <3>1. PICK k \in 1 .. Len(s) : s[k].id = p
      BY <1>3, <2>1 DEF Store!Known
    <3>2. \A e \in Store!ToSet(s) : e.id = p => e = s[k]
      BY <1>3, <3>1 DEF Store!ToSet, TrueRecords
    <3>3. s[k] \in Store!ToSet(s)
      BY <1>3, <3>1 DEF Store!ToSet
    <3>4. Store!Find(s, p) = s[k]
      BY <3>1, <3>2, <3>3, Zenon DEF Store!Find
    <3>5. s[k].history = turns[p] /\ turns[p] \in Seq(Requests)
      BY <1>3, <3>1 DEF TrueRecords, StoreIInv, StoreTypes
    <3>6. Append(turns[p], r) \in Seq(Requests)
      BY <3>5
    <3> QED
      BY <1>1, <2>1, <3>4, <3>5, <3>6
  <2>2. CASE p \notin Store!Known(s)
    <3>1. turns' = [turns EXCEPT ![r] = turns[r]] /\ turns[r] \in Seq(Requests)
      BY <1>1, <2>2 DEF StoreIInv, StoreTypes
    <3>2. unread' \/ newer[p] >= MaxStored
      BY <1>2, <1>3, <2>2
    <3>3. turn' = [turn EXCEPT ![r] = "rejected"]
      BY <1>1, <2>2
    <3> QED
      BY <3>1, <3>2, <3>3
  <2> QED
    BY <2>1, <2>2
<1>5. StoreTypes'
  BY <1>1, <1>2, <1>3, <1>4 DEF StoreIInv, StoreTypes
<1>6. TrueRecords(memory)' /\ TrueRecords(file)'
  <2>1. /\ \A q \in Requests : newer'[q] >= newer[q]
        /\ \A q \in Requests : turn[q] \in {"seen", "failed", "gone"} =>
                                 turn'[q] = turn[q] /\ turns'[q] = turns[q]
    BY <1>2, <1>4 DEF StoreIInv, StoreTypes
  <2>2. newer' \in [Requests -> Nat]
    BY <1>5 DEF StoreTypes
  <2>3. /\ StoreTypes /\ TrueRecords(s) /\ TrueRecords(file)
        /\ s \in Seq(StoredRecords) /\ file \in Seq(StoredRecords)
    BY <1>3 DEF StoreIInv, StoreTypes
  <2>4. memory' = s /\ file' = file
    BY <1>1, <1>2
  <2>5. TrueRecords(memory)'
    BY <2>1, <2>2, <2>3, <2>4, TrueRecordsStay, Zenon DEF TrueRecords
  <2>6. TrueRecords(file)'
    BY <2>1, <2>2, <2>3, <2>4, TrueRecordsStay, Zenon DEF TrueRecords
  <2> QED
    BY <2>5, <2>6
<1>7. SeenIsKept'
  <2>1. \A q \in Requests : turn'[q] = "seen" => turn[q] = "seen"
    BY <1>2, <1>4 DEF StoreIInv, StoreTypes
  <2>2. memory' = s /\ UNCHANGED <<file, newer>>
    BY <1>1, <1>2
  <2> QED
    BY <1>3, <2>1, <2>2, Zenon DEF SeenIsKept, Store!Known
<1>8. TurnShape'
  <2>1. \A q \in Requests : (turn[q] = "seen" => turn'[q] = "seen") /\ (q # r => turns'[q] = turns[q])
    BY <1>2, <1>4 DEF StoreIInv, StoreTypes
  <2> SUFFICES ASSUME NEW q \in Requests
               PROVE  /\ turn'[q] = "new" => previous'[q] = NONE
                      /\ previous'[q] # NONE =>
                           previous'[q] \in Requests /\ turn'[previous'[q]] = "seen"
                      /\ turn'[q] \in {"running", "seen"} =>
                           turns'[q] = (IF previous'[q] = NONE THEN <<q>>
                                        ELSE Append(turns'[previous'[q]], q))
                      /\ turn'[q] = "rejected" =>
                           previous'[q] # NONE /\ (unread' \/ newer'[previous'[q]] >= MaxStored)
    BY DEF TurnShape
  <2>2. p # r /\ p # NONE
    BY <1>2, StoreAssumption
  <2>3. CASE q = r
    BY <1>2, <1>4, <2>1, <2>2, <2>3 DEF StoreIInv, StoreTypes
  <2>4. CASE q # r
    <3>1. turn'[q] = turn[q] /\ previous'[q] = previous[q] /\ turns'[q] = turns[q] /\ newer' = newer
      BY <1>2, <1>4, <2>4 DEF StoreIInv, StoreTypes
    <3>2. /\ turn[q] = "new" => previous[q] = NONE
          /\ previous[q] # NONE => previous[q] \in Requests /\ turn[previous[q]] = "seen"
          /\ turn[q] \in {"running", "seen"} =>
               turns[q] = (IF previous[q] = NONE THEN <<q>> ELSE Append(turns[previous[q]], q))
          /\ turn[q] = "rejected" =>
               previous[q] # NONE /\ (unread \/ newer[previous[q]] >= MaxStored)
      BY DEF StoreIInv, TurnShape
    <3>3. previous[q] # r
      BY <1>2, <3>2, StoreAssumption
    <3> QED
      BY <1>3, <2>1, <3>1, <3>2, <3>3, Zenon
  <2> QED
    BY <2>3, <2>4
<1> QED
  BY <1>5, <1>6, <1>7, <1>8 DEF StoreIInv

(* A turn that is complete is recorded.                                    *)
LEMMA CompletesKeeps ==
  ASSUME StoreIInv, NEW r \in Requests, Store!Completes(r)
  PROVE  StoreIInv'
<1>1. PICK o \in {"seen", "failed", "gone"} : turn[r] = "running" /\ Store!Recorded(r, o)
  BY Zenon DEF Store!Completes
<1>2. PICK s \in Store!Memories :
        /\ Store!Loads(s)
        /\ memory' = Store!Newest(Append(Store!Without(s, r), Store!Record(r)))
        /\ file' = (IF o = "failed" THEN file ELSE memory')
        /\ turn' = [turn EXCEPT ![r] = o]
        /\ newer' = [q \in Requests |-> IF q \in Store!Known(file) \cup Store!Known(s)
                                        THEN newer[q] + 1 ELSE newer[q]]
        /\ UNCHANGED <<previous, turns>>
  BY <1>1, Zenon DEF Store!Recorded
<1>3. /\ s \in Seq(StoredRecords) /\ Len(s) <= MaxStored /\ TrueRecords(s)
      /\ loaded' \in BOOLEAN /\ unread' \in BOOLEAN /\ (unread => unread')
      /\ \A q \in Requests :
           turn[q] = "seen" =>
             \/ unread' \/ newer[q] >= MaxStored
             \/ q \in Store!Known(file) /\ q \in Store!Known(s)
  BY <1>2, LoadsTrueRecords, Zenon
<1> DEFINE t == Append(s, Store!Record(r))
<1>4. r \notin Store!Known(s)
  BY <1>1, <1>3 DEF TrueRecords, Store!Known
<1>5. Store!Without(s, r) = s
  BY <1>4, Zenon DEF Store!Without
<1>6. /\ t \in Seq(StoredRecords) /\ Len(t) = Len(s) + 1
      /\ (\A k \in 1 .. Len(s) : t[k] = s[k])
      /\ t[Len(s) + 1].id = r /\ t[Len(s) + 1].history = turns[r]
  <2>1. Store!Record(r) \in StoredRecords
    BY DEF StoreIInv, StoreTypes, Store!Record, StoredRecords
  <2>2. Store!Record(r).id = r /\ Store!Record(r).history = turns[r]
    BY DEF Store!Record
  <2> QED
    BY <1>3, <2>1, <2>2
<1> HIDE DEF t
<1>7. memory' = Store!Newest(t)
  BY <1>2, <1>5, Zenon DEF t
<1>8. PICK d \in {0, 1} : /\ Len(memory') = Len(s) + 1 - d
                          /\ \A k \in 1 .. Len(s) + 1 - d : memory'[k] = t[k + d]
                          /\ d = 1 => Len(s) = MaxStored
  <2>1. Len(t) <= MaxStored + 1
    BY <1>3, <1>6, StoreAssumption
  <2>2. PICK d \in {0, 1} : /\ Len(memory') = Len(t) - d
                            /\ \A k \in 1 .. Len(t) - d : memory'[k] = t[k + d]
                            /\ d = 1 => Len(t) = MaxStored + 1
    BY <1>6, <1>7, <2>1, NewestOf
  <2>3. d = 1 => Len(s) = MaxStored
    BY <1>3, <1>6, <2>2, StoreAssumption
  <2>4. Len(memory') = Len(s) + 1 - d
    BY <1>6, <2>2
  <2>5. \A k \in 1 .. Len(s) + 1 - d : memory'[k] = t[k + d]
    BY <1>6, <2>2
  <2> QED
    BY <2>3, <2>4, <2>5
<1>9. memory' \in Seq(StoredRecords) /\ Len(memory') <= MaxStored
  BY <1>3, <1>6, <1>7, NewestOf, StoreAssumption
<1>10. newer' \in [Requests -> Nat] /\ (\A q \in Requests : newer'[q] >= newer[q])
       /\ (\A q \in Requests : q \in Store!Known(s) => newer'[q] = newer[q] + 1)
  BY <1>2 DEF StoreIInv, StoreTypes
<1>11. StoreTypes'
  <2>1. turn' \in [Requests -> {"new", "running", "rejected", "seen", "failed", "gone"}]
    BY <1>2 DEF StoreIInv, StoreTypes
  <2>2. file' = file \/ file' = memory'
    BY <1>2
  <2>3. file' \in Seq(StoredRecords) /\ Len(file') <= MaxStored
    BY <1>9, <2>2 DEF StoreIInv, StoreTypes
  <2> QED
    BY <1>2, <1>3, <1>9, <1>10, <2>1, <2>3 DEF StoreIInv, StoreTypes
<1>12. \A q \in Requests : /\ turn[q] \in {"seen", "failed", "gone"} => turn'[q] = turn[q]
                           /\ q # r => turn'[q] = turn[q]
  BY <1>1, <1>2 DEF StoreIInv, StoreTypes
<1>13. turn'[r] = o
  BY <1>2 DEF StoreIInv, StoreTypes
<1>14. TrueRecords(memory)'
  <2>1. ASSUME NEW k \in 1 .. Len(memory')
        PROVE  /\ memory'[k].history = turns'[memory'[k].id]
               /\ turn'[memory'[k].id] \in {"seen", "failed", "gone"}
               /\ Len(memory') - k <= newer'[memory'[k].id]
    <3>1. k + d \in 1 .. Len(s) + 1 /\ memory'[k] = t[k + d]
      BY <1>3, <1>8, <2>1
    <3>2. CASE k + d = Len(s) + 1
      <4>1. memory'[k].id = r /\ memory'[k].history = turns[r]
        BY <1>6, <3>1, <3>2
      <4>2. Len(memory') - k = 0
        BY <1>3, <1>8, <2>1, <3>2
      <4> QED
        BY <1>2, <1>10, <1>13, <4>1, <4>2
    <3>3. CASE k + d \in 1 .. Len(s)
      <4>1. memory'[k] = s[k + d] /\ s[k + d].id \in Requests /\ s[k + d].id \in Store!Known(s)
        <5>1. s[k + d] \in StoredRecords
          BY <1>3, <3>3
        <5>2. DOMAIN s = 1 .. Len(s)
          BY <1>3
        <5> QED
          BY <1>6, <3>1, <3>3, <5>1, <5>2 DEF StoredRecords, Store!Known
      <4>2. /\ s[k + d].history = turns[s[k + d].id]
            /\ turn[s[k + d].id] \in {"seen", "failed", "gone"}
            /\ Len(s) - (k + d) <= newer[s[k + d].id]
        BY <1>3, <3>3 DEF TrueRecords
      <4>3. newer'[s[k + d].id] = newer[s[k + d].id] + 1 /\ newer[s[k + d].id] \in Nat
        BY <1>10, <4>1 DEF StoreIInv, StoreTypes
      <4>4. Len(memory') - k <= newer'[memory'[k].id]
        BY <1>3, <1>8, <2>1, <4>1, <4>2, <4>3
      <4> QED
        BY <1>2, <1>12, <4>1, <4>2, <4>4
    <3> QED
      BY <1>3, <3>1, <3>2, <3>3
  <2>2. ASSUME NEW j \in 1 .. Len(memory'), NEW k \in 1 .. Len(memory'), memory'[j].id = memory'[k].id
        PROVE  j = k
    <3>1. /\ j + d \in 1 .. Len(s) + 1 /\ memory'[j] = t[j + d]
          /\ k + d \in 1 .. Len(s) + 1 /\ memory'[k] = t[k + d]
      BY <1>3, <1>8, <2>2
    <3>2. \A i \in 1 .. Len(s) : t[i].id # r
      BY <1>1, <1>3, <1>6 DEF TrueRecords
    <3>3. \A i, l \in 1 .. Len(s) : t[i].id = t[l].id => i = l
      BY <1>3, <1>6 DEF TrueRecords
    <3>4. \A i \in 1 .. Len(s) + 1 : i \in 1 .. Len(s) \/ i = Len(s) + 1
      BY <1>3
    <3>5. j + d = k + d
      BY <1>6, <2>2, <3>1, <3>2, <3>3, <3>4
    <3> QED
      BY <1>3, <1>8, <3>5
  <2> QED
    BY <2>1, <2>2 DEF TrueRecords
<1>15. TrueRecords(file)'
  <2>1. CASE o = "failed"
    <3>1. file' = file
      BY <1>2, <2>1
    <3>2. StoreTypes /\ TrueRecords(file) /\ file \in Seq(StoredRecords)
      BY DEF StoreIInv, StoreTypes
    <3>3. \A q \in Requests : turn[q] \in {"seen", "failed", "gone"} =>
                                turn'[q] = turn[q] /\ turns'[q] = turns[q]
      BY <1>2, <1>12
    <3>4. newer' \in [Requests -> Nat] /\ (\A q \in Requests : newer'[q] >= newer[q])
      BY <1>10
    <3> QED
      BY <3>1, <3>2, <3>3, <3>4, TrueRecordsStay, Zenon DEF TrueRecords
  <2>2. CASE o # "failed"
    BY <1>2, <1>14, <2>2, Zenon DEF TrueRecords
  <2> QED
    BY <2>1, <2>2
<1>16. SeenIsKept'
  <2>1. file' = file \/ file' = memory'
    BY <1>2
  <2>2. DOMAIN s = 1 .. Len(s) /\ DOMAIN memory' = 1 .. Len(memory')
    BY <1>3, <1>9
  <2> SUFFICES ASSUME NEW q \in Requests, turn'[q] = "seen"
               PROVE  \/ unread' \/ newer'[q] >= MaxStored
                      \/ q \in Store!Known(file)' /\ q \in Store!Known(memory)'
    BY Zenon DEF SeenIsKept
  <2>3. CASE q = r
    <3>1. Len(memory') \in 1 .. Len(memory') /\ memory'[Len(memory')] = t[Len(s) + 1]
      BY <1>3, <1>8, StoreAssumption
    <3>2. r \in Store!Known(memory)'
      BY <1>6, <2>2, <3>1 DEF Store!Known
    <3>3. file' = memory'
      BY <1>2, <1>13, <2>3
    <3> QED
      BY <2>3, <3>2, <3>3, Zenon DEF Store!Known
  <2>4. CASE q # r
    <3>1. turn[q] = "seen"
      BY <1>12, <2>4
    <3>2. CASE unread'
      BY <3>2
    <3>3. CASE newer[q] >= MaxStored
      BY <1>10, <3>3, StoreAssumption DEF StoreIInv, StoreTypes
    <3>4. CASE q \in Store!Known(file) /\ q \in Store!Known(s)
      <4>1. PICK j \in 1 .. Len(s) : s[j].id = q
        BY <2>2, <3>4 DEF Store!Known
      <4>2. CASE d = 1 /\ j = 1
        <5>1. Len(s) - 1 <= newer[q] /\ newer'[q] = newer[q] + 1 /\ newer[q] \in Nat
          BY <1>3, <1>10, <3>4, <4>1, <4>2 DEF TrueRecords, StoreIInv, StoreTypes
        <5> QED
          BY <1>8, <4>2, <5>1, StoreAssumption
      <4>3. CASE ~(d = 1 /\ j = 1)
        <5>1. j - d \in 1 .. Len(memory') /\ memory'[j - d] = t[j]
          BY <1>3, <1>8, <4>1, <4>3
        <5>2. t[j].id = q
          BY <1>6, <4>1
        <5>3. q \in Store!Known(memory)'
          BY <2>2, <5>1, <5>2 DEF Store!Known
        <5>4. q \in Store!Known(file)'
          BY <2>1, <3>4, <5>3, Zenon DEF Store!Known
        <5> QED
          BY <5>3, <5>4
      <4> QED
        BY <4>2, <4>3
    <3> QED
      BY <1>3, <3>1, <3>2, <3>3, <3>4
  <2> QED
    BY <2>3, <2>4
<1>17. TurnShape'
  <2> SUFFICES ASSUME NEW q \in Requests
               PROVE  /\ turn'[q] = "new" => previous[q] = NONE
                      /\ previous[q] # NONE => previous[q] \in Requests /\ turn'[previous[q]] = "seen"
                      /\ turn'[q] \in {"running", "seen"} =>
                           turns[q] = (IF previous[q] = NONE THEN <<q>>
                                       ELSE Append(turns[previous[q]], q))
                      /\ turn'[q] = "rejected" =>
                           previous[q] # NONE /\ (unread' \/ newer'[previous[q]] >= MaxStored)
    BY <1>2 DEF TurnShape
  <2>1. /\ turn[q] = "new" => previous[q] = NONE
        /\ previous[q] # NONE => previous[q] \in Requests /\ turn[previous[q]] = "seen"
        /\ turn[q] \in {"running", "seen"} =>
             turns[q] = (IF previous[q] = NONE THEN <<q>> ELSE Append(turns[previous[q]], q))
        /\ turn[q] = "rejected" =>
             previous[q] # NONE /\ (unread \/ newer[previous[q]] >= MaxStored)
    BY DEF StoreIInv, TurnShape
  <2>2. previous[q] # NONE => previous[q] \in Requests /\ turn'[previous[q]] = "seen"
    BY <1>12, <2>1
  <2>3. \A p \in Requests : newer[p] >= MaxStored => newer'[p] >= MaxStored
    BY <1>10, StoreAssumption DEF StoreIInv, StoreTypes
  <2>4. turn'[q] = turn[q] \/ (turn[q] = "running" /\ turn'[q] \in {"seen", "failed", "gone"})
    BY <1>1, <1>12, <1>13
  <2>5. turn'[q] = "rejected" => turn[q] = "rejected"
    BY <2>4
  <2>6. turn'[q] = "new" => turn[q] = "new"
    BY <2>4
  <2>7. turn'[q] \in {"running", "seen"} => turn[q] \in {"running", "seen"}
    BY <2>4
  <2> QED
    BY <1>3, <2>1, <2>2, <2>3, <2>5, <2>6, <2>7, Zenon
<1> QED
  BY <1>11, <1>14, <1>15, <1>16, <1>17 DEF StoreIInv

LEMMA StoreStepKeeps ==
  ASSUME StoreIInv, [Store!StoreNext]_storeVars
  PROVE  StoreIInv'
<1>1. CASE Store!StoreNext
  BY <1>1, StartKeeps, CompletesKeeps, PassesKeeps, ResolveKeeps, RestartKeeps, Zenon
     DEF Store!StoreNext
<1>2. CASE UNCHANGED storeVars
  <2>1. UNCHANGED <<memory, file, loaded, turn, previous, turns, newer, unread>>
    BY <1>2, Zenon DEF storeVars
  <2> QED
    <3>1. StoreTypes'
      BY <2>1, Zenon DEF StoreIInv, StoreTypes
    <3>2. TrueRecords(memory)' /\ TrueRecords(file)'
      BY <2>1, Zenon DEF StoreIInv, TrueRecords
    <3>3. SeenIsKept'
      BY <2>1, Zenon DEF StoreIInv, SeenIsKept, Store!Known
    <3>4. TurnShape'
      BY <2>1, Zenon DEF StoreIInv, TurnShape
    <3> QED
      BY <3>1, <3>2, <3>3, <3>4 DEF StoreIInv
<1> QED
  BY <1>1, <1>2

-----------------------------------------------------------------------------
(* The endpoint.  What a reader has seen after some events is followed     *)
(* through all that it has seen on the way.                                *)

EventTypes == {"message_start", "content_block_start", "content_block_delta", "content_block_stop",
               "message_delta", "message_stop", "ping"}

Events  == [type : EventTypes, at : Nat, of : Nat]
Clients == [starts : Nat, open : SUBSET Nat, seen : SUBSET Nat, of : SUBSET Nat, stops : Nat,
            legal : BOOLEAN]

Steps(f, s) == \A n \in 1 .. Len(s) : f[n] = Endpoint!Receive(f[n - 1], s[n])

LEMMA SmallestNumber == \A T \in SUBSET Nat : T # {} => \E x \in T : \A y \in T : x <= y
<1> SUFFICES ASSUME NEW T \in SUBSET Nat, T # {} PROVE \E x \in T : \A y \in T : x <= y
  OBVIOUS
<1>1. IsWellFoundedOn(OpToRel(<, Nat), Nat)
  BY NatLessThanWellFounded
<1>2. PICK x \in T : \A y \in T : ~ (<<y, x>> \in OpToRel(<, Nat))
  BY <1>1, WFMin
<1>3. \A y \in T : <<y, x>> \in Nat \X Nat
  OBVIOUS
<1>4. \A y \in T : ~ (y < x)
  BY <1>2, <1>3 DEF OpToRel
<1> QED
  BY <1>4

LEMMA ReceiveIsTyped ==
  ASSUME NEW c \in Clients, NEW e \in Events
  PROVE  Endpoint!Receive(c, e) \in Clients
<1>1. Endpoint!Legal(c, e) \in BOOLEAN
  BY DEF Endpoint!Legal
<1> QED
  BY <1>1 DEF Endpoint!Receive, Clients, Events

(* A reader comes one way only.                                            *)
LEMMA OneWay ==
  ASSUME NEW s \in Seq(Events), NEW f, NEW g, Steps(f, s), Steps(g, s), f[0] = g[0]
  PROVE  \A n \in 0 .. Len(s) : f[n] = g[n]
<1> DEFINE Apart == {n \in 0 .. Len(s) : f[n] # g[n]}
<1> SUFFICES ASSUME Apart # {} PROVE FALSE
  OBVIOUS
<1>1. Apart \in SUBSET Nat /\ Len(s) \in Nat
  OBVIOUS
<1>2. PICK x \in Apart : \A y \in Apart : x <= y
  BY <1>1, SmallestNumber
<1>3. x \in 1 .. Len(s) /\ x - 1 \in 0 .. Len(s) /\ x - 1 \notin Apart
  BY <1>1, <1>2
<1>4. f[x - 1] = g[x - 1]
  BY <1>3
<1>5. f[x] = g[x]
  BY <1>3, <1>4 DEF Steps
<1> QED
  BY <1>2, <1>5

LEMMA WayExists ==
  ASSUME NEW s \in Seq(Events), NEW c \in Clients
  PROVE  \E f \in [0 .. Len(s) -> Clients] : f[0] = c /\ Steps(f, s)
<1> DEFINE Way(k) == \E f \in [0 .. Len(s) -> Clients] :
                       f[0] = c /\ \A n \in 1 .. k : f[n] = Endpoint!Receive(f[n - 1], s[n])
           Missing == {k \in 0 .. Len(s) : ~Way(k)}
<1>1. Missing \in SUBSET Nat /\ Len(s) \in Nat
  OBVIOUS
<1>2. Way(0)
  <2>1. [n \in 0 .. Len(s) |-> c] \in [0 .. Len(s) -> Clients] /\ [n \in 0 .. Len(s) |-> c][0] = c
    BY <1>1
  <2> QED
    BY <2>1
<1>3. ASSUME NEW k \in 1 .. Len(s), Way(k - 1) PROVE Way(k)
  <2>1. PICK f \in [0 .. Len(s) -> Clients] :
          f[0] = c /\ \A n \in 1 .. k - 1 : f[n] = Endpoint!Receive(f[n - 1], s[n])
    BY <1>3
  <2>2. f[k - 1] \in Clients /\ s[k] \in Events
    BY <1>1
  <2> DEFINE r == Endpoint!Receive(f[k - 1], s[k])
             g == [f EXCEPT ![k] = r]
  <2>3. r \in Clients
    BY <2>2, ReceiveIsTyped
  <2> HIDE DEF r
  <2>4. g \in [0 .. Len(s) -> Clients] /\ g[k] = r /\ \A n \in 0 .. Len(s) : n # k => g[n] = f[n]
    BY <1>1, <2>3
  <2>5. g[k] = Endpoint!Receive(g[k - 1], s[k])
    BY <1>1, <2>4 DEF r
  <2>6. ASSUME NEW n \in 1 .. k, n # k PROVE g[n] = Endpoint!Receive(g[n - 1], s[n])
    <3>1. n \in 1 .. k - 1 /\ n \in 0 .. Len(s) /\ n - 1 \in 0 .. Len(s) /\ n - 1 # k
      BY <1>1, <2>6
    <3>2. g[n] = f[n] /\ g[n - 1] = f[n - 1]
      BY <2>4, <2>6, <3>1
    <3> QED
      BY <2>1, <3>1, <3>2
  <2>7. g[0] = c
    BY <1>1, <2>1, <2>4
  <2> HIDE DEF g
  <2> QED
    BY <2>4, <2>5, <2>6, <2>7
<1>4. Missing = {}
  <2> SUFFICES ASSUME Missing # {} PROVE FALSE
    OBVIOUS
  <2>1. PICK x \in Missing : \A y \in Missing : x <= y
    BY <1>1, SmallestNumber
  <2> HIDE DEF Way
  <2>2. x \in 1 .. Len(s) /\ x - 1 \in 0 .. Len(s) /\ x - 1 \notin Missing
    BY <1>1, <1>2, <2>1
  <2> QED
    BY <1>3, <2>1, <2>2
<1>5. Way(Len(s))
  <2> HIDE DEF Way
  <2> QED
    BY <1>1, <1>4
<1> QED
  BY <1>5 DEF Steps

(* Follow goes this way.                                                   *)
LEMMA FollowGoes ==
  ASSUME NEW s \in Seq(Events), NEW f, Steps(f, s), f[0] \in Clients
  PROVE  Endpoint!Follow(f[0], s) = f[Len(s)]
<1> DEFINE Body(h) == [n \in 0 .. Len(s) |-> IF n = 0 THEN f[0] ELSE Endpoint!Receive(h[n - 1], s[n])]
           after == CHOOSE h : h = Body(h)
<1>1. Len(s) \in Nat
  OBVIOUS
<1>2. PICK g \in [0 .. Len(s) -> Clients] : g[0] = f[0] /\ Steps(g, s)
  BY WayExists
<1>3. g = Body(g)
  <2>1. \A n \in 0 .. Len(s) : g[n] = Body(g)[n]
    BY <1>1, <1>2 DEF Steps
  <2> QED
    BY <1>1, <2>1
<1>4. after = Body(after)
  BY <1>3
<1> HIDE DEF after
<1>5. after[0] = f[0] /\ Steps(after, s)
  <2>1. \A n \in 0 .. Len(s) :
          after[n] = IF n = 0 THEN f[0] ELSE Endpoint!Receive(after[n - 1], s[n])
    BY <1>4, Zenon
  <2> QED
    BY <1>1, <2>1 DEF Steps
<1>6. after[Len(s)] = f[Len(s)]
  BY <1>1, <1>5, OneWay
<1>7. Endpoint!Follow(f[0], s) = after[Len(s)]
  BY Zenon DEF Endpoint!Follow, after
<1> QED
  BY <1>6, <1>7

LEMMA FollowOne ==
  ASSUME NEW c \in Clients, NEW e \in Events
  PROVE  Endpoint!Follow(c, <<e>>) = Endpoint!Receive(c, e)
<1>1. <<e>> \in Seq(Events) /\ Len(<<e>>) = 1 /\ <<e>>[1] = e
  OBVIOUS
<1>2. PICK f \in [0 .. Len(<<e>>) -> Clients] : f[0] = c /\ Steps(f, <<e>>)
  BY <1>1, WayExists
<1>3. f[1] = Endpoint!Receive(c, e)
  BY <1>1, <1>2 DEF Steps
<1>4. Endpoint!Follow(f[0], <<e>>) = f[Len(<<e>>)]
  BY <1>1, <1>2, FollowGoes
<1> QED
  BY <1>1, <1>2, <1>3, <1>4

LEMMA FollowTwo ==
  ASSUME NEW c \in Clients, NEW a \in Events, NEW b \in Events
  PROVE  Endpoint!Follow(c, <<a, b>>) = Endpoint!Receive(Endpoint!Receive(c, a), b)
<1>1. /\ <<a, b>> \in Seq(Events) /\ Len(<<a, b>>) = 2
      /\ <<a, b>>[1] = a /\ <<a, b>>[2] = b
  OBVIOUS
<1>2. PICK f \in [0 .. Len(<<a, b>>) -> Clients] : f[0] = c /\ Steps(f, <<a, b>>)
  BY <1>1, WayExists
<1>3. f[1] = Endpoint!Receive(c, a) /\ f[2] = Endpoint!Receive(f[1], b)
  BY <1>1, <1>2 DEF Steps
<1>4. Endpoint!Follow(f[0], <<a, b>>) = f[Len(<<a, b>>)]
  BY <1>1, <1>2, FollowGoes
<1> QED
  BY <1>1, <1>2, <1>3, <1>4

(* The events lead a reader from c to d, and all that it sees on the way   *)
(* is legal and of one answer.                                             *)
Sound(c) == c.legal /\ c.starts <= 1 /\ (c.of \subseteq {1} \/ c.of \subseteq {2})

Leads(c, s, d) ==
  \E f \in [0 .. Len(s) -> Clients] :
    /\ f[0] = c /\ f[Len(s)] = d /\ Steps(f, s)
    /\ \A n \in 0 .. Len(s) : Sound(f[n])

LEMMA NothingLeads ==
  ASSUME NEW c \in Clients, Sound(c)
  PROVE  Leads(c, <<>>, c)
<1> DEFINE f == [n \in 0 .. 0 |-> c]
<1>1. Len(<<>>) = 0 /\ f \in [0 .. 0 -> Clients] /\ f[0] = c /\ \A n \in 0 .. 0 : f[n] = c
  OBVIOUS
<1>2. Steps(f, <<>>)
  BY <1>1 DEF Steps
<1> HIDE DEF f
<1> QED
  BY <1>1, <1>2 DEF Leads

LEMMA NothingIsLeft ==
  ASSUME NEW c, NEW d, Leads(c, <<>>, d)
  PROVE  c = d
BY DEF Leads

LEMMA LeadsIsSound ==
  ASSUME NEW c, NEW d, NEW s \in Seq(Events), Leads(c, s, d)
  PROVE  c \in Clients /\ d \in Clients /\ Sound(c) /\ Sound(d)
<1>1. Len(s) \in Nat
  OBVIOUS
<1> QED
  BY <1>1 DEF Leads

LEMMA LeadsIsFollow ==
  ASSUME NEW c, NEW d, NEW s \in Seq(Events), Leads(c, s, d)
  PROVE  Endpoint!Follow(c, s) = d
<1>1. PICK f \in [0 .. Len(s) -> Clients] : f[0] = c /\ f[Len(s)] = d /\ Steps(f, s)
  BY DEF Leads
<1>2. Len(s) \in Nat
  OBVIOUS
<1> QED
  BY <1>1, <1>2, FollowGoes

(* What follows is added at the end ...                                    *)
LEMMA LeadsOn ==
  ASSUME NEW c, NEW d, NEW s \in Seq(Events), Leads(c, s, d), NEW e \in Events,
         Sound(Endpoint!Receive(d, e))
  PROVE  Leads(c, Append(s, e), Endpoint!Receive(d, e))
<1>1. PICK f \in [0 .. Len(s) -> Clients] :
        f[0] = c /\ f[Len(s)] = d /\ Steps(f, s) /\ \A n \in 0 .. Len(s) : Sound(f[n])
  BY DEF Leads
<1> DEFINE r == Endpoint!Receive(d, e)
           g == [n \in 0 .. Len(s) + 1 |-> IF n = Len(s) + 1 THEN r ELSE f[n]]
<1>2. Len(s) \in Nat /\ Len(Append(s, e)) = Len(s) + 1 /\ r \in Clients
  <2>1. Len(s) \in Nat /\ Len(Append(s, e)) = Len(s) + 1 /\ d \in Clients
    BY <1>1
  <2> QED
    BY <2>1, ReceiveIsTyped
<1> HIDE DEF r
<1>3. /\ g \in [0 .. Len(s) + 1 -> Clients] /\ g[Len(s) + 1] = r
      /\ \A n \in 0 .. Len(s) : g[n] = f[n]
  BY <1>2
<1> HIDE DEF g
<1>4. ASSUME NEW n \in 1 .. Len(s) + 1 PROVE g[n] = Endpoint!Receive(g[n - 1], Append(s, e)[n])
  <2>1. CASE n \in 1 .. Len(s)
    <3>1. n - 1 \in 0 .. Len(s) /\ n \in 0 .. Len(s) /\ Append(s, e)[n] = s[n]
      BY <1>2, <2>1
    <3> QED
      BY <1>1, <1>3, <2>1, <3>1 DEF Steps
  <2>2. CASE n = Len(s) + 1
    <3>1. Append(s, e)[n] = e /\ n - 1 = Len(s) /\ g[n] = r
      BY <1>2, <1>3, <2>2
    <3>2. g[n - 1] = d
      BY <1>1, <1>2, <1>3, <3>1
    <3> QED
      BY <3>1, <3>2 DEF r
  <2> QED
    BY <1>2, <2>1, <2>2
<1>5. \A n \in 0 .. Len(s) + 1 : Sound(g[n])
  <2>1. Sound(r)
    BY DEF r
  <2> QED
    BY <1>1, <1>2, <1>3, <2>1
<1>6. g[0] = c
  BY <1>1, <1>2, <1>3
<1>7. Leads(c, Append(s, e), r)
  BY <1>2, <1>3, <1>4, <1>5, <1>6 DEF Leads, Steps
<1> QED
  BY <1>7 DEF r

(* ... and read from the front.                                            *)
LEMMA LeadsFrom ==
  ASSUME NEW c, NEW d, NEW s \in Seq(Events), Leads(c, s, d), s # <<>>
  PROVE  /\ Head(s) \in Events /\ Tail(s) \in Seq(Events)
         /\ Leads(Endpoint!Receive(c, Head(s)), Tail(s), d)
<1>1. PICK f \in [0 .. Len(s) -> Clients] :
        f[0] = c /\ f[Len(s)] = d /\ Steps(f, s) /\ \A n \in 0 .. Len(s) : Sound(f[n])
  BY DEF Leads
<1>2. /\ Len(s) \in Nat \ {0} /\ Head(s) = s[1] /\ Head(s) \in Events /\ Tail(s) \in Seq(Events)
      /\ Len(Tail(s)) = Len(s) - 1 /\ \A n \in 1 .. Len(s) - 1 : Tail(s)[n] = s[n + 1]
  OBVIOUS
<1> DEFINE g == [n \in 0 .. Len(s) - 1 |-> f[n + 1]]
<1>3. /\ g \in [0 .. Len(s) - 1 -> Clients]
      /\ \A n \in 0 .. Len(s) - 1 : g[n] = f[n + 1] /\ Sound(g[n])
  BY <1>1, <1>2
<1> HIDE DEF g
<1>4. g[0] = Endpoint!Receive(c, Head(s)) /\ g[Len(s) - 1] = d
  BY <1>1, <1>2, <1>3 DEF Steps
<1>5. ASSUME NEW n \in 1 .. Len(s) - 1 PROVE g[n] = Endpoint!Receive(g[n - 1], Tail(s)[n])
  <2>1. /\ n + 1 \in 1 .. Len(s) /\ n - 1 \in 0 .. Len(s) - 1 /\ n \in 0 .. Len(s) - 1
        /\ (n - 1) + 1 = n /\ (n + 1) - 1 = n
    BY <1>2
  <2>2. g[n] = f[n + 1] /\ g[n - 1] = f[n] /\ Tail(s)[n] = s[n + 1]
    BY <1>2, <1>3, <2>1
  <2>3. f[n + 1] = Endpoint!Receive(f[n], s[n + 1])
    BY <1>1, <2>1 DEF Steps
  <2> QED
    BY <2>2, <2>3
<1> QED
  BY <1>2, <1>3, <1>4, <1>5 DEF Leads, Steps

(* One event, and one after another.                                       *)
LEMMA OneLeads ==
  ASSUME NEW c \in Clients, Sound(c), NEW e \in Events, Sound(Endpoint!Receive(c, e))
  PROVE  Leads(c, <<e>>, Endpoint!Receive(c, e))
<1>1. Leads(c, <<>>, c) /\ <<>> \in Seq(Events)
  BY NothingLeads
<1>2. Leads(c, Append(<<>>, e), Endpoint!Receive(c, e))
  BY <1>1, LeadsOn
<1>3. Append(<<>>, e) = <<e>>
  OBVIOUS
<1> QED
  BY <1>2, <1>3

LEMMA TwoLead ==
  ASSUME NEW c, NEW d, NEW s \in Seq(Events), Leads(c, s, d), NEW a \in Events, NEW b \in Events,
         Sound(Endpoint!Receive(d, a)), Sound(Endpoint!Receive(Endpoint!Receive(d, a), b))
  PROVE  /\ s \o <<a, b>> \in Seq(Events)
         /\ Leads(c, s \o <<a, b>>, Endpoint!Receive(Endpoint!Receive(d, a), b))
<1>1. Leads(c, Append(s, a), Endpoint!Receive(d, a))
  BY LeadsOn
<1>2. Append(s, a) \in Seq(Events) /\ Append(Append(s, a), b) = s \o <<a, b>>
  OBVIOUS
<1>3. Leads(c, Append(Append(s, a), b), Endpoint!Receive(Endpoint!Receive(d, a), b))
  BY <1>1, <1>2, LeadsOn
<1> QED
  BY <1>2, <1>3

LEMMA ThreeLead ==
  ASSUME NEW c, NEW d, NEW s \in Seq(Events), Leads(c, s, d), NEW a \in Events, NEW b \in Events,
         NEW e \in Events,
         Sound(Endpoint!Receive(d, a)), Sound(Endpoint!Receive(Endpoint!Receive(d, a), b)),
         Sound(Endpoint!Receive(Endpoint!Receive(Endpoint!Receive(d, a), b), e))
  PROVE  /\ s \o <<a, b, e>> \in Seq(Events)
         /\ Leads(c, s \o <<a, b, e>>,
                  Endpoint!Receive(Endpoint!Receive(Endpoint!Receive(d, a), b), e))
<1>1. /\ s \o <<a, b>> \in Seq(Events)
      /\ Leads(c, s \o <<a, b>>, Endpoint!Receive(Endpoint!Receive(d, a), b))
  BY TwoLead
<1>2. Append(s \o <<a, b>>, e) = s \o <<a, b, e>> /\ s \o <<a, b, e>> \in Seq(Events)
  OBVIOUS
<1>3. Leads(c, Append(s \o <<a, b>>, e),
            Endpoint!Receive(Endpoint!Receive(Endpoint!Receive(d, a), b), e))
  BY <1>1, LeadsOn
<1>4. Leads(c, s \o <<a, b, e>>,
            Endpoint!Receive(Endpoint!Receive(Endpoint!Receive(d, a), b), e))
  BY <1>2, <1>3
<1> QED
  BY <1>2, <1>4

(* What each event changes.                                                *)
LEMMA SameClient ==
  ASSUME NEW c \in Clients, NEW d \in Clients, c.starts = d.starts, c.open = d.open, c.seen = d.seen,
         c.of = d.of, c.stops = d.stops, c.legal <=> d.legal
  PROVE  c = d
BY DEF Clients

LEMMA Received ==
  ASSUME NEW c \in Clients, NEW e \in Events
  PROVE  LET r == Endpoint!Receive(c, e) IN
         /\ r.starts = c.starts + (IF e.type = "message_start" THEN 1 ELSE 0)
         /\ e.type = "content_block_start" => r.open = c.open \cup {e.at} /\ r.seen = c.seen \cup {e.at}
         /\ e.type = "content_block_stop" => r.open = c.open \ {e.at}
         /\ e.type \notin {"content_block_start", "content_block_stop"} => r.open = c.open
         /\ e.type # "content_block_start" => r.seen = c.seen
         /\ r.of = IF e.type = "content_block_delta" THEN c.of \cup {e.of} ELSE c.of
         /\ r.stops = c.stops + (IF e.type = "message_stop" THEN 1 ELSE 0)
         /\ r.legal <=> c.legal /\ Endpoint!Legal(c, e)
<1> DEFINE r == Endpoint!Receive(c, e)
<1>1. r.starts = c.starts + (IF e.type = "message_start" THEN 1 ELSE 0)
  BY Zenon DEF Endpoint!Receive
<1>2. e.type = "content_block_start" => r.open = c.open \cup {e.at} /\ r.seen = c.seen \cup {e.at}
  BY DEF Endpoint!Receive
<1>3. e.type = "content_block_stop" => r.open = c.open \ {e.at}
  BY DEF Endpoint!Receive
<1>4. e.type \notin {"content_block_start", "content_block_stop"} => r.open = c.open
  BY DEF Endpoint!Receive
<1>5. e.type # "content_block_start" => r.seen = c.seen
  <2>1. r.seen = c.seen \cup (IF e.type = "content_block_start" THEN {e.at} ELSE {})
    BY Zenon DEF Endpoint!Receive
  <2> QED
    BY <2>1
<1>6. r.of = IF e.type = "content_block_delta" THEN c.of \cup {e.of} ELSE c.of
  <2>1. r.of = c.of \cup (IF e.type = "content_block_delta" THEN {e.of} ELSE {})
    BY Zenon DEF Endpoint!Receive
  <2> QED
    BY <2>1
<1>7. r.stops = c.stops + (IF e.type = "message_stop" THEN 1 ELSE 0)
  BY Zenon DEF Endpoint!Receive
<1>8. r.legal <=> c.legal /\ Endpoint!Legal(c, e)
  BY Zenon DEF Endpoint!Receive
<1> QED
  BY <1>1, <1>2, <1>3, <1>4, <1>5, <1>6, <1>7, <1>8, Zenon

(* A legal event leaves a legal reader with what it changes.               *)
Changed(c, e, d) ==
  /\ d.starts = c.starts + (IF e.type = "message_start" THEN 1 ELSE 0)
  /\ d.open = IF e.type = "content_block_start" THEN c.open \cup {e.at}
              ELSE IF e.type = "content_block_stop" THEN c.open \ {e.at} ELSE c.open
  /\ d.seen = IF e.type = "content_block_start" THEN c.seen \cup {e.at} ELSE c.seen
  /\ d.of = IF e.type = "content_block_delta" THEN c.of \cup {e.of} ELSE c.of
  /\ d.stops = c.stops + (IF e.type = "message_stop" THEN 1 ELSE 0)

LEMMA ReceivedIs ==
  ASSUME NEW c \in Clients, NEW e \in Events, NEW d \in Clients, c.legal, d.legal,
         Endpoint!Legal(c, e), Changed(c, e, d)
  PROVE  Endpoint!Receive(c, e) = d
<1> USE DEF Changed
<1> DEFINE r == Endpoint!Receive(c, e)
<1>1. r.starts = d.starts /\ r.stops = d.stops /\ (r.legal <=> d.legal)
  BY Received, Zenon
<1>2. r.open = d.open
  <2>1. CASE e.type = "content_block_start"
    BY <2>1, Received, Zenon
  <2>2. CASE e.type = "content_block_stop"
    <3>1. d.open = c.open \ {e.at}
      BY <2>2
    <3> QED
      BY <2>2, <3>1, Received, Zenon
  <2>3. CASE e.type \notin {"content_block_start", "content_block_stop"}
    <3>1. d.open = c.open
      BY <2>3
    <3> QED
      BY <2>3, <3>1, Received, Zenon
  <2> QED
    BY <2>1, <2>2, <2>3
<1>3. r.seen = d.seen
  <2>1. CASE e.type = "content_block_start"
    BY <2>1, Received, Zenon
  <2>2. CASE e.type # "content_block_start"
    BY <2>2, Received, Zenon
  <2> QED
    BY <2>1, <2>2
<1>4. r.of = d.of
  BY Received, Zenon
<1>5. r \in Clients
  BY ReceiveIsTyped
<1> HIDE DEF r
<1>6. r = d
  BY <1>1, <1>2, <1>3, <1>4, <1>5, SameClient, Zenon
<1> QED
  BY <1>6 DEF r

(* The answers that are made here, and what a reader has seen after them:  *)
(* a started message of which no block is open.                            *)
After(blocks, of, stops) ==
  [starts |-> 1, open |-> {}, seen |-> blocks, of |-> of, stops |-> stops, legal |-> TRUE]

LEMMA AfterIsClient ==
  ASSUME NEW S \in SUBSET Nat, NEW O \in SUBSET {2}, NEW n \in Nat
  PROVE  After(S, O, n) \in Clients /\ Sound(After(S, O, n))
<1>1. After(S, O, n) \in Clients
  BY DEF After, Clients
<1> QED
  BY <1>1 DEF After, Sound

(* ... and of which one block is.                                          *)
Within(blocks, of, b) ==
  [starts |-> 1, open |-> {b}, seen |-> blocks, of |-> of, stops |-> 0, legal |-> TRUE]

LEMMA WithinIsClient ==
  ASSUME NEW S \in SUBSET Nat, NEW O \in SUBSET {2}, NEW b \in Nat
  PROVE  Within(S, O, b) \in Clients /\ Sound(Within(S, O, b))
<1>1. Within(S, O, b) \in Clients
  BY DEF Within, Clients
<1> QED
  BY <1>1 DEF Within, Sound

LEMMA NewIsClient == Endpoint!NewClient \in Clients /\ Sound(Endpoint!NewClient)
BY DEF Endpoint!NewClient, Clients, Sound

LEMMA AnEvent ==
  ASSUME NEW b \in Nat, NEW l \in Nat
  PROVE  /\ Endpoint!Start(l) \in Events /\ Endpoint!Open(b, l) \in Events
         /\ Endpoint!Delta(b, l) \in Events /\ Endpoint!Close(b, l) \in Events
         /\ Endpoint!Ping \in Events
         /\ Endpoint!Ending(l) = <<Endpoint!Ending(l)[1], Endpoint!Ending(l)[2]>>
         /\ Endpoint!Ending(l)[1] = [type |-> "message_delta", at |-> 0, of |-> l]
         /\ Endpoint!Ending(l)[2] = [type |-> "message_stop", at |-> 0, of |-> l]
         /\ Endpoint!Ending(l)[1] \in Events /\ Endpoint!Ending(l)[2] \in Events
BY DEF Endpoint!Start, Endpoint!Open, Endpoint!Delta, Endpoint!Close, Endpoint!Ping,
       Endpoint!Ending, Events, EventTypes

LEMMA StartIsSeen ==
  /\ <<Endpoint!Start(2)>> \in Seq(Events)
  /\ Leads(Endpoint!NewClient, <<Endpoint!Start(2)>>, After({}, {}, 0))
<1>1. Endpoint!Start(2) \in Events
  BY AnEvent
<1>2. After({}, {}, 0) \in Clients /\ Sound(After({}, {}, 0))
  BY AfterIsClient
<1>3. Endpoint!Legal(Endpoint!NewClient, Endpoint!Start(2))
  BY DEF Endpoint!Legal, Endpoint!Start, Endpoint!NewClient
<1>4. Endpoint!Receive(Endpoint!NewClient, Endpoint!Start(2)) = After({}, {}, 0)
  <2> DEFINE c == Endpoint!NewClient
             e == Endpoint!Start(2)
             d == After({}, {}, 0)
  <2>1. /\ c.starts = 0 /\ c.open = {} /\ c.seen = {} /\ c.of = {} /\ c.stops = 0
        /\ d.starts = 1 /\ d.open = {} /\ d.seen = {} /\ d.of = {} /\ d.stops = 0
        /\ e.type = "message_start"
    BY DEF Endpoint!NewClient, After, Endpoint!Start
  <2>2. c.legal /\ d.legal
    BY DEF Endpoint!NewClient, After
  <2>3. c \in Clients /\ d \in Clients /\ e \in Events /\ Endpoint!Legal(c, e)
    BY <1>1, <1>2, <1>3, NewIsClient, Zenon
  <2> HIDE DEF c, d, e
  <2>4. Changed(c, e, d)
    BY <2>1 DEF Changed
  <2>5. Endpoint!Receive(c, e) = d
    BY <2>2, <2>3, <2>4, ReceivedIs, Zenon
  <2> QED
    BY <2>5 DEF c, d, e
<1> QED
  BY <1>1, <1>2, <1>4, NewIsClient, OneLeads

LEMMA OpenIsSeen ==
  ASSUME NEW S \in SUBSET Nat, NEW O \in SUBSET {2}, NEW b \in Nat, b \notin S
  PROVE  Endpoint!Receive(After(S, O, 0), Endpoint!Open(b, 2))
           = Within(S \cup {b}, O, b)
<1> DEFINE c == After(S, O, 0)
           e == Endpoint!Open(b, 2)
           d == Within(S \cup {b}, O, b)
<1>1. /\ c \in Clients /\ e \in Events /\ Within(S \cup {b}, O, b) \in Clients
      /\ e.type = "content_block_start" /\ e.at = b
  BY AfterIsClient, WithinIsClient, AnEvent DEF Endpoint!Open
<1>2. c.starts = 1 /\ c.open = {} /\ c.seen = S /\ c.of = O /\ c.stops = 0 /\ c.legal
  BY DEF After
<1>3. d.starts = 1 /\ d.open = {b} /\ d.seen = S \cup {b} /\ d.of = O /\ d.stops = 0
  BY DEF Within
<1>4. d.legal /\ Endpoint!Legal(c, e)
  BY <1>1, <1>2 DEF Endpoint!Legal, Within
<1>5. d \in Clients
  BY <1>1
<1> HIDE DEF c, d, e
<1>6. Changed(c, e, d)
  BY <1>1, <1>2, <1>3 DEF Changed
<1>7. Endpoint!Receive(c, e) = d
  BY <1>1, <1>2, <1>4, <1>5, <1>6, ReceivedIs, Zenon
<1> QED
  BY <1>7 DEF c, d, e

LEMMA CloseIsSeen ==
  ASSUME NEW S \in SUBSET Nat, NEW O \in SUBSET {2}, NEW b \in Nat
  PROVE  Endpoint!Receive(Within(S, O, b), Endpoint!Close(b, 2)) = After(S, O, 0)
<1> DEFINE c == Within(S, O, b)
           e == Endpoint!Close(b, 2)
           d == After(S, O, 0)
<1>1. /\ c \in Clients /\ e \in Events /\ After(S, O, 0) \in Clients
      /\ e.type = "content_block_stop" /\ e.at = b
  BY AfterIsClient, WithinIsClient, AnEvent DEF Endpoint!Close
<1>2. c.starts = 1 /\ c.open = {b} /\ c.seen = S /\ c.of = O /\ c.stops = 0 /\ c.legal
  BY DEF Within
<1>3. d.starts = 1 /\ d.open = {} /\ d.seen = S /\ d.of = O /\ d.stops = 0
  BY DEF After
<1>4. d.legal /\ Endpoint!Legal(c, e)
  BY <1>1, <1>2 DEF Endpoint!Legal, After
<1>5. d \in Clients
  BY <1>1
<1> HIDE DEF c, d, e
<1>6. Changed(c, e, d)
  BY <1>1, <1>2, <1>3 DEF Changed
<1>7. Endpoint!Receive(c, e) = d
  BY <1>1, <1>2, <1>4, <1>5, <1>6, ReceivedIs, Zenon
<1> QED
  BY <1>7 DEF c, d, e

LEMMA DeltaIsSeen ==
  ASSUME NEW S \in SUBSET Nat, NEW O \in SUBSET {2}, NEW b \in Nat
  PROVE  Endpoint!Receive(Within(S, O, b), Endpoint!Delta(b, 2)) = Within(S, {2}, b)
<1> DEFINE c == Within(S, O, b)
           e == Endpoint!Delta(b, 2)
           d == Within(S, {2}, b)
<1>1. /\ c \in Clients /\ e \in Events /\ Within(S, {2}, b) \in Clients
      /\ e.type = "content_block_delta" /\ e.at = b /\ e.of = 2 /\ O \cup {2} = {2}
  BY WithinIsClient, AnEvent DEF Endpoint!Delta
<1>2. c.starts = 1 /\ c.open = {b} /\ c.seen = S /\ c.of = O /\ c.stops = 0 /\ c.legal
  BY DEF Within
<1>3. d.starts = 1 /\ d.open = {b} /\ d.seen = S /\ d.of = {2} /\ d.stops = 0
  BY DEF Within
<1>4. d.legal /\ Endpoint!Legal(c, e)
  BY <1>1, <1>2 DEF Endpoint!Legal, Within
<1>5. d \in Clients
  BY <1>1
<1> HIDE DEF c, d, e
<1>6. Changed(c, e, d)
  BY <1>1, <1>2, <1>3 DEF Changed
<1>7. Endpoint!Receive(c, e) = d
  BY <1>1, <1>2, <1>4, <1>5, <1>6, ReceivedIs, Zenon
<1> QED
  BY <1>7 DEF c, d, e

LEMMA BareIsSeen ==
  ASSUME NEW c, NEW s \in Seq(Events), NEW S \in SUBSET Nat, NEW O \in SUBSET {2},
         NEW b \in Nat, b \notin S, Leads(c, s, After(S, O, 0))
  PROVE  /\ s \o Endpoint!Bare(b) \in Seq(Events)
         /\ Leads(c, s \o Endpoint!Bare(b), After(S \cup {b}, O, 0))
<1> DEFINE d == Within(S \cup {b}, O, b)
<1>1. Endpoint!Receive(After(S, O, 0), Endpoint!Open(b, 2)) = d
  BY OpenIsSeen
<1>2. Endpoint!Receive(d, Endpoint!Close(b, 2)) = After(S \cup {b}, O, 0)
  BY CloseIsSeen
<1>3. Sound(d)
  BY WithinIsClient
<1>4. Sound(After(S \cup {b}, O, 0))
  BY AfterIsClient
<1> HIDE DEF d
<1>5. Endpoint!Open(b, 2) \in Events /\ Endpoint!Close(b, 2) \in Events
  BY AnEvent
<1> QED
  BY <1>1, <1>2, <1>3, <1>4, <1>5, TwoLead DEF Endpoint!Bare

LEMMA WholeIsSeen ==
  ASSUME NEW c, NEW s \in Seq(Events), NEW S \in SUBSET Nat, NEW O \in SUBSET {2},
         NEW b \in Nat, b \notin S, Leads(c, s, After(S, O, 0))
  PROVE  /\ s \o Endpoint!Whole(b) \in Seq(Events)
         /\ Leads(c, s \o Endpoint!Whole(b), After(S \cup {b}, {2}, 0))
<1> DEFINE d == Within(S \cup {b}, O, b)
           e == Within(S \cup {b}, {2}, b)
<1>1. Endpoint!Receive(After(S, O, 0), Endpoint!Open(b, 2)) = d
  BY OpenIsSeen
<1>2. Endpoint!Receive(d, Endpoint!Delta(b, 2)) = e
  BY DeltaIsSeen
<1>3. Endpoint!Receive(e, Endpoint!Close(b, 2)) = After(S \cup {b}, {2}, 0)
  BY CloseIsSeen
<1>4. Sound(d) /\ Sound(e)
  BY WithinIsClient
<1>5. Sound(After(S \cup {b}, {2}, 0))
  BY AfterIsClient
<1> HIDE DEF d, e
<1>6. Endpoint!Open(b, 2) \in Events /\ Endpoint!Delta(b, 2) \in Events
      /\ Endpoint!Close(b, 2) \in Events
  BY AnEvent
<1> QED
  BY <1>1, <1>2, <1>3, <1>4, <1>5, <1>6, ThreeLead DEF Endpoint!Whole

LEMMA EndingIsSeen ==
  ASSUME NEW c, NEW s \in Seq(Events), NEW S \in SUBSET Nat, S # {}, NEW O \in SUBSET {2},
         Leads(c, s, After(S, O, 0))
  PROVE  /\ s \o Endpoint!Ending(2) \in Seq(Events)
         /\ Leads(c, s \o Endpoint!Ending(2), After(S, O, 1))
<1> DEFINE a == Endpoint!Ending(2)[1]
           b == Endpoint!Ending(2)[2]
<1>1. Endpoint!Ending(2) = <<a, b>> /\ a \in Events /\ b \in Events
      /\ a = [type |-> "message_delta", at |-> 0, of |-> 2]
      /\ b = [type |-> "message_stop", at |-> 0, of |-> 2]
  BY AnEvent
<1> HIDE DEF a, b
<1> DEFINE d == After(S, O, 0)
<1>2. d \in Clients /\ Sound(d) /\ After(S, O, 1) \in Clients /\ Sound(After(S, O, 1))
  BY AfterIsClient
<1>3. d.starts = 1 /\ d.open = {} /\ d.seen = S /\ d.of = O /\ d.stops = 0 /\ d.legal
  BY DEF After
<1>4. Endpoint!Receive(d, a) = d
  <2>1. Endpoint!Legal(d, a)
    BY <1>1, <1>3 DEF Endpoint!Legal
  <2> HIDE DEF d
  <2>2. Changed(d, a, d)
    BY <1>1, <1>3 DEF Changed
  <2> QED
    BY <1>1, <1>2, <1>3, <2>1, <2>2, ReceivedIs, Zenon
<1>5. Endpoint!Receive(d, b) = After(S, O, 1)
  <2> DEFINE e == After(S, O, 1)
  <2>1. Endpoint!Legal(d, b)
    BY <1>1, <1>3 DEF Endpoint!Legal
  <2>2. e.starts = 1 /\ e.open = {} /\ e.seen = S /\ e.of = O /\ e.stops = 1
    BY DEF After
  <2>3. e.legal /\ e \in Clients
    BY <1>2 DEF After
  <2> HIDE DEF d, e
  <2>4. Changed(d, b, e)
    BY <1>1, <1>3, <2>2 DEF Changed
  <2>5. Endpoint!Receive(d, b) = e
    BY <1>1, <1>2, <1>3, <2>1, <2>3, <2>4, ReceivedIs, Zenon
  <2> QED
    BY <2>5 DEF e
<1> HIDE DEF d
<1>6. /\ s \o <<a, b>> \in Seq(Events)
      /\ Leads(c, s \o <<a, b>>, Endpoint!Receive(Endpoint!Receive(d, a), b))
  BY <1>1, <1>2, <1>4, <1>5, TwoLead DEF d
<1> QED
  BY <1>1, <1>4, <1>5, <1>6

(* A tool is announced, its result ends the message; a local answer is one.*)
Announced == After({1}, {}, 0)

LEMMA AnnouncedIsSeen ==
  /\ Endpoint!Announce \in Seq(Events)
  /\ Leads(Endpoint!NewClient, Endpoint!Announce, Announced)
<1>1. {} \cup {1} = {1} /\ {} \in SUBSET Nat /\ {} \in SUBSET {2} /\ 1 \in Nat /\ 1 \notin {}
  OBVIOUS
<1>2. Leads(Endpoint!NewClient, <<Endpoint!Start(2)>> \o Endpoint!Bare(1), After({} \cup {1}, {}, 0))
      /\ <<Endpoint!Start(2)>> \o Endpoint!Bare(1) \in Seq(Events)
  BY <1>1, StartIsSeen, BareIsSeen
<1> QED
  BY <1>1, <1>2 DEF Announced, Endpoint!Announce

LEMMA ToolResultIsSeen ==
  /\ Endpoint!ToolResult \in Seq(Events)
  /\ Leads(Announced, Endpoint!ToolResult, After({1, 2, 3}, {2}, 1))
<1>1. /\ {1} \cup {2} = {1, 2} /\ {1, 2} \cup {3} = {1, 2, 3}
      /\ {1} \in SUBSET Nat /\ {1, 2} \in SUBSET Nat /\ {1, 2, 3} \in SUBSET Nat
      /\ 2 \notin {1} /\ 3 \notin {1, 2} /\ {1, 2, 3} # {}
      /\ {} \in SUBSET {2} /\ {2} \in SUBSET {2} /\ 2 \in Nat /\ 3 \in Nat
  OBVIOUS
<1>2. Announced \in Clients /\ Sound(Announced)
  BY <1>1, AfterIsClient DEF Announced
<1>3. Leads(Announced, <<>>, After({1}, {}, 0)) /\ <<>> \in Seq(Events)
  BY <1>2, NothingLeads DEF Announced
<1>4. /\ <<>> \o Endpoint!Bare(2) \in Seq(Events)
      /\ Leads(Announced, <<>> \o Endpoint!Bare(2), After({1} \cup {2}, {}, 0))
  BY <1>1, <1>3, BareIsSeen
<1>5. <<>> \o Endpoint!Bare(2) = Endpoint!Bare(2)
  BY DEF Endpoint!Bare
<1>6. /\ Endpoint!Bare(2) \o Endpoint!Whole(3) \in Seq(Events)
      /\ Leads(Announced, Endpoint!Bare(2) \o Endpoint!Whole(3), After({1, 2} \cup {3}, {2}, 0))
  BY <1>1, <1>4, <1>5, WholeIsSeen
<1>7. /\ (Endpoint!Bare(2) \o Endpoint!Whole(3)) \o Endpoint!Ending(2) \in Seq(Events)
      /\ Leads(Announced, (Endpoint!Bare(2) \o Endpoint!Whole(3)) \o Endpoint!Ending(2),
               After({1, 2, 3}, {2}, 1))
  BY <1>1, <1>6, EndingIsSeen
<1> QED
  BY <1>7 DEF Endpoint!ToolResult

LEMMA MockedIsSeen ==
  /\ Endpoint!Mocked \in Seq(Events)
  /\ Leads(Endpoint!NewClient, Endpoint!Mocked, After({1}, {2}, 1))
<1>1. {} \cup {1} = {1} /\ {} \in SUBSET Nat /\ {1} \in SUBSET Nat /\ {} \in SUBSET {2}
      /\ {2} \in SUBSET {2} /\ 1 \in Nat /\ 1 \notin {} /\ {1} # {}
  OBVIOUS
<1>2. /\ <<Endpoint!Start(2)>> \o Endpoint!Whole(1) \in Seq(Events)
      /\ Leads(Endpoint!NewClient, <<Endpoint!Start(2)>> \o Endpoint!Whole(1),
               After({} \cup {1}, {2}, 0))
  BY <1>1, StartIsSeen, WholeIsSeen
<1>3. /\ (<<Endpoint!Start(2)>> \o Endpoint!Whole(1)) \o Endpoint!Ending(2) \in Seq(Events)
      /\ Leads(Endpoint!NewClient, (<<Endpoint!Start(2)>> \o Endpoint!Whole(1)) \o Endpoint!Ending(2),
               After({1}, {2}, 1))
  BY <1>1, <1>2, EndingIsSeen
<1> QED
  BY <1>3 DEF Endpoint!Mocked

-----------------------------------------------------------------------------
(* The invariant of the endpoint: what the reader of the body has seen,    *)
(* with what is still to be written to it, is one message that has its end *)
(* before the request is done.                                             *)

(* What a provider has sent is a legal beginning of one message.           *)
SourceShape ==
  /\ source \in Clients /\ source.legal /\ source.starts <= 1 /\ source.of \subseteq {1}
  /\ IsFiniteSet(source.seen)

BodyShape ==
  /\ view \in Clients /\ Sound(view)
  /\ pending \in Seq(Events) /\ buffer \in Seq(Events)
  /\ awaits \in {"routing", "deciding"} => view = Endpoint!NewClient /\ reply = "none"
  /\ awaits = "routing" => source = Endpoint!NewClient
  /\ awaits = "deciding" => Leads(Endpoint!NewClient, buffer, source)
  /\ awaits = "reading" => view = source
  /\ awaits \in {"search", "fetch"} => Leads(view, pending, Announced)
  /\ awaits = "writing" => \E d \in Clients : Leads(view, pending, d) /\ d.stops = 1
  /\ awaits \notin {"search", "fetch", "writing"} => pending = <<>>
  /\ awaits # "deciding" => buffer = <<>>

ReplyShape ==
  /\ reply = "events" => streaming
  /\ reply = "json" => ~streaming /\ awaits = "done"
  /\ awaits # "done" => reply \in {"none", "events"} /\ ~frame
  /\ awaits # "done" /\ streaming /\ view # Endpoint!NewClient => reply = "events"
  /\ awaits = "done" => reply # "none"
  /\ awaits = "done" /\ reply \in {"events", "json"} => frame \/ view.stops = 1
  /\ frame => view.of \subseteq {1}
  /\ forwarded \cap Endpoint!ServerTools = {}
  /\ feed = "open" => awaits \in {"reading", "deciding"}
  /\ connector => awaits = "fetch"

EndpointIInv == Endpoint!EndpointTypeOK /\ SourceShape /\ BodyShape /\ ReplyShape

LEMMA EndpointAnswers ==
  ASSUME EndpointIInv
  PROVE  Endpoint!EachRequestIsAnswered
<1>1. view.legal /\ view.starts <= 1
  BY DEF EndpointIInv, BodyShape, Sound
<1>2. Cardinality(view.of) <= 1
  <2>1. PICK l \in {1, 2} : view.of \subseteq {l}
    BY DEF EndpointIInv, BodyShape, Sound
  <2>2. IsFiniteSet({l}) /\ Cardinality({l}) = 1
    BY FS_Singleton
  <2> QED
    BY <2>1, <2>2, FS_Subset
<1>3. frame => awaits = "done"
  BY Zenon DEF EndpointIInv, ReplyShape
<1>4. Endpoint!Cardinality(view.of) = Cardinality(view.of)
  BY Zenon DEF Cardinality, Endpoint!Cardinality
<1>5. Endpoint!Cardinality(view.of) <= 1
  BY <1>2, <1>4
<1>6. frame => buffer = <<>>
  BY <1>3 DEF EndpointIInv, BodyShape
<1>7. awaits = "deciding" => view = Endpoint!NewClient
  BY DEF EndpointIInv, BodyShape
<1> QED
  BY <1>1, <1>6, <1>7, <1>5, Zenon DEF EndpointIInv, ReplyShape, Endpoint!EachRequestIsAnswered

LEMMA EndpointInitially ==
  ASSUME Endpoint!Init
  PROVE  EndpointIInv
<1>1. Endpoint!EndpointTypeOK
  <2>1. {streaming, frame, connector} \subseteq BOOLEAN
    BY Zenon DEF Endpoint!Init
  <2>2. /\ awaits = "routing" /\ feed = "none" /\ reply = "none" /\ hops \in 0 .. MaxRedirects
        /\ forwarded = {}
    BY RedirectsAssumption DEF Endpoint!Init
  <2> QED
    BY <2>1, <2>2 DEF Endpoint!EndpointTypeOK
<1>2. SourceShape
  <2>1. source = Endpoint!NewClient
    BY DEF Endpoint!Init
  <2>2. source.seen = {} /\ IsFiniteSet({})
    BY <2>1, FS_EmptySet DEF Endpoint!NewClient
  <2> QED
    BY <2>1, <2>2, NewIsClient DEF SourceShape, Endpoint!NewClient
<1>3. BodyShape
  BY NewIsClient DEF Endpoint!Init, BodyShape
<1>4. ReplyShape
  BY DEF Endpoint!Init, ReplyShape
<1> QED
  BY <1>1, <1>2, <1>3, <1>4 DEF EndpointIInv

(* What the provider may send next is legal and goes on with its message.  *)
LEMMA SendableIsLegal ==
  ASSUME EndpointIInv, NEW c \in Endpoint!Sendable
  PROVE  \/ /\ \E e \in Events :
               /\ c.event = <<e>> /\ Endpoint!Legal(source, e) /\ e.type # "message_stop"
               /\ e.of \in {0, 1} /\ (e.type = "content_block_delta" => e.of = 1)
               /\ e.type = "message_start" <=> source.starts = 0
         \/ /\ c.event = Endpoint!Ending(1) /\ source.starts # 0
            /\ Endpoint!Legal(source, Endpoint!Ending(1)[2])
<1> DEFINE n == Endpoint!NextBlock
<1>1. source.starts \in Nat /\ source.open \subseteq Nat /\ IsFiniteSet(source.seen)
  BY DEF EndpointIInv, SourceShape, Clients
<1>2. n \in Nat
  <2>1. Cardinality(source.seen) \in Nat
    BY <1>1, FS_CardinalityType
  <2>2. Endpoint!Cardinality(source.seen) = Cardinality(source.seen)
    BY Zenon DEF Cardinality, Endpoint!Cardinality
  <2> QED
    BY <2>1, <2>2 DEF Endpoint!NextBlock
<1>3. /\ Endpoint!Legal(source, c.event[Len(c.event)])
      /\ (c.event[1].type = "message_start") = ~(source.starts > 0)
      /\ \/ c.event = <<Endpoint!Start(1)>> \/ c.event = <<Endpoint!Ping>>
         \/ c.event = <<Endpoint!Open(n, 1)>>
         \/ \E b \in source.open : c.event = <<Endpoint!Delta(b, 1)>>
         \/ \E b \in source.open : c.event = <<Endpoint!Close(b, 1)>>
         \/ c.event = Endpoint!Ending(1)
  BY DEF Endpoint!Sendable
<1> HIDE DEF n
<1>4. ASSUME NEW e \in Events, c.event = <<e>>, e.type # "message_stop", e.of \in {0, 1},
             e.type = "content_block_delta" => e.of = 1
      PROVE  /\ c.event = <<e>> /\ Endpoint!Legal(source, e) /\ e.type # "message_stop"
             /\ e.of \in {0, 1} /\ (e.type = "content_block_delta" => e.of = 1)
             /\ e.type = "message_start" <=> source.starts = 0
  <2>1. c.event[Len(c.event)] = e /\ c.event[1] = e
    BY <1>4
  <2> QED
    BY <1>1, <1>3, <1>4, <2>1
<1>5. CASE c.event = <<Endpoint!Start(1)>>
  <2>1. Endpoint!Start(1) \in Events
    BY AnEvent
  <2> QED
    BY <1>4, <1>5, <2>1 DEF Endpoint!Start
<1>6. CASE c.event = <<Endpoint!Ping>>
  <2>1. Endpoint!Ping \in Events
    BY AnEvent
  <2> QED
    BY <1>4, <1>6, <2>1 DEF Endpoint!Ping
<1>7. CASE c.event = <<Endpoint!Open(n, 1)>>
  <2>1. Endpoint!Open(n, 1) \in Events
    BY <1>2, AnEvent
  <2> QED
    BY <1>4, <1>7, <2>1 DEF Endpoint!Open
<1>8. ASSUME NEW b \in source.open, c.event = <<Endpoint!Delta(b, 1)>>
      PROVE  \E e \in Events :
               /\ c.event = <<e>> /\ Endpoint!Legal(source, e) /\ e.type # "message_stop"
               /\ e.of \in {0, 1} /\ (e.type = "content_block_delta" => e.of = 1)
               /\ e.type = "message_start" <=> source.starts = 0
  <2>1. Endpoint!Delta(b, 1) \in Events
    BY <1>1, AnEvent
  <2> QED
    BY <1>4, <1>8, <2>1 DEF Endpoint!Delta
<1>9. ASSUME NEW b \in source.open, c.event = <<Endpoint!Close(b, 1)>>
      PROVE  \E e \in Events :
               /\ c.event = <<e>> /\ Endpoint!Legal(source, e) /\ e.type # "message_stop"
               /\ e.of \in {0, 1} /\ (e.type = "content_block_delta" => e.of = 1)
               /\ e.type = "message_start" <=> source.starts = 0
  <2>1. Endpoint!Close(b, 1) \in Events
    BY <1>1, AnEvent
  <2> QED
    BY <1>4, <1>9, <2>1 DEF Endpoint!Close
<1>10. CASE c.event = Endpoint!Ending(1)
  <2>1. c.event[Len(c.event)] = Endpoint!Ending(1)[2] /\ c.event[1].type # "message_start"
    BY <1>10 DEF Endpoint!Ending
  <2> QED
    BY <1>1, <1>3, <1>10, <2>1
<1> QED
  BY <1>3, <1>5, <1>6, <1>7, <1>8, <1>9, <1>10

(* What one event adds to the reader of a message of the provider.         *)
LEMMA SourceReads ==
  ASSUME NEW c \in Clients, c.legal, c.starts <= 1, c.of \subseteq {1}, IsFiniteSet(c.seen),
         NEW e \in Events, Endpoint!Legal(c, e), e.type = "content_block_delta" => e.of = 1,
         e.type = "message_start" => c.starts = 0,
         NEW d, d = Endpoint!Receive(c, e)
  PROVE  /\ d \in Clients /\ d.legal /\ d.starts <= 1 /\ d.of \subseteq {1} /\ IsFiniteSet(d.seen)
         /\ Sound(d) /\ d.starts = c.starts + (IF e.type = "message_start" THEN 1 ELSE 0)
<1>1. d \in Clients
  BY ReceiveIsTyped
<1>2. d.legal
  BY Received, Zenon
<1>3. d.starts = c.starts + (IF e.type = "message_start" THEN 1 ELSE 0)
  BY Received, Zenon
<1>4. d.starts <= 1
  BY <1>3 DEF Clients
<1>5. d.of \subseteq {1}
  <2>1. d.of = IF e.type = "content_block_delta" THEN c.of \cup {e.of} ELSE c.of
    BY Received, Zenon
  <2> QED
    BY <2>1
<1>6. IsFiniteSet(d.seen)
  <2>1. CASE e.type = "content_block_start"
    <3>1. d.seen = c.seen \cup {e.at}
      BY <2>1, Received, Zenon
    <3> QED
      BY <3>1, FS_AddElement
  <2>2. CASE e.type # "content_block_start"
    <3>1. d.seen = c.seen
      BY <2>2, Received, Zenon
    <3> QED
      BY <3>1
  <2> QED
    BY <2>1, <2>2
<1> QED
  BY <1>1, <1>2, <1>3, <1>4, <1>5, <1>6 DEF Sound

(* A chunk leads on from what the provider has sent.                       *)
LEMMA ProviderSends ==
  ASSUME EndpointIInv, NEW c \in Endpoint!Sendable, Endpoint!Sends(c)
  PROVE  /\ SourceShape' /\ Sound(source') /\ source' # Endpoint!NewClient
         /\ c.event \in Seq(Events)
         /\ \A s \in Seq(Events) :
              Leads(Endpoint!NewClient, s, source) =>
                /\ s \o c.event \in Seq(Events)
                /\ Leads(Endpoint!NewClient, s \o c.event, source')
<1>1. /\ source \in Clients /\ source.legal /\ source.starts <= 1 /\ source.of \subseteq {1}
      /\ IsFiniteSet(source.seen)
  BY DEF EndpointIInv, SourceShape
<1>2. source' = Endpoint!Follow(source, c.event)
  BY DEF Endpoint!Sends
<1>3. ASSUME source'.starts # 0 PROVE source' # Endpoint!NewClient
  BY <1>3 DEF Endpoint!NewClient
<1>4. ASSUME NEW e \in Events, c.event = <<e>>, Endpoint!Legal(source, e),
             e.type = "content_block_delta" => e.of = 1,
             e.type = "message_start" <=> source.starts = 0
      PROVE  /\ SourceShape' /\ Sound(source') /\ source' # Endpoint!NewClient
             /\ c.event \in Seq(Events)
             /\ \A s \in Seq(Events) :
                  Leads(Endpoint!NewClient, s, source) =>
                    /\ s \o c.event \in Seq(Events)
                    /\ Leads(Endpoint!NewClient, s \o c.event, source')
  <2>1. source' = Endpoint!Receive(source, e)
    BY <1>1, <1>2, <1>4, FollowOne
  <2>2. /\ source' \in Clients /\ source'.legal /\ source'.starts <= 1 /\ source'.of \subseteq {1}
        /\ IsFiniteSet(source'.seen) /\ Sound(source')
        /\ source'.starts = source.starts + (IF e.type = "message_start" THEN 1 ELSE 0)
    BY <1>1, <1>4, <2>1, SourceReads, Zenon
  <2>3. source'.starts # 0
    BY <1>1, <1>4, <2>2 DEF Clients
  <2>4. ASSUME NEW s \in Seq(Events), Leads(Endpoint!NewClient, s, source)
        PROVE  /\ s \o c.event \in Seq(Events)
               /\ Leads(Endpoint!NewClient, s \o c.event, source')
    <3>1. Leads(Endpoint!NewClient, Append(s, e), source')
      BY <2>1, <2>2, <2>4, LeadsOn, Zenon
    <3>2. Append(s, e) = s \o c.event /\ s \o c.event \in Seq(Events)
      BY <1>4
    <3> QED
      BY <3>1, <3>2
  <2>5. c.event \in Seq(Events)
    BY <1>4
  <2> QED
    BY <1>3, <2>2, <2>3, <2>4, <2>5 DEF SourceShape
<1>5. ASSUME c.event = Endpoint!Ending(1), source.starts # 0,
             Endpoint!Legal(source, Endpoint!Ending(1)[2])
      PROVE  /\ SourceShape' /\ Sound(source') /\ source' # Endpoint!NewClient
             /\ c.event \in Seq(Events)
             /\ \A s \in Seq(Events) :
                  Leads(Endpoint!NewClient, s, source) =>
                    /\ s \o c.event \in Seq(Events)
                    /\ Leads(Endpoint!NewClient, s \o c.event, source')
  <2> DEFINE a == Endpoint!Ending(1)[1]
             b == Endpoint!Ending(1)[2]
             d == Endpoint!Receive(source, a)
  <2>1. /\ c.event = <<a, b>> /\ a \in Events /\ b \in Events
        /\ a = [type |-> "message_delta", at |-> 0, of |-> 1]
        /\ b = [type |-> "message_stop", at |-> 0, of |-> 1]
    BY <1>5, AnEvent
  <2>2. Endpoint!Legal(source, b)
    BY <1>5
  <2> HIDE DEF a, b
  <2>3. source.starts \in Nat /\ source.starts > 0
    BY <1>1, <1>5 DEF Clients
  <2>4. Endpoint!Legal(source, a)
    BY <2>1, <2>2, <2>3 DEF Endpoint!Legal
  <2>5. a.type # "content_block_delta" /\ a.type # "message_start"
    BY <2>1
  <2>6. /\ d \in Clients /\ d.legal /\ d.starts <= 1 /\ d.of \subseteq {1} /\ IsFiniteSet(d.seen)
        /\ Sound(d) /\ d.starts = source.starts + (IF a.type = "message_start" THEN 1 ELSE 0)
    BY <1>1, <2>1, <2>4, <2>5, SourceReads, Zenon
  <2>7. d.starts = source.starts
    BY <2>3, <2>5, <2>6
  <2>8. Endpoint!Legal(d, b)
    <3>1. a.type # "content_block_start" /\ a.type \notin {"content_block_start", "content_block_stop"}
      BY <2>1
    <3>2. d.open = source.open /\ d.seen = source.seen
      BY <1>1, <2>1, <3>1, Received, Zenon
    <3>3. d.stops = source.stops + (IF a.type = "message_stop" THEN 1 ELSE 0)
      BY <1>1, <2>1, Received, Zenon
    <3>4. d.stops = source.stops
      BY <1>1, <2>1, <3>3 DEF Clients
    <3> HIDE DEF d
    <3> QED
      BY <2>1, <2>2, <2>7, <3>2, <3>4 DEF Endpoint!Legal
  <2>9. source' = Endpoint!Receive(d, b)
    BY <1>1, <1>2, <2>1, FollowTwo
  <2>10. b.type # "content_block_delta" /\ b.type # "message_start"
    BY <2>1
  <2> HIDE DEF d
  <2>11. /\ source' \in Clients /\ source'.legal /\ source'.starts <= 1 /\ source'.of \subseteq {1}
         /\ IsFiniteSet(source'.seen) /\ Sound(source')
         /\ source'.starts = d.starts + (IF b.type = "message_start" THEN 1 ELSE 0)
    BY <2>1, <2>6, <2>8, <2>9, <2>10, SourceReads, Zenon
  <2>12. source'.starts # 0
    BY <2>3, <2>7, <2>10, <2>11
  <2>13. ASSUME NEW s \in Seq(Events), Leads(Endpoint!NewClient, s, source)
         PROVE  /\ s \o c.event \in Seq(Events)
                /\ Leads(Endpoint!NewClient, s \o c.event, source')
    <3>1. /\ s \o <<a, b>> \in Seq(Events)
          /\ Leads(Endpoint!NewClient, s \o <<a, b>>, source')
      BY <2>1, <2>6, <2>9, <2>11, <2>13, TwoLead, Zenon DEF d
    <3> QED
      BY <2>1, <3>1, Zenon
  <2>14. c.event \in Seq(Events)
    BY <2>1
  <2> QED
    BY <1>3, <2>11, <2>12, <2>13, <2>14 DEF SourceShape
<1> QED
  BY <1>4, <1>5, SendableIsLegal

(* The request goes its way.                                               *)
LEMMA RefusalKeeps ==
  ASSUME EndpointIInv, Endpoint!Refuse
  PROVE  EndpointIInv'
<1>1. /\ awaits = "routing" /\ awaits' = "done" /\ reply' = "error"
      /\ UNCHANGED <<streaming, forwarded, feed, source, calls, buffer, pending, view, frame, hops,
                     connector>>
  BY DEF Endpoint!Refuse
<1>2. Endpoint!EndpointTypeOK'
  BY <1>1, Zenon DEF EndpointIInv, Endpoint!EndpointTypeOK
<1>3. SourceShape'
  BY <1>1 DEF EndpointIInv, SourceShape
<1>4. BodyShape'
  BY <1>1 DEF EndpointIInv, BodyShape
<1>5. ReplyShape'
  <2>1. ~frame /\ feed # "open" /\ ~connector /\ forwarded \cap Endpoint!ServerTools = {}
    BY <1>1, Zenon DEF EndpointIInv, ReplyShape
  <2> QED
    BY <1>1, <2>1, Zenon DEF ReplyShape
<1> QED
  BY <1>2, <1>3, <1>4, <1>5 DEF EndpointIInv

LEMMA LocalAnswerKeeps ==
  ASSUME EndpointIInv, Endpoint!AnswerLocally
  PROVE  EndpointIInv'
<1>1. /\ awaits = "routing"
      /\ UNCHANGED <<streaming, forwarded, feed, source, calls, buffer, frame, hops, connector>>
  BY DEF Endpoint!AnswerLocally
<1>2. /\ view = Endpoint!NewClient /\ pending = <<>> /\ buffer = <<>> /\ reply = "none"
  BY <1>1 DEF EndpointIInv, BodyShape
<1>3. ~frame /\ feed # "open" /\ ~connector /\ forwarded \cap Endpoint!ServerTools = {}
  BY <1>1, Zenon DEF EndpointIInv, ReplyShape
<1>4. SourceShape'
  BY <1>1 DEF EndpointIInv, SourceShape
<1>5. CASE streaming
  <2>1. awaits' = "writing" /\ pending' = Endpoint!Mocked /\ UNCHANGED <<view, reply>>
    BY <1>5 DEF Endpoint!AnswerLocally
  <2>2. Endpoint!EndpointTypeOK'
    BY <1>1, <2>1, Zenon DEF EndpointIInv, Endpoint!EndpointTypeOK
  <2>3. BodyShape'
    <3>1. /\ pending' \in Seq(Events) /\ Leads(view', pending', After({1}, {2}, 1))
          /\ After({1}, {2}, 1) \in Clients
      BY <1>2, <2>1, MockedIsSeen, AfterIsClient
    <3>2. After({1}, {2}, 1).stops = 1
      BY DEF After
    <3> QED
      BY <1>1, <1>2, <2>1, <3>1, <3>2 DEF EndpointIInv, BodyShape
  <2>4. ReplyShape'
    BY <1>1, <1>2, <1>3, <2>1, Zenon DEF ReplyShape
  <2> QED
    BY <1>4, <2>2, <2>3, <2>4 DEF EndpointIInv
<1>6. CASE ~streaming
  <2>1. /\ awaits' = "done" /\ reply' = "json" /\ UNCHANGED pending
        /\ view' = Endpoint!Follow(view, Endpoint!Mocked)
    BY <1>6 DEF Endpoint!AnswerLocally
  <2>2. Endpoint!EndpointTypeOK'
    BY <1>1, <2>1, Zenon DEF EndpointIInv, Endpoint!EndpointTypeOK
  <2>3. view' = After({1}, {2}, 1)
    BY <1>2, <2>1, MockedIsSeen, LeadsIsFollow
  <2>4. view' \in Clients /\ Sound(view')
    BY <2>3, AfterIsClient
  <2>5. view'.stops = 1
    BY <2>3 DEF After
  <2>6. BodyShape'
    BY <1>1, <1>2, <2>1, <2>4 DEF EndpointIInv, BodyShape
  <2>7. ReplyShape'
    <3>1. "json" # "events" /\ "json" # "none"
      OBVIOUS
    <3> QED
      BY <1>1, <1>3, <1>6, <2>1, <2>5, <3>1, Zenon DEF ReplyShape
  <2> QED
    BY <1>4, <2>2, <2>6, <2>7 DEF EndpointIInv
<1> QED
  BY <1>5, <1>6

LEMMA ForcedAnswerKeeps ==
  ASSUME EndpointIInv, Endpoint!AnswerForced
  PROVE  EndpointIInv'
<1>1. /\ awaits = "routing" /\ awaits' \in {"search", "fetch"} /\ pending' = Endpoint!Announce
      /\ UNCHANGED <<streaming, forwarded, feed, source, calls, buffer, view, reply, frame, hops,
                     connector>>
  <2>1. /\ awaits = "routing" /\ pending' = Endpoint!Announce
        /\ UNCHANGED <<streaming, forwarded, feed, source, calls, buffer, view, reply, frame, hops,
                       connector>>
    BY DEF Endpoint!AnswerForced
  <2>2. PICK r \in Endpoint!MessageRequests, enabled \in BOOLEAN :
          Endpoint!Route(r, enabled) = "forced" /\ awaits' = r.choice
    BY DEF Endpoint!AnswerForced
  <2>3. Endpoint!Forced(r)
    BY <2>2 DEF Endpoint!Route
  <2> QED
    BY <2>1, <2>2, <2>3 DEF Endpoint!Forced
<1>2. view = Endpoint!NewClient /\ buffer = <<>> /\ reply = "none"
  BY <1>1 DEF EndpointIInv, BodyShape
<1>3. ~frame /\ feed # "open" /\ ~connector /\ forwarded \cap Endpoint!ServerTools = {}
  BY <1>1, Zenon DEF EndpointIInv, ReplyShape
<1>4. awaits' \notin {"routing", "reading", "deciding", "writing", "done"}
  BY <1>1
<1>5. Endpoint!EndpointTypeOK'
  <2>1. awaits' \in {"routing", "reading", "deciding", "search", "fetch", "writing", "done"}
    BY <1>1
  <2> QED
    BY <1>1, <2>1, Zenon DEF EndpointIInv, Endpoint!EndpointTypeOK
<1>6. SourceShape'
  BY <1>1 DEF EndpointIInv, SourceShape
<1>7. BodyShape'
  <2>1. pending' \in Seq(Events) /\ Leads(view', pending', Announced)
    BY <1>1, <1>2, AnnouncedIsSeen
  <2> QED
    BY <1>1, <1>2, <1>4, <2>1 DEF EndpointIInv, BodyShape
<1>8. ReplyShape'
  <2>1. awaits' # "done" /\ awaits' \notin {"reading", "deciding"} /\ "none" # "json"
        /\ "none" # "events"
    BY <1>4
  <2> QED
    BY <1>1, <1>2, <1>3, <2>1, Zenon DEF ReplyShape
<1> QED
  BY <1>5, <1>6, <1>7, <1>8 DEF EndpointIInv

LEMMA AskKeeps ==
  ASSUME EndpointIInv, Endpoint!AskProvider
  PROVE  EndpointIInv'
<1>1. /\ awaits = "routing" /\ feed' = "open"
      /\ UNCHANGED <<streaming, source, calls, buffer, pending, view, reply, frame, hops, connector>>
  BY DEF Endpoint!AskProvider
<1>2. PICK r \in Endpoint!MessageRequests, enabled \in BOOLEAN :
        /\ Endpoint!Route(r, enabled) \in {"provider", "automatic"}
        /\ forwarded' = Endpoint!Translated(r)
        /\ awaits' = IF Endpoint!Route(r, enabled) = "automatic" THEN "deciding" ELSE "reading"
  BY DEF Endpoint!AskProvider
<1>3. awaits' \in {"reading", "deciding"}
  BY <1>2
<1>4. /\ forwarded' \subseteq Endpoint!ServerTools \cup {"function"}
      /\ forwarded' \cap Endpoint!ServerTools = {}
  <2>1. CASE Endpoint!Automatic(r)
    BY <1>2, <2>1 DEF Endpoint!Translated, Endpoint!ServerTools
  <2>2. CASE ~Endpoint!Automatic(r)
    <3>1. forwarded' = r.tools
      BY <1>2, <2>2 DEF Endpoint!Translated
    <3>2. r.tools \subseteq Endpoint!ServerTools \cup {"function"}
      BY DEF Endpoint!MessageRequests
    <3>3. r.tools \cap Endpoint!ServerTools = {}
      BY <1>2, <2>2 DEF Endpoint!Route
    <3> QED
      BY <3>1, <3>2, <3>3
  <2> QED
    BY <2>1, <2>2
<1>5. /\ view = Endpoint!NewClient /\ source = Endpoint!NewClient /\ buffer = <<>>
      /\ pending = <<>> /\ reply = "none"
  BY <1>1 DEF EndpointIInv, BodyShape
<1>6. ~frame /\ ~connector
  BY <1>1, Zenon DEF EndpointIInv, ReplyShape
<1>7. Endpoint!EndpointTypeOK'
  <2>1. awaits' \in {"routing", "reading", "deciding", "search", "fetch", "writing", "done"}
    BY <1>3
  <2> QED
    BY <1>1, <1>4, <2>1, Zenon DEF EndpointIInv, Endpoint!EndpointTypeOK
<1>8. SourceShape'
  BY <1>1 DEF EndpointIInv, SourceShape
<1>9. BodyShape'
  <2>1. Leads(Endpoint!NewClient, buffer', source')
    BY <1>1, <1>5, NewIsClient, NothingLeads
  <2> QED
    BY <1>1, <1>3, <1>5, <2>1 DEF EndpointIInv, BodyShape
<1>10. ReplyShape'
  <2>1. awaits' # "done" /\ "none" # "json" /\ "none" # "events"
    BY <1>3
  <2> QED
    BY <1>1, <1>3, <1>4, <1>5, <1>6, <2>1, Zenon DEF ReplyShape
<1> QED
  BY <1>7, <1>8, <1>9, <1>10 DEF EndpointIInv

(* A body fails: before its first event the answer is an error, after it   *)
(* an error frame is the last of its events.                               *)
LEMMA FailureKeeps ==
  ASSUME EndpointIInv, awaits \in {"reading", "deciding"}, Endpoint!BodyFails,
         feed' = "closed", buffer' = <<>>,
         UNCHANGED <<streaming, forwarded, source, calls, view, hops, connector>>
  PROVE  EndpointIInv'
<1>1. /\ awaits' = "done" /\ pending' = <<>>
      /\ \/ reply = "none" /\ reply' = "error" /\ frame' = frame
         \/ reply # "none" /\ frame' = TRUE /\ reply' = reply
  BY Zenon DEF Endpoint!BodyFails
<1>2. /\ reply \in {"none", "events"} /\ ~frame /\ (reply = "events" => streaming) /\ ~connector
      /\ forwarded \cap Endpoint!ServerTools = {}
  <2>1. awaits # "done" /\ awaits # "fetch"
    OBVIOUS
  <2> QED
    BY <2>1, Zenon DEF EndpointIInv, ReplyShape
<1>3. view.of \subseteq {1}
  <2>1. CASE awaits = "reading"
    BY <2>1 DEF EndpointIInv, BodyShape, SourceShape
  <2>2. CASE awaits = "deciding"
    BY <2>2 DEF EndpointIInv, BodyShape, Endpoint!NewClient
  <2> QED
    BY <2>1, <2>2
<1>4. Endpoint!EndpointTypeOK'
  <2>1. frame' \in BOOLEAN /\ {streaming, frame, connector} \subseteq BOOLEAN
    BY <1>1, Zenon DEF EndpointIInv, Endpoint!EndpointTypeOK
  <2>2. {streaming', frame', connector'} \subseteq BOOLEAN
    BY <2>1, Zenon
  <2>3. reply' \in {"none", "events", "json", "error", "gone"}
    BY <1>1, <1>2
  <2> QED
    BY <1>1, <2>2, <2>3, Zenon DEF EndpointIInv, Endpoint!EndpointTypeOK
<1>5. SourceShape'
  BY DEF EndpointIInv, SourceShape
<1>6. BodyShape'
  BY <1>1 DEF EndpointIInv, BodyShape
<1>7. ReplyShape'
  <2>1. CASE reply = "none"
    <3>1. "error" \notin {"none", "events", "json"} /\ reply' = "error"
      BY <1>1, <2>1
    <3> QED
      BY <1>1, <1>2, <1>3, <2>1, <3>1 DEF ReplyShape
  <2>2. CASE reply # "none"
    <3>1. reply' = "events" /\ frame' = TRUE
      BY <1>1, <1>2, <2>2
    <3> QED
      BY <1>1, <1>2, <1>3, <2>2, <3>1 DEF ReplyShape
  <2> QED
    BY <2>1, <2>2
<1> QED
  BY <1>4, <1>5, <1>6, <1>7 DEF EndpointIInv

(* The provider's stream is read ...                                       *)
LEMMA ReadChunkKeeps ==
  ASSUME EndpointIInv, Endpoint!ReadChunk
  PROVE  EndpointIInv'
<1>1. /\ awaits = "reading"
      /\ UNCHANGED <<awaits, streaming, forwarded, feed, buffer, pending, frame, hops, connector>>
  BY DEF Endpoint!ReadChunk
<1>2. PICK c \in Endpoint!Sendable : Endpoint!Sends(c) /\ Endpoint!Read(c.event)
  BY DEF Endpoint!ReadChunk
<1>3. SourceShape' /\ Sound(source') /\ source' # Endpoint!NewClient
  BY <1>2, ProviderSends
<1>4. view' = source'
  BY <1>1, <1>2 DEF EndpointIInv, BodyShape, Endpoint!Read, Endpoint!Sends
<1>5. reply' = IF streaming THEN "events" ELSE reply
  BY <1>2 DEF Endpoint!Read
<1>6. /\ reply \in {"none", "events"} /\ ~frame /\ (reply = "events" => streaming) /\ ~connector
      /\ forwarded \cap Endpoint!ServerTools = {}
  <2>1. awaits # "done" /\ awaits # "fetch"
    BY <1>1
  <2> QED
    BY <2>1, Zenon DEF EndpointIInv, ReplyShape
<1>7. reply' \in {"none", "events"} /\ (reply' = "events" => streaming) /\ (streaming => reply' = "events")
  <2>1. CASE streaming
    BY <1>5, <2>1
  <2>2. CASE ~streaming
    <3>1. reply' = reply
      BY <1>5, <2>2
    <3> QED
      BY <1>6, <2>2, <3>1, Zenon
  <2> QED
    BY <2>1, <2>2
<1>8. Endpoint!EndpointTypeOK'
  <2>1. reply' \in {"none", "events", "json", "error", "gone"}
    BY <1>7
  <2> QED
    BY <1>1, <2>1, Zenon DEF EndpointIInv, Endpoint!EndpointTypeOK
<1>9. BodyShape'
  BY <1>1, <1>3, <1>4 DEF EndpointIInv, BodyShape, SourceShape
<1>10. ReplyShape'
  <2>1. reply' # "json" /\ awaits' # "done" /\ awaits' \in {"reading", "deciding"}
    BY <1>1, <1>7
  <2> QED
    BY <1>1, <1>6, <1>7, <2>1, Zenon DEF ReplyShape
<1> QED
  BY <1>3, <1>8, <1>9, <1>10 DEF EndpointIInv

(* ... to the end of its message ...                                       *)
LEMMA EndKeeps ==
  ASSUME EndpointIInv, awaits \in {"reading", "writing"}, awaits' = "done", view.stops = 1,
         pending = <<>>, Endpoint!Ended, feed' # "open", feed' \in {"none", "open", "closed"},
         UNCHANGED <<streaming, forwarded, source, calls, buffer, pending, view, frame, hops, connector>>
  PROVE  EndpointIInv'
<1>1. view # Endpoint!NewClient
  BY DEF Endpoint!NewClient
<1>2. /\ reply \in {"none", "events"} /\ ~frame /\ (reply = "events" => streaming) /\ ~connector
      /\ forwarded \cap Endpoint!ServerTools = {} /\ (streaming => reply = "events")
  <2>1. awaits # "done" /\ awaits # "fetch"
    OBVIOUS
  <2> QED
    BY <1>1, <2>1, Zenon DEF EndpointIInv, ReplyShape
<1>3. \/ streaming /\ reply' = "events"
      \/ ~streaming /\ reply' = "json"
  BY <1>2, Zenon DEF Endpoint!Ended
<1>4. Endpoint!EndpointTypeOK'
  <2>1. reply' \in {"none", "events", "json", "error", "gone"}
    BY <1>3
  <2> QED
    BY <2>1, Zenon DEF EndpointIInv, Endpoint!EndpointTypeOK
<1>5. SourceShape'
  BY DEF EndpointIInv, SourceShape
<1>6. BodyShape'
  BY DEF EndpointIInv, BodyShape
<1>7. ReplyShape'
  BY <1>2, <1>3 DEF ReplyShape
<1> QED
  BY <1>4, <1>5, <1>6, <1>7 DEF EndpointIInv

(* ... or buffered until it is decided.                                    *)
LEMMA BufferChunkKeeps ==
  ASSUME EndpointIInv, Endpoint!BufferChunk
  PROVE  EndpointIInv'
<1>1. /\ awaits = "deciding"
      /\ UNCHANGED <<awaits, streaming, forwarded, feed, pending, view, reply, frame, hops, connector>>
  BY DEF Endpoint!BufferChunk
<1>2. PICK c \in Endpoint!Sendable : Endpoint!Sends(c) /\ buffer' = buffer \o c.event
  BY DEF Endpoint!BufferChunk
<1>3. buffer \in Seq(Events) /\ Leads(Endpoint!NewClient, buffer, source)
  BY <1>1 DEF EndpointIInv, BodyShape
<1>4. /\ SourceShape' /\ buffer' \in Seq(Events)
      /\ Leads(Endpoint!NewClient, buffer', source')
  BY <1>2, <1>3, ProviderSends
<1>5. Endpoint!EndpointTypeOK'
  BY <1>1, Zenon DEF EndpointIInv, Endpoint!EndpointTypeOK
<1>6. BodyShape'
  BY <1>1, <1>4 DEF EndpointIInv, BodyShape
<1>7. ReplyShape'
  BY <1>1, Zenon DEF EndpointIInv, ReplyShape
<1> QED
  BY <1>4, <1>5, <1>6, <1>7 DEF EndpointIInv

LEMMA DecidedKeeps ==
  ASSUME EndpointIInv, Endpoint!Decided
  PROVE  EndpointIInv'
<1>1. /\ awaits = "deciding" /\ source.stops = 1 /\ feed' = "closed" /\ buffer' = <<>>
      /\ UNCHANGED <<streaming, forwarded, source, calls, view, hops, connector>>
      /\ \/ awaits' = "writing" /\ pending' = buffer /\ UNCHANGED <<reply, frame>>
         \/ awaits' = "search" /\ pending' = Endpoint!Announce /\ UNCHANGED <<reply, frame>>
         \/ Endpoint!BodyFails
  BY Zenon DEF Endpoint!Decided
<1>2. /\ view = Endpoint!NewClient /\ reply = "none" /\ buffer \in Seq(Events)
      /\ Leads(Endpoint!NewClient, buffer, source)
  BY <1>1 DEF EndpointIInv, BodyShape
<1>3. CASE Endpoint!BodyFails
  BY <1>1, <1>3, FailureKeeps
<1>4. ASSUME awaits' \in {"writing", "search"}, UNCHANGED <<reply, frame>>, BodyShape'
      PROVE  EndpointIInv'
  <2>1. awaits' \in {"routing", "reading", "deciding", "search", "fetch", "writing", "done"}
    BY <1>4
  <2>2. Endpoint!EndpointTypeOK'
    BY <1>1, <1>4, <2>1, Zenon DEF EndpointIInv, Endpoint!EndpointTypeOK
  <2>3. SourceShape'
    BY <1>1 DEF EndpointIInv, SourceShape
  <2>4. ReplyShape'
    <3>1. ~frame /\ ~connector /\ forwarded \cap Endpoint!ServerTools = {}
      <4>1. awaits # "done" /\ awaits # "fetch"
        BY <1>1
      <4> QED
        BY <4>1, Zenon DEF EndpointIInv, ReplyShape
    <3>2. /\ awaits' # "done" /\ feed' # "open" /\ reply' = "none" /\ reply' # "json"
          /\ reply' # "events" /\ reply' \in {"none", "events"}
      BY <1>1, <1>2, <1>4
    <3> QED
      BY <1>1, <1>2, <1>4, <3>1, <3>2, Zenon DEF ReplyShape
  <2> QED
    BY <1>4, <2>2, <2>3, <2>4 DEF EndpointIInv
<1>5. CASE awaits' = "writing" /\ pending' = buffer /\ UNCHANGED <<reply, frame>>
  <2>1. /\ pending' \in Seq(Events) /\ source \in Clients /\ Leads(view', pending', source)
    BY <1>1, <1>2, <1>5 DEF EndpointIInv, SourceShape
  <2>2. BodyShape'
    BY <1>1, <1>2, <1>5, <2>1 DEF EndpointIInv, BodyShape
  <2> QED
    BY <1>4, <1>5, <2>2
<1>6. CASE awaits' = "search" /\ pending' = Endpoint!Announce /\ UNCHANGED <<reply, frame>>
  <2>1. pending' \in Seq(Events) /\ Leads(view', pending', Announced)
    BY <1>1, <1>2, <1>6, AnnouncedIsSeen
  <2>2. BodyShape'
    BY <1>1, <1>2, <1>6, <2>1 DEF EndpointIInv, BodyShape
  <2> QED
    BY <1>4, <1>6, <2>2
<1> QED
  BY <1>1, <1>3, <1>5, <1>6

(* An event that waits for nothing is written.                             *)
LEMMA WriteEventKeeps ==
  ASSUME EndpointIInv, Endpoint!WriteEvent
  PROVE  EndpointIInv'
<1>1. /\ pending # <<>> /\ pending' = Tail(pending) /\ Endpoint!Read(<<Head(pending)>>)
      /\ UNCHANGED <<awaits, streaming, forwarded, feed, source, calls, buffer, frame, hops,
                     connector>>
  BY DEF Endpoint!WriteEvent
<1>2. awaits \in {"search", "fetch", "writing"} /\ view \in Clients /\ pending \in Seq(Events)
  BY <1>1 DEF EndpointIInv, BodyShape
<1>3. /\ view' = Endpoint!Follow(view, <<Head(pending)>>)
      /\ reply' = IF streaming THEN "events" ELSE reply
  BY <1>1 DEF Endpoint!Read
<1>4. Head(pending) \in Events /\ pending' \in Seq(Events)
  BY <1>1, <1>2
<1>5. view' = Endpoint!Receive(view, Head(pending))
  BY <1>2, <1>3, <1>4, FollowOne
<1>6. ASSUME NEW d, Leads(view, pending, d)
      PROVE  Leads(view', pending', d) /\ view' \in Clients /\ Sound(view')
  <2>1. Leads(view', pending', d)
    BY <1>1, <1>2, <1>5, <1>6, LeadsFrom, Zenon
  <2> QED
    BY <1>4, <2>1, LeadsIsSound
<1>7. BodyShape'
  <2>1. CASE awaits \in {"search", "fetch"}
    <3>1. Leads(view, pending, Announced)
      BY <2>1 DEF EndpointIInv, BodyShape
    <3>2. Leads(view', pending', Announced) /\ view' \in Clients /\ Sound(view')
      BY <1>6, <3>1
    <3> QED
      BY <1>1, <1>4, <2>1, <3>2 DEF EndpointIInv, BodyShape
  <2>2. CASE awaits = "writing"
    <3>1. PICK d \in Clients : Leads(view, pending, d) /\ d.stops = 1
      BY <2>2 DEF EndpointIInv, BodyShape
    <3>2. Leads(view', pending', d) /\ view' \in Clients /\ Sound(view')
      BY <1>6, <3>1
    <3> QED
      BY <1>1, <1>4, <2>2, <3>1, <3>2 DEF EndpointIInv, BodyShape
  <2> QED
    BY <1>2, <2>1, <2>2
<1>8. /\ reply \in {"none", "events"} /\ ~frame /\ (reply = "events" => streaming)
      /\ forwarded \cap Endpoint!ServerTools = {} /\ feed # "open"
      /\ (connector => awaits = "fetch") /\ awaits # "done"
  <2>1. awaits # "done" /\ awaits \notin {"reading", "deciding"}
    BY <1>2
  <2> QED
    BY <2>1, Zenon DEF EndpointIInv, ReplyShape
<1>9. reply' \in {"none", "events"} /\ (reply' = "events" => streaming) /\ (streaming => reply' = "events")
  <2>1. CASE streaming
    BY <1>3, <2>1
  <2>2. CASE ~streaming
    <3>1. reply' = reply
      BY <1>3, <2>2
    <3> QED
      BY <1>8, <2>2, <3>1, Zenon
  <2> QED
    BY <2>1, <2>2
<1>10. Endpoint!EndpointTypeOK'
  <2>1. reply' \in {"none", "events", "json", "error", "gone"}
    BY <1>9
  <2> QED
    BY <1>1, <2>1, Zenon DEF EndpointIInv, Endpoint!EndpointTypeOK
<1>11. SourceShape'
  BY <1>1 DEF EndpointIInv, SourceShape
<1>12. ReplyShape'
  <2>1. reply' # "json"
    BY <1>9
  <2> QED
    BY <1>1, <1>8, <1>9, <2>1, Zenon DEF ReplyShape
<1> QED
  BY <1>7, <1>10, <1>11, <1>12 DEF EndpointIInv

(* The tool goes on, and ends with its result.                             *)
LEMMA ToolKeeps ==
  ASSUME EndpointIInv, awaits = "fetch", hops' \in 0 .. MaxRedirects, connector' \in BOOLEAN,
         UNCHANGED <<awaits, streaming, forwarded, feed, source, calls, buffer, pending, view, reply,
                     frame>>
  PROVE  EndpointIInv'
<1>1. Endpoint!EndpointTypeOK'
  <2>1. {streaming, frame, connector} \subseteq BOOLEAN
    BY Zenon DEF EndpointIInv, Endpoint!EndpointTypeOK
  <2>2. {streaming', frame', connector'} \subseteq BOOLEAN
    BY <2>1, Zenon
  <2> QED
    BY <2>2, Zenon DEF EndpointIInv, Endpoint!EndpointTypeOK
<1>2. SourceShape'
  BY DEF EndpointIInv, SourceShape
<1>3. BodyShape'
  BY DEF EndpointIInv, BodyShape
<1>4. ReplyShape'
  BY Zenon DEF EndpointIInv, ReplyShape
<1> QED
  BY <1>1, <1>2, <1>3, <1>4 DEF EndpointIInv

LEMMA ResultKeeps ==
  ASSUME EndpointIInv, awaits \in {"search", "fetch"}, pending = <<>>, Endpoint!ToolEnds,
         UNCHANGED <<streaming, forwarded, feed, source, calls, buffer, view, reply, frame, hops>>
  PROVE  EndpointIInv'
<1>1. awaits' = "writing" /\ pending' = Endpoint!ToolResult /\ connector' = FALSE
  BY Zenon DEF Endpoint!ToolEnds
<1>2. view = Announced
  BY NothingIsLeft DEF EndpointIInv, BodyShape
<1>3. BodyShape'
  <2>1. /\ pending' \in Seq(Events) /\ Leads(view', pending', After({1, 2, 3}, {2}, 1))
        /\ After({1, 2, 3}, {2}, 1) \in Clients
    BY <1>1, <1>2, ToolResultIsSeen, AfterIsClient
  <2>2. After({1, 2, 3}, {2}, 1).stops = 1
    BY DEF After
  <2> QED
    BY <1>1, <2>1, <2>2 DEF EndpointIInv, BodyShape
<1>4. Endpoint!EndpointTypeOK'
  <2>1. {streaming, frame, connector} \subseteq BOOLEAN
    BY Zenon DEF EndpointIInv, Endpoint!EndpointTypeOK
  <2>2. {streaming', frame', connector'} \subseteq BOOLEAN
    BY <1>1, <2>1, Zenon
  <2> QED
    BY <1>1, <2>2, Zenon DEF EndpointIInv, Endpoint!EndpointTypeOK
<1>5. SourceShape'
  BY DEF EndpointIInv, SourceShape
<1>6. ReplyShape'
  <2>1. awaits # "done" /\ awaits \notin {"reading", "deciding"}
    OBVIOUS
  <2>2. /\ reply \in {"none", "events"} /\ ~frame /\ (reply = "events" => streaming)
        /\ forwarded \cap Endpoint!ServerTools = {} /\ feed # "open" /\ reply # "json"
        /\ (streaming /\ view # Endpoint!NewClient => reply = "events")
    BY <2>1, Zenon DEF EndpointIInv, ReplyShape
  <2>3. awaits' # "done"
    BY <1>1
  <2> QED
    BY <1>1, <2>2, <2>3, Zenon DEF ReplyShape
<1> QED
  BY <1>3, <1>4, <1>5, <1>6 DEF EndpointIInv

LEMMA DepartureKeeps ==
  ASSUME EndpointIInv, Endpoint!ClientLeaves
  PROVE  EndpointIInv'
<1>1. /\ awaits' = "done" /\ reply' = "gone" /\ connector' = FALSE /\ pending' = <<>>
      /\ buffer' = <<>> /\ awaits # "done"
      /\ UNCHANGED <<streaming, forwarded, source, calls, view, frame, hops>>
  BY DEF Endpoint!ClientLeaves
<1>2. feed' # "open" /\ feed' \in {"none", "open", "closed"}
  BY DEF Endpoint!ClientLeaves, EndpointIInv, Endpoint!EndpointTypeOK
<1>3. Endpoint!EndpointTypeOK'
  <2>1. {streaming, frame, connector} \subseteq BOOLEAN
    BY Zenon DEF EndpointIInv, Endpoint!EndpointTypeOK
  <2>2. {streaming', frame', connector'} \subseteq BOOLEAN
    BY <1>1, <2>1, Zenon
  <2> QED
    BY <1>1, <1>2, <2>2, Zenon DEF EndpointIInv, Endpoint!EndpointTypeOK
<1>4. SourceShape'
  BY <1>1 DEF EndpointIInv, SourceShape
<1>5. BodyShape'
  BY <1>1 DEF EndpointIInv, BodyShape
<1>6. ReplyShape'
  <2>1. ~frame /\ forwarded \cap Endpoint!ServerTools = {}
    BY <1>1, Zenon DEF EndpointIInv, ReplyShape
  <2>2. "gone" \notin {"none", "events", "json"}
    OBVIOUS
  <2> QED
    BY <1>1, <1>2, <2>1, <2>2 DEF ReplyShape
<1> QED
  BY <1>3, <1>4, <1>5, <1>6 DEF EndpointIInv

LEMMA EndpointStepKeeps ==
  ASSUME EndpointIInv, [Endpoint!EndpointNext]_endpointVars
  PROVE  EndpointIInv'
<1>1. CASE Endpoint!ReadEnds
  <2>1. /\ awaits = "reading" /\ source.stops = 1 /\ awaits' = "done" /\ feed' = "closed"
        /\ Endpoint!Ended
        /\ UNCHANGED <<streaming, forwarded, source, calls, buffer, pending, view, frame, hops,
                       connector>>
    BY <1>1 DEF Endpoint!ReadEnds
  <2>2. view = source /\ pending = <<>>
    BY <2>1 DEF EndpointIInv, BodyShape
  <2> QED
    BY <2>1, <2>2, EndKeeps
<1>2. CASE Endpoint!WriteEnds
  <2>1. /\ awaits = "writing" /\ pending = <<>> /\ awaits' = "done" /\ Endpoint!Ended
        /\ UNCHANGED <<streaming, forwarded, feed, source, calls, buffer, pending, view, frame, hops,
                       connector>>
    BY <1>2 DEF Endpoint!WriteEnds
  <2>2. view.stops = 1
    BY <2>1, NothingIsLeft DEF EndpointIInv, BodyShape
  <2>3. feed' # "open" /\ feed' \in {"none", "open", "closed"}
    <3>1. awaits \notin {"reading", "deciding"}
      BY <2>1
    <3>2. feed # "open" /\ feed \in {"none", "open", "closed"}
      BY <3>1, Zenon DEF EndpointIInv, ReplyShape, Endpoint!EndpointTypeOK
    <3> QED
      BY <2>1, <3>2
  <2> QED
    BY <2>1, <2>2, <2>3, EndKeeps
<1>3. CASE Endpoint!ProviderFails
  BY <1>3, FailureKeeps DEF Endpoint!ProviderFails
<1>4. CASE Endpoint!DecisionTooLarge
  BY <1>4, FailureKeeps DEF Endpoint!DecisionTooLarge
<1>5. CASE Endpoint!FetchConnects
  <2>1. /\ awaits = "fetch" /\ connector' \in BOOLEAN
        /\ UNCHANGED <<awaits, streaming, forwarded, feed, source, calls, buffer, pending, view,
                       reply, frame, hops>>
    BY <1>5, Zenon DEF Endpoint!FetchConnects
  <2>2. hops' \in 0 .. MaxRedirects
    BY <2>1 DEF EndpointIInv, Endpoint!EndpointTypeOK
  <2> QED
    BY <2>1, <2>2, ToolKeeps, Zenon
<1>6. CASE Endpoint!FetchRedirected
  <2>1. /\ awaits = "fetch" /\ connector' \in BOOLEAN
        /\ UNCHANGED <<awaits, streaming, forwarded, feed, source, calls, buffer, pending, view,
                       reply, frame>>
    BY <1>6, Zenon DEF Endpoint!FetchRedirected
  <2>2. hops' \in 0 .. MaxRedirects
    BY <1>6, RedirectsAssumption
    DEF EndpointIInv, Endpoint!EndpointTypeOK, Endpoint!FetchRedirected
  <2> QED
    BY <2>1, <2>2, ToolKeeps, Zenon
<1>7. CASE Endpoint!Searched
  BY <1>7, ResultKeeps DEF Endpoint!Searched
<1>8. CASE Endpoint!Fetched
  BY <1>8, ResultKeeps DEF Endpoint!Fetched
<1>9. CASE UNCHANGED endpointVars
  <2>1. /\ UNCHANGED <<awaits, streaming, forwarded, feed, source, calls, buffer, pending, view>>
        /\ UNCHANGED <<reply, frame, hops, connector>>
    BY <1>9 DEF endpointVars
  <2>2. Endpoint!EndpointTypeOK'
    BY <2>1, Zenon DEF EndpointIInv, Endpoint!EndpointTypeOK
  <2>3. SourceShape'
    BY <2>1 DEF EndpointIInv, SourceShape
  <2>4. BodyShape'
    BY <2>1 DEF EndpointIInv, BodyShape
  <2>5. ReplyShape'
    BY <2>1, Zenon DEF EndpointIInv, ReplyShape
  <2> QED
    BY <2>2, <2>3, <2>4, <2>5 DEF EndpointIInv
<1> QED
  BY <1>1, <1>2, <1>3, <1>4, <1>5, <1>6, <1>7, <1>8, <1>9, RefusalKeeps, LocalAnswerKeeps,
     ForcedAnswerKeeps, AskKeeps, ReadChunkKeeps, BufferChunkKeeps, DecidedKeeps, WriteEventKeeps,
     DepartureKeeps, Zenon
  DEF Endpoint!EndpointNext

-----------------------------------------------------------------------------
(* The bridge that runs commands.                                          *)

PipeUnits == [frame : Nat, part : {"header", "payload"}]

BridgeTypes ==
  /\ Bridge!BridgeTypeOK
  /\ pipe \in Seq(PipeUnits)
  /\ answers \in Seq([to : Nat, kind : {"pong", "error", "result", "empty"}])

(* Frames that were answered or whose command is running.                  *)
Taken == Len(answers) + (IF host \in {"waiting", "joining"} THEN 1 ELSE 0)

IsHeader(k) == pipe[k].part = "header"
Until(k)    == k + Bridge!Payload(frames[pipe[k].frame])   \* where the frame ends

(* The pipe holds the frames that were not taken, one after the other; only*)
(* the last one may lack its last unit, and only when the pipe is closed.  *)
PipeShape ==
  /\ Taken <= Len(frames)
  /\ IF pipe = <<>> THEN Taken = Len(frames) ELSE IsHeader(1) /\ pipe[1].frame = Taken + 1
  /\ \A k \in 1 .. Len(pipe) :
       IsHeader(k) =>
         /\ pipe[k].frame \in Taken + 1 .. Len(frames)
         /\ \A j \in k + 1 .. Until(k) : j <= Len(pipe) => ~IsHeader(j)
         /\ pipe[k].frame < Len(frames) =>
              /\ Until(k) + 1 <= Len(pipe)
              /\ IsHeader(Until(k) + 1) /\ pipe[Until(k) + 1].frame = pipe[k].frame + 1
         /\ pipe[k].frame = Len(frames) =>
              Len(pipe) = Until(k) \/ (~open /\ Len(pipe) = Until(k) - 1)
  /\ \A j, k \in 1 .. Len(pipe) :
       IsHeader(j) /\ IsHeader(k) /\ pipe[j].frame = pipe[k].frame => j = k
  /\ \A n \in Taken + 1 .. Len(frames) :
       \E k \in 1 .. Len(pipe) : IsHeader(k) /\ pipe[k].frame = n

(* Commands start in the order of their frames and are answered before     *)
(* another frame is taken; what is logged belongs to a frame of the past.  *)
AnswerShape ==
  /\ host \in {"waiting", "joining"} => serving = Len(answers) + 1 /\ serving \in started
  /\ host = "joining" => verdict \in {"exit", "timeout"}
  /\ host # "ended" => \A n \in started : n <= Taken
  /\ \A k \in 1 .. Len(answers) :
       answers[k].to = k /\ (answers[k].kind \in {"result", "empty"} => k \in started)
  /\ \A e \in logged : /\ e.frame \in 1 .. Len(answers)
                       /\ e.frame \in started <=> e.outcome \in {"exit", "timeout"}

(* The inductive invariant of the bridge; once it was ended, frames are    *)
(* left where they are.                                                    *)
BridgeIInv == BridgeTypes /\ AnswerShape /\ (host # "ended" => PipeShape)

LEMMA BridgeAnswers ==
  ASSUME BridgeIInv
  PROVE  Bridge!BridgeTypeOK /\ Bridge!EachFrameIsAnswered
<1> DEFINE headers == {k \in DOMAIN pipe : pipe[k].part = "header"}
<1>1. DOMAIN pipe = 1 .. Len(pipe) /\ DOMAIN answers = 1 .. Len(answers)
      /\ Len(answers) \in Nat /\ Len(frames) \in Nat /\ Len(pipe) \in Nat
  BY DEF BridgeIInv, BridgeTypes, Bridge!BridgeTypeOK
<1>2. ASSUME host = "reading"
      PROVE  Len(answers) = Len(frames) - Bridge!Cardinality(headers)
  <2>1. PipeShape /\ Taken = Len(answers)
    BY <1>1, <1>2 DEF BridgeIInv, Taken
  <2> DEFINE f == [k \in headers |-> pipe[k].frame]
  <2>2. f \in [headers -> Taken + 1 .. Len(frames)]
    BY <1>1, <2>1 DEF PipeShape, IsHeader
  <2>3. \A j, k \in headers : f[j] = f[k] => j = k
    BY <1>1, <2>1 DEF PipeShape, IsHeader
  <2>4. \A n \in Taken + 1 .. Len(frames) : \E k \in headers : f[k] = n
    BY <1>1, <2>1 DEF PipeShape, IsHeader
  <2>5. IsFiniteSet(Taken + 1 .. Len(frames))
        /\ Cardinality(Taken + 1 .. Len(frames)) = Len(frames) - Taken
    <3>1. Taken + 1 \in Int /\ Len(frames) \in Int /\ Taken \in Int /\ Taken <= Len(frames)
      BY <1>1, <2>1 DEF PipeShape
    <3>2. \A m, n \in Int : m <= n + 1 => /\ IsFiniteSet(m .. n)
                                           /\ Cardinality(m .. n) = n - m + 1
      BY FS_Interval
    <3> QED
      BY <3>1, <3>2
  <2> HIDE DEF f, headers
  <2>6. f \in Bijection(headers, Taken + 1 .. Len(frames))
    <3>1. f \in Injection(headers, Taken + 1 .. Len(frames))
      BY <2>2, <2>3 DEF Injection, IsInjective
    <3>2. f \in Surjection(headers, Taken + 1 .. Len(frames))
      BY <2>2, <2>4, Zenon DEF Surjection
    <3> QED
      BY <3>1, <3>2 DEF Bijection
  <2>7. Cardinality(headers) = Len(frames) - Taken
    <3>1. ExistsBijection(headers, Taken + 1 .. Len(frames))
      BY <2>6 DEF ExistsBijection
    <3>2. ExistsBijection(Taken + 1 .. Len(frames), headers)
      BY <3>1, Fun_ExistsBijSymmetric
    <3> QED
      BY <2>5, <3>2, FS_Bijection
  <2>8. Bridge!Cardinality(headers) = Cardinality(headers)
    BY Zenon DEF Cardinality, Bridge!Cardinality
  <2> QED
    BY <1>1, <2>1, <2>7, <2>8
<1>3. /\ \A k \in DOMAIN answers : answers[k].to = k
      /\ \A k \in DOMAIN answers : answers[k].kind \in {"result", "empty"} => k \in started
      /\ \A e \in logged : e.frame \in started <=> e.outcome \in {"exit", "timeout"}
  BY <1>1 DEF BridgeIInv, AnswerShape
<1> HIDE DEF headers
<1>4. Bridge!EachFrameIsAnswered
  BY <1>2, <1>3, Zenon DEF Bridge!EachFrameIsAnswered, headers
<1> QED
  BY <1>4 DEF BridgeIInv, BridgeTypes

LEMMA BridgeInitially ==
  ASSUME Bridge!Init
  PROVE  BridgeIInv
<1>1. /\ frames = <<>> /\ pipe = <<>> /\ answers = <<>> /\ logged = {} /\ started = {}
      /\ host = "reading" /\ serving = 0 /\ verdict = "none"
  BY Zenon DEF Bridge!Init
<1>2. {open, shell, kin, drained} \subseteq BOOLEAN
  BY Zenon DEF Bridge!Init
<1>3. Len(<<>>) = 0 /\ \A S : <<>> \in Seq(S)
  OBVIOUS
<1>4. BridgeTypes
  BY <1>1, <1>2, <1>3 DEF BridgeTypes, Bridge!BridgeTypeOK
<1>5. AnswerShape
  BY <1>1, <1>3 DEF AnswerShape, Taken
<1>6. PipeShape
  BY <1>1, <1>3 DEF PipeShape, Taken
<1> QED
  BY <1>4, <1>5, <1>6 DEF BridgeIInv

LEMMA Concatenation ==
  ASSUME NEW S, NEW s \in Seq(S), NEW t \in Seq(S)
  PROVE  /\ s \o t \in Seq(S) /\ Len(s \o t) = Len(s) + Len(t)
         /\ \A k \in 1 .. Len(s) + Len(t) :
              (s \o t)[k] = IF k <= Len(s) THEN s[k] ELSE t[k - Len(s)]
OBVIOUS

LEMMA Subsequence ==
  ASSUME NEW S, NEW s \in Seq(S), NEW m \in Nat, NEW n \in Nat, m <= n, n <= Len(s)
  PROVE  /\ SubSeq(s, m + 1, n) \in Seq(S) /\ Len(SubSeq(s, m + 1, n)) = n - m
         /\ \A k \in 1 .. n - m : SubSeq(s, m + 1, n)[k] = s[k + m]
OBVIOUS

LEMMA Beginning ==
  ASSUME NEW S, NEW s \in Seq(S), NEW n \in Nat, n <= Len(s)
  PROVE  /\ SubSeq(s, 1, n) \in Seq(S) /\ Len(SubSeq(s, 1, n)) = n
         /\ \A k \in 1 .. n : SubSeq(s, 1, n)[k] = s[k]
OBVIOUS

(* What Chrome writes of a frame: a header and what follows it.            *)
LEMMA UnitsShape ==
  ASSUME NEW n \in Nat, NEW kind
  PROVE  /\ Bridge!Payload(kind) \in {1, 2}
         /\ Bridge!Units(n, kind) \in Seq(PipeUnits)
         /\ Len(Bridge!Units(n, kind)) = 1 + Bridge!Payload(kind)
         /\ Bridge!Units(n, kind)[1] = [frame |-> n, part |-> "header"]
         /\ \A k \in 2 .. 1 + Bridge!Payload(kind) : Bridge!Units(n, kind)[k].part = "payload"
<1>1. Bridge!Payload(kind) \in {1, 2}
  BY DEF Bridge!Payload
<1> DEFINE p == Bridge!Payload(kind)
           a == <<[frame |-> n, part |-> "header"]>>
           b == [k \in 1 .. p |-> [frame |-> n, part |-> "payload"]]
<1>2. a \in Seq(PipeUnits) /\ Len(a) = 1 /\ a[1] = [frame |-> n, part |-> "header"]
  BY DEF PipeUnits
<1>3. b \in Seq(PipeUnits) /\ Len(b) = p /\ \A k \in 1 .. p : b[k].part = "payload"
  <2>1. b \in [1 .. p -> PipeUnits] /\ p \in Nat
    BY <1>1 DEF PipeUnits
  <2> QED
    BY <2>1
<1>4. Bridge!Units(n, kind) = a \o b
  BY Zenon DEF Bridge!Units
<1> HIDE DEF p, a, b
<1>5. a \o b \in Seq(PipeUnits) /\ Len(a \o b) = 1 + p /\ (a \o b)[1] = a[1]
      /\ \A k \in 2 .. 1 + p : (a \o b)[k] = b[k - 1] /\ k - 1 \in 1 .. p
  <2>1. p \in Nat /\ p > 0
    BY <1>1 DEF p
  <2>2. /\ a \o b \in Seq(PipeUnits) /\ Len(a \o b) = Len(a) + Len(b)
        /\ \A k \in 1 .. Len(a) + Len(b) :
             (a \o b)[k] = IF k <= Len(a) THEN a[k] ELSE b[k - Len(a)]
    BY <1>2, <1>3, Concatenation
  <2> QED
    BY <1>2, <1>3, <2>1, <2>2
<1> QED
  BY <1>1, <1>2, <1>3, <1>4, <1>5 DEF p

LEMMA ChromeSends ==
  ASSUME BridgeIInv, Bridge!Sends
  PROVE  BridgeIInv'
<1>1. PICK kind \in Bridge!Kinds :
        frames' = Append(frames, kind) /\ pipe' = pipe \o Bridge!Units(Len(frames) + 1, kind)
  BY Zenon DEF Bridge!Sends
<1>2. open /\ UNCHANGED <<open, host, serving, verdict, shell, kin, drained, answers, started, logged>>
  BY Zenon DEF Bridge!Sends, Bridge!process
<1>3. /\ Len(pipe) \in Nat /\ Len(frames) \in Nat /\ Len(answers) \in Nat
      /\ pipe \in Seq(PipeUnits) /\ frames \in Seq(Bridge!Kinds)
  BY DEF BridgeIInv, BridgeTypes, Bridge!BridgeTypeOK
<1> DEFINE p == Bridge!Payload(kind)
<1>4. /\ Len(frames') = Len(frames) + 1 /\ frames' \in Seq(Bridge!Kinds)
      /\ (\A n \in 1 .. Len(frames) : frames'[n] = frames[n]) /\ frames'[Len(frames) + 1] = kind
  BY <1>1, <1>3
<1>5. /\ p \in {1, 2} /\ Len(pipe') = Len(pipe) + 1 + p /\ pipe' \in Seq(PipeUnits)
      /\ \A k \in 1 .. Len(pipe) : pipe'[k] = pipe[k]
      /\ pipe'[Len(pipe) + 1] = [frame |-> Len(frames) + 1, part |-> "header"]
      /\ \A k \in Len(pipe) + 2 .. Len(pipe) + 1 + p : pipe'[k].part = "payload"
  <2> DEFINE u == Bridge!Units(Len(frames) + 1, kind)
  <2>1. /\ p \in {1, 2} /\ u \in Seq(PipeUnits) /\ Len(u) = 1 + p
        /\ u[1] = [frame |-> Len(frames) + 1, part |-> "header"]
        /\ \A k \in 2 .. 1 + p : u[k].part = "payload"
    BY <1>3, UnitsShape
  <2> HIDE DEF u, p
  <2>2. /\ Len(pipe \o u) = Len(pipe) + 1 + p /\ pipe \o u \in Seq(PipeUnits)
        /\ \A k \in 1 .. Len(pipe) : (pipe \o u)[k] = pipe[k]
        /\ \A k \in Len(pipe) + 1 .. Len(pipe) + 1 + p : (pipe \o u)[k] = u[k - Len(pipe)]
    <3>1. /\ pipe \o u \in Seq(PipeUnits) /\ Len(pipe \o u) = Len(pipe) + Len(u)
          /\ \A k \in 1 .. Len(pipe) + Len(u) :
               (pipe \o u)[k] = IF k <= Len(pipe) THEN pipe[k] ELSE u[k - Len(pipe)]
      BY <1>3, <2>1, Concatenation
    <3> QED
      BY <1>3, <2>1, <3>1
  <2>3. pipe' = pipe \o u
    BY <1>1 DEF u
  <2> QED
    BY <1>3, <2>1, <2>2, <2>3
<1> HIDE DEF p
<1>6. BridgeTypes'
  <2>1. {open', shell', kin', drained'} \subseteq BOOLEAN
    BY <1>2, Zenon DEF BridgeIInv, BridgeTypes, Bridge!BridgeTypeOK
  <2>2. DOMAIN frames' = 1 .. Len(frames) + 1 /\ DOMAIN frames = 1 .. Len(frames)
    BY <1>3, <1>4
  <2>3. started' \subseteq DOMAIN frames' /\ serving' \in 0 .. Len(frames')
    BY <1>2, <1>3, <1>4, <2>2 DEF BridgeIInv, BridgeTypes, Bridge!BridgeTypeOK
  <2>4. host' \in {"reading", "waiting", "joining", "ended"} /\ verdict' \in {"none", "exit", "timeout"}
    BY <1>2 DEF BridgeIInv, BridgeTypes, Bridge!BridgeTypeOK
  <2>5. answers' \in Seq([to : Nat, kind : {"pong", "error", "result", "empty"}])
    BY <1>2 DEF BridgeIInv, BridgeTypes
  <2> QED
    BY <1>4, <1>5, <2>1, <2>3, <2>4, <2>5 DEF BridgeTypes, Bridge!BridgeTypeOK
<1>7. AnswerShape'
  BY <1>2, Zenon DEF BridgeIInv, AnswerShape, Taken
<1>8. ASSUME host # "ended" PROVE PipeShape'
  <2> PICK l \in Nat : l = Len(pipe)
    BY <1>3
  <2>1. PipeShape /\ Taken' = Taken /\ Taken \in Nat
    BY <1>2, <1>3, <1>8 DEF BridgeIInv, Taken
  <2>2. \A k \in 1 .. Len(pipe') :
          IsHeader(k)' => (k \in 1 .. l /\ IsHeader(k)) \/ k = l + 1
    BY <1>3, <1>5 DEF IsHeader
  <2>3. \A k \in 1 .. l : (IsHeader(k) <=> IsHeader(k)') /\ pipe'[k] = pipe[k]
    BY <1>5 DEF IsHeader
  <2>4. IsHeader(l + 1)' /\ pipe'[l + 1].frame = Len(frames) + 1
    BY <1>5 DEF IsHeader
  <2>5. Until(l + 1)' = Len(pipe')
    BY <1>3, <1>4, <1>5, <2>4 DEF Until, p
  <2>6. ASSUME NEW k \in 1 .. l, IsHeader(k)
        PROVE  /\ Until(k)' = Until(k) /\ Until(k) \in Nat /\ pipe[k].frame \in Taken + 1 .. Len(frames)
               /\ Until(k) <= Len(pipe)
    <3>1. pipe[k].frame \in Taken + 1 .. Len(frames)
      BY <2>1, <2>6 DEF PipeShape
    <3>2. frames'[pipe'[k].frame] = frames[pipe[k].frame]
      BY <1>4, <2>1, <2>3, <3>1
    <3>3. Bridge!Payload(frames[pipe[k].frame]) \in {1, 2}
      BY DEF Bridge!Payload
    <3>4. Until(k)' = Until(k) /\ Until(k) \in Nat
      BY <3>2, <3>3 DEF Until
    <3>5. Until(k) <= Len(pipe)
      <4>1. pipe[k].frame < Len(frames) => Until(k) + 1 <= Len(pipe)
        BY <2>1, <2>6 DEF PipeShape
      <4>2. pipe[k].frame = Len(frames) => Len(pipe) = Until(k)
        BY <1>2, <2>1, <2>6 DEF PipeShape
      <4> QED
        BY <1>3, <2>1, <3>1, <3>4, <4>1, <4>2
    <3> QED
      BY <3>1, <3>4, <3>5
  <2>7. Taken' <= Len(frames')
    BY <1>3, <1>4, <2>1 DEF PipeShape
  <2>8. pipe' # <<>> /\ IsHeader(1)' /\ pipe'[1].frame = Taken' + 1
    <3>1. pipe' # <<>>
      BY <1>3, <1>5
    <3>2. CASE pipe = <<>>
      <4>1. l + 1 = 1 /\ Taken = Len(frames)
        BY <2>1, <3>2 DEF PipeShape
      <4>2. pipe'[1] = [frame |-> Len(frames) + 1, part |-> "header"]
        BY <1>5, <4>1
      <4> QED
        BY <2>1, <3>1, <4>1, <4>2 DEF IsHeader
    <3>3. CASE pipe # <<>>
      <4>1. 1 \in 1 .. l
        BY <1>3, <3>3
      <4> QED
        BY <1>5, <2>1, <2>3, <3>1, <3>3, <4>1 DEF PipeShape
    <3> QED
      BY <3>2, <3>3
  <2>9. ASSUME NEW k \in 1 .. Len(pipe'), IsHeader(k)'
        PROVE  /\ pipe'[k].frame \in Taken' + 1 .. Len(frames')
               /\ \A j \in k + 1 .. Until(k)' : j <= Len(pipe') => ~IsHeader(j)'
               /\ pipe'[k].frame < Len(frames') =>
                    /\ Until(k)' + 1 <= Len(pipe')
                    /\ IsHeader(Until(k) + 1)' /\ pipe'[Until(k)' + 1].frame = pipe'[k].frame + 1
               /\ pipe'[k].frame = Len(frames') =>
                    Len(pipe') = Until(k)' \/ (~open' /\ Len(pipe') = Until(k)' - 1)
    <3>1. CASE k \in 1 .. l /\ IsHeader(k)
      <4>1. /\ Until(k)' = Until(k) /\ Until(k) \in Nat /\ pipe[k].frame \in Taken + 1 .. Len(frames)
            /\ Until(k) <= Len(pipe) /\ pipe'[k].frame = pipe[k].frame
        BY <2>3, <2>6, <3>1
      <4>2. \A j \in k + 1 .. Until(k) : ~IsHeader(j)'
        <5>1. \A j \in k + 1 .. Until(k) : j \in 1 .. l /\ ~IsHeader(j)
          BY <1>3, <2>1, <3>1, <4>1 DEF PipeShape
        <5> QED
          BY <2>3, <5>1
      <4>3. CASE pipe[k].frame < Len(frames)
        <5>1. /\ Until(k) + 1 \in 1 .. l /\ IsHeader(Until(k) + 1)
              /\ pipe[Until(k) + 1].frame = pipe[k].frame + 1
          BY <1>3, <2>1, <3>1, <4>1, <4>3 DEF PipeShape
        <5>2. IsHeader(Until(k) + 1)' /\ pipe'[Until(k) + 1].frame = pipe[k].frame + 1
          BY <1>5, <2>3, <4>1, <5>1 DEF IsHeader
        <5> QED
          BY <1>3, <1>4, <1>5, <2>1, <4>1, <4>2, <4>3, <5>1, <5>2
      <4>4. CASE pipe[k].frame = Len(frames)
        <5>1. Until(k) = Len(pipe)
          BY <1>2, <2>1, <3>1, <4>4 DEF PipeShape
        <5>2. IsHeader(Until(k) + 1)' /\ pipe'[Until(k)' + 1].frame = pipe'[k].frame + 1
          BY <1>5, <4>1, <4>4, <5>1 DEF IsHeader
        <5> QED
          BY <1>3, <1>4, <1>5, <2>1, <4>1, <4>2, <4>4, <5>1, <5>2
      <4> QED
        BY <1>3, <2>1, <4>1, <4>3, <4>4
    <3>2. CASE k = l + 1
      <4>1. pipe'[k].frame = Len(frames) + 1 /\ Until(k)' = Len(pipe')
        BY <2>4, <2>5, <3>2
      <4>2. \A j \in k + 1 .. Len(pipe') : ~IsHeader(j)'
        BY <1>3, <1>5, <3>2 DEF IsHeader
      <4>3. Len(frames) + 1 \in Taken' + 1 .. Len(frames')
        BY <1>3, <1>4, <2>1 DEF PipeShape
      <4> QED
        BY <1>3, <1>4, <4>1, <4>2, <4>3
    <3> QED
      BY <2>2, <2>9, <3>1, <3>2
  <2>10. ASSUME NEW j \in 1 .. Len(pipe'), NEW k \in 1 .. Len(pipe'),
                IsHeader(j)', IsHeader(k)', pipe'[j].frame = pipe'[k].frame
         PROVE  j = k
    <3>1. \A i \in 1 .. l : IsHeader(i) => pipe'[i].frame # Len(frames) + 1
      BY <1>3, <2>1, <2>3, <2>6
    <3>2. \A h, i \in 1 .. l :
            IsHeader(h) /\ IsHeader(i) /\ pipe[h].frame = pipe[i].frame => h = i
      BY <2>1 DEF PipeShape
    <3> QED
      BY <2>2, <2>3, <2>4, <2>10, <3>1, <3>2
  <2>11. ASSUME NEW n \in Taken' + 1 .. Len(frames')
         PROVE  \E k \in 1 .. Len(pipe') : IsHeader(k)' /\ pipe'[k].frame = n
    <3>1. CASE n \in Taken + 1 .. Len(frames)
      <4>1. PICK k \in 1 .. l : IsHeader(k) /\ pipe[k].frame = n
        BY <2>1, <3>1 DEF PipeShape
      <4> QED
        BY <1>3, <1>5, <2>3, <4>1
    <3>2. CASE n = Len(frames) + 1
      BY <1>3, <1>5, <2>4, <3>2
    <3> QED
      BY <1>3, <1>4, <2>1, <3>1, <3>2
  <2>12. IF pipe' = <<>> THEN Taken' = Len(frames') ELSE IsHeader(1)' /\ pipe'[1].frame = Taken' + 1
    BY <2>8
  <2> QED
    BY <2>7, <2>9, <2>10, <2>11, <2>12 DEF PipeShape
<1> QED
  BY <1>2, <1>6, <1>7, <1>8 DEF BridgeIInv

(* What is left of the types when only the pipe and some of the rest move. *)
LEMMA TypesStay ==
  ASSUME BridgeTypes, UNCHANGED frames, {open', shell', kin', drained'} \subseteq BOOLEAN,
         host' \in {"reading", "waiting", "joining", "ended"},
         verdict' \in {"none", "exit", "timeout"},
         started' \subseteq 1 .. Len(frames), serving' \in 0 .. Len(frames),
         pipe' \in Seq(PipeUnits),
         answers' \in Seq([to : Nat, kind : {"pong", "error", "result", "empty"}])
  PROVE  BridgeTypes'
<1>1. DOMAIN frames = 1 .. Len(frames)
  BY DEF BridgeTypes, Bridge!BridgeTypeOK
<1> QED
  BY <1>1 DEF BridgeTypes, Bridge!BridgeTypeOK

(* A step of a process changes who is running, and nothing of the frames.  *)
LEMMA ProcessRuns ==
  ASSUME BridgeIInv,
         UNCHANGED <<frames, pipe, open, serving, answers, started, logged>>,
         {shell', kin', drained'} \subseteq BOOLEAN,
         \/ UNCHANGED <<host, verdict>>
         \/ host = "waiting" /\ host' = "joining" /\ verdict' \in {"exit", "timeout"}
  PROVE  BridgeIInv'
<1>1. host' \in {"waiting", "joining"} <=> host \in {"waiting", "joining"}
  OBVIOUS
<1>2. Taken' = Taken
  BY <1>1 DEF Taken
<1>3. BridgeTypes'
  <2>1. DOMAIN frames = 1 .. Len(frames)
    BY DEF BridgeIInv, BridgeTypes, Bridge!BridgeTypeOK
  <2>2. {open', shell', kin', drained'} \subseteq BOOLEAN
    BY Zenon DEF BridgeIInv, BridgeTypes, Bridge!BridgeTypeOK
  <2>3. host' \in {"reading", "waiting", "joining", "ended"} /\ verdict' \in {"none", "exit", "timeout"}
    BY DEF BridgeIInv, BridgeTypes, Bridge!BridgeTypeOK
  <2>4. /\ started' \subseteq 1 .. Len(frames) /\ serving' \in 0 .. Len(frames)
        /\ pipe' \in Seq(PipeUnits)
        /\ answers' \in Seq([to : Nat, kind : {"pong", "error", "result", "empty"}])
    BY <2>1 DEF BridgeIInv, BridgeTypes, Bridge!BridgeTypeOK
  <2> QED
    BY <2>2, <2>3, <2>4, TypesStay DEF BridgeIInv
<1>4. AnswerShape'
  BY <1>1, <1>2 DEF BridgeIInv, AnswerShape
<1>5. ASSUME host' # "ended" PROVE PipeShape'
  <2>1. PipeShape
    BY <1>5 DEF BridgeIInv
  <2> QED
    BY <1>2, <2>1, Zenon DEF PipeShape, IsHeader, Until
<1> QED
  BY <1>3, <1>4, <1>5 DEF BridgeIInv

(* The host ends, with whatever it is serving or has taken off the pipe.   *)
LEMMA HostEnds ==
  ASSUME BridgeIInv,
         UNCHANGED <<frames, open, serving, verdict, shell, kin, drained, answers, started, logged>>,
         pipe' \in Seq(PipeUnits), host' = "ended"
  PROVE  BridgeIInv'
<1>1. BridgeTypes'
  <2>1. DOMAIN frames = 1 .. Len(frames)
    BY DEF BridgeIInv, BridgeTypes, Bridge!BridgeTypeOK
  <2>2. {open', shell', kin', drained'} \subseteq BOOLEAN
    BY Zenon DEF BridgeIInv, BridgeTypes, Bridge!BridgeTypeOK
  <2>3. host' \in {"reading", "waiting", "joining", "ended"} /\ verdict' \in {"none", "exit", "timeout"}
    BY DEF BridgeIInv, BridgeTypes, Bridge!BridgeTypeOK
  <2>4. /\ started' \subseteq 1 .. Len(frames) /\ serving' \in 0 .. Len(frames)
        /\ pipe' \in Seq(PipeUnits)
        /\ answers' \in Seq([to : Nat, kind : {"pong", "error", "result", "empty"}])
    BY <2>1 DEF BridgeIInv, BridgeTypes, Bridge!BridgeTypeOK
  <2> QED
    BY <2>2, <2>3, <2>4, TypesStay DEF BridgeIInv
<1>2. AnswerShape'
  BY DEF BridgeIInv, AnswerShape
<1> QED
  BY <1>1, <1>2 DEF BridgeIInv

(* The pipe is closed: the last frame may lack its last unit, which is not *)
(* a header.                                                               *)
LEMMA ChromeCloses ==
  ASSUME BridgeIInv, Bridge!Closes
  PROVE  BridgeIInv'
<1>1. /\ open /\ open' = FALSE
      /\ UNCHANGED <<frames, host, serving, verdict, shell, kin, drained, answers, started, logged>>
      /\ pipe' = pipe \/ (pipe # <<>> /\ pipe' = SubSeq(pipe, 1, Len(pipe) - 1))
  BY DEF Bridge!Closes, Bridge!process
<1>2. /\ Len(pipe) \in Nat /\ Len(frames) \in Nat /\ Len(answers) \in Nat
      /\ pipe \in Seq(PipeUnits) /\ frames \in Seq(Bridge!Kinds)
  BY DEF BridgeIInv, BridgeTypes, Bridge!BridgeTypeOK
<1>3. PICK c \in {0, 1} : /\ pipe' \in Seq(PipeUnits) /\ Len(pipe') = Len(pipe) - c
                          /\ \A k \in 1 .. Len(pipe) - c : pipe'[k] = pipe[k]
                          /\ c = 1 => pipe # <<>>
  <2>1. CASE pipe' = pipe
    BY <1>2, <2>1
  <2>2. CASE pipe # <<>> /\ pipe' = SubSeq(pipe, 1, Len(pipe) - 1)
    <3>1. Len(pipe) > 0 /\ Len(pipe) - 1 \in Nat
      BY <1>2, <2>2
    <3> PICK n \in Nat : n = Len(pipe) - 1
      BY <3>1, Zenon
    <3>2. pipe' = SubSeq(pipe, 1, n)
      BY <2>2
    <3>3. /\ SubSeq(pipe, 1, n) \in Seq(PipeUnits) /\ Len(SubSeq(pipe, 1, n)) = n
          /\ \A k \in 1 .. n : SubSeq(pipe, 1, n)[k] = pipe[k]
      BY <1>2, Beginning
    <3>4. /\ pipe' \in Seq(PipeUnits) /\ Len(pipe') = Len(pipe) - 1
          /\ \A k \in 1 .. Len(pipe) - 1 : pipe'[k] = pipe[k]
      BY <2>2, <3>2, <3>3
    <3> QED
      BY <2>2, <3>4
  <2> QED
    BY <1>1, <2>1, <2>2
<1>4. BridgeTypes'
  <2>1. DOMAIN frames = 1 .. Len(frames)
    BY <1>2
  <2>2. {open', shell', kin', drained'} \subseteq BOOLEAN
    BY <1>1, Zenon DEF BridgeIInv, BridgeTypes, Bridge!BridgeTypeOK
  <2>3. host' \in {"reading", "waiting", "joining", "ended"} /\ verdict' \in {"none", "exit", "timeout"}
    BY <1>1 DEF BridgeIInv, BridgeTypes, Bridge!BridgeTypeOK
  <2>4. /\ started' \subseteq 1 .. Len(frames) /\ serving' \in 0 .. Len(frames)
        /\ answers' \in Seq([to : Nat, kind : {"pong", "error", "result", "empty"}])
    BY <1>1, <2>1 DEF BridgeIInv, BridgeTypes, Bridge!BridgeTypeOK
  <2> QED
    BY <1>1, <1>3, <2>2, <2>3, <2>4, TypesStay DEF BridgeIInv
<1>5. AnswerShape'
  BY <1>1, Zenon DEF BridgeIInv, AnswerShape, Taken
<1>6. ASSUME host # "ended" PROVE PipeShape'
  <2>1. PipeShape /\ Taken' = Taken /\ Taken \in Nat
    BY <1>1, <1>2, <1>6 DEF BridgeIInv, Taken
  <2>2. \A k \in 1 .. Len(pipe) - c : (IsHeader(k)' <=> IsHeader(k)) /\ Until(k)' = Until(k)
    BY <1>1, <1>3, Zenon DEF IsHeader, Until
  <2>3. ASSUME NEW k \in 1 .. Len(pipe), IsHeader(k)
        PROVE  /\ k < Len(pipe) /\ pipe[k].frame \in Taken + 1 .. Len(frames)
               /\ Until(k) \in Nat /\ Until(k) > k
    <3>1. Bridge!Payload(frames[pipe[k].frame]) \in {1, 2}
      BY DEF Bridge!Payload
    <3>2. Until(k) > k /\ Until(k) \in Nat
      BY <3>1 DEF Until
    <3>3. /\ pipe[k].frame \in Taken + 1 .. Len(frames)
          /\ pipe[k].frame < Len(frames) => Until(k) + 1 <= Len(pipe)
          /\ pipe[k].frame = Len(frames) => Len(pipe) = Until(k)
      BY <1>1, <2>1, <2>3 DEF PipeShape
    <3> QED
      BY <1>2, <2>1, <3>2, <3>3
  <2>4. \A k \in 1 .. Len(pipe) : IsHeader(k) => k \in 1 .. Len(pipe) - c
    BY <1>2, <2>3
  <2>5. IF pipe' = <<>> THEN Taken' = Len(frames') ELSE IsHeader(1)' /\ pipe'[1].frame = Taken' + 1
    <3>1. CASE pipe = <<>>
      <4>1. pipe' = <<>>
        BY <1>1, <3>1
      <4> QED
        BY <1>1, <2>1, <3>1, <4>1 DEF PipeShape
    <3>2. CASE pipe # <<>>
      <4>1. 1 \in 1 .. Len(pipe) /\ IsHeader(1) /\ pipe[1].frame = Taken + 1
        BY <1>2, <2>1, <3>2 DEF PipeShape
      <4>2. 1 \in 1 .. Len(pipe) - c
        BY <2>4, <4>1
      <4>3. pipe' # <<>>
        BY <1>2, <1>3, <4>2
      <4> QED
        BY <1>3, <2>1, <2>2, <4>1, <4>2, <4>3
    <3> QED
      BY <3>1, <3>2
  <2>6. ASSUME NEW k \in 1 .. Len(pipe'), IsHeader(k)'
        PROVE  /\ pipe'[k].frame \in Taken' + 1 .. Len(frames')
               /\ \A j \in k + 1 .. Until(k)' : j <= Len(pipe') => ~IsHeader(j)'
               /\ pipe'[k].frame < Len(frames') =>
                    /\ Until(k)' + 1 <= Len(pipe')
                    /\ IsHeader(Until(k) + 1)' /\ pipe'[Until(k)' + 1].frame = pipe'[k].frame + 1
               /\ pipe'[k].frame = Len(frames') =>
                    Len(pipe') = Until(k)' \/ (~open' /\ Len(pipe') = Until(k)' - 1)
    <3>1. /\ k \in 1 .. Len(pipe) - c /\ k \in 1 .. Len(pipe) /\ IsHeader(k) /\ Until(k)' = Until(k)
          /\ pipe'[k] = pipe[k]
      BY <1>2, <1>3, <2>2, <2>6
    <3>2. pipe[k].frame \in Taken + 1 .. Len(frames) /\ Until(k) \in Nat /\ Until(k) > k
      BY <2>3, <3>1
    <3>3. \A j \in k + 1 .. Until(k) : j <= Len(pipe') => ~IsHeader(j)'
      <4>1. \A j \in k + 1 .. Until(k) : j <= Len(pipe) => ~IsHeader(j)
        BY <2>1, <3>1 DEF PipeShape
      <4> QED
        BY <1>2, <1>3, <2>2, <3>1, <3>2, <4>1
    <3>4. ASSUME pipe[k].frame < Len(frames)
          PROVE  /\ Until(k) + 1 <= Len(pipe')
                 /\ IsHeader(Until(k) + 1)' /\ pipe'[Until(k)' + 1].frame = pipe[k].frame + 1
      <4> PICK u \in Nat : u = Until(k) + 1
        BY <3>2
      <4>1. u <= Len(pipe) /\ IsHeader(u) /\ pipe[u].frame = pipe[k].frame + 1
        BY <2>1, <3>1, <3>4 DEF PipeShape
      <4>2. u \in 1 .. Len(pipe)
        BY <1>2, <3>2, <4>1
      <4>3. u \in 1 .. Len(pipe) - c
        BY <2>4, <4>1, <4>2
      <4>4. IsHeader(u)' /\ pipe'[u].frame = pipe[k].frame + 1 /\ u <= Len(pipe')
        BY <1>3, <2>2, <4>1, <4>3
      <4>5. (Until(k) + 1)' = u
        BY <3>1
      <4> QED
        BY <3>1, <4>4, <4>5
    <3>5. pipe[k].frame = Len(frames) => Len(pipe') = Until(k) \/ Len(pipe') = Until(k) - 1
      <4>1. pipe[k].frame = Len(frames) => Len(pipe) = Until(k)
        BY <1>1, <2>1, <3>1 DEF PipeShape
      <4>2. Len(pipe') = Len(pipe) \/ Len(pipe') = Len(pipe) - 1
        <5>1. CASE c = 0
          BY <1>2, <1>3, <5>1
        <5>2. CASE c = 1
          BY <1>3, <5>2
        <5> QED
          BY <5>1, <5>2
      <4> QED
        BY <4>1, <4>2
    <3> QED
      BY <1>1, <2>1, <3>1, <3>2, <3>3, <3>4, <3>5
  <2>7. \A j, k \in 1 .. Len(pipe') :
          IsHeader(j)' /\ IsHeader(k)' /\ pipe'[j].frame = pipe'[k].frame => j = k
    <3>1. \A j, k \in 1 .. Len(pipe) :
            IsHeader(j) /\ IsHeader(k) /\ pipe[j].frame = pipe[k].frame => j = k
      BY <2>1 DEF PipeShape
    <3>2. \A k \in 1 .. Len(pipe') : k \in 1 .. Len(pipe) - c /\ k \in 1 .. Len(pipe)
      BY <1>2, <1>3
    <3> QED
      BY <1>3, <2>2, <3>1, <3>2
  <2>8. \A n \in Taken' + 1 .. Len(frames') :
          \E k \in 1 .. Len(pipe') : IsHeader(k)' /\ pipe'[k].frame = n
    <3>1. \A n \in Taken + 1 .. Len(frames) :
            \E k \in 1 .. Len(pipe) : IsHeader(k) /\ pipe[k].frame = n
      BY <2>1 DEF PipeShape
    <3> QED
      BY <1>1, <1>3, <2>1, <2>2, <2>4, <3>1
  <2>9. Taken' <= Len(frames')
    BY <1>1, <2>1 DEF PipeShape
  <2> QED
    BY <2>5, <2>6, <2>7, <2>8, <2>9 DEF PipeShape
<1> QED
  BY <1>1, <1>4, <1>5, <1>6 DEF BridgeIInv

(* The next frame is taken off the pipe, if all of it is there.            *)
LEMMA FrameTaken ==
  ASSUME BridgeIInv, host = "reading", Bridge!IsWhole, pipe' = Bridge!Take,
         UNCHANGED <<frames, open>>, Taken' = Taken + 1
  PROVE  /\ Bridge!Number = Len(answers) + 1 /\ Bridge!Number \in 1 .. Len(frames)
         /\ Bridge!First = frames[Bridge!Number]
         /\ pipe' \in Seq(PipeUnits)
         /\ PipeShape'
<1>1. /\ Len(pipe) \in Nat /\ Len(frames) \in Nat /\ Len(answers) \in Nat
      /\ pipe \in Seq(PipeUnits) /\ frames \in Seq(Bridge!Kinds)
  BY DEF BridgeIInv, BridgeTypes, Bridge!BridgeTypeOK
<1>2. PipeShape /\ Taken = Len(answers) /\ Taken \in Nat
  BY <1>1 DEF BridgeIInv, Taken
<1>3. /\ pipe # <<>> /\ 1 \in 1 .. Len(pipe) /\ IsHeader(1) /\ pipe[1].frame = Taken + 1
      /\ Head(pipe) = pipe[1] /\ Taken + 1 \in 1 .. Len(frames)
  <2>1. pipe # <<>>
    BY DEF Bridge!IsWhole
  <2>2. IsHeader(1) /\ pipe[1].frame = Taken + 1 /\ 1 \in 1 .. Len(pipe)
    BY <1>1, <1>2, <2>1 DEF PipeShape
  <2>3. Taken + 1 \in 1 .. Len(frames)
    BY <1>1, <1>2, <2>2 DEF PipeShape
  <2> QED
    BY <1>1, <2>1, <2>2, <2>3
<1> PICK x \in Nat : x = Until(1)
  <2>1. Bridge!Payload(frames[pipe[1].frame]) \in {1, 2}
    BY DEF Bridge!Payload
  <2> QED
    BY <2>1 DEF Until
<1>4. Bridge!Number = Taken + 1 /\ Bridge!First = frames[Taken + 1] /\ Bridge!Extent = x
  <2>1. Bridge!Unit = pipe[1] /\ Bridge!Unit.part = "header"
    BY <1>3 DEF Bridge!Unit, IsHeader
  <2>2. Bridge!Number = Taken + 1
    BY <1>3, <2>1 DEF Bridge!Number
  <2>3. Bridge!First = frames[Taken + 1]
    BY <1>3, <2>1 DEF Bridge!First
  <2>4. Bridge!Extent = Bridge!Payload(frames[Taken + 1]) + 1
    BY <2>1, <2>3 DEF Bridge!Extent
  <2>5. Until(1) = 1 + Bridge!Payload(frames[Taken + 1])
    BY <1>3 DEF Until
  <2>6. Bridge!Payload(frames[Taken + 1]) \in {1, 2}
    BY DEF Bridge!Payload
  <2> QED
    BY <2>2, <2>3, <2>4, <2>5, <2>6
<1>5. x >= 2 /\ x <= Len(pipe)
  <2>1. Bridge!Payload(frames[pipe[1].frame]) \in {1, 2}
    BY DEF Bridge!Payload
  <2> QED
    BY <1>4, <2>1 DEF Until, Bridge!IsWhole
<1>6. /\ pipe' \in Seq(PipeUnits) /\ Len(pipe') = Len(pipe) - x
      /\ \A k \in 1 .. Len(pipe) - x : pipe'[k] = pipe[k + x]
  <2>1. pipe' = SubSeq(pipe, x + 1, Len(pipe))
    BY <1>4, Zenon DEF Bridge!Take
  <2>2. \A t \in Seq(PipeUnits) :
          x <= Len(t) => /\ SubSeq(t, x + 1, Len(t)) \in Seq(PipeUnits)
                         /\ Len(SubSeq(t, x + 1, Len(t))) = Len(t) - x
                         /\ \A k \in 1 .. Len(t) - x : SubSeq(t, x + 1, Len(t))[k] = t[k + x]
    BY <1>5
  <2> QED
    BY <1>1, <1>5, <2>1, <2>2
<1>7. \A k \in 1 .. Len(pipe) - x : /\ IsHeader(k)' <=> IsHeader(k + x)
                                    /\ Until(k)' = Until(k + x) - x /\ Until(k + x) \in Nat
                                    /\ k + x \in 1 .. Len(pipe)
  <2> SUFFICES ASSUME NEW k \in 1 .. Len(pipe) - x
               PROVE  /\ IsHeader(k)' <=> IsHeader(k + x)
                      /\ Until(k)' = Until(k + x) - x /\ Until(k + x) \in Nat
                      /\ k + x \in 1 .. Len(pipe)
    OBVIOUS
  <2>1. pipe'[k] = pipe[k + x]
    BY <1>6
  <2>2. Bridge!Payload(frames[pipe[k + x].frame]) \in {1, 2}
    BY DEF Bridge!Payload
  <2>3. Until(k)' = k + Bridge!Payload(frames[pipe[k + x].frame])
    BY <2>1 DEF Until
  <2>4. Until(k + x) = k + x + Bridge!Payload(frames[pipe[k + x].frame])
    BY DEF Until
  <2>5. Until(k)' = Until(k + x) - x /\ Until(k + x) \in Nat
    BY <1>1, <1>5, <2>2, <2>3, <2>4
  <2> QED
    BY <1>1, <1>5, <2>1, <2>5 DEF IsHeader
<1>8. \A k \in 1 .. Len(pipe) : IsHeader(k) /\ k # 1 => k - x \in 1 .. Len(pipe) - x
  <2>1. \A j \in 2 .. x : j <= Len(pipe) => ~IsHeader(j)
    BY <1>2, <1>3 DEF PipeShape
  <2> QED
    BY <1>1, <1>5, <2>1
<1>9. IF pipe' = <<>> THEN Taken' = Len(frames) ELSE IsHeader(1)' /\ pipe'[1].frame = Taken' + 1
  <2>1. Taken + 1 < Len(frames) => /\ x + 1 <= Len(pipe) /\ IsHeader(x + 1)
                                   /\ pipe[x + 1].frame = Taken + 2
    BY <1>1, <1>2, <1>3 DEF PipeShape
  <2>2. Taken + 1 = Len(frames) => Len(pipe) = x
    BY <1>1, <1>2, <1>3, <1>5 DEF PipeShape
  <2>3. CASE Taken + 1 < Len(frames)
    <3>1. 1 \in 1 .. Len(pipe) - x /\ pipe' # <<>>
      BY <1>1, <1>5, <1>6, <2>1, <2>3
    <3>2. IsHeader(1)' /\ pipe'[1].frame = Taken + 2
      BY <1>5, <1>6, <2>1, <2>3, <3>1 DEF IsHeader
    <3> QED
      BY <1>2, <3>1, <3>2
  <2>4. CASE Taken + 1 = Len(frames)
    <3>1. pipe' = <<>>
      BY <1>1, <1>6, <2>2, <2>4
    <3> QED
      BY <2>4, <3>1
  <2> QED
    BY <1>1, <1>2, <1>3, <2>3, <2>4
<1>10. ASSUME NEW k \in 1 .. Len(pipe'), IsHeader(k)'
       PROVE  /\ pipe'[k].frame \in Taken' + 1 .. Len(frames')
              /\ \A j \in k + 1 .. Until(k)' : j <= Len(pipe') => ~IsHeader(j)'
              /\ pipe'[k].frame < Len(frames') =>
                   /\ Until(k)' + 1 <= Len(pipe')
                   /\ IsHeader(Until(k) + 1)' /\ pipe'[Until(k)' + 1].frame = pipe'[k].frame + 1
              /\ pipe'[k].frame = Len(frames') =>
                   Len(pipe') = Until(k)' \/ (~open' /\ Len(pipe') = Until(k)' - 1)
  <2>0. k \in Nat /\ k >= 1
    BY <1>1, <1>6
  <2> PICK l \in Nat : l = k + x
    BY <1>1, <1>6
  <2>1. /\ k \in 1 .. Len(pipe) - x /\ l \in 1 .. Len(pipe) /\ IsHeader(l) /\ pipe'[k] = pipe[l]
        /\ Until(k)' = Until(l) - x /\ Until(l) \in Nat
    BY <1>6, <1>7, <1>10
  <2>2. pipe[l].frame \in Taken + 1 .. Len(frames) /\ pipe[l].frame # Taken + 1
    <3>1. pipe[l].frame \in Taken + 1 .. Len(frames)
      BY <1>2, <2>1 DEF PipeShape
    <3>2. pipe[l].frame = Taken + 1 => l = 1
      BY <1>2, <1>3, <2>1 DEF PipeShape
    <3>3. l # 1
      BY <1>1, <1>5, <1>6
    <3> QED
      BY <3>1, <3>2, <3>3
  <2>3. \A j \in k + 1 .. Until(k)' : j <= Len(pipe') => ~IsHeader(j)'
    <3>1. \A j \in l + 1 .. Until(l) : j <= Len(pipe) => ~IsHeader(j)
      BY <1>2, <2>1 DEF PipeShape
    <3> SUFFICES ASSUME NEW j \in k + 1 .. Until(k)', j <= Len(pipe') PROVE ~IsHeader(j)'
      OBVIOUS
    <3>2. j \in Nat /\ j >= k + 1 /\ j <= Until(l) - x /\ j <= Len(pipe) - x
      BY <1>1, <1>6, <2>1
    <3>3. j \in 1 .. Len(pipe) - x
      BY <1>1, <3>2
    <3>4. j + x \in l + 1 .. Until(l)
      BY <2>1, <3>2
    <3>5. j + x <= Len(pipe)
      BY <1>1, <3>2
    <3> QED
      BY <1>7, <3>1, <3>3, <3>4, <3>5
  <2>4. ASSUME pipe[l].frame < Len(frames)
        PROVE  /\ Until(k)' + 1 <= Len(pipe')
               /\ IsHeader(Until(k) + 1)' /\ pipe'[Until(k)' + 1].frame = pipe[l].frame + 1
    <3> PICK u \in Nat : u = Until(l) + 1
      BY <2>1
    <3>1. u <= Len(pipe) /\ IsHeader(u) /\ pipe[u].frame = pipe[l].frame + 1
      BY <1>2, <2>1, <2>4 DEF PipeShape
    <3>2. u > l
      <4>1. Bridge!Payload(frames[pipe[l].frame]) \in {1, 2}
        BY DEF Bridge!Payload
      <4> QED
        BY <4>1 DEF Until
    <3> PICK v \in Int : v = u - x
      OBVIOUS
    <3>3. v > k /\ v \in Nat /\ v + x = u
      <4>1. k \in Nat
        BY <2>0
      <4> QED
        BY <3>2, <4>1
    <3>4. v \in 1 .. Len(pipe) - x
      <4>1. v <= Len(pipe) - x
        BY <1>1, <3>1, <3>3
      <4>2. k >= 1 /\ Len(pipe) - x \in Int
        BY <1>1, <1>6
      <4> QED
        BY <3>3, <4>1, <4>2
    <3>5. IsHeader(v)' /\ pipe'[v].frame = pipe[l].frame + 1 /\ v <= Len(pipe')
      <4>1. pipe'[v] = pipe[u] /\ v <= Len(pipe')
        <5>1. pipe'[v] = pipe[v + x]
          BY <1>6, <3>4
        <5>2. v <= Len(pipe')
          BY <1>6, <3>4
        <5> QED
          BY <3>3, <5>1, <5>2
      <4> QED
        BY <3>1, <4>1 DEF IsHeader
    <3>6. (Until(k) + 1)' = v
      BY <2>1, <3>3
    <3> QED
      BY <3>5, <3>6
  <2>5. pipe[l].frame = Len(frames) =>
          Len(pipe') = Until(k)' \/ (~open' /\ Len(pipe') = Until(k)' - 1)
    <3>1. pipe[l].frame = Len(frames) => Len(pipe) = Until(l) \/ (~open /\ Len(pipe) = Until(l) - 1)
      BY <1>2, <2>1 DEF PipeShape
    <3>2. Len(pipe') = Len(pipe) - x /\ Until(k)' = Until(l) - x
      BY <1>6, <2>1
    <3>3. Len(pipe) = Until(l) => Len(pipe') = Until(k)'
      BY <3>2
    <3>4. Len(pipe) = Until(l) - 1 => Len(pipe') = Until(k)' - 1
      BY <2>1, <3>2
    <3> QED
      BY <3>1, <3>3, <3>4
  <2>6. Taken' = Taken + 1 /\ Len(frames') = Len(frames) /\ pipe'[k] = pipe[l]
    BY <2>1
  <2>7. pipe[l].frame \in Taken' + 1 .. Len(frames)
    BY <1>1, <1>2, <2>2, <2>6
  <2> QED
    BY <2>3, <2>4, <2>5, <2>6, <2>7
<1>11. \A j, k \in 1 .. Len(pipe') :
         IsHeader(j)' /\ IsHeader(k)' /\ pipe'[j].frame = pipe'[k].frame => j = k
  <2> SUFFICES ASSUME NEW j \in 1 .. Len(pipe'), NEW k \in 1 .. Len(pipe'),
                      IsHeader(j)', IsHeader(k)', pipe'[j].frame = pipe'[k].frame
               PROVE  j = k
    OBVIOUS
  <2>1. /\ j + x \in 1 .. Len(pipe) /\ IsHeader(j + x) /\ pipe'[j] = pipe[j + x]
        /\ k + x \in 1 .. Len(pipe) /\ IsHeader(k + x) /\ pipe'[k] = pipe[k + x]
    BY <1>6, <1>7
  <2>2. j + x = k + x
    BY <1>2, <2>1 DEF PipeShape
  <2> QED
    BY <1>1, <1>6, <2>2
<1>12. \A n \in Taken' + 1 .. Len(frames') :
         \E k \in 1 .. Len(pipe') : IsHeader(k)' /\ pipe'[k].frame = n
  <2> SUFFICES ASSUME NEW n \in Taken' + 1 .. Len(frames')
               PROVE  \E k \in 1 .. Len(pipe') : IsHeader(k)' /\ pipe'[k].frame = n
    OBVIOUS
  <2>1. n \in Taken + 1 .. Len(frames) /\ n # Taken + 1
    BY <1>1, <1>2
  <2>2. PICK l \in 1 .. Len(pipe) : IsHeader(l) /\ pipe[l].frame = n
    BY <1>2, <2>1 DEF PipeShape
  <2>3. l - x \in 1 .. Len(pipe) - x /\ (l - x) + x = l
    BY <1>1, <1>3, <1>5, <1>8, <2>1, <2>2
  <2>4. PICK k \in 1 .. Len(pipe) - x : k + x = l
    BY <2>3
  <2>5. IsHeader(k)' /\ pipe'[k].frame = n /\ k \in 1 .. Len(pipe')
    BY <1>6, <1>7, <2>2, <2>4
  <2> QED
    BY <2>5
<1>13. Taken' <= Len(frames')
  BY <1>2, <1>3
<1> QED
  BY <1>2, <1>3, <1>4, <1>6, <1>9, <1>10, <1>11, <1>12, <1>13 DEF PipeShape

(* A frame is taken and answered, with or without a command.               *)
LEMMA HostReads ==
  ASSUME BridgeIInv, Bridge!Reads
  PROVE  BridgeIInv'
<1>1. /\ host = "reading" /\ Bridge!IsWhole /\ pipe' = Bridge!Take /\ UNCHANGED <<frames, open>>
      /\ Bridge!Refuses \/ Bridge!SpawnFails \/ Bridge!Spawns
  BY Zenon DEF Bridge!Reads
<1> DEFINE n == Bridge!Number
           Kinds == {"pong", "error", "result", "empty"}
<1>2. /\ Len(frames) \in Nat /\ Len(answers) \in Nat /\ Taken = Len(answers)
      /\ answers \in Seq([to : Nat, kind : Kinds]) /\ DOMAIN frames = 1 .. Len(frames)
      /\ started \subseteq 1 .. Len(frames) /\ serving \in 0 .. Len(frames)
      /\ verdict \in {"none", "exit", "timeout"}
  BY <1>1 DEF BridgeIInv, BridgeTypes, Bridge!BridgeTypeOK, Taken
<1>3. {open, shell, kin, drained} \subseteq BOOLEAN
  BY Zenon DEF BridgeIInv, BridgeTypes, Bridge!BridgeTypeOK
<1>4. ASSUME NEW kind \in {"pong", "error"}, NEW entry,
             answers' = Append(answers, [to |-> n, kind |-> kind]),
             logged' \in {logged, logged \cup {[frame |-> n, outcome |-> entry]}},
             entry \notin {"exit", "timeout"},
             UNCHANGED <<host, serving, verdict, shell, kin, drained, started>>
      PROVE  BridgeIInv'
  <2>1. [to |-> n, kind |-> kind] \in [to : Nat, kind : Kinds] \/ n \notin Nat
    BY <1>4
  <2>2. Len(answers') = Len(answers) + 1
    BY <1>2, <1>4
  <2>3. Taken' = Taken + 1
    BY <1>1, <1>2, <1>4, <2>2 DEF Taken
  <2>4. n = Len(answers) + 1 /\ n \in 1 .. Len(frames) /\ pipe' \in Seq(PipeUnits) /\ PipeShape'
    BY <1>1, <2>3, FrameTaken
  <2> HIDE DEF n
  <2>5. /\ answers' \in Seq([to : Nat, kind : Kinds])
        /\ \A k \in 1 .. Len(answers) : answers'[k] = answers[k]
        /\ answers'[Len(answers) + 1] = [to |-> n, kind |-> kind]
    BY <1>2, <1>4, <2>1, <2>4
  <2>6. BridgeTypes'
    <3>1. {open', shell', kin', drained'} \subseteq BOOLEAN
      BY <1>1, <1>3, <1>4, Zenon
    <3> QED
      BY <1>1, <1>2, <1>4, <2>4, <2>5, <3>1, TypesStay DEF BridgeIInv
  <2>7. AnswerShape'
    <3>1. n \notin started
      BY <1>1, <1>2, <2>4 DEF BridgeIInv, AnswerShape
    <3>2. \A k \in started : k <= Len(answers) + 1
      BY <1>1, <1>2 DEF BridgeIInv, AnswerShape
    <3>3. ASSUME NEW k \in 1 .. Len(answers')
          PROVE  answers'[k].to = k /\ (answers'[k].kind \in {"result", "empty"} => k \in started)
      <4>1. CASE k \in 1 .. Len(answers)
        BY <2>5, <4>1 DEF BridgeIInv, AnswerShape
      <4>2. CASE k = Len(answers) + 1
        BY <2>4, <2>5, <4>2
      <4> QED
        BY <1>2, <2>2, <4>1, <4>2
    <3>4. ASSUME NEW e \in logged'
          PROVE  /\ e.frame \in 1 .. Len(answers')
                 /\ e.frame \in started <=> e.outcome \in {"exit", "timeout"}
      <4>1. CASE e \in logged
        <5>1. /\ e.frame \in 1 .. Len(answers)
              /\ e.frame \in started <=> e.outcome \in {"exit", "timeout"}
          BY <4>1 DEF BridgeIInv, AnswerShape
        <5> QED
          BY <1>2, <2>2, <5>1
      <4>2. CASE e = [frame |-> n, outcome |-> entry]
        BY <1>2, <1>4, <2>2, <2>4, <3>1, <4>2
      <4> QED
        BY <1>4, <4>1, <4>2
    <3> QED
      BY <1>1, <1>4, <2>2, <2>3, <3>2, <3>3, <3>4, <1>2 DEF AnswerShape
  <2> QED
    BY <2>4, <2>6, <2>7 DEF BridgeIInv
<1>5. CASE Bridge!Refuses
  <2>1. /\ UNCHANGED <<host, serving, verdict, shell, kin, drained, started>>
        /\ \/ answers' = Append(answers, [to |-> n, kind |-> "pong"])
           \/ answers' = Append(answers, [to |-> n, kind |-> "error"])
        /\ logged' \in {logged, logged \cup {[frame |-> n, outcome |-> "refused"]}}
    BY <1>5, Zenon DEF Bridge!Refuses, Bridge!Answer, Bridge!Audit, Bridge!process
  <2>2. "refused" \notin {"exit", "timeout"} /\ "pong" \in {"pong", "error"} /\ "error" \in {"pong", "error"}
    OBVIOUS
  <2> HIDE DEF n
  <2> QED
    BY <1>4, <2>1, <2>2, Zenon
<1>6. CASE Bridge!SpawnFails
  <2>1. /\ UNCHANGED <<host, serving, verdict, shell, kin, drained, started>>
        /\ answers' = Append(answers, [to |-> n, kind |-> "error"])
        /\ logged' \in {logged, logged \cup {[frame |-> n, outcome |-> "spawn_failed"]}}
    BY <1>6, Zenon DEF Bridge!SpawnFails, Bridge!Answer, Bridge!Audit, Bridge!process
  <2>2. "spawn_failed" \notin {"exit", "timeout"} /\ "pong" \in {"pong", "error"} /\ "error" \in {"pong", "error"}
    OBVIOUS
  <2> HIDE DEF n
  <2> QED
    BY <1>4, <2>1, <2>2, Zenon
<1>7. CASE Bridge!Spawns
  <2>1. /\ host' = "waiting" /\ serving' = n /\ verdict' = "none" /\ started' = started \cup {n}
        /\ UNCHANGED <<answers, logged>>
    BY <1>7, Zenon DEF Bridge!Spawns
  <2>2. shell' = TRUE /\ kin' = FALSE /\ drained' = FALSE
    BY <1>7, Zenon DEF Bridge!Spawns
  <2>3. Taken' = Taken + 1
    BY <1>1, <1>2, <2>1 DEF Taken
  <2>4. n = Len(answers) + 1 /\ n \in 1 .. Len(frames) /\ pipe' \in Seq(PipeUnits) /\ PipeShape'
    BY <1>1, <2>3, FrameTaken
  <2> HIDE DEF n
  <2>5. BridgeTypes'
    <3>1. {open', shell', kin', drained'} \subseteq BOOLEAN
      BY <1>1, <1>3, <2>2, Zenon
    <3>2. /\ started' \subseteq 1 .. Len(frames) /\ serving' \in 0 .. Len(frames)
          /\ host' \in {"reading", "waiting", "joining", "ended"}
          /\ verdict' \in {"none", "exit", "timeout"}
          /\ answers' \in Seq([to : Nat, kind : {"pong", "error", "result", "empty"}])
      <4>1. started' \subseteq 1 .. Len(frames)
        BY <1>2, <2>1, <2>4, Zenon
      <4>2. serving' \in 0 .. Len(frames)
        BY <1>2, <2>1, <2>4
      <4>3. host' \in {"reading", "waiting", "joining", "ended"} /\ verdict' \in {"none", "exit", "timeout"}
        BY <2>1
      <4>4. answers' \in Seq([to : Nat, kind : {"pong", "error", "result", "empty"}])
        BY <1>2, <2>1, Zenon
      <4> QED
        BY <4>1, <4>2, <4>3, <4>4, Zenon
    <3>3. BridgeTypes /\ UNCHANGED frames
      BY <1>1 DEF BridgeIInv
    <3> QED
      BY <2>4, <3>1, <3>2, <3>3, TypesStay, Zenon
  <2>6. AnswerShape'
    <3>1. \A e \in logged : e.frame # n
      BY <1>2, <2>4 DEF BridgeIInv, AnswerShape
    <3>2. \A k \in started' : k <= Taken'
      BY <1>1, <1>2, <2>1, <2>3, <2>4 DEF BridgeIInv, AnswerShape
    <3>3. /\ \A k \in 1 .. Len(answers) :
               answers[k].to = k /\ (answers[k].kind \in {"result", "empty"} => k \in started)
          /\ \A e \in logged : /\ e.frame \in 1 .. Len(answers)
                               /\ e.frame \in started <=> e.outcome \in {"exit", "timeout"}
      BY DEF BridgeIInv, AnswerShape
    <3> QED
      BY <1>2, <2>1, <2>4, <3>1, <3>2, <3>3 DEF AnswerShape
  <2> QED
    BY <2>4, <2>5, <2>6 DEF BridgeIInv
<1> QED
  BY <1>1, <1>5, <1>6, <1>7

(* An exception escapes while a frame is served.                           *)
LEMMA HostBreaks ==
  ASSUME BridgeIInv, Bridge!Escapes
  PROVE  BridgeIInv'
<1>1. /\ UNCHANGED <<frames, open, serving, verdict, shell, kin, drained, answers, started, logged>>
      /\ host' = "ended"
      /\ \/ host = "reading" /\ Bridge!IsWhole /\ pipe' = Bridge!Take
         \/ UNCHANGED pipe
  BY Zenon DEF Bridge!Escapes, Bridge!process
<1>2. pipe \in Seq(PipeUnits)
  BY DEF BridgeIInv, BridgeTypes
<1>3. pipe' \in Seq(PipeUnits)
  <2>1. CASE Bridge!IsWhole /\ pipe' = Bridge!Take
    <3>1. Bridge!Extent \in Nat /\ Bridge!Extent <= Len(pipe)
      BY <1>2, <2>1 DEF Bridge!IsWhole, Bridge!Extent, Bridge!Payload
    <3>2. pipe' = SubSeq(pipe, Bridge!Extent + 1, Len(pipe))
      BY <2>1, Zenon DEF Bridge!Take
    <3>3. Len(pipe) \in Nat
      BY <1>2
    <3> QED
      BY <1>2, <3>1, <3>2, <3>3, Subsequence
  <2> QED
    BY <1>1, <1>2, <2>1
<1> QED
  BY <1>1, <1>3, HostEnds, Zenon

(* The command that is served is answered.                                 *)
LEMMA CommandAnswered ==
  ASSUME BridgeIInv, Bridge!Joins
  PROVE  BridgeIInv'
<1> DEFINE Kinds == {"pong", "error", "result", "empty"}
<1>1. /\ host = "joining" /\ host' = "reading"
      /\ UNCHANGED <<frames, pipe, open, serving, verdict, shell, kin, drained, started>>
      /\ logged' \in {logged, logged \cup {[frame |-> serving, outcome |-> verdict]}}
  BY Zenon DEF Bridge!Joins, Bridge!Audit, Bridge!process
<1>2. PICK kind \in {"error", "result", "empty"} :
        answers' = Append(answers, [to |-> serving, kind |-> kind])
  BY Zenon DEF Bridge!Joins, Bridge!Answer
<1>3. /\ Len(frames) \in Nat /\ Len(answers) \in Nat /\ Taken = Len(answers) + 1
      /\ answers \in Seq([to : Nat, kind : Kinds]) /\ DOMAIN frames = 1 .. Len(frames)
      /\ started \subseteq 1 .. Len(frames) /\ serving \in 0 .. Len(frames)
      /\ verdict \in {"none", "exit", "timeout"} /\ pipe \in Seq(PipeUnits)
  BY <1>1 DEF BridgeIInv, BridgeTypes, Bridge!BridgeTypeOK, Taken
<1>4. serving = Len(answers) + 1 /\ serving \in started /\ verdict \in {"exit", "timeout"}
  BY <1>1 DEF BridgeIInv, AnswerShape
<1>5. /\ answers' \in Seq([to : Nat, kind : Kinds]) /\ Len(answers') = Len(answers) + 1
      /\ \A k \in 1 .. Len(answers) : answers'[k] = answers[k]
      /\ answers'[Len(answers) + 1] = [to |-> serving, kind |-> kind]
  <2>1. [to |-> serving, kind |-> kind] \in [to : Nat, kind : Kinds]
    BY <1>3
  <2> QED
    BY <1>2, <1>3, <2>1
<1>6. Taken' = Taken
  BY <1>1, <1>3, <1>5 DEF Taken
<1>7. BridgeTypes'
  <2>1. {open', shell', kin', drained'} \subseteq BOOLEAN
    BY <1>1, Zenon DEF BridgeIInv, BridgeTypes, Bridge!BridgeTypeOK
  <2> QED
    BY <1>1, <1>3, <1>5, <2>1, TypesStay DEF BridgeIInv
<1>8. AnswerShape'
  <2>1. ASSUME NEW k \in 1 .. Len(answers')
        PROVE  answers'[k].to = k /\ (answers'[k].kind \in {"result", "empty"} => k \in started)
    <3>1. CASE k \in 1 .. Len(answers)
      BY <1>5, <3>1 DEF BridgeIInv, AnswerShape
    <3>2. CASE k = Len(answers) + 1
      BY <1>4, <1>5, <3>2
    <3> QED
      BY <1>3, <1>5, <3>1, <3>2
  <2>2. ASSUME NEW e \in logged'
        PROVE  /\ e.frame \in 1 .. Len(answers')
               /\ e.frame \in started <=> e.outcome \in {"exit", "timeout"}
    <3>1. CASE e \in logged
      <4>1. /\ e.frame \in 1 .. Len(answers)
            /\ e.frame \in started <=> e.outcome \in {"exit", "timeout"}
        BY <3>1 DEF BridgeIInv, AnswerShape
      <4> QED
        BY <1>3, <1>5, <4>1
    <3>2. CASE e = [frame |-> serving, outcome |-> verdict]
      BY <1>3, <1>4, <1>5, <3>2
    <3> QED
      BY <1>1, <3>1, <3>2
  <2>3. \A k \in started : k <= Taken
    BY <1>1 DEF BridgeIInv, AnswerShape
  <2> QED
    BY <1>1, <1>6, <2>1, <2>2, <2>3 DEF AnswerShape
<1>9. PipeShape'
  <2>1. PipeShape
    BY <1>1 DEF BridgeIInv
  <2> QED
    BY <1>1, <1>6, <2>1, Zenon DEF PipeShape, IsHeader, Until
<1> QED
  BY <1>7, <1>8, <1>9 DEF BridgeIInv

LEMMA BridgeStepKeeps ==
  ASSUME BridgeIInv, [Bridge!BridgeNext]_bridgeVars
  PROVE  BridgeIInv'
<1>1. {open, shell, kin, drained} \subseteq BOOLEAN
  BY Zenon DEF BridgeIInv, BridgeTypes, Bridge!BridgeTypeOK
<1>2. CASE Bridge!Sends
  BY <1>2, ChromeSends
<1>3. CASE Bridge!Closes
  BY <1>3, ChromeCloses
<1>4. CASE Bridge!Ends \/ Bridge!ReadsTheEnd
  <2>1. /\ UNCHANGED <<frames, pipe, open, serving, verdict, shell, kin, drained, answers, started,
                       logged>>
        /\ host' = "ended"
    BY <1>4, Zenon DEF Bridge!Ends, Bridge!ReadsTheEnd, Bridge!process
  <2>2. pipe' \in Seq(PipeUnits)
    BY <2>1, Zenon DEF BridgeIInv, BridgeTypes
  <2> QED
    BY <2>1, <2>2, HostEnds, Zenon
<1>5. CASE Bridge!Reads
  BY <1>5, HostReads
<1>6. CASE Bridge!ShellExits \/ Bridge!KinExits \/ Bridge!OutputEnds
  <2>1. UNCHANGED <<frames, pipe, open, host, serving, verdict, answers, started, logged>>
    BY <1>6, Zenon DEF Bridge!ShellExits, Bridge!KinExits, Bridge!OutputEnds
  <2>2. {shell', kin', drained'} \subseteq BOOLEAN
    BY <1>1, <1>6, Zenon DEF Bridge!ShellExits, Bridge!KinExits, Bridge!OutputEnds
  <2> QED
    BY <2>1, <2>2, ProcessRuns, Zenon
<1>7. CASE Bridge!WaitReturns \/ Bridge!WaitTimesOut
  <2>1. /\ UNCHANGED <<frames, pipe, open, serving, answers, started, logged>>
        /\ host = "waiting" /\ host' = "joining" /\ verdict' \in {"exit", "timeout"}
    BY <1>7, Zenon DEF Bridge!WaitReturns, Bridge!WaitTimesOut
  <2>2. {shell', kin', drained'} \subseteq BOOLEAN
    BY <1>1, <1>7, Zenon DEF Bridge!WaitReturns, Bridge!WaitTimesOut
  <2> QED
    BY <2>1, <2>2, ProcessRuns, Zenon
<1>8. CASE Bridge!Joins
  BY <1>8, CommandAnswered
<1>9. CASE Bridge!Escapes
  BY <1>9, HostBreaks
<1>10. CASE UNCHANGED bridgeVars
  <2>1. UNCHANGED <<frames, pipe, open, host, serving, verdict, shell, kin, drained, answers, started,
                    logged>>
    BY <1>10, Zenon DEF bridgeVars
  <2>2. {shell', kin', drained'} \subseteq BOOLEAN
    BY <1>1, <2>1, Zenon
  <2> QED
    BY <2>1, <2>2, ProcessRuns, Zenon
<1> QED
  BY <1>2, <1>3, <1>4, <1>5, <1>6, <1>7, <1>8, <1>9, <1>10, Zenon
     DEF Bridge!BridgeNext

-----------------------------------------------------------------------------
(* The side panel.                                                         *)

Messages == [from : {"user", "assistant"}, calls : Nat, answers : Nat]

(* A conversation between two rounds: each call has its result.            *)
Neat(h) ==
  /\ h \in Seq(Messages)
  /\ h # <<>> => Panel!IsPrompt(h[1])
  /\ Panel!ResultsFollowCalls(h) /\ Panel!CallsAreAnswered(h)

UserIsLast(h) == h # <<>> /\ h[Len(h)].from = "user"

(* In a round of tools the last reply waits for its results.               *)
InRound(h, c) == \E g \in Seq(Messages) : Neat(g) /\ g # <<>> /\ h = Append(g, Panel!Reply(c))

LEMMA NeatSelection ==
  ASSUME NEW h, Neat(h)
  PROVE  /\ h \in Seq(Messages) /\ Len(h) \in Nat /\ DOMAIN h = 1 .. Len(h)
         /\ \A k \in 1 .. Len(h) :
              /\ h[k] \in Messages /\ h[k].calls \in Nat /\ h[k].answers \in Nat
              /\ h[k].answers # 0 => k > 1 /\ h[k - 1].calls = h[k].answers
              /\ h[k].calls # 0 => k < Len(h) /\ h[k + 1].answers = h[k].calls
<1>1. h \in Seq(Messages)
  BY DEF Neat
<1>2. \A k \in 1 .. Len(h) : h[k] \in Messages
  BY <1>1
<1>3. \A m \in Messages : m.calls \in Nat /\ m.answers \in Nat
  BY DEF Messages
<1> QED
  BY <1>1, <1>2, <1>3 DEF Neat, Panel!ResultsFollowCalls, Panel!CallsAreAnswered

(* A message that neither calls nor answers keeps a conversation neat.     *)
LEMMA NeatAppend ==
  ASSUME NEW h, Neat(h), NEW m \in Messages, m.calls = 0, m.answers = 0,
         h = <<>> => m.from = "user"
  PROVE  Neat(Append(h, m))
<1> DEFINE e == Append(h, m)
<1>1. /\ e \in Seq(Messages) /\ Len(e) = Len(h) + 1 /\ e # <<>>
      /\ e[Len(h) + 1] = m /\ \A k \in 1 .. Len(h) : e[k] = h[k]
  BY NeatSelection
<1>2. Panel!IsPrompt(e[1])
  <2>1. CASE h = <<>>
    BY <1>1, <2>1 DEF Panel!IsPrompt
  <2>2. CASE h # <<>>
    <3>1. Len(h) >= 1
      BY <2>2, NeatSelection
    <3> QED
      BY <1>1, <2>2, <3>1 DEF Neat
  <2> QED
    BY <2>1, <2>2
<1>3. ASSUME NEW k \in 1 .. Len(e)
      PROVE  /\ e[k].answers # 0 => k > 1 /\ e[k - 1].calls = e[k].answers
             /\ e[k].calls # 0 => k < Len(e) /\ e[k + 1].answers = e[k].calls
  <2>1. CASE k = Len(h) + 1
    BY <1>1, <2>1
  <2>2. CASE k \in 1 .. Len(h)
    <3>1. /\ h[k].answers # 0 => k > 1 /\ h[k - 1].calls = h[k].answers
          /\ h[k].calls # 0 => k < Len(h) /\ h[k + 1].answers = h[k].calls
      BY <2>2, NeatSelection
    <3>2. k > 1 => e[k - 1] = h[k - 1]
      BY <1>1, <2>2, NeatSelection
    <3>3. k < Len(h) => e[k + 1] = h[k + 1]
      BY <1>1, <2>2, NeatSelection
    <3> QED
      BY <1>1, <2>2, <3>1, <3>2, <3>3, NeatSelection
  <2> QED
    BY <1>1, <2>1, <2>2, NeatSelection
<1> QED
  BY <1>1, <1>2, <1>3 DEF Neat, Panel!ResultsFollowCalls, Panel!CallsAreAnswered

(* A reply with calls and its results keep it neat.                        *)
LEMMA NeatRound ==
  ASSUME NEW g, Neat(g), g # <<>>, NEW c \in Nat
  PROVE  Neat(Append(Append(g, Panel!Reply(c)), Panel!Results(c)))
<1> DEFINE n == Len(g)
           e == Append(Append(g, Panel!Reply(c)), Panel!Results(c))
<1>1. /\ Panel!Reply(c) \in Messages /\ Panel!Results(c) \in Messages
      /\ Panel!Reply(c).calls = c /\ Panel!Reply(c).answers = 0
      /\ Panel!Results(c).calls = 0 /\ Panel!Results(c).answers = c
  BY DEF Panel!Reply, Panel!Results, Messages
<1>2. n \in Nat /\ n >= 1
  BY NeatSelection
<1>3. /\ e \in Seq(Messages) /\ Len(e) = n + 2 /\ e # <<>>
      /\ e[n + 1] = Panel!Reply(c) /\ e[n + 2] = Panel!Results(c)
      /\ \A k \in 1 .. n : e[k] = g[k]
  BY <1>1, NeatSelection
<1>4. Panel!IsPrompt(e[1])
  BY <1>2, <1>3 DEF Neat
<1>5. ASSUME NEW k \in 1 .. n + 2
      PROVE  /\ e[k].answers # 0 => k > 1 /\ e[k - 1].calls = e[k].answers
             /\ e[k].calls # 0 => k < n + 2 /\ e[k + 1].answers = e[k].calls
  <2>1. CASE k = n + 1
    BY <1>1, <1>2, <1>3, <2>1
  <2>2. CASE k = n + 2
    BY <1>1, <1>2, <1>3, <2>2
  <2>3. CASE k \in 1 .. n
    <3>1. /\ g[k].answers # 0 => k > 1 /\ g[k - 1].calls = g[k].answers
          /\ g[k].calls # 0 => k < n /\ g[k + 1].answers = g[k].calls
      BY <2>3, NeatSelection
    <3>2. (k > 1 => e[k - 1] = g[k - 1]) /\ (k < n => e[k + 1] = g[k + 1]) /\ e[k] = g[k]
      BY <1>2, <1>3, <2>3
    <3> QED
      BY <1>2, <2>3, <3>1, <3>2
  <2> QED
    BY <1>2, <2>1, <2>2, <2>3
<1> QED
  BY <1>3, <1>4, <1>5 DEF Neat, Panel!ResultsFollowCalls, Panel!CallsAreAnswered

(* What is left from a prompt on is neat too.                              *)
LEMMA NeatFrom ==
  ASSUME NEW h, Neat(h), h # <<>>, NEW p \in Panel!Prompts(h) \cup {1}
  PROVE  Neat(Panel!From(h, p)) /\ Panel!From(h, p) # <<>>
<1> DEFINE e == Panel!From(h, p)
           n == Len(h) - p + 1
<1>1. Len(h) \in Nat /\ Len(h) >= 1
  BY NeatSelection
<1>2. p \in 1 .. Len(h) /\ Panel!IsPrompt(h[p])
  BY <1>1 DEF Panel!Prompts, Neat
<1>3. /\ e \in Seq(Messages) /\ Len(e) = n /\ n \in Nat /\ n >= 1 /\ e # <<>>
      /\ \A k \in 1 .. n : e[k] = h[k + p - 1]
  <2>1. e = [k \in 1 .. n |-> h[k + p - 1]]
    BY <1>1, <1>2, NeatSelection DEF Panel!From
  <2>2. n \in Nat /\ n >= 1
    BY <1>1, <1>2
  <2>3. \A k \in 1 .. n : h[k + p - 1] \in Messages
    BY <1>1, <1>2, NeatSelection
  <2> HIDE DEF e
  <2>4. e \in Seq(Messages) /\ Len(e) = n
    BY <2>1, <2>2, <2>3
  <2> QED
    BY <2>1, <2>2, <2>4
<1>4. Panel!IsPrompt(e[1])
  BY <1>2, <1>3
<1>5. ASSUME NEW k \in 1 .. n
      PROVE  /\ e[k].answers # 0 => k > 1 /\ e[k - 1].calls = e[k].answers
             /\ e[k].calls # 0 => k < n /\ e[k + 1].answers = e[k].calls
  <2> PICK l \in 1 .. Len(h) : l = k + p - 1
    BY <1>1, <1>2
  <2>1. /\ h[l].answers # 0 => l > 1 /\ h[l - 1].calls = h[l].answers
        /\ h[l].calls # 0 => l < Len(h) /\ h[l + 1].answers = h[l].calls
    BY NeatSelection
  <2>2. e[k] = h[l] /\ (k > 1 => e[k - 1] = h[l - 1]) /\ (k < n => e[k + 1] = h[l + 1])
    BY <1>1, <1>2, <1>3
  <2>3. k = 1 => e[k].answers = 0
    BY <1>4 DEF Panel!IsPrompt
  <2>4. (l > 1 /\ k # 1 => k > 1) /\ (l < Len(h) <=> k < n)
    BY <1>1, <1>2
  <2> QED
    BY <2>1, <2>2, <2>3, <2>4
<1> QED
  BY <1>3, <1>4, <1>5 DEF Neat, Panel!ResultsFollowCalls, Panel!CallsAreAnswered

LEMMA NeatNothing == Neat(<<>>)
BY DEF Neat, Panel!ResultsFollowCalls, Panel!CallsAreAnswered

LEMMA NeatTrimmed ==
  ASSUME NEW h, Neat(h), h # <<>>, NEW s \in Panel!Trimmed(h)
  PROVE  Neat(s)
<1>1. s = <<>> \/ \E p \in Panel!Prompts(h) \cup {1} : s = Panel!From(h, p)
  BY DEF Panel!Trimmed
<1> QED
  BY <1>1, NeatFrom, NeatNothing

(* The invariant of the panel.                                             *)
HistoryShape ==
  ~cleared =>
    IF at \in {"approving", "acting"} THEN InRound(history, replies)
    ELSE Neat(history) /\ (at \in {"pinning", "requesting"} => UserIsLast(history))

SavedShape == ~savedCleared => Neat(saved)

(* A round is under the limit, and a call that waits is one of those left; *)
(* a turn that was stopped waits for no approval.                          *)
RoundShape ==
  /\ replies \in Nat
  /\ at \in {"requesting", "approving", "acting"} => round < MaxRounds
  /\ at \in {"approving", "acting"} => left \in 1 .. MaxCalls
  /\ at = "approving" => ~aborted

PanelIInv == Panel!PanelTypeOK /\ RoundShape /\ SavedShape /\ HistoryShape

(* What the turns have in common: the panel's own part of a step.          *)
TurnFlags ==
  /\ aborted \in BOOLEAN /\ card \in BOOLEAN /\ timer \in BOOLEAN
  /\ card => at = "approving"
  /\ at = "approving" => ~aborted

TurnPlace ==
  /\ at \in {"idle", "pinning", "requesting", "approving", "acting"}
  /\ round \in 0 .. MaxRounds /\ left \in 0 .. MaxCalls
  /\ at \in {"requesting", "approving", "acting"} => round < MaxRounds
  /\ at \in {"approving", "acting"} => left \in 1 .. MaxCalls

TurnTypes == TurnFlags /\ TurnPlace

RestTypes ==
  /\ pinned \in BOOLEAN /\ cleared \in BOOLEAN /\ savedCleared \in BOOLEAN
  /\ sends \in 0 .. MaxSends /\ replies \in Nat

LEMMA PanelParts == PanelIInv <=> TurnTypes /\ RestTypes /\ SavedShape /\ HistoryShape
<1>1. {aborted, card, timer, pinned, cleared, savedCleared} \subseteq BOOLEAN
        <=> /\ aborted \in BOOLEAN /\ card \in BOOLEAN /\ timer \in BOOLEAN
            /\ pinned \in BOOLEAN /\ cleared \in BOOLEAN /\ savedCleared \in BOOLEAN
  OBVIOUS
<1> QED
  BY <1>1 DEF PanelIInv, Panel!PanelTypeOK, RoundShape, TurnTypes, TurnFlags, TurnPlace,
             RestTypes

LEMMA PanelPartsNext ==
  PanelIInv' <=> TurnTypes' /\ RestTypes' /\ SavedShape' /\ HistoryShape'
<1>1. {aborted', card', timer', pinned', cleared', savedCleared'} \subseteq BOOLEAN
        <=> /\ aborted' \in BOOLEAN /\ card' \in BOOLEAN /\ timer' \in BOOLEAN
            /\ pinned' \in BOOLEAN /\ cleared' \in BOOLEAN /\ savedCleared' \in BOOLEAN
  OBVIOUS
<1> QED
  BY <1>1 DEF PanelIInv, Panel!PanelTypeOK, RoundShape, TurnTypes, TurnFlags, TurnPlace,
             RestTypes

(* A turn that goes on, or ends.                                           *)
LEMMA TurnEnds ==
  ASSUME NEW h, Panel!Ends(h)
  PROVE  TurnTypes' /\ history' = h /\ at' = "idle"
<1>1. TurnFlags'
  BY Zenon DEF Panel!Ends, TurnFlags
<1>2. TurnPlace' /\ history' = h /\ at' = "idle"
  BY PanelAssumption DEF Panel!Ends, TurnPlace
<1> QED
  BY <1>1, <1>2 DEF TurnTypes

LEMMA TurnContinues ==
  ASSUME TurnTypes, NEW h, NEW r \in 0 .. MaxRounds, NEW stopped \in BOOLEAN,
         Panel!Continue(h, r, stopped)
  PROVE  TurnTypes' /\ history' = h /\ at' \in {"idle", "requesting"}
         /\ (stopped => at' = "idle")
<1>1. CASE stopped \/ r = MaxRounds
  <2>1. Panel!Ends(h)
    BY <1>1, Zenon DEF Panel!Continue
  <2> QED
    BY <2>1, TurnEnds
<1>2. CASE ~(stopped \/ r = MaxRounds)
  <2>1. /\ history' = h /\ at' = "requesting" /\ round' = r /\ left' = 0 /\ card' = FALSE
        /\ aborted' = aborted /\ timer' = timer /\ r # MaxRounds /\ ~stopped
    BY <1>2, Zenon DEF Panel!Continue
  <2>2. TurnFlags'
    <3>1. aborted \in BOOLEAN /\ timer \in BOOLEAN
      BY Zenon DEF TurnTypes, TurnFlags
    <3>2. at' # "approving"
      BY <2>1
    <3> QED
      BY <2>1, <3>1, <3>2, Zenon DEF TurnFlags
  <2>3. TurnPlace'
    <3>1. r < MaxRounds
      BY <2>1, PanelAssumption
    <3> QED
      BY <2>1, <3>1, PanelAssumption DEF TurnPlace
  <2> QED
    BY <2>1, <2>2, <2>3 DEF TurnTypes
<1> QED
  BY <1>1, <1>2

LEMMA TurnCalls ==
  ASSUME TurnTypes, NEW h, NEW n \in 0 .. MaxCalls, NEW c, NEW stopped \in BOOLEAN,
         round < MaxRounds, ~stopped => ~aborted, Panel!NextCall(h, n, c, stopped)
  PROVE  /\ TurnTypes'
         /\ \/ history' = Append(h, Panel!Results(c)) /\ at' \in {"idle", "requesting"}
            \/ history' = h /\ at' \in {"approving", "acting"}
         /\ stopped => at' \in {"idle", "requesting"}
<1>1. CASE n = 0 \/ stopped
  <2>1. Panel!Continue(Append(h, Panel!Results(c)), round + 1, stopped)
    BY <1>1, Zenon DEF Panel!NextCall
  <2>2. round + 1 \in 0 .. MaxRounds
    BY PanelAssumption DEF TurnTypes, TurnPlace
  <2> QED
    BY <2>1, <2>2, TurnContinues
<1>2. CASE ~(n = 0 \/ stopped)
  <2>1. /\ history' = h /\ left' = n /\ aborted' = aborted /\ round' = round /\ timer' = timer
        /\ n # 0 /\ ~stopped /\ ~aborted
        /\ \/ at' = "approving" /\ card' = TRUE
           \/ at' = "acting" /\ card' = FALSE
    BY <1>2, Zenon DEF Panel!NextCall
  <2>2. TurnFlags'
    <3>1. aborted \in BOOLEAN /\ timer \in BOOLEAN
      BY Zenon DEF TurnTypes, TurnFlags
    <3>2. at' = "acting" => at' # "approving"
      OBVIOUS
    <3> QED
      BY <2>1, <3>1, <3>2, Zenon DEF TurnFlags
  <2>3. TurnPlace'
    <3>1. /\ left' \in 1 .. MaxCalls /\ left' \in 0 .. MaxCalls /\ at' \in {"approving", "acting"}
          /\ round' < MaxRounds
      BY <2>1, PanelAssumption
    <3>2. round' \in 0 .. MaxRounds
      BY <2>1 DEF TurnTypes, TurnPlace
    <3> QED
      BY <3>1, <3>2 DEF TurnPlace
  <2>4. at' \in {"approving", "acting"}
    BY <2>1
  <2> QED
    BY <2>1, <2>2, <2>3, <2>4 DEF TurnTypes
<1> QED
  BY <1>1, <1>2

(* What a turn leaves behind is neat whenever the round before was.        *)
LEMMA UserSpeaks ==
  ASSUME NEW h, Neat(h)
  PROVE  Neat(Append(h, Panel!Prompt)) /\ UserIsLast(Append(h, Panel!Prompt))
<1>1. /\ Panel!Prompt \in Messages /\ Panel!Prompt.calls = 0 /\ Panel!Prompt.answers = 0
      /\ Panel!Prompt.from = "user"
  BY DEF Panel!Prompt, Messages
<1>2. Neat(Append(h, Panel!Prompt))
  BY <1>1, NeatAppend
<1>3. PICK p \in Messages : p = Panel!Prompt /\ p.from = "user"
  BY <1>1
<1>4. UserIsLast(Append(h, p))
  BY <1>3, NeatSelection DEF UserIsLast
<1> QED
  BY <1>2, <1>3, <1>4, Zenon

LEMMA RoundEnds ==
  ASSUME NEW h, NEW c \in Nat, InRound(h, c)
  PROVE  Neat(Append(h, Panel!Results(c))) /\ UserIsLast(Append(h, Panel!Results(c)))
<1> PICK g \in Seq(Messages) : Neat(g) /\ g # <<>> /\ h = Append(g, Panel!Reply(c))
  BY DEF InRound
<1>1. /\ Panel!Reply(c) \in Messages /\ Panel!Results(c) \in Messages
      /\ Panel!Results(c).from = "user"
  BY DEF Panel!Reply, Panel!Results, Messages
<1>2. Neat(Append(h, Panel!Results(c)))
  BY NeatRound
<1> QED
  BY <1>1, <1>2 DEF UserIsLast

(* A prompt, and the wait for its tab.                                     *)
LEMMA SendKeeps ==
  ASSUME PanelIInv, Panel!Send \/ Panel!Pinned
  PROVE  PanelIInv'
<1>1. TurnTypes /\ RestTypes /\ SavedShape /\ HistoryShape
  BY PanelParts
<1>2. CASE Panel!Send
  <2>1. /\ at = "idle" /\ sends < MaxSends /\ sends' = sends + 1
        /\ UNCHANGED <<saved, pinned, cleared, savedCleared, replies>>
    BY <1>2 DEF Panel!Send
  <2>2. /\ TurnTypes' /\ history' = Append(history, Panel!Prompt)
        /\ at' \in {"idle", "requesting", "pinning"}
    <3>1. CASE pinned
      <4>1. Panel!Continue(Append(history, Panel!Prompt), 0, FALSE)
        BY <1>2, <3>1, Zenon DEF Panel!Send
      <4>2. 0 \in 0 .. MaxRounds
        BY PanelAssumption
      <4> QED
        BY <1>1, <4>1, <4>2, TurnContinues
    <3>2. CASE ~pinned
      <4>1. /\ at' = "pinning" /\ history' = Append(history, Panel!Prompt)
            /\ UNCHANGED <<aborted, round, left, card, timer>>
        BY <1>2, <3>2, Zenon DEF Panel!Send
      <4>2. TurnFlags'
        BY <1>1, <2>1, <4>1 DEF TurnTypes, TurnFlags
      <4> QED
        BY <1>1, <4>1, <4>2 DEF TurnTypes, TurnPlace
    <3> QED
      BY <3>1, <3>2
  <2>3. RestTypes' /\ SavedShape'
    BY <1>1, <2>1, PanelAssumption DEF RestTypes, SavedShape
  <2>4. HistoryShape'
    BY <1>1, <2>1, <2>2, UserSpeaks DEF HistoryShape
  <2> QED
    BY <2>2, <2>3, <2>4, PanelPartsNext
<1>3. CASE Panel!Pinned
  <2>1. /\ at = "pinning" /\ pinned' \in BOOLEAN /\ Panel!Continue(history, 0, aborted)
        /\ UNCHANGED <<saved, cleared, savedCleared, sends, replies>>
        /\ aborted \in BOOLEAN
    BY <1>1, <1>3, Zenon DEF Panel!Pinned, TurnTypes, TurnFlags
  <2>2. TurnTypes' /\ history' = history /\ at' \in {"idle", "requesting"}
    <3>1. 0 \in 0 .. MaxRounds
      BY PanelAssumption
    <3> QED
      BY <1>1, <2>1, <3>1, TurnContinues
  <2>3. RestTypes' /\ SavedShape'
    BY <1>1, <2>1 DEF RestTypes, SavedShape
  <2>4. HistoryShape'
    BY <1>1, <2>1, <2>2 DEF HistoryShape
  <2> QED
    BY <2>2, <2>3, <2>4, PanelPartsNext
<1> QED
  BY <1>2, <1>3

(* The end of a request.                                                   *)
LEMMA ReplyKeeps ==
  ASSUME PanelIInv, Panel!RequestFails \/ Panel!Replied
  PROVE  PanelIInv'
<1>1. TurnTypes /\ RestTypes /\ SavedShape /\ HistoryShape
  BY PanelParts
<1>2. at = "requesting" /\ UNCHANGED <<saved, pinned, cleared, savedCleared, sends>>
  BY DEF Panel!RequestFails, Panel!Replied
<1>3. SavedShape'
  BY <1>1, <1>2 DEF SavedShape
<1>4. ASSUME NEW h, Panel!Ends(h), UNCHANGED replies, ~cleared => Neat(h)
      PROVE  PanelIInv'
  <2>1. TurnTypes' /\ history' = h /\ at' = "idle"
    BY <1>4, TurnEnds
  <2>2. RestTypes'
    BY <1>1, <1>2, <1>4 DEF RestTypes
  <2>3. HistoryShape'
    BY <1>2, <1>4, <2>1 DEF HistoryShape
  <2> QED
    BY <1>3, <2>1, <2>2, <2>3, PanelPartsNext
<1>5. ~cleared => Neat(history) /\ UserIsLast(history)
  BY <1>1, <1>2 DEF HistoryShape
<1>6. CASE Panel!RequestFails
  <2>1. Panel!Ends(history) /\ UNCHANGED replies
    BY <1>6 DEF Panel!RequestFails
  <2> QED
    BY <1>4, <1>5, <2>1
<1>7. CASE Panel!Replied
  <2> PICK content \in BOOLEAN, n \in 0 .. MaxCalls, whole \in BOOLEAN :
        IF aborted \/ ~whole \/ n = 0 THEN Panel!Ends(Panel!Kept(content)) /\ UNCHANGED replies
        ELSE /\ replies' = replies + 1
             /\ Panel!NextCall(Append(history, Panel!Reply(replies + 1)), n, replies + 1, FALSE)
    BY <1>7 DEF Panel!Replied
  <2>1. CASE aborted \/ ~whole \/ n = 0
    <3>1. ~cleared => Neat(Panel!Kept(content))
      <4>1. /\ Panel!Reply(0) \in Messages /\ Panel!Reply(0).calls = 0
            /\ Panel!Reply(0).answers = 0
        BY DEF Panel!Reply, Messages
      <4> QED
        BY <1>5, <4>1, NeatAppend DEF Panel!Kept, UserIsLast
    <3> QED
      BY <1>4, <2>1, <3>1
  <2>2. CASE ~(aborted \/ ~whole \/ n = 0)
    <3> PICK c \in Nat : c = replies + 1
      BY <1>1 DEF RestTypes
    <3> DEFINE h == Append(history, Panel!Reply(c))
    <3>1. replies' = c /\ Panel!NextCall(h, n, c, FALSE) /\ ~aborted /\ FALSE \in BOOLEAN
      BY <2>2
    <3>2. round < MaxRounds
      BY <1>1, <1>2 DEF TurnTypes, TurnFlags, TurnPlace
    <3>3. /\ TurnTypes'
          /\ \/ history' = Append(h, Panel!Results(c)) /\ at' \in {"idle", "requesting"}
             \/ history' = h /\ at' \in {"approving", "acting"}
      <4> HIDE DEF h
      <4> QED
        BY <1>1, <3>1, <3>2, TurnCalls
    <3>4. ~cleared => InRound(h, c)
      BY <1>5, NeatSelection DEF InRound, UserIsLast
    <3>5. RestTypes'
      BY <1>1, <1>2, <3>1 DEF RestTypes
    <3>6. HistoryShape'
      <4> HIDE DEF h
      <4>1. ~cleared => Neat(Append(h, Panel!Results(c))) /\ UserIsLast(Append(h, Panel!Results(c)))
        BY <3>4, RoundEnds
      <4> QED
        BY <1>2, <3>1, <3>3, <3>4, <4>1 DEF HistoryShape
    <3> QED
      BY <1>3, <3>3, <3>5, <3>6, PanelPartsNext
  <2> QED
    BY <2>1, <2>2
<1> QED
  BY <1>6, <1>7

(* The outcome of a call, and a stop.                                      *)
LEMMA CallKeeps ==
  ASSUME PanelIInv, Panel!Deny \/ Panel!ToolReturns \/ Panel!Stop
  PROVE  PanelIInv'
<1>1. TurnTypes /\ RestTypes /\ SavedShape /\ HistoryShape
  BY PanelParts
<1>2. UNCHANGED <<saved, pinned, cleared, savedCleared, sends, replies>>
  BY DEF Panel!Deny, Panel!ToolReturns, Panel!Stop
<1>3. SavedShape' /\ RestTypes'
  BY <1>1, <1>2 DEF SavedShape, RestTypes
<1>4. ASSUME NEW stopped \in BOOLEAN, at \in {"approving", "acting"}, ~stopped => ~aborted,
             Panel!NextCall(history, left - 1, replies, stopped)
      PROVE  PanelIInv'
  <2>1. left - 1 \in 0 .. MaxCalls /\ round < MaxRounds
    BY <1>1, <1>4, PanelAssumption DEF TurnTypes, TurnFlags, TurnPlace
  <2>2. /\ TurnTypes'
        /\ \/ history' = Append(history, Panel!Results(replies)) /\ at' \in {"idle", "requesting"}
           \/ history' = history /\ at' \in {"approving", "acting"}
    BY <1>1, <1>4, <2>1, TurnCalls
  <2>3. ~cleared => InRound(history, replies)
    BY <1>1, <1>4 DEF HistoryShape
  <2>4. HistoryShape'
    <3>1. ~cleared => /\ Neat(Append(history, Panel!Results(replies)))
                      /\ UserIsLast(Append(history, Panel!Results(replies)))
      BY <1>1, <2>3, RoundEnds DEF RestTypes
    <3> QED
      BY <1>2, <2>2, <2>3, <3>1 DEF HistoryShape
  <2> QED
    BY <1>3, <2>2, <2>4, PanelPartsNext
<1>5. CASE Panel!Deny
  <2>1. at = "approving" /\ Panel!NextCall(history, left - 1, replies, FALSE) /\ ~aborted
    BY <1>1, <1>5 DEF Panel!Deny, TurnTypes, TurnFlags
  <2> QED
    BY <1>4, <2>1
<1>6. CASE Panel!ToolReturns
  <2>1. at = "acting" /\ Panel!NextCall(history, left - 1, replies, aborted) /\ aborted \in BOOLEAN
    BY <1>1, <1>6 DEF Panel!ToolReturns, TurnTypes, TurnFlags
  <2> QED
    BY <1>4, <2>1
<1>7. CASE Panel!Stop /\ at = "approving"
  <2>1. Panel!NextCall(history, left - 1, replies, TRUE)
    BY <1>7 DEF Panel!Stop
  <2> QED
    BY <1>4, <1>7, <2>1
<1>8. CASE Panel!Stop /\ at # "approving"
  <2>1. aborted' = TRUE /\ UNCHANGED <<at, history, round, left, card, timer>>
    BY <1>8 DEF Panel!Stop
  <2>2. TurnTypes'
    BY <1>1, <1>8, <2>1 DEF TurnTypes, TurnFlags, TurnPlace
  <2>3. HistoryShape'
    BY <1>1, <1>2, <2>1 DEF HistoryShape
  <2> QED
    BY <1>3, <2>2, <2>3, PanelPartsNext
<1> QED
  BY <1>5, <1>6, <1>7, <1>8

(* What goes on around a turn.                                             *)
LEMMA AroundKeeps ==
  ASSUME PanelIInv, Panel!Allow \/ Panel!Clear \/ Panel!TabCloses \/ Panel!Save \/ Panel!Reopen
  PROVE  PanelIInv'
<1>1. TurnTypes /\ RestTypes /\ SavedShape /\ HistoryShape
  BY PanelParts
<1>2. CASE Panel!Allow
  <2>1. /\ at = "approving" /\ at' = "acting" /\ card' = FALSE
        /\ UNCHANGED <<aborted, history, round, left, timer>>
        /\ UNCHANGED <<saved, pinned, cleared, savedCleared, sends, replies>>
    BY <1>2 DEF Panel!Allow
  <2>2. TurnTypes' /\ RestTypes' /\ SavedShape'
    BY <1>1, <2>1 DEF TurnTypes, TurnFlags, TurnPlace, RestTypes, SavedShape
  <2>3. HistoryShape'
    BY <1>1, <2>1 DEF HistoryShape
  <2> QED
    BY <2>2, <2>3, PanelPartsNext
<1>3. CASE Panel!Clear
  <2>1. /\ history' = <<>> /\ pinned' = FALSE /\ card' = FALSE /\ timer' = FALSE /\ saved' = <<>>
        /\ cleared' = (at # "idle") /\ savedCleared' = FALSE
        /\ UNCHANGED <<at, aborted, round, left, sends, replies>>
    BY <1>3 DEF Panel!Clear, Panel!Busy
  <2>2. TurnTypes' /\ RestTypes' /\ SavedShape'
    BY <1>1, <2>1, NeatNothing DEF TurnTypes, TurnFlags, TurnPlace, RestTypes, SavedShape
  <2>3. HistoryShape'
    BY <2>1, NeatNothing DEF HistoryShape
  <2> QED
    BY <2>2, <2>3, PanelPartsNext
<1>4. CASE Panel!TabCloses
  <2>1. /\ pinned' = FALSE
        /\ UNCHANGED <<at, aborted, history, round, left, card, timer>>
        /\ UNCHANGED <<saved, cleared, savedCleared, sends, replies>>
    BY <1>4 DEF Panel!TabCloses
  <2>2. TurnTypes' /\ RestTypes' /\ SavedShape'
    BY <1>1, <2>1 DEF TurnTypes, TurnFlags, TurnPlace, RestTypes, SavedShape
  <2>3. HistoryShape'
    BY <1>1, <2>1 DEF HistoryShape
  <2> QED
    BY <2>2, <2>3, PanelPartsNext
<1>5. CASE Panel!Save
  <2>1. /\ timer' = FALSE
        /\ UNCHANGED <<at, aborted, history, round, left, card, pinned, cleared, sends, replies>>
        /\ IF history = <<>> THEN UNCHANGED <<saved, savedCleared>>
           ELSE /\ saved' \in Panel!Trimmed(history)
                /\ savedCleared' = (cleared \/ at \in {"approving", "acting"})
    BY <1>5 DEF Panel!Save, Panel!Unanswered
  <2>2. TurnTypes' /\ RestTypes'
    BY <1>1, <2>1 DEF TurnTypes, TurnFlags, TurnPlace, RestTypes
  <2>3. SavedShape'
    <3>1. CASE history = <<>>
      BY <1>1, <2>1, <3>1 DEF SavedShape
    <3>2. CASE history # <<>>
      <4>1. ~savedCleared' => Neat(history)
        BY <1>1, <2>1, <3>2 DEF HistoryShape
      <4> QED
        BY <2>1, <3>2, <4>1, NeatTrimmed DEF SavedShape
    <3> QED
      BY <3>1, <3>2
  <2>4. HistoryShape'
    BY <1>1, <2>1 DEF HistoryShape
  <2> QED
    BY <2>2, <2>3, <2>4, PanelPartsNext
<1>6. CASE Panel!Reopen
  <2>1. /\ at' = "idle" /\ aborted' = FALSE /\ round' = 0 /\ left' = 0 /\ card' = FALSE
        /\ timer' = FALSE /\ history' = saved /\ cleared' = savedCleared /\ pinned' \in BOOLEAN
        /\ UNCHANGED <<saved, savedCleared, sends, replies>>
    BY <1>6 DEF Panel!Reopen
  <2>2. TurnTypes' /\ RestTypes' /\ SavedShape'
    <3>1. TurnFlags'
      BY <2>1 DEF TurnFlags
    <3>2. TurnPlace'
      BY <2>1, PanelAssumption DEF TurnPlace
    <3>3. RestTypes' /\ SavedShape'
      BY <1>1, <2>1 DEF RestTypes, SavedShape
    <3> QED
      BY <3>1, <3>2, <3>3 DEF TurnTypes
  <2>3. HistoryShape'
    BY <1>1, <2>1 DEF HistoryShape, SavedShape
  <2> QED
    BY <2>2, <2>3, PanelPartsNext
<1> QED
  BY <1>2, <1>3, <1>4, <1>5, <1>6

LEMMA PanelKeeps ==
  ASSUME PanelIInv, [Panel!PanelNext]_panelVars
  PROVE  PanelIInv'
<1>1. CASE UNCHANGED panelVars
  BY <1>1 DEF panelVars, PanelIInv, Panel!PanelTypeOK, RoundShape, SavedShape, HistoryShape
<1>2. CASE Panel!PanelNext
  BY <1>2, SendKeeps, ReplyKeeps, CallKeeps, AroundKeeps, Zenon DEF Panel!PanelNext
<1> QED
  BY <1>1, <1>2

LEMMA PanelInitially ==
  ASSUME Panel!Init
  PROVE  PanelIInv
<1>1. TurnTypes /\ RestTypes
  <2>1. TurnFlags
    BY Zenon DEF Panel!Init, TurnFlags
  <2>2. TurnPlace
    BY PanelAssumption DEF Panel!Init, TurnPlace
  <2>3. RestTypes
    <3>1. 0 \in 0 .. MaxSends /\ 0 \in Nat
      BY PanelAssumption
    <3> QED
      BY <3>1, Zenon DEF Panel!Init, RestTypes
  <2> QED
    BY <2>1, <2>2, <2>3 DEF TurnTypes
<1>2. SavedShape /\ HistoryShape
  BY NeatNothing DEF Panel!Init, SavedShape, HistoryShape
<1> QED
  BY <1>1, <1>2, PanelParts

(* What a step asks for is neat and ends with the user; what it runs was   *)
(* not stopped.                                                            *)
LEMMA PanelReplays ==
  ASSUME PanelIInv, PanelIInv', [Panel!PanelNext]_panelVars
  PROVE  /\ Panel!Asks => cleared' \/ Panel!Replayable(history')
         /\ Panel!Acts => ~aborted
         /\ aborted' => at' # "approving"
<1>1. Panel!Asks => cleared' \/ Panel!Replayable(history')
  BY DEF Panel!Asks, Panel!Replayable, PanelIInv, HistoryShape, Neat, UserIsLast
<1>2. aborted' => at' # "approving"
  BY DEF PanelIInv, RoundShape
<1>3. ASSUME at # "acting", at' = "acting"
      PROVE  ~aborted
  <2>0. at = "approving" => ~aborted
    BY DEF PanelIInv, RoundShape
  <2>1. CASE Panel!Replied
    <3>1. ASSUME aborted PROVE at' = "idle"
      BY <2>1, <3>1 DEF Panel!Replied, Panel!Ends
    <3> QED
      BY <1>3, <3>1
  <2>2. CASE Panel!Send \/ Panel!Pinned \/ Panel!RequestFails
    BY <1>3, <2>2 DEF Panel!Send, Panel!Pinned, Panel!RequestFails, Panel!Continue, Panel!Ends
  <2>3. CASE Panel!Allow \/ Panel!Deny
    BY <2>0, <2>3 DEF Panel!Allow, Panel!Deny
  <2>4. CASE Panel!Stop
    BY <1>3, <2>0, <2>4 DEF Panel!Stop
  <2>5. CASE Panel!ToolReturns \/ Panel!Clear \/ Panel!TabCloses \/ Panel!Save \/ Panel!Reopen
    BY <1>3, <2>5 DEF Panel!ToolReturns, Panel!Clear, Panel!TabCloses, Panel!Save, Panel!Reopen
  <2>6. CASE UNCHANGED panelVars
    BY <1>3, <2>6 DEF panelVars
  <2> QED
    BY <2>1, <2>2, <2>3, <2>4, <2>5, <2>6, Zenon DEF Panel!PanelNext
<1> QED
  BY <1>1, <1>2, <1>3 DEF Panel!Acts
==============================================================================
