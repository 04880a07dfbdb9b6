---------------------- MODULE SessionPersistenceProofs ----------------------
(***************************************************************************)
(* Proofs about what messaging keeps (MCSessionPersistence): the session   *)
(* file, for any number of changes and timers, never goes back, a call     *)
(* that returned is durable, and the store implements DurableState; stops  *)
(* and clears are boundaries for the workflow; a voice note has one owner. *)
(***************************************************************************)
EXTENDS MCSessionPersistence, TLAPS

-----------------------------------------------------------------------------
(* The persistence of the session store.                                   *)

(* A pending write is never of a later generation than the store, and one  *)
(* of the store's generation has the store's state; what is being written  *)
(* is not older than the file.                                             *)
PendingShape ==
  \A w \in Writers :
    /\ phase[w] \in {"claimed", "snapped", "writing", "written", "marking"} =>
         tag[w] <= generation
    /\ phase[w] \in {"snapped", "writing"} =>
         snapshot[w] <= memory /\ (tag[w] = generation => snapshot[w] = memory)
    /\ phase[w] = "writing" => disk <= snapshot[w]

(* The writer lock has one holder.                                         *)
OneWriter ==
  \A v, w \in Writers : phase[v] = "writing" /\ phase[w] = "writing" => v = w

(* No change of the main thread overtakes its own flush or clear, which is *)
(* therefore never superseded, and is on disk once it is written.          *)
MainShape ==
  /\ clearing => phase[Main] \in {"snapped", "writing", "written", "marking", "failing"}
  /\ phase[Main] \in {"claimed", "snapped", "writing", "written", "marking"} =>
       tag[Main] = generation
  /\ phase[Main] \in {"written", "marking"} => disk = memory

(* The inductive invariant.                                                *)
IInv == /\ TypeOK /\ disk <= memory /\ PendingShape /\ OneWriter /\ MainShape
        /\ ConfirmedIsDurable

-----------------------------------------------------------------------------
(* Threads.                                                                *)

(* The main thread is not a timer.                                         *)
LEMMA MainIsNoTimer == Main \in Writers /\ Main \notin Timers /\ Main # 0
<1>1. 0 \in Nat
  OBVIOUS
<1>2. Main # 0
  BY <1>1, PersistenceAssumption, Zenon
<1> QED
  BY <1>2, PersistenceAssumption DEF Writers

(* The types of what is compared.                                          *)
LEMMA Numbers ==
  ASSUME TypeOK
  PROVE  /\ generation \in Nat /\ memory \in Nat /\ disk \in Nat /\ acked \in Nat
         /\ \A w \in Writers : tag[w] \in Nat /\ snapshot[w] \in Nat
<1>1. Timers \cup {0} \subseteq Nat
  BY PersistenceAssumption
<1> QED
  BY <1>1 DEF TypeOK

(* A generation is a number.                                               *)
LEMMA TimersAreNumbers == Timers \subseteq Nat \ {0}
  BY PersistenceAssumption

(* Cancelling the registered timer affects no thread that saves.           *)
LEMMA StoppedShape ==
  ASSUME TypeOK
  PROVE  /\ Stopped \in [Writers -> Phases]
         /\ Stopped[Main] = phase[Main]
         /\ \A w \in Writers :
              Stopped[w] = phase[w] \/ (phase[w] = "waiting" /\ Stopped[w] = "idle")
  BY MainIsNoTimer, TimersAreNumbers, PersistenceAssumption DEF TypeOK, Stopped, Phases

-----------------------------------------------------------------------------
(* Every step keeps the invariant.                                         *)

(* The initial state satisfies the invariant.                              *)
LEMMA InitIInv == Init => IInv
<1> SUFFICES ASSUME Init PROVE IInv
  OBVIOUS
<1>1. TypeOK
  BY DEF Init, TypeOK, Phases
<1>2. disk <= memory /\ PendingShape /\ OneWriter /\ MainShape /\ ConfirmedIsDurable
  BY MainIsNoTimer DEF Init, PendingShape, OneWriter, MainShape, ConfirmedIsDurable
<1> QED
  BY <1>1, <1>2 DEF IInv

(* A change leaves every pending write a generation behind.                *)
LEMMA ChangeStep == ASSUME IInv, Save PROVE IInv'
<1> USE MainIsNoTimer, TimersAreNumbers
<1>0. TypeOK
  BY DEF IInv
<1>1. TypeOK' /\ (disk <= memory)'
  <2>1. Stopped[generation'] \in Phases /\ "waiting" \in Phases
    BY <1>0, StoppedShape DEF Save, Phases, Writers
  <2>2. phase' \in [Writers -> Phases]
    BY <1>0, <2>1, StoppedShape DEF Save
  <2> QED
    BY <1>0, <2>2, Numbers DEF Save, IInv, TypeOK
<1>2. PendingShape'
  <2>1. \A w \in Writers : phase'[w] \in Phases \ {"idle", "waiting"} => phase[w] = phase'[w]
    BY <1>0, StoppedShape DEF Save, Phases, Writers
  <2>2. /\ generation' = generation + 1 /\ memory' = memory + 1
        /\ UNCHANGED <<tag, snapshot, disk>>
    BY DEF Save
  <2> QED
    BY <1>0, <2>1, <2>2, Numbers DEF IInv, PendingShape, Phases
<1>3. OneWriter'
  BY <1>0, StoppedShape DEF Save, IInv, TypeOK, OneWriter
<1>4. MainShape' /\ ConfirmedIsDurable'
  BY <1>0, StoppedShape DEF Save, IInv, TypeOK, PendingShape, OneWriter, MainShape,
                            ConfirmedIsDurable
<1> QED
  BY <1>1, <1>2, <1>3, <1>4 DEF IInv

(* A flush has claimed nothing yet.                                        *)
LEMMA FlushStep == ASSUME IInv, Flush PROVE IInv'
<1> USE MainIsNoTimer, TimersAreNumbers
<1>1. TypeOK' /\ (disk <= memory)'
  BY DEF Flush, Move, IInv, TypeOK, Phases
<1>2. PendingShape'
  BY DEF Flush, Move, IInv, TypeOK, PendingShape, OneWriter, MainShape
<1>3. OneWriter'
  BY DEF Flush, Move, IInv, TypeOK, OneWriter
<1>4. MainShape' /\ ConfirmedIsDurable'
  BY DEF Flush, Move, IInv, TypeOK, PendingShape, OneWriter, MainShape, ConfirmedIsDurable
<1> QED
  BY <1>1, <1>2, <1>3, <1>4 DEF IInv

(* A clear starts with the store's state and a new generation.             *)
LEMMA ClearStep == ASSUME IInv, Clear PROVE IInv'
<1> USE MainIsNoTimer, TimersAreNumbers
<1>0. TypeOK
  BY DEF IInv
<1>1. TypeOK' /\ (disk <= memory)'
  BY <1>0, StoppedShape DEF Clear, IInv, TypeOK, Phases
<1>2. PendingShape'
  <2>1. \A w \in Writers \ {Main} :
          /\ phase'[w] \in Phases \ {"idle", "waiting"} => phase[w] = phase'[w]
          /\ tag'[w] = tag[w] /\ snapshot'[w] = snapshot[w]
    BY <1>0, StoppedShape DEF Clear, Phases, TypeOK
  <2>2. generation' = generation + 1 /\ memory' = memory + 1 /\ disk' = disk
    BY DEF Clear
  <2>3. phase'[Main] = "snapped" /\ tag'[Main] = generation' /\ snapshot'[Main] = memory'
    BY <1>0, StoppedShape DEF Clear, TypeOK
  <2> QED
    BY <1>0, <2>1, <2>2, <2>3, Numbers DEF IInv, PendingShape, Phases
<1>3. OneWriter'
  BY <1>0, StoppedShape DEF Clear, IInv, TypeOK, OneWriter
<1>4. MainShape' /\ ConfirmedIsDurable'
  BY <1>0, StoppedShape DEF Clear, IInv, TypeOK, PendingShape, OneWriter, MainShape,
                            ConfirmedIsDurable
<1> QED
  BY <1>1, <1>2, <1>3, <1>4 DEF IInv

(* A flush claims the present generation.                                  *)
LEMMA FlushClaimsStep == ASSUME IInv, FlushClaims PROVE IInv'
<1> USE MainIsNoTimer, TimersAreNumbers
<1>0. TypeOK
  BY DEF IInv
<1>1. TypeOK' /\ (disk <= memory)'
  BY <1>0, StoppedShape DEF FlushClaims, IInv, TypeOK, Phases
<1>2. PendingShape'
  BY <1>0, StoppedShape DEF FlushClaims, IInv, TypeOK, PendingShape, OneWriter, MainShape
<1>3. OneWriter'
  BY <1>0, StoppedShape DEF FlushClaims, IInv, TypeOK, OneWriter
<1>4. MainShape' /\ ConfirmedIsDurable'
  BY <1>0, StoppedShape DEF FlushClaims, IInv, TypeOK, PendingShape, OneWriter, MainShape,
                            ConfirmedIsDurable
<1> QED
  BY <1>1, <1>2, <1>3, <1>4 DEF IInv

(* A timer that fires has claimed nothing yet.                             *)
LEMMA TimerFiresStep == ASSUME IInv, NEW g \in Timers, TimerFires(g) PROVE IInv'
<1> USE MainIsNoTimer, TimersAreNumbers
<1> g \in Writers /\ g # Main
  BY DEF Writers
<1>1. TypeOK' /\ (disk <= memory)'
  BY DEF TimerFires, Move, IInv, TypeOK, Phases
<1>2. PendingShape'
  BY DEF TimerFires, Move, IInv, TypeOK, PendingShape, OneWriter, MainShape
<1>3. OneWriter'
  BY DEF TimerFires, Move, IInv, TypeOK, OneWriter
<1>4. MainShape' /\ ConfirmedIsDurable'
  BY DEF TimerFires, Move, IInv, TypeOK, PendingShape, OneWriter, MainShape, ConfirmedIsDurable
<1> QED
  BY <1>1, <1>2, <1>3, <1>4 DEF IInv

(* A timer claims the present generation or none.                          *)
LEMMA TimerClaimsStep == ASSUME IInv, NEW g \in Timers, TimerClaims(g) PROVE IInv'
<1> USE MainIsNoTimer, TimersAreNumbers
<1> g \in Writers /\ g # Main
  BY DEF Writers
<1>1. TypeOK' /\ (disk <= memory)'
  BY DEF TimerClaims, Move, IInv, TypeOK, Phases
<1>2. PendingShape'
  BY DEF TimerClaims, Move, IInv, TypeOK, PendingShape, OneWriter, MainShape
<1>3. OneWriter'
  BY DEF TimerClaims, Move, IInv, TypeOK, OneWriter
<1>4. MainShape' /\ ConfirmedIsDurable'
  BY DEF TimerClaims, Move, IInv, TypeOK, PendingShape, OneWriter, MainShape, ConfirmedIsDurable
<1> QED
  BY <1>1, <1>2, <1>3, <1>4 DEF IInv

(* A snapshot has the state of the store.                                  *)
LEMMA TakeSnapshotStep == ASSUME IInv, NEW w \in Writers, TakeSnapshot(w) PROVE IInv'
<1> USE MainIsNoTimer, TimersAreNumbers
<1>1. TypeOK' /\ (disk <= memory)'
  BY DEF TakeSnapshot, Move, StoreFree, IInv, TypeOK, Phases
<1>2. PendingShape'
  BY DEF TakeSnapshot, Move, StoreFree, IInv, TypeOK, PendingShape, OneWriter, MainShape
<1>3. OneWriter'
  BY DEF TakeSnapshot, Move, StoreFree, IInv, TypeOK, OneWriter
<1>4. MainShape' /\ ConfirmedIsDurable'
  BY DEF TakeSnapshot, Move, StoreFree, IInv, TypeOK, PendingShape, OneWriter, MainShape,
         ConfirmedIsDurable
<1> QED
  BY <1>1, <1>2, <1>3, <1>4 DEF IInv

(* A write that begins has the state of the store, and a flush or clear is *)
(* never turned away.                                                      *)
LEMMA WriteBeginsStep == ASSUME IInv, NEW w \in Writers, WriteBegins(w) PROVE IInv'
<1> USE MainIsNoTimer, TimersAreNumbers
<1>1. TypeOK' /\ (disk <= memory)'
  BY DEF WriteBegins, Move, Return, WriterFree, IInv, TypeOK, Phases, MainShape, PendingShape
<1>2. PendingShape'
  BY DEF WriteBegins, Move, Return, WriterFree, IInv, TypeOK, PendingShape, OneWriter, MainShape
<1>3. OneWriter'
  BY DEF WriteBegins, Move, Return, WriterFree, IInv, TypeOK, OneWriter
<1>4. MainShape' /\ ConfirmedIsDurable'
  BY DEF WriteBegins, Move, Return, WriterFree, IInv, TypeOK, PendingShape, OneWriter, MainShape,
         ConfirmedIsDurable
<1> QED
  BY <1>1, <1>2, <1>3, <1>4 DEF IInv

(* The file moves forward to the snapshot.                                 *)
LEMMA WriteEndsStep == ASSUME IInv, NEW w \in Writers, WriteEnds(w) PROVE IInv'
<1> USE MainIsNoTimer, TimersAreNumbers
<1>1. TypeOK' /\ (disk <= memory)'
  BY DEF WriteEnds, Move, IInv, TypeOK, Phases, MainShape, PendingShape
<1>2. PendingShape'
  BY DEF WriteEnds, Move, IInv, TypeOK, PendingShape, OneWriter, MainShape
<1>3. OneWriter'
  BY DEF WriteEnds, Move, IInv, TypeOK, OneWriter
<1>4. MainShape' /\ ConfirmedIsDurable'
  BY DEF WriteEnds, Move, IInv, TypeOK, PendingShape, OneWriter, MainShape, ConfirmedIsDurable
<1> QED
  BY <1>1, <1>2, <1>3, <1>4 DEF IInv

(* A failed write leaves the file and confirms nothing.                    *)
LEMMA WriteFailedStep == ASSUME IInv, NEW w \in Writers, WriteFailed(w) PROVE IInv'
<1> USE MainIsNoTimer, TimersAreNumbers
<1>1. TypeOK' /\ (disk <= memory)'
  BY DEF WriteFailed, Move, StoreFree, IInv, TypeOK, Phases
<1>2. PendingShape'
  BY DEF WriteFailed, Move, StoreFree, IInv, TypeOK, PendingShape, OneWriter, MainShape
<1>3. OneWriter'
  BY DEF WriteFailed, Move, StoreFree, IInv, TypeOK, OneWriter
<1>4. MainShape' /\ ConfirmedIsDurable'
  BY DEF WriteFailed, Move, StoreFree, IInv, TypeOK, PendingShape, OneWriter, MainShape,
         ConfirmedIsDurable
<1> QED
  BY <1>1, <1>2, <1>3, <1>4 DEF IInv

(* A call that returns here has its state on disk.                         *)
LEMMA MarkChecksStep == ASSUME IInv, NEW w \in Writers, MarkChecks(w) PROVE IInv'
<1> USE MainIsNoTimer, TimersAreNumbers
<1>1. TypeOK' /\ (disk <= memory)'
  BY DEF MarkChecks, Move, Return, IInv, TypeOK, Phases
<1>2. PendingShape'
  BY DEF MarkChecks, Move, Return, IInv, TypeOK, PendingShape, OneWriter, MainShape
<1>3. OneWriter'
  BY DEF MarkChecks, Move, Return, IInv, TypeOK, OneWriter
<1>4. MainShape' /\ ConfirmedIsDurable'
  BY DEF MarkChecks, Move, Return, IInv, TypeOK, PendingShape, OneWriter, MainShape,
         ConfirmedIsDurable
<1> QED
  BY <1>1, <1>2, <1>3, <1>4 DEF IInv

(* So has one that returns here.                                           *)
LEMMA MarkCleanStep == ASSUME IInv, NEW w \in Writers, MarkClean(w) PROVE IInv'
<1> USE MainIsNoTimer, TimersAreNumbers
<1>1. TypeOK' /\ (disk <= memory)'
  BY DEF MarkClean, Move, Return, StoreFree, IInv, TypeOK, Phases
<1>2. PendingShape'
  BY DEF MarkClean, Move, Return, StoreFree, IInv, TypeOK, PendingShape, OneWriter, MainShape
<1>3. OneWriter'
  BY DEF MarkClean, Move, Return, StoreFree, IInv, TypeOK, OneWriter
<1>4. MainShape' /\ ConfirmedIsDurable'
  BY DEF MarkClean, Move, Return, StoreFree, IInv, TypeOK, PendingShape, OneWriter, MainShape,
         ConfirmedIsDurable
<1> QED
  BY <1>1, <1>2, <1>3, <1>4 DEF IInv

(* Whether writes fail does not matter.                                    *)
LEMMA DiskChangesStep == ASSUME IInv, DiskChanges PROVE IInv'
<1> USE MainIsNoTimer, TimersAreNumbers
<1>1. TypeOK' /\ (disk <= memory)'
  BY DEF DiskChanges, IInv, TypeOK, Phases
<1>2. PendingShape'
  BY DEF DiskChanges, IInv, TypeOK, PendingShape, OneWriter, MainShape
<1>3. OneWriter'
  BY DEF DiskChanges, IInv, TypeOK, OneWriter
<1>4. MainShape' /\ ConfirmedIsDurable'
  BY DEF DiskChanges, IInv, TypeOK, PendingShape, OneWriter, MainShape, ConfirmedIsDurable
<1> QED
  BY <1>1, <1>2, <1>3, <1>4 DEF IInv

(* A crash leaves the file, and no thread.                                 *)
LEMMA CrashStep == ASSUME IInv, Crash PROVE IInv'
<1> USE MainIsNoTimer, TimersAreNumbers
<1>1. TypeOK' /\ (disk <= memory)'
  <2>1. phase' \in [Writers -> Phases] /\ tag' \in [Writers -> Timers \cup {0}]
    BY DEF Crash, Phases
  <2>2. snapshot' \in [Writers -> Nat]
    BY DEF Crash
  <2>3. (disk <= memory)'
    BY Numbers DEF Crash, IInv
  <2> QED
    BY <2>1, <2>2, <2>3, Numbers DEF Crash, IInv, TypeOK
<1>2. PendingShape'
  BY DEF Crash, IInv, TypeOK, PendingShape, OneWriter, MainShape
<1>3. OneWriter'
  BY DEF Crash, IInv, TypeOK, OneWriter
<1>4. MainShape' /\ ConfirmedIsDurable'
  BY DEF Crash, IInv, TypeOK, PendingShape, OneWriter, MainShape, ConfirmedIsDurable
<1> QED
  BY <1>1, <1>2, <1>3, <1>4 DEF IInv

(* The invariant is inductive.                                             *)
LEMMA NextIInv == ASSUME IInv, [Next]_vars PROVE IInv'
<1>1. CASE Call
  BY <1>1, ChangeStep, FlushStep, ClearStep DEF Call
<1>2. CASE FlushClaims
  BY <1>2, FlushClaimsStep
<1>3. CASE \E g \in Timers : TimerStep(g)
  BY <1>3, TimerFiresStep, TimerClaimsStep DEF TimerStep
<1>4. CASE \E w \in Writers : SaveStep(w)
  BY <1>4, TakeSnapshotStep, WriteBeginsStep, WriteEndsStep, WriteFailedStep, MarkChecksStep,
     MarkCleanStep DEF SaveStep
<1>5. CASE DiskChanges \/ Crash
  BY <1>5, DiskChangesStep, CrashStep
<1>6. CASE UNCHANGED vars
  BY <1>6 DEF vars, IInv, TypeOK, PendingShape, OneWriter, MainShape, ConfirmedIsDurable
<1> QED
  BY <1>1, <1>2, <1>3, <1>4, <1>5, <1>6 DEF Next

(* The inductive invariant always holds.                                   *)
LEMMA Inductive == Spec => []IInv
  BY InitIInv, NextIInv, PTL DEF Spec

-----------------------------------------------------------------------------
(* Theorems.                                                               *)

(* Every variable keeps its type, and a registered timer is the newest.    *)
THEOREM TypeCorrect == Spec => []TypeOK
<1>1. IInv => TypeOK
  BY DEF IInv
<1> QED
  BY <1>1, Inductive, PTL

(* What a flush or a clear returned for is on disk, and stays there.       *)
THEOREM ConfirmedCorrect == Spec => []ConfirmedIsDurable
<1>1. IInv => ConfirmedIsDurable
  BY DEF IInv
<1> QED
  BY <1>1, Inductive, PTL

(* Each step of the store is a step of the durable state.                  *)
LEMMA StepIsDurable ==
  ASSUME IInv, [Next]_vars
  PROVE  Durable!Next \/ UNCHANGED Durable!vars
<1> USE DEF Durable!vars, Durable!Next
<1>1. CASE Save \/ Clear
  BY <1>1 DEF Save, Clear, Durable!Change
<1>2. CASE Flush \/ FlushClaims \/ DiskChanges \/ UNCHANGED vars
  BY <1>2 DEF Flush, FlushClaims, DiskChanges, vars
<1>3. CASE Crash
  BY <1>3 DEF Crash, Durable!Crash
<1>4. CASE \E g \in Timers : TimerStep(g)
  BY <1>4 DEF TimerStep, TimerFires, TimerClaims
<1>5. ASSUME NEW w \in Writers, SaveStep(w) PROVE Durable!Next \/ UNCHANGED Durable!vars
  <2>1. CASE TakeSnapshot(w) \/ WriteFailed(w)
    BY <2>1 DEF TakeSnapshot, WriteFailed
  <2>2. CASE WriteBegins(w)
    BY <2>2 DEF WriteBegins, Return, IInv, MainShape
  <2>3. CASE WriteEnds(w)
    <3>1. disk \in Nat /\ memory \in Nat /\ snapshot[w] \in Nat
      BY DEF IInv, TypeOK
    <3>2. disk <= snapshot[w] /\ snapshot[w] <= memory
      BY <2>3 DEF WriteEnds, IInv, PendingShape
    <3>3. snapshot[w] \in disk..memory
      BY <3>1, <3>2
    <3> QED
      BY <2>3, <3>3 DEF WriteEnds, Durable!Persist
  <2>4. CASE MarkChecks(w)
    BY <2>4 DEF MarkChecks, Return, IInv, MainShape, Durable!Confirm
  <2>5. CASE MarkClean(w)
    BY <2>5 DEF MarkClean, Return, IInv, MainShape, Durable!Confirm
  <2> QED
    BY <1>5, <2>1, <2>2, <2>3, <2>4, <2>5 DEF SaveStep
<1> QED
  BY <1>1, <1>2, <1>3, <1>4, <1>5 DEF Next, Call

(* The store implements the durable state: only forward, never ahead of    *)
(* memory, and a crash loses nothing that was confirmed.                   *)
THEOREM StoreImplementsDurable == Spec => StoreIsDurable
<1>1. Init => Durable!Init
  BY DEF Init, Durable!Init
<1>2. IInv /\ [Next]_vars => [Durable!Next]_(Durable!vars)
  BY StepIsDurable
<1> QED
  BY <1>1, <1>2, Inductive, PTL DEF Spec, StoreIsDurable, Durable!Spec

(* The session file never goes back to an older state.                     *)
THEOREM DiskCorrect == Spec => DiskNeverGoesBack
<1>1. IInv /\ [Next]_vars => [disk' >= disk]_vars
  <2> SUFFICES ASSUME IInv, [Next]_vars PROVE disk' >= disk
    OBVIOUS
  <2>1. disk \in Nat /\ memory \in Nat
    BY DEF IInv, TypeOK
  <2>2. disk' = disk \/ disk' \in disk..memory
    BY StepIsDurable DEF Durable!Next, Durable!vars, Durable!Change, Durable!Persist,
                         Durable!Confirm, Durable!Crash
  <2> QED
    BY <2>1, <2>2
<1> QED
  BY <1>1, Inductive, PTL DEF Spec, DiskNeverGoesBack

-----------------------------------------------------------------------------
(* The workflow.                                                           *)

(* What holds the lock of the workflow.                                    *)
Operations ==
  [kind : {"stop_all", "stop_reply", "clear_reply", "clear"},
   of : Turns \cup Chats \cup {NONE}, step : {"cancel", "save", "commit", "detach", "store"},
   ids : SUBSET Workflow!Messages, failed : BOOLEAN]

(* The lock is free or held by an operation on what it names.              *)
OperationShape ==
  operation # NONE =>
    /\ operation \in Operations
    /\ operation.kind \in {"stop_reply", "clear_reply"} => operation.of \in Turns
    /\ operation.kind = "clear" =>
         /\ operation.of \in Chats
         /\ operation.step = "commit" => clearGenerations[operation.of] < MaxClears

(* A token is never ahead of the generations, and only a prompt whose      *)
(* handler is done is in a tree or in the store.                           *)
GenerationShape ==
  /\ \A c \in Chats : cleared[c] <= clearGenerations[c]
  /\ \A m \in Turns : /\ token[m].stop <= stopGeneration
                      /\ token[m].clear <= clearGenerations[ChatOf[m]]
  /\ \A m \in nodes \cup stored : turn[m] = "over"

(* While a stop or a clear holds the lock nothing is admitted: what it has *)
(* cancelled or detached stays so, and tokens it made stale stay stale.    *)
HeldShape ==
  operation # NONE =>
    /\ operation.kind = "stop_all" /\ operation.step = "save" => live = {}
    /\ operation.kind = "clear" /\ operation.step \in {"detach", "store"} =>
         \A m \in Turns : ChatOf[m] = operation.of /\ turn[m] # "new" =>
                            token[m].clear < clearGenerations[ChatOf[m]]
    /\ operation.kind = "clear" /\ operation.step = "store" /\ ~operation.failed =>
         \A m \in nodes : ChatOf[m] # operation.of

(* A status message is not seen before it is posted, and while its prompt  *)
(* may still be admitted somebody can delete it; a notice is tracked only  *)
(* when its publisher is done.                                             *)
StatusShape ==
  /\ \A m \in Turns :
       /\ turn[m] \in {"new", "announcing"} => Workflow!Status(m) \notin chatMessages
       /\ turn[m] = "admitting" /\ token[m].clear = clearGenerations[ChatOf[m]]
            /\ Workflow!Status(m) \in chatMessages =>
              Workflow!Status(m) \in tracked \cup doomed \cup leftBehind
  /\ \A c \in Chats : notice[c] # "over" => Workflow!Notice(c) \notin tracked

(* What a clear of the chat forgets at its end it deletes, unless a        *)
(* deletion has begun or a handler is still at work on it.                 *)
ClearShape ==
  operation # NONE /\ operation.kind = "clear" =>
    \A x \in chatMessages \cap tracked \cap Workflow!AllOf(operation.of) :
      \/ x \in operation.ids \cup doomed \cup leftBehind
      \/ \E m \in Turns : turn[m] # "over" /\ x = Workflow!Status(m)

(* The types of the workflow, and who can still delete a message.          *)
WorkflowTypes ==
  /\ stopGeneration \in 0..MaxStops /\ clearGenerations \in [Chats -> 0..MaxClears]
  /\ turn \in [Turns -> Workflow!TurnPhases] /\ parent \in [Turns -> Turns \cup {NONE}]
  /\ token \in [Turns -> [stop : 0..MaxStops, clear : 0..MaxClears]]
  /\ nodes \subseteq Turns /\ live \subseteq nodes /\ stored \subseteq Turns
  /\ tracked \subseteq Workflow!Messages /\ chatMessages \subseteq Workflow!Messages
  /\ doomed \subseteq Workflow!Messages /\ leftBehind \subseteq Workflow!Messages
  /\ notice \in [Chats -> Workflow!NoticePhases] /\ noticed \in [Chats -> 0..MaxClears]
  /\ stopped \in 0..stopGeneration
  /\ cleared \in [Chats -> 0..MaxClears]

OwnedShape ==
  \A x \in chatMessages :
    \/ x \in tracked \cup doomed \cup leftBehind
    \/ \E m \in Turns : turn[m] # "over" /\ x = Workflow!Status(m)
    \/ \E c \in Chats : notice[c] # "over" /\ x = Workflow!Notice(c)

(* What a stop or a clear passed by neither runs nor stays.                *)
PassedShape == Workflow!NothingStoppedRuns /\ Workflow!NothingClearedIsKept

(* The inductive invariant of the workflow.                                *)
WorkflowIInv ==
  /\ WorkflowTypes /\ OperationShape /\ GenerationShape /\ HeldShape
  /\ StatusShape /\ ClearShape /\ PassedShape /\ OwnedShape

LEMMA WorkflowIsBounded ==
  ASSUME WorkflowIInv
  PROVE  Workflow!TypeOK /\ Workflow!BoundariesHold
<1>1. Workflow!TypeOK
  BY DEF WorkflowIInv, WorkflowTypes, Workflow!TypeOK
<1>2. Workflow!EveryMessageIsOwned
  BY DEF WorkflowIInv, OwnedShape, Workflow!EveryMessageIsOwned, Workflow!InFlight
<1> QED
  BY <1>1, <1>2 DEF WorkflowIInv, PassedShape, Workflow!BoundariesHold

(* The messages of prompts and of chats are all different, each of one     *)
(* chat.                                                                   *)
LEMMA MessagesApart ==
  /\ \A m, n \in Turns : /\ Workflow!Prompt(m) = Workflow!Prompt(n) <=> m = n
                         /\ Workflow!Status(m) = Workflow!Status(n) <=> m = n
                         /\ Workflow!Prompt(m) # Workflow!Status(n)
  /\ \A m \in Turns, c \in Chats : /\ Workflow!Prompt(m) # Workflow!Notice(c)
                                   /\ Workflow!Status(m) # Workflow!Notice(c)
  /\ \A c, d \in Chats : Workflow!Notice(c) = Workflow!Notice(d) <=> c = d
BY DEF Workflow!Prompt, Workflow!Status, Workflow!Notice

LEMMA MessagesOfChat ==
  /\ \A m \in Turns, c \in Chats :
       /\ Workflow!Prompt(m) \in Workflow!AllOf(c) <=> ChatOf[m] = c
       /\ Workflow!Status(m) \in Workflow!AllOf(c) <=> ChatOf[m] = c
  /\ \A c, d \in Chats : Workflow!Notice(d) \in Workflow!AllOf(c) <=> d = c
  /\ \A m \in Turns : {Workflow!Prompt(m), Workflow!Status(m)} \subseteq Workflow!Messages
  /\ \A c \in Chats : {Workflow!Notice(c)} \cup Workflow!AllOf(c) \subseteq Workflow!Messages
  /\ \A S \in SUBSET Turns : Workflow!MessagesOf(S) \subseteq Workflow!Messages
<1>1. /\ \A m \in Turns, c \in Chats :
            /\ Workflow!Prompt(m) \in Workflow!AllOf(c) <=> ChatOf[m] = c
            /\ Workflow!Status(m) \in Workflow!AllOf(c) <=> ChatOf[m] = c
      /\ \A c, d \in Chats : Workflow!Notice(d) \in Workflow!AllOf(c) <=> d = c
  BY MessagesApart DEF Workflow!AllOf, Workflow!MessagesOf, Workflow!TurnsOf
<1>2. /\ \A m \in Turns : {Workflow!Prompt(m), Workflow!Status(m)} \subseteq Workflow!Messages
      /\ \A c \in Chats : {Workflow!Notice(c)} \cup Workflow!AllOf(c) \subseteq Workflow!Messages
  BY <1>1, WorkflowAssumption DEF Workflow!Messages
<1>3. \A S \in SUBSET Turns : Workflow!MessagesOf(S) \subseteq Workflow!Messages
  BY <1>2 DEF Workflow!MessagesOf
<1> QED
  BY <1>1, <1>2, <1>3

LEMMA WorkflowInitially ==
  ASSUME Workflow!Init
  PROVE  WorkflowIInv
<1>1. WorkflowTypes
  BY WorkflowAssumption DEF Workflow!Init, WorkflowTypes, Workflow!TurnPhases,
                            Workflow!NoticePhases
<1>2. OperationShape /\ HeldShape /\ StatusShape /\ ClearShape /\ OwnedShape
  BY DEF Workflow!Init, OperationShape, HeldShape, StatusShape, ClearShape, OwnedShape
<1>3. GenerationShape /\ PassedShape
  BY WorkflowAssumption DEF Workflow!Init, GenerationShape, PassedShape,
                            Workflow!NothingStoppedRuns, Workflow!NothingClearedIsKept
<1> QED
  BY <1>1, <1>2, <1>3 DEF WorkflowIInv

(* A step of a handler or of a publisher leaves alone what commands keep.  *)
LEMMA HandlerMoves ==
  ASSUME WorkflowIInv,
         UNCHANGED <<stopGeneration, clearGenerations, operation, token, nodes, live, stored,
                     stopped, cleared>>,
         \A m \in Turns : /\ turn[m] = "over" => turn'[m] = "over"
                          /\ turn'[m] = "new" <=> turn[m] = "new"
  PROVE  OperationShape' /\ GenerationShape' /\ HeldShape' /\ PassedShape'
<1>1. OperationShape' /\ HeldShape'
  BY DEF WorkflowIInv, OperationShape, HeldShape
<1>2. GenerationShape'
  BY DEF WorkflowIInv, WorkflowTypes, GenerationShape
<1>3. PassedShape'
  BY DEF WorkflowIInv, PassedShape, Workflow!NothingStoppedRuns, Workflow!NothingClearedIsKept
<1> QED
  BY <1>1, <1>2, <1>3

LEMMA LockIsFree ==
  ASSUME operation' = NONE
  PROVE  OperationShape' /\ HeldShape' /\ ClearShape'
BY DEF OperationShape, HeldShape, ClearShape

LEMMA ReceiveKeeps ==
  ASSUME WorkflowIInv, NEW m \in Turns, Workflow!Receive(m)
  PROVE  WorkflowIInv'
<1>1. WorkflowTypes'
  <2>1. PICK p \in {NONE} \cup (nodes \cap Workflow!TurnsOf(ChatOf[m])) :
          parent' = [parent EXCEPT ![m] = p]
    BY DEF Workflow!Receive
  <2>2. parent' \in [Turns -> Turns \cup {NONE}]
    BY <2>1 DEF WorkflowIInv, WorkflowTypes
  <2>3. token' \in [Turns -> [stop : 0..MaxStops, clear : 0..MaxClears]]
    BY WorkflowAssumption DEF WorkflowIInv, WorkflowTypes, Workflow!Receive, Workflow!Generations
  <2> QED
    BY <2>2, <2>3, MessagesOfChat DEF WorkflowIInv, WorkflowTypes, Workflow!Receive,
                                      Workflow!TurnPhases, Workflow!generations, Workflow!trees,
                                      Workflow!notices, Workflow!success
<1>2. OperationShape' /\ HeldShape' /\ ClearShape'
  BY LockIsFree DEF Workflow!Receive, Workflow!Unlocked
<1>3. GenerationShape'
  <2>1. /\ token'[m].stop = stopGeneration /\ token'[m].clear = clearGenerations[ChatOf[m]]
        /\ \A n \in Turns : n # m => token'[n] = token[n] /\ turn'[n] = turn[n]
    BY DEF WorkflowIInv, WorkflowTypes, Workflow!Receive, Workflow!Generations
  <2>2. UNCHANGED <<stopGeneration, clearGenerations, nodes, stored, cleared>> /\ turn[m] = "new"
    BY DEF Workflow!Receive, Workflow!generations, Workflow!trees, Workflow!success
  <2>3. stopGeneration \in Nat /\ \A c \in Chats : clearGenerations[c] \in Nat
    BY WorkflowAssumption DEF WorkflowIInv, WorkflowTypes
  <2> QED
    BY <2>1, <2>2, <2>3, WorkflowAssumption DEF WorkflowIInv, WorkflowTypes, GenerationShape
<1>4. StatusShape'
  BY WorkflowAssumption, MessagesApart, MessagesOfChat
     DEF WorkflowIInv, WorkflowTypes, OperationShape, GenerationShape, HeldShape, StatusShape,
         Workflow!Receive, Workflow!Unlocked, Workflow!Generations, Workflow!TurnsOf,
         Workflow!generations, Workflow!trees, Workflow!notices, Workflow!success
<1>5. PassedShape'
  BY WorkflowAssumption DEF WorkflowIInv, WorkflowTypes, OperationShape, GenerationShape,
                            HeldShape, PassedShape, Workflow!NothingStoppedRuns,
                            Workflow!NothingClearedIsKept, Workflow!Receive, Workflow!Unlocked,
                            Workflow!Generations, Workflow!TurnsOf, Workflow!generations,
                            Workflow!trees, Workflow!notices, Workflow!success
<1>6. OwnedShape'
  BY WorkflowAssumption, MessagesApart, MessagesOfChat
     DEF WorkflowIInv, WorkflowTypes, OperationShape, GenerationShape, HeldShape, StatusShape,
         ClearShape, OwnedShape, Workflow!Receive, Workflow!Unlocked, Workflow!Generations,
         Workflow!TurnsOf, Workflow!generations, Workflow!trees, Workflow!notices,
         Workflow!success
<1> QED
  BY <1>1, <1>2, <1>3, <1>4, <1>5, <1>6 DEF WorkflowIInv

LEMMA StatusAppearsKeeps ==
  ASSUME WorkflowIInv, NEW m \in Turns, Workflow!StatusAppears(m)
  PROVE  WorkflowIInv'
<1>1. WorkflowTypes'
  BY WorkflowAssumption, MessagesOfChat DEF WorkflowIInv, WorkflowTypes, OperationShape,
                                            GenerationShape, Operations, Workflow!TurnPhases,
                                            Workflow!NoticePhases, Workflow!StatusAppears,
                                            Workflow!generations, Workflow!trees,
                                            Workflow!notices, Workflow!success
<1>2. OperationShape' /\ GenerationShape' /\ HeldShape' /\ PassedShape'
  BY HandlerMoves DEF WorkflowIInv, WorkflowTypes, Workflow!StatusAppears, Workflow!generations,
                      Workflow!trees, Workflow!notices, Workflow!success
<1>3. StatusShape'
  BY WorkflowAssumption, MessagesApart, MessagesOfChat
     DEF WorkflowIInv, WorkflowTypes, OperationShape, GenerationShape, HeldShape, StatusShape,
         Workflow!StatusAppears, Workflow!generations, Workflow!trees, Workflow!notices,
         Workflow!success
<1>4. ClearShape'
  BY WorkflowAssumption, MessagesApart, MessagesOfChat
     DEF WorkflowIInv, WorkflowTypes, OperationShape, StatusShape, ClearShape, Operations,
         Workflow!StatusAppears, Workflow!generations, Workflow!trees, Workflow!notices,
         Workflow!success
<1>5. OwnedShape'
  BY WorkflowAssumption, MessagesApart, MessagesOfChat
     DEF WorkflowIInv, WorkflowTypes, OperationShape, GenerationShape, HeldShape, StatusShape,
         ClearShape, OwnedShape, Workflow!StatusAppears, Workflow!generations, Workflow!trees,
         Workflow!notices, Workflow!success
<1> QED
  BY <1>1, <1>2, <1>3, <1>4, <1>5 DEF WorkflowIInv

LEMMA StatusFailsKeeps ==
  ASSUME WorkflowIInv, NEW m \in Turns, Workflow!StatusFails(m)
  PROVE  WorkflowIInv'
<1>1. WorkflowTypes'
  BY WorkflowAssumption, MessagesOfChat DEF WorkflowIInv, WorkflowTypes, OperationShape,
                                            GenerationShape, Operations, Workflow!TurnPhases,
                                            Workflow!NoticePhases, Workflow!StatusFails,
                                            Workflow!generations, Workflow!trees,
                                            Workflow!notices, Workflow!success
<1>2. OperationShape' /\ GenerationShape' /\ HeldShape' /\ PassedShape'
  BY HandlerMoves DEF WorkflowIInv, WorkflowTypes, Workflow!StatusFails, Workflow!generations,
                      Workflow!trees, Workflow!notices, Workflow!success
<1>3. StatusShape'
  BY WorkflowAssumption, MessagesApart, MessagesOfChat
     DEF WorkflowIInv, WorkflowTypes, OperationShape, GenerationShape, HeldShape, StatusShape,
         Workflow!StatusFails, Workflow!generations, Workflow!trees, Workflow!notices,
         Workflow!success
<1>4. ClearShape'
  BY WorkflowAssumption, MessagesApart, MessagesOfChat
     DEF WorkflowIInv, WorkflowTypes, OperationShape, StatusShape, ClearShape, Operations,
         Workflow!StatusFails, Workflow!generations, Workflow!trees, Workflow!notices,
         Workflow!success
<1>5. OwnedShape'
  BY WorkflowAssumption, MessagesApart, MessagesOfChat
     DEF WorkflowIInv, WorkflowTypes, OperationShape, GenerationShape, HeldShape, StatusShape,
         ClearShape, OwnedShape, Workflow!StatusFails, Workflow!generations, Workflow!trees,
         Workflow!notices, Workflow!success
<1> QED
  BY <1>1, <1>2, <1>3, <1>4, <1>5 DEF WorkflowIInv

LEMMA RecordStatusKeeps ==
  ASSUME WorkflowIInv, NEW m \in Turns, Workflow!RecordStatus(m)
  PROVE  WorkflowIInv'
<1>1. WorkflowTypes'
  BY WorkflowAssumption, MessagesOfChat DEF WorkflowIInv, WorkflowTypes, OperationShape,
                                            GenerationShape, Operations, Workflow!TurnPhases,
                                            Workflow!NoticePhases, Workflow!RecordStatus,
                                            Workflow!generations, Workflow!trees,
                                            Workflow!notices, Workflow!success
<1>2. OperationShape' /\ GenerationShape' /\ HeldShape' /\ PassedShape'
  BY HandlerMoves DEF WorkflowIInv, WorkflowTypes, Workflow!RecordStatus, Workflow!generations,
                      Workflow!trees, Workflow!notices, Workflow!success
<1>3. StatusShape'
  BY WorkflowAssumption, MessagesApart, MessagesOfChat
     DEF WorkflowIInv, WorkflowTypes, OperationShape, GenerationShape, HeldShape, StatusShape,
         Workflow!RecordStatus, Workflow!generations, Workflow!trees, Workflow!notices,
         Workflow!success
<1>4. ClearShape'
  BY WorkflowAssumption, MessagesApart, MessagesOfChat
     DEF WorkflowIInv, WorkflowTypes, OperationShape, StatusShape, ClearShape, Operations,
         Workflow!RecordStatus, Workflow!generations, Workflow!trees, Workflow!notices,
         Workflow!success
<1>5. OwnedShape'
  BY WorkflowAssumption, MessagesApart, MessagesOfChat
     DEF WorkflowIInv, WorkflowTypes, OperationShape, GenerationShape, HeldShape, StatusShape,
         ClearShape, OwnedShape, Workflow!RecordStatus, Workflow!generations, Workflow!trees,
         Workflow!notices, Workflow!success
<1> QED
  BY <1>1, <1>2, <1>3, <1>4, <1>5 DEF WorkflowIInv

LEMMA AdmitKeeps ==
  ASSUME WorkflowIInv, NEW m \in Turns, Workflow!Admit(m)
  PROVE  WorkflowIInv'
<1>1. WorkflowTypes'
  BY WorkflowAssumption, MessagesOfChat DEF WorkflowIInv, WorkflowTypes, OperationShape,
                                            GenerationShape, Operations, Workflow!TurnPhases,
                                            Workflow!NoticePhases, Workflow!Admit,
                                            Workflow!Unlocked, Workflow!CurrentToken,
                                            Workflow!Generations, Workflow!Saved,
                                            Workflow!TreeWith, Workflow!generations,
                                            Workflow!notices, Workflow!success
<1>2. OperationShape' /\ HeldShape' /\ ClearShape'
  BY LockIsFree DEF Workflow!Admit, Workflow!Unlocked
<1>3. GenerationShape'
  BY WorkflowAssumption DEF WorkflowIInv, WorkflowTypes, OperationShape, GenerationShape,
                            Workflow!Admit, Workflow!Unlocked, Workflow!CurrentToken,
                            Workflow!Generations, Workflow!Saved, Workflow!TreeWith,
                            Workflow!generations, Workflow!notices, Workflow!success
<1>4. StatusShape'
  BY WorkflowAssumption, MessagesApart, MessagesOfChat
     DEF WorkflowIInv, WorkflowTypes, OperationShape, GenerationShape, HeldShape, StatusShape,
         Workflow!Admit, Workflow!Unlocked, Workflow!CurrentToken, Workflow!Generations,
         Workflow!Saved, Workflow!TreeWith, Workflow!generations, Workflow!notices,
         Workflow!success
<1>5. PassedShape'
  <2>1. stored' \subseteq stored \cup nodes'
    BY DEF Workflow!Admit, Workflow!Saved, Workflow!TreeWith
  <2>2. nodes' = nodes \cup {m} /\ live' = live \cup {m} /\ UNCHANGED <<token, stopped, cleared>>
    BY DEF Workflow!Admit, Workflow!success
  <2>3. token[m].stop >= stopped /\ token[m].clear >= cleared[ChatOf[m]]
    <3>1. token[m].stop = stopGeneration /\ token[m].clear = clearGenerations[ChatOf[m]]
      BY DEF Workflow!Admit, Workflow!CurrentToken, Workflow!Generations
    <3> QED
      BY <3>1, WorkflowAssumption DEF WorkflowIInv, WorkflowTypes, GenerationShape
  <2> QED
    BY <2>1, <2>2, <2>3 DEF WorkflowIInv, PassedShape, Workflow!NothingStoppedRuns,
                            Workflow!NothingClearedIsKept
<1>6. OwnedShape'
  BY WorkflowAssumption, MessagesApart, MessagesOfChat
     DEF WorkflowIInv, WorkflowTypes, OperationShape, GenerationShape, HeldShape, StatusShape,
         ClearShape, OwnedShape, Workflow!Admit, Workflow!Unlocked, Workflow!CurrentToken,
         Workflow!Generations, Workflow!Saved, Workflow!TreeWith, Workflow!generations,
         Workflow!notices, Workflow!success
<1> QED
  BY <1>1, <1>2, <1>3, <1>4, <1>5, <1>6 DEF WorkflowIInv

LEMMA RejectKeeps ==
  ASSUME WorkflowIInv, NEW m \in Turns, Workflow!Reject(m)
  PROVE  WorkflowIInv'
<1>1. WorkflowTypes'
  <2>1. \/ turn' = [turn EXCEPT ![m] = "discarding"]
        \/ turn' = [turn EXCEPT ![m] = "withdrawing"]
    BY DEF Workflow!Reject
  <2>2. turn' \in [Turns -> Workflow!TurnPhases]
    BY <2>1 DEF WorkflowIInv, WorkflowTypes, Workflow!TurnPhases
  <2> QED
    BY <2>2 DEF WorkflowIInv, WorkflowTypes, Workflow!Reject, Workflow!generations,
                Workflow!trees, Workflow!notices, Workflow!success
<1>2. OperationShape' /\ GenerationShape' /\ HeldShape' /\ PassedShape'
  BY HandlerMoves DEF WorkflowIInv, WorkflowTypes, Workflow!Reject, Workflow!generations,
                      Workflow!trees, Workflow!notices, Workflow!success
<1>3. StatusShape'
  BY WorkflowAssumption, MessagesApart, MessagesOfChat
     DEF WorkflowIInv, WorkflowTypes, OperationShape, GenerationShape, HeldShape, StatusShape,
         Workflow!Reject, Workflow!generations, Workflow!trees, Workflow!notices, Workflow!success
<1>4. ClearShape'
  BY WorkflowAssumption, MessagesApart, MessagesOfChat
     DEF WorkflowIInv, WorkflowTypes, OperationShape, StatusShape, ClearShape, Operations,
         Workflow!Reject, Workflow!generations, Workflow!trees, Workflow!notices, Workflow!success
<1>5. OwnedShape'
  BY WorkflowAssumption, MessagesApart, MessagesOfChat
     DEF WorkflowIInv, WorkflowTypes, OperationShape, GenerationShape, HeldShape, StatusShape,
         ClearShape, OwnedShape, Workflow!Reject, Workflow!generations, Workflow!trees,
         Workflow!notices, Workflow!success
<1> QED
  BY <1>1, <1>2, <1>3, <1>4, <1>5 DEF WorkflowIInv

LEMMA DiscardKeeps ==
  ASSUME WorkflowIInv, NEW m \in Turns, Workflow!Discard(m)
  PROVE  WorkflowIInv'
<1>1. WorkflowTypes'
  BY WorkflowAssumption, MessagesOfChat DEF WorkflowIInv, WorkflowTypes, OperationShape,
                                            GenerationShape, Operations, Workflow!TurnPhases,
                                            Workflow!NoticePhases, Workflow!Discard,
                                            Workflow!MessagesOf, Workflow!generations,
                                            Workflow!trees, Workflow!notices, Workflow!success
<1>2. OperationShape' /\ GenerationShape' /\ HeldShape' /\ PassedShape'
  BY HandlerMoves DEF WorkflowIInv, WorkflowTypes, Workflow!Discard, Workflow!MessagesOf,
                      Workflow!generations, Workflow!trees, Workflow!notices, Workflow!success
<1>3. StatusShape'
  BY WorkflowAssumption, MessagesApart, MessagesOfChat
     DEF WorkflowIInv, WorkflowTypes, OperationShape, GenerationShape, HeldShape, StatusShape,
         Workflow!Discard, Workflow!MessagesOf, Workflow!generations, Workflow!trees,
         Workflow!notices, Workflow!success
<1>4. ClearShape'
  BY WorkflowAssumption, MessagesApart, MessagesOfChat
     DEF WorkflowIInv, WorkflowTypes, OperationShape, StatusShape, ClearShape, Operations,
         Workflow!Discard, Workflow!MessagesOf, Workflow!generations, Workflow!trees,
         Workflow!notices, Workflow!success
<1>5. OwnedShape'
  <2> DEFINE ids == IF turn[m] = "withdrawing" THEN Workflow!MessagesOf({m})
                    ELSE {Workflow!Status(m)}
  <2>1. \A x \in chatMessages' : x \in chatMessages /\ (x \in leftBehind' \/ x \notin ids)
    BY DEF Workflow!Discard
  <2>2. Workflow!Status(m) \in ids
    BY DEF Workflow!MessagesOf
  <2>3. /\ tracked' = tracked \ ids /\ leftBehind \subseteq leftBehind'
        /\ UNCHANGED <<doomed, notice>>
    BY DEF Workflow!Discard, Workflow!notices
  <2>4. \A n \in Turns : n # m => turn'[n] = turn[n]
    BY DEF WorkflowIInv, WorkflowTypes, Workflow!Discard
  <2> HIDE DEF ids
  <2> QED
    BY <2>1, <2>2, <2>3, <2>4 DEF WorkflowIInv, OwnedShape
<1> QED
  BY <1>1, <1>2, <1>3, <1>4, <1>5 DEF WorkflowIInv

LEMMA RunnerReportsKeeps ==
  ASSUME WorkflowIInv, NEW m \in Turns, Workflow!RunnerReports(m)
  PROVE  WorkflowIInv'
<1>1. WorkflowTypes'
  BY WorkflowAssumption, MessagesOfChat DEF WorkflowIInv, WorkflowTypes, OperationShape,
                                            GenerationShape, Operations, Workflow!TurnPhases,
                                            Workflow!NoticePhases, Workflow!RunnerReports,
                                            Workflow!Saved, Workflow!TreeWith,
                                            Workflow!generations, Workflow!handlers,
                                            Workflow!notices, Workflow!success
<1>2. OperationShape'
  BY WorkflowAssumption, MessagesOfChat DEF WorkflowIInv, WorkflowTypes, OperationShape,
                                            Operations, Workflow!RunnerReports, Workflow!Saved,
                                            Workflow!TreeWith, Workflow!generations,
                                            Workflow!handlers, Workflow!notices, Workflow!success
<1>3. HeldShape'
  BY WorkflowAssumption DEF WorkflowIInv, WorkflowTypes, OperationShape, GenerationShape,
                            HeldShape, Operations, Workflow!RunnerReports, Workflow!Saved,
                            Workflow!TreeWith, Workflow!generations, Workflow!handlers,
                            Workflow!notices, Workflow!success
<1>4. GenerationShape'
  BY WorkflowAssumption DEF WorkflowIInv, WorkflowTypes, OperationShape, GenerationShape,
                            Workflow!RunnerReports, Workflow!Saved, Workflow!TreeWith,
                            Workflow!generations, Workflow!handlers, Workflow!notices,
                            Workflow!success
<1>5. StatusShape'
  BY WorkflowAssumption, MessagesApart, MessagesOfChat
     DEF WorkflowIInv, WorkflowTypes, OperationShape, GenerationShape, HeldShape, StatusShape,
         Workflow!RunnerReports, Workflow!Saved, Workflow!TreeWith, Workflow!generations,
         Workflow!handlers, Workflow!notices, Workflow!success
<1>6. ClearShape'
  BY WorkflowAssumption, MessagesApart, MessagesOfChat
     DEF WorkflowIInv, WorkflowTypes, OperationShape, StatusShape, ClearShape, Operations,
         Workflow!RunnerReports, Workflow!Saved, Workflow!TreeWith, Workflow!generations,
         Workflow!handlers, Workflow!notices, Workflow!success
<1>7. PassedShape'
  BY WorkflowAssumption DEF WorkflowIInv, WorkflowTypes, OperationShape, GenerationShape,
                            HeldShape, PassedShape, Workflow!NothingStoppedRuns,
                            Workflow!NothingClearedIsKept, Workflow!RunnerReports, Workflow!Saved,
                            Workflow!TreeWith, Workflow!generations, Workflow!handlers,
                            Workflow!notices, Workflow!success
<1>8. OwnedShape'
  BY WorkflowAssumption, MessagesApart, MessagesOfChat
     DEF WorkflowIInv, WorkflowTypes, OperationShape, GenerationShape, HeldShape, StatusShape,
         ClearShape, OwnedShape, Workflow!RunnerReports, Workflow!Saved, Workflow!TreeWith,
         Workflow!generations, Workflow!handlers, Workflow!notices, Workflow!success
<1> QED
  BY <1>1, <1>2, <1>3, <1>4, <1>5, <1>6, <1>7, <1>8 DEF WorkflowIInv

LEMMA NoticeBeginsKeeps ==
  ASSUME WorkflowIInv, NEW c \in Chats, Workflow!NoticeBegins(c)
  PROVE  WorkflowIInv'
<1>1. WorkflowTypes'
  BY WorkflowAssumption, MessagesOfChat DEF WorkflowIInv, WorkflowTypes, OperationShape,
                                            GenerationShape, Operations, Workflow!TurnPhases,
                                            Workflow!NoticePhases, Workflow!NoticeBegins,
                                            Workflow!generations, Workflow!trees,
                                            Workflow!handlers, Workflow!success
<1>2. OperationShape' /\ GenerationShape' /\ HeldShape' /\ PassedShape'
  BY HandlerMoves DEF WorkflowIInv, WorkflowTypes, Workflow!NoticeBegins, Workflow!generations,
                      Workflow!trees, Workflow!handlers, Workflow!success
<1>3. StatusShape'
  BY WorkflowAssumption, MessagesApart, MessagesOfChat
     DEF WorkflowIInv, WorkflowTypes, OperationShape, GenerationShape, HeldShape, StatusShape,
         Workflow!NoticeBegins, Workflow!generations, Workflow!trees, Workflow!handlers,
         Workflow!success
<1>4. ClearShape'
  BY LockIsFree DEF Workflow!NoticeBegins, Workflow!Unlocked
<1>5. OwnedShape'
  BY WorkflowAssumption, MessagesApart, MessagesOfChat
     DEF WorkflowIInv, WorkflowTypes, OperationShape, GenerationShape, HeldShape, StatusShape,
         ClearShape, OwnedShape, Workflow!NoticeBegins, Workflow!generations, Workflow!trees,
         Workflow!handlers, Workflow!success
<1> QED
  BY <1>1, <1>2, <1>3, <1>4, <1>5 DEF WorkflowIInv

LEMMA NoticeAppearsKeeps ==
  ASSUME WorkflowIInv, NEW c \in Chats, Workflow!NoticeAppears(c)
  PROVE  WorkflowIInv'
<1>1. WorkflowTypes'
  BY WorkflowAssumption, MessagesOfChat DEF WorkflowIInv, WorkflowTypes, OperationShape,
                                            GenerationShape, Operations, Workflow!TurnPhases,
                                            Workflow!NoticePhases, Workflow!NoticeAppears,
                                            Workflow!generations, Workflow!trees,
                                            Workflow!handlers, Workflow!success
<1>2. OperationShape' /\ GenerationShape' /\ HeldShape' /\ PassedShape'
  BY HandlerMoves DEF WorkflowIInv, WorkflowTypes, Workflow!NoticeAppears, Workflow!generations,
                      Workflow!trees, Workflow!handlers, Workflow!success
<1>3. StatusShape'
  BY WorkflowAssumption, MessagesApart, MessagesOfChat
     DEF WorkflowIInv, WorkflowTypes, OperationShape, GenerationShape, HeldShape, StatusShape,
         Workflow!NoticeAppears, Workflow!generations, Workflow!trees, Workflow!handlers,
         Workflow!success
<1>4. ClearShape'
  BY WorkflowAssumption, MessagesApart, MessagesOfChat
     DEF WorkflowIInv, WorkflowTypes, OperationShape, StatusShape, ClearShape, Operations,
         Workflow!NoticeAppears, Workflow!generations, Workflow!trees, Workflow!handlers,
         Workflow!success
<1>5. OwnedShape'
  BY WorkflowAssumption, MessagesApart, MessagesOfChat
     DEF WorkflowIInv, WorkflowTypes, OperationShape, GenerationShape, HeldShape, StatusShape,
         ClearShape, OwnedShape, Workflow!NoticeAppears, Workflow!generations, Workflow!trees,
         Workflow!handlers, Workflow!success
<1> QED
  BY <1>1, <1>2, <1>3, <1>4, <1>5 DEF WorkflowIInv

LEMMA NoticeKeptKeeps ==
  ASSUME WorkflowIInv, NEW c \in Chats, Workflow!NoticeKept(c)
  PROVE  WorkflowIInv'
<1>1. WorkflowTypes'
  BY WorkflowAssumption, MessagesOfChat DEF WorkflowIInv, WorkflowTypes, OperationShape,
                                            GenerationShape, Operations, Workflow!TurnPhases,
                                            Workflow!NoticePhases, Workflow!NoticeKept,
                                            Workflow!Unlocked, Workflow!generations,
                                            Workflow!trees, Workflow!handlers, Workflow!success
<1>2. OperationShape' /\ GenerationShape' /\ HeldShape' /\ PassedShape'
  BY HandlerMoves DEF WorkflowIInv, WorkflowTypes, Workflow!NoticeKept, Workflow!Unlocked,
                      Workflow!generations, Workflow!trees, Workflow!handlers, Workflow!success
<1>3. StatusShape'
  BY WorkflowAssumption, MessagesApart, MessagesOfChat
     DEF WorkflowIInv, WorkflowTypes, OperationShape, GenerationShape, HeldShape, StatusShape,
         Workflow!NoticeKept, Workflow!Unlocked, Workflow!generations, Workflow!trees,
         Workflow!handlers, Workflow!success
<1>4. ClearShape'
  BY LockIsFree DEF Workflow!NoticeKept, Workflow!Unlocked
<1>5. OwnedShape'
  <2>1. \A d \in Chats : d # c => notice'[d] = notice[d]
    BY DEF WorkflowIInv, WorkflowTypes, Workflow!NoticeKept
  <2>2. /\ tracked' = tracked \cup {Workflow!Notice(c)}
        /\ UNCHANGED <<turn, chatMessages, doomed, leftBehind>>
    BY DEF Workflow!NoticeKept, Workflow!handlers
  <2> QED
    BY <2>1, <2>2 DEF WorkflowIInv, OwnedShape
<1> QED
  BY <1>1, <1>2, <1>3, <1>4, <1>5 DEF WorkflowIInv

LEMMA NoticeUnwantedKeeps ==
  ASSUME WorkflowIInv, NEW c \in Chats, Workflow!NoticeUnwanted(c)
  PROVE  WorkflowIInv'
<1>1. WorkflowTypes'
  BY WorkflowAssumption, MessagesOfChat DEF WorkflowIInv, WorkflowTypes, OperationShape,
                                            GenerationShape, Operations, Workflow!TurnPhases,
                                            Workflow!NoticePhases, Workflow!NoticeUnwanted,
                                            Workflow!generations, Workflow!trees,
                                            Workflow!handlers, Workflow!success
<1>2. OperationShape' /\ GenerationShape' /\ HeldShape' /\ PassedShape'
  BY HandlerMoves DEF WorkflowIInv, WorkflowTypes, Workflow!NoticeUnwanted, Workflow!generations,
                      Workflow!trees, Workflow!handlers, Workflow!success
<1>3. StatusShape'
  BY WorkflowAssumption, MessagesApart, MessagesOfChat
     DEF WorkflowIInv, WorkflowTypes, OperationShape, GenerationShape, HeldShape, StatusShape,
         Workflow!NoticeUnwanted, Workflow!generations, Workflow!trees, Workflow!handlers,
         Workflow!success
<1>4. ClearShape'
  BY LockIsFree DEF Workflow!NoticeUnwanted, Workflow!Unlocked
<1>5. OwnedShape'
  BY WorkflowAssumption, MessagesApart, MessagesOfChat
     DEF WorkflowIInv, WorkflowTypes, OperationShape, GenerationShape, HeldShape, StatusShape,
         ClearShape, OwnedShape, Workflow!NoticeUnwanted, Workflow!generations, Workflow!trees,
         Workflow!handlers, Workflow!success
<1> QED
  BY <1>1, <1>2, <1>3, <1>4, <1>5 DEF WorkflowIInv

LEMMA NoticeDiscardedKeeps ==
  ASSUME WorkflowIInv, NEW c \in Chats, Workflow!NoticeDiscarded(c)
  PROVE  WorkflowIInv'
<1>1. WorkflowTypes'
  BY WorkflowAssumption, MessagesOfChat DEF WorkflowIInv, WorkflowTypes, OperationShape,
                                            GenerationShape, Operations, Workflow!TurnPhases,
                                            Workflow!NoticePhases, Workflow!NoticeDiscarded,
                                            Workflow!generations, Workflow!trees,
                                            Workflow!handlers, Workflow!success
<1>2. OperationShape' /\ GenerationShape' /\ HeldShape' /\ PassedShape'
  BY HandlerMoves DEF WorkflowIInv, WorkflowTypes, Workflow!NoticeDiscarded, Workflow!generations,
                      Workflow!trees, Workflow!handlers, Workflow!success
<1>3. StatusShape'
  BY WorkflowAssumption, MessagesApart, MessagesOfChat
     DEF WorkflowIInv, WorkflowTypes, OperationShape, GenerationShape, HeldShape, StatusShape,
         Workflow!NoticeDiscarded, Workflow!generations, Workflow!trees, Workflow!handlers,
         Workflow!success
<1>4. ClearShape'
  BY WorkflowAssumption, MessagesApart, MessagesOfChat
     DEF WorkflowIInv, WorkflowTypes, OperationShape, StatusShape, ClearShape, Operations,
         Workflow!NoticeDiscarded, Workflow!generations, Workflow!trees, Workflow!handlers,
         Workflow!success
<1>5. OwnedShape'
  BY WorkflowAssumption, MessagesApart, MessagesOfChat
     DEF WorkflowIInv, WorkflowTypes, OperationShape, GenerationShape, HeldShape, StatusShape,
         ClearShape, OwnedShape, Workflow!NoticeDiscarded, Workflow!generations, Workflow!trees,
         Workflow!handlers, Workflow!success
<1> QED
  BY <1>1, <1>2, <1>3, <1>4, <1>5 DEF WorkflowIInv

LEMMA NoticeTrackedKeeps ==
  ASSUME WorkflowIInv, NEW c \in Chats, Workflow!NoticeTracked(c)
  PROVE  WorkflowIInv'
<1>1. WorkflowTypes'
  BY WorkflowAssumption, MessagesOfChat DEF WorkflowIInv, WorkflowTypes, OperationShape,
                                            GenerationShape, Operations, Workflow!TurnPhases,
                                            Workflow!NoticePhases, Workflow!NoticeTracked,
                                            Workflow!Unlocked, Workflow!generations,
                                            Workflow!trees, Workflow!handlers, Workflow!success
<1>2. OperationShape' /\ GenerationShape' /\ HeldShape' /\ PassedShape'
  BY HandlerMoves DEF WorkflowIInv, WorkflowTypes, Workflow!NoticeTracked, Workflow!Unlocked,
                      Workflow!generations, Workflow!trees, Workflow!handlers, Workflow!success
<1>3. StatusShape'
  BY WorkflowAssumption, MessagesApart, MessagesOfChat
     DEF WorkflowIInv, WorkflowTypes, OperationShape, GenerationShape, HeldShape, StatusShape,
         Workflow!NoticeTracked, Workflow!Unlocked, Workflow!generations, Workflow!trees,
         Workflow!handlers, Workflow!success
<1>4. ClearShape'
  BY LockIsFree DEF Workflow!NoticeTracked, Workflow!Unlocked
<1>5. OwnedShape'
  <2>1. \A d \in Chats : d # c => notice'[d] = notice[d]
    BY DEF WorkflowIInv, WorkflowTypes, Workflow!NoticeTracked
  <2>2. /\ tracked' = tracked \cup {Workflow!Notice(c)}
        /\ UNCHANGED <<turn, chatMessages, doomed, leftBehind>>
    BY DEF Workflow!NoticeTracked, Workflow!handlers
  <2> QED
    BY <2>1, <2>2 DEF WorkflowIInv, OwnedShape
<1> QED
  BY <1>1, <1>2, <1>3, <1>4, <1>5 DEF WorkflowIInv

LEMMA StopAllBeginsKeeps ==
  ASSUME WorkflowIInv, Workflow!StopAllBegins
  PROVE  WorkflowIInv'
<1>1. WorkflowTypes'
  BY WorkflowAssumption, MessagesOfChat DEF WorkflowIInv, WorkflowTypes, OperationShape,
                                            GenerationShape, Operations, Workflow!TurnPhases,
                                            Workflow!NoticePhases, Workflow!StopAllBegins,
                                            Workflow!Op, Workflow!trees, Workflow!handlers,
                                            Workflow!notices, Workflow!success
<1>2. OperationShape'
  BY WorkflowAssumption, MessagesOfChat DEF WorkflowIInv, WorkflowTypes, OperationShape,
                                            Operations, Workflow!StopAllBegins, Workflow!Op,
                                            Workflow!trees, Workflow!handlers, Workflow!notices,
                                            Workflow!success
<1>3. HeldShape'
  BY WorkflowAssumption DEF WorkflowIInv, WorkflowTypes, OperationShape, GenerationShape,
                            HeldShape, Operations, Workflow!StopAllBegins, Workflow!Op,
                            Workflow!trees, Workflow!handlers, Workflow!notices, Workflow!success
<1>4. GenerationShape'
  BY WorkflowAssumption DEF WorkflowIInv, WorkflowTypes, OperationShape, GenerationShape,
                            Workflow!StopAllBegins, Workflow!Op, Workflow!trees,
                            Workflow!handlers, Workflow!notices, Workflow!success
<1>5. StatusShape'
  BY WorkflowAssumption, MessagesApart, MessagesOfChat
     DEF WorkflowIInv, WorkflowTypes, OperationShape, GenerationShape, HeldShape, StatusShape,
         Workflow!StopAllBegins, Workflow!Op, Workflow!trees, Workflow!handlers, Workflow!notices,
         Workflow!success
<1>6. ClearShape'
  BY WorkflowAssumption, MessagesApart, MessagesOfChat
     DEF WorkflowIInv, WorkflowTypes, OperationShape, StatusShape, ClearShape, Operations,
         Workflow!StopAllBegins, Workflow!Op, Workflow!trees, Workflow!handlers, Workflow!notices,
         Workflow!success
<1>7. PassedShape'
  BY WorkflowAssumption DEF WorkflowIInv, WorkflowTypes, OperationShape, GenerationShape,
                            HeldShape, PassedShape, Workflow!NothingStoppedRuns,
                            Workflow!NothingClearedIsKept, Workflow!StopAllBegins, Workflow!Op,
                            Workflow!trees, Workflow!handlers, Workflow!notices, Workflow!success
<1>8. OwnedShape'
  BY WorkflowAssumption, MessagesApart, MessagesOfChat
     DEF WorkflowIInv, WorkflowTypes, OperationShape, GenerationShape, HeldShape, StatusShape,
         ClearShape, OwnedShape, Workflow!StopAllBegins, Workflow!Op, Workflow!trees,
         Workflow!handlers, Workflow!notices, Workflow!success
<1> QED
  BY <1>1, <1>2, <1>3, <1>4, <1>5, <1>6, <1>7, <1>8 DEF WorkflowIInv

LEMMA StopAllCancelsKeeps ==
  ASSUME WorkflowIInv, Workflow!StopAllCancels
  PROVE  WorkflowIInv'
<1>1. WorkflowTypes'
  BY WorkflowAssumption, MessagesOfChat DEF WorkflowIInv, WorkflowTypes, OperationShape,
                                            GenerationShape, Operations, Workflow!TurnPhases,
                                            Workflow!NoticePhases, Workflow!StopAllCancels,
                                            Workflow!At, Workflow!Next, Workflow!generations,
                                            Workflow!handlers, Workflow!notices, Workflow!success
<1>2. OperationShape'
  BY WorkflowAssumption, MessagesOfChat DEF WorkflowIInv, WorkflowTypes, OperationShape,
                                            Operations, Workflow!StopAllCancels, Workflow!At,
                                            Workflow!Next, Workflow!generations,
                                            Workflow!handlers, Workflow!notices, Workflow!success
<1>3. HeldShape'
  BY WorkflowAssumption DEF WorkflowIInv, WorkflowTypes, OperationShape, GenerationShape,
                            HeldShape, Operations, Workflow!StopAllCancels, Workflow!At,
                            Workflow!Next, Workflow!generations, Workflow!handlers,
                            Workflow!notices, Workflow!success
<1>4. GenerationShape'
  BY WorkflowAssumption DEF WorkflowIInv, WorkflowTypes, OperationShape, GenerationShape,
                            Workflow!StopAllCancels, Workflow!At, Workflow!Next,
                            Workflow!generations, Workflow!handlers, Workflow!notices,
                            Workflow!success
<1>5. StatusShape'
  BY WorkflowAssumption, MessagesApart, MessagesOfChat
     DEF WorkflowIInv, WorkflowTypes, OperationShape, GenerationShape, HeldShape, StatusShape,
         Workflow!StopAllCancels, Workflow!At, Workflow!Next, Workflow!generations,
         Workflow!handlers, Workflow!notices, Workflow!success
<1>6. ClearShape'
  BY WorkflowAssumption, MessagesApart, MessagesOfChat
     DEF WorkflowIInv, WorkflowTypes, OperationShape, StatusShape, ClearShape, Operations,
         Workflow!StopAllCancels, Workflow!At, Workflow!Next, Workflow!generations,
         Workflow!handlers, Workflow!notices, Workflow!success
<1>7. PassedShape'
  BY WorkflowAssumption DEF WorkflowIInv, WorkflowTypes, OperationShape, GenerationShape,
                            HeldShape, PassedShape, Workflow!NothingStoppedRuns,
                            Workflow!NothingClearedIsKept, Workflow!StopAllCancels, Workflow!At,
                            Workflow!Next, Workflow!generations, Workflow!handlers,
                            Workflow!notices, Workflow!success
<1>8. OwnedShape'
  BY WorkflowAssumption, MessagesApart, MessagesOfChat
     DEF WorkflowIInv, WorkflowTypes, OperationShape, GenerationShape, HeldShape, StatusShape,
         ClearShape, OwnedShape, Workflow!StopAllCancels, Workflow!At, Workflow!Next,
         Workflow!generations, Workflow!handlers, Workflow!notices, Workflow!success
<1> QED
  BY <1>1, <1>2, <1>3, <1>4, <1>5, <1>6, <1>7, <1>8 DEF WorkflowIInv

LEMMA StopAllEndsKeeps ==
  ASSUME WorkflowIInv, Workflow!StopAllEnds
  PROVE  WorkflowIInv'
<1>1. WorkflowTypes'
  BY WorkflowAssumption, MessagesOfChat DEF WorkflowIInv, WorkflowTypes, OperationShape,
                                            GenerationShape, Operations, Workflow!TurnPhases,
                                            Workflow!NoticePhases, Workflow!StopAllEnds,
                                            Workflow!At, Workflow!generations, Workflow!trees,
                                            Workflow!handlers, Workflow!notices
<1>2. OperationShape' /\ HeldShape' /\ ClearShape'
  BY LockIsFree DEF Workflow!StopAllEnds, Workflow!At
<1>3. GenerationShape'
  BY WorkflowAssumption DEF WorkflowIInv, WorkflowTypes, OperationShape, GenerationShape,
                            Workflow!StopAllEnds, Workflow!At, Workflow!generations,
                            Workflow!trees, Workflow!handlers, Workflow!notices
<1>4. StatusShape'
  BY WorkflowAssumption, MessagesApart, MessagesOfChat
     DEF WorkflowIInv, WorkflowTypes, OperationShape, GenerationShape, HeldShape, StatusShape,
         Workflow!StopAllEnds, Workflow!At, Workflow!generations, Workflow!trees,
         Workflow!handlers, Workflow!notices
<1>5. PassedShape'
  BY WorkflowAssumption DEF WorkflowIInv, WorkflowTypes, OperationShape, GenerationShape,
                            HeldShape, PassedShape, Workflow!NothingStoppedRuns,
                            Workflow!NothingClearedIsKept, Workflow!StopAllEnds, Workflow!At,
                            Workflow!generations, Workflow!trees, Workflow!handlers,
                            Workflow!notices
<1>6. OwnedShape'
  BY WorkflowAssumption, MessagesApart, MessagesOfChat
     DEF WorkflowIInv, WorkflowTypes, OperationShape, GenerationShape, HeldShape, StatusShape,
         ClearShape, OwnedShape, Workflow!StopAllEnds, Workflow!At, Workflow!generations,
         Workflow!trees, Workflow!handlers, Workflow!notices
<1> QED
  BY <1>1, <1>2, <1>3, <1>4, <1>5, <1>6 DEF WorkflowIInv

LEMMA StopReplyKeeps ==
  ASSUME WorkflowIInv, NEW m \in Turns, Workflow!StopReply(m)
  PROVE  WorkflowIInv'
<1>1. WorkflowTypes'
  BY WorkflowAssumption, MessagesOfChat DEF WorkflowIInv, WorkflowTypes, OperationShape,
                                            GenerationShape, Operations, Workflow!TurnPhases,
                                            Workflow!NoticePhases, Workflow!StopReply,
                                            Workflow!Op, Workflow!generations, Workflow!handlers,
                                            Workflow!notices, Workflow!success
<1>2. OperationShape'
  BY WorkflowAssumption, MessagesOfChat DEF WorkflowIInv, WorkflowTypes, OperationShape,
                                            Operations, Workflow!StopReply, Workflow!Op,
                                            Workflow!generations, Workflow!handlers,
                                            Workflow!notices, Workflow!success
<1>3. HeldShape'
  BY WorkflowAssumption DEF WorkflowIInv, WorkflowTypes, OperationShape, GenerationShape,
                            HeldShape, Operations, Workflow!StopReply, Workflow!Op,
                            Workflow!generations, Workflow!handlers, Workflow!notices,
                            Workflow!success
<1>4. GenerationShape'
  BY WorkflowAssumption DEF WorkflowIInv, WorkflowTypes, OperationShape, GenerationShape,
                            Workflow!StopReply, Workflow!Op, Workflow!generations,
                            Workflow!handlers, Workflow!notices, Workflow!success
<1>5. StatusShape'
  BY WorkflowAssumption, MessagesApart, MessagesOfChat
     DEF WorkflowIInv, WorkflowTypes, OperationShape, GenerationShape, HeldShape, StatusShape,
         Workflow!StopReply, Workflow!Op, Workflow!generations, Workflow!handlers,
         Workflow!notices, Workflow!success
<1>6. ClearShape'
  BY WorkflowAssumption, MessagesApart, MessagesOfChat
     DEF WorkflowIInv, WorkflowTypes, OperationShape, StatusShape, ClearShape, Operations,
         Workflow!StopReply, Workflow!Op, Workflow!generations, Workflow!handlers,
         Workflow!notices, Workflow!success
<1>7. PassedShape'
  BY WorkflowAssumption DEF WorkflowIInv, WorkflowTypes, OperationShape, GenerationShape,
                            HeldShape, PassedShape, Workflow!NothingStoppedRuns,
                            Workflow!NothingClearedIsKept, Workflow!StopReply, Workflow!Op,
                            Workflow!generations, Workflow!handlers, Workflow!notices,
                            Workflow!success
<1>8. OwnedShape'
  BY WorkflowAssumption, MessagesApart, MessagesOfChat
     DEF WorkflowIInv, WorkflowTypes, OperationShape, GenerationShape, HeldShape, StatusShape,
         ClearShape, OwnedShape, Workflow!StopReply, Workflow!Op, Workflow!generations,
         Workflow!handlers, Workflow!notices, Workflow!success
<1> QED
  BY <1>1, <1>2, <1>3, <1>4, <1>5, <1>6, <1>7, <1>8 DEF WorkflowIInv

LEMMA StopReplyEndsKeeps ==
  ASSUME WorkflowIInv, Workflow!StopReplyEnds
  PROVE  WorkflowIInv'
<1>1. WorkflowTypes'
  BY WorkflowAssumption, MessagesOfChat DEF WorkflowIInv, WorkflowTypes, OperationShape,
                                            GenerationShape, Operations, Workflow!TurnPhases,
                                            Workflow!NoticePhases, Workflow!StopReplyEnds,
                                            Workflow!At, Workflow!Saved, Workflow!TreeWith,
                                            Workflow!generations, Workflow!trees,
                                            Workflow!handlers, Workflow!notices, Workflow!success
<1>2. OperationShape' /\ HeldShape' /\ ClearShape'
  BY LockIsFree DEF Workflow!StopReplyEnds, Workflow!At
<1>3. GenerationShape'
  BY WorkflowAssumption DEF WorkflowIInv, WorkflowTypes, OperationShape, GenerationShape,
                            Workflow!StopReplyEnds, Workflow!At, Workflow!Saved,
                            Workflow!TreeWith, Workflow!generations, Workflow!trees,
                            Workflow!handlers, Workflow!notices, Workflow!success
<1>4. StatusShape'
  BY WorkflowAssumption, MessagesApart, MessagesOfChat
     DEF WorkflowIInv, WorkflowTypes, OperationShape, GenerationShape, HeldShape, StatusShape,
         Workflow!StopReplyEnds, Workflow!At, Workflow!Saved, Workflow!TreeWith,
         Workflow!generations, Workflow!trees, Workflow!handlers, Workflow!notices,
         Workflow!success
<1>5. PassedShape'
  BY WorkflowAssumption DEF WorkflowIInv, WorkflowTypes, OperationShape, GenerationShape,
                            HeldShape, PassedShape, Workflow!NothingStoppedRuns,
                            Workflow!NothingClearedIsKept, Workflow!StopReplyEnds, Workflow!At,
                            Workflow!Saved, Workflow!TreeWith, Workflow!generations,
                            Workflow!trees, Workflow!handlers, Workflow!notices, Workflow!success
<1>6. OwnedShape'
  BY WorkflowAssumption, MessagesApart, MessagesOfChat
     DEF WorkflowIInv, WorkflowTypes, OperationShape, GenerationShape, HeldShape, StatusShape,
         ClearShape, OwnedShape, Workflow!StopReplyEnds, Workflow!At, Workflow!Saved,
         Workflow!TreeWith, Workflow!generations, Workflow!trees, Workflow!handlers,
         Workflow!notices, Workflow!success
<1> QED
  BY <1>1, <1>2, <1>3, <1>4, <1>5, <1>6 DEF WorkflowIInv

LEMMA ClearReplyKeeps ==
  ASSUME WorkflowIInv, NEW m \in Turns, Workflow!ClearReply(m)
  PROVE  WorkflowIInv'
<1>1. WorkflowTypes'
  BY WorkflowAssumption, MessagesOfChat DEF WorkflowIInv, WorkflowTypes, OperationShape,
                                            GenerationShape, Operations, Workflow!TurnPhases,
                                            Workflow!NoticePhases, Workflow!ClearReply,
                                            Workflow!Op, Workflow!generations, Workflow!handlers,
                                            Workflow!notices, Workflow!success
<1>2. OperationShape'
  <2>1. Workflow!Subtree(m) \subseteq Turns
    BY DEF Workflow!Subtree, WorkflowIInv, WorkflowTypes
  <2>2. Workflow!MessagesOf(Workflow!Subtree(m)) \in SUBSET Workflow!Messages
    BY <2>1, MessagesOfChat
  <2> QED
    BY <2>2 DEF OperationShape, Operations, Workflow!ClearReply, Workflow!Op
<1>3. HeldShape'
  BY WorkflowAssumption DEF WorkflowIInv, WorkflowTypes, OperationShape, GenerationShape,
                            HeldShape, Operations, Workflow!ClearReply, Workflow!Op,
                            Workflow!generations, Workflow!handlers, Workflow!notices,
                            Workflow!success
<1>4. GenerationShape'
  BY WorkflowAssumption DEF WorkflowIInv, WorkflowTypes, OperationShape, GenerationShape,
                            Workflow!ClearReply, Workflow!Op, Workflow!generations,
                            Workflow!handlers, Workflow!notices, Workflow!success
<1>5. StatusShape'
  BY WorkflowAssumption, MessagesApart, MessagesOfChat
     DEF WorkflowIInv, WorkflowTypes, OperationShape, GenerationShape, HeldShape, StatusShape,
         Workflow!ClearReply, Workflow!Op, Workflow!generations, Workflow!handlers,
         Workflow!notices, Workflow!success
<1>6. ClearShape'
  BY WorkflowAssumption, MessagesApart, MessagesOfChat
     DEF WorkflowIInv, WorkflowTypes, OperationShape, StatusShape, ClearShape, Operations,
         Workflow!ClearReply, Workflow!Op, Workflow!generations, Workflow!handlers,
         Workflow!notices, Workflow!success
<1>7. PassedShape'
  BY WorkflowAssumption DEF WorkflowIInv, WorkflowTypes, OperationShape, GenerationShape,
                            HeldShape, PassedShape, Workflow!NothingStoppedRuns,
                            Workflow!NothingClearedIsKept, Workflow!ClearReply, Workflow!Op,
                            Workflow!generations, Workflow!handlers, Workflow!notices,
                            Workflow!success
<1>8. OwnedShape'
  BY WorkflowAssumption, MessagesApart, MessagesOfChat
     DEF WorkflowIInv, WorkflowTypes, OperationShape, GenerationShape, HeldShape, StatusShape,
         ClearShape, OwnedShape, Workflow!ClearReply, Workflow!Op, Workflow!generations,
         Workflow!handlers, Workflow!notices, Workflow!success
<1> QED
  BY <1>1, <1>2, <1>3, <1>4, <1>5, <1>6, <1>7, <1>8 DEF WorkflowIInv

LEMMA ClearReplyEndsKeeps ==
  ASSUME WorkflowIInv, Workflow!ClearReplyEnds
  PROVE  WorkflowIInv'
<1>1. WorkflowTypes'
  BY WorkflowAssumption, MessagesOfChat DEF WorkflowIInv, WorkflowTypes, OperationShape,
                                            GenerationShape, Operations, Workflow!TurnPhases,
                                            Workflow!NoticePhases, Workflow!ClearReplyEnds,
                                            Workflow!At, Workflow!Saved, Workflow!TreeWith,
                                            Workflow!generations, Workflow!trees,
                                            Workflow!handlers, Workflow!notices, Workflow!success
<1>2. OperationShape' /\ HeldShape' /\ ClearShape'
  BY LockIsFree DEF Workflow!ClearReplyEnds, Workflow!At
<1>3. GenerationShape'
  BY WorkflowAssumption DEF WorkflowIInv, WorkflowTypes, OperationShape, GenerationShape,
                            Workflow!ClearReplyEnds, Workflow!At, Workflow!Saved,
                            Workflow!TreeWith, Workflow!generations, Workflow!trees,
                            Workflow!handlers, Workflow!notices, Workflow!success
<1>4. StatusShape'
  BY WorkflowAssumption, MessagesApart, MessagesOfChat
     DEF WorkflowIInv, WorkflowTypes, OperationShape, GenerationShape, HeldShape, StatusShape,
         Workflow!ClearReplyEnds, Workflow!At, Workflow!Saved, Workflow!TreeWith,
         Workflow!generations, Workflow!trees, Workflow!handlers, Workflow!notices,
         Workflow!success
<1>5. PassedShape'
  BY WorkflowAssumption DEF WorkflowIInv, WorkflowTypes, OperationShape, GenerationShape,
                            HeldShape, PassedShape, Workflow!NothingStoppedRuns,
                            Workflow!NothingClearedIsKept, Workflow!ClearReplyEnds, Workflow!At,
                            Workflow!Saved, Workflow!TreeWith, Workflow!generations,
                            Workflow!trees, Workflow!handlers, Workflow!notices, Workflow!success
<1>6. OwnedShape'
  BY WorkflowAssumption, MessagesApart, MessagesOfChat
     DEF WorkflowIInv, WorkflowTypes, OperationShape, GenerationShape, HeldShape, StatusShape,
         ClearShape, OwnedShape, Workflow!ClearReplyEnds, Workflow!At, Workflow!Saved,
         Workflow!TreeWith, Workflow!generations, Workflow!trees, Workflow!handlers,
         Workflow!notices, Workflow!success
<1> QED
  BY <1>1, <1>2, <1>3, <1>4, <1>5, <1>6 DEF WorkflowIInv

LEMMA ClearBeginsKeeps ==
  ASSUME WorkflowIInv, NEW c \in Chats, Workflow!ClearBegins(c)
  PROVE  WorkflowIInv'
<1>1. WorkflowTypes'
  BY WorkflowAssumption, MessagesOfChat DEF WorkflowIInv, WorkflowTypes, OperationShape,
                                            GenerationShape, Operations, Workflow!TurnPhases,
                                            Workflow!NoticePhases, Workflow!ClearBegins,
                                            Workflow!Op, Workflow!Unlocked, Workflow!generations,
                                            Workflow!trees, Workflow!handlers, Workflow!notices,
                                            Workflow!success
<1>2. OperationShape'
  BY WorkflowAssumption, MessagesOfChat DEF WorkflowIInv, WorkflowTypes, OperationShape,
                                            Operations, Workflow!ClearBegins, Workflow!Op,
                                            Workflow!Unlocked, Workflow!generations,
                                            Workflow!trees, Workflow!handlers, Workflow!notices,
                                            Workflow!success
<1>3. HeldShape'
  BY WorkflowAssumption DEF WorkflowIInv, WorkflowTypes, OperationShape, GenerationShape,
                            HeldShape, Operations, Workflow!ClearBegins, Workflow!Op,
                            Workflow!Unlocked, Workflow!generations, Workflow!trees,
                            Workflow!handlers, Workflow!notices, Workflow!success
<1>4. GenerationShape'
  BY WorkflowAssumption DEF WorkflowIInv, WorkflowTypes, OperationShape, GenerationShape,
                            Workflow!ClearBegins, Workflow!Op, Workflow!Unlocked,
                            Workflow!generations, Workflow!trees, Workflow!handlers,
                            Workflow!notices, Workflow!success
<1>5. StatusShape'
  BY WorkflowAssumption, MessagesApart, MessagesOfChat
     DEF WorkflowIInv, WorkflowTypes, OperationShape, GenerationShape, HeldShape, StatusShape,
         Workflow!ClearBegins, Workflow!Op, Workflow!Unlocked, Workflow!generations,
         Workflow!trees, Workflow!handlers, Workflow!notices, Workflow!success
<1>6. ClearShape'
  BY WorkflowAssumption, MessagesApart, MessagesOfChat
     DEF WorkflowIInv, WorkflowTypes, OperationShape, StatusShape, ClearShape, Operations,
         Workflow!ClearBegins, Workflow!Op, Workflow!Unlocked, Workflow!generations,
         Workflow!trees, Workflow!handlers, Workflow!notices, Workflow!success
<1>7. PassedShape'
  BY WorkflowAssumption DEF WorkflowIInv, WorkflowTypes, OperationShape, GenerationShape,
                            HeldShape, PassedShape, Workflow!NothingStoppedRuns,
                            Workflow!NothingClearedIsKept, Workflow!ClearBegins, Workflow!Op,
                            Workflow!Unlocked, Workflow!generations, Workflow!trees,
                            Workflow!handlers, Workflow!notices, Workflow!success
<1>8. OwnedShape'
  BY WorkflowAssumption, MessagesApart, MessagesOfChat
     DEF WorkflowIInv, WorkflowTypes, OperationShape, GenerationShape, HeldShape, StatusShape,
         ClearShape, OwnedShape, Workflow!ClearBegins, Workflow!Op, Workflow!Unlocked,
         Workflow!generations, Workflow!trees, Workflow!handlers, Workflow!notices,
         Workflow!success
<1> QED
  BY <1>1, <1>2, <1>3, <1>4, <1>5, <1>6, <1>7, <1>8 DEF WorkflowIInv

LEMMA ClearCommitsKeeps ==
  ASSUME WorkflowIInv, Workflow!ClearCommits
  PROVE  WorkflowIInv'
<1>1. WorkflowTypes'
  BY WorkflowAssumption, MessagesOfChat DEF WorkflowIInv, WorkflowTypes, OperationShape,
                                            GenerationShape, Operations, Workflow!TurnPhases,
                                            Workflow!NoticePhases, Workflow!ClearCommits,
                                            Workflow!At, Workflow!trees, Workflow!handlers,
                                            Workflow!notices, Workflow!success
<1>2. OperationShape'
  BY WorkflowAssumption, MessagesOfChat DEF WorkflowIInv, WorkflowTypes, OperationShape,
                                            Operations, Workflow!ClearCommits, Workflow!At,
                                            Workflow!trees, Workflow!handlers, Workflow!notices,
                                            Workflow!success
<1>3. HeldShape'
  BY WorkflowAssumption DEF WorkflowIInv, WorkflowTypes, OperationShape, GenerationShape,
                            HeldShape, Operations, Workflow!ClearCommits, Workflow!At,
                            Workflow!trees, Workflow!handlers, Workflow!notices, Workflow!success
<1>4. GenerationShape'
  BY WorkflowAssumption DEF WorkflowIInv, WorkflowTypes, OperationShape, GenerationShape,
                            Workflow!ClearCommits, Workflow!At, Workflow!trees, Workflow!handlers,
                            Workflow!notices, Workflow!success
<1>5. StatusShape'
  BY WorkflowAssumption, MessagesApart, MessagesOfChat
     DEF WorkflowIInv, WorkflowTypes, OperationShape, GenerationShape, HeldShape, StatusShape,
         Workflow!ClearCommits, Workflow!At, Workflow!trees, Workflow!handlers, Workflow!notices,
         Workflow!success
<1>6. ClearShape'
  BY WorkflowAssumption, MessagesApart, MessagesOfChat
     DEF WorkflowIInv, WorkflowTypes, OperationShape, StatusShape, ClearShape, Operations,
         Workflow!ClearCommits, Workflow!At, Workflow!trees, Workflow!handlers, Workflow!notices,
         Workflow!success
<1>7. PassedShape'
  BY WorkflowAssumption DEF WorkflowIInv, WorkflowTypes, OperationShape, GenerationShape,
                            HeldShape, PassedShape, Workflow!NothingStoppedRuns,
                            Workflow!NothingClearedIsKept, Workflow!ClearCommits, Workflow!At,
                            Workflow!trees, Workflow!handlers, Workflow!notices, Workflow!success
<1>8. OwnedShape'
  BY WorkflowAssumption, MessagesApart, MessagesOfChat
     DEF WorkflowIInv, WorkflowTypes, OperationShape, GenerationShape, HeldShape, StatusShape,
         ClearShape, OwnedShape, Workflow!ClearCommits, Workflow!At, Workflow!trees,
         Workflow!handlers, Workflow!notices, Workflow!success
<1> QED
  BY <1>1, <1>2, <1>3, <1>4, <1>5, <1>6, <1>7, <1>8 DEF WorkflowIInv

LEMMA ClearDetachesKeeps ==
  ASSUME WorkflowIInv, Workflow!ClearDetaches
  PROVE  WorkflowIInv'
<1>1. WorkflowTypes'
  BY WorkflowAssumption, MessagesOfChat DEF WorkflowIInv, WorkflowTypes, OperationShape,
                                            GenerationShape, Operations, Workflow!TurnPhases,
                                            Workflow!NoticePhases, Workflow!ClearDetaches,
                                            Workflow!At, Workflow!TurnsOf, Workflow!generations,
                                            Workflow!handlers, Workflow!notices, Workflow!success
<1>2. OperationShape'
  BY WorkflowAssumption, MessagesOfChat DEF WorkflowIInv, WorkflowTypes, OperationShape,
                                            Operations, Workflow!ClearDetaches, Workflow!At,
                                            Workflow!TurnsOf, Workflow!generations,
                                            Workflow!handlers, Workflow!notices, Workflow!success
<1>3. HeldShape'
  BY WorkflowAssumption DEF WorkflowIInv, WorkflowTypes, OperationShape, GenerationShape,
                            HeldShape, Operations, Workflow!ClearDetaches, Workflow!At,
                            Workflow!TurnsOf, Workflow!generations, Workflow!handlers,
                            Workflow!notices, Workflow!success
<1>4. GenerationShape'
  BY WorkflowAssumption DEF WorkflowIInv, WorkflowTypes, OperationShape, GenerationShape,
                            Workflow!ClearDetaches, Workflow!At, Workflow!TurnsOf,
                            Workflow!generations, Workflow!handlers, Workflow!notices,
                            Workflow!success
<1>5. StatusShape'
  BY WorkflowAssumption, MessagesApart, MessagesOfChat
     DEF WorkflowIInv, WorkflowTypes, OperationShape, GenerationShape, HeldShape, StatusShape,
         Workflow!ClearDetaches, Workflow!At, Workflow!TurnsOf, Workflow!generations,
         Workflow!handlers, Workflow!notices, Workflow!success
<1>6. ClearShape'
  BY WorkflowAssumption, MessagesApart, MessagesOfChat
     DEF WorkflowIInv, WorkflowTypes, OperationShape, StatusShape, ClearShape, Operations,
         Workflow!ClearDetaches, Workflow!At, Workflow!TurnsOf, Workflow!generations,
         Workflow!handlers, Workflow!notices, Workflow!success
<1>7. PassedShape'
  BY WorkflowAssumption DEF WorkflowIInv, WorkflowTypes, OperationShape, GenerationShape,
                            HeldShape, PassedShape, Workflow!NothingStoppedRuns,
                            Workflow!NothingClearedIsKept, Workflow!ClearDetaches, Workflow!At,
                            Workflow!TurnsOf, Workflow!generations, Workflow!handlers,
                            Workflow!notices, Workflow!success
<1>8. OwnedShape'
  BY WorkflowAssumption, MessagesApart, MessagesOfChat
     DEF WorkflowIInv, WorkflowTypes, OperationShape, GenerationShape, HeldShape, StatusShape,
         ClearShape, OwnedShape, Workflow!ClearDetaches, Workflow!At, Workflow!TurnsOf,
         Workflow!generations, Workflow!handlers, Workflow!notices, Workflow!success
<1> QED
  BY <1>1, <1>2, <1>3, <1>4, <1>5, <1>6, <1>7, <1>8 DEF WorkflowIInv

LEMMA ClearEndsKeeps ==
  ASSUME WorkflowIInv, Workflow!ClearEnds
  PROVE  WorkflowIInv'
<1>1. WorkflowTypes'
  BY WorkflowAssumption, MessagesOfChat DEF WorkflowIInv, WorkflowTypes, OperationShape,
                                            GenerationShape, Operations, Workflow!TurnPhases,
                                            Workflow!NoticePhases, Workflow!ClearEnds,
                                            Workflow!At, Workflow!TurnsOf, Workflow!generations,
                                            Workflow!trees, Workflow!handlers, Workflow!notices
<1>2. OperationShape' /\ HeldShape' /\ ClearShape'
  BY LockIsFree DEF Workflow!ClearEnds, Workflow!At
<1>3. GenerationShape'
  BY WorkflowAssumption DEF WorkflowIInv, WorkflowTypes, OperationShape, GenerationShape,
                            Workflow!ClearEnds, Workflow!At, Workflow!TurnsOf,
                            Workflow!generations, Workflow!trees, Workflow!handlers,
                            Workflow!notices
<1>4. StatusShape'
  BY WorkflowAssumption, MessagesApart, MessagesOfChat
     DEF WorkflowIInv, WorkflowTypes, OperationShape, GenerationShape, HeldShape, StatusShape,
         Workflow!ClearEnds, Workflow!At, Workflow!TurnsOf, Workflow!generations, Workflow!trees,
         Workflow!handlers, Workflow!notices
<1>5. PassedShape'
  BY WorkflowAssumption DEF WorkflowIInv, WorkflowTypes, OperationShape, GenerationShape,
                            HeldShape, PassedShape, Workflow!NothingStoppedRuns,
                            Workflow!NothingClearedIsKept, Workflow!ClearEnds, Workflow!At,
                            Workflow!TurnsOf, Workflow!generations, Workflow!trees,
                            Workflow!handlers, Workflow!notices
<1>6. OwnedShape'
  BY WorkflowAssumption, MessagesApart, MessagesOfChat
     DEF WorkflowIInv, WorkflowTypes, OperationShape, GenerationShape, HeldShape, StatusShape,
         ClearShape, OwnedShape, Workflow!ClearEnds, Workflow!At, Workflow!TurnsOf,
         Workflow!generations, Workflow!trees, Workflow!handlers, Workflow!notices
<1> QED
  BY <1>1, <1>2, <1>3, <1>4, <1>5, <1>6 DEF WorkflowIInv

LEMMA DeleteKeeps ==
  ASSUME WorkflowIInv, Workflow!Delete
  PROVE  WorkflowIInv'
<1>1. WorkflowTypes'
  BY WorkflowAssumption, MessagesOfChat DEF WorkflowIInv, WorkflowTypes, OperationShape,
                                            GenerationShape, Operations, Workflow!TurnPhases,
                                            Workflow!NoticePhases, Workflow!Delete,
                                            Workflow!generations, Workflow!trees,
                                            Workflow!handlers, Workflow!notices, Workflow!success
<1>2. OperationShape' /\ GenerationShape' /\ HeldShape' /\ PassedShape'
  BY HandlerMoves DEF WorkflowIInv, WorkflowTypes, Workflow!Delete, Workflow!generations,
                      Workflow!trees, Workflow!handlers, Workflow!notices, Workflow!success
<1>3. StatusShape'
  BY WorkflowAssumption, MessagesApart, MessagesOfChat
     DEF WorkflowIInv, WorkflowTypes, OperationShape, GenerationShape, HeldShape, StatusShape,
         Workflow!Delete, Workflow!generations, Workflow!trees, Workflow!handlers,
         Workflow!notices, Workflow!success
<1>4. ClearShape'
  BY WorkflowAssumption, MessagesApart, MessagesOfChat
     DEF WorkflowIInv, WorkflowTypes, OperationShape, StatusShape, ClearShape, Operations,
         Workflow!Delete, Workflow!generations, Workflow!trees, Workflow!handlers,
         Workflow!notices, Workflow!success
<1>5. OwnedShape'
  BY WorkflowAssumption, MessagesApart, MessagesOfChat
     DEF WorkflowIInv, WorkflowTypes, OperationShape, GenerationShape, HeldShape, StatusShape,
         ClearShape, OwnedShape, Workflow!Delete, Workflow!generations, Workflow!trees,
         Workflow!handlers, Workflow!notices, Workflow!success
<1> QED
  BY <1>1, <1>2, <1>3, <1>4, <1>5 DEF WorkflowIInv

LEMMA WorkflowStepKeeps ==
  ASSUME WorkflowIInv, [Workflow!WorkflowNext]_Workflow!vars
  PROVE  WorkflowIInv'
<1>1. CASE UNCHANGED Workflow!vars
  BY <1>1 DEF Workflow!vars, WorkflowIInv, WorkflowTypes, OperationShape, GenerationShape,
              HeldShape, StatusShape, ClearShape, PassedShape, Workflow!NothingStoppedRuns,
              Workflow!NothingClearedIsKept, OwnedShape
<1>2. ASSUME NEW m \in Turns, Workflow!Handle(m)
      PROVE  WorkflowIInv'
  BY <1>2, ReceiveKeeps, StatusAppearsKeeps, StatusFailsKeeps, RecordStatusKeeps, AdmitKeeps,
     RejectKeeps, DiscardKeeps, RunnerReportsKeeps DEF Workflow!Handle
<1>3. ASSUME NEW c \in Chats, Workflow!Publish(c)
      PROVE  WorkflowIInv'
  BY <1>3, NoticeBeginsKeeps, NoticeAppearsKeeps, NoticeKeptKeeps, NoticeUnwantedKeeps,
     NoticeDiscardedKeeps, NoticeTrackedKeeps DEF Workflow!Publish
<1>4. CASE Workflow!Stop
  BY <1>4, StopAllBeginsKeeps, StopAllCancelsKeeps, StopAllEndsKeeps, StopReplyKeeps,
     StopReplyEndsKeeps DEF Workflow!Stop
<1>5. CASE Workflow!Clear
  BY <1>5, ClearCommitsKeeps, ClearDetachesKeeps, ClearEndsKeeps, ClearReplyEndsKeeps,
     DeleteKeeps, ClearReplyKeeps, ClearBeginsKeeps DEF Workflow!Clear
<1> QED
  BY <1>1, <1>2, <1>3, <1>4, <1>5 DEF Workflow!WorkflowNext

(* Stops and clears are boundaries: nothing that was received before one   *)
(* that succeeded runs, is in a tree or is restored after it, and every    *)
(* message that stays on the platform can be deleted by a later clear; for *)
(* any number of prompts, chats, stops and clears.                         *)
THEOREM WorkflowCorrect ==
  MCSpec => []BoundariesHold
<1>1. MCInit => WorkflowIInv
  BY WorkflowInitially DEF MCInit
<1>2. [MCNext]_allVars => [Workflow!WorkflowNext]_Workflow!vars
  BY Zenon DEF MCNext, allVars, workflowVars, Workflow!vars
<1>3. WorkflowIInv /\ [MCNext]_allVars => WorkflowIInv'
  BY <1>2, WorkflowStepKeeps
<1>4. WorkflowIInv => BoundariesHold
  BY WorkflowIsBounded DEF BoundariesHold
<1> QED
  BY <1>1, <1>3, <1>4, PTL DEF MCSpec

-----------------------------------------------------------------------------
(* The voice notes.                                                        *)

(* A reference that stands is the note's or the status message's of a claim*)
(* whose flow is under way, and a claim has a status message only after it *)
(* was reserved.                                                           *)
ReferenceShape ==
  /\ \A c \in Claims, r \in Voice!Refs :
       notes[r] = c => /\ r = VoiceOf[c] \/ r = c
                       /\ flow[c] \notin {"idle", "over"}
  /\ \A c \in bound : flow[c] \notin {"idle", "reserved"}

(* A claim that was taken away has left no reference, and started no       *)
(* handoff since.                                                          *)
TakenShape ==
  /\ \A x \in Voice!Cancellers : \A c \in taking[x] :
       /\ flow[c] # "idle" /\ \A r \in Voice!Refs : notes[r] # c
       /\ c \notin draining[x] => handoff[c] = "none"
  /\ \A x \in Voice!Cancellers :
       draining[x] \subseteq taking[x] /\ \A c \in draining[x] : handoff[c] # "none"
  /\ \A c \in reported \cup completed :
       flow[c] # "idle" /\ \A r \in Voice!Refs : notes[r] # c

(* The inductive invariant of the voice notes.                             *)
VoiceIInv == Voice!TypeOK /\ ReferenceShape /\ TakenShape /\ Voice!VoiceHasOneOwner

LEMMA VoiceInitially ==
  ASSUME Voice!Init
  PROVE  VoiceIInv
<1>1. Voice!TypeOK
  BY DEF Voice!Init, Voice!TypeOK
<1>2. ReferenceShape /\ TakenShape
  BY VoiceAssumption DEF Voice!Init, ReferenceShape, TakenShape
<1>3. Voice!OneOutcome /\ Voice!StoppedHasEnded
  BY DEF Voice!Init, Voice!OneOutcome, Voice!StoppedHasEnded
<1>4. Voice!NoStaleReference
  BY VoiceAssumption DEF Voice!Init, Voice!NoStaleReference, Voice!Owned, Voice!Refs
<1>5. Voice!NoMutualDrain
  <2> SUFFICES ASSUME NEW S \in (SUBSET Claims) \ {{}}
               PROVE  \E x \in S : draining[x] \cap S \cap {c \in Claims : ~Voice!Ended(c)} = {}
    BY DEF Voice!NoMutualDrain
  <2>1. PICK x \in S : TRUE
    OBVIOUS
  <2>2. draining[x] = {}
    BY <2>1 DEF Voice!Init, Voice!Cancellers
  <2> QED
    BY <2>1, <2>2
<1> QED
  BY <1>1, <1>2, <1>3, <1>4, <1>5 DEF VoiceIInv, Voice!VoiceHasOneOwner

LEMMA ReserveNoteKeeps ==
  ASSUME VoiceIInv, NEW c \in Claims, Voice!ReserveNote(c)
  PROVE  VoiceIInv'
<1>1. Voice!TypeOK'
  BY VoiceAssumption DEF VoiceIInv, Voice!TypeOK, Voice!ReserveNote, Voice!Goto, Voice!Owned,
                         Voice!Without, Voice!Refs
<1>2. ReferenceShape'
  BY VoiceAssumption DEF VoiceIInv, Voice!TypeOK, ReferenceShape, Voice!VoiceHasOneOwner,
                         Voice!NoStaleReference, Voice!ReserveNote, Voice!Goto, Voice!Owned,
                         Voice!Without, Voice!Refs
<1>3. TakenShape'
  BY VoiceAssumption DEF VoiceIInv, Voice!TypeOK, TakenShape, Voice!ReserveNote, Voice!Goto,
                         Voice!Owned, Voice!Without, Voice!Refs
<1>4. Voice!OneOutcome' /\ Voice!StoppedHasEnded'
  BY VoiceAssumption DEF VoiceIInv, Voice!TypeOK, TakenShape, Voice!VoiceHasOneOwner,
                         Voice!OneOutcome, Voice!StoppedHasEnded, Voice!ReserveNote, Voice!Goto,
                         Voice!Owned, Voice!Without, Voice!Ended, Voice!Refs
<1>5. Voice!NoStaleReference'
  BY VoiceAssumption DEF VoiceIInv, Voice!TypeOK, ReferenceShape, Voice!VoiceHasOneOwner,
                         Voice!NoStaleReference, Voice!ReserveNote, Voice!Goto, Voice!Owned,
                         Voice!Without, Voice!Refs
<1>6. Voice!NoMutualDrain'
  BY VoiceAssumption DEF VoiceIInv, Voice!TypeOK, TakenShape, Voice!VoiceHasOneOwner,
                         Voice!NoMutualDrain, Voice!ReserveNote, Voice!Ended, Voice!Cancellers
<1> QED
  BY <1>1, <1>2, <1>3, <1>4, <1>5, <1>6 DEF VoiceIInv, Voice!VoiceHasOneOwner

LEMMA BindStatusKeeps ==
  ASSUME VoiceIInv, NEW c \in Claims, Voice!BindStatus(c)
  PROVE  VoiceIInv'
<1>1. Voice!TypeOK'
  BY VoiceAssumption DEF VoiceIInv, Voice!TypeOK, Voice!BindStatus, Voice!Goto, Voice!Owned,
                         Voice!Without, Voice!Refs
<1>2. ReferenceShape'
  BY VoiceAssumption DEF VoiceIInv, Voice!TypeOK, ReferenceShape, Voice!VoiceHasOneOwner,
                         Voice!NoStaleReference, Voice!BindStatus, Voice!Goto, Voice!Owned,
                         Voice!Without, Voice!Refs
<1>3. TakenShape'
  BY VoiceAssumption DEF VoiceIInv, Voice!TypeOK, TakenShape, Voice!BindStatus, Voice!Goto,
                         Voice!Owned, Voice!Without, Voice!Refs
<1>4. Voice!OneOutcome' /\ Voice!StoppedHasEnded'
  BY VoiceAssumption DEF VoiceIInv, Voice!TypeOK, TakenShape, Voice!VoiceHasOneOwner,
                         Voice!OneOutcome, Voice!StoppedHasEnded, Voice!BindStatus, Voice!Goto,
                         Voice!Owned, Voice!Without, Voice!Ended, Voice!Refs
<1>5. Voice!NoStaleReference'
  BY VoiceAssumption DEF VoiceIInv, Voice!TypeOK, ReferenceShape, Voice!VoiceHasOneOwner,
                         Voice!NoStaleReference, Voice!BindStatus, Voice!Goto, Voice!Owned,
                         Voice!Without, Voice!Refs
<1>6. Voice!NoMutualDrain'
  BY VoiceAssumption DEF VoiceIInv, Voice!TypeOK, TakenShape, Voice!VoiceHasOneOwner,
                         Voice!NoMutualDrain, Voice!BindStatus, Voice!Ended, Voice!Cancellers
<1> QED
  BY <1>1, <1>2, <1>3, <1>4, <1>5, <1>6 DEF VoiceIInv, Voice!VoiceHasOneOwner

LEMMA FlowFailsKeeps ==
  ASSUME VoiceIInv, NEW c \in Claims, Voice!FlowFails(c)
  PROVE  VoiceIInv'
<1>1. Voice!TypeOK'
  BY VoiceAssumption DEF VoiceIInv, Voice!TypeOK, Voice!FlowFails, Voice!Goto, Voice!Owned,
                         Voice!Without, Voice!Refs
<1>2. ReferenceShape'
  BY VoiceAssumption DEF VoiceIInv, Voice!TypeOK, ReferenceShape, Voice!VoiceHasOneOwner,
                         Voice!NoStaleReference, Voice!FlowFails, Voice!Goto, Voice!Owned,
                         Voice!Without, Voice!Refs
<1>3. TakenShape'
  BY VoiceAssumption DEF VoiceIInv, Voice!TypeOK, TakenShape, Voice!FlowFails, Voice!Goto,
                         Voice!Owned, Voice!Without, Voice!Refs
<1>4. Voice!OneOutcome' /\ Voice!StoppedHasEnded'
  BY VoiceAssumption DEF VoiceIInv, Voice!TypeOK, TakenShape, Voice!VoiceHasOneOwner,
                         Voice!OneOutcome, Voice!StoppedHasEnded, Voice!FlowFails, Voice!Goto,
                         Voice!Owned, Voice!Without, Voice!Ended, Voice!Refs
<1>5. Voice!NoStaleReference'
  BY VoiceAssumption DEF VoiceIInv, Voice!TypeOK, ReferenceShape, Voice!VoiceHasOneOwner,
                         Voice!NoStaleReference, Voice!FlowFails, Voice!Goto, Voice!Owned,
                         Voice!Without, Voice!Refs
<1>6. Voice!NoMutualDrain'
  BY VoiceAssumption DEF VoiceIInv, Voice!TypeOK, TakenShape, Voice!VoiceHasOneOwner,
                         Voice!NoMutualDrain, Voice!FlowFails, Voice!Ended, Voice!Cancellers
<1> QED
  BY <1>1, <1>2, <1>3, <1>4, <1>5, <1>6 DEF VoiceIInv, Voice!VoiceHasOneOwner

LEMMA StartHandoffKeeps ==
  ASSUME VoiceIInv, NEW c \in Claims, Voice!StartHandoff(c)
  PROVE  VoiceIInv'
<1>1. Voice!TypeOK'
  BY VoiceAssumption DEF VoiceIInv, Voice!TypeOK, Voice!StartHandoff, Voice!Goto, Voice!Owned,
                         Voice!Without, Voice!Refs
<1>2. ReferenceShape'
  BY VoiceAssumption DEF VoiceIInv, Voice!TypeOK, ReferenceShape, Voice!VoiceHasOneOwner,
                         Voice!NoStaleReference, Voice!StartHandoff, Voice!Goto, Voice!Owned,
                         Voice!Without, Voice!Refs
<1>3. TakenShape'
  BY VoiceAssumption DEF VoiceIInv, Voice!TypeOK, TakenShape, Voice!StartHandoff, Voice!Goto,
                         Voice!Owned, Voice!Without, Voice!Refs
<1>4. Voice!OneOutcome' /\ Voice!StoppedHasEnded'
  BY VoiceAssumption DEF VoiceIInv, Voice!TypeOK, TakenShape, Voice!VoiceHasOneOwner,
                         Voice!OneOutcome, Voice!StoppedHasEnded, Voice!StartHandoff, Voice!Goto,
                         Voice!Owned, Voice!Without, Voice!Ended, Voice!Refs
<1>5. Voice!NoStaleReference'
  BY VoiceAssumption DEF VoiceIInv, Voice!TypeOK, ReferenceShape, Voice!VoiceHasOneOwner,
                         Voice!NoStaleReference, Voice!StartHandoff, Voice!Goto, Voice!Owned,
                         Voice!Without, Voice!Refs
<1>6. Voice!NoMutualDrain'
  <2>1. /\ \A d \in Claims : d # c => handoff'[d] = handoff[d]
        /\ handoff'[c] # handoff[c] => \A y \in Voice!Cancellers : c \notin draining[y]
    BY VoiceAssumption DEF VoiceIInv, Voice!TypeOK, TakenShape, Voice!StartHandoff, Voice!Owned,
                           Voice!Refs
  <2>2. \A y \in Claims : y \in Voice!Cancellers
    BY DEF Voice!Cancellers
  <2>3. draining' = draining
    BY DEF Voice!StartHandoff
  <2> SUFFICES ASSUME NEW S \in (SUBSET Claims) \ {{}}
               PROVE  \E y \in S : draining'[y] \cap S \cap {d \in Claims : ~Voice!Ended(d)'} = {}
    BY DEF Voice!NoMutualDrain
  <2>4. PICK y \in S : draining[y] \cap S \cap {d \in Claims : ~Voice!Ended(d)} = {}
    BY DEF VoiceIInv, Voice!VoiceHasOneOwner, Voice!NoMutualDrain
  <2> QED
    BY <2>1, <2>2, <2>3, <2>4 DEF Voice!Ended
<1> QED
  BY <1>1, <1>2, <1>3, <1>4, <1>5, <1>6 DEF VoiceIInv, Voice!VoiceHasOneOwner

LEMMA HandoffEndsKeeps ==
  ASSUME VoiceIInv, NEW c \in Claims, Voice!HandoffEnds(c)
  PROVE  VoiceIInv'
<1>1. Voice!TypeOK'
  BY VoiceAssumption DEF VoiceIInv, Voice!TypeOK, Voice!HandoffEnds, Voice!Goto, Voice!Owned,
                         Voice!Without, Voice!Refs
<1>2. ReferenceShape'
  BY VoiceAssumption DEF VoiceIInv, Voice!TypeOK, ReferenceShape, Voice!VoiceHasOneOwner,
                         Voice!NoStaleReference, Voice!HandoffEnds, Voice!Goto, Voice!Owned,
                         Voice!Without, Voice!Refs
<1>3. TakenShape'
  BY VoiceAssumption DEF VoiceIInv, Voice!TypeOK, TakenShape, Voice!HandoffEnds, Voice!Goto,
                         Voice!Owned, Voice!Without, Voice!Refs
<1>4. Voice!OneOutcome' /\ Voice!StoppedHasEnded'
  BY VoiceAssumption DEF VoiceIInv, Voice!TypeOK, TakenShape, Voice!VoiceHasOneOwner,
                         Voice!OneOutcome, Voice!StoppedHasEnded, Voice!HandoffEnds, Voice!Goto,
                         Voice!Owned, Voice!Without, Voice!Ended, Voice!Refs
<1>5. Voice!NoStaleReference'
  BY VoiceAssumption DEF VoiceIInv, Voice!TypeOK, ReferenceShape, Voice!VoiceHasOneOwner,
                         Voice!NoStaleReference, Voice!HandoffEnds, Voice!Goto, Voice!Owned,
                         Voice!Without, Voice!Refs
<1>6. Voice!NoMutualDrain'
  BY VoiceAssumption DEF VoiceIInv, Voice!TypeOK, TakenShape, Voice!VoiceHasOneOwner,
                         Voice!NoMutualDrain, Voice!HandoffEnds, Voice!Ended, Voice!Cancellers
<1> QED
  BY <1>1, <1>2, <1>3, <1>4, <1>5, <1>6 DEF VoiceIInv, Voice!VoiceHasOneOwner

LEMMA FlowCancelledKeeps ==
  ASSUME VoiceIInv, NEW c \in Claims, Voice!FlowCancelled(c)
  PROVE  VoiceIInv'
<1>1. Voice!TypeOK'
  BY VoiceAssumption DEF VoiceIInv, Voice!TypeOK, Voice!FlowCancelled, Voice!Goto, Voice!Owned,
                         Voice!Without, Voice!Refs
<1>2. ReferenceShape'
  BY VoiceAssumption DEF VoiceIInv, Voice!TypeOK, ReferenceShape, Voice!VoiceHasOneOwner,
                         Voice!NoStaleReference, Voice!FlowCancelled, Voice!Goto, Voice!Owned,
                         Voice!Without, Voice!Refs
<1>3. TakenShape'
  BY VoiceAssumption DEF VoiceIInv, Voice!TypeOK, TakenShape, Voice!FlowCancelled, Voice!Goto,
                         Voice!Owned, Voice!Without, Voice!Refs
<1>4. Voice!OneOutcome' /\ Voice!StoppedHasEnded'
  BY VoiceAssumption DEF VoiceIInv, Voice!TypeOK, TakenShape, Voice!VoiceHasOneOwner,
                         Voice!OneOutcome, Voice!StoppedHasEnded, Voice!FlowCancelled, Voice!Goto,
                         Voice!Owned, Voice!Without, Voice!Ended, Voice!Refs
<1>5. Voice!NoStaleReference'
  BY VoiceAssumption DEF VoiceIInv, Voice!TypeOK, ReferenceShape, Voice!VoiceHasOneOwner,
                         Voice!NoStaleReference, Voice!FlowCancelled, Voice!Goto, Voice!Owned,
                         Voice!Without, Voice!Refs
<1>6. Voice!NoMutualDrain'
  BY VoiceAssumption DEF VoiceIInv, Voice!TypeOK, TakenShape, Voice!VoiceHasOneOwner,
                         Voice!NoMutualDrain, Voice!FlowCancelled, Voice!Ended, Voice!Cancellers
<1> QED
  BY <1>1, <1>2, <1>3, <1>4, <1>5, <1>6 DEF VoiceIInv, Voice!VoiceHasOneOwner

LEMMA FinishOwnershipKeeps ==
  ASSUME VoiceIInv, NEW c \in Claims, Voice!FinishOwnership(c)
  PROVE  VoiceIInv'
<1>1. Voice!TypeOK'
  BY VoiceAssumption DEF VoiceIInv, Voice!TypeOK, Voice!FinishOwnership, Voice!Goto, Voice!Owned,
                         Voice!Without, Voice!Refs
<1>2. ReferenceShape'
  BY VoiceAssumption DEF VoiceIInv, Voice!TypeOK, ReferenceShape, Voice!VoiceHasOneOwner,
                         Voice!NoStaleReference, Voice!FinishOwnership, Voice!Goto, Voice!Owned,
                         Voice!Without, Voice!Refs
<1>3. TakenShape'
  BY VoiceAssumption DEF VoiceIInv, Voice!TypeOK, TakenShape, Voice!FinishOwnership, Voice!Goto,
                         Voice!Owned, Voice!Without, Voice!Refs
<1>4. Voice!OneOutcome' /\ Voice!StoppedHasEnded'
  <2>1. UNCHANGED <<reported, taking, handoff>>
    BY DEF Voice!FinishOwnership
  <2>2. completed' = completed \/ (completed' = completed \cup {c} /\ Voice!Owned(c))
    BY DEF Voice!FinishOwnership
  <2>3. Voice!Owned(c) => c \notin reported /\ \A x \in Voice!Cancellers : c \notin taking[x]
    BY VoiceAssumption DEF VoiceIInv, TakenShape, Voice!Owned, Voice!Refs
  <2> QED
    BY <2>1, <2>2, <2>3 DEF VoiceIInv, Voice!VoiceHasOneOwner, Voice!OneOutcome,
                            Voice!StoppedHasEnded, Voice!Ended
<1>5. Voice!NoStaleReference'
  <2>1. \A r \in Voice!Refs : notes[r] = c => r \in {VoiceOf[c], c}
    BY DEF VoiceIInv, ReferenceShape
  <2>2. ~Voice!Owned(c) => \A r \in Voice!Refs : notes[r] # c
    BY <2>1 DEF VoiceIInv, Voice!VoiceHasOneOwner, Voice!NoStaleReference, Voice!Owned
  <2>3. flow' = [flow EXCEPT ![c] = "over"] /\ UNCHANGED bound
    BY DEF Voice!FinishOwnership, Voice!Goto
  <2>4. \A r \in Voice!Refs : notes'[r] = IF notes[r] = c THEN NONE ELSE notes[r]
    BY <2>2, VoiceAssumption DEF Voice!FinishOwnership, Voice!Without, Voice!Owned, VoiceIInv,
                                 Voice!TypeOK
  <2>5. \A d \in Claims : d \in Voice!Refs /\ VoiceOf[d] \in Voice!Refs
    BY VoiceAssumption DEF Voice!Refs
  <2> QED
    BY <2>3, <2>4, <2>5, VoiceAssumption DEF VoiceIInv, Voice!TypeOK, Voice!VoiceHasOneOwner,
                                             Voice!NoStaleReference, Voice!Owned
<1>6. Voice!NoMutualDrain'
  BY VoiceAssumption DEF VoiceIInv, Voice!TypeOK, TakenShape, Voice!VoiceHasOneOwner,
                         Voice!NoMutualDrain, Voice!FinishOwnership, Voice!Ended, Voice!Cancellers
<1> QED
  BY <1>1, <1>2, <1>3, <1>4, <1>5, <1>6 DEF VoiceIInv, Voice!VoiceHasOneOwner

LEMMA DiscardNoteKeeps ==
  ASSUME VoiceIInv, NEW c \in Claims, Voice!DiscardNote(c)
  PROVE  VoiceIInv'
<1>1. Voice!TypeOK'
  BY VoiceAssumption DEF VoiceIInv, Voice!TypeOK, Voice!DiscardNote, Voice!Goto, Voice!Owned,
                         Voice!Without, Voice!Refs
<1>2. ReferenceShape'
  BY VoiceAssumption DEF VoiceIInv, Voice!TypeOK, ReferenceShape, Voice!VoiceHasOneOwner,
                         Voice!NoStaleReference, Voice!DiscardNote, Voice!Goto, Voice!Owned,
                         Voice!Without, Voice!Refs
<1>3. TakenShape'
  BY VoiceAssumption DEF VoiceIInv, Voice!TypeOK, TakenShape, Voice!DiscardNote, Voice!Goto,
                         Voice!Owned, Voice!Without, Voice!Refs
<1>4. Voice!OneOutcome' /\ Voice!StoppedHasEnded'
  BY VoiceAssumption DEF VoiceIInv, Voice!TypeOK, TakenShape, Voice!VoiceHasOneOwner,
                         Voice!OneOutcome, Voice!StoppedHasEnded, Voice!DiscardNote, Voice!Goto,
                         Voice!Owned, Voice!Without, Voice!Ended, Voice!Refs
<1>5. Voice!NoStaleReference'
  <2>1. \A r \in Voice!Refs : notes[r] = c => r \in {VoiceOf[c], c}
    BY DEF VoiceIInv, ReferenceShape
  <2>2. ~Voice!Owned(c) => \A r \in Voice!Refs : notes[r] # c
    BY <2>1 DEF VoiceIInv, Voice!VoiceHasOneOwner, Voice!NoStaleReference, Voice!Owned
  <2>3. flow' = [flow EXCEPT ![c] = "over"] /\ UNCHANGED bound
    BY DEF Voice!DiscardNote, Voice!Goto
  <2>4. \A r \in Voice!Refs : notes'[r] = IF notes[r] = c THEN NONE ELSE notes[r]
    BY <2>2, VoiceAssumption DEF Voice!DiscardNote, Voice!Without, Voice!Owned, VoiceIInv,
                                 Voice!TypeOK
  <2>5. \A d \in Claims : d \in Voice!Refs /\ VoiceOf[d] \in Voice!Refs
    BY VoiceAssumption DEF Voice!Refs
  <2> QED
    BY <2>3, <2>4, <2>5, VoiceAssumption DEF VoiceIInv, Voice!TypeOK, Voice!VoiceHasOneOwner,
                                             Voice!NoStaleReference, Voice!Owned
<1>6. Voice!NoMutualDrain'
  BY VoiceAssumption DEF VoiceIInv, Voice!TypeOK, TakenShape, Voice!VoiceHasOneOwner,
                         Voice!NoMutualDrain, Voice!DiscardNote, Voice!Ended, Voice!Cancellers
<1> QED
  BY <1>1, <1>2, <1>3, <1>4, <1>5, <1>6 DEF VoiceIInv, Voice!VoiceHasOneOwner

(* What a cancellation takes is pending under some reference, drained if   *)
(* its handoff has begun, and not itself a handoff that drains others.     *)
LEMMA CancelMatchingKeeps ==
  ASSUME VoiceIInv, NEW x \in Voice!Cancellers, NEW refs \in SUBSET Voice!Refs,
         Voice!CancelMatching(x, refs)
  PROVE  VoiceIInv'
<1> DEFINE entries == {notes[r] : r \in refs} \ ({NONE} \cup Voice!Excluded(x))
<1>1. /\ entries \in SUBSET Claims
      /\ \A c \in entries : c # x /\ taking[c] = {}
      /\ \A c \in entries : \E r \in Voice!Refs : notes[r] = c
  BY DEF Voice!Excluded, VoiceIInv, Voice!TypeOK
<1>2. /\ notes' = Voice!Without(notes, entries)
      /\ taking' = [taking EXCEPT ![x] = entries]
      /\ draining' = [draining EXCEPT ![x] = {c \in entries : handoff[c] # "none"}]
      /\ UNCHANGED <<flow, bound, handoff, completed, reported>>
  BY DEF Voice!CancelMatching
<1> HIDE DEF entries
<1>3. Voice!TypeOK'
  BY <1>1, <1>2, VoiceAssumption DEF VoiceIInv, Voice!TypeOK, Voice!Without
<1>4. \A r \in Voice!Refs : \/ notes'[r] = notes[r] /\ notes[r] \notin entries
                            \/ notes'[r] = NONE /\ notes[r] \in entries
  BY <1>2 DEF Voice!Without
<1>5. ReferenceShape'
  BY <1>2, <1>4, VoiceAssumption DEF VoiceIInv, ReferenceShape
<1>6. TakenShape'
  <2>1. \A c \in entries : flow[c] # "idle"
    BY <1>1 DEF VoiceIInv, ReferenceShape
  <2>2. \A c \in Claims, r \in Voice!Refs : notes'[r] = c => notes[r] = c /\ c \notin entries
    BY <1>4, VoiceAssumption
  <2>3. taking'[x] = entries /\ draining'[x] = {c \in entries : handoff[c] # "none"}
    BY <1>2 DEF VoiceIInv, Voice!TypeOK
  <2>4. \A y \in Voice!Cancellers : y # x => taking'[y] = taking[y] /\ draining'[y] = draining[y]
    BY <1>2 DEF VoiceIInv, Voice!TypeOK
  <2>5. \A y \in Voice!Cancellers : taking[y] \subseteq Claims
    BY DEF VoiceIInv, Voice!TypeOK
  <2>6. reported \subseteq Claims /\ completed \subseteq Claims
    BY DEF VoiceIInv, Voice!TypeOK
  <2>7. ASSUME NEW y \in Voice!Cancellers
        PROVE  /\ \A c \in taking'[y] : /\ flow[c] # "idle" /\ \A r \in Voice!Refs : notes'[r] # c
                                        /\ c \notin draining'[y] => handoff[c] = "none"
               /\ draining'[y] \subseteq taking'[y] /\ \A c \in draining'[y] : handoff[c] # "none"
    <3>1. CASE y = x
      BY <3>1, <1>1, <2>1, <2>2, <2>3
    <3>2. CASE y # x
      BY <3>2, <2>2, <2>4, <2>5 DEF VoiceIInv, TakenShape
    <3> QED
      BY <3>1, <3>2
  <2>8. \A c \in reported \cup completed :
          flow[c] # "idle" /\ \A r \in Voice!Refs : notes'[r] # c
    BY <2>2, <2>6 DEF VoiceIInv, TakenShape
  <2> QED
    BY <1>2, <2>7, <2>8 DEF TakenShape
<1>7. Voice!OneOutcome' /\ Voice!StoppedHasEnded'
  <2>1. \A c \in completed : c \notin entries
    BY <1>1 DEF VoiceIInv, TakenShape
  <2> QED
    BY <1>2, <2>1 DEF VoiceIInv, Voice!TypeOK, Voice!VoiceHasOneOwner, Voice!OneOutcome,
                      Voice!StoppedHasEnded, Voice!Ended
<1>8. Voice!NoStaleReference'
  <2>1. \A d \in Claims : d \in Voice!Refs /\ VoiceOf[d] \in Voice!Refs
    BY VoiceAssumption DEF Voice!Refs
  <2>2. \A c \in Claims, r \in Voice!Refs : notes'[r] = c <=> notes[r] = c /\ c \notin entries
    BY <1>4, VoiceAssumption
  <2> QED
    BY <1>2, <2>1, <2>2 DEF VoiceIInv, Voice!VoiceHasOneOwner, Voice!NoStaleReference, Voice!Owned
<1>9. Voice!NoMutualDrain'
  <2> DEFINE Busy == {c \in Claims : ~Voice!Ended(c)}
  <2>1. Busy' = Busy
    BY <1>2 DEF Voice!Ended
  <2>2. \A y \in Voice!Cancellers : y # x => draining'[y] = draining[y]
    BY <1>2 DEF VoiceIInv, Voice!TypeOK
  <2>3. draining'[x] \subseteq entries
    BY <1>2 DEF VoiceIInv, Voice!TypeOK
  <2> HIDE DEF Busy
  <2> SUFFICES ASSUME NEW S \in (SUBSET Claims) \ {{}}
               PROVE  \E y \in S : draining'[y] \cap S \cap Busy = {}
    BY <2>1 DEF Voice!NoMutualDrain, Busy
  <2>4. PICK y \in S : draining[y] \cap S \cap Busy = {}
    BY DEF VoiceIInv, Voice!VoiceHasOneOwner, Voice!NoMutualDrain, Busy
  <2>5. CASE x \in S /\ draining'[x] \cap S # {}
    <3>1. PICK c \in S : c \in entries
      BY <2>3, <2>5
    <3>2. c \in Voice!Cancellers /\ taking[c] = {} /\ c # x
      BY <1>1, <3>1 DEF Voice!Cancellers
    <3>3. draining'[c] = {}
      BY <2>2, <3>2 DEF VoiceIInv, TakenShape
    <3> QED
      BY <3>1, <3>3
  <2>6. CASE x \in S /\ draining'[x] \cap S = {}
    BY <2>6
  <2>7. CASE x \notin S
    BY <2>2, <2>4, <2>7 DEF Voice!Cancellers
  <2> QED
    BY <2>5, <2>6, <2>7
<1> QED
  BY <1>3, <1>5, <1>6, <1>7, <1>8, <1>9 DEF VoiceIInv, Voice!VoiceHasOneOwner

(* A drain that is over waited for every handoff that it took, and none    *)
(* has begun since.                                                        *)
LEMMA CancelReturnsKeeps ==
  ASSUME VoiceIInv, NEW x \in Voice!Cancellers, Voice!CancelReturns(x)
  PROVE  VoiceIInv'
<1>1. /\ reported' = reported \cup taking[x]
      /\ taking' = [taking EXCEPT ![x] = {}] /\ draining' = [draining EXCEPT ![x] = {}]
      /\ UNCHANGED <<flow, notes, bound, handoff, completed>>
      /\ \A c \in draining[x] : handoff[c] = "ended"
  BY DEF Voice!CancelReturns
<1>2. \A c \in taking[x] : Voice!Ended(c)
  BY <1>1 DEF VoiceIInv, TakenShape, Voice!Ended
<1>3. \A y \in Voice!Cancellers :
        /\ taking'[y] \in {{}, taking[y]} /\ draining'[y] \in {{}, draining[y]}
        /\ taking'[y] = {} => draining'[y] = {}
        /\ taking'[y] # {} => draining'[y] = draining[y]
  BY <1>1 DEF VoiceIInv, Voice!TypeOK, TakenShape
<1>4. Voice!TypeOK'
  BY <1>1 DEF VoiceIInv, Voice!TypeOK
<1>5. ReferenceShape'
  BY <1>1 DEF VoiceIInv, ReferenceShape
<1>6. TakenShape'
  BY <1>1, <1>3 DEF VoiceIInv, TakenShape
<1>7. Voice!OneOutcome' /\ Voice!StoppedHasEnded'
  BY <1>1, <1>2, <1>3 DEF VoiceIInv, Voice!VoiceHasOneOwner, Voice!OneOutcome,
                          Voice!StoppedHasEnded, Voice!Ended
<1>8. Voice!NoStaleReference'
  BY <1>1 DEF VoiceIInv, Voice!VoiceHasOneOwner, Voice!NoStaleReference, Voice!Owned
<1>9. Voice!NoMutualDrain'
  <2> SUFFICES ASSUME NEW S \in (SUBSET Claims) \ {{}}
               PROVE  \E y \in S : draining'[y] \cap S \cap {c \in Claims : ~Voice!Ended(c)'} = {}
    BY DEF Voice!NoMutualDrain
  <2>1. PICK y \in S : draining[y] \cap S \cap {c \in Claims : ~Voice!Ended(c)} = {}
    BY DEF VoiceIInv, Voice!VoiceHasOneOwner, Voice!NoMutualDrain
  <2>2. y \in Voice!Cancellers
    BY DEF Voice!Cancellers
  <2> QED
    BY <1>1, <1>3, <2>1, <2>2 DEF Voice!Ended
<1> QED
  BY <1>4, <1>5, <1>6, <1>7, <1>8, <1>9 DEF VoiceIInv, Voice!VoiceHasOneOwner

LEMMA VoiceStepKeeps ==
  ASSUME VoiceIInv, [Voice!VoiceNext]_Voice!vars
  PROVE  VoiceIInv'
<1>1. CASE UNCHANGED Voice!vars
  BY <1>1 DEF Voice!vars, VoiceIInv, Voice!TypeOK, ReferenceShape, TakenShape,
              Voice!VoiceHasOneOwner, Voice!OneOutcome, Voice!StoppedHasEnded,
              Voice!NoStaleReference, Voice!NoMutualDrain, Voice!Owned, Voice!Ended
<1>2. ASSUME NEW x \in Voice!Cancellers, Voice!CancelMatching(x, Voice!Refs)
      PROVE  VoiceIInv'
  BY <1>2, CancelMatchingKeeps
<1>3. ASSUME NEW x \in Voice!Cancellers, NEW r \in Voice!Refs, Voice!CancelMatching(x, {r})
      PROVE  VoiceIInv'
  BY <1>3, CancelMatchingKeeps
<1> QED
  BY <1>1, <1>2, <1>3, ReserveNoteKeeps, BindStatusKeeps, FlowFailsKeeps, StartHandoffKeeps,
     HandoffEndsKeeps, FlowCancelledKeeps, FinishOwnershipKeeps, DiscardNoteKeeps,
     CancelReturnsKeeps DEF Voice!VoiceNext

(* A behaviour of the composition is one of the voice notes, in which they *)
(* may never move; so a voice note has one owner, for any number of notes, *)
(* of deliveries of each and of commands, typed or spoken.                 *)
THEOREM VoiceCorrect ==
  MCSpec => []VoiceHasOneOwner
<1>1. MCInit => VoiceIInv
  BY VoiceInitially DEF MCInit
<1>2. [MCNext]_allVars => [Voice!VoiceNext]_Voice!vars
  BY Zenon DEF MCNext, allVars, voiceVars, Voice!vars
<1>3. VoiceIInv /\ [MCNext]_allVars => VoiceIInv'
  BY <1>2, VoiceStepKeeps
<1>4. VoiceIInv => VoiceHasOneOwner
  BY DEF VoiceIInv, VoiceHasOneOwner
<1> QED
  BY <1>1, <1>3, <1>4, PTL DEF MCSpec
=============================================================================
