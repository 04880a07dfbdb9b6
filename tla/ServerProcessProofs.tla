------------------------- MODULE ServerProcessProofs ------------------------
(***************************************************************************)
(* Proofs about the components of the server process that                  *)
(* MCProviderGenerations composes: the server's own life (ServerLifecycle),*)
(* the response of a request (InferenceResponse), hedged opens             *)
(* (HedgedOpen) and the Claude sessions (ManagedSessions), for any number  *)
(* of supervisors, restarts, versions, attempts, tool calls, opens, keys   *)
(* and slots.                                                              *)
(* A behaviour runs the component it has chosen, so each of them keeps its *)
(* own invariant; the theorems are about the specification the run checks. *)
(***************************************************************************)
EXTENDS MCProviderGenerations, FiniteSetTheorems, SequenceTheorems, WellFoundedInduction, TLAPS

-----------------------------------------------------------------------------
(* The life of the server.                                                 *)

(* Only the run that is about to enter is scheduled.                       *)
ScheduleShape ==
  scheduled \subseteq {supervisor} /\ (scheduled # {} => worker = "entering")

(* The loop never reads a restart before it is granted, and whoever grants *)
(* one or stops it later tells its server to exit.                         *)
ServedShape ==
  /\ worker \in {"loading", "building", "starting", "serving"} => taken <= restarts[supervisor]
  /\ worker \in {"starting", "serving"} /\ ~shouldExit =>
       taken = restarts[supervisor] /\ supervisor \notin stopRequested

(* What was asked for or reported is on disk and not behind what is        *)
(* cached; a loop that lost a restart this way will see its number.        *)
FileShape ==
  /\ {loaded, published, applied, wanted, update.version} \subseteq 0 .. file
  /\ cached # Server!NoVersion => cached <= file

CacheShape ==
  /\ applied <= cached /\ update.version <= cached
  /\ worker = "deciding" => wanted <= cached
  /\ worker = "loading" /\ taken = restarts[supervisor] => wanted <= cached
  /\ worker = "building" =>
       applied <= loaded /\ (taken = restarts[supervisor] => wanted <= loaded)

PublishedShape ==
  /\ worker \in {"starting", "serving"} =>
       applied <= published /\ (~shouldExit => wanted <= published)
  /\ update # Server!NoUpdate => worker \in {"serving", "exiting"}
  /\ worker = "serving" /\ update.version > 0 => published <= update.version

(* The thread goes on only after a runtime that was closed.                *)
RunShape ==
  /\ worker \in {"deciding", "loading", "building", "starting", "serving"} => ~leftOpen
  /\ worker = "returned" /\ isClosed => ~leftOpen
  /\ worker = "judged" /\ rerun => ~leftOpen
  /\ worker \in {"starting", "serving"} => ~isClosed

(* A runtime that starts owns its core; one that closes has let go of      *)
(* everything before the step it is at.                                    *)
CloseShape ==
  /\ worker = "starting" => {"transcriber", "providers", "accounts"} \subseteq owned
  /\ worker = "exiting" =>
       /\ closingStep \in {"quiesce", "workflow", "platform", "transcriber", "providers",
               "accounts", "over"}
       /\ closingStep = "platform" => "workflow" \notin owned
       /\ closingStep \in {"transcriber", "providers", "accounts"} =>
            owned \cap Server!Messaging = {}
       /\ closingStep \in {"providers", "accounts"} => "transcriber" \notin owned
       /\ closingStep = "accounts" => "providers" \notin owned

(* The inductive invariant.                                                *)
ServerIInv ==
  /\ Server!TypeOK /\ ScheduleShape /\ ServedShape /\ FileShape /\ CacheShape /\ PublishedShape
  /\ RunShape /\ CloseShape /\ Server!ClosedInOrder

-----------------------------------------------------------------------------
(* The initial states.                                                     *)
LEMMA ServerInitially ==
  ASSUME Server!Init
  PROVE  ServerIInv
<1>1. Server!TypeOK
  <2>1. MaxVersion + 1 \in 0 .. MaxVersion + 1 /\ 0 \in 0 .. MaxVersion /\ 0 \in 0 .. MaxRestarts
    BY ServerAssumption
  <2>2. Server!NoUpdate \in [kind : {"none", "hot", "pending"}, version : 0 .. MaxVersion]
    BY <2>1 DEF Server!NoUpdate
  <2>3. [s \in Supervisors |-> 0] \in [Supervisors -> 0 .. MaxRestarts]
    BY <2>1
  <2>4. owned \subseteq Server!Resources /\ {shouldExit, rerun, leftOpen, quiesced,
          isClosed} \subseteq BOOLEAN
    BY DEF Server!Init
  <2> QED
    BY <2>1, <2>2, <2>3, <2>4, ServerAssumption DEF Server!Init, Server!TypeOK, Server!NoVersion
<1>2. ScheduleShape /\ ServedShape /\ FileShape /\ CacheShape /\ PublishedShape
  BY ServerAssumption DEF Server!Init, ScheduleShape, ServedShape, FileShape, CacheShape,
                          PublishedShape, Server!NoVersion, Server!NoUpdate
<1>3. RunShape /\ CloseShape /\ Server!ClosedInOrder
  BY DEF Server!Init, RunShape, CloseShape, Server!ClosedInOrder
<1> QED
  BY <1>1, <1>2, <1>3 DEF ServerIInv

-----------------------------------------------------------------------------
(* Requests to a supervisor.                                               *)

LEMMA RequestRestartKeeps ==
  ASSUME ServerIInv, Server!RequestRestart
  PROVE  ServerIInv'
<1>1. Server!TypeOK'
  BY ServerAssumption DEF ServerIInv, Server!TypeOK, FileShape, Server!RequestRestart,
                          Server!Granted, Server!HasServer, Server!Running, Server!runtime,
                          Server!settings, Server!NoVersion, Server!NoUpdate, Server!Resources,
                          Server!Messaging
<1>2. ServedShape'
  <2>1. restarts[supervisor] \in Nat /\ taken \in Nat
    BY ServerAssumption DEF ServerIInv, Server!TypeOK
  <2>2. restarts'[supervisor'] = restarts[supervisor] + 1
    BY DEF Server!RequestRestart, ServerIInv, Server!TypeOK
  <2>3. worker \in {"starting", "serving"} => shouldExit'
    BY DEF Server!RequestRestart, Server!HasServer, ServerIInv, ScheduleShape
  <2> QED
    BY <2>1, <2>2, <2>3 DEF Server!RequestRestart, ServerIInv, ServedShape
<1>3. FileShape'
  BY DEF ServerIInv, Server!TypeOK, FileShape, Server!RequestRestart, Server!Granted,
         Server!HasServer, Server!Running, Server!runtime, Server!settings
<1>4. CacheShape'
  BY ServerAssumption DEF ServerIInv, Server!TypeOK, CacheShape, FileShape, ServedShape,
                          PublishedShape, ScheduleShape, Server!RequestRestart, Server!Granted,
                          Server!HasServer, Server!Running, Server!runtime, Server!settings,
                          Server!NoVersion, Server!NoUpdate
<1>5. PublishedShape'
  BY DEF ServerIInv, PublishedShape, ServedShape, FileShape, CacheShape, ScheduleShape,
         Server!RequestRestart, Server!Granted, Server!HasServer, Server!Running, Server!runtime,
         Server!settings
<1>6. ScheduleShape' /\ RunShape' /\ CloseShape' /\ Server!ClosedInOrder'
  BY DEF ServerIInv, Server!RequestRestart, Server!runtime, Server!settings, ScheduleShape,
         RunShape, CloseShape, Server!ClosedInOrder
<1> QED
  BY <1>1, <1>2, <1>3, <1>4, <1>5, <1>6 DEF ServerIInv

LEMMA RequestStopKeeps ==
  ASSUME ServerIInv, Server!RequestStop
  PROVE  ServerIInv'
<1>1. Server!TypeOK'
  BY DEF ServerIInv, Server!TypeOK, Server!RequestStop, Server!HasServer, Server!runtime,
         Server!settings
<1>2. ScheduleShape'
  BY DEF ServerIInv, ScheduleShape, Server!RequestStop, Server!HasServer, Server!runtime,
         Server!settings
<1>3. ServedShape'
  BY DEF ServerIInv, ServedShape, Server!RequestStop, Server!HasServer, Server!runtime,
         Server!settings
<1>4. PublishedShape'
  BY DEF ServerIInv, PublishedShape, Server!RequestStop, Server!HasServer, Server!runtime,
         Server!settings
<1>5. FileShape' /\ CacheShape' /\ RunShape' /\ CloseShape' /\ Server!ClosedInOrder'
  BY DEF ServerIInv, Server!RequestStop, Server!runtime, Server!settings, FileShape, CacheShape,
         RunShape, CloseShape, Server!ClosedInOrder
<1> QED
  BY <1>1, <1>2, <1>3, <1>4, <1>5 DEF ServerIInv

LEMMA StartServerKeeps ==
  ASSUME ServerIInv, Server!StartServer
  PROVE  ServerIInv'
<1>1. Server!TypeOK'
  BY DEF ServerIInv, Server!TypeOK, Server!StartServer, Server!runtime, Server!settings
<1>2. ScheduleShape'
  BY DEF ServerIInv, ScheduleShape, Server!StartServer, Server!runtime, Server!settings
<1>3. ServedShape'
  BY DEF ServerIInv, ServedShape, Server!StartServer, Server!runtime, Server!settings
<1>4. CacheShape'
  BY DEF ServerIInv, CacheShape, Server!StartServer, Server!runtime, Server!settings
<1>5. PublishedShape'
  BY DEF ServerIInv, PublishedShape, Server!StartServer, Server!runtime, Server!settings
<1>6. RunShape'
  BY DEF ServerIInv, RunShape, Server!StartServer, Server!runtime, Server!settings
<1>7. CloseShape'
  BY DEF ServerIInv, CloseShape, Server!StartServer, Server!runtime, Server!settings
<1>8. Server!ClosedInOrder'
  BY DEF ServerIInv, Server!ClosedInOrder, Server!StartServer, Server!runtime, Server!settings
<1>9. FileShape'
  BY DEF ServerIInv, Server!StartServer, Server!runtime, Server!settings, FileShape
<1> QED
  BY <1>1, <1>2, <1>3, <1>4, <1>5, <1>6, <1>7, <1>8, <1>9 DEF ServerIInv

-----------------------------------------------------------------------------
(* The supervisor's loop.                                                  *)

LEMMA RunBeginsKeeps ==
  ASSUME ServerIInv, Server!RunBegins
  PROVE  ServerIInv'
<1>1. Server!TypeOK'
  <2>1. wanted' \in Nat /\ leftOpen' \in BOOLEAN /\ scheduled' \subseteq Supervisors
    BY DEF Server!RunBegins, ServerIInv, Server!TypeOK
  <2> QED
    BY <2>1 DEF Server!RunBegins, Server!runtime, Server!settings, ServerIInv, Server!TypeOK
<1>2. ScheduleShape'
  BY DEF ServerIInv, ScheduleShape, Server!RunBegins, Server!runtime, Server!settings
<1>3. ServedShape'
  BY DEF ServerIInv, ServedShape, Server!RunBegins, Server!runtime, Server!settings
<1>4. FileShape'
  BY DEF ServerIInv, Server!TypeOK, FileShape, Server!RunBegins, Server!runtime, Server!settings
<1>5. CacheShape'
  BY DEF ServerIInv, Server!TypeOK, CacheShape, Server!RunBegins, Server!runtime, Server!settings
<1>6. PublishedShape'
  BY DEF ServerIInv, PublishedShape, Server!RunBegins, Server!runtime, Server!settings
<1>7. RunShape'
  BY DEF ServerIInv, RunShape, Server!RunBegins, Server!runtime, Server!settings
<1>8. CloseShape'
  BY DEF ServerIInv, CloseShape, Server!RunBegins, Server!runtime, Server!settings
<1>9. Server!ClosedInOrder'
  BY DEF ServerIInv, Server!ClosedInOrder, Server!RunBegins, Server!runtime, Server!settings
<1> QED
  BY <1>1, <1>2, <1>3, <1>4, <1>5, <1>6, <1>7, <1>8, <1>9 DEF ServerIInv

LEMMA ReadGenerationKeeps ==
  ASSUME ServerIInv, Server!ReadGeneration
  PROVE  ServerIInv'
<1>1. Server!TypeOK'
  BY DEF ServerIInv, Server!TypeOK, Server!ReadGeneration, Server!requests, Server!runtime,
         Server!settings
<1>2. ScheduleShape'
  BY DEF ServerIInv, ScheduleShape, Server!ReadGeneration, Server!requests, Server!runtime,
         Server!settings
<1>3. ServedShape'
  BY DEF ServerIInv, Server!TypeOK, ServedShape, Server!ReadGeneration, Server!requests,
         Server!runtime, Server!settings
<1>4. CacheShape'
  BY DEF ServerIInv, CacheShape, Server!ReadGeneration, Server!requests, Server!runtime,
         Server!settings
<1>5. PublishedShape'
  BY DEF ServerIInv, PublishedShape, Server!ReadGeneration, Server!requests, Server!runtime,
         Server!settings
<1>6. RunShape'
  BY DEF ServerIInv, RunShape, Server!ReadGeneration, Server!requests, Server!runtime,
         Server!settings
<1>7. CloseShape'
  BY DEF ServerIInv, CloseShape, Server!ReadGeneration, Server!requests, Server!runtime,
         Server!settings
<1>8. Server!ClosedInOrder'
  BY DEF ServerIInv, Server!ClosedInOrder, Server!ReadGeneration, Server!requests, Server!runtime,
         Server!settings
<1>9. FileShape'
  BY DEF ServerIInv, Server!ReadGeneration, Server!requests, Server!runtime, Server!settings,
         FileShape
<1> QED
  BY <1>1, <1>2, <1>3, <1>4, <1>5, <1>6, <1>7, <1>8, <1>9 DEF ServerIInv

LEMMA LoadSettingsKeeps ==
  ASSUME ServerIInv, Server!LoadSettings
  PROVE  ServerIInv'
<1>1. Server!TypeOK'
  BY ServerAssumption DEF ServerIInv, Server!TypeOK, FileShape, Server!LoadSettings,
                          Server!requests, Server!runtime, Server!NoVersion, Server!NoUpdate,
                          Server!Resources, Server!Messaging
<1>2. ScheduleShape'
  BY DEF ServerIInv, ScheduleShape, Server!LoadSettings, Server!requests, Server!runtime
<1>3. ServedShape'
  BY DEF ServerIInv, ServedShape, Server!LoadSettings, Server!requests, Server!runtime
<1>4. FileShape'
  BY DEF ServerIInv, Server!TypeOK, FileShape, Server!LoadSettings, Server!requests,
         Server!runtime, Server!NoVersion
<1>5. CacheShape'
  BY DEF ServerIInv, CacheShape, FileShape, ServedShape, PublishedShape, ScheduleShape,
         Server!LoadSettings, Server!requests, Server!runtime, Server!NoVersion
<1>6. PublishedShape'
  BY DEF ServerIInv, PublishedShape, Server!LoadSettings, Server!requests, Server!runtime
<1>7. RunShape'
  BY DEF ServerIInv, RunShape, Server!LoadSettings, Server!requests, Server!runtime
<1>8. CloseShape'
  BY DEF ServerIInv, CloseShape, Server!LoadSettings, Server!requests, Server!runtime
<1>9. Server!ClosedInOrder'
  BY DEF ServerIInv, Server!ClosedInOrder, Server!LoadSettings, Server!requests, Server!runtime
<1> QED
  BY <1>1, <1>2, <1>3, <1>4, <1>5, <1>6, <1>7, <1>8, <1>9 DEF ServerIInv

LEMMA BuildServerKeeps ==
  ASSUME ServerIInv, Server!BuildServer
  PROVE  ServerIInv'
<1>1. Server!TypeOK'
  <2>1. owned' \subseteq Server!Resources /\ {shouldExit', quiesced',
          isClosed'} \subseteq BOOLEAN
    BY DEF Server!BuildServer, Server!Resources, Server!Messaging
  <2>2. published' \in Nat
    BY DEF Server!BuildServer, ServerIInv, Server!TypeOK
  <2>3. update' \in [kind : {"none", "hot", "pending"}, version : 0 .. MaxVersion]
    BY ServerAssumption DEF Server!BuildServer, Server!NoUpdate
  <2> QED
    BY <2>1, <2>2, <2>3 DEF Server!BuildServer, Server!requests, ServerIInv, Server!TypeOK
<1>2. ScheduleShape'
  BY DEF ServerIInv, ScheduleShape, Server!BuildServer, Server!requests
<1>3. ServedShape'
  BY DEF ServerIInv, ServedShape, Server!BuildServer, Server!requests
<1>4. FileShape'
  BY DEF ServerIInv, Server!TypeOK, FileShape, Server!BuildServer, Server!requests,
         Server!NoUpdate
<1>5. CacheShape'
  BY DEF ServerIInv, Server!TypeOK, CacheShape, Server!BuildServer, Server!requests,
         Server!NoUpdate
<1>6. PublishedShape'
  BY DEF ServerIInv, PublishedShape, ServedShape, FileShape, CacheShape, ScheduleShape,
         Server!BuildServer, Server!requests, Server!NoUpdate
<1>7. RunShape'
  BY DEF ServerIInv, RunShape, Server!BuildServer, Server!requests
<1>8. CloseShape'
  BY DEF ServerIInv, CloseShape, Server!BuildServer, Server!requests
<1>9. Server!ClosedInOrder'
  BY DEF ServerIInv, Server!ClosedInOrder, Server!BuildServer, Server!requests
<1> QED
  BY <1>1, <1>2, <1>3, <1>4, <1>5, <1>6, <1>7, <1>8, <1>9 DEF ServerIInv

LEMMA BindFailsKeeps ==
  ASSUME ServerIInv, Server!BindFails
  PROVE  ServerIInv'
<1>1. Server!TypeOK'
  BY DEF ServerIInv, Server!TypeOK, Server!BindFails, Server!settings
<1>2. ScheduleShape'
  BY DEF ServerIInv, ScheduleShape, Server!BindFails, Server!settings
<1>3. ServedShape'
  BY DEF ServerIInv, ServedShape, Server!BindFails, Server!settings
<1>4. FileShape'
  BY DEF ServerIInv, Server!TypeOK, FileShape, Server!BindFails, Server!settings
<1>5. CacheShape'
  BY DEF ServerIInv, Server!TypeOK, CacheShape, Server!BindFails, Server!settings
<1>6. PublishedShape'
  BY DEF ServerIInv, PublishedShape, Server!BindFails, Server!settings
<1>7. RunShape'
  BY DEF ServerIInv, RunShape, Server!BindFails, Server!settings
<1>8. CloseShape'
  BY DEF ServerIInv, CloseShape, Server!BindFails, Server!settings
<1>9. Server!ClosedInOrder'
  BY DEF ServerIInv, Server!ClosedInOrder, Server!BindFails, Server!settings
<1> QED
  BY <1>1, <1>2, <1>3, <1>4, <1>5, <1>6, <1>7, <1>8, <1>9 DEF ServerIInv

LEMMA RunOnceReturnsKeeps ==
  ASSUME ServerIInv, Server!RunOnceReturns
  PROVE  ServerIInv'
<1>1. Server!TypeOK'
  BY DEF ServerIInv, Server!TypeOK, Server!RunOnceReturns, Server!requests, Server!runtime,
         Server!settings
<1>2. ScheduleShape'
  BY DEF ServerIInv, ScheduleShape, Server!RunOnceReturns, Server!requests, Server!runtime,
         Server!settings
<1>3. ServedShape'
  BY DEF ServerIInv, ServedShape, Server!RunOnceReturns, Server!requests, Server!runtime,
         Server!settings
<1>4. CacheShape'
  BY DEF ServerIInv, CacheShape, Server!RunOnceReturns, Server!requests, Server!runtime,
         Server!settings
<1>5. PublishedShape'
  BY DEF ServerIInv, PublishedShape, Server!RunOnceReturns, Server!requests, Server!runtime,
         Server!settings
<1>6. RunShape'
  BY DEF ServerIInv, RunShape, Server!RunOnceReturns, Server!requests, Server!runtime,
         Server!settings
<1>7. CloseShape'
  BY DEF ServerIInv, CloseShape, Server!RunOnceReturns, Server!requests, Server!runtime,
         Server!settings
<1>8. Server!ClosedInOrder'
  BY DEF ServerIInv, Server!ClosedInOrder, Server!RunOnceReturns, Server!requests, Server!runtime,
         Server!settings
<1>9. FileShape'
  BY DEF ServerIInv, Server!RunOnceReturns, Server!requests, Server!runtime, Server!settings,
         FileShape
<1> QED
  BY <1>1, <1>2, <1>3, <1>4, <1>5, <1>6, <1>7, <1>8, <1>9 DEF ServerIInv

LEMMA RunDecidesKeeps ==
  ASSUME ServerIInv, Server!RunDecides
  PROVE  ServerIInv'
<1>1. Server!TypeOK'
  BY ServerAssumption DEF ServerIInv, Server!TypeOK, FileShape, Server!RunDecides,
                          Server!requests, Server!runtime, Server!NoVersion, Server!NoUpdate,
                          Server!Resources, Server!Messaging
<1>2. ScheduleShape'
  BY DEF ServerIInv, ScheduleShape, Server!RunDecides, Server!requests, Server!runtime
<1>3. ServedShape'
  BY DEF ServerIInv, ServedShape, Server!RunDecides, Server!requests, Server!runtime
<1>4. FileShape'
  BY DEF ServerIInv, FileShape, Server!RunDecides, Server!requests, Server!runtime
<1>5. CacheShape'
  BY ServerAssumption DEF ServerIInv, Server!TypeOK, CacheShape, FileShape, ServedShape,
                          PublishedShape, ScheduleShape, Server!RunDecides, Server!requests,
                          Server!runtime, Server!NoVersion, Server!NoUpdate
<1>6. PublishedShape'
  BY DEF ServerIInv, PublishedShape, Server!RunDecides, Server!requests, Server!runtime
<1>7. RunShape'
  BY DEF ServerIInv, RunShape, Server!RunDecides, Server!requests, Server!runtime
<1>8. CloseShape'
  BY DEF ServerIInv, CloseShape, Server!RunDecides, Server!requests, Server!runtime
<1>9. Server!ClosedInOrder'
  BY DEF ServerIInv, Server!ClosedInOrder, Server!RunDecides, Server!requests, Server!runtime
<1> QED
  BY <1>1, <1>2, <1>3, <1>4, <1>5, <1>6, <1>7, <1>8, <1>9 DEF ServerIInv

LEMMA RunEndsKeeps ==
  ASSUME ServerIInv, Server!RunEnds
  PROVE  ServerIInv'
<1>1. Server!TypeOK'
  BY DEF ServerIInv, Server!TypeOK, Server!RunEnds, Server!requests, Server!runtime,
         Server!settings
<1>2. ScheduleShape'
  BY DEF ServerIInv, ScheduleShape, Server!RunEnds, Server!requests, Server!runtime,
         Server!settings
<1>3. ServedShape'
  BY DEF ServerIInv, ServedShape, Server!RunEnds, Server!requests, Server!runtime, Server!settings
<1>4. CacheShape'
  BY DEF ServerIInv, CacheShape, Server!RunEnds, Server!requests, Server!runtime, Server!settings
<1>5. PublishedShape'
  BY DEF ServerIInv, PublishedShape, Server!RunEnds, Server!requests, Server!runtime,
         Server!settings
<1>6. RunShape'
  BY DEF ServerIInv, RunShape, Server!RunEnds, Server!requests, Server!runtime, Server!settings
<1>7. CloseShape'
  BY DEF ServerIInv, CloseShape, Server!RunEnds, Server!requests, Server!runtime, Server!settings
<1>8. Server!ClosedInOrder'
  BY DEF ServerIInv, Server!ClosedInOrder, Server!RunEnds, Server!requests, Server!runtime,
         Server!settings
<1>9. FileShape'
  BY DEF ServerIInv, Server!RunEnds, Server!requests, Server!runtime, Server!settings, FileShape
<1> QED
  BY <1>1, <1>2, <1>3, <1>4, <1>5, <1>6, <1>7, <1>8, <1>9 DEF ServerIInv

-----------------------------------------------------------------------------
(* The start of the runtime.                                               *)

LEMMA MessagingBeginsKeeps ==
  ASSUME ServerIInv, Server!MessagingBegins
  PROVE  ServerIInv'
<1>1. Server!TypeOK'
  BY ServerAssumption DEF ServerIInv, Server!TypeOK, FileShape, Server!MessagingBegins,
                          Server!thread, Server!requests, Server!settings, Server!NoVersion,
                          Server!NoUpdate, Server!Resources, Server!Messaging
<1>2. CloseShape'
  BY DEF ServerIInv, CloseShape, Server!MessagingBegins, Server!thread, Server!requests,
         Server!settings
<1>3. Server!ClosedInOrder'
  BY DEF ServerIInv, Server!ClosedInOrder, CloseShape, RunShape, Server!MessagingBegins,
         Server!thread, Server!requests, Server!settings
<1>4. ScheduleShape' /\ ServedShape' /\ FileShape' /\ CacheShape' /\ PublishedShape' /\ RunShape'
  BY DEF ServerIInv, Server!MessagingBegins, Server!thread, Server!requests, Server!settings,
         ScheduleShape, ServedShape, FileShape, CacheShape, PublishedShape, RunShape
<1> QED
  BY <1>1, <1>2, <1>3, <1>4 DEF ServerIInv

LEMMA MessagingWorkflowBeginsKeeps ==
  ASSUME ServerIInv, Server!MessagingWorkflowBegins
  PROVE  ServerIInv'
<1>1. Server!TypeOK'
  BY ServerAssumption DEF ServerIInv, Server!TypeOK, FileShape, Server!MessagingWorkflowBegins,
                          Server!thread, Server!requests, Server!settings, Server!NoVersion,
                          Server!NoUpdate, Server!Resources, Server!Messaging
<1>2. CloseShape'
  BY DEF ServerIInv, CloseShape, Server!MessagingWorkflowBegins, Server!thread, Server!requests,
         Server!settings
<1>3. Server!ClosedInOrder'
  BY DEF ServerIInv, Server!ClosedInOrder, CloseShape, RunShape, Server!MessagingWorkflowBegins,
         Server!thread, Server!requests, Server!settings
<1>4. ScheduleShape' /\ ServedShape' /\ FileShape' /\ CacheShape' /\ PublishedShape' /\ RunShape'
  BY DEF ServerIInv, Server!MessagingWorkflowBegins, Server!thread, Server!requests,
         Server!settings, ScheduleShape, ServedShape, FileShape, CacheShape, PublishedShape,
         RunShape
<1> QED
  BY <1>1, <1>2, <1>3, <1>4 DEF ServerIInv

LEMMA MessagingFailsKeeps ==
  ASSUME ServerIInv, Server!MessagingFails
  PROVE  ServerIInv'
<1>1. Server!TypeOK'
  BY DEF ServerIInv, Server!TypeOK, Server!MessagingFails, Server!thread, Server!requests,
         Server!settings
<1>2. CloseShape'
  BY DEF ServerIInv, CloseShape, Server!MessagingFails, Server!thread, Server!requests,
         Server!settings
<1>3. Server!ClosedInOrder'
  BY DEF ServerIInv, Server!ClosedInOrder, Server!MessagingFails, Server!thread, Server!requests,
         Server!settings
<1>4. ScheduleShape' /\ ServedShape' /\ FileShape' /\ CacheShape' /\ PublishedShape' /\ RunShape'
  BY DEF ServerIInv, Server!MessagingFails, Server!thread, Server!requests, Server!settings,
         ScheduleShape, ServedShape, FileShape, CacheShape, PublishedShape, RunShape
<1> QED
  BY <1>1, <1>2, <1>3, <1>4 DEF ServerIInv

LEMMA StartCompletesKeeps ==
  ASSUME ServerIInv, Server!StartCompletes
  PROVE  ServerIInv'
<1>1. Server!TypeOK'
  BY DEF ServerIInv, Server!TypeOK, Server!StartCompletes, Server!requests, Server!runtime,
         Server!settings
<1>2. ScheduleShape'
  BY DEF ServerIInv, ScheduleShape, Server!StartCompletes, Server!requests, Server!runtime,
         Server!settings
<1>3. ServedShape'
  BY DEF ServerIInv, ServedShape, Server!StartCompletes, Server!requests, Server!runtime,
         Server!settings
<1>4. CacheShape'
  BY DEF ServerIInv, CacheShape, Server!StartCompletes, Server!requests, Server!runtime,
         Server!settings
<1>5. PublishedShape'
  BY ServerAssumption DEF ServerIInv, Server!TypeOK, PublishedShape, ServedShape, FileShape,
                          CacheShape, ScheduleShape, Server!StartCompletes, Server!requests,
                          Server!runtime, Server!settings, Server!NoVersion, Server!NoUpdate
<1>6. RunShape'
  BY DEF ServerIInv, RunShape, Server!StartCompletes, Server!requests, Server!runtime,
         Server!settings
<1>7. CloseShape'
  BY DEF ServerIInv, CloseShape, Server!StartCompletes, Server!requests, Server!runtime,
         Server!settings
<1>8. Server!ClosedInOrder'
  BY DEF ServerIInv, Server!ClosedInOrder, Server!StartCompletes, Server!requests, Server!runtime,
         Server!settings
<1>9. FileShape'
  BY DEF ServerIInv, Server!StartCompletes, Server!requests, Server!runtime, Server!settings,
         FileShape
<1> QED
  BY <1>1, <1>2, <1>3, <1>4, <1>5, <1>6, <1>7, <1>8, <1>9 DEF ServerIInv

LEMMA StartFailsKeeps ==
  ASSUME ServerIInv, Server!StartFails
  PROVE  ServerIInv'
<1>1. Server!TypeOK'
  BY DEF ServerIInv, Server!TypeOK, Server!StartFails, Server!requests, Server!settings
<1>2. ScheduleShape'
  BY DEF ServerIInv, ScheduleShape, Server!StartFails, Server!requests, Server!settings
<1>3. ServedShape'
  BY DEF ServerIInv, ServedShape, Server!StartFails, Server!requests, Server!settings
<1>4. CacheShape'
  BY DEF ServerIInv, CacheShape, Server!StartFails, Server!requests, Server!settings
<1>5. PublishedShape'
  BY DEF ServerIInv, PublishedShape, Server!StartFails, Server!requests, Server!settings
<1>6. RunShape'
  BY DEF ServerIInv, RunShape, Server!StartFails, Server!requests, Server!settings
<1>7. CloseShape'
  BY DEF ServerIInv, CloseShape, Server!StartFails, Server!requests, Server!settings
<1>8. Server!ClosedInOrder'
  BY DEF ServerIInv, Server!ClosedInOrder, Server!StartFails, Server!requests, Server!settings
<1>9. FileShape'
  BY DEF ServerIInv, Server!StartFails, Server!requests, Server!settings, FileShape
<1> QED
  BY <1>1, <1>2, <1>3, <1>4, <1>5, <1>6, <1>7, <1>8, <1>9 DEF ServerIInv

LEMMA UndoMessagingKeeps ==
  ASSUME ServerIInv, Server!UndoMessaging
  PROVE  ServerIInv'
<1>1. Server!TypeOK'
  BY DEF ServerIInv, Server!TypeOK, Server!UndoMessaging, Server!thread, Server!requests,
         Server!settings
<1>2. CloseShape'
  BY DEF ServerIInv, CloseShape, Server!UndoMessaging, Server!thread, Server!requests,
         Server!settings
<1>3. Server!ClosedInOrder'
  BY DEF ServerIInv, Server!ClosedInOrder, Server!UndoMessaging, Server!thread, Server!requests,
         Server!settings
<1>4. ScheduleShape' /\ ServedShape' /\ FileShape' /\ CacheShape' /\ PublishedShape' /\ RunShape'
  BY DEF ServerIInv, Server!UndoMessaging, Server!thread, Server!requests, Server!settings,
         ScheduleShape, ServedShape, FileShape, CacheShape, PublishedShape, RunShape
<1> QED
  BY <1>1, <1>2, <1>3, <1>4 DEF ServerIInv

LEMMA UndoFailsKeeps ==
  ASSUME ServerIInv, Server!UndoFails
  PROVE  ServerIInv'
<1>1. Server!TypeOK'
  BY DEF ServerIInv, Server!TypeOK, Server!UndoFails, Server!requests, Server!settings
<1>2. ScheduleShape'
  BY DEF ServerIInv, ScheduleShape, Server!UndoFails, Server!requests, Server!settings
<1>3. ServedShape'
  BY DEF ServerIInv, ServedShape, Server!UndoFails, Server!requests, Server!settings
<1>4. CacheShape'
  BY DEF ServerIInv, CacheShape, Server!UndoFails, Server!requests, Server!settings
<1>5. PublishedShape'
  BY DEF ServerIInv, PublishedShape, Server!UndoFails, Server!requests, Server!settings
<1>6. RunShape'
  BY DEF ServerIInv, RunShape, Server!UndoFails, Server!requests, Server!settings
<1>7. CloseShape'
  BY DEF ServerIInv, CloseShape, Server!UndoFails, Server!requests, Server!settings
<1>8. Server!ClosedInOrder'
  BY DEF ServerIInv, Server!ClosedInOrder, Server!UndoFails, Server!requests, Server!settings
<1>9. FileShape'
  BY DEF ServerIInv, Server!UndoFails, Server!requests, Server!settings, FileShape
<1> QED
  BY <1>1, <1>2, <1>3, <1>4, <1>5, <1>6, <1>7, <1>8, <1>9 DEF ServerIInv

LEMMA StartWithoutMessagingKeeps ==
  ASSUME ServerIInv, Server!StartWithoutMessaging
  PROVE  ServerIInv'
<1>1. Server!TypeOK'
  BY DEF ServerIInv, Server!TypeOK, Server!StartWithoutMessaging, Server!requests, Server!settings
<1>2. ScheduleShape'
  BY DEF ServerIInv, ScheduleShape, Server!StartWithoutMessaging, Server!requests, Server!settings
<1>3. ServedShape'
  BY DEF ServerIInv, ServedShape, Server!StartWithoutMessaging, Server!requests, Server!settings
<1>4. CacheShape'
  BY DEF ServerIInv, CacheShape, Server!StartWithoutMessaging, Server!requests, Server!settings
<1>5. PublishedShape'
  BY ServerAssumption DEF ServerIInv, Server!TypeOK, PublishedShape, ServedShape, FileShape,
                          CacheShape, ScheduleShape, Server!StartWithoutMessaging,
                          Server!requests, Server!settings, Server!NoVersion, Server!NoUpdate
<1>6. RunShape'
  BY DEF ServerIInv, RunShape, Server!StartWithoutMessaging, Server!requests, Server!settings
<1>7. CloseShape'
  BY DEF ServerIInv, CloseShape, Server!StartWithoutMessaging, Server!requests, Server!settings
<1>8. Server!ClosedInOrder'
  BY DEF ServerIInv, Server!ClosedInOrder, Server!StartWithoutMessaging, Server!requests,
         Server!settings
<1>9. FileShape'
  BY DEF ServerIInv, Server!StartWithoutMessaging, Server!requests, Server!settings, FileShape
<1> QED
  BY <1>1, <1>2, <1>3, <1>4, <1>5, <1>6, <1>7, <1>8, <1>9 DEF ServerIInv

-----------------------------------------------------------------------------
(* Its end.                                                                *)

LEMMA ServerExitsKeeps ==
  ASSUME ServerIInv, Server!ServerExits
  PROVE  ServerIInv'
<1>1. Server!TypeOK'
  BY DEF ServerIInv, Server!TypeOK, Server!ServerExits, Server!requests, Server!settings
<1>2. ScheduleShape'
  BY DEF ServerIInv, ScheduleShape, Server!ServerExits, Server!requests, Server!settings
<1>3. ServedShape'
  BY DEF ServerIInv, ServedShape, Server!ServerExits, Server!requests, Server!settings
<1>4. CacheShape'
  BY DEF ServerIInv, CacheShape, Server!ServerExits, Server!requests, Server!settings
<1>5. PublishedShape'
  BY DEF ServerIInv, PublishedShape, Server!ServerExits, Server!requests, Server!settings
<1>6. RunShape'
  BY DEF ServerIInv, RunShape, Server!ServerExits, Server!requests, Server!settings
<1>7. CloseShape'
  BY DEF ServerIInv, CloseShape, Server!ServerExits, Server!requests, Server!settings
<1>8. Server!ClosedInOrder'
  BY DEF ServerIInv, Server!ClosedInOrder, Server!ServerExits, Server!requests, Server!settings
<1>9. FileShape'
  BY DEF ServerIInv, Server!ServerExits, Server!requests, Server!settings, FileShape
<1> QED
  BY <1>1, <1>2, <1>3, <1>4, <1>5, <1>6, <1>7, <1>8, <1>9 DEF ServerIInv

LEMMA StepSucceedsKeeps ==
  ASSUME ServerIInv, Server!StepSucceeds
  PROVE  ServerIInv'
<1>1. Server!TypeOK'
  <2>1. owned' \subseteq Server!Resources
    BY DEF Server!StepSucceeds, ServerIInv, Server!TypeOK
  <2>2. isClosed' \in BOOLEAN
    BY DEF Server!StepSucceeds
  <2>3. quiesced' \in BOOLEAN
    <3>1. CASE closingStep = "quiesce"
      BY <3>1 DEF Server!StepSucceeds
    <3>2. CASE closingStep # "quiesce"
      BY <3>2 DEF Server!StepSucceeds
    <3> QED
      BY <3>1, <3>2
  <2> QED
    BY <2>1, <2>2, <2>3 DEF Server!StepSucceeds, Server!thread, Server!requests, Server!settings,
                            ServerIInv, Server!TypeOK
<1>2. RunShape'
  BY DEF ServerIInv, RunShape, Server!StepSucceeds, Server!NextStep, Server!thread,
         Server!requests, Server!settings
<1>3. CloseShape'
  <2>1. CASE closingStep \in {"quiesce", "workflow", "platform"}
    <3>1. closingStep = "platform" => closingStep' = "transcriber"
                                     /\ owned' \cap Server!Messaging = {}
      BY DEF Server!StepSucceeds, Server!NextStep, ServerIInv, Server!TypeOK,
             Server!ClosedInOrder, CloseShape, Server!Messaging
    <3>2. closingStep # "platform" =>
            closingStep' = "workflow" \/ (closingStep' = "platform" /\ "workflow" \notin owned')
      BY <2>1 DEF Server!StepSucceeds, Server!NextStep
    <3> QED
      BY <3>1, <3>2 DEF Server!StepSucceeds, Server!thread, CloseShape
  <2>2. CASE closingStep \in {"transcriber", "providers", "accounts"}
    BY <2>2 DEF Server!StepSucceeds, Server!NextStep, Server!thread, Server!Messaging, ServerIInv,
                CloseShape
  <2> QED
    BY <2>1, <2>2 DEF Server!StepSucceeds, ServerIInv, CloseShape
<1>4. Server!ClosedInOrder'
  <2>1. CASE closingStep \in {"quiesce", "workflow", "platform"}
    <3>1. ~isClosed' /\ closingStep' \in {"workflow", "platform", "transcriber"}
      BY <2>1 DEF Server!StepSucceeds, Server!NextStep
    <3>2. owned' \subseteq owned /\ owned \ Server!Messaging \subseteq owned'
      BY <2>1 DEF Server!StepSucceeds, Server!Messaging, Server!Resources, ServerIInv,
                  Server!TypeOK
    <3>3. "platform" \in owned' /\ closingStep' \in {"workflow", "platform"} => quiesced'
      BY <2>1 DEF Server!StepSucceeds, Server!NextStep, ServerIInv, Server!ClosedInOrder
    <3> QED
      BY <3>1, <3>2, <3>3 DEF ServerIInv, Server!ClosedInOrder, Server!Messaging
  <2>2. CASE closingStep \in {"transcriber", "providers", "accounts"}
    <3>1. closingStep = "accounts" => owned' = {}
      BY <2>2 DEF Server!StepSucceeds, ServerIInv, Server!TypeOK, Server!Resources,
                  Server!Messaging, CloseShape
    <3>2. isClosed' => closingStep = "accounts"
      BY <2>2 DEF Server!StepSucceeds, Server!NextStep
    <3> QED
      BY <2>2, <3>1, <3>2 DEF Server!StepSucceeds, Server!NextStep, Server!thread,
                              Server!Messaging, ServerIInv, CloseShape, Server!ClosedInOrder
  <2> QED
    BY <2>1, <2>2 DEF Server!StepSucceeds, ServerIInv, CloseShape
<1>5. ScheduleShape' /\ ServedShape' /\ FileShape' /\ CacheShape' /\ PublishedShape'
  BY DEF ServerIInv, Server!StepSucceeds, Server!thread, Server!requests, Server!settings,
         ScheduleShape, ServedShape, FileShape, CacheShape, PublishedShape
<1> QED
  BY <1>1, <1>2, <1>3, <1>4, <1>5 DEF ServerIInv

LEMMA StepFailsKeeps ==
  ASSUME ServerIInv, Server!StepFails
  PROVE  ServerIInv'
<1>1. Server!TypeOK'
  BY DEF ServerIInv, Server!TypeOK, Server!StepFails, Server!thread, Server!requests,
         Server!settings
<1>2. CloseShape'
  BY DEF ServerIInv, CloseShape, Server!StepFails, Server!thread, Server!requests, Server!settings
<1>3. Server!ClosedInOrder'
  BY DEF ServerIInv, Server!ClosedInOrder, Server!StepFails, Server!thread, Server!requests,
         Server!settings
<1>4. ScheduleShape' /\ ServedShape' /\ FileShape' /\ CacheShape' /\ PublishedShape' /\ RunShape'
  BY DEF ServerIInv, Server!StepFails, Server!thread, Server!requests, Server!settings,
         ScheduleShape, ServedShape, FileShape, CacheShape, PublishedShape, RunShape
<1> QED
  BY <1>1, <1>2, <1>3, <1>4 DEF ServerIInv

LEMMA CloseReturnsKeeps ==
  ASSUME ServerIInv, Server!CloseReturns
  PROVE  ServerIInv'
<1>1. Server!TypeOK'
  BY ServerAssumption DEF ServerIInv, Server!TypeOK, FileShape, Server!CloseReturns,
                          Server!requests, Server!NoVersion, Server!NoUpdate, Server!Resources,
                          Server!Messaging
<1>2. ScheduleShape'
  BY DEF ServerIInv, ScheduleShape, Server!CloseReturns, Server!requests
<1>3. ServedShape'
  BY DEF ServerIInv, ServedShape, Server!CloseReturns, Server!requests
<1>4. FileShape'
  BY DEF ServerIInv, Server!TypeOK, FileShape, Server!CloseReturns, Server!requests,
         Server!NoUpdate
<1>5. CacheShape'
  BY DEF ServerIInv, Server!TypeOK, CacheShape, Server!CloseReturns, Server!requests,
         Server!NoUpdate
<1>6. PublishedShape'
  BY DEF ServerIInv, PublishedShape, Server!CloseReturns, Server!requests
<1>7. RunShape'
  BY DEF ServerIInv, RunShape, Server!CloseReturns, Server!requests
<1>8. CloseShape'
  BY DEF ServerIInv, CloseShape, Server!CloseReturns, Server!requests
<1>9. Server!ClosedInOrder'
  BY DEF ServerIInv, Server!ClosedInOrder, Server!CloseReturns, Server!requests
<1> QED
  BY <1>1, <1>2, <1>3, <1>4, <1>5, <1>6, <1>7, <1>8, <1>9 DEF ServerIInv

-----------------------------------------------------------------------------
(* Changes of the configuration.                                           *)

LEMMA EditByHandKeeps ==
  ASSUME ServerIInv, Server!EditByHand
  PROVE  ServerIInv'
<1>1. Server!TypeOK'
  BY ServerAssumption DEF ServerIInv, Server!TypeOK, FileShape, Server!EditByHand, Server!thread,
                          Server!requests, Server!runtime, Server!NoVersion, Server!NoUpdate,
                          Server!Resources, Server!Messaging
<1>2. FileShape'
  BY DEF ServerIInv, Server!TypeOK, FileShape, Server!EditByHand, Server!thread, Server!requests,
         Server!runtime
<1>3. ScheduleShape' /\ ServedShape' /\ CacheShape' /\ PublishedShape' /\ RunShape'
      /\ CloseShape' /\ Server!ClosedInOrder'
  BY DEF ServerIInv, Server!EditByHand, Server!thread, Server!requests, Server!runtime,
         ScheduleShape, ServedShape, CacheShape, PublishedShape, RunShape, CloseShape,
         Server!ClosedInOrder
<1> QED
  BY <1>1, <1>2, <1>3 DEF ServerIInv

LEMMA SettingsReadKeeps ==
  ASSUME ServerIInv, Server!SettingsRead
  PROVE  ServerIInv'
<1>1. Server!TypeOK'
  BY ServerAssumption DEF ServerIInv, Server!TypeOK, FileShape, Server!SettingsRead,
                          Server!thread, Server!requests, Server!runtime, Server!NoVersion,
                          Server!NoUpdate, Server!Resources, Server!Messaging
<1>2. FileShape'
  BY DEF ServerIInv, Server!TypeOK, FileShape, Server!SettingsRead, Server!thread,
         Server!requests, Server!runtime, Server!NoVersion
<1>3. CacheShape'
  BY DEF ServerIInv, CacheShape, FileShape, ServedShape, PublishedShape, ScheduleShape,
         Server!SettingsRead, Server!thread, Server!requests, Server!runtime, Server!NoVersion
<1>4. ScheduleShape' /\ ServedShape' /\ PublishedShape' /\ RunShape' /\ CloseShape'
      /\ Server!ClosedInOrder'
  BY DEF ServerIInv, Server!SettingsRead, Server!thread, Server!requests, Server!runtime,
         ScheduleShape, ServedShape, PublishedShape, RunShape, CloseShape, Server!ClosedInOrder
<1> QED
  BY <1>1, <1>2, <1>3, <1>4 DEF ServerIInv

LEMMA ApplyPreparesKeeps ==
  ASSUME ServerIInv, NEW kind \in {"hot", "pending"}, Server!ApplyPrepares(kind)
  PROVE  ServerIInv'
<1>1. Server!TypeOK'
  BY DEF ServerIInv, Server!TypeOK, Server!ApplyPrepares, Server!thread, Server!requests,
         Server!runtime, Server!NoUpdate
<1>2. FileShape'
  BY DEF ServerIInv, Server!TypeOK, FileShape, Server!ApplyPrepares, Server!thread,
         Server!requests, Server!runtime, Server!NoUpdate
<1>3. CacheShape'
  BY DEF ServerIInv, Server!TypeOK, CacheShape, Server!ApplyPrepares, Server!thread,
         Server!requests, Server!runtime, Server!NoUpdate
<1>4. PublishedShape'
  BY DEF ServerIInv, PublishedShape, Server!ApplyPrepares, Server!thread, Server!requests,
         Server!runtime
<1>5. ScheduleShape' /\ ServedShape' /\ RunShape' /\ CloseShape' /\ Server!ClosedInOrder'
  BY DEF ServerIInv, Server!ApplyPrepares, Server!thread, Server!requests, Server!runtime,
         ScheduleShape, ServedShape, RunShape, CloseShape, Server!ClosedInOrder
<1> QED
  BY <1>1, <1>2, <1>3, <1>4, <1>5 DEF ServerIInv

LEMMA ApplyCommitsKeeps ==
  ASSUME ServerIInv, Server!ApplyCommits
  PROVE  ServerIInv'
<1>1. Server!TypeOK'
  BY ServerAssumption DEF ServerIInv, Server!TypeOK, FileShape, Server!ApplyCommits,
                          Server!thread, Server!requests, Server!runtime, Server!NoVersion,
                          Server!NoUpdate, Server!Resources, Server!Messaging
<1>2. FileShape'
  BY DEF ServerIInv, Server!TypeOK, FileShape, Server!ApplyCommits, Server!thread,
         Server!requests, Server!runtime, Server!NoVersion
<1>3. CacheShape'
  BY ServerAssumption DEF ServerIInv, Server!TypeOK, CacheShape, FileShape, ServedShape,
                          PublishedShape, ScheduleShape, Server!ApplyCommits, Server!thread,
                          Server!requests, Server!runtime, Server!NoVersion, Server!NoUpdate
<1>4. PublishedShape'
  BY ServerAssumption DEF ServerIInv, Server!TypeOK, PublishedShape, ServedShape, FileShape,
                          CacheShape, ScheduleShape, Server!ApplyCommits, Server!thread,
                          Server!requests, Server!runtime, Server!NoVersion, Server!NoUpdate
<1>5. ScheduleShape' /\ ServedShape' /\ RunShape' /\ CloseShape' /\ Server!ClosedInOrder'
  BY DEF ServerIInv, Server!ApplyCommits, Server!thread, Server!requests, Server!runtime,
         ScheduleShape, ServedShape, RunShape, CloseShape, Server!ClosedInOrder
<1> QED
  BY <1>1, <1>2, <1>3, <1>4, <1>5 DEF ServerIInv

LEMMA ApplyAnswersKeeps ==
  ASSUME ServerIInv, Server!ApplyAnswers
  PROVE  ServerIInv'
<1>1. Server!TypeOK'
  BY ServerAssumption DEF ServerIInv, Server!TypeOK, FileShape, Server!ApplyAnswers,
                          Server!thread, Server!requests, Server!runtime, Server!NoVersion,
                          Server!NoUpdate, Server!Resources, Server!Messaging
<1>2. FileShape'
  BY DEF ServerIInv, Server!TypeOK, FileShape, Server!ApplyAnswers, Server!thread,
         Server!requests, Server!runtime, Server!NoUpdate
<1>3. CacheShape'
  BY ServerAssumption DEF ServerIInv, Server!TypeOK, CacheShape, FileShape, ServedShape,
                          PublishedShape, ScheduleShape, Server!ApplyAnswers, Server!thread,
                          Server!requests, Server!runtime, Server!NoVersion, Server!NoUpdate
<1>4. PublishedShape'
  BY DEF ServerIInv, Server!TypeOK, PublishedShape, Server!ApplyAnswers, Server!thread,
         Server!requests, Server!runtime, Server!NoUpdate
<1>5. ScheduleShape' /\ ServedShape' /\ RunShape' /\ CloseShape' /\ Server!ClosedInOrder'
  BY DEF ServerIInv, Server!ApplyAnswers, Server!thread, Server!requests, Server!runtime,
         ScheduleShape, ServedShape, RunShape, CloseShape, Server!ClosedInOrder
<1> QED
  BY <1>1, <1>2, <1>3, <1>4, <1>5 DEF ServerIInv

LEMMA ApplyFailsKeeps ==
  ASSUME ServerIInv, Server!ApplyFails
  PROVE  ServerIInv'
<1>1. Server!TypeOK'
  BY ServerAssumption DEF ServerIInv, Server!TypeOK, FileShape, Server!ApplyFails, Server!thread,
                          Server!requests, Server!runtime, Server!NoVersion, Server!NoUpdate,
                          Server!Resources, Server!Messaging
<1>2. FileShape'
  BY DEF ServerIInv, Server!TypeOK, FileShape, Server!ApplyFails, Server!thread, Server!requests,
         Server!runtime, Server!NoUpdate
<1>3. CacheShape'
  BY DEF ServerIInv, Server!TypeOK, CacheShape, Server!ApplyFails, Server!thread, Server!requests,
         Server!runtime, Server!NoUpdate
<1>4. PublishedShape'
  BY DEF ServerIInv, Server!TypeOK, PublishedShape, Server!ApplyFails, Server!thread,
         Server!requests, Server!runtime, Server!NoUpdate
<1>5. ScheduleShape' /\ ServedShape' /\ RunShape' /\ CloseShape' /\ Server!ClosedInOrder'
  BY DEF ServerIInv, Server!ApplyFails, Server!thread, Server!requests, Server!runtime,
         ScheduleShape, ServedShape, RunShape, CloseShape, Server!ClosedInOrder
<1> QED
  BY <1>1, <1>2, <1>3, <1>4, <1>5 DEF ServerIInv

-----------------------------------------------------------------------------
(* Every step keeps the invariant.                                         *)
LEMMA ServerStepKeeps ==
  ASSUME ServerIInv, [Server!ServerNext]_serverVars
  PROVE  ServerIInv'
<1>1. CASE UNCHANGED serverVars
  BY <1>1 DEF serverVars, Server!thread, Server!requests, Server!runtime, Server!settings,
              ServerIInv, Server!TypeOK, ScheduleShape, ServedShape, FileShape, CacheShape,
              PublishedShape, RunShape, CloseShape, Server!ClosedInOrder
<1>2. CASE Server!Requests
  BY <1>2, RequestRestartKeeps, RequestStopKeeps, StartServerKeeps DEF Server!Requests
<1>3. CASE Server!SupervisorRuns
  BY <1>3, RunBeginsKeeps, ReadGenerationKeeps, LoadSettingsKeeps, BuildServerKeeps,
     BindFailsKeeps, RunOnceReturnsKeeps, RunDecidesKeeps, RunEndsKeeps DEF Server!SupervisorRuns
<1>4. CASE Server!RuntimeStarts
  BY <1>4, MessagingBeginsKeeps, MessagingWorkflowBeginsKeeps, MessagingFailsKeeps,
     StartCompletesKeeps, StartFailsKeeps, UndoMessagingKeeps, UndoFailsKeeps,
     StartWithoutMessagingKeeps DEF Server!RuntimeStarts
<1>5. CASE Server!RuntimeCloses
  BY <1>5, ServerExitsKeeps, StepSucceedsKeeps, StepFailsKeeps, CloseReturnsKeeps
     DEF Server!RuntimeCloses
<1>6. CASE Server!ConfigurationChanges
  BY <1>6, EditByHandKeeps, SettingsReadKeeps, ApplyPreparesKeeps, ApplyCommitsKeeps,
     ApplyAnswersKeeps, ApplyFailsKeeps DEF Server!ConfigurationChanges
<1> QED
  BY <1>1, <1>2, <1>3, <1>4, <1>5, <1>6 DEF Server!ServerNext

(* While the server is the component that runs, its invariant holds.       *)
ServerShape == component = "server" => ServerIInv

(* Every step of the process keeps it.                                     *)
LEMMA ServerStays ==
  MCSpec => []ServerShape
<1>1. MCInit => ServerShape
  BY ServerInitially DEF MCInit, ServerShape
<1>2. ServerShape /\ [MCNext]_allVars => ServerShape'
  <2> SUFFICES ASSUME ServerShape, [MCNext]_allVars, component' = "server"
               PROVE  ServerIInv'
    BY DEF ServerShape
  <2>1. component = "server" /\ ServerIInv
    BY DEF MCNext, allVars, ServerShape
  <2>2. [Server!ServerNext]_serverVars
    BY <2>1 DEF MCNext, allVars
  <2> QED
    BY <2>1, <2>2, ServerStepKeeps
<1> QED
  BY <1>1, <1>2, PTL DEF MCSpec

(* A server that goes on serving has seen every granted restart with the   *)
(* settings of that moment and every update reported as applied; no run    *)
(* begins beside a runtime that was left open; cleanup never passes a      *)
(* dependency that would not close.                                        *)
THEOREM RestartsCorrect ==
  MCSpec => []RestartsAreServed
<1>1. ServerShape => RestartsAreServed
  <2>1. ServerIInv => Server!ServesWhatWasAsked
    BY DEF ServerIInv, Server!TypeOK, FileShape, ServedShape, PublishedShape,
           Server!ServesWhatWasAsked
  <2>2. ServerIInv => Server!NoSecondRuntime /\ Server!ClosedInOrder
    BY DEF ServerIInv, RunShape, Server!NoSecondRuntime
  <2> QED
    BY <2>1, <2>2 DEF Server!RestartsAreServed, ServerIInv, ServerShape, RestartsAreServed
<1> QED
  BY <1>1, ServerStays, PTL

-----------------------------------------------------------------------------
(* The response of a request and its lease.                                *)

(* An upstream stream is held only while it is read.  Where the task that  *)
(* serves the request is tells how often it has released the lease, and it *)
(* is past the closing of the body only when the runner has ended.         *)
LeaseShape ==
  /\ serving \in {"waiting", "streaming", "blocked", "closing", "releasing", "over"}
  /\ phase # "reading" => upstream = FALSE
  /\ released = IF serving = "over" THEN 1 ELSE 0
  /\ serving \in {"releasing", "over"} => phase = "done"

(* A step of the runner drops the upstream stream when it stops reading,   *)
(* and it takes no step when it is done.                                   *)
LEMMA RunDropsUpstream ==
  ASSUME Response!Run, phase # "reading" => upstream = FALSE
  PROVE  phase # "done" /\ (phase' # "reading" => upstream' = FALSE)
<1>1. CASE Response!Begin
  BY <1>1 DEF Response!Begin
<1>2. CASE Response!Opening
  BY <1>2 DEF Response!Opening, Response!OpenQuiet, Response!OpenSucceeds, Response!OpenFails,
              Response!GiveUp
<1>3. CASE Response!Reading
  BY <1>3 DEF Response!Reading, Response!ReadNothing, Response!ReadFinish, Response!ReadContent,
              Response!HoldbackExpires, Response!ReadQuiet, Response!StreamEnds, Response!Correct,
              Response!Replay, Response!Recover, Response!Fail, Response!GiveUp, Response!Drop
<1>4. CASE Response!Finish
  BY <1>4 DEF Response!Finish
<1>5. CASE Response!Recovering
  BY <1>5 DEF Response!Recovering, Response!RecoveryQuiet, Response!RecoverySucceeds,
              Response!RecoveryFails, Response!GiveUp
<1> QED
  BY <1>1, <1>2, <1>3, <1>4, <1>5 DEF Response!Run

(* Every step of a request keeps the shape.                                *)
LEMMA LeaseKept ==
  ASSUME LeaseShape, [Response!RequestNext]_replyVars
  PROVE  LeaseShape'
<1>1. CASE UNCHANGED replyVars
  BY <1>1 DEF replyVars, LeaseShape
<1>2. CASE Response!RunStep
  BY <1>2, RunDropsUpstream DEF LeaseShape, Response!RunStep, Response!Pulling, Response!Sends
<1>3. CASE Response!ProgressExpires
  BY <1>3 DEF LeaseShape, Response!ProgressExpires, Response!Pulling, Response!Abandon,
              Response!Drop, Response!responseVars
<1>4. CASE Response!FirstEventFails \/ Response!LaterEventFails \/ Response!BodyEnds
           \/ Response!Leave \/ Response!SendEnds
  BY <1>4 DEF LeaseShape, Response!FirstEventFails, Response!LaterEventFails, Response!BodyEnds,
              Response!Leave, Response!SendEnds, Response!Sends, Response!Pulling,
              Response!Failed, Response!vars
<1>5. CASE Response!CloseBody
  BY <1>5 DEF LeaseShape, Response!CloseBody, Response!Abandon, Response!Drop, Response!vars
<1>6. CASE Response!ReleaseLease
  BY <1>6 DEF LeaseShape, Response!ReleaseLease, Response!vars
<1> QED
  BY <1>1, <1>2, <1>3, <1>4, <1>5, <1>6 DEF Response!RequestNext

(* While a request is the component that runs, its shape holds.            *)
ResponseShape == component = "response" => LeaseShape

(* The lease of a request is released once, and only after its upstream    *)
(* stream and its admitted attempt are closed, whether the body ends, the  *)
(* client leaves, the deadline passes or the stream fails.                 *)
THEOREM LeaseCorrect ==
  MCSpec => []LeaseOutlivesStream
<1>1. MCInit => ResponseShape
  BY DEF MCInit, ResponseShape, LeaseShape, Response!RequestInit, Response!Init
<1>2. ResponseShape /\ [MCNext]_allVars => ResponseShape'
  <2> SUFFICES ASSUME ResponseShape, [MCNext]_allVars, component' = "response"
               PROVE  LeaseShape'
    BY DEF ResponseShape
  <2>1. component = "response" /\ LeaseShape
    BY DEF MCNext, allVars, ResponseShape
  <2>2. [Response!RequestNext]_replyVars
    BY <2>1 DEF MCNext, allVars
  <2> QED
    BY <2>1, <2>2, LeaseKept
<1>3. ResponseShape => LeaseOutlivesStream
  BY DEF ResponseShape, LeaseShape, LeaseOutlivesStream, Response!LeaseOutlivesStream
<1> QED
  BY <1>1, <1>2, <1>3, PTL DEF MCSpec

-----------------------------------------------------------------------------
(* The response of a request.  What its client would have seen if all that *)
(* is held were released mirrors the ledger, block by block.               *)

EventTypes == {"message_start", "content_block_start", "content_block_delta", "content_block_stop",
               "message_delta", "message_stop", "ping"}

Events  == [type : EventTypes, at : Nat, of : Nat]
Clients == [starts : Nat, open : SUBSET Nat, seen : SUBSET Nat, of : SUBSET Nat, stops : Nat,
            legal : BOOLEAN]
Ledgers == [id : Nat, started : BOOLEAN, blocks : Seq(Response!Block), slot : [Tools -> Nat]]

Mirrors(c, l) ==
  /\ c.legal /\ c.stops = 0
  /\ l.started => c.starts > 0
  /\ c.open = Response!OpenOf(l, {"thinking", "text", "tool"})
  /\ c.seen = DOMAIN l.blocks
  /\ c.of \subseteq {l.id} /\ (l.blocks = <<>> => c.of = {})

(* A tool that can grow is open, and one that was shut is whole.         *)
Usable(l) ==
  /\ \A t \in Tools : l.slot[t] # 0 =>
        /\ l.slot[t] \in DOMAIN l.blocks
        /\ l.blocks[l.slot[t]].kind = "tool" /\ l.blocks[l.slot[t]].open
  /\ \A i \in Response!ToolBlocks(l) : l.blocks[i].open \/ l.blocks[i].args = "full"

(* A client that has not seen content.                                     *)
Unseen(c) == c.legal /\ c.stops = 0 /\ c.open = {} /\ c.seen = {} /\ c.of = {}

RunnerShape ==
  phase # "done" =>
    /\ outcome = "none" /\ Usable(ledger)
    /\ Mirrors(Response!Follow(client, held), ledger)
    /\ phase # "starting" => ledger.started

ClientShape ==
  /\ client.legal /\ client.of \subseteq {ledger.id}
  /\ ~committed => Unseen(client)
  /\ committed => held = <<>> /\ client.starts > 0
  /\ outcome = "failed" => client.open = {}

StepsBy(f, s) == \A n \in 1 .. Len(s) : f[n] = Response!Receive(f[n - 1], s[n])

(* A set of numbers that is not empty has a least one.                     *)
LEMMA SmallestNumber == \A T \in SUBSET Nat : T # {} => \E x \in T : \A y \in T : x <= y
<1> SUFFICES ASSUME NEW T \in SUBSET Nat, T # {} PROVE \E x \in T : \A y \in T : x <= y
  OBVIOUS
<1>1. IsWellFoundedOn(OpToRel(<, Nat), Nat)
  BY NatLessThanWellFounded
<1>2. PICK x \in T : \A y \in T : ~ (<<y, x>> \in OpToRel(<, Nat))
  BY <1>1, WFMin
<1>3. \A y \in T : <<y, x>> \in Nat \X Nat
  OBVIOUS
<1>4. \A y \in T : ~ (y < x)
  BY <1>2, <1>3 DEF OpToRel
<1> QED
  BY <1>4

(* Whatever it receives, a client stays one.                               *)
LEMMA ReceiveIsTyped ==
  ASSUME NEW c \in Clients, NEW e \in Events
  PROVE  Response!Receive(c, e) \in Clients
<1>1. Response!Legal(c, e) \in BOOLEAN
  BY DEF Response!Legal
<1> QED
  BY <1>1 DEF Response!Receive, Clients, Events

(* A reader comes one way only.                                            *)
LEMMA OneWay ==
  ASSUME NEW s \in Seq(Events), NEW f, NEW g, StepsBy(f, s), StepsBy(g, s), f[0] = g[0]
  PROVE  \A n \in 0 .. Len(s) : f[n] = g[n]
<1> DEFINE Apart == {n \in 0 .. Len(s) : f[n] # g[n]}
<1> SUFFICES ASSUME Apart # {} PROVE FALSE
  OBVIOUS
<1>1. Apart \in SUBSET Nat /\ Len(s) \in Nat
  OBVIOUS
<1>2. PICK x \in Apart : \A y \in Apart : x <= y
  BY <1>1, SmallestNumber
<1>3. x \in 1 .. Len(s) /\ x - 1 \in 0 .. Len(s) /\ x - 1 \notin Apart
  BY <1>1, <1>2
<1>4. f[x - 1] = g[x - 1]
  BY <1>3
<1>5. f[x] = g[x]
  BY <1>3, <1>4 DEF StepsBy
<1> QED
  BY <1>2, <1>5

(* There is a way through every sequence of events.                        *)
LEMMA WayExists ==
  ASSUME NEW s \in Seq(Events), NEW c \in Clients
  PROVE  \E f \in [0 .. Len(s) -> Clients] : f[0] = c /\ StepsBy(f, s)
<1> DEFINE Way(k) == \E f \in [0 .. Len(s) -> Clients] :
                       f[0] = c /\ \A n \in 1 .. k : f[n] = Response!Receive(f[n - 1], s[n])
           Missing == {k \in 0 .. Len(s) : ~Way(k)}
<1>1. Missing \in SUBSET Nat /\ Len(s) \in Nat
  OBVIOUS
<1>2. Way(0)
  <2>1. [n \in 0 .. Len(s) |-> c] \in [0 .. Len(s) -> Clients] /\ [n \in 0 .. Len(s) |-> c][0] = c
    BY <1>1
  <2> QED
    BY <2>1
<1>3. ASSUME NEW k \in 1 .. Len(s), Way(k - 1) PROVE Way(k)
  <2>1. PICK f \in [0 .. Len(s) -> Clients] :
          f[0] = c /\ \A n \in 1 .. k - 1 : f[n] = Response!Receive(f[n - 1], s[n])
    BY <1>3
  <2>2. f[k - 1] \in Clients /\ s[k] \in Events
    BY <1>1
  <2> DEFINE r == Response!Receive(f[k - 1], s[k])
             g == [f EXCEPT ![k] = r]
  <2>3. r \in Clients
    BY <2>2, ReceiveIsTyped
  <2> HIDE DEF r
  <2>4. g \in [0 .. Len(s) -> Clients] /\ g[k] = r /\ \A n \in 0 .. Len(s) : n # k => g[n] = f[n]
    BY <1>1, <2>3
  <2>5. g[k] = Response!Receive(g[k - 1], s[k])
    BY <1>1, <2>4 DEF r
  <2>6. ASSUME NEW n \in 1 .. k, n # k PROVE g[n] = Response!Receive(g[n - 1], s[n])
    <3>1. n \in 1 .. k - 1 /\ n \in 0 .. Len(s) /\ n - 1 \in 0 .. Len(s) /\ n - 1 # k
      BY <1>1, <2>6
    <3>2. g[n] = f[n] /\ g[n - 1] = f[n - 1]
      BY <2>4, <2>6, <3>1
    <3> QED
      BY <2>1, <3>1, <3>2
  <2>7. g[0] = c
    BY <1>1, <2>1, <2>4
  <2> HIDE DEF g
  <2> QED
    BY <2>4, <2>5, <2>6, <2>7
<1>4. Missing = {}
  <2> SUFFICES ASSUME Missing # {} PROVE FALSE
    OBVIOUS
  <2>1. PICK x \in Missing : \A y \in Missing : x <= y
    BY <1>1, SmallestNumber
  <2> HIDE DEF Way
  <2>2. x \in 1 .. Len(s) /\ x - 1 \in 0 .. Len(s) /\ x - 1 \notin Missing
    BY <1>1, <1>2, <2>1
  <2> QED
    BY <1>3, <2>1, <2>2
<1>5. Way(Len(s))
  <2> HIDE DEF Way
  <2> QED
    BY <1>1, <1>4
<1> QED
  BY <1>5 DEF StepsBy

(* Follow goes this way.                                                   *)
LEMMA FollowGoes ==
  ASSUME NEW s \in Seq(Events), NEW f, StepsBy(f, s), f[0] \in Clients
  PROVE  Response!Follow(f[0], s) = f[Len(s)]
<1> DEFINE Body(h) == [n \in 0 .. Len(s) |->
                       IF n = 0 THEN f[0] ELSE Response!Receive(h[n - 1], s[n])]
           after == CHOOSE h : h = Body(h)
<1>1. Len(s) \in Nat
  OBVIOUS
<1>2. PICK g \in [0 .. Len(s) -> Clients] : g[0] = f[0] /\ StepsBy(g, s)
  BY WayExists
<1>3. g = Body(g)
  <2>1. \A n \in 0 .. Len(s) : g[n] = Body(g)[n]
    BY <1>1, <1>2 DEF StepsBy
  <2> QED
    BY <1>1, <2>1
<1>4. after = Body(after)
  BY <1>3
<1> HIDE DEF after
<1>5. after[0] = f[0] /\ StepsBy(after, s)
  <2>1. \A n \in 0 .. Len(s) :
          after[n] = IF n = 0 THEN f[0] ELSE Response!Receive(after[n - 1], s[n])
    BY <1>4, Zenon
  <2> QED
    BY <1>1, <2>1 DEF StepsBy
<1>6. after[Len(s)] = f[Len(s)]
  BY <1>1, <1>5, OneWay
<1>7. Response!Follow(f[0], s) = after[Len(s)]
  BY Zenon DEF Response!Follow, after
<1> QED
  BY <1>6, <1>7

(* Following one event is receiving it.                                    *)
LEMMA FollowOne ==
  ASSUME NEW c \in Clients, NEW e \in Events
  PROVE  Response!Follow(c, <<e>>) = Response!Receive(c, e)
<1>1. <<e>> \in Seq(Events) /\ Len(<<e>>) = 1 /\ <<e>>[1] = e
  OBVIOUS
<1>2. PICK f \in [0 .. Len(<<e>>) -> Clients] : f[0] = c /\ StepsBy(f, <<e>>)
  BY <1>1, WayExists
<1>3. f[1] = Response!Receive(c, e)
  BY <1>1, <1>2 DEF StepsBy
<1>4. Response!Follow(f[0], <<e>>) = f[Len(<<e>>)]
  BY <1>1, <1>2, FollowGoes
<1> QED
  BY <1>1, <1>2, <1>3, <1>4

(* Whatever it follows, a client stays one.                                *)
LEMMA FollowStays ==
  ASSUME NEW c \in Clients, NEW s \in Seq(Events)
  PROVE  Response!Follow(c, s) \in Clients
<1>1. PICK f \in [0 .. Len(s) -> Clients] : f[0] = c /\ StepsBy(f, s)
  BY WayExists
<1>2. Response!Follow(f[0], s) = f[Len(s)] /\ Len(s) \in 0 .. Len(s)
  BY <1>1, FollowGoes
<1> QED
  BY <1>1, <1>2

(* Nothing is changed by no event.                                         *)
LEMMA FollowNothing ==
  ASSUME NEW c \in Clients
  PROVE  Response!Follow(c, <<>>) = c
<1>1. <<>> \in Seq(Events) /\ Len(<<>>) = 0
  OBVIOUS
<1>2. PICK f \in [0 .. Len(<<>>) -> Clients] : f[0] = c /\ StepsBy(f, <<>>)
  BY <1>1, WayExists
<1>3. Response!Follow(f[0], <<>>) = f[Len(<<>>)]
  BY <1>1, <1>2, FollowGoes
<1> QED
  BY <1>1, <1>2, <1>3

(* One sequence of events after another.                                   *)
LEMMA FollowBoth ==
  ASSUME NEW c \in Clients, NEW s \in Seq(Events), NEW u \in Seq(Events)
  PROVE  Response!Follow(c, s \o u) = Response!Follow(Response!Follow(c, s), u)
<1>1. /\ s \o u \in Seq(Events) /\ Len(s) \in Nat /\ Len(u) \in Nat
      /\ Len(s \o u) = Len(s) + Len(u)
      /\ \A n \in 1 .. Len(s) + Len(u) : (s \o u)[n] = IF n <= Len(s) THEN s[n] ELSE u[n - Len(s)]
  BY ConcatProperties
<1>2. PICK f \in [0 .. Len(s \o u) -> Clients] : f[0] = c /\ StepsBy(f, s \o u)
  BY <1>1, WayExists
<1>3. Response!Follow(c, s \o u) = f[Len(s) + Len(u)]
  BY <1>1, <1>2, FollowGoes
<1>4. Response!Follow(c, s) = f[Len(s)]
  <2>1. StepsBy(f, s)
    BY <1>1, <1>2 DEF StepsBy
  <2> QED
    BY <1>2, <2>1, FollowGoes
<1> DEFINE g == [n \in 0 .. Len(u) |-> f[Len(s) + n]]
<1>5. g[0] = f[Len(s)] /\ g[Len(u)] = f[Len(s) + Len(u)] /\ g[0] \in Clients
  BY <1>1, <1>2
<1>6. StepsBy(g, u)
  <2> SUFFICES ASSUME NEW n \in 1 .. Len(u) PROVE g[n] = Response!Receive(g[n - 1], u[n])
    BY DEF StepsBy
  <2>1. Len(s) + n \in 1 .. Len(s) + Len(u) /\ ~ (Len(s) + n <= Len(s))
        /\ (Len(s) + n) - Len(s) = n
    BY <1>1
  <2>2. (s \o u)[Len(s) + n] = u[n]
    BY <1>1, <2>1
  <2>3. f[Len(s) + n] = Response!Receive(f[(Len(s) + n) - 1], u[n])
    BY <1>1, <1>2, <2>1, <2>2 DEF StepsBy
  <2>4. g[n] = f[Len(s) + n] /\ g[n - 1] = f[Len(s) + (n - 1)]
        /\ (Len(s) + n) - 1 = Len(s) + (n - 1)
    BY <1>1
  <2> QED
    BY <2>3, <2>4
<1> HIDE DEF g
<1>7. Response!Follow(g[0], u) = g[Len(u)]
  BY <1>5, <1>6, FollowGoes
<1> QED
  BY <1>3, <1>4, <1>5, <1>7

(* The last event is received last.                                        *)
LEMMA FollowAppend ==
  ASSUME NEW c \in Clients, NEW s \in Seq(Events), NEW e \in Events
  PROVE  Append(s, e) \in Seq(Events)
         /\ Response!Follow(c, Append(s, e)) = Response!Receive(Response!Follow(c, s), e)
<1>1. Append(s, e) = s \o <<e>> /\ <<e>> \in Seq(Events) /\ Append(s, e) \in Seq(Events)
  BY AppendIsConcat
<1>2. Response!Follow(c, s \o <<e>>) = Response!Follow(Response!Follow(c, s), <<e>>)
  BY <1>1, FollowBoth
<1>3. Response!Follow(Response!Follow(c, s), <<e>>) = Response!Receive(Response!Follow(c, s), e)
  BY FollowStays, FollowOne
<1> QED
  BY <1>1, <1>2, <1>3

(* Two events are received one after the other.                            *)
LEMMA FollowTwo ==
  ASSUME NEW c \in Clients, NEW a \in Events, NEW b \in Events
  PROVE  Response!Follow(c, <<a, b>>) = Response!Receive(Response!Receive(c, a), b)
<1>1. /\ <<a, b>> \in Seq(Events) /\ Len(<<a, b>>) = 2
      /\ <<a, b>>[1] = a /\ <<a, b>>[2] = b
  OBVIOUS
<1>2. PICK f \in [0 .. Len(<<a, b>>) -> Clients] : f[0] = c /\ StepsBy(f, <<a, b>>)
  BY <1>1, WayExists
<1>3. f[1] = Response!Receive(c, a) /\ f[2] = Response!Receive(f[1], b)
  BY <1>1, <1>2 DEF StepsBy
<1>4. Response!Follow(f[0], <<a, b>>) = f[Len(<<a, b>>)]
  BY <1>1, <1>2, FollowGoes
<1> QED
  BY <1>1, <1>2, <1>3, <1>4

(* The instance counts as this module does.                                *)
LEMMA CountsAlike ==
  \A S : Response!Cardinality(S) = Cardinality(S)
BY Zenon DEF Cardinality, Response!Cardinality

(* A sequence lists a set: each of its members once.                       *)
Lists(s, S) ==
  /\ s \in Seq(S)
  /\ \A i \in S : \E k \in 1 .. Len(s) : s[k] = i
  /\ \A j, k \in 1 .. Len(s) : s[j] = s[k] => j = k

(* A rank counts the members before one; a sequence goes by the rank.      *)
Ranks(rank, S) ==
  /\ rank \in [S -> Nat]
  /\ \A i \in S : rank[i] < Cardinality(S)
  /\ \A i, j \in S : rank[i] = rank[j] => i = j

GoesBy(s, rank, S) ==
  /\ s \in [1 .. Cardinality(S) -> S]
  /\ \A k \in 1 .. Cardinality(S) : rank[s[k]] = k - 1

(* Every rank below the number of elements is taken.                       *)
LEMMA RanksReached ==
  ASSUME NEW S, IsFiniteSet(S), NEW rank, Ranks(rank, S)
  PROVE  /\ Cardinality(S) \in Nat
         /\ \A k \in 1 .. Cardinality(S) : \E i \in S : rank[i] = k - 1
<1> DEFINE n == Cardinality(S)
           T == 0 .. n - 1
<1>1. n \in Nat
  BY FS_CardinalityType
<1>0. /\ rank \in [S -> Nat] /\ \A i \in S : rank[i] < n
      /\ \A i, j \in S : rank[i] = rank[j] => i = j
  BY DEF Ranks
<1> HIDE DEF n
<1>2. IsFiniteSet(T) /\ Cardinality(T) = n
  BY <1>1, FS_Interval
<1>3. rank \in Injection(S, T)
  <2>1. \A i \in S : rank[i] \in T
    BY <1>0, <1>1
  <2> HIDE DEF T
  <2>2. rank \in [S -> T]
    BY <1>0, <2>1
  <2> QED
    BY <1>0, <2>2 DEF Injection, IsInjective
<1>4. rank \in Surjection(S, T)
  BY <1>2, <1>3, FS_Injection DEF n
<1>5. \A k \in 1 .. n : k - 1 \in T
  BY <1>1
<1> HIDE DEF T
<1> QED
  BY <1>1, <1>4, <1>5 DEF Surjection, n

(* What goes by rank names every element once.                             *)
LEMMA RanksList ==
  ASSUME NEW S, IsFiniteSet(S), NEW rank, Ranks(rank, S), NEW s, GoesBy(s, rank, S)
  PROVE  Lists(s, S)
<1> DEFINE n == Cardinality(S)
<1>1. n \in Nat
  BY FS_CardinalityType
<1>2. /\ rank \in [S -> Nat] /\ \A i \in S : rank[i] < n
      /\ s \in [1 .. n -> S] /\ \A k \in 1 .. n : rank[s[k]] = k - 1
      /\ \A i, j \in S : rank[i] = rank[j] => i = j
  BY DEF Ranks, GoesBy
<1> HIDE DEF n
<1>3. s \in Seq(S) /\ Len(s) = n
  BY <1>1, <1>2, IsASeq
<1>4. ASSUME NEW i \in S PROVE \E k \in 1 .. n : s[k] = i
  <2>1. rank[i] \in Nat /\ rank[i] < n /\ rank[i] + 1 \in 1 .. n /\ (rank[i] + 1) - 1 = rank[i]
    BY <1>1, <1>2
  <2>2. s[rank[i] + 1] \in S /\ rank[s[rank[i] + 1]] = rank[i]
    BY <1>2, <2>1
  <2> QED
    BY <1>2, <2>1, <2>2
<1>5. ASSUME NEW j \in 1 .. n, NEW k \in 1 .. n, s[j] = s[k] PROVE j = k
  <2>1. j - 1 = k - 1
    BY <1>2, <1>5
  <2> QED
    BY <1>1, <2>1
<1> QED
  BY <1>3, <1>4, <1>5 DEF Lists

(* A set in ascending order names every element once.                      *)
LEMMA AscendingLists ==
  ASSUME NEW S \in SUBSET Nat, IsFiniteSet(S)
  PROVE  Lists(Response!Ascending(S), S)
<1> DEFINE below(i) == {j \in S : j < i}
           rank == [i \in S |-> Cardinality(below(i))]
<1>1. ASSUME NEW i \in S PROVE IsFiniteSet(below(i)) /\ Cardinality(below(i)) \in Nat
  <2>1. below(i) \in SUBSET S
    OBVIOUS
  <2> HIDE DEF below
  <2>2. IsFiniteSet(below(i))
    BY <2>1, FS_Subset
  <2> QED
    BY <2>2, FS_CardinalityType
<1>2. ASSUME NEW i \in S PROVE Cardinality(below(i)) < Cardinality(S)
  <2>1. below(i) \in SUBSET S /\ below(i) # S
    OBVIOUS
  <2>2. Cardinality(below(i)) <= Cardinality(S) /\ Cardinality(below(i)) # Cardinality(S)
    BY <2>1, FS_Subset
  <2> HIDE DEF below
  <2> QED
    BY <1>1, <2>2, FS_CardinalityType
<1>3. ASSUME NEW i \in S, NEW j \in S, i < j PROVE Cardinality(below(i)) # Cardinality(below(j))
  <2>0. \A k \in S : k \in Nat
    OBVIOUS
  <2>1. below(i) \in SUBSET below(j)
    <3> SUFFICES ASSUME NEW k \in below(i) PROVE k \in below(j)
      BY Zenon
    <3>1. k \in S /\ k < i
      OBVIOUS
    <3>2. k < j
      BY <1>3, <2>0, <3>1
    <3> QED
      BY <3>1, <3>2
  <2>2. i \in below(j) /\ i \notin below(i)
    BY <1>3
  <2>3. IsFiniteSet(below(j))
    BY <1>1
  <2> HIDE DEF below
  <2> QED
    BY <2>1, <2>2, <2>3, FS_Subset
<1>4. /\ rank \in [S -> Nat] /\ \A i \in S : rank[i] < Cardinality(S)
      /\ \A i, j \in S : rank[i] = rank[j] => i = j
  <2>1. \A i \in S : rank[i] = Cardinality(below(i))
    OBVIOUS
  <2>2. rank \in [S -> Nat]
    BY <1>1
  <2> HIDE DEF rank, below
  <2>3. \A i, j \in S : i < j => rank[i] # rank[j]
    BY <1>3, <2>1
  <2>4. \A i, j \in S : i = j \/ i < j \/ j < i
    OBVIOUS
  <2> QED
    BY <1>2, <2>1, <2>2, <2>3, <2>4
<1>5. \A i \in S : rank[i] = Cardinality(below(i))
  OBVIOUS
<1> HIDE DEF rank, below
<1>6. Ranks(rank, S)
  BY <1>4 DEF Ranks
<1>7. /\ Cardinality(S) \in Nat
      /\ \A k \in 1 .. Cardinality(S) : \E i \in S : Cardinality(below(i)) = k - 1
  <2>1. \A k \in 1 .. Cardinality(S) : \E i \in S : rank[i] = k - 1
    BY <1>6, RanksReached
  <2>2. Cardinality(S) \in Nat
    BY FS_CardinalityType
  <2> QED
    BY <1>5, <2>1, <2>2
<1>8. \A k \in 1 .. Cardinality(S) :
        Response!Ascending(S)[k] \in S /\ Cardinality(below(Response!Ascending(S)[k])) = k - 1
  BY <1>7, CountsAlike DEF Response!Ascending, below
<1>9. GoesBy(Response!Ascending(S), rank, S)
  <2>1. Response!Ascending(S) \in [1 .. Cardinality(S) -> S]
    BY <1>8, CountsAlike DEF Response!Ascending
  <2> QED
    BY <1>5, <1>8, <2>1 DEF GoesBy
<1> QED
  BY <1>6, <1>9, RanksList

(* A set in descending order names every element once.                     *)
LEMMA DescendingLists ==
  ASSUME NEW S \in SUBSET Nat, IsFiniteSet(S)
  PROVE  Lists(Response!Descending(S), S)
<1> DEFINE above(i) == {j \in S : j > i}
           rank == [i \in S |-> Cardinality(above(i))]
<1>1. ASSUME NEW i \in S PROVE IsFiniteSet(above(i)) /\ Cardinality(above(i)) \in Nat
  <2>1. above(i) \in SUBSET S
    OBVIOUS
  <2> HIDE DEF above
  <2>2. IsFiniteSet(above(i))
    BY <2>1, FS_Subset
  <2> QED
    BY <2>2, FS_CardinalityType
<1>2. ASSUME NEW i \in S PROVE Cardinality(above(i)) < Cardinality(S)
  <2>1. above(i) \in SUBSET S /\ above(i) # S
    OBVIOUS
  <2>2. Cardinality(above(i)) <= Cardinality(S) /\ Cardinality(above(i)) # Cardinality(S)
    BY <2>1, FS_Subset
  <2> HIDE DEF above
  <2> QED
    BY <1>1, <2>2, FS_CardinalityType
<1>3. ASSUME NEW i \in S, NEW j \in S, i > j PROVE Cardinality(above(i)) # Cardinality(above(j))
  <2>0. \A k \in S : k \in Nat
    OBVIOUS
  <2>1. above(i) \in SUBSET above(j)
    <3> SUFFICES ASSUME NEW k \in above(i) PROVE k \in above(j)
      BY Zenon
    <3>1. k \in S /\ k > i
      OBVIOUS
    <3>2. k > j
      BY <1>3, <2>0, <3>1
    <3> QED
      BY <3>1, <3>2
  <2>2. i \in above(j) /\ i \notin above(i)
    BY <1>3
  <2>3. IsFiniteSet(above(j))
    BY <1>1
  <2> HIDE DEF above
  <2> QED
    BY <2>1, <2>2, <2>3, FS_Subset
<1>4. /\ rank \in [S -> Nat] /\ \A i \in S : rank[i] < Cardinality(S)
      /\ \A i, j \in S : rank[i] = rank[j] => i = j
  <2>1. \A i \in S : rank[i] = Cardinality(above(i))
    OBVIOUS
  <2>2. rank \in [S -> Nat]
    BY <1>1
  <2> HIDE DEF rank, above
  <2>3. \A i, j \in S : i > j => rank[i] # rank[j]
    BY <1>3, <2>1
  <2>4. \A i, j \in S : i = j \/ i > j \/ j > i
    OBVIOUS
  <2> QED
    BY <1>2, <2>1, <2>2, <2>3, <2>4
<1>5. \A i \in S : rank[i] = Cardinality(above(i))
  OBVIOUS
<1> HIDE DEF rank, above
<1>6. Ranks(rank, S)
  BY <1>4 DEF Ranks
<1>7. /\ Cardinality(S) \in Nat
      /\ \A k \in 1 .. Cardinality(S) : \E i \in S : Cardinality(above(i)) = k - 1
  <2>1. \A k \in 1 .. Cardinality(S) : \E i \in S : rank[i] = k - 1
    BY <1>6, RanksReached
  <2>2. Cardinality(S) \in Nat
    BY FS_CardinalityType
  <2> QED
    BY <1>5, <2>1, <2>2
<1>8. \A k \in 1 .. Cardinality(S) :
        Response!Descending(S)[k] \in S /\ Cardinality(above(Response!Descending(S)[k])) = k - 1
  BY <1>7, CountsAlike DEF Response!Descending, above
<1>9. GoesBy(Response!Descending(S), rank, S)
  <2>1. Response!Descending(S) \in [1 .. Cardinality(S) -> S]
    BY <1>8, CountsAlike DEF Response!Descending
  <2> QED
    BY <1>5, <1>8, <2>1 DEF GoesBy
<1> QED
  BY <1>6, <1>9, RanksList

-----------------------------------------------------------------------------
(* What a reader makes of an event that is legal.                          *)

View(starts, open, seen, of) ==
  [starts |-> starts, open |-> open, seen |-> seen, of |-> of, stops |-> 0, legal |-> TRUE]

Listens(c) == c \in Clients /\ c.legal /\ c.stops = 0 /\ c.starts > 0

(* What each event does to a client that listens: a block that is open is  *)
(* closed.                                                                 *)
LEMMA ReceiveClose ==
  ASSUME NEW c, Listens(c), NEW i \in Nat, NEW l \in Nat, i \in c.open
  PROVE  Response!Close(i, l) \in Events
         /\ Response!Receive(c, Response!Close(i, l)) = View(c.starts, c.open \ {i}, c.seen, c.of)
<1>1. Response!Close(i, l) \in Events
  BY DEF Events, EventTypes, Response!Close
<1>2. Response!Legal(c, Response!Close(i, l))
  BY DEF Response!Legal, Response!Close, Listens
<1> DEFINE e == Response!Close(i, l)
<1>3. e.type = "content_block_stop" /\ e.at = i
  BY DEF Response!Close
<1>4. c.of \cup {} = c.of /\ c.seen \cup {} = c.seen /\ c.starts + 0 = c.starts
      /\ c.stops + 0 = c.stops
      /\ c.legal = TRUE
  BY DEF Listens, Clients
<1> HIDE DEF e
<1>5. Response!Receive(c, e)
          = [starts |-> c.starts, open |-> c.open \ {i}, seen |-> c.seen, of |-> c.of,
                       stops |-> c.stops, legal |-> TRUE]
  BY <1>2, <1>3, <1>4 DEF Response!Receive, e
<1> QED
  BY <1>1, <1>4, <1>5 DEF e, View, Listens

(* A block that is open grows.                                             *)
LEMMA ReceiveDelta ==
  ASSUME NEW c, Listens(c), NEW i \in Nat, NEW l \in Nat, i \in c.open
  PROVE  Response!Delta(i, l) \in Events
         /\ Response!Receive(c, Response!Delta(i, l))
             = View(c.starts, c.open, c.seen, c.of \cup {l})
<1>1. Response!Delta(i, l) \in Events
  BY DEF Events, EventTypes, Response!Delta
<1>2. Response!Legal(c, Response!Delta(i, l))
  BY DEF Response!Legal, Response!Delta, Listens
<1> DEFINE e == Response!Delta(i, l)
<1>3. e.type = "content_block_delta" /\ e.of = l
  BY DEF Response!Delta
<1>4. /\ c.open \cup {} = c.open /\ c.seen \cup {} = c.seen /\ c.of \cup {} = c.of
      /\ c.starts + 0 = c.starts /\ c.stops + 0 = c.stops /\ c.stops = 0 /\ c.legal = TRUE
  BY DEF Listens, Clients
<1> HIDE DEF e
<1>5. Response!Receive(c, e) = View(c.starts, c.open, c.seen, c.of \cup {l})
  BY <1>2, <1>3, <1>4 DEF Response!Receive, View, e
<1> QED
  BY <1>1, <1>4, <1>5 DEF e

(* A block that was not seen is opened.                                    *)
LEMMA ReceiveOpen ==
  ASSUME NEW c, Listens(c), NEW i \in Nat, NEW l \in Nat, i \notin c.seen
  PROVE  /\ Response!Open(i, l) \in Events
         /\ Response!Receive(c, Response!Open(i, l))
             = View(c.starts, c.open \cup {i}, c.seen \cup {i}, c.of)
<1>1. Response!Open(i, l) \in Events
  BY DEF Events, EventTypes, Response!Open
<1>2. Response!Legal(c, Response!Open(i, l))
  BY DEF Response!Legal, Response!Open, Listens
<1> DEFINE e == Response!Open(i, l)
<1>3. e.type = "content_block_start" /\ e.at = i
  BY DEF Response!Open
<1>4. c.of \cup {} = c.of /\ c.seen \cup {} = c.seen /\ c.starts + 0 = c.starts
      /\ c.stops + 0 = c.stops
      /\ c.legal = TRUE
  BY DEF Listens, Clients
<1> HIDE DEF e
<1>5. Response!Receive(c, e)
          = [starts |-> c.starts, open |-> c.open \cup {i}, seen |-> c.seen \cup {i}, of |-> c.of,
                       stops |-> c.stops, legal |-> TRUE]
  BY <1>2, <1>3, <1>4 DEF Response!Receive, e
<1> QED
  BY <1>1, <1>4, <1>5 DEF e, View, Listens

(* A keepalive changes nothing.                                            *)
LEMMA ReceivePing ==
  ASSUME NEW c, Listens(c)
  PROVE  Response!Ping \in Events /\ Response!Receive(c, Response!Ping) = c
<1>1. Response!Ping \in Events
  BY DEF Events, EventTypes, Response!Ping
<1>2. Response!Legal(c, Response!Ping)
  BY DEF Response!Legal, Response!Ping, Listens
<1> QED
  BY <1>1, <1>2 DEF Response!Receive, Response!Ping, Listens, Clients

(* The message starts.                                                     *)
LEMMA ReceiveStart ==
  ASSUME NEW c \in Clients, c.legal, c.stops = 0, NEW l \in Nat
  PROVE  /\ Response!Start(l) \in Events
         /\ Response!Receive(c, Response!Start(l)) = View(c.starts + 1, c.open, c.seen, c.of)
<1>1. Response!Start(l) \in Events
  BY DEF Events, EventTypes, Response!Start
<1>2. Response!Legal(c, Response!Start(l))
  BY DEF Response!Legal, Response!Start
<1> DEFINE e == Response!Start(l)
<1>3. e.type = "message_start"
  BY DEF Response!Start
<1>4. /\ c.open \cup {} = c.open /\ c.seen \cup {} = c.seen /\ c.of \cup {} = c.of
      /\ c.starts + 0 = c.starts /\ c.stops + 0 = c.stops /\ c.stops = 0 /\ c.legal = TRUE
  BY DEF Listens, Clients
<1> HIDE DEF e
<1>5. Response!Receive(c, e) = View(c.starts + 1, c.open, c.seen, c.of)
  BY <1>2, <1>3, <1>4 DEF Response!Receive, View, e
<1> QED
  BY <1>1, <1>4, <1>5 DEF e

(* A client whose message has ended.                                       *)
Stopped(c) ==
  [starts |-> c.starts, open |-> c.open, seen |-> c.seen, of |-> c.of, stops |-> 1, legal |-> TRUE]

(* The message ends when nothing is open and something was seen.           *)
LEMMA FollowEnding ==
  ASSUME NEW c, Listens(c), NEW l \in Nat, c.open = {}, c.seen # {}
  PROVE  Response!Ending(l) \in Seq(Events) /\ Response!Follow(c, Response!Ending(l)) = Stopped(c)
<1> DEFINE a == [type |-> "message_delta", at |-> 0, of |-> l]
           b == [type |-> "message_stop", at |-> 0, of |-> l]
<1>1. a \in Events /\ b \in Events
  BY DEF Events, EventTypes
<1>2. Response!Receive(c, a) = c
  <2>1. Response!Legal(c, a)
    BY DEF Response!Legal, Listens
  <2> QED
    BY <2>1 DEF Response!Receive, Listens, Clients
<1>3. Response!Receive(c, b) = Stopped(c)
  <2>1. Response!Legal(c, b)
    BY DEF Response!Legal, Listens
  <2>2. b.type = "message_stop"
    OBVIOUS
  <2>3. /\ c.open \cup {} = c.open /\ c.seen \cup {} = c.seen /\ c.of \cup {} = c.of
        /\ c.starts + 0 = c.starts /\ c.stops + 1 = 1 /\ c.legal = TRUE
    BY DEF Listens, Clients
  <2> HIDE DEF b
  <2> QED
    BY <2>1, <2>2, <2>3 DEF Response!Receive, Stopped
<1>4. Response!Ending(l) = <<a, b>>
  BY DEF Response!Ending
<1> HIDE DEF a, b
<1>5. Response!Follow(c, <<a, b>>) = Response!Receive(Response!Receive(c, a), b)
  BY <1>1, FollowTwo DEF Listens
<1> QED
  BY <1>1, <1>2, <1>3, <1>4, <1>5

(* A view is a client that listens.                                        *)
LEMMA ViewIsClient ==
  ASSUME NEW n \in Nat, n > 0, NEW o \in SUBSET Nat, NEW s \in SUBSET Nat, NEW u \in SUBSET Nat
  PROVE  /\ Listens(View(n, o, s, u))
         /\ View(n, o, s, u).starts = n /\ View(n, o, s, u).open = o
         /\ View(n, o, s, u).seen = s /\ View(n, o, s, u).of = u
BY DEF View, Listens, Clients

(* A client that listens is a view.                                        *)
LEMMA ClientIsView ==
  ASSUME NEW c, Listens(c)
  PROVE  /\ c.starts \in Nat /\ c.starts > 0
         /\ c.open \in SUBSET Nat /\ c.seen \in SUBSET Nat /\ c.of \in SUBSET Nat
         /\ c = View(c.starts, c.open, c.seen, c.of)
BY DEF View, Listens, Clients

ListsOpen(s, S, c) == S \in SUBSET c.open /\ Lists(s, S)
Closings(s, l)     == [k \in DOMAIN s |-> Response!Close(s[k], l)]

(* Blocks that are shut, each once, in any order.                        *)
LEMMA FollowCloses ==
  ASSUME NEW c, Listens(c), NEW S, NEW s, ListsOpen(s, S, c), NEW l \in Nat
  PROVE  /\ Closings(s, l) \in Seq(Events)
         /\ Response!Follow(c, Closings(s, l))
              = View(c.starts, c.open \ S, c.seen, c.of)
<1> DEFINE n == Len(s)
           e == Closings(s, l)
           left == [k \in 0 .. n |-> c.open \ {s[j] : j \in 1 .. k}]
           f == [k \in 0 .. n |-> View(c.starts, left[k], c.seen, c.of)]
<1>1. /\ n \in Nat /\ DOMAIN s = 1 .. n /\ \A k \in 1 .. n : s[k] \in S
      /\ \A i \in S : \E k \in 1 .. n : s[k] = i
      /\ \A j, k \in 1 .. n : s[j] = s[k] => j = k
      /\ S \in SUBSET c.open
  BY DEF Lists, ListsOpen
<1>2. /\ c.starts \in Nat /\ c.starts > 0 /\ c.seen \in SUBSET Nat /\ c.of \in SUBSET Nat
      /\ c.open \in SUBSET Nat /\ c = View(c.starts, c.open, c.seen, c.of)
  BY ClientIsView
<1> HIDE DEF n
<1>3. \A k \in 1 .. n : s[k] \in Nat /\ Response!Close(s[k], l) \in Events
  BY <1>1, <1>2 DEF Response!Close, Events, EventTypes
<1>4. e \in Seq(Events) /\ Len(e) = n /\ \A k \in 1 .. n : e[k] = Response!Close(s[k], l)
  <2>1. e \in [1 .. n -> Events] /\ \A k \in 1 .. n : e[k] = Response!Close(s[k], l)
    BY <1>1, <1>3 DEF Closings
  <2> QED
    BY <1>1, <2>1, IsASeq
<1>5. left[0] = c.open /\ left[n] = c.open \ S
  <2>1. {s[j] : j \in 1 .. 0} = {} /\ 0 \in 0 .. n /\ n \in 0 .. n
    BY <1>1
  <2>2. {s[j] : j \in 1 .. n} = S
    BY <1>1
  <2> QED
    BY <2>1, <2>2
<1>6. ASSUME NEW k \in 1 .. n
      PROVE  /\ left[k - 1] \in SUBSET Nat /\ s[k] \in left[k - 1]
             /\ left[k - 1] \ {s[k]} = left[k] /\ k - 1 \in 0 .. n
  <2>1. k - 1 \in 0 .. n /\ k \in 0 .. n /\ k \in Nat
    BY <1>1
  <2>2. left[k - 1] = c.open \ {s[j] : j \in 1 .. k - 1}
        /\ left[k] = c.open \ {s[j] : j \in 1 .. k}
    BY <2>1
  <2>3. \A j \in 1 .. k : j \in 1 .. k - 1 \/ j = k
    BY <2>1
  <2>4. \A j \in 1 .. k - 1 : j \in 1 .. k /\ j \in 1 .. n /\ j # k
    BY <1>1, <2>1
  <2>5. s[k] \notin {s[j] : j \in 1 .. k - 1} /\ s[k] \in c.open
    BY <1>1, <2>4
  <2>6. k \in 1 .. k
    BY <2>1
  <2>7. {s[j] : j \in 1 .. k} = {s[j] : j \in 1 .. k - 1} \cup {s[k]}
    BY <2>3, <2>4, <2>6
  <2> QED
    BY <1>2, <2>1, <2>2, <2>5, <2>7
<1> HIDE DEF left
<1>7. ASSUME NEW k \in 1 .. n PROVE f[k] = Response!Receive(f[k - 1], e[k])
  <2> DEFINE v == View(c.starts, left[k - 1], c.seen, c.of)
  <2>0. left[k - 1] \in SUBSET Nat
    BY <1>6
  <2>1. /\ Listens(v) /\ v.starts = c.starts /\ v.open = left[k - 1]
        /\ v.seen = c.seen /\ v.of = c.of
    <3> DEFINE u == left[k - 1]
    <3> HIDE DEF u
    <3> QED
      BY <1>2, <2>0, ViewIsClient DEF u
  <2> HIDE DEF v
  <2>2. Response!Receive(v, Response!Close(s[k], l))
            = View(v.starts, v.open \ {s[k]}, v.seen, v.of)
    BY <1>3, <1>6, <2>1, ReceiveClose
  <2>3. f[k - 1] = v /\ f[k] = View(c.starts, left[k], c.seen, c.of)
        /\ e[k] = Response!Close(s[k], l)
    BY <1>1, <1>4, <1>6 DEF v
  <2> QED
    BY <1>6, <2>1, <2>2, <2>3
<1>8. f[0] = c /\ f[n] = View(c.starts, c.open \ S, c.seen, c.of)
  <2>1. 0 \in 0 .. n /\ n \in 0 .. n
    BY <1>1
  <2>2. f[0] = View(c.starts, left[0], c.seen, c.of)
        /\ f[n] = View(c.starts, left[n], c.seen, c.of)
    BY <2>1
  <2> HIDE DEF f
  <2> QED
    BY <1>2, <1>5, <2>2
<1> HIDE DEF e, f
<1>9. Response!Follow(f[0], e) = f[Len(e)]
  BY <1>4, <1>7, <1>8, FollowGoes DEF StepsBy, Listens
<1> QED
  BY <1>4, <1>8, <1>9 DEF e

AreOpen(s, c) == s \in Seq(c.open)
Shown(s, c, l) == IF s = <<>> THEN c.of ELSE c.of \cup {l}
Growth(s, l)  == [k \in DOMAIN s |-> Response!Delta(s[k], l)]

(* Growth of open blocks.                                                  *)
LEMMA FollowDeltas ==
  ASSUME NEW c, Listens(c), NEW s, AreOpen(s, c), NEW l \in Nat
  PROVE  /\ Growth(s, l) \in Seq(Events)
         /\ Response!Follow(c, Growth(s, l))
              = View(c.starts, c.open, c.seen, Shown(s, c, l))
<1> DEFINE n == Len(s)
           e == Growth(s, l)
           of == [k \in 0 .. n |-> IF k = 0 THEN c.of ELSE c.of \cup {l}]
           f == [k \in 0 .. n |-> View(c.starts, c.open, c.seen, of[k])]
<1>1. n \in Nat /\ DOMAIN s = 1 .. n /\ (\A k \in 1 .. n : s[k] \in c.open)
      /\ (s = <<>> <=> n = 0)
  BY DEF AreOpen
<1>2. /\ c.starts \in Nat /\ c.starts > 0 /\ c.seen \in SUBSET Nat /\ c.of \in SUBSET Nat
      /\ c.open \in SUBSET Nat /\ c = View(c.starts, c.open, c.seen, c.of)
  BY ClientIsView
<1> HIDE DEF n
<1>3. \A k \in 1 .. n : s[k] \in Nat /\ Response!Delta(s[k], l) \in Events
  BY <1>1, <1>2 DEF Response!Delta, Events, EventTypes
<1>4. e \in Seq(Events) /\ Len(e) = n /\ \A k \in 1 .. n : e[k] = Response!Delta(s[k], l)
  <2>1. e \in [1 .. n -> Events] /\ \A k \in 1 .. n : e[k] = Response!Delta(s[k], l)
    BY <1>1, <1>3 DEF Growth
  <2> QED
    BY <1>1, <2>1, IsASeq
<1>5. of[0] = c.of /\ of[n] = Shown(s, c, l)
  BY <1>1 DEF Shown
<1>6. ASSUME NEW k \in 1 .. n
      PROVE  of[k - 1] \in SUBSET Nat /\ of[k - 1] \cup {l} = of[k] /\ k - 1 \in 0 .. n
             /\ k \in 0 .. n
  <2>1. k - 1 \in 0 .. n /\ k \in 0 .. n /\ k # 0
    BY <1>1
  <2> QED
    BY <1>2, <2>1
<1> HIDE DEF of
<1>7. ASSUME NEW k \in 1 .. n PROVE f[k] = Response!Receive(f[k - 1], e[k])
  <2> DEFINE v == View(c.starts, c.open, c.seen, of[k - 1])
  <2>0. of[k - 1] \in SUBSET Nat
    BY <1>6
  <2>1. /\ Listens(v) /\ v.starts = c.starts /\ v.open = c.open
        /\ v.seen = c.seen /\ v.of = of[k - 1]
    <3> DEFINE u == of[k - 1]
    <3> HIDE DEF u
    <3> QED
      BY <1>2, <2>0, ViewIsClient DEF u
  <2> HIDE DEF v
  <2>2. Response!Receive(v, Response!Delta(s[k], l))
            = View(v.starts, v.open, v.seen, v.of \cup {l})
    BY <1>1, <1>3, <2>1, ReceiveDelta
  <2>3. f[k - 1] = v /\ f[k] = View(c.starts, c.open, c.seen, of[k])
        /\ e[k] = Response!Delta(s[k], l)
    BY <1>1, <1>4, <1>6 DEF v
  <2> QED
    BY <1>6, <2>1, <2>2, <2>3
<1>8. f[0] = c /\ f[n] = View(c.starts, c.open, c.seen, of[n])
  BY <1>1, <1>2, <1>5
<1> HIDE DEF e, f
<1>9. Response!Follow(f[0], e) = f[Len(e)]
  BY <1>4, <1>7, <1>8, FollowGoes DEF StepsBy, Listens
<1> QED
  BY <1>4, <1>5, <1>8, <1>9 DEF e

-----------------------------------------------------------------------------
(* The ledger.  A change shows what it does: a client that mirrors the     *)
(* ledger and receives the events of the change mirrors what it becomes.   *)

Kinds == {"thinking", "text", "tool"}

Shows(l, d) ==
  /\ d.state \in Ledgers /\ d.state.id = l.id /\ d.state.started = l.started
  /\ d.events \in Seq(Events)
  /\ \A c \in Clients : Mirrors(c, l) => Mirrors(Response!Follow(c, d.events), d.state)

(* The fields of a ledger, and its blocks.                                 *)
LEMMA LedgerFields ==
  ASSUME NEW l \in Ledgers
  PROVE  /\ l.id \in Nat /\ l.started \in BOOLEAN /\ l.blocks \in Seq(Response!Block)
         /\ l.slot \in [Tools -> Nat]
         /\ Len(l.blocks) \in Nat /\ DOMAIN l.blocks = 1 .. Len(l.blocks)
         /\ (l.blocks = <<>> <=> Len(l.blocks) = 0)
         /\ \A i \in 1 .. Len(l.blocks) :
              /\ i \in Nat /\ l.blocks[i] \in Response!Block
              /\ l.blocks[i].kind \in Kinds /\ l.blocks[i].open \in BOOLEAN
              /\ l.blocks[i].args \in {"none", "part", "full"}
<1>1. l.id \in Nat /\ l.started \in BOOLEAN /\ l.blocks \in Seq(Response!Block)
      /\ l.slot \in [Tools -> Nat]
  BY DEF Ledgers
<1>2. \A b \in Response!Block : b.kind \in Kinds /\ b.open \in BOOLEAN
      /\ b.args \in {"none", "part", "full"}
  BY DEF Response!Block, Kinds
<1> QED
  BY <1>1, <1>2

(* The open blocks of a ledger are finitely many numbers.                  *)
LEMMA OpenBlocks ==
  ASSUME NEW l \in Ledgers, NEW kinds
  PROVE  /\ Response!OpenOf(l, kinds) \in SUBSET DOMAIN l.blocks
         /\ Response!OpenOf(l, kinds) \in SUBSET Nat
         /\ IsFiniteSet(Response!OpenOf(l, kinds))
         /\ Response!OpenOf(l, Kinds) = {i \in DOMAIN l.blocks : l.blocks[i].open}
         /\ Response!OpenOf(l, kinds) \in SUBSET Response!OpenOf(l, Kinds)
<1>1. Response!OpenOf(l, kinds) \in SUBSET (1 .. Len(l.blocks))
      /\ DOMAIN l.blocks = 1 .. Len(l.blocks)
  BY LedgerFields DEF Response!OpenOf
<1>2. IsFiniteSet(Response!OpenOf(l, kinds))
  <2>1. 1 \in Int /\ Len(l.blocks) \in Int
    BY LedgerFields
  <2>2. IsFiniteSet(1 .. Len(l.blocks))
    BY <2>1, FS_Interval
  <2> QED
    BY <1>1, <2>2, FS_Subset
<1>3. Response!OpenOf(l, Kinds) = {i \in DOMAIN l.blocks : l.blocks[i].open}
  BY LedgerFields DEF Response!OpenOf
<1>4. Response!OpenOf(l, kinds) \in SUBSET Response!OpenOf(l, Kinds)
  BY <1>3 DEF Response!OpenOf
<1> QED
  BY <1>1, <1>2, <1>3, <1>4

(* A client in step with a ledger that has started listens.                *)
LEMMA MirrorListens ==
  ASSUME NEW c \in Clients, NEW l, l.started, Mirrors(c, l)
  PROVE  Listens(c)
BY DEF Mirrors, Listens

(* One change after another.                                               *)
LEMMA BothShow ==
  ASSUME NEW l, NEW c, NEW d, Shows(l, c), Shows(c.state, d)
  PROVE  Shows(l, Response!Change(d.state, c.events \o d.events))
<1> DEFINE e == c.events \o d.events
<1>1. e \in Seq(Events) /\ c.events \in Seq(Events) /\ d.events \in Seq(Events)
  BY DEF Shows
<1>2. /\ d.state \in Ledgers /\ d.state.id = l.id /\ d.state.started = l.started
  BY DEF Shows
<1>3. ASSUME NEW v \in Clients, Mirrors(v, l) PROVE Mirrors(Response!Follow(v, e), d.state)
  <2>1. Response!Follow(v, c.events) \in Clients /\ Mirrors(Response!Follow(v, c.events), c.state)
    BY <1>1, <1>3, FollowStays DEF Shows
  <2>2. Mirrors(Response!Follow(Response!Follow(v, c.events), d.events), d.state)
    BY <2>1 DEF Shows
  <2> QED
    BY <1>1, <2>2, FollowBoth
<1> HIDE DEF e
<1>4. Response!Change(d.state, e).state = d.state /\ Response!Change(d.state, e).events = e
  BY DEF Response!Change
<1>5. Shows(l, Response!Change(d.state, e))
  BY <1>1, <1>2, <1>3, <1>4 DEF Shows
<1> QED
  BY <1>5 DEF e

(* No event shows no change.                                               *)
LEMMA NothingShows ==
  ASSUME NEW l \in Ledgers
  PROVE  Shows(l, Response!Change(l, <<>>))
<1>1. <<>> \in Seq(Events)
  OBVIOUS
<1>2. Response!Change(l, <<>>).state = l /\ Response!Change(l, <<>>).events = <<>>
  BY DEF Response!Change
<1> QED
  BY <1>1, <1>2, FollowNothing DEF Shows

(* What a list of a set names is what the set holds.                       *)
LEMMA ListMembers ==
  ASSUME NEW s, NEW S, Lists(s, S)
  PROVE  /\ Len(s) \in Nat /\ DOMAIN s = 1 .. Len(s)
         /\ \A i \in S : \E k \in DOMAIN s : s[k] = i
         /\ \A k \in DOMAIN s : s[k] \in S
<1>1. s \in Seq(S)
  BY DEF Lists
<1>2. Len(s) \in Nat /\ DOMAIN s = 1 .. Len(s) /\ \A k \in DOMAIN s : s[k] \in S
  BY <1>1
<1> QED
  BY <1>2 DEF Lists

(* What closing leaves of the ledger.                                      *)
Closes(l, m, S) ==
  /\ m \in Ledgers /\ m.id = l.id /\ m.started = l.started /\ m.slot = l.slot
  /\ Len(m.blocks) = Len(l.blocks)
  /\ \A i \in 1 .. Len(l.blocks) :
       /\ m.blocks[i].kind = l.blocks[i].kind /\ m.blocks[i].args = l.blocks[i].args
       /\ m.blocks[i].open <=> l.blocks[i].open /\ i \notin S

(* Closing a list of blocks closes these and leaves the rest as it was.    *)
LEMMA CloseEachCloses ==
  ASSUME NEW l \in Ledgers, NEW S \in SUBSET Nat, NEW s, Lists(s, S)
  PROVE  Closes(l, Response!CloseEach(l, s).state, S)
<1> DEFINE m == Response!CloseEach(l, s).state
           n == Len(l.blocks)
           shut(i) == [l.blocks[i] EXCEPT !.open = @ /\ \A k \in DOMAIN s : i # s[k]]
<1>1. m = [l EXCEPT !.blocks = [i \in DOMAIN l.blocks |-> shut(i)]]
  BY DEF Response!CloseEach, Response!Change
<1>2. n \in Nat /\ DOMAIN l.blocks = 1 .. n
  BY LedgerFields
<1>3. (\A i \in S : \E k \in DOMAIN s : s[k] = i) /\ \A k \in DOMAIN s : s[k] \in S
  BY ListMembers
<1>4. ASSUME NEW i \in 1 .. n
      PROVE  /\ shut(i) \in Response!Block
             /\ shut(i).kind = l.blocks[i].kind /\ shut(i).args = l.blocks[i].args
             /\ shut(i).open <=> l.blocks[i].open /\ i \notin S
  <2> DEFINE apart == \A k \in DOMAIN s : i # s[k]
             b == l.blocks[i]
  <2>1. b \in Response!Block
    BY LedgerFields
  <2>2. apart \in BOOLEAN /\ (apart <=> i \notin S)
    BY <1>3
  <2>3. shut(i) = [b EXCEPT !.open = b.open /\ apart]
    OBVIOUS
  <2> HIDE DEF apart, b, shut
  <2>4. (b.open /\ apart) \in BOOLEAN
    BY Zenon
  <2>5. /\ shut(i) \in Response!Block
        /\ shut(i).kind = b.kind /\ shut(i).args = b.args /\ shut(i).open = (b.open /\ apart)
    BY <2>1, <2>3, <2>4 DEF Response!Block
  <2> QED
    BY <2>2, <2>5, Zenon DEF b
<1> HIDE DEF shut
<1> DEFINE b == [i \in DOMAIN l.blocks |-> shut(i)]
<1>5. b \in Seq(Response!Block) /\ Len(b) = n /\ \A i \in 1 .. n : b[i] = shut(i)
  <2>1. b \in [1 .. n -> Response!Block]
    BY <1>2, <1>4
  <2> QED
    BY <1>2, <2>1, IsASeq
<1> HIDE DEF b, m
<1>6. /\ m \in Ledgers /\ m.id = l.id /\ m.started = l.started /\ m.slot = l.slot
      /\ m.blocks = b
  BY <1>1, <1>5 DEF Ledgers, b
<1> QED
  BY <1>4, <1>5, <1>6 DEF Closes, m

(* The client sees the blocks that are closed.                             *)
LEMMA CloseEachShows ==
  ASSUME NEW l \in Ledgers, l.started, NEW S \in SUBSET Response!OpenOf(l, Kinds), NEW s,
         Lists(s, S)
  PROVE  Shows(l, Response!CloseEach(l, s)) /\ Closes(l, Response!CloseEach(l, s).state, S)
<1> DEFINE m == Response!CloseEach(l, s).state
           e == Response!CloseEach(l, s).events
<1>1. Closes(l, m, S)
  BY OpenBlocks, CloseEachCloses
<1>2. e = Closings(s, l.id)
  BY DEF Response!CloseEach, Response!Change, Closings
<1> HIDE DEF m, e
<1>3. ASSUME NEW c \in Clients, Mirrors(c, l) PROVE Mirrors(Response!Follow(c, e), m)
  <2>1. Listens(c) /\ c.open = Response!OpenOf(l, Kinds) /\ c.seen = DOMAIN l.blocks
    BY <1>3, MirrorListens DEF Mirrors, Kinds
  <2>2. Response!Follow(c, e) = View(c.starts, c.open \ S, c.seen, c.of)
    <3>1. ListsOpen(s, S, c) /\ l.id \in Nat
      BY <2>1, LedgerFields DEF ListsOpen
    <3> QED
      BY <1>2, <2>1, <3>1, FollowCloses
  <2>3. DOMAIN m.blocks = DOMAIN l.blocks /\ m.id = l.id /\ m \in Ledgers
        /\ (m.blocks = <<>> <=> l.blocks = <<>>)
    BY <1>1, LedgerFields DEF Closes
  <2>4. Response!OpenOf(m, Kinds) = Response!OpenOf(l, Kinds) \ S
    BY <1>1, <2>3, LedgerFields, OpenBlocks DEF Closes
  <2>5. c.starts > 0 /\ c.of \subseteq {l.id} /\ (l.blocks = <<>> => c.of = {})
    BY <1>3, <2>1 DEF Mirrors, Listens
  <2> QED
    BY <2>1, <2>2, <2>3, <2>4, <2>5 DEF Mirrors, View, Kinds
<1>4. e \in Seq(Events)
  <2>1. S \in SUBSET Nat /\ DOMAIN s = 1 .. Len(s) /\ Len(s) \in Nat
        /\ \A k \in DOMAIN s : s[k] \in S
    BY OpenBlocks, ListMembers
  <2>2. \A k \in 1 .. Len(s) : Response!Close(s[k], l.id) \in Events
    <3>1. l.id \in Nat /\ \A k \in 1 .. Len(s) : s[k] \in Nat
      BY <2>1, LedgerFields
    <3> QED
      BY <3>1 DEF Response!Close, Events, EventTypes
  <2>3. e \in [1 .. Len(s) -> Events] /\ Len(s) \in Nat
    BY <1>2, <2>1, <2>2 DEF Closings
  <2> QED
    BY <2>3, IsASeq
<1> QED
  BY <1>1, <1>3, <1>4 DEF Shows, Closes, m, e

(* A ledger that is fit for more, and a change that keeps it so.           *)
Fit(l) == l \in Ledgers /\ l.started /\ Usable(l)

Extends(l, d) ==
  /\ Shows(l, d) /\ Usable(d.state)
  /\ Len(l.blocks) <= Len(d.state.blocks)

(* A ledger that was extended can be extended again.                       *)
LEMMA ExtendsIsFit ==
  ASSUME NEW l, Fit(l), NEW d, Extends(l, d)
  PROVE  Fit(d.state) /\ d.state.id = l.id
BY DEF Fit, Extends, Shows

(* Two extensions in a row are one.                                        *)
LEMMA BothExtend ==
  ASSUME NEW l, Fit(l), NEW c, NEW d, Extends(l, c), Extends(c.state, d)
  PROVE  Extends(l, Response!Change(d.state, c.events \o d.events))
<1>1. Shows(l, Response!Change(d.state, c.events \o d.events))
  BY BothShow DEF Extends
<1>2. Response!Change(d.state, c.events \o d.events).state = d.state
  BY DEF Response!Change
<1>3. l \in Ledgers /\ c.state \in Ledgers /\ d.state \in Ledgers
  BY DEF Fit, Extends, Shows
<1>4. Len(l.blocks) \in Nat /\ Len(c.state.blocks) \in Nat /\ Len(d.state.blocks) \in Nat
  BY <1>3, LedgerFields
<1>5. Len(l.blocks) <= Len(d.state.blocks) /\ Usable(d.state)
  BY <1>4 DEF Extends
<1> QED
  BY <1>1, <1>2, <1>5 DEF Extends

(* No change is an extension.                                              *)
LEMMA NothingExtends ==
  ASSUME NEW l, Fit(l)
  PROVE  Extends(l, Response!Change(l, <<>>))
<1>1. Shows(l, Response!Change(l, <<>>)) /\ Len(l.blocks) \in Nat
  BY NothingShows, LedgerFields DEF Fit
<1>2. Response!Change(l, <<>>).state = l
  BY DEF Response!Change
<1> QED
  BY <1>1, <1>2 DEF Extends, Fit

(* The client sees the blocks that are closed, in ascending order.         *)
LEMMA CloseSetShows ==
  ASSUME NEW l \in Ledgers, l.started, NEW S \in SUBSET Response!OpenOf(l, Kinds)
  PROVE  Shows(l, Response!CloseSet(l, S)) /\ Closes(l, Response!CloseSet(l, S).state, S)
<1>1. S \in SUBSET Nat /\ IsFiniteSet(S)
  BY OpenBlocks, FS_Subset
<1>2. Lists(Response!Ascending(S), S)
  BY <1>1, AscendingLists
<1> QED
  BY <1>2, CloseEachShows DEF Response!CloseSet

(* Content is shut, or a tool that is whole and has no slot.             *)
LEMMA CloseSetExtends ==
  ASSUME NEW l, Fit(l), NEW S \in SUBSET Response!OpenOf(l, Kinds),
         \A i \in S \cap Response!ToolBlocks(l) : l.blocks[i].args = "full"
         /\ \A t \in Tools : l.slot[t] # i
  PROVE  Extends(l, Response!CloseSet(l, S)) /\ Closes(l, Response!CloseSet(l, S).state, S)
<1> DEFINE m == Response!CloseSet(l, S).state
<1>1. l \in Ledgers /\ l.started /\ Usable(l)
  BY DEF Fit
<1>2. Shows(l, Response!CloseSet(l, S)) /\ Closes(l, m, S)
  BY <1>1, CloseSetShows
<1> HIDE DEF m
<1>3. /\ DOMAIN m.blocks = DOMAIN l.blocks /\ DOMAIN l.blocks = 1 .. Len(l.blocks)
      /\ Len(m.blocks) = Len(l.blocks) /\ Len(l.blocks) \in Nat /\ m.slot = l.slot
  BY <1>1, <1>2, LedgerFields DEF Closes
<1>4. Response!ToolBlocks(m) = Response!ToolBlocks(l)
  BY <1>2, <1>3 DEF Response!ToolBlocks, Closes
<1>5. ASSUME NEW t \in Tools, m.slot[t] # 0
      PROVE  /\ m.slot[t] \in DOMAIN m.blocks
             /\ m.blocks[m.slot[t]].kind = "tool" /\ m.blocks[m.slot[t]].open
  <2> DEFINE i == l.slot[t]
  <2>1. i \in DOMAIN l.blocks /\ l.blocks[i].kind = "tool" /\ l.blocks[i].open /\ m.slot[t] = i
    BY <1>1, <1>3, <1>5 DEF Usable
  <2>2. i \notin S
    BY <2>1 DEF Response!ToolBlocks
  <2> HIDE DEF i
  <2> QED
    BY <1>2, <1>3, <2>1, <2>2 DEF Closes
<1>6. ASSUME NEW i \in Response!ToolBlocks(m) PROVE m.blocks[i].open \/ m.blocks[i].args = "full"
  <2>1. i \in 1 .. Len(l.blocks) /\ i \in Response!ToolBlocks(l)
    BY <1>3, <1>4 DEF Response!ToolBlocks
  <2>2. l.blocks[i].open \/ l.blocks[i].args = "full"
    BY <1>1, <2>1 DEF Usable
  <2>3. (m.blocks[i].open <=> l.blocks[i].open /\ i \notin S)
        /\ m.blocks[i].args = l.blocks[i].args
    BY <1>2, <2>1 DEF Closes
  <2>4. i \in S => l.blocks[i].args = "full"
    BY <2>1
  <2> QED
    BY <2>2, <2>3, <2>4
<1>7. Usable(m)
  BY <1>5, <1>6 DEF Usable
<1> QED
  BY <1>2, <1>3, <1>7 DEF Extends, m

(* Closing content extends a ledger.                                       *)
LEMMA CloseContentExtends ==
  ASSUME NEW l, Fit(l), NEW kinds \in SUBSET {"thinking", "text"}
  PROVE  /\ Extends(l, Response!CloseSet(l, Response!OpenOf(l, kinds)))
         /\ Closes(l, Response!CloseSet(l, Response!OpenOf(l, kinds)).state,
                   Response!OpenOf(l, kinds))
<1>1. l \in Ledgers
  BY DEF Fit
<1>2. Response!OpenOf(l, kinds) \in SUBSET Response!OpenOf(l, Kinds)
  BY <1>1, OpenBlocks
<1>3. Response!OpenOf(l, kinds) \cap Response!ToolBlocks(l) = {}
  BY DEF Response!OpenOf, Response!ToolBlocks
<1> QED
  BY <1>2, <1>3, CloseSetExtends

(* A block is opened.                                                      *)
OpensBlock(l, m, kind, args) ==
  /\ m \in Ledgers /\ m.id = l.id /\ m.started = l.started /\ m.slot = l.slot
  /\ m.blocks = Append(l.blocks, [kind |-> kind, open |-> TRUE, args |-> args])

(* What a ledger with one block more looks like.                           *)
LEMMA OpensOne ==
  ASSUME NEW l \in Ledgers, NEW m, NEW kind, NEW args, OpensBlock(l, m, kind, args)
  PROVE  /\ Len(l.blocks) \in Nat /\ Len(m.blocks) = Len(l.blocks) + 1
         /\ DOMAIN l.blocks = 1 .. Len(l.blocks) /\ DOMAIN m.blocks = 1 .. Len(l.blocks) + 1
         /\ m.blocks[Len(l.blocks) + 1].kind = kind /\ m.blocks[Len(l.blocks) + 1].open
         /\ m.blocks[Len(l.blocks) + 1].args = args /\ m.blocks # <<>>
         /\ \A i \in 1 .. Len(l.blocks) : m.blocks[i] = l.blocks[i]
<1> DEFINE b == [kind |-> kind, open |-> TRUE, args |-> args]
<1>1. l.blocks \in Seq(Response!Block) /\ Len(l.blocks) \in Nat
  BY LedgerFields
<1>2. b.kind = kind /\ b.open /\ b.args = args /\ m.blocks = Append(l.blocks, b)
  BY DEF OpensBlock
<1> HIDE DEF b
<1>3. m.blocks[Len(l.blocks) + 1] = b /\ m.blocks # <<>>
  BY <1>1, <1>2
<1> QED
  BY <1>1, <1>2, <1>3

(* A new block is the last one.                                            *)
LEMMA NewBlockOpens ==
  ASSUME NEW l \in Ledgers, NEW kind \in Kinds, NEW args \in {"none", "part", "full"}
  PROVE  OpensBlock(l, Response!NewBlock(l, kind, args).state, kind, args)
<1> DEFINE b == [kind |-> kind, open |-> TRUE, args |-> args]
           s == Append(l.blocks, b)
<1>1. b \in Response!Block
  BY DEF Response!Block, Kinds
<1> HIDE DEF b
<1>2. s \in Seq(Response!Block)
  BY <1>1, LedgerFields
<1>3. Response!NewBlock(l, kind, args).state = [l EXCEPT !.blocks = s]
  BY DEF Response!NewBlock, Response!Change, b
<1> HIDE DEF s
<1>4. /\ [l EXCEPT !.blocks = s] \in Ledgers /\ [l EXCEPT !.blocks = s].id = l.id
      /\ [l EXCEPT !.blocks = s].started = l.started /\ [l EXCEPT !.blocks = s].slot = l.slot
      /\ [l EXCEPT !.blocks = s].blocks = s
  BY <1>2 DEF Ledgers
<1> QED
  BY <1>3, <1>4 DEF OpensBlock, s, b

(* The client sees the new block.                                          *)
LEMMA NewBlockShows ==
  ASSUME NEW l \in Ledgers, l.started, NEW kind \in Kinds, NEW args \in {"none", "part", "full"}
  PROVE  Shows(l, Response!NewBlock(l, kind, args))
<1> DEFINE m == Response!NewBlock(l, kind, args).state
           n == Len(l.blocks)
           e == Response!Open(n + 1, l.id)
<1>1. OpensBlock(l, m, kind, args)
  BY NewBlockOpens
<1>2. Response!NewBlock(l, kind, args).events = <<e>>
  BY DEF Response!NewBlock, Response!Change
<1> HIDE DEF m
<1>3. /\ n \in Nat /\ Len(m.blocks) = n + 1 /\ DOMAIN l.blocks = 1 .. n
      /\ DOMAIN m.blocks = 1 .. n + 1 /\ m.blocks[n + 1].open /\ m.blocks # <<>>
      /\ \A i \in 1 .. n : m.blocks[i] = l.blocks[i]
  BY <1>1, OpensOne
<1>4. l.id \in Nat /\ n + 1 \in Nat /\ m \in Ledgers /\ m.id = l.id
  BY <1>1, <1>3, LedgerFields DEF OpensBlock
<1> HIDE DEF n
<1>5. e \in Events
  BY <1>4 DEF Response!Open, Events, EventTypes
<1>6. 1 .. n + 1 = (1 .. n) \cup {n + 1} /\ n + 1 \notin 1 .. n
  BY <1>3
<1>7. Response!OpenOf(m, Kinds) = Response!OpenOf(l, Kinds) \cup {n + 1}
  BY <1>3, <1>4, <1>6, OpenBlocks
<1>8. ASSUME NEW c \in Clients, Mirrors(c, l) PROVE Mirrors(Response!Follow(c, <<e>>), m)
  <2>1. Listens(c) /\ c.open = Response!OpenOf(l, Kinds) /\ c.seen = DOMAIN l.blocks
    BY <1>8, MirrorListens DEF Mirrors, Kinds
  <2>2. Response!Receive(c, e) = View(c.starts, c.open \cup {n + 1}, c.seen \cup {n + 1}, c.of)
    BY <1>3, <1>4, <1>6, <2>1, ReceiveOpen
  <2>3. Response!Follow(c, <<e>>) = Response!Receive(c, e)
    BY <1>5, FollowOne
  <2>4. c.starts > 0 /\ c.of \subseteq {m.id}
    BY <1>4, <1>8, <2>1 DEF Mirrors, Listens
  <2> DEFINE v == View(c.starts, c.open \cup {n + 1}, c.seen \cup {n + 1}, c.of)
  <2>5. /\ v.legal /\ v.stops = 0 /\ v.starts > 0 /\ v.of \subseteq {m.id}
        /\ v.open = Response!OpenOf(m, Kinds) /\ v.seen = DOMAIN m.blocks
    BY <1>3, <1>6, <1>7, <2>1, <2>4 DEF View
  <2> HIDE DEF v
  <2>6. Mirrors(v, m)
    BY <1>3, <2>5 DEF Mirrors, Kinds
  <2> QED
    BY <2>2, <2>3, <2>6 DEF v
<1>9. <<e>> \in Seq(Events)
  BY <1>5
<1> HIDE DEF e
<1> QED
  BY <1>1, <1>2, <1>8, <1>9 DEF Shows, OpensBlock, m

(* A new block extends a ledger.                                           *)
LEMMA NewBlockExtends ==
  ASSUME NEW l, Fit(l), NEW kind \in Kinds, NEW args \in {"none", "part", "full"}
  PROVE  Extends(l, Response!NewBlock(l, kind, args))
         /\ OpensBlock(l, Response!NewBlock(l, kind, args).state, kind, args)
<1> DEFINE m == Response!NewBlock(l, kind, args).state
           n == Len(l.blocks)
<1>1. l \in Ledgers /\ l.started /\ Usable(l)
  BY DEF Fit
<1>2. Shows(l, Response!NewBlock(l, kind, args)) /\ OpensBlock(l, m, kind, args)
  BY <1>1, NewBlockShows, NewBlockOpens
<1> HIDE DEF m
<1>3. /\ n \in Nat /\ Len(m.blocks) = n + 1 /\ DOMAIN l.blocks = 1 .. n
      /\ DOMAIN m.blocks = 1 .. n + 1 /\ m.blocks[n + 1].open
      /\ \A i \in 1 .. n : m.blocks[i] = l.blocks[i]
  BY <1>1, <1>2, OpensOne
<1>4. m.slot = l.slot /\ l.slot \in [Tools -> Nat]
  BY <1>1, <1>2, LedgerFields DEF OpensBlock
<1> HIDE DEF n
<1>5. \A t \in Tools : m.slot[t] # 0 =>
        /\ m.slot[t] \in DOMAIN m.blocks
        /\ m.blocks[m.slot[t]].kind = "tool" /\ m.blocks[m.slot[t]].open
  BY <1>1, <1>3, <1>4 DEF Usable
<1>6. ASSUME NEW i \in Response!ToolBlocks(m) PROVE m.blocks[i].open \/ m.blocks[i].args = "full"
  <2>1. i = n + 1 \/ i \in 1 .. n
    BY <1>3 DEF Response!ToolBlocks
  <2>2. CASE i \in 1 .. n
    BY <1>1, <1>3, <2>2 DEF Usable, Response!ToolBlocks
  <2> QED
    BY <1>3, <2>1, <2>2
<1>7. Usable(m)
  BY <1>5, <1>6 DEF Usable
<1> QED
  BY <1>2, <1>3, <1>7 DEF Extends, m, n

(* Blocks grow.                                                            *)
Grows(l, m) ==
  /\ m \in Ledgers /\ m.id = l.id /\ m.started = l.started /\ m.slot = l.slot
  /\ Len(m.blocks) = Len(l.blocks)
  /\ \A i \in 1 .. Len(l.blocks) :
       m.blocks[i].kind = l.blocks[i].kind /\ m.blocks[i].open = l.blocks[i].open

(* The client sees open blocks grow.                                       *)
LEMMA GrowthIsShown ==
  ASSUME NEW l \in Ledgers, l.started, NEW m, Grows(l, m),
         NEW s, s \in Seq(Response!OpenOf(l, Kinds))
  PROVE  Shows(l, Response!Change(m, Growth(s, l.id)))
<1> DEFINE e == Growth(s, l.id)
<1>1. /\ l.id \in Nat /\ m \in Ledgers /\ m.id = l.id /\ m.started = l.started
      /\ DOMAIN m.blocks = DOMAIN l.blocks /\ DOMAIN l.blocks = 1 .. Len(l.blocks)
      /\ (m.blocks = <<>> <=> l.blocks = <<>>)
      /\ \A i \in DOMAIN l.blocks : m.blocks[i].open = l.blocks[i].open
  BY LedgerFields DEF Grows
<1>2. Response!OpenOf(m, Kinds) = Response!OpenOf(l, Kinds)
  BY <1>1, OpenBlocks
<1>3. ASSUME NEW c \in Clients, Mirrors(c, l) PROVE Mirrors(Response!Follow(c, e), m)
  <2> DEFINE u == Shown(s, c, l.id)
  <2>1. Listens(c) /\ c.open = Response!OpenOf(l, Kinds) /\ c.seen = DOMAIN l.blocks
    BY <1>3, MirrorListens DEF Mirrors, Kinds
  <2>2. Response!Follow(c, e) = View(c.starts, c.open, c.seen, u)
    <3>1. AreOpen(s, c)
      BY <2>1 DEF AreOpen
    <3> QED
      BY <1>1, <2>1, <3>1, FollowDeltas
  <2>3. c.starts > 0 /\ c.of \subseteq {l.id} /\ (l.blocks = <<>> => c.of = {})
    BY <1>3, <2>1 DEF Mirrors, Listens
  <2>4. l.blocks = <<>> => s = <<>>
    <3>1. l.blocks = <<>> => Response!OpenOf(l, Kinds) = {}
      BY OpenBlocks
    <3> QED
      BY <3>1
  <2>5. u \subseteq {m.id} /\ (m.blocks = <<>> => u = {})
    BY <1>1, <2>3, <2>4 DEF Shown
  <2> HIDE DEF u
  <2> DEFINE v == View(c.starts, c.open, c.seen, u)
  <2>6. /\ v.legal /\ v.stops = 0 /\ v.starts > 0 /\ v.of = u
        /\ v.open = Response!OpenOf(m, Kinds) /\ v.seen = DOMAIN m.blocks
    BY <1>1, <1>2, <2>1, <2>3 DEF View
  <2> HIDE DEF v
  <2>7. Mirrors(v, m)
    BY <2>5, <2>6 DEF Mirrors, Kinds
  <2> QED
    BY <2>2, <2>7 DEF v
<1>4. e \in Seq(Events)
  <2>1. Response!OpenOf(l, Kinds) \in SUBSET Nat
    BY OpenBlocks
  <2>2. Len(s) \in Nat /\ DOMAIN s = 1 .. Len(s) /\ \A k \in 1 .. Len(s) : s[k] \in Nat
    BY <2>1
  <2>3. e \in [1 .. Len(s) -> Events]
    BY <1>1, <2>2 DEF Growth, Response!Delta, Events, EventTypes
  <2> QED
    BY <2>2, <2>3, IsASeq
<1> HIDE DEF e
<1>5. Response!Change(m, e).state = m /\ Response!Change(m, e).events = e
  BY DEF Response!Change
<1>6. Shows(l, Response!Change(m, e))
  BY <1>1, <1>3, <1>4, <1>5 DEF Shows
<1> QED
  BY <1>6 DEF e

(* A ledger grows into itself.                                             *)
LEMMA GrowsItself ==
  ASSUME NEW l \in Ledgers
  PROVE  Grows(l, l)
BY DEF Grows

(* One block that grows is one delta.                                      *)
LEMMA GrowthOfOne ==
  ASSUME NEW i, NEW l
  PROVE  Growth(<<i>>, l) = <<Response!Delta(i, l)>>
BY DEF Growth

(* A delta after other events.                                             *)
LEMMA DeltaExtends ==
  ASSUME NEW l, Fit(l), NEW c, Extends(l, c), NEW i \in Response!OpenOf(c.state, Kinds)
  PROVE  Extends(l, Response!Change(c.state, Append(c.events, Response!Delta(i, l.id))))
<1>1. Fit(c.state) /\ c.state.id = l.id
  BY ExtendsIsFit
<1>2. c.state \in Ledgers /\ c.state.started /\ Usable(c.state)
  BY <1>1 DEF Fit
<1> DEFINE e == <<Response!Delta(i, l.id)>>
           d == Response!Change(c.state, e)
<1>3. d.state = c.state /\ d.events = e
  BY DEF Response!Change
<1>4. Shows(c.state, d)
  <2>1. <<i>> \in Seq(Response!OpenOf(c.state, Kinds))
    OBVIOUS
  <2>2. e = Growth(<<i>>, c.state.id)
    BY <1>1, GrowthOfOne
  <2> HIDE DEF e
  <2> QED
    BY <1>2, <2>1, <2>2, GrowthIsShown, GrowsItself
<1> HIDE DEF d
<1>5. Extends(c.state, d)
  <2>1. Len(c.state.blocks) \in Nat
    BY <1>2, LedgerFields
  <2> QED
    BY <1>2, <1>3, <1>4, <2>1 DEF Extends
<1>6. Extends(l, Response!Change(d.state, c.events \o d.events))
  BY <1>5, BothExtend
<1>7. c.events \o e = Append(c.events, Response!Delta(i, l.id))
  <2>1. c.events \in Seq(Events)
    BY DEF Extends, Shows
  <2> DEFINE x == Response!Delta(i, l.id)
  <2>2. e = <<x>>
    OBVIOUS
  <2> HIDE DEF x, e
  <2>3. x \in Events
    <3>1. i \in Nat /\ l.id \in Nat
      BY <1>1, <1>2, OpenBlocks, LedgerFields
    <3> QED
      BY <3>1 DEF x, Response!Delta, Events, EventTypes
  <2> QED
    BY <2>1, <2>2, <2>3, AppendIsConcat DEF x
<1> QED
  BY <1>3, <1>6, <1>7

(* Text or reasoning.                                                      *)
LEMMA SayExtends ==
  ASSUME NEW l, Fit(l), NEW kind \in {"thinking", "text"}
  PROVE  Extends(l, Response!Say(l, kind)) /\ Response!Say(l, kind).state.blocks # <<>>
<1> DEFINE rest    == {"thinking", "text"} \ {kind}
           shut  == Response!CloseSet(l, Response!OpenOf(l, rest))
           new     == Response!NewBlock(shut.state, kind, "none")
           ensured == IF Response!OpenOf(l, {kind}) # {} THEN shut
                      ELSE Response!Change(new.state, shut.events \o new.events)
           i       == CHOOSE i \in Response!OpenOf(ensured.state, {kind}) : TRUE
<1>1. Response!Say(l, kind)
          = Response!Change(ensured.state, Append(ensured.events, Response!Delta(i, l.id)))
  BY DEF Response!Say, Response!Then
<1>2. Extends(l, shut) /\ Closes(l, shut.state, Response!OpenOf(l, rest))
  BY CloseContentExtends
<1> HIDE DEF shut
<1>3. Fit(shut.state) /\ l \in Ledgers /\ shut.state \in Ledgers
  BY <1>2, ExtendsIsFit DEF Fit
<1>4. Extends(shut.state, new) /\ OpensBlock(shut.state, new.state, kind, "none")
  BY <1>3, NewBlockExtends DEF Kinds
<1> HIDE DEF new
<1>5. Extends(l, ensured) /\ Response!OpenOf(ensured.state, {kind}) # {}
  <2>1. CASE Response!OpenOf(l, {kind}) # {}
    <3>1. PICK j \in Response!OpenOf(l, {kind}) : TRUE
      BY <2>1
    <3>2. j \in 1 .. Len(l.blocks) /\ l.blocks[j].open /\ l.blocks[j].kind = kind
      BY <1>3, <3>1, LedgerFields DEF Response!OpenOf
    <3>3. j \notin Response!OpenOf(l, rest)
      BY <3>2 DEF Response!OpenOf
    <3>4. j \in DOMAIN shut.state.blocks /\ shut.state.blocks[j].open
          /\ shut.state.blocks[j].kind = kind
      BY <1>2, <1>3, <3>2, <3>3, LedgerFields DEF Closes
    <3>5. j \in Response!OpenOf(shut.state, {kind})
      BY <3>4 DEF Response!OpenOf
    <3> QED
      BY <1>2, <2>1, <3>5
  <2>2. CASE Response!OpenOf(l, {kind}) = {}
    <3>1. ensured = Response!Change(new.state, shut.events \o new.events)
          /\ ensured.state = new.state
      BY <2>2 DEF Response!Change
    <3>2. Extends(l, ensured)
      BY <1>2, <1>4, <3>1, BothExtend
    <3>3. Len(shut.state.blocks) + 1 \in Response!OpenOf(new.state, {kind})
      BY <1>3, <1>4, OpensOne DEF Response!OpenOf
    <3> QED
      BY <3>1, <3>2, <3>3
  <2> QED
    BY <2>1, <2>2
<1> HIDE DEF ensured
<1>6. i \in Response!OpenOf(ensured.state, {kind})
  BY <1>5
<1>7. ensured.state \in Ledgers
  BY <1>5 DEF Extends, Shows
<1>8. i \in Response!OpenOf(ensured.state, Kinds) /\ ensured.state.blocks # <<>>
  BY <1>6, <1>7, OpenBlocks, LedgerFields
<1> HIDE DEF i
<1>9. Response!Say(l, kind).state = ensured.state
  BY <1>1 DEF Response!Change
<1> QED
  BY <1>1, <1>5, <1>8, <1>9, DeltaExtends

(* A slot is no part of what a client sees.                                *)
LEMMA SlotIsHidden ==
  ASSUME NEW l, NEW c, Shows(l, c), NEW m \in Ledgers,
         m.id = c.state.id, m.started = c.state.started, m.blocks = c.state.blocks
  PROVE  Shows(l, Response!Change(m, c.events))
<1>1. Response!Change(m, c.events).state = m /\ Response!Change(m, c.events).events = c.events
  BY DEF Response!Change
<1>2. \A v : Mirrors(v, c.state) => Mirrors(v, m)
  BY DEF Mirrors, Response!OpenOf
<1> QED
  BY <1>1, <1>2 DEF Shows

(* A tool call that starts has a block to grow in.                         *)
LEMMA StartToolExtends ==
  ASSUME NEW l, Fit(l), NEW t \in Tools
  PROVE  Extends(l, Response!StartTool(l, t)) /\ Response!StartTool(l, t).state.slot[t] # 0
<1>1. CASE l.slot[t] # 0
  <2>1. Response!StartTool(l, t) = Response!Change(l, <<>>)
    BY <1>1 DEF Response!StartTool
  <2>2. Response!Change(l, <<>>).state = l
    BY DEF Response!Change
  <2> QED
    BY <1>1, <2>1, <2>2, NothingExtends
<1>2. CASE l.slot[t] = 0
  <2> DEFINE c == Response!NewBlock(l, "tool", "none")
             n == Len(l.blocks) + 1
             m == [c.state EXCEPT !.slot[t] = n]
  <2>1. Extends(l, c) /\ OpensBlock(l, c.state, "tool", "none")
    BY NewBlockExtends DEF Kinds
  <2>2. /\ l \in Ledgers /\ c.state \in Ledgers /\ Usable(c.state)
    BY <2>1 DEF Fit, Extends, Shows
  <2>3. /\ n \in Nat /\ n # 0 /\ Len(c.state.blocks) = n /\ n \in DOMAIN c.state.blocks
        /\ c.state.blocks[n].kind = "tool" /\ c.state.blocks[n].open
    BY <2>1, <2>2, OpensOne
  <2>4. Response!StartTool(l, t) = Response!Change(m, c.events)
    BY <1>2, <2>3 DEF Response!StartTool
  <2>5. c.state.slot \in [Tools -> Nat] /\ Len(l.blocks) <= Len(c.state.blocks)
    BY <2>1, <2>2, LedgerFields DEF Extends
  <2> HIDE DEF c, n
  <2>6. /\ m \in Ledgers /\ m.id = c.state.id /\ m.started = c.state.started
        /\ m.blocks = c.state.blocks /\ m.slot = [c.state.slot EXCEPT ![t] = n]
    BY <2>2, <2>3 DEF Ledgers
  <2> HIDE DEF m
  <2>7. \A u \in Tools : m.slot[u] # 0 =>
          /\ m.slot[u] \in DOMAIN m.blocks
          /\ m.blocks[m.slot[u]].kind = "tool" /\ m.blocks[m.slot[u]].open
    BY <2>2, <2>3, <2>5, <2>6 DEF Usable
  <2>8. Usable(m)
    BY <2>2, <2>6, <2>7 DEF Usable, Response!ToolBlocks
  <2>9. Shows(l, Response!Change(m, c.events))
    BY <2>1, <2>6, SlotIsHidden DEF Extends
  <2>10. Response!Change(m, c.events).state = m /\ m.slot[t] # 0
    BY <2>3, <2>5, <2>6 DEF Response!Change
  <2> QED
    BY <2>4, <2>5, <2>6, <2>8, <2>9, <2>10 DEF Extends
<1> QED
  BY <1>1, <1>2

(* A tool call grows in its block.                                         *)
LEMMA GrowToolExtends ==
  ASSUME NEW l, Fit(l), NEW t \in Tools, l.slot[t] # 0, NEW args \in {"part", "full"}
  PROVE  Extends(l, Response!GrowTool(l, t, args))
         /\ Response!GrowTool(l, t, args).state.slot[t] # 0
<1> DEFINE j == l.slot[t]
           b == [l.blocks EXCEPT ![j].args = args]
           m == [l EXCEPT !.blocks = b]
<1>1. l \in Ledgers /\ l.started /\ Usable(l)
  BY DEF Fit
<1>2. /\ l.blocks \in Seq(Response!Block) /\ Len(l.blocks) \in Nat
      /\ DOMAIN l.blocks = 1 .. Len(l.blocks)
      /\ j \in 1 .. Len(l.blocks) /\ l.blocks[j].kind = "tool" /\ l.blocks[j].open
  BY <1>1, LedgerFields DEF Usable
<1>3. Response!GrowTool(l, t, args) = Response!Change(m, <<Response!Delta(j, l.id)>>)
  BY DEF Response!GrowTool
<1> HIDE DEF j
<1> DEFINE new == [l.blocks[j] EXCEPT !.args = args]
<1>4. /\ new \in Response!Block /\ new.kind = "tool" /\ new.open = l.blocks[j].open /\ new.open
      /\ new.args = args
  <2>1. l.blocks[j] \in Response!Block
    BY <1>2
  <2> QED
    BY <1>2, <2>1 DEF Response!Block
<1>5. b = [l.blocks EXCEPT ![j] = new]
  OBVIOUS
<1> HIDE DEF new, b
<1>6. /\ b \in Seq(Response!Block) /\ Len(b) = Len(l.blocks) /\ DOMAIN b = DOMAIN l.blocks
      /\ b[j] = new
      /\ \A i \in 1 .. Len(l.blocks) : i # j => b[i] = l.blocks[i]
  BY <1>2, <1>4, <1>5, ExceptSeq
<1>7. /\ m \in Ledgers /\ m.id = l.id /\ m.started = l.started /\ m.slot = l.slot /\ m.blocks = b
  BY <1>1, <1>6 DEF Ledgers
<1> HIDE DEF m
<1>8. \A i \in 1 .. Len(l.blocks) :
        /\ m.blocks[i].kind = l.blocks[i].kind /\ m.blocks[i].open = l.blocks[i].open
        /\ i # j => m.blocks[i] = l.blocks[i]
  BY <1>2, <1>4, <1>6, <1>7
<1>9. Grows(l, m)
  BY <1>6, <1>7, <1>8 DEF Grows
<1>10. Usable(m)
  <2>1. \A u \in Tools : m.slot[u] # 0 =>
          /\ m.slot[u] \in DOMAIN m.blocks
          /\ m.blocks[m.slot[u]].kind = "tool" /\ m.blocks[m.slot[u]].open
    BY <1>1, <1>2, <1>6, <1>7, <1>8 DEF Usable
  <2>2. ASSUME NEW i \in Response!ToolBlocks(m)
        PROVE m.blocks[i].open \/ m.blocks[i].args = "full"
    <3>1. i \in 1 .. Len(l.blocks) /\ i \in Response!ToolBlocks(l)
      BY <1>2, <1>6, <1>7, <1>8 DEF Response!ToolBlocks
    <3>2. CASE i = j
      BY <1>4, <1>6, <1>7, <3>2
    <3>3. CASE i # j
      BY <1>1, <1>8, <3>1, <3>3 DEF Usable
    <3> QED
      BY <3>2, <3>3
  <2> QED
    BY <2>1, <2>2 DEF Usable
<1>11. Shows(l, Response!Change(m, <<Response!Delta(j, l.id)>>))
  <2>1. j \in Response!OpenOf(l, Kinds)
    BY <1>1, <1>2, OpenBlocks
  <2>2. <<j>> \in Seq(Response!OpenOf(l, Kinds))
        /\ Growth(<<j>>, l.id) = <<Response!Delta(j, l.id)>>
    BY <2>1, GrowthOfOne
  <2>3. Shows(l, Response!Change(m, Growth(<<j>>, l.id)))
    BY <1>1, <1>9, <2>2, GrowthIsShown
  <2> QED
    BY <2>2, <2>3
<1>12. Response!Change(m, <<Response!Delta(j, l.id)>>).state = m
  BY DEF Response!Change
<1> QED
  BY <1>2, <1>3, <1>6, <1>7, <1>10, <1>11, <1>12 DEF Extends

(* A fragment of a native tool call extends a ledger.                      *)
LEMMA CallToolExtends ==
  ASSUME NEW l, Fit(l), NEW t \in Tools, NEW args \in {"none", "part", "full"}
  PROVE  Extends(l, Response!CallTool(l, t, args))
         /\ Response!CallTool(l, t, args).state.blocks # <<>>
<1> DEFINE a == Response!CloseContent(l)
           b == Response!StartTool(a.state, t)
           c == Response!Change(b.state, a.events \o b.events)
           g == IF args = "none" THEN Response!Change(c.state, <<>>)
                ELSE Response!GrowTool(c.state, t, args)
           d == Response!Change(g.state, c.events \o g.events)
<1>1. Response!CallTool(l, t, args) = d
  BY DEF Response!CallTool, Response!Then
<1>2. Extends(l, a)
  BY CloseContentExtends DEF Response!CloseContent
<1> HIDE DEF a
<1>3. Extends(a.state, b) /\ b.state.slot[t] # 0
  BY <1>2, ExtendsIsFit, StartToolExtends
<1> HIDE DEF b
<1>4. Extends(l, c) /\ c.state = b.state
  BY <1>2, <1>3, BothExtend DEF Response!Change
<1> HIDE DEF c
<1>5. Fit(c.state) /\ c.state.slot[t] # 0
  BY <1>3, <1>4, ExtendsIsFit
<1>6. Extends(c.state, g) /\ g.state.slot[t] # 0
  <2>1. CASE args = "none"
    <3>1. Response!Change(c.state, <<>>).state = c.state /\ g = Response!Change(c.state, <<>>)
      BY <2>1 DEF Response!Change
    <3> HIDE DEF g
    <3> QED
      BY <1>5, <3>1, NothingExtends
  <2>2. CASE args # "none"
    <3>1. args \in {"part", "full"} /\ g = Response!GrowTool(c.state, t, args)
      BY <2>2
    <3> HIDE DEF g
    <3> QED
      BY <1>5, <3>1, GrowToolExtends
  <2> QED
    BY <2>1, <2>2
<1> HIDE DEF g
<1>7. Extends(l, d) /\ d.state = g.state
  BY <1>4, <1>6, BothExtend DEF Response!Change
<1>8. Fit(d.state)
  BY <1>7, ExtendsIsFit
<1>9. d.state.blocks # <<>>
  BY <1>6, <1>7, <1>8 DEF Fit, Usable
<1> QED
  BY <1>1, <1>7, <1>9

(* A tool call spelled out in text extends a ledger, opened and closed at  *)
(* once.                                                                   *)
LEMMA WriteToolExtends ==
  ASSUME NEW l, Fit(l)
  PROVE  Extends(l, Response!WriteTool(l)) /\ Response!WriteTool(l).state.blocks # <<>>
<1> DEFINE a == Response!CloseContent(l)
           b == Response!NewBlock(a.state, "tool", "full")
           c == Response!Change(b.state, a.events \o b.events)
           i == Len(c.state.blocks)
           d == Response!Change(c.state, Append(c.events, Response!Delta(i, l.id)))
           e == Response!CloseSet(d.state, {i})
           f == Response!Change(e.state, d.events \o e.events)
<1>1. Response!WriteTool(l) = f
  BY DEF Response!WriteTool, Response!Then
<1>2. Extends(l, a)
  BY CloseContentExtends DEF Response!CloseContent
<1> HIDE DEF a
<1>3. Extends(a.state, b) /\ OpensBlock(a.state, b.state, "tool", "full") /\ Fit(a.state)
  BY <1>2, ExtendsIsFit, NewBlockExtends DEF Kinds
<1> HIDE DEF b
<1>4. Extends(l, c) /\ c.state = b.state
  BY <1>2, <1>3, BothExtend DEF Response!Change
<1> HIDE DEF c
<1>5. Fit(c.state) /\ c.state \in Ledgers
  BY <1>4, ExtendsIsFit DEF Fit
<1>6. /\ a.state \in Ledgers /\ Len(a.state.blocks) \in Nat /\ i = Len(a.state.blocks) + 1
      /\ DOMAIN a.state.blocks = 1 .. Len(a.state.blocks)
      /\ DOMAIN c.state.blocks = 1 .. i
      /\ c.state.blocks[i].kind = "tool" /\ c.state.blocks[i].open
      /\ c.state.blocks[i].args = "full"
      /\ c.state.slot = a.state.slot /\ c.state.blocks # <<>>
  BY <1>3, <1>4, OpensOne DEF Fit, OpensBlock
<1> HIDE DEF i
<1>7. i \in Response!OpenOf(c.state, Kinds)
  BY <1>5, <1>6, OpenBlocks
<1>8. \A t \in Tools : c.state.slot[t] # i
  BY <1>3, <1>6, LedgerFields DEF Fit, Usable
<1>9. Extends(l, d) /\ d.state = c.state
  BY <1>4, <1>7, DeltaExtends DEF Response!Change
<1> HIDE DEF d
<1>10. /\ {i} \in SUBSET Response!OpenOf(d.state, Kinds)
       /\ \A j \in {i} \cap Response!ToolBlocks(d.state) :
            d.state.blocks[j].args = "full" /\ \A t \in Tools : d.state.slot[t] # j
  BY <1>6, <1>7, <1>8, <1>9
<1>11. Extends(d.state, e)
  BY <1>5, <1>9, <1>10, CloseSetExtends
<1> HIDE DEF e
<1>12. Extends(l, f) /\ f.state = e.state
  BY <1>9, <1>11, BothExtend DEF Response!Change
<1> HIDE DEF f
<1>13. f.state.blocks # <<>>
  <2>1. f.state \in Ledgers /\ Len(c.state.blocks) = i
        /\ Len(c.state.blocks) <= Len(f.state.blocks)
    BY <1>5, <1>6, <1>9, <1>11, <1>12, LedgerFields DEF Extends, Shows
  <2> QED
    BY <1>6, <2>1, LedgerFields
<1> QED
  BY <1>1, <1>12, <1>13

(* An extension takes no block away.                                       *)
LEMMA ExtendsNonempty ==
  ASSUME NEW l, Fit(l), NEW d, Extends(l, d), l.blocks # <<>>
  PROVE  d.state.blocks # <<>>
<1>1. /\ Len(l.blocks) \in Nat /\ Len(l.blocks) # 0 /\ Len(l.blocks) <= Len(d.state.blocks)
      /\ d.state \in Ledgers
  BY LedgerFields DEF Fit, Extends, Shows
<1> QED
  BY <1>1, LedgerFields

(* What fills an empty message extends a ledger.                           *)
LEMMA FillExtends ==
  ASSUME NEW l, Fit(l)
  PROVE  Extends(l, Response!Fill(l)) /\ Response!Fill(l).state.blocks # <<>>
<1>1. CASE \E i \in DOMAIN l.blocks : l.blocks[i].kind # "thinking"
  <2>1. Response!Fill(l) = Response!Change(l, <<>>) /\ Response!Change(l, <<>>).state = l
    BY <1>1 DEF Response!Fill, Response!Change
  <2>2. l.blocks # <<>>
    BY <1>1, LedgerFields DEF Fit
  <2> QED
    BY <2>1, <2>2, NothingExtends
<1>2. CASE ~ \E i \in DOMAIN l.blocks : l.blocks[i].kind # "thinking"
  BY <1>2, SayExtends DEF Response!Fill
<1> QED
  BY <1>1, <1>2

(* So do the tools whose names were held to the end.                       *)
LEMMA LateToolsExtend ==
  ASSUME NEW l, Fit(l), NEW late \in Response!LateTools(l)
  PROVE  Extends(l, Response!Then(late, Response!Fill))
         /\ Response!Then(late, Response!Fill).state.blocks # <<>>
<1> DEFINE f == Response!Fill(late.state)
           d == Response!Change(f.state, late.events \o f.events)
<1>1. Extends(l, late)
  BY NothingExtends, StartToolExtends DEF Response!LateTools
<1>2. Extends(late.state, f) /\ f.state.blocks # <<>>
  BY <1>1, ExtendsIsFit, FillExtends
<1>3. Response!Then(late, Response!Fill) = d
  BY DEF Response!Then
<1> HIDE DEF f
<1>4. d.state = f.state
  BY DEF Response!Change
<1> QED
  BY <1>1, <1>2, <1>3, <1>4, BothExtend

(* And so does the repair of all broken tool calls.                        *)
LEMMA RepairAllExtends ==
  ASSUME NEW l, Fit(l)
  PROVE  Extends(l, Response!RepairAll(l))
         /\ (Response!ToolBlocks(l) # {} => Response!RepairAll(l).state.blocks # <<>>)
<1> DEFINE broken == {i \in Response!ToolBlocks(l) : l.blocks[i].args # "full"}
           order  == Response!Ascending(broken)
           n      == Len(l.blocks)
           whole(i) == IF i \in broken THEN [l.blocks[i] EXCEPT !.args = "full"] ELSE l.blocks[i]
           b      == [i \in DOMAIN l.blocks |-> whole(i)]
           m      == [l EXCEPT !.blocks = b]
<1>1. Response!RepairAll(l) = Response!Change(m, Growth(order, l.id))
  BY DEF Response!RepairAll, Growth
<1>2. l \in Ledgers /\ l.started /\ Usable(l)
  BY DEF Fit
<1>3. /\ l.blocks \in Seq(Response!Block) /\ n \in Nat /\ DOMAIN l.blocks = 1 .. n
      /\ \A i \in 1 .. n : l.blocks[i] \in Response!Block
  BY <1>2, LedgerFields
<1>4. broken \in SUBSET Response!OpenOf(l, Kinds) /\ broken \in SUBSET (1 .. n)
      /\ broken \in SUBSET Response!ToolBlocks(l)
  BY <1>2, <1>3, OpenBlocks DEF Response!ToolBlocks, Usable
<1>5. order \in Seq(Response!OpenOf(l, Kinds))
  <2>1. broken \in SUBSET Nat /\ IsFiniteSet(broken)
    BY <1>2, <1>4, OpenBlocks, FS_Subset
  <2>2. order \in Seq(broken)
    BY <2>1, AscendingLists DEF Lists
  <2> QED
    BY <1>4, <2>2
<1> HIDE DEF order
<1>6. \A i \in 1 .. n : /\ whole(i) \in Response!Block /\ whole(i).kind = l.blocks[i].kind
                        /\ whole(i).open = l.blocks[i].open
                        /\ whole(i).args = IF i \in broken THEN "full" ELSE l.blocks[i].args
  <2>1. SUFFICES ASSUME NEW i \in 1 .. n
                 PROVE  /\ whole(i) \in Response!Block /\ whole(i).kind = l.blocks[i].kind
                        /\ whole(i).open = l.blocks[i].open
                        /\ whole(i).args = IF i \in broken THEN "full" ELSE l.blocks[i].args
    OBVIOUS
  <2>2. l.blocks[i] \in Response!Block
    BY <1>3
  <2>3. CASE i \in broken
    <3> DEFINE x == l.blocks[i]
    <3>1. whole(i) = [x EXCEPT !.args = "full"]
      BY <2>3
    <3>2. x \in Response!Block
      BY <2>2
    <3> HIDE DEF x, whole
    <3>3. [x EXCEPT !.args = "full"] \in Response!Block
          /\ [x EXCEPT !.args = "full"].kind = x.kind
          /\ [x EXCEPT !.args = "full"].open = x.open /\ [x EXCEPT !.args = "full"].args = "full"
      BY <3>2 DEF Response!Block
    <3> QED
      BY <2>3, <3>1, <3>3 DEF x
  <2>4. CASE i \notin broken
    BY <2>2, <2>4
  <2> QED
    BY <2>3, <2>4
<1>7. b \in Seq(Response!Block) /\ Len(b) = n /\ DOMAIN b = 1 .. n
      /\ \A i \in 1 .. n : b[i] = whole(i)
  <2>1. b = [i \in 1 .. n |-> whole(i)]
    BY <1>3
  <2> HIDE DEF whole
  <2>2. [i \in 1 .. n |-> whole(i)] \in [1 .. n -> Response!Block]
    BY <1>6
  <2> QED
    BY <1>3, <2>1, <2>2
<1>8. /\ \A i \in 1 .. n : /\ b[i].kind = l.blocks[i].kind /\ b[i].open = l.blocks[i].open
                           /\ b[i].args = IF i \in broken THEN "full" ELSE l.blocks[i].args
  BY <1>6, <1>7
<1> HIDE DEF b, whole
<1>9. /\ m \in Ledgers /\ m.id = l.id /\ m.started = l.started /\ m.slot = l.slot /\ m.blocks = b
  BY <1>2, <1>7 DEF Ledgers
<1> HIDE DEF m
<1>10. Grows(l, m)
  BY <1>7, <1>8, <1>9 DEF Grows
<1>11. Usable(m)
  <2>1. ASSUME NEW u \in Tools, m.slot[u] # 0
        PROVE  /\ m.slot[u] \in DOMAIN m.blocks
               /\ m.blocks[m.slot[u]].kind = "tool" /\ m.blocks[m.slot[u]].open
    <3>1. /\ l.slot[u] \in DOMAIN l.blocks /\ l.blocks[l.slot[u]].kind = "tool"
          /\ l.blocks[l.slot[u]].open /\ m.slot[u] = l.slot[u]
      BY <1>2, <1>9, <2>1 DEF Usable
    <3> QED
      BY <1>3, <1>7, <1>8, <1>9, <3>1
  <2>2. ASSUME NEW i \in Response!ToolBlocks(m)
        PROVE m.blocks[i].open \/ m.blocks[i].args = "full"
    <3>1. i \in 1 .. n /\ i \in Response!ToolBlocks(l)
      BY <1>3, <1>7, <1>8, <1>9 DEF Response!ToolBlocks
    <3>2. i \in broken \/ l.blocks[i].args = "full"
      BY <3>1
    <3> HIDE DEF broken
    <3> QED
      BY <1>8, <1>9, <3>1, <3>2
  <2> QED
    BY <2>1, <2>2 DEF Usable
<1>12. Shows(l, Response!Change(m, Growth(order, l.id)))
  BY <1>2, <1>5, <1>10, GrowthIsShown
<1>13. Response!Change(m, Growth(order, l.id)).state = m
  BY DEF Response!Change
<1>14. Response!ToolBlocks(l) # {} => m.blocks # <<>>
  BY <1>2, <1>3, <1>7, <1>9, LedgerFields DEF Response!ToolBlocks
<1> QED
  BY <1>1, <1>3, <1>7, <1>9, <1>11, <1>12, <1>13, <1>14 DEF Extends

(* The end of a message: nothing is left open.                             *)
Shuts(l, d) ==
  /\ Shows(l, d) /\ Response!OpenOf(d.state, Kinds) = {}
  /\ Len(d.state.blocks) = Len(l.blocks)

(* Closing all blocks, content first, leaves none open.                    *)
LEMMA CloseAllShuts ==
  ASSUME NEW l \in Ledgers, l.started
  PROVE  Shuts(l, Response!CloseAll(l))
<1> DEFINE S == Response!OpenOf(l, {"thinking", "text"})
           a == Response!CloseSet(l, S)
           T == Response!OpenOf(a.state, {"tool"})
           b == Response!CloseSet(a.state, T)
           c == Response!Change(b.state, a.events \o b.events)
<1>1. Response!CloseAll(l) = c
  BY DEF Response!CloseAll, Response!Then, Response!CloseContent
<1>2. S \in SUBSET Response!OpenOf(l, Kinds)
  BY OpenBlocks
<1>3. Shows(l, a) /\ Closes(l, a.state, S)
  BY <1>2, CloseSetShows
<1>4. a.state \in Ledgers /\ a.state.started
  BY <1>3 DEF Shows
<1>5. \A i \in 1 .. Len(l.blocks) : a.state.blocks[i].open => a.state.blocks[i].kind = "tool"
  <2>1. ASSUME NEW i \in 1 .. Len(l.blocks), a.state.blocks[i].open
        PROVE  a.state.blocks[i].kind = "tool"
    <3>1. l.blocks[i].open /\ i \notin S /\ a.state.blocks[i].kind = l.blocks[i].kind
      BY <1>3, <2>1 DEF Closes
    <3>2. l.blocks[i].kind \in Kinds /\ i \in DOMAIN l.blocks
      BY LedgerFields
    <3> QED
      BY <3>1, <3>2 DEF Response!OpenOf, Kinds
  <2> QED
    BY <2>1
<1>6. Len(a.state.blocks) = Len(l.blocks)
  BY <1>3 DEF Closes
<1> HIDE DEF a
<1>7. T \in SUBSET Response!OpenOf(a.state, Kinds)
  BY <1>4, OpenBlocks
<1>8. Shows(a.state, b) /\ Closes(a.state, b.state, T)
  BY <1>4, <1>7, CloseSetShows
<1>9. b.state \in Ledgers /\ Len(b.state.blocks) = Len(a.state.blocks)
  BY <1>8 DEF Shows, Closes
<1>10. Response!OpenOf(b.state, Kinds) = {}
  <2>1. ASSUME NEW i \in Response!OpenOf(b.state, Kinds) PROVE FALSE
    <3>1. i \in 1 .. Len(l.blocks) /\ b.state.blocks[i].open
      BY <1>6, <1>9, <2>1, LedgerFields, OpenBlocks
    <3>2. a.state.blocks[i].open /\ i \notin T
      BY <1>6, <1>8, <3>1 DEF Closes
    <3>3. a.state.blocks[i].kind = "tool" /\ i \in DOMAIN a.state.blocks
      BY <1>4, <1>5, <1>6, <3>1, <3>2, LedgerFields
    <3> QED
      BY <3>2, <3>3 DEF Response!OpenOf
  <2> QED
    BY <2>1
<1> HIDE DEF b
<1>11. Shows(l, c)
  BY <1>3, <1>8, BothShow
<1>12. c.state = b.state
  BY DEF Response!Change
<1> QED
  BY <1>1, <1>6, <1>9, <1>10, <1>11, <1>12 DEF Shuts

(* Closing all blocks, the last one first, leaves none open.               *)
LEMMA UnwindShuts ==
  ASSUME NEW l \in Ledgers, l.started
  PROVE  Shuts(l, Response!Unwind(l))
<1> DEFINE S == Response!OpenOf(l, Kinds)
           s == Response!Descending(S)
           a == Response!CloseEach(l, s)
<1>1. Response!Unwind(l) = a
  BY DEF Response!Unwind, Kinds
<1>2. S \in SUBSET Nat /\ IsFiniteSet(S) /\ S \in SUBSET Response!OpenOf(l, Kinds)
  BY OpenBlocks
<1>3. Lists(s, S)
  BY <1>2, DescendingLists
<1> HIDE DEF s
<1>4. Shows(l, a) /\ Closes(l, a.state, S)
  BY <1>2, <1>3, CloseEachShows
<1> HIDE DEF a
<1>5. a.state \in Ledgers /\ Len(a.state.blocks) = Len(l.blocks)
  BY <1>4 DEF Shows, Closes
<1>6. Response!OpenOf(a.state, Kinds) = {}
  <2>1. ASSUME NEW i \in Response!OpenOf(a.state, Kinds) PROVE FALSE
    <3>1. i \in 1 .. Len(l.blocks) /\ a.state.blocks[i].open
      BY <1>5, <2>1, LedgerFields, OpenBlocks
    <3>2. l.blocks[i].open /\ i \notin S
      BY <1>4, <3>1 DEF Closes
    <3> QED
      BY <3>1, <3>2, LedgerFields, OpenBlocks
  <2> QED
    BY <2>1
<1> QED
  BY <1>1, <1>4, <1>5, <1>6 DEF Shuts

(* What a client has seen once all that was held for it is released, and   *)
(* the message was ended.                                                  *)
Told(v, id) == v \in Clients /\ v.legal /\ v.of \in SUBSET {id} /\ v.starts > 0

(* A client in step with a ledger is told what is in it.                   *)
LEMMA MirrorIsTold ==
  ASSUME NEW v \in Clients, NEW l, l.started, Mirrors(v, l)
  PROVE  Told(v, l.id)
BY DEF Mirrors, Told

(* A completed message is legal to its end.                                *)
LEMMA CompleteTells ==
  ASSUME NEW l, Fit(l), NEW c, Extends(l, c), c.state.blocks # <<>>
  PROVE  /\ Response!Complete(c).events \in Seq(Events)
         /\ Response!Complete(c).state \in Ledgers /\ Response!Complete(c).state.id = l.id
         /\ \A v \in Clients : Mirrors(v, l)
             => Told(Response!Follow(v, Response!Complete(c).events), l.id)
<1> DEFINE a == Response!CloseAll(c.state)
           d == Response!Change(a.state, c.events \o a.events)
           z == Response!Ending(d.state.id)
           e == Response!Change(d.state, d.events \o z)
<1>1. Response!Complete(c) = e
  BY DEF Response!Complete, Response!Then
<1>2. Fit(c.state) /\ c.state.id = l.id /\ Shows(l, c)
  BY ExtendsIsFit DEF Extends
<1>3. Shuts(c.state, a)
  BY <1>2, CloseAllShuts DEF Fit
<1> HIDE DEF a
<1>4. Shows(l, d) /\ d.state = a.state
  BY <1>2, <1>3, BothShow DEF Response!Change, Shuts
<1>5. /\ d.state \in Ledgers /\ d.state.id = l.id /\ d.state.started
      /\ d.events \in Seq(Events) /\ l.id \in Nat
  BY <1>4, LedgerFields DEF Shows, Fit
<1>6. Response!OpenOf(d.state, Kinds) = {} /\ DOMAIN d.state.blocks # {}
  <2>1. Len(d.state.blocks) = Len(c.state.blocks) /\ Response!OpenOf(d.state, Kinds) = {}
    BY <1>3, <1>4 DEF Shuts
  <2>2. Len(c.state.blocks) \in Nat /\ Len(c.state.blocks) # 0
    BY <1>2, LedgerFields DEF Fit
  <2>3. DOMAIN d.state.blocks = 1 .. Len(d.state.blocks)
    BY <1>5, LedgerFields
  <2> DEFINE n == Len(d.state.blocks)
  <2>4. n \in Nat /\ n # 0
    BY <2>1, <2>2
  <2> HIDE DEF n
  <2>5. 1 \in 1 .. n
    BY <2>4
  <2> QED
    BY <2>1, <2>3, <2>5 DEF n
<1>7. \A v \in Clients : Mirrors(v, l) => Mirrors(Response!Follow(v, d.events), d.state)
  BY <1>4 DEF Shows
<1> HIDE DEF d
<1>8. z \in Seq(Events) /\ e.events = d.events \o z /\ e.state = d.state
  <2>1. Response!Ending(l.id) \in Seq(Events)
    BY <1>5 DEF Response!Ending, Events, EventTypes
  <2> QED
    BY <1>5, <2>1 DEF Response!Change
<1>9. ASSUME NEW v \in Clients, Mirrors(v, l)
      PROVE  Told(Response!Follow(v, e.events), l.id)
  <2> DEFINE w == Response!Follow(v, d.events)
  <2>1. w \in Clients /\ Mirrors(w, d.state)
    BY <1>5, <1>7, <1>9, FollowStays
  <2>2. Response!Follow(v, e.events) = Response!Follow(w, z)
    BY <1>5, <1>8, <1>9, FollowBoth
  <2> HIDE DEF w
  <2>3. Listens(w)
    BY <1>5, <2>1, MirrorListens
  <2>4. w.open = {} /\ w.seen # {}
    BY <1>6, <2>1 DEF Mirrors, Kinds
  <2>5. Response!Follow(w, z) = Stopped(w)
    BY <1>5, <2>3, <2>4, FollowEnding
  <2>6. Told(w, l.id)
    BY <1>5, <2>1, MirrorIsTold
  <2>7. Told(Stopped(w), l.id)
    BY <2>6 DEF Told, Clients, Stopped
  <2> QED
    BY <2>2, <2>5, <2>7
<1>10. e.events \in Seq(Events)
  BY <1>5, <1>8, ConcatProperties
<1> HIDE DEF e
<1> QED
  BY <1>1, <1>5, <1>8, <1>9, <1>10

-----------------------------------------------------------------------------
(* The runner's steps.                                                     *)

StreamIInv ==
  /\ Response!StreamTypeOK /\ client \in Clients /\ held \in Seq(Events) /\ ledger \in Ledgers
  /\ RunnerShape /\ ClientShape

Going == phase # "done" /\ ledger.started

(* What there is to say of the client, however a step ends.                *)
Served ==
  /\ client \in Clients /\ held \in Seq(Events) /\ committed \in BOOLEAN
  /\ client.legal /\ client.of \subseteq {ledger.id}
  /\ ~committed => Unseen(client)
  /\ committed => held = <<>> /\ client.starts > 0

(* What the invariant says of a runner that has not ended.                 *)
LEMMA GoingMirrors ==
  ASSUME StreamIInv, phase # "done"
  PROVE  /\ Usable(ledger) /\ Mirrors(Response!Follow(client, held), ledger)
         /\ Response!Follow(client, held) \in Clients /\ outcome = "none"
         /\ Response!Follow(client, <<>>) = client
<1>1. client \in Clients /\ held \in Seq(Events)
  BY DEF StreamIInv
<1>2. Usable(ledger) /\ Mirrors(Response!Follow(client, held), ledger) /\ outcome = "none"
  BY DEF StreamIInv, RunnerShape
<1> QED
  BY <1>1, <1>2, FollowStays, FollowNothing

(* Events that are held or released keep what is still to be seen in step  *)
(* with the ledger.                                                        *)
LEMMA ReleaseFollows ==
  ASSUME StreamIInv, phase # "done", NEW e \in Seq(Events), Response!Release(e)
  PROVE  /\ client' = Response!Follow(Response!Follow(client, held), e) /\ client' \in Clients
         /\ held' = <<>> /\ committed' /\ Response!Follow(client', held') = client'
<1>1. client \in Clients /\ held \in Seq(Events)
  BY DEF StreamIInv
<1>2. client' = Response!Follow(client, held \o e) /\ held' = <<>> /\ committed' = TRUE
  BY DEF Response!Release, Response!Received
<1>3. client' = Response!Follow(Response!Follow(client, held), e)
  BY <1>1, <1>2, FollowBoth
<1>4. client' \in Clients
  BY <1>1, <1>3, FollowStays
<1>5. Response!Follow(client', <<>>) = client'
  BY <1>4, FollowNothing
<1> QED
  BY <1>2, <1>3, <1>4, <1>5

(* A message that ends legally keeps what is said of the client.           *)
LEMMA ReleaseServes ==
  ASSUME StreamIInv, phase # "done", NEW e \in Seq(Events), Response!Release(e),
         \A v \in Clients : Mirrors(v, ledger) => Told(Response!Follow(v, e), ledger.id),
         ledger'.id = ledger.id
  PROVE  Served'
<1>1. /\ client' = Response!Follow(Response!Follow(client, held), e) /\ client' \in Clients
      /\ held' = <<>> /\ committed'
  BY ReleaseFollows
<1>2. Told(client', ledger'.id)
  BY <1>1, GoingMirrors
<1>3. <<>> \in Seq(Events) /\ committed' \in BOOLEAN
  BY <1>1 DEF Response!Release
<1> QED
  BY <1>1, <1>2, <1>3 DEF Served, Told

(* So does a push, and the client stays in step.                           *)
LEMMA PushMirrors ==
  ASSUME StreamIInv, phase # "done", NEW e \in Seq(Events), Response!Push(e),
         \A v \in Clients : Mirrors(v, ledger) => Mirrors(Response!Follow(v, e), ledger'),
         ledger' \in Ledgers, ledger'.started, ledger'.id = ledger.id
  PROVE  Served' /\ Mirrors(Response!Follow(client', held'), ledger')
<1>1. CASE Response!Hold(e)
  <2>1. /\ ~committed /\ held' = held \o e /\ committed' = committed /\ client' = client
    BY <1>1 DEF Response!Hold
  <2>2. client \in Clients /\ held \in Seq(Events) /\ committed \in BOOLEAN
    BY DEF StreamIInv, Response!StreamTypeOK
  <2>3. Response!Follow(client, held \o e) = Response!Follow(Response!Follow(client, held), e)
    BY <2>2, FollowBoth
  <2>4. held \o e \in Seq(Events)
    BY <2>2, ConcatProperties
  <2>5. Mirrors(Response!Follow(client', held'), ledger')
    BY <2>1, <2>3, GoingMirrors
  <2>6. client.legal /\ client.of \subseteq {ledger.id} /\ Unseen(client)
    BY <2>1 DEF StreamIInv, ClientShape
  <2> QED
    BY <2>1, <2>2, <2>4, <2>5, <2>6 DEF Served
<1>2. CASE Response!Release(e)
  <2>1. /\ client' = Response!Follow(Response!Follow(client, held), e) /\ client' \in Clients
        /\ held' = <<>> /\ committed' /\ Response!Follow(client', held') = client'
    BY <1>2, ReleaseFollows
  <2>2. Mirrors(client', ledger')
    BY <2>1, GoingMirrors
  <2>3. Told(client', ledger'.id)
    BY <2>1, <2>2, MirrorIsTold
  <2>4. <<>> \in Seq(Events) /\ committed' \in BOOLEAN
    BY <1>2 DEF Response!Release
  <2> QED
    BY <2>1, <2>2, <2>3, <2>4 DEF Served, Told
<1> QED
  BY <1>1, <1>2 DEF Response!Push

(* A client that has seen no content is in step with a new ledger.         *)
LEMMA FreshMirrors ==
  ASSUME NEW c \in Clients, Unseen(c), NEW id \in Nat, NEW begun \in BOOLEAN,
         begun => c.starts > 0
  PROVE  /\ Response!NewLedger(id, begun) \in Ledgers /\ Response!NewLedger(id, begun).id = id
         /\ Response!NewLedger(id, begun).started = begun
         /\ Usable(Response!NewLedger(id, begun)) /\ Mirrors(c, Response!NewLedger(id, begun))
<1> DEFINE l == Response!NewLedger(id, begun)
<1>1. /\ l.id = id /\ l.started = begun /\ l.blocks = <<>> /\ l.slot = [t \in Tools |-> 0]
      /\ DOMAIN l.blocks = {} /\ l \in Ledgers
  BY DEF Response!NewLedger, Ledgers
<1> HIDE DEF l
<1>2. Response!OpenOf(l, {"thinking", "text", "tool"}) = {} /\ Response!ToolBlocks(l) = {}
  BY <1>1 DEF Response!OpenOf, Response!ToolBlocks
<1>3. Mirrors(c, l)
  BY <1>1, <1>2 DEF Mirrors, Unseen
<1>4. Usable(l)
  BY <1>1, <1>2 DEF Usable
<1> QED
  BY <1>1, <1>3, <1>4 DEF l

RunTypes ==
  /\ phase \in Response!Phases /\ outcome \in Response!Outcomes
  /\ upstream \in BOOLEAN /\ accepted \in BOOLEAN /\ finish \in BOOLEAN
  /\ salvage \in BOOLEAN /\ attempts \in 0..MaxAttempts /\ content \in Nat

(* What the invariant says of every state.                                 *)
LEMMA StreamFacts ==
  ASSUME StreamIInv
  PROVE  RunTypes /\ Served /\ ledger \in Ledgers /\ ledger.id \in Nat
BY LedgerFields DEF StreamIInv, Response!StreamTypeOK, RunTypes, Served, ClientShape

(* What a step that goes on has to establish.                              *)
LEMMA GoesOn ==
  ASSUME StreamIInv, RunTypes', Served', ledger' \in Ledgers, outcome' = "none",
         Usable(ledger'), Mirrors(Response!Follow(client', held'), ledger'),
         phase' # "starting" => ledger'.started
  PROVE  StreamIInv'
<1>1. ledger'.blocks \in Seq(Response!Block)
  BY LedgerFields
<1>2. Response!StreamTypeOK'
  BY <1>1 DEF Response!StreamTypeOK, RunTypes, Served
<1>3. RunnerShape'
  BY DEF RunnerShape
<1>4. ClientShape'
  BY DEF ClientShape, Served
<1> QED
  BY <1>2, <1>3, <1>4 DEF StreamIInv, Served

(* What a step that ends the run has to establish.                         *)
LEMMA Ends ==
  ASSUME StreamIInv, RunTypes', Served', ledger' \in Ledgers, phase' = "done",
         outcome' = "failed" => client'.open = {}
  PROVE  StreamIInv'
<1>1. ledger'.blocks \in Seq(Response!Block)
  BY LedgerFields
<1>2. Response!StreamTypeOK'
  BY <1>1 DEF Response!StreamTypeOK, RunTypes, Served
<1>3. RunnerShape'
  BY DEF RunnerShape
<1>4. ClientShape'
  BY DEF ClientShape, Served
<1> QED
  BY <1>2, <1>3, <1>4 DEF StreamIInv, Served

(* A step that neither emits nor changes the ledger.                       *)
LEMMA StaysQuiet ==
  ASSUME StreamIInv, phase # "done", RunTypes', outcome' = outcome,
         UNCHANGED <<ledger, held, committed, client>>,
         phase' # "starting" => ledger.started
  PROVE  StreamIInv'
<1>1. /\ ledger' = ledger /\ held' = held /\ committed' = committed /\ client' = client
      /\ outcome' = "none" /\ Usable(ledger) /\ Mirrors(Response!Follow(client, held), ledger)
  BY GoingMirrors
<1>2. Served' /\ ledger' \in Ledgers
  BY <1>1, StreamFacts DEF Served
<1>3. Usable(ledger') /\ Mirrors(Response!Follow(client', held'), ledger')
  BY <1>1
<1> QED
  BY <1>1, <1>2, <1>3, GoesOn

(* A step that emits.                                                      *)
LEMMA PushGoesOn ==
  ASSUME StreamIInv, phase # "done", RunTypes', outcome' = outcome,
         NEW e \in Seq(Events), Response!Push(e),
         \A v \in Clients : Mirrors(v, ledger) => Mirrors(Response!Follow(v, e), ledger'),
         ledger' \in Ledgers, ledger'.started, ledger'.id = ledger.id, Usable(ledger')
  PROVE  StreamIInv'
<1>1. Served' /\ Mirrors(Response!Follow(client', held'), ledger')
  BY PushMirrors
<1>2. outcome' = "none"
  BY GoingMirrors
<1> QED
  BY <1>1, <1>2, GoesOn

(* A keepalive leaves a client in step.                                    *)
LEMMA PingMirrors ==
  ASSUME NEW l, l.started, NEW v \in Clients, Mirrors(v, l)
  PROVE  <<Response!Ping>> \in Seq(Events) /\ Response!Follow(v, <<Response!Ping>>) = v
<1>1. Listens(v)
  BY MirrorListens
<1>2. Response!Ping \in Events /\ Response!Receive(v, Response!Ping) = v
  BY <1>1, ReceivePing
<1> QED
  BY <1>2, FollowOne

(* A keepalive is an event.                                                *)
LEMMA PingIsEvent == <<Response!Ping>> \in Seq(Events)
BY DEF Response!Ping, Events, EventTypes

(* The message starts once per ledger.                                     *)
LEMMA BeginKeeps ==
  ASSUME StreamIInv, Response!Begin
  PROVE  StreamIInv'
<1>1. /\ phase = "starting" /\ phase' = "opening" /\ phase # "done" /\ outcome' = outcome
      /\ RunTypes' /\ ledger \in Ledgers /\ ledger.id \in Nat
  BY StreamFacts DEF Response!Begin, RunTypes, Response!Phases
<1>2. CASE ledger.started
  <2>1. UNCHANGED <<ledger, held, committed, client>>
    BY <1>2 DEF Response!Begin
  <2> QED
    BY <1>1, <1>2, <2>1, StaysQuiet
<1>3. CASE ~ledger.started
  <2> DEFINE l == [ledger EXCEPT !.started = TRUE]
             e == <<Response!Start(ledger.id)>>
  <2>1. ledger' = l /\ Response!Push(e)
    BY <1>3 DEF Response!Begin, Response!Push
  <2>2. /\ l \in Ledgers /\ l.started /\ l.id = ledger.id /\ l.blocks = ledger.blocks
        /\ l.slot = ledger.slot
    BY <1>1 DEF Ledgers
  <2>3. e \in Seq(Events)
    BY <1>1 DEF Response!Start, Events, EventTypes
  <2>4. ASSUME NEW v \in Clients, Mirrors(v, ledger)
        PROVE  Mirrors(Response!Follow(v, e), l)
    <3>1. v.legal /\ v.stops = 0
      BY <2>4 DEF Mirrors
    <3>2. Response!Follow(v, e) = View(v.starts + 1, v.open, v.seen, v.of)
      BY <1>1, <3>1, ReceiveStart, FollowOne
    <3>3. v.starts \in Nat
      BY DEF Clients
    <3> HIDE DEF l, e
    <3> DEFINE n == v.starts + 1
    <3>4. n > 0
      BY <3>3
    <3> HIDE DEF n
    <3>5. Mirrors(View(n, v.open, v.seen, v.of), l)
      BY <2>2, <2>4, <3>4 DEF Mirrors, View, Response!OpenOf
    <3> QED
      BY <3>2, <3>5 DEF n
  <2>5. Usable(l)
    <3>1. Usable(ledger)
      BY <1>1, GoingMirrors
    <3> HIDE DEF l
    <3> QED
      BY <2>2, <3>1 DEF Usable, Response!ToolBlocks
  <2> HIDE DEF l, e
  <2>6. /\ ledger' \in Ledgers /\ ledger'.started /\ ledger'.id = ledger.id /\ Usable(ledger')
        /\ \A v \in Clients : Mirrors(v, ledger) => Mirrors(Response!Follow(v, e), ledger')
    BY <2>1, <2>2, <2>4, <2>5
  <2> QED
    BY <1>1, <2>1, <2>3, <2>6, PushGoesOn
<1> QED
  BY <1>2, <1>3

(* Keepalives and what is released by time are no content.                 *)
LEMMA QuietKeeps ==
  ASSUME StreamIInv, phase \notin {"done", "starting"}, NEW e \in {<<>>, <<Response!Ping>>},
         Response!Release(e),
         RunTypes', outcome' = outcome, ledger' = ledger
  PROVE  StreamIInv'
<1>1. phase # "done" /\ Response!Push(e) /\ ledger.started /\ e \in Seq(Events)
  <2>1. phase # "done" /\ ledger.started
    BY DEF StreamIInv, RunnerShape
  <2>2. Response!Push(e)
    BY DEF Response!Push
  <2>3. <<>> \in Seq(Events)
    OBVIOUS
  <2> QED
    BY <2>1, <2>2, <2>3, PingIsEvent
<1>2. Usable(ledger) /\ ledger \in Ledgers
  BY <1>1, GoingMirrors, StreamFacts
<1>3. \A v \in Clients : Mirrors(v, ledger) => Mirrors(Response!Follow(v, e), ledger)
  <2>1. ASSUME NEW v \in Clients, Mirrors(v, ledger) PROVE Response!Follow(v, e) = v
    BY <1>1, <2>1, FollowNothing, PingMirrors
  <2> QED
    BY <2>1
<1> QED
  BY <1>1, <1>2, <1>3, PushGoesOn

(* The steps while the stream is being opened.                             *)
LEMMA OpeningKeeps ==
  ASSUME StreamIInv, Response!OpenQuiet \/ (\E n \in 1..MaxAttempts : Response!OpenSucceeds(n))
  PROVE  StreamIInv'
<1>1. CASE Response!OpenQuiet
  BY <1>1, StreamFacts, QuietKeeps DEF Response!OpenQuiet, RunTypes
<1>2. ASSUME NEW n \in 1..MaxAttempts, Response!OpenSucceeds(n) PROVE StreamIInv'
  <2>1. RunTypes'
    BY <1>2, StreamFacts, ResponseAssumption
       DEF Response!OpenSucceeds, Response!Spent, RunTypes, Response!Phases
  <2>2. ledger.started
    BY <1>2 DEF Response!OpenSucceeds, StreamIInv, RunnerShape
  <2> QED
    BY <1>2, <2>1, <2>2, StaysQuiet DEF Response!OpenSucceeds
<1> QED
  BY <1>1, <1>2

(* The steps that read the stream.                                         *)
LEMMA ReadingKeeps ==
  ASSUME StreamIInv,
         Response!ReadNothing \/ Response!ReadFinish \/ Response!ReadContent
             \/ Response!HoldbackExpires \/ Response!ReadQuiet \/ Response!StreamEnds
  PROVE  StreamIInv'
<1>0. phase = "reading" /\ phase \notin {"done", "starting"} /\ ledger.started
  BY DEF Response!ReadNothing, Response!ReadFinish, Response!ReadContent,
         Response!HoldbackExpires, Response!ReadQuiet, Response!StreamEnds, StreamIInv,
         RunnerShape
<1>1. CASE Response!ReadNothing
  <2>1. RunTypes'
    BY <1>1, StreamFacts DEF Response!ReadNothing, RunTypes
  <2> QED
    BY <1>0, <1>1, <2>1, StaysQuiet DEF Response!ReadNothing
<1>2. CASE Response!ReadFinish
  <2>1. RunTypes'
    BY <1>2, StreamFacts DEF Response!ReadFinish, RunTypes
  <2> QED
    BY <1>0, <1>2, <2>1, StaysQuiet DEF Response!ReadFinish
<1>3. CASE Response!ReadContent
  <2>1. PICK c \in Response!Contents(ledger) : ledger' = c.state /\ Response!Push(c.events)
    BY <1>3 DEF Response!ReadContent
  <2>2. RunTypes' /\ outcome' = outcome
    BY <1>3, StreamFacts DEF Response!ReadContent, RunTypes
  <2>3. Fit(ledger)
    BY <1>0, StreamFacts, GoingMirrors DEF Fit
  <2>4. Extends(ledger, Response!CloseContent(ledger))
    BY <2>3, CloseContentExtends DEF Response!CloseContent
  <2>5. Extends(ledger, c)
    BY <2>3, <2>4, SayExtends, WriteToolExtends, CallToolExtends DEF Response!Contents
  <2>6. /\ c.events \in Seq(Events) /\ ledger' \in Ledgers /\ ledger'.started
        /\ ledger'.id = ledger.id /\ Usable(ledger')
        /\ \A v \in Clients : Mirrors(v, ledger) => Mirrors(Response!Follow(v, c.events), ledger')
    BY <1>0, <2>1, <2>5 DEF Extends, Shows
  <2> QED
    BY <1>0, <2>1, <2>2, <2>6, PushGoesOn
<1>4. CASE Response!HoldbackExpires
  BY <1>0, <1>4, StreamFacts, QuietKeeps DEF Response!HoldbackExpires, RunTypes
<1>5. CASE Response!ReadQuiet
  BY <1>0, <1>5, StreamFacts, QuietKeeps DEF Response!ReadQuiet, RunTypes
<1>6. CASE Response!StreamEnds
  <2>1. RunTypes'
    BY <1>6, StreamFacts DEF Response!StreamEnds, Response!Drop, RunTypes, Response!Phases
  <2> QED
    BY <1>0, <1>6, <2>1, StaysQuiet DEF Response!StreamEnds
<1> QED
  BY <1>1, <1>2, <1>3, <1>4, <1>5, <1>6

(* A failure for good.                                                     *)
LEMMA GiveUpKeeps ==
  ASSUME StreamIInv, phase \notin {"done", "starting"}, NEW whole, Response!GiveUp(whole),
         RunTypes'
  PROVE  StreamIInv'
<1>1. phase # "done" /\ ledger.started /\ Served /\ ledger \in Ledgers /\ ledger.id \in Nat
  BY StreamFacts DEF StreamIInv, RunnerShape
<1>2. phase' = "done"
  BY DEF Response!GiveUp
<1>3. CASE ~committed /\ ~(held # <<>> /\ whole)
  <2>1. held' = <<>> /\ ledger' = ledger /\ committed' = committed /\ client' = client
    BY <1>3 DEF Response!GiveUp
  <2>2. Unseen(client) /\ client.open = {}
    BY <1>1, <1>3 DEF Served, Unseen
  <2>3. <<>> \in Seq(Events)
    OBVIOUS
  <2>4. Served'
    BY <1>1, <1>3, <2>1, <2>2, <2>3 DEF Served
  <2> QED
    BY <1>1, <1>2, <2>1, <2>2, <2>4, Ends
<1>4. CASE ~(~committed /\ ~(held # <<>> /\ whole))
  <2> DEFINE c == Response!Unwind(ledger)
  <2>1. ledger' = c.state /\ Response!Release(c.events)
    BY <1>4 DEF Response!GiveUp
  <2>2. Shuts(ledger, c)
    BY <1>1, UnwindShuts
  <2> HIDE DEF c
  <2>3. /\ c.events \in Seq(Events) /\ ledger' \in Ledgers /\ ledger'.id = ledger.id
        /\ ledger'.started /\ Response!OpenOf(ledger', Kinds) = {}
        /\ \A v \in Clients : Mirrors(v, ledger) => Mirrors(Response!Follow(v, c.events), ledger')
    BY <1>1, <2>1, <2>2 DEF Shuts, Shows
  <2>4. Served' /\ Mirrors(Response!Follow(client', held'), ledger')
    BY <1>1, <2>1, <2>3, PushMirrors DEF Response!Push
  <2>5. Response!Follow(client', held') = client'
    BY <1>1, <2>1, <2>3, ReleaseFollows
  <2>6. client'.open = {}
    BY <2>3, <2>4, <2>5 DEF Mirrors, Kinds
  <2> QED
    BY <1>2, <2>3, <2>4, <2>6, Ends
<1> QED
  BY <1>3, <1>4

(* The answer begins afresh for a client that has seen no content.         *)
LEMMA FreshGoesOn ==
  ASSUME StreamIInv, phase # "done", RunTypes', outcome' = outcome, phase' = "starting",
         Unseen(client), client' = client, held' = <<>>, committed' = FALSE,
         NEW begun \in BOOLEAN, begun => client.starts > 0,
         ledger' = Response!NewLedger(ledger.id + 1, begun)
  PROVE  StreamIInv'
<1>1. client \in Clients /\ ledger.id + 1 \in Nat /\ outcome' = "none"
  BY GoingMirrors, StreamFacts DEF Served
<1>2. /\ ledger' \in Ledgers /\ Usable(ledger') /\ Mirrors(client, ledger')
  BY <1>1, FreshMirrors
<1>3. Response!Follow(client', held') = client
  BY <1>1, FollowNothing
<1>4. <<>> \in Seq(Events)
  OBVIOUS
<1>5. Served'
  BY <1>1, <1>4 DEF Served, Unseen
<1> QED
  BY <1>1, <1>2, <1>3, <1>5, GoesOn

(* The steps on which the stream has failed.                               *)
LEMMA FailuresKeep ==
  ASSUME StreamIInv,
         Response!Correct \/ \E identity \in BOOLEAN : Response!Replay(identity)
             \/ Response!Recover(identity) \/ Response!Fail(identity)
  PROVE  StreamIInv'
<1>0. phase = "reading" /\ phase \notin {"done", "starting"} /\ phase # "done" /\ ledger.started
  BY DEF Response!Correct, Response!Replay, Response!Recover, Response!Fail, StreamIInv,
         RunnerShape
<1>1. CASE Response!Correct
  <2>1. RunTypes' /\ outcome' = outcome /\ phase' = "starting" /\ client' = client
    BY <1>1, StreamFacts DEF Response!Correct, Response!Drop, RunTypes, Response!Phases
  <2>2. CASE committed
    <3>1. UNCHANGED <<ledger, held, committed, client>>
      BY <1>1, <2>2 DEF Response!Correct
    <3> QED
      BY <1>0, <2>1, <3>1, StaysQuiet
  <2>3. CASE ~committed
    <3>1. ledger' = Response!NewLedger(ledger.id + 1, FALSE) /\ held' = <<>> /\ committed' = FALSE
      BY <1>1, <2>3 DEF Response!Correct
    <3>2. Unseen(client)
      BY <2>3, StreamFacts DEF Served
    <3> QED
      BY <1>0, <2>1, <3>1, <3>2, FreshGoesOn
  <2> QED
    BY <2>2, <2>3
<1>2. ASSUME NEW identity \in BOOLEAN, Response!Replay(identity) PROVE StreamIInv'
  <2>1. /\ RunTypes' /\ outcome' = outcome /\ phase' = "starting" /\ client' = client
        /\ held' = <<>> /\ committed' = FALSE
        /\ ledger' = Response!NewLedger(ledger.id + 1, committed)
    BY <1>2, StreamFacts DEF Response!Replay, Response!StartOver, Response!Drop, RunTypes,
                             Response!Phases
  <2>2. committed \in BOOLEAN /\ (committed => client.starts > 0)
    BY StreamFacts DEF Served
  <2>3. Unseen(client)
    <3>1. CASE ~committed
      BY <3>1, StreamFacts DEF Served
    <3>2. CASE committed
      <4>1. ledger.blocks = <<>>
        BY <1>2, <3>2 DEF Response!Replay, Response!Replayable, Response!Generated
      <4>2. held = <<>> /\ Mirrors(client, ledger)
        BY <1>0, <3>2, GoingMirrors, StreamFacts DEF Served
      <4>3. DOMAIN ledger.blocks = {}
        BY <4>1
      <4>4. Response!OpenOf(ledger, {"thinking", "text", "tool"}) = {}
        BY <4>3 DEF Response!OpenOf
      <4> QED
        BY <4>1, <4>2, <4>3, <4>4 DEF Mirrors, Unseen
    <3> QED
      BY <3>1, <3>2
  <2> QED
    BY <1>0, <2>1, <2>2, <2>3, FreshGoesOn
<1>3. ASSUME NEW identity \in BOOLEAN, Response!Recover(identity) PROVE StreamIInv'
  <2>1. Response!Salvageable(identity) \in BOOLEAN
    BY DEF Response!Salvageable
  <2>2. RunTypes'
    BY <1>3, <2>1, StreamFacts DEF Response!Recover, Response!Drop, RunTypes, Response!Phases
  <2> QED
    BY <1>0, <1>3, <2>2, StaysQuiet DEF Response!Recover
<1>4. ASSUME NEW identity \in BOOLEAN, Response!Fail(identity) PROVE StreamIInv'
  <2>1. RunTypes'
    BY <1>4, StreamFacts DEF Response!Fail, Response!GiveUp, Response!Drop, RunTypes,
                             Response!Phases, Response!Outcomes
  <2> QED
    BY <1>0, <1>4, <2>1, GiveUpKeeps DEF Response!Fail
<1> QED
  BY <1>1, <1>2, <1>3, <1>4

(* Attempts stay within their bound.                                       *)
LEMMA SpentIsTyped ==
  ASSUME StreamIInv, NEW n \in 0..MaxAttempts, Response!Spent(n)
  PROVE  attempts' \in 0..MaxAttempts
BY StreamFacts, ResponseAssumption DEF Response!Spent, RunTypes

(* The stream could not be opened.                                         *)
LEMMA OpenFailsKeeps ==
  ASSUME StreamIInv, NEW n \in 1..MaxAttempts, Response!OpenFails(n)
  PROVE  StreamIInv'
<1>1. phase \notin {"done", "starting"} /\ Response!GiveUp(FALSE)
  BY DEF Response!OpenFails
<1>2. attempts' \in 0..MaxAttempts
  BY SpentIsTyped, ResponseAssumption DEF Response!OpenFails
<1>3. RunTypes'
  BY <1>2, StreamFacts DEF Response!OpenFails, Response!GiveUp, RunTypes, Response!Phases,
                           Response!Outcomes
<1> QED
  BY <1>1, <1>3, GiveUpKeeps

(* A message that is completed.                                            *)
LEMMA CompleteKeeps ==
  ASSUME StreamIInv, phase \notin {"done", "starting"}, phase' = "done", outcome' = "completed",
         RunTypes', NEW c, Extends(ledger, c), c.state.blocks # <<>>,
         ledger' = Response!Complete(c).state, Response!Release(Response!Complete(c).events)
  PROVE  StreamIInv'
<1>1. phase # "done" /\ ledger.started /\ ledger \in Ledgers /\ Fit(ledger)
  BY StreamFacts, GoingMirrors DEF StreamIInv, RunnerShape, Fit
<1>2. /\ Response!Complete(c).events \in Seq(Events)
      /\ ledger' \in Ledgers /\ ledger'.id = ledger.id
      /\ \A v \in Clients : Mirrors(v, ledger)
          => Told(Response!Follow(v, Response!Complete(c).events), ledger.id)
  BY <1>1, CompleteTells
<1>3. Served'
  BY <1>1, <1>2, ReleaseServes
<1> QED
  BY <1>2, <1>3, Ends

(* The stream has ended, and the message with it.                          *)
LEMMA FinishKeeps ==
  ASSUME StreamIInv, Response!Finish
  PROVE  StreamIInv'
<1>1. PICK late \in Response!LateTools(ledger) :
        /\ ledger' = Response!Complete(Response!Then(late, Response!Fill)).state
        /\ Response!Release(Response!Complete(Response!Then(late, Response!Fill)).events)
  BY DEF Response!Finish
<1>2. phase \notin {"done", "starting"} /\ phase' = "done" /\ outcome' = "completed"
  BY DEF Response!Finish
<1>3. Fit(ledger)
  BY <1>2, StreamFacts, GoingMirrors DEF StreamIInv, RunnerShape, Fit
<1>4. Extends(ledger, Response!Then(late, Response!Fill))
      /\ Response!Then(late, Response!Fill).state.blocks # <<>>
  BY <1>3, LateToolsExtend
<1>5. RunTypes'
  BY StreamFacts DEF Response!Finish, RunTypes, Response!Phases, Response!Outcomes
<1> QED
  BY <1>1, <1>2, <1>4, <1>5, CompleteKeeps

(* What a continuation brings extends a ledger.                            *)
LEMMA ContinuationsExtend ==
  ASSUME NEW l, Fit(l), NEW c \in Response!Continuations(l)
  PROVE  Extends(l, c) /\ c.state.blocks # <<>>
<1> DEFINE a == Response!Say(l, "thinking")
           b == Response!Say(a.state, "text")
           d == Response!Change(b.state, a.events \o b.events)
<1>1. Extends(l, a) /\ Fit(a.state)
  BY SayExtends, ExtendsIsFit
<1>2. Response!Then(Response!Say(l, "thinking"), LAMBDA m : Response!Say(m, "text")) = d
  BY DEF Response!Then
<1>3. Extends(l, d) /\ d.state.blocks # <<>>
  <2> HIDE DEF a
  <2>1. Extends(a.state, b) /\ b.state.blocks # <<>>
    BY <1>1, SayExtends
  <2> HIDE DEF b
  <2>2. d.state = b.state
    BY DEF Response!Change
  <2> QED
    BY <1>1, <2>1, <2>2, BothExtend
<1> HIDE DEF a, b, d
<1>4. c = d \/ c \in {Response!Say(l, "thinking"), Response!Say(l, "text"), Response!WriteTool(l)}
        \/ \E t \in Tools : c = Response!CallTool(l, t, "full")
  BY <1>2 DEF Response!Continuations
<1> QED
  BY <1>3, <1>4, SayExtends, WriteToolExtends, CallToolExtends

(* The steps of the recovery task.                                         *)
LEMMA RecoveringKeeps ==
  ASSUME StreamIInv, Response!Recovering
  PROVE  StreamIInv'
<1>0. phase = "recovering" /\ phase \notin {"done", "starting"} /\ phase # "done" /\ Fit(ledger)
  <2>1. phase = "recovering"
    BY DEF Response!Recovering, Response!RecoveryQuiet, Response!RecoverySucceeds,
           Response!RecoveryFails
  <2> QED
    BY <2>1, StreamFacts, GoingMirrors DEF StreamIInv, RunnerShape, Fit
<1>1. CASE Response!RecoveryQuiet
  <2>1. /\ client' = Response!Follow(client, <<Response!Ping>>) /\ committed
        /\ UNCHANGED <<ledger, held, committed>> /\ outcome' = outcome /\ phase' = phase
    BY <1>1 DEF Response!RecoveryQuiet, Response!Received
  <2>2. held = <<>> /\ client \in Clients
    BY <2>1, StreamFacts DEF Served
  <2>3. Mirrors(client, ledger) /\ ledger.started
    BY <1>0, <2>2, GoingMirrors DEF Fit
  <2>4. client' = client
    BY <2>1, <2>2, <2>3, PingMirrors
  <2>5. RunTypes'
    BY <1>1, StreamFacts DEF Response!RecoveryQuiet, RunTypes
  <2> QED
    BY <1>0, <2>1, <2>3, <2>4, <2>5, StaysQuiet
<1>2. ASSUME NEW n \in 0..MaxAttempts, Response!RecoverySucceeds(n) PROVE StreamIInv'
  <2>1. PICK c \in IF Response!ToolBlocks(ledger) # {} THEN {Response!RepairAll(ledger)}
                 ELSE Response!Continuations(ledger) :
          ledger' = Response!Complete(c).state /\ Response!Release(Response!Complete(c).events)
    BY <1>2 DEF Response!RecoverySucceeds
  <2>2. Extends(ledger, c) /\ c.state.blocks # <<>>
    <3>1. CASE Response!ToolBlocks(ledger) # {}
      BY <1>0, <2>1, <3>1, RepairAllExtends
    <3>2. CASE Response!ToolBlocks(ledger) = {}
      BY <1>0, <2>1, <3>2, ContinuationsExtend
    <3> QED
      BY <3>1, <3>2
  <2>3. phase' = "done" /\ outcome' = "completed"
    BY <1>2 DEF Response!RecoverySucceeds
  <2>4. attempts' \in 0..MaxAttempts
    BY <1>2, SpentIsTyped DEF Response!RecoverySucceeds
  <2>5. RunTypes'
    BY <1>2, <2>4, StreamFacts
       DEF Response!RecoverySucceeds, RunTypes, Response!Phases, Response!Outcomes
  <2> QED
    BY <1>0, <2>1, <2>2, <2>3, <2>5, CompleteKeeps
<1>3. ASSUME NEW n \in 0..MaxAttempts, Response!RecoveryFails(n) PROVE StreamIInv'
  <2>1. attempts' \in 0..MaxAttempts
    BY <1>3, SpentIsTyped DEF Response!RecoveryFails
  <2>2. RunTypes'
    BY <1>3, <2>1, StreamFacts DEF Response!RecoveryFails, Response!GiveUp, RunTypes,
                                   Response!Phases, Response!Outcomes
  <2> QED
    BY <1>0, <1>3, <2>2, GiveUpKeeps DEF Response!RecoveryFails
<1> QED
  BY <1>1, <1>2, <1>3 DEF Response!Recovering

(* Every step of the runner.                                               *)
LEMMA RunKeeps ==
  ASSUME StreamIInv, Response!Run
  PROVE  StreamIInv'
<1>1. CASE Response!Opening
  BY <1>1, OpeningKeeps, OpenFailsKeeps DEF Response!Opening
<1>2. CASE Response!Reading
  BY <1>2, ReadingKeeps, FailuresKeep DEF Response!Reading
<1> QED
  BY <1>1, <1>2, BeginKeeps, FinishKeeps, RecoveringKeeps DEF Response!Run

(* The runner is closed from outside.                                      *)
LEMMA AbandonKeeps ==
  ASSUME StreamIInv, NEW as \in {"expired", "cancelled"}, Response!Abandon(as)
  PROVE  StreamIInv'
<1>1. /\ phase' = "done" /\ outcome' = as
      /\ UNCHANGED <<attempts, ledger, held, committed, client, salvage, content>>
      /\ upstream' = FALSE /\ accepted' = FALSE /\ finish' = FALSE
  BY DEF Response!Abandon, Response!Drop
<1>2. RunTypes'
  BY <1>1, StreamFacts DEF RunTypes, Response!Phases, Response!Outcomes
<1>3. Served' /\ ledger' \in Ledgers
  BY <1>1, StreamFacts DEF Served
<1> QED
  BY <1>1, <1>2, <1>3, Ends

(* Nothing happens.                                                        *)
LEMMA VarsKeep ==
  ASSUME StreamIInv, UNCHANGED Response!vars
  PROVE  StreamIInv'
BY DEF StreamIInv, Response!StreamTypeOK, RunnerShape, ClientShape, Response!vars

-----------------------------------------------------------------------------
(* The request around the runner.                                          *)

ServingShape ==
  /\ serving = "waiting" => client.starts = 0
  /\ reply = "json" => /\ serving \in {"releasing", "over"} /\ phase = "done"
                       /\ client = Response!NewClient

RequestTypes ==
  /\ serving \in {"waiting", "streaming", "blocked", "closing", "releasing", "over"}
  /\ reply \in {"none", "json", "stream"}
  /\ frame \in BOOLEAN /\ released \in Nat

(* The inductive invariant.                                                *)
ContractIInv == StreamIInv /\ RequestTypes /\ ServingShape

(* The invariant holds at first.                                           *)
LEMMA ContractInitially ==
  ASSUME Response!RequestInit
  PROVE  ContractIInv
<1>1. /\ phase = "starting" /\ outcome = "none" /\ attempts = 0
      /\ ledger = Response!NewLedger(1, FALSE) /\ held = <<>> /\ committed = FALSE
      /\ client = Response!NewClient /\ salvage = FALSE /\ content = 0
      /\ upstream = FALSE /\ accepted = FALSE /\ finish = FALSE
      /\ serving = "waiting" /\ reply = "none" /\ frame = FALSE /\ released = 0
  BY DEF Response!RequestInit, Response!Init
<1>2. client \in Clients /\ Unseen(client) /\ client.starts = 0 /\ held \in Seq(Events)
  BY <1>1 DEF Response!NewClient, Clients, Unseen
<1>3. /\ ledger \in Ledgers /\ Usable(ledger) /\ Mirrors(client, ledger)
      /\ ledger.started = FALSE
  BY <1>1, <1>2, FreshMirrors
<1>4. Response!Follow(client, held) = client
  BY <1>1, <1>2, FollowNothing
<1>5. RunnerShape
  BY <1>1, <1>3, <1>4 DEF RunnerShape
<1>6. ClientShape
  BY <1>1, <1>2 DEF ClientShape, Unseen
<1>7. Response!StreamTypeOK
  <2>1. ledger.blocks \in Seq(Response!Block)
    BY <1>3, LedgerFields
  <2>2. attempts \in 0 .. MaxAttempts /\ content \in Nat
    BY <1>1, ResponseAssumption
  <2>3. phase \in Response!Phases /\ outcome \in Response!Outcomes
    BY <1>1 DEF Response!Phases, Response!Outcomes
  <2>4. /\ upstream \in BOOLEAN /\ accepted \in BOOLEAN /\ finish \in BOOLEAN
        /\ committed \in BOOLEAN /\ salvage \in BOOLEAN
    BY <1>1, Zenon
  <2> QED
    BY <2>1, <2>2, <2>3, <2>4, Zenon DEF Response!StreamTypeOK
<1> QED
  BY <1>1, <1>2, <1>3, <1>5, <1>6, <1>7 DEF ContractIInv, StreamIInv, RequestTypes, ServingShape

(* Every step of a request keeps the invariant.                            *)
LEMMA ContractStepKeeps ==
  ASSUME ContractIInv, [Response!RequestNext]_replyVars
  PROVE  ContractIInv'
<1>0. StreamIInv /\ RequestTypes /\ ServingShape /\ client \in Clients
  BY DEF ContractIInv, StreamIInv
<1>1. CASE UNCHANGED replyVars
  <2>1. UNCHANGED Response!vars /\ UNCHANGED Response!responseVars
    BY <1>1 DEF replyVars, Response!vars, Response!responseVars
  <2>2. StreamIInv'
    BY <1>0, <2>1, VarsKeep
  <2> QED
    BY <1>0, <1>1, <2>2 DEF ContractIInv, RequestTypes, ServingShape, replyVars
<1>2. CASE Response!RunStep
  <2>1. StreamIInv'
    BY <1>0, <1>2, RunKeeps DEF Response!RunStep
  <2>2. client'.starts \in Nat
    BY <2>1 DEF StreamIInv, Clients
  <2>3. RequestTypes'
    BY <1>0, <1>2 DEF RequestTypes, Response!RunStep, Response!Sends
  <2>4. reply # "json"
    BY <1>0, <1>2 DEF ServingShape, Response!RunStep, Response!Pulling
  <2>5. ServingShape'
    BY <1>0, <1>2, <2>2, <2>4 DEF ServingShape, Response!RunStep, Response!Sends
  <2> QED
    BY <2>1, <2>3, <2>5 DEF ContractIInv
<1>3. CASE Response!ProgressExpires
  <2>1. StreamIInv'
    BY <1>0, <1>3, AbandonKeeps DEF Response!ProgressExpires
  <2>2. client' = client /\ phase' = "done" /\ UNCHANGED Response!responseVars
    BY <1>3 DEF Response!ProgressExpires, Response!Abandon
  <2> QED
    BY <1>0, <2>1, <2>2 DEF ContractIInv, RequestTypes, ServingShape, Response!responseVars
<1>4. CASE Response!FirstEventFails
  <2>1. UNCHANGED Response!vars /\ phase = "done" /\ serving = "waiting"
    BY <1>4 DEF Response!FirstEventFails, Response!Failed
  <2>2. StreamIInv' /\ client' = client /\ phase' = phase
    BY <1>0, <2>1, VarsKeep DEF Response!vars
  <2>3. client.starts = 0 /\ Served
    BY <1>0, <2>1, StreamFacts DEF ServingShape
  <2>4. client = Response!NewClient
    <3>1. Unseen(client)
      BY <1>0, <2>3 DEF Served, Clients
    <3> QED
      BY <1>0, <2>3, <3>1 DEF Unseen, Clients, Response!NewClient
  <2> QED
    BY <1>0, <1>4, <2>1, <2>2, <2>4 DEF ContractIInv, RequestTypes, ServingShape,
                                        Response!FirstEventFails
<1>5. CASE Response!LaterEventFails \/ Response!BodyEnds \/ Response!Leave \/ Response!SendEnds
  <2>1. UNCHANGED Response!vars
    BY <1>5 DEF Response!LaterEventFails, Response!BodyEnds, Response!Leave, Response!SendEnds
  <2>2. StreamIInv' /\ client' = client /\ phase' = phase
    BY <1>0, <2>1, VarsKeep DEF Response!vars
  <2>3. serving \in {"waiting", "streaming", "blocked"} /\ reply # "json" /\ reply' = reply
    BY <1>0, <1>5 DEF ServingShape, Response!LaterEventFails, Response!BodyEnds, Response!Leave,
                      Response!SendEnds, Response!Pulling
  <2> QED
    BY <1>0, <1>5, <2>2, <2>3 DEF ContractIInv, RequestTypes, ServingShape, Response!Sends,
                                  Response!LaterEventFails, Response!BodyEnds, Response!Leave,
                                  Response!SendEnds
<1>6. CASE Response!CloseBody
  <2>1. StreamIInv' /\ client' = client
    <3>1. CASE phase = "done"
      <4>1. UNCHANGED Response!vars
        BY <1>6, <3>1 DEF Response!CloseBody
      <4> QED
        BY <1>0, <4>1, VarsKeep DEF Response!vars
    <3>2. CASE phase # "done"
      <4>1. Response!Abandon("cancelled")
        BY <1>6, <3>2 DEF Response!CloseBody
      <4> QED
        BY <1>0, <4>1, AbandonKeeps DEF Response!Abandon
    <3> QED
      BY <3>1, <3>2
  <2> QED
    BY <1>0, <1>6, <2>1 DEF ContractIInv, RequestTypes, ServingShape, Response!CloseBody
<1>7. CASE Response!ReleaseLease
  <2>1. UNCHANGED Response!vars
    BY <1>7 DEF Response!ReleaseLease
  <2>2. StreamIInv' /\ client' = client /\ phase' = phase
    BY <1>0, <2>1, VarsKeep DEF Response!vars
  <2> QED
    BY <1>0, <1>7, <2>2 DEF ContractIInv, RequestTypes, ServingShape, Response!ReleaseLease
<1> QED
  BY <1>1, <1>2, <1>3, <1>4, <1>5, <1>6, <1>7 DEF Response!RequestNext

(* While a request is the component that runs, its invariant holds.        *)
ContractShape == component = "response" => ContractIInv

(* The client of a response never sees a stream that breaks the contract,  *)
(* and sees the content of one upstream answer only, whatever the runner   *)
(* held back, replayed, continued or repaired, for any number of attempts, *)
(* of tool calls and of chunks; a provider failure leaves no block open,   *)
(* and a JSON error goes to a client that has seen nothing.                *)
THEOREM ContractCorrect ==
  MCSpec => []ContractKept
<1>1. MCInit => ContractShape
  BY ContractInitially DEF MCInit, ContractShape
<1>2. ContractShape /\ [MCNext]_allVars => ContractShape'
  <2> SUFFICES ASSUME ContractShape, [MCNext]_allVars, component' = "response"
               PROVE  ContractIInv'
    BY DEF ContractShape
  <2>1. component = "response" /\ ContractIInv
    BY DEF MCNext, allVars, ContractShape
  <2>2. [Response!RequestNext]_replyVars
    BY <2>1 DEF MCNext, allVars
  <2> QED
    BY <2>1, <2>2, ContractStepKeeps
<1>3. ContractShape => ContractKept
  <2> SUFFICES ASSUME ContractIInv
               PROVE  Response!TypeOK /\ Response!ContractKept /\ Response!OneAnswer
    BY DEF ContractShape, ContractKept
  <2>1. StreamIInv /\ RequestTypes /\ ServingShape
    BY DEF ContractIInv
  <2>2. Response!TypeOK
    BY <2>1 DEF StreamIInv, RequestTypes, Response!TypeOK
  <2>3. Response!ContractKept
    BY <2>1 DEF StreamIInv, ClientShape, ServingShape, Response!ContractKept
  <2>4. Response!OneAnswer
    BY <2>1 DEF StreamIInv, ClientShape, Response!OneAnswer
  <2> QED
    BY <2>2, <2>3, <2>4
<1> QED
  BY <1>1, <1>2, <1>3, PTL DEF MCSpec

-----------------------------------------------------------------------------
(* Hedged opens.                                                           *)

(* The types of the opens, and of the key pool.                            *)
OpensOK ==
  /\ opening \in [Opens -> {"admitted", "quiet", "alone", "racing", "sequential", "lingering",
                            "calling", "streaming", "idle", "cleaning", "cancelled"}]
  /\ task \in [Opens -> [{1, 2} -> {"none", "running", "opened", "refused", "limited", "failed"}]]
  /\ key \in [Opens -> [{1, 2} -> Keys \cup {NONE}]]
  /\ losers \in [Opens -> SUBSET {1, 2}]
  /\ extra \in [Opens -> {0, 1}]
  /\ tries \in [Opens -> 0 .. Cardinality(Keys)]
  /\ permits \in Nat

PoolOK ==
  /\ idleOrder \in Seq(Keys) /\ Len(idleOrder) = Cardinality(Keys)
  /\ \A k \in Keys : \E i \in DOMAIN idleOrder : idleOrder[i] = k
  /\ sent \in [Keys -> 0 .. RateLimit]
  /\ strikes \in [Keys -> 0 .. MaxFailures]
  /\ retired \subseteq Keys /\ cooling \subseteq Keys

(* Where an open is tells which of its racers run or are left to the       *)
(* cleanup, and whether it holds the extra slot.                           *)
OpenShape(o) ==
  /\ \A i \in {1, 2} : task[o][i] # "none" => key[o][i] \in Keys
  /\ opening[o] \in {"idle", "admitted", "sequential", "lingering"} => task[o][1] = "none"
  /\ opening[o] \in {"quiet", "alone", "calling"} => task[o][1] # "none"
  /\ opening[o] \in {"idle", "admitted", "sequential", "lingering", "quiet", "alone",
                     "calling"} =>
       task[o][2] = "none" /\ losers[o] = {} /\ extra[o] = 0
  /\ opening[o] = "racing" =>
       /\ task[o][1] # "none" \/ task[o][2] # "none"
       /\ losers[o] = {}
       /\ extra[o] = 1 <=> task[o][1] # "none" /\ task[o][2] # "none"
  /\ opening[o] \in {"streaming", "cleaning", "cancelled"} =>
       \A i \in {1, 2} : i \in losers[o] <=> task[o][i] # "none"
  /\ opening[o] \in {"streaming", "cleaning"} =>
       losers[o] # {1, 2} /\ (extra[o] = 1 <=> losers[o] # {})
  /\ opening[o] \in {"cleaning", "cancelled"} => losers[o] # {}

(* The inductive invariant.                                                *)
HedgeIInv ==
  OpensOK /\ PoolOK /\ Hedge!SlotsAccounted /\ \A o \in Opens : OpenShape(o)

(* The slots that an open holds.                                           *)
Holds(o) == (IF opening[o] \in {"idle", "cleaning", "cancelled"} THEN 0 ELSE 1) + extra[o]

(* What a step that concerns the open "o" alone has to respect.            *)
Respects(o) ==
  /\ OpensOK' /\ PoolOK'
  /\ \A p \in Opens \ {o} : /\ opening'[p] = opening[p] /\ task'[p] = task[p]
                            /\ key'[p] = key[p] /\ losers'[p] = losers[p]
                            /\ extra'[p] = extra[p]
  /\ permits' + Holds(o)' = permits + Holds(o)
  /\ OpenShape(o)'

(* One element more or less counts as one.                                 *)
LEMMA CountChanges ==
  ASSUME NEW S, NEW T, NEW o, IsFiniteSet(S), IsFiniteSet(T), S \ {o} = T \ {o}
  PROVE  /\ Cardinality(S) \in Nat /\ Cardinality(T) \in Nat
         /\ Cardinality(T) = Cardinality(S) + (IF o \in T THEN 1 ELSE 0)
                                            - (IF o \in S THEN 1 ELSE 0)
<1>1. Cardinality(S) \in Nat /\ Cardinality(T) \in Nat
  BY FS_CardinalityType
<1>2. Cardinality(S \ {o}) = IF o \in S THEN Cardinality(S) - 1 ELSE Cardinality(S)
  BY FS_RemoveElement
<1>3. Cardinality(T \ {o}) = IF o \in T THEN Cardinality(T) - 1 ELSE Cardinality(T)
  BY FS_RemoveElement
<1> QED
  BY <1>1, <1>2, <1>3

(* The instance counts as this module does.                                *)
LEMMA HedgeCounts ==
  \A S : Hedge!Cardinality(S) = Cardinality(S)
BY Zenon DEF Cardinality, Hedge!Cardinality

(* A step that respects its open keeps the account of all slots.           *)
LEMMA RespectIsEnough ==
  ASSUME HedgeIInv, NEW o \in Opens, Respects(o)
  PROVE  HedgeIInv'
<1> DEFINE
  A == {p \in Opens : opening[p] \notin {"idle", "cleaning", "cancelled"}}
  B == {p \in Opens : opening'[p] \notin {"idle", "cleaning", "cancelled"}}
  C == {p \in Opens : extra[p] = 1}
  D == {p \in Opens : extra'[p] = 1}
<1>1. IsFiniteSet(A) /\ IsFiniteSet(B) /\ IsFiniteSet(C) /\ IsFiniteSet(D)
  BY HedgeAssumption, FS_Subset
<1>2. A \ {o} = B \ {o} /\ C \ {o} = D \ {o}
  BY DEF Respects
<1>3. extra[o] \in {0, 1} /\ extra'[o] \in {0, 1} /\ permits \in Nat /\ permits' \in Nat
  BY DEF Respects, HedgeIInv, OpensOK
<1>4. permits + Cardinality(A) + Cardinality(C) = Slots
  BY HedgeCounts DEF HedgeIInv, Hedge!SlotsAccounted, Hedge!Admitted, Hedge!AtRest
<1>5. /\ Cardinality(A) \in Nat /\ Cardinality(B) \in Nat
      /\ Cardinality(B) = Cardinality(A) + (IF o \in B THEN 1 ELSE 0) - (IF o \in A THEN 1 ELSE 0)
  BY <1>1, <1>2, CountChanges
<1>6. /\ Cardinality(C) \in Nat /\ Cardinality(D) \in Nat
      /\ Cardinality(D) = Cardinality(C) + (IF o \in D THEN 1 ELSE 0) - (IF o \in C THEN 1 ELSE 0)
  BY <1>1, <1>2, CountChanges
<1>7. permits' + (IF o \in B THEN 1 ELSE 0) + (IF o \in D THEN 1 ELSE 0)
        = permits + (IF o \in A THEN 1 ELSE 0) + (IF o \in C THEN 1 ELSE 0)
  BY <1>3 DEF Respects, Holds
<1>8. permits' + Cardinality(B) + Cardinality(D) = Slots
  BY <1>3, <1>4, <1>5, <1>6, <1>7
<1>9. Hedge!SlotsAccounted'
  BY <1>8, HedgeCounts DEF Hedge!SlotsAccounted, Hedge!Admitted, Hedge!AtRest
<1>10. \A p \in Opens : OpenShape(p)'
  BY DEF Respects, HedgeIInv, OpenShape
<1> QED
  BY <1>9, <1>10 DEF HedgeIInv, Respects

-----------------------------------------------------------------------------
(* The key pool.                                                           *)

(* A set of numbers that is not empty has a least element.                 *)
LEMMA LeastExists ==
  ASSUME NEW T \in SUBSET Nat, T # {}
  PROVE  Hedge!Min(T) \in T /\ \A y \in T : Hedge!Min(T) <= y
<1> DEFINE R == {p \in Nat \X Nat : p[1] < p[2]}
<1>1. IsWellFoundedOn(R, Nat)
  BY NatLessThanWellFounded, Zenon DEF OpToRel
<1> HIDE DEF R
<1>2. PICK x \in T : \A y \in T : ~ (<<y, x>> \in R)
  BY <1>1, WFMin, Zenon
<1>3. ASSUME NEW y \in T
      PROVE  x <= y
  <2>1. ~ (<<y, x>> \in R) /\ <<y, x>> \in Nat \X Nat /\ x \in Nat /\ y \in Nat
    BY <1>2
  <2> QED
    BY <2>1 DEF R
<1> QED
  BY <1>3 DEF Hedge!Min

(* get_next_key finds a key with room in its window, or none.              *)
LEMMA NextKeyFits ==
  ASSUME PoolOK, NEW excluded, Hedge!NextKey(excluded) # NONE
  PROVE  /\ Hedge!NextKey(excluded) \in Keys
         /\ sent[Hedge!NextKey(excluded)] < RateLimit
<1> DEFINE T == {i \in DOMAIN idleOrder :
                   /\ Hedge!Usable(idleOrder[i]) /\ idleOrder[i] \notin excluded
                   /\ sent[idleOrder[i]] < RateLimit}
<1>1. Hedge!NextKey(excluded) = IF T = {} THEN NONE ELSE idleOrder[Hedge!Min(T)]
  BY DEF Hedge!NextKey, Hedge!KeyAt
<1>2. T # {} /\ T \in SUBSET Nat
  <2>1. T # {}
    BY <1>1, Zenon
  <2>2. DOMAIN idleOrder \subseteq Nat
    BY DEF PoolOK
  <2> QED
    BY <2>1, <2>2
<1>3. Hedge!Min(T) \in T
  BY <1>2, LeastExists
<1>4. \A i \in T : /\ i \in DOMAIN idleOrder
                   /\ idleOrder[i] \in Keys /\ sent[idleOrder[i]] < RateLimit
  BY DEF PoolOK
<1> HIDE DEF T
<1> QED
  BY <1>1, <1>2, <1>3, <1>4

(* A reservation puts the key at the end of the order and counts one send. *)
LEMMA ReserveKeeps ==
  ASSUME PoolOK, NEW k \in Keys, sent[k] < RateLimit, Hedge!Reserve(k)
  PROVE  PoolOK'
<1>1. PICK i \in DOMAIN idleOrder :
        idleOrder[i] = k /\ idleOrder' = Append(Hedge!RemoveAt(idleOrder, i), k)
  BY DEF Hedge!Reserve
<1> DEFINE n == Len(idleOrder)
           s == idleOrder
           r == Hedge!RemoveAt(idleOrder, i)
<1>2. n \in Nat /\ i \in 1 .. n /\ s \in Seq(Keys) /\ \A j \in 1 .. n : s[j] \in Keys
  BY DEF PoolOK
<1>3. /\ SubSeq(s, 1, i - 1) \in Seq(Keys) /\ Len(SubSeq(s, 1, i - 1)) = i - 1
      /\ \A j \in 1 .. i - 1 : SubSeq(s, 1, i - 1)[j] = s[j]
  BY <1>2
<1>4. /\ SubSeq(s, i + 1, n) \in Seq(Keys) /\ Len(SubSeq(s, i + 1, n)) = n - i
      /\ \A j \in 1 .. n - i : SubSeq(s, i + 1, n)[j] = s[i + j]
  BY <1>2
<1>5. r = SubSeq(s, 1, i - 1) \o SubSeq(s, i + 1, n)
  BY DEF Hedge!RemoveAt
<1> HIDE DEF r, s, n
<1>6. /\ r \in Seq(Keys) /\ Len(r) = n - 1
      /\ \A j \in 1 .. i - 1 : r[j] = s[j]
      /\ \A j \in i .. n - 1 : r[j] = s[j + 1]
  <2> DEFINE s1 == SubSeq(s, 1, i - 1)
             s2 == SubSeq(s, i + 1, n)
  <2>0. /\ s1 \in Seq(Keys) /\ s2 \in Seq(Keys) /\ r = s1 \o s2
        /\ Len(s1) = i - 1 /\ Len(s2) = n - i
    BY <1>3, <1>4, <1>5
  <2> HIDE DEF s1, s2
  <2>1. r \in Seq(Keys) /\ Len(r) = n - 1
    <3>0. s1 \in Seq(Keys) /\ s2 \in Seq(Keys)
      BY <2>0
    <3>1. s1 \o s2 \in Seq(Keys) /\ Len(s1 \o s2) = Len(s1) + Len(s2)
      BY <3>0, ConcatProperties
    <3> QED
      BY <1>2, <2>0, <3>1
  <2>2. \A j \in 1 .. n - 1 : r[j] = IF j <= i - 1 THEN s1[j] ELSE s2[j - (i - 1)]
    BY <1>2, <2>0
  <2>3. ASSUME NEW j \in i .. n - 1
        PROVE  r[j] = s[j + 1]
    <3>1. j - (i - 1) \in 1 .. n - i /\ ~(j <= i - 1) /\ j \in 1 .. n - 1
      BY <1>2
    <3>2. r[j] = s2[j - (i - 1)]
      BY <2>2, <3>1
    <3>3. i + (j - (i - 1)) = j + 1
      BY <1>2
    <3> QED
      BY <3>1, <3>2, <3>3, <1>4 DEF s2
  <2>4. \A j \in 1 .. i - 1 : r[j] = s[j]
    BY <1>2, <1>3, <2>2 DEF s1
  <2> QED
    BY <2>1, <2>3, <2>4
<1>7. /\ idleOrder' \in Seq(Keys) /\ Len(idleOrder') = n
      /\ \A j \in 1 .. n - 1 : idleOrder'[j] = r[j]
      /\ idleOrder'[n] = k
  BY <1>1, <1>2, <1>6 DEF r
<1>8. ASSUME NEW m \in Keys
      PROVE  \E j \in DOMAIN idleOrder' : idleOrder'[j] = m
  <2>1. PICK j \in 1 .. n : s[j] = m
    BY DEF PoolOK, s, n
  <2>2. CASE m = k
    BY <1>2, <1>7, <2>2
  <2>3. CASE m # k /\ j < i
    BY <1>2, <1>6, <1>7, <2>1, <2>3
  <2>4. CASE m # k /\ j > i
    <3>1. j - 1 \in i .. n - 1 /\ j - 1 \in 1 .. n
      BY <1>2, <2>1, <2>4
    <3>2. idleOrder'[j - 1] = s[j]
      BY <1>6, <1>7, <3>1, <1>2, <2>1
    <3> QED
      BY <3>1, <3>2, <2>1, <1>7, <1>2
  <2>5. m # k => j # i
    BY <1>1, <2>1 DEF s
  <2> QED
    BY <2>2, <2>3, <2>4, <2>5, <1>2, <2>1
<1>9. sent' \in [Keys -> 0 .. RateLimit]
  <2>1. sent[k] \in Nat /\ sent[k] + 1 \in 0 .. RateLimit
    <3>1. sent[k] \in 0 .. RateLimit /\ sent[k] < RateLimit /\ RateLimit \in Nat
      BY HedgeAssumption DEF PoolOK
    <3> QED
      BY <3>1
  <2>2. sent' = [sent EXCEPT ![k] = sent[k] + 1] /\ sent \in [Keys -> 0 .. RateLimit]
    BY DEF PoolOK, Hedge!Reserve
  <2> QED
    BY <2>1, <2>2
<1> QED
  BY <1>7, <1>8, <1>9 DEF PoolOK, Hedge!Reserve, n

(* mark_succeeded, mark_failed and mark_rate_limited stay within bounds.   *)
LEMMA JudgeKeeps ==
  ASSUME PoolOK, NEW k \in Keys, NEW result, Hedge!Judge(k, result)
  PROVE  PoolOK'
<1>1. strikes[k] \in Nat /\ strikes[k] + 1 \in Nat
  BY HedgeAssumption DEF PoolOK
<1>2. Hedge!Min({strikes[k] + 1, MaxFailures}) \in 0 .. MaxFailures
  <2>1. {strikes[k] + 1, MaxFailures} \in SUBSET Nat
    BY <1>1, HedgeAssumption
  <2>2. Hedge!Min({strikes[k] + 1, MaxFailures}) <= MaxFailures
    BY <2>1, LeastExists
  <2>3. Hedge!Min({strikes[k] + 1, MaxFailures}) \in Nat
    BY <2>1, LeastExists
  <2> QED
    BY <2>2, <2>3, HedgeAssumption
<1>3. strikes' \in [Keys -> 0 .. MaxFailures]
  BY <1>2, HedgeAssumption DEF PoolOK, Hedge!Judge
<1>4. UNCHANGED <<idleOrder, sent>> /\ retired' \subseteq Keys /\ cooling' \subseteq Keys
  BY DEF PoolOK, Hedge!Judge
<1> QED
  BY <1>3, <1>4 DEF PoolOK

-----------------------------------------------------------------------------
(* The steps of an open.                                                   *)

LEMMA OpenAttemptRespects ==
  ASSUME HedgeIInv, NEW o \in Opens, Hedge!OpenAttempt(o)
  PROVE  Respects(o)
<1>0. /\ permits' = permits - 1 /\ permits \in Nat /\ permits > 0
      /\ opening' = [opening EXCEPT ![o] = "admitted"]
      /\ UNCHANGED <<task, key, losers, extra, tries, idleOrder, sent, strikes, retired, cooling>>
  BY DEF HedgeIInv, OpensOK, Hedge!OpenAttempt, Hedge!pool
<1>a. PoolOK'
  BY <1>0 DEF HedgeIInv, PoolOK
<1>b. permits' \in Nat
  BY <1>0
<1>1. OpensOK' /\ PoolOK'
  BY <1>0, <1>a, <1>b DEF HedgeIInv, OpensOK
<1>2. OpenShape(o)' /\ permits' + Holds(o)' = permits + Holds(o)
  BY DEF HedgeIInv, OpensOK, OpenShape, Holds, Hedge!OpenAttempt
<1> QED
  BY <1>1, <1>2 DEF Respects, HedgeIInv, OpensOK, Hedge!OpenAttempt

LEMMA RacerEndsRespects ==
  ASSUME HedgeIInv, NEW o \in Opens, NEW i \in {1, 2}, NEW result \in Hedge!Results,
         Hedge!RacerEnds(o, i, result)
  PROVE  Respects(o)
<1>1. OpensOK' /\ PoolOK'
  BY DEF HedgeIInv, OpensOK, PoolOK, Hedge!RacerEnds, Hedge!pool, Hedge!Results
<1>2. OpenShape(o)' /\ permits' + Holds(o)' = permits + Holds(o)
  BY DEF HedgeIInv, OpensOK, OpenShape, Holds, Hedge!RacerEnds, Hedge!Results
<1> QED
  BY <1>1, <1>2 DEF Respects, HedgeIInv, OpensOK, Hedge!RacerEnds

LEMMA CloseStreamRespects ==
  ASSUME HedgeIInv, NEW o \in Opens, Hedge!CloseStream(o)
  PROVE  Respects(o)
<1>1. OpensOK' /\ PoolOK'
  BY DEF HedgeIInv, OpensOK, PoolOK, Hedge!CloseStream, Hedge!pool
<1>2. OpenShape(o)' /\ permits' + Holds(o)' = permits + Holds(o)
  BY DEF HedgeIInv, OpensOK, OpenShape, Holds, Hedge!CloseStream
<1> QED
  BY <1>1, <1>2 DEF Respects, HedgeIInv, OpensOK, Hedge!CloseStream

(* Every key in turn may be tried.                                         *)
LEMMA TriesFit ==
  Cardinality(Keys) \in Nat /\ Hedge!Cardinality(Keys) \in 0 .. Cardinality(Keys)
BY HedgeAssumption, FS_CardinalityType, HedgeCounts

LEMMA StartHedgedRespects ==
  ASSUME HedgeIInv, NEW o \in Opens, Hedge!StartHedged(o)
  PROVE  Respects(o)
<1>1. CASE Hedge!NextKey({}) = NONE
  <2>1. OpensOK' /\ PoolOK'
    BY <1>1, TriesFit DEF HedgeIInv, OpensOK, PoolOK, Hedge!StartHedged, Hedge!pool,
                          Hedge!TurnSequential
  <2>2. OpenShape(o)' /\ permits' + Holds(o)' = permits + Holds(o)
    BY <1>1 DEF HedgeIInv, OpensOK, OpenShape, Holds, Hedge!StartHedged, Hedge!TurnSequential
  <2> QED
    BY <1>1, <2>1, <2>2 DEF Respects, HedgeIInv, OpensOK, Hedge!StartHedged, Hedge!TurnSequential
<1>2. CASE Hedge!NextKey({}) # NONE
  <2> DEFINE k == Hedge!NextKey({})
  <2>1. PoolOK /\ k \in Keys /\ sent[k] < RateLimit
    BY <1>2, NextKeyFits DEF HedgeIInv
  <2> HIDE DEF k
  <2>2. Hedge!StartOn(o, 1, k, "quiet") /\ opening[o] = "admitted"
        /\ UNCHANGED <<losers, extra, permits, tries>>
    BY <1>2 DEF Hedge!StartHedged, k
  <2>3. PoolOK'
    BY <2>1, <2>2, ReserveKeeps DEF Hedge!StartOn
  <2>4. OpensOK'
    BY <2>1, <2>2 DEF HedgeIInv, OpensOK, Hedge!StartOn
  <2>5. OpenShape(o)' /\ permits' + Holds(o)' = permits + Holds(o)
    BY <2>1, <2>2 DEF HedgeIInv, OpensOK, OpenShape, Holds, Hedge!StartOn
  <2> QED
    BY <2>2, <2>3, <2>4, <2>5 DEF Respects, HedgeIInv, OpensOK, Hedge!StartOn
<1> QED
  BY <1>1, <1>2

LEMMA HedgeRespects ==
  ASSUME HedgeIInv, NEW o \in Opens, Hedge!Hedge(o)
  PROVE  Respects(o)
<1> DEFINE k == Hedge!NextKey({key[o][1]})
<1>1. CASE /\ k # NONE /\ permits > 0 /\ Hedge!StartOn(o, 2, k, "racing")
           /\ extra' = [extra EXCEPT ![o] = @ + 1] /\ permits' = permits - 1
  <2>1. PoolOK /\ k \in Keys /\ sent[k] < RateLimit
    BY <1>1, NextKeyFits DEF HedgeIInv
  <2> HIDE DEF k
  <2>2. opening[o] = "quiet" /\ UNCHANGED <<losers, tries>>
    BY DEF Hedge!Hedge
  <2>3. PoolOK'
    BY <2>1, <1>1, ReserveKeeps DEF Hedge!StartOn
  <2>4. extra[o] = 0
    BY <2>2 DEF HedgeIInv, OpenShape
  <2>5. OpensOK'
    BY <1>1, <2>1, <2>2, <2>4 DEF HedgeIInv, OpensOK, Hedge!StartOn
  <2>6. OpenShape(o)' /\ permits' + Holds(o)' = permits + Holds(o)
    BY <1>1, <2>1, <2>2 DEF HedgeIInv, OpensOK, OpenShape, Holds, Hedge!StartOn
  <2> QED
    BY <1>1, <2>2, <2>3, <2>5, <2>6 DEF Respects, HedgeIInv, OpensOK, Hedge!StartOn
<1>2. CASE opening' = [opening EXCEPT ![o] = "alone"]
           /\ UNCHANGED <<task, key, extra, permits, Hedge!pool>>
  <2>1. opening[o] = "quiet" /\ UNCHANGED <<losers, tries>>
    BY DEF Hedge!Hedge
  <2>2. OpensOK' /\ PoolOK'
    BY <1>2, <2>1 DEF HedgeIInv, OpensOK, PoolOK, Hedge!pool
  <2>3. OpenShape(o)' /\ permits' + Holds(o)' = permits + Holds(o)
    BY <1>2, <2>1 DEF HedgeIInv, OpensOK, OpenShape, Holds
  <2> QED
    BY <1>2, <2>1, <2>2, <2>3 DEF Respects, HedgeIInv, OpensOK
<1> QED
  BY <1>1, <1>2 DEF Hedge!Hedge

LEMMA RacerCancelledRespects ==
  ASSUME HedgeIInv, NEW o \in Opens, NEW i \in {1, 2}, Hedge!RacerCancelled(o, i)
  PROVE  Respects(o)
<1>1. CASE losers'[o] = {}
  <2>1. OpensOK' /\ PoolOK'
    <3>1. PoolOK' /\ tries' = tries
      BY DEF HedgeIInv, PoolOK, Hedge!RacerCancelled, Hedge!pool
    <3>2. /\ permits' = permits + extra[o] /\ permits \in Nat /\ extra[o] \in Nat
          /\ extra' = [extra EXCEPT ![o] = 0]
      <4>1. permits' = permits + extra[o] /\ extra' = [extra EXCEPT ![o] = 0]
        BY <1>1, Zenon DEF Hedge!RacerCancelled
      <4>2. permits \in Nat /\ extra[o] \in {0, 1}
        BY Zenon DEF HedgeIInv, OpensOK
      <4> QED
        BY <4>1, <4>2
    <3>3. opening' = [opening EXCEPT ![o] = IF opening[o] \in {"idle", "cleaning", "cancelled"}
                                            THEN "idle" ELSE opening[o]]
      BY <1>1 DEF Hedge!RacerCancelled, Hedge!AtRest
    <3>4. /\ task' = [task EXCEPT ![o][i] = "none"] /\ key' = [key EXCEPT ![o][i] = NONE]
          /\ losers' = [losers EXCEPT ![o] = losers[o] \ {i}]
      BY DEF Hedge!RacerCancelled
    <3> QED
      BY <3>1, <3>2, <3>3, <3>4 DEF HedgeIInv, OpensOK
  <2>2. OpenShape(o)' /\ permits' + Holds(o)' = permits + Holds(o)
    BY <1>1 DEF HedgeIInv, OpensOK, OpenShape, Holds, Hedge!RacerCancelled, Hedge!AtRest
  <2> QED
    BY <1>1, <2>1, <2>2 DEF Respects, HedgeIInv, OpensOK, Hedge!RacerCancelled
<1>2. CASE losers'[o] # {}
  <2>1. OpensOK' /\ PoolOK'
    BY <1>2 DEF HedgeIInv, OpensOK, PoolOK, Hedge!RacerCancelled, Hedge!pool
  <2>2. OpenShape(o)' /\ permits' + Holds(o)' = permits + Holds(o)
    BY <1>2 DEF HedgeIInv, OpensOK, OpenShape, Holds, Hedge!RacerCancelled
  <2> QED
    BY <1>2, <2>1, <2>2 DEF Respects, HedgeIInv, OpensOK, Hedge!RacerCancelled
<1> QED
  BY <1>1, <1>2

LEMMA SoleRacerDoneRespects ==
  ASSUME HedgeIInv, NEW o \in Opens, Hedge!SoleRacerDone(o)
  PROVE  Respects(o)
<1>0. /\ opening[o] \in {"quiet", "alone"} /\ key[o][1] \in Keys
      /\ task[o][2] = "none" /\ losers[o] = {} /\ extra[o] = 0
  BY DEF HedgeIInv, OpenShape, Hedge!SoleRacerDone, Hedge!Results
<1>1. PoolOK'
  BY <1>0, JudgeKeeps DEF HedgeIInv, Hedge!SoleRacerDone
<1>2. CASE Hedge!LeaveRace(o, {}, "streaming") /\ UNCHANGED tries
  <2>1. OpensOK'
    BY <1>0, <1>2 DEF HedgeIInv, OpensOK, Hedge!SoleRacerDone, Hedge!Forget, Hedge!LeaveRace,
                      Hedge!AtRest
  <2>2. OpenShape(o)' /\ permits' + Holds(o)' = permits + Holds(o)
    BY <1>0, <1>2 DEF HedgeIInv, OpensOK, OpenShape, Holds, Hedge!SoleRacerDone, Hedge!Forget,
                      Hedge!LeaveRace, Hedge!AtRest
  <2> QED
    BY <1>1, <1>2, <2>1, <2>2 DEF Respects, HedgeIInv, OpensOK, Hedge!SoleRacerDone, Hedge!Forget,
                                  Hedge!LeaveRace
<1>3. CASE Hedge!LeaveRace(o, {}, "idle") /\ UNCHANGED tries
  <2>1. OpensOK'
    BY <1>0, <1>3 DEF HedgeIInv, OpensOK, Hedge!SoleRacerDone, Hedge!Forget, Hedge!LeaveRace,
                      Hedge!AtRest
  <2>2. OpenShape(o)' /\ permits' + Holds(o)' = permits + Holds(o)
    BY <1>0, <1>3 DEF HedgeIInv, OpensOK, OpenShape, Holds, Hedge!SoleRacerDone, Hedge!Forget,
                      Hedge!LeaveRace, Hedge!AtRest
  <2> QED
    BY <1>1, <1>3, <2>1, <2>2 DEF Respects, HedgeIInv, OpensOK, Hedge!SoleRacerDone, Hedge!Forget,
                                  Hedge!LeaveRace
<1>4. CASE Hedge!TurnSequential(o) /\ UNCHANGED <<losers, extra, permits>>
  <2>1. OpensOK'
    BY <1>0, <1>4, TriesFit DEF HedgeIInv, OpensOK, Hedge!SoleRacerDone, Hedge!Forget,
                                Hedge!TurnSequential
  <2>2. OpenShape(o)' /\ permits' + Holds(o)' = permits + Holds(o)
    BY <1>0, <1>4 DEF HedgeIInv, OpensOK, OpenShape, Holds, Hedge!SoleRacerDone, Hedge!Forget,
                      Hedge!TurnSequential
  <2> QED
    BY <1>1, <1>4, <2>1, <2>2 DEF Respects, HedgeIInv, OpensOK, Hedge!SoleRacerDone, Hedge!Forget,
                                  Hedge!TurnSequential
<1> QED
  BY <1>2, <1>3, <1>4 DEF Hedge!SoleRacerDone

LEMMA RacerDoneRespects ==
  ASSUME HedgeIInv, NEW o \in Opens, NEW i \in {1, 2}, Hedge!RacerDone(o, i)
  PROVE  Respects(o)
<1> DEFINE left == Hedge!Running(o) \ {i}
           j    == 3 - i
<1>0. /\ opening[o] = "racing" /\ key[o][i] \in Keys /\ losers[o] = {}
      /\ task[o][i] # "none" /\ extra[o] \in {0, 1}
      /\ extra[o] = 1 <=> task[o][j] # "none"
      /\ j \in {1, 2} /\ j # i /\ \A m \in {1, 2} : m = i \/ m = j
  BY DEF HedgeIInv, OpensOK, OpenShape, Hedge!RacerDone, Hedge!Results
<1>1. PoolOK'
  BY <1>0, JudgeKeeps DEF HedgeIInv, Hedge!RacerDone
<1>2. left = IF extra[o] = 1 THEN {j} ELSE {}
  BY <1>0 DEF Hedge!Running, Hedge!Racers
<1>3. Hedge!Cardinality(left) = IF extra[o] = 1 THEN 1 ELSE 0
  BY <1>2, HedgeCounts, FS_EmptySet, FS_Singleton
<1>4. task' = [task EXCEPT ![o][i] = "none"] /\ key' = [key EXCEPT ![o][i] = NONE]
  BY DEF Hedge!RacerDone, Hedge!Forget
<1> HIDE DEF j, left
<1>5. CASE Hedge!LeaveRace(o, left, "streaming") /\ UNCHANGED tries
  <2>1. OpensOK'
    BY <1>0, <1>2, <1>4, <1>5 DEF HedgeIInv, OpensOK, Hedge!LeaveRace, Hedge!AtRest
  <2>2. OpenShape(o)' /\ permits' + Holds(o)' = permits + Holds(o)
    <3>1. /\ opening' = [opening EXCEPT ![o] = "streaming"]
          /\ losers' = [losers EXCEPT ![o] = left]
          /\ extra' = [extra EXCEPT ![o] = IF left = {} THEN 0 ELSE extra[o]]
          /\ permits' = permits + (IF left = {} THEN extra[o] ELSE 0) + 0
      BY <1>5 DEF Hedge!LeaveRace, Hedge!AtRest
    <3>2. CASE extra[o] = 1
      <4>1. /\ opening'[o] = "streaming" /\ losers'[o] = {j} /\ extra'[o] = 1
            /\ permits' = permits + 0 + 0 /\ permits \in Nat
        BY <1>2, <3>1, <3>2 DEF HedgeIInv, OpensOK
      <4>2. /\ task'[o][i] = "none" /\ task'[o][j] = task[o][j] /\ key'[o][j] = key[o][j]
            /\ task[o][j] # "none" /\ key[o][j] \in Keys
        BY <1>0, <1>4, <3>2 DEF HedgeIInv, OpensOK, OpenShape
      <4>3. OpenShape(o)'
        BY <1>0, <4>1, <4>2 DEF OpenShape
      <4> QED
        BY <1>0, <3>2, <4>1, <4>3 DEF Holds
    <3>3. CASE extra[o] = 0
      BY <1>0, <1>2, <1>4, <3>1, <3>3 DEF HedgeIInv, OpensOK, OpenShape, Holds
    <3> QED
      BY <1>0, <3>2, <3>3
  <2> QED
    BY <1>1, <1>4, <1>5, <2>1, <2>2 DEF Respects, HedgeIInv, OpensOK, Hedge!LeaveRace
<1>6. CASE left = {} /\ Hedge!LeaveRace(o, {}, "idle") /\ UNCHANGED tries
  <2>1. OpensOK'
    BY <1>0, <1>2, <1>4, <1>6 DEF HedgeIInv, OpensOK, Hedge!LeaveRace, Hedge!AtRest
  <2>2. OpenShape(o)' /\ permits' + Holds(o)' = permits + Holds(o)
    BY <1>0, <1>2, <1>4, <1>6 DEF HedgeIInv, OpensOK, OpenShape, Holds, Hedge!LeaveRace,
                                  Hedge!AtRest
  <2> QED
    BY <1>1, <1>4, <1>6, <2>1, <2>2 DEF Respects, HedgeIInv, OpensOK, Hedge!LeaveRace
<1>7. CASE left = {} /\ Hedge!TurnSequential(o) /\ UNCHANGED <<losers, extra, permits>>
  <2>1. OpensOK'
    BY <1>0, <1>2, <1>4, <1>7, TriesFit DEF HedgeIInv, OpensOK, Hedge!TurnSequential
  <2>2. OpenShape(o)' /\ permits' + Holds(o)' = permits + Holds(o)
    BY <1>0, <1>2, <1>4, <1>7 DEF HedgeIInv, OpensOK, OpenShape, Holds, Hedge!TurnSequential
  <2> QED
    BY <1>1, <1>4, <1>7, <2>1, <2>2 DEF Respects, HedgeIInv, OpensOK, Hedge!TurnSequential
<1>8. CASE /\ left # {} /\ UNCHANGED <<opening, losers, tries>>
           /\ extra' = [extra EXCEPT ![o] = 0] /\ permits' = permits + 1
  <2>1. OpensOK'
    BY <1>0, <1>4, <1>8 DEF HedgeIInv, OpensOK
  <2>2. OpenShape(o)' /\ permits' + Holds(o)' = permits + Holds(o)
    BY <1>0, <1>2, <1>4, <1>8 DEF HedgeIInv, OpensOK, OpenShape, Holds
  <2> QED
    BY <1>1, <1>4, <1>8, <2>1, <2>2 DEF Respects, HedgeIInv, OpensOK
<1>9. \/ Hedge!LeaveRace(o, left, "streaming") /\ UNCHANGED tries
      \/ /\ left # {} /\ UNCHANGED <<opening, losers, tries>>
         /\ extra' = [extra EXCEPT ![o] = 0] /\ permits' = permits + 1
      \/ left = {} /\ Hedge!LeaveRace(o, {}, "idle") /\ UNCHANGED tries
      \/ left = {} /\ Hedge!TurnSequential(o) /\ UNCHANGED <<losers, extra, permits>>
  <2>1. left # {} => extra[o] = 1 /\ Hedge!Cardinality(left) = 1 /\ extra[o] - 1 = 0
    BY <1>0, <1>2, <1>3
  <2>2. CASE task[o][i] = "opened"
    BY <2>2 DEF Hedge!RacerDone, left
  <2>3. CASE task[o][i] # "opened" /\ left # {}
    <3>1. /\ UNCHANGED <<opening, losers, tries>>
          /\ extra' = [extra EXCEPT ![o] = extra[o] - 1] /\ permits' = permits + 1
      BY <2>1, <2>3 DEF Hedge!RacerDone, left
    <3> QED
      BY <2>1, <2>3, <3>1
  <2>4. CASE task[o][i] = "failed" /\ left = {}
    BY <2>4 DEF Hedge!RacerDone, left
  <2>5. CASE task[o][i] \notin {"opened", "failed"} /\ left = {}
    BY <2>5 DEF Hedge!RacerDone, left
  <2> QED
    BY <2>2, <2>3, <2>4, <2>5
<1> QED
  BY <1>5, <1>6, <1>7, <1>8, <1>9

LEMMA SequentialTryRespects ==
  ASSUME HedgeIInv, NEW o \in Opens, Hedge!SequentialTry(o)
  PROVE  Respects(o)
<1> DEFINE k == Hedge!NextKey({})
<1>0. opening[o] \in {"sequential", "lingering"} /\ UNCHANGED <<losers, extra>>
  BY DEF Hedge!SequentialTry
<1>1. CASE /\ tries[o] > 0 /\ k # NONE /\ Hedge!StartOn(o, 1, k, "calling")
           /\ tries' = [tries EXCEPT ![o] = @ - 1] /\ UNCHANGED permits
  <2>1. PoolOK /\ k \in Keys /\ sent[k] < RateLimit
    BY <1>1, NextKeyFits DEF HedgeIInv
  <2> HIDE DEF k
  <2>2. PoolOK'
    BY <2>1, <1>1, ReserveKeeps DEF Hedge!StartOn
  <2>3. tries[o] - 1 \in 0 .. Cardinality(Keys)
    BY <1>1, TriesFit DEF HedgeIInv, OpensOK
  <2>4. OpensOK'
    BY <1>0, <1>1, <2>1, <2>3 DEF HedgeIInv, OpensOK, Hedge!StartOn
  <2>5. OpenShape(o)' /\ permits' + Holds(o)' = permits + Holds(o)
    BY <1>0, <1>1, <2>1 DEF HedgeIInv, OpensOK, OpenShape, Holds, Hedge!StartOn
  <2> QED
    BY <1>0, <1>1, <2>2, <2>4, <2>5 DEF Respects, HedgeIInv, OpensOK, Hedge!StartOn
<1>2. CASE opening' = [opening EXCEPT ![o] = "lingering"]
           /\ UNCHANGED <<task, key, tries, permits, Hedge!pool>>
  <2>1. OpensOK' /\ PoolOK'
    <3>1. PoolOK'
      BY <1>2 DEF HedgeIInv, PoolOK, Hedge!pool
    <3>2. OpensOK'
      BY <1>0, <1>2 DEF HedgeIInv, OpensOK
    <3> QED
      BY <3>1, <3>2
  <2>2. OpenShape(o)' /\ permits' + Holds(o)' = permits + Holds(o)
    BY <1>0, <1>2 DEF HedgeIInv, OpensOK, OpenShape, Holds
  <2> QED
    BY <1>0, <1>2, <2>1, <2>2 DEF Respects, HedgeIInv, OpensOK
<1>3. CASE opening' = [opening EXCEPT ![o] = "idle"] /\ permits' = permits + 1
           /\ UNCHANGED <<task, key, tries, Hedge!pool>>
  <2>1. OpensOK' /\ PoolOK'
    <3>1. PoolOK'
      BY <1>3 DEF HedgeIInv, PoolOK, Hedge!pool
    <3>2. OpensOK'
      BY <1>0, <1>3 DEF HedgeIInv, OpensOK
    <3> QED
      BY <3>1, <3>2
  <2>2. OpenShape(o)' /\ permits' + Holds(o)' = permits + Holds(o)
    BY <1>0, <1>3 DEF HedgeIInv, OpensOK, OpenShape, Holds
  <2> QED
    BY <1>0, <1>3, <2>1, <2>2 DEF Respects, HedgeIInv, OpensOK
<1> QED
  BY <1>1, <1>2, <1>3 DEF Hedge!SequentialTry

LEMMA SequentialDoneRespects ==
  ASSUME HedgeIInv, NEW o \in Opens, Hedge!SequentialDone(o)
  PROVE  Respects(o)
<1>0. /\ opening[o] = "calling" /\ key[o][1] \in Keys
      /\ task[o][2] = "none" /\ losers[o] = {} /\ extra[o] = 0
      /\ task' = [task EXCEPT ![o][1] = "none"] /\ key' = [key EXCEPT ![o][1] = NONE]
  BY DEF HedgeIInv, OpenShape, Hedge!SequentialDone, Hedge!Results, Hedge!Forget
<1>1. PoolOK'
  BY <1>0, JudgeKeeps DEF HedgeIInv, Hedge!SequentialDone
<1>2. OpensOK'
  BY <1>0 DEF HedgeIInv, OpensOK, Hedge!SequentialDone
<1>3. OpenShape(o)' /\ permits' + Holds(o)' = permits + Holds(o)
  BY <1>0 DEF HedgeIInv, OpensOK, OpenShape, Holds, Hedge!SequentialDone
<1> QED
  BY <1>0, <1>1, <1>2, <1>3 DEF Respects, HedgeIInv, OpensOK, Hedge!SequentialDone

LEMMA CancelRespects ==
  ASSUME HedgeIInv, NEW o \in Opens, Hedge!Cancel(o)
  PROVE  Respects(o)
<1>0. PoolOK' /\ UNCHANGED tries
  BY DEF HedgeIInv, PoolOK, Hedge!Cancel, Hedge!pool
<1>1. CASE /\ opening[o] \in {"quiet", "alone", "racing"}
           /\ Hedge!LeaveRace(o, Hedge!Running(o), "cancelled") /\ UNCHANGED <<task, key>>
  <2> DEFINE left == Hedge!Running(o)
  <2>1. losers[o] = {} /\ extra[o] \in {0, 1}
    BY <1>1 DEF HedgeIInv, OpensOK, OpenShape
  <2>2. left # {} /\ left \subseteq {1, 2} /\ \A i \in {1, 2} : i \in left <=> task[o][i] # "none"
    BY <1>1, <2>1 DEF HedgeIInv, OpenShape, Hedge!Running, Hedge!Racers
  <2> HIDE DEF left
  <2>3. /\ opening' = [opening EXCEPT ![o] = "cancelled"]
        /\ losers' = [losers EXCEPT ![o] = left]
        /\ extra' = [extra EXCEPT ![o] = extra[o]]
        /\ permits' = permits + 1
    <3>1. /\ opening' = [opening EXCEPT ![o] = "cancelled"]
          /\ losers' = [losers EXCEPT ![o] = left]
          /\ extra' = [extra EXCEPT ![o] = extra[o]]
          /\ permits' = permits + 0 + 1
      BY <1>1, <2>2 DEF Hedge!LeaveRace, Hedge!AtRest, left
    <3>2. permits \in Nat
      BY DEF HedgeIInv, OpensOK
    <3> QED
      BY <3>1, <3>2
  <2>4. OpensOK'
    BY <1>0, <1>1, <2>1, <2>2, <2>3 DEF HedgeIInv, OpensOK
  <2>5. OpenShape(o)' /\ permits' + Holds(o)' = permits + Holds(o)
    BY <1>0, <1>1, <2>1, <2>2, <2>3 DEF HedgeIInv, OpensOK, OpenShape, Holds
  <2> QED
    BY <1>0, <1>1, <2>1, <2>3, <2>4, <2>5 DEF Respects, HedgeIInv, OpensOK
<1>2. CASE /\ opening[o] \in {"admitted", "sequential", "lingering", "calling"}
           /\ Hedge!Forget(o, 1) /\ Hedge!LeaveRace(o, {}, "idle")
  <2>1. losers[o] = {} /\ extra[o] = 0
    BY <1>2 DEF HedgeIInv, OpenShape
  <2>2. OpensOK'
    BY <1>0, <1>2, <2>1 DEF HedgeIInv, OpensOK, Hedge!Forget, Hedge!LeaveRace, Hedge!AtRest
  <2>3. OpenShape(o)' /\ permits' + Holds(o)' = permits + Holds(o)
    BY <1>0, <1>2, <2>1 DEF HedgeIInv, OpensOK, OpenShape, Holds, Hedge!Forget, Hedge!LeaveRace,
                            Hedge!AtRest
  <2> QED
    BY <1>0, <1>2, <2>1, <2>2, <2>3 DEF Respects, HedgeIInv, OpensOK, Hedge!Forget,
                                        Hedge!LeaveRace
<1> QED
  BY <1>1, <1>2 DEF Hedge!Cancel

(* Every step of an open respects it.                                      *)
LEMMA OpenStepRespects ==
  ASSUME HedgeIInv, NEW o \in Opens, Hedge!OpenStep(o)
  PROVE  Respects(o)
<1>1. CASE \E i \in Hedge!Racers : \/ Hedge!RacerDone(o, i) \/ Hedge!RacerCancelled(o, i)
                                   \/ \E result \in Hedge!Results : Hedge!RacerEnds(o, i, result)
  BY <1>1, RacerDoneRespects, RacerCancelledRespects, RacerEndsRespects DEF Hedge!Racers
<1> QED
  BY <1>1, OpenAttemptRespects, StartHedgedRespects, HedgeRespects, SoleRacerDoneRespects,
     SequentialTryRespects, SequentialDoneRespects, CloseStreamRespects, CancelRespects
     DEF Hedge!OpenStep

(* A hold or an entry of a window that expires concerns the pool only.     *)
LEMMA TimeKeeps ==
  ASSUME HedgeIInv, NEW k \in Keys, Hedge!HoldExpires(k) \/ Hedge!WindowMoves(k)
  PROVE  HedgeIInv'
<1>1. UNCHANGED <<opening, task, key, losers, extra, tries, permits>>
  BY DEF Hedge!HoldExpires, Hedge!WindowMoves, Hedge!open
<1>2. PoolOK'
  <2>1. CASE Hedge!HoldExpires(k)
    BY <2>1 DEF HedgeIInv, PoolOK, Hedge!HoldExpires
  <2>2. CASE Hedge!WindowMoves(k)
    <3>1. sent[k] - 1 \in 0 .. RateLimit
      BY <2>2, HedgeAssumption DEF HedgeIInv, PoolOK, Hedge!WindowMoves
    <3> QED
      BY <2>2, <3>1 DEF HedgeIInv, PoolOK, Hedge!WindowMoves
  <2> QED
    BY <2>1, <2>2
<1>3. Hedge!SlotsAccounted'
  BY <1>1 DEF HedgeIInv, Hedge!SlotsAccounted, Hedge!Admitted
<1>4. OpensOK' /\ \A o \in Opens : OpenShape(o)'
  BY <1>1 DEF HedgeIInv, OpensOK, OpenShape
<1> QED
  BY <1>2, <1>3, <1>4 DEF HedgeIInv

(* Every step keeps the invariant.                                         *)
LEMMA HedgeStepKeeps ==
  ASSUME HedgeIInv, [Hedge!HedgeNext]_hedgeVars
  PROVE  HedgeIInv'
<1>1. CASE UNCHANGED hedgeVars
  <2>1. UNCHANGED <<opening, task, key, losers, extra, tries, permits>>
    BY <1>1 DEF hedgeVars
  <2>2. PoolOK'
    BY <1>1 DEF HedgeIInv, PoolOK, hedgeVars
  <2>3. Hedge!SlotsAccounted'
    BY <2>1 DEF HedgeIInv, Hedge!SlotsAccounted, Hedge!Admitted
  <2>4. OpensOK' /\ \A o \in Opens : OpenShape(o)'
    BY <2>1 DEF HedgeIInv, OpensOK, OpenShape
  <2> QED
    BY <2>2, <2>3, <2>4 DEF HedgeIInv
<1>2. CASE \E o \in Opens : Hedge!OpenStep(o)
  BY <1>2, OpenStepRespects, RespectIsEnough
<1>3. CASE \E k \in Keys : Hedge!HoldExpires(k) \/ Hedge!WindowMoves(k)
  BY <1>3, TimeKeeps
<1> QED
  BY <1>1, <1>2, <1>3 DEF Hedge!HedgeNext

(* The pool begins with every key in its order once.                       *)
LEMMA HedgeInitially ==
  ASSUME Hedge!Init
  PROVE  HedgeIInv
<1>1. Cardinality(Keys) \in Nat /\ ExistsBijection(1 .. Cardinality(Keys), Keys)
  BY HedgeAssumption, FS_CardinalityType
<1>2. PICK f \in [1 .. Cardinality(Keys) -> Keys] :
        /\ \A a, b \in 1 .. Cardinality(Keys) : f[a] = f[b] => a = b
        /\ \A k \in Keys : \E a \in 1 .. Cardinality(Keys) : f[a] = k
  BY <1>1 DEF ExistsBijection, Bijection, Injection, IsInjective, Surjection
<1>3. /\ idleOrder \in [1 .. Cardinality(Keys) -> Keys]
      /\ \A a, b \in 1 .. Cardinality(Keys) : idleOrder[a] = idleOrder[b] => a = b
  <2>1. f \in [1 .. Cardinality(Keys) -> Keys] /\ Hedge!IsInjective(f)
    BY <1>2 DEF Hedge!IsInjective
  <2>2. idleOrder = CHOOSE g \in [1 .. Cardinality(Keys) -> Keys] : Hedge!IsInjective(g)
    BY HedgeCounts, Zenon DEF Hedge!Init, Hedge!SetToSeq
  <2>3. idleOrder \in [1 .. Cardinality(Keys) -> Keys] /\ Hedge!IsInjective(idleOrder)
    BY <2>1, <2>2, Zenon
  <2> QED
    BY <2>3 DEF Hedge!IsInjective
<1>4. \A k \in Keys : \E i \in 1 .. Cardinality(Keys) : idleOrder[i] = k
  <2>1. idleOrder \in Injection(1 .. Cardinality(Keys), Keys)
    BY <1>3 DEF Injection, IsInjective
  <2>2. /\ IsFiniteSet(1 .. Cardinality(Keys))
        /\ Cardinality(1 .. Cardinality(Keys)) = Cardinality(Keys)
    BY <1>1, FS_Interval
  <2>3. idleOrder \in Surjection(1 .. Cardinality(Keys), Keys)
    BY <2>1, <2>2, FS_Injection, HedgeAssumption
  <2> QED
    BY <2>3 DEF Surjection
<1>5. PoolOK
  <2>1. idleOrder \in Seq(Keys) /\ Len(idleOrder) = Cardinality(Keys)
    BY <1>1, <1>3
  <2> QED
    BY <1>1, <1>3, <1>4, <2>1, HedgeAssumption DEF PoolOK, Hedge!Init
<1>6. OpensOK
  BY <1>1, HedgeAssumption DEF OpensOK, Hedge!Init, Hedge!Racers
<1>7. \A o \in Opens : OpenShape(o)
  BY DEF OpenShape, Hedge!Init, Hedge!Racers
<1>8. Hedge!SlotsAccounted
  <2>1. Hedge!Admitted = {} /\ {o \in Opens : extra[o] = 1} = {}
    BY DEF Hedge!Admitted, Hedge!AtRest, Hedge!Init
  <2> QED
    <3>1. Hedge!Cardinality({}) = 0 /\ permits = Slots /\ Slots \in Nat
      BY HedgeCounts, FS_EmptySet, HedgeAssumption DEF Hedge!Init
    <3>2. permits + Hedge!Cardinality(Hedge!Admitted)
            + Hedge!Cardinality({o \in Opens : extra[o] = 1}) = permits + 0 + 0
      BY <2>1, <3>1
    <3> QED
      BY <3>1, <3>2 DEF Hedge!SlotsAccounted
<1> QED
  BY <1>5, <1>6, <1>7, <1>8 DEF HedgeIInv

(* An open has a slot for each of its calls.                               *)
LEMMA CallsCovered ==
  ASSUME HedgeIInv
  PROVE  Hedge!CallsHaveSlots
<1> SUFFICES ASSUME NEW o \in Opens, opening[o] # "cancelled"
             PROVE  Hedge!Cardinality({i \in {1, 2} : task[o][i] # "none"})
                      + (IF opening[o] = "streaming" THEN 1 ELSE 0)
                      <= (IF opening[o] \notin {"idle", "cleaning", "cancelled"} THEN 1 ELSE 0)
                           + extra[o]
  BY DEF Hedge!CallsHaveSlots, Hedge!Racers, Hedge!Admitted, Hedge!AtRest
<1> DEFINE live == {i \in {1, 2} : task[o][i] # "none"}
<1>1. Hedge!Cardinality({}) = 0 /\ Hedge!Cardinality({1}) = 1 /\ Hedge!Cardinality({2}) = 1
  BY HedgeCounts, FS_EmptySet, FS_Singleton
<1>2. Hedge!Cardinality({1, 2}) = 2
  <2>1. Cardinality({1} \cup {2}) = Cardinality({1}) + 1
    <3>1. IsFiniteSet({1})
      BY FS_Singleton, Zenon
    <3>2. 2 \notin {1}
      OBVIOUS
    <3> QED
      BY <3>1, <3>2, FS_AddElement
  <2>2. Cardinality({1}) = 1 /\ {1} \cup {2} = {1, 2}
    BY FS_Singleton
  <2> QED
    BY <2>1, <2>2, HedgeCounts
<1>3. live = IF task[o][1] # "none" THEN IF task[o][2] # "none" THEN {1, 2} ELSE {1}
             ELSE IF task[o][2] # "none" THEN {2} ELSE {}
  OBVIOUS
<1>4. Hedge!Cardinality(live) = (IF task[o][1] # "none" THEN 1 ELSE 0)
                              + (IF task[o][2] # "none" THEN 1 ELSE 0)
  BY <1>1, <1>2, <1>3
<1> HIDE DEF live
<1>5. Hedge!Cardinality(live) + (IF opening[o] = "streaming" THEN 1 ELSE 0)
        <= (IF opening[o] \notin {"idle", "cleaning", "cancelled"} THEN 1 ELSE 0) + extra[o]
  BY <1>4 DEF HedgeIInv, OpensOK, OpenShape
<1> QED
  BY <1>5 DEF live

(* While hedged opens are the component that runs, their invariant holds.  *)
HedgeShape == component = "hedge" => HedgeIInv

(* The slots a hedged open takes are returned once, whichever way the race *)
(* ends, and not before the racer they are for is gone.                    *)
THEOREM HedgeCorrect ==
  MCSpec => []HedgeSlotsReturn
<1>1. MCInit => HedgeShape
  BY HedgeInitially DEF MCInit, HedgeShape
<1>2. HedgeShape /\ [MCNext]_allVars => HedgeShape'
  <2> SUFFICES ASSUME HedgeShape, [MCNext]_allVars, component' = "hedge"
               PROVE  HedgeIInv'
    BY DEF HedgeShape
  <2>1. component = "hedge" /\ HedgeIInv
    BY DEF MCNext, allVars, HedgeShape
  <2>2. [Hedge!HedgeNext]_hedgeVars
    BY <2>1 DEF MCNext, allVars
  <2> QED
    BY <2>1, <2>2, HedgeStepKeeps
<1>3. HedgeShape => HedgeSlotsReturn
  <2> SUFFICES ASSUME HedgeIInv PROVE Hedge!TypeOK /\ Hedge!HedgeSlotsReturn
    BY DEF HedgeShape, HedgeSlotsReturn
  <2>1. Hedge!HedgeSlotsReturn
    BY CallsCovered DEF HedgeIInv, Hedge!HedgeSlotsReturn
  <2>2. Hedge!ToSet(idleOrder) = Keys /\ Len(idleOrder) = Hedge!Cardinality(Keys)
    BY HedgeCounts DEF HedgeIInv, PoolOK, Hedge!ToSet
  <2> QED
    BY <2>1, <2>2, HedgeCounts DEF HedgeIInv, OpensOK, PoolOK, Hedge!TypeOK, Hedge!Racers,
                                   Hedge!Results, Hedge!AtRest
<1> QED
  BY <1>1, <1>2, <1>3, PTL DEF MCSpec

=============================================================================
