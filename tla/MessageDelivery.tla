-------------------------- MODULE MessageDelivery --------------------------
(***************************************************************************)
(* The queued delivery of one messaging platform: the requests that the    *)
(* workflow and the status editor make of the outbox, the background tasks *)
(* that see fire-and-forget requests through, and the one worker of the    *)
(* limiter, with its compacting queue of keys.                             *)
(*                                                                         *)
(* The requests of a key are the edits of one message; a send has a key of *)
(* its own.  A flood wait, the rate window and the platform's own retries  *)
(* only take time: the worker is busy with one request meanwhile.  A       *)
(* section under the condition's lock, which nobody holds across an await, *)
(* is one step with what leads to it.  The event loop runs what has become *)
(* ready in that order.                                                    *)
(***************************************************************************)
EXTENDS Naturals, Sequences, FiniteSets
LOCAL INSTANCE SequencesExt

CONSTANTS
  Requests,    \* 1 .. n, in the order of those of one key
  Keys,        \* dedup keys
  KeyOf,       \* the key of a request
  Awaited,     \* requests whose caller waits: enqueue
  Forced,      \* requests of the editor with force=True
  MaxRetries   \* max_retries of fire_and_forget

VARIABLES
  task,        \* where the caller or the background task of a request is
  text,        \* the request whose text it delivers: itself, unless it is a recovery
  number,      \* generation of a fire-and-forget request
  numbers,     \* _fire_and_forget_generations: the last one of a key, or 0
  attempts,    \* retries that it has made
  answer,      \* its future, as long as somebody may ask
  ready,       \* requests whose task or caller the loop is about to run
  queue,       \* _queue_list
  func,        \* the request whose function _queue_map has, or 0
  futures,     \* the requests whose futures it has, in order
  worker,      \* the worker task
  current,     \* the request whose function it has taken, or 0
  active,      \* _active_futures
  shown,       \* the request whose text the message of a key shows, or 0
  pending,     \* _pending_display of the message's editor, or 0
  recoveries,  \* its _terminal_recovery_attempts
  recovery,    \* the text its recovery task is about to queue, or 0
  closing      \* how far the platform's close has come

requests == <<task, text, number, numbers, attempts, answer, ready>>
pipeline == <<queue, func, futures, worker, current, active>>
editor   == <<pending, recoveries, recovery>>
deliveryVars == <<requests, pipeline, editor, shown, closing>>

OfKey(k) == {r \in Requests : KeyOf[r] = k}
Refused  == {"transient", "fatal", "cancelled"}

DeliveryInit ==
  /\ task = [r \in Requests |-> "unissued"] /\ text = [r \in Requests |-> r]
  /\ number = [r \in Requests |-> 0] /\ numbers = [k \in Keys |-> 0]
  /\ attempts = [r \in Requests |-> 0] /\ answer = [r \in Requests |-> "none"] /\ ready = <<>>
  /\ queue = <<>> /\ func = [k \in Keys |-> 0] /\ futures = [k \in Keys |-> <<>>]
  /\ worker = "idle" /\ current = 0 /\ active = <<>>
  /\ shown = [k \in Keys |-> 0]
  /\ pending = [k \in Keys |-> 0] /\ recoveries = [k \in Keys |-> 0] /\ recovery = [k \in Keys |-> 0]
  /\ closing = "no"

-----------------------------------------------------------------------------
(* The limiter's queue.                                                    *)

(* The latest function replaces one that waits, and takes over the futures.*)
Enqueue(r) ==
  LET k == KeyOf[r] IN
  /\ queue' = IF func[k] = 0 THEN Append(queue, k) ELSE queue
  /\ func' = [func EXCEPT ![k] = r]
  /\ futures' = [futures EXCEPT ![k] = Append(@, r)]
  /\ answer' = [answer EXCEPT ![r] = "pending"]
  /\ task' = [task EXCEPT ![r] = "waiting"]

(* A fire-and-forget request gets a number and a task.                     *)
Launch(r, content) ==
  LET k == KeyOf[r] IN
  /\ numbers' = [numbers EXCEPT ![k] = @ + 1]
  /\ number' = [number EXCEPT ![r] = numbers'[k]]
  /\ text' = [text EXCEPT ![r] = content]
  /\ task' = [task EXCEPT ![r] = "created"]
  /\ ready' = Append(ready, r)

IsCurrent(r) == numbers[KeyOf[r]] = number[r]

(* The loop runs the first task that is ready.                             *)
Runs(r) == ready # <<>> /\ r = Head(ready) /\ ready' = Tail(ready)

(* A task ends: the finally clause of _wrapped.                            *)
EndTask(r) ==
  /\ task' = [task EXCEPT ![r] = "done"]
  /\ numbers' = IF IsCurrent(r) THEN [numbers EXCEPT ![KeyOf[r]] = 0] ELSE numbers

NextOf(k) == {r \in OfKey(k) : task[r] = "unissued" /\ \A q \in OfKey(k) : task[q] = "unissued" => r <= q}

-----------------------------------------------------------------------------
(* Requests, refused once close has begun.                                 *)

(* A caller waits for a send, or for the first edit of a status message.   *)
Request(r) ==
  /\ closing = "no" /\ r \in Awaited /\ r \in NextOf(KeyOf[r])
  /\ Enqueue(r)
  /\ UNCHANGED <<text, number, numbers, attempts, ready, worker, current, active, editor, shown, closing>>

(* Its caller is cancelled; the function stays where it is.                *)
CallerCancelled(r) ==
  /\ r \in Awaited /\ answer[r] = "pending"
  /\ task' = [task EXCEPT ![r] = "done"]
  /\ answer' = [answer EXCEPT ![r] = "none"]
  /\ UNCHANGED <<text, number, numbers, attempts, ready, pipeline, editor, shown, closing>>

(* ThrottledTranscriptEditor.update, with a text that is new.              *)
Update(r) ==
  /\ closing = "no" /\ r \notin Awaited /\ r \in NextOf(KeyOf[r])
  /\ Launch(r, r)
  /\ pending' = [pending EXCEPT ![KeyOf[r]] = r]
  /\ recoveries' = [recoveries EXCEPT ![KeyOf[r]] = 0]
  /\ UNCHANGED <<attempts, answer, pipeline, recovery, shown, closing>>

(* _retry_display, a task of the outbox, queues the text once more.        *)
Recover(r) ==
  LET k == KeyOf[r] IN
  /\ closing = "no" /\ r \notin Awaited /\ r \in NextOf(k) /\ recovery[k] # 0
  /\ Launch(r, recovery[k])
  /\ recovery' = [recovery EXCEPT ![k] = 0]
  /\ UNCHANGED <<attempts, answer, pipeline, pending, recoveries, shown, closing>>

-----------------------------------------------------------------------------
(* The background task of a fire-and-forget request.                       *)

(* The pause before a retry is over.                                       *)
Wakes(r) ==
  /\ task[r] = "sleeping" /\ task' = [task EXCEPT ![r] = "woken"]
  /\ ready' = Append(ready, r)
  /\ UNCHANGED <<text, number, numbers, attempts, answer, pipeline, editor, shown, closing>>

(* Slip: a retry does not look whether it is still wanted.                 *)
TaskInsists(r) ==
  /\ Runs(r) /\ task[r] \in {"created", "woken"}
  /\ IF IsCurrent(r) \/ task[r] = "woken"
     THEN Enqueue(r) /\ UNCHANGED <<numbers, worker, current, active>>
     ELSE EndTask(r) /\ UNCHANGED <<answer, pipeline>>
  /\ UNCHANGED <<text, number, attempts, editor, shown, closing>>

(* It starts, or tries again, and gives way to a newer request.            *)
TaskProceeds(r) ==
  /\ Runs(r) /\ task[r] \in {"created", "woken"}
  /\ IF IsCurrent(r)
     THEN Enqueue(r) /\ UNCHANGED <<numbers, worker, current, active>>
     ELSE EndTask(r) /\ UNCHANGED <<answer, pipeline>>
  /\ UNCHANGED <<text, number, attempts, editor, shown, closing>>

MayRetry(r) == answer[r] = "transient" /\ attempts[r] < MaxRetries

(* The answer has come: a call that waited returns or raises.              *)
Answered(r) ==
  /\ Runs(r) /\ task[r] = "waiting"
  /\ \/ /\ r \in Awaited
        /\ task' = [task EXCEPT ![r] = "done"] /\ answer' = [answer EXCEPT ![r] = "none"]
        /\ UNCHANGED numbers
     \/ /\ r \notin Awaited /\ (answer[r] \in {"ok", "cancelled"} \/ ~IsCurrent(r))
        /\ EndTask(r) /\ UNCHANGED answer
  /\ UNCHANGED <<text, number, attempts, pipeline, editor, shown, closing>>

Retries(r) ==
  /\ Runs(r) /\ task[r] = "waiting" /\ r \notin Awaited /\ MayRetry(r) /\ IsCurrent(r)
  /\ task' = [task EXCEPT ![r] = "sleeping"]
  /\ attempts' = [attempts EXCEPT ![r] = @ + 1]
  /\ UNCHANGED <<text, number, numbers, answer, pipeline, editor, shown, closing>>

(* The last failure is reported; the editor tries a forced text once more, *)
(* if no newer one is pending and the outbox is open.                      *)
GivesUp(r) ==
  LET k == KeyOf[r]
      recoverable == r \in Forced /\ text[r] = r /\ pending[k] = r /\ recoveries[k] = 0
  IN
  /\ Runs(r) /\ task[r] = "waiting" /\ r \notin Awaited
  /\ answer[r] \in {"transient", "fatal"} /\ ~MayRetry(r) /\ IsCurrent(r)
  /\ EndTask(r)
  /\ recoveries' = IF recoverable THEN [recoveries EXCEPT ![k] = 1] ELSE recoveries
  /\ recovery' = IF recoverable /\ closing = "no" THEN [recovery EXCEPT ![k] = r] ELSE recovery
  /\ UNCHANGED <<text, number, attempts, answer, pipeline, pending, shown, closing>>

-----------------------------------------------------------------------------
(* The worker.                                                             *)

WorkerTakes ==
  /\ worker = "idle" /\ queue # <<>> /\ closing \in {"no", "outbox"}
  /\ LET k == Head(queue) IN
     /\ current' = func[k] /\ active' = futures[k]
     /\ func' = [func EXCEPT ![k] = 0] /\ futures' = [futures EXCEPT ![k] = <<>>]
  /\ queue' = Tail(queue)
  /\ worker' = "busy"
  /\ UNCHANGED <<requests, editor, shown, closing>>

(* Futures get their answer, those that still wait for one.                *)
Answers(held, a) ==
  LET waiting == SelectSeq(held, LAMBDA r : answer[r] = "pending") IN
  /\ answer' = [r \in Requests |-> IF r \in ToSet(waiting) THEN a ELSE answer[r]]
  /\ ready' = ready \o waiting

(* The platform has the text, and _mark_displayed is called.               *)
Delivered ==
  LET k == KeyOf[current]
      displayed == current \notin Awaited /\ pending[k] = text[current]
  IN
  /\ shown' = [shown EXCEPT ![k] = current]
  /\ pending' = IF displayed THEN [pending EXCEPT ![k] = 0] ELSE pending
  /\ recoveries' = IF displayed THEN [recoveries EXCEPT ![k] = 0] ELSE recoveries
  /\ UNCHANGED recovery

(* The platform may have it although the call has failed or was cancelled. *)
PerhapsDelivered ==
  /\ shown' \in {shown, [shown EXCEPT ![KeyOf[current]] = current]}
  /\ UNCHANGED editor

CallEnds ==
  /\ worker = "busy" /\ closing \in {"no", "outbox"}
  /\ \/ Delivered /\ Answers(active, "ok")
     \/ PerhapsDelivered /\ \E a \in {"transient", "cancelled"} : Answers(active, a)
     \/ UNCHANGED <<shown, editor>> /\ Answers(active, "fatal")
  /\ worker' = "idle" /\ current' = 0 /\ active' = <<>>
  /\ UNCHANGED <<task, text, number, numbers, attempts, queue, func, futures, closing>>

-----------------------------------------------------------------------------
(* The platform's close: the outbox, then the limiter.                     *)

OutboxCloses ==
  /\ closing = "no" /\ closing' = "outbox"
  /\ recovery' = [k \in Keys |-> 0]
  /\ UNCHANGED <<requests, pipeline, pending, recoveries, shown>>

(* shutdown: what is queued and what the worker has taken is cancelled.    *)
LimiterCloses ==
  /\ closing = "outbox" /\ closing' = "limiter"
  /\ Answers(FlattenSeq([i \in DOMAIN queue |-> futures[queue[i]]]) \o active, "cancelled")
  /\ queue' = <<>> /\ func' = [k \in Keys |-> 0] /\ futures' = [k \in Keys |-> <<>>]
  /\ numbers' = [k \in Keys |-> 0]
  /\ UNCHANGED <<task, text, number, attempts, worker, current, active, editor, shown>>

(* The worker ends, after a call that may still have succeeded; then the   *)
(* background tasks are cancelled wherever they are.                       *)
LimiterClosed ==
  /\ closing = "limiter" /\ closing' = "closed"
  /\ IF worker = "busy" THEN Delivered \/ PerhapsDelivered ELSE UNCHANGED <<shown, editor>>
  /\ worker' = "ended" /\ current' = 0 /\ active' = <<>>
  /\ task' = [r \in Requests |->
       IF r \notin Awaited /\ task[r] # "unissued" THEN "done" ELSE task[r]]
  /\ ready' = SelectSeq(ready, LAMBDA r : r \in Awaited)
  /\ UNCHANGED <<text, number, numbers, attempts, answer, queue, func, futures>>

-----------------------------------------------------------------------------
DeliveryNext ==
  \/ \E r \in Requests :
       \/ Request(r) \/ CallerCancelled(r) \/ Update(r) \/ Recover(r)
       \/ Wakes(r) \/ TaskProceeds(r) \/ Answered(r) \/ Retries(r) \/ GivesUp(r)
  \/ WorkerTakes \/ CallEnds
  \/ OutboxCloses \/ LimiterCloses \/ LimiterClosed

DeliverySpec == DeliveryInit /\ [][DeliveryNext]_deliveryVars

-----------------------------------------------------------------------------
(* Types.                                                                  *)
TypeOK ==
  /\ task \in [Requests -> {"unissued", "created", "waiting", "sleeping", "woken", "done"}]
  /\ text \in [Requests -> Requests]
  /\ number \in [Requests -> Nat] /\ numbers \in [Keys -> Nat]
  /\ attempts \in [Requests -> 0 .. MaxRetries]
  /\ answer \in [Requests -> {"none", "pending", "ok"} \cup Refused]
  /\ queue \in Seq(Keys) /\ ready \in Seq(Requests)
  /\ func \in [Keys -> Requests \cup {0}] /\ futures \in [Keys -> Seq(Requests)]
  /\ worker \in {"idle", "busy", "ended"} /\ current \in Requests \cup {0} /\ active \in Seq(Requests)
  /\ shown \in [Keys -> Requests \cup {0}]
  /\ pending \in [Keys -> Requests \cup {0}] /\ recoveries \in [Keys -> 0 .. 1]
  /\ recovery \in [Keys -> Requests \cup {0}]
  /\ closing \in {"no", "outbox", "limiter", "closed"}

(* Nobody waits for an answer that nobody owes.                            *)
AnswersAreOwed ==
  \A r \in Requests : answer[r] = "pending" => r \in ToSet(active \o futures[KeyOf[r]])

(* A key is queued exactly once for what the map has for it.               *)
QueueMatchesMap ==
  /\ \A k \in Keys : Cardinality({i \in DOMAIN queue : queue[i] = k}) = (IF func[k] = 0 THEN 0 ELSE 1)
  /\ \A k \in Keys : func[k] # 0 => func[k] \in ToSet(futures[k])

Issued(k) == {r \in OfKey(k) : task[r] # "unissued"}
Quiet(k)  == recovery[k] = 0 /\ \A r \in Issued(k) : task[r] = "done"

(* The requests that carry a text, and whether the platform took one.      *)
Carriers(k, t) == {r \in Issued(k) : text[r] = t}
Taken(k, t)    == \E r \in Carriers(k, t) : answer[r] = "ok"

(* A request with an older text that is queued as if it were newer than an *)
(* update: a recovery that was queued after it, or a retry whose number    *)
(* was given again since (the numbers of a key start anew when its last    *)
(* request is done, though a former one may still be asleep).              *)
Outlives(q, t) ==
  /\ text[q] < t
  /\ \/ q > t
     \/ attempts[q] > 0 /\ \E r \in Issued(KeyOf[q]) : r >= t /\ number[r] = number[q]

(* When nothing is left to do for a message it shows its newest update.    *)
(* The platform may have refused that one each time it was asked; or an    *)
(* older text outlived it, and then only that one is shown in its place,   *)
(* or has made it give way.  This last case is the code's exception to     *)
(* what the limiter says of itself, that only the latest version of a      *)
(* message update is processed.                                            *)
LatestIsShown ==
  \A k \in Keys, t \in Requests \ Awaited :
    /\ closing = "no" /\ Quiet(k)
    /\ t \in Carriers(k, t) /\ \A r \in Issued(k) : text[r] <= t
    => \/ shown[k] # 0 /\ text[shown[k]] = t
       \/ ~Taken(k, t) /\ \A r \in Carriers(k, t) : answer[r] \in Refused
       \/ ~Taken(k, t) /\ \E q \in Issued(k) : Outlives(q, t)
       \/ shown[k] # 0 /\ Outlives(shown[k], t)

(* Once the platform has closed nothing is left that could deliver.        *)
CloseIsFinal ==
  closing = "closed" =>
    /\ worker = "ended" /\ queue = <<>>
    /\ \A r \in Requests :
         answer[r] # "pending" /\ (r \notin Awaited => task[r] \in {"unissued", "done"})

(* Delivery loses no caller, no last edit, and stops for good.             *)
DeliveryHolds == AnswersAreOwed /\ QueueMatchesMap /\ LatestIsShown /\ CloseIsFinal
=============================================================================
