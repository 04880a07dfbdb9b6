----------------------------- MODULE ResponsesStore -----------------------------
(***************************************************************************)
(* Continuations of /v1/responses: ResponsesStore keeps the completed turns*)
(* in memory and in a file, so that a request can name the response that it*)
(* continues.  ResponsesHandler resolves the name before the request runs  *)
(* and records the turn before its client sees it completed.               *)
(*                                                                         *)
(* The store holds the last MaxStored turns; each holds its whole history, *)
(* so that a turn outlives the ones it continues.  The file is replaced    *)
(* atomically, after memory has changed; it is read once, at the first use,*)
(* and counts as empty when it cannot be read.                             *)
(*                                                                         *)
(* Operators marked "Slip:" are plausible defective variants of the        *)
(* operator they precede; the specification does not use them.             *)
(***************************************************************************)
EXTENDS Naturals, Sequences, SequencesExt, FiniteSets

CONSTANTS
  Requests,     \* requests, each with the response it may complete
  MaxStored,    \* MAX_STORED_RESPONSES
  NONE          \* no response

VARIABLES
  memory,       \* the records in memory, oldest first
  file,         \* the records in the file
  loaded,       \* the file was read
  turn,         \* where each request is
  previous,     \* previous_response_id of each request
  history,      \* the turns a request stands for, itself included
  newer,        \* records taken since a response was recorded (an observer)
  unread        \* the file was there and could not be read (an observer)

vars == <<memory, file, loaded, turn, previous, history, newer, unread>>

Record(r) == [id |-> r, history |-> history[r]]
Known(s)    == {s[k].id : k \in DOMAIN s}
Find(s, r) == CHOOSE e \in ToSet(s) : e.id = r

(* A dictionary forgets an id, of which it has at most one record.         *)
Without(s, r) ==
  IF r \in Known(s) THEN RemoveAt(s, CHOOSE k \in DOMAIN s : s[k].id = r) ELSE s

Newest(s) == IF Len(s) > MaxStored THEN SubSeq(s, Len(s) - MaxStored + 1, Len(s)) ELSE s

Init ==
  /\ memory = <<>> /\ file = <<>> /\ loaded = FALSE
  /\ turn = [r \in Requests |-> "new"]
  /\ previous = [r \in Requests |-> NONE]
  /\ history = [r \in Requests |-> <<>>]
  /\ newer = [r \in Requests |-> 0]
  /\ unread = FALSE

(* _load_locked: what the first use finds; s is the memory from then on.   *)
Loads(s) ==
  /\ loaded' = TRUE
  /\ \/ s = (IF loaded THEN memory ELSE Newest(file)) /\ UNCHANGED unread
     \/ ~loaded /\ file # <<>> /\ s = <<>> /\ unread' = TRUE

Memories == {memory, Newest(file), <<>>}

-----------------------------------------------------------------------------
(* Slip: the turn is recorded with its own input instead of the expanded.  *)
ResolveUnexpanded(r, p) ==
  /\ turn[r] = "new" /\ turn[p] = "seen"
  /\ previous' = [previous EXCEPT ![r] = p]
  /\ \E s \in Memories :
       /\ Loads(s) /\ memory' = s
       /\ IF p \in Known(s)
          THEN turn' = [turn EXCEPT ![r] = "running"] /\ history' = [history EXCEPT ![r] = <<r>>]
          ELSE turn' = [turn EXCEPT ![r] = "rejected"] /\ UNCHANGED history
  /\ UNCHANGED <<file, newer>>

(* A request that continues a response its client has seen completed.      *)
Resolve(r, p) ==
  /\ turn[r] = "new" /\ turn[p] = "seen"
  /\ previous' = [previous EXCEPT ![r] = p]
  /\ \E s \in Memories :
       /\ Loads(s) /\ memory' = s
       /\ IF p \in Known(s)
          THEN /\ turn' = [turn EXCEPT ![r] = "running"]
               /\ history' = [history EXCEPT ![r] = Append(Find(s, p).history, r)]
          ELSE turn' = [turn EXCEPT ![r] = "rejected"] /\ UNCHANGED history
  /\ UNCHANGED <<file, newer>>

(* A request that continues nothing.                                       *)
Start(r) ==
  /\ turn[r] = "new"
  /\ turn' = [turn EXCEPT ![r] = "running"]
  /\ history' = [history EXCEPT ![r] = <<r>>]
  /\ UNCHANGED <<memory, file, loaded, previous, newer, unread>>

(* The turn is complete: record changes memory, and then the file unless   *)
(* that fails.  The client may be gone by then.                            *)
Recorded(r, outcome) ==
  \E s \in Memories :
    /\ Loads(s)
    /\ memory' = Newest(Append(Without(s, r), Record(r)))
    /\ file' = (IF outcome = "failed" THEN file ELSE memory')
    /\ turn' = [turn EXCEPT ![r] = outcome]
    /\ newer' = [q \in Requests |-> IF q \in Known(file) \cup Known(s) THEN newer[q] + 1 ELSE newer[q]]
    /\ UNCHANGED <<previous, history>>

Completes(r) == turn[r] = "running" /\ \E o \in {"seen", "failed", "gone"} : Recorded(r, o)

(* The turn fails, is incomplete or cut off, or was not to be stored.      *)
Passes(r) ==
  /\ turn[r] = "running"
  /\ turn' = [turn EXCEPT ![r] = "gone"]
  /\ UNCHANGED <<memory, file, loaded, previous, history, newer, unread>>

(* The server stops, with what it was serving, and starts again.           *)
Restart ==
  /\ memory' = <<>> /\ loaded' = FALSE
  /\ turn' = [r \in Requests |-> IF turn[r] = "running" THEN "gone" ELSE turn[r]]
  /\ UNCHANGED <<file, previous, history, newer, unread>>

StoreNext ==
  \/ \E r \in Requests : Start(r) \/ Completes(r) \/ Passes(r)
  \/ \E r, p \in Requests : Resolve(r, p)
  \/ Restart

StoreSpec == Init /\ [][StoreNext]_vars

-----------------------------------------------------------------------------
(* Type invariant.                                                         *)
StoreTypeOK ==
  /\ Len(memory) <= MaxStored /\ Len(file) <= MaxStored
  /\ Cardinality(Known(memory)) = Len(memory) /\ Cardinality(Known(file)) = Len(file)
  /\ turn \in [Requests -> {"new", "running", "rejected", "seen", "failed", "gone"}]
  /\ previous \in [Requests -> Requests \cup {NONE}]
  /\ {loaded, unread} \subseteq BOOLEAN

(* A response that its client has seen completed can be continued, across  *)
(* restarts, until as many newer ones as the store holds were recorded or  *)
(* its file could not be read; and what continues it has all of its turns. *)
ContinuationsAreServed ==
  /\ \A r \in Requests :
       turn[r] = "rejected" => unread \/ newer[previous[r]] >= MaxStored
  /\ \A r \in Requests :
       turn[r] \in {"running", "seen"} =>
         history[r] = (IF previous[r] = NONE THEN <<r>> ELSE Append(history[previous[r]], r))
================================================================================
