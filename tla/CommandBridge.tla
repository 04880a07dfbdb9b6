----------------------------- MODULE CommandBridge -----------------------------
(***************************************************************************)
(* The native messaging host fcc-bridge, which runs the commands that the  *)
(* user of the side panel approved: it reads length-prefixed frames from   *)
(* Chrome, runs a command in a session of its own, waits for it with a     *)
(* timeout while two threads drain its output, logs it and answers.        *)
(*                                                                         *)
(* A frame is a header and the units of its payload; the one that is too   *)
(* large has two.  A shell may leave descendants behind that keep its      *)
(* output open, may ignore the signal of a timeout, and outlives a host    *)
(* that Chrome ends.                                                       *)
(*                                                                         *)
(* Operators marked "Slip:" are plausible defective variants of the        *)
(* operator they precede; the specification does not use them.             *)
(***************************************************************************)
EXTENDS Naturals, Sequences, FiniteSets

CONSTANT MaxFrames    \* frames of a connection, for model checking

VARIABLES
  frames,       \* what Chrome has sent, by kind
  pipe,         \* units that wait on stdin
  open,         \* Chrome holds the pipe open
  host,         \* what the host is doing
  serving,      \* the number of the frame that it serves
  verdict,      \* how the wait for the command ended
  shell,        \* the shell of the command is running
  kin,          \* a descendant of it is, and holds its output
  drained,      \* the reader threads have reached the end of the output
  answers,      \* the answers, each with the frame it is to
  started,      \* frames whose command was started (an observer)
  logged        \* entries of bridge.log

vars == <<frames, pipe, open, host, serving, verdict, shell, kin, drained, answers, started, logged>>

Kinds == {"ping", "run", "refused", "garbled", "oversized"}

Payload(kind) == IF kind = "oversized" THEN 2 ELSE 1
Units(n, kind) ==
  <<[frame |-> n, part |-> "header"]>> \o [k \in 1..Payload(kind) |-> [frame |-> n, part |-> "payload"]]

Init ==
  /\ frames = <<>> /\ pipe = <<>> /\ open = TRUE
  /\ host = "reading" /\ serving = 0 /\ verdict = "none"
  /\ shell = FALSE /\ kin = FALSE /\ drained = FALSE
  /\ answers = <<>> /\ started = {} /\ logged = {}

process == <<verdict, shell, kin, drained>>

-----------------------------------------------------------------------------
(* Chrome.                                                                 *)

Sends ==
  /\ open /\ Len(frames) < MaxFrames
  /\ \E kind \in Kinds :
       /\ frames' = Append(frames, kind)
       /\ pipe' = pipe \o Units(Len(frames) + 1, kind)
  /\ UNCHANGED <<open, host, serving, process, answers, started, logged>>

(* The pipe is closed, perhaps in the middle of a frame.                   *)
Closes ==
  /\ open /\ open' = FALSE
  /\ pipe' \in {pipe, IF pipe = <<>> THEN pipe ELSE SubSeq(pipe, 1, Len(pipe) - 1)}
  /\ UNCHANGED <<frames, host, serving, process, answers, started, logged>>

(* The host is ended; a command goes on.                                   *)
Ends ==
  /\ ~open /\ host # "ended" /\ host' = "ended"
  /\ UNCHANGED <<frames, pipe, open, serving, process, answers, started, logged>>

-----------------------------------------------------------------------------
(* read_message and handle.                                                *)

Answer(n, kind) == answers' = Append(answers, [to |-> n, kind |-> kind])

(* Best effort: the log may not be writable.                               *)
Audit(n, outcome) == logged' \in {logged, logged \cup {[frame |-> n, outcome |-> outcome]}}

(* What a read takes off the pipe: a frame, if all of it is there.  (What  *)
(* is not a header would be refused like a frame.)                         *)
Unit    == Head(pipe)
First   == IF Unit.part = "header" THEN frames[Unit.frame] ELSE "garbled"
Number  == IF Unit.part = "header" THEN Unit.frame ELSE 0
Extent  == IF Unit.part = "header" THEN Payload(First) + 1 ELSE 1
IsWhole == pipe # <<>> /\ Len(pipe) >= Extent

(* Slip: a frame that is too large is refused without being read.          *)
TakeHeaderOnly ==
  IF First = "oversized" THEN Tail(pipe) ELSE SubSeq(pipe, Extent + 1, Len(pipe))

Take == SubSeq(pipe, Extent + 1, Len(pipe))

Refuses ==
  /\ First \in {"ping", "refused", "garbled", "oversized"}
  /\ Answer(Number, IF First = "ping" THEN "pong" ELSE "error")
  /\ IF First = "refused" THEN Audit(Number, "refused") ELSE UNCHANGED logged
  /\ UNCHANGED <<host, serving, process, started>>

SpawnFails ==
  /\ First = "run"
  /\ Answer(Number, "error") /\ Audit(Number, "spawn_failed")
  /\ UNCHANGED <<host, serving, process, started>>

Spawns ==
  /\ First = "run"
  /\ host' = "waiting" /\ serving' = Number
  /\ shell' = TRUE /\ kin' = FALSE /\ drained' = FALSE /\ verdict' = "none"
  /\ started' = started \cup {Number}
  /\ UNCHANGED <<answers, logged>>

Reads ==
  /\ host = "reading" /\ IsWhole
  /\ pipe' = Take
  /\ Refuses \/ SpawnFails \/ Spawns
  /\ UNCHANGED <<frames, open>>

ReadsTheEnd ==
  /\ host = "reading" /\ ~open /\ ~IsWhole
  /\ host' = "ended"
  /\ UNCHANGED <<frames, pipe, open, serving, process, answers, started, logged>>

-----------------------------------------------------------------------------
(* run_shell_command.                                                      *)

ShellExits ==
  /\ shell /\ shell' = FALSE
  /\ kin' \in BOOLEAN
  /\ UNCHANGED <<frames, pipe, open, host, serving, verdict, drained, answers, started, logged>>

KinExits ==
  /\ kin /\ kin' = FALSE
  /\ UNCHANGED <<frames, pipe, open, host, serving, verdict, shell, drained, answers, started, logged>>

(* The output ends when nobody holds it open.                              *)
OutputEnds ==
  /\ host \in {"waiting", "joining"} /\ ~drained /\ ~shell /\ ~kin
  /\ drained' = TRUE
  /\ UNCHANGED <<frames, pipe, open, host, serving, verdict, shell, kin, answers, started, logged>>

WaitReturns ==
  /\ host = "waiting" /\ ~shell
  /\ host' = "joining" /\ verdict' = "exit"
  /\ UNCHANGED <<frames, pipe, open, serving, shell, kin, drained, answers, started, logged>>

(* The group is signalled; the shell and its kin may survive that.         *)
WaitTimesOut ==
  /\ host = "waiting" /\ shell
  /\ host' = "joining" /\ verdict' = "timeout"
  /\ shell' \in BOOLEAN /\ kin' \in BOOLEAN
  /\ UNCHANGED <<frames, pipe, open, serving, drained, answers, started, logged>>

(* The readers are joined, or given up after a while; output that they     *)
(* have not read to its end is left out of the result.                     *)
Joins ==
  /\ host = "joining"
  /\ drained \/ shell \/ kin
  /\ Audit(serving, verdict)
  /\ Answer(serving, IF verdict = "timeout" THEN "error" ELSE IF drained THEN "result" ELSE "empty")
  /\ host' = "reading"
  /\ UNCHANGED <<frames, pipe, open, serving, process, started>>

(* An exception that handle does not catch ends the host, with the pipe    *)
(* open: a home that is not known, a path or a command that cannot be      *)
(* encoded, before the command is started or when it is logged.            *)
Escapes ==
  /\ host' = "ended"
  /\ \/ host = "reading" /\ IsWhole /\ First \in {"ping", "run", "refused"} /\ pipe' = Take
     \/ host = "joining" /\ UNCHANGED pipe
  /\ UNCHANGED <<frames, open, serving, process, answers, started, logged>>

BridgeNext ==
  \/ Sends \/ Closes \/ Ends \/ Reads \/ ReadsTheEnd \/ Escapes
  \/ ShellExits \/ KinExits \/ OutputEnds \/ WaitReturns \/ WaitTimesOut \/ Joins

BridgeSpec == Init /\ [][BridgeNext]_vars

-----------------------------------------------------------------------------
(* Type invariant.                                                         *)
BridgeTypeOK ==
  /\ frames \in Seq(Kinds)
  /\ host \in {"reading", "waiting", "joining", "ended"}
  /\ {open, shell, kin, drained} \subseteq BOOLEAN
  /\ verdict \in {"none", "exit", "timeout"}
  /\ started \subseteq DOMAIN frames /\ serving \in 0..Len(frames)

(* As long as the host goes on to read, every frame that it has taken has  *)
(* one answer, its own, in the order they were sent; only the frame that   *)
(* it was at when it ended has none.  A command that ran is answered by    *)
(* its end and never logged as refused.                                    *)
EachFrameIsAnswered ==
  /\ \A k \in DOMAIN answers : answers[k].to = k
  /\ host = "reading" => Len(answers) = Len(frames) - Cardinality({k \in DOMAIN pipe : pipe[k].part = "header"})
  /\ \A k \in DOMAIN answers : answers[k].kind \in {"result", "empty"} => k \in started
  /\ \A e \in logged : e.frame \in started <=> e.outcome \in {"exit", "timeout"}
================================================================================
