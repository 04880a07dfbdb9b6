---------------------------- MODULE FailurePolicy ----------------------------
(***************************************************************************)
(* What providers make of an exception (providers/failure_policy.py): which *)
(* ones are worth another attempt, and which failure a client is told of.  *)
(* The decision is made twice, by the admission controller (Retryable) and *)
(* by the stream runner (StreamRetryable), and once more when the failure  *)
(* is reported (Classified); an exception that is already a finished       *)
(* ExecutionFailure goes through the same three again.                     *)
(*                                                                         *)
(* An exception is reduced to what is read of it: its class, its HTTP      *)
(* status (0 if it has none), the status that its body names, the markers  *)
(* in its text, whether it speaks of the context window, whether its       *)
(* Retry-After is beyond the ceiling, and the fields of an                 *)
(* ExecutionFailure.  Wording is left out.                                 *)
(***************************************************************************)
EXTENDS Naturals

(* Classes of the OpenAI SDK: "API" is any other APIError, with or without *)
(* a status.                                                               *)
SDKClasses == {"BadRequest", "Authentication", "PermissionDenied", "RateLimit",
               "InternalServer", "API", "APITimeout", "APIConnection"}

(* Of httpx, ssl and asyncio: "WaitTimeout" is a connect, write or pool    *)
(* timeout, "Timeout" that of a read or of asyncio, "Network" a read,      *)
(* write, connect or TLS error.                                            *)
TransportClasses == {"WaitTimeout", "Timeout", "Network", "RemoteProtocol"}

(* "Protocol" is a RetryableProviderProtocolError, "Failure" an            *)
(* ExecutionFailure, "HTTPStatus" that of httpx.                           *)
Classes == SDKClasses \cup TransportClasses
           \cup {"HTTPStatus", "Protocol", "Failure", "Other"}

Kinds == {"invalid_request", "context_window_exceeded", "authentication", "permission",
          "rate_limit", "overloaded", "timeout", "upstream", "unavailable"}

Statuses == 400 .. 599

Failure(kind, status, retryable) ==
  [class |-> "Failure", status |-> status, body |-> 0, markers |-> {}, window |-> FALSE,
   late |-> FALSE, kind |-> kind, retryable |-> retryable]

(* The statuses that an exception of a class can have.                     *)
StatusesOf(class) ==
  CASE class = "BadRequest"       -> {400}
    [] class = "Authentication"   -> {401}
    [] class = "PermissionDenied" -> {403}
    [] class = "RateLimit"        -> {429}
    [] class = "InternalServer"   -> 500 .. 599
    [] class = "API"              -> {0} \cup (Statuses \ ({400, 401, 403, 429} \cup 500 .. 599))
    [] class = "HTTPStatus"       -> Statuses
    [] OTHER                      -> {0}

(* Only the SDK's status errors have a body that is read for a status; the *)
(* text of connection, transport and protocol errors is not upstream's.    *)
RawErrors(statuses, bodies) ==
  {e \in [class : Classes \ {"Failure"}, status : {0} \cup statuses, body : {0} \cup bodies,
          markers : SUBSET {"rate", "overload", "internal"}, window : BOOLEAN,
          late : BOOLEAN, kind : {"upstream"}, retryable : {FALSE}] :
     /\ e.status \in StatusesOf(e.class)
     /\ e.class \notin SDKClasses => e.body = 0
     /\ e.class \in TransportClasses \cup {"APITimeout", "APIConnection", "Protocol"} =>
          e.body = 0 /\ e.markers = {} /\ ~e.window
     /\ e.late => e.status # 0}

(* The exceptions with the statuses that any of the definitions below      *)
(* tells apart.                                                            *)
Errors == RawErrors({400, 401, 403, 404, 413, 429, 500, 503, 529}, {413, 429, 500})

-----------------------------------------------------------------------------
(* Reading an exception.                                                   *)

IsRetryableStatus(status) == status = 429 \/ status \in 500 .. 599

ReportedStatus(e) == IF e.status # 0 THEN e.status ELSE e.body

MarkedStatus(e) == CASE "rate" \in e.markers     -> 429
                     [] "overload" \in e.markers -> 503
                     [] "internal" \in e.markers -> 500
                     [] OTHER                    -> 0

(* retryable_transient_status, 0 for None.                                 *)
TransientStatus(e) ==
  LET own  == IF IsRetryableStatus(e.status) THEN e.status ELSE 0
      read == IF IsRetryableStatus(e.body) THEN e.body ELSE MarkedStatus(e)
  IN CASE e.class = "Failure"    -> IF e.retryable THEN own ELSE 0
       [] e.class = "HTTPStatus" -> IF e.window \/ e.status = 413 THEN 0 ELSE own
       [] OTHER -> IF e.window \/ ReportedStatus(e) = 413 THEN 0
                   ELSE IF own # 0 THEN own ELSE read

Overloaded(e) == IF e.class = "Failure" THEN e.kind = "overloaded" ELSE "overload" \in e.markers

-----------------------------------------------------------------------------
(* Which exceptions are worth another attempt.                             *)

(* Refused, whatever its text says.                                        *)
Refused == {"BadRequest", "Authentication", "PermissionDenied"}

(* is_retryable_provider_error.                                            *)
Retryable(e) ==
  /\ ReportedStatus(e) # 413
  /\ IF e.class = "Failure" THEN e.retryable
     ELSE /\ e.class \notin Refused
          /\ \/ TransientStatus(e) # 0
             \/ e.class \in TransportClasses \cup {"APITimeout", "APIConnection", "Protocol"}

(* is_retryable_stream_error, which the runner falls back on when no       *)
(* attempt has decided.                                                    *)
StreamRetryable(e) ==
  \/ e.class = "Protocol"
  \/ e.class = "Failure" /\ e.retryable
  \/ /\ e.class \notin Refused \cup {"Failure"}
     /\ \/ TransientStatus(e) # 0
        \/ e.class \in {"Timeout", "Network", "RemoteProtocol", "APITimeout", "APIConnection"}

(* The attempt's own decision: not when upstream asks for a wait beyond    *)
(* MAX_HONORED_RETRY_AFTER_SECONDS.                                        *)
Retries(e) == Retryable(e) /\ ~e.late

-----------------------------------------------------------------------------
(* Which failure it is reported as.                                        *)

ContextExceeded == Failure("context_window_exceeded", 400, FALSE)
OverloadedFailure == Failure("overloaded", 529, TRUE)

OfStatus(status, otherwise) ==
  CASE status = 401 -> Failure("authentication", 401, FALSE)
    [] status = 403 -> Failure("permission", 403, FALSE)
    [] OTHER        -> otherwise

(* A status error of httpx.                                                *)
OfHTTPStatus(status) ==
  OfStatus(status,
           CASE status = 429 -> Failure("rate_limit", 429, TRUE)
             [] status = 400 -> Failure("invalid_request", 400, FALSE)
             [] status \in 502 .. 504 -> OverloadedFailure
             [] OTHER -> Failure("upstream", status, IsRetryableStatus(status)))

(* An APIError of no other class.                                          *)
OfAPIError(e) ==
  LET transient == TransientStatus(e)
      status    == IF transient # 0 THEN transient ELSE IF e.status # 0 THEN e.status ELSE 500
  IN IF transient = 429 THEN Failure("rate_limit", 429, TRUE)
     ELSE IF Overloaded(e) THEN OverloadedFailure
     ELSE OfStatus(status, Failure("upstream", status, Retryable(e)))

OfTransport(e) ==
  Failure(CASE e.class \in {"WaitTimeout", "Timeout"} -> "timeout"
            [] e.class = "Network"                    -> "unavailable"
            [] OTHER                                  -> "upstream",
          502, Retryable(e))

OfClass(e) ==
  CASE e.class = "Authentication"   -> Failure("authentication", 401, FALSE)
    [] e.class = "PermissionDenied" -> Failure("permission", 403, FALSE)
    [] e.class = "RateLimit"        -> Failure("rate_limit", 429, TRUE)
    [] e.class = "BadRequest"       -> Failure("invalid_request", 400, FALSE)
    [] e.class = "APITimeout"       -> Failure("timeout", 500, TRUE)
    [] e.class = "APIConnection"    -> Failure("unavailable", 500, TRUE)
    [] e.class = "InternalServer"   -> IF Overloaded(e) THEN OverloadedFailure
                                       ELSE Failure("upstream", e.status, TRUE)
    [] e.class = "API"              -> OfAPIError(e)
    [] e.class = "HTTPStatus"       -> OfHTTPStatus(e.status)
    [] OTHER                        -> OfTransport(e)

(* _classify_provider_failure.                                             *)
Classified(e) ==
  IF e.class = "Failure" THEN e
  ELSE IF e.window THEN ContextExceeded
  ELSE IF ReportedStatus(e) = 413 THEN Failure("invalid_request", 413, FALSE)
  ELSE OfClass(e)

-----------------------------------------------------------------------------
(* What a provider's override may make of an exception before the policy   *)
(* sees it: nothing, or a finished failure, by details of its body.        *)

(* _open_failure_override and _stream_failure_override of NVIDIA NIM: the  *)
(* context window, a degraded function, the queue, an opaque error.        *)
OfNIM(e) ==
  {f \in {ContextExceeded} : e.class = "BadRequest"
      \/ (e.class = "InternalServer" /\ e.status = 500)}
  \cup {f \in {OverloadedFailure} : e.class = "BadRequest"}
  \cup {f \in {Failure("timeout", 504, FALSE)} : e.class \in {"APITimeout", "Timeout"}}
  \cup {f \in {Failure("upstream", 500, FALSE)} :
          \/ e.class = "InternalServer" /\ e.status = 500
          \/ e.class = "API" /\ e.status = 0}

(* OpenRouter: no endpoint takes images.                                   *)
OfOpenRouter(e) ==
  {f \in {Failure("invalid_request", 400, FALSE)} : e.class = "API" /\ e.status = 404}

(* _effective_error of Codex: a sign-in is needed, or the stream reported  *)
(* a failure of its own.                                                   *)
OfCodex(e) ==
  {f \in {Failure("authentication", 401, FALSE), ContextExceeded, OverloadedFailure,
          Failure("rate_limit", 429, TRUE), Failure("upstream", 502, TRUE),
          Failure("upstream", 502, FALSE)} :
     e.class = "Other"}

Effective(e) == {e} \cup OfNIM(e) \cup OfOpenRouter(e) \cup OfCodex(e)

(* The errors an attempt may end with, by the decision about them.         *)
Retried  == {e \in Errors : \E f \in Effective(e) : Retries(f)}
NotRetried == {e \in Errors : \E f \in Effective(e) : ~Retries(f)}
=============================================================================
