---------------------------- MODULE CodexAccount ----------------------------
(***************************************************************************)
(* OpenAIAuthManager: the ChatGPT account of a server process.  A manager  *)
(* signs in through a background task, refreshes its tokens before they    *)
(* expire or when one was rejected, and disconnects.  The processes of one *)
(* user share the credential file and the lock file beside it.             *)
(*                                                                         *)
(* Credentials are numbered as OpenAI issues them, 0 is none.  Each server *)
(* runs on one event loop: _operation_lock is held by an admin call,       *)
(* _state_lock where a state is read or written and through a refresh or a *)
(* disconnect; both are first come, first served.  Locking, reading and    *)
(* writing the file run in threads: a caller that is cancelled while its   *)
(* thread writes releases the file lock, and the thread writes afterwards. *)
(*                                                                         *)
(* External: OpenAI, which accepts a refresh token once.  Not modelled: a  *)
(* file that cannot be parsed, what status() reports of an attempt, and    *)
(* admin calls that are cancelled after their start.                       *)
(***************************************************************************)
EXTENDS Naturals

CONSTANTS
  Processes,
  MaxIssued,   \* bound on the credentials that are issued, for model checking
  NONE

VARIABLES
  saved,      \* credentials in the file
  fileLock,   \* who holds the interprocess lock
  creds,      \* _credentials of each process
  issued,     \* credentials issued so far
  expiring,   \* credentials whose expires_at is near
  spent,      \* credentials whose refresh token OpenAI no longer accepts
  access,     \* the refresh under way in each process
  renewed,    \* the credentials it was answered
  stray,      \* what a write thread without a caller will write
  login,      \* the sign-in task of each process
  grant,      \* the credentials it was answered
  isCurrent,  \* _login_task is that task
  listening,  \* the browser callback server is up
  admin,      \* the call that holds _operation_lock
  stateLock,  \* who holds _state_lock across an await
  isClosed,   \* _closed
  withdrawn   \* history: credentials granted to sign-ins that were cancelled before they wrote

accountVars == <<saved, fileLock, creds, issued, expiring, spent, access, renewed, stray, login,
                 grant, isCurrent, listening, admin, stateLock, isClosed, withdrawn>>
server    == <<issued, expiring, spent, withdrawn>>
signIn    == <<login, grant, isCurrent, listening>>
refreshing == <<access, renewed, stray>>
calls     == <<admin, isClosed>>

Holder(p, who) == <<p, who>>
Usable(v) == v # 0 /\ v \notin expiring

Init ==
  /\ \E v \in {0, 1} :
       saved = v /\ issued = v /\ creds = [p \in Processes |-> v]
  /\ fileLock = NONE /\ expiring = {} /\ spent = {}
  /\ access = [p \in Processes |-> "idle"] /\ renewed = [p \in Processes |-> 0]
  /\ stray = [p \in Processes |-> 0]
  /\ login = [p \in Processes |-> "none"] /\ grant = [p \in Processes |-> 0]
  /\ isCurrent = [p \in Processes |-> FALSE] /\ listening = [p \in Processes |-> FALSE]
  /\ admin = [p \in Processes |-> "idle"] /\ stateLock = [p \in Processes |-> NONE]
  /\ isClosed = [p \in Processes |-> FALSE] /\ withdrawn = {}

(* Somebody in the process waits for _state_lock, ahead of later arrivals. *)
Queued(p) == login[p] \in {"saved", "failed", "leaving"}
    \/ admin[p] \in {"starting", "disconnecting"}

StateFree(p) == stateLock[p] = NONE

Unlocked(p, who) == IF fileLock = Holder(p, who) THEN NONE ELSE fileLock

-----------------------------------------------------------------------------
(* The sign-in task.                                                       *)

StartLogin(p) ==
  /\ admin[p] = "idle" /\ StateFree(p) /\ ~isClosed[p]
  /\ ~isCurrent[p]
  /\ admin' = [admin EXCEPT ![p] = "starting"]
  /\ UNCHANGED <<saved, fileLock, creds, server, refreshing, signIn, stateLock, isClosed>>

(* The flow is prepared; only a browser's has a listener.                  *)
LoginStarts(p) ==
  /\ admin[p] = "starting" /\ StateFree(p)
  /\ \E browser \in BOOLEAN : listening' = [listening EXCEPT ![p] = browser]
  /\ login' = [login EXCEPT ![p] = "granting"]
  /\ isCurrent' = [isCurrent EXCEPT ![p] = TRUE]
  /\ admin' = [admin EXCEPT ![p] = "idle"]
  /\ UNCHANGED <<saved, fileLock, creds, server, refreshing, grant, stateLock, isClosed>>

StartFails(p) ==
  /\ admin[p] = "starting" /\ StateFree(p)
  /\ admin' = [admin EXCEPT ![p] = "idle"]
  /\ UNCHANGED <<saved, fileLock, creds, server, refreshing, signIn, stateLock, isClosed>>

(* The user has agreed and the code was exchanged.                         *)
GrantArrives(p) ==
  /\ login[p] = "granting" /\ issued < MaxIssued
  /\ issued' = issued + 1
  /\ grant' = [grant EXCEPT ![p] = issued + 1]
  /\ login' = [login EXCEPT ![p] = "locking"]
  /\ UNCHANGED <<saved, fileLock, creds, expiring, spent, withdrawn, refreshing, isCurrent,
                 listening, calls, stateLock>>

(* _write_credentials.                                                     *)
LoginLocks(p) ==
  /\ login[p] = "locking" /\ fileLock = NONE
  /\ fileLock' = Holder(p, "login")
  /\ login' = [login EXCEPT ![p] = "writing"]
  /\ UNCHANGED <<saved, creds, server, refreshing, grant, isCurrent, listening, calls, stateLock>>

LoginWrites(p) ==
  /\ login[p] = "writing"
  /\ saved' = grant[p]
  /\ fileLock' = NONE
  /\ login' = [login EXCEPT ![p] = "saved"]
  /\ UNCHANGED <<creds, server, refreshing, grant, isCurrent, listening, calls, stateLock>>

(* The grant is refused or late, or the file is locked or not writable.    *)
LoginFails(p) ==
  /\ \/ login[p] \in {"granting", "writing"}
     \/ login[p] = "locking" /\ fileLock # NONE
  /\ fileLock' = Unlocked(p, "login")
  /\ login' = [login EXCEPT ![p] = "failed"]
  /\ UNCHANGED <<saved, creds, server, refreshing, grant, isCurrent, listening, calls, stateLock>>

LoginAdopts(p) ==
  /\ login[p] = "saved" /\ StateFree(p)
  /\ creds' = [creds EXCEPT ![p] = grant[p]]
  /\ login' = [login EXCEPT ![p] = "leaving"]
  /\ UNCHANGED <<saved, fileLock, server, refreshing, grant, isCurrent, listening, calls, stateLock>>

LoginReports(p) ==
  /\ login[p] = "failed" /\ StateFree(p)
  /\ login' = [login EXCEPT ![p] = "leaving"]
  /\ UNCHANGED <<saved, fileLock, creds, server, refreshing, grant, isCurrent, listening, calls,
                 stateLock>>

(* The finally clauses of _complete_login and _complete_browser_login.     *)
LoginLeaves(p) ==
  /\ login[p] = "leaving" /\ StateFree(p)
  /\ login' = [login EXCEPT ![p] = "none"]
  /\ grant' = [grant EXCEPT ![p] = 0]
  /\ isCurrent' = [isCurrent EXCEPT ![p] = FALSE]
  /\ listening' = [listening EXCEPT ![p] = FALSE]
  /\ UNCHANGED <<saved, fileLock, creds, server, refreshing, calls, stateLock>>

(* task.cancel(): a task that is writing leaves its thread to it; one that *)
(* waits in its last clause is gone.                                       *)
CancelTask(p) ==
  /\ login' = [login EXCEPT ![p] = IF @ \in {"none", "leaving"} THEN "none" ELSE "leaving"]
  /\ stray' = [stray EXCEPT ![p] = IF login[p] = "writing" THEN grant[p] ELSE @]
  /\ fileLock' = Unlocked(p, "login")
  /\ withdrawn' = IF login[p] = "locking" THEN withdrawn \cup {grant[p]} ELSE withdrawn

-----------------------------------------------------------------------------
(* Admin calls.                                                            *)

(* Slip: the task is waited for, not cancelled.                            *)
DetachOnly(p, call) ==
  /\ admin[p] = "idle" /\ StateFree(p)
  /\ call # "cancel" => ~isClosed[p]
  /\ isClosed' = [isClosed EXCEPT ![p] = @ \/ call = "close"]
  /\ isCurrent' = [isCurrent EXCEPT ![p] = FALSE]
  /\ admin' = [admin EXCEPT ![p] = call]
  /\ UNCHANGED <<login, stray, fileLock, saved, creds, server, access, renewed, grant, listening,
                 stateLock>>

(* Slip: _state_lock is kept until the task has ended.                     *)
DetachLocked(p, call) ==
  /\ admin[p] = "idle" /\ StateFree(p)
  /\ call # "cancel" => ~isClosed[p]
  /\ isClosed' = [isClosed EXCEPT ![p] = @ \/ call = "close"]
  /\ isCurrent' = [isCurrent EXCEPT ![p] = FALSE]
  /\ stateLock' = [stateLock EXCEPT ![p] = "admin"]
  /\ admin' = [admin EXCEPT ![p] = call]
  /\ CancelTask(p)
  /\ UNCHANGED <<saved, creds, issued, expiring, spent, access, renewed, grant, listening>>

(* cancel_login, disconnect and close detach the task under _state_lock,   *)
(* cancel it and wait for it without the lock.                             *)
Detach(p, call) ==
  /\ admin[p] = "idle" /\ StateFree(p)
  /\ call # "cancel" => ~isClosed[p]
  /\ isClosed' = [isClosed EXCEPT ![p] = @ \/ call = "close"]
  /\ isCurrent' = [isCurrent EXCEPT ![p] = FALSE]
  /\ admin' = [admin EXCEPT ![p] = call]
  /\ CancelTask(p)
  /\ UNCHANGED <<saved, creds, issued, expiring, spent, access, renewed, grant, listening,
                 stateLock>>

LoginGathered(p) ==
  /\ admin[p] \in {"cancel", "disconnect", "close"} /\ login[p] = "none"
  /\ listening' = [listening EXCEPT ![p] = FALSE]
  /\ grant' = [grant EXCEPT ![p] = 0]
  /\ stateLock' = [stateLock EXCEPT ![p] = IF @ = "admin" THEN NONE ELSE @]
  /\ admin' = [admin EXCEPT ![p] = IF @ = "disconnect" THEN "disconnecting" ELSE "idle"]
  /\ UNCHANGED <<saved, fileLock, creds, server, refreshing, login, isCurrent, isClosed>>

(* Best effort: OpenAI revokes the token or the request fails.             *)
Revoke(p) ==
  /\ admin[p] = "disconnecting" /\ StateFree(p)
  /\ spent' \in {spent, spent \cup ({creds[p]} \ {0})}
  /\ stateLock' = [stateLock EXCEPT ![p] = "admin"]
  /\ admin' = [admin EXCEPT ![p] = "deleting"]
  /\ UNCHANGED <<saved, fileLock, creds, issued, expiring, withdrawn, refreshing, signIn,
                 isClosed>>

(* The file is deleted under its lock, or the lock was not to be had.      *)
DisconnectEnds(p) ==
  /\ admin[p] = "deleting"
  /\ IF fileLock = NONE
     THEN saved' = 0 /\ creds' = [creds EXCEPT ![p] = 0]
     ELSE UNCHANGED <<saved, creds>>
  /\ stateLock' = [stateLock EXCEPT ![p] = NONE]
  /\ admin' = [admin EXCEPT ![p] = "idle"]
  /\ UNCHANGED <<fileLock, server, refreshing, signIn, isClosed>>

-----------------------------------------------------------------------------
(* Requests.                                                               *)

(* access() with credentials about to expire, or recover_unauthorized()    *)
(* with a token that the file still holds.                                 *)
RefreshBegins(p) ==
  /\ access[p] = "idle" /\ StateFree(p) /\ ~Queued(p)
  /\ creds[p] # 0
  /\ \/ creds[p] \in expiring /\ ~isClosed[p]
     \/ saved \in {0, creds[p]}
  /\ stateLock' = [stateLock EXCEPT ![p] = "access"]
  /\ access' = [access EXCEPT ![p] = "locking"]
  /\ UNCHANGED <<saved, fileLock, creds, server, renewed, stray, signIn, calls>>

(* recover_unauthorized() finds what another process has saved.            *)
Recover(p) ==
  /\ access[p] = "idle" /\ StateFree(p) /\ ~Queued(p)
  /\ saved \notin {0, creds[p]}
  /\ creds' = [creds EXCEPT ![p] = saved]
  /\ UNCHANGED <<saved, fileLock, server, refreshing, signIn, calls, stateLock>>

EndRefresh(p) ==
  /\ access' = [access EXCEPT ![p] = "idle"]
  /\ renewed' = [renewed EXCEPT ![p] = 0]
  /\ stateLock' = [stateLock EXCEPT ![p] = NONE]
  /\ fileLock' = Unlocked(p, "access")

(* _refresh_locked: under the file lock, credentials that another process  *)
(* has refreshed are taken over; otherwise its own token is posted.        *)
RefreshLocks(p) ==
  /\ access[p] = "locking" /\ fileLock = NONE
  /\ IF saved # creds[p] /\ Usable(saved)
     THEN creds' = [creds EXCEPT ![p] = saved] /\ EndRefresh(p)
     ELSE /\ fileLock' = Holder(p, "access")
          /\ access' = [access EXCEPT ![p] = "posting"]
          /\ UNCHANGED <<creds, renewed, stateLock>>
  /\ UNCHANGED <<saved, server, stray, signIn, calls>>

RefreshGranted(p) ==
  /\ access[p] = "posting" /\ creds[p] \notin spent /\ issued < MaxIssued
  /\ spent' = spent \cup {creds[p]}
  /\ issued' = issued + 1
  /\ renewed' = [renewed EXCEPT ![p] = issued + 1]
  /\ access' = [access EXCEPT ![p] = "writing"]
  /\ UNCHANGED <<saved, fileLock, creds, expiring, withdrawn, stray, signIn, calls, stateLock>>

RefreshWrites(p) ==
  /\ access[p] = "writing"
  /\ saved' = renewed[p]
  /\ creds' = [creds EXCEPT ![p] = renewed[p]]
  /\ EndRefresh(p)
  /\ UNCHANGED <<server, stray, signIn, calls>>

(* 400, 401 or 403: the file goes.                                         *)
RefreshRejected(p) ==
  /\ access[p] = "posting" /\ creds[p] \in spent
  /\ saved' = 0
  /\ creds' = [creds EXCEPT ![p] = 0]
  /\ EndRefresh(p)
  /\ UNCHANGED <<server, stray, signIn, calls>>

(* The lock is not to be had, the request fails, with or without effect,   *)
(* or the write fails.                                                     *)
RefreshFails(p) ==
  /\ \/ access[p] = "locking" /\ fileLock # NONE /\ UNCHANGED spent
     \/ access[p] = "posting" /\ spent' \in {spent, spent \cup {creds[p]}}
     \/ access[p] = "writing" /\ UNCHANGED spent
  /\ EndRefresh(p)
  /\ UNCHANGED <<saved, creds, issued, expiring, withdrawn, stray, signIn, calls>>

(* The client of the request that refreshes has gone.                      *)
RefreshCancelled(p) ==
  /\ access[p] # "idle"
  /\ spent' \in IF access[p] = "posting" THEN {spent, spent \cup {creds[p]}} ELSE {spent}
  /\ stray' = [stray EXCEPT ![p] = IF access[p] = "writing" THEN renewed[p] ELSE @]
  /\ EndRefresh(p)
  /\ UNCHANGED <<saved, creds, issued, expiring, withdrawn, signIn, calls>>

StrayWrites(p) ==
  /\ stray[p] # 0
  /\ saved' = stray[p]
  /\ stray' = [stray EXCEPT ![p] = 0]
  /\ UNCHANGED <<fileLock, creds, server, access, renewed, signIn, calls, stateLock>>

(* Time passes.                                                            *)
Expires ==
  /\ \E v \in 1 .. issued \ expiring : expiring' = expiring \cup {v}
  /\ UNCHANGED <<saved, fileLock, creds, issued, spent, withdrawn, refreshing, signIn, calls,
                 stateLock>>

-----------------------------------------------------------------------------
LoginMoves(p) == \/ LoginStarts(p) \/ StartFails(p) \/ GrantArrives(p) \/ LoginLocks(p)
                 \/ LoginWrites(p) \/ LoginFails(p) \/ LoginAdopts(p) \/ LoginReports(p)
                 \/ LoginLeaves(p)
AdminMoves(p) == LoginGathered(p) \/ Revoke(p) \/ DisconnectEnds(p)
RefreshMoves(p) == RefreshLocks(p) \/ RefreshGranted(p) \/ RefreshWrites(p) \/ RefreshRejected(p)
                   \/ RefreshFails(p)

AccountNext ==
  \/ Expires
  \/ \E p \in Processes :
       \/ LoginMoves(p) \/ AdminMoves(p) \/ RefreshMoves(p) \/ StrayWrites(p)
       \/ StartLogin(p) \/ RefreshBegins(p) \/ Recover(p) \/ RefreshCancelled(p)
       \/ \E call \in {"cancel", "disconnect", "close"} : Detach(p, call)

AccountSpec == Init /\ [][AccountNext]_accountVars

-----------------------------------------------------------------------------
(* Type invariant.                                                         *)
TypeOK ==
  LET Tokens == 0 .. issued IN
  /\ issued \in 0 .. MaxIssued /\ saved \in Tokens
  /\ creds \in [Processes -> Tokens]
  /\ fileLock \in {NONE} \cup Processes \X {"access", "login"}
  /\ expiring \subseteq 1 .. issued /\ spent \subseteq 1 .. issued
  /\ access \in [Processes -> {"idle", "locking", "posting", "writing"}]
  /\ renewed \in [Processes -> Tokens] /\ stray \in [Processes -> Tokens]
  /\ grant \in [Processes -> Tokens]
  /\ login \in [Processes -> {"none", "granting", "locking", "writing", "saved", "failed",
                              "leaving"}]
  /\ isCurrent \in [Processes -> BOOLEAN] /\ listening \in [Processes -> BOOLEAN]
  /\ admin \in [Processes -> {"idle", "starting", "cancel", "disconnect", "close",
                              "disconnecting", "deleting"}]
  /\ stateLock \in [Processes -> {NONE, "access", "admin"}]
  /\ isClosed \in [Processes -> BOOLEAN] /\ withdrawn \subseteq Tokens

(* Credentials that no file, account, request or thread holds.             *)
HeldByNobody(v) ==
  v # saved /\ \A p \in Processes : v \notin {creds[p], renewed[p], stray[p]}

(* cancel_login, disconnect, close: a sign-in that was detached does not   *)
(* make itself the account of the process, however far it had come; and    *)
(* what was granted to one that had not begun to write is never in the     *)
(* file nor the account of any process.  One whose write had begun is the  *)
(* exception that the code makes: its credentials reach the file, or stay  *)
(* there, and Recover or RefreshLocks of any process, its own too, takes   *)
(* them as the account, although cancel_login is to preserve the current   *)
(* credentials and disconnect to remove them always.                       *)
CancelledLoginStaysOut ==
  /\ [][\A p \in Processes :
         creds'[p] # creds[p] /\ login[p] = "saved" /\ login'[p] = "leaving" =>
           isCurrent[p]]_accountVars
  /\ [](\A v \in withdrawn : HeldByNobody(v))

(* The event loop runs every ready task; requests to OpenAI, waits for the *)
(* file lock and sign-ins have deadlines.                                  *)
AccountIsFair == \A p \in Processes : /\ WF_accountVars(LoginMoves(p))
                                      /\ WF_accountVars(AdminMoves(p))
                                      /\ WF_accountVars(RefreshMoves(p))

(* An admin call waits for a task that itself needs _state_lock to end;    *)
(* the call returns.                                                       *)
AccountCallsReturn == \A p \in Processes : (admin[p] # "idle") ~> (admin[p] = "idle")

(* tests/providers/test_openai_codex_auth.py: refresh is deduplicated      *)
(* across auth managers.  A manager does not post a token that another has *)
(* exchanged, and lose the account, while the file holds its successor.    *)
RefreshIsDeduplicated ==
  \A p \in Processes :
    access[p] = "posting" /\ creds[p] \in spent => saved \in spent \cup {0}
=============================================================================
