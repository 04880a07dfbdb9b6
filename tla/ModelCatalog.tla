---------------------------- MODULE ModelCatalog ----------------------------
(***************************************************************************)
(* The model lists of the providers: the cache that ProviderRuntimeManager *)
(* keeps across provider generations, and the catalog file that it writes  *)
(* for Codex clients.  A provider belongs in them while the settings       *)
(* configure it or its account is connected.                               *)
(*                                                                         *)
(* Discovery asks providers over the network, without _replace_lock, while *)
(* replacements and account changes go on.  Everything runs on one event   *)
(* loop; the answers of one discovery are cached, and the catalog written, *)
(* in one step.                                                            *)
(*                                                                         *)
(* A list is abstracted to its presence.  Uvicorn is external: it ends the *)
(* requests of a server before the runtime of the server is closed.        *)
(***************************************************************************)
EXTENDS Naturals, FiniteSets

CONSTANTS
  Providers,
  Account,      \* the provider whose availability is a connected account
  Syncs,        \* admin calls that read the state of the account
  MaxRevision,  \* bound on changes of the account, for model checking
  Missing       \* no catalog file

VARIABLES
  configured,  \* providers configured by the current settings
  connected,   \* the account has credentials
  revision,    \* revision of its status
  seen,        \* _connected_account_revisions
  available,   \* _available_provider_ids of the cache
  cache,       \* providers with cached model lists
  catalog,     \* providers in the catalog file
  behind,      \* the last publication failed
  holder,      \* the call that holds _replace_lock across an await
  job,         \* the discovery of each caller, with the status a sync has read
  shut         \* the manager is closed

catalogVars == <<configured, connected, revision, seen, available, cache, catalog, behind, holder,
                 job, shut>>
account == <<connected, revision>>

(* One request of an administrator at a time, refresh or test.             *)
Jobs    == {"background", "request"} \cup Syncs
Job(at, P) == [at |-> at, asked |-> P, connected |-> FALSE, revision |-> 0]
NoJob      == Job("idle", {})

Init ==
  /\ configured \in SUBSET (Providers \ {Account})
  /\ connected \in BOOLEAN /\ revision = 0 /\ seen = 0
  /\ available = configured \cup (IF connected THEN {Account} ELSE {})
  /\ cache = {} /\ behind = FALSE
  /\ catalog \in {Missing, {}}
  /\ holder = "none"
  /\ job = [j \in Jobs |-> IF j = "background" THEN Job("warming", configured) ELSE NoJob]
  /\ shut = FALSE

-----------------------------------------------------------------------------
UsableUnder(settings) == settings \cup (IF connected THEN {Account} ELSE {})

(* Providers that a discovery under these settings asks.  A local provider *)
(* that no model refers to is passed over, and on start those with a list. *)
ListedBy(settings) == SUBSET UsableUnder(settings)

(* _synchronize_model_cache_scope, which every read of the cache begins    *)
(* with, then the inventory goes to the file, or the write fails.          *)
Publish(settings, cached) ==
  /\ available' = UsableUnder(settings)
  /\ cache' = cached \cap available'
  /\ \/ catalog' = cache' /\ behind' = FALSE
     \/ UNCHANGED catalog /\ behind' = TRUE

(* ProviderModelCache.cache_model_infos.                                   *)
Cached(P) == cache \cup (P \cap available)

CancelBackground == [job EXCEPT !["background"] = IF @.at = "warming" THEN @ ELSE NoJob]

-----------------------------------------------------------------------------
(* Startup, before requests are served: the routed providers are asked, a  *)
(* file is written if there is none, and the background refresh is created.*)
Warm ==
  /\ job["background"].at = "warming" /\ holder = "none"
  /\ \E P \in SUBSET job["background"].asked :
       IF catalog = Missing
       THEN Publish(configured, Cached(P))
       ELSE cache' = Cached(P) /\ UNCHANGED <<available, catalog, behind>>
  /\ job' = [job EXCEPT !["background"] = Job("created", configured)]
  /\ UNCHANGED <<configured, account, seen, holder, shut>>

(* The task of a generation runs first under the settings it was made for. *)
BackgroundStarts ==
  /\ job["background"].at = "created"
  /\ \E P \in ListedBy(job["background"].asked) : job' = [job EXCEPT !["background"] = Job("asking", P)]
  /\ UNCHANGED <<configured, account, seen, available, cache, catalog, behind, holder, shut>>

(* Slip: a list is stored and published whoever it is from.                *)
AnswerUnchecked(j) ==
  /\ job[j].at = "asking"
  /\ \E P \in SUBSET job[j].asked :
       /\ cache' = cache \cup P
       /\ \/ catalog' = cache' /\ behind' = FALSE
          \/ UNCHANGED catalog /\ behind' = TRUE
  /\ job' = [job EXCEPT ![j] = NoJob]
  /\ seen' = IF j \in Syncs THEN job[j].revision ELSE seen
  /\ UNCHANGED <<configured, account, available, holder, shut>>

(* The lists that arrived are cached; what failed keeps its former one.    *)
Answer(j) ==
  /\ job[j].at = "asking"
  /\ \E P \in SUBSET job[j].asked : Publish(configured, Cached(P))
  /\ job' = [job EXCEPT ![j] = NoJob]
  /\ seen' = IF j \in Syncs THEN job[j].revision ELSE seen
  /\ UNCHANGED <<configured, account, holder, shut>>

(* Its caller is cancelled, or a test fails.                               *)
AskingEnds(j) ==
  /\ job[j].at = "asking" /\ j # "background"
  /\ job' = [job EXCEPT ![j] = NoJob]
  /\ UNCHANGED <<configured, account, seen, available, cache, catalog, behind, holder, shut>>

(* refresh_model_list_cache waits for the background task under the lock.  *)
ExplicitBegins ==
  /\ holder = "none" /\ ~shut /\ job["request"].at = "idle" /\ job["background"].at # "warming"
  /\ holder' = "explicit"
  /\ job' = CancelBackground
  /\ UNCHANGED <<configured, account, seen, available, cache, catalog, behind, shut>>

ExplicitAsks ==
  /\ holder = "explicit"
  /\ holder' = "none"
  /\ \/ UNCHANGED job
     \/ \E P \in ListedBy(configured) : job' = [job EXCEPT !["request"] = Job("asking", P)]
  /\ UNCHANGED <<configured, account, seen, available, cache, catalog, behind, shut>>

(* test_provider.                                                          *)
TestBegins ==
  /\ holder = "none" /\ ~shut /\ job["request"].at = "idle" /\ job["background"].at # "warming"
  /\ \E q \in Providers : job' = [job EXCEPT !["request"] = Job("asking", {q})]
  /\ UNCHANGED <<configured, account, seen, available, cache, catalog, behind, holder, shut>>

(* A client lists the models.                                              *)
ListModels ==
  /\ available' = UsableUnder(configured)
  /\ cache' = cache \cap available'
  /\ UNCHANGED <<configured, account, seen, catalog, behind, holder, job, shut>>

-----------------------------------------------------------------------------
(* Replacement of the generation.                                          *)

ReplaceBegins ==
  /\ holder = "none" /\ ~shut /\ job["background"].at # "warming"
  /\ holder' = "replace"
  /\ job' = CancelBackground
  /\ UNCHANGED <<configured, account, seen, available, cache, catalog, behind, shut>>

ReplacePublishes ==
  /\ holder = "replace"
  /\ configured' \in SUBSET (Providers \ {Account})
  /\ Publish(configured', cache)
  /\ job' = [job EXCEPT !["background"] = Job("created", configured')]
  /\ holder' = "none"
  /\ UNCHANGED <<account, seen, shut>>

(* The background refresh that was cancelled is not started again.         *)
ReplaceFails ==
  /\ holder = "replace"
  /\ holder' = "none"
  /\ UNCHANGED <<configured, account, seen, available, cache, catalog, behind, job, shut>>

-----------------------------------------------------------------------------
(* The connected account.                                                  *)

(* A sign-in or a refresh succeeds, or a refresh finds the sign-in expired.*)
AccountChanges ==
  /\ revision < MaxRevision
  /\ revision' = revision + 1
  /\ connected' \in BOOLEAN
  /\ UNCHANGED <<configured, seen, available, cache, catalog, behind, holder, job, shut>>

(* disconnect_connected_account, or connected_account_status that finds a  *)
(* revision it has not seen.                                               *)
SyncBegins(s) ==
  /\ ~shut /\ job[s].at = "idle" /\ job["background"].at # "warming"
  /\ \/ revision # seen /\ UNCHANGED account
     \/ revision < MaxRevision /\ revision' = revision + 1 /\ connected' = FALSE
  /\ job' = [job EXCEPT ![s] = [at |-> "waiting", asked |-> {}, connected |-> connected',
                                revision |-> revision']]
  /\ UNCHANGED <<configured, seen, available, cache, catalog, behind, holder, shut>>

(* The lock is first come, first served.                                   *)
FirstOf(s) == \A t \in Syncs : job[t].at = "waiting" => job[s].revision <= job[t].revision

(* connected_provider_changed.                                             *)
RemoveAccount(s) ==
  /\ holder = "none" /\ job[s].at = "waiting" /\ FirstOf(s)
  /\ ~job[s].connected
  /\ Publish(configured, cache \ {Account})
  /\ job' = [job EXCEPT ![s] = NoJob]
  /\ seen' = job[s].revision
  /\ UNCHANGED <<configured, account, holder, shut>>

AddAccount(s) ==
  /\ holder = "none" /\ job[s].at = "waiting" /\ FirstOf(s)
  /\ job[s].connected
  /\ available' = available \cup {Account}
  /\ job' = [job EXCEPT ![s].at = "asking", ![s].asked = {Account}]
  /\ UNCHANGED <<configured, account, seen, cache, catalog, behind, holder, shut>>

(* The manager was closed, or the call is cancelled.                       *)
SyncFails(s) ==
  /\ job[s].at = "waiting"
  /\ job' = [job EXCEPT ![s] = NoJob]
  /\ UNCHANGED <<configured, account, seen, available, cache, catalog, behind, holder, shut>>

-----------------------------------------------------------------------------
(* close(), after the server's requests have ended.                        *)
Close ==
  /\ holder = "none" /\ ~shut
  /\ \A j \in Jobs \ {"background"} : job[j].at = "idle"
  /\ job["background"].at # "warming"
  /\ shut' = TRUE
  /\ job' = CancelBackground
  /\ cache' = {}
  /\ UNCHANGED <<configured, account, seen, available, catalog, behind, holder>>

CatalogNext ==
  \/ Warm \/ BackgroundStarts \/ ExplicitBegins \/ ExplicitAsks \/ TestBegins \/ ListModels
  \/ \E j \in Jobs : Answer(j) \/ AskingEnds(j)
  \/ ReplaceBegins \/ ReplacePublishes \/ ReplaceFails
  \/ AccountChanges
  \/ \E s \in Syncs : SyncBegins(s) \/ RemoveAccount(s) \/ AddAccount(s) \/ SyncFails(s)
  \/ Close

CatalogSpec == Init /\ [][CatalogNext]_catalogVars

-----------------------------------------------------------------------------
(* Type invariant.                                                         *)
TypeOK ==
  /\ configured \subseteq Providers \ {Account} /\ connected \in BOOLEAN
  /\ revision \in 0 .. MaxRevision /\ seen \in 0 .. MaxRevision
  /\ available \subseteq Providers /\ cache \subseteq Providers
  /\ catalog \in {Missing} \cup SUBSET Providers
  /\ behind \in BOOLEAN /\ holder \in {"none", "replace", "explicit"}
  /\ job \in [Jobs -> [at : {"idle", "warming", "created", "waiting", "asking"},
                      asked : SUBSET Providers, connected : BOOLEAN, revision : 0 .. MaxRevision]]
  /\ shut \in BOOLEAN

(* Once the manager has seen the account's present state, the catalog file *)
(* lists usable providers only, whatever discovery was under way when the  *)
(* settings or the account changed, unless its last write failed; and a    *)
(* closed manager writes no catalog from the cache it has cleared.         *)
CatalogIsUsable ==
  /\ revision = seen /\ ~behind /\ catalog # Missing => catalog \subseteq UsableUnder(configured)
  /\ shut => \A j \in Jobs : job[j].at = "idle"
=============================================================================
