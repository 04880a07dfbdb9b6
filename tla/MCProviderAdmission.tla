------------------------ MODULE MCProviderAdmission ------------------------
(* Small instances of five components that providers share: the admission  *)
(* of executions of one model (run_with_retry calls p1, p2 and a runner    *)
(* r), the model catalog, the ChatGPT account of one process, and the      *)
(* history of a request, converted for a chat provider or prepared for the *)
(* Codex backend.  In these modules they do not interact; a behaviour runs *)
(* the one that it has chosen at the start and leaves the others alone.    *)
EXTENDS ProviderAdmission

CONSTANTS
  p1, p2, r,
  Providers, Account, Syncs, MaxRevision, Missing,
  Processes, MaxIssued,
  MaxMessages, MaxBlocks, Attempts

VARIABLES
  component,
  configured, connected, revision, seen, available, cache, catalog, behind, holder, job, shut,
  saved, fileLock, creds, issued, expiring, spent, access, renewed, stray, login, grant,
  isCurrent, listening, admin, stateLock, isClosed, withdrawn,
  replay, transcript, output, segments, results, refused,
  history, preface, body, repairs, course

catalogVars == <<configured, connected, revision, seen, available, cache, catalog, behind, holder,
                 job, shut>>
accountVars == <<saved, fileLock, creds, issued, expiring, spent, access, renewed, stray, login,
                 grant, isCurrent, listening, admin, stateLock, isClosed, withdrawn>>
convertVars == <<replay, transcript, output, segments, results, refused>>
historyVars == <<history, preface, body, repairs, course>>
allVars     == <<component, vars, catalogVars, accountVars, convertVars, historyVars>>

(* The account is one of the providers, and the bound is a number.         *)
ASSUME CatalogAssumption == Account \in Providers /\ MaxRevision \in Nat

(* The bound is positive, and NONE is not a holder of _state_lock.         *)
ASSUME AccountAssumption == MaxIssued \in Nat \ {0} /\ NONE \notin {"access", "admin"}

Catalog == INSTANCE ModelCatalog
Codex   == INSTANCE CodexAccount
Convert == INSTANCE ChatHistory
Prepare == INSTANCE ReplayedReasoning

MCInit ==
  /\ component \in {"admission", "catalog", "account", "conversion", "history"}
  /\ Init /\ Catalog!Init /\ Codex!Init /\ Convert!Init /\ Prepare!Init
  /\ component # "catalog" => configured = {} /\ ~connected /\ catalog = Missing
  /\ component # "account" => saved = 0
  /\ component # "conversion" => replay = "disabled"

MCNext ==
  /\ UNCHANGED component
  /\ \/ /\ component = "admission" /\ Next
        /\ UNCHANGED <<catalogVars, accountVars, convertVars, historyVars>>
     \/ /\ component = "catalog" /\ Catalog!CatalogNext
        /\ UNCHANGED <<vars, accountVars, convertVars, historyVars>>
     \/ /\ component = "account" /\ Codex!AccountNext
        /\ UNCHANGED <<vars, catalogVars, convertVars, historyVars>>
     \/ /\ component = "conversion" /\ Convert!ConvertNext
        /\ UNCHANGED <<vars, catalogVars, accountVars, historyVars>>
     \/ /\ component = "history" /\ Prepare!ReplayNext
        /\ UNCHANGED <<vars, catalogVars, accountVars, convertVars>>

(* The fairness of the two components that have one, while they are chosen.*)
AdmissionIsFair ==
  LET on == component = "admission" IN
  /\ WF_vars(on /\ BackoffElapses) /\ WF_vars(on /\ CooldownElapses)
  /\ \A s \in Sessions :
       /\ WF_vars(on /\ Gate(s)) /\ WF_vars(on /\ Outcome(s))
       /\ SF_vars(on /\ SlotAcquired(s))

AccountIsFair ==
  LET on == component = "account" IN
  \A p \in Processes :
    /\ WF_accountVars(on /\ Codex!LoginMoves(p))
    /\ WF_accountVars(on /\ Codex!AdminMoves(p))
    /\ WF_accountVars(on /\ Codex!RefreshMoves(p))

MCSpec == MCInit /\ [][MCNext]_allVars /\ AdmissionIsFair /\ AccountIsFair

-----------------------------------------------------------------------------
(* The catalog file lists usable providers only.                           *)
CatalogIsUsable == component = "catalog" => Catalog!TypeOK /\ Catalog!CatalogIsUsable

(* A sign-in that was cancelled does not make itself the account, and one  *)
(* that had not begun to write leaves nothing in the file.                 *)
CancelledLoginStaysOut ==
  /\ [](component = "account" => Codex!TypeOK)
  /\ Codex!CancelledLoginStaysOut

(* Every execution ends, and every admin call about the account returns.   *)
EveryCallReturns == (component = "admission" => EveryCallEnds) /\ Codex!AccountCallsReturn

(* What a chat provider or the Codex backend is sent of earlier turns is   *)
(* what was said, thought, called and answered in them, in its order, in a *)
(* form that is accepted there.                                            *)
HistoryIsReplayed ==
  /\ component = "conversion" => Convert!ConvertTypeOK /\ Convert!HistoryIsReplayed
  /\ component = "history" => Prepare!ReplayTypeOK /\ Prepare!ReasoningIsReplayed
=============================================================================
