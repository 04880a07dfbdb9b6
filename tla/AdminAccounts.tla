------------------------------ MODULE AdminAccounts ------------------------------
(***************************************************************************)
(* The card of a connected account on the admin page: the sign-in that it  *)
(* starts, cancels or undoes on the service, and the poll that follows a   *)
(* sign-in once a second until it has ended.                               *)
(*                                                                         *)
(* Every call is under way for a while, and calls overtake each other: the *)
(* answer of a poll may arrive after that of a cancel that was sent later. *)
(* Only the last timer is remembered, so that only it can be cleared.      *)
(*                                                                         *)
(* Operators marked "Slip:" are plausible defective variants of the        *)
(* operator they precede; the specification does not use them.             *)
(***************************************************************************)
EXTENDS Naturals, FiniteSets

CONSTANTS
  Gets,         \* status requests that may be under way at once
  MaxOrders     \* clicks on the card, for model checking

VARIABLES
  account,      \* the account on the service
  card,         \* the state that the card shows
  timers,       \* polls that are scheduled
  known,        \* authPollers holds one of them
  get,          \* each status request under way
  order,        \* the login, cancel or disconnect under way
  orders,       \* clicks so far, for the bound
  excused       \* why the card may be wrong (an observer)

vars == <<account, card, timers, known, get, order, orders, excused>>

States == {"disconnected", "connecting", "connected"}
Failed == "failed"

NoGet   == [at |-> "none", kind |-> "poll", status |-> Failed]
NoOrder == [at |-> "none", kind |-> "login", status |-> Failed]

Init ==
  /\ account \in {"disconnected", "connected"} /\ card = account
  /\ timers = 0 /\ known = FALSE
  /\ get = [g \in Gets |-> NoGet] /\ order = NoOrder
  /\ orders = 0 /\ excused = FALSE

-----------------------------------------------------------------------------
(* Timers.                                                                 *)

(* clearConnectedAccountPoll, and pollConnectedAccount which schedules     *)
(* another one.                                                            *)
Cleared   == IF known THEN timers - 1 ELSE timers
Clear     == timers' = Cleared /\ known' = FALSE
Watch     == timers' = Cleared + 1 /\ known' = TRUE
Asks(g, kind) == get[g].at = "none" /\ get' = [get EXCEPT ![g] = [NoGet EXCEPT !.at = "asked", !.kind = kind]]

-----------------------------------------------------------------------------
(* The service.                                                            *)

SignInEnds ==
  /\ account = "connecting" /\ account' \in {"disconnected", "connected"}
  /\ UNCHANGED <<card, timers, known, get, order, orders, excused>>

(* A call that fails has been done or not.                                 *)
Effect(kind) ==
  CASE kind = "login"      -> "connecting"
    [] kind = "cancel"     -> IF account = "connecting" THEN "disconnected" ELSE account
    [] kind = "disconnect" -> "disconnected"

OrderAnswered ==
  /\ order.at = "asked"
  /\ account' \in {account, Effect(order.kind)}
  /\ \E status \in {Failed} \cup (IF account' = Effect(order.kind) THEN {account'} ELSE {}) :
       order' = [order EXCEPT !.at = "answered", !.status = status]
  /\ UNCHANGED <<card, timers, known, get, orders, excused>>

GetAnswered(g) ==
  /\ get[g].at = "asked"
  /\ \E status \in {account, Failed} :
       get' = [get EXCEPT ![g].at = "answered", ![g].status = status]
  /\ UNCHANGED <<account, card, timers, known, order, orders, excused>>

-----------------------------------------------------------------------------
(* The page.                                                               *)

(* refreshConnectedAccounts, of a load.                                    *)
Refresh ==
  /\ orders < MaxOrders /\ orders' = orders + 1
  /\ \E g \in Gets : Asks(g, "load")
  /\ UNCHANGED <<account, card, timers, known, order, excused>>

(* A cancel or a disconnect clears the poll before it is sent.             *)
Clicked ==
  /\ orders < MaxOrders /\ orders' = orders + 1
  /\ order.at = "none"
  /\ \E kind \in {"login", "cancel", "disconnect"} :
       /\ card = "connecting" <=> kind = "cancel"
       /\ kind = "disconnect" => card = "connected"
       /\ order' = [NoOrder EXCEPT !.at = "asked", !.kind = kind]
       /\ IF kind = "login" THEN UNCHANGED <<timers, known>> ELSE Clear
  /\ UNCHANGED <<account, card, get, excused>>

(* The card shows what an answer says.  An answer of an earlier state is   *)
(* noted, and so is a call that failed.                                    *)
ShowsAnswer(status) == card' = status /\ excused' = (status # account)

OrderArrives ==
  /\ order.at = "answered" /\ order' = NoOrder
  /\ IF order.status = Failed THEN excused' = TRUE /\ UNCHANGED <<card, timers, known>>
     ELSE /\ ShowsAnswer(order.status)
          /\ IF order.kind = "login" THEN Watch ELSE UNCHANGED <<timers, known>>
  /\ UNCHANGED <<account, get, orders>>

PollFires ==
  /\ timers > 0 /\ timers' = timers - 1
  /\ known' \in IF timers = 1 THEN {FALSE} ELSE {FALSE, known}
  /\ \E g \in Gets : Asks(g, "poll")
  /\ UNCHANGED <<account, card, order, orders, excused>>

(* Slip: a poll that finds the sign-in still going on is the last.         *)
PollArrivesOnce(g) ==
  /\ get[g].at = "answered" /\ get[g].kind = "poll"
  /\ IF get[g].status = Failed THEN excused' = TRUE /\ known' = FALSE /\ UNCHANGED <<card, timers>>
     ELSE ShowsAnswer(get[g].status) /\ known' = FALSE /\ UNCHANGED timers
  /\ get' = [get EXCEPT ![g] = NoGet]
  /\ UNCHANGED <<account, order, orders>>

(* A poll that finds the sign-in still going on schedules the next one,    *)
(* without clearing one that is scheduled.                                 *)
PollArrives(g) ==
  /\ get[g].at = "answered" /\ get[g].kind = "poll"
  /\ CASE get[g].status = Failed -> excused' = TRUE /\ known' = FALSE /\ UNCHANGED <<card, timers>>
       [] get[g].status = "connecting" ->
            ShowsAnswer("connecting") /\ timers' = timers + 1 /\ known' = TRUE
       [] OTHER -> ShowsAnswer(get[g].status) /\ known' = FALSE /\ UNCHANGED timers
  /\ get' = [get EXCEPT ![g] = NoGet]
  /\ UNCHANGED <<account, order, orders>>

LoadArrives(g) ==
  /\ get[g].at = "answered" /\ get[g].kind = "load"
  /\ CASE get[g].status = Failed -> card' = "error" /\ excused' = TRUE /\ UNCHANGED <<timers, known>>
       [] get[g].status = "connecting" -> ShowsAnswer("connecting") /\ Watch
       [] OTHER -> ShowsAnswer(get[g].status) /\ UNCHANGED <<timers, known>>
  /\ get' = [get EXCEPT ![g] = NoGet]
  /\ UNCHANGED <<account, order, orders>>

AccountsNext ==
  \/ SignInEnds \/ OrderAnswered \/ Refresh \/ Clicked \/ OrderArrives \/ PollFires
  \/ \E g \in Gets : GetAnswered(g) \/ PollArrives(g) \/ LoadArrives(g)

AccountsSpec == Init /\ [][AccountsNext]_vars

-----------------------------------------------------------------------------
(* Type invariant.                                                         *)
AccountsTypeOK ==
  /\ account \in States /\ card \in States \cup {"error"}
  /\ timers \in Nat /\ {known, excused} \subseteq BOOLEAN
  /\ known => timers > 0

Quiet == timers = 0 /\ order.at = "none" /\ \A g \in Gets : get[g].at = "none"

(* A card that nothing will change any more shows the account as it is: a  *)
(* sign-in is followed to its end however calls overtake each other and    *)
(* whichever timers are cleared, unless a call failed or the last answer   *)
(* was older than the account.                                             *)
QuietCardIsTrue == Quiet => card = account \/ excused
================================================================================
