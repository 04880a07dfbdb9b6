------------------------------ MODULE AdminEditor ------------------------------
(***************************************************************************)
(* The settings editor: pages of admin.js that load the configuration, are *)
(* edited for a while and apply what was changed, and the service behind   *)
(* them, which merges a change into the managed .env file and into the     *)
(* table of context windows (context.md).                                  *)
(*                                                                         *)
(* A page may be long out of date when it applies: another page has        *)
(* applied, or somebody has edited a file by hand.  The service prepares   *)
(* and commits one update at a time; it reads the files when it prepares,  *)
(* and writes the table first and the .env file second.                    *)
(*                                                                         *)
(* Three fields stand for those of the manifest: a boolean, a secret and   *)
(* PINNED_MODELS.  context.md exists, and the .env file holds every field, *)
(* as after a first save.                                                  *)
(*                                                                         *)
(* Operators marked "Slip:" are plausible defective variants of the        *)
(* operator they precede; the specification does not use them.             *)
(***************************************************************************)
EXTENDS Naturals, FiniteSets

CONSTANTS
  Pages,        \* browser pages with the editor
  ModelRefs,    \* models, some of which are pinned
  Routes,       \* models that a route uses, whose windows are kept when not pinned
  MaxEdits,     \* edits by users in pages, for model checking
  MaxHands,     \* edits of files by hand, for model checking
  NONE          \* nothing

VARIABLES
  env,          \* the managed .env file: a value per field
  override,     \* the explicit env file (FCC_ENV_FILE): a value, or NONE
  table,        \* context.md: tokens of a model, 0 for unknown, NONE for no row
  page,         \* what each page shows and holds
  call,         \* the apply of each page, or NONE
  edits,        \* edits so far, for the bound
  hands,        \* edits by hand so far, for the bound
  handed        \* fields edited by hand since an update was prepared (an observer)

vars == <<env, override, table, page, call, edits, hands, handed>>

(* Values.  Zero is the empty value and, for the boolean, "false"; one is  *)
(* "true" and two another word that Settings reads as true.  A pin is the  *)
(* model it pins.                                                          *)
Fields == {"flag", "token", "pins"}
Values(k) == IF k = "pins" THEN {0} \cup ModelRefs ELSE 0..2
Mask == 9       \* MASKED_SECRET
Tokens == {1}

Pinned(pins) == {pins} \cap ModelRefs

-----------------------------------------------------------------------------
(* What the service tells a page: effective values, the secret masked.     *)

Locked(k)    == override[k] # NONE
Effective(k) == IF Locked(k) THEN override[k] ELSE env[k]
Shown(k, v)  == IF k = "token" /\ v # 0 THEN Mask ELSE v
Recorded(m)  == IF table[m] \in Tokens THEN table[m] ELSE 0

Config ==
  [shown  |-> [k \in Fields |-> Shown(k, Effective(k))],
   locked |-> {k \in Fields : Locked(k)},
   rows   |-> [m \in ModelRefs |-> IF m \in Pinned(Effective("pins")) THEN Recorded(m) ELSE 0]]

(* renderField and inputForField: a checkbox knows only "true", a secret   *)
(* starts empty.                                                           *)
InputFor(k, v) ==
  CASE k = "flag"  -> IF v = 1 THEN 1 ELSE 0
    [] k = "token" -> 0
    [] OTHER       -> v

(* A page that shows a configuration.                                      *)
Rendered(c) ==
  [shown |-> c.shown, locked |-> c.locked, rows |-> c.rows,
   input |-> [k \in Fields |-> InputFor(k, c.shown[k])],
   draft |-> c.rows, touched |-> {}]

-----------------------------------------------------------------------------
(* What a page submits.                                                    *)

(* Slip: an empty secret input is submitted as it is.                      *)
FieldValueBare(p, k) == page[p].input[k]

(* An empty secret input means the secret that is configured.              *)
FieldValue(p, k) ==
  IF k = "token" /\ page[p].shown[k] # 0 /\ page[p].input[k] = 0 THEN Mask ELSE page[p].input[k]

ChangedValues(p) ==
  {k \in Fields \ page[p].locked : FieldValue(p, k) # page[p].shown[k]}

(* Only windows of models that the draft pins.                             *)
ChangedWindows(p) ==
  {m \in Pinned(page[p].input["pins"]) : page[p].draft[m] # page[p].rows[m]}

Payload(p) ==
  [values  |-> [k \in ChangedValues(p) |-> FieldValue(p, k)],
   windows |-> [m \in ChangedWindows(p) |-> page[p].draft[m]],
   touched |-> page[p].touched,
   respelled |-> page[p].shown["flag"] = 2]

Dirty(p) == ChangedValues(p) # {} \/ ChangedWindows(p) # {}

-----------------------------------------------------------------------------
(* An update.                                                              *)

(* target_values_with_updates: the file, overlaid with what was submitted, *)
(* except a locked field and the mask.                                     *)
Overlaid(values) ==
  [k \in Fields |->
     IF k \in DOMAIN values /\ ~Locked(k) /\ ~(k = "token" /\ values[k] = Mask)
     THEN values[k] ELSE env[k]]

(* sync_pinned_context_windows: rows of the models that are pinned or that *)
(* a route uses.                                                           *)
Synced(pinned, windows) ==
  [m \in ModelRefs |->
     CASE m \in pinned /\ m \in DOMAIN windows -> windows[m]
       [] m \in pinned /\ m \notin DOMAIN windows -> IF table[m] = NONE THEN 0 ELSE table[m]
       [] m \notin pinned -> IF m \in Routes THEN table[m] ELSE NONE]

At(p) == IF call[p] = NONE THEN "idle" ELSE call[p].at
Held == \E p \in Pages : At(p) \in {"prepared", "tabled"}
Answers(p) == call' = [call EXCEPT ![p] = NONE]

Init ==
  /\ \E pins \in Values("pins") : env = [k \in Fields |-> IF k = "pins" THEN pins ELSE 1]
  /\ override = [k \in Fields |-> NONE]
  /\ table = [m \in ModelRefs |-> IF m \in Pinned(env["pins"]) THEN 1 ELSE NONE]
  /\ page = [p \in Pages |-> NONE]
  /\ call = [p \in Pages |-> NONE]
  /\ edits = 0 /\ hands = 0 /\ handed = {}

-----------------------------------------------------------------------------
(* Loading.                                                                *)

(* load(), at first, once an update was applied, which may take a while,   *)
(* and after a restart of the server: what was typed is replaced.          *)
Load(p) ==
  /\ At(p) = "idle"
  /\ page' = [page EXCEPT ![p] = Rendered(Config)]
  /\ UNCHANGED <<env, override, table, call, edits, hands, handed>>

-----------------------------------------------------------------------------
(* Editing.                                                                *)

Types(p) ==
  /\ page[p] # NONE /\ edits < MaxEdits /\ edits' = edits + 1
  /\ \E k \in Fields \ page[p].locked :
       \E v \in (IF k = "flag" THEN 0..1 ELSE Values(k)) \ {page[p].input[k]} :
         page' = [page EXCEPT ![p].input[k] = v, ![p].touched = @ \cup {k}]
  /\ UNCHANGED <<env, override, table, call, hands, handed>>

SetsWindow(p) ==
  /\ page[p] # NONE /\ edits < MaxEdits /\ edits' = edits + 1
  /\ \E m \in Pinned(page[p].input["pins"]), v \in {0} \cup Tokens :
       /\ v # page[p].draft[m]
       /\ page' = [page EXCEPT ![p].draft[m] = v, ![p].touched = @ \cup {m}]
  /\ UNCHANGED <<env, override, table, call, hands, handed>>

(* A file is edited by hand, or fcc-context records a window: the boolean  *)
(* is respelled, the secret removed, a model pinned; or a field is locked. *)
ByHand(k) == CASE k = "flag" -> {2} [] k = "token" -> {0} [] OTHER -> Values(k)

EditsFile ==
  /\ hands < MaxHands /\ hands' = hands + 1
  /\ \/ \E k \in Fields : \E v \in ByHand(k) \ {env[k]} :
          /\ env' = [env EXCEPT ![k] = v]
          /\ handed' = IF Held THEN handed \cup {k} ELSE handed
          /\ UNCHANGED <<override, table>>
     \/ \E k \in Fields : \E v \in ByHand(k) \ {override[k]} :
          /\ override' = [override EXCEPT ![k] = v]
          /\ UNCHANGED <<env, table, handed>>
     \/ \E m \in ModelRefs : \E v \in Tokens \ {table[m]} :
          /\ table' = [table EXCEPT ![m] = v]
          /\ handed' = IF Held THEN handed \cup {m} ELSE handed
          /\ UNCHANGED <<env, override>>
  /\ UNCHANGED <<page, call, edits>>

-----------------------------------------------------------------------------
(* Applying.                                                               *)

Apply(p) ==
  /\ page[p] # NONE /\ At(p) = "idle" /\ Dirty(p)
  /\ call' = [call EXCEPT ![p] = [at |-> "sent", payload |-> Payload(p)]]
  /\ UNCHANGED <<env, override, table, page, edits, hands, handed>>

(* Slip: an update is prepared while another one is being committed.       *)
PrepareUnlocked(p) ==
  /\ At(p) = "sent"
  /\ LET target == Overlaid(call[p].payload.values)
         pins   == IF Locked("pins") THEN override["pins"] ELSE target["pins"]
     IN call' = [call EXCEPT ![p] = [at |-> "prepared", payload |-> call[p].payload,
                                     target |-> target, pinned |-> Pinned(pins)]]
  /\ handed' = {}
  /\ UNCHANGED <<env, override, table, page, edits, hands>>

(* prepare_admin_update, under the lock of the configuration.              *)
Prepare(p) ==
  /\ At(p) = "sent" /\ ~Held
  /\ LET target == Overlaid(call[p].payload.values)
         pins   == IF Locked("pins") THEN override["pins"] ELSE target["pins"]
     IN call' = [call EXCEPT ![p] = [at |-> "prepared", payload |-> call[p].payload,
                                     target |-> target, pinned |-> Pinned(pins)]]
  /\ handed' = {}
  /\ UNCHANGED <<env, override, table, page, edits, hands>>

(* The settings or a window are not valid, or no replacement can be built. *)
Refused(p) ==
  /\ At(p) \in {"sent", "prepared"} /\ (At(p) = "sent" => ~Held)
  /\ Answers(p)
  /\ UNCHANGED <<env, override, table, page, edits, hands, handed>>

(* commit_prepared_admin_update: the table, then the file.  Each replaces  *)
(* its file in one step, or fails and leaves it.                           *)
WriteTable(p) ==
  /\ At(p) = "prepared"
  /\ table' = Synced(call[p].pinned, call[p].payload.windows)
  /\ call' = [call EXCEPT ![p].at = "tabled"]
  /\ UNCHANGED <<env, override, page, edits, hands, handed>>

WriteEnv(p) ==
  /\ At(p) = "tabled"
  /\ env' = call[p].target
  /\ Answers(p) /\ handed' = {}
  /\ UNCHANGED <<override, table, page, edits, hands>>

WriteFails(p) ==
  /\ At(p) \in {"prepared", "tabled"}
  /\ Answers(p) /\ handed' = {}
  /\ UNCHANGED <<env, override, table, page, edits, hands>>

(* The process ends: the pages see their calls fail.                       *)
Crash ==
  /\ \E p \in Pages : At(p) \in {"sent", "prepared", "tabled"}
  /\ call' = [p \in Pages |-> NONE] /\ handed' = {}
  /\ UNCHANGED <<env, override, table, page, edits, hands>>

EditorNext ==
  \/ \E p \in Pages :
       \/ Load(p) \/ Types(p) \/ SetsWindow(p) \/ Apply(p)
       \/ Prepare(p) \/ Refused(p) \/ WriteTable(p) \/ WriteEnv(p) \/ WriteFails(p)
  \/ EditsFile \/ Crash

EditorSpec == Init /\ [][EditorNext]_vars

-----------------------------------------------------------------------------
(* Type invariant.                                                         *)
EditorTypeOK ==
  /\ \A k \in Fields : env[k] \in Values(k) /\ override[k] \in {NONE} \cup Values(k)
  /\ table \in [ModelRefs -> {NONE, 0} \cup Tokens]
  /\ \A p \in Pages : At(p) \in {"idle", "sent", "prepared", "tabled"}
  /\ \A p \in Pages : page[p] # NONE => page[p].touched \subseteq Fields \cup ModelRefs

Moves(p, from, to) == At(p) = from /\ At(p)' = to
Applies(p) == Moves(p, "tabled", "idle") /\ env' = call[p].target

(* An applied change is what the user of that page has changed and nothing *)
(* else: every other field keeps what the file holds by then, a secret is  *)
(* neither emptied nor replaced by its mask, and the table has a row for   *)
(* each model that is pinned now.  Excepted are edits by hand during the   *)
(* update itself, and a boolean that is spelled in another way than the    *)
(* editor's: it counts as changed as soon as it is shown.                  *)
AppliedIsEdited(p) ==
  LET c == call[p] IN
  /\ \A k \in Fields \ (c.payload.touched \cup handed) :
       env'[k] = env[k] \/ (k = "flag" /\ c.payload.respelled)
  /\ \A k \in c.payload.touched \cap DOMAIN c.payload.values :
       hands = 0 => env'[k] = c.payload.values[k]
  /\ "token" \notin handed => env'["token"] # Mask /\ (env'["token"] = 0 => env["token"] = 0)
  /\ \A m \in c.pinned : table[m] # NONE

(* A window that the user has left alone keeps its row as long as its      *)
(* model is pinned or a route.                                             *)
WindowsAreKept(p) ==
  \A m \in (call[p].pinned \cup Routes) \ call[p].payload.touched :
    table'[m] = table[m] \/ table[m] = NONE

EditsAreSaved ==
  [][\A p \in Pages : /\ Applies(p) => AppliedIsEdited(p)
                      /\ Moves(p, "prepared", "tabled") => WindowsAreKept(p)]_vars
================================================================================
