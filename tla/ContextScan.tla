------------------------------- MODULE ContextScan -------------------------------
(***************************************************************************)
(* fcc-context, the command that fills the table of context windows: it    *)
(* reads the settings and the table, resolves the windows provider by      *)
(* provider, by the recorded number, a catalogue, the curated table or     *)
(* probes that a rate limit may delay, and rewrites the whole table from   *)
(* what it has read at the start.  It may fail or be stopped at any step;  *)
(* which models are pinned or routed may differ from run to run.           *)
(*                                                                         *)
(* A row stands for where its number came from, or for the note of a row   *)
(* without one.  One model stands for each kind: two of NVIDIA NIM, one of *)
(* them in the curated table, one that a catalogue publishes, and one of a *)
(* provider for which the command can resolve nothing.                     *)
(*                                                                         *)
(* Operators marked "Slip:" are plausible defective variants of the        *)
(* operator they precede; the specification does not use them.             *)
(***************************************************************************)
EXTENDS Naturals, FiniteSets

CONSTANTS
  Rungs,        \* of PROBE_LADDER
  MaxScans,     \* runs of the command, for model checking
  NONE          \* nothing

VARIABLES
  recorded,     \* context.md: a row of each model, or NONE
  scan,         \* the run under way, or NONE
  asked,        \* the probe of each model of that run
  scans         \* runs so far, for the bound

vars == <<recorded, scan, asked, scans>>

Models == {"nim", "nimCurated", "listed", "foreign"}
Nim == {"nim", "nimCurated"}
Curated == {"nimCurated", "listed"}
Measurable == Models \ {"foreign"}
Of(provider) == IF provider = "nim" THEN Nim ELSE {"listed"}

Numbers == {"manual", "published", "curated", "measured"}
Notes   == {"unknown", "throttled"}
Rows    == {NONE} \cup Numbers \cup Notes

NoProbe == [at |-> "none", rung |-> 0, try |-> 0, row |-> NONE]

Init ==
  /\ recorded \in [Models -> {NONE, "manual", "throttled"}]
  /\ recorded["nimCurated"] # "throttled" /\ recorded["foreign"] # "throttled"
  /\ scan = NONE /\ asked = [m \in Nim |-> NoProbe]
  /\ scans = 0

-----------------------------------------------------------------------------
(* The run.                                                                *)

Ended == scan' = NONE /\ asked' = [m \in Nim |-> NoProbe]

Options ==
  [all: BOOLEAN, providers: {{"nim"}, {"listed"}, {"nim", "listed"}},
   refresh: BOOLEAN, nim: {"probed", "not probed", "no key"}]

(* selected_models_by_provider: of the models that are named or else       *)
(* pinned or routed, those of the providers it can resolve; or everything. *)
Selected(o, wanted) == IF o.all THEN Models ELSE wanted \cap Measurable

Begin ==
  /\ scan = NONE /\ scans < MaxScans /\ scans' = scans + 1
  /\ \E o \in Options, wanted \in SUBSET Models :
       /\ o.all => wanted = Models
       /\ Selected(o, wanted) # {}
       /\ scan' = [at |-> "reading", options |-> o, wanted |-> wanted,
                   selected |-> Selected(o, wanted), known |-> recorded,
                   left |-> o.providers, rows |-> [m \in Models |-> NONE]]
  /\ UNCHANGED <<recorded, asked>>

Covers(ms, r) == scan' = [scan EXCEPT !.left = @ \ {r}, !.at = "reading",
                                      !.rows = [m \in Models |-> IF m \in DOMAIN ms THEN ms[m] ELSE @[m]]]

(* nim_rows: what is recorded or curated is reused.                        *)
Reused(m) ==
  IF scan.options.refresh THEN NONE
  ELSE IF scan.known[m] \in Numbers THEN scan.known[m]
  ELSE IF m \in Curated THEN "curated" ELSE NONE

(* Which NIM models are covered: those selected, or those that it lists.   *)
BeginNim ==
  /\ scan # NONE /\ scan.at = "reading" /\ "nim" \in scan.left
  /\ \E ms \in IF scan.options.all THEN SUBSET Nim ELSE {scan.selected \cap Nim} :
       LET ask == {m \in ms : Reused(m) = NONE} IN
       IF scan.options.nim = "no key" THEN Covers(<<>>, "nim") /\ UNCHANGED asked
       ELSE IF scan.options.nim = "not probed"
       THEN /\ Covers([m \in ms |-> IF m \in ask THEN "unknown" ELSE Reused(m)], "nim")
            /\ UNCHANGED asked
       ELSE /\ scan' = [scan EXCEPT !.at = "probing",
                                    !.rows = [m \in Models |-> IF m \in ms THEN Reused(m) ELSE @[m]]]
            /\ asked' = [m \in Nim |-> IF m \in ask THEN [NoProbe EXCEPT !.at = "sent", !.rung = 1, !.try = 1]
                                       ELSE NoProbe]
  /\ UNCHANGED <<recorded, scans>>

(* probe_nim_model: the next rung, unless the limit is known or a smaller  *)
(* one is pointless.                                                       *)
Answer(m, row) ==
  asked' = [asked EXCEPT ![m] =
    IF row \in Notes /\ asked[m].rung < Rungs THEN [@ EXCEPT !.rung = @ + 1]
    ELSE IF row = "throttled" /\ asked[m].try = 1 THEN [@ EXCEPT !.rung = 0]
    ELSE [@ EXCEPT !.at = "done", !.row = row]]

(* A stated or derived limit; an accepted request or a missing model, or a *)
(* failure; a rate limit.                                                  *)
ProbeAnswered(m) ==
  /\ asked[m].at = "sent" /\ asked[m].rung > 0
  /\ \/ \E row \in {"measured", "unknown", "throttled"} : Answer(m, row)
     \/ asked' = [asked EXCEPT ![m].at = "done", ![m].row = "unknown"]
  /\ UNCHANGED <<recorded, scan, scans>>

(* The wait for a rate limit is over: the ladder again, with another key.  *)
ProbesAgain(m) ==
  /\ asked[m].at = "sent" /\ asked[m].rung = 0
  /\ asked' = [asked EXCEPT ![m].rung = 1, ![m].try = 2]
  /\ UNCHANGED <<recorded, scan, scans>>

Probed ==
  /\ scan # NONE /\ scan.at = "probing"
  /\ \A m \in Nim : asked[m].at # "sent"
  /\ Covers([m \in {n \in Nim : asked[n].at = "done"} |-> asked[m].row], "nim")
  /\ UNCHANGED <<recorded, asked, scans>>

(* Slip: what a catalogue publishes replaces what is recorded.             *)
ResolvedPublished(m, published) ==
  CASE m \in published -> "published"
    [] m \notin published /\ scan.known[m] \in Numbers -> scan.known[m]
    [] OTHER -> IF m \in Curated THEN "curated" ELSE "unknown"

(* resolve_model.                                                          *)
Resolved(m, published) ==
  CASE ~scan.options.refresh /\ scan.known[m] \in Numbers -> scan.known[m]
    [] (scan.options.refresh \/ scan.known[m] \notin Numbers) /\ m \in published -> "published"
    [] OTHER -> IF m \in Curated THEN "curated"
                ELSE IF scan.known[m] # NONE THEN scan.known[m] ELSE "unknown"

(* A provider with a catalogue, which may not be readable: then its curated *)
(* models are covered when everything is.                                  *)
Resolves ==
  /\ scan # NONE /\ scan.at = "reading" /\ "nim" \notin scan.left
  /\ \E r \in scan.left : \E listing \in SUBSET Of(r) : \E published \in SUBSET listing :
       LET ms == IF ~scan.options.all THEN scan.selected \cap Of(r)
                 ELSE IF listing # {} THEN listing ELSE Of(r) \cap Curated
       IN Covers([m \in ms |-> Resolved(m, published)], r)
  /\ UNCHANGED <<recorded, asked, scans>>

(* Slip: rows of the providers that were not visited are left out.         *)
TableVisited == scan.rows

(* The rows of the run, and recorded rows that it did not cover and that   *)
(* are in its scope.                                                       *)
Table ==
  [m \in Models |-> IF scan.rows[m] = NONE /\ m \in scan.selected THEN scan.known[m] ELSE scan.rows[m]]

(* The file is emptied and then written.                                   *)
BeginWrite ==
  /\ scan # NONE /\ scan.at = "reading" /\ scan.left = {}
  /\ \E m \in Models : Table[m] # NONE
  /\ scan' = [scan EXCEPT !.at = "writing"]
  /\ recorded' = [m \in Models |-> NONE]
  /\ UNCHANGED <<asked, scans>>

EndWrite ==
  /\ scan # NONE /\ scan.at = "writing"
  /\ recorded' = Table
  /\ Ended
  /\ UNCHANGED <<scans>>

(* Nothing to write, a list that cannot be read, or the operator stops it. *)
Aborted ==
  /\ scan # NONE /\ Ended
  /\ UNCHANGED <<recorded, scans>>

ScanNext ==
  \/ Begin \/ BeginNim \/ Probed \/ Resolves \/ BeginWrite \/ EndWrite \/ Aborted
  \/ \E m \in Nim : ProbeAnswered(m) \/ ProbesAgain(m)

ScanSpec == Init /\ [][ScanNext]_vars

-----------------------------------------------------------------------------
(* Type invariant.                                                         *)
ScanTypeOK ==
  /\ recorded \in [Models -> Rows]
  /\ scan # NONE => scan.at \in {"reading", "probing", "writing"} /\ scan.rows \in [Models -> Rows]
  /\ \A m \in Nim : asked[m].at \in {"none", "sent", "done"} /\ asked[m].rung \in 0..Rungs

Writes == scan # NONE /\ scan.at = "writing" /\ scan' = NONE /\ recorded' # [m \in Models |-> NONE]

(* The rows that a run must leave out: of models that it was not to cover, *)
(* because they are unpinned or others are named; and of those that it was *)
(* to cover but whose provider it cannot resolve.  The latter it drops     *)
(* although the command and its table say that any row with a number, one  *)
(* written by hand too, is kept as it is on later runs.                    *)
LeftOut(m) ==
  /\ ~scan.options.all
  /\ m \notin scan.wanted \/ m \notin Measurable

(* A recorded number leaves the table with the row that is left out, and   *)
(* in no other way, whether the run visits the model or not; it is         *)
(* replaced only if the run is to refresh, and then only a model that is   *)
(* probed can end without a number.  No row that is left out is written, a *)
(* visited model has one, and no rate limit is recorded for a model before *)
(* it was asked a second time.                                             *)
ScansKeepNumbers ==
  [][Writes =>
      \A m \in Models :
        LET was == scan.known[m] now == recorded'[m] IN
        /\ LeftOut(m) => now = NONE
        /\ ~LeftOut(m) /\ was \in Numbers =>
             now = was \/ (scan.options.refresh /\ (m \in Nim \/ now \in Numbers))
        /\ ~LeftOut(m) /\ (\E r \in scan.options.providers : m \in Of(r)) =>
             now # NONE \/ (m \in Nim /\ scan.options.nim = "no key") \/ scan.options.all
        /\ now = "throttled" => was = "throttled" \/ asked[m].try = 2]_vars
================================================================================
