----------------------------- MODULE MatchSetup -----------------------------
(***************************************************************************)
(* The setup tab of the scorer's console: the toss panel and the team      *)
(* sheet editor, and how the console opens on a tab.  The editor works on  *)
(* a copy of the sheet, taken again whenever the match is fetched or the   *)
(* other side is chosen.                                                   *)
(***************************************************************************)
EXTENDS Client, Naturals, Sequences, FiniteSets

CONSTANTS
    SheetPlayers,   \* the players of each side, as a function of the side
    MaxSetup        \* bound: what the organizer changes or sends

(* api: [toss, status, sheet]; a sheet lists rows [player, in, captain,    *)
(* keeper] in batting order.  told: sheets the API took that are no sheet  *)
(* of the side they were sent for.                                         *)

SetupSides == DOMAIN SheetPlayers

\* Players are known by their numbers, and one of the sides is called A.
SheetsGiven ==
    /\ "A" \in SetupSides
    /\ \A s \in SetupSides : SheetPlayers[s] \in SUBSET Nat /\ IsFiniteSet(SheetPlayers[s])
ASSUME SheetsAssumption == SheetsGiven

SheetRow(p) == [player |-> p, in |-> TRUE, captain |-> FALSE, keeper |-> FALSE]
DefaultSheet(s) == [i \in 1..Cardinality(SheetPlayers[s]) |->
    SheetRow(CHOOSE p \in SheetPlayers[s] :
                 Cardinality({q \in SheetPlayers[s] : q < p}) = i - 1)]

SetupRead == [kind |-> "read", copy |-> api, chosen |-> page.chosen]

SetupInit ==
    /\ api = [toss |-> "none", status |-> "scheduled",
              sheet |-> [s \in SetupSides |-> DefaultSheet(s)]]
    /\ calls = {[kind |-> "read", copy |-> api, chosen |-> FALSE]}
    /\ page = [at |-> "setup", match |-> None, tab |-> "scoring", chosen |-> FALSE,
               mode |-> "manual", submitting |-> FALSE, flipping |-> FALSE,
               side |-> "A", rows |-> <<>>, saving |-> FALSE, acts |-> 0]
    /\ told = {}

\* Leaving the setup tab unmounts its panels: what they hold is forgotten, and
\* answers they still wait for find them gone.
Leaving(tab) == page.tab = "setup" /\ tab # "setup"
Turned(p, tab) ==
    IF ~Leaving(tab) THEN [p EXCEPT !.tab = tab]
    ELSE [p EXCEPT !.tab = tab, !.mode = "manual", !.side = "A",
                   !.rows = p.match.sheet["A"],
                   !.submitting = FALSE, !.flipping = FALSE, !.saving = FALSE]
Orphaned(tab) ==
    {IF Leaving(tab) /\ c.kind # "read" THEN [c EXCEPT !.gone = TRUE] ELSE c : c \in calls}

\* A fetch asked before the scorer chose a tab opens the one that needs doing.
SetupFetched(c) ==
    /\ c.kind = "read" /\ c \in calls
    /\ LET tab == IF c.chosen THEN page.tab
                  ELSE IF c.copy.toss # "decided" THEN "setup" ELSE "scoring"
       IN  /\ page' = Turned([page EXCEPT !.match = c.copy,
                                          !.rows = c.copy.sheet[page.side]], tab)
           /\ calls' = Orphaned(tab) \ {c}
    /\ UNCHANGED <<api, told>>

SetupFetchFailed(c) ==
    /\ c.kind = "read" /\ Settle(c)
    /\ UNCHANGED <<api, page, told>>

\* A lineup or toss message of the match room.
SetupMessage ==
    /\ Cardinality({c \in calls : c.kind = "read"}) < MaxReads
    /\ Send(SetupRead)
    /\ UNCHANGED <<api, page, told>>

OpenTab(t) ==
    /\ page.match # None /\ t # page.tab
    /\ page' = [Turned(page, t) EXCEPT !.chosen = TRUE]
    /\ calls' = Orphaned(t)
    /\ UNCHANGED <<api, told>>

Shown == page.match # None /\ page.tab = "setup"
Counted(p) == [p EXCEPT !.acts = @ + 1]

-----------------------------------------------------------------------------
(* The toss panel. *)

SendToss(op, form) ==
    /\ Shown /\ ~page.submitting /\ page.acts < MaxSetup
    /\ page' = Counted([form EXCEPT !.submitting = TRUE])
    /\ Send([kind |-> "toss", op |-> op, gone |-> FALSE])
    /\ UNCHANGED <<api, told>>

Mode(m) ==
    /\ Shown /\ page.match.toss = "none" /\ m # page.mode
    /\ page' = [page EXCEPT !.mode = m]
    /\ PageOnly

Flip == /\ Shown /\ page.match.toss = "none" /\ page.mode = "digital" /\ ~page.flipping
        /\ SendToss("call", [page EXCEPT !.flipping = TRUE])
Decide == Shown /\ page.match.toss = "won" /\ SendToss("decide", page)
Manual == Shown /\ page.match.toss = "none" /\ page.mode = "manual" /\ SendToss("manual", page)
RetryToss == /\ Shown /\ page.match.toss # "none" /\ page.match.status = "scheduled"
             /\ SendToss("reset", page)

TossTo(op) == CASE op = "call" -> "won" [] op = "reset" -> "none" [] OTHER -> "decided"
TossAllowed(op) ==
    CASE op \in {"call", "manual"} -> api.toss = "none"
      [] op = "decide" -> api.toss = "won"
      [] op = "reset" -> api.toss # "none" /\ api.status = "scheduled"

\* The match is fetched at once, after a flip when the coin has settled.
TossAnswered(c) ==
    /\ c.kind = "toss" /\ TossAllowed(c.op)
    /\ api' = [api EXCEPT !.toss = TossTo(c.op)]
    /\ page' = [page EXCEPT !.submitting = @ /\ c.gone]
    /\ calls' = (calls \ {c}) \cup {IF c.op = "call" THEN [kind |-> "coin", gone |-> c.gone]
                   ELSE [kind |-> "read", copy |-> api', chosen |-> page.chosen]}
    /\ UNCHANGED told

CoinSettles(c) ==
    /\ c.kind = "coin" /\ c \in calls
    /\ page' = [page EXCEPT !.flipping = @ /\ c.gone]
    /\ calls' = (calls \ {c}) \cup {SetupRead}
    /\ UNCHANGED <<api, told>>

TossFailed(c) ==
    /\ c.kind = "toss" /\ Settle(c)
    /\ api' \in {api} \cup IF TossAllowed(c.op) THEN {[api EXCEPT !.toss = TossTo(c.op)]} ELSE {}
    /\ page' = [page EXCEPT !.submitting = @ /\ c.gone,
                            !.flipping = @ /\ (c.op = "call" => c.gone)]
    /\ UNCHANGED told

-----------------------------------------------------------------------------
(* The team sheet. *)

\* Mutant: the working copy is only reloaded by a fetch.
KeepRows(s) ==
    /\ Shown /\ s # page.side
    /\ page' = [page EXCEPT !.side = s]
    /\ PageOnly

ChooseSide(s) ==
    /\ Shown /\ s # page.side
    /\ page' = [page EXCEPT !.side = s, !.rows = page.match.sheet[s]]
    /\ PageOnly

MoveRow(i, j) ==
    /\ Shown /\ page.acts < MaxSetup
    /\ {i, j} \subseteq DOMAIN page.rows
    /\ page' = Counted([page EXCEPT !.rows = [@ EXCEPT ![i] = page.rows[j], ![j] = page.rows[i]]])
    /\ PageOnly

\* One captain and one keeper to a side; anyone may be in or out.
Ticked(rows, i, f) ==
    [k \in DOMAIN rows |-> IF k = i THEN [rows[k] EXCEPT ![f] = ~@]
                           ELSE IF f = "in" THEN rows[k] ELSE [rows[k] EXCEPT ![f] = FALSE]]

ToggleRow(i, f) ==
    /\ Shown /\ page.acts < MaxSetup /\ i \in DOMAIN page.rows
    /\ page' = Counted([page EXCEPT !.rows = Ticked(page.rows, i, f)])
    /\ PageOnly

SaveSheet ==
    /\ Shown /\ ~page.saving /\ page.acts < MaxSetup
    /\ page' = Counted([page EXCEPT !.saving = TRUE])
    /\ Send([kind |-> "sheet", side |-> page.side, rows |-> page.rows, gone |-> FALSE])
    /\ UNCHANGED <<api, told>>

\* The side's own players, each once, one captain and one keeper at most.
SheetSound(s, rows) ==
    /\ {rows[i].player : i \in DOMAIN rows} = SheetPlayers[s]
    /\ Len(rows) = Cardinality(SheetPlayers[s])
    /\ \A f \in {"captain", "keeper"} : Cardinality({i \in DOMAIN rows : rows[i][f]}) <= 1

SheetStored(c) ==
    /\ api' = [api EXCEPT !.sheet = [@ EXCEPT ![c.side] = c.rows]]
    /\ told' = IF SheetSound(c.side, c.rows) THEN told ELSE told \cup {"unsound"}

SheetAnswered(c) ==
    /\ c.kind = "sheet" /\ SheetStored(c)
    /\ calls' = (calls \ {c}) \cup {[kind |-> "read", copy |-> api', chosen |-> page.chosen]}
    /\ page' = [page EXCEPT !.saving = @ /\ c.gone]

SheetFailed(c) ==
    /\ c.kind = "sheet" /\ Settle(c)
    /\ UNCHANGED <<api, told>> \/ SheetStored(c)
    /\ page' = [page EXCEPT !.saving = @ /\ c.gone]

SetupNext ==
    \/ \E c \in calls :
           \/ SetupFetched(c) \/ SetupFetchFailed(c) \/ TossAnswered(c) \/ TossFailed(c)
           \/ SheetAnswered(c) \/ SheetFailed(c) \/ CoinSettles(c)
    \/ SetupMessage \/ Flip \/ Decide \/ Manual \/ RetryToss \/ SaveSheet
    \/ \E t \in {"setup", "scoring", "screen"} : OpenTab(t)
    \/ \E m \in {"digital", "manual"} : Mode(m)
    \/ \E s \in SetupSides : ChooseSide(s)
    \/ \E i \in DOMAIN page.rows, f \in {"in", "captain", "keeper"} : ToggleRow(i, f)
    \/ \E i \in DOMAIN page.rows : MoveRow(i, i + 1)

\* Every sheet sent names the players of the side it is sent for, each once,
\* with one captain and one keeper at most, whatever the order of edits, side
\* changes, refetches and saves (MatchLineupEditor).
SheetsSound == page.at = "setup" => "unsound" \notin told
=============================================================================
