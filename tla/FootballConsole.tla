-------------------------- MODULE FootballConsole ---------------------------
(***************************************************************************)
(* The football side of the scorer's console (OrgLiveScorerPage, the       *)
(* substitution dialog, lib/football): one phone against the API.  The     *)
(* match is fetched again after every recording and on every message of    *)
(* the match room; what is offered is worked out of the copy held.         *)
(***************************************************************************)
EXTENDS Client, Naturals, Sequences, FiniteSets

CONSTANTS
    Squads,         \* the players of each side, as a function of the side
    Starters,       \* those of them on the team sheet's starting side
    Kicks,          \* the events tapped, and the clock controls pressed
    MaxTaps         \* bound: recordings the phone starts

ASSUME SquadsAssumption ==
    /\ "A" \in DOMAIN Squads
    /\ \A side \in DOMAIN Squads : Starters[side] \subseteq Squads[side]
    /\ \A side \in DOMAIN Squads : None \notin Squads[side]

Sides == DOMAIN Squads

(* api: [toss, status, half, running, log]; an event of the log is         *)
(* [type, side, player, off].  page.sub is the open dialog: the two names  *)
(* tapped so far and the copy each was read off.  told: changes that did   *)
(* not fit the pitch.                                                      *)

-----------------------------------------------------------------------------
(* What the page works out of the copy it holds. *)

SentOffIds(m) ==
    {p \in UNION {Squads[s] : s \in Sides} :
        \/ \E i \in DOMAIN m.log : m.log[i].player = p /\ m.log[i].type = "red_card"
        \/ Cardinality({i \in DOMAIN m.log : m.log[i].player = p
                                              /\ m.log[i].type = "yellow_card"}) >= 2}

\* Mutant: the starting side, whatever has happened since.
StartingIds(m, side) == Starters[side] \ SentOffIds(m)

\* The starting side, every change applied in order, those sent off taken out.
OnPitchIds(m, side) ==
    LET on[n \in 0..Len(m.log)] ==
            IF n = 0 THEN Starters[side]
            ELSE IF m.log[n].side = side /\ m.log[n].type = "substitution"
                 THEN (on[n - 1] \ {m.log[n].off}) \cup {m.log[n].player}
                 ELSE on[n - 1]
    IN  on[Len(m.log)] \ SentOffIds(m)

Bench(m, side) == Squads[side] \ (OnPitchIds(m, side) \cup SentOffIds(m))

KickedOff(m) == m.status \notin {"scheduled", "toss"}
Underway(m) == KickedOff(m) /\ m.status \notin {"completed", "cancelled"}

\* A name picked for the other side counts as none.
Picked == IF page.match # None /\ page.picked \in Squads[page.side]
          THEN page.picked ELSE None

Pad == page.match # None /\ page.sub = None
CanRecordFootball == Pad /\ Underway(page.match) /\ ~page.busy
ClockLocked == \/ page.busy \/ page.match.status = "cancelled"
               \/ (~KickedOff(page.match) /\ ~page.match.toss)

\* The buttons of the pad, and what each waits for.
Offered(type) ==
    /\ CanRecordFootball
    /\ type \in {"goal", "penalty_goal", "penalty_missed"} => Picked \notin SentOffIds(page.match)
    /\ type \in {"goal", "own_goal"} => page.match.half # "penalties"
    /\ type \in {"yellow_card", "red_card", "injury"} => Picked # None

NextPeriod(half) ==
    CASE half = "1" -> "half_time" [] half = "half_time" -> "2" [] half = "2" -> "extra_1"
      [] half = "extra_1" -> "extra_2" [] half = "extra_2" -> "penalties" [] OTHER -> None

-----------------------------------------------------------------------------
(* The API. *)

Periods == {"1", "2", "extra_1", "extra_2", "penalties"}

Recordable(c) ==
    /\ Underway(api)
    /\ api.half = "half_time" => c.type \notin {"goal", "own_goal", "penalty_goal"}
    /\ api.half = "penalties" =>
           c.type \in {"penalty_goal", "penalty_missed", "yellow_card", "red_card"}
    /\ c.type \in {"goal", "penalty_goal", "penalty_missed", "substitution"} =>
           c.player \notin SentOffIds(api)
    /\ c.type = "substitution" => None \notin {c.player, c.off} /\ c.player # c.off

\* On the pitch: by the last change that names him, or from the start.
IsOn(m, side, p) ==
    LET naming == {i \in DOMAIN m.log : /\ m.log[i].type = "substitution"
                                       /\ m.log[i].side = side
                                       /\ p \in {m.log[i].player, m.log[i].off}}
    IN  /\ p \in Squads[side] \ SentOffIds(m)
        /\ IF naming = {} THEN p \in Starters[side]
           ELSE \E i \in naming : (\A j \in naming : j <= i) /\ m.log[i].player = p

\* One who is on goes off, one of the same squad who is not comes on.
Fits(c) ==
    c.type = "substitution" =>
        /\ IsOn(api, c.side, c.off)
        /\ ~IsOn(api, c.side, c.player)
        /\ c.player \in Squads[c.side] \ SentOffIds(api)

Controllable(c) ==
    /\ api.status # "cancelled"
    /\ c.to = "reopen" <=> api.status = "completed"
    /\ c.to \in Periods \cup {"start"} /\ ~KickedOff(api) => api.toss
    /\ c.to \in {"finish", "half_time"} => KickedOff(api)

Controlled(to) ==
    CASE to = "start"  -> [api EXCEPT !.running = TRUE, !.status = "in_progress",
                                      !.half = IF @ = "half_time" THEN "2" ELSE @]
      [] to = "pause"  -> [api EXCEPT !.running = FALSE]
      [] to = "finish" -> [api EXCEPT !.running = FALSE, !.status = "completed",
                                      !.half = "full_time"]
      [] to = "reopen" -> [api EXCEPT !.status = "in_progress", !.half = "2"]
      [] to = "half_time" -> [api EXCEPT !.running = FALSE, !.status = "half_time",
                                         !.half = "half_time"]
      [] to = "set_minute" -> api
      [] OTHER -> [api EXCEPT !.running = to # "penalties", !.status = "in_progress", !.half = to]

-----------------------------------------------------------------------------
MatchRead(copy, own) == [kind |-> "read", copy |-> copy, own |-> own]

FootballInit ==
    /\ api \in [toss : BOOLEAN, status : {"scheduled"}, half : {"1"}, running : {FALSE},
                log : {<<>>}]
    /\ calls = {MatchRead(api, FALSE)}
    /\ page = [at |-> "football", match |-> None, side |-> "A", picked |-> None,
               sub |-> None, busy |-> FALSE, taps |-> 0]
    /\ told = {}

MatchFetched(c) ==
    /\ c.kind = "read" /\ Settle(c)
    /\ page' = [page EXCEPT !.match = c.copy, !.busy = @ /\ ~c.own]
    /\ UNCHANGED <<api, told>>

MatchFetchFailed(c) ==
    /\ c.kind = "read" /\ Settle(c)
    /\ page' = [page EXCEPT !.busy = @ /\ ~c.own]
    /\ UNCHANGED <<api, told>>

MatchMessage ==
    /\ Cardinality({c \in calls : c.kind = "read"}) < MaxReads
    /\ Send(MatchRead(api, FALSE))
    /\ UNCHANGED <<api, page, told>>

\* Recordings share one flight: a second one, before the first is answered and
\* refetched, is dropped.
Record(call) ==
    /\ ~page.busy /\ page.taps < MaxTaps
    /\ page' = [page EXCEPT !.busy = TRUE, !.taps = @ + 1]
    /\ Send(call)
    /\ UNCHANGED <<api, told>>

TapEvent(type) ==
    /\ type # "substitution" /\ Offered(type)
    /\ Record([kind |-> "post", op |-> "event", type |-> type, side |-> page.side,
               player |-> Picked, off |-> None, seen |-> {page.match}])

\* Switching sides forgets the names picked.
PickSide(s) ==
    /\ Pad /\ s # page.side
    /\ page' = [page EXCEPT !.side = s, !.picked = None]
    /\ PageOnly

PickPlayer(p) ==
    /\ Pad /\ p \in Squads[page.side] /\ p # page.picked
    /\ page' = [page EXCEPT !.picked = p]
    /\ PageOnly

NoneTapped == [off |-> None, on |-> None, over |-> [f \in {"off", "on"} |-> None]]

OpenSub ==
    /\ CanRecordFootball
    /\ page' = [page EXCEPT !.sub = NoneTapped]
    /\ PageOnly

\* A name tapped stays chosen when a later copy no longer lists it; `over` keeps
\* the copy that listed it.
TapSub(f, p) ==
    /\ page.sub # None
    /\ p \in IF f = "off" THEN OnPitchIds(page.match, page.side) ELSE Bench(page.match, page.side)
    /\ page' = [page EXCEPT !.sub = [@ EXCEPT ![f] = p, !.over[f] = page.match]]
    /\ PageOnly

CancelSub ==
    /\ page.sub # None
    /\ page' = [page EXCEPT !.sub = None]
    /\ PageOnly

ConfirmSub ==
    /\ page.sub # None /\ None \notin {page.sub.off, page.sub.on}
    /\ page.sub.off # page.sub.on
    /\ Record([kind |-> "post", op |-> "event", type |-> "substitution", side |-> page.side,
               player |-> page.sub.on, off |-> page.sub.off,
               seen |-> {page.sub.over["off"], page.sub.over["on"]}])

UndoEvent ==
    /\ Pad /\ page.match.log # <<>>
    /\ Record([kind |-> "post", op |-> "undo"])

\* Full time and reopening are confirmed first.  Setting the clock and jumping
\* to a period only wait for the recording under way.
Press(to) ==
    LET m == page.match IN
    /\ Pad
    /\ \/ to = "reopen" /\ m.status = "completed"
       \/ /\ m.status # "completed"
          /\ \/ /\ to = (IF m.running THEN "pause" ELSE "start")
                /\ m.half \notin {"penalties", "half_time"} /\ ~ClockLocked
             \/ to = NextPeriod(m.half) /\ ~ClockLocked /\ KickedOff(m)
             \/ to = "finish" /\ m.status # "cancelled" /\ KickedOff(m)
             \/ to = "set_minute"
             \/ to \in (Periods \cup {"half_time"}) \ {m.half}
    /\ Record([kind |-> "post", op |-> "control", to |-> to])

-----------------------------------------------------------------------------
Carried(c) ==
    CASE c.op = "event" ->
            /\ Recordable(c)
            /\ api' = [api EXCEPT !.log = Append(@, [type |-> c.type, side |-> c.side,
                                                     player |-> c.player, off |-> c.off])]
            /\ told' = IF c.seen = {api} /\ ~Fits(c) THEN told \cup {"misfit"} ELSE told
      [] c.op = "undo" ->
            /\ api.log # <<>>
            /\ api' = [api EXCEPT !.log = SubSeq(@, 1, Len(@) - 1)]
            /\ UNCHANGED told
      [] c.op = "control" -> Controllable(c) /\ api' = Controlled(c.to) /\ UNCHANGED told

\* Success closes the dialog and fetches; the flight lasts until that fetch.
RecordAnswered(c) ==
    /\ c.kind = "post" /\ Carried(c)
    /\ calls' = (calls \ {c}) \cup {MatchRead(api', TRUE)}
    /\ page' = [page EXCEPT !.sub = IF c.op = "event" THEN None ELSE @]

RecordRefused(c) ==
    /\ c.kind = "post" /\ Settle(c)
    /\ UNCHANGED <<api, told>> \/ Carried(c)
    /\ page' = [page EXCEPT !.busy = FALSE]

\* Another official changes a player from another device.
RecordedElsewhere(p, q) ==
    LET change == [type |-> "substitution", side |-> "A", player |-> p, off |-> q] IN
    /\ Len(api.log) < MaxTaps
    /\ Recordable(change) /\ Fits(change)
    /\ api' = [api EXCEPT !.log = Append(@, change)]
    /\ UNCHANGED <<calls, page, told>>

TossDone ==
    /\ ~api.toss /\ api' = [api EXCEPT !.toss = TRUE]
    /\ UNCHANGED <<calls, page, told>>

FootballNext ==
    \/ \E c \in calls :
           \/ MatchFetched(c) \/ MatchFetchFailed(c) \/ RecordAnswered(c) \/ RecordRefused(c)
    \/ MatchMessage \/ TossDone
    \/ \E p, q \in Squads["A"] : RecordedElsewhere(p, q)
    \/ \E k \in Kicks : TapEvent(k) \/ Press(k)
    \/ \E s \in Sides : PickSide(s)
    \/ \E p \in UNION {Squads[s] : s \in Sides}, f \in {"off", "on"} : TapSub(f, p)
    \/ \E p \in UNION {Squads[s] : s \in Sides} : PickPlayer(p)
    \/ OpenSub \/ CancelSub \/ ConfirmSub \/ UndoEvent

FootballSpec == FootballInit /\ [][FootballNext]_clientVars

\* A change whose two names were read off the match as it still is when it is
\* recorded takes off a player who is on the pitch and brings on one who is
\* neither on it nor sent off: the API does not ask who is on the pitch
\* (validateFootballEvent), the page works it out of the sheet and the log
\* (onPitchIds, benchPlayers).
ChangesFit == page.at = "football" => "misfit" \notin told
=============================================================================
