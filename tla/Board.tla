-------------------------------- MODULE Board --------------------------------
(***************************************************************************)
(* The stadium display: a page nobody touches for the length of a match.   *)
(* It refetches on every message of the match room, whenever its socket    *)
(* opens, and every few seconds while the socket is down.  A play that     *)
(* appears between two looks is called across the screen for a while.      *)
(*                                                                         *)
(* Requests overlap and the API may serve them in any order; an answer to  *)
(* a question older than the one shown is dropped.                         *)
(***************************************************************************)
EXTENDS Client, Naturals, Sequences

CONSTANTS
    Play,       \* kinds of balls and events that are recorded
    MaxPlays,   \* bound: plays recorded
    MaxTurns,   \* bound: tosses called and screens directed
    MaxLooks    \* bound: scoreboard requests under way at once

(* api: the log of plays [n, what], how many were ever recorded, what the   *)
(* organizer put on the screen, the toss, how often either was done.        *)
(* page.asked: the requests under way, oldest first, each with what the API *)
(* read for it (None: not yet), whether a later one is on show already, and *)
(* whether the coin waits for it to stop.                                   *)
(* calls: messages of the room on their way to the display.                 *)
(* told: plays called so far, those called twice, and whether two requests  *)
(* were served the other way round.                                         *)

FlashedPlays == {"wicket", "six", "four", "wide", "no_ball", "bye", "leg_bye",
                 "goal", "penalty_goal", "own_goal", "penalty_missed",
                 "yellow_card", "red_card", "substitution"}

\* The call a play deserves; a dot ball or a single deserves none.
FlashFor(play) == IF play.what \in FlashedPlays THEN play ELSE None

\* What the organizer may put up; otherwise the toss until the first play, then the score.
Directed == {"toss", "ad", "lineups", "scorecard"}
ResolvedStage ==
    CASE api.stage \in Directed -> api.stage
      [] api.made = 0 -> "toss"
      [] OTHER -> "live"

BoardData == [log |-> api.log, stage |-> ResolvedStage]

\* What the crowd sees: a call covers everything, an ad the rest; the coin spins
\* where the toss is shown.
OnScreen ==
    CASE page.data = None -> "connecting"
      [] page.flash # None -> "flash"
      [] page.data.stage = "toss" /\ page.flipping -> "coin"
      [] OTHER -> page.data.stage

BoardInit ==
    /\ api = [log |-> <<>>, made |-> 0, stage |-> "auto", toss |-> "none", turns |-> 0]
    /\ calls = {}
    /\ page = [at |-> "board", data |-> None,
               asked |-> <<[copy |-> None, older |-> FALSE, stops |-> FALSE]>>,
               socket |-> "down", heard |-> FALSE, flash |-> None,
               flipping |-> FALSE, timers |-> 0, ending |-> FALSE]
    /\ told = [called |-> {}, again |-> FALSE, crossed |-> FALSE]

Question(stops) == [copy |-> None, older |-> FALSE, stops |-> stops]

\* fetchScoreboard; several asked at once are one more than the bound allows.
Asked(p) == IF Len(p.asked) < MaxLooks
            THEN [p EXCEPT !.asked = Append(@, Question(FALSE))] ELSE p

-----------------------------------------------------------------------------
(* The match goes on; whoever is subscribed hears of it. *)

Tell(types) ==
    IF page.heard THEN calls' = calls \cup {[kind |-> "message", type |-> t] : t \in types}
    ELSE UNCHANGED calls

\* Play takes the screen off whatever was put up.
Live(room) == [room EXCEPT !.stage = IF @ \in Directed THEN "auto" ELSE @]

RecordPlay(w) ==
    /\ api.made < MaxPlays /\ api.toss = "decided"
    /\ api' = Live([api EXCEPT !.log = Append(@, [n |-> api.made + 1, what |-> w]), !.made = @ + 1])
    /\ Tell({"score"} \cup IF api.stage \in Directed THEN {"stage"} ELSE {})
    /\ UNCHANGED <<page, told>>

UndoPlay ==
    /\ api.log # <<>>
    /\ api' = [api EXCEPT !.log = SubSeq(@, 1, Len(@) - 1)]
    /\ Tell({"score"}) /\ UNCHANGED <<page, told>>

DirectScreen(stage) ==
    /\ stage # api.stage /\ api.turns < MaxTurns
    /\ api' = [api EXCEPT !.stage = stage, !.turns = @ + 1]
    /\ Tell({"stage"}) /\ UNCHANGED <<page, told>>

\* An ad with a set time: the API resolves the stage back by itself.
ItemEnds ==
    /\ api.stage = "ad"
    /\ api' = [api EXCEPT !.stage = "auto"]
    /\ UNCHANGED <<calls, page, told>>

TossCalled ==
    /\ api.toss = "none" /\ api.turns < MaxTurns
    /\ api' = [api EXCEPT !.toss = "called", !.turns = @ + 1]
    /\ Tell({"toss_called"}) /\ UNCHANGED <<page, told>>

\* The choice is made, or a coin tossed by hand noted: the squads walk out.
TossDecided ==
    /\ api.toss # "decided"
    /\ api' = [api EXCEPT !.toss = "decided", !.stage = "lineups"]
    /\ Tell({"toss_decided", "stage"}) /\ UNCHANGED <<page, told>>

TossReset ==
    /\ api.toss # "none" /\ api.made = 0
    /\ api' = [api EXCEPT !.toss = "none", !.stage = "toss"]
    /\ Tell({"toss_reset", "stage"}) /\ UNCHANGED <<page, told>>

-----------------------------------------------------------------------------
(* The socket, and what arrives on it. *)

\* It subscribes, and catches up on what happened meanwhile.
SocketOpens ==
    /\ page.socket = "down"
    /\ page' = Asked([page EXCEPT !.socket = "up"])
    /\ PageOnly

\* The gateway takes the subscription up.
Subscribed ==
    /\ page.socket = "up" /\ ~page.heard
    /\ page' = [page EXCEPT !.heard = TRUE]
    /\ PageOnly

SocketCloses ==
    /\ page.socket = "up"
    /\ page' = [page EXCEPT !.socket = "down", !.heard = FALSE]
    /\ calls' = {}
    /\ UNCHANGED <<api, told>>

BoardMessage(c) ==
    /\ Settle(c)
    /\ page' = CASE c.type = "toss_called" ->
                       [page EXCEPT !.flipping = TRUE, !.timers = @ + 1]
                 [] c.type = "toss_reset" ->
                       Asked([page EXCEPT !.flipping = FALSE])
                 [] OTHER -> Asked(page)
    /\ UNCHANGED <<api, told>>

\* Without the socket: every four seconds.
BoardPolls ==
    /\ page.socket = "down"
    /\ page' = Asked(page) /\ page' # page
    /\ PageOnly

-----------------------------------------------------------------------------
(* Requests. *)

Without(s, i) == SubSeq(s, 1, i - 1) \o SubSeq(s, i + 1, Len(s))

\* The API reads for one of the requests under way.
Serve(i) ==
    /\ page.asked[i].copy = None
    /\ page' = [page EXCEPT !.asked[i].copy = BoardData]
    /\ told' = [told EXCEPT !.crossed =
                   @ \/ \E k \in i+1..Len(page.asked) : page.asked[k].copy \notin {None, BoardData}]
    /\ UNCHANGED <<api, calls>>

\* Mutant: every answer is shown as it comes.
AnyAnswer(i) ==
    Without([k \in DOMAIN page.asked |-> page.asked[k]], i)

\* Those asked before i are answered too late from now on.
LaterAnswers(i) ==
    Without([k \in DOMAIN page.asked |->
                [page.asked[k] EXCEPT !.older = @ \/ k < i]], i)

\* flashNewestPlay: exactly one play more than at the last look.
NewestPlay(p, data) ==
    IF p.data = None \/ Len(data.log) # Len(p.data.log) + 1 THEN None
    ELSE FlashFor(data.log[Len(data.log)])

\* One timer for the ad on show, however often it is fetched.
EndsLater(p, data) ==
    /\ data.stage = "ad"
    /\ p.data # None /\ p.data.stage = "ad" => p.ending

ScoreboardFetched(i) ==
    LET r == page.asked[i]
        flash == NewestPlay(page, r.copy) IN
    /\ r.copy # None
    /\ IF r.older
       THEN /\ page' = [page EXCEPT !.asked = LaterAnswers(i), !.flipping = @ /\ ~r.stops]
            /\ UNCHANGED told
       ELSE /\ page' = [page EXCEPT !.asked = LaterAnswers(i), !.data = r.copy,
                           !.flash = IF flash = None THEN @ ELSE flash,
                           !.flipping = @ /\ ~r.stops,
                           !.ending = EndsLater(page, r.copy)]
            /\ told' = IF flash = None THEN told
                       ELSE [told EXCEPT !.called = @ \cup {flash},
                                         !.again = @ \/ flash \in told.called]
    /\ UNCHANGED <<api, calls>>

\* Mutant: the timer's own await throws, and the coin spins on.
FailedMidToss(i) ==
    /\ page' = [page EXCEPT !.asked = Without(@, i)]
    /\ PageOnly

\* The error is logged and the screen left as it is, but for the coin.
ScoreboardFetchFailed(i) ==
    /\ page' = [page EXCEPT !.asked = Without(@, i),
                            !.flipping = @ /\ ~page.asked[i].stops]
    /\ PageOnly

-----------------------------------------------------------------------------
(* Timers. *)

FlashCleared ==
    /\ page.flash # None
    /\ page' = [page EXCEPT !.flash = None]
    /\ PageOnly

\* The coin has spun: look at the result first.  It stops when that request has
\* ended either way, and a coin called again meanwhile is stopped with it.
CoinSpun ==
    /\ page.timers > 0
    /\ page' = [page EXCEPT !.timers = @ - 1, !.asked = Append(@, Question(TRUE))]
    /\ PageOnly

\* The time of the ad on show is up: ask what comes next, once.
ItemExpires ==
    /\ page.ending /\ api.stage # "ad"
    /\ page' = Asked([page EXCEPT !.ending = FALSE])
    /\ PageOnly

BoardNext ==
    \/ \E w \in Play : RecordPlay(w)
    \/ \E stage \in Directed \cup {"auto"} : DirectScreen(stage)
    \/ UndoPlay \/ ItemEnds \/ TossCalled \/ TossDecided \/ TossReset
    \/ SocketOpens \/ Subscribed \/ SocketCloses \/ BoardPolls
    \/ \E c \in calls : BoardMessage(c)
    \/ \E i \in DOMAIN page.asked : Serve(i) \/ ScoreboardFetched(i) \/ ScoreboardFetchFailed(i)
    \/ FlashCleared \/ CoinSpun \/ ItemExpires

\* The browser's timers fire.  A request ends, answered or failed: a server that
\* is down refuses it, but apiRequest sets no limit of its own, and one that takes
\* the request and never answers is left out.  Nothing is asked of the socket.
RequestEnds == page.asked # <<>> /\ (ScoreboardFetched(1) \/ ScoreboardFetchFailed(1))

BoardFairness ==
    /\ WF_clientVars(page.at = "board" /\ FlashCleared)
    /\ WF_clientVars(page.at = "board" /\ CoinSpun)
    /\ WF_clientVars(page.at = "board" /\ RequestEnds)

BoardSpec == BoardInit /\ [][BoardNext]_clientVars /\ BoardFairness

\* A play is called across the ground once, whatever overlaps: polls, messages,
\* reconnects, undone plays, answers out of order.  Left out: the API serving two
\* of the requests the other way round (fetchScoreboard, flashNewestPlay).
CalledOnce == page.at = "board" /\ told.again => told.crossed

\* What covers the score goes away by itself, with the socket down for good and
\* every request failing; the coin goes once its own request has ended (showFlash,
\* COIN_FLIP_MS, fetchScoreboard).
ScoreComesBack ==
    page.at = "board" ~> (page.at = "board" /\ OnScreen \notin {"flash", "coin"})
=============================================================================
