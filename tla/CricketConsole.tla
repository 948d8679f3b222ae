--------------------------- MODULE CricketConsole ---------------------------
(***************************************************************************)
(* The cricket side of the scorer's console (OrgLiveScorerPage with its    *)
(* crease panel, player prompt, wicket dialog and voice scoring), one      *)
(* phone against the API.  The toss is recorded on another page; nobody    *)
(* else scores the match.                                                  *)
(*                                                                         *)
(* The phone holds a copy of the match, fetched again after every ball and *)
(* on every message of the match room.  Answers arrive in any order.  The  *)
(* crease is kept on the phone: the API learns it from the next ball.      *)
(***************************************************************************)
EXTENDS Client, Naturals, Sequences, FiniteSets

CONSTANTS
    Batter,         \* the sheet of the side that bats
    Bowler,         \* the sheet of the side that bowls
    OverBalls,      \* legal balls of an over
    InningsBalls,   \* legal balls of an innings
    Extra,          \* the extras armed on this phone
    Phrase,         \* what is called out to it, {} when voice is not used
    MaxMoves        \* bound: recordings started and changes made in the crease panel

ASSUME ConsoleAssumption ==
    /\ None \notin Batter \cup Bowler /\ Batter \cap Bowler = {}
    /\ Cardinality(Batter) > 1
    /\ OverBalls \in Nat \ {0} /\ InningsBalls \in Nat \ {0}
    /\ MaxMoves \in Nat

(* api is the match as the API holds it; calls holds the refetches         *)
(* [kind: "read", copy, own], own being the one a recording waits for, and *)
(* the recording under way.  told: how balls came to be recorded against   *)
(* names that are not on the field.                                        *)

Crease == [striker : Batter \cup {None}, nonStriker : Batter \cup {None},
           bowler : Bowler \cup {None}]
NoCrease == [striker |-> None, nonStriker |-> None, bowler |-> None]

Matches == [toss : BOOLEAN, status : {"scheduled", "in_progress", "completed"},
            innings : 1..2, crease : Crease,
            log : Seq([innings : 1..2, crease : Crease, legal : BOOLEAN,
                       wicket : BOOLEAN, out : Batter \cup {None}])]

-----------------------------------------------------------------------------
(* What the page works out of the copy it holds. *)

InningsDeliveries(m) == SelectSeq(m.log, LAMBDA d : d.innings = m.innings)
Within(s) == {s[i] : i \in DOMAIN s}
DismissedIds(m) == {d.out : d \in Within(InningsDeliveries(m))} \ {None}
Wickets(m) == Len(SelectSeq(InningsDeliveries(m), LAMBDA d : d.wicket))
LegalBalls(m) == Len(SelectSeq(InningsDeliveries(m), LAMBDA d : d.legal))
OverComplete(m) == LegalBalls(m) > 0 /\ LegalBalls(m) % OverBalls = 0
LastBowler(m) == LET ds == InningsDeliveries(m)
                 IN  IF ds = <<>> THEN None ELSE ds[Len(ds)].crease.bowler
AllOutAt == Cardinality(Batter) - 1

\* A completed over means a different bowler.
BowlerOptions(m) == IF OverComplete(m) THEN Bowler \ {LastBowler(m)} ELSE Bowler

\* Mutant: whoever is named, though he has just bowled.
NamedBowler(m, c) == c.bowler

EffectiveBowler(m, c) ==
    IF OverComplete(m) /\ c.bowler = LastBowler(m) THEN None ELSE c.bowler

CreaseReady(m, c) ==
    /\ None \notin {c.striker, c.nonStriker, EffectiveBowler(m, c)}
    /\ {c.striker, c.nonStriker} \cap DismissedIds(m) = {}

FirstInningsOver(m) ==
    /\ m.innings = 1
    /\ \/ LegalBalls(m) >= InningsBalls
       \/ Wickets(m) >= AllOutAt
ScoringLocked(m) == m.status = "completed" \/ FirstInningsOver(m)

Available(m, c) == Batter \ (DismissedIds(m) \cup {c.striker, c.nonStriker})

\* What the match is waiting on: both ends first, then a bowler.
PendingChoice(m, c) ==
    LET open(b) == b = None \/ b \in DismissedIds(m)
        ask(f, options) == [field |-> f, options |-> options]
    IN  IF ~m.toss \/ ScoringLocked(m) THEN None
        ELSE IF open(c.striker) THEN ask("striker", Available(m, c))
        ELSE IF open(c.nonStriker) THEN ask("nonStriker", Available(m, c))
        ELSE IF EffectiveBowler(m, c) = None THEN ask("bowler", BowlerOptions(m))
        ELSE None

\* The scoring tab is locked until the toss; the wicket dialog covers it.
Free == page.match # None /\ page.match.toss /\ page.wicket = None

\* The keypad.  That it is also drawn disabled while a recording is under way
\* is left out: a second tap lands before the screen is drawn again.
CanScore == /\ Free
            /\ CreaseReady(page.match, page.crease)
            /\ ~ScoringLocked(page.match)

\* The two figures the API keeps apart, and the runs it takes as run.
SplitRuns(runs, extra) ==
    CASE extra = "wide" -> [bat |-> 0, extras |-> 1 + runs]
      [] extra = "no_ball" -> [bat |-> runs, extras |-> 1]
      [] extra \in {"bye", "leg_bye"} -> [bat |-> 0, extras |-> IF runs > 1 THEN runs ELSE 1]
      [] OTHER -> [bat |-> runs, extras |-> 0]
Legal(extra) == extra \notin {"wide", "no_ball"}
RunsRun(split, extra) == split.bat + split.extras - (IF Legal(extra) THEN 0 ELSE 1)

-----------------------------------------------------------------------------
(* The API. *)

\* A ball it accepts: the match is on, the toss made, the innings the current
\* one and not over, the dismissal possible off that delivery.
BallAccepted(d) ==
    /\ api.status # "completed" /\ (api.status = "scheduled" => api.toss)
    /\ d.innings = api.innings
    /\ LegalBalls(api) < InningsBalls
    /\ Wickets(api) < AllOutAt
    /\ ~(d.how = "bowled" /\ ~Legal(d.extra))

\* A place left empty keeps the player the state row already holds.
Named(d) == [f \in DOMAIN NoCrease |->
                IF d.crease[f] = None THEN api.crease[f] ELSE d.crease[f]]
Swap(c) == [c EXCEPT !.striker = c.nonStriker, !.nonStriker = c.striker]

\* Ends change on odd runs and with the over; the next batter takes the place
\* of the one who is out.
RotateStrike(c, d, legalAfter) ==
    LET run == IF d.how = "no" /\ RunsRun(d.split, d.extra) % 2 = 1 THEN Swap(c) ELSE c
        new == IF d.how = "no" \/ d.next = None THEN run
               ELSE IF d.out = run.nonStriker THEN [run EXCEPT !.nonStriker = d.next]
               ELSE [run EXCEPT !.striker = d.next]
    IN  IF Legal(d.extra) /\ legalAfter % OverBalls = 0 THEN Swap(new) ELSE new

Recorded(d) ==
    LET c == Named(d)
        row == [innings |-> d.innings, crease |-> c, legal |-> Legal(d.extra),
                wicket |-> d.how # "no",
                out |-> IF d.how # "no" /\ d.out = None THEN c.striker ELSE d.out]
        after == [api EXCEPT !.log = Append(@, row), !.status = "in_progress"]
        over == LegalBalls(after) >= InningsBalls
                    \/ Wickets(after) >= AllOutAt
    IN  [after EXCEPT
            !.crease = RotateStrike(c, d, LegalBalls(after)),
            !.status = IF d.innings = 2 /\ over THEN "completed" ELSE "in_progress"]

\* The last ball is taken back and its crease put back; a switch of innings
\* that no ball followed is taken back with it.  A ball bowled to nobody, or
\* by nobody, leaves those places as they are.
Undone ==
    LET last == api.log[Len(api.log)]
        back == IF last.crease.striker = None THEN api.crease ELSE last.crease
        ball == IF last.crease.bowler = None THEN api.crease ELSE last.crease
    IN  [api EXCEPT !.log = SubSeq(@, 1, Len(@) - 1), !.innings = last.innings,
                    !.crease = [back EXCEPT !.bowler = ball.bowler],
                    !.status = "in_progress"]

Switched == [api EXCEPT !.innings = 2, !.crease = NoCrease]

\* At both ends a batter who is not out, and a bowler who did not bowl the over
\* before.  That the two batters differ is not asked: the page adopts the API's
\* crease one end at a time, and can come to hold one batter at both.
RightNames(d) ==
    LET c == Named(d)
    IN  /\ None \notin {c.striker, c.nonStriker, c.bowler}
        /\ {c.striker, c.nonStriker} \cap DismissedIds(api) = {}
        /\ OverComplete(api) => c.bowler # LastBowler(api)

-----------------------------------------------------------------------------
(* The page: state and the fetch every other step ends in. *)

Read(copy, own) == [kind |-> "read", copy |-> copy, own |-> own]

CricketInit ==
    /\ api \in [toss : BOOLEAN, status : {"scheduled"}, innings : {1},
                  crease : {NoCrease}, log : {<<>>}]
    /\ calls = {Read(api, FALSE)}            \* fetchMatch of the first effect
    /\ page = [at |-> "cricket", match |-> None, crease |-> NoCrease, seen |-> NoCrease,
               wicket |-> None, spoken |-> None, busy |-> FALSE,
               moves |-> 0]
    /\ told = {}

\* The server's crease is adopted where it changed since the last fetch.
Adopt(server) == [f \in DOMAIN NoCrease |->
                     IF server[f] # page.seen[f] THEN server[f] ELSE page.crease[f]]

\* An answer of fetchMatch.  `own` is the one a recording waits for.
Fetched(r) ==
    /\ r.kind = "read" /\ Settle(r)
    /\ page' = [page EXCEPT
         !.match = r.copy,
         !.crease = Adopt(r.copy.crease), !.seen = r.copy.crease,
         !.busy = @ /\ ~r.own]
    /\ UNCHANGED <<api, told>>

\* A fetch that fails leaves the page on its last good copy.
FetchFailed(r) ==
    /\ r.kind = "read" /\ Settle(r)
    /\ page' = [page EXCEPT !.busy = @ /\ ~r.own]
    /\ UNCHANGED <<api, told>>

\* A message of the match room, a reconnection, or Retry on the error screen.
Refetch ==
    /\ Cardinality({c \in calls : c.kind = "read"}) < MaxReads
    /\ Send(Read(api, FALSE))
    /\ UNCHANGED <<api, page, told>>

-----------------------------------------------------------------------------
(* Recording.  Every recording runs through one flight: a second one started *)
(* before the first has been answered and refetched is dropped.              *)

Flight(call, form) ==
    /\ IF page.busy
       THEN /\ page' = form /\ UNCHANGED calls
       ELSE /\ page.moves < MaxMoves
            /\ page' = [form EXCEPT !.busy = TRUE, !.moves = @ + 1]
            /\ Send(call)
    /\ UNCHANGED <<api, told>>

\* `by` says where the ball was called: on the keypad over a current copy of
\* the match, on the keypad over an older one, in the wicket dialog (opened
\* over an earlier copy, and not asked again when it is confirmed), or by voice.
Delivery(by, runs, extra, w) ==
    [kind |-> "post", op |-> "ball", by |-> by, innings |-> page.match.innings, extra |-> extra,
     split |-> SplitRuns(runs, extra), how |-> w.how, out |-> w.out, next |-> w.next,
     crease |-> [page.crease EXCEPT !.bowler = EffectiveBowler(page.match, page.crease)]]
Keypad == IF page.match = api THEN "keypad" ELSE "stale"
NoWicket == [how |-> "no", out |-> None, next |-> None]

TapRuns(runs, extra) ==
    /\ CanScore
    /\ Flight(Delivery(Keypad, runs, extra, NoWicket), page)

\* The crease panel: nobody who is out, nobody twice.
NameCrease(f, who) ==
    /\ Free
    /\ who \in CASE f = "bowler" -> BowlerOptions(page.match)
                 [] f = "striker" -> Batter \ (DismissedIds(page.match) \cup {page.crease.nonStriker})
                 [] OTHER -> Batter \ (DismissedIds(page.match) \cup {page.crease.striker})
    /\ page.moves < MaxMoves
    /\ page' = [page EXCEPT !.crease = [@ EXCEPT ![f] = who], !.moves = @ + 1]
    /\ PageOnly

SwapEnds ==
    /\ Free
    /\ None \notin {page.crease.striker, page.crease.nonStriker}
    /\ page.moves < MaxMoves
    /\ page' = [page EXCEPT !.crease = Swap(@), !.moves = @ + 1]
    /\ PageOnly

\* The prompt for the player the match waits on.  It may be waved away, so it
\* never keeps the scorer from the panel under it.
AnswerPrompt(who) ==
    /\ Free
    /\ LET q == PendingChoice(page.match, page.crease)
       IN  /\ q # None /\ who \in q.options
           /\ page' = [page EXCEPT !.crease = [@ EXCEPT ![q.field] = who]]
    /\ PageOnly

\* The wicket dialog.  Only a run out offers both batters, but changing how
\* he was out afterwards keeps the batter already named: either can be out in
\* any way.  The next batter may be decided after the ball.
OpenWicket ==
    /\ CanScore
    /\ page' = [page EXCEPT !.wicket = page.crease.striker]
    /\ PageOnly

CloseWicket ==
    /\ page.wicket # None
    /\ page' = [page EXCEPT !.wicket = None]
    /\ PageOnly

ConfirmWicket(how, who, extra, next) ==
    /\ page.wicket # None
    /\ who \in {page.wicket, page.crease.striker, page.crease.nonStriker} \ {None}
    /\ next \in Available(page.match, page.crease) \cup {None}
    /\ Flight(Delivery("dialog", 0, extra, [how |-> how, out |-> who, next |-> next]),
              [page EXCEPT !.wicket = None])

\* The buttons over the keypad; switching and finishing ask first.
InningsControls(m) ==
    {"undo"} \cup (IF m.innings = 1 THEN {"switch"} ELSE {})
             \cup (IF m.innings = 2 /\ m.status # "completed" THEN {"finish"} ELSE {})

TapControl(op) ==
    /\ Free /\ op \in InningsControls(page.match)
    /\ Flight([kind |-> "post", op |-> op], page)

-----------------------------------------------------------------------------
(* Voice.  The Start button needs a striker and a bowler; once it listens,   *)
(* every phrase it understands is acted on.  A wicket waits for a tap.       *)

\* How a phrase, as the set of the words heard, is understood.
ParseVoiceCall(said) ==
    LET how == CASE "bowled" \in said -> "bowled"
                 [] "run out" \in said -> "run_out"
                 [] "out" \in said -> "bowled"
                 [] OTHER -> "no"
        extra == CASE "wide" \in said -> "wide" [] "bye" \in said -> "bye"
                   [] OTHER -> "none"
    IN  CASE "undo" \in said -> [kind |-> "undo"]
          [] how # "no" -> [kind |-> "wicket", how |-> how]
          [] "one" \in said -> [kind |-> "runs", runs |-> 1, extra |-> extra]
          [] "dot" \in said \/ extra # "none" -> [kind |-> "runs", runs |-> 0, extra |-> extra]
          [] OTHER -> [kind |-> "unknown"]

StartListening ==
    /\ Phrase # {} /\ Free /\ page.spoken = None
    /\ page.crease.striker # None /\ EffectiveBowler(page.match, page.crease) # None
    /\ page' = [page EXCEPT !.spoken = {}]
    /\ PageOnly

Hear(said) ==
    /\ page.spoken # None /\ page.match # None
    /\ LET call == ParseVoiceCall(said)
       IN  CASE call.kind = "undo" -> Flight([kind |-> "post", op |-> "undo"], page)
             [] call.kind = "runs" -> Flight(Delivery("voice", call.runs, call.extra, NoWicket), page)
             [] call.kind = "wicket" ->
                    /\ page' = [page EXCEPT !.spoken = said]
                    /\ PageOnly
             [] OTHER -> UNCHANGED clientVars

\* "Yes, wicket": the striker of now is out.
ConfirmSpokenWicket ==
    /\ page.spoken \notin {None, {}}
    /\ Flight(Delivery("voice", 0, "none", [how |-> ParseVoiceCall(page.spoken).how,
                                   out |-> page.crease.striker, next |-> None]),
              [page EXCEPT !.spoken = {}])

-----------------------------------------------------------------------------
(* The recording reaches the API and is answered.  The answer may be lost:   *)
(* the page then reports an error, whatever the API has done.                *)

Effect(call) ==
    CASE call.op = "ball"   -> BallAccepted(call)
                                   /\ api' = Recorded(call)
                                   /\ told' = IF RightNames(call) THEN told
                                                  ELSE told \cup {call.by}
      [] call.op = "undo"   -> /\ api' = IF api.log = <<>> THEN api ELSE Undone
                               /\ UNCHANGED told
      [] call.op = "switch" -> api.innings = 1 /\ api' = Switched /\ UNCHANGED told
      [] call.op = "finish" -> /\ api.innings = 2
                               /\ api' = [api EXCEPT !.status = "completed"]
                               /\ UNCHANGED told

Answered(c) ==
    /\ c.kind = "post"
    /\ Effect(c)
    /\ calls' = (calls \ {c}) \cup {Read(api', TRUE)}
    /\ page' = [page EXCEPT !.crease = IF c.op = "switch" THEN NoCrease ELSE @]

RecordingFailed(c) ==
    /\ c.kind = "post" /\ Settle(c)
    /\ \/ UNCHANGED <<api, told>>     \* refused, or never reached the API
       \/ Effect(c)                    \* carried out, and the answer lost
    /\ page' = [page EXCEPT !.busy = FALSE]

\* The toss, made in the setup tab or on another device.
Toss ==
    /\ ~api.toss
    /\ api' = [api EXCEPT !.toss = TRUE]
    /\ UNCHANGED <<calls, page, told>>

-----------------------------------------------------------------------------
CricketNext ==
    \/ \E c \in calls :
           \/ Fetched(c) \/ FetchFailed(c) \/ Answered(c) \/ RecordingFailed(c)
    \/ Refetch \/ Toss
    \/ \E runs \in 0..1, extra \in Extra : TapRuns(runs, extra)
    \/ \E f \in DOMAIN NoCrease, who \in Batter \cup Bowler : NameCrease(f, who)
    \/ SwapEnds
    \/ \E who \in Batter \cup Bowler : AnswerPrompt(who)
    \/ OpenWicket \/ CloseWicket
    \/ \E how \in {"bowled", "run_out"}, who \in Batter,
          extra \in Extra, next \in Batter \cup {None} : ConfirmWicket(how, who, extra, next)
    \/ \E op \in {"undo", "switch", "finish"} : TapControl(op)
    \/ StartListening \/ ConfirmSpokenWicket
    \/ \E said \in Phrase : Hear(said)

CricketSpec == CricketInit /\ [][CricketNext]_clientVars

\* A ball tapped on the keypad is recorded against batters who are not out, at
\* both ends, and a bowler who may bowl it, however the answers and refetches
\* come back: although the API takes any names and keeps its own where the
\* phone leaves one out (OrgLiveScorerPage's creaseReady and effectiveBowler,
\* ScoringEngine's recordCricketBall).
KeypadRight == page.at = "cricket" => "keypad" \notin told
=============================================================================
