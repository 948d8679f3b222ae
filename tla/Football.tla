------------------------------ MODULE Football ------------------------------
(***************************************************************************)
(* One football match: its row, the state row with score and clock, the    *)
(* log of events and the toss (ScoringEngine, TossService, MatchController *)
(* cancel).                                                                *)
(*                                                                         *)
(* A scoring request reads the match row and judges it before it takes the *)
(* match lock; the state row and the log are read under the lock.  So each *)
(* is a Read... action, which keeps the row as it was read, and a Commit   *)
(* action, which saves only the columns that differ from that read.  The   *)
(* toss reads under the lock and is one action each.                       *)
(***************************************************************************)
EXTENDS Integers, Sequences, FiniteSets, SequencesExt

CONSTANTS
    Console,      \* API workers serving scorers and the organizer
    Squad,        \* players of each side, [Sides -> SUBSET players]
    NoPlayer,     \* an event whose player was not named
    EventTypes,   \* the kinds of event recorded
    Controls,     \* the clock controls used
    HalfLength,   \* length of a half, and of a half of extra time
    ExtraHalf,
    MaxEvents, MaxTime   \* bounds on the log and on time

Sides == {"a", "b"}
Periods == {"1", "2", "extra_1", "extra_2", "penalties"}
AllEvents == {"goal", "own_goal", "penalty_goal", "penalty_missed", "yellow_card",
              "red_card", "substitution", "injury"}
AllControls == Periods \union {"start", "pause", "half_time", "set_minute", "finish", "reopen"}

ASSUME FootballAssumption ==
    /\ Squad \in [Sides -> SUBSET UNION {Squad[s] : s \in Sides}]
    /\ Squad["a"] \intersect Squad["b"] = {} /\ \A s \in Sides : NoPlayer \notin Squad[s]
    /\ EventTypes \subseteq AllEvents /\ Controls \subseteq AllControls
    /\ HalfLength \in Nat /\ ExtraHalf \in Nat /\ MaxEvents \in Nat /\ MaxTime \in Nat

VARIABLES
    match,     \* matches row: status, winner and toss
    state,     \* football_match_states row
    log,       \* football_events in sequence order; of an event's period only
               \* whether it was the shoot-out
    now,       \* the server's clock
    request    \* what each console has read and not yet written

vars == <<match, state, log, now, request>>

NotKickedOff == {"scheduled", "toss"}
NoRow == [status |-> "", winner |-> "", toss |-> ""]
NoRequest == [op |-> "none", was |-> NoRow]

Idle(w) == request[w].op = "none"
Keep(w, op) == request' = [request EXCEPT ![w] = [op |-> op, was |-> match]]
Done(w) == request' = [request EXCEPT ![w] = NoRequest]

\* Eloquent's save: the columns of m that differ from the row as it was read.
Saved(was, m) == [c \in DOMAIN match |-> IF m[c] # was[c] THEN m[c] ELSE match[c]]

Other(s) == IF s = "a" THEN "b" ELSE "a"

----------------------------------------------------------------------------
(* The score *)

\* Mutant: the period the match is in now decides, not the event's own.
ShootOutNow(e) == state.half = "penalties"

InShootOut(e) == e.shootOut

Raised(n, d) == IF n + d > 0 THEN n + d ELSE 0

\* applyGoal: an event's effect on the scoreline, d = 1 or -1.
Scored(st, e, d) ==
    IF InShootOut(e)
    THEN IF e.type = "penalty_goal" THEN [st EXCEPT !.pens[e.side] = Raised(@, d)] ELSE st
    ELSE CASE e.type \in {"goal", "penalty_goal"} -> [st EXCEPT !.score[e.side] = Raised(@, d)]
           [] e.type = "own_goal" -> [st EXCEPT !.score[Other(e.side)] = Raised(@, d)]
           [] OTHER -> st

\* Mutant: only a red card sends off.
ShownRed(p) == \E i \in DOMAIN log : log[i].player = p /\ log[i].type = "red_card"

\* sentOffPlayerIds: a red card, or a second yellow.
SentOff(p) ==
    \/ \E i \in DOMAIN log : log[i].player = p /\ log[i].type = "red_card"
    \/ Cardinality({i \in DOMAIN log : log[i].player = p /\ log[i].type = "yellow_card"}) >= 2

\* Level after play: the shoot-out decides, if one was taken.
Leader(st) ==
    CASE st.score["a"] > st.score["b"] -> "a"
      [] st.score["b"] > st.score["a"] -> "b"
      [] st.pens["a"] > st.pens["b"] -> "a"
      [] st.pens["b"] > st.pens["a"] -> "b"
      [] OTHER -> ""

\* Mutant: a shoot-out is not looked at.
ConcludedOnScore(m, st) == [m EXCEPT !.status = "completed",
                                     !.winner = Leader([st EXCEPT !.pens = [s \in Sides |-> 0]])]

Concluded(m, st) == [m EXCEPT !.status = "completed", !.winner = Leader(st)]

----------------------------------------------------------------------------
(* The clock *)

\* clock_seconds: the folded time and what has run since.
Clock == state.elapsed + IF state.running THEN now - state.since ELSE 0

RunClock(st) == [st EXCEPT !.running = TRUE, !.since = now]
StopClock(st) == [st EXCEPT !.elapsed = Clock, !.running = FALSE, !.since = 0]

\* Mutant: starting a running clock restarts its reference point.
StartAnyClock(st) == RunClock(st)

StartClock(st) == IF st.running THEN st ELSE RunClock(st)

PeriodStart(p) ==
    CASE p = "2" -> HalfLength
      [] p = "extra_1" -> 2 * HalfLength
      [] p = "extra_2" -> 2 * HalfLength + ExtraHalf
      [] OTHER -> 0

\* Kicking off again after the break is the second half.
SecondHalf(st) ==
    IF st.half = "half_time"
    THEN [st EXCEPT !.half = "2",
                    !.elapsed = IF @ > PeriodStart("2") THEN @ ELSE PeriodStart("2")]
    ELSE st

----------------------------------------------------------------------------
(* The toss *)

Toss(from, to) ==
    /\ match.toss \in from
    /\ match' = [match EXCEPT !.toss = to]
    /\ UNCHANGED <<state, log, now, request>>

TossCall == Toss({"none"}, "won")
TossDecide == Toss({"won"}, "decided")
TossManual == Toss({"none"}, "decided")
TossReset == match.status = "scheduled" /\ Toss({"won", "decided"}, "none")

----------------------------------------------------------------------------
(* Recording and undoing an event *)

\* Mutant: an event may start the match.
PlayableAnyTime == match.status \notin {"cancelled", "completed"}

Playable == match.status \notin {"cancelled", "completed"} \union NotKickedOff

ReadEvent(w) ==
    /\ Idle(w)
    /\ Playable
    /\ Keep(w, "event")
    /\ UNCHANGED <<match, state, log, now>>

OnSquad(side, p) == p \in Squad[side] \union {NoPlayer}

\* What validateFootballEvent and the period refuse.
Allowed(type, side, p) ==
    /\ state.half = "half_time" => type \notin {"goal", "own_goal", "penalty_goal"}
    /\ state.half = "penalties" =>
           type \in {"penalty_goal", "penalty_missed", "yellow_card", "red_card"}
    /\ OnSquad(side, p)
    /\ type = "substitution" => p # NoPlayer
    /\ type \in {"goal", "penalty_goal", "penalty_missed", "substitution"} => ~ SentOff(p)

CommitEvent(w, type, side, p) ==
    LET e == [type |-> type, side |-> side, player |-> p,
              shootOut |-> state.half = "penalties"] IN
    /\ request[w].op = "event"
    /\ IF Allowed(type, side, p)
       THEN /\ Len(log) < MaxEvents
            /\ log' = Append(log, e)
            /\ state' = Scored(state, e, 1)
       ELSE UNCHANGED <<log, state>>
    /\ Done(w)
    /\ UNCHANGED <<match, now>>

ReadUndo(w) ==
    /\ Idle(w)
    /\ Keep(w, "undo")
    /\ UNCHANGED <<match, state, log, now>>

\* A match that was finished when the undo was asked for is settled again.
CommitUndo(w) ==
    LET was == request[w].was IN
    /\ request[w].op = "undo"
    /\ IF log = <<>>
       THEN UNCHANGED <<log, state, match>>
       ELSE /\ log' = Front(log)
            /\ state' = Scored(state, Last(log), -1)
            /\ match' = IF was.status = "completed" THEN Saved(was, Concluded(was, state'))
                                                    ELSE match
    /\ Done(w)
    /\ UNCHANGED now

----------------------------------------------------------------------------
(* The clock controls *)

ReadControl(w, c) ==
    /\ Idle(w)
    /\ c \in Controls
    /\ match.status # "cancelled"
    /\ c = "reopen" <=> match.status = "completed"
    /\ c \in Periods \union {"start"} /\ match.status \in NotKickedOff => match.toss = "decided"
    /\ c \in {"finish", "half_time"} => match.status \notin NotKickedOff
    /\ Keep(w, c)
    /\ UNCHANGED <<match, state, log, now>>

Kept(st, m, w) ==
    /\ state' = st
    /\ match' = Saved(request[w].was, m)
    /\ Done(w)
    /\ UNCHANGED <<log, now>>

Start(w) ==
    /\ request[w].op = "start"
    /\ Kept(StartClock(SecondHalf(state)), [request[w].was EXCEPT !.status = "in_progress"], w)

Pause(w) ==
    /\ request[w].op = "pause"
    /\ Kept(StopClock(state), request[w].was, w)

HalfTime(w) ==
    /\ request[w].op = "half_time"
    /\ Kept([StopClock(state) EXCEPT !.half = "half_time"],
            [request[w].was EXCEPT !.status = "half_time"], w)

SetHalf(w) ==
    LET p == request[w].op
        entered == [StopClock(state) EXCEPT !.half = p]
    IN
    /\ p \in Periods
    /\ Kept(IF p = "penalties" THEN entered
            ELSE RunClock([entered EXCEPT !.elapsed = PeriodStart(p)]),
            [request[w].was EXCEPT !.status = "in_progress"], w)

SetMinute(w, minute) ==
    LET set == [StopClock(state) EXCEPT !.elapsed = minute] IN
    /\ request[w].op = "set_minute"
    /\ Kept(IF state.running THEN RunClock(set) ELSE set, request[w].was, w)

Finish(w) ==
    LET stopped == [StopClock(state) EXCEPT !.half = "full_time"] IN
    /\ request[w].op = "finish"
    /\ Kept(stopped, Concluded(request[w].was, stopped), w)

Reopened(m) == [m EXCEPT !.status = "in_progress", !.winner = ""]

Reopen(w) ==
    /\ request[w].op = "reopen"
    /\ Kept([state EXCEPT !.half = "2"], Reopened(request[w].was), w)

----------------------------------------------------------------------------
(* Calling the match off, and time *)

ReadCancel(w) ==
    /\ Idle(w)
    /\ match.status \notin {"completed", "cancelled"}
    /\ Keep(w, "cancel")
    /\ UNCHANGED <<match, state, log, now>>

CommitCancel(w) ==
    /\ request[w].op = "cancel"
    /\ match' = [match EXCEPT !.status = "cancelled"]
    /\ Done(w)
    /\ UNCHANGED <<state, log, now>>

Tick ==
    /\ now < MaxTime
    /\ now' = now + 1
    /\ UNCHANGED <<match, state, log, request>>

----------------------------------------------------------------------------

Nil == [s \in Sides |-> 0]

Init ==
    /\ match = [status |-> "scheduled", winner |-> "", toss |-> "none"]
    /\ state = [half |-> "1", running |-> FALSE, elapsed |-> 0, since |-> 0,
                score |-> Nil, pens |-> Nil]
    /\ log = <<>>
    /\ now = 0
    /\ request = [w \in Console |-> NoRequest]

ConsoleNext(w) ==
    \/ ReadEvent(w) \/ ReadUndo(w) \/ CommitUndo(w) \/ ReadCancel(w) \/ CommitCancel(w)
    \/ \E type \in EventTypes, side \in Sides, p \in UNION {Squad[s] : s \in Sides} \union {NoPlayer} :
          CommitEvent(w, type, side, p)
    \/ \E c \in Controls : ReadControl(w, c)
    \/ Start(w) \/ Pause(w) \/ HalfTime(w) \/ SetHalf(w) \/ Finish(w) \/ Reopen(w)
    \/ \E minute \in 0..MaxTime : SetMinute(w, minute)

Next ==
    \/ \E w \in Console : ConsoleNext(w)
    \/ TossCall \/ TossDecide \/ TossManual \/ TossReset
    \/ Tick

Spec == Init /\ [][Next]_vars
=============================================================================
