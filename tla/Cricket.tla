------------------------------ MODULE Cricket -------------------------------
(***************************************************************************)
(* One cricket match of two innings: its row, the state row, the log of    *)
(* deliveries and the side the toss put in (ScoringEngine, TossService,    *)
(* MatchController).                                                       *)
(*                                                                         *)
(* A ball and an innings switch judge the match on a row read before the   *)
(* match lock (see Football); taking a ball back and finishing read it     *)
(* under the lock and are one action.  Who is at the crease is left out.   *)
(***************************************************************************)
EXTENDS Integers, Sequences, FiniteSets, SequencesExt

CONSTANTS
    Console,     \* API workers serving scorers and the organizer
    Balls,       \* what a scorer may enter for one delivery
    OverLength,  \* balls in an over: 6 in the code
    TotalOvers,  \* overs of an innings, from the tournament settings
    BowledOut,   \* wickets that end a side's innings, from its lineup
    MaxBalls     \* bound on the deliveries of an innings

Sides == {"a", "b"}
Extras == {"none", "wide", "no_ball", "bye", "leg_bye"}
Dismissals == {"bowled", "caught", "lbw", "run_out", "stumped", "hit_wicket",
               "caught_and_bowled", "retired_hurt", "obstructing_field"}
Ball == [runs: Nat, extras: Extras, extraRuns: Nat, out: Dismissals \union {""}]

ASSUME CricketAssumption ==
    /\ Balls \subseteq Ball
    /\ OverLength \in Nat \ {0} /\ TotalOvers \in Nat \ {0} /\ MaxBalls \in Nat
    /\ BowledOut \in [Sides -> Nat \ {0}]

VARIABLES
    match,     \* matches row: status, winner and the side batting first
    state,     \* cricket_match_states row; runs, wickets and legal balls by innings
    log,       \* cricket_deliveries in sequence order
    request    \* what each console has read and not yet written

vars == <<match, state, log, request>>

Innings == {1, 2}
NoRow == [status |-> "", winner |-> "", first |-> ""]
NoRequest == [op |-> "none", was |-> NoRow]

Idle(w) == request[w].op = "none"
Keep(w, op) == request' = [request EXCEPT ![w] = [op |-> op, was |-> match]]
Done(w) == request' = [request EXCEPT ![w] = NoRequest]

\* Eloquent's save: the columns of m that differ from the row as it was read.
Saved(was, m) == [c \in DOMAIN match |-> IF m[c] # was[c] THEN m[c] ELSE match[c]]

Other(s) == IF s = "a" THEN "b" ELSE "a"

----------------------------------------------------------------------------
(* Reading the state row *)

\* firstInningsSides: team a bats first until the toss says otherwise.
FirstSide == IF match.first = "" THEN "a" ELSE match.first

\* cricketState: until a ball is bowled the sides follow the toss.
Refreshed(st, deliveries) ==
    IF deliveries = <<>> /\ st.innings = 1 THEN [st EXCEPT !.batting = FirstSide] ELSE st

Fresh == Refreshed(state, log)

Legal(b) == b.extras \notin {"wide", "no_ball"}
LegalBalls(deliveries, i) ==
    Cardinality({n \in DOMAIN deliveries : deliveries[n].innings = i /\ Legal(deliveries[n])})
InningsBalls(i) == Cardinality({n \in DOMAIN log : log[n].innings = i})

\* Mutant: retiring hurt counts as a wicket.
AnyDismissal(b) == b.out # ""

Falls(b) == b.out \notin {"", "retired_hurt"}
Total(b) == b.runs + (IF b.extras = "none" THEN 0 ELSE b.extraRuns)

----------------------------------------------------------------------------
(* The result *)

Settled(m, st) ==
    [m EXCEPT !.status = "completed",
              !.winner = CASE st.runs[2] > st.runs[1] -> st.batting
                           [] st.runs[2] < st.runs[1] -> Other(st.batting)
                           [] OTHER -> ""]

\* Mutant: only a successful chase ends the match.
DecidedByRuns(st) == st.runs[2] >= st.target

Decided(st) ==
    \/ st.runs[2] >= st.target
    \/ st.wickets[2] >= BowledOut[st.batting]
    \/ st.legal[2] >= TotalOvers * OverLength

Unfinished(m) == [m EXCEPT !.status = "in_progress", !.winner = ""]

----------------------------------------------------------------------------
(* The toss and the view *)

RecordToss(s) ==
    /\ match.first = ""
    /\ match' = [match EXCEPT !.first = s]
    /\ UNCHANGED <<state, log, request>>

TossReset ==
    /\ match.status = "scheduled" /\ match.first # ""
    /\ match' = [match EXCEPT !.first = ""]
    /\ UNCHANGED <<state, log, request>>

\* Looking at the match brings its state row up to date.
View ==
    /\ state' = Fresh
    /\ UNCHANGED <<match, log, request>>

----------------------------------------------------------------------------
(* recordCricketBall *)

ReadBall(w) ==
    /\ Idle(w)
    /\ match.status \notin {"cancelled", "completed"}
    /\ match.status = "scheduled" => match.first # ""
    /\ Keep(w, "ball")
    /\ UNCHANGED <<match, state, log>>

\* Mutant: the last wicket does not end an innings.
OversLeft(st, i) == LegalBalls(log, i) < TotalOvers * OverLength

BallsLeft(st, i) ==
    /\ LegalBalls(log, i) < TotalOvers * OverLength
    /\ st.wickets[i] < BowledOut[st.batting]

DismissalFits(b) ==
    CASE b.extras = "wide" -> b.out \in {"", "stumped", "run_out", "hit_wicket",
                                         "obstructing_field", "retired_hurt"}
      [] b.extras = "no_ball" -> b.out \in {"", "run_out", "obstructing_field", "retired_hurt"}
      [] OTHER -> TRUE

Bowled(st, b, i) ==
    [st EXCEPT !.runs[i] = @ + Total(b),
               !.wickets[i] = @ + (IF Falls(b) THEN 1 ELSE 0),
               !.legal[i] = LegalBalls(log, i) + (IF Legal(b) THEN 1 ELSE 0)]

\* The first ball of either innings puts the match in play; in the chase each
\* ball may end it.
AfterBall(was, st, i) ==
    LET inPlay == IF was.status \in {"scheduled", "toss", "innings_break"}
                  THEN [was EXCEPT !.status = "in_progress"] ELSE was
    IN IF i = 2 /\ st.target > 0 /\ Decided(st) THEN Settled(inPlay, st) ELSE inPlay

CommitBall(w, b, i) ==
    LET st == Fresh IN
    /\ request[w].op = "ball"
    /\ IF i = st.innings /\ BallsLeft(st, i) /\ DismissalFits(b)
       THEN /\ InningsBalls(i) < MaxBalls
            /\ state' = Bowled(st, b, i)
            /\ log' = Append(log, [innings |-> i, runs |-> b.runs, extras |-> b.extras,
                                   extraRuns |-> Total(b) - b.runs, out |-> b.out])
            /\ match' = Saved(request[w].was, AfterBall(request[w].was, state', i))
       ELSE UNCHANGED <<match, state, log>>
    /\ Done(w)

----------------------------------------------------------------------------
(* undoLastCricketBall *)

\* Mutants: the sides stay as they were, or the target does.
RejoinedSidesKept(st) == [st EXCEPT !.innings = 1, !.target = 0]
RejoinedTargetKept(st) == [st EXCEPT !.innings = 1, !.batting = Other(@)]

\* The switch is undone with the first innings' last ball.
Rejoined(st) == [st EXCEPT !.innings = 1, !.batting = Other(@), !.target = 0]

Lowered(n, d) == IF n > d THEN n - d ELSE 0

TakenBack(st, b) ==
    [st EXCEPT !.runs[b.innings] = Lowered(@, b.runs + b.extraRuns),
               !.wickets[b.innings] = IF Falls(b) THEN Lowered(@, 1) ELSE @,
               !.legal[b.innings] = LegalBalls(Front(log), b.innings)]

\* Mutant: a result settled by the ball taken back stays.
ResultKept(m) == m

ResultUndone(m) == IF m.status = "completed" THEN Unfinished(m) ELSE m

AfterUndo(b) ==
    CASE b.innings = 2 -> IF InningsBalls(2) = 1
                          THEN [ResultUndone(match) EXCEPT !.status = "innings_break"]
                          ELSE ResultUndone(match)
      [] state.innings = 2 /\ match.status \in {"innings_break", "completed"} -> Unfinished(match)
      [] OTHER -> match

Undo(w) ==
    LET b == Last(log)
        st == IF b.innings = 1 /\ state.innings = 2 THEN Rejoined(state) ELSE state
    IN
    /\ Idle(w)
    /\ log # <<>>
    /\ state' = Refreshed(TakenBack(st, b), Front(log))
    /\ log' = Front(log)
    /\ match' = AfterUndo(b)
    /\ UNCHANGED request

----------------------------------------------------------------------------
(* Switching innings, finishing, calling off *)

ReadSwitch(w) ==
    /\ Idle(w)
    /\ match.status # "cancelled"
    /\ Keep(w, "switch")
    /\ UNCHANGED <<match, state, log>>

CommitSwitch(w) ==
    LET st == Fresh IN
    /\ request[w].op = "switch"
    /\ IF st.innings = 1
       THEN /\ state' = [st EXCEPT !.innings = 2, !.target = st.runs[1] + 1, !.batting = Other(@)]
            /\ match' = Saved(request[w].was, [request[w].was EXCEPT !.status = "innings_break"])
       ELSE UNCHANGED <<state, match>>
    /\ Done(w)
    /\ UNCHANGED log

Finish(w) ==
    /\ Idle(w)
    /\ match.status # "completed" /\ state.innings = 2
    /\ match' = Settled(match, state)
    /\ UNCHANGED <<state, log, request>>

ReadCancel(w) ==
    /\ Idle(w)
    /\ match.status \notin {"completed", "cancelled"}
    /\ Keep(w, "cancel")
    /\ UNCHANGED <<match, state, log>>

CommitCancel(w) ==
    /\ request[w].op = "cancel"
    /\ match' = [match EXCEPT !.status = "cancelled"]
    /\ Done(w)
    /\ UNCHANGED <<state, log>>

----------------------------------------------------------------------------

Nil == [i \in Innings |-> 0]

Init ==
    /\ match = [status |-> "scheduled", winner |-> "", first |-> ""]
    /\ state = [innings |-> 1, batting |-> "a", target |-> 0,
                runs |-> Nil, wickets |-> Nil, legal |-> Nil]
    /\ log = <<>>
    /\ request = [w \in Console |-> NoRequest]

ConsoleNext(w) ==
    \/ ReadBall(w) \/ Undo(w) \/ Finish(w)
    \/ ReadSwitch(w) \/ CommitSwitch(w) \/ ReadCancel(w) \/ CommitCancel(w)
    \/ \E b \in Balls, i \in Innings : CommitBall(w, b, i)

Next ==
    \/ \E w \in Console : ConsoleNext(w)
    \/ \E s \in Sides : RecordToss(s)
    \/ TossReset
    \/ View

Spec == Init /\ [][Next]_vars
=============================================================================
