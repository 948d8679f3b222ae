--------------------------- MODULE FootballSafety ---------------------------
(***************************************************************************)
(* What football scoring keeps true.                                       *)
(***************************************************************************)
EXTENDS Football

Statuses == {"scheduled", "toss", "in_progress", "half_time", "completed", "cancelled"}
Row == [status: Statuses, winner: Sides \union {""}, toss: {"none", "won", "decided"}]
Halves == Periods \union {"half_time", "full_time"}
Event == UNION {[type: AllEvents, side: {s}, player: Squad[s] \union {NoPlayer},
                 shootOut: BOOLEAN] : s \in Sides}

TypeOK ==
    /\ match \in Row
    /\ state \in [half: Halves, running: BOOLEAN, elapsed: Nat, since: 0..MaxTime,
                  score: [Sides -> Nat], pens: [Sides -> Nat]]
    /\ \A i \in DOMAIN log : log[i] \in Event
    /\ now \in 0..MaxTime
    /\ request \in [Console -> [op: AllControls \union {"none", "event", "undo", "cancel"},
                                was: Row \union {NoRow}]]

Count(Test(_)) == Cardinality({i \in DOMAIN log : Test(log[i])})

\* The score and the shoot-out tally are what the events still in the log add
\* up to, however recording, undoing and moving between periods interleave:
\* undo really is "drop the last log entry and reverse its effect".
ScoreFromLog ==
    \A s \in Sides :
        /\ state.score[s] = Count(LAMBDA e :
              /\ ~ e.shootOut
              /\ \/ e.type \in {"goal", "penalty_goal"} /\ e.side = s
                 \/ e.type = "own_goal" /\ e.side # s)
        /\ state.pens[s] = Count(LAMBDA e :
              e.shootOut /\ e.type = "penalty_goal" /\ e.side = s)

\* Nobody scores or comes on after a red or a second yellow, and a kick in
\* the shoot-out is never counted as play: read off the log alone.
SentOffStaysOff ==
    \A i \in DOMAIN log :
        log[i].type \in {"goal", "penalty_goal", "penalty_missed", "substitution"}
        /\ log[i].player # NoPlayer =>
            LET before == {j \in 1..(i - 1) : log[j].player = log[i].player} IN
            /\ \A j \in before : log[j].type # "red_card"
            /\ Cardinality({j \in before : log[j].type = "yellow_card"}) < 2

\* Nothing is in the log, and no result stands, before a kick-off; it rests on
\* the check made before the match lock.
NothingBeforeKickOff ==
    match.status \in NotKickedOff => log = <<>> /\ match.winner = ""

\* The clock goes back only when a scorer sets a period or the minute: start,
\* pause, half-time, the whistle and reopening lose no second of play, even
\* when two consoles press them together.
ClockNeverBack ==
    [][Clock' < Clock => \E w \in Console : /\ request[w].op \in Periods \union {"set_minute"}
                                            /\ request'[w].op = "none"]_vars

\* ScoringEngine "A finished match takes no more play: a goal or a ball
\* recorded after the result would change the score under a result that no
\* longer matches it": a finished match's winner is the one its score gives,
\* through late corrections, a shoot-out and reopening.
ResultMatchesScore == match.status = "completed" => match.winner = Leader(state)
=============================================================================
