----------------------------- MODULE MCFootball -----------------------------
(***************************************************************************)
(* Small instances of a football match for TLC.                            *)
(*   football.cfg       two consoles, in turn and at once                  *)
(*   football_late.cfg  what a late goal does to a result                  *)
(* What only holds while the consoles take turns is checked up to the      *)
(* first moment two of their requests overlap.                             *)
(***************************************************************************)
EXTENDS FootballTurns, TLC

CONSTANTS
    Striker,        \* the one player whose name is recorded
    RacedEvents,    \* bounds on the log and on time, and the controls
    RacedTime,      \*   pressed, once requests have overlapped
    RacedControls,
    TurnEvents,     \* bounds before that: what is recorded, and how much
    TimedEvents     \*   of it once time has passed

\* One named player; the other side's are not named.
OneNamed == [s \in Sides |-> IF s = "a" THEN {Striker} ELSE {}]

Symmetry == Permutations(Console)

Kicks == {"penalty_goal", "own_goal"}
KicksAndCards == {"penalty_goal", "yellow_card"}
ClockControls == {"start", "pause", "half_time", "extra_1", "penalties", "set_minute", "finish", "reopen"}
PlayControls == {"start", "penalties", "finish", "reopen"}

Raced ==
    /\ now' <= RacedTime
    /\ Len(log') <= RacedEvents
    /\ \A i \in DOMAIN log' : log'[i].type \in Kicks
    /\ \A w \in Console : request'[w].op \in Controls => request'[w].op \in RacedControls
    /\ state'.half \in {"1", "2", "penalties", "full_time"} /\ state'.elapsed = 0
Turns ==
    /\ \A i \in DOMAIN log' : log'[i].type \in TurnEvents
    /\ now' > 0 => Len(log') <= TimedEvents

MCNext == TurnNext /\ IF inTurn' THEN Turns ELSE Raced
MCSpec == TurnInit /\ [][MCNext]_turnVars
=============================================================================
