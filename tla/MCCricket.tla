----------------------------- MODULE MCCricket ------------------------------
(* Small instances of a cricket match for TLC; what only holds while no      *)
(* request is overtaken is checked up to the moment one is.                *)
EXTENDS CricketTurns, TLC

CONSTANT RacedBalls   \* bound on the log once a request has been overtaken

ball(r, e, x, o) == [runs |-> r, extras |-> e, extraRuns |-> x, out |-> o]

\* A single, a wide with a run taken, a wicket, a stumping off a wide and a
\* batter retiring hurt.
Deliveries == {ball(1, "none", 1, ""), ball(0, "wide", 2, ""), ball(0, "none", 0, "bowled"),
               ball(0, "wide", 1, "stumped"), ball(0, "none", 0, "retired_hurt")}

Symmetry == Permutations(Console)

MCNext == TurnNext /\ (inTurn' \/ Len(log') <= RacedBalls)
MCSpec == TurnInit /\ [][MCNext]_turnVars

OneOrTwo == [s \in Sides |-> IF s = "a" THEN 2 ELSE 1]
=============================================================================
