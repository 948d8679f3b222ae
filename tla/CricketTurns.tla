---------------------------- MODULE CricketTurns ----------------------------
(***************************************************************************)
(* A cricket match with a memory of whether a request was overtaken:       *)
(* `inTurn` turns false once the match's status or winner is written while *)
(* a console holds the row it read before.                                 *)
(***************************************************************************)
EXTENDS CricketSafety

VARIABLE inTurn   \* history: no request has been overtaken so far
turnVars == <<vars, inTurn>>

NoneOvertaken ==
    \A w \in Console : ~ Idle(w) =>
        request[w].was.status = match.status /\ request[w].was.winner = match.winner

TurnInit == Init /\ inTurn = TRUE
TurnNext == Next /\ inTurn' = (inTurn /\ NoneOvertaken')
TurnSpec == TurnInit /\ [][TurnNext]_turnVars

----------------------------------------------------------------------------

\* While no request is overtaken, a finished match names the winner its runs
\* give, after results settled by the last ball, by hand and again after an
\* undo (recordCricketBall, undoLastCricketBall, finishMatch).
WinnerInTurn == inTurn => ResultStands

\* While no request is overtaken, a chase that is decided, by runs, wickets or
\* overs, never stays open (recordCricketBall, undoLastCricketBall).
ChaseInTurn == inTurn => ChaseEnds
=============================================================================
