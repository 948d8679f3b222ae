--------------------------- MODULE FootballTurns ---------------------------
(***************************************************************************)
(* A football match with a memory of whether its consoles have taken       *)
(* turns: `inTurn` turns false once two of them are between their read of  *)
(* the match row and their write.                                          *)
(***************************************************************************)
EXTENDS FootballSafety

VARIABLE inTurn   \* history: no two requests have overlapped so far
turnVars == <<vars, inTurn>>

OneAtATime == \A v, w \in Console : ~ Idle(v) /\ ~ Idle(w) => v = w

TurnInit == Init /\ inTurn = TRUE
TurnNext == Next /\ inTurn' = (inTurn /\ OneAtATime')
TurnSpec == TurnInit /\ [][TurnNext]_turnVars

----------------------------------------------------------------------------

\* While consoles take turns, a finished match's winner is the one its score
\* gives, through late corrections, a shoot-out and reopening (Concluded,
\* undoLastFootballEvent).
ResultInTurn == inTurn => ResultMatchesScore
=============================================================================
