---------------------------- MODULE BracketTurns ----------------------------
(***************************************************************************)
(* A tournament together with whether its requests have so far come one    *)
(* after another, and what is kept until two of them have overlapped.      *)
(***************************************************************************)
EXTENDS BracketSafety

VARIABLE inTurn   \* no two requests have been under way at once

turnVars == <<vars, inTurn>>

Alone == \A w, v \in Worker : ~ Idle(w) /\ ~ Idle(v) => w = v

TurnInit == Init /\ inTurn = TRUE
TurnNext == Next /\ inTurn' = (inTurn /\ Alone')
TurnSpec == TurnInit /\ [][TurnNext]_turnVars

----------------------------------------------------------------------------

\* While requests come one after another, every request leaves the bracket settled
\* (rankStandings and sync, called by each controller that changes a result or an
\* entry).
SettledInTurn == inTurn => SettledAtRest

\* While they do, only a team that has earned its place in a finished group is seeded
\* from it (BracketService.groupPosition).
QualifiersInTurn == inTurn => QualifiersEarnedIt

\* While they do, a match that has started is changed only by requests about it
\* (BracketService.sync, isUnderWay).
StartedInTurn == [][inTurn' => StartedKept]_turnVars
=============================================================================
