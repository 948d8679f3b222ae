---------------------------- MODULE AuctionTurns ----------------------------
(***************************************************************************)
(* The live auction with a memory of whether requests have followed one    *)
(* another: `inTurn` turns false at the first step somebody takes between  *)
(* the read and the write of somebody else.  Some promises hold only until *)
(* then, because what a handler has read is not locked.                    *)
(***************************************************************************)
EXTENDS AuctionSafety

VARIABLE inTurn   \* history: no two requests have overlapped so far
turnVars == <<vars, inTurn>>

\* Two workers between their read and their write, or a step of somebody else
\* on the hammer or the lineups while there is one.
CutsIn ==
    \/ \E v, w \in Worker : v # w /\ ~ Idle(v)' /\ ~ Idle(w)'
    \/ /\ request' = request /\ (auction' # auction \/ fielded' # fielded)
       /\ \E w \in Worker : ~ Idle(w)

TurnInit == Init /\ inTurn = TRUE
TurnNext == Next /\ inTurn' = (inTurn /\ ~ CutsIn)
TurnSpec == TurnInit /\ [][TurnNext]_turnVars

----------------------------------------------------------------------------

\* In turn, the standing bid is the highest one made for the open lot
\* (callPlayer, placeBid).
StandingBidInTurn == inTurn => StandingBidIsTop

\* In turn, a squad row named in a lineup is never deleted (reopenHammer).
FieldedInTurn == inTurn => FieldedRowsStay

\* In turn, every step is a step of the book of sales, or none (sellPlayer,
\* reopenHammer, updatePlayerPayment).
BookInTurn == Book!Init /\ [][inTurn' => [Book!Next]_(Book!ledger)]_turnVars
=============================================================================
