----------------------------- MODULE MCAuction -----------------------------
(***************************************************************************)
(* Small instances of the live auction for TLC.                            *)
(*   auction.cfg   one desk, two teams, in turn and at once                *)
(*   auction_resale.cfg  what the code does not keep                       *)
(***************************************************************************)
EXTENDS AuctionTurns, TLC

CONSTANT RacedSales   \* bound: how many sales once requests have overlapped

\* Once they overlap, the organizer chooses no more statuses by hand.
Raced ==
    /\ lastRow' <= RacedSales
    /\ \A w \in Worker : request'[w].op # "status" /\ request'[w].word \notin PoolChoices

MCNext == TurnNext /\ (inTurn' \/ Raced)
MCSpec == TurnInit /\ [][MCNext]_turnVars

Symmetry == Permutations(Player) \union Permutations(Team)
=============================================================================
