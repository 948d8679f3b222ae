--------------------------- MODULE AuctionLedger ---------------------------
(***************************************************************************)
(* What the live auction promises a club: a book of sales.  A player is    *)
(* bought by one team at one price, for which the team still had the money *)
(* and a place in its squad; a sale can be undone as a whole; nothing else *)
(* changes the book.                                                       *)
(***************************************************************************)
EXTENDS Integers, FiniteSets, Functions

CONSTANTS Player, Team, NoTeam, Purse, MaxSquad

VARIABLES
    owner,  \* [Player -> Team or NoTeam] who bought the player
    price   \* [Player -> Nat] for how much; 0 without an owner

ledger == <<owner, price>>

Owned(t) == {p \in Player : owner[p] = t}
Paid(t, S) == SumFunctionOnSet(price, Owned(t) \ S)

Init ==
    /\ owner = [p \in Player |-> NoTeam]
    /\ price = [p \in Player |-> 0]

Buy(p, t) ==
    /\ owner[p] = NoTeam
    /\ Cardinality(Owned(t) \ {p}) < MaxSquad
    /\ \E x \in 0..Purse :
          /\ Paid(t, {p}) + x <= Purse
          /\ price' = [price EXCEPT ![p] = x]
    /\ owner' = [owner EXCEPT ![p] = t]

Undo(p) ==
    /\ owner[p] # NoTeam
    /\ owner' = [owner EXCEPT ![p] = NoTeam]
    /\ price' = [price EXCEPT ![p] = 0]

Next == \E p \in Player : Undo(p) \/ \E t \in Team : Buy(p, t)

Spec == Init /\ [][Next]_ledger
=============================================================================
