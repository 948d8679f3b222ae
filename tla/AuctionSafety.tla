--------------------------- MODULE AuctionSafety ---------------------------
(***************************************************************************)
(* What the live auction keeps true.                                       *)
(***************************************************************************)
EXTENDS Auction

TypeOK ==
    /\ auction \in AuctionRow
    /\ player \in [Player -> PlayerRow]
    /\ bids \in [Player -> SUBSET [team: Team, amount: Nat]]
    /\ squad \subseteq [id: Nat, team: Team, player: Player]
    /\ fielded \subseteq Nat
    /\ messages \subseteq Message
    /\ lastRow \in Nat
    /\ request \in [Worker -> Request]

----------------------------------------------------------------------------
(* Kept while requests follow one another *)

\* While a lot is open, the standing bid on the auctions row is a bid that
\* was made for that very player, and the highest one (callPlayer, placeBid).
StandingBidIsTop ==
    auction.hammer = "bidding" /\ auction.team # NoTeam =>
       /\ [team |-> auction.team, amount |-> auction.amount] \in bids[auction.current]
       /\ \A b \in bids[auction.current] : b.amount <= auction.amount

\* A squad row that a match lineup names is never deleted under it
\* (reopenHammer, LineupService.save).
FieldedRowsStay == fielded \subseteq {s.id : s \in squad}

\* The abstract book of sales that the whole auction implements.
Book == INSTANCE AuctionLedger WITH
    owner <- [p \in Player |-> IF Sold(p) THEN player[p].soldTo ELSE NoTeam],
    price <- [p \in Player |-> IF Sold(p) THEN player[p].price ELSE 0]

----------------------------------------------------------------------------
(* Kept with one organizer's desk and any number of bids in flight *)

\* The squads hold exactly one row for each sold player, in the team that
\* bought him (sellPlayer creates it, reopenHammer deletes it).
SquadMatchesSales ==
    /\ \A p \in Player : Sold(p) =>
          [id |-> player[p].squadRow, team |-> player[p].soldTo, player |-> p] \in squad
    /\ \A s \in squad : Sold(s.player) /\ player[s.player].squadRow = s.id

\* The player marked in_hammer is the one the auctions row is taking bids for,
\* and while it takes bids there is such a player.
OneOnHammer ==
    \A p \in Player :
        player[p].status = "in_hammer" <=>
            auction.hammer = "bidding" /\ auction.current = p

\* Why those hold with one desk (proved in AuctionProofs): what the desk
\* has read is still what is stored, because nothing but a bid writes the rows
\* a desk reads, and a bid does not move the hammer.
DeskView(d) ==
    LET r == request[d] IN
    /\ r.op \in {"call", "reopen"} =>
          r.seen.current = auction.current /\ r.seen.hammer = auction.hammer
    /\ r.op \in {"call", "reopen", "accelerate", "update", "remove", "payment"} =>
          \A p \in r.lots : r.rows[p] = player[p] /\ player[p].status \notin Gone
    /\ r.op = "call" =>
          \A p \in r.lots : player[p].status \in {"registered", "approved", "unsold"}
    /\ r.op = "reopen" =>
          /\ r.lots = {auction.current} /\ auction.hammer \in {"sold", "unsold"}
          /\ \A p \in r.lots : /\ player[p].status \in {"sold", "unsold"}
                              /\ ~ (Sold(p) /\ player[p].payment = "paid")
    /\ r.op = "accelerate" => \A p \in r.lots : player[p].status = "unsold"
    /\ r.op = "remove" \/ (r.op = "update" /\ r.word # "") =>
          \A p \in r.lots : player[p].status \notin {"sold", "in_hammer"}

RowIdsUnique ==
    /\ \A s \in squad : s.id > 0 /\ s.id <= lastRow
    /\ \A s, t \in squad : s.id = t.id => s = t

DeskInv ==
    /\ OneOnHammer
    /\ SquadMatchesSales
    /\ RowIdsUnique
    /\ \A p \in Player : ~ Sold(p) => player[p].squadRow = 0
    /\ \A d \in Auctioneer : DeskView(d)

\* Undoing a hammer never undoes a sale that has been paid for.
PaidSaleStands ==
    [][\A p \in Player : Sold(p) /\ player[p].payment = "paid" => player'[p].status = "sold"]_vars

----------------------------------------------------------------------------
(* Kept whatever is in flight *)

\* A bid row appears only for the lot that is open at that moment, never for
\* the team that already holds the top bid, and at least one increment above
\* the standing bid: the re-check placeBid makes under the lock.
BidsTopUnderLock ==
    [][\A p \in Player : \A b \in bids'[p] \ bids[p] :
          /\ auction.hammer = "bidding" /\ auction.current = p
          /\ b.team # auction.team
          /\ auction.team # NoTeam => b.amount >= auction.amount + Increment]_vars

----------------------------------------------------------------------------
(* What comments in the code promise and the code does not keep *)

\* AuctionController.php:820 "the same sale repeated still sends only once":
\* for a sale that stands and has been announced there is a message to the
\* player that was sent or still will be.
SaleAnnounced ==
    \A p \in Player :
        Sold(p) /\ (\A w \in Worker : request[w].op # "announce") =>
            \E m \in messages : /\ m.player = p /\ m.team = player[p].soldTo
                                /\ m.price = player[p].price /\ m.status # "skipped"
=============================================================================
