------------------------------ MODULE Auction ------------------------------
(***************************************************************************)
(* The live player auction (AuctionController, AuctionService).            *)
(*                                                                         *)
(* Every endpoint runs in its own API worker.  A handler first reads rows  *)
(* with plain SELECTs and decides; it then writes in one transaction.      *)
(* Between the two any other worker may commit, so a handler is two        *)
(* actions: Read..., which evaluates the refusals and keeps what was read, *)
(* and Commit..., which writes.  Handlers that read and write under one    *)
(* row lock (sellPlayer, unsoldPlayer) are a single action.                *)
(*                                                                         *)
(* A model instance that was read earlier is saved column by column:       *)
(* Eloquent writes only the columns whose new value differs from the value *)
(* READ, whatever the row holds by now (operator Dirty).                   *)
(***************************************************************************)
EXTENDS Integers, FiniteSets, Functions

CONSTANTS
    Player,         \* rows of the auction pool (auction_players)
    Team,           \* approved teams of the tournament
    Auctioneer,     \* API workers serving an organizer's session
    Bidder,         \* API workers serving bids
    NoPlayer, NoTeam,
    BasePrices,     \* base prices an organizer may set
    StatusChoices,  \* auction statuses an organizer may choose
    PoolChoices,    \* pool statuses an organizer may choose for a player
    Increment,      \* min_bid_increment
    Purse,          \* team_purse
    MaxSquad,       \* max_players_per_team
    DiscountFloor,  \* 500 in acceleratedRound
    MaxBid,         \* bound: the highest amount tried as a bid
    MaxSales        \* bound: how many sales a behaviour may hold

Statuses == {"upcoming", "registration_closed", "live", "paused", "completed", "cancelled"}
Ended == {"completed", "cancelled"}
PoolStatuses == {"registered", "approved", "unsold", "rejected"}
Gone == {"absent", "removed"}

ASSUME AuctionAssumption ==
    /\ NoPlayer \notin Player /\ NoTeam \notin Team
    /\ BasePrices \subseteq Nat /\ BasePrices # {}
    /\ StatusChoices \subseteq Statuses
    /\ PoolChoices \subseteq PoolStatuses
    /\ {Increment, Purse, MaxSquad, DiscountFloor, MaxBid, MaxSales} \subseteq Nat

VARIABLES
    auction,    \* the auctions row: status, lot on the hammer, standing bid
    player,     \* the auction_players rows
    bids,       \* the auction_bids rows of each player
    squad,      \* the squad rows (players) that sales created
    fielded,    \* ids of squad rows named in a match lineup
    messages,   \* auction_player_sold notifications, keyed by their dedupe key
    lastRow,    \* id of the last squad row created
    request     \* what each worker has read and not yet written

vars == <<auction, player, bids, squad, fielded, messages, lastRow, request>>

Worker == Auctioneer \union Bidder

AuctionRow == [status: Statuses, current: Player \union {NoPlayer}, amount: Nat,
               team: Team \union {NoTeam}, hammer: {"waiting", "bidding", "sold", "unsold"}]

\* price 0 and squadRow 0 stand for NULL
PlayerRow == [status: PoolStatuses \union Gone \union {"in_hammer", "sold"}, base: Nat,
              soldTo: Team \union {NoTeam}, price: Nat, payment: {"pending", "paid"},
              squadRow: Nat]

NoRow == [status |-> "absent", base |-> 0, soldTo |-> NoTeam, price |-> 0,
          payment |-> "pending", squadRow |-> 0]

NewAuction == [status |-> "upcoming", current |-> NoPlayer, amount |-> 0,
               team |-> NoTeam, hammer |-> "waiting"]

RequestRecord ==
    [op: {"none", "call", "bid", "announce", "reopen", "accelerate", "status",
          "update", "remove", "payment"},
     seen: AuctionRow, lots: SUBSET Player, rows: [Player -> PlayerRow],
     team: Team \union {NoTeam}, amount: Nat,
     word: Statuses \union PoolStatuses \union {"", "pending", "paid"}]

Request == {r \in RequestRecord :
    /\ r.op = "bid" => r.team \in Team /\ r.seen.current \in Player
    /\ r.op = "status" => r.word \in Statuses
    /\ r.op = "update" => r.word \in PoolStatuses \union {""}
    /\ r.op = "payment" => r.word \in {"pending", "paid"}}

NoRequest == [op |-> "none", seen |-> NewAuction, lots |-> {},
              rows |-> [p \in Player |-> NoRow], team |-> NoTeam, amount |-> 0,
              word |-> ""]

Message == [player: Player, team: Team \union {NoTeam}, price: Nat,
            status: {"queued", "sent", "skipped"}]

----------------------------------------------------------------------------
(* Helpers *)

\* Saving a model read earlier: a column that was not changed is not written.
Dirty(stored, read, new) == IF new # read THEN new ELSE stored

\* An UPDATE of a row that has been deleted meanwhile touches nothing.
Write(row, new) == IF row.status \in Gone THEN row ELSE new

Sold(p) == player[p].status = "sold"
Bought(t) == {p \in Player : Sold(p) /\ player[p].soldTo = t}
Spent(t) == SumFunctionOnSet([p \in Player |-> player[p].price], Bought(t))

\* Mutant: the purse of the auction row, earlier purchases forgotten.
RemainingIsPurse(t) == Purse

Remaining(t) == IF Purse > Spent(t) THEN Purse - Spent(t) ELSE 0

Affords(t, x) == x <= Remaining(t) /\ Cardinality(Bought(t)) < MaxSquad

\* Mutant: a flat amount off.
FlatDiscount(base) == base - DiscountFloor

\* The second-round price: a quarter off, rounded half up, not below the
\* floor and never above the old price.
Discount(base) ==
    LET rounded == (6 * base + 4) \div 8
        floor == IF base < DiscountFloor THEN base ELSE DiscountFloor
    IN  IF rounded > floor THEN rounded ELSE floor

MinimumBid(row, base) == IF row.team # NoTeam THEN row.amount + Increment ELSE base

Idle(w) == request[w].op = "none"
Keep(w, r) == request' = [request EXCEPT ![w] = r]
Done(w) == Keep(w, NoRequest)
Rows(S) == [p \in Player |-> IF p \in S THEN player[p] ELSE NoRow]
Reading(op, S) == [NoRequest EXCEPT !.op = op, !.lots = S, !.rows = Rows(S)]

stored == <<auction, player, bids, squad, fielded, messages, lastRow>>

----------------------------------------------------------------------------
(* The pool *)

Register(p) ==
    /\ player[p].status = "absent"
    /\ auction.status \notin Ended \union {"registration_closed"}
    /\ \E b \in BasePrices :
          player' = [player EXCEPT ![p] = [NoRow EXCEPT !.status = "registered", !.base = b]]
    /\ UNCHANGED <<auction, bids, squad, fielded, messages, lastRow, request>>

\* updatePlayerStatus, approvePlayer, rejectPlayer.  word = "" leaves the
\* status out of the request; then only the base price is changed.  Here and
\* below a request that would leave every column as it was read is left out:
\* it writes nothing.
ReadUpdatePlayer(w, p) ==
    /\ Idle(w)
    /\ player[p].status \notin Gone
    /\ \E s \in PoolChoices \union {""}, b \in BasePrices \union {player[p].base} :
          /\ s # "" => player[p].status \notin {"sold", "in_hammer"} \union {s}
          /\ s # "" \/ b # player[p].base
          /\ Keep(w, [Reading("update", {p}) EXCEPT !.word = s, !.amount = b])
    /\ UNCHANGED stored

CommitUpdatePlayer(w) ==
    LET r == request[w] IN
    /\ r.op = "update"
    /\ player' = [p \in Player |->
          IF p \notin r.lots THEN player[p]
          ELSE Write(player[p],
                     [player[p] EXCEPT
                        !.status = IF r.word = "" THEN @ ELSE Dirty(@, r.rows[p].status, r.word),
                        !.base = Dirty(@, r.rows[p].base, r.amount)])]
    /\ Done(w)
    /\ UNCHANGED <<auction, bids, squad, fielded, messages, lastRow>>

ReadRemove(w, p) ==
    /\ Idle(w)
    /\ player[p].status \notin Gone \union {"sold", "in_hammer"}
    /\ Keep(w, Reading("remove", {p}))
    /\ UNCHANGED stored

CommitRemove(w) ==
    /\ request[w].op = "remove"
    /\ player' = [p \in Player |->
          IF p \in request[w].lots THEN [NoRow EXCEPT !.status = "removed"] ELSE player[p]]
    /\ Done(w)
    /\ UNCHANGED <<auction, bids, squad, fielded, messages, lastRow>>

----------------------------------------------------------------------------
(* The hammer *)

ReadCall(w, p) ==
    /\ Idle(w)
    /\ auction.status \notin Ended
    /\ player[p].status \in {"registered", "approved", "unsold"}
    /\ ~ (auction.hammer = "bidding" /\ auction.team # NoTeam /\ auction.current # p)
    /\ Keep(w, [Reading("call", {p}) EXCEPT !.seen = auction])
    /\ UNCHANGED stored

\* Mutant: the team of the previous lot's standing bid is not cleared.
OpenedKeepingTeam(r, p) ==
    [status |-> "live", current |-> p, amount |-> r.rows[p].base, team |-> auction.team,
     hammer |-> "bidding"]

\* The auctions row once p is called at the base price that was read.
Opened(r, p) ==
    [status  |-> Dirty(auction.status, r.seen.status, "live"),
     current |-> Dirty(auction.current, r.seen.current, p),
     amount  |-> Dirty(auction.amount, r.seen.amount, r.rows[p].base),
     team    |-> Dirty(auction.team, r.seen.team, NoTeam),
     hammer  |-> Dirty(auction.hammer, r.seen.hammer, "bidding")]

\* Mutant: the player called before stays on the hammer.
CalledBesideOthers(p) ==
    [player EXCEPT ![p] = Write(@, [@ EXCEPT !.status = "in_hammer"])]

\* p goes on the hammer; anyone else there returns to the pool.
Called(p) ==
    [q \in Player |->
        IF q = p THEN Write(player[q], [player[q] EXCEPT !.status = "in_hammer"])
        ELSE IF player[q].status = "in_hammer"
             THEN [player[q] EXCEPT !.status = "approved"]
             ELSE player[q]]

CommitCall(w) ==
    LET r == request[w] IN
    /\ r.op = "call"
    /\ \E p \in r.lots :
          /\ auction' = Opened(r, p)
          /\ player' = Called(p)
          /\ bids' = [bids EXCEPT ![p] = {}]
    /\ Done(w)
    /\ UNCHANGED <<squad, fielded, messages, lastRow>>

\* Everything that can refuse a bid, judged on rows read without a lock.
ReadBid(w, t, x) ==
    /\ Idle(w)
    /\ auction.status = "live"
    /\ auction.hammer \notin {"sold", "unsold"}
    /\ auction.current # NoPlayer
    /\ player[auction.current].status \notin Gone
    /\ x >= MinimumBid(auction, player[auction.current].base)
    /\ auction.team # t
    /\ Affords(t, x)
    /\ Keep(w, [NoRequest EXCEPT !.op = "bid",
                               !.seen = auction, !.team = t, !.amount = x])
    /\ UNCHANGED stored

\* Mutant: only the lot is checked again.
LotStillCalled(r) == auction.current = r.seen.current

\* What placeBid checks again once it holds the lock on the auctions row.
BidStands(r) ==
    /\ auction.current = r.seen.current
    /\ auction.hammer = "bidding"
    /\ auction.team # r.team
    /\ auction.team # NoTeam => r.amount >= auction.amount + Increment

CommitBid(w) ==
    LET r == request[w] IN
    /\ r.op = "bid"
    /\ IF BidStands(r)
       THEN /\ bids' = [bids EXCEPT ![r.seen.current] =
                           @ \union {[team |-> r.team, amount |-> r.amount]}]
            /\ auction' = [auction EXCEPT
                  !.amount = Dirty(@, r.seen.amount, r.amount),
                  !.team = Dirty(@, r.seen.team, r.team),
                  !.hammer = Dirty(@, r.seen.hammer, "bidding")]
       ELSE UNCHANGED <<bids, auction>>
    /\ Done(w)
    /\ UNCHANGED <<player, squad, fielded, messages, lastRow>>

\* The conditions sellPlayer and unsoldPlayer check under the lock.
OnHammer ==
    /\ auction.current # NoPlayer
    /\ auction.hammer = "bidding"
    /\ player[auction.current].status = "in_hammer"

\* One transaction under the row locks; the notification follows after it.
Sell(w) ==
    LET p == auction.current
        price == IF auction.amount # 0 THEN auction.amount ELSE player[p].base
        row == lastRow + 1
    IN
    /\ Idle(w)
    /\ lastRow < MaxSales
    /\ OnHammer
    /\ auction.team # NoTeam
    /\ player' = [player EXCEPT ![p] =
          [@ EXCEPT !.status = "sold", !.price = price, !.soldTo = auction.team,
                    !.payment = "pending", !.squadRow = row]]
    /\ squad' = squad \union {[id |-> row, team |-> auction.team, player |-> p]}
    /\ lastRow' = row
    /\ auction' = [auction EXCEPT !.hammer = "sold"]
    /\ Keep(w, [NoRequest EXCEPT !.op = "announce", !.lots = {p}, !.amount = price])
    /\ UNCHANGED <<bids, fielded, messages>>

\* NotificationService.dispatch after the sale: the dedupe key is unique, so
\* a second message with the same key is not written.  The team in the key
\* is the one on the auctions row when it is read back.
Announce(w) ==
    LET r == request[w] IN
    /\ r.op = "announce"
    /\ \E p \in r.lots :
          messages' =
             IF \E m \in messages : m.player = p /\ m.team = auction.team /\ m.price = r.amount
             THEN messages
             ELSE messages \union {[player |-> p, team |-> auction.team, price |-> r.amount,
                                    status |-> "queued"]}
    /\ Done(w)
    /\ UNCHANGED <<auction, player, bids, squad, fielded, lastRow>>

Unsold(w) ==
    /\ Idle(w)
    /\ OnHammer
    /\ player' = [player EXCEPT ![auction.current].status = "unsold"]
    /\ auction' = [auction EXCEPT !.hammer = "unsold"]
    /\ UNCHANGED <<bids, squad, fielded, messages, lastRow, request>>

\* Mutants: the payment, or the lineup, is not looked at.
ReopenableThoughPaid(p) ==
    player[p].status \in {"sold", "unsold"} /\ player[p].squadRow \notin fielded
ReopenableThoughFielded(p) ==
    player[p].status \in {"sold", "unsold"} /\ ~ (Sold(p) /\ player[p].payment = "paid")

\* Nothing has been built on the result yet.
Reopenable(p) ==
    /\ player[p].status \in {"sold", "unsold"}
    /\ ~ (Sold(p) /\ player[p].payment = "paid")
    /\ player[p].squadRow \notin fielded

ReadReopen(w) ==
    LET p == auction.current IN
    /\ Idle(w)
    /\ p # NoPlayer
    /\ auction.hammer \in {"sold", "unsold"}
    /\ Reopenable(p)
    /\ Keep(w, [Reading("reopen", {p}) EXCEPT !.seen = auction])
    /\ UNCHANGED stored

\* Mutant: the squad row of the undone sale is left behind.
SquadKept(id) == squad

SquadWithout(id) == {s \in squad : s.id # id}

\* The player's row back on the hammer, its sale cleared.
Undone(row, was) ==
    [row EXCEPT !.status   = Dirty(row.status, was.status, "in_hammer"),
                !.price    = Dirty(row.price, was.price, 0),
                !.soldTo   = Dirty(row.soldTo, was.soldTo, NoTeam),
                !.payment  = Dirty(row.payment, was.payment, "pending"),
                !.squadRow = Dirty(row.squadRow, was.squadRow, 0)]

\* Deletes the squad row, withdraws the queued message, clears the sale.
CommitReopen(w) ==
    LET r == request[w] IN
    /\ r.op = "reopen"
    /\ \E p \in r.lots :
          /\ squad' = SquadWithout(r.rows[p].squadRow)
          /\ messages' = {IF m.player = p /\ m.status = "queued"
                          THEN [m EXCEPT !.status = "skipped"] ELSE m : m \in messages}
          /\ player' = [player EXCEPT ![p] =
                           Write(player[p], Undone(player[p], r.rows[p]))]
    /\ auction' = [auction EXCEPT !.hammer = Dirty(@, r.seen.hammer, "bidding")]
    /\ Done(w)
    /\ UNCHANGED <<bids, fielded, lastRow>>

ReadAccelerate(w) ==
    LET unsold == {p \in Player : player[p].status = "unsold"} IN
    /\ Idle(w)
    /\ unsold # {}
    /\ Keep(w, Reading("accelerate", unsold))
    /\ UNCHANGED stored

CommitAccelerate(w) ==
    LET r == request[w] IN
    /\ r.op = "accelerate"
    /\ player' = [p \in Player |->
          IF p \notin r.lots THEN player[p]
          ELSE Write(player[p],
                     [player[p] EXCEPT
                        !.status = "approved",
                        !.base = Dirty(@, r.rows[p].base, Discount(r.rows[p].base))])]
    /\ Done(w)
    /\ UNCHANGED <<auction, bids, squad, fielded, messages, lastRow>>

ReadStatus(w, s) ==
    /\ Idle(w)
    /\ s # auction.status
    /\ s = "completed" => \A p \in Player : player[p].status # "in_hammer"
    /\ Keep(w, [NoRequest EXCEPT !.op = "status", !.seen = auction, !.word = s])
    /\ UNCHANGED stored

CommitStatus(w) ==
    LET r == request[w] IN
    /\ r.op = "status"
    /\ auction' = [auction EXCEPT !.status = Dirty(@, r.seen.status, r.word)]
    /\ Done(w)
    /\ UNCHANGED <<player, bids, squad, fielded, messages, lastRow>>

----------------------------------------------------------------------------
(* Settlement, and the other parts of the system that meet a sale *)

\* updatePlayerPayment takes any player of the pool, bulkUpdatePayments
\* several sold ones.
ReadPayment(w, S, word) ==
    /\ Idle(w)
    /\ \/ \E p \in Player : S = {p} /\ player[p].status \notin Gone
       \/ \A p \in S : Sold(p)
    /\ \E p \in S : player[p].payment # word
    /\ Keep(w, [Reading("payment", S) EXCEPT !.word = word])
    /\ UNCHANGED stored

CommitPayment(w) ==
    LET r == request[w] IN
    /\ r.op = "payment"
    /\ player' = [p \in Player |->
          IF p \notin r.lots THEN player[p]
          ELSE Write(player[p], [player[p] EXCEPT !.payment = Dirty(@, r.rows[p].payment, r.word)])]
    /\ Done(w)
    /\ UNCHANGED <<auction, bids, squad, fielded, messages, lastRow>>

\* LineupService.save names a squad row in a match lineup.
Field(w, row) ==
    /\ Idle(w)
    /\ row \in squad
    /\ row.id \notin fielded
    /\ fielded' = fielded \union {row.id}
    /\ UNCHANGED <<auction, player, bids, squad, messages, lastRow, request>>

\* The queue worker hands a message that is still queued to its gateway.
Deliver(m) ==
    /\ m \in messages
    /\ m.status = "queued"
    /\ messages' = (messages \ {m}) \union {[m EXCEPT !.status = "sent"]}
    /\ UNCHANGED <<auction, player, bids, squad, fielded, lastRow, request>>

----------------------------------------------------------------------------

Init ==
    /\ auction = NewAuction
    /\ player = [p \in Player |-> NoRow]
    /\ bids = [p \in Player |-> {}]
    /\ squad = {}
    /\ fielded = {}
    /\ messages = {}
    /\ lastRow = 0
    /\ request = [w \in Worker |-> NoRequest]

BidNext(w) == CommitBid(w) \/ \E t \in Team, x \in 0..MaxBid : ReadBid(w, t, x)

DeskNext(w) ==
    \/ CommitUpdatePlayer(w) \/ CommitRemove(w) \/ CommitCall(w) \/ CommitReopen(w)
    \/ CommitAccelerate(w) \/ CommitStatus(w) \/ CommitPayment(w)
    \/ Sell(w) \/ Announce(w) \/ Unsold(w) \/ ReadReopen(w) \/ ReadAccelerate(w)
    \/ \E p \in Player : ReadUpdatePlayer(w, p) \/ ReadRemove(w, p) \/ ReadCall(w, p)
    \/ \E s \in StatusChoices : ReadStatus(w, s)
    \/ \E S \in SUBSET Player, word \in {"pending", "paid"} : ReadPayment(w, S, word)

Next ==
    \/ \E w \in Bidder : BidNext(w)
    \/ \E w \in Auctioneer : DeskNext(w)
    \/ \E p \in Player : Register(p)
    \/ \E w \in Worker, row \in squad : Field(w, row)
    \/ \E m \in messages : Deliver(m)

Spec == Init /\ [][Next]_vars
=============================================================================
