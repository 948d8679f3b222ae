--------------------------- MODULE AuctionProofs ---------------------------
(***************************************************************************)
(* Theorems about the live auction, for every set of players, teams and    *)
(* workers and every purse, increment and bound.                           *)
(*                                                                         *)
(* Then about an auction run from one desk: one organizer session works    *)
(* the hammer, any number of workers bid.  That argument is DeskInv.       *)
(* Neither OneOnHammer nor SquadMatchesSales is inductive: a Commit step   *)
(* writes what its Read step decided, so the invariant has to say what the *)
(* desk still knows about the rows it read (DeskView).  The other writers  *)
(* are bids, which leave the hammer where it is, registrations, which      *)
(* touch rows no desk request can hold, and lineups and deliveries, which  *)
(* touch neither.                                                          *)
(*                                                                         *)
(* Last about one whose requests follow one another, any number of desks   *)
(* and bidders: what a handler has read is then still what is stored when  *)
(* it writes.  LotInv says what every worker still knows of what it has    *)
(* read (Seen), and keeps the standing bid the highest one even while the  *)
(* lot is closed (TopBid).  PurseInv carries the purse and the cap along   *)
(* with the lot: from the accepted bid to the sale, and past an undo, the  *)
(* leading team can pay its bid (Covered).                                 *)
(***************************************************************************)
EXTENDS AuctionTurns, FiniteSums, TLAPS

----------------------------------------------------------------------------
(* Typing of the helpers *)

LEMMA NoRowTyped == NoRow \in PlayerRow /\ NewAuction \in AuctionRow /\ NoRequest \in Request
BY AuctionAssumption DEF NoRow, PlayerRow, NewAuction, AuctionRow, NoRequest, Request,
   RequestRecord, Statuses, PoolStatuses, Gone

LEMMA RowsTyped ==
    ASSUME TypeOK, NEW S
    PROVE  Rows(S) \in [Player -> PlayerRow]
BY NoRowTyped DEF TypeOK, Rows

LEMMA ReadingTyped ==
    ASSUME TypeOK, NEW S \in SUBSET Player, NEW op,
           op \in {"call", "reopen", "accelerate", "update", "remove", "payment"}
    PROVE  /\ Reading(op, S) \in RequestRecord
           /\ Reading(op, S).op = op
           /\ Reading(op, S).word = ""
<1>1. Rows(S) \in [Player -> PlayerRow] BY RowsTyped
<1> QED BY <1>1, NoRowTyped DEF Reading, RequestRecord, Request, NoRequest

\* What a handler adds to the rows it has read.
LEMMA SeenTyped ==
    ASSUME NEW r \in RequestRecord, NEW a \in AuctionRow
    PROVE  /\ [r EXCEPT !.seen = a] \in RequestRecord
           /\ [r EXCEPT !.seen = a].op = r.op
BY DEF RequestRecord

LEMMA WordTyped ==
    ASSUME NEW r \in RequestRecord,
           NEW word \in Statuses \union PoolStatuses \union {"", "pending", "paid"}
    PROVE  /\ [r EXCEPT !.word = word] \in RequestRecord
           /\ [r EXCEPT !.word = word].op = r.op
           /\ [r EXCEPT !.word = word].word = word
BY DEF RequestRecord

LEMMA WordAndAmountTyped ==
    ASSUME NEW r \in RequestRecord, NEW x \in Nat,
           NEW word \in Statuses \union PoolStatuses \union {"", "pending", "paid"}
    PROVE  /\ [r EXCEPT !.word = word, !.amount = x] \in RequestRecord
           /\ [r EXCEPT !.word = word, !.amount = x].op = r.op
           /\ [r EXCEPT !.word = word, !.amount = x].word = word
BY DEF RequestRecord

LEMMA KeepTyped ==
    ASSUME TypeOK, NEW w \in Worker, NEW r \in Request, Keep(w, r)
    PROVE  request' \in [Worker -> Request]
BY DEF TypeOK, Keep

LEMMA DirtyTyped ==
    ASSUME NEW S, NEW old \in S, NEW read, NEW new \in S
    PROVE  Dirty(old, read, new) \in S
BY DEF Dirty

LEMMA WriteTyped ==
    ASSUME NEW row \in PlayerRow, NEW new \in PlayerRow
    PROVE  Write(row, new) \in PlayerRow
BY DEF Write

PlayerStatuses == PoolStatuses \union Gone \union {"in_hammer", "sold"}

LEMMA RowUpdateTyped ==
    ASSUME NEW row \in PlayerRow, NEW s \in PlayerStatuses, NEW b \in Nat
    PROVE  [row EXCEPT !.status = s, !.base = b] \in PlayerRow
BY DEF PlayerRow, PlayerStatuses

LEMMA RowPaymentTyped ==
    ASSUME NEW row \in PlayerRow, NEW m \in {"pending", "paid"}
    PROVE  [row EXCEPT !.payment = m] \in PlayerRow
BY DEF PlayerRow

LEMMA RowSaleTyped ==
    ASSUME NEW row \in PlayerRow, NEW s \in PlayerStatuses, NEW t \in Team \union {NoTeam},
           NEW x \in Nat, NEW m \in {"pending", "paid"}, NEW id \in Nat
    PROVE  [row EXCEPT !.status = s, !.price = x, !.soldTo = t,
                       !.payment = m, !.squadRow = id] \in PlayerRow
BY DEF PlayerRow, PlayerStatuses

LEMMA StandingTyped ==
    ASSUME NEW row \in AuctionRow, NEW x \in Nat,
           NEW t \in Team \union {NoTeam}, NEW h \in {"waiting", "bidding", "sold", "unsold"}
    PROVE  [row EXCEPT !.amount = x, !.team = t, !.hammer = h] \in AuctionRow
BY DEF AuctionRow

LEMMA StatusTyped ==
    ASSUME NEW row \in AuctionRow, NEW s \in Statuses
    PROVE  [row EXCEPT !.status = s] \in AuctionRow
BY DEF AuctionRow

LEMMA DiscountTyped ==
    ASSUME NEW base \in Nat
    PROVE  Discount(base) \in Nat
<1>1. (6 * base + 4) \div 8 \in Nat OBVIOUS
<1>2. DiscountFloor \in Nat BY AuctionAssumption
<1> QED BY <1>1, <1>2 DEF Discount

----------------------------------------------------------------------------
(* Every step keeps the types *)

LEMMA TypeOKDesk ==
    ASSUME TypeOK, NEW w \in Auctioneer, DeskNext(w)
    PROVE  TypeOK'
<1> USE AuctionAssumption
<1>w. w \in Worker BY DEF Worker
<1>n. NoRequest \in Request BY NoRowTyped
<1>0. ASSUME UNCHANGED stored, request' \in [Worker -> Request] PROVE TypeOK'
  BY <1>0 DEF TypeOK, stored
<1>d. ASSUME Done(w) PROVE request' \in [Worker -> Request]
  BY <1>d, <1>w, <1>n, KeepTyped DEF Done
<1>r. request[w] \in Request BY <1>w DEF TypeOK
<1>p. \A p \in Player : /\ player[p] \in PlayerRow
                        /\ request[w].rows[p] \in PlayerRow
                        /\ player[p].status \in PlayerStatuses
                        /\ player[p].base \in Nat /\ request[w].rows[p].base \in Nat
                        /\ player[p].soldTo \in Team \union {NoTeam}
                        /\ player[p].price \in Nat /\ player[p].squadRow \in Nat
                        /\ player[p].payment \in {"pending", "paid"}
  BY <1>r DEF TypeOK, Request, RequestRecord, PlayerRow, PlayerStatuses
<1>1. CASE CommitUpdatePlayer(w)
  <2> DEFINE r == request[w]
             s(p) == IF r.word = "" THEN player[p].status
                     ELSE Dirty(player[p].status, r.rows[p].status, r.word)
             b(p) == Dirty(player[p].base, r.rows[p].base, r.amount)
  <2>1. \A p \in Player : s(p) \in PlayerStatuses /\ b(p) \in Nat
    BY <1>1, <1>r, <1>p DEF CommitUpdatePlayer, Request, RequestRecord, Dirty, PlayerStatuses
  <2>2. \A p \in Player : [player[p] EXCEPT !.status = s(p), !.base = b(p)] \in PlayerRow
    BY <1>p, <2>1, RowUpdateTyped
  <2>3. \A p \in Player :
          Write(player[p], [player[p] EXCEPT !.status = s(p), !.base = b(p)]) \in PlayerRow
    BY <1>p, <2>2, WriteTyped
  <2>4. player' = [p \in Player |->
          IF p \notin r.lots THEN player[p]
          ELSE Write(player[p], [player[p] EXCEPT !.status = s(p), !.base = b(p)])]
    BY <1>1 DEF CommitUpdatePlayer
  <2>5. player' \in [Player -> PlayerRow]
    <3> HIDE DEF s, b
    <3> QED BY <2>3, <2>4, <1>p
  <2> QED BY <2>5, <1>1, <1>d DEF CommitUpdatePlayer, TypeOK
<1>2. CASE CommitRemove(w)
  <2>1. player' \in [Player -> PlayerRow]
    BY <1>2, NoRowTyped DEF CommitRemove, TypeOK, PlayerRow, Gone
  <2> QED BY <2>1, <1>2, <1>d DEF CommitRemove, TypeOK
<1>3. CASE CommitCall(w)
  <2>1. PICK p \in request[w].lots : /\ auction' = Opened(request[w], p)
                                     /\ player' = Called(p)
                                     /\ bids' = [bids EXCEPT ![p] = {}]
    BY <1>3 DEF CommitCall
  <2>2. p \in Player BY <1>r, <2>1 DEF Request, RequestRecord
  <2>3. auction' \in AuctionRow
    BY <2>1, <2>2, <1>r DEF Opened, Dirty, TypeOK, AuctionRow, Request, RequestRecord, PlayerRow, Statuses
  <2>4. player' \in [Player -> PlayerRow]
    BY <2>1, <2>2 DEF Called, Write, TypeOK, PlayerRow, PoolStatuses
  <2> QED BY <2>1, <2>2, <2>3, <2>4, <1>3, <1>d DEF CommitCall, TypeOK
<1>4. CASE CommitReopen(w)
  <2>1. PICK p \in request[w].lots :
          /\ squad' = SquadWithout(request[w].rows[p].squadRow)
          /\ messages' = {IF m.player = p /\ m.status = "queued"
                          THEN [m EXCEPT !.status = "skipped"] ELSE m : m \in messages}
          /\ player' = [player EXCEPT ![p] =
                           Write(player[p], Undone(player[p], request[w].rows[p]))]
    BY <1>4 DEF CommitReopen
  <2>2. p \in Player BY <1>r, <2>1 DEF Request, RequestRecord
  <2> DEFINE new == Undone(player[p], request[w].rows[p])
  <2>b. new \in PlayerRow
    <3> DEFINE was == request[w].rows[p]
               s == Dirty(player[p].status, was.status, "in_hammer")
               x == Dirty(player[p].price, was.price, 0)
               t == Dirty(player[p].soldTo, was.soldTo, NoTeam)
               m == Dirty(player[p].payment, was.payment, "pending")
               id == Dirty(player[p].squadRow, was.squadRow, 0)
    <3>1. /\ s \in PlayerStatuses /\ x \in Nat /\ t \in Team \union {NoTeam}
          /\ m \in {"pending", "paid"} /\ id \in Nat
      BY <2>2, <1>p DEF Dirty, PlayerStatuses
    <3>2. player[p] \in PlayerRow BY <2>2, <1>p
    <3>3. new = [player[p] EXCEPT !.status = s, !.price = x, !.soldTo = t, !.payment = m,
                                  !.squadRow = id]
      BY DEF Undone
    <3> HIDE DEF new, s, x, t, m, id
    <3> QED BY <3>1, <3>2, <3>3, RowSaleTyped
  <2>c. player' = [player EXCEPT ![p] = Write(player[p], new)] BY <2>1
  <2>3. player' \in [Player -> PlayerRow]
    <3> HIDE DEF new
    <3> QED BY <2>b, <2>c, <2>2, <1>p, WriteTyped DEF TypeOK
  <2>4. messages' \subseteq Message
    BY <2>1 DEF TypeOK, Message
  <2>5. squad' \subseteq squad BY <2>1 DEF SquadWithout
  <2>6. auction' \in AuctionRow BY <1>4 DEF CommitReopen, Dirty, TypeOK, AuctionRow
  <2> QED BY <2>3, <2>4, <2>5, <2>6, <1>4, <1>d DEF CommitReopen, TypeOK
<1>5. CASE CommitAccelerate(w)
  <2>1. player' \in [Player -> PlayerRow]
    <3> DEFINE b(p) == Dirty(player[p].base, request[w].rows[p].base,
                             Discount(request[w].rows[p].base))
    <3>1. \A p \in Player : b(p) \in Nat
      BY <1>p, DiscountTyped, DirtyTyped
    <3>2. \A p \in Player :
            [player[p] EXCEPT !.status = "approved", !.base = b(p)] \in PlayerRow
      BY <3>1, <1>p, RowUpdateTyped DEF PlayerStatuses, PoolStatuses
    <3>3. player' = [p \in Player |->
            IF p \notin request[w].lots THEN player[p]
            ELSE Write(player[p], [player[p] EXCEPT !.status = "approved", !.base = b(p)])]
      BY <1>5 DEF CommitAccelerate
    <3> HIDE DEF b
    <3> QED BY <3>2, <3>3, <1>p, WriteTyped
  <2> QED BY <2>1, <1>5, <1>d DEF CommitAccelerate, TypeOK
<1>6. CASE CommitStatus(w)
  <2>1. auction' \in AuctionRow
    <3>1. Dirty(auction.status, request[w].seen.status, request[w].word) \in Statuses
      BY <1>6, <1>r DEF CommitStatus, TypeOK, AuctionRow, Dirty, Request
    <3> QED BY <1>6, <3>1, StatusTyped DEF CommitStatus, TypeOK
  <2> QED BY <2>1, <1>6, <1>d DEF CommitStatus, TypeOK
<1>7. CASE CommitPayment(w)
  <2>1. player' \in [Player -> PlayerRow]
    <3> DEFINE m(p) == Dirty(player[p].payment, request[w].rows[p].payment, request[w].word)
    <3>1. \A p \in Player : m(p) \in {"pending", "paid"}
      BY <1>7, <1>r, <1>p DEF CommitPayment, Request, Dirty
    <3>2. \A p \in Player : [player[p] EXCEPT !.payment = m(p)] \in PlayerRow
      BY <3>1, <1>p, RowPaymentTyped
    <3>3. player' = [p \in Player |->
            IF p \notin request[w].lots THEN player[p]
            ELSE Write(player[p], [player[p] EXCEPT !.payment = m(p)])]
      BY <1>7 DEF CommitPayment
    <3> HIDE DEF m
    <3> QED BY <3>2, <3>3, <1>p, WriteTyped
  <2> QED BY <2>1, <1>7, <1>d DEF CommitPayment, TypeOK
<1>8. CASE Sell(w)
  <2> DEFINE p == auction.current
             price == IF auction.amount # 0 THEN auction.amount ELSE player[p].base
  <2>1. p \in Player BY <1>8 DEF Sell, OnHammer, TypeOK, AuctionRow
  <2>2. auction.team \in Team BY <1>8 DEF Sell, TypeOK, AuctionRow
  <2>3. price \in Nat BY <2>1 DEF TypeOK, AuctionRow, PlayerRow
  <2>4. player' \in [Player -> PlayerRow]
    <3>1. lastRow + 1 \in Nat BY DEF TypeOK
    <3>2. [player[p] EXCEPT !.status = "sold", !.price = price, !.soldTo = auction.team,
                            !.payment = "pending", !.squadRow = lastRow + 1] \in PlayerRow
      BY <3>1, <2>1, <2>2, <2>3, <1>p, RowSaleTyped DEF PlayerStatuses
    <3>3. player' = [player EXCEPT ![p] =
            [player[p] EXCEPT !.status = "sold", !.price = price, !.soldTo = auction.team,
                              !.payment = "pending", !.squadRow = lastRow + 1]]
      BY <1>8 DEF Sell
    <3> HIDE DEF p, price
    <3> QED BY <3>2, <3>3, <2>1 DEF TypeOK
  <2>5. /\ squad' \subseteq [id: Nat, team: Team, player: Player]
        /\ lastRow' \in Nat
    BY <1>8, <2>1, <2>2 DEF Sell, TypeOK
  <2>6. auction' \in AuctionRow BY <1>8 DEF Sell, TypeOK, AuctionRow
  <2>7. [NoRequest EXCEPT !.op = "announce", !.lots = {p}, !.amount = price] \in Request
    BY <2>1, <2>3, NoRowTyped DEF Request, RequestRecord, NoRequest
  <2>8. request' \in [Worker -> Request]
    BY <1>8, <1>w, <2>7, KeepTyped DEF Sell
  <2> QED BY <2>4, <2>5, <2>6, <2>8, <1>8 DEF Sell, TypeOK
<1>9. CASE Announce(w)
  <2>1. PICK p \in request[w].lots :
          messages' =
             IF \E m \in messages : m.player = p /\ m.team = auction.team
                                     /\ m.price = request[w].amount
             THEN messages
             ELSE messages \union {[player |-> p, team |-> auction.team,
                                    price |-> request[w].amount, status |-> "queued"]}
    BY <1>9 DEF Announce
  <2>2. [player |-> p, team |-> auction.team, price |-> request[w].amount,
         status |-> "queued"] \in Message
    BY <1>r, <2>1 DEF TypeOK, Message, Request, RequestRecord, AuctionRow
  <2>3. messages' \subseteq Message BY <2>1, <2>2 DEF TypeOK
  <2> QED BY <2>3, <1>9, <1>d DEF Announce, TypeOK
<1>10. CASE Unsold(w)
  <2>1. auction.current \in Player BY <1>10 DEF Unsold, OnHammer, TypeOK, AuctionRow
  <2>2. player' \in [Player -> PlayerRow]
    BY <1>10, <2>1 DEF Unsold, TypeOK, PlayerRow, PoolStatuses
  <2>3. auction' \in AuctionRow BY <1>10 DEF Unsold, TypeOK, AuctionRow
  <2> QED BY <2>2, <2>3, <1>10 DEF Unsold, TypeOK
<1>11. CASE ReadReopen(w)
  <2>1. auction.current \in Player BY <1>11 DEF ReadReopen, TypeOK, AuctionRow
  <2>2. Reading("reopen", {auction.current}) \in RequestRecord
        /\ Reading("reopen", {auction.current}).op = "reopen"
    BY <2>1, ReadingTyped
  <2>3. [Reading("reopen", {auction.current}) EXCEPT !.seen = auction] \in Request
    BY <2>2, SeenTyped DEF Request, TypeOK
  <2> QED BY <2>3, <1>11, <1>w, <1>0, KeepTyped DEF ReadReopen
<1>12. CASE ReadAccelerate(w)
  <2>1. Reading("accelerate", {p \in Player : player[p].status = "unsold"}) \in Request
    BY ReadingTyped DEF Request
  <2> QED BY <2>1, <1>12, <1>w, <1>0, KeepTyped DEF ReadAccelerate
<1>13. ASSUME NEW p \in Player, ReadUpdatePlayer(w, p) PROVE TypeOK'
  <2>1. PICK s \in PoolChoices \union {""}, b \in BasePrices \union {player[p].base} :
          Keep(w, [Reading("update", {p}) EXCEPT !.word = s, !.amount = b])
    BY <1>13 DEF ReadUpdatePlayer
  <2>2. s \in PoolStatuses \union {""} /\ b \in Nat
    BY <2>1 DEF TypeOK, PlayerRow
  <2>3. Reading("update", {p}) \in RequestRecord /\ Reading("update", {p}).op = "update"
    BY ReadingTyped
  <2>4. [Reading("update", {p}) EXCEPT !.word = s, !.amount = b] \in Request
    <3> DEFINE read == Reading("update", {p})
               kept == [read EXCEPT !.word = s, !.amount = b]
    <3>1. read \in RequestRecord /\ read.op = "update" BY <2>3
    <3>2. s \in Statuses \union PoolStatuses \union {"", "pending", "paid"} BY <2>2
    <3>3. kept \in RequestRecord /\ kept.op = "update" /\ kept.word = s
      <4> HIDE DEF read
      <4>1. b \in Nat BY <2>2
      <4> QED BY ONLY <4>1, <3>1, <3>2, WordAndAmountTyped
    <3>4. kept \in Request
      <4> HIDE DEF kept
      <4> QED BY <2>2, <3>3 DEF Request
    <3> QED BY <3>4
  <2> QED BY <2>1, <2>4, <1>13, <1>w, <1>0, KeepTyped DEF ReadUpdatePlayer
<1>14. ASSUME NEW p \in Player, ReadRemove(w, p) PROVE TypeOK'
  <2>1. Reading("remove", {p}) \in Request BY ReadingTyped DEF Request
  <2> QED BY <2>1, <1>14, <1>w, <1>0, KeepTyped DEF ReadRemove
<1>15. ASSUME NEW p \in Player, ReadCall(w, p) PROVE TypeOK'
  <2>1. Reading("call", {p}) \in RequestRecord /\ Reading("call", {p}).op = "call"
    BY ReadingTyped
  <2>2. [Reading("call", {p}) EXCEPT !.seen = auction] \in Request
    BY <2>1, SeenTyped DEF Request, TypeOK
  <2> QED BY <2>2, <1>15, <1>w, <1>0, KeepTyped DEF ReadCall
<1>16. ASSUME NEW s \in StatusChoices, ReadStatus(w, s) PROVE TypeOK'
  <2>1. [NoRequest EXCEPT !.op = "status", !.seen = auction, !.word = s] \in Request
    BY NoRowTyped, AuctionAssumption DEF Request, RequestRecord, TypeOK, NoRequest
  <2> QED BY <2>1, <1>16, <1>w, <1>0, KeepTyped DEF ReadStatus
<1>17. ASSUME NEW S \in SUBSET Player, NEW word \in {"pending", "paid"},
              ReadPayment(w, S, word)
       PROVE TypeOK'
  <2>1. Reading("payment", S) \in RequestRecord /\ Reading("payment", S).op = "payment"
    BY ReadingTyped
  <2>2. [Reading("payment", S) EXCEPT !.word = word] \in Request
    BY <2>1, WordTyped DEF Request
  <2> QED BY <2>2, <1>17, <1>w, <1>0, KeepTyped DEF ReadPayment
<1> QED
  BY <1>1, <1>2, <1>3, <1>4, <1>5, <1>6, <1>7, <1>8, <1>9, <1>10, <1>11, <1>12,
     <1>13, <1>14, <1>15, <1>16, <1>17 DEF DeskNext

LEMMA TypeOKBid ==
    ASSUME TypeOK, NEW w \in Bidder, BidNext(w)
    PROVE  TypeOK'
<1>w. w \in Worker BY DEF Worker
<1>r. request[w] \in Request BY <1>w DEF TypeOK
<1>1. CASE CommitBid(w)
  <2>1. request' \in [Worker -> Request]
    BY <1>1, <1>w, NoRowTyped, KeepTyped DEF CommitBid, Done
  <2>2. CASE ~ BidStands(request[w])
    BY <1>1, <2>1, <2>2 DEF CommitBid, TypeOK
  <2>3. CASE BidStands(request[w])
    <3> DEFINE r == request[w]
    <3>1. r.op = "bid" /\ r.team \in Team /\ r.seen.current \in Player /\ r.amount \in Nat
      BY <1>1, <1>r DEF CommitBid, Request, RequestRecord
    <3>2. /\ Dirty(auction.amount, r.seen.amount, r.amount) \in Nat
          /\ Dirty(auction.team, r.seen.team, r.team) \in Team \union {NoTeam}
          /\ Dirty(auction.hammer, r.seen.hammer, "bidding")
                \in {"waiting", "bidding", "sold", "unsold"}
      BY <3>1 DEF Dirty, TypeOK, AuctionRow
    <3>3. auction' \in AuctionRow
      <4> DEFINE x == Dirty(auction.amount, r.seen.amount, r.amount)
                 t == Dirty(auction.team, r.seen.team, r.team)
                 h == Dirty(auction.hammer, r.seen.hammer, "bidding")
      <4>1. auction' = [auction EXCEPT !.amount = x, !.team = t, !.hammer = h]
        BY <1>1, <2>3 DEF CommitBid
      <4>2. x \in Nat /\ t \in Team \union {NoTeam}
            /\ h \in {"waiting", "bidding", "sold", "unsold"}
        BY <3>2
      <4> HIDE DEF x, t, h
      <4> QED BY <4>1, <4>2, StandingTyped DEF TypeOK
    <3>4. bids' \in [Player -> SUBSET [team: Team, amount: Nat]]
      BY <1>1, <2>3, <3>1 DEF CommitBid, TypeOK
    <3> QED BY <3>3, <3>4, <2>1, <1>1 DEF CommitBid, TypeOK
  <2> QED BY <2>2, <2>3
<1>2. ASSUME NEW t \in Team, NEW x \in 0..MaxBid, ReadBid(w, t, x) PROVE TypeOK'
  <2>1. auction.current \in Player /\ x \in Nat
    BY <1>2, AuctionAssumption DEF ReadBid, TypeOK, AuctionRow
  <2>2. [NoRequest EXCEPT !.op = "bid", !.seen = auction, !.team = t, !.amount = x] \in Request
    BY <2>1, NoRowTyped DEF Request, RequestRecord, NoRequest, TypeOK
  <2>3. request' \in [Worker -> Request] BY <2>2, <1>2, <1>w, KeepTyped DEF ReadBid
  <2> QED BY <2>3, <1>2 DEF ReadBid, TypeOK, stored
<1> QED BY <1>1, <1>2 DEF BidNext

LEMMA TypeOKRest ==
    ASSUME TypeOK,
           \/ \E p \in Player : Register(p)
           \/ \E w \in Worker, row \in squad : Field(w, row)
           \/ \E m \in messages : Deliver(m)
    PROVE  TypeOK'
<1>1. ASSUME NEW p \in Player, Register(p) PROVE TypeOK'
  <2>1. PICK b \in BasePrices :
          player' = [player EXCEPT ![p] = [NoRow EXCEPT !.status = "registered", !.base = b]]
    BY <1>1 DEF Register
  <2>2. b \in Nat /\ "registered" \in PlayerStatuses
    BY AuctionAssumption DEF PlayerStatuses, PoolStatuses
  <2>3. [NoRow EXCEPT !.status = "registered", !.base = b] \in PlayerRow
    BY <2>2, NoRowTyped, RowUpdateTyped
  <2> QED BY <2>1, <2>3, <1>1 DEF Register, TypeOK
<1>2. ASSUME NEW w \in Worker, NEW row \in squad, Field(w, row) PROVE TypeOK'
  BY <1>2 DEF Field, TypeOK
<1>3. ASSUME NEW m \in messages, Deliver(m) PROVE TypeOK'
  <2>1. [m EXCEPT !.status = "sent"] \in Message BY DEF TypeOK, Message
  <2> QED BY <2>1, <1>3 DEF Deliver, TypeOK
<1> QED BY <1>1, <1>2, <1>3

LEMMA TypeOKStep ==
    ASSUME TypeOK, [Next]_vars
    PROVE  TypeOK'
<1>1. CASE UNCHANGED vars BY <1>1 DEF vars, TypeOK
<1>2. CASE Next BY <1>2, TypeOKDesk, TypeOKBid, TypeOKRest DEF Next
<1> QED BY <1>1, <1>2

LEMMA TypeOKInit == Init => TypeOK
BY NoRowTyped DEF Init, TypeOK

\* Every reachable state of the auction is well typed, whatever requests are
\* in flight: every column a handler writes stays inside its domain.
THEOREM TypeCorrect == Spec => []TypeOK
BY TypeOKInit, TypeOKStep, PTL DEF Spec

----------------------------------------------------------------------------
(* Bids *)

LEMMA BidsStep ==
    ASSUME TypeOK, [Next]_vars, NEW p \in Player, NEW b \in bids'[p] \ bids[p]
    PROVE  /\ auction.hammer = "bidding" /\ auction.current = p
           /\ b.team # auction.team
           /\ auction.team # NoTeam => b.amount >= auction.amount + Increment
<1>1. PICK w \in Bidder : CommitBid(w)
  <2>1. bids' # bids OBVIOUS
  <2>2. ASSUME NEW w \in Auctioneer, CommitCall(w) PROVE FALSE
    BY <2>2 DEF CommitCall, TypeOK
  <2>3. ASSUME NEW w \in Auctioneer, DeskNext(w) PROVE CommitCall(w)
    BY <2>1, <2>3 DEF DeskNext, CommitUpdatePlayer, CommitRemove, CommitReopen,
       CommitAccelerate, CommitStatus, CommitPayment, Sell, Announce, Unsold, ReadReopen,
       ReadAccelerate, ReadUpdatePlayer, ReadRemove, ReadCall, ReadStatus, ReadPayment, stored
  <2>4. ~ (\E q \in Player : Register(q)) /\ ~ (\E w \in Worker, row \in squad : Field(w, row))
        /\ ~ (\E m \in messages : Deliver(m)) /\ ~ UNCHANGED vars
    BY <2>1 DEF Register, Field, Deliver, vars
  <2>5. ASSUME NEW w \in Bidder, NEW t \in Team, NEW x \in 0..MaxBid, ReadBid(w, t, x)
        PROVE  FALSE
    BY <2>1, <2>5 DEF ReadBid, stored
  <2> QED BY <2>2, <2>3, <2>4, <2>5 DEF Next, BidNext
<1> DEFINE r == request[w]
<1>2. BidStands(r) /\ bids' = [bids EXCEPT ![r.seen.current] =
                                  @ \union {[team |-> r.team, amount |-> r.amount]}]
  BY <1>1 DEF CommitBid
<1>3. p = r.seen.current /\ b = [team |-> r.team, amount |-> r.amount]
  BY <1>2 DEF TypeOK
<1> QED BY <1>2, <1>3 DEF BidStands

\* A bid row is only ever added for the open lot, by another team than the
\* leading one and at least one increment above it, whatever was read before
\* the lock was taken (placeBid).
THEOREM BidsAreTop == Spec => BidsTopUnderLock
<1>1. TypeOK /\ [Next]_vars =>
        [\A p \in Player : \A b \in bids'[p] \ bids[p] :
          /\ auction.hammer = "bidding" /\ auction.current = p
          /\ b.team # auction.team
          /\ auction.team # NoTeam => b.amount >= auction.amount + Increment]_vars
  BY BidsStep
<1> QED BY <1>1, TypeCorrect, PTL DEF Spec, BidsTopUnderLock

----------------------------------------------------------------------------
(* The second round *)

\* The second-round price never exceeds the old one, and a price that was at
\* the floor or above stays there (acceleratedRound: "never *up*").
THEOREM DiscountNeverRaises ==
    ASSUME NEW base \in Nat
    PROVE  /\ Discount(base) <= base
           /\ base >= DiscountFloor => Discount(base) >= DiscountFloor
<1>1. DiscountFloor \in Nat BY AuctionAssumption
<1>2. (6 * base + 4) \div 8 <= base OBVIOUS
<1> QED BY <1>1, <1>2 DEF Discount

----------------------------------------------------------------------------
(* One desk *)

OneDesk == \A a, b \in Auctioneer : a = b

HammerAndSquad ==
    /\ OneOnHammer
    /\ SquadMatchesSales
    /\ RowIdsUnique
    /\ \A p \in Player : ~ Sold(p) => player[p].squadRow = 0

----------------------------------------------------------------------------

LEMMA NoneWaiting == NoRequest.op = "none"
BY DEF NoRequest

LEMMA DeskInvInit == Init => DeskInv
<1> SUFFICES ASSUME Init PROVE DeskInv OBVIOUS
<1>1. \A p \in Player : player[p] = NoRow BY DEF Init
<1>2. \A d \in Auctioneer : request[d].op = "none" BY DEF Init, Worker, NoRequest
<1>3. \A d \in Auctioneer : DeskView(d) BY <1>2 DEF DeskView
<1>4. OneOnHammer BY <1>1 DEF OneOnHammer, Init, NewAuction, NoRow
<1>5. \A p \in Player : ~ Sold(p) /\ player[p].squadRow = 0 BY <1>1 DEF Sold, NoRow
<1>6. squad = {} BY DEF Init
<1> QED BY <1>3, <1>4, <1>5, <1>6 DEF DeskInv, SquadMatchesSales, RowIdsUnique

\* A step that leaves the hammer, the pool and the squads alone keeps what
\* is said of them.
LEMMA SameRows ==
    ASSUME HammerAndSquad, UNCHANGED <<player, squad, lastRow>>,
           auction'.current = auction.current, auction'.hammer = auction.hammer
    PROVE  HammerAndSquad'
BY DEF HammerAndSquad, OneOnHammer, SquadMatchesSales, RowIdsUnique, Sold

\* Between a desk's read and its write only bids, registrations, lineups and
\* deliveries happen; its view survives all of them.
LEMMA ViewKept ==
    ASSUME TypeOK, NEW d \in Auctioneer, DeskView(d), request'[d] = request[d],
           auction'.current = auction.current, auction'.hammer = auction.hammer,
           \A p \in Player : player[p].status \notin Gone => player'[p] = player[p]
    PROVE  DeskView(d)'
<1>1. request[d].lots \subseteq Player BY DEF TypeOK, Worker, Request, RequestRecord
<1>2. request[d].op \in {"call", "reopen", "accelerate", "update", "remove", "payment"} =>
        \A p \in request[d].lots : player'[p] = player[p]
  BY <1>1 DEF DeskView
<1> QED BY <1>2 DEF DeskView, Sold

\* A desk that is done, or is only announcing, holds nothing.
LEMMA ViewIdle ==
    ASSUME NEW d \in Auctioneer, request'[d].op \in {"none", "bid", "announce", "status"}
    PROVE  DeskView(d)'
BY DEF DeskView

----------------------------------------------------------------------------
(* Everyone but the desk *)

LEMMA DeskInvBid ==
    ASSUME TypeOK, DeskInv, NEW w \in Bidder, BidNext(w)
    PROVE  DeskInv'
<1>w. w \in Worker BY DEF Worker
<1>h. HammerAndSquad BY DEF DeskInv, HammerAndSquad
<1>1. CASE CommitBid(w)
  <2>1. auction'.current = auction.current /\ auction'.hammer = auction.hammer
    BY <1>1 DEF CommitBid, BidStands, Dirty, TypeOK, AuctionRow
  <2>2. HammerAndSquad' BY <1>1, <1>h, <2>1, SameRows DEF CommitBid
  <2>3. ASSUME NEW d \in Auctioneer PROVE DeskView(d)'
    <3>1. CASE d = w
      <4>1. request'[d] = NoRequest
        BY <3>1, <1>1, <1>w DEF CommitBid, Done, Keep, TypeOK
      <4>2. request'[d].op = "none" BY <4>1, NoneWaiting
      <4> QED BY <4>2, ViewIdle
    <3>2. CASE d # w
      <4>1. request'[d] = request[d]
        BY <3>2, <1>1, <1>w DEF CommitBid, Done, Keep, TypeOK, Worker
      <4>2. player' = player BY <1>1 DEF CommitBid
      <4> QED BY <4>1, <4>2, <2>1, ViewKept DEF DeskInv
    <3> QED BY <3>1, <3>2
  <2> QED BY <2>2, <2>3 DEF DeskInv, HammerAndSquad
<1>2. ASSUME NEW t \in Team, NEW x \in 0..MaxBid, ReadBid(w, t, x) PROVE DeskInv'
  <2>1. UNCHANGED stored BY <1>2 DEF ReadBid
  <2>2. HammerAndSquad' BY <2>1, <1>h, SameRows DEF stored
  <2>3. ASSUME NEW d \in Auctioneer PROVE DeskView(d)'
    <3> DEFINE r == [NoRequest EXCEPT !.op = "bid", !.seen = auction, !.team = t, !.amount = x]
    <3>1. CASE d = w
      <4>1. r.op = "bid" BY DEF NoRequest
      <4>2. request' = [request EXCEPT ![d] = r] BY <3>1, <1>2 DEF ReadBid, Keep
      <4> HIDE DEF r
      <4>3. request'[d] = r BY <4>2 DEF TypeOK, Worker
      <4> QED BY <4>1, <4>3, ViewIdle
    <3>2. CASE d # w
      <4>1. request' = [request EXCEPT ![w] = r] BY <1>2 DEF ReadBid, Keep
      <4> HIDE DEF r
      <4>2. request'[d] = request[d] BY <4>1, <3>2 DEF TypeOK, Worker
      <4> QED BY <4>2, <2>1, ViewKept DEF DeskInv, stored
    <3> QED BY <3>1, <3>2
  <2> QED BY <2>2, <2>3 DEF DeskInv, HammerAndSquad
<1> QED BY <1>1, <1>2 DEF BidNext

LEMMA DeskInvRest ==
    ASSUME TypeOK, DeskInv,
           \/ \E p \in Player : Register(p)
           \/ \E w \in Worker, row \in squad : Field(w, row)
           \/ \E m \in messages : Deliver(m)
    PROVE  DeskInv'
<1>h. HammerAndSquad BY DEF DeskInv, HammerAndSquad
<1>1. ASSUME NEW p \in Player, Register(p) PROVE DeskInv'
  <2>1. PICK b \in BasePrices :
          player' = [player EXCEPT ![p] = [NoRow EXCEPT !.status = "registered", !.base = b]]
    BY <1>1 DEF Register
  <2>2. /\ player'[p].status = "registered" /\ player'[p].squadRow = 0
        /\ \A q \in Player : q # p => player'[q] = player[q]
        /\ player[p].status = "absent"
    BY <2>1, <1>1 DEF TypeOK, NoRow, Register
  <2>3. HammerAndSquad'
    <3>1. OneOnHammer' BY <1>h, <1>1, <2>2 DEF HammerAndSquad, OneOnHammer, Register
    <3>2. SquadMatchesSales'
      BY <1>h, <1>1, <2>2 DEF HammerAndSquad, SquadMatchesSales, Register, Sold, TypeOK
    <3>3. RowIdsUnique' BY <1>h, <1>1 DEF HammerAndSquad, RowIdsUnique, Register
    <3> QED BY <3>1, <3>2, <3>3, <1>h, <2>2 DEF HammerAndSquad, Sold
  <2>4. \A d \in Auctioneer : DeskView(d)'
    BY <2>2, <1>1, ViewKept DEF DeskInv, Register, Gone
  <2> QED BY <2>3, <2>4 DEF DeskInv, HammerAndSquad
<1>2. ASSUME NEW w \in Worker, NEW row \in squad, Field(w, row) PROVE DeskInv'
  <2>1. HammerAndSquad' BY <1>2, <1>h, SameRows DEF Field
  <2>2. \A d \in Auctioneer : DeskView(d)' BY <1>2, ViewKept DEF DeskInv, Field
  <2> QED BY <2>1, <2>2 DEF DeskInv, HammerAndSquad
<1>3. ASSUME NEW m \in messages, Deliver(m) PROVE DeskInv'
  <2>1. HammerAndSquad' BY <1>3, <1>h, SameRows DEF Deliver
  <2>2. \A d \in Auctioneer : DeskView(d)' BY <1>3, ViewKept DEF DeskInv, Deliver
  <2> QED BY <2>1, <2>2 DEF DeskInv, HammerAndSquad
<1> QED BY <1>1, <1>2, <1>3

----------------------------------------------------------------------------
(* The desk *)

\* What the desk knows of a row it read, at the moment it writes.
LEMMA Fresh ==
    ASSUME TypeOK, DeskInv, NEW w \in Auctioneer,
           request[w].op \in {"call", "reopen", "accelerate", "update", "remove", "payment"},
           NEW p \in request[w].lots
    PROVE  /\ p \in Player /\ request[w].rows[p] = player[p]
           /\ player[p].status \notin Gone
BY DEF DeskInv, DeskView, TypeOK, Worker, Request, RequestRecord

\* Rows change, but nobody enters or leaves the hammer or a squad.
LEMMA PoolRowsOnly ==
    ASSUME TypeOK, HammerAndSquad, UNCHANGED <<auction, squad, lastRow>>,
           \A p \in Player :
              /\ player'[p].soldTo = player[p].soldTo \/ ~ Sold(p)
              /\ player'[p].squadRow = player[p].squadRow
                    \/ (player'[p].squadRow = 0 /\ ~ Sold(p))
              /\ player[p].status = "sold" <=> player'[p].status = "sold"
              /\ player[p].status = "in_hammer" <=> player'[p].status = "in_hammer"
    PROVE  HammerAndSquad'
<1>1. OneOnHammer' BY DEF HammerAndSquad, OneOnHammer
<1>2. SquadMatchesSales' BY DEF HammerAndSquad, SquadMatchesSales, Sold, TypeOK
<1>3. RowIdsUnique' BY DEF HammerAndSquad, RowIdsUnique
<1> QED BY <1>1, <1>2, <1>3 DEF HammerAndSquad, Sold

LEMMA HammerUpdate ==
    ASSUME TypeOK, DeskInv, NEW w \in Auctioneer, CommitUpdatePlayer(w)
    PROVE  HammerAndSquad'
<1> DEFINE r == request[w]
<1>r. r \in Request /\ r.op = "update" BY DEF CommitUpdatePlayer, TypeOK, Worker
<1>1. ASSUME NEW p \in Player PROVE
         /\ player'[p].soldTo = player[p].soldTo
         /\ player'[p].squadRow = player[p].squadRow
         /\ player'[p].status = player[p].status
               \/ (p \in r.lots /\ r.word # "" /\ player'[p].status = r.word)
  BY DEF CommitUpdatePlayer, TypeOK, PlayerRow, Write, Dirty
<1>2. ASSUME NEW p \in Player, p \in r.lots, r.word # ""
      PROVE  player[p].status \notin {"sold", "in_hammer"}
  BY <1>2, <1>r DEF DeskInv, DeskView
<1>3. r.word \notin {"sold", "in_hammer"} BY <1>r DEF Request, PoolStatuses
<1> QED BY <1>1, <1>2, <1>3, PoolRowsOnly DEF DeskInv, HammerAndSquad, CommitUpdatePlayer

LEMMA HammerRemove ==
    ASSUME TypeOK, DeskInv, NEW w \in Auctioneer, CommitRemove(w)
    PROVE  HammerAndSquad'
<1> DEFINE r == request[w]
<1>1. ASSUME NEW p \in Player, p \notin r.lots PROVE player'[p] = player[p]
  BY <1>1 DEF CommitRemove
<1>2. ASSUME NEW p \in Player, p \in r.lots
      PROVE  /\ player[p].status \notin {"sold", "in_hammer"}
             /\ player'[p].status = "removed" /\ player'[p].squadRow = 0
  BY <1>2 DEF CommitRemove, DeskInv, DeskView, NoRow
<1> QED BY <1>1, <1>2, PoolRowsOnly DEF DeskInv, HammerAndSquad, CommitRemove, Sold

LEMMA HammerAccelerate ==
    ASSUME TypeOK, DeskInv, NEW w \in Auctioneer, CommitAccelerate(w)
    PROVE  HammerAndSquad'
<1> DEFINE r == request[w]
<1>1. ASSUME NEW p \in Player, p \notin r.lots PROVE player'[p] = player[p]
  BY <1>1 DEF CommitAccelerate
<1>2. ASSUME NEW p \in Player, p \in r.lots
      PROVE  /\ player[p].status = "unsold" /\ player'[p].status \in {"unsold", "approved"}
             /\ player'[p].squadRow = player[p].squadRow
  <2>1. player[p].status = "unsold" BY <1>2 DEF CommitAccelerate, DeskInv, DeskView
  <2> DEFINE b == Dirty(player[p].base, r.rows[p].base, Discount(r.rows[p].base))
  <2>2. player'[p] = [player[p] EXCEPT !.status = "approved", !.base = b]
    BY <1>2, <2>1 DEF CommitAccelerate, Write, Gone
  <2> HIDE DEF b
  <2> QED BY <2>1, <2>2 DEF TypeOK, PlayerRow
<1> QED BY <1>1, <1>2, PoolRowsOnly DEF DeskInv, HammerAndSquad, CommitAccelerate, Sold

LEMMA HammerPayment ==
    ASSUME TypeOK, DeskInv, NEW w \in Auctioneer, CommitPayment(w)
    PROVE  HammerAndSquad'
<1>1. ASSUME NEW p \in Player
      PROVE  /\ player'[p].soldTo = player[p].soldTo
             /\ player'[p].squadRow = player[p].squadRow
             /\ player'[p].status = player[p].status
  BY DEF CommitPayment, TypeOK, PlayerRow, Write
<1> QED BY <1>1, PoolRowsOnly DEF DeskInv, HammerAndSquad, CommitPayment

LEMMA HammerCall ==
    ASSUME TypeOK, DeskInv, NEW w \in Auctioneer, CommitCall(w)
    PROVE  HammerAndSquad'
<1> DEFINE r == request[w]
<1>1. PICK p \in r.lots : auction' = Opened(r, p) /\ player' = Called(p)
  BY DEF CommitCall
<1>2. /\ p \in Player /\ player[p].status \in {"registered", "approved", "unsold"}
      /\ r.seen.current = auction.current /\ r.seen.hammer = auction.hammer
  BY <1>1 DEF CommitCall, DeskInv, DeskView, TypeOK, Worker, Request, RequestRecord
<1>3. auction'.current = p /\ auction'.hammer = "bidding"
  BY <1>1, <1>2 DEF Opened, Dirty
<1>4. ASSUME NEW q \in Player
      PROVE  /\ player'[q].status = "in_hammer" <=> q = p
             /\ player'[q].status = "sold" <=> player[q].status = "sold"
             /\ player'[q].soldTo = player[q].soldTo
             /\ player'[q].squadRow = player[q].squadRow
  BY <1>1, <1>2 DEF Called, Write, Gone, TypeOK, PlayerRow
<1>5. OneOnHammer' BY <1>3, <1>4 DEF OneOnHammer
<1>6. SquadMatchesSales' BY <1>4 DEF DeskInv, SquadMatchesSales, Sold, CommitCall, TypeOK
<1>7. RowIdsUnique' BY DEF DeskInv, RowIdsUnique, CommitCall
<1> QED BY <1>4, <1>5, <1>6, <1>7 DEF DeskInv, HammerAndSquad, Sold

LEMMA HammerSell ==
    ASSUME TypeOK, DeskInv, NEW w \in Auctioneer, Sell(w)
    PROVE  HammerAndSquad'
<1> DEFINE p == auction.current
           row == lastRow + 1
           new == [id |-> row, team |-> auction.team, player |-> p]
<1>1. p \in Player /\ player[p].status = "in_hammer" /\ row \in Nat /\ row > 0
      /\ row > lastRow /\ lastRow \in Nat
  BY DEF Sell, OnHammer, TypeOK, AuctionRow
<1>2. /\ player'[p].status = "sold" /\ player'[p].soldTo = auction.team
      /\ player'[p].squadRow = row
      /\ \A q \in Player : q # p => player'[q] = player[q]
  BY <1>1 DEF Sell, TypeOK, PlayerRow
<1>3. squad' = squad \union {new} /\ lastRow' = row BY DEF Sell
<1>4. auction'.hammer = "sold" /\ auction'.current = auction.current
  BY DEF Sell, TypeOK, AuctionRow
<1>5. OneOnHammer' BY <1>1, <1>2, <1>4 DEF DeskInv, OneOnHammer
<1>6. \A s \in squad : s.id # row /\ s.player # p /\ s.id > 0 /\ s.id <= lastRow /\ s.id \in Nat
  BY <1>1 DEF DeskInv, SquadMatchesSales, RowIdsUnique, Sold, TypeOK
<1>7. SquadMatchesSales'
  <2>1. ASSUME NEW q \in Player, Sold(q)'
        PROVE  [id |-> player'[q].squadRow, team |-> player'[q].soldTo, player |-> q] \in squad'
    BY <2>1, <1>2, <1>3 DEF DeskInv, SquadMatchesSales, Sold
  <2>2. ASSUME NEW s \in squad' PROVE Sold(s.player)' /\ player'[s.player].squadRow = s.id
    BY <1>2, <1>3, <1>6 DEF DeskInv, SquadMatchesSales, Sold, TypeOK
  <2> QED BY <2>1, <2>2 DEF SquadMatchesSales
<1>8. RowIdsUnique'
  <2>1. \A s \in squad' : s.id > 0 /\ s.id <= lastRow' BY <1>1, <1>3, <1>6
  <2>2. \A s, t \in squad' : s.id = t.id => s = t
    BY <1>3, <1>6 DEF DeskInv, RowIdsUnique
  <2> QED BY <2>1, <2>2 DEF RowIdsUnique
<1> QED BY <1>2, <1>5, <1>7, <1>8 DEF DeskInv, HammerAndSquad, Sold

LEMMA HammerUnsold ==
    ASSUME TypeOK, DeskInv, NEW w \in Auctioneer, Unsold(w)
    PROVE  HammerAndSquad'
<1> DEFINE p == auction.current
<1>1. p \in Player /\ player[p].status = "in_hammer"
  BY DEF Unsold, OnHammer, TypeOK, AuctionRow
<1>2. /\ player'[p].status = "unsold" /\ player'[p].squadRow = player[p].squadRow
      /\ \A q \in Player : q # p => player'[q] = player[q]
  BY <1>1 DEF Unsold, TypeOK, PlayerRow
<1>3. auction'.hammer = "unsold" /\ auction'.current = p
  BY DEF Unsold, TypeOK, AuctionRow
<1>4. OneOnHammer' BY <1>1, <1>2, <1>3 DEF DeskInv, OneOnHammer
<1>5. SquadMatchesSales'
  BY <1>1, <1>2 DEF DeskInv, SquadMatchesSales, Sold, Unsold, TypeOK
<1>6. RowIdsUnique' BY DEF DeskInv, RowIdsUnique, Unsold
<1> QED BY <1>1, <1>2, <1>4, <1>5, <1>6 DEF DeskInv, HammerAndSquad, Sold

LEMMA HammerReopen ==
    ASSUME TypeOK, DeskInv, NEW w \in Auctioneer, CommitReopen(w)
    PROVE  HammerAndSquad'
<1> DEFINE r == request[w]
<1>1. PICK p \in r.lots :
        /\ squad' = SquadWithout(r.rows[p].squadRow)
        /\ player' = [player EXCEPT ![p] = Write(player[p], Undone(player[p], r.rows[p]))]
  BY DEF CommitReopen
<1>2. /\ p \in Player /\ r.rows[p] = player[p] /\ player[p].status \notin Gone
      /\ p = auction.current /\ auction.hammer \in {"sold", "unsold"}
      /\ player[p].status \in {"sold", "unsold"}
      /\ r.seen.current = auction.current /\ r.seen.hammer = auction.hammer
  BY <1>1, Fresh DEF CommitReopen, DeskInv, DeskView
<1>3. /\ player'[p].status = "in_hammer" /\ player'[p].squadRow = 0
      /\ \A q \in Player : q # p => player'[q] = player[q]
  BY <1>1, <1>2 DEF Write, Undone, Dirty, TypeOK, PlayerRow
<1>4. auction'.hammer = "bidding" /\ auction'.current = auction.current
  BY <1>2 DEF CommitReopen, Dirty, TypeOK, AuctionRow
<1>5. OneOnHammer' BY <1>2, <1>3, <1>4 DEF DeskInv, OneOnHammer
<1>6. squad' = {s \in squad : s.id # player[p].squadRow}
  BY <1>1, <1>2 DEF SquadWithout
<1>7. SquadMatchesSales'
  <2>1. ASSUME NEW q \in Player, Sold(q)'
        PROVE  [id |-> player'[q].squadRow, team |-> player'[q].soldTo, player |-> q] \in squad'
    <3>1. q # p /\ player'[q] = player[q] /\ Sold(q) BY <2>1, <1>3 DEF Sold
    <3> DEFINE s == [id |-> player[q].squadRow, team |-> player[q].soldTo, player |-> q]
    <3>2. s \in squad BY <3>1 DEF DeskInv, SquadMatchesSales
    <3>3. s.id # player[p].squadRow
      <4>1. CASE Sold(p)
        <5> DEFINE t == [id |-> player[p].squadRow, team |-> player[p].soldTo, player |-> p]
        <5>1. t \in squad BY <4>1, <1>2 DEF DeskInv, SquadMatchesSales
        <5>2. s # t BY <3>1
        <5> QED BY <3>2, <5>1, <5>2 DEF DeskInv, RowIdsUnique
      <4>2. CASE ~ Sold(p)
        BY <4>2, <3>2, <1>2 DEF DeskInv, RowIdsUnique
      <4> QED BY <4>1, <4>2
    <3> QED BY <1>6, <3>1, <3>2, <3>3
  <2>2. ASSUME NEW s \in squad' PROVE Sold(s.player)' /\ player'[s.player].squadRow = s.id
    BY <1>3, <1>6 DEF DeskInv, SquadMatchesSales, Sold, TypeOK
  <2> QED BY <2>1, <2>2 DEF SquadMatchesSales
<1>8. RowIdsUnique' BY <1>6 DEF DeskInv, RowIdsUnique, CommitReopen
<1> QED BY <1>3, <1>5, <1>7, <1>8 DEF DeskInv, HammerAndSquad, Sold

----------------------------------------------------------------------------
(* What the desk knows after its own step *)

LEMMA ReadingFresh ==
    ASSUME TypeOK, NEW d \in Auctioneer, NEW S \in SUBSET Player, NEW op,
           UNCHANGED player
    PROVE  /\ Reading(op, S).op = op /\ Reading(op, S).lots = S
           /\ \A p \in S : Reading(op, S).rows[p] = player'[p]
<1>1. \A p \in S : Rows(S)[p] = player[p] BY DEF Rows
<1> QED BY <1>1 DEF Reading, NoRequest

LEMMA ViewDesk ==
    ASSUME TypeOK, DeskInv, NEW d \in Auctioneer, DeskNext(d)
    PROVE  DeskView(d)'
<1>w. d \in Worker BY DEF Worker
<1>0. ASSUME Done(d) PROVE DeskView(d)'
  <2>1. request'[d] = NoRequest BY <1>0, <1>w DEF Done, Keep, TypeOK
  <2>2. request'[d].op = "none" BY <2>1, NoneWaiting
  <2> QED BY <2>2, ViewIdle
<1>k. \A r : Keep(d, r) => request'[d] = r BY <1>w DEF Keep, TypeOK
<1>1. CASE \/ CommitUpdatePlayer(d) \/ CommitRemove(d) \/ CommitCall(d) \/ CommitReopen(d)
           \/ CommitAccelerate(d) \/ CommitStatus(d) \/ CommitPayment(d) \/ Announce(d)
  BY <1>0, <1>1 DEF CommitUpdatePlayer, CommitRemove, CommitCall, CommitReopen,
     CommitAccelerate, CommitStatus, CommitPayment, Announce
<1>2. CASE Sell(d)
  <2> DEFINE r == [NoRequest EXCEPT !.op = "announce", !.lots = {auction.current},
                     !.amount = IF auction.amount # 0 THEN auction.amount
                                ELSE player[auction.current].base]
  <2>1. r.op = "announce" BY DEF NoRequest
  <2>2. Keep(d, r) BY <1>2 DEF Sell
  <2> HIDE DEF r
  <2> QED BY <2>1, <2>2, <1>k, ViewIdle
<1>3. CASE Unsold(d)
  <2>1. request'[d].op = "none" BY <1>3 DEF Unsold, Idle
  <2> QED BY <2>1, ViewIdle
<1>4. CASE ReadReopen(d)
  <2> DEFINE p == auction.current
             read == Reading("reopen", {p})
             r == [read EXCEPT !.seen = auction]
  <2>1. p \in Player /\ UNCHANGED stored /\ Keep(d, r)
    BY <1>4 DEF ReadReopen, TypeOK, AuctionRow
  <2>2. read \in RequestRecord BY <2>1, ReadingTyped
  <2>3. read.op = "reopen" /\ read.lots = {p} /\ read.rows[p] = player'[p]
    <3>1. {p} \in SUBSET Player /\ UNCHANGED player BY <2>1 DEF stored
    <3>2. \A q \in {p} : read.rows[q] = player'[q] BY <3>1, ReadingFresh
    <3> QED BY <3>1, <3>2, ReadingFresh
  <2>4. r.op = "reopen" /\ r.lots = {p} /\ r.rows[p] = player'[p] /\ r.seen = auction
    <3> HIDE DEF read, p
    <3> QED BY <2>2, <2>3 DEF RequestRecord
  <2>5. player[p].status \in {"sold", "unsold"} /\ ~ (Sold(p) /\ player[p].payment = "paid")
        /\ auction.hammer \in {"sold", "unsold"}
    BY <1>4 DEF ReadReopen, Reopenable
  <2>6. request'[d] = r BY <2>1, <1>k
  <2> HIDE DEF r
  <2> QED BY <2>1, <2>4, <2>5, <2>6 DEF DeskView, Sold, stored, Gone
<1>5. CASE ReadAccelerate(d)
  <2> DEFINE S == {p \in Player : player[p].status = "unsold"}
             r == Reading("accelerate", S)
  <2>1. UNCHANGED stored /\ Keep(d, r) BY <1>5 DEF ReadAccelerate
  <2>2. r.op = "accelerate" /\ r.lots = S /\ \A p \in S : r.rows[p] = player'[p]
    BY <2>1, ReadingFresh DEF stored
  <2>3. request'[d] = r BY <2>1, <1>k
  <2> HIDE DEF r
  <2> QED BY <2>1, <2>2, <2>3 DEF DeskView, Sold, stored, Gone
<1>6. ASSUME NEW p \in Player, ReadUpdatePlayer(d, p) PROVE DeskView(d)'
  <2>0. /\ Reading("update", {p}).op = "update" /\ Reading("update", {p}).lots = {p}
        /\ Reading("update", {p}).rows[p] = player'[p]
    <3>1. {p} \in SUBSET Player /\ UNCHANGED player BY <1>6 DEF ReadUpdatePlayer, stored
    <3> QED BY <3>1, ReadingFresh
  <2>1. PICK s \in PoolChoices \union {""}, b \in BasePrices \union {player[p].base} :
          /\ s # "" => player[p].status \notin {"sold", "in_hammer"} \union {s}
          /\ Keep(d, [Reading("update", {p}) EXCEPT !.word = s, !.amount = b])
    BY <1>6 DEF ReadUpdatePlayer
  <2> DEFINE read == Reading("update", {p})
             r == [read EXCEPT !.word = s, !.amount = b]
  <2>2. UNCHANGED stored /\ player[p].status \notin Gone BY <1>6 DEF ReadUpdatePlayer
  <2>3. read \in RequestRecord BY ReadingTyped
  <2>4. read.op = "update" /\ read.lots = {p} /\ read.rows[p] = player'[p]
    BY <2>0
  <2>5. r.op = "update" /\ r.lots = {p} /\ r.rows[p] = player'[p] /\ r.word = s
    <3> HIDE DEF read
    <3> QED BY <2>3, <2>4 DEF RequestRecord
  <2>6. request'[d] = r BY <2>1, <1>k
  <2> HIDE DEF r
  <2> QED BY <2>1, <2>2, <2>5, <2>6 DEF DeskView, Sold, stored
<1>7. ASSUME NEW p \in Player, ReadRemove(d, p) PROVE DeskView(d)'
  <2> DEFINE r == Reading("remove", {p})
  <2>1. /\ UNCHANGED stored /\ Keep(d, r)
        /\ player[p].status \notin Gone \union {"sold", "in_hammer"}
    BY <1>7 DEF ReadRemove
  <2>2. r.op = "remove" /\ r.lots = {p} /\ r.rows[p] = player'[p]
    BY <2>1, ReadingFresh DEF stored
  <2>3. request'[d] = r BY <2>1, <1>k
  <2> HIDE DEF r
  <2> QED BY <2>1, <2>2, <2>3 DEF DeskView, Sold, stored
<1>8. ASSUME NEW p \in Player, ReadCall(d, p) PROVE DeskView(d)'
  <2> DEFINE read == Reading("call", {p})
             r == [read EXCEPT !.seen = auction]
  <2>1. /\ UNCHANGED stored /\ Keep(d, r)
        /\ player[p].status \in {"registered", "approved", "unsold"}
    BY <1>8 DEF ReadCall
  <2>2. read \in RequestRecord BY ReadingTyped
  <2>3. read.op = "call" /\ read.lots = {p} /\ read.rows[p] = player'[p]
    BY <2>1, ReadingFresh DEF stored
  <2>4. r.op = "call" /\ r.lots = {p} /\ r.rows[p] = player'[p] /\ r.seen = auction
    <3> HIDE DEF read
    <3> QED BY <2>2, <2>3 DEF RequestRecord
  <2>5. request'[d] = r BY <2>1, <1>k
  <2> HIDE DEF r
  <2> QED BY <2>1, <2>4, <2>5 DEF DeskView, Sold, stored, Gone
<1>9. ASSUME NEW s \in StatusChoices, ReadStatus(d, s) PROVE DeskView(d)'
  <2> DEFINE r == [NoRequest EXCEPT !.op = "status", !.seen = auction, !.word = s]
  <2>1. r.op = "status" BY DEF NoRequest
  <2>2. Keep(d, r) BY <1>9 DEF ReadStatus
  <2> HIDE DEF r
  <2> QED BY <2>1, <2>2, <1>k, ViewIdle
<1>10. ASSUME NEW S \in SUBSET Player, NEW word \in {"pending", "paid"},
              ReadPayment(d, S, word)
       PROVE DeskView(d)'
  <2> DEFINE read == Reading("payment", S)
             r == [read EXCEPT !.word = word]
  <2>1. /\ UNCHANGED stored /\ Keep(d, r)
        /\ \A p \in S : player[p].status \notin Gone
    BY <1>10 DEF ReadPayment, Sold, Gone
  <2>2. read \in RequestRecord BY ReadingTyped
  <2>3. read.op = "payment" /\ read.lots = S /\ \A p \in S : read.rows[p] = player'[p]
    BY <2>1, ReadingFresh DEF stored
  <2>4. r.op = "payment" /\ r.lots = S /\ \A p \in S : r.rows[p] = player'[p]
    <3> HIDE DEF read
    <3> QED BY <2>2, <2>3 DEF RequestRecord
  <2>5. request'[d] = r BY <2>1, <1>k
  <2> HIDE DEF r
  <2> QED BY <2>1, <2>4, <2>5 DEF DeskView, Sold, stored
<1> QED BY <1>1, <1>2, <1>3, <1>4, <1>5, <1>6, <1>7, <1>8, <1>9, <1>10 DEF DeskNext

LEMMA HammerDesk ==
    ASSUME TypeOK, DeskInv, NEW w \in Auctioneer, DeskNext(w)
    PROVE  HammerAndSquad'
<1>h. HammerAndSquad BY DEF DeskInv, HammerAndSquad
<1>1. CASE UNCHANGED stored BY <1>1, <1>h, SameRows DEF stored
<1>2. CASE CommitStatus(w)
  <2>1. auction'.current = auction.current /\ auction'.hammer = auction.hammer
    BY <1>2 DEF CommitStatus, TypeOK, AuctionRow
  <2> QED BY <1>2, <2>1, <1>h, SameRows DEF CommitStatus
<1>3. CASE Announce(w) BY <1>3, <1>h, SameRows DEF Announce
<1> QED
  BY <1>1, <1>2, <1>3, HammerUpdate, HammerRemove, HammerAccelerate, HammerPayment,
     HammerCall, HammerSell, HammerUnsold, HammerReopen
  DEF DeskNext, ReadReopen, ReadAccelerate, ReadUpdatePlayer, ReadRemove, ReadCall,
      ReadStatus, ReadPayment

LEMMA DeskInvDesk ==
    ASSUME OneDesk, TypeOK, DeskInv, NEW w \in Auctioneer, DeskNext(w)
    PROVE  DeskInv'
<1>1. \A d \in Auctioneer : DeskView(d)' BY ViewDesk DEF OneDesk
<1>2. HammerAndSquad' BY HammerDesk
<1> QED BY <1>1, <1>2 DEF DeskInv, HammerAndSquad

LEMMA DeskInvStep ==
    ASSUME OneDesk, TypeOK, DeskInv, [Next]_vars
    PROVE  DeskInv'
<1>1. CASE UNCHANGED vars
  <2>1. HammerAndSquad' BY <1>1, SameRows DEF vars, DeskInv, HammerAndSquad
  <2>2. \A d \in Auctioneer : DeskView(d)' BY <1>1, ViewKept DEF vars, DeskInv
  <2> QED BY <2>1, <2>2 DEF DeskInv, HammerAndSquad
<1>2. CASE Next BY <1>2, DeskInvBid, DeskInvDesk, DeskInvRest DEF Next
<1> QED BY <1>1, <1>2

LEMMA DeskInvHolds == ASSUME OneDesk PROVE Spec => []DeskInv
<1>1. TypeOK /\ DeskInv /\ [Next]_vars => DeskInv' BY DeskInvStep
<1> QED BY <1>1, DeskInvInit, TypeCorrect, PTL DEF Spec

----------------------------------------------------------------------------

\* With one desk, exactly the lot that is open for bids is marked in_hammer,
\* whatever bids are in flight while the desk calls, sells or undoes.
THEOREM OneLotOnHammer == ASSUME OneDesk PROVE Spec => []OneOnHammer
<1>1. DeskInv => OneOnHammer BY DEF DeskInv
<1> QED BY <1>1, DeskInvHolds, PTL

\* With one desk, the squads hold exactly one row for every sale that stands,
\* in the team that bought the player: undoing a sale leaves no row behind
\* and takes no other team's row away.
THEOREM SquadsMatchSales == ASSUME OneDesk PROVE Spec => []SquadMatchesSales
<1>1. DeskInv => SquadMatchesSales BY DEF DeskInv
<1> QED BY <1>1, DeskInvHolds, PTL

\* With one desk, no step takes a paid sale back: undoing a hammer decides on
\* a payment that cannot change before the undo is written.
THEOREM PaidSalesStand == ASSUME OneDesk PROVE Spec => PaidSaleStands
<1>1. ASSUME TypeOK, DeskInv, [Next]_vars, NEW p \in Player,
             Sold(p), player[p].payment = "paid"
      PROVE  player'[p].status = "sold"
  <2>1. ASSUME NEW w \in Auctioneer, DeskNext(w) PROVE player'[p].status = "sold"
    <3>1. CASE CommitUpdatePlayer(w) \/ CommitRemove(w) \/ CommitAccelerate(w)
               \/ CommitPayment(w) \/ CommitCall(w) \/ Sell(w) \/ Unsold(w)
      <4>1. HammerAndSquad' /\ HammerAndSquad
        BY <1>1, <3>1, HammerUpdate, HammerRemove, HammerAccelerate, HammerPayment,
           HammerCall, HammerSell, HammerUnsold DEF DeskInv, HammerAndSquad
      <4>2. [id |-> player[p].squadRow, team |-> player[p].soldTo, player |-> p] \in squad
        BY <1>1 DEF DeskInv, SquadMatchesSales
      <4>3. squad \subseteq squad'
        BY <3>1 DEF CommitUpdatePlayer, CommitRemove, CommitAccelerate, CommitPayment,
           CommitCall, Sell, Unsold
      <4> QED BY <4>1, <4>2, <4>3 DEF HammerAndSquad, SquadMatchesSales, Sold
    <3>2. CASE CommitReopen(w)
      <4>0. request[w].op = "reopen" /\ DeskView(w) BY <1>1, <3>2 DEF CommitReopen, DeskInv
      <4>1. \A q \in request[w].lots : q \in Player /\ q # p
        BY <1>1, <4>0, Fresh DEF DeskView
      <4>2. PICK q \in request[w].lots :
              player' = [player EXCEPT ![q] = Write(player[q], Undone(player[q], request[w].rows[q]))]
        BY <3>2 DEF CommitReopen
      <4> QED BY <1>1, <4>1, <4>2 DEF TypeOK, Sold
    <3>3. CASE UNCHANGED stored \/ CommitStatus(w) \/ Announce(w)
      BY <1>1, <3>3 DEF stored, CommitStatus, Announce, Sold
    <3> QED
      BY <2>1, <3>1, <3>2, <3>3 DEF DeskNext, ReadReopen, ReadAccelerate, ReadUpdatePlayer,
         ReadRemove, ReadCall, ReadStatus, ReadPayment
  <2>2. ASSUME NEW w \in Bidder, BidNext(w) PROVE player'[p].status = "sold"
    BY <1>1, <2>2 DEF BidNext, CommitBid, ReadBid, stored, Sold
  <2>3. ASSUME NEW q \in Player, Register(q) PROVE player'[p].status = "sold"
    BY <1>1, <2>3 DEF Register, Sold, TypeOK
  <2>4. ASSUME \/ \E w \in Worker, row \in squad : Field(w, row)
               \/ \E m \in messages : Deliver(m)
               \/ UNCHANGED vars
        PROVE  player'[p].status = "sold"
    BY <1>1, <2>4 DEF Field, Deliver, vars, Sold
  <2> QED BY <1>1, <2>1, <2>2, <2>3, <2>4 DEF Next
<1>2. TypeOK /\ DeskInv /\ [Next]_vars =>
        [\A p \in Player : Sold(p) /\ player[p].payment = "paid" => player'[p].status = "sold"]_vars
  BY <1>1
<1> QED BY <1>2, DeskInvHolds, TypeCorrect, PTL DEF Spec, PaidSaleStands

----------------------------------------------------------------------------
(* Requests that follow one another *)

\* No lot starts at nothing.  A bid of zero counts as none when the player is
\* sold: sellPlayer then takes the base price of that moment.
NothingForFree == 0 \notin BasePrices

AtMostOne == \A v, w \in Worker : ~ Idle(v) /\ ~ Idle(w) => v = w

\* What a worker has read and decided still holds (see also DeskView).
Seen(w) ==
    LET r == request[w] IN
    /\ w \notin Auctioneer => r.op \in {"none", "bid"}
    /\ r.op \in {"call", "bid", "reopen", "status"} => r.seen = auction
    /\ r.op = "reopen" => \A p \in r.lots : player[p].squadRow \notin fielded

\* The bids for the lot called last, open or not.
TopBid ==
    IF auction.team = NoTeam
    THEN auction.current # NoPlayer => bids[auction.current] = {}
    ELSE /\ auction.current # NoPlayer
         /\ [team |-> auction.team, amount |-> auction.amount] \in bids[auction.current]
         /\ \A b \in bids[auction.current] : b.amount <= auction.amount

LotInv == AtMostOne /\ DeskInv /\ TopBid /\ FieldedRowsStay /\ \A w \in Worker : Seen(w)

TurnInv == inTurn => LotInv

Prices == [p \in Player |-> player[p].price]
Elsewhere(t) == Bought(t) \ {auction.current}
SpentElsewhere(t) == SumFunctionOnSet(Prices, Elsewhere(t))

\* Beside its other purchases the leading team can pay for the lot.
Covered ==
    auction.current # NoPlayer /\ auction.team # NoTeam =>
        /\ auction.amount # 0
        /\ SpentElsewhere(auction.team) + auction.amount <= Purse
        /\ Cardinality(Elsewhere(auction.team)) < MaxSquad

WithinPurse == \A t \in Team : IsFiniteSet(Bought(t)) /\ Spent(t) <= Purse

Priced == \A p \in Player : player[p].status \notin Gone => player[p].base # 0

\* What a worker has found out about money still holds.
Payable(w) ==
    LET r == request[w] IN
    /\ r.op = "update" => r.amount # 0
    /\ r.op = "bid" =>
          /\ auction.current \in Player /\ player[auction.current].status \notin Gone
          /\ r.amount >= MinimumBid(auction, player[auction.current].base)
          /\ Affords(r.team, r.amount)

PurseInv == Covered /\ WithinPurse /\ Priced /\ \A w \in Worker : Payable(w)

----------------------------------------------------------------------------
(* What one request at a time means *)

LEMMA OneAfter == ASSUME ~ CutsIn PROVE AtMostOne'
BY DEF CutsIn, AtMostOne

\* Writes end a request, reads begin one.
Commits(w) ==
    \/ CommitUpdatePlayer(w) \/ CommitRemove(w) \/ CommitCall(w) \/ CommitReopen(w)
    \/ CommitAccelerate(w) \/ CommitStatus(w) \/ CommitPayment(w) \/ Announce(w)
    \/ CommitBid(w)

Reads(w) ==
    \/ ReadReopen(w) \/ ReadAccelerate(w)
    \/ \E p \in Player : ReadUpdatePlayer(w, p) \/ ReadRemove(w, p) \/ ReadCall(w, p)
    \/ \E s \in StatusChoices : ReadStatus(w, s)
    \/ \E S \in SUBSET Player, word \in {"pending", "paid"} : ReadPayment(w, S, word)
    \/ \E t \in Team, x \in 0..MaxBid : ReadBid(w, t, x)

Acts(w) == (w \in Auctioneer /\ DeskNext(w)) \/ (w \in Bidder /\ BidNext(w))

Outside ==
    \/ \E p \in Player : Register(p)
    \/ \E w \in Worker, row \in squad : Field(w, row)
    \/ \E m \in messages : Deliver(m)

LEMMA Actors ==
    ASSUME Next
    PROVE  (\E w \in Worker : Acts(w)) \/ Outside
BY DEF Next, Outside, Acts, Worker

LEMMA WorkerSteps ==
    ASSUME NEW w \in Worker, Acts(w)
    PROVE  Commits(w) \/ Reads(w) \/ Sell(w) \/ Unsold(w)
BY DEF Acts, DeskNext, BidNext, Commits, Reads

LEMMA WriteEnds ==
    ASSUME TypeOK, NEW w \in Worker, Commits(w)
    PROVE  ~ Idle(w) /\ Idle(w)' /\ Done(w)
<1>1. Done(w) /\ ~ Idle(w)
  BY DEF Commits, CommitUpdatePlayer, CommitRemove, CommitCall, CommitReopen, CommitAccelerate,
     CommitStatus, CommitPayment, CommitBid, Announce, Idle
<1>2. request'[w] = NoRequest BY <1>1 DEF Done, Keep, TypeOK
<1> QED BY <1>1, <1>2, NoneWaiting DEF Idle

\* What a read hands on to the write.
HasRead(w) ==
    LET r == request'[w] IN
    /\ r.op # "none"
    /\ r.op \in {"call", "bid", "reopen", "status"} => r.seen = auction
    /\ r.op = "reopen" => r.lots = {auction.current} /\ Reopenable(auction.current)
    /\ r.op = "update" => \E p \in Player : /\ player[p].status \notin Gone
                                           /\ r.amount \in BasePrices \union {player[p].base}
    /\ r.op = "bid" =>
          /\ auction.current \in Player /\ player[auction.current].status \notin Gone
          /\ r.amount >= MinimumBid(auction, player[auction.current].base)
          /\ Affords(r.team, r.amount)

LEMMA ReadTells ==
    ASSUME TypeOK, NEW w \in Worker, Reads(w)
    PROVE  Idle(w) /\ UNCHANGED stored /\ HasRead(w)
<1>k. \A r : Keep(w, r) => request'[w] = r BY DEF Keep, TypeOK
<1>1. CASE ReadReopen(w)
  <2> DEFINE read == Reading("reopen", {auction.current})
             r == [read EXCEPT !.seen = auction]
  <2>1. auction.current \in Player /\ Keep(w, r) BY <1>1 DEF ReadReopen, TypeOK, AuctionRow
  <2>2. /\ read \in RequestRecord /\ read.op = "reopen"
        /\ read.lots = {auction.current}
    <3>1. read \in RequestRecord /\ read.op = "reopen" BY <2>1, ReadingTyped
    <3>2. read.lots = {auction.current} BY DEF Reading, NoRequest
    <3> QED BY <3>1, <3>2
  <2>3. r.op = "reopen" /\ r.seen = auction /\ r.lots = {auction.current}
    <3> HIDE DEF read
    <3> QED BY <2>2 DEF RequestRecord
  <2> HIDE DEF r
  <2> QED BY <1>k, <1>1, <2>1, <2>3 DEF ReadReopen, HasRead
<1>2. CASE ReadAccelerate(w)
  <2> DEFINE r == Reading("accelerate", {p \in Player : player[p].status = "unsold"})
  <2>1. r.op = "accelerate" BY ReadingTyped
  <2>2. Keep(w, r) BY <1>2 DEF ReadAccelerate
  <2> HIDE DEF r
  <2> QED BY <1>k, <1>2, <2>1, <2>2 DEF ReadAccelerate, HasRead
<1>3. ASSUME NEW p \in Player, ReadUpdatePlayer(w, p)
      PROVE  Idle(w) /\ UNCHANGED stored /\ HasRead(w)
  <2> DEFINE read == Reading("update", {p})
  <2>1. PICK s \in PoolChoices \union {""}, b \in BasePrices \union {player[p].base} :
          Keep(w, [read EXCEPT !.word = s, !.amount = b])
    BY <1>3 DEF ReadUpdatePlayer
  <2>2. read \in RequestRecord /\ read.op = "update" BY ReadingTyped
  <2> DEFINE r == [read EXCEPT !.word = s, !.amount = b]
  <2>3. r.op = "update" /\ r.amount = b
    <3> HIDE DEF read
    <3> QED BY <2>2 DEF RequestRecord
  <2>4. Keep(w, r) BY <2>1
  <2> HIDE DEF r
  <2> QED BY <1>k, <1>3, <2>3, <2>4 DEF ReadUpdatePlayer, HasRead
<1>4. ASSUME NEW p \in Player, ReadRemove(w, p)
      PROVE  Idle(w) /\ UNCHANGED stored /\ HasRead(w)
  <2> DEFINE r == Reading("remove", {p})
  <2>1. r.op = "remove" BY ReadingTyped
  <2>2. Keep(w, r) BY <1>4 DEF ReadRemove
  <2> HIDE DEF r
  <2> QED BY <1>k, <1>4, <2>1, <2>2 DEF ReadRemove, HasRead
<1>5. ASSUME NEW p \in Player, ReadCall(w, p)
      PROVE  Idle(w) /\ UNCHANGED stored /\ HasRead(w)
  <2> DEFINE read == Reading("call", {p})
             r == [read EXCEPT !.seen = auction]
  <2>1. Keep(w, r) BY <1>5 DEF ReadCall
  <2>2. read \in RequestRecord /\ read.op = "call" BY ReadingTyped
  <2>3. r.op = "call" /\ r.seen = auction
    <3> HIDE DEF read
    <3> QED BY <2>2 DEF RequestRecord
  <2> HIDE DEF r
  <2> QED BY <1>k, <1>5, <2>1, <2>3 DEF ReadCall, HasRead
<1>6. ASSUME NEW s \in StatusChoices, ReadStatus(w, s)
      PROVE  Idle(w) /\ UNCHANGED stored /\ HasRead(w)
  <2> DEFINE r == [NoRequest EXCEPT !.op = "status", !.seen = auction, !.word = s]
  <2>1. r.op = "status" /\ r.seen = auction BY DEF NoRequest
  <2>2. Keep(w, r) BY <1>6 DEF ReadStatus
  <2> HIDE DEF r
  <2> QED BY <1>k, <1>6, <2>1, <2>2 DEF ReadStatus, HasRead
<1>7. ASSUME NEW S \in SUBSET Player, NEW word \in {"pending", "paid"}, ReadPayment(w, S, word)
      PROVE  Idle(w) /\ UNCHANGED stored /\ HasRead(w)
  <2> DEFINE read == Reading("payment", S)
             r == [read EXCEPT !.word = word]
  <2>1. Keep(w, r) BY <1>7 DEF ReadPayment
  <2>2. read \in RequestRecord /\ read.op = "payment" BY ReadingTyped
  <2>3. r.op = "payment"
    <3> HIDE DEF read
    <3> QED BY <2>2 DEF RequestRecord
  <2> HIDE DEF r
  <2> QED BY <1>k, <1>7, <2>1, <2>3 DEF ReadPayment, HasRead
<1>8. ASSUME NEW t \in Team, NEW x \in 0..MaxBid, ReadBid(w, t, x)
      PROVE  Idle(w) /\ UNCHANGED stored /\ HasRead(w)
  <2> DEFINE r == [NoRequest EXCEPT !.op = "bid", !.seen = auction, !.team = t, !.amount = x]
  <2>1. r.op = "bid" /\ r.seen = auction /\ r.team = t /\ r.amount = x BY DEF NoRequest
  <2>2. Keep(w, r) BY <1>8 DEF ReadBid
  <2> HIDE DEF r
  <2>3. auction.current \in Player BY <1>8 DEF ReadBid, TypeOK, AuctionRow
  <2> QED BY <1>k, <1>8, <2>1, <2>2, <2>3 DEF ReadBid, HasRead
<1> QED BY <1>1, <1>2, <1>3, <1>4, <1>5, <1>6, <1>7, <1>8 DEF Reads

LEMMA ReadBegins ==
    ASSUME TypeOK, NEW w \in Worker, Reads(w)
    PROVE  Idle(w) /\ ~ Idle(w)' /\ UNCHANGED stored
BY ReadTells DEF HasRead, Idle

\* The sale is announced by the request that made it.
LEMMA SellBegins ==
    ASSUME TypeOK, NEW w \in Worker, Sell(w)
    PROVE  Idle(w) /\ ~ Idle(w)' /\ request'[w].op = "announce"
<1> DEFINE r == [NoRequest EXCEPT !.op = "announce", !.lots = {auction.current},
                   !.amount = IF auction.amount # 0 THEN auction.amount
                              ELSE player[auction.current].base]
<1>1. r.op = "announce" BY DEF NoRequest
<1>2. Keep(w, r) /\ Idle(w) BY DEF Sell
<1> HIDE DEF r
<1> QED BY <1>1, <1>2 DEF Keep, TypeOK, Idle

LEMMA OthersKept ==
    ASSUME TypeOK, NEW w \in Worker, Commits(w) \/ Reads(w) \/ Sell(w) \/ Unsold(w),
           NEW v \in Worker, v # w
    PROVE  request'[v] = request[v]
<1>1. (\E r : Keep(w, r)) \/ request' = request
  BY DEF Commits, Reads, Done, CommitUpdatePlayer, CommitRemove, CommitCall, CommitReopen,
     CommitAccelerate, CommitStatus, CommitPayment, CommitBid, Sell, Announce, Unsold,
     ReadReopen, ReadAccelerate, ReadUpdatePlayer, ReadRemove, ReadCall, ReadStatus,
     ReadPayment, ReadBid
<1> QED BY <1>1 DEF Keep, TypeOK

\* While a worker stays between its read and its write, in turn, only players
\* register and messages go out.
LEMMA OthersWait ==
    ASSUME TypeOK, AtMostOne, ~ CutsIn, Next, NEW w \in Worker, ~ Idle(w), ~ Idle(w)'
    PROVE  /\ UNCHANGED <<request, auction, bids, squad, fielded, lastRow>>
           /\ \A p \in Player : player[p].status # "absent" => player'[p] = player[p]
<1>1. ASSUME NEW v \in Worker, Acts(v) PROVE FALSE
  <2>0. Commits(v) \/ Reads(v) \/ Sell(v) \/ Unsold(v) BY <1>1, WorkerSteps
  <2>1. CASE Commits(v) BY <2>0, <2>1, WriteEnds DEF AtMostOne
  <2>2. CASE Reads(v) \/ Sell(v)
    <3>1. Idle(v) /\ ~ Idle(v)' BY <2>0, <2>2, ReadBegins, SellBegins
    <3> QED BY <2>0, <3>1 DEF CutsIn
  <2>3. CASE Unsold(v)
    <3>1. auction' # auction /\ request' = request
      BY <2>3 DEF Unsold, OnHammer, TypeOK, AuctionRow
    <3> QED BY <3>1 DEF CutsIn
  <2> QED BY <2>0, <2>1, <2>2, <2>3
<1>2. CASE Outside
  <2>1. ASSUME NEW p \in Player, Register(p)
        PROVE  /\ UNCHANGED <<request, auction, bids, squad, fielded, lastRow>>
               /\ \A q \in Player : player[q].status # "absent" => player'[q] = player[q]
    BY <2>1 DEF Register, TypeOK
  <2>2. ~ \E v \in Worker, row \in squad : Field(v, row)
    BY DEF Field, CutsIn
  <2> QED BY <1>2, <2>1, <2>2 DEF Outside, Deliver
<1> QED BY <1>1, <1>2, Actors

----------------------------------------------------------------------------
(* The desks *)

LEMMA DeskInvTurn ==
    ASSUME TypeOK, AtMostOne, DeskInv, ~ CutsIn, Next
    PROVE  DeskInv'
<1>1. ASSUME NEW w \in Auctioneer, DeskNext(w) PROVE DeskInv'
  <2>w. w \in Worker BY DEF Worker
  <2>0. Commits(w) \/ Reads(w) \/ Sell(w) \/ Unsold(w) BY <1>1, <2>w, WorkerSteps DEF Acts
  <2>1. HammerAndSquad' BY <1>1, HammerDesk
  <2>2. ASSUME NEW d \in Auctioneer PROVE DeskView(d)'
    <3>0. d \in Worker BY DEF Worker
    <3>1. CASE d = w BY <1>1, <3>1, ViewDesk
    <3>2. CASE d # w /\ Idle(d)
      <4>1. request'[d] = request[d] BY <2>w, <2>0, <3>0, <3>2, OthersKept
      <4> QED BY <4>1, <3>2, ViewIdle DEF Idle
    <3>3. CASE d # w /\ ~ Idle(d)
      <4>1. request'[d] = request[d] BY <2>w, <2>0, <3>0, <3>3, OthersKept
      <4>2. ~ Idle(d)' BY <3>3, <4>1 DEF Idle
      <4>3. /\ UNCHANGED auction
            /\ \A p \in Player : player[p].status # "absent" => player'[p] = player[p]
        BY <3>0, <3>3, <4>2, OthersWait
      <4> QED BY <4>1, <4>3, ViewKept DEF DeskInv, Gone
    <3> QED BY <3>1, <3>2, <3>3
  <2> QED BY <2>1, <2>2 DEF DeskInv, HammerAndSquad
<1>2. CASE Outside BY <1>2, DeskInvRest DEF Outside
<1> QED BY <1>1, <1>2, Actors, DeskInvBid DEF Acts

----------------------------------------------------------------------------
(* What has been read stays true *)

LEMMA BidderBids ==
    ASSUME TypeOK, NEW w \in Worker, Acts(w), w \notin Auctioneer
    PROVE  request'[w].op \in {"none", "bid"}
<1>1. CASE CommitBid(w)
  <2>1. request'[w] = NoRequest BY <1>1 DEF CommitBid, Done, Keep, TypeOK
  <2> QED BY <2>1, NoneWaiting
<1>2. ASSUME NEW t \in Team, NEW x \in 0..MaxBid, ReadBid(w, t, x)
      PROVE  request'[w].op \in {"none", "bid"}
  <2> DEFINE r == [NoRequest EXCEPT !.op = "bid", !.seen = auction, !.team = t, !.amount = x]
  <2>1. r.op = "bid" BY DEF NoRequest
  <2>2. Keep(w, r) BY <1>2 DEF ReadBid
  <2> HIDE DEF r
  <2> QED BY <2>1, <2>2 DEF Keep, TypeOK
<1> QED BY <1>1, <1>2 DEF Acts, BidNext

\* Only a read or a sale makes a worker busy.
LEMMA Begins ==
    ASSUME TypeOK, Next, NEW w \in Worker, Idle(w), ~ Idle(w)'
    PROVE  Acts(w) /\ (Reads(w) \/ Sell(w))
<1>1. Acts(w)
  <2>1. ASSUME NEW v \in Worker, Acts(v), v # w PROVE FALSE
    <3>1. request'[w] = request[w] BY <2>1, WorkerSteps, OthersKept
    <3> QED BY <3>1 DEF Idle
  <2>2. ~ Outside BY DEF Outside, Register, Field, Deliver, Idle
  <2> QED BY <2>1, <2>2, Actors
<1>2. ~ Commits(w) /\ ~ Unsold(w) BY WriteEnds DEF Unsold, Idle
<1> QED BY <1>1, <1>2, WorkerSteps

LEMMA SeenTurn ==
    ASSUME TypeOK, LotInv, ~ CutsIn, Next, NEW w \in Worker
    PROVE  Seen(w)'
<1>1. CASE ~ Idle(w) /\ ~ Idle(w)'
  <2>1. /\ UNCHANGED <<request, auction, fielded>>
        /\ \A p \in Player : player[p].status # "absent" => player'[p] = player[p]
    BY <1>1, OthersWait DEF LotInv
  <2>2. Seen(w) BY DEF LotInv
  <2>3. ASSUME request[w].op = "reopen", NEW p \in request[w].lots PROVE player'[p] = player[p]
    <3>1. w \in Auctioneer BY <2>2, <2>3 DEF Seen
    <3>2. p \in Player /\ player[p].status \notin Gone BY <3>1, <2>3, Fresh DEF LotInv
    <3> QED BY <2>1, <3>2 DEF Gone
  <2> QED BY <2>1, <2>2, <2>3 DEF Seen
<1>2. CASE Idle(w)' BY <1>2 DEF Seen, Idle
<1>3. CASE Idle(w) /\ ~ Idle(w)'
  <2>1. Acts(w) /\ (Reads(w) \/ Sell(w)) BY <1>3, Begins
  <2>2. w \notin Auctioneer => request'[w].op \in {"none", "bid"} BY <2>1, BidderBids
  <2>3. CASE Reads(w)
    <3>1. HasRead(w) /\ UNCHANGED stored BY <2>3, ReadTells
    <3> QED BY <2>2, <3>1 DEF HasRead, Seen, Reopenable, stored
  <2>4. CASE Sell(w) BY <2>2, <2>4, SellBegins DEF Seen
  <2> QED BY <2>1, <2>3, <2>4
<1> QED BY <1>1, <1>2, <1>3

----------------------------------------------------------------------------
(* The standing bid and the lineups *)

\* Rows that neither the hammer nor the bids depend on.
LEMMA TopBidKept ==
    ASSUME TopBid, UNCHANGED bids, auction'.current = auction.current,
           auction'.team = auction.team, auction'.amount = auction.amount
    PROVE  TopBid'
BY DEF TopBid

LEMMA TopBidCall ==
    ASSUME TypeOK, NEW w \in Worker, CommitCall(w), Seen(w)
    PROVE  auction'.team = NoTeam /\ TopBid'
<1>1. PICK p \in request[w].lots : auction' = Opened(request[w], p)
                                   /\ bids' = [bids EXCEPT ![p] = {}]
  BY DEF CommitCall
<1>2. p \in Player BY <1>1 DEF TypeOK, Request, RequestRecord
<1>3. request[w].seen = auction BY DEF CommitCall, Seen
<1>4. auction'.current = p /\ auction'.team = NoTeam BY <1>1, <1>3 DEF Opened, Dirty
<1>5. bids'[p] = {} BY <1>1, <1>2 DEF TypeOK
<1> QED BY <1>4, <1>5 DEF TopBid

\* What an accepted bid leaves on the auctions row.
LEMMA BidWritten ==
    ASSUME TypeOK, NEW w \in Worker, CommitBid(w), Seen(w), BidStands(request[w])
    PROVE  /\ auction'.team = request[w].team /\ auction'.amount = request[w].amount
           /\ auction'.current = auction.current /\ auction.current \in Player
           /\ bids' = [bids EXCEPT ![auction.current] =
                          @ \union {[team |-> request[w].team, amount |-> request[w].amount]}]
           /\ request[w].team \in Team /\ request[w].amount \in Nat
<1> DEFINE r == request[w]
<1>1. /\ r.seen = auction /\ r.op = "bid" /\ r.seen.current \in Player /\ r.team \in Team
      /\ r.amount \in Nat
  BY DEF CommitBid, Seen, TypeOK, Request, RequestRecord
<1>2. /\ bids' = [bids EXCEPT ![r.seen.current] = @ \union {[team |-> r.team, amount |-> r.amount]}]
      /\ auction' = [auction EXCEPT !.amount = Dirty(@, r.seen.amount, r.amount),
                                    !.team = Dirty(@, r.seen.team, r.team),
                                    !.hammer = Dirty(@, r.seen.hammer, "bidding")]
  BY DEF CommitBid
<1>3. auction'.team = r.team /\ auction'.amount = r.amount /\ auction'.current = auction.current
  <2>1. auction'.team = Dirty(auction.team, r.seen.team, r.team) BY <1>2 DEF TypeOK, AuctionRow
  <2>2. auction'.amount = Dirty(auction.amount, r.seen.amount, r.amount)
    BY <1>2 DEF TypeOK, AuctionRow
  <2>3. auction'.current = auction.current BY <1>2 DEF TypeOK, AuctionRow
  <2> QED BY <2>1, <2>2, <2>3, <1>1 DEF Dirty
<1> QED BY <1>1, <1>2, <1>3

LEMMA TopBidBid ==
    ASSUME TypeOK, TopBid, NEW w \in Worker, CommitBid(w), Seen(w)
    PROVE  TopBid'
<1>1. CASE ~ BidStands(request[w]) BY <1>1 DEF CommitBid, TopBid
<1>2. CASE BidStands(request[w])
  <2> DEFINE r == request[w]
             p == auction.current
             new == [team |-> r.team, amount |-> r.amount]
  <2>1. /\ auction'.team = r.team /\ auction'.amount = r.amount
        /\ auction'.current = p /\ p \in Player /\ r.team \in Team /\ r.amount \in Nat
        /\ bids' = [bids EXCEPT ![p] = @ \union {new}]
    BY <1>2, BidWritten
  <2>2. bids'[p] = bids[p] \union {new} BY <2>1 DEF TypeOK
  <2>3. ASSUME NEW b \in bids[p] PROVE b.amount <= r.amount
    <3>1. p # NoPlayer BY <2>1, AuctionAssumption
    <3>2. auction.team # NoTeam /\ b.amount <= auction.amount BY <3>1 DEF TopBid
    <3>3. r.amount >= auction.amount + Increment BY <1>2, <3>2 DEF BidStands
    <3>4. b.amount \in Nat /\ auction.amount \in Nat /\ Increment \in Nat
      BY <2>1, AuctionAssumption DEF TypeOK, AuctionRow
    <3> HIDE DEF r
    <3> QED BY <2>1, <3>2, <3>3, <3>4
  <2>4. auction'.team # NoTeam /\ p # NoPlayer BY <2>1, AuctionAssumption
  <2>5. new \in bids'[p] /\ \A b \in bids'[p] : b.amount <= r.amount BY <2>1, <2>2, <2>3
  <2> QED BY <2>1, <2>4, <2>5 DEF TopBid
<1> QED BY <1>1, <1>2

LEMMA TopBidTurn ==
    ASSUME TypeOK, LotInv, ~ CutsIn, Next
    PROVE  TopBid'
<1>0. TopBid BY DEF LotInv
<1>1. ASSUME NEW w \in Worker, Acts(w) PROVE TopBid'
  <2>1. CASE CommitCall(w) BY <2>1, TopBidCall DEF LotInv
  <2>2. CASE CommitBid(w) BY <2>2, TopBidBid DEF LotInv
  <2>3. CASE CommitReopen(w) \/ CommitStatus(w) \/ Sell(w) \/ Unsold(w)
    <3>1. auction'.current = auction.current /\ auction'.team = auction.team
          /\ auction'.amount = auction.amount /\ UNCHANGED bids
      BY <2>3 DEF CommitReopen, CommitStatus, Sell, Unsold, TypeOK, AuctionRow
    <3> QED BY <1>0, <3>1, TopBidKept
  <2>4. CASE Reads(w)
    <3>1. UNCHANGED stored BY <2>4, ReadBegins
    <3> QED BY <1>0, <3>1, TopBidKept DEF stored
  <2>5. CASE CommitUpdatePlayer(w) \/ CommitRemove(w) \/ CommitAccelerate(w)
             \/ CommitPayment(w) \/ Announce(w)
    <3>1. UNCHANGED <<auction, bids>>
      BY <2>5 DEF CommitUpdatePlayer, CommitRemove, CommitAccelerate, CommitPayment, Announce
    <3> QED BY <1>0, <3>1, TopBidKept
  <2> QED BY <1>1, <2>1, <2>2, <2>3, <2>4, <2>5, WorkerSteps DEF Commits
<1>2. CASE Outside
  <2>1. UNCHANGED <<auction, bids>> BY <1>2 DEF Outside, Register, Field, Deliver
  <2> QED BY <1>0, <2>1, TopBidKept
<1> QED BY <1>1, <1>2, Actors

LEMMA FieldedTurn ==
    ASSUME TypeOK, LotInv, ~ CutsIn, Next
    PROVE  FieldedRowsStay'
<1>0. FieldedRowsStay BY DEF LotInv
<1>1. ASSUME NEW w \in Worker, Acts(w) PROVE FieldedRowsStay'
  <2>1. CASE CommitReopen(w)
    <3>1. PICK p \in request[w].lots : squad' = SquadWithout(request[w].rows[p].squadRow)
      BY <2>1 DEF CommitReopen
    <3>2. w \in Auctioneer /\ Seen(w) /\ request[w].op = "reopen"
      BY <2>1 DEF LotInv, Seen, CommitReopen
    <3>3. request[w].rows[p] = player[p] BY <3>2, Fresh DEF LotInv
    <3>4. player[p].squadRow \notin fielded BY <3>2 DEF Seen
    <3> QED BY <1>0, <2>1, <3>1, <3>3, <3>4 DEF FieldedRowsStay, SquadWithout, CommitReopen
  <2>2. CASE Sell(w) BY <1>0, <2>2 DEF FieldedRowsStay, Sell
  <2>3. CASE ~ CommitReopen(w) /\ ~ Sell(w)
    <3>1. UNCHANGED <<squad, fielded>>
      BY <1>1, <2>3, WorkerSteps, ReadBegins DEF stored, Commits, CommitUpdatePlayer, CommitRemove,
         CommitCall, CommitAccelerate, CommitStatus, CommitPayment, CommitBid, Announce, Unsold
    <3> QED BY <1>0, <3>1 DEF FieldedRowsStay
  <2> QED BY <2>1, <2>2, <2>3
<1>2. CASE Outside
  BY <1>0, <1>2 DEF Outside, Register, Field, Deliver, FieldedRowsStay
<1> QED BY <1>1, <1>2, Actors

LEMMA LotInvInit == Init => LotInv
<1> SUFFICES ASSUME Init PROVE LotInv OBVIOUS
<1>1. \A w \in Worker : request[w].op = "none" BY NoneWaiting DEF Init
<1>2. AtMostOne /\ \A w \in Worker : Seen(w) BY <1>1 DEF AtMostOne, Idle, Seen
<1>3. TopBid /\ FieldedRowsStay BY DEF Init, NewAuction, TopBid, FieldedRowsStay
<1> QED BY <1>2, <1>3, DeskInvInit DEF LotInv

LEMMA LotInvStep ==
    ASSUME TypeOK, TurnInv, [TurnNext]_turnVars
    PROVE  TurnInv'
<1>1. CASE UNCHANGED turnVars
  <2>1. CASE inTurn
    <3>1. AtMostOne' BY <1>1, <2>1 DEF TurnInv, LotInv, AtMostOne, turnVars, vars, Idle
    <3>2. HammerAndSquad'
      BY <1>1, <2>1, SameRows DEF turnVars, vars, TurnInv, LotInv, DeskInv, HammerAndSquad
    <3>3. \A d \in Auctioneer : DeskView(d)'
      BY <1>1, <2>1, ViewKept DEF turnVars, vars, TurnInv, LotInv, DeskInv
    <3>4. TopBid' /\ FieldedRowsStay'
      BY <1>1, <2>1, TopBidKept DEF turnVars, vars, TurnInv, LotInv, FieldedRowsStay
    <3>5. \A w \in Worker : Seen(w)' BY <1>1, <2>1 DEF turnVars, vars, TurnInv, LotInv, Seen
    <3> QED BY <3>1, <3>2, <3>3, <3>4, <3>5 DEF TurnInv, LotInv, DeskInv, HammerAndSquad
  <2>2. CASE ~ inTurn BY <1>1, <2>2 DEF turnVars, TurnInv
  <2> QED BY <2>1, <2>2
<1>2. CASE TurnNext /\ inTurn'
  <2>1. LotInv /\ ~ CutsIn /\ Next BY <1>2 DEF TurnNext, TurnInv
  <2>2. AtMostOne' /\ DeskInv' BY <2>1, OneAfter, DeskInvTurn DEF LotInv
  <2>3. TopBid' /\ FieldedRowsStay' /\ \A w \in Worker : Seen(w)'
    BY <2>1, TopBidTurn, FieldedTurn, SeenTurn
  <2> QED BY <2>2, <2>3 DEF TurnInv, LotInv
<1>3. CASE ~ inTurn' BY <1>3 DEF TurnInv
<1> QED BY <1>1, <1>2, <1>3

LEMMA TurnInvHolds == TurnSpec => [](TypeOK /\ TurnInv)
<1>1. TurnInit => TypeOK /\ TurnInv BY TypeOKInit, LotInvInit DEF TurnInit, TurnInv
<1>2. TypeOK /\ TurnInv /\ [TurnNext]_turnVars => (TypeOK /\ TurnInv)'
  <2>1. [TurnNext]_turnVars => [Next]_vars BY DEF TurnNext, turnVars
  <2> QED BY <2>1, TypeOKStep, LotInvStep
<1> QED BY <1>1, <1>2, PTL DEF TurnSpec

\* As long as requests follow one another, the standing bid on the auctions
\* row is the highest bid made for the lot that is open, with any number of
\* desks and bidders (callPlayer, placeBid, reopenHammer).
THEOREM StandingBidTop == TurnSpec => []StandingBidInTurn
<1>1. TypeOK /\ TurnInv => StandingBidInTurn
  BY DEF TurnInv, LotInv, TopBid, StandingBidIsTop, StandingBidInTurn
<1> QED BY <1>1, TurnInvHolds, PTL

\* As long as requests follow one another, no squad row that a lineup names
\* is deleted under it (reopenHammer, LineupService.save).
THEOREM FieldedStay == TurnSpec => []FieldedInTurn
<1>1. TypeOK /\ TurnInv => FieldedInTurn BY DEF TurnInv, LotInv, FieldedInTurn
<1> QED BY <1>1, TurnInvHolds, PTL

----------------------------------------------------------------------------
(* Purses *)

LEMMA PricesTyped ==
    ASSUME TypeOK
    PROVE  \A p \in Player : Prices[p] \in Nat /\ Prices[p] = player[p].price
BY DEF Prices, TypeOK, PlayerRow

LEMMA SpentTyped ==
    ASSUME TypeOK, NEW S \in SUBSET Player, IsFiniteSet(S)
    PROVE  SumFunctionOnSet(Prices, S) \in Nat
<1> DEFINE f == Prices
<1>1. \A p \in S : f[p] \in Nat BY PricesTyped
<1> HIDE DEF f
<1>2. SumFunctionOnSet(f, S) \in Nat BY <1>1, SumTyped
<1> QED BY <1>2 DEF f

\* A sum of prices that did not change.
LEMMA SumKept ==
    ASSUME NEW S \in SUBSET Player, IsFiniteSet(S),
           \A p \in S : player'[p].price = player[p].price
    PROVE  SumFunctionOnSet(Prices', S) = SumFunctionOnSet(Prices, S)
<1> DEFINE f == Prices' g == Prices
<1>1. \A p \in S : f[p] = g[p] BY DEF Prices
<1> HIDE DEF f, g
<1>2. SumFunctionOnSet(f, S) = SumFunctionOnSet(g, S) BY <1>1, SumSame
<1> QED BY <1>2 DEF f, g

\* No sale is made, changed or undone.
SalesSame ==
    \A p \in Player : /\ player'[p].status = "sold" <=> Sold(p)
                      /\ Sold(p) => /\ player'[p].soldTo = player[p].soldTo
                                    /\ player'[p].price = player[p].price

LEMMA SpentKept ==
    ASSUME SalesSame, WithinPurse, NEW t \in Team
    PROVE  /\ Bought(t)' = Bought(t) /\ Spent(t)' = Spent(t)
           /\ auction'.current = auction.current => /\ Elsewhere(t)' = Elsewhere(t)
                                                    /\ SpentElsewhere(t)' = SpentElsewhere(t)
<1>1. Bought(t)' = Bought(t) BY DEF SalesSame, Bought, Sold
<1>2. /\ IsFiniteSet(Bought(t)) /\ Bought(t) \in SUBSET Player
      /\ \A p \in Bought(t) : player'[p].price = player[p].price
  BY DEF WithinPurse, Bought, SalesSame
<1>3. Spent(t)' = SumFunctionOnSet(Prices', Bought(t)) BY <1>1 DEF Spent, Prices
<1>4. Spent(t) = SumFunctionOnSet(Prices, Bought(t)) BY DEF Spent, Prices
<1>5. Spent(t)' = Spent(t) BY <1>2, <1>3, <1>4, SumKept
<1>6. ASSUME auction'.current = auction.current
      PROVE  Elsewhere(t)' = Elsewhere(t) /\ SpentElsewhere(t)' = SpentElsewhere(t)
  <2>1. Elsewhere(t)' = Elsewhere(t) BY <1>1, <1>6 DEF Elsewhere
  <2>2. IsFiniteSet(Elsewhere(t)) /\ Elsewhere(t) \subseteq Bought(t)
    BY <1>2, FS_Subset DEF Elsewhere
  <2>3. SpentElsewhere(t)' = SumFunctionOnSet(Prices', Elsewhere(t)) BY <2>1 DEF SpentElsewhere
  <2>4. SumFunctionOnSet(Prices', Elsewhere(t)) = SumFunctionOnSet(Prices, Elsewhere(t))
    BY <1>2, <2>2, SumKept
  <2> QED BY <2>1, <2>3, <2>4 DEF SpentElsewhere
<1> QED BY <1>1, <1>5, <1>6

LEMMA PurseSame ==
    ASSUME SalesSame, WithinPurse
    PROVE  WithinPurse'
BY SpentKept DEF WithinPurse

LEMMA CoveredBy ==
    ASSUME NEW t, auction'.team = t, auction'.amount # 0,
           SpentElsewhere(t)' + auction'.amount <= Purse,
           Cardinality(Elsewhere(t)') < MaxSquad
    PROVE  Covered'
BY DEF Covered, SpentElsewhere, Elsewhere, Bought

LEMMA CoversTeam ==
    ASSUME Covered, NEW t, auction.team = t, t # NoTeam, auction.current # NoPlayer
    PROVE  /\ auction.amount # 0
           /\ SpentElsewhere(t) + auction.amount <= Purse
           /\ Cardinality(Elsewhere(t)) < MaxSquad
BY DEF Covered

LEMMA CoveredSame ==
    ASSUME SalesSame, WithinPurse, Covered, TypeOK, auction'.current = auction.current,
           auction'.team = auction.team, auction'.amount = auction.amount
    PROVE  Covered'
<1>1. CASE auction.current = NoPlayer \/ auction.team = NoTeam BY <1>1 DEF Covered
<1>2. ASSUME auction.current # NoPlayer, NEW t \in Team, t = auction.team, t # NoTeam
      PROVE  Covered'
  <2>1. Elsewhere(t)' = Elsewhere(t) /\ SpentElsewhere(t)' = SpentElsewhere(t)
    BY SpentKept
  <2>2. /\ auction.amount # 0 /\ SpentElsewhere(t) + auction.amount <= Purse
        /\ Cardinality(Elsewhere(t)) < MaxSquad
    BY <1>2, CoversTeam
  <2> QED BY <1>2, <2>1, <2>2, CoveredBy
<1> QED BY <1>1, <1>2 DEF TypeOK, AuctionRow

----------------------------------------------------------------------------
(* Which steps touch a sale *)

\* The squads tell whether and to whom a player is sold.
LEMMA SquadsTell ==
    ASSUME TypeOK, SquadMatchesSales, SquadMatchesSales', RowIdsUnique, UNCHANGED squad,
           NEW p \in Player
    PROVE  /\ player'[p].status = "sold" <=> Sold(p)
           /\ Sold(p) => player'[p].soldTo = player[p].soldTo
<1>1. Sold(p) => player'[p].status = "sold"
  BY DEF SquadMatchesSales, Sold
<1>2. player'[p].status = "sold" => Sold(p)
  BY DEF SquadMatchesSales, Sold
<1>3. ASSUME Sold(p) PROVE player'[p].soldTo = player[p].soldTo
  <2> DEFINE s == [id |-> player[p].squadRow, team |-> player[p].soldTo, player |-> p]
             t == [id |-> player'[p].squadRow, team |-> player'[p].soldTo, player |-> p]
  <2>1. s \in squad BY <1>3 DEF SquadMatchesSales
  <2>2. t \in squad BY <1>1, <1>3 DEF SquadMatchesSales, Sold
  <2>3. player'[p].squadRow = player[p].squadRow
    <3>1. s \in squad' BY <2>1
    <3>2. player'[s.player].squadRow = s.id BY <3>1 DEF SquadMatchesSales
    <3> QED BY <3>2
  <2>4. s.id = t.id BY <2>3
  <2>5. s = t
    <3> HIDE DEF s, t
    <3> QED BY <2>1, <2>2, <2>4 DEF RowIdsUnique
  <2>6. s.team = t.team BY <2>5
  <2> QED BY <2>6
<1> QED BY <1>1, <1>2, <1>3

LEMMA SalesSameDesk ==
    ASSUME TypeOK, DeskInv, NEW w \in Auctioneer, DeskNext(w), ~ Sell(w), ~ CommitReopen(w)
    PROVE  SalesSame
<1>w. w \in Worker BY DEF Worker
<1>1. SquadMatchesSales /\ RowIdsUnique /\ SquadMatchesSales'
  BY HammerDesk DEF DeskInv, HammerAndSquad
<1>2. UNCHANGED squad
  BY DEF DeskNext, CommitUpdatePlayer, CommitRemove, CommitCall, CommitAccelerate, CommitStatus,
     CommitPayment, Announce, Unsold, ReadReopen, ReadAccelerate, ReadUpdatePlayer, ReadRemove,
     ReadCall, ReadStatus, ReadPayment, stored
<1>3. ASSUME NEW p \in Player, Sold(p) PROVE player'[p].price = player[p].price
  <2>1. CASE CommitUpdatePlayer(w) BY <2>1 DEF CommitUpdatePlayer, Write, TypeOK, PlayerRow
  <2>2. CASE CommitRemove(w)
    <3>1. p \notin request[w].lots BY <1>3, <2>2 DEF CommitRemove, DeskInv, DeskView, Sold
    <3> QED BY <2>2, <3>1 DEF CommitRemove
  <2>3. CASE CommitCall(w)
    <3>1. PICK q \in request[w].lots : player' = Called(q) BY <2>3 DEF CommitCall
    <3> QED BY <3>1 DEF Called, Write, TypeOK, PlayerRow
  <2>4. CASE CommitAccelerate(w)
    <3>1. p \notin request[w].lots BY <1>3, <2>4 DEF CommitAccelerate, DeskInv, DeskView, Sold
    <3> QED BY <2>4, <3>1 DEF CommitAccelerate
  <2>5. CASE CommitPayment(w) BY <2>5 DEF CommitPayment, Write, TypeOK, PlayerRow
  <2>6. CASE Unsold(w) BY <2>6 DEF Unsold, TypeOK, PlayerRow
  <2>7. CASE CommitStatus(w) \/ Announce(w) \/ UNCHANGED stored
    BY <2>7 DEF CommitStatus, Announce, stored
  <2> QED BY <2>1, <2>2, <2>3, <2>4, <2>5, <2>6, <2>7 DEF DeskNext, ReadReopen, ReadAccelerate,
        ReadUpdatePlayer, ReadRemove, ReadCall, ReadStatus, ReadPayment
<1> QED BY <1>1, <1>2, <1>3, SquadsTell DEF SalesSame

LEMMA SalesSameRest ==
    ASSUME TypeOK, (\E w \in Bidder : BidNext(w)) \/ Outside
    PROVE  SalesSame
<1>1. ASSUME NEW p \in Player, Register(p) PROVE SalesSame
  BY <1>1, NoRowTyped DEF Register, SalesSame, Sold, TypeOK, NoRow, PlayerRow
<1>2. CASE \E w \in Bidder : BidNext(w)
  BY <1>2 DEF BidNext, CommitBid, ReadBid, stored, SalesSame, Sold
<1> QED BY <1>1, <1>2 DEF Outside, Field, Deliver, SalesSame, Sold

\* What the sale writes on the player's row.
LEMMA SaleWritten ==
    ASSUME TypeOK, DeskInv, NothingForFree, Covered, NEW w \in Auctioneer, Sell(w),
           NEW p, p = auction.current, NEW t, t = auction.team
    PROVE  /\ p \in Player /\ t \in Team /\ ~ Sold(p)
           /\ player'[p].status = "sold" /\ player'[p].soldTo = t
           /\ player'[p].price = auction.amount
           /\ \A q \in Player : q # p => player'[q] = player[q]
           /\ auction'.current = p /\ auction'.team = t /\ auction'.amount = auction.amount
<1>1. p \in Player /\ t \in Team /\ player[p].status = "in_hammer"
  BY DEF Sell, OnHammer, TypeOK, AuctionRow
<1>2. auction.amount # 0 BY <1>1, AuctionAssumption DEF Covered
<1>3. player' = [player EXCEPT ![p] =
          [@ EXCEPT !.status = "sold", !.price = auction.amount, !.soldTo = auction.team,
                    !.payment = "pending", !.squadRow = lastRow + 1]]
  BY <1>2 DEF Sell
<1>4. /\ player'[p].status = "sold" /\ player'[p].soldTo = t
      /\ player'[p].price = auction.amount
      /\ \A q \in Player : q # p => player'[q] = player[q]
  BY <1>1, <1>3 DEF TypeOK, PlayerRow
<1>5. auction'.current = p /\ auction'.team = t /\ auction'.amount = auction.amount
  BY DEF Sell, TypeOK, AuctionRow
<1> QED BY <1>1, <1>4, <1>5 DEF Sold

LEMMA PurseSell ==
    ASSUME TypeOK, DeskInv, NothingForFree, Covered, WithinPurse, NEW w \in Auctioneer, Sell(w)
    PROVE  WithinPurse' /\ Covered'
<1>1. PICK p : p = auction.current OBVIOUS
<1>2. PICK t : t = auction.team OBVIOUS
<1>3. /\ p \in Player /\ t \in Team /\ ~ Sold(p)
      /\ player'[p].status = "sold" /\ player'[p].soldTo = t
      /\ player'[p].price = auction.amount
      /\ \A q \in Player : q # p => player'[q] = player[q]
      /\ auction'.current = p /\ auction'.team = t /\ auction'.amount = auction.amount
  BY <1>1, <1>2, SaleWritten
<1>4. /\ auction.amount # 0
      /\ SpentElsewhere(t) + auction.amount <= Purse
      /\ Cardinality(Elsewhere(t)) < MaxSquad
  BY <1>1, <1>2, <1>3, CoversTeam, AuctionAssumption
<1>5. p \notin Bought(t) /\ Elsewhere(t) = Bought(t) BY <1>1, <1>3 DEF Bought, Elsewhere
<1>6. Bought(t)' = Bought(t) \union {p} BY <1>3 DEF Bought, Sold
<1>7. \A u \in Team : u # t => Bought(u)' = Bought(u) BY <1>3 DEF Bought, Sold
<1>8. \A u \in Team : IsFiniteSet(Bought(u)) /\ Bought(u) \in SUBSET Player
  BY DEF WithinPurse, Bought
<1>9. \A u \in Team : SumFunctionOnSet(Prices', Bought(u)) = SumFunctionOnSet(Prices, Bought(u))
  <2>1. \A u \in Team : \A q \in Bought(u) : player'[q].price = player[q].price
    BY <1>3 DEF Bought
  <2> QED BY <1>8, <2>1, SumKept
<1>10. Spent(t)' = auction.amount + SpentElsewhere(t)
  <2> DEFINE f == Prices' S == Bought(t)
  <2>1. \A q \in S \union {p} : f[q] \in Nat
    BY <1>3 DEF Prices, Bought, TypeOK, PlayerRow, AuctionRow
  <2>2. f[p] = auction.amount BY <1>3 DEF Prices
  <2>3. p \notin S /\ IsFiniteSet(S) BY <1>3, <1>5, <1>8
  <2>4. Spent(t)' = SumFunctionOnSet(f, S \union {p}) BY <1>6 DEF Spent, Prices
  <2>5. SumFunctionOnSet(f, S) = SpentElsewhere(t) BY <1>3, <1>5, <1>9 DEF SpentElsewhere
  <2> HIDE DEF f, S
  <2>6. SumFunctionOnSet(f, S \union {p}) = f[p] + SumFunctionOnSet(f, S) BY <2>1, <2>3, SumAdd
  <2> QED BY <2>2, <2>4, <2>5, <2>6
<1>11. SpentElsewhere(t) \in Nat /\ auction.amount \in Nat /\ Purse \in Nat
  BY <1>3, <1>5, <1>8, SpentTyped, AuctionAssumption DEF SpentElsewhere, TypeOK, AuctionRow
<1>12. WithinPurse'
  <2>1. ASSUME NEW u \in Team PROVE IsFiniteSet(Bought(u)') /\ Spent(u)' <= Purse
    <3>1. CASE u = t
      <4>1. IsFiniteSet(Bought(t)') BY <1>3, <1>6, <1>8, FS_AddElement
      <4> QED BY <3>1, <4>1, <1>4, <1>10, <1>11
    <3>2. CASE u # t
      <4>1. Spent(u)' = Spent(u)
        BY <1>7, <1>9, <3>2 DEF Spent, Prices
      <4> QED BY <1>7, <1>8, <3>2, <4>1 DEF WithinPurse
    <3> QED BY <3>1, <3>2
  <2> QED BY <2>1 DEF WithinPurse
<1>13. Covered'
  <2>1. Elsewhere(t)' = Elsewhere(t) BY <1>3, <1>5, <1>6 DEF Elsewhere
  <2>2. SpentElsewhere(t)' = SpentElsewhere(t)
    BY <1>3, <1>5, <1>9, <2>1 DEF SpentElsewhere
  <2> QED BY <1>3, <1>4, <2>1, <2>2, CoveredBy
<1> QED BY <1>12, <1>13

\* What undoing the hammer writes on the player's row.
LEMMA UndoWritten ==
    ASSUME TypeOK, DeskInv, NEW w \in Auctioneer, CommitReopen(w), NEW p, p = auction.current
    PROVE  /\ p \in Player /\ player'[p].status = "in_hammer"
           /\ \A q \in Player : q # p => player'[q] = player[q]
           /\ auction'.current = p /\ auction'.team = auction.team
           /\ auction'.amount = auction.amount
<1> DEFINE r == request[w]
<1>1. PICK q \in r.lots : player' = [player EXCEPT ![q] = Write(player[q], Undone(player[q], r.rows[q]))]
  BY DEF CommitReopen
<1>2. /\ q \in Player /\ r.rows[q] = player[q] /\ player[q].status \notin Gone
      /\ q = p /\ player[q].status \in {"sold", "unsold"}
  BY <1>1, Fresh DEF CommitReopen, DeskInv, DeskView
<1>3. /\ player'[p].status = "in_hammer"
      /\ \A u \in Player : u # p => player'[u] = player[u]
  BY <1>1, <1>2 DEF Write, Undone, Dirty, TypeOK, PlayerRow
<1>4. auction'.current = p /\ auction'.team = auction.team /\ auction'.amount = auction.amount
  BY DEF CommitReopen, TypeOK, AuctionRow
<1> QED BY <1>2, <1>3, <1>4

LEMMA PurseReopen ==
    ASSUME TypeOK, DeskInv, Covered, WithinPurse, NEW w \in Auctioneer, CommitReopen(w)
    PROVE  WithinPurse' /\ Covered'
<1>1. PICK p : p = auction.current OBVIOUS
<1>2. /\ p \in Player /\ player'[p].status = "in_hammer"
      /\ \A q \in Player : q # p => player'[q] = player[q]
      /\ auction'.current = p /\ auction'.team = auction.team
      /\ auction'.amount = auction.amount
  BY <1>1, UndoWritten
<1>3. \A t \in Team : /\ IsFiniteSet(Bought(t)) /\ Bought(t) \in SUBSET Player
                      /\ Elsewhere(t) = Bought(t) \ {p}
  BY <1>1 DEF WithinPurse, Bought, Elsewhere
<1>4. \A t \in Team : /\ Bought(t)' = Elsewhere(t) /\ Elsewhere(t)' = Elsewhere(t)
                      /\ IsFiniteSet(Elsewhere(t)) /\ Elsewhere(t) \in SUBSET Player
  <2>1. \A t \in Team : Bought(t)' = Elsewhere(t) BY <1>1, <1>2 DEF Bought, Sold, Elsewhere
  <2>2. \A t \in Team : Elsewhere(t)' = Elsewhere(t) BY <1>1, <1>2, <2>1 DEF Elsewhere
  <2>3. \A t \in Team : IsFiniteSet(Elsewhere(t)) BY <1>3, FS_Subset
  <2> QED BY <1>3, <2>1, <2>2, <2>3
<1>5. \A t \in Team : SumFunctionOnSet(Prices', Elsewhere(t)) = SpentElsewhere(t)
  <2>1. \A t \in Team : \A q \in Elsewhere(t) : player'[q].price = player[q].price
    BY <1>2, <1>3
  <2> QED BY <1>4, <2>1, SumKept DEF SpentElsewhere
<1>6. \A t \in Team : Spent(t)' = SpentElsewhere(t) /\ SpentElsewhere(t)' = SpentElsewhere(t)
  BY <1>4, <1>5 DEF Spent, Prices, SpentElsewhere
<1>7. ASSUME NEW t \in Team PROVE SpentElsewhere(t) <= Spent(t)
  <2> DEFINE f == Prices S == Bought(t)
  <2>1. Spent(t) = SumFunctionOnSet(f, S) BY DEF Spent, Prices
  <2>2. SpentElsewhere(t) = SumFunctionOnSet(f, S \ {p}) BY <1>3 DEF SpentElsewhere
  <2>3. \A q \in S : f[q] \in Nat BY <1>3, PricesTyped
  <2>4. IsFiniteSet(S) BY <1>3
  <2>5. SumFunctionOnSet(f, S \ {p}) \in Nat BY <1>3, <1>4, SpentTyped
  <2> HIDE DEF f, S
  <2>6. CASE p \in S
    <3>1. SumFunctionOnSet(f, S) = f[p] + SumFunctionOnSet(f, S \ {p})
      BY <2>3, <2>4, <2>6, SumRemove
    <3>2. f[p] \in Nat BY <2>3, <2>6
    <3> QED BY <2>1, <2>2, <2>5, <3>1, <3>2
  <2>7. CASE p \notin S
    <3>1. S \ {p} = S BY <2>7
    <3> QED BY <2>1, <2>2, <2>5, <3>1
  <2> QED BY <2>6, <2>7
<1>8. WithinPurse'
  <2>1. ASSUME NEW t \in Team PROVE IsFiniteSet(Bought(t)') /\ Spent(t)' <= Purse
    <3>1. Spent(t) <= Purse BY DEF WithinPurse
    <3>2. Spent(t) \in Nat /\ SpentElsewhere(t) \in Nat /\ Purse \in Nat
      BY <1>3, <1>4, SpentTyped, AuctionAssumption DEF Spent, Prices, SpentElsewhere
    <3> QED BY <1>4, <1>6, <1>7, <3>1, <3>2
  <2> QED BY <2>1 DEF WithinPurse
<1>9. Covered'
  <2>1. CASE auction.team = NoTeam BY <1>2, <2>1 DEF Covered
  <2>2. ASSUME NEW t \in Team, t = auction.team, t # NoTeam PROVE Covered'
    <3>1. /\ auction.amount # 0 /\ SpentElsewhere(t) + auction.amount <= Purse
          /\ Cardinality(Elsewhere(t)) < MaxSquad
      BY <1>1, <1>2, <2>2, CoversTeam, AuctionAssumption
    <3> QED BY <1>2, <1>4, <1>6, <2>2, <3>1, CoveredBy
  <2> QED BY <2>1, <2>2 DEF TypeOK, AuctionRow
<1> QED BY <1>8, <1>9

LEMMA CoveredBid ==
    ASSUME TypeOK, LotInv, PurseInv, NEW w \in Bidder, CommitBid(w)
    PROVE  Covered'
<1> DEFINE r == request[w]
<1>w. w \in Worker BY DEF Worker
<1>1. Seen(w) /\ Payable(w) /\ r.op = "bid" BY <1>w DEF LotInv, PurseInv, CommitBid
<1>2. CASE ~ BidStands(r)
  <2>1. UNCHANGED <<auction, player>> BY <1>2 DEF CommitBid
  <2>2. SalesSame BY <2>1 DEF SalesSame, Sold
  <2> QED BY <2>1, <2>2, CoveredSame DEF PurseInv
<1>3. CASE BidStands(r)
  <2>1. PICK t : t = r.team OBVIOUS
  <2>2. /\ auction'.team = t /\ auction'.amount = r.amount
        /\ auction'.current = auction.current /\ auction.current \in Player
        /\ t \in Team /\ r.amount \in Nat
    BY <1>1, <1>3, <1>w, <2>1, BidWritten
  <2>3. player[auction.current].status = "in_hammer"
    BY <1>3, <2>2 DEF LotInv, DeskInv, OneOnHammer, BidStands
  <2>4. r.amount # 0
    <3>1. CASE auction.team = NoTeam
      <4>1. player[auction.current].base # 0 BY <2>2, <2>3 DEF PurseInv, Priced, Gone
      <4>2. r.amount >= player[auction.current].base BY <1>1, <3>1 DEF Payable, MinimumBid
      <4>3. player[auction.current].base \in Nat BY <2>2 DEF TypeOK, PlayerRow
      <4> QED BY <2>2, <4>1, <4>2, <4>3
    <3>2. CASE auction.team # NoTeam
      <4>1. auction.amount # 0 BY <2>2, <3>2, AuctionAssumption DEF PurseInv, Covered
      <4>2. r.amount >= auction.amount + Increment BY <1>3, <3>2 DEF BidStands
      <4>3. auction.amount \in Nat /\ Increment \in Nat
        BY AuctionAssumption DEF TypeOK, AuctionRow
      <4> QED BY <2>2, <4>1, <4>2, <4>3
    <3> QED BY <3>1, <3>2
  <2>5. Affords(t, r.amount) BY <1>1, <2>1 DEF Payable
  <2>6. Elsewhere(t) = Bought(t) BY <2>3 DEF Elsewhere, Bought, Sold
  <2>7. SpentElsewhere(t) = Spent(t) BY <2>6 DEF SpentElsewhere, Spent, Prices
  <2>8. Spent(t) \in Nat /\ Spent(t) <= Purse /\ Purse \in Nat
    <3>1. IsFiniteSet(Bought(t)) /\ Bought(t) \in SUBSET Player /\ Spent(t) <= Purse
      BY <2>2 DEF PurseInv, WithinPurse, Bought
    <3>2. Spent(t) \in Nat BY <3>1, SpentTyped DEF Spent, Prices
    <3> QED BY <3>1, <3>2, AuctionAssumption
  <2>9. SpentElsewhere(t) + r.amount <= Purse BY <2>2, <2>5, <2>7, <2>8 DEF Affords, Remaining
  <2>10. Cardinality(Elsewhere(t)) < MaxSquad BY <2>5, <2>6 DEF Affords
  <2>11. UNCHANGED player BY DEF CommitBid
  <2>12. SalesSame /\ WithinPurse BY <2>11 DEF SalesSame, Sold, PurseInv
  <2>13. Elsewhere(t)' = Elsewhere(t) /\ SpentElsewhere(t)' = SpentElsewhere(t)
    BY <2>2, <2>12, SpentKept
  <2> QED BY <2>2, <2>4, <2>9, <2>10, <2>13, CoveredBy
<1> QED BY <1>2, <1>3

LEMMA CoveredTurn ==
    ASSUME NothingForFree, TypeOK, LotInv, PurseInv, Next
    PROVE  WithinPurse' /\ Covered'
<1>0. WithinPurse /\ Covered /\ DeskInv BY DEF PurseInv, LotInv
<1>1. ASSUME NEW w \in Auctioneer, DeskNext(w) PROVE WithinPurse' /\ Covered'
  <2>w. w \in Worker BY DEF Worker
  <2>1. CASE Sell(w) BY <1>0, <2>1, PurseSell
  <2>2. CASE CommitReopen(w) BY <1>0, <2>2, PurseReopen
  <2>3. CASE CommitCall(w)
    <3>1. auction'.team = NoTeam BY <2>w, <2>3, TopBidCall DEF LotInv
    <3>2. SalesSame BY <1>0, <1>1, <2>3, SalesSameDesk DEF CommitCall, Sell, CommitReopen, Idle
    <3> QED BY <1>0, <3>1, <3>2, PurseSame DEF Covered
  <2>4. CASE ~ Sell(w) /\ ~ CommitReopen(w) /\ ~ CommitCall(w)
    <3>1. SalesSame BY <1>0, <1>1, <2>4, SalesSameDesk
    <3>2. auction'.current = auction.current /\ auction'.team = auction.team
          /\ auction'.amount = auction.amount
      BY <1>1, <2>4 DEF DeskNext, CommitUpdatePlayer, CommitRemove, CommitAccelerate,
         CommitStatus, CommitPayment, Announce, Unsold, ReadReopen, ReadAccelerate,
         ReadUpdatePlayer, ReadRemove, ReadCall, ReadStatus, ReadPayment, stored, TypeOK, AuctionRow
    <3> QED BY <1>0, <3>1, <3>2, PurseSame, CoveredSame
  <2> QED BY <2>1, <2>2, <2>3, <2>4
<1>2. ASSUME NEW w \in Bidder, BidNext(w) PROVE WithinPurse' /\ Covered'
  <2>1. SalesSame BY <1>2, SalesSameRest
  <2>2. CASE CommitBid(w) BY <1>0, <2>1, <2>2, CoveredBid, PurseSame
  <2>3. CASE ~ CommitBid(w)
    <3>1. UNCHANGED auction BY <1>2, <2>3 DEF BidNext, ReadBid, stored
    <3> QED BY <1>0, <2>1, <3>1, CoveredSame, PurseSame
  <2> QED BY <2>2, <2>3
<1>3. CASE Outside
  <2>1. SalesSame BY <1>3, SalesSameRest
  <2>2. UNCHANGED auction BY <1>3 DEF Outside, Register, Field, Deliver
  <2> QED BY <1>0, <2>1, <2>2, CoveredSame, PurseSame
<1> QED BY <1>1, <1>2, <1>3, Actors DEF Acts

----------------------------------------------------------------------------
(* Base prices *)

LEMMA DiscountPositive ==
    ASSUME NEW base \in Nat, base # 0
    PROVE  Discount(base) # 0
<1>1. (6 * base + 4) \div 8 > 0 OBVIOUS
<1>2. DiscountFloor \in Nat BY AuctionAssumption
<1> QED BY <1>1, <1>2 DEF Discount

LEMMA PricedDesk ==
    ASSUME TypeOK, DeskInv, Priced, NEW w \in Auctioneer, DeskNext(w), Payable(w)
    PROVE  Priced'
<1>w. w \in Worker BY DEF Worker
<1> DEFINE r == request[w]
<1>1. ASSUME NEW p \in Player, player'[p].base = player[p].base,
             player[p].status \in Gone => player'[p].status \in Gone
      PROVE  player'[p].status \notin Gone => player'[p].base # 0
  BY <1>1 DEF Priced
<1>2. CASE CommitUpdatePlayer(w)
  <2>1. r.amount # 0 /\ r.amount \in Nat
    BY <1>w, <1>2 DEF Payable, CommitUpdatePlayer, TypeOK, Request, RequestRecord
  <2>2. ASSUME NEW p \in Player PROVE
          /\ player'[p].base \in {player[p].base, r.amount}
          /\ player[p].status \in Gone => player'[p].status \in Gone
    BY <1>2 DEF CommitUpdatePlayer, TypeOK, PlayerRow, Write, Dirty
  <2> QED BY <2>1, <2>2 DEF Priced
<1>3. CASE CommitRemove(w)
  <2>1. ASSUME NEW p \in Player PROVE player'[p] = player[p] \/ player'[p].status \in Gone
    BY <1>3 DEF CommitRemove, NoRow, Gone
  <2> QED BY <2>1 DEF Priced
<1>4. CASE CommitCall(w)
  <2>1. PICK q \in r.lots : player' = Called(q) BY <1>4 DEF CommitCall
  <2>2. ASSUME NEW p \in Player PROVE
          /\ player'[p].base = player[p].base
          /\ player[p].status \in Gone => player'[p].status \in Gone
    BY <2>1 DEF Called, Write, Gone, TypeOK, PlayerRow
  <2> QED BY <1>1, <2>2 DEF Priced
<1>5. CASE CommitReopen(w)
  <2>1. PICK q \in r.lots : player' = [player EXCEPT ![q] = Write(player[q], Undone(player[q], r.rows[q]))]
    BY <1>5 DEF CommitReopen
  <2>2. ASSUME NEW p \in Player PROVE
          /\ player'[p].base = player[p].base
          /\ player[p].status \in Gone => player'[p].status \in Gone
    BY <2>1 DEF Write, Undone, TypeOK, PlayerRow
  <2> QED BY <1>1, <2>2 DEF Priced
<1>6. CASE CommitAccelerate(w)
  <2>1. ASSUME NEW p \in Player, p \in r.lots PROVE player'[p].base # 0
    <3>1. r.rows[p] = player[p] /\ player[p].status \notin Gone
      BY <1>6, <2>1, Fresh DEF CommitAccelerate
    <3> DEFINE b == Dirty(player[p].base, r.rows[p].base, Discount(r.rows[p].base))
    <3>2. player'[p] = [player[p] EXCEPT !.status = "approved", !.base = b]
      BY <1>6, <2>1, <3>1 DEF CommitAccelerate, Write
    <3>3. player[p].base \in Nat /\ player[p].base # 0 BY <3>1 DEF Priced, TypeOK, PlayerRow
    <3>4. b # 0 BY <3>1, <3>3, DiscountPositive DEF Dirty
    <3> HIDE DEF b
    <3> QED BY <3>2, <3>4 DEF TypeOK, PlayerRow
  <2>2. ASSUME NEW p \in Player, p \notin r.lots PROVE player'[p] = player[p]
    BY <1>6, <2>2 DEF CommitAccelerate
  <2> QED BY <2>1, <2>2 DEF Priced
<1>7. CASE CommitPayment(w)
  <2>1. ASSUME NEW p \in Player PROVE
          /\ player'[p].base = player[p].base
          /\ player[p].status \in Gone => player'[p].status \in Gone
    BY <1>7 DEF CommitPayment, Write, TypeOK, PlayerRow
  <2> QED BY <1>1, <2>1 DEF Priced
<1>8. CASE Sell(w) \/ Unsold(w)
  <2>1. auction.current \in Player /\ player[auction.current].status \notin Gone
    BY <1>8 DEF Sell, Unsold, OnHammer, Gone, TypeOK, AuctionRow
  <2>2. ASSUME NEW p \in Player PROVE
          /\ player'[p].base = player[p].base
          /\ player[p].status \in Gone => player'[p].status \in Gone
    <3>1. PICK c \in Player : c = auction.current BY <2>1
    <3>2. PICK x : x = IF auction.amount # 0 THEN auction.amount ELSE player[c].base OBVIOUS
    <3>3. CASE Sell(w)
      <4>1. player' = [player EXCEPT ![c] =
              [@ EXCEPT !.status = "sold", !.price = x, !.soldTo = auction.team,
                        !.payment = "pending", !.squadRow = lastRow + 1]]
        BY <3>1, <3>2, <3>3 DEF Sell
      <4> QED BY <2>1, <3>1, <4>1 DEF TypeOK, PlayerRow
    <3>4. CASE Unsold(w)
      <4>1. player' = [player EXCEPT ![c].status = "unsold"] BY <3>1, <3>4 DEF Unsold
      <4> QED BY <2>1, <3>1, <4>1 DEF TypeOK, PlayerRow
    <3> QED BY <1>8, <3>3, <3>4
  <2> QED BY <1>1, <2>2 DEF Priced
<1>9. CASE UNCHANGED player BY <1>9 DEF Priced
<1> QED BY <1>2, <1>3, <1>4, <1>5, <1>6, <1>7, <1>8, <1>9 DEF DeskNext, CommitStatus, Announce,
      ReadReopen, ReadAccelerate, ReadUpdatePlayer, ReadRemove, ReadCall, ReadStatus, ReadPayment, stored

LEMMA PricedTurn ==
    ASSUME NothingForFree, TypeOK, LotInv, PurseInv, Next
    PROVE  Priced'
<1>0. Priced BY DEF PurseInv
<1>1. ASSUME NEW w \in Auctioneer, DeskNext(w) PROVE Priced'
  BY <1>0, <1>1, PricedDesk DEF PurseInv, LotInv, Worker
<1>2. CASE \E w \in Bidder : BidNext(w)
  BY <1>0, <1>2 DEF BidNext, CommitBid, ReadBid, stored, Priced
<1>3. ASSUME NEW p \in Player, Register(p) PROVE Priced'
  <2>1. PICK b \in BasePrices :
          player' = [player EXCEPT ![p] = [NoRow EXCEPT !.status = "registered", !.base = b]]
    BY <1>3 DEF Register
  <2>2. player'[p].base = b /\ \A q \in Player : q # p => player'[q] = player[q]
    BY <2>1 DEF TypeOK, NoRow
  <2> QED BY <1>0, <2>2 DEF Priced, NothingForFree
<1>4. CASE UNCHANGED player BY <1>0, <1>4 DEF Priced
<1> QED BY <1>1, <1>2, <1>3, <1>4 DEF Next, Field, Deliver

LEMMA PayableTurn ==
    ASSUME NothingForFree, TypeOK, LotInv, PurseInv, ~ CutsIn, Next, NEW w \in Worker
    PROVE  Payable(w)'
<1> DEFINE p == auction.current
<1>1. CASE ~ Idle(w) /\ ~ Idle(w)'
  <2>1. /\ UNCHANGED <<request, auction>>
        /\ \A q \in Player : player[q].status # "absent" => player'[q] = player[q]
    BY <1>1, OthersWait DEF LotInv
  <2>2. Payable(w) BY DEF PurseInv
  <2>3. CASE request[w].op = "bid"
    <3>1. request[w].team \in Team BY <2>3 DEF TypeOK, Request
    <3>2. PICK t : t = request[w].team OBVIOUS
    <3>3. SalesSame
      <4>1. CASE Outside BY <4>1, SalesSameRest
      <4>2. ASSUME NEW v \in Worker, Acts(v) PROVE FALSE
        <5>1. CASE Commits(v) BY <1>1, <4>2, <5>1, WriteEnds DEF LotInv, AtMostOne
        <5>2. CASE Reads(v) \/ Sell(v)
          <6>1. Idle(v) /\ ~ Idle(v)' BY <4>2, <5>2, ReadBegins, SellBegins
          <6> QED BY <2>1, <6>1 DEF Idle
        <5>3. CASE Unsold(v) BY <2>1, <5>3 DEF Unsold, OnHammer, TypeOK, AuctionRow
        <5> QED BY <4>2, <5>1, <5>2, <5>3, WorkerSteps
      <4> QED BY <4>1, <4>2, Actors
    <3>4. Bought(t)' = Bought(t) /\ Spent(t)' = Spent(t)
      BY <3>1, <3>2, <3>3, SpentKept DEF PurseInv
    <3>5. p \in Player /\ player[p].status \notin Gone /\ Affords(t, request[w].amount)
          /\ request[w].amount >= MinimumBid(auction, player[p].base)
      BY <2>2, <2>3, <3>2 DEF Payable
    <3>6. player'[p] = player[p] BY <2>1, <3>5 DEF Gone
    <3>7. (request[w].amount <= Remaining(t) /\ Cardinality(Bought(t)) < MaxSquad)'
      BY <2>1, <3>4, <3>5 DEF Affords, Remaining
    <3>8. Affords(request[w].team, request[w].amount)'
      BY <2>1, <3>2, <3>7 DEF Affords, Remaining, Spent, Bought
    <3> QED BY <2>1, <2>3, <3>5, <3>6, <3>8 DEF Payable, MinimumBid
  <2>4. CASE request[w].op # "bid" BY <2>1, <2>2, <2>4 DEF Payable
  <2> QED BY <2>3, <2>4
<1>2. CASE Idle(w)' BY <1>2 DEF Payable, Idle
<1>3. CASE Idle(w) /\ ~ Idle(w)'
  <2>1. Acts(w) /\ (Reads(w) \/ Sell(w)) BY <1>3, Begins
  <2>2. CASE Reads(w)
    <3>1. HasRead(w) /\ UNCHANGED stored BY <2>2, ReadTells
    <3>2. request'[w].op = "update" => request'[w].amount # 0
      BY <3>1 DEF HasRead, PurseInv, Priced, NothingForFree
    <3> QED BY <3>1, <3>2 DEF HasRead, Payable, stored, Affords, Remaining, Spent, Bought, Sold, MinimumBid
  <2>3. CASE Sell(w) BY <2>3, SellBegins DEF Payable
  <2> QED BY <2>1, <2>2, <2>3
<1> QED BY <1>1, <1>2, <1>3

----------------------------------------------------------------------------
(* The book of sales *)

PurseTurn == inTurn => PurseInv

LEMMA PurseInvInit == ASSUME Init PROVE PurseInv
<1>1. \A p \in Player : player[p] = NoRow BY DEF Init
<1>2. \A t \in Team : Bought(t) = {} BY <1>1 DEF Bought, Sold, NoRow
<1>3. \A t \in Team : IsFiniteSet(Bought(t)) BY <1>2, FS_EmptySet
<1>4. \A t \in Team : Spent(t) = 0 BY <1>2, SumEmpty DEF Spent
<1>5. Covered BY DEF Init, NewAuction, Covered
<1>6. Priced BY <1>1 DEF Priced, NoRow, Gone
<1>7. \A w \in Worker : request[w].op = "none" BY NoneWaiting DEF Init
<1>8. \A w \in Worker : Payable(w) BY <1>7 DEF Payable
<1>9. \A t \in Team : Spent(t) <= Purse BY <1>4, AuctionAssumption
<1> QED BY <1>3, <1>5, <1>6, <1>8, <1>9 DEF PurseInv, WithinPurse

LEMMA PurseInvStep ==
    ASSUME NothingForFree, TypeOK, TurnInv, PurseTurn, [TurnNext]_turnVars
    PROVE  PurseTurn'
<1>1. CASE UNCHANGED turnVars
  <2>1. CASE inTurn
    <3>1. PurseInv /\ UNCHANGED <<auction, player, request>>
      BY <1>1, <2>1 DEF PurseTurn, turnVars, vars
    <3>2. SalesSame BY <3>1 DEF SalesSame, Sold
    <3>3. WithinPurse' /\ Covered' BY <3>1, <3>2, PurseSame, CoveredSame DEF PurseInv
    <3>4. Priced' BY <3>1 DEF PurseInv, Priced
    <3>5. \A w \in Worker : Payable(w)'
      BY <3>1 DEF PurseInv, Payable, MinimumBid, Affords, Remaining, Spent, Bought, Sold
    <3> QED BY <3>3, <3>4, <3>5 DEF PurseTurn, PurseInv
  <2>2. CASE ~ inTurn BY <1>1, <2>2 DEF turnVars, PurseTurn
  <2> QED BY <2>1, <2>2
<1>2. CASE TurnNext /\ inTurn'
  <2>1. LotInv /\ PurseInv /\ ~ CutsIn /\ Next BY <1>2 DEF TurnNext, TurnInv, PurseTurn
  <2>2. WithinPurse' /\ Covered' BY <2>1, CoveredTurn
  <2>3. Priced' BY <2>1, PricedTurn
  <2>4. \A w \in Worker : Payable(w)' BY <2>1, PayableTurn
  <2> QED BY <2>2, <2>3, <2>4 DEF PurseTurn, PurseInv
<1>3. CASE ~ inTurn' BY <1>3 DEF PurseTurn
<1> QED BY <1>1, <1>2, <1>3

LEMMA PurseInvHolds ==
    ASSUME NothingForFree
    PROVE  TurnSpec => [](TypeOK /\ TurnInv /\ PurseTurn)
<1>1. TurnInit => PurseTurn BY PurseInvInit DEF TurnInit, PurseTurn
<1>2. TypeOK /\ TurnInv /\ PurseTurn /\ [TurnNext]_turnVars => PurseTurn' BY PurseInvStep
<1> QED BY <1>1, <1>2, TurnInvHolds, PTL DEF TurnSpec

BookOwner == [p \in Player |-> IF Sold(p) THEN player[p].soldTo ELSE NoTeam]
BookPrice == [p \in Player |-> IF Sold(p) THEN player[p].price ELSE 0]

\* The book counts and adds up as the auction does.
LEMMA BookCounts == ASSUME NEW S PROVE Book!Cardinality(S) = Cardinality(S)
BY DEF Book!Cardinality, Cardinality

LEMMA BookAdds ==
    ASSUME NEW f, NEW S PROVE Book!SumFunctionOnSet(f, S) = SumFunctionOnSet(f, S)
BY DEF Book!SumFunctionOnSet, Book!FoldFunctionOnSet, Book!MapThenFoldSet,
   SumFunctionOnSet, FoldFunctionOnSet, MapThenFoldSet

LEMMA BookOpens == ASSUME Init PROVE Book!Init
<1>1. \A p \in Player : ~ Sold(p) BY DEF Init, Sold, NoRow
<1> QED BY <1>1 DEF Book!Init

LEMMA BookSame == ASSUME SalesSame PROVE UNCHANGED Book!ledger
<1>1. BookOwner' = BookOwner /\ BookPrice' = BookPrice
  BY DEF SalesSame, BookOwner, BookPrice, Sold
<1> QED BY <1>1 DEF Book!ledger, BookOwner, BookPrice

LEMMA BookSell ==
    ASSUME NothingForFree, TypeOK, DeskInv, Covered, WithinPurse, NEW w \in Auctioneer, Sell(w)
    PROVE  Book!Next
<1>1. PICK p : p = auction.current OBVIOUS
<1>2. PICK t : t = auction.team OBVIOUS
<1>3. /\ p \in Player /\ t \in Team /\ ~ Sold(p)
      /\ player'[p].status = "sold" /\ player'[p].soldTo = t
      /\ player'[p].price = auction.amount
      /\ \A q \in Player : q # p => player'[q] = player[q]
  BY <1>1, <1>2, SaleWritten
<1>4. /\ SpentElsewhere(t) + auction.amount <= Purse
      /\ Cardinality(Elsewhere(t)) < MaxSquad
  BY <1>1, <1>2, <1>3, CoversTeam, AuctionAssumption
<1>5. t # NoTeam BY <1>3, AuctionAssumption
<1> DEFINE Owned == {q \in Player : BookOwner[q] = t}
<1>6. Owned \ {p} = Elsewhere(t)
  BY <1>1, <1>3, <1>5 DEF BookOwner, Elsewhere, Bought
<1>7. SumFunctionOnSet(BookPrice, Owned \ {p}) = SpentElsewhere(t)
  <2> DEFINE f == BookPrice g == Prices S == Elsewhere(t)
  <2>1. \A q \in S : f[q] = g[q] BY DEF BookPrice, Prices, Elsewhere, Bought
  <2>2. IsFiniteSet(S)
    <3>1. IsFiniteSet(Bought(t)) /\ S \subseteq Bought(t) BY <1>3 DEF WithinPurse, Elsewhere
    <3> QED BY <3>1, FS_Subset
  <2> HIDE DEF f, g, S
  <2>3. SumFunctionOnSet(f, S) = SumFunctionOnSet(g, S) BY <2>1, <2>2, SumSame
  <2> QED BY <1>6, <2>3 DEF f, g, S, SpentElsewhere
<1>8. SpentElsewhere(t) \in Nat /\ auction.amount \in Nat /\ Purse \in Nat
  <2>1. IsFiniteSet(Elsewhere(t)) /\ Elsewhere(t) \in SUBSET Player
    <3>1. IsFiniteSet(Bought(t)) /\ Elsewhere(t) \subseteq Bought(t) /\ Bought(t) \subseteq Player
      BY <1>3 DEF WithinPurse, Elsewhere, Bought
    <3> QED BY <3>1, FS_Subset
  <2> QED BY <2>1, SpentTyped, AuctionAssumption DEF SpentElsewhere, TypeOK, AuctionRow
<1>9. /\ BookOwner[p] = NoTeam
      /\ BookOwner' = [BookOwner EXCEPT ![p] = t]
      /\ BookPrice' = [BookPrice EXCEPT ![p] = auction.amount]
  BY <1>3 DEF BookOwner, BookPrice, Sold
<1>10. auction.amount \in 0..Purse BY <1>4, <1>8
<1>11. Book!Paid(t, {p}) = SumFunctionOnSet(BookPrice, Owned \ {p})
  <2>1. Book!Paid(t, {p}) = Book!SumFunctionOnSet(BookPrice, Owned \ {p})
    BY DEF Book!Paid, Book!Owned, BookOwner, BookPrice
  <2> QED BY <2>1, BookAdds
<1>12. Book!Owned(t) \ {p} = Elsewhere(t) BY <1>6 DEF Book!Owned, BookOwner
<1>13. Book!Buy(p, t)
  <2>1. Book!Paid(t, {p}) + auction.amount <= Purse BY <1>4, <1>7, <1>11
  <2>2. Book!Cardinality(Book!Owned(t) \ {p}) < MaxSquad BY <1>4, <1>12, BookCounts
  <2> QED BY <1>9, <1>10, <2>1, <2>2 DEF Book!Buy, BookOwner, BookPrice
<1> QED BY <1>3, <1>13 DEF Book!Next

LEMMA BookUndo ==
    ASSUME TypeOK, DeskInv, NEW w \in Auctioneer, CommitReopen(w)
    PROVE  [Book!Next]_(Book!ledger)
<1>1. PICK p : p = auction.current OBVIOUS
<1>2. /\ p \in Player /\ player'[p].status = "in_hammer"
      /\ \A q \in Player : q # p => player'[q] = player[q]
  BY <1>1, UndoWritten
<1>3. CASE Sold(p)
  <2>1. player[p].soldTo # NoTeam
    <3>1. [id |-> player[p].squadRow, team |-> player[p].soldTo, player |-> p] \in squad
      BY <1>2, <1>3 DEF DeskInv, SquadMatchesSales
    <3> QED BY <3>1, AuctionAssumption DEF TypeOK
  <2>2. /\ BookOwner[p] # NoTeam
        /\ BookOwner' = [BookOwner EXCEPT ![p] = NoTeam]
        /\ BookPrice' = [BookPrice EXCEPT ![p] = 0]
    BY <1>2, <1>3, <2>1 DEF BookOwner, BookPrice, Sold
  <2>3. Book!Undo(p) BY <2>2 DEF Book!Undo, BookOwner, BookPrice
  <2> QED BY <1>2, <2>3 DEF Book!Next
<1>4. CASE ~ Sold(p)
  <2>1. SalesSame BY <1>2, <1>4 DEF SalesSame, Sold
  <2> QED BY <2>1, BookSame
<1> QED BY <1>3, <1>4

LEMMA BookStep ==
    ASSUME NothingForFree, TypeOK, LotInv, PurseInv, Next
    PROVE  [Book!Next]_(Book!ledger)
<1>0. DeskInv /\ Covered /\ WithinPurse BY DEF LotInv, PurseInv
<1>1. ASSUME NEW w \in Auctioneer, DeskNext(w) PROVE [Book!Next]_(Book!ledger)
  <2>1. CASE Sell(w) BY <1>0, <2>1, BookSell
  <2>2. CASE CommitReopen(w) BY <1>0, <2>2, BookUndo
  <2>3. CASE ~ Sell(w) /\ ~ CommitReopen(w)
    <3>1. SalesSame BY <1>0, <1>1, <2>3, SalesSameDesk
    <3> QED BY <3>1, BookSame
  <2> QED BY <2>1, <2>2, <2>3
<1>2. CASE (\E w \in Bidder : BidNext(w)) \/ Outside
  <2>1. SalesSame BY <1>2, SalesSameRest
  <2> QED BY <2>1, BookSame
<1> QED BY <1>1, <1>2, Actors DEF Acts

\* As long as requests follow one another and no lot starts at nothing, the
\* auction implements the book of sales: a player is bought by one team, for
\* which it still had the money and a place; a sale is undone as a whole; and
\* nothing else changes the book, with any number of desks and bidders, any
\* purse, cap and increment.
THEOREM ImplementsBook == ASSUME NothingForFree PROVE TurnSpec => BookInTurn
<1>1. TurnInit => Book!Init BY BookOpens DEF TurnInit
<1>2. TypeOK /\ TurnInv /\ PurseTurn /\ [TurnNext]_turnVars =>
         [inTurn' => [Book!Next]_(Book!ledger)]_turnVars
  <2> SUFFICES ASSUME TypeOK, TurnInv, PurseTurn, TurnNext, inTurn'
               PROVE  [Book!Next]_(Book!ledger)
    OBVIOUS
  <2>1. LotInv /\ PurseInv /\ Next BY DEF TurnNext, TurnInv, PurseTurn
  <2> QED BY <2>1, BookStep
<1> QED BY <1>1, <1>2, PurseInvHolds, PTL DEF TurnSpec, BookInTurn

\* Nor does a team then ever spend more than the purse, or owe more for the
\* lot it leads than it has left.
THEOREM PurseHolds == ASSUME NothingForFree PROVE TurnSpec => [](inTurn => WithinPurse /\ Covered)
<1>1. TypeOK /\ TurnInv /\ PurseTurn => (inTurn => WithinPurse /\ Covered)
  BY DEF PurseTurn, PurseInv
<1> QED BY <1>1, PurseInvHolds, PTL
=============================================================================
