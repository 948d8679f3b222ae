----------------------------- MODULE AuctionRoom -----------------------------
(***************************************************************************)
(* The three pages of an auction room: the auctioneer's arena, the team    *)
(* manager's bidding page and the stadium display.  Each holds a copy of   *)
(* the room, fetched again on every message of the gateway, whenever the   *)
(* socket comes back, and every few seconds in case the gateway is down.   *)
(* Fetches carry no number: an older answer may arrive last.               *)
(***************************************************************************)
EXTENDS Client, Naturals, FiniteSets

CONSTANTS
    Bidder,     \* teams in the room; the manager's page is one team's
    MyTeam,     \* that team
    MaxBid,     \* bound: raises of one lot
    MaxLots     \* bound: players called

ASSUME RoomAssumption == MyTeam \in Bidder

(* api: the lot on the block, whether it is open, sold or unsold, the team  *)
(* that leads and its bid in increments over the base price (0: no bid).    *)
(* told: sales and unsold marks that were not what the auctioneer confirmed *)
(* and bids that went to another lot than the one bid for.                  *)

ArenaKinds == {"arena", "team", "tv"}
\* own: the fetch that ends an action of the page's own.
RoomRead == [kind |-> "read", copy |-> api, own |-> FALSE]

RoomInit ==
    /\ api = [lot |-> 0, hammer |-> "idle", lead |-> None, bid |-> 0]
    /\ calls = {RoomRead}
    /\ \E k \in ArenaKinds :
           page = [at |-> "room", kind |-> k, data |-> None, error |-> FALSE,
                   busy |-> FALSE, ask |-> None]
    /\ told = {}

NextBid(room) == IF room.lead = None THEN 1 ELSE room.bid + 1

-----------------------------------------------------------------------------
(* What the API does with a request; others in the room send them too. *)

Called(room) == [lot |-> room.lot + 1, hammer |-> "open", lead |-> None, bid |-> 0]
Reopened(room) == [room EXCEPT !.hammer = "open"]
RaisedBid(room, t, x) == [room EXCEPT !.lead = t, !.bid = x]
Hammered(room, word) == [room EXCEPT !.hammer = word]

\* What becomes of the room; the same if the request is refused.
RoomAfter(room, c) ==
    CASE c.op = "call" /\ room.lot < MaxLots /\ ~(room.hammer = "open" /\ room.lead # None) ->
            Called(room)
      [] c.op = "bid" /\ room.hammer = "open" /\ c.team # room.lead
            /\ c.amount >= NextBid(room) /\ c.amount <= MaxBid -> RaisedBid(room, c.team, c.amount)
      [] c.op = "sell" /\ room.hammer = "open" /\ room.lead # None -> Hammered(room, "sold")
      [] c.op = "unsold" /\ room.hammer = "open" -> Hammered(room, "unsold")
      [] c.op = "reopen" /\ room.hammer \in {"sold", "unsold"} -> Reopened(room)
      [] OTHER -> room

RoomNews == [kind |-> "message"]

Others ==
    \/ page.kind # "arena" /\ \E op \in {"call", "sell", "unsold"} :
           /\ api' = RoomAfter(api, [op |-> op]) /\ api' # api
           /\ Send(RoomNews) /\ UNCHANGED <<page, told>>
    \/ \E t \in Bidder \ IF page.kind = "team" THEN {MyTeam} ELSE {} :
           /\ api' = RoomAfter(api, [op |-> "bid", team |-> t, amount |-> NextBid(api)]) /\ api' # api
           /\ Send(RoomNews) /\ UNCHANGED <<page, told>>

-----------------------------------------------------------------------------
(* Looking. *)

Reads == {c \in calls : c.kind = "read"}
Look == IF Cardinality(Reads) < MaxReads THEN calls' = calls \cup {RoomRead} ELSE UNCHANGED calls

\* A message of the gateway: look again.
RoomMessage(c) ==
    /\ c.kind = "message"
    /\ calls' = (calls \ {c}) \cup IF Cardinality(Reads) < MaxReads THEN {RoomRead} ELSE {}
    /\ UNCHANGED <<api, page, told>>

\* The gateway is down, or the subscription was not up yet.
MessageLost(c) ==
    /\ c.kind = "message" /\ Settle(c)
    /\ UNCHANGED <<api, page, told>>

\* Mutant: the page only looks again when the gateway says so.
PollsNever == FALSE /\ UNCHANGED clientVars

\* The poll of useRoomSocket.
RoomPolls ==
    /\ RoomRead \notin calls /\ Cardinality(Reads) < MaxReads
    /\ Send(RoomRead) /\ UNCHANGED <<api, page, told>>

RoomFetched(c) ==
    /\ c.kind = "read" /\ Settle(c)
    /\ page' = [page EXCEPT !.data = c.copy, !.error = FALSE, !.busy = @ /\ ~c.own]
    /\ UNCHANGED <<api, told>>

\* The arena and the display keep what they show; the manager's page gives way to
\* an error until a fetch succeeds.
RoomFetchFailed(c) ==
    /\ c.kind = "read" /\ Settle(c)
    /\ page' = [page EXCEPT !.busy = @ /\ ~c.own,
                            !.error = page.kind = "team" \/ (page.kind = "arena" /\ page.data = None)]
    /\ UNCHANGED <<api, told>>

-----------------------------------------------------------------------------
(* Acting. *)

Ready == page.data # None /\ ~page.error /\ page.ask = None

\* The auctioneer takes the chosen team's bid from the floor, at the next step or higher.
FloorBid(t, step) ==
    /\ page.kind = "arena" /\ Ready /\ ~page.busy /\ page.data.lot > 0
    /\ page' = [page EXCEPT !.busy = TRUE]
    /\ Send([kind |-> "act", op |-> "bid", team |-> t, lot |-> page.data.lot,
             lead |-> page.data.lead, amount |-> NextBid(page.data) + step])
    /\ UNCHANGED <<api, told>>

\* A manager's one button, at the price it shows.
ManagerBid ==
    /\ page.kind = "team" /\ Ready /\ ~page.busy
    /\ page.data.hammer = "open" /\ page.data.lead # MyTeam
    /\ page' = [page EXCEPT !.busy = TRUE]
    /\ Send([kind |-> "act", op |-> "bid", team |-> MyTeam, lot |-> page.data.lot,
             lead |-> page.data.lead, amount |-> NextBid(page.data)])
    /\ UNCHANGED <<api, told>>

Auctioneer(op) ==
    [kind |-> "act", op |-> op, team |-> None, lot |-> page.data.lot,
     lead |-> page.data.lead, amount |-> page.data.bid]

CallPlayer ==
    /\ page.kind = "arena" /\ Ready /\ ~page.busy
    /\ page' = [page EXCEPT !.busy = TRUE]
    /\ Send(Auctioneer("call"))
    /\ UNCHANGED <<api, told>>

\* Selling, marking unsold and reopening ask first, naming what was on show.
HammerOffered(op) ==
    CASE op = "sell" -> page.data.hammer \notin {"sold", "unsold"} /\ page.data.lead # None
      [] op = "unsold" -> page.data.hammer \notin {"sold", "unsold"}
      [] op = "reopen" -> page.data.hammer \in {"sold", "unsold"}

AskFirst(op) ==
    /\ page.kind = "arena" /\ Ready /\ ~page.busy
    /\ page.data.lot > 0 /\ HammerOffered(op)
    /\ page' = [page EXCEPT !.ask = Auctioneer(op)]
    /\ PageOnly

Confirm ==
    /\ page.ask # None
    /\ page' = [page EXCEPT !.ask = None, !.busy = TRUE]
    /\ Send(page.ask)
    /\ UNCHANGED <<api, told>>

Decline ==
    /\ page.ask # None
    /\ page' = [page EXCEPT !.ask = None]
    /\ PageOnly

\* Was it what was on show when the button was pressed?
Misled(c) ==
    CASE c.op \in {"sell", "unsold"} -> c.lot # api.lot \/ c.lead # api.lead \/ c.amount # api.bid
      [] c.op = "bid" -> c.lot # api.lot
      [] OTHER -> FALSE

Took(c) ==
    /\ api' = RoomAfter(api, c)
    /\ told' = IF api' # api /\ Misled(c) THEN told \cup {c.op} ELSE told

OwnRead == [kind |-> "read", copy |-> api', own |-> TRUE]

\* The page looks again before it lets go of its buttons, unless a manager's bid failed.
ActAnswered(c) ==
    /\ c.kind = "act" /\ Took(c)
    /\ calls' = (calls \ {c}) \cup {OwnRead}
                   \cup IF api' = api THEN {} ELSE {RoomNews}
    /\ UNCHANGED page

ActLost(c) ==
    /\ c.kind = "act"
    /\ (UNCHANGED <<api, told>>) \/ Took(c)
    /\ IF page.kind = "team"
       THEN /\ Settle(c)
            /\ page' = [page EXCEPT !.busy = FALSE]
       ELSE /\ calls' = (calls \ {c}) \cup {OwnRead}
            /\ UNCHANGED page

RoomNext ==
    \/ Others \/ RoomPolls \/ ManagerBid \/ CallPlayer \/ Confirm \/ Decline
    \/ \E c \in calls : RoomMessage(c) \/ MessageLost(c) \/ RoomFetched(c) \/ RoomFetchFailed(c)
                        \/ ActAnswered(c) \/ ActLost(c)
    \/ \E t \in Bidder, step \in {0, 1} : FloorBid(t, step)
    \/ \E op \in {"sell", "unsold", "reopen"} : AskFirst(op)

\* The poll goes on; every request ends, and fetches do not fail for ever.
RoomFairness ==
    /\ WF_clientVars(page.at = "room" /\ RoomPolls)
    /\ SF_clientVars(page.at = "room" /\ \E c \in calls : c.kind = "read" /\ RoomFetched(c))

RoomSpec == RoomInit /\ [][RoomNext]_clientVars /\ RoomFairness

-----------------------------------------------------------------------------
\* Each page ends up showing what the API holds, once the room goes quiet, whatever
\* messages and answers were lost or came late (useRoomSocket, the pages' fetches).
RoomCatchesUp ==
    page.at = "room" /\ <>[][FALSE]_api => <>[](page.at = "room" /\ page.data = api)

\* The auctioneer confirms a sale by player, team and price: that is what is sold
\* (handleSellPlayer, handleUnsoldPlayer).
SoldAsConfirmed == page.at = "room" => "sell" \notin told

=============================================================================
