# KickWick in TLA+

KickWick runs village and club tournaments: an organizer opens registration,
teams enter and pay a ground fee, players are auctioned to the teams, football
and cricket matches are scored ball by ball from phones at the ground, and a
public board follows. The program is a Laravel API (`src/backend/app`) with a
MySQL/SQLite database, a queue worker, a scheduler and a websocket gateway, and a
React client (`src/client`). The API holds what counts; the client holds what it
last read, and some things nobody else knows: the session and the one parked
behind it, the draft of an entry and the payment made for it, who is at the
crease. This project models both sides: the API's handlers against the database,
and the client's pages against the API.

## 1. How the program runs, and how it is modelled

### The API

Requests are served by concurrent PHP workers; the only shared state is the
database. Nearly every handler has the same shape:

1. plain `SELECT`s into model instances, and refusals decided on them;
2. one transaction, often with a row lock, that re-reads some rows, checks some
   conditions again and writes;
3. afterwards: broadcast, audit line, notification.

Between 1 and 2 any other worker may commit. A handler is therefore two actions,
`Read…` and `Commit…`, with what was read kept in `request[worker]`. Handlers
that read and write under one row lock (`sellPlayer`, `undoLastCricketBall`,
`recordPayment`, the toss) are one action. A step inside one transaction is never
split: the lock and the transaction make it atomic for every other handler that
takes the same lock, and the handlers that do not take it are the ones whose
`Read…` is a separate action.

Saving a model instance is not an overwrite. Eloquent's `save` writes the columns
whose new value differs from the value *read*, whatever the row holds by now.
`Dirty`/`Write` (Auction) and `Saved` (Football, Cricket, Bracket) say exactly that, and
several of the findings below are about nothing else.

### The client

A page is a state machine of its own: leaving it unmounts it, and its state is
gone. All pages share the four variables of `Client`:

- `api`: what the API holds of the things the page works on. What other people do
  to it meanwhile is an action of the environment.
- `calls`: the requests and room messages under way.
- `page`: the React state, and what the page keeps on the device.
- `told`: history, only for the properties.

JavaScript runs one handler at a time, up to its next `await`. What a handler sets
before it is one action, which sends the request; what it does with the answer is
another, at any later time. Answers come in any order, may be refusals, and may be
lost after the API has acted. A timer is an action that is enabled once it is set.
Each reducer of the source (`Kept`, `SentBack`, `ClearedDraft`, `Lent`, …) is an
operator from page to page, so that a handler's later steps see the earlier ones.

`ClientPages` puts the pages side by side: a behaviour is that of one page, chosen
at the start. That is how the code runs too: pages share only `localStorage`, whose
one common content, the session, is the subject of `Session`.

The office pages (some twenty lists with buttons) are one machine, `Desk`, and a
description of each page as data in the words of `DeskKit`: how the list is
fetched, on which rows a button is offered, what it asks first, what it locks, what
it sends and what its answer changes.

## 2. Inventory

| Component | State | Operations | What makes it correct | Status |
|---|---|---|---|---|
| Live auction (`AuctionController`, `AuctionService`) | auctions row (lot on the hammer, standing bid), pool rows, bids, squad rows, sold messages | register, approve/remove, call, bid, sell, unsold, undo, second round, status, payments | one lot open; a bid tops the standing one; purse and cap; squads equal the sales that stand; paid or fielded sales are not undone | modelled, partly |
| Team registration and ground fee (`TeamController`, `TournamentPaymentService`, `PaymentGatewayService`) | entries, accounts, receipts, gateway payments, refund list | order, register, replay, refuse, balance, cash record, decision, window | places; accounts add up; a payment counts once; a payment refused by a returned error is on a team or on the refund list | modelled, partly |
| Football scoring and match clock (`ScoringEngine`) | match row, state row (score, clock), event log | event, undo, every clock control, finish, reopen, cancel | score is the log's; sent-off stay off; result fits the score; the clock loses no play | modelled, partly |
| Cricket scoring (`ScoringEngine`) | match row, state row, delivery log | ball, undo, switch, finish, cancel | totals are the log's; innings end where they must; the target; the sides; the result | modelled, partly |
| Toss (`TossService`) | toss columns of the match | call, decide, record, reset | no match is started without it; sides follow it | in Football and Cricket |
| Scorer's console (`OrgLiveScorerPage` and its dialogs) | match copy, crease, armed extra, open dialog, sheet rows being edited | tap, call out, wicket, change batters or bowler, undo; event, substitution, clock; toss, team sheet | a tapped ball names players who may play it; a change fits the pitch; a sheet sent is one | modelled, partly |
| Browser session (`AuthContext`, `api.ts`, guards and gates) | token in use, parked token, profile, path | sign in and up, recover, impersonate, swap back, change password, sign out, 401s | an old refusal ends no new session; what is parked is the admin's own; guards come to rest | modelled |
| Team entry wizard (`PublicTeamRegisterPage`, `useDraft`) | step, draft and its timer, payment, outcome | fill, next, back, pay, submit, retry, start over; a write refused, a draft expired; the tab dies | nobody charged twice while the draft keeps the payment; no draft after the receipt | modelled, partly |
| Stadium display (`ScoreboardTVPage`) | numbered answers, play called, coin and the request it waits for, directed item | poll, message, reconnect, timers | each play called once; the score comes back | modelled, partly |
| Auction room pages (arena, manager's page, display) | copy of the room, open dialog | fetch, poll, message, bid, sell, undo | catches up with the API | modelled, partly |
| Office pages (admin and club lists) | list, filter, locks, dialogs, forms | fetch, page, filter, click, confirm, submit | free again afterwards; shows what was asked and what was done | modelled, partly |
| Match-day lineups, scoreboard director, tokens, realtime gateway | | | | as the pages meet them (`MatchSetup`, `Board`, `Session`, `Board` and `AuctionRoom`) |
| Knockout bracket (`BracketService`), standings (`ScoringEngine`) | matches rows with the sources of their sides, approved teams, groups | result by hand, cancel, kick-off, whistle, reopen, undo, approve or withdraw, generate; each ends in rank and sync | every side shows what its source says; qualifiers only from finished groups; a started match keeps its sides | modelled, partly |
| Fixture generation (`FixtureBuilder`, `Slotter`, `MatchController`) | a list of fixtures | league, groups, knockout, groups with knockout | everyone meets everyone; byes to the best; no early rematch; one match at a time on a ground | modelled |
| Plans and billing, notifications, support tickets | subscription, invoices, message rows, tickets | renew, sweep, dispatch, retry, reply | paid days are never lost; once per key; an unanswered ticket is not closed | not modelled |
| Tournament lifecycle, posters, exports, administration, players and statistics, venues, sponsors, reviews, legal, uploads, response cache | | | | not modelled; the reason for each is in `PROJECT.json` |

How they interact: registration produces the approved teams that bid and play;
a sale creates a squad row, a lineup may then name it and so pin the sale; the
toss fixes who bats or kicks off; every scoring action recalculates the standings
and refills the bracket; cancelling a match freezes it for scoring; sales,
entries and results dispatch notifications through the queue. Every commit in a
match or an auction sends a message to the room of that match, and a page of that
room answers it with a fetch, never with the message's content; where the gateway
is down, the pages poll.

Hard behaviours: reads decided before the lock, partial saves, retries of a
request whose answer was lost, undo of almost everything (a sale, a goal, the
ball that ended a match, an innings switch), results corrected after the whistle,
and money captured for a request that is then refused; on the client, answers that
overtake each other, requests whose answer is lost, a token that changes while a
request sent with the old one is under way, and a tab that dies with a payment in
its memory. `PROJECT.json` lists each under `hazards` at its line, with the
properties that cover it, or why none does.

## 3. Modules

| Module | What it holds |
|---|---|
| `Auction` | the auction: one action (or Read/Commit pair) per endpoint |
| `AuctionLedger` | the abstract promise: a book of sales in which players are sold to teams within their limits and sales are undone |
| `AuctionSafety` | properties, the refinement mapping to the ledger, the inductive invariant |
| `AuctionTurns` | the auction with a memory of whether its requests have followed one another |
| `AuctionProofs` | theorems: any requests, those of one desk, requests that follow one another |
| `Registration`, `RegistrationSafety`, `RegistrationProofs` | entries, payments and the refund list; properties; theorems |
| `Football`, `FootballSafety`, `FootballTurns`, `FootballProofs` | one football match; properties; with a memory of overlaps; theorems |
| `Cricket`, `CricketSafety`, `CricketTurns`, `CricketProofs` | one cricket match; properties; with a memory of overlaps; theorems |
| `Fixtures`, `FixtureProofs` | how a fixture list is drawn and put on days and grounds, as functions; theorems about them for any field |
| `Bracket`, `BracketSafety`, `BracketTurns`, `BracketProofs` | one tournament from the draw to the final: requests, table, refilled bracket; properties; with a memory of overlaps; theorems |
| `Client` | the variables and conventions every page shares |
| `CricketConsole`, `FootballConsole`, `MatchSetup` | the scorer's console: cricket, football, the setup tab |
| `Session` | the signed-in tab: storage, guards, gates, sign-in, impersonation |
| `TeamEntry` | the public entry wizard |
| `Board`, `AuctionRoom` | the stadium display; the three pages of an auction room |
| `DeskKit`, `AdminDesk`, `ClubDesk`, `Desk` | the words a list page is described in, the administrator's and the club's pages, the machine that runs them |
| `ClientPages` | the pages side by side, and their fairness |
| `ClientProofs` | theorems about seven pages and about the pages side by side |
| `FiniteSums` | lemmas on sums over finite sets, counts over a log, smallest sets and numbers |
| `MC…` | instances for TLC: small sets, symmetry, bounds |

**Auction.** `auction`, `player`, `bids`, `squad` are the tables of the same
names; `fielded` stands for the squad rows named in lineups; `messages` for the
sold notifications with their unique key. `ReadCall`/`CommitCall` is `callPlayer`,
`ReadBid`/`CommitBid` is `placeBid` with the re-check under the lock
(`BidStands`), `Sell` and `Unsold` run under the lock, `ReadReopen`/`CommitReopen`
is UNDO, `ReadAccelerate`/`CommitAccelerate` the second round.

**Registration.** A captain pays first (`PayEntry`, `PayBalance`: the gateway,
external) and submits afterwards, any number of times. `ReadRegister`/
`CommitRegister` is `register` with `createRegistration`. It refuses in three ways:
`ReadRefusal` is an error the pre-check returns, `ReadOrphan` a refusal inside the
transaction, and both go on to `CommitRefund`, which writes the refund list;
`ReadInvalid` is a form that does not validate, which is answered (`AnswerInvalid`)
without it. `RecordPayment` is the organizer's cash record.

**Football.** `Kept` and the control operators are the branches of
`updateFootballTimer`; `CommitEvent` and `CommitUndo` are the log and the score
under the match lock, with the match row saved from the earlier read.

**Cricket.** `CommitBall`, `Undo`, `CommitSwitch` and `Finish` are the four scoring
endpoints with every recomputation they make. `Fresh` is what `cricketState` does
on every read: until a ball is bowled the sides follow the toss. A ball asks for the
toss only while the match has not started, so after an early switch of innings it may
be bowled without one (`ReadBall`). Runs and wickets
are by innings, as the columns `team_a_…`/`team_b_…` are in the code, and not by
team. The crease, run rates and the wording of results are left out.

**Fixtures.** `CircleMethod`, `SeedOrder`, `AssignGroups`, `AvoidSameGroupTies` and
`Bracket` are the methods of `FixtureBuilder` of the same names, `Slot` is
`Slotter.slot`. A fixture is known by its round and position in the bracket, which
stand for its id in `advance_from`.

**Bracket.** `rows` are the matches of the tournament, of every list drawn so far. A
request reads and judges (`Read…`), acts (`Save`, `Score`, `SaveTeam`, `Generate`),
and refills in a last step (`Recalculate`) from what it saw when it acted, writing
the columns that differ. A scorer's request acts and refills in one transaction
under the lock of its match, and nobody sees what it did before; the organizer's
requests save first and refill later. `Synced` goes through the rounds in order, as
`sync` does; `GroupTable` is `rankStandings` with its tie-break. A match here is its
status and winner, since goals and clock are Football's: `ReadPlay` stands for every
control and event up to the whistle, and needs the toss as there. Left out are
cricket's table, goal difference and cards (an order stands for them), a `group_name`
edited by hand and a cancelled tournament, after neither of which anything is
recalculated, and the display of the bracket.

**CricketConsole, FootballConsole, MatchSetup.** `CricketConsole` keeps the phone's
copy of the match and the crease apart, as the page does: `EffectiveBowler`,
`creaseReady`, the reset when the innings turns, the wicket dialog's follow-ups and
the voice parser's order of phrases are the source's. `FootballConsole` works out
who is on the pitch from the sheet and the log (`OnPitchIds`), because the API does
not. `MatchSetup` holds the rows of the sheet editor, which a refetch or a change
of side replaces. Left out: poster panel, commentary lines, the player of the match.

**Session.** `EndSession` is `apiRequest`'s 401 branch and the session-ended event;
`SwapBack` the way out of an impersonation; `Redirect` one step of the guards
(`ProtectedRoute`, `roleHome`, `landingAfterLogin`, the routes of `App`). Tokens
are revoked on the API's side by password changes, suspensions and sign-outs
elsewhere. Several tabs are not modelled: the code listens to no storage event.

**TeamEntry.** `Kept` is the effect that sets the 400 ms draft timer and
`DraftWritten` the timer; `DraftNotWritten` is the same timer where storage is full or
blocked, an error `useDraft` swallows. `Opened` is what a new tab makes of a draft, and
`TabDies` gives it none when `readDraft` finds the draft out of date. `StartOver`
clears the draft and reloads, or, when the captain answers the browser's question by
staying, only clears it. The gateway may have been paid although its dialog reports
nothing (`CheckoutDismissed`). Storage that is blocked or unblocked while a draft is on
it is left out.

**Board.** `page.asked` lists the requests by number; the API serves them at any
time, the answers come in any order, and an answer to a question older than the
one shown is dropped. When the coin has spun (`CoinSpun`) the display asks once more
and stops it when that request has ended (`stops`). The scorecard the display shows by itself at breaks is left
out, and of the director only what it puts on the screen.

**AuctionRoom.** Fetches carry no number here, so an older answer may replace a
newer one until the next poll. `SoldAsConfirmed` states what the auctioneer's
confirmation dialog suggests (the player, team and price shown are the ones sold).
The code does not hold it, because the request names none of them, and no comment
promises it; it stands in the module as documentation and is no part of a run.

**Desk.** The API may allow or refuse anything here; other people change the row
meanwhile. `told.ver` is the last version the page was told it had made.

## 4. Runs

| Run | Checks | Instance |
|---|---|---|
| `auction` | `TypeOK`, `SquadMatchesSales`, `OneOnHammer`, `PaidSaleStands`, `BidsTopUnderLock`; in turn: `StandingBidInTurn`, `FieldedInTurn`, `BookInTurn` (the auction implements the ledger, whose sales are within purse and squad cap) | 2 players, 2 teams, one desk that may also bid, one more bidder |
| `auction_resale` (violation) | `SaleAnnounced` | one worker |
| `registration` | `AccountsMatch`, `PlacesRespected`, `RefusedMoneyListed`, `SpentForGood` | 2 teams, 2 payments, 2 captains, one desk, 1 place, fee 2 in halves |
| `registration_stale` (violation) | `NeverOvercharged` | a balance payment against a cash record |
| `football` | `SentOffStaysOff`, `ScoreFromLog`, `NothingBeforeKickOff`, `ClockNeverBack`; in turn: `ResultInTurn` | two consoles, halves of 1 minute, one named player |
| `football_late` (violation) | `ResultMatchesScore` | two consoles |
| `cricket` | `TotalsMatchLog`, `InningsWithin`, `TargetStands`, `SidesKept`; in turn: `WinnerInTurn`, `ChaseInTurn` | two consoles, innings of one over of 3 balls, at most 4 deliveries each; one side is out at 2 wickets, the other at 1 |
| `cricket_cancelled` (violation) | `CancelledFrozen` | one console |
| `bracket` | `OnePassSettles`, `DrawFair`; in turn: `SettledInTurn`, `QualifiersInTurn`, `StartedInTurn` | fields of 3 to 9 teams (not 8) in every format, five of them played; two workers |
| `client` | `KeypadRight`, `ChangesFit`, `SheetsSound`, `ParkedIsOwn`, `RefusalKeepsLive`, `ChargedOnce`, `ReceiptClearsDraft`, `CalledOnce`, `DoneIsShown` | every page of the client |
| `client_live` | `ComesToRest`, `RoomCatchesUp`, `ScoreComesBack` | the session, the display and the auction room, with fairness |
| `session_lent` (violation) | `AdminKeepsSession` | one tab of a super admin inside a club's account |

**Bounds on the API's side.** The auction's hazards need two players (the lot
before and the one being called) and two teams (the one topped and the one
topping); a purse of two increments makes it run out within a sale. `MaxSales` and
`MaxBid` bound sales and bids. One place and two captains make the race for the
last place, two payments let one be replayed while the other is refused, and a fee
of two halves reaches the partial, the full and the overpaid account. Three
football events (`MaxEvents`) fit a second yellow and a goal after it; `MaxTime`
and `HalfLength` let a clock run out. Four deliveries in an innings of three legal
balls (`MaxBalls`) leave room for a wide on the last ball, and side a needing two
wickets keeps "wicket" apart from "all out". Every bound stops the environment (a
bid not tried, a ball not bowled), never a handler half-way.

A tournament of every format is drawn for 3, 4, 5, 6, 7 and 9 teams (`Fields`): odd
fields, fields just under and just over a power of two, and with `AllDraws` one to
three groups or as many as the code suggests. Three groups are what makes a
same-group tie, and byes whose team is not known until a group is over. Five of
these draws are played (`Plays` in `MCBracket`), each with a number of requests
while none overlap and, usually, fewer once two have: a knockout of three and of
four teams (four requests in turn, three raced), one group of three that feeds a
final (four and one), two groups of two (three and three), three groups of two (three
and one). Four requests draw a list, decide a semi-final, move its
winner into the final, and take it back or withdraw the team. `HandStatuses` are the
statuses typed in, `Movers` the teams whose entry changes, `Tosses` the matches
tossed at one time, and `MaxLists` lets a list be drawn again once.

**In turn, and raced.** Some promises hold only while requests do not overlap. The
modules `…Turns` add a history variable, `inTurn`. In `AuctionTurns` it turns false at
the first step of one request between the read and the write of another, in
`FootballTurns` once two consoles are between their read and their write, in
`CricketTurns` once the match's status or winner is written while a console holds the
row it read before, and in `BracketTurns` as soon as a request begins while another is
under way. The properties named `…InTurn` are required up to then; all others
throughout. Once requests have overlapped the instance is smaller: `RacedSales` in the
auction; `RacedEvents`, `RacedTime` and `RacedControls` in football, where `TurnEvents`
and `TimedEvents` bound what is recorded before; `RacedBalls` in cricket, three
deliveries. Two overlapping requests and what follows them are reached in full within
these bounds: a race needs one sale to be called, bid for, sold and undone, or two
events and the controls around them, or two balls and the undo of one.

**Bounds on the client's side.** `MaxMoves` (cricket recordings and changes of the
crease), `MaxTaps` (football recordings), `MaxSetup` (edits of a sheet), `MaxEdits`
(steps of the entry filled in or spoilt), `MaxTokens` and `MaxForms` (tokens issued, forms
sent), `Attempts` (retries of the profile fetch), `MaxPlays`, `MaxTurns` and
`MaxLooks` (plays, directed screens, overlapping looks of the display), `MaxLots`
and `MaxBid` (of the room), `MaxActs` (changes to a row of a desk) and `MaxReads`
(refetches at once). Three batters and two bowlers in overs of one ball
reach the end of an over, a wicket and the next batter within two taps; three
footballers of whom two start make one change possible and the next one wrong; two
payments are what it takes to be charged twice; three tokens are the admin's, a lent
one and the next; two looks overtake each other; two actions at a desk are one of
the page's and one of somebody else's, or two whose lists overtake each other. The
retries of the profile fetch are none in `client` and one in `client_live`, three in
the code; each retry is the same step.

Symmetry is used over players, teams, payments, phones, batters, bowlers and
interchangeable workers, which no definition orders (the teams of `Bracket` are
numbers, as the seeding orders them, and not symmetric), and never in a run with a
liveness property. `CHECK_DEADLOCK` is off in every run because the system may
stop: an auction ends, a match is over, a page waits for a hand.

**Scope of a passing run.** What a run does not claim:

- Purse and cap, the top standing bid, fielded rows, the ledger and the football
  result are checked up to the first overlap only. `placeBid` judges purse and cap
  before its lock, and with two consoles the late goal of `football_late` appears.
- The desk properties of the auction are checked and proved with one organizer
  session; two desks can break them.
- A bid that lands between `callPlayer`'s read and its write stays on the auctions row
  (its column was empty when read, so it is not written) and the next player opens
  with another lot's bidder; `StandingBidInTurn` stops at that overlap.
- `SettledInTurn`, `QualifiersInTurn` and `StartedInTurn` hold for requests in turn.
  With overlap a refill from an older read may put a side back, or change one of a
  match that was kicked off meanwhile. `OnePassSettles` says that the next
  result repairs every side that still waits.
- `DrawFair` asks for one match at a time on a ground with one to three grounds, matches
  of an hour, and rounds that fit their day, which in the run all of them do. A longer
  round runs into the next day's first match.
- What a reset bracket keeps is not claimed: a fixture that lost a side keeps its
  toss, a bye somebody sets to `scheduled` by hand stays so, and a list with byes
  cannot be drawn again, because a bye is a completed match.
- `PlacesRespected` is checked with an organizer who does not reinstate rejected
  entries (`StatusMoves`), since that path counts places outside the lock.
- `RefusedMoneyListed` speaks of entries and of refusals made by a returned error or inside
  the transaction. It leaves out, by the name of the request (`"invalid"`), the form that
  does not validate: see "Read in the code, and in no run".
- The cricket results are checked, with two consoles, until a request is overtaken; the
  totals and the length of an innings hold throughout.
- `RefusalKeepsLive` leaves out the profile fetch, whose catch compares no token,
  and a mistyped password, whose refusal is a 401 as well.
- `ChargedOnce` leaves out a tab that dies within the 400 ms before the draft timer
  has written the payment, after the device refused that write, or whose draft is
  thrown away because it is older than seven days when the page opens again. The model
  takes these steps and notes the payment in `told.lost`; in each of them the page opens
  a new checkout, although `PublicTeamRegisterPage.tsx:489` says "if this tab dies now,
  the payment survives".
- `ScoreComesBack` asks that requests end. The coin waits for the request its timer
  makes, and `apiRequest` sets no time limit, so with an API that takes the request and
  never answers the coin stays.
- `RoomCatchesUp` speaks of the copy of the room the page holds. A manager's page that
  has failed to fetch may still show its error screen, or flicker, over that copy.
- `CalledOnce` leaves out an API that serves two overlapping requests the other way
  round; then a play may be called again.
- `DoneIsShown` leaves out, of what the list shows, a handler that reloads the list for the filter it
  was clicked under after another was chosen.
- `KeypadRight` and `ChangesFit` speak of recordings over a copy that still is the
  match; what the API does with one that is not is Cricket's and Football's matter.

`ScoreFromLog`, `TotalsMatchLog`, `AccountsMatch`, `BidsTopUnderLock`,
`ParkedIsOwn` and `ReceiptClearsDraft` need no such condition.

### What the violation runs show

- `auction_resale`: a sale undone while its message is queued, then made again, is
  never announced: the skipped row still holds the dedupe key.
- `registration_stale`: a balance payment verified before cash was recorded is
  booked after it, over the fee.
- `football_late`: a goal judged playable before the whistle is written after it.
- `cricket_cancelled`: a match called off in its chase can be finished with a
  winner, against "A cancelled match is frozen".
- `session_lent`: a lent account that stops working while the profile is fetched is
  handled twice, by the event and by the catch; the second time there is no parked
  token left, and the admin's own session is thrown away with the lent one.

Each is a statement made by a comment in the code; `PROJECT.json` quotes it.

### Fairness

Nothing on the API's side is scheduled; every step waits for a person, and no
liveness is claimed there. `ChaseInTurn` states as an invariant the one "must
eventually" of scoring: a decided chase is closed in the very step that decides it.

On the client the browser schedules, and only its own steps are fair:

- `SessionFairness`: a redirect the router has been given is followed, and a request
  comes to an end (`fetch` resolves or rejects). No click is fair, nor is any
  particular outcome: an answer may fail every time.
- `BoardFairness`: the two `setTimeout`s of the display fire, and a request ends, with
  an answer or an error (`RequestEnds`; every one may fail). Nothing is assumed of
  the socket or the poll: `ScoreComesBack` is for a display cut off.
- `RoomFairness`: the interval goes on polling (weak), and of the fetches that keep
  being sent some get through (strong). With a network that fails every fetch for
  ever, no page could show the API's state.
- `DeskFairness`: every request ends. No checked property needs it.

`RoomCatchesUp` asks only of a room that has gone quiet (`<>[][FALSE]_api`): while
bids keep coming the page may always be one behind.

## 5. Theorems

Assumed: the named assumptions on constants of the module, and, where a theorem
says so, one of three more. `OneDesk`: all organizer requests come from one session.
`NoReinstating`: the organizer turns no refused entry back into one that holds a
place. `NothingForFree`: no player has the base price 0, which the API would accept
(`AuctionController.php:423`); `sellPlayer` takes `current_bid_amount ?: base_price`
(`:747`), so a standing bid of zero counts as none and the sale is made at the base
price of that moment, which nobody compared with the purse. Nothing is assumed about
how requests overlap; the theorems on `TurnSpec` claim their property until they do.

| Theorem | Statement |
|---|---|
| `AuctionProofs!TypeCorrect` | `Spec => []TypeOK` |
| `AuctionProofs!BidsAreTop` | `Spec => BidsTopUnderLock`, any workers in flight |
| `AuctionProofs!DiscountNeverRaises` | the second-round price never rises, nor falls below the floor it was above |
| `AuctionProofs!OneLotOnHammer`, `SquadsMatchSales`, `PaidSalesStand` | with `OneDesk`, the hammer, the squads and paid sales |
| `AuctionProofs!StandingBidTop`, `FieldedStay` | `TurnSpec => []StandingBidInTurn`, `[]FieldedInTurn`, any number of desks |
| `AuctionProofs!ImplementsBook` | with `NothingForFree`, `TurnSpec => BookInTurn`: in turn every step is a step of the abstract ledger or a stutter |
| `AuctionProofs!PurseHolds` | with `NothingForFree`, in turn nobody spends more than the purse and the leading team can pay its bid |
| `RegistrationProofs!TypeCorrect` | `Spec => []TypeOK` |
| `RegistrationProofs!AccountsBalance` | `Spec => []AccountsMatch`, any captains and desks |
| `RegistrationProofs!PaymentsSpentOnce` | `Spec => SpentForGood` |
| `RegistrationProofs!RefusedPaymentListed` | `Spec => RefusedMoneyListed` |
| `RegistrationProofs!PlacesHold` | with `OneDesk` and `NoReinstating`, `Spec => []PlacesRespected` |
| `FootballProofs!TypeCorrect` | `Spec => []TypeOK` |
| `FootballProofs!ScoreIsTheLog` | `Spec => []ScoreFromLog`, any consoles |
| `FootballProofs!SentOffForGood` | `Spec => []SentOffStaysOff`, any consoles |
| `FootballProofs!NothingEarly` | `Spec => []NothingBeforeKickOff` |
| `FootballProofs!ClockOnlyForward` | `Spec => ClockNeverBack` |
| `FootballProofs!ResultIsTheScores` | `TurnSpec => []ResultInTurn` |
| `CricketProofs!TypeCorrect` | `Spec => []TypeOK` |
| `CricketProofs!TotalsFromLog` | `Spec => []TotalsMatchLog`, any consoles |
| `CricketProofs!NoInningsRunsOn` | `Spec => []InningsWithin`, any consoles |
| `CricketProofs!TargetAlwaysStands` | `Spec => []TargetStands`, any consoles |
| `CricketProofs!SidesStay` | `Spec => SidesKept`, any consoles |
| `CricketProofs!WinnerStands`, `ChaseIsOver` | `TurnSpec => []WinnerInTurn`, `[]ChaseInTurn` |
| `FixtureProofs!EveryPairMeetsOnce` | for a table of any size, each two teams meet in one match of one round of the circle, nobody plays twice in a round, and an odd field sits one out in turn |
| `FixtureProofs!LeagueMeets` | for any field, a league is of days on which nobody plays twice, and in which each two teams meet once, or in a double round once at each end |
| `FixtureProofs!EveryGroupHasTwo`, `GroupsShare` | for any field and any number of groups asked for, the groups are disjoint, of two teams at least, differ by one at most, and the best seeds are apart |
| `FixtureProofs!BuildFair` | for any field, format and number of groups, the list drawn is fair, table and bracket |
| `BracketProofs!EveryDrawIsFair` | `Spec => []DrawFair`, any requests in flight |
| `BracketProofs!RefillSettles` | `Spec => []OnePassSettles`, any requests in flight |
| `BracketProofs!EveryRequestSettles` | `TurnSpec => []SettledInTurn` |
| `BracketProofs!StartedStays` | `TurnSpec => StartedInTurn` |
| `BracketProofs!QualifiersEarn` | `TurnSpec => []QualifiersInTurn` |
| `ClientProofs!ParkedStaysOwn` | `SessionSpec => []ParkedIsOwn` |
| `ClientProofs!RefusalsSpare` | `SessionSpec => RefusalKeepsLive` |
| `ClientProofs!NobodyChargedTwice`, `ReceiptLast` | `EntrySpec => []ChargedOnce`, `[]ReceiptClearsDraft` |
| `ClientProofs!KeypadNamesRight` | `CricketSpec => []KeypadRight` |
| `ClientProofs!ChangesReadRight` | `FootballSpec => []ChangesFit` |
| `ClientProofs!SheetsAreSound` | `SetupSpec => []SheetsSound` |
| `ClientProofs!CalledOutOnce` | `BoardSpec => []CalledOnce` |
| `ClientProofs!DoneShows` | `DeskSpec => []DoneIsShown`, every office page |
| `ClientProofs!EveryPageSound` | `ClientSpec` implies all eight invariants above that run `client` checks |

The arguments, by component. The properties
themselves are seldom inductive, because a `Commit` step writes
what its `Read` step decided; each invariant named here adds what makes it so.

*Auction.* `BidsTopUnderLock` follows from the types alone, because `CommitBid`
checks again under the lock; that is the point of the theorem. For one desk,
`DeskInv` adds `DeskView`, what the desk still knows of the rows it read (the hammer
is as it saw it, the lots are untouched), and `RowIdsUnique`, so that deleting a squad
row deletes one sale's. Bids preserve `DeskView` because they leave the hammer and
the pool alone; other desk requests do not exist under `OneDesk`.

*Auction in turn.* With any number of desks, `LotInv` says that one worker at most is
between its read and its write (`AtMostOne`), that what it read is what is stored
(`Seen`, beside `DeskView`), and that the standing bid is the highest of the lot
called last even once that lot is closed (`TopBid`), since an undone sale opens it
again. `PurseInv` carries the money along: apart from the lot, the leading team's
purchases leave its bid affordable (`Covered`), nobody has overspent
(`WithinPurse`), and a bid on its way is still affordable (`Payable`). From an
accepted bid to the sale, and past its undo, this is what the ledger's guard asks, so
every step of the auction is a purchase, an undone sale, a payment or a stutter of
the book. The sums are over the players a team has bought; `Priced` is where
`NothingForFree` enters.

*Registration.* The types are strengthened by what a request may hold on its way
(`Typed`): a refused submission that goes to the refund list names a payment, a
decision a status of the code. `SpentForGood` follows step by step;
`RefusedMoneyListed` from the fact that each path to an answer, but for that of a form
that does not validate, passes the refund list or the account. The accounts are a sum over the payments spent on a team;
`Booked` adds that a spent payment was captured, that a request carries the amount
captured with its payment (`Backed`), and that a team that is not there has neither
payments nor cash (`Clean`). `PlacesRespected` needs `Places`: besides the count, a change
of status on its way gives no place to an entry without one (`Honest`), which is
where `OneDesk` and `NoReinstating` come in. The captains' race needs no
assumption, because `createRegistration` counts under the lock.

*Football.* `Kicked` strengthens `NothingBeforeKickOff` by what a stale read proves
about the present: a match seen past its kick-off is still past it, and a request
that records, ends or reopens was judged on such a match. `Tallied` is the score as a
count over the log; `AllFresh` reads the sendings-off from the log the same way, and
an undo only shortens it. `ResultInv` is the result in turn: a console that has read
the match row still knows its status and winner, and what it brings was let through
on a match not finished, unless it undoes, reopens or cancels (`Current`).

*Cricket.* `TargetStands` is inductive over the types: what a request was judged on
does not matter, because `CommitBall` and `CommitSwitch` go by the innings the state
row is in under the lock, and `Undo` clears the target exactly when it leaves the
second innings. `SidesKept` needs that `cricketState` touches the sides only while
the log is empty. `Totalled` equates runs, wickets and balls with sums over the log;
what the last delivery adds, an undo takes away. `Fits` bounds an innings because
`CommitBall` turns or ends it in the step that fills it. For the results, `Sound` says
of the log that its second innings comes last, that every ball of the chase was
bowled while it could still go either way (`BowledOpen`), that a decided chase is over
(`Over`) and the winner named is the one the runs give (`Named`): an undo of the
deciding ball leaves exactly an undecided chase, so the match it reopens is open.

*Circle.* After r turns the i-th place of the circle holds `AtTurn(N, r, i)` (`WheelAt`): the
first stays, the others are r places on. Who faces whom is then arithmetic: the numbers
of two who face each other add up to 1 - 2r modulo N - 1, N - 1 is odd, so each sum
belongs to one turn, and the bye of an odd field is the pair with the empty place.

*Draw.* `Fair` says of a list, fixture by fixture, what `DrawFair` counts. For a table it
comes down to days of pairs (`Once`, `Each`, `Free`), which `Numbered` turns into
fixtures one for one (`FlatHolds`, `NumberedCells`); a group stage is the rounds of its
groups day by day (`GroupsMeet`). A row of the serpentine has one seat for every
group (`Seat`), so the rows that are full give each group one team and the last one at
most one more (`GroupSizes`); there are two full rows, since at most half as many groups
as teams are drawn, so `assignGroups`' fold of a group of one never runs, which is why
the model has none. In a bracket, doubling keeps the better half one to a pair and the best two at the head of the halves (`Sown`); the field
fills more than half of the slots (`HalfFits`), so each pair has a seed of the better
half, and the byes are those of the best. Undoing ties moves second sides only
(`Rearranged`); of the qualifiers one pair at most is tied and another can take its
second (`QualifiersSolvable`), so none is left. What is drawn is still there when
it is read: `FairInv` says that every row is a fixture of one of the draws as it was drawn
but for who has advanced (`FromLists`), and that of each list all or nothing is there
(`Whole`), which a draw needs of what it has read, too, since it deletes that and not what
is there by then. A refill writes no side of a table (`Kept`), a request a status and a
winner, so both stay true however requests overlap.

*Bracket.* A refill goes through the
rounds; `Settling` says that after the n-th the first n show what their sources say
and go on doing so, because no fixture has a source in its own round or a later one
(`LooksBack`). It needs nothing of what was there before, so requests may have overlapped
in any way. In turn, `TurnInv` adds that what a request has seen is what there is but
for tosses, which it may overtake (`Fresh`), and that only a request about to refill
leaves the bracket unsettled (`SettledBetween`). For the qualifiers, `Above` puts the
lines of a table in a strict total order, and a group has finitely many, because
every builder lists finitely many fixtures; so every place is taken, once, and fewer
than k lines are ahead of the k-th (`TableOrder`). Seeding and `AvoidSameGroupTies`
deal each place of each group to one slot (`SeedsOnce`, `TiesApart`). `QualInv` adds
that all rows are of one draw, and that a draw about to replace them has read them
all.

*Session.* `ParkedIsOwn` is strengthened by which tokens can be lent at all
(`Lendable`: never one for a super admin's account), for the token the page holds
(`OkPage`) and for those the requests under way were sent with (`OkCalls`).
`RefusalKeepsLive` follows step by step: only the answer to a form that was refused or
failed ends it (`EndedByAnswer`), and it goes back to what is parked (`BackToParked`).

*Entry wizard.* `EntryInv` says that one request at most is under way (`OneCall`) and
which columns of the page go with it (`Agrees`): while an entry is checked or paid
for, no payment waits for recovery; a submission carries the page's own payment.
`Waiting` then says a payment that waits is the page's, which recovers it or is
submitting it. `Held` is about the draft: a payment the page holds is in the draft the
timer is about to write or, unless the device refused the last one, in the draft that
is stored. So a tab that dies loses it only for one of the three reasons `TabDies`
notes, and in no other way.

*Consoles.* From its tap to the end of the fetch after it, one recording is under way
and the page is busy (`OneFlight`), so a ball that named the right players when it was
tapped still does when it arrives (`Right`); that is `KeypadInv`. The football page
does not keep the line-up but folds the log: `PitchIsPitch` shows that the player
named last in a change as coming on, or a starter never named, is who is on the pitch
after playing the changes one by one. `PitchInv` adds that what is tapped in the
dialog was listed by the copy it was tapped over.

*Team sheet.* `SetupInv`: the rows being edited are a sheet of the side chosen, its
players once each and a captain and a keeper at most (`SheetFits`), and so is
every copy fetched, every request and what the API holds. Swapping rows, ticking,
refetching and changing the side keep this; the default sheet has it because its ranks
are a bijection.

*Office pages.* Every lock has a call that will free it (`Freed`), a page that loads
has an answer coming that will be shown (`Loads`), and where answers are numbered, what is
coming, or else what is shown, has all that was done (`Current`). The argument goes by
the words a page is described in, not page by page.

*Display.* What is shown, the answers still to come and the match itself are looks at
one log in one order: a play missing from a look does not come back in a later one, and
keeps its place (`OneOrder`). Dropping answers and landing one only re-index that
order (`OrderKept`). A play called out is then one no later look can add.

*The pages together.* Each page's invariant fixes `page.at`, so a step of `ClientSpec`
is a step of the one page whose invariant holds.

Sums, counts and recursive functions are defined in the library by recursion, and the
library's induction theorems take an operator that the installed provers cannot
instantiate. `FiniteSums` replaces induction by a smallest counterexample
(`SmallestSet`, `SmallestNumber`), whose existence the library does give: if a sum did
not have some value for every finite set, there would be a least set for which it does
not. The rounds of the bracket and the log of the football console use the same, and so
do places in an order and the lists a draw builds.

The types of Registration, Football and Cricket are proved and no run repeats them.
Every safety property a passing run checks is a theorem. Only model-checked are the
liveness properties `ComesToRest`, `RoomCatchesUp` and `ScoreComesBack`, which are out
of this prover's reach, and the counterexamples.

## 6. Not modelled, and the plan

- *Of the bracket and the table*: see **Bracket** above. Cricket's table also counts
  a match called off, and its run rate would need the scores of every match.
- *Billing, notifications, support tickets.* Renewal against the daily sweep; worker
  crashes and retries, with "every queued message settles" under fairness of worker
  and schedule; replies against the sweep. Queueing, skipping and the dedupe key of
  a sold message are already in the auction.
- *Reset codes and token lifetimes*; the browser's side of recovery is in `Session`.
- *Records, posters, exports, statistics.* One row per request, or read-only output:
  nothing that outlives a request.
- *Several tabs of one browser*: they share storage and hear nothing of each other.

### Read in the code, and in no run

- *A paid entry whose form does not validate* (`TeamController.php:179-215`). The
  pre-check judges the form after the link, the window and the places, by an exception:
  `register` lists a payment for an error the pre-check *returns* (`:331-337`), and its
  catch (`:376`) is for a refusal inside the transaction. So a payment captured before
  terms were published, say, which makes `accept_terms` required (`:208`), is answered
  422 and is neither spent nor on the refund list until the captain sends it again with a
  form that validates. The comment above the rule says it is checked "before checkout
  opens, so nobody pays and is then turned away for an unticked box"; what is published
  in between is not seen. The model has this path. Not in it are three more ways past
  the list: a payment the gateway does not verify, because the fee was changed after
  the checkout or the gateway could not be reached (`:353`), a form without the
  payment's signature (`:348`), and a tournament that is gone.
- *The crease after a refetch* (`OrgLiveScorerPage.tsx:149-167`). The phone's crease and
  the fetched one are merged end by end: an end the server changed is adopted, the
  other stays as it is on the phone. A swap of ends on the phone while a refetch is
  under way that brings a new striker can therefore leave one batter at both ends, and
  `creaseReady` (`:525`) does not ask that the two differ. `KeypadRight` speaks of who
  may play the ball, not of which end he is at.
- *An old answer to the football console.* Its fetches carry no number: a stale log
  that lands late shows an earlier pitch, until the next fetch. `ChangesFit` is about
  changes confirmed over the match as it is.
- *A tournament every team has left.* With no approved team the bracket is not looked
  at at all; `SettledInTurn` and the theorem on it say so.
- *A bid of nothing* (`AuctionController.php:747`), see the assumption `NothingForFree`.
