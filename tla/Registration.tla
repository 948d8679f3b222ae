---------------------------- MODULE Registration ----------------------------
(***************************************************************************)
(* Team entries and the ground fee (TeamController, TournamentPayment-     *)
(* Service, PaymentGatewayService) for one tournament.                     *)
(*                                                                         *)
(* A captain pays at the gateway first and submits the entry afterwards;   *)
(* the submission is checked on plain reads and written in a transaction,  *)
(* so it is a Read... and a Commit... action (see Auction).  A submission  *)
(* may be repeated with the same payment: a retry after a lost response,   *)
(* or a double tap.  recordPayment reads and writes under the lock on the  *)
(* payment row and is one action.                                          *)
(***************************************************************************)
EXTENDS Integers, FiniteSets

CONSTANTS
    Team,         \* rows of the teams table that may come to exist
    Payment,      \* payments the gateway may capture
    Phone,        \* managers' mobile numbers
    Captain,      \* API workers serving the public and team managers
    Desk,         \* API workers serving the organizer
    NoTeam, NoPayment, NoPhone,
    MaxTeams,     \* tournament.max_teams
    Fee,          \* ground_fee, an even number
    StatusMoves   \* status changes the organizer makes, pairs <<from, to>>

HoldsPlace == {"pending", "changes_required", "approved", "suspended"}
TeamStatuses == HoldsPlace \union {"rejected", "withdrawn"}

ASSUME RegistrationAssumption ==
    /\ NoTeam \notin Team /\ NoPayment \notin Payment /\ NoPhone \notin Phone
    /\ MaxTeams \in Nat /\ Fee \in Nat /\ Fee % 2 = 0 /\ Fee > 0
    /\ StatusMoves \subseteq TeamStatuses \X TeamStatuses

VARIABLES
    open,       \* the registration link takes entries (RegistrationWindow)
    team,       \* teams rows: status and the manager's phone
    paid,       \* registration_payments.paid_amount of each team
    cash,       \* what the team's receipts show as collected by hand
    captured,   \* what each gateway payment was made for
    spent,      \* gateway_payments: the team a payment went to
    refunds,    \* payments on the organizer's refund list (audit log)
    request     \* what each worker has read and not yet written

vars == <<open, team, paid, cash, captured, spent, refunds, request>>

Worker == Captain \union Desk
Options == {"full", "partial"}

NoRow == [status |-> "absent", phone |-> NoPhone]
Unpaid == [kind |-> "none", team |-> NoTeam, amount |-> 0]
NoRequest == [op |-> "none", team |-> NoTeam, phone |-> NoPhone, payment |-> NoPayment,
              amount |-> 0, status |-> ""]

----------------------------------------------------------------------------

Exists(t) == team[t].status # "absent"
Holding == {t \in Team : team[t].status \in HoldsPlace}
Approved == {t \in Team : team[t].status = "approved"}

Half == Fee \div 2
EntryAmount(opt) == IF opt = "partial" THEN Half ELSE Fee

Remaining(t) == IF Fee > paid[t] THEN Fee - paid[t] ELSE 0

\* Half is only offered while it is less than what is due.
BalanceAmount(opt, due) == IF opt = "partial" /\ Half < due THEN Half ELSE due

\* verify(): the order was opened for this purpose, team and amount.
Verified(p, kind, t, amount) == captured[p] = [kind |-> kind, team |-> t, amount |-> amount]

Spent(p) == p # NoPayment /\ spent[p] # NoTeam

Idle(w) == request[w].op = "none"
Keep(w, r) == request' = [request EXCEPT ![w] = r]
Done(w) == Keep(w, NoRequest)
stored == <<open, team, paid, cash, captured, spent, refunds>>

----------------------------------------------------------------------------
(* The gateway: an order is opened and the captain pays it *)

PayEntry(p, opt) ==
    /\ open
    /\ captured[p] = Unpaid
    /\ captured' = [captured EXCEPT ![p] =
                       [kind |-> "entry", team |-> NoTeam, amount |-> EntryAmount(opt)]]
    /\ UNCHANGED <<open, team, paid, cash, spent, refunds, request>>

PayBalance(p, t, opt) ==
    /\ Exists(t) /\ Remaining(t) > 0
    /\ captured[p] = Unpaid
    /\ captured' = [captured EXCEPT ![p] =
                       [kind |-> "balance", team |-> t,
                        amount |-> BalanceAmount(opt, Remaining(t))]]
    /\ UNCHANGED <<open, team, paid, cash, spent, refunds, request>>

----------------------------------------------------------------------------
(* register *)

\* Mutant: withdrawn and rejected entries are not given back.
OnlyApprovedCount == Cardinality(Approved) < MaxTeams

PlaceFree == Cardinality(Holding) < MaxTeams

\* What the state of the tournament lets registrationPrecheck accept.  The form
\* itself is judged between the place and the phone: it validates, or the
\* submission is a ReadInvalid.
Accepted(phone) ==
    /\ open
    /\ PlaceFree
    /\ \A t \in Holding : team[t].phone # phone

\* p = NoPayment is an entry that pays at the ground.  A payment that has
\* been used answers with the registration it made, or is refused: nothing
\* is written.
ReadRegister(w, phone, p, opt) ==
    /\ Idle(w)
    /\ Accepted(phone)
    /\ p # NoPayment => Verified(p, "entry", NoTeam, EntryAmount(opt))
    /\ ~ Spent(p)
    /\ Keep(w, [NoRequest EXCEPT !.op = "register", !.phone = phone, !.payment = p,
                  !.amount = IF p = NoPayment THEN 0 ELSE EntryAmount(opt)])
    /\ UNCHANGED stored

\* An error RETURNED by the pre-check, for want of Accepted or for the roster of
\* a form that validates (squad size, jersey numbers, the organizer's plan), with
\* a genuine payment: recordOrphanedPayment finds it unspent and writes the audit
\* entry in its own statement.
ReadRefusal(w, phone, p, opt) ==
    /\ Idle(w)
    /\ Verified(p, "entry", NoTeam, EntryAmount(opt)) /\ ~ Spent(p)
    /\ Keep(w, [NoRequest EXCEPT !.op = "refund", !.phone = phone, !.payment = p])
    /\ UNCHANGED stored

\* The form does not validate: the pre-check throws, past the refund list and past
\* register's own catch, and the captain is answered 422.
ReadInvalid(w, p, opt) ==
    /\ Idle(w)
    /\ open /\ PlaceFree
    /\ Verified(p, "entry", NoTeam, EntryAmount(opt)) /\ ~ Spent(p)
    /\ Keep(w, [NoRequest EXCEPT !.op = "invalid", !.payment = p])
    /\ UNCHANGED stored

\* Nothing is written; the payment may come again with a form that validates.
AnswerInvalid(w) ==
    /\ request[w].op = "invalid"
    /\ Done(w)
    /\ UNCHANGED stored

\* Refused inside the transaction: a payment that already bought an entry is
\* a replay, any other goes on the refund list.
ReadOrphan(w) ==
    LET r == request[w] IN
    /\ r.op = "refused"
    /\ IF Spent(r.payment) THEN Done(w) ELSE Keep(w, [r EXCEPT !.op = "refund"])
    /\ UNCHANGED stored

\* Mutant: the audit entry is not written.
ForgetRefund(p) == refunds

Refunded(p) == refunds \union {p}

CommitRefund(w) ==
    /\ request[w].op = "refund"
    /\ refunds' = Refunded(request[w].payment)
    /\ Done(w)
    /\ UNCHANGED <<open, team, paid, cash, captured, spent>>

\* Mutant: the conflict on the payment id is overwritten.
SpendOverwrites(p) == TRUE

\* spend(): INSERT OR IGNORE on the unique payment id says whether it was new.
SpendFirst(p) == ~ Spent(p)

HasReference(p) == p # NoPayment

\* createRegistration: places are counted again under the lock on the link,
\* then the payment is spent, then the rows are written.
CommitRegister(w) ==
    LET r == request[w]
        p == r.payment
        enter(t) ==
            /\ team' = [team EXCEPT ![t] = [status |-> "pending", phone |-> r.phone]]
            /\ paid' = [paid EXCEPT ![t] = r.amount]
            /\ spent' = IF p = NoPayment THEN spent ELSE [spent EXCEPT ![p] = t]
            /\ Done(w)
    IN
    /\ r.op = "register"
    /\ \/ /\ PlaceFree /\ SpendFirst(p)
          /\ \E t \in Team : ~ Exists(t) /\ enter(t)
       \/ /\ ~ (PlaceFree /\ SpendFirst(p))
          /\ IF HasReference(p) THEN Keep(w, [r EXCEPT !.op = "refused"]) ELSE Done(w)
          /\ UNCHANGED <<team, paid, spent>>
    /\ UNCHANGED <<open, cash, captured, refunds>>

----------------------------------------------------------------------------
(* payBalance *)

\* Reads what is due, works out the amount and verifies the payment for it.
ReadBalance(w, t, p, opt) ==
    LET due == Remaining(t) IN
    /\ Idle(w)
    /\ Exists(t) /\ due > 0
    /\ Verified(p, "balance", t, BalanceAmount(opt, due))
    /\ Keep(w, [NoRequest EXCEPT !.op = "balance", !.team = t, !.payment = p,
                               !.amount = BalanceAmount(opt, due)])
    /\ UNCHANGED stored

\* Mutant: what is paid replaces what was paid before.
Replaced(t, x) == x

\* processPayment adds to what the row holds, under its lock.
Added(t, x) == paid[t] + x

CommitBalance(w) ==
    LET r == request[w] IN
    /\ r.op = "balance"
    /\ IF SpendFirst(r.payment)
       THEN /\ spent' = [spent EXCEPT ![r.payment] = r.team]
            /\ paid' = [paid EXCEPT ![r.team] = Added(r.team, r.amount)]
       ELSE UNCHANGED <<spent, paid>>
    /\ Done(w)
    /\ UNCHANGED <<open, team, cash, captured, refunds>>

----------------------------------------------------------------------------
(* The organizer *)

\* recordPayment: cash counted at the ground, never more than is owed.
RecordPayment(w, t, x) ==
    /\ Idle(w)
    /\ Exists(t)
    /\ x <= Remaining(t)
    /\ paid' = [paid EXCEPT ![t] = Added(t, x)]
    /\ cash' = [cash EXCEPT ![t] = @ + x]
    /\ UNCHANGED <<open, team, captured, spent, refunds, request>>

\* updateStatus: taking a place back needs one free among the other entries.
ReadTeamStatus(w, t, s) ==
    LET was == team[t].status IN
    /\ Idle(w)
    /\ Exists(t)
    /\ <<was, s>> \in StatusMoves /\ was # s
    /\ IF s \in HoldsPlace /\ was \notin HoldsPlace
       THEN Cardinality(Holding \ {t}) < MaxTeams
       ELSE s = "approved" => Cardinality(Approved \ {t}) < MaxTeams
    /\ Keep(w, [NoRequest EXCEPT !.op = "status", !.team = t, !.status = s])
    /\ UNCHANGED stored

CommitTeamStatus(w) ==
    LET r == request[w] IN
    /\ r.op = "status"
    /\ team' = [team EXCEPT ![r.team].status = r.status]
    /\ Done(w)
    /\ UNCHANGED <<open, paid, cash, captured, spent, refunds>>

\* The closing date passes, the tournament is cancelled, or it reopens.
TurnWindow ==
    /\ open' = ~ open
    /\ UNCHANGED <<team, paid, cash, captured, spent, refunds, request>>

----------------------------------------------------------------------------

Init ==
    /\ open = TRUE
    /\ team = [t \in Team |-> NoRow]
    /\ paid = [t \in Team |-> 0]
    /\ cash = [t \in Team |-> 0]
    /\ captured = [p \in Payment |-> Unpaid]
    /\ spent = [p \in Payment |-> NoTeam]
    /\ refunds = {}
    /\ request = [w \in Worker |-> NoRequest]

CaptainNext(w) ==
    \/ CommitRegister(w) \/ ReadOrphan(w) \/ CommitRefund(w) \/ CommitBalance(w)
    \/ AnswerInvalid(w)
    \/ \E phone \in Phone, p \in Payment \union {NoPayment}, opt \in Options :
          ReadRegister(w, phone, p, opt)
    \/ \E phone \in Phone, p \in Payment, opt \in Options : ReadRefusal(w, phone, p, opt)
    \/ \E p \in Payment, opt \in Options : ReadInvalid(w, p, opt)
    \/ \E t \in Team, p \in Payment, opt \in Options : ReadBalance(w, t, p, opt)

DeskNext(w) ==
    \/ CommitTeamStatus(w)
    \/ \E t \in Team, x \in 1..Fee : RecordPayment(w, t, x)
    \/ \E t \in Team, s \in TeamStatuses : ReadTeamStatus(w, t, s)

Next ==
    \/ \E w \in Captain : CaptainNext(w)
    \/ \E w \in Desk : DeskNext(w)
    \/ \E p \in Payment, opt \in Options : PayEntry(p, opt)
    \/ \E p \in Payment, t \in Team, opt \in Options : PayBalance(p, t, opt)
    \/ TurnWindow

Spec == Init /\ [][Next]_vars
=============================================================================
