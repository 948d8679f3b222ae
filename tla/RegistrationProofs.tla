------------------------- MODULE RegistrationProofs -------------------------
(***************************************************************************)
(* Theorems about team entries and the ground fee, for any captains, desks, *)
(* teams, payments, phones, number of places and fee.                      *)
(***************************************************************************)
EXTENDS RegistrationSafety, FiniteSums, FiniteSetTheorems, TLAPS

Ops == {"none", "register", "refused", "refund", "invalid", "balance", "status"}
Fields == [op: Ops, team: Team \union {NoTeam}, phone: Phone \union {NoPhone},
           payment: Payment \union {NoPayment}, amount: Nat, status: TeamStatuses \union {""}]

\* Only a request with a payment is refused or gone on with as a refund, and a
\* change of status names the new one.
Request == {r \in Fields : /\ r.op \in {"refused", "refund"} => r.payment \in Payment
                           /\ r.op = "status" => r.status \in TeamStatuses}

Typed == TypeOK /\ request \in [Worker -> Request]

----------------------------------------------------------------------------
(* Types *)

LEMMA AmountsTyped ==
    /\ Half \in Nat /\ Fee \in Nat
    /\ \A opt \in Options : EntryAmount(opt) \in Nat
BY RegistrationAssumption DEF Half, EntryAmount

LEMMA RemainingTyped ==
    ASSUME Typed, NEW t \in Team PROVE Remaining(t) \in Nat
<1>1. paid[t] \in Nat /\ Fee \in Nat
  BY RegistrationAssumption DEF Typed, TypeOK
<1> QED BY <1>1 DEF Remaining

LEMMA BalanceTyped ==
    ASSUME NEW opt \in Options, NEW due \in Nat PROVE BalanceAmount(opt, due) \in Nat
BY AmountsTyped DEF BalanceAmount

LEMMA NoRequestTyped == NoRequest \in Request /\ NoRequest.op = "none"
BY DEF NoRequest, Request, Fields, Ops

LEMMA KeepTyped ==
    ASSUME Typed, NEW w \in Worker, NEW r \in Request, Keep(w, r)
    PROVE  request' \in [Worker -> Request]
BY DEF Typed, TypeOK, Keep, Request, Fields, Ops

LEMMA DoneTyped ==
    ASSUME Typed, NEW w \in Worker, Done(w) PROVE request' \in [Worker -> Request]
BY NoRequestTyped, KeepTyped DEF Done

LEMMA ReadTyped ==
    ASSUME Typed, NEW w \in Worker, NEW r \in Request, Keep(w, r), UNCHANGED stored
    PROVE  Typed'
<1>1. request' \in [Worker -> Request]
  BY KeepTyped
<1> QED BY <1>1 DEF Typed, TypeOK, stored, Request, Fields, Ops

LEMMA PayTyped ==
    ASSUME Typed,
           \/ \E p \in Payment, opt \in Options : PayEntry(p, opt)
           \/ \E p \in Payment, t \in Team, opt \in Options : PayBalance(p, t, opt)
    PROVE  Typed'
<1>1. ASSUME NEW p \in Payment, NEW opt \in Options, PayEntry(p, opt) PROVE Typed'
  <2>1. [kind |-> "entry", team |-> NoTeam, amount |-> EntryAmount(opt)]
           \in [kind: {"none", "entry", "balance"}, team: Team \union {NoTeam}, amount: Nat]
    BY AmountsTyped
  <2> QED BY <1>1, <2>1 DEF PayEntry, Typed, TypeOK
<1>2. ASSUME NEW p \in Payment, NEW t \in Team, NEW opt \in Options, PayBalance(p, t, opt)
      PROVE  Typed'
  <2>1. [kind |-> "balance", team |-> t, amount |-> BalanceAmount(opt, Remaining(t))]
           \in [kind: {"none", "entry", "balance"}, team: Team \union {NoTeam}, amount: Nat]
    BY RemainingTyped, BalanceTyped
  <2> QED BY <1>2, <2>1 DEF PayBalance, Typed, TypeOK
<1> QED BY <1>1, <1>2

LEMMA CaptainReadTyped ==
    ASSUME Typed, NEW w \in Worker,
           \/ \E phone \in Phone, p \in Payment \union {NoPayment}, opt \in Options :
                 ReadRegister(w, phone, p, opt)
           \/ \E phone \in Phone, p \in Payment, opt \in Options : ReadRefusal(w, phone, p, opt)
           \/ \E p \in Payment, opt \in Options : ReadInvalid(w, p, opt)
           \/ \E t \in Team, p \in Payment, opt \in Options : ReadBalance(w, t, p, opt)
    PROVE  Typed'
<1>1. ASSUME NEW phone \in Phone, NEW p \in Payment \union {NoPayment}, NEW opt \in Options,
             ReadRegister(w, phone, p, opt)
      PROVE  Typed'
  <2> DEFINE x == IF p = NoPayment THEN 0 ELSE EntryAmount(opt)
             r == [NoRequest EXCEPT !.op = "register", !.phone = phone, !.payment = p, !.amount = x]
  <2>1. x \in Nat
    BY AmountsTyped
  <2>2. Keep(w, r) /\ UNCHANGED stored
    BY <1>1 DEF ReadRegister
  <2> HIDE DEF x
  <2>3. r \in Request
    BY <2>1, NoRequestTyped DEF Request, Fields, Ops
  <2> HIDE DEF r
  <2> QED BY <2>2, <2>3, ReadTyped
<1>2. ASSUME NEW phone \in Phone, NEW p \in Payment, NEW opt \in Options, ReadRefusal(w, phone, p, opt)
      PROVE  Typed'
  <2> DEFINE r == [NoRequest EXCEPT !.op = "refund", !.phone = phone, !.payment = p]
  <2>1. Keep(w, r) /\ UNCHANGED stored
    BY <1>2 DEF ReadRefusal
  <2>2. r \in Request
    BY NoRequestTyped DEF Request, Fields, Ops
  <2> HIDE DEF r
  <2> QED BY <2>1, <2>2, ReadTyped
<1>3. ASSUME NEW t \in Team, NEW p \in Payment, NEW opt \in Options, ReadBalance(w, t, p, opt)
      PROVE  Typed'
  <2> DEFINE x == BalanceAmount(opt, Remaining(t))
             r == [NoRequest EXCEPT !.op = "balance", !.team = t, !.payment = p, !.amount = x]
  <2>1. x \in Nat
    BY RemainingTyped, BalanceTyped
  <2>2. Keep(w, r) /\ UNCHANGED stored
    BY <1>3 DEF ReadBalance
  <2> HIDE DEF x
  <2>3. r \in Request
    BY <2>1, NoRequestTyped DEF Request, Fields, Ops
  <2> HIDE DEF r
  <2> QED BY <2>2, <2>3, ReadTyped
<1>4. ASSUME NEW p \in Payment, NEW opt \in Options, ReadInvalid(w, p, opt) PROVE Typed'
  <2> DEFINE r == [NoRequest EXCEPT !.op = "invalid", !.payment = p]
  <2>1. Keep(w, r) /\ UNCHANGED stored
    BY <1>4 DEF ReadInvalid
  <2>2. r \in Request
    BY NoRequestTyped DEF Request, Fields, Ops
  <2> HIDE DEF r
  <2> QED BY <2>1, <2>2, ReadTyped
<1> QED BY <1>1, <1>2, <1>3, <1>4

LEMMA CaptainCommitTyped ==
    ASSUME Typed, NEW w \in Worker,
           \/ CommitRegister(w) \/ ReadOrphan(w) \/ CommitRefund(w) \/ CommitBalance(w)
           \/ AnswerInvalid(w)
    PROVE  Typed'
<1> DEFINE r == request[w]
<1>0. /\ r \in Request /\ r.payment \in Payment \union {NoPayment} /\ r.amount \in Nat
      /\ r.team \in Team \union {NoTeam} /\ r.phone \in Phone \union {NoPhone}
  BY DEF Typed, TypeOK, Request, Fields, Ops
<1>1. CASE CommitRegister(w)
  <2>1. UNCHANGED <<open, cash, captured, refunds>>
    BY <1>1 DEF CommitRegister
  <2>2. ASSUME NEW t \in Team,
               team' = [team EXCEPT ![t] = [status |-> "pending", phone |-> r.phone]],
               paid' = [paid EXCEPT ![t] = r.amount],
               spent' = IF r.payment = NoPayment THEN spent ELSE [spent EXCEPT ![r.payment] = t],
               Done(w)
        PROVE  Typed'
    <3>1. [status |-> "pending", phone |-> r.phone]
             \in [status: TeamStatuses \union {"absent"}, phone: Phone \union {NoPhone}]
      BY <1>0 DEF TeamStatuses, HoldsPlace
    <3>2. request' \in [Worker -> Request]
      BY <2>2, DoneTyped
    <3>3. team' \in [Team -> [status: TeamStatuses \union {"absent"}, phone: Phone \union {NoPhone}]]
      BY <2>2, <3>1 DEF Typed, TypeOK
    <3>4. paid' \in [Team -> Nat] /\ spent' \in [Payment -> Team \union {NoTeam}]
      BY <1>0, <2>2 DEF Typed, TypeOK
    <3> QED BY <2>1, <3>2, <3>3, <3>4 DEF Typed, TypeOK, Request, Fields, Ops
  <2>3. CASE UNCHANGED <<team, paid, spent>>
             /\ \/ Done(w)
                \/ r.payment # NoPayment /\ Keep(w, [r EXCEPT !.op = "refused"])
    <3>1. r.payment # NoPayment => [r EXCEPT !.op = "refused"] \in Request
      BY <1>0 DEF Request, Fields, Ops
    <3>2. request' \in [Worker -> Request]
      BY <2>3, <3>1, DoneTyped, KeepTyped
    <3> QED BY <2>1, <2>3, <3>2 DEF Typed, TypeOK, Request, Fields, Ops
  <2> QED BY <1>1, <2>2, <2>3 DEF CommitRegister, HasReference
<1>2. CASE ReadOrphan(w)
  <2>1. [r EXCEPT !.op = "refund"] \in Request
    BY <1>0, <1>2 DEF ReadOrphan, Request, Fields, Ops
  <2> QED BY <1>2, <2>1, NoRequestTyped, ReadTyped DEF ReadOrphan, Done
<1>3. CASE CommitRefund(w)
  <2>1. request' \in [Worker -> Request]
    BY <1>3, DoneTyped DEF CommitRefund
  <2>2. refunds' \subseteq Payment
    BY <1>0, <1>3 DEF CommitRefund, Refunded, Typed, TypeOK, Request
  <2>3. UNCHANGED <<open, team, paid, cash, captured, spent>>
    BY <1>3 DEF CommitRefund
  <2> QED BY <2>1, <2>2, <2>3 DEF Typed, TypeOK, Request, Fields, Ops
<1>4. CASE CommitBalance(w)
  <2>1. request' \in [Worker -> Request]
    BY <1>4, DoneTyped DEF CommitBalance
  <2>2. spent' \in [Payment -> Team \union {NoTeam}]
    BY <1>0, <1>4 DEF CommitBalance, Typed, TypeOK
  <2>3. paid' \in [Team -> Nat]
    <3>1. CASE r.team \in Team
      <4>0. paid \in [Team -> Nat] /\ paid[r.team] \in Nat
        BY <3>1 DEF Typed, TypeOK
      <4>1. Added(r.team, r.amount) \in Nat
        BY <1>0, <4>0 DEF Added
      <4> QED BY <1>4, <3>1, <4>1 DEF CommitBalance, Typed, TypeOK
    <3>2. CASE r.team \notin Team
      BY <1>4, <3>2 DEF CommitBalance, Typed, TypeOK
    <3> QED BY <3>1, <3>2
  <2> QED BY <1>4, <2>1, <2>2, <2>3 DEF CommitBalance, Typed, TypeOK, Request, Fields, Ops
<1>5. CASE AnswerInvalid(w)
  BY <1>5, NoRequestTyped, ReadTyped DEF AnswerInvalid, Done
<1> QED BY <1>1, <1>2, <1>3, <1>4, <1>5

LEMMA DeskTyped ==
    ASSUME Typed, NEW w \in Worker,
           \/ CommitTeamStatus(w)
           \/ \E t \in Team, x \in 1..Fee : RecordPayment(w, t, x)
           \/ \E t \in Team, s \in TeamStatuses : ReadTeamStatus(w, t, s)
    PROVE  Typed'
<1>1. CASE CommitTeamStatus(w)
  <2> DEFINE r == request[w]
  <2>1. request' \in [Worker -> Request]
    BY <1>1, DoneTyped DEF CommitTeamStatus
  <2>2. UNCHANGED <<open, paid, cash, captured, spent, refunds>>
        /\ team' = [team EXCEPT ![r.team].status = r.status]
    BY <1>1 DEF CommitTeamStatus
  <2>3. r.status \in TeamStatuses
    BY <1>1 DEF CommitTeamStatus, Typed, TypeOK, Request, Fields, Ops
  <2>4. team' \in [Team -> [status: TeamStatuses \union {"absent"}, phone: Phone \union {NoPhone}]]
    <3> DEFINE Rows == [status: TeamStatuses \union {"absent"}, phone: Phone \union {NoPhone}]
    <3>0. team \in [Team -> Rows]
      BY DEF Typed, TypeOK
    <3>1. \A s \in TeamStatuses : \A row \in Rows : [row EXCEPT !.status = s] \in Rows
      OBVIOUS
    <3> HIDE DEF Rows
    <3>3. \A s \in TeamStatuses, t \in Team : [team[t] EXCEPT !.status = s] \in Rows
      BY <3>0, <3>1
    <3>4. [team EXCEPT ![r.team].status = r.status] \in [Team -> Rows]
      BY <2>3, <3>0, <3>3
    <3> QED BY <2>2, <3>4 DEF Rows
  <2> QED BY <2>1, <2>2, <2>4 DEF Typed, TypeOK, Request, Fields, Ops
<1>2. ASSUME NEW t \in Team, NEW x \in 1..Fee, RecordPayment(w, t, x) PROVE Typed'
  <2>1. x \in Nat /\ paid[t] \in Nat /\ cash[t] \in Nat
    <3>1. x \in Nat
      BY RegistrationAssumption
    <3>2. paid \in [Team -> Nat] /\ cash \in [Team -> Nat]
      BY DEF Typed, TypeOK
    <3> QED BY <3>1, <3>2
  <2>2. paid[t] + x \in Nat /\ cash[t] + x \in Nat
    BY <2>1
  <2>3. paid' \in [Team -> Nat] /\ cash' \in [Team -> Nat]
    BY <1>2, <2>2 DEF RecordPayment, Added, Typed, TypeOK
  <2>4. UNCHANGED <<open, team, captured, spent, refunds, request>>
    BY <1>2 DEF RecordPayment
  <2> QED BY <2>3, <2>4 DEF Typed, TypeOK
<1>3. ASSUME NEW t \in Team, NEW s \in TeamStatuses, ReadTeamStatus(w, t, s) PROVE Typed'
  <2> DEFINE r == [NoRequest EXCEPT !.op = "status", !.team = t, !.status = s]
  <2>1. Keep(w, r) /\ UNCHANGED stored
    BY <1>3 DEF ReadTeamStatus
  <2>2. r \in Request
    BY NoRequestTyped DEF Request, Fields, Ops
  <2> HIDE DEF r
  <2> QED BY <2>1, <2>2, ReadTyped
<1> QED BY <1>1, <1>2, <1>3

LEMMA TypedInit == Init => Typed
<1> SUFFICES ASSUME Init PROVE Typed
  OBVIOUS
<1>1. team \in [Team -> [status: TeamStatuses \union {"absent"}, phone: Phone \union {NoPhone}]]
  BY DEF Init, NoRow
<1>2. captured \in [Payment -> [kind: {"none", "entry", "balance"},
                                team: Team \union {NoTeam}, amount: Nat]]
  BY DEF Init, Unpaid
<1>3. request \in [Worker -> Request]
  BY NoRequestTyped DEF Init
<1>4. paid \in [Team -> Nat] /\ cash \in [Team -> Nat] /\ spent \in [Payment -> Team \union {NoTeam}]
  BY DEF Init
<1> QED BY <1>1, <1>2, <1>3, <1>4 DEF Init, Typed, TypeOK, Request, Fields, Ops

LEMMA TypedNext == ASSUME Typed, [Next]_vars PROVE Typed'
<1>1. CASE UNCHANGED vars
  BY <1>1 DEF vars, Typed, TypeOK
<1>2. ASSUME NEW w \in Captain, CaptainNext(w) PROVE Typed'
  <2>1. w \in Worker
    BY DEF Worker
  <2> QED BY <1>2, <2>1, CaptainReadTyped, CaptainCommitTyped DEF CaptainNext
<1>3. ASSUME NEW w \in Desk, DeskNext(w) PROVE Typed'
  <2>1. w \in Worker
    BY DEF Worker
  <2> QED BY <1>3, <2>1, DeskTyped DEF DeskNext
<1>4. CASE TurnWindow
  BY <1>4 DEF TurnWindow, Typed, TypeOK
<1> QED BY <1>1, <1>2, <1>3, <1>4, PayTyped DEF Next

\* Every reachable state is well typed: the link, the entries, the accounts, the
\* payments and what every request holds (TeamController, TournamentPaymentService).
THEOREM TypeCorrect == Spec => []TypeOK
<1>1. Spec => []Typed
  BY TypedInit, TypedNext, PTL DEF Spec
<1>2. Typed => TypeOK
  BY DEF Typed
<1> QED BY <1>1, <1>2, PTL

----------------------------------------------------------------------------
(* Payments *)

LEMMA SpentStep ==
    ASSUME Typed, Next
    PROVE  /\ \A p \in Payment : Spent(p) => spent'[p] = spent[p]
           /\ refunds \subseteq refunds'
<1>1. ASSUME NEW w \in Worker, CommitRegister(w)
      PROVE  /\ \A p \in Payment : Spent(p) => spent'[p] = spent[p]
             /\ refunds \subseteq refunds'
  <2>1. refunds' = refunds
    BY <1>1 DEF CommitRegister
  <2>2. \/ spent' = spent
        \/ ~ Spent(request[w].payment)
           /\ \E t \in Team : spent' = [spent EXCEPT ![request[w].payment] = t]
    BY <1>1 DEF CommitRegister, SpendFirst
  <2> QED BY <2>1, <2>2 DEF Typed, TypeOK
<1>2. ASSUME NEW w \in Worker, CommitBalance(w)
      PROVE  /\ \A p \in Payment : Spent(p) => spent'[p] = spent[p]
             /\ refunds \subseteq refunds'
  <2>1. refunds' = refunds
    BY <1>2 DEF CommitBalance
  <2>2. \/ spent' = spent
        \/ ~ Spent(request[w].payment)
           /\ spent' = [spent EXCEPT ![request[w].payment] = request[w].team]
    BY <1>2 DEF CommitBalance, SpendFirst
  <2> QED BY <2>1, <2>2 DEF Typed, TypeOK
<1>3. ASSUME NEW w \in Worker, CommitRefund(w)
      PROVE  spent' = spent /\ refunds \subseteq refunds'
  BY <1>3 DEF CommitRefund, Refunded
<1>4. ASSUME NEW w \in Worker,
             \/ ReadOrphan(w) \/ CommitTeamStatus(w)
             \/ \E phone \in Phone, p \in Payment \union {NoPayment}, opt \in Options :
                   ReadRegister(w, phone, p, opt)
             \/ \E phone \in Phone, p \in Payment, opt \in Options : ReadRefusal(w, phone, p, opt)
             \/ \E p \in Payment, opt \in Options : ReadInvalid(w, p, opt)
             \/ AnswerInvalid(w)
             \/ \E t \in Team, p \in Payment, opt \in Options : ReadBalance(w, t, p, opt)
             \/ \E t \in Team, x \in 1..Fee : RecordPayment(w, t, x)
             \/ \E t \in Team, s \in TeamStatuses : ReadTeamStatus(w, t, s)
      PROVE  spent' = spent /\ refunds' = refunds
  BY <1>4 DEF ReadOrphan, CommitTeamStatus, ReadRegister, ReadRefusal, ReadInvalid,
              AnswerInvalid, ReadBalance, RecordPayment, ReadTeamStatus, stored
<1>5. ASSUME \/ TurnWindow \/ \E p \in Payment, opt \in Options : PayEntry(p, opt)
             \/ \E p \in Payment, t \in Team, opt \in Options : PayBalance(p, t, opt)
      PROVE  spent' = spent /\ refunds' = refunds
  BY <1>5 DEF TurnWindow, PayEntry, PayBalance
<1>6. ASSUME NEW w \in Captain, CaptainNext(w)
      PROVE  /\ \A p \in Payment : Spent(p) => spent'[p] = spent[p]
             /\ refunds \subseteq refunds'
  <2>1. w \in Worker
    BY DEF Worker
  <2> QED BY <1>1, <1>2, <1>3, <1>4, <1>6, <2>1 DEF CaptainNext
<1>7. ASSUME NEW w \in Desk, DeskNext(w) PROVE spent' = spent /\ refunds' = refunds
  <2>1. w \in Worker
    BY DEF Worker
  <2> QED BY <1>4, <1>7, <2>1 DEF DeskNext
<1> QED BY <1>5, <1>6, <1>7 DEF Next

\* A gateway payment is spent once and for good, on one team, and nothing leaves the
\* refund list, whatever submissions, retries and instalments overlap (spend's unique
\* payment id, recordOrphanedPayment).
THEOREM PaymentsSpentOnce == Spec => SpentForGood
<1>1. Typed /\ [Next]_vars
         => [/\ \A p \in Payment : Spent(p) => spent'[p] = spent[p]
             /\ refunds \subseteq refunds']_vars
  BY SpentStep
<1> QED BY <1>1, TypedInit, TypedNext, PTL DEF Spec, SpentForGood

\* What RefusedMoneyListed asks of one step.
Listed ==
    \A w \in Captain :
        /\ request[w].op \in {"register", "refused", "refund"}
        /\ request[w].payment # NoPayment
        /\ request'[w].op = "none"
        => request[w].payment \in refunds' \/ spent'[request[w].payment] # NoTeam

\* A step that answers no entry of another worker.
LEMMA Others ==
    ASSUME Typed, NEW v \in Worker, NEW r, Keep(v, r), NEW w \in Worker, w # v
    PROVE  request'[w] = request[w]
BY DEF Typed, Keep

LEMMA ListedStep == ASSUME Typed, Next PROVE Listed
<1> SUFFICES ASSUME NEW w \in Captain, request[w].op \in {"register", "refused", "refund"},
                    request[w].payment # NoPayment, request'[w].op = "none"
             PROVE  request[w].payment \in refunds' \/ spent'[request[w].payment] # NoTeam
  BY DEF Listed
<1> DEFINE p == request[w].payment
<1>1. w \in Worker /\ p \in Payment /\ request \in [Worker -> Request] /\ request[w].op # "none"
  BY DEF Worker, Typed, TypeOK
<1>2. CASE CommitRegister(w)
  <2>1. CASE \E t \in Team : spent' = IF p = NoPayment THEN spent ELSE [spent EXCEPT ![p] = t]
    BY <1>1, <2>1, RegistrationAssumption DEF Typed, TypeOK
  <2>2. CASE Keep(w, [request[w] EXCEPT !.op = "refused"])
    <3>1. request'[w] = [request[w] EXCEPT !.op = "refused"]
      BY <1>1, <2>2 DEF Keep
    <3>2. request'[w].op = "refused"
      BY <1>1, <3>1 DEF Request, Fields
    <3> QED BY <3>2
  <2> QED BY <1>2, <2>1, <2>2 DEF CommitRegister, HasReference
<1>3. CASE ReadOrphan(w)
  <2>1. CASE Spent(p)
    BY <1>3, <2>1 DEF ReadOrphan, stored, Spent
  <2>2. CASE ~ Spent(p)
    <3>1. request'[w] = [request[w] EXCEPT !.op = "refund"]
      BY <1>1, <1>3, <2>2 DEF ReadOrphan, Keep
    <3>2. request'[w].op = "refund"
      BY <1>1, <3>1 DEF Request, Fields
    <3> QED BY <3>2
  <2> QED BY <2>1, <2>2
<1>4. CASE CommitRefund(w)
  BY <1>4 DEF CommitRefund, Refunded
<1>5. CASE CommitBalance(w) \/ CommitTeamStatus(w) \/ AnswerInvalid(w)
  BY <1>5 DEF CommitBalance, CommitTeamStatus, AnswerInvalid
<1>6. ASSUME request' = request PROVE FALSE
  BY <1>1, <1>6
<1>7. ASSUME Idle(w) PROVE FALSE
  BY <1>1, <1>7 DEF Idle
<1>8. ASSUME NEW v \in Worker, v # w, NEW r, Keep(v, r) PROVE FALSE
  <2>1. request'[w] = request[w]
    BY <1>1, <1>8, Others
  <2> QED BY <1>1, <2>1
<1>9. ASSUME NEW v \in Worker, v # w, CaptainNext(v) \/ DeskNext(v) PROVE FALSE
  <2>1. request' = request \/ \E r : Keep(v, r)
    BY <1>9 DEF CaptainNext, DeskNext, CommitRegister, ReadOrphan, CommitRefund, CommitBalance,
                ReadRegister, ReadRefusal, ReadInvalid, AnswerInvalid, ReadBalance,
                CommitTeamStatus, RecordPayment, ReadTeamStatus, Done
  <2> QED BY <1>6, <1>8, <1>9, <2>1
<1>10. CASE CaptainNext(w)
  <2>1. ASSUME \/ \E phone \in Phone, q \in Payment \union {NoPayment}, opt \in Options :
                     ReadRegister(w, phone, q, opt)
               \/ \E phone \in Phone, q \in Payment, opt \in Options : ReadRefusal(w, phone, q, opt)
               \/ \E q \in Payment, opt \in Options : ReadInvalid(w, q, opt)
               \/ \E t \in Team, q \in Payment, opt \in Options : ReadBalance(w, t, q, opt)
        PROVE  FALSE
    BY <1>7, <2>1 DEF ReadRegister, ReadRefusal, ReadInvalid, ReadBalance
  <2> QED BY <1>2, <1>3, <1>4, <1>5, <1>10, <2>1 DEF CaptainNext
<1>11. CASE DeskNext(w)
  <2>1. ASSUME \/ \E t \in Team, x \in 1..Fee : RecordPayment(w, t, x)
               \/ \E t \in Team, s \in TeamStatuses : ReadTeamStatus(w, t, s)
        PROVE  FALSE
    BY <1>7, <2>1 DEF RecordPayment, ReadTeamStatus
  <2> QED BY <1>5, <1>11, <2>1 DEF DeskNext
<1>12. CASE \/ TurnWindow \/ \E q \in Payment, opt \in Options : PayEntry(q, opt)
            \/ \E q \in Payment, t \in Team, opt \in Options : PayBalance(q, t, opt)
  <2>1. request' = request
    BY <1>12 DEF TurnWindow, PayEntry, PayBalance
  <2> QED BY <1>6, <2>1
<1>13. \A v \in Captain \union Desk : v \in Worker
  BY DEF Worker
<1> QED BY <1>9, <1>10, <1>11, <1>12, <1>13 DEF Next

\* An entry made with a verified payment that is accepted, refused by an error the
\* pre-check returns, or refused inside the transaction is answered only once the
\* payment is on a team or on the organizer's refund list, whatever others did in
\* between (register, recordOrphanedPayment).  A form that does not validate is
\* answered without either (ReadInvalid): nothing is claimed of it.
THEOREM RefusedPaymentListed == Spec => RefusedMoneyListed
<1>1. Typed /\ [Next]_vars
         => [\A w \in Captain :
               /\ request[w].op \in {"register", "refused", "refund"}
               /\ request[w].payment # NoPayment
               /\ request'[w].op = "none"
               => request[w].payment \in refunds' \/ spent'[request[w].payment] # NoTeam]_vars
  BY ListedStep DEF Listed
<1> QED BY <1>1, TypedInit, TypedNext, PTL DEF Spec, RefusedMoneyListed

----------------------------------------------------------------------------
(* Accounts *)

\* A request that is about to spend a payment carries the amount that was captured
\* with it, and a balance goes to a team that is there.
Backed(w) ==
    LET r == request[w] IN
    /\ r.op \in {"register", "balance"} =>
          IF r.payment = NoPayment THEN r.amount = 0
          ELSE captured[r.payment] # Unpaid /\ captured[r.payment].amount = r.amount
    /\ r.op = "balance" => r.payment \in Payment /\ r.team \in Team /\ Exists(r.team)

\* A team that is not there has no receipts and no payments.
Clean(t) == ~ Exists(t) => SpentOn(t) = {} /\ cash[t] = 0

Booked ==
    /\ AccountsMatch
    /\ \A t \in Team : IsFiniteSet(SpentOn(t)) /\ Clean(t)
    /\ \A p \in Payment : spent[p] # NoTeam => captured[p] # Unpaid
    /\ \A w \in Worker : Backed(w)

\* A sum over what was spent on a team moves only with what is spent on it.
LEMMA CollectedSame ==
    ASSUME NEW t \in Team, IsFiniteSet(SpentOn(t)), SpentOn(t)' = SpentOn(t),
           \A p \in SpentOn(t) : captured'[p] = captured[p]
    PROVE  Collected(t)' = Collected(t)
<1> DEFINE f == [p \in Payment |-> captured[p].amount]
           g == [p \in Payment |-> captured'[p].amount]
<1>1. \A p \in SpentOn(t) : f[p] = g[p] BY DEF SpentOn
<1>2. SumFunctionOnSet(f, SpentOn(t)) = SumFunctionOnSet(g, SpentOn(t))
  <2> HIDE DEF f, g
  <2> QED BY <1>1, SumSame
<1> QED BY <1>2 DEF Collected

LEMMA CollectedMore ==
    ASSUME Typed, NEW t \in Team, IsFiniteSet(SpentOn(t)), NEW p \in Payment, p \notin SpentOn(t),
           SpentOn(t)' = SpentOn(t) \union {p}, captured' = captured
    PROVE  Collected(t)' = captured[p].amount + Collected(t)
<1> DEFINE f == [q \in Payment |-> captured[q].amount]
<1>1. \A q \in SpentOn(t) \union {p} : f[q] \in Nat BY DEF Typed, TypeOK, SpentOn
<1>2. SumFunctionOnSet(f, SpentOn(t) \union {p}) = f[p] + SumFunctionOnSet(f, SpentOn(t))
  <2> HIDE DEF f
  <2> QED BY <1>1, SumAdd
<1> QED BY <1>2 DEF Collected

LEMMA CollectedTyped ==
    ASSUME Typed, NEW t \in Team, IsFiniteSet(SpentOn(t)) PROVE Collected(t) \in Nat
<1> DEFINE f == [q \in Payment |-> captured[q].amount]
<1>1. \A q \in SpentOn(t) : f[q] \in Nat BY DEF Typed, TypeOK, SpentOn
<1> HIDE DEF f
<1> QED BY <1>1, SumTyped DEF Collected, f

LEMMA BackedDone ==
    ASSUME Typed, NEW w \in Worker, request'[w].op \notin {"register", "balance"}
    PROVE  Backed(w)'
BY DEF Backed

\* Neither accounts, payments nor entries change.
LEMMA BookedKept ==
    ASSUME Typed, Booked, UNCHANGED <<paid, cash, captured, spent>>,
           \A t \in Team : Exists(t) => Exists(t)',
           \A w \in Worker : request'[w] = request[w] \/ Backed(w)'
    PROVE  Booked'
<1>1. \A t \in Team : SpentOn(t)' = SpentOn(t) BY DEF SpentOn
<1>2. \A t \in Team : Collected(t)' = Collected(t) BY <1>1, CollectedSame DEF Booked
<1>3. \A w \in Worker : Backed(w)' BY DEF Booked, Backed
<1> QED BY <1>1, <1>2, <1>3 DEF Booked, AccountsMatch, Clean

LEMMA PayBooked ==
    ASSUME Typed, Booked, NEW p \in Payment, captured[p] = Unpaid, NEW x, x # Unpaid,
           captured' = [captured EXCEPT ![p] = x],
           UNCHANGED <<team, paid, cash, spent, request>>
    PROVE  Booked'
<1>1. \A q \in Payment : q # p => captured'[q] = captured[q] BY DEF Typed, TypeOK
<1>2. spent[p] = NoTeam /\ captured'[p] = x BY DEF Booked, Typed, TypeOK
<1>3. \A t \in Team : SpentOn(t)' = SpentOn(t) /\ p \notin SpentOn(t)
  BY <1>2, RegistrationAssumption DEF SpentOn
<1>4. \A t \in Team : Collected(t)' = Collected(t)
  BY <1>1, <1>3, CollectedSame DEF Booked, SpentOn
<1>5. \A w \in Worker : Backed(w)'
  <2> SUFFICES ASSUME NEW w \in Worker PROVE Backed(w)' OBVIOUS
  <2>1. request[w].payment \in Payment \union {NoPayment} BY DEF Typed, TypeOK
  <2>2. Backed(w) /\ request' = request /\ team' = team BY DEF Booked
  <2> QED BY <1>1, <2>1, <2>2 DEF Backed, Exists
<1>6. \A q \in Payment : spent'[q] # NoTeam => captured'[q] # Unpaid
  BY <1>1, <1>2 DEF Booked
<1>7. AccountsMatch' BY <1>4 DEF Booked, AccountsMatch
<1>8. \A t \in Team : IsFiniteSet(SpentOn(t))' /\ Clean(t)' BY <1>3 DEF Booked, Clean, Exists
<1> QED BY <1>5, <1>6, <1>7, <1>8 DEF Booked

\* A payment is spent on a team, and the team's account grows by what was captured.
LEMMA SpendBooked ==
    ASSUME Typed, Booked, NEW u \in Team, NEW p \in Payment, ~ Spent(p),
           captured[p] # Unpaid, spent' = [spent EXCEPT ![p] = u],
           NEW x \in Nat, x = captured[p].amount,
           paid' = [paid EXCEPT ![u] = cash[u] + Collected(u) + x],
           \A t \in Team : Exists(t)' <=> (Exists(t) \/ t = u),
           UNCHANGED <<cash, captured>>, \A w \in Worker : Backed(w)',
           ~ Exists(u) => cash[u] = 0
    PROVE  Booked'
<1>0. spent[p] = NoTeam BY RegistrationAssumption DEF Spent
<1>s. \A q \in Payment : spent'[q] = IF q = p THEN u ELSE spent[q] BY DEF Typed, TypeOK
<1>1. \A t \in Team : t # u => SpentOn(t)' = SpentOn(t)
  BY <1>0, <1>s, RegistrationAssumption DEF SpentOn
<1>2. SpentOn(u)' = SpentOn(u) \union {p} /\ p \notin SpentOn(u)
  <2>1. \A q : q \in SpentOn(u)' <=> q \in SpentOn(u) \union {p}
    BY <1>s DEF SpentOn
  <2>2. p \notin SpentOn(u) BY <1>0, RegistrationAssumption DEF SpentOn
  <2> QED BY <2>1, <2>2
<1>3. \A t \in Team : IsFiniteSet(SpentOn(t)) BY DEF Booked
<1>4. \A t \in Team : t # u => Collected(t)' = Collected(t)
  BY <1>1, <1>3, CollectedSame
<1>5. Collected(u)' = x + Collected(u) BY <1>2, <1>3, CollectedMore
<1>6. \A t \in Team : IsFiniteSet(SpentOn(t)')
  BY <1>1, <1>2, <1>3, FS_AddElement
<1>7. AccountsMatch'
  <2> SUFFICES ASSUME NEW t \in Team PROVE paid'[t] = cash'[t] + Collected(t)'
    BY DEF AccountsMatch
  <2>1. CASE t = u
    <3>1. Collected(u) \in Nat /\ cash[u] \in Nat
      BY <1>3, CollectedTyped DEF Typed, TypeOK
    <3>2. paid'[u] = cash[u] + Collected(u) + x BY DEF Typed, TypeOK
    <3> QED BY <1>5, <2>1, <3>1, <3>2
  <2>2. CASE t # u
    BY <1>4, <2>2 DEF Booked, AccountsMatch, Typed, TypeOK
  <2> QED BY <2>1, <2>2
<1>8. \A t \in Team : Clean(t)' BY <1>1 DEF Booked, Clean
<1>9. \A q \in Payment : spent'[q] # NoTeam => captured'[q] # Unpaid
  BY DEF Booked, Typed, TypeOK
<1> QED BY <1>6, <1>7, <1>8, <1>9 DEF Booked

LEMMA BookedCaptain ==
    ASSUME Typed, Booked, NEW v \in Captain, CaptainNext(v)
    PROVE  Booked'
<1> DEFINE r == request[v]
<1>0. v \in Worker /\ r \in Request /\ r.payment \in Payment \union {NoPayment} /\ r.amount \in Nat
      /\ request \in [Worker -> Request] /\ Backed(v)
  BY DEF Worker, Typed, Request, Fields, Booked
<1>d. ASSUME Done(v) PROVE request'[v].op = "none" /\ \A w \in Worker : w # v => request'[w] = request[w]
  BY <1>0, <1>d, NoRequestTyped DEF Done, Keep
<1>e. ASSUME Done(v), UNCHANGED captured, \A t \in Team : Exists(t) => Exists(t)'
      PROVE  \A w \in Worker : Backed(w)'
  BY <1>d, <1>e DEF Booked, Backed
<1>1. CASE CommitRegister(v)
  <2>1. UNCHANGED <<open, cash, captured, refunds>> BY <1>1 DEF CommitRegister
  <2>2. ASSUME NEW t \in Team, ~ Exists(t), SpendFirst(r.payment),
               team' = [team EXCEPT ![t] = [status |-> "pending", phone |-> r.phone]],
               paid' = [paid EXCEPT ![t] = r.amount],
               spent' = IF r.payment = NoPayment THEN spent ELSE [spent EXCEPT ![r.payment] = t],
               Done(v)
        PROVE  Booked'
    <3>1. Exists(t)' /\ \A u \in Team : u # t => (Exists(u)' <=> Exists(u))
      BY <2>2 DEF Exists, Typed, TypeOK
    <3>2. \A w \in Worker : Backed(w)' BY <1>e, <2>1, <2>2, <3>1
    <3>3. SpentOn(t) = {} /\ cash[t] = 0 BY <2>2 DEF Booked, Clean
    <3>4. Collected(t) = 0 BY <3>3, SumEmpty DEF Collected
    <3>5. CASE r.payment = NoPayment
      <4>1. r.amount = 0 BY <1>0, <1>1, <3>5 DEF Backed, CommitRegister
      <4>2. paid[t] = 0 BY <3>3, <3>4 DEF Booked, AccountsMatch
      <4>3. UNCHANGED <<paid, cash, captured, spent>>
        BY <2>1, <2>2, <3>5, <4>1, <4>2 DEF Typed, TypeOK
      <4>4. \A u \in Team : SpentOn(u)' = SpentOn(u) BY <4>3 DEF SpentOn
      <4>5. \A u \in Team : Collected(u)' = Collected(u) BY <4>4, <4>3, CollectedSame DEF Booked
      <4> QED BY <3>1, <3>2, <4>3, <4>4, <4>5 DEF Booked, AccountsMatch, Clean
    <3>6. CASE r.payment # NoPayment
      <4>1. captured[r.payment] # Unpaid /\ captured[r.payment].amount = r.amount
        BY <1>0, <1>1, <3>6 DEF Backed, CommitRegister
      <4>2. r.payment \in Payment /\ ~ Spent(r.payment) /\ spent' = [spent EXCEPT ![r.payment] = t]
        BY <1>0, <2>2, <3>6 DEF SpendFirst
      <4>3. paid' = [paid EXCEPT ![t] = cash[t] + Collected(t) + r.amount]
        <5>1. cash[t] + Collected(t) + r.amount = r.amount BY <1>0, <3>3, <3>4
        <5> QED BY <2>2, <5>1
      <4>4. \A u \in Team : Exists(u)' <=> (Exists(u) \/ u = t) BY <3>1
      <4> QED BY <1>0, <2>1, <3>2, <3>3, <4>1, <4>2, <4>3, <4>4, SpendBooked
    <3> QED BY <3>5, <3>6
  <2>3. CASE UNCHANGED <<team, paid, spent>>
             /\ \/ Done(v)
                \/ Keep(v, [r EXCEPT !.op = "refused"])
    <3>1. request'[v].op \notin {"register", "balance"}
      BY <1>0, <2>3, NoRequestTyped DEF Done, Keep, Request, Fields
    <3>2. \A w \in Worker : w # v => request'[w] = request[w]
      BY <1>0, <2>3 DEF Done, Keep
    <3> QED BY <2>1, <2>3, <3>1, <3>2, BackedDone, BookedKept, <1>0 DEF Exists
  <2> QED BY <1>1, <2>2, <2>3 DEF CommitRegister, HasReference
<1>2. CASE CommitBalance(v)
  <2>1. Done(v) /\ UNCHANGED <<open, team, cash, captured, refunds>>
    BY <1>2 DEF CommitBalance
  <2>2. \A t \in Team : Exists(t)' <=> Exists(t) BY <2>1 DEF Exists
  <2>3. \A w \in Worker : Backed(w)' BY <1>e, <2>1, <2>2
  <2>4. CASE ~ SpendFirst(r.payment)
    <3>1. UNCHANGED <<spent, paid>> BY <1>2, <2>4 DEF CommitBalance
    <3> QED BY <2>1, <2>2, <2>3, <3>1, BookedKept
  <2>5. CASE SpendFirst(r.payment)
    <3>1. /\ r.payment \in Payment /\ r.team \in Team /\ Exists(r.team)
          /\ captured[r.payment] # Unpaid /\ captured[r.payment].amount = r.amount
      BY <1>0, <1>2, RegistrationAssumption DEF Backed, CommitBalance
    <3>2. spent' = [spent EXCEPT ![r.payment] = r.team]
          /\ paid' = [paid EXCEPT ![r.team] = Added(r.team, r.amount)]
      BY <1>2, <2>5 DEF CommitBalance
    <3>3. Added(r.team, r.amount) = cash[r.team] + Collected(r.team) + r.amount
      BY <3>1 DEF Added, Booked, AccountsMatch
    <3>4. \A t \in Team : Exists(t)' <=> (Exists(t) \/ t = r.team) BY <2>2, <3>1
    <3> QED BY <1>0, <2>1, <2>3, <2>5, <3>1, <3>2, <3>3, <3>4, SpendBooked DEF SpendFirst
  <2> QED BY <2>4, <2>5
<1>3. CASE ReadOrphan(v) \/ CommitRefund(v) \/ AnswerInvalid(v)
  <2>1. UNCHANGED <<team, paid, cash, captured, spent>>
    BY <1>3 DEF ReadOrphan, CommitRefund, AnswerInvalid, stored
  <2>2. request'[v].op \notin {"register", "balance"}
    BY <1>0, <1>3, NoRequestTyped
       DEF ReadOrphan, CommitRefund, AnswerInvalid, Done, Keep, Request, Fields
  <2>3. \A w \in Worker : w # v => request'[w] = request[w]
    BY <1>0, <1>3 DEF ReadOrphan, CommitRefund, AnswerInvalid, Done, Keep
  <2> QED BY <1>0, <2>1, <2>2, <2>3, BackedDone, BookedKept DEF Exists
<1>4. ASSUME NEW q \in Request, Keep(v, q), UNCHANGED stored,
             q.op \in {"register", "balance"} =>
                IF q.payment = NoPayment THEN q.amount = 0
                ELSE captured[q.payment] # Unpaid /\ captured[q.payment].amount = q.amount,
             q.op = "balance" => q.payment \in Payment /\ q.team \in Team /\ Exists(q.team)
      PROVE  Booked'
  <2>1. request'[v] = q /\ \A w \in Worker : w # v => request'[w] = request[w]
    BY <1>0, <1>4 DEF Keep
  <2>2. UNCHANGED <<team, paid, cash, captured, spent>> BY <1>4 DEF stored
  <2>3. Backed(v)' BY <1>4, <2>1, <2>2 DEF Backed, Exists
  <2> QED BY <2>1, <2>2, <2>3, BookedKept DEF Exists
<1>5. ASSUME NEW phone \in Phone, NEW p \in Payment \union {NoPayment}, NEW opt \in Options,
             ReadRegister(v, phone, p, opt)
      PROVE  Booked'
  <2> DEFINE x == IF p = NoPayment THEN 0 ELSE EntryAmount(opt)
             q == [NoRequest EXCEPT !.op = "register", !.phone = phone, !.payment = p, !.amount = x]
  <2>1. x \in Nat /\ (p = NoPayment => x = 0) /\ (p # NoPayment => x = EntryAmount(opt))
    BY AmountsTyped
  <2>2. Keep(v, q) /\ UNCHANGED stored /\ (p # NoPayment => Verified(p, "entry", NoTeam, EntryAmount(opt)))
    BY <1>5 DEF ReadRegister
  <2>3. p # NoPayment => captured[p] # Unpaid /\ captured[p].amount = EntryAmount(opt)
    BY <2>2 DEF Verified, Unpaid
  <2> HIDE DEF x
  <2>4. q \in Request /\ q.op = "register" /\ q.payment = p /\ q.amount = x
    BY <2>1, NoRequestTyped DEF Request, Fields, Ops
  <2> HIDE DEF q
  <2> QED BY <1>4, <2>1, <2>2, <2>3, <2>4
<1>6. ASSUME NEW phone \in Phone, NEW p \in Payment, NEW opt \in Options, ReadRefusal(v, phone, p, opt)
      PROVE  Booked'
  <2> DEFINE q == [NoRequest EXCEPT !.op = "refund", !.phone = phone, !.payment = p]
  <2>1. Keep(v, q) /\ UNCHANGED stored BY <1>6 DEF ReadRefusal
  <2>2. q \in Request /\ q.op = "refund" BY NoRequestTyped DEF Request, Fields, Ops
  <2> HIDE DEF q
  <2> QED BY <1>4, <2>1, <2>2
<1>7. ASSUME NEW t \in Team, NEW p \in Payment, NEW opt \in Options, ReadBalance(v, t, p, opt)
      PROVE  Booked'
  <2> DEFINE x == BalanceAmount(opt, Remaining(t))
             q == [NoRequest EXCEPT !.op = "balance", !.team = t, !.payment = p, !.amount = x]
  <2>1. x \in Nat BY RemainingTyped, BalanceTyped
  <2>2. Keep(v, q) /\ UNCHANGED stored /\ Exists(t) /\ Verified(p, "balance", t, x)
    BY <1>7 DEF ReadBalance
  <2>3. captured[p] # Unpaid /\ captured[p].amount = x
    <3> HIDE DEF x
    <3> QED BY <2>2 DEF Verified, Unpaid
  <2> HIDE DEF x
  <2>4. q \in Request /\ q.op = "balance" /\ q.payment = p /\ q.amount = x /\ q.team = t
    BY <2>1, NoRequestTyped DEF Request, Fields, Ops
  <2>5. p # NoPayment BY RegistrationAssumption
  <2> HIDE DEF q
  <2> QED BY <1>4, <2>2, <2>3, <2>4, <2>5
<1>8. ASSUME NEW p \in Payment, NEW opt \in Options, ReadInvalid(v, p, opt) PROVE Booked'
  <2> DEFINE q == [NoRequest EXCEPT !.op = "invalid", !.payment = p]
  <2>1. Keep(v, q) /\ UNCHANGED stored BY <1>8 DEF ReadInvalid
  <2>2. q \in Request /\ q.op = "invalid" BY NoRequestTyped DEF Request, Fields, Ops
  <2> HIDE DEF q
  <2> QED BY <1>4, <2>1, <2>2
<1> QED BY <1>1, <1>2, <1>3, <1>5, <1>6, <1>7, <1>8 DEF CaptainNext

LEMMA BookedDesk ==
    ASSUME Typed, Booked, NEW v \in Desk, DeskNext(v)
    PROVE  Booked'
<1>0. v \in Worker /\ request \in [Worker -> Request] BY DEF Worker, Typed
<1>1. CASE CommitTeamStatus(v)
  <2>1. UNCHANGED <<paid, cash, captured, spent>> /\ Done(v) BY <1>1 DEF CommitTeamStatus
  <2>2. request'[v].op = "none" /\ \A w \in Worker : w # v => request'[w] = request[w]
    BY <1>0, <2>1, NoRequestTyped DEF Done, Keep
  <2>3. \A t \in Team : Exists(t) => Exists(t)'
    <3> DEFINE s == request[v].status
               u == request[v].team
               Rows == [status: TeamStatuses \union {"absent"}, phone: Phone \union {NoPhone}]
    <3>1. s \in TeamStatuses /\ "absent" \notin TeamStatuses
      BY <1>0, <1>1 DEF CommitTeamStatus, Request, TeamStatuses, HoldsPlace
    <3>2. team' = [team EXCEPT ![u].status = s] BY <1>1 DEF CommitTeamStatus
    <3>3. team \in [Team -> Rows] BY DEF Typed, TypeOK
    <3> HIDE DEF s, u
    <3> QED BY <3>1, <3>2, <3>3 DEF Exists
  <2> QED BY <1>0, <2>1, <2>2, <2>3, BackedDone, BookedKept
<1>2. ASSUME NEW t \in Team, NEW x \in 1..Fee, RecordPayment(v, t, x) PROVE Booked'
  <2>1. /\ paid' = [paid EXCEPT ![t] = paid[t] + x] /\ cash' = [cash EXCEPT ![t] = cash[t] + x]
        /\ UNCHANGED <<team, captured, spent, request>> /\ Exists(t)
    BY <1>2 DEF RecordPayment, Added
  <2>2. \A u \in Team : SpentOn(u)' = SpentOn(u) BY <2>1 DEF SpentOn
  <2>3. \A u \in Team : Collected(u)' = Collected(u) BY <2>1, <2>2, CollectedSame DEF Booked
  <2>4. AccountsMatch'
    <3> SUFFICES ASSUME NEW u \in Team PROVE paid'[u] = cash'[u] + Collected(u)'
      BY DEF AccountsMatch
    <3>1. x \in Int BY RegistrationAssumption
    <3>2. cash[u] \in Nat /\ cash \in [Team -> Nat] /\ paid \in [Team -> Nat]
      BY DEF Typed, TypeOK
    <3>3. Collected(u) \in Nat BY CollectedTyped DEF Booked
    <3>4. paid[u] = cash[u] + Collected(u) BY DEF Booked, AccountsMatch
    <3>5. CASE u = t
      <4>1. paid'[u] = paid[u] + x /\ cash'[u] = cash[u] + x BY <2>1, <3>2, <3>5
      <4> QED BY <2>3, <3>1, <3>2, <3>3, <3>4, <4>1
    <3>6. CASE u # t
      <4>1. paid'[u] = paid[u] /\ cash'[u] = cash[u] BY <2>1, <3>2, <3>6
      <4> QED BY <2>3, <3>4, <4>1
    <3> QED BY <3>5, <3>6
  <2>5. \A u \in Team : Clean(u)' BY <2>1, <2>2 DEF Booked, Clean, Exists, Typed, TypeOK
  <2>6. \A w \in Worker : Backed(w)' BY <2>1 DEF Booked, Backed, Exists
  <2> QED BY <2>1, <2>2, <2>4, <2>5, <2>6 DEF Booked
<1>3. ASSUME NEW t \in Team, NEW s \in TeamStatuses, ReadTeamStatus(v, t, s) PROVE Booked'
  <2> DEFINE q == [NoRequest EXCEPT !.op = "status", !.team = t, !.status = s]
  <2>1. Keep(v, q) /\ UNCHANGED stored BY <1>3 DEF ReadTeamStatus
  <2>2. q.op = "status" BY NoRequestTyped DEF Request, Fields, Ops
  <2> HIDE DEF q
  <2>3. request'[v].op = "status" /\ \A w \in Worker : w # v => request'[w] = request[w]
    BY <1>0, <2>1, <2>2 DEF Keep
  <2> QED BY <1>0, <2>1, <2>3, BackedDone, BookedKept DEF Exists, stored
<1> QED BY <1>1, <1>2, <1>3 DEF DeskNext

LEMMA BookedNext == ASSUME Typed, Booked, [Next]_vars PROVE Booked'
<1>1. CASE UNCHANGED vars BY <1>1, BookedKept DEF vars, Exists
<1>2. CASE TurnWindow BY <1>2, BookedKept DEF TurnWindow, Exists
<1>3. ASSUME NEW p \in Payment, NEW opt \in Options, PayEntry(p, opt) PROVE Booked'
  <2> DEFINE x == [kind |-> "entry", team |-> NoTeam, amount |-> EntryAmount(opt)]
  <2>1. x # Unpaid BY DEF Unpaid
  <2>2. /\ captured[p] = Unpaid /\ captured' = [captured EXCEPT ![p] = x]
        /\ UNCHANGED <<team, paid, cash, spent, request>>
    BY <1>3 DEF PayEntry
  <2> HIDE DEF x
  <2> QED BY <2>1, <2>2, PayBooked
<1>4. ASSUME NEW p \in Payment, NEW t \in Team, NEW opt \in Options, PayBalance(p, t, opt)
      PROVE  Booked'
  <2> DEFINE x == [kind |-> "balance", team |-> t, amount |-> BalanceAmount(opt, Remaining(t))]
  <2>1. x # Unpaid BY DEF Unpaid
  <2>2. /\ captured[p] = Unpaid /\ captured' = [captured EXCEPT ![p] = x]
        /\ UNCHANGED <<team, paid, cash, spent, request>>
    BY <1>4 DEF PayBalance
  <2> HIDE DEF x
  <2> QED BY <2>1, <2>2, PayBooked
<1> QED BY <1>1, <1>2, <1>3, <1>4, BookedCaptain, BookedDesk DEF Next

LEMMA BookedInit == Init => Booked
<1> SUFFICES ASSUME Init PROVE Booked OBVIOUS
<1>1. \A t \in Team : SpentOn(t) = {} BY RegistrationAssumption DEF Init, SpentOn
<1>2. \A t \in Team : Collected(t) = 0 BY <1>1, SumEmpty DEF Collected
<1>3. \A w \in Worker : Backed(w) BY NoRequestTyped DEF Init, Backed
<1> QED BY <1>1, <1>2, <1>3, FS_EmptySet DEF Init, Booked, AccountsMatch, Clean

\* Every rupee on a team's account is cash on a receipt or a payment captured for it,
\* each counted once, for any fee, any payments and any overlap of entries, retries,
\* instalments and cash records (createRegistration, processPayment, recordPayment).
THEOREM AccountsBalance == Spec => []AccountsMatch
<1>1. Spec => [](Typed /\ Booked)
  BY TypedInit, TypedNext, BookedInit, BookedNext, PTL DEF Spec
<1>2. Booked => AccountsMatch BY DEF Booked
<1> QED BY <1>1, <1>2, PTL

----------------------------------------------------------------------------
(* Places *)

\* One organizer at work, who does not take back an entry that was turned away.
OneDesk == (\A v, w \in Desk : v = w) /\ Desk \intersect Captain = {}
NoReinstating == \A was, s \in TeamStatuses :
                    <<was, s>> \in StatusMoves /\ s \in HoldsPlace => was \in HoldsPlace

\* A change of status on its way gives no place to an entry that has none.
Honest(w) ==
    request[w].op = "status" /\ request[w].status \in HoldsPlace =>
        request[w].team \in Team /\ team[request[w].team].status \in HoldsPlace

Places == IsFiniteSet(Holding) /\ PlacesRespected /\ \A w \in Desk : Honest(w)

\* Nothing about the entries changes.
LEMMA PlacesKept ==
    ASSUME Typed, Places, team' = team,
           \A w \in Desk : request'[w] = request[w] \/ request'[w].op # "status"
    PROVE  Places'
BY DEF Places, Honest, Holding, PlacesRespected

LEMMA CaptainKeeps ==
    ASSUME Typed, OneDesk, NEW v \in Captain, NEW r, Keep(v, r), NEW w \in Desk
    PROVE  request'[w] = request[w]
<1>1. v \in Worker /\ w \in Worker /\ v # w
  BY DEF Worker, OneDesk
<1> QED BY <1>1, Others

LEMMA RegisterPlaces ==
    ASSUME Typed, Places, OneDesk, NEW v \in Captain, CommitRegister(v)
    PROVE  Places'
<1>1. \A w \in Desk : request'[w] = request[w]
  <2>1. \E r : Keep(v, r)
    BY DEF CommitRegister, Done
  <2> QED BY <2>1, CaptainKeeps
<1>2. CASE team' = team
  BY <1>1, <1>2, PlacesKept
<1>3. ASSUME PlaceFree, NEW t \in Team, ~ Exists(t),
             team' = [team EXCEPT ![t] = [status |-> "pending", phone |-> request[v].phone]]
      PROVE  Places'
  <2>1. t \notin Holding
    BY <1>3 DEF Exists, Holding, HoldsPlace
  <2>2. /\ \A u \in Team : u # t => team'[u] = team[u]
        /\ team'[t].status \in HoldsPlace
    BY <1>3 DEF Typed, TypeOK, HoldsPlace
  <2>3. Holding' = Holding \union {t}
    BY <2>2 DEF Holding
  <2>4. /\ IsFiniteSet(Holding \union {t})
        /\ Cardinality(Holding \union {t}) = Cardinality(Holding) + 1
        /\ Cardinality(Holding) \in Nat
    BY <2>1, FS_AddElement, FS_CardinalityType DEF Places
  <2>5. Cardinality(Holding) + 1 <= MaxTeams
    BY <1>3, <2>4, RegistrationAssumption DEF PlaceFree
  <2>6. IsFiniteSet(Holding') /\ PlacesRespected'
    BY <2>3, <2>4, <2>5 DEF PlacesRespected
  <2>7. \A w \in Desk : Honest(w)'
    <3> SUFFICES ASSUME NEW w \in Desk, request[w].op = "status", request[w].status \in HoldsPlace
                 PROVE  request[w].team \in Team /\ team'[request[w].team].status \in HoldsPlace
      BY <1>1 DEF Honest
    <3>1. request[w].team \in Team /\ team[request[w].team].status \in HoldsPlace
      BY DEF Places, Honest
    <3> QED BY <2>2, <3>1
  <2> QED BY <2>6, <2>7 DEF Places
<1> QED BY <1>2, <1>3 DEF CommitRegister

LEMMA StatusPlaces ==
    ASSUME Typed, Places, OneDesk, NEW v \in Desk, CommitTeamStatus(v)
    PROVE  Places'
<1> DEFINE r == request[v]
<1>1. team' = [team EXCEPT ![r.team].status = r.status] /\ Done(v) /\ r.op = "status"
  BY DEF CommitTeamStatus
<1>2. \A t \in Team : team'[t].status = IF t = r.team THEN r.status ELSE team[t].status
  <2> DEFINE x == r.status
             u == r.team
  <2>1. team' = [team EXCEPT ![u].status = x]
    BY <1>1
  <2>2. team \in [Team -> [status: TeamStatuses \union {"absent"}, phone: Phone \union {NoPhone}]]
    BY DEF Typed, TypeOK
  <2> HIDE DEF x, u
  <2> SUFFICES ASSUME NEW t \in Team PROVE team'[t].status = IF t = u THEN x ELSE team[t].status
    BY DEF x, u
  <2>3. CASE t = u
    BY <2>1, <2>2, <2>3
  <2>4. CASE t # u
    BY <2>1, <2>2, <2>4
  <2> QED BY <2>3, <2>4
<1>3. Holding' \subseteq Holding
  <2> SUFFICES ASSUME NEW t \in Team, team'[t].status \in HoldsPlace
               PROVE  team[t].status \in HoldsPlace
    BY DEF Holding
  <2>1. Honest(v)
    BY DEF Places
  <2> QED BY <1>1, <1>2, <2>1 DEF Honest
<1>4. IsFiniteSet(Holding') /\ Cardinality(Holding') <= Cardinality(Holding)
  BY <1>3, FS_Subset DEF Places
<1>5. PlacesRespected'
  <2>1. Cardinality(Holding') \in Nat /\ Cardinality(Holding) \in Nat
    BY <1>4, FS_CardinalityType DEF Places
  <2> QED BY <1>4, <2>1, RegistrationAssumption DEF Places, PlacesRespected
<1>6. \A w \in Desk : Honest(w)'
  <2>1. \A w \in Desk : w = v
    BY DEF OneDesk
  <2>2. v \in Worker /\ request' = [request EXCEPT ![v] = NoRequest]
    BY <1>1 DEF Worker, Done, Keep
  <2>3. request'[v].op = "none"
    BY <2>2, NoRequestTyped DEF Typed
  <2> QED BY <2>1, <2>3 DEF Honest
<1> QED BY <1>4, <1>5, <1>6 DEF Places

LEMMA ReadStatusPlaces ==
    ASSUME Typed, Places, OneDesk, NoReinstating, NEW v \in Desk, NEW t \in Team,
           NEW s \in TeamStatuses, ReadTeamStatus(v, t, s)
    PROVE  Places'
<1>1. /\ team' = team /\ Exists(t) /\ <<team[t].status, s>> \in StatusMoves
      /\ Keep(v, [NoRequest EXCEPT !.op = "status", !.team = t, !.status = s])
  BY DEF ReadTeamStatus, stored
<1>2. request'[v] = [NoRequest EXCEPT !.op = "status", !.team = t, !.status = s]
  BY <1>1 DEF Keep, Worker, Typed
<1>3. request'[v].team = t /\ request'[v].status = s
  BY <1>2, NoRequestTyped DEF Request, Fields
<1>4. team[t].status \in TeamStatuses
  BY <1>1 DEF Typed, TypeOK, Exists
<1>5. s \in HoldsPlace => team[t].status \in HoldsPlace
  BY <1>1, <1>4 DEF NoReinstating
<1>6. Honest(v)'
  BY <1>1, <1>3, <1>5 DEF Honest
<1>7. \A w \in Desk : w = v
  BY DEF OneDesk
<1>8. (\A w \in Desk : Honest(w))'
  BY <1>6, <1>7
<1>9. Holding' = Holding
  BY <1>1 DEF Holding
<1> QED BY <1>8, <1>9 DEF Places, PlacesRespected

LEMMA PlacesNext ==
    ASSUME Typed, Places, OneDesk, NoReinstating, [Next]_vars
    PROVE  Places'
<1>1. CASE UNCHANGED vars
  BY <1>1, PlacesKept DEF vars
<1>2. ASSUME NEW v \in Captain, CaptainNext(v) PROVE Places'
  <2>1. CASE CommitRegister(v)
    BY <2>1, RegisterPlaces
  <2>2. CASE ~ CommitRegister(v)
    <3>1. team' = team /\ \E r : Keep(v, r)
      BY <1>2, <2>2 DEF CaptainNext, ReadOrphan, CommitRefund, CommitBalance, ReadRegister,
                        ReadRefusal, ReadInvalid, AnswerInvalid, ReadBalance, Done, stored
    <3> QED BY <3>1, CaptainKeeps, PlacesKept
  <2> QED BY <2>1, <2>2
<1>3. ASSUME NEW v \in Desk, DeskNext(v) PROVE Places'
  <2>1. CASE \E t \in Team, x \in 1..Fee : RecordPayment(v, t, x)
    <3>1. team' = team /\ request' = request
      BY <2>1 DEF RecordPayment
    <3> QED BY <3>1, PlacesKept
  <2> QED BY <1>3, <2>1, StatusPlaces, ReadStatusPlaces DEF DeskNext
<1>4. CASE \/ TurnWindow \/ \E p \in Payment, opt \in Options : PayEntry(p, opt)
           \/ \E p \in Payment, t \in Team, opt \in Options : PayBalance(p, t, opt)
  <2>1. team' = team /\ request' = request
    BY <1>4 DEF TurnWindow, PayEntry, PayBalance
  <2> QED BY <2>1, PlacesKept
<1> QED BY <1>1, <1>2, <1>3, <1>4 DEF Next

LEMMA PlacesInit == Init => Places
<1> SUFFICES ASSUME Init PROVE Places
  OBVIOUS
<1>1. Holding = {}
  BY DEF Init, Holding, NoRow, HoldsPlace
<1>2. \A w \in Desk : Honest(w)
  <2>1. \A w \in Desk : request[w].op = "none"
    BY NoRequestTyped DEF Init, Worker
  <2> QED BY <2>1 DEF Honest
<1> QED BY <1>1, <1>2, FS_EmptySet, RegistrationAssumption DEF Places, PlacesRespected

\* The tournament never has more entries than places, however many submissions race
\* for the last one: the places are counted again under the lock on the link
\* (createRegistration).  With one organizer at work, who does not take back an entry
\* that was turned away: that count is made outside the lock (updateStatus).
THEOREM PlacesHold == ASSUME OneDesk, NoReinstating PROVE Spec => []PlacesRespected
<1>1. Spec => [](Typed /\ Places)
  BY TypedInit, TypedNext, PlacesInit, PlacesNext, PTL DEF Spec
<1>2. Places => PlacesRespected
  BY DEF Places
<1> QED BY <1>1, <1>2, PTL
=============================================================================
