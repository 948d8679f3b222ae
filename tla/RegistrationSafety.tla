------------------------- MODULE RegistrationSafety -------------------------
(***************************************************************************)
(* What team registration and the ground fee keep true.                    *)
(***************************************************************************)
EXTENDS Registration, Functions

TypeOK ==
    /\ open \in BOOLEAN
    /\ team \in [Team -> [status: TeamStatuses \union {"absent"}, phone: Phone \union {NoPhone}]]
    /\ paid \in [Team -> Nat]
    /\ cash \in [Team -> Nat]
    /\ captured \in [Payment -> [kind: {"none", "entry", "balance"},
                                 team: Team \union {NoTeam}, amount: Nat]]
    /\ spent \in [Payment -> Team \union {NoTeam}]
    /\ refunds \subseteq Payment
    /\ request \in [Worker -> [op: {"none", "register", "refused", "refund", "invalid",
                                    "balance", "status"},
                               team: Team \union {NoTeam}, phone: Phone \union {NoPhone},
                               payment: Payment \union {NoPayment}, amount: Nat,
                               status: TeamStatuses \union {""}]]

SpentOn(t) == {p \in Payment : spent[p] = t}
Collected(t) == SumFunctionOnSet([p \in Payment |-> captured[p].amount], SpentOn(t))

\* Every rupee on a team's account is either cash on a receipt or a captured
\* payment spent on that very team, and no payment is counted twice, whatever
\* entries, retries, instalments and cash records overlap.
AccountsMatch == \A t \in Team : paid[t] = cash[t] + Collected(t)

\* The tournament never has more entries than places.  It holds while the
\* organizer does not take back an entry that was turned away.
PlacesRespected == Cardinality(Holding) <= MaxTeams

\* A worker answers an entry made with a verified payment only once that
\* payment is on a team or on the organizer's refund list, whether the pre-check
\* returned an error, the transaction refused it or the entry was made, and
\* whatever others did meanwhile.  It is not so of a form that does not validate
\* ("invalid"): register lets that exception through, and the payment is neither
\* spent nor listed until it comes again.
RefusedMoneyListed ==
    [][\A w \in Captain :
        /\ request[w].op \in {"register", "refused", "refund"}
        /\ request[w].payment # NoPayment
        /\ request'[w].op = "none"
        => request[w].payment \in refunds' \/ spent'[request[w].payment] # NoTeam]_vars

\* A payment spent on a team stays spent on that team, and on the refund list
\* stays what was listed.
SpentForGood ==
    [][/\ \A p \in Payment : Spent(p) => spent'[p] = spent[p]
       /\ refunds \subseteq refunds']_vars

\* TeamController.php "a stale order (the organizer recorded cash
\* meanwhile) no longer matches and is refused": no team is charged more than
\* the ground fee.
NeverOvercharged == \A t \in Team : paid[t] <= Fee
=============================================================================
