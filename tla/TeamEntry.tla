------------------------------ MODULE TeamEntry ------------------------------
(***************************************************************************)
(* Entering a team from the public link: the wizard, the draft kept on the *)
(* device, the checkout and the registration it pays for.                  *)
(*                                                                         *)
(* Once a checkout has succeeded the money has moved.  The page keeps the  *)
(* payment until the API has registered the team with it, or has refused   *)
(* the entry and asked the organizer to refund it.                         *)
(***************************************************************************)
EXTENDS Client, Naturals, FiniteSets

CONSTANTS
    Payment,     \* payments the gateway can make
    MaxEdits     \* bound: steps filled in or spoilt

\* Team, manager and squad; step 4 is the payment, 5 the receipt.
FormSteps == 1..3

Drafts == [step: 1..5, filled: SUBSET FormSteps, paid: Payment \cup {None}]

ASSUME EntryAssumption ==
    None \notin Payment /\ None \notin Drafts /\ MaxEdits \in Nat

(* api: the payment the team is registered with ("unpaid" without one), the *)
(* payments the gateway took, those the API gave up for a refund.           *)
(* page.filled: the steps whose fields pass the page's own check; stored    *)
(* and unsaved: the draft on the device and the one its timer will write;   *)
(* dropped: the device refused the last write (full or blocked storage).    *)
(* told: payments reported to the page, and those a dying tab took along    *)
(* because their draft was not written yet, refused, or out of date.        *)

Snapshot(p) == [step |-> p.step, filled |-> p.filled, paid |-> p.paid]
Finished(p) == p.step = 5 /\ p.done

\* The effect that keeps the draft: whatever is shown, 400 ms after it changed.
Kept(p) == IF p.ready /\ ~Finished(p) /\ p.filled # {} /\ Snapshot(p) # Snapshot(page)
           THEN [p EXCEPT !.unsaved = Snapshot(p)] ELSE p

\* The page as it opens on what readDraft gives back.
Opened(draft, edits) ==
    LET d == IF draft = None THEN [step |-> 1, filled |-> {}, paid |-> None] ELSE draft IN
    [at |-> "entry", ready |-> FALSE, closed |-> FALSE, missing |-> FALSE,
     step |-> IF d.step < 5 THEN d.step ELSE 1, filled |-> d.filled, paid |-> d.paid,
     terms |-> d.paid # None, busy |-> FALSE, stage |-> "idle",
     outcome |-> IF d.paid = None THEN "none" ELSE "recover",
     done |-> FALSE, restored |-> draft # None, stored |-> draft, unsaved |-> None,
     dropped |-> FALSE, edits |-> edits]

EntryInit ==
    /\ api = [entry |-> None, open |-> TRUE, taken |-> {}, refunded |-> {}]
    /\ calls = {[kind |-> "link"]}
    /\ page = Opened(None, 0)
    /\ told = [reported |-> {}, lost |-> {}]

\* No longer loading, the effect saves what it shows.
Loaded(p) == IF p.filled # {} THEN [p EXCEPT !.unsaved = Snapshot(p)] ELSE p

LinkFetched(c) ==
    /\ c.kind = "link" /\ Settle(c)
    /\ page' = Loaded([page EXCEPT !.ready = TRUE, !.closed = ~api.open])
    /\ UNCHANGED <<api, told>>

LinkFailed(c) ==
    /\ c.kind = "link" /\ Settle(c)
    /\ page' = Loaded([page EXCEPT !.ready = TRUE, !.missing = TRUE])
    /\ UNCHANGED <<api, told>>

\* The wizard is shown: not while loading, nor where the link leads nowhere, nor
\* once entries are closed, unless there is a payment to settle.
WizardShown ==
    /\ page.ready /\ ~page.missing
    /\ page.closed => page.outcome # "none" \/ Finished(page)

\* The overlay of a checkout or of a paid submission covers the wizard.
Reachable == WizardShown /\ page.stage \notin {"verifying", "success"}

-----------------------------------------------------------------------------
(* The steps. *)

\* Each step's form may be completed, or an answer in it taken back.
FillStep(s) ==
    /\ Reachable /\ page.step = s /\ page.edits < MaxEdits
    /\ page' = Kept([page EXCEPT !.filled = IF s \in @ THEN @ \ {s} ELSE @ \cup {s},
                                 !.edits = @ + 1])
    /\ PageOnly

NextStep(s) ==
    /\ Reachable /\ page.step = s /\ s \in page.filled
    /\ page' = Kept([page EXCEPT !.step = s + 1])
    /\ PageOnly

BackStep(s) ==
    /\ Reachable /\ page.step = s /\ s \in 2..4
    /\ page' = Kept([page EXCEPT !.step = s - 1])
    /\ PageOnly

AgreeToTerms ==
    /\ Reachable /\ page.step = 4 /\ ~page.terms
    /\ page' = [page EXCEPT !.terms = TRUE]
    /\ PageOnly

\* The timer of useDraft.
DraftWritten ==
    /\ page.unsaved # None
    /\ page' = [page EXCEPT !.stored = page.unsaved, !.unsaved = None, !.dropped = FALSE]
    /\ PageOnly

\* It fires and the device refuses: the failure is swallowed, what was stored stays.
DraftNotWritten ==
    /\ page.unsaved # None
    /\ page' = [page EXCEPT !.unsaved = None, !.dropped = TRUE]
    /\ PageOnly

-----------------------------------------------------------------------------
(* Paying and registering. *)

Idle(p) == [p EXCEPT !.busy = FALSE, !.stage = "idle"]

\* A refusal leads to the step of the field it names, if it names one.
SentBack(p, s) == IF s \in FormSteps THEN [p EXCEPT !.step = s] ELSE p

SubmitCall(paid) == [kind |-> "submit", paid |-> paid]

\* Mutant: the button stays enabled while a payment waits.
PayAgain ==
    /\ Reachable /\ page.step = 4 /\ page.terms
    /\ ~page.busy /\ page.stage = "idle"
    /\ page' = [page EXCEPT !.busy = TRUE, !.stage = "checking"]
    /\ Send([kind |-> "validate"])
    /\ UNCHANGED <<api, told>>

PayAndRegister ==
    /\ Reachable /\ page.step = 4 /\ page.terms
    /\ ~page.busy /\ page.stage = "idle" /\ page.outcome # "recover"
    /\ page' = [page EXCEPT !.busy = TRUE, !.stage = "checking"]
    /\ Send([kind |-> "validate"])
    /\ UNCHANGED <<api, told>>

\* At the ground, free of charge, or by a checkout on the order.
Validated(c) ==
    /\ c.kind = "validate" /\ c \in calls
    /\ api.open /\ api.entry = None
    /\ \E next \in {[kind |-> "order"], SubmitCall(None)} : calls' = (calls \ {c}) \cup {next}
    /\ UNCHANGED <<api, page, told>>

NotValid(c) ==
    /\ c.kind = "validate" /\ Settle(c)
    /\ \E s \in 0..3 : page' = Kept(SentBack(Idle(page), s))
    /\ UNCHANGED <<api, told>>

Ordered(c) ==
    /\ c.kind = "order" /\ c \in calls
    /\ \/ /\ calls' = (calls \ {c}) \cup {[kind |-> "checkout"]}
          /\ page' = [page EXCEPT !.stage = "verifying"]
       \/ /\ calls' = (calls \ {c}) \cup {SubmitCall(None)}
          /\ UNCHANGED page
    /\ UNCHANGED <<api, told>>

OrderFailed(c) ==
    /\ c.kind = "order" /\ Settle(c)
    /\ page' = Idle(page)
    /\ UNCHANGED <<api, told>>

\* The checkout reports the payment: it is noted, and submitted with the entry.
Paid(c) ==
    /\ c.kind = "checkout" /\ c \in calls
    /\ \E m \in Payment \ api.taken :
           /\ api' = [api EXCEPT !.taken = @ \cup {m}]
           /\ page' = LET p == [page EXCEPT !.paid = m, !.stage = "success"] IN
                      [p EXCEPT !.unsaved = Snapshot(p)]
           /\ calls' = (calls \ {c}) \cup {SubmitCall(m)}
           /\ told' = [told EXCEPT !.reported = @ \cup {m}]

\* Closed by the payer, or the script would not load; the gateway may have been
\* paid all the same, and its answer lost.
CheckoutDismissed(c) ==
    /\ c.kind = "checkout" /\ Settle(c)
    /\ page' = Idle(page)
    /\ \E m \in SUBSET (Payment \ api.taken) :
           Cardinality(m) <= 1 /\ api' = [api EXCEPT !.taken = @ \cup m]
    /\ UNCHANGED told

Retry ==
    /\ WizardShown /\ page.outcome = "recover" /\ ~Finished(page)
    /\ page.paid # None /\ ~page.busy
    /\ page' = [page EXCEPT !.busy = TRUE, !.stage = "success"]
    /\ Send(SubmitCall(page.paid))
    /\ UNCHANGED <<api, told>>

\* A payment seen before is a replay; a refused entry that was paid is refunded.
EntryTaken(m) == IF m # None /\ api.entry = m THEN TRUE
              ELSE api.open /\ api.entry = None /\ m \notin api.refunded
Entered(m) == [api EXCEPT !.entry = IF m = None THEN "unpaid" ELSE m]

\* Mutant: the timer goes on.
ForgottenDraft(p) == [p EXCEPT !.stored = None, !.restored = FALSE, !.dropped = FALSE]

ClearedDraft(p) == [p EXCEPT !.stored = None, !.unsaved = None, !.restored = FALSE,
                             !.dropped = FALSE]

EntryAccepted(c) ==
    /\ c.kind = "submit" /\ Settle(c)
    /\ EntryTaken(c.paid)
    /\ api' = Entered(c.paid)
    /\ page' = Idle(ClearedDraft([page EXCEPT !.done = TRUE, !.outcome = "none",
                                              !.paid = None, !.step = 5]))
    /\ UNCHANGED told

EntryRefunded(c) ==
    /\ c.kind = "submit" /\ Settle(c)
    /\ c.paid # None /\ ~EntryTaken(c.paid)
    /\ api' = [api EXCEPT !.refunded = @ \cup {c.paid}]
    /\ page' = Kept(Idle(ClearedDraft([page EXCEPT !.outcome = "refund", !.paid = None])))
    /\ UNCHANGED told

\* Refused for a field, or no answer: the entry may have been registered.  A
\* payment stays, to finish with.
EntryFailed(c) ==
    /\ c.kind = "submit" /\ Settle(c)
    /\ api' \in {api} \cup IF EntryTaken(c.paid) THEN {Entered(c.paid)} ELSE {}
    /\ \E s \in 0..3 :
           page' = Kept(SentBack(Idle([page EXCEPT
               !.outcome = IF c.paid = None THEN @ ELSE "recover"]), s))
    /\ UNCHANGED told

\* Entries are opened and closed meanwhile; another team takes the last place.
LinkTurned ==
    /\ api.open
    /\ api' = [api EXCEPT !.open = FALSE]
    /\ UNCHANGED <<calls, page, told>>

\* A page that is left: what was under way may still reach the API, or the
\* gateway, but nobody hears of it.
Reopens(draft) ==
    /\ page' = Opened(draft, page.edits)
    /\ calls' = {[kind |-> "link"]}
    /\ api' \in {api} \cup {Entered(c.paid) : c \in {d \in calls :
                                d.kind = "submit" /\ EntryTaken(d.paid)}}

\* The tab dies, or is left: the timer never fires.  A draft older than seven
\* days is thrown away when the page opens again.
TabDies ==
    \E aged \in BOOLEAN :
        LET draft == IF aged THEN None ELSE page.stored
            gone == page.paid # None /\ (draft = None \/ draft.paid # page.paid)
        IN  /\ Reopens(draft)
            /\ told' = IF gone /\ (aged \/ page.dropped \/ page.unsaved # None)
                       THEN [told EXCEPT !.lost = @ \cup {page.paid}] ELSE told

\* The banner of a restored draft throws it away and reloads; asked by the
\* browser whether to leave, the captain may stay.
StartOver ==
    /\ Reachable /\ page.restored /\ ~Finished(page) /\ page.outcome = "none"
    /\ \/ Reopens(None) /\ UNCHANGED told
       \/ page' = ClearedDraft(page) /\ PageOnly

\* The wizard, step by step.
TeamForm == FillStep(1) \/ NextStep(1)
ManagerForm == FillStep(2) \/ NextStep(2) \/ BackStep(2)
SquadForm == FillStep(3) \/ NextStep(3) \/ BackStep(3)
PaymentForm == AgreeToTerms \/ PayAndRegister \/ BackStep(4)

EntryNext ==
    \/ \E c \in calls :
           \/ LinkFetched(c) \/ LinkFailed(c) \/ Validated(c) \/ NotValid(c)
           \/ Ordered(c) \/ OrderFailed(c) \/ Paid(c) \/ CheckoutDismissed(c)
           \/ EntryAccepted(c) \/ EntryRefunded(c) \/ EntryFailed(c)
    \/ TeamForm \/ ManagerForm \/ SquadForm \/ PaymentForm
    \/ DraftWritten \/ DraftNotWritten \/ StartOver \/ Retry
    \/ LinkTurned \/ TabDies

EntrySpec == EntryInit /\ [][EntryNext]_clientVars

-----------------------------------------------------------------------------
\* Payments reported to the page that neither registered the team nor were given
\* up for a refund.
Unsettled == told.reported \ ({api.entry} \cup api.refunded)

\* Whatever fails after the checkout, nobody is charged again for the same entry:
\* one payment at most waits, and the page holds it, having found it in the draft
\* when it opened again.  Only a tab that died before the draft was written, after
\* a write the device refused, or for more than the draft's seven days may have
\* taken its payment along (payAndRegister, submitRegistration, useDraft).
ChargedOnce ==
    page.at = "entry" =>
        LET open == Unsettled \ told.lost IN
        /\ Cardinality(open) <= 1
        /\ open \subseteq {page.paid}

\* A team that has its receipt leaves no draft behind to be submitted again.
ReceiptClearsDraft ==
    page.at = "entry" /\ page.done => page.stored = None /\ page.unsaved = None
=============================================================================
