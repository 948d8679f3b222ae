-------------------------------- MODULE Desk --------------------------------
(***************************************************************************)
(* A desk page at work on one row of its list, against the API and other   *)
(* people at their own desks.  What the API allows is not modelled here:   *)
(* it may refuse anything.                                                 *)
(***************************************************************************)
EXTENDS Client, AdminDesk, ClubDesk, FiniteSets

\* Bound: changes asked for, by this page or elsewhere.
CONSTANT MaxActs

ASSUME DeskAssumption == MaxActs \in Nat

ActsLeft == page.acts + api.others < MaxActs

(* api: the row and its version; `others` counts the changes made elsewhere. *)
(* told.ver is the last version the page was told it had made; told.astray  *)
(* that a handler fetched the list again for a question given up meanwhile.  *)

Desks == DOMAIN AdminPages \cup DOMAIN ClubPages
Shape(p) == IF p \in DOMAIN AdminPages THEN AdminPages[p] ELSE ClubPages[p]
This == Shape(page.desk)

\* A fetch of the list as question q has it; it unlocks `frees` when it ends.
ListRead(q, copy, frees) ==
    [kind |-> "list", q |-> q, row |-> copy.row, ver |-> copy.ver, last |-> TRUE, frees |-> frees]
Overtaken == {IF c.kind = "list" THEN [c EXCEPT !.last = FALSE] ELSE c : c \in calls}
ListReads == {c \in calls : c.kind = "list"}

DeskInit ==
    /\ \E p \in Desks :
           /\ api \in [row : Shape(p).rows, ver : {0}, others : {0}]
           /\ page = [at |-> "desk", desk |-> p, q |-> Head(Shape(p).asks), view |-> None,
                      loading |-> TRUE, error |-> FALSE, locks |-> {}, ask |-> None,
                      form |-> "", sheet |-> None, tab |-> Shape(p).tab, acts |-> 0]
    /\ calls = {ListRead(page.q, api, "")}
    /\ told = [ver |-> 0, astray |-> FALSE]

-----------------------------------------------------------------------------
(* Fetching. *)

\* An error stands in place of the list, with Retry as a rule.
ListGone ==
    page.error /\ (This.fails \in {"always", "stuck"} \/ (This.fails = "empty" /\ page.view = None))

\* A dialog covers the page.
Covered == page.ask # None \/ (page.form # "" /\
    (page.form \notin DOMAIN This.does \/ This.does[page.form].form = "dialog"))

\* Another page of the list, another filter, another tournament; or Retry.
AskList(q) ==
    /\ q # page.q \/ (ListGone /\ This.fails # "stuck")
    /\ ~Covered /\ Cardinality(ListReads) <= MaxReads
    /\ page' = [page EXCEPT !.q = q, !.loading = TRUE, !.error = FALSE]
    /\ calls' = Overtaken \cup {ListRead(q, api, "")}
    /\ UNCHANGED <<api, told>>

\* Mutant: whatever answer comes is shown.
AnyListShown(c) == TRUE

\* Where answers are numbered, only the last question's is shown.
ListShown(c) == This.numbered => c.last

ListFetched(c) ==
    /\ Settle(c)
    /\ page' = [page EXCEPT
         !.view = IF ListShown(c) THEN [row |-> c.row, ver |-> c.ver, q |-> c.q] ELSE @,
         !.loading = @ /\ ~ListShown(c), !.locks = @ \ {c.frees}]
    /\ UNCHANGED <<api, told>>

ListFailed(c) ==
    /\ Settle(c)
    /\ page' = [page EXCEPT !.error = @ \/ ListShown(c), !.loading = @ /\ ~ListShown(c),
                            !.locks = @ \ {c.frees}]
    /\ UNCHANGED <<api, told>>

-----------------------------------------------------------------------------
(* Buttons and forms. *)

\* What a button or a form needs on the screen; a button is under what covers the page.
DeskShows(name) ==
    LET o == This.does[name]
    IN  /\ page.ask = None /\ ~ListGone /\ (This.hides => ~page.loading)
        /\ o.lock \notin page.locks
        /\ IF name \in DOMAIN This.offers
           THEN page.view # None /\ page.view.row \in This.offers[name]
           ELSE DOMAIN o.to \cup o.sends = {} \/ page.view # None
        /\ page.tab \in DOMAIN This.tabs /\ name \in DOMAIN This.offers =>
               page.view.row \in This.tabs[page.tab]

DeskOffered(name) == ~Covered /\ This.does[name].tab \in {"", page.tab} /\ DeskShows(name)

\* The row a button leaves behind.
Made(to, row) == [f \in DOMAIN row |-> IF f \in DOMAIN to THEN to[f] ELSE row[f]]

\* The row changed where it is shown.
Redrawn(view, to) == [view EXCEPT !.row = Made(to, @)]

\* The row as the API returned it, in place of the one shown.
Refilled(view, copy) == [view EXCEPT !.row = copy.row, !.ver = copy.ver]

\* What is sent: the button's own change, and the fields it sends along.
Payload(o) ==
    LET row == IF o.form = "" THEN page.view.row ELSE page.sheet
    IN  [f \in DOMAIN o.to \cup o.sends |-> IF f \in DOMAIN o.to THEN o.to[f] ELSE row[f]]

\* The handler closes over the question and the row that were on screen at the click.
DeskPress(name, q) ==
    LET o == This.does[name]
    IN  /\ calls' = calls \cup {[kind |-> "act", op |-> name, q |-> q, to |-> Payload(o),
                                 was |-> IF o.then = "early" THEN page.view ELSE None]}
        /\ page' = [page EXCEPT
             !.ask = None, !.locks = @ \cup ({o.lock} \ {""}), !.acts = @ + 1,
             !.view = IF o.then = "early" THEN Redrawn(@, o.to) ELSE @]
        /\ UNCHANGED <<api, told>>

AskOrPress(name) ==
    IF This.does[name].ask
    THEN page' = [page EXCEPT !.ask = [op |-> name, q |-> page.q]] /\ PageOnly
    ELSE DeskPress(name, page.q)

DeskClick(name) ==
    /\ DeskOffered(name) /\ ActsLeft
    /\ CASE This.does[name].form # "" ->
              /\ page.form = ""
              /\ page' = [page EXCEPT !.form = name, !.sheet =
                   IF This.does[name].sends = {} THEN None ELSE page.view.row]
              /\ PageOnly
         [] This.does[name].then = "typed" ->
              /\ page' = [page EXCEPT !.view = Redrawn(@, This.does[name].to)]
              /\ PageOnly
         [] OTHER -> AskOrPress(name)

\* The open form's own button, and the way out of it; neither waits for an answer.
DeskSubmit ==
    /\ page.form \in DOMAIN This.does /\ ActsLeft
    /\ This.does[page.form].then # "look" /\ DeskShows(page.form)
    /\ AskOrPress(page.form)

DeskClose ==
    /\ page.form # "" /\ page.ask = None
    /\ page' = [page EXCEPT !.form = "", !.sheet = None] /\ PageOnly

\* Another tab; a form in the page goes with the tab it was on.
DeskTab(tab) ==
    /\ ~Covered /\ tab # page.tab
    /\ page' = [page EXCEPT !.tab = tab, !.form = "", !.sheet = None] /\ PageOnly

DeskConfirm == page.ask # None /\ ActsLeft /\ DeskPress(page.ask.op, page.ask.q)
DeskDecline == page.ask # None /\ page' = [page EXCEPT !.ask = None] /\ PageOnly

DeskCarried(c) == api' = [api EXCEPT !.row = Made(c.to, @), !.ver = @ + 1]

\* The answer: unlock, close the form, and show what became of it.
DeskAnswered(c) ==
    LET o == This.does[c.op]
        reloads == o.then \in {"reload", "await", "current"}
        q == IF o.then = "current" THEN page.q ELSE c.q
    IN  /\ DeskCarried(c)
        /\ calls' = IF reloads
                    THEN (Overtaken \ {c}) \cup
                         {ListRead(q, api', IF o.then = "await" THEN o.lock ELSE "")}
                    ELSE calls \ {c}
        /\ page' = [page EXCEPT
             !.locks = IF o.then = "await" THEN @ ELSE @ \ {o.lock},
             !.form = CASE o.opens # "" -> o.opens [] @ = c.op -> "" [] OTHER -> @,
             !.sheet = IF o.opens # "" \/ page.form = c.op THEN None ELSE @,
             !.loading = @ \/ reloads, !.error = @ /\ ~reloads,
             !.view = CASE @ = None -> @
                        [] o.then = "patch" -> Redrawn(@, o.to)
                        [] o.then \in {"answer", "early"} -> Refilled(@, api')
                        [] OTHER -> @]
        /\ told' = IF reloads THEN [ver |-> api'.ver, astray |-> told.astray \/ q # page.q]
                   ELSE told

\* Refused, or done and the answer lost: a message, and what was shown early is
\* taken back and fetched again.
DeskRefused(c) ==
    LET o == This.does[c.op]
    IN  /\ (UNCHANGED api) \/ DeskCarried(c)
        /\ calls' = IF o.then = "early" THEN (Overtaken \ {c}) \cup {ListRead(c.q, api', "")}
                    ELSE calls \ {c}
        /\ page' = [page EXCEPT
             !.locks = @ \ {o.lock}, !.loading = @ \/ o.then = "early",
             !.view = IF o.then = "early" THEN c.was ELSE @]
        /\ told' = [told EXCEPT !.astray = @ \/ (o.then = "early" /\ c.q # page.q)]

\* Somebody else's work on the row; bound: once.
Elsewhere ==
    /\ page.at = "desk" /\ ActsLeft /\ api.others = 0
    /\ \E row \in This.rows :
           api' = [row |-> row, ver |-> api.ver + 1, others |-> api.others + 1]
    /\ UNCHANGED <<calls, page, told>>

DeskEnds(c) ==
    \/ c.kind = "list" /\ (ListFetched(c) \/ ListFailed(c))
    \/ c.kind = "act" /\ (DeskAnswered(c) \/ DeskRefused(c))

DeskNext ==
    \/ \E i \in DOMAIN This.asks : AskList(This.asks[i])
    \/ \E name \in DOMAIN This.does : DeskClick(name)
    \/ \E tab \in DOMAIN This.tabs : DeskTab(tab)
    \/ DeskSubmit \/ DeskClose \/ DeskConfirm \/ DeskDecline \/ Elsewhere
    \/ \E c \in calls : DeskEnds(c)

\* Every request ends.
DeskFairness ==
    WF_clientVars(page.at = "desk" /\ \E c \in calls : DeskEnds(c))

DeskSpec == DeskInit /\ [][DeskNext]_clientVars /\ DeskFairness

-----------------------------------------------------------------------------
DeskQuiet == page.at = "desk" /\ calls = {} /\ ~page.error

\* A desk at rest is free again: nothing is locked or loading, however its requests
\* ended.  Where answers are numbered, it shows what it was told it has done, and the
\* page and filter now chosen, whatever answers were overtaken on the way: "out-of-order
\* responses are discarded so a slow page 1 can't overwrite a fast page 2"
\* (usePaginatedList).  Left out of the second: a handler that reloads the list for
\* the filter it was clicked under, after another was chosen; that reload is the
\* newest request and is shown.
DoneIsShown ==
    DeskQuiet =>
        /\ page.locks = {} /\ ~page.loading
        /\ This.numbered => page.view.ver >= told.ver
        /\ This.numbered /\ ~told.astray => page.view.q = page.q
=============================================================================
