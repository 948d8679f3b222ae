------------------------------ MODULE DeskKit --------------------------------
(***************************************************************************)
(* The words a desk is described in.  Most pages of the office side are a  *)
(* list, the buttons on its rows and a form or two; they differ in how the *)
(* list is fetched, on which rows a button is offered, what is asked       *)
(* first, what a click locks and what the answer does.                     *)
(*                                                                         *)
(* A page is a record                                                      *)
(*   asks      what the API can be asked: pages, filters, owners; the      *)
(*             first is asked when the page opens                          *)
(*   numbered  answers overtaken by a later question are thrown away       *)
(*   hides     a refetch takes the list off the screen                     *)
(*   fails     a fetch that fails leaves an error and Retry in place of    *)
(*             the list: "always", only where there was none ("empty"),    *)
(*             or never (""); "stuck" leaves the error without Retry       *)
(*   rows      what a row may be                                           *)
(*   does      the buttons and forms                                       *)
(*   offers    the rows a button is on; one not listed is always there     *)
(*   tabs      the page's own tabs and filters, with the rows each shows   *)
(***************************************************************************)
EXTENDS Naturals, Sequences

\* How the list is fetched: by an effect of the page's own, or by usePaginatedList.
Plain(asks) == [asks |-> asks, numbered |-> FALSE, hides |-> FALSE, fails |-> ""]
Numbered(asks) == [Plain(asks) EXCEPT !.numbered = TRUE, !.fails = "empty"]
Hiding(fetch) == [fetch EXCEPT !.hides = TRUE]
Failing(fetch) == [fetch EXCEPT !.fails = "always"]
Stuck(fetch) == [fetch EXCEPT !.fails = "stuck"]
Once == Plain(<<"all">>)

Nothing == <<>>      \* no buttons, no tabs; offered everywhere

DeskPage(fetch, rows, does, offers) ==
    [asks |-> fetch.asks, numbered |-> fetch.numbered, hides |-> fetch.hides,
     fails |-> fetch.fails, rows |-> rows, does |-> does, offers |-> offers,
     tabs |-> Nothing, tab |-> ""]
Tabbed(first, tabs, p) == [p EXCEPT !.tabs = tabs, !.tab = first]

\* A button, and the fields of the row it changes.  It asks nothing, locks nothing,
\* and the list is fetched again when it has been answered.
Do(to) == [to |-> to, ask |-> FALSE, lock |-> "", then |-> "reload", tab |-> "",
           form |-> "", opens |-> "", sends |-> {}]
\* It changes something else: a setting, a new row.
Save == Do(<<>>)

Asking(o) == [o EXCEPT !.ask = TRUE]             \* a dialog first
Locking(lock, o) == [o EXCEPT !.lock = lock]     \* until it has been answered
OnTab(tab, o) == [o EXCEPT !.tab = tab]
\* What the answer does: "reload" the list as it was asked for at the click, or
\* as it is asked for by now ("current"), "await" the reload before unlocking, "patch"
\* the row, show the "answer", or "nothing"; "early" shows the change before asking.
\* What is only "typed" changes the page's own copy of the row and asks nobody.
Then(how, o) == [o EXCEPT !.then = how]
Typed(to) == Then("typed", Do(to))
\* These fields are sent with it, as they stand on the page or as the form was
\* opened with them.
Sending(fields, o) == [o EXCEPT !.sends = fields]
\* The button opens a form, and the form's own button does it: over the page
\* ("dialog"), or in it ("inline").  It closes when that has been answered.
Dialog(o) == [o EXCEPT !.form = "dialog"]
Inline(o) == [o EXCEPT !.form = "inline"]
\* A dialog with nothing to send.
Viewing == Then("look", Dialog(Save))
\* The answer opens a dialog of its own.
Opening(dialog, o) == [o EXCEPT !.opens = dialog]
=============================================================================
