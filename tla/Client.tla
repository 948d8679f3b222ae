------------------------------ MODULE Client --------------------------------
(***************************************************************************)
(* The browser side.  The React client shows one page at a time; a page    *)
(* that is left is unmounted and its state is gone.  Every page is a state *)
(* machine over the same four variables:                                   *)
(*                                                                         *)
(*   api    what the API holds of what the page works on                   *)
(*   calls  requests under way: sent, and not yet answered                 *)
(*   page   the React state of the page and of its dialogs                 *)
(*   told   history, for the properties                                    *)
(*                                                                         *)
(* page.at names the page.  Handlers run to their next await: what they    *)
(* set before it is one action, what they do with the answer another.      *)
(* Answers come in any order and may be lost.                              *)
(***************************************************************************)
CONSTANTS
    None,      \* null, undefined: nothing there
    MaxReads   \* bound: refetches a page has under way at once

VARIABLES api, calls, page, told

clientVars == <<api, calls, page, told>>

Send(c) == calls' = calls \cup {c}
Settle(c) == c \in calls /\ calls' = calls \ {c}

\* Nothing outside the page moves.
PageOnly == UNCHANGED <<api, calls, told>>
=============================================================================
