------------------------------- MODULE Session ------------------------------
(***************************************************************************)
(* The signed-in session of one browser tab: AuthContext, the request      *)
(* wrapper of api.ts, the route guards, the two gates over the app, and    *)
(* the pages that sign in, sign up, recover an account and impersonate.    *)
(*                                                                         *)
(* localStorage holds the token in use and, while a super admin looks      *)
(* through someone's account, the admin's own token parked beside it.      *)
(* Every answer is judged against storage at the moment it arrives.        *)
(***************************************************************************)
EXTENDS Client, Naturals, FiniteSets

CONSTANTS
    Account,    \* an account is named by its role: one of each that is used
    Path,       \* the pages that links lead to here
    Attempts,   \* tries of fetchCurrentUser after the first (3 in the code)
    MaxTokens,  \* bound: tokens the API issues
    MaxForms    \* bound: sign-ins, sign-ups, impersonations, password changes sent

ASSUME SessionAssumption ==
    /\ Account \subseteq {"SUPER_ADMIN", "ORG_ADMIN", "SCORER", "TEAM_MANAGER", "PLAYER"}
    /\ None \notin Account
    /\ Attempts \in Nat /\ MaxTokens \in Nat /\ MaxForms \in Nat

\* A token names its account; imp: it was lent to a super admin.
Tokens == [who : Account, imp : BOOLEAN, n : 1..MaxTokens]

(* api.live is the set of tokens the API takes, issued how many it made;    *)
(* must and pending the accounts that have to choose a password, or agree   *)
(* to new terms; shut those of a suspended club.                            *)
(* page.held and page.parked are the two storage keys, token and user the   *)
(* state of AuthContext, path the route.                                    *)

-----------------------------------------------------------------------------
(* Routes. *)

\* Pages of anybody; "/" stands for those with a form that needs no session too.
PublicRoutes == {"/", "/login"}

AdminPaths ==
    {"/admin/dashboard", "/admin/plans", "/admin/legal", "/admin/reviews", "/admin/sports",
     "/admin/users", "/admin/organizations", "/admin/subscriptions", "/admin/settings",
     "/admin/audit-logs", "/admin/support"}
ClubPaths ==
    {"/organization/dashboard", "/organization/tournaments", "/organization/auction",
     "/organization/teams", "/organization/fixtures", "/organization/sponsors",
     "/organization/announcements", "/organization/venues", "/organization/notifications",
     "/organization/members", "/organization/reports", "/organization/billing",
     "/organization/support"}
ScorerPaths == {"/organization/scorer", "/organization/posters"}
TeamPaths == {"/team/dashboard", "/team/payments", "/team/squad", "/team/fixtures", "/team/join"}
BiddingPaths == {"/team/auctions", "/team/auction"}
WorkspacePaths == ClubPaths \cup ScorerPaths \cup TeamPaths \cup BiddingPaths

\* The roles a guarded page is for.
AllowedRoles(path) ==
    CASE path \in {"/account/profile", "/notifications"} -> Account
      [] path = "/player/dashboard" -> {"PLAYER"}
      [] path \in AdminPaths -> {"SUPER_ADMIN"}
      [] path \in ClubPaths -> {"ORG_ADMIN"}
      [] path \in ScorerPaths -> {"ORG_ADMIN", "SCORER"}
      [] path \in TeamPaths -> {"TEAM_MANAGER"}
      [] path \in BiddingPaths -> {"TEAM_MANAGER", "ORG_ADMIN"}

\* Mutant: a scorer is the club's staff too.
StaffHome(role) ==
    CASE role = "SUPER_ADMIN" -> "/admin/dashboard"
      [] role \in {"ORG_ADMIN", "SCORER"} -> "/organization/dashboard"
      [] role = "PLAYER" -> "/player/dashboard"
      [] role = "TEAM_MANAGER" -> "/team/dashboard"
      [] OTHER -> "/"

RoleHome(role) ==
    CASE role = "SUPER_ADMIN" -> "/admin/dashboard"
      [] role = "ORG_ADMIN" -> "/organization/dashboard"
      [] role = "PLAYER" -> "/player/dashboard"
      [] role = "TEAM_MANAGER" -> "/team/dashboard"
      [] role = "SCORER" -> "/organization/scorer"
      [] OTHER -> "/"

\* Back to the page that asked for the sign-in, unless it is of the other side.
LandingAfterLogin(role, redirect) ==
    IF \/ redirect = None
       \/ role = "SUPER_ADMIN" /\ redirect \in WorkspacePaths
       \/ role # "SUPER_ADMIN" /\ redirect \in AdminPaths
    THEN RoleHome(role) ELSE redirect

IsAuthenticated == page.user # None /\ page.token # None

\* Where the router sends the page shown; itself when it may stay.
Target ==
    CASE page.path = "/login" ->
            IF IsAuthenticated THEN LandingAfterLogin(page.user.who, page.back) ELSE "/login"
      [] page.path \in PublicRoutes \ {"/login"} -> page.path
      [] OTHER ->
            CASE page.loading -> page.path
              [] ~IsAuthenticated -> "/login"
              [] page.user.who \notin AllowedRoles(page.path) -> RoleHome(page.user.who)
              [] OTHER -> page.path

Redirect ==
    /\ Target # page.path
    /\ page' = [page EXCEPT !.path = Target,
                            !.back = IF Target = "/login" THEN page.path ELSE None]
    /\ PageOnly

\* A link; the address bar would start the app anew.
Navigate(path) ==
    /\ Target = page.path /\ path # page.path
    /\ page' = [page EXCEPT !.path = path, !.back = None]
    /\ PageOnly

-----------------------------------------------------------------------------
(* Requests. *)

\* Forms, and the profile fetches, that are under way.
Pending(kind) == {c \in calls : c.kind = kind}

\* The API refuses it: revoked, or of an account whose club is suspended.
Refused(t) == IF t = None THEN TRUE ELSE t \notin api.live \/ t.who \in api.shut

\* A profile fetch: run is the token it was started for, sent the one it was
\* asked with, ok that the API would have answered it when it was sent, after
\* what its caller goes on with: the terms gate closes, or a page is opened.
Me(run, sent, n, after) ==
    [kind |-> "me", run |-> run, sent |-> sent, n |-> n, after |-> after,
     ok |-> ~Refused(sent)]
Logout(t) == [kind |-> "logout", sent |-> t]

\* fetchCurrentUser up to its await, on page state p.
Fetch(p, after) ==
    IF p.held = None
    THEN [p |-> [p EXCEPT !.user = None, !.loading = FALSE], sends |-> {}]
    ELSE [p |-> [p EXCEPT !.loading = TRUE], sends |-> {Me(p.held, p.held, 0, after)}]

Cleared(p) == [p EXCEPT !.held = None, !.parked = None, !.token = None, !.user = None]

\* swapBackToImpersonator: is there an admin's session to go back to, and the
\* storage after it.
SwapBack(p) ==
    LET back == p.parked # None /\ p.parked # p.held
    IN  [back |-> back,
         p |-> [p EXCEPT !.parked = None, !.held = IF back THEN p.parked ELSE @]]

Opens(p, path) == [p EXCEPT !.path = path, !.back = None]

\* What the caller of a profile fetch does once it is over.
Resumed(p, after) ==
    CASE after = "none" -> p
      [] after = "terms" -> [p EXCEPT !.raised = FALSE]
      [] OTHER -> Opens(p, after)

\* Leaving an impersonation that ended: the admin's token becomes the session's.
Returned(p, user, after) ==
    LET q == [SwapBack(p).p EXCEPT !.token = p.parked, !.user = user]
        f == Fetch(q, after)
    IN  [p |-> f.p, sends |-> f.sends \cup {Logout(p.held)}]

\* onSessionEnded: the token in use was refused.
SessionEnded(p) ==
    IF SwapBack(p).back THEN Returned(p, None, "none")
    ELSE [p |-> Cleared(SwapBack(p).p), sends |-> {}]

\* Only the token still in use can end the session (apiRequest, then the event).
\* Mutant: whichever token the request was sent with.
EndAnySession(p, sent) ==
    IF sent # None THEN SessionEnded(p) ELSE [p |-> p, sends |-> {}]

EndSession(p, sent) ==
    IF sent # None /\ p.held = sent THEN SessionEnded(p) ELSE [p |-> p, sends |-> {}]

\* The catch of fetchCurrentUser, run once the event above has been handled.
ProfileRejected(p, after) ==
    IF SwapBack(p).back THEN Returned(p, p.user, after)
    ELSE [p |-> Resumed([Cleared(p) EXCEPT !.loading = FALSE], after), sends |-> {}]

-----------------------------------------------------------------------------
\* The app starts with what storage holds: nothing, a session, or one lent to
\* the super admin whose own is parked.
Stored == [held : {None} \cup [who : Account, imp : {FALSE}, n : {1}], parked : {None}]
    \cup [held : [who : Account \ {"SUPER_ADMIN"}, imp : {TRUE}, n : {1}],
          parked : [who : {"SUPER_ADMIN"}, imp : {FALSE}, n : {1}]]

SessionInit ==
    \E s \in Stored,
       must \in SUBSET (Account \ {"SUPER_ADMIN"}),
       pending \in SUBSET (Account \ {"SUPER_ADMIN"}) :
      /\ Cardinality(must \cup pending) <= 1
      /\ api = [live |-> {s.held, s.parked} \ {None}, issued |-> 1, must |-> must,
                pending |-> pending, shut |-> {}]
      /\ page = [at |-> "session", held |-> s.held, parked |-> s.parked,
                 token |-> s.held, user |-> None, loading |-> s.held # None,
                 raised |-> FALSE, path |-> "/", back |-> None, forms |-> 0]
      /\ calls = IF s.held = None THEN {}
                 ELSE {[kind |-> "me", run |-> s.held, sent |-> s.held, n |-> 0,
                        after |-> "none", ok |-> TRUE]}
      /\ told = {}

\* The account, as the API describes it to the tab.
UserOf(t) == [who |-> t.who, imp |-> t.imp, must |-> t.who \in api.must,
              pending |-> t.who \in api.pending]

\* The terms gate is reset by another account.
Raised(user) == page.raised /\ page.user # None /\ page.user.who = user.who

MeAnswered(c) ==
    /\ c.kind = "me" /\ c.ok /\ Settle(c)
    /\ page' = Resumed([page EXCEPT !.user = UserOf(c.sent), !.loading = FALSE,
                                    !.raised = Raised(UserOf(c.sent))], c.after)
    /\ UNCHANGED <<api, told>>

MeRefused(c) ==
    /\ c.kind = "me" /\ Refused(c.sent)
    /\ LET event == EndSession(page, c.sent)
           catch == ProfileRejected(event.p, c.after)
       IN  /\ page' = catch.p
           /\ calls' = (calls \ {c}) \cup event.sends \cup catch.sends
    /\ UNCHANGED <<api, told>>

\* No connection, or the API is busy: tried again, the token kept either way.
MeFailed(c) ==
    /\ c.kind = "me"
    /\ IF c.n >= Attempts \/ page.held # c.run
       THEN /\ page' = Resumed([page EXCEPT !.loading = FALSE], c.after)
            /\ Settle(c)
       ELSE /\ calls' = (calls \ {c}) \cup {[kind |-> "wait", run |-> c.run,
                                             n |-> c.n + 1, after |-> c.after]}
            /\ UNCHANGED page
    /\ UNCHANGED <<api, told>>

MeRetried(c) ==
    /\ c.kind = "wait"
    /\ calls' = (calls \ {c}) \cup {Me(c.run, page.held, c.n, c.after)}
    /\ UNCHANGED <<api, page, told>>

-----------------------------------------------------------------------------
(* Forms.  A form is shown busy, and is not sent again, until it settles; the *)
(* page it stands on may be left meanwhile.                                   *)

\* The gates over the app: choose a password first, then agree to the terms.
PasswordGate == page.user # None /\ page.user.must /\ ~page.user.imp
TermsGate == /\ page.user # None /\ ~page.user.imp /\ ~page.user.must
             /\ page.raised \/ page.user.pending
Uncovered == ~PasswordGate /\ ~TermsGate

Submit(call) ==
    /\ Pending(call.kind) = {}
    /\ page.forms < MaxForms
    /\ page' = [page EXCEPT !.forms = @ + 1]
    /\ Send(call)
    /\ UNCHANGED <<api, told>>

\* AuthContext's login: the session is not touched before the answer; `go` is
\* the page the caller opens then.
SignIn(p, who, go) ==
    [p |-> [p EXCEPT !.loading = TRUE],
     call |-> [kind |-> "login", who |-> who, sent |-> p.held, go |-> go]]
StartSession(who, go) ==
    /\ Pending("login") = {} /\ page.forms < MaxForms
    /\ page' = [SignIn(page, who, go).p EXCEPT !.forms = @ + 1]
    /\ Send(SignIn(page, who, go).call)
    /\ UNCHANGED <<api, told>>

\* The sign-in page, and a club's sign-up, which starts its session the same way.
Login(who) ==
    /\ page.path = "/login" /\ ~IsAuthenticated
    /\ StartSession(who, LandingAfterLogin(who, page.back))

RegisterClub ==
    /\ page.path = "/" /\ Uncovered
    /\ StartSession("ORG_ADMIN", "/organization/dashboard")

\* A player's sign-up, and recovery with a code: pages open to anybody, signed
\* in or not.
SignUpPlayer ==
    /\ page.path = "/" /\ Uncovered /\ "PLAYER" \in Account
    /\ Submit([kind |-> "signup", sent |-> page.held])

ResetPassword(who) ==
    /\ page.path = "/" /\ Uncovered /\ who # "SUPER_ADMIN"
    /\ Submit([kind |-> "reset", who |-> who, sent |-> page.held])

Impersonate(who) ==
    /\ IsAuthenticated /\ Uncovered /\ page.user.who = "SUPER_ADMIN" /\ who # "SUPER_ADMIN"
    /\ Submit([kind |-> "impersonate", who |-> who, sent |-> page.held])

\* From the gate, and from the account's own profile page.
OnProfile == IsAuthenticated /\ Uncovered /\ page.path = "/account/profile" /\ Target = page.path
ChooseFirstPassword ==
    /\ IsAuthenticated /\ PasswordGate
    /\ Submit([kind |-> "password", sent |-> page.held, refresh |-> TRUE])
ChangePassword ==
    /\ OnProfile
    /\ Submit([kind |-> "password", sent |-> page.held, refresh |-> FALSE])

\* The account's details, and the club's: the profile is fetched again, which blanks
\* the page and what was typed into its other forms.
SaveAccount ==
    /\ OnProfile
    /\ Submit([kind |-> "account", sent |-> page.held])
SaveClub ==
    /\ OnProfile /\ page.user.who = "ORG_ADMIN"
    /\ Submit([kind |-> "club", sent |-> page.held])

AcceptTerms ==
    /\ TermsGate
    /\ Submit([kind |-> "accept", sent |-> page.held])

LogoutEverywhere ==
    /\ OnProfile
    /\ Submit([kind |-> "everywhere", sent |-> page.held])

\* Any other request of a page: it matters only when it is refused.
AskAnything ==
    /\ IsAuthenticated /\ page.held # None
    /\ Submit([kind |-> "other", sent |-> page.held])

\* From the menu, which opens the sign-in page, or from a gate.
LogOut ==
    /\ IsAuthenticated
    /\ page' = IF Uncovered THEN Opens(Cleared(page), "/login") ELSE Cleared(page)
    /\ calls' = calls \cup (IF page.held = None THEN {} ELSE {Logout(page.held)})
    /\ UNCHANGED <<api, told>>

\* The banner of an impersonation.  With nothing to go back to, it signs out.
StopImpersonating ==
    /\ IsAuthenticated /\ page.user.imp
    /\ LET p == SwapBack(page).p
           left == IF SwapBack(page).back THEN Returned(page, None, "/admin/dashboard")
                   ELSE [p |-> Opens(Cleared(p), "/admin/dashboard"),
                         sends |-> IF p.held = None THEN {} ELSE {Logout(p.held)}]
       IN  page' = left.p /\ calls' = calls \cup left.sends
    /\ UNCHANGED <<api, told>>

-----------------------------------------------------------------------------
(* Answers. *)

Issued(who, imp) == [who |-> who, imp |-> imp, n |-> api.issued + 1]
CanIssue == api.issued < MaxTokens

\* login, and registerOrg: the session starts over.
LoginAnswered(c) ==
    /\ c.kind = "login" /\ c.who \notin api.shut /\ CanIssue
    /\ LET t == Issued(c.who, FALSE)
       IN  /\ api' = [api EXCEPT !.live = @ \cup {t}, !.issued = @ + 1]
           /\ page' = Opens([page EXCEPT !.held = t, !.parked = None, !.token = t,
                                         !.user = UserOf(t), !.loading = FALSE,
                                         !.raised = Raised(UserOf(t))], c.go)
    /\ Settle(c) /\ UNCHANGED told

\* The new player's token goes to storage only; then the page signs in.
SignUpAnswered(c) ==
    /\ c.kind = "signup" /\ CanIssue
    /\ LET t == Issued("PLAYER", FALSE)
           in == SignIn([page EXCEPT !.held = t], "PLAYER", "/player/dashboard")
       IN  /\ api' = [api EXCEPT !.live = @ \cup {t}, !.issued = @ + 1]
           /\ page' = in.p
           /\ calls' = (calls \ {c}) \cup {in.call}
    /\ UNCHANGED told

Adopted(p, t) == [p EXCEPT !.held = t, !.token = t]
\* The profile fetch that follows a token just adopted.
FirstLook(t, after) ==
    [kind |-> "me", run |-> t, sent |-> t, n |-> 0, after |-> after,
     ok |-> t.who \notin api.shut]

\* Recovery ends every session of the account, and adopts the new token.
ResetAnswered(c) ==
    /\ c.kind = "reset" /\ CanIssue
    /\ LET t == Issued(c.who, FALSE)
       IN  /\ api' = [api EXCEPT !.live = {u \in @ : u.who # c.who} \cup {t},
                                 !.issued = @ + 1, !.must = @ \ {c.who}]
           /\ page' = [Adopted(page, t) EXCEPT !.loading = TRUE]
           /\ calls' = (calls \ {c}) \cup {FirstLook(t, RoleHome(c.who))}
    /\ UNCHANGED told

\* Mutant: the token held by now is parked.
LentOver(p, c, t) == [p EXCEPT !.parked = p.held, !.held = t, !.token = t, !.user = UserOf(t)]

\* The token that asked is parked; the one lent becomes the session's.
Lent(p, c, t) == [p EXCEPT !.parked = IF c.sent # None THEN c.sent ELSE @, !.held = t,
                           !.token = t, !.user = UserOf(t)]
ImpersonateAnswered(c) ==
    /\ c.kind = "impersonate" /\ ~Refused(c.sent) /\ c.sent.who = "SUPER_ADMIN"
    /\ c.who \notin api.shut /\ CanIssue
    /\ LET t == Issued(c.who, TRUE)
       IN  /\ api' = [api EXCEPT !.live = @ \cup {t}, !.issued = @ + 1]
           /\ page' = Opens([Lent(page, c, t) EXCEPT !.raised = Raised(UserOf(t))],
                            RoleHome(c.who))
    /\ Settle(c) /\ UNCHANGED told

\* A new password ends every session of the account; the one that asked is
\* handed a new token and adopts it.
PasswordAnswered(c) ==
    /\ c.kind = "password" /\ ~Refused(c.sent) /\ CanIssue
    /\ LET t == Issued(c.sent.who, c.sent.imp)
       IN  /\ api' = [api EXCEPT !.live = {u \in @ : u.who # t.who} \cup {t},
                                 !.issued = @ + 1, !.must = @ \ {t.who}]
           /\ page' = [Adopted(page, t) EXCEPT !.loading = @ \/ c.refresh]
           /\ calls' = (calls \ {c}) \cup IF c.refresh THEN {FirstLook(t, "none")} ELSE {}
    /\ UNCHANGED told

TermsAnswered(c) ==
    /\ c.kind = "accept" /\ ~Refused(c.sent)
    /\ api' = [api EXCEPT !.pending = @ \ {c.sent.who}]
    /\ LET f == Fetch(page, "terms")
       IN  page' = f.p /\ calls' = (calls \ {c}) \cup f.sends
    /\ UNCHANGED told

DetailsAnswered(c) ==
    /\ c.kind \in {"account", "club"} /\ ~Refused(c.sent)
    /\ LET f == Fetch(page, "none")
       IN  page' = f.p /\ calls' = (calls \ {c}) \cup f.sends
    /\ UNCHANGED <<api, told>>

\* Signed out here whatever the answer was, or without one.
EverywhereAnswered(c) ==
    /\ c.kind = "everywhere"
    /\ api' \in {api} \cup IF Refused(c.sent) THEN {}
                           ELSE {[api EXCEPT !.live = {u \in @ : u.who # c.sent.who}]}
    /\ \E event \in {[p |-> page, sends |-> {}]} \cup
                    IF Refused(c.sent) THEN {EndSession(page, c.sent)} ELSE {} :
           page' = Cleared(event.p) /\ calls' = (calls \ {c}) \cup event.sends
    /\ UNCHANGED told

LogoutAnswered(c) ==
    /\ c.kind = "logout" /\ Settle(c)
    /\ \/ api' = [api EXCEPT !.live = @ \ {c.sent}]
       \/ UNCHANGED api                       \* it never arrived
    /\ UNCHANGED <<page, told>>

OtherAnswered(c) ==
    /\ c.kind = "other" /\ ~Refused(c.sent) /\ Settle(c)
    /\ page' = [page EXCEPT !.raised = @ \/ c.sent.who \in api.pending]
    /\ UNCHANGED <<api, told>>

\* A form is refused for its token, or its password is wrong (a 401 too), or
\* nothing answers.
FormRefused(c) ==
    /\ c.kind \in {"login", "impersonate", "password", "accept", "account", "club", "other"}
    /\ Refused(c.sent) \/ c.kind = "login"
    /\ LET event == EndSession(page, c.sent)
       IN  /\ page' = [event.p EXCEPT !.loading = @ /\ c.kind # "login"]
           /\ calls' = (calls \ {c}) \cup event.sends
    /\ UNCHANGED <<api, told>>

FormFailed(c) ==
    /\ c.kind \in {"login", "signup", "reset", "impersonate", "password", "accept",
                   "account", "club", "other"}
    /\ Settle(c)
    /\ page' = [page EXCEPT !.loading = @ /\ c.kind # "login"]
    /\ UNCHANGED <<api, told>>

-----------------------------------------------------------------------------
\* Elsewhere: the club is suspended, or its password changed on another device.
Suspend(who) ==
    /\ who \notin api.shut \cup {"SUPER_ADMIN"}
    /\ api' = [api EXCEPT !.shut = @ \cup {who},
                          !.live = {u \in @ : u.who # who}]
    /\ UNCHANGED <<calls, page, told>>

Answer(c) ==
    \/ MeAnswered(c) \/ MeRefused(c) \/ MeFailed(c) \/ MeRetried(c)
    \/ LoginAnswered(c) \/ SignUpAnswered(c) \/ ResetAnswered(c) \/ ImpersonateAnswered(c)
    \/ PasswordAnswered(c) \/ TermsAnswered(c) \/ DetailsAnswered(c) \/ EverywhereAnswered(c)
    \/ LogoutAnswered(c) \/ OtherAnswered(c) \/ FormRefused(c) \/ FormFailed(c)

SessionNext ==
    \/ Redirect \/ \E path \in Path : Navigate(path)
    \/ \E c \in calls : Answer(c)
    \/ SignUpPlayer \/ RegisterClub
    \/ \E who \in Account : Login(who) \/ ResetPassword(who) \/ Impersonate(who) \/ Suspend(who)
    \/ ChooseFirstPassword \/ ChangePassword \/ SaveAccount \/ SaveClub \/ AcceptTerms \/ LogoutEverywhere \/ AskAnything
    \/ LogOut \/ StopImpersonating

SessionSpec == SessionInit /\ [][SessionNext]_clientVars

\* A redirect is followed and a request comes to an end; nobody has to click.
SessionFairness ==
    /\ WF_clientVars(page.at = "session" /\ Redirect)
    /\ WF_clientVars(page.at = "session" /\ \E c \in calls : Answer(c))

\* A request that is refused costs the tab no token the API still takes: a 401
\* for a token given up on purpose ends nothing, and a lent account that stops
\* working leaves the super admin's own session (apiRequest, onSessionEnded and
\* swapBackToImpersonator).  The profile fetch and a mistyped password are not
\* covered.
RefusalKeepsLive ==
    [][\A c \in calls \ calls' :
          (c.kind \in {"impersonate", "password", "accept", "account", "club", "other"}
              /\ Refused(c.sent))
              => \A t \in {page.held, page.parked} \ {None} :
                     ~Refused(t) => t \in {page'.held, page'.parked}]_clientVars

\* What is parked is always a super admin's own token, so leaving an
\* impersonation never opens onto another one (impersonate).
ParkedIsOwn ==
    page.at = "session" /\ page.parked # None
        => page.parked.who = "SUPER_ADMIN" /\ ~page.parked.imp

\* The guards always come to rest on a page the account may see, or on the
\* sign-in page: the loader ends however the profile fetch fares, and no role is
\* sent round in circles (ProtectedRoute, roleHome, landingAfterLogin, App's
\* routes).
AtRest ==
    IF page.path \in PublicRoutes THEN Target = page.path
    ELSE ~page.loading /\ IsAuthenticated /\ page.user.who \in AllowedRoles(page.path)
ComesToRest == page.at = "session" ~> (page.at = "session" /\ AtRest)

\* An account lent to a super admin that stops working "ends the impersonation, not
\* the super admin's own session" (fetchCurrentUser): a profile fetch that is refused
\* takes no token of an admin that the API still takes out of storage.
AdminKeepsSession ==
    [][\A c \in calls \ calls' :
          (c.kind = "me" /\ c.sent = page.held /\ page.parked # None /\ ~Refused(page.parked))
              => page.parked \in {page'.held, page'.parked}]_clientVars
=============================================================================
