---------------------------- MODULE ClientProofs ----------------------------
(***************************************************************************)
(* Theorems about the browser's application, for any accounts, players,    *)
(* squads, payments and plays, any number of steps, and requests answered  *)
(* in any order.  Seven pages have an inductive invariant of their own     *)
(* over the variables of Client: the signed-in session, the team entry     *)
(* wizard, the cricket and football consoles, the office pages, the        *)
(* stadium display and the team sheet editor.  At the end they are put     *)
(* together: the client shows one page at a time.                          *)
(***************************************************************************)
EXTENDS ClientPages, FiniteSums, TLAPS

----------------------------------------------------------------------------
(***************************************************************************)
(* The signed-in session                                                   *)
(***************************************************************************)

\* A token lent to a super admin is never of a super admin's account; one that
\* is parked is a super admin's own.
Lendable(t) == t # None /\ t.who = "SUPER_ADMIN" => ~ t.imp
Own(t) == t # None => t.who = "SUPER_ADMIN" /\ ~ t.imp

SessionFields == {"at", "held", "parked", "token", "user", "loading", "raised", "path", "back", "forms"}

OkPage(p) ==
    /\ p = [f \in SessionFields |-> p[f]] /\ p.at = "session"
    /\ Lendable(p.held) /\ Own(p.parked)

OkCall(c) ==
    /\ c.kind # "wait" => Lendable(c.sent)
    /\ c.kind = "impersonate" => c.who # "SUPER_ADMIN"

OkCalls(S) == \A c \in S : OkCall(c)

\* The inductive invariant.
SessionOk == OkPage(page) /\ OkCalls(calls)

----------------------------------------------------------------------------
(* The helpers *)

\* Columns other than the two storage keys.
LEMMA OtherColumn ==
    ASSUME NEW p, OkPage(p), NEW f \in SessionFields \ {"at", "held", "parked"}, NEW x
    PROVE  /\ OkPage([p EXCEPT ![f] = x])
           /\ [p EXCEPT ![f] = x].held = p.held /\ [p EXCEPT ![f] = x].parked = p.parked
BY DEF OkPage, SessionFields

LEMMA HeldSet ==
    ASSUME NEW p, OkPage(p), NEW t, Lendable(t)
    PROVE  OkPage([p EXCEPT !.held = t]) /\ [p EXCEPT !.held = t].parked = p.parked
BY DEF OkPage, SessionFields

LEMMA ParkedSet ==
    ASSUME NEW p, OkPage(p), NEW t, Own(t)
    PROVE  OkPage([p EXCEPT !.parked = t]) /\ [p EXCEPT !.parked = t].held = p.held
BY DEF OkPage, SessionFields

LEMMA NoneOk == Lendable(None) /\ Own(None) /\ \A t : Own(t) => Lendable(t)
BY DEF Lendable, Own

LEMMA OpensOk == ASSUME NEW p, OkPage(p), NEW path PROVE OkPage(Opens(p, path))
<1>1. OkPage([p EXCEPT !["path"] = path])
  BY OtherColumn DEF SessionFields
<1>2. OkPage([[p EXCEPT !["path"] = path] EXCEPT !["back"] = None])
  BY <1>1, OtherColumn DEF SessionFields
<1> QED BY <1>2 DEF Opens

LEMMA ClearedOk == ASSUME NEW p, OkPage(p) PROVE OkPage(Cleared(p))
<1>1. OkPage([p EXCEPT !.held = None])
  BY HeldSet, NoneOk
<1>2. OkPage([[p EXCEPT !.held = None] EXCEPT !.parked = None])
  BY <1>1, ParkedSet, NoneOk
<1> DEFINE q == [[p EXCEPT !.held = None] EXCEPT !.parked = None]
<1> HIDE DEF q
<1>3. OkPage([q EXCEPT !["token"] = None])
  BY <1>2, OtherColumn DEF SessionFields, q
<1>4. OkPage([[q EXCEPT !["token"] = None] EXCEPT !["user"] = None])
  BY <1>3, OtherColumn DEF SessionFields
<1> QED BY <1>4 DEF Cleared, q

LEMMA LoadingOk ==
    ASSUME NEW p, OkPage(p), NEW x
    PROVE  /\ OkPage([p EXCEPT !.loading = x]) /\ [p EXCEPT !.loading = x].held = p.held
           /\ [p EXCEPT !.loading = x].parked = p.parked
BY OtherColumn DEF SessionFields

LEMMA MeOk ==
    ASSUME NEW run, NEW sent, Lendable(sent), NEW n, NEW after PROVE OkCall(Me(run, sent, n, after))
BY DEF OkCall, Me

LEMMA LogoutOk == ASSUME NEW t, Lendable(t) PROVE OkCall(Logout(t))
BY DEF OkCall, Logout

LEMMA FetchOk ==
    ASSUME NEW p, OkPage(p), NEW after
    PROVE  OkPage(Fetch(p, after).p) /\ OkCalls(Fetch(p, after).sends)
<1>1. CASE p.held = None
  <2>1. OkPage([p EXCEPT !["user"] = None])
    BY OtherColumn DEF SessionFields
  <2>2. OkPage([[p EXCEPT !["user"] = None] EXCEPT !["loading"] = FALSE])
    BY <2>1, OtherColumn DEF SessionFields
  <2> QED BY <1>1, <2>2 DEF Fetch, OkCalls
<1>2. CASE p.held # None
  <2>1. OkPage([p EXCEPT !.loading = TRUE])
    BY LoadingOk
  <2>2. OkCall(Me(p.held, p.held, 0, after))
    BY MeOk DEF OkPage
  <2> QED BY <1>2, <2>1, <2>2 DEF Fetch, OkCalls
<1> QED BY <1>1, <1>2

LEMMA SwapBackOk ==
    ASSUME NEW p, OkPage(p)
    PROVE  OkPage(SwapBack(p).p) /\ SwapBack(p).p.parked = None
<1> DEFINE q == [p EXCEPT !.parked = None]
           t == IF p.parked # None /\ p.parked # p.held THEN p.parked ELSE p.held
<1>1. OkPage(q) /\ q.held = p.held /\ q.parked = None
  BY ParkedSet, NoneOk DEF OkPage, SessionFields
<1>2. Lendable(t)
  BY NoneOk DEF OkPage
<1>3. SwapBack(p).p = [q EXCEPT !.held = t]
  BY <1>1 DEF SwapBack, OkPage, SessionFields
<1> HIDE DEF q, t
<1> QED BY <1>1, <1>2, <1>3, HeldSet

LEMMA ReturnedOk ==
    ASSUME NEW p, OkPage(p), NEW user, NEW after
    PROVE  OkPage(Returned(p, user, after).p) /\ OkCalls(Returned(p, user, after).sends)
<1> DEFINE q == [SwapBack(p).p EXCEPT !.token = p.parked, !.user = user]
<1>1. OkPage(q)
  <2>1. OkPage([SwapBack(p).p EXCEPT !["token"] = p.parked])
    BY SwapBackOk, OtherColumn DEF SessionFields
  <2>2. OkPage([[SwapBack(p).p EXCEPT !["token"] = p.parked] EXCEPT !["user"] = user])
    BY <2>1, OtherColumn DEF SessionFields
  <2> QED BY <2>2
<1> HIDE DEF q
<1>2. OkPage(Fetch(q, after).p) /\ OkCalls(Fetch(q, after).sends)
  BY <1>1, FetchOk
<1>3. OkCall(Logout(p.held))
  BY LogoutOk DEF OkPage
<1>4. Returned(p, user, after) = [p |-> Fetch(q, after).p,
                                  sends |-> Fetch(q, after).sends \cup {Logout(p.held)}]
  BY DEF Returned, q
<1> QED BY <1>2, <1>3, <1>4 DEF OkCalls

LEMMA EndedOk ==
    ASSUME NEW p, OkPage(p)
    PROVE  OkPage(SessionEnded(p).p) /\ OkCalls(SessionEnded(p).sends)
BY ReturnedOk, SwapBackOk, ClearedOk DEF SessionEnded, OkCalls

LEMMA EndOk ==
    ASSUME NEW p, OkPage(p), NEW sent
    PROVE  OkPage(EndSession(p, sent).p) /\ OkCalls(EndSession(p, sent).sends)
BY EndedOk DEF EndSession, OkCalls

LEMMA ResumedOk == ASSUME NEW p, OkPage(p), NEW after PROVE OkPage(Resumed(p, after))
<1>1. OkPage([p EXCEPT !["raised"] = FALSE])
  BY OtherColumn DEF SessionFields
<1> QED BY <1>1, OpensOk DEF Resumed

LEMMA RejectedOk ==
    ASSUME NEW p, OkPage(p), NEW after
    PROVE  OkPage(ProfileRejected(p, after).p) /\ OkCalls(ProfileRejected(p, after).sends)
<1>1. OkPage(Resumed([Cleared(p) EXCEPT !.loading = FALSE], after))
  BY ClearedOk, LoadingOk, ResumedOk
<1> QED BY <1>1, ReturnedOk DEF ProfileRejected, OkCalls

----------------------------------------------------------------------------
(* The answers to a profile fetch, and the form's *)

LEMMA MeanwhileOk ==
    ASSUME SessionOk, NEW S, OkCalls(S), NEW p, OkPage(p), NEW c,
           page' = p, calls' = (calls \ {c}) \cup S
    PROVE  SessionOk'
BY DEF SessionOk, OkCalls

LEMMA SettledOk ==
    ASSUME SessionOk, NEW c, Settle(c), NEW p, OkPage(p), page' = p PROVE SessionOk'
BY DEF SessionOk, OkCalls, Settle

LEMMA ProfileAnswers ==
    ASSUME SessionOk, NEW c \in calls,
           MeAnswered(c) \/ MeRefused(c) \/ MeFailed(c) \/ MeRetried(c)
    PROVE  SessionOk'
<1>0. OkPage(page) /\ OkCalls(calls)
  BY DEF SessionOk
<1>1. CASE MeAnswered(c)
  <2> DEFINE u == UserOf(c.sent)
             r == Raised(u)
             q == [page EXCEPT !.user = u, !.loading = FALSE, !.raised = r]
  <2>1. Settle(c) /\ page' = Resumed(q, c.after)
    BY <1>1 DEF MeAnswered
  <2> HIDE DEF u, r
  <2>2. OkPage([page EXCEPT !["user"] = u])
    BY <1>0, OtherColumn DEF SessionFields
  <2>3. OkPage([[page EXCEPT !["user"] = u] EXCEPT !["loading"] = FALSE])
    BY <2>2, OtherColumn DEF SessionFields
  <2>4. OkPage([[[page EXCEPT !["user"] = u] EXCEPT !["loading"] = FALSE] EXCEPT !["raised"] = r])
    BY <2>3, OtherColumn DEF SessionFields
  <2>5. OkPage(q)
    BY <2>4
  <2> HIDE DEF q
  <2> QED BY <2>1, <2>5, ResumedOk, SettledOk
<1>2. CASE MeRefused(c)
  <2> DEFINE e == EndSession(page, c.sent)
             k == ProfileRejected(e.p, c.after)
  <2>1. page' = k.p /\ calls' = (calls \ {c}) \cup (e.sends \cup k.sends)
    BY <1>2 DEF MeRefused
  <2>2. OkPage(e.p) /\ OkCalls(e.sends)
    BY <1>0, EndOk
  <2> HIDE DEF e
  <2>3. OkPage(k.p) /\ OkCalls(k.sends)
    BY <2>2, RejectedOk
  <2> HIDE DEF k
  <2>4. OkCalls(e.sends \cup k.sends)
    BY <2>2, <2>3 DEF OkCalls
  <2> QED BY <2>1, <2>3, <2>4, MeanwhileOk
<1>3. CASE MeFailed(c)
  <2>1. CASE page' = Resumed([page EXCEPT !.loading = FALSE], c.after) /\ Settle(c)
    BY <1>0, <2>1, LoadingOk, ResumedOk, SettledOk
  <2>2. CASE /\ calls' = (calls \ {c}) \cup {[kind |-> "wait", run |-> c.run, n |-> c.n + 1,
                                              after |-> c.after]}
             /\ UNCHANGED page
    <3>1. OkCall([kind |-> "wait", run |-> c.run, n |-> c.n + 1, after |-> c.after])
      BY DEF OkCall
    <3> QED BY <1>0, <2>2, <3>1 DEF SessionOk, OkCalls
  <2> QED BY <1>3, <2>1, <2>2 DEF MeFailed
<1>4. CASE MeRetried(c)
  <2>1. OkCall(Me(c.run, page.held, c.n, c.after))
    BY <1>0, MeOk DEF OkPage
  <2> QED BY <1>0, <1>4, <2>1 DEF MeRetried, SessionOk, OkCalls
<1> QED BY <1>1, <1>2, <1>3, <1>4

\* A form on its way: the page counts it, and nothing of storage changes.
LEMMA SubmitOk ==
    ASSUME SessionOk, NEW k, OkCall(k), Submit(k) PROVE SessionOk'
<1>1. OkPage([page EXCEPT !["forms"] = page["forms"] + 1])
  BY OtherColumn DEF SessionOk, SessionFields
<1> QED BY <1>1 DEF Submit, Send, SessionOk, OkCalls

LEMMA SignInOk ==
    ASSUME NEW p, OkPage(p), NEW who, NEW go
    PROVE  OkPage(SignIn(p, who, go).p) /\ OkCall(SignIn(p, who, go).call)
<1>1. OkPage([p EXCEPT !.loading = TRUE])
  BY LoadingOk
<1> QED BY <1>1 DEF SignIn, OkCall, OkPage

LEMMA StartOk == ASSUME SessionOk, NEW who, NEW go, StartSession(who, go) PROVE SessionOk'
<1> DEFINE q == SignIn(page, who, go).p
<1>1. OkPage(q) /\ OkCall(SignIn(page, who, go).call)
  BY SignInOk DEF SessionOk
<1>2. page' = [q EXCEPT !.forms = @ + 1] /\ calls' = calls \cup {SignIn(page, who, go).call}
  BY DEF StartSession, Send
<1> HIDE DEF q
<1>3. OkPage([q EXCEPT !["forms"] = q["forms"] + 1])
  BY <1>1, OtherColumn DEF SessionFields
<1> QED BY <1>1, <1>2, <1>3 DEF SessionOk, OkCalls

LEMMA FormsOk ==
    ASSUME SessionOk,
           \/ SignUpPlayer \/ RegisterClub
           \/ \E who \in Account : Login(who) \/ ResetPassword(who) \/ Impersonate(who)
           \/ ChooseFirstPassword \/ ChangePassword \/ SaveAccount \/ SaveClub \/ AcceptTerms
           \/ LogoutEverywhere \/ AskAnything
    PROVE  SessionOk'
<1>1. Lendable(page.held)
  BY DEF SessionOk, OkPage
<1>2. CASE RegisterClub \/ \E who \in Account : Login(who)
  BY <1>2, StartOk DEF RegisterClub, Login
<1>3. CASE SignUpPlayer
  BY <1>1, <1>3, SubmitOk DEF SignUpPlayer, OkCall
<1>4. CASE \E who \in Account : ResetPassword(who)
  BY <1>1, <1>4, SubmitOk DEF ResetPassword, OkCall
<1>5. CASE \E who \in Account : Impersonate(who)
  BY <1>1, <1>5, SubmitOk DEF Impersonate, OkCall
<1>6. CASE ChooseFirstPassword \/ ChangePassword
  BY <1>1, <1>6, SubmitOk DEF ChooseFirstPassword, ChangePassword, OkCall
<1>7. CASE SaveAccount \/ SaveClub \/ AcceptTerms \/ LogoutEverywhere \/ AskAnything
  BY <1>1, <1>7, SubmitOk
     DEF SaveAccount, SaveClub, AcceptTerms, LogoutEverywhere, AskAnything, OkCall
<1> QED BY <1>2, <1>3, <1>4, <1>5, <1>6, <1>7

----------------------------------------------------------------------------
(* The answers to the forms *)

LEMMA IssuedOk ==
    ASSUME NEW who, NEW imp, imp => who # "SUPER_ADMIN", imp \in BOOLEAN
    PROVE  Lendable(Issued(who, imp))
BY DEF Lendable, Issued

LEMMA AdoptedOk == ASSUME NEW p, OkPage(p), NEW t, Lendable(t) PROVE OkPage(Adopted(p, t))
<1>1. OkPage([p EXCEPT !.held = t])
  BY HeldSet
<1>2. OkPage([[p EXCEPT !.held = t] EXCEPT !["token"] = t])
  BY <1>1, OtherColumn DEF SessionFields
<1> QED BY <1>2 DEF Adopted

LEMMA LoginAnsweredOk == ASSUME SessionOk, NEW c, LoginAnswered(c) PROVE SessionOk'
<1> DEFINE t == Issued(c.who, FALSE)
           u == UserOf(t)
           r == Raised(u)
           q == [page EXCEPT !.held = t, !.parked = None, !.token = t, !.user = u,
                             !.loading = FALSE, !.raised = r]
<1>1. page' = Opens(q, c.go) /\ Settle(c)
  BY DEF LoginAnswered
<1>2. Lendable(t)
  BY IssuedOk
<1> HIDE DEF t, u, r
<1>3. OkPage(page)
  BY DEF SessionOk
<1> DEFINE q1 == [page EXCEPT !.held = t]
           q2 == [q1 EXCEPT !.parked = None]
           q3 == [q2 EXCEPT !["token"] = t]
           q4 == [q3 EXCEPT !["user"] = u]
           q5 == [q4 EXCEPT !["loading"] = FALSE]
<1>4. q = [q5 EXCEPT !["raised"] = r]
  OBVIOUS
<1>5. OkPage(q1)
  BY <1>2, <1>3, HeldSet
<1> HIDE DEF q1
<1>6. OkPage(q2)
  BY <1>5, ParkedSet, NoneOk
<1> HIDE DEF q2
<1>7. OkPage(q3)
  BY <1>6, OtherColumn DEF SessionFields
<1> HIDE DEF q3
<1>8. OkPage(q4)
  BY <1>7, OtherColumn DEF SessionFields
<1> HIDE DEF q4
<1>9. OkPage(q5)
  BY <1>8, OtherColumn DEF SessionFields
<1> HIDE DEF q5
<1>10. OkPage([q5 EXCEPT !["raised"] = r])
  BY <1>9, OtherColumn DEF SessionFields
<1>11. OkPage(q)
  BY <1>4, <1>10
<1> HIDE DEF q
<1> QED BY <1>1, <1>11, OpensOk, SettledOk

LEMMA SignUpAnsweredOk == ASSUME SessionOk, NEW c, SignUpAnswered(c) PROVE SessionOk'
<1> DEFINE t == Issued("PLAYER", FALSE)
           q == [page EXCEPT !.held = t]
           in == SignIn(q, "PLAYER", "/player/dashboard")
<1>1. page' = in.p /\ calls' = (calls \ {c}) \cup {in.call}
  BY DEF SignUpAnswered
<1>2. OkPage(q)
  BY IssuedOk, HeldSet DEF SessionOk
<1> HIDE DEF q
<1>3. OkPage(in.p) /\ OkCall(in.call)
  BY <1>2, SignInOk
<1> HIDE DEF in
<1> QED BY <1>1, <1>3 DEF SessionOk, OkCalls

LEMMA ResetAnsweredOk == ASSUME SessionOk, NEW c, ResetAnswered(c) PROVE SessionOk'
<1> DEFINE t == Issued(c.who, FALSE)
           q == Adopted(page, t)
           look == FirstLook(t, RoleHome(c.who))
<1>1. page' = [q EXCEPT !.loading = TRUE] /\ calls' = (calls \ {c}) \cup {look}
  BY DEF ResetAnswered
<1>2. Lendable(t)
  BY IssuedOk
<1>3. OkCall(look)
  BY <1>2 DEF FirstLook, OkCall
<1> HIDE DEF t, look
<1>4. OkPage(q)
  BY <1>2, AdoptedOk DEF SessionOk
<1> HIDE DEF q
<1>5. OkPage(page')
  BY <1>1, <1>4, LoadingOk
<1> QED BY <1>1, <1>3, <1>5 DEF SessionOk, OkCalls

\* The one step that parks a token: the one that asked, a super admin's own.
LEMMA ImpersonateAnsweredOk == ASSUME SessionOk, NEW c \in calls, ImpersonateAnswered(c) PROVE SessionOk'
<1> DEFINE t == Issued(c.who, TRUE)
           k == IF c.sent # None THEN c.sent ELSE page.parked
           u == UserOf(t)
           r == Raised(u)
           q == Lent(page, c, t)
<1>1. /\ page' = Opens([q EXCEPT !.raised = r], RoleHome(c.who)) /\ Settle(c)
      /\ c.kind = "impersonate" /\ ~ Refused(c.sent) /\ c.sent.who = "SUPER_ADMIN"
  BY DEF ImpersonateAnswered
<1>2. OkCall(c) /\ OkPage(page)
  BY DEF SessionOk, OkCalls
<1>3. Lendable(t) /\ Own(k)
  <2>1. c.who # "SUPER_ADMIN" /\ Lendable(c.sent)
    BY <1>1, <1>2 DEF OkCall
  <2>2. Own(k)
    BY <1>1, <1>2, <2>1 DEF Own, Lendable, OkPage
  <2> QED BY <2>1, <2>2, IssuedOk
<1>4. q = [page EXCEPT !.parked = k, !.held = t, !.token = t, !.user = u]
  BY DEF Lent
<1> HIDE DEF t, k, u, r, q
<1> DEFINE q1 == [page EXCEPT !.parked = k]
           q2 == [q1 EXCEPT !.held = t]
           q3 == [q2 EXCEPT !["token"] = t]
<1>5. q = [q3 EXCEPT !["user"] = u]
  BY <1>4
<1>6. OkPage(q1)
  BY <1>2, <1>3, ParkedSet
<1> HIDE DEF q1
<1>7. OkPage(q2)
  BY <1>3, <1>6, HeldSet
<1> HIDE DEF q2
<1>8. OkPage(q3)
  BY <1>7, OtherColumn DEF SessionFields
<1> HIDE DEF q3
<1>9. OkPage(q)
  BY <1>5, <1>8, OtherColumn DEF SessionFields
<1>10. OkPage([q EXCEPT !["raised"] = r])
  BY <1>9, OtherColumn DEF SessionFields
<1>11. OkPage(page')
  BY <1>1, <1>10, OpensOk
<1> QED BY <1>1, <1>11, SettledOk

LEMMA PasswordAnsweredOk == ASSUME SessionOk, NEW c \in calls, PasswordAnswered(c) PROVE SessionOk'
<1> DEFINE t == Issued(c.sent.who, c.sent.imp)
           q == Adopted(page, t)
<1>1. /\ page' = [q EXCEPT !.loading = @ \/ c.refresh]
      /\ calls' = (calls \ {c}) \cup IF c.refresh THEN {FirstLook(t, "none")} ELSE {}
      /\ c.kind = "password" /\ ~ Refused(c.sent)
  BY DEF PasswordAnswered
<1>2. OkCall(c) /\ OkPage(page)
  BY DEF SessionOk, OkCalls
<1>3. Lendable(t)
  BY <1>1, <1>2 DEF OkCall, Lendable, Refused, Issued
<1>4. OkCall(FirstLook(t, "none"))
  BY <1>3 DEF FirstLook, OkCall
<1> HIDE DEF t
<1>5. OkPage(q)
  BY <1>2, <1>3, AdoptedOk
<1> HIDE DEF q
<1>6. OkPage(page')
  BY <1>1, <1>5, LoadingOk
<1> QED BY <1>1, <1>4, <1>6 DEF SessionOk, OkCalls

LEMMA RefetchOk ==
    ASSUME SessionOk, NEW c, NEW after, page' = Fetch(page, after).p,
           calls' = (calls \ {c}) \cup Fetch(page, after).sends
    PROVE  SessionOk'
BY FetchOk, MeanwhileOk DEF SessionOk

LEMMA EndingOk ==
    ASSUME SessionOk, NEW c, NEW sent, NEW p, OkPage(p), page' = p,
           calls' = (calls \ {c}) \cup EndSession(page, sent).sends
    PROVE  SessionOk'
<1>1. OkCalls(EndSession(page, sent).sends)
  BY EndOk DEF SessionOk
<1> QED BY <1>1, MeanwhileOk

LEMMA AnswersOk == ASSUME SessionOk, NEW c \in calls, Answer(c) PROVE SessionOk'
<1>0. OkPage(page)
  BY DEF SessionOk
<1>1. CASE TermsAnswered(c)
  BY <1>1, RefetchOk DEF TermsAnswered
<1>2. CASE DetailsAnswered(c)
  BY <1>2, RefetchOk DEF DetailsAnswered
<1>3. CASE EverywhereAnswered(c)
  <2>1. PICK event \in {[p |-> page, sends |-> {}]} \cup
                       IF Refused(c.sent) THEN {EndSession(page, c.sent)} ELSE {} :
           page' = Cleared(event.p) /\ calls' = (calls \ {c}) \cup event.sends
    BY <1>3 DEF EverywhereAnswered
  <2>2. OkPage(event.p) /\ OkCalls(event.sends)
    <3>1. OkPage(EndSession(page, c.sent).p) /\ OkCalls(EndSession(page, c.sent).sends)
      BY <1>0, EndOk
    <3>2. CASE event = [p |-> page, sends |-> {}]
      BY <1>0, <3>2 DEF OkCalls
    <3>3. CASE event = EndSession(page, c.sent)
      BY <3>1, <3>3
    <3> QED BY <2>1, <3>2, <3>3
  <2> QED BY <2>1, <2>2, ClearedOk, MeanwhileOk
<1>4. CASE LogoutAnswered(c)
  BY <1>0, <1>4, SettledOk DEF LogoutAnswered
<1>5. CASE OtherAnswered(c)
  <2> DEFINE x == page.raised \/ c.sent.who \in api.pending
  <2>1. page' = [page EXCEPT !["raised"] = x] /\ Settle(c)
    BY <1>5 DEF OtherAnswered
  <2> HIDE DEF x
  <2>2. OkPage([page EXCEPT !["raised"] = x])
    BY <1>0, OtherColumn DEF SessionFields
  <2> QED BY <2>1, <2>2, SettledOk
<1>6. CASE FormRefused(c)
  <2> DEFINE e == EndSession(page, c.sent)
             x == e.p.loading /\ c.kind # "login"
  <2>1. page' = [e.p EXCEPT !.loading = x] /\ calls' = (calls \ {c}) \cup e.sends
    BY <1>6 DEF FormRefused
  <2>2. OkPage(e.p)
    BY <1>0, EndOk
  <2> HIDE DEF x
  <2>3. OkPage([e.p EXCEPT !.loading = x])
    BY <2>2, LoadingOk
  <2> QED BY <2>1, <2>3, EndingOk
<1>7. CASE FormFailed(c)
  <2> DEFINE x == page.loading /\ c.kind # "login"
  <2>1. page' = [page EXCEPT !.loading = x] /\ Settle(c)
    BY <1>7 DEF FormFailed
  <2> HIDE DEF x
  <2>2. OkPage([page EXCEPT !.loading = x])
    BY <1>0, LoadingOk
  <2> QED BY <2>1, <2>2, SettledOk
<1> QED BY <1>1, <1>2, <1>3, <1>4, <1>5, <1>6, <1>7, ProfileAnswers, LoginAnsweredOk,
           SignUpAnsweredOk, ResetAnsweredOk, ImpersonateAnsweredOk, PasswordAnsweredOk DEF Answer

----------------------------------------------------------------------------
(* Routes, signing out, and the theorem *)

LEMMA RoutesOk ==
    ASSUME SessionOk, Redirect \/ \E path \in Path : Navigate(path)
    PROVE  SessionOk'
<1>1. PICK path, back : page' = [[page EXCEPT !["path"] = path] EXCEPT !["back"] = back]
                        /\ calls' = calls
  BY DEF Redirect, Navigate, PageOnly
<1>2. OkPage([page EXCEPT !["path"] = path])
  BY OtherColumn DEF SessionOk, SessionFields
<1>3. OkPage([[page EXCEPT !["path"] = path] EXCEPT !["back"] = back])
  BY <1>2, OtherColumn DEF SessionFields
<1> QED BY <1>1, <1>3 DEF SessionOk

LEMMA LogOutOk == ASSUME SessionOk, LogOut PROVE SessionOk'
<1>1. OkPage(Cleared(page)) /\ OkPage(Opens(Cleared(page), "/login"))
  BY ClearedOk, OpensOk DEF SessionOk
<1>2. OkCall(Logout(page.held))
  BY LogoutOk DEF SessionOk, OkPage
<1> QED BY <1>1, <1>2 DEF LogOut, SessionOk, OkCalls

LEMMA StopOk == ASSUME SessionOk, StopImpersonating PROVE SessionOk'
<1> DEFINE p == SwapBack(page).p
           out == [p |-> Opens(Cleared(p), "/admin/dashboard"),
                   sends |-> IF p.held = None THEN {} ELSE {Logout(p.held)}]
           back == Returned(page, None, "/admin/dashboard")
<1>1. OkPage(p)
  BY SwapBackOk DEF SessionOk
<1>2. OkPage(back.p) /\ OkCalls(back.sends)
  BY ReturnedOk DEF SessionOk
<1>3. \/ page' = back.p /\ calls' = calls \cup back.sends
      \/ page' = out.p /\ calls' = calls \cup out.sends
  BY DEF StopImpersonating
<1> HIDE DEF p, back
<1>4. OkPage(out.p) /\ OkCalls(out.sends)
  <2>1. OkCall(Logout(p.held))
    BY <1>1, LogoutOk DEF OkPage
  <2> QED BY <1>1, <2>1, ClearedOk, OpensOk DEF OkCalls
<1> HIDE DEF out
<1> QED BY <1>2, <1>3, <1>4 DEF SessionOk, OkCalls

LEMMA OkNext == ASSUME SessionOk, [SessionNext]_clientVars PROVE SessionOk'
<1>1. CASE UNCHANGED clientVars
  BY <1>1 DEF clientVars, SessionOk
<1>2. CASE \E who \in Account : Suspend(who)
  BY <1>2 DEF Suspend, SessionOk
<1> QED BY <1>1, <1>2, RoutesOk, AnswersOk, FormsOk, LogOutOk, StopOk DEF SessionNext

LEMMA OkInit == SessionInit => SessionOk
<1> SUFFICES ASSUME SessionInit PROVE SessionOk
  OBVIOUS
<1>1. PICK s \in Stored :
         /\ page = [at |-> "session", held |-> s.held, parked |-> s.parked,
                    token |-> s.held, user |-> None, loading |-> s.held # None,
                    raised |-> FALSE, path |-> "/", back |-> None, forms |-> 0]
         /\ calls = IF s.held = None THEN {}
                    ELSE {[kind |-> "me", run |-> s.held, sent |-> s.held, n |-> 0,
                           after |-> "none", ok |-> TRUE]}
  BY DEF SessionInit
<1>2. Lendable(s.held) /\ Own(s.parked)
  BY DEF Stored, Lendable, Own
<1>3. OkPage(page)
  <2>1. page.held = s.held /\ page.parked = s.parked
    BY <1>1
  <2>2. page = [f \in SessionFields |-> page[f]] /\ page.at = "session"
    BY <1>1 DEF SessionFields
  <2> QED BY <1>2, <2>1, <2>2 DEF OkPage
<1>4. OkCalls(calls)
  BY <1>1, <1>2 DEF OkCalls, OkCall
<1> QED BY <1>3, <1>4 DEF SessionOk

\* What a tab keeps parked is always a super admin's own token, however sign-ins,
\* impersonations, changes of password, sign-outs and refusals are answered, late or
\* crosswise: leaving an impersonation never opens onto another one (impersonate,
\* swapBackToImpersonator).
THEOREM ParkedStaysOwn == SessionSpec => []ParkedIsOwn
<1>1. SessionSpec => []SessionOk
  BY OkInit, OkNext, PTL DEF SessionSpec
<1>2. SessionOk => ParkedIsOwn
  BY DEF SessionOk, OkPage, Own, ParkedIsOwn
<1> QED BY <1>1, <1>2, PTL

----------------------------------------------------------------------------
(* A refusal ends no session whose token still works *)

\* What a tab goes back to when the token in use was refused.
LEMMA BackToParked ==
    ASSUME NEW p, OkPage(p), p.parked # None, p.parked # p.held
    PROVE  SessionEnded(p).p.held = p.parked
<1> DEFINE s == SwapBack(p)
           q == [[s.p EXCEPT !["token"] = p.parked] EXCEPT !["user"] = None]
<1>1. s.back /\ s.p.held = p.parked
  BY DEF SwapBack, OkPage, SessionFields
<1>2. OkPage(s.p)
  BY SwapBackOk
<1>3. Returned(p, None, "none").p = Fetch(q, "none").p
  BY DEF Returned
<1> HIDE DEF s
<1>4. OkPage(q) /\ q.held = p.parked
  <2> DEFINE r == [s.p EXCEPT !["token"] = p.parked]
  <2>1. OkPage(r) /\ r.held = s.p.held
    BY <1>2, OtherColumn DEF SessionFields
  <2> HIDE DEF r
  <2>2. OkPage([r EXCEPT !["user"] = None]) /\ [r EXCEPT !["user"] = None].held = r.held
    BY <2>1, OtherColumn DEF SessionFields
  <2> QED BY <1>1, <2>1, <2>2 DEF r
<1> HIDE DEF q
<1>5. OkPage([q EXCEPT !.loading = TRUE]) /\ [q EXCEPT !.loading = TRUE].held = p.parked
  BY <1>4, LoadingOk
<1>6. Fetch(q, "none").p.held = p.parked
  BY <1>4, <1>5 DEF Fetch
<1> QED BY <1>1, <1>3, <1>6 DEF SessionEnded, s

\* A step ends one request at most, by an answer to it.
LEMMA EndedByAnswer ==
    ASSUME [SessionNext]_clientVars, NEW c \in calls \ calls'
    PROVE  Answer(c)
<1>1. CASE \E d \in calls : Answer(d)
  <2>1. PICK d \in calls : Answer(d)
    BY <1>1
  <2>2. calls \ {d} \subseteq calls'
    BY <2>1 DEF Answer, MeAnswered, MeRefused, MeFailed, MeRetried, LoginAnswered, SignUpAnswered,
       ResetAnswered, ImpersonateAnswered, PasswordAnswered, TermsAnswered, DetailsAnswered,
       EverywhereAnswered, LogoutAnswered, OtherAnswered, FormRefused, FormFailed, Settle
  <2> QED BY <2>1, <2>2
<1>2. CASE UNCHANGED clientVars
  BY <1>2 DEF clientVars
<1>3. CASE Redirect \/ \E path \in Path : Navigate(path)
  BY <1>3 DEF Redirect, Navigate, PageOnly
<1>4. CASE \E who \in Account : Suspend(who)
  BY <1>4 DEF Suspend
<1>5. CASE LogOut \/ StopImpersonating
  BY <1>5 DEF LogOut, StopImpersonating
<1>6. ASSUME NEW x, Send(x) PROVE FALSE
  BY <1>6 DEF Send
<1>7. CASE SignUpPlayer \/ RegisterClub \/ ChooseFirstPassword \/ ChangePassword \/ SaveAccount
           \/ SaveClub \/ AcceptTerms \/ LogoutEverywhere \/ AskAnything
           \/ \E who \in Account : Login(who) \/ ResetPassword(who) \/ Impersonate(who)
  BY <1>6, <1>7 DEF SignUpPlayer, RegisterClub, ChooseFirstPassword, ChangePassword, SaveAccount,
     SaveClub, AcceptTerms, LogoutEverywhere, AskAnything, Login, ResetPassword, Impersonate,
     Submit, StartSession
<1> QED BY <1>1, <1>2, <1>3, <1>4, <1>5, <1>7 DEF SessionNext

LEMMA RefusalStep ==
    ASSUME SessionOk, [SessionNext]_clientVars, NEW c \in calls \ calls',
           c.kind \in {"impersonate", "password", "accept", "account", "club", "other"},
           Refused(c.sent), NEW t \in {page.held, page.parked} \ {None}, ~ Refused(t)
    PROVE  t \in {page'.held, page'.parked}
<1>1. FormRefused(c) \/ FormFailed(c)
  BY EndedByAnswer DEF Answer, MeAnswered, MeRefused, MeFailed, MeRetried, LoginAnswered,
     SignUpAnswered, ResetAnswered, ImpersonateAnswered, PasswordAnswered, TermsAnswered,
     DetailsAnswered, EverywhereAnswered, LogoutAnswered, OtherAnswered
<1>2. CASE FormFailed(c)
  <2> DEFINE x == page.loading /\ c.kind # "login"
  <2>1. page' = [page EXCEPT !.loading = x]
    BY <1>2 DEF FormFailed
  <2> HIDE DEF x
  <2> QED BY <2>1, LoadingOk DEF SessionOk
<1>3. CASE FormRefused(c)
  <2> DEFINE e == EndSession(page, c.sent).p
             x == e.loading /\ c.kind # "login"
  <2>1. page' = [e EXCEPT !.loading = x]
    BY <1>3 DEF FormRefused
  <2>2. OkPage(e)
    BY EndOk DEF SessionOk
  <2> HIDE DEF x
  <2>3. page'.held = e.held /\ page'.parked = e.parked
    BY <2>1, <2>2, LoadingOk
  <2>4. CASE c.sent # None /\ page.held = c.sent
    <3>1. t = page.parked /\ t # page.held /\ t # None
      BY <2>4
    <3> QED BY <2>3, <2>4, <3>1, BackToParked DEF EndSession, SessionOk
  <2>5. CASE ~ (c.sent # None /\ page.held = c.sent)
    BY <2>3, <2>5 DEF EndSession
  <2> QED BY <2>4, <2>5
<1> QED BY <1>1, <1>2, <1>3

\* A request that is refused costs the tab no token the API still takes, whatever was
\* adopted, lent or given up while it was under way: a 401 for a token no longer in use
\* ends nothing, and a lent account that stops working leaves the super admin's own
\* session (apiRequest, onSessionEnded, swapBackToImpersonator).
THEOREM RefusalsSpare == SessionSpec => RefusalKeepsLive
<1>1. SessionSpec => []SessionOk
  BY OkInit, OkNext, PTL DEF SessionSpec
<1>2. SessionOk /\ [SessionNext]_clientVars =>
        [\A c \in calls \ calls' :
          (c.kind \in {"impersonate", "password", "accept", "account", "club", "other"}
              /\ Refused(c.sent))
              => \A t \in {page.held, page.parked} \ {None} :
                     ~Refused(t) => t \in {page'.held, page'.parked}]_clientVars
  BY RefusalStep
<1> QED BY <1>1, <1>2, PTL DEF SessionSpec, RefusalKeepsLive

----------------------------------------------------------------------------
(***************************************************************************)
(* The team entry wizard                                                   *)
(***************************************************************************)

PageFields == {"at", "ready", "closed", "missing", "step", "filled", "paid", "terms", "busy",
               "stage", "outcome", "done", "restored", "stored", "unsaved", "dropped", "edits"}
ApiFields == {"entry", "open", "taken", "refunded"}
ToldFields == {"reported", "lost"}

EntryShape(r, F) == r = [f \in F |-> r[f]] /\ ("at" \in F => r.at = "entry")

Shapes == EntryShape(page, PageFields) /\ EntryShape(api, ApiFields) /\ EntryShape(told, ToldFields)

\* The payment that waits to be settled.
Open == Unsettled \ told.lost

\* What the page's columns say while a request is under way.
Agrees(c, p) ==
    /\ c.kind = "link" => ~ p.ready
    /\ c.kind # "link" => p.busy
    /\ c.kind \in {"validate", "order", "checkout"} => p.outcome # "recover"
    /\ c.kind = "submit" => IF c.paid = None THEN p.outcome # "recover"
                            ELSE p.paid = c.paid /\ p.stage = "success"

\* One request at a time.
OneCall == \A c, d \in calls : c = d

\* A payment that waits is the page's, which recovers it or submits it.
Waiting ==
    /\ Open \subseteq {page.paid}
    /\ page.paid # None => \/ page.outcome = "recover"
                           \/ \E c \in calls : c.kind = "submit" /\ c.paid = page.paid
    /\ None \notin told.reported

\* With the receipt shown, nothing is under way and no draft is left.
Receipt(p) == p.done => p.step = 5 /\ p.stored = None /\ p.unsaved = None

EntryInv ==
    /\ Shapes /\ OneCall /\ Waiting
    /\ \A c \in calls : Agrees(c, page)
    /\ Receipt(page) /\ (page.done => calls = {})

----------------------------------------------------------------------------
(* Columns of the page *)

LEMMA Column ==
    ASSUME NEW F, NEW r, EntryShape(r, F), NEW f \in F \ {"at"}, NEW x
    PROVE  /\ EntryShape([r EXCEPT ![f] = x], F) /\ [r EXCEPT ![f] = x][f] = x
           /\ \A g \in F \ {f} : [r EXCEPT ![f] = x][g] = r[g]
BY DEF EntryShape

\* What the invariant reads of the page, the step and the draft apart.
Same(p, q) ==
    /\ EntryShape(q, PageFields)
    /\ q.ready = p.ready /\ q.busy = p.busy /\ q.outcome = p.outcome
    /\ q.paid = p.paid /\ q.done = p.done /\ q.stage = p.stage

LEMMA KeptSame ==
    ASSUME NEW p, EntryShape(p, PageFields)
    PROVE  Same(p, Kept(p))
<1> DEFINE q == [p EXCEPT !["unsaved"] = Snapshot(p)]
<1>1. EntryShape(q, PageFields) /\ \A g \in PageFields \ {"unsaved"} : q[g] = p[g]
  BY Column DEF PageFields
<1>2. Kept(p) = p \/ Kept(p) = q
  BY DEF Kept
<1> HIDE DEF q
<1> QED BY <1>1, <1>2 DEF Same, PageFields

LEMMA KeptReceipt ==
    ASSUME NEW p, EntryShape(p, PageFields), Receipt(p), p.done
    PROVE  Kept(p) = p
BY DEF Kept, Receipt, Finished

LEMMA SameShape ==
    ASSUME NEW p, EntryShape(p, PageFields)
    PROVE  Same(p, p)
BY DEF Same

LEMMA SameChain ==
    ASSUME NEW p, NEW q, NEW r, Same(p, q), Same(q, r)
    PROVE  Same(p, r)
BY DEF Same

\* One column beside those.
LEMMA SameBut ==
    ASSUME NEW p, EntryShape(p, PageFields), NEW x,
           NEW f \in PageFields \ {"at", "ready", "busy", "outcome", "paid", "done", "stage"}
    PROVE  Same(p, [p EXCEPT ![f] = x])
<1> DEFINE q == [p EXCEPT ![f] = x]
<1>1. EntryShape(q, PageFields) /\ \A g \in PageFields \ {f} : q[g] = p[g]
  BY Column
<1> HIDE DEF q
<1>2. Same(p, q)
  BY <1>1 DEF Same, PageFields
<1> QED BY <1>2 DEF q

LEMMA IdleCols ==
    ASSUME NEW p, EntryShape(p, PageFields)
    PROVE  /\ EntryShape(Idle(p), PageFields) /\ ~ Idle(p).busy
           /\ Idle(p).ready = p.ready /\ Idle(p).outcome = p.outcome /\ Idle(p).paid = p.paid
           /\ Idle(p).done = p.done /\ Idle(p).stored = p.stored /\ Idle(p).step = p.step
           /\ Idle(p).unsaved = p.unsaved
<1> DEFINE q == [p EXCEPT !["busy"] = FALSE]
<1>1. EntryShape(q, PageFields) /\ q["busy"] = FALSE /\ \A g \in PageFields \ {"busy"} : q[g] = p[g]
  BY Column DEF PageFields
<1> DEFINE q2 == [q EXCEPT !["stage"] = "idle"]
<1>2. Idle(p) = q2
  BY DEF Idle
<1> HIDE DEF q
<1>3. EntryShape(q2, PageFields) /\ \A g \in PageFields \ {"stage"} : q2[g] = q[g]
  BY <1>1, Column DEF PageFields
<1> HIDE DEF q2
<1> QED BY <1>1, <1>2, <1>3 DEF PageFields

LEMMA SentBackCols ==
    ASSUME NEW p, EntryShape(p, PageFields), NEW s
    PROVE  LET q == SentBack(p, s) IN
           /\ EntryShape(q, PageFields)
           /\ q.ready = p.ready /\ q.busy = p.busy /\ q.outcome = p.outcome /\ q.paid = p.paid
           /\ q.done = p.done /\ q.stored = p.stored /\ q.unsaved = p.unsaved
<1> DEFINE q == [p EXCEPT !["step"] = s]
<1>1. EntryShape(q, PageFields) /\ \A g \in PageFields \ {"step"} : q[g] = p[g]
  BY Column DEF PageFields
<1>2. SentBack(p, s) = q \/ SentBack(p, s) = p
  BY DEF SentBack
<1> HIDE DEF q
<1> QED BY <1>1, <1>2 DEF PageFields

LEMMA ClearedCols ==
    ASSUME NEW p, EntryShape(p, PageFields)
    PROVE  LET q == ClearedDraft(p) IN
           /\ EntryShape(q, PageFields) /\ q.stored = None /\ q.unsaved = None
           /\ q.ready = p.ready /\ q.busy = p.busy /\ q.outcome = p.outcome /\ q.paid = p.paid
           /\ q.done = p.done /\ q.step = p.step /\ q.stage = p.stage /\ q.filled = p.filled
<1> DEFINE q1 == [p EXCEPT !["stored"] = None]
           q2 == [q1 EXCEPT !["unsaved"] = None]
           q3 == [q2 EXCEPT !["restored"] = FALSE]
           q4 == [q3 EXCEPT !["dropped"] = FALSE]
<1>1. /\ EntryShape(q1, PageFields) /\ q1["stored"] = None
      /\ \A g \in PageFields \ {"stored"} : q1[g] = p[g]
  BY Column DEF PageFields
<1>2. ClearedDraft(p) = q4
  BY DEF ClearedDraft
<1> HIDE DEF q1
<1>3. /\ EntryShape(q2, PageFields) /\ q2["unsaved"] = None
      /\ \A g \in PageFields \ {"unsaved"} : q2[g] = q1[g]
  BY <1>1, Column DEF PageFields
<1> HIDE DEF q2
<1>4. EntryShape(q3, PageFields) /\ \A g \in PageFields \ {"restored"} : q3[g] = q2[g]
  BY <1>3, Column DEF PageFields
<1> HIDE DEF q3
<1>5. EntryShape(q4, PageFields) /\ \A g \in PageFields \ {"dropped"} : q4[g] = q3[g]
  BY <1>4, Column DEF PageFields
<1> HIDE DEF q4
<1> QED BY <1>1, <1>2, <1>3, <1>4, <1>5 DEF PageFields

LEMMA OpenedCols ==
    ASSUME NEW draft, NEW n
    PROVE  LET q == Opened(draft, n) IN
           /\ EntryShape(q, PageFields) /\ ~ q.ready /\ ~ q.done
           /\ q.paid = (IF draft = None THEN None ELSE draft.paid)
           /\ q.paid # None => q.outcome = "recover"
           /\ q.stored = draft /\ q.unsaved = None /\ ~ q.dropped
           /\ q.step = (IF draft # None /\ draft.step < 5 THEN draft.step ELSE 1)
           /\ q.filled = (IF draft = None THEN {} ELSE draft.filled)
BY DEF Opened, EntryShape, PageFields

----------------------------------------------------------------------------
(* One request at a time *)

\* Nothing else is under way beside it.
LEMMA Alone ==
    ASSUME EntryInv, NEW c \in calls
    PROVE  /\ calls \ {c} = {} /\ ~ page.done
           /\ Agrees(c, page)
           /\ page.paid # None => \/ page.outcome = "recover"
                                  \/ c.kind = "submit" /\ c.paid = page.paid
BY DEF EntryInv, OneCall, Waiting

\* Without a payment on the page none waits.
LEMMA PaidWaits == ASSUME EntryInv, page.paid = None PROVE Open = {}
BY DEF EntryInv, Waiting, Open, Unsettled

LEMMA QuietPage ==
    ASSUME EntryInv, page.ready, ~ page.busy PROVE calls = {}
BY DEF EntryInv, Agrees

\* A step of the page alone.
LEMMA QuietInv ==
    ASSUME EntryInv, ~ page.done, Same(page, page'), UNCHANGED <<api, calls, told>>
    PROVE  EntryInv'
<1>1. Open' = Open
  BY DEF Open, Unsettled
<1> QED BY <1>1 DEF EntryInv, Shapes, OneCall, Waiting, Agrees, Same, Receipt

\* A step after which nothing is under way.
LEMMA EndedInv ==
    ASSUME EntryInv, calls' = {}, Shapes', Open' \subseteq {page'.paid},
           page'.paid # None => page'.outcome = "recover", told' = told, Receipt(page')
    PROVE  EntryInv'
BY DEF EntryInv, OneCall, Waiting, Receipt

\* A step after which one request is under way.
LEMMA FollowedInv ==
    ASSUME NEW d, calls' = {d}, Shapes', Agrees(d, page'), ~ page'.done,
           Open' \subseteq {page'.paid}, None \notin told'.reported,
           page'.paid # None => \/ page'.outcome = "recover"
                                \/ d.kind = "submit" /\ d.paid = page'.paid
    PROVE  EntryInv'
BY DEF EntryInv, OneCall, Waiting, Receipt

----------------------------------------------------------------------------
(* What waits *)

LEMMA SameOpen ==
    ASSUME api'.entry = api.entry, api'.refunded = api.refunded, told' = told PROVE Open' = Open
BY DEF Open, Unsettled

LEMMA ApiColumn ==
    ASSUME EntryInv, NEW f \in ApiFields, NEW x
    PROVE  LET a == [api EXCEPT ![f] = x] IN
           EntryShape(a, ApiFields) /\ a[f] = x /\ \A g \in ApiFields \ {f} : a[g] = api[g]
<1>1. EntryShape(api, ApiFields)
  BY DEF EntryInv, Shapes
<1>2. f # "at"
  BY DEF ApiFields
<1> QED BY <1>1, <1>2, Column

\* A registration settles the payment it was made with, and brings no other back.
LEMMA EnteredCols ==
    ASSUME EntryInv, NEW m, EntryTaken(m), api' = Entered(m)
    PROVE  /\ EntryShape(api', ApiFields) /\ api'.refunded = api.refunded
           /\ api.entry = None \/ api.entry = api'.entry
           /\ m # None => api'.entry = m
<1> DEFINE x == IF m = None THEN "unpaid" ELSE m
<1> HIDE DEF x
<1> DEFINE a == [api EXCEPT !["entry"] = x]
<1>1. EntryShape(a, ApiFields) /\ a["entry"] = x /\ \A g \in ApiFields \ {"entry"} : a[g] = api[g]
  <2>1. \A y : LET b == [api EXCEPT !["entry"] = y] IN
           /\ EntryShape(b, ApiFields) /\ b["entry"] = y
           /\ \A g \in ApiFields \ {"entry"} : b[g] = api[g]
    BY ApiColumn DEF ApiFields
  <2> QED BY <2>1
<1>2. api' = a
  BY DEF Entered, x
<1> HIDE DEF a
<1>3. EntryShape(api', ApiFields) /\ api'.entry = x /\ api'.refunded = api.refunded
  BY <1>1, <1>2 DEF ApiFields
<1>4. api.entry = None \/ api.entry = x
  BY DEF EntryTaken, x
<1> QED BY <1>3, <1>4 DEF x

LEMMA EnteredOpen ==
    ASSUME EntryInv, NEW m, EntryTaken(m), api' = Entered(m), told' = told
    PROVE  /\ EntryShape(api', ApiFields) /\ Open' \subseteq Open
           /\ m # None => m \notin Open'
<1>1. None \notin told.reported
  BY DEF EntryInv, Waiting
<1> QED BY <1>1, EnteredCols DEF Open, Unsettled

\* Registered or not: the request got through, and its answer was lost.
LEMMA PerhapsEntered ==
    ASSUME EntryInv, NEW m, told' = told,
           api' \in {api} \cup IF EntryTaken(m) THEN {Entered(m)} ELSE {}
    PROVE  EntryShape(api', ApiFields) /\ Open' \subseteq Open
<1>1. CASE api' = api
  BY <1>1 DEF Open, Unsettled, EntryInv, Shapes
<1>2. CASE EntryTaken(m) /\ api' = Entered(m)
  BY <1>2, EnteredOpen
<1> QED BY <1>1, <1>2

----------------------------------------------------------------------------
(* The link and the steps *)

LEMMA LinkInv == ASSUME EntryInv, NEW c \in calls, LinkFetched(c) \/ LinkFailed(c) PROVE EntryInv'
<1>0. /\ calls' = {} /\ ~ page.done /\ UNCHANGED <<api, told>>
      /\ page.paid # None => page.outcome = "recover"
  BY Alone DEF LinkFetched, LinkFailed, Settle
<1> DEFINE q1 == [page EXCEPT !["ready"] = TRUE]
<1>1. /\ EntryShape(q1, PageFields) /\ q1.done = page.done /\ q1.outcome = page.outcome
      /\ q1.paid = page.paid
  BY Column DEF EntryInv, Shapes, PageFields
<1> HIDE DEF q1
<1>3. \E f \in {"closed", "missing"} : \E x :
         \/ page' = [q1 EXCEPT ![f] = x]
         \/ \E y : page' = [[q1 EXCEPT ![f] = x] EXCEPT !["unsaved"] = y]
  BY DEF LinkFetched, LinkFailed, Loaded, q1
<1>4. Same(q1, page')
  <2>1. PICK f \in {"closed", "missing"} : \E x :
         \/ page' = [q1 EXCEPT ![f] = x]
         \/ \E y : page' = [[q1 EXCEPT ![f] = x] EXCEPT !["unsaved"] = y]
    BY <1>3
  <2>5. PICK x :
         \/ page' = [q1 EXCEPT ![f] = x]
         \/ \E y : page' = [[q1 EXCEPT ![f] = x] EXCEPT !["unsaved"] = y]
    BY <2>1
  <2> DEFINE q == [q1 EXCEPT ![f] = x]
  <2>2. Same(q1, q)
    BY <1>1, SameBut DEF PageFields
  <2> HIDE DEF q
  <2>3. \A y : Same(q, [q EXCEPT !["unsaved"] = y])
    BY <2>2, SameBut DEF PageFields, Same
  <2>4. page' = q \/ \E y : page' = [q EXCEPT !["unsaved"] = y]
    BY <2>5 DEF q
  <2> QED BY <2>2, <2>3, <2>4, SameChain
<1>5. Open' = Open
  BY <1>0 DEF Open, Unsettled
<1> QED BY <1>0, <1>1, <1>4, <1>5, EndedInv DEF EntryInv, Shapes, Waiting, Same, Receipt

LEMMA FillInv == ASSUME EntryInv, NEW s \in 1..3, FillStep(s) PROVE EntryInv'
<1> DEFINE x == IF s \in page.filled THEN page.filled \ {s} ELSE page.filled \cup {s}
           q == [page EXCEPT !["filled"] = x]
           r == [q EXCEPT !["edits"] = page.edits + 1]
<1>1. ~ page.done /\ UNCHANGED <<api, calls, told>>
  BY DEF FillStep, PageOnly, EntryInv, Receipt
<1>2. page' = Kept(r)
  BY DEF FillStep
<1>3. Same(page, q)
  BY SameBut DEF EntryInv, Shapes, PageFields
<1> HIDE DEF q
<1>4. Same(q, r)
  BY <1>3, SameBut DEF Same, PageFields
<1> HIDE DEF r
<1>5. Same(r, page')
  BY <1>2, <1>4, KeptSame DEF Same
<1> QED BY <1>1, <1>3, <1>4, <1>5, SameChain, QuietInv

LEMMA StepInv == ASSUME EntryInv, NEW s \in 1..4, NextStep(s) \/ BackStep(s) PROVE EntryInv'
<1>1. ~ page.done /\ UNCHANGED <<api, calls, told>>
  BY DEF NextStep, BackStep, PageOnly, EntryInv, Receipt
<1>2. PICK x : page' = Kept([page EXCEPT !["step"] = x])
  BY DEF NextStep, BackStep
<1> DEFINE q == [page EXCEPT !["step"] = x]
<1>3. Same(page, q)
  BY SameBut DEF EntryInv, Shapes, PageFields
<1>4. page' = Kept(q)
  BY <1>2
<1> HIDE DEF q
<1>5. Same(q, page')
  BY <1>3, <1>4, KeptSame DEF Same
<1> QED BY <1>1, <1>3, <1>5, SameChain, QuietInv

LEMMA AgreeInv == ASSUME EntryInv, AgreeToTerms PROVE EntryInv'
<1> DEFINE q == [page EXCEPT !["terms"] = TRUE]
<1>1. ~ page.done /\ UNCHANGED <<api, calls, told>>
  BY DEF AgreeToTerms, PageOnly, EntryInv, Receipt
<1>2. page' = q
  BY DEF AgreeToTerms
<1>3. Same(page, q)
  BY SameBut DEF EntryInv, Shapes, PageFields
<1> HIDE DEF q
<1> QED BY <1>1, <1>2, <1>3, QuietInv

LEMMA WrittenInv == ASSUME EntryInv, DraftWritten PROVE EntryInv'
<1> DEFINE q == [page EXCEPT !["stored"] = page.unsaved]
           r == [q EXCEPT !["unsaved"] = None]
           u == [r EXCEPT !["dropped"] = FALSE]
<1>1. ~ page.done /\ UNCHANGED <<api, calls, told>> /\ page' = u
  BY DEF DraftWritten, PageOnly, EntryInv, Receipt
<1>2. Same(page, q)
  BY SameBut DEF EntryInv, Shapes, PageFields
<1> HIDE DEF q
<1>3. Same(q, r)
  BY <1>2, SameBut DEF Same, PageFields
<1> HIDE DEF r
<1>4. Same(r, u)
  BY <1>3, SameBut DEF Same, PageFields
<1> HIDE DEF u
<1> QED BY <1>1, <1>2, <1>3, <1>4, SameChain, QuietInv

LEMMA NotWrittenInv == ASSUME EntryInv, DraftNotWritten PROVE EntryInv'
<1> DEFINE q == [page EXCEPT !["unsaved"] = None]
           r == [q EXCEPT !["dropped"] = TRUE]
<1>1. ~ page.done /\ UNCHANGED <<api, calls, told>> /\ page' = r
  BY DEF DraftNotWritten, PageOnly, EntryInv, Receipt
<1>2. Same(page, q)
  BY SameBut DEF EntryInv, Shapes, PageFields
<1> HIDE DEF q
<1>3. Same(q, r)
  BY <1>2, SameBut DEF Same, PageFields
<1> HIDE DEF r
<1> QED BY <1>1, <1>2, <1>3, SameChain, QuietInv

----------------------------------------------------------------------------
(* Paying and registering *)

LEMMA BusyCols ==
    ASSUME NEW p, EntryShape(p, PageFields), NEW x
    PROVE  LET q == [[p EXCEPT !["busy"] = TRUE] EXCEPT !["stage"] = x] IN
           /\ EntryShape(q, PageFields) /\ q.busy /\ q.outcome = p.outcome /\ q.paid = p.paid
           /\ q.done = p.done /\ q.stage = x
<1> DEFINE q1 == [p EXCEPT !["busy"] = TRUE]
           q2 == [q1 EXCEPT !["stage"] = x]
<1>1. EntryShape(q1, PageFields) /\ q1["busy"] = TRUE /\ \A g \in PageFields \ {"busy"} : q1[g] = p[g]
  BY Column DEF PageFields
<1> HIDE DEF q1
<1>2. EntryShape(q2, PageFields) /\ q2["stage"] = x /\ \A g \in PageFields \ {"stage"} : q2[g] = q1[g]
  BY <1>1, Column DEF PageFields
<1> HIDE DEF q2
<1>3. /\ EntryShape(q2, PageFields) /\ q2.busy /\ q2.outcome = p.outcome /\ q2.paid = p.paid
      /\ q2.done = p.done /\ q2.stage = x
  BY <1>1, <1>2 DEF PageFields
<1> QED BY <1>3 DEF q1, q2

LEMMA PayInv == ASSUME EntryInv, PayAndRegister PROVE EntryInv'
<1> DEFINE d == [kind |-> "validate"]
<1>1. /\ UNCHANGED <<api, told>> /\ calls' = calls \cup {d} /\ ~ page.done
      /\ page.outcome # "recover" /\ page.ready /\ ~ page.busy
  BY DEF PayAndRegister, Send, EntryInv, Receipt, Reachable, WizardShown
<1>2. calls' = {d}
  BY <1>1, QuietPage
<1>3. page.paid = None
  BY <1>1, QuietPage DEF EntryInv, Waiting
<1>4. Open' = {}
  BY <1>1, <1>3, PaidWaits DEF Open, Unsettled
<1>5. /\ EntryShape(page', PageFields) /\ page'.busy /\ page'.outcome = page.outcome
      /\ page'.done = page.done /\ page'.paid = page.paid
  <2>1. page' = [[page EXCEPT !["busy"] = TRUE] EXCEPT !["stage"] = "checking"]
    BY DEF PayAndRegister
  <2> QED BY <2>1, BusyCols DEF EntryInv, Shapes
<1>6. Agrees(d, page') /\ Shapes' /\ None \notin told'.reported
  BY <1>1, <1>5 DEF Agrees, EntryInv, Shapes, Waiting
<1> HIDE DEF d
<1> QED BY <1>1, <1>2, <1>3, <1>4, <1>5, <1>6, FollowedInv

LEMMA RetryInv == ASSUME EntryInv, Retry PROVE EntryInv'
<1> DEFINE d == SubmitCall(page.paid)
<1>1. /\ UNCHANGED <<api, told>> /\ calls' = calls \cup {d} /\ ~ page.done
      /\ page.outcome = "recover" /\ page.ready /\ ~ page.busy /\ page.paid # None
  BY DEF Retry, Send, EntryInv, Receipt, WizardShown, Finished
<1>2. calls' = {d}
  BY <1>1, QuietPage
<1>3. Open' = Open
  BY <1>1 DEF Open, Unsettled
<1>4. /\ EntryShape(page', PageFields) /\ page'.busy /\ page'.outcome = page.outcome
      /\ page'.done = page.done /\ page'.paid = page.paid /\ page'.stage = "success"
  <2>1. page' = [[page EXCEPT !["busy"] = TRUE] EXCEPT !["stage"] = "success"]
    BY DEF Retry
  <2> QED BY <2>1, BusyCols DEF EntryInv, Shapes
<1>5. d.kind = "submit" /\ d.paid = page.paid
  BY DEF SubmitCall
<1>6. Agrees(d, page') /\ Shapes' /\ None \notin told'.reported
  BY <1>1, <1>4, <1>5 DEF Agrees, EntryInv, Shapes, Waiting
<1>7. Open' \subseteq {page'.paid}
  BY <1>3, <1>4 DEF EntryInv, Waiting
<1> HIDE DEF d
<1> QED BY <1>1, <1>2, <1>4, <1>5, <1>6, <1>7, FollowedInv

\* While an entry is checked or paid for, no payment waits.
LEMMA NothingWaits ==
    ASSUME EntryInv, NEW c \in calls, c.kind \in {"validate", "order", "checkout"}
    PROVE  /\ Open = {} /\ page.paid = None
           /\ page.outcome # "recover" /\ ~ page.done /\ page.busy
<1>1. page.outcome # "recover" /\ ~ page.done /\ page.busy /\ page.paid = None
  BY Alone DEF Agrees
<1> QED BY <1>1, PaidWaits

LEMMA ValidatedInv == ASSUME EntryInv, NEW c \in calls, Validated(c) PROVE EntryInv'
<1>1. PICK d \in {[kind |-> "order"], SubmitCall(None)} : calls' = (calls \ {c}) \cup {d}
  BY DEF Validated
<1>2. c.kind = "validate" /\ UNCHANGED <<api, page, told>>
  BY DEF Validated
<1>3. d.kind = "order" \/ (d.kind = "submit" /\ d.paid = None)
  BY DEF SubmitCall
<1>4. Open = {} /\ page.paid = None /\ page.outcome # "recover" /\ ~ page.done /\ page.busy
  BY <1>2, NothingWaits
<1>5. Open' = {}
  BY <1>2, <1>4 DEF Open, Unsettled
<1>6. calls' = {d}
  BY <1>1, Alone
<1>7. Agrees(d, page') /\ Shapes' /\ None \notin told'.reported
  BY <1>2, <1>3, <1>4 DEF Agrees, EntryInv, Shapes, Waiting
<1> QED BY <1>2, <1>4, <1>5, <1>6, <1>7, FollowedInv

LEMMA OrderedInv == ASSUME EntryInv, NEW c \in calls, Ordered(c) PROVE EntryInv'
<1>1. PICK d \in {[kind |-> "checkout"], SubmitCall(None)} : calls' = (calls \ {c}) \cup {d}
  BY DEF Ordered
<1>2. /\ c.kind = "order" /\ UNCHANGED <<api, told>>
      /\ page' = page \/ page' = [page EXCEPT !["stage"] = "verifying"]
  BY DEF Ordered
<1>3. d.kind = "checkout" \/ (d.kind = "submit" /\ d.paid = None)
  BY DEF SubmitCall
<1>4. Open = {} /\ page.paid = None /\ page.outcome # "recover" /\ ~ page.done /\ page.busy
  BY <1>2, NothingWaits
<1>5. Open' = {}
  BY <1>2, <1>4 DEF Open, Unsettled
<1>6. calls' = {d}
  BY <1>1, Alone
<1> DEFINE q == [page EXCEPT !["stage"] = "verifying"]
<1>7. EntryShape(q, PageFields) /\ \A g \in PageFields \ {"stage"} : q[g] = page[g]
  BY Column DEF PageFields, EntryInv, Shapes
<1> HIDE DEF q
<1>8. /\ EntryShape(page', PageFields) /\ page'.busy = page.busy /\ page'.done = page.done
      /\ page'.outcome = page.outcome /\ page'.paid = page.paid
  BY <1>2, <1>7 DEF q, PageFields, EntryInv, Shapes
<1>9. Agrees(d, page') /\ Shapes' /\ None \notin told'.reported /\ ~ page'.done
  BY <1>2, <1>3, <1>4, <1>8 DEF Agrees, EntryInv, Shapes, Waiting
<1> QED BY <1>2, <1>4, <1>5, <1>6, <1>8, <1>9, FollowedInv

\* An answer that ends the attempt before any payment.
LEMMA EndedEarly ==
    ASSUME EntryInv, NEW c \in calls, c.kind \in {"validate", "order", "checkout"},
           calls' = calls \ {c}, told' = told, EntryShape(api', ApiFields), EntryShape(page', PageFields),
           api'.entry = api.entry, api'.refunded = api.refunded, ~ page'.done,
           page'.paid = page.paid
    PROVE  EntryInv'
<1>1. Open' = {} /\ calls' = {} /\ page'.paid = None
  BY NothingWaits, SameOpen, Alone
<1>2. Shapes'
  BY DEF EntryInv, Shapes
<1> QED BY <1>1, <1>2, EndedInv DEF Receipt

LEMMA NotValidInv == ASSUME EntryInv, NEW c \in calls, NotValid(c) PROVE EntryInv'
<1>1. c.kind = "validate" /\ calls' = calls \ {c} /\ UNCHANGED <<api, told>>
  BY DEF NotValid, Settle
<1>2. PICK s \in 0..3 : page' = Kept(SentBack(Idle(page), s))
  BY DEF NotValid
<1>3. EntryShape(page', PageFields) /\ page'.done = page.done /\ page'.paid = page.paid
  <2>1. /\ EntryShape(Idle(page), PageFields) /\ Idle(page).done = page.done
        /\ Idle(page).paid = page.paid
    BY IdleCols DEF EntryInv, Shapes
  <2>2. /\ EntryShape(SentBack(Idle(page), s), PageFields)
        /\ SentBack(Idle(page), s).done = Idle(page).done
        /\ SentBack(Idle(page), s).paid = Idle(page).paid
    BY <2>1, SentBackCols
  <2>3. Same(SentBack(Idle(page), s), Kept(SentBack(Idle(page), s)))
    BY <2>2, KeptSame
  <2> QED BY <1>2, <2>1, <2>2, <2>3 DEF Same
<1>4. ~ page.done
  BY Alone
<1> QED BY <1>1, <1>3, <1>4, EndedEarly DEF EntryInv, Shapes

LEMMA DismissedInv ==
    ASSUME EntryInv, NEW c \in calls, OrderFailed(c) \/ CheckoutDismissed(c) PROVE EntryInv'
<1>1. /\ c.kind \in {"validate", "order", "checkout"} /\ calls' = calls \ {c} /\ told' = told
      /\ page' = Idle(page)
  BY DEF OrderFailed, CheckoutDismissed, Settle
<1>2. EntryShape(page', PageFields) /\ page'.done = page.done /\ page'.paid = page.paid
  BY <1>1, IdleCols DEF EntryInv, Shapes
<1>3. EntryShape(api', ApiFields) /\ api'.entry = api.entry /\ api'.refunded = api.refunded
  <2>1. api' = api \/ \E x : api' = [api EXCEPT !["taken"] = x]
    BY DEF OrderFailed, CheckoutDismissed
  <2>2. CASE api' = api
    BY <2>2 DEF EntryInv, Shapes
  <2>3. ASSUME NEW x, api' = [api EXCEPT !["taken"] = x]
        PROVE  EntryShape(api', ApiFields) /\ api'.entry = api.entry /\ api'.refunded = api.refunded
    <3> DEFINE a == [api EXCEPT !["taken"] = x]
    <3>1. /\ EntryShape(a, ApiFields) /\ a["taken"] = x
          /\ \A g \in ApiFields \ {"taken"} : a[g] = api[g]
      <4>1. \A y : LET b == [api EXCEPT !["taken"] = y] IN
               /\ EntryShape(b, ApiFields) /\ b["taken"] = y
               /\ \A g \in ApiFields \ {"taken"} : b[g] = api[g]
        BY ApiColumn DEF ApiFields
      <4> QED BY <4>1
    <3>2. api' = a
      BY <2>3
    <3> HIDE DEF a
    <3> QED BY <3>1, <3>2 DEF ApiFields
  <2> QED BY <2>1, <2>2, <2>3
<1>4. ~ page.done
  BY Alone
<1> QED BY <1>1, <1>2, <1>3, <1>4, EndedEarly

LEMMA PaidInv == ASSUME EntryInv, NEW c \in calls, Paid(c) PROVE EntryInv'
<1>1. PICK m \in Payment \ api.taken :
           /\ api' = [api EXCEPT !["taken"] = api.taken \cup {m}]
           /\ page' = LET p == [[page EXCEPT !["paid"] = m] EXCEPT !["stage"] = "success"] IN
                      [p EXCEPT !["unsaved"] = Snapshot(p)]
           /\ calls' = (calls \ {c}) \cup {SubmitCall(m)}
           /\ told' = [told EXCEPT !["reported"] = told.reported \cup {m}]
  BY DEF Paid
<1>2. c.kind = "checkout"
  BY DEF Paid
<1>3. Open = {} /\ page.outcome # "recover" /\ ~ page.done /\ page.busy
  BY <1>2, NothingWaits
<1>4. m # None
  BY EntryAssumption
<1> DEFINE p == [page EXCEPT !["paid"] = m]
           q == [p EXCEPT !["stage"] = "success"]
           u == [q EXCEPT !["unsaved"] = Snapshot(q)]
           t == [told EXCEPT !["reported"] = told.reported \cup {m}]
           a == [api EXCEPT !["taken"] = api.taken \cup {m}]
           d == SubmitCall(m)
<1>5. /\ EntryShape(u, PageFields) /\ u.paid = m /\ u.busy = page.busy /\ u.done = page.done
      /\ u.stage = "success"
  <2>1. EntryShape(p, PageFields) /\ p["paid"] = m /\ \A g \in PageFields \ {"paid"} : p[g] = page[g]
    BY Column DEF PageFields, EntryInv, Shapes
  <2> HIDE DEF p
  <2>2. EntryShape(q, PageFields) /\ q["stage"] = "success" /\ \A g \in PageFields \ {"stage"} : q[g] = p[g]
    BY <2>1, Column DEF PageFields
  <2> HIDE DEF q
  <2>3. Same(q, u)
    BY <2>2, SameBut DEF PageFields
  <2> HIDE DEF u
  <2> QED BY <2>1, <2>2, <2>3 DEF Same, PageFields
<1>6. /\ EntryShape(t, ToldFields) /\ t["reported"] = told.reported \cup {m}
      /\ \A g \in ToldFields \ {"reported"} : t[g] = told[g]
  BY Column DEF ToldFields, EntryInv, Shapes
<1>7. EntryShape(a, ApiFields) /\ \A g \in ApiFields \ {"taken"} : a[g] = api[g]
  BY Column DEF ApiFields, EntryInv, Shapes
<1>8. page' = u /\ told' = t /\ api' = a /\ d.kind = "submit" /\ d.paid = m
  BY <1>1 DEF SubmitCall
<1>9. calls' = {d}
  BY <1>1, Alone
<1> HIDE DEF p, q, u, t, a, d
<1>10. /\ EntryShape(page', PageFields) /\ page'.busy /\ page'.paid = m /\ ~ page'.done
       /\ page'.stage = "success"
  BY <1>3, <1>5, <1>8
<1>11. /\ told'.reported = told.reported \cup {m} /\ told'.lost = told.lost
       /\ api'.entry = api.entry /\ api'.refunded = api.refunded
  BY <1>6, <1>7, <1>8 DEF ToldFields, ApiFields
<1>12. Open' \subseteq {m}
  BY <1>3, <1>11 DEF Open, Unsettled
<1>13. Agrees(d, page')
  BY <1>4, <1>8, <1>10 DEF Agrees
<1>14. Shapes' /\ None \notin told'.reported
  BY <1>4, <1>6, <1>7, <1>8, <1>10, <1>11 DEF Shapes, EntryInv, Waiting
<1> QED BY <1>8, <1>9, <1>10, <1>12, <1>13, <1>14, FollowedInv

\* A submission without a payment: none waits; with one: no other does.
LEMMA Submitted ==
    ASSUME EntryInv, NEW c \in calls, c.kind = "submit"
    PROVE  Open \subseteq {c.paid} /\ (c.paid = None => Open = {}) /\ page.paid = c.paid
<1>1. None \notin Open
  BY DEF EntryInv, Waiting, Open, Unsettled
<1>2. /\ Open \subseteq {page.paid}
      /\ page.paid # None => page.outcome = "recover" \/ c.paid = page.paid
      /\ IF c.paid = None THEN page.outcome # "recover" ELSE page.paid = c.paid
  BY Alone DEF EntryInv, Waiting, Agrees
<1> QED BY <1>1, <1>2

LEMMA AcceptedInv == ASSUME EntryInv, NEW c \in calls, EntryAccepted(c) PROVE EntryInv'
<1>1. /\ c.kind = "submit" /\ calls' = calls \ {c} /\ told' = told
      /\ EntryTaken(c.paid) /\ api' = Entered(c.paid)
  BY DEF EntryAccepted, Settle
<1>2. Open \subseteq {c.paid} /\ (c.paid = None => Open = {}) /\ calls' = {}
  BY <1>1, Submitted, Alone
<1>3. EntryShape(api', ApiFields) /\ Open' = {}
  BY <1>1, <1>2, EnteredOpen
<1> DEFINE p1 == [page EXCEPT !["done"] = TRUE]
           p2 == [p1 EXCEPT !["outcome"] = "none"]
           p3 == [p2 EXCEPT !["paid"] = None]
           q2 == [p3 EXCEPT !["step"] = 5]
<1>4. EntryShape(q2, PageFields) /\ q2["step"] = 5 /\ q2.paid = None
  <2>1. EntryShape(p1, PageFields)
    BY Column DEF PageFields, EntryInv, Shapes
  <2> HIDE DEF p1
  <2>2. EntryShape(p2, PageFields)
    BY <2>1, Column DEF PageFields
  <2> HIDE DEF p2
  <2>3. EntryShape(p3, PageFields) /\ p3["paid"] = None
    BY <2>2, Column DEF PageFields
  <2> HIDE DEF p3
  <2> QED BY <2>3, Column DEF PageFields
<1>6. page' = Idle(ClearedDraft(q2))
  BY DEF EntryAccepted
<1> HIDE DEF q2
<1>7. /\ EntryShape(ClearedDraft(q2), PageFields) /\ ClearedDraft(q2).stored = None
      /\ ClearedDraft(q2).unsaved = None /\ ClearedDraft(q2).step = q2.step
      /\ ClearedDraft(q2).paid = q2.paid
  BY <1>4, ClearedCols
<1>8. /\ EntryShape(page', PageFields) /\ page'.stored = None /\ page'.unsaved = None
      /\ page'.step = 5 /\ page'.paid = None
  BY <1>4, <1>6, <1>7, IdleCols
<1>9. Shapes' /\ Receipt(page')
  BY <1>1, <1>3, <1>8 DEF Shapes, EntryInv, Receipt
<1> QED BY <1>1, <1>2, <1>3, <1>8, <1>9, EndedInv

LEMMA RefundedInv == ASSUME EntryInv, NEW c \in calls, EntryRefunded(c) PROVE EntryInv'
<1>1. /\ c.kind = "submit" /\ calls' = calls \ {c} /\ told' = told
      /\ api' = [api EXCEPT !["refunded"] = api.refunded \cup {c.paid}]
  BY DEF EntryRefunded, Settle
<1>2. Open \subseteq {c.paid} /\ calls' = {} /\ ~ page.done
  BY <1>1, Submitted, Alone
<1> DEFINE a == [api EXCEPT !["refunded"] = api.refunded \cup {c.paid}]
           p == [page EXCEPT !["outcome"] = "refund"]
           q == [p EXCEPT !["paid"] = None]
<1>3. /\ EntryShape(a, ApiFields) /\ a["refunded"] = api.refunded \cup {c.paid}
      /\ \A g \in ApiFields \ {"refunded"} : a[g] = api[g]
  BY Column DEF ApiFields, EntryInv, Shapes
<1>4. EntryShape(q, PageFields) /\ q.done = page.done /\ q.paid = None
  <2>1. EntryShape(p, PageFields) /\ \A g \in PageFields \ {"outcome"} : p[g] = page[g]
    BY Column DEF PageFields, EntryInv, Shapes
  <2> HIDE DEF p
  <2>2. EntryShape(q, PageFields) /\ q["paid"] = None /\ \A g \in PageFields \ {"paid"} : q[g] = p[g]
    BY <2>1, Column DEF PageFields
  <2> HIDE DEF q
  <2> QED BY <2>1, <2>2 DEF PageFields
<1>5. api' = a /\ page' = Kept(Idle(ClearedDraft(q)))
  BY <1>1 DEF EntryRefunded
<1> HIDE DEF a, p, q
<1>6. api'.refunded = api.refunded \cup {c.paid} /\ api'.entry = api.entry
  BY <1>3, <1>5 DEF ApiFields
<1>7. Open' = {}
  BY <1>1, <1>2, <1>6 DEF Open, Unsettled
<1>8. /\ EntryShape(ClearedDraft(q), PageFields) /\ ClearedDraft(q).done = q.done
      /\ ClearedDraft(q).paid = q.paid
  BY <1>4, ClearedCols
<1>9. /\ EntryShape(Idle(ClearedDraft(q)), PageFields)
      /\ Idle(ClearedDraft(q)).done = ClearedDraft(q).done
      /\ Idle(ClearedDraft(q)).paid = ClearedDraft(q).paid
  BY <1>8, IdleCols
<1>10. EntryShape(page', PageFields) /\ page'.done = q.done /\ page'.paid = q.paid
  BY <1>5, <1>8, <1>9, KeptSame DEF Same
<1>11. q.done = page.done
  BY <1>4
<1>12. Shapes' /\ Receipt(page')
  BY <1>1, <1>2, <1>3, <1>5, <1>10, <1>11 DEF Shapes, EntryInv, Receipt
<1> QED BY <1>1, <1>2, <1>4, <1>7, <1>10, <1>12, EndedInv

LEMMA FailedInv == ASSUME EntryInv, NEW c \in calls, EntryFailed(c) PROVE EntryInv'
<1>1. /\ c.kind = "submit" /\ calls' = calls \ {c} /\ told' = told
      /\ api' \in {api} \cup IF EntryTaken(c.paid) THEN {Entered(c.paid)} ELSE {}
  BY DEF EntryFailed, Settle
<1>2. /\ Open \subseteq {c.paid} /\ (c.paid = None => Open = {})
      /\ page.paid = c.paid /\ calls' = {} /\ ~ page.done
  BY <1>1, Submitted, Alone
<1>3. EntryShape(api', ApiFields) /\ Open' \subseteq Open
  BY <1>1, PerhapsEntered
<1> DEFINE x == IF c.paid = None THEN page.outcome ELSE "recover"
           q == [page EXCEPT !["outcome"] = x]
<1>4. PICK s \in 0..3 : page' = Kept(SentBack(Idle(q), s))
  BY DEF EntryFailed
<1>5. /\ EntryShape(q, PageFields) /\ q["outcome"] = x
      /\ \A g \in PageFields \ {"outcome"} : q[g] = page[g]
  BY Column DEF PageFields, EntryInv, Shapes
<1> HIDE DEF q
<1>6. /\ EntryShape(Idle(q), PageFields) /\ Idle(q).done = q.done /\ Idle(q).outcome = q.outcome
      /\ Idle(q).paid = q.paid
  BY <1>5, IdleCols
<1> DEFINE r == SentBack(Idle(q), s)
<1>7. EntryShape(r, PageFields) /\ r.done = q.done /\ r.outcome = q.outcome /\ r.paid = q.paid
  BY <1>6, SentBackCols
<1> HIDE DEF r
<1>8. Same(r, Kept(r)) /\ page' = Kept(r)
  BY <1>4, <1>7, KeptSame DEF r
<1>9. /\ EntryShape(page', PageFields) /\ ~ page'.done /\ page'.outcome = x
      /\ page'.paid = page.paid
  BY <1>2, <1>5, <1>7, <1>8 DEF Same, PageFields
<1>10. Shapes' /\ Receipt(page')
  BY <1>1, <1>3, <1>9 DEF Shapes, EntryInv, Receipt
<1>11. Open' \subseteq {page'.paid} /\ (page'.paid # None => page'.outcome = "recover")
  BY <1>2, <1>3, <1>9 DEF x
<1> QED BY <1>1, <1>2, <1>10, <1>11, EndedInv

----------------------------------------------------------------------------
(* The link closes; the tab dies *)

LEMMA TurnedInv == ASSUME EntryInv, LinkTurned PROVE EntryInv'
<1> DEFINE a == [api EXCEPT !["open"] = FALSE]
<1>1. api' = a /\ UNCHANGED <<calls, page, told>>
  BY DEF LinkTurned
<1>2. EntryShape(a, ApiFields) /\ \A g \in ApiFields \ {"open"} : a[g] = api[g]
  BY Column DEF ApiFields, EntryInv, Shapes
<1> HIDE DEF a
<1>3. api'.entry = api.entry /\ api'.refunded = api.refunded /\ EntryShape(api', ApiFields)
  BY <1>1, <1>2 DEF ApiFields
<1>4. Open' = Open
  BY <1>1, <1>3, SameOpen
<1> QED BY <1>1, <1>3, <1>4 DEF EntryInv, Shapes, OneCall, Waiting, Agrees, Receipt

\* A payment the page holds is in the draft on its way to the device or, if the
\* device took the last one, in the draft it keeps.
Held(p) ==
    p.paid # None =>
        IF p.unsaved # None THEN p.unsaved.paid = p.paid
        ELSE p.dropped \/ (p.stored # None /\ p.stored.paid = p.paid)

\* The page opens again on a draft, with nothing under way; what the page before
\* had sent may still have registered the team.
OpensOn(draft) ==
    /\ EntryShape(page', PageFields) /\ ~ page'.ready /\ ~ page'.done
    /\ page'.paid = (IF draft = None THEN None ELSE draft.paid)
    /\ page'.paid # None => page'.outcome = "recover"
    /\ calls' = {[kind |-> "link"]} /\ Agrees([kind |-> "link"], page')
    /\ EntryShape(api', ApiFields) /\ api'.refunded = api.refunded
    /\ api.entry = None \/ api.entry = api'.entry

LEMMA ReopensOk == ASSUME EntryInv, NEW draft, Reopens(draft) PROVE OpensOn(draft)
<1>1. /\ page' = Opened(draft, page.edits) /\ calls' = {[kind |-> "link"]}
      /\ api' \in {api} \cup {Entered(c.paid) : c \in {b \in calls :
                                  b.kind = "submit" /\ EntryTaken(b.paid)}}
  BY DEF Reopens
<1>2. /\ EntryShape(page', PageFields) /\ ~ page'.ready /\ ~ page'.done
      /\ page'.paid = (IF draft = None THEN None ELSE draft.paid)
      /\ page'.paid # None => page'.outcome = "recover"
  BY <1>1, OpenedCols
<1>3. /\ EntryShape(api', ApiFields) /\ api'.refunded = api.refunded
      /\ api.entry = None \/ api.entry = api'.entry
  <2>1. CASE api' = api
    BY <2>1 DEF EntryInv, Shapes
  <2>2. CASE \E c \in calls : EntryTaken(c.paid) /\ api' = Entered(c.paid)
    BY <2>2, EnteredCols
  <2> QED BY <1>1, <2>1, <2>2
<1>4. Agrees([kind |-> "link"], page')
  BY <1>2 DEF Agrees
<1> QED BY <1>1, <1>2, <1>3, <1>4 DEF OpensOn

\* A tab that dies loses a payment of its page only with the draft it was in.
LEMMA DiesInv == ASSUME EntryInv, Held(page), TabDies PROVE EntryInv'
<1> DEFINE Gone(d) == page.paid # None /\ (d = None \/ d.paid # page.paid)
           t == [told EXCEPT !["lost"] = told.lost \cup {page.paid}]
<1>1. PICK aged, draft :
        /\ aged \in BOOLEAN /\ draft = IF aged THEN None ELSE page.stored
        /\ Reopens(draft)
        /\ told' = IF Gone(draft) /\ (aged \/ page.dropped \/ page.unsaved # None)
                   THEN t ELSE told
  BY DEF TabDies
<1> DEFINE gone == Gone(draft)
<1>2. gone => aged \/ page.dropped \/ page.unsaved # None
  BY <1>1 DEF Held
<1>3. told' = IF gone THEN t ELSE told
  BY <1>1, <1>2
<1>4. OpensOn(draft)
  BY <1>1, ReopensOk
<1>5. /\ EntryShape(t, ToldFields) /\ t["lost"] = told.lost \cup {page.paid}
      /\ t["reported"] = told.reported
  BY Column DEF ToldFields, EntryInv, Shapes
<1>6. page.paid # None /\ page'.paid # page.paid => gone
  BY <1>4 DEF OpensOn
<1>7. gone => page.paid # None
  OBVIOUS
<1> HIDE DEF t, gone, Gone
<1>8. /\ EntryShape(told', ToldFields) /\ told'.reported = told.reported
      /\ told'.lost = IF gone THEN told.lost \cup {page.paid} ELSE told.lost
  BY <1>3, <1>5 DEF EntryInv, Shapes
<1>9. None \notin told.reported /\ Open \subseteq {page.paid}
  BY DEF EntryInv, Waiting
<1>10. Open' \subseteq Open /\ (gone => Open' = {})
  BY <1>4, <1>8, <1>9 DEF OpensOn, Open, Unsettled
<1>11. Open' \subseteq {page'.paid}
  <2>1. CASE page.paid = None
    BY <1>9, <1>10, <2>1 DEF Open, Unsettled
  <2>2. CASE page.paid # None
    BY <1>6, <1>9, <1>10, <2>2
  <2> QED BY <2>1, <2>2
<1>12. Shapes' /\ None \notin told'.reported
  BY <1>4, <1>8, <1>9 DEF OpensOn, Shapes
<1> QED BY <1>4, <1>11, <1>12, FollowedInv DEF OpensOn

\* Where the banner offers to start over the page holds no payment.
LEMMA NothingToLose == ASSUME EntryInv, StartOver PROVE page.paid = None /\ ~ page.done
<1>1. page.stage # "success" /\ page.outcome # "recover" /\ ~ page.done
  BY DEF StartOver, Reachable, Finished, EntryInv, Receipt
<1> QED BY <1>1 DEF EntryInv, Waiting, Agrees

LEMMA StartOverInv == ASSUME EntryInv, StartOver PROVE EntryInv'
<1>1. Open = {} /\ page.paid = None /\ ~ page.done /\ None \notin told.reported
  BY NothingToLose, PaidWaits DEF EntryInv, Waiting
<1>2. CASE Reopens(None) /\ UNCHANGED told
  <2>1. OpensOn(None)
    BY <1>2, ReopensOk
  <2>2. Open' = {}
    BY <1>1, <1>2, <2>1 DEF OpensOn, Open, Unsettled
  <2>3. Shapes' /\ None \notin told'.reported
    BY <1>1, <1>2, <2>1 DEF OpensOn, EntryInv, Shapes
  <2> QED BY <2>1, <2>2, <2>3, FollowedInv DEF OpensOn
<1>3. CASE page' = ClearedDraft(page) /\ PageOnly
  <2>1. Same(page, page') /\ UNCHANGED <<api, calls, told>>
    BY <1>3, ClearedCols DEF Same, PageOnly, EntryInv, Shapes
  <2> QED BY <1>1, <2>1, QuietInv
<1> QED BY <1>2, <1>3 DEF StartOver

----------------------------------------------------------------------------
(* The payment and the draft *)

\* The draft, and what goes into it, are the same on both pages.
Keeps(p, q) ==
    /\ EntryShape(q, PageFields)
    /\ q.step = p.step /\ q.filled = p.filled /\ q.paid = p.paid
    /\ q.stored = p.stored /\ q.unsaved = p.unsaved /\ q.dropped = p.dropped

LEMMA KeepsBut ==
    ASSUME NEW p, EntryShape(p, PageFields), NEW x,
           NEW f \in PageFields \ {"at", "step", "filled", "paid", "stored", "unsaved", "dropped"}
    PROVE  Keeps(p, [p EXCEPT ![f] = x])
<1> DEFINE q == [p EXCEPT ![f] = x]
<1>1. EntryShape(q, PageFields) /\ \A g \in PageFields \ {f} : q[g] = p[g]
  BY Column
<1> HIDE DEF q
<1>2. Keeps(p, q)
  BY <1>1 DEF Keeps, PageFields
<1> QED BY <1>2 DEF q

LEMMA KeepsTwo ==
    ASSUME NEW p, EntryShape(p, PageFields), NEW x, NEW y,
           NEW f \in PageFields \ {"at", "step", "filled", "paid", "stored", "unsaved", "dropped"},
           NEW g \in PageFields \ {"at", "step", "filled", "paid", "stored", "unsaved", "dropped"}
    PROVE  Keeps(p, [[p EXCEPT ![f] = x] EXCEPT ![g] = y])
<1> DEFINE q == [p EXCEPT ![f] = x]
<1>1. Keeps(p, q)
  BY KeepsBut
<1> HIDE DEF q
<1>2. Keeps(q, [q EXCEPT ![g] = y])
  BY <1>1, KeepsBut DEF Keeps
<1>3. Keeps(p, [q EXCEPT ![g] = y])
  BY <1>1, <1>2 DEF Keeps
<1> QED BY <1>3 DEF q

LEMMA IdleKeeps == ASSUME NEW p, EntryShape(p, PageFields) PROVE Keeps(p, Idle(p))
<1>1. Idle(p) = [[p EXCEPT !["busy"] = FALSE] EXCEPT !["stage"] = "idle"]
  BY DEF Idle
<1>2. Keeps(p, [[p EXCEPT !["busy"] = FALSE] EXCEPT !["stage"] = "idle"])
  BY KeepsTwo DEF PageFields
<1> QED BY <1>1, <1>2

\* What the page shows and what goes into a draft are of the kinds a draft has.
Formed(p) ==
    /\ p.step \in 1..5 /\ p.filled \in SUBSET FormSteps /\ p.paid \in Payment \cup {None}
    /\ p.stored \in Drafts \cup {None} /\ p.unsaved \in Drafts \cup {None}

Sound(p) == Formed(p) /\ Held(p)

LEMMA SoundKeeps == ASSUME NEW p, NEW q, Sound(p), Keeps(p, q) PROVE Sound(q)
BY DEF Sound, Formed, Held, Keeps

LEMMA SnapshotDraft ==
    ASSUME NEW p, Formed(p)
    PROVE  Snapshot(p) \in Drafts /\ Snapshot(p) # None /\ Snapshot(p).paid = p.paid
<1>1. Snapshot(p) \in Drafts
  BY DEF Snapshot, Formed, Drafts
<1> QED BY <1>1, EntryAssumption DEF Snapshot

\* Whatever is shown goes to the timer.
LEMMA UnsavedSound ==
    ASSUME NEW p, EntryShape(p, PageFields), Formed(p)
    PROVE  Sound([p EXCEPT !.unsaved = Snapshot(p)])
<1> DEFINE x == Snapshot(p)
           q == [p EXCEPT !["unsaved"] = x]
<1>0. x \in Drafts /\ x # None /\ x.paid = p.paid
  BY SnapshotDraft
<1>2. [p EXCEPT !.unsaved = Snapshot(p)] = q
  OBVIOUS
<1> HIDE DEF x
<1>1. EntryShape(q, PageFields) /\ q["unsaved"] = x
      /\ \A g \in PageFields \ {"unsaved"} : q[g] = p[g]
  BY Column DEF PageFields
<1> HIDE DEF q
<1>3. Sound(q)
  BY <1>0, <1>1 DEF Sound, Formed, Held, PageFields
<1> QED BY <1>2, <1>3

LEMMA KeptSound ==
    ASSUME NEW p, EntryShape(p, PageFields), Sound(p)
    PROVE  Sound(Kept(p))
BY UnsavedSound DEF Kept, Sound

\* Where no payment is held any draft will do.
LEMMA SoundUnpaid == ASSUME NEW p, Formed(p), p.paid = None PROVE Sound(p)
BY DEF Sound, Held

LEMMA SentBackSound ==
    ASSUME NEW p, EntryShape(p, PageFields), Sound(p), NEW s
    PROVE  Sound(Kept(SentBack(p, s)))
<1> DEFINE q == [p EXCEPT !["step"] = s]
<1>1. EntryShape(q, PageFields) /\ q["step"] = s /\ \A g \in PageFields \ {"step"} : q[g] = p[g]
  BY Column DEF PageFields
<1>2. SentBack(p, s) = p \/ (s \in FormSteps /\ SentBack(p, s) = q)
  BY DEF SentBack
<1> HIDE DEF q
<1>3. s \in FormSteps => Sound(q)
  BY <1>1 DEF Sound, Formed, Held, PageFields, FormSteps
<1>4. EntryShape(SentBack(p, s), PageFields) /\ Sound(SentBack(p, s))
  BY <1>1, <1>2, <1>3
<1> QED BY <1>4, KeptSound

LEMMA OpenedSound ==
    ASSUME NEW draft, draft \in Drafts \cup {None}, NEW n
    PROVE  Sound(Opened(draft, n))
<1> DEFINE q == Opened(draft, n)
<1>1. /\ q.paid = (IF draft = None THEN None ELSE draft.paid)
      /\ q.stored = draft /\ q.unsaved = None /\ ~ q.dropped
      /\ q.step = (IF draft # None /\ draft.step < 5 THEN draft.step ELSE 1)
      /\ q.filled = (IF draft = None THEN {} ELSE draft.filled)
  BY OpenedCols
<1> HIDE DEF q
<1>2. draft # None => /\ draft.step \in 1..5 /\ draft.filled \in SUBSET FormSteps
                      /\ draft.paid \in Payment \cup {None}
  BY DEF Drafts
<1>3. Formed(q)
  BY <1>1, <1>2 DEF Formed
<1>4. Held(q)
  BY <1>1 DEF Held
<1>5. Sound(q)
  BY <1>3, <1>4 DEF Sound
<1> QED BY <1>5 DEF q

LEMMA LoadedSound ==
    ASSUME EntryInv, Sound(page), NEW c \in calls, LinkFetched(c) \/ LinkFailed(c)
    PROVE  Sound(page')
<1>1. PICK f \in {"closed", "missing"} : \E x :
          page' = Loaded([[page EXCEPT !["ready"] = TRUE] EXCEPT ![f] = x])
  BY DEF LinkFetched, LinkFailed
<1>2. PICK x : page' = Loaded([[page EXCEPT !["ready"] = TRUE] EXCEPT ![f] = x])
  BY <1>1
<1> DEFINE q == [[page EXCEPT !["ready"] = TRUE] EXCEPT ![f] = x]
<1>3. Keeps(page, q)
  BY KeepsTwo DEF PageFields, EntryInv, Shapes
<1> HIDE DEF q
<1>4. EntryShape(q, PageFields) /\ Sound(q)
  BY <1>3, SoundKeeps DEF Keeps
<1>5. page' = q \/ page' = [q EXCEPT !.unsaved = Snapshot(q)]
  BY <1>2 DEF Loaded, q
<1> QED BY <1>4, <1>5, UnsavedSound DEF Sound

LEMMA FormSound ==
    ASSUME EntryInv, Sound(page), TeamForm \/ ManagerForm \/ SquadForm \/ BackStep(4)
    PROVE  Sound(page')
<1>0. EntryShape(page, PageFields)
  BY DEF EntryInv, Shapes
<1>1. ASSUME NEW s \in 1..3, FillStep(s) PROVE Sound(page')
  <2> DEFINE x == IF s \in page.filled THEN page.filled \ {s} ELSE page.filled \cup {s}
             q == [page EXCEPT !["filled"] = x]
             r == [q EXCEPT !["edits"] = page.edits + 1]
  <2>1. x \in SUBSET FormSteps
    BY DEF Sound, Formed, FormSteps
  <2>2. page' = Kept(r)
    BY <1>1 DEF FillStep
  <2> HIDE DEF x
  <2>3. EntryShape(q, PageFields) /\ q["filled"] = x /\ \A g \in PageFields \ {"filled"} : q[g] = page[g]
    BY <1>0, Column DEF PageFields
  <2> HIDE DEF q
  <2>4. Sound(q)
    BY <2>1, <2>3 DEF Sound, Formed, Held, PageFields
  <2>5. Keeps(q, r)
    BY <2>3, KeepsBut DEF PageFields
  <2> HIDE DEF r
  <2> QED BY <2>2, <2>4, <2>5, SoundKeeps, KeptSound DEF Keeps
<1>2. ASSUME NEW x \in 1..5, page' = Kept([page EXCEPT !["step"] = x]) PROVE Sound(page')
  <2> DEFINE q == [page EXCEPT !["step"] = x]
  <2>1. EntryShape(q, PageFields) /\ q["step"] = x /\ \A g \in PageFields \ {"step"} : q[g] = page[g]
    BY <1>0, Column DEF PageFields
  <2>2. page' = Kept(q)
    BY <1>2
  <2> HIDE DEF q
  <2>3. Sound(q)
    BY <2>1 DEF Sound, Formed, Held, PageFields
  <2> QED BY <2>1, <2>2, <2>3, KeptSound
<1>3. ASSUME NEW s \in 1..3, NextStep(s) PROVE Sound(page')
  <2>1. s + 1 \in 1..5 /\ page' = Kept([page EXCEPT !["step"] = s + 1])
    BY <1>3 DEF NextStep
  <2> QED BY <2>1, <1>2
<1>4. ASSUME NEW s \in 2..4, BackStep(s) PROVE Sound(page')
  <2>1. s - 1 \in 1..5 /\ page' = Kept([page EXCEPT !["step"] = s - 1])
    BY <1>4 DEF BackStep
  <2> QED BY <2>1, <1>2
<1> QED BY <1>1, <1>3, <1>4 DEF TeamForm, ManagerForm, SquadForm

\* A step that leaves the draft and what goes into it alone.
LEMMA QuietSound ==
    ASSUME EntryInv, Sound(page),
           \/ AgreeToTerms \/ PayAndRegister \/ Retry \/ LinkTurned
           \/ \E c \in calls : Validated(c) \/ Ordered(c) \/ OrderFailed(c) \/ CheckoutDismissed(c)
    PROVE  Sound(page')
<1>0. EntryShape(page, PageFields)
  BY DEF EntryInv, Shapes
<1>1. CASE AgreeToTerms
  <2>1. page' = [page EXCEPT !["terms"] = TRUE]
    BY <1>1 DEF AgreeToTerms
  <2> QED BY <1>0, <2>1, KeepsBut, SoundKeeps DEF PageFields
<1>2. CASE PayAndRegister \/ Retry
  <2>1. PICK x : page' = [[page EXCEPT !["busy"] = TRUE] EXCEPT !["stage"] = x]
    BY <1>2 DEF PayAndRegister, Retry
  <2>2. Keeps(page, page')
    BY <1>0, <2>1, KeepsTwo DEF PageFields
  <2> QED BY <2>2, SoundKeeps
<1>3. ASSUME NEW c \in calls, Ordered(c) PROVE Sound(page')
  <2>1. page' = page \/ page' = [page EXCEPT !["stage"] = "verifying"]
    BY <1>3 DEF Ordered
  <2> QED BY <1>0, <2>1, KeepsBut, SoundKeeps DEF PageFields
<1>4. ASSUME NEW c \in calls, OrderFailed(c) \/ CheckoutDismissed(c) PROVE Sound(page')
  <2>1. page' = Idle(page)
    BY <1>4 DEF OrderFailed, CheckoutDismissed
  <2> QED BY <1>0, <2>1, IdleKeeps, SoundKeeps
<1>5. CASE LinkTurned \/ \E c \in calls : Validated(c)
  BY <1>5 DEF LinkTurned, Validated
<1> QED BY <1>1, <1>2, <1>3, <1>4, <1>5

\* A checkout that succeeds hands its payment to the timer at once.
LEMMA PaidSound == ASSUME EntryInv, Sound(page), NEW c \in calls, Paid(c) PROVE Sound(page')
<1>1. PICK m \in Payment \ api.taken :
           page' = LET p == [[page EXCEPT !["paid"] = m] EXCEPT !["stage"] = "success"] IN
                      [p EXCEPT !.unsaved = Snapshot(p)]
  BY DEF Paid
<1> DEFINE q == [page EXCEPT !["paid"] = m]
           r == [q EXCEPT !["stage"] = "success"]
<1>2. EntryShape(q, PageFields) /\ q["paid"] = m /\ \A g \in PageFields \ {"paid"} : q[g] = page[g]
  BY Column DEF PageFields, EntryInv, Shapes
<1>3. page' = [r EXCEPT !.unsaved = Snapshot(r)]
  BY <1>1
<1> HIDE DEF q
<1>4. Formed(q)
  BY <1>2 DEF Sound, Formed, PageFields
<1>5. Keeps(q, r)
  BY <1>2, KeepsBut DEF PageFields
<1> HIDE DEF r
<1>6. EntryShape(r, PageFields) /\ Formed(r)
  BY <1>4, <1>5 DEF Keeps, Formed
<1> QED BY <1>3, <1>6, UnsavedSound

LEMMA AnswerSound ==
    ASSUME EntryInv, Sound(page), NEW c \in calls,
           NotValid(c) \/ EntryAccepted(c) \/ EntryRefunded(c) \/ EntryFailed(c)
    PROVE  Sound(page')
<1>0. EntryShape(page, PageFields)
  BY DEF EntryInv, Shapes
<1>1. CASE NotValid(c)
  <2>1. PICK s \in 0..3 : page' = Kept(SentBack(Idle(page), s))
    BY <1>1 DEF NotValid
  <2>2. EntryShape(Idle(page), PageFields) /\ Sound(Idle(page))
    BY <1>0, IdleKeeps, SoundKeeps DEF Keeps
  <2> QED BY <2>1, <2>2, SentBackSound
<1>2. CASE EntryFailed(c)
  <2> DEFINE x == IF c.paid = None THEN page.outcome ELSE "recover"
             q == [page EXCEPT !["outcome"] = x]
  <2>1. PICK s \in 0..3 : page' = Kept(SentBack(Idle(q), s))
    BY <1>2 DEF EntryFailed
  <2>2. Keeps(page, q)
    BY <1>0, KeepsBut DEF PageFields
  <2> HIDE DEF q
  <2>3. Keeps(q, Idle(q)) /\ Sound(q)
    BY <2>2, IdleKeeps, SoundKeeps DEF Keeps
  <2>4. EntryShape(Idle(q), PageFields) /\ Sound(Idle(q))
    BY <2>3, SoundKeeps DEF Keeps
  <2> QED BY <2>1, <2>4, SentBackSound
\* The payment is settled and the draft cleared.
<1>3. ASSUME NEW q, EntryShape(q, PageFields), q.paid = None, q.step \in 1..5,
             q.filled = page.filled
      PROVE  EntryShape(Idle(ClearedDraft(q)), PageFields) /\ Sound(Idle(ClearedDraft(q)))
  <2> DEFINE r == ClearedDraft(q)
  <2>1. /\ EntryShape(r, PageFields) /\ r.stored = None /\ r.unsaved = None
        /\ r.paid = None /\ r.step = q.step /\ r.filled = page.filled
    BY <1>3, ClearedCols
  <2> HIDE DEF r
  <2>2. Sound(r)
    BY <1>3, <2>1, SoundUnpaid DEF Sound, Formed
  <2>3. Keeps(r, Idle(r))
    BY <2>1, IdleKeeps
  <2>4. EntryShape(Idle(r), PageFields) /\ Sound(Idle(r))
    BY <2>2, <2>3, SoundKeeps DEF Keeps
  <2> QED BY <2>4 DEF r
<1>4. CASE EntryAccepted(c)
  <2> DEFINE p1 == [page EXCEPT !["done"] = TRUE]
             p2 == [p1 EXCEPT !["outcome"] = "none"]
             p3 == [p2 EXCEPT !["paid"] = None]
             q == [p3 EXCEPT !["step"] = 5]
  <2>1. page' = Idle(ClearedDraft(q))
    BY <1>4 DEF EntryAccepted
  <2>2. Keeps(page, p2)
    BY <1>0, KeepsTwo DEF PageFields
  <2> HIDE DEF p2
  <2>3. EntryShape(p3, PageFields) /\ p3["paid"] = None /\ \A g \in PageFields \ {"paid"} : p3[g] = p2[g]
    BY <2>2, Column DEF Keeps, PageFields
  <2> HIDE DEF p3
  <2>4. EntryShape(q, PageFields) /\ q["step"] = 5 /\ \A g \in PageFields \ {"step"} : q[g] = p3[g]
    BY <2>3, Column DEF PageFields
  <2> HIDE DEF q
  <2>5. q.paid = None /\ q.step = 5 /\ q.filled = page.filled
    BY <2>2, <2>3, <2>4 DEF Keeps, PageFields
  <2> QED BY <1>3, <2>1, <2>4, <2>5
<1>5. CASE EntryRefunded(c)
  <2> DEFINE p1 == [page EXCEPT !["outcome"] = "refund"]
             q == [p1 EXCEPT !["paid"] = None]
  <2>1. page' = Kept(Idle(ClearedDraft(q)))
    BY <1>5 DEF EntryRefunded
  <2>2. Keeps(page, p1)
    BY <1>0, KeepsBut DEF PageFields
  <2> HIDE DEF p1
  <2>3. EntryShape(q, PageFields) /\ q["paid"] = None /\ \A g \in PageFields \ {"paid"} : q[g] = p1[g]
    BY <2>2, Column DEF Keeps, PageFields
  <2> HIDE DEF q
  <2>4. q.paid = None /\ q.step \in 1..5 /\ q.filled = page.filled
    BY <2>2, <2>3 DEF Keeps, PageFields, Sound, Formed
  <2> QED BY <1>3, <2>1, <2>3, <2>4, KeptSound
<1> QED BY <1>1, <1>2, <1>4, <1>5

LEMMA DraftSound ==
    ASSUME EntryInv, Sound(page), DraftWritten \/ DraftNotWritten PROVE Sound(page')
<1>0. EntryShape(page, PageFields) /\ page.unsaved # None
  BY DEF EntryInv, Shapes, DraftWritten, DraftNotWritten
<1>1. CASE DraftWritten
  <2> DEFINE q == [page EXCEPT !["stored"] = page.unsaved]
             r == [q EXCEPT !["unsaved"] = None]
             u == [r EXCEPT !["dropped"] = FALSE]
  <2>1. page' = u
    BY <1>1 DEF DraftWritten
  <2>2. EntryShape(q, PageFields) /\ q["stored"] = page.unsaved
        /\ \A g \in PageFields \ {"stored"} : q[g] = page[g]
    BY <1>0, Column DEF PageFields
  <2> HIDE DEF q
  <2>3. EntryShape(r, PageFields) /\ r["unsaved"] = None
        /\ \A g \in PageFields \ {"unsaved"} : r[g] = q[g]
    BY <2>2, Column DEF PageFields
  <2> HIDE DEF r
  <2>4. \A g \in PageFields \ {"dropped"} : u[g] = r[g]
    BY <2>3, Column DEF PageFields
  <2> HIDE DEF u
  <2> QED BY <1>0, <2>1, <2>2, <2>3, <2>4 DEF Sound, Formed, Held, PageFields
<1>2. CASE DraftNotWritten
  <2> DEFINE q == [page EXCEPT !["unsaved"] = None]
             r == [q EXCEPT !["dropped"] = TRUE]
  <2>1. page' = r
    BY <1>2 DEF DraftNotWritten
  <2>2. EntryShape(q, PageFields) /\ q["unsaved"] = None
        /\ \A g \in PageFields \ {"unsaved"} : q[g] = page[g]
    BY <1>0, Column DEF PageFields
  <2> HIDE DEF q
  <2>3. EntryShape(r, PageFields) /\ r["dropped"] = TRUE
        /\ \A g \in PageFields \ {"dropped"} : r[g] = q[g]
    BY <2>2, Column DEF PageFields
  <2> HIDE DEF r
  <2> QED BY <2>1, <2>2, <2>3 DEF Sound, Formed, Held, PageFields
<1> QED BY <1>1, <1>2

LEMMA LeftSound == ASSUME EntryInv, Sound(page), TabDies \/ StartOver PROVE Sound(page')
<1>1. ASSUME NEW draft \in {None, page.stored}, Reopens(draft) PROVE Sound(page')
  <2>1. draft \in Drafts \cup {None}
    BY DEF Sound, Formed
  <2> QED BY <1>1, <2>1, OpenedSound DEF Reopens
<1>2. CASE TabDies
  BY <1>1, <1>2 DEF TabDies
<1>3. CASE StartOver /\ page' = ClearedDraft(page)
  <2>1. page.paid = None
    BY <1>3, NothingToLose
  <2>2. /\ page'.stored = None /\ page'.unsaved = None /\ page'.paid = page.paid
        /\ page'.step = page.step /\ page'.filled = page.filled
    BY <1>3, ClearedCols DEF EntryInv, Shapes
  <2> QED BY <2>1, <2>2, SoundUnpaid DEF Sound, Formed
<1> QED BY <1>1, <1>2, <1>3 DEF StartOver

LEMMA SoundNext == ASSUME EntryInv, Sound(page), [EntryNext]_clientVars PROVE Sound(page')
<1>1. CASE UNCHANGED clientVars
  BY <1>1 DEF clientVars
<1>2. CASE TeamForm \/ ManagerForm \/ SquadForm \/ PaymentForm
  BY <1>2, FormSound, QuietSound DEF PaymentForm
<1>3. CASE DraftWritten \/ DraftNotWritten \/ StartOver \/ Retry \/ LinkTurned \/ TabDies
  BY <1>3, DraftSound, LeftSound, QuietSound
<1>4. ASSUME NEW c \in calls,
             \/ LinkFetched(c) \/ LinkFailed(c) \/ Validated(c) \/ NotValid(c)
             \/ Ordered(c) \/ OrderFailed(c) \/ Paid(c) \/ CheckoutDismissed(c)
             \/ EntryAccepted(c) \/ EntryRefunded(c) \/ EntryFailed(c)
      PROVE  Sound(page')
  BY <1>4, LoadedSound, QuietSound, PaidSound, AnswerSound
<1> QED BY <1>1, <1>2, <1>3, <1>4 DEF EntryNext

----------------------------------------------------------------------------
(* The theorems *)

\* The strengthening the theorems need: what the page may lose is what it may hold.
EntrySafe == EntryInv /\ Sound(page)

LEMMA EntryInitInv == ASSUME EntryInit PROVE EntrySafe
<1>1. api = [entry |-> None, open |-> TRUE, taken |-> {}, refunded |-> {}]
  BY DEF EntryInit
<1>2. calls = {[kind |-> "link"]}
  BY DEF EntryInit
<1>3. page = Opened(None, 0)
  BY DEF EntryInit
<1>4. told = [reported |-> {}, lost |-> {}]
  BY DEF EntryInit
<1>5. EntryShape(page, PageFields) /\ ~ page.ready /\ ~ page.done
  BY <1>3, OpenedCols
<1>6. EntryShape(api, ApiFields)
  BY <1>1 DEF EntryShape, ApiFields
<1>7. EntryShape(told, ToldFields) /\ told.reported = {}
  BY <1>4 DEF EntryShape, ToldFields
<1>8. Open = {}
  BY <1>7 DEF Open, Unsettled
<1>9. OneCall /\ \A c \in calls : Agrees(c, page)
  BY <1>2, <1>5 DEF OneCall, Agrees
<1>10. page.paid = None /\ Sound(page)
  BY <1>3, OpenedCols, OpenedSound
<1> QED BY <1>5, <1>6, <1>7, <1>8, <1>9, <1>10 DEF EntrySafe, EntryInv, Shapes, Waiting, Receipt

LEMMA EntryNextInv == ASSUME EntrySafe, [EntryNext]_clientVars PROVE EntrySafe'
<1> EntryInv /\ Sound(page)
  BY DEF EntrySafe
<1>0. Sound(page')
  BY SoundNext
<1>1. ASSUME NEW c \in calls, LinkFetched(c) \/ LinkFailed(c) PROVE EntryInv'
  BY <1>1, LinkInv
<1>2. ASSUME NEW c \in calls, Validated(c) \/ NotValid(c) PROVE EntryInv'
  BY <1>2, ValidatedInv, NotValidInv
<1>3. ASSUME NEW c \in calls, Ordered(c) \/ OrderFailed(c) PROVE EntryInv'
  BY <1>3, OrderedInv, DismissedInv
<1>4. ASSUME NEW c \in calls, Paid(c) \/ CheckoutDismissed(c) PROVE EntryInv'
  BY <1>4, PaidInv, DismissedInv
<1>5. ASSUME NEW c \in calls, EntryAccepted(c) \/ EntryRefunded(c) \/ EntryFailed(c) PROVE EntryInv'
  BY <1>5, AcceptedInv, RefundedInv, FailedInv
<1>6. ASSUME TeamForm \/ ManagerForm \/ SquadForm PROVE EntryInv'
  BY <1>6, FillInv, StepInv DEF TeamForm, ManagerForm, SquadForm
<1>7. ASSUME PaymentForm PROVE EntryInv'
  BY <1>7, AgreeInv, PayInv, StepInv DEF PaymentForm
<1>8. ASSUME DraftWritten \/ DraftNotWritten \/ StartOver \/ Retry PROVE EntryInv'
  BY <1>8, WrittenInv, NotWrittenInv, StartOverInv, RetryInv
<1>9. ASSUME LinkTurned \/ TabDies PROVE EntryInv'
  BY <1>9, TurnedInv, DiesInv DEF Sound
<1>10. ASSUME UNCHANGED clientVars PROVE EntryInv'
  <2>1. UNCHANGED <<api, calls, page, told>>
    BY <1>10 DEF clientVars
  <2> QED BY <2>1 DEF EntryInv, Shapes, OneCall, Waiting, Agrees, Receipt, Open, Unsettled
<1> QED BY <1>0, <1>1, <1>2, <1>3, <1>4, <1>5, <1>6, <1>7, <1>8, <1>9, <1>10 DEF EntryNext, EntrySafe

LEMMA EntryPays == EntryInv => ChargedOnce
<1> SUFFICES ASSUME EntryInv PROVE Cardinality(Open) <= 1 /\ Open \subseteq {page.paid}
  BY DEF ChargedOnce, Open
<1>1. Open \subseteq {page.paid}
  BY DEF EntryInv, Waiting
<1>2. Open = {} \/ Open = {page.paid}
  BY <1>1
<1>3. Cardinality({}) = 0 /\ Cardinality({page.paid}) = 1
  BY FS_EmptySet, FS_Singleton
<1> QED BY <1>1, <1>2, <1>3

\* Whatever fails after a checkout - the entry refused, its answer lost, the tab gone -
\* at most one payment waits, and the page holds it, unless a tab took it along that
\* died before the draft was written, after the device refused it, or for longer than
\* a draft is kept (payAndRegister, submitRegistration, retryWithSavedPayment, useDraft).
THEOREM NobodyChargedTwice == EntrySpec => []ChargedOnce
<1>1. EntryInit => EntrySafe
  BY EntryInitInv
<1>2. EntrySafe /\ [EntryNext]_clientVars => EntrySafe'
  BY EntryNextInv
<1>3. EntrySafe => ChargedOnce
  BY EntryPays DEF EntrySafe
<1> QED BY <1>1, <1>2, <1>3, PTL DEF EntrySpec

\* With the receipt on the screen no draft is left on the device, and none is
\* waiting for its timer (submitRegistration, useDraft).
THEOREM ReceiptLast == EntrySpec => []ReceiptClearsDraft
<1>1. EntryInit => EntrySafe
  BY EntryInitInv
<1>2. EntrySafe /\ [EntryNext]_clientVars => EntrySafe'
  BY EntryNextInv
<1>3. EntrySafe => ReceiptClearsDraft
  BY DEF EntrySafe, EntryInv, Receipt, ReceiptClearsDraft
<1> QED BY <1>1, <1>2, <1>3, PTL DEF EntrySpec

----------------------------------------------------------------------------
(***************************************************************************)
(* The cricket console: who a ball names                                   *)
(***************************************************************************)

KeypadFields == {"at", "match", "crease", "seen", "wicket", "spoken", "busy", "moves"}
CricketFields == {"toss", "status", "innings", "crease", "log"}

\* The columns a match, a crease and the page have.
CricketShape(m) == m = [f \in CricketFields |-> m[f]]
CreaseShape(c) == c = [f \in DOMAIN NoCrease |-> c[f]]
KeypadShape(p) ==
    p = [f \in KeypadFields |-> p[f]] /\ p.at = "cricket" /\ CreaseShape(p.crease) /\ p.busy \in BOOLEAN

\* A recording is under way from its tap until the fetch that follows it.
Flying(c) == c.kind = "post" \/ (c.kind = "read" /\ c.own)

OneFlight == \A c \in calls : Flying(c) => /\ page.busy
                                           /\ \A d \in calls : Flying(d) => c = d

\* A ball called on the keypad still names the right players when it arrives:
\* nothing else can have changed the match since the tap.
Right(c) == c.kind = "post" /\ c.op = "ball" /\ c.by = "keypad" => RightNames(c)

Fresh(c) == /\ c.kind = "read" => c.own \in BOOLEAN
            /\ c.kind = "post" => c.op \in {"ball", "undo", "switch", "finish"}

\* The inductive invariant of the cricket console.
KeypadInv ==
    /\ CricketShape(api) /\ KeypadShape(page)
    /\ \A c \in calls : Right(c) /\ Fresh(c)
    /\ OneFlight
    /\ "keypad" \notin told

----------------------------------------------------------------------------
(* The columns *)

LEMMA CreaseColumns ==
    ASSUME NEW c, CreaseShape(c), NEW f, NEW v PROVE CreaseShape([c EXCEPT ![f] = v])
BY DEF CreaseShape

LEMMA CreaseFields == DOMAIN NoCrease = {"striker", "nonStriker", "bowler"}
BY DEF NoCrease

LEMMA SwapColumns == ASSUME NEW c, CreaseShape(c) PROVE CreaseShape(Swap(c))
BY DEF Swap, CreaseShape

LEMMA PageColumn ==
    ASSUME NEW p, KeypadShape(p), NEW f \in KeypadFields \ {"at", "crease", "busy"}, NEW v
    PROVE  LET q == [p EXCEPT ![f] = v]
           IN  KeypadShape(q) /\ q.busy = p.busy /\ q.crease = p.crease
BY DEF KeypadShape, KeypadFields

LEMMA MovesColumn ==
    ASSUME NEW p, KeypadShape(p), NEW v
    PROVE  KeypadShape([p EXCEPT !["moves"] = v]) /\ [p EXCEPT !["moves"] = v].busy = p.busy
BY PageColumn DEF KeypadFields

LEMMA CreaseColumn ==
    ASSUME NEW p, KeypadShape(p), NEW c, CreaseShape(c)
    PROVE  KeypadShape([p EXCEPT !.crease = c]) /\ [p EXCEPT !.crease = c].busy = p.busy
BY DEF KeypadShape, KeypadFields

LEMMA BusyColumn ==
    ASSUME NEW p, KeypadShape(p), NEW b \in BOOLEAN
    PROVE  KeypadShape([p EXCEPT !.busy = b]) /\ [p EXCEPT !.busy = b].busy = b
BY DEF KeypadShape, KeypadFields

LEMMA MatchColumn ==
    ASSUME NEW m, CricketShape(m), NEW f \in CricketFields, NEW v
    PROVE  CricketShape([m EXCEPT ![f] = v])
BY DEF CricketShape, CricketFields

----------------------------------------------------------------------------
(* The names of a ball *)

\* What the page and the API work out of a match is worked out of its innings
\* and its log.
LEMMA SameDeliveries ==
    ASSUME NEW m, NEW n, m.log = n.log, m.innings = n.innings
    PROVE  /\ DismissedIds(m) = DismissedIds(n)
           /\ OverComplete(m) = OverComplete(n)
           /\ LastBowler(m) = LastBowler(n)
<1> DEFINE G(l, i) == SelectSeq(l, LAMBDA d : d.innings = i)
           H(s) == SelectSeq(s, LAMBDA d : d.legal)
<1>1. InningsDeliveries(m) = G(m.log, m.innings) /\ InningsDeliveries(n) = G(n.log, n.innings)
  BY DEF InningsDeliveries
<1>2. LegalBalls(m) = Len(H(InningsDeliveries(m))) /\ LegalBalls(n) = Len(H(InningsDeliveries(n)))
  BY DEF LegalBalls
<1> HIDE DEF G, H
<1>3. InningsDeliveries(m) = InningsDeliveries(n)
  BY <1>1
<1>4. LegalBalls(m) = LegalBalls(n)
  BY <1>2, <1>3
<1> QED BY <1>3, <1>4 DEF DismissedIds, OverComplete, LastBowler

LEMMA SameNames ==
    ASSUME NEW d, api'.log = api.log, api'.innings = api.innings, api'.crease = api.crease
    PROVE  RightNames(d)' = RightNames(d)
<1>1. /\ DismissedIds(api') = DismissedIds(api)
      /\ OverComplete(api') = OverComplete(api)
      /\ LastBowler(api') = LastBowler(api)
  BY SameDeliveries
<1>2. Named(d)' = Named(d)
  BY DEF Named
<1> QED BY <1>1, <1>2 DEF RightNames

\* Tapped over a current copy with the crease ready, a ball names the right ones.
LEMMA TappedRight ==
    ASSUME KeypadShape(page), page.match = api, CreaseReady(page.match, page.crease),
           NEW runs, NEW extra
    PROVE  RightNames(Delivery("keypad", runs, extra, NoWicket))
<1> DEFINE b == EffectiveBowler(api, page.crease)
           d == Delivery("keypad", runs, extra, NoWicket)
           c == [page.crease EXCEPT !.bowler = b]
<1>1. d.crease = c
  BY DEF Delivery
<1>2. /\ c.striker = page.crease.striker /\ c.nonStriker = page.crease.nonStriker
      /\ c.bowler = b /\ c = [f \in DOMAIN NoCrease |-> c[f]]
  BY CreaseFields DEF KeypadShape, CreaseShape
<1>3. /\ None \notin {page.crease.striker, page.crease.nonStriker, b}
      /\ {page.crease.striker, page.crease.nonStriker} \cap DismissedIds(api) = {}
  BY DEF CreaseReady
<1>4. OverComplete(api) => b # LastBowler(api)
  BY <1>3 DEF EffectiveBowler
<1> HIDE DEF b, c, d
<1>5. Named(d) = c
  BY <1>1, <1>2, <1>3, CreaseFields DEF Named
<1> QED BY <1>2, <1>3, <1>4, <1>5 DEF RightNames, d

----------------------------------------------------------------------------
(* The steps *)

LEMMA FlightInv ==
    ASSUME KeypadInv, NEW call, NEW form, call.kind = "post", Right(call), Fresh(call),
           KeypadShape(form), form.busy = page.busy, Flight(call, form)
    PROVE  KeypadInv'
<1>1. api' = api /\ told' = told
  BY DEF Flight
<1>2. CASE page.busy
  <2>1. page' = form /\ calls' = calls
    BY <1>2 DEF Flight
  <2>2. \A c \in calls : Right(c)' /\ Fresh(c)'
    BY <1>1, SameNames DEF KeypadInv, Right, Fresh
  <2> QED BY <1>1, <2>1, <2>2 DEF KeypadInv, OneFlight, Flying
<1>3. CASE ~ page.busy
  <2> DEFINE p == [form EXCEPT !.busy = TRUE]
             k == p.moves + 1
  <2>1. page' = [p EXCEPT !["moves"] = k] /\ calls' = calls \cup {call}
    <3>1. page' = [form EXCEPT !.busy = TRUE, !.moves = @ + 1] /\ calls' = calls \cup {call}
      BY <1>3 DEF Flight, Send
    <3>2. p.moves = form.moves
      BY DEF KeypadShape
    <3> QED BY <3>1, <3>2
  <2>2. KeypadShape(p) /\ p.busy
    BY BusyColumn
  <2> HIDE DEF p, k
  <2> DEFINE q == [p EXCEPT !["moves"] = k]
  <2>0. KeypadShape(q) /\ q.busy = p.busy
    BY <2>2, MovesColumn
  <2> HIDE DEF q
  <2>3. page' = q /\ KeypadShape(page') /\ page'.busy
    BY <2>0, <2>1, <2>2 DEF q
  <2>4. \A c \in calls : ~ Flying(c)
    BY <1>3 DEF KeypadInv, OneFlight
  <2>5. \A c \in calls : Right(c)' /\ Fresh(c)'
    BY <1>1, SameNames DEF KeypadInv, Right, Fresh
  <2>6. Right(call)' /\ Fresh(call)'
    BY <1>1, SameNames DEF Right, Fresh
  <2>7. OneFlight'
    BY <2>1, <2>3, <2>4 DEF OneFlight, Flying
  <2> QED BY <1>1, <2>1, <2>3, <2>5, <2>6, <2>7 DEF KeypadInv
<1> QED BY <1>2, <1>3

\* A step of the page alone.
LEMMA PageInv ==
    ASSUME KeypadInv, KeypadShape(page'), page'.busy = page.busy, PageOnly PROVE KeypadInv'
<1>1. api' = api /\ calls' = calls /\ told' = told
  BY DEF PageOnly
<1>2. \A c \in calls : Right(c)' /\ Fresh(c)'
  BY <1>1, SameNames DEF KeypadInv, Right, Fresh
<1> QED BY <1>1, <1>2 DEF KeypadInv, OneFlight, Flying

LEMMA TapsInv ==
    ASSUME KeypadInv,
           \/ \E runs \in 0..1, extra \in Extra : TapRuns(runs, extra)
           \/ \E how \in {"bowled", "run_out"}, who \in Batter,
                 extra \in Extra, next \in Batter \cup {None} : ConfirmWicket(how, who, extra, next)
           \/ \E op \in {"undo", "switch", "finish"} : TapControl(op)
           \/ ConfirmSpokenWicket
           \/ \E said \in Phrase : Hear(said)
    PROVE  KeypadInv'
<1>0. KeypadShape(page)
  BY DEF KeypadInv
<1>1. ASSUME NEW runs, NEW extra, TapRuns(runs, extra) PROVE KeypadInv'
  <2> DEFINE d == Delivery(Keypad, runs, extra, NoWicket)
  <2>1. d.kind = "post" /\ d.by = Keypad /\ Fresh(d)
    BY DEF Delivery, Fresh
  <2>2. CASE page.match = api
    <3>1. d = Delivery("keypad", runs, extra, NoWicket)
      BY <2>2 DEF Keypad
    <3>2. RightNames(d)
      BY <1>0, <1>1, <2>2, <3>1, TappedRight DEF TapRuns, CanScore
    <3> QED BY <1>0, <1>1, <2>1, <3>2, FlightInv DEF TapRuns, Right
  <2>3. CASE page.match # api
    <3>1. Right(d)
      BY <2>1, <2>3 DEF Keypad, Right
    <3> QED BY <1>0, <1>1, <2>1, <3>1, FlightInv DEF TapRuns
  <2> QED BY <2>2, <2>3
<1>2. ASSUME NEW by, by # "keypad", NEW runs, NEW extra, NEW w
      PROVE  LET d == Delivery(by, runs, extra, w) IN d.kind = "post" /\ Right(d) /\ Fresh(d)
  BY <1>2 DEF Delivery, Right, Fresh
<1>3. ASSUME NEW op \in {"undo", "switch", "finish"}, NEW form, KeypadShape(form), form.busy = page.busy,
             Flight([kind |-> "post", op |-> op], form)
      PROVE  KeypadInv'
  BY <1>3, FlightInv DEF Right, Fresh
<1>4. ASSUME NEW how, NEW who, NEW extra, NEW next, ConfirmWicket(how, who, extra, next)
      PROVE  KeypadInv'
  <2> DEFINE form == [page EXCEPT !["wicket"] = None]
             w == [how |-> how, out |-> who, next |-> next]
             d == Delivery("dialog", 0, extra, w)
  <2>1. KeypadShape(form) /\ form.busy = page.busy
    BY <1>0, PageColumn DEF KeypadFields
  <2>2. Flight(d, form)
    BY <1>4 DEF ConfirmWicket
  <2>3. d.kind = "post" /\ Right(d) /\ Fresh(d)
    BY <1>2
  <2> HIDE DEF form, d
  <2> QED BY <2>1, <2>2, <2>3, FlightInv
<1>5. ASSUME NEW op \in {"undo", "switch", "finish"}, TapControl(op) PROVE KeypadInv'
  BY <1>0, <1>3, <1>5 DEF TapControl
<1>6. CASE ConfirmSpokenWicket
  <2> DEFINE form == [page EXCEPT !["spoken"] = {}]
             w == [how |-> ParseVoiceCall(page.spoken).how, out |-> page.crease.striker,
                   next |-> None]
             d == Delivery("voice", 0, "none", w)
  <2>1. KeypadShape(form) /\ form.busy = page.busy
    BY <1>0, PageColumn DEF KeypadFields
  <2>2. Flight(d, form)
    BY <1>6 DEF ConfirmSpokenWicket
  <2>3. d.kind = "post" /\ Right(d) /\ Fresh(d)
    BY <1>2
  <2> HIDE DEF form, d
  <2> QED BY <2>1, <2>2, <2>3, FlightInv
<1>7. ASSUME NEW said, Hear(said) PROVE KeypadInv'
  <2> DEFINE call == ParseVoiceCall(said)
             d == Delivery("voice", call.runs, call.extra, NoWicket)
             form == [page EXCEPT !["spoken"] = said]
  <2>0. (CASE call.kind = "undo" -> Flight([kind |-> "post", op |-> "undo"], page)
          [] call.kind = "runs" -> Flight(d, page)
          [] call.kind = "wicket" -> page' = form /\ PageOnly
          [] OTHER -> UNCHANGED clientVars)
    BY <1>7 DEF Hear
  <2>2. d.kind = "post" /\ Right(d) /\ Fresh(d)
    BY <1>2
  <2>3. KeypadShape(form) /\ form.busy = page.busy
    BY <1>0, PageColumn DEF KeypadFields
  <2> HIDE DEF form, d, call
  <2>1. \/ Flight([kind |-> "post", op |-> "undo"], page)
        \/ Flight(d, page)
        \/ page' = form /\ PageOnly
        \/ UNCHANGED clientVars
    BY <2>0
  <2>4. CASE page' = form /\ PageOnly
    BY <2>3, <2>4, PageInv
  <2>5. CASE UNCHANGED clientVars
    BY <1>0, <2>5, PageInv DEF clientVars, PageOnly
  <2>6. CASE Flight(d, page)
    BY <1>0, <2>2, <2>6, FlightInv
  <2>7. CASE Flight([kind |-> "post", op |-> "undo"], page)
    BY <1>0, <1>3, <2>7
  <2> QED BY <2>1, <2>4, <2>5, <2>6, <2>7
<1> QED BY <1>1, <1>4, <1>5, <1>6, <1>7

LEMMA NamesInv ==
    ASSUME KeypadInv,
           \/ \E f \in DOMAIN NoCrease, who \in Batter \cup Bowler : NameCrease(f, who)
           \/ \E who \in Batter \cup Bowler : AnswerPrompt(who)
           \/ SwapEnds \/ OpenWicket \/ CloseWicket \/ StartListening
    PROVE  KeypadInv'
<1>0. KeypadShape(page) /\ CreaseShape(page.crease)
  BY DEF KeypadInv, KeypadShape
<1>1. ASSUME NEW c, CreaseShape(c), page' = [page EXCEPT !.crease = c], PageOnly PROVE KeypadInv'
  BY <1>0, <1>1, CreaseColumn, PageInv
<1>2. ASSUME NEW f \in {"wicket", "spoken"}, NEW v, page' = [page EXCEPT ![f] = v], PageOnly
      PROVE  KeypadInv'
  <2>1. KeypadShape([page EXCEPT ![f] = v]) /\ [page EXCEPT ![f] = v].busy = page.busy
    BY <1>0, PageColumn DEF KeypadFields
  <2> QED BY <1>2, <2>1, PageInv
<1>3. ASSUME NEW c, CreaseShape(c), page' = [page EXCEPT !.crease = c, !.moves = @ + 1], PageOnly
      PROVE  KeypadInv'
  <2> DEFINE q == [page EXCEPT !.crease = c]
             k == page.moves + 1
  <2>1. page' = [q EXCEPT !["moves"] = k]
    BY <1>3
  <2>2. KeypadShape(q) /\ q.busy = page.busy
    BY <1>0, <1>3, CreaseColumn
  <2> HIDE DEF q, k
  <2> DEFINE p == [q EXCEPT !["moves"] = k]
  <2>3. KeypadShape(p) /\ p.busy = q.busy
    BY <2>2, MovesColumn
  <2> HIDE DEF p
  <2>4. page' = p
    BY <2>1 DEF p
  <2> QED BY <1>3, <2>2, <2>3, <2>4, PageInv
<1>4. ASSUME NEW f, NEW who, NameCrease(f, who) PROVE KeypadInv'
  <2> DEFINE c == [page.crease EXCEPT ![f] = who]
  <2>1. CreaseShape(c)
    BY <1>0, CreaseColumns
  <2>2. page' = [page EXCEPT !.crease = c, !.moves = @ + 1] /\ PageOnly
    BY <1>4 DEF NameCrease
  <2> HIDE DEF c
  <2> QED BY <1>3, <2>1, <2>2
<1>5. ASSUME NEW who, AnswerPrompt(who) PROVE KeypadInv'
  <2> DEFINE f == PendingChoice(page.match, page.crease).field
             c == [page.crease EXCEPT ![f] = who]
  <2>1. CreaseShape(c)
    BY <1>0, CreaseColumns
  <2>2. page' = [page EXCEPT !.crease = c] /\ PageOnly
    BY <1>5 DEF AnswerPrompt
  <2> HIDE DEF c
  <2> QED BY <1>1, <2>1, <2>2
<1>6. CASE SwapEnds
  <2>1. CreaseShape(Swap(page.crease))
    BY <1>0, SwapColumns
  <2>2. page' = [page EXCEPT !.crease = Swap(page.crease), !.moves = @ + 1] /\ PageOnly
    BY <1>6 DEF SwapEnds
  <2> QED BY <1>3, <2>1, <2>2
<1>7. CASE OpenWicket \/ CloseWicket \/ StartListening
  BY <1>2, <1>7 DEF OpenWicket, CloseWicket, StartListening
<1> QED BY <1>4, <1>5, <1>6, <1>7

\* A fetch that is over ends the recording that waited for it, if one did.
LEMMA FetchedInv ==
    ASSUME KeypadInv, NEW r \in calls, Fetched(r) \/ FetchFailed(r) PROVE KeypadInv'
<1>0. r.kind = "read" /\ r.own \in BOOLEAN /\ calls' = calls \ {r}
      /\ api' = api /\ told' = told /\ KeypadShape(page)
  BY DEF Fetched, FetchFailed, Settle, KeypadInv, Fresh
<1> DEFINE b == page.busy /\ ~ r.own
<1>1. b \in BOOLEAN
  OBVIOUS
<1>2. KeypadShape(page') /\ page'.busy = b
  <2>1. CASE Fetched(r)
    <3> DEFINE q1 == [page EXCEPT !["match"] = r.copy]
               c == Adopt(r.copy.crease)
               q2 == [q1 EXCEPT !.crease = c]
               q3 == [q2 EXCEPT !["seen"] = r.copy.crease]
    <3>1. page' = [q3 EXCEPT !.busy = b]
      BY <2>1, <1>0 DEF Fetched, KeypadShape, KeypadFields
    <3>2. CreaseShape(c)
      BY DEF Adopt, CreaseShape
    <3> HIDE DEF b, c
    <3>3. KeypadShape(q1)
      BY <1>0, PageColumn DEF KeypadFields
    <3> HIDE DEF q1
    <3>4. KeypadShape(q2)
      BY <3>2, <3>3, CreaseColumn
    <3> HIDE DEF q2
    <3>5. KeypadShape(q3)
      BY <3>4, PageColumn DEF KeypadFields
    <3> HIDE DEF q3
    <3> QED BY <1>1, <3>1, <3>5, BusyColumn
  <2>2. CASE FetchFailed(r)
    <3>1. page' = [page EXCEPT !.busy = b]
      BY <2>2, <1>0 DEF FetchFailed, KeypadShape
    <3> HIDE DEF b
    <3> QED BY <1>0, <1>1, <3>1, BusyColumn
  <2> QED BY <2>1, <2>2
<1>3. OneFlight'
  <2>1. CASE r.own
    <3>1. \A c \in calls' : ~ Flying(c)
      BY <1>0, <2>1 DEF KeypadInv, OneFlight, Flying
    <3> QED BY <3>1 DEF OneFlight, Flying
  <2>2. CASE ~ r.own
    BY <1>0, <1>2, <2>2 DEF KeypadInv, OneFlight, Flying
  <2> QED BY <1>0, <2>1, <2>2
<1>4. \A c \in calls : Right(c)' /\ Fresh(c)'
  BY <1>0, SameNames DEF KeypadInv, Right, Fresh
<1> QED BY <1>0, <1>2, <1>3, <1>4 DEF KeypadInv

\* What the API does with a recording.
LEMMA EffectInv ==
    ASSUME KeypadInv, NEW c \in calls, c.kind = "post", Effect(c)
    PROVE  CricketShape(api') /\ "keypad" \notin told'
<1>0. CricketShape(api) /\ "keypad" \notin told /\ Right(c)
  BY DEF KeypadInv
<1>1. CASE c.op = "ball"
  <2>1. api' = Recorded(c) /\ told' = IF RightNames(c) THEN told ELSE told \cup {c.by}
    BY <1>1 DEF Effect
  <2>2. "keypad" \notin told'
    BY <1>0, <1>1, <2>1 DEF Right
  <2>3. CricketShape(Recorded(c))
    <3> DEFINE row == [innings |-> c.innings, crease |-> Named(c), legal |-> Legal(c.extra),
                       wicket |-> c.how # "no",
                       out |-> IF c.how # "no" /\ c.out = None THEN Named(c).striker ELSE c.out]
               after == [api EXCEPT !.log = Append(@, row), !.status = "in_progress"]
               over == LegalBalls(after) >= InningsBalls \/ Wickets(after) >= AllOutAt
               cr == RotateStrike(Named(c), c, LegalBalls(after))
               st == IF c.innings = 2 /\ over THEN "completed" ELSE "in_progress"
    <3>1. Recorded(c) = [after EXCEPT !.crease = cr, !.status = st]
      BY DEF Recorded
    <3>2. CricketShape(after)
      BY <1>0 DEF CricketShape, CricketFields
    <3> HIDE DEF after, cr, st
    <3> QED BY <3>1, <3>2 DEF CricketShape, CricketFields
  <2> QED BY <2>1, <2>2, <2>3
<1>2. CASE c.op = "undo"
  <2>1. api' = api \/ api' = Undone
    BY <1>2 DEF Effect
  <2>2. CricketShape(Undone)
    <3> DEFINE last == api.log[Len(api.log)]
               back == IF last.crease.striker = None THEN api.crease ELSE last.crease
               ball == IF last.crease.bowler = None THEN api.crease ELSE last.crease
               cr == [back EXCEPT !.bowler = ball.bowler]
               lg == SubSeq(api.log, 1, Len(api.log) - 1)
    <3>1. Undone = [api EXCEPT !.log = lg, !.innings = last.innings, !.crease = cr,
                               !.status = "in_progress"]
      BY DEF Undone
    <3> HIDE DEF last, cr, lg
    <3> QED BY <1>0, <3>1 DEF CricketShape, CricketFields
  <2> QED BY <1>0, <1>2, <2>1, <2>2 DEF Effect
<1>3. CASE c.op = "switch"
  BY <1>0, <1>3 DEF Effect, Switched, CricketShape, CricketFields
<1>4. CASE c.op = "finish"
  BY <1>0, <1>4 DEF Effect, CricketShape, CricketFields
<1>5. c.op \in {"ball", "undo", "switch", "finish"}
  BY DEF KeypadInv, Fresh
<1> QED BY <1>0, <1>1, <1>2, <1>3, <1>4, <1>5

\* A recording that is answered, or said to have failed: its own flight is the
\* only one, so no other ball is on its way over the match as it was.
LEMMA AnsweredInv ==
    ASSUME KeypadInv, NEW c \in calls, Answered(c) \/ RecordingFailed(c) PROVE KeypadInv'
<1>0. c.kind = "post" /\ KeypadShape(page) /\ page.busy /\ CricketShape(api)
  BY DEF Answered, RecordingFailed, KeypadInv, OneFlight, Flying
<1>1. \A d \in calls \ {c} : ~ Flying(d)
  BY <1>0 DEF KeypadInv, OneFlight, Flying
<1>2. \A d \in calls \ {c} : Right(d)' /\ Fresh(d)' /\ ~ Flying(d)'
  BY <1>1 DEF KeypadInv, Right, Fresh, Flying
<1>3. CASE Answered(c)
  <2>0. PICK read : read = Read(api', TRUE)
    OBVIOUS
  <2> DEFINE cr == IF c.op = "switch" THEN NoCrease ELSE page.crease
  <2>1. calls' = (calls \ {c}) \cup {read} /\ page' = [page EXCEPT !.crease = cr]
    BY <1>3, <2>0 DEF Answered
  <2>2. CricketShape(api') /\ "keypad" \notin told'
    BY <1>0, <1>3, EffectInv DEF Answered
  <2>3. CreaseShape(cr)
    BY <1>0 DEF KeypadShape, CreaseShape, NoCrease
  <2>4. read.kind = "read" /\ read.own = TRUE
    BY <2>0 DEF Read
  <2> HIDE DEF cr
  <2>5. KeypadShape(page') /\ page'.busy
    BY <1>0, <2>1, <2>3, CreaseColumn
  <2>6. OneFlight'
    BY <1>2, <2>1, <2>5 DEF OneFlight, Flying
  <2>7. Right(read)' /\ Fresh(read)'
    BY <2>4 DEF Right, Fresh
  <2>8. \A d \in calls' : Right(d)' /\ Fresh(d)'
    BY <1>2, <2>1, <2>7
  <2> QED BY <2>2, <2>5, <2>6, <2>8 DEF KeypadInv
<1>4. CASE RecordingFailed(c)
  <2>1. calls' = calls \ {c} /\ page' = [page EXCEPT !.busy = FALSE]
    BY <1>4 DEF RecordingFailed, Settle
  <2>2. CricketShape(api') /\ "keypad" \notin told'
    BY <1>0, <1>4, EffectInv DEF RecordingFailed, KeypadInv
  <2>3. KeypadShape(page')
    BY <1>0, <2>1, BusyColumn
  <2>4. OneFlight'
    BY <1>2, <2>1 DEF OneFlight, Flying
  <2> QED BY <1>2, <2>1, <2>2, <2>3, <2>4 DEF KeypadInv
<1> QED BY <1>3, <1>4

LEMMA MeanwhileInv == ASSUME KeypadInv, Refetch \/ Toss PROVE KeypadInv'
<1>1. CASE Refetch
  <2>1. PICK read : read = Read(api, FALSE)
    OBVIOUS
  <2>2. calls' = calls \cup {read} /\ api' = api /\ page' = page /\ told' = told
    BY <1>1, <2>1 DEF Refetch, Send
  <2>3. read.kind = "read" /\ read.own = FALSE
    BY <2>1 DEF Read
  <2>4. Right(read)' /\ Fresh(read)' /\ ~ Flying(read)
    BY <2>3 DEF Right, Fresh, Flying
  <2>5. \A c \in calls : Right(c)' /\ Fresh(c)'
    BY <2>2, SameNames DEF KeypadInv, Right, Fresh
  <2>6. \A c \in calls' : Right(c)' /\ Fresh(c)'
    BY <2>2, <2>4, <2>5
  <2>7. OneFlight'
    BY <2>2, <2>4 DEF KeypadInv, OneFlight, Flying
  <2> QED BY <2>2, <2>6, <2>7 DEF KeypadInv
<1>2. CASE Toss
  <2>1. api' = [api EXCEPT !.toss = TRUE] /\ calls' = calls /\ page' = page /\ told' = told
    BY <1>2 DEF Toss
  <2>2. /\ CricketShape(api') /\ api'.log = api.log /\ api'.innings = api.innings
        /\ api'.crease = api.crease
    BY <2>1 DEF KeypadInv, CricketShape, CricketFields
  <2>3. \A c \in calls : Right(c)' /\ Fresh(c)'
    BY <2>2, SameNames DEF KeypadInv, Right, Fresh
  <2> QED BY <2>1, <2>2, <2>3 DEF KeypadInv, OneFlight, Flying
<1> QED BY <1>1, <1>2

LEMMA ConsoleInit == ASSUME CricketInit PROVE KeypadInv
<1>1. CricketShape(api) /\ KeypadShape(page)
  BY DEF CricketInit, CricketShape, CricketFields, KeypadShape, KeypadFields, CreaseShape, NoCrease
<1>0. \A c \in calls : c.kind = "read" /\ c.own = FALSE
  BY DEF CricketInit, Read
<1>2. \A c \in calls : Right(c) /\ Fresh(c) /\ ~ Flying(c)
  BY <1>0 DEF Right, Fresh, Flying
<1> QED BY <1>1, <1>2 DEF KeypadInv, OneFlight, CricketInit

LEMMA KeypadStep == ASSUME KeypadInv, [CricketNext]_clientVars PROVE KeypadInv'
<1>1. CASE UNCHANGED clientVars
  BY <1>1, PageInv DEF clientVars, PageOnly, KeypadInv
<1> QED BY <1>1, TapsInv, NamesInv, FetchedInv, AnsweredInv, MeanwhileInv DEF CricketNext

\* A ball tapped on the keypad over a current copy is recorded against batters
\* who are in and a bowler who may bowl it, whoever else is named, wherever
\* refetches land and whatever is lost: between the tap and the ball's arrival
\* nothing but the toss can touch the match (useSingleFlight, postDelivery).
THEOREM KeypadNamesRight == CricketSpec => []KeypadRight
<1>1. KeypadInv /\ [CricketNext]_clientVars => KeypadInv'
  BY KeypadStep
<1>2. KeypadInv => KeypadRight
  BY DEF KeypadInv, KeypadRight
<1> QED BY <1>1, <1>2, ConsoleInit, PTL DEF CricketSpec

----------------------------------------------------------------------------
(***************************************************************************)
(* The football console: who a change names                                *)
(***************************************************************************)

Everybody == (UNION {Squads[s] : s \in Sides}) \cup {None}

\* An entry of the log; who comes on for a side is of its squad.
LogEntry == {e \in [type : Kicks \cup {"substitution"}, side : Sides, player : Everybody,
                    off : Everybody] :
                e.type = "substitution" => e.player \in Squads[e.side]}

MatchColumns == {"toss", "status", "half", "running", "log"}
WellLogged(m) == m = [f \in MatchColumns |-> m[f]] /\ m.log \in Seq(LogEntry)

\* One change applied to those on the pitch.
AfterEvent(on, e, side) ==
    IF e.side = side /\ e.type = "substitution" THEN (on \ {e.off}) \cup {e.player} ELSE on

\* g[n]: those on the pitch for the side after the first n events of the log.
Follows(g, log, side, N) ==
    g = [n \in 0..N |-> IF n = 0 THEN Starters[side] ELSE AfterEvent(g[n - 1], log[n], side)]

\* Those of the first n events that name a player as coming on or going off.
Naming(log, side, p, n) ==
    {i \in 1..n : log[i].type = "substitution" /\ log[i].side = side
                      /\ p \in {log[i].player, log[i].off}}

----------------------------------------------------------------------------
(* Who is on the pitch *)

LEMMA LineUpExists ==
    ASSUME NEW log, NEW side, NEW N \in Nat
    PROVE  \E g : Follows(g, log, side, N)
<1> DEFINE Bad == {n \in Nat : ~ \E g : Follows(g, log, side, n)}
<1>1. SUFFICES ASSUME Bad # {} PROVE FALSE
  OBVIOUS
<1>2. PICK n \in Bad : \A m \in Bad : n <= m
  <2>1. Bad \in SUBSET Nat
    OBVIOUS
  <2> HIDE DEF Bad
  <2> QED BY <1>1, <2>1, SmallestNumber
<1>3. n \in Nat /\ ~ \E g : Follows(g, log, side, n)
  OBVIOUS
<1>4. CASE n = 0
  <2> DEFINE g == [i \in 0..0 |-> Starters[side]]
  <2>1. \A i \in 0..0 : i = 0
    OBVIOUS
  <2>2. Follows(g, log, side, 0)
    BY <2>1 DEF Follows
  <2> QED BY <1>3, <1>4, <2>2
<1>5. CASE n # 0
  <2>1. n - 1 \in Nat /\ n - 1 \notin Bad
    BY <1>2, <1>3, <1>5
  <2>2. PICK g : Follows(g, log, side, n - 1)
    BY <2>1
  <2> DEFINE h == [i \in 0..n |-> IF i = n THEN AfterEvent(g[n - 1], log[n], side) ELSE g[i]]
  <2>3. ASSUME NEW i \in 0..n
        PROVE  h[i] = IF i = 0 THEN Starters[side] ELSE AfterEvent(h[i - 1], log[i], side)
    <3>1. CASE i = n
      <4>1. h[n - 1] = g[n - 1] /\ h[i] = AfterEvent(g[n - 1], log[n], side)
        BY <1>3, <1>5, <3>1
      <4> HIDE DEF h
      <4> QED BY <1>5, <3>1, <4>1
    <3>2. CASE i = 0
      <4>1. h[i] = g[0] /\ 0 \in 0..(n - 1)
        BY <1>3, <1>5, <2>1, <3>2
      <4> HIDE DEF h
      <4> QED BY <2>2, <3>2, <4>1 DEF Follows
    <3>3. CASE i # n /\ i # 0
      <4>1. h[i] = g[i] /\ h[i - 1] = g[i - 1] /\ i \in 0..(n - 1)
        BY <1>3, <3>3
      <4> HIDE DEF h
      <4> QED BY <2>2, <3>3, <4>1 DEF Follows
    <3> QED BY <3>1, <3>2, <3>3
  <2>4. h = [i \in 0..n |-> h[i]]
    OBVIOUS
  <2> HIDE DEF h
  <2>5. Follows(h, log, side, n)
    BY <2>3, <2>4 DEF Follows
  <2> QED BY <1>3, <2>5
<1> QED BY <1>4, <1>5

LEMMA NamingLonger ==
    ASSUME NEW log, NEW side, NEW p, NEW n \in Nat, n # 0
    PROVE  LET named == /\ log[n].type = "substitution" /\ log[n].side = side
                        /\ p \in {log[n].player, log[n].off}
           IN  /\ named => n \in Naming(log, side, p, n) /\ \A j \in Naming(log, side, p, n) : j <= n
               /\ ~ named => Naming(log, side, p, n) = Naming(log, side, p, n - 1)
BY DEF Naming

\* Applying the changes one after the other leaves those on whom the last change
\* that names them brought on, and those who started and no change names.
LEMMA LastNamingCounts ==
    ASSUME NEW log \in Seq(LogEntry), NEW side \in Sides, NEW g,
           Follows(g, log, side, Len(log)), NEW n \in 0..Len(log)
    PROVE  \A p : p \in g[n] <=>
                     IF Naming(log, side, p, n) = {} THEN p \in Starters[side]
                     ELSE \E i \in Naming(log, side, p, n) :
                              (\A j \in Naming(log, side, p, n) : j <= i) /\ log[i].player = p
<1> DEFINE Says(k, p) ==
              IF Naming(log, side, p, k) = {} THEN p \in Starters[side]
              ELSE \E i \in Naming(log, side, p, k) :
                       (\A j \in Naming(log, side, p, k) : j <= i) /\ log[i].player = p
           Bad == {k \in 0..Len(log) : ~ \A p : p \in g[k] <=> Says(k, p)}
<1>1. SUFFICES ASSUME Bad # {} PROVE FALSE
  OBVIOUS
<1>2. PICK k \in Bad : \A m \in Bad : k <= m
  <2>1. Bad \in SUBSET Nat
    OBVIOUS
  <2> HIDE DEF Bad
  <2> QED BY <1>1, <2>1, SmallestNumber
<1>3. k \in 0..Len(log) /\ Len(log) \in Nat
  OBVIOUS
<1>4. PICK p : ~ (p \in g[k] <=> Says(k, p))
  OBVIOUS
<1>5. CASE k = 0
  <2>1. Naming(log, side, p, 0) = {}
    BY DEF Naming
  <2>2. g[0] = Starters[side]
    BY <1>3 DEF Follows
  <2> QED BY <1>4, <1>5, <2>1, <2>2
<1>6. CASE k # 0
  <2> DEFINE named == /\ log[k].type = "substitution" /\ log[k].side = side
                      /\ p \in {log[k].player, log[k].off}
  <2>1. k - 1 \in 0..Len(log) /\ k - 1 \notin Bad /\ k \in Nat
    BY <1>2, <1>3, <1>6
  <2>2. p \in g[k - 1] <=> Says(k - 1, p)
    BY <2>1
  <2>3. g[k] = AfterEvent(g[k - 1], log[k], side)
    BY <1>3, <1>6 DEF Follows
  <2>4. CASE named
    <3>1. k \in Naming(log, side, p, k) /\ \A j \in Naming(log, side, p, k) : j <= k
      BY <1>6, <2>1, <2>4, NamingLonger
    <3>2. \A i \in Naming(log, side, p, k) :
              (\A j \in Naming(log, side, p, k) : j <= i) => i = k
      BY <1>3, <3>1 DEF Naming
    <3>3. Says(k, p) <=> log[k].player = p
      BY <3>1, <3>2
    <3>4. p \in g[k] <=> log[k].player = p
      BY <2>3, <2>4 DEF AfterEvent
    <3> QED BY <1>4, <3>3, <3>4
  <2>5. CASE ~ named
    <3>1. Naming(log, side, p, k) = Naming(log, side, p, k - 1)
      BY <1>6, <2>1, <2>5, NamingLonger
    <3>2. p \in g[k] <=> p \in g[k - 1]
      BY <2>3, <2>5 DEF AfterEvent
    <3> QED BY <1>4, <2>2, <3>1, <3>2
  <2> QED BY <2>4, <2>5
<1> QED BY <1>5, <1>6

LEMMA EntryTyped ==
    ASSUME NEW log \in Seq(LogEntry), NEW i \in 1..Len(log), log[i].type = "substitution"
    PROVE  log[i].player \in Squads[log[i].side]
BY DEF LogEntry

\* The page's reading of the pitch (onPitchIds) and the API's are the same.
LEMMA PitchIsPitch ==
    ASSUME NEW m, WellLogged(m), NEW side \in Sides
    PROVE  \A p : p \in OnPitchIds(m, side) <=> IsOn(m, side, p)
<1> DEFINE N == Len(m.log)
           g == CHOOSE g : Follows(g, m.log, side, N)
<1>1. m.log \in Seq(LogEntry) /\ N \in Nat /\ N \in 0..N /\ DOMAIN m.log = 1..N
  BY DEF WellLogged
<1>2. OnPitchIds(m, side) = g[N] \ SentOffIds(m)
  BY DEF OnPitchIds, Follows, AfterEvent
<1>3. Follows(g, m.log, side, N)
  BY <1>1, LineUpExists
<1> HIDE DEF g
<1> TAKE p
<1>4. p \in g[N] <=> IF Naming(m.log, side, p, N) = {} THEN p \in Starters[side]
                     ELSE \E i \in Naming(m.log, side, p, N) :
                         (\A j \in Naming(m.log, side, p, N) : j <= i) /\ m.log[i].player = p
  BY <1>1, <1>3, LastNamingCounts
<1>5. {i \in DOMAIN m.log : /\ m.log[i].type = "substitution" /\ m.log[i].side = side
                            /\ p \in {m.log[i].player, m.log[i].off}} = Naming(m.log, side, p, N)
  BY <1>1 DEF Naming
<1>6. p \in g[N] => p \in Squads[side]
  <2>1. CASE Naming(m.log, side, p, N) = {}
    BY <1>4, <2>1, SquadsAssumption DEF Sides
  <2>2. CASE Naming(m.log, side, p, N) # {}
    <3>1. ASSUME p \in g[N] PROVE p \in Squads[side]
      <4>1. PICK i \in Naming(m.log, side, p, N) : m.log[i].player = p
        BY <1>4, <2>2, <3>1
      <4>2. i \in 1..N /\ m.log[i].type = "substitution" /\ m.log[i].side = side
        BY DEF Naming
      <4> QED BY <1>1, <4>1, <4>2, EntryTyped
    <3> QED BY <3>1
  <2> QED BY <2>1, <2>2
<1> QED BY <1>2, <1>4, <1>5, <1>6 DEF IsOn

----------------------------------------------------------------------------
(* The inductive invariant *)

DialogColumns == {"off", "on", "over"}

\* Each name tapped in the dialog was listed by the copy it was tapped over.
SubSound(sub, side) ==
    sub # None =>
        /\ sub = [f \in DialogColumns |-> sub[f]]
        /\ sub.over = [f \in {"off", "on"} |-> sub.over[f]]
        /\ sub.off \in Everybody
        /\ sub.off # None => sub.off \in OnPitchIds(sub.over["off"], side)
        /\ sub.on # None => sub.on \in Bench(sub.over["on"], side)

PadColumns == {"at", "match", "side", "picked", "sub", "busy", "taps"}

PadSound(p) ==
    /\ p = [f \in PadColumns |-> p[f]] /\ p.at = "football"
    /\ p.side \in Sides /\ p.picked \in Everybody
    /\ SubSound(p.sub, p.side)

\* A change under way names players as the copies it was read off list them.
ChangeSound(c) ==
    /\ c.kind = "post" => c.op \in {"event", "undo", "control"}
    /\ c.kind = "post" /\ c.op = "event" =>
        /\ [type |-> c.type, side |-> c.side, player |-> c.player, off |-> c.off] \in LogEntry
        /\ c.type = "substitution" =>
               \E out, in : /\ c.seen = {out, in}
                            /\ c.off \in OnPitchIds(out, c.side)
                            /\ c.player \in Bench(in, c.side)

PitchInv == /\ WellLogged(api) /\ PadSound(page)
            /\ \A c \in calls : ChangeSound(c)
            /\ "misfit" \notin told

----------------------------------------------------------------------------
(* The columns *)

LEMMA PadColumn ==
    ASSUME NEW p, PadSound(p), NEW f \in PadColumns \ {"at", "side", "picked", "sub"}, NEW v
    PROVE  PadSound([p EXCEPT ![f] = v])
BY DEF PadSound, PadColumns

LEMMA DialogColumn ==
    ASSUME NEW p, PadSound(p), NEW sub, SubSound(sub, p.side)
    PROVE  PadSound([p EXCEPT !.sub = sub])
BY DEF PadSound, PadColumns

LEMMA SideColumn ==
    ASSUME NEW p, PadSound(p), p.sub = None, NEW s \in Sides
    PROVE  PadSound([p EXCEPT !.side = s, !.picked = None])
<1>1. SubSound(None, s) /\ None \in Everybody
  BY DEF SubSound, Everybody
<1> QED BY <1>1 DEF PadSound, PadColumns

LEMMA PickedColumn ==
    ASSUME NEW p, PadSound(p), NEW who \in Everybody
    PROVE  PadSound([p EXCEPT !.picked = who])
BY DEF PadSound, PadColumns

LEMMA PitchMatchColumn ==
    ASSUME NEW m, WellLogged(m), NEW f \in MatchColumns \ {"log"}, NEW v
    PROVE  WellLogged([m EXCEPT ![f] = v])
BY DEF WellLogged, MatchColumns

LEMMA LogColumn ==
    ASSUME NEW m, WellLogged(m), NEW log \in Seq(LogEntry)
    PROVE  WellLogged([m EXCEPT !.log = log])
BY DEF WellLogged, MatchColumns

\* What the API makes of a clock control leaves the log alone.
LEMMA ControlledLogged ==
    ASSUME WellLogged(api), NEW to PROVE WellLogged(Controlled(to))
BY DEF WellLogged, MatchColumns, Controlled

----------------------------------------------------------------------------
(* The steps *)

LEMMA PadInv ==
    ASSUME PitchInv, PadSound(page'), PageOnly PROVE PitchInv'
BY DEF PitchInv, PageOnly

LEMMA RecordInv ==
    ASSUME PitchInv, NEW call, ChangeSound(call), Record(call) PROVE PitchInv'
<1> DEFINE p == [page EXCEPT !["busy"] = TRUE]
           k == page.taps + 1
           q == [p EXCEPT !["taps"] = k]
<1>1. page' = q /\ calls' = calls \cup {call} /\ api' = api /\ told' = told
  BY DEF Record, Send, PitchInv, PadSound, PadColumns
<1>2. PadSound(p)
  BY PadColumn DEF PitchInv, PadColumns
<1> HIDE DEF p, k
<1>3. PadSound(q)
  BY <1>2, PadColumn DEF PadColumns
<1> HIDE DEF q
<1> QED BY <1>1, <1>3 DEF PitchInv

LEMMA SmallTapsInv ==
    ASSUME PitchInv,
           \/ \E k \in Kicks : TapEvent(k) \/ Press(k)
           \/ \E s \in Sides : PickSide(s)
           \/ \E p \in UNION {Squads[s] : s \in Sides} : PickPlayer(p)
           \/ OpenSub \/ CancelSub \/ UndoEvent
    PROVE  PitchInv'
<1>0. PadSound(page)
  BY DEF PitchInv
<1>1. ASSUME NEW k \in Kicks, TapEvent(k) PROVE PitchInv'
  <2> DEFINE call == [kind |-> "post", op |-> "event", type |-> k, side |-> page.side,
                      player |-> Picked, off |-> None, seen |-> {page.match}]
  <2>1. Record(call) /\ k # "substitution"
    BY <1>1 DEF TapEvent
  <2>2. Picked \in Everybody /\ None \in Everybody
    BY <1>0 DEF PadSound, Picked, Everybody
  <2>3. [type |-> k, side |-> page.side, player |-> Picked, off |-> None] \in LogEntry
    BY <1>0, <2>1, <2>2 DEF LogEntry, PadSound
  <2>4. ChangeSound(call)
    BY <2>1, <2>3 DEF ChangeSound
  <2> HIDE DEF call
  <2> QED BY <2>1, <2>4, RecordInv
<1>2. ASSUME NEW k \in Kicks, Press(k) PROVE PitchInv'
  <2>1. ChangeSound([kind |-> "post", op |-> "control", to |-> k])
    BY DEF ChangeSound
  <2> QED BY <1>2, <2>1, RecordInv DEF Press
<1>3. ASSUME NEW s \in Sides, PickSide(s) PROVE PitchInv'
  BY <1>0, <1>3, SideColumn, PadInv DEF PickSide, Pad
<1>4. ASSUME NEW p \in UNION {Squads[s] : s \in Sides}, PickPlayer(p) PROVE PitchInv'
  BY <1>0, <1>4, PickedColumn, PadInv DEF PickPlayer, Everybody
<1>5. CASE OpenSub
  <2>1. SubSound(NoneTapped, page.side)
    BY DEF SubSound, NoneTapped, DialogColumns, Everybody
  <2> QED BY <1>0, <1>5, <2>1, DialogColumn, PadInv DEF OpenSub
<1>6. CASE CancelSub
  <2>1. SubSound(None, page.side)
    BY DEF SubSound
  <2> QED BY <1>0, <1>6, <2>1, DialogColumn, PadInv DEF CancelSub
<1>7. CASE UndoEvent
  <2>1. ChangeSound([kind |-> "post", op |-> "undo"])
    BY DEF ChangeSound
  <2> QED BY <1>7, <2>1, RecordInv DEF UndoEvent
<1> QED BY <1>1, <1>2, <1>3, <1>4, <1>5, <1>6, <1>7

LEMMA TapSubInv ==
    ASSUME PitchInv, NEW f \in {"off", "on"},
           NEW p \in UNION {Squads[s] : s \in Sides}, TapSub(f, p) PROVE PitchInv'
<1> DEFINE sub == page.sub
           over == [sub.over EXCEPT ![f] = page.match]
           s1 == [sub EXCEPT ![f] = p]
           s2 == [s1 EXCEPT !.over = over]
<1>0. PadSound(page) /\ SubSound(sub, page.side) /\ sub # None
  BY DEF PitchInv, PadSound, TapSub
<1>1. /\ sub = [i \in DialogColumns |-> sub[i]]
      /\ sub.over = [i \in {"off", "on"} |-> sub.over[i]]
      /\ sub.off \in Everybody
      /\ sub.off # None => sub.off \in OnPitchIds(sub.over["off"], page.side)
      /\ sub.on # None => sub.on \in Bench(sub.over["on"], page.side)
  BY <1>0 DEF SubSound
<1>2. page' = [page EXCEPT !.sub = s2] /\ PageOnly
  BY <1>1 DEF TapSub, DialogColumns
<1>3. p \in IF f = "off" THEN OnPitchIds(page.match, page.side) ELSE Bench(page.match, page.side)
  BY DEF TapSub
<1> HIDE DEF sub
<1>4. over = [i \in {"off", "on"} |-> over[i]] /\ over[f] = page.match
      /\ \A i \in {"off", "on"} : i # f => over[i] = sub.over[i]
  BY <1>1
<1>5. /\ s2 = [i \in DialogColumns |-> s2[i]] /\ s2.over = over /\ s2[f] = p
      /\ \A i \in {"off", "on"} : i # f => s2[i] = sub[i]
  <2> HIDE DEF over
  <2> QED BY <1>1 DEF DialogColumns
<1> HIDE DEF over, s1, s2
<1>6. s2.off # None => s2.off \in OnPitchIds(s2.over["off"], page.side)
  <2>1. CASE f = "off"
    BY <1>3, <1>4, <1>5, <2>1
  <2>2. CASE f = "on"
    BY <1>1, <1>4, <1>5, <2>2
  <2> QED BY <2>1, <2>2
<1>7. s2.on # None => s2.on \in Bench(s2.over["on"], page.side)
  <2>1. CASE f = "off"
    BY <1>1, <1>4, <1>5, <2>1
  <2>2. CASE f = "on"
    BY <1>3, <1>4, <1>5, <2>2
  <2> QED BY <2>1, <2>2
<1>8. s2.off \in Everybody
  <2>1. CASE f = "off"
    BY <1>5, <2>1 DEF Everybody
  <2>2. CASE f = "on"
    BY <1>1, <1>5, <2>2
  <2> QED BY <2>1, <2>2
<1>9. SubSound(s2, page.side)
  BY <1>4, <1>5, <1>6, <1>7, <1>8 DEF SubSound
<1> QED BY <1>0, <1>2, <1>9, DialogColumn, PadInv

LEMMA ConfirmSubInv == ASSUME PitchInv, ConfirmSub PROVE PitchInv'
<1> DEFINE sub == page.sub
           call == [kind |-> "post", op |-> "event", type |-> "substitution", side |-> page.side,
                    player |-> sub.on, off |-> sub.off,
                    seen |-> {sub.over["off"], sub.over["on"]}]
<1>1. Record(call) /\ sub # None /\ sub.off # None /\ sub.on # None
  BY DEF ConfirmSub
<1>2. /\ page.side \in Sides
      /\ sub.off \in Everybody
      /\ sub.off \in OnPitchIds(sub.over["off"], page.side)
      /\ sub.on \in Bench(sub.over["on"], page.side)
  BY <1>1 DEF PitchInv, PadSound, SubSound
<1> HIDE DEF sub
<1>3. sub.on \in Squads[page.side] /\ sub.on \in Everybody
  BY <1>2 DEF Bench, Everybody
<1>5. ChangeSound(call)
  BY <1>2, <1>3 DEF ChangeSound, LogEntry
<1> HIDE DEF call
<1> QED BY <1>1, <1>5, RecordInv

\* What the API does with an event, an undo or a clock control.
LEMMA CarriedInv ==
    ASSUME PitchInv, NEW c \in calls, c.kind = "post", Carried(c)
    PROVE  WellLogged(api') /\ "misfit" \notin told'
<1>0. WellLogged(api) /\ api.log \in Seq(LogEntry) /\ "misfit" \notin told /\ ChangeSound(c)
  BY DEF PitchInv, WellLogged
<1>1. CASE c.op = "event"
  <2> DEFINE e == [type |-> c.type, side |-> c.side, player |-> c.player, off |-> c.off]
             log == Append(api.log, e)
  <2>1. /\ api' = [api EXCEPT !.log = log]
        /\ told' = IF c.seen = {api} /\ ~ Fits(c) THEN told \cup {"misfit"} ELSE told
    BY <1>1 DEF Carried
  <2>2. e \in LogEntry
    BY <1>0, <1>1 DEF ChangeSound
  <2>3. c.side \in Sides
    BY <2>2 DEF LogEntry
  <2> HIDE DEF e
  <2>4. log \in Seq(LogEntry)
    BY <1>0, <2>2
  <2> HIDE DEF log
  <2>5. WellLogged(api')
    BY <1>0, <2>1, <2>4, LogColumn
  <2>6. ASSUME c.seen = {api}, c.type = "substitution" PROVE Fits(c)
    <3>1. PICK out, in : /\ c.seen = {out, in}
                         /\ c.off \in OnPitchIds(out, c.side)
                         /\ c.player \in Bench(in, c.side)
      BY <1>0, <1>1, <2>6 DEF ChangeSound
    <3>2. out = api /\ in = api
      BY <2>6, <3>1
    <3>3. c.off \in OnPitchIds(api, c.side) /\ c.player \in Bench(api, c.side)
      BY <3>1, <3>2
    <3>4. \A p : p \in OnPitchIds(api, c.side) <=> IsOn(api, c.side, p)
      BY <1>0, <2>3, PitchIsPitch
    <3>5. c.player \in Squads[c.side] \ SentOffIds(api) /\ c.player \notin OnPitchIds(api, c.side)
      BY <3>3 DEF Bench
    <3> QED BY <3>3, <3>4, <3>5 DEF Fits
  <2>7. c.type # "substitution" => Fits(c)
    BY DEF Fits
  <2> QED BY <1>0, <2>1, <2>5, <2>6, <2>7
<1>2. CASE c.op = "undo"
  <2> DEFINE log == SubSeq(api.log, 1, Len(api.log) - 1)
  <2>1. api' = [api EXCEPT !.log = log] /\ told' = told /\ api.log # <<>>
    BY <1>2 DEF Carried
  <2>2. log \in Seq(LogEntry)
    BY <1>0, <2>1
  <2> HIDE DEF log
  <2> QED BY <1>0, <2>1, <2>2, LogColumn
<1>3. CASE c.op = "control"
  BY <1>0, <1>3, ControlledLogged DEF Carried
<1>4. c.op \in {"event", "undo", "control"}
  BY <1>0 DEF ChangeSound
<1> QED BY <1>1, <1>2, <1>3, <1>4

LEMMA FetchInv ==
    ASSUME PitchInv, NEW c \in calls,
           MatchFetched(c) \/ MatchFetchFailed(c) \/ RecordAnswered(c) \/ RecordRefused(c)
    PROVE  PitchInv'
<1>0. PadSound(page)
  BY DEF PitchInv
<1>1. CASE MatchFetched(c)
  <2> DEFINE b == page.busy /\ ~ c.own
             q == [page EXCEPT !["match"] = c.copy]
  <2>1. page' = [q EXCEPT !["busy"] = b] /\ calls' = calls \ {c} /\ api' = api /\ told' = told
    BY <1>0, <1>1 DEF MatchFetched, Settle, PadSound, PadColumns
  <2>2. PadSound(q)
    BY <1>0, PadColumn DEF PadColumns
  <2> HIDE DEF b, q
  <2>3. PadSound([q EXCEPT !["busy"] = b])
    BY <2>2, PadColumn DEF PadColumns
  <2> QED BY <2>1, <2>3 DEF PitchInv
<1>2. CASE MatchFetchFailed(c)
  <2> DEFINE b == page.busy /\ ~ c.own
  <2>1. page' = [page EXCEPT !["busy"] = b] /\ calls' = calls \ {c} /\ api' = api /\ told' = told
    BY <1>2 DEF MatchFetchFailed, Settle
  <2> HIDE DEF b
  <2>2. PadSound([page EXCEPT !["busy"] = b])
    BY <1>0, PadColumn DEF PadColumns
  <2> QED BY <2>1, <2>2 DEF PitchInv
<1>3. CASE RecordAnswered(c)
  <2>1. PICK read : read = MatchRead(api', TRUE)
    OBVIOUS
  <2> DEFINE sub == IF c.op = "event" THEN None ELSE page.sub
  <2>2. /\ page' = [page EXCEPT !.sub = sub] /\ calls' = (calls \ {c}) \cup {read}
        /\ c.kind = "post" /\ Carried(c)
    BY <1>3, <2>1 DEF RecordAnswered
  <2>3. SubSound(sub, page.side)
    BY <1>0 DEF PadSound, SubSound
  <2> HIDE DEF sub
  <2>4. PadSound(page')
    BY <1>0, <2>2, <2>3, DialogColumn
  <2>5. ChangeSound(read)
    BY <2>1 DEF MatchRead, ChangeSound
  <2>6. WellLogged(api') /\ "misfit" \notin told'
    BY <2>2, CarriedInv
  <2> QED BY <2>2, <2>4, <2>5, <2>6 DEF PitchInv
<1>4. CASE RecordRefused(c)
  <2>1. /\ page' = [page EXCEPT !["busy"] = FALSE] /\ calls' = calls \ {c}
        /\ c.kind = "post" /\ (UNCHANGED <<api, told>> \/ Carried(c))
    BY <1>4 DEF RecordRefused, Settle
  <2>2. PadSound([page EXCEPT !["busy"] = FALSE])
    BY <1>0, PadColumn DEF PadColumns
  <2>3. WellLogged(api') /\ "misfit" \notin told'
    BY <2>1, CarriedInv DEF PitchInv
  <2> QED BY <2>1, <2>2, <2>3 DEF PitchInv
<1> QED BY <1>1, <1>2, <1>3, <1>4

LEMMA OthersInv ==
    ASSUME PitchInv,
           MatchMessage \/ TossDone \/ \E p, q \in Squads["A"] : RecordedElsewhere(p, q)
    PROVE  PitchInv'
<1>1. CASE MatchMessage
  <2>1. PICK read : read = MatchRead(api, FALSE)
    OBVIOUS
  <2>2. ChangeSound(read)
    BY <2>1 DEF MatchRead, ChangeSound
  <2> QED BY <1>1, <2>1, <2>2 DEF MatchMessage, Send, PitchInv
<1>2. CASE TossDone
  <2>1. WellLogged([api EXCEPT !["toss"] = TRUE])
    BY PitchMatchColumn DEF PitchInv, MatchColumns
  <2> QED BY <1>2, <2>1 DEF TossDone, PitchInv
<1>3. ASSUME NEW p \in Squads["A"], NEW q \in Squads["A"], RecordedElsewhere(p, q)
      PROVE  PitchInv'
  <2> DEFINE e == [type |-> "substitution", side |-> "A", player |-> p, off |-> q]
             log == Append(api.log, e)
  <2>1. api' = [api EXCEPT !.log = log] /\ UNCHANGED <<calls, page, told>>
    BY <1>3 DEF RecordedElsewhere
  <2>2. e \in LogEntry
    BY SquadsAssumption DEF LogEntry, Sides, Everybody
  <2> HIDE DEF e
  <2>3. log \in Seq(LogEntry)
    BY <2>2 DEF PitchInv, WellLogged
  <2> HIDE DEF log
  <2>4. WellLogged(api')
    BY <2>1, <2>3, LogColumn DEF PitchInv
  <2> QED BY <2>1, <2>4 DEF PitchInv
<1> QED BY <1>1, <1>2, <1>3

LEMMA PitchInit == ASSUME FootballInit PROVE PitchInv
<1>1. WellLogged(api)
  <2>1. api = [f \in MatchColumns |-> api[f]] /\ api.log = <<>>
    BY DEF FootballInit, MatchColumns
  <2>2. <<>> \in Seq(LogEntry)
    OBVIOUS
  <2> QED BY <2>1, <2>2, Zenon DEF WellLogged
<1>2. PadSound(page)
  <2>1. SubSound(None, "A") /\ None \in Everybody /\ "A" \in Sides
    BY SquadsAssumption DEF SubSound, Everybody, Sides
  <2>2. /\ page = [f \in PadColumns |-> page[f]] /\ page.at = "football"
        /\ page.side = "A" /\ page.picked = None /\ page.sub = None
    BY DEF FootballInit, PadColumns
  <2> QED BY <2>1, <2>2 DEF PadSound
<1>3. \A c \in calls : c.kind = "read"
  BY DEF FootballInit, MatchRead
<1> QED BY <1>1, <1>2, <1>3 DEF PitchInv, FootballInit, ChangeSound

LEMMA PitchStep == ASSUME PitchInv, [FootballNext]_clientVars PROVE PitchInv'
<1>1. CASE UNCHANGED clientVars
  BY <1>1 DEF clientVars, PitchInv
<1> QED BY <1>1, SmallTapsInv, TapSubInv, ConfirmSubInv, FetchInv, OthersInv DEF FootballNext

\* A change whose two names were read off the match as it still is when the API
\* records it takes off one who is on the pitch and brings on one who is not and
\* was not sent off, after any changes, cards and undone events, though the API
\* never asks (SubstitutionDialog, onPitchIds, validateFootballEvent).
THEOREM ChangesReadRight == FootballSpec => []ChangesFit
<1>1. PitchInv /\ [FootballNext]_clientVars => PitchInv'
  BY PitchStep
<1>2. PitchInv => ChangesFit
  BY DEF PitchInv, ChangesFit
<1> QED BY <1>1, <1>2, PitchInit, PTL DEF FootballSpec

----------------------------------------------------------------------------
(***************************************************************************)
(* The office pages                                                        *)
(***************************************************************************)

DeskFields == {"at", "desk", "q", "view", "loading", "error", "locks", "ask", "form", "sheet", "tab", "acts"}
ListFields == {"kind", "q", "row", "ver", "last", "frees"}

DeskTyped ==
    /\ page = [f \in DeskFields |-> page[f]] /\ page.at = "desk"
    /\ page.loading \in BOOLEAN /\ page.error \in BOOLEAN
    /\ api = [row |-> api.row, ver |-> api.ver, others |-> api.others] /\ api.ver \in Nat
    /\ told = [ver |-> told.ver, astray |-> told.astray]
    /\ told.ver \in Nat /\ told.ver <= api.ver /\ told.astray \in BOOLEAN
    /\ \A c \in calls : c.kind = "list" => c = [f \in ListFields |-> c[f]]

\* An answer that is coming and will be shown.
Coming(c) == c.kind = "list" /\ ListShown(c)

\* What frees a lock: the answer to the click that took it, or the fetch after it.
Frees(c, l) ==
    \/ c.kind = "list" /\ c.frees = l
    \/ c.kind = "act" /\ This.does[c.op].lock = l
Freed == \A l \in page.locks : \E c \in calls : Frees(c, l)

Loads == page.loading => \E c \in calls : Coming(c)

\* A list that has all that was done, for what is chosen now.
Abreast(list) == /\ list.ver \in Nat /\ list.ver >= told.ver
                 /\ told.astray \/ list.q = page.q
UpToDate(view) == view = [row |-> view.row, ver |-> view.ver, q |-> view.q] /\ Abreast(view)

\* Where answers are numbered, what is coming fits, or else what is shown.
Current ==
    This.numbered =>
        /\ \A c \in calls : Coming(c) => Abreast(c)
        /\ (\E c \in calls : Coming(c)) \/ page.error \/ UpToDate(page.view)

DeskInv == DeskTyped /\ Freed /\ Loads /\ Current

\* The questions before a new one are overtaken, and still free what they free.
LEMMA Overtakes ==
    ASSUME DeskTyped
    PROVE  /\ \A c \in calls : \E e \in Overtaken : /\ \A l : Frees(c, l) => Frees(e, l)
                                                    /\ c = e \/ (c.kind = "list" /\ e.kind = "list")
           /\ \A e \in Overtaken : \/ e.kind = "list" /\ e.last = FALSE /\ e = [f \in ListFields |-> e[f]]
                                   \/ e.kind # "list"
<1> DEFINE Old(c) == IF c.kind = "list" THEN [c EXCEPT !.last = FALSE] ELSE c
<1>1. Overtaken = {Old(c) : c \in calls}
  BY DEF Overtaken
<1>2. ASSUME NEW c \in calls, c.kind = "list"
      PROVE  /\ Old(c).kind = "list" /\ Old(c).last = FALSE /\ Old(c).frees = c.frees
             /\ Old(c) = [f \in ListFields |-> Old(c)[f]]
  BY <1>2 DEF DeskTyped, ListFields
<1>3. ASSUME NEW c \in calls, c.kind # "list"
      PROVE  Old(c) = c
  BY <1>3
<1> HIDE DEF Old
<1>4. ASSUME NEW c \in calls
      PROVE  \E e \in Overtaken : /\ \A l : Frees(c, l) => Frees(e, l)
                                  /\ c = e \/ (c.kind = "list" /\ e.kind = "list")
  <2>1. \A l : Frees(c, l) => Frees(Old(c), l)
    BY <1>2, <1>3 DEF Frees
  <2>2. c = Old(c) \/ (c.kind = "list" /\ Old(c).kind = "list")
    BY <1>2, <1>3
  <2>3. Old(c) \in Overtaken
    BY <1>1
  <2> QED BY <2>1, <2>2, <2>3
<1>5. ASSUME NEW e \in Overtaken
      PROVE  \/ e.kind = "list" /\ e.last = FALSE /\ e = [f \in ListFields |-> e[f]]
             \/ e.kind # "list"
  <2>1. PICK c \in calls : e = Old(c)
    BY <1>1, <1>5
  <2> QED BY <1>2, <1>3, <2>1
<1> QED BY <1>4, <1>5

\* A new question, for what is chosen and of all that was done.
LEMMA NewQuestion ==
    ASSUME DeskInv, NEW gone, \A c \in gone : c.kind = "act", NEW q, NEW copy, NEW frees,
           calls' = (Overtaken \ gone) \cup {ListRead(q, copy, frees)},
           page' = [f \in DeskFields |-> page'[f]], page'.at = "desk", page'.desk = page.desk,
           page'.loading \in BOOLEAN, page'.error \in BOOLEAN,
           api' = [row |-> api'.row, ver |-> api'.ver, others |-> api'.others], api'.ver \in Nat,
           told' = [ver |-> told'.ver, astray |-> told'.astray],
           told'.ver \in Nat, told'.ver <= api'.ver, told'.astray \in BOOLEAN,
           copy.ver \in Nat, copy.ver >= told'.ver, told'.astray \/ q = page'.q,
           \A l \in page'.locks : \/ l = frees
                                  \/ \E c \in calls : c \notin gone /\ Frees(c, l)
    PROVE  DeskInv'
<1>0. PICK new : new = ListRead(q, copy, frees)
  OBVIOUS
<1>1. /\ new.kind = "list" /\ new.q = q /\ new.ver = copy.ver /\ new.last = TRUE /\ new.frees = frees
      /\ new = [f \in ListFields |-> new[f]]
  BY <1>0 DEF ListRead, ListFields
<1>2. new \in calls'
  BY <1>0
<1>3. /\ \A l : \A c \in calls : c \notin gone /\ Frees(c, l) => \E e \in calls' : Frees(e, l)
      /\ \A e \in calls' : \/ e = new
                           \/ e.kind = "list" /\ e.last = FALSE /\ e = [f \in ListFields |-> e[f]]
                           \/ e.kind # "list"
  <2>1. (Overtaken \ gone) \cup {new} \subseteq calls' /\ calls' \subseteq Overtaken \cup {new}
    BY <1>0
  <2>2. /\ \A c \in calls : \E e \in Overtaken : /\ \A l : Frees(c, l) => Frees(e, l)
                                                 /\ c = e \/ (c.kind = "list" /\ e.kind = "list")
        /\ \A e \in Overtaken : \/ e.kind = "list" /\ e.last = FALSE /\ e = [f \in ListFields |-> e[f]]
                                \/ e.kind # "list"
    BY Overtakes DEF DeskInv
  <2>3. ASSUME NEW l, NEW c \in calls, c \notin gone, Frees(c, l)
        PROVE  \E e \in calls' : Frees(e, l)
    <3>1. PICK e \in Overtaken : Frees(e, l) /\ (c = e \/ (c.kind = "list" /\ e.kind = "list"))
      BY <2>2, <2>3
    <3>2. e \notin gone
      BY <2>3, <3>1
    <3> QED BY <2>1, <3>1, <3>2
  <2> QED BY <2>1, <2>2, <2>3
<1>4. This' = This
  BY DEF This
<1>5. DeskTyped'
  BY <1>1, <1>3 DEF DeskTyped
<1>6. Coming(new)'
  BY <1>1 DEF Coming, ListShown
<1>7. Loads'
  BY <1>2, <1>6 DEF Loads
<1>8. Freed'
  <2>1. \A c, l : Frees(c, l)' <=> Frees(c, l)
    BY <1>4 DEF Frees
  <2>2. Frees(new, frees)
    BY <1>1 DEF Frees
  <2>3. \A l \in page'.locks : \E c \in calls' : Frees(c, l)
    BY <1>2, <1>3, <2>2
  <2> QED BY <2>1, <2>3 DEF Freed
<1>9. Abreast(new)'
  BY <1>1 DEF Abreast
<1>10. ASSUME This.numbered, NEW c \in calls', Coming(c)' PROVE c = new
  BY <1>3, <1>4, <1>10 DEF Coming, ListShown
<1>11. Current'
  BY <1>2, <1>4, <1>6, <1>9, <1>10 DEF Current
<1> QED BY <1>5, <1>7, <1>8, <1>11 DEF DeskInv

\* A step that asks the list nothing, and shows no less.
LEMMA NoQuestion ==
    ASSUME DeskInv, \A c : c.kind = "list" => (c \in calls' <=> c \in calls),
           page' = [f \in DeskFields |-> page'[f]],
           \A f \in {"at", "desk", "q", "loading", "error"} : page'[f] = page[f],
           api' = [row |-> api'.row, ver |-> api'.ver, others |-> api'.others],
           api'.ver \in Nat, api'.ver >= api.ver, told' = told,
           UpToDate(page.view) => UpToDate(page'.view),
           \A l \in page'.locks : \E c \in calls' : Frees(c, l)
    PROVE  DeskInv'
<1>1. /\ page'.at = page.at /\ page'.desk = page.desk /\ page'.q = page.q
      /\ page'.loading = page.loading /\ page'.error = page.error
  OBVIOUS
<1>2. This' = This
  BY <1>1 DEF This
<1>3. DeskTyped'
  <2>1. told'.ver <= api'.ver
    BY DEF DeskInv, DeskTyped
  <2> QED BY <1>1, <2>1 DEF DeskInv, DeskTyped
<1>4. Loads'
  BY <1>1, <1>2 DEF DeskInv, Loads, Coming, ListShown
<1>5. Freed'
  BY <1>2 DEF Freed, Frees
<1>6. \A c : (Coming(c)' <=> Coming(c)) /\ (Abreast(c)' <=> Abreast(c)) /\ (UpToDate(c)' <=> UpToDate(c))
  BY <1>1, <1>2 DEF Coming, ListShown, Abreast, UpToDate
<1>7. Current'
  <2>1. \A c \in calls' : Coming(c) => c \in calls
    BY DEF Coming
  <2>2. \A c \in calls : Coming(c) => c \in calls'
    BY DEF Coming
  <2>3. UpToDate(page'.view) <=> UpToDate(page.view)'
    BY <1>1 DEF UpToDate, Abreast
  <2> QED BY <1>1, <1>2, <1>6, <2>1, <2>2, <2>3 DEF DeskInv, Current
<1> QED BY <1>3, <1>4, <1>5, <1>7 DEF DeskInv

\* A row shown that is changed on the page itself.
LEMMA RowShown ==
    ASSUME NEW view, NEW to, UpToDate(view)
    PROVE  UpToDate(Redrawn(view, to))
<1> DEFINE new == Redrawn(view, to)
<1>1. new = [row |-> new.row, ver |-> new.ver, q |-> new.q] /\ new.ver = view.ver /\ new.q = view.q
  BY DEF UpToDate, Redrawn
<1> HIDE DEF new
<1>2. UpToDate(new)
  BY <1>1 DEF UpToDate, Abreast
<1> QED BY <1>2 DEF new

LEMMA PressOk ==
    ASSUME DeskInv, NEW name, NEW q, DeskPress(name, q)
    PROVE  DeskInv'
<1> DEFINE call == [kind |-> "act", op |-> name, q |-> q, to |-> Payload(This.does[name]),
                    was |-> IF This.does[name].then = "early" THEN page.view ELSE None]
<1>1. call.kind = "act" /\ call.op = name
  OBVIOUS
<1>2. calls' = calls \cup {call} /\ UNCHANGED <<api, told>>
  BY DEF DeskPress
<1> HIDE DEF call
<1>3. /\ page' = [f \in DeskFields |-> page'[f]]
      /\ \A f \in {"at", "desk", "q", "loading", "error"} : page'[f] = page[f]
      /\ page'.locks = page.locks \cup ({This.does[name].lock} \ {""})
      /\ page'.view = page.view \/ page'.view = Redrawn(page.view, This.does[name].to)
  BY DEF DeskPress, DeskInv, DeskTyped, DeskFields
<1>7. UpToDate(page.view) => UpToDate(page'.view)
  <2>1. CASE page'.view = page.view
    BY Zenon, <2>1
  <2>2. CASE page'.view = Redrawn(page.view, This.does[name].to)
    BY Zenon, <2>2, RowShown
  <2> QED BY <1>3, <2>1, <2>2
<1>8. \A l \in page'.locks : \E c \in calls' : Frees(c, l)
  <2>1. Frees(call, This.does[name].lock)
    BY <1>1 DEF Frees
  <2> QED BY <1>2, <1>3, <2>1 DEF DeskInv, Freed
<1>9. \A c : c.kind = "list" => (c \in calls' <=> c \in calls)
  BY <1>1, <1>2
<1>10. /\ api' = [row |-> api'.row, ver |-> api'.ver, others |-> api'.others]
       /\ api'.ver \in Nat /\ api'.ver >= api.ver /\ told' = told
  BY <1>2 DEF DeskInv, DeskTyped
<1>11. \A f \in {"at", "desk", "q", "loading", "error"} : page'[f] = page[f]
  BY <1>3
<1> QED BY Zenon, <1>3, <1>7, <1>8, <1>9, <1>10, <1>11, NoQuestion

\* A step of the page alone.
LEMMA PageStep ==
    ASSUME DeskInv, PageOnly, page' = [f \in DeskFields |-> page'[f]],
           \A f \in {"at", "desk", "q", "loading", "error", "locks"} : page'[f] = page[f],
           UpToDate(page.view) => UpToDate(page'.view)
    PROVE  DeskInv'
<1>1. UNCHANGED <<api, told>> /\ api = [row |-> api.row, ver |-> api.ver, others |-> api.others] /\ api.ver \in Nat
  BY DEF PageOnly, DeskInv, DeskTyped
<1>2. calls' = calls /\ page'.locks = page.locks
  BY DEF PageOnly
<1>3. \A l \in page'.locks : \E c \in calls' : Frees(c, l)
  BY <1>2 DEF DeskInv, Freed
<1>4. \A f \in {"at", "desk", "q", "loading", "error"} : page'[f] = page[f]
  OBVIOUS
<1>5. api' = [row |-> api'.row, ver |-> api'.ver, others |-> api'.others] /\ api'.ver \in Nat /\ api'.ver >= api.ver
  BY <1>1
<1>6. \A c : c.kind = "list" => (c \in calls' <=> c \in calls)
  BY <1>2
<1> QED BY Zenon, <1>1, <1>3, <1>4, <1>5, <1>6, NoQuestion

LEMMA AskOrPressOk ==
    ASSUME DeskInv, NEW name, AskOrPress(name)
    PROVE  DeskInv'
<1>1. CASE DeskPress(name, page.q)
  BY <1>1, PressOk
<1>2. CASE page' = [page EXCEPT !.ask = [op |-> name, q |-> page.q]] /\ PageOnly
  <2>1. /\ page' = [f \in DeskFields |-> page'[f]] /\ page'.view = page.view
        /\ \A f \in {"at", "desk", "q", "loading", "error", "locks"} : page'[f] = page[f]
    BY <1>2 DEF DeskInv, DeskTyped, DeskFields
  <2> QED BY <1>2, <2>1, PageStep
<1> QED BY <1>1, <1>2 DEF AskOrPress

LEMMA HandsOk ==
    ASSUME DeskInv,
           \/ \E name \in DOMAIN This.does : DeskClick(name)
           \/ \E tab \in DOMAIN This.tabs : DeskTab(tab)
           \/ DeskSubmit \/ DeskClose \/ DeskConfirm \/ DeskDecline
    PROVE  DeskInv'
<1>1. CASE \E name \in DOMAIN This.does : DeskClick(name)
  <2>1. PICK name \in DOMAIN This.does : DeskClick(name)
    BY <1>1
  <2> DEFINE SHEET == IF This.does[name].sends = {} THEN None ELSE page.view.row
  <2>2. \/ AskOrPress(name)
        \/ page' = [page EXCEPT !.form = name, !.sheet = SHEET] /\ PageOnly
        \/ page' = [page EXCEPT !.view = Redrawn(page.view, This.does[name].to)] /\ PageOnly
    BY <2>1 DEF DeskClick
  <2> HIDE DEF SHEET
  <2>3. CASE page' = [page EXCEPT !.form = name, !.sheet = SHEET] /\ PageOnly
    <3>1. /\ page' = [f \in DeskFields |-> page'[f]] /\ page'.view = page.view
          /\ \A f \in {"at", "desk", "q", "loading", "error", "locks"} : page'[f] = page[f]
      BY <2>3 DEF DeskInv, DeskTyped, DeskFields
    <3> QED BY <2>3, <3>1, PageStep
  <2>4. CASE page' = [page EXCEPT !.view = Redrawn(page.view, This.does[name].to)] /\ PageOnly
    <3>1. /\ page' = [f \in DeskFields |-> page'[f]] /\ page'.view = Redrawn(page.view, This.does[name].to)
          /\ \A f \in {"at", "desk", "q", "loading", "error", "locks"} : page'[f] = page[f]
      BY <2>4 DEF DeskInv, DeskTyped, DeskFields
    <3>2. UpToDate(page.view) => UpToDate(page'.view)
      BY <3>1, RowShown
    <3> QED BY <2>4, <3>1, <3>2, PageStep
  <2> QED BY <2>2, <2>3, <2>4, AskOrPressOk
<1>2. CASE (\E tab \in DOMAIN This.tabs : DeskTab(tab)) \/ DeskClose \/ DeskDecline
  <2>1. PageOnly
    BY <1>2 DEF DeskTab, DeskClose, DeskDecline
  <2>2. /\ page' = [f \in DeskFields |-> page'[f]] /\ page'.view = page.view
        /\ \A f \in {"at", "desk", "q", "loading", "error", "locks"} : page'[f] = page[f]
    BY <1>2 DEF DeskTab, DeskClose, DeskDecline, DeskInv, DeskTyped, DeskFields
  <2> QED BY <2>1, <2>2, PageStep
<1>3. CASE DeskSubmit
  BY <1>3, AskOrPressOk DEF DeskSubmit
<1>4. CASE DeskConfirm
  BY <1>4, PressOk DEF DeskConfirm
<1> QED BY <1>1, <1>2, <1>3, <1>4

LEMMA AskListOk ==
    ASSUME DeskInv, NEW q, AskList(q)
    PROVE  DeskInv'
<1>1. /\ calls' = Overtaken \cup {ListRead(q, api, "")} /\ UNCHANGED <<api, told>>
      /\ page' = [page EXCEPT !.q = q, !.loading = TRUE, !.error = FALSE]
  BY DEF AskList
<1>2. /\ page' = [f \in DeskFields |-> page'[f]] /\ page'.at = "desk" /\ page'.desk = page.desk
      /\ page'.locks = page.locks /\ page'.q = q /\ page'.loading \in BOOLEAN /\ page'.error \in BOOLEAN
  BY <1>1 DEF DeskInv, DeskTyped, DeskFields
<1>3. PICK gone : gone = {}
  OBVIOUS
<1>4. PICK copy : copy = api
  OBVIOUS
<1>5. calls' = (Overtaken \ gone) \cup {ListRead(q, copy, "")}
  BY <1>1, <1>3, <1>4
<1>6. /\ api' = [row |-> api'.row, ver |-> api'.ver, others |-> api'.others] /\ api'.ver \in Nat
      /\ told' = [ver |-> told'.ver, astray |-> told'.astray] /\ told'.ver \in Nat
      /\ told'.ver <= api'.ver /\ told'.astray \in BOOLEAN /\ copy.ver \in Nat /\ copy.ver >= told'.ver
  BY <1>1, <1>4 DEF DeskInv, DeskTyped
<1>7. told'.astray \/ q = page'.q
  BY <1>2
<1>8. \A l \in page'.locks : l = "" \/ \E c \in calls : c \notin gone /\ Frees(c, l)
  BY <1>2, <1>3 DEF DeskInv, Freed
<1>9. \A c \in gone : c.kind = "act"
  BY <1>3
<1> QED BY <1>2, <1>5, <1>6, <1>7, <1>8, <1>9, NewQuestion

\* What is carried out is a version more.
LEMMA CarriedOk ==
    ASSUME DeskInv, NEW c, DeskCarried(c)
    PROVE  /\ api' = [row |-> api'.row, ver |-> api'.ver, others |-> api'.others]
           /\ api'.ver = api.ver + 1
BY DEF DeskInv, DeskTyped, DeskCarried

\* A lock of another click is freed by another call.
LEMMA OthersFree ==
    ASSUME DeskInv, NEW c \in calls, c.kind = "act", NEW l \in page.locks, l # This.does[c.op].lock
    PROVE  \E d \in calls : d \notin {c} /\ Frees(d, l)
BY DEF DeskInv, Freed, Frees

LEMMA ReturnedShown ==
    ASSUME DeskInv, NEW view, NEW copy, copy.ver \in Nat, copy.ver >= told.ver, UpToDate(view)
    PROVE  UpToDate(Refilled(view, copy))
<1> DEFINE new == Refilled(view, copy)
<1>1. new = [row |-> new.row, ver |-> new.ver, q |-> new.q] /\ new.ver = copy.ver /\ new.q = view.q
  <2>1. PICK a : a = view.row
    OBVIOUS
  <2>2. PICK b : b = view.ver
    OBVIOUS
  <2>3. PICK d : d = view.q
    OBVIOUS
  <2>4. view = [row |-> a, ver |-> b, q |-> d]
    BY <2>1, <2>2, <2>3 DEF UpToDate
  <2>5. PICK mid : mid = [view EXCEPT !.row = copy.row]
    OBVIOUS
  <2>6. mid = [row |-> copy.row, ver |-> b, q |-> d]
    BY <2>4, <2>5
  <2>7. new = [mid EXCEPT !.ver = copy.ver]
    BY Zenon, <2>5 DEF Refilled
  <2>8. new = [row |-> copy.row, ver |-> copy.ver, q |-> d]
    BY <2>6, <2>7
  <2> HIDE DEF new
  <2> QED BY <2>3, <2>8
<1> HIDE DEF new
<1>2. UpToDate(new)
  BY <1>1 DEF UpToDate, Abreast
<1> QED BY <1>2 DEF new

LEMMA AnsweredOk ==
    ASSUME DeskInv, NEW c \in calls, c.kind = "act", DeskAnswered(c)
    PROVE  DeskInv'
<1> DEFINE o == This.does[c.op]
           reloads == o.then \in {"reload", "await", "current"}
           q == IF o.then = "current" THEN page.q ELSE c.q
           frees == IF o.then = "await" THEN o.lock ELSE ""
           form == CASE o.opens # "" -> o.opens [] page.form = c.op -> "" [] OTHER -> page.form
           sheet == IF o.opens # "" \/ page.form = c.op THEN None ELSE page.sheet
           locks == IF o.then = "await" THEN page.locks ELSE page.locks \ {o.lock}
           anew == Refilled(page.view, api')
           view == CASE page.view = None -> page.view
                     [] o.then = "patch" -> Redrawn(page.view, o.to)
                     [] o.then \in {"answer", "early"} -> anew
                     [] OTHER -> page.view
<1>1. /\ api' = [row |-> api'.row, ver |-> api'.ver, others |-> api'.others]
      /\ api'.ver = api.ver + 1 /\ api'.ver \in Nat /\ api.ver \in Nat
  <2>1. DeskCarried(c)
    BY Zenon DEF DeskAnswered
  <2>2. api.ver \in Nat
    BY DEF DeskInv, DeskTyped
  <2> QED BY <2>1, <2>2, CarriedOk
<1>2. /\ page' = [page EXCEPT !.locks = locks, !.form = form, !.sheet = sheet,
                              !.loading = @ \/ reloads, !.error = @ /\ ~reloads, !.view = view]
      /\ calls' = IF reloads THEN (Overtaken \ {c}) \cup {ListRead(q, api', frees)} ELSE calls \ {c}
      /\ told' = IF reloads THEN [ver |-> api'.ver, astray |-> told.astray \/ q # page.q] ELSE told
  BY Zenon DEF DeskAnswered
<1>3. UpToDate(page.view) => UpToDate(anew)
  <2>1. PICK copy : copy = api'
    OBVIOUS
  <2>2. copy.ver \in Nat /\ copy.ver >= told.ver
    BY <1>1, <2>1 DEF DeskInv, DeskTyped
  <2>3. UpToDate(page.view) => UpToDate(Refilled(page.view, copy))
    BY <2>2, ReturnedShown
  <2> QED BY Zenon, <2>1, <2>3
<1> HIDE DEF anew
<1>4. view \in {page.view, Redrawn(page.view, o.to), anew}
  OBVIOUS
<1>5. \A l \in locks : (o.then = "await" /\ l = o.lock) \/ \E d \in calls : d \notin {c} /\ Frees(d, l)
  BY OthersFree
<1> HIDE DEF locks, form, sheet, view
<1>6. /\ page' = [f \in DeskFields |-> page'[f]] /\ page'.at = "desk"
      /\ \A f \in {"at", "desk", "q"} : page'[f] = page[f]
      /\ page'.locks = locks /\ page'.view = view
      /\ page'.loading = (IF reloads THEN TRUE ELSE page.loading)
      /\ page'.error = (IF reloads THEN FALSE ELSE page.error)
  BY <1>2 DEF DeskInv, DeskTyped, DeskFields
<1>7. page'.loading \in BOOLEAN /\ page'.error \in BOOLEAN
  BY <1>6 DEF DeskInv, DeskTyped
<1>8. PICK gone : gone = {c}
  OBVIOUS
<1>9. CASE reloads
  <2>1. PICK copy : copy = api'
    OBVIOUS
  <2>2. calls' = (Overtaken \ gone) \cup {ListRead(q, copy, frees)}
    BY <1>2, <1>8, <1>9, <2>1
  <2>3. /\ told' = [ver |-> told'.ver, astray |-> told'.astray] /\ told'.ver = api'.ver
        /\ told'.astray \in BOOLEAN /\ (told'.astray \/ q = page'.q)
    <3>1. told' = [ver |-> api'.ver, astray |-> told.astray \/ q # page.q] /\ page'.q = page.q
      BY <1>2, <1>6, <1>9
    <3> HIDE DEF o, reloads, q, frees
    <3> QED BY <3>1
  <2>4. \A l \in page'.locks : l = frees \/ \E d \in calls : d \notin gone /\ Frees(d, l)
    BY <1>5, <1>6, <1>8
  <2> HIDE DEF o, reloads, q, frees
  <2>5. /\ copy.ver \in Nat /\ copy.ver >= told'.ver /\ told'.ver \in Nat /\ told'.ver <= api'.ver
        /\ \A d \in gone : d.kind = "act"
    BY <1>1, <1>8, <2>1, <2>3
  <2>6. page'.desk = page.desk
    BY <1>6
  <2> QED BY <1>1, <1>6, <1>7, <2>2, <2>3, <2>4, <2>5, <2>6, NewQuestion
<1>10. CASE ~reloads
  <2>1. calls' = calls \ {c} /\ told' = told
    BY <1>2, <1>10
  <2>2. \A f \in {"at", "desk", "q", "loading", "error"} : page'[f] = page[f]
    BY <1>6, <1>10
  <2>3. \A l \in page'.locks : \E d \in calls' : Frees(d, l)
    BY <1>5, <1>6, <1>10, <2>1
  <2>4. UpToDate(page.view) => UpToDate(page'.view)
    <3>1. page'.view \in {page.view, Redrawn(page.view, o.to), anew}
      BY <1>4, <1>6
    <3>2. CASE page'.view = page.view
      BY Zenon, <3>2
    <3>3. CASE page'.view = Redrawn(page.view, o.to)
      BY Zenon, <3>3, RowShown
    <3>4. CASE page'.view = anew
      BY Zenon, <3>4, <1>3
    <3> QED BY <3>1, <3>2, <3>3, <3>4
  <2>5. \A d : d.kind = "list" => (d \in calls' <=> d \in calls)
    BY <2>1
  <2>6. api'.ver \in Nat /\ api'.ver >= api.ver
    BY <1>1
  <2> QED BY Zenon, <1>1, <1>6, <2>1, <2>2, <2>3, <2>4, <2>5, <2>6, NoQuestion
<1> QED BY <1>9, <1>10

LEMMA RefusedOk ==
    ASSUME DeskInv, NEW c \in calls, c.kind = "act", DeskRefused(c)
    PROVE  DeskInv'
<1> DEFINE o == This.does[c.op]
           early == o.then = "early"
           view == IF early THEN c.was ELSE page.view
<1>1. /\ api' = [row |-> api'.row, ver |-> api'.ver, others |-> api'.others]
      /\ api'.ver >= api.ver /\ api'.ver \in Nat /\ api.ver \in Nat
  <2>1. api' = api \/ DeskCarried(c)
    BY DEF DeskRefused
  <2> QED BY <2>1, CarriedOk DEF DeskInv, DeskTyped
<1>2. /\ calls' = IF early THEN (Overtaken \ {c}) \cup {ListRead(c.q, api', "")} ELSE calls \ {c}
      /\ page' = [page EXCEPT !.locks = @ \ {o.lock}, !.loading = @ \/ early, !.view = view]
      /\ told' = [told EXCEPT !.astray = @ \/ (early /\ c.q # page.q)]
  BY Zenon DEF DeskRefused
<1> HIDE DEF view
<1>3. /\ page' = [f \in DeskFields |-> page'[f]] /\ page'.at = "desk"
      /\ \A f \in {"at", "desk", "q", "error"} : page'[f] = page[f]
      /\ page'.locks = page.locks \ {o.lock} /\ page'.view = view
      /\ page'.loading = (IF early THEN TRUE ELSE page.loading)
  BY <1>2 DEF DeskInv, DeskTyped, DeskFields
<1>4. page'.loading \in BOOLEAN /\ page'.error \in BOOLEAN
  BY <1>3 DEF DeskInv, DeskTyped
<1>5. PICK gone : gone = {c}
  OBVIOUS
<1>6. \A l \in page'.locks : \E d \in calls : d \notin gone /\ Frees(d, l)
  BY <1>3, <1>5, OthersFree
<1>7. /\ told' = [ver |-> told'.ver, astray |-> told'.astray] /\ told'.ver = told.ver
      /\ told'.astray = (IF early /\ c.q # page.q THEN TRUE ELSE told.astray)
  <2>1. told = [ver |-> told.ver, astray |-> told.astray] /\ told.astray \in BOOLEAN
    BY DEF DeskInv, DeskTyped
  <2> HIDE DEF o, early
  <2> QED BY <1>2, <2>1
<1>8. told'.ver \in Nat /\ told'.ver <= api.ver /\ told'.ver <= api'.ver /\ told'.astray \in BOOLEAN
  <2>1. told.ver \in Nat /\ told.ver <= api.ver /\ told.astray \in BOOLEAN
    BY DEF DeskInv, DeskTyped
  <2>2. told'.ver = told.ver
    BY Zenon, <1>7
  <2>3. told'.astray \in BOOLEAN
    BY <1>7, <2>1
  <2> QED BY <1>1, <2>1, <2>2, <2>3
<1>r. told' = [ver |-> told'.ver, astray |-> told'.astray] /\ page'.at = "desk"
  BY <1>3, <1>7
<1>9. CASE early
  <2>1. PICK copy : copy = api'
    OBVIOUS
  <2> PICK q : q = c.q
    OBVIOUS
  <2>2. calls' = (Overtaken \ gone) \cup {ListRead(q, copy, "")}
    BY <1>2, <1>5, <1>9, <2>1
  <2>3. told'.astray \/ q = page'.q
    BY <1>3, <1>7, <1>9
  <2>4. \A l \in page'.locks : l = "" \/ \E d \in calls : d \notin gone /\ Frees(d, l)
    BY <1>6
  <2> HIDE DEF o, early
  <2>5. /\ copy.ver \in Nat /\ copy.ver >= told'.ver /\ \A d \in gone : d.kind = "act"
    BY <1>1, <1>5, <1>8, <2>1
  <2>6. page'.desk = page.desk
    BY <1>3
  <2>7. page' = [f \in DeskFields |-> page'[f]]
    BY <1>3
  <2> QED BY <1>1, <1>4, <1>r, <1>8, <2>2, <2>3, <2>4, <2>5, <2>6, <2>7, NewQuestion
<1>10. CASE ~early
  <2>1. calls' = calls \ {c}
    BY <1>2, <1>10
  <2>2. \A f \in {"at", "desk", "q", "loading", "error"} : page'[f] = page[f]
    BY <1>3, <1>10
  <2>3. \A l \in page'.locks : \E d \in calls' : Frees(d, l)
    BY <1>5, <1>6, <2>1
  <2>4. UpToDate(page.view) => UpToDate(page'.view)
    <3>1. page'.view = page.view
      BY <1>3, <1>10 DEF view
    <3> QED BY Zenon, <3>1
  <2>5. \A d : d.kind = "list" => (d \in calls' <=> d \in calls)
    BY <2>1
  <2>6. told' = told
    <3>1. told = [ver |-> told.ver, astray |-> told.astray]
      BY DEF DeskInv, DeskTyped
    <3> QED BY <1>7, <1>10, <3>1
  <2> HIDE DEF o, early
  <2> QED BY Zenon, <1>1, <1>3, <2>2, <2>3, <2>4, <2>5, <2>6, NoQuestion
<1> QED BY <1>9, <1>10

\* The answer to a question, or its failure.
LEMMA ListEnds ==
    ASSUME DeskInv, NEW c \in calls, c.kind = "list", ListFetched(c) \/ ListFailed(c)
    PROVE  DeskInv'
<1> DEFINE shown == ListShown(c)
           got == [row |-> c.row, ver |-> c.ver, q |-> c.q]
<1>1. calls' = calls \ {c} /\ UNCHANGED <<api, told>>
  BY DEF ListFetched, ListFailed, Settle
<1>2. \/ page' = [page EXCEPT !.view = IF shown THEN got ELSE @,
                              !.loading = @ /\ ~shown, !.locks = @ \ {c.frees}]
      \/ page' = [page EXCEPT !.error = @ \/ shown, !.loading = @ /\ ~shown, !.locks = @ \ {c.frees}]
  BY DEF ListFetched, ListFailed
<1> HIDE DEF shown, got
<1>3. /\ page' = [f \in DeskFields |-> page'[f]] /\ page'.at = "desk"
      /\ page'.desk = page.desk /\ page'.q = page.q
      /\ page'.locks = page.locks \ {c.frees}
      /\ page'.loading = (IF shown THEN FALSE ELSE page.loading)
      /\ \/ /\ page'.view = (IF shown THEN got ELSE page.view)
            /\ page'.error = page.error
         \/ /\ page'.view = page.view
            /\ page'.error = (IF shown THEN TRUE ELSE page.error)
  BY <1>2 DEF DeskInv, DeskTyped, DeskFields
<1>4. This' = This
  BY <1>3 DEF This
<1>5. DeskTyped'
  BY <1>1, <1>3 DEF DeskInv, DeskTyped
<1>6. Freed'
  <2>1. \A d, l : Frees(d, l)' <=> Frees(d, l)
    BY <1>4 DEF Frees
  <2>2. ASSUME NEW l \in page'.locks PROVE \E d \in calls' : Frees(d, l)
    <3>1. l \in page.locks /\ l # c.frees
      BY <1>3, <2>2
    <3>2. PICK d \in calls : Frees(d, l)
      BY <3>1 DEF DeskInv, Freed
    <3>3. d # c
      BY <3>1, <3>2 DEF Frees
    <3> QED BY <1>1, <3>2, <3>3
  <2> QED BY <2>1, <2>2 DEF Freed
<1>7. \A d : (Coming(d)' <=> Coming(d)) /\ (Abreast(d)' <=> Abreast(d)) /\ (UpToDate(d)' <=> UpToDate(d))
  BY <1>1, <1>3, <1>4 DEF Coming, ListShown, Abreast, UpToDate
<1>8. Coming(c) <=> shown
  BY DEF Coming, shown
<1>9. Loads'
  <2>1. ASSUME page'.loading PROVE \E d \in calls' : Coming(d)
    <3>1. page.loading /\ ~shown
      BY <1>3, <2>1
    <3> QED BY <1>1, <1>8, <3>1 DEF DeskInv, Loads
  <2> QED BY <1>7, <2>1 DEF Loads
<1>10. ASSUME This.numbered
       PROVE  /\ \A d \in calls' : Coming(d) => Abreast(d)
              /\ (\E d \in calls' : Coming(d)) \/ page'.error \/ UpToDate(page'.view)
  <2>1. /\ \A d \in calls : Coming(d) => Abreast(d)
        /\ (\E d \in calls : Coming(d)) \/ page.error \/ UpToDate(page.view)
    BY <1>10 DEF DeskInv, Current
  <2>2. CASE shown
    <3>1. Abreast(c)
      BY <1>8, <2>1, <2>2
    <3>2. UpToDate(got)
      BY <3>1 DEF got, UpToDate, Abreast
    <3>3. page'.view = got \/ page'.error
      BY <1>3, <2>2
    <3> QED BY <1>1, <2>1, <3>2, <3>3
  <2>3. CASE ~shown
    <3>1. page'.view = page.view /\ page'.error = page.error
      BY <1>3, <2>3
    <3> QED BY <1>1, <1>8, <2>1, <2>3, <3>1
  <2> QED BY <2>2, <2>3
<1>11. Current'
  <2>1. UpToDate(page.view)' <=> UpToDate(page'.view)
    BY <1>1, <1>3 DEF UpToDate, Abreast
  <2> QED BY <1>4, <1>7, <1>10, <2>1 DEF Current
<1> QED BY <1>5, <1>6, <1>9, <1>11 DEF DeskInv

LEMMA ElsewhereOk ==
    ASSUME DeskInv, Elsewhere
    PROVE  DeskInv'
<1>1. UNCHANGED <<calls, page, told>> /\ This' = This
  BY DEF Elsewhere, This
<1>2. /\ api' = [row |-> api'.row, ver |-> api'.ver, others |-> api'.others]
      /\ api'.ver \in Nat /\ api'.ver >= api.ver
  BY DEF Elsewhere, DeskInv, DeskTyped
<1>3. DeskTyped'
  BY <1>1, <1>2 DEF DeskInv, DeskTyped
<1>4. Freed' /\ Loads'
  BY <1>1 DEF DeskInv, Freed, Frees, Loads, Coming, ListShown
<1>5. Current'
  BY <1>1 DEF DeskInv, Current, Coming, ListShown, UpToDate, Abreast
<1> QED BY <1>3, <1>4, <1>5 DEF DeskInv

LEMMA DeskStarts ==
    ASSUME DeskInit
    PROVE  DeskInv
<1>1. PICK p \in Desks :
         /\ api \in [row : Shape(p).rows, ver : {0}, others : {0}]
         /\ page = [at |-> "desk", desk |-> p, q |-> Head(Shape(p).asks), view |-> None,
                    loading |-> TRUE, error |-> FALSE, locks |-> {}, ask |-> None,
                    form |-> "", sheet |-> None, tab |-> Shape(p).tab, acts |-> 0]
  BY DEF DeskInit
<1>2. calls = {ListRead(page.q, api, "")} /\ told = [ver |-> 0, astray |-> FALSE]
  BY DEF DeskInit
<1>3. api = [row |-> api.row, ver |-> api.ver, others |-> api.others] /\ api.ver = 0
  BY <1>1
<1>t. told = [ver |-> told.ver, astray |-> told.astray] /\ told.ver = 0 /\ told.astray = FALSE
  BY <1>2
<1>4. /\ page = [f \in DeskFields |-> page[f]] /\ page.at = "desk" /\ page.loading = TRUE
      /\ page.error = FALSE /\ page.locks = {}
  BY <1>1 DEF DeskFields
<1>5. PICK new : new = ListRead(page.q, api, "")
  OBVIOUS
<1>6. /\ new = [f \in ListFields |-> new[f]] /\ new.kind = "list" /\ new.q = page.q
      /\ new.ver = 0 /\ new.last = TRUE
  BY <1>3, <1>5 DEF ListRead, ListFields
<1>7. calls = {new}
  BY <1>2, <1>5
<1>8. DeskTyped
  <2>1. told.ver \in Nat /\ told.ver <= api.ver /\ api.ver \in Nat /\ told.astray \in BOOLEAN
    <3>1. told.ver = 0 /\ api.ver = 0 /\ told.astray = FALSE
      BY Zenon, <1>3, <1>t
    <3>2. told.ver \in Nat /\ told.ver <= api.ver /\ api.ver \in Nat
      BY <3>1
    <3>3. told.astray \in BOOLEAN
      BY <3>1
    <3> QED BY Zenon, <3>2, <3>3
  <2>2. page.loading \in BOOLEAN /\ page.error \in BOOLEAN
    BY <1>4
  <2>3. \A c \in calls : c = [f \in ListFields |-> c[f]]
    <3>1. ASSUME NEW c \in calls PROVE c = [f \in ListFields |-> c[f]]
      <4>1. c = new
        BY <1>7
      <4> QED BY <1>6, <4>1
    <3> QED BY <3>1
  <2> QED BY Zenon, <1>3, <1>t, <1>4, <2>1, <2>2, <2>3 DEF DeskTyped
<1>9. Freed
  BY <1>4 DEF Freed
<1>10. Coming(new) /\ Abreast(new)
  BY <1>t, <1>6 DEF Coming, ListShown, Abreast
<1>11. Loads /\ Current
  BY <1>7, <1>10 DEF Loads, Current
<1> QED BY <1>8, <1>9, <1>11 DEF DeskInv

LEMMA DeskStep ==
    ASSUME DeskInv, [DeskNext]_clientVars
    PROVE  DeskInv'
<1>1. CASE UNCHANGED clientVars
  <2>1. UNCHANGED <<api, page, calls, told>>
    BY <1>1 DEF clientVars
  <2> QED BY <2>1 DEF DeskInv, DeskTyped, Freed, Frees, Loads, Current, Coming, ListShown,
                      UpToDate, Abreast, This
<1>2. CASE \E i \in DOMAIN This.asks : AskList(This.asks[i])
  BY <1>2, AskListOk
<1>3. CASE \/ \E name \in DOMAIN This.does : DeskClick(name)
           \/ \E tab \in DOMAIN This.tabs : DeskTab(tab)
           \/ DeskSubmit \/ DeskClose \/ DeskConfirm \/ DeskDecline
  BY <1>3, HandsOk
<1>4. CASE Elsewhere
  BY <1>4, ElsewhereOk
<1>5. CASE \E c \in calls : DeskEnds(c)
  BY <1>5, ListEnds, AnsweredOk, RefusedOk DEF DeskEnds
<1> QED BY <1>1, <1>2, <1>3, <1>4, <1>5 DEF DeskNext

\* Whatever overtakes what: at rest a desk is free, and a numbered list has all that
\* was done, for what is chosen now.
THEOREM DoneShows == DeskSpec => []DoneIsShown
<1>1. DeskInv => DoneIsShown
  BY DEF DeskInv, DoneIsShown, DeskQuiet, Freed, Loads, Current, UpToDate, Abreast, DeskTyped
<1>2. DeskInit => DeskInv
  BY DeskStarts
<1>3. DeskInv /\ [DeskNext]_clientVars => DeskInv'
  BY DeskStep
<1> QED BY <1>1, <1>2, <1>3, PTL DEF DeskSpec

----------------------------------------------------------------------------
(***************************************************************************)
(* The stadium display                                                     *)
(***************************************************************************)

PlayRecord == [n : Nat, what : Play]
StageNames == {"toss", "ad", "lineups", "scorecard", "auto", "live"}
LookData == [log : Seq(PlayRecord), stage : StageNames]
LookAsked == [copy : LookData \cup {None}, older : BOOLEAN, stops : BOOLEAN]

PlaysOf(log) == {log[j] : j \in DOMAIN log}

\* Looks at the match, older ones first: at K are those with the logs L.  A play that
\* went missing does not come back, one that was called and is missing neither; a play
\* keeps its place in the log, and has a number given out already.
OneOrder(K, L, called, made) ==
    /\ \A a, b, c \in K : a <= b /\ b <= c =>
           \A x \in PlaysOf(L[a]) : x \notin PlaysOf(L[b]) => x \notin PlaysOf(L[c])
    /\ \A b, c \in K : b <= c => \A x \in called : x \notin PlaysOf(L[b]) => x \notin PlaysOf(L[c])
    /\ \A a, b \in K : \A j \in DOMAIN L[a], m \in DOMAIN L[b] : L[a][j] = L[b][m] => j = m
    /\ \A a \in K : \A x \in PlaysOf(L[a]) : x.n <= made
    /\ \A x \in called : x.n <= made

\* What is shown, the answers that may still be shown, and the match as it is.
LooksOf(asked, data) ==
    (IF data = None THEN {} ELSE {0}) \cup {Len(asked) + 1}
        \cup {k \in 1..Len(asked) : asked[k].copy # None /\ ~asked[k].older}
LogsOf(asked, data, log) ==
    [k \in 0..Len(asked) + 1 |-> IF k = 0 THEN data.log
                                 ELSE IF k = Len(asked) + 1 THEN log ELSE asked[k].copy.log]
LooksInOrder(asked, data, log, called, made) ==
    OneOrder(LooksOf(asked, data), LogsOf(asked, data, log), called, made)

LEMMA OrderKept ==
    ASSUME NEW K \in SUBSET Nat, NEW L, NEW called, NEW made, OneOrder(K, L, called, made),
           NEW K2 \in SUBSET Nat, NEW L2, NEW f \in [K2 -> K],
           \A k \in K2 : L2[k] = L[f[k]],
           \A k, m \in K2 : k <= m => f[k] <= f[m]
    PROVE  OneOrder(K2, L2, called, made)
<1>1. ASSUME NEW a \in K2, NEW b \in K2, NEW c \in K2, a <= b, b <= c
      PROVE  \A x \in PlaysOf(L2[a]) : x \notin PlaysOf(L2[b]) => x \notin PlaysOf(L2[c])
  <2>1. PICK d \in K : d = f[a]
    OBVIOUS
  <2>2. PICK e \in K : e = f[b]
    OBVIOUS
  <2>3. PICK g \in K : g = f[c]
    OBVIOUS
  <2>4. d <= e /\ e <= g
    BY Zenon, <1>1, <2>1, <2>2, <2>3
  <2>5. \A x \in PlaysOf(L[d]) : x \notin PlaysOf(L[e]) => x \notin PlaysOf(L[g])
    BY <2>4 DEF OneOrder
  <2>6. L2[a] = L[d] /\ L2[b] = L[e] /\ L2[c] = L[g]
    BY Zenon, <2>1, <2>2, <2>3
  <2> QED BY Zenon, <2>5, <2>6
<1>2. ASSUME NEW b \in K2, NEW c \in K2, b <= c
      PROVE  \A x \in called : x \notin PlaysOf(L2[b]) => x \notin PlaysOf(L2[c])
  <2>1. PICK e \in K : e = f[b]
    OBVIOUS
  <2>2. PICK g \in K : g = f[c]
    OBVIOUS
  <2>3. e <= g /\ L2[b] = L[e] /\ L2[c] = L[g]
    BY Zenon, <1>2, <2>1, <2>2
  <2>4. \A x \in called : x \notin PlaysOf(L[e]) => x \notin PlaysOf(L[g])
    BY <2>3 DEF OneOrder
  <2> QED BY Zenon, <2>3, <2>4
<1>3. ASSUME NEW a \in K2, NEW b \in K2
      PROVE  /\ \A j \in DOMAIN L2[a], m \in DOMAIN L2[b] : L2[a][j] = L2[b][m] => j = m
             /\ \A x \in PlaysOf(L2[a]) : x.n <= made
  <2>1. PICK d \in K : d = f[a]
    OBVIOUS
  <2>2. PICK e \in K : e = f[b]
    OBVIOUS
  <2>3. /\ \A j \in DOMAIN L[d], m \in DOMAIN L[e] : L[d][j] = L[e][m] => j = m
        /\ \A x \in PlaysOf(L[d]) : x.n <= made
    BY DEF OneOrder
  <2>4. L2[a] = L[d] /\ L2[b] = L[e]
    BY Zenon, <2>1, <2>2
  <2> QED BY Zenon, <2>3, <2>4
<1>4. \A x \in called : x.n <= made
  BY DEF OneOrder
<1> QED BY <1>1, <1>2, <1>3, <1>4 DEF OneOrder

LEMMA NothingAfter ==
    ASSUME NEW K \in SUBSET Nat, NEW top \in K, \A k \in K : k <= top, NEW b \in K, top <= b
    PROVE  b = top
<1>1. b <= top /\ b \in Nat /\ top \in Nat
  OBVIOUS
<1> QED BY <1>1

LEMMA AppendPlaces ==
    ASSUME NEW s \in Seq(PlayRecord), NEW x \in PlayRecord
    PROVE  \A i \in DOMAIN Append(s, x) :
               \/ i \in DOMAIN s /\ Append(s, x)[i] = s[i]
               \/ i = Len(s) + 1 /\ Append(s, x)[i] = x
OBVIOUS

\* The newest of the looks is the match; it goes on.
LEMMA PlayRecorded ==
    ASSUME NEW K \in SUBSET Nat, NEW L, NEW called, NEW made \in Nat, OneOrder(K, L, called, made),
           NEW top \in K, \A k \in K : k <= top, NEW L2, \A k \in K \ {top} : L2[k] = L[k],
           NEW new \in PlayRecord, new.n = made + 1,
           L[top] \in Seq(PlayRecord), L2[top] = Append(L[top], new),
           called \subseteq PlayRecord, \A k \in K : L[k] \in Seq(PlayRecord)
    PROVE  OneOrder(K, L2, called, made + 1)
<1>1. PlaysOf(L2[top]) = PlaysOf(L[top]) \cup {new}
  BY DEF PlaysOf
<1>2. \A k \in K : new \notin PlaysOf(L[k])
  <2>1. \A k \in K : \A x \in PlaysOf(L[k]) : x.n <= made /\ x \in PlayRecord
    BY DEF OneOrder, PlaysOf
  <2>2. ~(new.n <= made)
    BY SMT
  <2> QED BY <2>1, <2>2
<1>3. new \notin called
  BY SMT DEF OneOrder
<1>4. ASSUME NEW a \in K, NEW b \in K, NEW c \in K, a <= b, b <= c
      PROVE  \A x \in PlaysOf(L2[a]) : x \notin PlaysOf(L2[b]) => x \notin PlaysOf(L2[c])
  <2>1. CASE a = top
    <3>1. b = top
      BY Zenon, <1>4, <2>1, NothingAfter
    <3>2. c = top
      BY Zenon, <1>4, <3>1, NothingAfter
    <3> QED BY Zenon, <3>1, <3>2
  <2>2. CASE a # top /\ b = top
    <3>1. c = top
      BY Zenon, <1>4, <2>2, NothingAfter
    <3> QED BY <3>1, <2>2
  <2>3. CASE a # top /\ b # top
    <3>1. \A x \in PlaysOf(L[a]) : x \notin PlaysOf(L[b]) => x \notin PlaysOf(L[c])
      BY <1>4 DEF OneOrder
    <3>2. CASE c = top
      BY <1>1, <1>2, <2>3, <3>1, <3>2
    <3>3. CASE c # top
      BY <2>3, <3>1, <3>3
    <3> QED BY <3>2, <3>3
  <2> QED BY <2>1, <2>2, <2>3
<1>5. ASSUME NEW b \in K, NEW c \in K, b <= c
      PROVE  \A x \in called : x \notin PlaysOf(L2[b]) => x \notin PlaysOf(L2[c])
  <2>1. \A x \in called : x \notin PlaysOf(L[b]) => x \notin PlaysOf(L[c])
    BY <1>5 DEF OneOrder
  <2>2. CASE b = top
    <3>1. c = top
      BY Zenon, <1>5, <2>2, NothingAfter
    <3> QED BY <2>2, <3>1
  <2>3. CASE b # top
    <3>1. CASE c = top
      BY <1>1, <1>3, <2>1, <2>3, <3>1
    <3>2. CASE c # top
      BY <2>1, <2>3, <3>2
    <3> QED BY <3>1, <3>2
  <2> QED BY <2>2, <2>3
<1>6. ASSUME NEW a \in K, NEW b \in K, NEW j \in DOMAIN L2[a], NEW m \in DOMAIN L2[b], L2[a][j] = L2[b][m]
      PROVE  j = m
  <2>1. \A k \in K : \/ L2[k] = L[k]
                     \/ L2[k] = Append(L[top], new) /\ k = top
    OBVIOUS
  <2>2. \A k \in K : \A i \in DOMAIN L2[k] : \/ i \in DOMAIN L[k] /\ L2[k][i] = L[k][i]
                                             \/ i = Len(L[top]) + 1 /\ L2[k][i] = new
    <3>1. ASSUME NEW k \in K, L2[k] = Append(L[top], new), k = top, NEW i \in DOMAIN L2[k]
          PROVE  \/ i \in DOMAIN L[k] /\ L2[k][i] = L[k][i]
                 \/ i = Len(L[top]) + 1 /\ L2[k][i] = new
      BY Zenon, <3>1, AppendPlaces
    <3>2. ASSUME NEW k \in K, L2[k] = L[k], NEW i \in DOMAIN L2[k]
          PROVE  i \in DOMAIN L[k] /\ L2[k][i] = L[k][i]
      BY Zenon, <3>2
    <3> QED BY Zenon, <2>1, <3>1, <3>2
  <2>3. \A k \in K : \A i \in DOMAIN L[k] : L[k][i] \in PlaysOf(L[k])
    BY DEF PlaysOf
  <2>4. \A k \in K : \A i \in DOMAIN L[k] : L[k][i] # new
    BY <1>2, <2>3
  <2>5. \A i \in DOMAIN L[a], n \in DOMAIN L[b] : L[a][i] = L[b][n] => i = n
    BY DEF OneOrder
  <2> QED BY <1>6, <2>2, <2>4, <2>5
<1>7. ASSUME NEW a \in K, NEW x \in PlaysOf(L2[a])
      PROVE  x.n <= made + 1
  <2>1. \A y \in PlaysOf(L[a]) : y.n <= made /\ y \in PlayRecord
    BY DEF OneOrder, PlaysOf
  <2>2. x \in PlaysOf(L[a]) \/ x = new
    BY <1>1, <1>7
  <2>3. x.n \in Nat /\ (x.n <= made \/ x.n = made + 1)
    BY <2>1, <2>2 DEF PlayRecord
  <2> QED BY <2>3
<1>8. \A x \in called : x.n <= made + 1
  <2>1. \A x \in called : x.n <= made /\ x.n \in Nat
    BY DEF OneOrder, PlayRecord
  <2> QED BY <2>1
<1> QED BY <1>4, <1>5, <1>6, <1>7, <1>8 DEF OneOrder

LEMMA PlayUndone ==
    ASSUME NEW K \in SUBSET Nat, NEW L, NEW called, NEW made \in Nat, OneOrder(K, L, called, made),
           NEW top \in K, \A k \in K : k <= top, NEW L2, \A k \in K \ {top} : L2[k] = L[k],
           \A j \in DOMAIN L2[top] : j \in DOMAIN L[top] /\ L2[top][j] = L[top][j]
    PROVE  OneOrder(K, L2, called, made)
<1>1. PlaysOf(L2[top]) \subseteq PlaysOf(L[top])
  BY DEF PlaysOf
<1>2. ASSUME NEW a \in K, NEW b \in K, NEW c \in K, a <= b, b <= c
      PROVE  \A x \in PlaysOf(L2[a]) : x \notin PlaysOf(L2[b]) => x \notin PlaysOf(L2[c])
  <2>1. CASE b = top
    <3>1. c = top
      BY Zenon, <1>2, <2>1, NothingAfter
    <3> QED BY <3>1, <2>1
  <2>2. CASE b # top
    <3>1. a # top
      BY <1>2, <2>2
    <3>2. \A x \in PlaysOf(L[a]) : x \notin PlaysOf(L[b]) => x \notin PlaysOf(L[c])
      BY <1>2 DEF OneOrder
    <3>3. PlaysOf(L2[c]) \subseteq PlaysOf(L[c])
      BY <1>1
    <3> QED BY <2>2, <3>1, <3>2, <3>3
  <2> QED BY <2>1, <2>2
<1>3. ASSUME NEW b \in K, NEW c \in K, b <= c
      PROVE  \A x \in called : x \notin PlaysOf(L2[b]) => x \notin PlaysOf(L2[c])
  <2>1. CASE b = top
    <3>1. c = top
      BY Zenon, <1>3, <2>1, NothingAfter
    <3> QED BY <3>1, <2>1
  <2>2. CASE b # top
    <3>1. \A x \in called : x \notin PlaysOf(L[b]) => x \notin PlaysOf(L[c])
      BY <1>3 DEF OneOrder
    <3>2. PlaysOf(L2[c]) \subseteq PlaysOf(L[c])
      BY <1>1
    <3> QED BY <2>2, <3>1, <3>2
  <2> QED BY <2>1, <2>2
<1>4. \A k \in K : \A i \in DOMAIN L2[k] : i \in DOMAIN L[k] /\ L2[k][i] = L[k][i]
  OBVIOUS
<1>5. \A a, b \in K : \A j \in DOMAIN L2[a], m \in DOMAIN L2[b] : L2[a][j] = L2[b][m] => j = m
  BY <1>4 DEF OneOrder
<1>6. \A a \in K : \A x \in PlaysOf(L2[a]) : x.n <= made
  <2>1. \A a \in K : PlaysOf(L2[a]) \subseteq PlaysOf(L[a])
    BY <1>1
  <2> QED BY <2>1 DEF OneOrder
<1>7. \A x \in called : x.n <= made
  BY DEF OneOrder
<1> QED BY <1>2, <1>3, <1>5, <1>6, <1>7 DEF OneOrder

\* The newest play of what comes on show is called; it was not called before.
LEMMA PlayCalled ==
    ASSUME NEW K \in SUBSET Nat, NEW L, NEW called, NEW made, OneOrder(K, L, called, made),
           NEW k \in K, \A m \in K : k <= m, NEW x \in PlaysOf(L[k])
    PROVE  OneOrder(K, L, called \cup {x}, made)
<1>1. ASSUME NEW b \in K, NEW c \in K, b <= c, x \notin PlaysOf(L[b])
      PROVE  x \notin PlaysOf(L[c])
  BY <1>1 DEF OneOrder
<1>2. x.n <= made
  BY DEF OneOrder
<1>3. \A b, c \in K : b <= c => \A y \in called \cup {x} : y \notin PlaysOf(L[b]) => y \notin PlaysOf(L[c])
  BY <1>1 DEF OneOrder
<1>4. \A y \in called \cup {x} : y.n <= made
  BY <1>2 DEF OneOrder
<1> QED BY <1>3, <1>4 DEF OneOrder

LEMMA NotCalledYet ==
    ASSUME NEW K, NEW L, NEW called, NEW made, OneOrder(K, L, called, made),
           NEW b \in K, NEW c \in K, b <= c, L[b] \in Seq(PlayRecord), L[c] \in Seq(PlayRecord),
           Len(L[c]) = Len(L[b]) + 1
    PROVE  L[c][Len(L[c])] \notin called
<1> DEFINE x == L[c][Len(L[c])]
<1>1. Len(L[c]) \in DOMAIN L[c] /\ x \in PlaysOf(L[c])
  BY DEF PlaysOf
<1>2. x \notin PlaysOf(L[b])
  <2> SUFFICES ASSUME x \in PlaysOf(L[b]) PROVE FALSE
    OBVIOUS
  <2>1. PICK j \in DOMAIN L[b] : x = L[b][j]
    BY DEF PlaysOf
  <2>2. j = Len(L[c])
    BY <1>1, <2>1 DEF OneOrder
  <2> QED BY <2>1, <2>2
<1> HIDE DEF x
<1>3. x \notin called
  BY <1>1, <1>2 DEF OneOrder
<1> QED BY <1>3 DEF x

-----------------------------------------------------------------------------
\* The looks and their order, as requests come and go.
LookList == Seq(LookAsked)

LEMMA LooksTyped ==
    ASSUME NEW asked \in LookList, NEW data \in LookData \cup {None}, NEW log \in Seq(PlayRecord)
    PROVE  /\ LooksOf(asked, data) \in SUBSET Nat
           /\ Len(asked) + 1 \in LooksOf(asked, data)
           /\ \A k \in LooksOf(asked, data) : k <= Len(asked) + 1
           /\ \A k \in LooksOf(asked, data) : LogsOf(asked, data, log)[k] \in Seq(PlayRecord)
<1>1. Len(asked) \in Nat
  BY DEF LookList
<1>2. ASSUME NEW k \in LooksOf(asked, data)
      PROVE  LogsOf(asked, data, log)[k] \in Seq(PlayRecord) /\ k <= Len(asked) + 1 /\ k \in Nat
  <2>1. CASE k = Len(asked) + 1
    BY <1>1, <2>1 DEF LogsOf
  <2>2. CASE k = 0 /\ data # None
    BY <1>1, <2>2 DEF LogsOf, LookData
  <2>3. CASE k \in 1..Len(asked) /\ asked[k].copy # None
    <3>1. asked[k] \in LookAsked
      BY <2>3 DEF LookList
    <3>2. asked[k].copy \in LookData
      BY <2>3, <3>1 DEF LookAsked
    <3>3. asked[k].copy.log \in Seq(PlayRecord)
      BY <3>2 DEF LookData
    <3> QED BY <1>1, <2>3, <3>3 DEF LogsOf
  <2> QED BY <1>2, <2>1, <2>2, <2>3 DEF LooksOf
<1>3. Len(asked) + 1 \in LooksOf(asked, data)
  BY DEF LooksOf
<1> QED BY <1>2, <1>3

\* Looks that are some of the looks there were, in the order they had.
LEMMA LooksKept ==
    ASSUME NEW asked \in LookList, NEW data \in LookData \cup {None}, NEW log \in Seq(PlayRecord),
           NEW asked2 \in LookList, NEW data2 \in LookData \cup {None},
           NEW called, NEW made, LooksInOrder(asked, data, log, called, made),
           NEW f, f = [k \in LooksOf(asked2, data2) |-> f[k]],
           \A k \in LooksOf(asked2, data2) :
               /\ f[k] \in LooksOf(asked, data)
               /\ LogsOf(asked2, data2, log)[k] = LogsOf(asked, data, log)[f[k]],
           \A k, m \in LooksOf(asked2, data2) : k <= m => f[k] <= f[m]
    PROVE  LooksInOrder(asked2, data2, log, called, made)
<1>1. PICK K : K = LooksOf(asked, data)
  OBVIOUS
<1>2. PICK K2 : K2 = LooksOf(asked2, data2)
  OBVIOUS
<1>3. PICK L : L = LogsOf(asked, data, log)
  OBVIOUS
<1>4. PICK L2 : L2 = LogsOf(asked2, data2, log)
  OBVIOUS
<1>5. K \in SUBSET Nat /\ K2 \in SUBSET Nat
  BY Zenon, <1>1, <1>2, LooksTyped
<1>6. f \in [K2 -> K] /\ \A k \in K2 : L2[k] = L[f[k]]
  BY <1>1, <1>2, <1>3, <1>4
<1>7. \A k, m \in K2 : k <= m => f[k] <= f[m]
  BY Zenon, <1>2
<1>8. OneOrder(K, L, called, made)
  BY Zenon, <1>1, <1>3 DEF LooksInOrder
<1>9. OneOrder(K2, L2, called, made)
  BY SMTT(30), <1>5, <1>6, <1>7, <1>8, OrderKept
<1> QED BY Zenon, <1>2, <1>4, <1>9 DEF LooksInOrder

\* One question more.
LEMMA AskedMore ==
    ASSUME NEW asked \in LookList, NEW data \in LookData \cup {None}, NEW log \in Seq(PlayRecord),
           NEW called, NEW made, LooksInOrder(asked, data, log, called, made),
           NEW new \in LookAsked, new.copy = None
    PROVE  LooksInOrder(Append(asked, new), data, log, called, made)
<1> DEFINE n == Len(asked)
           asked2 == Append(asked, new)
           K2 == LooksOf(asked2, data)
           f == [k \in K2 |-> IF k = n + 2 THEN n + 1 ELSE k]
<1>1. /\ asked2 \in LookList /\ Len(asked2) = n + 1 /\ n \in Nat /\ asked2[n + 1] = new
      /\ \A k \in 1..n : asked2[k] = asked[k]
  BY DEF LookList
<1> HIDE DEF asked2, n
<1>2. \A k \in K2 : k = n + 2 \/ (k = 0 /\ data # None) \/ (k \in 1..n /\ asked[k].copy # None /\ ~asked[k].older)
  BY <1>1 DEF LooksOf
<1>3. ASSUME NEW k \in K2
      PROVE  /\ f[k] \in LooksOf(asked, data)
             /\ LogsOf(asked2, data, log)[k] = LogsOf(asked, data, log)[f[k]]
  <2>1. CASE k = n + 2
    BY <1>1, <2>1 DEF LooksOf, LogsOf, n
  <2>2. CASE k = 0 /\ data # None
    BY <1>1, <2>2 DEF LooksOf, LogsOf, n
  <2>3. CASE k \in 1..n /\ asked[k].copy # None /\ ~asked[k].older
    <3>1. f[k] = k
      BY <1>1, <2>3
    <3> QED BY <1>1, <2>3, <3>1 DEF LooksOf, LogsOf, n
  <2> QED BY <1>2, <2>1, <2>2, <2>3
<1>4. ASSUME NEW k \in K2, NEW m \in K2, k <= m
      PROVE  f[k] <= f[m]
  <2>1. k \in Nat /\ k <= n + 2 /\ m \in Nat /\ m <= n + 2
    BY <1>1, <1>2
  <2>2. f[k] = (IF k = n + 2 THEN n + 1 ELSE k) /\ f[m] = (IF m = n + 2 THEN n + 1 ELSE m)
    OBVIOUS
  <2> HIDE DEF f, K2
  <2> QED BY <1>1, <1>4, <2>1, <2>2
<1>5. f = [k \in K2 |-> f[k]]
  OBVIOUS
<1> HIDE DEF f, K2
<1>6. LooksInOrder(asked2, data, log, called, made)
  BY Zenon, <1>1, <1>3, <1>4, <1>5, LooksKept DEF K2
<1> QED BY <1>6 DEF asked2

\* A question less, answered or not; others are answered too late.
LEMMA AnswerGone ==
    ASSUME NEW asked \in LookList, NEW data \in LookData \cup {None}, NEW log \in Seq(PlayRecord),
           NEW called, NEW made, LooksInOrder(asked, data, log, called, made),
           NEW i \in 1..Len(asked), NEW asked2 \in LookList, Len(asked2) = Len(asked) - 1,
           \A k \in 1..Len(asked2) :
               LET j == IF k < i THEN k ELSE k + 1
               IN  asked2[k].copy = asked[j].copy /\ (asked[j].older => asked2[k].older)
    PROVE  LooksInOrder(asked2, data, log, called, made)
<1> DEFINE n == Len(asked)
           K2 == LooksOf(asked2, data)
           f == [k \in K2 |-> IF k < i THEN k ELSE k + 1]
<1>1. n \in Nat /\ Len(asked2) = n - 1 /\ i \in 1..n /\ i \in Nat
  BY DEF LookList
<1> HIDE DEF n
<1>2. ASSUME NEW k \in K2
      PROVE  \/ k = n
             \/ k = 0 /\ data # None
             \/ k \in 1..n-1 /\ asked2[k].copy # None /\ ~asked2[k].older
  BY <1>1 DEF LooksOf
<1>3. ASSUME NEW k \in K2
      PROVE  /\ f[k] \in LooksOf(asked, data)
             /\ LogsOf(asked2, data, log)[k] = LogsOf(asked, data, log)[f[k]]
             /\ k \in Nat
  <2>1. CASE k = n
    <3>1. f[k] = n + 1
      BY <1>1, <2>1
    <3>2. n + 1 \in LooksOf(asked, data)
      BY DEF LooksOf, n
    <3>3. LogsOf(asked, data, log)[n + 1] = log /\ LogsOf(asked2, data, log)[n] = log
      BY <1>1 DEF LogsOf, n
    <3> QED BY <1>1, <2>1, <3>1, <3>2, <3>3
  <2>2. CASE k = 0 /\ data # None
    <3>1. f[k] = 0
      BY <1>1, <2>2
    <3>2. 0 \in LooksOf(asked, data)
      BY <2>2 DEF LooksOf
    <3>3. LogsOf(asked, data, log)[0] = data.log /\ LogsOf(asked2, data, log)[0] = data.log
      BY <1>1 DEF LogsOf, n
    <3> QED BY <2>2, <3>1, <3>2, <3>3
  <2>3. CASE k \in 1..n-1 /\ asked2[k].copy # None /\ ~asked2[k].older
    <3>1. PICK j : j = IF k < i THEN k ELSE k + 1
      OBVIOUS
    <3>2. f[k] = j /\ j \in 1..n
      BY <1>1, <2>3, <3>1
    <3>3. asked2[k].copy = asked[j].copy /\ (asked[j].older => asked2[k].older)
      BY <1>1, <2>3, <3>1
    <3>4. j \in LooksOf(asked, data)
      BY <2>3, <3>2, <3>3 DEF LooksOf, n
    <3>5. LogsOf(asked, data, log)[j] = asked[j].copy.log /\ LogsOf(asked2, data, log)[k] = asked2[k].copy.log
      BY <1>1, <2>3, <3>2 DEF LogsOf, n
    <3> QED BY <2>3, <3>2, <3>3, <3>4, <3>5
  <2> QED BY <1>2, <2>1, <2>2, <2>3
<1>4. ASSUME NEW k \in K2, NEW m \in K2, k <= m
      PROVE  f[k] <= f[m]
  <2>1. k \in Nat /\ m \in Nat
    BY <1>3
  <2>2. f[k] = (IF k < i THEN k ELSE k + 1) /\ f[m] = (IF m < i THEN m ELSE m + 1)
    OBVIOUS
  <2> HIDE DEF f, K2
  <2> QED BY <1>1, <1>4, <2>1, <2>2
<1>5. f = [k \in K2 |-> f[k]]
  OBVIOUS
<1> HIDE DEF f, K2
<1>6. LooksInOrder(asked2, data, log, called, made)
  BY Zenon, <1>3, <1>4, <1>5, LooksKept DEF K2
<1> QED BY <1>6

\* An answer is shown, and those asked before it are too late.
LEMMA AnswerShown ==
    ASSUME NEW asked \in LookList, NEW data \in LookData \cup {None}, NEW log \in Seq(PlayRecord),
           NEW called, NEW made, LooksInOrder(asked, data, log, called, made),
           NEW i \in 1..Len(asked), asked[i].copy # None, ~asked[i].older,
           NEW asked2 \in LookList, Len(asked2) = Len(asked) - 1,
           \A k \in 1..Len(asked2) :
               LET j == IF k < i THEN k ELSE k + 1
               IN  asked2[k].copy = asked[j].copy /\ (asked[j].older => asked2[k].older),
           \A k \in 1..Len(asked2) : k < i => asked2[k].older
    PROVE  LooksInOrder(asked2, asked[i].copy, log, called, made)
<1> DEFINE n == Len(asked)
           data2 == asked[i].copy
           K2 == LooksOf(asked2, data2)
           f == [k \in K2 |-> IF k = 0 THEN i ELSE k + 1]
<1>1. n \in Nat /\ Len(asked2) = n - 1 /\ i \in 1..n /\ i \in Nat
  BY DEF LookList
<1>d. data2 \in LookData \cup {None}
  <2>1. asked[i] \in LookAsked
    BY DEF LookList
  <2> QED BY <2>1 DEF LookAsked
<1> HIDE DEF n
<1>2. ASSUME NEW k \in K2
      PROVE  \/ k = n
             \/ k = 0
             \/ k \in i..n-1 /\ asked2[k].copy # None /\ ~asked2[k].older
  BY <1>1 DEF LooksOf
<1>3. ASSUME NEW k \in K2
      PROVE  /\ f[k] \in LooksOf(asked, data)
             /\ LogsOf(asked2, data2, log)[k] = LogsOf(asked, data, log)[f[k]]
             /\ k = 0 \/ (k \in Nat /\ k >= i)
  <2>1. CASE k = n
    <3>1. f[k] = n + 1 /\ k >= i
      BY <1>1, <2>1
    <3>2. n + 1 \in LooksOf(asked, data)
      BY DEF LooksOf, n
    <3>3. LogsOf(asked, data, log)[n + 1] = log /\ LogsOf(asked2, data2, log)[n] = log
      BY <1>1 DEF LogsOf, n
    <3> QED BY <1>1, <2>1, <3>1, <3>2, <3>3
  <2>2. CASE k = 0
    <3>1. f[k] = i
      BY <1>1, <2>2
    <3>2. i \in LooksOf(asked, data)
      BY <1>1 DEF LooksOf, n
    <3>3. LogsOf(asked, data, log)[i] = asked[i].copy.log /\ LogsOf(asked2, data2, log)[0] = data2.log
      BY <1>1 DEF LogsOf, n
    <3> QED BY <2>2, <3>1, <3>2, <3>3
  <2>3. CASE k \in i..n-1 /\ asked2[k].copy # None /\ ~asked2[k].older
    <3>1. PICK j : j = k + 1
      OBVIOUS
    <3>2. f[k] = j /\ j \in 1..n /\ k \in 1..n-1 /\ k \in Nat /\ k >= i
      BY <1>1, <2>3, <3>1
    <3>3. asked2[k].copy = asked[j].copy /\ (asked[j].older => asked2[k].older)
      BY <1>1, <2>3, <3>1
    <3>4. j \in LooksOf(asked, data)
      BY <2>3, <3>2, <3>3 DEF LooksOf, n
    <3>5. LogsOf(asked, data, log)[j] = asked[j].copy.log /\ LogsOf(asked2, data2, log)[k] = asked2[k].copy.log
      BY <1>1, <2>3, <3>2 DEF LogsOf, n
    <3> QED BY <2>3, <3>2, <3>3, <3>4, <3>5
  <2> QED BY <1>2, <2>1, <2>2, <2>3
<1>4. ASSUME NEW k \in K2, NEW m \in K2, k <= m
      PROVE  f[k] <= f[m]
  <2>1. (k = 0 \/ (k \in Nat /\ k >= i)) /\ (m = 0 \/ (m \in Nat /\ m >= i))
    BY <1>3
  <2>2. f[k] = (IF k = 0 THEN i ELSE k + 1) /\ f[m] = (IF m = 0 THEN i ELSE m + 1)
    OBVIOUS
  <2> HIDE DEF f, K2
  <2> QED BY <1>1, <1>4, <2>1, <2>2
<1>5. f = [k \in K2 |-> f[k]]
  OBVIOUS
<1> HIDE DEF f, K2, data2
<1>6. LooksInOrder(asked2, data2, log, called, made)
  BY Zenon, <1>d, <1>3, <1>4, <1>5, LooksKept DEF K2
<1> QED BY Zenon, <1>6 DEF data2

\* A request is served; none asked later has seen anything else.
LEMMA LookServed ==
    ASSUME NEW asked \in LookList, NEW data \in LookData \cup {None}, NEW log \in Seq(PlayRecord),
           NEW called, NEW made, LooksInOrder(asked, data, log, called, made),
           NEW i \in 1..Len(asked), NEW asked2 \in LookList, Len(asked2) = Len(asked),
           \A k \in 1..Len(asked) : k # i => asked2[k] = asked[k],
           asked2[i].copy.log = log,
           \A k \in i+1..Len(asked) : asked[k].copy = None \/ asked[k].copy.log = log
    PROVE  LooksInOrder(asked2, data, log, called, made)
<1> DEFINE n == Len(asked)
           K2 == LooksOf(asked2, data)
           f == [k \in K2 |-> IF k < i THEN k ELSE n + 1]
<1>1. n \in Nat /\ Len(asked2) = n /\ i \in 1..n /\ i \in Nat
  BY DEF LookList
<1> HIDE DEF n
<1>2. ASSUME NEW k \in K2
      PROVE  \/ k = n + 1
             \/ k = 0 /\ data # None
             \/ k \in 1..n /\ asked2[k].copy # None /\ ~asked2[k].older
  BY <1>1 DEF LooksOf
<1>t. n + 1 \in LooksOf(asked, data) /\ LogsOf(asked, data, log)[n + 1] = log
  BY <1>1 DEF LooksOf, LogsOf, n
<1>3. ASSUME NEW k \in K2
      PROVE  /\ f[k] \in LooksOf(asked, data)
             /\ LogsOf(asked2, data, log)[k] = LogsOf(asked, data, log)[f[k]]
             /\ k \in Nat /\ k <= n + 1
  <2>1. CASE k = n + 1
    <3>1. f[k] = n + 1
      BY <1>1, <2>1
    <3>2. LogsOf(asked2, data, log)[n + 1] = log
      BY <1>1 DEF LogsOf, n
    <3> QED BY <1>1, <1>t, <2>1, <3>1, <3>2
  <2>2. CASE k = 0 /\ data # None
    <3>1. f[k] = 0
      BY <1>1, <2>2
    <3>2. 0 \in LooksOf(asked, data)
      BY <2>2 DEF LooksOf
    <3>3. LogsOf(asked, data, log)[0] = data.log /\ LogsOf(asked2, data, log)[0] = data.log
      BY <1>1 DEF LogsOf, n
    <3> QED BY <1>1, <2>2, <3>1, <3>2, <3>3
  <2>3. CASE k \in 1..n /\ asked2[k].copy # None /\ ~asked2[k].older /\ k < i
    <3>1. f[k] = k /\ asked2[k] = asked[k] /\ k \in Nat /\ k <= n + 1
      BY <1>1, <2>3 DEF n
    <3>2. k \in LooksOf(asked, data)
      BY <2>3, <3>1 DEF LooksOf, n
    <3>3. LogsOf(asked, data, log)[k] = asked[k].copy.log /\ LogsOf(asked2, data, log)[k] = asked2[k].copy.log
      BY <1>1, <2>3 DEF LogsOf, n
    <3> QED BY <3>1, <3>2, <3>3
  <2>4. CASE k \in 1..n /\ asked2[k].copy # None /\ ~(k < i)
    <3>1. f[k] = n + 1 /\ k \in Nat /\ k <= n + 1
      BY <1>1, <2>4
    <3>2. asked2[k].copy.log = log
      <4>1. CASE k = i
        BY <4>1
      <4>2. CASE k # i
        <5>1. k \in i+1..n /\ asked2[k] = asked[k]
          BY <1>1, <2>4, <4>2 DEF n
        <5> QED BY <2>4, <5>1 DEF n
      <4> QED BY <4>1, <4>2
    <3>3. LogsOf(asked2, data, log)[k] = asked2[k].copy.log
      BY <1>1, <2>4 DEF LogsOf, n
    <3> QED BY <1>t, <3>1, <3>2, <3>3
  <2> QED BY <1>2, <2>1, <2>2, <2>3, <2>4
<1>4. ASSUME NEW k \in K2, NEW m \in K2, k <= m
      PROVE  f[k] <= f[m]
  <2>1. k \in Nat /\ m \in Nat /\ k <= n + 1 /\ m <= n + 1
    BY <1>3
  <2>2. f[k] = (IF k < i THEN k ELSE n + 1) /\ f[m] = (IF m < i THEN m ELSE n + 1)
    OBVIOUS
  <2> HIDE DEF f, K2
  <2> QED BY <1>1, <1>4, <2>1, <2>2
<1>5. f = [k \in K2 |-> f[k]]
  OBVIOUS
<1> HIDE DEF f, K2
<1>6. LooksInOrder(asked2, data, log, called, made)
  BY Zenon, <1>3, <1>4, <1>5, LooksKept DEF K2
<1> QED BY <1>6

\* The match goes on, or a play of it is taken back.
LEMMA MatchGoesOn ==
    ASSUME NEW asked \in LookList, NEW data \in LookData \cup {None}, NEW log \in Seq(PlayRecord),
           NEW called \in SUBSET PlayRecord, NEW made \in Nat, LooksInOrder(asked, data, log, called, made),
           NEW new \in PlayRecord, new.n = made + 1
    PROVE  LooksInOrder(asked, data, Append(log, new), called, made + 1)
<1> DEFINE log2 == Append(log, new)
<1>1. PICK K : K = LooksOf(asked, data)
  OBVIOUS
<1>2. PICK L : L = LogsOf(asked, data, log)
  OBVIOUS
<1>3. PICK L2 : L2 = LogsOf(asked, data, log2)
  OBVIOUS
<1>4. PICK top : top = Len(asked) + 1
  OBVIOUS
<1>5. /\ K \in SUBSET Nat /\ top \in K /\ \A k \in K : k <= top
      /\ \A k \in K : L[k] \in Seq(PlayRecord)
  BY Zenon, <1>1, <1>2, <1>4, LooksTyped
<1>6. L[top] = log /\ L2[top] = log2 /\ \A k \in K \ {top} : L2[k] = L[k]
  BY <1>1, <1>2, <1>3, <1>4, <1>5 DEF LooksOf, LogsOf, LookList
<1>7. OneOrder(K, L, called, made)
  BY Zenon, <1>1, <1>2 DEF LooksInOrder
<1>8. L[top] \in Seq(PlayRecord) /\ L2[top] = Append(L[top], new)
  BY <1>6
<1> HIDE DEF log2
<1>9. OneOrder(K, L2, called, made + 1)
  BY <1>5, <1>6, <1>7, <1>8, PlayRecorded
<1>10. LooksInOrder(asked, data, log2, called, made + 1)
  BY Zenon, <1>1, <1>3, <1>9 DEF LooksInOrder
<1> QED BY <1>10 DEF log2

LEMMA MatchGoesBack ==
    ASSUME NEW asked \in LookList, NEW data \in LookData \cup {None}, NEW log \in Seq(PlayRecord),
           NEW called, NEW made \in Nat, LooksInOrder(asked, data, log, called, made),
           NEW log2, \A j \in DOMAIN log2 : j \in DOMAIN log /\ log2[j] = log[j]
    PROVE  LooksInOrder(asked, data, log2, called, made)
<1>1. PICK K : K = LooksOf(asked, data)
  OBVIOUS
<1>2. PICK L : L = LogsOf(asked, data, log)
  OBVIOUS
<1>3. PICK L2 : L2 = LogsOf(asked, data, log2)
  OBVIOUS
<1>4. PICK top : top = Len(asked) + 1
  OBVIOUS
<1>5. K \in SUBSET Nat /\ top \in K /\ \A k \in K : k <= top
  BY Zenon, <1>1, <1>4, LooksTyped
<1>6. L[top] = log /\ L2[top] = log2 /\ \A k \in K \ {top} : L2[k] = L[k]
  BY <1>1, <1>2, <1>3, <1>4, <1>5 DEF LooksOf, LogsOf, LookList
<1>7. OneOrder(K, L, called, made)
  BY Zenon, <1>1, <1>2 DEF LooksInOrder
<1>8. \A j \in DOMAIN L2[top] : j \in DOMAIN L[top] /\ L2[top][j] = L[top][j]
  BY Zenon, <1>6
<1>9. OneOrder(K, L2, called, made)
  BY <1>5, <1>6, <1>7, <1>8, PlayUndone
<1> QED BY Zenon, <1>1, <1>3, <1>9 DEF LooksInOrder

\* What came on show with one play more than before: that play is new, and is called.
LEMMA NewestIsNew ==
    ASSUME NEW asked \in LookList, NEW data \in LookData, data # None, NEW log \in Seq(PlayRecord),
           NEW called, NEW made, LooksInOrder(asked, data, log, called, made),
           NEW i \in 1..Len(asked), asked[i].copy # None, ~asked[i].older,
           Len(asked[i].copy.log) = Len(data.log) + 1
    PROVE  asked[i].copy.log[Len(asked[i].copy.log)] \notin called
<1>1. PICK K : K = LooksOf(asked, data)
  OBVIOUS
<1>2. PICK L : L = LogsOf(asked, data, log)
  OBVIOUS
<1>3. 0 \in K /\ i \in K /\ i \in Nat /\ 0 <= i
  BY <1>1 DEF LooksOf, LookList
<1>4. L[0] = data.log /\ L[i] = asked[i].copy.log
  BY <1>2 DEF LogsOf, LookList
<1>5. K \in SUBSET Nat /\ \A k \in K : L[k] \in Seq(PlayRecord)
  BY Zenon, <1>1, <1>2, LooksTyped
<1>6. OneOrder(K, L, called, made)
  BY Zenon, <1>1, <1>2 DEF LooksInOrder
<1>7. L[i][Len(L[i])] \notin called
  <2>1. L[0] \in Seq(PlayRecord) /\ L[i] \in Seq(PlayRecord) /\ Len(L[i]) = Len(L[0]) + 1
    BY <1>3, <1>4, <1>5
  <2> QED BY <1>3, <1>6, <2>1, NotCalledYet
<1> QED BY <1>4, <1>7

LEMMA NewestCalled ==
    ASSUME NEW asked \in LookList, NEW data \in LookData, data # None, NEW log \in Seq(PlayRecord),
           NEW called, NEW made, LooksInOrder(asked, data, log, called, made),
           data.log # <<>>
    PROVE  LooksInOrder(asked, data, log, called \cup {data.log[Len(data.log)]}, made)
<1>1. PICK K : K = LooksOf(asked, data)
  OBVIOUS
<1>2. PICK L : L = LogsOf(asked, data, log)
  OBVIOUS
<1>3. 0 \in K
  BY <1>1 DEF LooksOf, LookList
<1>4. L[0] = data.log
  BY <1>2 DEF LogsOf, LookList
<1>5. K \in SUBSET Nat
  BY Zenon, <1>1, LooksTyped
<1>6. OneOrder(K, L, called, made)
  BY Zenon, <1>1, <1>2 DEF LooksInOrder
<1>7. PICK x : x = data.log[Len(data.log)]
  OBVIOUS
<1>8. x \in PlaysOf(L[0])
  <2>1. data.log \in Seq(PlayRecord)
    BY DEF LookData
  <2>2. Len(data.log) \in DOMAIN data.log
    BY <2>1
  <2> QED BY <1>4, <1>7, <2>2 DEF PlaysOf
<1>9. \A m \in K : 0 <= m
  BY <1>5
<1>10. OneOrder(K, L, called \cup {x}, made)
  BY <1>3, <1>5, <1>6, <1>8, <1>9, PlayCalled
<1> QED BY Zenon, <1>1, <1>2, <1>7, <1>10 DEF LooksInOrder

-----------------------------------------------------------------------------
BoardFields == {"at", "data", "asked", "socket", "heard", "flash", "flipping", "timers", "ending"}
MatchFields == {"log", "made", "stage", "toss", "turns"}
CallFields == {"called", "again", "crossed"}

BoardTyped ==
    /\ api = [f \in MatchFields |-> api[f]]
    /\ api.log \in Seq(PlayRecord) /\ api.made \in Nat /\ api.stage \in StageNames
    /\ page = [f \in BoardFields |-> page[f]] /\ page.at = "board"
    /\ page.asked \in LookList /\ page.data \in LookData \cup {None}
    /\ told = [f \in CallFields |-> told[f]]
    /\ told.called \in SUBSET PlayRecord /\ told.again \in BOOLEAN /\ told.crossed \in BOOLEAN

CalledInOrder ==
    ~told.crossed =>
        ~told.again /\ LooksInOrder(page.asked, page.data, api.log, told.called, api.made)

BoardInv == BoardTyped /\ CalledInOrder

LEMMA PageAsks ==
    ASSUME BoardInv, UNCHANGED <<api, told>>,
           page' = [f \in BoardFields |-> page'[f]], page'.at = "board", page'.data = page.data,
           \/ page'.asked = page.asked
           \/ \E stops \in BOOLEAN : page'.asked = Append(page.asked, Question(stops))
    PROVE  BoardInv'
<1>1. page.asked \in LookList /\ page.data \in LookData \cup {None} /\ api.log \in Seq(PlayRecord)
  BY DEF BoardInv, BoardTyped
<1>2. PICK new : /\ new \in {Question(TRUE), Question(FALSE)}
                 /\ page'.asked = page.asked \/ page'.asked = Append(page.asked, new)
  OBVIOUS
<1>3. new \in LookAsked /\ new.copy = None
  <2>1. ASSUME NEW b \in BOOLEAN PROVE Question(b) \in LookAsked /\ Question(b).copy = None
    BY DEF LookAsked, Question
  <2> QED BY Zenon, <1>2, <2>1
<1>4. page'.asked \in LookList
  <2>1. PICK s : s = Append(page.asked, new)
    OBVIOUS
  <2>2. s \in LookList
    BY <1>1, <1>3, <2>1 DEF LookList
  <2>3. page'.asked = page.asked \/ page'.asked = s
    BY Zenon, <1>2, <2>1
  <2> QED BY Zenon, <1>1, <2>2, <2>3
<1>5. BoardTyped'
  BY <1>4 DEF BoardInv, BoardTyped
<1>6. ASSUME ~told.crossed
      PROVE  ~told.again /\ LooksInOrder(page'.asked, page.data, api.log, told.called, api.made)
  <2>1. ~told.again /\ LooksInOrder(page.asked, page.data, api.log, told.called, api.made)
    BY <1>6 DEF BoardInv, CalledInOrder
  <2>2. CASE page'.asked = page.asked
    BY Zenon, <2>1, <2>2
  <2>3. CASE page'.asked = Append(page.asked, new)
    BY <1>1, <1>3, <2>1, <2>3, AskedMore
  <2> QED BY <1>2, <2>2, <2>3
<1>7. CalledInOrder'
  BY <1>6 DEF CalledInOrder
<1> QED BY <1>5, <1>7 DEF BoardInv

LEMMA HandsOffOk ==
    ASSUME BoardInv,
           \/ SocketOpens \/ Subscribed \/ SocketCloses \/ BoardPolls \/ FlashCleared
           \/ CoinSpun \/ ItemExpires \/ \E c \in calls : BoardMessage(c)
    PROVE  BoardInv'
<1> DEFINE new == Question(FALSE)
<1>1. page = [f \in BoardFields |-> page[f]] /\ page.at = "board" /\ page.asked \in LookList
  BY DEF BoardInv, BoardTyped
<1>2. ASSUME NEW p, p = [f \in BoardFields |-> p[f]], p.at = "board", p.data = page.data, p.asked = page.asked,
             page' = Asked(p), UNCHANGED <<api, told>>
      PROVE  BoardInv'
  <2>1. /\ page' = [f \in BoardFields |-> page'[f]] /\ page'.at = "board" /\ page'.data = page.data
        /\ page'.asked = page.asked \/ page'.asked = Append(page.asked, new)
    BY <1>2 DEF Asked, BoardFields
  <2> QED BY <1>2, <2>1, PageAsks
<1>3. ASSUME page' = [f \in BoardFields |-> page'[f]], page'.at = "board", page'.data = page.data,
             page'.asked = page.asked, UNCHANGED <<api, told>>
      PROVE  BoardInv'
  BY <1>3, PageAsks
<1>4. CASE SocketOpens
  <2>1. PICK p : p = [page EXCEPT !.socket = "up"]
    OBVIOUS
  <2>2. p = [f \in BoardFields |-> p[f]] /\ p.at = "board" /\ p.data = page.data /\ p.asked = page.asked
    BY <1>1, <2>1 DEF BoardFields
  <2>3. page' = Asked(p) /\ UNCHANGED <<api, told>>
    BY <1>4, <2>1 DEF SocketOpens, PageOnly
  <2> QED BY <1>2, <2>2, <2>3
<1>5. CASE BoardPolls
  BY <1>1, <1>2, <1>5 DEF BoardPolls, PageOnly
<1>6. CASE Subscribed \/ SocketCloses \/ FlashCleared
  <2>1. /\ page' = [f \in BoardFields |-> page'[f]] /\ page'.at = "board" /\ page'.data = page.data
        /\ page'.asked = page.asked /\ UNCHANGED <<api, told>>
    BY <1>1, <1>6 DEF Subscribed, SocketCloses, FlashCleared, PageOnly, BoardFields
  <2> QED BY <1>3, <2>1
<1>7. CASE CoinSpun
  <2>1. PICK asked : asked = Append(page.asked, Question(TRUE))
    OBVIOUS
  <2>2. page' = [page EXCEPT !.timers = @ - 1, !.asked = asked] /\ UNCHANGED <<api, told>>
    BY <1>7, <2>1 DEF CoinSpun, PageOnly
  <2>3. /\ page' = [f \in BoardFields |-> page'[f]] /\ page'.at = "board" /\ page'.data = page.data
        /\ page'.asked = asked
    BY <1>1, <2>2 DEF BoardFields
  <2> QED BY <2>1, <2>2, <2>3, PageAsks
<1>8. CASE ItemExpires
  <2>1. PICK p : p = [page EXCEPT !.ending = FALSE]
    OBVIOUS
  <2>2. p = [f \in BoardFields |-> p[f]] /\ p.at = "board" /\ p.data = page.data /\ p.asked = page.asked
    BY <1>1, <2>1 DEF BoardFields
  <2>3. page' = Asked(p) /\ UNCHANGED <<api, told>>
    BY <1>8, <2>1 DEF ItemExpires, PageOnly
  <2> QED BY <1>2, <2>2, <2>3
<1>9. CASE \E c \in calls : BoardMessage(c)
  <2>1. PICK p : p = [page EXCEPT !.flipping = FALSE]
    OBVIOUS
  <2>2. PICK q : q = [page EXCEPT !.flipping = TRUE, !.timers = @ + 1]
    OBVIOUS
  <2>3. /\ page' = q \/ page' = Asked(p) \/ page' = Asked(page)
        /\ UNCHANGED <<api, told>>
    BY <1>9, <2>1, <2>2 DEF BoardMessage
  <2>4. p = [f \in BoardFields |-> p[f]] /\ p.at = "board" /\ p.data = page.data /\ p.asked = page.asked
    BY <1>1, <2>1 DEF BoardFields
  <2>5. q = [f \in BoardFields |-> q[f]] /\ q.at = "board" /\ q.data = page.data /\ q.asked = page.asked
    BY <1>1, <2>2 DEF BoardFields
  <2>6. CASE page' = q
    BY <1>3, <2>3, <2>5, <2>6
  <2>7. CASE page' = Asked(p)
    BY <1>2, <2>3, <2>4, <2>7
  <2>8. CASE page' = Asked(page)
    BY <1>1, <1>2, <2>3, <2>8
  <2> QED BY <2>3, <2>6, <2>7, <2>8
<1> QED BY <1>4, <1>5, <1>6, <1>7, <1>8, <1>9

\* The match changes; the display has not looked yet.
LEMMA MatchMoves ==
    ASSUME BoardInv, UNCHANGED <<page, told>>, api' = [f \in MatchFields |-> api'[f]],
           api'.log \in Seq(PlayRecord), api'.made \in Nat, api'.stage \in StageNames,
           LooksInOrder(page.asked, page.data, api.log, told.called, api.made) =>
               LooksInOrder(page.asked, page.data, api'.log, told.called, api'.made)
    PROVE  BoardInv'
<1>1. BoardTyped'
  BY DEF BoardInv, BoardTyped
<1>2. CalledInOrder'
  BY DEF BoardInv, CalledInOrder
<1> QED BY <1>1, <1>2 DEF BoardInv

LEMMA MatchOk ==
    ASSUME BoardInv,
           \/ \E w \in Play : RecordPlay(w)
           \/ \E stage \in Directed \cup {"auto"} : DirectScreen(stage)
           \/ UndoPlay \/ ItemEnds \/ TossCalled \/ TossDecided \/ TossReset
    PROVE  BoardInv'
<1>1. /\ api = [f \in MatchFields |-> api[f]] /\ api.log \in Seq(PlayRecord) /\ api.made \in Nat
      /\ api.stage \in StageNames /\ page.asked \in LookList /\ page.data \in LookData \cup {None}
      /\ told.called \in SUBSET PlayRecord
  BY DEF BoardInv, BoardTyped
<1>2. CASE \E w \in Play : RecordPlay(w)
  <2>1. PICK w \in Play : RecordPlay(w)
    BY <1>2
  <2>2. PICK new : new = [n |-> api.made + 1, what |-> w]
    OBVIOUS
  <2>3. new \in PlayRecord /\ new.n = api.made + 1
    BY <1>1, <2>2 DEF PlayRecord
  <2>4. /\ api' = [f \in MatchFields |-> api'[f]] /\ api'.log = Append(api.log, new)
        /\ api'.made = api.made + 1 /\ api'.stage \in StageNames /\ UNCHANGED <<page, told>>
    <3>1. PICK mid : mid = [api EXCEPT !.log = Append(@, new), !.made = @ + 1]
      OBVIOUS
    <3>2. api' = Live(mid) /\ UNCHANGED <<page, told>>
      BY Zenon, <2>1, <2>2, <3>1 DEF RecordPlay
    <3>3. /\ mid = [f \in MatchFields |-> mid[f]] /\ mid.log = Append(api.log, new)
          /\ mid.made = api.made + 1 /\ mid.stage = api.stage
      BY <1>1, <3>1 DEF MatchFields
    <3>4. PICK stage : stage = IF mid.stage \in Directed THEN "auto" ELSE mid.stage
      OBVIOUS
    <3>5. api' = [mid EXCEPT !.stage = stage]
      BY Zenon, <3>2, <3>4 DEF Live
    <3>6. /\ api' = [f \in MatchFields |-> api'[f]] /\ api'.log = mid.log
          /\ api'.made = mid.made /\ api'.stage = stage
      BY <3>3, <3>5 DEF MatchFields
    <3>7. stage \in StageNames
      BY <1>1, <3>3, <3>4 DEF StageNames
    <3> QED BY Zenon, <3>2, <3>3, <3>6, <3>7
  <2>5. api'.log \in Seq(PlayRecord) /\ api'.made \in Nat
    BY <1>1, <2>3, <2>4
  <2>6. LooksInOrder(page.asked, page.data, api.log, told.called, api.made) =>
            LooksInOrder(page.asked, page.data, Append(api.log, new), told.called, api.made + 1)
    BY <1>1, <2>3, MatchGoesOn
  <2>7. LooksInOrder(page.asked, page.data, api.log, told.called, api.made) =>
            LooksInOrder(page.asked, page.data, api'.log, told.called, api'.made)
    BY Zenon, <2>4, <2>6
  <2> QED BY <2>4, <2>5, <2>7, MatchMoves
<1>3. CASE UndoPlay
  <2>1. PICK log : log = SubSeq(api.log, 1, Len(api.log) - 1)
    OBVIOUS
  <2>2. log \in Seq(PlayRecord) /\ \A j \in DOMAIN log : j \in DOMAIN api.log /\ log[j] = api.log[j]
    BY <1>1, <2>1
  <2>3. /\ api' = [f \in MatchFields |-> api'[f]] /\ api'.log = log
        /\ api'.made = api.made /\ api'.stage \in StageNames /\ UNCHANGED <<page, told>>
    BY <1>1, <1>3, <2>1 DEF UndoPlay, MatchFields
  <2>4. LooksInOrder(page.asked, page.data, api.log, told.called, api.made) =>
            LooksInOrder(page.asked, page.data, log, told.called, api.made)
    BY <1>1, <2>2, MatchGoesBack
  <2>5. LooksInOrder(page.asked, page.data, api.log, told.called, api.made) =>
            LooksInOrder(page.asked, page.data, api'.log, told.called, api'.made)
    BY Zenon, <2>3, <2>4
  <2> QED BY <1>1, <2>2, <2>3, <2>5, MatchMoves
<1>4. CASE \/ \E stage \in Directed \cup {"auto"} : DirectScreen(stage)
           \/ ItemEnds \/ TossCalled \/ TossDecided \/ TossReset
  <2>1. /\ api' = [f \in MatchFields |-> api'[f]] /\ api'.log = api.log /\ api'.made = api.made
        /\ api'.stage \in StageNames /\ UNCHANGED <<page, told>>
    <3>1. CASE \E stage \in Directed \cup {"auto"} : DirectScreen(stage)
      <4>1. PICK stage \in Directed \cup {"auto"} : DirectScreen(stage)
        BY <3>1
      <4>2. PICK turns : turns = api.turns + 1
        OBVIOUS
      <4>3. api' = [api EXCEPT !.stage = stage, !.turns = turns] /\ UNCHANGED <<page, told>>
        BY Zenon, <4>1, <4>2 DEF DirectScreen
      <4>4. stage \in StageNames
        BY DEF StageNames, Directed
      <4> QED BY <1>1, <4>3, <4>4 DEF MatchFields
    <3>2. CASE ItemEnds
      <4>1. "auto" \in StageNames
        BY DEF StageNames
      <4> QED BY <1>1, <3>2, <4>1 DEF ItemEnds, MatchFields
    <3>3. CASE TossCalled
      BY <1>1, <3>3 DEF TossCalled, MatchFields
    <3>4. CASE TossDecided \/ TossReset
      <4>1. "toss" \in StageNames /\ "lineups" \in StageNames
        BY DEF StageNames
      <4> QED BY <1>1, <3>4, <4>1 DEF TossDecided, TossReset, MatchFields
    <3> QED BY <1>4, <3>1, <3>2, <3>3, <3>4
  <2>2. LooksInOrder(page.asked, page.data, api.log, told.called, api.made) =>
            LooksInOrder(page.asked, page.data, api'.log, told.called, api'.made)
    BY Zenon, <2>1
  <2> QED BY <1>1, <2>1, <2>2, MatchMoves
<1> QED BY <1>2, <1>3, <1>4

LEMMA ConcatAsked ==
    ASSUME NEW a \in Seq(LookAsked), NEW b \in Seq(LookAsked)
    PROVE  a \o b \in Seq(LookAsked) /\ Len(a \o b) = Len(a) + Len(b)
OBVIOUS

LEMMA WithoutPlaces ==
    ASSUME NEW s \in LookList, NEW i \in 1..Len(s)
    PROVE  /\ Without(s, i) \in LookList /\ Len(Without(s, i)) = Len(s) - 1
           /\ \A k \in 1..Len(s) - 1 : Without(s, i)[k] = IF k < i THEN s[k] ELSE s[k + 1]
<1>1. Len(s) \in Nat /\ i \in Nat
  BY DEF LookList
<1>2. PICK a : a = SubSeq(s, 1, i - 1)
  OBVIOUS
<1>3. PICK b : b = SubSeq(s, i + 1, Len(s))
  OBVIOUS
<1>4. /\ a \in Seq(LookAsked) /\ Len(a) = i - 1 /\ \A k \in 1..i - 1 : a[k] = s[k]
  BY <1>1, <1>2 DEF LookList
<1>5. /\ b \in Seq(LookAsked) /\ Len(b) = Len(s) - i /\ \A k \in 1..Len(s) - i : b[k] = s[k + i]
  BY <1>1, <1>3 DEF LookList
<1>6. Without(s, i) = a \o b
  BY Zenon, <1>2, <1>3 DEF Without
<1>7. Without(s, i) \in LookList /\ Len(Without(s, i)) = Len(s) - 1
  <2>1. a \o b \in Seq(LookAsked) /\ Len(a \o b) = Len(a) + Len(b)
    BY Zenon, <1>4, <1>5, ConcatAsked
  <2>2. Len(a) + Len(b) = Len(s) - 1
    BY <1>1, <1>4, <1>5
  <2> QED BY <1>6, <2>1, <2>2 DEF LookList
<1>8. ASSUME NEW k \in 1..Len(s) - 1
      PROVE  Without(s, i)[k] = IF k < i THEN s[k] ELSE s[k + 1]
  <2>1. CASE k < i
    <3>1. (a \o b)[k] = a[k]
      BY <1>1, <1>4, <1>5, <2>1
    <3> QED BY <1>1, <1>4, <1>6, <2>1, <3>1
  <2>2. CASE ~(k < i)
    <3>1. PICK m : m = k - (i - 1)
      OBVIOUS
    <3>2. m \in 1..Len(s) - i /\ m + i = k + 1
      BY <1>1, <2>2, <3>1
    <3>3. (a \o b)[k] = b[m]
      BY <1>1, <1>4, <1>5, <2>2, <3>1
    <3>4. b[m] = s[k + 1]
      BY <1>5, <3>2
    <3> QED BY <1>6, <2>2, <3>3, <3>4
  <2> QED BY <2>1, <2>2
<1> QED BY <1>7, <1>8

LEMMA LaterPlaces ==
    ASSUME page.asked \in LookList, NEW i \in 1..Len(page.asked)
    PROVE  /\ LaterAnswers(i) \in LookList /\ Len(LaterAnswers(i)) = Len(page.asked) - 1
           /\ \A k \in 1..Len(page.asked) - 1 :
                  LET j == IF k < i THEN k ELSE k + 1
                  IN  /\ LaterAnswers(i)[k].copy = page.asked[j].copy
                      /\ page.asked[j].older => LaterAnswers(i)[k].older
                      /\ k < i => LaterAnswers(i)[k].older
<1> DEFINE Late(k) == [page.asked[k] EXCEPT !.older = @ \/ k < i]
<1>1. PICK s : s = [k \in DOMAIN page.asked |-> Late(k)]
  OBVIOUS
<1>2. ASSUME NEW k \in 1..Len(page.asked)
      PROVE  /\ Late(k) \in LookAsked /\ Late(k).copy = page.asked[k].copy
             /\ page.asked[k].older => Late(k).older
             /\ k < i => Late(k).older
  <2>1. PICK r : r = page.asked[k]
    OBVIOUS
  <2>2. r \in LookAsked
    BY <2>1 DEF LookList
  <2>3. PICK late : late = (r.older \/ k < i)
    OBVIOUS
  <2>4. late \in BOOLEAN /\ (r.older => late) /\ (k < i => late)
    BY <2>3
  <2>5. Late(k) = [r EXCEPT !.older = late]
    BY Zenon, <2>1, <2>3
  <2> HIDE DEF Late
  <2>6. Late(k) \in LookAsked /\ Late(k).copy = r.copy /\ Late(k).older = late
    BY <2>2, <2>4, <2>5 DEF LookAsked
  <2> QED BY <2>1, <2>4, <2>6
<1>3. LaterAnswers(i) = Without(s, i)
  BY Zenon, <1>1 DEF LaterAnswers
<1> HIDE DEF Late
<1>4. DOMAIN page.asked = 1..Len(page.asked) /\ Len(page.asked) \in Nat
  BY DEF LookList
<1>5. s \in LookList /\ Len(s) = Len(page.asked) /\ \A k \in 1..Len(s) : s[k] = Late(k)
  BY <1>1, <1>2, <1>4 DEF LookList
<1>6. /\ LaterAnswers(i) \in LookList /\ Len(LaterAnswers(i)) = Len(page.asked) - 1
      /\ \A k \in 1..Len(page.asked) - 1 : LaterAnswers(i)[k] = IF k < i THEN s[k] ELSE s[k + 1]
  <2>1. s \in LookList /\ i \in 1..Len(s)
    BY <1>5
  <2>2. /\ Without(s, i) \in LookList /\ Len(Without(s, i)) = Len(s) - 1
        /\ \A k \in 1..Len(s) - 1 : Without(s, i)[k] = IF k < i THEN s[k] ELSE s[k + 1]
    BY Zenon, <2>1, WithoutPlaces
  <2> QED BY Zenon, <1>3, <1>5, <2>2
<1>7. ASSUME NEW k \in 1..Len(page.asked) - 1, NEW j, j = IF k < i THEN k ELSE k + 1
      PROVE  /\ LaterAnswers(i)[k].copy = page.asked[j].copy
             /\ page.asked[j].older => LaterAnswers(i)[k].older
             /\ k < i => LaterAnswers(i)[k].older
  <2>1. j \in 1..Len(page.asked) /\ (k < i => j = k)
    BY <1>4, <1>7
  <2>2. LaterAnswers(i)[k] = Late(j)
    BY <1>5, <1>6, <1>7, <2>1
  <2> QED BY <1>2, <2>1, <2>2
<1> QED BY <1>6, <1>7

LEMMA ServeOk ==
    ASSUME BoardInv, NEW i \in DOMAIN page.asked, Serve(i)
    PROVE  BoardInv'
<1>1. /\ page = [f \in BoardFields |-> page[f]] /\ page.at = "board" /\ page.asked \in LookList
      /\ page.data \in LookData \cup {None} /\ api.log \in Seq(PlayRecord) /\ api.stage \in StageNames
      /\ told = [f \in CallFields |-> told[f]] /\ told.crossed \in BOOLEAN
  BY DEF BoardInv, BoardTyped
<1>2. i \in 1..Len(page.asked) /\ Len(page.asked) \in Nat
  BY <1>1 DEF LookList
<1>3. PICK now : now = BoardData
  OBVIOUS
<1>4. now \in LookData /\ now.log = api.log
  <2>1. ResolvedStage \in StageNames
    BY <1>1 DEF ResolvedStage, StageNames
  <2> QED BY <1>1, <1>3, <2>1 DEF BoardData, LookData
<1>5. PICK r : r = [page.asked[i] EXCEPT !.copy = now]
  OBVIOUS
<1>6. PICK asked : asked = [page.asked EXCEPT ![i] = r]
  OBVIOUS
<1>7. page' = [page EXCEPT !.asked = asked]
  <2>1. page' = [page EXCEPT !.asked = [page.asked EXCEPT ![i] = [page.asked[i] EXCEPT !.copy = now]]]
    BY <1>3 DEF Serve
  <2> QED BY Zenon, <1>5, <1>6, <2>1
<1>8. r \in LookAsked /\ r.copy = now
  <2>1. page.asked[i] \in LookAsked
    BY <1>1, <1>2 DEF LookList
  <2> QED BY <1>4, <1>5, <2>1 DEF LookAsked
<1>9. /\ asked \in LookList /\ Len(asked) = Len(page.asked) /\ asked[i] = r
      /\ \A k \in 1..Len(page.asked) : k # i => asked[k] = page.asked[k]
  BY <1>1, <1>2, <1>6, <1>8 DEF LookList
<1>10. /\ page' = [f \in BoardFields |-> page'[f]] /\ page'.at = "board" /\ page'.asked = asked
       /\ page'.data = page.data
  BY <1>1, <1>7 DEF BoardFields
<1>11. PICK crossed : crossed = (told.crossed \/ \E k \in i+1..Len(page.asked) : page.asked[k].copy \notin {None, now})
  OBVIOUS
<1>12. told' = [told EXCEPT !.crossed = crossed] /\ UNCHANGED api
  BY Zenon, <1>3, <1>11 DEF Serve
<1>13. crossed \in BOOLEAN
  BY <1>11
<1>14. /\ told' = [f \in CallFields |-> told'[f]] /\ told'.crossed = crossed
       /\ told'.called = told.called /\ told'.again = told.again
  BY <1>1, <1>12, <1>13 DEF CallFields
<1>15. BoardTyped'
  BY <1>9, <1>10, <1>12, <1>13, <1>14 DEF BoardInv, BoardTyped
<1>16. ASSUME ~crossed
       PROVE  ~told.again /\ LooksInOrder(asked, page.data, api.log, told.called, api.made)
  <2>1. ~told.crossed /\ \A k \in i+1..Len(page.asked) : page.asked[k].copy = None \/ page.asked[k].copy = now
    BY <1>11, <1>16
  <2>2. ~told.again /\ LooksInOrder(page.asked, page.data, api.log, told.called, api.made)
    BY <2>1 DEF BoardInv, CalledInOrder
  <2>3. asked[i].copy.log = api.log
    BY <1>4, <1>8, <1>9
  <2>4. \A k \in i+1..Len(page.asked) : page.asked[k].copy = None \/ page.asked[k].copy.log = api.log
    BY Zenon, <1>4, <2>1
  <2> QED BY Zenon, <1>1, <1>2, <1>9, <2>2, <2>3, <2>4, LookServed
<1>17. CalledInOrder'
  BY <1>10, <1>12, <1>14, <1>16 DEF CalledInOrder
<1> QED BY <1>15, <1>17 DEF BoardInv

LEMMA FetchFailedOk ==
    ASSUME BoardInv, NEW i \in DOMAIN page.asked, ScoreboardFetchFailed(i)
    PROVE  BoardInv'
<1>1. /\ page = [f \in BoardFields |-> page[f]] /\ page.at = "board" /\ page.asked \in LookList
      /\ page.data \in LookData \cup {None} /\ api.log \in Seq(PlayRecord)
  BY DEF BoardInv, BoardTyped
<1>2. i \in 1..Len(page.asked) /\ Len(page.asked) \in Nat
  BY <1>1 DEF LookList
<1>3. PICK asked : asked = Without(page.asked, i)
  OBVIOUS
<1>4. page' = [page EXCEPT !.asked = asked, !.flipping = @ /\ ~page.asked[i].stops]
      /\ UNCHANGED <<api, told>>
  BY <1>3 DEF ScoreboardFetchFailed, PageOnly
<1>5. /\ asked \in LookList /\ Len(asked) = Len(page.asked) - 1
      /\ \A k \in 1..Len(page.asked) - 1 : asked[k] = IF k < i THEN page.asked[k] ELSE page.asked[k + 1]
  BY Zenon, <1>1, <1>2, <1>3, WithoutPlaces
<1>6. \A k \in 1..Len(asked) :
          LET j == IF k < i THEN k ELSE k + 1
          IN  asked[k].copy = page.asked[j].copy /\ (page.asked[j].older => asked[k].older)
  BY <1>5
<1>7. /\ page' = [f \in BoardFields |-> page'[f]] /\ page'.at = "board" /\ page'.asked = asked
      /\ page'.data = page.data
  BY <1>1, <1>4 DEF BoardFields
<1>8. BoardTyped'
  BY <1>4, <1>5, <1>7 DEF BoardInv, BoardTyped
<1>9. ASSUME ~told.crossed
      PROVE  ~told.again /\ LooksInOrder(asked, page.data, api.log, told.called, api.made)
  <2>1. ~told.again /\ LooksInOrder(page.asked, page.data, api.log, told.called, api.made)
    BY <1>9 DEF BoardInv, CalledInOrder
  <2> QED BY <1>1, <1>2, <1>5, <1>6, <2>1, AnswerGone
<1>10. CalledInOrder'
  BY <1>4, <1>7, <1>9 DEF CalledInOrder
<1> QED BY <1>8, <1>10 DEF BoardInv

LEMMA FetchedOk ==
    ASSUME BoardInv, NEW i \in DOMAIN page.asked, ScoreboardFetched(i)
    PROVE  BoardInv'
<1>1. /\ page = [f \in BoardFields |-> page[f]] /\ page.at = "board" /\ page.asked \in LookList
      /\ page.data \in LookData \cup {None} /\ api.log \in Seq(PlayRecord)
      /\ told = [f \in CallFields |-> told[f]] /\ told.called \in SUBSET PlayRecord
      /\ told.again \in BOOLEAN /\ told.crossed \in BOOLEAN
  BY DEF BoardInv, BoardTyped
<1>2. i \in 1..Len(page.asked) /\ Len(page.asked) \in Nat
  BY <1>1 DEF LookList
<1>3. PICK r : r = page.asked[i]
  OBVIOUS
<1>4. PICK copy : copy = r.copy
  OBVIOUS
<1>5. PICK asked : asked = LaterAnswers(i)
  OBVIOUS
<1>6. PICK flash : flash = NewestPlay(page, copy)
  OBVIOUS
<1>7. r \in LookAsked /\ copy # None /\ copy \in LookData
  <2>1. r \in LookAsked
    BY <1>1, <1>2, <1>3 DEF LookList
  <2>2. copy # None
    BY Zenon, <1>3, <1>4 DEF ScoreboardFetched
  <2> QED BY <1>4, <2>1, <2>2 DEF LookAsked
<1>8. /\ asked \in LookList /\ Len(asked) = Len(page.asked) - 1
      /\ \A k \in 1..Len(page.asked) - 1 :
             LET j == IF k < i THEN k ELSE k + 1
             IN  /\ asked[k].copy = page.asked[j].copy
                 /\ page.asked[j].older => asked[k].older
                 /\ k < i => asked[k].older
  BY Zenon, <1>1, <1>2, <1>5, LaterPlaces
<1>9. /\ \A k \in 1..Len(asked) :
             LET j == IF k < i THEN k ELSE k + 1
             IN  asked[k].copy = page.asked[j].copy /\ (page.asked[j].older => asked[k].older)
      /\ \A k \in 1..Len(asked) : k < i => asked[k].older
  BY <1>8
<1>10. CASE r.older
  <2>1. page' = [page EXCEPT !.asked = asked, !.flipping = @ /\ ~r.stops] /\ UNCHANGED <<api, told>>
    BY Zenon, <1>3, <1>5, <1>10 DEF ScoreboardFetched
  <2>2. /\ page' = [f \in BoardFields |-> page'[f]] /\ page'.at = "board" /\ page'.asked = asked
        /\ page'.data = page.data
    BY <1>1, <2>1 DEF BoardFields
  <2>3. BoardTyped'
    BY <1>8, <2>1, <2>2 DEF BoardInv, BoardTyped
  <2>4. ASSUME ~told.crossed
        PROVE  ~told.again /\ LooksInOrder(asked, page.data, api.log, told.called, api.made)
    <3>1. ~told.again /\ LooksInOrder(page.asked, page.data, api.log, told.called, api.made)
      BY <2>4 DEF BoardInv, CalledInOrder
    <3> QED BY <1>1, <1>2, <1>8, <1>9, <3>1, AnswerGone
  <2>5. CalledInOrder'
    BY <2>1, <2>2, <2>4 DEF CalledInOrder
  <2> QED BY <2>3, <2>5 DEF BoardInv
<1>11. CASE ~r.older
  <2>1. PICK shown : shown = IF flash = None THEN page.flash ELSE flash
    OBVIOUS
  <2>2. PICK ending : ending = EndsLater(page, copy)
    OBVIOUS
  <2>3. page' = [page EXCEPT !.asked = asked, !.data = copy, !.flash = shown,
                             !.flipping = @ /\ ~r.stops, !.ending = ending]
    BY Zenon, <1>3, <1>4, <1>5, <1>6, <1>11, <2>1, <2>2 DEF ScoreboardFetched
  <2>4. /\ page' = [f \in BoardFields |-> page'[f]] /\ page'.at = "board" /\ page'.asked = asked
        /\ page'.data = copy
    BY <1>1, <2>3 DEF BoardFields
  <2>5. PICK again : again = (told.again \/ flash \in told.called)
    OBVIOUS
  <2>6. UNCHANGED api /\ told' = IF flash = None THEN told
                                 ELSE [told EXCEPT !.called = @ \cup {flash}, !.again = again]
    BY Zenon, <1>3, <1>4, <1>6, <1>11, <2>5 DEF ScoreboardFetched
  <2>7. flash # None => /\ page.data \in LookData /\ page.data # None
                        /\ Len(copy.log) = Len(page.data.log) + 1
                        /\ flash = copy.log[Len(copy.log)]
    BY <1>1, <1>6 DEF NewestPlay, FlashFor
  <2>8. flash # None => flash \in PlayRecord /\ copy.log # <<>>
    <3> SUFFICES ASSUME flash # None
                 PROVE  flash \in PlayRecord /\ copy.log # <<>>
      OBVIOUS
    <3>1. copy.log \in Seq(PlayRecord) /\ page.data.log \in Seq(PlayRecord)
      BY <1>7, <2>7 DEF LookData
    <3>2. Len(copy.log) \in 1..Len(copy.log)
      BY <2>7, <3>1
    <3> QED BY <2>7, <3>1, <3>2
  <2>9. ASSUME ~told.crossed
        PROVE  /\ ~told.again
               /\ LooksInOrder(asked, copy, api.log, told.called, api.made)
               /\ flash # None => /\ flash \notin told.called
                                  /\ LooksInOrder(asked, copy, api.log, told.called \cup {flash}, api.made)
    <3>1. ~told.again /\ LooksInOrder(page.asked, page.data, api.log, told.called, api.made)
      BY <2>9 DEF BoardInv, CalledInOrder
    <3>2. page.asked[i].copy = copy /\ page.asked[i].copy # None /\ ~page.asked[i].older
      BY Zenon, <1>3, <1>4, <1>7, <1>11
    <3>3. LooksInOrder(asked, page.asked[i].copy, api.log, told.called, api.made)
      BY <1>1, <1>2, <1>8, <1>9, <3>1, <3>2, AnswerShown
    <3>4. LooksInOrder(asked, copy, api.log, told.called, api.made)
      BY Zenon, <3>2, <3>3
    <3>5. ASSUME flash # None
          PROVE  /\ flash \notin told.called
                 /\ LooksInOrder(asked, copy, api.log, told.called \cup {flash}, api.made)
      <4>1. Len(page.asked[i].copy.log) = Len(page.data.log) + 1
        BY Zenon, <2>7, <3>2, <3>5
      <4>2. page.asked[i].copy.log[Len(page.asked[i].copy.log)] \notin told.called
        BY <1>1, <1>2, <2>7, <3>1, <3>2, <3>5, <4>1, NewestIsNew
      <4>3. flash \notin told.called
        BY Zenon, <2>7, <3>2, <3>5, <4>2
      <4>4. LooksInOrder(asked, copy, api.log, told.called \cup {copy.log[Len(copy.log)]}, api.made)
        BY <1>1, <1>7, <1>8, <2>8, <3>4, <3>5, NewestCalled
      <4> QED BY Zenon, <2>7, <3>5, <4>3, <4>4
    <3> QED BY <3>1, <3>4, <3>5
  <2>10. /\ told' = [f \in CallFields |-> told'[f]] /\ told'.crossed = told.crossed
         /\ told'.called = (IF flash = None THEN told.called ELSE told.called \cup {flash})
         /\ told'.again = (IF flash = None THEN told.again ELSE again)
    BY <1>1, <2>6 DEF CallFields
  <2>11. BoardTyped'
    <3>1. told'.called \in SUBSET PlayRecord /\ told'.again \in BOOLEAN
      BY <1>1, <2>5, <2>8, <2>10
    <3> QED BY <1>7, <1>8, <2>4, <2>6, <2>10, <3>1 DEF BoardInv, BoardTyped
  <2>12. ASSUME ~told.crossed
         PROVE  ~told'.again /\ LooksInOrder(asked, copy, api.log, told'.called, api.made)
    <3>1. CASE flash = None
      <4>1. told'.again = told.again /\ told'.called = told.called
        BY <2>10, <3>1
      <4> QED BY Zenon, <2>9, <2>12, <4>1
    <3>2. CASE flash # None
      <4>1. told'.again = again /\ told'.called = told.called \cup {flash}
        BY <2>10, <3>2
      <4>2. ~again
        BY <2>5, <2>9, <2>12, <3>2
      <4> QED BY Zenon, <2>9, <2>12, <3>2, <4>1, <4>2
    <3> QED BY <3>1, <3>2
  <2>13. CalledInOrder'
    BY <2>4, <2>6, <2>10, <2>12 DEF CalledInOrder
  <2> QED BY <2>11, <2>13 DEF BoardInv
<1> QED BY <1>10, <1>11

LEMMA BoardStarts ==
    ASSUME BoardInit
    PROVE  BoardInv
<1>1. PICK first : first = [copy |-> None, older |-> FALSE, stops |-> FALSE]
  OBVIOUS
<1>2. PICK asked : asked = <<first>>
  OBVIOUS
<1>3. /\ asked \in LookList /\ Len(asked) = 1 /\ asked[1] = first /\ first.copy = None
      /\ \A k \in 1..Len(asked) : k = 1
  BY <1>1, <1>2 DEF LookList, LookAsked
<1>4. /\ page = [f \in BoardFields |-> page[f]] /\ page.at = "board" /\ page.asked = asked
      /\ page.data = None
  BY <1>1, <1>2 DEF BoardInit, BoardFields
<1>5. /\ api = [f \in MatchFields |-> api[f]] /\ api.log = <<>> /\ api.made = 0 /\ api.stage = "auto"
  BY DEF BoardInit, MatchFields
<1>6. /\ told = [f \in CallFields |-> told[f]] /\ told.called = {} /\ told.again = FALSE
      /\ told.crossed = FALSE
  BY DEF BoardInit, CallFields
<1>7. BoardTyped
  <2>1. api.log \in Seq(PlayRecord) /\ api.made \in Nat /\ api.stage \in StageNames
    <3>1. api.log = <<>> /\ api.made = 0 /\ api.stage = "auto"
      BY <1>5
    <3>2. api.log \in Seq(PlayRecord)
      BY <3>1
    <3>3. api.made \in Nat
      BY <3>1
    <3>4. api.stage \in StageNames
      BY <3>1 DEF StageNames
    <3> QED BY <3>2, <3>3, <3>4
  <2> QED BY <1>3, <1>4, <1>5, <1>6, <2>1 DEF BoardTyped
<1>8. LooksOf(asked, None) = {2}
  BY <1>3 DEF LooksOf
<1>9. LogsOf(asked, None, <<>>)[2] = <<>>
  BY <1>3 DEF LogsOf
<1>10. LooksInOrder(asked, None, <<>>, {}, 0)
  <2>1. PICK L : L = LogsOf(asked, None, <<>>)
    OBVIOUS
  <2>2. L[2] = <<>> /\ PlaysOf(L[2]) = {}
    BY <1>9, <2>1 DEF PlaysOf
  <2>3. OneOrder({2}, L, {}, 0)
    <3>1. \A x : x \notin PlaysOf(L[2])
      BY <2>2
    <3>2. \A j \in DOMAIN L[2] : FALSE
      BY <2>2
    <3>3. \A a, b, c \in {2} : a <= b /\ b <= c =>
             \A x \in PlaysOf(L[a]) : x \notin PlaysOf(L[b]) => x \notin PlaysOf(L[c])
      BY <3>1
    <3>4. \A a, b \in {2} : \A j \in DOMAIN L[a], m \in DOMAIN L[b] : L[a][j] = L[b][m] => j = m
      BY <3>2
    <3>5. \A a \in {2} : \A x \in PlaysOf(L[a]) : x.n <= 0
      BY <3>1
    <3> QED BY <3>3, <3>4, <3>5 DEF OneOrder
  <2> QED BY <1>8, <2>1, <2>3 DEF LooksInOrder
<1>11. CalledInOrder
  BY <1>4, <1>5, <1>6, <1>10 DEF CalledInOrder
<1> QED BY <1>7, <1>11 DEF BoardInv

LEMMA BoardStep ==
    ASSUME BoardInv, [BoardNext]_clientVars
    PROVE  BoardInv'
<1>1. CASE UNCHANGED clientVars
  <2>1. UNCHANGED <<api, page, told>>
    BY <1>1 DEF clientVars
  <2> QED BY <2>1 DEF BoardInv, BoardTyped, CalledInOrder
<1>2. CASE \/ \E w \in Play : RecordPlay(w)
           \/ \E stage \in Directed \cup {"auto"} : DirectScreen(stage)
           \/ UndoPlay \/ ItemEnds \/ TossCalled \/ TossDecided \/ TossReset
  BY <1>2, MatchOk
<1>3. CASE \/ SocketOpens \/ Subscribed \/ SocketCloses \/ BoardPolls \/ FlashCleared
           \/ CoinSpun \/ ItemExpires \/ \E c \in calls : BoardMessage(c)
  BY <1>3, HandsOffOk
<1>4. CASE \E i \in DOMAIN page.asked : Serve(i) \/ ScoreboardFetched(i) \/ ScoreboardFetchFailed(i)
  BY <1>4, ServeOk, FetchedOk, FetchFailedOk
<1> QED BY <1>1, <1>2, <1>3, <1>4 DEF BoardNext

\* Whatever overlaps, and however many plays, requests and messages: as long as the API
\* reads for the requests in the order they were asked, no play is called twice.
THEOREM CalledOutOnce == BoardSpec => []CalledOnce
<1>1. BoardInv => CalledOnce
  BY DEF BoardInv, CalledInOrder, CalledOnce
<1>2. BoardInit => BoardInv
  BY BoardStarts
<1>3. BoardInv /\ [BoardNext]_clientVars => BoardInv'
  BY BoardStep
<1> QED BY <1>1, <1>2, <1>3, PTL DEF BoardSpec

----------------------------------------------------------------------------
(***************************************************************************)
(* The team sheet editor                                                   *)
(***************************************************************************)

SheetLine(s) == [player : SheetPlayers[s], in : BOOLEAN, captain : BOOLEAN, keeper : BOOLEAN]
SheetMarks == {"captain", "keeper"}

\* A sheet of side s: each of its players once, a mark on one row at most.
SheetFits(s, rows) ==
    /\ rows \in Seq(SheetLine(s))
    /\ \A p \in SheetPlayers[s] : \E i \in DOMAIN rows : rows[i].player = p
    /\ Len(rows) = Cardinality(SheetPlayers[s])
    /\ \A f \in SheetMarks : \A i, j \in DOMAIN rows : rows[i][f] /\ rows[j][f] => i = j
AllFit(sheet) == /\ sheet = [s \in SetupSides |-> sheet[s]]
                 /\ \A s \in SetupSides : SheetFits(s, sheet[s])

LEMMA AtMostOne ==
    ASSUME NEW S, \A x, y \in S : x = y
    PROVE  IsFiniteSet(S) /\ Cardinality(S) <= 1
<1>1. CASE S = {}
  BY <1>1, FS_EmptySet
<1>2. CASE S # {}
  <2>1. PICK x \in S : TRUE
    BY <1>2
  <2>2. S = {x}
    BY <2>1
  <2>3. IsFiniteSet({x}) /\ Cardinality({x}) = 1
    BY FS_Singleton
  <2> QED BY <2>2, <2>3
<1> QED BY <1>1, <1>2

LEMMA FitIsSound ==
    ASSUME NEW s \in SetupSides, NEW rows, SheetFits(s, rows)
    PROVE  SheetSound(s, rows)
<1>1. {rows[i].player : i \in DOMAIN rows} = SheetPlayers[s]
  <2>1. \A i \in DOMAIN rows : rows[i] \in SheetLine(s)
    BY DEF SheetFits
  <2> QED BY <2>1 DEF SheetFits, SheetLine
<1>2. ASSUME NEW f \in SheetMarks
      PROVE  Cardinality({i \in DOMAIN rows : rows[i][f]}) <= 1
  <2> DEFINE M == {i \in DOMAIN rows : rows[i][f]}
  <2>1. \A x, y \in M : x = y
    BY DEF SheetFits
  <2>2. Cardinality(M) <= 1
    <3> HIDE DEF M
    <3> QED BY <2>1, AtMostOne
  <2> QED BY <2>2
<1> QED BY <1>1, <1>2 DEF SheetSound, SheetFits, SheetMarks

\* A player's place is one more than how many have a smaller number.
LEMMA PlacesTaken ==
    ASSUME NEW S \in SUBSET Nat, IsFiniteSet(S)
    PROVE  /\ Cardinality(S) \in Nat
           /\ \A p \in S : Cardinality({q \in S : q < p}) + 1 \in 1..Cardinality(S)
           /\ \A p, r \in S : Cardinality({q \in S : q < p}) = Cardinality({q \in S : q < r}) => p = r
           /\ \A i \in 1..Cardinality(S) : \E p \in S : Cardinality({q \in S : q < p}) = i - 1
<1> DEFINE R == {d \in S \X S : d[1] < d[2]}
<1>1. \A p, q \in S : <<p, q>> \in R <=> p < q
  OBVIOUS
<1>2. \A p, q \in S : p \in Nat /\ q \in Nat
  OBVIOUS
<1> HIDE DEF R
<1>3. \A p \in S : Earlier(S, R, p) = {q \in S : q < p}
  BY <1>1 DEF Earlier
<1>4. StrictOrder(S, R)
  BY <1>1, <1>2 DEF StrictOrder
<1>5. Cardinality(S) \in Nat
  BY FS_CardinalityType
<1>6. \A p \in S : Cardinality(Earlier(S, R, p)) + 1 \in 1..Cardinality(S)
  BY <1>4, EveryPlaceTaken, Zenon
<1>7. \A p, r \in S : Cardinality(Earlier(S, R, p)) = Cardinality(Earlier(S, R, r)) => p = r
  BY <1>4, EveryPlaceTaken, Zenon
<1>8. \A k \in 1..Cardinality(S) : \E p \in S : Cardinality(Earlier(S, R, p)) = k - 1
  BY <1>4, PlaceTaken
<1> QED BY <1>3, <1>5, <1>6, <1>7, <1>8

LEMMA DefaultFits ==
    ASSUME NEW s \in SetupSides
    PROVE  SheetFits(s, DefaultSheet(s))
<1> DEFINE S == SheetPlayers[s]
           below(p) == {q \in S : q < p}
           who(i) == CHOOSE p \in S : Cardinality(below(p)) = i - 1
           rows == [i \in 1..Cardinality(S) |-> SheetRow(who(i))]
<1>1. S \in SUBSET Nat /\ IsFiniteSet(S)
  BY SheetsAssumption DEF SheetsGiven
<1>2. /\ Cardinality(S) \in Nat
      /\ \A p \in S : Cardinality(below(p)) + 1 \in 1..Cardinality(S)
      /\ \A p, r \in S : Cardinality(below(p)) = Cardinality(below(r)) => p = r
      /\ \A i \in 1..Cardinality(S) : \E p \in S : Cardinality(below(p)) = i - 1
  <2> HIDE DEF S
  <2> QED BY <1>1, PlacesTaken
<1>3. \A p \in S : Cardinality(below(p)) \in Nat
  <2>1. ASSUME NEW p \in S PROVE IsFiniteSet(below(p))
    <3>1. below(p) \in SUBSET S
      OBVIOUS
    <3> HIDE DEF below, S
    <3> QED BY <1>1, <3>1, FS_Subset
  <2> HIDE DEF below, S
  <2> QED BY <2>1, FS_CardinalityType
<1>4. DefaultSheet(s) = rows
  BY DEF DefaultSheet
<1> HIDE DEF below, S
<1>5. ASSUME NEW i \in 1..Cardinality(S)
      PROVE  who(i) \in S /\ Cardinality(below(who(i))) = i - 1
  BY <1>2
<1> HIDE DEF who
<1>6. ASSUME NEW i \in 1..Cardinality(S)
      PROVE  SheetRow(who(i)) \in SheetLine(s)
  BY <1>5 DEF SheetRow, SheetLine, S
<1>7. rows \in Seq(SheetLine(s)) /\ Len(rows) = Cardinality(S) /\ DOMAIN rows = 1..Cardinality(S)
  BY <1>2, <1>6
<1>8. ASSUME NEW p \in S
      PROVE  \E i \in DOMAIN rows : rows[i].player = p
  <2>1. PICK i : i = Cardinality(below(p)) + 1
    OBVIOUS
  <2>2. i \in 1..Cardinality(S) /\ Cardinality(below(p)) = i - 1
    BY <1>2, <1>3, <2>1
  <2>3. who(i) = p
    BY <1>2, <1>5, <2>2
  <2>4. rows[i].player = p
    BY <2>2, <2>3 DEF SheetRow
  <2> QED BY <1>7, <2>2, <2>4
<1>9. ASSUME NEW i \in DOMAIN rows
      PROVE  rows[i].captain = FALSE /\ rows[i].keeper = FALSE
  BY <1>7, <1>9 DEF SheetRow
<1> HIDE DEF rows
<1>10. SheetFits(s, rows)
  BY <1>7, <1>8, <1>9 DEF SheetFits, SheetMarks, S
<1> QED BY <1>4, <1>10

\* Two rows of a sheet change places.
LEMMA SwapFits ==
    ASSUME NEW s \in SetupSides, NEW rows, SheetFits(s, rows),
           NEW i \in DOMAIN rows, NEW j \in DOMAIN rows
    PROVE  SheetFits(s, [rows EXCEPT ![i] = rows[j], ![j] = rows[i]])
<1> DEFINE new == [rows EXCEPT ![i] = rows[j], ![j] = rows[i]]
<1>1. /\ DOMAIN new = DOMAIN rows /\ DOMAIN rows = 1..Len(rows) /\ Len(rows) \in Nat
      /\ \A k \in DOMAIN rows : rows[k] \in SheetLine(s)
  BY DEF SheetFits
<1>2. \A k \in DOMAIN rows : new[k] = IF k = j THEN rows[i] ELSE IF k = i THEN rows[j] ELSE rows[k]
  OBVIOUS
<1>3. new \in Seq(SheetLine(s)) /\ Len(new) = Len(rows)
  <2>1. new \in [1..Len(rows) -> SheetLine(s)]
    BY <1>1
  <2> HIDE DEF new
  <2> QED BY <1>1, <2>1
<1> HIDE DEF new
<1>4. ASSUME NEW p \in SheetPlayers[s]
      PROVE  \E k \in DOMAIN new : new[k].player = p
  <2>1. PICK k \in DOMAIN rows : rows[k].player = p
    BY DEF SheetFits
  <2>2. CASE k = i
    BY <1>1, <1>2, <2>1, <2>2
  <2>3. CASE k = j
    BY <1>1, <1>2, <2>1, <2>3
  <2>4. CASE k # i /\ k # j
    BY <1>1, <1>2, <2>1, <2>4
  <2> QED BY <2>2, <2>3, <2>4
<1>5. ASSUME NEW f \in SheetMarks, NEW k \in DOMAIN new, NEW m \in DOMAIN new,
             new[k][f], new[m][f]
      PROVE  k = m
  <2>1. \A x, y \in DOMAIN rows : rows[x][f] /\ rows[y][f] => x = y
    BY DEF SheetFits
  <2> QED BY <1>1, <1>2, <1>5, <2>1
<1>6. SheetFits(s, new)
  BY <1>1, <1>3, <1>4, <1>5 DEF SheetFits
<1> QED BY <1>6 DEF new

\* A tick on a row, which takes the mark from every other.
LEMMA ToggleFits ==
    ASSUME NEW s \in SetupSides, NEW rows, SheetFits(s, rows),
           NEW i \in DOMAIN rows, NEW f \in {"in", "captain", "keeper"}
    PROVE  SheetFits(s, Ticked(rows, i, f))
<1> DEFINE new == Ticked(rows, i, f)
<1>1. /\ DOMAIN new = DOMAIN rows /\ DOMAIN rows = 1..Len(rows) /\ Len(rows) \in Nat
      /\ \A k \in DOMAIN rows : rows[k] \in SheetLine(s)
  BY DEF SheetFits, Ticked
<1>2. ASSUME NEW k \in DOMAIN rows
      PROVE  new[k] = IF k = i THEN [rows[k] EXCEPT ![f] = ~@]
                      ELSE IF f = "in" THEN rows[k] ELSE [rows[k] EXCEPT ![f] = FALSE]
  BY DEF Ticked
<1> HIDE DEF new
<1>3. ASSUME NEW k \in DOMAIN rows
      PROVE  /\ new[k] \in SheetLine(s) /\ new[k].player = rows[k].player
             /\ \A g \in SheetMarks : g # f => new[k][g] = rows[k][g]
             /\ f \in SheetMarks /\ k # i => ~new[k][f]
  <2>1. PICK row : row = rows[k]
    OBVIOUS
  <2>2. row \in SheetLine(s)
    BY <1>1, <2>1
  <2>3. CASE k = i
    <3>1. new[k] = [row EXCEPT ![f] = ~row[f]]
      BY <1>2, <2>1, <2>3
    <3>2. PICK x \in BOOLEAN : x = ~row[f]
      OBVIOUS
    <3>3. new[k] = [row EXCEPT ![f] = x]
      BY <3>1, <3>2, Zenon
    <3>4. PICK put : put = [row EXCEPT ![f] = x]
      OBVIOUS
    <3>5. /\ put \in SheetLine(s) /\ put.player = row.player /\ put[f] = x
          /\ \A h \in SheetMarks : h # f => put[h] = row[h]
      BY <2>2, <3>4 DEF SheetLine, SheetMarks
    <3>6. new[k] = put
      BY <3>3, <3>4, Zenon
    <3>7. /\ new[k] \in SheetLine(s) /\ new[k].player = rows[k].player
          /\ \A h \in SheetMarks : h # f => new[k][h] = rows[k][h]
      BY <2>1, <3>5, <3>6, Zenon
    <3> QED BY <2>3, <3>7, Zenon
  <2>4. CASE k # i /\ f # "in"
    <3>1. new[k] = [row EXCEPT ![f] = FALSE]
      BY <1>2, <2>1, <2>4
    <3>2. PICK x \in BOOLEAN : x = FALSE
      OBVIOUS
    <3>3. new[k] = [row EXCEPT ![f] = x] /\ ~x
      BY <3>1, <3>2, Zenon
    <3>4. PICK put : put = [row EXCEPT ![f] = x]
      OBVIOUS
    <3>5. /\ put \in SheetLine(s) /\ put.player = row.player /\ put[f] = x
          /\ \A h \in SheetMarks : h # f => put[h] = row[h]
      BY <2>2, <3>4 DEF SheetLine, SheetMarks
    <3>6. new[k] = put
      BY <3>3, <3>4, Zenon
    <3>7. /\ new[k] \in SheetLine(s) /\ new[k].player = rows[k].player
          /\ \A h \in SheetMarks : h # f => new[k][h] = rows[k][h]
      BY <2>1, <3>5, <3>6, Zenon
    <3>8. ~new[k][f]
      BY <3>3, <3>5, <3>6, Zenon
    <3> QED BY <3>7, <3>8, Zenon
  <2>5. CASE k # i /\ f = "in"
    <3>1. new[k] = row
      BY <1>2, <2>1, <2>5
    <3> QED BY <2>1, <2>2, <2>5, <3>1 DEF SheetMarks
  <2> QED BY <2>3, <2>4, <2>5
<1>4. new \in Seq(SheetLine(s)) /\ Len(new) = Len(rows)
  <2>1. new = [k \in 1..Len(rows) |-> new[k]]
    BY <1>1 DEF new, Ticked
  <2>2. new \in [1..Len(rows) -> SheetLine(s)]
    BY <1>1, <1>3, <2>1
  <2> QED BY <1>1, <2>2
<1>5. ASSUME NEW p \in SheetPlayers[s]
      PROVE  \E k \in DOMAIN new : new[k].player = p
  BY <1>1, <1>3 DEF SheetFits
<1>6. ASSUME NEW g \in SheetMarks, NEW k \in DOMAIN new, NEW m \in DOMAIN new,
             new[k][g], new[m][g]
      PROVE  k = m
  <2>1. CASE g = f
    BY <1>1, <1>3, <1>6, <2>1
  <2>2. CASE g # f
    BY <1>1, <1>3, <1>6, <2>2 DEF SheetFits
  <2> QED BY <2>1, <2>2
<1>7. SheetFits(s, new)
  BY <1>1, <1>4, <1>5, <1>6 DEF SheetFits
<1> QED BY <1>7 DEF new

----------------------------------------------------------------------------
(* The setup tab *)

SetupSpec == SetupInit /\ [][SetupNext]_clientVars

SetupFields == {"at", "match", "tab", "chosen", "mode", "submitting", "flipping",
                "side", "rows", "saving", "acts"}

\* What is edited is a sheet of the side that is chosen.
SetupPageOk(p) ==
    /\ p = [f \in SetupFields |-> p[f]] /\ p.at = "setup" /\ p.side \in SetupSides
    /\ p.match # None => AllFit(p.match.sheet) /\ SheetFits(p.side, p.rows)

SetupCallOk(c) ==
    /\ c = [f \in DOMAIN c |-> c[f]] /\ "kind" \in DOMAIN c
    /\ c.kind = "read" => AllFit(c.copy.sheet)
    /\ c.kind = "sheet" => /\ "side" \in DOMAIN c /\ "rows" \in DOMAIN c
                           /\ c.side \in SetupSides /\ SheetFits(c.side, c.rows)

SetupApiOk(a) ==
    /\ a = [toss |-> a.toss, status |-> a.status, sheet |-> a.sheet]
    /\ AllFit(a.sheet)

SetupInv ==
    /\ SetupPageOk(page) /\ SetupApiOk(api) /\ told = {}
    /\ \A c \in calls : SetupCallOk(c)

LEMMA PageKept ==
    ASSUME NEW p, SetupPageOk(p), NEW f \in SetupFields \ {"at", "match", "side", "rows"}, NEW x
    PROVE  /\ SetupPageOk([p EXCEPT ![f] = x])
           /\ [p EXCEPT ![f] = x].match = p.match /\ [p EXCEPT ![f] = x].side = p.side
           /\ [p EXCEPT ![f] = x].rows = p.rows
BY DEF SetupPageOk, SetupFields

LEMMA RowsPut ==
    ASSUME NEW p, SetupPageOk(p), NEW rows, SheetFits(p.side, rows)
    PROVE  SetupPageOk([p EXCEPT !.rows = rows])
<1> DEFINE q == [p EXCEPT !.rows = rows]
<1>1. /\ q = [f \in SetupFields |-> q[f]] /\ q.at = "setup" /\ q.side = p.side
      /\ q.match = p.match /\ q.rows = rows
  BY DEF SetupPageOk, SetupFields
<1> HIDE DEF q
<1>2. SetupPageOk(q)
  BY <1>1 DEF SetupPageOk
<1> QED BY <1>2 DEF q

LEMMA MatchPut ==
    ASSUME NEW p, SetupPageOk(p), NEW m, AllFit(m.sheet)
    PROVE  SetupPageOk([p EXCEPT !.match = m, !.rows = m.sheet[p.side]])
<1> DEFINE q == [p EXCEPT !.match = m, !.rows = m.sheet[p.side]]
<1>1. /\ q = [f \in SetupFields |-> q[f]] /\ q.at = "setup" /\ q.side = p.side
      /\ q.match = m /\ q.rows = m.sheet[p.side]
  BY DEF SetupPageOk, SetupFields
<1> HIDE DEF q
<1>2. SheetFits(q.side, q.rows) /\ q.side \in SetupSides
  BY <1>1 DEF SetupPageOk, AllFit
<1>3. SetupPageOk(q)
  BY <1>1, <1>2 DEF SetupPageOk
<1> QED BY <1>3 DEF q

LEMMA SidePut ==
    ASSUME NEW p, SetupPageOk(p), NEW s \in SetupSides, AllFit(p.match.sheet)
    PROVE  SetupPageOk([p EXCEPT !.side = s, !.rows = p.match.sheet[s]])
<1> DEFINE q == [p EXCEPT !.side = s, !.rows = p.match.sheet[s]]
<1>1. /\ q = [f \in SetupFields |-> q[f]] /\ q.at = "setup" /\ q.side = s
      /\ q.match = p.match /\ q.rows = p.match.sheet[s]
  BY DEF SetupPageOk, SetupFields
<1> HIDE DEF q
<1>2. SheetFits(q.side, q.rows)
  BY <1>1 DEF AllFit
<1>3. SetupPageOk(q)
  BY <1>1, <1>2 DEF SetupPageOk
<1> QED BY <1>3 DEF q

LEMMA CountedOk ==
    ASSUME NEW p, SetupPageOk(p) PROVE SetupPageOk(Counted(p))
<1>1. PICK n : n = p.acts + 1
  OBVIOUS
<1>2. Counted(p) = [p EXCEPT !.acts = n]
  BY <1>1, Zenon DEF Counted
<1>3. SetupPageOk([p EXCEPT !["acts"] = n])
  BY PageKept DEF SetupFields
<1> QED BY <1>2, <1>3

LEMMA TurnedOk ==
    ASSUME NEW p, SetupPageOk(p), NEW tab, AllFit(p.match.sheet)
    PROVE  SetupPageOk(Turned(p, tab))
<1>1. /\ SetupPageOk([p EXCEPT !["tab"] = tab])
      /\ [p EXCEPT !["tab"] = tab].match = p.match
  BY PageKept DEF SetupFields
<1>2. CASE ~Leaving(tab)
  BY <1>1, <1>2 DEF Turned
<1>3. CASE Leaving(tab)
  <2>1. PICK p1 : p1 = [p EXCEPT !.tab = tab]
    OBVIOUS
  <2>2. PICK p2 : p2 = [p1 EXCEPT !.mode = "manual"]
    OBVIOUS
  <2>3. PICK p3 : p3 = [p2 EXCEPT !.side = "A", !.rows = p2.match.sheet["A"]]
    OBVIOUS
  <2>4. PICK p4 : p4 = [p3 EXCEPT !.submitting = FALSE]
    OBVIOUS
  <2>5. PICK p5 : p5 = [p4 EXCEPT !.flipping = FALSE]
    OBVIOUS
  <2>6. SetupPageOk(p2) /\ p2.match = p.match
    <3>1. SetupPageOk(p1) /\ p1.match = p.match
      BY <1>1, <2>1
    <3>2. /\ SetupPageOk([p1 EXCEPT !["mode"] = "manual"])
          /\ [p1 EXCEPT !["mode"] = "manual"].match = p1.match
      BY <3>1, PageKept DEF SetupFields
    <3> QED BY <2>2, <3>1, <3>2
  <2>7. SetupPageOk(p3)
    BY <2>3, <2>6, SidePut, SheetsAssumption DEF SheetsGiven
  <2>8. SetupPageOk([p3 EXCEPT !["submitting"] = FALSE])
    BY <2>7, PageKept DEF SetupFields
  <2>9. SetupPageOk([p4 EXCEPT !["flipping"] = FALSE])
    BY <2>4, <2>8, PageKept DEF SetupFields
  <2>10. SetupPageOk([p5 EXCEPT !["saving"] = FALSE])
    BY <2>5, <2>9, PageKept DEF SetupFields
  <2>11. Turned(p, tab) = [p5 EXCEPT !.saving = FALSE]
    <3>1. PICK m : m = p.match.sheet["A"]
      OBVIOUS
    <3>2. Turned(p, tab) = [p EXCEPT !.tab = tab, !.mode = "manual", !.side = "A", !.rows = m,
                   !.submitting = FALSE, !.flipping = FALSE, !.saving = FALSE]
      BY <1>3, <3>1, Zenon DEF Turned
    <3>3. p3 = [p2 EXCEPT !.side = "A", !.rows = m]
      BY <2>3, <2>6, <3>1, Zenon
    <3> QED BY <2>1, <2>2, <2>4, <2>5, <3>2, <3>3, Zenon
  <2> QED BY <2>10, <2>11
<1> QED BY <1>2, <1>3

LEMMA OrphanedOk ==
    ASSUME \A c \in calls : SetupCallOk(c), NEW tab
    PROVE  \A c \in Orphaned(tab) : SetupCallOk(c)
<1>1. ASSUME NEW c, SetupCallOk(c), c.kind # "read"
      PROVE  SetupCallOk([c EXCEPT !.gone = TRUE])
  <2> DEFINE d == [c EXCEPT !.gone = TRUE]
  <2>1. /\ d = [f \in DOMAIN d |-> d[f]] /\ DOMAIN d = DOMAIN c
        /\ \A f \in DOMAIN c : f # "gone" => d[f] = c[f]
    BY <1>1 DEF SetupCallOk
  <2> HIDE DEF d
  <2>2. d.kind = c.kind /\ (c.kind = "sheet" => d.side = c.side /\ d.rows = c.rows)
    BY <1>1, <2>1 DEF SetupCallOk
  <2>3. SetupCallOk(d)
    BY <1>1, <2>1, <2>2 DEF SetupCallOk
  <2> QED BY <2>3 DEF d
<1> QED BY <1>1 DEF Orphaned

LEMMA ReadOk ==
    ASSUME NEW a, SetupApiOk(a), NEW chosen
    PROVE  SetupCallOk([kind |-> "read", copy |-> a, chosen |-> chosen])
BY DEF SetupCallOk, SetupApiOk

LEMMA SetupStarts == SetupInit => SetupInv
<1> SUFFICES ASSUME SetupInit PROVE SetupInv
  OBVIOUS
<1>1. AllFit(api.sheet) /\ SetupApiOk(api)
  <2>1. api.sheet = [s \in SetupSides |-> DefaultSheet(s)]
    BY DEF SetupInit
  <2>2. AllFit(api.sheet)
    BY <2>1, DefaultFits DEF AllFit
  <2>3. api = [toss |-> api.toss, status |-> api.status, sheet |-> api.sheet]
    BY DEF SetupInit
  <2> QED BY <2>2, <2>3 DEF SetupApiOk
<1>2. \A c \in calls : SetupCallOk(c)
  BY <1>1, ReadOk DEF SetupInit
<1>3. SetupPageOk(page)
  BY SheetsAssumption DEF SheetsGiven, SetupInit, SetupPageOk, SetupFields
<1> QED BY <1>1, <1>2, <1>3 DEF SetupInv, SetupInit

LEMMA SetupFetchedOk ==
    ASSUME SetupInv, NEW c \in calls, SetupFetched(c) PROVE SetupInv'
<1>1. PICK tab : /\ page' = Turned([page EXCEPT !.match = c.copy,
                                          !.rows = c.copy.sheet[page.side]], tab)
                 /\ calls' = Orphaned(tab) \ {c}
  BY Zenon DEF SetupFetched
<1>2. SetupPageOk(page) /\ SetupCallOk(c) /\ AllFit(c.copy.sheet)
  BY DEF SetupInv, SetupCallOk, SetupFetched
<1>3. PICK q : q = [page EXCEPT !.match = c.copy, !.rows = c.copy.sheet[page.side]]
  OBVIOUS
<1>4. SetupPageOk(q)
  BY <1>2, <1>3, MatchPut
<1>5. AllFit(q.match.sheet)
  BY <1>2, <1>3 DEF SetupPageOk, SetupFields
<1>6. SetupPageOk(page')
  BY <1>1, <1>3, <1>4, <1>5, TurnedOk, Zenon
<1>7. \A d \in calls' : SetupCallOk(d)
  BY <1>1, OrphanedOk, Zenon DEF SetupInv
<1>8. SetupApiOk(api') /\ told' = {}
  BY DEF SetupInv, SetupFetched
<1> QED BY <1>6, <1>7, <1>8 DEF SetupInv

LEMMA OpenTabOk ==
    ASSUME SetupInv, NEW t, OpenTab(t) PROVE SetupInv'
<1>1. SetupPageOk(page) /\ AllFit(page.match.sheet)
  BY DEF SetupInv, SetupPageOk, OpenTab
<1>2. PICK q : q = Turned(page, t)
  OBVIOUS
<1>3. SetupPageOk(q)
  BY <1>1, <1>2, TurnedOk
<1>4. SetupPageOk([q EXCEPT !["chosen"] = TRUE])
  BY <1>3, PageKept DEF SetupFields
<1>5. SetupPageOk(page')
  BY <1>2, <1>4, Zenon DEF OpenTab
<1>6. \A d \in calls' : SetupCallOk(d)
  BY OrphanedOk, Zenon DEF SetupInv, OpenTab
<1>7. SetupApiOk(api') /\ told' = {}
  BY DEF SetupInv, OpenTab
<1> QED BY <1>5, <1>6, <1>7 DEF SetupInv

\* A request of the toss panel knows nothing of the sheets.
LEMMA TossCallOk ==
    ASSUME NEW op, NEW gone
    PROVE  /\ SetupCallOk([kind |-> "toss", op |-> op, gone |-> gone])
           /\ SetupCallOk([kind |-> "coin", gone |-> gone])
BY DEF SetupCallOk

LEMMA SendTossOk ==
    ASSUME SetupInv, NEW op, NEW form, SetupPageOk(form), SendToss(op, form) PROVE SetupInv'
<1>1. PICK q : q = [form EXCEPT !.submitting = TRUE]
  OBVIOUS
<1>2. SetupPageOk([form EXCEPT !["submitting"] = TRUE])
  BY PageKept DEF SetupFields
<1>3. SetupPageOk(q)
  BY <1>1, <1>2
<1>4. page' = Counted(q)
  BY <1>1, Zenon DEF SendToss
<1>5. SetupPageOk(page')
  BY <1>3, <1>4, CountedOk
<1>6. \A d \in calls' : SetupCallOk(d)
  BY TossCallOk DEF SetupInv, SendToss, Send
<1>7. SetupApiOk(api') /\ told' = {}
  BY DEF SetupInv, SendToss
<1> QED BY <1>5, <1>6, <1>7 DEF SetupInv

LEMMA PanelOk ==
    ASSUME SetupInv, Flip \/ Decide \/ Manual \/ RetryToss PROVE SetupInv'
<1>1. SetupPageOk(page)
  BY DEF SetupInv
<1>2. CASE Flip
  <2>1. PICK q : q = [page EXCEPT !.flipping = TRUE]
    OBVIOUS
  <2>2. SetupPageOk([page EXCEPT !["flipping"] = TRUE])
    BY <1>1, PageKept DEF SetupFields
  <2>3. SetupPageOk(q)
    BY <2>1, <2>2
  <2>4. SendToss("call", q)
    BY <1>2, <2>1, Zenon DEF Flip
  <2> QED BY <2>3, <2>4, SendTossOk
<1>3. CASE Decide
  BY <1>1, <1>3, SendTossOk DEF Decide
<1>4. CASE Manual
  BY <1>1, <1>4, SendTossOk DEF Manual
<1>5. CASE RetryToss
  BY <1>1, <1>5, SendTossOk DEF RetryToss
<1> QED BY <1>2, <1>3, <1>4, <1>5

\* The toss of the match moves, and no sheet with it.
LEMMA TossPut ==
    ASSUME NEW a, SetupApiOk(a), NEW to PROVE SetupApiOk([a EXCEPT !.toss = to])
<1> DEFINE b == [a EXCEPT !.toss = to]
<1>1. b = [toss |-> b.toss, status |-> b.status, sheet |-> b.sheet] /\ b.sheet = a.sheet
  BY DEF SetupApiOk
<1> HIDE DEF b
<1>2. SetupApiOk(b)
  BY <1>1 DEF SetupApiOk
<1> QED BY <1>2 DEF b

LEMMA FlagKept ==
    ASSUME NEW p, SetupPageOk(p), NEW x, NEW y
    PROVE  /\ SetupPageOk([p EXCEPT !.submitting = x])
           /\ SetupPageOk([p EXCEPT !.flipping = x])
           /\ SetupPageOk([p EXCEPT !.saving = x])
           /\ SetupPageOk([p EXCEPT !.mode = x])
           /\ SetupPageOk([p EXCEPT !.submitting = x, !.flipping = y])
<1>1. \A f \in {"submitting", "flipping", "saving", "mode"} : SetupPageOk([p EXCEPT ![f] = x])
  BY PageKept DEF SetupFields
<1>2. PICK q : q = [p EXCEPT !.submitting = x]
  OBVIOUS
<1>3. SetupPageOk(q)
  BY <1>1, <1>2
<1>4. SetupPageOk([q EXCEPT !["flipping"] = y])
  BY <1>3, PageKept DEF SetupFields
<1>5. [p EXCEPT !.submitting = x, !.flipping = y] = [q EXCEPT !.flipping = y]
  BY <1>2, Zenon
<1> QED BY <1>1, <1>4, <1>5

LEMMA TossAnsweredOk ==
    ASSUME SetupInv, NEW c \in calls, TossAnswered(c) PROVE SetupInv'
<1>1. SetupPageOk(page) /\ SetupApiOk(api)
  BY DEF SetupInv
<1>2. PICK x : x = (page.submitting /\ c.gone)
  OBVIOUS
<1>3. page' = [page EXCEPT !.submitting = x]
  BY <1>2, Zenon DEF TossAnswered
<1>4. SetupPageOk(page')
  BY <1>1, <1>3, FlagKept
<1>5. SetupApiOk(api')
  BY <1>1, TossPut DEF TossAnswered
<1>6. \A d \in calls' : SetupCallOk(d)
  <2>1. calls' = (calls \ {c}) \cup {IF c.op = "call" THEN [kind |-> "coin", gone |-> c.gone]
                   ELSE [kind |-> "read", copy |-> api', chosen |-> page.chosen]}
    BY Zenon DEF TossAnswered
  <2>2. PICK a : a = api'
    OBVIOUS
  <2>3. SetupCallOk([kind |-> "read", copy |-> a, chosen |-> page.chosen])
    BY <1>5, <2>2, ReadOk
  <2>4. SetupCallOk([kind |-> "coin", gone |-> c.gone])
    BY TossCallOk
  <2> QED BY <2>1, <2>2, <2>3, <2>4 DEF SetupInv
<1>7. told' = {}
  BY DEF SetupInv, TossAnswered
<1> QED BY <1>4, <1>5, <1>6, <1>7 DEF SetupInv

LEMMA CoinSettlesOk ==
    ASSUME SetupInv, NEW c \in calls, CoinSettles(c) PROVE SetupInv'
<1>1. SetupPageOk(page) /\ SetupApiOk(api)
  BY DEF SetupInv
<1>2. PICK x : x = (page.flipping /\ c.gone)
  OBVIOUS
<1>3. page' = [page EXCEPT !.flipping = x]
  BY <1>2, Zenon DEF CoinSettles
<1>4. SetupPageOk(page')
  BY <1>1, <1>3, FlagKept
<1>5. SetupCallOk(SetupRead)
  BY <1>1, ReadOk DEF SetupRead
<1>6. SetupApiOk(api') /\ told' = {} /\ \A d \in calls' : SetupCallOk(d)
  BY <1>5 DEF SetupInv, CoinSettles
<1> QED BY <1>4, <1>6 DEF SetupInv

LEMMA TossFailedOk ==
    ASSUME SetupInv, NEW c \in calls, TossFailed(c) PROVE SetupInv'
<1>1. SetupPageOk(page) /\ SetupApiOk(api)
  BY DEF SetupInv
<1>2. PICK x : x = (page.submitting /\ c.gone)
  OBVIOUS
<1>3. PICK y : y = (page.flipping /\ (c.op = "call" => c.gone))
  OBVIOUS
<1>4. page' = [page EXCEPT !.submitting = x, !.flipping = y]
  BY <1>2, <1>3, Zenon DEF TossFailed
<1>5. SetupPageOk(page')
  BY <1>1, <1>4, FlagKept
<1>6. SetupApiOk(api')
  <2>1. api' = api \/ api' = [api EXCEPT !.toss = TossTo(c.op)]
    BY Zenon DEF TossFailed
  <2> QED BY <1>1, <2>1, TossPut
<1>7. told' = {} /\ \A d \in calls' : SetupCallOk(d)
  BY DEF SetupInv, TossFailed, Settle
<1> QED BY <1>5, <1>6, <1>7 DEF SetupInv

----------------------------------------------------------------------------
(* The team sheet *)

LEMMA ChooseSideOk ==
    ASSUME SetupInv, NEW s \in SetupSides, ChooseSide(s) PROVE SetupInv'
<1>1. SetupPageOk(page) /\ AllFit(page.match.sheet)
  BY DEF SetupInv, SetupPageOk, ChooseSide, Shown
<1>2. SetupPageOk(page')
  BY <1>1, SidePut DEF ChooseSide
<1>3. SetupApiOk(api') /\ told' = {} /\ \A d \in calls' : SetupCallOk(d)
  BY DEF SetupInv, ChooseSide, PageOnly
<1> QED BY <1>2, <1>3 DEF SetupInv

LEMMA MoveRowOk ==
    ASSUME SetupInv, NEW i, NEW j, MoveRow(i, j) PROVE SetupInv'
<1>1. SetupPageOk(page) /\ SheetFits(page.side, page.rows) /\ page.side \in SetupSides
  BY DEF SetupInv, SetupPageOk, MoveRow, Shown
<1>2. PICK rows : rows = page.rows
  OBVIOUS
<1>3. i \in DOMAIN rows /\ j \in DOMAIN rows
  BY <1>2 DEF MoveRow
<1>4. PICK new : new = [rows EXCEPT ![i] = rows[j], ![j] = rows[i]]
  OBVIOUS
<1>5. SheetFits(page.side, new)
  BY <1>1, <1>2, <1>3, <1>4, SwapFits
<1>6. PICK q : q = [page EXCEPT !.rows = new]
  OBVIOUS
<1>7. SetupPageOk(q)
  BY <1>1, <1>5, <1>6, RowsPut
<1>8. page' = Counted(q)
  BY <1>2, <1>4, <1>6, Zenon DEF MoveRow
<1>9. SetupPageOk(page')
  BY <1>7, <1>8, CountedOk
<1>10. SetupApiOk(api') /\ told' = {} /\ \A d \in calls' : SetupCallOk(d)
  BY DEF SetupInv, MoveRow, PageOnly
<1> QED BY <1>9, <1>10 DEF SetupInv

LEMMA ToggleRowOk ==
    ASSUME SetupInv, NEW i, NEW f \in {"in", "captain", "keeper"}, ToggleRow(i, f) PROVE SetupInv'
<1>1. SetupPageOk(page) /\ SheetFits(page.side, page.rows) /\ page.side \in SetupSides
  BY DEF SetupInv, SetupPageOk, ToggleRow, Shown
<1>2. PICK rows : rows = page.rows
  OBVIOUS
<1>3. i \in DOMAIN rows
  BY <1>2 DEF ToggleRow
<1>4. PICK new : new = Ticked(rows, i, f)
  OBVIOUS
<1>5. SheetFits(page.side, new)
  BY <1>1, <1>2, <1>3, <1>4, ToggleFits, Zenon
<1>6. PICK q : q = [page EXCEPT !.rows = new]
  OBVIOUS
<1>7. SetupPageOk(q)
  BY <1>1, <1>5, <1>6, RowsPut
<1>8. page' = Counted(q)
  BY <1>2, <1>4, <1>6, Zenon DEF ToggleRow
<1>9. SetupPageOk(page')
  BY <1>7, <1>8, CountedOk
<1>10. SetupApiOk(api') /\ told' = {} /\ \A d \in calls' : SetupCallOk(d)
  BY DEF SetupInv, ToggleRow, PageOnly
<1> QED BY <1>9, <1>10 DEF SetupInv

LEMMA SaveSheetOk ==
    ASSUME SetupInv, SaveSheet PROVE SetupInv'
<1>1. SetupPageOk(page) /\ SheetFits(page.side, page.rows) /\ page.side \in SetupSides
  BY DEF SetupInv, SetupPageOk, SaveSheet, Shown
<1>2. PICK q : q = [page EXCEPT !.saving = TRUE]
  OBVIOUS
<1>3. SetupPageOk(q)
  BY <1>1, <1>2, FlagKept
<1>4. SetupPageOk(page')
  BY <1>2, <1>3, CountedOk DEF SaveSheet
<1>5. SetupCallOk([kind |-> "sheet", side |-> page.side, rows |-> page.rows, gone |-> FALSE])
  BY <1>1 DEF SetupCallOk
<1>6. SetupApiOk(api') /\ told' = {} /\ \A d \in calls' : SetupCallOk(d)
  BY <1>5 DEF SetupInv, SaveSheet, Send
<1> QED BY <1>4, <1>6 DEF SetupInv

\* What the API stores is a sheet of the side it stores it for.
LEMMA StoredOk ==
    ASSUME SetupInv, NEW c \in calls, c.kind = "sheet", SheetStored(c)
    PROVE  SetupApiOk(api') /\ told' = {}
<1>1. c.side \in SetupSides /\ SheetFits(c.side, c.rows) /\ SetupApiOk(api) /\ told = {}
  BY DEF SetupInv, SetupCallOk
<1>2. SheetSound(c.side, c.rows)
  BY <1>1, FitIsSound
<1>3. PICK sheet : sheet = [api.sheet EXCEPT ![c.side] = c.rows]
  OBVIOUS
<1>4. AllFit(sheet)
  <2>1. PICK old : old = api.sheet
    OBVIOUS
  <2>2. old = [s \in SetupSides |-> old[s]] /\ \A s \in SetupSides : SheetFits(s, old[s])
    BY <1>1, <2>1 DEF SetupApiOk, AllFit
  <2>3. /\ sheet = [s \in SetupSides |-> sheet[s]] /\ sheet[c.side] = c.rows
        /\ \A s \in SetupSides : s # c.side => sheet[s] = old[s]
    BY <1>1, <1>3, <2>1, <2>2
  <2> QED BY <1>1, <2>2, <2>3 DEF AllFit
<1>5. api' = [api EXCEPT !.sheet = sheet]
  BY <1>3, Zenon DEF SheetStored
<1>6. SetupApiOk(api')
  <2>1. api' = [toss |-> api'.toss, status |-> api'.status, sheet |-> api'.sheet] /\ api'.sheet = sheet
    BY <1>1, <1>5 DEF SetupApiOk
  <2> QED BY <1>4, <2>1 DEF SetupApiOk
<1>7. told' = {}
  BY <1>1, <1>2 DEF SheetStored
<1> QED BY <1>6, <1>7

LEMMA SheetAnsweredOk ==
    ASSUME SetupInv, NEW c \in calls, SheetAnswered(c) PROVE SetupInv'
<1>1. PICK x : x = (page.saving /\ c.gone)
  OBVIOUS
<1>2. page' = [page EXCEPT !.saving = x]
  BY <1>1, Zenon DEF SheetAnswered
<1>3. SetupPageOk(page')
  BY <1>2, FlagKept DEF SetupInv
<1>4. SetupApiOk(api') /\ told' = {}
  BY StoredOk DEF SheetAnswered
<1>5. PICK a : a = api'
  OBVIOUS
<1>6. SetupCallOk([kind |-> "read", copy |-> a, chosen |-> page.chosen])
  BY <1>4, <1>5, ReadOk
<1>7. \A d \in calls' : SetupCallOk(d)
  BY <1>5, <1>6 DEF SetupInv, SheetAnswered
<1> QED BY <1>3, <1>4, <1>7 DEF SetupInv

LEMMA SheetFailedOk ==
    ASSUME SetupInv, NEW c \in calls, SheetFailed(c) PROVE SetupInv'
<1>1. PICK x : x = (page.saving /\ c.gone)
  OBVIOUS
<1>2. page' = [page EXCEPT !.saving = x]
  BY <1>1, Zenon DEF SheetFailed
<1>3. SetupPageOk(page')
  BY <1>2, FlagKept DEF SetupInv
<1>4. SetupApiOk(api') /\ told' = {}
  <2>1. CASE UNCHANGED <<api, told>>
    BY <2>1 DEF SetupInv
  <2>2. CASE SheetStored(c)
    BY <2>2, StoredOk DEF SheetFailed
  <2> QED BY <2>1, <2>2 DEF SheetFailed
<1>5. \A d \in calls' : SetupCallOk(d)
  BY DEF SetupInv, SheetFailed, Settle
<1> QED BY <1>3, <1>4, <1>5 DEF SetupInv

LEMMA SetupElseOk ==
    ASSUME SetupInv,
           \/ \E c \in calls : SetupFetchFailed(c)
           \/ SetupMessage \/ \E m \in {"digital", "manual"} : Mode(m)
    PROVE  SetupInv'
<1>1. CASE \E c \in calls : SetupFetchFailed(c)
  BY <1>1 DEF SetupInv, SetupFetchFailed, Settle
<1>2. CASE SetupMessage
  <2>1. SetupCallOk(SetupRead)
    BY ReadOk DEF SetupRead, SetupInv
  <2> QED BY <1>2, <2>1 DEF SetupInv, SetupMessage, Send
<1>3. CASE \E m \in {"digital", "manual"} : Mode(m)
  <2>1. PICK m : page' = [page EXCEPT !.mode = m]
    BY <1>3, Zenon DEF Mode
  <2>2. SetupPageOk(page')
    BY <2>1, FlagKept DEF SetupInv
  <2> QED BY <1>3, <2>2 DEF SetupInv, Mode, PageOnly
<1> QED BY <1>1, <1>2, <1>3

LEMMA SetupStep == SetupInv /\ [SetupNext]_clientVars => SetupInv'
<1> SUFFICES ASSUME SetupInv, [SetupNext]_clientVars PROVE SetupInv'
  OBVIOUS
<1>1. ASSUME NEW c \in calls,
             \/ SetupFetched(c) \/ SetupFetchFailed(c) \/ TossAnswered(c) \/ TossFailed(c)
             \/ SheetAnswered(c) \/ SheetFailed(c) \/ CoinSettles(c)
      PROVE  SetupInv'
  BY <1>1, SetupFetchedOk, SetupElseOk, TossAnsweredOk, TossFailedOk, SheetAnsweredOk,
     SheetFailedOk, CoinSettlesOk
<1>2. CASE SetupMessage \/ \E m \in {"digital", "manual"} : Mode(m)
  BY <1>2, SetupElseOk
<1>3. CASE Flip \/ Decide \/ Manual \/ RetryToss
  BY <1>3, PanelOk
<1>4. CASE SaveSheet
  BY <1>4, SaveSheetOk
<1>5. CASE \E t \in {"setup", "scoring", "screen"} : OpenTab(t)
  BY <1>5, OpenTabOk
<1>6. CASE \E s \in SetupSides : ChooseSide(s)
  BY <1>6, ChooseSideOk
<1>7. CASE \E i \in DOMAIN page.rows, f \in {"in", "captain", "keeper"} : ToggleRow(i, f)
  BY <1>7, ToggleRowOk
<1>8. CASE \E i \in DOMAIN page.rows : MoveRow(i, i + 1)
  BY <1>8, MoveRowOk
<1>9. CASE UNCHANGED clientVars
  BY <1>9 DEF SetupInv, clientVars
<1> QED BY <1>1, <1>2, <1>3, <1>4, <1>5, <1>6, <1>7, <1>8, <1>9 DEF SetupNext

\* Every sheet sent names the players of the side it is sent for, each once,
\* with one captain and one keeper at most, whatever the order of edits, side
\* changes, refetches and saves (MatchLineupEditor), for any squads.
THEOREM SheetsAreSound == SetupSpec => []SheetsSound
<1>1. SetupInv => SheetsSound
  BY DEF SetupInv, SheetsSound
<1> QED BY SetupStarts, SetupStep, <1>1, PTL DEF SetupSpec

----------------------------------------------------------------------------
(***************************************************************************)
(* The client: one page at a time, each with the invariant above           *)
(***************************************************************************)

RoomFields == {"at", "kind", "data", "error", "busy", "ask"}
RoomPage(p) == p = [f \in RoomFields |-> p[f]] /\ p.at = "room"

ClientInv ==
    \/ SessionOk \/ EntrySafe \/ KeypadInv \/ PitchInv
    \/ DeskInv \/ BoardInv \/ SetupInv \/ RoomPage(page)

\* The page each invariant is about.
LEMMA PageOfInv ==
    /\ SessionOk => page.at = "session"
    /\ EntrySafe => page.at = "entry"
    /\ KeypadInv => page.at = "cricket"
    /\ PitchInv => page.at = "football"
    /\ DeskInv => page.at = "desk"
    /\ BoardInv => page.at = "board"
    /\ SetupInv => page.at = "setup"
    /\ RoomPage(page) => page.at = "room"
BY DEF SessionOk, OkPage, EntrySafe, EntryInv, Shapes, EntryShape, PageFields, KeypadInv, KeypadShape,
       PitchInv, PadSound, DeskInv, DeskTyped, BoardInv, BoardTyped, SetupInv, SetupPageOk, RoomPage

\* The pages of an auction room stay pages of it.
LEMMA RoomColumn ==
    ASSUME NEW p, RoomPage(p), NEW f \in RoomFields \ {"at"}, NEW x
    PROVE  RoomPage([p EXCEPT ![f] = x])
BY DEF RoomPage, RoomFields

LEMMA RoomStays == ASSUME RoomPage(page), RoomNext PROVE RoomPage(page')
<1>1. \A x : \A f \in {"busy", "ask", "data", "error"} : RoomPage([page EXCEPT ![f] = x])
  BY RoomColumn DEF RoomFields
<1>2. CASE Others \/ RoomPolls \/ \E c \in calls : RoomMessage(c) \/ MessageLost(c)
  BY <1>2 DEF Others, RoomPolls, RoomMessage, MessageLost
<1>3. CASE ManagerBid \/ CallPlayer \/ \E t \in Bidder, step \in {0, 1} : FloorBid(t, step)
  <2>1. page' = [page EXCEPT !.busy = TRUE]
    BY <1>3, Zenon DEF ManagerBid, CallPlayer, FloorBid
  <2> QED BY <1>1, <2>1
<1>4. CASE Decline \/ \E op \in {"sell", "unsold", "reopen"} : AskFirst(op)
  <2>1. PICK x : page' = [page EXCEPT !.ask = x]
    BY <1>4, Zenon DEF Decline, AskFirst
  <2> QED BY <1>1, <2>1
<1>5. CASE Confirm
  <2>1. PICK q : q = [page EXCEPT !.ask = None]
    OBVIOUS
  <2>2. RoomPage(q)
    BY <1>1, <2>1
  <2>3. page' = [q EXCEPT !.busy = TRUE]
    BY <1>5, <2>1, Zenon DEF Confirm
  <2>4. RoomPage([q EXCEPT !["busy"] = TRUE])
    BY <2>2, RoomColumn DEF RoomFields
  <2> QED BY <2>3, <2>4
<1>6. ASSUME NEW c, RoomFetched(c) PROVE RoomPage(page')
  <2>1. PICK q1 : q1 = [page EXCEPT !.data = c.copy]
    OBVIOUS
  <2>2. RoomPage(q1)
    BY <1>1, <2>1
  <2>3. PICK q2 : q2 = [q1 EXCEPT !.error = FALSE]
    OBVIOUS
  <2>4. RoomPage([q1 EXCEPT !["error"] = FALSE])
    BY <2>2, RoomColumn DEF RoomFields
  <2>5. PICK x : page' = [q2 EXCEPT !.busy = x]
    BY <1>6, <2>1, <2>3, Zenon DEF RoomFetched
  <2>6. RoomPage([q2 EXCEPT !["busy"] = x])
    BY <2>3, <2>4, RoomColumn DEF RoomFields
  <2> QED BY <2>5, <2>6
<1>7. ASSUME NEW c, RoomFetchFailed(c) PROVE RoomPage(page')
  <2>1. PICK x : x = (page.busy /\ ~c.own)
    OBVIOUS
  <2>2. PICK y : y = (page.kind = "team" \/ (page.kind = "arena" /\ page.data = None))
    OBVIOUS
  <2>3. PICK q : q = [page EXCEPT !.busy = x]
    OBVIOUS
  <2>4. RoomPage(q)
    BY <1>1, <2>3
  <2>5. page' = [q EXCEPT !.error = y]
    BY <1>7, <2>1, <2>2, <2>3, Zenon DEF RoomFetchFailed
  <2>6. RoomPage([q EXCEPT !["error"] = y])
    BY <2>4, RoomColumn DEF RoomFields
  <2> QED BY <2>5, <2>6
<1>8. ASSUME NEW c, ActAnswered(c) \/ ActLost(c) PROVE RoomPage(page')
  <2>1. page' = page \/ page' = [page EXCEPT !.busy = FALSE]
    BY <1>8, Zenon DEF ActAnswered, ActLost
  <2> QED BY <1>1, <2>1
<1> QED BY <1>2, <1>3, <1>4, <1>5, <1>6, <1>7, <1>8 DEF RoomNext

LEMMA ClientStarts == ClientInit => ClientInv
<1> SUFFICES ASSUME ClientInit PROVE ClientInv
  OBVIOUS
<1>1. CASE RoomInit
  <2>1. RoomPage(page)
    BY <1>1 DEF RoomInit, RoomPage, RoomFields
  <2> QED BY <2>1 DEF ClientInv
<1>2. CASE SessionInit
  BY <1>2, OkInit DEF ClientInv
<1>3. CASE EntryInit
  BY <1>3, EntryInitInv DEF ClientInv
<1>4. CASE CricketInit
  BY <1>4, ConsoleInit DEF ClientInv
<1>5. CASE FootballInit
  BY <1>5, PitchInit DEF ClientInv
<1>6. CASE DeskInit
  BY <1>6, DeskStarts DEF ClientInv
<1>7. CASE BoardInit
  BY <1>7, BoardStarts DEF ClientInv
<1>8. CASE SetupInit
  BY <1>8, SetupStarts DEF ClientInv
<1> QED BY <1>1, <1>2, <1>3, <1>4, <1>5, <1>6, <1>7, <1>8 DEF ClientInit

LEMMA ClientStep == ClientInv /\ [ClientNext]_clientVars => ClientInv'
<1> SUFFICES ASSUME ClientInv, [ClientNext]_clientVars PROVE ClientInv'
  OBVIOUS
<1>1. CASE SessionOk
  <2>1. [SessionNext]_clientVars
    BY <1>1, PageOfInv DEF ClientNext
  <2> QED BY <1>1, <2>1, OkNext DEF ClientInv
<1>2. CASE EntrySafe
  <2>1. [EntryNext]_clientVars
    BY <1>2, PageOfInv DEF ClientNext
  <2> QED BY <1>2, <2>1, EntryNextInv DEF ClientInv
<1>3. CASE KeypadInv
  <2>1. [CricketNext]_clientVars
    BY <1>3, PageOfInv DEF ClientNext
  <2> QED BY <1>3, <2>1, KeypadStep DEF ClientInv
<1>4. CASE PitchInv
  <2>1. [FootballNext]_clientVars
    BY <1>4, PageOfInv DEF ClientNext
  <2> QED BY <1>4, <2>1, PitchStep DEF ClientInv
<1>5. CASE DeskInv
  <2>1. [DeskNext]_clientVars
    BY <1>5, PageOfInv DEF ClientNext
  <2> QED BY <1>5, <2>1, DeskStep DEF ClientInv
<1>6. CASE BoardInv
  <2>1. [BoardNext]_clientVars
    BY <1>6, PageOfInv DEF ClientNext
  <2> QED BY <1>6, <2>1, BoardStep DEF ClientInv
<1>7. CASE SetupInv
  <2>1. [SetupNext]_clientVars
    BY <1>7, PageOfInv DEF ClientNext
  <2> QED BY <1>7, <2>1, SetupStep DEF ClientInv
<1>8. CASE RoomPage(page)
  <2>1. [RoomNext]_clientVars
    BY <1>8, PageOfInv DEF ClientNext
  <2>2. RoomPage(page')
    BY <1>8, <2>1, RoomStays DEF clientVars
  <2> QED BY <2>2 DEF ClientInv
<1> QED BY <1>1, <1>2, <1>3, <1>4, <1>5, <1>6, <1>7, <1>8 DEF ClientInv

\* Whatever page the browser shows, what was proved of that page holds of it: the
\* consoles name the right players, the sheets are sound, a token lent is never
\* parked, nobody pays twice, a moment is called out once and a desk shows what it
\* did (App.tsx routes to one page at a time).
THEOREM EveryPageSound ==
    ClientSpec => [](/\ KeypadRight /\ ChangesFit /\ SheetsSound /\ ParkedIsOwn
                     /\ ChargedOnce /\ ReceiptClearsDraft /\ CalledOnce /\ DoneIsShown)
<1>1. SessionOk => ParkedIsOwn
  BY DEF SessionOk, OkPage, Own, ParkedIsOwn
<1>2. EntrySafe => ChargedOnce /\ ReceiptClearsDraft
  BY EntryPays DEF EntrySafe, EntryInv, Receipt, ReceiptClearsDraft
<1>3. (KeypadInv => KeypadRight) /\ (PitchInv => ChangesFit) /\ (SetupInv => SheetsSound)
  BY DEF KeypadInv, KeypadRight, PitchInv, ChangesFit, SetupInv, SheetsSound
<1>4. DeskInv => DoneIsShown
  BY DEF DeskInv, DoneIsShown, DeskQuiet, Freed, Loads, Current, UpToDate, Abreast, DeskTyped
<1>5. BoardInv => CalledOnce
  BY DEF BoardInv, CalledInOrder, CalledOnce
<1>6. ClientInv => /\ KeypadRight /\ ChangesFit /\ SheetsSound /\ ParkedIsOwn
                   /\ ChargedOnce /\ ReceiptClearsDraft /\ CalledOnce /\ DoneIsShown
  <2>1. /\ page.at # "cricket" => KeypadRight
        /\ page.at # "football" => ChangesFit
        /\ page.at # "setup" => SheetsSound
        /\ page.at # "session" => ParkedIsOwn
        /\ page.at # "entry" => ChargedOnce /\ ReceiptClearsDraft
        /\ page.at # "board" => CalledOnce
        /\ page.at # "desk" => DoneIsShown
    BY DEF KeypadRight, ChangesFit, SheetsSound, ParkedIsOwn, ChargedOnce, ReceiptClearsDraft,
           CalledOnce, DoneIsShown, DeskQuiet
  <2> QED BY <1>1, <1>2, <1>3, <1>4, <1>5, <2>1, PageOfInv DEF ClientInv
<1> QED BY <1>6, ClientStarts, ClientStep, PTL DEF ClientSpec
=============================================================================
