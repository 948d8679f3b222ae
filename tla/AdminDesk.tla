----------------------------- MODULE AdminDesk -------------------------------
(***************************************************************************)
(* The platform administrator's pages, as desks (see DeskKit).             *)
(***************************************************************************)
EXTENDS DeskKit

\* Reviews of the platform.  One flight for everything on the page, held until the
\* list is back.  A review can only be shown while its club is active; ticked ones
\* are shown or hidden together, and a list that comes in has nothing ticked.
ReviewRows == [hidden : BOOLEAN, club : BOOLEAN, ticked : {FALSE}]
ReviewFilters == <<"live", "stars">>
Guarded(o) == Locking("inFlight", Then("await", o))
SaveReviewSetting == Guarded(Save)
ToggleReview(hide) == Guarded(Do([hidden |-> hide]))
TickReview(on) == Typed([ticked |-> on])
BulkReviews(hide) == Guarded(Do([hidden |-> hide]))
AddReview == Dialog(Locking("adding", Save))
ReviewsDo ==
    [saveSetting |-> SaveReviewSetting, hide |-> ToggleReview(TRUE), show |-> ToggleReview(FALSE),
     tick |-> TickReview(TRUE), clear |-> TickReview(FALSE),
     bulkHide |-> BulkReviews(TRUE), bulkShow |-> BulkReviews(FALSE), add |-> AddReview]
ReviewsOffer ==
    LET on == [hidden : BOOLEAN, club : BOOLEAN, ticked : BOOLEAN]
        ticked == {r \in on : r.ticked}
    IN  [hide |-> {r \in on : ~r.hidden /\ r.club}, show |-> {r \in on : r.hidden /\ r.club},
         tick |-> on \ ticked, clear |-> ticked, bulkHide |-> ticked, bulkShow |-> ticked]
ReviewsPage == DeskPage(Numbered(ReviewFilters), ReviewRows, ReviewsDo, ReviewsOffer)

\* Users: a password for one time, for anybody but oneself; it is shown once.
UserRows == [me : {FALSE}, temporary : BOOLEAN] \cup [me : {TRUE}, temporary : {FALSE}]
UserFilters == <<"ALL", "PLAYER">>
IssuePassword == Opening("issued", Asking(Locking("resettingUserId", Do([temporary |-> TRUE]))))
UsersOffer == [reset |-> {r \in UserRows : ~r.me}]
UsersPage == DeskPage(Numbered(UserFilters), UserRows, [reset |-> IssuePassword], UsersOffer)

\* Terms and privacy: a new version, never an edit of an old one, and who accepted it.
LegalTypes == [terms |-> [version : 0..2], privacy |-> [version : 0..2]]
PublishForm == Inline(Asking(Locking("busy", Do([version |-> 2]))))
LegalPage ==
    Tabbed("terms", LegalTypes,
           DeskPage([Once EXCEPT !.fails = "empty"], [version : 0..2], [publish |-> PublishForm],
                    Nothing))
AcceptanceList == DeskPage(Numbered(<<"all", "searched">>), [accepted : BOOLEAN], Nothing, Nothing)

\* Clubs: the page filters the list itself.  A club made here gets a password for
\* one time, shown once.
OrganizationRows == [status : {"active", "suspended"}]
StatusToggle(status) == Do([status |-> status])
CreateOrg == Opening("issued", Dialog(Locking("creating", Save)))
OrganizationsOffer ==
    [suspend |-> {[status |-> "active"]}, activate |-> {[status |-> "suspended"]}]
FilteredOrganizations ==
    [all |-> OrganizationRows, active |-> {[status |-> "active"]},
     suspended |-> {[status |-> "suspended"]}]
OrganizationsPage ==
    Tabbed("all", FilteredOrganizations,
           DeskPage(Hiding(Once), OrganizationRows,
                    [suspend |-> StatusToggle("suspended"), activate |-> StatusToggle("active"),
                     create |-> CreateOrg], OrganizationsOffer))

\* Plans.  Nothing locks the form; a changed order, by arrows or by dragging, is
\* shown before it is saved, and taken back if it is refused.
PlanRows == [status : {"active", "inactive"}, popular : BOOLEAN, place : 1..2]
SavePlan == Dialog(Save)
TogglePlanStatus(status) == Asking(Do([status |-> status]))
ToggleBadge(on) == Do([popular |-> on])
DeletePlan == Asking(Do([status |-> "inactive"]))
SaveOrder(to) == Then("early", Do(to))
MovePlan(place) == SaveOrder([place |-> place])
PlansOffer ==
    [activate |-> {r \in PlanRows : r.status = "inactive"},
     deactivate |-> {r \in PlanRows : r.status = "active"},
     badge |-> {r \in PlanRows : ~r.popular}, badgeOff |-> {r \in PlanRows : r.popular},
     up |-> {r \in PlanRows : r.place = 2}, down |-> {r \in PlanRows : r.place = 1}]
PlansPage ==
    DeskPage(Hiding(Once), PlanRows,
             [savePlan |-> SavePlan, delete |-> DeletePlan,
              activate |-> TogglePlanStatus("active"), deactivate |-> TogglePlanStatus("inactive"),
              badge |-> ToggleBadge(TRUE), badgeOff |-> ToggleBadge(FALSE),
              up |-> MovePlan(1), down |-> MovePlan(2)],
             PlansOffer)

\* Sports: each can be switched off for everybody.
SportToggle(on) == Locking("savingId", Then("patch", Do([active |-> on])))
SportsOffer == [enable |-> {[active |-> FALSE]}, disable |-> {[active |-> TRUE]}]
SportsPage ==
    DeskPage(Hiding(Once), [active : BOOLEAN],
             [enable |-> SportToggle(TRUE), disable |-> SportToggle(FALSE)], SportsOffer)

\* The platform's settings: one form of three sections, sent whole and shown as
\* the API has taken it.
PlatformSettings == [general : BOOLEAN, footer : BOOLEAN, gateways : BOOLEAN]
EditGeneral == Typed([general |-> TRUE])
UpdateFooter == Typed([footer |-> TRUE])
UpdateGateway == Typed([gateways |-> TRUE])
SavePlatform ==
    Sending({"general", "footer", "gateways"}, Locking("saving", Then("answer", Save)))
SettingsPage ==
    DeskPage(Hiding(Once), {r \in PlatformSettings : ~r.general /\ ~r.footer /\ ~r.gateways},
             [general |-> EditGeneral, footer |-> UpdateFooter, gateways |-> UpdateGateway,
              save |-> SavePlatform], Nothing)

\* The support inbox, and a ticket of it.
TicketStatus == {"open", "awaiting_reply", "resolved", "closed"}
SupportInbox == DeskPage(Numbered(<<"open", "resolved">>), [status : TicketStatus], Nothing, Nothing)
TicketRows == [status : TicketStatus, urgent : {FALSE}]
ChangeTicket(to) == Locking("busy", Then("answer", Do(to)))
ReplyAsAdmin == Locking("replying", Then("answer", Do([status |-> "awaiting_reply"])))
InternalNote == Locking("replying", Then("answer", Save))
AdminTicket ==
    DeskPage(Failing(Once), TicketRows,
             [resolve |-> ChangeTicket([status |-> "resolved"]),
              urgent |-> ChangeTicket([urgent |-> TRUE]),
              reply |-> ReplyAsAdmin, note |-> InternalNote], Nothing)

\* What everybody did, and what every club pays: nothing to press but tabs.
AuditLogsPage == DeskPage(Numbered(<<"all", "searched">>), [shown : BOOLEAN], Nothing, Nothing)
SubscriptionsPage ==
    LET rows == [invoiced : BOOLEAN]
    IN  Tabbed("subscriptions", [subscriptions |-> rows, invoices |-> {[invoiced |-> TRUE]}],
               DeskPage(Hiding(Once), rows, Nothing, Nothing))

AdminPages ==
    [reviews |-> ReviewsPage, users |-> UsersPage, legal |-> LegalPage,
     acceptances |-> AcceptanceList, organizations |-> OrganizationsPage, plans |-> PlansPage,
     sports |-> SportsPage, settings |-> SettingsPage, inbox |-> SupportInbox,
     ticket |-> AdminTicket, auditLogs |-> AuditLogsPage, subscriptions |-> SubscriptionsPage]
=============================================================================
