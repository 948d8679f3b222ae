------------------------------ MODULE ClubDesk -------------------------------
(***************************************************************************)
(* The club's own pages, as desks (see DeskKit).                           *)
(***************************************************************************)
EXTENDS DeskKit

\* The auction's office: a player of the pool, what his buyer owes for him, and the
\* settings of the auction as they were last typed.  Every refetch blanks the page
\* and fills the settings in again.
PoolRows == [status : {"registered", "approved", "rejected", "gone"}, paid : {FALSE}, purse : {1}]
            \cup [status : {"sold"}, paid : BOOLEAN, purse : {1}]
AuctionTabs == {"overview", "players", "settings", "history"}
ChangeAuctionStatus == OnTab("overview", Save)
ApprovePlayer == OnTab("players", Do([status |-> "approved"]))
RejectPlayer == OnTab("players", Do([status |-> "rejected"]))
DeletePlayer == OnTab("players", Asking(Do([status |-> "gone"])))
QuickTogglePayment(paid) == OnTab("history", Do([paid |-> paid]))
SavePaymentModal(paid) == OnTab("history", Dialog(Locking("savingPayment", Do([paid |-> paid]))))
BulkUpdatePayments(paid) == OnTab("history", Asking(Locking("bulkProcessing", Do([paid |-> paid]))))
EditAuctionSettings == OnTab("settings", Typed([purse |-> 2]))
SaveAuctionSettings == OnTab("settings", Sending({"purse"}, Locking("savingSettings", Save)))
PoolDo ==
    [auctionStatus |-> ChangeAuctionStatus, approve |-> ApprovePlayer, reject |-> RejectPlayer,
     remove |-> DeletePlayer, edit |-> EditAuctionSettings, saveSettings |-> SaveAuctionSettings]
PoolMoneyDo ==
    [paid |-> QuickTogglePayment(TRUE), unpaid |-> QuickTogglePayment(FALSE),
     record |-> SavePaymentModal(TRUE), recordPending |-> SavePaymentModal(FALSE),
     allPaid |-> BulkUpdatePayments(TRUE), allPending |-> BulkUpdatePayments(FALSE)]
Typing == {[r EXCEPT !.purse = p] : r \in PoolRows, p \in 1..2}
PoolOffer ==
    [approve |-> {r \in Typing : r.status = "registered"},
     reject |-> {r \in Typing : r.status = "registered"},
     remove |-> {r \in Typing : r.status \notin {"rejected", "gone"}}]
PoolMoneyOffer ==
    LET sold == {r \in Typing : r.status = "sold"}
        settled == {r \in sold : r.paid}
    IN  [paid |-> sold \ settled, unpaid |-> settled, record |-> sold, recordPending |-> sold,
         allPaid |-> sold \ settled, allPending |-> settled]
Both(f, g) == [x \in DOMAIN f \cup DOMAIN g |-> IF x \in DOMAIN f THEN f[x] ELSE g[x]]
AuctionOffice ==
    Tabbed("overview", [t \in AuctionTabs |-> Typing],
           DeskPage(Hiding(Once), PoolRows, Both(PoolDo, PoolMoneyDo),
                    Both(PoolOffer, PoolMoneyOffer)))

\* The club's tournaments.  Nothing locks the form; an edit sends back every field
\* it was opened with.
TournamentRows == [status : {"upcoming", "completed", "cancelled"}, fee : 1..2, dates : 1..2]
SubmitTournament == Dialog(Save)
SubmitUpdate == Dialog(Sending({"fee", "dates"}, Do([fee |-> 2])))
CancelTournament == Asking(Then("patch", Do([status |-> "cancelled"])))
GeneratePoster == Opening("poster", Locking("generatingPosterId", Then("patch", Save)))
VenueMap == Viewing
TournamentsOffer == [cancel |-> {r \in TournamentRows : r.status = "upcoming"}]
TournamentsPage ==
    DeskPage(Hiding(Once), TournamentRows,
             [submit |-> SubmitTournament, update |-> SubmitUpdate, cancel |-> CancelTournament,
              poster |-> GeneratePoster, map |-> VenueMap], TournamentsOffer)

\* The entries of a tournament and their ground fees.
EntryRows == [status : {"pending", "approved", "rejected"}, due : BOOLEAN]
ChangeEntryStatus(status) == Asking(Do([status |-> status]))
MarkPaid == Asking(Do([due |-> FALSE]))
OfflinePayment == Dialog(Locking("isSubmitting", Do([due |-> FALSE])))
RosterModal == Viewing
TeamsOffer ==
    [approve |-> {r \in EntryRows : r.status = "pending"},
     reject |-> {r \in EntryRows : r.status = "pending"},
     markPaid |-> {r \in EntryRows : r.due}, recordPayment |-> {r \in EntryRows : r.due}]
TeamsPage ==
    DeskPage(Plain(<<"this", "other">>), EntryRows,
             [approve |-> ChangeEntryStatus("approved"), reject |-> ChangeEntryStatus("rejected"),
              markPaid |-> MarkPaid, recordPayment |-> OfflinePayment, roster |-> RosterModal],
             TeamsOffer)

\* The fixtures of a tournament: built at once, cancelled one by one.
FixtureRows == [status : {"scheduled", "in_progress", "completed", "cancelled", "none"}]
AutoGenerate == Asking(Locking("generating", Do([status |-> "scheduled"])))
CancelMatch == Asking(Then("patch", Do([status |-> "cancelled"])))
FixturesOffer == [cancel |-> {[status |-> "scheduled"], [status |-> "in_progress"]}]
FixturesPage ==
    DeskPage(Plain(<<"this", "other">>), FixtureRows,
             [generate |-> AutoGenerate, cancel |-> CancelMatch], FixturesOffer)

\* The club's plan, what it uses of it, and its invoices.
BillingRows == [plan : {"mine", "other"}]
Renew == Locking("renewing", Do([plan |-> "mine"]))
SwitchPlan == OnTab("overview", Locking("switchingPlanId", Do([plan |-> "other"])))
PlanPicker == Dialog(Do([plan |-> "other"]))
BillingTabs == [overview |-> BillingRows, invoices |-> BillingRows]
BillingPage ==
    Tabbed("overview", BillingTabs,
           DeskPage(Failing(Hiding(Once)), BillingRows,
                    [renew |-> Renew, switch |-> SwitchPlan, pick |-> PlanPicker], Nothing))

\* What is sent to whom, and the log of it, by pages and filters.
MessagingRows == [on : BOOLEAN, event : BOOLEAN]
LogFilters == <<"", "failed">>
SaveMessaging(on) == Locking("saving", Then("answer", Do([on |-> on])))
ToggleEvent(on) == Locking("saving", Then("early", Do([event |-> on])))
AddOptOut == Save
RemoveOptOut == Asking(Save)
MessagingOffer ==
    LET on == {r \in MessagingRows : r.on}
    IN  [enable |-> MessagingRows \ on, disable |-> on,
         eventOn |-> {r \in on : ~r.event}, eventOff |-> {r \in on : r.event}]
MessagingPage ==
    DeskPage(Plain(LogFilters), MessagingRows,
             [enable |-> SaveMessaging(TRUE), disable |-> SaveMessaging(FALSE),
              eventOn |-> ToggleEvent(TRUE), eventOff |-> ToggleEvent(FALSE),
              optOut |-> AddOptOut, optIn |-> RemoveOptOut], MessagingOffer)

\* Grounds: one form adds, or edits the ground it was filled in from.
VenueRows == [status : {"listed", "gone"}, name : 1..2, maps : 1..2]
SubmitVenue == Locking("saving", Save)
EditVenue == Inline(Sending({"name", "maps"}, Locking("saving", Do([name |-> 2]))))
RemoveVenue == Asking(Do([status |-> "gone"]))
VenuesOffer ==
    LET listed == {r \in VenueRows : r.status = "listed"}
    IN  [edit |-> listed, remove |-> listed]
VenuesPage ==
    DeskPage(Hiding(Once), VenueRows,
             [add |-> SubmitVenue, edit |-> EditVenue, remove |-> RemoveVenue], VenuesOffer)

\* What is shown on the big screen during a match, prepared one match at a time.
OnList == [status : {"listed", "gone"}]
Listed == {[status |-> "listed"]}
CreateAnnouncement == Locking("saving", Save)
DeleteAnnouncement == Asking(Do([status |-> "gone"]))
AnnouncementsPage ==
    DeskPage(Plain(<<"match", "other">>), OnList,
             [create |-> CreateAnnouncement, delete |-> DeleteAnnouncement], [delete |-> Listed])
CreateAd == Dialog(Locking("isSubmitting", Save))
DeleteAd == OnTab("ads", Asking(Do([status |-> "gone"])))
CopyAd == OnTab("ads", Dialog(Then("nothing", Save)))
AdsPage ==
    Tabbed("ads", [ads |-> OnList, sponsors |-> OnList],
           DeskPage(Plain(<<"match", "other">>), OnList,
                    [create |-> CreateAd, delete |-> DeleteAd, copy |-> CopyAd],
                    [delete |-> Listed, copy |-> Listed]))

\* People of the club; a password for one time, shown once.
MemberFilters == <<"all", "TEAM_MANAGER">>
ResetMember == Opening("issued", Asking(Locking("resettingId", Do([temporary |-> TRUE]))))
MembersPage == DeskPage(Numbered(MemberFilters), [temporary : BOOLEAN], [reset |-> ResetMember], Nothing)

\* The club's tickets at the support desk, a new one, and one of them.
NewTicket == Dialog(Locking("busy", Then("nothing", Save)))
ClubTickets ==
    DeskPage(Numbered(<<"all", "searched">>), [status : {"open", "closed"}], [new |-> NewTicket], Nothing)
ClubTicketRows == [status : {"open", "awaiting_reply", "resolved", "closed"}]
SetTicketStatus(status) == Locking("busy", Then("answer", Do([status |-> status])))
ReplyAsClub == Locking("replying", Then("answer", Do([status |-> "open"])))
ClubTicketOffer ==
    [resolve |-> {[status |-> "open"], [status |-> "awaiting_reply"]},
     reopen |-> {[status |-> "resolved"]},
     reply |-> ClubTicketRows \ {[status |-> "closed"]}]
ClubTicket ==
    DeskPage(Failing(Once), ClubTicketRows,
             [resolve |-> SetTicketStatus("resolved"), reopen |-> SetTicketStatus("open"),
              reply |-> ReplyAsClub], ClubTicketOffer)

\* Everybody's own notifications: opening one marks it read and follows its link;
\* the list is fetched again for whatever is on screen by then.
OpenItem == Then("current", Do([read |-> TRUE]))
ReadAll == Then("current", Do([read |-> TRUE]))
NoticesOffer == [read |-> {[read |-> FALSE]}, readAll |-> {[read |-> FALSE]}]
NoticesPage ==
    DeskPage(Numbered(<<"all", "unread">>), [read : BOOLEAN], [read |-> OpenItem, readAll |-> ReadAll],
             NoticesOffer)

\* A team manager's fees: half or all of what is due.
PayFee(due) == Locking("paying", Do([due |-> due]))
FeesOffer == [half |-> {[due |-> 2]}, full |-> {[due |-> 1], [due |-> 2]}]
FeesPage ==
    DeskPage(Stuck(Once), [due : 0..2], [half |-> PayFee(1), full |-> PayFee(0)], FeesOffer)

ClubPages ==
    [pool |-> AuctionOffice, tournaments |-> TournamentsPage, teams |-> TeamsPage,
     fixtures |-> FixturesPage, billing |-> BillingPage, messaging |-> MessagingPage,
     venues |-> VenuesPage, announcements |-> AnnouncementsPage, ads |-> AdsPage,
     members |-> MembersPage, tickets |-> ClubTickets, clubTicket |-> ClubTicket,
     notices |-> NoticesPage, fees |-> FeesPage]
=============================================================================
