----------------------------- MODULE ClientPages -----------------------------
(***************************************************************************)
(* The browser as a whole: one page of the client at a time, with the      *)
(* requests it has under way.  A page that is left takes its state along,  *)
(* so each behaviour is that of one page.                                  *)
(***************************************************************************)
EXTENDS CricketConsole, FootballConsole, MatchSetup, Session, TeamEntry, Board,
        AuctionRoom, Desk

ClientInit ==
    \/ CricketInit \/ FootballInit \/ SetupInit \/ SessionInit
    \/ EntryInit \/ BoardInit \/ RoomInit \/ DeskInit

ClientNext ==
    \/ page.at = "cricket"  /\ CricketNext
    \/ page.at = "football" /\ FootballNext
    \/ page.at = "setup"    /\ SetupNext
    \/ page.at = "session"  /\ SessionNext
    \/ page.at = "entry"    /\ EntryNext
    \/ page.at = "board"    /\ BoardNext
    \/ page.at = "room"     /\ RoomNext
    \/ page.at = "desk"     /\ DeskNext

ClientSpec == ClientInit /\ [][ClientNext]_clientVars

\* What the browser and the API do without anybody touching the page.
ClientFairness == SessionFairness /\ BoardFairness /\ RoomFairness /\ DeskFairness
=============================================================================
