------------------------------ MODULE MCScreens ------------------------------
EXTENDS PlanningScreen, RouteMap, IncidentDesk, TripChat, NoticeList, MaintenanceDesk, TLC

VARIABLE part    \* the screen at work in this behaviour

TwoTrips == {"t1", "t2"}
\* The parts share two pairs of interchangeable names, so that there are four symmetries.
Symmetry == Permutations(Plans) \cup Permutations(Calls)

MCInit ==
    /\ part \in {"planning", "map", "desk", "chat", "notices", "jobs"}
    /\ ScreenInit /\ MapInit /\ DeskInit /\ ChatInit /\ NoticesInit /\ JobsInit
    /\ part = "planning" \/ plans = <<>>
MCNext ==
    \/ part = "planning" /\ ScreenNext
       /\ UNCHANGED <<map, desk, chatting, noticeList, jobs, part>>
    \/ part = "map" /\ MapNext
       /\ UNCHANGED <<screen, desk, chatting, noticeList, jobs, part>>
    \/ part = "desk" /\ DeskNext
       /\ UNCHANGED <<screen, map, chatting, noticeList, jobs, part>>
    \/ part = "chat" /\ ChatNext
       /\ UNCHANGED <<screen, map, desk, noticeList, jobs, part>>
    \/ part = "notices" /\ NoticesNext
       /\ UNCHANGED <<screen, map, desk, chatting, jobs, part>>
    \/ part = "jobs" /\ JobsNext
       /\ UNCHANGED <<screen, map, desk, chatting, noticeList, part>>
MCSpec == MCInit /\ [][MCNext]_<<screen, map, desk, chatting, noticeList, jobs, part>>

\* What is unread is neither left out of a count nor taken off it unseen: by the chat and the
\* badges of MonitoringPage.jsx:422-463, nor by the list of NotificationsScreen.jsx:59-109.
CountsAreHonest == ChatsShowTheirTrip /\ CountHidesNothing

\* What one has closed, done or reported is undone only by those who could not know: from
\* the incident cards of MonitoringPage.jsx:634-716, and the maintenance form and approvals
\* of MaintenanceTab.jsx:129-180.
UndoneUnaware == ClosedReopensUnaware /\ OfficeKnowsItsOwnWork

\* Bounds: the dispatcher opens one of the two trips; one answer is under way to the
\* driver while the chat is open, and a third message is written when it is closed and at rest.
FewMessages ==
    /\ chat # "t2"
    /\ Cardinality(answers) <= 1 \/ chat = NoChat
    /\ \/ Len(messages) <= 2
       \/ /\ chat = NoChat /\ unreadPoll = <<>>
          /\ \A t \in Trips : unread[t] = 0 /\ chatFetch[t] = NoChatFetch
=============================================================================
