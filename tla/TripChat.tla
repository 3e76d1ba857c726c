------------------------------- MODULE TripChat -------------------------------
(***************************************************************************)
(* The chat between the dispatcher and a driver: driverMessageController,  *)
(* the badge and the chat window of MonitoringPage.jsx and the driver's    *)
(* DriverMessagesScreen.jsx.  Both sides poll; the socket events of        *)
(* emitMessage have no listener.  Texts are left out.                      *)
(*                                                                         *)
(* Nothing ever sets ReadByDispatcherAt, so every message of a driver      *)
(* stays unread; what the page hides is in seenCounts.                     *)
(***************************************************************************)
EXTENDS Integers, Sequences, FiniteSets, SequencesExt

CONSTANTS Trips, NoChat,
          MyTrips,     \* the trips of the driver's account
          Limit,       \* of listMyMessages: 300
          MaxMessages  \* bound: messages written
ASSUME ChatAssumption == NoChat \notin Trips /\ MyTrips \subseteq Trips /\ Limit \in Nat /\ MaxMessages \in Nat

VARIABLES messages,    \* DriverMessage, oldest first: [trip, from]
          unread,      \* cache: ["driver-message-unread"], a count for each trip
          unreadPoll,  \* the answer under way, or <<>>
          seen,        \* seenCounts
          chat,        \* chatTrip
          listed,      \* cache: ["driver-messages", trip]
          chatFetch,   \* of each trip: [at, got, fresh]
          fresh,       \* history: the open chat has loaded since it was opened
          tab,         \* the driver's selectedTripId
          mine,        \* the messages on the driver's screen
          timer,       \* the tab the 4 s timer asks for
          answers,     \* answers under way to the driver's screen: [tab, got, reply, late]
          reply,       \* the driver's reply: [at, trip, tab]
          late         \* history: the last answer was asked for before the tab was chosen

chatting == <<messages, unread, unreadPoll, seen, chat, listed, chatFetch, fresh, tab, mine, timer, answers, reply, late>>
deskSide == <<unread, unreadPoll, seen, chat, listed, chatFetch, fresh>>
driverSide == <<tab, mine, timer, answers, reply, late>>
driverSideButReply == <<tab, mine, timer, answers, late>>

NoChatFetch == [at |-> "none", got |-> {}, fresh |-> FALSE]
NoReply == [at |-> "none", trip |-> NoChat, tab |-> NoChat]

ChatInit ==
    /\ messages = <<>>
    /\ unread = [t \in Trips |-> 0] /\ unreadPoll = <<>>
    /\ seen = [t \in Trips |-> 0] /\ chat = NoChat
    /\ listed = [t \in Trips |-> {}]
    /\ chatFetch = [t \in Trips |-> NoChatFetch] /\ fresh = FALSE
    /\ tab = NoChat /\ mine = {} /\ timer = NoChat /\ answers = {}
    /\ reply = NoReply /\ late = FALSE

-----------------------------------------------------------------------------
(* The controller.                                                         *)

OfTrip(t) == {i \in DOMAIN messages : messages[i].trip = t}
FromDriver(S) == {i \in S : messages[i].from = "DRIVER"}
Oldest(S, n) == {i \in S : Cardinality({j \in S : j < i}) < n}

\* Mutant: whoever wrote them.
CountEverybody == [t \in Trips |-> Cardinality(OfTrip(t))]

UnreadCounts == [t \in Trips |-> Cardinality(FromDriver(OfTrip(t)))]
MyMessages(t) ==
    IF t = NoChat THEN Oldest({i \in DOMAIN messages : messages[i].trip \in MyTrips}, Limit) ELSE OfTrip(t)

Write(t, from) == messages' = Append(messages, [trip |-> t, from |-> from])

-----------------------------------------------------------------------------
(* The dispatcher's page.                                                  *)

UnreadRead ==
    /\ unreadPoll = <<>>
    /\ unreadPoll' = <<UnreadCounts>>
    /\ UNCHANGED <<messages, unread, seen, chat, listed, chatFetch, fresh, driverSide>>

UnreadArrives ==
    /\ unreadPoll # <<>>
    /\ unread' = Head(unreadPoll) /\ unreadPoll' = <<>>
    /\ UNCHANGED <<messages, seen, chat, listed, chatFetch, fresh, driverSide>>

Badge(t) == IF unread[t] > seen[t] THEN unread[t] - seen[t] ELSE 0

\* What an earlier opening has read may still arrive.
OpenChat(t) ==
    /\ chat = NoChat /\ chat' = t
    /\ seen' = [seen EXCEPT ![t] = unread[t]]
    /\ chatFetch' = [chatFetch EXCEPT ![t] = IF @.at = "none" THEN [@ EXCEPT !.at = "asked"] ELSE [@ EXCEPT !.fresh = FALSE]]
    /\ fresh' = FALSE
    /\ UNCHANGED <<messages, unread, unreadPoll, listed, driverSide>>

CloseChat ==
    /\ chat # NoChat /\ chat' = NoChat
    /\ seen' = [seen EXCEPT ![chat] = unread[chat]]
    /\ fresh' = FALSE
    /\ UNCHANGED <<messages, unread, unreadPoll, listed, chatFetch, driverSide>>

ChatRead(t) ==
    /\ chatFetch[t].at = "asked"
    /\ chatFetch' = [chatFetch EXCEPT ![t] = [at |-> "read", got |-> OfTrip(t), fresh |-> chat = t]]
    /\ UNCHANGED <<messages, unread, unreadPoll, seen, chat, listed, fresh, driverSide>>

\* An open chat asks again.
ChatArrives(t) ==
    /\ chatFetch[t].at = "read"
    /\ listed' = [listed EXCEPT ![t] = chatFetch[t].got]
    /\ chatFetch' = [chatFetch EXCEPT ![t] = IF chat = t THEN [NoChatFetch EXCEPT !.at = "asked"] ELSE NoChatFetch]
    /\ fresh' = (fresh \/ (chat = t /\ chatFetch[t].fresh))
    /\ UNCHANGED <<messages, unread, unreadPoll, seen, chat, driverSide>>

\* sendTripMessage; the answer asks for the list anew and drops what is under way.
DispatcherWrites ==
    /\ chat # NoChat /\ Len(messages) < MaxMessages
    /\ Write(chat, "DISPATCHER")
    /\ chatFetch' = [chatFetch EXCEPT ![chat] = [NoChatFetch EXCEPT !.at = "asked"]]
    /\ UNCHANGED <<unread, unreadPoll, seen, chat, listed, fresh, driverSide>>

-----------------------------------------------------------------------------
(* The driver's screen.                                                    *)

Newest(S) == CHOOSE i \in S : \A j \in S : j <= i
\* The trips of what is shown, the one with the newest message first.
ActiveTrip == IF tab # NoChat THEN tab ELSE IF mine = {} THEN NoChat ELSE messages[Newest(mine)].trip

Asking(t, isReply, isLate) == [tab |-> t, got |-> MyMessages(t), reply |-> isReply, late |-> isLate]

\* fetchMessages of the timer and of the focus.
DriverPolls ==
    /\ \A a \in answers : a.reply \/ a.late
    /\ answers' = answers \cup {Asking(timer, FALSE, FALSE)}
    /\ UNCHANGED <<messages, deskSide, tab, mine, timer, reply, late>>

AnswerArrives(a) ==
    /\ a \in answers
    /\ answers' = answers \ {a}
    /\ mine' = a.got /\ late' = a.late
    /\ reply' = IF a.reply THEN NoReply ELSE reply
    /\ UNCHANGED <<messages, deskSide, tab, timer>>

\* Mutant: the timer keeps the tab it was started with.
TimerStays(t) == timer

\* The effect of fetchMessages starts the timer anew.
TimerFor(t) == t

\* The tabs are gone once one is chosen.
ChooseTab(t) ==
    /\ tab = NoChat
    /\ t \in {messages[i].trip : i \in mine} /\ Cardinality({messages[i].trip : i \in mine}) > 1
    /\ tab' = t /\ timer' = TimerFor(t)
    /\ answers' = {[a EXCEPT !.late = TRUE] : a \in answers} /\ late' = TRUE
    /\ UNCHANGED <<messages, deskSide, mine, reply>>

PressSend ==
    /\ reply.at = "none" /\ ActiveTrip # NoChat /\ Len(messages) < MaxMessages
    /\ reply' = [at |-> "sent", trip |-> ActiveTrip, tab |-> tab]
    /\ UNCHANGED <<messages, deskSide, tab, mine, timer, answers, late>>

\* sendMyTripMessage.
ReplyIsStored ==
    /\ reply.at = "sent" /\ Len(messages) < MaxMessages
    /\ Write(reply.trip, "DRIVER")
    /\ reply' = [reply EXCEPT !.at = "stored"]
    /\ UNCHANGED <<deskSide, driverSideButReply>>

\* send() then loads for the tab it was pressed on.
ReplyLoads ==
    /\ reply.at = "stored"
    /\ reply' = [reply EXCEPT !.at = "loading"]
    /\ answers' = answers \cup {Asking(reply.tab, TRUE, reply.tab # tab)}
    /\ UNCHANGED <<messages, deskSide, tab, mine, timer, late>>

ReplyFails ==
    /\ reply.at = "sent" /\ reply' = NoReply
    /\ UNCHANGED <<messages, deskSide, driverSideButReply>>

\* From the menu or from a trip.  Answers to the former screen are dropped; a reply under
\* way is stored or lost.
OpenScreen(t) ==
    /\ tab' = t /\ timer' = t
    /\ mine' = {} /\ answers' = {} /\ reply' = NoReply /\ late' = FALSE
    /\ \/ UNCHANGED messages
       \/ reply.at = "sent" /\ Len(messages) < MaxMessages /\ Write(reply.trip, "DRIVER")
    /\ UNCHANGED deskSide

ChatNext ==
    \/ UnreadRead \/ UnreadArrives \/ CloseChat \/ DispatcherWrites
    \/ \E t \in Trips : OpenChat(t) \/ ChatRead(t) \/ ChatArrives(t)
    \/ DriverPolls \/ \E a \in answers : AnswerArrives(a)
    \/ \E t \in MyTrips : ChooseTab(t)
    \/ \E t \in MyTrips \cup {NoChat} : OpenScreen(t)
    \/ PressSend \/ ReplyIsStored \/ ReplyLoads \/ ReplyFails

-----------------------------------------------------------------------------
\* What a chat that is open takes off the badge (MonitoringPage.jsx:438-463, counted by one
\* poll) is in the list it shows (loaded by another) once it has loaded; and the driver's
\* screen shows the messages of the trip that is chosen (DriverMessagesScreen.jsx:27),
\* unless what came in last was asked for before.
ChatsShowTheirTrip ==
    /\ chat # NoChat /\ fresh => Cardinality(FromDriver(listed[chat])) >= seen[chat]
    /\ tab # NoChat /\ ~late => mine \subseteq OfTrip(tab)
=============================================================================
