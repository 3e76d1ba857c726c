------------------------------ MODULE NoticeList ------------------------------
(***************************************************************************)
(* A driver's notifications: driverNotificationController and the count    *)
(* and the cards of NotificationsScreen.jsx, which changes both on its own *)
(* when a mark is answered.                                                *)
(*                                                                         *)
(* External: trip and maintenance handlers create the notifications.       *)
(***************************************************************************)
EXTENDS Integers, Sequences, FiniteSets, SequencesExt

CONSTANTS Marks,      \* slots for marks being served
          CardsShown,      \* cards the list holds: 50
          MaxNotices  \* bound: notifications made
ASSUME NoticeAssumption == IsFiniteSet(Marks) /\ CardsShown \in Nat /\ MaxNotices \in Nat

VARIABLES notices,   \* IsRead of each Notification, oldest first
          cards,     \* items: [n, read], newest first
          count,     \* unread
          loading,   \* while it loads there is no list to press, unless it was pulled
          load,      \* the answer under way, or <<>>
          mark,      \* of each call: [at, n], n = 0 for all
          reached,   \* history: notifications that existed when what is shown was read
          muddled    \* history: one was marked that was read already, or a list read between a mark and its answer

noticeList == <<notices, cards, count, loading, load, mark, reached, muddled>>

NoMark == [at |-> "none", n |-> 0]

NoticesInit ==
    /\ notices = <<>>
    /\ cards = <<>> /\ count = 0 /\ loading = TRUE /\ load = <<>>
    /\ mark = [m \in Marks |-> NoMark]
    /\ reached = 0 /\ muddled = FALSE

UnreadOf(ns) == Cardinality({n \in DOMAIN ns : ~ns[n]})
Lowered(c) == IF c > 0 THEN c - 1 ELSE 0

Notify ==
    /\ Len(notices) < MaxNotices
    /\ notices' = Append(notices, FALSE)
    /\ UNCHANGED <<cards, count, loading, load, mark, reached, muddled>>

\* listMyNotifications.
ReadList ==
    /\ load = <<>>
    /\ load' = << [cards |-> [i \in 1 .. (IF Len(notices) < CardsShown THEN Len(notices) ELSE CardsShown) |->
                                LET n == Len(notices) + 1 - i IN [n |-> n, read |-> notices[n]]],
                   count |-> UnreadOf(notices), reached |-> Len(notices),
                   amid |-> \E m \in Marks : mark[m].at = "served"] >>
    /\ UNCHANGED <<notices, cards, count, loading, mark, reached, muddled>>

\* On focus the list is gone until it is loaded; pulled down, it stays.
Focus ==
    /\ ~loading /\ loading' = TRUE
    /\ UNCHANGED <<notices, cards, count, load, mark, reached, muddled>>

ListLoaded ==
    /\ load # <<>>
    /\ LET got == Head(load)
       IN /\ cards' = got.cards /\ count' = got.count /\ reached' = got.reached
          /\ muddled' = (got.amid \/ \E m \in Marks : mark[m].at = "served")
    /\ load' = <<>> /\ loading' = FALSE
    /\ UNCHANGED <<notices, mark>>

LoadFails ==
    /\ load # <<>> /\ load' = <<>> /\ loading' = FALSE
    /\ UNCHANGED <<notices, cards, count, mark, reached, muddled>>

\* handlePress.
PressCard(m, i) ==
    /\ ~loading /\ i \in DOMAIN cards /\ ~cards[i].read
    /\ mark[m] = NoMark
    /\ mark' = [mark EXCEPT ![m] = [at |-> "sent", n |-> cards[i].n]]
    /\ UNCHANGED <<notices, cards, count, loading, load, reached, muddled>>

\* handleMarkAllRead, offered while the count is not zero.
PressAll(m) ==
    /\ count > 0 /\ mark[m] = NoMark
    /\ mark' = [mark EXCEPT ![m] = [at |-> "sent", n |-> 0]]
    /\ UNCHANGED <<notices, cards, count, loading, load, reached, muddled>>

\* markRead and markAllRead, which also marks what was never on the screen.
MarkServed(m) ==
    /\ mark[m].at = "sent"
    /\ notices' = [n \in DOMAIN notices |-> notices[n] \/ mark[m].n \in {0, n}]
    /\ mark' = [mark EXCEPT ![m].at = "served"]
    /\ muddled' = (muddled \/ (mark[m].n > 0 /\ notices[mark[m].n]))
    /\ UNCHANGED <<cards, count, loading, load, reached>>

MarkAnswered(m) ==
    /\ mark[m].at = "served" /\ mark' = [mark EXCEPT ![m] = NoMark]
    /\ IF mark[m].n = 0
       THEN /\ cards' = [i \in DOMAIN cards |-> [cards[i] EXCEPT !.read = TRUE]]
            /\ count' = 0
       ELSE /\ cards' = [i \in DOMAIN cards |-> [cards[i] EXCEPT !.read = @ \/ cards[i].n = mark[m].n]]
            /\ count' = Lowered(count)
    /\ UNCHANGED <<notices, loading, load, reached, muddled>>

\* Without an answer the screen stays as it is.
MarkFails(m) ==
    /\ mark[m].at # "none" /\ mark' = [mark EXCEPT ![m] = NoMark]
    /\ UNCHANGED <<notices, cards, count, loading, load, reached, muddled>>

NoticesNext ==
    \/ Notify \/ ReadList \/ Focus \/ ListLoaded \/ LoadFails
    \/ \E m \in Marks : \/ \E i \in DOMAIN cards : PressCard(m, i)
                        \/ PressAll(m) \/ MarkServed(m) \/ MarkAnswered(m) \/ MarkFails(m)

-----------------------------------------------------------------------------
\* The count over the list (NotificationsScreen.jsx:59, kept by handlePress:79 and
\* handleMarkAllRead:101) never hides an unread notification that existed when the list was
\* read, however marks, failures and loads interleave; unless one was marked that was read
\* already (pressed twice, or again after a lost answer), or the list was read between a
\* mark and its answer.
CountHidesNothing ==
    ~muddled => count >= Cardinality({n \in 1 .. reached : ~notices[n]})
=============================================================================
