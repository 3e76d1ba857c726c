------------------------------- MODULE Accounts -------------------------------
(***************************************************************************)
(* A user account and the links mailed to its owner: verify the e-mail,    *)
(* reset the password, accept an invitation.  authController and           *)
(* userController read the account, hash a password or make a link, and    *)
(* save what they changed; requests overlap between the two steps.         *)
(*                                                                         *)
(* A link is a number; the account stores at most one of each kind, and a  *)
(* new one replaces it.  The switch IsActive, which only withholds reset   *)
(* links and logins, and the fields no handler reads are left out.         *)
(***************************************************************************)
EXTENDS Integers, Sequences, Documents

CONSTANTS MaxLinks,     \* bound: links ever mailed
          MaxSpent,     \* bound: links ever spent
          MaxDeleted    \* bound: accounts deleted

VARIABLES account,      \* the stored user; status "none" when there is none, a new id after it
          links,        \* links made so far
          lapsed,       \* links whose time to live is over
          acting,       \* of each request: what it does, read and will save
          spent         \* history: the links that were spent, in order

accounts == <<account, links, lapsed, acting, spent>>

UserStatus == {"PENDING_VERIFY", "PENDING_INVITE", "ACTIVE", "LOCKED"}
NoLink == 0
NoAccount == [id |-> 0, status |-> "none",
              verify |-> NoLink, reset |-> NoLink, invite |-> NoLink]
NoAct == [busy |-> FALSE, id |-> 0, link |-> NoLink, late |-> FALSE,
          changes |-> Changes(NoAccount, NoAccount)]

Registered == account.status # "none"
Free(q) == ~acting[q].busy
Reads(q, link, copy) ==
    /\ Free(q)
    /\ acting' = [acting EXCEPT ![q] = [busy |-> TRUE, id |-> account.id, link |-> link, late |-> FALSE,
                                        changes |-> Changes(account, copy)]]
    /\ UNCHANGED <<account, lapsed, spent>>
Keeps == UNCHANGED links
Made == links + 1
Makes == links < MaxLinks /\ links' = Made

\* register; createUser with a password; inviteUser without.
CreateAccount(q) ==
    /\ Free(q) /\ ~Registered
    /\ \/ /\ Makes
          /\ account' = [account EXCEPT !.status = "PENDING_VERIFY", !.verify = Made]
       \/ /\ Keeps
          /\ account' = [account EXCEPT !.status = "ACTIVE"]
       \/ /\ Makes
          /\ account' = [account EXCEPT !.status = "PENDING_INVITE", !.invite = Made]
    /\ UNCHANGED <<lapsed, acting, spent>>

\* A row of the file that names no account of an address or a name in use makes one with a
\* password, and mails nothing; the others are skipped or reported.
ImportUsers(q) ==
    /\ Free(q) /\ ~Registered /\ Keeps
    /\ account' = [account EXCEPT !.status = "ACTIVE"]
    /\ UNCHANGED <<lapsed, acting, spent>>

VerifyEmail(q) ==
    /\ account.verify \notin lapsed \cup {NoLink} /\ Keeps
    /\ Reads(q, account.verify, [account EXCEPT !.status = "ACTIVE", !.verify = NoLink])

ResendVerification(q) ==
    /\ account.status = "PENDING_VERIFY" /\ Makes
    /\ Reads(q, NoLink, [account EXCEPT !.verify = Made])

ForgotPassword(q) ==
    /\ account.status = "ACTIVE" /\ Makes
    /\ Reads(q, NoLink, [account EXCEPT !.reset = Made])

ResetPassword(q) ==
    /\ account.reset \notin lapsed \cup {NoLink} /\ Keeps
    /\ Reads(q, account.reset, [account EXCEPT !.reset = NoLink])

ResendInvitation(q) ==
    /\ account.status = "PENDING_INVITE" /\ Makes
    /\ Reads(q, NoLink, [account EXCEPT !.invite = Made])

AcceptInvitation(q) ==
    /\ account.invite \notin lapsed \cup {NoLink} /\ Keeps
    /\ Reads(q, account.invite,
             [account EXCEPT !.status = "ACTIVE", !.invite = NoLink])

\* A password set by an administrator ends the invitation; the status he sends comes last.
UpdateUser(q) ==
    /\ Registered /\ Keeps
    /\ \E password \in BOOLEAN, sent \in UserStatus \cup {"not sent"} :
          LET invited == password /\ account.status = "PENDING_INVITE" IN
          Reads(q, NoLink,
                [account EXCEPT
                    !.status = IF sent # "not sent" THEN sent ELSE IF invited THEN "ACTIVE" ELSE @,
                    !.invite = IF invited THEN NoLink ELSE @])

\* A save of a deleted account fails; one that spends a link overtakes its bearers.
SaveAccount(q) ==
    LET a == acting[q] IN
    /\ a.busy /\ Registered /\ account.id = a.id
    /\ (a.link # NoLink => Len(spent) < MaxSpent)
    /\ account' = Merged(account, a.changes)
    /\ spent' = IF a.link = NoLink THEN spent ELSE Append(spent, [link |-> a.link, late |-> a.late])
    /\ acting' = [p \in Requests |->
                    IF p = q THEN NoAct
                    ELSE [acting[p] EXCEPT !.late = @ \/ (a.link # NoLink /\ acting[p].link = a.link)]]
    /\ UNCHANGED <<links, lapsed>>

AccountRequestFails(q) ==
    /\ acting[q].busy
    /\ acting' = [acting EXCEPT ![q] = NoAct]
    /\ UNCHANGED <<account, links, lapsed, spent>>

DeleteUser ==
    /\ Registered /\ account.id < MaxDeleted
    /\ account' = [NoAccount EXCEPT !.id = account.id + 1]
    /\ UNCHANGED <<links, lapsed, acting, spent>>

LinkExpires(l) ==
    /\ l \in {account.verify, account.reset, account.invite} /\ l \notin lapsed
    /\ lapsed' = lapsed \cup {l}
    /\ UNCHANGED <<account, links, acting, spent>>

AccountsInit ==
    /\ account = NoAccount /\ links = 0 /\ lapsed = {} /\ spent = <<>>
    /\ acting = [q \in Requests |-> NoAct]

AccountsNext ==
    \/ \E q \in Requests : CreateAccount(q)
    \/ \E q \in Requests : ImportUsers(q)
    \/ \E q \in Requests : VerifyEmail(q)
    \/ \E q \in Requests : ResendVerification(q)
    \/ \E q \in Requests : ForgotPassword(q)
    \/ \E q \in Requests : ResetPassword(q)
    \/ \E q \in Requests : ResendInvitation(q)
    \/ \E q \in Requests : AcceptInvitation(q)
    \/ \E q \in Requests : UpdateUser(q)
    \/ \E q \in Requests : SaveAccount(q)
    \/ \E q \in Requests : AccountRequestFails(q)
    \/ DeleteUser
    \/ \E l \in 1 .. MaxLinks : LinkExpires(l)

AccountsSpec == AccountsInit /\ [][AccountsNext]_accounts

-----------------------------------------------------------------------------
\* "xài one-time" (User.js 13-14): a mailed link is spent at most once, except by a
\* request that carried it while another one was spending it, whatever else was
\* saved to the account in between.
LinksAreSpentOnce ==
    \A i, j \in DOMAIN spent : i < j /\ spent[i].link = spent[j].link => spent[j].late
=============================================================================
