----------------------------- MODULE Organizations -----------------------------
(***************************************************************************)
(* The tree of organisations and their system roles: organizationController*)
(* creates, imports, retypes and deletes organisations, register creates   *)
(* the root of a new company.  The tree is spread over documents that no   *)
(* transaction ties together: each handler looks at the parent or at the   *)
(* children, and writes its own documents one by one afterwards.  The list *)
(* of the acting user's organisations, which createOrganization extends at *)
(* the end, is not part of the tree and left out.                          *)
(***************************************************************************)
EXTENDS Integers, Sequences, Documents

CONSTANT MaxOrgs     \* bound: organisations ever created

VARIABLES orgs,      \* the organisations, numbered as they are created
          roles,     \* organisations whose AD- role exists
          duty,      \* of each request: [op, at, id, type, parent, path, late]
          excused    \* history: organisations placed or kept by a request that was overtaken

tree == <<orgs, roles, duty, excused>>

OrgType == {"MANUFACTURER", "BRANCH", "DEPOT"}
ORG_CHILD_TYPE == [MANUFACTURER |-> "BRANCH", BRANCH |-> "DEPOT", DEPOT |-> "none"]
NoOrg == [exists |-> FALSE, type |-> "none", parent |-> 0, path |-> <<>>]
NoDuty == [op |-> "none", at |-> "idle", id |-> 0, type |-> "none", parent |-> 0,
           path |-> <<>>, late |-> FALSE]

Existing == {i \in DOMAIN orgs : orgs[i].exists}
Children(i) == {c \in Existing : orgs[c].parent = i}

\* expectedOrgTypeForParent, with 0 for no parent.
ExpectedType(parent) == IF parent = 0 THEN "MANUFACTURER" ELSE ORG_CHILD_TYPE[orgs[parent].type]
HierarchyOk(parent, type) == type \in OrgType /\ type = ExpectedType(parent)

Looked == {"store", "save", "roles", "delete"}
Begin(q, d) == duty' = [duty EXCEPT ![q] = d]
\* A change of the tree comes too late for every request that has looked at it.
Move(q, d) == duty' = [p \in Requests |-> IF p = q THEN d
                                          ELSE [duty[p] EXCEPT !.late = duty[p].at \in Looked]]
Step(q, at) == duty' = [duty EXCEPT ![q].at = at]
Answer(q) == duty' = [duty EXCEPT ![q] = NoDuty]

CreateChecks(q) ==
    /\ duty[q].at = "idle"
    /\ \E parent \in {0} \cup Existing, type \in OrgType :
          /\ HierarchyOk(parent, type)
          /\ Begin(q, [NoDuty EXCEPT !.op = "create", !.at = "store", !.type = type, !.parent = parent,
                         !.path = IF parent = 0 THEN <<>> ELSE Append(orgs[parent].path, parent)])
    /\ UNCHANGED <<orgs, roles, excused>>

\* A row of an import is a root of any type; a new company is a root MANUFACTURER.
RootChecks(q) ==
    /\ duty[q].at = "idle"
    /\ \E op \in {"import", "register"}, type \in OrgType :
          /\ op = "register" => type = "MANUFACTURER"
          /\ Begin(q, [NoDuty EXCEPT !.op = op, !.at = "store", !.type = type])
    /\ UNCHANGED <<orgs, roles, excused>>

StoreOrg(q) ==
    /\ duty[q].at = "store" /\ Len(orgs) < MaxOrgs
    /\ LET d == duty[q] IN
         /\ orgs' = Append(orgs, [exists |-> TRUE, type |-> d.type, parent |-> d.parent, path |-> d.path])
         /\ Move(q, [NoDuty EXCEPT !.op = d.op, !.at = "role", !.id = Len(orgs) + 1])
         /\ excused' = IF d.late THEN excused \cup {Len(orgs) + 1} ELSE excused
    /\ UNCHANGED roles

StoreRole(q) ==
    /\ duty[q].at = "role"
    /\ roles' = roles \cup {duty[q].id}
    /\ IF duty[q].op = "register" THEN Step(q, "account") ELSE Answer(q)
    /\ UNCHANGED <<orgs, excused>>

Gone(i) == orgs' = [orgs EXCEPT ![i] = NoOrg]

\* The role is not stored: an import goes on, the others take the organisation back.
RoleFails(q) ==
    /\ duty[q].at = "role"
    /\ IF duty[q].op = "import"
       THEN Answer(q) /\ UNCHANGED <<orgs, excused>>
       ELSE /\ Gone(duty[q].id)
            /\ Move(q, NoDuty)
            /\ excused' = (excused \cup Children(duty[q].id)) \ {duty[q].id}
    /\ UNCHANGED roles

\* The account of the new company is stored, or role and organisation are taken back.
StoreAccount(q) ==
    /\ duty[q].at = "account"
    /\ Answer(q)
    /\ UNCHANGED <<orgs, roles, excused>>
AccountFails(q) ==
    /\ duty[q].at = "account"
    /\ roles' = roles \ {duty[q].id}
    /\ Gone(duty[q].id)
    /\ Move(q, NoDuty)
    /\ excused' = (excused \cup Children(duty[q].id)) \ {duty[q].id}

\* A new type must suit the parent and every child; the same type changes nothing.
UpdateChecks(q) ==
    /\ duty[q].at = "idle"
    /\ \E i \in Existing, type \in OrgType :
          /\ orgs[i].parent = 0 \/ orgs[i].parent \in Existing
          /\ type # orgs[i].type /\ HierarchyOk(orgs[i].parent, type)
          /\ \A c \in Children(i) : orgs[c].type = ORG_CHILD_TYPE[type]
          /\ Begin(q, [NoDuty EXCEPT !.op = "update", !.at = "save", !.id = i, !.type = type])
    /\ UNCHANGED <<orgs, roles, excused>>

SaveType(q) ==
    /\ duty[q].at = "save"
    /\ LET i == duty[q].id IN
         IF orgs[i].exists
         THEN /\ orgs' = [orgs EXCEPT ![i].type = duty[q].type]
              /\ excused' = IF duty[q].late THEN excused \cup {i} \cup Children(i) ELSE excused
              /\ Move(q, NoDuty)
         ELSE Answer(q) /\ UNCHANGED <<orgs, excused>>
    /\ UNCHANGED roles

\* Mutant: only a branch's depots keep it from being deleted.
DepotsOnly(i) == {c \in Children(i) : orgs[c].type = "DEPOT"}
Keeping(i) == Children(i)

DeleteChecks(q) ==
    /\ duty[q].at = "idle"
    /\ \E i \in Existing :
          /\ Keeping(i) = {}
          /\ Begin(q, [NoDuty EXCEPT !.op = "delete", !.at = "roles", !.id = i])
    /\ UNCHANGED <<orgs, roles, excused>>

DeleteRoles(q) ==
    /\ duty[q].at = "roles"
    /\ roles' = roles \ {duty[q].id}
    /\ Step(q, "delete")
    /\ UNCHANGED <<orgs, excused>>

DeleteOrg(q) ==
    /\ duty[q].at = "delete"
    /\ Gone(duty[q].id)
    /\ excused' = (IF duty[q].late THEN excused \cup Children(duty[q].id) ELSE excused) \ {duty[q].id}
    /\ Move(q, NoDuty)
    /\ UNCHANGED roles

\* Any write may fail or the process may stop: what was written stays.
OrgRequestFails(q) ==
    /\ duty[q].at # "idle"
    /\ Answer(q)
    /\ UNCHANGED <<orgs, roles, excused>>

TreeInit ==
    /\ orgs = <<>> /\ roles = {} /\ excused = {}
    /\ duty = [q \in Requests |-> NoDuty]

TreeNext ==
    \/ \E q \in Requests : CreateChecks(q)
    \/ \E q \in Requests : RootChecks(q)
    \/ \E q \in Requests : StoreOrg(q)
    \/ \E q \in Requests : StoreRole(q)
    \/ \E q \in Requests : RoleFails(q)
    \/ \E q \in Requests : StoreAccount(q)
    \/ \E q \in Requests : AccountFails(q)
    \/ \E q \in Requests : UpdateChecks(q)
    \/ \E q \in Requests : SaveType(q)
    \/ \E q \in Requests : DeleteChecks(q)
    \/ \E q \in Requests : DeleteRoles(q)
    \/ \E q \in Requests : DeleteOrg(q)
    \/ \E q \in Requests : OrgRequestFails(q)

TreeSpec == TreeInit /\ [][TreeNext]_tree

-----------------------------------------------------------------------------
\* "Không cho xóa nếu còn Org con" and the types below a parent (organizationController
\* 12-30, 204): every organisation below another finds its parent there, carries its
\* path and has the type its parent asks for, unless it was placed, retyped or left
\* behind by a request whose look at the tree another request had overtaken.
TreeAgrees ==
    \A i \in Existing \ excused :
       LET p == orgs[i].parent IN
       p # 0 => /\ p \in Existing
                /\ orgs[i].path = Append(orgs[p].path, p)
                /\ orgs[i].type = ORG_CHILD_TYPE[orgs[p].type]
=============================================================================
