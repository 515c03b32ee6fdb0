------------------------- MODULE MembershipPromise --------------------------
(***************************************************************************)
(* What membership management promises (services/memberships.py, its       *)
(* "Rules"): each change is a single step, its author is ADMIN when it     *)
(* happens, and it leaves the organization with an ADMIN.                  *)
(***************************************************************************)
CONSTANTS
    Users,
    NULL

VARIABLES
    organization,  \* whether the organization exists
    member,        \* the role of each user, or NULL
    author         \* whose request made the last change, or NULL

promiseVars == <<organization, member, author>>

Roles == {"ADMIN", "ENGINEER", "VIEWER"}
HasAdmin(m) == \E u \in Users : m[u] = "ADMIN"

PromiseInit ==
    /\ organization = FALSE
    /\ member = [u \in Users |-> NULL]
    /\ author = NULL

Found(u) ==
    /\ ~organization
    /\ organization' = TRUE
    /\ member' = [member EXCEPT ![u] = "ADMIN"]
    /\ author' = u

\* At the request of by, a user gets a role, another role, or none.
Change(by, u, role) ==
    /\ member[by] = "ADMIN"
    /\ author' = by
    /\ member' = [member EXCEPT ![u] = role]
    /\ HasAdmin(member')
    /\ UNCHANGED organization

PromiseNext ==
    \/ \E u \in Users : Found(u)
    \/ \E by, u \in Users, role \in Roles \cup {NULL} : Change(by, u, role)

PromiseSpec == PromiseInit /\ [][PromiseNext]_promiseVars
=============================================================================
