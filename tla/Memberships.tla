---------------------------- MODULE Memberships -----------------------------
(***************************************************************************)
(* Members of one organization: OrganizationService.create,                *)
(* MembershipService.add_member, change_role and remove_member, and        *)
(* AgentClientService.create, which adds a service user as a member.       *)
(*                                                                         *)
(* A request resolves its TenantContext in a transaction of its own.  The  *)
(* second transaction locks the organization row, reads the actor's role   *)
(* again, reads what it needs, and writes.  Each read sees what is         *)
(* committed then (READ COMMITTED); writes appear at the commit.           *)
(***************************************************************************)
EXTENDS Null

CONSTANTS
    Users,     \* people and the service users of agents
    Services,  \* the users that only AgentClientService.create may take
    Names,     \* names of agent clients
    Requests   \* bound: requests that run at the same time

ASSUME MembershipAssumption ==
    /\ Services \subseteq Users
    /\ NULL \notin Users \cup Requests
    /\ NULL \notin {"ADMIN", "ENGINEER", "VIEWER"}

VARIABLES
    organization,  \* whether the organization exists
    member,        \* organization_memberships: role of each user, or NULL
    active,        \* users.is_active
    clients,       \* agent_clients: service user of each name, or NULL
    lock,          \* the request that holds the row lock, or NULL
    request,       \* the request each slot works on, or NULL
    author         \* history: whose request made the last change, or NULL

rowVars == <<organization, member, active, clients, author>>
membershipVars == <<rowVars, lock, request>>

Roles == {"ADMIN", "ENGINEER", "VIEWER"}
AgentRoles == {"ENGINEER", "VIEWER"}

\* ROLE_PERMISSIONS: MANAGE_MEMBERS is in _ADMIN only.
CanManage(role) == role = "ADMIN"

Orders ==
    [op : {"add", "change"}, user : Users, role : Roles, name : {NULL}]
        \cup [op : {"remove"}, user : Users, role : {NULL}, name : {NULL}]
        \cup [op : {"agent"}, user : Services, role : AgentRoles, name : Names]

Steps == {"resolved", "locked", "authorized", "decided"}

RequestType == [actor : Users, order : Orders, step : Steps]

ASSUME RequestAssumption == NULL \notin RequestType

MembershipsInit ==
    /\ organization = FALSE
    /\ member = [u \in Users |-> NULL]
    /\ active = [u \in Users |-> TRUE]
    /\ clients = [n \in Names |-> NULL]
    /\ lock = NULL
    /\ request = [r \in Requests |-> NULL]
    /\ author = NULL

\* The organization and its first ADMIN, in one transaction.
Create(u) ==
    /\ active[u]
    /\ u \notin Services
    /\ ~organization
    /\ organization' = TRUE
    /\ member' = [member EXCEPT ![u] = "ADMIN"]
    /\ author' = u
    /\ UNCHANGED <<active, clients, lock, request>>

\* get_tenant: the actor is an active member at this moment, and no agent
\* acts with the ADMIN role.
Resolve(r, actor, order) ==
    /\ request[r] = NULL
    /\ organization
    /\ active[actor]
    /\ member[actor] # NULL
    /\ actor \in Services => member[actor] # "ADMIN"
    /\ request' = [request EXCEPT ![r] = [actor |-> actor, order |-> order, step |-> "resolved"]]
    /\ UNCHANGED <<rowVars, lock>>

At(r, step) == request[r] # NULL /\ request[r].step = step

Goes(r, step) == request' = [request EXCEPT ![r].step = step]

\* Faulty variant: the organization row is read and not locked.
LockNothing(r) ==
    /\ At(r, "resolved")
    /\ Goes(r, "locked")
    /\ UNCHANGED <<rowVars, lock>>

Lock(r) ==
    /\ At(r, "resolved")
    /\ lock = NULL
    /\ lock' = r
    /\ Goes(r, "locked")
    /\ UNCHANGED rowVars

\* The scopes of an agent's token are permissions of its first role, which is
\* never ADMIN.
MayManage(u) == active[u] /\ member[u] # NULL /\ CanManage(member[u]) /\ u \notin Services

\* Faulty variant: a resolved TenantContext is taken for a permission.
AuthorizeResolved(r) ==
    /\ At(r, "locked")
    /\ Goes(r, "authorized")
    /\ UNCHANGED <<rowVars, lock>>

\* require_permission reads the actor's membership again.
Authorize(r) ==
    /\ At(r, "locked")
    /\ MayManage(request[r].actor)
    /\ Goes(r, "authorized")
    /\ UNCHANGED <<rowVars, lock>>

\* A service user exists from the creation of its client on.
Exists(u) == u \in Services => \E n \in Names : clients[n] = u

AnotherAdmin == \E u, v \in Users : u # v /\ member[u] = "ADMIN" /\ member[v] = "ADMIN"

\* Whether the checks of an operation pass.
Allowed(order) ==
    CASE order.op = "add" -> Exists(order.user) /\ active[order.user] /\ member[order.user] = NULL
      [] order.op = "change" ->
            /\ member[order.user] # NULL
            /\ member[order.user] = "ADMIN" /\ order.role # "ADMIN" => AnotherAdmin
      [] order.op = "remove" ->
            /\ member[order.user] # NULL
            /\ member[order.user] = "ADMIN" => AnotherAdmin
      [] order.op = "agent" -> clients[order.name] = NULL /\ ~Exists(order.user)

Decide(r) ==
    /\ At(r, "authorized")
    /\ Allowed(request[r].order)
    /\ Goes(r, "decided")
    /\ UNCHANGED <<rowVars, lock>>

Ends(r) ==
    /\ request' = [request EXCEPT ![r] = NULL]
    /\ lock' = IF lock = r THEN NULL ELSE lock

\* The writes of the operation: a removed member has no role.
Commit(r) ==
    /\ At(r, "decided")
    /\ LET order == request[r].order
       IN /\ member' = [member EXCEPT ![order.user] = order.role]
          /\ clients' = IF order.op = "agent"
                        THEN [clients EXCEPT ![order.name] = order.user]
                        ELSE clients
    /\ author' = request[r].actor
    /\ Ends(r)
    /\ UNCHANGED <<organization, active>>

\* PermissionDenied, NotFound, Conflict and InvariantViolation roll back.
Refuse(r) ==
    /\ \/ At(r, "locked") /\ ~MayManage(request[r].actor)
       \/ At(r, "authorized") /\ ~Allowed(request[r].order)
    /\ Ends(r)
    /\ UNCHANGED rowVars

\* The statement timeout, a lost connection or the end of the process.
Rollback(r) ==
    /\ request[r] # NULL
    /\ Ends(r)
    /\ UNCHANGED rowVars

\* An operator deactivates a user, or activates them again.
SetActive(u) ==
    /\ active' = [active EXCEPT ![u] = ~active[u]]
    /\ UNCHANGED <<organization, member, clients, author, lock, request>>

Step(r) == Lock(r) \/ Authorize(r) \/ Decide(r) \/ Commit(r) \/ Refuse(r)

MembershipsNext ==
    \/ \E u \in Users : Create(u) \/ SetActive(u)
    \/ \E r \in Requests :
          \/ \E actor \in Users, order \in Orders : Resolve(r, actor, order)
          \/ Lock(r) \/ Authorize(r) \/ Decide(r) \/ Commit(r) \/ Refuse(r) \/ Rollback(r)

MembershipsSpec == MembershipsInit /\ [][MembershipsNext]_membershipVars

-----------------------------------------------------------------------------
(* Properties.                                                             *)

MembershipsTypeOK ==
    /\ organization \in BOOLEAN
    /\ member \in [Users -> Roles \cup {NULL}]
    /\ active \in [Users -> BOOLEAN]
    /\ clients \in [Names -> Services \cup {NULL}]
    /\ lock \in Requests \cup {NULL}
    /\ request \in [Requests -> RequestType \cup {NULL}]
    /\ author \in Users \cup {NULL}

\* An organization always keeps at least one ADMIN, although requests that
\* demote or remove each other's actors overlap (ADR-012).
KeepsAdmin == organization => \E u \in Users : member[u] = "ADMIN"

\* What the lock protects: past it there is one request, its actor is still
\* ADMIN, and what it decided on still holds when it writes.
DecisionsHold ==
    \A r \in Requests :
        /\ request[r] # NULL /\ request[r].step # "resolved" => lock = r
        /\ At(r, "authorized") \/ At(r, "decided") => member[request[r].actor] = "ADMIN"
        /\ At(r, "decided") /\ request[r].order.op \in {"change", "remove"} =>
              /\ member[request[r].order.user] # NULL
              /\ request[r].order.role # "ADMIN" /\ member[request[r].order.user] = "ADMIN" =>
                    AnotherAdmin

Promise == INSTANCE MembershipPromise

\* Every change of the memberships is one step of MembershipPromise: the actor of
\* the very request that commits is ADMIN at the commit, although others demote
\* and remove actors between the authorization of a request and its writes.
KeepsPromise == Promise!PromiseSpec

\* Every request ends: no lock is left behind and nobody waits for ever.
RequestsEnd == \A r \in Requests : request[r] # NULL ~> request[r] = NULL
=============================================================================
