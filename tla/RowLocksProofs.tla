--------------------------- MODULE RowLocksProofs ---------------------------
(***************************************************************************)
(* Proofs about rows that concurrent transactions contend for, and the     *)
(* locks, tokens and leases that order them: Memberships, AgentTokens and  *)
(* EmbeddingQueue, for any number of users, requests, processes, keys,     *)
(* versions, workers and faults.                                           *)
(*                                                                         *)
(* Memberships: the organization keeps an ADMIN, and every change of the   *)
(* memberships is a step of MembershipPromise, its author still ADMIN.  A  *)
(* request past the lock is the only one, so that what it decided on, and  *)
(* the role of its actor, are still so when it commits.                    *)
(* Only rows that the lock does not protect (active) change under it.      *)
(*                                                                         *)
(* AgentTokens: a rotation of keys refuses an unexpired token only at      *)
(* processes that started before its key, and a revoked client is refused. *)
(* A key rests once no process signs with it any more, its tokens are at   *)
(* least as old as its rest (RestOK), so that the key that is dropped is   *)
(* not needed (LiveKnown).                                                 *)
(*                                                                         *)
(* EmbeddingQueue: OneHolder rests on the tokens: a claim draws one that   *)
(* is newer than every token in the hands of a worker (LocalOK), and a row *)
(* that runs names its latest (GoodJob).  VectorsTrue rests on what a      *)
(* worker carries from loading to saving: each of its documents is in its  *)
(* cache, with its own vector, or embedded, or still to be sent.           *)
(***************************************************************************)
EXTENDS Memberships, AgentTokens, EmbeddingQueue, TLAPS

-----------------------------------------------------------------------------
(* Memberships.  The inductive invariant.                                  *)

\* Past "resolved", a request holds the lock.
LockHeld ==
    \A r \in Requests : request[r] # NULL /\ request[r].step # "resolved" => lock = r

\* Nothing happens before the organization exists.
NothingBefore ==
    ~organization => /\ \A u \in Users : member[u] = NULL
                     /\ \A r \in Requests : request[r] = NULL

\* A service user is a member only once its client exists.
ServicesExist == \A u \in Services : member[u] # NULL => Exists(u)

\* The actor of a request that was authorized is ADMIN.
ActorsManage ==
    \A r \in Requests : At(r, "authorized") \/ At(r, "decided") => member[request[r].actor] = "ADMIN"

\* What Allowed says of the rows that the lock protects.
StillAllowed(order) ==
    /\ order.op = "add" => Exists(order.user) /\ member[order.user] = NULL
    /\ order.op \in {"change", "remove"} =>
          /\ member[order.user] # NULL
          /\ order.role # "ADMIN" /\ member[order.user] = "ADMIN" => AnotherAdmin
    /\ order.op = "agent" => clients[order.name] = NULL /\ ~Exists(order.user)

DecidedHolds == \A r \in Requests : At(r, "decided") => StillAllowed(request[r].order)

MembershipsInv ==
    /\ MembershipsTypeOK /\ LockHeld /\ NothingBefore /\ ServicesExist
    /\ ActorsManage /\ DecidedHolds /\ KeepsAdmin

-----------------------------------------------------------------------------
(* Types.                                                                  *)

\* What the orders of the four operations are made of.
LEMMA OrderTypes ==
    ASSUME NEW order \in Orders
    PROVE  /\ order.user \in Users
           /\ order.role \in Roles \cup {NULL}
           /\ order.op \in {"add", "change", "remove", "agent"}
           /\ order.op = "agent" => order.user \in Services /\ order.name \in Names
           /\ order.op = "remove" => order.role = NULL
BY MembershipAssumption, Zenon DEF Orders, Roles, AgentRoles

\* The rows of memberships, clients, locks and requests keep their types.
LEMMA TypeStep == ASSUME MembershipsTypeOK, [MembershipsNext]_membershipVars PROVE MembershipsTypeOK'
<1> USE DEF rowVars
<1>1. CASE UNCHANGED membershipVars
  BY <1>1, Zenon DEF MembershipsTypeOK, membershipVars
<1>2. ASSUME NEW u \in Users, Create(u) PROVE MembershipsTypeOK'
  BY <1>2, Zenon DEF MembershipsTypeOK, Create, Roles
<1>3. ASSUME NEW u \in Users, SetActive(u) PROVE MembershipsTypeOK'
  BY <1>3, Zenon DEF MembershipsTypeOK, SetActive
<1>4. ASSUME NEW r \in Requests, NEW actor \in Users, NEW order \in Orders, Resolve(r, actor, order)
      PROVE  MembershipsTypeOK'
  <2>1. [actor |-> actor, order |-> order, step |-> "resolved"] \in RequestType
    BY Zenon DEF Steps, RequestType
  <2>. QED BY <1>4, <2>1, Zenon DEF MembershipsTypeOK, Resolve
<1>5. ASSUME NEW r \in Requests, NEW step \in Steps, request[r] # NULL, Goes(r, step), MembershipsTypeOK
      PROVE  request' \in [Requests -> RequestType \cup {NULL}]
  <2>1. request[r] \in RequestType
    BY <1>5, Zenon DEF MembershipsTypeOK
  <2>2. [request[r] EXCEPT !.step = step] \in RequestType
    BY <1>5, <2>1, Zenon DEF RequestType
  <2>. QED BY <1>5, <2>2, Zenon DEF MembershipsTypeOK, Goes
<1>6. ASSUME NEW r \in Requests, Ends(r)
      PROVE  /\ request' \in [Requests -> RequestType \cup {NULL}]
             /\ lock' \in Requests \cup {NULL}
  BY <1>6, Zenon DEF MembershipsTypeOK, Ends
<1>7. ASSUME NEW r \in Requests, Lock(r) \/ Authorize(r) \/ Decide(r) PROVE MembershipsTypeOK'
  <2>1. \E step \in Steps : request[r] # NULL /\ Goes(r, step)
    BY <1>7, Zenon DEF Lock, Authorize, Decide, At, Steps
  <2>2. request' \in [Requests -> RequestType \cup {NULL}]
    BY <1>5, <2>1, Zenon
  <2>. QED BY <1>7, <2>2, Zenon DEF MembershipsTypeOK, Lock, Authorize, Decide
<1>8. ASSUME NEW r \in Requests, Commit(r) PROVE MembershipsTypeOK'
  <2>1. request[r].order \in Orders /\ request[r].actor \in Users
    BY <1>8, Zenon DEF Commit, At, MembershipsTypeOK, RequestType
  <2>2. member' \in [Users -> Roles \cup {NULL}]
    BY <1>8, <2>1, OrderTypes, Zenon DEF Commit, MembershipsTypeOK
  <2>3. clients' \in [Names -> Services \cup {NULL}]
    BY <1>8, <2>1, OrderTypes, Zenon DEF Commit, MembershipsTypeOK
  <2>. QED BY <1>6, <1>8, <2>1, <2>2, <2>3, Zenon DEF MembershipsTypeOK, Commit
<1>9. ASSUME NEW r \in Requests, Refuse(r) \/ Rollback(r) PROVE MembershipsTypeOK'
  BY <1>6, <1>9, Zenon DEF MembershipsTypeOK, Refuse, Rollback
<1>. QED BY <1>1, <1>2, <1>3, <1>4, <1>7, <1>8, <1>9, Zenon DEF MembershipsNext

-----------------------------------------------------------------------------
(* Inv is inductive.                                                       *)

\* An organization that does not exist yet has neither members nor requests.
LEMMA InitInv == ASSUME MembershipsInit PROVE MembershipsInv
<1>1. MembershipsTypeOK
  BY Zenon DEF MembershipsInit, MembershipsTypeOK
<1>2. LockHeld /\ ActorsManage /\ DecidedHolds
  BY Zenon DEF MembershipsInit, LockHeld, ActorsManage, DecidedHolds, At
<1>3. NothingBefore /\ ServicesExist /\ KeepsAdmin
  BY MembershipAssumption, Zenon DEF MembershipsInit, NothingBefore, ServicesExist, KeepsAdmin
<1>. QED BY <1>1, <1>2, <1>3, Zenon DEF MembershipsInv

\* What the requests of the other slots are told apart by does not change when
\* one request goes on or ends.
LEMMA Others ==
    ASSUME MembershipsTypeOK, NEW r \in Requests, NEW s \in Requests, s # r,
           Ends(r) \/ \E step \in Steps : Goes(r, step)
    PROVE  request'[s] = request[s]
BY Zenon DEF MembershipsTypeOK, Ends, Goes

\* A request that goes on keeps its actor and its order.
LEMMA GoesOn ==
    ASSUME MembershipsTypeOK, NEW r \in Requests, NEW step \in Steps, request[r] # NULL, Goes(r, step)
    PROVE  /\ request'[r] # NULL
           /\ request'[r].step = step
           /\ request'[r].actor = request[r].actor
           /\ request'[r].order = request[r].order
<1>1. request[r] \in RequestType
  BY Zenon DEF MembershipsTypeOK
<1>2. request'[r] = [request[r] EXCEPT !.step = step]
  BY Zenon DEF MembershipsTypeOK, Goes
<1>3. request'[r] = [actor |-> request[r].actor, order |-> request[r].order, step |-> step]
  BY <1>1, <1>2, Zenon DEF RequestType
<1>4. request'[r] \in RequestType
  BY <1>1, <1>3 DEF RequestType
<1>. QED BY <1>3, <1>4, RequestAssumption DEF RequestType

\* The locked rows are as before.
Quiet == UNCHANGED <<organization, member, clients>>

\* A step that leaves the locked rows alone leaves alone what is said of them.
LEMMA QuietRows ==
    ASSUME MembershipsInv, Quiet
    PROVE  /\ ServicesExist' /\ KeepsAdmin'
           /\ \A order \in Orders : StillAllowed(order) => StillAllowed(order)'
BY Zenon DEF MembershipsInv, Quiet, ServicesExist, KeepsAdmin, StillAllowed, Exists, AnotherAdmin

\* A request that ends takes the lock with it, if it has it.
LEMMA EndsQuietly ==
    ASSUME MembershipsInv, NEW r \in Requests, request[r] # NULL, Ends(r), Quiet
    PROVE  LockHeld' /\ NothingBefore' /\ ActorsManage' /\ DecidedHolds'
<1>1. request'[r] = NULL
  BY Zenon DEF MembershipsInv, MembershipsTypeOK, Ends
<1>2. \A s \in Requests : s # r => request'[s] = request[s]
  BY Others, Zenon DEF MembershipsInv
<1>3. LockHeld'
  <2> SUFFICES ASSUME NEW s \in Requests, request'[s] # NULL, request'[s].step # "resolved"
               PROVE  lock' = s
    BY Zenon DEF LockHeld
  <2>1. s # r /\ request'[s] = request[s]
    BY <1>1, <1>2, Zenon
  <2>. QED BY <2>1, Zenon DEF MembershipsInv, LockHeld, Ends
<1>4. NothingBefore'
  BY <1>1, <1>2, Zenon DEF MembershipsInv, Quiet, NothingBefore
<1>5. ActorsManage'
  BY <1>1, <1>2, Zenon DEF MembershipsInv, Quiet, ActorsManage, At
<1>6. DecidedHolds'
  <2> SUFFICES ASSUME NEW s \in Requests, At(s, "decided")'
               PROVE  StillAllowed(request[s].order)'
    BY Zenon DEF DecidedHolds
  <2>1. request'[s] = request[s] /\ At(s, "decided")
    BY <1>1, <1>2, Zenon DEF At
  <2>2. StillAllowed(request[s].order)
    BY <2>1, Zenon DEF MembershipsInv, DecidedHolds
  <2>. QED BY <2>1, <2>2, Zenon DEF StillAllowed, Exists, AnotherAdmin, Quiet
<1>. QED BY <1>3, <1>4, <1>5, <1>6, Zenon

\* A request that goes on, with the lock, and with what it read.
LEMMA GoesQuietly ==
    ASSUME MembershipsInv, Quiet, NEW r \in Requests, NEW step \in Steps, request[r] # NULL, Goes(r, step),
           lock' = r, lock \in {r, NULL}, step # "resolved",
           step \in {"authorized", "decided"} => member[request[r].actor] = "ADMIN",
           step = "decided" => StillAllowed(request[r].order)
    PROVE  LockHeld' /\ NothingBefore' /\ ActorsManage' /\ DecidedHolds'
<1>1. /\ request'[r] # NULL /\ request'[r].step = step
      /\ request'[r].actor = request[r].actor /\ request'[r].order = request[r].order
  BY GoesOn, Zenon DEF MembershipsInv
<1>2. \A s \in Requests : s # r => request'[s] = request[s]
  BY Others, Zenon DEF MembershipsInv
<1>3. \A s \in Requests : s # r /\ request[s] # NULL => request[s].step = "resolved"
  <2> SUFFICES ASSUME NEW s \in Requests, s # r, request[s] # NULL, request[s].step # "resolved"
               PROVE  FALSE
    BY Zenon
  <2>1. lock = s
    BY Zenon DEF MembershipsInv, LockHeld
  <2>. QED BY <2>1, MembershipAssumption, Zenon
<1>4. LockHeld'
  BY <1>2, <1>3, Zenon DEF LockHeld
<1>5. NothingBefore'
  BY Zenon DEF MembershipsInv, Quiet, NothingBefore
<1>6. ActorsManage'
  <2> SUFFICES ASSUME NEW s \in Requests, (At(s, "authorized") \/ At(s, "decided"))'
               PROVE  member'[request'[s].actor] = "ADMIN"
    BY Zenon DEF ActorsManage
  <2>1. s = r
    BY <1>2, <1>3, Zenon DEF At
  <2>. QED BY <1>1, <2>1, Zenon DEF At, Quiet
<1>7. DecidedHolds'
  <2> SUFFICES ASSUME NEW s \in Requests, At(s, "decided")'
               PROVE  StillAllowed(request[s].order)'
    BY Zenon DEF DecidedHolds
  <2>1. s = r
    BY <1>2, <1>3, Zenon DEF At
  <2>2. StillAllowed(request[r].order)
    BY <1>1, <2>1, Zenon DEF At
  <2>. QED BY <1>1, <2>1, <2>2, Zenon DEF StillAllowed, Exists, AnotherAdmin, Quiet
<1>. QED BY <1>4, <1>5, <1>6, <1>7, Zenon

\* A commit finds what was decided still so: the actor is ADMIN, nobody else is
\* past the lock, and an ADMIN remains.
LEMMA CommitFinds ==
    ASSUME MembershipsInv, NEW r \in Requests, Commit(r)
    PROVE  /\ organization
           /\ request[r].actor \in Users /\ request[r].order \in Orders
           /\ member[request[r].actor] = "ADMIN"
           /\ StillAllowed(request[r].order)
           /\ \A s \in Requests : s # r /\ request[s] # NULL => request[s].step = "resolved"
<1>1. request[r] # NULL /\ request[r].step = "decided"
  BY Zenon DEF Commit, At
<1>2. request[r].actor \in Users /\ request[r].order \in Orders
  BY <1>1, Zenon DEF MembershipsInv, MembershipsTypeOK, RequestType
<1>3. organization
  BY <1>1, Zenon DEF MembershipsInv, NothingBefore
<1>4. member[request[r].actor] = "ADMIN" /\ StillAllowed(request[r].order)
  BY <1>1, Zenon DEF MembershipsInv, ActorsManage, DecidedHolds, At
<1>5. lock = r
  BY <1>1, Zenon DEF MembershipsInv, LockHeld
<1>6. \A s \in Requests : s # r /\ request[s] # NULL => request[s].step = "resolved"
  BY <1>5, Zenon DEF MembershipsInv, LockHeld
<1>. QED BY <1>2, <1>3, <1>4, <1>6, Zenon

\* The commit of a decided change leaves an administrator.
LEMMA CommitKeepsAdmin ==
    ASSUME MembershipsInv, NEW r \in Requests, Commit(r)
    PROVE  \E u \in Users : member'[u] = "ADMIN"
<1> DEFINE order == request[r].order
           actor == request[r].actor
<1>1. /\ actor \in Users /\ order \in Orders
      /\ member[actor] = "ADMIN" /\ StillAllowed(order)
  BY CommitFinds, Zenon
<1>2. /\ order.user \in Users
      /\ order.op \in {"add", "change", "remove", "agent"}
      /\ order.op = "agent" => order.user \in Services
  BY <1>1, OrderTypes, Zenon
<1>3. member \in [Users -> Roles \cup {NULL}] /\ member' = [member EXCEPT ![order.user] = order.role]
  BY Zenon DEF MembershipsInv, MembershipsTypeOK, Commit
<1>4. CASE order.role = "ADMIN"
  BY <1>2, <1>3, <1>4, Zenon
<1>5. CASE order.user # actor
  BY <1>1, <1>3, <1>5, Zenon
<1>6. CASE order.role # "ADMIN" /\ order.user = actor
  <2>1. member[order.user] = "ADMIN"
    BY <1>1, <1>6, Zenon
  <2>2. order.op \in {"change", "remove"}
    <3>1. order.op # "add"
      BY <1>1, <2>1, MembershipAssumption, Zenon DEF StillAllowed
    <3>2. order.op # "agent"
      <4>1. order.op = "agent" => Exists(order.user)
        BY <1>2, <2>1, MembershipAssumption, Zenon DEF MembershipsInv, ServicesExist
      <4>. QED BY <1>1, <4>1, Zenon DEF StillAllowed
    <3>. QED BY <1>2, <3>1, <3>2, Zenon
  <2>3. AnotherAdmin
    BY <1>1, <1>6, <2>1, <2>2, Zenon DEF StillAllowed
  <2>4. PICK u \in Users : u # order.user /\ member[u] = "ADMIN"
    BY <2>3, Zenon DEF AnotherAdmin
  <2>. QED BY <1>3, <2>4, Zenon
<1>. QED BY <1>4, <1>5, <1>6, Zenon

\* The commit of a request preserves the invariant.
LEMMA CommitStep == ASSUME MembershipsInv, NEW r \in Requests, Commit(r) PROVE MembershipsInv'
<1> DEFINE order == request[r].order
<1>1. MembershipsTypeOK'
  BY TypeStep, Zenon DEF MembershipsInv, MembershipsNext
<1>2. /\ organization /\ order \in Orders /\ StillAllowed(order)
      /\ \A s \in Requests : s # r /\ request[s] # NULL => request[s].step = "resolved"
  BY CommitFinds, Zenon
<1>3. request'[r] = NULL /\ \A s \in Requests : s # r => request'[s] = request[s]
  BY Others, Zenon DEF MembershipsInv, MembershipsTypeOK, Commit, Ends
<1>4. LockHeld' /\ ActorsManage' /\ DecidedHolds'
  BY <1>2, <1>3, Zenon DEF LockHeld, ActorsManage, DecidedHolds, At
<1>5. NothingBefore'
  BY <1>2, Zenon DEF NothingBefore, Commit
<1>6. KeepsAdmin'
  BY CommitKeepsAdmin, Zenon DEF KeepsAdmin
<1>7. ServicesExist'
  <2> SUFFICES ASSUME NEW u \in Services, member'[u] # NULL
               PROVE  Exists(u)'
    BY Zenon DEF ServicesExist
  <2>1. /\ order.user \in Users
        /\ order.op \in {"add", "change", "remove", "agent"}
        /\ order.op = "agent" => order.name \in Names
        /\ order.op = "remove" => order.role = NULL
    BY <1>2, OrderTypes, Zenon
  <2>2. u \in Users /\ u # NULL
    BY MembershipAssumption, Zenon
  <2>3. /\ member \in [Users -> Roles \cup {NULL}] /\ member' = [member EXCEPT ![order.user] = order.role]
        /\ clients \in [Names -> Services \cup {NULL}]
        /\ clients' = IF order.op = "agent" THEN [clients EXCEPT ![order.name] = order.user] ELSE clients
    BY Zenon DEF MembershipsInv, MembershipsTypeOK, Commit
  <2>4. CASE order.op = "agent" /\ u = order.user
    BY <2>1, <2>3, <2>4, Zenon DEF Exists
  <2>5. CASE ~(order.op = "agent" /\ u = order.user)
    <3>1. Exists(u)
      <4>1. CASE u = order.user
        BY <1>2, <2>1, <2>3, <2>5, <4>1, Zenon DEF StillAllowed, MembershipsInv, ServicesExist
      <4>2. CASE u # order.user
        BY <2>2, <2>3, <4>2, Zenon DEF MembershipsInv, ServicesExist
      <4>. QED BY <4>1, <4>2, Zenon
    <3>2. PICK n \in Names : clients[n] = u
      BY <3>1, Zenon DEF Exists
    <3>3. order.op = "agent" => order.name # n
      BY <1>2, <2>2, <3>2, Zenon DEF StillAllowed
    <3>4. clients'[n] = u
      BY <2>1, <2>3, <3>2, <3>3, Zenon
    <3>. QED BY <3>4, Zenon DEF Exists
  <2>. QED BY <2>4, <2>5, Zenon
<1>. QED BY <1>1, <1>4, <1>5, <1>6, <1>7, Zenon DEF MembershipsInv

\* Every step preserves the invariant.
LEMMA InvStep == ASSUME MembershipsInv, [MembershipsNext]_membershipVars PROVE MembershipsInv'
<1> USE DEF rowVars
<1>1. MembershipsTypeOK'
  BY TypeStep, Zenon DEF MembershipsInv
<1>2. CASE UNCHANGED membershipVars
  BY <1>2, Zenon DEF MembershipsInv, membershipVars, MembershipsTypeOK, LockHeld, NothingBefore, ServicesExist, ActorsManage,
                     DecidedHolds, KeepsAdmin, StillAllowed, Exists, AnotherAdmin, At
<1>3. ASSUME NEW u \in Users, Create(u) PROVE MembershipsInv'
  <2>1. /\ \A r \in Requests : request[r] = NULL
        /\ \A v \in Users : member[v] = NULL
    BY <1>3, Zenon DEF MembershipsInv, NothingBefore, Create
  <2>2. LockHeld' /\ ActorsManage' /\ DecidedHolds'
    BY <1>3, <2>1, Zenon DEF Create, LockHeld, ActorsManage, DecidedHolds, At
  <2>3. NothingBefore' /\ KeepsAdmin'
    BY <1>3, Zenon DEF Create, NothingBefore, KeepsAdmin, MembershipsInv, MembershipsTypeOK
  <2>4. ServicesExist'
    BY <1>3, <2>1, MembershipAssumption, Zenon DEF Create, ServicesExist, MembershipsInv, MembershipsTypeOK
  <2>. QED BY <1>1, <2>2, <2>3, <2>4, Zenon DEF MembershipsInv
<1>4. ASSUME NEW u \in Users, SetActive(u) PROVE MembershipsInv'
  <2>1. Quiet
    BY <1>4, Zenon DEF SetActive, Quiet
  <2>2. LockHeld' /\ NothingBefore' /\ ActorsManage' /\ DecidedHolds'
    BY <1>4, Zenon DEF SetActive, MembershipsInv, LockHeld, NothingBefore, ActorsManage, DecidedHolds,
                       StillAllowed, Exists, AnotherAdmin, At
  <2>. QED BY <1>1, <2>1, <2>2, QuietRows, Zenon DEF MembershipsInv
<1>5. ASSUME NEW r \in Requests, NEW actor \in Users, NEW order \in Orders, Resolve(r, actor, order)
      PROVE  MembershipsInv'
  <2>1. Quiet
    BY <1>5, Zenon DEF Resolve, Quiet
  <2>2. /\ request'[r].step = "resolved"
        /\ \A s \in Requests : s # r => request'[s] = request[s]
    BY <1>5, Zenon DEF Resolve, MembershipsInv, MembershipsTypeOK
  <2>3. LockHeld' /\ ActorsManage'
    BY <1>5, <2>1, <2>2, ZenonT(40) DEF Resolve, Quiet, MembershipsInv, LockHeld, ActorsManage, At
  <2>4. NothingBefore'
    BY <1>5, Zenon DEF Resolve, NothingBefore
  <2>5. DecidedHolds'
    <3> SUFFICES ASSUME NEW s \in Requests, At(s, "decided")'
                 PROVE  StillAllowed(request[s].order)'
      BY Zenon DEF DecidedHolds
    <3>1. request'[s] = request[s] /\ At(s, "decided")
      BY <2>2, Zenon DEF At
    <3>2. StillAllowed(request[s].order)
      BY <3>1, Zenon DEF MembershipsInv, DecidedHolds
    <3>. QED BY <2>1, <3>1, <3>2, Zenon DEF StillAllowed, Exists, AnotherAdmin, Quiet
  <2>. QED BY <1>1, <2>1, <2>3, <2>4, <2>5, QuietRows, Zenon DEF MembershipsInv
<1>6. ASSUME NEW r \in Requests, Lock(r) PROVE MembershipsInv'
  <2>1. Quiet /\ request[r] # NULL /\ Goes(r, "locked") /\ lock' = r /\ lock = NULL /\ "locked" \in Steps
    BY <1>6, Zenon DEF Lock, At, Quiet, Steps
  <2>2. LockHeld' /\ NothingBefore' /\ ActorsManage' /\ DecidedHolds'
    BY <2>1, GoesQuietly, Zenon
  <2>. QED BY <1>1, <2>1, <2>2, QuietRows, Zenon DEF MembershipsInv
<1>7. ASSUME NEW r \in Requests, Authorize(r) PROVE MembershipsInv'
  <2>1. Quiet /\ request[r] # NULL /\ Goes(r, "authorized") /\ "authorized" \in Steps
    BY <1>7, Zenon DEF Authorize, At, Quiet, Steps
  <2>2. lock = r /\ lock' = r
    BY <1>7, Zenon DEF Authorize, At, MembershipsInv, LockHeld
  <2>3. member[request[r].actor] = "ADMIN"
    BY <1>7, Zenon DEF Authorize, MayManage, CanManage
  <2>4. LockHeld' /\ NothingBefore' /\ ActorsManage' /\ DecidedHolds'
    BY <2>1, <2>2, <2>3, GoesQuietly, Zenon
  <2>. QED BY <1>1, <2>1, <2>4, QuietRows, Zenon DEF MembershipsInv
<1>8. ASSUME NEW r \in Requests, Decide(r) PROVE MembershipsInv'
  <2>1. Quiet /\ request[r] # NULL /\ Goes(r, "decided") /\ "decided" \in Steps
    BY <1>8, Zenon DEF Decide, At, Quiet, Steps
  <2>2. lock = r /\ lock' = r
    BY <1>8, Zenon DEF Decide, At, MembershipsInv, LockHeld
  <2>3. member[request[r].actor] = "ADMIN"
    BY <1>8, Zenon DEF Decide, MembershipsInv, ActorsManage
  <2>4. request[r].order \in Orders
    BY <2>1, Zenon DEF MembershipsInv, MembershipsTypeOK, RequestType
  <2>5. StillAllowed(request[r].order)
    BY <1>8, <2>4, OrderTypes, Zenon DEF Decide, Allowed, StillAllowed
  <2>6. LockHeld' /\ NothingBefore' /\ ActorsManage' /\ DecidedHolds'
    BY <2>1, <2>2, <2>3, <2>5, GoesQuietly, Zenon
  <2>. QED BY <1>1, <2>1, <2>6, QuietRows, Zenon DEF MembershipsInv
<1>9. ASSUME NEW r \in Requests, Refuse(r) \/ Rollback(r) PROVE MembershipsInv'
  <2>1. Quiet /\ request[r] # NULL /\ Ends(r)
    BY <1>9, Zenon DEF Refuse, Rollback, At, Quiet
  <2>2. LockHeld' /\ NothingBefore' /\ ActorsManage' /\ DecidedHolds'
    BY <2>1, EndsQuietly, Zenon
  <2>. QED BY <1>1, <2>1, <2>2, QuietRows, Zenon DEF MembershipsInv
<1>. QED BY <1>2, <1>3, <1>4, <1>5, <1>6, <1>7, <1>8, <1>9, CommitStep, Zenon DEF MembershipsNext

\* The invariant holds in every reachable state.
LEMMA MembershipsInvariant == MembershipsSpec => []MembershipsInv
<1>1. MembershipsInit => MembershipsInv
  BY InitInv, Zenon
<1>2. MembershipsInv /\ [MembershipsNext]_membershipVars => MembershipsInv'
  BY InvStep, Zenon
<1>. QED BY <1>1, <1>2, PTL DEF MembershipsSpec

-----------------------------------------------------------------------------
(* Theorems.                                                               *)

\* The rows and the requests of membership management have their types.
THEOREM MembershipsTyped == MembershipsSpec => []MembershipsTypeOK
<1>1. MembershipsInv => MembershipsTypeOK
  BY Zenon DEF MembershipsInv
<1>. QED BY <1>1, MembershipsInvariant, PTL

\* However many requests add, demote and remove members at the same time, an
\* organization keeps an ADMIN (services/memberships.py, _require_another_admin).
THEOREM AdminKept == MembershipsSpec => []KeepsAdmin
<1>1. MembershipsInv => KeepsAdmin
  BY Zenon DEF MembershipsInv
<1>. QED BY <1>1, MembershipsInvariant, PTL

\* The row lock of the organization makes a decision last until its commit.
THEOREM LockProtects == MembershipsSpec => []DecisionsHold
<1>1. MembershipsInv => DecisionsHold
  BY Zenon DEF MembershipsInv, DecisionsHold, LockHeld, ActorsManage, DecidedHolds, StillAllowed, At
<1>. QED BY <1>1, MembershipsInvariant, PTL

\* Membership management implements MembershipPromise: every change is made in
\* one step, and the actor of the request that makes it is ADMIN in that very
\* state, although the role was read before (services/memberships.py, _authorize).
THEOREM PromiseKept == MembershipsSpec => KeepsPromise
<1>1. MembershipsInit => Promise!PromiseInit
  BY Zenon DEF MembershipsInit, Promise!PromiseInit
<1>2. ASSUME MembershipsInv, [MembershipsNext]_membershipVars
      PROVE  [Promise!PromiseNext]_(Promise!promiseVars)
  <2> USE DEF rowVars
  <2>1. CASE UNCHANGED membershipVars
    BY <2>1, Zenon DEF membershipVars, Promise!promiseVars
  <2>2. ASSUME NEW u \in Users, Create(u) PROVE Promise!PromiseNext
    BY <2>2, Zenon DEF Create, Promise!PromiseNext, Promise!Found
  <2>3. ASSUME NEW r \in Requests, Commit(r) PROVE Promise!PromiseNext
    <3> DEFINE order == request[r].order
    <3>1. request[r].actor \in Users /\ order \in Orders /\ member[request[r].actor] = "ADMIN"
      BY <1>2, <2>3, CommitFinds, Zenon
    <3>2. order.user \in Users /\ order.role \in Promise!Roles \cup {NULL}
      BY <3>1, OrderTypes, Zenon DEF Roles, Promise!Roles
    <3>3. \E u \in Users : member'[u] = "ADMIN"
      BY <1>2, <2>3, CommitKeepsAdmin, Zenon
    <3>4. Promise!Change(request[r].actor, order.user, order.role)
      BY <2>3, <3>1, <3>3, Zenon DEF Commit, Promise!Change, Promise!HasAdmin
    <3>. QED BY <3>1, <3>2, <3>4, Zenon DEF Promise!PromiseNext
  <2>4. ASSUME NEW r \in Requests, NEW actor \in Users, NEW order \in Orders, Resolve(r, actor, order)
        PROVE  UNCHANGED Promise!promiseVars
    BY <2>4, Zenon DEF Resolve, Promise!promiseVars
  <2>5. ASSUME NEW r \in Requests, Lock(r) \/ Authorize(r) \/ Decide(r) \/ Refuse(r) \/ Rollback(r)
        PROVE  UNCHANGED Promise!promiseVars
    BY <2>5, Zenon DEF Lock, Authorize, Decide, Refuse, Rollback, Promise!promiseVars
  <2>6. ASSUME NEW u \in Users, SetActive(u) PROVE UNCHANGED Promise!promiseVars
    BY <2>6, Zenon DEF SetActive, Promise!promiseVars
  <2>. QED BY <1>2, <2>1, <2>2, <2>3, <2>4, <2>5, <2>6, Zenon DEF MembershipsNext
<1>. QED BY <1>1, <1>2, MembershipsInvariant, PTL DEF MembershipsSpec, KeepsPromise, Promise!PromiseSpec

-----------------------------------------------------------------------------
(* AgentTokens: the rotation of keys.                                      *)

\* The smaller of two numbers.
LEMMA MinOfTwo ==
    ASSUME NEW a \in Nat, NEW b \in Nat PROVE Min({a, b}) = IF a <= b THEN a ELSE b
<1>1. \E x \in {a, b} : \A y \in {a, b} : x <= y
  <2>1. CASE a <= b
    BY <2>1
  <2>2. CASE ~(a <= b)
    BY <2>2
  <2> QED
    BY <2>1, <2>2, Zenon
<1>2. Min({a, b}) \in {a, b} /\ \A y \in {a, b} : Min({a, b}) <= y
    BY <1>1, Zenon DEF Min
<1>3. PICK m : m = Min({a, b})
    BY Zenon
<1>4. m \in {a, b} /\ m <= a /\ m <= b
    BY <1>2, <1>3, Zenon
<1> QED
    BY <1>3, <1>4

\* The types of a token and of settings, taken apart.
LEMMA TokenParts ==
    ASSUME KeysTyped
    PROVE  /\ settings.signing \in Keys /\ settings.previous \subseteq Keys
           /\ \A p \in Processes : running[p].signing \in Keys /\ running[p].previous \subseteq Keys
           /\ \A p \in Processes : ahead[p] \in 0 .. Skew
           /\ \A k \in Keys : idle[k] \in 0 .. TTL
           /\ \A t \in Tokens : token[t] # NULL =>
                 /\ token[t] \in TokenType /\ token[t].key \in Keys
                 /\ token[t].ahead \in 0 .. Skew /\ token[t].age \in 0 .. MaxAge
<1>1. \A x \in SettingsType : x.signing \in Keys /\ x.previous \subseteq Keys
    BY Zenon DEF SettingsType
<1>2. \A x \in TokenType : x.key \in Keys /\ x.ahead \in 0 .. Skew /\ x.age \in 0 .. MaxAge
    BY Zenon DEF TokenType
<1>3. /\ \A p \in Processes : running[p] \in SettingsType
      /\ \A p \in Processes : ahead[p] \in 0 .. Skew
      /\ \A k \in Keys : idle[k] \in 0 .. TTL
      /\ \A t \in Tokens : token[t] # NULL => token[t] \in TokenType
    BY Zenon DEF KeysTyped
<1> QED
    BY <1>1, <1>2, <1>3, Zenon DEF KeysTyped

\* The numbers of the procedure.
LEMMA TokenNumbers ==
    /\ TTL \in Nat /\ Leeway \in Nat /\ Skew \in Nat /\ MaxAge \in Nat /\ TTL > 0
    /\ Skew <= Leeway /\ TTL <= MaxAge /\ Keys \subseteq Nat /\ MaxKey \in Nat
BY TokensAssumption DEF MaxAge, Keys

\* A step that leaves the keys and the tokens alone.
LEMMA KeysSame ==
    ASSUME KeysInv, UNCHANGED <<ahead, settings, running, idle, token>> PROVE KeysInv'
<1>1. KeysTyped' /\ NoneAhead' /\ RestOK'
    BY Zenon DEF KeysInv, KeysTyped, NoneAhead, RestOK
<1>2. LiveKnown'
    BY Zenon DEF KeysInv, LiveKnown, Live, Known
<1> QED
    BY <1>1, <1>2, Zenon DEF KeysInv

\* The processes start with the settings of the first key.
LEMMA KeysStart == TokensInit => KeysInv
<1> SUFFICES ASSUME TokensInit PROVE KeysInv
    BY Zenon
<1>1. settings = [signing |-> 1, previous |-> {}] /\ settings \in SettingsType /\ 1 \in Keys
      /\ settings.signing = 1 /\ settings.previous = {}
    BY TokensAssumption DEF TokensInit, SettingsType, Keys
<1>2. \A p \in Processes : running[p] = settings
    BY Zenon DEF TokensInit
<1>3. idle \in [Keys -> 0 .. TTL] /\ \A k \in Keys : idle[k] = 0
    BY TokenNumbers DEF TokensInit
<1>4. KeysTyped
    BY <1>1, <1>3, Zenon DEF TokensInit, KeysTyped
<1>5. NoneAhead
    BY <1>1, <1>2 DEF NoneAhead
<1>6. RestOK
    BY <1>3 DEF RestOK, TokensInit
<1>7. LiveKnown
  <2> SUFFICES ASSUME NEW k \in Keys, Live(k)
               PROVE  /\ k \in {settings.signing} \cup settings.previous
                      /\ \A p \in Processes : k <= running[p].signing => k \in Known(p)
    BY Zenon DEF LiveKnown
  <2>1. k = settings.signing
    BY <1>2, Zenon DEF Live, TokensInit
  <2> QED
    BY <1>2, <2>1, Zenon DEF Known
<1> QED
    BY <1>4, <1>5, <1>6, <1>7, Zenon DEF KeysInv

\* A token is signed with a key that is live already.
LEMMA TokenIssued ==
    ASSUME KeysInv, AccessInv, NEW r \in TokenRequests, NEW t \in Tokens, Issue(r, t) PROVE KeysInv'
<1>1. PICK q \in ExchangeType : q = tokenRequest[r]
  <2>1. tokenRequest[r] # NULL /\ tokenRequest[r].step = "issue"
    BY Zenon DEF Issue, TokenAt
  <2>2. tokenRequest[r] \in ExchangeType \cup AccessType
    BY <2>1, Zenon DEF AccessInv
  <2>3. \A x \in AccessType : x.step # "issue"
    BY Zenon DEF AccessType
  <2> QED
    BY <2>1, <2>2, <2>3, Zenon
<1>2. q.process \in Processes /\ q.client \in Clients /\ q.requested \subseteq Scopes
    BY Zenon DEF ExchangeType
<1>3. UNCHANGED <<ahead, settings, running, idle>>
    BY Zenon DEF Issue
<1>4. CASE Granted(q.client, q.requested) = NULL
  <2>1. UNCHANGED token
    BY <1>1, <1>4, Zenon DEF Issue
  <2> QED
    BY <1>3, <2>1, KeysSame, Zenon
<1>5. CASE Granted(q.client, q.requested) # NULL
  <2> DEFINE k == running[q.process].signing
             new == [client |-> q.client, org |-> OrgOf[q.client], scopes |-> Granted(q.client, q.requested),
                     key |-> k, ahead |-> ahead[q.process], age |-> 0]
  <2>1. token' = [token EXCEPT ![t] = new]
    BY <1>1, <1>5, Zenon DEF Issue
  <2>2. /\ k \in Keys /\ ahead[q.process] \in 0 .. Skew /\ OrgOf[q.client] \in Organizations
        /\ Granted(q.client, q.requested) \subseteq Scopes
    BY <1>2, <1>5, TokenParts, TokensAssumption, Zenon DEF Granted, KeysInv
  <2>3. new \in TokenType /\ new.key = k /\ new.age = 0
    BY <1>2, <2>2, TokenNumbers DEF TokenType
  <2> HIDE DEF new, k
  <2>4. \A u \in Tokens : IF u = t THEN token'[u] = new ELSE token'[u] = token[u]
    BY <2>1, Zenon DEF KeysInv, KeysTyped
  <2>5. KeysTyped' /\ NoneAhead'
    BY <1>3, <2>1, <2>3, Zenon DEF KeysInv, KeysTyped, NoneAhead
  <2>6. idle[k] = 0 /\ Live(k)
    <3>1. \A p \in Processes : p = q.process => running[p].signing = k
        BY Zenon DEF k
    <3>2. ~(idle[k] > 0)
        BY <1>2, <2>2, <3>1, Zenon DEF KeysInv, RestOK
    <3>3. idle[k] \in 0 .. TTL
        BY <2>2, TokenParts, Zenon DEF KeysInv
    <3>4. idle[k] = 0
        BY <3>2, <3>3
    <3> QED
        BY <1>2, <3>1, <3>4, Zenon DEF Live
  <2>7. RestOK'
    <3>1. ASSUME NEW u \in Tokens, token'[u] # NULL PROVE idle'[token'[u].key] <= token'[u].age
      <4>1. CASE u = t
        <5>1. token'[u] = new
            BY <2>4, <4>1, Zenon
        <5> QED
            BY <1>3, <2>3, <2>6, <5>1
      <4>2. CASE u # t
        BY <1>3, <2>4, <3>1, <4>2, Zenon DEF KeysInv, RestOK
      <4> QED
        BY <4>1, <4>2, Zenon
    <3> QED
        BY <1>3, <3>1, Zenon DEF KeysInv, RestOK
  <2>8. ASSUME NEW j \in Keys, Live(j)' PROVE Live(j)
    BY <1>3, <2>3, <2>4, <2>6, <2>8, Zenon DEF Live
  <2>9. LiveKnown'
    BY <1>3, <2>8, Zenon DEF KeysInv, LiveKnown, Known
  <2> QED
    BY <2>5, <2>7, <2>9, Zenon DEF KeysInv
<1> QED
    BY <1>4, <1>5, Zenon

\* A new key, and the old one kept beside it.
LEMMA KeyRotated == ASSUME KeysInv, Rotate PROVE KeysInv'
<1>0. /\ UNCHANGED <<ahead, running, idle, token>> /\ settings.signing < MaxKey
      /\ settings' = [signing |-> settings.signing + 1, previous |-> settings.previous \cup {settings.signing}]
    BY Zenon DEF Rotate
<1>1. settings.signing \in 1 .. MaxKey /\ settings.previous \subseteq 1 .. MaxKey
    BY TokenParts, Zenon DEF KeysInv, Keys
<1>2. /\ settings' \in SettingsType /\ settings'.signing = settings.signing + 1
      /\ settings'.previous = settings.previous \cup {settings.signing}
    BY <1>0, <1>1, TokenNumbers DEF SettingsType, Keys
<1>3. KeysTyped'
    BY <1>0, <1>2, Zenon DEF KeysInv, KeysTyped
<1>4. NoneAhead'
  <2>1. \A p \in Processes : running[p].signing \in Nat /\ running[p].signing <= settings.signing
    BY TokenParts, TokenNumbers, Zenon DEF KeysInv, NoneAhead
  <2>2. \A p \in Processes : running[p].signing <= settings'.signing
    BY <1>1, <1>2, <2>1
  <2>3. \A k \in settings.previous : k < settings.signing
    BY Zenon DEF KeysInv, NoneAhead
  <2>4. \A k \in settings'.previous : k < settings'.signing
    BY <1>1, <1>2, <2>3
  <2> QED
    BY <1>0, <2>2, <2>4, Zenon DEF KeysInv, NoneAhead
<1>5. RestOK'
  <2>1. \A k \in Keys : k < settings.signing => k < settings'.signing
    BY <1>1, <1>2, TokenNumbers
  <2> QED
    BY <1>0, <2>1, Zenon DEF KeysInv, RestOK
<1>6. LiveKnown'
    BY <1>0, <1>2, Zenon DEF KeysInv, LiveKnown, Live, Known
<1> QED
    BY <1>3, <1>4, <1>5, <1>6, Zenon DEF KeysInv

\* A key is dropped when it has rested for the life of a token: it is not live.
LEMMA KeyDropped == ASSUME KeysInv, NEW k \in Keys, DropKey(k) PROVE KeysInv'
<1>0. /\ UNCHANGED <<ahead, running, idle, token>> /\ idle[k] = TTL
      /\ settings' = [settings EXCEPT !.previous = settings.previous \ {k}]
    BY Zenon DEF DropKey
<1>1. settings \in SettingsType
    BY Zenon DEF KeysInv, KeysTyped
<1>2. /\ settings' \in SettingsType /\ settings'.signing = settings.signing
      /\ settings'.previous = settings.previous \ {k}
    BY <1>0, <1>1, Zenon DEF SettingsType
<1>3. KeysTyped' /\ NoneAhead' /\ RestOK'
    BY <1>0, <1>2, Zenon DEF KeysInv, KeysTyped, NoneAhead, RestOK
<1>4. ~Live(k)
  <2>1. idle[k] > 0
    BY <1>0, TokenNumbers, Zenon
  <2>2. \A p \in Processes : running[p].signing # k
    BY <2>1, Zenon DEF KeysInv, RestOK
  <2>3. ASSUME NEW t \in Tokens, token[t] # NULL, token[t].key = k PROVE ~(token[t].age < TTL)
    <3>1. TTL <= token[t].age /\ token[t].age \in 0 .. MaxAge
        BY <1>0, <2>3, TokenParts, Zenon DEF KeysInv, RestOK
    <3> QED
        BY <3>1, TokenNumbers
  <2> QED
    BY <2>2, <2>3, Zenon DEF Live
<1>5. LiveKnown'
  <2>1. \A j : Live(j)' <=> Live(j)
    BY <1>0, Zenon DEF Live
  <2> QED
    BY <1>0, <1>2, <1>4, <2>1, Zenon DEF KeysInv, LiveKnown, Known
<1> QED
    BY <1>3, <1>5, Zenon DEF KeysInv

\* A process that starts knows every live key and signs with the latest.
LEMMA ProcessRestarts == ASSUME KeysInv, NEW p \in Processes, Restart(p) PROVE KeysInv'
<1>0. UNCHANGED <<ahead, settings, idle, token>> /\ running' = [running EXCEPT ![p] = settings]
    BY Zenon DEF Restart
<1>1. \A q \in Processes : IF q = p THEN running'[q] = settings ELSE running'[q] = running[q]
    BY <1>0, Zenon DEF KeysInv, KeysTyped
<1>2. KeysTyped'
    BY <1>0, Zenon DEF KeysInv, KeysTyped
<1>3. settings.signing \in Nat /\ \A q \in Processes : running[q].signing \in Nat
    BY TokenParts, TokenNumbers, Zenon DEF KeysInv
<1>4. NoneAhead'
  <2>1. settings.signing <= settings.signing
    BY <1>3
  <2> QED
    BY <1>0, <1>1, <2>1, Zenon DEF KeysInv, NoneAhead
<1>5. RestOK'
  <2>1. ASSUME NEW k \in Keys, idle[k] > 0, NEW q \in Processes PROVE running'[q].signing # k
    <3>1. k < settings.signing /\ running[q].signing # k
        BY <2>1, Zenon DEF KeysInv, RestOK
    <3>2. k # settings.signing
        BY <3>1, <1>3, TokenNumbers
    <3> QED
        BY <1>1, <3>1, <3>2, Zenon
  <2> QED
    BY <1>0, <2>1, Zenon DEF KeysInv, RestOK
<1>6. ASSUME NEW k \in Keys, Live(k)' PROVE k = settings.signing \/ Live(k)
    BY <1>0, <1>1, <1>6, Zenon DEF Live
<1>7. LiveKnown'
  <2> SUFFICES ASSUME NEW k \in Keys, Live(k)'
               PROVE  /\ k \in {settings'.signing} \cup settings'.previous
                      /\ \A q \in Processes : k <= running'[q].signing => k \in Known(q)'
    BY Zenon DEF LiveKnown
  <2>1. k \in {settings.signing} \cup settings.previous
    BY <1>6, Zenon DEF KeysInv, LiveKnown
  <2>2. ASSUME NEW q \in Processes, k <= running'[q].signing PROVE k \in Known(q)'
    <3>1. CASE q = p
        BY <1>1, <2>1, <3>1, Zenon DEF Known
    <3>2. CASE q # p /\ Live(k)
        BY <1>1, <2>2, <3>2, Zenon DEF KeysInv, LiveKnown, Known
    <3>3. CASE q # p /\ k = settings.signing
      <4>1. running'[q] = running[q] /\ running[q].signing <= settings.signing
        BY <1>1, <3>3, Zenon DEF KeysInv, NoneAhead
      <4>2. k = running[q].signing
        BY <1>3, <2>2, <3>3, <4>1
      <4> QED
        BY <4>1, <4>2, Zenon DEF Known
    <3> QED
        BY <1>6, <3>1, <3>2, <3>3, Zenon
  <2> QED
    BY <1>0, <2>1, <2>2, Zenon
<1> QED
    BY <1>2, <1>4, <1>5, <1>7, Zenon DEF KeysInv

\* Time passes: a resting key and its tokens grow older together.
LEMMA KeysRest == ASSUME KeysInv, TokensTick PROVE KeysInv'
<1>0. UNCHANGED <<ahead, settings, running>>
    BY Zenon DEF TokensTick
<1>1. ASSUME NEW k \in Keys
      PROVE  /\ idle'[k] \in 0 .. TTL
             /\ \/ idle'[k] = 0
                \/ /\ k < settings.signing /\ \A p \in Processes : running[p].signing # k
                   /\ idle'[k] <= idle[k] + 1
  <2>1. idle'[k] = IF k >= settings.signing \/ \E p \in Processes : running[p].signing = k THEN 0
                   ELSE Min({idle[k] + 1, TTL})
    BY Zenon DEF TokensTick
  <2>2. /\ idle[k] \in 0 .. TTL /\ k \in Nat /\ settings.signing \in Nat /\ TTL \in Nat
    BY TokenParts, TokenNumbers, Zenon DEF KeysInv
  <2>3. Min({idle[k] + 1, TTL}) = IF idle[k] + 1 <= TTL THEN idle[k] + 1 ELSE TTL
    BY <2>2, MinOfTwo
  <2> QED
    BY <2>1, <2>2, <2>3
<1>2. ASSUME NEW t \in Tokens, token'[t] # NULL
      PROVE  /\ token[t] # NULL /\ token'[t] \in TokenType /\ token'[t].key = token[t].key
             /\ token'[t].age = IF token[t].age + 1 <= MaxAge THEN token[t].age + 1 ELSE MaxAge
  <2>1. token[t] # NULL /\ token'[t] = [token[t] EXCEPT !.age = Min({token[t].age + 1, MaxAge})]
    BY <1>2, Zenon DEF TokensTick
  <2>2. token[t] \in TokenType /\ token[t].age \in 0 .. MaxAge /\ MaxAge \in Nat
    BY <2>1, TokenParts, TokenNumbers, Zenon DEF KeysInv
  <2>3. PICK a \in 0 .. MaxAge : /\ a = Min({token[t].age + 1, MaxAge})
                                 /\ a = IF token[t].age + 1 <= MaxAge THEN token[t].age + 1 ELSE MaxAge
    BY <2>2, MinOfTwo
  <2> QED
    BY <2>1, <2>2, <2>3, Zenon DEF TokenType
<1>3. KeysTyped'
  <2>1. idle' \in [Keys -> 0 .. TTL]
    BY <1>1, Zenon DEF TokensTick
  <2>2. token' \in [Tokens -> TokenType \cup {NULL}]
    BY <1>2, Zenon DEF TokensTick
  <2> QED
    BY <1>0, <2>1, <2>2, Zenon DEF KeysInv, KeysTyped
<1>4. NoneAhead'
    BY <1>0, Zenon DEF KeysInv, NoneAhead
<1>5. RestOK'
  <2>1. ASSUME NEW k \in Keys, idle'[k] > 0
        PROVE  k < settings.signing /\ \A p \in Processes : running[p].signing # k
    <3>1. idle'[k] # 0
        BY <2>1
    <3> QED
        BY <1>1, <3>1, Zenon
  <2>2. ASSUME NEW t \in Tokens, token'[t] # NULL PROVE idle'[token'[t].key] <= token'[t].age
    <3>1. PICK k \in Keys : k = token[t].key /\ k = token'[t].key
        BY <1>2, <2>2, TokenParts, Zenon DEF KeysInv
    <3>2. token[t].age \in 0 .. MaxAge /\ idle[k] <= token[t].age /\ idle[k] \in 0 .. TTL
        BY <1>2, <2>2, <3>1, TokenParts, Zenon DEF KeysInv, RestOK
    <3>3. idle'[k] \in 0 .. TTL /\ (idle'[k] = 0 \/ idle'[k] <= idle[k] + 1)
        BY <1>1, Zenon
    <3>4. token'[t].age = IF token[t].age + 1 <= MaxAge THEN token[t].age + 1 ELSE MaxAge
        BY <1>2, <2>2, Zenon
    <3>5. idle'[k] <= token'[t].age
        BY <3>2, <3>3, <3>4, TokenNumbers
    <3> QED
        BY <3>1, <3>5, Zenon
  <2> QED
    BY <1>0, <2>1, <2>2, Zenon DEF RestOK
<1>6. ASSUME NEW k \in Keys, Live(k)' PROVE Live(k)
  <2>1. ASSUME NEW t \in Tokens, token'[t] # NULL, token'[t].key = k, token'[t].age < TTL
        PROVE  token[t] # NULL /\ token[t].key = k /\ token[t].age < TTL
    <3>1. /\ token[t] # NULL /\ token[t].key = k /\ token[t].age \in 0 .. MaxAge
          /\ token'[t].age = IF token[t].age + 1 <= MaxAge THEN token[t].age + 1 ELSE MaxAge
        BY <1>2, <2>1, TokenParts, Zenon DEF KeysInv
    <3> QED
        BY <2>1, <3>1, TokenNumbers
  <2> QED
    BY <1>0, <1>6, <2>1, Zenon DEF Live
<1>7. LiveKnown'
    BY <1>0, <1>6, Zenon DEF KeysInv, LiveKnown, Known
<1> QED
    BY <1>3, <1>4, <1>5, <1>7, Zenon DEF KeysInv

-----------------------------------------------------------------------------
(* AgentTokens: requests with a token.                                     *)

\* A step of one request.
LEMMA AccessStep ==
    ASSUME AccessInv, NEW r \in TokenRequests, NEW x,
           x # NULL => x \in ExchangeType \cup AccessType /\ AccessOK(x),
           tokenRequest' = [tokenRequest EXCEPT ![r] = x], UNCHANGED <<revoked, role>>
    PROVE  AccessInv'
<1>1. \A q \in TokenRequests : IF q = r THEN tokenRequest'[q] = x ELSE tokenRequest'[q] = tokenRequest[q]
    BY Zenon DEF AccessInv
<1>2. tokenRequest' \in [TokenRequests -> ExchangeType \cup AccessType \cup {NULL}]
    BY Zenon DEF AccessInv
<1>3. ASSUME NEW q \in TokenRequests, tokenRequest'[q] # NULL PROVE AccessOK(tokenRequest[q])'
  <2>1. PICK y : y = tokenRequest'[q] /\ AccessOK(y)
    BY <1>1, <1>3, Zenon DEF AccessInv
  <2> QED
    BY <2>1, Zenon DEF AccessOK
<1> QED
    BY <1>2, <1>3, Zenon DEF AccessInv

\* A request that is not at the token endpoint carries a principal.
LEMMA AccessAt ==
    ASSUME AccessInv, NEW r \in TokenRequests, NEW step \in {"active", "resolve", "admitted"},
           TokenAt(r, step)
    PROVE  /\ tokenRequest[r] # NULL /\ tokenRequest[r] \in AccessType
           /\ tokenRequest[r].step = step /\ AccessOK(tokenRequest[r])
<1>1. tokenRequest[r] # NULL /\ tokenRequest[r].step = step
    BY Zenon DEF TokenAt
<1>2. \A x \in ExchangeType : x.step = "issue"
    BY Zenon DEF ExchangeType
<1>3. step # "issue"
    BY Zenon
<1> QED
    BY <1>1, <1>2, <1>3, Zenon DEF AccessInv

\* Every step of a request or of the administration.
LEMMA AccessSteps == ASSUME KeysInv, AccessInv, TokensNext PROVE AccessInv'
<1>1. ASSUME NEW r \in TokenRequests, NEW p \in Processes, NEW c \in Clients,
             NEW requested \in SUBSET Scopes, Exchange(r, p, c, requested)
      PROVE  AccessInv'
  <2> DEFINE x == [step |-> "issue", process |-> p, client |-> c, requested |-> requested]
  <2>1. x \in ExchangeType /\ AccessOK(x)
    BY Zenon DEF ExchangeType, AccessOK
  <2>2. tokenRequest' = [tokenRequest EXCEPT ![r] = x] /\ UNCHANGED <<revoked, role>>
    BY <1>1, Zenon DEF Exchange
  <2> HIDE DEF x
  <2> QED
    BY <2>1, <2>2, AccessStep, Zenon
<1>2. ASSUME NEW r \in TokenRequests, NEW p \in Processes, NEW t \in Tokens, NEW org \in Organizations,
             Authenticate(r, p, t, org)
      PROVE  AccessInv'
  <2>1. token[t] \in TokenType
    BY <1>2, Zenon DEF Authenticate, KeysInv, KeysTyped
  <2>2. token[t].client \in Clients /\ token[t].scopes \in SUBSET Scopes
    BY <2>1, Zenon DEF TokenType
  <2>3. PICK c \in Clients, granted \in SUBSET Scopes : c = token[t].client /\ granted = token[t].scopes
    BY <2>2, Zenon
  <2>4. PICK was \in BOOLEAN : was = (c \in revoked)
    <3>1. CASE c \in revoked
        <4>1. TRUE = (c \in revoked)
            BY <3>1, Zenon
        <4> QED
            BY <4>1, Zenon
    <3>2. CASE c \notin revoked
        <4>1. FALSE = (c \in revoked)
            BY <3>2
        <4> QED
            BY <4>1, Zenon
    <3> QED
        BY <3>1, <3>2, Zenon
  <2> DEFINE x == [step |-> "active", process |-> p, client |-> c, scopes |-> granted,
                   role |-> NULL, late |-> was]
  <2>5. Principal(p, t) = x
    BY <2>3, <2>4, Zenon DEF Principal
  <2>6. x \in AccessType
    BY Zenon DEF AccessType
  <2>7. x.late = was /\ x.client = c /\ x.step = "active"
    BY Zenon
  <2>8. AccessOK(x)
    BY <2>4, <2>7, Zenon DEF AccessOK
  <2> QED
    BY <1>2, <2>5, <2>6, <2>8, AccessStep, Zenon DEF Authenticate
<1>3. ASSUME NEW r \in TokenRequests, NEW t \in Tokens, Issue(r, t) PROVE AccessInv'
    BY <1>3, AccessStep, Zenon DEF Issue
<1>4. ASSUME NEW r \in TokenRequests, IsActive(r) PROVE AccessInv'
  <2>1. PICK x \in AccessType : x = tokenRequest[r] /\ x.step = "active" /\ AccessOK(x)
    BY <1>4, AccessAt, Zenon DEF IsActive
  <2> DEFINE y == IF x.client \in revoked THEN NULL ELSE [x EXCEPT !.step = "resolve"]
  <2>2. y # NULL => y \in AccessType /\ AccessOK(y)
    BY <2>1, Zenon DEF AccessType, AccessOK
  <2>3. tokenRequest' = [tokenRequest EXCEPT ![r] = y] /\ UNCHANGED <<revoked, role>>
    BY <1>4, <2>1, Zenon DEF IsActive, AccessInv
  <2> HIDE DEF y
  <2> QED
    BY <2>2, <2>3, AccessStep, Zenon
<1>5. ASSUME NEW r \in TokenRequests, ResolveTenant(r) PROVE AccessInv'
  <2>1. PICK x \in AccessType : x = tokenRequest[r] /\ x.step = "resolve" /\ AccessOK(x)
    BY <1>5, AccessAt, Zenon DEF ResolveTenant
  <2>2. PICK actual \in TokenRoles \cup {NULL} : actual = role[x.client]
    BY Zenon DEF AccessInv, AccessType
  <2> DEFINE y == IF actual \in {NULL, "ADMIN"} THEN NULL
                  ELSE [x EXCEPT !.step = "admitted", !.role = actual]
  <2>3. y # NULL => y \in AccessType /\ AccessOK(y)
    BY <2>1, Zenon DEF AccessType, AccessOK
  <2>4. tokenRequest' = [tokenRequest EXCEPT ![r] = y] /\ UNCHANGED <<revoked, role>>
    BY <1>5, <2>1, <2>2, Zenon DEF ResolveTenant, AccessInv
  <2> HIDE DEF y
  <2> QED
    BY <2>3, <2>4, AccessStep, Zenon
<1>6. ASSUME NEW r \in TokenRequests, Respond(r) PROVE AccessInv'
    BY <1>6, AccessStep, Zenon DEF Respond
<1>7. ASSUME NEW c \in Clients, Revoke(c) PROVE AccessInv'
  <2>1. revoked' \subseteq Clients /\ revoked \subseteq revoked' /\ UNCHANGED <<role, tokenRequest>>
    BY <1>7, Zenon DEF Revoke, AccessInv
  <2>2. ASSUME NEW r \in TokenRequests, tokenRequest'[r] # NULL PROVE AccessOK(tokenRequest[r])'
    BY <2>1, <2>2, Zenon DEF AccessInv, AccessOK
  <2> QED
    BY <2>1, <2>2, Zenon DEF AccessInv
<1>8. ASSUME NEW c \in Clients, NEW new \in TokenRoles \cup {NULL}, ChangeRole(c, new) PROVE AccessInv'
    BY <1>8, Zenon DEF ChangeRole, AccessInv, AccessOK
<1>9. ASSUME UNCHANGED <<revoked, role, tokenRequest>> PROVE AccessInv'
    BY <1>9, Zenon DEF AccessInv, AccessOK
<1>10. ASSUME NEW p \in Processes, Restart(p) PROVE AccessInv'
  <2>1. /\ DOMAIN tokenRequest' = TokenRequests
        /\ \A r \in TokenRequests : tokenRequest'[r] = NULL \/ tokenRequest'[r] = tokenRequest[r]
        /\ UNCHANGED <<revoked, role>>
    BY <1>10, Zenon DEF Restart
  <2>2. tokenRequest' \in [TokenRequests -> ExchangeType \cup AccessType \cup {NULL}]
    BY <1>10, <2>1, Zenon DEF AccessInv, Restart
  <2>3. ASSUME NEW r \in TokenRequests, tokenRequest'[r] # NULL PROVE AccessOK(tokenRequest[r])'
    <3>1. PICK x : x = tokenRequest[r] /\ x = tokenRequest'[r] /\ AccessOK(x)
        BY <2>1, <2>3, Zenon DEF AccessInv
    <3> QED
        BY <2>1, <3>1, Zenon DEF AccessOK
  <2> QED
    BY <2>1, <2>2, <2>3, Zenon DEF AccessInv
<1>11. ASSUME Rotate \/ (\E k \in Keys : DropKey(k)) \/ TokensTick PROVE AccessInv'
    BY <1>9, <1>11, Zenon DEF Rotate, DropKey, TokensTick
<1> QED
    BY <1>1, <1>2, <1>3, <1>4, <1>5, <1>6, <1>7, <1>8, <1>10, <1>11, Zenon DEF TokensNext

\* Every step keeps the keys in order.
LEMMA KeysSteps == ASSUME KeysInv, AccessInv, TokensNext PROVE KeysInv'
<1>1. ASSUME NEW r \in TokenRequests, NEW p \in Processes,
             \/ \E c \in Clients, requested \in SUBSET Scopes : Exchange(r, p, c, requested)
             \/ \E t \in Tokens, org \in Organizations : Authenticate(r, p, t, org)
      PROVE  KeysInv'
    BY <1>1, KeysSame, Zenon DEF Exchange, Authenticate
<1>2. ASSUME NEW r \in TokenRequests, IsActive(r) \/ ResolveTenant(r) \/ Respond(r) PROVE KeysInv'
    BY <1>2, KeysSame, Zenon DEF IsActive, ResolveTenant, Respond
<1>3. ASSUME NEW c \in Clients, Revoke(c) \/ \E new \in TokenRoles \cup {NULL} : ChangeRole(c, new)
      PROVE  KeysInv'
    BY <1>3, KeysSame, Zenon DEF Revoke, ChangeRole
<1> QED
    BY <1>1, <1>2, <1>3, TokenIssued, KeyRotated, KeyDropped, ProcessRestarts, KeysRest, Zenon DEF TokensNext

\* Every step keeps the invariants of the tokens.
LEMMA TokensInvariance == TokensSpec => [](KeysInv /\ AccessInv)
<1>1. TokensInit => KeysInv /\ AccessInv
  <2> SUFFICES ASSUME TokensInit PROVE AccessInv
    BY KeysStart, Zenon
  <2>1. role \in [Clients -> TokenRoles \cup {NULL}]
    BY Zenon DEF TokensInit, TokenRoles
  <2> QED
    BY <2>1, Zenon DEF TokensInit, AccessInv
<1>2. KeysInv /\ AccessInv /\ [TokensNext]_tokenVars => (KeysInv /\ AccessInv)'
  <2> SUFFICES ASSUME KeysInv, AccessInv, [TokensNext]_tokenVars PROVE KeysInv' /\ AccessInv'
    BY Zenon
  <2>1. CASE TokensNext
    BY <2>1, KeysSteps, AccessSteps, Zenon
  <2>2. CASE UNCHANGED tokenVars
    <3>1. UNCHANGED <<ahead, settings, running, idle, token>> /\ UNCHANGED <<revoked, role, tokenRequest>>
        BY <2>2, Zenon DEF tokenVars
    <3> QED
        BY <3>1, KeysSame, Zenon DEF AccessInv, AccessOK
  <2> QED
    BY <2>1, <2>2, Zenon
<1> QED
    BY <1>1, <1>2, PTL DEF TokensSpec

\* A rotation of the signing key by the documented procedure: a token that has not
\* expired is refused by exactly the processes that started before its key came
\* into use, for any number of processes, keys and tokens and any clocks within
\* the leeway.
THEOREM TokensRefusedOnlyBehind == TokensSpec => []RefusedOnlyBehind
<1>1. ASSUME KeysInv, NEW t \in Tokens, NEW p \in Processes, token[t] # NULL, token[t].age < TTL
      PROVE  Verifies(p, t) <=> token[t].key <= running[p].signing
  <2>1. /\ token[t].key \in Keys /\ token[t].ahead \in 0 .. Skew /\ token[t].age \in 0 .. MaxAge
        /\ ahead[p] \in 0 .. Skew
    BY <1>1, TokenParts, Zenon DEF KeysInv
  <2>2. token[t].key <= running[p].signing => token[t].key \in Known(p)
    BY <1>1, <2>1, Zenon DEF KeysInv, LiveKnown, Live
  <2>3. /\ token[t].age + ahead[p] + Leeway >= token[t].ahead
        /\ token[t].age + ahead[p] < token[t].ahead + TTL + Leeway
    BY <1>1, <2>1, TokenNumbers
  <2>4. token[t].key \in Known(p) => token[t].key <= running[p].signing
    <3>1. /\ running[p].signing \in Nat /\ token[t].key \in Nat
          /\ \A k \in running[p].previous : k < running[p].signing
        BY <1>1, <2>1, TokenParts, TokenNumbers, Zenon DEF KeysInv, NoneAhead
    <3> QED
        BY <3>1 DEF Known
  <2> QED
    BY <2>2, <2>3, <2>4, Zenon DEF Verifies
<1>2. KeysInv => RefusedOnlyBehind
    BY <1>1, Zenon DEF RefusedOnlyBehind
<1> QED
    BY <1>2, TokensInvariance, PTL

\* No process accepts a token for longer than its life, the leeway and the
\* difference of the clocks.
THEOREM TokensExpireEverywhere == TokensSpec => []ExpiresEverywhere
<1>1. ASSUME KeysInv, NEW t \in Tokens, NEW p \in Processes, token[t] # NULL, token[t].age = MaxAge
      PROVE  ~Verifies(p, t)
  <2>1. token[t].ahead \in 0 .. Skew /\ ahead[p] \in 0 .. Skew
    BY <1>1, TokenParts, Zenon DEF KeysInv
  <2>2. ~(token[t].age + ahead[p] < token[t].ahead + TTL + Leeway)
    BY <1>1, <2>1, TokenNumbers DEF MaxAge
  <2> QED
    BY <2>2, Zenon DEF Verifies
<1>2. KeysInv => ExpiresEverywhere
    BY <1>1, Zenon DEF ExpiresEverywhere
<1> QED
    BY <1>2, TokensInvariance, PTL

\* A revoked client is refused from the next request on, with a token too that
\* an exchange under way during the revocation issued after it.
THEOREM RevokedClientsRefused == TokensSpec => []RevokedRefused
<1>1. ASSUME AccessInv, NEW r \in TokenRequests, TokenAt(r, "admitted") PROVE ~tokenRequest[r].late
  <2>1. tokenRequest[r].step = "admitted" /\ AccessOK(tokenRequest[r])
    BY <1>1, AccessAt, Zenon
  <2> QED
    BY <2>1, Zenon DEF AccessOK
<1>2. AccessInv => RevokedRefused
    BY <1>1, Zenon DEF RevokedRefused
<1> QED
    BY <1>2, TokensInvariance, PTL

-----------------------------------------------------------------------------
(* EmbeddingQueue.                                                         *)

\* What a row of embedding_jobs satisfies.
GoodJob(j) ==
    /\ j \in JobType
    /\ j.status = "RUNNING" => j.token = j.attempts
    /\ j.status # "RUNNING" => j.lease = 0
    /\ j.status # "PENDING" => j.wait = 0
    /\ j.status = "FAILED" => j.attempts >= MaxAttempts
    /\ j.status = "PENDING" => j.attempts < MaxAttempts

DueJob(j) == j.wait = 0 /\ (j.status = "PENDING" \/ (j.status = "RUNNING" /\ j.lease = 0))

Less(n) == IF n = 0 THEN 0 ELSE n - 1

-----------------------------------------------------------------------------
(* The rows.                                                               *)

\* The limits are numbers.
LEMMA Limits ==
    /\ RetryCap \in Nat /\ RetryBase \in Nat /\ MaxFaults \in Nat /\ MaxBatches \in Nat
    /\ MaxRetries \in Nat /\ LastVersion \in Nat
    /\ Lease \in Nat /\ Lease > 0 /\ MaxAttempts \in Nat /\ MaxAttempts > 0
BY QueueAssumption

\* No row is NULL.
LEMMA RowsNotNull == NULL \notin JobType /\ NULL \notin EmbeddingType /\ NULL \notin Nat
BY QueueAssumption, Zenon

\* The backoff stays below its cap.
LEMMA DelayBounded ==
    ASSUME NEW n \in Nat, n < MaxAttempts PROVE RetryDelay(n) \in 0 .. RetryCap
<1>1. CASE n < 1
  BY <1>1, Limits DEF RetryDelay
<1>2. CASE n >= 1
  <2> DEFINE delay == RetryBase * 2^(n - 1)
  <2>1. n - 1 \in 0 .. MaxAttempts
    BY <1>2, Limits
  <2>2. delay \in Nat
    BY <2>1, QueueAssumption, Zenon
  <2>3. RetryDelay(n) = IF delay < RetryCap THEN delay ELSE RetryCap
    BY <1>2 DEF RetryDelay
  <2> HIDE DEF delay
  <2>. QED BY <2>2, <2>3, Limits
<1>. QED BY <1>1, <1>2

\* A new job.
LEMMA NewGood == GoodJob(NewJob) /\ NewJob # NULL
<1>1. NewJob \in JobType
  BY Limits DEF NewJob, JobType, Statuses
<1>. QED BY <1>1, RowsNotNull, Limits, Zenon DEF NewJob, GoodJob

\* A claim draws the next token.
LEMMA LeasedGood ==
    ASSUME NEW j, GoodJob(j), DueJob(j)
    PROVE  /\ GoodJob(Leased(j)) /\ Leased(j).attempts = j.attempts + 1
           /\ Leased(j).token = j.attempts + 1 /\ Leased(j).status = "RUNNING"
<1>1. j \in JobType /\ j.attempts \in Nat
  BY Zenon DEF GoodJob, JobType
<1>2. Leased(j) = [status |-> "RUNNING", attempts |-> j.attempts + 1, token |-> j.attempts + 1,
                   wait |-> j.wait, lease |-> Lease]
  <2> DEFINE n == j.attempts + 1
  <2>1. Leased(j) = [j EXCEPT !.status = "RUNNING", !.token = n, !.attempts = n, !.lease = Lease]
    BY Zenon DEF Leased
  <2>2. j \in [status : Statuses, attempts : Nat, token : Nat \cup {NULL},
               wait : 0 .. RetryCap, lease : 0 .. Lease]
    BY <1>1, Zenon DEF JobType
  <2> HIDE DEF n
  <2>3. Leased(j) = [status |-> "RUNNING", attempts |-> n, token |-> n, wait |-> j.wait,
                     lease |-> Lease]
    BY <2>1, <2>2, Zenon
  <2>. QED BY <2>3, Zenon DEF n
<1>3. Leased(j) \in JobType
  BY <1>1, <1>2, Limits, RowsNotNull DEF JobType, Statuses
<1>. QED BY <1>2, <1>3 DEF GoodJob, DueJob

\* Only the holder of the token completes a job.
LEMMA CompleteGood ==
    ASSUME NEW j, GoodJob(j), NEW drawn \in Nat
    PROVE  /\ GoodJob(Complete(j, drawn)) /\ Complete(j, drawn).attempts = j.attempts
           /\ Complete(j, drawn) = j
              \/ (j.token = drawn /\ j.status = "RUNNING" /\ Complete(j, drawn).status = "SUCCEEDED")
           /\ Complete(j, drawn).status = "SUCCEEDED" => j.token = drawn \/ j.status = "SUCCEEDED"
<1>1. j \in JobType
  BY Zenon DEF GoodJob
<1>2. CASE j.token # drawn
  BY <1>2, Zenon DEF Complete
<1>3. CASE j.token = drawn
  <2>1. j.status = "RUNNING"
    BY <1>1, <1>3, RowsNotNull, Zenon DEF JobType
  <2>2. Complete(j, drawn) = [status |-> "SUCCEEDED", attempts |-> j.attempts, token |-> NULL,
                              wait |-> j.wait, lease |-> 0]
    BY <1>1, <1>3, Zenon DEF Complete, JobType
  <2>3. Complete(j, drawn) \in JobType
    BY <1>1, <2>2, Limits DEF JobType, Statuses
  <2>. QED BY <1>3, <2>1, <2>2, <2>3 DEF GoodJob
<1>. QED BY <1>2, <1>3, Zenon

\* Only the holder of the token fails a job, for good once the attempts are
\* used up.
LEMMA FailGood ==
    ASSUME NEW j, GoodJob(j), NEW drawn \in Nat
    PROVE  /\ GoodJob(Fail(j, drawn)) /\ Fail(j, drawn).attempts = j.attempts
           /\ Fail(j, drawn) = j
              \/ (j.token = drawn /\ j.status = "RUNNING" /\ Fail(j, drawn).status # "SUCCEEDED")
<1>1. j \in JobType
  BY Zenon DEF GoodJob
<1>2. CASE j.token # drawn
  BY <1>2, Zenon DEF Fail
<1>3. CASE j.token = drawn
  <2>1. j.status = "RUNNING" /\ j.attempts = drawn /\ j.wait = 0
    BY <1>1, <1>3, RowsNotNull, Zenon DEF JobType, GoodJob
  <2>2. Fail(j, drawn) = [status |-> IF drawn >= MaxAttempts THEN "FAILED" ELSE "PENDING",
                          attempts |-> j.attempts, token |-> NULL,
                          wait |-> IF drawn >= MaxAttempts THEN 0 ELSE RetryDelay(drawn),
                          lease |-> 0]
    BY <1>1, <1>3, <2>1, Zenon DEF Fail, JobType
  <2>3. CASE drawn >= MaxAttempts
    <3>1. Fail(j, drawn) = [status |-> "FAILED", attempts |-> drawn, token |-> NULL,
                            wait |-> 0, lease |-> 0]
      BY <2>1, <2>2, <2>3, Zenon
    <3>2. Fail(j, drawn) \in JobType
      BY <3>1, Limits DEF JobType, Statuses
    <3>. QED BY <1>3, <2>1, <2>3, <3>1, <3>2 DEF GoodJob
  <2>4. CASE ~(drawn >= MaxAttempts)
    <3>1. Fail(j, drawn) = [status |-> "PENDING", attempts |-> drawn, token |-> NULL,
                            wait |-> RetryDelay(drawn), lease |-> 0]
      BY <2>1, <2>2, <2>4, Zenon
    <3>2. RetryDelay(drawn) \in 0 .. RetryCap
      BY <2>4, Limits, DelayBounded
    <3>3. Fail(j, drawn) \in JobType
      BY <3>1, <3>2, Limits DEF JobType, Statuses
    <3>. QED BY <1>3, <2>1, <2>4, <3>1, <3>3, Limits DEF GoodJob
  <2>. QED BY <2>3, <2>4, Zenon
<1>. QED BY <1>2, <1>3, Zenon

\* Time leaves a finished job alone.
LEMMA ElapsedGood ==
    ASSUME NEW j, GoodJob(j), NEW e, e = [j EXCEPT !.wait = Less(@), !.lease = Less(@)]
    PROVE  /\ GoodJob(e) /\ e.attempts = j.attempts /\ e.status = j.status /\ e.token = j.token
           /\ j.status \in {"SUCCEEDED", "FAILED"} => e = j
<1>1. j \in JobType /\ j.wait \in 0 .. RetryCap /\ j.lease \in 0 .. Lease
  BY Zenon DEF GoodJob, JobType
<1>2. e = [status |-> j.status, attempts |-> j.attempts, token |-> j.token,
           wait |-> Less(j.wait), lease |-> Less(j.lease)]
  BY <1>1, Zenon DEF JobType
<1>3. Less(j.wait) \in 0 .. RetryCap /\ Less(j.lease) \in 0 .. Lease
  BY <1>1, Limits DEF Less
<1>4. e \in JobType
  BY <1>1, <1>2, <1>3, Zenon DEF JobType
<1>5. GoodJob(e)
  BY <1>2, <1>4, Zenon DEF GoodJob, Less
<1>6. j.status \in {"SUCCEEDED", "FAILED"} => e = j
  BY <1>1, <1>2, Zenon DEF GoodJob, JobType, Less
<1>. QED BY <1>2, <1>5, <1>6, Zenon

-----------------------------------------------------------------------------
(* The invariant.                                                          *)

CacheType == [org : Orgs, sha : Texts, of : Texts]

Cached(w, v) == \E c \in cache[w] : c.org = Org[v] /\ c.sha = Text[v]

\* What a worker carries: vectors of their own documents,
CarriesOK(w) ==
    /\ tries[w] \in 0 .. MaxRetries /\ batches[w] \in 0 .. MaxBatches
    /\ fresh[w] \subseteq Texts /\ todo[w] \subseteq Texts
    /\ \A c \in cache[w] : c \in CacheType /\ c.of = c.sha

\* tokens no newer than the rows',
TokensOK(w) ==
    /\ DOMAIN batch[w] \subseteq Versions
    /\ \A v \in DOMAIN batch[w] :
        batch[w][v] \in Nat /\ jobs[v] # NULL /\ batch[w][v] <= jobs[v].attempts

\* and from loading to saving a way to the vector of every job.
LoadedOK(w) ==
    /\ phase[w] \in {"calling", "saving"} =>
        \A v \in DOMAIN batch[w] : Text[v] \in fresh[w] \cup todo[w] \/ Cached(w, v)
    /\ phase[w] = "saving" => todo[w] = {}

LocalOK(w) ==
    /\ phase[w] \in Phases /\ CarriesOK(w) /\ TokensOK(w) /\ LoadedOK(w)
    /\ phase[w] = "claiming" /\ w \in Drainers => batches[w] > 0

\* A function on S.
On(S, f) == f = [x \in S |-> f[x]]

Frames ==
    /\ On(Workers, phase) /\ On(Workers, batch) /\ On(Workers, cache) /\ On(Workers, fresh)
    /\ On(Workers, todo) /\ On(Workers, tries) /\ On(Workers, batches)

\* The rows: types, histories of the jobs, and vectors of their own text.
RowsOK ==
    /\ recorded \subseteq Versions
    /\ On(Versions, jobs) /\ On(Versions, vectors)
    /\ \A v \in Versions :
        /\ jobs[v] # NULL => GoodJob(jobs[v])
        /\ vectors[v] # NULL => vectors[v] = [sha |-> Text[v], of |-> Text[v]]

FaultsOK == faults \in Nat /\ faults <= MaxFaults /\ unannounced \subseteq Orgs

Inv ==
    /\ Frames /\ RowsOK /\ FaultsOK
    /\ \A w \in Workers : LocalOK(w)
    /\ OneHolder /\ SucceededHasVector /\ AnnouncedUnlessFailed

\* Nothing of another worker changes.
OthersSame(w) ==
    \A x \in Workers \ {w} :
        /\ phase'[x] = phase[x] /\ batch'[x] = batch[x] /\ cache'[x] = cache[x]
        /\ fresh'[x] = fresh[x] /\ todo'[x] = todo[x] /\ tries'[x] = tries[x]
        /\ batches'[x] = batches[x]

\* Jobs stay, and their attempts are never taken back.
JobsKept ==
    \A v \in Versions :
        jobs[v] # NULL => jobs'[v] # NULL /\ jobs'[v].attempts >= jobs[v].attempts

\* g is f but for the entry of w.
Changed(f, g, w) == On(Workers, g) /\ \A x \in Workers \ {w} : g[x] = f[x]

\* The worker's own variables change for it alone.
LEMMA OwnChanges ==
    ASSUME NEW w, Changed(phase, phase', w), Changed(batch, batch', w), Changed(cache, cache', w),
           Changed(fresh, fresh', w), Changed(todo, todo', w), Changed(tries, tries', w),
           Changed(batches, batches', w)
    PROVE  Frames' /\ OthersSame(w)
BY Zenon DEF Changed, Frames, OthersSame

\* A good job is a row, and its attempts are a number.
LEMMA GoodRow == ASSUME NEW j, GoodJob(j) PROVE j # NULL /\ j.attempts \in Nat /\ j \in JobType
<1>1. j \in JobType
  BY Zenon DEF GoodJob
<1>2. j.attempts \in Nat
  BY <1>1, Zenon DEF JobType
<1>. QED BY <1>1, <1>2, RowsNotNull, Zenon

\* Tokens stay right while the jobs do.
LEMMA TokensKept ==
    ASSUME Inv, RowsOK', JobsKept, NEW x \in Workers, batch'[x] = batch[x]
    PROVE  TokensOK(x)'
<1>1. TokensOK(x)
  BY Zenon DEF Inv, LocalOK
<1>2. ASSUME NEW v \in DOMAIN batch[x]
      PROVE  batch[x][v] \in Nat /\ jobs'[v] # NULL /\ batch[x][v] <= jobs'[v].attempts
  <2>1. /\ v \in Versions /\ batch[x][v] \in Nat /\ jobs[v] # NULL
        /\ batch[x][v] <= jobs[v].attempts
    BY <1>1, Zenon DEF TokensOK
  <2>2. jobs'[v] # NULL /\ jobs'[v].attempts >= jobs[v].attempts
    BY <2>1, Zenon DEF JobsKept
  <2>3. jobs[v].attempts \in Nat /\ jobs'[v].attempts \in Nat
    BY <2>1, <2>2, GoodRow, Zenon DEF Inv, RowsOK
  <2>. QED BY <2>1, <2>2, <2>3
<1>. QED BY <1>1, <1>2, Zenon DEF TokensOK

\* What a worker carries stays right while others work.
LEMMA CarriedKept ==
    ASSUME Inv, RowsOK', JobsKept, NEW x \in Workers,
           phase'[x] = phase[x], batch'[x] = batch[x], cache'[x] = cache[x],
           fresh'[x] = fresh[x], todo'[x] = todo[x], tries'[x] = tries[x],
           batches'[x] = batches[x]
    PROVE  LocalOK(x)'
<1>1. LocalOK(x) /\ TokensOK(x)'
  BY TokensKept, Zenon DEF Inv
<1>. QED BY <1>1, Zenon DEF LocalOK, CarriesOK, LoadedOK, Cached

\* A step of one worker preserves the invariant if it does for what it touches.
LEMMA WorkerStep ==
    ASSUME Inv, NEW w \in Workers, Frames', OthersSame(w), JobsKept, RowsOK', FaultsOK',
           LocalOK(w)', SucceededHasVector', AnnouncedUnlessFailed',
           \A v \in DOMAIN batch'[w] : \A x \in Workers \ {w} :
                v \in DOMAIN batch[x] => batch'[w][v] # batch[x][v]
    PROVE  Inv'
<1>1. \A x \in Workers : LocalOK(x)'
  <2> SUFFICES ASSUME NEW x \in Workers PROVE LocalOK(x)'
    BY Zenon
  <2>1. CASE x = w
    BY <2>1, Zenon
  <2>2. CASE x # w
    BY <2>2, CarriedKept, Zenon DEF OthersSame
  <2>. QED BY <2>1, <2>2, Zenon
<1>2. OneHolder'
  <2> SUFFICES ASSUME NEW x \in Workers, NEW y \in Workers, x # y,
                      NEW v \in DOMAIN batch'[x] \cap DOMAIN batch'[y]
               PROVE  batch'[x][v] # batch'[y][v]
    BY Zenon DEF OneHolder
  <2>1. CASE x = w
    <3>1. batch'[y] = batch[y] /\ y \in Workers \ {w}
      BY <2>1, Zenon DEF OthersSame
    <3>. QED BY <2>1, <3>1, Zenon
  <2>2. CASE y = w
    <3>1. batch'[x] = batch[x] /\ x \in Workers \ {w}
      BY <2>2, Zenon DEF OthersSame
    <3>. QED BY <2>2, <3>1, Zenon
  <2>3. CASE x # w /\ y # w
    <3>1. batch'[x] = batch[x] /\ batch'[y] = batch[y]
      BY <2>3, Zenon DEF OthersSame
    <3>. QED BY <3>1, Zenon DEF Inv, OneHolder
  <2>. QED BY <2>1, <2>2, <2>3, Zenon
<1>. QED BY <1>1, <1>2, Zenon DEF Inv

\* The same, for a worker that keeps its batch or drops it.
LEMMA OldBatch ==
    ASSUME Inv, NEW w \in Workers, batch'[w] = batch[w] \/ batch'[w] = <<>>
    PROVE  \A v \in DOMAIN batch'[w] : \A x \in Workers \ {w} :
                v \in DOMAIN batch[x] => batch'[w][v] # batch[x][v]
<1>1. CASE batch'[w] = batch[w]
  BY <1>1, Zenon DEF Inv, OneHolder
<1>2. CASE batch'[w] = <<>>
  BY <1>2
<1>. QED BY <1>1, <1>2, Zenon

\* The rows hold while they do not change.
LEMMA RowsSame ==
    ASSUME Inv, UNCHANGED dbVars PROVE RowsOK' /\ JobsKept /\ SucceededHasVector'
<1>1. RowsOK' /\ SucceededHasVector'
  BY Zenon DEF Inv, RowsOK, On, SucceededHasVector, dbVars
<1>2. JobsKept
  <2> SUFFICES ASSUME NEW v \in Versions, jobs[v] # NULL
               PROVE  jobs'[v] # NULL /\ jobs'[v].attempts >= jobs[v].attempts
    BY Zenon DEF JobsKept
  <2>1. jobs[v].attempts \in Nat /\ jobs' = jobs
    BY GoodRow, Zenon DEF Inv, RowsOK, dbVars
  <2>. QED BY <2>1
<1>. QED BY <1>1, <1>2, Zenon

\* A worker that neither stops announcing nor writes leaves the announcements.
LEMMA AnnouncedSame ==
    ASSUME Inv, NEW w \in Workers, OthersSame(w), phase[w] # "announcing",
           UNCHANGED <<unannounced, faults>>
    PROVE  AnnouncedUnlessFailed' /\ FaultsOK'
<1>1. FaultsOK'
  BY Zenon DEF Inv, FaultsOK
<1>2. ASSUME NEW o \in unannounced, ~(faults < MaxFaults)
      PROVE  \E x \in Workers : phase'[x] = "announcing" /\ \E v \in DOMAIN batch'[x] : Org[v] = o
  <2>1. PICK x \in Workers : phase[x] = "announcing" /\ \E v \in DOMAIN batch[x] : Org[v] = o
    BY <1>2, Zenon DEF Inv, AnnouncedUnlessFailed
  <2>. QED BY <2>1, Zenon DEF OthersSame
<1>. QED BY <1>1, <1>2, Zenon DEF AnnouncedUnlessFailed

\* The functions a step of worker w leaves alone or changes for w.
LEMMA Own ==
    ASSUME Inv, NEW w \in Workers
    PROVE  /\ phase' = phase => Changed(phase, phase', w) /\ phase'[w] = phase[w]
           /\ \A e : phase' = [phase EXCEPT ![w] = e] => Changed(phase, phase', w) /\ phase'[w] = e
           /\ batch' = batch => Changed(batch, batch', w) /\ batch'[w] = batch[w]
           /\ \A e : batch' = [batch EXCEPT ![w] = e] => Changed(batch, batch', w) /\ batch'[w] = e
           /\ cache' = cache => Changed(cache, cache', w) /\ cache'[w] = cache[w]
           /\ \A e : cache' = [cache EXCEPT ![w] = e] => Changed(cache, cache', w) /\ cache'[w] = e
           /\ fresh' = fresh => Changed(fresh, fresh', w) /\ fresh'[w] = fresh[w]
           /\ \A e : fresh' = [fresh EXCEPT ![w] = e] => Changed(fresh, fresh', w) /\ fresh'[w] = e
           /\ todo' = todo => Changed(todo, todo', w) /\ todo'[w] = todo[w]
           /\ \A e : todo' = [todo EXCEPT ![w] = e] => Changed(todo, todo', w) /\ todo'[w] = e
           /\ tries' = tries => Changed(tries, tries', w) /\ tries'[w] = tries[w]
           /\ \A e : tries' = [tries EXCEPT ![w] = e] => Changed(tries, tries', w) /\ tries'[w] = e
           /\ batches' = batches => Changed(batches, batches', w) /\ batches'[w] = batches[w]
           /\ \A e : batches' = [batches EXCEPT ![w] = e] => Changed(batches, batches', w) /\ batches'[w] = e
<1>1. On(Workers, phase) /\ On(Workers, batch) /\ On(Workers, cache) /\ On(Workers, fresh)
      /\ On(Workers, todo) /\ On(Workers, tries) /\ On(Workers, batches)
  BY Zenon DEF Inv, Frames
<1>2. /\ phase' = phase => Changed(phase, phase', w) /\ phase'[w] = phase[w]
      /\ \A e : phase' = [phase EXCEPT ![w] = e] => Changed(phase, phase', w) /\ phase'[w] = e
  BY <1>1, Zenon DEF On, Changed
<1>3. /\ batch' = batch => Changed(batch, batch', w) /\ batch'[w] = batch[w]
      /\ \A e : batch' = [batch EXCEPT ![w] = e] => Changed(batch, batch', w) /\ batch'[w] = e
  BY <1>1, Zenon DEF On, Changed
<1>4. /\ cache' = cache => Changed(cache, cache', w) /\ cache'[w] = cache[w]
      /\ \A e : cache' = [cache EXCEPT ![w] = e] => Changed(cache, cache', w) /\ cache'[w] = e
  BY <1>1, Zenon DEF On, Changed
<1>5. /\ fresh' = fresh => Changed(fresh, fresh', w) /\ fresh'[w] = fresh[w]
      /\ \A e : fresh' = [fresh EXCEPT ![w] = e] => Changed(fresh, fresh', w) /\ fresh'[w] = e
  BY <1>1, Zenon DEF On, Changed
<1>6. /\ todo' = todo => Changed(todo, todo', w) /\ todo'[w] = todo[w]
      /\ \A e : todo' = [todo EXCEPT ![w] = e] => Changed(todo, todo', w) /\ todo'[w] = e
  BY <1>1, Zenon DEF On, Changed
<1>7. /\ tries' = tries => Changed(tries, tries', w) /\ tries'[w] = tries[w]
      /\ \A e : tries' = [tries EXCEPT ![w] = e] => Changed(tries, tries', w) /\ tries'[w] = e
  BY <1>1, Zenon DEF On, Changed
<1>8. /\ batches' = batches => Changed(batches, batches', w) /\ batches'[w] = batches[w]
      /\ \A e : batches' = [batches EXCEPT ![w] = e] => Changed(batches, batches', w) /\ batches'[w] = e
  BY <1>1, Zenon DEF On, Changed
<1>. QED BY <1>2, <1>3, <1>4, <1>5, <1>6, <1>7, <1>8, Zenon

\* In most phases nothing more is asked of a worker.
LEMMA AtRest ==
    ASSUME NEW w \in Workers, phase'[w] \in {"idle", "loading", "failing", "announcing", "exited", "dead"},
           CarriesOK(w)', TokensOK(w)'
    PROVE  LocalOK(w)'
BY Zenon DEF LocalOK, LoadedOK, Phases

\* A worker without a batch.
LEMMA Forgotten ==
    ASSUME Inv, NEW w \in Workers, Forget(w), batches'[w] = batches[w]
    PROVE  /\ batch'[w] = <<>> /\ CarriesOK(w)' /\ TokensOK(w)'
           /\ Changed(batch, batch', w) /\ Changed(cache, cache', w) /\ Changed(fresh, fresh', w)
           /\ Changed(todo, todo', w) /\ Changed(tries, tries', w)
<1>1. /\ Changed(batch, batch', w) /\ Changed(cache, cache', w) /\ Changed(fresh, fresh', w)
      /\ Changed(todo, todo', w) /\ Changed(tries, tries', w)
      /\ batch'[w] = <<>> /\ cache'[w] = {} /\ fresh'[w] = {} /\ todo'[w] = {} /\ tries'[w] = 0
  <2>1. Changed(batch, batch', w) /\ batch'[w] = <<>> /\ Changed(cache, cache', w) /\ cache'[w] = {}
    BY Own, Zenon DEF Forget
  <2>2. Changed(fresh, fresh', w) /\ fresh'[w] = {} /\ Changed(todo, todo', w) /\ todo'[w] = {}
    BY Own, ZenonT(40) DEF Forget
  <2>3. Changed(tries, tries', w) /\ tries'[w] = 0
    BY Own, Zenon DEF Forget
  <2>. QED BY <2>1, <2>2, <2>3, Zenon
<1>2. TokensOK(w)'
  BY <1>1 DEF TokensOK
<1>3. 0 \in 0 .. MaxRetries
  BY Limits
<1>4. batches[w] \in 0 .. MaxBatches
  BY Zenon DEF Inv, LocalOK, CarriesOK
<1>. QED BY <1>1, <1>2, <1>3, <1>4, Zenon DEF CarriesOK

-----------------------------------------------------------------------------
(* The steps of a worker.                                                  *)

\* Nothing is due, or the drainer has done its batches.
LEMMA IdleSteps ==
    ASSUME Inv, NEW w \in Workers, NothingDue(w) \/ DrainLimit(w) \/ ProviderFails(w)
    PROVE  Inv'
<1>1. PICK q \in {"idle", "exited", "failing"} :
        /\ Goto(w, q) /\ phase[w] \in {"claiming", "idle", "calling"}
        /\ UNCHANGED <<dbVars, unannounced, batch, callVars, batches, faults>>
  BY Zenon DEF NothingDue, DrainLimit, ProviderFails
<1>2. /\ Changed(phase, phase', w) /\ phase'[w] = q
      /\ Changed(batch, batch', w) /\ batch'[w] = batch[w]
      /\ Changed(cache, cache', w) /\ cache'[w] = cache[w]
      /\ Changed(fresh, fresh', w) /\ fresh'[w] = fresh[w]
      /\ Changed(todo, todo', w) /\ todo'[w] = todo[w]
      /\ Changed(tries, tries', w) /\ tries'[w] = tries[w]
      /\ Changed(batches, batches', w) /\ batches'[w] = batches[w]
  BY <1>1, Own, Zenon DEF Goto, callVars
<1>3. Frames' /\ OthersSame(w)
  BY <1>2, OwnChanges, Zenon
<1>4. RowsOK' /\ JobsKept /\ SucceededHasVector'
  BY <1>1, RowsSame, Zenon
<1>5. /\ phase[w] # "announcing"
      /\ phase'[w] \in {"idle", "loading", "failing", "announcing", "exited", "dead"}
  BY <1>1, <1>2, Zenon
<1>6. AnnouncedUnlessFailed' /\ FaultsOK'
  BY <1>1, <1>3, <1>5, AnnouncedSame, Zenon
<1>7. CarriesOK(w)' /\ TokensOK(w)'
  BY <1>2, <1>4, TokensKept, Zenon DEF Inv, LocalOK, CarriesOK
<1>8. LocalOK(w)'
  BY <1>5, <1>7, AtRest, Zenon
<1>. QED BY <1>2, <1>3, <1>4, <1>6, <1>8, OldBatch, WorkerStep, Zenon

\* New rows that are good keep the invariant of the rows.
LEMMA RowsReplaced ==
    ASSUME Inv, recorded' = recorded, vectors' = vectors, On(Versions, jobs)',
           \A v \in Versions : jobs'[v] # NULL => GoodJob(jobs'[v]),
           \A v \in Versions : jobs[v] # NULL =>
                jobs'[v] # NULL /\ jobs'[v].attempts >= jobs[v].attempts,
           \A v \in Versions : jobs'[v] # NULL /\ jobs'[v].status = "SUCCEEDED" =>
                jobs[v] # NULL /\ jobs[v].status = "SUCCEEDED"
    PROVE  RowsOK' /\ JobsKept /\ SucceededHasVector'
<1>1. RowsOK'
  BY Zenon DEF Inv, RowsOK, On
<1>2. JobsKept
  BY Zenon DEF JobsKept
<1>3. SucceededHasVector'
  BY Zenon DEF Inv, SucceededHasVector
<1>. QED BY <1>1, <1>2, <1>3, Zenon

\* The reconciliation sweep.
LEMMA EnqueueStep == ASSUME Inv, NEW w \in Workers, EnqueueMissing(w) PROVE Inv'
<1>1. /\ phase[w] = "idle" /\ (w \in Drainers => batches[w] > 0) /\ Goto(w, "claiming")
      /\ jobs' = [v \in Versions |-> IF v \in Missing THEN NewJob ELSE jobs[v]]
      /\ UNCHANGED <<recorded, vectors, unannounced, batch, callVars, batches, faults>>
  BY Zenon DEF EnqueueMissing
<1>2. /\ Changed(phase, phase', w) /\ phase'[w] = "claiming"
      /\ Changed(batch, batch', w) /\ batch'[w] = batch[w]
      /\ Changed(cache, cache', w) /\ cache'[w] = cache[w]
      /\ Changed(fresh, fresh', w) /\ fresh'[w] = fresh[w]
      /\ Changed(todo, todo', w) /\ todo'[w] = todo[w]
      /\ Changed(tries, tries', w) /\ tries'[w] = tries[w]
      /\ Changed(batches, batches', w) /\ batches'[w] = batches[w]
  BY <1>1, Own, Zenon DEF Goto, callVars
<1>3. Frames' /\ OthersSame(w)
  BY <1>2, OwnChanges, Zenon
<1>4. ASSUME NEW v \in Versions
      PROVE  \/ jobs'[v] = jobs[v]
             \/ jobs[v] = NULL /\ jobs'[v] = NewJob
  BY <1>1, Zenon DEF Missing
<1>5. ASSUME NEW v \in Versions
      PROVE  /\ jobs'[v] # NULL => GoodJob(jobs'[v])
             /\ jobs[v] # NULL => jobs'[v] # NULL /\ jobs'[v].attempts >= jobs[v].attempts
             /\ jobs'[v] # NULL /\ jobs'[v].status = "SUCCEEDED" =>
                    jobs[v] # NULL /\ jobs[v].status = "SUCCEEDED"
  <2>1. jobs[v] # NULL => GoodJob(jobs[v])
    BY Zenon DEF Inv, RowsOK
  <2>2. CASE jobs'[v] = jobs[v]
    <3>1. jobs[v] # NULL => jobs[v].attempts \in Nat
      BY <2>1, GoodRow, Zenon
    <3>2. jobs[v] # NULL => jobs[v].attempts >= jobs[v].attempts
      BY <3>1
    <3>. QED BY <2>1, <2>2, <3>2, Zenon
  <2>3. CASE jobs[v] = NULL /\ jobs'[v] = NewJob
    <3>1. NewJob.status # "SUCCEEDED"
      BY Zenon DEF NewJob
    <3>. QED BY <2>3, <3>1, NewGood, Zenon
  <2>. QED BY <1>4, <2>2, <2>3, Zenon
<1>6. On(Versions, jobs)'
  BY <1>1, Zenon DEF On
<1>7. RowsOK' /\ JobsKept /\ SucceededHasVector'
  BY <1>1, <1>5, <1>6, RowsReplaced, Zenon
<1>8. AnnouncedUnlessFailed' /\ FaultsOK'
  <2>1. phase[w] # "announcing"
    BY <1>1, Zenon
  <2>. QED BY <1>1, <1>3, <2>1, AnnouncedSame, Zenon
<1>9. LocalOK(w)'
  <2>1. CarriesOK(w)' /\ TokensOK(w)'
    BY <1>2, <1>7, TokensKept, Zenon DEF Inv, LocalOK, CarriesOK
  <2>2. LoadedOK(w)' /\ phase'[w] \in Phases
    BY <1>2, Zenon DEF LoadedOK, Phases
  <2>. QED BY <1>1, <1>2, <2>1, <2>2, Zenon DEF LocalOK
<1>. QED BY <1>2, <1>3, <1>7, <1>8, <1>9, OldBatch, WorkerStep, Zenon

\* A claim: the new tokens are in nobody else's hands.
LEMMA ClaimStep == ASSUME Inv, NEW w \in Workers, ClaimJobs(w) PROVE Inv'
<1>1. PICK ids \in SUBSET Due :
        /\ jobs' = [v \in Versions |-> IF v \in ids THEN Leased(jobs[v]) ELSE jobs[v]]
        /\ batch' = [batch EXCEPT ![w] = [v \in ids |-> Leased(jobs[v]).token]]
  BY Zenon DEF ClaimJobs
<1>2. /\ phase[w] = "claiming" /\ Goto(w, "loading")
      /\ batches' = [batches EXCEPT ![w] = IF w \in Drainers THEN @ - 1 ELSE @]
      /\ UNCHANGED <<recorded, vectors, unannounced, callVars, faults>>
  BY Zenon DEF ClaimJobs
<1>3. /\ Changed(phase, phase', w) /\ phase'[w] = "loading"
      /\ Changed(batch, batch', w) /\ batch'[w] = [v \in ids |-> Leased(jobs[v]).token]
      /\ Changed(cache, cache', w) /\ cache'[w] = cache[w]
      /\ Changed(fresh, fresh', w) /\ fresh'[w] = fresh[w]
      /\ Changed(todo, todo', w) /\ todo'[w] = todo[w]
      /\ Changed(tries, tries', w) /\ tries'[w] = tries[w]
      /\ Changed(batches, batches', w)
      /\ batches'[w] = IF w \in Drainers THEN batches[w] - 1 ELSE batches[w]
  <2> DEFINE left == IF w \in Drainers THEN batches[w] - 1 ELSE batches[w]
             drawn == [v \in ids |-> Leased(jobs[v]).token]
  <2>1. batches' = [batches EXCEPT ![w] = left] /\ batch' = [batch EXCEPT ![w] = drawn]
    BY <1>1, <1>2, Zenon
  <2> HIDE DEF left, drawn
  <2>2. Changed(batches, batches', w) /\ batches'[w] = left
    BY <2>1, Own, Zenon
  <2>3. Changed(batch, batch', w) /\ batch'[w] = drawn
    BY <2>1, Own, Zenon
  <2>4. /\ Changed(phase, phase', w) /\ phase'[w] = "loading"
        /\ Changed(cache, cache', w) /\ cache'[w] = cache[w]
        /\ Changed(fresh, fresh', w) /\ fresh'[w] = fresh[w]
        /\ Changed(todo, todo', w) /\ todo'[w] = todo[w]
        /\ Changed(tries, tries', w) /\ tries'[w] = tries[w]
    BY <1>2, Own, Zenon DEF Goto, callVars
  <2>. QED BY <2>2, <2>3, <2>4, Zenon DEF left, drawn
<1>4. Frames' /\ OthersSame(w)
  BY <1>3, OwnChanges, Zenon
<1>5. ASSUME NEW v \in ids
      PROVE  /\ v \in Versions /\ jobs[v] # NULL /\ GoodJob(jobs[v]) /\ DueJob(jobs[v])
             /\ jobs'[v] = Leased(jobs[v]) /\ jobs[v].attempts \in Nat
  <2>1. v \in Versions /\ jobs[v] # NULL /\ DueJob(jobs[v])
    BY <1>5, Zenon DEF Due, DueJob
  <2>. QED BY <1>1, <2>1, GoodRow, Zenon DEF Inv, RowsOK
<1>6. ASSUME NEW v \in Versions
      PROVE  /\ jobs'[v] # NULL => GoodJob(jobs'[v])
             /\ jobs[v] # NULL => jobs'[v] # NULL /\ jobs'[v].attempts >= jobs[v].attempts
             /\ jobs'[v] # NULL /\ jobs'[v].status = "SUCCEEDED" =>
                    jobs[v] # NULL /\ jobs[v].status = "SUCCEEDED"
  <2>1. CASE v \in ids
    <3>1. /\ GoodJob(jobs'[v]) /\ jobs'[v].attempts = jobs[v].attempts + 1
          /\ jobs'[v].status = "RUNNING" /\ jobs[v].attempts \in Nat
      BY <1>5, <2>1, LeasedGood, Zenon
    <3>2. jobs'[v].attempts >= jobs[v].attempts /\ jobs'[v].status # "SUCCEEDED"
      BY <3>1
    <3>. QED BY <3>1, <3>2, GoodRow, Zenon
  <2>2. CASE v \notin ids
    <3>1. jobs'[v] = jobs[v]
      BY <1>1, <2>2, Zenon
    <3>2. jobs[v] # NULL => GoodJob(jobs[v]) /\ jobs[v].attempts \in Nat
      BY GoodRow, Zenon DEF Inv, RowsOK
    <3>3. jobs[v] # NULL => jobs[v].attempts >= jobs[v].attempts
      BY <3>2
    <3>. QED BY <3>1, <3>2, <3>3, Zenon
  <2>. QED BY <2>1, <2>2, Zenon
<1>7. On(Versions, jobs)'
  BY <1>1, Zenon DEF On
<1>8. RowsOK' /\ JobsKept /\ SucceededHasVector'
  BY <1>2, <1>6, <1>7, RowsReplaced, Zenon
<1>9. AnnouncedUnlessFailed' /\ FaultsOK'
  <2>1. phase[w] # "announcing"
    BY <1>2, Zenon
  <2>. QED BY <1>2, <1>4, <2>1, AnnouncedSame, Zenon
<1>10. LocalOK(w)'
  <2>1. TokensOK(w)'
    <3>1. DOMAIN batch'[w] = ids /\ ids \subseteq Versions
      BY <1>3, <1>5, Zenon
    <3>2. ASSUME NEW v \in ids
          PROVE  batch'[w][v] \in Nat /\ jobs'[v] # NULL /\ batch'[w][v] <= jobs'[v].attempts
      <4>1. /\ batch'[w][v] = jobs[v].attempts + 1 /\ jobs'[v].attempts = jobs[v].attempts + 1
            /\ jobs[v].attempts \in Nat /\ jobs'[v] # NULL
        <5>1. /\ batch'[w][v] = Leased(jobs[v]).token /\ jobs'[v] = Leased(jobs[v])
              /\ jobs[v].attempts \in Nat /\ GoodJob(jobs[v]) /\ DueJob(jobs[v])
          BY <1>3, <1>5, <3>2, Zenon
        <5>2. /\ GoodJob(Leased(jobs[v])) /\ Leased(jobs[v]).attempts = jobs[v].attempts + 1
              /\ Leased(jobs[v]).token = jobs[v].attempts + 1
          BY <5>1, LeasedGood, Zenon
        <5>. QED BY <5>1, <5>2, GoodRow, Zenon
      <4>. QED BY <4>1
    <3>. QED BY <3>1, <3>2, Zenon DEF TokensOK
  <2>2. batches'[w] \in 0 .. MaxBatches
    <3>1. /\ batches[w] \in 0 .. MaxBatches
          /\ w \in Drainers => batches[w] > 0
      BY <1>2, Zenon DEF Inv, LocalOK, CarriesOK
    <3>. QED BY <1>3, <3>1, Limits
  <2>3. CarriesOK(w)'
    BY <1>3, <2>2, Zenon DEF Inv, LocalOK, CarriesOK
  <2>4. phase'[w] \in {"idle", "loading", "failing", "announcing", "exited", "dead"}
    BY <1>3, Zenon
  <2>. QED BY <2>1, <2>3, <2>4, AtRest, Zenon
<1>11. ASSUME NEW v \in DOMAIN batch'[w], NEW x \in Workers \ {w}, v \in DOMAIN batch[x]
       PROVE  batch'[w][v] # batch[x][v]
  <2>1. v \in ids
    BY <1>3, <1>11, Zenon
  <2>2. batch'[w][v] = jobs[v].attempts + 1 /\ jobs[v].attempts \in Nat
    BY <1>3, <1>5, <2>1, LeasedGood, Zenon
  <2>3. batch[x][v] \in Nat /\ batch[x][v] <= jobs[v].attempts
    BY <1>11, Zenon DEF Inv, LocalOK, TokensOK
  <2>. QED BY <2>2, <2>3
<1>. QED BY <1>4, <1>8, <1>9, <1>10, <1>11, WorkerStep, Zenon

\* Loading: what is found stored was computed from its own document, and what
\* is not is to be sent.
LEMMA LoadStep == ASSUME Inv, NEW w \in Workers, LoadDocuments(w) PROVE Inv'
<1> DEFINE ids == DOMAIN batch[w]
           stored == UNION {CachedVectors(o, Documents({u \in ids : Org[u] = o})) :
                               o \in {Org[v] : v \in ids}}
           missing == {v \in ids : ~\E c \in stored : c.org = Org[v] /\ c.sha = Text[v]}
<1>1. /\ phase[w] = "loading"
      /\ cache' = [cache EXCEPT ![w] = stored]
      /\ todo' = [todo EXCEPT ![w] = Documents(missing)]
      /\ fresh' = [fresh EXCEPT ![w] = {}]
      /\ tries' = [tries EXCEPT ![w] = 0]
      /\ Goto(w, IF missing = {} THEN "saving" ELSE "calling")
      /\ UNCHANGED <<dbVars, unannounced, batch, batches, faults>>
  BY Zenon DEF LoadDocuments
<1>2. ids \subseteq Versions /\ CarriesOK(w)
  BY Zenon DEF Inv, LocalOK, TokensOK
<1>3. ASSUME NEW c \in stored PROVE c \in CacheType /\ c.of = c.sha
  <2>1. PICK u \in recorded :
            vectors[u] # NULL /\ c = [org |-> Org[u], sha |-> vectors[u].sha, of |-> vectors[u].of]
    <3>1. PICK o \in {Org[v] : v \in ids} : c \in CachedVectors(o, Documents({u \in ids : Org[u] = o}))
      BY <1>3, Zenon
    <3>2. PICK u \in recorded : /\ Org[u] = o /\ vectors[u] # NULL
                               /\ c = [org |-> o, sha |-> vectors[u].sha, of |-> vectors[u].of]
      BY <3>1, Zenon DEF CachedVectors
    <3>. QED BY <3>2, Zenon
  <2>2. u \in Versions /\ vectors[u] = [sha |-> Text[u], of |-> Text[u]]
    BY <2>1, Zenon DEF Inv, RowsOK
  <2>3. Org[u] \in Orgs /\ Text[u] \in Texts
    BY <2>2, Zenon DEF Orgs, Texts
  <2>. QED BY <2>1, <2>2, <2>3 DEF CacheType
<1>4. /\ Documents(missing) \subseteq Texts
      /\ \A v \in ids : Text[v] \in Documents(missing) \/ \E c \in stored : c.org = Org[v] /\ c.sha = Text[v]
      /\ missing = {} => Documents(missing) = {}
  BY <1>2, Zenon DEF Documents, Texts
<1> HIDE DEF stored, missing
<1>5. PICK q \in {"saving", "calling"} : Goto(w, q) /\ (q = "saving" => missing = {})
  <2>1. CASE missing = {}
    BY <1>1, <2>1, Zenon
  <2>2. CASE missing # {}
    BY <1>1, <2>2, Zenon
  <2>. QED BY <2>1, <2>2, Zenon
<1>6. /\ Changed(phase, phase', w) /\ phase'[w] = q
      /\ Changed(batch, batch', w) /\ batch'[w] = batch[w]
      /\ Changed(cache, cache', w) /\ cache'[w] = stored
      /\ Changed(fresh, fresh', w) /\ fresh'[w] = {}
  BY <1>1, <1>5, Own, Zenon DEF Goto
<1>7. /\ Changed(todo, todo', w) /\ todo'[w] = Documents(missing)
      /\ Changed(tries, tries', w) /\ tries'[w] = 0
      /\ Changed(batches, batches', w) /\ batches'[w] = batches[w]
  BY <1>1, Own, Zenon
<1>8. Frames' /\ OthersSame(w)
  BY <1>6, <1>7, OwnChanges, Zenon
<1>9. RowsOK' /\ JobsKept /\ SucceededHasVector'
  BY <1>1, RowsSame, Zenon
<1>10. phase[w] # "announcing" /\ q # "claiming" /\ q \in Phases
  BY <1>1, <1>5, Zenon DEF Phases
<1>11. AnnouncedUnlessFailed' /\ FaultsOK'
  BY <1>1, <1>8, <1>10, AnnouncedSame, Zenon
<1>12. CarriesOK(w)' /\ TokensOK(w)'
  <2>1. 0 \in 0 .. MaxRetries
    BY Limits
  <2>2. TokensOK(w)'
    BY <1>6, <1>9, TokensKept, Zenon
  <2>. QED BY <1>2, <1>3, <1>4, <1>6, <1>7, <2>1, <2>2, Zenon DEF CarriesOK
<1>13. LoadedOK(w)'
  BY <1>4, <1>5, <1>6, <1>7, Zenon DEF LoadedOK, Cached
<1>14. LocalOK(w)'
  BY <1>6, <1>10, <1>12, <1>13, Zenon DEF LocalOK
<1>. QED BY <1>6, <1>8, <1>9, <1>11, <1>14, OldBatch, WorkerStep, Zenon

\* The provider answers or is asked again: documents go from those to be sent to
\* those embedded.
LEMMA ProviderStep ==
    ASSUME Inv, NEW w \in Workers, ProviderAnswers(w) \/ ProviderRetries(w) PROVE Inv'
<1>1. /\ phase[w] = "calling"
      /\ UNCHANGED <<dbVars, unannounced, batch, cache, batches, faults>>
  BY Zenon DEF ProviderAnswers, ProviderRetries
<1>2. LocalOK(w)
  BY Zenon DEF Inv
<1>3. /\ Changed(phase, phase', w) /\ Changed(fresh, fresh', w) /\ Changed(todo, todo', w)
      /\ Changed(tries, tries', w) /\ phase'[w] \in {"calling", "saving"}
      /\ fresh'[w] \subseteq Texts /\ todo'[w] \subseteq Texts
      /\ fresh[w] \cup todo[w] \subseteq fresh'[w] \cup todo'[w]
      /\ phase'[w] = "saving" => todo'[w] = {}
      /\ tries'[w] \in 0 .. MaxRetries
  <2>1. CASE ProviderAnswers(w)
    <3>1. PICK chunk \in Chunks(w) :
            /\ fresh' = [fresh EXCEPT ![w] = @ \cup chunk]
            /\ todo' = [todo EXCEPT ![w] = @ \ chunk]
            /\ Goto(w, IF todo[w] = chunk THEN "saving" ELSE "calling")
      BY <2>1, Zenon DEF ProviderAnswers
    <3>2. chunk \subseteq todo[w] /\ todo[w] \subseteq Texts /\ fresh[w] \subseteq Texts
      BY <1>2, Zenon DEF Chunks, LocalOK, CarriesOK
    <3>3. PICK q \in {"saving", "calling"} : Goto(w, q) /\ (q = "saving" => todo[w] = chunk)
      <4>1. CASE todo[w] = chunk
        BY <3>1, <4>1, Zenon
      <4>2. CASE todo[w] # chunk
        BY <3>1, <4>2, Zenon
      <4>. QED BY <4>1, <4>2, Zenon
    <3>4. Changed(phase, phase', w) /\ phase'[w] = q
      BY <3>3, Own, Zenon DEF Goto
    <3>5. Changed(fresh, fresh', w) /\ fresh'[w] = fresh[w] \cup chunk
      BY <3>1, Own, Zenon
    <3>6. Changed(todo, todo', w) /\ todo'[w] = todo[w] \ chunk
      BY <3>1, Own, Zenon
    <3>7. Changed(tries, tries', w) /\ tries'[w] = 0
      BY <2>1, Own, Zenon DEF ProviderAnswers
    <3>8. 0 \in 0 .. MaxRetries
      BY Limits
    <3>. QED BY <3>2, <3>3, <3>4, <3>5, <3>6, <3>7, <3>8, Zenon
  <2>2. CASE ProviderRetries(w)
    <3>1. /\ tries[w] < MaxRetries /\ tries' = [tries EXCEPT ![w] = @ + 1]
          /\ UNCHANGED <<phase, fresh, todo>>
      BY <2>2, Zenon DEF ProviderRetries
    <3>2. tries[w] \in 0 .. MaxRetries
      BY <1>2, Zenon DEF LocalOK, CarriesOK
    <3>3. tries[w] + 1 \in 0 .. MaxRetries
      BY <3>1, <3>2, Limits
    <3>4. Changed(tries, tries', w) /\ tries'[w] = tries[w] + 1
      BY <3>1, Own, Zenon
    <3>5. /\ Changed(phase, phase', w) /\ phase'[w] = phase[w]
          /\ Changed(fresh, fresh', w) /\ fresh'[w] = fresh[w]
          /\ Changed(todo, todo', w) /\ todo'[w] = todo[w]
      BY <3>1, Own, Zenon
    <3>6. phase'[w] \in {"calling", "saving"} /\ phase'[w] # "saving"
      BY <1>1, <3>5, Zenon
    <3>. QED BY <1>2, <3>3, <3>4, <3>5, <3>6, Zenon DEF LocalOK, CarriesOK
  <2>. QED BY <2>1, <2>2, Zenon
<1>4. /\ Changed(batch, batch', w) /\ batch'[w] = batch[w]
      /\ Changed(cache, cache', w) /\ cache'[w] = cache[w]
      /\ Changed(batches, batches', w) /\ batches'[w] = batches[w]
  BY <1>1, Own, Zenon
<1>5. Frames' /\ OthersSame(w)
  BY <1>3, <1>4, OwnChanges, Zenon
<1>6. RowsOK' /\ JobsKept /\ SucceededHasVector'
  BY <1>1, RowsSame, Zenon
<1>7. phase[w] # "announcing" /\ phase'[w] # "claiming" /\ phase'[w] \in Phases
  BY <1>1, <1>3, Zenon DEF Phases
<1>8. AnnouncedUnlessFailed' /\ FaultsOK'
  BY <1>1, <1>5, <1>7, AnnouncedSame, Zenon
<1>9. CarriesOK(w)' /\ TokensOK(w)'
  BY <1>2, <1>3, <1>4, <1>6, TokensKept, Zenon DEF LocalOK, CarriesOK
<1>10. phase[w] \in {"calling", "saving"}
  BY <1>1, Zenon
<1>11. LoadedOK(w)'
  BY <1>2, <1>3, <1>4, <1>10, Zenon DEF LocalOK, LoadedOK, Cached
<1>12. LocalOK(w)'
  BY <1>7, <1>9, <1>11, Zenon DEF LocalOK
<1>. QED BY <1>4, <1>5, <1>6, <1>8, <1>12, OldBatch, WorkerStep, Zenon

\* The vector a worker stores was computed from the document of the version.
LEMMA VectorTrue ==
    ASSUME Inv, NEW w \in Workers, phase[w] = "saving", NEW v \in DOMAIN batch[w]
    PROVE  VectorOf(w, v) = Text[v]
<1>1. /\ \A c \in cache[w] : c.of = c.sha
      /\ Text[v] \in fresh[w] \/ Cached(w, v)
  <2>1. phase[w] \in {"calling", "saving"}
    BY Zenon
  <2>. QED BY <2>1, Zenon DEF Inv, LocalOK, CarriesOK, LoadedOK
<1>2. CASE Cached(w, v)
  BY <1>1, <1>2, Zenon DEF Cached, VectorOf
<1>3. CASE ~Cached(w, v)
  BY <1>1, <1>3, Zenon DEF Cached, VectorOf
<1>. QED BY <1>2, <1>3, Zenon

\* The last transaction of a batch: a job succeeds together with its vector.
LEMMA WriteStep == ASSUME Inv, NEW w \in Workers, WriteBatch(w) PROVE Inv'
<1>1. /\ phase[w] = "saving" /\ Goto(w, "announcing")
      /\ vectors' = [v \in Versions |->
                    IF v \in DOMAIN batch[w]
                    THEN SaveEmbedding(vectors[v], [sha |-> Text[v], of |-> VectorOf(w, v)])
                    ELSE vectors[v]]
      /\ jobs' = [v \in Versions |->
                    IF v \in DOMAIN batch[w] THEN Complete(jobs[v], batch[w][v]) ELSE jobs[v]]
      /\ unannounced' = unannounced \cup {Org[v] : v \in DOMAIN batch[w]}
      /\ UNCHANGED <<recorded, batch, callVars, batches, faults>>
  BY Zenon DEF WriteBatch
<1>2. /\ Changed(phase, phase', w) /\ phase'[w] = "announcing"
      /\ Changed(batch, batch', w) /\ batch'[w] = batch[w]
      /\ Changed(cache, cache', w) /\ cache'[w] = cache[w]
      /\ Changed(fresh, fresh', w) /\ fresh'[w] = fresh[w]
      /\ Changed(todo, todo', w) /\ todo'[w] = todo[w]
      /\ Changed(tries, tries', w) /\ tries'[w] = tries[w]
      /\ Changed(batches, batches', w) /\ batches'[w] = batches[w]
  BY <1>1, Own, Zenon DEF Goto, callVars
<1>3. Frames' /\ OthersSame(w)
  BY <1>2, OwnChanges, Zenon
<1>4. /\ \A v \in Versions : /\ jobs[v] # NULL => GoodJob(jobs[v]) /\ jobs[v].attempts \in Nat
                             /\ vectors[v] # NULL => vectors[v] = [sha |-> Text[v], of |-> Text[v]]
      /\ \A v \in DOMAIN batch[w] : v \in Versions /\ batch[w][v] \in Nat /\ jobs[v] # NULL
  BY GoodRow, Zenon DEF Inv, RowsOK, LocalOK, TokensOK
<1>5. ASSUME NEW v \in Versions
      PROVE  /\ vectors[v] # NULL => vectors'[v] = vectors[v]
             /\ vectors'[v] # NULL => vectors'[v] = [sha |-> Text[v], of |-> Text[v]]
             /\ v \in DOMAIN batch[w] => vectors'[v] # NULL
  <2>1. CASE v \in DOMAIN batch[w]
    <3>1. vectors'[v] = IF vectors[v] = NULL THEN [sha |-> Text[v], of |-> Text[v]] ELSE vectors[v]
      BY <1>1, <2>1, VectorTrue, Zenon DEF SaveEmbedding
    <3>2. [sha |-> Text[v], of |-> Text[v]] \in EmbeddingType
      BY Zenon DEF EmbeddingType, Texts
    <3>. QED BY <1>4, <3>1, <3>2, RowsNotNull, Zenon
  <2>2. CASE v \notin DOMAIN batch[w]
    BY <1>1, <1>4, <2>2, Zenon
  <2>. QED BY <2>1, <2>2, Zenon
<1>6. ASSUME NEW v \in Versions
      PROVE  /\ jobs'[v] # NULL => GoodJob(jobs'[v])
             /\ jobs[v] # NULL => jobs'[v] # NULL /\ jobs'[v].attempts >= jobs[v].attempts
             /\ jobs'[v] # NULL /\ jobs'[v].status = "SUCCEEDED" => vectors'[v] # NULL
  <2>1. CASE v \in DOMAIN batch[w]
    <3>1. jobs'[v] = Complete(jobs[v], batch[w][v])
      BY <1>1, <2>1, Zenon
    <3>2. GoodJob(jobs'[v]) /\ jobs'[v].attempts = jobs[v].attempts /\ jobs[v].attempts \in Nat
      <4> DEFINE after == Complete(jobs[v], batch[w][v])
      <4>1. GoodJob(jobs[v]) /\ batch[w][v] \in Nat /\ jobs[v].attempts \in Nat
        BY <1>4, <2>1, Zenon
      <4>2. GoodJob(after) /\ after.attempts = jobs[v].attempts
        BY <4>1, CompleteGood, Zenon
      <4>. QED BY <3>1, <4>1, <4>2, Zenon
    <3>3. jobs'[v].attempts >= jobs[v].attempts
      BY <3>2
    <3>. QED BY <1>5, <2>1, <3>2, <3>3, GoodRow, Zenon
  <2>2. CASE v \notin DOMAIN batch[w]
    <3>1. jobs'[v] = jobs[v]
      BY <1>1, <2>2, Zenon
    <3>2. jobs[v] # NULL => jobs[v].attempts >= jobs[v].attempts
      <4>1. jobs[v] # NULL => jobs[v].attempts \in Nat
        BY <1>4, Zenon
      <4>. QED BY <4>1
    <3>3. jobs[v] # NULL /\ jobs[v].status = "SUCCEEDED" => vectors[v] # NULL
      BY Zenon DEF Inv, SucceededHasVector
    <3>. QED BY <1>4, <1>5, <3>1, <3>2, <3>3, Zenon
  <2>. QED BY <2>1, <2>2, Zenon
<1>7. RowsOK' /\ JobsKept /\ SucceededHasVector'
  <2>1. On(Versions, jobs)' /\ On(Versions, vectors)'
    BY <1>1, Zenon DEF On
  <2>2. recorded' \subseteq Versions
    BY <1>1, Zenon DEF Inv, RowsOK
  <2>. QED BY <1>5, <1>6, <2>1, <2>2, Zenon DEF RowsOK, JobsKept, SucceededHasVector
<1>8. FaultsOK'
  <2>1. {Org[v] : v \in DOMAIN batch[w]} \subseteq Orgs
    BY <1>4, Zenon DEF Orgs
  <2>. QED BY <1>1, <2>1, Zenon DEF Inv, FaultsOK
<1>9. AnnouncedUnlessFailed'
  <2> SUFFICES ASSUME NEW o \in unannounced', ~(faults < MaxFaults)
               PROVE  \E x \in Workers :
                        phase'[x] = "announcing" /\ \E v \in DOMAIN batch'[x] : Org[v] = o
    BY <1>1, Zenon DEF AnnouncedUnlessFailed
  <2>1. CASE o \in {Org[v] : v \in DOMAIN batch[w]}
    BY <1>2, <2>1, Zenon
  <2>2. CASE o \in unannounced
    <3>1. PICK x \in Workers : phase[x] = "announcing" /\ \E v \in DOMAIN batch[x] : Org[v] = o
      BY <2>2, Zenon DEF Inv, AnnouncedUnlessFailed
    <3>2. x # w
      BY <1>1, <3>1, Zenon
    <3>. QED BY <1>3, <3>1, <3>2, Zenon DEF OthersSame
  <2>. QED BY <1>1, <2>1, <2>2, Zenon
<1>10. LocalOK(w)'
  <2>1. CarriesOK(w)' /\ TokensOK(w)'
    BY <1>2, <1>7, TokensKept, Zenon DEF Inv, LocalOK, CarriesOK
  <2>2. phase'[w] \in {"idle", "loading", "failing", "announcing", "exited", "dead"}
    BY <1>2, Zenon
  <2>. QED BY <2>1, <2>2, AtRest, Zenon
<1>. QED BY <1>2, <1>3, <1>7, <1>8, <1>9, <1>10, OldBatch, WorkerStep, Zenon

\* The end of a batch: announced, failed with its request, or lost with the
\* worker.
LEMMA EndStep ==
    ASSUME Inv, NEW w \in Workers, Invalidate(w) \/ RecordFailure(w) \/ WorkerFails(w) PROVE Inv'
<1>1. /\ Forget(w) /\ UNCHANGED <<recorded, vectors, batches>>
      /\ \E q \in {"idle", "dead"} : Goto(w, q)
  BY Zenon DEF Invalidate, RecordFailure, WorkerFails, dbVars
<1>2. PICK q \in {"idle", "dead"} : Goto(w, q)
  BY <1>1, Zenon
<1>3. /\ Changed(phase, phase', w) /\ phase'[w] = q
      /\ Changed(batches, batches', w) /\ batches'[w] = batches[w]
  BY <1>1, <1>2, Own, Zenon DEF Goto
<1>4. /\ batch'[w] = <<>> /\ CarriesOK(w)' /\ TokensOK(w)'
      /\ Changed(batch, batch', w) /\ Changed(cache, cache', w) /\ Changed(fresh, fresh', w)
      /\ Changed(todo, todo', w) /\ Changed(tries, tries', w)
  BY <1>1, <1>3, Forgotten, Zenon
<1>5. Frames' /\ OthersSame(w)
  BY <1>3, <1>4, OwnChanges, Zenon
<1>6. LocalOK(w)'
  <2>1. phase'[w] \in {"idle", "loading", "failing", "announcing", "exited", "dead"}
    BY <1>3, Zenon
  <2>. QED BY <1>4, <2>1, AtRest, Zenon
<1>7. RowsOK' /\ JobsKept /\ SucceededHasVector'
  <2>1. CASE UNCHANGED dbVars
    BY <2>1, RowsSame, Zenon
  <2>2. CASE RecordFailure(w)
    <3>1. jobs' = [v \in Versions |->
                    IF v \in DOMAIN batch[w] THEN Fail(jobs[v], batch[w][v]) ELSE jobs[v]]
      BY <2>2, Zenon DEF RecordFailure
    <3>2. ASSUME NEW v \in Versions
          PROVE  /\ jobs'[v] # NULL => GoodJob(jobs'[v])
                 /\ jobs[v] # NULL => jobs'[v] # NULL /\ jobs'[v].attempts >= jobs[v].attempts
                 /\ jobs'[v] # NULL /\ jobs'[v].status = "SUCCEEDED" =>
                        jobs[v] # NULL /\ jobs[v].status = "SUCCEEDED"
      <4>1. jobs[v] # NULL => GoodJob(jobs[v]) /\ jobs[v].attempts \in Nat
        BY GoodRow, Zenon DEF Inv, RowsOK
      <4>2. CASE v \in DOMAIN batch[w]
        <5>1. jobs[v] # NULL /\ batch[w][v] \in Nat /\ jobs'[v] = Fail(jobs[v], batch[w][v])
          BY <3>1, <4>2, Zenon DEF Inv, LocalOK, TokensOK
        <5>2. /\ GoodJob(jobs'[v]) /\ jobs'[v].attempts = jobs[v].attempts
              /\ jobs'[v] = jobs[v] \/ jobs'[v].status # "SUCCEEDED"
          <6> DEFINE after == Fail(jobs[v], batch[w][v])
          <6>1. GoodJob(after) /\ after.attempts = jobs[v].attempts
            BY <4>1, <5>1, FailGood, Zenon
          <6>2. after = jobs[v] \/ after.status # "SUCCEEDED"
            BY <4>1, <5>1, FailGood, Zenon
          <6>. QED BY <5>1, <6>1, <6>2, Zenon
        <5>3. jobs'[v].attempts >= jobs[v].attempts
          BY <4>1, <5>1, <5>2
        <5>. QED BY <5>1, <5>2, <5>3, GoodRow, Zenon
      <4>3. CASE v \notin DOMAIN batch[w]
        <5>1. jobs'[v] = jobs[v]
          BY <3>1, <4>3, Zenon
        <5>2. jobs[v] # NULL => jobs[v].attempts >= jobs[v].attempts
          BY <4>1
        <5>. QED BY <4>1, <5>1, <5>2, Zenon
      <4>. QED BY <4>2, <4>3, Zenon
    <3>3. On(Versions, jobs)'
      BY <3>1, Zenon DEF On
    <3>. QED BY <1>1, <3>2, <3>3, RowsReplaced, Zenon
  <2>. QED BY <2>1, <2>2, Zenon DEF Invalidate, WorkerFails
<1>8. AnnouncedUnlessFailed' /\ FaultsOK'
  <2>1. CASE WorkerFails(w)
    <3>1. /\ faults > 0 /\ faults' = faults - 1 /\ unannounced' = unannounced
          /\ faults \in Nat /\ faults <= MaxFaults /\ unannounced \subseteq Orgs
      BY <2>1, Zenon DEF WorkerFails, Fault, Inv, FaultsOK
    <3>2. faults' \in Nat /\ faults' <= MaxFaults /\ faults' < MaxFaults
      BY <3>1, Limits
    <3>. QED BY <3>1, <3>2, Zenon DEF FaultsOK, AnnouncedUnlessFailed
  <2>2. CASE RecordFailure(w)
    <3>1. phase[w] # "announcing"
      BY <2>2, Zenon DEF RecordFailure
    <3>. QED BY <1>5, <2>2, <3>1, AnnouncedSame, Zenon DEF RecordFailure
  <2>3. CASE Invalidate(w)
    <3>1. unannounced' = unannounced \ {Org[v] : v \in DOMAIN batch[w]} /\ faults' = faults
      BY <2>3, Zenon DEF Invalidate
    <3>2. ASSUME NEW o \in unannounced', ~(faults < MaxFaults)
          PROVE  \E x \in Workers :
                    phase'[x] = "announcing" /\ \E v \in DOMAIN batch'[x] : Org[v] = o
      <4>1. PICK x \in Workers : phase[x] = "announcing" /\ \E v \in DOMAIN batch[x] : Org[v] = o
        BY <3>1, <3>2, Zenon DEF Inv, AnnouncedUnlessFailed
      <4>2. x # w
        BY <3>1, <3>2, <4>1, Zenon
      <4>. QED BY <1>5, <4>1, <4>2, Zenon DEF OthersSame
    <3>3. FaultsOK'
      BY <3>1, Zenon DEF Inv, FaultsOK
    <3>. QED BY <3>1, <3>2, <3>3, Zenon DEF AnnouncedUnlessFailed
  <2>. QED BY <2>1, <2>2, <2>3, Zenon
<1>. QED BY <1>4, <1>5, <1>6, <1>7, <1>8, OldBatch, WorkerStep, Zenon

-----------------------------------------------------------------------------
(* The ledger and time.                                                    *)

\* Steps that leave the workers alone.
LEMMA NoWorkerStep ==
    ASSUME Inv, UNCHANGED <<phase, batch, callVars, batches>>, RowsOK', JobsKept,
           SucceededHasVector', FaultsOK', unannounced' = unannounced, faults' <= faults
    PROVE  Inv'
<1>1. \A x \in Workers : LocalOK(x)'
  BY CarriedKept, Zenon DEF callVars
<1>2. Frames' /\ OneHolder'
  BY ZenonT(40) DEF Inv, Frames, On, OneHolder, callVars
<1>3. AnnouncedUnlessFailed'
  <2>1. faults < MaxFaults => faults' < MaxFaults
    BY Limits DEF Inv, FaultsOK
  <2>. QED BY <2>1, Zenon DEF Inv, AnnouncedUnlessFailed
<1>. QED BY <1>1, <1>2, <1>3, Zenon DEF Inv

\* The next version of the ledger.
LEMMA RecordStep == ASSUME Inv, RecordVersion PROVE Inv'
<1>1. /\ \E v \in Versions : recorded' = recorded \cup {v}
      /\ UNCHANGED <<jobs, vectors, unannounced, phase, batch, callVars, batches, faults>>
  BY Zenon DEF RecordVersion
<1>2. RowsOK /\ SucceededHasVector /\ FaultsOK /\ recorded \subseteq Versions
  BY Zenon DEF Inv, RowsOK
<1>3. recorded' \subseteq Versions
  BY <1>1, <1>2, Zenon
<1>4. RowsOK' /\ SucceededHasVector' /\ FaultsOK'
  BY <1>1, <1>2, <1>3, Zenon DEF RowsOK, On, SucceededHasVector, FaultsOK
<1>5. JobsKept
  <2> SUFFICES ASSUME NEW v \in Versions, jobs[v] # NULL
               PROVE  jobs'[v] # NULL /\ jobs'[v].attempts >= jobs[v].attempts
    BY Zenon DEF JobsKept
  <2>1. jobs[v].attempts \in Nat
    BY <1>2, GoodRow, Zenon DEF RowsOK
  <2>. QED BY <1>1, <2>1
<1>6. faults' <= faults
  BY <1>1, <1>2 DEF FaultsOK
<1>. QED BY <1>1, <1>4, <1>5, <1>6, NoWorkerStep, Zenon

\* What time does to a row.
LEMMA Elapses ==
    ASSUME Inv, Tick, NEW v \in Versions
    PROVE  /\ jobs[v] = NULL => jobs'[v] = NULL
           /\ jobs[v] # NULL =>
                /\ jobs'[v] # NULL /\ GoodJob(jobs'[v]) /\ jobs'[v].attempts = jobs[v].attempts
                /\ jobs'[v].status = jobs[v].status /\ jobs'[v].token = jobs[v].token
                /\ jobs[v].status \in {"SUCCEEDED", "FAILED"} => jobs'[v] = jobs[v]
<1>1. CASE jobs[v] = NULL
  BY <1>1, Zenon DEF Tick
<1>2. CASE jobs[v] # NULL
  <2>1. jobs'[v] = [jobs[v] EXCEPT !.wait = Less(@), !.lease = Less(@)]
    BY <1>2, Zenon DEF Tick, Less
  <2>2. GoodJob(jobs[v])
    BY <1>2, Zenon DEF Inv, RowsOK
  <2>3. /\ GoodJob(jobs'[v]) /\ jobs'[v].attempts = jobs[v].attempts
        /\ jobs'[v].status = jobs[v].status /\ jobs'[v].token = jobs[v].token
        /\ jobs[v].status \in {"SUCCEEDED", "FAILED"} => jobs'[v] = jobs[v]
    BY <2>1, <2>2, ElapsedGood, Zenon
  <2>. QED BY <1>2, <2>3, GoodRow, Zenon
<1>. QED BY <1>1, <1>2, Zenon

\* Time passes.
LEMMA TickStep == ASSUME Inv, Tick PROVE Inv'
<1>1. /\ Fault \/ UNCHANGED faults
      /\ UNCHANGED <<recorded, vectors, unannounced, phase, batch, callVars, batches>>
      /\ On(Versions, jobs)'
  BY Zenon DEF Tick, On
<1>2. \A v \in Versions : jobs[v] # NULL => jobs[v].attempts \in Nat
  BY GoodRow, Zenon DEF Inv, RowsOK
<1>3. ASSUME NEW v \in Versions, jobs[v] # NULL
      PROVE  jobs'[v] # NULL /\ jobs'[v].attempts >= jobs[v].attempts
  <2>1. jobs'[v] # NULL /\ jobs'[v].attempts = jobs[v].attempts /\ jobs[v].attempts \in Nat
    BY <1>2, <1>3, Elapses, Zenon
  <2>. QED BY <2>1
<1>4. \A v \in Versions :
        /\ jobs'[v] # NULL => GoodJob(jobs'[v])
        /\ jobs'[v] # NULL /\ jobs'[v].status = "SUCCEEDED" =>
               jobs[v] # NULL /\ jobs[v].status = "SUCCEEDED"
  BY Elapses, Zenon
<1>5. RowsOK' /\ JobsKept /\ SucceededHasVector'
  BY <1>1, <1>3, <1>4, RowsReplaced, Zenon
<1>6. /\ faults \in Nat /\ faults <= MaxFaults /\ unannounced \subseteq Orgs
      /\ faults' = faults \/ (faults > 0 /\ faults' = faults - 1)
  BY <1>1, Zenon DEF Inv, FaultsOK, Fault
<1>7. faults' \in Nat /\ faults' <= faults /\ faults' <= MaxFaults
  BY <1>6, Limits
<1>8. FaultsOK'
  BY <1>1, <1>6, <1>7, Zenon DEF FaultsOK
<1>. QED BY <1>1, <1>5, <1>7, <1>8, NoWorkerStep, Zenon

\* The invariant holds in every reachable state.
LEMMA Invariant == Spec => []Inv
<1>1. ASSUME Init PROVE Inv
  <2>1. Frames
    BY <1>1, Zenon DEF Init, Frames, On
  <2>2. RowsOK /\ SucceededHasVector
    BY <1>1, Zenon DEF Init, RowsOK, On, SucceededHasVector
  <2>3. FaultsOK
    BY <1>1, Limits DEF Init, FaultsOK
  <2>4. \A w \in Workers : LocalOK(w)
    <3> SUFFICES ASSUME NEW w \in Workers PROVE LocalOK(w)
      BY Zenon
    <3>1. CarriesOK(w)
      BY <1>1, Limits DEF Init, CarriesOK
    <3>2. TokensOK(w)
      BY <1>1 DEF Init, TokensOK
    <3>3. LoadedOK(w) /\ phase[w] \in Phases /\ phase[w] # "claiming"
      BY <1>1, Zenon DEF Init, LoadedOK, Phases
    <3>. QED BY <3>1, <3>2, <3>3, Zenon DEF LocalOK
  <2>5. OneHolder
    BY <1>1 DEF Init, OneHolder
  <2>6. AnnouncedUnlessFailed
    BY <1>1, Zenon DEF Init, AnnouncedUnlessFailed
  <2>. QED BY <2>1, <2>2, <2>3, <2>4, <2>5, <2>6, Zenon DEF Inv
<1>2. ASSUME Inv, [Next]_vars PROVE Inv'
  <2>1. CASE UNCHANGED vars
    <3>1. /\ UNCHANGED <<phase, batch, callVars, batches>> /\ UNCHANGED dbVars
          /\ unannounced' = unannounced /\ faults' = faults
      BY <2>1, Zenon DEF vars
    <3>2. RowsOK' /\ JobsKept /\ SucceededHasVector'
      BY <1>2, <3>1, RowsSame, Zenon
    <3>3. FaultsOK' /\ faults' <= faults
      BY <1>2, <3>1 DEF Inv, FaultsOK
    <3>. QED BY <1>2, <3>1, <3>2, <3>3, NoWorkerStep, Zenon
  <2>2. CASE RecordVersion
    BY <1>2, <2>2, RecordStep, Zenon
  <2>3. CASE Tick
    BY <1>2, <2>3, TickStep, Zenon
  <2>4. ASSUME NEW w \in Workers, WorkerNext(w) \/ WorkerFails(w) PROVE Inv'
    BY <1>2, <2>4, IdleSteps, EnqueueStep, ClaimStep, LoadStep, ProviderStep, WriteStep, EndStep, Zenon
       DEF WorkerNext
  <2>. QED BY <1>2, <2>1, <2>2, <2>3, <2>4, Zenon DEF Next
<1>. QED BY <1>1, <1>2, PTL DEF Spec

-----------------------------------------------------------------------------
(* Theorems.                                                               *)

\* The tables and the workers keep their types, and a job is RUNNING exactly
\* while it has a token.
THEOREM QueueTyped == Spec => []TypeOK
<1>1. Inv => TypeOK
  <2> SUFFICES ASSUME Inv PROVE TypeOK
    BY Zenon
  <2>1. \A v \in Versions : /\ jobs[v] \in JobType \cup {NULL}
                            /\ vectors[v] \in EmbeddingType \cup {NULL}
    <3> SUFFICES ASSUME NEW v \in Versions
                 PROVE  jobs[v] \in JobType \cup {NULL} /\ vectors[v] \in EmbeddingType \cup {NULL}
      BY Zenon
    <3>1. [sha |-> Text[v], of |-> Text[v]] \in EmbeddingType
      BY Zenon DEF EmbeddingType, Texts
    <3>. QED BY <3>1, GoodRow, Zenon DEF Inv, RowsOK
  <2>2. jobs \in [Versions -> JobType \cup {NULL}] /\ vectors \in [Versions -> EmbeddingType \cup {NULL}]
    BY <2>1, Zenon DEF Inv, RowsOK, On
  <2>3. \A w \in Workers : /\ phase[w] \in Phases /\ fresh[w] \in SUBSET Texts /\ todo[w] \in SUBSET Texts
                           /\ tries[w] \in 0 .. MaxRetries /\ batches[w] \in 0 .. MaxBatches
    BY Zenon DEF Inv, LocalOK, CarriesOK
  <2>4. /\ phase \in [Workers -> Phases] /\ fresh \in [Workers -> SUBSET Texts]
        /\ todo \in [Workers -> SUBSET Texts] /\ tries \in [Workers -> 0 .. MaxRetries]
        /\ batches \in [Workers -> 0 .. MaxBatches]
    BY <2>3, Zenon DEF Inv, Frames, On
  <2>5. \A w \in Workers : /\ DOMAIN batch[w] \subseteq Versions
                           /\ \A v \in DOMAIN batch[w] : batch[w][v] \in Nat
                           /\ cache[w] \subseteq [org : Orgs, sha : Texts, of : Texts]
    BY Zenon DEF Inv, LocalOK, TokensOK, CarriesOK, CacheType
  <2>. QED BY <2>2, <2>4, <2>5, Zenon DEF Inv, RowsOK, FaultsOK, TypeOK
<1>. QED BY <1>1, Invariant, PTL

\* Every stored vector was computed from the document of its own version.
THEOREM VectorsAlwaysTrue == Spec => []VectorsTrue
<1>1. Inv => VectorsTrue
  <2> SUFFICES ASSUME Inv, NEW v \in Versions, vectors[v] # NULL PROVE vectors[v].of = Text[v]
    BY Zenon DEF VectorsTrue
  <2>1. vectors[v] = [sha |-> Text[v], of |-> Text[v]]
    BY Zenon DEF Inv, RowsOK
  <2>. QED BY <2>1
<1>. QED BY <1>1, Invariant, PTL

\* A version whose job succeeded has its vector.
THEOREM SuccessIsStored == Spec => []SucceededHasVector
<1>1. Inv => SucceededHasVector
  BY Zenon DEF Inv
<1>. QED BY <1>1, Invariant, PTL

\* The limit of attempts is neither cut short nor exceeded while waiting.
THEOREM RetriesLimited == Spec => []RetryLimit
<1>1. Inv => RetryLimit
  BY Zenon DEF Inv, RowsOK, GoodJob, RetryLimit
<1>. QED BY <1>1, Invariant, PTL

\* No two workers hold the same token of a job.
THEOREM TokensHeldOnce == Spec => []OneHolder
<1>1. Inv => OneHolder
  BY Zenon DEF Inv
<1>. QED BY <1>1, Invariant, PTL

\* Without a fault, every change of an organization's vectors is announced or
\* about to be.
THEOREM ChangesAnnounced == Spec => []AnnouncedUnlessFailed
<1>1. Inv => AnnouncedUnlessFailed
  BY Zenon DEF Inv
<1>. QED BY <1>1, Invariant, PTL

\* How a step changes a row: a claim of a due job, the holder of its token, or
\* time.
LEMMA RowSteps ==
    ASSUME Inv, Next, NEW v \in Versions, jobs[v] # NULL
    PROVE  \/ jobs'[v] = jobs[v]
           \/ Tick
           \/ DueJob(jobs[v])
           \/ /\ jobs[v].status = "RUNNING"
              /\ \E w \in Workers :
                    v \in DOMAIN batch[w] /\ batch[w][v] = jobs[v].token /\ phase'[w] # phase[w]
<1>1. CASE RecordVersion
  BY <1>1, Zenon DEF RecordVersion
<1>2. ASSUME NEW w \in Workers, WorkerNext(w) \/ WorkerFails(w)
      PROVE  \/ jobs'[v] = jobs[v]
             \/ DueJob(jobs[v])
             \/ /\ jobs[v].status = "RUNNING" /\ v \in DOMAIN batch[w]
                /\ batch[w][v] = jobs[v].token /\ phase'[w] # phase[w]
  <2>1. GoodJob(jobs[v])
    BY Zenon DEF Inv, RowsOK
  <2>2. ASSUME v \in DOMAIN batch[w] PROVE batch[w][v] \in Nat
    BY <2>2, Zenon DEF Inv, LocalOK, TokensOK
  <2>3. CASE EnqueueMissing(w)
    BY <2>3, Zenon DEF EnqueueMissing, Missing
  <2>4. CASE ClaimJobs(w)
    BY <2>4, Zenon DEF ClaimJobs, Due, DueJob
  <2>5. CASE WriteBatch(w)
    <3>1. /\ phase[w] = "saving" /\ phase'[w] = "announcing"
          /\ jobs'[v] = IF v \in DOMAIN batch[w] THEN Complete(jobs[v], batch[w][v]) ELSE jobs[v]
      BY <2>5, Own, Zenon DEF WriteBatch, Goto
    <3>2. phase'[w] # phase[w]
      BY <3>1, Zenon
    <3>3. v \in DOMAIN batch[w] =>
            \/ Complete(jobs[v], batch[w][v]) = jobs[v]
            \/ jobs[v].token = batch[w][v] /\ jobs[v].status = "RUNNING"
      BY <2>1, <2>2, CompleteGood, Zenon
    <3>. QED BY <3>1, <3>2, <3>3, Zenon
  <2>6. CASE RecordFailure(w)
    <3>1. /\ phase[w] = "failing" /\ phase'[w] = "idle"
          /\ jobs'[v] = IF v \in DOMAIN batch[w] THEN Fail(jobs[v], batch[w][v]) ELSE jobs[v]
      BY <2>6, Own, Zenon DEF RecordFailure, Goto
    <3>2. phase'[w] # phase[w]
      BY <3>1, Zenon
    <3>3. v \in DOMAIN batch[w] =>
            \/ Fail(jobs[v], batch[w][v]) = jobs[v]
            \/ jobs[v].token = batch[w][v] /\ jobs[v].status = "RUNNING"
      BY <2>1, <2>2, FailGood, Zenon
    <3>. QED BY <3>1, <3>2, <3>3, Zenon
  <2>7. CASE jobs' = jobs
    BY <2>7, Zenon
  <2>. QED BY <1>2, <2>3, <2>4, <2>5, <2>6, <2>7, Zenon
           DEF WorkerNext, NothingDue, DrainLimit, LoadDocuments, ProviderAnswers, ProviderRetries,
               ProviderFails, Invalidate, WorkerFails, dbVars
<1>. QED BY <1>1, <1>2, Zenon DEF Next

\* Stored vectors never change.
LEMMA VectorSteps ==
    ASSUME Inv, Next, NEW v \in Versions, vectors[v] # NULL PROVE vectors'[v] = vectors[v]
<1>1. ASSUME NEW w \in Workers, WriteBatch(w) PROVE vectors'[v] = vectors[v]
  BY <1>1, Zenon DEF WriteBatch, SaveEmbedding
<1>2. CASE vectors' = vectors
  BY <1>2, Zenon
<1>. QED BY <1>1, <1>2, Zenon
     DEF Next, WorkerNext, RecordVersion, Tick, EnqueueMissing, ClaimJobs, NothingDue, DrainLimit,
         LoadDocuments, ProviderAnswers, ProviderRetries, ProviderFails, Invalidate, RecordFailure,
         WorkerFails, dbVars

\* A worker whose lease ran out cannot overwrite the newer outcome.
THEOREM OutcomesStay == Spec => OutcomesFinal
<1> DEFINE Final == \A v \in Versions :
        /\ jobs[v] # NULL /\ jobs[v].status \in {"SUCCEEDED", "FAILED"} => jobs'[v] = jobs[v]
        /\ vectors[v] # NULL => vectors'[v] = vectors[v]
<1>1. ASSUME Inv, [Next]_vars PROVE [Final]_vars
  <2> SUFFICES ASSUME Next PROVE Final
    BY <1>1, Zenon
  <2>1. ASSUME NEW v \in Versions, jobs[v] # NULL, jobs[v].status \in {"SUCCEEDED", "FAILED"}
        PROVE  jobs'[v] = jobs[v]
    <3>1. jobs[v].status # "RUNNING" /\ ~DueJob(jobs[v])
      BY <2>1, Zenon DEF DueJob
    <3>2. CASE Tick
      BY <1>1, <2>1, <3>2, Elapses, Zenon
    <3>. QED BY <1>1, <2>1, <3>1, <3>2, RowSteps, Zenon
  <2>. QED BY <1>1, <2>1, VectorSteps, Zenon
<1>. QED BY <1>1, Invariant, PTL DEF Spec, OutcomesFinal

\* Under a lease that has not run out a job is in its holder's hands alone.
THEOREM LeasesProtect == Spec => LeaseProtects
<1> DEFINE Protected == \A v \in Versions :
        /\ jobs[v] # NULL /\ jobs[v].status = "RUNNING" /\ jobs[v].lease > 0
        /\ jobs'[v].token # jobs[v].token
        => \E w \in Workers :
            v \in DOMAIN batch[w] /\ batch[w][v] = jobs[v].token /\ phase'[w] # phase[w]
<1>1. ASSUME Inv, [Next]_vars PROVE [Protected]_vars
  <2> SUFFICES ASSUME Next, NEW v \in Versions, jobs[v] # NULL, jobs[v].status = "RUNNING",
                      jobs[v].lease > 0, jobs'[v].token # jobs[v].token
               PROVE  \E w \in Workers :
                        v \in DOMAIN batch[w] /\ batch[w][v] = jobs[v].token /\ phase'[w] # phase[w]
    BY <1>1, Zenon
  <2>1. ~DueJob(jobs[v])
    BY DEF DueJob
  <2>2. ~Tick
    BY <1>1, Elapses, Zenon
  <2>. QED BY <1>1, <2>1, <2>2, RowSteps, Zenon
<1>. QED BY <1>1, Invariant, PTL DEF Spec, LeaseProtects
=============================================================================
