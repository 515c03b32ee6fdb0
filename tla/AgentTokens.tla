---------------------------- MODULE AgentTokens -----------------------------
(***************************************************************************)
(* Access tokens of agent clients: the exchange of credentials for a token *)
(* (services/agent_clients.py, api/v1/endpoints/auth.py), its signature    *)
(* and expiry (auth/tokens.py), and what every request checks again        *)
(* (api/dependencies.py), while clients are revoked, roles change and the  *)
(* signing key is rotated by a rolling restart of the processes.           *)
(*                                                                         *)
(* Keys are numbered in the order of their rotation.  Clocks of processes  *)
(* are ahead of true time by a fixed number of ticks each.                 *)
(***************************************************************************)
EXTENDS Null, Naturals, FiniteSets, FiniteSetsExt

CONSTANTS
    Clients, Organizations,
    OrgOf,        \* the organization of each client
    AllowedScopes,  \* allowed_scopes of each client
    Scopes,
    Processes,
    Tokens,       \* bound: tokens followed at the same time
    TokenRequests,     \* bound: requests under way at the same time
    TTL,          \* jwt_access_token_ttl_seconds, in ticks
    Leeway,       \* LEEWAY, in ticks
    Skew,         \* how far two clocks may be apart
    MaxKey        \* bound: rotations

ASSUME TokensAssumption ==
    /\ {TTL, Leeway, Skew, MaxKey} \subseteq Nat /\ Skew <= Leeway /\ TTL > 0 /\ MaxKey > 0
    /\ \A c \in Clients : AllowedScopes[c] \subseteq Scopes /\ OrgOf[c] \in Organizations

VARIABLES
    ahead,     \* ticks each process's clock is ahead
    settings,  \* what the next process to start reads: signing key, previous keys
    running,   \* the settings each process started with
    idle,      \* ticks since a process last signed with each old key, as far as TTL
    revoked,   \* clients that are revoked
    role,      \* role of each client's service user, NULL if not a member
    token,     \* the tokens issued, or NULL
    tokenRequest    \* requests to the token endpoint and to the API, or NULL

tokenVars == <<ahead, settings, running, idle, revoked, role, token, tokenRequest>>

Keys == 1..MaxKey
MaxAge == TTL + Leeway + Skew
TokenRoles == {"VIEWER", "ENGINEER", "ADMIN"}

TokensInit ==
    /\ ahead \in [Processes -> 0..Skew]
    /\ settings = [signing |-> 1, previous |-> {}]
    /\ running = [p \in Processes |-> settings]
    /\ idle = [k \in Keys |-> 0]
    /\ revoked = {}
    /\ role = [c \in Clients |-> "VIEWER"]
    /\ token = [t \in Tokens |-> NULL]
    /\ tokenRequest = [r \in TokenRequests |-> NULL]

TokenAt(r, step) == tokenRequest[r] # NULL /\ tokenRequest[r].step = step

-----------------------------------------------------------------------------
(* The token endpoint.                                                     *)

\* The client is read in a transaction of its own; revoked ones are refused.
Exchange(r, p, c, requested) ==
    /\ tokenRequest[r] = NULL
    /\ c \notin revoked
    /\ tokenRequest' = [tokenRequest EXCEPT ![r] =
          [step |-> "issue", process |-> p, client |-> c, requested |-> requested]]
    /\ UNCHANGED <<ahead, settings, running, idle, revoked, role, token>>

\* The scopes granted: those asked for, or all; NULL if they exceed them.
Granted(c, requested) ==
    IF requested = {} THEN AllowedScopes[c]
    ELSE IF requested \subseteq AllowedScopes[c] THEN requested ELSE NULL

\* exchange goes on with what it has read, and the token is signed.
Issue(r, t) ==
    /\ TokenAt(r, "issue")
    /\ IF token[t] = NULL THEN TRUE ELSE token[t].age = MaxAge
    /\ LET q == tokenRequest[r]
           granted == Granted(q.client, q.requested)
       IN token' = IF granted = NULL THEN token
                   ELSE [token EXCEPT ![t] =
                         [client |-> q.client, org |-> OrgOf[q.client], scopes |-> granted,
                          key |-> running[q.process].signing, ahead |-> ahead[q.process], age |-> 0]]
    /\ tokenRequest' = [tokenRequest EXCEPT ![r] = NULL]
    /\ UNCHANGED <<ahead, settings, running, idle, revoked, role>>

-----------------------------------------------------------------------------
(* Requests with a token.                                                  *)

\* Faulty variant: the previous public keys of the settings are not loaded.
KnownSigningOnly(p) == {running[p].signing}

Known(p) == {running[p].signing} \cup running[p].previous

\* verify: the key is known, and nbf and exp hold by the process's own clock.
Verifies(p, t) ==
    LET now == token[t].age + ahead[p]
    IN /\ token[t].key \in Known(p)
       /\ now + Leeway >= token[t].ahead
       /\ now < token[t].ahead + TTL + Leeway

\* _authenticate: whom the claims of the token stand for.
Principal(p, t) ==
    [step |-> "active", process |-> p, client |-> token[t].client, scopes |-> token[t].scopes,
     role |-> NULL, late |-> token[t].client \in revoked]

\* get_tenant: the token is good for one organization.
Authenticate(r, p, t, org) ==
    /\ tokenRequest[r] = NULL
    /\ token[t] # NULL
    /\ Verifies(p, t)
    /\ token[t].org = org
    /\ tokenRequest' = [tokenRequest EXCEPT ![r] = Principal(p, t)]
    /\ UNCHANGED <<ahead, settings, running, idle, revoked, role, token>>

\* is_active.
IsActive(r) ==
    /\ TokenAt(r, "active")
    /\ tokenRequest' = IF tokenRequest[r].client \in revoked THEN [tokenRequest EXCEPT ![r] = NULL]
                  ELSE [tokenRequest EXCEPT ![r].step = "resolve"]
    /\ UNCHANGED <<ahead, settings, running, idle, revoked, role, token>>

\* TenancyService.resolve, and no agent acts as ADMIN.
ResolveTenant(r) ==
    /\ TokenAt(r, "resolve")
    /\ LET actual == role[tokenRequest[r].client]
       IN tokenRequest' = IF actual \in {NULL, "ADMIN"} THEN [tokenRequest EXCEPT ![r] = NULL]
                     ELSE [tokenRequest EXCEPT ![r].step = "admitted", ![r].role = actual]
    /\ UNCHANGED <<ahead, settings, running, idle, revoked, role, token>>

Respond(r) ==
    /\ TokenAt(r, "admitted")
    /\ tokenRequest' = [tokenRequest EXCEPT ![r] = NULL]
    /\ UNCHANGED <<ahead, settings, running, idle, revoked, role, token>>

-----------------------------------------------------------------------------
(* Administration.                                                         *)

Revoke(c) ==
    /\ revoked' = revoked \cup {c}
    /\ UNCHANGED <<ahead, settings, running, idle, role, token, tokenRequest>>

ChangeRole(c, new) ==
    /\ role' = [role EXCEPT ![c] = new]
    /\ UNCHANGED <<ahead, settings, running, idle, revoked, token, tokenRequest>>

\* docs/AUTH.md: a new signing key, and the old public key kept beside it.
Rotate ==
    /\ settings.signing < MaxKey
    /\ settings' = [signing |-> settings.signing + 1, previous |-> settings.previous \cup {settings.signing}]
    /\ UNCHANGED <<ahead, running, idle, revoked, role, token, tokenRequest>>

\* ... "until the old tokens have expired".
DropKey(k) ==
    /\ k \in settings.previous
    /\ idle[k] = TTL
    /\ settings' = [settings EXCEPT !.previous = @ \ {k}]
    /\ UNCHANGED <<ahead, running, idle, revoked, role, token, tokenRequest>>

\* A process is replaced by one with the present settings.
Restart(p) ==
    /\ running[p] # settings
    /\ running' = [running EXCEPT ![p] = settings]
    /\ tokenRequest' = [r \in TokenRequests |->
          IF tokenRequest[r] = NULL THEN NULL ELSE IF tokenRequest[r].process = p THEN NULL ELSE tokenRequest[r]]
    /\ UNCHANGED <<ahead, settings, idle, revoked, role, token>>

TokensTick ==
    /\ idle' = [k \in Keys |-> IF k >= settings.signing \/ \E p \in Processes : running[p].signing = k THEN 0
                               ELSE Min({idle[k] + 1, TTL})]
    /\ token' = [t \in Tokens |-> IF token[t] = NULL THEN NULL
                                  ELSE [token[t] EXCEPT !.age = Min({@ + 1, MaxAge})]]
    /\ UNCHANGED <<ahead, settings, running, revoked, role, tokenRequest>>

-----------------------------------------------------------------------------
TokensNext ==
    \/ \E r \in TokenRequests, p \in Processes :
          \/ \E c \in Clients, requested \in SUBSET Scopes : Exchange(r, p, c, requested)
          \/ \E t \in Tokens, org \in Organizations : Authenticate(r, p, t, org)
    \/ \E r \in TokenRequests : (\E t \in Tokens : Issue(r, t)) \/ IsActive(r) \/ ResolveTenant(r) \/ Respond(r)
    \/ \E c \in Clients : Revoke(c) \/ \E new \in TokenRoles \cup {NULL} : ChangeRole(c, new)
    \/ Rotate
    \/ \E k \in Keys : DropKey(k)
    \/ \E p \in Processes : Restart(p)
    \/ TokensTick

TokensSpec == TokensInit /\ [][TokensNext]_tokenVars

-----------------------------------------------------------------------------
(* Properties.                                                             *)

TokensTypeOK ==
    /\ settings.signing \in Keys /\ settings.previous \subseteq 1..(settings.signing - 1)
    /\ \A p \in Processes : running[p].signing <= settings.signing
    /\ idle \in [Keys -> 0..TTL]
    /\ \A t \in Tokens : token[t] # NULL =>
          token[t].age \in 0..MaxAge /\ token[t].scopes \subseteq AllowedScopes[token[t].client]

\* Revoking a client stops its tokens with the next request, even a token that
\* an exchange under way during the revocation issues after it.
RevokedRefused == \A r \in TokenRequests : TokenAt(r, "admitted") => ~tokenRequest[r].late

\* While the key is rotated by the documented procedure, a token that has not
\* expired is refused by the processes that still run with settings from before
\* its key ("unknown signing key") and by no other: a restarted process accepts
\* the tokens of every key in use, however far the clocks are apart within the
\* leeway.  Once every process has restarted, nobody refuses it.
RefusedOnlyBehind ==
    \A t \in Tokens, p \in Processes :
        token[t] # NULL =>
            (token[t].age < TTL => (Verifies(p, t) <=> token[t].key <= running[p].signing))

\* No process accepts a token for longer than its life, the leeway and the
\* difference of the clocks.
ExpiresEverywhere ==
    \A t \in Tokens, p \in Processes :
        token[t] # NULL => (token[t].age = MaxAge => ~Verifies(p, t))

-----------------------------------------------------------------------------
(* The inductive invariant of the proofs.                                  *)

SettingsType == [signing : Keys, previous : SUBSET Keys]

TokenType ==
    [client : Clients, org : Organizations, scopes : SUBSET Scopes, key : Keys,
     ahead : 0 .. Skew, age : 0 .. MaxAge]

ExchangeType == [step : {"issue"}, process : Processes, client : Clients, requested : SUBSET Scopes]

AccessType ==
    [step : {"active", "resolve", "admitted"}, process : Processes, client : Clients,
     scopes : SUBSET Scopes, role : TokenRoles \cup {NULL}, late : BOOLEAN]

KeysTyped ==
    /\ ahead \in [Processes -> 0 .. Skew]
    /\ settings \in SettingsType
    /\ running \in [Processes -> SettingsType]
    /\ idle \in [Keys -> 0 .. TTL]
    /\ token \in [Tokens -> TokenType \cup {NULL}]

\* A process signs with the key, or a token that has not expired was signed with it.
Live(k) ==
    \/ \E p \in Processes : running[p].signing = k
    \/ \E t \in Tokens : token[t] # NULL /\ token[t].key = k /\ token[t].age < TTL

\* A live key is in the settings, and known to each process that signs with it or
\* with a later one.
LiveKnown ==
    \A k \in Keys : Live(k) =>
        /\ k \in {settings.signing} \cup settings.previous
        /\ \A p \in Processes : k <= running[p].signing => k \in Known(p)

\* A key that rests is an old one, nobody signs with it again, and its tokens are
\* as old as its rest.
RestOK ==
    /\ \A k \in Keys : idle[k] > 0 =>
          k < settings.signing /\ \A p \in Processes : running[p].signing # k
    /\ \A t \in Tokens : token[t] # NULL => idle[token[t].key] <= token[t].age

\* The key that signs is the latest of the settings, and no process is ahead.
NoneAhead ==
    /\ \A k \in settings.previous : k < settings.signing
    /\ \A p \in Processes :
          running[p].signing <= settings.signing /\ \A k \in running[p].previous : k < running[p].signing

KeysInv == KeysTyped /\ NoneAhead /\ RestOK /\ LiveKnown

\* A client that was revoked when it authenticated stays revoked, and is refused.
AccessOK(x) ==
    x.step # "issue" => (x.late => x.client \in revoked /\ x.step = "active")

AccessInv ==
    /\ revoked \subseteq Clients /\ role \in [Clients -> TokenRoles \cup {NULL}]
    /\ tokenRequest \in [TokenRequests -> ExchangeType \cup AccessType \cup {NULL}]
    /\ \A r \in TokenRequests : tokenRequest[r] # NULL => AccessOK(tokenRequest[r])
=============================================================================
