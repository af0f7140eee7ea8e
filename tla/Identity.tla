------------------------------- MODULE Identity -------------------------------
(* Who is who and who may do what.  A browser signs in through Google and  *)
(* may complete a sign-in of the command line, which polls for its token;  *)
(* administrators change roles and manage groups, and groups get access to *)
(* repositories, which users create and delete.  A request was let in with *)
(* the role its author had then, before its transaction runs; transactions *)
(* lock the roles as a whole, an account or a group.  Tokens outlive the   *)
(* access they were issued for.                                            *)
EXTENDS Naturals, FiniteSets

CONSTANTS
  Users,      \* identities that Google knows
  Groups,     \* account groups
  Resources,  \* repositories
  States,     \* sign-in states
  Callbacks,  \* callbacks that can be in flight
  Clients,    \* command line sign-ins
  Polls,      \* their polls that can be in flight
  Requests,   \* management requests that can be in flight
  MaxMoves,   \* bound on requests, callbacks, polls and uses of tokens
  None        \* nobody, no group, no lock

ASSUME MovesAreBounded == MaxMoves \in Nat
ASSUME UsersAreNoMarks == Users \cap {"none", "open", "gone"} = {}
Group == [owner : Users, members : SUBSET Users, late : BOOLEAN]
ASSUME NoneIsNothing == None \notin Users \cup Group \cup Requests \cup States \cup Clients

VARIABLES
  role,       \* users: the role of an account, "none" if there is no account
  session,    \* the users with a valid session
  state,      \* oauth_states
  callback,   \* callbacks of Google in flight
  made,       \* per state: how many sessions it made
  client,     \* cli_auth_sessions: "none", "open", its user, or "gone"
  poll,       \* polls in flight: the session and the user that was read
  sold,       \* per command line sign-in: the users it gave tokens for
  token,      \* per user: the repositories its valid tokens name
  group,      \* account_groups and their members; late: created by a request
              \* of an administrator who is not one any more
  owner,      \* lore_resources: the owner of a repository
  grant,      \* repository_account_group_access
  use,        \* the last use of a repository that was permitted
  request,    \* management requests in flight
  roleLock,   \* the advisory lock of the roles
  userLock,   \* per account: who holds its row
  groupLock,  \* per group: who holds its row
  moves       \* requests, callbacks, polls and uses so far

signIn == <<session, state, callback, made, client, poll, sold>>
access == <<token, owner, grant, use>>
locks == <<roleLock, userLock, groupLock>>
vars == <<role, signIn, access, group, request, locks, moves>>

NoCallback == [phase |-> "idle", state |-> None, client |-> None, user |-> None]
NoPoll == [client |-> None, user |-> None]
NoRequest == [phase |-> "idle", by |-> None, to |-> None, role |-> "none", group |-> None]

Administrators == {u \in Users : role[u] = "admin"}
Accounts == {u \in Users : role[u] # "none"}

Init ==
  /\ role \in [Users -> {"none", "user", "admin"}]
  /\ Accounts # {} => Administrators # {}
  /\ session \in SUBSET Accounts
  /\ state = [s \in States |-> "none"]
  /\ callback = [c \in Callbacks |-> NoCallback]
  /\ made = [s \in States |-> 0]
  /\ client = [c \in Clients |-> "none"]
  /\ poll = [p \in Polls |-> NoPoll]
  /\ sold = [c \in Clients |-> {}]
  /\ token = [u \in Users |-> {}]
  /\ group = [g \in Groups |-> None]
  /\ owner \in [Resources -> Accounts \cup {None}]
  /\ grant = [r \in Resources |-> {}]
  /\ use = None
  /\ request = [h \in Requests |-> NoRequest]
  /\ roleLock = None
  /\ userLock = [u \in Users |-> None]
  /\ groupLock = [g \in Groups |-> None]
  /\ moves = 0

Moved == moves < MaxMoves /\ moves' = moves + 1

-----------------------------------------------------------------------------
(* Signing in. *)

Login(s) ==
  /\ state[s] = "none"
  /\ state' = [state EXCEPT ![s] = "open"]
  /\ UNCHANGED <<role, session, callback, made, client, poll, sold, access, group,
                 request, locks, moves>>

\* Ten minutes are over, or a later login has cleaned up.
ExpireState(s) ==
  /\ state[s] = "open"
  /\ state' = [state EXCEPT ![s] = "gone"]
  /\ UNCHANGED <<role, session, callback, made, client, poll, sold, access, group,
                 request, locks, moves>>

\* Mutant: the state is only read, and deleted at the next login.
CallbackReads(c, s, k) ==
  /\ Moved /\ callback[c].phase = "idle" /\ state[s] = "open"
  /\ callback' = [callback EXCEPT ![c] = [phase |-> "exchange", state |-> s,
                                          client |-> k, user |-> None]]
  /\ UNCHANGED <<role, session, state, made, client, poll, sold, access, group,
                 request, locks>>

\* The state is consumed before the code is exchanged; the browser may bring
\* the cookie of a command line sign-in.
Callback(c, s, k) ==
  /\ Moved /\ callback[c].phase = "idle" /\ state[s] = "open"
  /\ k # None => client[k] # "none"
  /\ state' = [state EXCEPT ![s] = "gone"]
  /\ callback' = [callback EXCEPT ![c] = [phase |-> "exchange", state |-> s,
                                          client |-> k, user |-> None]]
  /\ UNCHANGED <<role, session, made, client, poll, sold, access, group, request, locks>>

\* Google answers with a verified identity, or the exchange fails.
VerifyIdToken(c) ==
  /\ callback[c].phase = "exchange"
  /\ \/ \E u \in Users :
          callback' = [callback EXCEPT ![c] = [@ EXCEPT !.phase = "store", !.user = u]]
     \/ callback' = [callback EXCEPT ![c] = NoCallback]
  /\ UNCHANGED <<role, session, state, made, client, poll, sold, access, group,
                 request, locks, moves>>

\* assign_initial_admin: the first account is an administrator.
InitialRole == IF Administrators = {} THEN "admin" ELSE "user"

\* The command line sign-in of the cookie takes the user if it has none yet.
Complete(k, u) ==
  client' = IF k # None /\ client[k] = "open" THEN [client EXCEPT ![k] = u] ELSE client

\* The account, under the lock of the roles, its session and the command line
\* sign-in are stored in one transaction.
StoreSession(c) ==
  LET u == callback[c].user IN
  /\ callback[c].phase = "store" /\ roleLock = None /\ userLock[u] = None
  /\ role' = [role EXCEPT ![u] = IF @ = "none" THEN InitialRole ELSE @]
  /\ session' = session \cup {u}
  /\ made' = [made EXCEPT ![callback[c].state] = @ + 1]
  /\ Complete(callback[c].client, u)
  /\ callback' = [callback EXCEPT ![c] = NoCallback]
  /\ UNCHANGED <<state, poll, sold, access, group, request, locks, moves>>

\* Logout, or eight hours are over; requests in flight go on.
EndSession(u) ==
  /\ u \in session
  /\ session' = session \ {u}
  /\ UNCHANGED <<role, state, callback, made, client, poll, sold, access, group,
                 request, locks, moves>>

-----------------------------------------------------------------------------
(* The command line. *)

StartAuthSession(k) ==
  /\ client[k] = "none"
  /\ client' = [client EXCEPT ![k] = "open"]
  /\ UNCHANGED <<role, session, state, callback, made, poll, sold, access, group,
                 request, locks, moves>>

ExpireClient(k) ==
  /\ client[k] \notin {"none", "gone"}
  /\ client' = [client EXCEPT ![k] = "gone"]
  /\ UNCHANGED <<role, session, state, callback, made, poll, sold, access, group,
                 request, locks, moves>>

\* Mutant: the row is sold although nobody has signed in yet.
GetOpenSession(p, k) ==
  /\ Moved /\ poll[p] = NoPoll /\ client[k] \notin {"none", "gone"}
  /\ poll' = [poll EXCEPT ![p] = [client |-> k, user |-> client[k]]]
  /\ UNCHANGED <<role, session, state, callback, made, client, sold, access, group,
                 request, locks>>

\* The row is read before it is sold: its user must have signed in.
GetAuthSession(p, k) ==
  /\ Moved /\ poll[p] = NoPoll /\ client[k] \in Users
  /\ poll' = [poll EXCEPT ![p] = [client |-> k, user |-> client[k]]]
  /\ UNCHANGED <<role, session, state, callback, made, client, sold, access, group,
                 request, locks>>

-----------------------------------------------------------------------------
(* Access to repositories. *)

InGroup(u, g) == group[g] # None /\ (group[g].owner = u \/ u \in group[g].members)

Manages(u, r) == owner[r] # None /\ (owner[r] = u \/ role[u] = "admin")

CanAccess(u, r) == Manages(u, r) \/ \E g \in grant[r] : InGroup(u, g)

Accessible(u) == {r \in Resources : CanAccess(u, r)}

\* A poll that read the user issues its token and deletes the row, which
\* another poll may have read as well.
Sell(p) ==
  LET u == poll[p].user k == poll[p].client IN
  /\ poll[p] # NoPoll
  /\ token' = [token EXCEPT ![u] = @ \cup Accessible(u)]
  /\ sold' = [sold EXCEPT ![k] = @ \cup {u}]
  /\ client' = [client EXCEPT ![k] = "gone"]
  /\ poll' = [poll EXCEPT ![p] = NoPoll]
  /\ UNCHANGED <<role, session, state, callback, made, owner, grant, use, group,
                 request, locks, moves>>

\* A handler makes a token for what the user of its session may use now.
UserAccessToken(u) ==
  /\ Moved /\ u \in session
  /\ token' = [token EXCEPT ![u] = @ \cup Accessible(u)]
  /\ UNCHANGED <<role, signIn, owner, grant, use, group, request, locks>>

\* Whoever has a token of the last thirty days, also of repositories it does not
\* name, exchanges it for one that names a repository its user may use.
ExchangeToken(u, r) ==
  /\ Moved /\ u \in Accounts /\ CanAccess(u, r)
  /\ token' = [token EXCEPT ![u] = @ \cup {r}]
  /\ UNCHANGED <<role, signIn, owner, grant, use, group, request, locks>>

\* After thirty days.
ExpireTokens(u) ==
  /\ token[u] # {}
  /\ token' = [token EXCEPT ![u] = {}]
  /\ UNCHANGED <<role, signIn, owner, grant, use, group, request, locks, moves>>

\* Mutant: a token is believed as long as it is valid.
CheckToken(u, r) ==
  /\ Moved /\ r \in token[u]
  /\ use' = <<u, r>>
  /\ UNCHANGED <<role, signIn, token, owner, grant, group, request, locks>>

\* Lore asks whether the bearer of a token may use a repository.
CheckUserPermission(u, r) ==
  /\ Moved /\ r \in token[u] /\ CanAccess(u, r)
  /\ use' = <<u, r>>
  /\ UNCHANGED <<role, signIn, token, owner, grant, group, request, locks>>

\* A repository that Lore creates for a user, or for the user who asked for a
\* restore, belongs to the user unless its name is taken.
CreateResource(u, r) ==
  /\ Moved /\ u \in Accounts /\ owner[r] = None
  /\ owner' = [owner EXCEPT ![r] = u]
  /\ UNCHANGED <<role, signIn, token, grant, use, group, request, locks>>

\* What refers to the repository is deleted with it; tokens go on naming it.
DeleteRow(r) ==
  /\ owner' = [owner EXCEPT ![r] = None]
  /\ grant' = [grant EXCEPT ![r] = {}]

DeleteResource(u, r) ==
  /\ Moved /\ r \in token[u] /\ Manages(u, r)
  /\ DeleteRow(r)
  /\ UNCHANGED <<role, signIn, token, use, group, request, locks>>

-----------------------------------------------------------------------------
(* Management. *)

\* A request carries the role that its author had when it was let in.
Authenticate(h, u) ==
  /\ Moved /\ request[h].phase = "idle" /\ u \in session
  /\ request' = [request EXCEPT ![h] = [phase |-> "asked", by |-> u, to |-> None,
                                        role |-> role[u], group |-> None]]
  /\ UNCHANGED <<role, signIn, access, group, locks>>

RequireAdmin(h) == request[h].phase = "asked" /\ request[h].role = "admin"

Done(h) == request' = [request EXCEPT ![h] = NoRequest]

\* A transaction that ends gives its locks back.
Unlock(h) ==
  /\ roleLock' = IF roleLock = h THEN None ELSE roleLock
  /\ userLock' = [u \in Users |-> IF userLock[u] = h THEN None ELSE userLock[u]]
  /\ groupLock' = [g \in Groups |-> IF groupLock[g] = h THEN None ELSE groupLock[g]]

OwnsGroup(u) == \E g \in Groups : group[g] # None /\ group[g].owner = u

\* The last administrator and the owner of a group stay administrators.
MayBecome(u, new) ==
  (role[u] = "admin" /\ new = "user") => ~OwnsGroup(u) /\ Cardinality(Administrators) > 1

\* Mutant: the roles are not locked as a whole.
LockRowOnly(h, u, new) ==
  /\ RequireAdmin(h) /\ userLock[u] = None /\ u \in Accounts
  /\ MayBecome(u, new)
  /\ userLock' = [userLock EXCEPT ![u] = h]
  /\ request' = [request EXCEPT ![h] = [@ EXCEPT !.phase = "role", !.to = u, !.role = new]]
  /\ UNCHANGED <<role, signIn, access, group, roleLock, groupLock, moves>>

LockRole(h, u, new) ==
  /\ RequireAdmin(h) /\ roleLock = None /\ userLock[u] = None
  /\ u \in Accounts /\ MayBecome(u, new)
  /\ roleLock' = h
  /\ userLock' = [userLock EXCEPT ![u] = h]
  /\ request' = [request EXCEPT ![h] = [@ EXCEPT !.phase = "role", !.to = u, !.role = new]]
  /\ UNCHANGED <<role, signIn, access, group, groupLock, moves>>

UpdateAccountRole(h) ==
  /\ request[h].phase = "role"
  /\ role' = [role EXCEPT ![request[h].to] = request[h].role]
  /\ Done(h) /\ Unlock(h)
  /\ UNCHANGED <<signIn, access, group, moves>>

\* A row that refers to an account waits for whoever has locked the account.
Referable(members) == members \subseteq Accounts /\ \A u \in members : userLock[u] = None

CreateGroup(h, g, members) ==
  LET u == request[h].by IN
  /\ RequireAdmin(h) /\ group[g] = None /\ Referable(members \cup {u})
  /\ group' = [group EXCEPT ![g] =
       [owner |-> u, members |-> members \cup {u}, late |-> role[u] # "admin"]]
  /\ Done(h)
  /\ UNCHANGED <<role, signIn, access, locks, moves>>

Owns(h, g) == group[g] # None /\ group[g].owner = request[h].by /\ groupLock[g] = None

UpdateGroup(h, g, members) ==
  /\ RequireAdmin(h) /\ Owns(h, g)
  /\ Referable(members \cup {request[h].by})
  /\ group' = [group EXCEPT ![g] = [@ EXCEPT !.members = members \cup {request[h].by}]]
  /\ Done(h)
  /\ UNCHANGED <<role, signIn, access, locks, moves>>

\* Mutant: the destination's account is not locked while its role is checked.
LockTransferGroup(h, g, u) ==
  /\ RequireAdmin(h) /\ Owns(h, g) /\ u # request[h].by
  /\ role[u] = "admin" /\ u \in group[g].members
  /\ groupLock' = [groupLock EXCEPT ![g] = h]
  /\ request' = [request EXCEPT ![h] = [@ EXCEPT !.phase = "transfer", !.to = u, !.group = g]]
  /\ UNCHANGED <<role, signIn, access, group, roleLock, userLock, moves>>

\* First the group, then the destination's account are locked; who waits for
\* the account holds nothing that others wait for together with an account.
LockTransfer(h, g, u) ==
  /\ RequireAdmin(h) /\ Owns(h, g) /\ u # request[h].by
  /\ userLock[u] = None /\ role[u] = "admin" /\ u \in group[g].members
  /\ groupLock' = [groupLock EXCEPT ![g] = h]
  /\ userLock' = [userLock EXCEPT ![u] = h]
  /\ request' = [request EXCEPT ![h] = [@ EXCEPT !.phase = "transfer", !.to = u, !.group = g]]
  /\ UNCHANGED <<role, signIn, access, group, roleLock, moves>>

TransferGroupOwner(h) ==
  LET g == request[h].group IN
  /\ request[h].phase = "transfer"
  /\ group' = [group EXCEPT ![g] = [@ EXCEPT !.owner = request[h].to, !.late = FALSE]]
  /\ Done(h) /\ Unlock(h)
  /\ UNCHANGED <<role, signIn, access, moves>>

\* The access of a deleted group goes with it.
DeleteGroup(h, g) ==
  /\ RequireAdmin(h) /\ Owns(h, g)
  /\ group' = [group EXCEPT ![g] = None]
  /\ grant' = [r \in Resources |-> grant[r] \ {g}]
  /\ Done(h)
  /\ UNCHANGED <<role, signIn, token, owner, use, locks, moves>>

UpdateRepositoryGroupAccess(h, r, groups) ==
  /\ request[h].phase = "asked" /\ owner[r] # None
  /\ owner[r] = request[h].by \/ request[h].role = "admin"
  /\ \A g \in groups : group[g] # None
  /\ grant' = [grant EXCEPT ![r] = groups]
  /\ Done(h)
  /\ UNCHANGED <<role, signIn, token, owner, use, group, locks, moves>>

\* The request is refused, a statement fails, or its client hangs up.
Refuse(h) ==
  /\ request[h].phase # "idle"
  /\ Done(h) /\ Unlock(h)
  /\ UNCHANGED <<role, signIn, access, group, moves>>

-----------------------------------------------------------------------------

SignIn ==
  \/ \E s \in States : Login(s) \/ ExpireState(s)
  \/ \E c \in Callbacks :
       \/ VerifyIdToken(c) \/ StoreSession(c)
       \/ \E s \in States, k \in Clients \cup {None} : Callback(c, s, k)
  \/ \E u \in Users : EndSession(u)

CommandLine ==
  \/ \E k \in Clients : StartAuthSession(k) \/ ExpireClient(k)
  \/ \E p \in Polls : Sell(p) \/ \E k \in Clients : GetAuthSession(p, k)

Access ==
  \E u \in Users :
    \/ UserAccessToken(u) \/ ExpireTokens(u)
    \/ \E r \in Resources :
         \/ ExchangeToken(u, r) \/ CheckUserPermission(u, r)
         \/ CreateResource(u, r) \/ DeleteResource(u, r)

Manage(h) ==
  \/ UpdateAccountRole(h) \/ TransferGroupOwner(h) \/ Refuse(h)
  \/ \E u \in Users :
       \/ Authenticate(h, u)
       \/ \E new \in {"user", "admin"} : LockRole(h, u, new)
       \/ \E g \in Groups : LockTransfer(h, g, u)
  \/ \E g \in Groups :
       \/ DeleteGroup(h, g)
       \/ \E members \in SUBSET Users :
            CreateGroup(h, g, members) \/ UpdateGroup(h, g, members)
  \/ \E r \in Resources, groups \in SUBSET Groups : UpdateRepositoryGroupAccess(h, r, groups)

Next == SignIn \/ CommandLine \/ Access \/ \E h \in Requests : Manage(h)

Spec == Init /\ [][Next]_vars

-----------------------------------------------------------------------------
(* Properties. *)

IdentityTypeOK ==
  /\ role \in [Users -> {"none", "user", "admin"}]
  /\ session \subseteq Users
  /\ state \in [States -> {"none", "open", "gone"}]
  /\ callback \in [Callbacks ->
       [phase : {"idle", "exchange", "store"}, state : States \cup {None},
        client : Clients \cup {None}, user : Users \cup {None}]]
  /\ made \in [States -> Nat]
  /\ client \in [Clients -> {"none", "open", "gone"} \cup Users]
  /\ poll \in [Polls -> [client : Clients \cup {None}, user : Users \cup {None}]]
  /\ sold \in [Clients -> SUBSET Users]
  /\ token \in [Users -> SUBSET Resources]
  /\ group \in [Groups -> Group \cup {None}]
  /\ owner \in [Resources -> Users \cup {None}]
  /\ grant \in [Resources -> SUBSET Groups]
  /\ use \in (Users \X Resources) \cup {None}
  /\ request \in [Requests ->
       [phase : {"idle", "asked", "role", "transfer"}, by : Users \cup {None},
        to : Users \cup {None}, role : {"none", "user", "admin"},
        group : Groups \cup {None}]]
  /\ roleLock \in Requests \cup {None}
  /\ userLock \in [Users -> Requests \cup {None}]
  /\ groupLock \in [Groups -> Requests \cup {None}]
  /\ moves \in 0..MaxMoves

\* As long as there are accounts there is an administrator, although first
\* sign-ins race, and administrators who demote each other are both allowed to
\* when their requests start.
AdministratorRemains == Accounts # {} => Administrators # {}

\* A group is owned by someone who can manage it, however transfers, demotions
\* and updates interleave; except a group that was created by the request of an
\* administrator who was demoted before it ran.
GroupsHaveAdminOwner ==
  \A g \in Groups : group[g] # None =>
    /\ group[g].owner \in group[g].members
    /\ role[group[g].owner] = "admin" \/ group[g].late

\* A sign-in state makes one session at most, whichever callbacks bring it, and
\* the tokens of a command line sign-in are all for one user, whoever signs in
\* with its cookie and however often it polls.
SignInsAreSingleUse ==
  /\ \A s \in States : made[s] < 2
  /\ \A k \in Clients : Cardinality(sold[k]) < 2

\* "Repository authorization uses the current account role, including for
\* existing CLI tokens" (repository_access.rs): no use is permitted to a user
\* who was demoted, left the group or lost the group's access in the meantime,
\* nor is there access left to a deleted repository, which a later one of its
\* name would inherit.
AccessIsLive ==
  /\ [](\A r \in Resources : owner[r] = None => grant[r] = {})
  /\ [][use' # use => CanAccess(use'[1], use'[2])]_vars
=============================================================================
