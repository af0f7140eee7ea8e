---------------------------- MODULE IdentityProofs ----------------------------
(***************************************************************************)
(* Proofs about Identity, for any users, groups, repositories, sign-ins,   *)
(* requests and bound on their number.                                     *)
(***************************************************************************)
EXTENDS Identity, FiniteSetTheorems, TLAPS

\* What is in flight names what it is about.
InFlight ==
  /\ \A c \in Callbacks :
       /\ callback[c].phase = "idle" => callback[c] = NoCallback
       /\ callback[c].phase # "idle" => callback[c].state \in States
       /\ callback[c].phase = "store" => callback[c].user \in Users
  /\ \A p \in Polls :
       poll[p] # NoPoll => poll[p].client \in Clients /\ poll[p].user \in Users
  /\ \A h \in Requests : request[h].phase # "idle" => request[h].by \in Users

\* A sign-in state is with one callback at most, and makes nothing before it.
SignIns ==
  /\ \A s \in States : made[s] < 2
  /\ \A s \in States : state[s] # "gone" =>
       made[s] = 0 /\ \A c \in Callbacks : callback[c].state # s
  /\ \A c \in Callbacks : callback[c].phase # "idle" => made[callback[c].state] = 0
  /\ \A c, d \in Callbacks :
       callback[c].phase # "idle" /\ callback[d].state = callback[c].state => c = d

\* Everyone who has read the user of a command line sign-in read the same one.
CommandLines ==
  \A k \in Clients :
    /\ client[k] \in {"none", "open"} =>
         sold[k] = {} /\ \A p \in Polls : poll[p].client # k
    /\ \A p, q \in Polls :
         poll[p].client = k /\ poll[q].client = k => poll[p].user = poll[q].user
    /\ \A p \in Polls : poll[p].client = k =>
         /\ sold[k] \subseteq {poll[p].user}
         /\ client[k] \in Users => client[k] = poll[p].user
    /\ client[k] \in Users => sold[k] \subseteq {client[k]}
    /\ \A u, v \in sold[k] : u = v

\* A transaction that is about to change a role holds the roles and the account,
\* and what it has checked stays true.
RoleChange(h) ==
  LET u == request[h].to IN
  /\ u \in Users /\ request[h].role \in {"user", "admin"}
  /\ roleLock = h /\ userLock[u] = h /\ role[u] # "none"
  /\ role[u] = "admin" /\ request[h].role = "user" =>
       ~OwnsGroup(u) /\ \E v \in Users : v # u /\ role[v] = "admin"

\* The same for one that is about to transfer a group.
Transfer(h) ==
  LET u == request[h].to g == request[h].group IN
  /\ u \in Users /\ g \in Groups
  /\ userLock[u] = h /\ groupLock[g] = h
  /\ role[u] = "admin" /\ group[g] # None /\ u \in group[g].members

Management ==
  /\ \A h \in Requests :
       /\ request[h].phase = "role" => RoleChange(h)
       /\ request[h].phase = "transfer" => Transfer(h)
  /\ AdministratorRemains
  /\ GroupsHaveAdminOwner

Grants == \A r \in Resources : owner[r] = None => grant[r] = {}

IInv == IdentityTypeOK /\ InFlight /\ SignIns /\ CommandLines /\ Management /\ Grants

-----------------------------------------------------------------------------
(* A part of the invariant stays if its variables do. *)

LEMMA SignInsStay ==
  ASSUME SignIns, UNCHANGED <<state, callback, made>> PROVE SignIns'
  BY DEF SignIns

LEMMA CommandLinesStay ==
  ASSUME CommandLines, UNCHANGED <<client, poll, sold>> PROVE CommandLines'
  BY DEF CommandLines

LEMMA InFlightStays ==
  ASSUME InFlight, UNCHANGED <<callback, poll, request>> PROVE InFlight'
  BY DEF InFlight

LEMMA ManagementStays ==
  ASSUME Management, UNCHANGED <<role, group, request, locks>> PROVE Management'
  BY DEF Management, RoleChange, Transfer, OwnsGroup, AdministratorRemains,
         GroupsHaveAdminOwner, Accounts, Administrators, locks

LEMMA GrantsStay == ASSUME Grants, UNCHANGED <<owner, grant>> PROVE Grants'
  BY DEF Grants

LEMMA InitIInv == Init => IInv
<1> SUFFICES ASSUME Init PROVE IInv
  OBVIOUS
<1>1. IdentityTypeOK
  BY MovesAreBounded
     DEF Init, IdentityTypeOK, Accounts, NoCallback, NoPoll, NoRequest
<1>2. InFlight /\ SignIns
  BY NoneIsNothing DEF Init, InFlight, SignIns, NoCallback, NoPoll, NoRequest
<1>3. CommandLines
  BY NoneIsNothing, UsersAreNoMarks DEF Init, CommandLines, NoPoll
<1>4. Management /\ Grants
  BY DEF Init, Management, NoRequest, AdministratorRemains, GroupsHaveAdminOwner, Grants
<1> QED BY <1>1, <1>2, <1>3, <1>4 DEF IInv

-----------------------------------------------------------------------------
(* Signing in. *)

LEMMA LoginKeeps == ASSUME IInv, NEW s \in States, Login(s) PROVE IInv'
<1>1. IdentityTypeOK'
  BY DEF IInv, IdentityTypeOK, Login, access, locks
<1>2. SignIns'
  BY DEF IInv, IdentityTypeOK, SignIns, Login
<1> QED BY <1>1, <1>2, CommandLinesStay, InFlightStays, ManagementStays, GrantsStay
        DEF IInv, Login, access

LEMMA ExpireStateKeeps == ASSUME IInv, NEW s \in States, ExpireState(s) PROVE IInv'
<1>1. IdentityTypeOK'
  BY DEF IInv, IdentityTypeOK, ExpireState, access, locks
<1>2. SignIns'
  BY DEF IInv, IdentityTypeOK, SignIns, ExpireState
<1> QED BY <1>1, <1>2, CommandLinesStay, InFlightStays, ManagementStays, GrantsStay
        DEF IInv, ExpireState, access

LEMMA CallbackKeeps ==
  ASSUME IInv, NEW c \in Callbacks, NEW s \in States, NEW k \in Clients \cup {None},
         Callback(c, s, k)
  PROVE  IInv'
<1>1. IdentityTypeOK'
  BY MovesAreBounded DEF IInv, IdentityTypeOK, Callback, Moved, access, locks
<1>2. InFlight'
  BY DEF IInv, IdentityTypeOK, InFlight, Callback
<1>3. SignIns'
  BY DEF IInv, IdentityTypeOK, SignIns, Callback
<1> QED BY <1>1, <1>2, <1>3, CommandLinesStay, ManagementStays, GrantsStay
        DEF IInv, Callback, access

LEMMA VerifyIdTokenKeeps ==
  ASSUME IInv, NEW c \in Callbacks, VerifyIdToken(c) PROVE IInv'
<1> DEFINE R == [phase : {"idle", "exchange", "store"}, state : States \cup {None},
                 client : Clients \cup {None}, user : Users \cup {None}]
<1>1. UNCHANGED <<role, session, state, made, client, poll, sold, access, group,
                  request, locks, moves>>
      /\ callback[c].phase = "exchange"
  BY DEF VerifyIdToken
<1>2. callback \in [Callbacks -> R] /\ callback[c] \in R
  BY DEF IInv, IdentityTypeOK
<1>3. PICK x \in R : callback' = [callback EXCEPT ![c] = x]
                     /\ \/ x = NoCallback
                        \/ x.phase = "store" /\ x.state = callback[c].state /\ x.user \in Users
  <2>1. CASE callback' = [callback EXCEPT ![c] = NoCallback]
    BY <2>1 DEF NoCallback
  <2>2. ASSUME NEW u \in Users,
               callback' = [callback EXCEPT ![c] = [@ EXCEPT !.phase = "store", !.user = u]]
        PROVE  \E x \in R : callback' = [callback EXCEPT ![c] = x]
                 /\ x.phase = "store" /\ x.state = callback[c].state /\ x.user \in Users
    <3> DEFINE x == [callback[c] EXCEPT !.phase = "store", !.user = u]
    <3>1. x \in R /\ x.phase = "store" /\ x.state = callback[c].state /\ x.user = u
      BY <1>2
    <3>2. callback' = [callback EXCEPT ![c] = x]
      BY <2>2
    <3> HIDE DEF x, R
    <3> QED BY <3>1, <3>2
  <2> HIDE DEF R
  <2> QED BY <2>1, <2>2 DEF VerifyIdToken
<1>4. IdentityTypeOK'
  BY <1>1, <1>3 DEF IInv, IdentityTypeOK, access, locks
<1>5. \A d \in Callbacks : callback'[d] = IF d = c THEN x ELSE callback[d]
  BY <1>2, <1>3
<1>6. callback[c].state \in States
  BY <1>1 DEF IInv, InFlight
<1>7. InFlight'
  BY <1>1, <1>3, <1>5, <1>6 DEF IInv, InFlight, NoCallback
<1>8. SignIns'
  BY <1>1, <1>3, <1>5, <1>6, NoneIsNothing DEF IInv, SignIns, InFlight, NoCallback
<1> QED BY <1>1, <1>4, <1>7, <1>8, CommandLinesStay, ManagementStays, GrantsStay
        DEF IInv, access

LEMMA StoreSessionKeeps ==
  ASSUME IInv, NEW c \in Callbacks, StoreSession(c) PROVE IInv'
<1> DEFINE u == callback[c].user s == callback[c].state k == callback[c].client
<1>1. u \in Users /\ s \in States /\ k \in Clients \cup {None} /\ roleLock = None
  BY DEF IInv, IdentityTypeOK, InFlight, StoreSession
<1>2. /\ role' \in [Users -> {"none", "user", "admin"}]
      /\ \A v \in Users : role[v] # "none" => role'[v] = role[v]
      /\ \A v \in Users : v # u => role'[v] = role[v]
  BY <1>1 DEF IInv, IdentityTypeOK, StoreSession, InitialRole
<1>3. client' \in [Clients -> {"none", "open", "gone"} \cup Users]
  BY <1>1 DEF IInv, IdentityTypeOK, StoreSession, Complete
<1>4. callback' = [callback EXCEPT ![c] = NoCallback]
      /\ made' = [made EXCEPT ![s] = @ + 1] /\ session' = session \cup {u}
      /\ UNCHANGED <<state, poll, sold, access, group, request, locks, moves>>
  BY DEF StoreSession
<1>5. IdentityTypeOK'
  <2>1. callback' \in [Callbacks ->
          [phase : {"idle", "exchange", "store"}, state : States \cup {None},
           client : Clients \cup {None}, user : Users \cup {None}]]
        /\ made' \in [States -> Nat] /\ session' \subseteq Users
    BY <1>1, <1>4 DEF IInv, IdentityTypeOK, NoCallback
  <2> QED BY <1>2, <1>3, <1>4, <2>1 DEF IInv, IdentityTypeOK, access, locks
<1>6. InFlight'
  BY <1>4 DEF IInv, IdentityTypeOK, InFlight, NoCallback
<1>7. SignIns'
  <2>1. /\ callback[c].phase # "idle" /\ made[s] = 0 /\ state[s] = "gone"
        /\ \A d \in Callbacks : callback[d].state = s => d = c
    BY <1>1 DEF IInv, SignIns, StoreSession
  <2>2. \A t \in States : made'[t] = IF t = s THEN 1 ELSE made[t]
    BY <1>1, <1>4, <2>1 DEF IInv, IdentityTypeOK
  <2>3. \A d \in Callbacks : callback'[d] = IF d = c THEN NoCallback ELSE callback[d]
    BY <1>4 DEF IInv, IdentityTypeOK
  <2> QED BY <1>4, <2>1, <2>2, <2>3, NoneIsNothing DEF IInv, SignIns, InFlight, NoCallback
<1>8. CommandLines'
  BY <1>1, <1>4, NoneIsNothing, UsersAreNoMarks
     DEF IInv, IdentityTypeOK, CommandLines, StoreSession, Complete
<1>9. Management'
  <2>1. AdministratorRemains'
    <3>1. CASE Administrators = {}
      <4>1. role[u] = "none"
        BY <1>1, <3>1 DEF IInv, IdentityTypeOK, Management, AdministratorRemains, Accounts
      <4>2. role'[u] = "admin"
        BY <1>1, <3>1, <4>1 DEF IInv, IdentityTypeOK, StoreSession, InitialRole
      <4> QED BY <1>1, <4>2 DEF AdministratorRemains, Administrators
    <3>2. CASE Administrators # {}
      BY <1>2, <3>2 DEF AdministratorRemains, Administrators
    <3> QED BY <3>1, <3>2
  <2>2. GroupsHaveAdminOwner'
    <3> SUFFICES ASSUME NEW g \in Groups, group[g] # None
                 PROVE  /\ group[g].owner \in group[g].members
                        /\ role'[group[g].owner] = "admin" \/ group[g].late
      BY <1>4 DEF GroupsHaveAdminOwner
    <3>1. group[g].owner \in Users
      BY DEF IInv, IdentityTypeOK, Group
    <3> QED BY <1>2, <3>1 DEF IInv, Management, GroupsHaveAdminOwner
  <2>3. \A h \in Requests : request[h].phase # "role"
    BY <1>1, NoneIsNothing DEF IInv, Management, RoleChange
  <2>4. \A h \in Requests : request[h].phase = "transfer" => Transfer(h)'
    BY <1>2, <1>4 DEF IInv, Management, Transfer, locks
  <2> QED BY <1>4, <2>1, <2>2, <2>3, <2>4 DEF Management
<1> QED BY <1>4, <1>5, <1>6, <1>7, <1>8, <1>9, GrantsStay DEF IInv, access

LEMMA EndSessionKeeps == ASSUME IInv, NEW u \in Users, EndSession(u) PROVE IInv'
<1>1. IdentityTypeOK'
  BY DEF IInv, IdentityTypeOK, EndSession, access, locks
<1> QED BY <1>1, SignInsStay, CommandLinesStay, InFlightStays, ManagementStays, GrantsStay
        DEF IInv, EndSession, access

-----------------------------------------------------------------------------
(* The command line. *)

LEMMA StartAuthSessionKeeps ==
  ASSUME IInv, NEW k \in Clients, StartAuthSession(k) PROVE IInv'
<1>1. IdentityTypeOK'
  BY DEF IInv, IdentityTypeOK, StartAuthSession, access, locks
<1>2. CommandLines'
  BY UsersAreNoMarks DEF IInv, IdentityTypeOK, CommandLines, StartAuthSession
<1> QED BY <1>1, <1>2, SignInsStay, InFlightStays, ManagementStays, GrantsStay
        DEF IInv, StartAuthSession, access

LEMMA ExpireClientKeeps == ASSUME IInv, NEW k \in Clients, ExpireClient(k) PROVE IInv'
<1>1. IdentityTypeOK'
  BY DEF IInv, IdentityTypeOK, ExpireClient, access, locks
<1>2. CommandLines'
  BY UsersAreNoMarks DEF IInv, IdentityTypeOK, CommandLines, ExpireClient
<1> QED BY <1>1, <1>2, SignInsStay, InFlightStays, ManagementStays, GrantsStay
        DEF IInv, ExpireClient, access

LEMMA GetAuthSessionKeeps ==
  ASSUME IInv, NEW p \in Polls, NEW k \in Clients, GetAuthSession(p, k) PROVE IInv'
<1>1. IdentityTypeOK'
  BY MovesAreBounded DEF IInv, IdentityTypeOK, GetAuthSession, Moved, access, locks
<1>2. \A q \in Polls :
        poll'[q] = IF q = p THEN [client |-> k, user |-> client[k]] ELSE poll[q]
  BY DEF IInv, IdentityTypeOK, GetAuthSession
<1>3. InFlight'
  BY <1>2 DEF IInv, InFlight, GetAuthSession
<1>4. CommandLines'
  BY <1>2, UsersAreNoMarks DEF IInv, IdentityTypeOK, CommandLines, GetAuthSession
<1> QED BY <1>1, <1>3, <1>4, SignInsStay, ManagementStays, GrantsStay
        DEF IInv, GetAuthSession, access

LEMMA SellKeeps == ASSUME IInv, NEW p \in Polls, Sell(p) PROVE IInv'
<1> DEFINE u == poll[p].user k == poll[p].client
<1>1. u \in Users /\ k \in Clients
  BY DEF IInv, InFlight, Sell
<1>2. Accessible(u) \subseteq Resources
  BY DEF Accessible
<1>3. IdentityTypeOK'
  BY <1>1, <1>2 DEF IInv, IdentityTypeOK, Sell, NoPoll, locks
<1>4. \A q \in Polls : poll'[q] = IF q = p THEN NoPoll ELSE poll[q]
  BY DEF IInv, IdentityTypeOK, Sell
<1>5. InFlight'
  BY <1>4 DEF IInv, InFlight, Sell
<1>6. CommandLines'
  <2> SUFFICES ASSUME NEW j \in Clients
               PROVE  /\ client'[j] \in {"none", "open"} =>
                           sold'[j] = {} /\ \A q \in Polls : poll'[q].client # j
                      /\ \A q, r \in Polls : poll'[q].client = j /\ poll'[r].client = j
                           => poll'[q].user = poll'[r].user
                      /\ \A q \in Polls : poll'[q].client = j =>
                           /\ sold'[j] \subseteq {poll'[q].user}
                           /\ client'[j] \in Users => client'[j] = poll'[q].user
                      /\ client'[j] \in Users => sold'[j] \subseteq {client'[j]}
                      /\ \A v, w \in sold'[j] : v = w
    BY DEF CommandLines
  <2>1. j # None
    BY NoneIsNothing
  <2>2. CASE j = k
    <3>1. client'[j] = "gone" /\ sold'[j] = sold[k] \cup {u}
      BY <1>1, <2>2 DEF IInv, IdentityTypeOK, Sell
    <3>2. sold[k] \subseteq {u}
      BY <1>1 DEF IInv, CommandLines
    <3>3. \A q \in Polls : poll'[q].client = j => poll'[q].user = u
      BY <1>1, <1>4, <2>1, <2>2 DEF IInv, CommandLines, NoPoll
    <3> QED BY <3>1, <3>2, <3>3, UsersAreNoMarks
  <2>3. CASE j # k
    <3>1. client'[j] = client[j] /\ sold'[j] = sold[j]
      BY <1>1, <2>3 DEF IInv, IdentityTypeOK, Sell
    <3>2. \A q \in Polls : poll'[q].client = j => poll'[q] = poll[q]
      BY <1>4, <2>1 DEF NoPoll
    <3>3. \A q \in Polls : poll[q].client # j => poll'[q].client # j
      BY <1>4, <2>1 DEF NoPoll
    <3> QED BY <3>1, <3>2, <3>3 DEF IInv, CommandLines
  <2> QED BY <2>2, <2>3
<1> QED BY <1>3, <1>5, <1>6, SignInsStay, ManagementStays, GrantsStay DEF IInv, Sell

-----------------------------------------------------------------------------
(* Access to repositories. *)

LEMMA AccessKeeps ==
  ASSUME IInv, NEW u \in Users,
         \/ UserAccessToken(u) \/ ExpireTokens(u)
         \/ \E r \in Resources : ExchangeToken(u, r) \/ CheckUserPermission(u, r)
  PROVE  IInv'
<1>1. Accessible(u) \subseteq Resources
  BY DEF Accessible
<1>2. /\ token' \in [Users -> SUBSET Resources]
      /\ use' \in (Users \X Resources) \cup {None}
      /\ moves' \in 0..MaxMoves
  <2>1. CASE UserAccessToken(u)
    BY <1>1, <2>1, MovesAreBounded DEF IInv, IdentityTypeOK, UserAccessToken, Moved
  <2>2. CASE ExpireTokens(u)
    BY <2>2 DEF IInv, IdentityTypeOK, ExpireTokens
  <2>3. ASSUME NEW r \in Resources, ExchangeToken(u, r)
        PROVE  token' \in [Users -> SUBSET Resources] /\ use' = use /\ moves' \in 0..MaxMoves
    BY <2>3, MovesAreBounded DEF IInv, IdentityTypeOK, ExchangeToken, Moved
  <2>4. ASSUME NEW r \in Resources, CheckUserPermission(u, r)
        PROVE  token' = token /\ use' \in Users \X Resources /\ moves' \in 0..MaxMoves
    BY <2>4, MovesAreBounded DEF IInv, IdentityTypeOK, CheckUserPermission, Moved
  <2> QED BY <2>1, <2>2, <2>3, <2>4 DEF IInv, IdentityTypeOK
<1>3. UNCHANGED <<role, signIn, owner, grant, group, request, locks>>
  BY DEF UserAccessToken, ExpireTokens, ExchangeToken, CheckUserPermission
<1>4. IdentityTypeOK'
  BY <1>2, <1>3 DEF IInv, IdentityTypeOK, signIn, locks
<1> QED BY <1>3, <1>4, SignInsStay, CommandLinesStay, InFlightStays, ManagementStays,
           GrantsStay DEF IInv, signIn

LEMMA ResourceKeeps ==
  ASSUME IInv, NEW u \in Users, NEW r \in Resources,
         CreateResource(u, r) \/ DeleteResource(u, r)
  PROVE  IInv'
<1>1. /\ owner' \in [Resources -> Users \cup {None}]
      /\ grant' \in [Resources -> SUBSET Groups]
      /\ moves' \in 0..MaxMoves
  <2>1. CASE CreateResource(u, r)
    BY <2>1, MovesAreBounded DEF IInv, IdentityTypeOK, CreateResource, Moved
  <2>2. CASE DeleteResource(u, r)
    BY <2>2, MovesAreBounded DEF IInv, IdentityTypeOK, DeleteResource, DeleteRow, Moved
  <2> QED BY <2>1, <2>2
<1>2. UNCHANGED <<role, signIn, token, use, group, request, locks>>
  BY DEF CreateResource, DeleteResource
<1>3. IdentityTypeOK'
  BY <1>1, <1>2 DEF IInv, IdentityTypeOK, signIn, locks
<1>4. Grants'
  BY DEF IInv, IdentityTypeOK, Grants, CreateResource, DeleteResource, DeleteRow
<1> QED BY <1>2, <1>3, <1>4, SignInsStay, CommandLinesStay, InFlightStays,
           ManagementStays DEF IInv, signIn
-----------------------------------------------------------------------------
(* Management. *)

\* A transaction keeps its locks in a step.
KeepsLocks(h) ==
  /\ roleLock = h => roleLock' = h
  /\ \A u \in Users : userLock[u] = h => userLock'[u] = h
  /\ \A g \in Groups : groupLock[g] = h => groupLock'[g] = h

\* A step that ends h, or lets it in, leaves what the others have checked: it
\* changes no group that another has locked, and gives none to a locked account.
LEMMA OthersKeep ==
  ASSUME IInv, NEW h \in Requests, UNCHANGED role,
         request'[h].phase \notin {"role", "transfer"},
         \A j \in Requests : j # h => request'[j] = request[j] /\ KeepsLocks(j),
         \A g \in Groups :
           group[g] # None /\ groupLock[g] \notin {None, h} => group'[g] = group[g],
         \A g \in Groups :
           group'[g] # None /\ (group[g] = None \/ group'[g].owner # group[g].owner)
             => userLock[group'[g].owner] \in {None, h},
         GroupsHaveAdminOwner'
  PROVE  Management'
<1>1. AdministratorRemains'
  BY DEF IInv, Management, AdministratorRemains, Accounts, Administrators
<1>2. ASSUME NEW j \in Requests, request'[j].phase = "role" PROVE RoleChange(j)'
  <2>1. j # h /\ request'[j] = request[j] /\ KeepsLocks(j) /\ RoleChange(j) /\ j # None
    BY <1>2, NoneIsNothing DEF IInv, Management
  <2> DEFINE u == request[j].to
  <2>2. ASSUME ~OwnsGroup(u) PROVE ~OwnsGroup(u)'
    <3> SUFFICES ASSUME NEW g \in Groups, group'[g] # None, group'[g].owner = u
                 PROVE  FALSE
      BY <2>1 DEF OwnsGroup
    <3>1. userLock[u] = j
      BY <2>1 DEF RoleChange
    <3> QED BY <2>1, <2>2, <3>1 DEF OwnsGroup
  <2> QED BY <2>1, <2>2 DEF RoleChange, KeepsLocks
<1>3. ASSUME NEW j \in Requests, request'[j].phase = "transfer" PROVE Transfer(j)'
  <2>1. j # h /\ request'[j] = request[j] /\ KeepsLocks(j) /\ Transfer(j) /\ j # None
    BY <1>3, NoneIsNothing DEF IInv, Management
  <2> QED BY <2>1 DEF Transfer, KeepsLocks
<1> QED BY <1>1, <1>2, <1>3 DEF Management

LEMMA UnlockKeeps ==
  ASSUME IInv, NEW h \in Requests, Unlock(h)
  PROVE  /\ roleLock' \in Requests \cup {None}
         /\ userLock' \in [Users -> Requests \cup {None}]
         /\ groupLock' \in [Groups -> Requests \cup {None}]
         /\ \A j \in Requests : j # h => KeepsLocks(j)
  BY DEF IInv, IdentityTypeOK, Unlock, KeepsLocks

LEMMA DoneKeeps ==
  ASSUME IInv, NEW h \in Requests, Done(h)
  PROVE  /\ request' \in [Requests ->
              [phase : {"idle", "asked", "role", "transfer"}, by : Users \cup {None},
               to : Users \cup {None}, role : {"none", "user", "admin"},
               group : Groups \cup {None}]]
         /\ request'[h] = NoRequest /\ NoRequest.phase = "idle"
         /\ \A j \in Requests : j # h => request'[j] = request[j]
         /\ UNCHANGED <<callback, poll>> => InFlight'
<1>1. /\ request'[h] = NoRequest /\ NoRequest.phase = "idle"
      /\ \A j \in Requests : j # h => request'[j] = request[j]
  BY DEF IInv, IdentityTypeOK, Done, NoRequest
<1> QED BY <1>1 DEF IInv, IdentityTypeOK, InFlight, Done, NoRequest

LEMMA AuthenticateKeeps ==
  ASSUME IInv, NEW h \in Requests, NEW u \in Users, Authenticate(h, u) PROVE IInv'
<1> DEFINE r == [phase |-> "asked", by |-> u, to |-> None, role |-> role[u],
                 group |-> None]
<1>1. r.phase = "asked" /\ r.by = u
  OBVIOUS
<1>2. request' = [request EXCEPT ![h] = r]
      /\ UNCHANGED <<role, signIn, access, group, locks>> /\ moves' \in 0..MaxMoves
  BY MovesAreBounded DEF IInv, IdentityTypeOK, Authenticate, Moved, r
<1>3. role[u] \in {"none", "user", "admin"}
  BY DEF IInv, IdentityTypeOK
<1>4. IdentityTypeOK'
  BY <1>1, <1>2, <1>3 DEF IInv, IdentityTypeOK, signIn, access, locks
<1>5. request'[h] = r /\ \A j \in Requests : j # h => request'[j] = request[j]
  BY <1>2 DEF IInv, IdentityTypeOK
<1>6. InFlight'
  BY <1>1, <1>2, <1>5 DEF IInv, InFlight, signIn
<1>7. GroupsHaveAdminOwner'
  BY <1>2 DEF IInv, Management, GroupsHaveAdminOwner
<1>8. Management'
  BY <1>1, <1>2, <1>5, <1>7, OthersKeep DEF KeepsLocks, locks
<1> QED BY <1>2, <1>4, <1>6, <1>8, SignInsStay, CommandLinesStay, GrantsStay
        DEF IInv, signIn, access

LEMMA RefuseKeeps == ASSUME IInv, NEW h \in Requests, Refuse(h) PROVE IInv'
<1>1. Done(h) /\ Unlock(h) /\ UNCHANGED <<role, signIn, access, group, moves>>
  BY DEF Refuse
<1>2. IdentityTypeOK'
  BY <1>1, DoneKeeps, UnlockKeeps DEF IInv, IdentityTypeOK, signIn, access
<1>3. GroupsHaveAdminOwner'
  BY <1>1 DEF IInv, Management, GroupsHaveAdminOwner
<1>4. Management'
  BY <1>1, <1>3, DoneKeeps, UnlockKeeps, OthersKeep
<1> QED BY <1>1, <1>2, <1>4, DoneKeeps, SignInsStay, CommandLinesStay, GrantsStay
        DEF IInv, signIn, access

\* With a second administrator there is one besides u.
LEMMA AnotherAdministrator ==
  ASSUME NEW u \in Users, Cardinality(Administrators) > 1
  PROVE  \E v \in Users : v # u /\ role[v] = "admin"
<1> SUFFICES ASSUME \A v \in Users : role[v] = "admin" => v = u PROVE FALSE
  OBVIOUS
<1>1. Administrators \subseteq {u}
  BY DEF Administrators
<1>2. IsFiniteSet({u}) /\ Cardinality({u}) = 1
  BY FS_Singleton
<1>3. Cardinality(Administrators) <= 1 /\ Cardinality(Administrators) \in Nat
  BY <1>1, <1>2, FS_Subset, FS_CardinalityType
<1> QED BY <1>3

LEMMA LockRoleKeeps ==
  ASSUME IInv, NEW h \in Requests, NEW u \in Users, NEW new \in {"user", "admin"},
         LockRole(h, u, new)
  PROVE  IInv'
<1> DEFINE R == [phase : {"idle", "asked", "role", "transfer"}, by : Users \cup {None},
                 to : Users \cup {None}, role : {"none", "user", "admin"},
                 group : Groups \cup {None}]
           r == [request[h] EXCEPT !.phase = "role", !.to = u, !.role = new]
<1>0. request[h] \in R
  BY DEF IInv, IdentityTypeOK
<1>1. r \in R /\ r.phase = "role" /\ r.by = request[h].by /\ r.to = u /\ r.role = new
  BY <1>0
<1> HIDE DEF r
<1>2. request' = [request EXCEPT ![h] = r] /\ roleLock' = h
      /\ userLock' = [userLock EXCEPT ![u] = h]
      /\ UNCHANGED <<role, signIn, access, group, groupLock, moves>>
      /\ roleLock = None /\ userLock[u] = None /\ request[h].phase = "asked"
  BY DEF LockRole, RequireAdmin, r
<1>3. IdentityTypeOK'
  BY <1>1, <1>2 DEF IInv, IdentityTypeOK, signIn, access
<1>4. request'[h] = r /\ \A j \in Requests : j # h => request'[j] = request[j]
  BY <1>2 DEF IInv, IdentityTypeOK
<1>5. InFlight'
  BY <1>1, <1>2, <1>4 DEF IInv, InFlight, signIn
<1>6. \A v \in Users : userLock'[v] = IF v = u THEN h ELSE userLock[v]
  BY <1>2 DEF IInv, IdentityTypeOK
<1>7. AdministratorRemains' /\ GroupsHaveAdminOwner'
  BY <1>2 DEF IInv, Management, AdministratorRemains, GroupsHaveAdminOwner, Accounts,
     Administrators
<1>8. RoleChange(h)'
  <2>1. role[u] # "none" /\ MayBecome(u, new)
    BY DEF LockRole, Accounts
  <2>2. role[u] = "admin" /\ new = "user" =>
          ~OwnsGroup(u) /\ \E v \in Users : v # u /\ role[v] = "admin"
    BY <2>1, AnotherAdministrator DEF MayBecome
  <2> QED BY <1>1, <1>2, <1>4, <1>6, <2>1, <2>2 DEF RoleChange, OwnsGroup
<1>9. \A j \in Requests : j # h => request'[j].phase # "role"
  BY <1>2, <1>4, NoneIsNothing DEF IInv, Management, RoleChange
<1>10. ASSUME NEW j \in Requests, request'[j].phase = "transfer" PROVE Transfer(j)'
  <2>1. j # h /\ request'[j] = request[j] /\ Transfer(j) /\ j # None
    BY <1>1, <1>4, <1>10, NoneIsNothing DEF IInv, Management
  <2> QED BY <1>2, <1>6, <2>1 DEF Transfer
<1>11. Management'
  BY <1>7, <1>8, <1>9, <1>10 DEF Management
<1> QED BY <1>2, <1>3, <1>5, <1>11, SignInsStay, CommandLinesStay, GrantsStay
        DEF IInv, signIn, access
LEMMA UpdateAccountRoleKeeps ==
  ASSUME IInv, NEW h \in Requests, UpdateAccountRole(h) PROVE IInv'
<1> DEFINE u == request[h].to new == request[h].role
<1>1. /\ RoleChange(h) /\ role' = [role EXCEPT ![u] = new]
      /\ Done(h) /\ Unlock(h) /\ UNCHANGED <<signIn, access, group, moves>>
  BY DEF UpdateAccountRole, IInv, Management
<1>2. /\ u \in Users /\ new \in {"user", "admin"} /\ role[u] # "none"
      /\ roleLock = h /\ userLock[u] = h
      /\ role[u] = "admin" /\ new = "user" =>
           ~OwnsGroup(u) /\ \E v \in Users : v # u /\ role[v] = "admin"
  BY <1>1 DEF RoleChange
<1>3. \A v \in Users : role'[v] = IF v = u THEN new ELSE role[v]
  BY <1>1 DEF IInv, IdentityTypeOK
<1>4. role' \in [Users -> {"none", "user", "admin"}]
  BY <1>1, <1>2 DEF IInv, IdentityTypeOK
<1>5. IdentityTypeOK'
  BY <1>1, <1>4, DoneKeeps, UnlockKeeps DEF IInv, IdentityTypeOK, signIn, access
<1>6. AdministratorRemains'
  <2>1. CASE new = "admin"
    BY <1>2, <1>3, <2>1 DEF AdministratorRemains, Administrators
  <2>2. CASE new = "user" /\ role[u] = "admin"
    BY <1>2, <1>3, <2>2 DEF AdministratorRemains, Administrators
  <2>3. CASE role[u] = "user"
    <3>1. PICK v \in Users : role[v] = "admin"
      BY <1>2, <2>3
         DEF IInv, Management, AdministratorRemains, Accounts, Administrators
    <3> QED BY <1>2, <1>3, <2>3, <3>1 DEF AdministratorRemains, Administrators
  <2> QED BY <1>2, <2>1, <2>2, <2>3 DEF IInv, IdentityTypeOK
<1>7. GroupsHaveAdminOwner'
  <2> SUFFICES ASSUME NEW g \in Groups, group[g] # None
               PROVE  /\ group[g].owner \in group[g].members
                      /\ role'[group[g].owner] = "admin" \/ group[g].late
    BY <1>1 DEF GroupsHaveAdminOwner
  <2>1. group[g].owner \in Users
    BY DEF IInv, IdentityTypeOK, Group
  <2>2. role[group[g].owner] = "admin" /\ group[g].owner = u => new # "user"
    BY <1>2 DEF OwnsGroup
  <2> QED BY <1>2, <1>3, <2>1, <2>2 DEF IInv, Management, GroupsHaveAdminOwner
<1>8. \A j \in Requests : j # h => request[j].phase # "role"
  BY <1>2 DEF IInv, Management, RoleChange
<1>9. ASSUME NEW j \in Requests, request'[j].phase = "transfer" PROVE Transfer(j)'
  <2>1. j # h /\ request'[j] = request[j] /\ KeepsLocks(j) /\ Transfer(j)
    BY <1>1, <1>9, DoneKeeps, UnlockKeeps DEF IInv, Management
  <2>2. request[j].to # u
    BY <1>2, <2>1 DEF Transfer
  <2> QED BY <1>1, <1>3, <2>1, <2>2 DEF Transfer, KeepsLocks
<1>10. Management'
  BY <1>1, <1>6, <1>7, <1>8, <1>9, DoneKeeps DEF Management
<1> QED BY <1>1, <1>5, <1>10, DoneKeeps, SignInsStay, CommandLinesStay, GrantsStay
        DEF IInv, signIn, access

LEMMA CreateGroupKeeps ==
  ASSUME IInv, NEW h \in Requests, NEW g \in Groups, NEW members \in SUBSET Users,
         CreateGroup(h, g, members)
  PROVE  IInv'
<1> DEFINE u == request[h].by
           new == [owner |-> u, members |-> members \cup {u}, late |-> role[u] # "admin"]
<1>1. /\ group' = [group EXCEPT ![g] = new] /\ group[g] = None
      /\ Done(h) /\ UNCHANGED <<role, signIn, access, locks, moves>>
      /\ u \in Users /\ userLock[u] = None
  BY DEF CreateGroup, RequireAdmin, Referable, IInv, InFlight
<1>2. /\ new \in Group /\ new.owner = u
      /\ new.members = members \cup {u} /\ (role[u] = "admin" \/ new.late)
  <2>1. CASE role[u] = "admin"
    <3>1. new = [owner |-> u, members |-> members \cup {u}, late |-> FALSE]
      BY <2>1, Zenon
    <3> HIDE DEF new
    <3> QED BY <1>1, <2>1, <3>1 DEF Group
  <2>2. CASE role[u] # "admin"
    <3>1. new = [owner |-> u, members |-> members \cup {u}, late |-> TRUE]
      BY <2>2, Zenon
    <3> HIDE DEF new
    <3> QED BY <1>1, <3>1 DEF Group
  <2> QED BY <2>1, <2>2
<1> HIDE DEF new
<1>3. IdentityTypeOK'
  BY <1>1, <1>2, DoneKeeps DEF IInv, IdentityTypeOK, signIn, access, locks
<1>4. \A f \in Groups : group'[f] = IF f = g THEN new ELSE group[f]
  BY <1>1 DEF IInv, IdentityTypeOK
<1>5. GroupsHaveAdminOwner'
  BY <1>1, <1>2, <1>4 DEF IInv, Management, GroupsHaveAdminOwner
<1>6. Management'
  BY <1>1, <1>2, <1>4, <1>5, NoneIsNothing, DoneKeeps, OthersKeep DEF KeepsLocks, locks
<1> QED BY <1>1, <1>3, <1>6, DoneKeeps, SignInsStay, CommandLinesStay, GrantsStay
        DEF IInv, signIn, access

LEMMA UpdateGroupKeeps ==
  ASSUME IInv, NEW h \in Requests, NEW g \in Groups, NEW members \in SUBSET Users,
         UpdateGroup(h, g, members)
  PROVE  IInv'
<1> DEFINE new == [group[g] EXCEPT !.members = members \cup {request[h].by}]
<1>1. /\ group[g] \in Group /\ group[g].owner = request[h].by /\ groupLock[g] = None
      /\ members \cup {request[h].by} \subseteq Users
  BY DEF UpdateGroup, RequireAdmin, Owns, IInv, InFlight, IdentityTypeOK
<1>2. /\ new \in Group /\ new.owner = group[g].owner /\ new.late = group[g].late
      /\ new.members = members \cup {request[h].by}
  BY <1>1 DEF Group
<1>3. group' = [group EXCEPT ![g] = new]
  BY DEF UpdateGroup
<1> HIDE DEF new
<1>4. Done(h) /\ UNCHANGED <<role, signIn, access, locks, moves>>
  BY DEF UpdateGroup
<1>5. IdentityTypeOK'
  BY <1>2, <1>3, <1>4, DoneKeeps DEF IInv, IdentityTypeOK, signIn, access, locks
<1>6. \A f \in Groups : group'[f] = IF f = g THEN new ELSE group[f]
  BY <1>3 DEF IInv, IdentityTypeOK
<1>7. group[g] # None
  BY <1>1, NoneIsNothing
<1>8. GroupsHaveAdminOwner'
  BY <1>1, <1>2, <1>4, <1>6, <1>7 DEF IInv, Management, GroupsHaveAdminOwner
<1>9. Management'
  BY <1>1, <1>2, <1>4, <1>6, <1>7, <1>8, DoneKeeps, OthersKeep DEF KeepsLocks, locks
<1> QED BY <1>4, <1>5, <1>9, DoneKeeps, SignInsStay, CommandLinesStay, GrantsStay
        DEF IInv, signIn, access

LEMMA LockTransferKeeps ==
  ASSUME IInv, NEW h \in Requests, NEW g \in Groups, NEW u \in Users,
         LockTransfer(h, g, u)
  PROVE  IInv'
<1> DEFINE R == [phase : {"idle", "asked", "role", "transfer"}, by : Users \cup {None},
                 to : Users \cup {None}, role : {"none", "user", "admin"},
                 group : Groups \cup {None}]
           r == [request[h] EXCEPT !.phase = "transfer", !.to = u, !.group = g]
<1>1. request[h] \in R
  BY DEF IInv, IdentityTypeOK
<1>2. /\ r \in R /\ r.phase = "transfer" /\ r.by = request[h].by /\ r.to = u
      /\ r.group = g
  BY <1>1
<1>3. /\ request' = [request EXCEPT ![h] = r]
      /\ groupLock' = [groupLock EXCEPT ![g] = h]
      /\ userLock' = [userLock EXCEPT ![u] = h]
      /\ UNCHANGED <<role, signIn, access, group, roleLock, moves>>
      /\ userLock[u] = None /\ groupLock[g] = None /\ request[h].phase = "asked"
      /\ role[u] = "admin" /\ group[g] # None /\ u \in group[g].members
  BY DEF LockTransfer, RequireAdmin, Owns
<1> HIDE DEF r
<1>4. IdentityTypeOK'
  BY <1>2, <1>3 DEF IInv, IdentityTypeOK, signIn, access
<1> HIDE DEF R
<1>5. request'[h] = r /\ \A j \in Requests : j # h => request'[j] = request[j]
  BY <1>3 DEF IInv, IdentityTypeOK
<1>6. InFlight'
  BY <1>2, <1>3, <1>5 DEF IInv, InFlight, signIn
<1>7. /\ \A v \in Users : userLock'[v] = IF v = u THEN h ELSE userLock[v]
      /\ \A f \in Groups : groupLock'[f] = IF f = g THEN h ELSE groupLock[f]
  BY <1>3 DEF IInv, IdentityTypeOK
<1>8. AdministratorRemains' /\ GroupsHaveAdminOwner'
  BY <1>3 DEF IInv, Management, AdministratorRemains, GroupsHaveAdminOwner, Accounts,
     Administrators
<1>9. ASSUME NEW j \in Requests, request'[j].phase = "role" PROVE RoleChange(j)'
  <2>1. j # h /\ request'[j] = request[j] /\ RoleChange(j) /\ j # None
    BY <1>2, <1>5, <1>9, NoneIsNothing DEF IInv, Management
  <2> QED BY <1>3, <1>7, <2>1 DEF RoleChange, OwnsGroup
<1>10. ASSUME NEW j \in Requests, request'[j].phase = "transfer" PROVE Transfer(j)'
  <2>1. CASE j = h
    BY <1>2, <1>3, <1>5, <1>7, <2>1 DEF Transfer
  <2>2. CASE j # h
    <3>1. request'[j] = request[j] /\ Transfer(j) /\ j # None
      BY <1>5, <1>10, <2>2, NoneIsNothing DEF IInv, Management
    <3> QED BY <1>3, <1>7, <3>1 DEF Transfer
  <2> QED BY <2>1, <2>2
<1>11. Management'
  BY <1>8, <1>9, <1>10 DEF Management
<1> QED BY <1>3, <1>4, <1>6, <1>11, SignInsStay, CommandLinesStay, GrantsStay
        DEF IInv, signIn, access

LEMMA TransferGroupOwnerKeeps ==
  ASSUME IInv, NEW h \in Requests, TransferGroupOwner(h) PROVE IInv'
<1> DEFINE g == request[h].group u == request[h].to
           new == [group[g] EXCEPT !.owner = u, !.late = FALSE]
<1>1. Transfer(h) /\ g \in Groups /\ u \in Users
  BY DEF TransferGroupOwner, IInv, Management, Transfer
<1>2. group[g] \in Group /\ userLock[u] = h /\ groupLock[g] = h
  BY <1>1 DEF Transfer, IInv, IdentityTypeOK
<1>3. /\ new \in Group /\ new.owner = u /\ new.members = group[g].members
      /\ new.late = FALSE
  BY <1>1, <1>2 DEF Group
<1>4. /\ group' = [group EXCEPT ![g] = new] /\ Done(h) /\ Unlock(h)
      /\ UNCHANGED <<role, signIn, access, moves>>
  BY DEF TransferGroupOwner
<1> HIDE DEF new
<1>5. IdentityTypeOK'
  BY <1>3, <1>4, DoneKeeps, UnlockKeeps DEF IInv, IdentityTypeOK, signIn, access
<1>6. \A f \in Groups : group'[f] = IF f = g THEN new ELSE group[f]
  BY <1>4 DEF IInv, IdentityTypeOK
<1>7. GroupsHaveAdminOwner'
  BY <1>1, <1>3, <1>4, <1>6 DEF IInv, Management, Transfer, GroupsHaveAdminOwner
<1>8. Management'
  BY <1>2, <1>3, <1>4, <1>6, <1>7, DoneKeeps, UnlockKeeps, OthersKeep
<1> QED BY <1>4, <1>5, <1>8, DoneKeeps, SignInsStay, CommandLinesStay, GrantsStay
        DEF IInv, signIn, access

LEMMA DeleteGroupKeeps ==
  ASSUME IInv, NEW h \in Requests, NEW g \in Groups, DeleteGroup(h, g) PROVE IInv'
<1>1. /\ group' = [group EXCEPT ![g] = None] /\ groupLock[g] = None
      /\ grant' = [r \in Resources |-> grant[r] \ {g}] /\ Done(h)
      /\ UNCHANGED <<role, signIn, token, owner, use, locks, moves>>
  BY DEF DeleteGroup, Owns
<1>2. IdentityTypeOK'
  BY <1>1, DoneKeeps DEF IInv, IdentityTypeOK, signIn, locks
<1>3. \A f \in Groups : group'[f] = IF f = g THEN None ELSE group[f]
  BY <1>1 DEF IInv, IdentityTypeOK
<1>4. GroupsHaveAdminOwner'
  BY <1>1, <1>3 DEF IInv, Management, GroupsHaveAdminOwner
<1>5. Management'
  BY <1>1, <1>3, <1>4, DoneKeeps, OthersKeep DEF KeepsLocks, locks
<1>6. Grants'
  BY <1>1 DEF IInv, Grants
<1> QED BY <1>1, <1>2, <1>5, <1>6, DoneKeeps, SignInsStay, CommandLinesStay
        DEF IInv, signIn

LEMMA UpdateRepositoryGroupAccessKeeps ==
  ASSUME IInv, NEW h \in Requests, NEW r \in Resources, NEW groups \in SUBSET Groups,
         UpdateRepositoryGroupAccess(h, r, groups)
  PROVE  IInv'
<1>1. /\ owner[r] # None /\ grant' = [grant EXCEPT ![r] = groups] /\ Done(h)
      /\ UNCHANGED <<role, signIn, token, owner, use, group, locks, moves>>
  BY DEF UpdateRepositoryGroupAccess
<1>2. IdentityTypeOK'
  BY <1>1, DoneKeeps DEF IInv, IdentityTypeOK, signIn, locks
<1>3. GroupsHaveAdminOwner'
  BY <1>1 DEF IInv, Management, GroupsHaveAdminOwner
<1>4. Management'
  BY <1>1, <1>3, DoneKeeps, OthersKeep DEF KeepsLocks, locks
<1>5. Grants'
  BY <1>1 DEF IInv, IdentityTypeOK, Grants
<1> QED BY <1>1, <1>2, <1>4, <1>5, DoneKeeps, SignInsStay, CommandLinesStay
        DEF IInv, signIn

-----------------------------------------------------------------------------

LEMMA NextKeeps == ASSUME IInv, [Next]_vars PROVE IInv'
<1>1. CASE UNCHANGED vars
  <2>1. IdentityTypeOK'
    BY <1>1 DEF IInv, IdentityTypeOK, vars, signIn, access, locks
  <2> QED BY <1>1, <2>1, SignInsStay, CommandLinesStay, InFlightStays, ManagementStays,
             GrantsStay DEF IInv, vars, signIn, access
<1>2. CASE SignIn
  BY <1>2, LoginKeeps, ExpireStateKeeps, CallbackKeeps, VerifyIdTokenKeeps,
     StoreSessionKeeps, EndSessionKeeps DEF SignIn
<1>3. CASE CommandLine
  BY <1>3, StartAuthSessionKeeps, ExpireClientKeeps, GetAuthSessionKeeps, SellKeeps
     DEF CommandLine
<1>4. CASE Access
  <2> SUFFICES ASSUME NEW u \in Users,
                      \/ UserAccessToken(u) \/ ExpireTokens(u)
                      \/ \E r \in Resources :
                           \/ ExchangeToken(u, r) \/ CheckUserPermission(u, r)
                           \/ CreateResource(u, r) \/ DeleteResource(u, r)
               PROVE  IInv'
    BY <1>4 DEF Access
  <2> QED BY AccessKeeps, ResourceKeeps
<1>5. ASSUME NEW h \in Requests, Manage(h) PROVE IInv'
  BY <1>5, UpdateAccountRoleKeeps, TransferGroupOwnerKeeps, RefuseKeeps,
     AuthenticateKeeps, LockRoleKeeps, LockTransferKeeps, DeleteGroupKeeps,
     CreateGroupKeeps, UpdateGroupKeeps, UpdateRepositoryGroupAccessKeeps DEF Manage
<1> QED BY <1>1, <1>2, <1>3, <1>4, <1>5 DEF Next

LEMMA Invariant == Spec => []IInv
<1>1. IInv /\ [Next]_vars => IInv'
  BY NextKeeps
<1> QED BY <1>1, InitIInv, PTL DEF Spec

-----------------------------------------------------------------------------
(* What a reader should know of. *)

\* The variables keep their types, whoever signs in and manages at once.
THEOREM TypeCorrect == Spec => []IdentityTypeOK
<1>1. IInv => IdentityTypeOK
  BY DEF IInv
<1> QED BY <1>1, Invariant, PTL

\* There is an administrator as long as there are accounts, however many
\* administrators demote each other and however many first sign-ins race.
THEOREM AnAdministratorRemains == Spec => []AdministratorRemains
<1>1. IInv => AdministratorRemains
  BY DEF IInv, Management
<1> QED BY <1>1, Invariant, PTL

\* Groups are owned by administrators who are members, except those that were
\* created by the request of an administrator who had just been demoted.
THEOREM AdministratorsOwnGroups == Spec => []GroupsHaveAdminOwner
<1>1. IInv => GroupsHaveAdminOwner
  BY DEF IInv, Management
<1> QED BY <1>1, Invariant, PTL

\* A sign-in state makes one session at most, and the tokens of a command line
\* sign-in are all for one user.
THEOREM SignInsAreUsedOnce == Spec => []SignInsAreSingleUse
<1>1. ASSUME IInv PROVE SignInsAreSingleUse
  <2>1. ASSUME NEW k \in Clients PROVE Cardinality(sold[k]) < 2
    <3>1. CASE sold[k] = {}
      BY <3>1, FS_EmptySet
    <3>2. CASE sold[k] # {}
      <4>1. PICK u : u \in sold[k]
        BY <3>2
      <4>2. sold[k] = {u}
        BY <1>1, <4>1 DEF IInv, CommandLines
      <4>3. Cardinality({u}) = 1
        BY FS_Singleton
      <4> QED BY <4>2, <4>3
    <3> QED BY <3>1, <3>2
  <2> QED BY <1>1, <2>1 DEF IInv, SignIns, SignInsAreSingleUse
<1> QED BY <1>1, Invariant, PTL

\* Whoever uses a repository has access to it at that moment, and a repository
\* that does not exist is open to no group.
THEOREM AccessStaysLive == Spec => AccessIsLive
<1> DEFINE Closed == \A r \in Resources : owner[r] = None => grant[r] = {}
           Live == use' # use => CanAccess(use'[1], use'[2])
<1>1. IInv => Closed
  BY DEF IInv, Grants
<1>2. [Next]_vars => [Live]_vars
  <2> SUFFICES ASSUME Next, use' # use PROVE CanAccess(use'[1], use'[2])
    BY DEF vars
  <2>1. PICK u \in Users, r \in Resources : CheckUserPermission(u, r)
    <3>1. CASE SignIn
      BY <3>1 DEF SignIn, Login, ExpireState, VerifyIdToken, StoreSession, Callback,
         EndSession, access
    <3>2. CASE CommandLine
      BY <3>2 DEF CommandLine, StartAuthSession, ExpireClient, Sell, GetAuthSession, access
    <3>3. CASE Access
      BY <3>3 DEF Access, UserAccessToken, ExpireTokens, ExchangeToken, CreateResource,
         DeleteResource, access
    <3>4. ASSUME NEW h \in Requests, Manage(h) PROVE UNCHANGED use
      BY <3>4 DEF Manage, UpdateAccountRole, TransferGroupOwner, Refuse, Authenticate,
         LockRole, LockTransfer, DeleteGroup, CreateGroup, UpdateGroup,
         UpdateRepositoryGroupAccess, access
    <3> QED BY <3>1, <3>2, <3>3, <3>4 DEF Next
  <2>2. use' = <<u, r>> /\ CanAccess(u, r)
    BY <2>1 DEF CheckUserPermission
  <2> QED BY <2>2
<1> QED BY <1>1, <1>2, Invariant, PTL DEF Spec, AccessIsLive

-----------------------------------------------------------------------------
(* Locks are given back. *)

\* Who holds a lock is about to change the role, or to transfer the group, that
\* it has locked: nothing keeps it, since UpdateAccountRole and
\* TransferGroupOwner wait for nobody.
LocksAreLive ==
  \A h \in Requests :
    /\ roleLock = h => request[h].phase = "role"
    /\ \A u \in Users : userLock[u] = h =>
         request[h].phase \in {"role", "transfer"} /\ request[h].to = u
    /\ \A g \in Groups : groupLock[g] = h =>
         request[h].phase = "transfer" /\ request[h].group = g

LEMMA UnlockLive ==
  ASSUME IInv, LocksAreLive, NEW h \in Requests, Done(h), Unlock(h) PROVE LocksAreLive'
<1>1. \A j \in Requests : j # h => request'[j] = request[j]
  BY DoneKeeps
<1>2. /\ roleLock' = IF roleLock = h THEN None ELSE roleLock
      /\ \A u \in Users : userLock'[u] = IF userLock[u] = h THEN None ELSE userLock[u]
      /\ \A g \in Groups : groupLock'[g] = IF groupLock[g] = h THEN None ELSE groupLock[g]
  BY DEF Unlock
<1>3. \A j \in Requests : j # None
  BY NoneIsNothing
<1>4. ASSUME NEW j \in Requests
      PROVE  /\ roleLock' = j => j # h /\ roleLock = j
             /\ \A u \in Users : userLock'[u] = j => j # h /\ userLock[u] = j
             /\ \A g \in Groups : groupLock'[g] = j => j # h /\ groupLock[g] = j
  BY <1>2, <1>3
<1> QED BY <1>1, <1>4 DEF LocksAreLive

\* A request that has just been let in, or that is done, held nothing.
LEMMA DoneLive ==
  ASSUME IInv, LocksAreLive, NEW h \in Requests,
         request[h].phase \in {"idle", "asked"}, UNCHANGED locks,
         \A j \in Requests : j # h => request'[j] = request[j]
  PROVE  LocksAreLive'
<1>1. roleLock # h /\ (\A u \in Users : userLock[u] # h) /\ \A g \in Groups : groupLock[g] # h
  BY DEF LocksAreLive
<1> QED BY <1>1 DEF LocksAreLive, locks

LEMMA LockRoleLive ==
  ASSUME IInv, LocksAreLive, NEW h \in Requests, NEW u \in Users,
         NEW new \in {"user", "admin"}, LockRole(h, u, new)
  PROVE  LocksAreLive'
<1>1. /\ request[h].phase = "asked" /\ roleLock = None /\ userLock[u] = None
      /\ roleLock' = h /\ userLock' = [userLock EXCEPT ![u] = h] /\ groupLock' = groupLock
      /\ request' = [request EXCEPT ![h] = [@ EXCEPT !.phase = "role", !.to = u, !.role = new]]
  BY DEF LockRole, RequireAdmin
<1>2. request'[h].phase = "role" /\ request'[h].to = u
  BY <1>1 DEF IInv, IdentityTypeOK
<1>3. \A j \in Requests : j # h => request'[j] = request[j]
  BY <1>1 DEF IInv, IdentityTypeOK
<1>4. \A v \in Users : userLock'[v] = IF v = u THEN h ELSE userLock[v]
  BY <1>1 DEF IInv, IdentityTypeOK
<1>5. (\A v \in Users : userLock[v] # h) /\ \A g \in Groups : groupLock[g] # h
  BY <1>1 DEF LocksAreLive
<1> QED BY <1>1, <1>2, <1>3, <1>4, <1>5 DEF LocksAreLive

LEMMA LockTransferLive ==
  ASSUME IInv, LocksAreLive, NEW h \in Requests, NEW g \in Groups, NEW u \in Users,
         LockTransfer(h, g, u)
  PROVE  LocksAreLive'
<1>1. /\ request[h].phase = "asked" /\ userLock[u] = None
      /\ groupLock' = [groupLock EXCEPT ![g] = h] /\ userLock' = [userLock EXCEPT ![u] = h]
      /\ request' = [request EXCEPT ![h] = [@ EXCEPT !.phase = "transfer", !.to = u,
                                                    !.group = g]]
      /\ roleLock' = roleLock
  BY DEF LockTransfer, RequireAdmin
<1>2. request'[h].phase = "transfer" /\ request'[h].to = u /\ request'[h].group = g
  BY <1>1 DEF IInv, IdentityTypeOK
<1>3. \A j \in Requests : j # h => request'[j] = request[j]
  BY <1>1 DEF IInv, IdentityTypeOK
<1>4. /\ \A v \in Users : userLock'[v] = IF v = u THEN h ELSE userLock[v]
      /\ \A f \in Groups : groupLock'[f] = IF f = g THEN h ELSE groupLock[f]
  BY <1>1 DEF IInv, IdentityTypeOK
<1>5. /\ roleLock # h
      /\ (\A v \in Users : userLock[v] # h) /\ \A f \in Groups : groupLock[f] # h
  BY <1>1 DEF LocksAreLive
<1> QED BY <1>1, <1>2, <1>3, <1>4, <1>5 DEF LocksAreLive

LEMMA ManageLive ==
  ASSUME IInv, LocksAreLive, NEW h \in Requests, Manage(h) PROVE LocksAreLive'
<1>1. CASE UpdateAccountRole(h) \/ TransferGroupOwner(h) \/ Refuse(h)
  BY <1>1, UnlockLive DEF UpdateAccountRole, TransferGroupOwner, Refuse
<1>2. ASSUME NEW u \in Users, Authenticate(h, u) PROVE LocksAreLive'
  <2>1. \A j \in Requests : j # h => request'[j] = request[j]
    BY <1>2 DEF Authenticate, IInv, IdentityTypeOK
  <2> QED BY <1>2, <2>1, DoneLive DEF Authenticate
<1>3. ASSUME request[h].phase = "asked", Done(h), UNCHANGED locks PROVE LocksAreLive'
  BY <1>3, DoneKeeps, DoneLive
<1>4. ASSUME NEW g \in Groups, DeleteGroup(h, g) PROVE LocksAreLive'
  BY <1>3, <1>4 DEF DeleteGroup, RequireAdmin
<1>5. ASSUME NEW g \in Groups, NEW members \in SUBSET Users,
             CreateGroup(h, g, members) \/ UpdateGroup(h, g, members)
      PROVE  LocksAreLive'
  BY <1>3, <1>5 DEF CreateGroup, UpdateGroup, RequireAdmin
<1>6. ASSUME NEW r \in Resources, NEW groups \in SUBSET Groups,
             UpdateRepositoryGroupAccess(h, r, groups)
      PROVE  LocksAreLive'
  BY <1>3, <1>6 DEF UpdateRepositoryGroupAccess
<1> QED BY <1>1, <1>2, <1>4, <1>5, <1>6, LockRoleLive, LockTransferLive DEF Manage

LEMMA NextLive == ASSUME IInv, LocksAreLive, [Next]_vars PROVE LocksAreLive'
<1>1. ASSUME UNCHANGED <<request, locks>> PROVE LocksAreLive'
  BY <1>1 DEF LocksAreLive, locks
<1>2. CASE UNCHANGED vars
  BY <1>1, <1>2 DEF vars
<1>3. CASE SignIn
  BY <1>1, <1>3 DEF SignIn, Login, ExpireState, VerifyIdToken, StoreSession, Callback,
     EndSession
<1>4. CASE CommandLine
  BY <1>1, <1>4 DEF CommandLine, StartAuthSession, ExpireClient, Sell, GetAuthSession
<1>5. CASE Access
  BY <1>1, <1>5 DEF Access, UserAccessToken, ExpireTokens, ExchangeToken,
     CheckUserPermission, CreateResource, DeleteResource
<1> QED BY <1>2, <1>3, <1>4, <1>5, ManageLive DEF Next

\* No lock of the roles, of an account or of a group is left behind, however
\* requests are refused, fail or lose their client: whoever holds one can end at
\* once, so that two administrators cannot wait for each other.
THEOREM LocksAreReleased == Spec => []LocksAreLive
<1>1. Init => LocksAreLive
  BY NoneIsNothing DEF Init, LocksAreLive
<1>2. IInv /\ LocksAreLive /\ [Next]_vars => LocksAreLive'
  BY NextLive
<1> QED BY <1>1, <1>2, Invariant, PTL DEF Spec
=============================================================================
