--------------------------- MODULE RepositoryLinks ---------------------------
(* Links between repositories.  A repository (its one branch) links to a   *)
(* source repository at a path and pins a revision of it.  Lore holds the  *)
(* links; the database holds an index of them, the graph of dependencies   *)
(* that the check for cycles reads, and a policy per link.  Operations add *)
(* links and may be retried; the watch of a repository refreshes its index *)
(* and updates the pins of the repositories that link to it; users push,   *)
(* update and remove links and switch policies.  Attempts and watches hold *)
(* an advisory lock of the root's branch and one of the whole graph.       *)
EXTENDS Naturals

CONSTANTS
  Repos,         \* repositories
  Paths,         \* link paths
  Below,         \* pairs <<p, q>> of paths with p inside q
  Ops,           \* identifiers of link operations
  Attempts,      \* attempts that can be in flight: pairs <<operation, n>>
  Plans,         \* what the operations may ask for: functions of Ops, None for nothing
  Coordinators,  \* processes that watch repositories
  MaxMoves,      \* bound on the requests of users and the faults
  None           \* no link, no index, no holder of a lock

RequestType ==
  [root : Repos, source : Repos, path : Paths, auto : BOOLEAN, create : BOOLEAN]
ASSUME MovesAreBounded == MaxMoves \in Nat
ASSUME NoneIsNothing ==
  None \notin Attempts \cup Coordinators \cup [source : Repos, pin : Nat] \cup RequestType
ASSUME AttemptsOfOperations == Attempts \subseteq Ops \X Nat
ASSUME HoldersDiffer == Attempts \cap Coordinators = {}

ASSUME PlansAreRequests == Plans \subseteq [Ops -> RequestType \cup {None}]
\* A repository cannot link to itself: such requests are refused at once.
ASSUME NoSelfRequests ==
  \A f \in Plans, o \in Ops : f[o] # None => f[o].root # f[o].source

VARIABLES
  lore,        \* per repository: head revision, links at the head, source folder
  index,       \* per repository: the indexed revision and links, or None
  auto,        \* per link: is it updated automatically (no policy: it is)
  request,     \* what each operation asks for
  op,          \* repository_link_operations
  try,         \* the attempts in flight
  branchLock,  \* per repository: who holds its branch lock
  graphLock,   \* who holds the graph lock
  job,         \* what each coordinator's watch is doing
  moves        \* requests of users and faults so far

vars == <<lore, index, auto, request, op, try, branchLock, graphLock, job, moves>>

Link == [source : Repos, pin : Nat]
LinkTable == [Paths -> Link \cup {None}]
NoLinks == [p \in Paths |-> None]

\* Refreshes of the expected revision after the source folder was pushed.
MaxRereads == 2

Idle == [phase |-> "idle", ready |-> FALSE, retry |-> FALSE, base |-> 0, at |-> 0,
         links |-> NoLinks, made |-> FALSE, pin |-> 0, rereads |-> 0]
Free == [phase |-> "idle", repo |-> None, rev |-> 0, links |-> NoLinks,
         root |-> None, paths |-> {}, pushed |-> FALSE]

Root(a) == request[a[1]].root
Source(a) == request[a[1]].source
Path(a) == request[a[1]].path

Init ==
  /\ lore = [r \in Repos |-> [rev |-> 0, links |-> NoLinks, folder |-> FALSE]]
  /\ index = [r \in Repos |-> None]
  /\ auto = [r \in Repos |-> [p \in Paths |-> TRUE]]
  /\ request \in Plans
  /\ op = [o \in Ops |-> [status |-> "none", ready |-> FALSE, taken |-> FALSE]]
  /\ try = [a \in Attempts |-> Idle]
  /\ branchLock = [r \in Repos |-> None]
  /\ graphLock = None
  /\ job = [k \in Coordinators |-> Free]
  /\ moves = 0

-----------------------------------------------------------------------------
(* The graph of dependencies. *)

Linked(links) == {p \in Paths : links[p] # None}
Sources(links) == {links[p].source : p \in Linked(links)}

\* The repositories that the index says r depends on.
Upstream(r) == IF index[r] = None THEN {} ELSE Sources(index[r].links)

\* dependency_reaches: t is s or is upstream of s in the index.
Reaches(s, t) ==
  \A S \in SUBSET Repos :
    (s \in S /\ \A r \in S : Upstream(r) \subseteq S) => t \in S

\* Mutant: the source's links are taken from the index only.
WouldCycleIndexed(root, source) == Reaches(source, root)

\* link_would_cycle: from the source and from its live links.
WouldCycle(root, source) ==
  \E up \in {source} \cup Sources(lore[source].links) : Reaches(up, root)

\* A request of a user, or a fault: both are bounded.
Moved == moves < MaxMoves /\ moves' = moves + 1

Release(h) ==
  /\ branchLock' = [r \in Repos |-> IF branchLock[r] = h THEN None ELSE branchLock[r]]
  /\ graphLock' = IF graphLock = h THEN None ELSE graphLock

Moves(table, paths, rev) ==
  [p \in Paths |-> IF p \in paths THEN [table[p] EXCEPT !.pin = rev] ELSE table[p]]

\* A push to repository r, whose links become "links".
Pushed(r, links) == [lore EXCEPT ![r] = [@ EXCEPT !.rev = lore[r].rev + 1, !.links = links]]

-----------------------------------------------------------------------------
(* Operations that add a link. *)

\* POST of a new operation, by a client that knows the root's head.
Create(a) ==
  /\ request[a[1]] # None /\ op[a[1]].status = "none" /\ try[a].phase = "idle"
  /\ op' = [op EXCEPT ![a[1]].status = "running"]
  /\ try' = [try EXCEPT ![a] = [@ EXCEPT !.phase = "start", !.base = lore[Root(a)].rev]]
  /\ UNCHANGED <<lore, index, auto, request, branchLock, graphLock, job, moves>>

InFlight(o) == {a \in Attempts : a[1] = o /\ try[a].phase # "idle"}

\* Mutant: a retry of a succeeded operation is claimed, too.
RetryAny(a) ==
  /\ Moved /\ op[a[1]].status # "none" /\ try[a].phase = "idle"
  /\ op' = [op EXCEPT ![a[1]] = [@ EXCEPT !.status = "running",
       !.taken = op[a[1]].taken \/ InFlight(a[1]) # {}]]
  /\ try' = [try EXCEPT ![a] = [@ EXCEPT !.phase = "start", !.retry = TRUE]]
  /\ UNCHANGED <<lore, index, auto, request, branchLock, graphLock, job>>

\* A retry claims an operation that failed, or that runs and was not touched
\* for half an hour: its attempt is gone, or has waited for so long.  The
\* source was ready or not when the row was read, before the claim.
Retry(a) ==
  /\ Moved /\ op[a[1]].status \in {"failed", "partial", "running"} /\ try[a].phase = "idle"
  /\ op' = [op EXCEPT ![a[1]] = [@ EXCEPT !.status = "running",
       !.taken = op[a[1]].taken \/ InFlight(a[1]) # {}]]
  /\ \E ready \in {op[a[1]].ready, FALSE} :
       try' = [try EXCEPT ![a] =
         [@ EXCEPT !.phase = "start", !.ready = ready, !.retry = TRUE]]
  /\ UNCHANGED <<lore, index, auto, request, branchLock, graphLock, job>>

\* First the root's branch, then the graph: whoever takes both does so in
\* this order, and an attempt that waits for the graph does nothing else.
Lock(a) ==
  /\ try[a].phase = "start" /\ branchLock[Root(a)] = None /\ graphLock = None
  /\ branchLock' = [branchLock EXCEPT ![Root(a)] = a]
  /\ graphLock' = a
  /\ try' = [try EXCEPT ![a].phase = "check"]
  /\ UNCHANGED <<lore, index, auto, request, op, job, moves>>

\* An attempt that ends gives its locks back, and records its outcome later.
End(a, outcome) ==
  /\ try' = [try EXCEPT ![a] = [Idle EXCEPT !.phase = outcome]]
  /\ Release(a)

SavePolicy(a) ==
  auto' = [auto EXCEPT ![Root(a)][Path(a)] = request[a[1]].auto]

Taken(a) == lore[Root(a)].links[Path(a)] # None

\* The link is there already: a retry whose source was ready accepts it.
AcceptExisting(a) ==
  /\ try[a].phase = "check" /\ Taken(a)
  /\ IF try[a].ready /\ lore[Root(a)].links[Path(a)].source = Source(a)
     THEN SavePolicy(a) /\ End(a, "won")
     ELSE End(a, "lost") /\ UNCHANGED auto
  /\ UNCHANGED <<lore, index, request, op, job, moves>>

Refused(a) ==
  LET head == lore[Root(a)] IN
  \/ \E q \in Linked(head.links) : <<Path(a), q>> \in Below
  \/ ~try[a].retry /\ head.rev # try[a].base
  \/ WouldCycle(Root(a), Source(a))

Check(a) ==
  /\ try[a].phase = "check" /\ ~Taken(a)
  /\ IF Refused(a)
     THEN End(a, "lost")
     ELSE /\ try' = [try EXCEPT ![a] = [@ EXCEPT
               !.phase = "prepare", !.base = lore[Root(a)].rev,
               !.at = lore[Root(a)].rev, !.links = lore[Root(a)].links]]
          /\ UNCHANGED <<branchLock, graphLock>>
  /\ UNCHANGED <<lore, index, auto, request, op, job, moves>>

Missing(a) == ~lore[Source(a)].folder
MayMake(a) == request[a[1]].create /\ ~try[a].ready

\* The source's folder is there, or is pushed to the source, before the
\* operation is marked as ready for its root.
Prepare(a) ==
  LET s == Source(a)
      heads == IF Missing(a)
               THEN [lore EXCEPT ![s] = [@ EXCEPT !.folder = TRUE, !.rev = lore[s].rev + 1]]
               ELSE lore IN
  /\ try[a].phase = "prepare" /\ (Missing(a) => MayMake(a))
  /\ lore' = heads
  /\ \/ /\ op' = [op EXCEPT ![a[1]].ready = TRUE]
        /\ try' = [try EXCEPT ![a] = [@ EXCEPT
             !.phase = "push", !.made = Missing(a), !.pin = heads[s].rev]]
        /\ UNCHANGED <<branchLock, graphLock>>
     \/ \* the push was applied, its answer was lost
        /\ Missing(a) /\ End(a, "lost") /\ UNCHANGED op
  /\ UNCHANGED <<index, auto, request, job, moves>>

\* Links of the same source are brought to its head before one is added.
Behind(a) ==
  {p \in Linked(lore[Root(a)].links) :
     /\ lore[Root(a)].links[p].source = Source(a)
     /\ lore[Root(a)].links[p].pin # lore[Source(a)].rev}

\* Those at the operation's own pin are skipped until the first one moves.
AtOwnPin(a) == {p \in Behind(a) : lore[Root(a)].links[p].pin = try[a].pin}

Updatable(a) ==
  {S \in SUBSET Behind(a) : Behind(a) \ AtOwnPin(a) \subseteq S
                           /\ (S \subseteq AtOwnPin(a) => S = {})}

NewLinks(a, paths) ==
  LET head == lore[Source(a)].rev
      pin == IF paths = {} THEN try[a].pin ELSE head IN
  [Moves(lore[Root(a)].links, paths, head)
     EXCEPT ![Path(a)] = [source |-> Source(a), pin |-> pin]]

PushLink(a) ==
  /\ try[a].phase = "push" /\ try[a].at = lore[Root(a)].rev
  /\ \E paths \in Updatable(a) : lore' = Pushed(Root(a), NewLinks(a, paths))
  /\ try' = [try EXCEPT ![a].phase = "commit"]
  /\ UNCHANGED <<index, auto, request, op, branchLock, graphLock, job, moves>>

\* Mutant: the head is read again without end.
RereadForever(a) ==
  /\ try[a].phase = "push" /\ try[a].at # lore[Root(a)].rev /\ try[a].made
  /\ try' = [try EXCEPT ![a] = [@ EXCEPT
         !.at = lore[Root(a)].rev, !.rereads = try[a].rereads + 1]]
  /\ UNCHANGED <<lore, index, auto, request, op, branchLock, graphLock, job, moves>>

\* The root moved: the head is read again only if the source was pushed.
Reread(a) ==
  /\ try[a].phase = "push" /\ try[a].at # lore[Root(a)].rev
  /\ IF try[a].made /\ try[a].rereads < MaxRereads
     THEN /\ try' = [try EXCEPT ![a] = [@ EXCEPT
               !.at = lore[Root(a)].rev, !.rereads = try[a].rereads + 1]]
          /\ UNCHANGED <<branchLock, graphLock>>
     ELSE End(a, "lost")
  /\ UNCHANGED <<lore, index, auto, request, op, job, moves>>

\* The new edge is published, at the revision that was the head before it.
Commit(a) ==
  /\ try[a].phase = "commit"
  /\ SavePolicy(a)
  /\ index' = [index EXCEPT ![Root(a)] =
       [rev |-> try[a].base,
        links |-> [try[a].links EXCEPT ![Path(a)] =
                     [source |-> Source(a), pin |-> try[a].pin]]]]
  /\ End(a, "won")
  /\ UNCHANGED <<lore, request, op, job, moves>>

Record(a) ==
  /\ try[a].phase \in {"won", "lost"}
  /\ op' = [op EXCEPT ![a[1]].status =
       IF try[a].phase = "won" THEN "succeeded"
       ELSE IF op[a[1]].ready THEN "partial" ELSE "failed"]
  /\ try' = [try EXCEPT ![a] = Idle]
  /\ UNCHANGED <<lore, index, auto, request, branchLock, graphLock, job, moves>>

\* A command, a query or a check of access fails, or the answer of a push
\* that was applied is lost.
Fail(a) ==
  /\ Moved /\ try[a].phase \in {"start", "check", "prepare", "push", "commit"}
  /\ End(a, "lost")
  /\ UNCHANGED <<lore, index, auto, request, op, job>>

\* The coordinator stops or the client hangs up: nothing is recorded.
Abandon(a) ==
  /\ Moved /\ try[a].phase # "idle"
  /\ try' = [try EXCEPT ![a] = Idle]
  /\ Release(a)
  /\ UNCHANGED <<lore, index, auto, request, op, job>>

-----------------------------------------------------------------------------
(* The watch of a repository. *)

Observe(k, r) ==
  /\ job[k].phase = "idle"
  /\ job' = [job EXCEPT ![k] = [Free EXCEPT !.phase = "index", !.repo = r,
                                  !.rev = lore[r].rev, !.links = lore[r].links]]
  /\ UNCHANGED <<lore, index, auto, request, op, try, branchLock, graphLock, moves>>

Indexed(r, rev) == index[r] # None /\ index[r].rev = rev

\* Mutant: the observed links are written as those of the present head.
IndexBranchAtHead(k) ==
  LET r == job[k].repo IN
  /\ job[k].phase = "index"
  /\ job' = [job EXCEPT ![k] = [@ EXCEPT !.phase = "spread", !.links = NoLinks]]
  /\ index' = [index EXCEPT ![r] = [rev |-> lore[r].rev, links |-> job[k].links]]
  /\ UNCHANGED <<lore, auto, request, op, try, branchLock, graphLock, moves>>

\* The index takes the links of the observed revision, or is left alone: the
\* branch is locked, the revision is indexed, or the checkout failed.
IndexBranch(k) ==
  LET r == job[k].repo IN
  /\ job[k].phase = "index"
  /\ job' = [job EXCEPT ![k] = [@ EXCEPT !.phase = "spread", !.links = NoLinks]]
  /\ \/ /\ branchLock[r] = None /\ graphLock = None /\ ~Indexed(r, job[k].rev)
        /\ index' = [index EXCEPT ![r] = [rev |-> job[k].rev, links |-> job[k].links]]
     \/ UNCHANGED index
  /\ UNCHANGED <<lore, auto, request, op, try, branchLock, graphLock, moves>>

\* The indexed links of x that the observed head of the source leaves behind.
Pending(k, x) ==
  IF index[x] = None THEN {}
  ELSE {p \in Linked(index[x].links) :
          /\ index[x].links[p].source = job[k].repo
          /\ index[x].links[p].pin # job[k].rev
          /\ auto[x][p]}

\* A root that the source itself depends on is left alone.
Propagate(k, x) ==
  /\ job[k].phase = "spread" /\ Pending(k, x) # {} /\ ~Reaches(job[k].repo, x)
  /\ job' = [job EXCEPT ![k] = [@ EXCEPT !.phase = "lock", !.root = x]]
  /\ UNCHANGED <<lore, index, auto, request, op, try, branchLock, graphLock, moves>>

Rest(k) ==
  /\ job[k].phase = "spread"
  /\ job' = [job EXCEPT ![k] = Free]
  /\ UNCHANGED <<lore, index, auto, request, op, try, branchLock, graphLock, moves>>

\* Mutant: what was pending is not read again, and policies not at all.
LockRootUnchecked(k) ==
  LET x == job[k].root IN
  /\ job[k].phase = "lock" /\ branchLock[x] = None /\ index[x] # None
  /\ branchLock' = [branchLock EXCEPT ![x] = k]
  /\ job' = [job EXCEPT ![k] = [@ EXCEPT !.phase = "push",
       !.paths = {p \in Linked(index[x].links) : index[x].links[p].source = job[k].repo}]]
  /\ UNCHANGED <<lore, index, auto, request, op, try, graphLock, moves>>

\* The root's branch is locked, or left to whoever holds it, and what is
\* pending is read again under the lock.
LockRoot(k) ==
  LET x == job[k].root IN
  /\ job[k].phase = "lock"
  /\ \/ /\ branchLock[x] = None /\ Pending(k, x) # {}
        /\ branchLock' = [branchLock EXCEPT ![x] = k]
        /\ job' = [job EXCEPT ![k] = [@ EXCEPT !.phase = "push", !.paths = Pending(k, x)]]
     \/ /\ branchLock[x] # None \/ Pending(k, x) = {}
        /\ job' = [job EXCEPT ![k] = [@ EXCEPT !.phase = "spread", !.root = None]]
        /\ UNCHANGED branchLock
  /\ UNCHANGED <<lore, index, auto, request, op, try, graphLock, moves>>

EndUpdate(k) ==
  /\ job' = [job EXCEPT ![k] = [Free EXCEPT !.phase = "spread", !.repo = job[k].repo,
                                  !.rev = job[k].rev]]
  /\ Release(k)

\* An index that does not describe the root's head is dropped.
DropStale(k) ==
  LET x == job[k].root IN
  /\ job[k].phase = "push" /\ ~Indexed(x, lore[x].rev)
  /\ index' = [index EXCEPT ![x] = None]
  /\ EndUpdate(k)
  /\ UNCHANGED <<lore, auto, request, op, try, moves>>

\* The links among the pending ones that are behind their source's head now.
Outdated(k) ==
  {p \in job[k].paths : lore[job[k].root].links[p].pin # lore[job[k].repo].rev}

PushUpdate(k) ==
  LET x == job[k].root IN
  /\ job[k].phase = "push" /\ Indexed(x, lore[x].rev)
  /\ lore' = IF Outdated(k) = {} THEN lore
             ELSE Pushed(x, Moves(lore[x].links, Outdated(k), lore[job[k].repo].rev))
  /\ job' = [job EXCEPT ![k] = [@ EXCEPT !.phase = "commit", !.pushed = Outdated(k) # {}]]
  /\ UNCHANGED <<index, auto, request, op, try, branchLock, graphLock, moves>>

\* A pushed root loses its index until its own watch rebuilds it.
CommitUpdate(k) ==
  LET x == job[k].root IN
  /\ job[k].phase = "commit"
  /\ index' = [index EXCEPT ![x] =
       IF job[k].pushed \/ @ = None THEN None
       ELSE [@ EXCEPT !.links = Moves(index[x].links, job[k].paths, job[k].rev)]]
  /\ EndUpdate(k)
  /\ UNCHANGED <<lore, auto, request, op, try, moves>>

FailUpdate(k) ==
  /\ Moved /\ job[k].phase \in {"push", "commit"}
  /\ EndUpdate(k)
  /\ UNCHANGED <<lore, index, auto, request, op, try>>

Crash(k) ==
  /\ Moved /\ job[k].phase # "idle"
  /\ job' = [job EXCEPT ![k] = Free]
  /\ Release(k)
  /\ UNCHANGED <<lore, index, auto, request, op, try>>

-----------------------------------------------------------------------------
(* Users.  The handlers hold the branch lock from before the push until     *)
(* the policy is stored; a handler that fails after its push stores none.   *)

UserPush(r) ==
  /\ Moved
  /\ lore' = Pushed(r, lore[r].links)
  /\ UNCHANGED <<index, auto, request, op, try, branchLock, graphLock, job>>

UpdateLink(r, p) ==
  LET link == lore[r].links[p] IN
  /\ Moved /\ branchLock[r] = None /\ link # None
  /\ link.pin # lore[link.source].rev
  /\ lore' = Pushed(r, Moves(lore[r].links, {p}, lore[link.source].rev))
  /\ UNCHANGED <<index, auto, request, op, try, branchLock, graphLock, job>>

RemoveLink(r, p) ==
  /\ Moved /\ branchLock[r] = None /\ lore[r].links[p] # None
  /\ lore' = Pushed(r, [lore[r].links EXCEPT ![p] = None])
  /\ \/ auto' = [auto EXCEPT ![r][p] = TRUE]
     \/ UNCHANGED auto
  /\ UNCHANGED <<index, request, op, try, branchLock, graphLock, job>>

SetPolicy(r, p) ==
  /\ Moved /\ branchLock[r] = None /\ lore[r].links[p] # None
  /\ auto' = [auto EXCEPT ![r][p] = ~@]
  /\ UNCHANGED <<lore, index, request, op, try, branchLock, graphLock, job>>

Attempt(a) ==
  \/ Create(a) \/ Retry(a) \/ Lock(a)
  \/ AcceptExisting(a) \/ Check(a) \/ Prepare(a) \/ PushLink(a) \/ Reread(a)
  \/ Commit(a) \/ Record(a) \/ Fail(a) \/ Abandon(a)

Watch(k) ==
  \/ \E r \in Repos : Observe(k, r) \/ Propagate(k, r)
  \/ IndexBranch(k) \/ Rest(k) \/ LockRoot(k) \/ DropStale(k) \/ PushUpdate(k)
  \/ CommitUpdate(k) \/ FailUpdate(k) \/ Crash(k)

User ==
  \E r \in Repos :
    \/ UserPush(r)
    \/ \E p \in Paths : UpdateLink(r, p) \/ RemoveLink(r, p) \/ SetPolicy(r, p)

Next == (\E a \in Attempts : Attempt(a)) \/ (\E k \in Coordinators : Watch(k)) \/ User

Spec == Init /\ [][Next]_vars

-----------------------------------------------------------------------------
(* Properties. *)

LinkTypeOK ==
  /\ lore \in [Repos -> [rev : Nat, links : LinkTable, folder : BOOLEAN]]
  /\ index \in [Repos -> [rev : Nat, links : LinkTable] \cup {None}]
  /\ auto \in [Repos -> [Paths -> BOOLEAN]]
  /\ request \in Plans
  /\ op \in [Ops -> [status : {"none", "running", "succeeded", "failed", "partial"},
                     ready : BOOLEAN, taken : BOOLEAN]]
  /\ try \in [Attempts ->
       [phase : {"idle", "start", "check", "prepare", "push",
                 "commit", "won", "lost"},
        ready : BOOLEAN, retry : BOOLEAN, base : Nat, at : Nat, links : LinkTable,
        made : BOOLEAN, pin : Nat, rereads : 0..MaxRereads]]
  /\ branchLock \in [Repos -> Attempts \cup Coordinators \cup {None}]
  /\ graphLock \in Attempts \cup {None}
  /\ job \in [Coordinators ->
       [phase : {"idle", "index", "spread", "lock", "push", "commit"},
        repo : Repos \cup {None}, rev : Nat, links : LinkTable,
        root : Repos \cup {None}, paths : SUBSET Paths, pushed : BOOLEAN]]
  /\ moves \in 0..MaxMoves

\* Operations never leave two repositories linked to each other at their
\* heads, whatever the index forgets: the check of api.rs reads the source's
\* links live, under the graph lock that it keeps until the edge is pushed.
NoMutualLinks ==
  \A r, s \in Repos :
    s \in Sources(lore[r].links) => r \notin Sources(lore[s].links)

\* An index at the root's head names exactly the head's links, although a
\* creation publishes its edge at the revision before it, and late watches
\* write what they saw: an automatic update then acts on links that exist.
IndexAtHeadIsComplete ==
  \A r \in Repos : Indexed(r, lore[r].rev) =>
    /\ Linked(index[r].links) = Linked(lore[r].links)
    /\ \A p \in Linked(lore[r].links) :
         index[r].links[p].source = lore[r].links[p].source

\* An automatic update never moves a link whose policy is off at that very
\* moment, also if the policy was switched after the watch listed the link.
PinnedLinksStay ==
  [][\A k \in Coordinators, p \in Paths :
       LET x == job[k].root IN
       (PushUpdate(k) /\ lore'[x].links[p] # lore[x].links[p]) => auto[x][p]]_vars

\* A stored success stands: no late attempt and no retry takes it back, as
\* long as the operation was not taken over while an attempt was in flight.
SuccessStands ==
  [][\A o \in Ops :
       (op[o].status = "succeeded" /\ ~op[o].taken) => op'[o].status = "succeeded"]_vars
=============================================================================
