------------------------ MODULE RepositoryLinksProofs ------------------------
(***************************************************************************)
(* Proofs about RepositoryLinks, for any repositories, paths, operations,  *)
(* attempts, coordinators and bound on the requests and the faults.        *)
(***************************************************************************)
EXTENDS RepositoryLinks, TLAPS

Working == {"check", "prepare", "push", "commit"}
Updating == {"push", "commit"}

\* Whoever works on a root holds its branch, and attempts hold the graph, too.
LocksHeld ==
  /\ \A a \in Attempts :
       try[a].phase \in Working => graphLock = a /\ branchLock[Root(a)] = a
  /\ \A k \in Coordinators :
       job[k].phase \in Updating => branchLock[job[k].root] = k

\* Whatever is under way knows what it works on.
WorkIsAsked ==
  /\ \A o \in Ops : op[o].status # "none" => request[o] # None
  /\ \A a \in Attempts : try[a].phase # "idle" => op[a[1]].status # "none"
  /\ \A k \in Coordinators :
       /\ job[k].phase # "idle" => job[k].repo \in Repos
       /\ job[k].phase \in {"lock", "push", "commit"} => job[k].root \in Repos

\* What an attempt has checked stays true until it pushes.
EdgesAreFree ==
  /\ NoMutualLinks
  /\ \A a \in Attempts :
       try[a].phase \in {"prepare", "push"} => Root(a) \notin Sources(lore[Source(a)].links)

\* Indexes and whoever will write them are never ahead of the head.
IndexesAreBehind ==
  /\ \A r \in Repos : index[r] # None => index[r].rev <= lore[r].rev
  /\ IndexAtHeadIsComplete
  /\ \A a \in Attempts :
       /\ try[a].phase \in {"prepare", "push"} => try[a].base <= lore[Root(a)].rev
       /\ try[a].phase = "commit" => try[a].base < lore[Root(a)].rev
  /\ \A k \in Coordinators :
       LET r == job[k].repo
           x == job[k].root IN
       /\ job[k].phase = "index" =>
            /\ job[k].rev <= lore[r].rev
            /\ job[k].rev = lore[r].rev => job[k].links = lore[r].links
       /\ job[k].phase \in Updating /\ index[x] # None =>
            job[k].paths \subseteq Linked(index[x].links)

\* What is about to be pushed is followed automatically.
UpdatesAreFollowed ==
  \A k \in Coordinators : job[k].phase = "push" =>
    \A p \in job[k].paths : auto[job[k].root][p]

\* One attempt per operation, until an attempt is taken over.
AttemptsAreAlone ==
  \A o \in Ops :
    /\ ~op[o].taken =>
         \A a, c \in InFlight(o) : a = c
    /\ op[o].status = "none" \/ (op[o].status = "succeeded" /\ ~op[o].taken) =>
         InFlight(o) = {}

IInv ==
  /\ LinkTypeOK /\ LocksHeld /\ WorkIsAsked /\ EdgesAreFree
  /\ IndexesAreBehind /\ UpdatesAreFollowed /\ AttemptsAreAlone

-----------------------------------------------------------------------------
(* Types. *)

LoreType == [rev : Nat, links : LinkTable, folder : BOOLEAN]
IndexType == [rev : Nat, links : LinkTable] \cup {None}
OpType == [status : {"none", "running", "succeeded", "failed", "partial"},
           ready : BOOLEAN, taken : BOOLEAN]
TryType ==
  [phase : {"idle", "start", "check", "prepare", "push", "commit", "won", "lost"},
   ready : BOOLEAN, retry : BOOLEAN, base : Nat, at : Nat, links : LinkTable,
   made : BOOLEAN, pin : Nat, rereads : 0..MaxRereads]
JobType ==
  [phase : {"idle", "index", "spread", "lock", "push", "commit"},
   repo : Repos \cup {None}, rev : Nat, links : LinkTable,
   root : Repos \cup {None}, paths : SUBSET Paths, pushed : BOOLEAN]
Holders == Attempts \cup Coordinators \cup {None}

LEMMA Types ==
  ASSUME LinkTypeOK
  PROVE  /\ lore \in [Repos -> LoreType] /\ index \in [Repos -> IndexType]
         /\ auto \in [Repos -> [Paths -> BOOLEAN]] /\ request \in Plans
         /\ op \in [Ops -> OpType] /\ try \in [Attempts -> TryType]
         /\ branchLock \in [Repos -> Holders] /\ graphLock \in Attempts \cup {None}
         /\ job \in [Coordinators -> JobType] /\ moves \in 0..MaxMoves
  BY DEF LinkTypeOK, LoreType, IndexType, OpType, TryType, JobType, Holders

LEMMA TypesHold ==
  ASSUME lore' \in [Repos -> LoreType], index' \in [Repos -> IndexType],
         auto' \in [Repos -> [Paths -> BOOLEAN]], request' \in Plans,
         op' \in [Ops -> OpType], try' \in [Attempts -> TryType],
         branchLock' \in [Repos -> Holders], graphLock' \in Attempts \cup {None},
         job' \in [Coordinators -> JobType], moves' \in 0..MaxMoves
  PROVE  LinkTypeOK'
  BY DEF LinkTypeOK, LoreType, IndexType, OpType, TryType, JobType, Holders

LEMMA ConstantTypes ==
  /\ NoLinks \in LinkTable
  /\ Idle \in TryType /\ Idle.phase = "idle"
  /\ Free \in JobType /\ Free.phase = "idle"
<1>1. NoLinks \in LinkTable
  BY DEF NoLinks, LinkTable
<1>2. 0 \in 0..MaxRereads
  BY DEF MaxRereads
<1>3. Idle \in TryType /\ Idle.phase = "idle"
  BY <1>1, <1>2 DEF Idle, TryType
<1>4. Free \in JobType /\ Free.phase = "idle"
  BY <1>1 DEF Free, JobType
<1> QED BY <1>1, <1>3, <1>4

\* What an operation that was asked for names.
LEMMA Requests ==
  ASSUME LinkTypeOK, WorkIsAsked, NEW a \in Attempts, try[a].phase # "idle"
  PROVE  /\ a[1] \in Ops /\ request[a[1]] \in RequestType
         /\ Root(a) \in Repos /\ Source(a) \in Repos /\ Path(a) \in Paths
         /\ Root(a) # Source(a) /\ request[a[1]].auto \in BOOLEAN
<1>1. a[1] \in Ops
  BY AttemptsOfOperations
<1>2. request[a[1]] # None /\ request \in Plans
  BY <1>1, Types DEF WorkIsAsked
<1>3. request[a[1]] \in RequestType
  BY <1>1, <1>2, PlansAreRequests
<1> QED BY <1>1, <1>2, <1>3, NoSelfRequests DEF RequestType, Root, Source, Path

\* Moving pins neither adds nor drops a link, nor changes its source.
LEMMA MovesKeep ==
  ASSUME NEW table \in LinkTable, NEW paths, paths \subseteq Linked(table), NEW rev \in Nat
  PROVE  /\ Moves(table, paths, rev) \in LinkTable
         /\ Linked(Moves(table, paths, rev)) = Linked(table)
         /\ \A p \in Linked(table) : Moves(table, paths, rev)[p].source = table[p].source
         /\ \A p \in Paths \ paths : Moves(table, paths, rev)[p] = table[p]
         /\ Sources(Moves(table, paths, rev)) = Sources(table)
<1> DEFINE m == Moves(table, paths, rev)
<1>1. \A p \in Linked(table) : table[p] \in Link
  BY DEF Linked, LinkTable
<1>2. \A p \in Linked(table) :
        /\ [table[p] EXCEPT !.pin = rev] \in Link
        /\ [table[p] EXCEPT !.pin = rev].source = table[p].source
  BY <1>1 DEF Link
<1>3. \A l \in Link : l # None
  BY NoneIsNothing DEF Link
<1>4. \A p \in Paths :
        m[p] = IF p \in paths THEN [table[p] EXCEPT !.pin = rev] ELSE table[p]
  BY DEF Moves
<1>5. m \in LinkTable
  <2>1. m \in [Paths -> Link \cup {None}]
    BY <1>2 DEF Moves, LinkTable
  <2> QED BY <2>1 DEF LinkTable
<1>6. Linked(m) = Linked(table)
  <2>1. \A p \in Paths : m[p] # None <=> table[p] # None
    BY <1>2, <1>3, <1>4 DEF Linked
  <2> QED BY <2>1 DEF Linked
<1>7. \A p \in Linked(table) : m[p].source = table[p].source
  BY <1>2, <1>4 DEF Linked
<1>8. \A p \in Paths \ paths : m[p] = table[p]
  BY <1>4
<1> HIDE DEF m
<1>9. Sources(m) = Sources(table)
  BY <1>6, <1>7 DEF Sources
<1> QED BY <1>5, <1>6, <1>7, <1>8, <1>9 DEF m

\* A push moves one head, and only forward.
LEMMA PushKeeps ==
  ASSUME lore \in [Repos -> LoreType], NEW r \in Repos, NEW links \in LinkTable,
         lore' = Pushed(r, links)
  PROVE  /\ lore' \in [Repos -> LoreType]
         /\ lore'[r].rev = lore[r].rev + 1 /\ lore'[r].links = links
         /\ \A s \in Repos : s # r => lore'[s] = lore[s]
<1> DEFINE x == [lore[r] EXCEPT !.rev = @ + 1, !.links = links]
<1>1. lore[r] \in LoreType /\ lore[r].rev \in Nat /\ lore[r].rev + 1 \in Nat
  BY DEF LoreType
<1>2. x.rev = lore[r].rev + 1 /\ x.links = links
  BY <1>1 DEF LoreType
<1>3. x \in LoreType
  <2>1. ASSUME NEW n \in Nat
        PROVE  [lore[r] EXCEPT !.rev = n, !.links = links] \in LoreType
    BY <1>1 DEF LoreType
  <2> QED BY <1>1, <2>1, Zenon
<1>4. lore' = [lore EXCEPT ![r] = x]
  BY DEF Pushed
<1> HIDE DEF x
<1> QED BY <1>2, <1>3, <1>4

LEMMA ReleaseKeeps ==
  ASSUME LinkTypeOK, NEW h \in Attempts \cup Coordinators, Release(h)
  PROVE  /\ branchLock' \in [Repos -> Holders] /\ graphLock' \in Attempts \cup {None}
         /\ graphLock' = IF graphLock = h THEN None ELSE graphLock
         /\ \A r \in Repos :
              branchLock'[r] = IF branchLock[r] = h THEN None ELSE branchLock[r]
  BY Types DEF Release, Holders

LEMMA MovedKeeps ==
  ASSUME LinkTypeOK, Moved PROVE moves' \in 0..MaxMoves
  BY Types, MovesAreBounded DEF Moved

-----------------------------------------------------------------------------
(* Initially. *)

LEMMA InitIInv == Init => IInv
<1> SUFFICES ASSUME Init PROVE IInv
  OBVIOUS
<1>1. LinkTypeOK
  <2>1. lore \in [Repos -> LoreType] /\ index \in [Repos -> IndexType]
    BY ConstantTypes DEF Init, LoreType, IndexType
  <2>2. auto \in [Repos -> [Paths -> BOOLEAN]] /\ request \in Plans
    BY DEF Init
  <2>3. op \in [Ops -> OpType]
    BY DEF Init, OpType
  <2>4. try \in [Attempts -> TryType] /\ job \in [Coordinators -> JobType]
    BY ConstantTypes DEF Init
  <2>5. /\ branchLock \in [Repos -> Holders] /\ graphLock \in Attempts \cup {None}
        /\ moves \in 0..MaxMoves
    BY MovesAreBounded DEF Init, Holders
  <2> QED BY <2>1, <2>2, <2>3, <2>4, <2>5
          DEF LinkTypeOK, LoreType, IndexType, OpType, TryType, JobType, Holders
<1>2. /\ \A a \in Attempts : try[a].phase = "idle"
      /\ \A k \in Coordinators : job[k].phase = "idle"
      /\ \A r \in Repos : lore[r].links = NoLinks /\ index[r] = None
      /\ \A o \in Ops : op[o].status = "none"
  BY ConstantTypes DEF Init
<1>3. LocksHeld /\ WorkIsAsked
  BY <1>2 DEF LocksHeld, WorkIsAsked, Working, Updating
<1>4. EdgesAreFree
  <2>1. Sources(NoLinks) = {}
    BY DEF Sources, Linked, NoLinks
  <2> QED BY <1>2, <2>1 DEF EdgesAreFree, NoMutualLinks
<1>5. IndexesAreBehind
  BY <1>2 DEF IndexesAreBehind, IndexAtHeadIsComplete, Indexed, Updating
<1>6. UpdatesAreFollowed /\ AttemptsAreAlone
  BY <1>2 DEF UpdatesAreFollowed, AttemptsAreAlone, InFlight
<1> QED BY <1>1, <1>3, <1>4, <1>5, <1>6 DEF IInv

-----------------------------------------------------------------------------
(* A part of the invariant stays if its variables do. *)

LEMMA LocksStay ==
  ASSUME LocksHeld, UNCHANGED <<try, job, graphLock, branchLock, request>>
  PROVE  LocksHeld'
  BY DEF LocksHeld, Root

LEMMA AskedStays ==
  ASSUME WorkIsAsked, UNCHANGED <<op, try, job, request>> PROVE WorkIsAsked'
  BY DEF WorkIsAsked

LEMMA EdgesStay ==
  ASSUME EdgesAreFree, UNCHANGED <<lore, try, request>> PROVE EdgesAreFree'
  BY DEF EdgesAreFree, NoMutualLinks, Root, Source

LEMMA IndexesStay ==
  ASSUME IndexesAreBehind, UNCHANGED <<lore, index, try, job, request>>
  PROVE  IndexesAreBehind'
  BY DEF IndexesAreBehind, IndexAtHeadIsComplete, Indexed, Root

LEMMA FollowedStay ==
  ASSUME UpdatesAreFollowed, UNCHANGED <<job, auto>> PROVE UpdatesAreFollowed'
  BY DEF UpdatesAreFollowed

LEMMA AloneStay ==
  ASSUME AttemptsAreAlone, UNCHANGED <<op, try>> PROVE AttemptsAreAlone'
  BY DEF AttemptsAreAlone, InFlight

-----------------------------------------------------------------------------
(* One record changes. *)

LEMMA TryKeeps ==
  ASSUME LinkTypeOK, NEW a \in Attempts, NEW x \in TryType, try' = [try EXCEPT ![a] = x]
  PROVE  /\ try' \in [Attempts -> TryType] /\ try'[a] = x
         /\ \A c \in Attempts : c # a => try'[c] = try[c]
  BY Types

LEMMA OpKeeps ==
  ASSUME LinkTypeOK, NEW o \in Ops, NEW x \in OpType, op' = [op EXCEPT ![o] = x]
  PROVE  /\ op' \in [Ops -> OpType] /\ op'[o] = x
         /\ \A q \in Ops : q # o => op'[q] = op[q]
  BY Types

LEMMA JobKeeps ==
  ASSUME LinkTypeOK, NEW k \in Coordinators, NEW x \in JobType, job' = [job EXCEPT ![k] = x]
  PROVE  /\ job' \in [Coordinators -> JobType] /\ job'[k] = x
         /\ \A m \in Coordinators : m # k => job'[m] = job[m]
  BY Types

\* An attempt that does not come to write leaves edges and indexes alone.
LEMMA CalmKeeps ==
  ASSUME IInv, NEW a \in Attempts, try' \in [Attempts -> TryType],
         try'[a].phase \notin {"prepare", "push", "commit"},
         \A c \in Attempts : c # a => try'[c] = try[c],
         UNCHANGED <<lore, request>>
  PROVE  /\ EdgesAreFree'
         /\ UNCHANGED <<index, job>> => IndexesAreBehind'
<1>1. EdgesAreFree'
  BY DEF IInv, EdgesAreFree, NoMutualLinks, Root, Source
<1>2. ASSUME UNCHANGED <<index, job>> PROVE IndexesAreBehind'
  BY <1>2 DEF IInv, IndexesAreBehind, IndexAtHeadIsComplete, Indexed, Root
<1> QED BY <1>1, <1>2

\* An attempt that ends gives its locks back and stays the only one, if it was.
LEMMA EndKeeps ==
  ASSUME IInv, NEW a \in Attempts, NEW x \in TryType, x.phase \in {"idle", "won", "lost"},
         try[a].phase # "idle", try' = [try EXCEPT ![a] = x], Release(a),
         UNCHANGED <<request, op, job>>
  PROVE  /\ try' \in [Attempts -> TryType]
         /\ branchLock' \in [Repos -> Holders] /\ graphLock' \in Attempts \cup {None}
         /\ try'[a] = x /\ \A c \in Attempts : c # a => try'[c] = try[c]
         /\ LocksHeld' /\ WorkIsAsked' /\ AttemptsAreAlone'
<1>1. /\ try' \in [Attempts -> TryType] /\ try'[a] = x
      /\ \A c \in Attempts : c # a => try'[c] = try[c]
  BY TryKeeps DEF IInv
<1>2. /\ branchLock' \in [Repos -> Holders] /\ graphLock' \in Attempts \cup {None}
      /\ graphLock' = IF graphLock = a THEN None ELSE graphLock
      /\ \A r \in Repos :
           branchLock'[r] = IF branchLock[r] = a THEN None ELSE branchLock[r]
  BY ReleaseKeeps DEF IInv
<1>3. LocksHeld'
  <2>1. ASSUME NEW c \in Attempts, try'[c].phase \in Working
        PROVE  graphLock' = c /\ branchLock'[Root(c)] = c
    <3>1. c # a /\ try[c].phase \in Working
      BY <1>1, <2>1 DEF Working
    <3>2. Root(c) \in Repos
      BY <3>1, Requests DEF IInv, Working
    <3>3. graphLock = c /\ branchLock[Root(c)] = c
      BY <3>1 DEF IInv, LocksHeld
    <3> QED BY <1>2, <3>1, <3>2, <3>3
  <2>2. ASSUME NEW k \in Coordinators, job[k].phase \in Updating
        PROVE  branchLock'[job[k].root] = k
    <3>1. job[k].root \in Repos /\ branchLock[job[k].root] = k
      BY <2>2 DEF IInv, LocksHeld, WorkIsAsked, Updating
    <3> QED BY <1>2, <3>1, HoldersDiffer
  <2> QED BY <2>1, <2>2 DEF LocksHeld, Root
<1>4. WorkIsAsked'
  BY <1>1 DEF IInv, WorkIsAsked
<1>5. AttemptsAreAlone'
  <2>1. \A o \in Ops : InFlight(o)' \subseteq InFlight(o)
    BY <1>1 DEF InFlight
  <2> QED BY <2>1 DEF IInv, AttemptsAreAlone
<1> QED BY <1>1, <1>2, <1>3, <1>4, <1>5

\* End as such: the outcome is noted in an attempt that is otherwise fresh.
LEMMA EndIs ==
  ASSUME NEW a \in Attempts, NEW outcome \in {"won", "lost"}, End(a, outcome)
  PROVE  \E x \in TryType : /\ x.phase = outcome /\ Release(a)
                            /\ try' = [try EXCEPT ![a] = x]
<1> DEFINE x == [Idle EXCEPT !.phase = outcome]
<1>1. x \in TryType /\ x.phase = outcome
  BY ConstantTypes DEF TryType
<1>2. try' = [try EXCEPT ![a] = x] /\ Release(a)
  BY DEF End
<1> HIDE DEF x
<1> QED BY <1>1, <1>2

\* A policy is saved under the lock of its root: no update of it is pushing.
LEMMA PolicyKeeps ==
  ASSUME IInv, NEW a \in Attempts, try[a].phase \in Working, SavePolicy(a), UNCHANGED job
  PROVE  auto' \in [Repos -> [Paths -> BOOLEAN]] /\ UpdatesAreFollowed'
<1>1. /\ Root(a) \in Repos /\ Path(a) \in Paths /\ request[a[1]].auto \in BOOLEAN
      /\ auto \in [Repos -> [Paths -> BOOLEAN]]
  BY Requests, Types DEF IInv, Working
<1>2. /\ auto' \in [Repos -> [Paths -> BOOLEAN]]
      /\ \A r \in Repos : r # Root(a) => auto'[r] = auto[r]
  BY <1>1 DEF SavePolicy
<1>3. \A k \in Coordinators : job[k].phase = "push" =>
        job[k].root \in Repos /\ job[k].root # Root(a)
  BY HoldersDiffer DEF IInv, LocksHeld, WorkIsAsked, Updating
<1>4. UpdatesAreFollowed'
  BY <1>2, <1>3 DEF IInv, UpdatesAreFollowed
<1> QED BY <1>2, <1>4

-----------------------------------------------------------------------------
(* Operations that add a link. *)

LEMMA CreateKeeps == ASSUME IInv, NEW a \in Attempts, Create(a) PROVE IInv'
<1> DEFINE x == [try[a] EXCEPT !.phase = "start", !.base = lore[Root(a)].rev]
           y == [op[a[1]] EXCEPT !.status = "running"]
<1>1. /\ a[1] \in Ops /\ request[a[1]] # None
      /\ op[a[1]].status = "none" /\ try[a].phase = "idle"
      /\ UNCHANGED <<lore, index, auto, request, branchLock, graphLock, job, moves>>
      /\ try' = [try EXCEPT ![a] = x] /\ op' = [op EXCEPT ![a[1]] = y]
  BY AttemptsOfOperations DEF Create
<1>2. Root(a) \in Repos /\ try[a] \in TryType /\ op[a[1]] \in OpType
  BY <1>1, PlansAreRequests, Types DEF IInv, RequestType, Root
<1>3. x \in TryType /\ x.phase = "start"
  <2>1. lore[Root(a)].rev \in Nat
    BY <1>2, Types DEF IInv, LoreType
  <2> QED BY <1>2, <2>1 DEF TryType
<1>4. y \in OpType /\ y.status = "running" /\ y.taken = op[a[1]].taken
  BY <1>2 DEF OpType
<1> HIDE DEF x, y
<1>5. /\ try' \in [Attempts -> TryType] /\ try'[a] = x
      /\ \A c \in Attempts : c # a => try'[c] = try[c]
  BY <1>1, <1>3, TryKeeps DEF IInv
<1>6. /\ op' \in [Ops -> OpType] /\ op'[a[1]] = y
      /\ \A q \in Ops : q # a[1] => op'[q] = op[q]
  BY <1>1, <1>4, OpKeeps DEF IInv
<1>7. LinkTypeOK'
  BY <1>1, <1>5, <1>6, Types, TypesHold DEF IInv
<1>8. LocksHeld'
  BY <1>1, <1>3, <1>5 DEF IInv, LocksHeld, Root, Working
<1>9. WorkIsAsked'
  <2>1. \A q \in Ops : op[q].status # "none" => op'[q].status # "none"
    BY <1>4, <1>6
  <2> QED BY <1>1, <1>4, <1>5, <1>6, <2>1, AttemptsOfOperations DEF IInv, WorkIsAsked
<1>10. EdgesAreFree' /\ IndexesAreBehind'
  BY <1>1, <1>3, <1>5, CalmKeeps
<1>11. AttemptsAreAlone'
  <2>1. InFlight(a[1]) = {}
    BY <1>1 DEF IInv, AttemptsAreAlone
  <2>2. InFlight(a[1])' \subseteq {a}
    BY <1>5, <2>1 DEF InFlight
  <2>3. \A q \in Ops : q # a[1] => InFlight(q)' = InFlight(q)
    BY <1>5 DEF InFlight
  <2> QED BY <1>4, <1>6, <2>2, <2>3 DEF IInv, AttemptsAreAlone
<1> QED BY <1>1, <1>7, <1>8, <1>9, <1>10, <1>11, FollowedStay DEF IInv

\* A retry that finds another attempt in flight says so.
LEMMA RetryKeeps == ASSUME IInv, NEW a \in Attempts, Retry(a) PROVE IInv'
<1> DEFINE busy == op[a[1]].taken \/ InFlight(a[1]) # {}
           y == [op[a[1]] EXCEPT !.status = "running", !.taken = busy]
<1>1. /\ a[1] \in Ops /\ op[a[1]].status # "none" /\ try[a].phase = "idle"
      /\ moves' \in 0..MaxMoves
      /\ UNCHANGED <<lore, index, auto, request, branchLock, graphLock, job>>
      /\ op' = [op EXCEPT ![a[1]] = y]
  BY AttemptsOfOperations, MovedKeeps DEF Retry, IInv
<1>2. try[a] \in TryType /\ op[a[1]] \in OpType /\ busy \in BOOLEAN
  BY <1>1, Types DEF IInv, OpType
<1>3. PICK x \in TryType : x.phase = "start" /\ try' = [try EXCEPT ![a] = x]
  <2>1. PICK ready \in {op[a[1]].ready, FALSE} :
          try' = [try EXCEPT ![a] =
            [try[a] EXCEPT !.phase = "start", !.ready = ready, !.retry = TRUE]]
    BY DEF Retry
  <2> DEFINE x == [try[a] EXCEPT !.phase = "start", !.ready = ready, !.retry = TRUE]
  <2>2. ready \in BOOLEAN
    BY <1>2 DEF OpType
  <2>3. x \in TryType /\ x.phase = "start"
    BY <1>2, <2>2 DEF TryType
  <2>4. try' = [try EXCEPT ![a] = x]
    BY <2>1
  <2> HIDE DEF x
  <2> QED BY <2>3, <2>4
<1>4. y \in OpType /\ y.status = "running" /\ y.taken = busy
  <2> HIDE DEF busy
  <2> QED BY <1>2 DEF OpType
<1> HIDE DEF y, busy
<1>5. /\ try' \in [Attempts -> TryType] /\ try'[a] = x
      /\ \A c \in Attempts : c # a => try'[c] = try[c]
  BY <1>3, TryKeeps DEF IInv
<1>6. /\ op' \in [Ops -> OpType] /\ op'[a[1]] = y
      /\ \A q \in Ops : q # a[1] => op'[q] = op[q]
  BY <1>1, <1>4, OpKeeps DEF IInv
<1>7. LinkTypeOK'
  BY <1>1, <1>5, <1>6, Types, TypesHold DEF IInv
<1>8. LocksHeld'
  BY <1>1, <1>3, <1>5 DEF IInv, LocksHeld, Root, Working
<1>9. WorkIsAsked'
  <2>1. \A q \in Ops : op'[q].status # "none" <=> op[q].status # "none"
    BY <1>1, <1>4, <1>6
  <2> QED BY <1>1, <1>5, <2>1, AttemptsOfOperations DEF IInv, WorkIsAsked
<1>10. EdgesAreFree' /\ IndexesAreBehind'
  BY <1>1, <1>3, <1>5, CalmKeeps
<1>11. AttemptsAreAlone'
  <2>1. InFlight(a[1])' \subseteq InFlight(a[1]) \cup {a}
    BY <1>5 DEF InFlight
  <2>2. ~y.taken => InFlight(a[1]) = {}
    BY <1>4 DEF busy
  <2>3. \A q \in Ops : q # a[1] => InFlight(q)' = InFlight(q)
    BY <1>5 DEF InFlight
  <2> QED BY <1>4, <1>6, <2>1, <2>2, <2>3 DEF IInv, AttemptsAreAlone
<1> QED BY <1>1, <1>7, <1>8, <1>9, <1>10, <1>11, FollowedStay DEF IInv

LEMMA LockKeeps == ASSUME IInv, NEW a \in Attempts, Lock(a) PROVE IInv'
<1> DEFINE x == [try[a] EXCEPT !.phase = "check"]
<1>1. /\ try[a].phase = "start" /\ branchLock[Root(a)] = None /\ graphLock = None
      /\ branchLock' = [branchLock EXCEPT ![Root(a)] = a] /\ graphLock' = a
      /\ UNCHANGED <<lore, index, auto, request, op, job, moves>>
      /\ try' = [try EXCEPT ![a] = x] /\ try[a] \in TryType
  BY Types DEF Lock, IInv
<1>2. x \in TryType /\ x.phase = "check"
  BY <1>1 DEF TryType
<1> HIDE DEF x
<1>3. /\ try' \in [Attempts -> TryType] /\ try'[a] = x
      /\ \A c \in Attempts : c # a => try'[c] = try[c]
  BY <1>1, <1>2, TryKeeps DEF IInv
<1>4. Root(a) \in Repos
  BY <1>1, Requests DEF IInv
<1>5. /\ branchLock' \in [Repos -> Holders] /\ branchLock'[Root(a)] = a
      /\ \A r \in Repos : r # Root(a) => branchLock'[r] = branchLock[r]
  BY <1>1, <1>4, Types DEF IInv, Holders
<1>6. LinkTypeOK'
  BY <1>1, <1>3, <1>5, Types, TypesHold DEF IInv
<1>7. LocksHeld'
  <2>1. \A c \in Attempts : try[c].phase \notin Working
    BY <1>1, NoneIsNothing DEF IInv, LocksHeld
  <2>2. ASSUME NEW k \in Coordinators, job[k].phase \in Updating
        PROVE  branchLock'[job[k].root] = k
    <3>1. job[k].root \in Repos /\ branchLock[job[k].root] = k
      BY <2>2 DEF IInv, LocksHeld, WorkIsAsked, Updating
    <3>2. job[k].root # Root(a)
      BY <1>1, <3>1, NoneIsNothing
    <3> QED BY <1>5, <3>1, <3>2
  <2> QED BY <1>1, <1>2, <1>3, <1>5, <2>1, <2>2 DEF LocksHeld, Root
<1>8. WorkIsAsked'
  BY <1>1, <1>3 DEF IInv, WorkIsAsked
<1>9. EdgesAreFree' /\ IndexesAreBehind'
  BY <1>1, <1>2, <1>3, CalmKeeps
<1>10. AttemptsAreAlone'
  <2>1. \A o \in Ops : InFlight(o)' = InFlight(o)
    BY <1>1, <1>2, <1>3 DEF InFlight
  <2> QED BY <1>1, <2>1 DEF IInv, AttemptsAreAlone
<1> QED BY <1>1, <1>6, <1>7, <1>8, <1>9, <1>10, FollowedStay DEF IInv

\* An attempt that ends without having written anything.
LEMMA GiveUpKeeps ==
  ASSUME IInv, NEW a \in Attempts, NEW x \in TryType, x.phase \in {"idle", "won", "lost"},
         try[a].phase # "idle", try' = [try EXCEPT ![a] = x], Release(a),
         auto' \in [Repos -> [Paths -> BOOLEAN]], UpdatesAreFollowed',
         moves' \in 0..MaxMoves, UNCHANGED <<lore, index, request, op, job>>
  PROVE  IInv'
<1>1. /\ try' \in [Attempts -> TryType]
      /\ branchLock' \in [Repos -> Holders] /\ graphLock' \in Attempts \cup {None}
      /\ try'[a] = x /\ \A c \in Attempts : c # a => try'[c] = try[c]
      /\ LocksHeld' /\ WorkIsAsked' /\ AttemptsAreAlone'
  BY EndKeeps
<1>2. LinkTypeOK'
  BY <1>1, Types, TypesHold DEF IInv
<1>3. EdgesAreFree' /\ IndexesAreBehind'
  BY <1>1, CalmKeeps
<1> QED BY <1>1, <1>2, <1>3 DEF IInv

LEMMA LoseKeeps ==
  ASSUME IInv, NEW a \in Attempts, End(a, "lost"), try[a].phase # "idle",
         moves' \in 0..MaxMoves, UNCHANGED <<lore, index, auto, request, op, job>>
  PROVE  IInv'
<1>1. PICK x \in TryType : /\ x.phase = "lost" /\ Release(a)
                           /\ try' = [try EXCEPT ![a] = x]
  BY EndIs
<1>2. UpdatesAreFollowed' /\ auto' \in [Repos -> [Paths -> BOOLEAN]]
  BY FollowedStay, Types DEF IInv
<1> QED BY <1>1, <1>2, GiveUpKeeps

LEMMA AcceptExistingKeeps ==
  ASSUME IInv, NEW a \in Attempts, AcceptExisting(a) PROVE IInv'
<1>1. /\ try[a].phase = "check" /\ moves' \in 0..MaxMoves
      /\ UNCHANGED <<lore, index, request, op, job, moves>>
  BY Types DEF AcceptExisting, IInv
<1>2. CASE SavePolicy(a) /\ End(a, "won")
  <2>1. PICK x \in TryType : /\ x.phase = "won" /\ Release(a)
                             /\ try' = [try EXCEPT ![a] = x]
    BY <1>2, EndIs
  <2>2. auto' \in [Repos -> [Paths -> BOOLEAN]] /\ UpdatesAreFollowed'
    BY <1>1, <1>2, PolicyKeeps DEF Working
  <2> QED BY <1>1, <2>1, <2>2, GiveUpKeeps
<1>3. CASE End(a, "lost") /\ UNCHANGED auto
  BY <1>1, <1>3, LoseKeeps
<1> QED BY <1>2, <1>3 DEF AcceptExisting

LEMMA FailKeeps == ASSUME IInv, NEW a \in Attempts, Fail(a) PROVE IInv'
<1>1. moves' \in 0..MaxMoves
  BY MovedKeeps DEF Fail, IInv
<1> QED BY <1>1, LoseKeeps DEF Fail

LEMMA AbandonKeeps == ASSUME IInv, NEW a \in Attempts, Abandon(a) PROVE IInv'
<1>1. /\ moves' \in 0..MaxMoves /\ Idle \in TryType /\ Idle.phase = "idle"
      /\ UpdatesAreFollowed' /\ auto' \in [Repos -> [Paths -> BOOLEAN]]
  BY MovedKeeps, ConstantTypes, FollowedStay, Types DEF Abandon, IInv
<1> QED BY <1>1, GiveUpKeeps DEF Abandon

\* An attempt that goes on keeps its locks.
LEMMA GoOnKeeps ==
  ASSUME IInv, NEW a \in Attempts, NEW x \in TryType,
         try[a].phase \in Working, x.phase \in Working, try' = [try EXCEPT ![a] = x],
         \A o \in Ops : op'[o].status = op[o].status /\ op'[o].taken = op[o].taken,
         UNCHANGED <<request, job, branchLock, graphLock>>
  PROVE  /\ try' \in [Attempts -> TryType] /\ try'[a] = x
         /\ \A c \in Attempts : c # a => try'[c] = try[c]
         /\ LocksHeld' /\ WorkIsAsked' /\ AttemptsAreAlone'
<1>1. /\ try' \in [Attempts -> TryType] /\ try'[a] = x
      /\ \A c \in Attempts : c # a => try'[c] = try[c]
  BY TryKeeps DEF IInv
<1>2. LocksHeld'
  BY <1>1 DEF IInv, LocksHeld, Root
<1>3. WorkIsAsked'
  BY <1>1, AttemptsOfOperations DEF IInv, WorkIsAsked, Working
<1>4. AttemptsAreAlone'
  <2>1. \A o \in Ops : InFlight(o)' = InFlight(o)
    BY <1>1 DEF InFlight, Working
  <2> QED BY <2>1 DEF IInv, AttemptsAreAlone
<1> QED BY <1>1, <1>2, <1>3, <1>4

\* Nobody else checks, prepares or pushes meanwhile.
LEMMA OthersWait ==
  ASSUME IInv, NEW a \in Attempts, try[a].phase \in Working
  PROVE  \A c \in Attempts : c # a => try[c].phase \notin Working
  BY DEF IInv, LocksHeld

\* Heads that move forward leave indexes and watches behind.
LEMMA HeadsMove ==
  ASSUME IInv, lore' \in [Repos -> LoreType], try' \in [Attempts -> TryType],
         \A r \in Repos :
           \/ lore'[r].rev = lore[r].rev /\ lore'[r].links = lore[r].links
           \/ lore'[r].rev = lore[r].rev + 1,
         \A a \in Attempts :
           \/ try'[a] = try[a]
           \/ /\ try'[a].phase \in {"prepare", "push"} => try'[a].base <= lore'[Root(a)].rev
              /\ try'[a].phase = "commit" => try'[a].base < lore'[Root(a)].rev,
         \A k \in Coordinators :
           \/ job'[k] = job[k]
           \/ /\ job'[k].phase # "index"
              /\ job'[k].phase \in Updating =>
                   /\ job[k].phase \in Updating
                   /\ job'[k].root = job[k].root /\ job'[k].paths = job[k].paths,
         UNCHANGED <<index, request>>
  PROVE  IndexesAreBehind'
<1>1. \A r \in Repos : lore[r].rev \in Nat /\ (index[r] # None => index[r].rev \in Nat)
  BY Types DEF IInv, LoreType, IndexType
<1>2. \A r \in Repos : index[r] # None => index[r].rev <= lore'[r].rev
  BY <1>1 DEF IInv, IndexesAreBehind
<1>3. IndexAtHeadIsComplete'
  BY <1>1 DEF IInv, IndexesAreBehind, IndexAtHeadIsComplete, Indexed
<1>4. ASSUME NEW a \in Attempts
      PROVE  /\ try'[a].phase \in {"prepare", "push"} => try'[a].base <= lore'[Root(a)].rev
             /\ try'[a].phase = "commit" => try'[a].base < lore'[Root(a)].rev
  <2>1. CASE try'[a] # try[a]
    BY <2>1
  <2>2. CASE try'[a] = try[a] /\ try[a].phase \in {"prepare", "push", "commit"}
    <3>1. Root(a) \in Repos /\ try[a].base \in Nat
      BY <2>2, Requests, Types DEF IInv, TryType
    <3>2. lore'[Root(a)].rev \in {lore[Root(a)].rev, lore[Root(a)].rev + 1}
      BY <3>1
    <3>3. /\ try[a].phase \in {"prepare", "push"} => try[a].base <= lore[Root(a)].rev
          /\ try[a].phase = "commit" => try[a].base < lore[Root(a)].rev
      BY DEF IInv, IndexesAreBehind
    <3> QED BY <1>1, <2>2, <3>1, <3>2, <3>3
  <2> QED BY <2>1, <2>2
<1>5. ASSUME NEW k \in Coordinators, job'[k].phase = "index"
      PROVE  /\ job'[k].rev <= lore'[job'[k].repo].rev
             /\ job'[k].rev = lore'[job'[k].repo].rev =>
                  job'[k].links = lore'[job'[k].repo].links
  <2>1. job'[k] = job[k] /\ job[k].repo \in Repos /\ job[k].rev \in Nat
    BY <1>5, Types DEF IInv, WorkIsAsked, JobType
  <2> QED BY <1>1, <1>5, <2>1 DEF IInv, IndexesAreBehind
<1>6. ASSUME NEW k \in Coordinators, job'[k].phase \in Updating, index[job'[k].root] # None
      PROVE  job'[k].paths \subseteq Linked(index[job'[k].root].links)
  BY <1>6 DEF IInv, IndexesAreBehind
<1> QED BY <1>2, <1>3, <1>4, <1>5, <1>6 DEF IndexesAreBehind, Root

\* The check for cycles leaves no link back.
LEMMA NoLinkBack ==
  ASSUME NEW a \in Attempts, ~Refused(a), Root(a) \in Repos
  PROVE  Root(a) \notin Sources(lore[Source(a)].links)
<1>1. Reaches(Root(a), Root(a))
  BY DEF Reaches
<1> QED BY <1>1 DEF Refused, WouldCycle

LEMMA CheckKeeps == ASSUME IInv, NEW a \in Attempts, Check(a) PROVE IInv'
<1>1. /\ try[a].phase = "check" /\ moves' \in 0..MaxMoves
      /\ UNCHANGED <<lore, index, auto, request, op, job, moves>>
  BY Types DEF Check, IInv
<1>2. CASE End(a, "lost")
  BY <1>1, <1>2, LoseKeeps
<1>3. CASE ~Refused(a) /\ ~End(a, "lost")
  <2> DEFINE x == [try[a] EXCEPT !.phase = "prepare", !.base = lore[Root(a)].rev,
                                 !.at = lore[Root(a)].rev, !.links = lore[Root(a)].links]
  <2>1. Root(a) \in Repos /\ try[a] \in TryType
    BY <1>1, Requests, Types DEF IInv
  <2>2. /\ lore[Root(a)].rev \in Nat /\ lore[Root(a)].links \in LinkTable
    BY <2>1, Types DEF IInv, LoreType
  <2>3. x \in TryType /\ x.phase = "prepare" /\ x.base = lore[Root(a)].rev
    BY <2>1, <2>2 DEF TryType
  <2>4. try' = [try EXCEPT ![a] = x] /\ UNCHANGED <<branchLock, graphLock>>
    BY <1>3 DEF Check
  <2> HIDE DEF x
  <2>5. /\ try' \in [Attempts -> TryType] /\ try'[a] = x
        /\ \A c \in Attempts : c # a => try'[c] = try[c]
        /\ LocksHeld' /\ WorkIsAsked' /\ AttemptsAreAlone'
    BY <1>1, <2>3, <2>4, GoOnKeeps DEF Working
  <2>6. LinkTypeOK'
    BY <1>1, <2>4, <2>5, Types, TypesHold DEF IInv
  <2>7. EdgesAreFree'
    BY <1>1, <1>3, <2>1, <2>5, NoLinkBack
       DEF IInv, EdgesAreFree, NoMutualLinks, Root, Source
  <2>8. IndexesAreBehind'
    BY <1>1, <2>2, <2>3, <2>5, Types, HeadsMove DEF IInv
  <2> QED BY <1>1, <2>5, <2>6, <2>7, <2>8, FollowedStay DEF IInv
<1> QED BY <1>2, <1>3 DEF Check

\* The source's head may move, its links do not.
LEMMA PrepareKeeps == ASSUME IInv, NEW a \in Attempts, Prepare(a) PROVE IInv'
<1> DEFINE s == Source(a)
           heads == IF Missing(a)
                    THEN [lore EXCEPT ![s] = [lore[s] EXCEPT !.folder = TRUE,
                                                             !.rev = lore[s].rev + 1]]
                    ELSE lore
<1>1. /\ try[a].phase = "prepare" /\ lore' = heads
      /\ UNCHANGED <<index, auto, request, job, moves>>
  BY DEF Prepare
<1>2. /\ a[1] \in Ops /\ s \in Repos /\ Root(a) \in Repos
      /\ try[a] \in TryType /\ op[a[1]] \in OpType
  BY <1>1, Requests, Types DEF IInv
<1>3. /\ lore' \in [Repos -> LoreType]
      /\ \A r \in Repos : /\ lore'[r].links = lore[r].links
                          /\ lore'[r].rev \in {lore[r].rev, lore[r].rev + 1}
  <2>1. CASE ~Missing(a)
    BY <1>1, <2>1, Types DEF IInv
  <2>2. CASE Missing(a)
    <3> DEFINE x == [lore[s] EXCEPT !.folder = TRUE, !.rev = lore[s].rev + 1]
    <3>1. lore[s] \in LoreType /\ lore[s].rev \in Nat /\ lore[s].rev + 1 \in Nat
      BY <1>2, Types DEF IInv, LoreType
    <3>2. x.links = lore[s].links /\ x.rev = lore[s].rev + 1
      BY <3>1 DEF LoreType
    <3>3. x \in LoreType
      <4>1. ASSUME NEW n \in Nat
            PROVE  [lore[s] EXCEPT !.folder = TRUE, !.rev = n] \in LoreType
        BY <3>1 DEF LoreType
      <4> QED BY <3>1, <4>1, Zenon
    <3>4. lore' = [lore EXCEPT ![s] = x]
      BY <1>1, <2>2
    <3> HIDE DEF x, s
    <3> QED BY <1>2, <3>2, <3>3, <3>4, Types DEF IInv
  <2> QED BY <2>1, <2>2
<1> HIDE DEF heads, s
<1>4. \A r \in Repos : \/ lore'[r].rev = lore[r].rev /\ lore'[r].links = lore[r].links
                       \/ lore'[r].rev = lore[r].rev + 1
  BY <1>3
<1>5. \A c \in Attempts : try[c].phase # "idle" =>
        Root(c) \in Repos /\ Source(c) \in Repos
  BY Requests DEF IInv
<1>6. NoMutualLinks'
  BY <1>3 DEF IInv, EdgesAreFree, NoMutualLinks
<1>7. CASE /\ Missing(a) /\ End(a, "lost") /\ UNCHANGED op
  <2>1. PICK x \in TryType : /\ x.phase = "lost" /\ Release(a)
                             /\ try' = [try EXCEPT ![a] = x]
    BY <1>7, EndIs
  <2>2. /\ try' \in [Attempts -> TryType]
        /\ branchLock' \in [Repos -> Holders] /\ graphLock' \in Attempts \cup {None}
        /\ try'[a] = x /\ \A c \in Attempts : c # a => try'[c] = try[c]
        /\ LocksHeld' /\ WorkIsAsked' /\ AttemptsAreAlone'
    BY <1>1, <1>7, <2>1, EndKeeps
  <2>3. LinkTypeOK'
    BY <1>1, <1>3, <1>7, <2>2, Types, TypesHold DEF IInv
  <2>4. EdgesAreFree'
    BY <1>1, <1>3, <1>5, <1>6, <2>1, <2>2 DEF IInv, EdgesAreFree, Root, Source
  <2>5. IndexesAreBehind'
    BY <1>1, <1>3, <1>4, <2>1, <2>2, HeadsMove
  <2> QED BY <1>1, <2>2, <2>3, <2>4, <2>5, FollowedStay DEF IInv
<1>8. CASE /\ op' = [op EXCEPT ![a[1]].ready = TRUE]
           /\ \E pin \in Nat, made \in BOOLEAN :
                try' = [try EXCEPT ![a] = [try[a] EXCEPT !.phase = "push", !.made = made,
                                                         !.pin = pin]]
           /\ UNCHANGED <<branchLock, graphLock>>
  <2>1. PICK x \in TryType : /\ x.phase = "push" /\ x.base = try[a].base
                             /\ try' = [try EXCEPT ![a] = x]
    <3>1. PICK pin \in Nat, made \in BOOLEAN :
            try' = [try EXCEPT ![a] = [try[a] EXCEPT !.phase = "push", !.made = made,
                                                     !.pin = pin]]
      BY <1>8
    <3> DEFINE x == [try[a] EXCEPT !.phase = "push", !.made = made, !.pin = pin]
    <3>2. x \in TryType /\ x.phase = "push" /\ x.base = try[a].base
      BY <1>2 DEF TryType
    <3>3. try' = [try EXCEPT ![a] = x]
      BY <3>1
    <3> HIDE DEF x
    <3> QED BY <3>2, <3>3
  <2>2. /\ op' \in [Ops -> OpType]
        /\ \A o \in Ops : op'[o].status = op[o].status /\ op'[o].taken = op[o].taken
    BY <1>2, <1>8, Types DEF IInv, OpType
  <2>3. /\ try' \in [Attempts -> TryType] /\ try'[a] = x
        /\ \A c \in Attempts : c # a => try'[c] = try[c]
        /\ LocksHeld' /\ WorkIsAsked' /\ AttemptsAreAlone'
    BY <1>1, <1>8, <2>1, <2>2, GoOnKeeps DEF Working
  <2>4. LinkTypeOK'
    BY <1>1, <1>3, <1>8, <2>2, <2>3, Types, TypesHold DEF IInv
  <2>5. EdgesAreFree'
    <3>1. ASSUME NEW c \in Attempts, try'[c].phase \in {"prepare", "push"}
          PROVE  Root(c) \notin Sources(lore'[Source(c)].links)
      <4>1. try[c].phase \in {"prepare", "push"}
        BY <1>1, <2>3, <3>1
      <4> QED BY <1>3, <1>5, <4>1 DEF IInv, EdgesAreFree
    <3> QED BY <1>1, <1>6, <3>1 DEF EdgesAreFree, Root, Source
  <2>6. IndexesAreBehind'
    <3>1. try[a].base <= lore'[Root(a)].rev
      <4>1. try[a].base <= lore[Root(a)].rev /\ try[a].base \in Nat /\ lore[Root(a)].rev \in Nat
        BY <1>1, <1>2, Types DEF IInv, IndexesAreBehind, TryType, LoreType
      <4>2. lore'[Root(a)].rev \in {lore[Root(a)].rev, lore[Root(a)].rev + 1}
        BY <1>2, <1>3
      <4> QED BY <4>1, <4>2
    <3> QED BY <1>1, <1>3, <1>4, <2>1, <2>3, <3>1, HeadsMove
  <2> QED BY <1>1, <2>3, <2>4, <2>5, <2>6, FollowedStay DEF IInv
<1>9. Missing(a) \in BOOLEAN /\ heads[s].rev \in Nat
  <2>1. Missing(a) \in BOOLEAN
    BY DEF Missing
  <2>2. lore'[s].rev \in Nat
    BY <1>2, <1>3 DEF LoreType
  <2> QED BY <1>1, <2>1, <2>2
<1>10. \/ /\ op' = [op EXCEPT ![a[1]].ready = TRUE]
          /\ try' = [try EXCEPT ![a] = [try[a] EXCEPT !.phase = "push",
                                          !.made = Missing(a), !.pin = heads[s].rev]]
          /\ UNCHANGED <<branchLock, graphLock>>
       \/ Missing(a) /\ End(a, "lost") /\ UNCHANGED op
  BY DEF Prepare, heads, s
<1> QED BY <1>7, <1>8, <1>9, <1>10

\* A push adds one link to the root's, to the source that was asked for.
LEMMA NewLinksAre ==
  ASSUME IInv, NEW a \in Attempts, try[a].phase = "push", NEW paths \in Updatable(a)
  PROVE  /\ NewLinks(a, paths) \in LinkTable
         /\ NewLinks(a, paths)[Path(a)] # None
         /\ NewLinks(a, paths)[Path(a)].source = Source(a)
         /\ Sources(NewLinks(a, paths)) \subseteq Sources(lore[Root(a)].links) \cup {Source(a)}
<1> DEFINE old == lore[Root(a)].links
           head == lore[Source(a)].rev
           table == Moves(old, paths, head)
           pin == IF paths = {} THEN try[a].pin ELSE head
           link == [source |-> Source(a), pin |-> pin]
           new == [table EXCEPT ![Path(a)] = link]
<1>1. /\ Root(a) \in Repos /\ Source(a) \in Repos /\ Path(a) \in Paths
      /\ try[a] \in TryType
  BY Requests, Types DEF IInv
<1>2. old \in LinkTable /\ head \in Nat /\ pin \in Nat
  BY <1>1, Types DEF IInv, LoreType, TryType
<1>3. paths \subseteq Linked(old)
  BY DEF Updatable, Behind
<1>4. NewLinks(a, paths) = new
  BY DEF NewLinks
<1> HIDE DEF old, head, pin
<1>5. table \in LinkTable /\ Sources(table) = Sources(old)
  BY <1>2, <1>3, MovesKeep
<1>6. link \in Link /\ link.source = Source(a)
  BY <1>1, <1>2 DEF Link
<1> HIDE DEF table, link
<1>7. new \in LinkTable /\ new[Path(a)] = link
      /\ \A p \in Paths : p # Path(a) => new[p] = table[p]
  BY <1>1, <1>5, <1>6 DEF LinkTable
<1> HIDE DEF new
<1>8. Sources(new) \subseteq Sources(table) \cup {Source(a)}
  BY <1>6, <1>7 DEF Sources, Linked
<1>9. link # None
  BY <1>6, NoneIsNothing DEF Link
<1> QED BY <1>4, <1>5, <1>6, <1>7, <1>8, <1>9 DEF old

LEMMA PushLinkKeeps == ASSUME IInv, NEW a \in Attempts, PushLink(a) PROVE IInv'
<1> DEFINE x == [try[a] EXCEPT !.phase = "commit"]
<1>1. /\ try[a].phase = "push" /\ try[a] \in TryType
      /\ UNCHANGED <<index, auto, request, op, branchLock, graphLock, job, moves>>
      /\ try' = [try EXCEPT ![a] = x]
  BY Types DEF PushLink, IInv
<1>2. PICK new \in LinkTable :
        /\ Sources(new) \subseteq Sources(lore[Root(a)].links) \cup {Source(a)}
        /\ lore' = Pushed(Root(a), new)
  BY <1>1, NewLinksAre DEF PushLink
<1>3. Root(a) \in Repos /\ Source(a) \in Repos /\ Root(a) # Source(a)
  BY <1>1, Requests DEF IInv
<1>4. /\ lore' \in [Repos -> LoreType]
      /\ lore'[Root(a)].rev = lore[Root(a)].rev + 1 /\ lore'[Root(a)].links = new
      /\ \A r \in Repos : r # Root(a) => lore'[r] = lore[r]
  BY <1>2, <1>3, PushKeeps, Types DEF IInv
<1>5. x \in TryType /\ x.phase = "commit" /\ x.base = try[a].base
  BY <1>1 DEF TryType
<1> HIDE DEF x
<1>6. /\ try' \in [Attempts -> TryType] /\ try'[a] = x
      /\ \A c \in Attempts : c # a => try'[c] = try[c]
      /\ LocksHeld' /\ WorkIsAsked' /\ AttemptsAreAlone'
  BY <1>1, <1>5, GoOnKeeps DEF Working
<1>7. LinkTypeOK'
  BY <1>1, <1>4, <1>6, Types, TypesHold DEF IInv
<1>8. EdgesAreFree'
  <2>1. \A c \in Attempts : try'[c].phase \notin {"prepare", "push"}
    BY <1>1, <1>5, <1>6, OthersWait DEF Working
  <2>2. Root(a) \notin Sources(lore[Source(a)].links)
    BY <1>1 DEF IInv, EdgesAreFree
  <2>3. ASSUME NEW r \in Repos, NEW q \in Repos,
               q \in Sources(lore'[r].links), r \in Sources(lore'[q].links)
        PROVE  FALSE
    <3>1. CASE r # Root(a) /\ q # Root(a)
      BY <1>4, <2>3, <3>1 DEF IInv, EdgesAreFree, NoMutualLinks
    <3>2. CASE r = Root(a) /\ q = Root(a)
      <4>1. Root(a) \in Sources(lore[Root(a)].links)
        BY <1>2, <1>3, <1>4, <2>3, <3>2
      <4> QED BY <1>3, <4>1 DEF IInv, EdgesAreFree, NoMutualLinks
    <3>3. CASE r = Root(a) /\ q # Root(a)
      <4>1. q \in Sources(lore[r].links) \/ q = Source(a)
        BY <1>2, <1>4, <2>3, <3>3
      <4>2. r \in Sources(lore[q].links)
        BY <1>4, <2>3, <3>3
      <4> QED BY <2>2, <3>3, <4>1, <4>2 DEF IInv, EdgesAreFree, NoMutualLinks
    <3>4. CASE r # Root(a) /\ q = Root(a)
      <4>1. r \in Sources(lore[q].links) \/ r = Source(a)
        BY <1>2, <1>4, <2>3, <3>4
      <4>2. q \in Sources(lore[r].links)
        BY <1>4, <2>3, <3>4
      <4> QED BY <2>2, <3>4, <4>1, <4>2 DEF IInv, EdgesAreFree, NoMutualLinks
    <3> QED BY <3>1, <3>2, <3>3, <3>4
  <2> QED BY <2>1, <2>3 DEF EdgesAreFree, NoMutualLinks
<1>9. IndexesAreBehind'
  <2>1. try[a].base < lore'[Root(a)].rev
    <3>1. try[a].base \in Nat /\ lore[Root(a)].rev \in Nat
          /\ try[a].base <= lore[Root(a)].rev
      BY <1>1, <1>3, Types DEF IInv, IndexesAreBehind, TryType, LoreType
    <3> QED BY <1>4, <3>1
  <2>2. \A r \in Repos : \/ lore'[r].rev = lore[r].rev /\ lore'[r].links = lore[r].links
                         \/ lore'[r].rev = lore[r].rev + 1
    BY <1>4
  <2> QED BY <1>1, <1>4, <1>5, <1>6, <2>1, <2>2, HeadsMove
<1> QED BY <1>1, <1>6, <1>7, <1>8, <1>9, FollowedStay DEF IInv

LEMMA RereadKeeps == ASSUME IInv, NEW a \in Attempts, Reread(a) PROVE IInv'
<1>1. /\ try[a].phase = "push" /\ moves' \in 0..MaxMoves /\ try[a] \in TryType
      /\ UNCHANGED <<lore, index, auto, request, op, job, moves>>
  BY Types DEF Reread, IInv
<1>2. CASE End(a, "lost")
  BY <1>1, <1>2, LoseKeeps
<1>3. CASE try[a].rereads < MaxRereads /\ ~End(a, "lost")
  <2> DEFINE x == [try[a] EXCEPT !.at = lore[Root(a)].rev, !.rereads = try[a].rereads + 1]
  <2>1. Root(a) \in Repos
    BY <1>1, Requests DEF IInv
  <2>2. lore[Root(a)].rev \in Nat /\ try[a].rereads + 1 \in 0..MaxRereads
    BY <1>1, <1>3, <2>1, Types DEF IInv, LoreType, TryType, MaxRereads
  <2>3. x \in TryType /\ x.phase = "push" /\ x.base = try[a].base
    <3>1. ASSUME NEW n \in 0..MaxRereads, NEW at \in Nat
          PROVE  LET y == [try[a] EXCEPT !.at = at, !.rereads = n] IN
                 y \in TryType /\ y.phase = "push" /\ y.base = try[a].base
      BY <1>1 DEF TryType
    <3> QED BY <2>2, <3>1, Zenon
  <2>4. try' = [try EXCEPT ![a] = x] /\ UNCHANGED <<branchLock, graphLock>>
    BY <1>3 DEF Reread
  <2> HIDE DEF x
  <2>5. /\ try' \in [Attempts -> TryType] /\ try'[a] = x
        /\ \A c \in Attempts : c # a => try'[c] = try[c]
        /\ LocksHeld' /\ WorkIsAsked' /\ AttemptsAreAlone'
    BY <1>1, <2>3, <2>4, GoOnKeeps DEF Working
  <2>6. LinkTypeOK'
    BY <1>1, <2>4, <2>5, Types, TypesHold DEF IInv
  <2>7. EdgesAreFree'
    BY <1>1, <2>3, <2>5 DEF IInv, EdgesAreFree, NoMutualLinks, Root, Source
  <2>8. IndexesAreBehind'
    <3>1. try[a].base <= lore[Root(a)].rev
      BY <1>1 DEF IInv, IndexesAreBehind
    <3> QED BY <1>1, <2>3, <2>5, <3>1, Types, HeadsMove DEF IInv
  <2> QED BY <1>1, <2>5, <2>6, <2>7, <2>8, FollowedStay DEF IInv
<1> QED BY <1>2, <1>3 DEF Reread

\* What is published names a revision that is the head no more.
LEMMA CommitKeeps == ASSUME IInv, NEW a \in Attempts, Commit(a) PROVE IInv'
<1> DEFINE link == [source |-> Source(a), pin |-> try[a].pin]
           table == [try[a].links EXCEPT ![Path(a)] = link]
           entry == [rev |-> try[a].base, links |-> table]
<1>1. /\ try[a].phase = "commit" /\ try[a] \in TryType
      /\ SavePolicy(a) /\ End(a, "won")
      /\ index' = [index EXCEPT ![Root(a)] = entry]
      /\ UNCHANGED <<lore, request, op, job, moves>>
  BY Types DEF Commit, IInv
<1>2. /\ Root(a) \in Repos /\ Source(a) \in Repos /\ Path(a) \in Paths
      /\ lore[Root(a)].rev \in Nat
  BY <1>1, Requests, Types DEF IInv, LoreType
<1>3. link \in Link
  BY <1>1, <1>2 DEF Link, TryType
<1> HIDE DEF link
<1>4. table \in LinkTable
  BY <1>1, <1>2, <1>3 DEF LinkTable, TryType
<1> HIDE DEF table
<1>5. entry \in IndexType /\ entry.rev = try[a].base
  BY <1>1, <1>4 DEF IndexType, TryType
<1> HIDE DEF entry
<1>6. /\ index' \in [Repos -> IndexType] /\ index'[Root(a)] = entry
      /\ \A r \in Repos : r # Root(a) => index'[r] = index[r]
  BY <1>1, <1>2, <1>5, Types DEF IInv
<1>7. PICK x \in TryType : /\ x.phase = "won" /\ Release(a)
                           /\ try' = [try EXCEPT ![a] = x]
  BY <1>1, EndIs
<1>8. /\ try' \in [Attempts -> TryType]
      /\ branchLock' \in [Repos -> Holders] /\ graphLock' \in Attempts \cup {None}
      /\ try'[a] = x /\ \A c \in Attempts : c # a => try'[c] = try[c]
      /\ LocksHeld' /\ WorkIsAsked' /\ AttemptsAreAlone'
  BY <1>1, <1>7, EndKeeps
<1>9. auto' \in [Repos -> [Paths -> BOOLEAN]] /\ UpdatesAreFollowed'
  BY <1>1, PolicyKeeps DEF Working
<1>10. LinkTypeOK'
  BY <1>1, <1>6, <1>8, <1>9, Types, TypesHold DEF IInv
<1>11. EdgesAreFree'
  BY <1>1, <1>7, <1>8, CalmKeeps
<1>12. IndexesAreBehind'
  <2>1. entry.rev < lore[Root(a)].rev /\ entry.rev \in Nat
    BY <1>1, <1>5 DEF IInv, IndexesAreBehind, TryType
  <2>2. \A r \in Repos : index'[r] # None => index'[r].rev <= lore[r].rev
    BY <1>2, <1>6, <2>1 DEF IInv, IndexesAreBehind
  <2>3. IndexAtHeadIsComplete'
    BY <1>1, <1>2, <1>6, <2>1 DEF IInv, IndexesAreBehind, IndexAtHeadIsComplete, Indexed
  <2>4. \A k \in Coordinators : job[k].phase \in Updating =>
          job[k].root \in Repos /\ job[k].root # Root(a)
    BY <1>1, HoldersDiffer DEF IInv, LocksHeld, WorkIsAsked, Working, Updating
  <2> QED BY <1>1, <1>6, <1>7, <1>8, <2>2, <2>3, <2>4 DEF IInv, IndexesAreBehind, Root
<1> QED BY <1>8, <1>9, <1>10, <1>11, <1>12 DEF IInv

\* The attempt that records a success was the last one in flight.
LEMMA RecordKeeps == ASSUME IInv, NEW a \in Attempts, Record(a) PROVE IInv'
<1>1. /\ a[1] \in Ops /\ try[a].phase \in {"won", "lost"} /\ Idle \in TryType
      /\ Idle.phase = "idle" /\ try' = [try EXCEPT ![a] = Idle]
      /\ UNCHANGED <<lore, index, auto, request, branchLock, graphLock, job, moves>>
  BY AttemptsOfOperations, ConstantTypes DEF Record
<1>2. PICK s \in {"succeeded", "partial", "failed"} :
        op' = [op EXCEPT ![a[1]].status = s]
  BY DEF Record
<1>3. /\ op' \in [Ops -> OpType]
      /\ op'[a[1]].status = s
      /\ \A o \in Ops : /\ op'[o].taken = op[o].taken
                        /\ o # a[1] => op'[o] = op[o]
  BY <1>1, <1>2, Types DEF IInv, OpType
<1>4. /\ try' \in [Attempts -> TryType] /\ try'[a] = Idle
      /\ \A c \in Attempts : c # a => try'[c] = try[c]
  BY <1>1, TryKeeps DEF IInv
<1>5. LinkTypeOK'
  BY <1>1, <1>3, <1>4, Types, TypesHold DEF IInv
<1>6. LocksHeld'
  BY <1>1, <1>4 DEF IInv, LocksHeld, Root, Working
<1>7. WorkIsAsked'
  <2>1. op[a[1]].status # "none"
    BY <1>1 DEF IInv, WorkIsAsked
  <2>2. \A o \in Ops : op'[o].status # "none" <=> op[o].status # "none"
    BY <1>3, <2>1
  <2> QED BY <1>1, <1>4, <2>2, AttemptsOfOperations DEF IInv, WorkIsAsked
<1>8. EdgesAreFree' /\ IndexesAreBehind'
  BY <1>1, <1>4, CalmKeeps
<1>9. AttemptsAreAlone'
  <2>1. \A o \in Ops : o # a[1] => InFlight(o)' = InFlight(o)
    BY <1>4 DEF InFlight
  <2>2. InFlight(a[1])' = InFlight(a[1]) \ {a} /\ a \in InFlight(a[1])
    BY <1>1, <1>4 DEF InFlight
  <2>3. ~op[a[1]].taken => InFlight(a[1])' = {}
    BY <1>1, <2>2 DEF IInv, AttemptsAreAlone
  <2> QED BY <1>1, <1>3, <2>1, <2>2, <2>3 DEF IInv, AttemptsAreAlone
<1> QED BY <1>1, <1>5, <1>6, <1>7, <1>8, <1>9, FollowedStay DEF IInv

-----------------------------------------------------------------------------
(* The watch of a repository. *)

\* A watch that goes on knows its repository and its root.
LEMMA WatchKeeps ==
  ASSUME IInv, NEW k \in Coordinators, NEW x \in JobType, job' = [job EXCEPT ![k] = x],
         x.phase # "idle" => x.repo \in Repos,
         x.phase \in {"lock", "push", "commit"} => x.root \in Repos,
         UNCHANGED <<request, op, try>>
  PROVE  /\ job' \in [Coordinators -> JobType] /\ job'[k] = x
         /\ \A m \in Coordinators : m # k => job'[m] = job[m]
         /\ WorkIsAsked' /\ AttemptsAreAlone'
<1>1. /\ job' \in [Coordinators -> JobType] /\ job'[k] = x
      /\ \A m \in Coordinators : m # k => job'[m] = job[m]
  BY JobKeeps DEF IInv
<1>2. WorkIsAsked'
  BY <1>1 DEF IInv, WorkIsAsked
<1> QED BY <1>1, <1>2, AloneStay DEF IInv

\* A watch that does not update anything changes at most the index.
LEMMA WaitKeeps ==
  ASSUME IInv, NEW k \in Coordinators, NEW x \in JobType, job' = [job EXCEPT ![k] = x],
         x.phase # "idle" => x.repo \in Repos,
         x.phase = "lock" => x.root \in Repos,
         x.phase \notin Updating,
         x.phase = "index" => x.rev = lore[x.repo].rev /\ x.links = lore[x.repo].links,
         UNCHANGED <<lore, index, auto, request, op, try>>,
         UNCHANGED <<branchLock, graphLock>> \/ Release(k),
         moves' \in 0..MaxMoves
  PROVE  IInv'
<1>1. /\ job' \in [Coordinators -> JobType] /\ job'[k] = x
      /\ \A m \in Coordinators : m # k => job'[m] = job[m]
      /\ WorkIsAsked' /\ AttemptsAreAlone'
  BY WatchKeeps DEF Updating
<1>2. /\ branchLock' \in [Repos -> Holders] /\ graphLock' \in Attempts \cup {None}
      /\ graphLock' = graphLock
      /\ \A r \in Repos : branchLock'[r] = branchLock[r] \/ branchLock[r] = k
  BY ReleaseKeeps, Types, HoldersDiffer, NoneIsNothing DEF IInv
<1>3. LinkTypeOK'
  BY <1>1, <1>2, Types, TypesHold DEF IInv
<1>4. LocksHeld'
  <2>1. ASSUME NEW c \in Attempts, try[c].phase \in Working
        PROVE  graphLock' = c /\ branchLock'[Root(c)] = c
    <3>1. Root(c) \in Repos /\ graphLock = c /\ branchLock[Root(c)] = c
      BY <2>1, Requests DEF IInv, LocksHeld, Working
    <3> QED BY <1>2, <3>1, HoldersDiffer
  <2>2. ASSUME NEW m \in Coordinators, job'[m].phase \in Updating
        PROVE  branchLock'[job'[m].root] = m
    <3>1. m # k /\ job'[m] = job[m]
      BY <1>1, <2>2
    <3>2. job[m].root \in Repos /\ branchLock[job[m].root] = m
      BY <2>2, <3>1 DEF IInv, LocksHeld, WorkIsAsked, Updating
    <3> QED BY <1>2, <3>1, <3>2
  <2> QED BY <2>1, <2>2 DEF LocksHeld, Root
<1>5. IndexesAreBehind'
  <2>1. x.phase = "index" => lore[x.repo].rev \in Nat
    BY Types DEF IInv, LoreType
  <2> QED BY <1>1, <2>1
          DEF IInv, IndexesAreBehind, IndexAtHeadIsComplete, Indexed, Root, Updating
<1>6. UpdatesAreFollowed'
  BY <1>1 DEF IInv, UpdatesAreFollowed, Updating
<1> QED BY <1>1, <1>3, <1>4, <1>5, <1>6, EdgesStay DEF IInv

LEMMA ObserveKeeps ==
  ASSUME IInv, NEW k \in Coordinators, NEW r \in Repos, Observe(k, r) PROVE IInv'
<1> DEFINE x == [Free EXCEPT !.phase = "index", !.repo = r,
                             !.rev = lore[r].rev, !.links = lore[r].links]
<1>1. lore[r].rev \in Nat /\ lore[r].links \in LinkTable /\ moves \in 0..MaxMoves
  BY Types DEF IInv, LoreType
<1>2. /\ x \in JobType /\ x.phase = "index" /\ x.repo = r
      /\ x.rev = lore[r].rev /\ x.links = lore[r].links
  BY <1>1, ConstantTypes DEF JobType
<1>3. /\ job' = [job EXCEPT ![k] = x]
      /\ UNCHANGED <<lore, index, auto, request, op, try, branchLock, graphLock, moves>>
  BY DEF Observe
<1> HIDE DEF x
<1> QED BY <1>1, <1>2, <1>3, WaitKeeps DEF Updating

LEMMA PropagateKeeps ==
  ASSUME IInv, NEW k \in Coordinators, NEW r \in Repos, Propagate(k, r) PROVE IInv'
<1> DEFINE x == [job[k] EXCEPT !.phase = "lock", !.root = r]
<1>1. job[k] \in JobType /\ job[k].repo \in Repos /\ moves \in 0..MaxMoves
  BY Types DEF IInv, WorkIsAsked, Propagate
<1>2. x \in JobType /\ x.phase = "lock" /\ x.repo = job[k].repo /\ x.root = r
  BY <1>1 DEF JobType
<1>3. /\ job' = [job EXCEPT ![k] = x]
      /\ UNCHANGED <<lore, index, auto, request, op, try, branchLock, graphLock, moves>>
  BY DEF Propagate
<1> HIDE DEF x
<1> QED BY <1>1, <1>2, <1>3, WaitKeeps DEF Updating

LEMMA RestKeeps == ASSUME IInv, NEW k \in Coordinators, Rest(k) PROVE IInv'
<1>1. /\ job' = [job EXCEPT ![k] = Free] /\ moves \in 0..MaxMoves
      /\ UNCHANGED <<lore, index, auto, request, op, try, branchLock, graphLock, moves>>
  BY Types DEF Rest, IInv
<1> QED BY <1>1, ConstantTypes, WaitKeeps DEF Updating

\* What a watch has observed may be old, but then its revision is, too.
LEMMA IndexBranchKeeps == ASSUME IInv, NEW k \in Coordinators, IndexBranch(k) PROVE IInv'
<1> DEFINE r == job[k].repo
           x == [job[k] EXCEPT !.phase = "spread", !.links = NoLinks]
           entry == [rev |-> job[k].rev, links |-> job[k].links]
<1>1. /\ job[k].phase = "index" /\ r \in Repos /\ job[k] \in JobType
      /\ moves \in 0..MaxMoves
      /\ job' = [job EXCEPT ![k] = x]
      /\ UNCHANGED <<lore, auto, request, op, try, branchLock, graphLock, moves>>
  BY Types DEF IndexBranch, IInv, WorkIsAsked
<1>2. x \in JobType /\ x.phase = "spread" /\ x.repo = r
  BY <1>1, ConstantTypes DEF JobType
<1> HIDE DEF x
<1>3. CASE UNCHANGED index
  BY <1>1, <1>2, <1>3, WaitKeeps DEF Updating
<1>4. CASE branchLock[r] = None /\ index' = [index EXCEPT ![r] = entry]
  <2>1. /\ job' \in [Coordinators -> JobType] /\ job'[k] = x
        /\ \A m \in Coordinators : m # k => job'[m] = job[m]
        /\ WorkIsAsked' /\ AttemptsAreAlone'
    BY <1>1, <1>2, WatchKeeps
  <2>2. entry \in IndexType /\ entry.rev = job[k].rev /\ entry.links = job[k].links
    BY <1>1 DEF IndexType, JobType
  <2> HIDE DEF entry
  <2>3. /\ index' \in [Repos -> IndexType] /\ index'[r] = entry
        /\ \A q \in Repos : q # r => index'[q] = index[q]
    BY <1>1, <1>4, <2>2, Types DEF IInv
  <2>4. LinkTypeOK'
    BY <1>1, <2>1, <2>3, Types, TypesHold DEF IInv
  <2>5. LocksHeld'
    BY <1>1, <1>2, <2>1 DEF IInv, LocksHeld, Root, Updating
  <2>6. IndexesAreBehind'
    <3>1. /\ entry.rev <= lore[r].rev
          /\ entry.rev = lore[r].rev => entry.links = lore[r].links
      BY <1>1, <2>2 DEF IInv, IndexesAreBehind
    <3>2. \A q \in Repos : index'[q] # None => index'[q].rev <= lore[q].rev
      BY <2>3, <3>1 DEF IInv, IndexesAreBehind
    <3>3. IndexAtHeadIsComplete'
      BY <1>1, <2>3, <3>1 DEF IInv, IndexesAreBehind, IndexAtHeadIsComplete, Indexed
    <3>4. \A m \in Coordinators : job[m].phase \in Updating =>
            job[m].root \in Repos /\ job[m].root # r
      BY <1>4, NoneIsNothing DEF IInv, LocksHeld, WorkIsAsked, Updating
    <3>5. \A m \in Coordinators :
            /\ job'[m].phase = "index" => job'[m] = job[m]
            /\ job'[m].phase \in Updating => job'[m] = job[m]
      BY <1>2, <2>1 DEF Updating
    <3> QED BY <1>1, <2>3, <3>2, <3>3, <3>4, <3>5 DEF IInv, IndexesAreBehind, Root
  <2>7. UpdatesAreFollowed'
    BY <1>1, <1>2, <2>1 DEF IInv, UpdatesAreFollowed
  <2> QED BY <1>1, <2>1, <2>4, <2>5, <2>6, <2>7, EdgesStay DEF IInv
<1> QED BY <1>3, <1>4 DEF IndexBranch

\* What is pending under the lock is linked and followed.
LEMMA LockRootKeeps == ASSUME IInv, NEW k \in Coordinators, LockRoot(k) PROVE IInv'
<1> DEFINE x == job[k].root
<1>1. /\ job[k].phase = "lock" /\ x \in Repos /\ job[k] \in JobType
      /\ job[k].repo \in Repos /\ moves \in 0..MaxMoves
      /\ UNCHANGED <<lore, index, auto, request, op, try, graphLock, moves>>
  BY Types DEF LockRoot, IInv, WorkIsAsked
<1>2. CASE /\ job' = [job EXCEPT ![k] = [job[k] EXCEPT !.phase = "spread", !.root = None]]
           /\ UNCHANGED branchLock
  <2> DEFINE y == [job[k] EXCEPT !.phase = "spread", !.root = None]
  <2>1. y \in JobType /\ y.phase = "spread" /\ y.repo = job[k].repo
    BY <1>1 DEF JobType
  <2>2. job' = [job EXCEPT ![k] = y]
    BY <1>2
  <2> HIDE DEF y
  <2> QED BY <1>1, <1>2, <2>1, <2>2, WaitKeeps DEF Updating
<1>3. CASE /\ branchLock[x] = None /\ branchLock' = [branchLock EXCEPT ![x] = k]
           /\ job' = [job EXCEPT ![k] = [job[k] EXCEPT !.phase = "push",
                                                       !.paths = Pending(k, x)]]
  <2> DEFINE y == [job[k] EXCEPT !.phase = "push", !.paths = Pending(k, x)]
  <2>1. /\ Pending(k, x) \subseteq Paths /\ \A p \in Pending(k, x) : auto[x][p]
        /\ index[x] # None => Pending(k, x) \subseteq Linked(index[x].links)
    BY DEF Pending, Linked
  <2>2. /\ y \in JobType /\ y.phase = "push" /\ y.root = x
        /\ y.repo = job[k].repo /\ y.paths = Pending(k, x)
    BY <1>1, <2>1 DEF JobType
  <2>3. job' = [job EXCEPT ![k] = y]
    BY <1>3
  <2> HIDE DEF x, y
  <2>4. /\ job' \in [Coordinators -> JobType] /\ job'[k] = y
        /\ \A m \in Coordinators : m # k => job'[m] = job[m]
        /\ WorkIsAsked' /\ AttemptsAreAlone'
    BY <1>1, <2>2, <2>3, WatchKeeps
  <2>5. /\ branchLock' \in [Repos -> Holders] /\ branchLock'[x] = k
        /\ \A r \in Repos : r # x => branchLock'[r] = branchLock[r]
    BY <1>1, <1>3, Types DEF IInv, Holders
  <2>6. LinkTypeOK'
    BY <1>1, <2>4, <2>5, Types, TypesHold DEF IInv
  <2>7. LocksHeld'
    <3>1. ASSUME NEW c \in Attempts, try[c].phase \in Working
          PROVE  graphLock' = c /\ branchLock'[Root(c)] = c
      <4>1. Root(c) \in Repos /\ graphLock = c /\ branchLock[Root(c)] = c
        BY <3>1, Requests DEF IInv, LocksHeld, Working
      <4> QED BY <1>1, <1>3, <2>5, <4>1, NoneIsNothing
    <3>2. ASSUME NEW m \in Coordinators, job'[m].phase \in Updating
          PROVE  branchLock'[job'[m].root] = m
      <4>1. CASE m = k
        BY <2>2, <2>4, <2>5, <4>1
      <4>2. CASE m # k
        <5>1. job'[m] = job[m] /\ job[m].root \in Repos /\ branchLock[job[m].root] = m
          BY <2>4, <3>2, <4>2 DEF IInv, LocksHeld, WorkIsAsked, Updating
        <5> QED BY <1>3, <2>5, <5>1, NoneIsNothing
      <4> QED BY <4>1, <4>2
    <3> QED BY <1>1, <3>1, <3>2 DEF LocksHeld, Root
  <2>8. IndexesAreBehind'
    BY <1>1, <2>1, <2>2, <2>4
       DEF IInv, IndexesAreBehind, IndexAtHeadIsComplete, Indexed, Root
  <2>9. UpdatesAreFollowed'
    BY <1>1, <2>1, <2>2, <2>4 DEF IInv, UpdatesAreFollowed
  <2> QED BY <1>1, <2>4, <2>6, <2>7, <2>8, <2>9, EdgesStay DEF IInv
<1> QED BY <1>2, <1>3 DEF LockRoot

\* An update that ends gives back its lock.
LEMMA EndUpdateIs ==
  ASSUME IInv, NEW k \in Coordinators, job[k].phase \in Updating, EndUpdate(k)
  PROVE  \E x \in JobType : /\ x.phase = "spread" /\ x.repo \in Repos /\ Release(k)
                            /\ job' = [job EXCEPT ![k] = x]
<1> DEFINE x == [Free EXCEPT !.phase = "spread", !.repo = job[k].repo, !.rev = job[k].rev]
<1>1. job[k].repo \in Repos /\ job[k].rev \in Nat
  BY Types DEF IInv, WorkIsAsked, Updating, JobType
<1>2. x \in JobType /\ x.phase = "spread" /\ x.repo = job[k].repo
  BY <1>1, ConstantTypes DEF JobType
<1>3. job' = [job EXCEPT ![k] = x] /\ Release(k)
  BY DEF EndUpdate
<1> HIDE DEF x
<1> QED BY <1>1, <1>2, <1>3

\* The index of a root may change under its lock, or be dropped.
LEMMA IndexUpdateKeeps ==
  ASSUME IInv, NEW k \in Coordinators, job[k].phase \in Updating, EndUpdate(k),
         NEW entry \in IndexType, index' = [index EXCEPT ![job[k].root] = entry],
         entry # None =>
           /\ index[job[k].root] # None /\ entry.rev = index[job[k].root].rev
           /\ Linked(entry.links) = Linked(index[job[k].root].links)
           /\ \A p \in Linked(entry.links) :
                entry.links[p].source = index[job[k].root].links[p].source,
         UNCHANGED <<lore, auto, request, op, try, moves>>
  PROVE  IInv'
<1> DEFINE r == job[k].root
<1>1. PICK x \in JobType : /\ x.phase = "spread" /\ x.repo \in Repos /\ Release(k)
                           /\ job' = [job EXCEPT ![k] = x]
  BY EndUpdateIs
<1>2. r \in Repos /\ moves \in 0..MaxMoves
  BY Types DEF IInv, WorkIsAsked, Updating
<1>3. /\ job' \in [Coordinators -> JobType] /\ job'[k] = x
      /\ \A m \in Coordinators : m # k => job'[m] = job[m]
      /\ WorkIsAsked' /\ AttemptsAreAlone'
  BY <1>1, WatchKeeps
<1>4. /\ index' \in [Repos -> IndexType] /\ index'[r] = entry
      /\ \A q \in Repos : q # r => index'[q] = index[q]
  BY <1>2, Types DEF IInv
<1>5. /\ branchLock' \in [Repos -> Holders] /\ graphLock' \in Attempts \cup {None}
      /\ graphLock' = graphLock
      /\ \A q \in Repos : branchLock'[q] = branchLock[q] \/ branchLock[q] = k
  BY <1>1, ReleaseKeeps, Types, HoldersDiffer, NoneIsNothing DEF IInv
<1>6. LinkTypeOK'
  BY <1>3, <1>4, <1>5, Types, TypesHold DEF IInv
<1>7. LocksHeld'
  <2>1. ASSUME NEW c \in Attempts, try[c].phase \in Working
        PROVE  graphLock' = c /\ branchLock'[Root(c)] = c
    <3>1. Root(c) \in Repos /\ graphLock = c /\ branchLock[Root(c)] = c
      BY <2>1, Requests DEF IInv, LocksHeld, Working
    <3> QED BY <1>5, <3>1, HoldersDiffer
  <2>2. ASSUME NEW m \in Coordinators, job'[m].phase \in Updating
        PROVE  branchLock'[job'[m].root] = m
    <3>1. m # k /\ job'[m] = job[m]
      BY <1>1, <1>3, <2>2 DEF Updating
    <3>2. job[m].root \in Repos /\ branchLock[job[m].root] = m
      BY <2>2, <3>1 DEF IInv, LocksHeld, WorkIsAsked, Updating
    <3> QED BY <1>5, <3>1, <3>2
  <2> QED BY <2>1, <2>2 DEF LocksHeld, Root
<1>8. IndexesAreBehind'
  <2>1. \A q \in Repos : index'[q] # None => index'[q].rev <= lore[q].rev
    BY <1>2, <1>4 DEF IInv, IndexesAreBehind
  <2>2. IndexAtHeadIsComplete'
    BY <1>2, <1>4 DEF IInv, IndexesAreBehind, IndexAtHeadIsComplete, Indexed
  <2>3. \A m \in Coordinators : m # k /\ job[m].phase \in Updating =>
          job[m].root \in Repos /\ job[m].root # r
    BY DEF IInv, LocksHeld, WorkIsAsked, Updating
  <2>4. \A m \in Coordinators : job'[m].phase \in Updating \cup {"index"} =>
          m # k /\ job'[m] = job[m]
    BY <1>1, <1>3 DEF Updating
  <2> HIDE DEF r
  <2> QED BY <1>4, <2>1, <2>2, <2>3, <2>4 DEF IInv, IndexesAreBehind, Root
<1>9. UpdatesAreFollowed'
  BY <1>1, <1>3 DEF IInv, UpdatesAreFollowed
<1> QED BY <1>3, <1>6, <1>7, <1>8, <1>9, EdgesStay DEF IInv

LEMMA DropStaleKeeps == ASSUME IInv, NEW k \in Coordinators, DropStale(k) PROVE IInv'
<1>1. /\ job[k].phase \in Updating /\ EndUpdate(k)
      /\ index' = [index EXCEPT ![job[k].root] = None]
      /\ UNCHANGED <<lore, auto, request, op, try, moves>>
  BY DEF DropStale, Updating
<1>2. None \in IndexType
  BY DEF IndexType
<1> QED BY <1>1, <1>2, IndexUpdateKeeps

LEMMA CommitUpdateKeeps ==
  ASSUME IInv, NEW k \in Coordinators, CommitUpdate(k) PROVE IInv'
<1> DEFINE r == job[k].root
           table == Moves(index[r].links, job[k].paths, job[k].rev)
           entry == [index[r] EXCEPT !.links = table]
<1>1. /\ job[k].phase = "commit" /\ job[k].phase \in Updating /\ EndUpdate(k)
      /\ r \in Repos /\ job[k].rev \in Nat
      /\ UNCHANGED <<lore, auto, request, op, try, moves>>
  BY Types DEF CommitUpdate, Updating, IInv, WorkIsAsked, JobType
<1>2. CASE index' = [index EXCEPT ![r] = None]
  <2>1. None \in IndexType
    BY DEF IndexType
  <2> QED BY <1>1, <1>2, <2>1, IndexUpdateKeeps
<1>3. CASE index[r] # None /\ index' = [index EXCEPT ![r] = entry]
  <2>1. /\ index[r] \in [rev : Nat, links : LinkTable]
        /\ job[k].paths \subseteq Linked(index[r].links)
    BY <1>1, <1>3, Types DEF IInv, IndexesAreBehind, IndexType
  <2>2. /\ table \in LinkTable /\ Linked(table) = Linked(index[r].links)
        /\ \A p \in Linked(table) : table[p].source = index[r].links[p].source
    <3> DEFINE old == index[r].links
    <3>1. old \in LinkTable /\ job[k].paths \subseteq Linked(old)
      BY <2>1
    <3> HIDE DEF old
    <3>2. /\ Moves(old, job[k].paths, job[k].rev) \in LinkTable
          /\ Linked(Moves(old, job[k].paths, job[k].rev)) = Linked(old)
          /\ \A p \in Linked(old) :
               Moves(old, job[k].paths, job[k].rev)[p].source = old[p].source
      BY <1>1, <3>1, MovesKeep
    <3> QED BY <3>2 DEF old
  <2> HIDE DEF table
  <2>3. entry \in IndexType /\ entry.rev = index[r].rev /\ entry.links = table
    BY <2>1, <2>2 DEF IndexType
  <2> HIDE DEF entry
  <2> QED BY <1>1, <1>3, <2>2, <2>3, IndexUpdateKeeps
<1>4. \/ index' = [index EXCEPT ![r] = None]
      \/ index[r] # None /\ index' = [index EXCEPT ![r] = entry]
  BY DEF CommitUpdate
<1> QED BY <1>2, <1>3, <1>4

\* Pushes that add no source close no cycle.
LEMMA PushesKeepEdges ==
  ASSUME IInv, NEW r \in Repos, NEW new \in LinkTable,
         Sources(new) \subseteq Sources(lore[r].links),
         lore' = Pushed(r, new), UNCHANGED <<request, try>>
  PROVE  /\ lore' \in [Repos -> LoreType] /\ EdgesAreFree'
         /\ \A q \in Repos : \/ lore'[q].rev = lore[q].rev /\ lore'[q].links = lore[q].links
                             \/ lore'[q].rev = lore[q].rev + 1
<1>1. /\ lore' \in [Repos -> LoreType]
      /\ lore'[r].rev = lore[r].rev + 1 /\ lore'[r].links = new
      /\ \A q \in Repos : q # r => lore'[q] = lore[q]
  BY PushKeeps, Types DEF IInv
<1>2. \A q \in Repos : Sources(lore'[q].links) \subseteq Sources(lore[q].links)
  BY <1>1
<1>3. NoMutualLinks'
  BY <1>2 DEF IInv, EdgesAreFree, NoMutualLinks
<1>4. ASSUME NEW c \in Attempts, try[c].phase \in {"prepare", "push"}
      PROVE  Root(c) \notin Sources(lore'[Source(c)].links)
  <2>1. Source(c) \in Repos
    BY <1>4, Requests DEF IInv
  <2> QED BY <1>2, <1>4, <2>1 DEF IInv, EdgesAreFree
<1>5. EdgesAreFree'
  BY <1>3, <1>4 DEF EdgesAreFree, Root, Source
<1> QED BY <1>1, <1>5

LEMMA PushUpdateKeeps == ASSUME IInv, NEW k \in Coordinators, PushUpdate(k) PROVE IInv'
<1> DEFINE r == job[k].root
           pushed == Outdated(k) # {}
           x == [job[k] EXCEPT !.phase = "commit", !.pushed = pushed]
           new == Moves(lore[r].links, Outdated(k), lore[job[k].repo].rev)
<1>1. /\ job[k].phase = "push" /\ Indexed(r, lore[r].rev)
      /\ job' = [job EXCEPT ![k] = x]
      /\ UNCHANGED <<index, auto, request, op, try, branchLock, graphLock, moves>>
      /\ lore' = lore \/ lore' = Pushed(r, new)
  BY DEF PushUpdate
<1>2. /\ r \in Repos /\ job[k].repo \in Repos /\ job[k] \in JobType
      /\ pushed \in BOOLEAN
  BY <1>1, Types DEF IInv, WorkIsAsked
<1> HIDE DEF pushed
<1>3. /\ x \in JobType /\ x.phase = "commit" /\ x.repo = job[k].repo
      /\ x.root = r /\ x.paths = job[k].paths
  BY <1>2 DEF JobType
<1> HIDE DEF x
<1>4. /\ job' \in [Coordinators -> JobType] /\ job'[k] = x
      /\ \A m \in Coordinators : m # k => job'[m] = job[m]
      /\ WorkIsAsked' /\ AttemptsAreAlone'
  BY <1>1, <1>2, <1>3, WatchKeeps
<1>5. /\ lore' \in [Repos -> LoreType] /\ EdgesAreFree'
      /\ \A q \in Repos : \/ lore'[q].rev = lore[q].rev /\ lore'[q].links = lore[q].links
                          \/ lore'[q].rev = lore[q].rev + 1
  <2>1. CASE lore' = lore
    BY <1>1, <2>1, EdgesStay, Types DEF IInv
  <2>2. CASE lore' = Pushed(r, new)
    <3>1. lore[r].links \in LinkTable /\ lore[job[k].repo].rev \in Nat
      BY <1>2, Types DEF IInv, LoreType
    <3>2. Outdated(k) \subseteq Linked(lore[r].links)
      <4>1. Outdated(k) \subseteq job[k].paths
        BY DEF Outdated
      <4>2. job[k].paths \subseteq Linked(index[r].links)
        BY <1>1 DEF IInv, IndexesAreBehind, Indexed, Updating
      <4>3. Linked(index[r].links) = Linked(lore[r].links)
        BY <1>1, <1>2 DEF IInv, IndexesAreBehind, IndexAtHeadIsComplete
      <4> QED BY <4>1, <4>2, <4>3
    <3>3. new \in LinkTable /\ Sources(new) = Sources(lore[r].links)
      BY <3>1, <3>2, MovesKeep
    <3> HIDE DEF new, r
    <3> QED BY <1>1, <1>2, <2>2, <3>3, PushesKeepEdges
  <2> QED BY <1>1, <2>1, <2>2
<1>6. LinkTypeOK'
  BY <1>1, <1>4, <1>5, Types, TypesHold DEF IInv
<1>7. LocksHeld'
  BY <1>1, <1>3, <1>4 DEF IInv, LocksHeld, Root, Updating
<1>8. IndexesAreBehind'
  <2>1. \A m \in Coordinators :
          \/ job'[m] = job[m]
          \/ /\ job'[m].phase # "index"
             /\ job'[m].phase \in Updating =>
                  /\ job[m].phase \in Updating
                  /\ job'[m].root = job[m].root /\ job'[m].paths = job[m].paths
    BY <1>1, <1>3, <1>4 DEF Updating
  <2>2. try' \in [Attempts -> TryType]
    BY <1>1, Types DEF IInv
  <2> QED BY <1>1, <1>5, <2>1, <2>2, HeadsMove
<1>9. UpdatesAreFollowed'
  BY <1>1, <1>3, <1>4 DEF IInv, UpdatesAreFollowed
<1> QED BY <1>4, <1>5, <1>6, <1>7, <1>8, <1>9 DEF IInv

LEMMA FailUpdateKeeps == ASSUME IInv, NEW k \in Coordinators, FailUpdate(k) PROVE IInv'
<1>1. /\ job[k].phase \in Updating /\ EndUpdate(k) /\ moves' \in 0..MaxMoves
      /\ UNCHANGED <<lore, index, auto, request, op, try>>
  BY MovedKeeps DEF FailUpdate, Updating, IInv
<1>2. PICK x \in JobType : /\ x.phase = "spread" /\ x.repo \in Repos /\ Release(k)
                           /\ job' = [job EXCEPT ![k] = x]
  BY <1>1, EndUpdateIs
<1> QED BY <1>1, <1>2, WaitKeeps DEF Updating

LEMMA CrashKeeps == ASSUME IInv, NEW k \in Coordinators, Crash(k) PROVE IInv'
<1>1. /\ job' = [job EXCEPT ![k] = Free] /\ Release(k) /\ moves' \in 0..MaxMoves
      /\ UNCHANGED <<lore, index, auto, request, op, try>>
  BY MovedKeeps DEF Crash, IInv
<1> QED BY <1>1, ConstantTypes, WaitKeeps DEF Updating

-----------------------------------------------------------------------------
(* Users. *)

LEMMA UserPushes ==
  ASSUME IInv, NEW r \in Repos, NEW new \in LinkTable,
         Sources(new) \subseteq Sources(lore[r].links), lore' = Pushed(r, new),
         auto' \in [Repos -> [Paths -> BOOLEAN]], UpdatesAreFollowed',
         moves' \in 0..MaxMoves,
         UNCHANGED <<index, request, op, try, branchLock, graphLock, job>>
  PROVE  IInv'
<1>1. /\ lore' \in [Repos -> LoreType] /\ EdgesAreFree'
      /\ \A q \in Repos : \/ lore'[q].rev = lore[q].rev /\ lore'[q].links = lore[q].links
                          \/ lore'[q].rev = lore[q].rev + 1
  BY PushesKeepEdges
<1>2. LinkTypeOK'
  BY <1>1, Types, TypesHold DEF IInv
<1>3. IndexesAreBehind'
  BY <1>1, Types, HeadsMove DEF IInv
<1> QED BY <1>1, <1>2, <1>3, LocksStay, AskedStays, AloneStay DEF IInv

LEMMA UserPushKeeps == ASSUME IInv, NEW r \in Repos, UserPush(r) PROVE IInv'
<1>1. /\ lore[r].links \in LinkTable /\ lore' = Pushed(r, lore[r].links)
      /\ moves' \in 0..MaxMoves
      /\ auto' \in [Repos -> [Paths -> BOOLEAN]] /\ UpdatesAreFollowed'
      /\ UNCHANGED <<index, request, op, try, branchLock, graphLock, job>>
  BY Types, MovedKeeps, FollowedStay DEF UserPush, IInv, LoreType
<1> QED BY <1>1, UserPushes

LEMMA UpdateLinkKeeps ==
  ASSUME IInv, NEW r \in Repos, NEW p \in Paths, UpdateLink(r, p) PROVE IInv'
<1> DEFINE rev == lore[lore[r].links[p].source].rev
           new == Moves(lore[r].links, {p}, rev)
<1>1. /\ lore[r].links \in LinkTable /\ lore' = Pushed(r, new)
      /\ lore[r].links[p] # None /\ moves' \in 0..MaxMoves
      /\ auto' \in [Repos -> [Paths -> BOOLEAN]] /\ UpdatesAreFollowed'
      /\ UNCHANGED <<index, request, op, try, branchLock, graphLock, job>>
  BY Types, MovedKeeps, FollowedStay DEF UpdateLink, IInv, LoreType
<1>2. rev \in Nat
  <2>1. lore[r].links[p] \in Link
    BY <1>1 DEF LinkTable
  <2> QED BY <2>1, Types DEF IInv, Link, LoreType
<1>3. {p} \subseteq Linked(lore[r].links)
  BY <1>1 DEF Linked
<1> HIDE DEF rev
<1>4. new \in LinkTable /\ Sources(new) = Sources(lore[r].links)
  BY <1>1, <1>2, <1>3, MovesKeep
<1> HIDE DEF new
<1> QED BY <1>1, <1>4, UserPushes

LEMMA RemoveLinkKeeps ==
  ASSUME IInv, NEW r \in Repos, NEW p \in Paths, RemoveLink(r, p) PROVE IInv'
<1> DEFINE new == [lore[r].links EXCEPT ![p] = None]
<1>1. /\ lore[r].links \in LinkTable /\ lore' = Pushed(r, new)
      /\ moves' \in 0..MaxMoves
      /\ auto \in [Repos -> [Paths -> BOOLEAN]]
      /\ auto' = [auto EXCEPT ![r][p] = TRUE] \/ auto' = auto
      /\ UNCHANGED <<index, request, op, try, branchLock, graphLock, job>>
  BY Types, MovedKeeps DEF RemoveLink, IInv, LoreType
<1>2. new \in LinkTable
  BY <1>1 DEF LinkTable
<1>3. Sources(new) \subseteq Sources(lore[r].links)
  BY <1>1 DEF Sources, Linked, LinkTable
<1>4. auto' \in [Repos -> [Paths -> BOOLEAN]]
  <2>1. CASE auto' = auto
    BY <1>1, <2>1
  <2>2. CASE auto' = [auto EXCEPT ![r][p] = TRUE]
    BY <1>1, <2>2
  <2> QED BY <1>1, <2>1, <2>2
<1>5. UpdatesAreFollowed'
  <2>1. ASSUME NEW k \in Coordinators, job[k].phase = "push", NEW q \in job[k].paths
        PROVE  auto'[job[k].root][q]
    <3>1. /\ job[k].root \in Repos /\ q \in Paths /\ auto[job[k].root][q]
      BY <2>1, Types DEF IInv, WorkIsAsked, UpdatesAreFollowed, JobType
    <3> QED BY <1>1, <3>1
  <2> QED BY <1>1, <2>1 DEF UpdatesAreFollowed
<1> HIDE DEF new
<1> QED BY <1>1, <1>2, <1>3, <1>4, <1>5, UserPushes

\* A policy is switched while nobody holds the branch: no update of it pushes.
LEMMA SetPolicyKeeps ==
  ASSUME IInv, NEW r \in Repos, NEW p \in Paths, SetPolicy(r, p) PROVE IInv'
<1>1. /\ branchLock[r] = None /\ moves' \in 0..MaxMoves
      /\ auto' = [auto EXCEPT ![r][p] = ~auto[r][p]]
      /\ auto \in [Repos -> [Paths -> BOOLEAN]]
      /\ UNCHANGED <<lore, index, request, op, try, branchLock, graphLock, job>>
  BY Types, MovedKeeps DEF SetPolicy, IInv
<1>2. /\ auto' \in [Repos -> [Paths -> BOOLEAN]]
      /\ \A q \in Repos : q # r => auto'[q] = auto[q]
  BY <1>1
<1>3. LinkTypeOK'
  BY <1>1, <1>2, Types, TypesHold DEF IInv
<1>4. UpdatesAreFollowed'
  <2>1. \A k \in Coordinators : job[k].phase = "push" =>
          job[k].root \in Repos /\ job[k].root # r
    BY <1>1, NoneIsNothing DEF IInv, LocksHeld, WorkIsAsked, Updating
  <2> QED BY <1>1, <1>2, <2>1 DEF IInv, UpdatesAreFollowed
<1> QED BY <1>1, <1>3, <1>4, LocksStay, AskedStays, EdgesStay, IndexesStay, AloneStay DEF IInv

-----------------------------------------------------------------------------

LEMMA NextKeeps == IInv /\ [Next]_vars => IInv'
<1> SUFFICES ASSUME IInv, [Next]_vars PROVE IInv'
  OBVIOUS
<1>1. ASSUME NEW a \in Attempts, Attempt(a) PROVE IInv'
  BY <1>1, CreateKeeps, RetryKeeps, LockKeeps, AcceptExistingKeeps, CheckKeeps, PrepareKeeps,
     PushLinkKeeps, RereadKeeps, CommitKeeps, RecordKeeps, FailKeeps, AbandonKeeps
     DEF Attempt
<1>2. ASSUME NEW k \in Coordinators, Watch(k) PROVE IInv'
  BY <1>2, ObserveKeeps, PropagateKeeps, IndexBranchKeeps, RestKeeps, LockRootKeeps,
     DropStaleKeeps, PushUpdateKeeps, CommitUpdateKeeps, FailUpdateKeeps, CrashKeeps
     DEF Watch
<1>3. CASE User
  BY <1>3, UserPushKeeps, UpdateLinkKeeps, RemoveLinkKeeps, SetPolicyKeeps DEF User
<1>4. CASE UNCHANGED vars
  <2>1. UNCHANGED <<lore, index, auto, request, op, try, branchLock, graphLock, job, moves>>
    BY <1>4 DEF vars
  <2>2. LinkTypeOK'
    BY <2>1 DEF IInv, LinkTypeOK
  <2> QED BY <2>1, <2>2, LocksStay, AskedStays, EdgesStay, IndexesStay, FollowedStay,
             AloneStay DEF IInv
<1> QED BY <1>1, <1>2, <1>3, <1>4 DEF Next

\* The inductive invariant holds: whoever works on a root holds its branch,
\* what an attempt has checked stays true until it pushes, indexes and watches
\* are never ahead of the head, and an operation has one attempt until it is
\* taken over.
THEOREM Invariant == Spec => []IInv
  BY InitIInv, NextKeeps, PTL DEF Spec

\* Heads, indexes, policies, operations and locks keep their types.
THEOREM TypeCorrect == Spec => []LinkTypeOK
<1>1. IInv => LinkTypeOK
  BY DEF IInv
<1> QED BY <1>1, Invariant, PTL

\* However operations, watches and users interleave, no two repositories come
\* to be linked to each other at their heads.
THEOREM LinksAreOneWay == Spec => []NoMutualLinks
<1>1. IInv => NoMutualLinks
  BY DEF IInv, EdgesAreFree
<1> QED BY <1>1, Invariant, PTL

\* An index at the head of its repository names exactly the links of the head,
\* also when late watches and creations write what they saw before.
THEOREM IndexesAreComplete == Spec => []IndexAtHeadIsComplete
<1>1. IInv => IndexAtHeadIsComplete
  BY DEF IInv, IndexesAreBehind
<1> QED BY <1>1, Invariant, PTL

\* An update that pushes finds the links it moves followed automatically at
\* that moment, whenever policies are switched.
THEOREM PinsStay == Spec => PinnedLinksStay
<1> DEFINE Stay == \A k \in Coordinators, p \in Paths :
             LET x == job[k].root IN
             (PushUpdate(k) /\ lore'[x].links[p] # lore[x].links[p]) => auto[x][p]
<1>1. IInv /\ [Next]_vars => [Stay]_vars
  <2> SUFFICES ASSUME IInv, NEW k \in Coordinators, NEW p \in Paths, PushUpdate(k),
                      lore'[job[k].root].links[p] # lore[job[k].root].links[p]
               PROVE  auto[job[k].root][p]
    OBVIOUS
  <2> DEFINE r == job[k].root
             rev == lore[job[k].repo].rev
  <2>1. job[k].phase = "push" /\ r \in Repos
    BY DEF PushUpdate, IInv, WorkIsAsked
  <2>2. lore' = Pushed(r, Moves(lore[r].links, Outdated(k), rev))
    BY DEF PushUpdate
  <2>3. lore'[r].links = Moves(lore[r].links, Outdated(k), rev)
    BY <2>1, <2>2, Types DEF Pushed, IInv, LoreType
  <2>4. p \in Outdated(k)
    BY <2>3 DEF Moves
  <2>5. p \in job[k].paths
    BY <2>4 DEF Outdated
  <2> QED BY <2>1, <2>5 DEF IInv, UpdatesAreFollowed
<1> QED BY <1>1, Invariant, PTL DEF Spec, PinnedLinksStay

\* A stored success is never taken back unless the operation was taken over
\* while an attempt was in flight, whatever is retried, late or abandoned.
THEOREM SuccessesStand == Spec => SuccessStands
<1> DEFINE Stands == \A o \in Ops :
             (op[o].status = "succeeded" /\ ~op[o].taken) => op'[o].status = "succeeded"
<1>1. IInv /\ [Next]_vars => [Stands]_vars
  <2> SUFFICES ASSUME IInv, [Next]_vars, NEW o \in Ops,
                      op[o].status = "succeeded", ~op[o].taken
               PROVE  op'[o].status = "succeeded"
    OBVIOUS
  <2>1. ASSUME NEW a \in Attempts, Attempt(a) PROVE op'[o].status = "succeeded"
    <3>1. a[1] \in Ops /\ op \in [Ops -> OpType]
      BY AttemptsOfOperations, Types DEF IInv
    <3>2. CASE Create(a)
      BY <3>1, <3>2 DEF Create, OpType
    <3>3. CASE Retry(a)
      <4>1. a[1] # o
        BY <3>3 DEF Retry
      <4> QED BY <3>1, <3>3, <4>1 DEF Retry
    <3>4. CASE Prepare(a)
      BY <3>1, <3>4 DEF Prepare, OpType
    <3>5. CASE Record(a)
      <4>1. a[1] # o
        <5>1. a \in InFlight(a[1])
          BY <3>5 DEF Record, InFlight
        <5> QED BY <5>1 DEF IInv, AttemptsAreAlone
      <4> QED BY <3>1, <3>5, <4>1 DEF Record
    <3>6. CASE \/ Lock(a) \/ AcceptExisting(a) \/ Check(a) \/ PushLink(a) \/ Reread(a)
               \/ Commit(a) \/ Fail(a) \/ Abandon(a)
      BY <3>6 DEF Lock, AcceptExisting, Check, PushLink, Reread, Commit, Fail, Abandon
    <3> QED BY <2>1, <3>2, <3>3, <3>4, <3>5, <3>6 DEF Attempt
  <2>2. ASSUME NEW k \in Coordinators, Watch(k) PROVE UNCHANGED op
    BY <2>2 DEF Watch, Observe, Propagate, IndexBranch, Rest, LockRoot, DropStale,
                PushUpdate, CommitUpdate, FailUpdate, Crash
  <2>3. CASE User
    BY <2>3 DEF User, UserPush, UpdateLink, RemoveLink, SetPolicy
  <2>4. CASE UNCHANGED vars
    BY <2>4 DEF vars
  <2> QED BY <2>1, <2>2, <2>3, <2>4 DEF Next
<1> QED BY <1>1, Invariant, PTL DEF Spec, SuccessStands

-----------------------------------------------------------------------------
(* Locks are never left behind, and nobody waits for someone who waits.      *)

\* A lock is held by an attempt on its root that works, or by a watch that
\* updates its root.
LocksAreLive ==
  /\ \A a \in Attempts :
       /\ graphLock = a => try[a].phase \in Working
       /\ \A r \in Repos : branchLock[r] = a => try[a].phase \in Working /\ r = Root(a)
  /\ \A k \in Coordinators, r \in Repos :
       branchLock[r] = k => job[k].phase \in Updating /\ r = job[k].root

LEMMA InitLive == Init => LocksAreLive
  BY NoneIsNothing DEF Init, LocksAreLive

\* The locks of one holder: no other holder's locks change, and it keeps or
\* takes only those of its own work.
LEMMA AttemptLocks ==
  ASSUME IInv, LocksAreLive, NEW a \in Attempts, Attempt(a)
  PROVE  /\ \A c \in Attempts : c # a => try'[c] = try[c]
         /\ UNCHANGED <<request, job>>
         /\ graphLock' \in {graphLock, None, a}
         /\ graphLock' = a => try'[a].phase \in Working
         /\ \A r \in Repos :
              /\ branchLock'[r] \in {branchLock[r], None, a}
              /\ branchLock'[r] = a => try'[a].phase \in Working /\ r = Root(a)
<1>0. /\ try \in [Attempts -> TryType] /\ branchLock \in [Repos -> Holders]
      /\ graphLock \in Attempts \cup {None} /\ a # None
  BY Types, NoneIsNothing DEF IInv
<1>1. UNCHANGED <<request, job>>
  BY DEF Attempt, Create, Retry, Lock, AcceptExisting, Check, Prepare, PushLink, Reread,
         Commit, Record, Fail, Abandon
<1> DEFINE Own ==
             /\ \A c \in Attempts : c # a => try'[c] = try[c]
             /\ graphLock' \in {graphLock, None, a}
             /\ graphLock' = a => try'[a].phase \in Working
             /\ \A r \in Repos :
                  /\ branchLock'[r] \in {branchLock[r], None, a}
                  /\ branchLock'[r] = a => try'[a].phase \in Working /\ r = Root(a)
<1> SUFFICES Own
  BY <1>1
\* It ends.
<1>2. ASSUME NEW x, try' = [try EXCEPT ![a] = x], Release(a) PROVE Own
  <2>1. /\ graphLock' = IF graphLock = a THEN None ELSE graphLock
        /\ \A r \in Repos : branchLock'[r] = IF branchLock[r] = a THEN None ELSE branchLock[r]
    BY <1>2, ReleaseKeeps DEF IInv
  <2> QED BY <1>0, <1>2, <2>1
<1>3. ASSUME NEW outcome \in {"won", "lost"}, End(a, outcome) PROVE Own
  BY <1>2, <1>3 DEF End
\* It goes on with the locks it has.
<1>4. ASSUME NEW x, try' = [try EXCEPT ![a] = x],
             UNCHANGED <<branchLock, graphLock>>,
             try[a].phase \in Working => x.phase \in Working
      PROVE  Own
  BY <1>0, <1>4 DEF LocksAreLive
<1>5. CASE Create(a)
  <2>1. try[a].phase = "idle"
    BY <1>5 DEF Create
  <2> QED BY <1>4, <1>5, <2>1 DEF Create, Working
<1>6. CASE Retry(a)
  <2>1. /\ try[a].phase = "idle" /\ UNCHANGED <<branchLock, graphLock>>
        /\ \E x : try' = [try EXCEPT ![a] = x]
    BY <1>6 DEF Retry
  <2> QED BY <1>4, <2>1 DEF Working
<1>7. CASE Lock(a)
  <2>1. /\ branchLock' = [branchLock EXCEPT ![Root(a)] = a] /\ graphLock' = a
        /\ try' = [try EXCEPT ![a].phase = "check"] /\ try[a].phase = "start"
    BY <1>7 DEF Lock
  <2>2. Root(a) \in Repos
    BY <2>1, Requests DEF IInv
  <2>3. try'[a].phase = "check" /\ \A c \in Attempts : c # a => try'[c] = try[c]
    BY <1>0, <2>1 DEF TryType
  <2>4. \A r \in Repos : branchLock[r] # a
    BY <2>1 DEF LocksAreLive, Working
  <2> QED BY <1>0, <2>1, <2>2, <2>3, <2>4 DEF Working
<1>8. CASE AcceptExisting(a)
  BY <1>3, <1>8 DEF AcceptExisting
<1>9. CASE Check(a)
  <2>1. CASE Refused(a)
    BY <1>3, <1>9, <2>1 DEF Check
  <2>2. CASE ~Refused(a)
    <3> DEFINE x == [try[a] EXCEPT !.phase = "prepare", !.base = lore[Root(a)].rev,
                       !.at = lore[Root(a)].rev, !.links = lore[Root(a)].links]
    <3>1. try' = [try EXCEPT ![a] = x] /\ UNCHANGED <<branchLock, graphLock>>
      BY <1>9, <2>2 DEF Check
    <3>2. x.phase \in Working
      BY <1>0 DEF TryType, Working
    <3> HIDE DEF x
    <3> QED BY <1>4, <3>1, <3>2
  <2> QED BY <2>1, <2>2
<1>10. CASE Prepare(a)
  <2>1. CASE End(a, "lost")
    BY <1>3, <2>1
  <2>2. CASE ~End(a, "lost")
    <3>1. /\ UNCHANGED <<branchLock, graphLock>>
          /\ \E m, p : try' = [try EXCEPT ![a] = [try[a] EXCEPT
               !.phase = "push", !.made = m, !.pin = p]]
      BY <1>10, <2>2 DEF Prepare
    <3>2. PICK m, p : try' = [try EXCEPT ![a] = [try[a] EXCEPT
               !.phase = "push", !.made = m, !.pin = p]]
      BY <3>1
    <3> DEFINE x == [try[a] EXCEPT !.phase = "push", !.made = m, !.pin = p]
    <3>3. try' = [try EXCEPT ![a] = x]
      BY <3>2
    <3>4. x.phase \in Working
      BY <1>0 DEF TryType, Working
    <3> HIDE DEF x
    <3> QED BY <1>4, <3>1, <3>3, <3>4
  <2> QED BY <2>1, <2>2
<1>11. CASE PushLink(a)
  <2> DEFINE x == [try[a] EXCEPT !.phase = "commit"]
  <2>1. try' = [try EXCEPT ![a] = x] /\ UNCHANGED <<branchLock, graphLock>>
    BY <1>11 DEF PushLink
  <2>2. x.phase \in Working
    BY <1>0 DEF TryType, Working
  <2> HIDE DEF x
  <2> QED BY <1>4, <2>1, <2>2
<1>12. CASE Reread(a)
  <2>1. CASE try[a].made /\ try[a].rereads < MaxRereads
    <3> DEFINE x == [try[a] EXCEPT !.at = lore[Root(a)].rev, !.rereads = try[a].rereads + 1]
    <3>1. try' = [try EXCEPT ![a] = x] /\ UNCHANGED <<branchLock, graphLock>>
      BY <1>12, <2>1 DEF Reread
    <3>2. x.phase \in Working
      BY <1>0, <1>12 DEF Reread, TryType, Working
    <3> HIDE DEF x
    <3> QED BY <1>4, <3>1, <3>2
  <2>2. CASE ~(try[a].made /\ try[a].rereads < MaxRereads)
    BY <1>3, <1>12, <2>2 DEF Reread
  <2> QED BY <2>1, <2>2
<1>13. CASE Commit(a)
  BY <1>3, <1>13 DEF Commit
<1>14. CASE Record(a)
  <2>1. /\ try' = [try EXCEPT ![a] = Idle] /\ UNCHANGED <<branchLock, graphLock>>
        /\ try[a].phase \notin Working
    BY <1>14 DEF Record, Working
  <2> QED BY <1>4, <2>1
<1>15. CASE Fail(a)
  BY <1>3, <1>15 DEF Fail
<1>16. CASE Abandon(a)
  BY <1>2, <1>16 DEF Abandon
<1> QED BY <1>5, <1>6, <1>7, <1>8, <1>9, <1>10, <1>11, <1>12, <1>13, <1>14, <1>15, <1>16
        DEF Attempt

LEMMA WatchLocks ==
  ASSUME IInv, LocksAreLive, NEW k \in Coordinators, Watch(k)
  PROVE  /\ \A m \in Coordinators : m # k => job'[m] = job[m]
         /\ UNCHANGED <<request, try>> /\ graphLock' \in {graphLock, None}
         /\ \A r \in Repos :
              /\ branchLock'[r] \in {branchLock[r], None, k}
              /\ branchLock'[r] = k => job'[k].phase \in Updating /\ r = job'[k].root
<1>0. /\ job \in [Coordinators -> JobType] /\ branchLock \in [Repos -> Holders]
      /\ k # None
  BY Types, NoneIsNothing DEF IInv
<1>1. UNCHANGED <<request, try>>
  BY DEF Watch, Observe, Propagate, IndexBranch, Rest, LockRoot, DropStale,
         PushUpdate, CommitUpdate, FailUpdate, Crash
<1> DEFINE Own ==
             /\ \A m \in Coordinators : m # k => job'[m] = job[m]
             /\ graphLock' \in {graphLock, None}
             /\ \A r \in Repos :
                  /\ branchLock'[r] \in {branchLock[r], None, k}
                  /\ branchLock'[r] = k => job'[k].phase \in Updating /\ r = job'[k].root
<1> SUFFICES Own
  BY <1>1
<1>2. ASSUME NEW x, job' = [job EXCEPT ![k] = x], Release(k) PROVE Own
  <2>1. /\ graphLock' = IF graphLock = k THEN None ELSE graphLock
        /\ \A r \in Repos : branchLock'[r] = IF branchLock[r] = k THEN None ELSE branchLock[r]
    BY <1>2, ReleaseKeeps DEF IInv
  <2> QED BY <1>0, <1>2, <2>1
<1>3. ASSUME NEW x, job' = [job EXCEPT ![k] = x], UNCHANGED <<branchLock, graphLock>>,
             job[k].phase \in Updating => x.phase \in Updating /\ x.root = job[k].root
      PROVE  Own
  BY <1>0, <1>3 DEF LocksAreLive
<1>4. CASE DropStale(k) \/ CommitUpdate(k) \/ FailUpdate(k) \/ Crash(k)
  BY <1>2, <1>4 DEF DropStale, CommitUpdate, FailUpdate, EndUpdate, Crash
<1>5. CASE (\E r \in Repos : Observe(k, r) \/ Propagate(k, r)) \/ IndexBranch(k) \/ Rest(k)
  <2>1. job[k].phase \notin Updating /\ UNCHANGED <<branchLock, graphLock>>
    BY <1>5 DEF Observe, Propagate, IndexBranch, Rest, Updating
  <2>2. \E x : job' = [job EXCEPT ![k] = x]
    BY <1>5 DEF Observe, Propagate, IndexBranch, Rest
  <2> QED BY <1>3, <2>1, <2>2
<1>6. CASE PushUpdate(k)
  <2> DEFINE x == [job[k] EXCEPT !.phase = "commit", !.pushed = Outdated(k) # {}]
  <2>1. job' = [job EXCEPT ![k] = x] /\ UNCHANGED <<branchLock, graphLock>>
    BY <1>6 DEF PushUpdate
  <2>2. x.phase = "commit" /\ x.root = job[k].root
    BY <1>0 DEF JobType
  <2> HIDE DEF x
  <2> QED BY <1>3, <2>1, <2>2 DEF Updating
<1>7. CASE LockRoot(k)
  <2>1. job[k].phase = "lock" /\ job[k].root \in Repos
    BY <1>7 DEF LockRoot, IInv, WorkIsAsked
  <2>2. CASE UNCHANGED branchLock /\
             job' = [job EXCEPT ![k] = [job[k] EXCEPT !.phase = "spread", !.root = None]]
    BY <1>3, <1>7, <2>1, <2>2 DEF LockRoot, Updating
  <2>3. CASE /\ branchLock' = [branchLock EXCEPT ![job[k].root] = k]
             /\ job' = [job EXCEPT ![k] = [job[k] EXCEPT !.phase = "push",
                                             !.paths = Pending(k, job[k].root)]]
    <3>1. \A r \in Repos : branchLock[r] # k
      BY <2>1 DEF LocksAreLive, Updating
    <3>2. /\ job'[k].phase = "push" /\ job'[k].root = job[k].root
          /\ \A m \in Coordinators : m # k => job'[m] = job[m]
      BY <1>0, <2>3 DEF JobType
    <3>3. UNCHANGED graphLock
      BY <1>7 DEF LockRoot
    <3> QED BY <1>0, <2>1, <2>3, <3>1, <3>2, <3>3 DEF Updating
  <2> QED BY <1>7, <2>2, <2>3 DEF LockRoot
<1> QED BY <1>4, <1>5, <1>6, <1>7 DEF Watch

LEMMA NextLive ==
  ASSUME IInv, LocksAreLive, [Next]_vars PROVE LocksAreLive'
<1>1. ASSUME NEW a \in Attempts, Attempt(a) PROVE LocksAreLive'
  BY <1>1, AttemptLocks, HoldersDiffer, NoneIsNothing DEF LocksAreLive, Root
<1>2. ASSUME NEW k \in Coordinators, Watch(k) PROVE LocksAreLive'
  BY <1>2, WatchLocks, HoldersDiffer, NoneIsNothing DEF LocksAreLive, Root
<1>3. CASE User \/ UNCHANGED vars
  BY <1>3 DEF User, UserPush, UpdateLink, RemoveLink, SetPolicy, vars, LocksAreLive, Root
<1> QED BY <1>1, <1>2, <1>3 DEF Next

LEMMA Live == Spec => [](IInv /\ LocksAreLive)
<1>1. IInv /\ LocksAreLive /\ [Next]_vars => LocksAreLive'
  BY NextLive
<1> QED BY <1>1, InitLive, Invariant, PTL DEF Spec

\* An attempt that waits waits for someone who works, and who then has all the
\* locks it needs.
NobodyWaitsInVain ==
  \A a \in Attempts : try[a].phase = "start" =>
    \/ branchLock[Root(a)] = None /\ graphLock = None
    \/ \E c \in Attempts :
         graphLock = c /\ branchLock[Root(c)] = c /\ try[c].phase \in Working
    \/ \E k \in Coordinators :
         branchLock[Root(a)] = k /\ job[k].phase \in Updating /\ job[k].root = Root(a)

\* The branch lock and the graph lock are always those of someone at work,
\* through failures, abandoned requests and crashes; as both are taken in one
\* order, whoever waits for them waits for nobody who waits.
THEOREM LocksAreReleased == Spec => [](LocksAreLive /\ NobodyWaitsInVain)
<1>1. ASSUME IInv, LocksAreLive, NEW a \in Attempts, try[a].phase = "start"
      PROVE  \/ branchLock[Root(a)] = None /\ graphLock = None
             \/ \E c \in Attempts :
                  graphLock = c /\ branchLock[Root(c)] = c /\ try[c].phase \in Working
             \/ \E k \in Coordinators :
                  branchLock[Root(a)] = k /\ job[k].phase \in Updating /\ job[k].root = Root(a)
  <2>1. /\ Root(a) \in Repos /\ branchLock[Root(a)] \in Holders
        /\ graphLock \in Attempts \cup {None}
    BY <1>1, Requests, Types DEF IInv
  <2>2. CASE graphLock \in Attempts
    BY <1>1, <2>2 DEF LocksAreLive, IInv, LocksHeld
  <2>3. CASE branchLock[Root(a)] \in Attempts
    <3>1. try[branchLock[Root(a)]].phase \in Working
      BY <1>1, <2>1, <2>3 DEF LocksAreLive
    <3> QED BY <1>1, <2>3, <3>1 DEF IInv, LocksHeld
  <2>4. CASE branchLock[Root(a)] \in Coordinators
    BY <1>1, <2>1, <2>4 DEF LocksAreLive
  <2> QED BY <2>1, <2>2, <2>3, <2>4 DEF Holders
<1>2. IInv /\ LocksAreLive => NobodyWaitsInVain
  BY <1>1 DEF NobodyWaitsInVain
<1> QED BY <1>2, Live, PTL

-----------------------------------------------------------------------------
(* A success is of a link that is there. *)

\* The link that an attempt was to add is at the head of its root.
HasItsLink(a) ==
  /\ lore[Root(a)].links[Path(a)] # None
  /\ lore[Root(a)].links[Path(a)].source = Source(a)

\* Until the push is committed nobody removes or replaces its link.
PushesStand == \A a \in Attempts : try[a].phase = "commit" => HasItsLink(a)

SuccessHasItsLink ==
  [][\A a \in Attempts :
       try[a].phase # "won" /\ try'[a].phase = "won" => HasItsLink(a)]_vars

LEMMA PushLinkStands ==
  ASSUME IInv, NEW a \in Attempts, PushLink(a) PROVE HasItsLink(a)'
<1>1. PICK paths \in Updatable(a) : lore' = Pushed(Root(a), NewLinks(a, paths))
  BY DEF PushLink
<1>2. Root(a) \in Repos /\ Source(a) \in Repos /\ Path(a) \in Paths
  BY Requests DEF IInv, PushLink
<1>3. /\ NewLinks(a, paths) \in LinkTable
      /\ NewLinks(a, paths)[Path(a)] # None
      /\ NewLinks(a, paths)[Path(a)].source = Source(a)
  BY NewLinksAre DEF PushLink
<1>6. lore'[Root(a)].links = NewLinks(a, paths)
  BY <1>1, <1>2, <1>3, PushKeeps, Types DEF IInv
<1>7. UNCHANGED request
  BY DEF PushLink
<1> QED BY <1>3, <1>6, <1>7 DEF HasItsLink, Root, Path, Source

\* Only a push comes to its commit, and only a commit or a link that is there
\* already is a success.
LEMMA Turns ==
  ASSUME IInv, NEW c \in Attempts, Attempt(c)
  PROVE  /\ \A a \in Attempts : a # c => try'[a] = try[a]
         /\ try'[c].phase = "commit" => PushLink(c)
         /\ try'[c].phase = "won" => AcceptExisting(c) \/ Commit(c)
<1>0. try \in [Attempts -> TryType] /\ try[c] \in TryType
  BY Types DEF IInv
<1>1. ASSUME NEW x, try' = [try EXCEPT ![c] = x]
      PROVE  try'[c] = x /\ \A a \in Attempts : a # c => try'[a] = try[a]
  BY <1>0, <1>1
<1>2. ASSUME NEW outcome \in {"won", "lost"}, End(c, outcome)
      PROVE  /\ try'[c].phase = outcome
             /\ \A a \in Attempts : a # c => try'[a] = try[a]
  BY <1>0, <1>2, EndIs
<1>3. CASE Create(c)
  <2> DEFINE x == [try[c] EXCEPT !.phase = "start", !.base = lore[Root(c)].rev]
  <2>1. try' = [try EXCEPT ![c] = x] /\ x.phase = "start"
    BY <1>0, <1>3 DEF Create, TryType
  <2> HIDE DEF x
  <2> QED BY <1>1, <2>1
<1>4. CASE Retry(c)
  <2>1. PICK ready : try' = [try EXCEPT ![c] =
                       [try[c] EXCEPT !.phase = "start", !.ready = ready, !.retry = TRUE]]
    BY <1>4 DEF Retry
  <2> DEFINE x == [try[c] EXCEPT !.phase = "start", !.ready = ready, !.retry = TRUE]
  <2>2. try' = [try EXCEPT ![c] = x] /\ x.phase = "start"
    BY <1>0, <2>1 DEF TryType
  <2> HIDE DEF x
  <2> QED BY <1>1, <2>2
<1>5. CASE Lock(c)
  BY <1>0, <1>5 DEF Lock, TryType
<1>6. CASE AcceptExisting(c)
  BY <1>2, <1>6 DEF AcceptExisting
<1>7. CASE Check(c)
  <2>1. CASE Refused(c)
    BY <1>2, <1>7, <2>1 DEF Check
  <2>2. CASE ~Refused(c)
    <3> DEFINE x == [try[c] EXCEPT !.phase = "prepare", !.base = lore[Root(c)].rev,
                       !.at = lore[Root(c)].rev, !.links = lore[Root(c)].links]
    <3>1. try' = [try EXCEPT ![c] = x] /\ x.phase = "prepare"
      BY <1>0, <1>7, <2>2 DEF Check, TryType
    <3> HIDE DEF x
    <3> QED BY <1>1, <3>1
  <2> QED BY <2>1, <2>2
<1>8. CASE Prepare(c)
  <2>1. CASE End(c, "lost")
    BY <1>2, <2>1
  <2>2. CASE ~End(c, "lost")
    <3>1. \E m, p : try' = [try EXCEPT ![c] = [try[c] EXCEPT
                              !.phase = "push", !.made = m, !.pin = p]]
      BY <1>8, <2>2 DEF Prepare
    <3>2. PICK m, p : try' = [try EXCEPT ![c] = [try[c] EXCEPT
                              !.phase = "push", !.made = m, !.pin = p]]
      BY <3>1
    <3> DEFINE x == [try[c] EXCEPT !.phase = "push", !.made = m, !.pin = p]
    <3>3. try' = [try EXCEPT ![c] = x] /\ x.phase = "push"
      BY <1>0, <3>2 DEF TryType
    <3> HIDE DEF x
    <3> QED BY <1>1, <3>3
  <2> QED BY <2>1, <2>2
<1>9. CASE PushLink(c)
  BY <1>0, <1>9 DEF PushLink, TryType
<1>10. CASE Reread(c)
  <2>1. CASE End(c, "lost")
    BY <1>2, <2>1
  <2>2. CASE ~End(c, "lost")
    <3> DEFINE x == [try[c] EXCEPT !.at = lore[Root(c)].rev, !.rereads = try[c].rereads + 1]
    <3>1. try' = [try EXCEPT ![c] = x] /\ x.phase = "push"
      BY <1>0, <1>10, <2>2 DEF Reread, TryType
    <3> HIDE DEF x
    <3> QED BY <1>1, <3>1
  <2> QED BY <2>1, <2>2
<1>11. CASE Commit(c)
  BY <1>2, <1>11 DEF Commit
<1>12. CASE Record(c) \/ Abandon(c)
  BY <1>1, <1>12, ConstantTypes DEF Record, Abandon
<1>13. CASE Fail(c)
  BY <1>2, <1>13 DEF Fail
<1> QED BY <1>3, <1>4, <1>5, <1>6, <1>7, <1>8, <1>9, <1>10, <1>11, <1>12, <1>13 DEF Attempt

\* A step that moves pins or leaves the root alone leaves its links there.
LEMMA LinkStays ==
  ASSUME NEW a \in Attempts, HasItsLink(a), UNCHANGED request,
         \/ lore'[Root(a)].links = lore[Root(a)].links
         \/ /\ lore'[Root(a)].links[Path(a)] # None
            /\ lore'[Root(a)].links[Path(a)].source = lore[Root(a)].links[Path(a)].source
  PROVE  HasItsLink(a)'
  BY DEF HasItsLink, Root, Path, Source

LEMMA NextStands ==
  ASSUME IInv, PushesStand, [Next]_vars PROVE PushesStand'
<1>0. /\ try \in [Attempts -> TryType] /\ lore \in [Repos -> LoreType]
      /\ UNCHANGED request
  <2>1. UNCHANGED request
    BY DEF Next, vars, Attempt, Create, Retry, Lock, AcceptExisting, Check, Prepare, PushLink,
           Reread, Commit, Record, Fail, Abandon, Watch, Observe, Propagate, IndexBranch, Rest,
           LockRoot, DropStale, PushUpdate, CommitUpdate, FailUpdate, Crash, User, UserPush,
           UpdateLink, RemoveLink, SetPolicy
  <2> QED BY <2>1, Types DEF IInv
<1>1. ASSUME NEW a \in Attempts, try[a].phase = "commit"
      PROVE  /\ HasItsLink(a) /\ Root(a) \in Repos /\ Path(a) \in Paths
             /\ branchLock[Root(a)] = a /\ graphLock = a
             /\ \A c \in Attempts : c # a => try[c].phase \notin Working
  BY <1>1, Requests, OthersWait DEF IInv, LocksHeld, Working, PushesStand
\* Attempts.
<1>2. ASSUME NEW c \in Attempts, Attempt(c), NEW a \in Attempts, try'[a].phase = "commit"
      PROVE  HasItsLink(a)'
  <2>1. CASE PushLink(c)
    <3>1. try[c].phase = "push" /\ try' = [try EXCEPT ![c].phase = "commit"]
      BY <2>1 DEF PushLink
    <3>2. CASE a = c
      BY <2>1, <3>2, PushLinkStands
    <3>3. CASE a # c
      <4>1. try[a].phase = "commit"
        BY <1>0, <1>2, <3>1, <3>3
      <4> QED BY <1>1, <3>1, <3>3, <4>1 DEF Working
    <3> QED BY <3>2, <3>3
  <2>2. CASE ~PushLink(c)
    <3>1. try[a].phase = "commit"
      BY <1>2, <2>2, Turns
    <3>2. ~Prepare(c)
      BY <1>1, <3>1 DEF Prepare, Working
    <3>3. UNCHANGED lore
      BY <1>2, <2>2, <3>2
         DEF Attempt, Create, Retry, Lock, AcceptExisting, Check, Reread, Commit,
             Record, Fail, Abandon
    <3> QED BY <1>0, <1>1, <3>1, <3>3, LinkStays
  <2> QED BY <2>1, <2>2
\* Watches and users hold or find free the branch that they push to.
<1>3. ASSUME NEW a \in Attempts, try[a].phase = "commit", NEW r \in Repos, NEW links \in LinkTable,
             r # Root(a) \/ links = lore[r].links, lore' = Pushed(r, links)
      PROVE  HasItsLink(a)'
  BY <1>0, <1>1, <1>3, PushKeeps, LinkStays
<1>4. ASSUME NEW k \in Coordinators, Watch(k), NEW a \in Attempts, try'[a].phase = "commit"
      PROVE  HasItsLink(a)'
  <2>1. UNCHANGED try
    BY <1>4 DEF Watch, Observe, Propagate, IndexBranch, Rest,
           LockRoot, DropStale, PushUpdate, CommitUpdate, FailUpdate, Crash
  <2>2. CASE UNCHANGED lore
    BY <1>0, <1>1, <1>4, <2>1, <2>2, LinkStays
  <2>3. CASE PushUpdate(k)
    <3>1. /\ job[k].phase = "push" /\ job[k].root \in Repos
          /\ branchLock[job[k].root] = k
      BY <2>3 DEF PushUpdate, IInv, LocksHeld, WorkIsAsked, Updating
    <3>2. job[k].root # Root(a)
      BY <1>1, <1>4, <2>1, <3>1, HoldersDiffer
    <3>3. lore'[Root(a)] = lore[Root(a)]
      BY <1>0, <1>1, <1>4, <2>1, <2>3, <3>1, <3>2 DEF PushUpdate, Pushed
    <3> QED BY <1>0, <1>1, <1>4, <2>1, <3>3, LinkStays
  <2> QED BY <1>4, <2>2, <2>3 DEF Watch, Observe, Propagate, IndexBranch, Rest,
           LockRoot, DropStale, CommitUpdate, FailUpdate, Crash
<1>5. ASSUME User, NEW a \in Attempts, try'[a].phase = "commit"
      PROVE  HasItsLink(a)'
  <2>1. UNCHANGED try
    BY <1>5 DEF User, UserPush, UpdateLink, RemoveLink, SetPolicy
  <2>2. lore'[Root(a)].links = lore[Root(a)].links
    <3>1. PICK r \in Repos :
            \/ UserPush(r)
            \/ \E p \in Paths : UpdateLink(r, p) \/ RemoveLink(r, p) \/ SetPolicy(r, p)
      BY <1>5 DEF User
    <3>2. CASE UserPush(r)
      BY <1>0, <1>1, <1>5, <2>1, <3>2 DEF UserPush, Pushed, LoreType
    <3>3. ASSUME NEW p \in Paths, UpdateLink(r, p) \/ RemoveLink(r, p)
          PROVE  lore'[Root(a)].links = lore[Root(a)].links
      <4>1. r # Root(a)
        BY <1>1, <1>5, <2>1, <3>3, NoneIsNothing DEF UpdateLink, RemoveLink
      <4> QED BY <1>0, <1>1, <1>5, <2>1, <3>3, <4>1 DEF UpdateLink, RemoveLink, Pushed
    <3>4. ASSUME NEW p \in Paths, SetPolicy(r, p)
          PROVE  lore'[Root(a)].links = lore[Root(a)].links
      BY <3>4 DEF SetPolicy
    <3> QED BY <3>1, <3>2, <3>3, <3>4
  <2> QED BY <1>0, <1>1, <1>5, <2>1, <2>2, LinkStays
<1>6. CASE UNCHANGED vars
  BY <1>6 DEF vars, PushesStand, HasItsLink, Root, Path, Source
<1> QED BY <1>2, <1>4, <1>5, <1>6 DEF Next, PushesStand

\* Whoever wins has its link: an attempt records a success only of a link that
\* is at the head of its root at that moment, with the source it was asked for,
\* whatever users and watches push between its own push and its commit.
THEOREM SuccessesAreReal == Spec => SuccessHasItsLink
<1> DEFINE Real == \A a \in Attempts :
             try[a].phase # "won" /\ try'[a].phase = "won" => HasItsLink(a)
<1>1. Init => PushesStand
  BY ConstantTypes DEF Init, PushesStand
<1>2. IInv /\ PushesStand /\ [Next]_vars => PushesStand'
  BY NextStands
<1>3. IInv /\ PushesStand /\ [Next]_vars => [Real]_vars
  <2> SUFFICES ASSUME IInv, PushesStand, Next, NEW a \in Attempts,
                      try[a].phase # "won", try'[a].phase = "won"
               PROVE  HasItsLink(a)
    OBVIOUS
  <2>1. try \in [Attempts -> TryType]
    BY Types DEF IInv
  <2>2. ASSUME NEW c \in Attempts, Attempt(c) PROVE HasItsLink(a)
    <3>1. CASE AcceptExisting(c)
      <4>1. CASE try[c].ready /\ lore[Root(c)].links[Path(c)].source = Source(c)
        <5>1. try' = [try EXCEPT ![c] = [Idle EXCEPT !.phase = "won"]]
          BY <3>1, <4>1 DEF AcceptExisting, End
        <5>2. a = c
          BY <2>1, <5>1
        <5> QED BY <3>1, <4>1, <5>2 DEF AcceptExisting, Taken, HasItsLink
      <4>2. CASE End(c, "lost")
        BY <2>1, <4>2, ConstantTypes DEF End, TryType
      <4> QED BY <3>1, <4>1, <4>2 DEF AcceptExisting
    <3>2. CASE Commit(c)
      <4>1. try' = [try EXCEPT ![c] = [Idle EXCEPT !.phase = "won"]] /\ try[c].phase = "commit"
        BY <3>2 DEF Commit, End
      <4>2. a = c
        BY <2>1, <4>1
      <4> QED BY <4>1, <4>2 DEF PushesStand
    <3>3. CASE ~AcceptExisting(c) /\ ~Commit(c)
      BY <2>2, <3>3, Turns
    <3> QED BY <3>1, <3>2, <3>3
  <2>3. ASSUME NEW k \in Coordinators, Watch(k) PROVE UNCHANGED try
    BY <2>3 DEF Watch, Observe, Propagate, IndexBranch, Rest,
           LockRoot, DropStale, PushUpdate, CommitUpdate, FailUpdate, Crash
  <2>4. CASE User
    BY <2>4 DEF User, UserPush, UpdateLink, RemoveLink, SetPolicy
  <2> QED BY <2>2, <2>3, <2>4 DEF Next
<1> QED BY <1>1, <1>2, <1>3, Invariant, PTL DEF Spec, SuccessHasItsLink
=============================================================================
