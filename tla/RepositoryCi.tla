----------------------------- MODULE RepositoryCi -----------------------------
(***************************************************************************)
(* The CI configuration of one repository and the admission of its pushes  *)
(* (src/src/server/triggers.rs, src/src/server/ci_settings.rs,             *)
(* src/src/ci/settings.rs).                                                *)
(*                                                                         *)
(* Every coordinator watches the repository and reconciles its branches in *)
(* one transaction behind an advisory try-lock: it lists the heads of the  *)
(* branches, compares each with the branch's cursor, derives the routes    *)
(* from the configuration in force, queues the pipelines whose files       *)
(* changed and moves the cursor.  Users meanwhile save, restore and switch *)
(* the configuration of a branch and choose the branches that are watched: *)
(* their handlers ask Lore for the heads first and take the lock           *)
(* afterwards, so what they asked may be old when they commit.             *)
(*                                                                         *)
(* A definition is the set of the names of its pipelines, and a pipeline   *)
(* watches one file, so that it matches a push when this file differs.     *)
(* Renamed branches, sparse views, runs that a user starts and the links   *)
(* between repositories are left out.                                      *)
(***************************************************************************)
EXTENDS Naturals, Sequences, FiniteSets

CONSTANTS Branches, Codes, Names,
          Coordinators, Users,
          File,         \* .lore-ci.toml of a revision: missing, bad or valid
          Content,      \* the file a pipeline watches, in a revision
          MaxMoves,     \* bound: pushes to a branch
          MaxVersions,  \* bound: saved configurations of a branch
          MaxLock       \* bound: changes of a branch's configuration

Zero == "zero"          \* the revision of a branch without a commit
Heads == Codes \cup {Zero, "gone"}
Marks == Codes \cup {Zero, "unset"}
Definitions == (SUBSET Names) \ {{}}
ConfigType == [mode : {"file", "db"}, active : 0..MaxVersions, lock : 0..MaxLock]

ASSUME RepositoryAssumption ==
  /\ Codes \cap {Zero, "gone", "unset"} = {}
  /\ MaxMoves \in Nat /\ MaxVersions \in Nat /\ MaxLock \in Nat
  /\ File \in [Codes -> [state : {"missing", "bad", "valid"}, names : SUBSET Names]]
  /\ \A c \in Codes : File[c].state # "valid" => File[c].names = {}
  /\ "free" \notin Coordinators

VARIABLES heads,       \* Lore: the latest revision of each branch
          moves,       \* how often the head of each branch has moved
          enabled,     \* ci_repository_pipeline_branches.branches
          watched,     \* whether ci_watched_repositories has the repository
          cursor,      \* ci_branch_cursors.revision
          cursorAt,    \* the move of the head that the cursor stands for
          snapshot,    \* ci_pipeline_route_snapshots.revision
          routes,      \* ci_pipeline_routes: the names
          config,      \* ci_configs
          versions,    \* ci_config_revisions.definition
          groups,      \* ci_run_groups of kind push
          runs,        \* pipelines with a previous revision
          lock,        \* who holds the repository's advisory lock
          seen,        \* what a coordinator has read since it took the lock
          asked        \* what a user's handler has read before the lock

lore == <<heads, moves>>
settings == <<config, versions>>
watch == <<enabled, watched, cursor, cursorAt>>
derived == <<snapshot, routes>>
queue == <<groups, runs>>
vars == <<lore, settings, watch, derived, queue, lock, seen, asked>>

Idle == [op |-> "none"]

\* What a coordinator reads under the lock, and a user's handler before it.
Reading == [op : {"reconcile"}, heads : [Branches -> Heads],
            moves : [Branches -> 0..MaxMoves], config : [Branches -> ConfigType]]
SettingsRequest ==
  [op : {"save", "restore", "file"}, branch : Branches, code : Codes \cup {Zero},
   lock : 0..MaxLock, names : Definitions, version : 0..MaxVersions]
BranchesRequest ==
  [op : {"branches"}, wanted : SUBSET Branches, heads : [Branches -> Heads],
   moves : [Branches -> 0..MaxMoves]]

Init ==
  /\ heads \in [Branches -> Codes \cup {Zero}]
  /\ moves = [b \in Branches |-> 0]
  /\ enabled \in SUBSET Branches
  /\ watched = FALSE
  /\ cursor = [b \in Branches |-> "unset"] /\ cursorAt = [b \in Branches |-> 0]
  /\ snapshot = [b \in Branches |-> "unset"] /\ routes = [b \in Branches |-> {}]
  /\ config = [b \in Branches |-> [mode |-> "file", active |-> 0, lock |-> 0]]
  /\ versions = [b \in Branches |-> <<>>]
  /\ groups = {} /\ runs = {}
  /\ lock = "free"
  /\ seen = [k \in Coordinators |-> Idle]
  /\ asked = [u \in Users |-> Idle]

-----------------------------------------------------------------------------
(* Lore: a push, a branch that is archived, and one that is created again  *)
(* under the same name from any revision.                                  *)

Move(b) ==
  /\ moves[b] < MaxMoves
  /\ \E h \in Heads \ {heads[b], Zero} : heads' = [heads EXCEPT ![b] = h]
  /\ moves' = [moves EXCEPT ![b] = @ + 1]
  /\ UNCHANGED <<settings, watch, derived, queue, lock, seen, asked>>

-----------------------------------------------------------------------------
(* A coordinator reconciles.                                               *)

\* Mutant: the heads are listed before the lock is taken.
ObserveUnlocked(k) ==
  /\ seen[k] = Idle
  /\ seen' = [seen EXCEPT ![k] = [op |-> "reconcile", heads |-> heads,
                                  moves |-> moves, config |-> config]]
  /\ lock' = "free"
  /\ UNCHANGED <<lore, settings, watch, derived, queue, asked>>

\* pg_try_advisory_xact_lock, then `branch list` and the configurations.
Observe(k) ==
  /\ lock = "free"
  /\ lock' = k
  /\ seen' = [seen EXCEPT ![k] = [op |-> "reconcile", heads |-> heads,
                                  moves |-> moves, config |-> config]]
  /\ UNCHANGED <<lore, settings, watch, derived, queue, asked>>

\* The configuration in force: the active version, or the file of the revision.
Definition(b, code, c) ==
  IF c.mode = "db" THEN versions[b][c.active] ELSE File[code].names

\* A branch first pushed after monitoring began is compared with the empty tree.
Previous(b) == IF cursor[b] = "unset" /\ watched THEN Zero ELSE cursor[b]

\* Mutant: current routes alone mean that the head has been handled.
DueByRoutes(k) ==
  {b \in enabled : seen[k].heads[b] # "gone" /\ snapshot[b] # seen[k].heads[b]}

\* The branches a coordinator has to handle.
Due(k) ==
  {b \in enabled : /\ seen[k].heads[b] # "gone"
                   /\ ~ (Previous(b) = seen[k].heads[b]
                         /\ snapshot[b] = seen[k].heads[b])}

\* The pipelines of the definition that watch a changed file; of a first push,
\* those whose file is there.
Touched(b, code, c) ==
  LET before(n) == IF Previous(b) = Zero THEN "absent" ELSE Content[Previous(b)][n]
  IN  IF Previous(b) = "unset" THEN {}
      ELSE {n \in Definition(b, code, c) : Content[code][n] # before(n)}

Pushed(k) == {b \in Due(k) : seen[k].heads[b] # Zero}

PushRun(b, code, n, c) ==
  [branch |-> b, code |-> code, name |-> n,
   version |-> IF c.mode = "db" THEN c.active ELSE 0]

\* Mutant: a push is deduplicated for each version of the configuration.
AdmittedPerVersion(b, code) ==
  /\ <<b, code>> \in groups
  /\ \E r \in runs : r.branch = b /\ r.code = code /\ r.version = config[b].active

\* The group of this push of code exists (ci_run_groups_push_once).
Admitted(b, code) == <<b, code>> \in groups

\* What triggers::enqueue inserts for one branch: of a database configuration
\* nothing or everything, of a file what pipelines_push_once lets in.
NewRuns(b, code, c) ==
  LET wanted == {PushRun(b, code, n, c) : n \in Touched(b, code, c)}
  IN  IF c.mode = "db"
        THEN IF Admitted(b, code) THEN {} ELSE wanted
        ELSE {r \in wanted : ~ \E q \in runs : /\ q.branch = b /\ q.code = code
                                                /\ q.name = r.name}

\* settings::enqueue inserts without ON CONFLICT: a run of this push that is
\* there already fails the transaction.
Clashes(b, code, c) ==
  /\ c.mode = "db"
  /\ \E r \in NewRuns(b, code, c), q \in runs :
       q.branch = b /\ q.code = code /\ q.name = r.name

Unreadable(code, c) == c.mode = "file" /\ File[code].state = "bad"

\* One branch fails the transaction of all.
Fails(k) ==
  \E b \in Pushed(k) : LET code == seen[k].heads[b]  c == seen[k].config[b]
                       IN  Unreadable(code, c) \/ Clashes(b, code, c)

Admit(k) ==
  LET head(b) == seen[k].heads[b]
      c(b) == seen[k].config[b]
      dropped == Branches \ enabled
  IN
  /\ seen[k] # Idle /\ lock \in {k, "free"}
  /\ ~ Fails(k)
  /\ cursor' = [b \in Branches |-> IF b \in dropped THEN "unset"
                                   ELSE IF b \in Due(k) THEN head(b) ELSE cursor[b]]
  /\ cursorAt' = [b \in Branches |-> IF b \in dropped THEN 0
                                     ELSE IF b \in Due(k) THEN seen[k].moves[b]
                                     ELSE cursorAt[b]]
  /\ snapshot' = [b \in Branches |-> IF b \in dropped THEN "unset"
                                     ELSE IF b \in Due(k) THEN head(b) ELSE snapshot[b]]
  /\ routes' = [b \in Branches |->
                  IF b \in dropped THEN {}
                  ELSE IF b \in Pushed(k) THEN Definition(b, head(b), c(b))
                  ELSE IF b \in Due(k) THEN {} ELSE routes[b]]
  /\ runs' = runs \cup UNION {NewRuns(b, head(b), c(b)) : b \in Pushed(k)}
  /\ groups' = groups \cup {<<b, head(b)>> : b \in {d \in Pushed(k) :
                  c(d).mode = "db" /\ Touched(d, head(d), c(d)) # {}}}
  /\ watched' = TRUE
  /\ lock' = "free" /\ seen' = [seen EXCEPT ![k] = Idle]
  /\ UNCHANGED <<lore, settings, enabled, asked>>

\* A command of Lore fails, a configuration is invalid, a row is refused, or
\* the coordinator goes down: the transaction is rolled back.
RollBack(k) ==
  /\ seen[k] # Idle /\ lock \in {k, "free"}
  /\ lock' = "free" /\ seen' = [seen EXCEPT ![k] = Idle]
  /\ UNCHANGED <<lore, settings, watch, derived, queue, asked>>

-----------------------------------------------------------------------------
(* A user changes the configuration of a branch, or the watched branches.  *)
(* `code` and the expected lock version are those of the time of asking.   *)

Asks(u, request) ==
  /\ asked[u] = Idle
  /\ asked' = [asked EXCEPT ![u] = request]
  /\ UNCHANGED <<lore, settings, watch, derived, queue, lock, seen>>

AskSettings(u, b) ==
  /\ heads[b] # "gone"
  /\ \E op \in {"save", "restore", "file"}, names \in Definitions,
        v \in 1..Len(versions[b]) \cup {0} :
       /\ (op = "save") = (v = 0)
       /\ op # "save" => names = versions[b][v]
       /\ op = "file" => v = config[b].active
       /\ Asks(u, [op |-> op, branch |-> b, code |-> heads[b],
                   lock |-> config[b].lock, names |-> names, version |-> v])

\* Mutant: nobody looks whether a branch still exists.
AskAnyBranches(u) ==
  \E wanted \in SUBSET Branches :
    Asks(u, [op |-> "branches", wanted |-> wanted, heads |-> heads, moves |-> moves])

AskBranches(u) ==
  \E wanted \in SUBSET {b \in Branches : heads[b] # "gone"} :
    Asks(u, [op |-> "branches", wanted |-> wanted, heads |-> heads, moves |-> moves])

Answers(u) == asked' = [asked EXCEPT ![u] = Idle]

\* A change commits: the lock is free, and the lock version is still the one
\* the user has seen.
Changes(u, op) ==
  /\ asked[u].op = op /\ lock = "free"
  /\ config[asked[u].branch].lock = asked[u].lock
  /\ asked[u].lock < MaxLock
  /\ Answers(u)
  /\ UNCHANGED <<lore, watch, queue, lock, seen>>

\* Mutant: a restored version is activated without its routes.
Unsynced(b, code, names) ==
  /\ routes' = [routes EXCEPT ![b] = @]
  /\ snapshot' = [snapshot EXCEPT ![b] = code]

\* sync_routes: the routes are those of the definition, read at the code.
SyncRoutes(b, code, names) ==
  /\ routes' = [routes EXCEPT ![b] = names]
  /\ snapshot' = [snapshot EXCEPT ![b] = code]

\* settings::activate: a version is put in force, under the next lock version.
Activate(b, version, expected) ==
  config' = [config EXCEPT ![b] =
               [mode |-> "db", active |-> version, lock |-> expected + 1]]

\* settings::save: versions are appended and never changed.
AppendVersion(b, names) ==
  /\ Len(versions[b]) < MaxVersions
  /\ versions' = [versions EXCEPT ![b] = Append(@, names)]

Save(u) ==
  LET r == asked[u] IN
  /\ Changes(u, "save")
  /\ AppendVersion(r.branch, r.names)
  /\ Activate(r.branch, Len(versions[r.branch]) + 1, r.lock)
  /\ SyncRoutes(r.branch, r.code, r.names)

Restore(u) ==
  LET r == asked[u] IN
  /\ Changes(u, "restore")
  /\ Activate(r.branch, r.version, r.lock)
  /\ SyncRoutes(r.branch, r.code, r.names)
  /\ UNCHANGED versions

\* The committed file has to be the active definition.
ReturnToFile(u) ==
  LET r == asked[u] IN
  /\ Changes(u, "file")
  /\ r.code # Zero /\ File[r.code].state = "valid"
  /\ File[r.code].names = versions[r.branch][config[r.branch].active]
  /\ config' = [config EXCEPT ![r.branch] =
                  [mode |-> "file", active |-> @.active, lock |-> r.lock + 1]]
  /\ SyncRoutes(r.branch, r.code, File[r.code].names)
  /\ UNCHANGED versions

\* Mutant: the baseline of a branch overwrites its cursor.
BaselineAlways(b) == TRUE

\* The baseline of a branch is recorded ON CONFLICT DO NOTHING.
NeedsBaseline(b) == cursor[b] = "unset"

ChooseBranches(u) ==
  LET r == asked[u] IN
  /\ r.op = "branches" /\ lock = "free"
  /\ enabled' = r.wanted
  /\ routes' = [b \in Branches |-> IF b \in r.wanted THEN routes[b] ELSE {}]
  /\ snapshot' = [b \in Branches |-> IF b \in r.wanted THEN snapshot[b] ELSE "unset"]
  /\ cursor' = [b \in Branches |-> IF b \notin r.wanted THEN "unset"
                                   ELSE IF NeedsBaseline(b) THEN r.heads[b]
                                   ELSE cursor[b]]
  /\ cursorAt' = [b \in Branches |-> IF b \notin r.wanted THEN 0
                                     ELSE IF NeedsBaseline(b) THEN r.moves[b]
                                     ELSE cursorAt[b]]
  /\ Answers(u)
  /\ UNCHANGED <<lore, settings, watched, queue, lock, seen>>

\* A conflict, an invalid file, or a client that has gone.
Refuse(u) ==
  /\ asked[u] # Idle
  /\ Answers(u)
  /\ UNCHANGED <<lore, settings, watch, derived, queue, lock, seen>>

Next ==
  \/ \E b \in Branches : Move(b)
  \/ \E k \in Coordinators : Observe(k) \/ Admit(k) \/ RollBack(k)
  \/ \E u \in Users :
       \/ \E b \in Branches : AskSettings(u, b)
       \/ AskBranches(u)
       \/ Save(u) \/ Restore(u) \/ ReturnToFile(u) \/ ChooseBranches(u) \/ Refuse(u)

Spec == Init /\ [][Next]_vars

\* A watch reconciles every thirty seconds and after each notification; its
\* transaction ends, and Lore answers its commands again and again.
Fairness ==
  /\ WF_vars(\E k \in Coordinators : Observe(k))
  /\ WF_vars(\E k \in Coordinators : Admit(k) \/ RollBack(k))
  /\ SF_vars(\E k \in Coordinators : Admit(k))

FairSpec == Spec /\ Fairness

-----------------------------------------------------------------------------
CiTypeOK ==
  /\ heads \in [Branches -> Heads] /\ moves \in [Branches -> 0..MaxMoves]
  /\ enabled \subseteq Branches /\ watched \in BOOLEAN
  /\ cursor \in [Branches -> Marks] /\ cursorAt \in [Branches -> 0..MaxMoves]
  /\ snapshot \in [Branches -> Marks] /\ routes \in [Branches -> SUBSET Names]
  /\ config \in [Branches -> ConfigType]
  /\ versions \in [Branches -> Seq(Definitions)]
  /\ \A b \in Branches :
       /\ Len(versions[b]) <= MaxVersions
       /\ config[b].active <= Len(versions[b])
       /\ config[b].mode = "db" => config[b].active # 0
  /\ groups \subseteq Branches \X Codes
  /\ runs \subseteq [branch : Branches, code : Codes, name : Names,
                     version : 0..MaxVersions]
  /\ lock \in Coordinators \cup {"free"}
  /\ seen \in [Coordinators -> {Idle} \cup Reading]
  /\ asked \in [Users -> {Idle} \cup SettingsRequest \cup BranchesRequest]

\* The routes of a branch are those of the configuration in force, whoever
\* changed the configuration, the mode or the head, and in whatever order
\* ("The active version and derived ci_pipeline_routes change in the same
\* transaction", docs/ci-database.md:10).
RoutesFollowConfiguration ==
  \A b \in Branches :
    snapshot[b] \in Codes => routes[b] = Definition(b, snapshot[b], config[b])

\* A cursor never goes back to an older head, although several coordinators
\* list heads and users record baselines from heads they read before the lock.
CursorNeverStale ==
  [][\A b \in Branches :
       cursor[b] # "unset" /\ cursor'[b] # "unset" => cursorAt'[b] >= cursorAt[b]]_vars

\* A cursor passes a head only when every pipeline in force whose file differs
\* from the one at the old cursor has been queued for the new head, in this
\* step or by an earlier push of the same revision.
PassedHeadsAreQueued ==
  [][\A b \in Branches :
       (cursor[b] \in Codes /\ cursor'[b] \in Codes /\ cursor'[b] # cursor[b]) =>
         \A n \in Definition(b, cursor'[b], config[b]) :
           Content[cursor'[b]][n] # Content[cursor[b]][n] =>
             \/ \E r \in runs' : r.branch = b /\ r.code = cursor'[b] /\ r.name = n
             \/ config[b].mode = "db" /\ <<b, cursor'[b]>> \in groups]_vars

\* Once a push has been queued under a version of the database configuration,
\* no edit, restore or repeated push of the revision queues it under another.
DatabasePushKeepsVersion ==
  \A q, r \in runs :
    q.branch = r.branch /\ q.code = r.code /\ q.version # 0 /\ r.version # 0
      => q.version = r.version

Pending(b) ==
  b \in enabled /\ heads[b] \in Codes \cup {Zero} /\ cursor[b] # heads[b]

\* A watched branch whose configuration cannot be read or whose runs are
\* refused holds up the branches of the repository.
HeldUp ==
  \E b \in enabled :
    /\ heads[b] \in Codes
    /\ Unreadable(heads[b], config[b]) \/ Clashes(b, heads[b], config[b])

\* Every head of a watched branch is handled in the end, over lost
\* notifications, failed transactions and changes of the configuration.
HeadsAreHandled == \A b \in Branches : Pending(b) ~> (~ Pending(b) \/ HeldUp)

-----------------------------------------------------------------------------
(* What docs/ci-database.md:39 says ("A push is deduplicated by repository, *)
(* branch and code revision") and the code does not do.                    *)

\* As long as every configuration can be read, a head is handled in the end,
\* also one that the branch has had before.
RepeatedPushesAreHandled == \A b \in Branches : Pending(b) ~> ~ Pending(b)
=============================================================================
