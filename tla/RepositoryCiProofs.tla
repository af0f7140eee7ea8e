-------------------------- MODULE RepositoryCiProofs --------------------------
(***************************************************************************)
(* Proofs about RepositoryCi, for any branches, revisions, pipelines,      *)
(* coordinators and users, and whatever the files of the revisions are.    *)
(***************************************************************************)
EXTENDS RepositoryCi, TLAPS

\* Only the holder of the lock has read anything, and nobody else changes the
\* configurations, or the cursors, while it holds the lock.
Locked == \A k \in Coordinators : seen[k] # Idle <=> lock = k

ReadsAreCurrent == \A k \in Coordinators : lock = k => seen[k].config = config

\* What a user has asked for was so when it was asked, and versions stay.
RequestsAreSound ==
  \A u \in Users :
    /\ asked[u].op = "branches" =>
         \A b \in asked[u].wanted : b \in Branches /\ asked[u].heads[b] # "gone"
    /\ asked[u].op \in {"restore", "file"} =>
         /\ asked[u].version \in 1..Len(versions[asked[u].branch])
         /\ asked[u].names = versions[asked[u].branch][asked[u].version]

TypeInv == CiTypeOK /\ Locked /\ RequestsAreSound

LEMMA InitTypeInv == Init => TypeInv
<1> SUFFICES ASSUME Init PROVE TypeInv
  OBVIOUS
<1>1. /\ config \in [Branches -> ConfigType]
      /\ versions \in [Branches -> Seq(Definitions)]
      /\ \A b \in Branches : Len(versions[b]) = 0 /\ config[b].active = 0
                           /\ config[b].mode = "file"
  BY RepositoryAssumption DEF Init, ConfigType
<1>2. /\ heads \in [Branches -> Heads] /\ moves \in [Branches -> 0..MaxMoves]
      /\ cursor \in [Branches -> Marks] /\ cursorAt \in [Branches -> 0..MaxMoves]
      /\ snapshot \in [Branches -> Marks] /\ routes \in [Branches -> SUBSET Names]
  BY RepositoryAssumption DEF Init, Heads, Marks
<1>3. CiTypeOK
  <2>1. /\ enabled \subseteq Branches /\ watched \in BOOLEAN
        /\ groups \subseteq Branches \X Codes
        /\ runs \subseteq [branch : Branches, code : Codes, name : Names,
                           version : 0..MaxVersions]
        /\ lock \in Coordinators \cup {"free"}
        /\ seen \in [Coordinators -> {Idle} \cup Reading]
        /\ asked \in [Users -> {Idle} \cup SettingsRequest \cup BranchesRequest]
    BY DEF Init
  <2>2. \A b \in Branches : /\ Len(versions[b]) <= MaxVersions
                            /\ config[b].active <= Len(versions[b])
                            /\ config[b].mode = "db" => config[b].active # 0
    BY <1>1, RepositoryAssumption
  <2> QED BY <1>1, <1>2, <2>1, <2>2 DEF CiTypeOK
<1>4. Locked /\ RequestsAreSound
  BY RepositoryAssumption DEF Init, Locked, RequestsAreSound, Idle
<1> QED BY <1>3, <1>4 DEF TypeInv

-----------------------------------------------------------------------------
(* Type correctness.                                                       *)

LEMMA MoveType == ASSUME TypeInv, NEW b \in Branches, Move(b) PROVE TypeInv'
  BY RepositoryAssumption
  DEF TypeInv, CiTypeOK, Locked, RequestsAreSound, Move, Heads, settings, watch,
      derived, queue

LEMMA ObserveType == ASSUME TypeInv, NEW k \in Coordinators, Observe(k) PROVE TypeInv'
<1>1. [op |-> "reconcile", heads |-> heads, moves |-> moves, config |-> config]
        \in Reading
  BY DEF TypeInv, CiTypeOK, Reading
<1>2. CiTypeOK'
  BY <1>1 DEF TypeInv, CiTypeOK, Observe, lore, settings, watch, derived, queue
<1>3. Locked'
  BY RepositoryAssumption DEF TypeInv, CiTypeOK, Locked, Observe, Idle
<1>4. RequestsAreSound'
  BY DEF TypeInv, RequestsAreSound, Observe, settings
<1> QED BY <1>2, <1>3, <1>4 DEF TypeInv

LEMMA RollBackType == ASSUME TypeInv, NEW k \in Coordinators, RollBack(k) PROVE TypeInv'
<1>1. CiTypeOK'
  BY DEF TypeInv, CiTypeOK, RollBack, lore, settings, watch, derived, queue
<1>2. Locked'
  BY RepositoryAssumption DEF TypeInv, CiTypeOK, Locked, RollBack
<1>3. RequestsAreSound'
  BY DEF TypeInv, RequestsAreSound, RollBack, settings
<1> QED BY <1>1, <1>2, <1>3 DEF TypeInv

\* A definition in force is a set of names.
LEMMA DefinitionType ==
  ASSUME TypeInv, NEW b \in Branches, NEW code \in Codes, NEW c \in ConfigType,
         c = config[b]
  PROVE  Definition(b, code, c) \in SUBSET Names
<1>1. CASE c.mode = "db"
  <2>1. c.active \in 1..Len(versions[b])
    BY <1>1 DEF TypeInv, CiTypeOK, ConfigType
  <2>2. versions[b] \in Seq(Definitions)
    BY DEF TypeInv, CiTypeOK
  <2>3. versions[b][c.active] \in Definitions
    BY <2>1, <2>2
  <2> QED BY <1>1, <2>3 DEF Definition, Definitions
<1>2. CASE c.mode # "db"
  BY <1>2, RepositoryAssumption DEF Definition
<1> QED BY <1>1, <1>2

\* What a step of a coordinator adds to the queue.
LEMMA NewRunsType ==
  ASSUME TypeInv, NEW b \in Branches, NEW code \in Codes, NEW c \in ConfigType,
         c = config[b]
  PROVE  NewRuns(b, code, c) \subseteq
           [branch : Branches, code : Codes, name : Names, version : 0..MaxVersions]
<1>1. Touched(b, code, c) \subseteq Names
  BY DefinitionType DEF Touched
<1>2. \A n \in Names : PushRun(b, code, n, c) \in
         [branch : Branches, code : Codes, name : Names, version : 0..MaxVersions]
  BY RepositoryAssumption DEF PushRun, ConfigType
<1> QED BY <1>1, <1>2 DEF NewRuns

\* Of a branch that is pushed, the holder of the lock knows head and configuration.
LEMMA PushedType ==
  ASSUME TypeInv, ReadsAreCurrent, NEW k \in Coordinators, lock = k
  PROVE  /\ seen[k] \in Reading
         /\ Due(k) \subseteq Branches
         /\ \A b \in Due(k) : seen[k].heads[b] \in Codes \cup {Zero}
         /\ Pushed(k) \subseteq Due(k)
         /\ \A b \in Pushed(k) : /\ seen[k].heads[b] \in Codes
                                /\ seen[k].config[b] = config[b]
                                /\ config[b] \in ConfigType
<1>1. seen[k] \in Reading /\ seen[k].config = config
  BY DEF TypeInv, CiTypeOK, Locked, ReadsAreCurrent
<1>2. seen[k].heads \in [Branches -> Heads]
  BY <1>1 DEF Reading
<1>3. Due(k) \subseteq Branches /\ Pushed(k) \subseteq Due(k)
  BY DEF TypeInv, CiTypeOK, Due, Pushed
<1>4. \A b \in Due(k) : seen[k].heads[b] \in Codes \cup {Zero}
  BY <1>2, <1>3 DEF Due, Heads
<1>5. config \in [Branches -> ConfigType]
  BY DEF TypeInv, CiTypeOK
<1> QED BY <1>1, <1>3, <1>4, <1>5 DEF Pushed

LEMMA AdmitType ==
  ASSUME TypeInv, ReadsAreCurrent, NEW k \in Coordinators, Admit(k)
  PROVE  TypeInv'
<1>1. lock = k
  BY RepositoryAssumption DEF TypeInv, Locked, Admit
<1>2. Locked'
  BY <1>1, RepositoryAssumption DEF TypeInv, CiTypeOK, Locked, Admit
<1>3. RequestsAreSound'
  BY DEF TypeInv, RequestsAreSound, Admit, settings
<1>4. /\ cursor' \in [Branches -> Marks] /\ snapshot' \in [Branches -> Marks]
      /\ cursorAt' \in [Branches -> 0..MaxMoves]
  <2>1. \A b \in Due(k) : seen[k].heads[b] \in Marks
    BY <1>1, PushedType DEF Marks
  <2>2. \A b \in Branches : seen[k].moves[b] \in 0..MaxMoves
    BY <1>1, PushedType DEF Reading
  <2>3. 0 \in 0..MaxMoves
    BY RepositoryAssumption
  <2> QED BY <2>1, <2>2, <2>3 DEF Admit, TypeInv, CiTypeOK, Marks
<1>5. routes' \in [Branches -> SUBSET Names]
  <2>1. \A b \in Pushed(k) :
          Definition(b, seen[k].heads[b], seen[k].config[b]) \in SUBSET Names
    BY <1>1, PushedType, DefinitionType
  <2> QED BY <2>1 DEF Admit, TypeInv, CiTypeOK
<1>6. runs' \subseteq [branch : Branches, code : Codes, name : Names,
                      version : 0..MaxVersions]
  <2>1. \A b \in Pushed(k) :
          NewRuns(b, seen[k].heads[b], seen[k].config[b]) \subseteq
            [branch : Branches, code : Codes, name : Names, version : 0..MaxVersions]
    BY <1>1, PushedType, NewRunsType
  <2> QED BY <2>1 DEF Admit, TypeInv, CiTypeOK
<1>7. groups' \subseteq Branches \X Codes
  BY <1>1, PushedType DEF Admit, TypeInv, CiTypeOK
<1>8. CiTypeOK'
  BY <1>4, <1>5, <1>6, <1>7 DEF TypeInv, CiTypeOK, Admit, lore, settings
<1> QED BY <1>2, <1>3, <1>8 DEF TypeInv

LEMMA AskSettingsType ==
  ASSUME TypeInv, NEW u \in Users, NEW b \in Branches, AskSettings(u, b)
  PROVE  TypeInv'
<1>1. PICK op \in {"save", "restore", "file"}, names \in Definitions,
           v \in 1..Len(versions[b]) \cup {0} :
        /\ (op = "save") = (v = 0)
        /\ op # "save" => names = versions[b][v]
        /\ Asks(u, [op |-> op, branch |-> b, code |-> heads[b],
                    lock |-> config[b].lock, names |-> names, version |-> v])
  BY DEF AskSettings
<1> DEFINE r == [op |-> op, branch |-> b, code |-> heads[b],
                 lock |-> config[b].lock, names |-> names, version |-> v]
<1>2. versions[b] \in Seq(Definitions) /\ Len(versions[b]) <= MaxVersions
  BY DEF TypeInv, CiTypeOK
<1>3. r \in SettingsRequest
  <2>1. heads[b] \in Codes \cup {Zero}
    BY DEF AskSettings, TypeInv, CiTypeOK, Heads
  <2>2. config[b].lock \in 0..MaxLock
    BY DEF TypeInv, CiTypeOK, ConfigType
  <2>3. v \in 0..MaxVersions
    BY <1>2, RepositoryAssumption
  <2> QED BY <2>1, <2>2, <2>3 DEF SettingsRequest
<1>4. asked' = [asked EXCEPT ![u] = r]
  BY <1>1 DEF Asks
<1>5. CiTypeOK'
  BY <1>1, <1>3, <1>4
  DEF TypeInv, CiTypeOK, Asks, lore, settings, watch, derived, queue
<1>6. Locked'
  BY <1>1 DEF TypeInv, Locked, Asks
<1>7. RequestsAreSound'
  <2>1. asked'[u] = r /\ \A w \in Users \ {u} : asked'[w] = asked[w]
    BY <1>4 DEF TypeInv, CiTypeOK
  <2>2. versions' = versions
    BY <1>1 DEF Asks, settings
  <2> QED BY <1>1, <2>1, <2>2 DEF TypeInv, RequestsAreSound
<1> QED BY <1>5, <1>6, <1>7 DEF TypeInv

LEMMA AskBranchesType ==
  ASSUME TypeInv, NEW u \in Users, AskBranches(u) PROVE TypeInv'
<1>1. PICK wanted \in SUBSET {b \in Branches : heads[b] # "gone"} :
        Asks(u, [op |-> "branches", wanted |-> wanted, heads |-> heads,
                 moves |-> moves])
  BY DEF AskBranches
<1> DEFINE r == [op |-> "branches", wanted |-> wanted, heads |-> heads, moves |-> moves]
<1>2. r \in BranchesRequest
  BY DEF BranchesRequest, TypeInv, CiTypeOK
<1>3. asked' = [asked EXCEPT ![u] = r]
  BY <1>1 DEF Asks
<1>4. CiTypeOK'
  BY <1>1, <1>2, <1>3
  DEF TypeInv, CiTypeOK, Asks, lore, settings, watch, derived, queue
<1>5. Locked'
  BY <1>1 DEF TypeInv, Locked, Asks
<1>6. RequestsAreSound'
  <2>1. asked'[u] = r /\ \A w \in Users \ {u} : asked'[w] = asked[w]
    BY <1>3 DEF TypeInv, CiTypeOK
  <2>2. versions' = versions
    BY <1>1 DEF Asks, settings
  <2> QED BY <1>1, <2>1, <2>2 DEF TypeInv, RequestsAreSound
<1> QED BY <1>4, <1>5, <1>6 DEF TypeInv

LEMMA RefuseType == ASSUME TypeInv, NEW u \in Users, Refuse(u) PROVE TypeInv'
<1>1. CiTypeOK'
  BY DEF TypeInv, CiTypeOK, Refuse, Answers, lore, settings, watch, derived, queue
<1>2. Locked'
  BY DEF TypeInv, Locked, Refuse
<1>3. RequestsAreSound'
  BY DEF TypeInv, CiTypeOK, RequestsAreSound, Refuse, Answers, settings, Idle
<1> QED BY <1>1, <1>2, <1>3 DEF TypeInv

\* A request for the settings of one branch is a SettingsRequest.
LEMMA RequestType ==
  ASSUME TypeInv, NEW u \in Users
  PROVE  /\ asked[u].op \in {"save", "restore", "file"} => asked[u] \in SettingsRequest
         /\ asked[u].op = "branches" => asked[u] \in BranchesRequest
<1>1. asked[u] \in {Idle} \cup SettingsRequest \cup BranchesRequest
  BY DEF TypeInv, CiTypeOK
<1>2. Idle.op = "none"
  BY DEF Idle
<1>3. \A r \in SettingsRequest : r.op \in {"save", "restore", "file"}
  BY DEF SettingsRequest
<1>4. \A r \in BranchesRequest : r.op = "branches"
  BY DEF BranchesRequest
<1> QED BY <1>1, <1>2, <1>3, <1>4

\* What all changes of a branch's settings have in common.
LEMMA SettingsType ==
  ASSUME TypeInv, NEW u \in Users, NEW op \in {"save", "restore", "file"},
         Changes(u, op),
         routes' \in [Branches -> SUBSET Names], snapshot' \in [Branches -> Marks],
         config' \in [Branches -> ConfigType],
         versions' \in [Branches -> Seq(Definitions)],
         \A b \in Branches :
           /\ Len(versions'[b]) <= MaxVersions
           /\ config'[b].active <= Len(versions'[b])
           /\ config'[b].mode = "db" => config'[b].active # 0
           /\ Len(versions[b]) <= Len(versions'[b])
           /\ \A v \in 1..Len(versions[b]) : versions'[b][v] = versions[b][v]
  PROVE  TypeInv'
<1>1. asked' = [asked EXCEPT ![u] = Idle]
  BY DEF Changes, Answers
<1>2. UNCHANGED <<heads, moves, enabled, watched, cursor, cursorAt, groups, runs,
                  lock, seen>>
  BY DEF Changes, lore, watch, queue
<1>3. CiTypeOK'
  BY <1>1, <1>2 DEF TypeInv, CiTypeOK
<1>4. Locked'
  BY <1>2 DEF TypeInv, Locked
<1>5. RequestsAreSound'
  <2> SUFFICES ASSUME NEW w \in Users
               PROVE /\ asked'[w].op = "branches" =>
                          \A b \in asked'[w].wanted :
                             b \in Branches /\ asked'[w].heads[b] # "gone"
                     /\ asked'[w].op \in {"restore", "file"} =>
                          /\ asked'[w].version \in 1..Len(versions'[asked'[w].branch])
                          /\ asked'[w].names =
                               versions'[asked'[w].branch][asked'[w].version]
    BY DEF RequestsAreSound
  <2>1. CASE w = u
    BY <2>1, <1>1 DEF TypeInv, CiTypeOK, Idle
  <2>2. CASE w # u
    <3>1. asked'[w] = asked[w]
      BY <2>2, <1>1 DEF TypeInv, CiTypeOK
    <3>2. CASE asked[w].op = "branches"
      BY <3>1, <3>2 DEF TypeInv, RequestsAreSound
    <3>3. CASE asked[w].op \in {"restore", "file"}
      <4>1. asked[w].branch \in Branches
        BY <3>3, RequestType DEF SettingsRequest
      <4>2. /\ asked[w].version \in 1..Len(versions[asked[w].branch])
            /\ asked[w].names = versions[asked[w].branch][asked[w].version]
        BY <3>3 DEF TypeInv, RequestsAreSound
      <4>3. /\ Len(versions[asked[w].branch]) \in Nat
            /\ Len(versions'[asked[w].branch]) \in Nat
        BY <4>1 DEF TypeInv, CiTypeOK
      <4> QED BY <3>1, <3>3, <4>1, <4>2, <4>3
    <3> QED BY <3>1, <3>2, <3>3
  <2> QED BY <2>1, <2>2
<1> QED BY <1>3, <1>4, <1>5 DEF TypeInv

LEMMA SaveType == ASSUME TypeInv, NEW u \in Users, Save(u) PROVE TypeInv'
<1> DEFINE r == asked[u]
<1>1. /\ Changes(u, "save") /\ r.op = "save" /\ r.lock < MaxLock
      /\ config[r.branch].lock = r.lock
  BY DEF Save, Activate, AppendVersion, Changes
<1>2. r \in SettingsRequest
  BY <1>1, RequestType
<1>3. /\ r.branch \in Branches /\ r.code \in Codes \cup {Zero} /\ r.names \in Definitions
      /\ r.lock \in 0..MaxLock
  BY <1>2 DEF SettingsRequest
<1>4. /\ versions[r.branch] \in Seq(Definitions) /\ Len(versions[r.branch]) \in Nat
      /\ Len(versions[r.branch]) < MaxVersions
  BY <1>3 DEF Save, Activate, AppendVersion, TypeInv, CiTypeOK
<1>5. /\ Append(versions[r.branch], r.names) \in Seq(Definitions)
      /\ Len(Append(versions[r.branch], r.names)) = Len(versions[r.branch]) + 1
      /\ \A v \in 1..Len(versions[r.branch]) :
           Append(versions[r.branch], r.names)[v] = versions[r.branch][v]
  BY <1>3, <1>4
<1>6. versions' = [versions EXCEPT ![r.branch] = Append(@, r.names)]
  BY DEF Save, Activate, AppendVersion
<1>7. config' = [config EXCEPT ![r.branch] =
                   [mode |-> "db", active |-> Len(versions[r.branch]) + 1,
                    lock |-> r.lock + 1]]
  BY DEF Save, Activate, AppendVersion
<1>8. [mode |-> "db", active |-> Len(versions[r.branch]) + 1, lock |-> r.lock + 1]
        \in ConfigType
  <2>1. Len(versions[r.branch]) + 1 \in 0..MaxVersions /\ r.lock + 1 \in 0..MaxLock
    BY <1>1, <1>3, <1>4, RepositoryAssumption
  <2> QED BY <2>1 DEF ConfigType
<1>9. routes' \in [Branches -> SUBSET Names] /\ snapshot' \in [Branches -> Marks]
  BY <1>3 DEF Save, Activate, AppendVersion, SyncRoutes, TypeInv, CiTypeOK, Definitions,
     Marks
<1>10. config' \in [Branches -> ConfigType] /\ versions' \in [Branches -> Seq(Definitions)]
  BY <1>3, <1>5, <1>6, <1>7, <1>8 DEF TypeInv, CiTypeOK
<1>11. ASSUME NEW b \in Branches
       PROVE  /\ Len(versions'[b]) <= MaxVersions
              /\ config'[b].active <= Len(versions'[b])
              /\ config'[b].mode = "db" => config'[b].active # 0
              /\ Len(versions[b]) <= Len(versions'[b])
              /\ \A v \in 1..Len(versions[b]) : versions'[b][v] = versions[b][v]
  <2>1. CASE b = r.branch
    <3>1. versions'[b] = Append(versions[b], r.names)
      BY <2>1, <1>6 DEF TypeInv, CiTypeOK
    <3>2. /\ config'[b].active = Len(versions[b]) + 1 /\ config'[b].mode = "db"
      BY <2>1, <1>7 DEF TypeInv, CiTypeOK
    <3> QED BY <2>1, <3>1, <3>2, <1>4, <1>5, RepositoryAssumption
  <2>2. CASE b # r.branch
    <3>1. versions'[b] = versions[b] /\ config'[b] = config[b]
      BY <2>2, <1>6, <1>7 DEF TypeInv, CiTypeOK
    <3>2. Len(versions[b]) \in Nat
      BY DEF TypeInv, CiTypeOK
    <3> QED BY <3>1, <3>2 DEF TypeInv, CiTypeOK
  <2> QED BY <2>1, <2>2
<1> QED BY <1>1, <1>9, <1>10, <1>11, SettingsType

LEMMA RestoreType == ASSUME TypeInv, NEW u \in Users, Restore(u) PROVE TypeInv'
<1> DEFINE r == asked[u]
<1>1. /\ Changes(u, "restore") /\ r.op = "restore" /\ r.lock < MaxLock
  BY DEF Restore, Activate, Changes
<1>2. r \in SettingsRequest
  BY <1>1, RequestType
<1>3. /\ r.branch \in Branches /\ r.code \in Codes \cup {Zero} /\ r.names \in Definitions
      /\ r.lock \in 0..MaxLock /\ r.version \in 0..MaxVersions
  BY <1>2 DEF SettingsRequest
<1>4. r.version \in 1..Len(versions[r.branch])
  BY <1>1 DEF TypeInv, RequestsAreSound
<1>5. versions' = versions
  BY DEF Restore, Activate
<1>6. config' = [config EXCEPT ![r.branch] =
                   [mode |-> "db", active |-> r.version, lock |-> r.lock + 1]]
  BY DEF Restore, Activate
<1>7. [mode |-> "db", active |-> r.version, lock |-> r.lock + 1] \in ConfigType
  <2>1. r.lock + 1 \in 0..MaxLock
    BY <1>1, <1>3, RepositoryAssumption
  <2> QED BY <1>3, <2>1 DEF ConfigType
<1>8. routes' \in [Branches -> SUBSET Names] /\ snapshot' \in [Branches -> Marks]
  BY <1>3 DEF Restore, Activate, SyncRoutes, TypeInv, CiTypeOK, Definitions, Marks
<1>9. config' \in [Branches -> ConfigType] /\ versions' \in [Branches -> Seq(Definitions)]
  BY <1>3, <1>5, <1>6, <1>7 DEF TypeInv, CiTypeOK
<1>10. ASSUME NEW b \in Branches
       PROVE  /\ Len(versions'[b]) <= MaxVersions
              /\ config'[b].active <= Len(versions'[b])
              /\ config'[b].mode = "db" => config'[b].active # 0
              /\ Len(versions[b]) <= Len(versions'[b])
              /\ \A v \in 1..Len(versions[b]) : versions'[b][v] = versions[b][v]
  <2>1. Len(versions[b]) \in Nat
    BY DEF TypeInv, CiTypeOK
  <2>2. CASE b = r.branch
    <3>1. config'[b].active = r.version
      BY <2>2, <1>6 DEF TypeInv, CiTypeOK
    <3> QED BY <2>1, <2>2, <3>1, <1>4, <1>5 DEF TypeInv, CiTypeOK
  <2>3. CASE b # r.branch
    <3>1. config'[b] = config[b]
      BY <2>3, <1>6 DEF TypeInv, CiTypeOK
    <3> QED BY <2>1, <3>1, <1>5 DEF TypeInv, CiTypeOK
  <2> QED BY <2>2, <2>3
<1> QED BY <1>1, <1>8, <1>9, <1>10, SettingsType

LEMMA ReturnToFileType ==
  ASSUME TypeInv, NEW u \in Users, ReturnToFile(u) PROVE TypeInv'
<1> DEFINE r == asked[u]
<1>1. /\ Changes(u, "file") /\ r.op = "file" /\ r.lock < MaxLock
      /\ config[r.branch].lock = r.lock
  BY DEF ReturnToFile, Changes
<1>2. r \in SettingsRequest
  BY <1>1, RequestType
<1>3. /\ r.branch \in Branches /\ r.lock \in 0..MaxLock /\ r.code \in Codes
  BY <1>2 DEF SettingsRequest, ReturnToFile
<1>4. versions' = versions
  BY DEF ReturnToFile
<1>6. config[r.branch] \in ConfigType
  BY <1>3 DEF TypeInv, CiTypeOK
<1>7. config' = [config EXCEPT ![r.branch] =
                   [mode |-> "file", active |-> config[r.branch].active,
                    lock |-> r.lock + 1]]
  BY <1>3 DEF ReturnToFile, TypeInv, CiTypeOK
<1>8. [mode |-> "file", active |-> config[r.branch].active, lock |-> r.lock + 1]
        \in ConfigType
  <2>1. r.lock + 1 \in 0..MaxLock
    BY <1>1, <1>3, RepositoryAssumption
  <2> QED BY <2>1, <1>6 DEF ConfigType
<1>9. routes' \in [Branches -> SUBSET Names] /\ snapshot' \in [Branches -> Marks]
  BY <1>3, RepositoryAssumption DEF ReturnToFile, SyncRoutes, TypeInv, CiTypeOK, Marks
<1>10. config' \in [Branches -> ConfigType] /\ versions' \in [Branches -> Seq(Definitions)]
  BY <1>3, <1>4, <1>7, <1>8 DEF TypeInv, CiTypeOK
<1>11. ASSUME NEW b \in Branches
       PROVE  /\ Len(versions'[b]) <= MaxVersions
              /\ config'[b].active <= Len(versions'[b])
              /\ config'[b].mode = "db" => config'[b].active # 0
              /\ Len(versions[b]) <= Len(versions'[b])
              /\ \A v \in 1..Len(versions[b]) : versions'[b][v] = versions[b][v]
  <2>1. Len(versions[b]) \in Nat
    BY DEF TypeInv, CiTypeOK
  <2>2. /\ config'[b].active = config[b].active
        /\ config'[b].mode = "db" => config[b].mode = "db"
    BY <1>7 DEF TypeInv, CiTypeOK
  <2> QED BY <2>1, <2>2, <1>4 DEF TypeInv, CiTypeOK
<1> QED BY <1>1, <1>9, <1>10, <1>11, SettingsType

LEMMA ChooseBranchesType ==
  ASSUME TypeInv, NEW u \in Users, ChooseBranches(u) PROVE TypeInv'
<1> DEFINE r == asked[u]
<1>1. r \in BranchesRequest
  BY RequestType DEF ChooseBranches
<1>2. /\ r.wanted \subseteq Branches /\ r.heads \in [Branches -> Heads]
      /\ r.moves \in [Branches -> 0..MaxMoves]
      /\ \A b \in r.wanted : r.heads[b] # "gone"
  BY <1>1 DEF BranchesRequest, ChooseBranches, TypeInv, RequestsAreSound
<1>3. asked' = [asked EXCEPT ![u] = Idle]
  BY DEF ChooseBranches, Answers
<1>4. UNCHANGED <<heads, moves, config, versions, watched, groups, runs, lock, seen>>
  BY DEF ChooseBranches, lore, settings, queue
<1>5. /\ enabled' \subseteq Branches
      /\ routes' \in [Branches -> SUBSET Names] /\ snapshot' \in [Branches -> Marks]
  BY <1>2 DEF ChooseBranches, TypeInv, CiTypeOK, Marks
<1>6. cursor' \in [Branches -> Marks] /\ cursorAt' \in [Branches -> 0..MaxMoves]
  <2>1. \A b \in r.wanted : r.heads[b] \in Marks /\ r.moves[b] \in 0..MaxMoves
    BY <1>2 DEF Heads, Marks
  <2>2. "unset" \in Marks /\ 0 \in 0..MaxMoves
    BY RepositoryAssumption DEF Marks
  <2> QED BY <2>1, <2>2 DEF ChooseBranches, TypeInv, CiTypeOK
<1>7. CiTypeOK'
  BY <1>3, <1>4, <1>5, <1>6 DEF TypeInv, CiTypeOK
<1>8. Locked'
  BY <1>4 DEF TypeInv, Locked
<1>9. RequestsAreSound'
  BY <1>3, <1>4 DEF TypeInv, CiTypeOK, RequestsAreSound, Idle
<1> QED BY <1>7, <1>8, <1>9 DEF TypeInv

-----------------------------------------------------------------------------
(* The inductive invariant.                                                *)

\* A cursor stands for a move that its branch has made; the holder of the lock
\* has listed the heads after the cursors were set, and requests look back.
CursorBounds ==
  /\ \A b \in Branches : cursorAt[b] <= moves[b]
  /\ \A k \in Coordinators, b \in Branches :
       lock = k => cursorAt[b] <= seen[k].moves[b] /\ seen[k].moves[b] <= moves[b]
  /\ \A u \in Users, b \in Branches :
       asked[u].op = "branches" => asked[u].moves[b] <= moves[b]

\* A run of a database configuration was admitted with its group.
RunsHaveGroups ==
  \A r \in runs : r.version # 0 => <<r.branch, r.code>> \in groups

Derived == RoutesFollowConfiguration /\ RunsHaveGroups /\ DatabasePushKeepsVersion

IInv == TypeInv /\ ReadsAreCurrent /\ CursorBounds /\ Derived

LEMMA InitIInv == Init => IInv
<1> SUFFICES ASSUME Init PROVE IInv
  OBVIOUS
<1>1. TypeInv
  BY InitTypeInv
<1>2. ReadsAreCurrent /\ CursorBounds
  BY RepositoryAssumption DEF Init, ReadsAreCurrent, CursorBounds, Idle
<1>3. Derived
  BY RepositoryAssumption
  DEF Init, Derived, RoutesFollowConfiguration, RunsHaveGroups, DatabasePushKeepsVersion
<1> QED BY <1>1, <1>2, <1>3 DEF IInv

\* Every step preserves the types.
LEMMA NextType == ASSUME TypeInv, ReadsAreCurrent, [Next]_vars PROVE TypeInv'
<1>1. CASE \E b \in Branches : Move(b)
  BY <1>1, MoveType
<1>2. CASE \E k \in Coordinators : Observe(k) \/ Admit(k) \/ RollBack(k)
  BY <1>2, ObserveType, AdmitType, RollBackType
<1>3. CASE \E u \in Users, b \in Branches : AskSettings(u, b)
  BY <1>3, AskSettingsType
<1>4. CASE \E u \in Users : AskBranches(u) \/ Save(u) \/ Restore(u) \/ ReturnToFile(u)
                           \/ ChooseBranches(u) \/ Refuse(u)
  BY <1>4, AskBranchesType, SaveType, RestoreType, ReturnToFileType,
     ChooseBranchesType, RefuseType
<1>5. CASE UNCHANGED vars
  BY <1>5 DEF vars, lore, settings, watch, derived, queue, TypeInv, CiTypeOK, Locked,
              RequestsAreSound
<1> QED BY <1>1, <1>2, <1>3, <1>4, <1>5 DEF Next

\* Nobody changes a configuration while the lock is held.
LEMMA NextReads ==
  ASSUME TypeInv, ReadsAreCurrent, [Next]_vars PROVE ReadsAreCurrent'
<1>1. CASE \E b \in Branches : Move(b)
  BY <1>1 DEF Move, ReadsAreCurrent, settings
<1>2. ASSUME NEW k \in Coordinators, Observe(k) PROVE ReadsAreCurrent'
  BY <1>2, RepositoryAssumption
  DEF Observe, TypeInv, CiTypeOK, ReadsAreCurrent, settings
<1>3. ASSUME NEW k \in Coordinators, Admit(k) \/ RollBack(k) PROVE ReadsAreCurrent'
  BY <1>3, RepositoryAssumption DEF Admit, RollBack, ReadsAreCurrent
<1>4. ASSUME NEW u \in Users,
             \/ \E b \in Branches : AskSettings(u, b)
             \/ AskBranches(u) \/ Refuse(u) \/ ChooseBranches(u)
      PROVE  ReadsAreCurrent'
  BY <1>4 DEF AskSettings, AskBranches, Asks, Refuse, ChooseBranches, Answers,
              ReadsAreCurrent, settings
<1>5. ASSUME NEW u \in Users, Save(u) \/ Restore(u) \/ ReturnToFile(u)
      PROVE  ReadsAreCurrent'
  BY <1>5, RepositoryAssumption DEF Save, Activate, AppendVersion, Restore, ReturnToFile,
     Changes, ReadsAreCurrent
<1>6. CASE UNCHANGED vars
  BY <1>6 DEF vars, settings, ReadsAreCurrent
<1> QED BY <1>1, <1>2, <1>3, <1>4, <1>5, <1>6 DEF Next

\* No cursor is ahead of its branch, nor a reading behind the cursors.
LEMMA NextBounds ==
  ASSUME TypeInv, CursorBounds, [Next]_vars PROVE CursorBounds'
<1>0. /\ moves \in [Branches -> Nat] /\ cursorAt \in [Branches -> Nat]
      /\ \A b \in Branches : cursorAt[b] <= moves[b]
  BY RepositoryAssumption DEF TypeInv, CiTypeOK, CursorBounds
<1>1. ASSUME NEW b \in Branches, Move(b) PROVE CursorBounds'
  <2>1. /\ moves' \in [Branches -> Nat]
        /\ \A a \in Branches : moves[a] <= moves'[a]
        /\ UNCHANGED <<cursorAt, lock, seen, asked>>
    BY <1>0, <1>1 DEF Move, watch
  <2>2. \A k \in Coordinators, a \in Branches : lock = k => seen[k].moves[a] \in Nat
    BY RepositoryAssumption DEF TypeInv, CiTypeOK, Locked, Reading
  <2>3. \A u \in Users, a \in Branches :
           asked[u].op = "branches" => asked[u].moves[a] \in Nat
    BY RequestType, RepositoryAssumption DEF BranchesRequest
  <2> QED BY <1>0, <2>1, <2>2, <2>3 DEF CursorBounds
<1>2. ASSUME NEW k \in Coordinators, Observe(k) PROVE CursorBounds'
  <2>1. seen'[k].moves = moves /\ lock' = k
    BY <1>2 DEF Observe, TypeInv, CiTypeOK
  <2>2. UNCHANGED <<moves, cursorAt, asked>>
    BY <1>2 DEF Observe, lore, watch
  <2>3. \A b \in Branches : moves[b] <= moves[b]
    BY <1>0
  <2> QED BY <1>0, <2>1, <2>2, <2>3 DEF CursorBounds
<1>3. ASSUME NEW k \in Coordinators, Admit(k) PROVE CursorBounds'
  <2>1. lock = k /\ lock' \notin Coordinators
    BY <1>3, RepositoryAssumption DEF Admit, TypeInv, Locked
  <2>2. UNCHANGED <<moves, asked>>
    BY <1>3 DEF Admit, lore
  <2>3. \A b \in Branches : cursorAt'[b] \in {0, seen[k].moves[b], cursorAt[b]}
    BY <1>3 DEF Admit
  <2>4. \A b \in Branches : seen[k].moves[b] <= moves[b]
    BY <2>1 DEF CursorBounds
  <2>5. \A b \in Branches : cursorAt'[b] <= moves[b]
    BY <1>0, <2>3, <2>4
  <2> QED BY <2>1, <2>2, <2>5 DEF CursorBounds
<1>4. ASSUME NEW k \in Coordinators, RollBack(k) PROVE CursorBounds'
  BY <1>4, RepositoryAssumption DEF RollBack, CursorBounds, lore, watch
<1>5. ASSUME NEW u \in Users, NEW b \in Branches, AskSettings(u, b)
      PROVE  CursorBounds'
  <2>1. PICK op \in {"save", "restore", "file"}, names \in Definitions,
             v \in 1..Len(versions[b]) \cup {0} :
          asked' = [asked EXCEPT ![u] =
                      [op |-> op, branch |-> b, code |-> heads[b],
                       lock |-> config[b].lock, names |-> names, version |-> v]]
    BY <1>5 DEF AskSettings, Asks
  <2>2. \A w \in Users : asked'[w].op = "branches" => asked'[w] = asked[w]
    BY <2>1 DEF TypeInv, CiTypeOK
  <2>3. UNCHANGED <<moves, cursorAt, lock, seen>>
    BY <1>5 DEF AskSettings, Asks, lore, watch
  <2> QED BY <2>2, <2>3 DEF CursorBounds
<1>6. ASSUME NEW u \in Users, AskBranches(u) PROVE CursorBounds'
  <2>1. PICK wanted \in SUBSET Branches :
          asked' = [asked EXCEPT ![u] = [op |-> "branches", wanted |-> wanted,
                                         heads |-> heads, moves |-> moves]]
    BY <1>6 DEF AskBranches, Asks
  <2>2. asked'[u].moves = moves /\ \A w \in Users \ {u} : asked'[w] = asked[w]
    BY <2>1 DEF TypeInv, CiTypeOK
  <2>3. UNCHANGED <<moves, cursorAt, lock, seen>>
    BY <1>6 DEF AskBranches, Asks, lore, watch
  <2>4. \A b \in Branches : moves[b] <= moves[b]
    BY <1>0
  <2> QED BY <2>2, <2>3, <2>4 DEF CursorBounds
<1>7. ASSUME NEW u \in Users,
             Save(u) \/ Restore(u) \/ ReturnToFile(u) \/ Refuse(u)
      PROVE  CursorBounds'
  <2>1. asked' = [asked EXCEPT ![u] = Idle]
    BY <1>7 DEF Save, Activate, AppendVersion, Restore, ReturnToFile, Refuse, Changes,
       Answers
  <2>2. \A w \in Users : asked'[w].op = "branches" => asked'[w] = asked[w]
    BY <2>1 DEF TypeInv, CiTypeOK, Idle
  <2>3. UNCHANGED <<moves, cursorAt, lock, seen>>
    BY <1>7 DEF Save, Activate, AppendVersion, Restore, ReturnToFile, Refuse, Changes,
       lore, watch
  <2> QED BY <2>2, <2>3 DEF CursorBounds
<1>8. ASSUME NEW u \in Users, ChooseBranches(u) PROVE CursorBounds'
  <2>1. asked' = [asked EXCEPT ![u] = Idle]
    BY <1>8 DEF ChooseBranches, Answers
  <2>2. \A w \in Users : asked'[w].op = "branches" => asked'[w] = asked[w]
    BY <2>1 DEF TypeInv, CiTypeOK, Idle
  <2>3. UNCHANGED <<moves, lock, seen>> /\ lock = "free"
    BY <1>8 DEF ChooseBranches, lore
  <2>4. \A b \in Branches : cursorAt'[b] \in {0, asked[u].moves[b], cursorAt[b]}
    BY <1>8 DEF ChooseBranches
  <2>5. \A b \in Branches : asked[u].moves[b] <= moves[b]
    BY <1>8 DEF ChooseBranches, CursorBounds
  <2>6. \A b \in Branches : cursorAt'[b] <= moves[b]
    BY <1>0, <2>4, <2>5
  <2> QED BY <2>2, <2>3, <2>6, RepositoryAssumption DEF CursorBounds
<1>9. CASE UNCHANGED vars
  BY <1>9 DEF vars, lore, watch, CursorBounds
<1> QED BY <1>1, <1>2, <1>3, <1>4, <1>5, <1>6, <1>7, <1>8, <1>9 DEF Next

\* What the transaction of a coordinator leaves behind.
LEMMA AdmitDerived ==
  ASSUME TypeInv, ReadsAreCurrent, Derived, NEW k \in Coordinators, Admit(k)
  PROVE  Derived'
<1> DEFINE New(b) == NewRuns(b, seen[k].heads[b], seen[k].config[b])
<1>1. lock = k
  BY RepositoryAssumption DEF TypeInv, Locked, Admit
<1>2. UNCHANGED <<config, versions>>
  BY DEF Admit, settings
<1>3. RoutesFollowConfiguration'
  <2> SUFFICES ASSUME NEW b \in Branches, snapshot'[b] \in Codes
               PROVE  routes'[b] = IF config'[b].mode = "db"
                                     THEN versions'[b][config'[b].active]
                                     ELSE File[snapshot'[b]].names
    BY DEF RoutesFollowConfiguration, Definition
  <2>1. b \notin Branches \ enabled
    BY RepositoryAssumption DEF Admit
  <2>2. CASE b \in Due(k)
    <3>1. snapshot'[b] = seen[k].heads[b]
      BY <2>1, <2>2 DEF Admit
    <3>2. b \in Pushed(k)
      BY <2>2, <3>1, RepositoryAssumption DEF Pushed
    <3>3. seen[k].config[b] = config[b]
      BY <1>1, <3>2, PushedType
    <3>4. routes'[b] = Definition(b, seen[k].heads[b], seen[k].config[b])
      BY <2>1, <3>2 DEF Admit
    <3> QED BY <1>2, <3>1, <3>3, <3>4 DEF Definition
  <2>3. CASE b \notin Due(k)
    <3>1. b \notin Pushed(k)
      BY <2>3 DEF Pushed
    <3>2. snapshot'[b] = snapshot[b] /\ routes'[b] = routes[b]
      BY <2>1, <2>3, <3>1 DEF Admit
    <3> QED BY <1>2, <3>2 DEF Derived, RoutesFollowConfiguration, Definition
  <2> QED BY <2>2, <2>3
<1>4. \A b \in Pushed(k) : \A r \in New(b) :
        /\ r.branch = b /\ r.code = seen[k].heads[b]
        /\ r.version = IF config[b].mode = "db" THEN config[b].active ELSE 0
        /\ Touched(b, seen[k].heads[b], seen[k].config[b]) # {}
        /\ r.version # 0 => <<b, seen[k].heads[b]>> \notin groups
  BY <1>1, PushedType DEF NewRuns, PushRun, Admitted
<1>5. runs' = runs \cup UNION {New(b) : b \in Pushed(k)}
  BY DEF Admit
<1>6. /\ groups \subseteq groups'
      /\ \A b \in Pushed(k) :
           /\ config[b].mode = "db"
           /\ Touched(b, seen[k].heads[b], seen[k].config[b]) # {}
           => <<b, seen[k].heads[b]>> \in groups'
  BY <1>1, PushedType DEF Admit
<1>7. RunsHaveGroups'
  <2> SUFFICES ASSUME NEW r \in runs', r.version # 0
               PROVE  <<r.branch, r.code>> \in groups'
    BY DEF RunsHaveGroups
  <2>1. CASE r \in runs
    BY <2>1, <1>6 DEF Derived, RunsHaveGroups
  <2>2. CASE \E b \in Pushed(k) : r \in New(b)
    BY <2>2, <1>4, <1>6
  <2> QED BY <1>5, <2>1, <2>2
<1>8. DatabasePushKeepsVersion'
  <2> SUFFICES ASSUME NEW q \in runs', NEW r \in runs', q.branch = r.branch,
                      q.code = r.code, q.version # 0, r.version # 0
               PROVE  q.version = r.version
    BY DEF DatabasePushKeepsVersion
  <2>1. CASE q \in runs /\ r \in runs
    BY <2>1 DEF Derived, DatabasePushKeepsVersion
  <2>2. ASSUME NEW q1 \in runs, NEW b \in Pushed(k), NEW r1 \in New(b),
               q1.branch = r1.branch, q1.code = r1.code, q1.version # 0, r1.version # 0
        PROVE  FALSE
    <3>1. r1.branch = b /\ r1.code = seen[k].heads[b]
      BY <1>4
    <3>2. <<b, seen[k].heads[b]>> \notin groups
      BY <1>4, <2>2
    <3>3. <<q1.branch, q1.code>> \in groups
      BY <2>2 DEF Derived, RunsHaveGroups
    <3> QED BY <2>2, <3>1, <3>2, <3>3
  <2>3. ASSUME NEW a \in Pushed(k), NEW b \in Pushed(k), q \in New(a), r \in New(b)
        PROVE  q.version = r.version
    <3>1. q.branch = a /\ r.branch = b
      BY <1>4, <2>3
    <3>2. q.version = IF config[a].mode = "db" THEN config[a].active ELSE 0
      BY <1>4, <2>3
    <3>3. r.version = IF config[b].mode = "db" THEN config[b].active ELSE 0
      BY <1>4, <2>3
    <3> QED BY <3>1, <3>2, <3>3
  <2>4. /\ q \in runs \/ \E a \in Pushed(k) : q \in New(a)
        /\ r \in runs \/ \E b \in Pushed(k) : r \in New(b)
    BY <1>5
  <2> QED BY <1>5, <2>1, <2>2, <2>3, <2>4
<1> QED BY <1>3, <1>7, <1>8 DEF Derived

\* A change of the settings writes the routes with the configuration.
LEMMA SettingsDerived ==
  ASSUME TypeInv, Derived, NEW u \in Users, Save(u) \/ Restore(u) \/ ReturnToFile(u)
  PROVE  Derived'
<1> DEFINE r == asked[u]
           d == r.branch
<1>1. /\ r.op \in {"save", "restore", "file"}
      /\ UNCHANGED <<groups, runs>>
  BY DEF Save, Activate, AppendVersion, Restore, ReturnToFile, Changes, queue
<1>2. d \in Branches /\ r.names \in Definitions
  BY <1>1, RequestType DEF SettingsRequest
<1>3. RunsHaveGroups' /\ DatabasePushKeepsVersion'
  BY <1>1 DEF Derived, RunsHaveGroups, DatabasePushKeepsVersion
<1>4. versions[d] \in Seq(Definitions) /\ Len(versions[d]) \in Nat
  BY <1>2 DEF TypeInv, CiTypeOK
<1>5. snapshot'[d] = r.code
  BY <1>2 DEF Save, Activate, AppendVersion, Restore, ReturnToFile, SyncRoutes, TypeInv,
     CiTypeOK
<1>6. routes'[d] = IF config'[d].mode = "db" THEN versions'[d][config'[d].active]
                                             ELSE File[r.code].names
  <2>1. CASE Save(u)
    <3>1. config'[d].mode = "db" /\ config'[d].active = Len(versions[d]) + 1
      BY <2>1, <1>2 DEF Save, Activate, AppendVersion, TypeInv, CiTypeOK
    <3>2. versions'[d] = Append(versions[d], r.names)
      BY <2>1, <1>2 DEF Save, Activate, AppendVersion, TypeInv, CiTypeOK
    <3>3. Append(versions[d], r.names)[Len(versions[d]) + 1] = r.names
      BY <1>2, <1>4
    <3>4. routes'[d] = r.names
      BY <2>1, <1>2 DEF Save, Activate, AppendVersion, SyncRoutes, TypeInv, CiTypeOK
    <3> QED BY <3>1, <3>2, <3>3, <3>4
  <2>2. CASE Restore(u)
    <3>1. config'[d].mode = "db" /\ config'[d].active = r.version
      BY <2>2, <1>2 DEF Restore, Activate, TypeInv, CiTypeOK
    <3>2. versions'[d][r.version] = r.names
      BY <2>2 DEF Restore, Activate, Changes, TypeInv, RequestsAreSound
    <3>3. routes'[d] = r.names
      BY <2>2, <1>2 DEF Restore, Activate, SyncRoutes, TypeInv, CiTypeOK
    <3> QED BY <3>1, <3>2, <3>3
  <2>3. CASE ReturnToFile(u)
    <3>1. config'[d].mode = "file"
      BY <2>3, <1>2 DEF ReturnToFile, TypeInv, CiTypeOK
    <3>2. routes'[d] = File[r.code].names
      BY <2>3, <1>2 DEF ReturnToFile, SyncRoutes, TypeInv, CiTypeOK
    <3> QED BY <3>1, <3>2
  <2> QED BY <2>1, <2>2, <2>3
<1>7. ASSUME NEW b \in Branches, b # d
      PROVE  /\ snapshot'[b] = snapshot[b] /\ routes'[b] = routes[b]
             /\ config'[b] = config[b] /\ versions'[b] = versions[b]
  BY <1>2, <1>7 DEF Save, Activate, AppendVersion, Restore, ReturnToFile, SyncRoutes,
     TypeInv, CiTypeOK
<1>8. RoutesFollowConfiguration'
  <2> SUFFICES ASSUME NEW b \in Branches, snapshot'[b] \in Codes
               PROVE  routes'[b] = IF config'[b].mode = "db"
                                     THEN versions'[b][config'[b].active]
                                     ELSE File[snapshot'[b]].names
    BY DEF RoutesFollowConfiguration, Definition
  <2>1. CASE b = d
    BY <2>1, <1>5, <1>6
  <2>2. CASE b # d
    BY <2>2, <1>7 DEF Derived, RoutesFollowConfiguration, Definition
  <2> QED BY <2>1, <2>2
<1> QED BY <1>3, <1>8 DEF Derived

LEMMA NextDerived ==
  ASSUME TypeInv, ReadsAreCurrent, Derived, [Next]_vars PROVE Derived'
<1>1. ASSUME UNCHANGED <<settings, derived, queue>> PROVE Derived'
  BY <1>1 DEF settings, derived, queue, Derived, RoutesFollowConfiguration, Definition,
              RunsHaveGroups, DatabasePushKeepsVersion
<1>2. ASSUME NEW b \in Branches, Move(b) PROVE Derived'
  BY <1>1, <1>2 DEF Move
<1>3. ASSUME NEW k \in Coordinators, Observe(k) \/ RollBack(k) PROVE Derived'
  BY <1>1, <1>3 DEF Observe, RollBack
<1>4. ASSUME NEW u \in Users,
             (\E b \in Branches : AskSettings(u, b)) \/ AskBranches(u) \/ Refuse(u)
      PROVE  Derived'
  BY <1>1, <1>4 DEF AskSettings, AskBranches, Asks, Refuse
<1>5. ASSUME NEW u \in Users, ChooseBranches(u) PROVE Derived'
  <2>1. UNCHANGED <<config, versions, groups, runs>>
    BY <1>5 DEF ChooseBranches, settings, queue
  <2>2. \A b \in Branches : snapshot'[b] \in Codes =>
          snapshot'[b] = snapshot[b] /\ routes'[b] = routes[b]
    BY <1>5, RepositoryAssumption DEF ChooseBranches
  <2> QED BY <2>1, <2>2 DEF Derived, RoutesFollowConfiguration, Definition,
                            RunsHaveGroups, DatabasePushKeepsVersion
<1>6. CASE UNCHANGED vars
  BY <1>1, <1>6 DEF vars
<1> QED BY <1>2, <1>3, <1>4, <1>5, <1>6, AdmitDerived, SettingsDerived DEF Next

\* The invariant holds in every reachable state.
THEOREM Invariant == Spec => []IInv
<1>1. Init => IInv
  BY InitIInv
<1>2. IInv /\ [Next]_vars => IInv'
  BY NextType, NextReads, NextBounds, NextDerived DEF IInv
<1> QED BY <1>1, <1>2, PTL DEF Spec

-----------------------------------------------------------------------------
(* The properties that TLC checks on small instances.                      *)

\* Every reachable state of the repository's CI has its types.
THEOREM TypeCorrect == Spec => []CiTypeOK
<1>1. IInv => CiTypeOK
  BY DEF IInv, TypeInv
<1> QED BY <1>1, Invariant, PTL

\* The routes of a branch are always those of the configuration in force:
\* reconciliation, saves, restores and switches write them in the transaction
\* that changes what they derive from.
THEOREM Routes == Spec => []RoutesFollowConfiguration
<1>1. IInv => RoutesFollowConfiguration
  BY DEF IInv, Derived
<1> QED BY <1>1, Invariant, PTL

\* All runs that one push has under the database configuration are of one
\* version of it: ci_run_groups_push_once lets in one group for each push.
THEOREM OneVersion == Spec => []DatabasePushKeepsVersion
<1>1. IInv => DatabasePushKeepsVersion
  BY DEF IInv, Derived
<1> QED BY <1>1, Invariant, PTL

\* A cursor never goes back: heads are listed under the lock, and a baseline
\* is recorded only for a branch without a cursor.
THEOREM CursorsAdvance == Spec => CursorNeverStale
<1>1. IInv /\ [Next]_vars =>
        [\A b \in Branches :
           cursor[b] # "unset" /\ cursor'[b] # "unset" => cursorAt'[b] >= cursorAt[b]]_vars
  <2> SUFFICES ASSUME IInv, Next, NEW b \in Branches, cursor[b] # "unset",
                      cursor'[b] # "unset"
               PROVE  cursorAt'[b] >= cursorAt[b]
    OBVIOUS
  <2>0. cursorAt[b] \in Nat
    BY RepositoryAssumption DEF IInv, TypeInv, CiTypeOK
  <2>1. ASSUME NEW k \in Coordinators, Admit(k) PROVE cursorAt'[b] >= cursorAt[b]
    <3>1. lock = k
      BY <2>1, RepositoryAssumption DEF IInv, TypeInv, Locked, Admit
    <3>2. seen[k].moves[b] \in Nat /\ cursorAt[b] <= seen[k].moves[b]
      BY <3>1, PushedType, RepositoryAssumption DEF IInv, CursorBounds, Reading
    <3>3. cursorAt'[b] \in {seen[k].moves[b], cursorAt[b]}
      BY <2>1 DEF Admit
    <3> QED BY <2>0, <3>2, <3>3
  <2>2. ASSUME NEW u \in Users, ChooseBranches(u) PROVE cursorAt'[b] >= cursorAt[b]
    <3>1. cursorAt'[b] = cursorAt[b]
      BY <2>2 DEF ChooseBranches, NeedsBaseline
    <3> QED BY <2>0, <3>1
  <2>3. CASE UNCHANGED watch
    BY <2>0, <2>3 DEF watch
  <2> QED BY <2>1, <2>2, <2>3
          DEF Next, Move, Observe, RollBack, AskSettings, AskBranches, Asks, Save,
             Activate, AppendVersion,
              Restore, ReturnToFile, Refuse, Changes
<1> QED BY <1>1, Invariant, PTL DEF Spec, CursorNeverStale

\* No push is passed over: a cursor moves from one revision to another only
\* with the runs of every pipeline in force whose file differs.
THEOREM NothingIsSkipped == Spec => PassedHeadsAreQueued
<1> DEFINE Passes(b) == cursor[b] \in Codes /\ cursor'[b] \in Codes /\ cursor'[b] # cursor[b]
           Queued(b, n) ==
             \/ \E r \in runs' : r.branch = b /\ r.code = cursor'[b] /\ r.name = n
             \/ config[b].mode = "db" /\ <<b, cursor'[b]>> \in groups
           Step == \A b \in Branches :
                     Passes(b) =>
                       \A n \in Definition(b, cursor'[b], config[b]) :
                         Content[cursor'[b]][n] # Content[cursor[b]][n] => Queued(b, n)
<1>1. IInv /\ [Next]_vars => [Step]_vars
  <2> SUFFICES ASSUME IInv, Next, NEW b \in Branches, Passes(b),
                      NEW n \in Definition(b, cursor'[b], config[b]),
                      Content[cursor'[b]][n] # Content[cursor[b]][n]
               PROVE  Queued(b, n)
    OBVIOUS
  <2>1. ASSUME NEW k \in Coordinators, Admit(k) PROVE Queued(b, n)
    <3>1. lock = k
      BY <2>1, RepositoryAssumption DEF IInv, TypeInv, Locked, Admit
    <3>2. b \in Due(k) /\ cursor'[b] = seen[k].heads[b]
      BY <2>1, RepositoryAssumption DEF Admit
    <3>3. b \in Pushed(k) /\ seen[k].config[b] = config[b]
      BY <3>1, <3>2, PushedType, RepositoryAssumption DEF Pushed, IInv
    <3>4. Previous(b) = cursor[b] /\ cursor[b] # Zero /\ cursor[b] # "unset"
      BY RepositoryAssumption DEF Previous
    <3>5. n \in Touched(b, cursor'[b], config[b])
      BY <3>4 DEF Touched
    <3> DEFINE q == PushRun(b, cursor'[b], n, config[b])
    <3>6. NewRuns(b, cursor'[b], config[b]) \subseteq runs'
      BY <2>1, <3>2, <3>3 DEF Admit
    <3>7. q.branch = b /\ q.code = cursor'[b] /\ q.name = n
      BY DEF PushRun
    <3>8. \/ q \in NewRuns(b, cursor'[b], config[b])
          \/ config[b].mode = "db" /\ <<b, cursor'[b]>> \in groups
          \/ \E r \in runs : r.branch = b /\ r.code = cursor'[b] /\ r.name = n
      BY <3>5, <3>7 DEF NewRuns, Admitted
    <3>9. runs \subseteq runs'
      BY <2>1 DEF Admit
    <3> QED BY <3>6, <3>7, <3>8, <3>9
  <2>2. ASSUME NEW u \in Users, ChooseBranches(u) PROVE Queued(b, n)
    BY <2>2, RepositoryAssumption DEF ChooseBranches, NeedsBaseline
  <2>3. CASE UNCHANGED watch
    BY <2>3 DEF watch
  <2> QED BY <2>1, <2>2, <2>3
          DEF Next, Move, Observe, RollBack, AskSettings, AskBranches, Asks, Save,
             Activate, AppendVersion,
              Restore, ReturnToFile, Refuse, Changes
<1> QED BY <1>1, Invariant, PTL DEF Spec, PassedHeadsAreQueued

-----------------------------------------------------------------------------
(* What was queued was configured. *)

\* A run is of a pipeline that the version recorded on it defines, or the file
\* of its revision.
RunsAreDefined ==
  \A r \in runs :
    IF r.version # 0
    THEN r.version <= Len(versions[r.branch]) /\ r.name \in versions[r.branch][r.version]
    ELSE r.name \in File[r.code].names

\* What a coordinator queues is defined by the configuration it has read.
LEMMA NewRunsAreDefined ==
  ASSUME TypeInv, NEW b \in Branches, NEW code \in Codes, NEW r \in NewRuns(b, code, config[b])
  PROVE  /\ r.branch = b /\ r.code = code
         /\ r.name \in Definition(b, code, config[b])
         /\ r.version = IF config[b].mode = "db" THEN config[b].active ELSE 0
<1>1. PICK n \in Touched(b, code, config[b]) : r = PushRun(b, code, n, config[b])
  BY DEF NewRuns
<1>2. n \in Definition(b, code, config[b])
  BY <1>1 DEF Touched
<1> QED BY <1>1, <1>2 DEF PushRun

\* Versions are appended and never changed.
LEMMA VersionsAppend ==
  ASSUME TypeInv, [Next]_vars, NEW b \in Branches, NEW v \in 1..Len(versions[b])
  PROVE  v \in 1..Len(versions'[b]) /\ versions'[b][v] = versions[b][v]
<1>1. versions \in [Branches -> Seq(Definitions)]
  BY DEF TypeInv, CiTypeOK
<1>2. ASSUME NEW u \in Users, Save(u)
      PROVE  v \in 1..Len(versions'[b]) /\ versions'[b][v] = versions[b][v]
  <2> DEFINE r == asked[u]
  <2>1. r.branch \in Branches /\ r.names \in Definitions
    <3>1. r.op = "save"
      BY <1>2 DEF Save, Changes
    <3>2. r \in SettingsRequest
      BY <3>1, RequestType
    <3> QED BY <3>2 DEF SettingsRequest
  <2>2. versions' = [versions EXCEPT ![r.branch] = Append(versions[r.branch], r.names)]
    BY <1>2 DEF Save, AppendVersion
  <2>3. CASE b = r.branch
    <3>1. versions'[b] = Append(versions[b], r.names)
      BY <1>1, <2>1, <2>2, <2>3
    <3> QED BY <1>1, <2>1, <3>1
  <2>4. CASE b # r.branch
    BY <1>1, <2>1, <2>2, <2>4
  <2> QED BY <2>3, <2>4
<1>3. CASE UNCHANGED versions
  BY <1>3
<1> QED BY <1>2, <1>3
        DEF Next, vars, settings, Move, Observe, Admit, RollBack, AskSettings, AskBranches,
            Asks, Restore, ReturnToFile, ChooseBranches, Refuse

LEMMA NextDefined ==
  ASSUME TypeInv, ReadsAreCurrent, RunsAreDefined, [Next]_vars
  PROVE  RunsAreDefined'
<1> SUFFICES ASSUME NEW r \in runs'
             PROVE  IF r.version # 0
                    THEN /\ r.version <= Len(versions'[r.branch])
                         /\ r.name \in versions'[r.branch][r.version]
                    ELSE r.name \in File[r.code].names
  BY DEF RunsAreDefined
<1>1. CASE r \in runs
  <2>1. r.branch \in Branches /\ r.version \in Nat
    BY <1>1, RepositoryAssumption DEF TypeInv, CiTypeOK
  <2>2. CASE r.version # 0
    <3>1. Len(versions[r.branch]) \in Nat
      BY <2>1 DEF TypeInv, CiTypeOK
    <3>2. r.version \in 1..Len(versions[r.branch])
      BY <1>1, <2>1, <2>2, <3>1 DEF RunsAreDefined
    <3>3. /\ r.version \in 1..Len(versions'[r.branch])
          /\ versions'[r.branch][r.version] = versions[r.branch][r.version]
      BY <2>1, <3>2, VersionsAppend
    <3> QED BY <1>1, <2>2, <3>3 DEF RunsAreDefined
  <2>3. CASE r.version = 0
    BY <1>1, <2>3 DEF RunsAreDefined
  <2> QED BY <2>2, <2>3
<1>2. CASE r \notin runs
  <2>1. PICK k \in Coordinators : Admit(k)
    BY <1>2 DEF Next, vars, queue, Move, Observe, Admit, RollBack, AskSettings, AskBranches,
            Asks, Save, Restore, ReturnToFile, ChooseBranches, Refuse, Changes
  <2>2. lock = k
    BY <2>1, RepositoryAssumption DEF TypeInv, Locked, Admit
  <2>3. PICK b \in Pushed(k) : r \in NewRuns(b, seen[k].heads[b], seen[k].config[b])
    BY <1>2, <2>1 DEF Admit
  <2>4. /\ b \in Branches /\ seen[k].heads[b] \in Codes
        /\ seen[k].config[b] = config[b] /\ config[b] \in ConfigType
    BY <2>2, PushedType
  <2>5. /\ r.branch = b /\ r.code = seen[k].heads[b]
        /\ r.name \in Definition(b, seen[k].heads[b], config[b])
        /\ r.version = IF config[b].mode = "db" THEN config[b].active ELSE 0
    BY <2>3, <2>4, NewRunsAreDefined
  <2>6. UNCHANGED versions
    BY <2>1 DEF Admit, settings
  <2>7. /\ config[b].active <= Len(versions[b])
        /\ config[b].mode = "db" => config[b].active # 0
    BY <2>4 DEF TypeInv, CiTypeOK
  <2> QED BY <2>4, <2>5, <2>6, <2>7 DEF Definition
<1> QED BY <1>1, <1>2

\* What runs is what was configured: whatever users save, restore or switch
\* while a coordinator reconciles, a run is of a pipeline that the version it
\* records defines, and versions never change.
THEOREM QueuedRunsAreDefined == Spec => []RunsAreDefined
<1>1. Init => RunsAreDefined
  BY DEF Init, RunsAreDefined
<1>2. IInv /\ RunsAreDefined /\ [Next]_vars => RunsAreDefined'
  BY NextDefined DEF IInv
<1> QED BY <1>1, <1>2, Invariant, PTL DEF Spec
=============================================================================
