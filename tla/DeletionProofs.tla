----------------------------- MODULE DeletionProofs -----------------------------
(***************************************************************************)
(* Proofs about the deletion of a candidate, for every number of cleaners, *)
(* builders, trees and files: the types, that nobody works under a         *)
(* removal, that what is kept is not removed, that only the recorded tree  *)
(* loses files, its lock files last, and that what is reported as deleted  *)
(* is gone.                                                                *)
(***************************************************************************)
EXTENDS Deletion, TLAPS

(* A cleaner that removes has opened a tree.                               *)
HandsOpen ==
    \A c \in Cleaners :
        pc[c] \in {"list", "clear", "restat", "rmdir"} => hand[c] \in Trees

LEMMA EmptyJobs == NoRecord \in Records /\ NoWalk \in Walks
BY LimitsAssumption DEF NoRecord, Records, NoWalk, Walks, NoFile, Trees

(* Whatever a cleaner held, giving it up leaves well-typed locks.          *)
LEMMA UnlockedTypes ==
    ASSUME UsersType, NEW c \in Cleaners, Unlocked(c)
    PROVE  /\ holder' \in [Profiles -> [LockInodes -> Cleaners \cup Profiles \cup {NoOne}]]
           /\ ownerLock' \in Cleaners \cup {Owner, NoOne}
BY DEF UsersType, Unlocked

LEMMA EndsTypes ==
    ASSUME UsersType, CleanersType, HandsOpen, NEW c \in Cleaners,
           NEW outcome \in {"idle", "deleted", "rejected", "failed"}, Ends(c, outcome)
    PROVE  UsersType' /\ CleanersType' /\ HandsOpen'
<1>1. UsersType'
  BY UnlockedTypes DEF UsersType, Ends, users
<1>2. CleanersType'
  BY EmptyJobs, LimitsAssumption
  DEF CleanersType, Ends, CleanerStates, Settlements, Trees
<1>3. HandsOpen'
  BY DEF HandsOpen, Ends, CleanersType
<1> QED BY <1>1, <1>2, <1>3

TypeInv == TypeOK /\ HandsOpen

LEMMA TypeInit == Init => TypeInv
<1> SUFFICES ASSUME Init PROVE TypeInv
  OBVIOUS
<1>1. 1 \in Trees /\ 1 \in 1..MaxLocks /\ 1 \in 1..MaxObjects
  BY LimitsAssumption DEF Trees
<1>2. lockFile \in [Trees -> [Profiles -> {0, 1}]]
  BY DEF Init, NoFile
<1>3. \A p \in Profiles : lockFile[1][p] = IF p \in Built THEN 1 ELSE 0
  BY <1>1 DEF Init, NoFile
<1>4. \A t \in Trees, p \in Profiles :
        p \notin dirs[t] \/ t # 1 => lockFile[t][p] = 0
  BY <1>1 DEF Init, NoFile
<1>5. WorldType
  <2>1. root \in 0..trees /\ trees \in Trees /\ dirs \in [Trees -> SUBSET Profiles]
    BY <1>1, PartiesAssumption DEF Init
  <2>2. /\ lockFile \in [Trees -> [Profiles -> 0..MaxLocks]]
        /\ object \in [Trees -> [Profiles -> 0..MaxObjects]]
    BY <1>1, <1>2, LimitsAssumption DEF Init
  <2>3. /\ locksMade \in [Profiles -> 0..MaxLocks]
        /\ objectsMade \in [Profiles -> 0..MaxObjects]
        /\ locksMade = lockFile[1] /\ objectsMade = lockFile[1] /\ object = lockFile
    BY <1>1, <1>2, LimitsAssumption DEF Init
  <2>4. \A t \in Trees, p \in Profiles :
          /\ lockFile[t][p] <= locksMade[p] /\ object[t][p] <= objectsMade[p]
          /\ p \notin dirs[t] => lockFile[t][p] = NoFile /\ object[t][p] = NoFile
    BY <1>1, <1>2, <1>3, <1>4, <2>3 DEF NoFile
  <2> QED BY <2>1, <2>2, <2>3, <2>4 DEF WorldType
<1>6. UsersType
  <2>1. 0 \in 0..MaxLocks
    BY LimitsAssumption
  <2> QED BY <2>1 DEF Init, UsersType, NoFile
<1>7. CleanersType
  BY EmptyJobs, LimitsAssumption DEF Init, CleanersType, CleanerStates, Settlements
<1>8. HandsOpen
  BY DEF Init, HandsOpen
<1> QED BY <1>5, <1>6, <1>7, <1>8 DEF TypeInv, TypeOK

(* The files of the world stay well-typed whoever uses the directory.      *)
LEMMA OpenLockTypes ==
    ASSUME TypeInv, NEW p \in Profiles, OpenLock(p) PROVE TypeInv'
<1> USE LimitsAssumption
<1>1. /\ root' \in Trees /\ root' \in 0..trees' /\ trees' \in Trees
      /\ (root # 0 => root' = root)
  BY DEF TypeInv, TypeOK, WorldType, OpenLock, Trees
<1>2. CleanersType' /\ HandsOpen'
  BY DEF TypeInv, TypeOK, CleanersType, HandsOpen, OpenLock, job
<1>3. CASE lockFile[root'][p] # NoFile
  <2>1. WorldType'
    BY <1>1, <1>3 DEF TypeInv, TypeOK, WorldType, OpenLock
  <2>2. UsersType'
    BY SMTT(90), <1>1, <1>3 DEF TypeInv, TypeOK, WorldType, UsersType, OpenLock, locks
  <2> QED BY <1>2, <2>1, <2>2 DEF TypeInv, TypeOK
<1>4. CASE lockFile[root'][p] = NoFile
  <2>1. /\ locksMade[p] < MaxLocks
        /\ locksMade' = [locksMade EXCEPT ![p] = @ + 1]
        /\ lockFile' = [lockFile EXCEPT ![root'][p] = locksMade'[p]]
        /\ dirs' = [dirs EXCEPT ![root'] = @ \cup {p}]
        /\ opened' = [opened EXCEPT ![p] = locksMade'[p]]
        /\ UNCHANGED <<object, objectsMade, holder, ownerLock, keep, building>>
    BY <1>4 DEF OpenLock, locks
  <2>2. locksMade'[p] = locksMade[p] + 1 /\ locksMade'[p] \in 1..MaxLocks
        /\ \A q \in Profiles : q # p => locksMade'[q] = locksMade[q]
    BY <2>1 DEF TypeInv, TypeOK, WorldType
  <2>3. /\ locksMade' \in [Profiles -> 0..MaxLocks]
        /\ dirs' \in [Trees -> SUBSET Profiles]
        /\ lockFile' \in [Trees -> [Profiles -> 0..MaxLocks]]
    BY <1>1, <2>1, <2>2 DEF TypeInv, TypeOK, WorldType
  <2>4. \A t \in Trees, q \in Profiles :
          /\ lockFile'[t][q] = IF t = root' /\ q = p THEN locksMade'[p] ELSE lockFile[t][q]
          /\ dirs'[t] = IF t = root' THEN dirs[t] \cup {p} ELSE dirs[t]
    BY <1>1, <2>1 DEF TypeInv, TypeOK, WorldType
  <2>5. \A t \in Trees, q \in Profiles :
          /\ lockFile'[t][q] <= locksMade'[q] /\ object'[t][q] <= objectsMade'[q]
          /\ q \notin dirs'[t] => lockFile'[t][q] = NoFile /\ object'[t][q] = NoFile
    <3> SUFFICES ASSUME NEW t \in Trees, NEW q \in Profiles
                 PROVE /\ lockFile'[t][q] <= locksMade'[q] /\ object'[t][q] <= objectsMade'[q]
                       /\ q \notin dirs'[t] => lockFile'[t][q] = NoFile /\ object'[t][q] = NoFile
      OBVIOUS
    <3>1. /\ lockFile[t][q] \in Nat /\ locksMade[q] \in Nat /\ locksMade[p] \in Nat
          /\ lockFile[t][q] <= locksMade[q] /\ object[t][q] <= objectsMade[q]
          /\ q \notin dirs[t] => lockFile[t][q] = NoFile /\ object[t][q] = NoFile
      BY DEF TypeInv, TypeOK, WorldType
    <3> QED BY <2>1, <2>2, <2>4, <3>1
  <2>6. WorldType'
    BY <1>1, <2>1, <2>3, <2>5 DEF TypeInv, TypeOK, WorldType
  <2>7. UsersType'
    BY <2>1, <2>2 DEF TypeInv, TypeOK, UsersType
  <2> QED BY <1>2, <2>6, <2>7 DEF TypeInv, TypeOK
<1> QED BY <1>3, <1>4

LEMMA WriteTypes ==
    ASSUME WorldType, NEW p \in Profiles, WriteObject(p),
           UNCHANGED <<root, trees, lockFile, locksMade>>
    PROVE  WorldType'
<1> USE LimitsAssumption
<1>1. root \in Trees
  BY DEF WorldType, WriteObject, Trees
<1>2. objectsMade'[p] = objectsMade[p] + 1 /\ objectsMade'[p] \in 1..MaxObjects
      /\ \A q \in Profiles : q # p => objectsMade'[q] = objectsMade[q]
  BY DEF WorldType, WriteObject
<1>3. /\ objectsMade' \in [Profiles -> 0..MaxObjects]
      /\ dirs' \in [Trees -> SUBSET Profiles]
      /\ object' \in [Trees -> [Profiles -> 0..MaxObjects]]
  BY <1>1, <1>2 DEF WorldType, WriteObject
<1>4. \A t \in Trees, q \in Profiles :
        /\ object'[t][q] = IF t = root /\ q = p THEN objectsMade'[p] ELSE object[t][q]
        /\ dirs'[t] = IF t = root THEN dirs[t] \cup {p} ELSE dirs[t]
  BY <1>1 DEF WorldType, WriteObject
<1>5. \A t \in Trees, q \in Profiles :
        /\ lockFile'[t][q] <= locksMade'[q] /\ object'[t][q] <= objectsMade'[q]
        /\ q \notin dirs'[t] => lockFile'[t][q] = NoFile /\ object'[t][q] = NoFile
  <2> SUFFICES ASSUME NEW t \in Trees, NEW q \in Profiles
               PROVE /\ lockFile'[t][q] <= locksMade'[q] /\ object'[t][q] <= objectsMade'[q]
                     /\ q \notin dirs'[t] => lockFile'[t][q] = NoFile /\ object'[t][q] = NoFile
    OBVIOUS
  <2>1. /\ object[t][q] \in Nat /\ objectsMade[q] \in Nat /\ objectsMade[p] \in Nat
        /\ lockFile[t][q] <= locksMade[q] /\ object[t][q] <= objectsMade[q]
        /\ q \notin dirs[t] => lockFile[t][q] = NoFile /\ object[t][q] = NoFile
    BY DEF WorldType
  <2>2. lockFile'[t][q] = lockFile[t][q] /\ locksMade'[q] = locksMade[q]
    OBVIOUS
  <2>3. object'[t][q] <= objectsMade'[q]
    <3>1. object'[t][q] \in {objectsMade'[q], object[t][q]}
      BY <1>4
    <3>2. objectsMade'[q] \in {objectsMade[q], objectsMade[q] + 1}
      BY <1>2
    <3> QED BY <2>1, <3>1, <3>2
  <2>4. ASSUME q \notin dirs'[t] PROVE q \notin dirs[t] /\ object'[t][q] = object[t][q]
    BY <1>4, <2>4
  <2> QED BY <2>1, <2>2, <2>3, <2>4
<1> QED BY <1>3, <1>5 DEF WorldType

LEMMA UserTypes ==
    ASSUME TypeInv, NEW p \in Profiles,
           StartBuild(p) \/ Build(p) \/ FinishBuild(p) \/ Work(p)
    PROVE  TypeInv'
<1>1. CASE StartBuild(p)
  <2>1. opened[p] \in LockInodes
    BY <1>1 DEF TypeInv, TypeOK, UsersType, StartBuild, NoFile, LockInodes
  <2> QED BY <1>1, <2>1
    DEF StartBuild, TypeInv, TypeOK, WorldType, UsersType, CleanersType, HandsOpen, world, job
<1>2. CASE Build(p)
  <2>1. WorldType'
    BY <1>2, WriteTypes DEF Build, TypeInv, TypeOK
  <2> QED BY <1>2, <2>1
    DEF Build, TypeInv, TypeOK, UsersType, CleanersType, HandsOpen, job, users, locks
<1>3. CASE FinishBuild(p)
  <2>1. opened' \in [Profiles -> 0..MaxLocks]
    BY <1>3, LimitsAssumption DEF FinishBuild, TypeInv, TypeOK, UsersType, NoFile
  <2>2. holder' \in [Profiles -> [LockInodes -> Cleaners \cup Profiles \cup {NoOne}]]
    BY <1>3 DEF FinishBuild, TypeInv, TypeOK, UsersType
  <2> QED BY <1>3, <2>1, <2>2
    DEF FinishBuild, TypeInv, TypeOK, WorldType, UsersType, CleanersType, HandsOpen, world, job
<1>4. CASE Work(p)
  <2>1. WorldType'
    BY <1>4, WriteTypes DEF Work, TypeInv, TypeOK
  <2> QED BY <1>4, <2>1
    DEF Work, TypeInv, TypeOK, UsersType, CleanersType, HandsOpen, job, users, locks
<1> QED BY <1>1, <1>2, <1>3, <1>4

LEMMA OthersTypes ==
    ASSUME TypeInv, Arrive \/ Leave \/ Keep \/ MoveAway PROVE TypeInv'
<1>1. CASE Arrive \/ Leave
  BY <1>1 DEF Arrive, Leave, TypeInv, TypeOK, WorldType, UsersType, CleanersType, HandsOpen,
              world, job, users
<1>2. CASE Keep
  BY <1>2 DEF Keep, TypeInv, TypeOK, WorldType, UsersType, CleanersType, HandsOpen,
              world, job, locks
<1>3. CASE MoveAway
  BY <1>3 DEF MoveAway, TypeInv, TypeOK, WorldType, UsersType, CleanersType, HandsOpen,
              locks, job, users, Trees
<1> QED BY <1>1, <1>2, <1>3

(* One marker above, none inside and no worktree: the marker decides.      *)
LEMMA MarkerAlone ==
    ASSUME NEW m PROVE SettlementOf({m}, {}, [kind |-> "none"]) = MarkerSettlement(m)
<1> DEFINE s == MarkerSettlement(m)
<1>1. s \in Settlements /\ Rank[s] <= Rank[s]
  BY DEF MarkerSettlement, Settlements, Rank
<1>2. SettlementsOf({m}) = {s} /\ SettlementsOf(Holders({})) = {}
  BY DEF SettlementsOf, Holders
<1> HIDE DEF s
<1>3. Strongest({s}) = s
  BY <1>1 DEF Strongest
<1> QED BY <1>2, <1>3 DEF SettlementOf, s

(* A cleaner that only looks leaves the world and its users as they are.   *)
LEMMA LookTypes ==
    ASSUME TypeInv, NEW c \in Cleaners,
           Scan(c) \/ Observe(c) \/ Survey(c) \/ Ownership(c)
    PROVE  TypeInv'
<1> USE LimitsAssumption
<1>0. CASE UNCHANGED world /\ \E o \in {"idle", "deleted", "rejected", "failed"} : Ends(c, o)
  BY <1>0, EndsTypes DEF TypeInv, TypeOK, WorldType, world
<1>1. CASE Scan(c)
  <2>1. ContentsAt(root) \in Records
    BY <1>1 DEF Scan, ContentsAt, Records, TypeInv, TypeOK, WorldType, Trees
  <2>2. WorldType' /\ UsersType'
    BY <1>1 DEF Scan, TypeInv, TypeOK, WorldType, UsersType, world, locks, users
  <2> QED BY <1>1, <2>1, <2>2
    DEF Scan, TypeInv, TypeOK, CleanersType, HandsOpen, CleanerStates
<1>2. CASE Observe(c)
  <2>1. CASE root = 0
    BY <1>0, <1>2, <2>1 DEF Observe
  <2>2. CASE root # 0
    <3>1. root \in 0..MaxTrees
      BY DEF TypeInv, TypeOK, WorldType, Trees
    <3>2. WorldType' /\ UsersType'
      BY <1>2, <2>2 DEF Observe, TypeInv, TypeOK, WorldType, UsersType, world, locks, users
    <3>3. keptSince' \in [Cleaners -> BOOLEAN]
      BY <1>2, <2>2, Zenon DEF Observe, TypeInv, TypeOK, CleanersType
    <3>4. seen' \in [Cleaners -> 0..MaxTrees]
      BY <1>2, <2>2, <3>1 DEF Observe, TypeInv, TypeOK, CleanersType
    <3>5. pc' \in [Cleaners -> CleanerStates] /\ HandsOpen'
      BY <1>2, <2>2 DEF Observe, Go, TypeInv, TypeOK, CleanersType, HandsOpen, CleanerStates
    <3>6. UNCHANGED <<recorded, claim, read, want, hand, walk>>
      BY <1>2, <2>2 DEF Observe
    <3> QED BY <3>2, <3>3, <3>4, <3>5, <3>6 DEF TypeInv, TypeOK, CleanersType
  <2> QED BY <2>1, <2>2
<1>3. CASE Survey(c)
  <2>1. CASE root = 0
    BY <1>0, <1>3, <2>1 DEF Survey
  <2>2. CASE root # 0
    <3>2. WorldType' /\ UsersType'
      BY <1>3, <2>2 DEF Survey, TypeInv, TypeOK, WorldType, UsersType, world, locks, users
    <3> QED BY <1>3, <2>2, <3>2
      DEF Survey, Go, TypeInv, TypeOK, CleanersType, HandsOpen, CleanerStates
  <2> QED BY <2>1, <2>2
<1>4. CASE Ownership(c)
  <2>1. WorldType' /\ UsersType'
    BY <1>4 DEF Ownership, TypeInv, TypeOK, WorldType, UsersType, world, locks, users
  <2>2. SettlementOf({MarkerNow}, {}, [kind |-> "none"]) \in Settlements
    BY MarkerAlone DEF MarkerSettlement, Settlements
  <2> QED BY <1>4, <2>1, <2>2
    DEF Ownership, Go, TypeInv, TypeOK, CleanersType, HandsOpen, CleanerStates
<1> QED BY <1>1, <1>2, <1>3, <1>4

LEMMA LeaseTypes ==
    ASSUME TypeInv, NEW c \in Cleaners,
           \/ \E p \in Profiles : Lease(c, p)
           \/ LeaseOwner(c)
           \/ \E l \in Profiles \cup {Owner} : Contention(c, l)
    PROVE  TypeInv'
<1> USE LimitsAssumption
<1>1. ASSUME NEW p \in Profiles, Lease(c, p) PROVE TypeInv'
  <2>1. WorldType'
    BY <1>1 DEF Lease, TypeInv, TypeOK, WorldType, world
  <2>2. CleanersType' /\ HandsOpen'
    BY <1>1 DEF Lease, Done, TypeInv, TypeOK, CleanersType, HandsOpen
  <2>3. UsersType'
    BY <1>1 DEF Lease, TypeInv, TypeOK, UsersType, users
  <2> QED BY <2>1, <2>2, <2>3 DEF TypeInv, TypeOK
<1>2. CASE LeaseOwner(c)
  BY <1>2 DEF LeaseOwner, Done, TypeInv, TypeOK, WorldType, UsersType, CleanersType,
              HandsOpen, world, users
<1>3. ASSUME NEW l \in Profiles \cup {Owner}, Contention(c, l) PROVE TypeInv'
  <2>1. WorldType' /\ UsersType'
    BY <1>3, UnlockedTypes
    DEF Contention, TypeInv, TypeOK, WorldType, UsersType, world, users
  <2>2. CleanersType' /\ HandsOpen'
    BY <1>3 DEF Contention, TypeInv, TypeOK, CleanersType, HandsOpen
  <2> QED BY <2>1, <2>2 DEF TypeInv, TypeOK
<1> QED BY <1>1, <1>2, <1>3

(* A step that changes nothing but where one cleaner is, and its walk.     *)
LEMMA StepTypes ==
    ASSUME TypeInv, NEW c \in Cleaners, NEW s \in CleanerStates, NEW w \in Walks,
           pc' = [pc EXCEPT ![c] = s], walk' = [walk EXCEPT ![c] = w],
           s \in {"list", "clear", "restat", "rmdir"} => hand[c] \in Trees,
           UNCHANGED <<locks, users, recorded, seen, claim, read, want, hand, keptSince>>
    PROVE  UsersType' /\ CleanersType' /\ HandsOpen'
BY DEF TypeInv, TypeOK, UsersType, CleanersType, HandsOpen, locks, users

LEMMA CheckTypes ==
    ASSUME TypeInv, NEW c \in Cleaners,
           Recheck(c) \/ Measure(c) \/ OpenRoot(c) \/ Restat(c)
    PROVE  TypeInv'
<1> USE LimitsAssumption
<1>0. WorldType'
  BY DEF Recheck, Measure, OpenRoot, Restat, TypeInv, TypeOK, WorldType, world
<1>1. CASE \E o \in {"idle", "deleted", "rejected", "failed"} : Ends(c, o)
  BY <1>0, <1>1, EndsTypes DEF TypeInv, TypeOK
<1>2. CASE /\ \E s \in {"measure", "open"} : pc' = [pc EXCEPT ![c] = s]
           /\ UNCHANGED <<locks, users, job, keptSince>>
  BY <1>0, <1>2 DEF TypeInv, TypeOK, UsersType, CleanersType, CleanerStates, HandsOpen,
                    locks, users, job
<1>3. CASE /\ pc[c] = "restat" /\ pc' = [pc EXCEPT ![c] = "rmdir"]
           /\ UNCHANGED <<locks, users, job, keptSince>>
  BY <1>0, <1>3 DEF TypeInv, TypeOK, UsersType, CleanersType, CleanerStates, HandsOpen,
                    locks, users, job
<1>4. CASE OpenRoot(c) /\ root # 0 /\ root = seen[c]
  <2>1. root \in Trees
    BY <1>4 DEF TypeInv, TypeOK, WorldType, Trees
  <2>2. [NoWalk EXCEPT !.todo = dirs[root]] \in Walks
    BY <2>1, EmptyJobs DEF TypeInv, TypeOK, WorldType, Walks
  <2> QED BY ZenonT(60), <1>0, <1>4, <2>1, <2>2
    DEF OpenRoot, Go, TypeInv, TypeOK, UsersType, CleanersType, HandsOpen, CleanerStates,
        Trees, locks, users
<1>5. CASE Recheck(c)
  BY <1>1, <1>2, <1>5 DEF Recheck
<1>6. CASE Measure(c)
  BY <1>1, <1>2, <1>6 DEF Measure
<1>7. CASE OpenRoot(c)
  BY <1>1, <1>4, <1>7 DEF OpenRoot, Fails
<1>8. CASE Restat(c)
  BY <1>1, <1>3, <1>8 DEF Restat, Fails
<1> QED BY <1>5, <1>6, <1>7, <1>8

LEMMA ListTypes ==
    ASSUME TypeInv, NEW c \in Cleaners, ListDirectory(c) \/ EndPass(c)
    PROVE  TypeInv'
<1> USE LimitsAssumption
<1>0. WorldType'
  BY DEF ListDirectory, EndPass, TypeInv, TypeOK, WorldType, world
<1>1. walk[c] \in Walks /\ walk \in [Cleaners -> Walks]
  BY DEF TypeInv, TypeOK, CleanersType
<1>2. pc[c] = "list" /\ hand[c] \in Trees
  BY DEF ListDirectory, EndPass, TypeInv, HandsOpen
<1>3. CASE EndPass(c)
  <2>1. [NoWalk EXCEPT !.pass = 2, !.todo = dirs[hand[c]]] \in Walks
    BY <1>2, EmptyJobs DEF TypeInv, TypeOK, WorldType, Walks
  <2>2. CASE walk[c].pass = 1
    BY <1>0, <1>2, <1>3, <2>1, <2>2
    DEF EndPass, TypeInv, TypeOK, UsersType, CleanersType, HandsOpen, locks, users
  <2>3. CASE walk[c].pass # 1
    BY <1>0, <1>2, <1>3, <2>3
    DEF EndPass, TypeInv, TypeOK, UsersType, CleanersType, HandsOpen, CleanerStates,
        locks, users
  <2> QED BY <2>2, <2>3
<1>4. CASE ListDirectory(c)
  <2>1. PICK p \in walk[c].todo :
          IF p \in dirs[hand[c]]
          THEN /\ pc' = [pc EXCEPT ![c] = "clear"]
               /\ walk' = [walk EXCEPT ![c] =
                             [walk[c] EXCEPT !.todo = @ \ {p}, !.at = p,
                                       !.left = Entries(hand[c], p), !.emptied = TRUE]]
               /\ UNCHANGED <<locks, users, recorded, seen, claim, read, want, hand, keptSince>>
          ELSE Fails(c)
    BY <1>4 DEF ListDirectory
  <2>2. CASE p \in dirs[hand[c]]
    <3> DEFINE w == [walk[c] EXCEPT !.todo = @ \ {p}, !.at = p,
                                    !.left = Entries(hand[c], p), !.emptied = TRUE]
    <3>1. w \in Walks
      BY <1>1 DEF Walks, Entries
    <3>2. walk' = [walk EXCEPT ![c] = w]
      BY <2>1, <2>2
    <3>4. "clear" \in CleanerStates
      BY DEF CleanerStates
    <3> HIDE DEF w
    <3>3. UsersType' /\ CleanersType' /\ HandsOpen'
      BY <1>2, <2>1, <2>2, <3>1, <3>2, <3>4, StepTypes
    <3> QED BY <1>0, <3>3 DEF TypeInv, TypeOK
  <2>3. CASE p \notin dirs[hand[c]]
    BY <1>0, <2>1, <2>3, EndsTypes DEF Fails, TypeInv, TypeOK
  <2> QED BY <2>2, <2>3
<1> QED BY <1>3, <1>4

(* Taking files or an empty directory away leaves a well-typed world.      *)
LEMMA LossTypes ==
    ASSUME WorldType, UNCHANGED <<trees, locksMade, objectsMade>>,
           root' \in {root, 0}, NEW t \in Trees, NEW p \in Profiles,
           \/ /\ UNCHANGED <<dirs, object>>
              /\ lockFile' \in {lockFile, [lockFile EXCEPT ![t][p] = NoFile]}
           \/ /\ UNCHANGED <<dirs, lockFile>>
              /\ object' \in {object, [object EXCEPT ![t][p] = NoFile]}
           \/ /\ UNCHANGED <<object, lockFile>>
              /\ dirs' = [dirs EXCEPT ![t] = @ \ {p}]
              /\ lockFile[t][p] = NoFile /\ object[t][p] = NoFile
    PROVE  WorldType'
<1>1. 0 \in 0..MaxLocks /\ 0 \in 0..MaxObjects /\ 0 \in 0..trees
  BY LimitsAssumption DEF WorldType, Trees
<1>2. /\ lockFile' \in [Trees -> [Profiles -> 0..MaxLocks]]
      /\ object' \in [Trees -> [Profiles -> 0..MaxObjects]]
      /\ dirs' \in [Trees -> SUBSET Profiles]
      /\ root' \in 0..trees'
  <2>1. [lockFile EXCEPT ![t][p] = NoFile] \in [Trees -> [Profiles -> 0..MaxLocks]]
    BY <1>1 DEF WorldType, NoFile
  <2>2. [object EXCEPT ![t][p] = NoFile] \in [Trees -> [Profiles -> 0..MaxObjects]]
    BY <1>1 DEF WorldType, NoFile
  <2>3. [dirs EXCEPT ![t] = @ \ {p}] \in [Trees -> SUBSET Profiles]
    BY DEF WorldType
  <2> QED BY <1>1, <2>1, <2>2, <2>3 DEF WorldType
<1>3. \A s \in Trees, q \in Profiles :
        /\ lockFile'[s][q] \in {lockFile[s][q], 0}
        /\ object'[s][q] \in {object[s][q], 0}
        /\ q \in dirs[s] /\ q \notin dirs'[s] => lockFile'[s][q] = 0 /\ object'[s][q] = 0
  BY DEF WorldType, NoFile
<1>4. \A s \in Trees, q \in Profiles :
        /\ lockFile'[s][q] <= locksMade'[q] /\ object'[s][q] <= objectsMade'[q]
        /\ q \notin dirs'[s] => lockFile'[s][q] = NoFile /\ object'[s][q] = NoFile
  <2> SUFFICES ASSUME NEW s \in Trees, NEW q \in Profiles
               PROVE /\ lockFile'[s][q] <= locksMade'[q] /\ object'[s][q] <= objectsMade'[q]
                     /\ q \notin dirs'[s] => lockFile'[s][q] = NoFile /\ object'[s][q] = NoFile
    OBVIOUS
  <2>1. /\ locksMade[q] \in Nat /\ objectsMade[q] \in Nat
        /\ lockFile[s][q] <= locksMade[q] /\ object[s][q] <= objectsMade[q]
        /\ q \notin dirs[s] => lockFile[s][q] = NoFile /\ object[s][q] = NoFile
    BY DEF WorldType
  <2> QED BY <1>3, <2>1 DEF NoFile
<1> QED BY <1>2, <1>4 DEF WorldType

LEMMA UnlinkTypes ==
    ASSUME TypeInv, NEW c \in Cleaners, Unlink(c) PROVE TypeInv'
<1>1. /\ hand[c] \in Trees /\ pc[c] = "clear"
      /\ walk \in [Cleaners -> Walks] /\ walk[c] \in Walks
      /\ UNCHANGED <<root, trees, dirs, locksMade, objectsMade>>
  BY DEF Unlink, TypeInv, TypeOK, CleanersType, HandsOpen
<1> DEFINE t == hand[c]
           p == walk[c].at
<1>2. /\ lockFile' \in {lockFile, [lockFile EXCEPT ![t][p] = NoFile]}
      /\ object' \in {object, [object EXCEPT ![t][p] = NoFile]}
      /\ lockFile' = lockFile \/ object' = object
  BY DEF Unlink
<1>3. WorldType'
  <2>1. CASE p \in Profiles
    BY <1>1, <1>2, <2>1, LossTypes DEF TypeInv, TypeOK
  <2>2. CASE p \notin Profiles
    <3>1. UNCHANGED <<lockFile, object>>
      <4>1. lockFile[t] \in [Profiles -> 0..MaxLocks] /\ object[t] \in [Profiles -> 0..MaxObjects]
        BY <1>1 DEF TypeInv, TypeOK, WorldType
      <4>2. [lockFile[t] EXCEPT ![p] = NoFile] = lockFile[t]
        BY <2>2, <4>1
      <4>3. [object[t] EXCEPT ![p] = NoFile] = object[t]
        BY <2>2, <4>1
      <4>4. [lockFile EXCEPT ![t][p] = NoFile] = [lockFile EXCEPT ![t] = lockFile[t]]
        BY <4>2
      <4>5. [object EXCEPT ![t][p] = NoFile] = [object EXCEPT ![t] = object[t]]
        BY <4>3
      <4>6. /\ [lockFile EXCEPT ![t] = lockFile[t]] = lockFile
            /\ [object EXCEPT ![t] = object[t]] = object
        BY DEF TypeInv, TypeOK, WorldType
      <4> QED BY <1>2, <4>4, <4>5, <4>6
    <3> QED BY <1>1, <3>1 DEF TypeInv, TypeOK, WorldType
  <2> QED BY <2>1, <2>2
<1>4. CASE Fails(c)
  BY <1>3, <1>4, EndsTypes DEF Fails, TypeInv, TypeOK
<1>5. CASE UNCHANGED <<locks, users, pc, recorded, seen, claim, read, want, hand, keptSince>>
  <2>1. PICK e \in walk[c].left :
          \/ e \notin Entries(t, p) /\ Fails(c)
          \/ walk' = [walk EXCEPT ![c] = [walk[c] EXCEPT !.left = @ \ {e}, !.emptied = FALSE]]
          \/ walk' = [walk EXCEPT ![c] = [walk[c] EXCEPT !.left = @ \ {e}]]
    BY DEF Unlink
  <2>2. /\ [walk[c] EXCEPT !.left = @ \ {e}, !.emptied = FALSE] \in Walks
        /\ [walk[c] EXCEPT !.left = @ \ {e}] \in Walks
    BY <1>1 DEF Walks
  <2>3. CASE Fails(c)
    BY <1>4, <2>3
  <2>4. CASE walk' \in [Cleaners -> Walks]
    BY <1>1, <1>3, <1>5, <2>4
    DEF TypeInv, TypeOK, UsersType, CleanersType, HandsOpen, locks, users
  <2> QED BY <1>1, <2>1, <2>2, <2>3, <2>4
<1> QED BY <1>4, <1>5 DEF Unlink

LEMMA LeaveTypes ==
    ASSUME TypeInv, NEW c \in Cleaners, LeaveDirectory(c) PROVE TypeInv'
<1> DEFINE p == walk[c].at
<1>1. /\ hand[c] \in Trees /\ pc[c] = "clear"
      /\ walk \in [Cleaners -> Walks] /\ walk[c] \in Walks
      /\ UNCHANGED <<root, trees, lockFile, object, locksMade, objectsMade>>
  BY DEF LeaveDirectory, TypeInv, TypeOK, CleanersType, HandsOpen
<1>2. CASE walk[c].emptied /\ (p \notin dirs[hand[c]] \/ Entries(hand[c], p) # {})
  <2>1. Fails(c) /\ UNCHANGED dirs
    BY <1>2 DEF LeaveDirectory
  <2>2. WorldType'
    BY <1>1, <2>1 DEF TypeInv, TypeOK, WorldType
  <2> QED BY <2>1, <2>2, EndsTypes DEF Fails, TypeInv, TypeOK
<1>3. CASE ~(walk[c].emptied /\ (p \notin dirs[hand[c]] \/ Entries(hand[c], p) # {}))
  <2>1. /\ pc' = [pc EXCEPT ![c] = "list"]
        /\ walk' = [walk EXCEPT ![c].at = NoOne]
        /\ dirs' = IF walk[c].emptied THEN [dirs EXCEPT ![hand[c]] = @ \ {p}] ELSE dirs
        /\ UNCHANGED <<locks, users, recorded, seen, claim, read, want, hand, keptSince>>
    BY <1>3 DEF LeaveDirectory
  <2>2. WorldType'
    <3>1. CASE walk[c].emptied
      <4>1. p \in dirs[hand[c]] /\ Entries(hand[c], p) = {}
        BY <1>3, <3>1
      <4>2. lockFile[hand[c]][p] = NoFile /\ object[hand[c]][p] = NoFile
        BY <4>1 DEF Entries
      <4>3. p \in Profiles
        BY <1>1, <4>1 DEF TypeInv, TypeOK, WorldType
      <4> HIDE DEF p
      <4> QED BY <1>1, <2>1, <3>1, <4>2, <4>3, LossTypes DEF TypeInv, TypeOK
    <3>2. CASE ~walk[c].emptied
      BY <1>1, <2>1, <3>2 DEF TypeInv, TypeOK, WorldType
    <3> QED BY <3>1, <3>2
  <2>3. [walk[c] EXCEPT !.at = NoOne] \in Walks /\ "list" \in CleanerStates
    BY <1>1 DEF Walks, CleanerStates
  <2>4. UsersType' /\ CleanersType' /\ HandsOpen'
    BY <1>1, <2>1, <2>3, StepTypes
  <2> QED BY <2>2, <2>4 DEF TypeInv, TypeOK
<1> QED BY <1>2, <1>3

LEMMA EndTypes ==
    ASSUME TypeInv, NEW c \in Cleaners, Rmdir(c) \/ Dies(c) PROVE TypeInv'
<1>1. \E o \in {"idle", "deleted", "rejected", "failed"} : Ends(c, o)
  BY DEF Rmdir, Dies, Fails
<1>2. WorldType'
  <2>1. 0 \in 0..trees
    BY LimitsAssumption DEF TypeInv, TypeOK, WorldType, Trees
  <2> QED BY <2>1 DEF Rmdir, Dies, TypeInv, TypeOK, WorldType, world
<1> QED BY <1>1, <1>2, EndsTypes DEF TypeInv, TypeOK

LEMMA TypeStep == TypeInv /\ [Next]_vars => TypeInv'
<1> SUFFICES ASSUME TypeInv, [Next]_vars PROVE TypeInv'
  OBVIOUS
<1>1. ASSUME NEW p \in Profiles,
             OpenLock(p) \/ StartBuild(p) \/ Build(p) \/ FinishBuild(p) \/ Work(p)
      PROVE  TypeInv'
  BY <1>1, OpenLockTypes, UserTypes
<1>2. CASE Arrive \/ Leave \/ Keep \/ MoveAway
  BY <1>2, OthersTypes
<1>3. ASSUME NEW c \in Cleaners, Scan(c) \/ CleanerStep(c) \/ Dies(c)
      PROVE  TypeInv'
  BY <1>3, LookTypes, LeaseTypes, CheckTypes, ListTypes, UnlinkTypes, LeaveTypes, EndTypes
  DEF CleanerStep
<1>4. CASE UNCHANGED vars
  <2>1. UNCHANGED <<world, locks, users, pc, job, keptSince>>
    BY <1>4 DEF vars
  <2> QED BY <2>1 DEF world, locks, users, job, TypeInv, TypeOK, WorldType, UsersType,
                      CleanersType, HandsOpen
<1> QED BY <1>1, <1>2, <1>3, <1>4 DEF Next

(* The state keeps its types in every behaviour: what is at the path, who  *)
(* holds which lock, and where every cleaner stands in its removal.        *)
THEOREM DeletionTypeCorrect == Spec => []TypeOK
<1>1. TypeInv => TypeOK
  BY DEF TypeInv
<1> QED BY TypeInit, TypeStep, <1>1, PTL DEF Spec

-------------------------------------------------------------------------------
(* What the gates ask of a candidate before it is removed.                 *)
LEMMA GatesAsked ==
    ASSUME NEW ask, ask.ask \in {"recheck", "verify"}, Admitted(Site, ask)
    PROVE  /\ OwnershipGate(ask) # "reject" /\ Busy(ask) # "reject"
           /\ Identity(ask) # "reject" /\ Freshness(ask) # "reject"
<1>1. /\ Len(Order) = 12 /\ Order[7] = "ownership" /\ Order[10] = "busy"
      /\ Order[11] = "identity" /\ Order[12] = "freshness"
  BY DEF Order
<1>2. \A i \in {7, 10, 11, 12} : Check(Site, ask)[Order[i]] # "reject"
  BY <1>1 DEF Admitted
<1>3. /\ Check(Site, ask)["ownership"] = OwnershipGate(ask)
      /\ Check(Site, ask)["busy"] = Busy(ask)
      /\ Check(Site, ask)["identity"] = Identity(ask)
      /\ Check(Site, ask)["freshness"] = Freshness(ask)
  BY DEF Check
<1> QED BY <1>1, <1>2, <1>3

LEMMA RecheckAsks ==
    ASSUME CleanersType, NEW c \in Cleaners, Admitted(Site, RecheckOf(c))
    PROVE  read[c] = "free" /\ AdmitsDeletion(Mandate, claim[c])
<1> DEFINE ask == RecheckOf(c)
<1>1. /\ ask.ask = "recheck" /\ ask.liveness = read[c]
      /\ ask.settlement = claim[c] /\ ask.admits = Mandate
      /\ read[c] \in {"free", "held"} /\ claim[c] \in Settlements
  BY DEF RecheckOf, CleanersType
<1>2. Busy(ask) # "reject" /\ OwnershipGate(ask) # "reject"
  BY <1>1, GatesAsked
<1> HIDE DEF ask
<1> QED BY <1>1, <1>2 DEF Busy, OwnershipGate, Destroys, Settlements

LEMMA VerifyAsks ==
    ASSUME CleanersType, NEW c \in Cleaners, NEW f \in BOOLEAN, Admitted(Site, VerifyOf(c, f))
    PROVE  /\ read[c] = "free" /\ AdmitsDeletion(Mandate, claim[c])
           /\ seen[c] = recorded[c].tree /\ f
<1> DEFINE ask == VerifyOf(c, f)
<1>1. /\ ask.ask = "verify" /\ ask.liveness = read[c]
      /\ ask.settlement = claim[c] /\ ask.admits = Mandate
      /\ ask.sameIdentity = (seen[c] = recorded[c].tree) /\ ask.fresh = f
      /\ read[c] \in {"free", "held"} /\ claim[c] \in Settlements
  BY DEF VerifyOf, CleanersType
<1>2. /\ Busy(ask) # "reject" /\ OwnershipGate(ask) # "reject"
      /\ Identity(ask) # "reject" /\ Freshness(ask) # "reject"
  BY <1>1, GatesAsked
<1> HIDE DEF ask
<1>3. read[c] = "free"
  BY <1>1, <1>2 DEF Busy
<1>4. AdmitsDeletion(Mandate, claim[c])
  BY <1>1, <1>2 DEF OwnershipGate, Destroys, Settlements
<1>5. seen[c] = recorded[c].tree /\ f
  BY <1>1, <1>2 DEF Identity, Freshness, HasRecord
<1> QED BY <1>3, <1>4, <1>5

-------------------------------------------------------------------------------
(* What a step of one cleaner leaves alone: the jobs of the others, what   *)
(* the users hold, and what the others hold.                               *)
Spared(c) ==
    /\ UNCHANGED users
    /\ \A d \in Cleaners : d # c =>
         /\ pc'[d] = pc[d] /\ recorded'[d] = recorded[d] /\ claim'[d] = claim[d]
         /\ read'[d] = read[d] /\ want'[d] = want[d] /\ keptSince'[d] = keptSince[d]
    /\ ownerLock \notin {c, NoOne} => ownerLock' = ownerLock
    /\ ownerLock = NoOne => ownerLock' \in {c, NoOne}
    /\ \A p \in Profiles, i \in LockInodes :
         holder[p][i] \notin {c, NoOne} => holder'[p][i] = holder[p][i]

LEMMA EndsSpares ==
    ASSUME TypeOK, NEW c \in Cleaners, NEW outcome, Ends(c, outcome) PROVE Spared(c)
BY DEF Spared, Ends, Unlocked, TypeOK, UsersType, CleanersType

LEMMA CleanerSpares ==
    ASSUME TypeOK, NEW c \in Cleaners, Scan(c) \/ CleanerStep(c) \/ Dies(c)
    PROVE  Spared(c)
<1>0. CASE \E o : Ends(c, o)
  BY <1>0, EndsSpares
<1>1. CASE Scan(c)
  BY <1>1 DEF Scan, Spared, TypeOK, CleanersType, locks
<1>2. CASE Observe(c)
  BY <1>0, <1>2 DEF Observe, Go, Spared, TypeOK, CleanersType, locks
<1>3. CASE Survey(c)
  BY <1>0, <1>3 DEF Survey, Go, Spared, TypeOK, CleanersType, locks
<1>4. CASE Ownership(c)
  BY <1>4 DEF Ownership, Go, Spared, TypeOK, CleanersType, locks
<1>5. ASSUME NEW p \in Profiles, Lease(c, p) PROVE Spared(c)
  BY <1>5 DEF Lease, Done, Spared, TypeOK, UsersType, CleanersType
<1>6. CASE LeaseOwner(c)
  BY <1>6 DEF LeaseOwner, Done, Spared, TypeOK, CleanersType
<1>7. ASSUME NEW l \in Profiles \cup {Owner}, Contention(c, l) PROVE Spared(c)
  BY <1>7 DEF Contention, Unlocked, Spared, TypeOK, UsersType, CleanersType
<1>8. CASE \/ /\ pc' = [pc EXCEPT ![c] = pc'[c]]
              /\ UNCHANGED <<locks, users, recorded, claim, read, want, keptSince>>
  BY <1>8 DEF Spared, TypeOK, CleanersType, locks
<1>9. CASE Recheck(c) \/ Measure(c) \/ OpenRoot(c) \/ Restat(c)
  BY <1>0, <1>8, <1>9 DEF Recheck, Measure, OpenRoot, Restat, Fails, Go, job, TypeOK, CleanersType
<1>10. CASE ListDirectory(c) \/ EndPass(c) \/ LeaveDirectory(c)
  BY ZenonT(60), <1>0, <1>8, <1>10
  DEF ListDirectory, EndPass, LeaveDirectory, Fails, TypeOK, CleanersType
<1>11. CASE Unlink(c)
  BY <1>0, <1>8, <1>11 DEF Unlink, Fails, TypeOK, CleanersType
<1>12. CASE Rmdir(c) \/ Dies(c)
  BY <1>0, <1>12 DEF Rmdir, Dies, Fails
<1> QED BY <1>1, <1>2, <1>3, <1>4, <1>5, <1>6, <1>7, <1>9, <1>10, <1>11, <1>12 DEF CleanerStep

-------------------------------------------------------------------------------
(* The inductive invariant behind the locks.                               *)

(* A tree that is still to come has no lock file.                          *)
NewTreesEmpty ==
    \A t \in Trees, p \in Profiles : t > trees => lockFile[t][p] = NoFile

(* A builder works under the lock of the file it has open.                 *)
BuildersLock ==
    \A p \in building : opened[p] # NoFile /\ holder[p][opened[p]] = p

(* The recorded lock file of `p` is accounted for: it never was, it is no  *)
(* longer at the path, it is still to be locked, it is locked, or the      *)
(* attempt has failed.                                                     *)
Accounted(c, p) ==
    LET i == recorded[c].locks[p] IN
    \/ i = NoFile
    \/ AtPath(p) # i
    \/ p \in want[c]
    \/ holder[p][i] = c
    \/ read[c] = "held"

Leasing == {c \in Cleaners : pc[c] \in {"ownership", "lease", "measure"}}

LeaseOf(c) ==
    /\ \A p \in Profiles : recorded[c].locks[p] <= locksMade[p]
    /\ c \in Leasing =>
         /\ Owner \in want[c] \/ ownerLock = c \/ read[c] = "held"
         /\ \A p \in Profiles : Accounted(c, p)
    /\ pc[c] = "measure" => want[c] = {} /\ read[c] = "free"
    /\ c \in Removing =>
         /\ ownerLock = c
         /\ \A p \in Profiles : recorded[c].locks[p] # NoFile =>
              holder[p][recorded[c].locks[p]] = c

LeaseInv ==
    /\ TypeInv
    /\ NewTreesEmpty
    /\ BuildersLock
    /\ \A c \in Cleaners : LeaseOf(c)

LEMMA LeaseInit == Init => LeaseInv
<1> SUFFICES ASSUME Init PROVE LeaseInv
  OBVIOUS
<1>1. TypeInv
  BY TypeInit
<1>2. NewTreesEmpty
  BY <1>1 DEF Init, NewTreesEmpty, TypeInv, TypeOK, WorldType
<1>3. BuildersLock
  BY DEF Init, BuildersLock
<1>4. ASSUME NEW c \in Cleaners PROVE LeaseOf(c)
  <2>1. pc[c] = "idle" /\ \A p \in Profiles : recorded[c].locks[p] = 0
    BY <1>4 DEF Init, NoRecord, NoFile
  <2>2. \A p \in Profiles : locksMade[p] \in Nat
    BY <1>1 DEF TypeInv, TypeOK, WorldType
  <2> QED BY <2>1, <2>2 DEF LeaseOf, Leasing, Removing
<1> QED BY <1>1, <1>2, <1>3, <1>4 DEF LeaseInv

(* What is done to the files in one step, whoever takes it: a profile gets *)
(* a lock file of a new number or loses one, and a new tree is empty.      *)
LEMMA Files ==
    ASSUME TypeInv, NewTreesEmpty, [Next]_vars
    PROVE  /\ trees <= trees'
           /\ root' \in {root, 0} \/ (root' = trees' /\ trees' = trees + 1)
           /\ \A p \in Profiles :
                /\ locksMade'[p] \in {locksMade[p], locksMade[p] + 1}
                /\ \A t \in Trees :
                     \/ lockFile'[t][p] \in {lockFile[t][p], NoFile}
                     \/ /\ t = root' /\ lockFile'[t][p] = locksMade[p] + 1
                        /\ locksMade'[p] = locksMade[p] + 1
<1> DEFINE Quiet ==
      /\ trees' = trees /\ locksMade' = locksMade /\ root' \in {root, 0}
      /\ \A t \in Trees, p \in Profiles : lockFile'[t][p] \in {lockFile[t][p], NoFile}
<1>1. ASSUME NEW q \in Profiles, OpenLock(q)
      PROVE  /\ trees' = trees \/ trees' = trees + 1
             /\ root' = root \/ (root' = trees' /\ trees' = trees + 1)
             /\ \A p \in Profiles :
                  /\ locksMade'[p] \in {locksMade[p], locksMade[p] + 1}
                  /\ \A t \in Trees :
                       \/ lockFile'[t][p] = lockFile[t][p]
                       \/ /\ t = root' /\ lockFile'[t][p] = locksMade[p] + 1
                          /\ locksMade'[p] = locksMade[p] + 1
  <2>1. trees' = trees \/ trees' = trees + 1
    BY <1>1 DEF OpenLock
  <2>2. root' = root \/ (root' = trees' /\ trees' = trees + 1)
    BY <1>1 DEF OpenLock
  <2>3. CASE lockFile[root'][q] # NoFile
    <3>1. UNCHANGED <<lockFile, locksMade>>
      BY <1>1, <2>3 DEF OpenLock
    <3> QED BY <2>1, <2>2, <3>1
  <2>4. CASE lockFile[root'][q] = NoFile
    <3>1. /\ locksMade' = [locksMade EXCEPT ![q] = @ + 1]
          /\ lockFile' = [lockFile EXCEPT ![root'][q] = locksMade'[q]]
      BY <1>1, <2>4 DEF OpenLock
    <3>2. \A p \in Profiles :
            locksMade'[p] = IF p = q THEN locksMade[p] + 1 ELSE locksMade[p]
      BY <3>1 DEF TypeInv, TypeOK, WorldType
    <3>3. \A t \in Trees, p \in Profiles :
            lockFile'[t][p] = IF t = root' /\ p = q THEN locksMade'[q] ELSE lockFile[t][p]
      BY <3>1 DEF TypeInv, TypeOK, WorldType
    <3> QED BY <2>1, <2>2, <3>2, <3>3
  <2> QED BY <2>3, <2>4
<1>2. ASSUME NEW q \in Profiles, StartBuild(q) \/ Build(q) \/ FinishBuild(q) \/ Work(q)
      PROVE  Quiet
  BY <1>2 DEF StartBuild, Build, FinishBuild, Work, world
<1>3. ASSUME Arrive \/ Leave \/ Keep \/ MoveAway PROVE Quiet
  <2>1. trees' = trees /\ locksMade' = locksMade /\ lockFile' = lockFile /\ root' \in {root, 0}
    BY <1>3 DEF Arrive, Leave, Keep, MoveAway, world
  <2> QED BY <2>1
<1>4. ASSUME NEW c \in Cleaners, Unlink(c) PROVE Quiet
  <2>1. /\ trees' = trees /\ locksMade' = locksMade /\ root' = root
        /\ lockFile' \in {lockFile, [lockFile EXCEPT ![hand[c]][walk[c].at] = NoFile]}
    BY <1>4 DEF Unlink
  <2>2. lockFile \in [Trees -> [Profiles -> 0..MaxLocks]]
    BY DEF TypeInv, TypeOK, WorldType
  <2> DEFINE t == hand[c]
             p == walk[c].at
  <2>3. \A s \in Trees, q \in Profiles :
          [lockFile EXCEPT ![t][p] = NoFile][s][q]
            = IF s = t /\ q = p THEN NoFile ELSE lockFile[s][q]
    <3> HIDE DEF t, p
    <3> QED BY <2>2
  <2>4. \A s \in Trees, q \in Profiles : lockFile'[s][q] \in {lockFile[s][q], NoFile}
    <3>1. CASE lockFile' = lockFile
      BY <3>1
    <3>2. CASE lockFile' = [lockFile EXCEPT ![t][p] = NoFile]
      <4> HIDE DEF t, p
      <4> QED BY <2>3, <3>2
    <3> QED BY <2>1, <3>1, <3>2
  <2> QED BY <2>1, <2>4
<1>5. ASSUME NEW c \in Cleaners, LeaveDirectory(c) \/ Rmdir(c) PROVE Quiet
  BY <1>5 DEF LeaveDirectory, Rmdir
<1>6. ASSUME NEW c \in Cleaners, Scan(c) \/ CleanerStep(c) \/ Dies(c)
      PROVE  Quiet
  <2>0. CASE Unlink(c) \/ LeaveDirectory(c) \/ Rmdir(c)
    BY <1>4, <1>5, <2>0
  <2>1. CASE UNCHANGED world
    BY <2>1 DEF world
  <2> QED BY <1>6, <2>0, <2>1
    DEF Scan, CleanerStep, Dies, Observe, Survey, Ownership, Lease, LeaseOwner,
        Contention, Recheck, Measure, OpenRoot, ListDirectory, EndPass, Restat
<1>7. ASSUME UNCHANGED vars PROVE Quiet
  <2>1. trees' = trees /\ locksMade' = locksMade /\ lockFile' = lockFile /\ root' = root
    BY <1>7 DEF vars, world
  <2> QED BY <2>1
<1>8. trees \in Nat
  BY LimitsAssumption DEF TypeInv, TypeOK, WorldType, Trees
<1>9. CASE Quiet
  BY <1>8, <1>9
<1>10. CASE \E q \in Profiles : OpenLock(q)
  <2>1. PICK q \in Profiles : OpenLock(q)
    BY <1>10
  <2> HIDE DEF Quiet
  <2>2. trees <= trees'
    BY <1>1, <1>8, <2>1
  <2> QED BY <1>1, <2>1, <2>2
<1> HIDE DEF Quiet
<1> QED BY <1>2, <1>3, <1>4, <1>5, <1>6, <1>7, <1>9, <1>10 DEF Next

LEMMA NewTreesStep == TypeInv /\ NewTreesEmpty /\ [Next]_vars => NewTreesEmpty'
<1> SUFFICES ASSUME TypeInv, NewTreesEmpty, [Next]_vars,
                    NEW t \in Trees, NEW p \in Profiles, t > trees'
             PROVE  lockFile'[t][p] = NoFile
  BY DEF NewTreesEmpty
<1>1. trees \in Nat /\ t \in Nat /\ root \in 0..trees
  BY LimitsAssumption DEF TypeInv, TypeOK, WorldType, Trees
<1>2. trees <= trees' /\ (root' \in {root, 0} \/ (root' = trees' /\ trees' = trees + 1))
  BY Files
<1>3. t > trees /\ t # root'
  BY <1>1, <1>2, TypeStep DEF TypeInv, TypeOK, WorldType, Trees
<1>4. lockFile[t][p] = NoFile
  BY <1>3 DEF NewTreesEmpty
<1> QED BY <1>3, <1>4, Files

(* The numbers of lock files are used once, so one that is not at the path *)
(* is never there again.                                                   *)
LEMMA NeverAgain ==
    ASSUME TypeInv, NewTreesEmpty, [Next]_vars, NEW p \in Profiles,
           NEW i \in Nat, i # NoFile, i <= locksMade[p], AtPath(p) # i
    PROVE  AtPath(p)' # i
<1>1. CASE root' = 0
  BY <1>1 DEF AtPath
<1>2. CASE root' # 0
  <2>1. root' \in Trees /\ root \in 0..trees /\ trees \in Nat /\ locksMade[p] \in Nat
    BY <1>2, TypeStep, LimitsAssumption DEF TypeInv, TypeOK, WorldType, Trees
  <2>2. \/ lockFile'[root'][p] \in {lockFile[root'][p], NoFile}
        \/ lockFile'[root'][p] = locksMade[p] + 1
    BY <2>1, Files
  <2>3. lockFile[root'][p] # i
    <3>1. CASE root' = root
      BY <1>2, <3>1 DEF AtPath
    <3>2. CASE root' = trees + 1
      <4>1. lockFile[root'][p] = NoFile
        BY <2>1, <3>2 DEF NewTreesEmpty
      <4> QED BY <4>1
    <3> QED BY <1>2, <3>1, <3>2, Files
  <2>4. lockFile'[root'][p] # i
    BY <2>1, <2>2, <2>3
  <2> QED BY <1>2, <2>4 DEF AtPath
<1> QED BY <1>1, <1>2

(* A lock one of the builders works under is taken from it by nobody.      *)
LEMMA BuildersStep ==
    ASSUME LeaseInv, [Next]_vars PROVE BuildersLock'
<1> SUFFICES ASSUME NEW q \in building' PROVE opened'[q] # NoFile /\ holder'[q][opened'[q]] = q
  BY DEF BuildersLock
<1>0. TypeOK /\ TypeOK' /\ q \in Profiles
  BY TypeStep DEF LeaseInv, TypeInv, TypeOK, UsersType
<1>1. ASSUME q \in building, opened'[q] = opened[q], holder'[q][opened[q]] = holder[q][opened[q]]
      PROVE  opened'[q] # NoFile /\ holder'[q][opened'[q]] = q
  BY <1>1 DEF LeaseInv, BuildersLock
<1>2. CASE \E p \in Profiles : OpenLock(p)
  <2>1. PICK p \in Profiles : OpenLock(p)
    BY <1>2
  <2>2. q \in building /\ holder' = holder /\ opened[p] = NoFile
        /\ \E n : opened' = [opened EXCEPT ![p] = n]
    BY <2>1 DEF OpenLock, locks
  <2>3. opened[q] # NoFile
    BY <2>2 DEF LeaseInv, BuildersLock
  <2> QED BY <1>0, <1>1, <2>2, <2>3 DEF TypeOK, UsersType
<1>3. CASE \E p \in Profiles : StartBuild(p)
  <2>1. PICK p \in Profiles : StartBuild(p)
    BY <1>3
  <2>2. CASE q = p
    BY <1>0, <2>1, <2>2 DEF StartBuild, TypeOK, UsersType, LockInodes, NoFile
  <2>3. CASE q # p
    BY <1>0, <1>1, <2>1, <2>3 DEF StartBuild, TypeOK, UsersType
  <2> QED BY <2>2, <2>3
<1>4. CASE \E p \in Profiles : FinishBuild(p)
  <2>1. PICK p \in Profiles : FinishBuild(p)
    BY <1>4
  <2>2. q # p
    BY <2>1 DEF FinishBuild
  <2> QED BY <1>0, <1>1, <2>1, <2>2 DEF FinishBuild, TypeOK, UsersType
<1>5. CASE \/ \E p \in Profiles : Build(p) \/ Work(p)
           \/ Arrive \/ Leave \/ Keep \/ MoveAway \/ UNCHANGED vars
  <2>1. building' = building /\ opened' = opened /\ holder' = holder
    BY <1>5 DEF Build, Work, Arrive, Leave, Keep, MoveAway, vars, users, locks
  <2> QED BY <1>1, <2>1
<1>6. CASE \E c \in Cleaners : Scan(c) \/ CleanerStep(c) \/ Dies(c)
  <2>1. PICK c \in Cleaners : Spared(c)
    BY <1>0, <1>6, CleanerSpares
  <2>2. building' = building /\ opened' = opened
    BY <2>1 DEF Spared, users
  <2>3. opened[q] \in LockInodes /\ holder[q][opened[q]] = q /\ q \notin {c, NoOne}
    BY <1>0, <2>2, PartiesAssumption
    DEF LeaseInv, BuildersLock, TypeOK, UsersType, LockInodes, NoFile
  <2> QED BY <1>0, <1>1, <2>1, <2>2, <2>3 DEF Spared
<1> QED BY <1>2, <1>3, <1>4, <1>5, <1>6 DEF Next

(* A step that takes nothing from `d` leaves its lease as it stands.       *)
LEMMA LeaseKept ==
    ASSUME LeaseInv, [Next]_vars, NEW d \in Cleaners,
           pc'[d] = pc[d], recorded'[d] = recorded[d], read'[d] = read[d], want'[d] = want[d],
           ownerLock = d => ownerLock' = d,
           \A p \in Profiles, i \in LockInodes : holder[p][i] = d => holder'[p][i] = d
    PROVE  LeaseOf(d)'
<1>1. TypeInv /\ NewTreesEmpty /\ LeaseOf(d) /\ TypeInv'
  BY TypeStep DEF LeaseInv
<1>2. \A p \in Profiles :
        /\ recorded[d].locks[p] \in Nat
        /\ recorded[d].locks[p] \in LockInodes \/ recorded[d].locks[p] = NoFile
        /\ locksMade[p] \in Nat
  BY <1>1, LimitsAssumption DEF TypeInv, TypeOK, WorldType, CleanersType, Records, LockInodes, NoFile
<1>3. \A p \in Profiles : recorded'[d].locks[p] <= locksMade'[p]
  <2> SUFFICES ASSUME NEW p \in Profiles PROVE recorded[d].locks[p] <= locksMade'[p]
    OBVIOUS
  <2>1. recorded[d].locks[p] <= locksMade[p]
    BY <1>1 DEF LeaseOf
  <2>2. locksMade'[p] \in {locksMade[p], locksMade[p] + 1}
    BY <1>1, Files
  <2>3. recorded[d].locks[p] \in Nat /\ locksMade[p] \in Nat
    BY <1>2
  <2> QED BY <2>1, <2>2, <2>3
<1>4. ASSUME NEW p \in Profiles, Accounted(d, p) PROVE Accounted(d, p)'
  <2> DEFINE i == recorded[d].locks[p]
  <2>1. CASE i # NoFile /\ AtPath(p) # i
    <3>1. i \in Nat
      BY <1>2
    <3>2. i <= locksMade[p]
      BY <1>1 DEF LeaseOf
    <3> HIDE DEF i
    <3>3. AtPath(p)' # i
      BY <1>1, <2>1, <3>1, <3>2, NeverAgain
    <3> QED BY <3>3 DEF Accounted, i
  <2>2. CASE i # NoFile /\ holder[p][i] = d
    BY <1>2, <2>2 DEF Accounted
  <2>3. CASE i = NoFile \/ p \in want[d] \/ read[d] = "held"
    BY <2>3 DEF Accounted
  <2> QED BY <1>4, <2>1, <2>2, <2>3 DEF Accounted
<1>5. d \in Leasing' => d \in Leasing
  BY DEF Leasing
<1>6. d \in Removing' => d \in Removing
  BY DEF Removing
<1>7. d \in Leasing' =>
        /\ Owner \in want'[d] \/ ownerLock' = d \/ read'[d] = "held"
        /\ \A p \in Profiles : Accounted(d, p)'
  BY <1>1, <1>4, <1>5 DEF LeaseOf
<1>8. pc'[d] = "measure" => want'[d] = {} /\ read'[d] = "free"
  BY <1>1 DEF LeaseOf
<1>9. d \in Removing' =>
         /\ ownerLock' = d
         /\ \A p \in Profiles : recorded'[d].locks[p] # NoFile =>
              holder'[p][recorded'[d].locks[p]] = d
  BY <1>1, <1>2, <1>6 DEF LeaseOf
<1> QED BY <1>3, <1>7, <1>8, <1>9 DEF LeaseOf

LEMMA UsersKeepLeases ==
    ASSUME LeaseInv, [Next]_vars, NEW d \in Cleaners,
           \/ \E p \in Profiles :
                OpenLock(p) \/ StartBuild(p) \/ Build(p) \/ FinishBuild(p) \/ Work(p)
           \/ Arrive \/ Leave \/ Keep \/ MoveAway \/ UNCHANGED vars
    PROVE  LeaseOf(d)'
<1>1. /\ pc'[d] = pc[d] /\ recorded'[d] = recorded[d]
      /\ read'[d] = read[d] /\ want'[d] = want[d]
  <2>1. pc' = pc /\ job' = job
    BY DEF OpenLock, StartBuild, Build, FinishBuild, Work, Arrive, Leave, Keep, MoveAway, vars
  <2> QED BY <2>1 DEF job
<1>2. TypeOK /\ d # NoOne /\ d # Owner /\ d \notin Profiles
  BY PartiesAssumption DEF LeaseInv, TypeInv
<1>3. ownerLock = d => ownerLock' = d
  BY <1>2 DEF OpenLock, StartBuild, Build, FinishBuild, Work, Arrive, Leave, Keep, MoveAway,
              vars, users, locks
<1>4. \A q \in Profiles, i \in LockInodes : holder[q][i] = d => holder'[q][i] = d
  <2>1. CASE \E p \in Profiles : StartBuild(p)
    BY <1>2, <2>1 DEF StartBuild, TypeOK, UsersType
  <2>2. CASE \E p \in Profiles : FinishBuild(p)
    <3>1. PICK p \in Profiles : FinishBuild(p)
      BY <2>2
    <3>2. holder[p][opened[p]] = p
      BY <3>1 DEF FinishBuild, LeaseInv, BuildersLock
    <3> QED BY <1>2, <3>1, <3>2 DEF FinishBuild, TypeOK, UsersType
  <2>3. CASE holder' = holder
    BY <2>3
  <2>4. \/ \E p \in Profiles : StartBuild(p) \/ FinishBuild(p)
        \/ holder' = holder
    BY DEF OpenLock, Build, Work, Arrive, Leave, Keep, MoveAway, vars, users, locks
  <2> QED BY <2>1, <2>2, <2>3, <2>4
<1> QED BY <1>1, <1>3, <1>4, LeaseKept

LEMMA OthersKeepLeases ==
    ASSUME LeaseInv, [Next]_vars, NEW c \in Cleaners, NEW d \in Cleaners, c # d,
           Scan(c) \/ CleanerStep(c) \/ Dies(c)
    PROVE  LeaseOf(d)'
<1>1. Spared(c) /\ d # NoOne
  BY CleanerSpares, PartiesAssumption DEF LeaseInv, TypeInv
<1>2. /\ pc'[d] = pc[d] /\ recorded'[d] = recorded[d]
      /\ read'[d] = read[d] /\ want'[d] = want[d]
  BY <1>1 DEF Spared
<1>3. ownerLock = d => ownerLock' = d
  BY <1>1 DEF Spared
<1>4. \A q \in Profiles, i \in LockInodes : holder[q][i] = d => holder'[q][i] = d
  BY <1>1 DEF Spared
<1> QED BY <1>2, <1>3, <1>4, LeaseKept

(* A cleaner that is not leasing or removing has nothing to hold.          *)
LEMMA LooksLease ==
    ASSUME LeaseInv, [Next]_vars, NEW c \in Cleaners,
           c \notin Leasing', c \notin Removing',
           \/ recorded'[c] = recorded[c]
           \/ recorded'[c] = NoRecord
           \/ root \in Trees /\ recorded'[c] = ContentsAt(root)
    PROVE  LeaseOf(c)'
<1>1. \A p \in Profiles : locksMade[p] \in Nat /\ locksMade'[p] \in Nat /\ locksMade[p] <= locksMade'[p]
  <2> SUFFICES ASSUME NEW p \in Profiles
               PROVE locksMade[p] \in Nat /\ locksMade'[p] \in Nat /\ locksMade[p] <= locksMade'[p]
    OBVIOUS
  <2>1. locksMade[p] \in Nat
    BY DEF LeaseInv, TypeInv, TypeOK, WorldType
  <2>2. locksMade'[p] \in {locksMade[p], locksMade[p] + 1}
    BY Files DEF LeaseInv
  <2> QED BY <2>1, <2>2
<1>2. ASSUME NEW p \in Profiles PROVE recorded'[c].locks[p] <= locksMade'[p]
  <2>1. locksMade[p] \in Nat /\ locksMade'[p] \in Nat /\ locksMade[p] <= locksMade'[p]
    BY <1>1
  <2>2. CASE recorded'[c] = recorded[c]
    <3>1. recorded[c].locks[p] <= locksMade[p] /\ recorded[c].locks[p] \in Nat
      BY DEF LeaseInv, LeaseOf, TypeInv, TypeOK, CleanersType, Records
    <3> QED BY <2>1, <2>2, <3>1
  <2>3. CASE recorded'[c] = NoRecord
    BY <2>1, <2>3 DEF NoRecord, NoFile
  <2>4. CASE root \in Trees /\ recorded'[c] = ContentsAt(root)
    <3>1. recorded'[c].locks[p] = lockFile[root][p]
      BY <2>4 DEF ContentsAt
    <3>2. lockFile[root][p] <= locksMade[p] /\ lockFile[root][p] \in Nat
      BY <2>4 DEF LeaseInv, TypeInv, TypeOK, WorldType
    <3> QED BY <2>1, <3>1, <3>2
  <2> QED BY <2>2, <2>3, <2>4
<1>3. pc'[c] # "measure"
  BY DEF Leasing
<1> QED BY <1>2, <1>3 DEF LeaseOf

LEMMA EndsLease ==
    ASSUME LeaseInv, [Next]_vars, NEW c \in Cleaners,
           NEW o \in {"idle", "deleted", "rejected", "failed"}, Ends(c, o)
    PROVE  LeaseOf(c)'
<1>1. pc'[c] = o /\ recorded'[c] = NoRecord
  BY DEF Ends, LeaseInv, TypeInv, TypeOK, CleanersType
<1>2. c \notin Leasing' /\ c \notin Removing'
  BY <1>1 DEF Leasing, Removing
<1> QED BY <1>1, <1>2, LooksLease

(* The steps that lead to the lease.                                       *)
LEMMA LeadLease ==
    ASSUME LeaseInv, [Next]_vars, NEW c \in Cleaners,
           Scan(c) \/ Observe(c) \/ Survey(c) \/ Ownership(c)
    PROVE  LeaseOf(c)'
<1>0. TypeOK /\ LeaseOf(c)
  BY DEF LeaseInv, TypeInv
<1>1. CASE Ends(c, "rejected")
  BY <1>1, EndsLease
<1>2. CASE Scan(c)
  <2>1. root \in Trees
    BY <1>0, <1>2, LimitsAssumption DEF Scan, TypeOK, WorldType, Trees
  <2>2. pc'[c] = "planned" /\ recorded'[c] = ContentsAt(root)
    BY <1>0, <1>2 DEF Scan, TypeOK, CleanersType
  <2> QED BY <2>1, <2>2, LooksLease DEF Leasing, Removing
<1>3. CASE Observe(c) /\ root # 0
  <2>1. pc'[c] = "survey" /\ recorded'[c] = recorded[c]
    BY <1>0, <1>3 DEF Observe, Go, TypeOK, CleanersType
  <2> QED BY <2>1, LooksLease DEF Leasing, Removing
<1>4. CASE Survey(c) /\ root # 0
  <2>1. /\ pc'[c] = "ownership" /\ recorded' = recorded /\ UNCHANGED world
        /\ want'[c] = {p \in Profiles : lockFile[root][p] # NoFile} \cup {Owner}
    <3> DEFINE w == {p \in Profiles : lockFile[root][p] # NoFile} \cup {Owner}
    <3>1. /\ pc' = [pc EXCEPT ![c] = "ownership"] /\ want' = [want EXCEPT ![c] = w]
          /\ recorded' = recorded /\ UNCHANGED world
      BY <1>4 DEF Survey, Go
    <3> HIDE DEF w
    <3> QED BY <1>0, <3>1 DEF TypeOK, CleanersType, w
  <2>2. locksMade' = locksMade /\ root' = root /\ lockFile' = lockFile
    BY <2>1 DEF world
  <2>3. ASSUME NEW p \in Profiles PROVE Accounted(c, p)'
    <3>1. p \in want'[c] \/ AtPath(p)' = NoFile
      BY <2>1, <2>2, <1>4 DEF AtPath
    <3> QED BY <3>1 DEF Accounted
  <2> QED BY <1>0, <2>1, <2>2, <2>3 DEF LeaseOf, Leasing, Removing
<1>5. CASE Ownership(c)
  <2>1. /\ pc[c] = "ownership" /\ pc'[c] = "lease"
        /\ recorded' = recorded /\ read' = read /\ want' = want
        /\ UNCHANGED world /\ UNCHANGED locks
    BY <1>0, <1>5 DEF Ownership, Go, TypeOK, CleanersType
  <2>2. /\ locksMade' = locksMade /\ root' = root /\ lockFile' = lockFile
        /\ holder' = holder /\ ownerLock' = ownerLock
    BY <2>1 DEF world, locks
  <2>3. c \in Leasing
    BY <2>1 DEF Leasing
  <2>4. ASSUME NEW p \in Profiles PROVE Accounted(c, p)'
    BY <1>0, <2>1, <2>2, <2>3 DEF LeaseOf, Accounted, AtPath
  <2> QED BY <1>0, <2>1, <2>2, <2>3, <2>4 DEF LeaseOf, Removing
<1> QED BY <1>1, <1>2, <1>3, <1>4, <1>5 DEF Observe, Survey

(* Taking one lock after the other.                                        *)
LEMMA TakeLease ==
    ASSUME LeaseInv, [Next]_vars, NEW c \in Cleaners,
           \/ \E p \in Profiles : Lease(c, p)
           \/ LeaseOwner(c)
           \/ \E l \in Profiles \cup {Owner} : Contention(c, l)
    PROVE  LeaseOf(c)'
<1>0. TypeOK /\ LeaseOf(c)
  BY DEF LeaseInv, TypeInv
<1>1. /\ pc[c] = "lease" /\ pc' = pc /\ recorded' = recorded /\ UNCHANGED world
  BY DEF Lease, LeaseOwner, Contention, Wanted
<1>2. /\ locksMade' = locksMade /\ root' = root /\ lockFile' = lockFile
      /\ c \in Leasing /\ c \notin Removing'
      /\ pc'[c] # "measure"
  BY <1>1 DEF world, Leasing, Removing
<1>3. /\ Owner \in want[c] \/ ownerLock = c \/ read[c] = "held"
      /\ \A p \in Profiles : Accounted(c, p)
      /\ \A p \in Profiles : recorded'[c].locks[p] <= locksMade'[p]
  BY <1>0, <1>1, <1>2 DEF LeaseOf
<1>4. SUFFICES /\ Owner \in want'[c] \/ ownerLock' = c \/ read'[c] = "held"
               /\ \A p \in Profiles : Accounted(c, p)'
  BY <1>2, <1>3 DEF LeaseOf
<1>5. ASSUME NEW l \in Profiles \cup {Owner}, Contention(c, l)
      PROVE  /\ Owner \in want'[c] \/ ownerLock' = c \/ read'[c] = "held"
             /\ \A p \in Profiles : Accounted(c, p)'
  <2>1. read'[c] = "held"
    BY <1>0, <1>5 DEF Contention, TypeOK, CleanersType
  <2> QED BY <2>1 DEF Accounted
<1>6. CASE LeaseOwner(c)
  <2>1. /\ want'[c] = want[c] \ {Owner} /\ ownerLock' = c /\ holder' = holder
        /\ read' = read
    BY <1>0, <1>6 DEF LeaseOwner, Done, TypeOK, CleanersType
  <2>2. ASSUME NEW p \in Profiles PROVE Accounted(c, p)'
    BY <1>1, <1>2, <1>3, <2>1, PartiesAssumption DEF Accounted, AtPath
  <2> QED BY <2>1, <2>2
<1>7. ASSUME NEW q \in Profiles, Lease(c, q)
      PROVE  /\ Owner \in want'[c] \/ ownerLock' = c \/ read'[c] = "held"
             /\ \A p \in Profiles : Accounted(c, p)'
  <2>1. /\ want'[c] = want[c] \ {q} /\ ownerLock' = ownerLock /\ read' = read
        /\ \/ AtPath(q) = NoFile /\ holder' = holder
           \/ /\ AtPath(q) # NoFile
              /\ holder[q][AtPath(q)] = NoOne
              /\ holder' = [holder EXCEPT ![q][AtPath(q)] = c]
    BY <1>0, <1>7 DEF Lease, Done, TypeOK, CleanersType
  <2>2. ASSUME NEW p \in Profiles, NEW i \in LockInodes, holder[p][i] = c
        PROVE  holder'[p][i] = c
    BY <1>0, <2>1, <2>2 DEF TypeOK, UsersType
  <2>3. ASSUME NEW p \in Profiles PROVE Accounted(c, p)'
    <3> DEFINE i == recorded[c].locks[p]
    <3>1. i \in LockInodes \/ i = NoFile
      BY <1>0, LimitsAssumption DEF TypeOK, CleanersType, Records, LockInodes, NoFile
    <3>2. AtPath(p)' = AtPath(p)
      BY <1>2 DEF AtPath
    <3>3. CASE p = q /\ i # NoFile
      <4>1. CASE AtPath(q) = i
        <5>1. holder'[p][i] = c
          BY <1>0, <2>1, <3>1, <3>3, <4>1 DEF TypeOK, UsersType
        <5> QED BY <1>1, <5>1 DEF Accounted
      <4>2. CASE AtPath(q) # i
        BY <1>1, <3>2, <3>3, <4>2 DEF Accounted
      <4> QED BY <4>1, <4>2
    <3>4. CASE p # q /\ i # NoFile
      <4>1. \/ AtPath(p) # i \/ p \in want[c] \/ holder[p][i] = c \/ read[c] = "held"
        BY <1>3, <3>4 DEF Accounted
      <4>2. holder[p][i] = c => holder'[p][i] = c
        BY <2>2, <3>1, <3>4
      <4>3. p \in want[c] => p \in want'[c]
        BY <2>1, <3>4
      <4> QED BY <1>1, <2>1, <3>2, <4>1, <4>2, <4>3 DEF Accounted
    <3>5. CASE i = NoFile
      BY <1>1, <3>5 DEF Accounted
    <3> QED BY <3>3, <3>4, <3>5
  <2>4. Owner # q
    BY PartiesAssumption
  <2> QED BY <1>3, <2>1, <2>3, <2>4
<1> QED BY <1>5, <1>6, <1>7

(* Under the whole lease, what is at the path is what was recorded, so     *)
(* each recorded lock is held.                                             *)
LEMMA ClearedLease ==
    ASSUME LeaseInv, [Next]_vars, NEW c \in Cleaners, Recheck(c) \/ Measure(c)
    PROVE  LeaseOf(c)'
<1>0. TypeOK /\ LeaseOf(c)
  BY DEF LeaseInv, TypeInv
<1>1. CASE Ends(c, "rejected")
  BY <1>1, EndsLease
<1>2. ASSUME UNCHANGED <<world, locks, users, job, keptSince>>
      PROVE  /\ locksMade' = locksMade /\ root' = root /\ lockFile' = lockFile
             /\ holder' = holder /\ ownerLock' = ownerLock
             /\ recorded' = recorded /\ read' = read /\ want' = want
  BY <1>2 DEF world, locks, job
<1>3. CASE /\ Recheck(c) /\ Admitted(Site, RecheckOf(c))
  <2>1. /\ pc[c] = "lease" /\ pc'[c] = "measure" /\ want[c] = {}
        /\ UNCHANGED <<world, locks, users, job, keptSince>>
    BY <1>0, <1>3 DEF Recheck, TypeOK, CleanersType
  <2>2. read[c] = "free" /\ c \in Leasing
    BY <1>0, <1>3, <2>1, RecheckAsks DEF TypeOK, Leasing
  <2>3. ASSUME NEW p \in Profiles PROVE Accounted(c, p)'
    BY <1>0, <1>2, <2>1, <2>2 DEF LeaseOf, Accounted, AtPath
  <2> QED BY <1>0, <1>2, <2>1, <2>2, <2>3 DEF LeaseOf, Removing
<1>4. CASE /\ Measure(c) /\ root # 0 /\ Admitted(Site, VerifyOf(c, IsFresh(c)))
  <2>1. /\ pc[c] = "measure" /\ pc'[c] = "open"
        /\ UNCHANGED <<world, locks, users, job, keptSince>>
    BY <1>0, <1>4 DEF Measure, TypeOK, CleanersType
  <2>2. IsFresh(c) \in BOOLEAN
    BY DEF IsFresh
  <2>3. lockFile[root] = recorded[c].locks
    BY <1>0, <1>4, <2>2, VerifyAsks DEF TypeOK, IsFresh
  <2>4. c \in Leasing /\ want[c] = {} /\ read[c] = "free"
    BY <1>0, <2>1 DEF LeaseOf, Leasing
  <2>5. ownerLock = c
    BY <1>0, <2>4 DEF LeaseOf
  <2>6. ASSUME NEW p \in Profiles, recorded[c].locks[p] # NoFile
        PROVE  holder[p][recorded[c].locks[p]] = c
    <3>1. AtPath(p) = recorded[c].locks[p]
      BY <1>4, <2>3 DEF AtPath
    <3>2. Accounted(c, p)
      BY <1>0, <2>4 DEF LeaseOf
    <3> QED BY <2>4, <2>6, <3>1, <3>2 DEF Accounted
  <2> QED BY <1>0, <1>2, <2>1, <2>5, <2>6 DEF LeaseOf, Leasing
<1> QED BY <1>1, <1>3, <1>4 DEF Recheck, Measure

(* A removal keeps every lock until the candidate has its outcome.         *)
LEMMA RemovalLease ==
    ASSUME LeaseInv, [Next]_vars, NEW c \in Cleaners,
           \/ OpenRoot(c) \/ ListDirectory(c) \/ Unlink(c) \/ LeaveDirectory(c)
           \/ EndPass(c) \/ Restat(c) \/ Rmdir(c) \/ Dies(c)
    PROVE  LeaseOf(c)'
<1>0. TypeOK /\ LeaseOf(c)
  BY DEF LeaseInv, TypeInv
<1>1. CASE \E o \in {"idle", "deleted", "rejected", "failed"} : Ends(c, o)
  BY <1>1, EndsLease
<1>2. CASE /\ c \in Removing /\ c \in Removing'
           /\ holder' = holder /\ ownerLock' = ownerLock /\ recorded' = recorded
           /\ locksMade' = locksMade
  BY <1>0, <1>2 DEF LeaseOf, Removing, Leasing
<1>3. CASE OpenRoot(c)
  BY <1>0, <1>1, <1>2, <1>3
  DEF OpenRoot, Fails, Go, Removing, TypeOK, CleanersType, world, locks
<1>4. CASE ListDirectory(c)
  BY <1>0, <1>1, <1>2, <1>4
  DEF ListDirectory, Fails, Removing, TypeOK, CleanersType, world, locks
<1>5. CASE Unlink(c)
  BY <1>0, <1>1, <1>2, <1>5
  DEF Unlink, Fails, Removing, TypeOK, CleanersType, locks
<1>6. CASE LeaveDirectory(c)
  BY <1>0, <1>1, <1>2, <1>6
  DEF LeaveDirectory, Fails, Removing, TypeOK, CleanersType, locks
<1>7. CASE EndPass(c)
  BY <1>0, <1>2, <1>7 DEF EndPass, Removing, TypeOK, CleanersType, world, locks
<1>8. CASE Restat(c)
  BY <1>0, <1>1, <1>2, <1>8
  DEF Restat, Fails, Removing, TypeOK, CleanersType, world, locks, job
<1>9. CASE Rmdir(c) \/ Dies(c)
  BY <1>1, <1>9 DEF Rmdir, Dies, Fails
<1> QED BY <1>3, <1>4, <1>5, <1>6, <1>7, <1>8, <1>9

LEMMA LeaseStep == LeaseInv /\ [Next]_vars => LeaseInv'
<1> SUFFICES ASSUME LeaseInv, [Next]_vars PROVE LeaseInv'
  OBVIOUS
<1>1. TypeInv' /\ NewTreesEmpty' /\ BuildersLock'
  BY TypeStep, NewTreesStep, BuildersStep DEF LeaseInv
<1>2. ASSUME NEW d \in Cleaners PROVE LeaseOf(d)'
  <2>1. CASE \/ \E p \in Profiles :
                  OpenLock(p) \/ StartBuild(p) \/ Build(p) \/ FinishBuild(p) \/ Work(p)
             \/ Arrive \/ Leave \/ Keep \/ MoveAway \/ UNCHANGED vars
    BY <2>1, UsersKeepLeases
  <2>2. ASSUME NEW c \in Cleaners, Scan(c) \/ CleanerStep(c) \/ Dies(c) PROVE LeaseOf(d)'
    <3>1. CASE c # d
      BY <2>2, <3>1, OthersKeepLeases
    <3>2. CASE c = d
      BY <2>2, <3>2, LeadLease, TakeLease, ClearedLease, RemovalLease DEF CleanerStep
    <3> QED BY <3>1, <3>2
  <2> QED BY <2>1, <2>2 DEF Next
<1> QED BY <1>1, <1>2 DEF LeaseInv

(* However many builders, cleaners and lock files there are, and however   *)
(* often the files are made anew, the directory moved away or a cleaner    *)
(* killed: while a cleaner removes, the owner is not at work, and neither  *)
(* is a builder under a lock file the scan recorded.                       *)
THEOREM NobodyWorks == Spec => []NobodyWorksUnderRemoval
<1>1. LeaseInv => NobodyWorksUnderRemoval
  <2> SUFFICES ASSUME LeaseInv, NEW c \in Removing
               PROVE  /\ ownerLock # Owner
                      /\ \A p \in building : opened[p] # recorded[c].locks[p]
    BY DEF NobodyWorksUnderRemoval
  <2>1. c \in Cleaners /\ c # Owner /\ c \notin Profiles
    BY PartiesAssumption DEF Removing
  <2>2. ownerLock # Owner
    BY <2>1 DEF LeaseInv, LeaseOf
  <2>3. ASSUME NEW p \in building, opened[p] = recorded[c].locks[p] PROVE FALSE
    <3>1. p \in Profiles /\ opened[p] # NoFile /\ holder[p][opened[p]] = p
      BY DEF LeaseInv, BuildersLock, TypeInv, TypeOK, UsersType
    <3>2. holder[p][opened[p]] = c
      BY <2>1, <2>3, <3>1 DEF LeaseInv, LeaseOf
    <3> QED BY <2>1, <3>1, <3>2
  <2> QED BY <2>2, <2>3
<1> QED BY LeaseInit, LeaseStep, <1>1, PTL DEF Spec

-------------------------------------------------------------------------------
(* What a person keeps.                                                    *)

(* What was kept when the check began is kept still, or nobody minds; the  *)
(* check ends where it reads whose it is.                                  *)
KeptChecked(c) ==
    keptSince[c] =>
      /\ keep = "kept"
      /\ pc[c] \in {"survey", "ownership", "lease", "measure"}
      /\ pc[c] \in {"lease", "measure"} => claim[c] = "kept"

KeptInv == TypeInv /\ \A c \in Cleaners : KeptChecked(c)

LEMMA KeptNotAdmitted == ~AdmitsDeletion(Mandate, "kept")
BY DEF AdmitsDeletion, AdmitsSettlement

LEMMA KeptStep ==
    ASSUME TypeOK, NEW c \in Cleaners, KeptChecked(c), Scan(c) \/ CleanerStep(c) \/ Dies(c)
    PROVE  KeptChecked(c)'
<1>1. CASE \E o : Ends(c, o)
  <2>1. ~keptSince'[c]
    BY <1>1 DEF Ends, TypeOK, CleanersType
  <2> QED BY <2>1 DEF KeptChecked
<1>2. CASE Scan(c)
  <2>1. keptSince' = keptSince /\ pc[c] \in {"idle", "deleted", "rejected", "failed"}
    BY <1>2 DEF Scan
  <2> QED BY <2>1 DEF KeptChecked
<1>3. CASE Observe(c) /\ root # 0
  <2>1. /\ pc'[c] = "survey" /\ keep' = keep
        /\ keptSince' = [keptSince EXCEPT ![c] = (keep = "kept")]
    BY <1>3 DEF Observe, Go, TypeOK, CleanersType, users
  <2>2. keptSince'[c] => keep = "kept"
    BY <2>1, Zenon DEF TypeOK, CleanersType
  <2> QED BY <2>1, <2>2 DEF KeptChecked
<1>4. CASE Survey(c) /\ root # 0
  <2>1. pc'[c] = "ownership" /\ keep' = keep /\ keptSince' = keptSince
    BY <1>4 DEF Survey, Go, TypeOK, CleanersType, users
  <2> QED BY <2>1 DEF KeptChecked
<1>5. CASE Ownership(c)
  <2>1. /\ pc'[c] = "lease" /\ keep' = keep /\ keptSince' = keptSince
        /\ claim'[c] = SettlementOf({MarkerNow}, {}, [kind |-> "none"])
    BY <1>5 DEF Ownership, Go, TypeOK, CleanersType, users
  <2>2. keep = "kept" => claim'[c] = "kept"
    BY <2>1, MarkerAlone DEF MarkerSettlement, MarkerNow
  <2> QED BY <2>1, <2>2 DEF KeptChecked
<1>6. CASE \/ \E p \in Profiles : Lease(c, p)
           \/ LeaseOwner(c)
           \/ \E l \in Profiles \cup {Owner} : Contention(c, l)
  <2>1. pc' = pc /\ keep' = keep /\ keptSince' = keptSince /\ claim' = claim
    BY <1>6 DEF Lease, LeaseOwner, Contention, users
  <2> QED BY <2>1 DEF KeptChecked
<1>7. CASE Recheck(c) /\ Admitted(Site, RecheckOf(c))
  <2>1. ~keptSince[c]
    BY <1>7, RecheckAsks, KeptNotAdmitted DEF Recheck, KeptChecked, TypeOK
  <2>2. keptSince' = keptSince
    BY <1>7 DEF Recheck
  <2> QED BY <2>1, <2>2 DEF KeptChecked
<1>8. CASE Measure(c) /\ Admitted(Site, VerifyOf(c, IsFresh(c)))
  <2>1. IsFresh(c) \in BOOLEAN
    BY DEF IsFresh
  <2>2. ~keptSince[c] \/ ~(root # 0)
    BY <1>8, <2>1, VerifyAsks, KeptNotAdmitted DEF Measure, KeptChecked, TypeOK
  <2>3. keptSince' = keptSince \/ \E o : Ends(c, o)
    BY <1>8 DEF Measure
  <2> QED BY <1>1, <1>8, <2>2, <2>3 DEF KeptChecked, Measure
<1>9. CASE \/ OpenRoot(c) \/ ListDirectory(c) \/ Unlink(c) \/ LeaveDirectory(c)
           \/ EndPass(c) \/ Restat(c) \/ Rmdir(c) \/ Dies(c)
  <2>1. CASE c \in Removing /\ keptSince' = keptSince
    BY <2>1 DEF KeptChecked, Removing
  <2> QED BY <1>1, <1>9, <2>1
    DEF OpenRoot, ListDirectory, Unlink, LeaveDirectory, EndPass, Restat, Rmdir, Dies,
        Fails, Removing
<1> QED BY <1>1, <1>2, <1>3, <1>4, <1>5, <1>6, <1>7, <1>8, <1>9
  DEF CleanerStep, Observe, Survey, Recheck, Measure

(* What a person keeps when the check begins is not removed, whoever else  *)
(* uses the directory and whatever the caller's mandate admits.            *)
THEOREM KeptStays == Spec => []KeptIsNotDeleted
<1>1. Init => KeptInv
  BY TypeInit DEF Init, KeptInv, KeptChecked
<1>2. KeptInv /\ [Next]_vars => KeptInv'
  <2> SUFFICES ASSUME KeptInv, [Next]_vars, NEW d \in Cleaners PROVE KeptChecked(d)'
    BY TypeStep DEF KeptInv
  <2>1. TypeOK /\ KeptChecked(d)
    BY DEF KeptInv, TypeInv
  <2>2. CASE keep' = keep /\ pc' = pc /\ claim' = claim /\ keptSince' = keptSince
    BY <2>1, <2>2 DEF KeptChecked
  <2>3. ASSUME NEW c \in Cleaners, Scan(c) \/ CleanerStep(c) \/ Dies(c) PROVE KeptChecked(d)'
    <3>1. CASE c = d
      BY <2>1, <2>3, <3>1, KeptStep
    <3>2. CASE c # d
      <4>1. Spared(c)
        BY <2>1, <2>3, CleanerSpares
      <4> QED BY <2>1, <3>2, <4>1 DEF Spared, users, KeptChecked
    <3> QED BY <3>1, <3>2
  <2>4. CASE Keep
    <3>1. ~keptSince'[d]
      BY <2>4 DEF Keep
    <3> QED BY <3>1 DEF KeptChecked
  <2>5. CASE \/ \E p \in Profiles :
                  OpenLock(p) \/ StartBuild(p) \/ Build(p) \/ FinishBuild(p) \/ Work(p)
             \/ Arrive \/ Leave \/ MoveAway \/ UNCHANGED vars
    <3>1. keep' = keep /\ pc' = pc /\ job' = job /\ keptSince' = keptSince
      BY <2>5 DEF OpenLock, StartBuild, Build, FinishBuild, Work, Arrive, Leave, MoveAway,
                  vars, users
    <3> QED BY <2>2, <3>1 DEF job
  <2> QED BY <2>3, <2>4, <2>5 DEF Next
<1>3. KeptInv => KeptIsNotDeleted
  BY DEF KeptInv, KeptChecked, KeptIsNotDeleted, Removing
<1> QED BY <1>1, <1>2, <1>3, PTL DEF Spec

-------------------------------------------------------------------------------
(* The tree that is emptied.                                               *)

(* A cleaner that removes has cleared the tree it recorded, and what it    *)
(* has open is that tree.                                                  *)
HandOf(c) ==
    /\ c \in Removing => seen[c] = recorded[c].tree
    /\ pc[c] \in {"list", "clear"} => hand[c] = seen[c]

HandInv == TypeInv /\ \A c \in Cleaners : HandOf(c)

LEMMA HandStep ==
    ASSUME TypeOK, NEW c \in Cleaners, NEW d \in Cleaners, HandOf(d),
           Scan(c) \/ CleanerStep(c) \/ Dies(c)
    PROVE  HandOf(d)'
<1>1. CASE \E o \in {"idle", "deleted", "rejected", "failed"} : Ends(c, o)
  <2>1. CASE c = d
    <3>1. pc'[d] \notin {"open", "list", "clear", "restat", "rmdir"}
      BY <1>1, <2>1 DEF Ends, TypeOK, CleanersType
    <3> QED BY <3>1 DEF HandOf, Removing
  <2>2. CASE c # d
    <3>1. pc'[d] = pc[d] /\ seen'[d] = seen[d] /\ recorded'[d] = recorded[d] /\ hand'[d] = hand[d]
      BY <1>1, <2>2 DEF Ends, TypeOK, CleanersType
    <3> QED BY <3>1 DEF HandOf, Removing
  <2> QED BY <2>1, <2>2
<1>2. CASE Scan(c)
  BY <1>2 DEF Scan, HandOf, Removing, TypeOK, CleanersType
<1>3. CASE Observe(c)
  BY <1>1, <1>3 DEF Observe, Go, HandOf, Removing, TypeOK, CleanersType
<1>4. CASE Survey(c) \/ Ownership(c)
  BY <1>1, <1>4 DEF Survey, Ownership, Go, HandOf, Removing, TypeOK, CleanersType
<1>5. CASE \/ \E p \in Profiles : Lease(c, p)
           \/ LeaseOwner(c)
           \/ \E l \in Profiles \cup {Owner} : Contention(c, l)
  BY <1>5 DEF Lease, LeaseOwner, Contention, HandOf, Removing
<1>6. CASE Recheck(c)
  BY <1>1, <1>6 DEF Recheck, HandOf, Removing, TypeOK, CleanersType, job
<1>7. CASE Measure(c)
  <2>1. IsFresh(c) \in BOOLEAN
    BY DEF IsFresh
  <2>2. CASE root # 0 /\ Admitted(Site, VerifyOf(c, IsFresh(c)))
    <3>1. seen[c] = recorded[c].tree
      BY <2>1, <2>2, VerifyAsks DEF TypeOK
    <3> QED BY <1>7, <2>2, <3>1 DEF Measure, HandOf, Removing, TypeOK, CleanersType, job
  <2> QED BY <1>1, <1>7, <2>2 DEF Measure
<1>8. CASE OpenRoot(c)
  BY <1>1, <1>8 DEF OpenRoot, Fails, Go, HandOf, Removing, TypeOK, CleanersType
<1>9. CASE ListDirectory(c) \/ EndPass(c)
  BY <1>1, <1>9 DEF ListDirectory, EndPass, Fails, HandOf, Removing, TypeOK, CleanersType
<1>10. CASE Unlink(c) \/ LeaveDirectory(c)
  BY <1>1, <1>10 DEF Unlink, LeaveDirectory, Fails, HandOf, Removing, TypeOK, CleanersType
<1>11. CASE Restat(c) \/ Rmdir(c) \/ Dies(c)
  BY <1>1, <1>11 DEF Restat, Rmdir, Dies, Fails, HandOf, Removing, TypeOK, CleanersType, job
<1> QED BY <1>2, <1>3, <1>4, <1>5, <1>6, <1>7, <1>8, <1>9, <1>10, <1>11 DEF CleanerStep

LEMMA HandUsers ==
    ASSUME HandInv, NEW d \in Cleaners, job' = job, pc' = pc PROVE HandOf(d)'
BY DEF HandInv, HandOf, Removing, job

LEMMA HandInvStep == HandInv /\ [Next]_vars => HandInv'
<1> SUFFICES ASSUME HandInv, [Next]_vars, NEW d \in Cleaners PROVE HandOf(d)'
  BY TypeStep DEF HandInv
<1>1. ASSUME NEW c \in Cleaners, Scan(c) \/ CleanerStep(c) \/ Dies(c) PROVE HandOf(d)'
  BY <1>1, HandStep DEF HandInv, TypeInv
<1>2. CASE \/ \E p \in Profiles :
                OpenLock(p) \/ StartBuild(p) \/ Build(p) \/ FinishBuild(p) \/ Work(p)
           \/ Arrive \/ Leave \/ Keep \/ MoveAway \/ UNCHANGED vars
  <2>1. pc' = pc /\ job' = job
    BY <1>2 DEF OpenLock, StartBuild, Build, FinishBuild, Work, Arrive, Leave, Keep, MoveAway, vars
  <2> QED BY <2>1, HandUsers
<1> QED BY <1>1, <1>2 DEF Next

(* Only a removal takes a file away, and from the tree it has open.        *)
LEMMA LostFiles ==
    ASSUME TypeInv, [Next]_vars, NEW t \in Trees, Lost(t) # {}
    PROVE  \E c \in Cleaners : Unlink(c) /\ hand[c] = t
<1>1. PICK p \in Profiles : \/ lockFile[t][p] # NoFile /\ lockFile'[t][p] = NoFile
                            \/ object[t][p] # NoFile /\ object'[t][p] = NoFile
  BY DEF Lost
<1>2. CASE \E q \in Profiles : OpenLock(q)
  <2>1. PICK q \in Profiles : OpenLock(q)
    BY <1>2
  <2>2. object' = object /\ lockFile' # lockFile
    BY <1>1, <2>1 DEF OpenLock
  <2>3. /\ lockFile' = [lockFile EXCEPT ![root'][q] = locksMade'[q]]
        /\ locksMade' = [locksMade EXCEPT ![q] = @ + 1]
    BY <2>1, <2>2 DEF OpenLock
  <2>4. locksMade'[q] # NoFile
    BY <2>3 DEF TypeInv, TypeOK, WorldType, NoFile
  <2> QED BY <1>1, <2>2, <2>3, <2>4 DEF TypeInv, TypeOK, WorldType
<1>3. CASE \E q \in Profiles : Build(q) \/ Work(q)
  <2>1. PICK q \in Profiles : WriteObject(q) /\ lockFile' = lockFile
    BY <1>3 DEF Build, Work
  <2>2. objectsMade'[q] # NoFile
    BY <2>1 DEF WriteObject, TypeInv, TypeOK, WorldType, NoFile
  <2> QED BY <1>1, <2>1, <2>2 DEF WriteObject, TypeInv, TypeOK, WorldType
<1>4. CASE lockFile' = lockFile /\ object' = object
  BY <1>1, <1>4
<1>5. ASSUME NEW c \in Cleaners, Unlink(c)
      PROVE  \E d \in Cleaners : Unlink(d) /\ hand[d] = t
  <2>1. /\ lockFile' \in {lockFile, [lockFile EXCEPT ![hand[c]][walk[c].at] = NoFile]}
        /\ object' \in {object, [object EXCEPT ![hand[c]][walk[c].at] = NoFile]}
    BY <1>5 DEF Unlink
  <2>2. ASSUME hand[c] # t PROVE lockFile'[t] = lockFile[t] /\ object'[t] = object[t]
    BY <2>1, <2>2 DEF TypeInv, TypeOK, WorldType
  <2> QED BY <1>1, <1>5, <2>2
<1>6. ASSUME NEW c \in Cleaners, Scan(c) \/ CleanerStep(c) \/ Dies(c)
      PROVE  Unlink(c) \/ (lockFile' = lockFile /\ object' = object)
  BY <1>6 DEF Scan, CleanerStep, Dies, Observe, Survey, Ownership, Lease, LeaseOwner, Contention,
              Recheck, Measure, OpenRoot, ListDirectory, LeaveDirectory, EndPass, Restat, Rmdir, world
<1>7. ASSUME \/ \E q \in Profiles : StartBuild(q) \/ FinishBuild(q)
             \/ Arrive \/ Leave \/ Keep \/ MoveAway \/ UNCHANGED vars
      PROVE  lockFile' = lockFile /\ object' = object
  BY <1>7 DEF StartBuild, FinishBuild, Arrive, Leave, Keep, MoveAway, vars, world
<1> QED BY <1>2, <1>3, <1>4, <1>5, <1>6, <1>7 DEF Next

(* Whatever the path names by then, a removal takes files from the tree    *)
(* that was recorded and cleared, and nobody else takes any.               *)
THEOREM OnlyRecorded == Spec => OnlyRecordedTree
<1>1. Init => HandInv
  BY TypeInit DEF Init, HandInv, HandOf, Removing
<1>2. HandInv /\ [Next]_vars =>
        [\A t \in Trees : Lost(t) # {} => \E c \in Removing : recorded[c].tree = t]_vars
  <2> SUFFICES ASSUME HandInv, [Next]_vars, NEW t \in Trees, Lost(t) # {}
               PROVE  \E c \in Removing : recorded[c].tree = t
    OBVIOUS
  <2>1. PICK c \in Cleaners : pc[c] = "clear" /\ hand[c] = t
    BY LostFiles DEF HandInv, Unlink
  <2> QED BY <2>1 DEF HandInv, HandOf, Removing
<1> QED BY <1>1, <1>2, HandInvStep, PTL DEF Spec, OnlyRecordedTree
-------------------------------------------------------------------------------
(* What the removal has left of what was recorded.                         *)

Emptying == {c \in Cleaners : pc[c] \in {"list", "clear", "restat", "rmdir"}}

(* A recorded file that is still in the tree the cleaner has open.         *)
ObjectLeft(c, p) ==
    object[hand[c]][p] # NoFile /\ object[hand[c]][p] = recorded[c].objects[p]
LockLeft(c, p) ==
    lockFile[hand[c]][p] # NoFile /\ lockFile[hand[c]][p] = recorded[c].locks[p]

(* The pass has still to come by the file.                                 *)
ToVisit(c, p, file) ==
    \/ pc[c] \in {"list", "clear"} /\ p \in walk[c].todo
    \/ pc[c] = "clear" /\ walk[c].at = p /\ file \in walk[c].left

(* The recorded objects go in the first pass, the recorded lock files in   *)
(* the second.                                                             *)
WalkOf(c) ==
    c \in Emptying =>
      /\ hand[c] = recorded[c].tree
      /\ \A p \in Profiles : ObjectLeft(c, p) => walk[c].pass = 1 /\ ToVisit(c, p, "object")
      /\ \A p \in Profiles : LockLeft(c, p) =>
           \/ walk[c].pass = 1 /\ pc[c] \in {"list", "clear"}
           \/ ToVisit(c, p, "lock")

(* The number of a recorded object has been given away.                    *)
ObjectsKnown ==
    \A c \in Cleaners, p \in Profiles : recorded[c].objects[p] <= objectsMade[p]

WalkInv ==
    /\ LeaseInv
    /\ HandInv
    /\ ObjectsKnown
    /\ \A c \in Cleaners : WalkOf(c)

LEMMA WalkInit == Init => WalkInv
<1> SUFFICES ASSUME Init PROVE WalkInv
  OBVIOUS
<1>1. LeaseInv /\ TypeInv
  BY LeaseInit, TypeInit
<1>2. HandInv
  BY <1>1 DEF Init, HandInv, HandOf, Removing
<1>3. ObjectsKnown
  <2> SUFFICES ASSUME NEW c \in Cleaners, NEW p \in Profiles
               PROVE  recorded[c].objects[p] <= objectsMade[p]
    BY DEF ObjectsKnown
  <2>1. recorded[c].objects[p] = 0
    BY DEF Init, NoRecord, NoFile
  <2>2. objectsMade[p] \in Nat
    BY <1>1 DEF TypeInv, TypeOK, WorldType
  <2> QED BY <2>1, <2>2
<1>4. \A c \in Cleaners : WalkOf(c)
  BY DEF Init, WalkOf, Emptying
<1> QED BY <1>1, <1>2, <1>3, <1>4 DEF WalkInv

(* What is done to the objects in one step: a profile gets one of a new    *)
(* number or loses one.                                                    *)
LEMMA Objects ==
    ASSUME TypeInv, [Next]_vars
    PROVE  \A p \in Profiles :
             /\ objectsMade'[p] \in {objectsMade[p], objectsMade[p] + 1}
             /\ \A t \in Trees :
                  \/ object'[t][p] \in {object[t][p], NoFile}
                  \/ object'[t][p] = objectsMade[p] + 1
<1> DEFINE Quiet ==
      /\ objectsMade' = objectsMade
      /\ \A t \in Trees, p \in Profiles : object'[t][p] \in {object[t][p], NoFile}
<1>1. CASE \E q \in Profiles : Build(q) \/ Work(q)
  <2>1. PICK q \in Profiles : WriteObject(q)
    BY <1>1 DEF Build, Work
  <2>2. /\ objectsMade' = [objectsMade EXCEPT ![q] = @ + 1]
        /\ object' = [object EXCEPT ![root][q] = objectsMade'[q]]
    BY <2>1 DEF WriteObject
  <2>3. \A p \in Profiles :
          objectsMade'[p] = IF p = q THEN objectsMade[p] + 1 ELSE objectsMade[p]
    BY <2>2 DEF TypeInv, TypeOK, WorldType
  <2>4. \A t \in Trees, p \in Profiles :
          object'[t][p] = IF t = root /\ p = q THEN objectsMade'[q] ELSE object[t][p]
    BY <2>2 DEF TypeInv, TypeOK, WorldType
  <2> QED BY <2>3, <2>4
<1>2. CASE UNCHANGED <<object, objectsMade>>
  BY <1>2
<1>3. CASE \E q \in Profiles : OpenLock(q) \/ StartBuild(q) \/ FinishBuild(q)
  BY <1>2, <1>3 DEF OpenLock, StartBuild, FinishBuild, world
<1>4. CASE Arrive \/ Leave \/ Keep \/ MoveAway \/ UNCHANGED vars
  BY <1>2, <1>4 DEF Arrive, Leave, Keep, MoveAway, vars, world
<1>5. ASSUME NEW c \in Cleaners, Unlink(c) PROVE Quiet
  <2> DEFINE t == hand[c]
             q == walk[c].at
  <2>1. /\ objectsMade' = objectsMade
        /\ object' \in {object, [object EXCEPT ![t][q] = NoFile]}
    BY <1>5 DEF Unlink
  <2>2. object \in [Trees -> [Profiles -> 0..MaxObjects]]
    BY DEF TypeInv, TypeOK, WorldType
  <2> HIDE DEF t, q
  <2>3. \A s \in Trees, p \in Profiles :
          [object EXCEPT ![t][q] = NoFile][s][p]
            = IF s = t /\ p = q THEN NoFile ELSE object[s][p]
    BY <2>2
  <2>4. CASE object' = object
    BY <2>1, <2>4
  <2>5. CASE object' = [object EXCEPT ![t][q] = NoFile]
    BY <2>1, <2>3, <2>5
  <2> QED BY <2>1, <2>4, <2>5
<1>6. ASSUME NEW c \in Cleaners, Scan(c) \/ CleanerStep(c) \/ Dies(c)
      PROVE  Unlink(c) \/ UNCHANGED <<object, objectsMade>>
  BY <1>6 DEF Scan, CleanerStep, Dies, Observe, Survey, Ownership, Lease, LeaseOwner, Contention,
              Recheck, Measure, OpenRoot, ListDirectory, LeaveDirectory, EndPass, Restat, Rmdir, world
<1> QED BY <1>1, <1>2, <1>3, <1>4, <1>5, <1>6 DEF Next

(* A recorded file that is gone from a tree does not come back to it.      *)
LEMMA LeftBefore ==
    ASSUME WalkInv, [Next]_vars, NEW c \in Cleaners, NEW p \in Profiles, c \in Emptying,
           recorded'[c] = recorded[c], hand'[c] = hand[c]
    PROVE  /\ ObjectLeft(c, p)' => ObjectLeft(c, p)
           /\ LockLeft(c, p)' => LockLeft(c, p)
<1>1. hand[c] \in Trees
  BY DEF WalkInv, LeaseInv, TypeInv, HandsOpen, Emptying
<1>2. /\ recorded[c].objects[p] <= objectsMade[p] /\ recorded[c].locks[p] <= locksMade[p]
      /\ recorded[c].objects[p] \in Nat /\ objectsMade[p] \in Nat
      /\ recorded[c].locks[p] \in Nat /\ locksMade[p] \in Nat
  BY DEF WalkInv, ObjectsKnown, LeaseInv, LeaseOf, TypeInv, TypeOK, WorldType, CleanersType, Records
<1>3. /\ object'[hand[c]][p] \in {object[hand[c]][p], NoFile, objectsMade[p] + 1}
      /\ lockFile'[hand[c]][p] \in {lockFile[hand[c]][p], NoFile, locksMade[p] + 1}
  BY <1>1, Objects, Files DEF WalkInv, LeaseInv
<1> QED BY <1>2, <1>3 DEF ObjectLeft, LockLeft

LEMMA KnownStep == WalkInv /\ [Next]_vars => ObjectsKnown'
<1> SUFFICES ASSUME WalkInv, [Next]_vars, NEW c \in Cleaners, NEW p \in Profiles
             PROVE  recorded'[c].objects[p] <= objectsMade'[p]
  BY DEF ObjectsKnown
<1>0. TypeInv /\ TypeOK
  BY DEF WalkInv, LeaseInv, TypeInv
<1>1. /\ recorded[c].objects[p] <= objectsMade[p] /\ recorded[c].objects[p] \in Nat
      /\ objectsMade[p] \in Nat /\ objectsMade'[p] \in {objectsMade[p], objectsMade[p] + 1}
  BY <1>0, Objects DEF WalkInv, ObjectsKnown, TypeOK, WorldType, CleanersType, Records
<1>2. CASE recorded'[c] = recorded[c]
  BY <1>1, <1>2
<1>3. CASE recorded'[c] = NoRecord
  BY <1>1, <1>3 DEF NoRecord, NoFile
<1>4. CASE Scan(c)
  <2>1. root \in Trees /\ recorded'[c] = ContentsAt(root)
    BY <1>0, <1>4, LimitsAssumption DEF Scan, TypeOK, WorldType, CleanersType, Trees
  <2>2. recorded'[c].objects[p] = object[root][p]
    BY <2>1 DEF ContentsAt
  <2>3. object[root][p] <= objectsMade[p] /\ object[root][p] \in Nat
    BY <1>0, <2>1 DEF TypeOK, WorldType
  <2> QED BY <1>1, <2>2, <2>3
<1>5. ASSUME NEW d \in Cleaners, Scan(d) \/ CleanerStep(d) \/ Dies(d), d # c
      PROVE  recorded'[c] = recorded[c]
  BY <1>0, <1>5, CleanerSpares DEF Spared
<1>6. CASE \E o : Ends(c, o)
  BY <1>0, <1>3, <1>6 DEF Ends, TypeOK, CleanersType
<1>7. CASE CleanerStep(c) \/ Dies(c)
  <2>1. recorded' = recorded \/ \E o : Ends(c, o)
    BY <1>7 DEF CleanerStep, Dies, Observe, Survey, Ownership, Lease, LeaseOwner, Contention,
       Recheck, Measure, OpenRoot, ListDirectory, Unlink, LeaveDirectory, EndPass, Restat, Rmdir,
       Fails, job
  <2> QED BY <1>2, <1>6, <2>1
<1>8. CASE \/ \E q \in Profiles :
                OpenLock(q) \/ StartBuild(q) \/ Build(q) \/ FinishBuild(q) \/ Work(q)
           \/ Arrive \/ Leave \/ Keep \/ MoveAway \/ UNCHANGED vars
  <2>1. job' = job
    BY <1>8 DEF OpenLock, StartBuild, Build, FinishBuild, Work, Arrive, Leave, Keep, MoveAway, vars
  <2> QED BY <1>2, <2>1 DEF job
<1> QED BY <1>2, <1>4, <1>5, <1>7, <1>8 DEF Next

(* A step that does not touch the walk of `d` leaves it less to do, or as  *)
(* much.                                                                   *)
LEMMA WalkKept ==
    ASSUME WalkInv, [Next]_vars, NEW d \in Cleaners,
           pc'[d] = pc[d], recorded'[d] = recorded[d], hand'[d] = hand[d], walk'[d] = walk[d]
    PROVE  WalkOf(d)'
<1> SUFFICES ASSUME d \in Emptying PROVE WalkOf(d)'
  BY DEF WalkOf, Emptying
<1>1. \A p \in Profiles :
        /\ ObjectLeft(d, p)' => ObjectLeft(d, p)
        /\ LockLeft(d, p)' => LockLeft(d, p)
  BY LeftBefore
<1>2. \A p \in Profiles, f \in {"object", "lock"} : ToVisit(d, p, f)' <=> ToVisit(d, p, f)
  BY DEF ToVisit
<1>3. WalkOf(d)
  BY DEF WalkInv
<1> QED BY <1>1, <1>2, <1>3 DEF WalkOf

LEMMA OthersKeepWalks ==
    ASSUME WalkInv, [Next]_vars, NEW c \in Cleaners, NEW d \in Cleaners, c # d,
           Scan(c) \/ CleanerStep(c) \/ Dies(c)
    PROVE  WalkOf(d)'
<1>0. TypeOK
  BY DEF WalkInv, LeaseInv, TypeInv
<1>1. pc'[d] = pc[d] /\ recorded'[d] = recorded[d]
  BY <1>0, CleanerSpares DEF Spared
<1>2. CASE \E o : Ends(c, o)
  <2>1. hand'[d] = hand[d] /\ walk'[d] = walk[d]
    BY <1>0, <1>2 DEF Ends, TypeOK, CleanersType
  <2> QED BY <1>1, <2>1, WalkKept
<1>3. CASE UNCHANGED <<hand, walk>>
  BY <1>1, <1>3, WalkKept
<1>4. CASE OpenRoot(c)
  BY <1>0, <1>1, <1>2, <1>4, WalkKept DEF OpenRoot, Fails, TypeOK, CleanersType
<1>5. CASE ListDirectory(c)
  <2>1. CASE hand' = hand /\ \E w : walk' = [walk EXCEPT ![c] = w]
    BY <1>0, <1>1, <2>1, WalkKept DEF TypeOK, CleanersType
  <2> QED BY <1>2, <1>5, <2>1 DEF ListDirectory, Fails
<1>6. CASE Unlink(c)
  <2>1. CASE hand' = hand /\ \E w : walk' = [walk EXCEPT ![c] = w]
    BY <1>0, <1>1, <2>1, WalkKept DEF TypeOK, CleanersType
  <2> QED BY <1>2, <1>6, <2>1 DEF Unlink, Fails
<1>7. CASE LeaveDirectory(c)
  <2>1. CASE hand' = hand /\ walk' = [walk EXCEPT ![c].at = NoOne]
    BY <1>0, <1>1, <2>1, WalkKept DEF TypeOK, CleanersType
  <2> QED BY <1>2, <1>7, <2>1 DEF LeaveDirectory, Fails
<1>8. CASE EndPass(c)
  BY <1>0, <1>1, <1>8, WalkKept DEF EndPass, TypeOK, CleanersType
<1> QED BY <1>2, <1>3, <1>4, <1>5, <1>6, <1>7, <1>8
  DEF Scan, CleanerStep, Dies, Observe, Survey, Ownership, Lease, LeaseOwner, Contention,
      Recheck, Measure, Restat, Rmdir, Fails, job

(* The steps of the walk itself.                                           *)
LEMMA OpenWalk ==
    ASSUME WalkInv, [Next]_vars, NEW c \in Cleaners, OpenRoot(c), root # 0 /\ root = seen[c]
    PROVE  WalkOf(c)'
<1>0. TypeOK
  BY DEF WalkInv, LeaseInv, TypeInv
<1>1. /\ pc'[c] = "list" /\ hand'[c] = root /\ walk'[c].pass = 1 /\ walk'[c].todo = dirs[root]
      /\ recorded' = recorded /\ UNCHANGED world /\ pc[c] = "open"
  BY <1>0 DEF OpenRoot, Go, NoWalk, TypeOK, CleanersType
<1>2. object' = object
  BY <1>1 DEF world
<1>3. seen[c] = recorded[c].tree
  BY <1>1 DEF WalkInv, HandInv, HandOf, Removing
<1>4. root \in Trees
  BY <1>0, LimitsAssumption DEF TypeOK, WorldType, Trees
<1>5. ASSUME NEW p \in Profiles, ObjectLeft(c, p)' PROVE ToVisit(c, p, "object")'
  <2>1. object[root][p] # NoFile
    BY <1>1, <1>2, <1>5 DEF ObjectLeft
  <2>2. p \in dirs[root]
    BY <1>0, <1>4, <2>1 DEF TypeOK, WorldType
  <2> QED BY <1>1, <2>2 DEF ToVisit
<1> QED BY <1>1, <1>3, <1>5 DEF WalkOf

LEMMA ListWalk ==
    ASSUME WalkInv, [Next]_vars, NEW c \in Cleaners, ListDirectory(c), pc'[c] = "clear"
    PROVE  WalkOf(c)'
<1>0. TypeOK /\ WalkOf(c)
  BY DEF WalkInv, LeaseInv, TypeInv
<1>1. PICK q \in walk[c].todo :
        /\ walk' = [walk EXCEPT ![c] =
                      [walk[c] EXCEPT !.todo = @ \ {q}, !.at = q,
                                !.left = Entries(hand[c], q), !.emptied = TRUE]]
        /\ UNCHANGED <<recorded, hand>>
        /\ pc[c] = "list"
  <2>1. ~Fails(c)
    BY <1>0 DEF Fails, Ends, TypeOK, CleanersType
  <2> QED BY <2>1 DEF ListDirectory
<1>2. /\ walk'[c].todo = walk[c].todo \ {q} /\ walk'[c].at = q
      /\ walk'[c].left = Entries(hand[c], q) /\ walk'[c].pass = walk[c].pass
  BY <1>0, <1>1 DEF TypeOK, CleanersType, Walks
<1>3. c \in Emptying
  BY <1>1 DEF Emptying
<1>4. ASSUME NEW p \in Profiles, ObjectLeft(c, p)'
      PROVE  walk'[c].pass = 1 /\ ToVisit(c, p, "object")'
  <2>1. ObjectLeft(c, p)
    BY <1>1, <1>3, <1>4, LeftBefore
  <2>2. walk[c].pass = 1 /\ p \in walk[c].todo
    BY <1>0, <1>1, <1>3, <2>1 DEF WalkOf, ToVisit
  <2>3. "object" \in Entries(hand[c], p)
    BY <2>1 DEF ObjectLeft, Entries
  <2> QED BY <1>2, <2>2, <2>3 DEF ToVisit
<1>5. ASSUME NEW p \in Profiles, LockLeft(c, p)'
      PROVE  walk'[c].pass = 1 \/ ToVisit(c, p, "lock")'
  <2>1. LockLeft(c, p)
    BY <1>1, <1>3, <1>5, LeftBefore
  <2>2. walk[c].pass = 1 \/ p \in walk[c].todo
    BY <1>0, <1>1, <1>3, <2>1 DEF WalkOf, ToVisit
  <2>3. "lock" \in Entries(hand[c], p)
    BY <2>1 DEF LockLeft, Entries
  <2> QED BY <1>2, <2>2, <2>3 DEF ToVisit
<1>6. hand'[c] = recorded'[c].tree
  BY <1>0, <1>1, <1>3 DEF WalkOf
<1> QED BY <1>4, <1>5, <1>6 DEF WalkOf

(* An entry leaves the list when it is gone, or when it is a lock file the *)
(* first pass spares.                                                      *)
LEMMA UnlinkWalk ==
    ASSUME WalkInv, [Next]_vars, NEW c \in Cleaners, Unlink(c), pc'[c] = "clear"
    PROVE  WalkOf(c)'
<1>0. TypeOK /\ WalkOf(c) /\ ~Fails(c)
  BY DEF WalkInv, LeaseInv, TypeInv, Fails, Ends, TypeOK, CleanersType
<1>1. c \in Emptying /\ hand[c] \in Trees /\ pc[c] = "clear"
  BY DEF Unlink, Emptying, WalkInv, LeaseInv, TypeInv, HandsOpen
<1>2. PICK e \in walk[c].left :
        /\ recorded' = recorded /\ hand' = hand
        /\ \/ /\ e = "lock" /\ walk[c].pass = 1
              /\ walk' = [walk EXCEPT ![c] = [walk[c] EXCEPT !.left = @ \ {e}, !.emptied = FALSE]]
           \/ /\ walk' = [walk EXCEPT ![c] = [walk[c] EXCEPT !.left = @ \ {e}]]
              /\ IF e = "lock"
                 THEN lockFile' = [lockFile EXCEPT ![hand[c]][walk[c].at] = NoFile]
                 ELSE object' = [object EXCEPT ![hand[c]][walk[c].at] = NoFile]
  BY <1>0 DEF Unlink
<1>3. /\ walk'[c].left = walk[c].left \ {e} /\ walk'[c].pass = walk[c].pass
      /\ walk'[c].todo = walk[c].todo /\ walk'[c].at = walk[c].at
      /\ e \in {"lock", "object"}
  <2>1. walk \in [Cleaners -> Walks] /\ walk[c] \in Walks
    BY <1>0 DEF TypeOK, CleanersType
  <2>2. \/ walk' = [walk EXCEPT ![c] = [walk[c] EXCEPT !.left = @ \ {e}, !.emptied = FALSE]]
        \/ walk' = [walk EXCEPT ![c] = [walk[c] EXCEPT !.left = @ \ {e}]]
    BY <1>2
  <2>3. \/ walk'[c] = [walk[c] EXCEPT !.left = @ \ {e}, !.emptied = FALSE]
        \/ walk'[c] = [walk[c] EXCEPT !.left = @ \ {e}]
    BY <2>1, <2>2
  <2> QED BY <2>1, <2>3 DEF Walks
<1>4. ASSUME NEW p \in Profiles, ObjectLeft(c, p)'
      PROVE  walk'[c].pass = 1 /\ ToVisit(c, p, "object")'
  <2>1. ObjectLeft(c, p)
    BY <1>1, <1>2, <1>4, LeftBefore
  <2>2. walk[c].pass = 1 /\ ToVisit(c, p, "object")
    BY <1>0, <1>1, <2>1 DEF WalkOf
  <2>3. ASSUME e = "object", walk[c].at = p PROVE FALSE
    <3>1. object' = [object EXCEPT ![hand[c]][p] = NoFile]
      BY <1>2, <2>3
    <3>2. object'[hand[c]][p] = NoFile
      BY <1>0, <1>1, <3>1 DEF TypeOK, WorldType
    <3> QED BY <1>2, <1>4, <3>2 DEF ObjectLeft
  <2> QED BY <1>1, <1>3, <2>2, <2>3 DEF ToVisit
<1>5. ASSUME NEW p \in Profiles, LockLeft(c, p)'
      PROVE  walk'[c].pass = 1 \/ ToVisit(c, p, "lock")'
  <2>1. LockLeft(c, p)
    BY <1>1, <1>2, <1>5, LeftBefore
  <2>2. walk[c].pass = 1 \/ ToVisit(c, p, "lock")
    BY <1>0, <1>1, <2>1 DEF WalkOf
  <2>3. ASSUME e = "lock", walk[c].at = p, walk[c].pass # 1 PROVE FALSE
    <3>1. lockFile' = [lockFile EXCEPT ![hand[c]][p] = NoFile]
      BY <1>2, <2>3
    <3>2. lockFile'[hand[c]][p] = NoFile
      BY <1>0, <1>1, <3>1 DEF TypeOK, WorldType
    <3> QED BY <1>2, <1>5, <3>2 DEF LockLeft
  <2> QED BY <1>1, <1>3, <2>2, <2>3 DEF ToVisit
<1>6. hand'[c] = recorded'[c].tree
  BY <1>0, <1>1, <1>2 DEF WalkOf
<1> QED BY <1>4, <1>5, <1>6 DEF WalkOf

(* With nothing on the list a directory is done, and with no directory to  *)
(* visit a pass is.                                                        *)
LEMMA LeaveWalk ==
    ASSUME WalkInv, [Next]_vars, NEW c \in Cleaners, LeaveDirectory(c), pc'[c] = "list"
    PROVE  WalkOf(c)'
<1>0. TypeOK /\ WalkOf(c) /\ ~Fails(c)
  BY DEF WalkInv, LeaseInv, TypeInv, Fails, Ends, TypeOK, CleanersType
<1>1. /\ c \in Emptying /\ pc[c] = "clear" /\ walk[c].left = {}
      /\ recorded' = recorded /\ hand' = hand
      /\ walk'[c].todo = walk[c].todo /\ walk'[c].pass = walk[c].pass
  BY <1>0 DEF LeaveDirectory, Emptying, TypeOK, CleanersType, Walks
<1>2. ASSUME NEW p \in Profiles, ObjectLeft(c, p)'
      PROVE  walk'[c].pass = 1 /\ ToVisit(c, p, "object")'
  BY <1>0, <1>1, <1>2, LeftBefore DEF WalkOf, ToVisit
<1>3. ASSUME NEW p \in Profiles, LockLeft(c, p)'
      PROVE  walk'[c].pass = 1 \/ ToVisit(c, p, "lock")'
  BY <1>0, <1>1, <1>3, LeftBefore DEF WalkOf, ToVisit
<1> QED BY <1>0, <1>1, <1>2, <1>3 DEF WalkOf

LEMMA EndPassWalk ==
    ASSUME WalkInv, [Next]_vars, NEW c \in Cleaners, EndPass(c)
    PROVE  WalkOf(c)'
<1>0. TypeOK /\ WalkOf(c)
  BY DEF WalkInv, LeaseInv, TypeInv
<1>1. /\ c \in Emptying /\ hand[c] \in Trees /\ pc[c] = "list" /\ walk[c].todo = {}
      /\ recorded' = recorded /\ hand' = hand
  BY DEF EndPass, Emptying, WalkInv, LeaseInv, TypeInv, HandsOpen
<1>2. hand'[c] = recorded'[c].tree
  BY <1>0, <1>1 DEF WalkOf
<1>3. ASSUME NEW p \in Profiles PROVE ~ObjectLeft(c, p)'
  BY <1>0, <1>1, LeftBefore DEF WalkOf, ToVisit
<1>4. CASE walk[c].pass = 1
  <2>1. /\ pc' = pc /\ lockFile' = lockFile
        /\ walk'[c].todo = dirs[hand[c]]
    BY <1>0, <1>4 DEF EndPass, NoWalk, TypeOK, CleanersType, world
  <2>2. ASSUME NEW p \in Profiles, LockLeft(c, p)' PROVE ToVisit(c, p, "lock")'
    <3>1. lockFile[hand[c]][p] # NoFile
      BY <1>1, <2>1, <2>2 DEF LockLeft
    <3>2. p \in dirs[hand[c]]
      BY <1>0, <1>1, <3>1 DEF TypeOK, WorldType
    <3> QED BY <1>1, <2>1, <3>2 DEF ToVisit
  <2> QED BY <1>2, <1>3, <2>2 DEF WalkOf
<1>5. CASE walk[c].pass # 1
  <2>1. ASSUME NEW p \in Profiles PROVE ~LockLeft(c, p)'
    BY <1>0, <1>1, <1>5, LeftBefore DEF WalkOf, ToVisit
  <2> QED BY <1>2, <1>3, <2>1 DEF WalkOf
<1> QED BY <1>4, <1>5

LEMMA OwnWalk ==
    ASSUME WalkInv, [Next]_vars, NEW c \in Cleaners, Scan(c) \/ CleanerStep(c) \/ Dies(c)
    PROVE  WalkOf(c)'
<1>0. TypeOK
  BY DEF WalkInv, LeaseInv, TypeInv
<1>1. CASE c \notin Emptying'
  BY <1>1 DEF WalkOf, Emptying
<1>2. CASE \E o \in {"idle", "deleted", "rejected", "failed"} : Ends(c, o)
  <2>1. c \notin Emptying'
    BY <1>0, <1>2 DEF Ends, Emptying, TypeOK, CleanersType
  <2> QED BY <1>1, <2>1
<1>3. CASE Scan(c) \/ Observe(c) \/ Survey(c) \/ Ownership(c)
  <2>1. CASE pc'[c] \in {"planned", "survey", "ownership", "lease"}
    BY <1>1, <2>1 DEF Emptying
  <2> QED BY <1>0, <1>2, <1>3, <2>1
    DEF Scan, Observe, Survey, Ownership, Go, TypeOK, CleanersType
<1>4. CASE \/ \E p \in Profiles : Lease(c, p)
           \/ LeaseOwner(c)
           \/ \E l \in Profiles \cup {Owner} : Contention(c, l)
  <2>1. pc'[c] = "lease"
    BY <1>4 DEF Lease, LeaseOwner, Contention, Wanted
  <2> QED BY <1>1, <2>1 DEF Emptying
<1>5. CASE Recheck(c) \/ Measure(c)
  <2>1. CASE pc'[c] \in {"measure", "open"}
    BY <1>1, <2>1 DEF Emptying
  <2> QED BY <1>0, <1>2, <1>5, <2>1 DEF Recheck, Measure, TypeOK, CleanersType
<1>6. CASE OpenRoot(c)
  BY <1>2, <1>6, OpenWalk DEF OpenRoot, Fails
<1>7. CASE ListDirectory(c)
  BY <1>0, <1>2, <1>7, ListWalk DEF ListDirectory, Fails, TypeOK, CleanersType
<1>8. CASE Unlink(c)
  BY <1>0, <1>2, <1>8, UnlinkWalk DEF Unlink, Fails, TypeOK, CleanersType
<1>9. CASE LeaveDirectory(c)
  BY <1>0, <1>2, <1>9, LeaveWalk DEF LeaveDirectory, Fails, TypeOK, CleanersType
<1>10. CASE EndPass(c)
  BY <1>10, EndPassWalk
<1>11. CASE Restat(c)
  <2>1. CASE pc[c] = "restat" /\ pc'[c] = "rmdir" /\ UNCHANGED <<world, job>>
    <3>1. /\ ObjectLeft(c, c)' = ObjectLeft(c, c)
          /\ object' = object /\ lockFile' = lockFile /\ hand' = hand /\ recorded' = recorded
      BY <2>1 DEF world, job, ObjectLeft
    <3>2. WalkOf(c) /\ c \in Emptying
      BY <2>1 DEF WalkInv, Emptying
    <3> QED BY <2>1, <3>1, <3>2 DEF WalkOf, ToVisit, ObjectLeft, LockLeft
  <2> QED BY <1>0, <1>2, <1>11, <2>1 DEF Restat, Fails, TypeOK, CleanersType
<1>12. CASE Rmdir(c) \/ Dies(c)
  BY <1>2, <1>12 DEF Rmdir, Dies, Fails
<1> QED BY <1>3, <1>4, <1>5, <1>6, <1>7, <1>8, <1>9, <1>10, <1>11, <1>12 DEF CleanerStep

LEMMA WalkStep == WalkInv /\ [Next]_vars => WalkInv'
<1> SUFFICES ASSUME WalkInv, [Next]_vars PROVE WalkInv'
  OBVIOUS
<1>1. LeaseInv' /\ HandInv' /\ ObjectsKnown'
  BY LeaseStep, HandInvStep, KnownStep DEF WalkInv
<1>2. ASSUME NEW d \in Cleaners PROVE WalkOf(d)'
  <2>1. CASE \/ \E p \in Profiles :
                  OpenLock(p) \/ StartBuild(p) \/ Build(p) \/ FinishBuild(p) \/ Work(p)
             \/ Arrive \/ Leave \/ Keep \/ MoveAway \/ UNCHANGED vars
    <3>1. pc' = pc /\ job' = job
      BY <2>1 DEF OpenLock, StartBuild, Build, FinishBuild, Work, Arrive, Leave, Keep, MoveAway, vars
    <3> QED BY <3>1, WalkKept DEF job
  <2>2. ASSUME NEW c \in Cleaners, Scan(c) \/ CleanerStep(c) \/ Dies(c) PROVE WalkOf(d)'
    BY <2>2, OthersKeepWalks, OwnWalk
  <2> QED BY <2>1, <2>2 DEF Next
<1> QED BY <1>1, <1>2 DEF WalkInv

(* As long as one recorded object is left, so are all the recorded lock    *)
(* files, whichever cleaner it is that removes, and whenever it is killed: *)
(* a removal that is cut short leaves what remains behind its locks.       *)
THEOREM ObjectsGoFirst == Spec => LocksGoLast
<1>1. WalkInv /\ [Next]_vars =>
        [\A c \in Cleaners : pc[c] = "clear" =>
           LET t == recorded[c].tree IN
           \A p, q \in Profiles :
             (/\ lockFile[t][p] # NoFile /\ lockFile[t][p] = recorded[c].locks[p]
              /\ lockFile'[t][p] = NoFile)
             => (recorded[c].objects[q] = NoFile \/ object[t][q] # recorded[c].objects[q])]_vars
  <2> SUFFICES ASSUME WalkInv, [Next]_vars, NEW c \in Cleaners, pc[c] = "clear",
                      NEW t, t = recorded[c].tree, NEW p \in Profiles, NEW q \in Profiles,
                      lockFile[t][p] # NoFile, lockFile[t][p] = recorded[c].locks[p],
                      lockFile'[t][p] = NoFile,
                      recorded[c].objects[q] # NoFile, object[t][q] = recorded[c].objects[q]
               PROVE  FALSE
    OBVIOUS
  <2>1. c \in Emptying /\ c \in Removing /\ TypeOK /\ TypeInv
    BY DEF Emptying, Removing, WalkInv, LeaseInv, TypeInv
  <2>2. hand[c] = t /\ t \in Trees
    BY <2>1 DEF WalkInv, WalkOf, LeaseInv, TypeInv, HandsOpen
  <2>3. walk[c].pass = 1
    BY <2>1, <2>2 DEF WalkInv, WalkOf, ObjectLeft
  <2>4. holder[p][lockFile[t][p]] = c /\ ownerLock = c
    BY <2>1 DEF WalkInv, LeaseInv, LeaseOf
  <2>5. PICK d \in Cleaners : Unlink(d) /\ lockFile' # lockFile
    <3>1. Lost(t) # {}
      BY DEF Lost
    <3> QED BY <2>1, <2>2, <3>1, LostFiles
  <2>6. d = c
    <3>1. pc[d] = "clear"
      BY <2>5 DEF Unlink
    <3>2. ownerLock = d
      BY <3>1 DEF WalkInv, LeaseInv, LeaseOf, Removing
    <3> QED BY <2>4, <3>2
  <2>7. /\ lockFile' = [lockFile EXCEPT ![t][walk[c].at] = NoFile]
        /\ ~Held(c, walk[c].at)
    BY <2>2, <2>3, <2>5, <2>6 DEF Unlink
  <2>8. walk[c].at # p
    BY <2>2, <2>4, <2>7 DEF Held
  <2>9. lockFile'[t][p] = lockFile[t][p]
    BY <2>1, <2>2, <2>7, <2>8 DEF TypeOK, WorldType
  <2> QED BY <2>9
<1> QED BY WalkInit, WalkStep, <1>1, PTL DEF Spec, LocksGoLast

LEMMA OnlyRmdirDeletes ==
    ASSUME TypeOK, [Next]_vars, NEW c \in Cleaners, pc[c] # "deleted", pc'[c] = "deleted"
    PROVE  Rmdir(c) /\ Ends(c, "deleted")
<1>1. CASE pc' = pc
  BY <1>1
<1>2. ASSUME NEW d \in Cleaners, NEW o, o # "deleted", pc' = [pc EXCEPT ![d] = o] PROVE FALSE
  BY <1>2 DEF TypeOK, CleanersType
<1>3. CASE \/ \E p \in Profiles :
                OpenLock(p) \/ StartBuild(p) \/ Build(p) \/ FinishBuild(p) \/ Work(p)
           \/ Arrive \/ Leave \/ Keep \/ MoveAway \/ UNCHANGED vars
  BY <1>1, <1>3
  DEF OpenLock, StartBuild, Build, FinishBuild, Work, Arrive, Leave, Keep, MoveAway, vars
<1>4. ASSUME NEW d \in Cleaners, Scan(d) \/ CleanerStep(d) \/ Dies(d) PROVE Rmdir(d)
  <2>1. \A o : Ends(d, o) => pc' = [pc EXCEPT ![d] = o]
    BY DEF Ends
  <2>2. CASE Scan(d) \/ Observe(d) \/ Survey(d) \/ Ownership(d) \/ Dies(d)
    BY <1>2, <2>1, <2>2 DEF Scan, Observe, Survey, Ownership, Dies, Go
  <2>3. CASE \/ \E p \in Profiles : Lease(d, p)
             \/ LeaseOwner(d)
             \/ \E l \in Profiles \cup {Owner} : Contention(d, l)
    BY <1>1, <2>3 DEF Lease, LeaseOwner, Contention
  <2>4. CASE Recheck(d) \/ Measure(d) \/ OpenRoot(d) \/ Restat(d)
    BY <1>2, <2>1, <2>4 DEF Recheck, Measure, OpenRoot, Restat, Fails, Go
  <2>5. CASE ListDirectory(d) \/ LeaveDirectory(d) \/ EndPass(d)
    BY <1>1, <1>2, <2>1, <2>5 DEF ListDirectory, LeaveDirectory, EndPass, Fails
  <2>6. CASE Unlink(d)
    BY <1>1, <1>2, <2>1, <2>6 DEF Unlink, Fails
  <2> QED BY <1>4, <2>2, <2>3, <2>4, <2>5, <2>6 DEF CleanerStep
<1>5. PICK d \in Cleaners : Rmdir(d)
  BY <1>3, <1>4 DEF Next
<1>6. Ends(d, "deleted")
  BY <1>2, <1>5 DEF Rmdir, Fails, Ends
<1>7. d = c
  BY <1>6 DEF Ends, TypeOK, CleanersType
<1> QED BY <1>5, <1>6, <1>7

(* What is reported as deleted is gone, whoever made other files at the    *)
(* path or moved the tree away meanwhile.                                  *)
THEOREM DeletedIsTrue == Spec => DeletedIsGone
<1>1. WalkInv /\ [Next]_vars =>
        [\A c \in Cleaners : pc[c] # "deleted" /\ pc'[c] = "deleted" =>
           LET t == recorded[c].tree IN
           /\ root' # t
           /\ \A p \in Profiles :
                /\ lockFile'[t][p] # NoFile => lockFile'[t][p] # recorded[c].locks[p]
                /\ object'[t][p] # NoFile => object'[t][p] # recorded[c].objects[p]]_vars
  <2> SUFFICES ASSUME WalkInv, [Next]_vars, NEW c \in Cleaners,
                      pc[c] # "deleted", pc'[c] = "deleted", NEW t, t = recorded[c].tree
               PROVE  /\ root' # t
                      /\ \A p \in Profiles :
                           /\ lockFile'[t][p] # NoFile => lockFile'[t][p] # recorded[c].locks[p]
                           /\ object'[t][p] # NoFile => object'[t][p] # recorded[c].objects[p]
    OBVIOUS
  <2>0. TypeOK /\ WalkOf(c)
    BY DEF WalkInv, LeaseInv, TypeInv
  <2>1. Rmdir(c) /\ Ends(c, "deleted")
    BY <2>0, OnlyRmdirDeletes
  <2>2. pc[c] = "rmdir" /\ root' = 0 /\ lockFile' = lockFile /\ object' = object
    BY <2>0, <2>1 DEF Rmdir, Fails, Ends, TypeOK, CleanersType
  <2>3. c \in Emptying /\ hand[c] = t /\ t \in Trees
    BY <2>0, <2>2 DEF Emptying, WalkOf, WalkInv, LeaseInv, TypeInv, HandsOpen
  <2>4. root' # t
    BY <2>2, <2>3, LimitsAssumption DEF Trees
  <2>5. ASSUME NEW p \in Profiles PROVE ~ObjectLeft(c, p) /\ ~LockLeft(c, p)
    BY <2>0, <2>2, <2>3 DEF WalkOf, ToVisit
  <2> QED BY <2>2, <2>3, <2>4, <2>5 DEF ObjectLeft, LockLeft
<1> QED BY WalkInit, WalkStep, <1>1, PTL DEF Spec, DeletedIsGone
===============================================================================
