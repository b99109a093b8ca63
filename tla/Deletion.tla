-------------------------------- MODULE Deletion -------------------------------
(***************************************************************************)
(* The deletion of one candidate directory, from the scan that records it  *)
(* to its removal, step by step among the processes that use it: builders  *)
(* that take the lock file of their profile, an owner that holds the lock  *)
(* of the marker above, a person who keeps it, somebody who moves it away, *)
(* and several cleaners at once.                                           *)
(*                                                                         *)
(* A tree has one directory per profile with a lock file and an object     *)
(* file in it.  A file is known by its inode, a number that is used once   *)
(* for each profile; 0 is no file.  A tree that was moved away never comes *)
(* back to the path, and neither does a removed file.                      *)
(***************************************************************************)
EXTENDS Gates, FiniteSets

CONSTANTS
    Cleaners,    \* processes that delete
    Profiles,    \* build profiles, each with one builder process
    Built,       \* the profiles that are built when it begins
    Owner,       \* the owner of the marker above the directory
    NoOne,
    Mandate,     \* what the caller admits: one of Admits
    MaxTrees,    \* how many directories are made at the path
    MaxLocks,    \* how often a profile's lock file is made
    MaxObjects   \* how often a profile's object is made

ASSUME PartiesAssumption ==
    /\ Built \subseteq Profiles
    /\ Cleaners \cap Profiles = {}
    /\ Owner \notin Cleaners \cup Profiles
    /\ NoOne \notin Cleaners \cup Profiles \cup {Owner}
ASSUME MandateAssumption == Mandate \in Admits
ASSUME LimitsAssumption ==
    {MaxTrees, MaxLocks, MaxObjects} \subseteq Nat \ {0}

Trees == 1..MaxTrees
LockInodes == 1..MaxLocks
NoFile == 0

VARIABLES
    root,        \* the tree at the path; 0 when nothing is there
    trees,       \* how many trees there have been
    dirs,        \* the profile directories of each tree
    lockFile,    \* the inode of each profile's lock file, in each tree
    object,      \* the inode of each profile's object, in each tree
    locksMade, objectsMade,
    holder,      \* who holds the lock on each lock file
    ownerLock,   \* who holds `owner.lock`
    keep,        \* whether the marker is kept or released
    opened,      \* the lock file each builder has open
    building,    \* the builders at work, which have the lock
    pc,          \* where each cleaner is
    recorded,    \* what its scan recorded
    seen,        \* the tree at the path when it observed
    claim,       \* the settlement it read
    read,        \* what it read the locks as
    want,        \* the locks it has still to take
    hand,        \* the tree it has opened for removal
    walk,        \* where the removal of it stands
    keptSince    \* whether the candidate has been kept since it observed

world == <<root, trees, dirs, lockFile, object, locksMade, objectsMade>>
locks == <<holder, ownerLock>>
users == <<keep, opened, building>>
job == <<recorded, seen, claim, read, want, hand, walk>>
vars == <<world, locks, users, pc, job, keptSince>>

Records == [tree : 0..MaxTrees,
            locks : [Profiles -> 0..MaxLocks], objects : [Profiles -> 0..MaxObjects]]
Walks == [pass : {1, 2},
          todo : SUBSET Profiles,              \* directories still to visit
          at : Profiles \cup {NoOne},          \* the one being cleared
          left : SUBSET {"lock", "object"},    \* its entries, as listed
          emptied : BOOLEAN]
CleanerStates ==
    {"idle", "planned", "survey", "ownership", "lease", "measure", "open", "list",
     "clear", "restat", "rmdir", "deleted", "rejected", "failed"}

WorldType ==
    /\ root \in 0..trees
    /\ trees \in Trees
    /\ dirs \in [Trees -> SUBSET Profiles]
    /\ lockFile \in [Trees -> [Profiles -> 0..MaxLocks]]
    /\ object \in [Trees -> [Profiles -> 0..MaxObjects]]
    /\ locksMade \in [Profiles -> 0..MaxLocks]
    /\ objectsMade \in [Profiles -> 0..MaxObjects]
    /\ \A t \in Trees, p \in Profiles :
         /\ lockFile[t][p] <= locksMade[p] /\ object[t][p] <= objectsMade[p]
         /\ p \notin dirs[t] => lockFile[t][p] = NoFile /\ object[t][p] = NoFile

UsersType ==
    /\ holder \in [Profiles -> [LockInodes -> Cleaners \cup Profiles \cup {NoOne}]]
    /\ ownerLock \in Cleaners \cup {Owner, NoOne}
    /\ keep \in {"kept", "released"}
    /\ opened \in [Profiles -> 0..MaxLocks]
    /\ building \subseteq Profiles

CleanersType ==
    /\ pc \in [Cleaners -> CleanerStates]
    /\ recorded \in [Cleaners -> Records]
    /\ seen \in [Cleaners -> 0..MaxTrees]
    /\ claim \in [Cleaners -> Settlements]
    /\ read \in [Cleaners -> {"free", "held"}]
    /\ want \in [Cleaners -> SUBSET (Profiles \cup {Owner})]
    /\ hand \in [Cleaners -> 0..MaxTrees]
    /\ walk \in [Cleaners -> Walks]
    /\ keptSince \in [Cleaners -> BOOLEAN]

TypeOK == WorldType /\ UsersType /\ CleanersType

NoRecord == [tree |-> 0, locks |-> [p \in Profiles |-> NoFile],
             objects |-> [p \in Profiles |-> NoFile]]
NoWalk == [pass |-> 1, todo |-> {}, at |-> NoOne, left |-> {}, emptied |-> TRUE]

Init ==
    /\ root = 1
    /\ trees = 1
    /\ dirs = [t \in Trees |-> IF t = 1 THEN Built ELSE {}]
    /\ lockFile = [t \in Trees |-> [p \in Profiles |->
                     IF t = 1 /\ p \in Built THEN 1 ELSE NoFile]]
    /\ object = lockFile
    /\ locksMade = lockFile[1]
    /\ objectsMade = lockFile[1]
    /\ holder = [p \in Profiles |-> [i \in LockInodes |-> NoOne]]
    /\ ownerLock = NoOne
    /\ keep \in {"kept", "released"}
    /\ opened = [p \in Profiles |-> NoFile]
    /\ building = {}
    /\ pc = [c \in Cleaners |-> "idle"]
    /\ recorded = [c \in Cleaners |-> NoRecord]
    /\ seen = [c \in Cleaners |-> 0]
    /\ claim = [c \in Cleaners |-> "unclaimed"]
    /\ read = [c \in Cleaners |-> "free"]
    /\ want = [c \in Cleaners |-> {}]
    /\ hand = [c \in Cleaners |-> 0]
    /\ walk = [c \in Cleaners |-> NoWalk]
    /\ keptSince = [c \in Cleaners |-> FALSE]

-------------------------------------------------------------------------------
(* Those who use the directory.                                            *)

(* A builder opens the lock file of its profile at the path and makes it,  *)
(* and the directories above it, when it is not there.                     *)
OpenLock(p) ==
    /\ opened[p] = NoFile
    /\ \/ root # 0 /\ UNCHANGED <<root, trees>>
       \/ root = 0 /\ trees < MaxTrees /\ trees' = trees + 1 /\ root' = trees'
    /\ \/ /\ lockFile[root'][p] # NoFile
          /\ opened' = [opened EXCEPT ![p] = lockFile[root'][p]]
          /\ UNCHANGED <<dirs, lockFile, locksMade>>
       \/ /\ lockFile[root'][p] = NoFile
          /\ locksMade[p] < MaxLocks
          /\ locksMade' = [locksMade EXCEPT ![p] = @ + 1]
          /\ lockFile' = [lockFile EXCEPT ![root'][p] = locksMade'[p]]
          /\ dirs' = [dirs EXCEPT ![root'] = @ \cup {p}]
          /\ opened' = [opened EXCEPT ![p] = locksMade'[p]]
    /\ UNCHANGED <<object, objectsMade, locks, keep, building, pc, job, keptSince>>

(* It waits for the lock on the file it has open, whatever became of the   *)
(* file's name meanwhile.                                                  *)
StartBuild(p) ==
    /\ opened[p] # NoFile
    /\ p \notin building
    /\ holder[p][opened[p]] = NoOne
    /\ holder' = [holder EXCEPT ![p][opened[p]] = p]
    /\ building' = building \cup {p}
    /\ UNCHANGED <<world, ownerLock, keep, opened, pc, job, keptSince>>

(* Objects are written below the path, whichever tree is there.            *)
WriteObject(p) ==
    /\ root # 0
    /\ objectsMade[p] < MaxObjects
    /\ objectsMade' = [objectsMade EXCEPT ![p] = @ + 1]
    /\ object' = [object EXCEPT ![root][p] = objectsMade'[p]]
    /\ dirs' = [dirs EXCEPT ![root] = @ \cup {p}]

Build(p) ==
    /\ p \in building
    /\ WriteObject(p)
    /\ UNCHANGED <<root, trees, lockFile, locksMade, locks, users, pc, job, keptSince>>

FinishBuild(p) ==
    /\ p \in building
    /\ holder' = [holder EXCEPT ![p][opened[p]] = NoOne]
    /\ building' = building \ {p}
    /\ opened' = [opened EXCEPT ![p] = NoFile]
    /\ UNCHANGED <<world, ownerLock, keep, pc, job, keptSince>>

(* The owner works while it holds the lock of its marker.                  *)
Arrive ==
    /\ ownerLock = NoOne
    /\ ownerLock' = Owner
    /\ UNCHANGED <<world, holder, users, pc, job, keptSince>>

Work(p) ==
    /\ ownerLock = Owner
    /\ WriteObject(p)
    /\ UNCHANGED <<root, trees, lockFile, locksMade, locks, users, pc, job, keptSince>>

Leave ==
    /\ ownerLock = Owner
    /\ ownerLock' = NoOne
    /\ UNCHANGED <<world, holder, users, pc, job, keptSince>>

(* A person keeps what the marker claims, or stops keeping it.             *)
Keep ==
    /\ keep' = IF keep = "kept" THEN "released" ELSE "kept"
    /\ keptSince' = [c \in Cleaners |-> FALSE]
    /\ UNCHANGED <<world, locks, opened, building, pc, job>>

(* Somebody moves the directory away.                                      *)
MoveAway ==
    /\ root # 0
    /\ root' = 0
    /\ UNCHANGED <<trees, dirs, lockFile, object, locksMade, objectsMade, locks,
                   users, pc, job, keptSince>>

-------------------------------------------------------------------------------
(* A cleaner.                                                              *)

Go(c, from, to) == pc[c] = from /\ pc' = [pc EXCEPT ![c] = to]

(* The locks on lock files and on the marker that are not `c`'s.           *)
Unlocked(c) ==
    /\ holder' = [p \in Profiles |-> [i \in LockInodes |->
                    IF holder[p][i] = c THEN NoOne ELSE holder[p][i]]]
    /\ ownerLock' = IF ownerLock = c THEN NoOne ELSE ownerLock

(* The candidate has its outcome, and what was held for it is let go.      *)
Ends(c, outcome) ==
    /\ pc' = [pc EXCEPT ![c] = outcome]
    /\ Unlocked(c)
    /\ recorded' = [recorded EXCEPT ![c] = NoRecord]
    /\ seen' = [seen EXCEPT ![c] = 0]
    /\ claim' = [claim EXCEPT ![c] = "unclaimed"]
    /\ read' = [read EXCEPT ![c] = "free"]
    /\ want' = [want EXCEPT ![c] = {}]
    /\ hand' = [hand EXCEPT ![c] = 0]
    /\ walk' = [walk EXCEPT ![c] = NoWalk]
    /\ keptSince' = [keptSince EXCEPT ![c] = FALSE]
    /\ UNCHANGED users

ContentsAt(t) == [tree |-> t, locks |-> lockFile[t], objects |-> object[t]]

(* The scan records the tree at the path and its contents.                 *)
Scan(c) ==
    /\ pc[c] \in {"idle", "deleted", "rejected", "failed"}
    /\ root # 0
    /\ pc' = [pc EXCEPT ![c] = "planned"]
    /\ recorded' = [recorded EXCEPT ![c] = ContentsAt(root)]
    /\ UNCHANGED <<world, locks, users, seen, claim, read, want, hand, walk, keptSince>>

Observe(c) ==
    \/ /\ Go(c, "planned", "survey")
       /\ root # 0
       /\ seen' = [seen EXCEPT ![c] = root]
       /\ keptSince' = [keptSince EXCEPT ![c] = (keep = "kept")]
       /\ UNCHANGED <<world, locks, users, recorded, claim, read, want, hand, walk>>
    \/ pc[c] = "planned" /\ root = 0 /\ Ends(c, "rejected") /\ UNCHANGED world

(* The lock files below the path, and the one of the marker above it.      *)
Survey(c) ==
    \/ /\ Go(c, "survey", "ownership")
       /\ root # 0
       /\ want' = [want EXCEPT ![c] =
                     {p \in Profiles : lockFile[root][p] # NoFile} \cup {Owner}]
       /\ UNCHANGED <<world, locks, users, recorded, seen, claim, read, hand, walk, keptSince>>
    \/ pc[c] = "survey" /\ root = 0 /\ Ends(c, "rejected") /\ UNCHANGED world

MarkerNow == [keep |-> keep, lock |-> IF ownerLock = NoOne THEN "free" ELSE "held",
              role |-> "scratch", key |-> "unkeyed"]

(* Mutant: the settlement the candidate was found with is taken for true.  *)
OwnershipCached(c) ==
    /\ Go(c, "ownership", "lease")
    /\ claim' = [claim EXCEPT ![c] = "released"]
    /\ UNCHANGED <<world, locks, users, recorded, seen, read, want, hand, walk, keptSince>>

(* Whose it is, read afresh.                                               *)
Ownership(c) ==
    /\ Go(c, "ownership", "lease")
    /\ claim' = [claim EXCEPT ![c] = SettlementOf({MarkerNow}, {}, [kind |-> "none"])]
    /\ UNCHANGED <<world, locks, users, recorded, seen, read, want, hand, walk, keptSince>>

(* The lock file of a profile at the path now; 0 when it has vanished.     *)
AtPath(p) == IF root = 0 THEN NoFile ELSE lockFile[root][p]

Wanted(c, l) == pc[c] = "lease" /\ l \in want[c]
Done(c, l) == want' = [want EXCEPT ![c] = @ \ {l}]

(* Mutant: a lock file that is held is passed over.                        *)
LeaseHeld(c, p) ==
    /\ Wanted(c, p)
    /\ Done(c, p)
    /\ \/ AtPath(p) = NoFile /\ UNCHANGED holder
       \/ /\ AtPath(p) # NoFile
          /\ \/ holder[p][AtPath(p)] = NoOne /\ holder' = [holder EXCEPT ![p][AtPath(p)] = c]
             \/ holder[p][AtPath(p)] # NoOne /\ UNCHANGED holder
    /\ UNCHANGED <<world, ownerLock, users, pc, recorded, seen, claim, read, hand, walk, keptSince>>

(* One lock is tried after the other.  A profile's lock file may have      *)
(* vanished; the owner's may not.                                          *)
Lease(c, p) ==
    /\ Wanted(c, p)
    /\ Done(c, p)
    /\ \/ AtPath(p) = NoFile /\ UNCHANGED holder
       \/ /\ AtPath(p) # NoFile
          /\ holder[p][AtPath(p)] = NoOne
          /\ holder' = [holder EXCEPT ![p][AtPath(p)] = c]
    /\ UNCHANGED <<world, ownerLock, users, pc, recorded, seen, claim, read, hand, walk, keptSince>>

LeaseOwner(c) ==
    /\ Wanted(c, Owner)
    /\ Done(c, Owner)
    /\ ownerLock = NoOne
    /\ ownerLock' = c
    /\ UNCHANGED <<world, holder, users, pc, recorded, seen, claim, read, hand, walk, keptSince>>

(* Mutant: a lock that is held is waited for.                              *)
ContentionWaits(c, l) == FALSE /\ UNCHANGED vars

(* One that is held ends the attempt: every lock taken so far is let go.   *)
Contention(c, l) ==
    /\ Wanted(c, l)
    /\ \/ l = Owner /\ ownerLock # NoOne
       \/ /\ l \in Profiles
          /\ AtPath(l) # NoFile
          /\ holder[l][AtPath(l)] # NoOne
    /\ read' = [read EXCEPT ![c] = "held"]
    /\ want' = [want EXCEPT ![c] = {}]
    /\ Unlocked(c)
    /\ UNCHANGED <<world, users, pc, recorded, seen, claim, hand, walk, keptSince>>

Site == [shape |-> "directory", boundary |-> "same", area |-> "open",
         found |-> "inferred", excluded |-> FALSE]

RecheckOf(c) ==
    [ask |-> "recheck", granted |-> TRUE, admits |-> Mandate,
     settlement |-> claim[c], liveness |-> read[c], recorded |-> "same",
     samePath |-> TRUE, sameIdentity |-> seen[c] = recorded[c].tree]

VerifyOf(c, isFresh) ==
    [ask |-> "verify", granted |-> TRUE, admits |-> Mandate,
     settlement |-> claim[c], liveness |-> read[c], recorded |-> "same",
     samePath |-> TRUE, sameIdentity |-> seen[c] = recorded[c].tree,
     fresh |-> isFresh]

Recheck(c) ==
    /\ pc[c] = "lease"
    /\ want[c] = {}
    /\ IF Admitted(Site, RecheckOf(c))
       THEN pc' = [pc EXCEPT ![c] = "measure"] /\ UNCHANGED <<locks, users, job, keptSince>>
       ELSE Ends(c, "rejected")
    /\ UNCHANGED world

(* The contents at the path, under the locks.                              *)
IsFresh(c) ==
    /\ lockFile[root] = recorded[c].locks
    /\ object[root] = recorded[c].objects

Measure(c) ==
    /\ pc[c] = "measure"
    /\ IF root # 0 /\ Admitted(Site, VerifyOf(c, IsFresh(c)))
       THEN pc' = [pc EXCEPT ![c] = "open"] /\ UNCHANGED <<locks, users, job, keptSince>>
       ELSE Ends(c, "rejected")
    /\ UNCHANGED world

-------------------------------------------------------------------------------
(* Removal, through the handle of the tree it opened.  The first pass      *)
(* leaves the lock files it holds, the second takes them too.              *)

Fails(c) == Ends(c, "failed")

(* Mutant: whatever is at the path is opened.                              *)
OpenRootAny(c) ==
    /\ pc[c] = "open"
    /\ IF root # 0
       THEN /\ Go(c, "open", "list")
            /\ hand' = [hand EXCEPT ![c] = root]
            /\ walk' = [walk EXCEPT ![c] = [NoWalk EXCEPT !.todo = dirs[root]]]
            /\ UNCHANGED <<locks, users, recorded, seen, claim, read, want, keptSince>>
       ELSE Fails(c)
    /\ UNCHANGED world

(* The path must still name the tree that was cleared for deletion.        *)
OpenRoot(c) ==
    /\ pc[c] = "open"
    /\ IF root # 0 /\ root = seen[c]
       THEN /\ Go(c, "open", "list")
            /\ hand' = [hand EXCEPT ![c] = root]
            /\ walk' = [walk EXCEPT ![c] = [NoWalk EXCEPT !.todo = dirs[root]]]
            /\ UNCHANGED <<locks, users, recorded, seen, claim, read, want, keptSince>>
       ELSE Fails(c)
    /\ UNCHANGED world

Entries(t, p) ==
    (IF lockFile[t][p] # NoFile THEN {"lock"} ELSE {})
      \cup (IF object[t][p] # NoFile THEN {"object"} ELSE {})

(* The next directory is opened and listed.                                *)
ListDirectory(c) ==
    /\ pc[c] = "list"
    /\ \E p \in walk[c].todo :
         IF p \in dirs[hand[c]]
         THEN /\ pc' = [pc EXCEPT ![c] = "clear"]
              /\ walk' = [walk EXCEPT ![c] =
                            [walk[c] EXCEPT !.todo = @ \ {p}, !.at = p,
                                      !.left = Entries(hand[c], p), !.emptied = TRUE]]
              /\ UNCHANGED <<locks, users, recorded, seen, claim, read, want, hand, keptSince>>
         ELSE Fails(c)
    /\ UNCHANGED world

Held(c, p) == holder[p][lockFile[hand[c]][p]] = c

(* Mutant: the first pass takes the lock files too.                        *)
UnlinkAll(c) ==
    /\ pc[c] = "clear"
    /\ \E e \in walk[c].left :
         /\ walk' = [walk EXCEPT ![c].left = @ \ {e}]
         /\ IF e = "lock"
            THEN lockFile' = [lockFile EXCEPT ![hand[c]][walk[c].at] = NoFile] /\ UNCHANGED object
            ELSE object' = [object EXCEPT ![hand[c]][walk[c].at] = NoFile] /\ UNCHANGED lockFile
    /\ UNCHANGED <<root, trees, dirs, locksMade, objectsMade, locks, users, pc,
                   recorded, seen, claim, read, want, hand, keptSince>>

(* A listed entry is unlinked by its name; one that is gone is an error.   *)
Unlink(c) ==
    /\ pc[c] = "clear"
    /\ \E e \in walk[c].left :
         LET t == hand[c]
             p == walk[c].at
         IN  \/ /\ e \notin Entries(t, p)
                /\ Fails(c)
                /\ UNCHANGED <<lockFile, object>>
             \/ /\ e = "lock" /\ lockFile[t][p] # NoFile
                /\ walk[c].pass = 1 /\ Held(c, p)
                /\ walk' = [walk EXCEPT ![c] = [walk[c] EXCEPT !.left = @ \ {e}, !.emptied = FALSE]]
                /\ UNCHANGED <<lockFile, object, locks, users, pc, recorded, seen,
                               claim, read, want, hand, keptSince>>
             \/ /\ e \in Entries(t, p)
                /\ ~(e = "lock" /\ walk[c].pass = 1 /\ Held(c, p))
                /\ walk' = [walk EXCEPT ![c] = [walk[c] EXCEPT !.left = @ \ {e}]]
                /\ IF e = "lock"
                   THEN lockFile' = [lockFile EXCEPT ![t][p] = NoFile] /\ UNCHANGED object
                   ELSE object' = [object EXCEPT ![t][p] = NoFile] /\ UNCHANGED lockFile
                /\ UNCHANGED <<locks, users, pc, recorded, seen, claim, read, want,
                               hand, keptSince>>
    /\ UNCHANGED <<root, trees, dirs, locksMade, objectsMade>>

(* A directory whose entries are all gone is removed, when nothing has     *)
(* been added to it since it was listed.                                   *)
LeaveDirectory(c) ==
    LET p == walk[c].at IN
    /\ pc[c] = "clear"
    /\ walk[c].left = {}
    /\ IF walk[c].emptied /\ (p \notin dirs[hand[c]] \/ Entries(hand[c], p) # {})
       THEN Fails(c) /\ UNCHANGED dirs
       ELSE /\ pc' = [pc EXCEPT ![c] = "list"]
            /\ walk' = [walk EXCEPT ![c].at = NoOne]
            /\ dirs' = IF walk[c].emptied
                       THEN [dirs EXCEPT ![hand[c]] = @ \ {p}] ELSE dirs
            /\ UNCHANGED <<locks, users, recorded, seen, claim, read, want, hand, keptSince>>
    /\ UNCHANGED <<root, trees, lockFile, object, locksMade, objectsMade>>

EndPass(c) ==
    /\ pc[c] = "list"
    /\ walk[c].todo = {}
    /\ IF walk[c].pass = 1
       THEN /\ walk' = [walk EXCEPT ![c] = [NoWalk EXCEPT !.pass = 2, !.todo = dirs[hand[c]]]]
            /\ UNCHANGED pc
       ELSE pc' = [pc EXCEPT ![c] = "restat"] /\ UNCHANGED walk
    /\ UNCHANGED <<world, locks, users, recorded, seen, claim, read, want, hand, keptSince>>

(* The path is looked at once more before the emptied tree goes.           *)
Restat(c) ==
    /\ pc[c] = "restat"
    /\ IF root # 0 /\ root = seen[c]
       THEN pc' = [pc EXCEPT ![c] = "rmdir"] /\ UNCHANGED <<locks, users, job, keptSince>>
       ELSE Fails(c)
    /\ UNCHANGED world

(* Mutant: the outcome of the last step is not looked at.                  *)
RmdirUnchecked(c) ==
    /\ pc[c] = "rmdir"
    /\ root' = IF root # 0 /\ dirs[root] = {} THEN 0 ELSE root
    /\ Ends(c, "deleted")
    /\ UNCHANGED <<trees, dirs, lockFile, object, locksMade, objectsMade>>

(* Only a tree with nothing in it can be removed.                          *)
Rmdir(c) ==
    /\ pc[c] = "rmdir"
    /\ IF root # 0 /\ dirs[root] = {}
       THEN root' = 0 /\ Ends(c, "deleted")
       ELSE UNCHANGED root /\ Fails(c)
    /\ UNCHANGED <<trees, dirs, lockFile, object, locksMade, objectsMade>>

(* The cleaner is killed; the kernel drops its locks.                      *)
Dies(c) ==
    /\ pc[c] \notin {"idle", "deleted", "rejected", "failed"}
    /\ Ends(c, "idle")
    /\ UNCHANGED world

-------------------------------------------------------------------------------
CleanerStep(c) ==
    \/ Observe(c) \/ Survey(c) \/ Ownership(c)
    \/ \E p \in Profiles : Lease(c, p)
    \/ LeaseOwner(c)
    \/ \E l \in Profiles \cup {Owner} : Contention(c, l)
    \/ Recheck(c) \/ Measure(c) \/ OpenRoot(c)
    \/ ListDirectory(c) \/ Unlink(c) \/ LeaveDirectory(c) \/ EndPass(c)
    \/ Restat(c) \/ Rmdir(c)

Next ==
    \/ \E p \in Profiles :
         OpenLock(p) \/ StartBuild(p) \/ Build(p) \/ FinishBuild(p) \/ Work(p)
    \/ Arrive \/ Leave \/ Keep \/ MoveAway
    \/ \E c \in Cleaners : Scan(c) \/ CleanerStep(c) \/ Dies(c)

Spec == Init /\ [][Next]_vars

(* A cleaner that has a candidate is eventually scheduled.  Nobody else    *)
(* has to do anything, and a builder may keep its lock for ever.           *)
FairSpec == Spec /\ \A c \in Cleaners : WF_vars(CleanerStep(c))

-------------------------------------------------------------------------------
Removing == {c \in Cleaners : pc[c] \in {"open", "list", "clear", "restat", "rmdir"}}

(* Nobody works under a removal: while a cleaner removes a tree, the owner *)
(* is not at work, nor a builder under a lock file the scan recorded.  A   *)
(* lock file that came, went or was replaced since is caught by the        *)
(* measurement that follows the lease.                                     *)
NobodyWorksUnderRemoval ==
    \A c \in Removing :
        /\ ownerLock # Owner
        /\ \A p \in building : opened[p] # recorded[c].locks[p]

(* What a person keeps is not deleted: not when it was kept already when   *)
(* the check began, however it was found.                                  *)
KeptIsNotDeleted == \A c \in Removing : ~keptSince[c]

Lost(t) ==
    {p \in Profiles : \/ lockFile[t][p] # NoFile /\ lockFile'[t][p] = NoFile
                      \/ object[t][p] # NoFile /\ object'[t][p] = NoFile}

(* "The locks of the tools that use it are held while it is removed"       *)
(* (docs/usage.md): no profile loses a file while its builder is at work   *)
(* under the lock file that is in the tree.                                *)
LocksHeldWhileRemoved ==
    [][\A t \in Trees : \A p \in Lost(t) :
         ~(p \in building /\ opened[p] = lockFile[t][p])]_vars

(* Files are lost from the tree that was recorded and from no other, even  *)
(* when the path names another tree by then.                               *)
OnlyRecordedTree ==
    [][\A t \in Trees : Lost(t) # {} =>
         \E c \in Removing : recorded[c].tree = t]_vars

(* The lock files go last: as long as one recorded object is left, so are  *)
(* all the recorded lock files, and a removal that is cut short leaves     *)
(* what remains behind the locks its tools know.                           *)
LocksGoLast ==
    [][\A c \in Cleaners : pc[c] = "clear" =>
         LET t == recorded[c].tree IN
         \A p, q \in Profiles :
           (/\ lockFile[t][p] # NoFile /\ lockFile[t][p] = recorded[c].locks[p]
            /\ lockFile'[t][p] = NoFile)
           => (recorded[c].objects[q] = NoFile \/ object[t][q] # recorded[c].objects[q])]_vars

(* What is reported as deleted is deleted: the path no longer names the    *)
(* tree that was recorded, and none of the recorded files is left in it,   *)
(* whoever made new ones or moved it away meanwhile.                       *)
DeletedIsGone ==
    [][\A c \in Cleaners : pc[c] # "deleted" /\ pc'[c] = "deleted" =>
         LET t == recorded[c].tree IN
         /\ root' # t
         /\ \A p \in Profiles :
              /\ lockFile'[t][p] # NoFile => lockFile'[t][p] # recorded[c].locks[p]
              /\ object'[t][p] # NoFile => object'[t][p] # recorded[c].objects[p]]_vars

(* Every candidate gets its outcome, whoever holds a lock for however long:*)
(* the locks are tried and never waited for.                               *)
EveryCandidateSettled ==
    \A c \in Cleaners : pc[c] = "planned" ~> pc[c] \in {"idle", "deleted", "rejected", "failed"}
===============================================================================
