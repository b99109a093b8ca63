------------------------------- MODULE Inventory -------------------------------
(***************************************************************************)
(* The inventory of files that `watch` shares from on macOS: the pool in   *)
(* memory (cli/dedupe.rs), its copy on the disk with the event it reaches  *)
(* to (cli/store.rs), and the turns that bring both up to date             *)
(* (cli/watch.rs) from the stream of events (platform/events_macos.rs).    *)
(* Builds write under their lock, the stream may drop events, and the      *)
(* session dies between any two steps and starts again.                    *)
(*                                                                         *)
(* A root has an identity, 0 when it is not there, and files, each a        *)
(* number that every write takes anew, 0 when it is not there.  Every file  *)
(* lies in a directory of its own, which is what an event names.            *)
(***************************************************************************)
EXTENDS Integers, Sequences, FiniteSets

Seqs == INSTANCE SequencesExt

CONSTANTS
    Roots, Names,
    Parts,       \* the files that lie in deps, incremental, build or examples of a profile
    Overflow,    \* whether the stream may drop events
    MaxFileWrites, MaxSwaps, MaxSessionDeaths, MaxMoves    \* bounds: what happens how often

(* There are as many files as are listed, and a bound is a number.          *)
ASSUME FilesAssumption ==
    IsFiniteSet(Names) /\ Parts \subseteq Names /\ MaxFileWrites \in Nat

None == -1
NoRoot == [id |-> 0, method |-> FALSE, files |-> [n \in Names |-> 0]]
NoFiles == [n \in Names |-> 0]

VARIABLES
    tree, locked,      \* the roots, and those whose lock a build holds
    log, taken,        \* the events so far, and how many the stream has delivered
    queue,             \* the channel to the session
    step, todo, batch,   \* where the session is
    noting,            \* the root whose changes are being read
    pool, index,       \* the stocks, and their files by length
    journal,           \* what has changed since the last commit
    world, dirty, changed, waiting, blocked,
    cached,            \* what was loaded and not yet restored
    open, checkpoint,  \* whether the copy is kept, and the event it reaches to
    reached,           \* the event that this turn reaches to
    db,                \* the copy on the disk
    bounds,            \* how much has happened
    swapped,           \* history: files this program has replaced itself
    deferred, missed,  \* history: changes passed over by a commit; and those nobody is told of
    refused            \* history: roots that were not admitted when they were read

outside == <<tree, locked, log>>
process == <<step, todo, batch, noting, pool, index, journal, world, dirty, changed,
             waiting, blocked, cached, open, checkpoint, reached>>
records == <<swapped, deferred, missed, refused>>
inventory == <<outside, taken, queue, process, db, bounds, records>>

Entry(r, n) == [kind |-> "entry", root |-> r, name |-> n]
Released(r) == [kind |-> "released", root |-> r]
Checkpoint(id) == [kind |-> "checkpoint", id |-> id]
Lost == [kind |-> "lost"]

EmptyJournal == [cleared |-> {}, roots |-> <<>>, files |-> <<>>]
NoCopy == [checkpoint |-> None, stocks |-> <<>>]
AllFiles == Roots \X Names

Down ==
    /\ step = "down" /\ todo = {} /\ batch = <<>>
    /\ noting = [root |-> "none", left |-> {}, read |-> NoFiles, names |-> {}]
    /\ pool = [r \in Roots |-> NoRoot] /\ index = {} /\ journal = EmptyJournal
    /\ world = {} /\ dirty = {} /\ changed = [r \in Roots |-> {}]
    /\ waiting = {} /\ blocked = {} /\ cached = <<>>
    /\ open = FALSE /\ checkpoint = None /\ reached = None

InventoryInit ==
    /\ tree = [r \in Roots |-> [id |-> 1, files |-> NoFiles]]
    /\ locked = {} /\ log = <<>> /\ taken = 0 /\ queue = <<>>
    /\ Down
    /\ db = NoCopy
    /\ bounds = [writes |-> 0, swaps |-> 0, deaths |-> 0, moves |-> 0]
    /\ swapped = {} /\ deferred = {} /\ missed = {} /\ refused = {}

-------------------------------------------------------------------------------
(* What happens outside.                                                   *)

(* A build writes files and removes them, while it holds the lock.          *)
BuildTakes(r) ==
    /\ tree[r].id # 0 /\ r \notin locked
    /\ bounds.writes < MaxFileWrites
    /\ locked' = locked \cup {r}
    /\ UNCHANGED <<tree, log, taken, queue, process, db, bounds, records>>

BuildWrites(r, n) ==
    /\ r \in locked
    /\ bounds.writes < MaxFileWrites
    /\ bounds' = [bounds EXCEPT !.writes = @ + 1]
    /\ \E id \in {0, bounds'.writes} : tree' = [tree EXCEPT ![r].files[n] = id]
    /\ log' = Append(log, <<r, n>>)
    /\ swapped' = swapped \ {<<r, n>>}
    /\ missed' = missed \ {<<r, n>>}
    /\ UNCHANGED <<locked, taken, queue, process, db, deferred, refused>>

(* The waiter that blocks on the lock gets it, and says so.                 *)
BuildLeaves(r) ==
    /\ r \in locked
    /\ locked' = locked \ {r}
    /\ UNCHANGED <<tree, log, taken, queue, process, db, bounds, records>>

WaiterReports(r) ==
    /\ r \in blocked \ locked
    /\ blocked' = blocked \ {r}
    /\ queue' = Append(queue, Released(r))
    /\ UNCHANGED <<outside, taken, step, todo, batch, noting, pool, index, journal, world,
                   dirty, changed, waiting, cached, open, checkpoint, reached, db,
                   bounds, records>>

(* While no session runs a cache is removed, or made anew.                  *)
Move(r) ==
    /\ step = "down" /\ r \notin locked
    /\ bounds.moves < MaxMoves
    /\ bounds' = [bounds EXCEPT !.moves = @ + 1]
    /\ \E id \in {0, bounds'.moves + 1} :
         tree' = [tree EXCEPT ![r] = [id |-> id, files |-> NoFiles]]
    /\ log' = log \o Seqs!SetToSeq({r} \X Names)
    /\ swapped' = swapped \ ({r} \X Names) /\ missed' = missed \ ({r} \X Names)
    /\ UNCHANGED <<locked, taken, queue, process, db, deferred, refused>>

(* The stream delivers an event, or says that it has dropped some, and then *)
(* of a file outside the parts nobody is told; after the last event of a    *)
(* callback comes the id it reaches to.                                     *)
Arrives ==
    /\ step # "down" /\ taken < Len(log)
    /\ taken' = taken + 1
    /\ \E end \in {<<>>, <<Checkpoint(taken')>>} :
         \/ /\ queue' = queue \o <<Entry(log[taken'][1], log[taken'][2])>> \o end
            /\ missed' = missed
         \/ /\ Overflow
            /\ queue' = queue \o <<Lost>> \o end
            /\ missed' = missed \cup ({log[taken']} \ (Roots \X Parts))
    /\ UNCHANGED <<outside, process, db, bounds, swapped, deferred, refused>>

-------------------------------------------------------------------------------
(* The pool and its journal.                                               *)

Filed(r, files) == {<<r, n, files[n]>> : n \in {m \in Names : files[m] # 0}}
Without(f, keys) == [k \in DOMAIN f \ keys |-> f[k]]
With(f, g) == [k \in DOMAIN f \cup DOMAIN g |-> IF k \in DOMAIN g THEN g[k] ELSE f[k]]

(* The stock of a root replaces the one it had.                             *)
Replaced(j, r, id, files) ==
    [cleared |-> j.cleared \cup {r},
     roots |-> With(j.roots, [q \in {r} |-> id]),
     files |-> With(Without(j.files, {r} \X Names),
                    [k \in {<<r, n>> : n \in {m \in Names : files[m] # 0}} |-> files[k[2]]])]

Forgotten(j, gone) ==
    [cleared |-> j.cleared \cup gone, roots |-> Without(j.roots, gone),
     files |-> Without(j.files, gone \X Names)]

(* Mutant: a file that is gone is left out of the journal.                  *)
NotedUnlessGone(j, r, names, read) ==
    [j EXCEPT !.files = With(@, [k \in {<<r, n>> : n \in {m \in names : read[m] # 0}}
                                   |-> read[k[2]]])]

(* Each of these files is as it was read, 0 if it is not there any more.    *)
Noted(j, r, names, read) ==
    [j EXCEPT !.files = With(@, [k \in {<<r, n>> : n \in names} |-> read[k[2]]])]

(* What a commit writes: what is cleared goes, then come roots and files.   *)
Written(stocks, j) ==
    LET kept == Without(stocks, j.cleared)
        based == With(kept, [r \in DOMAIN j.roots |-> [id |-> j.roots[r], files |-> NoFiles]])
    IN [r \in DOMAIN based |->
          [based[r] EXCEPT !.files = [n \in Names |->
              IF <<r, n>> \in DOMAIN j.files THEN j.files[<<r, n>>] ELSE @[n]]]]

(* A root is admitted when its lock is free; an inventory of it is taken,   *)
(* or it has no files here.                                                 *)
Stocked(r) ==
    [id |-> tree[r].id, method |-> r \notin locked,
     files |-> IF r \in locked THEN NoFiles ELSE tree[r].files]

(* Pending changes of roots that wait are not part of what is written.      *)
Deferred == {x \in AllFiles : x[2] \in changed[x[1]]}

(* The journal is taken, and written with the event that it reaches to; a   *)
(* copy that cannot be written is given up.                                 *)
Persist(j, id) ==
    /\ journal' = EmptyJournal
    /\ IF open /\ id # None
       THEN \/ /\ db' = [checkpoint |-> id, stocks |-> Written(db.stocks, j)]
               /\ deferred' = Deferred
               /\ open' = TRUE /\ checkpoint' = id
            \/ /\ db' = NoCopy /\ deferred' = {}
               /\ open' = FALSE /\ checkpoint' = None
       ELSE UNCHANGED <<db, deferred, open>> /\ checkpoint' = id

-------------------------------------------------------------------------------
(* A session.                                                              *)

(* The copy is loaded, the stream starts from the event it reaches to, and  *)
(* has delivered what happened since before anything is read.  History that *)
(* is lost takes the copy with it.                                          *)
Open ==
    /\ step = "down"
    /\ step' = "start"
    /\ open' = TRUE
    /\ LET resumed == IF db.checkpoint # None THEN db.checkpoint ELSE Len(log)
           history_ == [i \in 1..Len(log) - resumed |->
                          Entry(log[resumed + i][1], log[resumed + i][2])]
                         \o (IF resumed < Len(log) THEN <<Checkpoint(Len(log))>> ELSE <<>>)
       IN \/ /\ batch' = history_ /\ checkpoint' = resumed
             /\ db' = IF db.checkpoint = None THEN NoCopy ELSE db
             /\ cached' = db.stocks
          \/ /\ Overflow /\ resumed < Len(log)
             /\ batch' = <<>> /\ checkpoint' = Len(log)
             /\ db' = NoCopy
             /\ cached' = <<>>
    /\ taken' = Len(log)
    /\ todo' = {r \in Roots : tree[r].id # 0}
    /\ UNCHANGED <<outside, queue, noting, pool, index, journal, world, dirty, changed,
                   waiting, blocked, reached, bounds, records>>

(* A candidate whose identity is as recorded is restored; any other one is  *)
(* inventoried.  One that is not admitted has no files, and is recorded so. *)
StartRoot(r) ==
    /\ step = "start" /\ r \in todo
    /\ todo' = todo \ {r}
    /\ cached' = Without(cached, {r})
    /\ LET known == r \in DOMAIN cached /\ cached[r].id = tree[r].id
           stock == IF known /\ r \notin locked
                    THEN [id |-> tree[r].id, method |-> TRUE, files |-> cached[r].files]
                    ELSE Stocked(r) IN
       /\ pool' = [pool EXCEPT ![r] = stock]
       /\ index' = index \cup Filed(r, stock.files)
       /\ journal' = IF known /\ stock.method THEN journal
                     ELSE Replaced(journal, r, tree[r].id, stock.files)
       /\ refused' = IF r \in locked THEN refused \cup {r}
                     ELSE IF known THEN refused ELSE refused \ {r}
       /\ missed' = IF known THEN missed ELSE missed \ ({r} \X Names)
       /\ swapped' = IF known THEN swapped ELSE swapped \ ({r} \X Names)
    /\ UNCHANGED <<outside, taken, queue, step, batch, noting, world, dirty, changed, waiting,
                   blocked, open, checkpoint, reached, db, bounds, deferred>>

(* What was loaded of roots that are gone is forgotten.                     *)
StartShare ==
    /\ step = "start" /\ todo = {}
    /\ step' = "started"
    /\ journal' = Forgotten(journal, DOMAIN cached)
    /\ cached' = <<>>
    /\ world' = {r \in Roots : pool[r].id # 0}
    /\ UNCHANGED <<outside, taken, queue, todo, batch, noting, pool, index, dirty, changed,
                   waiting, blocked, open, checkpoint, reached, db, bounds, records>>

StartDone ==
    /\ step = "started"
    /\ step' = "classify"
    /\ Persist(journal, checkpoint)
    /\ UNCHANGED <<outside, taken, queue, todo, batch, noting, pool, index, world, dirty,
                   changed, waiting, blocked, cached, reached, bounds, swapped, missed, refused>>

(* A file is shared: a clone takes its place, which this program's own      *)
(* stream does not tell.                                                    *)
Share ==
    /\ step \in {"started", "shared"}
    /\ bounds.swaps < MaxSwaps
    /\ bounds' = [bounds EXCEPT !.swaps = @ + 1]
    /\ \E r \in world \ locked, n \in Names :
         /\ pool[r].method /\ pool[r].files[n] # 0
         /\ pool[r].files[n] = tree[r].files[n]
         /\ tree' = [tree EXCEPT ![r].files[n] = MaxFileWrites + bounds'.swaps]
         /\ swapped' = swapped \cup {<<r, n>>}
    /\ UNCHANGED <<locked, log, taken, queue, process, db, deferred, missed, refused>>

Receive ==
    /\ step = "receive" /\ queue # <<>>
    /\ batch' = queue /\ queue' = <<>>
    /\ step' = "classify"
    /\ UNCHANGED <<outside, taken, todo, noting, pool, index, journal, world, dirty, changed,
                   waiting, blocked, cached, open, checkpoint, reached, db, bounds, records>>

InBatch(kind) == {batch[i] : i \in {j \in DOMAIN batch : batch[j].kind = kind}}

(* Changes are noted, and roots whose lock was let go are dirty again.      *)
(* After a loss the copy is given up, and in every cache the parts of its   *)
(* profiles count as changed, each listed anew but not what is below it.    *)
Classify ==
    LET lost == InBatch("lost") # {}
        back == {s.root : s \in InBatch("released")}
        told(r) == {s.name : s \in {e \in InBatch("entry") : e.root = r}} IN
    /\ step = "classify"
    /\ step' = "settle"
    /\ changed' = [r \in Roots |-> IF r \notin world THEN {}
                                   ELSE changed[r] \cup told(r) \cup IF lost THEN Parts ELSE {}]
    /\ dirty' = dirty \cup back \cup {r \in world : lost \/ told(r) # {}}
    /\ waiting' = waiting \ back
    /\ reached' = Seqs!Max({None} \cup {s.id : s \in InBatch("checkpoint")})
    /\ todo' = dirty' \ waiting'
    /\ batch' = <<>>
    /\ IF lost
       THEN /\ db' = IF open THEN NoCopy ELSE db
            /\ open' = FALSE /\ checkpoint' = None /\ journal' = EmptyJournal
            /\ deferred' = IF open THEN {} ELSE deferred
       ELSE UNCHANGED <<db, open, checkpoint, journal, deferred>>
    /\ UNCHANGED <<outside, taken, queue, noting, pool, index, world, blocked, cached,
                   bounds, swapped, missed, refused>>

(* A dirty root whose lock is held gets a waiter; of one that is free the   *)
(* changes are read, unless it was not admitted.                            *)
Process(r) ==
    /\ step = "settle" /\ r \in todo
    /\ todo' = todo \ {r}
    /\ dirty' = dirty \ {r}
    /\ IF r \in locked
       THEN /\ waiting' = waiting \cup {r} /\ blocked' = blocked \cup {r}
            /\ UNCHANGED <<changed, noting, step>>
       ELSE /\ changed' = [changed EXCEPT ![r] = {}]
            /\ UNCHANGED <<waiting, blocked>>
            /\ IF pool[r].method
               THEN /\ noting' = [root |-> r, left |-> changed[r], read |-> NoFiles,
                                  names |-> changed[r]]
                    /\ step' = "note"
               ELSE UNCHANGED noting /\ step' = "shared"
    /\ UNCHANGED <<outside, taken, queue, batch, pool, index, journal, world, cached, open,
                   checkpoint, reached, db, bounds, records>>

ReadOne ==
    /\ step = "note"
    /\ \E n \in noting.left :
         noting' = [noting EXCEPT !.left = @ \ {n},
                                  !.read[n] = tree[noting.root].files[n]]
    /\ UNCHANGED <<outside, taken, queue, step, todo, batch, pool, index, journal, world, dirty,
                   changed, waiting, blocked, cached, open, checkpoint, reached, db,
                   bounds, records>>

Note ==
    /\ step = "note" /\ noting.left = {}
    /\ LET r == noting.root
           files == [n \in Names |-> IF n \in noting.names THEN noting.read[n]
                                     ELSE pool[r].files[n]]
           before == {<<r, n, pool[r].files[n]>> : n \in noting.names} IN
       /\ pool' = [pool EXCEPT ![r].files = files]
       /\ index' = (index \ before)
                     \cup {<<r, n, files[n]>> : n \in {m \in noting.names : files[m] # 0}}
       /\ journal' = Noted(journal, r, noting.names, noting.read)
       /\ missed' = missed \ {<<r, n>> : n \in {m \in noting.names :
                                              noting.read[m] = tree[r].files[m]}}
       /\ swapped' = swapped \ ({r} \X noting.names)
    /\ step' = "shared"
    /\ UNCHANGED <<outside, taken, queue, todo, batch, noting, world, dirty, changed, waiting,
                   blocked, cached, open, checkpoint, reached, db, bounds, deferred, refused>>

Shared ==
    /\ step = "shared"
    /\ step' = "settle"
    /\ noting' = [root |-> "none", left |-> {}, read |-> NoFiles, names |-> {}]
    /\ UNCHANGED <<outside, taken, queue, todo, batch, pool, index, journal, world, dirty,
                   changed, waiting, blocked, cached, open, checkpoint, reached, db,
                   bounds, records>>

(* Mutant: what is written is said to reach to the last event there is.     *)
FinishAtCurrent ==
    /\ step = "settle" /\ todo = {}
    /\ step' = "receive"
    /\ IF reached = None
       THEN UNCHANGED <<journal, db, deferred, open, checkpoint>>
       ELSE Persist(journal, IF open THEN Len(log) ELSE checkpoint)
    /\ reached' = None
    /\ UNCHANGED <<outside, taken, queue, todo, batch, noting, pool, index, world, dirty,
                   changed, waiting, blocked, cached, bounds, swapped, missed, refused>>

(* The end of a turn: what it has reached to is written, if it was told.    *)
FinishTurn ==
    /\ step = "settle" /\ todo = {}
    /\ step' = "receive"
    /\ IF reached = None
       THEN UNCHANGED <<journal, db, deferred, open, checkpoint>>
       ELSE Persist(journal, IF ~open THEN checkpoint
                             ELSE IF checkpoint > reached THEN checkpoint ELSE reached)
    /\ reached' = None
    /\ UNCHANGED <<outside, taken, queue, todo, batch, noting, pool, index, world, dirty,
                   changed, waiting, blocked, cached, bounds, swapped, missed, refused>>

(* The session dies: the memory is gone, the copy stays.                    *)
SessionDies ==
    /\ step # "down" /\ bounds.deaths < MaxSessionDeaths
    /\ bounds' = [bounds EXCEPT !.deaths = @ + 1]
    /\ step' = "down" /\ todo' = {} /\ batch' = <<>> /\ queue' = <<>>
    /\ noting' = [root |-> "none", left |-> {}, read |-> NoFiles, names |-> {}]
    /\ pool' = [r \in Roots |-> NoRoot] /\ index' = {} /\ journal' = EmptyJournal
    /\ world' = {} /\ dirty' = {} /\ changed' = [r \in Roots |-> {}]
    /\ waiting' = {} /\ blocked' = {} /\ cached' = <<>>
    /\ open' = FALSE /\ checkpoint' = None /\ reached' = None
    /\ missed' = missed \cup IF db.checkpoint = None THEN {} ELSE deferred
    /\ deferred' = {}
    /\ UNCHANGED <<outside, taken, db, swapped, refused>>

InventoryNext ==
    \/ \E r \in Roots : \/ BuildTakes(r) \/ BuildLeaves(r) \/ WaiterReports(r) \/ Move(r)
                        \/ StartRoot(r) \/ Process(r)
                        \/ \E n \in Names : BuildWrites(r, n)
    \/ Arrives \/ Open \/ StartShare \/ StartDone \/ Share
    \/ Receive \/ Classify \/ ReadOne \/ Note \/ Shared \/ FinishTurn
    \/ SessionDies

InventorySpec == InventoryInit /\ [][InventoryNext]_inventory

-------------------------------------------------------------------------------
(* What is written, with what the journal has still to write, is what the   *)
(* session has in memory: a session that is restarted begins with the       *)
(* inventory the one before it had, however the two came to be.             *)
JournalRecovers ==
    open /\ step \notin {"down", "start"} =>
      LET copy == Written(db.stocks, journal) IN
      /\ DOMAIN copy = world \cup {r \in Roots : pool[r].id # 0}
      /\ \A r \in DOMAIN copy :
           copy[r] = [id |-> pool[r].id, files |-> pool[r].files]
      /\ index = UNION {Filed(r, pool[r].files) : r \in Roots}

AtRest ==
    /\ step = "receive" /\ queue = <<>> /\ taken = Len(log)
    /\ dirty = {} /\ waiting = {}

(* When every event has been delivered and nothing is dirty or waited for,  *)
(* the inventory is what lies on the disk, whatever was written, dropped    *)
(* or interrupted before; but for files that this program has replaced,     *)
(* roots whose lock was held when they were first read, changes that were   *)
(* waited for at the last commit before a death, and files outside the      *)
(* parts of a profile whose event the stream has dropped.                   *)
InventoryIsCurrent ==
    AtRest =>
      \A r \in world \ refused : \A n \in Names :
        <<r, n>> \notin swapped \cup missed => pool[r].files[n] = tree[r].files[n]

(* "After a restart it replays intervening events and inventories only new  *)
(* or replaced candidates" (docs/usage.md): at rest a candidate that was    *)
(* admitted is known as it is, but for what this program has replaced.      *)
RestartReplays ==
    AtRest =>
      \A r \in world \ refused : \A n \in Names :
        <<r, n>> \notin swapped => pool[r].files[n] = tree[r].files[n]

(* The session goes on while it runs, the stream delivers what it has, a    *)
(* build lets go of its lock at some time, and then the waiter has it.      *)
SessionSteps ==
    \/ \E r \in Roots : StartRoot(r) \/ Process(r)
    \/ StartShare \/ StartDone \/ Receive \/ Classify \/ ReadOne \/ Note \/ Shared \/ FinishTurn

FairInventory ==
    /\ InventorySpec
    /\ WF_inventory(SessionSteps) /\ WF_inventory(Arrives)
    /\ \A r \in Roots : WF_inventory(BuildLeaves(r)) /\ WF_inventory(WaiterReports(r))

(* "A write inside a cache updates that cache's changed files, waits for    *)
(* its writer to release its lock, then prunes and shares only the affected *)
(* work" (docs/usage.md): a file that a running session was told of is      *)
(* known as it lies on the disk at some later time, unless the session is   *)
(* over before, or a build takes the lock of the cache.                     *)
EveryCacheTakesPart ==
    \A r \in Roots, n \in Names :
      n \in changed[r] ~>
        (step = "down" \/ r \in locked \/ pool[r].files[n] = tree[r].files[n])
===============================================================================
