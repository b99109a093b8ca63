-------------------------------- MODULE MCFiles --------------------------------
(***************************************************************************)
(* What is done to files that stay, on small instances: sharing the blocks *)
(* of equal ones, knowing which they are, pruning what no build reads      *)
(* again, and vouching for a checkout.  The four share no state: a         *)
(* behaviour is about one topic, the variables of the others rest.         *)
(***************************************************************************)
EXTENDS Sharing, Sessions, Release, Inventory, TLC

VARIABLE topic

knowing == <<tree, locked, log, taken, queue, step, todo, batch, noting, pool, index, journal,
             world, dirty, changed, waiting, blocked, cached, open, checkpoint, reached, db,
             bounds, swapped, deferred, missed, refused>>
unread == <<session, began, objects, image, rustc, cargo, orphaned, finished,
            mode, scope, pruning, doomed, listed, target, tally, held, prunes, killed>>
vouching == <<content, away, producer, monitor, generation, covered, pending, phase, reading,
              before, recorded, free, woken, recordFile, endpointFile, strayed, told, ask,
              written, asks>>
files == <<topic, vars, knowing, unread, vouching>>

-------------------------------------------------------------------------------
SharingRests ==
    /\ method = "unsupported" /\ bytes = [i \in Inodes |-> 0] /\ stamp = [i \in Inodes |-> 0]
    /\ shares = {} /\ keeper = 1 /\ atName = [f \in Files |-> 0]
    /\ atTemporary = [f \in Files |-> 0] /\ lock = "free" /\ pc = "idle" /\ plan = {}
    /\ known = atName /\ knownKeeper = 0 /\ at = Nowhere /\ outcome = [f \in Files |-> "none"]
    /\ writes = 0 /\ faults = 0 /\ current = [f \in Files |-> NoFile]
    /\ intruded = {}

InventoryRests ==
    /\ tree = <<>> /\ locked = {} /\ log = <<>> /\ taken = 0 /\ queue = <<>> /\ step = "down"
    /\ todo = {} /\ batch = <<>> /\ noting = <<>> /\ pool = <<>> /\ index = {} /\ journal = <<>>
    /\ world = {} /\ dirty = {} /\ changed = <<>> /\ waiting = {} /\ blocked = {} /\ cached = <<>>
    /\ open = FALSE /\ checkpoint = 0 /\ reached = 0 /\ db = <<>> /\ bounds = <<>>
    /\ swapped = {} /\ deferred = {} /\ missed = {} /\ refused = {}

SessionsRest ==
    /\ session = [r \in Rustcs |-> NoSession] /\ began = [r \in Rustcs |-> 0] /\ objects = {}
    /\ image = [i \in Images |-> Absent] /\ rustc = [r \in Rustcs |-> "done"]
    /\ cargo = FALSE /\ orphaned = FALSE /\ finished = FALSE
    /\ mode = "none" /\ scope = {} /\ pruning = "none" /\ doomed = Nothing /\ listed = {}
    /\ target = NoTarget /\ tally = NoTally /\ held = 0 /\ prunes = 0 /\ killed = 0

ReleaseRests ==
    /\ content = <<>> /\ away = FALSE /\ producer = FALSE /\ monitor = "down" /\ generation = 0 /\ covered = {}
    /\ pending = 0 /\ phase = "preparing" /\ reading = <<>> /\ before = <<>> /\ recorded = <<>>
    /\ free = FALSE /\ woken = FALSE /\ recordFile = <<>> /\ endpointFile = 0
    /\ strayed = FALSE /\ told = FALSE
    /\ ask = NoAsk /\ written = 0 /\ asks = 0

(* Of two runs of the past it does not matter which came first.             *)
First == CHOOSE r \in Earlier : TRUE

(* One image that can be read, or not at all there, and one that is cut     *)
(* short, or not there.                                                     *)
SomeImages ==
    [executable : {Absent, LinkedOf({First}), LinkedOf(Earlier)},
     library : {Absent, [LinkedOf(Earlier) EXCEPT !.ended = FALSE]}]
InOrder == \A r \in Earlier : began[First] <= began[r]

FilesInit ==
    \/ topic = "sharing" /\ Init /\ InventoryRests /\ SessionsRest /\ ReleaseRests
    \/ topic = "inventory" /\ InventoryInit /\ SharingRests /\ SessionsRest /\ ReleaseRests
    \/ /\ topic = "sessions" /\ image \in SomeImages /\ SessionsInit /\ InOrder
       /\ SharingRests /\ InventoryRests /\ ReleaseRests
    \/ topic = "release" /\ ReleaseInit /\ SharingRests /\ InventoryRests /\ SessionsRest

FilesNext ==
    \/ topic = "sharing" /\ Next /\ UNCHANGED <<topic, knowing, unread, vouching>>
    \/ topic = "inventory" /\ InventoryNext /\ UNCHANGED <<topic, vars, unread, vouching>>
    \/ topic = "sessions" /\ SessionsNext /\ UNCHANGED <<topic, vars, knowing, vouching>>
    \/ topic = "release" /\ ReleaseNext /\ UNCHANGED <<topic, vars, knowing, unread>>

FilesSpec == FilesInit /\ [][FilesNext]_files

-------------------------------------------------------------------------------
(* An inode is known by where it is named, open or recorded, and its number  *)
(* means nothing else; what is recorded of a pair that is settled, what     *)
(* became of it, but that it was shared, and what a prune has counted is     *)
(* never read.                                                              *)
Ordered == Seqs!SetToSeq(Files)
SharingView ==
    LET By(f) == [i \in DOMAIN Ordered |-> f[Ordered[i]]]
        inUse == <<keeper, knownKeeper, at.keeper, at.duplicate, at.clone>>
                   \o By(atName) \o By(atTemporary)
                   \o By([f \in Files |-> IF f \in plan THEN known[f] ELSE NoInode])
        Of(values) == [i \in DOMAIN inUse |-> IF inUse[i] = NoInode THEN 0 ELSE values[inUse[i]]]
        same == [i \in DOMAIN inUse |-> CHOOSE j \in DOMAIN inUse : inUse[j] = inUse[i]]
    IN  <<method, same, {i \in DOMAIN inUse : inUse[i] = NoInode}, Of(bytes), Of(stamp),
          {i \in DOMAIN inUse : inUse[i] \in shares}, lock, pc, plan,
          at.file, at.stamp, at.offset, {f \in Files : outcome[f] = "shared"},
          writes, faults, history>>

View ==
    CASE topic = "sharing" -> <<topic, SharingView>>
      [] topic = "inventory" -> <<topic, knowing>>
      [] topic = "sessions" ->
           <<topic, session, began, objects, image, rustc, cargo, orphaned, finished,
             mode, scope, pruning, doomed, listed, target, prunes, killed>>
      [] topic = "release" -> <<topic, vouching>>

(* The duplicates may be exchanged for one another.                         *)
Symmetry == Permutations(Files)

===============================================================================
