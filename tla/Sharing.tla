-------------------------------- MODULE Sharing --------------------------------
(***************************************************************************)
(* How files that were found equal to a kept one come to share its blocks: *)
(* a sweep plans the pairs, leases the lock of the build that owns them,    *)
(* and shares one file after the other, by a clone that is swapped with     *)
(* the file (APFS) or by ranges the kernel compares (btrfs, XFS).  Between  *)
(* any two steps the build tool works when it has the lock, somebody who    *)
(* knows of no lock puts another file at a name, the kept file is written,  *)
(* any call of the sweep fails, and the sweep dies; a death and some of the *)
(* failures leave its temporary file behind.                                *)
(*                                                                         *)
(* A file is an inode with its bytes and its stamp (mode and times), each   *)
(* a number that every write takes anew; 0 is no inode.  Beside every name  *)
(* there is its temporary name.  `current` is what users have made of each  *)
(* name, which the program does not know.                                   *)
(***************************************************************************)
EXTENDS Gates, Integers, FiniteSets

CONSTANTS
    Files,       \* names of the duplicates in one build output
    MaxInodes,   \* how many inodes there can be at once
    MaxEvents,   \* how often users write
    MaxFaults,   \* how often a sweep is killed or leaves a temporary file
    Chunks       \* how many ranges a file has

Inodes == 1..MaxInodes
NoInode == 0
Contents == 0..MaxEvents
NoFile == [bytes |-> -1, stamp |-> -1]

ASSUME SharingAssumption ==
    /\ {MaxInodes, MaxEvents, MaxFaults, Chunks} \subseteq Nat \ {0}
    /\ NoInode \notin Files
    /\ Cardinality(Files) + 1 \in Inodes    \* there is room for every file and the kept one

VARIABLES
    method,      \* how the filesystem of the output shares
    bytes, stamp,
    shares,      \* the inodes whose blocks are those of the kept file
    keeper,      \* the inode of the kept file
    atName, atTemporary,
    lock,        \* who holds the lock of the build output
    pc,          \* where the sweep is
    plan,        \* the pairs it has still to settle
    known,       \* the inodes its inventory recorded at the names
    knownKeeper, \* and that of the kept file
    at,          \* the file it is sharing, and the handles it has open on it
    outcome,     \* what became of each pair
    writes, faults,
    current,     \* history: what users have made of each name
    intruded     \* history: names replaced while the sweep had the lock

disk == <<bytes, stamp, shares, keeper, atName, atTemporary>>
sweep == <<pc, plan, known, knownKeeper, at, outcome>>
history == <<current, intruded>>
vars == <<method, disk, lock, sweep, writes, faults, history>>

Methods == {"clone-and-swap", "dedupe-range", "unsupported"}
Outcomes == {"none", "shared", "withheld", "overtaken", "failed"}
Steps == {"idle", "planned", "open", "clone", "leftover", "reclone", "prepare",
          "swap", "inspect", "compare", "restore", "restored", "unlink", "dedupe"}

(* Nothing is open: no file, no handle, no recorded stamp.                  *)
Nowhere == [file |-> NoInode, keeper |-> NoInode, duplicate |-> NoInode,
            stamp |-> 0, clone |-> NoInode, offset |-> 0]

Numbers == 0..MaxInodes
TypeOK ==
    /\ method \in Methods
    /\ bytes \in [Inodes -> Contents] /\ stamp \in [Inodes -> Contents]
    /\ shares \subseteq Inodes /\ keeper \in Inodes
    /\ atName \in [Files -> Numbers] /\ atTemporary \in [Files -> Numbers]
    /\ lock \in {"free", "tool", "sweep"}
    /\ pc \in Steps
    /\ plan \subseteq Files /\ known \in [Files -> Numbers]
    /\ knownKeeper \in Numbers
    /\ at \in [file : Files \cup {NoInode}, keeper : Numbers, duplicate : Numbers,
               stamp : Contents, clone : Numbers, offset : 0..Chunks]
    /\ outcome \in [Files -> Outcomes]
    /\ writes \in 0..MaxEvents /\ faults \in 0..MaxFaults
    /\ current \in [Files -> [bytes : Contents, stamp : Contents] \cup {NoFile}]
    /\ intruded \subseteq Files

(* The files are equal to begin with, each an inode of its own.            *)
Init ==
    /\ method \in Methods
    /\ bytes = [i \in Inodes |-> 0] /\ stamp = [i \in Inodes |-> 0]
    /\ shares = {}
    /\ keeper = 1
    /\ atName \in {n \in [Files -> 2..Cardinality(Files) + 1] :
                     \A f, g \in Files : f # g => n[f] # n[g]}
    /\ atTemporary = [f \in Files |-> NoInode]
    /\ lock = "free"
    /\ pc = "idle" /\ plan = {} /\ known = [f \in Files |-> NoInode]
    /\ knownKeeper = NoInode /\ at = Nowhere
    /\ outcome = [f \in Files |-> "none"]
    /\ writes = 0 /\ faults = 0
    /\ current = [f \in Files |-> [bytes |-> 0, stamp |-> 0]]
    /\ intruded = {}

-------------------------------------------------------------------------------
(* What users do.                                                          *)

Linked == {keeper} \cup {atName[f] : f \in Files} \cup {atTemporary[f] : f \in Files}
Unused == Inodes \ (Linked \cup {at.keeper, at.duplicate, at.clone, knownKeeper}
                      \cup {known[f] : f \in Files})
Fresh == CHOOSE i \in Unused : TRUE

(* A write makes bytes that are new or those the kept file has.            *)
Write(i) ==
    /\ writes < MaxEvents
    /\ writes' = writes + 1
    /\ \E b \in {writes', bytes[keeper]} : bytes' = [bytes EXCEPT ![i] = b]
    /\ stamp' = [stamp EXCEPT ![i] = writes']
    /\ shares' = IF i = keeper THEN {} ELSE shares \ {i}

Made(f, i) == current' = [current EXCEPT ![f] = [bytes |-> bytes'[i], stamp |-> writes']]

(* A new file is written elsewhere and renamed over the name.              *)
Replace(f) ==
    /\ Unused # {}
    /\ Write(Fresh)
    /\ atName' = [atName EXCEPT ![f] = Fresh]
    /\ Made(f, Fresh)
    /\ UNCHANGED <<keeper, atTemporary>>

ToolTakes ==
    /\ lock = "free"
    /\ lock' = "tool"
    /\ UNCHANGED <<method, disk, sweep, writes, faults, history>>

(* Under its lock the tool writes in place, replaces a file or removes it. *)
ToolWrites ==
    /\ lock = "tool"
    /\ \E f \in Files :
         \/ /\ atName[f] # NoInode
            /\ Write(atName[f]) /\ Made(f, atName[f])
            /\ UNCHANGED <<keeper, atName, atTemporary>>
         \/ Replace(f)
         \/ /\ atName[f] # NoInode
            /\ atName' = [atName EXCEPT ![f] = NoInode]
            /\ current' = [current EXCEPT ![f] = NoFile]
            /\ UNCHANGED <<bytes, stamp, shares, keeper, atTemporary, writes>>
    /\ UNCHANGED <<method, lock, sweep, faults, intruded>>

ToolLeaves ==
    /\ lock = "tool"
    /\ lock' = "free"
    /\ UNCHANGED <<method, disk, sweep, writes, faults, history>>

(* Somebody who knows of no lock puts another file at a name.              *)
Intrude ==
    /\ \E f \in Files :
         /\ Replace(f)
         /\ intruded' = IF lock = "sweep" THEN intruded \cup {f} ELSE intruded
    /\ UNCHANGED <<method, lock, sweep, faults>>

(* The kept file lies in another output, whose lock nobody has leased.     *)
KeeperWritten ==
    /\ \/ Write(keeper) /\ UNCHANGED keeper
       \/ Unused # {} /\ Write(Fresh) /\ keeper' = Fresh
    /\ UNCHANGED <<method, atName, atTemporary, lock, sweep, faults, history>>

-------------------------------------------------------------------------------
(* The sweep: plan, hold, and one outcome for each pair.                    *)

Output == [shape |-> "directory", boundary |-> "same", area |-> "open",
           found |-> "inferred", excluded |-> FALSE]
ShareAsk ==
    [ask |-> "share", liveness |-> IF lock = "tool" THEN "held" ELSE "free",
     shares |-> method # "unsupported", locks |-> TRUE,
     recorded |-> "same", samePath |-> TRUE, sameIdentity |-> TRUE]

(* Pairs of files whose bytes are confirmed equal to those of the keeper,   *)
(* in an output that is admitted with its lock probed.  A clone that still  *)
(* has the keeper's blocks is known to have them; ranges are asked again.   *)
Plan ==
    /\ pc = "idle"
    /\ Admitted(Output, ShareAsk)
    /\ plan' = {f \in Files : /\ atName[f] # NoInode
                              /\ method = "clone-and-swap" => atName[f] \notin shares
                              /\ bytes[atName[f]] = bytes[keeper]}
    /\ plan' # {}
    /\ pc' = "planned"
    /\ known' = atName /\ knownKeeper' = keeper
    /\ outcome' = [f \in Files |-> "none"]
    /\ UNCHANGED <<method, disk, lock, at, writes, faults, history>>

(* The sweep comes to rest, and the lease of its last output is dropped.    *)
Rest(results) ==
    /\ pc' = "idle" /\ plan' = {} /\ at' = Nowhere
    /\ known' = [f \in Files |-> NoInode] /\ knownKeeper' = NoInode
    /\ lock' = IF lock = "sweep" THEN "free" ELSE lock
    /\ outcome' = results

(* The lock is leased for the first pair of an output and kept for those    *)
(* that follow; what was refused once is refused to all of them.            *)
Hold ==
    /\ pc = "planned" /\ plan # {}
    /\ lock # "sweep"
    /\ IF Admitted(Output, ShareAsk)
       THEN lock' = "sweep" /\ UNCHANGED sweep
       ELSE Rest([f \in Files |-> IF f \in plan THEN "withheld" ELSE outcome[f]])
    /\ UNCHANGED <<method, disk, writes, faults, history>>

Finish ==
    /\ pc = "planned" /\ plan = {}
    /\ Rest(outcome)
    /\ UNCHANGED <<method, disk, writes, faults, history>>

(* A pair has its outcome, and its handles are closed.  Any call that opens, *)
(* reads, clones, exchanges or unlinks may fail; one that fails once the    *)
(* clone is made may leave a temporary file behind.                         *)
Concluded(result) ==
    /\ pc' = "planned"
    /\ outcome' = [outcome EXCEPT ![at.file] = result]
    /\ plan' = plan \ {at.file}
    /\ at' = Nowhere
    /\ UNCHANGED <<method, lock, known, knownKeeper, writes, history>>

Settle(result) == Concluded(result) /\ UNCHANGED faults
Strand(result) == Concluded(result) /\ faults < MaxFaults /\ faults' = faults + 1

Go(from, to) ==
    /\ pc = from /\ pc' = to
    /\ UNCHANGED <<method, lock, plan, known, knownKeeper, outcome, writes, faults, history>>

(* The keeper and the duplicate are opened and must be those recorded; what *)
(* cannot be opened counts as replaced.                                     *)
OpenPair ==
    /\ lock = "sweep"
    /\ \E f \in plan :
         \/ /\ keeper = knownKeeper /\ atName[f] = known[f]
            /\ Go("planned", IF method = "dedupe-range" THEN "dedupe" ELSE "clone")
            /\ at' = [Nowhere EXCEPT !.file = f, !.keeper = keeper,
                         !.duplicate = atName[f], !.stamp = stamp[atName[f]]]
         \/ /\ pc = "planned" /\ UNCHANGED <<method, lock, pc, known, knownKeeper, at,
                                             writes, faults, history>>
            /\ plan' = plan \ {f}
            /\ \E result \in {"overtaken", "failed"} :
                 outcome' = [outcome EXCEPT ![f] = result]
    /\ UNCHANGED disk

Here == at.file

(* A call fails where it leaves nothing new behind.                         *)
Fails(from) == pc = from /\ Settle("failed") /\ UNCHANGED disk

(* The clone has the bytes the kept file has now, and a stamp of its own;   *)
(* when it cannot be opened after it was made it is left where it is.       *)
CloneTo(from) ==
    /\ pc = from
    /\ atTemporary[Here] = NoInode
    /\ Unused # {}
    /\ atTemporary' = [atTemporary EXCEPT ![Here] = Fresh]
    /\ bytes' = [bytes EXCEPT ![Fresh] = bytes[at.keeper]]
    /\ stamp' = [stamp EXCEPT ![Fresh] = 0]
    /\ shares' = IF at.keeper = keeper THEN shares \cup {Fresh} ELSE shares \ {Fresh}
    /\ UNCHANGED <<keeper, atName>>
    /\ \/ Go(from, "prepare") /\ at' = [at EXCEPT !.clone = Fresh]
       \/ Strand("failed")

Clone ==
    \/ CloneTo("clone")
    \/ /\ Go("clone", "leftover")
       /\ atTemporary[Here] # NoInode
       /\ UNCHANGED <<disk, at>>
    \/ Fails("clone")

(* Mutant: whatever lies at the temporary name is taken for a leftover.     *)
ReclaimAny ==
    /\ pc = "leftover"
    /\ Go("leftover", "reclone")
    /\ atTemporary' = [atTemporary EXCEPT ![Here] = NoInode]
    /\ UNCHANGED <<bytes, stamp, shares, keeper, atName, at>>

(* A leftover is removed when its bytes are those of the duplicate.         *)
Reclaim ==
    \/ /\ Go("leftover", "reclone")
       /\ bytes[atTemporary[Here]] = bytes[at.duplicate]
       /\ atTemporary' = [atTemporary EXCEPT ![Here] = NoInode]
       /\ UNCHANGED <<bytes, stamp, shares, keeper, atName, at>>
    \/ Fails("leftover")

CloneAgain == CloneTo("reclone") \/ Fails("reclone")

(* The temporary name is unlinked when it still names the clone; that this  *)
(* may fail is ignored.                                                    *)
Discarded(result) ==
    /\ \/ /\ Settle(result)
          /\ atTemporary' = IF atTemporary[Here] = at.clone
                            THEN [atTemporary EXCEPT ![Here] = NoInode] ELSE atTemporary
       \/ Strand(result) /\ UNCHANGED atTemporary
    /\ UNCHANGED <<bytes, stamp, shares, keeper, atName>>

(* Mutant: the times of the duplicate are not carried over.                 *)
PrepareUncarried ==
    /\ pc = "prepare"
    /\ bytes[at.clone] = bytes[at.duplicate]
    /\ Go("prepare", "swap")
    /\ UNCHANGED <<disk, at>>

(* The clone is compared and takes over mode and times; what cannot be      *)
(* carried over ends the attempt.                                           *)
Prepare ==
    /\ pc = "prepare"
    /\ \/ /\ bytes[at.clone] = bytes[at.duplicate]
          /\ Go("prepare", "swap")
          /\ stamp' = [stamp EXCEPT ![at.clone] = at.stamp]
          /\ UNCHANGED <<bytes, shares, keeper, atName, atTemporary, at>>
       \/ Discarded("failed")
       \/ bytes[at.clone] # bytes[at.duplicate] /\ Discarded("overtaken")

Exchanged ==
    /\ atName[Here] # NoInode /\ atTemporary[Here] # NoInode
    /\ atName' = [atName EXCEPT ![Here] = atTemporary[Here]]
    /\ atTemporary' = [atTemporary EXCEPT ![Here] = atName[Here]]
    /\ UNCHANGED <<bytes, stamp, shares, keeper>>

(* The two names are exchanged in one step, or not at all.                  *)
Swap ==
    \/ Go("swap", "inspect") /\ Exchanged /\ UNCHANGED at
    \/ pc = "swap" /\ Discarded("failed")

(* Both names and the original's stamp are looked at, then the bytes; what  *)
(* cannot be looked at is taken for changed.                                *)
Inspect ==
    /\ UNCHANGED <<disk, at>>
    /\ \/ /\ Go("inspect", "compare")
          /\ atName[Here] = at.clone
          /\ atTemporary[Here] = at.duplicate
          /\ stamp[at.duplicate] = at.stamp
       \/ Go("inspect", "restore")

Compare ==
    /\ UNCHANGED <<disk, at>>
    /\ \/ Go("compare", "unlink") /\ bytes[at.clone] = bytes[at.duplicate]
       \/ Go("compare", "restore")

(* The way back: the names are exchanged again.                             *)
Restore ==
    \/ Go("restore", "restored") /\ Exchanged /\ UNCHANGED at
    \/ pc = "restore" /\ Strand("failed") /\ UNCHANGED disk

Restored ==
    /\ pc = "restored"
    /\ \/ /\ atName[Here] = at.duplicate
          /\ \E result \in {"overtaken", "failed"} : Discarded(result)
       \/ atName[Here] # at.duplicate /\ Settle("failed") /\ UNCHANGED disk
       \/ Strand("failed") /\ UNCHANGED disk

(* The original goes when the temporary name still names it.                *)
Unlink ==
    /\ pc = "unlink"
    /\ \/ /\ atTemporary[Here] = at.duplicate
          /\ atTemporary' = [atTemporary EXCEPT ![Here] = NoInode]
          /\ Settle("shared")
          /\ UNCHANGED <<bytes, stamp, shares, keeper, atName>>
       \/ atTemporary[Here] # at.duplicate /\ Settle("failed") /\ UNCHANGED disk
       \/ Strand("failed") /\ UNCHANGED disk

(* The kernel compares a range and shares as much of it as it can; nothing  *)
(* shared is an error, and bytes that differ end the attempt.               *)
DedupeRange ==
    /\ pc = "dedupe"
    /\ IF bytes[at.keeper] # bytes[at.duplicate]
       THEN Settle("overtaken") /\ UNCHANGED disk
       ELSE \/ /\ at.offset + 1 < Chunks
               /\ at' = [at EXCEPT !.offset = @ + 1]
               /\ UNCHANGED <<method, disk, lock, pc, plan, known, knownKeeper, outcome,
                              writes, faults, history>>
            \/ /\ at.offset + 1 = Chunks
               /\ Settle("shared")
               /\ shares' = IF at.keeper = keeper THEN shares \cup {at.duplicate} ELSE shares
               /\ UNCHANGED <<bytes, stamp, keeper, atName, atTemporary>>
            \/ Fails("dedupe")

(* The sweep is killed; the kernel drops its lock and closes its files.     *)
Dies ==
    /\ pc # "idle" /\ faults < MaxFaults
    /\ faults' = faults + 1
    /\ Rest(outcome)
    /\ UNCHANGED <<method, disk, writes, history>>

-------------------------------------------------------------------------------
SweepStep ==
    \/ Plan \/ Hold \/ Finish \/ OpenPair
    \/ Clone \/ Reclaim \/ CloneAgain \/ Prepare \/ Swap
    \/ Inspect \/ Compare \/ Restore \/ Restored \/ Unlink
    \/ DedupeRange

Next ==
    \/ ToolTakes \/ ToolWrites \/ ToolLeaves \/ Intrude \/ KeeperWritten
    \/ SweepStep \/ Dies

Spec == Init /\ [][Next]_vars

-------------------------------------------------------------------------------
FileAt(i) == IF i = NoInode THEN NoFile ELSE [bytes |-> bytes[i], stamp |-> stamp[i]]

(* "Sharing never changes a file's bytes, mode, or modification time"       *)
(* (docs/usage.md): whatever step the sweep is at, dies at or returns from, *)
(* a name shows what its users have made of it.                             *)
NamesShowCurrent == \A g \in Files : FileAt(atName[g]) = current[g]

(* The same of every name that nobody replaced behind the lease.            *)
LeasedNamesShowCurrent ==
    \A g \in Files \ intruded : FileAt(atName[g]) = current[g]

(* The bytes users have given a name are not lost even when they replaced   *)
(* it behind the lease, whatever call fails: they are at the name or at the *)
(* temporary name beside it, which no later sweep takes for a leftover of   *)
(* its own; and where a file is reported as shared nothing is left beside   *)
(* it, whatever an earlier sweep that failed or was killed had left there.  *)
CurrentIsKept ==
    \A g \in Files :
        /\ current[g].bytes \in
             {NoFile.bytes, FileAt(atName[g]).bytes, FileAt(atTemporary[g]).bytes}
        /\ outcome[g] = "shared" => atTemporary[g] = NoInode
===============================================================================
