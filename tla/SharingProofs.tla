----------------------------- MODULE SharingProofs -----------------------------
(***************************************************************************)
(* Sharing loses nothing, for any number of duplicates and of ranges, and  *)
(* however often users write and sweeps are killed.                        *)
(***************************************************************************)
EXTENDS Sharing, TLAPS

(* No inode is at two names, temporary ones and the kept file's included.  *)
Apart ==
    /\ \A f, g \in Files :
         /\ atName[f] # NoInode => atName[f] # atTemporary[g]
         /\ atName[f] # NoInode /\ atName[f] = atName[g] => f = g
         /\ atTemporary[f] # NoInode /\ atTemporary[f] = atTemporary[g] => f = g
    /\ \A f \in Files : atName[f] # keeper /\ atTemporary[f] # keeper

(* What is open is open: the sweep has the lock, the duplicate is a file    *)
(* whose times were recorded and which nobody writes any more.             *)
InPair == pc \notin {"idle", "planned"}
Opened ==
    /\ \A f \in plan : known[f] # NoInode
    /\ ~InPair => at = Nowhere
    /\ InPair => /\ lock = "sweep" /\ Here \in Files
               /\ at.duplicate \in Inodes /\ at.keeper \in Inodes
               /\ at.duplicate # keeper
               /\ stamp[at.duplicate] = at.stamp

(* The clone is a file of its own, at the temporary name until the swap,    *)
(* and equals the duplicate from then on.                                  *)
HasClone == pc \in {"prepare", "swap", "inspect", "compare", "restore", "restored", "unlink"}
Cloned ==
    /\ HasClone => at.clone \in Inodes /\ at.clone \notin {at.duplicate, keeper}
    /\ pc \in {"prepare", "swap"} => atTemporary[Here] = at.clone
    /\ HasClone /\ pc # "prepare" =>
         bytes[at.clone] = bytes[at.duplicate] /\ stamp[at.clone] = at.stamp

(* Where the names stand unless somebody replaced them behind the lease.   *)
Undisturbed ==
    Here \notin intruded =>
      /\ pc \in {"clone", "leftover", "reclone", "prepare", "swap", "dedupe"} =>
           atName[Here] = at.duplicate
      /\ pc \in {"inspect", "compare", "restore", "unlink"} =>
           atName[Here] = at.clone /\ atTemporary[Here] = at.duplicate
      /\ pc = "restored" => atName[Here] = at.duplicate /\ atTemporary[Here] = at.clone

(* A temporary file is there only beside a file that is not shared, and only *)
(* where clones are made.                                                  *)
LeftBehind ==
    /\ \A g \in Files : outcome[g] = "shared" => atTemporary[g] = NoInode
    /\ \A f \in plan : outcome[f] = "none"
    /\ InPair => Here \in plan
    /\ method = "dedupe-range" => \A g \in Files : atTemporary[g] = NoInode
    /\ InPair => (pc = "dedupe" <=> method = "dedupe-range")
    /\ pc = "leftover" => atTemporary[Here] # NoInode

(* The name has the bytes its users have given it, or the temporary name.  *)
Shows(g) == current[g].bytes \in {-1, FileAt(atName[g]).bytes}
Hides(g) == current[g].bytes \in {-1, FileAt(atTemporary[g]).bytes}

(* While a name does not show them, they are at the temporary name, and     *)
(* nothing is about to remove that.                                        *)
Kept ==
    /\ \A g \in Files : Shows(g) \/ Hides(g)
    /\ pc \in {"clone", "leftover", "reclone", "dedupe"} =>
         atName[Here] = at.duplicate \/ Shows(Here)
    /\ pc \in {"prepare", "swap"} => Shows(Here)
    /\ pc \in {"inspect", "compare", "restore", "unlink"} =>
         /\ atTemporary[Here] = at.duplicate => Shows(Here)
         /\ atName[Here] = at.clone => Hides(Here)
    /\ pc = "restored" /\ atTemporary[Here] = at.clone => Shows(Here)

IInv == TypeOK /\ Apart /\ Opened /\ Cloned /\ Undisturbed /\ LeftBehind /\ Kept
        /\ LeasedNamesShowCurrent

-------------------------------------------------------------------------------
(* What the constants give.                                                *)
LEMMA Bounds ==
    /\ MaxInodes \in Nat /\ MaxEvents \in Nat /\ MaxFaults \in Nat /\ Chunks \in Nat
    /\ MaxInodes >= 1 /\ MaxEvents >= 1 /\ Chunks >= 1
    /\ Inodes \subseteq Numbers /\ NoInode \notin Inodes /\ NoInode \notin Files
    /\ NoInode \in Numbers /\ 0 \in Contents
  BY SharingAssumption DEF Inodes, Numbers, NoInode, Contents

(* An inode that is taken for a new file is nowhere yet.                   *)
LEMMA FreshIsNew ==
    ASSUME Unused # {}
    PROVE  /\ Fresh \in Inodes /\ Fresh # keeper
           /\ \A f \in Files : Fresh # atName[f] /\ Fresh # atTemporary[f]
           /\ Fresh \notin {at.keeper, at.duplicate, at.clone}
  BY DEF Fresh, Unused, Linked

(* A write changes one inode, and what it makes is new or what was there.  *)
LEMMA Written ==
    ASSUME TypeOK, NEW i \in Inodes, Write(i)
    PROVE  /\ bytes' \in [Inodes -> Contents] /\ stamp' \in [Inodes -> Contents]
           /\ shares' \subseteq Inodes /\ writes' \in 0..MaxEvents
           /\ stamp'[i] = writes' /\ writes' \in Contents
           /\ \A j \in Inodes : j # i => bytes'[j] = bytes[j] /\ stamp'[j] = stamp[j]
<1>1. writes' \in 0..MaxEvents /\ writes' \in Contents
  BY Bounds DEF TypeOK, Write, Contents
<1>2. bytes[keeper] \in Contents
  BY DEF TypeOK
<1> QED
  BY <1>1, <1>2 DEF TypeOK, Write

(* It holds to begin with.                                                 *)
LEMMA InitInv == Init => IInv
<1> SUFFICES ASSUME Init PROVE IInv
  OBVIOUS
<1> USE Bounds
<1>1. TypeOK
  <2>1. Cardinality(Files) + 1 \in Nat /\ Cardinality(Files) + 1 <= MaxInodes
    BY SharingAssumption DEF Inodes
  <2>2. atName \in [Files -> Inodes] /\ \A f \in Files : atName[f] # keeper
    BY <2>1 DEF Init, Inodes
  <2>3. /\ Nowhere \in [file : Files \cup {NoInode}, keeper : Numbers, duplicate : Numbers,
                         stamp : Contents, clone : Numbers, offset : 0..Chunks]
        /\ keeper \in Inodes
    BY DEF Nowhere, Init, Inodes
  <2>4. atName \in [Files -> Numbers]
    BY <2>2
  <2> QED BY <2>3, <2>4 DEF Init, TypeOK, Steps, Outcomes
<1>2. Apart /\ Opened /\ Cloned
  BY <1>1 DEF Init, Apart, Opened, Cloned, InPair, HasClone, Inodes, NoInode
<1>3. Undisturbed /\ LeftBehind
  BY DEF Init, Undisturbed, LeftBehind, InPair
<1>4. Kept /\ LeasedNamesShowCurrent
  <2>1. \A f \in Files : atName[f] # NoInode /\ atName[f] \in Inodes
    BY SharingAssumption DEF Init, Inodes, NoInode
  <2>2. \A f \in Files : FileAt(atName[f]) = current[f] /\ Shows(f)
    BY <2>1 DEF Init, FileAt, Shows
  <2> QED BY <2>2 DEF Init, Kept, LeasedNamesShowCurrent
<1> QED
  BY <1>1, <1>2, <1>3, <1>4 DEF IInv

-------------------------------------------------------------------------------
(* Nothing but a plan is there when nothing is open.                       *)
LEMMA NowhereTypes ==
    /\ Nowhere \in [file : Files \cup {NoInode}, keeper : Numbers, duplicate : Numbers,
                    stamp : Contents, clone : Numbers, offset : 0..Chunks]
    /\ Nowhere.file = NoInode
  BY Bounds DEF Nowhere

(* The sweep closes what it has open, and removes at most a temporary file  *)
(* whose name shows what it must: nothing is lost.                         *)
LEMMA ClosesWell ==
    ASSUME IInv, TypeOK', pc' \in {"idle", "planned"}, at' = Nowhere,
           UNCHANGED <<method, bytes, stamp, keeper, atName, current, intruded>>,
           \A f \in plan' : known'[f] # NoInode /\ outcome'[f] = "none",
           \/ UNCHANGED atTemporary
           \/ InPair /\ Shows(Here) /\ atTemporary' = [atTemporary EXCEPT ![Here] = NoInode],
           \A g \in Files : outcome'[g] = "shared" => atTemporary'[g] = NoInode
    PROVE  IInv'
<1> USE Bounds
<1>1. \A g \in Files : FileAt(atName[g])' = FileAt(atName[g]) /\ Shows(g)' = Shows(g)
  BY DEF FileAt, Shows
<1>2. \A g \in Files : atTemporary'[g] \in {atTemporary[g], NoInode}
  BY DEF IInv, TypeOK
<1>3. \A g \in Files : \/ atTemporary'[g] = atTemporary[g]
                       \/ InPair /\ g = Here /\ Shows(g)
  BY DEF IInv, TypeOK
<1>4. Apart'
  <2>1. keeper # NoInode
    BY DEF IInv, TypeOK
  <2> QED BY <1>2, <2>1 DEF IInv, Apart
<1>5. Opened' /\ Cloned' /\ Undisturbed'
  <2>1. at'.file = NoInode /\ ~InPair'
    BY NowhereTypes DEF InPair
  <2> QED BY <2>1 DEF Opened, Cloned, Undisturbed, InPair, HasClone
<1>6. LeftBehind'
  BY <1>2 DEF IInv, LeftBehind, InPair
<1>7. Kept'
  <2>1. ASSUME NEW g \in Files
        PROVE  (Shows(g) \/ Hides(g))'
    <3>1. CASE atTemporary'[g] = atTemporary[g]
      BY <1>1, <3>1 DEF IInv, Kept, FileAt, Hides
    <3>2. CASE Shows(g)
      BY <1>1, <3>2
    <3> QED BY <1>3, <3>1, <3>2
  <2> QED BY <2>1 DEF Kept
<1>8. LeasedNamesShowCurrent'
  BY <1>1 DEF IInv, LeasedNamesShowCurrent
<1> QED
  BY <1>4, <1>5, <1>6, <1>7, <1>8 DEF IInv

-------------------------------------------------------------------------------
(* A write of one inode that is not open, which is where it shows itself:   *)
(* at the kept file, at a new name or at one that the tool has.            *)
LEMMA WritesWell ==
    ASSUME IInv, TypeOK', Apart', NEW i \in Inodes, Write(i),
           InPair => i # at.duplicate /\ at.duplicate # keeper',
           HasClone => i # at.clone /\ at.clone # keeper',
           \A g \in Files : atTemporary[g] # i,
           UNCHANGED <<method, atTemporary, lock, sweep>>,
           intruded \subseteq intruded',
           \A g \in Files :
             \/ atName'[g] = atName[g] /\ atName[g] # i /\ current'[g] = current[g]
             \/ /\ ~InPair \/ g \in intruded'
                /\ atName'[g] = i
                /\ current'[g] = [bytes |-> bytes'[i], stamp |-> writes']
    PROVE  IInv'
<1> USE Bounds
<1>1. TypeOK /\ Apart /\ Opened /\ Cloned /\ Undisturbed /\ LeftBehind /\ Kept
      /\ LeasedNamesShowCurrent
  BY DEF IInv
<1>2. \A j \in Inodes : j # i => bytes'[j] = bytes[j] /\ stamp'[j] = stamp[j]
  BY <1>1, Written
<1>3. stamp'[i] = writes'
  BY <1>1, Written
<1>4. \A j \in Numbers : j # i => FileAt(j)' = FileAt(j)
  BY <1>2 DEF FileAt, Numbers, Inodes, NoInode
<1>5. \A g \in Files : /\ atName[g] \in Numbers /\ atTemporary[g] \in Numbers
                       /\ FileAt(atTemporary[g])' = FileAt(atTemporary[g])
  BY <1>1, <1>4 DEF TypeOK
<1>6. ASSUME NEW g \in Files, atName'[g] = atName[g], atName[g] # i, current'[g] = current[g]
      PROVE  FileAt(atName[g])' = FileAt(atName[g]) /\ Shows(g)' = Shows(g)
  BY <1>4, <1>5, <1>6 DEF FileAt, Shows
<1>7. ASSUME NEW g \in Files, atName'[g] = i,
             current'[g] = [bytes |-> bytes'[i], stamp |-> writes']
      PROVE  FileAt(atName[g])' = current'[g] /\ Shows(g)'
  BY <1>3, <1>7 DEF FileAt, Shows
<1>8. /\ UNCHANGED <<method, atTemporary, lock, pc, plan, known, at, outcome>>
      /\ InPair' = InPair /\ HasClone' = HasClone /\ Here' = Here
  BY DEF sweep, InPair, HasClone, Here
<1>9. Opened' /\ Cloned'
  BY <1>1, <1>2, <1>8 DEF Opened, Cloned, HasClone, InPair
<1>10. \A g \in Files \ intruded' : InPair => atName'[g] = atName[g]
  OBVIOUS
<1>11. Undisturbed'
  <2>1. Here \in Files /\ Here \notin intruded' => Here \notin intruded /\ (InPair => atName'[Here] = atName[Here])
    BY <1>10
  <2>2. pc \in {"clone", "leftover", "reclone", "prepare", "swap", "dedupe", "inspect",
               "compare", "unlink", "restore", "restored"} => InPair /\ Here \in Files
    BY <1>1 DEF InPair, Opened
  <2> QED BY <1>1, <1>8, <2>1, <2>2 DEF Undisturbed
<1>12. LeftBehind'
  BY <1>1, <1>8 DEF LeftBehind
<1>13. Kept'
  <2>1. ASSUME NEW g \in Files
        PROVE  /\ (Shows(g) => Shows(g)')
               /\ (Shows(g) \/ Hides(g))'
               /\ Shows(g)' \/ atName'[g] = atName[g]
               /\ atName'[g] = i \/ Hides(g)' = Hides(g)
    BY <1>1, <1>5, <1>6, <1>7, <1>8 DEF Kept, Hides
  <2>2. InPair => Here \in Files /\ (atName'[Here] = atName[Here] \/ atName'[Here] = i)
    BY <1>1 DEF Opened
  <2>3. pc \in {"clone", "leftover", "reclone", "prepare", "swap", "dedupe", "inspect",
               "compare", "unlink", "restore", "restored"} => InPair
    BY DEF InPair
  <2>4. pc \in {"inspect", "compare", "restore", "restored", "unlink"} =>
          HasClone /\ i # at.clone
    BY DEF HasClone
  <2>5. pc \in {"inspect", "compare", "restore", "unlink"} =>
          /\ atTemporary[Here] = at.duplicate => Shows(Here)'
          /\ atName'[Here] = at.clone => Hides(Here)'
    <3>1. pc \in {"inspect", "compare", "restore", "unlink"} =>
            Here \in Files /\ i # at.clone
      BY <2>2, <2>3, <2>4
    <3>2. ASSUME Here \in Files
          PROVE  /\ Shows(Here) => Shows(Here)'
                 /\ atName'[Here] = i \/ (atName'[Here] = atName[Here] /\ (Hides(Here)' <=> Hides(Here)))
      BY <1>8, <2>1, <2>2, <3>2
    <3> QED BY <1>1, <3>1, <3>2 DEF Kept
  <2>6. pc \in {"clone", "leftover", "reclone", "dedupe", "prepare", "swap", "restored"} =>
          /\ pc = "restored" /\ atTemporary[Here] = at.clone => Shows(Here)'
          /\ pc \in {"prepare", "swap"} => Shows(Here)'
          /\ pc \in {"clone", "leftover", "reclone", "dedupe"} =>
               atName'[Here] = at.duplicate \/ Shows(Here)'
    <3>1. ASSUME Here \in Files
          PROVE  /\ Shows(Here) => Shows(Here)'
                 /\ Shows(Here)' \/ atName'[Here] = atName[Here]
      BY <1>8, <2>1, <3>1
    <3> QED BY <1>1, <2>2, <2>3, <3>1 DEF Kept
  <2>7. \A g \in Files : (Shows(g) \/ Hides(g))'
    BY <2>1
  <2>8. /\ pc' = pc /\ at' = at /\ Here' = Here /\ atTemporary' = atTemporary
        /\ Shows(Here)' = Shows(Here)' /\ Hides(Here)' = Hides(Here)'
    BY <1>8
  <2> QED BY <2>5, <2>6, <2>7, <2>8 DEF Kept
<1>14. LeasedNamesShowCurrent'
  BY <1>1, <1>6, <1>7 DEF LeasedNamesShowCurrent
<1> QED
  BY <1>9, <1>11, <1>12, <1>13, <1>14 DEF IInv

-------------------------------------------------------------------------------
(* What the tool, an intruder or a writer of the kept file does keeps it.  *)
LEMMA UsersWrite ==
    ASSUME IInv, ToolWrites \/ Intrude \/ KeeperWritten
    PROVE  IInv'
<1> USE Bounds
<1>1. TypeOK /\ Apart /\ Opened /\ Cloned /\ LeftBehind /\ Kept /\ LeasedNamesShowCurrent
  BY DEF IInv
<1>2. lock # "sweep" => ~InPair
  BY <1>1 DEF Opened
<1>3. (InPair => at.duplicate # keeper) /\ (HasClone => at.clone # keeper)
  BY <1>1 DEF Opened, Cloned
<1>4. HasClone => InPair
  BY DEF HasClone, InPair
<1>5. ASSUME NEW f \in Files, Replace(f), intruded \subseteq intruded',
             UNCHANGED <<method, lock, sweep, faults>>,
             intruded' \subseteq Files,
             InPair => f \in intruded'
      PROVE  IInv'
  <2>1. /\ Fresh \in Inodes /\ Write(Fresh) /\ Fresh # keeper
        /\ \A g \in Files : Fresh # atName[g] /\ Fresh # atTemporary[g]
        /\ Fresh \notin {at.keeper, at.duplicate, at.clone}
    BY <1>5, FreshIsNew DEF Replace
  <2>2. /\ atName' = [atName EXCEPT ![f] = Fresh]
        /\ UNCHANGED <<keeper, atTemporary>>
        /\ current' = [current EXCEPT ![f] = [bytes |-> bytes'[Fresh], stamp |-> writes']]
    BY <1>5 DEF Replace, Made
  <2>3. TypeOK'
    BY <1>1, <1>5, <2>1, <2>2, Written DEF TypeOK, sweep
  <2>4. Apart'
    BY <1>1, <2>1, <2>2 DEF Apart, TypeOK
  <2>5. \A g \in Files :
             \/ atName'[g] = atName[g] /\ atName[g] # Fresh /\ current'[g] = current[g]
             \/ /\ ~InPair \/ g \in intruded'
                /\ atName'[g] = Fresh
                /\ current'[g] = [bytes |-> bytes'[Fresh], stamp |-> writes']
    BY <1>1, <1>5, <2>1, <2>2 DEF TypeOK
  <2> QED BY <1>3, <1>5, <2>1, <2>2, <2>3, <2>4, <2>5, WritesWell
<1>6. CASE Intrude
  <2>1. PICK f \in Files : Replace(f) /\ intruded' = IF lock = "sweep" THEN intruded \cup {f} ELSE intruded
    BY <1>6 DEF Intrude
  <2> QED BY <1>1, <1>2, <1>5, <1>6, <2>1 DEF Intrude, TypeOK
<1>7. CASE KeeperWritten
  <2>1. UNCHANGED <<method, atName, atTemporary, lock, sweep, faults, current, intruded>>
    BY <1>7 DEF KeeperWritten, history
  <2>2. PICK i \in Inodes : /\ Write(i) /\ keeper' = i
                            /\ \A g \in Files : i # atName[g] /\ i # atTemporary[g]
                            /\ InPair => i # at.duplicate
                            /\ HasClone => i # at.clone
    BY <1>1, <1>3, <1>7, FreshIsNew DEF KeeperWritten, Apart, TypeOK
  <2>3. TypeOK'
    BY <1>1, <2>1, <2>2, Written DEF TypeOK, sweep
  <2>4. Apart'
    BY <1>1, <2>1, <2>2 DEF Apart
  <2> QED BY <1>3, <2>1, <2>2, <2>3, <2>4, WritesWell
<1>8. CASE ToolWrites
  <2>1. lock = "tool" /\ UNCHANGED <<method, lock, sweep, faults, intruded>> /\ ~InPair /\ ~HasClone
    BY <1>2, <1>4, <1>8 DEF ToolWrites
  <2>2. PICK f \in Files :
         \/ /\ atName[f] # NoInode
            /\ Write(atName[f]) /\ Made(f, atName[f])
            /\ UNCHANGED <<keeper, atName, atTemporary>>
         \/ Replace(f)
         \/ /\ atName[f] # NoInode
            /\ atName' = [atName EXCEPT ![f] = NoInode]
            /\ current' = [current EXCEPT ![f] = NoFile]
            /\ UNCHANGED <<bytes, stamp, shares, keeper, atTemporary, writes>>
    BY <1>8 DEF ToolWrites
  <2>3. CASE /\ atName[f] # NoInode
             /\ Write(atName[f]) /\ Made(f, atName[f])
             /\ UNCHANGED <<keeper, atName, atTemporary>>
    <3>1. atName[f] \in Inodes /\ Write(atName[f])
      BY <1>1, <2>3 DEF TypeOK, Numbers, Inodes, NoInode
    <3>2. current' = [current EXCEPT ![f] = [bytes |-> bytes'[atName[f]], stamp |-> writes']]
      BY <2>3 DEF Made
    <3>3. TypeOK'
      BY <1>1, <2>1, <2>3, <3>1, <3>2, Written DEF TypeOK, sweep
    <3>4. Apart'
      BY <1>1, <2>3 DEF Apart
    <3>5. \A g \in Files : /\ atTemporary[g] # atName[f]
                           /\ atName[g] = atName[f] => g = f
      BY <1>1, <2>3 DEF Apart
    <3>6. \A g \in Files :
             \/ atName'[g] = atName[g] /\ atName[g] # atName[f] /\ current'[g] = current[g]
             \/ /\ ~InPair \/ g \in intruded'
                /\ atName'[g] = atName[f]
                /\ current'[g] = [bytes |-> bytes'[atName[f]], stamp |-> writes']
      BY <1>1, <2>1, <2>3, <3>2, <3>5 DEF TypeOK
    <3> QED BY <2>1, <2>3, <3>1, <3>3, <3>4, <3>5, <3>6, WritesWell
  <2>4. CASE Replace(f)
    BY <1>1, <1>5, <2>1, <2>4 DEF TypeOK
  <2>5. CASE /\ atName[f] # NoInode
             /\ atName' = [atName EXCEPT ![f] = NoInode]
             /\ current' = [current EXCEPT ![f] = NoFile]
             /\ UNCHANGED <<bytes, stamp, shares, keeper, atTemporary, writes>>
    <3>1. TypeOK'
      BY <1>1, <2>1, <2>5 DEF TypeOK, sweep
    <3>2. Apart'
      BY <1>1, <2>5 DEF Apart, TypeOK
    <3>3. Opened' /\ Cloned' /\ Undisturbed'
      BY <1>1, <2>1, <2>5 DEF Opened, Cloned, Undisturbed, InPair, HasClone, sweep
    <3>4. LeftBehind'
      BY <1>1, <2>1, <2>5 DEF LeftBehind, Here, InPair, sweep
    <3>5. \A g \in Files : FileAt(atName[g])' = current'[g] \/ UNCHANGED <<atName[g], current[g]>>
      <4>1. ASSUME NEW g \in Files, g # f PROVE UNCHANGED <<atName[g], current[g]>>
        BY <1>1, <2>5, <4>1 DEF TypeOK
      <4>2. atName'[f] = NoInode /\ current'[f] = NoFile
        BY <1>1, <2>5 DEF TypeOK
      <4>3. FileAt(atName[f])' = NoFile
        BY <4>2 DEF FileAt
      <4> QED BY <4>1, <4>2, <4>3
    <3>6. \A g \in Files : /\ UNCHANGED <<atName[g], current[g]>> =>
                                Shows(g)' = Shows(g) /\ FileAt(atName[g])' = FileAt(atName[g])
                           /\ FileAt(atName[g])' = current'[g] => Shows(g)'
                           /\ FileAt(atTemporary[g])' = FileAt(atTemporary[g])
      BY <2>5 DEF FileAt, Shows
    <3>8. \A g \in Files : UNCHANGED current[g] => Hides(g)' = Hides(g)
      BY <3>6 DEF Hides
    <3>7. Kept' /\ LeasedNamesShowCurrent'
      BY <1>1, <2>1, <3>5, <3>6, <3>8 DEF Kept, LeasedNamesShowCurrent, InPair, sweep
    <3> QED BY <3>1, <3>2, <3>3, <3>4, <3>7 DEF IInv
  <2> QED BY <2>2, <2>3, <2>4, <2>5
<1> QED
  BY <1>6, <1>7, <1>8

-------------------------------------------------------------------------------
(* The sweep's steps between two pairs, and its death anywhere.            *)

(* A sweep that comes to rest, or is killed, has only closed its files.    *)
LEMMA RestsWell ==
    ASSUME IInv, NEW results \in [Files -> Outcomes], Rest(results),
           UNCHANGED <<method, disk, writes, current, intruded>>,
           faults' \in 0..MaxFaults,
           \A g \in Files : results[g] = "shared" => outcome[g] = "shared"
    PROVE  IInv'
<1>1. TypeOK /\ TypeOK'
  BY NowhereTypes, Bounds DEF IInv, TypeOK, Rest, disk, Steps
<1>2. \A g \in Files : outcome'[g] = "shared" => atTemporary'[g] = NoInode
  BY DEF IInv, LeftBehind, Rest, disk
<1> QED
  BY <1>1, <1>2, ClosesWell DEF Rest, disk

(* Who holds the lock, and what is planned, changes no file.               *)
LEMMA BetweenPairs ==
    ASSUME IInv, ToolTakes \/ ToolLeaves \/ Plan \/ Hold \/ Finish \/ Dies
    PROVE  IInv'
<1>1. TypeOK /\ Opened /\ LeftBehind
  BY DEF IInv
<1>2. CASE ToolTakes \/ ToolLeaves
  <2>1. /\ UNCHANGED <<method, disk, sweep, writes, faults, history>>
        /\ lock # "sweep" /\ lock' \in {"free", "tool"}
    BY <1>2 DEF ToolTakes, ToolLeaves
  <2>2. ~InPair /\ at = Nowhere
    BY <1>1, <2>1 DEF Opened
  <2>3. TypeOK'
    BY <1>1, <2>1 DEF TypeOK, disk, sweep, history
  <2> QED BY <1>1, <2>1, <2>2, <2>3, ClosesWell
          DEF Opened, LeftBehind, InPair, disk, sweep, history
<1>3. CASE Plan
  <2>1. TypeOK'
    BY <1>1, <1>3, Bounds DEF Plan, TypeOK, disk, history, Steps, Outcomes
  <2>2. /\ \A f \in plan' : known'[f] # NoInode /\ outcome'[f] = "none"
        /\ \A g \in Files : outcome'[g] # "shared"
    BY <1>1, <1>3 DEF Plan
  <2>3. ~InPair /\ at = Nowhere
    BY <1>1, <1>3 DEF Plan, Opened, InPair
  <2> QED BY <1>3, <2>1, <2>2, <2>3, ClosesWell DEF Plan, disk, history
<1>4. CASE Hold
  <2>1. ~InPair /\ at = Nowhere /\ pc = "planned"
    BY <1>1, <1>4 DEF Hold, Opened, InPair
  <2>2. CASE lock' = "sweep" /\ UNCHANGED sweep
    <3>1. TypeOK'
      BY <1>1, <1>4, <2>2 DEF Hold, TypeOK, disk, sweep, history
    <3> QED BY <1>1, <1>4, <2>1, <2>2, <3>1, ClosesWell
            DEF Hold, Opened, LeftBehind, disk, sweep, history
  <2>3. CASE Rest([f \in Files |-> IF f \in plan THEN "withheld" ELSE outcome[f]])
    <3>1. [f \in Files |-> IF f \in plan THEN "withheld" ELSE outcome[f]] \in [Files -> Outcomes]
      BY <1>1 DEF TypeOK, Outcomes
    <3>2. \A g \in Files : [f \in Files |-> IF f \in plan THEN "withheld" ELSE outcome[f]][g]
                            = "shared" => outcome[g] = "shared"
      OBVIOUS
    <3> QED BY <1>1, <1>4, <2>1, <2>3, <3>1, <3>2, RestsWell DEF Hold, history, TypeOK
  <2> QED BY <1>4, <2>2, <2>3 DEF Hold
<1>5. CASE Finish
  BY <1>1, <1>5, RestsWell DEF Finish, history, TypeOK
<1>6. CASE Dies
  <2>1. faults' \in 0..MaxFaults
    BY <1>1, <1>6, Bounds DEF Dies, TypeOK
  <2> QED BY <1>1, <1>6, <2>1, RestsWell DEF Dies, TypeOK, history
<1> QED
  BY <1>2, <1>3, <1>4, <1>5, <1>6

-------------------------------------------------------------------------------
(* The steps that end a pair.                                              *)

(* A pair has its outcome: what was planned beside it still has none.      *)
LEMMA EndsWell ==
    ASSUME IInv, InPair, NEW result \in Outcomes, Settle(result) \/ Strand(result)
    PROVE  /\ pc' = "planned" /\ at' = Nowhere /\ faults' \in 0..MaxFaults
           /\ plan' = plan \ {Here} /\ outcome' = [outcome EXCEPT ![Here] = result]
           /\ UNCHANGED <<method, lock, known, knownKeeper, writes, current, intruded>>
           /\ \A f \in plan' : known'[f] # NoInode /\ outcome'[f] = "none"
           /\ \A g \in Files : outcome'[g] = "shared" =>
                  atTemporary[g] = NoInode \/ (g = Here /\ result = "shared")
           /\ at' \in [file : Files \cup {NoInode}, keeper : Numbers, duplicate : Numbers,
                        stamp : Contents, clone : Numbers, offset : 0..Chunks]
           /\ plan' \subseteq Files /\ outcome' \in [Files -> Outcomes] /\ pc' \in Steps
<1>1. TypeOK /\ Opened /\ LeftBehind
  BY DEF IInv
<1>2. /\ pc' = "planned" /\ at' = Nowhere
      /\ plan' = plan \ {Here} /\ outcome' = [outcome EXCEPT ![Here] = result]
      /\ UNCHANGED <<method, lock, known, knownKeeper, writes, current, intruded>>
  BY DEF Settle, Strand, Concluded, history, Here
<1>3. faults' \in 0..MaxFaults
  BY <1>1, Bounds DEF Settle, Strand, TypeOK
<1> QED
  BY <1>1, <1>2, <1>3, NowhereTypes DEF Opened, LeftBehind, TypeOK, Steps

(* A pair is settled: its temporary file is gone, or was left behind.      *)
LEMMA SettlesWell ==
    ASSUME IInv, InPair, NEW result \in Outcomes, Settle(result) \/ Strand(result),
           UNCHANGED <<bytes, stamp, keeper, atName>>, shares' \subseteq Inodes,
           \/ UNCHANGED atTemporary
           \/ Shows(Here) /\ atTemporary' = [atTemporary EXCEPT ![Here] = NoInode],
           result = "shared" => atTemporary'[Here] = NoInode
    PROVE  IInv'
<1>1. TypeOK /\ Opened
  BY DEF IInv
<1>2. /\ atTemporary' \in [Files -> Numbers]
      /\ \A g \in Files : atTemporary[g] = NoInode => atTemporary'[g] = NoInode
  BY <1>1, Bounds DEF TypeOK
<1>3. TypeOK'
  BY <1>1, <1>2, EndsWell DEF TypeOK
<1>4. \A g \in Files : outcome'[g] = "shared" => atTemporary'[g] = NoInode
  BY <1>2, EndsWell
<1> QED
  BY <1>3, <1>4, EndsWell, ClosesWell

(* Every way a pair ends without a file made is such a settling.           *)
LEMMA Settles ==
    ASSUME IInv, pc' = "planned",
           \/ \E from \in {"clone", "leftover", "reclone", "dedupe"} : Fails(from)
           \/ Prepare \/ Swap \/ Restore \/ Restored \/ Unlink \/ DedupeRange
    PROVE  IInv'
<1> DEFINE Removed == atTemporary' = [atTemporary EXCEPT ![Here] = NoInode]
           Ends(result) == Settle(result) \/ Strand(result)
<1>1. /\ TypeOK /\ Opened /\ Cloned /\ Undisturbed /\ LeftBehind /\ Kept
      /\ "shared" \in Outcomes /\ "failed" \in Outcomes /\ "overtaken" \in Outcomes
  BY DEF IInv, Outcomes
<1>2. InPair => Here \in Files /\ at.duplicate \in Inodes
              /\ [atTemporary EXCEPT ![Here] = NoInode][Here] = NoInode
  BY <1>1 DEF Opened, TypeOK
<1>3. ASSUME InPair, Ends("failed"), UNCHANGED disk PROVE IInv'
  BY <1>1, <1>3, SettlesWell DEF TypeOK, disk
<1>4. ASSUME InPair, NEW result \in {"overtaken", "failed"}, Discarded(result),
             atTemporary[Here] = at.clone => Shows(Here)
      PROVE  IInv'
  <2>1. /\ Ends(result) /\ UNCHANGED <<bytes, stamp, shares, keeper, atName>>
        /\ UNCHANGED atTemporary \/ (Shows(Here) /\ Removed)
    <3>1. CASE Settle(result)
      BY <1>4, <3>1 DEF Discarded
    <3> QED BY <1>4, <3>1 DEF Discarded
  <2> QED BY <1>1, <1>4, <2>1, SettlesWell DEF TypeOK
<1>5. CASE \E from \in {"clone", "leftover", "reclone", "dedupe"} : Fails(from)
  BY <1>3, <1>5 DEF Fails, InPair
<1>6. CASE Prepare \/ Swap
  <2>1. /\ pc \in {"prepare", "swap"} /\ InPair
        /\ \E result \in {"overtaken", "failed"} : Discarded(result)
    BY <1>6 DEF Prepare, Swap, Go, InPair
  <2> QED BY <1>1, <1>4, <2>1 DEF Kept
<1>7. CASE Restore
  BY <1>3, <1>7 DEF Restore, Go, InPair
<1>8. CASE Restored
  BY <1>1, <1>3, <1>4, <1>8 DEF Restored, InPair, Kept
<1>9. CASE Unlink
  <2>1. pc = "unlink" /\ InPair
    BY <1>9 DEF Unlink, InPair
  <2>2. CASE /\ atTemporary[Here] = at.duplicate /\ Removed /\ Settle("shared")
             /\ UNCHANGED <<bytes, stamp, shares, keeper, atName>>
    BY <1>1, <1>2, <2>1, <2>2, SettlesWell DEF Kept, TypeOK
  <2> QED BY <1>3, <1>9, <2>1, <2>2 DEF Unlink
<1>10. CASE DedupeRange
  <2>1. /\ pc = "dedupe" /\ InPair
        /\ \E result \in Outcomes : Settle(result)
        /\ UNCHANGED <<bytes, stamp, keeper, atName, atTemporary>>
        /\ shares' \in {shares, shares \cup {at.duplicate}}
    BY <1>1, <1>10 DEF DedupeRange, Fails, InPair, disk
  <2>2. atTemporary'[Here] = NoInode
    BY <1>1, <1>2, <2>1 DEF LeftBehind
  <2>3. shares' \subseteq Inodes
    BY <1>1, <1>2, <2>1 DEF TypeOK
  <2> QED BY <2>1, <2>2, <2>3, SettlesWell
<1> QED
  BY <1>5, <1>6, <1>7, <1>8, <1>9, <1>10

-------------------------------------------------------------------------------
(* The steps that look, or only open what is there.                        *)

(* Where no file changes, what the names show does not either.             *)
LEMMA NothingMoved ==
    ASSUME IInv, UNCHANGED <<disk, history>>
    PROVE  /\ Apart' /\ LeasedNamesShowCurrent'
           /\ UNCHANGED <<bytes, stamp, shares, keeper, atName, atTemporary,
                         current, intruded>>
           /\ \A g \in Files : /\ Shows(g)' = Shows(g) /\ Hides(g)' = Hides(g)
                               /\ FileAt(atTemporary[g])' = FileAt(atTemporary[g])
<1>1. Apart /\ LeasedNamesShowCurrent
  BY DEF IInv
<1>2. UNCHANGED <<bytes, stamp, shares, keeper, atName, atTemporary, current, intruded>>
  BY DEF disk, history
<1> QED
  BY <1>1, <1>2 DEF Apart, LeasedNamesShowCurrent, Shows, Hides, FileAt

(* A look finds the clone in place unless somebody came behind the lease,   *)
(* or finds nothing because it failed.                                      *)
LEMMA Looks ==
    ASSUME IInv, pc' # "planned",
           \/ Clone /\ pc' = "leftover"
           \/ Inspect \/ Compare \/ DedupeRange
    PROVE  IInv'
<1>1. TypeOK /\ Opened /\ Cloned /\ Undisturbed /\ LeftBehind /\ Kept
  BY DEF IInv
<1>2. /\ UNCHANGED <<disk, history, method, lock, plan, known, knownKeeper, outcome, writes, faults>>
      /\ \/ /\ UNCHANGED at
            /\ \/ pc = "clone" /\ pc' = "leftover" /\ atTemporary[Here] # NoInode
               \/ /\ pc = "inspect" /\ pc' = "compare"
                  /\ atName[Here] = at.clone /\ atTemporary[Here] = at.duplicate
               \/ pc = "inspect" /\ pc' = "restore"
               \/ pc = "compare" /\ pc' \in {"unlink", "restore"}
         \/ /\ pc = "dedupe" /\ pc' = "dedupe"
            /\ at.offset + 1 < Chunks /\ at' = [at EXCEPT !.offset = @ + 1]
  <2>1. CASE Clone /\ pc' = "leftover"
    BY <2>1 DEF Clone, CloneTo, Fails, Settle, Strand, Concluded, Go, history
  <2>2. CASE Inspect
    BY <2>2 DEF Inspect, Go, history
  <2>3. CASE Compare
    BY <2>3 DEF Compare, Go, history
  <2>4. CASE DedupeRange
    BY <2>4 DEF DedupeRange, Fails, Settle, Concluded, history
  <2> QED BY <2>1, <2>2, <2>3, <2>4
<1>3. /\ Apart' /\ LeasedNamesShowCurrent'
      /\ UNCHANGED <<bytes, stamp, shares, keeper, atName, atTemporary, current, intruded>>
      /\ \A g \in Files : /\ Shows(g)' = Shows(g) /\ Hides(g)' = Hides(g)
                          /\ FileAt(atTemporary[g])' = FileAt(atTemporary[g])
  BY <1>2, NothingMoved
<1>4. /\ InPair /\ InPair' /\ HasClone' = HasClone /\ Here' = Here
      /\ at'.duplicate = at.duplicate /\ at'.keeper = at.keeper /\ at'.clone = at.clone
      /\ at'.stamp = at.stamp /\ at'.file = at.file
  BY <1>1, <1>2 DEF InPair, HasClone, Here, TypeOK
<1>5. TypeOK'
  <2>1. at' \in [file : Files \cup {NoInode}, keeper : Numbers, duplicate : Numbers,
                 stamp : Contents, clone : Numbers, offset : 0..Chunks]
    BY <1>1, <1>2, Bounds DEF TypeOK
  <2>2. pc' \in Steps
    BY <1>2 DEF Steps
  <2> QED BY <1>1, <1>2, <1>3, <2>1, <2>2 DEF TypeOK
<1>6. Opened' /\ Cloned'
  BY <1>1, <1>2, <1>3, <1>4 DEF Opened, Cloned, HasClone
<1>7. Undisturbed'
  BY <1>1, <1>2, <1>3, <1>4 DEF Undisturbed, Opened
<1>8. LeftBehind'
  BY <1>1, <1>2, <1>3, <1>4 DEF LeftBehind, InPair
<1>9. Kept'
  BY <1>1, <1>2, <1>3, <1>4 DEF Kept, Opened
<1> QED
  BY <1>3, <1>5, <1>6, <1>7, <1>8, <1>9 DEF IInv

(* The pair that is opened is the one the inventory knew, or none.         *)
LEMMA Opens == ASSUME IInv, OpenPair PROVE IInv'
<1>1. TypeOK /\ Apart /\ Opened /\ LeftBehind /\ Kept
  BY DEF IInv
<1>2. /\ lock = "sweep" /\ pc = "planned" /\ at = Nowhere /\ ~InPair
      /\ UNCHANGED <<disk, history, method, lock, known, knownKeeper, writes, faults>>
  BY <1>1 DEF OpenPair, Go, Opened, InPair, history
<1>3. PICK f \in plan :
         \/ /\ keeper = knownKeeper /\ atName[f] = known[f]
            /\ Go("planned", IF method = "dedupe-range" THEN "dedupe" ELSE "clone")
            /\ at' = [Nowhere EXCEPT !.file = f, !.keeper = keeper,
                         !.duplicate = atName[f], !.stamp = stamp[atName[f]]]
         \/ /\ UNCHANGED <<pc, at>>
            /\ plan' = plan \ {f}
            /\ \E result \in {"overtaken", "failed"} :
                 outcome' = [outcome EXCEPT ![f] = result]
  BY DEF OpenPair
<1>4. /\ Apart' /\ LeasedNamesShowCurrent'
      /\ UNCHANGED <<bytes, stamp, shares, keeper, atName, atTemporary, current, intruded>>
      /\ \A g \in Files : /\ Shows(g)' = Shows(g) /\ Hides(g)' = Hides(g)
                          /\ FileAt(atTemporary[g])' = FileAt(atTemporary[g])
  BY <1>2, NothingMoved
<1>5. CASE /\ UNCHANGED <<pc, at>> /\ plan' = plan \ {f}
           /\ \E result \in {"overtaken", "failed"} :
                outcome' = [outcome EXCEPT ![f] = result]
  <2>1. PICK result \in {"overtaken", "failed"} : outcome' = [outcome EXCEPT ![f] = result]
    BY <1>5
  <2>2. TypeOK'
    BY <1>1, <1>2, <1>4, <1>5, <2>1 DEF TypeOK, Outcomes
  <2>3. /\ \A g \in plan' : known'[g] # NoInode /\ outcome'[g] = "none"
        /\ \A g \in Files : outcome'[g] = "shared" => atTemporary'[g] = NoInode
    BY <1>1, <1>2, <1>4, <1>5, <2>1 DEF Opened, LeftBehind, TypeOK
  <2> QED BY <1>1, <1>2, <1>4, <1>5, <2>2, <2>3, ClosesWell
<1>6. CASE /\ Go("planned", IF method = "dedupe-range" THEN "dedupe" ELSE "clone")
           /\ at' = [Nowhere EXCEPT !.file = f, !.keeper = keeper,
                        !.duplicate = atName[f], !.stamp = stamp[atName[f]]]
           /\ keeper = knownKeeper /\ atName[f] = known[f]
  <2>1. /\ pc' \in {"clone", "dedupe"} /\ InPair' /\ ~HasClone'
        /\ UNCHANGED <<plan, outcome>>
    BY <1>6 DEF Go, InPair, HasClone
  <2>2. /\ f \in Files /\ atName[f] \in Inodes /\ keeper \in Inodes /\ atName[f] # keeper
    BY <1>1, <1>6, Bounds DEF TypeOK, Opened, Apart, Numbers, Inodes, NoInode
  <2>3. /\ at'.file = f /\ at'.keeper = keeper /\ at'.duplicate = atName[f]
        /\ at'.stamp = stamp[atName[f]] /\ at'.clone = NoInode /\ at'.offset = 0
        /\ at' = [file |-> f, keeper |-> keeper, duplicate |-> atName[f],
                  stamp |-> stamp[atName[f]], clone |-> NoInode, offset |-> 0]
    BY <1>6 DEF Nowhere
  <2>4. TypeOK'
    <3>1. stamp[atName[f]] \in Contents /\ 0 \in 0..Chunks
      BY <1>1, <2>2, Bounds DEF TypeOK
    <3>2. at' \in [file : Files \cup {NoInode}, keeper : Numbers, duplicate : Numbers,
                   stamp : Contents, clone : Numbers, offset : 0..Chunks]
      BY <2>2, <2>3, <3>1, Bounds
    <3>3. pc' \in Steps
      BY <2>1 DEF Steps
    <3> QED BY <1>1, <1>2, <1>4, <2>1, <3>2, <3>3 DEF TypeOK
  <2>5. Here' = f
    BY <2>3 DEF Here
  <2>6. Opened' /\ Cloned' /\ Undisturbed'
    BY <1>1, <1>2, <1>4, <2>1, <2>2, <2>3, <2>5 DEF Opened, Cloned, Undisturbed, HasClone
  <2>7. pc' = "dedupe" <=> method = "dedupe-range"
    BY <1>6 DEF Go
  <2>8. LeftBehind'
    BY <1>1, <1>2, <1>4, <2>1, <2>5, <2>7 DEF LeftBehind
  <2>9. Kept'
    BY <1>1, <1>4, <2>1, <2>2, <2>3, <2>5 DEF Kept
  <2> QED BY <1>4, <2>4, <2>6, <2>8, <2>9 DEF IInv
<1> QED
  BY <1>3, <1>5, <1>6

-------------------------------------------------------------------------------
(* The steps that change what lies at the two names.                       *)

(* A clone is made where nothing lies, and only if the name shows.         *)
LEMMA MakesClone ==
    ASSUME IInv, NEW from \in {"clone", "reclone"}, CloneTo(from)
    PROVE  /\ pc \in {"clone", "reclone"} /\ InPair /\ Here \in Files
           /\ at.keeper \in Inodes /\ at.duplicate \in Inodes
           /\ UNCHANGED <<keeper, atName>> /\ method # "dedupe-range"
           /\ Fresh \in Inodes /\ Fresh # keeper /\ Fresh # at.duplicate
           /\ \A g \in Files : Fresh # atName[g] /\ Fresh # atTemporary[g]
           /\ \A j \in Inodes : j # Fresh => bytes'[j] = bytes[j] /\ stamp'[j] = stamp[j]
           /\ \A g \in Files : g # Here => atTemporary'[g] = atTemporary[g]
           /\ atTemporary[Here] = NoInode /\ atTemporary'[Here] = Fresh
           /\ bytes' \in [Inodes -> Contents] /\ stamp' \in [Inodes -> Contents]
           /\ shares' \subseteq Inodes /\ atTemporary' \in [Files -> Numbers]
           /\ \A g \in Files : FileAt(atName[g])' = FileAt(atName[g])
           /\ \A g \in Files : g # Here =>
                  FileAt(atTemporary[g])' = FileAt(atTemporary[g])
           /\ Shows(Here)
<1> USE Bounds
<1>1. TypeOK /\ Opened /\ LeftBehind /\ Kept
  BY DEF IInv
<1>2. /\ pc \in {"clone", "reclone"} /\ InPair /\ atTemporary[Here] = NoInode
      /\ UNCHANGED <<keeper, atName>>
      /\ Here \in Files /\ at.keeper \in Inodes /\ at.duplicate \in Inodes
      /\ method # "dedupe-range"
  BY <1>1 DEF CloneTo, InPair, Opened, LeftBehind
<1>3. /\ Fresh \in Inodes /\ Fresh # keeper /\ Fresh # at.duplicate
      /\ \A g \in Files : Fresh # atName[g] /\ Fresh # atTemporary[g]
  BY FreshIsNew DEF CloneTo
<1>4. /\ atTemporary' = [atTemporary EXCEPT ![Here] = Fresh]
      /\ bytes' = [bytes EXCEPT ![Fresh] = bytes[at.keeper]]
      /\ stamp' = [stamp EXCEPT ![Fresh] = 0]
      /\ shares' \in {shares \cup {Fresh}, shares \ {Fresh}}
  BY DEF CloneTo
<1>5. /\ \A j \in Inodes : j # Fresh => bytes'[j] = bytes[j] /\ stamp'[j] = stamp[j]
      /\ \A g \in Files : g # Here => atTemporary'[g] = atTemporary[g]
      /\ atTemporary'[Here] = Fresh
      /\ bytes' \in [Inodes -> Contents] /\ stamp' \in [Inodes -> Contents]
      /\ shares' \subseteq Inodes /\ atTemporary' \in [Files -> Numbers]
  BY <1>1, <1>2, <1>3, <1>4 DEF TypeOK
<1>6. \A g \in Files : /\ FileAt(atName[g])' = FileAt(atName[g])
                       /\ g # Here => FileAt(atTemporary[g])' = FileAt(atTemporary[g])
  <2>1. \A g \in Files : /\ atName[g] # NoInode => atName[g] \in Inodes
                         /\ atTemporary[g] # NoInode => atTemporary[g] \in Inodes
    BY <1>1 DEF TypeOK, Numbers, Inodes, NoInode
  <2> QED BY <1>2, <1>3, <1>5, <2>1 DEF FileAt
<1>7. Shows(Here)
  <2>1. Hides(Here) => current[Here].bytes = -1
    BY <1>2 DEF Hides, FileAt, NoFile
  <2> QED BY <1>1, <1>2, <2>1 DEF Kept, Shows
<1> QED
  BY <1>2, <1>3, <1>5, <1>6, <1>7

LEMMA Clones ==
    ASSUME IInv, NEW from \in {"clone", "reclone"}, CloneTo(from)
    PROVE  IInv'
<1> USE Bounds, MakesClone
<1>1. TypeOK /\ Apart /\ Opened /\ Undisturbed /\ LeftBehind /\ Kept /\ LeasedNamesShowCurrent
  BY DEF IInv
<1>2. Apart'
  BY <1>1 DEF Apart
<1>3. ASSUME UNCHANGED current PROVE \A g \in Files : Shows(g)' = Shows(g)
  BY <1>3 DEF Shows
<1>4. ASSUME UNCHANGED current
      PROVE  \A g \in Files : g # Here => Hides(g)' = Hides(g)
  BY <1>4 DEF Hides
<1>5. CASE Go(from, "prepare") /\ at' = [at EXCEPT !.clone = Fresh]
  <2>1. /\ pc' = "prepare" /\ InPair' /\ HasClone'
        /\ UNCHANGED <<method, lock, plan, known, knownKeeper, outcome, writes, faults,
                       current, intruded>>
    BY <1>5 DEF Go, history, InPair, HasClone
  <2>2. /\ at'.file = at.file /\ at'.keeper = at.keeper /\ at'.duplicate = at.duplicate
        /\ at'.stamp = at.stamp /\ at'.clone = Fresh /\ Here' = Here
    BY <1>1, <1>5 DEF TypeOK, Here
  <2>3. TypeOK'
    <3>1. at' \in [file : Files \cup {NoInode}, keeper : Numbers, duplicate : Numbers,
                   stamp : Contents, clone : Numbers, offset : 0..Chunks]
      BY <1>1, <1>5 DEF TypeOK
    <3>2. pc' \in Steps
      BY <2>1 DEF Steps
    <3> QED BY <1>1, <2>1, <3>1, <3>2 DEF TypeOK
  <2>4. Opened' /\ Cloned'
    BY <1>1, <2>1, <2>2 DEF Opened, Cloned, HasClone
  <2>5. Undisturbed'
    BY <1>1, <2>1, <2>2 DEF Undisturbed
  <2>6. LeftBehind'
    BY <1>1, <2>1, <2>2 DEF LeftBehind, Here
  <2>7. Kept'
    BY <1>1, <1>3, <1>4, <2>1, <2>2 DEF Kept
  <2>8. LeasedNamesShowCurrent'
    BY <1>1, <2>1 DEF LeasedNamesShowCurrent
  <2> QED BY <1>2, <2>3, <2>4, <2>5, <2>6, <2>7, <2>8 DEF IInv
<1>6. CASE Strand("failed")
  <2>1. /\ pc' = "planned" /\ at' = Nowhere /\ faults' \in 0..MaxFaults /\ ~InPair' /\ ~HasClone'
        /\ plan' = plan \ {Here} /\ outcome' = [outcome EXCEPT ![Here] = "failed"]
        /\ UNCHANGED <<method, lock, known, knownKeeper, writes, current, intruded>>
        /\ \A f \in plan' : known'[f] # NoInode /\ outcome'[f] = "none"
        /\ \A g \in Files : outcome'[g] = "shared" => atTemporary[g] = NoInode
        /\ at' \in [file : Files \cup {NoInode}, keeper : Numbers, duplicate : Numbers,
                     stamp : Contents, clone : Numbers, offset : 0..Chunks]
        /\ plan' \subseteq Files /\ outcome' \in [Files -> Outcomes] /\ pc' \in Steps
    BY <1>6, EndsWell DEF InPair, HasClone, Outcomes
  <2>2. TypeOK'
    BY <1>1, <2>1 DEF TypeOK
  <2>3. Opened' /\ Cloned' /\ Undisturbed'
    BY <2>1 DEF Opened, Cloned, Undisturbed
  <2>4. LeftBehind'
    <3>1. outcome'[Here] = "failed"
      BY <1>1, <2>1 DEF TypeOK
    <3> QED BY <1>1, <2>1, <3>1 DEF LeftBehind
  <2>5. Kept'
    BY <1>1, <1>3, <1>4, <2>1 DEF Kept
  <2>6. LeasedNamesShowCurrent'
    BY <1>1, <2>1 DEF LeasedNamesShowCurrent
  <2> QED BY <1>2, <2>2, <2>3, <2>4, <2>5, <2>6 DEF IInv
<1> QED
  BY <1>5, <1>6 DEF CloneTo

(* A leftover that is removed equals the file that is open.                *)
LEMMA Reclaims ==
    ASSUME IInv, Reclaim, pc' # "planned"
    PROVE  IInv'
<1> USE Bounds
<1>1. TypeOK /\ Apart /\ Opened /\ Undisturbed /\ LeftBehind /\ Kept /\ LeasedNamesShowCurrent
  BY DEF IInv
<1>2. /\ pc = "leftover" /\ pc' = "reclone"
      /\ InPair /\ InPair' /\ ~HasClone' /\ Here' = Here
      /\ UNCHANGED <<method, lock, plan, known, knownKeeper, outcome, writes, faults, at,
                     current, intruded, bytes, stamp, shares, keeper, atName>>
      /\ Here \in Files /\ at.duplicate \in Inodes
      /\ bytes[atTemporary[Here]] = bytes[at.duplicate]
      /\ atTemporary' = [atTemporary EXCEPT ![Here] = NoInode]
  BY <1>1 DEF Reclaim, Fails, Settle, Concluded, Go, history, InPair, HasClone, Opened, Here
<1>3. /\ \A g \in Files : g # Here => atTemporary'[g] = atTemporary[g]
      /\ atTemporary'[Here] = NoInode /\ atTemporary' \in [Files -> Numbers]
  BY <1>1, <1>2 DEF TypeOK
<1>4. \A g \in Files : /\ FileAt(atName[g])' = FileAt(atName[g]) /\ Shows(g)' = Shows(g)
                       /\ g # Here => Hides(g)' = Hides(g)
  BY <1>2, <1>3 DEF FileAt, Shows, Hides
<1>5. Shows(Here)
  <2>1. atTemporary[Here] # NoInode
    BY <1>1, <1>2 DEF LeftBehind
  <2>2. CASE atName[Here] = at.duplicate
    <3>1. FileAt(atTemporary[Here]).bytes = FileAt(atName[Here]).bytes
      BY <1>2, <2>1, <2>2 DEF FileAt
    <3> QED BY <1>1, <1>2, <3>1 DEF Kept, Shows, Hides
  <2> QED BY <1>1, <1>2, <2>2 DEF Kept
<1>6. TypeOK'
  BY <1>1, <1>2, <1>3 DEF TypeOK, Steps
<1>7. Apart'
  BY <1>1, <1>2, <1>3 DEF Apart, TypeOK
<1>8. Opened' /\ Cloned'
  BY <1>1, <1>2 DEF Opened, Cloned, HasClone
<1>9. Undisturbed' /\ LeftBehind'
  BY <1>1, <1>2, <1>3 DEF Undisturbed, LeftBehind, InPair
<1>10. Kept'
  BY <1>1, <1>2, <1>3, <1>4, <1>5 DEF Kept
<1>11. LeasedNamesShowCurrent'
  BY <1>1, <1>2, <1>4 DEF LeasedNamesShowCurrent
<1> QED
  BY <1>6, <1>7, <1>8, <1>9, <1>10, <1>11 DEF IInv

(* The clone takes the stamp before any name shows it.                     *)
LEMMA Prepares == ASSUME IInv, Prepare, pc' # "planned" PROVE IInv'
<1> USE Bounds
<1>1. TypeOK /\ Apart /\ Opened /\ Cloned /\ Undisturbed /\ LeftBehind /\ Kept /\ LeasedNamesShowCurrent
  BY DEF IInv
<1>2. /\ pc = "prepare" /\ pc' = "swap"
      /\ InPair /\ InPair' /\ HasClone /\ HasClone' /\ Here' = Here
      /\ UNCHANGED <<method, lock, plan, known, knownKeeper, outcome, writes, faults, at,
                     current, intruded, bytes, shares, keeper, atName, atTemporary>>
      /\ Here \in Files /\ at.duplicate \in Inodes
      /\ bytes[at.clone] = bytes[at.duplicate]
      /\ stamp' = [stamp EXCEPT ![at.clone] = at.stamp]
  BY <1>1 DEF Prepare, Discarded, Settle, Strand, Concluded, Go, history, InPair, HasClone, Opened, Here
<1>3. /\ at.clone \in Inodes /\ at.clone # at.duplicate /\ atTemporary[Here] = at.clone
      /\ \A g \in Files : atName[g] # at.clone
  BY <1>1, <1>2 DEF Cloned, Apart
<1>4. /\ stamp' \in [Inodes -> Contents] /\ stamp'[at.clone] = at.stamp
      /\ \A j \in Inodes : j # at.clone => stamp'[j] = stamp[j]
  BY <1>1, <1>2, <1>3 DEF TypeOK
<1>5. \A g \in Files : /\ FileAt(atName[g])' = FileAt(atName[g]) /\ Shows(g)' = Shows(g)
                       /\ Hides(g)' = Hides(g)
  <2>1. \A g \in Files : atName[g] # NoInode => atName[g] \in Inodes
    BY <1>1 DEF TypeOK, Numbers, Inodes, NoInode
  <2>2. \A g \in Files : FileAt(atTemporary[g])'.bytes = FileAt(atTemporary[g]).bytes
    BY <1>2 DEF FileAt
  <2> QED BY <1>2, <1>3, <1>4, <2>1, <2>2 DEF FileAt, Shows, Hides
<1>6. TypeOK' /\ Apart'
  BY <1>1, <1>2, <1>4 DEF TypeOK, Apart, Steps
<1>7. Opened' /\ Cloned'
  BY <1>1, <1>2, <1>3, <1>4 DEF Opened, Cloned, HasClone
<1>8. Undisturbed' /\ LeftBehind'
  BY <1>1, <1>2 DEF Undisturbed, LeftBehind, InPair
<1>9. Kept'
  BY <1>1, <1>2, <1>5 DEF Kept
<1>10. LeasedNamesShowCurrent'
  BY <1>1, <1>2, <1>5 DEF LeasedNamesShowCurrent
<1> QED
  BY <1>6, <1>7, <1>8, <1>9, <1>10 DEF IInv

(* The exchange, either way, swaps what shows with what equals it.         *)
LEMMA Exchanges ==
    ASSUME IInv, \/ Swap /\ pc' # "planned"
                 \/ Restore /\ pc' # "planned"
    PROVE  IInv'
<1> USE Bounds
<1>1. TypeOK /\ Apart /\ Opened /\ Cloned /\ Undisturbed /\ LeftBehind /\ Kept /\ LeasedNamesShowCurrent
  BY DEF IInv
<1>2. /\ \/ pc = "swap" /\ pc' = "inspect"
         \/ pc = "restore" /\ pc' = "restored"
      /\ Exchanged
      /\ UNCHANGED <<method, lock, plan, known, knownKeeper, outcome, writes, faults, at,
                     current, intruded>>
  BY DEF Swap, Restore, Discarded, Settle, Strand, Concluded, Go, history
<1>3. InPair /\ InPair' /\ HasClone /\ HasClone' /\ Here' = Here /\ Here \in Files /\ at.duplicate \in Inodes
  BY <1>1, <1>2 DEF InPair, HasClone, Opened, Here
<1>4. /\ atName[Here] # NoInode /\ atTemporary[Here] # NoInode
      /\ atName'[Here] = atTemporary[Here] /\ atTemporary'[Here] = atName[Here]
      /\ \A g \in Files : g # Here => atName'[g] = atName[g] /\ atTemporary'[g] = atTemporary[g]
      /\ UNCHANGED <<bytes, stamp, shares, keeper>>
      /\ atName' \in [Files -> Numbers] /\ atTemporary' \in [Files -> Numbers]
  BY <1>1, <1>2, <1>3 DEF Exchanged, TypeOK
<1>5. \A g \in Files :
        /\ g # Here => /\ FileAt(atName[g])' = FileAt(atName[g])
                       /\ Shows(g)' = Shows(g) /\ Hides(g)' = Hides(g)
        /\ FileAt(atName[Here])' = FileAt(atTemporary[Here])
        /\ FileAt(atTemporary[Here])' = FileAt(atName[Here])
        /\ Shows(Here)' = Hides(Here) /\ Hides(Here)' = Shows(Here)
  BY <1>2, <1>3, <1>4 DEF FileAt, Shows, Hides
<1>6. TypeOK'
  BY <1>1, <1>2, <1>4 DEF TypeOK, Steps
<1>7. Apart'
  BY <1>1, <1>3, <1>4 DEF Apart
<1>8. Opened' /\ Cloned'
  BY <1>1, <1>2, <1>3, <1>4 DEF Opened, Cloned, HasClone
<1>9. Undisturbed'
  BY <1>1, <1>2, <1>3, <1>4 DEF Undisturbed, Cloned
<1>10. LeftBehind'
  <2>1. pc \in {"swap", "restore"} /\ pc' \in {"inspect", "restored"}
    BY <1>2
  <2>2. Here \in plan /\ outcome[Here] = "none" /\ method # "dedupe-range"
    BY <1>1, <1>3, <2>1 DEF LeftBehind
  <2> QED BY <1>1, <1>2, <1>3, <1>4, <2>1, <2>2 DEF LeftBehind
<1>11. Kept'
  <2>1. \A g \in Files : (Shows(g) \/ Hides(g))'
    <3>1. ASSUME NEW g \in Files PROVE Shows(g)' \/ Hides(g)'
      <4>1. Shows(g) \/ Hides(g)
        BY <1>1 DEF Kept
      <4>2. CASE g = Here
        <5>1. (Shows(g)' <=> Hides(g)) /\ (Hides(g)' <=> Shows(g))
          BY <1>3, <1>5, <4>2
        <5> QED BY <4>1, <5>1
      <4> QED BY <1>5, <4>1, <4>2
    <3> QED BY <3>1
  <2>2. CASE pc = "swap"
    <3>1. atTemporary[Here] = at.clone /\ bytes[at.clone] = bytes[at.duplicate] /\ Shows(Here)
      BY <1>1, <2>2 DEF Cloned, HasClone, Kept
    <3>2. Hides(Here)'
      BY <1>3, <1>5, <3>1
    <3>3. ASSUME atTemporary'[Here] = at.duplicate PROVE Shows(Here)'
      <4>1. FileAt(atTemporary[Here]).bytes = FileAt(atName[Here]).bytes
        BY <1>4, <3>1, <3>3 DEF FileAt
      <4> QED BY <1>3, <1>5, <3>1, <4>1 DEF Shows, Hides
    <3> QED BY <1>2, <1>3, <2>1, <2>2, <3>2, <3>3 DEF Kept
  <2>3. CASE pc = "restore"
    <3>1. ASSUME atTemporary'[Here] = at.clone PROVE Shows(Here)'
      BY <1>1, <1>3, <1>4, <1>5, <2>3, <3>1 DEF Kept
    <3> QED BY <1>2, <1>3, <2>1, <2>3, <3>1 DEF Kept
  <2> QED BY <1>2, <2>2, <2>3
<1>12. LeasedNamesShowCurrent'
  <2>1. ASSUME Here \notin intruded PROVE FileAt(atTemporary[Here]) = FileAt(atName[Here])
    <3>1. {atName[Here], atTemporary[Here]} = {at.duplicate, at.clone}
      BY <1>1, <1>2, <2>1 DEF Undisturbed, Cloned
    <3>2. /\ bytes[at.clone] = bytes[at.duplicate] /\ stamp[at.clone] = at.stamp
          /\ stamp[at.duplicate] = at.stamp
      BY <1>1, <1>2, <1>3 DEF Cloned, Opened
    <3> QED BY <1>4, <3>1, <3>2 DEF FileAt
  <2> QED BY <1>1, <1>2, <1>3, <1>5, <2>1 DEF LeasedNamesShowCurrent
<1> QED
  BY <1>6, <1>7, <1>8, <1>9, <1>10, <1>11, <1>12 DEF IInv

-------------------------------------------------------------------------------
(* A step that changes nothing keeps it.                                   *)
LEMMA StutterInv == ASSUME IInv, UNCHANGED vars PROVE IInv'
<1>1. /\ TypeOK /\ Apart /\ Opened /\ Cloned /\ Undisturbed /\ LeftBehind /\ Kept
      /\ LeasedNamesShowCurrent /\ UNCHANGED <<disk, history, sweep, method, lock, writes, faults>>
  BY DEF IInv, vars
<1>2. /\ Apart' /\ LeasedNamesShowCurrent'
      /\ UNCHANGED <<bytes, stamp, shares, keeper, atName, atTemporary, current, intruded>>
      /\ \A g \in Files : /\ Shows(g)' = Shows(g) /\ Hides(g)' = Hides(g)
                          /\ FileAt(atTemporary[g])' = FileAt(atTemporary[g])
  BY <1>1, NothingMoved
<1>3. UNCHANGED <<pc, plan, known, knownKeeper, at, outcome>> /\ Here' = Here
  BY <1>1 DEF sweep, Here
<1>4. TypeOK' /\ Opened' /\ Cloned'
  BY <1>1, <1>2, <1>3 DEF TypeOK, Opened, Cloned, InPair, HasClone
<1>5. Undisturbed' /\ LeftBehind' /\ Kept'
  BY <1>1, <1>2, <1>3 DEF Undisturbed, LeftBehind, Kept, Opened, InPair
<1> QED
  BY <1>2, <1>4, <1>5 DEF IInv

(* Every step keeps it.                                                    *)
LEMMA StepInv == IInv /\ [Next]_vars => IInv'
<1> SUFFICES ASSUME IInv, [Next]_vars PROVE IInv'
  OBVIOUS
<1>1. CASE ToolWrites \/ Intrude \/ KeeperWritten
  BY <1>1, UsersWrite
<1>2. CASE ToolTakes \/ ToolLeaves \/ Plan \/ Hold \/ Finish \/ Dies
  BY <1>2, BetweenPairs
<1>3. CASE OpenPair
  BY <1>3, Opens
<1>4. CASE Clone \/ CloneAgain
  <2>1. \/ \E from \in {"clone", "reclone"} : CloneTo(from)
        \/ Clone /\ pc' = "leftover"
        \/ pc' = "planned" /\ \E from \in {"clone", "reclone"} : Fails(from)
    BY <1>4 DEF Clone, CloneAgain, Fails, Settle, Concluded, Go
  <2> QED BY <2>1, Clones, Looks, Settles
<1>5. CASE Reclaim
  <2>1. pc' # "planned" \/ (pc' = "planned" /\ Fails("leftover"))
    BY <1>5 DEF Reclaim, Fails, Settle, Concluded, Go
  <2> QED BY <1>5, <2>1, Reclaims, Settles
<1>6. CASE Prepare
  BY <1>6, Prepares, Settles
<1>7. CASE Swap \/ Restore
  BY <1>7, Exchanges, Settles
<1>8. CASE Inspect \/ Compare
  <2>1. pc' # "planned"
    BY <1>8 DEF Inspect, Compare, Go
  <2> QED BY <1>8, <2>1, Looks
<1>9. CASE Restored \/ Unlink
  <2>1. pc' = "planned"
    BY <1>9 DEF Restored, Unlink, Discarded, Settle, Strand, Concluded
  <2> QED BY <1>9, <2>1, Settles
<1>10. CASE DedupeRange
  BY <1>10, Looks, Settles
<1>11. CASE UNCHANGED vars
  BY <1>11, StutterInv
<1> QED
  BY <1>1, <1>2, <1>3, <1>4, <1>5, <1>6, <1>7, <1>8, <1>9, <1>10, <1>11 DEF Next, SweepStep

-------------------------------------------------------------------------------
(* Every variable keeps to its range.                                      *)
THEOREM SharingTypeCorrect == Spec => []TypeOK
<1>1. IInv => TypeOK
  BY DEF IInv
<1> QED
  BY <1>1, InitInv, StepInv, PTL DEF Spec

(* A name that nobody has replaced behind the lease shows what the build    *)
(* has made of it, bytes and stamp, at whatever step a sweep is or died:    *)
(* between the swap and the removal of the original it is the clone that    *)
(* stands there, which share_macos.rs compares and stamps before it swaps.  *)
THEOREM LeasedNamesNeverChange == Spec => []LeasedNamesShowCurrent
<1>1. IInv => LeasedNamesShowCurrent
  BY DEF IInv
<1> QED
  BY <1>1, InitInv, StepInv, PTL DEF Spec

(* What users have written is not lost even where they write without the   *)
(* lock and whatever call of the sweep fails: what a sweep removes, the     *)
(* original or a leftover, is elsewhere byte for byte; and beside a file    *)
(* that is reported as shared nothing is left.                             *)
THEOREM NothingIsLost == Spec => []CurrentIsKept
<1>1. IInv => CurrentIsKept
  <2> SUFFICES ASSUME IInv, NEW g \in Files
               PROVE  /\ current[g].bytes \in
                           {NoFile.bytes, FileAt(atName[g]).bytes, FileAt(atTemporary[g]).bytes}
                      /\ outcome[g] = "shared" => atTemporary[g] = NoInode
    BY DEF CurrentIsKept
  <2>1. LeftBehind /\ Kept
    BY DEF IInv
  <2> QED BY <2>1 DEF LeftBehind, Kept, Shows, Hides, NoFile
<1> QED
  BY <1>1, InitInv, StepInv, PTL DEF Spec
===============================================================================
