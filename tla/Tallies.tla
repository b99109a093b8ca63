-------------------------------- MODULE Tallies --------------------------------
(***************************************************************************)
(* What is counted of a tree (cli/measure.rs, core/candidate.rs,           *)
(* core/size.rs).  A file is a name, an inode and its length; an inode has  *)
(* an allocation and a number of names, wherever these lie.  Numbers that    *)
(* are added one by one, each time as far as a counter goes, are added here  *)
(* at once.                                                                 *)
(***************************************************************************)
EXTENDS Integers, FiniteSets

Sets == INSTANCE FiniteSetsExt

CONSTANT MaxBytes    \* where sums of bytes stop

ASSUME TalliesAssumption == MaxBytes \in Nat

Saturated(n) == IF n > MaxBytes THEN MaxBytes ELSE n
SaturatedSub(m, n) == IF n > m THEN 0 ELSE m - n

(* The sum of what a function says: as many as there are units of it.       *)
Units(f) == UNION {{k} \X (1..f[k]) : k \in DOMAIN f}
Total(f) == Cardinality(Units(f))

Measures == {"logical", "allocated"}
Unmeasured == [state |-> "unmeasured", allocated |-> 0, reclaimable |-> 0]

(* The contents of a tree are a sum over its entries, in whatever order.    *)
ContentsOf(files, links) ==
    {<<"file", n, files[n].len, files[n].inode>> : n \in DOMAIN files}
        \cup {<<"link", l>> : l \in links}

(* What there is to say of files, which are named, and links, which hold no  *)
(* blocks: an inode with more than one name is noted, with how many were    *)
(* seen.                                                                    *)
Counted(measure, files, links, markers, lost) ==
    LET sized == IF measure = "allocated" THEN DOMAIN files ELSE {}
        single == {n \in sized : files[n].links <= 1}
        namesOf(i) == {n \in sized \ single : files[n].inode = i}
        any(i) == files[CHOOSE n \in namesOf(i) : TRUE]
    IN [measure |-> measure,
        logical |-> Saturated(Total([n \in DOMAIN files |-> files[n].len]) + Cardinality(links)),
        unlinked |-> Saturated(Total([n \in single |-> files[n].allocation])),
        linked |-> [i \in {files[n].inode : n \in sized \ single} |->
                      [allocation |-> any(i).allocation, links |-> any(i).links,
                       seen |-> Cardinality(namesOf(i))]],
        contents |-> ContentsOf(files, links), markers |-> markers, failures |-> lost]

EmptyTally(measure) == Counted(measure, [n \in {} |-> {}], {}, {}, 0)
FailedTally(measure) == Counted(measure, [n \in {} |-> {}], {}, {}, 1)

(* Mutant: what an inode holds is added up over what is said of it.         *)
OneInodeAddedUp(said) ==
    [allocation |-> Total([k \in DOMAIN said |-> said[k].allocation]),
     links |-> Sets!Max({said[k].links : k \in DOMAIN said}),
     seen |-> Total([k \in DOMAIN said |-> said[k].seen])]

(* What several say of one inode.                                           *)
OneInode(said) ==
    [allocation |-> Sets!Max({said[k].allocation : k \in DOMAIN said}),
     links |-> Sets!Max({said[k].links : k \in DOMAIN said}),
     seen |-> Total([k \in DOMAIN said |-> said[k].seen])]

(* What several tallies come to, whatever is merged with what.              *)
MergedAll(measure, tallies) ==
    LET keys == DOMAIN tallies IN
    [measure |-> IF \A k \in keys : tallies[k].measure = "allocated" THEN measure ELSE "logical",
     logical |-> Saturated(Total([k \in keys |-> tallies[k].logical])),
     unlinked |-> Saturated(Total([k \in keys |-> tallies[k].unlinked])),
     linked |-> [i \in UNION {DOMAIN tallies[k].linked : k \in keys} |->
                   OneInode([k \in {m \in keys : i \in DOMAIN tallies[m].linked} |->
                               tallies[k].linked[i]])],
     contents |-> UNION {tallies[k].contents : k \in keys},
     markers |-> UNION {tallies[k].markers : k \in keys},
     failures |-> Total([k \in keys |-> tallies[k].failures])]

AllocationOf(linked, inodes) == Total([i \in inodes |-> linked[i].allocation])

(* Mutant: an inode is reclaimed with the first of its names.               *)
UsageOfAnyName(tally) ==
    LET all == AllocationOf(tally.linked, DOMAIN tally.linked)
    IN [logical |-> tally.logical, failures |-> tally.failures,
        allocation |->
           IF tally.measure = "logical" THEN Unmeasured
           ELSE [state |-> "measured", allocated |-> Saturated(tally.unlinked + all),
                 reclaimable |-> Saturated(tally.unlinked + all)]]

(* What it uses, and what goes when it goes: an inode does with the last    *)
(* of its names.                                                            *)
UsageOf(tally) ==
    LET linked == tally.linked
        whole == {i \in DOMAIN linked : linked[i].seen >= linked[i].links}
    IN [logical |-> tally.logical, failures |-> tally.failures,
        allocation |->
           IF tally.measure = "logical" THEN Unmeasured
           ELSE [state |-> "measured",
                 allocated |-> Saturated(tally.unlinked + AllocationOf(linked, DOMAIN linked)),
                 reclaimable |-> Saturated(tally.unlinked + AllocationOf(linked, whole))]]

(* Nothing is promised of a tree that was not seen completely.              *)
Unknown == -1
Reclaimable(usage) ==
    IF usage.failures > 0 \/ usage.allocation.state = "unmeasured" THEN Unknown
    ELSE usage.allocation.reclaimable

(* What tells one state of a directory from another: who and where it is,   *)
(* what it was taken for and everything that was measured of it.            *)
CandidateId(identity, location, kind, tally) ==
    <<identity, location, kind, UsageOf(tally), tally.contents>>

(* The used bytes of a volume: those that were found, as far as there are   *)
(* so many, the rest, and what was found beyond them.                       *)
Reconciled(used, measured) ==
    LET attributed == IF measured < used THEN measured ELSE used IN
    [used |-> used, measured |-> measured, attributed |-> attributed,
     unattributed |-> SaturatedSub(used, attributed),
     overcount |-> SaturatedSub(measured, attributed)]
===============================================================================
