---------------------------------- MODULE Pool ----------------------------------
(***************************************************************************)
(* The files a session knows, and what it shares of them (cli/dedupe.rs:    *)
(* Pool, Focus; cli/watch.rs: start, process).  A session shares everything *)
(* once, and from then on only what a build has written since: files it had *)
(* not seen, with those that are as long, in whatever cache those lie.      *)
(* Which of them go together is SharePlan's, how two are shared is          *)
(* Sharing's, how the events get here Watch's and Inventory's business.     *)
(*                                                                         *)
(* A file has an inode, made anew when it is replaced; an inode has contents *)
(* and a cluster of blocks.  Every file has one name and lies in a           *)
(* directory of its own.                                                    *)
(***************************************************************************)
EXTENDS Integers, FiniteSets, Sequences, SharePlan

CONSTANTS
    Places,       \* <<root, name>>, both numbers
    LengthOf,     \* [contents -> length]
    First,        \* contents of the files there are to begin with
    Rewritten,    \* contents that builds write
    Methods,      \* how filesystems share: "clone-and-swap", "dedupe-range"
    MaxWrites, MaxLosses

(* There are finitely many files; one that is too short to be shared is none *)
(* here, and what a print is never says that it could not be taken.          *)
ASSUME PoolAssumption ==
    /\ IsFiniteSet(Places) /\ Places \subseteq Nat \X Nat
    /\ \A c \in DOMAIN LengthOf : LengthOf[c] \in Nat /\ LengthOf[c] >= Minimum
    /\ "unread" \notin DOMAIN LengthOf /\ Rewritten \subseteq DOMAIN LengthOf
    /\ First \subseteq [1..Cardinality(Places) -> DOMAIN LengthOf]
    /\ Methods \subseteq {"clone-and-swap", "dedupe-range"}

VARIABLES
    method,       \* of the filesystem they lie on
    disk,         \* [place -> inode], 0 where there is none
    data,         \* the contents and the cluster of every inode there has been
    busy,         \* roots whose lock a build holds
    heard, again, \* what was heard of: files in each root, roots to read as a whole
    stocks,       \* what is known: [root -> whether it takes part, and its files]
    doing, root, names, fresh, pairs, held,       \* the turn that is under way
    passed,       \* history: inodes that need not be shared any more
    writes, losses

pool == <<method, disk, data, busy, heard, again, stocks, doing, root, names, fresh, pairs,
          held, passed, writes, losses>>

Roots == {p[1] : p \in Places}
Key(p) == Cardinality({q \in Places : q[1] < p[1] \/ (q[1] = p[1] /\ q[2] <= p[2])})
FilesIn(r) == {p \in Places : p[1] = r}
None == [inode |-> 0, length |-> 0, cluster |-> 0]
Apart == [part |-> FALSE, files |-> [p \in Places |-> None]]
AllOfThem == [all |-> TRUE, of |-> {}]
Only(inodes) == [all |-> FALSE, of |-> inodes]

(* What is seen of a file; no cluster where the filesystem does not tell.    *)
Facts(p) ==
    IF disk[p] = 0 THEN None
    ELSE [inode |-> disk[p], length |-> LengthOf[data[disk[p]].contents],
          cluster |-> IF method = "dedupe-range" THEN 0 ELSE data[disk[p]].cluster]

Known == {stocks[p[1]].files[p].inode : p \in Places} \ {0}

-------------------------------------------------------------------------------
PoolInit ==
    /\ method \in Methods
    /\ disk = [p \in Places |-> Key(p)]
    /\ \E contents \in First :
         data = [i \in DOMAIN contents |-> [contents |-> contents[i], cluster |-> i]]
    /\ busy = {}
    /\ heard = [r \in Roots |-> {}] /\ again = {}
    /\ stocks = [r \in Roots |-> Apart]
    /\ doing = "start" /\ root = 0 /\ names = Roots /\ fresh = AllOfThem /\ pairs = {}
    /\ held = [root |-> 0, got |-> FALSE]
    /\ passed = {} /\ writes = 0 /\ losses = 0

Turn(left) == UNCHANGED <<method, left>>
Beside(left) == UNCHANGED <<method, stocks, doing, root, names, fresh, pairs, held, left>>

(* A build holds the lock of its cache while it writes.                      *)
BuildTakes(r) ==
    /\ r \notin busy /\ ~(held.root = r /\ held.got) /\ writes < MaxWrites
    /\ busy' = busy \cup {r}
    /\ Beside(<<disk, data, heard, again, passed, writes, losses>>)
BuildLeaves(r) ==
    /\ r \in busy /\ busy' = busy \ {r}
    /\ Beside(<<disk, data, heard, again, passed, writes, losses>>)

(* It replaces a file, writes into it where it lies, or removes it.  What is *)
(* written again after it was read need not be shared.                      *)
BuildRewrites(p) ==
    /\ p[1] \in busy /\ writes < MaxWrites /\ writes' = writes + 1
    /\ \/ \E c \in Rewritten :
            /\ data' = Append(data, [contents |-> c, cluster |-> -writes'])
            /\ disk' = [disk EXCEPT ![p] = Len(data')]
            /\ UNCHANGED passed
       \/ /\ disk[p] # 0
          /\ \E c \in Rewritten :
               data' = [data EXCEPT ![disk[p]] = [contents |-> c, cluster |-> -writes']]
          /\ passed' = passed \cup ({disk[p]} \cap Known)
          /\ UNCHANGED disk
       \/ /\ disk[p] # 0 /\ disk' = [disk EXCEPT ![p] = 0] /\ UNCHANGED <<data, passed>>
    /\ heard' = [heard EXCEPT ![p[1]] = @ \cup {p}]
    /\ Beside(<<busy, again, losses>>)

(* Events are lost: every file counts as changed.                           *)
Lose ==
    /\ losses < MaxLosses /\ doing # "start" /\ losses' = losses + 1
    /\ heard' = [r \in Roots |-> FilesIn(r)]
    /\ Beside(<<disk, data, busy, again, passed, writes>>)

(* A cache is removed by hand and made anew: the session forgets what it     *)
(* knew, and adopts one that it has to read as a whole.                     *)
Appear(r) ==
    /\ doing = "wait" /\ r \notin busy /\ losses < MaxLosses /\ losses' = losses + 1
    /\ disk' = [p \in Places |-> IF p \in FilesIn(r) THEN 0 ELSE disk[p]]
    /\ stocks' = [stocks EXCEPT ![r] = Apart]
    /\ heard' = [heard EXCEPT ![r] = {}] /\ again' = again \cup {r}
    /\ UNCHANGED <<method, data, busy, doing, root, names, fresh, pairs, held, passed, writes>>

-------------------------------------------------------------------------------
(* A root is admitted when its lock is free, and its files are listed; what  *)
(* it had is forgotten, but for which inodes those were.                    *)
Stocked(r) ==
    IF r \in busy THEN Apart
    ELSE [part |-> TRUE, files |-> [p \in Places |-> IF p \in FilesIn(r) THEN Facts(p) ELSE None]]
NewIn(listed, known) ==
    {[inode |-> listed[p].inode, length |-> listed[p].length] :
        p \in {q \in Places : listed[q].inode \notin known \cup {0}}}

StockAll ==
    /\ doing = "start"
    /\ IF names = {} THEN doing' = "plan" /\ UNCHANGED <<stocks, names>>
       ELSE \E r \in names : /\ names' = names \ {r}
                             /\ stocks' = [stocks EXCEPT ![r] = Stocked(r)]
                             /\ UNCHANGED doing
    /\ Turn(<<disk, data, busy, heard, again, root, fresh, pairs, held, passed, writes, losses>>)

(* A root something was heard of, whose lock is free now.                    *)
Process(r) ==
    /\ doing = "wait" /\ r \notin busy /\ (heard[r] # {} \/ r \in again)
    /\ root' = r /\ doing' = IF r \in again THEN "stock" ELSE "note"
    /\ names' = heard[r] /\ heard' = [heard EXCEPT ![r] = {}] /\ again' = again \ {r}
    /\ Turn(<<disk, data, busy, stocks, fresh, pairs, held, passed, writes, losses>>)

Stock ==
    /\ doing = "stock" /\ doing' = "plan"
    /\ LET old == stocks[root].files
       IN fresh' = Only(NewIn(Stocked(root).files, {old[p].inode : p \in Places}))
    /\ stocks' = [stocks EXCEPT ![root] = Stocked(root)]
    /\ Turn(<<disk, data, busy, heard, again, root, names, pairs, held, passed, writes, losses>>)

(* What is there now of the files that were heard of, in a root that takes   *)
(* part.  Fresh is an inode that none of those had.                         *)
PresentNow(wanted) == [p \in Places |-> IF p \in wanted THEN Facts(p) ELSE None]

(* Mutant: fresh is a file that was not there.                              *)
FreshAppeared(wanted) ==
    NewIn([p \in Places |-> IF stocks[root].files[p].inode = 0 THEN PresentNow(wanted)[p] ELSE None], {})

FreshNoted(wanted) == NewIn(PresentNow(wanted), {stocks[root].files[p].inode : p \in wanted})

Note ==
    /\ doing = "note" /\ doing' = "plan"
    /\ IF stocks[root].part
       THEN /\ stocks' = [stocks EXCEPT ![root].files =
                             [p \in Places |-> IF p \in names THEN PresentNow(names)[p] ELSE @[p]]]
            /\ fresh' = Only(FreshNoted(names))
       ELSE fresh' = Only({}) /\ UNCHANGED stocks
    /\ Turn(<<disk, data, busy, heard, again, root, names, pairs, held, passed, writes, losses>>)

-------------------------------------------------------------------------------
(* The files of one length, by length, in every root that takes part.        *)
Indexed == {p \in Places : stocks[p[1]].part /\ stocks[p[1]].files[p].inode # 0}
OfLength(n) == {p \in Indexed : stocks[p[1]].files[p].length = n}

(* Lengths that repeat; of a focus, those of what is fresh.                  *)
Lengths ==
    {n \in IF fresh.all THEN {stocks[p[1]].files[p].length : p \in Indexed}
           ELSE {f.length : f \in fresh.of} : Cardinality(OfLength(n)) > 1}

Item(p) ==
    LET f == stocks[p[1]].files[p]
    IN [place |-> Key(p), file |-> f.inode, volume |-> 1, len |-> f.length,
        method |-> method, links |-> 1, owner |-> "caller", mode |-> "plain",
        extras |-> IF method = "dedupe-range" THEN "unobserved" ELSE "plain",
        cluster |-> f.cluster]
Items == {Item(p) : p \in UNION {OfLength(n) : n \in Lengths}}
PlaceOf(item) == CHOOSE p \in Places : Key(p) = item.place

(* A group with a fresh member.                                             *)
Focused(group) ==
    fresh.all \/ \E i \in group : i.file \in {f.inode : f \in fresh.of}

(* A file is read if it still is the one that was recorded, of its length.   *)
PrintOf(i) ==
    IF disk[PlaceOf(i)] = i.file /\ LengthOf[data[i.file].contents] = i.len
    THEN data[i.file].contents ELSE "unread"

Compare ==
    /\ doing = "plan" /\ doing' = "settle"
    /\ pairs' = Plan(UNION {Split(g, [i \in g |-> PrintOf(i)]) :
                                g \in {h \in Groups(Items) : Focused(h)}})
    /\ Turn(<<disk, data, busy, heard, again, stocks, root, names, fresh, held, passed, writes,
              losses>>)

(* The pairs of one root's duplicates come one after the other: its lock is  *)
(* tried once and kept for all of them.  One that is held withholds them, one *)
(* that has changed meanwhile is overtaken: neither is tried again; nor is   *)
(* one that was shared with a file that was written again since it was read.*)
Settle ==
    /\ doing = "settle"
    /\ \E pair \in pairs :
         LET r == PlaceOf(pair.other)[1]
             lease == IF held.root = r THEN held ELSE [root |-> r, got |-> r \notin busy]
             there(i) == PrintOf(i) # "unread" IN
         /\ \A other \in pairs : r <= PlaceOf(other.other)[1]
         /\ pairs' = pairs \ {pair}
         /\ IF pair.pairing # "share"
            THEN UNCHANGED <<held, disk, data, passed>>
            ELSE /\ held' = lease
                 /\ IF /\ lease.got /\ there(pair.kept) /\ there(pair.other)
                       /\ PrintOf(pair.kept) = PrintOf(pair.other)
                    THEN /\ passed' = IF pair.kept.file \in passed
                                      THEN passed \cup {pair.other.file} ELSE passed
                         /\ IF Replaces(method)
                            THEN /\ data' = Append(data, data[pair.kept.file])
                                 /\ disk' = [disk EXCEPT ![PlaceOf(pair.other)] = Len(data')]
                            ELSE /\ data' = [data EXCEPT ![pair.other.file].cluster =
                                                            data[pair.kept.file].cluster]
                                 /\ UNCHANGED disk
                    ELSE passed' = passed \cup {pair.other.file} /\ UNCHANGED <<disk, data>>
    /\ Turn(<<busy, heard, again, stocks, doing, root, names, fresh, writes, losses>>)

Done ==
    /\ doing = "settle" /\ pairs = {}
    /\ doing' = "wait" /\ root' = 0 /\ names' = {} /\ fresh' = Only({}) /\ held' = [root |-> 0, got |-> FALSE]
    /\ Turn(<<disk, data, busy, heard, again, stocks, pairs, passed, writes, losses>>)

PoolNext ==
    \/ \E r \in Roots : BuildTakes(r) \/ BuildLeaves(r) \/ Appear(r) \/ Process(r)
    \/ \E p \in Places : BuildRewrites(p)
    \/ Lose \/ StockAll \/ Stock \/ Note \/ Compare \/ Settle \/ Done

PoolSpec == PoolInit /\ [][PoolNext]_pool

-------------------------------------------------------------------------------
(* Sharing what is fresh leaves out nothing: while a session waits, any two  *)
(* equal files that it knows as they are share their blocks, in whatever     *)
(* order caches were written, heard of and processed; but for those that     *)
(* were written again after they had been read, or were shared with one that *)
(* was, and those it tried to share once and could not ("prunes and shares   *)
(* only the affected work", docs/usage.md).                                  *)
NothingLeftUnshared ==
    doing = "wait" =>
      \A p, q \in Indexed :
        LET i == disk[p]
            k == disk[q]
        IN (/\ p # q /\ {i, k} \cap ({0} \cup passed) = {}
            /\ stocks[p[1]].files[p].inode = i /\ stocks[q[1]].files[q].inode = k
            /\ data[i].contents = data[k].contents) => data[i].cluster = data[k].cluster
===============================================================================
