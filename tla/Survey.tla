--------------------------------- MODULE Survey ---------------------------------
(***************************************************************************)
(* A scan (cli/scan.rs): the roots that are accepted are walked, many       *)
(* directories at a time.  A directory is listed, admitted as a candidate   *)
(* or not, and summed up when everything below it has been.  A path is a    *)
(* sequence of names; the disk does not change while it is scanned, but a   *)
(* listing or an entry may fail to be read.                                 *)
(***************************************************************************)
EXTENDS Tallies, Gates, Artifacts

CONSTANTS
    Paths,        \* the directories that may be there
    MarkersIn,    \* the names of the files in each that say what it is
    FileNames,    \* the names of the files that are counted
    Disks,        \* the disks that are scanned
    Requests,     \* what is asked of the scan
    MaxFaults     \* how many reads fail

(* A path is a sequence, and what lies above a directory is one; an inode    *)
(* has some blocks; and where candidates are only sighted nothing is        *)
(* allocated, while all children are measured (scan.rs: scan, sighting).     *)
ASSUME SurveyAssumption ==
    /\ IsFiniteSet(Paths) /\ IsFiniteSet(FileNames) /\ MaxFaults \in Nat
    /\ \A p \in Paths : /\ p \in Seq({p[i] : i \in DOMAIN p})
                        /\ \A n \in 1..Len(p) : SubSeq(p, 1, n) \in Paths
    /\ \A r \in Requests :
         /\ r.roots \in Seq(Paths) /\ r.excludes \subseteq Paths /\ r.measure \in Measures
         /\ IF r.descent = "measure" THEN r.only = "any" ELSE r.measure = "logical"
    /\ \A d \in Disks :
         /\ d.dirOf \in [FileNames -> Paths] /\ d.links \subseteq Paths
         /\ \A n \in FileNames : IsFiniteSet(d.blocksOf[d.inodeOf[n]])
         /\ \A p \in Paths : d.used[d.volumeOf[p]] \in Nat

VARIABLES
    disk,         \* links, volumes, where each name lies, its inode and the blocks of that
    request,      \* roots, excludes, measure, and how far to descend
    pending,      \* the roots that are still to be accepted
    roots,        \* the roots that are walked
    visits,       \* [root, path] -> how far its walk is, and what it knows
    found,        \* the candidates
    directories,  \* the directories that are reported
    counts,       \* what was counted on the way
    faults,
    report        \* the result, when there is one

survey == <<disk, request, pending, roots, visits, found, directories, counts, faults, report>>

-------------------------------------------------------------------------------
Below(outer, p) == Len(outer) <= Len(p) /\ SubSeq(p, 1, Len(outer)) = outer
LastOf(p) == p[Len(p)]
Children(p) == {c \in Paths : Len(c) = Len(p) + 1 /\ Below(p, c)}
NamesIn(p) == {n \in FileNames : disk.dirOf[n] = p}
NamesOf(i) == {n \in FileNames : disk.inodeOf[n] = i}

(* What the system says that an inode allocates: its blocks, those too that  *)
(* it shares with others, of which it is a clone or a deduplicated copy.    *)
Occupied(i) == Cardinality(disk.blocksOf[i])

FileOf(n) ==
    LET i == disk.inodeOf[n] IN
    [len |-> 1, inode |-> i, allocation |-> Occupied(i), links |-> Cardinality(NamesOf(i))]
Files(names) == [n \in names |-> FileOf(n)]

Excluded(p) == \E e \in request.excludes : Below(e, p)

(* Directories of another volume are not listed, nor are links followed.    *)
SameVolume(p) == {c \in Children(p) \ disk.links : disk.volumeOf[c] = disk.volumeOf[p]}

LinksIn(p) == Children(p) \cap disk.links
WithOwner == {p \in Paths : "owner.json" \in MarkersIn[p]}

ListingOf(p) ==
    LET parent == SubSeq(p, 1, Len(p) - 1)
        dirs(q) == {LastOf(c) : c \in SameVolume(q)} IN
    Listing("directory", LastOf(p), MarkersIn[parent], dirs(parent),
            MarkersIn[p], dirs(p), "signature", "cache")

SiteOf(p) ==
    [shape |-> "directory", boundary |-> "same", area |-> "open",
     found |-> Found(ListingOf(p)), excluded |-> Excluded(p)]

(* Mutant: a directory below an artifact is taken for one of its own.       *)
AdmitsCandidateAnywhere(p, region) ==
    region # "root" /\ Admitted(SiteOf(p), [ask |-> "discover"])

(* Where a walk has come to: the root, a place of no artifact, or inside.   *)
AdmitsCandidate(p, region) == region = "open" /\ Admitted(SiteOf(p), [ask |-> "discover"])

SurveyInit ==
    /\ disk \in Disks
    /\ request \in Requests
    /\ pending = request.roots
    /\ roots = {}
    /\ visits = <<>>
    /\ found = {} /\ directories = {}
    /\ counts = [directories |-> 0, files |-> 0, links |-> 0, mounts |-> 0, errors |-> 0]
    /\ faults = 0
    /\ report = [state |-> "walking"]

-------------------------------------------------------------------------------
Visit(region) == [step |-> "waiting", region |-> region, admitted |-> FALSE,
                  own |-> EmptyTally(request.measure), tally |-> EmptyTally(request.measure)]

(* A root is a directory; what lies in another root, or is excluded, is not *)
(* walked again, and roots that lie in this one are not any more.           *)
Accept ==
    /\ pending # <<>>
    /\ LET p == Head(pending) IN
       IF p \in disk.links
       THEN /\ counts' = [counts EXCEPT !.errors = @ + 1]
            /\ UNCHANGED <<roots, visits>>
       ELSE IF Excluded(p) \/ \E r \in roots : Below(r, p)
       THEN UNCHANGED <<roots, visits, counts>>
       ELSE /\ roots' = {r \in roots : ~Below(p, r)} \cup {p}
            /\ visits' = [v \in {<<r, r>> : r \in roots'} |-> Visit("root")]
            /\ UNCHANGED counts
    /\ pending' = Tail(pending)
    /\ UNCHANGED <<disk, request, found, directories, faults, report>>

Ended(v, tally) ==
    visits' = [visits EXCEPT ![v].step = "done", ![v].tally = tally]

(* A directory that is excluded, or a repository that is not measured, has  *)
(* nothing in it; one that cannot be listed has something missing.          *)
PassBy ==
    /\ pending = <<>> /\ report.state = "walking"
    /\ \E v \in DOMAIN visits :
         /\ visits[v].step = "waiting"
         /\ Excluded(v[2]) \/ (request.descent # "measure" /\ LastOf(v[2]) = ".git")
         /\ Ended(v, EmptyTally(request.measure))
    /\ UNCHANGED <<disk, request, pending, roots, found, directories, counts, faults, report>>

FailToList ==
    /\ pending = <<>> /\ report.state = "walking"
    /\ faults < MaxFaults
    /\ \E v \in DOMAIN visits :
         /\ visits[v].step = "waiting" /\ ~Excluded(v[2])
         /\ Ended(v, FailedTally(request.measure))
    /\ counts' = [counts EXCEPT !.errors = @ + 1]
    /\ faults' = faults + 1
    /\ UNCHANGED <<disk, request, pending, roots, found, directories, report>>

(* What a candidate is called and how much of it is known.                  *)
CandidateAt(p, tally) ==
    [path |-> p, kind |-> KindOf(ListingOf(p)), usage |-> UsageOf(tally),
     contents |-> tally.contents, markers |-> tally.markers]

(* Below a root, one child alone may have been asked for.                   *)
Descended(v) ==
    {c \in SameVolume(v[2]) : v[2] = v[1] => request.only \in {"any", LastOf(c)}}

(* A walk that looks for candidates stops at each of them, and below the    *)
(* children where it was asked for those.                                   *)
Sight(v) ==
    LET p == v[2]
        depth == Len(p) - Len(v[1])
        admitted == AdmitsCandidate(p, visits[v].region) IN
    /\ found' = IF admitted THEN found \cup {CandidateAt(p, EmptyTally("logical"))} ELSE found
    /\ IF admitted \/ (/\ request.descent = "children"
                        /\ depth > IF request.only = "any" THEN 0 ELSE 1)
       THEN Ended(v, EmptyTally(request.measure))
       ELSE visits' = [w \in DOMAIN visits \cup {<<v[1], c>> : c \in Descended(v)} |->
                         IF w = v THEN [visits[v] EXCEPT !.step = "listed"]
                         ELSE IF w \in DOMAIN visits THEN visits[w]
                         ELSE Visit("open")]

(* An entry of which nothing can be learnt is missing from the sum.         *)
Measured(v, lost) ==
    LET p == v[2]
        admitted == AdmitsCandidate(p, visits[v].region)
        inside == admitted \/ visits[v].region = "inside"
        own == Counted(request.measure, Files(NamesIn(p) \ lost), LinksIn(p),
                       {p} \cap WithOwner, Cardinality(lost)) IN
    /\ visits' = [w \in DOMAIN visits \cup {<<v[1], c>> : c \in Descended(v)} |->
                    IF w = v THEN [visits[v] EXCEPT !.step = "listed", !.own = own,
                                                    !.admitted = admitted]
                    ELSE IF w \in DOMAIN visits THEN visits[w]
                    ELSE Visit(IF inside THEN "inside" ELSE "open")]
    /\ UNCHANGED found

Walk ==
    /\ pending = <<>> /\ report.state = "walking"
    /\ \E v \in DOMAIN visits :
         LET p == v[2] IN
         /\ visits[v].step = "waiting" /\ ~Excluded(p)
         /\ request.descent = "measure" \/ LastOf(p) # ".git"
         /\ \E lost \in SUBSET NamesIn(p) :
              /\ faults' = faults + Cardinality(lost) /\ faults' <= MaxFaults
              /\ IF request.descent = "measure" THEN Measured(v, lost) ELSE lost = {} /\ Sight(v)
              /\ counts' = [counts EXCEPT
                   !.directories = @ + 1,
                   !.files = @ + Cardinality(NamesIn(p) \ lost),
                   !.links = @ + Cardinality(LinksIn(p)),
                   !.mounts = @ + Cardinality(Children(p) \ (SameVolume(p) \cup disk.links)),
                   !.errors = @ + Cardinality(lost)]
    /\ UNCHANGED <<disk, request, pending, roots, directories, report>>

(* When all below it is summed up a directory is, and a candidate that is   *)
(* large enough is recorded with its sum.                                   *)
SumUp ==
    /\ \E v \in DOMAIN visits :
         LET p == v[2]
             below == {<<v[1], c>> : c \in SameVolume(p)} \cap DOMAIN visits
             tally == MergedAll(request.measure,
                        [w \in below \cup {v} |-> IF w = v THEN visits[v].own ELSE visits[w].tally])
             large == tally.logical >= request.minSize IN
         /\ visits[v].step = "listed"
         /\ \A w \in below : visits[w].step = "done"
         /\ Ended(v, tally)
         /\ found' = IF visits[v].admitted /\ large
                     THEN found \cup {CandidateAt(p, tally)} ELSE found
         /\ directories' =
              IF /\ ~visits[v].admitted /\ visits[v].region # "inside"
                 /\ request.descent = "measure" /\ large
                 /\ Len(p) - Len(v[1]) <= request.maxDepth
              THEN directories \cup {[path |-> p, usage |-> UsageOf(tally)]}
              ELSE directories
    /\ UNCHANGED <<disk, request, pending, roots, counts, faults, report>>

(* The roots of one volume are counted together, an error anywhere is told, *)
(* and of the directories no more than were asked for.                      *)
Report ==
    /\ report.state = "walking" /\ pending = <<>>
    /\ \A v \in DOMAIN visits : visits[v].step = "done"
    /\ LET of(S) == UsageOf(MergedAll(request.measure, [r \in S |-> visits[<<r, r>>].tally]))
           total == of(roots) IN
       report' = [state |-> "done",
                  usage |-> [total EXCEPT !.failures = Sets!Max({@, counts.errors})],
                  volumes |-> [d \in {disk.volumeOf[r] : r \in roots} |->
                     Reconciled(disk.used[d],
                        of({r \in roots : disk.volumeOf[r] = d}).allocation.allocated)]]
    /\ UNCHANGED <<disk, request, pending, roots, visits, found, directories, counts, faults>>

SurveyNext == Accept \/ PassBy \/ FailToList \/ Walk \/ SumUp \/ Report

SurveySpec == SurveyInit /\ [][SurveyNext]_survey

-------------------------------------------------------------------------------
(* The measure that is taken again before something is done to a candidate: *)
(* everything below it, and anything that is out of order refuses it.       *)
Under(p) == {q \in Paths : Below(p, q)}
SourceArea(p, q) == IF Len(q) > Len(p) THEN q[Len(p) + 1] ELSE "other"

Strictly(p, kind) ==
    LET within == {q \in Under(p) : \A l \in disk.links \ {q} : ~(Below(p, l) /\ Below(l, q))}
        walked == within \ disk.links IN
    IF \/ p \in disk.links
       \/ \E q \in walked : disk.volumeOf[q] # disk.volumeOf[p]
       \/ \E q \in within : LastOf(q) = ".git" /\ q # p
            /\ Preserved(kind, SourceArea(p, SubSeq(q, 1, Len(q) - 1)),
                         IF q \in disk.links THEN "linked-checkout" ELSE "repository")
    THEN FailedTally("allocated")
    ELSE Counted("allocated", Files(UNION {NamesIn(q) : q \in walked}), within \cap disk.links,
                 {}, 0)

(* Several that are to go together are measured as one.                     *)
Selected(candidates) ==
    UsageOf(MergedAll("allocated", [c \in candidates |-> Strictly(c.path, c.kind)]))

-------------------------------------------------------------------------------
BytesOf(inodes) == Total([i \in inodes |-> Occupied(i)])

(* The inodes that have no name left when some directories are deleted, and *)
(* the blocks that are free then: those that no other inode has.            *)
AllInodes == {disk.inodeOf[n] : n \in FileNames}
Unnamed(paths) ==
    {i \in AllInodes : \A n \in NamesOf(i) : \E p \in paths : Below(p, disk.dirOf[n])}
Freed(paths) ==
    LET blocks(inodes) == UNION {disk.blocksOf[i] : i \in inodes}
    IN Cardinality(blocks(Unnamed(paths)) \ blocks(AllInodes \ Unnamed(paths)))

(* The blocks that these inodes share, with each other or with one that     *)
(* stays, as often as they are counted.                                     *)
BlocksShared(i) == {b \in disk.blocksOf[i] : \E j \in AllInodes \ {i} : b \in disk.blocksOf[j]}
SharedBy(paths) == Cardinality(UNION {{i} \X BlocksShared(i) : i \in Unnamed(paths)})

(* What is said to be reclaimed is freed when it is deleted, by one that    *)
(* was scanned as by all that are selected together, but for the blocks its *)
(* inodes share: no inode of which some other directory has a name is       *)
(* counted, whatever the order of the walk, and nothing is said of what     *)
(* could not be seen completely. The measure that is taken before the       *)
(* deletion (measure.rs: strictly) is of the contents that were shown, or   *)
(* no candidate could ever be deleted.                                      *)
ReclaimableIsFreed ==
    /\ \A c \in found : Reclaimable(c.usage) <= Freed({c.path}) + SharedBy({c.path})
    /\ report.state = "done" =>
         \A chosen \in SUBSET found :
           LET paths == {c.path : c \in chosen} IN
           Reclaimable(Selected(chosen)) <= Freed(paths) + SharedBy(paths)
    /\ \A c \in found :
         LET again == Strictly(c.path, c.kind) IN
         (/\ request.measure = "allocated" /\ request.descent = "measure"
          /\ c.usage.failures = 0 /\ again.failures = 0
          /\ \A e \in request.excludes : ~Below(c.path, e))
            => CandidateId(1, c.path, c.kind, again)
                 = <<1, c.path, c.kind, c.usage, c.contents>>

(* Overlapping roots are counted once (scan.rs: roots): the bytes that are   *)
(* found of a volume are those of the distinct inodes below the outermost of *)
(* the roots on it, those they share as often as they have them, unless      *)
(* something could not be read, and attributed and unattributed bytes are    *)
(* the used ones (docs/usage.md). A root inside of another is not walked     *)
(* for itself, not even where it is another volume, which the outer walk     *)
(* does not enter.                                                           *)
OverlapsCountedOnce ==
    report.state = "done" =>
      \A d \in DOMAIN report.volumes :
        LET volume == report.volumes[d]
            asked == {request.roots[i] : i \in DOMAIN request.roots}
            outermost == {r \in asked : \A s \in asked : Below(s, r) => s = r}
            reached == {q \in Paths : \E r \in outermost :
                          /\ Below(r, q)
                          /\ \A s \in Paths : Below(r, s) /\ Below(s, q) =>
                               s \notin disk.links /\ ~Excluded(s) /\ disk.volumeOf[s] = d}
        IN /\ volume.attributed + volume.unattributed = volume.used
           /\ request.measure = "allocated" /\ report.usage.failures = 0 =>
                volume.measured = Saturated(BytesOf({disk.inodeOf[n] :
                                     n \in {m \in FileNames : disk.dirOf[m] \in reached}}))

(* Candidates lie apart from each other, from what is excluded and from     *)
(* what only a link leads to, whatever the order of the walk: what is       *)
(* selected is selected once, and nothing is inside of what is not.         *)
CandidatesLieApart ==
    \A c \in found :
      /\ \A e \in found : Below(c.path, e.path) => c.path = e.path
      /\ ~Excluded(c.path) /\ c.path \notin disk.links
===============================================================================
