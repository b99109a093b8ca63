# Verification of storage-scout in TLA+

storage-scout finds build artifacts and caches on a disk and deletes, prunes or
shares them when nobody needs them. It does so unattended, from git hooks and a
resident watcher, among compilers and package managers that know nothing of it.
What must not go wrong is therefore: something is deleted that somebody still
claims or uses; a request is lost or is served by a sweep that began before it;
two sweeps work on the same files; a failure half-way leaves a state the next
run misreads. This directory models the protocols that are to prevent that,
checks them with TLC on small instances, and proves what matters most with
TLAPS for every instance.

## The system

| part | state | operations | talks to |
|---|---|---|---|
| run station (`coalesce.rs`, `store.rs`, `hook.rs`) | run lock, `pending` flag file, `requests.lock`, signal directory | raise, lower, take, raised, hold, wait; `drive`, `handed_off` | `auto`, hooks, the watcher, by files and locks |
| ownership (`core/ownership.rs`, `owners.rs`) | `owner.json` and `owner.lock` of others, git, a cache of git facts | `of`, `recheck`, `forget`, `complete_survey` | gates, scan, watch |
| gates (`core/gate.rs`, `core/lock.rs`) | none | admit, recheck, clear, clear_share, clear_prune, inspect | everything that touches a candidate |
| deletion (`apply.rs`, `busy.rs`, `observe.rs`, `measure.rs`, `platform/unix.rs`) | the plan, a lease on lock files, a handle on the tree | plan, check, settle, remove_tree | file system, builders, owners |
| watch session (`watch.rs`, `core/event.rs`) | world of candidates, dirty and waiting sets, pool, coverage | start, turn, process, reap, resight, reown | station, events, waiter threads |
| watch cache (`store.rs`, `watch.rs`, macOS) | the inventory and the last event in one database, a journal of changes | commit, invalidate, load, replay | watch session, the event stream |
| git answers (`observe/git.rs`, `owners.rs`, `core/event.rs`, `hook.rs`) | the last answer about each worktree | the questions of `landing`, `relevance`, forget | ownership, hooks |
| checkout release (`release.rs`, `release_socket.rs`) | record, endpoint, monitor lock, witness process | begin, prepare, serve, evidence | ownership, native events |
| sharing (`dedupe.rs`, `core/share.rs`, `share_*.rs`) | the files known, clusters of shared blocks, temporary files | stock, note, plan, share one file | gates, locks |
| pruning (`prune.rs`, `core/prune.rs`, `core/macho.rs`) | sessions and debug objects of rustc | gather, doomed, prune | gates, profile and session locks |
| managed stores (`managed.rs`, `toolchains.rs`, `engine.rs`) | the stores of other managers | list, review, reclaim | their managers |
| scan (`scan.rs`, `measure.rs`, `core/candidate.rs`, `core/size.rs`) | directories under way, tallies, candidates found | walk, admit, sum up | gates, artifacts, areas |
| artifacts and areas (`core/artifact.rs`, `location.rs`, `area.rs`, `table.rs`, `host.rs`) | none | classify, contains, area | gates, scan |
| commands (`main.rs`, `auto.rs`) | plan, preview, outcomes | clean, auto | all of the above |

What is hard: processes meet only through files and advisory locks; a lock is
taken on whatever inode a name stands for at that moment; facts are read one
after another while others change them; a process may end between any two
steps; a request may arrive in the gap between the last look and the letting
go; and a deletion is hundreds of steps that somebody may interrupt.

## Modules

**`RequestService`** says what the station promises, with no lock, flag or
process in sight: a request is answered by a sweep that begins after it was
made, one sweep answers all that wait when it begins, one sweep at a time, and
a process that fails may strand what is waiting.

**`Coalesce`** is the station in detail. Each operation under
`requests.lock` is one step; taking the run lock and touching the flag are
separate steps. `Request`, `Hold`, `HandOver`, `Lower`, `Run`, `Drop` and
`Check` are `drive` line by line; `Detach`, `Probe`, `Unprobe` and `Spawn` are
`handed_off` and the spawn that follows it; `Launch` to `Receive` are
`watching`, with the event stream as a bell that is closed, quiet or rung.
`RunFails` and `Dies` are a run that returns an error and a process that ends
anywhere. A flag line is a request number, so that what a sweep answers can be
told; the repository in it is abstracted.

**`Ownership`** holds the settlement operators of `core/ownership.rs` as
functions of the facts: `MarkerSettlement`, `WorktreeSettlement`, `SettlementOf`
(resolve and settlement), and `AdmitsDeletion`, the only way to a deletion
grant. **`Claims`** lets markers and worktree change one at a time around them.

**`Gates`** has one operator per gate of `core/gate.rs`. A site and an ask are
records of exactly the facts the gates distinguish; paths, kinds and devices
are reduced to the comparisons made of them.

**`Deletion`** composes gates and ownership into the protocol of `apply.rs`: a
cleaner scans, observes, surveys the lock files by name, reads ownership, tries
the locks one after another, rechecks, measures and verifies, opens the tree by
identity and clears it by handle in two passes, looks at the path once more and
removes it. Every one of those is a step, and so is every entry it unlinks.
Between any two, builders open, take and let go the lock files of their
profiles and write objects, the owner of the marker above takes its lock and
works, a person keeps or stops keeping, somebody moves the directory away, a
builder makes a new one, another cleaner does the same, and the cleaner dies.

**`Inspection`** is the pipeline of `gate.rs` (`pipeline`, `run`) and the
clearance that follows it: a site and an ask are chosen, the twelve gates are
evaluated in their order, the first rejection ends the run, and the stages an
explanation shows are kept beside the result.

**`Watch`** is one session of `watch.rs`. Its thread goes through the phases
`open` (start), `sight`, `ask`, `reap`, `prune`, `adopt`, `receive`, `take`,
`classify`, `decide`, `examine`, `settle` and `serve`; each signal, each cache
asked about, reaped, adopted or processed is a step, and `Probe` and `Serve` are
the two halves of `process`, before and after the locks are looked at. `round`
says which of `start`, `resight`, `reown` and `examine` the thread is in, since
they share `saw`, `lets_go`, `reap` and `adopt`. Beside it builds, users, git
and its hooks act, and one waiter per busy cache blocks on its lock. `Depth` and
`Hooks` are the platform: events of everything below the roots (macOS, Windows)
or of watched directories alone (Linux), with or without hooks. `told`, `untold`
and `skipped` are history: the code does not have them and the properties read
them. Deleting a cache, and a survey with the watches placed for it, are one
step each here.

**`Inventory`** is what the session keeps of its files on macOS: the pool in
memory, its copy in the database with the number of the last event, the journal
of what has still to be written, and the turns that bring them up to date. Events
are appended to a log, delivered in order, dropped under overflow and left out
when the session itself caused them (`IGNORE_SELF`). After a loss `lost_track` marks
`deps`, `incremental`, `build` and `examples` of each profile whose lock file the survey
knows, and lists each of them anew, but nothing below: `Parts` are the files there, and
of the other files nobody is told. The session dies between any
two steps; `Open` loads the copy and replays the log from the stored event.
`swapped`, `deferred`, `missed` and `refused` are history: `missed` are the files
of whose change nobody is told, because the event was dropped or a death came between.

**`Pool`** is which files a session compares (`Pool`, `Focus`): everything once,
then what is fresh with what is as long, in whatever cache that lies. `Compare`
uses the operators of `SharePlan`; `Settle` shares one pair under the lock of the
duplicate's cache. `passed` is history: files that a second reading did not find
fresh, those that were shared with one of them, and pairs that were tried and withheld.

**`SharePlan`** has the operators of `core/share.rs`: groups of one length on one
volume, split by fingerprints, the member that is kept, and how each other one is
paired with it. **`Dedupe`** is the command that carries a plan out, and may be given
again, on files nobody writes meanwhile. **`Sharing`** shares the pairs of one plan: on APFS by a clone
that is compared, given the file's attributes, swapped, compared again and, when
it differs, swapped back; on btrfs and XFS by ranges the kernel compares. A
builder under the lock, somebody who knows of no lock, and a death come between
any two steps, and any call may fail. A call that fails once the clone is made may leave
the temporary file behind (`Strand`): the clone that cannot be opened or discarded, or
the original that cannot be looked at or unlinked, or swapped back. The next sweep meets
what is left.

**`Sessions`** is a prune of one profile: the lease of the profile, the listing of
rustc's sessions, debug objects and images, what is doomed by which rule, and the
removals one after another, each session under its own lock. Builds come with a
cargo that holds the profile's lock and a rustc that holds its session's, and
either may be killed.

**`Release`** is the monitor of a checkout and one who asks it. The monitor binds
its endpoint, begins the record, watches, reads the tree, watches what it found,
passes a barrier through its own event stream, reads again, compares, records and
serves; it revokes at the first event. The one who asks probes the lock, reads
record and endpoint, asks, and probes again (`evidence`). Writes that are undone,
mapped writes without an event, killed monitors, and a directory that somebody moves
away and back, are steps. A reading lists the root and then the directory
(`ListRoot`, `ListDirectory`), which may be gone in between; inotify passes over a
directory that is not there when it should be watched (`WatchAll`), FSEvents covers
everything from the start.

**`Stores`** is a removal from the store of another manager: two surveys, each of
which reads the tool configurations one by one while people edit them, the
overrides, what is installed and what the engine calls prunable; the comparison
with what was reviewed; the permit; and the request to the manager.

**`Worktrees`** is the sequence of questions `observe/git.rs` asks about one linked
worktree, over commits that are the values of a few paths. `Work`, `EditTree`,
`Checkout`, `Merge`, `Fetch` and `Removed` move everything between two questions;
a hook wakes the answer when `relevance` says so. The commits that touched the first
path are a set here, of which each question takes the newest.

**`Survey`** walks the accepted roots, any directory that is listed next, admits
candidates through `Gates` and `Artifacts`, and sums up with **`Tallies`**, which has the
arithmetic of hard links, link counts and widths. An inode has blocks, and may share
them with others: clones, and the files this program itself has shared. What the system
says that it allocates (`Occupied`) counts those too. The code adds numbers one by one and
stops at the largest there is, each time; `Total` adds them at once, as the number of units
there are of all, which is the same of what is never negative and can be reasoned about.
**`Artifacts`** is the ordered table that
makes a kind of a name, its neighbours and its contents. **`Places`** has locations
of three platforms as sequences of names, their comparison with and without case,
and the areas; **`Areas`** asks of any directory on any host (`IsHost`) what area it
lies in and whether a scan names it as a candidate. **`Commands`** is `clean` and `auto` from what they show to their exit
code: discovery, choice by id, preview, confirmation, one check and one removal
per candidate, then pruning and sharing of the rest; builds and owners go on.

`MCDeletion` and `MCWatch` hold what the instances need: symmetry and the
repositories of the caches. The other three put several components into one run
as a disjoint sum: `topic` is chosen by the initial predicate and never changes,
a step is one of that component, and the variables of the others rest at one
value. A property of a component is stated of the behaviours about it.

| module | topics |
|---|---|
| `MCDecisions` | claims, inspection, survey, places, commands |
| `MCFiles` | sharing, inventory, sessions, release |
| `MCSession` | watch, worktrees, stores, pool, dedupe |

`CoalesceProofs`, `DeletionProofs`, `WatchProofs`, `SharingProofs` and
`InventoryProofs` hold the theorems of the module they are named after,
`DecisionsProofs` those of `Claims`, `Inspection`, `Commands`, `Survey` and `Areas`,
`FilesProofs` those of `Release` and `Sessions`, and `AnswersProofs` those of `Stores`,
`Worktrees`, `Pool` and `Dedupe`, which `MCSession` checks together too.

### Who uses what

    RequestService <- Coalesce <- CoalesceProofs
    Ownership <- Claims, Commands <- DecisionsProofs, MCDecisions
    Gates <- Inspection <- DecisionsProofs, MCDecisions
    Ownership, Gates <- Deletion <- DeletionProofs, MCDeletion
    Gates, Artifacts, Tallies <- Survey <- DecisionsProofs, MCDecisions
    Places, Gates, Artifacts <- Areas <- DecisionsProofs, MCDecisions
    Gates <- Sharing <- SharingProofs, MCFiles
    Release, Sessions <- FilesProofs, MCFiles
    Inventory <- InventoryProofs, MCFiles
    SharePlan <- Pool, Dedupe <- AnswersProofs, MCSession
    Watch <- WatchProofs
    Ownership <- Worktrees
    Watch <- MCWatch <- MCSession -> Worktrees, Stores
    Stores, Worktrees <- AnswersProofs

`Watch` and `Coalesce` meet at the flag: in `Coalesce` the watcher's turn is
`Take` and `Handle`, in `Watch` the flag is `raised` and the turn has its parts.
`Watch` and `Deletion` meet at `Reap`, which is the whole of `Deletion` seen from
the session: the cache is gone, or it is not. `Commands` sees `Deletion`,
`Sessions` and `Sharing` the same way, as a check, a removal that may stop half
way, a prune and a share. `Watch` hands `Pool` and `Inventory` their events; the
verdict of `Worktrees` is `standing` in `Watch`, and a settlement in `Ownership`.

## What is checked

| run | instance | shows |
|---|---|---|
| `coalesce` | two commands, two watchers, two requests, one failed run, one death | sweeps never overlap; no request is left in the flag with nobody committed to look; every step is one of `RequestService`; every request is swept or stranded, and the stranded with the next |
| `coalesce_handed` | two commands, one failed run | *violated*: a command that was told its request will run once more is not served when the run it waits for returns an error |
| `deletion_one` | one cleaner, two profiles of which one is not built yet, owner, person | nobody works under a removal; what is kept is not deleted; lock files go last; every candidate gets an outcome |
| `deletion_two` | two cleaners, one profile, two trees at the path, two lock files | only the recorded tree loses files; what is reported as deleted is gone |
| `deletion_new_lock` | as `deletion_one`, a second lock file for each profile | *violated*: a profile built for the first time during the removal loses files under its own lock |
| `watch_one` | topic watch: one cache, three events from outside, an overflowing stream, one lock that cannot be opened; worktrees: four commits, three moves; stores: three configurations, three toolchains, one change; pool: three files in two caches, two writes, one loss; dedupe: three equal files with any attributes | no event, note, wait or stale answer is lost; a landed verdict is true and is noticed; what a manager is made to remove was reviewed and is unnamed; equal files are not left apart, and a plan converges |
| `watch_live` | one cache, directories watched one by one, watches denied, events lost, a lock that cannot be opened, hooks, two events | what is noted is served; a request reaps; the session comes to rest |
| `watch_writes` | one cache, four events, nothing lost | *violated*: a write is noted, a build comes between the look at the lock and the lease, and the note is dropped |
| `files` | topic sharing: two duplicates of two ranges, nine inodes, two events, two faults; inventory: one root, a file in a part and one outside, two writes, one death, loss; sessions: two past runs and one to come, one prune, one death; release: a file of the root and one of a directory, four writes or moves, two monitors, one ask | sharing never loses what users made of a name; the stored inventory recovers; no live session and no named object is pruned; a released checkout was not written to |
| `inventory_restart` | one root, one file, no loss, one death | *violated*: changes that wait for a lock are behind the stored event after a restart |
| `inventory_busy` | one root, one file, no loss, no death, everything fair | *violated*: what is written into a cache that was locked when the session started is told, taken up when the lock is free, and dropped, and the session rests without knowing it |
| `decisions` | topic claims: one marker on and one in a directory, any worktree; inspection: every ask, sites that differ from a plain one in one respect; survey: seven directories, three names, fifty-four disks with hard links, shared blocks, links and volumes, seven asks, one fault; places: every path of up to four names on nine hosts of three platforms, with and without a home, at its place and at the root; commands: two directories, thirteen invocations, two changes | consent, proof and protection in ownership; what is cleared is safe; protected areas hold; sums and candidates are right; what is deleted is what was shown, and the exit code tells |

### What makes each part correct

- Run station: at most one sweep (`OneSweep`); nobody forgets a request
  (`NobodyForgets`); a request is answered by a sweep that began after it
  (`ImplementsService`, whose service has no other way to answer).
- Ownership: deletion needs everybody's consent, whatever the mandate
  (`DeletionNeedsAll`); what is not proven free protects
  (`UnprovenLockProtects`); one more marker inside never makes more deletable
  (`NestedNeverReleases`).
- Gates: what is cleared is safe (`ClearedIsSafe`). That the checks of a clearance
  are implied by the gates (`NoLateRefusal`) and that an explanation is that of
  the run (`ExplanationAgrees`) is proved and no longer run.
- Deletion: between the first look and the last step, whatever others do:
  `NobodyWorksUnderRemoval`, `KeptIsNotDeleted`, `OnlyRecordedTree`,
  `LocksGoLast`, `DeletedIsGone`, `EveryCandidateSettled`.
- Commands: only what was chosen, shown and confirmed is deleted, by the identity
  it was shown with, when its owner has let go and nobody is at work
  (`DeletedAsShown`); success is not claimed for less (`ExitTells`).
- Watch session: what it heard it notes (`ToldIsNoted`), what it noted is under
  way (`NotedIsPending`), whoever waits has one waiter (`WaiterReportsOnce`), a
  cached answer that has become wrong is going to be dropped
  (`StaleIsNoticed`), and the three liveness properties.
- Watch cache: memory is what database and journal give (`JournalRecovers`), and at
  rest it is what lies on the disk (`InventoryIsCurrent`), but for files this program has
  replaced itself, caches that were locked when they were first read, changes that waited
  at the last commit before a death, and files outside the parts of a profile whose event
  the stream has dropped: those the code does not read again.
- Git answers: landed work is in the default branch (`LandedIsThere`), and work
  that lands is heard of (`LandingIsHeard`).
- Release: `ReleasedIsUntouched`. It leaves out mapped writes, which raise no
  event on Linux, as `docs/assurance.md` says, and writes in a directory that was moved
  away while the release was being prepared (see below).
- Sharing: a name that nobody replaced behind the lease shows what its users made
  of it at every step (`LeasedNamesShowCurrent`); one that was replaced keeps
  its bytes, at the name or beside it, and of a pair that is reported as shared
  nothing is left beside the name (`CurrentIsKept`). A plan that was carried out leaves
  the next one nothing to do (`SharingConverges`), and a session leaves no two
  equal files apart (`NothingLeftUnshared`), but for a file that is written again
  in place after it was read, one that was shared with such a file by ranges, and a pair
  that was tried and could not be shared.
- Pruning: `SessionsSurvive`, also of a rustc that lost its cargo;
  `ImagesKeepTheirObjects`, but for builds with such a rustc, which writes
  objects under no lock a prune could take.
- Stores: `ReviewedAndUnnamed`, of the pins of configuration files and the overrides of
  rustup; what containers use is judged once, from the engine's answer. The manager is asked by name after the identity
  was compared, and what is installed anew between the two is excepted (`late`).
- Scan: `ReclaimableIsFreed`: the sum is not what is freed but, as
  `docs/usage.md:165` says, an estimate, and the property says of which kind: it exceeds
  what is freed by the blocks that its inodes share with others (`SharedBy`) and by
  nothing else, such as a hard link elsewhere. It says also that the measure before a
  deletion is of what was shown. `OverlapsCountedOnce`, which says for itself which inodes those are that a
  report should find; `CandidatesLieApart`, and with artifacts and areas `AreasHold`.
  A root that lies inside of another is not walked for itself, not even where it is another
  volume, which the walk of the outer one does not enter: what is found is below the
  outermost roots, and the bytes of such an inner root are in no volume of the report.

### Bounds, and why they are enough

- `MaxRequests`, `MaxFailedRuns`, `MaxDeaths` (`Coalesce`): the hard cases need
  one request being swept, one raised meanwhile, and one failure; a second
  watcher is needed for the hand-over of the lock between watchers. The safety
  properties and the refinement are proved for any number of each.
- `MaxOwn`, `MaxNested` (`Claims`): one each. The settlement is a maximum over the
  markers, so one of each meets in every way; the theorems have no bound.
- `NearPlain` (`Inspection`): the sites one respect away from a plain one, among
  every ask. The theorems are about all sites.
- `MaxTrees`, `MaxLocks`, `MaxObjects` (`Deletion`): a second tree is one that
  took the path of the first, a second lock file one that was made anew.
  `deletion_one` has one lock file for each profile, so the one that is recorded is
  never replaced there. What the runs check of it, but for liveness, is proved
  for any number of each.
- `MaxEvents` (`Watch`) bounds what builds, users and git do; letting go of a
  lock, the waiters and the session are not bounded. Two events are a build and
  its write or a merge and its hook; a third comes during the handling of those.
  `MaxOpaque` is how many locks cannot be opened at a time. Its four invariants
  are proved for any number of events, caches and losses.
- `MaxEvents`, `MaxFaults`, `MaxInodes`, `Chunks` (`Sharing`): an event is a write, a fault
  a death or a failure that leaves a temporary file; of each the second meets what the first
  left. Nine inodes are two names, the kept file, a temporary file beside each,
  replacements, and one that is still open: `Fresh` never runs out of them. The view takes
  the numbers of inodes away, which mean nothing but which names are one file. Two ranges
  are one before and one after a write. Both properties are proved for any number of each.
- `Names`, `Parts`, `MaxFileWrites`, `MaxSwaps`, `MaxMoves`, `MaxSessionDeaths`
  (`Inventory`): a file that a loss has read again and one that it has not, a write noted
  before and one after a commit, one swap of the session's own, a root that is replaced,
  and a restart after one death. Proved for any number.
- `Earlier`, `Runs`, `MaxPrunes` (`Sessions`): rules look at the newest of two sessions and
  at two images; one build goes on while one prune does. Proved for any number.
- `MaxWrites`, `MaxMonitors`, `MaxAsks` (`Release`): a write and the one that
  undoes it, or a directory that is moved away and back and two writes in it; a dead monitor
  and the next; each ask is independent of the last. Proved for any number. One directory
  below the root is the first that may be missing.
- `MaxCommits`, `MaxMoves` (`Worktrees`): two commits of the worktree's own, a merge or
  squash and one more on the default branch; what moves between two questions. Proved
  for any number, and for any trees.
- `MaxChanges` (`Stores`, `Commands`): one edit between the surveys shows what a
  survey that is not repeated would miss; two let a command meet a build and an owner.
  Proved of both modules for any number.
- `MaxWrites`, `MaxLosses` (`Pool`): two writes make two files equal that were not fresh
  together. Proved for any number, and for any files and contents.
- `Disks`, `Requests`, `MaxFaults` (`Survey`), `MaxBytes` (`Tallies`: a byte counter saturates there): each
  kind of overlap, link and volume once, with one failed read; one inode with two names and
  one of another size, whose blocks are its own or partly those of the first. All three properties are proved for any disk, request and number
  of faults.

The larger runs take most of a minute each on two cores; bounds one higher were
tried for `deletion_two` (three lock files), `deletion_one` (two lock files for each
profile) and `watch_one` (four events), found nothing and take too long to keep.

Deadlock is not checked in the runs of processes that may all come to an end or
run out of a bound: none of the runs has a system that never may stop.

### Fairness

`Coalesce`: weak fairness of every step of a process that is at work; nobody has
to start a command, and no failure has to happen. A watcher's `Receive` is fair
only when its bell has rung, because `recv` blocks. Weak fairness suffices:
commands never wait for a lock (`try_lock`), and a watcher that does wait may
wait for ever, which no liveness property denies.

`Deletion`: weak fairness of each cleaner's next step. Builders, owners and
persons need not move: a builder may hold its lock for ever, and
`EveryCandidateSettled` says the cleaner ends all the same.

`Watch`: weak fairness of the session thread, of each waiter whose lock is free,
and of letting a lock go. The last is the assumption that builds end;
`NotedIsServed` is false without it, since the session waits for them. A lock
that cannot be opened is not a lock that is waited for, so the two properties
about caches except it.

`Inventory`, where `inventory_busy` refutes `EveryCacheTakesPart`: weak fairness of the
session's own steps, of the stream, of each waiter whose lock is free, and of letting a
lock go (`FairInventory`). With all of it the session comes to rest and stays there, so
that the file stays unknown not because something was never given its turn.

## Where the code and its documents part

- `coalesce_handed`: `drive` leaves its loop with the error of a run
  (`coalesce.rs:56`), and the flag of the command that was told "it will run
  once more when it finishes" (`main.rs:761`) stays up until somebody asks again.
  `StrandedRescued` says that it is then swept.
- `deletion_new_lock`: `check` knows the lock files of its survey
  (`apply.rs:154`). "The locks of the tools that use it are held while it is
  removed" (`docs/usage.md:149`) does not hold of a lock file that is made after
  the measurement. What does hold is `NobodyWorksUnderRemoval`.
- `watch_writes`: `process` takes the changes (`watch.rs:773`) before the prune
  leases the locks; a prune refused as busy does not put them back. "Waits for
  its writer to release its lock, then prunes" (`docs/usage.md:119`) does not
  hold of that write. What it costs is bytes that stay: a later loss of the
  stream, or a start, prunes everything.
- `inventory_restart`: `finish_checkpoint` (`watch.rs:533`) stores the last event
  also when the changes it brought wait for a lock in memory. "After a restart it
  replays intervening events" (`docs/usage.md:128`) does not hold of those.
- `inventory_busy`: a cache that was locked when it was first stocked has no
  method (`dedupe.rs:671`, `:597`), and `Pool::note` returns at once for it
  (`dedupe.rs:723`). The run shows a write after that: it is told, waits for the lock, is
  taken out of the entry when the lock is free (`watch.rs:773`) and goes no further. "Waits
  for its writer to release its lock, then prunes and shares" (`docs/usage.md:119`) does
  not hold of the sharing in that cache, for as long as the session runs.

Four more were seen and have no run. On Linux a monitor passes over a directory that is
not there when it should be watched (`events_linux.rs:45`, `:288-305`) and has complete
coverage all the same (`release.rs:270-280`); when the directory is back for the second
reading, it is in the record and nobody watches it, so that writes there that undo one
another do not revoke the release, contrary to `docs/usage.md:177`.
`ReleasedIsUntouched` excepts a directory that was away since the monitor began (`strayed`)
and holds of all else. A cache whose deletion was refused leaves the
session's world (`watch.rs:355`). `Location::key` (`location.rs:246`) does not
separate a UNC share from the first name below it, although the test at
`location.rs:500` says that a key separates every name; only the set of
candidates that a scan reports is keyed by it. A rename of somebody who
knows of no lock between the swap back and the unlink (`share_macos.rs:471`)
leaves their file at the temporary name, which is why `NamesShowCurrent` is
stated for leased names; `CurrentIsKept` says that it is not lost.

## What is proved

The theorems hold for every value of the constants under the assumptions each
module names: the parties are distinct (`ActorsAssumption`,
`PartiesAssumption`), the bounds are numbers (`BoundsAssumption`,
`MaxAssumption`, `LimitsAssumption`), the mandate is one of the code's
(`MandateAssumption`), the sites are sites (`ObservedAssumption`), there are
inodes enough for the files there are to begin with (`SharingAssumption`), the
runs of rustc and the names of files are finitely many (`SessionsAssumption`,
`FilesAssumption`, where some of the names lie in the parts of a profile), every cache has a repository, and "everything" is the name of none
(`WatchAssumption`, `EverythingAssumption`), and what a command or a removal is
given is a sequence of ids, about directories of which there are finitely many
(`CommandsAssumption`, `ConfigsAssumption`), some tree is the one a history
begins with (`WorktreesAssumption`), the trees that are scanned are finite, their paths
are sequences of names, and an inode has finitely many blocks, of which others may have
some too (`SurveyAssumption`), sums of
bytes stop at a number (`TalliesAssumption`),
there are finitely many files that are long enough to be shared (`PoolAssumption`),
the clusters of files are told (`DedupeAssumption`), and homes are where homes are
(`AreasAssumption`, see below).

- `CoalesceProofs`. `TypeCorrect`; `LockIsRespected`: the lock is held exactly by
  a process inside its locked section; `SweepsExclude` (`OneSweep`) follows,
  since a sweep lies inside. `NothingForgotten` needs that a watcher between two
  takes has a bell that rang for whatever is in the flag (`BellIsRung`): a
  request finds either a command that will check, or the lock taken by somebody
  who will. `StationImplementsService` needs that a request is in one place,
  the flag, one batch or the answered (`OnePlace`), for without it lowering the
  flag would not be the start of a sweep of the service.
- `DecisionsProofs`, of `Claims`. `ConsentOfAll`, `UnprovenProtects` and `InsideNeverReleases`,
  for sets of markers of any size: the settlement is a maximum
  (`StrongestIsMax`), and one marker more never lowers a maximum
  (`MoreInsideProtectsMore`).
- `DecisionsProofs`, of `Inspection`. The invariant `Passed` says that every gate before the
  present one has passed; at the end all twelve have (`AllPassed`), which gives
  `OnlySafeIsCleared` and `GrantsAreGiven`. `Explained` says what each stage that is
  shown is; from it `ExplanationsAgree` follows, and with it `InspectionTypeCorrect`.
- `DecisionsProofs`, of `Commands`. `OnlyTheShownIsDeleted` and `SuccessIsWhole`, for any
  commands, directories and changes of the world. The invariant `CommandInv`
  ties four lists to one another by position: the ids that were chosen, the plan, what
  the preview said of it and what became of it (`Cleans`), and for an automatic
  run what it let go and what it planned of that (`Automatic`). A removal is of the id
  in its place because the last check compares identity and contents (`Fresh`); an
  exit code says what it says because nothing is lost between the results and what is
  gone (`NothingFailed`). That a list in the order of places exists at all is
  `Sorting`: the rank of a number among different ones is a permutation.
- `DecisionsProofs`, of `Survey`. `CandidatesAreApart`, for any tree, links, volumes, roots
  and excludes. What lies below what is an order in which the paths above one path
  form a chain (`BelowIsAnOrder`), and between a directory and its child there is
  nothing (`AboveAChild`). The invariant `SurveyInv` says that accepted roots lie apart
  and that a visit was reached from above (`Reached`): what lies above it in its walk
  is no longer waiting, and below what was admitted all is inside. Two
  candidates in line would be of one walk, since their roots lie above one path, and
  the lower one would be inside of the upper. Where candidates are only sighted,
  nothing below one is visited at all (`FoundAt`).
- `DecisionsProofs`, of `Survey` and `Tallies`. `ReclaimableGoes` (`ReclaimableIsFreed`) and
  `RootsCountOnce` (`OverlapsCountedOnce`), for any tree, names, inodes, roots and failures.
  A sum is the size of a set of units, so it is that of its parts (`TotalOfParts`), and
  one that stopped at the limit in a part stops there in the whole (`SaturatedSums`).
  What is counted of an inode are its blocks, its own and those it shares. Deleting the
  names of some inodes frees the blocks that no other inode has; the rest of theirs is shared
  (`FreedButShared`), so what is counted exceeds what is freed by `SharedBy` at most.
  `Exact` is what is counted of a set of names when nothing is missing: the blocks of those
  that are their inode's only name, and of the others each inode once with how many of its
  names were seen. `ExactMerged` says that what parts without a common name say of an inode
  comes to what their union says, however they are merged; with it the used bytes are
  those of the distinct inodes, and the reclaimed ones those of the inodes all of whose
  names were seen (`UsageOfExact`). The invariant `SumsInv` says that what is known of a
  directory that is done is `Exact` of its `Extent`, all that lies below it on its volume
  and neither is excluded nor behind a link, or has a failure in it; a listing names every
  child that a sum will need, and the extents of children are apart (`ExtentIs`,
  `ChildrenApart`). Candidates lie apart, so several are freed as one is, and the second
  measure, which knows nothing of roots and refuses what the first one passed by, comes to
  the same extent when it refuses nothing (`InwardIs`). `RootsInv` accounts for every root
  that was asked for, also for one that gave way to an outer one; so without an error the
  roots that were walked are the outermost (`RootsAreOutermost`).
- `DecisionsProofs`, of `Areas`. `AreasAreHeld` (`AreasHold`), for any host, place and
  listing. The rules of each platform are a sequence of which the first that reaches a
  place decides (`AreaOf`): those of the directory a command runs in and of the program come
  before all, those of applications before those of the system, those of homes last.
  So the proof says of every place in or around a home which rules reach it: what lies
  above a home, or is one, is reached by no rule of an application (that is what
  `LiesBesideHomes` is for) and by one of the system; what lies in the directory where
  applications keep their files is reached by one of theirs, of which the gates want a
  declaration. What the rules say of a place they say of any spelling of it, because
  they compare folded names only. `AreasAssumption` is what the tables take for granted:
  a home is below the directory of the homes or below the root, and neither the
  temporary nor the cache directory is a home or lies above one. With `TMPDIR=/home/me`
  the home is an application's directory to the code, and with a home at `/data/users/me`
  nothing protects `/data/users`; so the property is false of such hosts.
- `DeletionProofs`. `DeletionTypeCorrect`. `NobodyWorks` rests on `LeaseInv`:
  every recorded lock file is accounted for while the lease is taken
  (`Accounted`: it never was, it is no longer at the path, it is still wanted,
  it is held, or the attempt has failed), a builder that works holds the lock of
  the file it has open (`BuildersLock`), and a tree to come has no lock file
  (`NewTreesEmpty`), without which a name could come to stand for a file that
  was recorded. A file no longer at the path never comes back (`NeverAgain`), and
  the measurement turns a missing file into a rejection, so after it all
  recorded locks are held. `KeptStays` rests on `KeptChecked`: after the
  ownership was read, what was kept at the beginning has not been granted.
  `OnlyRecorded` rests on `HandOf`: a handle, once opened, is the recorded tree's.
  `ObjectsGoFirst` (`LocksGoLast`) and `DeletedIsTrue` (`DeletedIsGone`) rest on
  `WalkInv`: whatever is left of what was recorded lies where the pass has still to
  come by, an object in the first pass and a lock file in the second (`WalkOf`).
  Numbers of files are given away once (`ObjectsKnown`), so that what a builder makes
  meanwhile is never taken for something recorded.
- `WatchProofs`. One invariant, `IInv`, for any caches, repositories and events, and
  from it `TypesCorrect`, `NothingToldIsLost` (`ToldIsNoted`), `NothingNotedIsDropped`
  (`NotedIsPending`) and `EveryWaiterReports` (`WaiterReportsOnce`). Its heart is where a
  told cache may be: announced in what is still unread, noted, or, after a loss, on the
  walk that sees everything again (`ToldIsTracked`, `OnTheWalk`); and that a signal which
  empties a cache is followed by one for what came after it (`Renewed`). A waiter that
  blocks has its report to come, one that reported has one in the queue, which is
  why signals are counted (`PlacesFinite` and the lemmas after it).
  `NothingStaleIsKept` (`StaleIsNoticed`) has a hypothesis: events are of
  everything below the roots, or the repository has the hooks. On Linux without
  hooks it is false: a sighting asks git (`Sight`) before the directories of the
  references are watched (`Saw`), and a change of them between the two is heard
  of by nobody. The run that checks it has events of everything.
- `InventoryProofs`. `RestartsWithWhatItHad` (`JournalRecovers`) and `AtRestItIsCurrent`
  (`InventoryIsCurrent`), for any roots, names, writes and deaths. `MemoryInv` says
  that the copy in the database, with what the journal has still to write, is what lies in
  memory (`Recorded`), or, while the session starts, what was loaded
  (`Loaded`). `CurrentInv` cuts the log of events into what was classified, what
  is in the batch and what is queued (`Streams`), and says of every file that it is
  as it lies on the disk, or known as changed, or that an event of it is yet to be
  classified (`PoolKnown`, `ReadKnown`); and of the copy the same with the event that
  it reaches to (`CopyKnown`, `ChangesKnown`). A loss marks the parts of the profiles and
  nothing else, so an event that was dropped still stands for a file in a part, but for
  no other: that one must come by itself (`Comes`, `Replayed`) or is excepted
  (`missed`) until it is written again. Where the cut is, the model does not
  say: it exists (`Following`).
- `AnswersProofs`, of `Stores`. `OnlyUnnamedIsRemoved` (`ReviewedAndUnnamed`), for any
  configurations, overrides of rustup and edits of both. What the files and the overrides
  have said since before the first of the files was read is still to be read or is known
  (`SteadyIsKnown`), so what a permit
  names is named by nothing that has stood since (`PermitIsUnnamed`); and it is what was
  reviewed, or has come since the last look (`PermitIsThere`). Nothing is said of what
  containers use.
- `AnswersProofs`, of `Worktrees`. `OnlyTheLandedIsSaidToBe` (`LandedIsThere`) and
  `LandingsAreHeard` (`LandingIsHeard`), for any trees, commits and moves. Whatever
  people do, a hook tells of it, or it is one of the three moves of which none does
  (`unheard`), or nothing that git was asked about has moved (`PeopleAreHeard`). So
  every question is about the refs and the HEAD of the first (`LearntIsSo`), and the
  base, the changed paths and the commits that touch them belong together. From there
  it is the history that decides (`Rooted`: a commit holds all that its
  ancestors hold): what did not change since the base is in the default branch
  because the base is (`ContainedIsThere`). A fetch that comes between two
  questions wakes the answer, which is asked again before it is used.
- `AnswersProofs`, of `Pool`. `NothingStaysUnshared` (`NothingLeftUnshared`), for any files,
  contents, writes, losses and turns. The invariant `PoolInv` says that an inode is of one
  place for good, so that one a turn finds at a place is new to it or was known there
  (`Homes`); that what is known of a file that nobody wrote again is what it is
  (`Accurate`); and that two such files that are equal and lie apart are under way to each
  other (`UnderWay`): nobody has compared anything yet, or one of them is fresh, or a
  pair that is still to be shared has one of them as its duplicate. Fresh files get there because
  they are of one part (`TheirPart`), a part keeps one of its members (`KeeperIsOne`: of
  finitely many files one is preferred), and whatever does not share the kept one's blocks is
  paired with it (`IsShared`). While pairs are settled the kept file must not be
  somebody's duplicate (`Paired`): a file that is shared by ranges takes the kept one's
  cluster, and the pairs that still have to come must lead there too. This is
  where the first form of the property was false: a kept file that is rewritten in
  place, with the same contents, between two of its shares takes its duplicates to
  two clusters, and none of them is fresh again.
- `AnswersProofs`, of `Dedupe`. `SharingConvergesOnce` (`SharingConverges`), for any finite
  set of files: once every pair of a plan has been shared, the
  next plan shares nothing. It is about files whose clusters are told (`Observed`: macOS;
  on Linux nothing is told, the kernel compares again, and no such thing holds) and that
  are read as they were. A class of equal files stays one class (`ClassAfter`). When
  one of it took the kept one's cluster, that cluster is larger than any other, so what is
  kept the next time has it too (`KeptAgain`); and if it were another file,
  with attributes a refused one can take, it would have been kept the first time, because
  neither the order of the locations nor what is fixed has changed.
- `SharingProofs`. `SharingTypeCorrect`, `LeasedNamesNeverChange` and
  `NothingIsLost`. The invariant says that no inode is at two names (`Apart`),
  that the stamp recorded of the duplicate is still its stamp while it is open
  (`Opened`: nobody writes in place under the lease), that the clone equals it
  from the swap on (`Cloned`), where the two names stand unless somebody came
  behind the lease (`Undisturbed`), and beside which files something may lie at the
  temporary name: any that was not shared (`LeftBehind`), for a clone that cannot be
  opened, an original that cannot be examined or unlinked and a temporary file that cannot be
  discarded end the pair and leave it there (`SettlesWell`). `Kept` carries `NothingIsLost`: whenever the next step may
  remove the temporary file, the name itself shows what its users gave it. The
  way back needs that `inspect` was left because something was out of place:
  otherwise a second exchange could leave the only copy where it is discarded.
- `FilesProofs`, of `Release`. `ReleaseTypeCorrect` and `ReleasedIsNotTouched`, for any number
  of writes, monitors and questions. The invariant follows an answer back to the
  first reading: an answer lies only with one who asked this monitor and it alone
  (`Answered`); a monitor that serves has everything covered, if the directory was there
  all the time, and nothing it could have missed (`Served`, `Prepared`): what is not there is
  passed over when it should be watched, but a directory that is away, or was read to be, has
  `strayed`, and of that one the theorem says nothing (`Disturbed`, `MoveKeeps`); a write since then is an event that waits
  for it, or has revoked the record (`Noticed`); and what was read is what the
  files hold, unless somebody wrote after the question (`Read`). The events
  are drained before the tree is read again: otherwise writes that undo one another
  would pass the comparison while their events wait.
- `FilesProofs`, of `Sessions`. `SessionsTypeCorrect`, `LoadedSessionsSurvive` and
  `NamedObjectsStay`, for any number of runs, prunes and deaths. The heart of the
  invariant is `Outlived`: one finished session is newer than every finished
  one that is still to be removed, and stays so while runs finish, link and drop
  older ones; it begins with the listing, because a finite set of stamps has a
  largest (`NewestExists`). With it, a session that was emptied and not yet removed
  is never the newest (`Emptied`). A session a rustc is at work on is under its lock
  (`AtWork`), so what is being removed has no rustc (`Leased`); and without orphans no
  rustc is at work under the lease at all, so that the images that were read stay
  what they were (`Named`).

Only model-checked:

- all liveness (`EveryRequestAnswered`, `StrandedRescued`, `EveryCandidateSettled`,
  `NotedIsServed`, `RequestReaps`, `ComesToRest`), which is beyond the prover. Every
  invariant and action property of the passing runs is proved.

## What is not modelled, and why

- In `Coalesce`, which repository a request names. In `Watch` it is modelled.
- In `Ownership`, the search for markers and repositories up the path: a model's
  directory has the claims that bear on it.
- In `Deletion`: a dry run, SwiftPM's lock outside the tree, trees nested deeper
  than a profile, and i/o errors other than a vanished entry. An error has the
  outcome of a death between two steps, which is modelled.
- In `Watch`: rescans of directories of which only something is known to have
  changed; kinds of caches whose writers take no lock, which are neither pruned nor
  waited for; errors that end the session. After a loss, what was
  written in a cache whose survey knows no locks is work that no event names any more
  (`untold`), since `lost_track` finds no part to mark (`watch.rs:847-865`); the cache is
  dirty all the same, and the parts of a profile are not told apart from what lies
  beside them, as they are in `Inventory`.
  `watch_staleness` has events of everything: that on Linux each directory is watched
  for itself, with a gap before it is, is only in the hypothesis of `NothingStaleIsKept`.
- In `Inventory`: hard links, forgetting a cache that is reaped, and files with
  several names; a profile whose lock file comes after the survey, or whose survey failed, of
  which `lost_track` marks no part. In `Pool` hard links and forgetting as well, and a
  loss of events marks all files changed there, where the code marks those of the parts:
  `NothingLeftUnshared` is about those.
- In `Worktrees`: a default branch that appears later, which `event.rs:108` hears of; submodules, unborn branches and upstreams that track nothing remote; a
  commit of the worktree itself between two questions can give a verdict that was
  true at no time, which the properties except (`unheard`).
- In `Release`: the moment for which an ownership probe takes the lock itself, which can
  refuse a release that is just begun; a directory that cannot be watched for want of
  permission, which Linux's monitor passes over like a missing one (`events_linux.rs:45`).
- In `Sharing`: which call fails with which error; every failing call of
  `share_macos.rs` after the temporary file exists is one that ends the pair, with the
  temporary file discarded or left.
- In `Survey`: the blocks of symbolic links, which `measure.rs:98-110` counts: links hold
  none here.
- In `Stores`: a pin moved from one file to another while both are being read;
  the text of the configurations and of the managers' answers.
- In `Areas`: a host whose home lies deeper than one below the users' root or the root, or
  whose `TMPDIR` or `XDG_CACHE_HOME` is a home or holds one.
- In `Commands`: `explain`, `doctor` and `inspect`, which change nothing; detaching,
  which is in `Coalesce`; the parsing of flags.
- Parsing of git's output, TOML, JSON, Mach-O headers and file names is reduced to
  what it yields; rendering, logging, spawning and the Windows adapters are data and
  i/o, without a state of their own.

## What could be next

1. The composition of `Watch` with `Inventory` and `Pool` in one session, with the
   refinement that its `Serve` is one turn of theirs.
2. Trees nested deeper than a profile in `Deletion`, and an error at each call.
