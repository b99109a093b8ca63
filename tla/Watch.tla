--------------------------------- MODULE Watch ---------------------------------
(***************************************************************************)
(* The session of `watch` (cli/src/watch.rs): one thread that takes the    *)
(* signals of a channel in batches and, in a turn, classifies them, asks   *)
(* the owners again, examines what appeared and settles what is dirty,     *)
(* while builds write, take and release locks, while branches are merged   *)
(* and directories come and go, and while a waiter thread per busy cache   *)
(* blocks on its lock.  Deleting a cache is one step here: Deletion has    *)
(* its steps.  Every cache here is of a kind whose writers take a lock.    *)
(* A survey and the watches placed for it are one step.  What told, untold *)
(* and skipped hold is read by the properties alone.                       *)
(***************************************************************************)
EXTENDS Naturals, Sequences, FiniteSets

CONSTANTS
    Caches,        \* the candidates' roots
    Repositories,
    RepositoryOf,  \* the repository of a cache
    Depth,         \* what the platform observes: "recursive" or "named"
    Hooks,         \* the repositories where the git hooks are installed
    Overflow,      \* whether the event stream may overflow
    MaxEvents,     \* bound: what builds, users and git do
    MaxOpaque      \* bound: how many locks cannot be opened at a time

ASSUME WatchAssumption ==
    /\ RepositoryOf \in [Caches -> Repositories]
    /\ Depth \in {"recursive", "named"}
    /\ Hooks \subseteq Repositories
    /\ Overflow \in BOOLEAN
    /\ MaxEvents \in Nat
    /\ MaxOpaque \in Nat

VARIABLES
    present,    \* the caches that are on the disk
    lock,       \* their lock files
    standing,   \* what git says of their worktrees
    told,       \* caches with unpruned work that an event names
    untold,     \* caches with unpruned work that no event will name again
    raised,     \* the lines of the pending flag
    events,     \* how often the outside has acted
    queue,      \* the channel to the session
    blocked     \* what the waiter of a cache blocks on

VARIABLES
    pc, round,  \* where the turn is, and why it asks the owners
    batch, hooked, lost, refs, appeared,    \* of this turn
    todo, seen, settled,                    \* of the present walk
    world, dirty, changed, whole, resurvey, waiting,
    survey,     \* what the stored survey of a cache knows
    memo,       \* the cached answers of git
    followed,   \* the caches, and refs, whose directories are watched
    refsFollowed,
    covered,    \* whether every watch was granted
    skipped     \* caches that were last left alone for a lock that cannot be opened

outside == <<present, lock, standing, told, untold, raised, events>>
turn == <<batch, hooked, lost, refs, appeared>>
walk == <<round, todo, seen, settled>>
entries == <<world, dirty, changed, whole, resurvey, survey>>
watches == <<followed, refsFollowed, covered, skipped>>
vars == <<outside, queue, blocked, pc, turn, walk, entries, waiting, memo, watches>>

(* The line of the flag that is about every repository is no path.         *)
Everything == "every repository"
ASSUME EverythingAssumption == Everything \notin Repositories

Signals ==
    [kind : {"lost", "wake"}]
        \cup [kind : {"written", "bookkeeping", "appeared", "vanished", "released"},
              cache : Caches]
        \cup [kind : {"refs"}, repository : Repositories]
Lost == [kind |-> "lost"]
Wake == [kind |-> "wake"]
In(kind, c) == [kind |-> kind, cache |-> c]
Refs(r) == [kind |-> "refs", repository |-> r]

TypeOK ==
    /\ present \subseteq Caches
    /\ lock \in [Caches -> {"absent", "free", "held", "opaque"}]
    /\ standing \in [Caches -> {"active", "settled"}]
    /\ told \subseteq Caches /\ untold \subseteq Caches
    /\ raised \subseteq Repositories \cup {Everything}
    /\ hooked \subseteq Repositories \cup {Everything}
    /\ events \in 0..MaxEvents
    /\ queue \in Seq(Signals) /\ batch \in Seq(Signals)
    /\ blocked \in [Caches -> {"none", "lock", "old lock"}]
    /\ pc \in {"open", "sight", "saw", "ask", "reap", "prune", "adopt", "receive",
               "take", "classify", "decide", "examine", "settle", "serve"}
    /\ round \in {"start", "lost", "kept", "reown", "examine"}
    /\ lost \in BOOLEAN /\ covered \in BOOLEAN
    /\ refs \subseteq Repositories /\ refsFollowed \subseteq Repositories
    /\ \A s \in {appeared, todo, seen, settled, world, dirty, changed, whole,
                 resurvey, waiting, followed, skipped} : s \subseteq Caches
    /\ survey \in [Caches -> {"none", "bare", "locks"}]
    /\ memo \in [Caches -> {"none", "active", "settled"}]

Init ==
    /\ present \in SUBSET Caches
    /\ lock \in [Caches -> {"absent", "free", "held"}]
    /\ \A c \in Caches \ present : lock[c] = "absent"
    /\ standing \in [Caches -> {"active", "settled"}]
    /\ told = {} /\ untold = {}
    /\ raised \in {{}, {Everything}}
    /\ events = 0 /\ queue = <<>> /\ blocked = [c \in Caches |-> "none"]
    /\ pc = "open" /\ round = "start"
    /\ batch = <<>> /\ hooked = {} /\ lost = FALSE /\ refs = {} /\ appeared = {}
    /\ todo = {} /\ seen = {} /\ settled = {}
    /\ world = {} /\ dirty = {} /\ changed = {} /\ whole = {} /\ resurvey = {}
    /\ waiting = {} /\ survey = [c \in Caches |-> "none"]
    /\ memo = [c \in Caches |-> "none"]
    /\ followed = {} /\ refsFollowed = {} /\ covered = TRUE
    /\ skipped = {}

(***************************************************************************)
(* What happens outside, and how the session is told.                      *)
(***************************************************************************)
(* A signal arrives, or the stream overflows and says so instead.          *)
Tell(q, s) == {Append(q, s)} \cup IF Overflow THEN {Append(q, Lost)} ELSE {}
TellIf(watched, q, s) == IF watched THEN Tell(q, s) ELSE {q}

Inside(c) == Depth = "recursive" \/ c \in followed
RefsSeen(r) == Depth = "recursive" \/ r \in refsFollowed

Happens ==
    /\ events < MaxEvents
    /\ events' = events + 1
    /\ UNCHANGED <<pc, turn, walk, entries, waiting, memo, covered, refsFollowed, skipped>>

(* A build takes the lock; the first one makes the lock file.              *)
TakeLock(c) ==
    /\ Happens
    /\ c \in present /\ lock[c] \in {"free", "absent"}
    /\ lock' = [lock EXCEPT ![c] = "held"]
    /\ queue' \in TellIf(lock[c] = "absent" /\ Inside(c), queue, In("bookkeeping", c))
    /\ UNCHANGED <<present, standing, told, untold, raised, blocked, followed>>

BuildWrites(c) ==
    /\ Happens
    /\ c \in present /\ lock[c] = "held"
    /\ told' = IF Inside(c) THEN told \cup {c} ELSE told
    /\ untold' = IF Inside(c) THEN untold ELSE untold \cup {c}
    /\ queue' \in TellIf(Inside(c), queue, In("written", c))
    /\ UNCHANGED <<present, lock, standing, raised, blocked, followed>>

(* Letting go of a lock is an event only where closing a file is one       *)
(* (IN_CLOSE_WRITE).                                                       *)
LetGo(c) ==
    /\ lock[c] = "held"
    /\ lock' = [lock EXCEPT ![c] = "free"]
    /\ queue' \in TellIf(Depth = "named" /\ c \in followed, queue, In("bookkeeping", c))
    /\ UNCHANGED <<present, standing, told, untold, raised, events, blocked, pc,
                   turn, walk, entries, waiting, memo, watches>>

(* The lock file can no longer be opened, or again.                        *)
Chmod(c) ==
    /\ Happens
    /\ \/ /\ lock[c] = "free"
          /\ Cardinality({d \in Caches : lock[d] = "opaque"}) < MaxOpaque
          /\ lock' = [lock EXCEPT ![c] = "opaque"]
       \/ /\ lock[c] = "opaque"
          /\ lock' = [lock EXCEPT ![c] = "free"]
    /\ UNCHANGED <<present, standing, told, untold, raised, queue, blocked, followed>>

(* The cache is gone: from the disk, its lock, its watches.                *)
Gone(c) ==
    /\ present' = present \ {c}
    /\ lock' = [lock EXCEPT ![c] = "absent"]
    /\ told' = told \ {c}
    /\ untold' = untold \ {c}
    /\ followed' = followed \ {c}
    /\ blocked' = [blocked EXCEPT ![c] = IF @ = "lock" THEN "old lock" ELSE @]
    /\ queue' \in Tell(queue, In("vanished", c))

UserRemoves(c) ==
    /\ Happens
    /\ c \in present
    /\ Gone(c)
    /\ UNCHANGED <<standing, raised>>

UserMakes(c) ==
    /\ Happens
    /\ c \notin present
    /\ present' = present \cup {c}
    /\ lock' \in {[lock EXCEPT ![c] = l] : l \in {"absent", "held"}}
    /\ queue' \in Tell(queue, In("appeared", c))
    /\ UNCHANGED <<standing, told, untold, raised, blocked, followed>>

(* A branch is merged, or a worktree is checked out anew.  A hook, where   *)
(* it is installed, records its repository and wakes the session.          *)
RefUpdate(c) ==
    LET r == RepositoryOf[c]
    IN  /\ Happens
        /\ standing' = [standing EXCEPT ![c] = IF @ = "active" THEN "settled" ELSE "active"]
        /\ raised' = IF r \in Hooks THEN raised \cup {r} ELSE raised
        /\ \E q \in TellIf(RefsSeen(r), queue, Refs(r)) : queue' \in TellIf(r \in Hooks, q, Wake)
        /\ UNCHANGED <<present, lock, told, untold, blocked, followed>>

(* `auto --execute` is handed to the session: it is about every repository.*)
Request ==
    /\ Happens
    /\ raised' = raised \cup {Everything}
    /\ queue' \in Tell(queue, Wake)
    /\ UNCHANGED <<present, lock, standing, told, untold, blocked, followed>>

(* Mutant: the waiter gets the lock and ends.                              *)
WaiterEnds(c) ==
    /\ blocked[c] = "old lock" \/ (blocked[c] = "lock" /\ lock[c] # "held")
    /\ blocked' = [blocked EXCEPT ![c] = "none"]
    /\ UNCHANGED <<outside, queue, pc, turn, walk, entries, waiting, memo, watches>>

(* A waiter gets the lock, drops it and reports.                           *)
WaiterReports(c) ==
    /\ blocked[c] = "old lock" \/ (blocked[c] = "lock" /\ lock[c] # "held")
    /\ blocked' = [blocked EXCEPT ![c] = "none"]
    /\ queue' = Append(queue, In("released", c))
    /\ UNCHANGED <<outside, pc, turn, walk, entries, waiting, memo, watches>>

(***************************************************************************)
(* The session's own bookkeeping.                                          *)
(***************************************************************************)
(* A survey that finds nothing readable is none.                           *)
Surveyed(c) ==
    IF c \notin present THEN "none" ELSE IF lock[c] = "absent" THEN "bare" ELSE "locks"

(* The locks that a survey knows, tried: `busy::held`.                     *)
Holding(s, c) ==
    IF s = "bare" THEN "free"
    ELSE CASE lock[c] = "held" -> "held"
           [] lock[c] = "opaque" -> "unknown"
           [] OTHER -> "free"

(* The answer of git, out of the cache or into it.                         *)
Asked(c) == IF memo[c] = "none" THEN [memo EXCEPT ![c] = standing[c]] ELSE memo

Follow(c) ==
    IF Depth = "recursive" \/ c \notin present
    THEN UNCHANGED <<followed, covered>>
    ELSE \/ followed' = followed \cup {c} /\ UNCHANGED covered
         \/ covered' = FALSE /\ UNCHANGED followed

Forget(c) ==
    /\ world' = world \ {c}
    /\ dirty' = dirty \ {c}
    /\ changed' = changed \ {c}
    /\ whole' = whole \ {c}
    /\ resurvey' = resurvey \ {c}
    /\ survey' = [survey EXCEPT ![c] = "none"]

(* What is still to be read and names work in the cache.                   *)
Announced(q, c) ==
    \E i \in DOMAIN q : q[i] \in {In("written", c), In("bookkeeping", c), Lost}

(* Deleting what is settled: asked of git anew, under the cache's lock.    *)
(* What is refused is forgotten all the same, and what was noted with it.  *)
Reap(c) ==
    IF /\ c \in present
       /\ standing[c] = "settled"
       /\ lock[c] \in {"absent", "free"}
    THEN Gone(c)
    ELSE /\ untold' = IF c \in changed \cup whole THEN untold \cup ({c} \cap told) ELSE untold
         /\ told' = IF Announced(batch \o queue, c) THEN told ELSE told \ {c}
         /\ UNCHANGED <<present, lock, followed, blocked, queue>>

(* Mutant: what a prune keeps is written anew.                             *)
RemovesAlways(c, everything) == c \in present

(* Whether there is anything to prune.                                     *)
Removes(c, everything) == c \in told \/ (everything /\ c \in untold)

(* Pruning under the locks that the survey knows: of everything, or of     *)
(* what is noted.  What it removes is an event inside the cache as well.   *)
(* When a lock is held again the prune is refused, and what was noted is   *)
(* noted no more.                                                          *)
Prune(s, c, everything) ==
    LET covers == s = "locks" /\ Holding(s, c) = "free"
        noted == c \in changed \cup whole
    IN  /\ told' = IF Announced(batch \o queue, c) THEN told ELSE told \ {c}
        /\ untold' = CASE covers /\ everything -> untold \ {c}
                       [] ~covers /\ noted /\ c \in told -> untold \cup {c}
                       [] OTHER -> untold
        /\ queue' \in TellIf(covers /\ Removes(c, everything) /\ Inside(c), queue, In("written", c))

(***************************************************************************)
(* The start: the flag is put down, what has arrived is kept for the first *)
(* turn, and everything is sighted, reaped or pruned, and adopted.         *)
(***************************************************************************)
Sighting(why, where) ==
    /\ pc' = "sight"
    /\ round' = why
    /\ todo' = where
    /\ seen' = {} /\ settled' = {}

Start ==
    /\ pc = "open"
    /\ raised' = {}
    /\ batch' = queue /\ queue' = <<>>
    /\ Sighting("start", Caches)
    /\ UNCHANGED <<present, lock, standing, told, untold, events, blocked, hooked,
                   lost, refs, appeared, entries, waiting, memo, watches>>

Sight(c) ==
    /\ pc = "sight" /\ c \in todo
    /\ todo' = todo \ {c}
    /\ IF c \in present
       THEN seen' = seen \cup {c} /\ memo' = Asked(c)
       ELSE UNCHANGED <<seen, memo>>
    /\ UNCHANGED <<outside, queue, blocked, pc, round, turn, settled, entries, waiting,
                   watches>>

(* The directories that were walked are watched now, and the refs in them. *)
(* What is not there any more is forgotten, and what is known is not       *)
(* examined.                                                               *)
Saw ==
    LET vanished == IF round \in {"lost", "kept"} THEN world \ seen ELSE {}
        found == IF round = "examine" THEN seen \ world ELSE seen
    IN  /\ pc = "sight" /\ todo = {}
        /\ pc' = "ask"
        /\ \/ /\ refsFollowed' = IF Depth = "named" THEN Repositories ELSE {}
              /\ UNCHANGED covered
           \/ /\ Depth = "named"
              /\ covered' = FALSE
              /\ UNCHANGED refsFollowed
        /\ todo' = found /\ seen' = found
        /\ world' = world \ vanished
        /\ dirty' = dirty \ vanished
        /\ changed' = changed \ vanished
        /\ whole' = whole \ vanished
        /\ resurvey' = resurvey \ vanished
        /\ survey' = [c \in Caches |-> IF c \in vanished THEN "none" ELSE survey[c]]
        /\ UNCHANGED <<outside, queue, blocked, turn, round, settled, waiting, memo,
                       followed, skipped>>

(* `lets_go`, and in `reown` the cached answer before it: settled, and no  *)
(* lock of a fresh survey is held.                                         *)
Ask(c) ==
    /\ pc = "ask" /\ c \in todo
    /\ todo' = todo \ {c}
    /\ memo' = Asked(c)
    /\ LET s == Surveyed(c)
       IN  settled' = IF /\ memo'[c] = "settled"
                         /\ s # "none" /\ Holding(s, c) = "free"
                      THEN settled \cup {c} ELSE settled
    /\ UNCHANGED <<outside, queue, blocked, pc, round, turn, seen, entries, waiting, watches>>

Asks ==
    /\ pc = "ask" /\ todo = {}
    /\ pc' = "reap"
    /\ seen' = seen \ settled
    /\ UNCHANGED <<outside, queue, blocked, round, turn, todo, settled, entries, waiting,
                   memo, watches>>

(* What is reaped is forgotten, whether it could be deleted or not.        *)
ReapSettled(c) ==
    /\ pc = "reap" /\ c \in settled
    /\ settled' = settled \ {c}
    /\ Reap(c)
    /\ Forget(c)
    /\ UNCHANGED <<standing, raised, events, pc, round, turn, todo, seen, waiting, memo,
                   refsFollowed, covered, skipped>>

Reaped ==
    /\ pc = "reap" /\ settled = {}
    /\ todo' = seen
    /\ pc' = CASE round = "start" -> "prune"
               [] round = "reown" -> "examine"
               [] OTHER -> "adopt"
    /\ UNCHANGED <<outside, queue, blocked, round, turn, seen, settled, entries, waiting,
                   memo, watches>>

PruneSighted(c) ==
    /\ pc = "prune" /\ c \in todo
    /\ todo' = todo \ {c}
    /\ Prune(Surveyed(c), c, TRUE)
    /\ memo' = Asked(c)
    /\ UNCHANGED <<present, lock, standing, raised, events, blocked, pc, round, turn, seen,
                   settled, entries, waiting, watches>>

PrunedSighted ==
    /\ pc = "prune" /\ todo = {}
    /\ pc' = "adopt"
    /\ todo' = seen
    /\ UNCHANGED <<outside, queue, blocked, round, turn, seen, settled, entries, waiting,
                   memo, watches>>

(* What is new is surveyed and watched, and is dirty unless the start has  *)
(* processed it.                                                           *)
Adopt(c) ==
    /\ pc = "adopt" /\ c \in todo \ world
    /\ todo' = todo \ {c}
    /\ survey' = [survey EXCEPT ![c] = Surveyed(c)]
    /\ Follow(c)
    /\ world' = world \cup {c}
    /\ IF round = "start"
       THEN UNCHANGED <<dirty, whole>>
       ELSE dirty' = dirty \cup {c} /\ whole' = whole \cup {c}
    /\ UNCHANGED <<outside, queue, blocked, pc, round, turn, seen, settled, changed,
                   resurvey, waiting, memo, refsFollowed, skipped>>

(* What is known and has lost its track is surveyed again, and the parts   *)
(* of the profiles that its stored survey knows count as changed.          *)
LostTrack(c) ==
    /\ pc = "adopt" /\ c \in todo \cap world
    /\ todo' = todo \ {c}
    /\ IF round = "lost"
       THEN /\ dirty' = dirty \cup {c}
            /\ resurvey' = resurvey \cup {c}
            /\ IF survey[c] = "locks"
               THEN changed' = changed \cup {c} /\ UNCHANGED <<told, untold>>
               ELSE /\ untold' = untold \cup ({c} \cap told)
                    /\ told' = IF c \in changed \cup whole \/ Announced(queue, c)
                               THEN told ELSE told \ {c}
                    /\ UNCHANGED changed
       ELSE UNCHANGED <<dirty, resurvey, changed, told, untold>>
    /\ UNCHANGED <<present, lock, standing, raised, events, queue, blocked, pc, round, turn,
                   seen, settled, world, whole, survey, waiting, memo, watches>>

(* Mutant: what waits for a lock is processed as well.                     *)
ReadyOrWaiting == dirty

(* What `settle` processes.                                                *)
Ready == dirty \ waiting

Adopted ==
    /\ pc = "adopt" /\ todo = {}
    /\ pc' = CASE round = "start" -> "take"
               [] round = "kept" -> "examine"
               [] OTHER -> "settle"
    /\ todo' = IF round \in {"lost", "examine"} THEN Ready ELSE {}
    /\ seen' = {}
    /\ UNCHANGED <<outside, queue, blocked, round, turn, settled, entries, waiting, memo,
                   watches>>

(***************************************************************************)
(* A turn: the flag is taken, then the signals, one by one.                *)
(***************************************************************************)
Receive ==
    /\ pc = "receive" /\ queue # <<>>
    /\ batch' = queue /\ queue' = <<>>
    /\ pc' = "take"
    /\ UNCHANGED <<outside, blocked, walk, hooked, lost, refs, appeared, entries, waiting,
                   memo, watches>>

Take ==
    /\ pc = "take"
    /\ hooked' = raised
    /\ raised' = {}
    /\ lost' = FALSE /\ refs' = {} /\ appeared' = {}
    /\ pc' = "classify"
    /\ UNCHANGED <<present, lock, standing, told, untold, events, queue, blocked, batch, walk,
                   entries, waiting, memo, watches>>

Signalled(signals) ==
    /\ pc = "classify" /\ batch # <<>>
    /\ Head(batch) \in signals
    /\ batch' = Tail(batch)
    /\ UNCHANGED <<present, lock, standing, raised, events, queue, blocked, pc, hooked, walk,
                   survey, memo, watches>>

SeeLost ==
    /\ Signalled({Lost})
    /\ lost' = TRUE
    /\ UNCHANGED <<told, untold, refs, appeared, world, dirty, changed, whole, resurvey, waiting>>

SeeWake ==
    /\ Signalled({Wake})
    /\ UNCHANGED <<told, untold, lost, refs, appeared, world, dirty, changed, whole, resurvey,
                   waiting>>

SeeRefs(r) ==
    /\ Signalled({Refs(r)})
    /\ refs' = refs \cup {r}
    /\ UNCHANGED <<told, untold, lost, appeared, world, dirty, changed, whole, resurvey, waiting>>

SeeVanished(c) ==
    /\ pc = "classify" /\ batch # <<>>
    /\ Head(batch) = In("vanished", c)
    /\ batch' = Tail(batch)
    /\ IF c \in world THEN Forget(c) ELSE UNCHANGED entries
    /\ UNCHANGED <<outside, queue, blocked, pc, hooked, lost, refs, appeared, walk, waiting,
                   memo, watches>>

(* Mutant: nothing more is noted of a cache that waits.                    *)
SeeWithinUnlessWaiting(c) ==
    /\ c \in world
    /\ Signalled({In(kind, c) : kind \in {"written", "bookkeeping", "appeared"}})
    /\ changed' = IF c \in waiting THEN changed ELSE changed \cup {c}
    /\ dirty' = dirty \cup {c}
    /\ resurvey' = IF Head(batch).kind = "written" THEN resurvey ELSE resurvey \cup {c}
    /\ UNCHANGED <<told, untold, lost, refs, appeared, world, whole, waiting>>

(* The cache itself, a lock in it or other bookkeeping ask for a survey.   *)
SeeWithin(c) ==
    /\ c \in world
    /\ Signalled({In(kind, c) : kind \in {"written", "bookkeeping", "appeared"}})
    /\ changed' = changed \cup {c}
    /\ dirty' = dirty \cup {c}
    /\ resurvey' = IF Head(batch).kind = "written" THEN resurvey ELSE resurvey \cup {c}
    /\ UNCHANGED <<told, untold, lost, refs, appeared, world, whole, waiting>>

SeeOutside(c) ==
    /\ c \notin world
    /\ Signalled({In(kind, c) : kind \in {"written", "bookkeeping", "appeared"}})
    /\ IF Head(batch).kind = "appeared"
       THEN appeared' = appeared \cup {c} /\ UNCHANGED <<told, untold>>
       ELSE /\ untold' = untold \cup ({c} \cap told)
            /\ told' = IF Announced(Tail(batch) \o queue, c) THEN told ELSE told \ {c}
            /\ UNCHANGED appeared
    /\ UNCHANGED <<lost, refs, world, dirty, changed, whole, resurvey, waiting>>

(* Mutant: the report of a waiter only ends the wait.                      *)
SeeReleasedOnly(c) ==
    /\ Signalled({In("released", c)})
    /\ waiting' = waiting \ {c}
    /\ UNCHANGED <<told, untold, lost, refs, appeared, world, dirty, changed, whole, resurvey>>

SeeReleased(c) ==
    /\ Signalled({In("released", c)})
    /\ waiting' = waiting \ {c}
    /\ dirty' = dirty \cup {c}
    /\ UNCHANGED <<told, untold, lost, refs, appeared, world, changed, whole, resurvey>>

(* Mutant: the caches are asked about out of what is cached.               *)
ReownCached(repositories) ==
    /\ pc' = "ask"
    /\ round' = "reown"
    /\ todo' = {c \in world : RepositoryOf[c] \in repositories}
    /\ UNCHANGED <<seen, settled, memo>>

(* What has been cached of these repositories is forgotten, and their      *)
(* caches are asked about.                                                 *)
Reown(repositories) ==
    LET theirs == {c \in Caches : RepositoryOf[c] \in repositories}
    IN  /\ pc' = "ask"
        /\ round' = "reown"
        /\ memo' = [c \in Caches |-> IF c \in theirs THEN "none" ELSE memo[c]]
        /\ todo' = world \cap theirs
        /\ UNCHANGED <<seen, settled>>

(* Mutant: what is cached survives the loss.                               *)
ResightCached(why) == Sighting(why, Caches) /\ UNCHANGED memo

(* Nothing that was cached is believed any more, and everything is sighted.*)
Resight(why) ==
    /\ Sighting(why, Caches)
    /\ memo' = [c \in Caches |-> "none"]

(* Mutant: a hook is taken for the whole of the notice.                    *)
AskingHooked == IF hooked = {} THEN refs ELSE hooked \ {Everything}

(* The repositories that a hook or a ref update names.                     *)
Asking == refs \cup (hooked \ {Everything})

Decide ==
    /\ pc = "classify" /\ batch = <<>>
    /\ CASE lost -> Resight("lost")
         [] ~lost /\ hooked # {} /\ ~covered -> Resight("kept")
         [] ~lost /\ Everything \in hooked /\ covered -> Reown(Repositories)
         [] ~lost /\ Everything \notin hooked /\ (hooked = {} \/ covered) /\ Asking # {} ->
                Reown(Asking)
         [] OTHER -> pc' = "examine" /\ UNCHANGED <<walk, memo>>
    /\ lost' = FALSE /\ refs' = {} /\ hooked' = {}
    /\ UNCHANGED <<outside, queue, blocked, batch, appeared, entries, waiting, watches>>

(* What appeared and is outside of every candidate is sighted.             *)
Examine ==
    LET targets == (appeared \ world) \cap present
    IN  /\ pc = "examine"
        /\ IF targets = {}
           THEN /\ pc' = "settle"
                /\ todo' = Ready
                /\ UNCHANGED <<round, seen, settled>>
           ELSE Sighting("examine", targets)
        /\ appeared' = {}
        /\ UNCHANGED <<outside, queue, blocked, batch, hooked, lost, refs, entries, waiting,
                       memo, watches>>

(***************************************************************************)
(* Settling what is dirty.                                                 *)
(***************************************************************************)
(* `process` up to the locks.                                              *)
Probe(c) ==
    LET fresh == c \in whole \cup resurvey \/ survey[c] = "none"
        s == IF fresh THEN Surveyed(c) ELSE survey[c]
        surveys ==
            /\ survey' = [survey EXCEPT ![c] = s]
            /\ resurvey' = IF fresh THEN resurvey \ {c} ELSE resurvey
            /\ dirty' = dirty \ {c}
            /\ IF fresh THEN Follow(c) ELSE UNCHANGED <<followed, covered>>
            /\ UNCHANGED <<world, changed, whole>>
    IN  /\ pc = "settle" /\ c \in todo
        /\ todo' = todo \ {c}
        /\ skipped' = IF c \in world /\ s # "none" /\ Holding(s, c) = "unknown"
                      THEN skipped \cup {c} ELSE skipped \ {c}
        /\ \/ /\ c \notin world
              /\ dirty' = dirty \ {c}
              /\ UNCHANGED <<world, changed, whole, resurvey, survey, waiting, blocked, pc,
                             seen, followed, covered>>
           \/ /\ c \in world /\ s = "none"
              /\ Forget(c)
              /\ UNCHANGED <<waiting, blocked, pc, seen, followed, covered>>
           \/ /\ c \in world /\ s # "none" /\ Holding(s, c) = "unknown"
              /\ surveys
              /\ UNCHANGED <<waiting, blocked, pc, seen>>
           \/ /\ c \in world /\ s # "none" /\ Holding(s, c) = "held"
              /\ surveys
              /\ waiting' = waiting \cup {c}
              /\ blocked' = [blocked EXCEPT ![c] = "lock"]
              /\ UNCHANGED <<pc, seen>>
           \/ /\ c \in world /\ s # "none" /\ Holding(s, c) = "free"
              /\ surveys
              /\ pc' = "serve" /\ seen' = {c}
              /\ UNCHANGED <<waiting, blocked>>
        /\ UNCHANGED <<outside, queue, round, turn, settled, memo, refsFollowed>>

(* The rest of it: reaped or pruned.                                       *)
Serve(c) ==
    /\ pc = "serve" /\ c \in seen
    /\ memo' = Asked(c)
    /\ IF memo'[c] = "settled"
       THEN Reap(c) /\ Forget(c)
       ELSE /\ Prune(survey[c], c, c \in whole)
            /\ changed' = changed \ {c}
            /\ whole' = whole \ {c}
            /\ UNCHANGED <<present, lock, followed, blocked, world, dirty, resurvey, survey>>
    /\ pc' = "settle" /\ seen' = {}
    /\ UNCHANGED <<standing, raised, events, round, turn, todo, settled, waiting,
                   refsFollowed, covered, skipped>>

Settled ==
    /\ pc = "settle" /\ todo = {}
    /\ pc' = "receive"
    /\ UNCHANGED <<outside, queue, blocked, walk, turn, entries, waiting, memo, watches>>

(***************************************************************************)

Outside ==
    \/ \E c \in Caches : TakeLock(c) \/ BuildWrites(c) \/ LetGo(c) \/ Chmod(c)
    \/ \E c \in Caches : UserRemoves(c) \/ UserMakes(c) \/ RefUpdate(c)
    \/ Request

Session ==
    \/ Start \/ Saw \/ Asks \/ Reaped \/ PrunedSighted \/ Adopted
    \/ Receive \/ Take \/ SeeLost \/ SeeWake \/ Decide \/ Examine \/ Settled
    \/ \E r \in Repositories : SeeRefs(r)
    \/ \E c \in Caches :
          \/ Sight(c) \/ Ask(c) \/ ReapSettled(c) \/ PruneSighted(c) \/ Adopt(c)
          \/ LostTrack(c) \/ SeeVanished(c) \/ SeeWithin(c) \/ SeeOutside(c)
          \/ SeeReleased(c) \/ Probe(c) \/ Serve(c)

Next == Outside \/ Session \/ \E c \in Caches : WaiterReports(c)

Spec == Init /\ [][Next]_vars

(***************************************************************************)
(* Properties.                                                             *)
(***************************************************************************)
Unread == batch \o queue
Quiet == pc = "receive" /\ queue = <<>>

(* A write that an event has named is never lost on its way through the    *)
(* session: until it is pruned it is unread, or noted with its cache.      *)
ToldIsNoted ==
    \A c \in told : c \in changed \cup whole \/ lost \/ Announced(Unread, c)
                    \/ (pc \in {"sight", "ask", "reap", "adopt"} /\ round = "lost")

(* What is noted is on its way: its cache is dirty, is being served or     *)
(* waits for a lock, unless that lock could not be opened.                 *)
NotedIsPending ==
    \A c \in (changed \cup whole) :
        \/ c \in dirty \cup waiting
        \/ pc = "serve" /\ c \in seen
        \/ c \in skipped

(* Whoever waits is woken: for every waiting cache there is one waiter, or *)
(* one report of it, and never two.                                        *)
Reports(c) == Cardinality({i \in DOMAIN Unread : Unread[i] = In("released", c)})
WaiterReportsOnce ==
    \A c \in Caches :
        Reports(c) + (IF blocked[c] = "none" THEN 0 ELSE 1) = (IF c \in waiting THEN 1 ELSE 0)

(* A cached answer of git that has become wrong is going to be asked       *)
(* again: its repository is named by what is still to be taken or read.    *)
StaleIsNoticed ==
    \A c \in Caches :
        memo[c] \notin {"none", standing[c]} =>
            \/ lost \/ Lost \in {Unread[i] : i \in DOMAIN Unread}
            \/ Refs(RepositoryOf[c]) \in {Unread[i] : i \in DOMAIN Unread}
            \/ {RepositoryOf[c], Everything} \cap (raised \cup hooked \cup refs) # {}

(***************************************************************************)
(* What the documentation says, and does not hold.                         *)
(***************************************************************************)
AtRest == Quiet /\ \A c \in Caches : blocked[c] = "none" /\ lock[c] # "held"

(* A write inside a cache updates that cache's changed files, waits for    *)
(* its writer and is pruned (docs/usage.md:119).  The look at the lock and *)
(* the lease of the prune are two steps, and what was noted is dropped     *)
(* when a build comes between them.                                        *)
WritesAreServed == AtRest => untold \cap world = {}

(***************************************************************************)
(* Liveness: the session thread, its waiters and the builds go on.         *)
(***************************************************************************)
FairSpec ==
    /\ Spec
    /\ WF_vars(Session)
    /\ \A c \in Caches : WF_vars(WaiterReports(c)) /\ WF_vars(LetGo(c))

(* What is noted in a cache is served in the end, unless its lock could not *)
(* be opened.                                                              *)
NotedIsServed == \A c \in Caches : c \in changed ~> c \notin changed \/ c \in skipped

(* A request reaps what it finds settled and free: its repository's cached *)
(* answers are dropped before they are used (docs/usage.md:142).           *)
RequestReaps ==
    \A c \in Caches :
        (/\ raised # {} /\ c \in world
         /\ standing[c] = "settled" /\ lock[c] \in {"absent", "free"})
        ~> (c \notin present \/ standing[c] = "active" \/ lock[c] \in {"held", "opaque"})

(* The session's own deletions come back to it as events, and it comes to  *)
(* rest all the same.                                                      *)
ComesToRest == <>[]Quiet
===============================================================================
