-------------------------------- MODULE Sessions --------------------------------
(***************************************************************************)
(* Pruning one profile of a build directory: what rustc never reads again. *)
(* A unit has incremental sessions, each a directory with a lock file next *)
(* to it, debug objects named after the rustc run that wrote them, and two *)
(* images that may name such objects.  `prune` leases the locks of the     *)
(* cargo builds, lists the sessions, the objects and what the images name, *)
(* and removes what is doomed, one at a time (cli prune.rs, core prune.rs, *)
(* core macho.rs, prune_file and prune_session of platform/unix.rs).       *)
(*                                                                         *)
(* A rustc that lost its cargo goes on, under the lock of its session and  *)
(* under no other.  A prune may die anywhere, and a removal may fail.      *)
(***************************************************************************)
EXTENDS Naturals, FiniteSets

CONSTANTS
    Earlier,    \* the rustc runs of the past, by what they left
    Runs,       \* the rustc runs to come
    MaxPrunes,  \* bound: prunes
    MaxDeaths   \* bound: processes that die

ASSUME SessionsAssumption == IsFiniteSet(Runs)

Rustcs == Earlier \cup Runs
Images == {"executable", "library"}

VARIABLES
    session,    \* of each run: its session directory, and the lock file next to it
    began,      \* of each run: when it began, 0 before
    objects,    \* the debug objects there are, each the one of its run
    image,      \* of each image: absent, or a file and what it names
    rustc,      \* of each run: how far it got
    cargo,      \* does a build hold the lock of the profile?
    orphaned,   \* did a rustc outlive its cargo? (history)
    finished,   \* was a session ever finished? (history)
    mode,       \* of the prune under way, or "none"
    scope,      \* the directories of the profile it looks at
    pruning,    \* its next step
    doomed,     \* what it is to remove: sessions, and objects
    listed,     \* the objects whose names it has read
    target,     \* the session it is removing, with what it knows of its lock
    tally,      \* of each rule: removed
    held,       \* sessions that their rustc holds
    prunes, killed

profile == <<session, began, objects, image>>
build == <<rustc, cargo, orphaned, finished>>
prune == <<mode, scope, pruning, doomed, listed, target, tally, held>>
sessionVars == <<profile, build, prune, prunes, killed>>

Directories == {"incremental", "deps"}
Rules == {"stale-object", "superseded-session", "abandoned-session"}
NoSession == [stage |-> "none", whole |-> FALSE, lock |-> FALSE, holder |-> "nobody"]
NoTarget == [listed |-> "nothing"]
Nothing == [sessions |-> {}, objects |-> {}]
NoTally == [r \in Rules |-> 0]

Compiling(r) == rustc[r] \in {"compiling", "finished"}

-------------------------------------------------------------------------------
(* A run of the past finished, was killed at work, or left nothing; its lock *)
(* file may be gone, when somebody moved the cache.                         *)
Left == {NoSession} \cup
    [stage : {"working", "finalized"}, whole : {TRUE}, lock : BOOLEAN, holder : {"nobody"}]

(* An image is a file that can be read or not, which is a linked one of     *)
(* this platform or not, has so many symbol tables, ends its names or is    *)
(* cut short, and names debug objects.                                      *)
ImageFiles(kinds, tables, names) ==
    [file : {"there", "io"}, linked : kinds, tables : tables, ended : BOOLEAN, names : names]
Absent == [file |-> "absent", names |-> {}]
LinkedOf(names) == [file |-> "there", linked |-> TRUE, tables |-> 1, ended |-> TRUE, names |-> names]

(* When a run can have begun, in the order of their sessions' stamps.       *)
Began == 0..(3 + Cardinality(Runs))
Items == [of : Rustcs, stage : {"working", "finalized"}]
Removing == pruning \in {"open", "clear", "rmdir", "unlink"}
SessionStates == [stage : {"none", "working", "finalized"}, whole : BOOLEAN, lock : BOOLEAN,
                  holder : {"nobody", "rustc", "prune"}]

SessionsTypeOK ==
    /\ session \in [Rustcs -> SessionStates]
    /\ began \in [Rustcs -> Began]
    /\ objects \subseteq Rustcs
    /\ image \in [Images -> {Absent} \cup ImageFiles(BOOLEAN, 0..2, SUBSET Rustcs)]
    /\ rustc \in [Rustcs -> {"waiting", "compiling", "finished", "done"}]
    /\ cargo \in BOOLEAN /\ orphaned \in BOOLEAN /\ finished \in BOOLEAN
    /\ mode \in {"none", "dry-run", "execute"} /\ scope \subseteq Directories
    /\ Removing \/ pruning \in {"none", "sessions", "objects", "images", "next"}
    /\ doomed \in [sessions : SUBSET Items, objects : SUBSET Rustcs]
    /\ listed \subseteq Rustcs
    /\ target \in {NoTarget} \cup [listed : Items, lock : {"absent", "taken"}]
    /\ DOMAIN tally = Rules
    /\ held \in Nat /\ prunes \in Nat /\ killed \in Nat

SessionsInit ==
    /\ session \in [Rustcs -> Left] /\ \A r \in Runs : session[r] = NoSession
    /\ began \in [Rustcs -> 0..2]
    /\ \A r \in Rustcs : began[r] = 0 <=> session[r] = NoSession
    /\ objects = Earlier
    /\ image \in [Images -> {Absent} \cup ImageFiles(BOOLEAN, 0..2, SUBSET Earlier)]
    /\ rustc = [r \in Rustcs |-> IF r \in Runs THEN "waiting" ELSE "done"]
    /\ cargo = FALSE /\ orphaned = FALSE
    /\ finished = (\E r \in Earlier : session[r].stage = "finalized")
    /\ mode = "none" /\ scope = {} /\ pruning = "none" /\ doomed = Nothing /\ listed = {}
    /\ target = NoTarget /\ tally = NoTally /\ held = 0
    /\ prunes = 0 /\ killed = 0

-------------------------------------------------------------------------------
(* The code's reading of what it has listed.                                *)

(* Session::parse: a stage and a stamp.                                     *)
Finalized == {r \in Rustcs : session[r].stage = "finalized"}
Working == {r \in Rustcs : session[r].stage = "working"}

(* rustc loads the newest of the finished sessions.                         *)
Newest == {r \in Finalized : \A q \in Finalized : began[q] <= began[r]}
Doomed == [of : Working, stage : {"working"}] \cup [of : Finalized \ Newest, stage : {"finalized"}]
RuleOf(item) == IF item.stage = "working" THEN "abandoned-session" ELSE "superseded-session"

(* Only a unit with objects of two runs can hold stale ones.                *)
Mixed(names) == Cardinality(names) > 1

(* header: a linked image of this platform; symtab: with one symbol table;  *)
(* terminated: whose names end.  Any other is malformed.                    *)
HeaderOf(i) == i.file = "there" /\ i.linked
SymtabOf(i) == HeaderOf(i) /\ i.tables = 1
DebugObjects(i) == SymtabOf(i) /\ i.ended

(* What the images name, if there is one and each of them can be read.      *)
ReferencedByReadable ==
    LET read == {i \in Images : image[i].file # "absent" /\ DebugObjects(image[i])}
    IN  [known |-> read # {}, names |-> UNION {image[i].names : i \in read}]
Referenced ==
    LET there == {i \in Images : image[i].file # "absent"}
    IN  [known |-> there # {} /\ \A i \in there : DebugObjects(image[i]),
         names |-> UNION {image[i].names : i \in there}]

Stale(names) ==
    IF Mixed(names) /\ Referenced.known THEN names \ Referenced.names ELSE {}

-------------------------------------------------------------------------------
(* Cargo and rustc.                                                         *)
CargoTakes ==
    /\ ~cargo /\ mode # "execute"
    /\ cargo' = TRUE
    /\ UNCHANGED <<profile, rustc, orphaned, finished, prune, prunes, killed>>

(* A build that ends has no rustc left.                                     *)
CargoLeaves ==
    /\ cargo
    /\ ~orphaned => \A r \in Runs : ~Compiling(r)
    /\ cargo' = FALSE
    /\ UNCHANGED <<profile, rustc, orphaned, finished, prune, prunes, killed>>

CargoDies ==
    /\ cargo /\ killed < MaxDeaths
    /\ cargo' = FALSE
    /\ orphaned' = (orphaned \/ \E r \in Runs : Compiling(r))
    /\ killed' = killed + 1
    /\ UNCHANGED <<profile, rustc, finished, prune, prunes>>

(* A new session of its own, under a lock of its own.                       *)
Begin(r) ==
    /\ cargo /\ rustc[r] = "waiting" /\ \A q \in Runs : Compiling(q) => orphaned
    /\ rustc' = [rustc EXCEPT ![r] = "compiling"]
    /\ session' = [session EXCEPT ![r] =
            [stage |-> "working", whole |-> TRUE, lock |-> TRUE, holder |-> "rustc"]]
    /\ began' = [began EXCEPT ![r] = 3 + Cardinality({q \in Runs : began[q] # 0})]
    /\ UNCHANGED <<objects, image, cargo, orphaned, finished, prune, prunes, killed>>

(* It writes its object, then it renames its session.                       *)
FinishSession(r) ==
    /\ rustc[r] = "compiling"
    /\ \/ /\ r \notin objects /\ objects' = objects \cup {r}
          /\ UNCHANGED <<session, rustc, finished>>
       \/ /\ r \in objects
          /\ session' = [session EXCEPT ![r].stage = "finalized"]
          /\ rustc' = [rustc EXCEPT ![r] = "finished"]
          /\ finished' = TRUE /\ UNCHANGED objects
    /\ UNCHANGED <<began, image, cargo, orphaned, prune, prunes, killed>>

(* It links an image from its object and what it has taken over of the      *)
(* others, drops the sessions before its own, and ends.                     *)
Link(r) ==
    /\ rustc[r] = "finished"
    /\ \E i \in Images, reused \in SUBSET objects :
         image' = [image EXCEPT ![i] = LinkedOf(reused \cup {r})]
    /\ session' = [q \in Rustcs |->
            IF q = r THEN [session[q] EXCEPT !.holder = "nobody"]
            ELSE IF session[q].holder = "nobody" /\ began[q] < began[r] THEN NoSession
            ELSE session[q]]
    /\ rustc' = [rustc EXCEPT ![r] = "done"]
    /\ UNCHANGED <<began, objects, cargo, orphaned, finished, prune, prunes, killed>>

RustcDies(r) ==
    /\ Compiling(r) /\ killed < MaxDeaths
    /\ rustc' = [rustc EXCEPT ![r] = "done"]
    /\ session' = [session EXCEPT ![r].holder = "nobody"]
    /\ killed' = killed + 1
    /\ UNCHANGED <<began, objects, image, cargo, orphaned, finished, prune, prunes>>

-------------------------------------------------------------------------------
(* One prune of the profile.                                                *)

(* candidate: the locks are leased, or probed in a dry run, the gate is     *)
(* cleared and the tree is opened.  A build that is at work ends it here.   *)
(* A watch session prunes what it heard of, anybody else everything.        *)
Lease(m, directories) ==
    /\ mode = "none" /\ prunes < MaxPrunes /\ ~cargo
    /\ m = "dry-run" => directories = Directories
    /\ mode' = m /\ scope' = directories /\ pruning' = "sessions" /\ prunes' = prunes + 1
    /\ tally' = NoTally /\ held' = 0
    /\ UNCHANGED <<profile, build, doomed, listed, target, killed>>

(* sessions: their names, with what tells each from another of that name.   *)
ListSessions ==
    /\ pruning = "sessions" /\ pruning' = "objects"
    /\ doomed' = [doomed EXCEPT !.sessions = IF "incremental" \in scope THEN Doomed ELSE {}]
    /\ UNCHANGED <<profile, build, mode, scope, listed, target, tally, held, prunes, killed>>

(* objects: the names, then what the images of the unit say.                *)
ListObjects ==
    /\ pruning = "objects" /\ pruning' = "images"
    /\ listed' = IF "deps" \in scope THEN objects ELSE {}
    /\ UNCHANGED <<profile, build, mode, scope, doomed, target, tally, held, prunes, killed>>

ReadImages ==
    /\ pruning = "images" /\ pruning' = "next"
    /\ doomed' = [doomed EXCEPT !.objects = Stale(listed) \cap objects]
    /\ listed' = {}
    /\ UNCHANGED <<profile, build, mode, scope, target, tally, held, prunes, killed>>

Counted(rule) == tally' = [tally EXCEPT ![rule] = @ + 1]

(* A dry run takes each for removed.                                        *)
Suppose ==
    /\ mode = "dry-run" /\ pruning = "next" /\ doomed # Nothing
    /\ tally' = [r \in Rules |->
            IF r = "stale-object" THEN Cardinality(doomed.objects)
            ELSE Cardinality({item \in doomed.sessions : RuleOf(item) = r})]
    /\ doomed' = Nothing
    /\ UNCHANGED <<profile, build, mode, scope, pruning, listed, target, held, prunes, killed>>

(* prune_file: one that is no longer there is passed over.                  *)
PruneFile(o) ==
    /\ mode = "execute" /\ pruning = "next" /\ doomed.sessions = {} /\ o \in doomed.objects
    /\ doomed' = [doomed EXCEPT !.objects = @ \ {o}]
    /\ IF o \in objects
       THEN objects' = objects \ {o} /\ Counted("stale-object")
       ELSE UNCHANGED <<objects, tally>>
    /\ UNCHANGED <<session, began, image, build, mode, scope, pruning, listed, target, held>>
    /\ UNCHANGED <<prunes, killed>>

(* session_lock: a lock file that is not there is not waited for.           *)
SessionLockBlind(r) == IF session[r].lock /\ session[r].holder = "nobody" THEN "taken" ELSE "absent"
SessionLock(r) ==
    CASE ~session[r].lock -> "absent"
      [] session[r].lock /\ session[r].holder = "nobody" -> "taken"
      [] OTHER -> "held"

(* prune_session: the lock of the session is tried first.                   *)
TryLock(item) ==
    /\ mode = "execute" /\ pruning = "next" /\ item \in doomed.sessions
    /\ doomed' = [doomed EXCEPT !.sessions = @ \ {item}]
    /\ IF SessionLock(item.of) = "held"
       THEN /\ held' = held + 1
            /\ UNCHANGED <<session, pruning, target>>
       ELSE /\ pruning' = "open" /\ target' = [listed |-> item, lock |-> SessionLock(item.of)]
            /\ session' = IF SessionLock(item.of) = "taken"
                          THEN [session EXCEPT ![item.of].holder = "prune"] ELSE session
            /\ UNCHANGED held
    /\ UNCHANGED <<began, objects, image, build, mode, scope, listed, tally, prunes, killed>>

(* The session that was listed, if it is still found under that name.       *)
Found == session[target.listed.of].stage = target.listed.stage

(* The lock is let go and the next session has its turn.                    *)
LetGo(sessions) ==
    /\ session' = [sessions EXCEPT ![target.listed.of].holder = IF @ = "prune" THEN "nobody" ELSE @]
    /\ pruning' = "next" /\ target' = NoTarget

(* The directory is opened: one that was renamed meanwhile is not this one. *)
OpenSession ==
    /\ pruning = "open"
    /\ IF Found
       THEN pruning' = "clear" /\ UNCHANGED <<session, target>>
       ELSE LetGo(session)
    /\ UNCHANGED <<began, objects, image, build, mode, scope, doomed, listed, tally, held>>
    /\ UNCHANGED <<prunes, killed>>

(* Walk::clear, which may fail half way: the directory and its lock file    *)
(* stay, and the failure is reported.                                       *)
Clear ==
    /\ pruning = "clear"
    /\ LET emptied == [session EXCEPT ![target.listed.of].whole = FALSE]
       IN  \/ session' = emptied /\ pruning' = "rmdir" /\ UNCHANGED target
           \/ LetGo(emptied)
    /\ UNCHANGED <<began, objects, image, build, mode, scope, doomed, listed, tally, held>>
    /\ UNCHANGED <<prunes, killed>>

(* Checked once more, the directory goes first.                             *)
RemoveDirectory ==
    /\ pruning = "rmdir"
    /\ IF Found
       THEN /\ session' = [session EXCEPT ![target.listed.of].stage = "none"]
            /\ pruning' = "unlink" /\ UNCHANGED target
       ELSE LetGo(session)
    /\ UNCHANGED <<began, objects, image, build, mode, scope, doomed, listed, tally, held>>
    /\ UNCHANGED <<prunes, killed>>

(* The lock file goes last, if the lock was taken.                          *)
UnlinkLock ==
    /\ pruning = "unlink"
    /\ LetGo(IF target.lock = "taken"
             THEN [session EXCEPT ![target.listed.of].lock = FALSE] ELSE session)
    /\ Counted(RuleOf(target.listed))
    /\ UNCHANGED <<began, objects, image, build, mode, scope, doomed, listed, held>>
    /\ UNCHANGED <<prunes, killed>>

Ended ==
    /\ mode' = "none" /\ scope' = {} /\ pruning' = "none"
    /\ doomed' = Nothing /\ listed' = {} /\ target' = NoTarget

(* The pass is over, and the lease goes with it.                            *)
PassOver ==
    /\ pruning = "next" /\ doomed = Nothing /\ Ended
    /\ UNCHANGED <<profile, build, tally, held, prunes, killed>>

PruneDies ==
    /\ mode # "none" /\ killed < MaxDeaths /\ Ended
    /\ killed' = killed + 1
    /\ session' = [r \in Rustcs |-> [session[r] EXCEPT !.holder = IF @ = "prune" THEN "nobody" ELSE @]]
    /\ UNCHANGED <<began, objects, image, build, tally, held, prunes>>

-------------------------------------------------------------------------------
SessionsNext ==
    \/ CargoTakes \/ CargoLeaves \/ CargoDies
    \/ \E r \in Runs : Begin(r) \/ FinishSession(r) \/ Link(r) \/ RustcDies(r)
    \/ \E m \in {"dry-run", "execute"}, d \in SUBSET Directories : Lease(m, d)
    \/ ListSessions \/ ListObjects \/ ReadImages \/ Suppose
    \/ \E o \in doomed.objects : PruneFile(o)
    \/ \E item \in doomed.sessions : TryLock(item)
    \/ OpenSession \/ Clear \/ RemoveDirectory \/ UnlinkLock \/ PassOver \/ PruneDies

SessionsSpec == SessionsInit /\ [][SessionsNext]_sessionVars

-------------------------------------------------------------------------------
(* A rustc that is at work has its session whole and under its lock, also   *)
(* when its cargo is gone and the profile's lock is free; and once a session *)
(* has been finished, the one that rustc loads next is there and whole      *)
(* (core prune.rs: doomed; prune_session and its lock).                     *)
SessionsSurvive ==
    /\ \A r \in Runs : Compiling(r) => /\ session[r].whole /\ session[r].lock
                                  /\ session[r].holder = "rustc"
    /\ \A r \in Newest : session[r].whole
    /\ finished => Finalized # {}

(* Every object that an image names is there, as long as no rustc outlived  *)
(* its cargo: such a rustc writes objects and images without any lock that  *)
(* a prune takes (prune.rs: objects, referenced, stale).                    *)
ImagesKeepTheirObjects ==
    ~orphaned => \A i \in Images : image[i].names \subseteq objects
===============================================================================
