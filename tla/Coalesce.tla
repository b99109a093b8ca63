------------------------------- MODULE Coalesce -------------------------------
(***************************************************************************)
(* The run station of one policy: the run lock, the pending flag file, the *)
(* `auto` commands that raise the flag and race for the lock, the hooks    *)
(* that hand their work over, and the resident watchers that keep the lock *)
(* for life and are woken by the flag's directory.                         *)
(*                                                                         *)
(* The flag file is read and changed only under `requests.lock`, so each   *)
(* of raise, take, lower and raised is one step here.  Taking the run lock *)
(* and touching the flag are separate steps, and every interleaving of     *)
(* them is explored.  The kernel drops the locks of a process that ends.   *)
(***************************************************************************)
EXTENDS Naturals, FiniteSets

CONSTANTS
    Commands,       \* slots for `auto --execute` and hook processes
    Watchers,       \* slots for resident `watch` processes
    NoOne,          \* nobody holds the run lock
    MaxRequests,    \* how often the flag is raised in all
    MaxFailedRuns,  \* how many runs return an error
    MaxDeaths       \* how many processes die or stop on an i/o error

ASSUME ActorsAssumption ==
    /\ Commands \cap Watchers = {}
    /\ NoOne \notin Commands \cup Watchers
ASSUME BoundsAssumption ==
    /\ MaxRequests \in Nat
    /\ MaxFailedRuns \in Nat
    /\ MaxDeaths \in Nat

Actors == Commands \cup Watchers
Requests == 1..MaxRequests

VARIABLES
    asked,       \* how many requests have been written to the flag
    flag,        \* the requests in the pending file; {} when it is absent
    lock,        \* who holds the run lock
    pc,          \* where each process is
    mine,        \* the request each command wrote last
    ran,         \* whether the command has completed a run
    batch,       \* the requests whose flag the process took down for a sweep
    bell,        \* each watcher's event stream: closed, quiet or rung
    answered,    \* requests a completed sweep has covered
    stranded,    \* requests that were waiting when some process failed
    told,        \* requests whose command was told that they are handed over
    failedRuns, deaths

vars == <<asked, flag, lock, pc, mine, ran, batch, bell, answered, stranded,
          told, failedRuns, deaths>>
faults == <<stranded, failedRuns, deaths>>

CommandStates ==
    {"idle", "hold", "lower", "run", "drop", "check", "probe", "probed", "spawn",
     "child"}
WatcherStates ==
    {"off", "wait", "open", "discard", "drain", "sight", "take", "handle", "recv"}

TypeOK ==
    /\ asked \in 0..MaxRequests
    /\ flag \subseteq 1..asked
    /\ lock \in Actors \cup {NoOne}
    /\ pc \in [Actors -> CommandStates \cup WatcherStates]
    /\ \A c \in Commands : pc[c] \in CommandStates
    /\ \A w \in Watchers : pc[w] \in WatcherStates
    /\ mine \in [Commands -> 0..MaxRequests]
    /\ ran \in [Commands -> BOOLEAN]
    /\ batch \in [Actors -> SUBSET (1..asked)]
    /\ bell \in [Watchers -> {"closed", "quiet", "rung"}]
    /\ answered \subseteq 1..asked
    /\ stranded \subseteq 1..asked
    /\ told \subseteq 0..MaxRequests
    /\ failedRuns \in 0..MaxFailedRuns
    /\ deaths \in 0..MaxDeaths

Rest(a) == IF a \in Commands THEN "idle" ELSE "off"

Init ==
    /\ asked = 0
    /\ flag = {}
    /\ lock = NoOne
    /\ pc = [a \in Actors |-> Rest(a)]
    /\ mine = [c \in Commands |-> 0]
    /\ ran = [c \in Commands |-> FALSE]
    /\ batch = [a \in Actors |-> {}]
    /\ bell = [w \in Watchers |-> "closed"]
    /\ answered = {}
    /\ stranded = {}
    /\ told = {}
    /\ failedRuns = 0
    /\ deaths = 0

Go(a, from, to) == pc[a] = from /\ pc' = [pc EXCEPT ![a] = to]

-------------------------------------------------------------------------------
(* The station's own operations, each made under `requests.lock` or on the *)
(* run lock.                                                               *)

(* Mutant: the flag lies outside the directories a watcher listens to.     *)
RaiseUnheard(c) ==
    /\ asked < MaxRequests
    /\ asked' = asked + 1
    /\ flag' = flag \cup {asked'}
    /\ mine' = [mine EXCEPT ![c] = asked']
    /\ bell' = bell

(* One line is appended to the flag file; the directory event it causes    *)
(* reaches every event stream that is open.                                *)
Raise(c) ==
    /\ asked < MaxRequests
    /\ asked' = asked + 1
    /\ flag' = flag \cup {asked'}
    /\ mine' = [mine EXCEPT ![c] = asked']
    /\ bell' = [w \in Watchers |-> IF bell[w] = "closed" THEN "closed" ELSE "rung"]

(* Mutant: lines that a failed process left in the flag are skipped.       *)
TakeDownFresh(a) ==
    /\ batch' = [batch EXCEPT ![a] = flag \ stranded]
    /\ flag' = flag \cap stranded

(* The flag goes down and what it held becomes the caller's to sweep.      *)
TakeDown(a) ==
    /\ batch' = [batch EXCEPT ![a] = flag]
    /\ flag' = {}

Swept(a) ==
    /\ answered' = answered \cup batch[a]
    /\ batch' = [batch EXCEPT ![a] = {}]

TryLock(a) == lock = NoOne /\ lock' = a

(* Mutant: whoever ends removes the lock, its own or not.                  *)
UnlockAny(a) == lock' = NoOne

Unlock(a) == lock' = IF lock = a THEN NoOne ELSE lock

-------------------------------------------------------------------------------
(* An `auto --execute` command, which is also what a hook spawns.          *)

(* The raises the bound keeps free for hooks that may still spawn a run.   *)
Reserved == Cardinality({c \in Commands :
                pc[c] \in {"probe", "probed", "spawn", "child"}})

(* drive: the command raises the flag before it looks at the lock.         *)
Request(c) ==
    /\ \/ Go(c, "idle", "hold") /\ asked + Reserved < MaxRequests
       \/ Go(c, "child", "hold")
    /\ Raise(c)
    /\ ran' = [ran EXCEPT ![c] = FALSE]
    /\ UNCHANGED <<lock, batch, answered, told, faults>>

Hold(c) ==
    /\ Go(c, "hold", "lower")
    /\ TryLock(c)
    /\ UNCHANGED <<asked, flag, mine, ran, batch, bell, answered, told, faults>>

(* The lock is taken: the command reports what it ran or, when it ran      *)
(* nothing, that its request is handed over.                               *)
HandOver(c) ==
    /\ Go(c, "hold", "idle")
    /\ lock # NoOne
    /\ told' = IF ran[c] THEN told ELSE told \cup {mine[c]}
    /\ UNCHANGED <<asked, flag, lock, mine, ran, batch, bell, answered, faults>>

Lower(c) ==
    /\ IF flag # {}
       THEN Go(c, "lower", "run") /\ TakeDown(c)
       ELSE Go(c, "lower", "drop") /\ UNCHANGED <<batch, flag>>
    /\ UNCHANGED <<asked, lock, mine, ran, bell, answered, told, faults>>

(* Mutant: the flag is lowered after the run and not before it.            *)
RunThenLower(c) ==
    /\ Go(c, "run", "lower")
    /\ answered' = answered \cup batch[c] \cup flag
    /\ batch' = [batch EXCEPT ![c] = {}]
    /\ flag' = {}
    /\ ran' = [ran EXCEPT ![c] = TRUE]
    /\ UNCHANGED <<asked, lock, mine, bell, told, faults>>

Run(c) ==
    /\ Go(c, "run", "lower")
    /\ Swept(c)
    /\ ran' = [ran EXCEPT ![c] = TRUE]
    /\ UNCHANGED <<asked, flag, lock, mine, bell, told, faults>>

Drop(c) ==
    /\ Go(c, "drop", "check")
    /\ Unlock(c)
    /\ UNCHANGED <<asked, flag, mine, ran, batch, bell, answered, told, faults>>

(* Mutant: the flag is not looked at again after the drop.                 *)
CheckNever(c) ==
    /\ Go(c, "check", "idle")
    /\ UNCHANGED <<asked, flag, lock, mine, ran, batch, bell, answered, told,
                   faults>>

(* A request raised between the last look at the flag and the drop.        *)
Check(c) ==
    /\ Go(c, "check", IF flag # {} THEN "hold" ELSE "idle")
    /\ UNCHANGED <<asked, flag, lock, mine, ran, batch, bell, answered, told,
                   faults>>

-------------------------------------------------------------------------------
(* `auto --execute --detach`, the form git hooks use.                      *)

Detach(c) ==
    /\ Go(c, "idle", "probe")
    /\ asked + Reserved + 1 < MaxRequests
    /\ Raise(c)
    /\ UNCHANGED <<lock, ran, batch, answered, told, faults>>

Probe(c) ==
    /\ \/ Go(c, "probe", "probed") /\ TryLock(c)
       \/ Go(c, "probe", "idle") /\ lock # NoOne /\ UNCHANGED lock
    /\ UNCHANGED <<asked, flag, mine, ran, batch, bell, answered, told, faults>>

(* The lock taken to probe is let go again before the run is spawned.      *)
Unprobe(c) ==
    /\ Go(c, "probed", "spawn")
    /\ Unlock(c)
    /\ UNCHANGED <<asked, flag, mine, ran, batch, bell, answered, told, faults>>

Spawn(c) ==
    /\ Go(c, "spawn", "child")
    /\ UNCHANGED <<asked, flag, lock, mine, ran, batch, bell, answered, told,
                   faults>>

-------------------------------------------------------------------------------
(* A resident watcher.                                                     *)

Launch(w) ==
    /\ Go(w, "off", "wait")
    /\ UNCHANGED <<asked, flag, lock, mine, ran, batch, bell, answered, told,
                   faults>>

Wait(w) ==
    /\ Go(w, "wait", "open")
    /\ TryLock(w)
    /\ UNCHANGED <<asked, flag, mine, ran, batch, bell, answered, told, faults>>

OpenStream(w) ==
    /\ Go(w, "open", "discard")
    /\ bell' = [bell EXCEPT ![w] = "quiet"]
    /\ UNCHANGED <<asked, flag, lock, mine, ran, batch, answered, told, faults>>

(* What was asked before the watcher looks at anything is covered by the   *)
(* full sighting it starts with.                                           *)
Discard(w) ==
    /\ Go(w, "discard", "drain")
    /\ TakeDown(w)
    /\ UNCHANGED <<asked, lock, mine, ran, bell, answered, told, faults>>

(* The signals delivered until now are kept for the first turn, which      *)
(* follows the sighting without waiting for another.                       *)
Drain(w) ==
    /\ Go(w, "drain", "sight")
    /\ bell' = [bell EXCEPT ![w] = "quiet"]
    /\ UNCHANGED <<asked, flag, lock, mine, ran, batch, answered, told, faults>>

Sight(w) ==
    /\ Go(w, "sight", "take")
    /\ Swept(w)
    /\ UNCHANGED <<asked, flag, lock, mine, ran, bell, told, faults>>

(* A turn begins by taking the flag, whatever woke it.                     *)
Take(w) ==
    /\ Go(w, "take", "handle")
    /\ TakeDown(w)
    /\ UNCHANGED <<asked, lock, mine, ran, bell, answered, told, faults>>

Handle(w) ==
    /\ Go(w, "handle", "recv")
    /\ Swept(w)
    /\ UNCHANGED <<asked, flag, lock, mine, ran, bell, told, faults>>

(* The batch of signals a turn receives includes every one delivered so    *)
(* far; other file events wake it as well.                                 *)
Receive(w) ==
    /\ Go(w, "recv", "take")
    /\ bell' = [bell EXCEPT ![w] = "quiet"]
    /\ UNCHANGED <<asked, flag, lock, mine, ran, batch, answered, told, faults>>

-------------------------------------------------------------------------------
(* Failures.  The process is gone and the kernel has dropped its locks.    *)

Ends(a) ==
    /\ pc' = [pc EXCEPT ![a] = Rest(a)]
    /\ Unlock(a)
    /\ batch' = [batch EXCEPT ![a] = {}]
    /\ bell' = IF a \in Watchers THEN [bell EXCEPT ![a] = "closed"] ELSE bell
    /\ stranded' = stranded \cup flag
    /\ UNCHANGED <<asked, flag, mine, ran, answered, told>>

(* The run returns an error, which ends the command at once: the flag it   *)
(* lowered stays down and one raised meanwhile stays up.                   *)
RunFails(c) ==
    /\ pc[c] = "run"
    /\ failedRuns < MaxFailedRuns
    /\ failedRuns' = failedRuns + 1
    /\ Ends(c)
    /\ UNCHANGED deaths

(* Killed, or stopped by an i/o error of the station or, for a watcher, of *)
(* its event stream.                                                       *)
Dies(a) ==
    /\ pc[a] # Rest(a)
    /\ deaths < MaxDeaths
    /\ deaths' = deaths + 1
    /\ Ends(a)
    /\ UNCHANGED failedRuns

-------------------------------------------------------------------------------
CommandStep(c) ==
    \/ pc[c] = "child" /\ Request(c)
    \/ Hold(c) \/ HandOver(c) \/ Lower(c) \/ Run(c) \/ Drop(c) \/ Check(c)
    \/ Probe(c) \/ Unprobe(c) \/ Spawn(c)

WatcherStep(w) ==
    \/ Wait(w) \/ OpenStream(w) \/ Discard(w) \/ Drain(w) \/ Sight(w) \/ Take(w)
    \/ Handle(w)
    \/ bell[w] = "rung" /\ Receive(w)

Next ==
    \/ \E c \in Commands :
         \/ Request(c) \/ Detach(c)
         \/ Hold(c) \/ HandOver(c) \/ Lower(c) \/ Run(c) \/ Drop(c) \/ Check(c)
         \/ Probe(c) \/ Unprobe(c) \/ Spawn(c)
         \/ RunFails(c)
    \/ \E w \in Watchers :
         \/ Launch(w) \/ Wait(w) \/ OpenStream(w) \/ Discard(w) \/ Drain(w) \/ Sight(w)
         \/ Take(w) \/ Handle(w) \/ Receive(w)
    \/ \E a \in Actors : Dies(a)

Spec == Init /\ [][Next]_vars

(* A process that has work to do is eventually scheduled.  Nobody has to   *)
(* start a command or a watcher, and no failure has to happen.             *)
Fairness ==
    /\ \A c \in Commands : WF_vars(CommandStep(c))
    /\ \A w \in Watchers : WF_vars(WatcherStep(w))

FairSpec == Spec /\ Fairness

-------------------------------------------------------------------------------
Sweeping == {a \in Actors : pc[a] \in {"run", "sight", "handle"}}

(* Two sweeps of one policy never overlap, whichever mix of commands,      *)
(* spawned hooks and watchers is alive and whoever has died: `hold` and    *)
(* `wait` take the same lock and a sweep runs only under it.               *)
OneSweep ==
    \A a, b \in Actors : a \in Sweeping /\ b \in Sweeping => a = b

(* Somebody who will still look at the flag: a command that has not seen   *)
(* it down after letting the lock go, a hook that will spawn one, or a     *)
(* watcher with a take ahead of it or a wake-up it has not consumed.       *)
Committed(a) ==
    \/ a \in Commands /\ pc[a] # "idle"
    \/ a \in Watchers /\ pc[a] \in {"wait", "open", "discard", "drain", "sight", "take"}
    \/ a \in Watchers /\ pc[a] \in {"handle", "recv"} /\ bell[a] = "rung"

(* No request is forgotten: while the flag holds a request that was not    *)
(* already there when some process failed, somebody is committed to look.  *)
(* This is what the second look in `drive` and the order of raise and hold *)
(* are for.                                                                *)
NobodyForgets ==
    flag \ stranded # {} => \E a \in Actors : Committed(a)

-------------------------------------------------------------------------------
(* The station implements the request service.                             *)

StatusOf(r) ==
    IF r > asked THEN "unasked"
    ELSE IF r \in flag THEN IF r \in stranded THEN "stranded" ELSE "waiting"
    ELSE IF r \in answered THEN "answered"
    ELSE IF \E a \in Actors : r \in batch[a] THEN "sweeping"
    ELSE "failed"

Service == INSTANCE RequestService
             WITH status <- [r \in Requests |-> StatusOf(r)]

(* Every step of the station is a step of the service or changes nothing   *)
(* it can see.                                                             *)
ImplementsService == Service!Spec

(* Under fair scheduling every request not caught by a failure is swept.   *)
EveryRequestAnswered == Service!Answered

(* What a failure leaves in the flag, the next request has swept with it.  *)
StrandedRescued == Service!Rescued

(* What the command prints when it hands its request over (main.rs):       *)
(* "Another run ... is in progress; it will run once more when it          *)
(* finishes."  A run that returns an error leaves the flag up instead.     *)
HandedRunsOnceMore ==
    \A r \in Requests : r \in told ~> r \notin flag
===============================================================================
