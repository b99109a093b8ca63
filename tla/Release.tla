-------------------------------- MODULE Release --------------------------------
(***************************************************************************)
(* The release of a checkout: a monitor that vouches for a working tree    *)
(* until it is written to (release.rs, release_socket.rs, ReleaseFile of   *)
(* store.rs, the event sources of events_linux.rs and events_macos.rs).    *)
(*                                                                         *)
(* The monitor takes the lock of the release, watches the tree, reads it   *)
(* twice, records what it read and answers, over a socket, whoever asks    *)
(* who owns the checkout.  It revokes the release at the first event.  The *)
(* one who asks reads the record, then the endpoint, then asks.  Anyone    *)
(* may write to the tree at any time, or move a directory away and back; a *)
(* write through a mapping raises no event on Linux.  A monitor may be     *)
(* killed anywhere.                                                        *)
(***************************************************************************)
EXTENDS Naturals, Sequences

CONSTANTS
    MaxWrites,     \* bound: writes to the checkout and moves of its directory
    MaxMonitors,   \* bound: monitors started
    MaxAsks        \* bound: ownership checks

VARIABLES
    content,       \* of each file: its bytes
    away,          \* is the directory below the root somewhere else?
    producer,      \* is a lock inside the checkout held?
    monitor,       \* the step the monitor is at
    generation,    \* which monitor, and which socket
    covered,       \* the files whose writes raise an event
    pending,       \* events raised and not read
    phase,         \* of the release, under a mutex
    reading,       \* what a snapshot has read, file by file
    before,        \* the first snapshot
    recorded,      \* the second: what the release is about
    free,          \* were the producers' locks free when they were probed for an answer?
    woken,         \* has the wake socket been written to?
    recordFile,    \* the record in the state directory, or <<>>
    endpointFile,  \* the endpoint next to it, or 0
    strayed,       \* was the directory away since the monitor began? (history)
    told,          \* was a write since the release one that must raise an event? (history)
    ask,           \* an ownership check: its step and what it has read
    written, asks

checkout == <<content, away, producer>>
events == <<covered, pending, woken>>
lease == <<monitor, generation, phase, reading, before, recorded, free>>
store == <<recordFile, endpointFile>>
past == <<strayed, told, written>>
releaseVars == <<checkout, events, lease, store, past, ask, asks>>

(* A file of the root and one of a directory below it, in the order of a    *)
(* snapshot.                                                                *)
FileOrder == <<"top", "deep">>
TreeFiles == {"top", "deep"}

(* What there is to be read of a file: its bytes, if it is there.           *)
Gone == 2
Shows(f) == IF f = "deep" /\ away THEN Gone ELSE content[f]

NoAsk == [at |-> "idle", record |-> <<>>, endpoint |-> 0, reply |-> <<>>,
          told |-> FALSE, toldTo |-> 0, quiet |-> TRUE, outcome |-> "unknown"]

Readings == Seq({0, 1, Gone})
Questions ==
    [at : {"idle", "record", "endpoint", "waiting", "again", "writers", "done"},
     record : Readings, endpoint : Nat, reply : Readings,
     told : BOOLEAN, toldTo : Nat, quiet : BOOLEAN,
     outcome : {"unknown", "none", "active", "released"}]
ReleaseTypeOK ==
    /\ content \in [TreeFiles -> {0, 1}] /\ away \in BOOLEAN /\ producer \in BOOLEAN
    /\ monitor \in {"down", "bound", "begun", "first", "covered", "second", "recording", "serving",
                    "drained", "checking", "answering", "ending", "closing"}
    /\ generation \in Nat /\ covered \subseteq TreeFiles /\ pending \in Nat
    /\ phase \in {"preparing", "released", "revoked"}
    /\ reading \in Readings /\ before \in Readings
    /\ recorded \in Readings /\ recordFile \in Readings
    /\ endpointFile \in Nat
    /\ free \in BOOLEAN /\ woken \in BOOLEAN
    /\ strayed \in BOOLEAN /\ told \in BOOLEAN
    /\ ask \in Questions
    /\ written \in Nat /\ asks \in Nat

(* The lock of the release is held from begin until the last drop.          *)
Locked == monitor \notin {"down", "bound"}

(* Between the comparison and the record the mutex is held.                 *)
MutexFree == monitor # "recording"

ReleaseInit ==
    /\ content = [f \in TreeFiles |-> 0] /\ away = FALSE /\ producer \in BOOLEAN
    /\ monitor = "down" /\ generation = 0
    /\ covered = {} /\ pending = 0 /\ woken = FALSE
    /\ phase = "preparing" /\ reading = <<>> /\ before = <<>> /\ recorded = <<>> /\ free = FALSE
    /\ recordFile = <<>> /\ endpointFile = 0
    /\ strayed = FALSE /\ told = FALSE /\ ask = NoAsk
    /\ written = 0 /\ asks = 0

-------------------------------------------------------------------------------
(* Users and tools.  A write may restore what was there before.             *)
WriteFile(f, mapped) ==
    /\ written < MaxWrites /\ written' = written + 1
    /\ f = "deep" => ~away
    /\ content' = [content EXCEPT ![f] = 1 - @]
    /\ pending' = IF f \in covered /\ ~mapped THEN pending + 1 ELSE pending
    /\ told' = (told \/ (phase = "released" /\ ~mapped /\ (f = "deep" => ~strayed)))
    /\ ask' = [ask EXCEPT !.quiet = FALSE]
    /\ UNCHANGED <<away, producer, covered, woken, lease, store, strayed, asks>>

(* The directory is moved out of the checkout, or back into it, with other  *)
(* bytes in its file or the same; whoever watches the root is told.         *)
MoveDirectory ==
    /\ written < MaxWrites /\ written' = written + 1
    /\ away' = ~away /\ pending' = IF "top" \in covered THEN pending + 1 ELSE pending
    /\ told' = (told \/ phase = "released")
    /\ ask' = [ask EXCEPT !.quiet = FALSE]
    /\ UNCHANGED <<producer, covered, woken, lease, store, asks>>
MoveAway ==
    /\ ~away /\ MoveDirectory /\ strayed' = TRUE /\ UNCHANGED content
MoveBack ==
    /\ away /\ MoveDirectory /\ UNCHANGED strayed
    /\ \E bytes_ \in {0, 1} : content' = [content EXCEPT !["deep"] = bytes_]

Produce ==
    /\ producer' = ~producer
    /\ UNCHANGED <<content, away, events, lease, store, past, ask, asks>>

-------------------------------------------------------------------------------
(* The monitor.                                                             *)

(* ReleaseFile::invalidate, and what revoking and ending do.                *)
Invalidated == recordFile' = <<>> /\ endpointFile' = 0
Ends == monitor' = "ending"

Revoked == phase' = "revoked" /\ Invalidated

(* Listener::bind, and the first look at the locks inside.                  *)
Bind ==
    /\ monitor = "down" /\ generation < MaxMonitors /\ ~producer
    /\ monitor' = "bound" /\ generation' = generation + 1
    /\ phase' = "preparing" /\ reading' = <<>> /\ before' = <<>> /\ recorded' = <<>>
    /\ covered' = {} /\ pending' = 0 /\ woken' = FALSE
    /\ strayed' = away /\ told' = FALSE
    /\ UNCHANGED <<checkout, free, store, ask, written, asks>>

(* ReleaseFile::begin: what a killed monitor left is removed.               *)
BeginRecord ==
    /\ monitor = "bound" /\ monitor' = "begun"
    /\ Invalidated
    /\ UNCHANGED <<checkout, events, generation, phase, reading, before, recorded, free>>
    /\ UNCHANGED <<past, ask, asks>>

(* Watcher::release: inotify watches the root, FSEvents all there is below. *)
StartWatching ==
    /\ monitor = "begun" /\ monitor' = "first"
    /\ covered' \in {{"top"}, TreeFiles}
    /\ UNCHANGED <<checkout, pending, woken, generation, phase, reading, before, recorded, free>>
    /\ UNCHANGED <<store, past, ask, asks>>

(* snapshot: the root first, then the directory it lists, which may be gone *)
(* by then.                                                                 *)
ListRoot ==
    /\ reading = <<>> /\ UNCHANGED monitor
    /\ reading' = IF away THEN <<content["top"], Gone>> ELSE <<content["top"]>>
ListDirectory ==
    /\ Len(reading) = 1
    /\ IF away THEN Ends /\ UNCHANGED reading
       ELSE reading' = Append(reading, content["deep"]) /\ UNCHANGED monitor
Snapshot ==
    /\ monitor \in {"first", "second", "checking"} /\ (ListRoot \/ ListDirectory)
    /\ UNCHANGED <<checkout, events, generation, phase, before, recorded, free>>
    /\ UNCHANGED <<store, past, ask, asks>>

(* Every directory that was read is watched, or there is no release; one    *)
(* that is no longer there is passed over.                                  *)
WatchAll ==
    /\ monitor = "first" /\ Len(reading) = Len(FileOrder)
    /\ \/ /\ monitor' = "covered"
          /\ covered' = IF away \/ reading[2] = Gone THEN covered ELSE TreeFiles
       \/ Ends /\ UNCHANGED covered
    /\ before' = reading /\ reading' = <<>>
    /\ UNCHANGED <<checkout, pending, woken, generation, phase, recorded, free>>
    /\ UNCHANGED <<store, past, ask, asks>>

(* barrier: every event raised so far is read, and told to the callback.    *)
Told(events_) ==
    IF events_ > 0 /\ phase = "released" THEN Revoked /\ woken' = TRUE
    ELSE UNCHANGED <<phase, store, woken>>

Barrier ==
    /\ monitor = "covered" /\ monitor' = "second"
    /\ pending' = 0 /\ Told(pending)
    /\ UNCHANGED <<checkout, covered, generation, reading, before, recorded, free>>
    /\ UNCHANGED <<past, ask, asks>>

(* The two are compared and the locks looked at again, under the mutex; the *)
(* endpoint is written first.                                               *)
CompareReadings ==
    /\ monitor = "second" /\ Len(reading) = Len(FileOrder)
    /\ IF before = reading /\ ~producer
       THEN monitor' = "recording" /\ recorded' = reading /\ endpointFile' = generation
       ELSE Ends /\ UNCHANGED <<recorded, endpointFile>>
    /\ reading' = <<>>
    /\ UNCHANGED <<checkout, events, generation, phase, before, free, recordFile>>
    /\ UNCHANGED <<past, ask, asks>>

Record ==
    /\ monitor = "recording" /\ monitor' = "serving"
    /\ recordFile' = recorded /\ phase' = "released" /\ told' = FALSE
    /\ UNCHANGED <<checkout, events, generation, reading, before, recorded, free, endpointFile>>
    /\ UNCHANGED <<strayed, ask, written, asks>>

(* The callback: an event before the release is nobody's business, the      *)
(* first one after it revokes the release and wakes the server.             *)
Deliver ==
    /\ pending > 0 /\ MutexFree
    /\ pending' = pending - 1 /\ Told(pending)
    /\ UNCHANGED <<checkout, covered, monitor, generation, reading, before, recorded, free>>
    /\ UNCHANGED <<past, ask, asks>>

(* CheckoutRelease is dropped by the program that holds it.                 *)
Dropped ==
    /\ monitor \in {"serving", "checking", "drained"} /\ ~woken
    /\ Revoked /\ woken' = TRUE
    /\ UNCHANGED <<checkout, covered, pending, monitor, generation, reading, before, recorded>>
    /\ UNCHANGED <<free, past, ask, asks>>

-------------------------------------------------------------------------------
(* serve: one peer after the other.                                         *)
StillReleased == phase = "released" /\ ~woken

(* accept and request: a wake ends it, and so does a peer that says so.     *)
Stop ==
    /\ monitor = "serving" /\ Ends
    /\ UNCHANGED <<checkout, events, generation, phase, reading, before, recorded, free>>
    /\ UNCHANGED <<store, past, ask, asks>>

Accept ==
    /\ monitor = "serving" /\ ask.at = "waiting" /\ ask.endpoint = generation
    /\ IF StillReleased THEN monitor' = "drained" ELSE Ends
    /\ UNCHANGED <<checkout, events, generation, phase, reading, before, recorded, free>>
    /\ UNCHANGED <<store, past, ask, asks>>

(* The events before the question are read before the tree is.              *)
NotDrained ==
    /\ monitor = "drained" /\ monitor' = "checking"
    /\ UNCHANGED <<pending, phase, store, woken>>
    /\ UNCHANGED <<checkout, covered, generation, reading, before, recorded, free>>
    /\ UNCHANGED <<past, ask, asks>>
Drain ==
    /\ monitor = "drained" /\ monitor' = "checking"
    /\ pending' = 0 /\ Told(pending)
    /\ UNCHANGED <<checkout, covered, generation, reading, before, recorded, free>>
    /\ UNCHANGED <<past, ask, asks>>

(* witness: the locks inside are probed after the tree was read.            *)
ProbeWriters ==
    /\ monitor = "checking" /\ Len(reading) = Len(FileOrder)
    /\ monitor' = "answering" /\ free' = ~producer
    /\ UNCHANGED <<checkout, events, generation, phase, reading, before, recorded>>
    /\ UNCHANGED <<store, past, ask, asks>>

(* Under the mutex: a release that was revoked is not answered for, a tree  *)
(* that reads differently revokes it.                                       *)
Answer ==
    /\ monitor = "answering" /\ reading' = <<>>
    /\ \/ /\ phase # "released" /\ Ends
          /\ UNCHANGED <<phase, store, ask>>
       \/ /\ phase = "released" /\ recorded # reading
          /\ Revoked /\ Ends /\ UNCHANGED ask
       \/ /\ phase = "released" /\ recorded = reading
          /\ monitor' = "serving"
          /\ ask' = IF free THEN [ask EXCEPT !.at = "again", !.reply = recorded]
                    ELSE [ask EXCEPT !.at = "done", !.outcome = "none"]
          /\ UNCHANGED <<phase, store>>
    /\ UNCHANGED <<checkout, events, generation, before, recorded, free, past, asks>>

(* ReleaseFile::drop: the files go, then the lock.                          *)
Ending ==
    /\ monitor = "ending" /\ monitor' = "closing"
    /\ phase' = "revoked" /\ Invalidated
    /\ UNCHANGED <<checkout, events, generation, reading, before, recorded, free>>
    /\ UNCHANGED <<past, ask, asks>>

Unlocked ==
    /\ monitor = "closing" /\ monitor' = "down"
    /\ reading' = <<>> /\ pending' = 0 /\ covered' = {}
    /\ UNCHANGED <<checkout, woken, generation, phase, before, recorded, free>>
    /\ UNCHANGED <<store, past, ask, asks>>

(* Killed: the lock is free, the files stay.                                *)
MonitorDies ==
    /\ monitor # "down" /\ monitor' = "down"
    /\ phase' = "revoked" /\ reading' = <<>> /\ pending' = 0 /\ covered' = {}
    /\ UNCHANGED <<checkout, woken, generation, before, recorded, free>>
    /\ UNCHANGED <<store, past, ask, asks>>

-------------------------------------------------------------------------------
(* evidence: what whoever decides about the checkout does.                  *)
Asking(a) == ask' = a /\ UNCHANGED <<checkout, events, lease, store, past>>
NoEvidence == [ask EXCEPT !.at = "done", !.outcome = "none"]

AskLock ==
    /\ ask.at = "idle" /\ asks < MaxAsks /\ asks' = asks + 1
    /\ LET asked == [NoAsk EXCEPT !.told = told, !.toldTo = generation]
       IN  Asking(IF Locked THEN [asked EXCEPT !.at = "record"]
                  ELSE [asked EXCEPT !.at = "done", !.outcome = "none"])

ReadRecord ==
    /\ ask.at = "record" /\ UNCHANGED asks
    /\ Asking(IF recordFile = <<>> THEN NoEvidence
              ELSE [ask EXCEPT !.at = "endpoint", !.record = recordFile])

ReadEndpoint ==
    /\ ask.at = "endpoint" /\ UNCHANGED asks
    /\ Asking(IF endpointFile = 0 THEN NoEvidence
              ELSE [ask EXCEPT !.at = "waiting", !.endpoint = endpointFile])

(* query: a socket that nobody serves, or that is closed, is an error.      *)
Unanswered ==
    /\ ask.at = "waiting" /\ UNCHANGED asks
    /\ ask.endpoint # generation \/ monitor \in {"down", "ending", "closing"}
    /\ Asking(NoEvidence)

(* The lock is probed again, then the locks inside.                         *)
LockAgain ==
    /\ ask.at = "again" /\ UNCHANGED asks
    /\ Asking(IF Locked THEN [ask EXCEPT !.at = "writers"] ELSE NoEvidence)

Decide ==
    /\ ask.at = "writers" /\ UNCHANGED asks
    /\ Asking([ask EXCEPT !.at = "done",
                  !.outcome = IF ask.record = ask.reply /\ ~producer THEN "released" ELSE "active"])

NextAsk ==
    /\ ask.at = "done" /\ UNCHANGED asks
    /\ Asking(NoAsk)

-------------------------------------------------------------------------------
ReleaseNext ==
    \/ \E f \in TreeFiles, mapped \in BOOLEAN : WriteFile(f, mapped)
    \/ MoveAway \/ MoveBack \/ Produce
    \/ Bind \/ BeginRecord \/ StartWatching \/ Snapshot \/ WatchAll \/ Barrier
    \/ CompareReadings \/ Record \/ Deliver \/ Dropped \/ Stop \/ Accept \/ Drain
    \/ ProbeWriters \/ Answer \/ Ending \/ Unlocked \/ MonitorDies
    \/ AskLock \/ ReadRecord \/ ReadEndpoint \/ Unanswered \/ LockAgain \/ Decide \/ NextAsk

ReleaseSpec == ReleaseInit /\ [][ReleaseNext]_releaseVars

-------------------------------------------------------------------------------
(* A checkout that is found released was not written to before it was asked *)
(* about, not even by writes that undid one another, unless the write was   *)
(* through a mapping or in a directory that was moved away while the        *)
(* release was being prepared; and as long as nobody writes while it is     *)
(* asked about, what there is to be read of it is what was recorded         *)
(* (release.rs: prepare, serve, evidence).                                  *)
ReleasedIsUntouched ==
    ask.outcome = "released" =>
        /\ ~(ask.told /\ ask.toldTo = ask.endpoint)
        /\ ask.quiet => \A i \in DOMAIN FileOrder : ask.record[i] = Shows(FileOrder[i])
===============================================================================
