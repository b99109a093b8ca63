---------------------------- MODULE CoalesceProofs ----------------------------
(***************************************************************************)
(* What holds of the run station for any number of commands, watchers,     *)
(* requests, failed runs and deaths.                                       *)
(***************************************************************************)
EXTENDS Coalesce, TLAPS

(* The run lock belongs to exactly the process that is in a locked section. *)
LockedStates ==
    {"lower", "run", "drop", "probed",
     "open", "discard", "drain", "sight", "take", "handle", "recv"}

LockInv == \A a \in Actors : lock = a <=> pc[a] \in LockedStates

(* A watcher between two takes hears every request it has not taken.       *)
BellInv ==
    \A w \in Watchers :
        /\ pc[w] \in {"discard", "drain", "sight", "take", "handle", "recv"}
             => bell[w] # "closed"
        /\ pc[w] \in {"handle", "recv"} /\ flag \ stranded # {}
             => bell[w] = "rung"

(* A request is in one place at a time: in the flag, in the batch of the   *)
(* process that is sweeping, or answered.                                  *)
PlaceInv ==
    /\ flag \cap answered = {}
    /\ \A a \in Actors :
         /\ batch[a] # {} => pc[a] \in {"run", "drain", "sight", "handle"}
         /\ batch[a] \cap (flag \cup answered) = {}

IInv == TypeOK /\ LockInv /\ BellInv /\ PlaceInv

-------------------------------------------------------------------------------
(* Every variable keeps its type: numbers of requests never exceed what    *)
(* was asked, and commands and watchers keep to their own states.          *)
THEOREM TypeCorrect == Spec => []TypeOK
<1> USE ActorsAssumption, BoundsAssumption DEF Actors, CommandStates, WatcherStates
<1>1. Init => TypeOK
  BY DEF Init, TypeOK, Rest
<1>2. TypeOK /\ [Next]_vars => TypeOK'
  <2> SUFFICES ASSUME TypeOK, [Next]_vars PROVE TypeOK'
    OBVIOUS
  <2> USE DEF TypeOK, Go, Unlock, TryLock, TakeDown, Swept, faults
  <2>1. ASSUME NEW c \in Commands, Request(c) PROVE TypeOK'
    BY <2>1 DEF Request, Raise
  <2>2. ASSUME NEW c \in Commands, Detach(c) PROVE TypeOK'
    BY <2>2 DEF Detach, Raise
  <2>3. ASSUME NEW c \in Commands, Hold(c) PROVE TypeOK'
    BY <2>3 DEF Hold
  <2>4. ASSUME NEW c \in Commands, HandOver(c) PROVE TypeOK'
    <3>1. told' \subseteq 0..MaxRequests
      <4>1. mine[c] \in 0..MaxRequests
        OBVIOUS
      <4>2. CASE ran[c]
        BY <2>4, <4>2 DEF HandOver
      <4>3. CASE ~ran[c]
        BY <2>4, <4>1, <4>3 DEF HandOver
      <4> QED
        BY <4>2, <4>3
    <3>2. UNCHANGED <<asked, flag, lock, mine, ran, batch, bell, answered,
                      stranded, failedRuns, deaths>> /\ Go(c, "hold", "idle")
      BY <2>4 DEF HandOver
    <3> QED
      BY <3>1, <3>2
  <2>5. ASSUME NEW c \in Commands, Lower(c) PROVE TypeOK'
    <3>1. CASE flag # {}
      <4>1. pc' \in [Actors -> CommandStates \cup WatcherStates]
            /\ (\A d \in Commands : pc'[d] \in CommandStates)
            /\ (\A w \in Watchers : pc'[w] \in WatcherStates)
        BY <2>5, <3>1 DEF Lower
      <4>2. TakeDown(c) /\ UNCHANGED asked
        BY <2>5, <3>1 DEF Lower
      <4>3. batch' \in [Actors -> SUBSET (1..asked)] /\ flag' = {}
        BY <4>2
      <4> QED
        BY <2>5, <4>1, <4>2, <4>3 DEF Lower
    <3>2. CASE flag = {}
      BY <2>5, <3>2 DEF Lower
    <3> QED
      BY <3>1, <3>2
  <2>6. ASSUME NEW c \in Commands, Run(c) PROVE TypeOK'
    BY <2>6 DEF Run
  <2>7. ASSUME NEW c \in Commands, Drop(c) \/ Check(c) \/ Probe(c) \/ Unprobe(c) \/ Spawn(c)
        PROVE TypeOK'
    BY <2>7 DEF Drop, Check, Probe, Unprobe, Spawn
  <2>8. ASSUME NEW c \in Commands, RunFails(c) PROVE TypeOK'
    BY <2>8 DEF RunFails, Ends, Rest
  <2>9. ASSUME NEW w \in Watchers, Launch(w) \/ Wait(w) \/ OpenStream(w) \/ Drain(w) \/ Receive(w)
        PROVE TypeOK'
    BY <2>9 DEF Launch, Wait, OpenStream, Drain, Receive
  <2>10. ASSUME NEW w \in Watchers, Discard(w) \/ Take(w) PROVE TypeOK'
    BY <2>10 DEF Discard, Take
  <2>11. ASSUME NEW w \in Watchers, Sight(w) \/ Handle(w) PROVE TypeOK'
    BY ZenonT(60), <2>11 DEF Sight, Handle
  <2>12. ASSUME NEW a \in Actors, Dies(a) PROVE TypeOK'
    BY <2>12 DEF Dies, Ends, Rest
  <2>13. CASE UNCHANGED vars
    BY <2>13 DEF vars
  <2> QED
    BY <2>1, <2>2, <2>3, <2>4, <2>5, <2>6, <2>7, <2>8, <2>9, <2>10, <2>11,
       <2>12, <2>13 DEF Next
<1> QED
  BY <1>1, <1>2, PTL DEF Spec

-------------------------------------------------------------------------------
(* The run lock is held by exactly the process that is in a locked section *)
(* of `drive`, `handed_off` or `watch`, also after any death.              *)
THEOREM LockIsRespected == Spec => []LockInv
<1> USE ActorsAssumption DEF Actors, CommandStates, WatcherStates, LockedStates
<1>1. Init => LockInv
  BY DEF Init, LockInv, Rest
<1>2. TypeOK /\ LockInv /\ [Next]_vars => LockInv'
  <2> SUFFICES ASSUME TypeOK, LockInv, [Next]_vars PROVE LockInv'
    OBVIOUS
  <2> USE DEF LockInv, Go, Unlock, TryLock, faults
  <2>0. /\ pc \in [Actors -> CommandStates \cup WatcherStates]
        /\ \A c \in Commands : pc[c] \in CommandStates
        /\ \A w \in Watchers : pc[w] \in WatcherStates
        /\ lock \in Actors \cup {NoOne}
    BY DEF TypeOK
  <2>1. ASSUME NEW c \in Commands,
               Request(c) \/ Detach(c) \/ HandOver(c) \/ Run(c) \/ Check(c) \/ Spawn(c)
        PROVE LockInv'
    BY <2>0, <2>1 DEF Request, Detach, HandOver, Run, Check, Spawn
  <2>2. ASSUME NEW c \in Commands, Hold(c) \/ Drop(c) \/ Probe(c) \/ Unprobe(c)
        PROVE LockInv'
    BY <2>0, <2>2 DEF Hold, Drop, Probe, Unprobe
  <2>3. ASSUME NEW c \in Commands, Lower(c) PROVE LockInv'
    <3>1. CASE flag # {}
      BY <2>0, <2>3, <3>1 DEF Lower
    <3>2. CASE flag = {}
      BY <2>0, <2>3, <3>2 DEF Lower
    <3> QED
      BY <3>1, <3>2
  <2>4. ASSUME NEW c \in Commands, RunFails(c) PROVE LockInv'
    BY <2>0, <2>4 DEF RunFails, Ends, Rest
  <2>5. ASSUME NEW w \in Watchers,
               Launch(w) \/ Wait(w) \/ OpenStream(w) \/ Discard(w) \/ Drain(w) \/ Sight(w)
                 \/ Take(w) \/ Handle(w) \/ Receive(w)
        PROVE LockInv'
    BY <2>0, <2>5
       DEF Launch, Wait, OpenStream, Discard, Drain, Sight, Take, Handle, Receive
  <2>6. ASSUME NEW a \in Actors, Dies(a) PROVE LockInv'
    BY <2>0, <2>6 DEF Dies, Ends, Rest
  <2>7. CASE UNCHANGED vars
    BY <2>7 DEF vars
  <2> QED
    BY <2>1, <2>2, <2>3, <2>4, <2>5, <2>6, <2>7 DEF Next
<1> QED
  BY <1>1, <1>2, TypeCorrect, PTL DEF Spec

(* Two sweeps of one policy never overlap, whoever takes the lock and      *)
(* whoever dies: a sweep runs only in a locked section.                    *)
THEOREM SweepsExclude == Spec => []OneSweep
<1>1. TypeOK /\ LockInv => OneSweep
  BY ActorsAssumption DEF LockInv, OneSweep, Sweeping, LockedStates, Actors
<1> QED
  BY <1>1, TypeCorrect, LockIsRespected, PTL

-------------------------------------------------------------------------------
(* A watcher in the middle of a turn has its stream open, and a wake-up is *)
(* waiting on it for every request the turn did not take.                  *)
THEOREM BellIsRung == Spec => []BellInv
<1> USE ActorsAssumption DEF Actors, CommandStates, WatcherStates
<1>1. Init => BellInv
  BY DEF Init, BellInv, Rest
<1>2. TypeOK /\ BellInv /\ [Next]_vars => BellInv'
  <2> SUFFICES ASSUME TypeOK, BellInv, [Next]_vars PROVE BellInv'
    OBVIOUS
  <2> USE DEF BellInv, Go, faults
  <2>0. /\ pc \in [Actors -> CommandStates \cup WatcherStates]
        /\ \A w \in Watchers : pc[w] \in WatcherStates
        /\ bell \in [Watchers -> {"closed", "quiet", "rung"}]
    BY DEF TypeOK
  <2>1. ASSUME NEW c \in Commands, Request(c) \/ Detach(c) PROVE BellInv'
    <3>1. \A w \in Watchers : pc'[w] = pc[w]
      BY <2>0, <2>1 DEF Request, Detach
    <3>2. Raise(c)
      BY <2>1 DEF Request, Detach
    <3> QED
      BY <2>0, <3>1, <3>2 DEF Raise
  <2>2. ASSUME NEW c \in Commands,
               Hold(c) \/ HandOver(c) \/ Run(c) \/ Drop(c) \/ Check(c)
                 \/ Probe(c) \/ Unprobe(c) \/ Spawn(c)
        PROVE BellInv'
    BY <2>0, <2>2 DEF Hold, HandOver, Run, Drop, Check, Probe, Unprobe, Spawn
  <2>3. ASSUME NEW c \in Commands, Lower(c) PROVE BellInv'
    <3>1. CASE flag # {}
      BY <2>0, <2>3, <3>1 DEF Lower, TakeDown
    <3>2. CASE flag = {}
      BY <2>0, <2>3, <3>2 DEF Lower
    <3> QED
      BY <3>1, <3>2
  <2>4. ASSUME NEW w \in Watchers, Discard(w) \/ Take(w) PROVE BellInv'
    BY <2>0, <2>4 DEF Discard, Take, TakeDown
  <2>5. ASSUME NEW w \in Watchers,
               Launch(w) \/ Wait(w) \/ OpenStream(w) \/ Drain(w) \/ Sight(w)
                 \/ Handle(w) \/ Receive(w)
        PROVE BellInv'
    BY <2>0, <2>5 DEF Launch, Wait, OpenStream, Drain, Sight, Handle, Receive
  <2>6. ASSUME NEW a \in Actors, (a \in Commands /\ RunFails(a)) \/ Dies(a)
        PROVE BellInv'
    <3>1. Ends(a)
      BY <2>6 DEF RunFails, Dies
    <3>2. flag' \ stranded' = {}
      BY <3>1 DEF Ends
    <3> QED
      BY <2>0, <3>1, <3>2 DEF Ends, Rest
  <2>7. CASE UNCHANGED vars
    BY <2>7 DEF vars
  <2> QED
    BY <2>1, <2>2, <2>3, <2>4, <2>5, <2>6, <2>7 DEF Next
<1> QED
  BY <1>1, <1>2, TypeCorrect, PTL DEF Spec

(* While the flag holds a request that no failure caught, somebody will    *)
(* look at it: the second look in `drive` and the wake-up of the watcher   *)
(* leave no interleaving in which it is forgotten.                         *)
THEOREM NothingForgotten == Spec => []NobodyForgets
<1> USE ActorsAssumption DEF Actors, CommandStates, WatcherStates
<1>1. Init => NobodyForgets
  BY DEF Init, NobodyForgets
<1>2. /\ TypeOK /\ LockInv /\ BellInv /\ NobodyForgets /\ [Next]_vars
      /\ BellInv'
      => NobodyForgets'
  <2> SUFFICES ASSUME TypeOK, LockInv, BellInv, NobodyForgets, [Next]_vars, BellInv',
                      flag' \ stranded' # {}
               PROVE \E a \in Actors : Committed(a)'
    BY DEF NobodyForgets
  <2> USE DEF Committed, Go, faults
  <2>0. /\ pc \in [Actors -> CommandStates \cup WatcherStates]
        /\ \A c \in Commands : pc[c] \in CommandStates
        /\ \A w \in Watchers : pc[w] \in WatcherStates
        /\ lock \in Actors \cup {NoOne}
        /\ bell \in [Watchers -> {"closed", "quiet", "rung"}]
    BY DEF TypeOK
  <2>1. ASSUME NEW c \in Commands, Request(c) \/ Detach(c)
        PROVE \E a \in Actors : Committed(a)'
    BY <2>0, <2>1 DEF Request, Detach
  <2>2. ASSUME NEW c \in Commands,
               Hold(c) \/ Run(c) \/ Drop(c) \/ Unprobe(c) \/ Spawn(c) \/ Lower(c)
        PROVE \E a \in Actors : Committed(a)'
    BY <2>0, <2>2 DEF Hold, Run, Drop, Unprobe, Spawn, Lower
  <2>3. ASSUME NEW c \in Commands, HandOver(c) \/ Probe(c)
        PROVE \E a \in Actors : Committed(a)'
    <3>1. UNCHANGED <<flag, stranded, bell>>
      BY <2>3 DEF HandOver, Probe
    <3>2. CASE pc'[c] # "idle"
      BY <3>2
    <3>3. CASE pc'[c] = "idle"
      <4>1. lock \in Actors /\ lock # c /\ pc'[lock] = pc[lock]
        BY <2>0, <2>3, <3>3 DEF HandOver, Probe, TryLock, LockInv, LockedStates
      <4>2. pc[lock] \in LockedStates
        BY <4>1 DEF LockInv
      <4> QED
        BY <2>0, <3>1, <4>1, <4>2 DEF LockedStates, BellInv
    <3> QED
      BY <3>2, <3>3
  <2>4. ASSUME NEW c \in Commands, Check(c)
        PROVE \E a \in Actors : Committed(a)'
    <3>1. flag # {}
      BY <2>4 DEF Check
    <3> QED
      BY <2>0, <2>4, <3>1 DEF Check
  <2>5. ASSUME NEW w \in Watchers,
               Launch(w) \/ Wait(w) \/ OpenStream(w) \/ Drain(w) \/ Receive(w)
        PROVE \E a \in Actors : Committed(a)'
    BY <2>0, <2>5 DEF Launch, Wait, OpenStream, Drain, Receive
  <2>6. ASSUME NEW w \in Watchers, Discard(w) \/ Sight(w) \/ Take(w) \/ Handle(w)
        PROVE \E a \in Actors : Committed(a)'
    <3>1. pc'[w] \in {"drain", "take", "handle", "recv"}
      BY <2>0, <2>6 DEF Discard, Sight, Take, Handle
    <3> QED
      BY <3>1 DEF BellInv
  <2>7. ASSUME NEW a \in Actors, (a \in Commands /\ RunFails(a)) \/ Dies(a)
        PROVE FALSE
    BY <2>7 DEF RunFails, Dies, Ends
  <2>8. CASE UNCHANGED vars
    BY <2>8 DEF vars, NobodyForgets
  <2> QED
    BY <2>1, <2>2, <2>3, <2>4, <2>5, <2>6, <2>7, <2>8 DEF Next
<1> QED
  BY <1>1, <1>2, TypeCorrect, LockIsRespected, BellIsRung, PTL DEF Spec

-------------------------------------------------------------------------------
(* A request is never in two places, and only a process in the middle of a *)
(* sweep has a batch.                                                      *)
THEOREM OnePlace == Spec => []PlaceInv
<1> USE ActorsAssumption, BoundsAssumption DEF Actors, CommandStates, WatcherStates
<1>1. Init => PlaceInv
  BY DEF Init, PlaceInv
<1>2. TypeOK /\ LockInv /\ PlaceInv /\ [Next]_vars => PlaceInv'
  <2> SUFFICES ASSUME TypeOK, LockInv, PlaceInv, [Next]_vars PROVE PlaceInv'
    OBVIOUS
  <2> USE DEF PlaceInv, Go, faults
  <2>0. /\ pc \in [Actors -> CommandStates \cup WatcherStates]
        /\ asked \in 0..MaxRequests
        /\ flag \subseteq 1..asked
        /\ answered \subseteq 1..asked
        /\ batch \in [Actors -> SUBSET (1..asked)]
    BY DEF TypeOK
  <2>1. ASSUME NEW c \in Commands, Request(c) \/ Detach(c) PROVE PlaceInv'
    <3>1. asked + 1 \notin 1..asked
      BY <2>0
    <3>2. flag' = flag \cup {asked + 1} /\ UNCHANGED <<batch, answered>>
      BY <2>1 DEF Request, Detach, Raise
    <3>3. \A a \in Actors : batch[a] # {} => pc'[a] = pc[a]
      BY <2>0, <2>1 DEF Request, Detach
    <3> QED
      BY <2>0, <3>1, <3>2, <3>3
  <2>2. ASSUME NEW c \in Commands,
               Hold(c) \/ HandOver(c) \/ Drop(c) \/ Check(c) \/ Probe(c)
                 \/ Unprobe(c) \/ Spawn(c)
        PROVE PlaceInv'
    BY <2>0, <2>2 DEF Hold, HandOver, Drop, Check, Probe, Unprobe, Spawn
  <2>3. ASSUME NEW c \in Commands, Lower(c) PROVE PlaceInv'
    <3>1. CASE flag # {}
      <4>1. Go(c, "lower", "run") /\ TakeDown(c) /\ UNCHANGED answered
        BY <2>3, <3>1 DEF Lower
      <4> QED
        BY <2>0, <4>1 DEF TakeDown
    <3>2. CASE flag = {}
      BY <2>0, <2>3, <3>2 DEF Lower
    <3> QED
      BY <3>1, <3>2
  <2>4. ASSUME NEW w \in Watchers, Discard(w) \/ Take(w) PROVE PlaceInv'
    BY <2>0, <2>4 DEF Discard, Take, TakeDown
  <2>5. ASSUME NEW a \in Actors,
               \/ a \in Commands /\ Run(a)
               \/ a \in Watchers /\ (Sight(a) \/ Handle(a))
        PROVE PlaceInv'
    <3>1. /\ pc[a] \in {"run", "sight", "handle"}
          /\ Swept(a) /\ flag' = flag
          /\ \A b \in Actors : b # a => pc'[b] = pc[b]
      BY <2>0, <2>5 DEF Run, Sight, Handle
    <3>2. \A b \in Actors : b # a => batch[b] = {}
      BY <3>1 DEF LockInv, LockedStates
    <3> QED
      BY <2>0, <3>1, <3>2 DEF Swept
  <2>6. ASSUME NEW w \in Watchers,
               Launch(w) \/ Wait(w) \/ OpenStream(w) \/ Drain(w) \/ Receive(w)
        PROVE PlaceInv'
    BY <2>0, <2>6 DEF Launch, Wait, OpenStream, Drain, Receive
  <2>7. ASSUME NEW a \in Actors, (a \in Commands /\ RunFails(a)) \/ Dies(a)
        PROVE PlaceInv'
    <3>1. Ends(a)
      BY <2>7 DEF RunFails, Dies
    <3>2. batch'[a] = {} /\ \A b \in Actors : b # a => batch'[b] = batch[b] /\ pc'[b] = pc[b]
      BY <2>0, <3>1 DEF Ends
    <3>3. UNCHANGED <<flag, answered>>
      BY <3>1 DEF Ends
    <3>4. ASSUME NEW b \in Actors
          PROVE /\ batch'[b] # {} => pc'[b] \in {"run", "drain", "sight", "handle"}
                /\ batch'[b] \cap (flag' \cup answered') = {}
      BY <3>2, <3>3
    <3> QED
      BY <3>3, <3>4
  <2>8. CASE UNCHANGED vars
    <3>1. UNCHANGED <<flag, answered, batch, pc>>
      BY <2>8 DEF vars
    <3> QED
      BY <3>1
  <2> QED
    BY <2>1, <2>2, <2>3, <2>4, <2>5, <2>6, <2>7, <2>8 DEF Next
<1> QED
  BY <1>1, <1>2, TypeCorrect, LockIsRespected, PTL DEF Spec

(* Only the process that holds the run lock can have a batch.              *)
LEMMA OneBatch ==
    ASSUME TypeOK, LockInv, PlaceInv, NEW a \in Actors, pc[a] \in LockedStates
    PROVE  \A b \in Actors : b # a => batch[b] = {}
  BY DEF LockInv, PlaceInv, LockedStates

(* The run station implements the request service: its first state maps to *)
(* the service's and each step to a step of the service or to none.        *)
THEOREM StationImplementsService == Spec => ImplementsService
<1> USE ActorsAssumption, BoundsAssumption DEF Actors, CommandStates, WatcherStates
<1> DEFINE status == [r \in Requests |-> StatusOf(r)]
<1>1. Init => Service!Init
  BY DEF Init, Service!Init, StatusOf, Requests
<1>2. TypeOK /\ LockInv /\ PlaceInv /\ PlaceInv' /\ [Next]_vars
      => [Service!Next]_status
  <2> SUFFICES ASSUME TypeOK, LockInv, PlaceInv, PlaceInv', [Next]_vars
               PROVE  Service!Next \/ status' = status
    OBVIOUS
  <2> USE DEF Requests
  <2>0. /\ pc \in [Actors -> CommandStates \cup WatcherStates]
        /\ asked \in 0..MaxRequests
        /\ flag \subseteq 1..asked
        /\ answered \subseteq 1..asked
        /\ stranded \subseteq 1..asked
        /\ batch \in [Actors -> SUBSET (1..asked)]
    BY DEF TypeOK
  <2>1. ASSUME UNCHANGED <<asked, flag, batch, answered, stranded>>
        PROVE status' = status
    BY <2>1 DEF StatusOf
  <2>2. ASSUME NEW c \in Commands, Request(c) \/ Detach(c)
        PROVE Service!Next
    <3>1. /\ Raise(c)
          /\ UNCHANGED <<batch, answered, stranded>>
      BY <2>2 DEF Request, Detach, faults
    <3>2. PICK q \in Requests : q = asked + 1 /\ flag' = flag \cup {q} /\ asked' = q
      BY <2>0, <3>1 DEF Raise
    <3>3. status[q] = "unasked"
      BY <3>2, <2>0 DEF StatusOf
    <3>4. \A r \in Requests : r # q => StatusOf(r)' = StatusOf(r)
      BY <2>0, <3>1, <3>2 DEF StatusOf
    <3>5. StatusOf(q)' = "waiting"
      BY <2>0, <3>1, <3>2 DEF StatusOf
    <3>6. Service!Ask(q)
      BY <3>3, <3>4, <3>5 DEF Service!Ask
    <3> QED
      BY <3>6 DEF Service!Next
  <2>3. ASSUME NEW a \in Actors, pc[a] \in LockedStates, batch[a] = {}, TakeDown(a),
               UNCHANGED <<asked, answered, stranded>>
        PROVE Service!Next \/ status' = status
    <3>1. \A b \in Actors : batch[b] = {}
      BY <2>3, OneBatch
    <3>2. batch' = [b \in Actors |-> IF b = a THEN flag ELSE {}]
      BY <2>0, <2>3, <3>1 DEF TakeDown
    <3>3. flag' = {}
      BY <2>3 DEF TakeDown
    <3>4. \A r \in Requests :
            StatusOf(r) = IF r > asked THEN "unasked"
                          ELSE IF r \in flag
                               THEN IF r \in stranded THEN "stranded" ELSE "waiting"
                          ELSE IF r \in answered THEN "answered" ELSE "failed"
      BY <3>1 DEF StatusOf
    <3>5. \A r \in Requests :
            StatusOf(r)' = IF r \in flag THEN "sweeping" ELSE StatusOf(r)
      <4> SUFFICES ASSUME NEW r \in Requests
                   PROVE StatusOf(r)' = IF r \in flag THEN "sweeping" ELSE StatusOf(r)
        OBVIOUS
      <4>1. (\E b \in Actors : r \in batch'[b]) <=> r \in flag
        BY <3>2
      <4>2. r \in flag => r \notin answered /\ ~(r > asked)
        BY <2>0 DEF PlaceInv
      <4>3. CASE r \in flag
        BY <2>3, <3>3, <4>1, <4>2, <4>3 DEF StatusOf
      <4>4. CASE r \notin flag
        <5>1. StatusOf(r) = IF r > asked THEN "unasked"
                            ELSE IF r \in answered THEN "answered" ELSE "failed"
          BY <3>1, <4>4 DEF StatusOf
        <5>2. StatusOf(r)' = IF r > asked THEN "unasked"
                             ELSE IF r \in answered THEN "answered" ELSE "failed"
          BY <2>3, <3>3, <4>1, <4>4 DEF StatusOf
        <5> QED
          BY <4>4, <5>1, <5>2
      <4> QED
        BY <4>3, <4>4
    <3>6. CASE flag = {}
      BY <3>5, <3>6
    <3>7. CASE flag # {}
      <4>1. \A r \in Requests :
              /\ StatusOf(r) # "sweeping"
              /\ StatusOf(r) \in {"waiting", "stranded"} <=> r \in flag
        <5> TAKE r \in Requests
        <5>1. r \in flag => ~(r > asked)
          BY <2>0
        <5>2. r \in flag => StatusOf(r) = IF r \in stranded THEN "stranded" ELSE "waiting"
          BY <5>1 DEF StatusOf
        <5>3. r \notin flag => StatusOf(r) \in {"unasked", "answered", "failed"}
          BY <3>1 DEF StatusOf
        <5> QED
          BY <5>2, <5>3
      <4>2. \E r \in Requests : r \in flag
        <5>1. PICK r \in 1..asked : r \in flag
          BY <2>0, <3>7
        <5>2. r \in Requests
          BY <2>0
        <5> QED
          BY <5>1, <5>2
      <4>3. Service!Begin
        BY <3>5, <4>1, <4>2 DEF Service!Begin, Service!In
      <4> QED
        BY <4>3 DEF Service!Next
    <3> QED
      BY <3>6, <3>7
  <2>4. ASSUME NEW a \in Actors, pc[a] \in LockedStates, Swept(a),
               UNCHANGED <<asked, flag, stranded>>
        PROVE Service!Next \/ status' = status
    <3>1. \A b \in Actors : b # a => batch[b] = {}
      BY <2>4, OneBatch
    <3>2. \A b \in Actors : batch'[b] = {}
      BY <2>0, <2>4, <3>1 DEF Swept
    <3>3. \A r \in Requests :
            StatusOf(r)' = IF StatusOf(r) = "sweeping" THEN "answered" ELSE StatusOf(r)
      <4> SUFFICES ASSUME NEW r \in Requests
                   PROVE StatusOf(r)' = IF StatusOf(r) = "sweeping"
                                        THEN "answered" ELSE StatusOf(r)
        OBVIOUS
      <4>1. answered' = answered \cup batch[a]
        BY <2>4 DEF Swept
      <4>2. (\E b \in Actors : r \in batch[b]) <=> r \in batch[a]
        BY <3>1
      <4>3. r \in batch[a] => r \notin flag /\ r \notin answered /\ r <= asked
        BY <2>0 DEF PlaceInv
      <4> QED
        BY <2>4, <3>2, <4>1, <4>2, <4>3 DEF StatusOf
    <3>4. CASE \E r \in Requests : StatusOf(r) = "sweeping"
      <4>1. Service!Finish
        BY <3>3, <3>4 DEF Service!Finish, Service!In
      <4> QED
        BY <4>1 DEF Service!Next
    <3>5. CASE \A r \in Requests : StatusOf(r) # "sweeping"
      BY <3>3, <3>5
    <3> QED
      BY <3>4, <3>5
  <2>5. ASSUME NEW a \in Actors, Ends(a)
        PROVE Service!Next \/ status' = status
    <3>1. UNCHANGED <<asked, flag, answered>> /\ stranded' = stranded \cup flag
      BY <2>5 DEF Ends
    <3>2. batch' = [batch EXCEPT ![a] = {}]
      BY <2>5 DEF Ends
    <3> DEFINE sweeper == batch[a] # {}
    <3>3. ASSUME NEW r \in Requests
          PROVE StatusOf(r)' = CASE StatusOf(r) = "waiting" -> "stranded"
                                 [] StatusOf(r) = "sweeping" /\ sweeper -> "failed"
                                 [] OTHER -> StatusOf(r)
      <4>1. CASE batch[a] = {}
        <5>1. batch' = batch
          BY <2>0, <3>2, <4>1
        <5> QED
          BY <3>1, <4>1, <5>1 DEF StatusOf
      <4>2. CASE batch[a] # {}
        <5>1. pc[a] \in LockedStates
          BY <4>2 DEF PlaceInv, LockedStates
        <5>2. \A b \in Actors : b # a => batch[b] = {}
          BY <5>1, OneBatch
        <5>3. \A b \in Actors : batch'[b] = {}
          BY <2>0, <3>2, <5>2
        <5>4. StatusOf(r)' = IF r > asked THEN "unasked"
                             ELSE IF r \in flag THEN "stranded"
                             ELSE IF r \in answered THEN "answered" ELSE "failed"
          BY <3>1, <5>3 DEF StatusOf
        <5>5. CASE r > asked
          <6>1. StatusOf(r) = "unasked"
            BY <5>5 DEF StatusOf
          <6> QED
            BY <5>4, <5>5, <6>1
        <5>6. CASE ~(r > asked) /\ r \in flag
          <6>1. StatusOf(r) = IF r \in stranded THEN "stranded" ELSE "waiting"
            BY <5>6 DEF StatusOf
          <6> QED
            BY <5>4, <5>6, <6>1
        <5>7. CASE ~(r > asked) /\ r \notin flag
          <6>1. StatusOf(r) = IF r \in answered THEN "answered"
                              ELSE IF r \in batch[a] THEN "sweeping" ELSE "failed"
            BY <5>2, <5>7 DEF StatusOf
          <6> QED
            BY <4>2, <5>4, <5>7, <6>1
        <5> QED
          BY <5>5, <5>6, <5>7
      <4> QED
        BY <4>1, <4>2
    <3>4. Service!Fail(sweeper)
      BY <3>3 DEF Service!Fail
    <3>5. sweeper \in BOOLEAN
      OBVIOUS
    <3> QED
      BY <3>4, <3>5 DEF Service!Next
  <2>6. ASSUME NEW c \in Commands, Lower(c)
        PROVE Service!Next \/ status' = status
    <3>1. CASE flag # {}
      BY <2>3, <2>6, <3>1 DEF Lower, Go, faults, LockedStates, PlaceInv
    <3>2. CASE flag = {}
      BY <2>1, <2>6, <3>2 DEF Lower, faults
    <3> QED
      BY <3>1, <3>2
  <2>7. ASSUME NEW w \in Watchers, Discard(w) \/ Take(w)
        PROVE Service!Next \/ status' = status
    BY <2>3, <2>7 DEF Discard, Take, Go, faults, LockedStates, PlaceInv
  <2>8. ASSUME NEW c \in Commands, Run(c)
        PROVE Service!Next \/ status' = status
    BY <2>4, <2>8 DEF Run, Go, faults, LockedStates
  <2>9. ASSUME NEW w \in Watchers, Sight(w) \/ Handle(w)
        PROVE Service!Next \/ status' = status
    BY <2>4, <2>9 DEF Sight, Handle, Go, faults, LockedStates
  <2>10. ASSUME NEW a \in Actors, (a \in Commands /\ RunFails(a)) \/ Dies(a)
        PROVE Service!Next \/ status' = status
    BY <2>5, <2>10 DEF RunFails, Dies
  <2>11. ASSUME NEW c \in Commands,
                Hold(c) \/ HandOver(c) \/ Drop(c) \/ Check(c) \/ Probe(c)
                  \/ Unprobe(c) \/ Spawn(c)
         PROVE status' = status
    BY <2>1, <2>11 DEF Hold, HandOver, Drop, Check, Probe, Unprobe, Spawn, faults
  <2>12. ASSUME NEW w \in Watchers,
                Launch(w) \/ Wait(w) \/ OpenStream(w) \/ Drain(w) \/ Receive(w)
         PROVE status' = status
    BY <2>1, <2>12 DEF Launch, Wait, OpenStream, Drain, Receive, faults
  <2>13. CASE UNCHANGED vars
    BY <2>1, <2>13 DEF vars
  <2> QED
    BY <2>2, <2>6, <2>7, <2>8, <2>9, <2>10, <2>11, <2>12, <2>13 DEF Next
<1> QED
  BY <1>1, <1>2, TypeCorrect, LockIsRespected, OnePlace, PTL
     DEF Spec, ImplementsService, Service!Spec
===============================================================================
