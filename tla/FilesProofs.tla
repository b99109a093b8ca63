----------------------------- MODULE FilesProofs -----------------------------
(***************************************************************************)
(* Proofs about files that stay: what a prune of a profile leaves, which   *)
(* are the sessions that rustc is to load, those it is at work on, and the *)
(* objects that images name, however many runs, prunes and deaths there    *)
(* are; and that a checkout that is found released is untouched, however   *)
(* many writes, monitors and questions there are.                          *)
(***************************************************************************)
EXTENDS Sessions, Release, FiniteSetTheorems, TLAPS

(* What a prune is still going to remove.                                  *)
Pending == {item \in Items : item \in doomed.sessions \/ (Removing /\ item = target.listed)}

(* A session stands as far as its rustc got.                               *)
AtWork ==
    \A r \in Rustcs :
        /\ Compiling(r) => /\ r \in Runs /\ session[r].whole /\ session[r].lock
                           /\ session[r].holder = "rustc"
        /\ rustc[r] = "compiling" => session[r].stage = "working"
        /\ rustc[r] = "finished" => session[r].stage = "finalized"
        /\ rustc[r] = "waiting" => session[r].stage = "none"

(* Under the lease no cargo begins anything; what is being removed has no   *)
(* rustc, so its stage can only become none.                               *)
Leased ==
    /\ mode = "execute" => ~cargo
    /\ mode = "none" => pruning = "none" /\ doomed = Nothing
    /\ Removing => /\ mode = "execute" /\ target \in [listed : Items, lock : {"absent", "taken"}]
                   /\ ~Compiling(target.listed.of)
    /\ pruning = "clear" /\ target.listed.stage = "working" =>
         session[target.listed.of].stage # "finalized"
    /\ \A item \in Pending : rustc[item.of] # "waiting"

(* One finished session is newer than every finished one that is to go.    *)
Outlived ==
    (\E item \in Pending : item.stage = "finalized") =>
        \E q \in Finalized : \A item \in Pending :
            item.stage = "finalized" => began[item.of] < began[q]

(* One that was emptied is not the newest.                                 *)
Emptied == \A r \in Finalized : ~session[r].whole => \E q \in Finalized : began[r] < began[q]

Loaded == finished => Finalized # {}

(* With every rustc under its cargo, the lease keeps objects and images.   *)
Named ==
    ~orphaned =>
        /\ \A r \in Runs : Compiling(r) => cargo
        /\ \A r \in Rustcs : rustc[r] = "finished" => r \in objects
        /\ \A i \in Images : image[i].names \subseteq objects
        /\ mode = "execute" => \A i \in Images : doomed.objects \cap image[i].names = {}

USE DEF SessionStates

SessionsInv == SessionsTypeOK /\ AtWork /\ Leased /\ Outlived /\ Emptied /\ Loaded /\ Named

-------------------------------------------------------------------------------
(* The numbers of the runs to come.                                        *)
LEMMA Numbers ==
    /\ Cardinality(Runs) \in Nat
    /\ \A p \in SUBSET Runs : Cardinality(p) \in 0..Cardinality(Runs)
    /\ \A n \in Began : n \in Nat /\ n <= 3 + Cardinality(Runs)
    /\ 0..2 \subseteq Began
<1>1. Cardinality(Runs) \in Nat
  BY SessionsAssumption, FS_CardinalityType
<1>2. ASSUME NEW p \in SUBSET Runs PROVE Cardinality(p) \in 0..Cardinality(Runs)
  <2>1. IsFiniteSet(p) /\ Cardinality(p) <= Cardinality(Runs)
    BY SessionsAssumption, FS_Subset
  <2>2. Cardinality(p) \in Nat
    BY <2>1, FS_CardinalityType
  <2> QED BY <1>1, <2>1, <2>2
<1>3. /\ \A n \in Began : n \in Nat /\ n <= 3 + Cardinality(Runs)
      /\ 0..2 \subseteq Began
  BY <1>1 DEF Began
<1> QED
  BY <1>1, <1>2, <1>3

(* Where there are finished sessions, one is the newest.                   *)
LEMMA NewestExists == ASSUME SessionsTypeOK, Finalized # {} PROVE Newest # {}
<1> DEFINE N == 3 + Cardinality(Runs)
           T == {n \in Nat : \E q \in Finalized : n = N - began[q]}
<1>1. N \in Nat /\ \A q \in Finalized : began[q] \in Nat /\ began[q] <= N
  BY Numbers DEF SessionsTypeOK, Finalized
<1>2. T \subseteq Nat /\ T # {}
  <2>1. PICK q \in Finalized : TRUE
    OBVIOUS
  <2>2. N - began[q] \in Nat
    BY <1>1
  <2> QED BY <2>1, <2>2
<1>3. PICK n \in T : \A m \in T : ~(<<m, n>> \in OpToRel(<, Nat))
  BY <1>2, NatLessThanWellFounded, WFMin
<1>4. \A m \in T : n <= m
  <2>1. \A m \in T : ~(m < n)
    BY <1>2, <1>3 DEF OpToRel
  <2> QED BY <1>2, <2>1
<1>5. PICK q \in Finalized : n = N - began[q]
  BY <1>3
<1>6. ASSUME NEW p \in Finalized PROVE began[p] <= began[q]
  <2>1. N - began[p] \in T
    BY <1>1
  <2>2. N - began[q] <= N - began[p]
    BY <1>4, <1>5, <2>1
  <2> QED BY <1>1, <2>2
<1> QED
  BY <1>5, <1>6 DEF Newest

(* It holds before any prune.                                              *)
LEMMA SessionsStart == SessionsInit => SessionsInv
<1> SUFFICES ASSUME SessionsInit PROVE SessionsInv
  OBVIOUS
<1>1. SessionsTypeOK
  <2>1. session \in [Rustcs -> SessionStates]
    <3>1. NoSession \in SessionStates
      BY DEF NoSession
    <3>2. Left \subseteq SessionStates
      BY <3>1 DEF Left
    <3>3. session \in [Rustcs -> Left]
      BY DEF SessionsInit
    <3> QED BY <3>2, <3>3
  <2>2. began \in [Rustcs -> Began] /\ objects \subseteq Rustcs
    BY Numbers DEF SessionsInit, Rustcs
  <2>3. image \in [Images -> {Absent} \cup ImageFiles(BOOLEAN, 0..2, SUBSET Rustcs)]
    BY DEF SessionsInit, Rustcs, ImageFiles
  <2>4. /\ rustc \in [Rustcs -> {"waiting", "compiling", "finished", "done"}]
        /\ cargo \in BOOLEAN /\ orphaned \in BOOLEAN /\ finished \in BOOLEAN
    BY DEF SessionsInit
  <2>5. /\ mode \in {"none", "dry-run", "execute"} /\ scope \subseteq Directories
        /\ Removing \/ pruning \in {"none", "sessions", "objects", "images", "next"}
        /\ doomed \in [sessions : SUBSET Items, objects : SUBSET Rustcs]
        /\ listed \subseteq Rustcs
        /\ target \in {NoTarget} \cup [listed : Items, lock : {"absent", "taken"}]
        /\ DOMAIN tally = Rules
        /\ held \in Nat /\ prunes \in Nat /\ killed \in Nat
    BY DEF SessionsInit, Nothing, NoTally
  <2> QED BY <2>1, <2>2, <2>3, <2>4, <2>5 DEF SessionsTypeOK
<1>2. Pending = {}
  BY DEF SessionsInit, Pending, Removing, Nothing
<1>3. AtWork
  BY DEF SessionsInit, AtWork, Compiling, NoSession, Rustcs
<1>4. Leased /\ Outlived
  BY <1>2 DEF SessionsInit, Leased, Outlived, Removing
<1>5. Emptied
  <2>1. \A r \in Rustcs : session[r].stage = "finalized" => session[r].whole
    <3>1. \A x \in Left : x = NoSession \/ x.whole = TRUE
      BY DEF Left
    <3>2. NoSession.stage # "finalized"
      BY DEF NoSession
    <3> QED BY <3>1, <3>2 DEF SessionsInit
  <2> QED BY <2>1 DEF Emptied, Finalized
<1>6. Loaded
  BY DEF SessionsInit, Loaded, Finalized, Rustcs
<1>7. Named
  <2>1. \A i \in Images : image[i].names \subseteq Earlier
    BY DEF SessionsInit, ImageFiles, Absent
  <2>2. \A r \in Rustcs : rustc[r] # "finished" /\ ~Compiling(r)
    BY DEF SessionsInit, Compiling
  <2> QED BY <2>1, <2>2 DEF SessionsInit, Named, Rustcs
<1> QED
  BY <1>1, <1>3, <1>4, <1>5, <1>6, <1>7 DEF SessionsInv

-------------------------------------------------------------------------------
(* What holds of the sessions holds on, if for every finished one there    *)
(* still is one as new, and no more are emptied or about to be.            *)
LEMMA NewerStays ==
    ASSUME SessionsInv, SessionsTypeOK',
           \A q \in Finalized : \E p \in Finalized' : began[q] <= began'[p],
           Pending' \subseteq Pending,
           \A item \in Pending' : began'[item.of] = began[item.of],
           \A r \in Finalized' : ~session'[r].whole =>
               /\ began'[r] = began[r]
               /\ \/ r \in Finalized /\ ~session[r].whole
                  \/ \E q \in Finalized : began[r] < began[q],
           finished' => finished \/ Finalized' # {}
    PROVE  Outlived' /\ Emptied' /\ Loaded'
<1>1. SessionsTypeOK /\ Outlived /\ Emptied /\ Loaded
  BY DEF SessionsInv
<1>2. \A r \in Rustcs : began[r] \in Nat /\ began'[r] \in Nat
  BY <1>1, Numbers DEF SessionsTypeOK
<1>3. Finalized \subseteq Rustcs /\ Finalized' \subseteq Rustcs
  BY DEF Finalized
<1>4. Outlived'
  <2> SUFFICES ASSUME \E item \in Pending' : item.stage = "finalized"
               PROVE  \E q \in Finalized' : \A item \in Pending' :
                          item.stage = "finalized" => began'[item.of] < began'[q]
    BY DEF Outlived
  <2>1. PICK q \in Finalized : \A item \in Pending :
            item.stage = "finalized" => began[item.of] < began[q]
    BY <1>1 DEF Outlived
  <2>2. PICK p \in Finalized' : began[q] <= began'[p]
    BY <2>1
  <2>3. ASSUME NEW item \in Pending', item.stage = "finalized" PROVE began'[item.of] < began'[p]
    <3>1. item.of \in Rustcs
      BY DEF Pending, Items
    <3>2. began'[item.of] = began[item.of] /\ began[item.of] < began[q]
      BY <2>1, <2>3
    <3> QED BY <1>2, <1>3, <2>2, <3>1, <3>2
  <2> QED BY <2>3
<1>5. Emptied'
  <2> SUFFICES ASSUME NEW r \in Finalized', ~session'[r].whole
               PROVE  \E q \in Finalized' : began'[r] < began'[q]
    BY DEF Emptied
  <2>1. PICK q \in Finalized : began[r] < began[q]
    BY <1>1 DEF Emptied
  <2>2. PICK p \in Finalized' : began[q] <= began'[p]
    BY <2>1
  <2>3. began'[r] = began[r]
    OBVIOUS
  <2> QED BY <1>2, <1>3, <2>1, <2>2, <2>3
<1>6. Loaded'
  BY <1>1 DEF Loaded
<1> QED
  BY <1>4, <1>5, <1>6

(* Above all if nothing happens to them.                                   *)
LEMMA SessionsStay ==
    ASSUME SessionsInv, SessionsTypeOK', UNCHANGED <<session, began, finished>>, Pending' \subseteq Pending
    PROVE  Outlived' /\ Emptied' /\ Loaded'
<1>1. Finalized' = Finalized /\ \A q \in Finalized : began[q] \in Nat
  BY Numbers DEF SessionsInv, SessionsTypeOK, Finalized
<1>2. \A q \in Finalized : \E p \in Finalized' : began[q] <= began'[p]
  BY <1>1
<1> QED
  BY <1>1, <1>2, NewerStays

-------------------------------------------------------------------------------
(* Cargo comes and goes; it is only said of builds that are not orphaned   *)
(* that their cargo is there.                                              *)
LEMMA CargoKeeps == ASSUME SessionsInv, CargoTakes \/ CargoLeaves \/ CargoDies PROVE SessionsInv'
<1>1. SessionsTypeOK /\ AtWork /\ Leased /\ Outlived /\ Emptied /\ Loaded /\ Named
  BY DEF SessionsInv
<1>2. /\ UNCHANGED <<session, began, objects, image, rustc, finished>>
      /\ UNCHANGED <<mode, scope, pruning, doomed, listed, target, tally, held, prunes>>
  BY DEF CargoTakes, CargoLeaves, CargoDies, profile, prune
<1>3. /\ cargo' \in BOOLEAN /\ orphaned' \in BOOLEAN /\ killed' \in Nat
      /\ mode = "execute" => ~cargo'
      /\ ~orphaned' => ~orphaned /\ \A r \in Runs : Compiling(r) => cargo'
  <2>1. CASE CargoTakes
    <3>1. cargo' = TRUE /\ mode # "execute" /\ UNCHANGED <<orphaned, killed>>
      BY <2>1 DEF CargoTakes
    <3> QED BY <1>1, <3>1 DEF SessionsTypeOK
  <2>2. CASE CargoLeaves
    <3>1. cargo' = FALSE /\ UNCHANGED <<orphaned, killed>>
      BY <2>2 DEF CargoLeaves
    <3>2. ~orphaned => \A r \in Runs : ~Compiling(r)
      BY <2>2 DEF CargoLeaves
    <3> QED BY <1>1, <3>1, <3>2 DEF SessionsTypeOK
  <2>3. CASE CargoDies
    <3>1. /\ cargo' = FALSE /\ killed' \in Nat
          /\ orphaned' = (orphaned \/ \E r \in Runs : Compiling(r))
      BY <1>1, <2>3 DEF CargoDies, SessionsTypeOK
    <3>2. ~orphaned' => ~orphaned /\ \A r \in Runs : ~Compiling(r)
      BY <3>1
    <3>3. orphaned' \in BOOLEAN
      BY <3>1
    <3> QED BY <3>1, <3>2, <3>3
  <2> QED BY <2>1, <2>2, <2>3
<1>4. SessionsTypeOK'
  BY <1>1, <1>2, <1>3 DEF SessionsTypeOK, Removing
<1>5. Pending' = Pending
  BY <1>2 DEF Pending, Removing
<1>6. AtWork'
  BY <1>1, <1>2 DEF AtWork, Compiling
<1>7. Leased'
  BY <1>1, <1>2, <1>3, <1>5 DEF Leased, Removing, Compiling
<1>8. Outlived' /\ Emptied' /\ Loaded'
  BY <1>2, <1>4, <1>5, SessionsStay
<1>9. Named'
  BY <1>1, <1>2, <1>3 DEF Named, Compiling
<1> QED
  BY <1>4, <1>6, <1>7, <1>8, <1>9 DEF SessionsInv

(* A run that begins has no session yet, and there is no removal.          *)
LEMMA BeginKeeps == ASSUME SessionsInv, NEW r \in Runs, Begin(r) PROVE SessionsInv'
<1> USE DEF Rustcs
<1>1. SessionsTypeOK /\ AtWork /\ Leased /\ Outlived /\ Emptied /\ Loaded /\ Named
  BY DEF SessionsInv
<1>2. /\ UNCHANGED <<objects, image, cargo, orphaned, finished>>
      /\ UNCHANGED <<mode, scope, pruning, doomed, listed, target, tally, held, prunes, killed>>
      /\ cargo /\ rustc[r] = "waiting"
  BY DEF Begin, prune
<1>3. /\ session' = [session EXCEPT ![r] =
             [stage |-> "working", whole |-> TRUE, lock |-> TRUE, holder |-> "rustc"]]
      /\ rustc' = [rustc EXCEPT ![r] = "compiling"]
  BY DEF Begin
<1>4. /\ began' \in [Rustcs -> Began]
      /\ \A q \in Rustcs : q # r => began'[q] = began[q]
  <2>1. 3 + Cardinality({q \in Runs : began[q] # 0}) \in Began
    BY Numbers DEF Began
  <2> QED BY <1>1, <2>1 DEF Begin, SessionsTypeOK
<1>5. SessionsTypeOK'
  BY <1>1, <1>2, <1>3, <1>4 DEF SessionsTypeOK, Removing
<1>6. Pending' = Pending
  BY <1>2 DEF Pending, Removing
<1>7. Finalized' = Finalized /\ r \notin Finalized
  BY <1>1, <1>2, <1>3 DEF SessionsTypeOK, AtWork, Finalized
<1>8. AtWork'
  BY <1>1, <1>3 DEF SessionsTypeOK, AtWork, Compiling
<1>9. Leased'
  <2>1. mode # "execute" /\ ~Removing
    BY <1>1, <1>2 DEF Leased
  <2>2. \A item \in Pending' : rustc'[item.of] # "waiting"
    BY <1>1, <1>3, <1>6 DEF SessionsTypeOK, Leased, Pending, Items
  <2> QED BY <1>1, <1>2, <2>1, <2>2 DEF Leased, Removing
<1>10. Outlived' /\ Emptied' /\ Loaded'
  <2>1. \A q \in Finalized : began'[q] = began[q] /\ session'[q] = session[q] /\ began[q] \in Nat
    BY <1>1, <1>3, <1>4, <1>7, Numbers DEF SessionsTypeOK, Finalized
  <2>2. \A q \in Finalized : \E p \in Finalized' : began[q] <= began'[p]
    BY <1>7, <2>1
  <2>3. \A item \in Pending' : began'[item.of] = began[item.of]
    BY <1>1, <1>2, <1>4, <1>6 DEF Leased, Pending, Items
  <2> QED BY <1>2, <1>5, <1>6, <1>7, <2>1, <2>2, <2>3, NewerStays
<1>11. Named'
  <2>1. mode # "execute"
    BY <1>1, <1>2 DEF Leased
  <2> QED BY <1>1, <1>2, <1>3, <2>1 DEF Named, SessionsTypeOK, Compiling
<1> QED
  BY <1>5, <1>8, <1>9, <1>10, <1>11 DEF SessionsInv

(* The session of a run that finishes is whole, and one more to be newest. *)
LEMMA FinishKeeps == ASSUME SessionsInv, NEW r \in Runs, FinishSession(r) PROVE SessionsInv'
<1>1. SessionsTypeOK /\ AtWork /\ Leased /\ Outlived /\ Emptied /\ Loaded /\ Named
  BY DEF SessionsInv
<1>2. /\ UNCHANGED <<began, image, cargo, orphaned, prunes, killed>>
      /\ UNCHANGED <<mode, scope, pruning, doomed, listed, target, tally, held>>
      /\ rustc[r] = "compiling" /\ r \in Rustcs
  BY DEF FinishSession, prune, Rustcs
<1>3. Pending' = Pending
  BY <1>2 DEF Pending, Removing
<1>4. CASE r \notin objects
  <2>1. objects' = objects \cup {r} /\ UNCHANGED <<session, rustc, finished>>
    BY <1>4 DEF FinishSession
  <2>2. SessionsTypeOK'
    BY <1>1, <1>2, <2>1 DEF SessionsTypeOK, Removing
  <2>3. AtWork' /\ Leased'
    BY <1>1, <1>2, <1>3, <2>1 DEF AtWork, Leased, Removing, Compiling
  <2>4. Outlived' /\ Emptied' /\ Loaded'
    BY <1>2, <1>3, <2>1, <2>2, SessionsStay
  <2>5. Named'
    BY <1>1, <1>2, <2>1 DEF Named, Compiling
  <2> QED BY <2>2, <2>3, <2>4, <2>5 DEF SessionsInv
<1>5. CASE r \in objects
  <2>1. /\ session' = [session EXCEPT ![r].stage = "finalized"]
        /\ rustc' = [rustc EXCEPT ![r] = "finished"]
        /\ finished' = TRUE /\ UNCHANGED objects
    BY <1>5 DEF FinishSession
  <2>2. SessionsTypeOK'
    BY <1>1, <1>2, <2>1 DEF SessionsTypeOK, Removing
  <2>3. AtWork'
    BY <1>1, <1>2, <2>1 DEF SessionsTypeOK, AtWork, Compiling
  <2>4. Leased'
    <3>1. Removing => target.listed.of # r /\ target.listed.of \in Rustcs
      BY <1>1, <1>2 DEF Leased, Compiling, Items
    <3>2. \A q \in Rustcs : q # r => session'[q] = session[q] /\ rustc'[q] = rustc[q]
      BY <1>1, <2>1 DEF SessionsTypeOK
    <3>3. \A item \in Pending : rustc'[item.of] # "waiting"
      BY <1>1, <2>1 DEF SessionsTypeOK, Leased, Pending, Items
    <3> QED BY <1>1, <1>2, <1>3, <3>1, <3>2, <3>3 DEF Leased, Removing, Compiling
  <2>5. /\ Finalized' = Finalized \cup {r}
        /\ \A q \in Finalized : session'[q].whole = session[q].whole /\ began[q] \in Nat
        /\ session'[r].whole
    BY <1>1, <1>2, <2>1, Numbers DEF SessionsTypeOK, AtWork, Compiling, Finalized
  <2>6. \A q \in Finalized : \E p \in Finalized' : began[q] <= began'[p]
    BY <1>2, <2>5
  <2>7. Outlived' /\ Emptied' /\ Loaded'
    BY <1>2, <1>3, <2>2, <2>5, <2>6, NewerStays
  <2>8. Named'
    BY <1>1, <1>2, <1>5, <2>1 DEF SessionsTypeOK, Named, Compiling
  <2> QED BY <2>2, <2>3, <2>4, <2>7, <2>8 DEF SessionsInv
<1> QED
  BY <1>4, <1>5

(* Linking drops what is older than the session of its run, which stays.   *)
LEMMA LinkKeeps == ASSUME SessionsInv, NEW r \in Runs, Link(r) PROVE SessionsInv'
<1>1. SessionsTypeOK /\ AtWork /\ Leased /\ Outlived /\ Emptied /\ Loaded /\ Named
  BY DEF SessionsInv
<1>2. /\ UNCHANGED <<began, objects, cargo, orphaned, finished, prunes, killed>>
      /\ UNCHANGED <<mode, scope, pruning, doomed, listed, target, tally, held>>
      /\ rustc[r] = "finished" /\ r \in Rustcs /\ Compiling(r)
      /\ rustc' = [rustc EXCEPT ![r] = "done"]
  BY DEF Link, prune, Rustcs, Compiling
<1>3. PICK i \in Images, reused \in SUBSET objects :
          image' = [image EXCEPT ![i] = LinkedOf(reused \cup {r})]
  BY DEF Link
<1>4. /\ session' \in [Rustcs -> SessionStates]
      /\ session'[r] = [session[r] EXCEPT !.holder = "nobody"]
      /\ \A q \in Rustcs \ {r} :
           \/ session'[q] = session[q]
           \/ /\ session[q].holder = "nobody" /\ began[q] < began[r]
              /\ session'[q] = NoSession
  <2>1. session' = [q \in Rustcs |->
            IF q = r THEN [session[q] EXCEPT !.holder = "nobody"]
            ELSE IF session[q].holder = "nobody" /\ began[q] < began[r] THEN NoSession
            ELSE session[q]]
    BY DEF Link
  <2>2. NoSession \in SessionStates
    BY DEF NoSession
  <2>3. [session[r] EXCEPT !.holder = "nobody"] \in
            SessionStates
    BY <1>1, <1>2 DEF SessionsTypeOK
  <2> QED BY <1>1, <1>2, <2>1, <2>2, <2>3 DEF SessionsTypeOK
<1>5. SessionsTypeOK'
  <2>1. LinkedOf(reused \cup {r}) \in ImageFiles(BOOLEAN, 0..2, SUBSET Rustcs)
    BY <1>1, <1>2 DEF SessionsTypeOK, LinkedOf, ImageFiles
  <2>2. image' \in [Images -> {Absent} \cup ImageFiles(BOOLEAN, 0..2, SUBSET Rustcs)]
    BY <1>1, <1>3, <2>1 DEF SessionsTypeOK
  <2>3. rustc' \in [Rustcs -> {"waiting", "compiling", "finished", "done"}]
    BY <1>1, <1>2 DEF SessionsTypeOK
  <2> QED BY <1>1, <1>2, <1>4, <2>2, <2>3 DEF SessionsTypeOK, Removing
<1>6. Pending' = Pending
  BY <1>2 DEF Pending, Removing
<1>7. \A q \in Rustcs \ {r} : rustc'[q] = rustc[q] /\ (Compiling(q) => session'[q] = session[q])
  BY <1>1, <1>2, <1>4 DEF SessionsTypeOK, AtWork
<1>8. AtWork'
  <2>1. NoSession.stage = "none"
    BY DEF NoSession
  <2> QED BY <1>1, <1>2, <1>4, <1>7, <2>1 DEF SessionsTypeOK, AtWork, Compiling
<1>9. Leased'
  <2>1. Removing => target.listed.of \in Rustcs \ {r}
    BY <1>1, <1>2 DEF Leased, Items
  <2>2. NoSession.stage # "finalized"
    BY DEF NoSession
  <2>3. Removing => ~Compiling(target.listed.of)'
    BY <1>1, <1>2, <1>7, <2>1 DEF Leased, Compiling
  <2>4. pruning = "clear" /\ target.listed.stage = "working" =>
          session'[target.listed.of].stage # "finalized"
    BY <1>1, <1>4, <2>1, <2>2 DEF Leased, Removing
  <2>5. \A item \in Pending : rustc'[item.of] # "waiting"
    BY <1>1, <1>2 DEF SessionsTypeOK, Leased, Pending, Items
  <2> QED BY <1>1, <1>2, <1>6, <2>3, <2>4, <2>5 DEF Leased, Removing
<1>10. Outlived' /\ Emptied' /\ Loaded'
  <2>1. /\ r \in Finalized' /\ Finalized' \subseteq Finalized
        /\ \A q \in Finalized' : session'[q].whole = session[q].whole
        /\ \A q \in Finalized \ Finalized' : began[q] < began[r]
    <3>1. NoSession.stage # "finalized"
      BY DEF NoSession
    <3>2. session'[r].stage = session[r].stage /\ session'[r].whole = session[r].whole
      BY <1>1, <1>2, <1>4 DEF SessionsTypeOK
    <3>3. session[r].stage = "finalized"
      BY <1>1, <1>2 DEF AtWork
    <3>4. ASSUME NEW q \in Rustcs \ {r}
          PROVE  \/ session'[q] = session[q]
                 \/ session'[q].stage # "finalized" /\ began[q] < began[r]
      BY <1>4, <3>1
    <3> QED BY <1>2, <3>2, <3>3, <3>4 DEF Finalized
  <2>2. \A q \in Finalized : \E p \in Finalized' : began[q] <= began'[p]
    <3>1. \A q \in Rustcs : began[q] \in Nat
      BY <1>1, Numbers DEF SessionsTypeOK
    <3> QED BY <1>2, <2>1, <3>1 DEF Finalized
  <2> QED BY <1>2, <1>5, <1>6, <2>1, <2>2, NewerStays
<1>11. Named'
  <2>1. ~orphaned => r \in objects
    BY <1>1, <1>2 DEF Named
  <2>2. LinkedOf(reused \cup {r}).names = reused \cup {r}
    BY DEF LinkedOf
  <2>3. ~orphaned => \A j \in Images : image'[j].names \subseteq objects
    BY <1>1, <1>3, <2>1, <2>2 DEF SessionsTypeOK, Named
  <2>4. ~orphaned => mode # "execute"
    BY <1>1, <1>2 DEF Named, Leased
  <2>5. \A q \in Rustcs : Compiling(q)' => Compiling(q)
    BY <1>1, <1>2 DEF SessionsTypeOK, Compiling
  <2>6. \A q \in Rustcs : rustc'[q] = "finished" => rustc[q] = "finished"
    BY <1>1, <1>2 DEF SessionsTypeOK
  <2> QED BY <1>1, <1>2, <2>3, <2>4, <2>5, <2>6 DEF Named, Rustcs
<1> QED
  BY <1>5, <1>8, <1>9, <1>10, <1>11 DEF SessionsInv

LEMMA RustcDiesKeeps == ASSUME SessionsInv, NEW r \in Runs, RustcDies(r) PROVE SessionsInv'
<1>1. SessionsTypeOK /\ AtWork /\ Leased /\ Outlived /\ Emptied /\ Loaded /\ Named
  BY DEF SessionsInv
<1>2. /\ UNCHANGED <<began, objects, image, cargo, orphaned, finished, prunes>>
      /\ UNCHANGED <<mode, scope, pruning, doomed, listed, target, tally, held>>
      /\ Compiling(r) /\ r \in Rustcs /\ killed' = killed + 1
      /\ rustc' = [rustc EXCEPT ![r] = "done"]
      /\ session' = [session EXCEPT ![r].holder = "nobody"]
  BY DEF RustcDies, prune, Rustcs
<1>3. SessionsTypeOK'
  BY <1>1, <1>2 DEF SessionsTypeOK, Removing
<1>4. Pending' = Pending
  BY <1>2 DEF Pending, Removing
<1>5. AtWork'
  BY <1>1, <1>2 DEF SessionsTypeOK, AtWork, Compiling
<1>6. \A q \in Rustcs : /\ session'[q].stage = session[q].stage
                        /\ session'[q].whole = session[q].whole
                        /\ rustc'[q] # rustc[q] => rustc'[q] = "done"
  BY <1>1, <1>2 DEF SessionsTypeOK
<1>7. Leased'
  <2>1. Removing => target.listed.of \in Rustcs
    BY <1>1 DEF Leased, Items
  <2>2. \A item \in Pending : rustc'[item.of] # "waiting"
    BY <1>1, <1>2 DEF SessionsTypeOK, Leased, Pending, Items
  <2> QED BY <1>1, <1>2, <1>4, <1>6, <2>1, <2>2 DEF Leased, Removing, Compiling
<1>8. Outlived' /\ Emptied' /\ Loaded'
  <2>1. Finalized' = Finalized /\ \A q \in Finalized : began[q] \in Nat
    BY <1>1, <1>6, Numbers DEF SessionsTypeOK, Finalized
  <2>2. \A q \in Finalized : \E p \in Finalized' : began[q] <= began'[p]
    BY <1>2, <2>1
  <2>3. \A q \in Finalized' : session'[q].whole = session[q].whole
    BY <1>6 DEF Finalized
  <2> QED BY <1>2, <1>3, <1>4, <2>1, <2>2, <2>3, NewerStays
<1>9. Named'
  <2>1. \A q \in Rustcs : /\ Compiling(q)' => Compiling(q)
                          /\ rustc'[q] = "finished" => rustc[q] = "finished"
    BY <1>6 DEF Compiling
  <2> QED BY <1>1, <1>2, <2>1 DEF Named, Rustcs
<1> QED
  BY <1>3, <1>5, <1>7, <1>8, <1>9 DEF SessionsInv

-------------------------------------------------------------------------------
(* What a prune does to its own state alone: nothing more is pending.      *)
LEMMA OwnStepKeeps ==
    ASSUME SessionsInv, SessionsTypeOK',
           UNCHANGED <<session, began, objects, image, build>>,
           Leased', Pending' \subseteq Pending,
           mode' = "execute" => mode = "execute" \/ mode = "none",
           doomed'.objects \subseteq doomed.objects
    PROVE  SessionsInv'
<1>1. SessionsTypeOK /\ AtWork /\ Leased /\ Outlived /\ Emptied /\ Loaded /\ Named
  BY DEF SessionsInv
<1>2. AtWork'
  BY <1>1 DEF AtWork, Compiling, build
<1>3. Outlived' /\ Emptied' /\ Loaded'
  BY SessionsStay DEF build
<1>4. Named'
  <2>1. mode = "none" => doomed'.objects = {}
    BY <1>1 DEF Leased, Nothing
  <2>2. ~orphaned /\ mode' = "execute" => \A i \in Images : doomed'.objects \cap image[i].names = {}
    BY <1>1, <2>1 DEF Named
  <2> QED BY <1>1, <2>2 DEF Named, Compiling, build
<1> QED
  BY <1>2, <1>3, <1>4 DEF SessionsInv

LEMMA LeaseKeeps ==
    ASSUME SessionsInv, NEW m \in {"dry-run", "execute"}, NEW d \in SUBSET Directories, Lease(m, d)
    PROVE  SessionsInv'
<1>1. SessionsTypeOK /\ Leased
  BY DEF SessionsInv
<1>2. /\ UNCHANGED <<session, began, objects, image, build, doomed, listed, target, killed>>
      /\ mode = "none" /\ mode' = m /\ scope' = d /\ pruning' = "sessions" /\ ~cargo
      /\ prunes' = prunes + 1 /\ tally' = NoTally /\ held' = 0
  BY DEF Lease, profile
<1>3. SessionsTypeOK'
  <2>1. DOMAIN tally' = Rules
    BY <1>2 DEF NoTally
  <2>2. mode' \in {"none", "dry-run", "execute"} /\ scope' \subseteq Directories
    BY <1>2
  <2>3. prunes' \in Nat /\ held' \in Nat
    BY <1>1, <1>2 DEF SessionsTypeOK
  <2> QED BY <1>1, <1>2, <2>1, <2>2, <2>3 DEF SessionsTypeOK, Removing, build
<1>4. Pending' = {}
  BY <1>1, <1>2 DEF Pending, Removing, Leased, Nothing
<1>5. Leased'
  BY <1>2, <1>4 DEF Leased, Removing, build
<1> QED
  BY <1>2, <1>3, <1>4, <1>5, OwnStepKeeps

(* The newest are not doomed, and one of them is newer than all that are.  *)
LEMMA ListSessionsKeeps == ASSUME SessionsInv, ListSessions PROVE SessionsInv'
<1>1. SessionsTypeOK /\ AtWork /\ Leased /\ Outlived /\ Emptied /\ Loaded /\ Named
  BY DEF SessionsInv
<1>2. /\ UNCHANGED <<session, began, objects, image, build>>
      /\ UNCHANGED <<mode, scope, listed, target, tally, held, prunes, killed>>
      /\ pruning = "sessions" /\ pruning' = "objects"
      /\ doomed' = [doomed EXCEPT !.sessions = IF "incremental" \in scope THEN Doomed ELSE {}]
  BY DEF ListSessions, profile
<1>3. Doomed \subseteq Items
  BY DEF Doomed, Items, Finalized, Working
<1>4. SessionsTypeOK'
  BY <1>1, <1>2, <1>3 DEF SessionsTypeOK, Removing, build
<1>5. Pending' \subseteq Doomed
  BY <1>1, <1>2 DEF SessionsTypeOK, Pending, Removing
<1>6. AtWork' /\ Emptied' /\ Loaded'
  BY <1>1, <1>2 DEF AtWork, Emptied, Loaded, Finalized, Compiling, build
<1>7. Leased'
  <2>1. \A item \in Doomed : rustc[item.of] # "waiting"
    BY <1>1 DEF AtWork, Doomed, Working, Finalized
  <2> QED BY <1>1, <1>2, <1>5, <2>1 DEF Leased, Removing, build
<1>8. Outlived'
  <2> SUFFICES ASSUME NEW some \in Pending', some.stage = "finalized"
               PROVE  \E q \in Finalized : \A item \in Pending' :
                          item.stage = "finalized" => began[item.of] < began[q]
    BY <1>2 DEF Outlived, Finalized
  <2>1. \A item \in Doomed : item.stage = "finalized" => item.of \in Finalized \ Newest
    BY DEF Doomed
  <2>2. PICK q \in Newest : TRUE
    BY <1>1, <1>5, <2>1, NewestExists
  <2>3. q \in Finalized /\ \A p \in Finalized : began[p] \in Nat /\ began[p] <= began[q]
    BY <1>1, Numbers DEF SessionsTypeOK, Newest, Finalized
  <2>4. ASSUME NEW p \in Finalized \ Newest PROVE began[p] < began[q]
    <3>1. PICK o \in Finalized : ~(began[o] <= began[p])
      BY <2>4 DEF Newest
    <3> QED BY <2>3, <3>1
  <2> QED BY <1>5, <2>1, <2>3, <2>4
<1>9. Named'
  BY <1>1, <1>2 DEF SessionsTypeOK, Named, Compiling, build
<1> QED
  BY <1>4, <1>6, <1>7, <1>8, <1>9 DEF SessionsInv

LEMMA ListObjectsKeeps == ASSUME SessionsInv, ListObjects PROVE SessionsInv'
<1>1. SessionsTypeOK /\ Leased
  BY DEF SessionsInv
<1>2. /\ UNCHANGED <<session, began, objects, image, build>>
      /\ UNCHANGED <<mode, scope, doomed, target, tally, held, prunes, killed>>
      /\ pruning = "objects" /\ pruning' = "images"
      /\ listed' \subseteq objects
  BY DEF ListObjects, profile
<1>3. SessionsTypeOK'
  BY <1>1, <1>2 DEF SessionsTypeOK, Removing, build
<1>4. Pending' = Pending
  BY <1>2 DEF Pending, Removing
<1>5. Leased'
  BY <1>1, <1>2, <1>4 DEF Leased, Removing, Compiling, build
<1> QED
  BY <1>1, <1>2, <1>3, <1>4, <1>5, OwnStepKeeps DEF SessionsTypeOK

(* No object is doomed that an image names.                                *)
LEMMA ReadImagesKeeps == ASSUME SessionsInv, ReadImages PROVE SessionsInv'
<1>1. SessionsTypeOK /\ AtWork /\ Leased /\ Outlived /\ Emptied /\ Loaded /\ Named
  BY DEF SessionsInv
<1>2. /\ UNCHANGED <<session, began, objects, image, build>>
      /\ UNCHANGED <<mode, scope, target, tally, held, prunes, killed>>
      /\ pruning = "images" /\ pruning' = "next" /\ listed' = {}
      /\ doomed' = [doomed EXCEPT !.objects = Stale(listed) \cap objects]
  BY DEF ReadImages, profile
<1>3. SessionsTypeOK'
  BY <1>1, <1>2 DEF SessionsTypeOK, Removing, build
<1>4. Pending' = Pending
  BY <1>1, <1>2 DEF SessionsTypeOK, Pending, Removing
<1>5. AtWork'
  BY <1>1, <1>2 DEF AtWork, Compiling, build
<1>6. Leased'
  BY <1>1, <1>2, <1>4 DEF Leased, Removing, Compiling, build
<1>7. Outlived' /\ Emptied' /\ Loaded'
  BY <1>2, <1>3, <1>4, SessionsStay DEF build
<1>8. Named'
  <2>1. \A i \in Images : Stale(listed) \cap image[i].names = {}
    <3>1. \A i \in Images : image[i].names \subseteq Referenced.names
      <4>1. \A i \in Images : image[i].file = "absent" => image[i].names = {}
        BY <1>1 DEF SessionsTypeOK, ImageFiles, Absent
      <4> QED BY <4>1 DEF Referenced
    <3> QED BY <3>1 DEF Stale
  <2>2. doomed'.objects \subseteq Stale(listed)
    BY <1>1, <1>2 DEF SessionsTypeOK
  <2> QED BY <1>1, <1>2, <2>1, <2>2 DEF Named, Compiling, build
<1> QED
  BY <1>3, <1>5, <1>6, <1>7, <1>8 DEF SessionsInv

LEMMA SupposeKeeps == ASSUME SessionsInv, Suppose PROVE SessionsInv'
<1>1. SessionsTypeOK /\ Leased
  BY DEF SessionsInv
<1>2. /\ UNCHANGED <<session, began, objects, image, build>>
      /\ UNCHANGED <<mode, scope, pruning, listed, target, held, prunes, killed>>
      /\ mode = "dry-run" /\ pruning = "next" /\ doomed' = Nothing /\ DOMAIN tally' = Rules
  BY DEF Suppose, profile
<1>3. SessionsTypeOK'
  BY <1>1, <1>2 DEF SessionsTypeOK, Removing, Nothing, build
<1>4. Pending' = {} /\ doomed'.objects = {}
  BY <1>2 DEF Pending, Removing, Nothing
<1>5. Leased'
  BY <1>1, <1>2, <1>4 DEF Leased, Removing, build
<1> QED
  BY <1>2, <1>3, <1>4, <1>5, OwnStepKeeps

LEMMA PassOverKeeps == ASSUME SessionsInv, PassOver PROVE SessionsInv'
<1>1. SessionsTypeOK
  BY DEF SessionsInv
<1>2. /\ UNCHANGED <<session, began, objects, image, build, tally, held, prunes, killed>>
      /\ mode' = "none" /\ scope' = {} /\ pruning' = "none"
      /\ doomed' = Nothing /\ listed' = {} /\ target' = NoTarget
  BY DEF PassOver, Ended, profile
<1>3. SessionsTypeOK'
  BY <1>1, <1>2 DEF SessionsTypeOK, Removing, Nothing, build
<1>4. Pending' = {} /\ doomed'.objects = {}
  BY <1>2 DEF Pending, Removing, Nothing
<1>5. Leased'
  BY <1>2, <1>4 DEF Leased, Removing
<1> QED
  BY <1>2, <1>3, <1>4, <1>5, OwnStepKeeps

(* A step of a removal touches a session that has no rustc, and if it is a *)
(* finished one there is a newer.                                          *)
LEMMA RemovalKeeps ==
    ASSUME SessionsInv, SessionsTypeOK', NEW t \in Rustcs, rustc[t] = "done",
           UNCHANGED <<began, objects, image, build, mode, doomed.objects>>,
           \A q \in Rustcs : q # t => session'[q] = session[q],
           session'[t].stage = session[t].stage \/ session'[t].stage = "none",
           \/ session'[t].stage = session[t].stage /\ session'[t].whole = session[t].whole
           \/ session[t].stage # "finalized"
           \/ \E q \in Finalized : began[t] < began[q],
           Pending' \subseteq Pending, Leased'
    PROVE  SessionsInv'
<1>1. SessionsTypeOK /\ AtWork /\ Leased /\ Outlived /\ Emptied /\ Loaded /\ Named
  BY DEF SessionsInv
<1>2. AtWork'
  BY <1>1 DEF AtWork, Compiling, build
<1>3. \A q \in Rustcs : began[q] \in Nat /\ began'[q] = began[q]
  BY <1>1, Numbers DEF SessionsTypeOK
<1>4. \A q \in Finalized : \E p \in Finalized' : began[q] <= began'[p]
  <2> SUFFICES ASSUME NEW q \in Finalized PROVE \E p \in Finalized' : began[q] <= began'[p]
    OBVIOUS
  <2>1. CASE q \in Finalized'
    BY <1>3, <2>1 DEF Finalized
  <2>2. CASE q \notin Finalized'
    <3>1. q = t /\ session'[t].stage # session[t].stage /\ session[t].stage = "finalized"
      BY <2>2 DEF Finalized
    <3>2. PICK p \in Finalized : began[t] < began[p]
      BY <3>1
    <3>3. p # t
      BY <1>3, <3>2
    <3>4. p \in Finalized'
      BY <3>3 DEF Finalized
    <3> QED BY <1>3, <3>1, <3>2, <3>4 DEF Finalized
  <2> QED BY <2>1, <2>2
<1>5. ASSUME NEW r \in Finalized', ~session'[r].whole
      PROVE  \/ r \in Finalized /\ ~session[r].whole
             \/ \E q \in Finalized : began[r] < began[q]
  <2>1. r \in Finalized
    BY <1>5 DEF Finalized
  <2> QED BY <1>5, <2>1 DEF Finalized
<1>6. Outlived' /\ Emptied' /\ Loaded'
  <2>1. \A item \in Pending' : began'[item.of] = began[item.of]
    BY <1>3
  <2>2. finished' => finished
    BY DEF build
  <2>3. \A r \in Finalized' : began'[r] = began[r]
    BY <1>3
  <2> QED BY <1>4, <1>5, <2>1, <2>2, <2>3, NewerStays
<1>7. Named'
  BY <1>1 DEF Named, Compiling, build
<1> QED
  BY <1>2, <1>6, <1>7 DEF SessionsInv

(* What is being removed: its run is over.                                 *)
LEMMA RemovedIsDone ==
    ASSUME SessionsInv, Removing
    PROVE  /\ target \in [listed : Items, lock : {"absent", "taken"}] /\ target.listed \in Pending
           /\ target.listed.of \in Rustcs /\ rustc[target.listed.of] = "done"
           /\ mode = "execute"
<1>1. SessionsTypeOK /\ Leased
  BY DEF SessionsInv
<1>2. /\ target \in [listed : Items, lock : {"absent", "taken"}] /\ mode = "execute"
      /\ ~Compiling(target.listed.of)
  BY <1>1 DEF Leased
<1>3. target.listed \in Pending /\ target.listed.of \in Rustcs
  BY <1>2 DEF Pending, Items
<1>4. rustc[target.listed.of] # "waiting"
  BY <1>1, <1>3 DEF Leased
<1> QED
  BY <1>1, <1>2, <1>3, <1>4 DEF SessionsTypeOK, Compiling

(* Letting go of a lock ends the removal.                                  *)
LEMMA LettingGoKeeps ==
    ASSUME SessionsInv, Removing, NEW sessions, LetGo(sessions),
           UNCHANGED <<began, objects, image, build, mode, scope, doomed, listed, held>>,
           UNCHANGED <<prunes, killed>>,
           DOMAIN tally' = Rules \/ UNCHANGED tally,
           sessions \in [Rustcs -> SessionStates]
               \/ sessions = session,
           \A q \in Rustcs : q # target.listed.of => sessions[q] = session[q],
           sessions[target.listed.of].stage = session[target.listed.of].stage,
           \/ sessions[target.listed.of].whole = session[target.listed.of].whole
           \/ session[target.listed.of].stage # "finalized"
           \/ \E q \in Finalized : began[target.listed.of] < began[q]
    PROVE  SessionsInv'
<1> DEFINE t == target.listed.of
<1>1. SessionsTypeOK /\ Leased
  BY DEF SessionsInv
<1>2. t \in Rustcs /\ rustc[t] = "done" /\ mode = "execute"
  BY RemovedIsDone
<1>3. /\ session' = [sessions EXCEPT ![t].holder = IF @ = "prune" THEN "nobody" ELSE @]
      /\ pruning' = "next" /\ target' = NoTarget
  BY DEF LetGo
<1>4. /\ session' \in [Rustcs -> SessionStates]
      /\ \A q \in Rustcs : q # t => session'[q] = session[q]
      /\ session'[t].stage = sessions[t].stage /\ session'[t].whole = sessions[t].whole
  BY <1>1, <1>2, <1>3 DEF SessionsTypeOK
<1>5. SessionsTypeOK'
  BY <1>1, <1>3, <1>4 DEF SessionsTypeOK, Removing, build
<1>6. Pending' \subseteq Pending
  BY <1>3 DEF Pending, Removing
<1>7. Leased'
  BY <1>1, <1>2, <1>3, <1>6 DEF Leased, Removing, build
<1> QED
  BY <1>2, <1>4, <1>5, <1>6, <1>7, RemovalKeeps

LEMMA PruneFileKeeps == ASSUME SessionsInv, NEW o \in doomed.objects, PruneFile(o) PROVE SessionsInv'
<1>1. SessionsTypeOK /\ AtWork /\ Leased /\ Outlived /\ Emptied /\ Loaded /\ Named
  BY DEF SessionsInv
<1>2. /\ UNCHANGED <<session, began, image, build, mode, scope, pruning, listed, target, held>>
      /\ UNCHANGED <<prunes, killed>>
      /\ mode = "execute" /\ pruning = "next"
      /\ doomed' = [doomed EXCEPT !.objects = @ \ {o}]
      /\ objects' \subseteq objects /\ objects \ {o} \subseteq objects'
  BY DEF PruneFile
<1>3. DOMAIN tally' = Rules
  BY <1>1 DEF PruneFile, Counted, SessionsTypeOK
<1>4. SessionsTypeOK'
  BY <1>1, <1>2, <1>3 DEF SessionsTypeOK, Removing, build
<1>5. Pending' = Pending
  BY <1>1, <1>2 DEF SessionsTypeOK, Pending, Removing
<1>6. AtWork' /\ Leased'
  BY <1>1, <1>2, <1>5 DEF AtWork, Leased, Removing, Compiling, build
<1>7. Outlived' /\ Emptied' /\ Loaded'
  BY <1>2, <1>4, <1>5, SessionsStay DEF build
<1>8. Named'
  <2> SUFFICES ASSUME ~orphaned' PROVE Named'
    BY DEF Named
  <2>1. ~orphaned /\ ~cargo
    BY <1>1, <1>2 DEF Leased, build
  <2>2. \A r \in Runs : ~Compiling(r)
    BY <1>1, <2>1 DEF Named
  <2>3. \A r \in Rustcs : rustc[r] # "finished"
    BY <1>1, <2>2 DEF AtWork, Compiling
  <2>4. \A i \in Images : /\ image[i].names \subseteq objects'
                          /\ doomed'.objects \cap image[i].names = {}
    BY <1>1, <1>2, <2>1 DEF SessionsTypeOK, Named
  <2> QED BY <1>2, <2>2, <2>3, <2>4 DEF Named, Compiling, build
<1> QED
  BY <1>4, <1>6, <1>7, <1>8 DEF SessionsInv

(* A lock that can be taken, or that is not there, is no rustc's.          *)
LEMMA TryLockKeeps == ASSUME SessionsInv, NEW item \in doomed.sessions, TryLock(item) PROVE SessionsInv'
<1> DEFINE t == item.of
<1>1. SessionsTypeOK /\ AtWork /\ Leased
  BY DEF SessionsInv
<1>2. /\ UNCHANGED <<began, objects, image, build, mode, scope, listed, tally, prunes, killed>>
      /\ mode = "execute" /\ pruning = "next" /\ ~Removing
      /\ doomed' = [doomed EXCEPT !.sessions = @ \ {item}]
  BY DEF TryLock, Removing
<1>3. item \in Items /\ item \in Pending /\ t \in Rustcs
  BY <1>1 DEF SessionsTypeOK, Pending, Items
<1>4. CASE SessionLock(t) = "held"
  <2>1. held' = held + 1 /\ UNCHANGED <<session, pruning, target>>
    BY <1>4 DEF TryLock
  <2>2. SessionsTypeOK'
    <3>1. doomed' \in [sessions : SUBSET Items, objects : SUBSET Rustcs] /\ held' \in Nat
      BY <1>1, <1>2, <2>1 DEF SessionsTypeOK
    <3> QED BY <1>1, <1>2, <2>1, <3>1 DEF SessionsTypeOK, Removing, build
  <2>3. Pending' \subseteq Pending /\ doomed'.objects = doomed.objects
    BY <1>1, <1>2, <2>1 DEF SessionsTypeOK, Pending, Removing
  <2>4. Leased'
    BY <1>1, <1>2, <2>1, <2>3 DEF Leased, Removing, Compiling, build
  <2> QED BY <1>2, <2>1, <2>2, <2>3, <2>4, OwnStepKeeps
<1>5. CASE SessionLock(t) # "held"
  <2>1. /\ SessionLock(t) \in {"absent", "taken"}
        /\ ~session[t].lock \/ session[t].holder = "nobody"
    BY <1>5 DEF SessionLock
  <2>2. ~Compiling(t) /\ rustc[t] # "waiting"
    BY <1>1, <1>3, <2>1 DEF AtWork, Leased
  <2>3. /\ pruning' = "open" /\ target' = [listed |-> item, lock |-> SessionLock(t)]
        /\ session' = session \/ session' = [session EXCEPT ![t].holder = "prune"]
        /\ UNCHANGED held
    BY <1>5 DEF TryLock
  <2>4. /\ session' \in [Rustcs -> SessionStates]
        /\ \A q \in Rustcs : q # t => session'[q] = session[q]
        /\ session'[t].stage = session[t].stage /\ session'[t].whole = session[t].whole
    BY <1>1, <1>3, <2>3 DEF SessionsTypeOK
  <2>5. SessionsTypeOK' /\ Removing'
    BY <1>1, <1>2, <1>3, <2>1, <2>3, <2>4 DEF SessionsTypeOK, Removing, build
  <2>6. Pending' \subseteq Pending /\ doomed'.objects = doomed.objects
    BY <1>1, <1>2, <1>3, <2>3 DEF SessionsTypeOK, Pending
  <2>7. Leased'
    <3>1. target' \in [listed : Items, lock : {"absent", "taken"}] /\ target'.listed.of = t
      BY <1>3, <2>1, <2>3
    <3> QED BY <1>1, <1>2, <2>2, <2>3, <2>6, <3>1 DEF Leased, Compiling, build
  <2>8. rustc[t] = "done"
    BY <1>1, <1>3, <2>2 DEF SessionsTypeOK, Compiling
  <2> QED BY <1>2, <1>3, <2>4, <2>5, <2>6, <2>7, <2>8, RemovalKeeps
<1> QED
  BY <1>4, <1>5

(* The directory is opened, if it is still of the stage that was listed.   *)
LEMMA OpenSessionKeeps == ASSUME SessionsInv, OpenSession PROVE SessionsInv'
<1> DEFINE t == target.listed.of
<1>1. SessionsTypeOK /\ Leased
  BY DEF SessionsInv
<1>2. /\ UNCHANGED <<began, objects, image, build, mode, scope, doomed, listed, tally, held>>
      /\ UNCHANGED <<prunes, killed>>
      /\ pruning = "open" /\ Removing
  BY DEF OpenSession, Removing
<1>3. /\ target \in [listed : Items, lock : {"absent", "taken"}] /\ target.listed \in Pending
      /\ t \in Rustcs /\ rustc[t] = "done" /\ mode = "execute"
  BY <1>2, RemovedIsDone
<1>4. CASE Found
  <2>1. pruning' = "clear" /\ UNCHANGED <<session, target>>
    BY <1>4 DEF OpenSession
  <2>2. SessionsTypeOK' /\ Pending' = Pending
    BY <1>1, <1>2, <2>1 DEF SessionsTypeOK, Removing, Pending, build
  <2>3. session[t].stage = target.listed.stage
    BY <1>4 DEF Found
  <2>4. Leased'
    BY <1>1, <1>2, <1>3, <2>1, <2>2, <2>3 DEF Leased, Removing, Compiling, build
  <2> QED BY <1>1, <1>2, <2>1, <2>2, <2>4, OwnStepKeeps DEF SessionsTypeOK
<1>5. CASE ~Found
  <2>1. LetGo(session)
    BY <1>5 DEF OpenSession
  <2> QED BY <1>2, <1>3, <2>1, LettingGoKeeps
<1> QED
  BY <1>4, <1>5

(* A session that loses its files, or its lock file, is one.               *)
LEMMA StillStates ==
    ASSUME NEW x \in SessionStates
    PROVE  /\ [x EXCEPT !.whole = FALSE] \in SessionStates
           /\ [x EXCEPT !.lock = FALSE] \in SessionStates
<1>1. [x EXCEPT !.whole = FALSE] \in SessionStates
  OBVIOUS
<1>2. [x EXCEPT !.lock = FALSE] \in SessionStates
  OBVIOUS
<1> QED
  BY <1>1, <1>2

LEMMA EmptiedTypes ==
    ASSUME SessionsTypeOK, NEW t \in Rustcs
    PROVE  LET emptied == [session EXCEPT ![t].whole = FALSE]
           IN  /\ emptied \in [Rustcs -> SessionStates]
               /\ \A q \in Rustcs : q # t => emptied[q] = session[q]
               /\ emptied[t].stage = session[t].stage
<1>1. session[t] \in SessionStates
  BY DEF SessionsTypeOK
<1>2. [session[t] EXCEPT !.whole = FALSE] \in SessionStates
  BY <1>1, StillStates
<1> QED
  BY <1>2 DEF SessionsTypeOK

LEMMA UnlockedTypes ==
    ASSUME SessionsTypeOK, NEW t \in Rustcs
    PROVE  LET unlinked == [session EXCEPT ![t].lock = FALSE]
           IN  /\ unlinked \in [Rustcs -> SessionStates]
               /\ \A q \in Rustcs : q # t => unlinked[q] = session[q]
               /\ unlinked[t].stage = session[t].stage /\ unlinked[t].whole = session[t].whole
<1>1. session[t] \in SessionStates
  BY DEF SessionsTypeOK
<1>2. [session[t] EXCEPT !.lock = FALSE] \in SessionStates
  BY <1>1, StillStates
<1> QED
  BY <1>2 DEF SessionsTypeOK

(* Emptying a finished session leaves a newer one.                         *)
LEMMA ClearKeeps == ASSUME SessionsInv, Clear PROVE SessionsInv'
<1> DEFINE t == target.listed.of
           emptied == [session EXCEPT ![t].whole = FALSE]
<1>1. SessionsTypeOK /\ Leased /\ Outlived
  BY DEF SessionsInv
<1>2. /\ UNCHANGED <<began, objects, image, build, mode, scope, doomed, listed, tally, held>>
      /\ UNCHANGED <<prunes, killed>>
      /\ pruning = "clear" /\ Removing
  BY DEF Clear, Removing
<1>3. /\ target \in [listed : Items, lock : {"absent", "taken"}] /\ target.listed \in Pending
      /\ t \in Rustcs /\ rustc[t] = "done" /\ mode = "execute"
  BY <1>2, RemovedIsDone
<1>4. session[t].stage # "finalized" \/ \E q \in Finalized : began[t] < began[q]
  <2>1. CASE target.listed.stage = "finalized"
    BY <1>1, <1>3, <2>1 DEF Outlived
  <2>2. CASE target.listed.stage = "working"
    BY <1>1, <1>2, <2>2 DEF Leased
  <2> QED BY <1>3, <2>1, <2>2 DEF Items
<1>5. CASE session' = emptied /\ pruning' = "rmdir" /\ UNCHANGED target
  <2>1. /\ session' \in [Rustcs -> SessionStates]
        /\ \A q \in Rustcs : q # t => session'[q] = session[q]
        /\ session'[t].stage = session[t].stage
    BY <1>1, <1>3, <1>5, EmptiedTypes
  <2>2. SessionsTypeOK' /\ Pending' = Pending
    BY <1>1, <1>2, <1>5, <2>1 DEF SessionsTypeOK, Removing, Pending, build
  <2>3. Leased'
    BY <1>1, <1>2, <1>5, <2>2 DEF Leased, Removing, Compiling, build
  <2> QED BY <1>2, <1>3, <1>4, <2>1, <2>2, <2>3, RemovalKeeps
<1>6. CASE LetGo(emptied)
  <2>1. /\ emptied \in [Rustcs -> SessionStates]
        /\ \A q \in Rustcs : q # t => emptied[q] = session[q]
        /\ emptied[t].stage = session[t].stage
    BY <1>1, <1>3, EmptiedTypes
  <2> HIDE DEF emptied
  <2> QED BY <1>2, <1>3, <1>4, <1>6, <2>1, LettingGoKeeps
<1> QED
  BY <1>5, <1>6 DEF Clear

(* Removing a finished session leaves a newer one.                         *)
LEMMA RemoveDirectoryKeeps == ASSUME SessionsInv, RemoveDirectory PROVE SessionsInv'
<1> DEFINE t == target.listed.of
<1>1. SessionsTypeOK /\ Leased /\ Outlived
  BY DEF SessionsInv
<1>2. /\ UNCHANGED <<began, objects, image, build, mode, scope, doomed, listed, tally, held>>
      /\ UNCHANGED <<prunes, killed>>
      /\ pruning = "rmdir" /\ Removing
  BY DEF RemoveDirectory, Removing
<1>3. /\ target \in [listed : Items, lock : {"absent", "taken"}] /\ target.listed \in Pending
      /\ t \in Rustcs /\ rustc[t] = "done" /\ mode = "execute"
  BY <1>2, RemovedIsDone
<1>4. CASE Found
  <2>1. session' = [session EXCEPT ![t].stage = "none"] /\ pruning' = "unlink" /\ UNCHANGED target
    BY <1>4 DEF RemoveDirectory
  <2>2. session[t].stage # "finalized" \/ \E q \in Finalized : began[t] < began[q]
    BY <1>1, <1>3, <1>4 DEF Outlived, Found
  <2>3. /\ session' \in [Rustcs -> SessionStates]
        /\ \A q \in Rustcs : q # t => session'[q] = session[q]
        /\ session'[t].stage = "none"
    BY <1>1, <1>3, <2>1 DEF SessionsTypeOK
  <2>4. SessionsTypeOK' /\ Pending' = Pending
    BY <1>1, <1>2, <2>1, <2>3 DEF SessionsTypeOK, Removing, Pending, build
  <2>5. Leased'
    BY <1>1, <1>2, <2>1, <2>4 DEF Leased, Removing, Compiling, build
  <2> QED BY <1>2, <1>3, <2>2, <2>3, <2>4, <2>5, RemovalKeeps
<1>5. CASE ~Found
  <2>1. LetGo(session)
    BY <1>5 DEF RemoveDirectory
  <2> QED BY <1>2, <1>3, <2>1, LettingGoKeeps
<1> QED
  BY <1>4, <1>5

LEMMA UnlinkLockKeeps == ASSUME SessionsInv, UnlinkLock PROVE SessionsInv'
<1> DEFINE t == target.listed.of
           unlinked == IF target.lock = "taken" THEN [session EXCEPT ![t].lock = FALSE] ELSE session
<1>1. SessionsTypeOK
  BY DEF SessionsInv
<1>2. /\ UNCHANGED <<began, objects, image, build, mode, scope, doomed, listed, held>>
      /\ UNCHANGED <<prunes, killed>>
      /\ pruning = "unlink" /\ Removing /\ DOMAIN tally' = Rules /\ LetGo(unlinked)
  BY <1>1 DEF UnlinkLock, Removing, Counted, SessionsTypeOK
<1>3. /\ target \in [listed : Items, lock : {"absent", "taken"}] /\ target.listed \in Pending
      /\ t \in Rustcs /\ rustc[t] = "done" /\ mode = "execute"
  BY <1>2, RemovedIsDone
<1>4. /\ unlinked \in [Rustcs -> SessionStates]
      /\ \A q \in Rustcs : q # t => unlinked[q] = session[q]
      /\ unlinked[t].stage = session[t].stage /\ unlinked[t].whole = session[t].whole
  <2>1. CASE target.lock = "taken"
    BY <1>1, <1>3, <2>1, UnlockedTypes
  <2>2. CASE target.lock # "taken"
    BY <1>1, <2>2 DEF SessionsTypeOK
  <2> QED BY <2>1, <2>2
<1> HIDE DEF unlinked
<1> QED
  BY <1>2, <1>3, <1>4, LettingGoKeeps

(* A prune that dies has nothing pending, and its locks are free.          *)
LEMMA PruneDiesKeeps == ASSUME SessionsInv, PruneDies PROVE SessionsInv'
<1>1. SessionsTypeOK /\ AtWork /\ Leased /\ Outlived /\ Emptied /\ Loaded /\ Named
  BY DEF SessionsInv
<1>2. /\ UNCHANGED <<began, objects, image, build, tally, held, prunes>>
      /\ mode' = "none" /\ scope' = {} /\ pruning' = "none" /\ killed' = killed + 1
      /\ doomed' = Nothing /\ listed' = {} /\ target' = NoTarget
      /\ session' = [r \in Rustcs |->
             [session[r] EXCEPT !.holder = IF @ = "prune" THEN "nobody" ELSE @]]
  BY DEF PruneDies, Ended
<1>3. /\ session' \in [Rustcs -> SessionStates]
      /\ \A r \in Rustcs : /\ session'[r].stage = session[r].stage
                           /\ session'[r].whole = session[r].whole /\ session'[r].lock = session[r].lock
                           /\ session[r].holder = "rustc" => session'[r].holder = "rustc"
  BY <1>1, <1>2 DEF SessionsTypeOK
<1>4. SessionsTypeOK'
  <2>1. Nothing \in [sessions : SUBSET Items, objects : SUBSET Rustcs] /\ killed' \in Nat
    BY <1>1, <1>2 DEF SessionsTypeOK, Nothing
  <2> QED BY <1>1, <1>2, <1>3, <2>1 DEF SessionsTypeOK, Removing, build
<1>5. Pending' = {}
  BY <1>2 DEF Pending, Removing, Nothing
<1>6. AtWork'
  BY <1>1, <1>2, <1>3 DEF AtWork, Compiling, build
<1>7. Leased'
  BY <1>2, <1>5 DEF Leased, Removing
<1>8. Outlived' /\ Emptied' /\ Loaded'
  <2>1. Finalized' = Finalized /\ \A q \in Finalized : began[q] \in Nat /\ began'[q] = began[q]
    BY <1>1, <1>2, <1>3, Numbers DEF SessionsTypeOK, Finalized
  <2>2. \A q \in Finalized : \E p \in Finalized' : began[q] <= began'[p]
    BY <2>1
  <2>3. \A q \in Finalized' : session'[q].whole = session[q].whole
    BY <1>3 DEF Finalized
  <2>4. UNCHANGED finished
    BY <1>2 DEF build
  <2> QED BY <1>4, <1>5, <2>1, <2>2, <2>3, <2>4, NewerStays
<1>9. Named'
  BY <1>1, <1>2 DEF Named, Compiling, build
<1> QED
  BY <1>4, <1>6, <1>7, <1>8, <1>9 DEF SessionsInv

-------------------------------------------------------------------------------
(* Every step keeps it.                                                    *)
LEMMA NextKeeps == ASSUME SessionsInv, [SessionsNext]_sessionVars PROVE SessionsInv'
<1>1. CASE UNCHANGED sessionVars
  <2>1. UNCHANGED <<session, began, objects, image, rustc, cargo, orphaned, finished, mode, scope,
                    pruning, doomed, listed, target, tally, held, prunes, killed>>
    BY <1>1 DEF sessionVars, profile, build, prune
  <2>2. SessionsTypeOK'
    BY <2>1 DEF SessionsInv, SessionsTypeOK, Removing
  <2>3. Pending' = Pending
    BY <2>1 DEF Pending, Removing
  <2>4. AtWork' /\ Leased'
    BY <2>1, <2>3 DEF SessionsInv, AtWork, Leased, Removing, Compiling
  <2>5. Outlived' /\ Emptied' /\ Loaded'
    BY <2>1, <2>2, <2>3, SessionsStay
  <2>6. Named'
    BY <2>1 DEF SessionsInv, Named, Compiling
  <2> QED BY <2>2, <2>4, <2>5, <2>6 DEF SessionsInv
<1>2. CASE CargoTakes \/ CargoLeaves \/ CargoDies
  BY <1>2, CargoKeeps
<1>3. ASSUME NEW r \in Runs, Begin(r) \/ FinishSession(r) \/ Link(r) \/ RustcDies(r) PROVE SessionsInv'
  BY <1>3, BeginKeeps, FinishKeeps, LinkKeeps, RustcDiesKeeps
<1>4. ASSUME NEW m \in {"dry-run", "execute"}, NEW d \in SUBSET Directories, Lease(m, d) PROVE SessionsInv'
  BY <1>4, LeaseKeeps
<1>5. CASE ListSessions \/ ListObjects \/ ReadImages \/ Suppose
  BY <1>5, ListSessionsKeeps, ListObjectsKeeps, ReadImagesKeeps, SupposeKeeps
<1>6. ASSUME NEW o \in doomed.objects, PruneFile(o) PROVE SessionsInv'
  BY <1>6, PruneFileKeeps
<1>7. ASSUME NEW item \in doomed.sessions, TryLock(item) PROVE SessionsInv'
  BY <1>7, TryLockKeeps
<1>8. CASE OpenSession \/ Clear \/ RemoveDirectory \/ UnlinkLock \/ PassOver \/ PruneDies
  BY <1>8, OpenSessionKeeps, ClearKeeps, RemoveDirectoryKeeps, UnlinkLockKeeps, PassOverKeeps,
     PruneDiesKeeps
<1> QED
  BY <1>1, <1>2, <1>3, <1>4, <1>5, <1>6, <1>7, <1>8 DEF SessionsNext

LEMMA Invariance == SessionsSpec => []SessionsInv
<1>1. SessionsInit => SessionsInv
  BY SessionsStart
<1>2. SessionsInv /\ [SessionsNext]_sessionVars => SessionsInv'
  BY NextKeeps
<1> QED
  BY <1>1, <1>2, PTL DEF SessionsSpec

-------------------------------------------------------------------------------
(* The variables of a prune and of the builds beside it keep their types,  *)
(* and what is being removed is an item with a lock that was tried.        *)
THEOREM SessionsTypeCorrect == SessionsSpec => []SessionsTypeOK
<1>1. SessionsInv => SessionsTypeOK
  BY DEF SessionsInv
<1> QED
  BY <1>1, Invariance, PTL

(* A rustc that is at work has its session whole and under its lock, also  *)
(* when its cargo is gone; and once a session has been finished, one is    *)
(* there that rustc loads, and it is whole.                                *)
THEOREM LoadedSessionsSurvive == SessionsSpec => []SessionsSurvive
<1>1. SessionsInv => SessionsSurvive
  <2> SUFFICES ASSUME SessionsInv PROVE SessionsSurvive
    OBVIOUS
  <2>1. SessionsTypeOK /\ AtWork /\ Emptied /\ Loaded
    BY DEF SessionsInv
  <2>2. \A r \in Runs : Compiling(r) => /\ session[r].whole /\ session[r].lock
                                         /\ session[r].holder = "rustc"
    BY <2>1 DEF AtWork, Rustcs
  <2>3. ASSUME NEW r \in Newest PROVE session[r].whole
    <3>1. \A q \in Finalized : began[q] \in Nat /\ began[q] <= began[r] /\ began[r] \in Nat
      BY <2>1, Numbers DEF SessionsTypeOK, Newest, Finalized
    <3>2. \A q \in Finalized : ~(began[r] < began[q])
      BY <3>1
    <3> QED BY <2>1, <3>2 DEF Emptied, Newest
  <2> QED BY <2>1, <2>2, <2>3 DEF SessionsSurvive, Loaded
<1> QED
  BY <1>1, Invariance, PTL

(* Every object that an image names is there, as long as no rustc outlived *)
(* its cargo.                                                              *)
THEOREM NamedObjectsStay == SessionsSpec => []ImagesKeepTheirObjects
<1>1. SessionsInv => ImagesKeepTheirObjects
  BY DEF SessionsInv, Named, ImagesKeepTheirObjects
<1> QED
  BY <1>1, Invariance, PTL

-------------------------------------------------------------------------------
(* The release of a checkout.                                              *)

(* Whoever is being answered waits for this monitor's answer.              *)
Served ==
    monitor \in {"drained", "checking", "answering"} => ask.at = "waiting" /\ ask.endpoint = generation

(* The way to a release: every file is covered before it is recorded, if   *)
(* the directory has not strayed, and what is no release yet has not been  *)
(* written to as one.                                                      *)
Prepared ==
    /\ monitor \in {"bound", "begun", "first", "covered", "second", "recording"} => phase = "preparing"
    /\ (monitor \in {"first", "covered", "second", "recording"} \/ phase = "released") =>
         "top" \in covered
    /\ ((monitor \in {"covered", "second", "recording"} \/ phase = "released") /\ ~strayed) =>
         covered = TreeFiles
    /\ phase = "preparing" => ~told
    /\ monitor = "closing" => phase = "revoked"

(* A write since the release is an event to come, or has revoked it.       *)
Noticed ==
    /\ told /\ phase = "released" => pending > 0
    /\ ask.toldTo <= generation
    /\ ask.told /\ ask.toldTo = generation => told
    /\ ask.told /\ ask.toldTo = generation /\ monitor \in {"checking", "answering"} =>
         phase # "released"

(* A directory that is or was read to be gone has strayed; what has been   *)
(* read for an answer is what the files hold, if nobody has written since  *)
(* the question.                                                           *)
Read ==
    /\ away => strayed
    /\ \A i \in 1..Len(reading) : reading[i] = Gone => strayed
    /\ Len(reading) <= 2
    /\ monitor \in {"recording", "serving", "drained"} => reading = <<>>
    /\ monitor = "answering" => Len(reading) = 2
    /\ monitor \in {"checking", "answering"} /\ ask.quiet =>
         \A i \in 1..Len(reading) : reading[i] = Shows(FileOrder[i])

(* An answer was given for a tree that had not been written to.            *)
Answered ==
    /\ ask.at # "done" => ask.outcome = "unknown"
    /\ ask.at \in {"again", "writers"} \/ ask.outcome = "released" =>
         /\ ~(ask.told /\ ask.toldTo = ask.endpoint)
         /\ ask.quiet => \A i \in 1..2 : ask.reply[i] = Shows(FileOrder[i])
    /\ ask.outcome = "released" => ask.record = ask.reply

ReleaseInv == ReleaseTypeOK /\ Served /\ Prepared /\ Noticed /\ Read /\ Answered

-------------------------------------------------------------------------------
(* Two files, two bytes: what a reading is made of.                        *)
LEMMA Facts ==
    /\ Len(FileOrder) = 2 /\ DOMAIN FileOrder = 1..2
    /\ FileOrder[1] = "top" /\ FileOrder[2] = "deep"
    /\ <<>> \in Readings
  BY DEF FileOrder, Readings

(* It holds before any monitor.                                            *)
LEMMA ReleaseStart == ReleaseInit => ReleaseInv
<1> SUFFICES ASSUME ReleaseInit PROVE ReleaseInv
  OBVIOUS
<1>1. ReleaseTypeOK
  BY Facts DEF ReleaseInit, ReleaseTypeOK, Questions, NoAsk, TreeFiles
<1>2. Served /\ Prepared /\ Noticed /\ Read /\ Answered
  BY DEF ReleaseInit, Served, Prepared, Noticed, Read, Answered, NoAsk
<1> QED
  BY <1>1, <1>2 DEF ReleaseInv

(* An event that is told changes the phase, the files and the wake at most. *)
LEMMA ToldTypes ==
    ASSUME ReleaseTypeOK, NEW n \in Nat, Told(n)
    PROVE  /\ phase' \in {"preparing", "released", "revoked"} /\ woken' \in BOOLEAN
           /\ recordFile' \in Readings /\ endpointFile' \in Nat
<1>1. CASE n > 0 /\ phase = "released"
  BY <1>1, Facts DEF Told, Revoked, Invalidated
<1>2. CASE ~(n > 0 /\ phase = "released")
  <2>1. UNCHANGED <<phase, recordFile, endpointFile, woken>>
    BY <1>2 DEF Told, store
  <2> QED BY <2>1 DEF ReleaseTypeOK
<1> QED
  BY <1>1, <1>2

(* A step of users is seen, or nothing was released, or it need not be.    *)
LEMMA Disturbed ==
    ASSUME ReleaseInv, ReleaseTypeOK', NEW needed \in BOOLEAN,
           UNCHANGED <<producer, covered, woken, lease, store, asks>>,
           ask' = [ask EXCEPT !.quiet = FALSE],
           pending' >= pending, away' => strayed', strayed => strayed',
           told' <=> told \/ (phase = "released" /\ needed),
           phase = "released" /\ needed => pending' > 0
    PROVE  ReleaseInv'
<1>1. ReleaseTypeOK /\ Served /\ Prepared /\ Noticed /\ Read /\ Answered
  BY DEF ReleaseInv
<1>2. UNCHANGED <<monitor, generation, phase, reading, covered>>
  BY DEF lease
<1>3. /\ ask'.at = ask.at /\ ask'.endpoint = ask.endpoint /\ ask'.told = ask.told
      /\ ask'.toldTo = ask.toldTo /\ ask'.outcome = ask.outcome /\ ask'.quiet = FALSE
      /\ ask'.record = ask.record /\ ask'.reply = ask.reply
  BY <1>1 DEF ReleaseTypeOK, Questions
<1>4. Served' /\ Answered'
  BY <1>1, <1>2, <1>3 DEF Served, Answered
<1>5. Read'
  BY <1>1, <1>2, <1>3 DEF Read
<1>6. Prepared'
  <2>1. phase = "preparing" => ~told'
    BY <1>1 DEF Prepared
  <2> QED BY <1>1, <1>2, <2>1 DEF Prepared
<1>7. Noticed'
  <2>1. ASSUME told', phase = "released" PROVE pending' > 0
    <3>1. CASE told
      <4>1. pending > 0 /\ pending \in Nat /\ pending' \in Nat
        BY <1>1, <2>1, <3>1 DEF Noticed, ReleaseTypeOK
      <4> QED BY <4>1
    <3>2. CASE ~told
      BY <2>1, <3>2
    <3> QED BY <3>1, <3>2
  <2> QED BY <1>1, <1>2, <1>3, <2>1 DEF Noticed
<1> QED
  BY <1>4, <1>5, <1>6, <1>7 DEF ReleaseInv

(* A write is seen, or nothing was released, or it went through a mapping, *)
(* or into a directory that has strayed.                                   *)
LEMMA WriteFileKeeps ==
    ASSUME ReleaseInv, NEW f \in TreeFiles, NEW mapped \in BOOLEAN, WriteFile(f, mapped)
    PROVE  ReleaseInv'
<1> DEFINE needed == ~mapped /\ (f = "deep" => ~strayed)
<1>1. ReleaseTypeOK /\ Served /\ Prepared /\ Noticed /\ Read /\ Answered
  BY DEF ReleaseInv
<1>2. UNCHANGED <<away, producer, covered, woken, lease, store, strayed, asks>>
  BY DEF WriteFile
<1>3. ask' = [ask EXCEPT !.quiet = FALSE] /\ ask' \in Questions
  BY <1>1 DEF ReleaseTypeOK, WriteFile, Questions
<1>4. ReleaseTypeOK'
  <2>1. content' \in [TreeFiles -> {0, 1}] /\ pending' \in Nat /\ written' \in Nat
    BY <1>1 DEF ReleaseTypeOK, WriteFile
  <2>2. told' \in BOOLEAN
    BY DEF WriteFile
  <2> QED BY <1>1, <1>2, <1>3, <2>1, <2>2 DEF ReleaseTypeOK, lease, store
<1>5. pending' >= pending
  BY <1>1 DEF ReleaseTypeOK, WriteFile
<1>6. told' <=> told \/ (phase = "released" /\ needed)
  <2>1. told' = (told \/ (phase = "released" /\ ~mapped /\ (f = "deep" => ~strayed)))
    BY DEF WriteFile
  <2> QED BY <2>1
<1>7. phase = "released" /\ needed => pending' > 0
  <2> SUFFICES ASSUME phase = "released", needed PROVE pending' > 0
    OBVIOUS
  <2>1. f \in covered
    BY <1>1 DEF Prepared, TreeFiles
  <2> QED BY <1>1, <2>1 DEF ReleaseTypeOK, WriteFile
<1>8. (away' => strayed') /\ (strayed => strayed')
  BY <1>1, <1>2 DEF Read
<1>9. needed \in BOOLEAN
  OBVIOUS
<1> HIDE DEF needed
<1> QED
  BY <1>2, <1>3, <1>4, <1>5, <1>6, <1>7, <1>8, <1>9, Disturbed

(* The root is watched as soon as anything is released, so that a directory *)
(* that is moved away or back is seen.                                     *)
LEMMA MoveKeeps ==
    ASSUME ReleaseInv, MoveAway \/ MoveBack
    PROVE  ReleaseInv'
<1>1. ReleaseTypeOK /\ Served /\ Prepared /\ Noticed /\ Read /\ Answered
  BY DEF ReleaseInv
<1>2. UNCHANGED <<producer, covered, woken, lease, store, asks>>
  BY DEF MoveAway, MoveBack, MoveDirectory
<1>3. ask' = [ask EXCEPT !.quiet = FALSE] /\ ask' \in Questions
  BY <1>1 DEF ReleaseTypeOK, MoveAway, MoveBack, MoveDirectory, Questions
<1>4. ReleaseTypeOK'
  <2>1. content' \in [TreeFiles -> {0, 1}] /\ strayed' \in BOOLEAN
    BY <1>1 DEF ReleaseTypeOK, MoveAway, MoveBack
  <2>2. pending' \in Nat /\ written' \in Nat
    BY <1>1 DEF ReleaseTypeOK, MoveAway, MoveBack, MoveDirectory
  <2>3. told' \in BOOLEAN /\ away' \in BOOLEAN
    BY DEF MoveAway, MoveBack, MoveDirectory
  <2> QED BY <1>1, <1>2, <1>3, <2>1, <2>2, <2>3 DEF ReleaseTypeOK, lease, store
<1>5. pending' >= pending
  BY <1>1 DEF ReleaseTypeOK, MoveAway, MoveBack, MoveDirectory
<1>6. told' <=> told \/ (phase = "released" /\ TRUE)
  <2>1. told' = (told \/ phase = "released")
    BY DEF MoveAway, MoveBack, MoveDirectory
  <2> QED BY <2>1
<1>7. phase = "released" /\ TRUE => pending' > 0
  <2>1. phase = "released" => "top" \in covered
    BY <1>1 DEF Prepared
  <2> QED BY <1>1, <2>1 DEF ReleaseTypeOK, MoveAway, MoveBack, MoveDirectory
<1>8. (away' => strayed') /\ (strayed => strayed')
  <2>1. CASE MoveAway
    BY <2>1 DEF MoveAway
  <2>2. CASE MoveBack
    <3>1. away' = ~away /\ away /\ strayed' = strayed
      BY <2>2 DEF MoveBack, MoveDirectory
    <3> QED BY <3>1
  <2> QED BY <2>1, <2>2
<1> QED
  BY <1>2, <1>3, <1>4, <1>5, <1>6, <1>7, <1>8, Disturbed

(* From here on one lemma for each step: first its types, then the rest.   *)
LEMMA ProduceKeeps == ASSUME ReleaseInv, Produce PROVE ReleaseInv'
<1>1. ReleaseTypeOK /\ Served /\ Prepared /\ Noticed /\ Read /\ Answered
  BY DEF ReleaseInv
<1>2. ReleaseTypeOK'
  BY <1>1, Facts DEF ReleaseTypeOK, Produce, checkout, events, lease, store, past
<1>3. Served' /\ Prepared' /\ Noticed'
  BY <1>1, Facts DEF ReleaseTypeOK, Questions, Served, Prepared, Noticed,
     Produce, checkout, events, lease, store, past
<1>4. Read' /\ Answered'
  BY <1>1, Facts DEF ReleaseTypeOK, Questions, Read, Answered, Shows,
     Produce, checkout, events, lease, store, past
<1> QED
  BY <1>2, <1>3, <1>4 DEF ReleaseInv

LEMMA BindKeeps == ASSUME ReleaseInv, Bind PROVE ReleaseInv'
<1>1. ReleaseTypeOK /\ Served /\ Prepared /\ Noticed /\ Read /\ Answered
  BY DEF ReleaseInv
<1>2. ReleaseTypeOK'
  <2>1. generation' \in Nat /\ pending' \in Nat /\ covered' \subseteq TreeFiles
    BY <1>1, Facts DEF ReleaseTypeOK, Bind, store
  <2>2. woken' \in BOOLEAN /\ told' \in BOOLEAN
    BY <1>1, Facts DEF ReleaseTypeOK, Bind, store
  <2>3. reading' \in Readings /\ before' \in Readings /\ recorded' \in Readings
    BY <1>1, Facts DEF ReleaseTypeOK, Bind, store
  <2> QED BY <1>1, Facts, <2>1, <2>2, <2>3 DEF ReleaseTypeOK, Bind, Invalidated, checkout, events,
             lease, store, past
<1>3. Served' /\ Prepared' /\ Noticed'
  BY <1>1, Facts DEF ReleaseTypeOK, Questions, Served, Prepared, Noticed,
     Bind, Invalidated, checkout, events, lease, store, past
<1>4. Read' /\ Answered'
  BY <1>1, Facts DEF ReleaseTypeOK, Questions, Read, Answered, Shows,
     Bind, Invalidated, checkout, events, lease, store, past
<1> QED
  BY <1>2, <1>3, <1>4 DEF ReleaseInv

LEMMA BeginRecordKeeps == ASSUME ReleaseInv, BeginRecord PROVE ReleaseInv'
<1>1. ReleaseTypeOK /\ Served /\ Prepared /\ Noticed /\ Read /\ Answered
  BY DEF ReleaseInv
<1>2. ReleaseTypeOK'
  BY <1>1, Facts DEF ReleaseTypeOK, BeginRecord, Invalidated, checkout, events, lease, store, past
<1>3. Served' /\ Prepared' /\ Noticed'
  BY <1>1, Facts DEF ReleaseTypeOK, Questions, Served, Prepared, Noticed,
     BeginRecord, Invalidated, checkout, events, lease, store, past
<1>4. Read' /\ Answered'
  BY <1>1, Facts DEF ReleaseTypeOK, Questions, Read, Answered, Shows,
     BeginRecord, Invalidated, checkout, events, lease, store, past
<1> QED
  BY <1>2, <1>3, <1>4 DEF ReleaseInv

LEMMA StartWatchingKeeps == ASSUME ReleaseInv, StartWatching PROVE ReleaseInv'
<1>1. ReleaseTypeOK /\ Served /\ Prepared /\ Noticed /\ Read /\ Answered
  BY DEF ReleaseInv
<1>2. ReleaseTypeOK'
  <2>1. covered' \subseteq TreeFiles
    BY <1>1, Facts DEF ReleaseTypeOK, StartWatching, TreeFiles
  <2> QED BY <1>1, Facts, <2>1 DEF ReleaseTypeOK, StartWatching, checkout, events, lease, store, past
<1>3. /\ monitor = "begun" /\ monitor' = "first" /\ "top" \in covered'
      /\ UNCHANGED <<pending, generation, phase, told, strayed, ask>>
  BY DEF StartWatching, TreeFiles, events, past
<1>5. Served' /\ Prepared' /\ Noticed'
  BY <1>1, <1>3 DEF Served, Prepared, Noticed
<1>4. Read' /\ Answered'
  BY <1>1, Facts DEF ReleaseTypeOK, Questions, Read, Answered, Shows,
     StartWatching, checkout, events, lease, store, past
<1> QED
  BY <1>2, <1>4, <1>5 DEF ReleaseInv

LEMMA SnapshotKeeps == ASSUME ReleaseInv, Snapshot PROVE ReleaseInv'
<1>1. ReleaseTypeOK /\ Served /\ Prepared /\ Noticed /\ Read /\ Answered
  BY DEF ReleaseInv
<1>2. /\ UNCHANGED <<content, away, covered, pending, generation, phase, told, strayed, ask>>
      /\ UNCHANGED <<producer, woken, before, recorded, free, store, written, asks>>
      /\ monitor \in {"first", "second", "checking"}
  BY DEF Snapshot, checkout, events, past
<1>3. content["top"] \in {0, 1} /\ content["deep"] \in {0, 1}
  BY <1>1 DEF ReleaseTypeOK, TreeFiles
<1>4. CASE ListRoot
  <2>1. /\ UNCHANGED monitor
        /\ \/ away /\ reading' = <<content["top"], Gone>>
           \/ ~away /\ reading' = <<content["top"]>>
    BY <1>4 DEF ListRoot
  <2>2. reading' \in Readings /\ Len(reading') \in {1, 2}
    <3>1. CASE reading' = <<content["top"], Gone>>
      BY <1>3, <3>1 DEF Readings, Gone
    <3>2. CASE reading' = <<content["top"]>>
      BY <1>3, <3>2 DEF Readings, Gone
    <3> QED BY <2>1, <3>1, <3>2
  <2>3. ReleaseTypeOK'
    BY <1>1, <1>2, <2>1, <2>2 DEF ReleaseTypeOK, store
  <2>4. \A i \in 1..Len(reading') : reading'[i] = Shows(FileOrder[i])
    BY <1>3, <2>1, Facts DEF Shows
  <2>5. \A i \in 1..Len(reading') : reading'[i] = Gone => strayed
    BY <1>1, <1>3, <2>1 DEF Read, Gone
  <2>6. Read'
    BY <1>1, <1>2, <2>1, <2>2, <2>4, <2>5 DEF Read, Shows
  <2> QED BY <1>1, <1>2, <2>1, <2>3, <2>6 DEF ReleaseInv, Served, Prepared, Noticed, Answered, Shows
<1>5. CASE ListDirectory /\ away
  <2>1. monitor' = "ending" /\ UNCHANGED reading
    BY <1>5 DEF ListDirectory, Ends
  <2>2. ReleaseTypeOK'
    BY <1>1, <1>2, <2>1 DEF ReleaseTypeOK, store
  <2> QED BY <1>1, <1>2, <2>1, <2>2 DEF ReleaseInv, Served, Prepared, Noticed, Read, Answered, Shows
<1>6. CASE ListDirectory /\ ~away
  <2>1. Len(reading) = 1 /\ reading' = Append(reading, content["deep"]) /\ UNCHANGED monitor
    BY <1>6 DEF ListDirectory
  <2>2. /\ reading' \in Readings /\ Len(reading') = 2
        /\ reading'[1] = reading[1] /\ reading'[2] = content["deep"]
    <3>1. reading \in Seq({0, 1, 2}) /\ content["deep"] \in {0, 1, 2}
      BY <1>1, <1>3 DEF ReleaseTypeOK, Readings, Gone
    <3>2. reading' \in Seq({0, 1, 2}) /\ Len(reading') = Len(reading) + 1
      <4>1. Append(reading, content["deep"]) \in Seq({0, 1, 2})
        BY <3>1
      <4>2. Len(Append(reading, content["deep"])) = Len(reading) + 1
        BY <3>1
      <4> QED BY <2>1, <4>1, <4>2
    <3>3. reading'[1] = reading[1] /\ reading'[2] = content["deep"]
      BY <2>1, <3>1
    <3> QED BY <2>1, <3>2, <3>3 DEF Readings, Gone
  <2>3. ReleaseTypeOK'
    BY <1>1, <1>2, <2>1, <2>2 DEF ReleaseTypeOK, store
  <2>4. monitor = "checking" /\ ask.quiet => \A i \in 1..2 : reading'[i] = Shows(FileOrder[i])
    <3>1. content["deep"] = Shows("deep")
      BY <1>6 DEF Shows
    <3>2. monitor = "checking" /\ ask.quiet => reading[1] = Shows(FileOrder[1])
      BY <1>1, <2>1 DEF Read
    <3> QED BY <2>2, <3>1, <3>2, Facts
  <2>5. \A i \in 1..2 : reading'[i] = Gone => strayed
    <3>1. reading[1] = Gone => strayed
      BY <1>1, <2>1 DEF Read
    <3>2. content["deep"] # Gone
      BY <1>3 DEF Gone
    <3> QED BY <2>2, <3>1, <3>2
  <2>6. Read'
    BY <1>1, <1>2, <2>1, <2>2, <2>4, <2>5 DEF Read, Shows
  <2> QED BY <1>1, <1>2, <2>1, <2>3, <2>6 DEF ReleaseInv, Served, Prepared, Noticed, Answered, Shows
<1> QED
  BY <1>4, <1>5, <1>6 DEF Snapshot

LEMMA WatchAllKeeps == ASSUME ReleaseInv, WatchAll PROVE ReleaseInv'
<1>1. ReleaseTypeOK /\ Served /\ Prepared /\ Noticed /\ Read /\ Answered
  BY DEF ReleaseInv
<1>2. ReleaseTypeOK'
  BY <1>1, Facts DEF ReleaseTypeOK, WatchAll, Ends, checkout, events, lease, store, past
<1>3. /\ monitor = "first" /\ monitor' \in {"covered", "ending"} /\ Len(reading) = 2
      /\ UNCHANGED <<pending, generation, phase, told, strayed, away, ask>>
  BY Facts DEF WatchAll, Ends, checkout, past
<1>5. "top" \in covered' /\ (monitor' = "covered" /\ ~strayed => covered' = TreeFiles)
  <2>1. "top" \in covered /\ "top" \in TreeFiles
    BY <1>1, <1>3 DEF Prepared, TreeFiles
  <2>2. ~strayed => ~away /\ reading[2] # Gone
    BY <1>1, <1>3 DEF Read
  <2>3. CASE monitor' = "covered"
    <3>1. covered' = IF away \/ reading[2] = Gone THEN covered ELSE TreeFiles
      BY <2>3 DEF WatchAll, Ends
    <3> QED BY <2>1, <2>2, <3>1
  <2>4. CASE monitor' = "ending"
    <3>1. UNCHANGED covered
      BY <2>4 DEF WatchAll, Ends
    <3> QED BY <2>1, <2>4, <3>1
  <2> QED BY <1>3, <2>3, <2>4
<1>6. Served' /\ Prepared' /\ Noticed'
  BY <1>1, <1>3, <1>5 DEF Served, Prepared, Noticed
<1>4. Read' /\ Answered'
  BY <1>1, Facts DEF ReleaseTypeOK, Questions, Read, Answered, Shows,
     WatchAll, Ends, checkout, events, lease, store, past
<1> QED
  BY <1>2, <1>4, <1>6 DEF ReleaseInv

LEMMA BarrierKeeps == ASSUME ReleaseInv, Barrier PROVE ReleaseInv'
<1>1. ReleaseTypeOK /\ Served /\ Prepared /\ Noticed /\ Read /\ Answered
  BY DEF ReleaseInv
<1>2. ReleaseTypeOK'
  <2>1. pending' \in Nat
    BY <1>1, Facts DEF ReleaseTypeOK, Barrier
  <2>2. /\ phase' \in {"preparing", "released", "revoked"} /\ woken' \in BOOLEAN
        /\ recordFile' \in Readings /\ endpointFile' \in Nat
    <3>1. pending \in Nat /\ Told(pending)
      BY <1>1 DEF ReleaseTypeOK, Barrier
    <3> QED BY <1>1, <3>1, ToldTypes
  <2> QED BY <1>1, <2>1, <2>2 DEF ReleaseTypeOK, Barrier, checkout, lease, past
<1>3. Served' /\ Prepared' /\ Noticed'
  BY <1>1, Facts DEF ReleaseTypeOK, Questions, Served, Prepared, Noticed,
     Barrier, Told, Revoked, Invalidated, checkout, events, lease, store, past
<1>4. Read' /\ Answered'
  BY <1>1, Facts DEF ReleaseTypeOK, Questions, Read, Answered, Shows,
     Barrier, Told, Revoked, Invalidated, checkout, events, lease, store, past
<1> QED
  BY <1>2, <1>3, <1>4 DEF ReleaseInv

LEMMA CompareReadingsKeeps == ASSUME ReleaseInv, CompareReadings PROVE ReleaseInv'
<1>1. ReleaseTypeOK /\ Served /\ Prepared /\ Noticed /\ Read /\ Answered
  BY DEF ReleaseInv
<1>2. ReleaseTypeOK'
  BY <1>1, Facts DEF ReleaseTypeOK, CompareReadings, Ends, checkout, events, lease, store, past
<1>3. Served' /\ Prepared' /\ Noticed'
  BY <1>1, Facts DEF ReleaseTypeOK, Questions, Served, Prepared, Noticed,
     CompareReadings, Ends, checkout, events, lease, store, past
<1>4. Read' /\ Answered'
  BY <1>1, Facts DEF ReleaseTypeOK, Questions, Read, Answered, Shows,
     CompareReadings, Ends, checkout, events, lease, store, past
<1> QED
  BY <1>2, <1>3, <1>4 DEF ReleaseInv

LEMMA RecordKeeps == ASSUME ReleaseInv, Record PROVE ReleaseInv'
<1>1. ReleaseTypeOK /\ Served /\ Prepared /\ Noticed /\ Read /\ Answered
  BY DEF ReleaseInv
<1>2. ReleaseTypeOK'
  BY <1>1, Facts DEF ReleaseTypeOK, Record, checkout, events, lease, store, past
<1>3. Served' /\ Prepared' /\ Noticed'
  BY <1>1, Facts DEF ReleaseTypeOK, Questions, Served, Prepared, Noticed,
     Record, checkout, events, lease, store, past
<1>4. Read' /\ Answered'
  BY <1>1, Facts DEF ReleaseTypeOK, Questions, Read, Answered, Shows,
     Record, checkout, events, lease, store, past
<1> QED
  BY <1>2, <1>3, <1>4 DEF ReleaseInv

LEMMA DeliverKeeps == ASSUME ReleaseInv, Deliver PROVE ReleaseInv'
<1>1. ReleaseTypeOK /\ Served /\ Prepared /\ Noticed /\ Read /\ Answered
  BY DEF ReleaseInv
<1>2. ReleaseTypeOK'
  <2>1. pending' \in Nat
    BY <1>1, Facts DEF ReleaseTypeOK, Deliver
  <2>2. /\ phase' \in {"preparing", "released", "revoked"} /\ woken' \in BOOLEAN
        /\ recordFile' \in Readings /\ endpointFile' \in Nat
    <3>1. pending \in Nat /\ Told(pending)
      BY <1>1 DEF ReleaseTypeOK, Deliver
    <3> QED BY <1>1, <3>1, ToldTypes
  <2> QED BY <1>1, <2>1, <2>2 DEF ReleaseTypeOK, Deliver, checkout, lease, past
<1>3. Served' /\ Prepared' /\ Noticed'
  BY <1>1, Facts DEF ReleaseTypeOK, Questions, Served, Prepared, Noticed,
     Deliver, MutexFree, Told, Revoked, Invalidated, checkout, events, lease, store, past
<1>4. Read' /\ Answered'
  BY <1>1, Facts DEF ReleaseTypeOK, Questions, Read, Answered, Shows,
     Deliver, MutexFree, Told, Revoked, Invalidated, checkout, events, lease, store, past
<1> QED
  BY <1>2, <1>3, <1>4 DEF ReleaseInv

LEMMA DroppedKeeps == ASSUME ReleaseInv, Dropped PROVE ReleaseInv'
<1>1. ReleaseTypeOK /\ Served /\ Prepared /\ Noticed /\ Read /\ Answered
  BY DEF ReleaseInv
<1>2. ReleaseTypeOK'
  BY <1>1, Facts DEF ReleaseTypeOK, Dropped, Revoked, Invalidated, checkout, events, lease, store, past
<1>3. Served' /\ Prepared' /\ Noticed'
  BY <1>1, Facts DEF ReleaseTypeOK, Questions, Served, Prepared, Noticed,
     Dropped, Revoked, Invalidated, checkout, events, lease, store, past
<1>4. Read' /\ Answered'
  BY <1>1, Facts DEF ReleaseTypeOK, Questions, Read, Answered, Shows,
     Dropped, Revoked, Invalidated, checkout, events, lease, store, past
<1> QED
  BY <1>2, <1>3, <1>4 DEF ReleaseInv

LEMMA StopKeeps == ASSUME ReleaseInv, Stop PROVE ReleaseInv'
<1>1. ReleaseTypeOK /\ Served /\ Prepared /\ Noticed /\ Read /\ Answered
  BY DEF ReleaseInv
<1>2. ReleaseTypeOK'
  BY <1>1, Facts DEF ReleaseTypeOK, Stop, Ends, checkout, events, lease, store, past
<1>3. Served' /\ Prepared' /\ Noticed'
  BY <1>1, Facts DEF ReleaseTypeOK, Questions, Served, Prepared, Noticed,
     Stop, Ends, checkout, events, lease, store, past
<1>4. Read' /\ Answered'
  BY <1>1, Facts DEF ReleaseTypeOK, Questions, Read, Answered, Shows,
     Stop, Ends, checkout, events, lease, store, past
<1> QED
  BY <1>2, <1>3, <1>4 DEF ReleaseInv

LEMMA AcceptKeeps == ASSUME ReleaseInv, Accept PROVE ReleaseInv'
<1>1. ReleaseTypeOK /\ Served /\ Prepared /\ Noticed /\ Read /\ Answered
  BY DEF ReleaseInv
<1>2. ReleaseTypeOK'
  BY <1>1, Facts DEF ReleaseTypeOK, Accept, Ends, StillReleased, checkout, events, lease, store, past
<1>3. Served' /\ Prepared' /\ Noticed'
  BY <1>1, Facts DEF ReleaseTypeOK, Questions, Served, Prepared, Noticed,
     Accept, Ends, StillReleased, checkout, events, lease, store, past
<1>4. Read' /\ Answered'
  BY <1>1, Facts DEF ReleaseTypeOK, Questions, Read, Answered, Shows,
     Accept, Ends, StillReleased, checkout, events, lease, store, past
<1> QED
  BY <1>2, <1>3, <1>4 DEF ReleaseInv

LEMMA DrainKeeps == ASSUME ReleaseInv, Drain PROVE ReleaseInv'
<1>1. ReleaseTypeOK /\ Served /\ Prepared /\ Noticed /\ Read /\ Answered
  BY DEF ReleaseInv
<1>2. ReleaseTypeOK'
  <2>1. pending' \in Nat
    BY <1>1, Facts DEF ReleaseTypeOK, Drain
  <2>2. /\ phase' \in {"preparing", "released", "revoked"} /\ woken' \in BOOLEAN
        /\ recordFile' \in Readings /\ endpointFile' \in Nat
    <3>1. pending \in Nat /\ Told(pending)
      BY <1>1 DEF ReleaseTypeOK, Drain
    <3> QED BY <1>1, <3>1, ToldTypes
  <2> QED BY <1>1, <2>1, <2>2 DEF ReleaseTypeOK, Drain, checkout, lease, past
<1>3. Served' /\ Prepared' /\ Noticed'
  BY <1>1, Facts DEF ReleaseTypeOK, Questions, Served, Prepared, Noticed,
     Drain, Told, Revoked, Invalidated, checkout, events, lease, store, past
<1>4. Read' /\ Answered'
  BY <1>1, Facts DEF ReleaseTypeOK, Questions, Read, Answered, Shows,
     Drain, Told, Revoked, Invalidated, checkout, events, lease, store, past
<1> QED
  BY <1>2, <1>3, <1>4 DEF ReleaseInv

LEMMA ProbeWritersKeeps == ASSUME ReleaseInv, ProbeWriters PROVE ReleaseInv'
<1>1. ReleaseTypeOK /\ Served /\ Prepared /\ Noticed /\ Read /\ Answered
  BY DEF ReleaseInv
<1>2. ReleaseTypeOK'
  BY <1>1, Facts DEF ReleaseTypeOK, ProbeWriters, checkout, events, lease, store, past
<1>3. Served' /\ Prepared' /\ Noticed'
  BY <1>1, Facts DEF ReleaseTypeOK, Questions, Served, Prepared, Noticed,
     ProbeWriters, checkout, events, lease, store, past
<1>4. Read' /\ Answered'
  BY <1>1, Facts DEF ReleaseTypeOK, Questions, Read, Answered, Shows,
     ProbeWriters, checkout, events, lease, store, past
<1> QED
  BY <1>2, <1>3, <1>4 DEF ReleaseInv

(* The answer repeats what was read since the question.                    *)
LEMMA AnswerKeeps == ASSUME ReleaseInv, Answer PROVE ReleaseInv'
<1>1. ReleaseTypeOK /\ Served /\ Prepared /\ Noticed /\ Read /\ Answered
  BY DEF ReleaseInv
<1>2. ReleaseTypeOK'
  <2>1. phase' \in {"preparing", "released", "revoked"} /\ recordFile' \in Readings
      /\ endpointFile' \in Nat /\ monitor' \in {"serving", "ending"}
    BY <1>1, Facts DEF ReleaseTypeOK, Answer, Revoked, Invalidated, Ends, store
  <2>2. reading' \in Readings
    BY <1>1, Facts DEF ReleaseTypeOK, Answer, Revoked, Invalidated, Ends, store
  <2>3. ask' \in Questions
    BY <1>1, Facts DEF ReleaseTypeOK, Answer, Revoked, Invalidated, Ends, store, Questions
  <2> QED BY <1>1, Facts, <2>1, <2>2, <2>3 DEF ReleaseTypeOK, Answer, Ends, Revoked, Invalidated,
             checkout, events, lease, store, past
<1>3. /\ monitor = "answering" /\ ask.at = "waiting" /\ ask.endpoint = generation
      /\ Len(reading) = 2 /\ ask.outcome = "unknown" /\ reading' = <<>>
      /\ UNCHANGED <<content, away, strayed, told, generation, covered, pending, recorded>>
  BY <1>1 DEF Answer, Served, Read, Answered, checkout, events, past
<1>4. CASE phase # "released" \/ recorded # reading
  <2>1. monitor' = "ending" /\ phase' \in {phase, "revoked"} /\ UNCHANGED ask
    BY <1>4 DEF Answer, Ends, Revoked
  <2>2. Served' /\ Prepared' /\ Noticed'
    BY <1>1, <1>2, <1>3, <2>1 DEF ReleaseTypeOK, Served, Prepared, Noticed
  <2>3. Read' /\ Answered'
    BY <1>1, <1>2, <1>3, <2>1 DEF ReleaseTypeOK, Read, Answered, Shows
  <2> QED BY <1>2, <2>2, <2>3 DEF ReleaseInv
<1>5. CASE phase = "released" /\ recorded = reading
  <2>1. /\ monitor' = "serving" /\ phase' = "released"
        /\ ask' = IF free THEN [ask EXCEPT !.at = "again", !.reply = recorded]
                  ELSE [ask EXCEPT !.at = "done", !.outcome = "none"]
    BY <1>5 DEF Answer
  <2>2. /\ ask'.told = ask.told /\ ask'.toldTo = ask.toldTo /\ ask'.endpoint = ask.endpoint
        /\ ask'.quiet = ask.quiet /\ ask'.record = ask.record
        /\ \/ ask'.at = "again" /\ ask'.reply = reading /\ ask'.outcome = "unknown"
           \/ ask'.at = "done" /\ ask'.outcome = "none"
    BY <1>1, <1>3, <1>5, <2>1 DEF ReleaseTypeOK, Questions
  <2>3. Served' /\ Prepared' /\ Noticed' /\ Read'
    BY <1>1, <1>3, <1>5, <2>1, <2>2 DEF Served, Prepared, Noticed, Read
  <2>4. Answered'
    BY <1>1, <1>3, <1>5, <2>1, <2>2 DEF Noticed, Read, Answered, Shows
  <2> QED BY <1>2, <2>3, <2>4 DEF ReleaseInv
<1> QED
  BY <1>4, <1>5

LEMMA EndingKeeps == ASSUME ReleaseInv, Ending PROVE ReleaseInv'
<1>1. ReleaseTypeOK /\ Served /\ Prepared /\ Noticed /\ Read /\ Answered
  BY DEF ReleaseInv
<1>2. ReleaseTypeOK'
  BY <1>1, Facts DEF ReleaseTypeOK, Ending, Invalidated, checkout, events, lease, store, past
<1>3. Served' /\ Prepared' /\ Noticed'
  BY <1>1, Facts DEF ReleaseTypeOK, Questions, Served, Prepared, Noticed,
     Ending, Invalidated, checkout, events, lease, store, past
<1>4. Read' /\ Answered'
  BY <1>1, Facts DEF ReleaseTypeOK, Questions, Read, Answered, Shows,
     Ending, Invalidated, checkout, events, lease, store, past
<1> QED
  BY <1>2, <1>3, <1>4 DEF ReleaseInv

LEMMA UnlockedKeeps == ASSUME ReleaseInv, Unlocked PROVE ReleaseInv'
<1>1. ReleaseTypeOK /\ Served /\ Prepared /\ Noticed /\ Read /\ Answered
  BY DEF ReleaseInv
<1>2. ReleaseTypeOK'
  BY <1>1, Facts DEF ReleaseTypeOK, Unlocked, checkout, events, lease, store, past
<1>3. Served' /\ Prepared' /\ Noticed'
  BY <1>1, Facts DEF ReleaseTypeOK, Questions, Served, Prepared, Noticed,
     Unlocked, checkout, events, lease, store, past
<1>4. Read' /\ Answered'
  BY <1>1, Facts DEF ReleaseTypeOK, Questions, Read, Answered, Shows,
     Unlocked, checkout, events, lease, store, past
<1> QED
  BY <1>2, <1>3, <1>4 DEF ReleaseInv

LEMMA MonitorDiesKeeps == ASSUME ReleaseInv, MonitorDies PROVE ReleaseInv'
<1>1. ReleaseTypeOK /\ Served /\ Prepared /\ Noticed /\ Read /\ Answered
  BY DEF ReleaseInv
<1>2. ReleaseTypeOK'
  BY <1>1, Facts DEF ReleaseTypeOK, MonitorDies, checkout, events, lease, store, past
<1>3. Served' /\ Prepared' /\ Noticed'
  BY <1>1, Facts DEF ReleaseTypeOK, Questions, Served, Prepared, Noticed,
     MonitorDies, checkout, events, lease, store, past
<1>4. Read' /\ Answered'
  BY <1>1, Facts DEF ReleaseTypeOK, Questions, Read, Answered, Shows,
     MonitorDies, checkout, events, lease, store, past
<1> QED
  BY <1>2, <1>3, <1>4 DEF ReleaseInv

(* The question starts where no monitor is answering one.                  *)
LEMMA AskLockKeeps == ASSUME ReleaseInv, AskLock PROVE ReleaseInv'
<1>1. ReleaseTypeOK /\ Served /\ Prepared /\ Noticed /\ Read /\ Answered
  BY DEF ReleaseInv
<1>2. ReleaseTypeOK'
  <2>1. ask' \in Questions
    BY <1>1, Facts DEF ReleaseTypeOK, AskLock, Asking, NoAsk, Questions
  <2> QED BY <1>1, Facts, <2>1 DEF ReleaseTypeOK, AskLock, Asking, NoAsk, checkout, events, lease,
             store, past
<1>3. Served' /\ Prepared' /\ Noticed'
  BY <1>1, Facts DEF ReleaseTypeOK, Questions, Served, Prepared, Noticed,
     AskLock, Asking, NoAsk, checkout, events, lease, store, past
<1>4. Read' /\ Answered'
  <2>1. ask.at = "idle" /\ ask'.outcome \in {"unknown", "none"} /\ ask'.at \in {"record", "done"}
    BY DEF AskLock, Asking, NoAsk
  <2>2. ask'.at # "done" => ask'.outcome = "unknown"
    BY DEF AskLock, Asking, NoAsk
  <2>3. /\ UNCHANGED <<content, away, strayed, reading, monitor>>
        /\ monitor \notin {"checking", "answering"}
    BY <1>1, <2>1 DEF AskLock, Asking, Served, checkout, lease, past
  <2>4. Read'
    BY <1>1, <2>3 DEF Read
  <2> QED BY <2>1, <2>2, <2>4 DEF Answered
<1> QED
  BY <1>2, <1>3, <1>4 DEF ReleaseInv

LEMMA ReadRecordKeeps == ASSUME ReleaseInv, ReadRecord PROVE ReleaseInv'
<1>1. ReleaseTypeOK /\ Served /\ Prepared /\ Noticed /\ Read /\ Answered
  BY DEF ReleaseInv
<1>2. ReleaseTypeOK'
  <2>1. ask' \in Questions
    BY <1>1 DEF ReleaseTypeOK, Questions, ReadRecord, Asking, NoEvidence
  <2> QED BY <1>1, <2>1 DEF ReleaseTypeOK, ReadRecord, Asking, checkout, events, lease, store, past
<1>3. Served' /\ Prepared' /\ Noticed'
  BY <1>1, Facts DEF ReleaseTypeOK, Questions, Served, Prepared, Noticed,
     ReadRecord, Asking, NoEvidence, checkout, events, lease, store, past
<1>4. /\ UNCHANGED <<content, away, strayed, reading, monitor>>
      /\ ask'.quiet = ask.quiet /\ ask'.reply = ask.reply
      /\ ask'.told = ask.told /\ ask'.toldTo = ask.toldTo
  BY <1>1 DEF ReleaseTypeOK, Questions, ReadRecord, Asking, NoEvidence, checkout, lease, past
<1>5. Read'
  BY <1>1, <1>4 DEF Read, Shows
<1>6. Answered'
  BY <1>1, <1>4 DEF ReleaseTypeOK, Questions, Answered, Shows, ReadRecord, Asking, NoEvidence
<1> QED
  BY <1>2, <1>3, <1>5, <1>6 DEF ReleaseInv

LEMMA ReadEndpointKeeps == ASSUME ReleaseInv, ReadEndpoint PROVE ReleaseInv'
<1>1. ReleaseTypeOK /\ Served /\ Prepared /\ Noticed /\ Read /\ Answered
  BY DEF ReleaseInv
<1>2. ReleaseTypeOK'
  <2>1. ask' \in Questions
    BY <1>1 DEF ReleaseTypeOK, Questions, ReadEndpoint, Asking, NoEvidence
  <2> QED BY <1>1, <2>1 DEF ReleaseTypeOK, ReadEndpoint, Asking, checkout, events, lease, store, past
<1>3. Served' /\ Prepared' /\ Noticed'
  BY <1>1, Facts DEF ReleaseTypeOK, Questions, Served, Prepared, Noticed,
     ReadEndpoint, Asking, NoEvidence, checkout, events, lease, store, past
<1>4. /\ UNCHANGED <<content, away, strayed, reading, monitor>>
      /\ ask'.quiet = ask.quiet /\ ask'.reply = ask.reply
      /\ ask'.told = ask.told /\ ask'.toldTo = ask.toldTo
  BY <1>1 DEF ReleaseTypeOK, Questions, ReadEndpoint, Asking, NoEvidence, checkout, lease, past
<1>5. Read'
  BY <1>1, <1>4 DEF Read, Shows
<1>6. Answered'
  BY <1>1, <1>4 DEF ReleaseTypeOK, Questions, Answered, Shows, ReadEndpoint, Asking, NoEvidence
<1> QED
  BY <1>2, <1>3, <1>5, <1>6 DEF ReleaseInv

LEMMA UnansweredKeeps == ASSUME ReleaseInv, Unanswered PROVE ReleaseInv'
<1>1. ReleaseTypeOK /\ Served /\ Prepared /\ Noticed /\ Read /\ Answered
  BY DEF ReleaseInv
<1>2. ReleaseTypeOK'
  <2>1. ask' \in Questions
    BY <1>1 DEF ReleaseTypeOK, Questions, Unanswered, Asking, NoEvidence
  <2> QED BY <1>1, <2>1 DEF ReleaseTypeOK, Unanswered, Asking, checkout, events, lease, store, past
<1>3. Served' /\ Prepared' /\ Noticed'
  BY <1>1, Facts DEF ReleaseTypeOK, Questions, Served, Prepared, Noticed,
     Unanswered, Asking, NoEvidence, checkout, events, lease, store, past
<1>4. /\ UNCHANGED <<content, away, strayed, reading, monitor>>
      /\ ask'.quiet = ask.quiet /\ ask'.reply = ask.reply
      /\ ask'.told = ask.told /\ ask'.toldTo = ask.toldTo
  BY <1>1 DEF ReleaseTypeOK, Questions, Unanswered, Asking, NoEvidence, checkout, lease, past
<1>5. Read'
  BY <1>1, <1>4 DEF Read, Shows
<1>6. Answered'
  BY <1>1, <1>4 DEF ReleaseTypeOK, Questions, Answered, Shows, Unanswered, Asking, NoEvidence
<1> QED
  BY <1>2, <1>3, <1>5, <1>6 DEF ReleaseInv

LEMMA LockAgainKeeps == ASSUME ReleaseInv, LockAgain PROVE ReleaseInv'
<1>1. ReleaseTypeOK /\ Served /\ Prepared /\ Noticed /\ Read /\ Answered
  BY DEF ReleaseInv
<1>2. ReleaseTypeOK'
  <2>1. ask' \in Questions
    BY <1>1 DEF ReleaseTypeOK, Questions, LockAgain, Asking, NoEvidence
  <2> QED BY <1>1, <2>1 DEF ReleaseTypeOK, LockAgain, Asking, checkout, events, lease, store, past
<1>3. Served' /\ Prepared' /\ Noticed'
  BY <1>1, Facts DEF ReleaseTypeOK, Questions, Served, Prepared, Noticed,
     LockAgain, Asking, NoEvidence, checkout, events, lease, store, past
<1>4. /\ UNCHANGED <<content, away, strayed, reading, monitor>>
      /\ ask'.quiet = ask.quiet /\ ask'.reply = ask.reply
      /\ ask'.told = ask.told /\ ask'.toldTo = ask.toldTo
  BY <1>1 DEF ReleaseTypeOK, Questions, LockAgain, Asking, NoEvidence, checkout, lease, past
<1>5. Read'
  BY <1>1, <1>4 DEF Read, Shows
<1>6. Answered'
  BY <1>1, <1>4 DEF ReleaseTypeOK, Questions, Answered, Shows, LockAgain, Asking, NoEvidence
<1> QED
  BY <1>2, <1>3, <1>5, <1>6 DEF ReleaseInv

LEMMA DecideKeeps == ASSUME ReleaseInv, Decide PROVE ReleaseInv'
<1>1. ReleaseTypeOK /\ Served /\ Prepared /\ Noticed /\ Read /\ Answered
  BY DEF ReleaseInv
<1>2. ReleaseTypeOK'
  <2>1. ask' \in Questions
    BY <1>1 DEF ReleaseTypeOK, Questions, Decide, Asking
  <2> QED BY <1>1, <2>1 DEF ReleaseTypeOK, Decide, Asking, checkout, events, lease, store, past
<1>3. Served' /\ Prepared' /\ Noticed'
  BY <1>1, Facts DEF ReleaseTypeOK, Questions, Served, Prepared, Noticed,
     Decide, Asking, checkout, events, lease, store, past
<1>4. /\ UNCHANGED <<content, away, strayed, reading, monitor>>
      /\ ask'.quiet = ask.quiet /\ ask'.reply = ask.reply
      /\ ask'.told = ask.told /\ ask'.toldTo = ask.toldTo
  BY <1>1 DEF ReleaseTypeOK, Questions, Decide, Asking, checkout, lease, past
<1>5. Read'
  BY <1>1, <1>4 DEF Read, Shows
<1>6. Answered'
  BY <1>1, <1>4 DEF ReleaseTypeOK, Questions, Answered, Shows, Decide, Asking
<1> QED
  BY <1>2, <1>3, <1>5, <1>6 DEF ReleaseInv

LEMMA NextAskKeeps == ASSUME ReleaseInv, NextAsk PROVE ReleaseInv'
<1>1. ReleaseTypeOK /\ Served /\ Prepared /\ Noticed /\ Read /\ Answered
  BY DEF ReleaseInv
<1>2. ReleaseTypeOK'
  BY <1>1, Facts DEF ReleaseTypeOK, Questions, NextAsk, Asking, NoAsk, checkout, events, lease, store, past
<1>3. Served' /\ Prepared' /\ Noticed'
  BY <1>1, Facts DEF ReleaseTypeOK, Questions, Served, Prepared, Noticed,
     NextAsk, Asking, NoAsk, checkout, events, lease, store, past
<1>4. Read' /\ Answered'
  <2>1. ask.at = "done" /\ ask'.outcome = "unknown" /\ ask'.at = "idle"
    BY DEF NextAsk, Asking, NoAsk
  <2>2. /\ UNCHANGED <<content, away, strayed, reading, monitor>>
        /\ monitor \notin {"checking", "answering"}
    BY <1>1, <2>1 DEF NextAsk, Asking, Served, checkout, lease, past
  <2>3. Read'
    BY <1>1, <2>2 DEF Read
  <2> QED BY <2>1, <2>3 DEF Answered
<1> QED
  BY <1>2, <1>3, <1>4 DEF ReleaseInv

-------------------------------------------------------------------------------
(* Every step keeps it.                                                    *)
LEMMA StepInv == ReleaseInv /\ [ReleaseNext]_releaseVars => ReleaseInv'
<1> SUFFICES ASSUME ReleaseInv, [ReleaseNext]_releaseVars PROVE ReleaseInv'
  OBVIOUS
<1>1. CASE \/ Produce \/ MoveAway \/ MoveBack
            \/ \E f \in TreeFiles, mapped \in BOOLEAN : WriteFile(f, mapped)
  BY <1>1, ProduceKeeps, MoveKeeps, WriteFileKeeps
<1>2. CASE Bind \/ BeginRecord \/ StartWatching \/ Snapshot \/ WatchAll \/ Barrier
  BY <1>2, BindKeeps, BeginRecordKeeps, StartWatchingKeeps, SnapshotKeeps, WatchAllKeeps,
     BarrierKeeps
<1>3. CASE CompareReadings \/ Record \/ Deliver \/ Dropped \/ Stop \/ Accept \/ Drain
  BY <1>3, CompareReadingsKeeps, RecordKeeps, DeliverKeeps, DroppedKeeps, StopKeeps, AcceptKeeps,
     DrainKeeps
<1>4. CASE ProbeWriters \/ Answer \/ Ending \/ Unlocked \/ MonitorDies
  BY <1>4, ProbeWritersKeeps, AnswerKeeps, EndingKeeps, UnlockedKeeps, MonitorDiesKeeps
<1>5. CASE AskLock \/ ReadRecord \/ ReadEndpoint \/ Unanswered \/ LockAgain \/ Decide \/ NextAsk
  BY <1>5, AskLockKeeps, ReadRecordKeeps, ReadEndpointKeeps, UnansweredKeeps, LockAgainKeeps,
     DecideKeeps, NextAskKeeps
<1>6. CASE UNCHANGED releaseVars
  BY <1>6 DEF releaseVars, checkout, events, lease, store, past, ReleaseInv, ReleaseTypeOK, Served,
     Prepared, Noticed, Read, Answered, Shows
<1> QED
  BY <1>1, <1>2, <1>3, <1>4, <1>5, <1>6 DEF ReleaseNext

-------------------------------------------------------------------------------
(* Every variable keeps to its range.                                      *)
THEOREM ReleaseTypeCorrect == ReleaseSpec => []ReleaseTypeOK
<1>1. ReleaseInv => ReleaseTypeOK
  BY DEF ReleaseInv
<1> QED
  BY <1>1, ReleaseStart, StepInv, PTL DEF ReleaseSpec

(* A checkout that is found released was not written to since the release   *)
(* and before the question: the write would have raised an event, which is   *)
(* read before the tree is, under the release it was raised about; and what  *)
(* was recorded is what the files hold (release.rs: serve, evidence).       *)
THEOREM ReleasedIsNotTouched == ReleaseSpec => []ReleasedIsUntouched
<1>1. ReleaseInv => ReleasedIsUntouched
  BY Facts DEF ReleaseInv, Answered, ReleasedIsUntouched
<1> QED
  BY <1>1, ReleaseStart, StepInv, PTL DEF ReleaseSpec
===============================================================================
