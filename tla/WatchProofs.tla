------------------------------ MODULE WatchProofs ------------------------------
(***************************************************************************)
(* What the watch session notes, whom it waits for and what it still asks, *)
(* for any caches, repositories and hooks, with every watch or not, and    *)
(* however many events there are and are lost.                             *)
(***************************************************************************)
EXTENDS Watch, SequenceTheorems, FiniteSetTheorems, TLAPS

(* What a turn has received is kept for its classification.                *)
BatchOfTurn ==
    batch # <<>> =>
        pc \in {"take", "classify"}
        \/ (round = "start" /\ pc \in {"sight", "ask", "reap", "prune", "adopt"})

(* What a turn has been told of repositories is used within the turn.      *)
NoticeOfTurn == pc # "classify" => ~lost /\ refs = {} /\ hooked = {}

(* Git is first asked after the start.                                     *)
NothingCached == pc = "open" => memo = [c \in Caches |-> "none"]

(* What waits is not processed, and the session serves one cache at a time. *)
SettlesReady == pc \in {"settle", "serve"} => todo \cap waiting = {}
ServesOne == pc = "serve" => \E d \in Caches : seen = {d}

(* Work that an event named is on the disk, and what is noted is of a cache *)
(* that the session knows.                                                 *)
ToldIsThere == told \subseteq present
NotedIsKnown == changed \cup whole \subseteq world

(* The signals that name work in a cache; those of an emptied cache are     *)
(* followed by one for what came after.                                    *)
Naming(c) == {In("written", c), In("bookkeeping", c), Lost}
Renewed(q, c) ==
    \A i \in DOMAIN q : q[i] = In("vanished", c) => \E j \in DOMAIN q : j > i /\ q[j] \in Naming(c)
VanishedIsPast == \A c \in told : Renewed(Unread, c)

(* After a loss everything is sighted again: what is told and neither noted *)
(* nor unread is still on the walk.                                        *)
OnTheWalk(c) ==
    CASE pc = "sight" -> c \in todo \cup seen
      [] pc = "ask" -> c \in seen
      [] pc = "reap" -> c \in seen \cup settled
      [] pc = "adopt" -> c \in todo
      [] OTHER -> FALSE
ToldIsTracked ==
    \A c \in told :
        \/ Announced(Unread, c) \/ lost
        \/ c \in changed \cup whole
        \/ round = "lost" /\ OnTheWalk(c)

(* A walk that forgets what it has not seen has seen what is told.         *)
ToldIsSighted ==
    pc = "sight" /\ round \in {"lost", "kept"} =>
        \A c \in told : c \in todo \cup seen \/ Announced(Unread, c)

Control == BatchOfTurn /\ NoticeOfTurn /\ NothingCached /\ SettlesReady /\ ServesOne
Tracked == VanishedIsPast /\ ToldIsTracked /\ ToldIsSighted
Told == ToldIsThere /\ Tracked
Noted == NotedIsKnown /\ NotedIsPending

IInv == TypeOK /\ Control /\ Told /\ Noted /\ WaiterReportsOnce

-------------------------------------------------------------------------------
(* Where a signal lies in a queue.                                         *)
Places(q, s) == {i \in DOMAIN q : q[i] = s}

(* A queue is counted: one more where the signal is appended, one less      *)
(* where it is taken off the front.                                        *)
LEMMA PlacesFinite ==
    ASSUME NEW q \in Seq(Signals), NEW s
    PROVE  IsFiniteSet(Places(q, s)) /\ Cardinality(Places(q, s)) \in Nat
<1>1. DOMAIN q = 1..Len(q) /\ Len(q) \in Nat
  BY LenProperties
<1>2. IsFiniteSet(1..Len(q))
  BY <1>1, FS_Interval
<1>3. Places(q, s) \in SUBSET (1..Len(q))
  BY <1>1 DEF Places
<1>4. IsFiniteSet(Places(q, s))
  BY <1>2, <1>3, FS_Subset
<1> QED
  BY <1>4, FS_CardinalityType

LEMMA PlacesOfAppend ==
    ASSUME NEW q \in Seq(Signals), NEW e \in Signals, NEW s
    PROVE  Cardinality(Places(Append(q, e), s)) =
               Cardinality(Places(q, s)) + (IF e = s THEN 1 ELSE 0)
<1>1. /\ DOMAIN q = 1..Len(q) /\ Len(q) \in Nat
      /\ DOMAIN Append(q, e) = 1..(Len(q) + 1)
      /\ \A i \in 1..Len(q) : Append(q, e)[i] = q[i]
      /\ Append(q, e)[Len(q) + 1] = e
  BY LenProperties, AppendProperties
<1>2. Places(Append(q, e), s) =
          IF e = s THEN Places(q, s) \cup {Len(q) + 1} ELSE Places(q, s)
  BY <1>1 DEF Places
<1>3. Len(q) + 1 \notin Places(q, s)
  BY <1>1 DEF Places
<1>4. IsFiniteSet(Places(q, s)) /\ Cardinality(Places(q, s)) \in Nat
  BY PlacesFinite
<1>5. CASE e = s
  BY <1>2, <1>3, <1>4, <1>5, FS_AddElement
<1>6. CASE e # s
  BY <1>2, <1>4, <1>6
<1> QED
  BY <1>5, <1>6

LEMMA PlacesOfTail ==
    ASSUME NEW q \in Seq(Signals), q # <<>>, NEW s
    PROVE  Cardinality(Places(Tail(q), s)) =
               Cardinality(Places(q, s)) - (IF Head(q) = s THEN 1 ELSE 0)
<1>1. /\ DOMAIN q = 1..Len(q) /\ Len(q) \in Nat /\ Len(q) >= 1
      /\ DOMAIN Tail(q) = 1..(Len(q) - 1)
      /\ \A i \in 1..(Len(q) - 1) : Tail(q)[i] = q[i + 1]
      /\ Head(q) = q[1]
  BY LenProperties, HeadTailProperties, EmptySeq
<1> DEFINE rest == Places(q, s) \ {1}
           shift == [i \in rest |-> i - 1]
<1>2. IsFiniteSet(Places(q, s)) /\ Cardinality(Places(q, s)) \in Nat
  BY PlacesFinite
<1>3. /\ IsFiniteSet(rest)
      /\ Cardinality(rest) =
             IF 1 \in Places(q, s) THEN Cardinality(Places(q, s)) - 1
                                   ELSE Cardinality(Places(q, s))
  BY <1>2, FS_RemoveElement
<1>4. 1 \in Places(q, s) <=> Head(q) = s
  BY <1>1 DEF Places
<1>5. shift \in Bijection(rest, Places(Tail(q), s))
  <2>1. \A i \in rest : i \in 2..Len(q) /\ q[i] = s
    BY <1>1 DEF Places
  <2>2. \A i \in rest : i - 1 \in Places(Tail(q), s)
    BY <1>1, <2>1 DEF Places
  <2>3. \A j \in Places(Tail(q), s) : j + 1 \in rest /\ shift[j + 1] = j
    BY <1>1 DEF Places
  <2>4. \A i, j \in rest : shift[i] = shift[j] => i = j
    BY <2>1
  <2>5. shift \in [rest -> Places(Tail(q), s)]
    BY <2>2
  <2> QED BY <2>3, <2>4, <2>5 DEF Bijection, Injection, Surjection, IsInjective
<1>6. Cardinality(Places(Tail(q), s)) = Cardinality(rest)
  BY <1>3, <1>5, FS_Bijection DEF ExistsBijection
<1> HIDE DEF rest
<1> QED
  BY <1>2, <1>3, <1>4, <1>6

(* What a queue holds.                                                     *)
LEMMA HeldByAppend ==
    ASSUME NEW q \in Seq(Signals), NEW e \in Signals
    PROVE  Range(Append(q, e)) = Range(q) \cup {e}
<1>1. /\ DOMAIN q = 1..Len(q) /\ Len(q) \in Nat
      /\ DOMAIN Append(q, e) = 1..(Len(q) + 1)
      /\ \A i \in 1..Len(q) : Append(q, e)[i] = q[i]
      /\ Append(q, e)[Len(q) + 1] = e
  BY LenProperties, AppendProperties
<1> QED
  BY <1>1 DEF Range

LEMMA HeldByTail ==
    ASSUME NEW q \in Seq(Signals), q # <<>>
    PROVE  /\ Head(q) \in Signals /\ Tail(q) \in Seq(Signals)
           /\ Range(q) = Range(Tail(q)) \cup {Head(q)}
<1>1. /\ DOMAIN q = 1..Len(q) /\ Len(q) \in Nat /\ Len(q) >= 1
      /\ DOMAIN Tail(q) = 1..(Len(q) - 1)
      /\ \A i \in 1..(Len(q) - 1) : Tail(q)[i] = q[i + 1]
      /\ Head(q) = q[1]
  BY LenProperties, HeadTailProperties, EmptySeq
<1>2. \A i \in DOMAIN q : i = 1 \/ (i - 1 \in DOMAIN Tail(q) /\ Tail(q)[i - 1] = q[i])
  BY <1>1
<1>3. \A i \in DOMAIN Tail(q) : i + 1 \in DOMAIN q /\ Tail(q)[i] = q[i + 1]
  BY <1>1
<1>4. 1 \in DOMAIN q
  BY <1>1
<1> QED
  BY <1>1, <1>2, <1>3, <1>4, HeadTailProperties DEF Range

(* What vanished is followed by news of its cache in a longer queue, and in *)
(* what is left of one.                                                    *)
LEMMA RenewedByAppend ==
    ASSUME NEW q \in Seq(Signals), NEW e \in Signals, NEW c,
           \/ e \in Naming(c)
           \/ Renewed(q, c) /\ e # In("vanished", c)
    PROVE  Renewed(Append(q, e), c)
<1>1. /\ DOMAIN q = 1..Len(q) /\ Len(q) \in Nat
      /\ DOMAIN Append(q, e) = 1..(Len(q) + 1)
      /\ \A i \in 1..Len(q) : Append(q, e)[i] = q[i]
      /\ Append(q, e)[Len(q) + 1] = e
  BY LenProperties, AppendProperties
<1>2. \A d : In("vanished", c) \notin Naming(d)
  BY DEF In, Naming, Lost
<1> SUFFICES ASSUME NEW i \in DOMAIN Append(q, e), Append(q, e)[i] = In("vanished", c)
             PROVE  \E j \in DOMAIN Append(q, e) : j > i /\ Append(q, e)[j] \in Naming(c)
  BY DEF Renewed
<1>3. i \in DOMAIN q \/ (i = Len(q) + 1 /\ e = In("vanished", c))
  BY <1>1
<1>4. CASE e \in Naming(c)
  BY <1>1, <1>2, <1>3, <1>4
<1>5. CASE Renewed(q, c) /\ e # In("vanished", c)
  <2>1. i \in DOMAIN q /\ q[i] = In("vanished", c)
    BY <1>1, <1>3, <1>5
  <2>2. PICK j \in DOMAIN q : j > i /\ q[j] \in Naming(c)
    BY <1>5, <2>1 DEF Renewed
  <2> QED BY <1>1, <2>2
<1> QED
  BY <1>4, <1>5

LEMMA RenewedByTail ==
    ASSUME NEW q \in Seq(Signals), q # <<>>, NEW c, Renewed(q, c)
    PROVE  /\ Renewed(Tail(q), c)
           /\ Head(q) = In("vanished", c) => Range(Tail(q)) \cap Naming(c) # {}
<1>1. /\ DOMAIN q = 1..Len(q) /\ Len(q) \in Nat /\ Len(q) >= 1
      /\ DOMAIN Tail(q) = 1..(Len(q) - 1)
      /\ \A i \in 1..(Len(q) - 1) : Tail(q)[i] = q[i + 1]
      /\ Head(q) = q[1]
  BY LenProperties, HeadTailProperties, EmptySeq
<1>2. Renewed(Tail(q), c)
  <2> SUFFICES ASSUME NEW i \in DOMAIN Tail(q), Tail(q)[i] = In("vanished", c)
               PROVE  \E j \in DOMAIN Tail(q) : j > i /\ Tail(q)[j] \in Naming(c)
    BY DEF Renewed
  <2>1. PICK j \in DOMAIN q : j > i + 1 /\ q[j] \in Naming(c)
    BY <1>1 DEF Renewed
  <2>2. j - 1 \in DOMAIN Tail(q) /\ j - 1 > i /\ Tail(q)[j - 1] = q[j]
    BY <1>1, <2>1
  <2> QED BY <2>1, <2>2
<1>3. ASSUME Head(q) = In("vanished", c)
      PROVE  Range(Tail(q)) \cap Naming(c) # {}
  <2>1. PICK j \in DOMAIN q : j > 1 /\ q[j] \in Naming(c)
    BY <1>1, <1>3 DEF Renewed
  <2>2. j - 1 \in DOMAIN Tail(q) /\ Tail(q)[j - 1] = q[j]
    BY <1>1, <2>1
  <2> QED BY <2>1, <2>2 DEF Range
<1> QED
  BY <1>2, <1>3

-------------------------------------------------------------------------------
(* The signals that neither report a lock nor say that a cache is gone.     *)
Plain == {s \in Signals : s.kind \notin {"released", "vanished"}}

LEMMA SignalKinds ==
    /\ Plain \subseteq Signals /\ Lost \in Plain /\ Wake \in Plain
    /\ \A r \in Repositories : Refs(r) \in Plain
    /\ \A c \in Caches : /\ In("written", c) \in Plain /\ In("bookkeeping", c) \in Plain
                         /\ In("appeared", c) \in Plain
                         /\ In("vanished", c) \in Signals /\ In("released", c) \in Signals
    /\ \A c : In("vanished", c) \notin Plain /\ In("released", c) \notin Plain
    /\ \A c, d : /\ In("vanished", c) # In("released", d)
                 /\ In("vanished", c) = In("vanished", d) => c = d
                 /\ In("released", c) = In("released", d) => c = d
  BY DEF Plain, Signals, Lost, Wake, Refs, In

(* Signals arrive while nothing is read: none, one or two of those in S.    *)
Arrives(S) ==
    /\ batch' = batch
    /\ \/ queue' = queue
       \/ \E s \in S : queue' = Append(queue, s)
       \/ \E s, t \in S : queue' = Append(Append(queue, s), t)

LEMMA AppendLast ==
    ASSUME NEW a \in Seq(Signals), NEW b \in Seq(Signals), NEW s \in Signals
    PROVE  a \o Append(b, s) = Append(a \o b, s)
<1>1. <<s>> \in Seq(Signals)
  OBVIOUS
<1>2. Append(b, s) = b \o <<s>>
  BY AppendIsConcat
<1>3. a \o b \in Seq(Signals) /\ Append(a \o b, s) = (a \o b) \o <<s>>
  BY ConcatProperties, AppendIsConcat
<1> QED
  BY <1>1, <1>2, <1>3, ConcatAssociative

LEMMA UnreadIsQueue ==
    ASSUME batch \in Seq(Signals), queue \in Seq(Signals)
    PROVE  /\ Unread \in Seq(Signals)
           /\ Range(Unread) = Range(batch) \cup Range(queue)
           /\ \A s \in Signals : batch \o Append(queue, s) = Append(Unread, s)
           /\ batch # <<>> => /\ Head(Unread) = Head(batch) /\ Unread # <<>>
                              /\ Tail(batch) \o queue = Tail(Unread)
           /\ batch = <<>> => Unread = queue
<1>1. /\ Len(batch) \in Nat /\ DOMAIN batch = 1..Len(batch)
      /\ Len(queue) \in Nat /\ DOMAIN queue = 1..Len(queue)
  BY LenProperties
<1>2. /\ Unread \in Seq(Signals) /\ Len(Unread) = Len(batch) + Len(queue)
      /\ \A i \in 1..(Len(batch) + Len(queue)) :
           Unread[i] = IF i <= Len(batch) THEN batch[i] ELSE queue[i - Len(batch)]
  BY ConcatProperties DEF Unread
<1>3. Range(Unread) = Range(batch) \cup Range(queue)
  BY RangeConcatenation DEF Unread
<1>4. \A s \in Signals : batch \o Append(queue, s) = Append(Unread, s)
  BY AppendLast DEF Unread
<1>5. ASSUME batch # <<>>
      PROVE  /\ Head(Unread) = Head(batch) /\ Unread # <<>>
             /\ Tail(batch) \o queue = Tail(Unread)
  <2>1. /\ Len(batch) >= 1 /\ Head(batch) = batch[1] /\ Tail(batch) \in Seq(Signals)
        /\ Len(Tail(batch)) = Len(batch) - 1
        /\ \A i \in 1..(Len(batch) - 1) : Tail(batch)[i] = batch[i + 1]
    BY <1>1, <1>5, HeadTailProperties, EmptySeq
  <2>2. Unread # <<>>
    BY <1>1, <1>2, <2>1, EmptySeq
  <2>3. /\ Head(Unread) = Unread[1] /\ Tail(Unread) \in Seq(Signals)
        /\ Len(Tail(Unread)) = Len(Unread) - 1
        /\ \A i \in 1..(Len(Unread) - 1) : Tail(Unread)[i] = Unread[i + 1]
    BY <1>2, <2>2, HeadTailProperties
  <2>4. Head(Unread) = Head(batch)
    BY <1>1, <1>2, <2>1, <2>3
  <2>5. /\ Tail(batch) \o queue \in Seq(Signals)
        /\ Len(Tail(batch) \o queue) = Len(Unread) - 1
        /\ \A i \in 1..(Len(Unread) - 1) :
             (Tail(batch) \o queue)[i] =
                 IF i <= Len(batch) - 1 THEN Tail(batch)[i] ELSE queue[i - (Len(batch) - 1)]
    BY <1>1, <1>2, <2>1, ConcatProperties
  <2>6. \A i \in 1..(Len(Unread) - 1) : (Tail(batch) \o queue)[i] = Tail(Unread)[i]
    BY <1>1, <1>2, <2>1, <2>3, <2>5
  <2> QED BY <2>2, <2>3, <2>4, <2>5, <2>6, SeqEqual
<1>6. batch = <<>> => Unread = queue
  BY ConcatEmptySeq DEF Unread
<1> QED
  BY <1>2, <1>3, <1>4, <1>5, <1>6

(* The reports of a lock are counted in what is unread.                    *)
LEMMA ReportsArePlaces ==
    ASSUME NEW c
    PROVE  /\ Reports(c) = Cardinality(Places(Unread, In("released", c)))
           /\ Reports(c)' = Cardinality(Places(Unread', In("released", c)))
  BY DEF Reports, Places

LEMMA MoreArrives == ASSUME NEW S, NEW T, S \subseteq T, Arrives(S) PROVE Arrives(T)
  BY DEF Arrives

LEMMA SignalsArrive ==
    ASSUME batch \in Seq(Signals), queue \in Seq(Signals), NEW S, S \subseteq Signals, Arrives(S)
    PROVE  /\ queue' \in Seq(Signals) /\ batch' \in Seq(Signals)
           /\ Range(Unread) \subseteq Range(Unread')
           /\ \A c \in Caches : In("released", c) \notin S => Reports(c)' = Reports(c)
           /\ \A c \in Caches : In("vanished", c) \notin S /\ Renewed(Unread, c)
                                    => Renewed(Unread', c)
<1> USE UnreadIsQueue
<1>1. CASE queue' = queue
  BY <1>1 DEF Arrives, Unread, Reports
<1>2. CASE \E s \in S : queue' = Append(queue, s)
  <2>1. PICK s \in S : queue' = Append(queue, s)
    BY <1>2
  <2>2. Unread' = Append(Unread, s)
    BY <2>1 DEF Arrives, Unread
  <2>3. queue' \in Seq(Signals)
    BY <2>1, AppendProperties
  <2>4. ASSUME NEW c \in Caches, In("released", c) \notin S PROVE Reports(c)' = Reports(c)
    <3>1. Cardinality(Places(Unread', In("released", c))) =
              Cardinality(Places(Unread, In("released", c))) + 0
      BY <2>1, <2>2, <2>4, PlacesOfAppend
    <3> QED BY <3>1, PlacesFinite, ReportsArePlaces
  <2> QED BY <2>1, <2>2, <2>3, <2>4, HeldByAppend, RenewedByAppend DEF Arrives
<1>3. CASE \E s, t \in S : queue' = Append(Append(queue, s), t)
  <2>1. PICK s \in S, t \in S : queue' = Append(Append(queue, s), t)
    BY <1>3
  <2>2. Append(queue, s) \in Seq(Signals) /\ Append(Unread, s) \in Seq(Signals)
    BY AppendProperties
  <2>3. Unread' = Append(Append(Unread, s), t)
    <3>1. Unread' = Append(batch \o Append(queue, s), t)
      BY <2>1, <2>2, AppendLast DEF Arrives, Unread
    <3> QED BY <3>1
  <2>4. queue' \in Seq(Signals)
    BY <2>1, <2>2, AppendProperties
  <2>5. ASSUME NEW c \in Caches, In("released", c) \notin S PROVE Reports(c)' = Reports(c)
    <3> DEFINE r == In("released", c)
    <3>1. s # r /\ t # r
      BY <2>5
    <3> HIDE DEF r
    <3>2. Cardinality(Places(Append(Unread, s), r)) = Cardinality(Places(Unread, r)) + 0
      BY <3>1, PlacesOfAppend
    <3>3. Cardinality(Places(Unread', r)) = Cardinality(Places(Append(Unread, s), r)) + 0
      <4>1. \A q \in Seq(Signals) :
               Cardinality(Places(Append(q, t), r)) = Cardinality(Places(q, r)) + 0
        BY <3>1, PlacesOfAppend
      <4> QED BY <2>2, <2>3, <4>1
    <3>4. Cardinality(Places(Unread, r)) \in Nat
      BY PlacesFinite
    <3>5. Cardinality(Places(Unread', r)) = Cardinality(Places(Unread, r))
      BY <3>2, <3>3, <3>4
    <3> QED BY <3>5, ReportsArePlaces DEF r
  <2>6. Range(Unread) \subseteq Range(Unread')
    <3>1. Range(Append(Unread, s)) = Range(Unread) \cup {s}
      BY HeldByAppend
    <3>2. Range(Unread') = Range(Append(Unread, s)) \cup {t}
      BY <2>2, <2>3, HeldByAppend
    <3> QED BY <3>1, <3>2
  <2>7. ASSUME NEW c \in Caches, In("vanished", c) \notin S, Renewed(Unread, c)
        PROVE  Renewed(Unread', c)
    <3>1. Renewed(Append(Unread, s), c)
      BY <2>7, RenewedByAppend
    <3> QED BY <2>2, <2>3, <2>7, <3>1, RenewedByAppend
  <2> QED BY <2>4, <2>5, <2>6, <2>7 DEF Arrives
<1> QED
  BY <1>1, <1>2, <1>3 DEF Arrives

(* What each action sends.                                                 *)
LEMMA TellArrives ==
    ASSUME NEW s, NEW watched \in BOOLEAN, batch' = batch,
           queue' \in TellIf(watched, queue, s)
    PROVE  Arrives({s, Lost})
  BY DEF TellIf, Tell, Arrives

LEMMA GoneArrives ==
    ASSUME NEW c, batch' = batch, Gone(c)
    PROVE  Arrives({In("vanished", c), Lost})
  BY DEF Gone, Tell, Arrives

LEMMA SignalTaken ==
    ASSUME batch \in Seq(Signals), queue \in Seq(Signals),
           batch # <<>>, batch' = Tail(batch), queue' = queue
    PROVE  /\ batch' \in Seq(Signals) /\ Head(batch) \in Signals
           /\ Range(Unread) = Range(Unread') \cup {Head(batch)}
           /\ \A c : Reports(c)' = Reports(c) - (IF Head(batch) = In("released", c) THEN 1 ELSE 0)
           /\ \A c : Renewed(Unread, c) =>
                /\ Renewed(Unread', c)
                /\ Head(batch) = In("vanished", c) => Range(Unread') \cap Naming(c) # {}
<1> USE UnreadIsQueue
<1>1. Unread' = Tail(Unread) /\ Unread # <<>> /\ Head(Unread) = Head(batch)
  BY DEF Unread
<1>2. Range(Unread) = Range(Unread') \cup {Head(batch)}
  BY <1>1, HeldByTail
<1>3. ASSUME NEW c
      PROVE  Reports(c)' = Reports(c) - (IF Head(batch) = In("released", c) THEN 1 ELSE 0)
  BY <1>1, PlacesOfTail, ReportsArePlaces
<1>4. ASSUME NEW c, Renewed(Unread, c)
      PROVE  /\ Renewed(Unread', c)
             /\ Head(batch) = In("vanished", c) => Range(Unread') \cap Naming(c) # {}
  BY <1>1, <1>4, RenewedByTail
<1> QED
  BY <1>2, <1>3, <1>4, HeadTailProperties

LEMMA BatchReceived ==
    ASSUME batch = <<>>, queue \in Seq(Signals), batch' = queue, queue' = <<>>
    PROVE  Unread' = Unread /\ batch' \in Seq(Signals) /\ queue' \in Seq(Signals)
  BY ConcatEmptySeq DEF Unread

(* What is announced is held by the queue.                                 *)
LEMMA AnnouncedIsHeld ==
    ASSUME NEW q, NEW c
    PROVE  Announced(q, c) <=> Range(q) \cap Naming(c) # {}
  BY DEF Announced, Range, Naming

-------------------------------------------------------------------------------
(* What each action does to the queues.                                     *)
LEMMA OutsideArrives ==
    ASSUME TypeOK, NEW c \in Caches
    PROVE  /\ TakeLock(c) => Arrives({In("bookkeeping", c), Lost})
           /\ BuildWrites(c) => Arrives({In("written", c), Lost})
           /\ LetGo(c) => Arrives({In("bookkeeping", c), Lost})
           /\ Chmod(c) => Arrives({})
           /\ UserRemoves(c) => Arrives({In("vanished", c), Lost})
           /\ UserMakes(c) => Arrives({In("appeared", c), Lost})
           /\ RefUpdate(c) => Arrives({Refs(RepositoryOf[c]), Lost, Wake})
           /\ Request => Arrives({Wake, Lost})
           /\ WaiterReports(c) => Arrives({In("released", c)})
  BY GoneArrives DEF TakeLock, BuildWrites, LetGo, Chmod, UserRemoves, UserMakes, RefUpdate,
     Request, WaiterReports, Happens, TellIf, Tell, Arrives, turn

LEMMA SessionArrives ==
    ASSUME TypeOK, NEW c \in Caches
    PROVE  /\ ReapSettled(c) => Arrives({In("vanished", c), Lost})
           /\ PruneSighted(c) => Arrives({In("written", c), Lost})
           /\ Serve(c) => Arrives({In("vanished", c), In("written", c), Lost})
           /\ Sight(c) \/ Ask(c) \/ Adopt(c) \/ LostTrack(c) \/ Probe(c) => Arrives({})
  BY DEF ReapSettled, PruneSighted, Serve, Reap, Gone, Prune, Sight, Ask, Adopt, LostTrack, Probe,
     TellIf, Tell, Arrives, turn

-------------------------------------------------------------------------------
(* Types.                                                                  *)
SetsOK ==
    /\ appeared \subseteq Caches /\ todo \subseteq Caches /\ seen \subseteq Caches
    /\ settled \subseteq Caches /\ world \subseteq Caches /\ dirty \subseteq Caches
    /\ changed \subseteq Caches /\ whole \subseteq Caches /\ resurvey \subseteq Caches
    /\ waiting \subseteq Caches /\ followed \subseteq Caches /\ skipped \subseteq Caches

OutsideOK ==
    /\ present \subseteq Caches
    /\ lock \in [Caches -> {"absent", "free", "held", "opaque"}]
    /\ standing \in [Caches -> {"active", "settled"}]
    /\ told \subseteq Caches /\ untold \subseteq Caches
    /\ raised \subseteq Repositories \cup {Everything}
    /\ events \in 0..MaxEvents
    /\ blocked \in [Caches -> {"none", "lock", "old lock"}]

QueuesOK == queue \in Seq(Signals) /\ batch \in Seq(Signals)

TurnOK ==
    /\ hooked \subseteq Repositories \cup {Everything}
    /\ pc \in {"open", "sight", "saw", "ask", "reap", "prune", "adopt", "receive",
               "take", "classify", "decide", "examine", "settle", "serve"}
    /\ round \in {"start", "lost", "kept", "reown", "examine"}
    /\ lost \in BOOLEAN /\ covered \in BOOLEAN
    /\ refs \subseteq Repositories /\ refsFollowed \subseteq Repositories
    /\ survey \in [Caches -> {"none", "bare", "locks"}]
    /\ memo \in [Caches -> {"none", "active", "settled"}]

LEMMA TypeParts == TypeOK <=> SetsOK /\ OutsideOK /\ QueuesOK /\ TurnOK
  BY DEF TypeOK, SetsOK, OutsideOK, QueuesOK, TurnOK

LEMMA TypePartsNext == TypeOK' <=> SetsOK' /\ OutsideOK' /\ QueuesOK' /\ TurnOK'
  BY DEF TypeOK, SetsOK, OutsideOK, QueuesOK, TurnOK

LEMMA InitTypes == Init => TypeOK
<1> SUFFICES ASSUME Init PROVE SetsOK /\ OutsideOK /\ QueuesOK /\ TurnOK
  BY TypeParts
<1> USE WatchAssumption
<1>1. SetsOK
  BY DEF Init, SetsOK
<1>2. OutsideOK
  BY DEF Init, OutsideOK
<1>3. QueuesOK
  BY EmptySeq DEF Init, QueuesOK
<1>4. TurnOK
  BY DEF Init, TurnOK
<1> QED
  BY <1>1, <1>2, <1>3, <1>4

(* What is sent is a signal.                                               *)
LEMMA QueuesTyped ==
    ASSUME TypeOK, [Next]_vars
    PROVE  QueuesOK'
<1> USE SignalKinds DEF TypeOK, QueuesOK
<1>1. Arrives(Signals) => QueuesOK'
  BY SignalsArrive
<1>2. \A c \in Caches : RepositoryOf[c] \in Repositories
  BY WatchAssumption
<1>3. CASE Outside \/ \E c \in Caches : WaiterReports(c)
  <2>1. CASE Request
    <3>1. Request => Arrives({Wake, Lost})
      BY DEF Request, Happens, Tell, Arrives, turn
    <3>2. {Wake, Lost} \subseteq Signals
      OBVIOUS
    <3> QED BY <2>1, <3>1, <3>2, <1>1, MoreArrives
  <2>2. CASE ~Request
    <3>1. PICK c \in Caches :
            \/ TakeLock(c) \/ BuildWrites(c) \/ LetGo(c) \/ Chmod(c)
            \/ UserRemoves(c) \/ UserMakes(c) \/ RefUpdate(c) \/ WaiterReports(c)
      BY <1>3, <2>2 DEF Outside
    <3>2. \/ Arrives({In("bookkeeping", c), Lost}) \/ Arrives({In("written", c), Lost})
          \/ Arrives({}) \/ Arrives({In("vanished", c), Lost})
          \/ Arrives({In("appeared", c), Lost}) \/ Arrives({Refs(RepositoryOf[c]), Lost, Wake})
          \/ Arrives({In("released", c)})
      BY <3>1, OutsideArrives
    <3>3. /\ {In("bookkeeping", c), Lost} \subseteq Signals
          /\ {In("written", c), Lost} \subseteq Signals /\ {} \subseteq Signals
          /\ {In("vanished", c), Lost} \subseteq Signals
          /\ {In("appeared", c), Lost} \subseteq Signals
          /\ {Refs(RepositoryOf[c]), Lost, Wake} \subseteq Signals
          /\ {In("released", c)} \subseteq Signals
      BY <1>2
    <3> QED BY <3>2, <3>3, <1>1, MoreArrives
  <2> QED BY <2>1, <2>2
<1>4. ASSUME Start \/ Receive PROVE QueuesOK'
  BY <1>4, EmptySeq DEF Start, Receive
<1>5. ASSUME NEW c \in Caches,
             \/ Sight(c) \/ Ask(c) \/ ReapSettled(c) \/ PruneSighted(c) \/ Adopt(c)
             \/ LostTrack(c) \/ Probe(c) \/ Serve(c)
      PROVE  QueuesOK'
  <2>1. \/ Arrives({In("vanished", c), Lost}) \/ Arrives({In("written", c), Lost})
        \/ Arrives({In("vanished", c), In("written", c), Lost}) \/ Arrives({})
    BY <1>5, SessionArrives
  <2>2. /\ {In("vanished", c), Lost} \subseteq Signals /\ {In("written", c), Lost} \subseteq Signals
        /\ {In("vanished", c), In("written", c), Lost} \subseteq Signals /\ {} \subseteq Signals
    OBVIOUS
  <2> QED BY <2>1, <2>2, <1>1, MoreArrives
<1>6. ASSUME \/ SeeLost \/ SeeWake \/ \E r \in Repositories : SeeRefs(r)
             \/ \E c \in Caches : SeeVanished(c) \/ SeeWithin(c) \/ SeeOutside(c) \/ SeeReleased(c)
      PROVE  QueuesOK'
  <2>1. batch # <<>> /\ batch' = Tail(batch) /\ queue' = queue
    BY <1>6 DEF SeeLost, SeeWake, SeeRefs, SeeVanished, SeeWithin, SeeOutside, SeeReleased,
       Signalled
  <2> QED BY <2>1, SignalTaken
<1>7. ASSUME \/ Saw \/ Asks \/ Reaped \/ PrunedSighted \/ Adopted \/ Take \/ Decide \/ Examine
             \/ Settled \/ UNCHANGED vars
      PROVE  QueuesOK'
  BY <1>7 DEF Saw, Asks, Reaped, PrunedSighted, Adopted, Take, Decide, Examine, Settled, vars, turn
<1> QED
  BY <1>3, <1>4, <1>5, <1>6, <1>7 DEF Next, Session


(* What a turn and a walk note are caches.                                 *)
LEMMA SetsTyped ==
    ASSUME TypeOK, [Next]_vars
    PROVE  SetsOK'
<1> USE TypeParts DEF SetsOK
<1>1. ASSUME Outside \/ (\E c \in Caches : WaiterReports(c)) \/ UNCHANGED vars PROVE SetsOK'
  <2>1. UNCHANGED <<appeared, todo, seen, settled, world, dirty, changed, whole, resurvey, waiting,
                    skipped>>
    BY <1>1 DEF Outside, TakeLock, BuildWrites, LetGo, Chmod, UserRemoves, UserMakes, RefUpdate,
       Request, WaiterReports, Happens, vars, turn, walk, entries, watches
  <2>2. followed' \subseteq followed
    BY <1>1 DEF Outside, TakeLock, BuildWrites, LetGo, Chmod, UserRemoves, UserMakes, RefUpdate,
       Request, WaiterReports, Happens, Gone, vars, watches
  <2> QED BY <2>1, <2>2
<1>2. ASSUME Start \/ Asks \/ Reaped \/ PrunedSighted \/ Adopted \/ Receive \/ Take \/ Settled
      PROVE  SetsOK'
  BY <1>2 DEF Start, Asks, Reaped, PrunedSighted, Adopted, Receive, Take, Settled, Sighting, Ready,
     turn, walk, entries, watches
<1>3. ASSUME Saw PROVE SetsOK'
  BY <1>3 DEF Saw, turn, walk, entries
<1>4. ASSUME Decide PROVE SetsOK'
  BY <1>4 DEF Decide, Resight, Reown, Sighting, walk, entries, watches
<1>5. ASSUME Examine PROVE SetsOK'
  BY <1>5 DEF Examine, Sighting, Ready, entries, watches
<1>6. ASSUME SeeLost \/ SeeWake \/ (\E r \in Repositories : SeeRefs(r)) PROVE SetsOK'
  BY <1>6 DEF SeeLost, SeeWake, SeeRefs, Signalled, walk, watches
<1>7. ASSUME NEW c \in Caches, SeeVanished(c) \/ SeeWithin(c) \/ SeeOutside(c) \/ SeeReleased(c)
      PROVE  SetsOK'
  BY <1>7 DEF SeeVanished, SeeWithin, SeeOutside, SeeReleased, Signalled, Forget, walk, entries,
     watches
<1>8. ASSUME NEW c \in Caches, Sight(c) \/ Ask(c) \/ ReapSettled(c) \/ PruneSighted(c)
      PROVE  SetsOK'
  BY <1>8 DEF Sight, Ask, ReapSettled, PruneSighted, Reap, Gone, Forget, turn, walk, entries,
     watches
<1>9. ASSUME NEW c \in Caches, Adopt(c) \/ LostTrack(c) PROVE SetsOK'
  BY <1>9 DEF Adopt, LostTrack, Follow, turn, walk, entries, watches
<1>10. ASSUME NEW c \in Caches, Probe(c) PROVE SetsOK'
  BY <1>10 DEF Probe, Follow, Forget, turn, walk, entries, watches
<1>11. ASSUME NEW c \in Caches, Serve(c) PROVE SetsOK'
  BY <1>11 DEF Serve, Reap, Gone, Forget, turn, walk, entries, watches
<1> QED
  BY <1>1, <1>2, <1>3, <1>4, <1>5, <1>6, <1>7, <1>8, <1>9, <1>10, <1>11 DEF Next, Session

(* The outside: caches, their locks and what their waiters block on.       *)
LEMMA OutsideTyped ==
    ASSUME TypeOK, [Next]_vars
    PROVE  OutsideOK'
<1> USE TypeParts, WatchAssumption DEF OutsideOK
<1>0. ASSUME Happens PROVE events' \in 0..MaxEvents
  <2>1. events < MaxEvents /\ events' = events + 1
    BY <1>0 DEF Happens
  <2>2. events \in 0..MaxEvents /\ MaxEvents \in Nat
    OBVIOUS
  <2> QED BY ONLY <2>1, <2>2
<1>1. ASSUME NEW c \in Caches, TakeLock(c) \/ BuildWrites(c) \/ LetGo(c) \/ Chmod(c)
      PROVE  OutsideOK'
  BY <1>0, <1>1 DEF TakeLock, BuildWrites, LetGo, Chmod
<1>2. ASSUME NEW c \in Caches, UserRemoves(c) \/ UserMakes(c) PROVE OutsideOK'
  BY <1>0, <1>2 DEF UserRemoves, UserMakes, Gone
<1>3. ASSUME NEW c \in Caches, RefUpdate(c) PROVE OutsideOK'
  BY <1>0, <1>3 DEF RefUpdate
<1>4. ASSUME Request PROVE OutsideOK'
  BY <1>0, <1>4 DEF Request
<1>5. ASSUME NEW c \in Caches, WaiterReports(c) PROVE OutsideOK'
  BY <1>5 DEF WaiterReports, outside
<1>6. ASSUME \/ Start \/ Saw \/ Asks \/ Reaped \/ PrunedSighted \/ Adopted \/ Receive \/ Take
             \/ Decide \/ Examine \/ Settled \/ UNCHANGED vars
      PROVE  OutsideOK'
  BY <1>6 DEF Start, Saw, Asks, Reaped, PrunedSighted, Adopted, Receive, Take, Decide, Examine,
     Settled, outside, vars
<1>7. ASSUME SeeLost \/ SeeWake \/ (\E r \in Repositories : SeeRefs(r)) PROVE OutsideOK'
  BY <1>7 DEF SeeLost, SeeWake, SeeRefs, Signalled
<1>8. ASSUME NEW c \in Caches, SeeVanished(c) \/ SeeWithin(c) \/ SeeOutside(c) \/ SeeReleased(c)
      PROVE  OutsideOK'
  BY <1>8 DEF SeeVanished, SeeWithin, SeeOutside, SeeReleased, Signalled, outside
<1>9. ASSUME NEW c \in Caches, Sight(c) \/ Ask(c) \/ Adopt(c) \/ LostTrack(c) \/ PruneSighted(c)
      PROVE  OutsideOK'
  BY <1>9 DEF Sight, Ask, Adopt, LostTrack, PruneSighted, Prune, outside
<1>10. ASSUME NEW c \in Caches, ReapSettled(c) PROVE OutsideOK'
  BY <1>10 DEF ReapSettled, Reap, Gone
<1>11. ASSUME NEW c \in Caches, Probe(c) PROVE OutsideOK'
  BY <1>11 DEF Probe, outside
<1>12. ASSUME NEW c \in Caches, Serve(c) PROVE OutsideOK'
  BY <1>12 DEF Serve, Reap, Gone, Prune
<1> QED
  BY <1>1, <1>2, <1>3, <1>4, <1>5, <1>6, <1>7, <1>8, <1>9, <1>10, <1>11, <1>12
     DEF Next, Session, Outside

(* The turn, and what is cached.                                           *)
LEMMA TurnTyped ==
    ASSUME TypeOK, [Next]_vars
    PROVE  TurnOK'
<1> USE TypeParts, WatchAssumption DEF TurnOK
<1>1. ASSUME Outside \/ (\E c \in Caches : WaiterReports(c)) \/ UNCHANGED vars PROVE TurnOK'
  <2>1. UNCHANGED <<hooked, pc, round, lost, covered, refs, refsFollowed, survey, memo>>
    BY <1>1 DEF Outside, TakeLock, BuildWrites, LetGo, Chmod, UserRemoves, UserMakes, RefUpdate,
       Request, WaiterReports, Happens, vars, turn, walk, entries, watches
  <2> QED BY <2>1
<1>2. ASSUME Start \/ Asks \/ Reaped \/ PrunedSighted \/ Adopted \/ Receive \/ Settled PROVE TurnOK'
  BY <1>2 DEF Start, Asks, Reaped, PrunedSighted, Adopted, Receive, Settled, Sighting,
     turn, walk, entries, watches
<1>3. ASSUME Saw PROVE TurnOK'
  BY <1>3 DEF Saw, turn, entries
<1>4. ASSUME Decide PROVE TurnOK'
  BY <1>4 DEF Decide, Resight, Reown, Sighting, walk, entries, watches
<1>5. ASSUME Examine \/ Take PROVE TurnOK'
  BY <1>5, TypeOK DEF Examine, Take, Sighting, OutsideOK, walk, entries, watches
<1>6. ASSUME SeeLost \/ SeeWake \/ (\E r \in Repositories : SeeRefs(r)) PROVE TurnOK'
  BY <1>6 DEF SeeLost, SeeWake, SeeRefs, Signalled, walk, watches
<1>7. ASSUME NEW c \in Caches, SeeVanished(c) \/ SeeWithin(c) \/ SeeOutside(c) \/ SeeReleased(c)
      PROVE  TurnOK'
  BY <1>7 DEF SeeVanished, SeeWithin, SeeOutside, SeeReleased, Signalled, Forget, walk, entries,
     watches
<1>8. ASSUME NEW c \in Caches
      PROVE  /\ Asked(c) \in [Caches -> {"none", "active", "settled"}]
             /\ Surveyed(c) \in {"none", "bare", "locks"}
  BY DEF Asked, Surveyed, OutsideOK
<1>9. ASSUME NEW c \in Caches, Sight(c) \/ Ask(c) \/ ReapSettled(c) \/ PruneSighted(c)
      PROVE  TurnOK'
  BY <1>8, <1>9 DEF Sight, Ask, ReapSettled, PruneSighted, Forget, turn, walk, entries, watches
<1>10. ASSUME NEW c \in Caches, Adopt(c) \/ LostTrack(c) PROVE TurnOK'
  BY <1>8, <1>10 DEF Adopt, LostTrack, Follow, turn, walk, entries, watches
<1>11. ASSUME NEW c \in Caches, Probe(c) PROVE TurnOK'
  BY <1>8, <1>11 DEF Probe, Follow, Forget, turn, walk, entries, watches
<1>12. ASSUME NEW c \in Caches, Serve(c) PROVE TurnOK'
  BY <1>8, <1>12 DEF Serve, Forget, turn, walk, entries, watches
<1> QED
  BY <1>1, <1>2, <1>3, <1>4, <1>5, <1>6, <1>7, <1>9, <1>10, <1>11, <1>12 DEF Next, Session

LEMMA TypeStep == ASSUME TypeOK, [Next]_vars PROVE TypeOK'
  BY QueuesTyped, SetsTyped, OutsideTyped, TurnTyped, TypePartsNext

-------------------------------------------------------------------------------
(* Where the turn is.                                                      *)
LEMMA ControlStep ==
    ASSUME TypeOK, Control, [Next]_vars
    PROVE  Control'
<1> USE DEF Control, BatchOfTurn, NoticeOfTurn, NothingCached, SettlesReady, ServesOne
<1>1. ASSUME Outside \/ (\E c \in Caches : WaiterReports(c)) \/ UNCHANGED vars PROVE Control'
  <2>1. UNCHANGED <<batch, pc, round, lost, refs, hooked, memo, todo, waiting, seen>>
    BY <1>1 DEF Outside, TakeLock, BuildWrites, LetGo, Chmod, UserRemoves, UserMakes, RefUpdate,
       Request, WaiterReports, Happens, vars, turn, walk
  <2> QED BY <2>1
<1>2. ASSUME Start PROVE Control'
  BY <1>2 DEF Start, Sighting
<1>3. ASSUME \E c \in Caches : Sight(c) \/ Ask(c) \/ ReapSettled(c) \/ PruneSighted(c)
                               \/ Adopt(c) \/ LostTrack(c)
      PROVE  Control'
  <2>1. /\ UNCHANGED <<batch, pc, round, lost, refs, hooked>>
        /\ pc \in {"sight", "ask", "reap", "prune", "adopt"}
    BY <1>3 DEF Sight, Ask, ReapSettled, PruneSighted, Adopt, LostTrack, Reap, Gone, turn
  <2> QED BY <2>1
<1>4. ASSUME Saw \/ Asks \/ Reaped \/ PrunedSighted PROVE Control'
  <2>1. UNCHANGED <<batch, round, lost, refs, hooked>>
    BY <1>4 DEF Saw, Asks, Reaped, PrunedSighted, turn
  <2>2. \/ pc = "sight" /\ pc' = "ask"
        \/ pc = "ask" /\ pc' = "reap"
        \/ pc = "reap" /\ pc' \in {"prune", "adopt"}
        \/ pc = "reap" /\ round = "reown" /\ pc' = "examine"
        \/ pc = "prune" /\ pc' = "adopt"
    BY <1>4 DEF Saw, Asks, Reaped, PrunedSighted
  <2> QED BY <2>1, <2>2
<1>5. ASSUME Adopted PROVE Control'
  BY <1>5 DEF Adopted, Ready, turn
<1>6. ASSUME Receive \/ Take PROVE Control'
  BY <1>6 DEF Receive, Take
<1>7. ASSUME SeeLost \/ SeeWake \/ (\E r \in Repositories : SeeRefs(r))
             \/ \E c \in Caches : SeeVanished(c) \/ SeeWithin(c) \/ SeeOutside(c) \/ SeeReleased(c)
      PROVE  Control'
  <2>1. pc = "classify" /\ pc' = "classify"
    BY <1>7 DEF SeeLost, SeeWake, SeeRefs, SeeVanished, SeeWithin, SeeOutside, SeeReleased,
       Signalled
  <2> QED BY <2>1
<1>8. ASSUME Decide PROVE Control'
  <2>1. pc = "classify" /\ batch' = <<>> /\ ~lost' /\ refs' = {} /\ hooked' = {}
    BY <1>8 DEF Decide
  <2>2. pc' \in {"sight", "ask", "examine"}
    BY <1>8 DEF Decide, Resight, Reown, Sighting
  <2> QED BY <2>1, <2>2
<1>9. ASSUME Examine PROVE Control'
  <2>1. /\ pc = "examine" /\ UNCHANGED <<batch, lost, refs, hooked, waiting>>
        /\ (pc' = "settle" /\ todo' = Ready) \/ pc' = "sight"
    BY <1>9 DEF Examine, Sighting
  <2> QED BY <2>1 DEF Ready
<1>10. ASSUME NEW c \in Caches, Probe(c) PROVE Control'
  <2>1. /\ pc = "settle" /\ UNCHANGED <<batch, lost, refs, hooked, round>>
        /\ todo' = todo \ {c} /\ waiting' \subseteq waiting \cup {c}
        /\ pc' = "settle" \/ (pc' = "serve" /\ seen' = {c})
    BY <1>10 DEF Probe, turn
  <2> QED BY <2>1
<1>11. ASSUME NEW c \in Caches, Serve(c) PROVE Control'
  <2>1. /\ pc = "serve" /\ pc' = "settle"
        /\ UNCHANGED <<batch, lost, refs, hooked, round, todo, waiting>>
    BY <1>11 DEF Serve, turn
  <2> QED BY <2>1
<1>12. ASSUME Settled PROVE Control'
  BY <1>12 DEF Settled, turn, walk
<1> QED
  BY <1>1, <1>2, <1>3, <1>4, <1>5, <1>6, <1>7, <1>8, <1>9, <1>10, <1>11, <1>12 DEF Next, Session

-------------------------------------------------------------------------------
(* Who waits is counted: by what the waiters block on and have reported.    *)
Blocked(c) == IF blocked[c] = "none" THEN 0 ELSE 1
Waits(c) == IF c \in waiting THEN 1 ELSE 0

(* The reports are left alone by what sends none.                          *)
LEMMA ReportsStay ==
    ASSUME TypeOK, NEW S, S \subseteq Signals, Arrives(S), NEW c \in Caches,
           In("released", c) \notin S
    PROVE  Reports(c)' = Reports(c)
  BY SignalsArrive DEF TypeOK

(* Who blocks on a lock goes on blocking on it when the cache is gone.      *)
LEMMA GoneStillBlocks ==
    ASSUME TypeOK, NEW c \in Caches, Gone(c)
    PROVE  \A d \in Caches : blocked'[d] = "none" <=> blocked[d] = "none"
  BY DEF Gone, TypeOK

LEMMA WaitersStep ==
    ASSUME TypeOK, Control, WaiterReportsOnce, [Next]_vars
    PROVE  WaiterReportsOnce'
<1> USE SignalKinds
<1>0. \A c \in Caches : /\ Reports(c) \in Nat /\ RepositoryOf[c] \in Repositories
                        /\ Reports(c) + Blocked(c) = Waits(c)
  <2>1. Unread \in Seq(Signals)
    BY UnreadIsQueue DEF TypeOK
  <2>2. \A c \in Caches : Reports(c) \in Nat
    BY <2>1, PlacesFinite, ReportsArePlaces
  <2>3. \A c \in Caches : Reports(c) + Blocked(c) = Waits(c)
    BY DEF WaiterReportsOnce, Blocked, Waits
  <2> QED BY <2>2, <2>3, WatchAssumption
<1>1. ASSUME UNCHANGED waiting,
             \A c \in Caches : /\ Reports(c)' = Reports(c)
                               /\ blocked'[c] = "none" <=> blocked[c] = "none"
      PROVE  WaiterReportsOnce'
  BY <1>0, <1>1 DEF WaiterReportsOnce, Blocked, Waits
<1>2. Plain \cup {In("vanished", c) : c \in Caches} \subseteq Signals
  OBVIOUS
<1>3. ASSUME Outside PROVE WaiterReportsOnce'
  <2>1. UNCHANGED waiting
    BY <1>3 DEF Outside, TakeLock, BuildWrites, LetGo, Chmod, UserRemoves, UserMakes, RefUpdate,
       Request, Happens
  <2>2. \A c \in Caches : blocked'[c] = "none" <=> blocked[c] = "none"
    <3>1. blocked' = blocked \/ \E c \in Caches : Gone(c)
      BY <1>3 DEF Outside, TakeLock, BuildWrites, LetGo, Chmod, UserRemoves, UserMakes, RefUpdate,
         Request
    <3> QED BY <3>1, GoneStillBlocks
  <2>3. Arrives(Plain \cup {In("vanished", c) : c \in Caches})
    <3>1. CASE Request
      <4>1. Arrives({Wake, Lost})
        BY <3>1 DEF Request, Happens, Tell, Arrives, turn
      <4> QED BY <4>1, MoreArrives
    <3>2. CASE ~Request
      <4>1. PICK c \in Caches :
              \/ TakeLock(c) \/ BuildWrites(c) \/ LetGo(c) \/ Chmod(c)
              \/ UserRemoves(c) \/ UserMakes(c) \/ RefUpdate(c)
        BY <1>3, <3>2 DEF Outside
      <4>2. \/ Arrives({In("bookkeeping", c), Lost}) \/ Arrives({In("written", c), Lost})
            \/ Arrives({}) \/ Arrives({In("vanished", c), Lost})
            \/ Arrives({In("appeared", c), Lost}) \/ Arrives({Refs(RepositoryOf[c]), Lost, Wake})
        BY <4>1, OutsideArrives
      <4> QED BY <1>0, <4>2, MoreArrives
    <3> QED BY <3>1, <3>2
  <2> QED BY <1>1, <1>2, <2>1, <2>2, <2>3, ReportsStay
<1>4. ASSUME NEW c \in Caches, WaiterReports(c) PROVE WaiterReportsOnce'
  <2>1. /\ blocked[c] # "none" /\ blocked' = [blocked EXCEPT ![c] = "none"] /\ UNCHANGED waiting
        /\ Unread' = Append(Unread, In("released", c))
    BY <1>4, UnreadIsQueue DEF WaiterReports, TypeOK, turn, Unread
  <2>2. Unread \in Seq(Signals)
    BY UnreadIsQueue DEF TypeOK
  <2>3. \A d \in Caches : Reports(d)' = Reports(d) + (IF d = c THEN 1 ELSE 0)
    <3> TAKE d \in Caches
    <3>1. Cardinality(Places(Unread', In("released", d))) =
              Cardinality(Places(Unread, In("released", d)))
                  + (IF In("released", c) = In("released", d) THEN 1 ELSE 0)
      BY <2>1, <2>2, PlacesOfAppend
    <3>2. In("released", c) = In("released", d) <=> d = c
      OBVIOUS
    <3> QED BY <3>1, <3>2, ReportsArePlaces
  <2>4. \A d \in Caches : Blocked(d)' = IF d = c THEN 0 ELSE Blocked(d)
    BY <2>1 DEF TypeOK, Blocked
  <2>5. Blocked(c) = 1
    BY <2>1 DEF Blocked
  <2>6. \A d \in Caches : Reports(d)' + Blocked(d)' = Waits(d)
    BY <1>0, <2>3, <2>4, <2>5 DEF Blocked
  <2> QED BY <2>1, <2>6 DEF WaiterReportsOnce, Blocked, Waits
<1>5. ASSUME Start \/ Receive PROVE WaiterReportsOnce'
  <2>1. batch = <<>> /\ batch' = queue /\ queue' = <<>> /\ UNCHANGED <<waiting, blocked>>
    BY <1>5 DEF Start, Receive, Control, BatchOfTurn, entries
  <2>2. Unread' = Unread
    BY <2>1, BatchReceived DEF TypeOK
  <2> QED BY <1>1, <2>1, <2>2, ReportsArePlaces
<1>6. ASSUME NEW c \in Caches, Sight(c) \/ Ask(c) \/ ReapSettled(c) \/ PruneSighted(c) \/ Adopt(c)
                               \/ LostTrack(c) \/ Serve(c)
      PROVE  WaiterReportsOnce'
  <2>1. UNCHANGED waiting
    BY <1>6 DEF Sight, Ask, ReapSettled, PruneSighted, Adopt, LostTrack, Serve
  <2>2. \A d \in Caches : blocked'[d] = "none" <=> blocked[d] = "none"
    <3>1. blocked' = blocked \/ Gone(c)
      BY <1>6 DEF Sight, Ask, ReapSettled, PruneSighted, Adopt, LostTrack, Serve, Reap
    <3> QED BY <3>1, GoneStillBlocks
  <2>3. Arrives(Plain \cup {In("vanished", d) : d \in Caches})
    <3>1. \/ Arrives({In("vanished", c), Lost}) \/ Arrives({In("written", c), Lost})
          \/ Arrives({In("vanished", c), In("written", c), Lost}) \/ Arrives({})
      BY <1>6, SessionArrives
    <3> QED BY <3>1, MoreArrives
  <2> QED BY <1>1, <1>2, <2>1, <2>2, <2>3, ReportsStay
<1>7. ASSUME NEW c \in Caches, Probe(c) PROVE WaiterReportsOnce'
  <2>1. \A d \in Caches : Reports(d)' = Reports(d)
    <3>1. Arrives({}) /\ {} \subseteq Signals
      BY <1>7, SessionArrives
    <3> QED BY <3>1, ReportsStay
  <2>2. /\ pc = "settle" /\ c \in todo
        /\ \/ UNCHANGED <<waiting, blocked>>
           \/ waiting' = waiting \cup {c} /\ blocked' = [blocked EXCEPT ![c] = "lock"]
    BY <1>7 DEF Probe
  <2>3. CASE UNCHANGED <<waiting, blocked>>
    BY <1>1, <2>1, <2>3
  <2>4. CASE waiting' = waiting \cup {c} /\ blocked' = [blocked EXCEPT ![c] = "lock"]
    <3>1. c \notin waiting
      BY <2>2 DEF Control, SettlesReady
    <3>2. Reports(c) = 0
      BY <1>0, <3>1 DEF Blocked, Waits
    <3>3. \A d \in Caches : /\ Blocked(d)' = IF d = c THEN 1 ELSE Blocked(d)
                            /\ Waits(d)' = IF d = c THEN 1 ELSE Waits(d)
      BY <2>4 DEF TypeOK, Blocked, Waits
    <3>4. \A d \in Caches : Reports(d)' + Blocked(d)' = Waits(d)'
      BY <1>0, <2>1, <3>2, <3>3
    <3> QED BY <3>4 DEF WaiterReportsOnce, Blocked, Waits
  <2> QED BY <2>2, <2>3, <2>4
<1>8. ASSUME NEW c \in Caches, SeeReleased(c) PROVE WaiterReportsOnce'
  <2>1. /\ batch # <<>> /\ batch' = Tail(batch) /\ UNCHANGED <<queue, blocked>>
        /\ Head(batch) = In("released", c) /\ waiting' = waiting \ {c}
    BY <1>8 DEF SeeReleased, Signalled
  <2>2. \A d \in Caches : Reports(d)' = Reports(d) - (IF d = c THEN 1 ELSE 0)
    BY <2>1, SignalTaken DEF TypeOK
  <2>3. \A d \in Caches : Reports(d)' \in Nat
    <3>1. Unread' \in Seq(Signals)
      <4>1. batch' \in Seq(Signals) /\ queue' \in Seq(Signals)
        BY <2>1, SignalTaken DEF TypeOK
      <4> QED BY <4>1, ConcatProperties DEF Unread
    <3> QED BY <3>1, PlacesFinite, ReportsArePlaces
  <2>4. Reports(c) = 1 /\ Blocked(c) = 0
    BY <1>0, <2>2, <2>3 DEF Blocked, Waits
  <2>5. \A d \in Caches : /\ Waits(d)' = (IF d = c THEN 0 ELSE Waits(d))
                          /\ Blocked(d)' = Blocked(d)
    BY <2>1 DEF Waits, Blocked
  <2>6. \A d \in Caches : Reports(d)' + Blocked(d)' = Waits(d)'
    BY <1>0, <2>2, <2>4, <2>5
  <2> QED BY <2>6 DEF WaiterReportsOnce, Blocked, Waits
<1>9. ASSUME SeeLost \/ SeeWake \/ (\E r \in Repositories : SeeRefs(r))
             \/ \E c \in Caches : SeeVanished(c) \/ SeeWithin(c) \/ SeeOutside(c)
      PROVE  WaiterReportsOnce'
  <2>1. /\ batch # <<>> /\ batch' = Tail(batch) /\ UNCHANGED <<queue, blocked, waiting>>
        /\ Head(batch) \in {Lost, Wake} \cup {Refs(r) : r \in Repositories}
             \cup {In(kind, c) : kind \in {"written", "bookkeeping", "appeared", "vanished"},
                                  c \in Caches}
    BY <1>9 DEF SeeLost, SeeWake, SeeRefs, SeeVanished, SeeWithin, SeeOutside, Signalled
  <2>2. \A d \in Caches : Head(batch) # In("released", d)
    <3>1. Head(batch).kind # "released"
      BY <2>1 DEF In, Lost, Wake, Refs
    <3>2. \A d : In("released", d).kind = "released"
      BY DEF In
    <3> QED BY <3>1, <3>2
  <2>3. \A d \in Caches : Reports(d)' = Reports(d)
    <3>1. \A d \in Caches :
            Reports(d)' = Reports(d) - (IF Head(batch) = In("released", d) THEN 1 ELSE 0)
      <4>1. batch # <<>> /\ batch' = Tail(batch) /\ queue' = queue
        BY <2>1
      <4> QED BY <4>1, SignalTaken DEF TypeOK
    <3> QED BY <1>0, <2>2, <3>1
  <2> QED BY <1>1, <2>1, <2>3
<1>10. ASSUME \/ Saw \/ Asks \/ Reaped \/ PrunedSighted \/ Adopted \/ Take \/ Decide \/ Examine
              \/ Settled \/ UNCHANGED vars
       PROVE  WaiterReportsOnce'
  <2>1. UNCHANGED <<batch, queue, blocked, waiting>>
    BY <1>10 DEF Saw, Asks, Reaped, PrunedSighted, Adopted, Take, Decide, Examine, Settled, vars,
       turn
  <2> QED BY <1>1, <2>1 DEF Reports, Unread
<1> QED
  BY <1>3, <1>4, <1>5, <1>6, <1>7, <1>8, <1>9, <1>10 DEF Next, Session

-------------------------------------------------------------------------------
(* What is noted is of a cache that is known, and is on its way.           *)
LEMMA NotedStep ==
    ASSUME TypeOK, Control, Noted, [Next]_vars
    PROVE  Noted'
<1> USE DEF Noted, NotedIsKnown, NotedIsPending
<1>1. ASSUME UNCHANGED <<changed, whole, world, dirty, waiting, skipped>>,
             pc # "serve" \/ UNCHANGED <<pc, seen>>
      PROVE  Noted'
  BY <1>1
<1>2. ASSUME Outside \/ (\E c \in Caches : WaiterReports(c)) \/ UNCHANGED vars PROVE Noted'
  <2>1. UNCHANGED <<changed, whole, world, dirty, waiting, skipped, pc, seen>>
    BY <1>2 DEF Outside, TakeLock, BuildWrites, LetGo, Chmod, UserRemoves, UserMakes, RefUpdate,
       Request, WaiterReports, Happens, vars, walk, entries, watches
  <2> QED BY <2>1, <1>1
<1>3. ASSUME \/ Start \/ Asks \/ Reaped \/ PrunedSighted \/ Adopted \/ Receive \/ Take \/ Decide
             \/ Examine \/ Settled \/ SeeLost \/ SeeWake \/ (\E r \in Repositories : SeeRefs(r))
             \/ \E c \in Caches : Sight(c) \/ Ask(c) \/ PruneSighted(c) \/ SeeOutside(c)
      PROVE  Noted'
  <2>1. UNCHANGED <<changed, whole, world, dirty, waiting, skipped>> /\ pc # "serve"
    BY <1>3 DEF Start, Asks, Reaped, PrunedSighted, Adopted, Receive, Take, Decide, Examine,
       Settled, SeeLost, SeeWake, SeeRefs, Signalled, Sight, Ask, PruneSighted, SeeOutside, entries,
       watches
  <2> QED BY <2>1, <1>1
<1>4. ASSUME Saw PROVE Noted'
  <2>1. PICK gone : /\ changed' = changed \ gone /\ whole' = whole \ gone
                    /\ dirty' = dirty \ gone /\ world' = world \ gone
    BY <1>4 DEF Saw
  <2>2. UNCHANGED <<waiting, skipped>> /\ pc = "sight"
    BY <1>4 DEF Saw
  <2> QED BY <2>1, <2>2
<1>5. ASSUME NEW c \in Caches, ReapSettled(c) \/ SeeVanished(c) PROVE Noted'
  <2>1. /\ pc # "serve" /\ UNCHANGED <<waiting, skipped>>
        /\ Forget(c) \/ UNCHANGED entries
    BY <1>5 DEF ReapSettled, SeeVanished, watches
  <2> QED BY <2>1 DEF Forget, entries
<1>6. ASSUME NEW c \in Caches, Adopt(c) PROVE Noted'
  <2>1. /\ pc # "serve" /\ UNCHANGED <<waiting, skipped, changed>> /\ world' = world \cup {c}
        /\ \/ UNCHANGED <<dirty, whole>>
           \/ dirty' = dirty \cup {c} /\ whole' = whole \cup {c}
    BY <1>6 DEF Adopt
  <2> QED BY <2>1
<1>7. ASSUME NEW c \in Caches, LostTrack(c) PROVE Noted'
  <2>1. /\ pc # "serve" /\ UNCHANGED <<waiting, skipped, whole, world>> /\ c \in world
        /\ \/ UNCHANGED <<dirty, changed>>
           \/ dirty' = dirty \cup {c} /\ changed' \subseteq changed \cup {c}
    BY <1>7 DEF LostTrack, watches
  <2> QED BY <2>1
<1>8. ASSUME NEW c \in Caches, SeeWithin(c) PROVE Noted'
  BY <1>8 DEF SeeWithin, Signalled, watches
<1>9. ASSUME NEW c \in Caches, SeeReleased(c) PROVE Noted'
  BY <1>9 DEF SeeReleased, Signalled, watches
<1>10. ASSUME NEW c \in Caches, Probe(c) PROVE Noted'
  <2>1. /\ pc = "settle"
        /\ \A d \in Caches \ {c} :
              /\ d \in dirty \cup skipped <=> d \in dirty' \cup skipped'
              /\ d \in dirty <=> d \in dirty'
              /\ d \in waiting <=> d \in waiting'
              /\ d \in changed \cup whole <=> d \in changed' \cup whole'
              /\ d \in world <=> d \in world'
    BY <1>10 DEF Probe, Forget
  <2>2. c \in changed' \cup whole' => c \in changed \cup whole /\ c \in world'
    BY <1>10 DEF Probe, Forget
  <2>3. c \in changed' \cup whole' =>
            c \in waiting' \/ c \in skipped' \/ (pc' = "serve" /\ c \in seen')
    BY <1>10 DEF Probe, Forget
  <2>4. changed' \cup whole' \subseteq Caches
    BY TypeStep, TypePartsNext DEF SetsOK
  <2> QED BY <2>1, <2>2, <2>3, <2>4
<1>11. ASSUME NEW c \in Caches, Serve(c) PROVE Noted'
  <2>1. pc = "serve" /\ seen = {c}
    BY <1>11 DEF Serve, Control, ServesOne
  <2>2. /\ UNCHANGED <<waiting, skipped>>
        /\ \/ Forget(c)
           \/ /\ changed' = changed \ {c} /\ whole' = whole \ {c} /\ UNCHANGED <<world, dirty>>
    BY <1>11 DEF Serve
  <2> QED BY <2>1, <2>2 DEF Forget
<1> QED
  BY <1>2, <1>3, <1>4, <1>5, <1>6, <1>7, <1>8, <1>9, <1>10, <1>11 DEF Next, Session

-------------------------------------------------------------------------------
(* What is told is there: the one who removes a cache takes its work along. *)
LEMMA ToldIsThereStep ==
    ASSUME TypeOK, ToldIsThere, [Next]_vars
    PROVE  ToldIsThere'
<1> USE DEF ToldIsThere
<1>1. ASSUME present \subseteq present', told' \subseteq told PROVE ToldIsThere'
  BY <1>1
<1>2. ASSUME NEW c \in Caches, Gone(c) PROVE ToldIsThere'
  BY <1>2 DEF Gone
<1>3. ASSUME NEW c \in Caches, BuildWrites(c) PROVE ToldIsThere'
  BY <1>3 DEF BuildWrites
<1>4. ASSUME NEW c \in Caches, \/ TakeLock(c) \/ LetGo(c) \/ Chmod(c) \/ UserMakes(c)
                               \/ RefUpdate(c) \/ WaiterReports(c)
      PROVE  ToldIsThere'
  BY <1>1, <1>4 DEF TakeLock, LetGo, Chmod, UserMakes, RefUpdate, WaiterReports, outside
<1>5. ASSUME \/ Start \/ Saw \/ Asks \/ Reaped \/ PrunedSighted \/ Adopted \/ Receive \/ Take
             \/ Decide \/ Examine \/ Settled \/ UNCHANGED vars
             \/ SeeLost \/ SeeWake \/ Request \/ \E r \in Repositories : SeeRefs(r)
      PROVE  ToldIsThere'
  BY <1>1, <1>5 DEF Start, Saw, Asks, Reaped, PrunedSighted, Adopted, Receive, Take, Decide,
     Examine, Settled, SeeLost, SeeWake, Request, SeeRefs, Signalled, outside, vars
<1>6. ASSUME NEW c \in Caches,
             \/ SeeVanished(c) \/ SeeWithin(c) \/ SeeOutside(c) \/ SeeReleased(c)
             \/ Sight(c) \/ Ask(c) \/ PruneSighted(c) \/ Adopt(c) \/ LostTrack(c) \/ Probe(c)
      PROVE  ToldIsThere'
  BY <1>1, <1>6 DEF SeeVanished, SeeWithin, SeeOutside, SeeReleased, Signalled, Sight, Ask,
     PruneSighted, Prune, Adopt, LostTrack, Probe, outside
<1>7. ASSUME NEW c \in Caches, ReapSettled(c) \/ Serve(c) PROVE ToldIsThere'
  BY <1>1, <1>2, <1>7 DEF ReapSettled, Serve, Reap, Prune
<1> QED
  BY <1>2, <1>3, <1>4, <1>5, <1>6, <1>7 DEF Next, Session, Outside, UserRemoves

-------------------------------------------------------------------------------
(* What arrives takes nothing away.                                        *)
LEMMA StillAnnounced ==
    ASSUME TypeOK, Arrives(Signals), NEW c
    PROVE  Announced(Unread, c) => Announced(Unread', c)
  BY SignalsArrive, AnnouncedIsHeld DEF TypeOK

(* While signals arrive, and nobody is told of anything.                   *)
LEMMA ToldWhileArriving ==
    ASSUME TypeOK, Told, Arrives(Signals), told' \subseteq told,
           \A c \in told' : Arrives(Signals \ {In("vanished", c)}),
           UNCHANGED <<pc, round, todo, seen, settled, lost, changed, whole>>
    PROVE  Tracked'
<1>1. ASSUME NEW c \in told' PROVE Renewed(Unread', c)
  <2>1. Arrives(Signals \ {In("vanished", c)}) /\ Renewed(Unread, c) /\ c \in Caches
    BY <1>1 DEF Told, Tracked, VanishedIsPast, TypeOK
  <2>2. Signals \ {In("vanished", c)} \subseteq Signals
    OBVIOUS
  <2>3. In("vanished", c) \notin Signals \ {In("vanished", c)}
    OBVIOUS
  <2>4. batch \in Seq(Signals) /\ queue \in Seq(Signals)
    BY DEF TypeOK
  <2> QED BY ONLY <2>1, <2>2, <2>3, <2>4, SignalsArrive
<1>2. \A c : OnTheWalk(c)' = OnTheWalk(c)
  BY DEF OnTheWalk
<1>3. ToldIsTracked'
  <2> SUFFICES ASSUME NEW c \in told'
               PROVE  \/ Announced(Unread', c) \/ lost' \/ c \in changed' \cup whole'
                      \/ round' = "lost" /\ OnTheWalk(c)'
    BY DEF ToldIsTracked
  <2>1. \/ Announced(Unread, c) \/ lost \/ c \in changed \cup whole
        \/ round = "lost" /\ OnTheWalk(c)
    BY DEF Told, Tracked, ToldIsTracked
  <2> QED BY <2>1, <1>2, StillAnnounced
<1>4. ToldIsSighted'
  BY StillAnnounced DEF Told, Tracked, ToldIsSighted
<1> QED
  BY <1>1, <1>3, <1>4 DEF Tracked, VanishedIsPast

(* What the outside does leaves the work that was told to the session.     *)
LEMMA ToldOutside ==
    ASSUME TypeOK, Told, Outside \/ \E c \in Caches : WaiterReports(c)
    PROVE  Tracked'
<1> USE SignalKinds
<1>1. UNCHANGED <<pc, round, todo, seen, settled, lost, changed, whole>>
  BY DEF Outside, TakeLock, BuildWrites, LetGo, Chmod, UserRemoves, UserMakes, RefUpdate, Request,
     WaiterReports, Happens, turn, walk, entries
<1>2. \A c \in Caches : RepositoryOf[c] \in Repositories
  BY WatchAssumption
<1>3. ASSUME Arrives(Plain), told' \subseteq told
      PROVE  Tracked'
  <2>1. Arrives(Signals) /\ \A c : Arrives(Signals \ {In("vanished", c)})
    BY <1>3, MoreArrives
  <2> QED BY <1>1, <1>3, <2>1, ToldWhileArriving
<1>4. ASSUME Request PROVE Tracked'
  <2>1. Arrives({Wake, Lost}) /\ told' = told
    BY <1>4 DEF Request, Happens, Tell, Arrives, turn
  <2> QED BY <1>3, <2>1, MoreArrives
<1>5. ASSUME NEW c \in Caches,
             TakeLock(c) \/ LetGo(c) \/ Chmod(c) \/ UserMakes(c) \/ RefUpdate(c)
      PROVE  Tracked'
  <2>1. told' = told
    BY <1>5 DEF TakeLock, LetGo, Chmod, UserMakes, RefUpdate
  <2>2. \/ Arrives({In("bookkeeping", c), Lost}) \/ Arrives({})
        \/ Arrives({In("appeared", c), Lost})
        \/ Arrives({Refs(RepositoryOf[c]), Lost, Wake})
    BY <1>5, OutsideArrives
  <2>3. Arrives(Plain)
    BY <1>2, <2>2, MoreArrives
  <2> QED BY <1>3, <2>1, <2>3
<1>6. ASSUME NEW c \in Caches, WaiterReports(c)
      PROVE  Tracked'
  <2>1. told' = told /\ Arrives({In("released", c)})
    BY <1>6, OutsideArrives DEF WaiterReports, outside
  <2>2. Arrives(Signals) /\ \A d : Arrives(Signals \ {In("vanished", d)})
    BY <2>1, MoreArrives
  <2> QED BY <1>1, <2>1, <2>2, ToldWhileArriving
<1>7. ASSUME NEW c \in Caches, UserRemoves(c)
      PROVE  Tracked'
  <2>1. told' = told \ {c} /\ Arrives({In("vanished", c), Lost})
    BY <1>7, OutsideArrives DEF UserRemoves, Gone
  <2>2. Arrives(Signals) /\ \A d \in told' : Arrives(Signals \ {In("vanished", d)})
    BY <2>1, MoreArrives
  <2> QED BY <1>1, <2>1, <2>2, ToldWhileArriving
<1>8. ASSUME NEW c \in Caches, BuildWrites(c)
      PROVE  Tracked'
  <2>1. Arrives({In("written", c), Lost})
    BY <1>8, OutsideArrives
  <2>2. Arrives(Plain) /\ Arrives(Signals)
    BY <2>1, MoreArrives
  <2>3. CASE ~Inside(c)
    BY <1>3, <1>8, <2>2, <2>3 DEF BuildWrites
  <2>4. CASE Inside(c)
    <3>1. told' = told \cup {c}
      BY <1>8, <2>4 DEF BuildWrites
    <3>2. PICK s \in {In("written", c), Lost} : queue' = Append(queue, s)
      BY <1>8, <2>4 DEF BuildWrites, TellIf, Tell
    <3>3. Unread' = Append(Unread, s) /\ Unread \in Seq(Signals)
      BY <1>8, <3>2, UnreadIsQueue DEF BuildWrites, Happens, TypeOK, Unread, turn
    <3>4. Renewed(Unread', c) /\ Announced(Unread', c)
      <4>1. s \in Signals /\ s \in Naming(c)
        BY <3>2 DEF Naming
      <4>2. s \in Range(Unread')
        BY <3>3, <4>1, HeldByAppend
      <4> QED BY <3>3, <4>1, <4>2, RenewedByAppend, AnnouncedIsHeld
    <3>5. ASSUME NEW d \in told \ {c} PROVE Renewed(Unread', d)
      BY <2>2, <3>5, SignalsArrive DEF TypeOK, Told, Tracked, VanishedIsPast
    <3>6. \A d : OnTheWalk(d)' = OnTheWalk(d)
      BY <1>1 DEF OnTheWalk
    <3>7. ToldIsTracked'
      <4> SUFFICES ASSUME NEW d \in told'
                   PROVE  \/ Announced(Unread', d) \/ lost' \/ d \in changed' \cup whole'
                          \/ round' = "lost" /\ OnTheWalk(d)'
        BY DEF ToldIsTracked
      <4>1. CASE d = c
        BY <3>4, <4>1
      <4>2. CASE d \in told
        <5>1. \/ Announced(Unread, d) \/ lost \/ d \in changed \cup whole
              \/ round = "lost" /\ OnTheWalk(d)
          BY <4>2 DEF Told, Tracked, ToldIsTracked
        <5> QED BY <1>1, <2>2, <3>6, <5>1, StillAnnounced
      <4> QED BY <3>1, <4>1, <4>2
    <3>8. ToldIsSighted'
      BY <1>1, <2>2, <3>1, <3>4, StillAnnounced DEF Told, Tracked, ToldIsSighted
    <3> QED BY <3>1, <3>4, <3>5, <3>7, <3>8 DEF Tracked, VanishedIsPast
  <2> QED BY <2>3, <2>4
<1> QED
  BY <1>4, <1>5, <1>6, <1>7, <1>8 DEF Outside

(* The ends of the walks, and the walks themselves.                        *)
LEMMA ToldOnWalks ==
    ASSUME TypeOK, Control, Told, Noted,
           \/ Start \/ Saw \/ Asks \/ Reaped \/ PrunedSighted \/ Adopted \/ Receive \/ Take
           \/ Examine \/ Settled \/ UNCHANGED vars
           \/ \E c \in Caches : Sight(c) \/ Ask(c) \/ Adopt(c) \/ LostTrack(c)
    PROVE  Tracked'
<1>1. Unread' = Unread
  <2>1. CASE Start \/ Receive
    BY <2>1, BatchReceived DEF Start, Receive, Control, BatchOfTurn, TypeOK
  <2>2. CASE ~(Start \/ Receive)
    BY <2>2 DEF Saw, Asks, Reaped, PrunedSighted, Adopted, Take, Examine, Settled, Sight, Ask,
       Adopt, LostTrack, Unread, vars, turn
  <2> QED BY <2>1, <2>2
<1>2. told' \subseteq told /\ lost' = lost
  <2>1. told' \subseteq told
    BY DEF Start, Saw, Asks, Reaped, PrunedSighted, Adopted, Receive, Take, Examine, Settled,
       Sight, Ask, Adopt, LostTrack, outside, vars
  <2>2. CASE Take
    BY <2>2 DEF Take, Control, NoticeOfTurn, TypeOK
  <2>3. ASSUME ~Take PROVE lost' = lost
    BY <2>3 DEF Start, Saw, Asks, Reaped, PrunedSighted, Adopted, Receive, Examine, Settled,
       Sight, Ask, Adopt, LostTrack, vars, turn
  <2> QED BY <2>1, <2>2, <2>3
<1>3. VanishedIsPast'
  BY <1>1, <1>2 DEF Told, Tracked, VanishedIsPast
<1>4. ToldIsSighted'
  <2>1. CASE \E c \in Caches : Sight(c)
    BY <1>1, <1>2, <2>1 DEF Sight, Told, Tracked, ToldIsThere, ToldIsSighted
  <2>2. CASE UNCHANGED vars
    BY <1>1, <2>2 DEF vars, outside, walk, Told, Tracked, ToldIsSighted
  <2>3. CASE ~(\E c \in Caches : Sight(c)) /\ ~UNCHANGED vars
    <3>1. pc' # "sight" \/ round' \in {"start", "examine"}
      BY <2>3 DEF Start, Saw, Asks, Reaped, PrunedSighted, Adopted, Receive, Take, Examine,
         Settled, Ask, Adopt, LostTrack, Sighting
    <3> QED BY <3>1 DEF ToldIsSighted
  <2> QED BY <2>1, <2>2, <2>3
<1>5. ToldIsTracked'
  <2> SUFFICES ASSUME NEW c \in told'
               PROVE  \/ Announced(Unread, c) \/ lost' \/ c \in changed' \cup whole'
                      \/ round' = "lost" /\ OnTheWalk(c)'
    BY <1>1 DEF ToldIsTracked
  <2>1. /\ c \in told /\ c \in present /\ c \in Caches
        /\ \/ Announced(Unread, c) \/ lost' \/ c \in changed \cup whole
           \/ round = "lost" /\ OnTheWalk(c)
        /\ pc = "sight" /\ round \in {"lost", "kept"} =>
             c \in todo \cup seen \/ Announced(Unread, c)
    BY <1>2 DEF Told, Tracked, ToldIsThere, ToldIsTracked, ToldIsSighted, TypeOK
  <2>2. CASE Start \/ Receive \/ Take \/ Examine \/ Settled
    <3>1. pc \in {"open", "receive", "take", "examine", "settle"} /\ UNCHANGED <<changed, whole>>
      BY <2>2 DEF Start, Receive, Take, Examine, Settled, entries
    <3> QED BY <2>1, <3>1 DEF OnTheWalk
  <2>3. CASE Saw
    <3>1. /\ pc = "sight" /\ todo = {} /\ pc' = "ask" /\ round' = round
          /\ round = "lost" => seen' = seen
          /\ round \notin {"lost", "kept"} => UNCHANGED <<changed, whole>>
          /\ c \in seen => (c \in changed' \cup whole' <=> c \in changed \cup whole)
      BY <2>3 DEF Saw
    <3> QED BY <2>1, <3>1 DEF OnTheWalk
  <2>4. CASE Asks
    <3>1. /\ pc = "ask" /\ pc' = "reap" /\ seen' = seen \ settled
          /\ UNCHANGED <<changed, whole, round, settled>>
      BY <2>4 DEF Asks, entries
    <3> QED BY <2>1, <3>1 DEF OnTheWalk
  <2>5. CASE Reaped
    <3>1. /\ pc = "reap" /\ settled = {} /\ todo' = seen
          /\ round = "lost" => pc' = "adopt"
          /\ UNCHANGED <<changed, whole, round>>
      BY <2>5 DEF Reaped, entries
    <3> QED BY <2>1, <3>1 DEF OnTheWalk
  <2>6. CASE PrunedSighted
    <3>1. pc = "prune" /\ UNCHANGED <<changed, whole>>
      BY <2>6 DEF PrunedSighted, entries
    <3> QED BY <2>1, <3>1 DEF OnTheWalk
  <2>7. CASE Adopted
    <3>1. pc = "adopt" /\ todo = {} /\ UNCHANGED <<changed, whole>>
      BY <2>7 DEF Adopted, entries
    <3> QED BY <2>1, <3>1 DEF OnTheWalk
  <2>8. CASE UNCHANGED vars
    <3>1. UNCHANGED <<changed, whole, round, pc, todo, seen, settled>>
      BY <2>8 DEF vars, entries, walk
    <3> QED BY <2>1, <3>1 DEF OnTheWalk
  <2>9. ASSUME NEW d \in Caches, Sight(d)
        PROVE  \/ Announced(Unread, c) \/ lost' \/ c \in changed' \cup whole'
               \/ round' = "lost" /\ OnTheWalk(c)'
    <3>1. /\ pc = "sight" /\ pc' = "sight" /\ todo' = todo \ {d} /\ seen \subseteq seen'
          /\ d \in present => d \in seen'
          /\ UNCHANGED <<changed, whole, round>>
      BY <2>9 DEF Sight, entries
    <3> QED BY <2>1, <3>1 DEF OnTheWalk
  <2>10. ASSUME NEW d \in Caches, Ask(d)
         PROVE  \/ Announced(Unread, c) \/ lost' \/ c \in changed' \cup whole'
                \/ round' = "lost" /\ OnTheWalk(c)'
    <3>1. pc = "ask" /\ pc' = "ask" /\ UNCHANGED <<changed, whole, round, seen>>
      BY <2>10 DEF Ask, entries
    <3> QED BY <2>1, <3>1 DEF OnTheWalk
  <2>11. ASSUME NEW d \in Caches, Adopt(d)
         PROVE  \/ Announced(Unread, c) \/ lost' \/ c \in changed' \cup whole'
                \/ round' = "lost" /\ OnTheWalk(c)'
    <3>1. /\ pc = "adopt" /\ pc' = "adopt" /\ todo' = todo \ {d} /\ UNCHANGED <<changed, round>>
          /\ whole \subseteq whole'
          /\ round = "lost" => d \in whole'
      BY <2>11 DEF Adopt
    <3> QED BY <2>1, <3>1 DEF OnTheWalk
  <2>12. ASSUME NEW d \in Caches, LostTrack(d)
         PROVE  \/ Announced(Unread, c) \/ lost' \/ c \in changed' \cup whole'
                \/ round' = "lost" /\ OnTheWalk(c)'
    <3>1. /\ pc = "adopt" /\ pc' = "adopt" /\ todo' = todo \ {d} /\ UNCHANGED <<whole, round>>
          /\ changed \subseteq changed'
      BY <2>12 DEF LostTrack
    <3>2. ASSUME round = "lost", c = d, c \notin changed' \cup whole' PROVE Announced(queue, c)
      BY <2>12, <3>1, <3>2 DEF LostTrack
    <3>3. Announced(queue, c) => Announced(Unread, c)
      BY AnnouncedIsHeld, UnreadIsQueue DEF TypeOK
    <3> QED BY <2>1, <3>1, <3>2, <3>3 DEF OnTheWalk
  <2> QED BY <2>2, <2>3, <2>4, <2>5, <2>6, <2>7, <2>8, <2>9, <2>10, <2>11, <2>12
<1> QED
  BY <1>3, <1>4, <1>5 DEF Tracked

(* A signal is classified: what it names is noted, or the work is gone.    *)
LEMMA ToldOnReading ==
    ASSUME TypeOK, Control, Told, Noted,
           \/ SeeLost \/ SeeWake \/ (\E r \in Repositories : SeeRefs(r))
           \/ \E c \in Caches : SeeVanished(c) \/ SeeWithin(c) \/ SeeOutside(c) \/ SeeReleased(c)
    PROVE  Tracked'
<1>1. /\ pc = "classify" /\ pc' = "classify" /\ UNCHANGED round
      /\ batch # <<>> /\ batch' = Tail(batch) /\ queue' = queue
  BY DEF SeeLost, SeeWake, SeeRefs, SeeVanished, SeeWithin, SeeOutside, SeeReleased, Signalled, walk
<1>2. told' \subseteq told
  BY DEF SeeLost, SeeWake, SeeRefs, SeeVanished, SeeWithin, SeeOutside, SeeReleased, Signalled,
     outside
<1>3. /\ Range(Unread) = Range(Unread') \cup {Head(batch)}
      /\ \A c : Renewed(Unread, c) =>
           /\ Renewed(Unread', c)
           /\ Head(batch) = In("vanished", c) => Range(Unread') \cap Naming(c) # {}
  BY <1>1, SignalTaken DEF TypeOK
<1>4. \A c : Announced(Unread, c) /\ Head(batch) \notin Naming(c) => Announced(Unread', c)
  BY <1>3, AnnouncedIsHeld
<1>5. VanishedIsPast'
  BY <1>2, <1>3 DEF Told, Tracked, VanishedIsPast
<1>6. ToldIsSighted'
  BY <1>1 DEF ToldIsSighted
<1>7. ASSUME NEW c \in told'
      PROVE  Announced(Unread', c) \/ lost' \/ c \in changed' \cup whole'
  <2>1. /\ c \in told /\ c \in Caches /\ Renewed(Unread, c)
        /\ Announced(Unread, c) \/ lost \/ c \in changed \cup whole
    BY <1>1, <1>2, <1>7 DEF Told, Tracked, VanishedIsPast, ToldIsTracked, OnTheWalk, TypeOK
  <2>2. CASE SeeLost
    BY <2>2 DEF SeeLost
  <2>3. CASE SeeWake \/ (\E r \in Repositories : SeeRefs(r)) \/ (\E d \in Caches : SeeReleased(d))
    <3>1. Head(batch) \notin Naming(c)
      <4>1. Head(batch).kind \in {"wake", "refs", "released"}
        <5>1. \/ Head(batch) = Wake \/ \E r \in Repositories : Head(batch) = Refs(r)
              \/ \E d \in Caches : Head(batch) = In("released", d)
          BY <2>3 DEF SeeWake, SeeRefs, SeeReleased, Signalled
        <5> QED BY <5>1 DEF In, Wake, Refs
      <4>2. \A s \in Naming(c) : s.kind \in {"written", "bookkeeping", "lost"}
        BY DEF Naming, In, Lost
      <4> QED BY <4>1, <4>2
    <3>2. UNCHANGED <<changed, whole, lost>>
      BY <2>3 DEF SeeWake, SeeRefs, SeeReleased
    <3> QED BY <1>4, <2>1, <3>1, <3>2
  <2>4. ASSUME NEW d \in Caches, SeeVanished(d)
        PROVE  Announced(Unread', c) \/ lost' \/ c \in changed' \cup whole'
    <3>1. Head(batch) = In("vanished", d) /\ lost' = lost
      BY <2>4 DEF SeeVanished
    <3>2. Head(batch) \notin Naming(c)
      BY <3>1 DEF Naming, In, Lost
    <3>3. CASE c = d
      BY <1>3, <2>1, <3>1, <3>3, AnnouncedIsHeld
    <3>4. CASE c # d
      <4>1. c \in changed' \cup whole' <=> c \in changed \cup whole
        BY <2>4, <3>4 DEF SeeVanished, Forget, entries
      <4> QED BY <1>4, <2>1, <3>1, <3>2, <4>1
    <3> QED BY <3>3, <3>4
  <2>5. ASSUME NEW d \in Caches, SeeWithin(d)
        PROVE  Announced(Unread', c) \/ lost' \/ c \in changed' \cup whole'
    <3>1. /\ Head(batch) \in {In(kind, d) : kind \in {"written", "bookkeeping", "appeared"}}
          /\ changed' = changed \cup {d} /\ UNCHANGED <<lost, whole>>
      BY <2>5 DEF SeeWithin, Signalled
    <3>2. c # d => Head(batch) \notin Naming(c)
      BY <3>1 DEF Naming, In, Lost
    <3> QED BY <1>4, <2>1, <3>1, <3>2
  <2>6. ASSUME NEW d \in Caches, SeeOutside(d)
        PROVE  Announced(Unread', c) \/ lost' \/ c \in changed' \cup whole'
    <3>1. /\ Head(batch) \in {In(kind, d) : kind \in {"written", "bookkeeping", "appeared"}}
          /\ UNCHANGED <<lost, changed, whole>>
      BY <2>6 DEF SeeOutside, Signalled
    <3>2. c # d => Head(batch) \notin Naming(c)
      BY <3>1 DEF Naming, In, Lost
    <3>3. ASSUME c = d PROVE Announced(Unread', c) \/ Head(batch) \notin Naming(c)
      <4>1. CASE Head(batch).kind = "appeared"
        BY <4>1 DEF Naming, In, Lost
      <4>2. CASE Head(batch).kind # "appeared"
        <5>1. Announced(Tail(batch) \o queue, c)
          BY <1>7, <2>6, <3>3, <4>2 DEF SeeOutside
        <5> QED BY <1>1, <5>1 DEF Unread
      <4> QED BY <4>1, <4>2
    <3> QED BY <1>4, <2>1, <3>1, <3>2, <3>3
  <2> QED BY <2>2, <2>3, <2>4, <2>5, <2>6
<1> QED
  BY <1>5, <1>6, <1>7 DEF Tracked, ToldIsTracked

(* A loss sends the session over everything.                               *)
LEMMA ToldOnDecision ==
    ASSUME TypeOK, Control, Told, Decide
    PROVE  Tracked'
<1>1. /\ pc = "classify" /\ UNCHANGED <<told, changed, whole, batch, queue>>
  BY DEF Decide, outside, entries
<1>2. Unread' = Unread
  BY <1>1 DEF Unread
<1>3. \/ lost /\ round' = "lost" /\ pc' = "sight" /\ todo' = Caches
      \/ ~lost /\ pc' = "sight" => round' = "kept" /\ todo' = Caches
  BY DEF Decide, Resight, Reown, Sighting, TypeOK
<1>4. \A c \in told : Announced(Unread, c) \/ lost \/ c \in changed \cup whole
  BY <1>1 DEF Told, Tracked, ToldIsTracked, OnTheWalk
<1>5. \A c \in told : c \in Caches
  BY DEF TypeOK
<1>6. VanishedIsPast'
  BY <1>1, <1>2 DEF Told, Tracked, VanishedIsPast
<1>7. CASE lost
  <2>1. round' = "lost" /\ pc' = "sight" /\ todo' = Caches
    BY <1>7 DEF Decide, Resight, Sighting
  <2>2. ToldIsTracked'
    BY <1>1, <1>5, <2>1 DEF ToldIsTracked, OnTheWalk
  <2>3. ToldIsSighted'
    BY <1>1, <1>5, <2>1 DEF ToldIsSighted
  <2> QED BY <1>6, <2>2, <2>3 DEF Tracked
<1>8. CASE ~lost
  <2>1. pc' = "sight" => todo' = Caches
    BY <1>1, <1>8 DEF Decide, Resight, Reown, Sighting
  <2>2. ToldIsTracked'
    BY <1>1, <1>2, <1>4, <1>8 DEF ToldIsTracked
  <2>3. ToldIsSighted'
    BY <1>1, <1>5, <2>1 DEF ToldIsSighted
  <2> QED BY <1>6, <2>2, <2>3 DEF Tracked
<1> QED
  BY <1>7, <1>8

(* A reap or a prune leaves no work of its cache but what is unread.       *)
LEMMA ToldOnServing ==
    ASSUME TypeOK, Control, Told,
           NEW c \in Caches, ReapSettled(c) \/ PruneSighted(c) \/ Probe(c) \/ Serve(c)
    PROVE  Tracked'
<1> USE SignalKinds
<1>1. /\ told' \subseteq told /\ lost' = lost /\ round' = round
      /\ pc \in {"reap", "prune", "settle", "serve"} /\ pc' \in {pc, "settle", "serve"}
  BY DEF ReapSettled, PruneSighted, Probe, Serve, Reap, Gone, Prune, outside, turn
<1>2. /\ Arrives(Signals)
      /\ \A d \in told' : Arrives(Signals \ {In("vanished", d)})
  <2>1. CASE PruneSighted(c) \/ Probe(c)
    <3>1. Arrives({In("written", c), Lost}) \/ Arrives({})
      BY <2>1, SessionArrives
    <3> QED BY <3>1, MoreArrives
  <2>2. CASE (ReapSettled(c) \/ Serve(c)) /\ c \notin told'
    <3>1. Arrives({In("vanished", c), Lost}) \/ Arrives({In("vanished", c), In("written", c), Lost})
      BY <2>2, SessionArrives
    <3> QED BY <2>2, <3>1, MoreArrives
  <2>3. CASE (ReapSettled(c) \/ Serve(c)) /\ c \in told'
    <3>1. \/ UNCHANGED queue
          \/ queue' \in TellIf(TRUE, queue, In("written", c))
      BY <2>3 DEF ReapSettled, Serve, Reap, Gone, Prune, TellIf
    <3>2. batch' = batch
      BY <2>3 DEF ReapSettled, Serve, turn
    <3>3. Arrives({In("written", c), Lost})
      BY <3>1, <3>2 DEF TellIf, Tell, Arrives
    <3> QED BY <3>3, MoreArrives
  <2> QED BY <2>1, <2>2, <2>3
<1>3. VanishedIsPast'
  <2> SUFFICES ASSUME NEW d \in told' PROVE Renewed(Unread', d)
    BY DEF VanishedIsPast
  <2>1. Arrives(Signals \ {In("vanished", d)}) /\ Renewed(Unread, d) /\ d \in Caches
    BY <1>1, <1>2 DEF Told, Tracked, VanishedIsPast, TypeOK
  <2>2. Signals \ {In("vanished", d)} \subseteq Signals
    OBVIOUS
  <2>3. In("vanished", d) \notin Signals \ {In("vanished", d)}
    OBVIOUS
  <2>4. batch \in Seq(Signals) /\ queue \in Seq(Signals)
    BY DEF TypeOK
  <2> QED BY ONLY <2>1, <2>2, <2>3, <2>4, SignalsArrive
<1>4. ASSUME NEW d \in told'
      PROVE  \/ Announced(Unread', d) \/ lost' \/ d \in changed' \cup whole'
             \/ round' = "lost" /\ OnTheWalk(d)'
  <2>1. /\ d \in told /\ d \in present
        /\ \/ Announced(Unread, d) \/ lost \/ d \in changed \cup whole
           \/ round = "lost" /\ pc = "reap" /\ d \in seen \cup settled
    BY <1>1 DEF Told, Tracked, ToldIsThere, ToldIsTracked, OnTheWalk
  <2>2. CASE Announced(Unread, d)
    BY <1>2, <2>2, StillAnnounced
  <2>3. CASE d = c /\ ~Announced(Unread, d)
    <3>1. Probe(c)
      BY <2>3 DEF ReapSettled, PruneSighted, Serve, Reap, Gone, Prune, Unread
    <3>2. c \in changed' \cup whole' <=> c \in changed \cup whole
      BY <2>1, <2>3, <3>1 DEF Probe, Surveyed, TypeOK
    <3> QED BY <1>1, <2>1, <2>3, <3>1, <3>2 DEF Probe
  <2>4. CASE d # c /\ ~Announced(Unread, d)
    <3>1. d \in changed' \cup whole' <=> d \in changed \cup whole
      BY <2>4 DEF ReapSettled, PruneSighted, Probe, Serve, Forget, entries
    <3>2. pc = "reap" => pc' = "reap" /\ seen' = seen /\ settled' = settled \ {c}
      BY DEF ReapSettled, PruneSighted, Probe, Serve
    <3> QED BY <1>1, <2>1, <2>4, <3>1, <3>2 DEF OnTheWalk
  <2> QED BY <2>2, <2>3, <2>4
<1>5. ToldIsTracked'
  BY <1>4 DEF ToldIsTracked
<1>6. ToldIsSighted'
  BY <1>1 DEF ToldIsSighted
<1> QED
  BY <1>3, <1>5, <1>6 DEF Tracked

LEMMA ToldStep ==
    ASSUME TypeOK, Control, Told, Noted, [Next]_vars
    PROVE  Told'
<1>1. ToldIsThere'
  BY ToldIsThereStep DEF Told
<1>2. Tracked'
  BY ToldOutside, ToldOnWalks, ToldOnReading, ToldOnDecision, ToldOnServing DEF Next, Session
<1> QED
  BY <1>1, <1>2 DEF Told

-------------------------------------------------------------------------------
(* A repository is noticed: its update, or a loss, is still unread or is to *)
(* be decided upon, or a hook names it.                                    *)
Noticed(r) ==
    \/ lost \/ Lost \in Range(Unread) \/ Refs(r) \in Range(Unread)
    \/ {r, Everything} \cap (raised \cup hooked \cup refs) # {}

LEMMA StaleIsOfNoticed ==
    /\ StaleIsNoticed <=>
         \A c \in Caches : memo[c] \notin {"none", standing[c]} => Noticed(RepositoryOf[c])
    /\ StaleIsNoticed' <=>
         \A c \in Caches : memo'[c] \notin {"none", standing'[c]} => Noticed(RepositoryOf[c])'
  BY DEF StaleIsNoticed, Noticed, Range

(* Nothing is overlooked that was noticed, and git is believed once.        *)
LEMMA StaleStays ==
    ASSUME TypeOK, StaleIsNoticed, standing' = standing,
           \A c \in Caches : memo'[c] \in {memo[c], "none", standing[c]},
           \A r \in Repositories : Noticed(r) => Noticed(r)'
    PROVE  StaleIsNoticed'
  BY StaleIsOfNoticed, WatchAssumption

LEMMA NoticedStays ==
    ASSUME UNCHANGED <<lost, hooked, refs>>, raised \subseteq raised',
           Range(Unread) \subseteq Range(Unread'), NEW r
    PROVE  Noticed(r) => Noticed(r)'
  BY DEF Noticed

LEMMA StaleStep ==
    ASSUME TypeOK, Control, StaleIsNoticed, [Next]_vars,
           \A c \in Caches : Depth = "recursive" \/ RepositoryOf[c] \in Hooks
    PROVE  StaleIsNoticed'
<1> USE SignalKinds
<1>1. \A c \in Caches : RepositoryOf[c] \in Repositories
  BY WatchAssumption
<1>2. Arrives(Signals) => Range(Unread) \subseteq Range(Unread')
  BY SignalsArrive DEF TypeOK
<1>3. ASSUME Request PROVE StaleIsNoticed'
  <2>1. /\ UNCHANGED <<lost, hooked, refs, memo, standing>> /\ raised \subseteq raised'
        /\ Arrives({Wake, Lost})
    BY <1>3 DEF Request, Happens, Tell, Arrives, turn
  <2>2. Range(Unread) \subseteq Range(Unread')
    BY <1>2, <2>1, MoreArrives
  <2> QED BY <2>1, <2>2, NoticedStays, StaleStays
<1>4. ASSUME NEW c \in Caches, \/ TakeLock(c) \/ BuildWrites(c) \/ LetGo(c) \/ Chmod(c)
                               \/ UserRemoves(c) \/ UserMakes(c) \/ WaiterReports(c)
      PROVE  StaleIsNoticed'
  <2>1. UNCHANGED <<lost, hooked, refs, memo, standing, raised>>
    BY <1>4 DEF TakeLock, BuildWrites, LetGo, Chmod, UserRemoves, UserMakes, WaiterReports,
       Happens, outside, turn
  <2>2. \/ Arrives({In("bookkeeping", c), Lost}) \/ Arrives({In("written", c), Lost})
        \/ Arrives({}) \/ Arrives({In("vanished", c), Lost})
        \/ Arrives({In("appeared", c), Lost}) \/ Arrives({In("released", c)})
    BY <1>4, OutsideArrives
  <2>3. Range(Unread) \subseteq Range(Unread')
    BY <1>2, <2>2, MoreArrives
  <2> QED BY <2>1, <2>3, NoticedStays, StaleStays
<1>5. ASSUME NEW c \in Caches, RefUpdate(c) PROVE StaleIsNoticed'
  <2> DEFINE r == RepositoryOf[c]
  <2>1. /\ UNCHANGED <<lost, hooked, refs, memo>> /\ raised \subseteq raised'
        /\ \A d \in Caches \ {c} : standing'[d] = standing[d]
    BY <1>5 DEF RefUpdate, Happens, turn, TypeOK
  <2>2. Arrives({Refs(r), Lost, Wake})
    BY <1>5, OutsideArrives
  <2>3. Range(Unread) \subseteq Range(Unread')
    BY <1>1, <1>2, <2>2, MoreArrives
  <2>4. Noticed(r)'
    <3>1. CASE r \in Hooks
      <4>1. r \in raised'
        BY <1>5, <3>1 DEF RefUpdate
      <4> QED BY <4>1 DEF Noticed
    <3>2. CASE r \notin Hooks
      <4>1. PICK s \in {Refs(r), Lost} : queue' = Append(queue, s)
        BY <1>5, <3>2 DEF RefUpdate, RefsSeen, TellIf, Tell
      <4>2. s \in Signals /\ Unread' = Append(Unread, s) /\ Unread \in Seq(Signals)
        BY <1>1, <2>2, <4>1, UnreadIsQueue DEF Arrives, TypeOK, Unread
      <4>3. s \in Range(Unread')
        BY <4>2, HeldByAppend
      <4> QED BY <4>3 DEF Noticed
    <3> QED BY <3>1, <3>2
  <2>5. \A q \in Repositories : Noticed(q) => Noticed(q)'
    BY <2>1, <2>3, NoticedStays
  <2> HIDE DEF r
  <2>6. ASSUME NEW d \in Caches, memo'[d] \notin {"none", standing'[d]}
        PROVE  Noticed(RepositoryOf[d])'
    <3>1. CASE d = c
      BY <2>4, <3>1 DEF r
    <3>2. CASE d # c
      BY <1>1, <2>1, <2>5, <2>6, <3>2, StaleIsOfNoticed
    <3> QED BY <3>1, <3>2
  <2> QED BY <2>6, StaleIsOfNoticed
<1>6. ASSUME Start PROVE StaleIsNoticed'
  <2>1. memo' = [c \in Caches |-> "none"]
    BY <1>6 DEF Start, Control, NothingCached
  <2> QED BY <2>1, StaleIsOfNoticed
<1>7. ASSUME NEW c \in Caches, \/ Sight(c) \/ Ask(c) \/ ReapSettled(c) \/ PruneSighted(c)
                               \/ Adopt(c) \/ LostTrack(c) \/ Probe(c) \/ Serve(c)
      PROVE  StaleIsNoticed'
  <2>1. UNCHANGED <<lost, hooked, refs, standing, raised>>
    BY <1>7 DEF Sight, Ask, ReapSettled, PruneSighted, Adopt, LostTrack, Probe, Serve, outside, turn
  <2>2. memo' \in {memo, Asked(c)}
    BY <1>7 DEF Sight, Ask, ReapSettled, PruneSighted, Adopt, LostTrack, Probe, Serve
  <2>3. \A d \in Caches : memo'[d] \in {memo[d], "none", standing[d]}
    <3>1. CASE memo' = memo
      BY <3>1
    <3>2. CASE memo' = Asked(c) /\ memo' # memo
      <4>1. memo' = [memo EXCEPT ![c] = standing[c]]
        BY <3>2 DEF Asked
      <4> QED BY <4>1 DEF TypeOK
    <3> QED BY <2>2, <3>1, <3>2
  <2>4. \/ Arrives({In("vanished", c), Lost}) \/ Arrives({In("written", c), Lost})
        \/ Arrives({In("vanished", c), In("written", c), Lost}) \/ Arrives({})
    BY <1>7, SessionArrives
  <2>5. Range(Unread) \subseteq Range(Unread')
    BY <1>2, <2>4, MoreArrives
  <2> QED BY <2>1, <2>3, <2>5, NoticedStays, StaleStays
<1>8. ASSUME \/ Saw \/ Asks \/ Reaped \/ PrunedSighted \/ Adopted \/ Receive \/ Examine \/ Settled
             \/ UNCHANGED vars
      PROVE  StaleIsNoticed'
  <2>1. UNCHANGED <<lost, hooked, refs, standing, raised, memo>>
    BY <1>8 DEF Saw, Asks, Reaped, PrunedSighted, Adopted, Receive, Examine, Settled, vars,
       outside, turn
  <2>2. Unread' = Unread
    <3>1. CASE Receive
      BY <3>1, BatchReceived DEF Receive, Control, BatchOfTurn, TypeOK
    <3>2. CASE ~Receive
      BY <1>8, <3>2 DEF Saw, Asks, Reaped, PrunedSighted, Adopted, Examine, Settled, vars, turn,
         Unread
    <3> QED BY <3>1, <3>2
  <2> QED BY <2>1, <2>2, NoticedStays, StaleStays
<1>9. ASSUME Take PROVE StaleIsNoticed'
  <2>1. /\ ~lost /\ refs = {} /\ hooked = {} /\ hooked' = raised /\ UNCHANGED <<memo, standing>>
        /\ Unread' = Unread
    BY <1>9 DEF Take, Control, NoticeOfTurn, Unread
  <2>2. \A r \in Repositories : Noticed(r) => Noticed(r)'
    BY <2>1 DEF Noticed
  <2> QED BY <2>1, <2>2, StaleStays
<1>10. ASSUME \/ SeeLost \/ SeeWake \/ (\E r \in Repositories : SeeRefs(r))
              \/ \E c \in Caches : SeeVanished(c) \/ SeeWithin(c) \/ SeeOutside(c) \/ SeeReleased(c)
       PROVE  StaleIsNoticed'
  <2>1. /\ batch # <<>> /\ batch' = Tail(batch) /\ queue' = queue
        /\ UNCHANGED <<memo, standing, raised, hooked>> /\ refs \subseteq refs'
    BY <1>10 DEF SeeLost, SeeWake, SeeRefs, SeeVanished, SeeWithin, SeeOutside, SeeReleased,
       Signalled, outside
  <2>2. Range(Unread) = Range(Unread') \cup {Head(batch)}
    BY <2>1, SignalTaken DEF TypeOK
  <2>3. lost => lost'
    BY <1>10 DEF SeeLost, SeeWake, SeeRefs, SeeVanished, SeeWithin, SeeOutside, SeeReleased
  <2>4. Head(batch) = Lost => lost'
    <3>1. CASE SeeLost
      BY <3>1 DEF SeeLost
    <3>2. CASE ~SeeLost
      <4>1. \/ Head(batch) = Wake \/ \E r \in Repositories : Head(batch) = Refs(r)
            \/ \E c \in Caches,
                  kind \in {"written", "bookkeeping", "appeared", "vanished", "released"} :
                 Head(batch) = In(kind, c)
        BY <1>10, <3>2 DEF SeeWake, SeeRefs, SeeVanished, SeeWithin, SeeOutside, SeeReleased,
           Signalled
      <4>2. Head(batch) # Lost
        BY <4>1 DEF Wake, Lost, Refs, In
      <4> QED BY <4>2
    <3> QED BY <3>1, <3>2
  <2>5. ASSUME NEW r \in Repositories, Head(batch) = Refs(r) PROVE r \in refs'
    <3>1. CASE \E q \in Repositories : SeeRefs(q)
      <4>1. PICK q \in Repositories : SeeRefs(q)
        BY <3>1
      <4>2. Head(batch) = Refs(q) /\ refs' = refs \cup {q}
        BY <4>1 DEF SeeRefs, Signalled
      <4>3. q = r
        BY <2>5, <4>2 DEF Refs
      <4> QED BY <4>2, <4>3
    <3>2. CASE ~(\E q \in Repositories : SeeRefs(q))
      <4>1. \/ Head(batch) = Wake \/ Head(batch) = Lost
            \/ \E c \in Caches,
                  kind \in {"written", "bookkeeping", "appeared", "vanished", "released"} :
                 Head(batch) = In(kind, c)
        BY <1>10, <3>2 DEF SeeLost, SeeWake, SeeVanished, SeeWithin, SeeOutside, SeeReleased,
           Signalled
      <4>2. Head(batch) # Refs(r)
        BY <4>1 DEF Wake, Lost, Refs, In
      <4> QED BY <2>5, <4>2
    <3> QED BY <3>1, <3>2
  <2>6. \A r \in Repositories : Noticed(r) => Noticed(r)'
    BY <2>1, <2>2, <2>3, <2>4, <2>5 DEF Noticed
  <2> QED BY <2>1, <2>6, StaleStays
<1>11. ASSUME Decide PROVE StaleIsNoticed'
  <2>1. /\ pc = "classify" /\ batch = <<>> /\ UNCHANGED <<standing, raised, queue, batch>>
    BY <1>11 DEF Decide, outside
  <2>2. Unread' = Unread
    BY <2>1 DEF Unread
  <2>3. \/ memo' = [c \in Caches |-> "none"]
        \/ /\ ~lost /\ hooked \subseteq {Everything} \cup (Repositories \cap Asking)
           /\ Everything \notin hooked
           /\ memo' = [c \in Caches |-> IF RepositoryOf[c] \in Asking THEN "none" ELSE memo[c]]
        \/ ~lost /\ hooked = {} /\ refs = {} /\ memo' = memo
    BY <1>1, <1>11 DEF Decide, Resight, Reown, Sighting, Asking, TypeOK
  <2>4. ASSUME NEW c \in Caches, memo'[c] \notin {"none", standing'[c]}
        PROVE  Noticed(RepositoryOf[c])'
    <3>1. memo'[c] = memo[c] /\ Noticed(RepositoryOf[c])
      BY <2>1, <2>3, <2>4, StaleIsOfNoticed
    <3>2. ~lost /\ RepositoryOf[c] \notin hooked \cup refs /\ Everything \notin hooked \cup refs
      BY <1>1, <2>3, <2>4, EverythingAssumption DEF Asking, TypeOK
    <3> QED BY <2>1, <2>2, <3>1, <3>2 DEF Noticed
  <2> QED BY <2>4, StaleIsOfNoticed
<1> QED
  BY <1>3, <1>4, <1>5, <1>6, <1>7, <1>8, <1>9, <1>10, <1>11 DEF Next, Session, Outside

-------------------------------------------------------------------------------
LEMMA InitInv == Init => IInv /\ StaleIsNoticed
<1> SUFFICES ASSUME Init PROVE IInv /\ StaleIsNoticed
  OBVIOUS
<1>1. TypeOK
  BY InitTypes
<1>2. batch = <<>> /\ queue = <<>> /\ Unread = <<>>
  BY ConcatEmptySeq, EmptySeq DEF Init, Unread
<1>3. Control
  BY DEF Init, Control, BatchOfTurn, NoticeOfTurn, NothingCached, SettlesReady, ServesOne
<1>4. Told
  BY DEF Init, Told, Tracked, ToldIsThere, VanishedIsPast, ToldIsTracked, ToldIsSighted
<1>5. Noted
  BY DEF Init, Noted, NotedIsKnown, NotedIsPending
<1>6. WaiterReportsOnce
  <2>1. \A c : {i \in DOMAIN Unread : Unread[i] = In("released", c)} = {}
    BY <1>2
  <2>2. \A c : Reports(c) = 0
    BY <2>1, FS_EmptySet DEF Reports
  <2> QED BY <2>2 DEF Init, WaiterReportsOnce
<1>7. StaleIsNoticed
  BY DEF Init, StaleIsNoticed
<1> QED
  BY <1>1, <1>3, <1>4, <1>5, <1>6, <1>7 DEF IInv

LEMMA StepInv == ASSUME IInv, [Next]_vars PROVE IInv'
  BY TypeStep, ControlStep, ToldStep, NotedStep, WaitersStep DEF IInv

(* Where the turn stands, what was told and what is noted fit together at  *)
(* every step, for any number of caches, repositories and signals.         *)
THEOREM InductiveInvariant == Spec => []IInv
<1>1. Init => IInv
  BY InitInv
<1>2. IInv /\ [Next]_vars => IInv'
  BY StepInv
<1> QED
  BY <1>1, <1>2, PTL DEF Spec

(* Every variable of the session stays within its type.                    *)
THEOREM TypesCorrect == Spec => []TypeOK
<1>1. IInv => TypeOK
  BY DEF IInv
<1> QED
  BY <1>1, InductiveInvariant, PTL

(* A write that an event named is unread, noted, or on the walk over all    *)
(* that follows a loss: for any caches, and any signals lost.              *)
THEOREM NothingToldIsLost == Spec => []ToldIsNoted
<1>1. IInv => ToldIsNoted
  BY DEF IInv, Told, Tracked, ToldIsTracked, ToldIsNoted, OnTheWalk
<1> QED
  BY <1>1, InductiveInvariant, PTL

(* What is noted of a cache has its turn coming: the cache is dirty, served *)
(* or waited for, unless its lock could not be opened.                     *)
THEOREM NothingNotedIsDropped == Spec => []NotedIsPending
<1>1. IInv => NotedIsPending
  BY DEF IInv, Noted
<1> QED
  BY <1>1, InductiveInvariant, PTL

(* Every waiting cache has one waiter or one unread report of it, for any   *)
(* number of caches and of waiters at once.                                *)
THEOREM EveryWaiterReports == Spec => []WaiterReportsOnce
<1>1. IInv => WaiterReportsOnce
  BY DEF IInv
<1> QED
  BY <1>1, InductiveInvariant, PTL

(* Where everything is watched or the hooks are installed, an answer of git *)
(* that has become wrong is going to be asked again.                       *)
THEOREM NothingStaleIsKept ==
    ASSUME \A c \in Caches : Depth = "recursive" \/ RepositoryOf[c] \in Hooks
    PROVE  Spec => []StaleIsNoticed
<1>1. Init => StaleIsNoticed
  BY InitInv
<1>2. IInv /\ StaleIsNoticed /\ [Next]_vars => StaleIsNoticed'
  BY StaleStep DEF IInv
<1> QED
  BY <1>1, <1>2, InductiveInvariant, PTL DEF Spec

===============================================================================
