---------------------------- MODULE InventoryProofs ----------------------------
(***************************************************************************)
(* The inventory that is kept on the disk, for any roots and files and any *)
(* number of writes, swaps, moves, lost events, deaths and restarts.       *)
(***************************************************************************)
EXTENDS Inventory, FiniteSetTheorems, SequenceTheorems, WellFoundedInduction, TLAPS

-------------------------------------------------------------------------------
(* What a commit writes.                                                   *)

Files == [Names -> Nat]

AreStocks(s) ==
    /\ DOMAIN s \subseteq Roots
    /\ s \in [DOMAIN s -> [id : Nat, files : Files]]

IsJournal(j) ==
    /\ j = [cleared |-> j.cleared, roots |-> j.roots, files |-> j.files]
    /\ j.cleared \subseteq Roots
    /\ DOMAIN j.roots \subseteq Roots /\ j.roots \in [DOMAIN j.roots -> Nat]
    /\ DOMAIN j.files \subseteq AllFiles /\ j.files \in [DOMAIN j.files -> Nat]

(* Which roots the copy has after a commit, and what it says of them.      *)
Has(s, j, r) == r \in DOMAIN s \ j.cleared \/ r \in DOMAIN j.roots
IdIn(s, j, r) == IF r \in DOMAIN j.roots THEN j.roots[r] ELSE s[r].id
FileIn(s, j, r, n) ==
    IF <<r, n>> \in DOMAIN j.files THEN j.files[<<r, n>>]
    ELSE IF r \in DOMAIN j.roots THEN 0 ELSE s[r].files[n]

LEMMA WrittenIs ==
    ASSUME NEW s, AreStocks(s), NEW j, IsJournal(j)
    PROVE  /\ AreStocks(Written(s, j))
           /\ \A r : r \in DOMAIN Written(s, j) <=> Has(s, j, r)
           /\ \A r \in DOMAIN Written(s, j) :
                /\ Written(s, j)[r].id = IdIn(s, j, r)
                /\ \A n \in Names : Written(s, j)[r].files[n] = FileIn(s, j, r, n)
<1> DEFINE kept == Without(s, j.cleared)
           new == [r \in DOMAIN j.roots |-> [id |-> j.roots[r], files |-> NoFiles]]
           based == With(kept, new)
           row(r) == [based[r] EXCEPT !.files = [n \in Names |->
                        IF <<r, n>> \in DOMAIN j.files THEN j.files[<<r, n>>] ELSE @[n]]]
<1>1. /\ DOMAIN kept = DOMAIN s \ j.cleared
      /\ \A r \in DOMAIN kept : kept[r] = s[r]
  BY DEF Without
<1>2. /\ DOMAIN new = DOMAIN j.roots
      /\ \A r \in DOMAIN new : new[r] = [id |-> j.roots[r], files |-> NoFiles]
  OBVIOUS
<1>3. /\ DOMAIN based = DOMAIN kept \cup DOMAIN new
      /\ \A r \in DOMAIN based : based[r] = IF r \in DOMAIN new THEN new[r] ELSE kept[r]
  BY DEF With
<1>4. Written(s, j) = [r \in DOMAIN based |-> row(r)]
  BY DEF Written
<1>5. ASSUME NEW r \in DOMAIN based
      PROVE  /\ based[r] \in [id : Nat, files : Files]
             /\ based[r].id = IdIn(s, j, r)
             /\ \A n \in Names : based[r].files[n] =
                  IF r \in DOMAIN j.roots THEN 0 ELSE s[r].files[n]
  <2> HIDE DEF kept, new, based
  <2>1. NoFiles \in Files /\ \A n \in Names : NoFiles[n] = 0
    BY DEF NoFiles, Files
  <2>2. CASE r \in DOMAIN j.roots
    BY <1>2, <1>3, <2>1, <2>2 DEF IsJournal, IdIn
  <2>3. CASE r \notin DOMAIN j.roots
    BY <1>1, <1>2, <1>3, <2>3 DEF AreStocks, IdIn
  <2> QED BY <2>2, <2>3
<1>6. DOMAIN based \subseteq Roots
  <2> HIDE DEF kept, new, based
  <2> QED BY <1>1, <1>2, <1>3 DEF AreStocks, IsJournal
<1>7. \A r : r \in DOMAIN based <=> Has(s, j, r)
  <2> HIDE DEF kept, new, based
  <2> QED BY <1>1, <1>2, <1>3 DEF Has
<1> HIDE DEF kept, new, based
<1>8. ASSUME NEW r \in DOMAIN based
      PROVE  /\ row(r) \in [id : Nat, files : Files]
             /\ row(r).id = IdIn(s, j, r)
             /\ \A n \in Names : row(r).files[n] = FileIn(s, j, r, n)
  <2>1. \A n \in Names : <<r, n>> \in DOMAIN j.files => j.files[<<r, n>>] \in Nat
    BY DEF IsJournal
  <2>2. [n \in Names |-> IF <<r, n>> \in DOMAIN j.files THEN j.files[<<r, n>>]
                         ELSE based[r].files[n]] \in Files
    BY <1>5, <2>1 DEF Files
  <2>3. row(r) = [based[r] EXCEPT !.files =
                    [n \in Names |-> IF <<r, n>> \in DOMAIN j.files THEN j.files[<<r, n>>]
                                     ELSE based[r].files[n]]]
    OBVIOUS
  <2>4. /\ row(r).id = based[r].id
        /\ row(r).files = [n \in Names |-> IF <<r, n>> \in DOMAIN j.files
                                           THEN j.files[<<r, n>>] ELSE based[r].files[n]]
    BY <1>5, <2>3
  <2>5. row(r) \in [id : Nat, files : Files]
    BY <1>5, <2>2, <2>3
  <2> QED BY <1>5, <2>4, <2>5 DEF FileIn
<1> HIDE DEF row
<1>9. DOMAIN Written(s, j) = DOMAIN based /\ \A r \in DOMAIN based : Written(s, j)[r] = row(r)
  BY <1>4
<1>10. Written(s, j) \in [DOMAIN based -> [id : Nat, files : Files]]
  BY <1>4, <1>8
<1>11. AreStocks(Written(s, j))
  BY <1>6, <1>9, <1>10 DEF AreStocks
<1> QED BY <1>7, <1>8, <1>9, <1>11

(* A commit leaves nothing to write.                                       *)
LEMMA NothingToWrite ==
    ASSUME NEW s, AreStocks(s)
    PROVE  /\ IsJournal(EmptyJournal)
           /\ \A r : Has(s, EmptyJournal, r) <=> r \in DOMAIN s
           /\ \A r : IdIn(s, EmptyJournal, r) = s[r].id
           /\ \A r, n : FileIn(s, EmptyJournal, r, n) = s[r].files[n]
<1>1. /\ EmptyJournal.cleared = {} /\ EmptyJournal.roots = <<>> /\ EmptyJournal.files = <<>>
      /\ EmptyJournal = [cleared |-> {}, roots |-> <<>>, files |-> <<>>]
  BY DEF EmptyJournal
<1>2. DOMAIN <<>> = {} /\ <<>> \in [{} -> Nat]
  OBVIOUS
<1> QED BY <1>1, <1>2 DEF IsJournal, Has, IdIn, FileIn

(* A root that is stocked anew is written as it is, whatever was there.    *)
LEMMA ReplacedIs ==
    ASSUME NEW j, IsJournal(j), NEW r \in Roots, NEW id \in Nat, NEW files \in Files
    PROVE  LET k == Replaced(j, r, id, files) IN
           /\ IsJournal(k)
           /\ \A s : /\ Has(s, k, r) /\ IdIn(s, k, r) = id
                     /\ \A n \in Names : FileIn(s, k, r, n) = files[n]
                     /\ \A q : q # r =>
                          /\ Has(s, k, q) <=> Has(s, j, q)
                          /\ IdIn(s, k, q) = IdIn(s, j, q)
                          /\ \A n : FileIn(s, k, q, n) = FileIn(s, j, q, n)
<1> DEFINE k == Replaced(j, r, id, files)
           one == [q \in {r} |-> id]
           there == {<<r, n>> : n \in {m \in Names : files[m] # 0}}
           new == [x \in there |-> files[x[2]]]
           kept == Without(j.files, {r} \X Names)
<1>1. k = [cleared |-> j.cleared \cup {r}, roots |-> With(j.roots, one), files |-> With(kept, new)]
  BY DEF Replaced
<1>2. k.cleared = j.cleared \cup {r} /\ k.roots = With(j.roots, one) /\ k.files = With(kept, new)
  BY <1>1
<1>3. /\ DOMAIN k.roots = DOMAIN j.roots \cup {r}
      /\ \A q \in DOMAIN k.roots : k.roots[q] = IF q = r THEN id ELSE j.roots[q]
      /\ k.roots \in [DOMAIN k.roots -> Nat]
  BY <1>2 DEF With, IsJournal
<1>4. /\ DOMAIN kept = DOMAIN j.files \ ({r} \X Names)
      /\ \A x \in DOMAIN kept : kept[x] = j.files[x]
  BY DEF Without
<1>5. /\ DOMAIN new = there /\ \A x \in there : new[x] = files[x[2]]
  OBVIOUS
<1>6. /\ DOMAIN k.files = DOMAIN kept \cup there
      /\ \A x \in DOMAIN k.files : k.files[x] = IF x \in there THEN new[x] ELSE kept[x]
      /\ k.files \in [DOMAIN k.files -> Nat]
  <2>1. \A x \in there : files[x[2]] \in Nat
    BY DEF Files
  <2>2. \A x \in DOMAIN j.files : j.files[x] \in Nat
    BY DEF IsJournal
  <2> HIDE DEF kept, new, there, k
  <2> QED BY <1>2, <1>4, <1>5, <2>1, <2>2 DEF With
<1>7. /\ there \subseteq AllFiles
      /\ \A q, n : <<q, n>> \in there <=> q = r /\ n \in Names /\ files[n] # 0
      /\ \A q, n : <<q, n>> \in {r} \X Names <=> q = r /\ n \in Names
  BY DEF AllFiles
<1> HIDE DEF kept, new, there, k
<1>8. IsJournal(k)
  <2>1. k = [cleared |-> k.cleared, roots |-> k.roots, files |-> k.files]
    BY <1>1
  <2>2. k.cleared \subseteq Roots /\ DOMAIN k.roots \subseteq Roots
    BY <1>2, <1>3 DEF IsJournal
  <2>3. DOMAIN k.files \subseteq AllFiles
    BY <1>4, <1>6, <1>7 DEF IsJournal
  <2> QED BY <1>3, <1>6, <2>1, <2>2, <2>3 DEF IsJournal
<1>9. \A q, n : q # r => /\ <<q, n>> \in DOMAIN k.files <=> <<q, n>> \in DOMAIN j.files
                         /\ <<q, n>> \in DOMAIN k.files => k.files[<<q, n>>] = j.files[<<q, n>>]
  BY <1>4, <1>6, <1>7
<1>10. \A n \in Names :
         /\ <<r, n>> \in DOMAIN k.files <=> files[n] # 0
         /\ files[n] # 0 => k.files[<<r, n>>] = files[n]
  BY <1>4, <1>5, <1>6, <1>7
<1>11. ASSUME NEW s
       PROVE  /\ Has(s, k, r) /\ IdIn(s, k, r) = id
              /\ \A n \in Names : FileIn(s, k, r, n) = files[n]
              /\ \A q : q # r => /\ Has(s, k, q) <=> Has(s, j, q)
                                 /\ IdIn(s, k, q) = IdIn(s, j, q)
                                 /\ \A n : FileIn(s, k, q, n) = FileIn(s, j, q, n)
  <2>1. Has(s, k, r) /\ IdIn(s, k, r) = id
    BY <1>3 DEF Has, IdIn
  <2>2. \A n \in Names : FileIn(s, k, r, n) = files[n]
    BY <1>3, <1>10 DEF FileIn
  <2>3. ASSUME NEW q, q # r
        PROVE  /\ Has(s, k, q) <=> Has(s, j, q)
               /\ IdIn(s, k, q) = IdIn(s, j, q)
               /\ \A n : FileIn(s, k, q, n) = FileIn(s, j, q, n)
    BY <1>2, <1>3, <1>9, <2>3 DEF Has, IdIn, FileIn
  <2> QED BY <2>1, <2>2, <2>3
<1> QED BY <1>8, <1>11 DEF k

(* Roots that are forgotten are not written, the others as they were.      *)
LEMMA ForgottenIs ==
    ASSUME NEW j, IsJournal(j), NEW gone \in SUBSET Roots
    PROVE  LET k == Forgotten(j, gone) IN
           /\ IsJournal(k)
           /\ \A s : /\ \A r \in gone : ~Has(s, k, r)
                     /\ \A r : r \notin gone =>
                          /\ Has(s, k, r) <=> Has(s, j, r)
                          /\ IdIn(s, k, r) = IdIn(s, j, r)
                          /\ \A n : FileIn(s, k, r, n) = FileIn(s, j, r, n)
<1> DEFINE k == Forgotten(j, gone)
<1>1. k = [cleared |-> j.cleared \cup gone, roots |-> Without(j.roots, gone),
           files |-> Without(j.files, gone \X Names)]
  BY DEF Forgotten
<1>2. /\ k.cleared = j.cleared \cup gone /\ k.roots = Without(j.roots, gone)
      /\ k.files = Without(j.files, gone \X Names)
  BY <1>1
<1>3. /\ DOMAIN k.roots = DOMAIN j.roots \ gone
      /\ \A r \in DOMAIN k.roots : k.roots[r] = j.roots[r]
      /\ k.roots \in [DOMAIN k.roots -> Nat]
  BY <1>2 DEF Without, IsJournal
<1>4. /\ DOMAIN k.files = DOMAIN j.files \ (gone \X Names)
      /\ \A x \in DOMAIN k.files : k.files[x] = j.files[x]
      /\ k.files \in [DOMAIN k.files -> Nat]
  BY <1>2 DEF Without, IsJournal
<1> HIDE DEF k
<1>5. IsJournal(k)
  <2>1. k = [cleared |-> k.cleared, roots |-> k.roots, files |-> k.files]
    BY <1>1
  <2> QED BY <1>2, <1>3, <1>4, <2>1 DEF IsJournal
<1>6. \A r, n : r \notin gone =>
         /\ <<r, n>> \in DOMAIN k.files <=> <<r, n>> \in DOMAIN j.files
         /\ <<r, n>> \in DOMAIN k.files => k.files[<<r, n>>] = j.files[<<r, n>>]
  BY <1>4
<1>7. ASSUME NEW s, NEW r
      PROVE  /\ r \in gone => ~Has(s, k, r)
             /\ r \notin gone => /\ Has(s, k, r) <=> Has(s, j, r)
                                 /\ IdIn(s, k, r) = IdIn(s, j, r)
                                 /\ \A n : FileIn(s, k, r, n) = FileIn(s, j, r, n)
  BY <1>2, <1>3, <1>6 DEF Has, IdIn, FileIn
<1> QED BY <1>5, <1>7 DEF k

(* Of a root whose changes are noted those files are written as they were  *)
(* read, and all else as it was.                                           *)
LEMMA NotedIs ==
    ASSUME NEW j, IsJournal(j), NEW r \in Roots, NEW names \in SUBSET Names, NEW read \in Files
    PROVE  LET k == Noted(j, r, names, read) IN
           /\ IsJournal(k)
           /\ \A s, q : /\ Has(s, k, q) <=> Has(s, j, q)
                        /\ IdIn(s, k, q) = IdIn(s, j, q)
                        /\ \A n : FileIn(s, k, q, n) =
                             IF q = r /\ n \in names THEN read[n] ELSE FileIn(s, j, q, n)
<1> DEFINE k == Noted(j, r, names, read)
           noted == {<<r, n>> : n \in names}
           new == [x \in noted |-> read[x[2]]]
<1>1. k = [j EXCEPT !.files = With(j.files, new)]
  BY DEF Noted
<1>2. /\ k.cleared = j.cleared /\ k.roots = j.roots /\ k.files = With(j.files, new)
      /\ k = [cleared |-> k.cleared, roots |-> k.roots, files |-> k.files]
  BY <1>1 DEF IsJournal
<1>3. DOMAIN new = noted /\ \A x \in noted : new[x] = read[x[2]]
  OBVIOUS
<1>4. /\ DOMAIN k.files = DOMAIN j.files \cup noted
      /\ \A x \in DOMAIN k.files : k.files[x] = IF x \in noted THEN new[x] ELSE j.files[x]
      /\ k.files \in [DOMAIN k.files -> Nat]
  <2>1. \A x \in noted : read[x[2]] \in Nat
    BY DEF Files
  <2>2. \A x \in DOMAIN j.files : j.files[x] \in Nat
    BY DEF IsJournal
  <2> HIDE DEF new, noted, k
  <2> QED BY <1>2, <1>3, <2>1, <2>2 DEF With
<1>5. /\ noted \subseteq AllFiles
      /\ \A q, n : <<q, n>> \in noted <=> q = r /\ n \in names
  BY DEF AllFiles
<1> HIDE DEF new, noted, k
<1>6. IsJournal(k)
  BY <1>2, <1>4, <1>5 DEF IsJournal
<1>7. ASSUME NEW s, NEW q
      PROVE  /\ Has(s, k, q) <=> Has(s, j, q)
             /\ IdIn(s, k, q) = IdIn(s, j, q)
             /\ \A n : FileIn(s, k, q, n) =
                  IF q = r /\ n \in names THEN read[n] ELSE FileIn(s, j, q, n)
  <2>1. (Has(s, k, q) <=> Has(s, j, q)) /\ IdIn(s, k, q) = IdIn(s, j, q)
    BY <1>2 DEF Has, IdIn
  <2>2. ASSUME NEW n
        PROVE  FileIn(s, k, q, n) = IF q = r /\ n \in names THEN read[n] ELSE FileIn(s, j, q, n)
    <3>1. CASE q = r /\ n \in names
      <4>1. <<q, n>> \in noted /\ new[<<q, n>>] = read[n]
        BY <1>3, <1>5, <3>1
      <4> QED BY <1>4, <3>1, <4>1 DEF FileIn
    <3>2. CASE ~(q = r /\ n \in names)
      BY <1>2, <1>4, <1>5, <3>2 DEF FileIn
    <3> QED BY <3>1, <3>2
  <2> QED BY <2>1, <2>2
<1> QED BY <1>6, <1>7 DEF k

-------------------------------------------------------------------------------
(* The inductive invariant of what is in memory and on the disk.           *)

Signals ==
    [kind : {"entry"}, root : Roots, name : Names] \cup [kind : {"released"}, root : Roots]
      \cup [kind : {"checkpoint"}, id : Nat] \cup {Lost}

WorldType ==
    /\ tree \in [Roots -> [id : Nat, files : Files]]
    /\ log \in Seq(Roots \X Names) /\ taken \in Nat /\ taken <= Len(log)
    /\ bounds \in [writes : Nat, swaps : Nat, deaths : Nat, moves : Nat]

SignalsType == queue \in Seq(Signals) /\ batch \in Seq(Signals)

MemoryType ==
    /\ step \in {"down", "start", "started", "classify", "settle", "note", "shared", "receive"}
    /\ pool \in [Roots -> [id : Nat, method : BOOLEAN, files : Files]]
    /\ noting \in [root : Roots \cup {"none"}, left : SUBSET Names, read : Files,
                   names : SUBSET Names]
    /\ changed \in [Roots -> SUBSET Names]
    /\ world \subseteq Roots /\ open \in BOOLEAN

CopyType == IsJournal(journal) /\ AreStocks(cached) /\ AreStocks(db.stocks)

TypeOK == WorldType /\ SignalsType /\ MemoryType /\ CopyType

(* Where a session is, and what it has by then.                            *)
Session ==
    /\ step = "down" => /\ \A r \in Roots : pool[r] = NoRoot /\ changed[r] = {}
                      /\ ~open /\ journal = EmptyJournal
    /\ step = "start" => open /\ \A r \in Roots \cap todo : tree[r].id # 0
    /\ step \notin {"down", "start"} => world = {r \in Roots : pool[r].id # 0}
    /\ step = "note" => noting.root \in Roots /\ pool[noting.root].method
    /\ \A r \in Roots : pool[r].id = 0 => pool[r] = NoRoot
    /\ open => checkpoint # None
    /\ db.checkpoint = None => db = NoCopy

(* With what the journal has still to write, the copy says of a root what  *)
(* is in memory.                                                           *)
Recorded(r) ==
    /\ Has(db.stocks, journal, r) /\ IdIn(db.stocks, journal, r) = pool[r].id
    /\ \A n \in Names : FileIn(db.stocks, journal, r, n) = pool[r].files[n]

(* What was loaded of a root is what the copy says of it.                  *)
Loaded(r) ==
    /\ Has(db.stocks, journal, r) <=> r \in DOMAIN cached
    /\ r \in DOMAIN cached =>
         /\ IdIn(db.stocks, journal, r) = cached[r].id
         /\ \A n \in Names : FileIn(db.stocks, journal, r, n) = cached[r].files[n]

Memory ==
    /\ index = UNION {Filed(r, pool[r].files) : r \in Roots}
    /\ step = "start" =>
         \A r \in Roots : IF pool[r].id = 0 THEN Loaded(r)
                          ELSE r \notin DOMAIN cached /\ r \notin todo /\ Recorded(r)
    /\ open /\ step \notin {"down", "start"} =>
         \A r \in Roots : IF pool[r].id = 0 THEN ~Has(db.stocks, journal, r) ELSE Recorded(r)

MemoryInv == TypeOK /\ Session /\ Memory

LEMMA MemoryRecovers == ASSUME MemoryInv PROVE JournalRecovers
<1> SUFFICES ASSUME open, step \notin {"down", "start"} PROVE JournalRecovers
  BY DEF JournalRecovers
<1> DEFINE copy == Written(db.stocks, journal)
<1>1. AreStocks(db.stocks) /\ IsJournal(journal)
  BY DEF MemoryInv, TypeOK, CopyType
<1>2. /\ AreStocks(copy)
      /\ \A r : r \in DOMAIN copy <=> Has(db.stocks, journal, r)
      /\ \A r \in DOMAIN copy :
           /\ copy[r].id = IdIn(db.stocks, journal, r)
           /\ \A n \in Names : copy[r].files[n] = FileIn(db.stocks, journal, r, n)
  BY <1>1, WrittenIs
<1> HIDE DEF copy
<1>3. \A r \in Roots : IF pool[r].id = 0 THEN ~Has(db.stocks, journal, r) ELSE Recorded(r)
  BY DEF MemoryInv, Memory
<1>4. DOMAIN copy = {r \in Roots : pool[r].id # 0}
  BY <1>2, <1>3 DEF AreStocks, Recorded
<1>5. ASSUME NEW r \in DOMAIN copy
      PROVE  copy[r] = [id |-> pool[r].id, files |-> pool[r].files]
  <2>1. copy[r] \in [id : Nat, files : Files] /\ r \in Roots /\ pool[r].files \in Files
    BY <1>2, <1>5 DEF AreStocks, MemoryInv, TypeOK, MemoryType
  <2>2. Recorded(r)
    BY <1>3, <1>4, <1>5
  <2>3. copy[r].id = pool[r].id /\ \A n \in Names : copy[r].files[n] = pool[r].files[n]
    BY <1>2, <1>5, <2>2 DEF Recorded
  <2>4. copy[r].files = pool[r].files
    BY <2>1, <2>3 DEF Files
  <2> QED BY <2>1, <2>3, <2>4
<1>6. /\ world = {r \in Roots : pool[r].id # 0}
      /\ index = UNION {Filed(r, pool[r].files) : r \in Roots}
  BY DEF MemoryInv, Session, Memory
<1> QED BY <1>4, <1>5, <1>6 DEF JournalRecovers, copy

LEMMA FiledIs ==
    ASSUME NEW p
    PROVE  \A x : x \in UNION {Filed(r, p[r].files) : r \in Roots} <=>
             \E r \in Roots, n \in Names : p[r].files[n] # 0 /\ x = <<r, n, p[r].files[n]>>
BY DEF Filed

LEMMA NothingFiled ==
    /\ NoFiles \in Files /\ NoRoot.id = 0 /\ NoRoot.files = NoFiles /\ NoRoot.method = FALSE
    /\ NoRoot \in [id : Nat, method : BOOLEAN, files : Files]
    /\ \A r : Filed(r, NoFiles) = {}
BY DEF NoRoot, NoFiles, Filed, Files

LEMMA NothingInMemory ==
    ASSUME pool = [r \in Roots |-> NoRoot]
    PROVE  UNION {Filed(r, pool[r].files) : r \in Roots} = {}
BY NothingFiled

LEMMA NothingLoaded == AreStocks(<<>>) /\ IsJournal(EmptyJournal)
<1>1. DOMAIN <<>> = {} /\ \A S : <<>> \in [{} -> S]
  OBVIOUS
<1>2. AreStocks(<<>>)
  BY <1>1 DEF AreStocks
<1> QED BY <1>2, NothingToWrite

(* Nothing in memory.                                                      *)
Nothing ==
    /\ step = "down" /\ pool = [r \in Roots |-> NoRoot] /\ index = {} /\ journal = EmptyJournal
    /\ noting = [root |-> "none", left |-> {}, read |-> NoFiles, names |-> {}]
    /\ changed = [r \in Roots |-> {}] /\ world = {} /\ cached = <<>> /\ open = FALSE

Fresh ==
    MemoryType /\ IsJournal(journal) /\ AreStocks(cached) /\ Memory
      /\ ((db.checkpoint = None => db = NoCopy) => Session)

LEMMA NothingIsFresh == Nothing => Fresh
<1> SUFFICES ASSUME Nothing PROVE Fresh
  OBVIOUS
<1>1. MemoryType
  BY NothingFiled DEF MemoryType, Nothing
<1>2. (db.checkpoint = None => db = NoCopy) => Session
  BY DEF Session, Nothing
<1>3. Memory
  BY NothingInMemory DEF Memory, Nothing
<1> QED BY <1>1, <1>2, <1>3, NothingLoaded DEF Fresh, Nothing

LEMMA MemoryStarts == ASSUME InventoryInit PROVE MemoryInv
<1>1. /\ tree = [r \in Roots |-> [id |-> 1, files |-> NoFiles]]
      /\ log = <<>> /\ taken = 0 /\ queue = <<>> /\ batch = <<>>
      /\ db = NoCopy /\ bounds = [writes |-> 0, swaps |-> 0, deaths |-> 0, moves |-> 0]
  BY DEF InventoryInit, Down
<1>2. WorldType
  BY <1>1, NothingFiled DEF WorldType
<1>3. SignalsType
  BY <1>1 DEF SignalsType
<1>4. db.checkpoint = None /\ AreStocks(db.stocks)
  BY <1>1, NothingLoaded DEF NoCopy
<1>5. MemoryType /\ IsJournal(journal) /\ AreStocks(cached) /\ Session /\ Memory
  <2>1. Nothing
    BY DEF InventoryInit, Down, Nothing
  <2> QED BY <1>1, <2>1, NothingIsFresh DEF Fresh
<1> QED BY <1>2, <1>3, <1>4, <1>5 DEF MemoryInv, TypeOK, CopyType

-------------------------------------------------------------------------------
(* Sequences of events.                                                    *)

LEMMA SetAsSequence ==
    ASSUME NEW S, IsFiniteSet(S)
    PROVE  /\ Seqs!SetToSeq(S) \in Seq(S)
           /\ \A x \in S : \E i \in 1..Len(Seqs!SetToSeq(S)) : Seqs!SetToSeq(S)[i] = x
<1> DEFINE n == Cardinality(S)
           f == Seqs!SetToSeq(S)
<1>1. n \in Nat /\ ExistsBijection(1..n, S)
  BY FS_CardinalityType
<1>2. \E g \in [1..n -> S] : Seqs!IsInjective(g)
  BY <1>1 DEF ExistsBijection, Bijection, Injection, IsInjective, Seqs!IsInjective
<1>3. f \in [1..n -> S] /\ Seqs!IsInjective(f)
  <2>1. Seqs!Cardinality(S) = Cardinality(S)
    BY Zenon DEF Seqs!Cardinality, Cardinality
  <2> QED BY <1>2, <2>1 DEF Seqs!SetToSeq
<1> HIDE DEF f
<1>4. f \in Injection(1..n, S)
  BY <1>3 DEF Injection, IsInjective, Seqs!IsInjective
<1>5. Cardinality(1..n) = n
  BY <1>1, FS_Interval
<1>6. f \in Surjection(1..n, S)
  BY <1>4, <1>5, FS_Injection
<1>7. f \in Seq(S) /\ Len(f) = n
  BY <1>1, <1>3
<1>8. \A x \in S : \E i \in 1..n : f[i] = x
  BY <1>6 DEF Surjection
<1> QED BY <1>7, <1>8 DEF f

(* The events of a root that is moved.                                     *)
LEMMA Moved ==
    ASSUME NEW r \in Roots
    PROVE  LET told == Seqs!SetToSeq({r} \X Names) IN
           /\ told \in Seq(Roots \X Names)
           /\ \A n \in Names : \E i \in 1..Len(told) : told[i] = <<r, n>>
<1> DEFINE told == Seqs!SetToSeq({r} \X Names)
<1>1. IsFiniteSet({r} \X Names)
  BY FS_Singleton, FS_Product, FilesAssumption
<1>2. told \in Seq({r} \X Names) /\ \A x \in {r} \X Names : \E i \in 1..Len(told) : told[i] = x
  BY <1>1, SetAsSequence
<1> HIDE DEF told
<1>3. told \in Seq(Roots \X Names)
  BY <1>2
<1> QED BY <1>2, <1>3 DEF told

LEMMA SignalsAre ==
    /\ \A r \in Roots, n \in Names : Entry(r, n) \in Signals
    /\ \A r \in Roots : Released(r) \in Signals
    /\ \A i \in Nat : Checkpoint(i) \in Signals
    /\ Lost \in Signals
BY DEF Signals, Entry, Released, Checkpoint, Lost

-------------------------------------------------------------------------------
(* Every step keeps what is in memory and what is written the same.        *)

LEMMA OutsideKeeps ==
    ASSUME MemoryInv, WorldType', SignalsType',
           UNCHANGED <<step, todo, noting, pool, index, journal, world, changed, cached, open,
                       checkpoint, db>>,
           step = "start" => \A r \in Roots : tree'[r].id = tree[r].id
    PROVE  MemoryInv'
<1>1. MemoryType' /\ CopyType'
  BY DEF MemoryInv, TypeOK, MemoryType, CopyType
<1>2. Session'
  BY DEF MemoryInv, Session
<1>3. Memory'
  <2>1. \A r : (Recorded(r) <=> Recorded(r)') /\ (Loaded(r) <=> Loaded(r)')
    BY DEF Recorded, Loaded
  <2> QED BY <2>1 DEF MemoryInv, Memory
<1> QED BY <1>1, <1>2, <1>3 DEF MemoryInv, TypeOK

LEMMA WithinKeeps ==
    ASSUME MemoryInv, WorldType', SignalsType',
           step \notin {"down", "start"},
           step' \in {"classify", "settle", "note", "shared", "receive"},
           UNCHANGED <<pool, index, journal, world, cached, open, checkpoint, db>>,
           noting' \in [root : Roots \cup {"none"}, left : SUBSET Names, read : Files,
                       names : SUBSET Names],
           changed' \in [Roots -> SUBSET Names],
           step' = "note" => noting'.root \in Roots /\ pool[noting'.root].method
    PROVE  MemoryInv'
<1>1. MemoryType' /\ CopyType'
  BY DEF MemoryInv, TypeOK, MemoryType, CopyType
<1>2. Session'
  BY DEF MemoryInv, Session
<1>3. Memory'
  <2>1. \A r : Recorded(r) <=> Recorded(r)'
    BY DEF Recorded
  <2> QED BY <2>1 DEF MemoryInv, Memory
<1> QED BY <1>1, <1>2, <1>3 DEF MemoryInv, TypeOK

(* What a write, or a clone, or a removal of a cache leaves.               *)
LEMMA BuildWritesWorld ==
    ASSUME WorldType, NEW r \in Roots, NEW n \in Names, BuildWrites(r, n)
    PROVE  WorldType' /\ \A q \in Roots : tree'[q].id = tree[q].id
<1>1. /\ bounds' = [bounds EXCEPT !.writes = @ + 1]
      /\ bounds' \in [writes : Nat, swaps : Nat, deaths : Nat, moves : Nat]
  <2>1. bounds' = [bounds EXCEPT !.writes = @ + 1]
    BY DEF BuildWrites
  <2>2. bounds \in [writes : Nat, swaps : Nat, deaths : Nat, moves : Nat]
    BY DEF WorldType
  <2> QED BY <2>1, <2>2
<1>2. PICK id \in Nat : tree' = [tree EXCEPT ![r].files[n] = id]
  <2>1. bounds'.writes \in Nat
    BY <1>1
  <2>2. \E id \in {0, bounds'.writes} : tree' = [tree EXCEPT ![r].files[n] = id]
    BY DEF BuildWrites
  <2> QED BY <2>1, <2>2
<1>3. tree' \in [Roots -> [id : Nat, files : Files]] /\ \A q \in Roots : tree'[q].id = tree[q].id
  BY <1>2 DEF WorldType, Files
<1>4. log' = Append(log, <<r, n>>) /\ taken' = taken
  BY DEF BuildWrites
<1>5. log' \in Seq(Roots \X Names) /\ Len(log') = Len(log) + 1
  BY <1>4 DEF WorldType
<1> QED BY <1>1, <1>3, <1>4, <1>5 DEF WorldType

LEMMA MoveWorld == ASSUME WorldType, NEW r \in Roots, Move(r) PROVE WorldType'
<1> DEFINE told == Seqs!SetToSeq({r} \X Names)
<1>1. /\ bounds' = [bounds EXCEPT !.moves = @ + 1]
      /\ bounds' \in [writes : Nat, swaps : Nat, deaths : Nat, moves : Nat]
  <2>1. bounds' = [bounds EXCEPT !.moves = @ + 1]
    BY DEF Move
  <2>2. bounds \in [writes : Nat, swaps : Nat, deaths : Nat, moves : Nat]
    BY DEF WorldType
  <2> QED BY <2>1, <2>2
<1>2. PICK id \in Nat : tree' = [tree EXCEPT ![r] = [id |-> id, files |-> NoFiles]]
  <2>1. bounds'.moves + 1 \in Nat
    BY <1>1
  <2>2. \E id \in {0, bounds'.moves + 1} :
          tree' = [tree EXCEPT ![r] = [id |-> id, files |-> NoFiles]]
    BY DEF Move
  <2> QED BY <2>1, <2>2
<1>3. tree' \in [Roots -> [id : Nat, files : Files]]
  BY <1>2, NothingFiled DEF WorldType
<1>4. log' = log \o told /\ taken' = taken
  BY DEF Move
<1>5. told \in Seq(Roots \X Names)
  BY Moved
<1> HIDE DEF told
<1>6. log' \in Seq(Roots \X Names) /\ Len(log) <= Len(log')
  <2>1. log \in Seq(Roots \X Names)
    BY DEF WorldType
  <2>2. /\ log \o told \in Seq(Roots \X Names)
        /\ Len(log \o told) = Len(log) + Len(told)
    BY <1>5, <2>1, ConcatProperties
  <2>3. Len(told) \in Nat /\ Len(log) \in Nat
    BY <1>5, <2>1
  <2> QED BY <1>4, <2>2, <2>3
<1> QED BY <1>1, <1>3, <1>4, <1>6 DEF WorldType

LEMMA ShareWorld ==
    ASSUME WorldType, MemoryType, Share
    PROVE  WorldType' /\ \A q \in Roots : tree'[q].id = tree[q].id
<1>1. /\ bounds' = [bounds EXCEPT !.swaps = @ + 1]
      /\ bounds' \in [writes : Nat, swaps : Nat, deaths : Nat, moves : Nat]
  <2>1. bounds' = [bounds EXCEPT !.swaps = @ + 1]
    BY DEF Share
  <2>2. bounds \in [writes : Nat, swaps : Nat, deaths : Nat, moves : Nat]
    BY DEF WorldType
  <2> QED BY <2>1, <2>2
<1>2. PICK r \in Roots, n \in Names :
        tree' = [tree EXCEPT ![r].files[n] = MaxFileWrites + bounds'.swaps]
  <2>1. \E r \in world \ locked, n \in Names :
          tree' = [tree EXCEPT ![r].files[n] = MaxFileWrites + bounds'.swaps]
    BY DEF Share
  <2> QED BY <2>1 DEF MemoryType
<1>3. MaxFileWrites + bounds'.swaps \in Nat
  BY <1>1, FilesAssumption
<1>4. tree' \in [Roots -> [id : Nat, files : Files]] /\ \A q \in Roots : tree'[q].id = tree[q].id
  BY <1>2, <1>3 DEF WorldType, Files
<1>5. UNCHANGED <<log, taken>>
  BY DEF Share
<1> QED BY <1>1, <1>4, <1>5 DEF WorldType

LEMMA DeliverTypes ==
    ASSUME WorldType, SignalsType, Arrives PROVE WorldType' /\ SignalsType'
<1>1. taken' = taken + 1 /\ taken < Len(log) /\ UNCHANGED <<tree, log, bounds, batch>>
  BY DEF Arrives, outside, process
<1>2. log[taken'] \in Roots \X Names /\ taken' \in Nat
  BY <1>1 DEF WorldType
<1>3. PICK what \in {<<Entry(log[taken'][1], log[taken'][2])>>, <<Lost>>},
           end \in {<<>>, <<Checkpoint(taken')>>} : queue' = queue \o what \o end
  BY DEF Arrives
<1>4. Entry(log[taken'][1], log[taken'][2]) \in Signals /\ Lost \in Signals
      /\ Checkpoint(taken') \in Signals
  BY <1>2, SignalsAre
<1>5. what \in Seq(Signals) /\ end \in Seq(Signals)
  <2>1. \A x \in Signals : <<x>> \in Seq(Signals)
    OBVIOUS
  <2>2. <<>> \in Seq(Signals)
    OBVIOUS
  <2> QED BY <1>4, <2>1, <2>2, Zenon
<1>6. queue' \in Seq(Signals)
  BY <1>3, <1>5, ConcatProperties DEF SignalsType
<1> QED BY <1>1, <1>2, <1>6 DEF WorldType, SignalsType

LEMMA OutsideSteps ==
    ASSUME MemoryInv,
           \/ \E r \in Roots : \/ BuildTakes(r) \/ BuildLeaves(r) \/ WaiterReports(r) \/ Move(r)
                               \/ \E n \in Names : BuildWrites(r, n)
           \/ Arrives \/ Share
    PROVE  MemoryInv'
<1> DEFINE Fine == /\ WorldType' /\ SignalsType'
                   /\ step = "start" => \A r \in Roots : tree'[r].id = tree[r].id
<1>1. WorldType /\ SignalsType /\ MemoryType
  BY DEF MemoryInv, TypeOK
<1>2. UNCHANGED <<step, todo, noting, pool, index, journal, world, changed, cached, open,
                  checkpoint, db>>
  BY DEF BuildTakes, BuildLeaves, WaiterReports, Move, BuildWrites, Arrives, Share, process
<1>3. Fine
  <2>1. ASSUME NEW r \in Roots, BuildTakes(r) \/ BuildLeaves(r) PROVE Fine
    BY <1>1, <2>1 DEF BuildTakes, BuildLeaves, WorldType, SignalsType, process
  <2>2. ASSUME NEW r \in Roots, WaiterReports(r) PROVE Fine
    BY <1>1, <2>2, SignalsAre DEF WaiterReports, WorldType, SignalsType, outside
  <2>3. ASSUME NEW r \in Roots, Move(r) PROVE Fine
    BY <1>1, <2>3, MoveWorld DEF Move, SignalsType, process
  <2>4. ASSUME NEW r \in Roots, NEW n \in Names, BuildWrites(r, n) PROVE Fine
    BY <1>1, <2>4, BuildWritesWorld DEF BuildWrites, SignalsType, process
  <2>5. ASSUME Arrives PROVE Fine
    BY <1>1, <2>5, DeliverTypes DEF Arrives, outside
  <2>6. ASSUME Share PROVE Fine
    BY <1>1, <2>6, ShareWorld DEF Share, SignalsType, process
  <2> QED BY <2>1, <2>2, <2>3, <2>4, <2>5, <2>6
<1> QED BY <1>2, <1>3, OutsideKeeps

LEMMA ReceiveStep == ASSUME MemoryInv, Receive PROVE MemoryInv'
<1>1. /\ step = "receive" /\ step' = "classify" /\ batch' = queue /\ queue' = <<>>
      /\ UNCHANGED <<tree, log, taken, bounds, noting, pool, index, journal, world, changed, cached,
                     open, checkpoint, db>>
  BY DEF Receive, outside
<1>2. WorldType' /\ SignalsType'
  BY <1>1 DEF MemoryInv, TypeOK, WorldType, SignalsType
<1> QED BY <1>1, <1>2, WithinKeeps DEF MemoryInv, TypeOK, MemoryType

LEMMA SettleSteps ==
    ASSUME MemoryInv, (\E r \in Roots : Process(r)) \/ ReadOne \/ Shared
    PROVE  MemoryInv'
<1>1. /\ UNCHANGED <<tree, log, taken, bounds, queue, batch, pool, index, journal, world, cached,
                     open, checkpoint, db>>
      /\ step \in {"settle", "note", "shared"}
  BY DEF Process, ReadOne, Shared, outside
<1>2. WorldType' /\ SignalsType'
  BY <1>1 DEF MemoryInv, TypeOK, WorldType, SignalsType
<1> DEFINE Notings == [root : Roots \cup {"none"}, left : SUBSET Names, read : Files,
                       names : SUBSET Names]
<1>3. noting \in Notings /\ changed \in [Roots -> SUBSET Names]
  BY DEF MemoryInv, TypeOK, MemoryType
<1>4. ASSUME NEW r \in Roots, Process(r) PROVE MemoryInv'
  <2>1. /\ changed' = changed \/ changed' = [changed EXCEPT ![r] = {}]
        /\ \/ step' \in {"settle", "shared"} /\ UNCHANGED noting
           \/ /\ pool[r].method /\ step' = "note"
              /\ noting' = [root |-> r, left |-> changed[r], read |-> NoFiles,
                            names |-> changed[r]]
    BY <1>4 DEF Process
  <2>2. changed' \in [Roots -> SUBSET Names]
    BY <1>3, <2>1
  <2>3. noting' \in Notings
    BY <1>3, <2>1, NothingFiled
  <2>4. step' = "note" => noting'.root \in Roots /\ pool[noting'.root].method
    BY <2>1
  <2>5. step' \in {"settle", "shared", "note"}
    BY <2>1
  <2> QED BY <1>1, <1>2, <2>2, <2>3, <2>4, <2>5, WithinKeeps
<1>5. ASSUME ReadOne PROVE MemoryInv'
  <2>1. PICK n \in noting.left :
          noting' = [noting EXCEPT !.left = @ \ {n}, !.read[n] = tree[noting.root].files[n]]
    BY <1>5 DEF ReadOne
  <2>2. step = "note" /\ step' = step /\ UNCHANGED changed
    BY <1>5 DEF ReadOne
  <2>3. noting.root \in Roots /\ pool[noting.root].method
    BY <2>2 DEF MemoryInv, Session
  <2>4. n \in Names /\ tree[noting.root].files[n] \in Nat
    BY <1>3, <2>3 DEF MemoryInv, TypeOK, WorldType, Files
  <2>5. noting' \in Notings /\ noting'.root = noting.root
    BY <1>3, <2>1, <2>4 DEF Files
  <2> QED BY <1>1, <1>2, <1>3, <2>2, <2>3, <2>5, WithinKeeps
<1>6. ASSUME Shared PROVE MemoryInv'
  <2>1. /\ step' = "settle" /\ UNCHANGED changed
        /\ noting' = [root |-> "none", left |-> {}, read |-> NoFiles, names |-> {}]
    BY <1>6 DEF Shared
  <2>2. noting' \in Notings
    BY <2>1, NothingFiled
  <2> QED BY <1>1, <1>2, <1>3, <2>1, <2>2, WithinKeeps
<1> QED BY <1>4, <1>5, <1>6

(* A death leaves the copy, which says what it said.                       *)
LEMMA DiesStep == ASSUME MemoryInv, SessionDies PROVE MemoryInv'
<1>1. /\ UNCHANGED <<tree, log, taken, db>> /\ batch' = <<>> /\ queue' = <<>>
      /\ bounds' = [bounds EXCEPT !.deaths = @ + 1]
  BY DEF SessionDies, outside
<1>2. bounds' \in [writes : Nat, swaps : Nat, deaths : Nat, moves : Nat]
  <2>1. bounds \in [writes : Nat, swaps : Nat, deaths : Nat, moves : Nat]
    BY DEF MemoryInv, TypeOK, WorldType
  <2> QED BY <1>1, <2>1
<1>3. WorldType' /\ SignalsType' /\ AreStocks(db.stocks)'
  BY <1>1, <1>2 DEF MemoryInv, TypeOK, WorldType, SignalsType, CopyType, AreStocks
<1>4. (db.checkpoint = None => db = NoCopy)'
  BY <1>1 DEF MemoryInv, Session
<1>5. Nothing'
  BY DEF SessionDies, Nothing
<1>6. Fresh'
  BY <1>5, NothingIsFresh, PTL
<1> QED BY <1>3, <1>4, <1>6 DEF MemoryInv, TypeOK, CopyType, Fresh

(* The events since the one the copy reaches to.                           *)
LEMMA HistoryIs ==
    ASSUME WorldType, NEW resumed \in 0..Len(log)
    PROVE  LET entries == [i \in 1..Len(log) - resumed |->
                             Entry(log[resumed + i][1], log[resumed + i][2])]
               end == IF resumed < Len(log) THEN <<Checkpoint(Len(log))>> ELSE <<>>
           IN /\ entries \o end \in Seq(Signals)
              /\ Len(entries \o end) = Len(entries) + Len(end)
              /\ Len(entries) = Len(log) - resumed /\ Len(end) \in {0, 1}
              /\ \A i \in 1..Len(log) - resumed :
                   (entries \o end)[i] = Entry(log[resumed + i][1], log[resumed + i][2])
              /\ \A i \in 1..Len(entries \o end) : i > Len(log) - resumed =>
                   (entries \o end)[i] = Checkpoint(Len(log))
<1> DEFINE entries == [i \in 1..Len(log) - resumed |->
                         Entry(log[resumed + i][1], log[resumed + i][2])]
           end == IF resumed < Len(log) THEN <<Checkpoint(Len(log))>> ELSE <<>>
           n == Len(log) - resumed
<1>1. log \in Seq(Roots \X Names) /\ Len(log) \in Nat /\ n \in Nat
  BY DEF WorldType
<1>2. \A i \in 1..n : Entry(log[resumed + i][1], log[resumed + i][2]) \in Signals
  <2>1. \A i \in 1..n : log[resumed + i] \in Roots \X Names
    BY <1>1
  <2> QED BY <2>1, SignalsAre
<1>3. entries \in [1..n -> Signals]
  BY <1>2
<1>4. entries \in Seq(Signals) /\ Len(entries) = n
  <2> HIDE DEF entries, n
  <2> QED BY <1>1, <1>3
<1>5. end \in Seq(Signals) /\ Len(end) \in {0, 1} /\ (Len(end) = 1 => end[1] = Checkpoint(Len(log)))
  <2>1. Checkpoint(Len(log)) \in Signals
    BY <1>1, SignalsAre
  <2> QED BY <2>1
<1>6. \A i \in 1..n : entries[i] = Entry(log[resumed + i][1], log[resumed + i][2])
  OBVIOUS
<1> HIDE DEF entries, end
<1>7. /\ entries \o end \in Seq(Signals)
      /\ Len(entries \o end) = Len(entries) + Len(end)
      /\ \A i \in 1..Len(entries) + Len(end) :
           (entries \o end)[i] = IF i <= Len(entries) THEN entries[i] ELSE end[i - Len(entries)]
  BY <1>4, <1>5, ConcatProperties
<1>8. \A i \in 1..n : (entries \o end)[i] = Entry(log[resumed + i][1], log[resumed + i][2])
  BY <1>1, <1>4, <1>5, <1>6, <1>7
<1>9. \A i \in 1..Len(entries \o end) : i > n => (entries \o end)[i] = Checkpoint(Len(log))
  BY <1>1, <1>4, <1>5, <1>7
<1> QED BY <1>4, <1>5, <1>7, <1>8, <1>9 DEF entries, end

LEMMA OpenStep ==
    ASSUME MemoryInv, Open, db.checkpoint # None => db.checkpoint \in 0..Len(log)
    PROVE  MemoryInv'
<1>1. /\ step = "down" /\ step' = "start" /\ open' = TRUE /\ taken' = Len(log)
      /\ todo' = {r \in Roots : tree[r].id # 0}
      /\ UNCHANGED <<tree, log, queue, noting, pool, index, journal, world, changed, bounds>>
  BY DEF Open, outside
<1>2. /\ \A r \in Roots : pool[r] = NoRoot
      /\ journal = EmptyJournal /\ (db.checkpoint = None => db = NoCopy)
  <2>1. Session
    BY DEF MemoryInv
  <2>2. /\ \A r \in Roots : pool[r] = NoRoot /\ changed[r] = {}
        /\ ~open /\ journal = EmptyJournal
    BY <1>1, <2>1 DEF Session
  <2>3. db.checkpoint = None => db = NoCopy
    BY <2>1 DEF Session
  <2> QED BY <2>2, <2>3
<1> DEFINE resumed == IF db.checkpoint # None THEN db.checkpoint ELSE Len(log)
           history_ == [i \in 1..Len(log) - resumed |->
                          Entry(log[resumed + i][1], log[resumed + i][2])]
                         \o (IF resumed < Len(log) THEN <<Checkpoint(Len(log))>> ELSE <<>>)
<1>3. Len(log) \in Nat /\ resumed \in 0..Len(log)
  BY DEF MemoryInv, TypeOK, WorldType
<1>4. history_ \in Seq(Signals)
  <2> HIDE DEF resumed
  <2> QED BY <1>3, HistoryIs DEF MemoryInv, TypeOK
<1>5. \/ /\ batch' = history_ /\ checkpoint' = resumed /\ cached' = db.stocks
         /\ db' = IF db.checkpoint = None THEN NoCopy ELSE db
      \/ batch' = <<>> /\ checkpoint' = Len(log) /\ db' = NoCopy /\ cached' = <<>>
  BY DEF Open
<1> HIDE DEF history_, resumed
<1>6. /\ batch' \in Seq(Signals) /\ checkpoint' # None
      /\ cached' = db'.stocks /\ AreStocks(cached') /\ (db'.checkpoint = None => db' = NoCopy)
  <2>1. AreStocks(db.stocks)
    BY DEF MemoryInv, TypeOK, CopyType
  <2>2. NoCopy.stocks = <<>>
    BY DEF NoCopy
  <2>3. AreStocks(<<>>)
    BY NothingLoaded
  <2>4. CASE batch' = <<>> /\ checkpoint' = Len(log) /\ db' = NoCopy /\ cached' = <<>>
    <3>1. <<>> \in Seq(Signals)
      OBVIOUS
    <3>2. cached' = db'.stocks /\ AreStocks(cached')
      BY <2>2, <2>3, <2>4
    <3> QED BY <1>3, <2>4, <3>1, <3>2 DEF None
  <2>5. CASE /\ batch' = history_ /\ checkpoint' = resumed /\ cached' = db.stocks
             /\ db' = IF db.checkpoint = None THEN NoCopy ELSE db
    <3>1. db' = db
      BY <1>2, <2>5
    <3>2. resumed # None
      BY <1>3 DEF None
    <3> QED BY <1>2, <1>4, <2>1, <2>5, <3>1, <3>2
  <2> QED BY <1>5, <2>4, <2>5
<1>7. TypeOK'
  BY <1>1, <1>2, <1>3, <1>6, SMTT(30)
  DEF MemoryInv, TypeOK, WorldType, SignalsType, MemoryType, CopyType, AreStocks
<1>8. Session'
  BY <1>1, <1>2, <1>6 DEF Session
<1>9. Memory'
  <2>1. \A r \in Roots : pool'[r].id = 0
    BY <1>1, <1>2, NothingFiled
  <2>2. \A r \in Roots : Loaded(r)'
    BY <1>1, <1>2, <1>6, NothingToWrite DEF Loaded
  <2>3. index' = UNION {Filed(r, pool'[r].files) : r \in Roots}
    BY <1>1 DEF MemoryInv, Memory
  <2> QED BY <1>1, <2>1, <2>2, <2>3 DEF Memory
<1> QED BY <1>7, <1>8, <1>9 DEF MemoryInv

LEMMA StartRootStep == ASSUME MemoryInv, NEW r \in Roots, StartRoot(r) PROVE MemoryInv'
<1> DEFINE known == r \in DOMAIN cached /\ cached[r].id = tree[r].id
           stock == IF known /\ r \notin locked
                    THEN [id |-> tree[r].id, method |-> TRUE, files |-> cached[r].files]
                    ELSE Stocked(r)
<1>1. /\ step = "start" /\ step' = "start" /\ r \in todo /\ todo' = todo \ {r}
      /\ cached' = Without(cached, {r})
      /\ pool' = [pool EXCEPT ![r] = stock]
      /\ index' = index \cup Filed(r, stock.files)
      /\ journal' = IF known /\ stock.method THEN journal
                    ELSE Replaced(journal, r, tree[r].id, stock.files)
      /\ UNCHANGED <<tree, log, taken, queue, batch, noting, world, changed, open, checkpoint, db,
                     bounds>>
  BY DEF StartRoot, outside
<1>2. /\ pool[r].id = 0 /\ Loaded(r) /\ pool[r] = NoRoot
      /\ tree[r].id # 0 /\ open
  BY <1>1 DEF MemoryInv, Memory, Session
<1>3. /\ AreStocks(cached) /\ AreStocks(db.stocks) /\ IsJournal(journal)
      /\ tree[r] \in [id : Nat, files : Files]
      /\ pool \in [Roots -> [id : Nat, method : BOOLEAN, files : Files]]
  BY DEF MemoryInv, TypeOK, CopyType, WorldType, MemoryType
<1>4. /\ stock \in [id : Nat, method : BOOLEAN, files : Files] /\ stock.id = tree[r].id
      /\ known /\ stock.method => stock.files = cached[r].files
  <2>1. known => cached[r].files \in Files
    BY <1>3 DEF AreStocks
  <2>2. /\ Stocked(r) \in [id : Nat, method : BOOLEAN, files : Files]
        /\ Stocked(r).id = tree[r].id
        /\ Stocked(r).method => r \notin locked
    BY <1>3, NothingFiled DEF Stocked
  <2>3. CASE known /\ r \notin locked
    BY <1>3, <2>1, <2>3
  <2>4. CASE ~(known /\ r \notin locked)
    <3>1. stock = Stocked(r)
      BY <2>4
    <3> QED BY <2>2, <2>4, <3>1
  <2> QED BY <2>3, <2>4
<1> HIDE DEF stock
<1>5. /\ DOMAIN cached' = DOMAIN cached \ {r}
      /\ \A q \in DOMAIN cached' : cached'[q] = cached[q]
      /\ AreStocks(cached')
  <2>1. /\ DOMAIN cached' = DOMAIN cached \ {r}
        /\ \A q \in DOMAIN cached' : cached'[q] = cached[q]
    BY <1>1 DEF Without
  <2>2. cached' \in [DOMAIN cached \ {r} -> [id : Nat, files : Files]]
    BY <1>1, <1>3 DEF Without, AreStocks
  <2> QED BY <1>3, <2>1, <2>2 DEF AreStocks
<1>6. pool' \in [Roots -> [id : Nat, method : BOOLEAN, files : Files]]
  BY <1>1, <1>3, <1>4
<1>7. pool'[r] = stock /\ \A q \in Roots : q # r => pool'[q] = pool[q]
  BY <1>1, <1>3
<1>8. /\ IsJournal(journal')
      /\ Has(db.stocks, journal', r) /\ IdIn(db.stocks, journal', r) = stock.id
      /\ \A n \in Names : FileIn(db.stocks, journal', r, n) = stock.files[n]
      /\ \A q : q # r =>
           /\ Has(db.stocks, journal', q) <=> Has(db.stocks, journal, q)
           /\ IdIn(db.stocks, journal', q) = IdIn(db.stocks, journal, q)
           /\ \A n : FileIn(db.stocks, journal', q, n) = FileIn(db.stocks, journal, q, n)
  <2>1. CASE known /\ stock.method
    <3>1. journal' = journal
      BY <1>1, <2>1
    <3> QED BY <1>2, <1>3, <1>4, <2>1, <3>1 DEF Loaded
  <2>2. CASE ~(known /\ stock.method)
    <3>1. journal' = Replaced(journal, r, tree[r].id, stock.files)
      BY <1>1, <2>2
    <3>2. tree[r].id \in Nat /\ stock.files \in Files
      BY <1>3, <1>4
    <3> DEFINE k == Replaced(journal, r, tree[r].id, stock.files)
    <3>3. /\ IsJournal(k)
          /\ \A s : /\ Has(s, k, r) /\ IdIn(s, k, r) = tree[r].id
                    /\ \A n \in Names : FileIn(s, k, r, n) = stock.files[n]
                    /\ \A q : q # r =>
                         /\ Has(s, k, q) <=> Has(s, journal, q)
                         /\ IdIn(s, k, q) = IdIn(s, journal, q)
                         /\ \A n : FileIn(s, k, q, n) = FileIn(s, journal, q, n)
      BY <1>3, <3>2, ReplacedIs
    <3> HIDE DEF known, k
    <3>4. journal' = k
      BY <3>1 DEF k
    <3> QED BY <1>4, <3>3, <3>4
  <2> QED BY <2>1, <2>2
<1> HIDE DEF known
<1>9. TypeOK'
  BY <1>1, <1>5, <1>6, <1>8
  DEF MemoryInv, TypeOK, WorldType, SignalsType, MemoryType, CopyType, AreStocks
<1>10. Session'
  <2>1. pool'[r].id # 0
    BY <1>2, <1>4, <1>7
  <2> QED BY <1>1, <1>7, <2>1 DEF MemoryInv, Session
<1>11. index' = UNION {Filed(q, pool'[q].files) : q \in Roots}
  <2>1. Filed(r, pool[r].files) = {}
    BY <1>2, NothingFiled
  <2>2. index = UNION {Filed(q, pool[q].files) : q \in Roots}
    BY DEF MemoryInv, Memory
  <2>3. \A q \in Roots : Filed(q, pool'[q].files) =
          IF q = r THEN Filed(r, stock.files) ELSE Filed(q, pool[q].files)
    BY <1>7
  <2> QED BY <1>1, <2>1, <2>2, <2>3
<1>12. \A q \in Roots : IF pool'[q].id = 0 THEN Loaded(q)'
                        ELSE q \notin DOMAIN cached' /\ q \notin todo' /\ Recorded(q)'
  <2>1. r \notin DOMAIN cached' /\ r \notin todo' /\ Recorded(r)' /\ pool'[r].id # 0
    BY <1>1, <1>2, <1>4, <1>5, <1>7, <1>8 DEF Recorded
  <2>2. ASSUME NEW q \in Roots, q # r
        PROVE  IF pool'[q].id = 0 THEN Loaded(q)'
               ELSE q \notin DOMAIN cached' /\ q \notin todo' /\ Recorded(q)'
    <3>1. IF pool[q].id = 0 THEN Loaded(q)
          ELSE q \notin DOMAIN cached /\ q \notin todo /\ Recorded(q)
      BY <1>1 DEF MemoryInv, Memory
    <3>2. pool'[q] = pool[q] /\ (q \in DOMAIN cached' <=> q \in DOMAIN cached)
          /\ (q \in DOMAIN cached => cached'[q] = cached[q]) /\ db' = db
          /\ (q \notin todo => q \notin todo')
      BY <1>1, <1>5, <1>7, <2>2
    <3>3. /\ Has(db.stocks, journal', q) <=> Has(db.stocks, journal, q)
          /\ IdIn(db.stocks, journal', q) = IdIn(db.stocks, journal, q)
          /\ \A n : FileIn(db.stocks, journal', q, n) = FileIn(db.stocks, journal, q, n)
      BY <1>8, <2>2
    <3>4. CASE pool[q].id = 0
      BY <3>1, <3>2, <3>3, <3>4 DEF Loaded
    <3>5. CASE pool[q].id # 0
      BY <3>1, <3>2, <3>3, <3>5 DEF Recorded
    <3> QED BY <3>4, <3>5
  <2> QED BY <2>1, <2>2
<1>13. Memory'
  BY <1>1, <1>11, <1>12 DEF Memory
<1> QED BY <1>9, <1>10, <1>13 DEF MemoryInv

LEMMA StartShareStep == ASSUME MemoryInv, StartShare PROVE MemoryInv'
<1>1. /\ step = "start" /\ step' = "started" /\ todo = {}
      /\ journal' = Forgotten(journal, DOMAIN cached) /\ cached' = <<>>
      /\ world' = {r \in Roots : pool[r].id # 0}
      /\ UNCHANGED <<tree, log, taken, queue, batch, noting, pool, index, changed, open,
                     checkpoint, db, bounds>>
  BY DEF StartShare, outside
<1>2. IsJournal(journal) /\ DOMAIN cached \in SUBSET Roots
  BY DEF MemoryInv, TypeOK, CopyType, AreStocks
<1>3. /\ IsJournal(journal')
      /\ \A r \in DOMAIN cached : ~Has(db.stocks, journal', r)
      /\ \A r : r \notin DOMAIN cached =>
           /\ Has(db.stocks, journal', r) <=> Has(db.stocks, journal, r)
           /\ IdIn(db.stocks, journal', r) = IdIn(db.stocks, journal, r)
           /\ \A n : FileIn(db.stocks, journal', r, n) = FileIn(db.stocks, journal, r, n)
  BY <1>1, <1>2, ForgottenIs
<1>4. TypeOK'
  <2>1. AreStocks(cached')
    BY <1>1, NothingLoaded
  <2> QED BY <1>1, <1>3, <2>1
    DEF MemoryInv, TypeOK, WorldType, SignalsType, MemoryType, CopyType, AreStocks
<1>5. Session'
  BY <1>1 DEF MemoryInv, Session
<1>6. \A r \in Roots : IF pool'[r].id = 0 THEN ~Has(db.stocks, journal, r)' ELSE Recorded(r)'
  <2>1. \A r \in Roots : IF pool[r].id = 0 THEN Loaded(r)
                         ELSE r \notin DOMAIN cached /\ r \notin todo /\ Recorded(r)
    BY <1>1 DEF MemoryInv, Memory
  <2> QED BY <1>1, <1>3, <2>1 DEF Loaded, Recorded
<1>7. Memory'
  BY <1>1, <1>6 DEF MemoryInv, Memory
<1> QED BY <1>4, <1>5, <1>7 DEF MemoryInv

(* A commit changes nothing that the copy says with the journal.           *)
LEMMA PersistKeeps ==
    ASSUME MemoryInv, step \notin {"down", "start"}, step' \in {"classify", "receive"},
           NEW id, open => id # None, Persist(journal, id),
           UNCHANGED <<tree, log, taken, bounds, queue, batch, noting, pool, index, world, changed,
                       cached>>
    PROVE  MemoryInv'
<1>1. /\ journal' = EmptyJournal
      /\ open' => checkpoint' = id
      /\ \/ /\ open /\ open' = TRUE
            /\ db' = [checkpoint |-> id, stocks |-> Written(db.stocks, journal)]
         \/ open /\ open' = FALSE /\ db' = NoCopy
         \/ open = FALSE /\ UNCHANGED <<open, db>>
  BY DEF Persist, MemoryInv, TypeOK, MemoryType
<1>2. AreStocks(db.stocks) /\ IsJournal(journal) /\ IsJournal(journal')
  BY <1>1, NothingLoaded DEF MemoryInv, TypeOK, CopyType
<1>3. /\ AreStocks(Written(db.stocks, journal))
      /\ \A r : r \in DOMAIN Written(db.stocks, journal) <=> Has(db.stocks, journal, r)
      /\ \A r \in DOMAIN Written(db.stocks, journal) :
           /\ Written(db.stocks, journal)[r].id = IdIn(db.stocks, journal, r)
           /\ \A n \in Names : Written(db.stocks, journal)[r].files[n]
                                = FileIn(db.stocks, journal, r, n)
  BY <1>2, WrittenIs
<1>4. AreStocks(NoCopy.stocks) /\ NoCopy.checkpoint = None
  BY NothingLoaded DEF NoCopy
<1>5. AreStocks(db'.stocks) /\ (db'.checkpoint = None => db' = NoCopy)
  <2>1. db.checkpoint = None => db = NoCopy
    BY DEF MemoryInv, Session
  <2> QED BY <1>1, <1>2, <1>3, <1>4, <2>1
<1>6. TypeOK'
  BY <1>1, <1>2, <1>5
  DEF MemoryInv, TypeOK, WorldType, SignalsType, MemoryType, CopyType, AreStocks
<1>7. Session'
  <2>1. open' => checkpoint' # None
    BY <1>1
  <2> QED BY <1>5, <2>1 DEF MemoryInv, Session
<1>8. ASSUME open'
      PROVE  \A r \in Roots : IF pool'[r].id = 0 THEN ~Has(db.stocks, journal, r)' ELSE Recorded(r)'
  <2>1. open /\ db'.stocks = Written(db.stocks, journal)
    <3>1. open /\ db' = [checkpoint |-> id, stocks |-> Written(db.stocks, journal)]
      BY <1>1, <1>8, Zenon
    <3> QED BY <3>1
  <2>2. /\ \A r : Has(db'.stocks, journal', r) <=> r \in DOMAIN db'.stocks
        /\ \A r : IdIn(db'.stocks, journal', r) = db'.stocks[r].id
        /\ \A r, n : FileIn(db'.stocks, journal', r, n) = db'.stocks[r].files[n]
    BY <1>1, <1>5, NothingToWrite
  <2>3. \A r \in Roots : IF pool[r].id = 0 THEN ~Has(db.stocks, journal, r) ELSE Recorded(r)
    BY <2>1 DEF MemoryInv, Memory
  <2>4. ASSUME NEW r \in Roots
        PROVE  IF pool'[r].id = 0 THEN ~Has(db.stocks, journal, r)' ELSE Recorded(r)'
    <3>1. CASE pool[r].id = 0
      BY <1>3, <2>1, <2>2, <2>3, <3>1
    <3>2. CASE pool[r].id # 0
      <4>1. r \in DOMAIN db'.stocks
        BY <1>3, <2>1, <2>3, <3>2 DEF Recorded
      <4> QED BY <1>3, <2>1, <2>2, <2>3, <3>2, <4>1 DEF Recorded
    <3> QED BY <3>1, <3>2
  <2> QED BY <2>4
<1>9. Memory'
  BY <1>8 DEF MemoryInv, Memory
<1> QED BY <1>6, <1>7, <1>9 DEF MemoryInv

LEMMA CommitSteps == ASSUME MemoryInv, StartDone \/ FinishTurn PROVE MemoryInv'
<1>1. /\ UNCHANGED <<tree, log, taken, bounds, queue, batch, noting, pool, index, world, changed,
                     cached>>
      /\ step \in {"started", "settle"} /\ step' \in {"classify", "receive"}
  BY DEF StartDone, FinishTurn, outside
<1>2. open => checkpoint # None
  BY DEF MemoryInv, Session
<1>3. ASSUME StartDone PROVE MemoryInv'
  <2>1. Persist(journal, checkpoint)
    BY <1>3 DEF StartDone
  <2> QED BY <1>1, <1>2, <2>1, PersistKeeps
<1>4. ASSUME FinishTurn PROVE MemoryInv'
  <2>1. CASE reached = None
    <3>1. UNCHANGED <<journal, db, open, checkpoint>> /\ step' = "receive"
      BY <1>4, <2>1 DEF FinishTurn
    <3>2. WorldType' /\ SignalsType'
      BY <1>1 DEF MemoryInv, TypeOK, WorldType, SignalsType
    <3> QED BY <1>1, <3>1, <3>2, WithinKeeps DEF MemoryInv, TypeOK, MemoryType
  <2>2. CASE reached # None
    <3> DEFINE id == IF ~open THEN checkpoint
                     ELSE IF checkpoint > reached THEN checkpoint ELSE reached
    <3>1. Persist(journal, id)
      BY <1>4, <2>2 DEF FinishTurn
    <3>2. open => id # None
      BY <1>2, <2>2
    <3> HIDE DEF id
    <3> QED BY <1>1, <3>1, <3>2, PersistKeeps
  <2> QED BY <2>1, <2>2
<1> QED BY <1>3, <1>4

(* What is told of roots, and of files of theirs.                          *)
LEMMA ToldIs ==
    ASSUME SignalsType, NEW r \in Roots
    PROVE  {s.name : s \in {e \in InBatch("entry") : e.root = r}} \subseteq Names
<1>1. ASSUME NEW e \in InBatch("entry") PROVE e.name \in Names
  <2>1. e \in Signals /\ e.kind = "entry"
    BY DEF InBatch, SignalsType
  <2> QED BY <2>1 DEF Signals, Lost
<1> QED BY <1>1

LEMMA ClassifyStep == ASSUME MemoryInv, Classify PROVE MemoryInv'
<1> DEFINE lost == InBatch("lost") # {}
           told(r) == {s.name : s \in {e \in InBatch("entry") : e.root = r}}
<1>1. /\ step = "classify" /\ step' = "settle" /\ batch' = <<>>
      /\ changed' = [r \in Roots |-> IF r \notin world THEN {}
                                     ELSE changed[r] \cup told(r) \cup IF lost THEN Parts ELSE {}]
      /\ UNCHANGED <<tree, log, taken, queue, noting, pool, index, world, cached, bounds>>
  BY DEF Classify, outside
<1>2. changed' \in [Roots -> SUBSET Names]
  <2>1. \A r \in Roots : told(r) \subseteq Names
    BY ToldIs DEF MemoryInv, TypeOK
  <2>2. changed \in [Roots -> SUBSET Names]
    BY DEF MemoryInv, TypeOK, MemoryType
  <2> HIDE DEF lost, told
  <2> QED BY <1>1, <2>1, <2>2, FilesAssumption
<1>3. WorldType' /\ SignalsType'
  BY <1>1 DEF MemoryInv, TypeOK, WorldType, SignalsType
<1>4. CASE ~lost
  <2>1. UNCHANGED <<db, open, checkpoint, journal>>
    BY <1>4 DEF Classify
  <2> QED BY <1>1, <1>2, <1>3, <2>1, WithinKeeps DEF MemoryInv, TypeOK, MemoryType
<1>5. CASE lost
  <2>1. /\ db' = IF open THEN NoCopy ELSE db
        /\ open' = FALSE /\ journal' = EmptyJournal
    BY <1>5 DEF Classify
  <2>2. AreStocks(NoCopy.stocks)
    BY NothingLoaded DEF NoCopy
  <2>3. AreStocks(db'.stocks) /\ (db'.checkpoint = None => db' = NoCopy)
    <3>1. AreStocks(db.stocks) /\ (db.checkpoint = None => db = NoCopy)
      BY DEF MemoryInv, TypeOK, CopyType, Session
    <3> QED BY <2>1, <2>2, <3>1
  <2>4. TypeOK'
    BY <1>1, <1>2, <1>3, <2>1, <2>3, NothingLoaded
    DEF MemoryInv, TypeOK, MemoryType, CopyType, AreStocks
  <2>5. Session'
    BY <1>1, <2>1, <2>3 DEF MemoryInv, Session
  <2>6. Memory'
    BY <1>1, <2>1 DEF MemoryInv, Memory
  <2> QED BY <2>4, <2>5, <2>6 DEF MemoryInv
<1> QED BY <1>4, <1>5

LEMMA NoteStep == ASSUME MemoryInv, Note PROVE MemoryInv'
<1> DEFINE r == noting.root
           names == noting.names
           files == [n \in Names |-> IF n \in names THEN noting.read[n] ELSE pool[r].files[n]]
<1>1. /\ step = "note" /\ step' = "shared"
      /\ pool' = [pool EXCEPT ![r].files = files]
      /\ index' = (index \ {<<r, n, pool[r].files[n]>> : n \in names})
                    \cup {<<r, n, files[n]>> : n \in {m \in names : files[m] # 0}}
      /\ journal' = Noted(journal, r, names, noting.read)
      /\ UNCHANGED <<tree, log, taken, queue, batch, noting, world, changed, cached, open,
                     checkpoint, db, bounds>>
  BY DEF Note, outside
<1>2. /\ r \in Roots /\ pool[r].method /\ names \subseteq Names /\ noting.read \in Files
      /\ pool \in [Roots -> [id : Nat, method : BOOLEAN, files : Files]]
      /\ IsJournal(journal)
  BY <1>1 DEF MemoryInv, TypeOK, MemoryType, CopyType, Session
<1>3. pool[r].id # 0
  BY <1>2, NothingFiled DEF MemoryInv, Session
<1>4. files \in Files /\ \A n \in Names :
        files[n] = IF n \in names THEN noting.read[n] ELSE pool[r].files[n]
  BY <1>2 DEF Files
<1> HIDE DEF files, r, names
<1>5. /\ pool' \in [Roots -> [id : Nat, method : BOOLEAN, files : Files]]
      /\ \A q \in Roots : /\ pool'[q].id = pool[q].id /\ pool'[q].method = pool[q].method
                          /\ q # r => pool'[q] = pool[q]
      /\ pool'[r].files = files
  BY <1>1, <1>2, <1>4
<1>6. /\ IsJournal(journal')
      /\ \A s, q : /\ Has(s, journal', q) <=> Has(s, journal, q)
                   /\ IdIn(s, journal', q) = IdIn(s, journal, q)
                   /\ \A n : FileIn(s, journal', q, n) =
                        IF q = r /\ n \in names THEN noting.read[n] ELSE FileIn(s, journal, q, n)
  BY <1>1, <1>2, NotedIs, SMTT(30)
<1>7. TypeOK'
  BY <1>1, <1>5, <1>6
  DEF MemoryInv, TypeOK, WorldType, SignalsType, MemoryType, CopyType, AreStocks
<1>8. Session'
  BY <1>1, <1>3, <1>5 DEF MemoryInv, Session
<1>9. index' = UNION {Filed(q, pool'[q].files) : q \in Roots}
  <2>1. index = UNION {Filed(q, pool[q].files) : q \in Roots}
    BY DEF MemoryInv, Memory
  <2>2. \A x : x \in index <=> \E q \in Roots, n \in Names :
                               pool[q].files[n] # 0 /\ x = <<q, n, pool[q].files[n]>>
    BY <2>1, FiledIs
  <2>3. \A x : x \in UNION {Filed(q, pool'[q].files) : q \in Roots} <=>
              \E q \in Roots, n \in Names : pool'[q].files[n] # 0 /\ x = <<q, n, pool'[q].files[n]>>
    BY FiledIs
  <2>4. ASSUME NEW q \in Roots, NEW n \in Names
        PROVE  pool'[q].files[n] = IF q = r /\ n \in names THEN files[n] ELSE pool[q].files[n]
    BY <1>4, <1>5
  <2>5. ASSUME NEW x \in index'
        PROVE  \E q \in Roots, n \in Names :
                 pool'[q].files[n] # 0 /\ x = <<q, n, pool'[q].files[n]>>
    <3>1. CASE x \in index /\ x \notin {<<r, n, pool[r].files[n]>> : n \in names}
      <4>1. PICK q \in Roots, n \in Names : pool[q].files[n] # 0 /\ x = <<q, n, pool[q].files[n]>>
        BY <2>2, <3>1
      <4>2. ~(q = r /\ n \in names)
        BY <3>1, <4>1
      <4> QED BY <2>4, <4>1, <4>2
    <3>2. CASE x \in {<<r, n, files[n]>> : n \in {m \in names : files[m] # 0}}
      BY <1>2, <2>4, <3>2
    <3> QED BY <1>1, <2>5, <3>1, <3>2
  <2>6. ASSUME NEW q \in Roots, NEW n \in Names, pool'[q].files[n] # 0
        PROVE  <<q, n, pool'[q].files[n]>> \in index'
    <3>1. CASE q = r /\ n \in names
      BY <1>1, <2>4, <2>6, <3>1
    <3>2. CASE ~(q = r /\ n \in names)
      <4>1. <<q, n, pool[q].files[n]>> \in index
        BY <2>2, <2>4, <2>6, <3>2
      <4>2. <<q, n, pool[q].files[n]>> \notin {<<r, m, pool[r].files[m]>> : m \in names}
        BY <3>2
      <4> QED BY <1>1, <2>4, <3>2, <4>1, <4>2
    <3> QED BY <3>1, <3>2
  <2> QED BY <2>3, <2>5, <2>6
<1>10. ASSUME open
       PROVE  \A q \in Roots :
                IF pool'[q].id = 0 THEN ~Has(db.stocks, journal, q)' ELSE Recorded(q)'
  <2>1. \A q \in Roots : IF pool[q].id = 0 THEN ~Has(db.stocks, journal, q) ELSE Recorded(q)
    BY <1>1, <1>10 DEF MemoryInv, Memory
  <2>2. ASSUME NEW q \in Roots, Recorded(q) PROVE Recorded(q)'
    BY <1>1, <1>4, <1>5, <1>6, <2>2 DEF Recorded
  <2> QED BY <1>1, <1>5, <1>6, <2>1, <2>2
<1>11. Memory'
  BY <1>1, <1>9, <1>10 DEF Memory
<1> QED BY <1>7, <1>8, <1>11 DEF MemoryInv

-------------------------------------------------------------------------------
(* The events that are still to come.                                      *)

Later(l, k, r, n) == \E i \in 1..Len(l) : k < i /\ l[i] = <<r, n>>

(* These signals tell of the events after the first number up to the       *)
(* second, or that some were lost, and reach to no later one.              *)
Carries(l, signals, from, to) ==
    /\ \A i \in Nat : from < i /\ i <= to =>
         \E k \in 1..Len(signals) :
            signals[k] = Lost \/ signals[k] = Entry(l[i][1], l[i][2])
    /\ \A k \in 1..Len(signals) :
         /\ signals[k].kind = "entry" =>
              \E i \in Nat : /\ from < i /\ i <= to
                             /\ l[i] = <<signals[k].root, signals[k].name>>
         /\ signals[k].kind = "checkpoint" => signals[k].id <= to

Extends(l, more) == Len(l) <= Len(more) /\ \A i \in 1..Len(l) : more[i] = l[i]

LEMMA LaterGrows ==
    ASSUME NEW S, NEW l \in Seq(S), NEW more \in Seq(S), Extends(l, more),
           NEW k, NEW r, NEW n, Later(l, k, r, n)
    PROVE  Later(more, k, r, n)
<1>1. PICK i \in 1..Len(l) : k < i /\ l[i] = <<r, n>>
  BY DEF Later
<1>2. Len(l) \in Nat /\ Len(more) \in Nat /\ Len(l) <= Len(more)
  BY DEF Extends
<1>3. i \in 1..Len(more) /\ more[i] = l[i]
  BY <1>2 DEF Extends
<1> QED BY <1>1, <1>3 DEF Later

LEMMA LaterThan ==
    ASSUME NEW S, NEW l \in Seq(S), NEW k \in Int, NEW j \in Int, j <= k, NEW r, NEW n,
           Later(l, k, r, n)
    PROVE  Later(l, j, r, n)
BY DEF Later

LEMMA CarriesGrows ==
    ASSUME NEW S, NEW l \in Seq(S), NEW more \in Seq(S), Extends(l, more), NEW signals,
           NEW from \in Nat, NEW to \in Nat, to <= Len(l), Carries(l, signals, from, to)
    PROVE  Carries(more, signals, from, to)
<1>1. \A i \in Nat : from < i /\ i <= to => more[i] = l[i]
  BY DEF Extends
<1> QED BY <1>1 DEF Carries

LEMMA CarriesNone ==
    ASSUME NEW l, NEW from \in Nat, NEW to \in Nat
    PROVE  /\ Carries(l, <<>>, from, from)
           /\ Carries(l, <<>>, from, to) => to <= from
<1>1. Carries(l, <<>>, from, from)
  BY DEF Carries
<1>2. ASSUME Carries(l, <<>>, from, to), from < to PROVE FALSE
  BY <1>2 DEF Carries
<1> QED BY <1>1, <1>2

(* One more event, or that it was lost, and perhaps the id it reaches to.  *)
LEMMA CarriesMore ==
    ASSUME NEW l \in Seq(Roots \X Names), NEW signals \in Seq(Signals),
           NEW from \in Nat, NEW to \in Nat, from <= to, to < Len(l),
           Carries(l, signals, from, to),
           NEW what \in {<<Entry(l[to + 1][1], l[to + 1][2])>>, <<Lost>>},
           NEW end \in {<<>>, <<Checkpoint(to + 1)>>}
    PROVE  Carries(l, signals \o what \o end, from, to + 1)
<1>1. l[to + 1] \in Roots \X Names
  OBVIOUS
<1>2. /\ Entry(l[to + 1][1], l[to + 1][2]) \in Signals /\ Lost \in Signals
      /\ Checkpoint(to + 1) \in Signals
  BY <1>1, SignalsAre
<1>3. PICK x \in Signals : /\ what = <<x>>
                           /\ x = Lost \/ x = Entry(l[to + 1][1], l[to + 1][2])
  BY <1>2
<1>4. end \in Seq(Signals) /\ Len(end) \in {0, 1}
      /\ (Len(end) = 1 => end[1] = Checkpoint(to + 1))
  <2>1. CASE end = <<>>
    BY <2>1
  <2>2. CASE end = <<Checkpoint(to + 1)>>
    <3> HIDE DEF Checkpoint
    <3> QED BY <1>2, <2>2
  <2> QED BY <2>1, <2>2
<1> DEFINE all == signals \o what \o end
           n == Len(signals)
<1>5. n \in Nat /\ what \in Seq(Signals) /\ Len(what) = 1 /\ what[1] = x
  BY <1>3
<1>6. /\ signals \o what \in Seq(Signals) /\ Len(signals \o what) = n + 1
      /\ \A i \in 1..n + 1 : (signals \o what)[i] = IF i <= n THEN signals[i] ELSE what[i - n]
  BY <1>5, ConcatProperties
<1>7. /\ Len(all) = n + 1 + Len(end)
      /\ \A i \in 1..n + 1 + Len(end) :
           all[i] = IF i <= n + 1 THEN (signals \o what)[i] ELSE end[i - (n + 1)]
  BY <1>4, <1>6, ConcatProperties
<1>8. /\ \A i \in 1..n : all[i] = signals[i]
      /\ all[n + 1] = x
      /\ \A i \in 1..Len(all) : i > n + 1 => all[i] = Checkpoint(to + 1)
  <2>1. n + 1 \in 1..n + 1 + Len(end) /\ \A i \in 1..n : i \in 1..n + 1 + Len(end)
    BY <1>4, <1>5
  <2>2. all[n + 1] = x
    BY <1>5, <1>6, <1>7, <2>1
  <2>3. \A i \in 1..n : all[i] = signals[i]
    BY <1>5, <1>6, <1>7, <2>1
  <2>4. \A i \in 1..Len(all) : i > n + 1 => all[i] = Checkpoint(to + 1)
    BY <1>4, <1>5, <1>7
  <2> QED BY <2>2, <2>3, <2>4
<1> HIDE DEF all
<1>9. ASSUME NEW i \in Nat, from < i, i <= to + 1
      PROVE  \E k \in 1..Len(all) : all[k] = Lost \/ all[k] = Entry(l[i][1], l[i][2])
  <2>1. CASE i <= to
    <3>1. PICK k \in 1..n : signals[k] = Lost \/ signals[k] = Entry(l[i][1], l[i][2])
      BY <1>9, <2>1 DEF Carries
    <3>2. k \in 1..Len(all)
      BY <1>4, <1>5, <1>7
    <3> QED BY <1>8, <3>1, <3>2
  <2>2. CASE i = to + 1
    <3>1. n + 1 \in 1..Len(all)
      BY <1>4, <1>5, <1>7
    <3> QED BY <1>3, <1>8, <2>2, <3>1
  <2> QED BY <1>9, <2>1, <2>2
<1>10. ASSUME NEW k \in 1..Len(all)
       PROVE  /\ all[k].kind = "entry" =>
                   \E i \in Nat : /\ from < i /\ i <= to + 1
                                  /\ l[i] = <<all[k].root, all[k].name>>
              /\ all[k].kind = "checkpoint" => all[k].id <= to + 1
  <2>1. CASE k \in 1..n
    <3>1. all[k] = signals[k] /\ signals[k] \in Signals
      BY <1>8, <2>1
    <3>2. signals[k].kind = "checkpoint" => signals[k].id \in Nat
      BY <3>1 DEF Signals, Lost
    <3>3. signals[k].kind = "checkpoint" => signals[k].id <= to + 1
      BY <2>1, <3>2 DEF Carries
    <3>4. signals[k].kind = "entry" =>
            \E i \in Nat : /\ from < i /\ i <= to
                           /\ l[i] = <<signals[k].root, signals[k].name>>
      BY <2>1 DEF Carries
    <3>5. \A i \in Nat : i <= to => i <= to + 1
      OBVIOUS
    <3> QED BY <3>1, <3>3, <3>4, <3>5
  <2>2. CASE k = n + 1
    <3>1. all[k] = x
      BY <1>8, <2>2
    <3>2. x.kind = "entry" => x.root = l[to + 1][1] /\ x.name = l[to + 1][2]
      BY <1>3 DEF Entry, Lost
    <3>3. x.kind # "checkpoint"
      BY <1>3 DEF Entry, Lost
    <3>4. l[to + 1] = <<l[to + 1][1], l[to + 1][2]>>
      BY <1>1
    <3> QED BY <3>1, <3>2, <3>3, <3>4
  <2>3. CASE k > n + 1
    <3>1. all[k] = Checkpoint(to + 1)
      BY <1>8, <2>3
    <3> QED BY <3>1 DEF Checkpoint
  <2> QED BY <1>5, <2>1, <2>2, <2>3
<1> QED BY <1>9, <1>10 DEF Carries, all

(* That a lock is let go is no event.                                      *)
LEMMA CarriesReleased ==
    ASSUME NEW l, NEW signals \in Seq(Signals), NEW from, NEW to, NEW r \in Roots,
           Carries(l, signals, from, to)
    PROVE  Carries(l, Append(signals, Released(r)), from, to)
<1> DEFINE all == Append(signals, Released(r))
           n == Len(signals)
<1>1. /\ Len(all) = n + 1 /\ n \in Nat /\ all[n + 1] = Released(r)
      /\ \A i \in 1..n : all[i] = signals[i]
  OBVIOUS
<1> HIDE DEF all
<1>2. ASSUME NEW i \in Nat, from < i, i <= to
      PROVE  \E k \in 1..Len(all) : all[k] = Lost \/ all[k] = Entry(l[i][1], l[i][2])
  <2>1. PICK k \in 1..n : signals[k] = Lost \/ signals[k] = Entry(l[i][1], l[i][2])
    BY <1>2 DEF Carries
  <2> QED BY <1>1, <2>1
<1>3. ASSUME NEW k \in 1..Len(all)
      PROVE  /\ all[k].kind = "entry" =>
                  \E i \in Nat : from < i /\ i <= to /\ l[i] = <<all[k].root, all[k].name>>
             /\ all[k].kind = "checkpoint" => all[k].id <= to
  <2>1. CASE k \in 1..n
    BY <1>1, <2>1 DEF Carries
  <2>2. CASE k = n + 1
    BY <1>1, <2>2 DEF Released
  <2> QED BY <1>1, <2>1, <2>2
<1> QED BY <1>2, <1>3 DEF Carries, all

(* What came after the first number is told of, or came after the second.  *)
LEMMA Carried ==
    ASSUME NEW S, NEW l \in Seq(S), NEW signals, NEW from \in Nat, NEW to \in Nat,
           Carries(l, signals, from, to), NEW r, NEW n, Later(l, from, r, n)
    PROVE  \/ Later(l, to, r, n)
           \/ \E k \in 1..Len(signals) : signals[k] = Lost \/ signals[k] = Entry(r, n)
<1>1. PICK i \in 1..Len(l) : from < i /\ l[i] = <<r, n>>
  BY DEF Later
<1>2. CASE i <= to
  BY <1>1, <1>2 DEF Carries
<1>3. CASE to < i
  BY <1>1, <1>3 DEF Later
<1> QED BY <1>2, <1>3

-------------------------------------------------------------------------------
(* The inductive invariant of what is current.                             *)

Ids == Nat \cup {None}
Excused == swapped \cup missed

(* Where a session is, and what it keeps of changes by then.               *)
Turns ==
    /\ checkpoint \in Ids /\ reached \in Ids /\ db.checkpoint \in Ids
    /\ db.checkpoint <= Len(log)
    /\ step = "down" => reached = None /\ queue = <<>> /\ blocked = {}
    /\ step \in {"down", "start"} => deferred = {}
    /\ step \notin {"start", "started", "classify"} => batch = <<>>
    /\ step # "down" /\ ~open => db = NoCopy
    /\ noting.left \subseteq noting.names
    /\ \A r \in Roots : /\ pool[r].id # 0 /\ ~pool[r].method => r \in refused
                        /\ changed[r] # {} => r \in dirty \cup waiting
    /\ step = "start" =>
         \A r \in Roots : pool[r].id = 0 =>
           /\ r \in DOMAIN cached <=> r \in DOMAIN db.stocks
           /\ r \in DOMAIN cached => cached[r] = db.stocks[r]

(* The events up to the first number were classified, those up to the      *)
(* second are in the batch, and what the copy reaches to was classified.   *)
Streams(s, m) ==
    /\ s <= m /\ m <= taken
    /\ Carries(log, batch, s, m) /\ Carries(log, queue, m, taken)
    /\ checkpoint <= s /\ reached <= s /\ db.checkpoint <= s
    /\ step = "start" /\ db.checkpoint # None => s = db.checkpoint

BeingRead(r, n) == step = "note" /\ r = noting.root /\ n \in noting.names

(* An event of a file is told of, or was not delivered yet.                *)
Coming(r, n) ==
    \/ \E k \in 1..Len(batch) : batch[k] = Entry(r, n)
    \/ \E k \in 1..Len(queue) : queue[k] = Entry(r, n)
    \/ Later(log, taken, r, n)

(* An event of a file comes after this one; and if it is outside the parts *)
(* it is not one that was dropped.                                         *)
Comes(s, r, n) == Later(log, s, r, n) /\ (n \in Parts \/ Coming(r, n))

(* What came after the copy of a root that is still to be restored will be *)
(* told of, but for what was dropped.                                      *)
Replayed(s) ==
    step = "start" =>
      \A r \in Roots, n \in Names :
        pool[r].id = 0 /\ Later(log, s, r, n) /\ <<r, n>> \notin Excused => Comes(s, r, n)

(* A file is as it lies on the disk, or is known as changed, or an event   *)
(* of it is still to be classified.                                        *)
PoolKnown(s) ==
    \A r \in Roots, n \in Names :
      pool[r].id # 0 /\ r \notin refused /\ <<r, n>> \notin Excused /\ ~BeingRead(r, n) =>
        \/ pool[r].files[n] = tree[r].files[n] \/ n \in changed[r] \/ Comes(s, r, n)

(* What was read of a change is as it lies on the disk, or an event of it  *)
(* is still to be classified, or was dropped.                              *)
ReadKnown(s) ==
    step = "note" =>
      \A n \in noting.names \ noting.left :
        \/ noting.read[n] = tree[noting.root].files[n]
        \/ Comes(s, noting.root, n) \/ <<noting.root, n>> \in missed

(* The copy has a root that is there, and was admitted.                    *)
Speaks(r) == db.stocks[r].id = tree[r].id /\ r \notin refused

(* What the copy says of a file is so, or an event of it comes after the   *)
(* one that the copy reaches to.                                           *)
CopyKnown ==
    \A r \in DOMAIN db.stocks, n \in Names :
      Speaks(r) /\ <<r, n>> \notin Excused /\ <<r, n>> \notin deferred =>
        \/ db.stocks[r].files[n] = tree[r].files[n]
        \/ Later(log, db.checkpoint, r, n)

(* An event of a change that is in memory alone comes after the one that   *)
(* the copy reaches to, or the change was passed over by the commit.       *)
ChangesKnown ==
    \A r \in Roots, n \in Names :
      n \in changed[r] \/ BeingRead(r, n) =>
        db = NoCopy \/ <<r, n>> \in deferred \/ Later(log, db.checkpoint, r, n)

Seen(s, m) == Streams(s, m) /\ Replayed(s) /\ PoolKnown(s) /\ ReadKnown(s)
Following == step # "down" => \E s, m \in Nat : Seen(s, m)

CurrentInv == Turns /\ CopyKnown /\ ChangesKnown /\ Following

LEMMA CurrentWhenAtRest == ASSUME MemoryInv, CurrentInv PROVE InventoryIsCurrent
<1> SUFFICES ASSUME AtRest, NEW r \in world \ refused, NEW n \in Names,
                    <<r, n>> \notin swapped \cup missed
             PROVE  pool[r].files[n] = tree[r].files[n]
  BY DEF InventoryIsCurrent
<1>1. /\ step = "receive" /\ queue = <<>> /\ taken = Len(log) /\ dirty = {} /\ waiting = {}
  BY DEF AtRest
<1>2. batch = <<>> /\ \A q \in Roots : changed[q] = {}
  BY <1>1 DEF CurrentInv, Turns
<1>3. r \in Roots /\ pool[r].id # 0
  BY <1>1 DEF MemoryInv, TypeOK, MemoryType, Session
<1>4. PICK s \in Nat, m \in Nat : Streams(s, m) /\ PoolKnown(s)
  BY <1>1 DEF CurrentInv, Following, Seen
<1>5. log \in Seq(Roots \X Names) /\ Len(log) \in Nat
  BY DEF MemoryInv, TypeOK, WorldType
<1>6. Len(log) <= s
  <2>1. Carries(log, <<>>, s, m) /\ Carries(log, <<>>, m, Len(log))
    BY <1>1, <1>2, <1>4 DEF Streams
  <2>2. m <= s /\ Len(log) <= m
    BY <1>5, <2>1, CarriesNone
  <2> QED BY <1>5, <2>2
<1>7. ~Comes(s, r, n)
  BY <1>5, <1>6 DEF Comes, Later
<1> QED BY <1>1, <1>2, <1>3, <1>4, <1>7 DEF PoolKnown, BeingRead, Excused

LEMMA CurrentStarts == ASSUME InventoryInit PROVE CurrentInv
<1>1. /\ log = <<>> /\ queue = <<>> /\ batch = <<>> /\ db = NoCopy /\ step = "down" /\ blocked = {}
      /\ checkpoint = None /\ reached = None /\ deferred = {} /\ swapped = {}
      /\ noting = [root |-> "none", left |-> {}, read |-> NoFiles, names |-> {}]
      /\ pool = [r \in Roots |-> NoRoot] /\ changed = [r \in Roots |-> {}]
  BY DEF InventoryInit, Down
<1>2. db.checkpoint = None /\ db.stocks = <<>> /\ DOMAIN db.stocks = {}
  <2>1. db.checkpoint = None /\ db.stocks = <<>>
    BY <1>1 DEF NoCopy
  <2> QED BY <2>1
<1>3. Turns
  <2>1. Len(log) = 0 /\ None <= 0 /\ None \in Ids
    BY <1>1 DEF None, Ids
  <2>2. \A r \in Roots : pool[r].id = 0
    BY <1>1, NothingFiled
  <2> QED BY <1>1, <1>2, <2>1, <2>2 DEF Turns
<1>4. CopyKnown /\ ChangesKnown /\ Following
  BY <1>1, <1>2 DEF CopyKnown, ChangesKnown, Following, BeingRead
<1> QED BY <1>3, <1>4 DEF CurrentInv

-------------------------------------------------------------------------------
(* Every step keeps what is current.                                       *)

(* What happens outside leaves an event, or is excused.                    *)
LEMMA ChangeKeeps ==
    ASSUME MemoryInv, CurrentInv, WorldType',
           UNCHANGED <<taken, queue, process, db, deferred, refused>>, Extends(log, log'),
           \A r \in Roots, n \in Names :
             \/ Later(log', Len(log), r, n)
             \/ /\ tree'[r].files[n] = tree[r].files[n] /\ tree'[r].id = tree[r].id
                /\ <<r, n>> \in Excused => <<r, n>> \in Excused'
                /\ <<r, n>> \in missed => <<r, n>> \in missed'
             \/ <<r, n>> \in Excused' /\ step # "note"
    PROVE  CurrentInv'
<1>1. UNCHANGED <<taken, queue, db, deferred, refused, step, batch, noting, pool, changed, waiting,
                  blocked, dirty, cached, open, checkpoint, reached, todo>>
  BY DEF process
<1>2. /\ log \in Seq(Roots \X Names) /\ log' \in Seq(Roots \X Names)
      /\ Len(log) \in Nat /\ Len(log') \in Nat /\ Len(log) <= Len(log')
      /\ taken \in Nat /\ taken <= Len(log)
  BY DEF MemoryInv, TypeOK, WorldType, Extends
<1>3. db.checkpoint \in Ids /\ db.checkpoint <= Len(log) /\ db.checkpoint \in Int
  BY DEF CurrentInv, Turns, Ids, None
<1>4. \A k, r, n : Later(log, k, r, n) => Later(log', k, r, n)
  BY <1>2, LaterGrows
<1>5. \A k \in Int : \A r, n : k <= Len(log) /\ Later(log', Len(log), r, n) => Later(log', k, r, n)
  BY <1>2, LaterThan
<1>6. Turns'
  BY <1>1, <1>2, <1>3 DEF CurrentInv, Turns
<1>7. CopyKnown'
  <2>1. ASSUME NEW r \in DOMAIN db.stocks, NEW n \in Names,
               db.stocks[r].id = tree'[r].id, r \notin refused,
               <<r, n>> \notin Excused', <<r, n>> \notin deferred
        PROVE  db.stocks[r].files[n] = tree'[r].files[n] \/ Later(log', db.checkpoint, r, n)
    <3>1. r \in Roots
      BY DEF MemoryInv, TypeOK, CopyType, AreStocks
    <3>2. CASE Later(log', Len(log), r, n)
      BY <1>3, <1>5, <3>2
    <3>3. CASE /\ tree'[r].files[n] = tree[r].files[n] /\ tree'[r].id = tree[r].id
               /\ <<r, n>> \in Excused => <<r, n>> \in Excused'
      <4>1. db.stocks[r].files[n] = tree[r].files[n] \/ Later(log, db.checkpoint, r, n)
        BY <2>1, <3>3 DEF CurrentInv, CopyKnown, Speaks
      <4> QED BY <1>4, <3>3, <4>1
    <3> QED BY <2>1, <3>1, <3>2, <3>3
  <2>2. db' = db /\ deferred' = deferred /\ refused' = refused
    BY <1>1
  <2> QED BY <2>1, <2>2 DEF CopyKnown, Speaks
<1>8. ChangesKnown'
  BY <1>1, <1>4 DEF CurrentInv, ChangesKnown, BeingRead
<1>9. ASSUME NEW s \in Nat, NEW m \in Nat, Seen(s, m) PROVE Seen(s, m)'
  <2>1. s <= m /\ m <= taken /\ s <= Len(log)
    BY <1>2, <1>9 DEF Seen, Streams
  <2>2. Carries(log', batch, s, m) /\ Carries(log', queue, m, taken)
    <3>1. Carries(log, batch, s, m) /\ Carries(log, queue, m, taken) /\ m <= Len(log)
      BY <1>2, <1>9, <2>1 DEF Seen, Streams
    <3> QED BY <1>2, <3>1, CarriesGrows
  <2>3. Streams(s, m)'
    BY <1>1, <1>9, <2>2 DEF Seen, Streams
  <2>8. \A q, x : /\ Later(log', Len(log), q, x) => Comes(s, q, x)'
                  /\ Coming(q, x) => Coming(q, x)'
                  /\ Comes(s, q, x) => Comes(s, q, x)'
    BY <1>1, <1>2, <1>4, <1>5, <2>1 DEF Comes, Coming
  <2>4. ASSUME NEW r \in Roots, NEW n \in Names, pool[r].id # 0, r \notin refused,
               <<r, n>> \notin Excused', ~BeingRead(r, n)
        PROVE  \/ pool[r].files[n] = tree'[r].files[n] \/ n \in changed[r]
               \/ Comes(s, r, n)'
    <3>1. CASE Later(log', Len(log), r, n)
      BY <2>8, <3>1
    <3>2. CASE /\ tree'[r].files[n] = tree[r].files[n] /\ tree'[r].id = tree[r].id
               /\ <<r, n>> \in Excused => <<r, n>> \in Excused'
      <4>1. \/ pool[r].files[n] = tree[r].files[n] \/ n \in changed[r]
            \/ Comes(s, r, n)
        BY <1>9, <2>4, <3>2 DEF Seen, PoolKnown
      <4> QED BY <2>8, <3>2, <4>1
    <3> QED BY <2>4, <3>1, <3>2
  <2>5. PoolKnown(s)'
    BY <1>1, <2>4 DEF PoolKnown, BeingRead
  <2>6. ASSUME step = "note", NEW n \in noting.names \ noting.left
        PROVE  \/ noting.read[n] = tree'[noting.root].files[n]
               \/ Comes(s, noting.root, n)' \/ <<noting.root, n>> \in missed'
    <3>1. noting.root \in Roots /\ n \in Names
      BY <2>6 DEF MemoryInv, TypeOK, MemoryType, Session
    <3>2. \/ noting.read[n] = tree[noting.root].files[n]
          \/ Comes(s, noting.root, n) \/ <<noting.root, n>> \in missed
      BY <1>9, <2>6 DEF Seen, ReadKnown
    <3>3. CASE Later(log', Len(log), noting.root, n)
      <4>1. Comes(s, noting.root, n)'
        BY <1>1, <2>8, <3>3
      <4> QED BY <4>1
    <3>4. CASE /\ tree'[noting.root].files[n] = tree[noting.root].files[n]
               /\ <<noting.root, n>> \in missed => <<noting.root, n>> \in missed'
      <4>1. Comes(s, noting.root, n) => Comes(s, noting.root, n)'
        BY <1>1, <2>8
      <4> QED BY <3>2, <3>4, <4>1
    <3> QED BY <2>6, <3>1, <3>3, <3>4
  <2>7. ReadKnown(s)'
    BY <1>1, <2>6 DEF ReadKnown
  <2>9. ASSUME step = "start", NEW r \in Roots, NEW n \in Names, pool[r].id = 0,
               Later(log', s, r, n), <<r, n>> \notin Excused'
        PROVE  Comes(s, r, n)'
    <3>1. CASE Later(log', Len(log), r, n)
      BY <2>8, <3>1
    <3>2. CASE <<r, n>> \notin Excused /\ ~Later(log', Len(log), r, n)
      <4>1. Later(log, s, r, n)
        <5>1. PICK i \in 1..Len(log') : s < i /\ log'[i] = <<r, n>>
          BY <2>9 DEF Later
        <5>2. i <= Len(log)
          BY <1>2, <3>2, <5>1 DEF Later
        <5> QED BY <1>2, <5>1, <5>2 DEF Later, Extends
      <4>2. Comes(s, r, n)
        BY <1>9, <2>9, <3>2, <4>1 DEF Seen, Replayed
      <4> QED BY <2>8, <4>2
    <3> QED BY <2>9, <3>1, <3>2
  <2>10. Replayed(s)'
    BY <1>1, <2>9 DEF Replayed
  <2> QED BY <2>3, <2>5, <2>7, <2>10 DEF Seen
<1>10. Following'
  BY <1>1, <1>9 DEF CurrentInv, Following
<1> QED BY <1>6, <1>7, <1>8, <1>10 DEF CurrentInv

LEMMA BuildWritesKeeps ==
    ASSUME MemoryInv, CurrentInv, NEW r \in Roots, NEW n \in Names, BuildWrites(r, n)
    PROVE  CurrentInv'
<1>1. /\ log' = Append(log, <<r, n>>)
      /\ swapped' = swapped \ {<<r, n>>} /\ missed' = missed \ {<<r, n>>}
      /\ UNCHANGED <<taken, queue, process, db, deferred, refused>>
      /\ \E id \in {0, bounds'.writes} : tree' = [tree EXCEPT ![r].files[n] = id]
  BY DEF BuildWrites
<1>2. WorldType' /\ tree \in [Roots -> [id : Nat, files : Files]] /\ log \in Seq(Roots \X Names)
  BY BuildWritesWorld DEF MemoryInv, TypeOK, WorldType
<1>3. /\ Len(log') = Len(log) + 1 /\ Len(log) \in Nat /\ log'[Len(log) + 1] = <<r, n>>
      /\ \A i \in 1..Len(log) : log'[i] = log[i]
  BY <1>1, <1>2
<1>4. Extends(log, log') /\ Later(log', Len(log), r, n)
  BY <1>3 DEF Extends, Later
<1>5. ASSUME NEW q \in Roots, NEW m \in Names, ~(q = r /\ m = n)
      PROVE  /\ tree'[q].files[m] = tree[q].files[m] /\ tree'[q].id = tree[q].id
             /\ <<q, m>> \in Excused => <<q, m>> \in Excused'
             /\ <<q, m>> \in missed => <<q, m>> \in missed'
  <2>1. tree'[q].files[m] = tree[q].files[m] /\ tree'[q].id = tree[q].id
    BY <1>1, <1>2, <1>5 DEF Files
  <2>2. <<q, m>> # <<r, n>>
    BY <1>5
  <2>3. /\ <<q, m>> \in Excused => <<q, m>> \in Excused'
        /\ <<q, m>> \in missed => <<q, m>> \in missed'
    BY <1>1, <2>2 DEF Excused
  <2> QED BY <2>1, <2>3
<1> QED BY <1>1, <1>2, <1>4, <1>5, ChangeKeeps

LEMMA MoveKeeps ==
    ASSUME MemoryInv, CurrentInv, NEW r \in Roots, Move(r) PROVE CurrentInv'
<1> DEFINE told == Seqs!SetToSeq({r} \X Names)
<1>1. /\ log' = log \o told
      /\ swapped' = swapped \ ({r} \X Names) /\ missed' = missed \ ({r} \X Names)
      /\ UNCHANGED <<taken, queue, process, db, deferred, refused>>
      /\ \E id \in {0, bounds'.moves + 1} :
           tree' = [tree EXCEPT ![r] = [id |-> id, files |-> NoFiles]]
  BY DEF Move
<1>2. WorldType' /\ tree \in [Roots -> [id : Nat, files : Files]] /\ log \in Seq(Roots \X Names)
  BY MoveWorld DEF MemoryInv, TypeOK, WorldType
<1>3. /\ told \in Seq(Roots \X Names)
      /\ \A n \in Names : \E i \in 1..Len(told) : told[i] = <<r, n>>
  BY Moved
<1> HIDE DEF told
<1>4. /\ Len(log') = Len(log) + Len(told) /\ Len(log) \in Nat /\ Len(told) \in Nat
      /\ \A i \in 1..Len(log) + Len(told) :
           log'[i] = IF i <= Len(log) THEN log[i] ELSE told[i - Len(log)]
  BY <1>1, <1>2, <1>3, ConcatProperties
<1>5. Extends(log, log')
  BY <1>4 DEF Extends
<1>6. ASSUME NEW n \in Names PROVE Later(log', Len(log), r, n)
  <2>1. PICK i \in 1..Len(told) : told[i] = <<r, n>>
    BY <1>3
  <2> DEFINE j == Len(log) + i
  <2>2. /\ j \in 1..Len(log) + Len(told) /\ j \in 1..Len(log') /\ Len(log) < j
        /\ ~(j <= Len(log)) /\ j - Len(log) = i
    BY <1>4
  <2> HIDE DEF j
  <2>3. log'[j] = <<r, n>>
    BY <1>4, <2>1, <2>2
  <2> QED BY <2>2, <2>3 DEF Later
<1>7. ASSUME NEW q \in Roots, NEW m \in Names, q # r
      PROVE  /\ tree'[q].files[m] = tree[q].files[m] /\ tree'[q].id = tree[q].id
             /\ <<q, m>> \in Excused => <<q, m>> \in Excused'
             /\ <<q, m>> \in missed => <<q, m>> \in missed'
  <2>1. tree'[q].files[m] = tree[q].files[m] /\ tree'[q].id = tree[q].id
    BY <1>1, <1>2, <1>7
  <2>2. <<q, m>> \notin {r} \X Names
    BY <1>7
  <2>3. /\ <<q, m>> \in Excused => <<q, m>> \in Excused'
        /\ <<q, m>> \in missed => <<q, m>> \in missed'
    BY <1>1, <2>2 DEF Excused
  <2> QED BY <2>1, <2>3
<1> QED BY <1>1, <1>2, <1>5, <1>6, <1>7, ChangeKeeps

(* A file that is shared is excused, and none is while changes are read.   *)
LEMMA ShareKeeps == ASSUME MemoryInv, CurrentInv, Share PROVE CurrentInv'
<1>1. /\ step \in {"started", "shared"}
      /\ UNCHANGED <<log, missed>>
      /\ UNCHANGED <<taken, queue, process, db, deferred, refused>>
  BY DEF Share
<1>2. PICK r \in Roots, n \in Names :
        /\ tree' = [tree EXCEPT ![r].files[n] = MaxFileWrites + bounds'.swaps]
        /\ swapped' = swapped \cup {<<r, n>>}
  <2>1. \E r \in world \ locked, n \in Names :
          /\ tree' = [tree EXCEPT ![r].files[n] = MaxFileWrites + bounds'.swaps]
          /\ swapped' = swapped \cup {<<r, n>>}
    BY DEF Share
  <2> QED BY <2>1 DEF MemoryInv, TypeOK, MemoryType
<1>3. WorldType' /\ tree \in [Roots -> [id : Nat, files : Files]] /\ log \in Seq(Roots \X Names)
  BY ShareWorld DEF MemoryInv, TypeOK, WorldType
<1>4. Extends(log, log')
  BY <1>1, <1>3 DEF Extends
<1>5. <<r, n>> \in Excused' /\ step # "note"
  BY <1>1, <1>2 DEF Excused
<1>6. ASSUME NEW q \in Roots, NEW m \in Names, ~(q = r /\ m = n)
      PROVE  /\ tree'[q].files[m] = tree[q].files[m] /\ tree'[q].id = tree[q].id
             /\ <<q, m>> \in Excused => <<q, m>> \in Excused'
             /\ <<q, m>> \in missed => <<q, m>> \in missed'
  <2>1. tree'[q].files[m] = tree[q].files[m] /\ tree'[q].id = tree[q].id
    BY <1>2, <1>3, <1>6 DEF Files
  <2>2. /\ <<q, m>> \in Excused => <<q, m>> \in Excused'
        /\ <<q, m>> \in missed => <<q, m>> \in missed'
    BY <1>1, <1>2 DEF Excused
  <2> QED BY <2>1, <2>2
<1> QED BY <1>1, <1>3, <1>4, <1>5, <1>6, ChangeKeeps

(* What is put into the queue is what the stream delivers, and what it     *)
(* does not deliver is missed or in the parts.                             *)
LEMMA QueueKeeps ==
    ASSUME MemoryInv, CurrentInv,
           UNCHANGED <<tree, log, step, batch, noting, pool, changed, waiting, dirty, cached, open,
                       checkpoint, reached, db, swapped, deferred, refused>>,
           missed \subseteq missed',
           taken' \in Nat, taken <= taken', step = "down" => UNCHANGED <<queue, blocked>>,
           \A m \in Nat : m <= taken /\ Carries(log, queue, m, taken) =>
             Carries(log, queue', m, taken'),
           \A r \in Roots, n \in Names :
             Coming(r, n) => Coming(r, n)' \/ n \in Parts \/ <<r, n>> \in missed'
    PROVE  CurrentInv'
<1>1. Turns'
  BY DEF CurrentInv, Turns
<1>2. CopyKnown'
  BY DEF CurrentInv, CopyKnown, Speaks, Excused
<1>3. ChangesKnown'
  BY DEF CurrentInv, ChangesKnown, BeingRead
<1>4. ASSUME NEW s \in Nat, NEW m \in Nat, Seen(s, m) PROVE Seen(s, m)'
  <2>1. Streams(s, m)'
    <3>1. taken \in Nat
      BY DEF MemoryInv, TypeOK, WorldType
    <3> QED BY <1>4, <3>1 DEF Seen, Streams
  <2>2. \A r \in Roots, n \in Names :
          Comes(s, r, n) => Comes(s, r, n)' \/ <<r, n>> \in missed'
    BY DEF Comes
  <2>3. \A x : x \notin Excused' => x \notin Excused /\ x \notin missed'
    BY DEF Excused
  <2>4. Replayed(s)'
    BY <1>4, <2>2, <2>3 DEF Seen, Replayed
  <2>5. PoolKnown(s)'
    BY <1>4, <2>2, <2>3 DEF Seen, PoolKnown, BeingRead
  <2>6. ASSUME step = "note", NEW n \in noting.names \ noting.left
        PROVE  \/ noting.read[n] = tree[noting.root].files[n]
               \/ Comes(s, noting.root, n)' \/ <<noting.root, n>> \in missed'
    <3>1. noting.root \in Roots /\ n \in Names
      BY <2>6 DEF MemoryInv, TypeOK, MemoryType, Session
    <3>2. \/ noting.read[n] = tree[noting.root].files[n]
          \/ Comes(s, noting.root, n) \/ <<noting.root, n>> \in missed
      BY <1>4, <2>6 DEF Seen, ReadKnown
    <3> QED BY <2>2, <3>1, <3>2
  <2>7. ReadKnown(s)'
    BY <2>6 DEF ReadKnown
  <2> QED BY <2>1, <2>4, <2>5, <2>7 DEF Seen
<1>5. Following'
  BY <1>4 DEF CurrentInv, Following
<1> QED BY <1>1, <1>2, <1>3, <1>5 DEF CurrentInv

LEMMA NothingChanges ==
    ASSUME MemoryInv, CurrentInv, UNCHANGED <<tree, log, taken, queue, process, db, records>>
    PROVE  CurrentInv'
<1>1. taken \in Nat
  BY DEF MemoryInv, TypeOK, WorldType
<1>2. \A r, n : Coming(r, n) => Coming(r, n)'
  BY DEF Coming, process
<1> QED BY <1>1, <1>2, QueueKeeps DEF process, records

LEMMA WaiterReportsKeeps ==
    ASSUME MemoryInv, CurrentInv, NEW r \in Roots, WaiterReports(r) PROVE CurrentInv'
<1>1. /\ r \in blocked /\ queue' = Append(queue, Released(r)) /\ taken' = taken
      /\ UNCHANGED <<tree, log, step, batch, noting, pool, changed, waiting, dirty, cached, open,
                     checkpoint, reached, db, swapped, missed, deferred, refused>>
  BY DEF WaiterReports, outside, records
<1>2. step # "down"
  BY <1>1 DEF CurrentInv, Turns
<1>3. taken \in Nat /\ queue \in Seq(Signals)
  BY DEF MemoryInv, TypeOK, WorldType, SignalsType
<1>4. \A m \in Nat : Carries(log, queue, m, taken) => Carries(log, queue', m, taken')
  BY <1>1, <1>3, CarriesReleased
<1>5. \A k \in 1..Len(queue) : k \in 1..Len(queue') /\ queue'[k] = queue[k]
  <2> HIDE DEF Released
  <2> QED BY <1>1, <1>3
<1>6. \A q, n : Coming(q, n) => Coming(q, n)'
  BY <1>1, <1>5 DEF Coming
<1> QED BY <1>1, <1>2, <1>3, <1>4, <1>6, QueueKeeps

LEMMA DeliverKeeps == ASSUME MemoryInv, CurrentInv, Arrives PROVE CurrentInv'
<1>1. /\ step # "down" /\ taken < Len(log) /\ taken' = taken + 1
      /\ UNCHANGED <<tree, log, step, batch, noting, pool, changed, waiting, dirty, cached, open,
                     checkpoint, reached, db, swapped, deferred, refused>>
  BY DEF Arrives, outside, process
<1>2. taken \in Nat /\ queue \in Seq(Signals) /\ log \in Seq(Roots \X Names)
  BY DEF MemoryInv, TypeOK, WorldType, SignalsType
<1>3. PICK what \in {<<Entry(log[taken + 1][1], log[taken + 1][2])>>, <<Lost>>},
           end \in {<<>>, <<Checkpoint(taken + 1)>>} :
             /\ queue' = queue \o what \o end
             /\ \/ what = <<Entry(log[taken + 1][1], log[taken + 1][2])>> /\ missed' = missed
                \/ missed' = missed \cup ({log[taken + 1]} \ (Roots \X Parts))
  <2>1. \E end \in {<<>>, <<Checkpoint(taken + 1)>>} :
          \/ /\ queue' = queue \o <<Entry(log[taken + 1][1], log[taken + 1][2])>> \o end
             /\ missed' = missed
          \/ /\ queue' = queue \o <<Lost>> \o end
             /\ missed' = missed \cup ({log[taken + 1]} \ (Roots \X Parts))
    BY <1>1 DEF Arrives
  <2> HIDE DEF Lost, Entry, Checkpoint
  <2> QED BY <2>1
<1>4. ASSUME NEW m \in Nat, m <= taken, Carries(log, queue, m, taken)
      PROVE  Carries(log, queue', m, taken')
  BY <1>1, <1>2, <1>3, <1>4, CarriesMore
<1>5. log[taken + 1] \in Roots \X Names
  BY <1>1, <1>2
<1>6. /\ \A k \in 1..Len(queue) : k \in 1..Len(queue') /\ queue'[k] = queue[k]
      /\ Len(queue) + 1 \in 1..Len(queue') /\ queue'[Len(queue) + 1] = what[1]
  <2>1. Entry(log[taken + 1][1], log[taken + 1][2]) \in Signals /\ Lost \in Signals
        /\ Checkpoint(taken + 1) \in Signals
    BY <1>2, <1>5, SignalsAre
  <2>2. what \in Seq(Signals) /\ end \in Seq(Signals) /\ Len(what) = 1
    <3>1. \A x \in Signals : <<x>> \in Seq(Signals) /\ Len(<<x>>) = 1
      OBVIOUS
    <3>2. <<>> \in Seq(Signals)
      OBVIOUS
    <3> HIDE DEF Lost, Entry, Checkpoint
    <3> QED BY <2>1, <3>1, <3>2, Zenon
  <2>3. /\ queue \o what \in Seq(Signals) /\ Len(queue \o what) = Len(queue) + 1
        /\ \A k \in 1..Len(queue) + 1 :
             (queue \o what)[k] = IF k <= Len(queue) THEN queue[k] ELSE what[k - Len(queue)]
    BY <1>2, <2>2, ConcatProperties
  <2>4. /\ Len(queue') = Len(queue) + 1 + Len(end) /\ Len(end) \in Nat
        /\ \A k \in 1..Len(queue) + 1 : queue'[k] = (queue \o what)[k]
    <3>1. /\ Len(queue') = Len(queue \o what) + Len(end) /\ Len(end) \in Nat
          /\ \A k \in 1..Len(queue \o what) + Len(end) : k <= Len(queue \o what) =>
               queue'[k] = (queue \o what)[k]
      BY <1>3, <2>2, <2>3, ConcatProperties
    <3>2. Len(queue) \in Nat
      BY <1>2
    <3> QED BY <2>3, <3>1, <3>2
  <2>5. Len(queue) \in Nat
    BY <1>2
  <2> QED BY <2>3, <2>4, <2>5
<1>7. ASSUME NEW r \in Roots, NEW n \in Names, Coming(r, n), n \notin Parts
      PROVE  Coming(r, n)' \/ <<r, n>> \in missed'
  <2>1. CASE Later(log, taken, r, n)
    <3>1. PICK i \in 1..Len(log) : taken < i /\ log[i] = <<r, n>>
      BY <2>1 DEF Later
    <3>2. CASE i = taken + 1
      <4>1. CASE what = <<Entry(log[taken + 1][1], log[taken + 1][2])>>
        <5>1. what[1] = Entry(r, n)
          BY <3>1, <3>2, <4>1
        <5> QED BY <1>6, <5>1 DEF Coming
      <4>2. CASE missed' = missed \cup ({log[taken + 1]} \ (Roots \X Parts))
        BY <1>7, <3>1, <3>2, <4>2
      <4> QED BY <1>3, <4>1, <4>2
    <3>3. CASE taken' < i
      BY <1>1, <3>1, <3>3 DEF Coming, Later
    <3> QED BY <1>1, <1>2, <3>1, <3>2, <3>3
  <2>2. CASE ~Later(log, taken, r, n)
    BY <1>1, <1>6, <1>7, <2>2 DEF Coming
  <2> QED BY <2>1, <2>2
<1> QED BY <1>1, <1>2, <1>3, <1>4, <1>7, QueueKeeps

(* The history tells of all that came since.                               *)
LEMMA HistoryCarries ==
    ASSUME WorldType, NEW resumed \in 0..Len(log)
    PROVE  LET entries == [i \in 1..Len(log) - resumed |->
                             Entry(log[resumed + i][1], log[resumed + i][2])]
               end == IF resumed < Len(log) THEN <<Checkpoint(Len(log))>> ELSE <<>>
           IN /\ Carries(log, entries \o end, resumed, Len(log))
              /\ \A i \in 1..Len(log) : resumed < i =>
                   \E k \in 1..Len(entries \o end) :
                     (entries \o end)[k] = Entry(log[i][1], log[i][2])
<1> DEFINE entries == [i \in 1..Len(log) - resumed |->
                         Entry(log[resumed + i][1], log[resumed + i][2])]
           end == IF resumed < Len(log) THEN <<Checkpoint(Len(log))>> ELSE <<>>
           all == entries \o end
           n == Len(log) - resumed
<1>1. log \in Seq(Roots \X Names) /\ Len(log) \in Nat /\ n \in Nat
  BY DEF WorldType
<1>2. /\ Len(all) \in Nat /\ n <= Len(all)
      /\ \A i \in 1..n : all[i] = Entry(log[resumed + i][1], log[resumed + i][2])
      /\ \A i \in 1..Len(all) : i > n => all[i] = Checkpoint(Len(log))
  <2>1. /\ all \in Seq(Signals) /\ Len(all) = Len(entries) + Len(end)
        /\ Len(entries) = n /\ Len(end) \in {0, 1}
    BY HistoryIs
  <2>2. /\ \A i \in 1..n : all[i] = Entry(log[resumed + i][1], log[resumed + i][2])
        /\ \A i \in 1..Len(all) : i > n => all[i] = Checkpoint(Len(log))
    BY HistoryIs
  <2> HIDE DEF all, entries, end, n
  <2> QED BY <1>1, <2>1, <2>2
<1> HIDE DEF all
<1>3. ASSUME NEW i \in Nat, resumed < i, i <= Len(log)
      PROVE  \E k \in 1..Len(all) : all[k] = Entry(log[i][1], log[i][2])
  <2>1. i - resumed \in 1..n /\ resumed + (i - resumed) = i
    BY <1>1, <1>3
  <2>2. i - resumed \in 1..Len(all) /\ all[i - resumed] = Entry(log[i][1], log[i][2])
    BY <1>1, <1>2, <2>1
  <2> QED BY <2>2
<1>4. ASSUME NEW k \in 1..Len(all)
      PROVE  /\ all[k].kind = "entry" =>
                  \E i \in Nat : /\ resumed < i /\ i <= Len(log)
                                 /\ log[i] = <<all[k].root, all[k].name>>
             /\ all[k].kind = "checkpoint" => all[k].id <= Len(log)
  <2>1. CASE k <= n
    <3>1. k \in 1..n /\ all[k] = Entry(log[resumed + k][1], log[resumed + k][2])
      BY <1>1, <1>2, <2>1
    <3>2. resumed + k \in 1..Len(log) /\ resumed < resumed + k
      BY <1>1, <3>1
    <3>3. log[resumed + k] \in Roots \X Names
      BY <1>1, <3>2
    <3>4. /\ all[k].kind = "entry"
          /\ log[resumed + k] = <<all[k].root, all[k].name>>
      BY <3>1, <3>3 DEF Entry
    <3> QED BY <1>1, <3>2, <3>4, SMTT(20)
  <2>2. CASE k > n
    <3>1. all[k] = Checkpoint(Len(log))
      BY <1>2, <2>2
    <3> QED BY <1>1, <3>1 DEF Checkpoint
  <2> QED BY <1>1, <1>2, <2>1, <2>2
<1>5. Carries(log, all, resumed, Len(log))
  BY <1>3, <1>4 DEF Carries
<1>6. \A i \in 1..Len(log) : resumed < i =>
        \E k \in 1..Len(all) : all[k] = Entry(log[i][1], log[i][2])
  BY <1>1, <1>3
<1> QED BY <1>5, <1>6 DEF all

LEMMA OpenKeeps == ASSUME MemoryInv, CurrentInv, Open PROVE CurrentInv'
<1> DEFINE resumed == IF db.checkpoint # None THEN db.checkpoint ELSE Len(log)
           history_ == [i \in 1..Len(log) - resumed |->
                          Entry(log[resumed + i][1], log[resumed + i][2])]
                         \o (IF resumed < Len(log) THEN <<Checkpoint(Len(log))>> ELSE <<>>)
<1>1. /\ step = "down" /\ step' = "start" /\ open' = TRUE /\ taken' = Len(log)
      /\ UNCHANGED <<tree, log, queue, noting, pool, changed, blocked, reached, swapped, missed,
                     deferred, refused>>
  BY DEF Open, outside, records
<1>2. /\ \A r \in Roots : pool[r].id = 0 /\ changed[r] = {}
      /\ queue = <<>> /\ reached = None /\ deferred = {} /\ noting.left \subseteq noting.names
      /\ (db.checkpoint = None => db = NoCopy)
  <2>1. Session /\ Turns
    BY DEF MemoryInv, CurrentInv
  <2> QED BY <1>1, <2>1, NothingFiled DEF Session, Turns
<1>3. Len(log) \in Nat /\ resumed \in 0..Len(log) /\ db.checkpoint \in Ids
  <2>1. Len(log) \in Nat /\ db.checkpoint \in Ids /\ db.checkpoint <= Len(log)
    BY DEF MemoryInv, TypeOK, WorldType, CurrentInv, Turns
  <2> QED BY <2>1 DEF Ids, None
<1>4. /\ Carries(log, history_, resumed, Len(log))
      /\ \A i \in 1..Len(log) : resumed < i =>
           \E k \in 1..Len(history_) : history_[k] = Entry(log[i][1], log[i][2])
  <2> HIDE DEF resumed
  <2> QED BY <1>3, HistoryCarries DEF MemoryInv, TypeOK
<1>5. \/ /\ batch' = history_ /\ checkpoint' = resumed /\ cached' = db.stocks
         /\ db' = IF db.checkpoint = None THEN NoCopy ELSE db
      \/ batch' = <<>> /\ checkpoint' = Len(log) /\ db' = NoCopy /\ cached' = <<>>
  BY DEF Open
<1>6. NoCopy.checkpoint = None /\ NoCopy.stocks = <<>> /\ DOMAIN NoCopy.stocks = {}
  <2>1. NoCopy.checkpoint = None /\ NoCopy.stocks = <<>>
    BY DEF NoCopy
  <2> QED BY <2>1
<1>7. db' \in {db, NoCopy} /\ cached' = db'.stocks
  BY <1>2, <1>5, <1>6
<1>8. \E s \in 0..Len(log) :
        /\ Carries(log, batch', s, Len(log)) /\ checkpoint' = s
        /\ db'.checkpoint # None => s = db'.checkpoint
        /\ \A i \in 1..Len(log) : s < i =>
             \E k \in 1..Len(batch') : batch'[k] = Entry(log[i][1], log[i][2])
  <2>1. CASE batch' = <<>> /\ checkpoint' = Len(log) /\ db' = NoCopy /\ cached' = <<>>
    <3>1. Carries(log, <<>>, Len(log), Len(log))
      BY <1>3, CarriesNone
    <3> QED BY <1>3, <1>6, <2>1, <3>1
  <2>2. CASE /\ batch' = history_ /\ checkpoint' = resumed /\ cached' = db.stocks
             /\ db' = IF db.checkpoint = None THEN NoCopy ELSE db
    <3>1. db' = db
      BY <1>2, <2>2
    <3>2. db'.checkpoint # None => resumed = db'.checkpoint
      BY <3>1
    <3> HIDE DEF history_, resumed
    <3> QED BY <1>3, <1>4, <2>2, <3>2
  <2> QED BY <1>5, <2>1, <2>2
<1> HIDE DEF history_, resumed
<1>9. /\ checkpoint' \in Ids /\ db'.checkpoint \in Ids /\ db'.checkpoint <= Len(log)
      /\ None \in Ids /\ None <= 0
  <2>1. db.checkpoint <= Len(log)
    BY DEF CurrentInv, Turns
  <2> QED BY <1>3, <1>6, <1>7, <1>8, <2>1 DEF Ids, None
<1>10. Turns'
  <2>1. \A r \in Roots : pool'[r].id = 0 /\ changed'[r] = {}
    BY <1>1, <1>2
  <2>2. reached' = None /\ deferred' = {} /\ noting'.left \subseteq noting'.names
    BY <1>1, <1>2
  <2> QED BY <1>1, <1>7, <1>9, <2>1, <2>2 DEF Turns
<1>11. CopyKnown'
  <2>1. CASE db' = db
    BY <1>1, <2>1 DEF CurrentInv, CopyKnown, Speaks, Excused
  <2>2. CASE db' = NoCopy
    BY <1>6, <2>2 DEF CopyKnown
  <2> QED BY <1>7, <2>1, <2>2
<1>12. ChangesKnown'
  BY <1>1, <1>2 DEF ChangesKnown, BeingRead
<1>13. Following'
  <2>1. PICK s \in 0..Len(log) :
          /\ Carries(log, batch', s, Len(log)) /\ checkpoint' = s
          /\ db'.checkpoint # None => s = db'.checkpoint
          /\ \A i \in 1..Len(log) : s < i =>
               \E k \in 1..Len(batch') : batch'[k] = Entry(log[i][1], log[i][2])
    BY <1>8
  <2>2. Carries(log, <<>>, Len(log), Len(log))
    BY <1>3, CarriesNone
  <2>3. Streams(s, Len(log))'
    <3>1. s <= Len(log) /\ Len(log) <= taken' /\ taken' = Len(log)
      BY <1>1, <1>3
    <3>2. Carries(log', batch', s, Len(log)) /\ Carries(log', queue', Len(log), taken')
      BY <1>1, <1>2, <2>1, <2>2
    <3>3. checkpoint' <= s /\ reached' <= s /\ db'.checkpoint <= s
      BY <1>1, <1>2, <1>3, <1>9, <2>1 DEF None
    <3> QED BY <1>1, <2>1, <3>1, <3>2, <3>3 DEF Streams
  <2>4. PoolKnown(s)' /\ ReadKnown(s)'
    BY <1>1, <1>2 DEF PoolKnown, ReadKnown
  <2>6. ASSUME NEW r, NEW n, Later(log, s, r, n)
        PROVE  \E k \in 1..Len(batch') : batch'[k] = Entry(r, n)
    <3>1. PICK i \in 1..Len(log) : s < i /\ log[i] = <<r, n>>
      BY <2>6 DEF Later
    <3>2. PICK k \in 1..Len(batch') : batch'[k] = Entry(log[i][1], log[i][2])
      BY <2>1, <3>1
    <3> QED BY <3>1, <3>2
  <2>7. Replayed(s)'
    BY <1>1, <2>6 DEF Replayed, Comes, Coming
  <2>5. Seen(s, Len(log))' /\ s \in Nat
    BY <1>3, <2>1, <2>3, <2>4, <2>7 DEF Seen
  <2> QED BY <1>1, <1>3, <2>5 DEF Following
<1> QED BY <1>10, <1>11, <1>12, <1>13 DEF CurrentInv

(* A root that is restored is as the copy has it, which is so but for what *)
(* the history has still to tell; one that is inventoried is as it lies on *)
(* the disk, and what the copy says of it is of another one.               *)
LEMMA StartRootKeeps ==
    ASSUME MemoryInv, CurrentInv, NEW r \in Roots, StartRoot(r) PROVE CurrentInv'
<1> DEFINE known == r \in DOMAIN cached /\ cached[r].id = tree[r].id
           stock == IF known /\ r \notin locked
                    THEN [id |-> tree[r].id, method |-> TRUE, files |-> cached[r].files]
                    ELSE Stocked(r)
<1>1. /\ step = "start" /\ step' = "start" /\ r \in todo
      /\ cached' = Without(cached, {r})
      /\ pool' = [pool EXCEPT ![r] = stock]
      /\ UNCHANGED <<tree, log, taken, queue, batch, noting, changed, waiting, blocked, dirty,
                     open, checkpoint, reached, db, deferred>>
  BY DEF StartRoot, outside
<1>2. /\ refused' = IF r \in locked THEN refused \cup {r}
                    ELSE IF known THEN refused ELSE refused \ {r}
      /\ missed' = IF known THEN missed ELSE missed \ ({r} \X Names)
      /\ swapped' = IF known THEN swapped ELSE swapped \ ({r} \X Names)
  BY DEF StartRoot
<1>3. /\ pool[r].id = 0 /\ tree[r].id # 0
      /\ pool \in [Roots -> [id : Nat, method : BOOLEAN, files : Files]]
      /\ db.checkpoint = None => db = NoCopy
  BY <1>1 DEF MemoryInv, Memory, Session, TypeOK, MemoryType
<1>4. /\ r \in DOMAIN cached <=> r \in DOMAIN db.stocks
      /\ r \in DOMAIN cached => cached[r] = db.stocks[r]
      /\ deferred = {}
  BY <1>1, <1>3 DEF CurrentInv, Turns
<1>5. /\ stock.id = tree[r].id
      /\ r \notin locked =>
           stock.method /\ stock.files = IF known THEN cached[r].files ELSE tree[r].files
  BY DEF Stocked
<1> HIDE DEF stock
<1>6. pool'[r] = stock /\ \A q \in Roots : q # r => pool'[q] = pool[q]
  BY <1>1, <1>3
<1>7. \A q \in Roots : q # r =>
        /\ q \in refused' <=> q \in refused
        /\ \A n \in Names : <<q, n>> \in Excused' <=> <<q, n>> \in Excused
  BY <1>2 DEF Excused
<1>8. r \notin refused' => r \notin locked
  BY <1>2
<1>9. known /\ r \notin refused' =>
        r \notin refused /\ \A n \in Names : <<r, n>> \in Excused' <=> <<r, n>> \in Excused
  BY <1>2 DEF Excused
<1>10. Turns'
  <2>1. \A q \in Roots : pool'[q].id # 0 /\ ~pool'[q].method => q \in refused'
    <3>1. \A q \in Roots : pool[q].id # 0 /\ ~pool[q].method => q \in refused
      BY DEF CurrentInv, Turns
    <3>2. ~stock.method => r \in refused'
      BY <1>2, <1>5
    <3> QED BY <1>6, <1>7, <3>1, <3>2
  <2>2. \A q \in Roots : pool'[q].id = 0 =>
          /\ q \in DOMAIN cached' <=> q \in DOMAIN db.stocks
          /\ q \in DOMAIN cached' => cached'[q] = db.stocks[q]
    <3>1. \A q \in Roots : pool[q].id = 0 =>
            /\ q \in DOMAIN cached <=> q \in DOMAIN db.stocks
            /\ q \in DOMAIN cached => cached[q] = db.stocks[q]
      BY <1>1 DEF CurrentInv, Turns
    <3>2. pool'[r].id # 0
      BY <1>3, <1>5, <1>6
    <3>3. /\ DOMAIN cached' = DOMAIN cached \ {r}
          /\ \A q \in DOMAIN cached' : cached'[q] = cached[q]
      BY <1>1 DEF Without
    <3> QED BY <1>6, <3>1, <3>2, <3>3
  <2> QED BY <1>1, <2>1, <2>2 DEF CurrentInv, Turns
<1>11. CopyKnown'
  <2>1. ASSUME NEW q \in DOMAIN db.stocks, NEW n \in Names, db.stocks[q].id = tree[q].id,
               q \notin refused', <<q, n>> \notin Excused'
        PROVE  \/ db.stocks[q].files[n] = tree[q].files[n]
               \/ Later(log, db.checkpoint, q, n)
    <3>1. q \in Roots
      BY DEF MemoryInv, TypeOK, CopyType, AreStocks
    <3>2. q = r => known
      BY <1>4, <2>1
    <3>3. q \notin refused /\ <<q, n>> \notin Excused
      BY <1>7, <1>9, <2>1, <3>1, <3>2
    <3> QED BY <1>4, <2>1, <3>3 DEF CurrentInv, CopyKnown, Speaks
  <2> QED BY <1>1, <2>1 DEF CopyKnown, Speaks
<1>12. ChangesKnown'
  BY <1>1 DEF CurrentInv, ChangesKnown, BeingRead
<1>13. ASSUME NEW s \in Nat, NEW m \in Nat, Seen(s, m) PROVE Seen(s, m)'
  <2>1. Streams(s, m)'
    BY <1>1, <1>13 DEF Seen, Streams
  <2>2. ASSUME NEW n \in Names, r \notin refused', <<r, n>> \notin Excused'
        PROVE  pool'[r].files[n] = tree[r].files[n] \/ Comes(s, r, n)
    <3>1. CASE known
      <4>1. /\ r \in DOMAIN db.stocks /\ db.stocks[r].id = tree[r].id
            /\ pool'[r].files = db.stocks[r].files
        BY <1>4, <1>5, <1>6, <1>8, <2>2, <3>1
      <4>2. db.stocks[r].files[n] = tree[r].files[n] \/ Later(log, db.checkpoint, r, n)
        BY <1>4, <1>9, <2>2, <3>1, <4>1 DEF CurrentInv, CopyKnown, Speaks
      <4>3. db.checkpoint # None
        <5>1. NoCopy.stocks = <<>> /\ DOMAIN <<>> = {}
          BY DEF NoCopy
        <5>2. db # NoCopy
          BY <4>1, <5>1
        <5> QED BY <1>3, <5>2
      <4>4. s = db.checkpoint
        BY <1>1, <1>13, <4>3 DEF Seen, Streams
      <4>5. Later(log, s, r, n) => Comes(s, r, n)
        BY <1>1, <1>3, <1>9, <1>13, <2>2, <3>1 DEF Seen, Replayed
      <4> QED BY <4>1, <4>2, <4>4, <4>5
    <3>2. CASE ~known
      BY <1>5, <1>6, <1>8, <2>2, <3>2
    <3> QED BY <3>1, <3>2
  <2>5. \A q, n : Comes(s, q, n)' <=> Comes(s, q, n)
    BY <1>1 DEF Comes, Coming
  <2>3. PoolKnown(s)'
    BY <1>1, <1>6, <1>7, <1>13, <2>2, <2>5 DEF Seen, PoolKnown, BeingRead
  <2>4. ReadKnown(s)'
    BY <1>1 DEF ReadKnown
  <2>6. pool'[r].id # 0
    BY <1>3, <1>5, <1>6
  <2>7. Replayed(s)'
    BY <1>1, <1>6, <1>7, <1>13, <2>5, <2>6 DEF Seen, Replayed
  <2> QED BY <2>1, <2>3, <2>4, <2>7 DEF Seen
<1>14. Following'
  BY <1>1, <1>13 DEF CurrentInv, Following
<1> QED BY <1>10, <1>11, <1>12, <1>14 DEF CurrentInv

LEMMA StartShareKeeps == ASSUME MemoryInv, CurrentInv, StartShare PROVE CurrentInv'
<1>1. /\ step = "start" /\ step' = "started"
      /\ UNCHANGED <<tree, log, taken, queue, batch, noting, pool, changed, waiting, blocked,
                     dirty, open, checkpoint, reached, db, swapped, missed, deferred, refused>>
  BY DEF StartShare, outside, records
<1>2. Turns'
  BY <1>1 DEF CurrentInv, Turns
<1>3. CopyKnown'
  BY <1>1 DEF CurrentInv, CopyKnown, Speaks, Excused
<1>4. ChangesKnown'
  BY <1>1 DEF CurrentInv, ChangesKnown, BeingRead
<1>5. ASSUME NEW s \in Nat, NEW m \in Nat, Seen(s, m) PROVE Seen(s, m)'
  <2>1. Streams(s, m)'
    BY <1>1, <1>5 DEF Seen, Streams
  <2>2. \A q, n : Comes(s, q, n)' <=> Comes(s, q, n)
    BY <1>1 DEF Comes, Coming
  <2>3. PoolKnown(s)' /\ ReadKnown(s)' /\ Replayed(s)'
    BY <1>1, <1>5, <2>2 DEF Seen, PoolKnown, ReadKnown, Replayed, BeingRead, Excused
  <2> QED BY <2>1, <2>3 DEF Seen
<1>6. Following'
  BY <1>1, <1>5 DEF CurrentInv, Following
<1> QED BY <1>2, <1>3, <1>4, <1>6 DEF CurrentInv

(* A commit makes the copy what is in memory, reaching to what is known    *)
(* there; changes that wait are passed over.                               *)
LEMMA PersistReaches ==
    ASSUME MemoryInv, CurrentInv, step \in {"started", "settle"},
           step' = "classify" \/ (step = "settle" /\ step' = "receive"),
           NEW id \in Ids, open => id # None, Persist(journal, id),
           \A s, m \in Nat : Seen(s, m) => id <= s,
           reached' \in {reached, None},
           UNCHANGED <<tree, log, taken, queue, batch, noting, pool, changed, waiting, blocked,
                       dirty, swapped, missed, refused>>
    PROVE  CurrentInv'
<1>1. \/ /\ open /\ id # None /\ open' = TRUE /\ checkpoint' = id /\ deferred' = Deferred
         /\ db' = [checkpoint |-> id, stocks |-> Written(db.stocks, journal)]
      \/ open' = FALSE /\ db' = NoCopy /\ deferred' = {} /\ checkpoint' = None
      \/ ~open /\ UNCHANGED <<open, db, deferred>> /\ checkpoint' = id
  BY DEF Persist
<1>2. NoCopy.checkpoint = None /\ NoCopy.stocks = <<>> /\ DOMAIN NoCopy.stocks = {}
  <2>1. NoCopy.checkpoint = None /\ NoCopy.stocks = <<>>
    BY DEF NoCopy
  <2> QED BY <2>1
<1>3. PICK s \in Nat, m \in Nat : Seen(s, m)
  BY DEF CurrentInv, Following
<1>4. /\ Len(log) \in Nat /\ taken \in Nat /\ taken <= Len(log)
      /\ None \in Ids /\ None <= 0 /\ id <= s /\ s <= Len(log)
  <2>1. Len(log) \in Nat /\ taken \in Nat /\ taken <= Len(log)
    BY DEF MemoryInv, TypeOK, WorldType
  <2>2. s <= m /\ m <= taken
    BY <1>3 DEF Seen, Streams
  <2>3. None \in Ids /\ None <= 0
    BY DEF None, Ids
  <2> QED BY <1>3, <2>1, <2>2, <2>3
<1>5. /\ db'.checkpoint \in Ids /\ checkpoint' \in Ids /\ reached' \in Ids
      /\ db'.checkpoint <= Len(log) /\ (~open' => db' = NoCopy)
  <2>1. /\ db.checkpoint \in Ids /\ db.checkpoint <= Len(log) /\ reached \in Ids
        /\ ~open => db = NoCopy
    BY DEF CurrentInv, Turns
  <2>2. CASE open' = TRUE /\ checkpoint' = id /\ db'.checkpoint = id
    BY <1>4, <2>1, <2>2 DEF Ids, None
  <2>3. CASE open' = FALSE /\ db' = NoCopy /\ checkpoint' = None
    BY <1>2, <1>4, <2>1, <2>3 DEF None
  <2>4. CASE ~open /\ UNCHANGED <<open, db, deferred>> /\ checkpoint' = id
    BY <1>4, <2>1, <2>4
  <2>5. db' = [checkpoint |-> id, stocks |-> Written(db.stocks, journal)] => db'.checkpoint = id
    OBVIOUS
  <2> QED BY <1>1, <2>2, <2>3, <2>4, <2>5
<1>6. Turns'
  BY <1>4, <1>5 DEF CurrentInv, Turns
<1>7. ASSUME NEW r \in DOMAIN db'.stocks, NEW n \in Names, db'.stocks[r].id = tree[r].id,
             r \notin refused, <<r, n>> \notin Excused, <<r, n>> \notin deferred'
      PROVE  db'.stocks[r].files[n] = tree[r].files[n] \/ Later(log, db'.checkpoint, r, n)
  <2>1. CASE db' = NoCopy
    BY <1>2, <1>7, <2>1
  <2>2. CASE UNCHANGED <<db, deferred>>
    BY <1>7, <2>2 DEF CurrentInv, CopyKnown, Speaks
  <2>3. CASE /\ open /\ deferred' = Deferred
             /\ db' = [checkpoint |-> id, stocks |-> Written(db.stocks, journal)]
    <3>1. db'.checkpoint = id /\ db'.stocks = Written(db.stocks, journal)
      BY <2>3
    <3>2. /\ AreStocks(db'.stocks)
          /\ \A q : q \in DOMAIN db'.stocks <=> Has(db.stocks, journal, q)
          /\ \A q \in DOMAIN db'.stocks :
               /\ db'.stocks[q].id = IdIn(db.stocks, journal, q)
               /\ \A x \in Names : db'.stocks[q].files[x] = FileIn(db.stocks, journal, q, x)
      BY <3>1, WrittenIs DEF MemoryInv, TypeOK, CopyType
    <3>3. r \in Roots /\ Has(db.stocks, journal, r)
      BY <1>7, <3>2 DEF AreStocks
    <3>4. pool[r].id # 0 /\ Recorded(r)
      BY <2>3, <3>3 DEF MemoryInv, Memory
    <3>5. db'.stocks[r].files[n] = pool[r].files[n]
      BY <1>7, <3>2, <3>4 DEF Recorded
    <3>6. n \notin changed[r]
      BY <1>7, <2>3, <3>3 DEF Deferred, AllFiles
    <3>7. pool[r].files[n] = tree[r].files[n] \/ Later(log, s, r, n)
      BY <1>3, <1>7, <3>3, <3>4, <3>6 DEF Seen, PoolKnown, BeingRead, Comes
    <3>8. Later(log, s, r, n) => Later(log, id, r, n)
      <4>1. log \in Seq(Roots \X Names) /\ id \in Int
        BY DEF MemoryInv, TypeOK, WorldType, Ids, None
      <4> QED BY <1>4, <4>1, LaterThan
    <3> QED BY <3>1, <3>5, <3>7, <3>8
  <2> QED BY <1>1, <2>1, <2>2, <2>3
<1>8. CopyKnown'
  BY <1>7 DEF CopyKnown, Speaks, Excused
<1>9. ChangesKnown'
  <2>1. CASE db' = NoCopy
    BY <2>1 DEF ChangesKnown
  <2>2. CASE UNCHANGED <<db, deferred>>
    BY <2>2 DEF CurrentInv, ChangesKnown, BeingRead
  <2>3. CASE deferred' = Deferred
    <3>1. changed \in [Roots -> SUBSET Names]
      BY DEF MemoryInv, TypeOK, MemoryType
    <3> QED BY <2>3, <3>1 DEF ChangesKnown, BeingRead, Deferred, AllFiles
  <2> QED BY <1>1, <2>1, <2>2, <2>3
<1>10. ASSUME NEW k \in Nat, NEW j \in Nat, Seen(k, j) PROVE Seen(k, j)'
  <2>1. id <= k /\ None <= k
    BY <1>4, <1>10 DEF None, Ids
  <2>2. checkpoint' <= k /\ reached' <= k /\ db'.checkpoint <= k
    <3>1. checkpoint <= k /\ reached <= k /\ db.checkpoint <= k
      BY <1>10 DEF Seen, Streams
    <3>2. db' = [checkpoint |-> id, stocks |-> Written(db.stocks, journal)] => db'.checkpoint = id
      OBVIOUS
    <3> QED BY <1>1, <1>2, <2>1, <3>1, <3>2
  <2>3. Streams(k, j)'
    BY <1>10, <2>2 DEF Seen, Streams
  <2>4. \A q, n : Comes(k, q, n)' <=> Comes(k, q, n)
    BY DEF Comes, Coming
  <2>5. PoolKnown(k)' /\ ReadKnown(k)' /\ Replayed(k)'
    BY <1>10, <2>4 DEF Seen, PoolKnown, ReadKnown, Replayed, BeingRead, Excused
  <2> QED BY <2>3, <2>5 DEF Seen
<1>11. Following'
  BY <1>10 DEF CurrentInv, Following
<1> QED BY <1>6, <1>8, <1>9, <1>11 DEF CurrentInv

(* What changes neither the pool nor what is known as changed.             *)
LEMMA TurnKeeps ==
    ASSUME MemoryInv, CurrentInv,
           step \in {"settle", "shared"}, step' \in {"settle", "receive"},
           reached' \in {reached, None}, noting'.left \subseteq noting'.names,
           dirty \cup waiting \subseteq dirty' \cup waiting',
           UNCHANGED <<tree, log, taken, queue, batch, pool, changed, open, checkpoint, db,
                       swapped, missed, deferred, refused>>
    PROVE  CurrentInv'
<1>1. None \in Ids /\ None <= 0
  BY DEF None, Ids
<1>2. Turns'
  BY <1>1 DEF CurrentInv, Turns
<1>3. CopyKnown'
  BY DEF CurrentInv, CopyKnown, Speaks, Excused
<1>4. ChangesKnown'
  BY DEF CurrentInv, ChangesKnown, BeingRead
<1>5. ASSUME NEW s \in Nat, NEW m \in Nat, Seen(s, m) PROVE Seen(s, m)'
  <2>1. Streams(s, m)'
    <3>1. None <= s
      BY DEF None
    <3> QED BY <1>5, <3>1 DEF Seen, Streams
  <2>2. \A q, n : Comes(s, q, n)' <=> Comes(s, q, n)
    BY DEF Comes, Coming
  <2>3. PoolKnown(s)' /\ ReadKnown(s)' /\ Replayed(s)'
    BY <1>5, <2>2 DEF Seen, PoolKnown, ReadKnown, Replayed, BeingRead, Excused
  <2> QED BY <2>1, <2>3 DEF Seen
<1>6. Following'
  BY <1>5 DEF CurrentInv, Following
<1> QED BY <1>2, <1>3, <1>4, <1>6 DEF CurrentInv

LEMMA CommitKeeps == ASSUME MemoryInv, CurrentInv, StartDone \/ FinishTurn PROVE CurrentInv'
<1>1. UNCHANGED <<tree, log, taken, queue, batch, noting, pool, changed, waiting, blocked, dirty,
                  swapped, missed, refused>>
  BY DEF StartDone, FinishTurn, outside
<1>2. open => checkpoint # None
  BY DEF MemoryInv, Session
<1>3. checkpoint \in Ids /\ reached \in Ids /\ noting.left \subseteq noting.names
  BY DEF CurrentInv, Turns
<1>4. \A s, m \in Nat : Seen(s, m) => checkpoint <= s /\ reached <= s
  BY DEF Seen, Streams
<1>5. ASSUME StartDone PROVE CurrentInv'
  <2>1. step = "started" /\ step' = "classify" /\ Persist(journal, checkpoint) /\ reached' = reached
    BY <1>5 DEF StartDone
  <2> QED BY <1>1, <1>2, <1>3, <1>4, <2>1, PersistReaches
<1>6. ASSUME FinishTurn PROVE CurrentInv'
  <2>1. step = "settle" /\ step' = "receive" /\ reached' = None
    BY <1>6 DEF FinishTurn
  <2>2. CASE reached = None
    <3>1. UNCHANGED <<db, deferred, open, checkpoint>>
      BY <1>6, <2>2 DEF FinishTurn
    <3> QED BY <1>1, <1>3, <2>1, <3>1, TurnKeeps
  <2>3. CASE reached # None
    <3> DEFINE id == IF ~open THEN checkpoint
                     ELSE IF checkpoint > reached THEN checkpoint ELSE reached
    <3>1. Persist(journal, id)
      BY <1>6, <2>3 DEF FinishTurn
    <3>2. id \in Ids /\ (open => id # None) /\ \A s, m \in Nat : Seen(s, m) => id <= s
      BY <1>2, <1>3, <1>4, <2>3
    <3> HIDE DEF id
    <3> QED BY <1>1, <2>1, <3>1, <3>2, PersistReaches
  <2> QED BY <2>2, <2>3
<1> QED BY <1>5, <1>6

LEMMA SharedKeeps == ASSUME MemoryInv, CurrentInv, Shared PROVE CurrentInv'
<1>1. /\ step = "shared" /\ step' = "settle" /\ reached' = reached
      /\ noting' = [root |-> "none", left |-> {}, read |-> NoFiles, names |-> {}]
      /\ dirty' = dirty /\ waiting' = waiting
      /\ UNCHANGED <<tree, log, taken, queue, batch, pool, changed, open, checkpoint, db,
                     swapped, missed, deferred, refused>>
  BY DEF Shared, outside, records
<1>2. noting'.left \subseteq noting'.names
  BY <1>1
<1> QED BY <1>1, <1>2, TurnKeeps

(* A bounded set of numbers has a greatest one.                            *)
LEMMA Greatest ==
    ASSUME NEW S, NEW x \in S, S \subseteq Int, NEW m \in Nat, \A y \in S : y <= m
    PROVE  Seqs!Max(S) \in S /\ \A y \in S : Seqs!Max(S) >= y
<1> DEFINE T == {m - y : y \in S}
<1>1. T \subseteq Nat /\ T # {}
  OBVIOUS
<1>2. PICK t \in T : \A u \in T : ~(<<u, t>> \in OpToRel(<, Nat))
  BY <1>1, NatLessThanWellFounded, WFMin
<1>3. PICK z \in S : t = m - z
  BY <1>2
<1>4. ASSUME NEW y \in S PROVE z >= y
  <2>1. m - y \in T /\ m - y \in Nat /\ t \in Nat
    BY <1>1, <1>2
  <2> HIDE DEF T
  <2>2. ~(m - y < t)
    BY <1>2, <2>1 DEF OpToRel
  <2> QED BY <1>3, <2>2
<1> QED BY <1>3, <1>4 DEF Seqs!Max

LEMMA ReceiveKeeps == ASSUME MemoryInv, CurrentInv, Receive PROVE CurrentInv'
<1>1. /\ step = "receive" /\ step' = "classify" /\ batch' = queue /\ queue' = <<>>
      /\ UNCHANGED <<tree, log, taken, noting, pool, changed, waiting, blocked, dirty, open,
                     checkpoint, reached, db, swapped, missed, deferred, refused>>
  BY DEF Receive, outside, records
<1>2. taken \in Nat
  BY DEF MemoryInv, TypeOK, WorldType
<1>3. Turns'
  BY <1>1 DEF CurrentInv, Turns
<1>4. CopyKnown'
  BY <1>1 DEF CurrentInv, CopyKnown, Speaks, Excused
<1>5. ChangesKnown'
  BY <1>1 DEF CurrentInv, ChangesKnown, BeingRead
<1>6. ASSUME NEW s \in Nat, NEW m \in Nat, Seen(s, m) PROVE Seen(s, taken)'
  <2>1. s <= m /\ m <= taken /\ Carries(log, batch, s, m) /\ Carries(log, queue, m, taken)
    BY <1>6 DEF Seen, Streams
  <2>2. m = s
    <3>1. batch = <<>>
      BY <1>1 DEF CurrentInv, Turns
    <3>2. m <= s
      BY <2>1, <3>1, CarriesNone
    <3> QED BY <2>1, <3>2
  <2>3. Carries(log, <<>>, taken, taken)
    BY <1>2, CarriesNone
  <2>4. Streams(s, taken)'
    BY <1>1, <1>2, <1>6, <2>1, <2>2, <2>3 DEF Seen, Streams
  <2>5. \A q, n : Comes(s, q, n) => Comes(s, q, n)'
    <3>1. batch = <<>>
      BY <1>1 DEF CurrentInv, Turns
    <3>2. \A q, n : Coming(q, n) => Coming(q, n)'
      BY <1>1, <3>1 DEF Coming
    <3> QED BY <1>1, <3>2 DEF Comes
  <2>6. PoolKnown(s)' /\ ReadKnown(s)' /\ Replayed(s)'
    BY <1>1, <1>6, <2>5 DEF Seen, PoolKnown, ReadKnown, Replayed, BeingRead, Excused
  <2> QED BY <1>1, <2>4, <2>6 DEF Seen
<1>7. Following'
  BY <1>1, <1>2, <1>6 DEF CurrentInv, Following
<1> QED BY <1>3, <1>4, <1>5, <1>7 DEF CurrentInv

(* Every event of the batch becomes a change that is known, and so do the  *)
(* parts when some were lost; then nothing is kept that could be old.      *)
LEMMA ClassifyKeeps == ASSUME MemoryInv, CurrentInv, Classify PROVE CurrentInv'
<1> DEFINE lost == InBatch("lost") # {}
           back == {s.root : s \in InBatch("released")}
           told(r) == {s.name : s \in {e \in InBatch("entry") : e.root = r}}
           ids == {None} \cup {s.id : s \in InBatch("checkpoint")}
<1>1. /\ step = "classify" /\ step' = "settle" /\ batch' = <<>> /\ reached' = Seqs!Max(ids)
      /\ changed' = [r \in Roots |-> IF r \notin world THEN {}
                                     ELSE changed[r] \cup told(r) \cup IF lost THEN Parts ELSE {}]
      /\ dirty' = dirty \cup back \cup {r \in world : lost \/ told(r) # {}}
      /\ waiting' = waiting \ back
      /\ UNCHANGED <<tree, log, taken, queue, noting, pool, swapped, missed, refused>>
  BY DEF Classify, outside
<1>2. /\ lost => db' = NoCopy /\ checkpoint' = None
      /\ ~lost => UNCHANGED <<db, checkpoint, open, deferred>>
  <2>1. step # "down" /\ ~open => db = NoCopy
    BY DEF CurrentInv, Turns
  <2> QED BY <1>1, <2>1 DEF Classify
<1>3. PICK s \in Nat, m \in Nat : Seen(s, m)
  BY <1>1 DEF CurrentInv, Following
<1>4. /\ Len(log) \in Nat /\ taken \in Nat /\ taken <= Len(log) /\ log \in Seq(Roots \X Names)
      /\ batch \in Seq(Signals) /\ changed \in [Roots -> SUBSET Names]
      /\ world = {r \in Roots : pool[r].id # 0}
  BY <1>1 DEF MemoryInv, TypeOK, WorldType, SignalsType, MemoryType, Session
<1>5. /\ s <= m /\ m <= taken /\ Carries(log, batch, s, m) /\ Carries(log, queue, m, taken)
      /\ checkpoint <= s /\ reached <= s /\ db.checkpoint <= s
  BY <1>3 DEF Seen, Streams
<1>6. /\ \A k \in 1..Len(batch) : batch[k] \in Signals
      /\ \A x, kind : x \in InBatch(kind) <=> \E k \in 1..Len(batch) : x = batch[k] /\ x.kind = kind
  BY <1>4 DEF InBatch
<1>7. ASSUME NEW r \in Roots, NEW n \in Names, Later(log, s, r, n)
      PROVE  Later(log, m, r, n) \/ lost \/ n \in told(r)
  <2>1. CASE \E k \in 1..Len(batch) : batch[k] = Lost \/ batch[k] = Entry(r, n)
    <3>1. PICK k \in 1..Len(batch) : batch[k] = Lost \/ batch[k] = Entry(r, n)
      BY <2>1
    <3>2. CASE batch[k] = Lost
      <4>1. batch[k].kind = "lost"
        BY <3>2 DEF Lost
      <4> QED BY <1>6, <4>1
    <3>3. CASE batch[k] = Entry(r, n)
      <4>1. batch[k].kind = "entry" /\ batch[k].root = r /\ batch[k].name = n
        BY <3>3 DEF Entry
      <4>2. batch[k] \in InBatch("entry")
        BY <1>6, <4>1
      <4> QED BY <4>1, <4>2
    <3> QED BY <3>1, <3>2, <3>3
  <2> QED BY <1>4, <1>5, <1>7, <2>1, Carried
<1>15. \A r, n : (\E k \in 1..Len(batch) : batch[k] = Entry(r, n)) => n \in told(r)
  <2>1. ASSUME NEW r, NEW n, NEW k \in 1..Len(batch), batch[k] = Entry(r, n) PROVE n \in told(r)
    <3>1. batch[k].kind = "entry" /\ batch[k].root = r /\ batch[k].name = n
      BY <2>1 DEF Entry
    <3>2. batch[k] \in InBatch("entry")
      BY <1>6, <3>1
    <3> QED BY <3>1, <3>2
  <2> QED BY <2>1
<1>8. ASSUME NEW r \in Roots, NEW n \in told(r) PROVE Later(log, s, r, n)
  <2>1. PICK k \in 1..Len(batch) : /\ batch[k].kind = "entry" /\ batch[k].root = r
                                   /\ batch[k].name = n
    BY <1>6
  <2>2. PICK i \in Nat : s < i /\ i <= m /\ log[i] = <<r, n>>
    BY <1>5, <2>1 DEF Carries
  <2>3. i \in 1..Len(log)
    BY <1>4, <1>5, <2>2
  <2> QED BY <2>2, <2>3 DEF Later
<1>9. reached' \in Ids /\ reached' <= m /\ None \in Ids /\ None <= 0
  <2>1. ASSUME NEW x \in ids PROVE x \in Ids /\ x \in Int /\ x <= m
    <3>1. CASE x = None
      BY <3>1 DEF None, Ids
    <3>2. CASE x # None
      <4>1. PICK k \in 1..Len(batch) : batch[k].kind = "checkpoint" /\ x = batch[k].id
        BY <1>6, <3>2
      <4>2. batch[k].id <= m
        BY <1>5, <4>1 DEF Carries
      <4>3. batch[k].id \in Nat
        BY <1>6, <4>1 DEF Signals, Lost
      <4> QED BY <4>1, <4>2, <4>3 DEF Ids
    <3> QED BY <3>1, <3>2
  <2>2. None \in ids /\ None \in Ids /\ None <= 0
    BY DEF None, Ids
  <2> HIDE DEF ids
  <2>3. Seqs!Max(ids) \in ids
    BY <2>1, <2>2, Greatest
  <2> QED BY <1>1, <2>1, <2>2, <2>3
<1> HIDE DEF lost, told, ids
<1>10. NoCopy.checkpoint = None /\ NoCopy.stocks = <<>> /\ DOMAIN NoCopy.stocks = {}
  <2>1. NoCopy.checkpoint = None /\ NoCopy.stocks = <<>>
    BY DEF NoCopy
  <2> QED BY <2>1
<1>11. Turns'
  <2>1. ASSUME NEW r \in Roots, changed'[r] # {} PROVE r \in dirty' \cup waiting'
    <3>1. r \in world
      BY <1>1, <2>1
    <3>2. CASE lost \/ told(r) # {}
      BY <1>1, <3>1, <3>2
    <3>3. CASE ~lost /\ told(r) = {}
      <4>1. changed[r] # {}
        BY <1>1, <2>1, <3>3
      <4>2. r \in dirty \cup waiting
        BY <4>1 DEF CurrentInv, Turns
      <4> QED BY <1>1, <4>2
    <3> QED BY <3>2, <3>3
  <2>2. checkpoint' \in Ids /\ db'.checkpoint \in Ids /\ db'.checkpoint <= Len(log)
    <3>1. checkpoint \in Ids /\ db.checkpoint \in Ids /\ db.checkpoint <= Len(log)
      BY DEF CurrentInv, Turns
    <3> QED BY <1>2, <1>4, <1>9, <1>10, <3>1 DEF None
  <2>3. ~open' => db' = NoCopy
    BY <1>1, <1>2 DEF CurrentInv, Turns
  <2> QED BY <1>1, <1>9, <2>1, <2>2, <2>3 DEF CurrentInv, Turns
<1>12. CopyKnown'
  <2>1. CASE lost
    BY <1>2, <1>10, <2>1 DEF CopyKnown
  <2>2. CASE ~lost
    BY <1>1, <1>2, <2>2 DEF CurrentInv, CopyKnown, Speaks, Excused
  <2> QED BY <2>1, <2>2
<1>13. ChangesKnown'
  <2>1. CASE lost
    BY <1>2, <2>1 DEF ChangesKnown
  <2>2. CASE ~lost
    <3>1. ASSUME NEW r \in Roots, NEW n \in changed'[r]
          PROVE  db = NoCopy \/ <<r, n>> \in deferred \/ Later(log, db.checkpoint, r, n)
      <4>1. CASE n \in changed[r]
        BY <1>4, <4>1 DEF CurrentInv, ChangesKnown
      <4>2. CASE n \in told(r)
        <5>1. db.checkpoint \in Int
          BY DEF CurrentInv, Turns, Ids, None
        <5> QED BY <1>4, <1>5, <1>8, <4>2, <5>1, LaterThan
      <4> QED BY <1>1, <2>2, <3>1, <4>1, <4>2
    <3> QED BY <1>1, <1>2, <2>2, <3>1 DEF ChangesKnown, BeingRead
  <2> QED BY <2>1, <2>2
<1>14. Following'
  <2>1. Carries(log, <<>>, m, m)
    BY CarriesNone
  <2>2. checkpoint' <= m /\ db'.checkpoint <= m
    <3>1. checkpoint \in Int /\ db.checkpoint \in Int
      BY DEF CurrentInv, Turns, Ids, None
    <3> QED BY <1>2, <1>5, <1>9, <1>10, <3>1 DEF None
  <2>3. Streams(m, m)'
    BY <1>1, <1>5, <1>9, <2>1, <2>2 DEF Streams
  <2>4. ASSUME NEW r \in Roots, NEW n \in Names, pool[r].id # 0, r \notin refused,
               <<r, n>> \notin Excused
        PROVE  pool[r].files[n] = tree[r].files[n] \/ n \in changed'[r] \/ Comes(m, r, n)'
    <3>1. r \in world
      BY <1>4, <2>4
    <3>2. changed'[r] = changed[r] \cup told(r) \cup IF lost THEN Parts ELSE {}
      BY <1>1, <3>1
    <3>3. \/ pool[r].files[n] = tree[r].files[n] \/ n \in changed[r]
          \/ Comes(s, r, n)
      BY <1>1, <1>3, <2>4 DEF Seen, PoolKnown, BeingRead
    <3>4. Comes(s, r, n) => n \in changed'[r] \/ Comes(m, r, n)'
      <4> SUFFICES ASSUME Comes(s, r, n), n \notin changed'[r] PROVE Comes(m, r, n)'
        OBVIOUS
      <4>1. n \notin told(r) /\ (lost => n \notin Parts)
        BY <3>2
      <4>2. CASE n \in Parts
        <5>1. Later(log, m, r, n)
          BY <1>7, <4>1, <4>2 DEF Comes
        <5> QED BY <1>1, <4>2, <5>1 DEF Comes
      <4>3. CASE \E k \in 1..Len(queue) : queue[k] = Entry(r, n)
        <5>1. PICK k \in 1..Len(queue) : queue[k] = Entry(r, n)
          BY <4>3
        <5>2. queue[k].kind = "entry" /\ queue[k].root = r /\ queue[k].name = n
          BY <5>1 DEF Entry
        <5>3. PICK i \in Nat : m < i /\ i <= taken /\ log[i] = <<r, n>>
          BY <1>5, <5>1, <5>2 DEF Carries
        <5>4. Later(log, m, r, n)
          <6>1. i \in 1..Len(log)
            BY <1>4, <5>3
          <6> QED BY <5>3, <6>1 DEF Later
        <5> QED BY <1>1, <4>3, <5>4 DEF Comes, Coming
      <4>4. CASE Later(log, taken, r, n)
        <5>1. Later(log, m, r, n)
          <6>1. m <= taken /\ m \in Int /\ taken \in Int /\ log \in Seq(Roots \X Names)
            BY <1>4, <1>5
          <6> QED BY <4>4, <6>1, LaterThan
        <5> QED BY <1>1, <4>4, <5>1 DEF Comes, Coming
      <4>5. ~\E k \in 1..Len(batch) : batch[k] = Entry(r, n)
        BY <1>15, <4>1
      <4>6. n \in Parts \/ Coming(r, n)
        BY DEF Comes
      <4>7. n \notin Parts =>
              (\E k \in 1..Len(queue) : queue[k] = Entry(r, n)) \/ Later(log, taken, r, n)
        BY <4>5, <4>6 DEF Coming
      <4> QED BY <4>2, <4>3, <4>4, <4>7
    <3> QED BY <3>2, <3>3, <3>4
  <2>5. PoolKnown(m)' /\ ReadKnown(m)' /\ Replayed(m)'
    BY <1>1, <2>4 DEF PoolKnown, ReadKnown, Replayed, Excused
  <2> QED BY <2>3, <2>5 DEF Following, Seen
<1> QED BY <1>11, <1>12, <1>13, <1>14 DEF CurrentInv

(* What is known as changed of a root is known while it is being read; of  *)
(* one that was not admitted nothing is said.                              *)
LEMMA ProcessKeeps == ASSUME MemoryInv, CurrentInv, NEW r \in Roots, Process(r) PROVE CurrentInv'
<1>1. /\ step = "settle" /\ dirty' = dirty \ {r}
      /\ UNCHANGED <<tree, log, taken, queue, batch, pool, cached, open, checkpoint, reached, db,
                     swapped, missed, deferred, refused>>
  BY DEF Process, outside, records
<1>2. CASE r \in locked
  <2>1. waiting' = waiting \cup {r} /\ UNCHANGED <<changed, noting, step>>
    BY <1>2 DEF Process
  <2>2. noting.left \subseteq noting.names
    BY DEF CurrentInv, Turns
  <2> QED BY <1>1, <2>1, <2>2, TurnKeeps
<1>3. CASE r \notin locked
  <2>1. /\ changed' = [changed EXCEPT ![r] = {}] /\ waiting' = waiting /\ blocked' = blocked
        /\ \/ /\ pool[r].method /\ step' = "note"
              /\ noting' = [root |-> r, left |-> changed[r], read |-> NoFiles,
                            names |-> changed[r]]
           \/ ~pool[r].method /\ step' = "shared" /\ noting' = noting
    BY <1>3 DEF Process
  <2>2. /\ changed \in [Roots -> SUBSET Names]
        /\ changed'[r] = {} /\ \A q \in Roots : q # r => changed'[q] = changed[q]
    BY <2>1 DEF MemoryInv, TypeOK, MemoryType
  <2>3. step' \in {"note", "shared"} /\ noting'.left \subseteq noting'.names
    <3>1. noting.left \subseteq noting.names
      BY DEF CurrentInv, Turns
    <3> QED BY <2>1, <3>1
  <2>4. \A q \in Roots, n \in Names :
          /\ BeingRead(q, n)' => q = r /\ n \in changed[r]
          /\ pool[r].method /\ n \in changed[r] => BeingRead(r, n)'
    BY <2>1 DEF BeingRead
  <2>5. Turns'
    BY <1>1, <2>1, <2>2, <2>3 DEF CurrentInv, Turns
  <2>6. CopyKnown'
    BY <1>1 DEF CurrentInv, CopyKnown, Speaks, Excused
  <2>7. ChangesKnown'
    <3>1. ASSUME NEW q \in Roots, NEW n \in Names, n \in changed'[q] \/ BeingRead(q, n)'
          PROVE  n \in changed[q]
      BY <2>2, <2>4, <3>1
    <3> QED BY <1>1, <3>1 DEF CurrentInv, ChangesKnown
  <2>8. ASSUME NEW s \in Nat, NEW m \in Nat, Seen(s, m) PROVE Seen(s, m)'
    <3>1. Streams(s, m)'
      BY <1>1, <2>3, <2>8 DEF Seen, Streams
    <3>2. ASSUME NEW q \in Roots, NEW n \in Names, pool[q].id # 0, q \notin refused,
                 <<q, n>> \notin Excused, ~BeingRead(q, n)'
          PROVE  \/ pool[q].files[n] = tree[q].files[n] \/ n \in changed'[q]
                 \/ Comes(s, q, n)
      <4>1. ~BeingRead(q, n)
        BY <1>1 DEF BeingRead
      <4>2. \/ pool[q].files[n] = tree[q].files[n] \/ n \in changed[q]
            \/ Comes(s, q, n)
        BY <2>8, <3>2, <4>1 DEF Seen, PoolKnown
      <4>3. q = r => pool[r].method
        BY <3>2 DEF CurrentInv, Turns
      <4> QED BY <2>2, <2>4, <3>2, <4>2, <4>3
    <3>3. \A q, n : Comes(s, q, n)' <=> Comes(s, q, n)
      BY <1>1 DEF Comes, Coming
    <3>4. PoolKnown(s)'
      BY <1>1, <3>2, <3>3 DEF PoolKnown, Excused
    <3>5. ReadKnown(s)'
      BY <2>1 DEF ReadKnown
    <3>6. Replayed(s)'
      BY <2>3 DEF Replayed
    <3> QED BY <3>1, <3>4, <3>5, <3>6 DEF Seen
  <2>9. Following'
    BY <1>1, <2>8 DEF CurrentInv, Following
  <2> QED BY <2>5, <2>6, <2>7, <2>9 DEF CurrentInv
<1> QED BY <1>2, <1>3

LEMMA ReadOneKeeps == ASSUME MemoryInv, CurrentInv, ReadOne PROVE CurrentInv'
<1>1. /\ step = "note" /\ step' = "note"
      /\ UNCHANGED <<tree, log, taken, queue, batch, pool, changed, waiting, blocked, dirty,
                     open, checkpoint, reached, db, swapped, missed, deferred, refused>>
  BY DEF ReadOne, outside, records
<1>2. PICK x \in noting.left :
        noting' = [noting EXCEPT !.left = @ \ {x}, !.read[x] = tree[noting.root].files[x]]
  BY DEF ReadOne
<1>3. noting \in [root : Roots \cup {"none"}, left : SUBSET Names, read : Files,
                  names : SUBSET Names]
  BY DEF MemoryInv, TypeOK, MemoryType
<1>4. /\ noting'.root = noting.root /\ noting'.names = noting.names
      /\ noting'.left = noting.left \ {x} /\ noting'.read[x] = tree[noting.root].files[x]
      /\ \A n \in Names : n # x => noting'.read[n] = noting.read[n]
  BY <1>2, <1>3 DEF Files
<1>5. Turns'
  BY <1>1, <1>4 DEF CurrentInv, Turns
<1>6. CopyKnown'
  BY <1>1 DEF CurrentInv, CopyKnown, Speaks, Excused
<1>7. ChangesKnown'
  BY <1>1, <1>4 DEF CurrentInv, ChangesKnown, BeingRead
<1>8. ASSUME NEW s \in Nat, NEW m \in Nat, Seen(s, m) PROVE Seen(s, m)'
  <2>1. Streams(s, m)'
    BY <1>1, <1>8 DEF Seen, Streams
  <2>4. \A q, n : Comes(s, q, n)' <=> Comes(s, q, n)
    BY <1>1 DEF Comes, Coming
  <2>2. PoolKnown(s)'
    BY <1>1, <1>4, <1>8, <2>4 DEF Seen, PoolKnown, BeingRead, Excused
  <2>3. ReadKnown(s)'
    <3>1. ASSUME NEW n \in noting'.names \ noting'.left
          PROVE  \/ noting'.read[n] = tree[noting.root].files[n]
                 \/ Comes(s, noting.root, n) \/ <<noting.root, n>> \in missed
      <4>1. CASE n = x
        BY <1>4, <4>1
      <4>2. CASE n # x
        BY <1>1, <1>3, <1>4, <1>8, <3>1, <4>2 DEF Seen, ReadKnown
      <4> QED BY <4>1, <4>2
    <3>2. \A n : Comes(s, noting.root, n)' <=> Comes(s, noting.root, n)
      BY <1>1, <1>4 DEF Comes, Coming
    <3>3. noting'.root = noting.root /\ tree' = tree /\ missed' = missed
      BY <1>1, <1>4
    <3> QED BY <3>1, <3>2, <3>3 DEF ReadKnown
  <2>5. Replayed(s)'
    BY <1>1 DEF Replayed
  <2> QED BY <2>1, <2>2, <2>3, <2>5 DEF Seen
<1>9. Following'
  BY <1>1, <1>8 DEF CurrentInv, Following
<1> QED BY <1>5, <1>6, <1>7, <1>9 DEF CurrentInv

(* What was read is so, or an event of it is still to be classified; and   *)
(* one that was excused until now is still told of after what the copy has.*)
LEMMA NoteKeeps == ASSUME MemoryInv, CurrentInv, Note PROVE CurrentInv'
<1> DEFINE r == noting.root
           files == [n \in Names |-> IF n \in noting.names THEN noting.read[n]
                                     ELSE pool[r].files[n]]
<1>1. /\ step = "note" /\ noting.left = {} /\ step' = "shared"
      /\ pool' = [pool EXCEPT ![r].files = files]
      /\ missed' = missed \ {<<r, n>> : n \in {m \in noting.names :
                                             noting.read[m] = tree[r].files[m]}}
      /\ swapped' = swapped \ ({r} \X noting.names)
      /\ UNCHANGED <<tree, log, taken, queue, batch, noting, changed, waiting, blocked, dirty,
                     open, checkpoint, reached, db, deferred, refused>>
  BY DEF Note, outside
<1>2. /\ r \in Roots /\ pool \in [Roots -> [id : Nat, method : BOOLEAN, files : Files]]
      /\ noting.names \subseteq Names
  BY <1>1 DEF MemoryInv, Session, TypeOK, MemoryType
<1>3. /\ \A q \in Roots : pool'[q].id = pool[q].id /\ pool'[q].method = pool[q].method
      /\ \A q \in Roots, n \in Names :
           pool'[q].files[n] = IF q = r /\ n \in noting.names THEN noting.read[n]
                               ELSE pool[q].files[n]
  <2>1. files = [n \in Names |-> files[n]]
    OBVIOUS
  <2>2. \A n \in Names : files[n] = IF n \in noting.names THEN noting.read[n] ELSE pool[r].files[n]
    OBVIOUS
  <2> HIDE DEF files
  <2>3. /\ pool'[r].files = files /\ pool'[r].id = pool[r].id /\ pool'[r].method = pool[r].method
        /\ \A q \in Roots : q # r => pool'[q] = pool[q]
    BY <1>1, <1>2
  <2> HIDE DEF r
  <2> QED BY <2>2, <2>3
<1> HIDE DEF files
<1>4. \A q, n : <<q, n>> \in Excused' \/ (q = r /\ n \in noting.names) \/ <<q, n>> \notin Excused
  BY <1>1 DEF Excused
<1>5. Turns'
  BY <1>1, <1>3 DEF CurrentInv, Turns
<1>6. ASSUME NEW q \in DOMAIN db.stocks, NEW n \in Names, Speaks(q), <<q, n>> \notin Excused',
             <<q, n>> \notin deferred
      PROVE  db.stocks[q].files[n] = tree[q].files[n] \/ Later(log, db.checkpoint, q, n)
  <2>1. CASE q = r /\ n \in noting.names
    <3>1. BeingRead(q, n) /\ q \in Roots
      BY <1>1, <1>2, <2>1 DEF BeingRead
    <3>2. db # NoCopy
      <4>1. NoCopy.stocks = <<>> /\ DOMAIN <<>> = {}
        BY DEF NoCopy
      <4> QED BY <1>6, <4>1
    <3> QED BY <1>6, <3>1, <3>2 DEF CurrentInv, ChangesKnown
  <2>2. CASE ~(q = r /\ n \in noting.names)
    BY <1>4, <1>6, <2>2 DEF CurrentInv, CopyKnown
  <2> QED BY <2>1, <2>2
<1>7. CopyKnown'
  BY <1>1, <1>6 DEF CopyKnown, Speaks
<1>8. ChangesKnown'
  BY <1>1 DEF CurrentInv, ChangesKnown, BeingRead
<1>9. ASSUME NEW s \in Nat, NEW m \in Nat, Seen(s, m) PROVE Seen(s, m)'
  <2>1. Streams(s, m)'
    BY <1>1, <1>9 DEF Seen, Streams
  <2>2. ASSUME NEW q \in Roots, NEW n \in Names, pool[q].id # 0, q \notin refused,
               <<q, n>> \notin Excused'
        PROVE  \/ pool'[q].files[n] = tree[q].files[n] \/ n \in changed[q]
               \/ Comes(s, q, n)
    <3>1. CASE q = r /\ n \in noting.names
      <4>1. \/ noting.read[n] = tree[r].files[n] \/ Comes(s, r, n) \/ <<r, n>> \in missed
        BY <1>1, <1>9, <3>1 DEF Seen, ReadKnown
      <4>2. pool'[q].files[n] = noting.read[n]
        BY <1>3, <3>1
      <4>3. <<q, n>> \notin missed'
        BY <2>2 DEF Excused
      <4>4. <<r, n>> \in missed /\ noting.read[n] # tree[r].files[n] => <<r, n>> \in missed'
        <5> HIDE DEF r
        <5> QED BY <1>1
      <4> QED BY <3>1, <4>1, <4>2, <4>3, <4>4
    <3>2. CASE ~(q = r /\ n \in noting.names)
      <4>1. <<q, n>> \notin Excused /\ ~BeingRead(q, n)
        BY <1>4, <2>2, <3>2 DEF BeingRead
      <4>2. pool'[q].files[n] = pool[q].files[n]
        BY <1>3, <3>2
      <4> QED BY <1>9, <2>2, <4>1, <4>2 DEF Seen, PoolKnown
    <3> QED BY <3>1, <3>2
  <2>5. \A q, n : Comes(s, q, n)' <=> Comes(s, q, n)
    BY <1>1 DEF Comes, Coming
  <2>3. PoolKnown(s)'
    BY <1>1, <1>3, <2>2, <2>5 DEF PoolKnown
  <2>4. ReadKnown(s)' /\ Replayed(s)'
    BY <1>1 DEF ReadKnown, Replayed
  <2> QED BY <2>1, <2>3, <2>4 DEF Seen
<1>10. Following'
  BY <1>1, <1>9 DEF CurrentInv, Following
<1> QED BY <1>5, <1>7, <1>8, <1>10 DEF CurrentInv

(* What a commit passed over is missed once the memory of it is gone.      *)
LEMMA DiesKeeps == ASSUME MemoryInv, CurrentInv, SessionDies PROVE CurrentInv'
<1>1. /\ step' = "down" /\ queue' = <<>> /\ batch' = <<>> /\ blocked' = {} /\ deferred' = {}
      /\ noting' = [root |-> "none", left |-> {}, read |-> NoFiles, names |-> {}]
      /\ pool' = [r \in Roots |-> NoRoot] /\ changed' = [r \in Roots |-> {}]
      /\ checkpoint' = None /\ reached' = None
      /\ missed' = missed \cup IF db.checkpoint = None THEN {} ELSE deferred
      /\ UNCHANGED <<tree, log, db, swapped, refused>>
  BY DEF SessionDies, outside
<1>2. None \in Ids /\ \A r \in Roots : pool'[r].id = 0
  BY <1>1, NothingFiled DEF Ids
<1>3. Turns'
  BY <1>1, <1>2 DEF CurrentInv, Turns
<1>4. CopyKnown'
  <2>1. CASE db.checkpoint = None
    <3>1. db = NoCopy /\ NoCopy.stocks = <<>> /\ DOMAIN <<>> = {}
      BY <2>1 DEF MemoryInv, Session, NoCopy
    <3>2. DOMAIN db.stocks = {}
      BY <3>1
    <3> QED BY <1>1, <3>2 DEF CopyKnown
  <2>2. CASE db.checkpoint # None
    <3>1. Excused' = Excused \cup deferred
      BY <1>1, <2>2 DEF Excused
    <3> QED BY <1>1, <3>1 DEF CurrentInv, CopyKnown, Speaks
  <2> QED BY <2>1, <2>2
<1>5. ChangesKnown' /\ Following'
  BY <1>1 DEF ChangesKnown, BeingRead, Following
<1> QED BY <1>3, <1>4, <1>5 DEF CurrentInv

-------------------------------------------------------------------------------
(* The theorems.                                                           *)

LEMMA StepKeeps ==
    ASSUME MemoryInv, CurrentInv, [InventoryNext]_inventory PROVE (MemoryInv /\ CurrentInv)'
<1> DEFINE Kept == MemoryInv' /\ CurrentInv'
<1>1. ASSUME NEW r \in Roots, BuildTakes(r) \/ BuildLeaves(r) PROVE Kept
  <2>1. UNCHANGED <<tree, log, taken, queue, process, db, records>>
    BY <1>1 DEF BuildTakes, BuildLeaves
  <2> QED BY <1>1, <2>1, OutsideSteps, NothingChanges
<1>2. ASSUME NEW r \in Roots, WaiterReports(r) PROVE Kept
  BY <1>2, OutsideSteps, WaiterReportsKeeps
<1>3. ASSUME NEW r \in Roots, Move(r) PROVE Kept
  BY <1>3, OutsideSteps, MoveKeeps
<1>4. ASSUME NEW r \in Roots, NEW n \in Names, BuildWrites(r, n) PROVE Kept
  BY <1>4, OutsideSteps, BuildWritesKeeps
<1>5. ASSUME Arrives PROVE Kept
  BY <1>5, OutsideSteps, DeliverKeeps
<1>6. ASSUME Share PROVE Kept
  BY <1>6, OutsideSteps, ShareKeeps
<1>7. ASSUME Open PROVE Kept
  <2>1. db.checkpoint # None => db.checkpoint \in 0..Len(log)
    <3>1. db.checkpoint \in Ids /\ db.checkpoint <= Len(log) /\ Len(log) \in Nat
      BY DEF CurrentInv, Turns, MemoryInv, TypeOK, WorldType
    <3> QED BY <3>1 DEF Ids
  <2> QED BY <1>7, <2>1, OpenStep, OpenKeeps
<1>8. ASSUME NEW r \in Roots, StartRoot(r) PROVE Kept
  BY <1>8, StartRootStep, StartRootKeeps
<1>9. ASSUME StartShare PROVE Kept
  BY <1>9, StartShareStep, StartShareKeeps
<1>10. ASSUME StartDone \/ FinishTurn PROVE Kept
  BY <1>10, CommitSteps, CommitKeeps
<1>11. ASSUME Receive PROVE Kept
  BY <1>11, ReceiveStep, ReceiveKeeps
<1>12. ASSUME Classify PROVE Kept
  BY <1>12, ClassifyStep, ClassifyKeeps
<1>13. ASSUME NEW r \in Roots, Process(r) PROVE Kept
  BY <1>13, SettleSteps, ProcessKeeps
<1>14. ASSUME ReadOne PROVE Kept
  BY <1>14, SettleSteps, ReadOneKeeps
<1>15. ASSUME Note PROVE Kept
  BY <1>15, NoteStep, NoteKeeps
<1>16. ASSUME Shared PROVE Kept
  BY <1>16, SettleSteps, SharedKeeps
<1>17. ASSUME SessionDies PROVE Kept
  BY <1>17, DiesStep, DiesKeeps
<1>18. ASSUME UNCHANGED inventory PROVE Kept
  <2>1. /\ UNCHANGED <<tree, log, taken, bounds, queue, db, process, records>>
        /\ UNCHANGED <<step, todo, batch, noting, pool, index, journal, world, changed, cached,
                       open, checkpoint>>
    BY <1>18 DEF inventory, outside, process
  <2>2. WorldType' /\ SignalsType'
    BY <2>1 DEF MemoryInv, TypeOK, WorldType, SignalsType
  <2>3. MemoryInv'
    BY <2>1, <2>2, OutsideKeeps
  <2>4. CurrentInv'
    BY <2>1, NothingChanges
  <2> QED BY <2>3, <2>4
<1> HIDE DEF Kept
<1>19. ASSUME InventoryNext PROVE Kept
  BY <1>1, <1>2, <1>3, <1>4, <1>5, <1>6, <1>7, <1>8, <1>9, <1>10, <1>11, <1>12, <1>13, <1>14,
     <1>15, <1>16, <1>17, <1>19 DEF InventoryNext
<1> QED BY <1>18, <1>19 DEF Kept

(* However builds write, events are dropped and sessions die: the inductive*)
(* invariant of the memory, the copy on the disk, the journal between them *)
(* and the stream of events holds of every state (cli/dedupe.rs Pool,      *)
(* cli/store.rs).                                                          *)
THEOREM InventoryInvariant == InventorySpec => [](MemoryInv /\ CurrentInv)
<1>1. InventoryInit => MemoryInv /\ CurrentInv
  BY MemoryStarts, CurrentStarts
<1>2. MemoryInv /\ CurrentInv /\ [InventoryNext]_inventory => (MemoryInv /\ CurrentInv)'
  BY StepKeeps
<1> QED BY <1>1, <1>2, PTL DEF InventorySpec

(* What is written, with what the journal has still to write, is what the  *)
(* session has in memory, so that a session that is restarted begins with  *)
(* the inventory that the one before it had (cli/dedupe.rs, cli/store.rs). *)
THEOREM RestartsWithWhatItHad == InventorySpec => []JournalRecovers
<1>1. MemoryInv /\ CurrentInv => JournalRecovers
  BY MemoryRecovers
<1> QED BY <1>1, InventoryInvariant, PTL

(* When every event was delivered and nothing is dirty or waited for, the  *)
(* inventory is what lies on the disk, whatever was written, dropped or    *)
(* interrupted before, but for what the property names; the parts of a     *)
(* profile are known again after a loss (cli/watch.rs lost_track,          *)
(* platform/events_macos.rs).                                              *)
THEOREM AtRestItIsCurrent == InventorySpec => []InventoryIsCurrent
<1>1. MemoryInv /\ CurrentInv => InventoryIsCurrent
  BY CurrentWhenAtRest
<1> QED BY <1>1, InventoryInvariant, PTL
===============================================================================
