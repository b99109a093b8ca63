--------------------------- MODULE DecisionsProofs ---------------------------
(***************************************************************************)
(* Proofs about what is decided before anything is touched: ownership for  *)
(* every number of markers, on, above and inside a directory; for every    *)
(* site and every ask, that what the gates clear is safe to touch and that *)
(* no clearance refuses after them; for any commands, directories and      *)
(* changes of the world, that what is deleted is what was shown and that   *)
(* the code a command exits with tells what became of it; for any tree and *)
(* roots, that the candidates of a scan lie apart, that what they are said  *)
(* to reclaim goes with them, and that every inode is counted once; and, on *)
(* any host and at any place, what is protected from a scan.               *)
(***************************************************************************)
EXTENDS Inspection, Claims, Survey, Commands, Areas,
    FiniteSetTheorems, FunctionTheorems, SequenceTheorems, NaturalsInduction,
    WellFoundedInduction, TLAPS

-------------------------------------------------------------------------------
(* The claims on a directory.                                              *)

(* The ranks of the five settlements are five different numbers.           *)
LEMMA Ranks ==
    /\ Rank["released"] = 0 /\ Rank["landed"] = 1 /\ Rank["unclaimed"] = 2
    /\ Rank["active"] = 3 /\ Rank["kept"] = 4
  BY DEF Rank, Settlements

(* The strongest of some claims is one of them, and none outranks it.      *)
LEMMA StrongestIsMax ==
    ASSUME NEW S \in SUBSET Settlements, S # {}
    PROVE  /\ Strongest(S) \in S
           /\ \A t \in S : Rank[t] <= Rank[Strongest(S)]
<1>1. \E s \in S : \A t \in S : Rank[t] <= Rank[s]
  <2>1. CASE "kept" \in S
    BY <2>1, Ranks DEF Settlements
  <2>2. CASE "kept" \notin S /\ "active" \in S
    BY <2>2, Ranks DEF Settlements
  <2>3. CASE "kept" \notin S /\ "active" \notin S /\ "unclaimed" \in S
    BY <2>3, Ranks DEF Settlements
  <2>4. CASE "kept" \notin S /\ "active" \notin S /\ "unclaimed" \notin S /\ "landed" \in S
    BY <2>4, Ranks DEF Settlements
  <2>5. CASE "kept" \notin S /\ "active" \notin S /\ "unclaimed" \notin S /\ "landed" \notin S
    <3>1. S = {"released"}
      BY <2>5 DEF Settlements
    <3> QED
      BY <3>1, Ranks
  <2> QED
    BY <2>1, <2>2, <2>3, <2>4, <2>5
<1> QED
  BY <1>1 DEF Strongest

LEMMA SettlementTypes ==
    /\ \A m : MarkerSettlement(m) \in {"released", "active", "kept"}
    /\ \A w \in Worktrees : w.kind # "none" =>
         WorktreeSettlement(w) \in {"released", "landed", "active"}
<1>1. \A m : MarkerSettlement(m) \in {"released", "active", "kept"}
  BY DEF MarkerSettlement
<1>2. ASSUME NEW w \in Worktrees, w.kind # "none"
      PROVE WorktreeSettlement(w) \in {"released", "landed", "active"}
  <2>1. w.kind \in {"primary", "unreadable", "orphaned", "linked", "released"}
    BY <1>2 DEF Worktrees
  <2> QED
    BY <2>1 DEF WorktreeSettlement, EvidenceSettlement
<1> QED
  BY <1>1, <1>2

(* What an artifact's settlement is the strongest of.                      *)
Claimed(mine, inside, around) ==
    SettlementsOf(Holders(inside))
      \cup (IF mine # {} THEN SettlementsOf(mine) ELSE Around(around))

LEMMA ClaimedTypes ==
    ASSUME NEW mine, NEW inside, NEW around \in Worktrees
    PROVE  Claimed(mine, inside, around) \in SUBSET Settlements
  BY SettlementTypes DEF Claimed, SettlementsOf, Around, Settlements

(* Whatever a mandate admits, only what is released or landed is deleted.  *)
LEMMA OnlySettledDeleted ==
    ASSUME NEW admits, NEW s, AdmitsDeletion(admits, s)
    PROVE  s \in {"released", "landed"}
  BY DEF AdmitsDeletion, AdmitsSettlement

(* The claims have the types the operators expect.                         *)
THEOREM ClaimsTypeCorrect == ClaimsSpec => []ClaimsTypeOK
<1>1. ClaimsInit => ClaimsTypeOK
  BY DEF ClaimsInit, ClaimsTypeOK
<1>2. ClaimsTypeOK /\ [ClaimsNext]_claims => ClaimsTypeOK'
  <2> SUFFICES ASSUME ClaimsTypeOK, [ClaimsNext]_claims PROVE ClaimsTypeOK'
    OBVIOUS
  <2>1. ASSUME NEW M \in SUBSET Markers, NEW N \in Altered(M) PROVE N \subseteq Markers
    BY <2>1 DEF Altered, Markers
  <2> QED
    BY <2>1 DEF ClaimsTypeOK, ClaimsNext, Declare, Alter, Withdraw, claims
<1> QED
  BY <1>1, <1>2, PTL DEF ClaimsSpec

(* Deletion needs the consent of every marker and, without one on or above *)
(* the directory, of the worktree: for any number of markers and whatever  *)
(* the mandate asks for.                                                   *)
THEOREM ConsentOfAll == ClaimsSpec => []DeletionNeedsAll
<1>1. ClaimsTypeOK => DeletionNeedsAll
  <2> SUFFICES ASSUME ClaimsTypeOK, NEW admits \in Admits,
                      Deletable(admits, own, nested, worktree)
               PROVE  /\ \A m \in own \cup nested : MarkerSettlement(m) = "released"
                      /\ own = {} => /\ worktree.kind # "none"
                                     /\ WorktreeSettlement(worktree)
                                          \in {"released", "landed"}
    BY DEF DeletionNeedsAll
  <2> DEFINE S == Claimed(own, nested, worktree)
  <2>0. worktree \in Worktrees
    BY DEF ClaimsTypeOK
  <2>1. S \in SUBSET Settlements
    BY <2>0, ClaimedTypes
  <2>2. Strongest(S) \in {"released", "landed"}
    BY OnlySettledDeleted DEF Deletable, SettlementOf, Claimed
  <2>3. S # {}
    BY <2>2 DEF Strongest
  <2>4. S \subseteq {"released", "landed"}
    BY <2>1, <2>2, <2>3, StrongestIsMax, Ranks DEF Settlements
  <2>5. Holders(nested) = {}
    BY <2>4 DEF Claimed, SettlementsOf, Holders, Protects
  <2>6. \A m \in nested : MarkerSettlement(m) = "released"
    BY <2>5, SettlementTypes DEF Holders, Protects
  <2>7. \A m \in own : MarkerSettlement(m) = "released"
    BY <2>4, SettlementTypes DEF Claimed, SettlementsOf
  <2>8. own = {} => S = Around(worktree)
    BY <2>5 DEF Claimed, SettlementsOf
  <2>9. own = {} => /\ worktree.kind # "none"
                    /\ WorktreeSettlement(worktree) \in {"released", "landed"}
    BY <2>3, <2>4, <2>8 DEF Around
  <2> QED
    BY <2>6, <2>7, <2>9
<1> QED
  BY <1>1, ClaimsTypeCorrect, PTL

(* A lock that was not seen free protects, wherever its marker lies.       *)
THEOREM UnprovenProtects == ClaimsSpec => []UnprovenLockProtects
<1>1. ClaimsTypeOK => UnprovenLockProtects
  <2> SUFFICES ASSUME ClaimsTypeOK, NEW m \in own \cup nested, m.lock # "free"
               PROVE  Protects(Settlement)
    BY DEF UnprovenLockProtects
  <2> DEFINE S == Claimed(own, nested, worktree)
  <2>1. S \in SUBSET Settlements
    BY ClaimedTypes DEF ClaimsTypeOK
  <2>2. MarkerSettlement(m) \in {"active", "kept"}
    BY DEF MarkerSettlement
  <2>3. MarkerSettlement(m) \in S
    BY <2>2 DEF Claimed, SettlementsOf, Holders, Protects
  <2>4. Strongest(S) \in Settlements /\ Rank[MarkerSettlement(m)] <= Rank[Strongest(S)]
    BY <2>1, <2>3, StrongestIsMax
  <2>5. Strongest(S) \in {"active", "kept"}
    BY <2>2, <2>4, Ranks DEF Settlements
  <2> QED
    BY <2>5 DEF Settlement, SettlementOf, Claimed, Protects
<1> QED
  BY <1>1, ClaimsTypeCorrect, PTL

(* The lemma behind it: the settlement only grows with the markers inside. *)
LEMMA MoreInsideProtectsMore ==
    ASSUME NEW mine, NEW around \in Worktrees, NEW few, NEW many, few \subseteq many
    PROVE  Rank[SettlementOf(mine, few, around)] <= Rank[SettlementOf(mine, many, around)]
<1> DEFINE F == Claimed(mine, few, around)
           M == Claimed(mine, many, around)
<1>1. F \in SUBSET Settlements /\ M \in SUBSET Settlements
  BY ClaimedTypes
<1>2. F \subseteq M
  BY DEF Claimed, SettlementsOf, Holders
<1>3. SettlementOf(mine, few, around) = Strongest(F)
      /\ SettlementOf(mine, many, around) = Strongest(M)
  BY DEF SettlementOf, Claimed
<1>4. CASE F # {}
  <2>1. M # {}
    BY <1>2, <1>4
  <2>2. Strongest(F) \in F
    BY <1>1, <1>4, StrongestIsMax
  <2>3. \A t \in M : Rank[t] <= Rank[Strongest(M)]
    BY <1>1, <2>1, StrongestIsMax
  <2> QED
    BY <1>2, <1>3, <2>2, <2>3
<1>5. CASE F = {} /\ M = {}
  BY <1>3, <1>5, Ranks DEF Strongest
<1>6. CASE F = {} /\ M # {}
  <2>1. mine = {}
    BY <1>6 DEF Claimed, SettlementsOf
  <2>2. M \subseteq {"active", "kept"}
    BY <1>6, <2>1 DEF Claimed, SettlementsOf, Holders, Protects
  <2>3. Strongest(M) \in {"active", "kept"} /\ Strongest(F) = "unclaimed"
    BY <1>1, <1>6, <2>2, StrongestIsMax DEF Strongest
  <2> QED
    BY <1>3, <2>3, Ranks
<1> QED
  BY <1>4, <1>5, <1>6

(* A marker inside protects and never releases.                            *)
THEOREM InsideNeverReleases == ClaimsSpec => NestedNeverReleases
<1>1. ClaimsTypeOK /\ [ClaimsNext]_claims =>
        [UNCHANGED <<own, worktree>> =>
           /\ nested \subseteq nested' => Rank[Settlement] <= Rank[Settlement']
           /\ nested' \subseteq nested => Rank[Settlement'] <= Rank[Settlement]]_claims
  BY MoreInsideProtectsMore DEF ClaimsTypeOK, Settlement
<1> QED
  BY <1>1, ClaimsTypeCorrect, PTL DEF ClaimsSpec, NestedNeverReleases

-------------------------------------------------------------------------------
(* The gates.                                                              *)

(* The gates before the next one have not rejected, and once the evidence  *)
(* gate is passed the candidate is identified.                             *)
Passed ==
    /\ site \in Sites
    /\ ask \in Asks
    /\ at \in 1..13
    /\ \A i \in 1..12 : i < at => Check(site, ask)[Order[i]] # "reject"
    /\ at > 5 => identified
    /\ result \in {"asked", "rejected", "cleared"}
    /\ result = "cleared" => at = 13

LEMMA Gatekeepers ==
    /\ Len(Order) = 12
    /\ Order[1] = "shape" /\ Order[2] = "mount" /\ Order[3] = "area" /\ Order[4] = "exclusion"
    /\ Order[5] = "evidence" /\ Order[6] = "tier" /\ Order[7] = "ownership"
    /\ Order[8] = "protocol" /\ Order[9] = "capability" /\ Order[10] = "busy"
    /\ Order[11] = "identity" /\ Order[12] = "freshness"
BY DEF Order

(* Past the last gate, every gate has let the ask through.                 *)
LEMMA AllPassed ==
    ASSUME Passed, at = 13
    PROVE  /\ Shape(site) # "reject" /\ Mount(site) # "reject" /\ Area(site) # "reject"
           /\ Exclusion(site) # "reject" /\ EvidenceGate(site, ask) # "reject"
           /\ Tier(site, ask) # "reject" /\ OwnershipGate(ask) # "reject"
           /\ ProtocolGate(ask) # "reject" /\ Capability(ask) # "reject"
           /\ Busy(ask) # "reject" /\ Identity(ask) # "reject" /\ Freshness(ask) # "reject"
<1>1. \A i \in 1..12 : Check(site, ask)[Order[i]] # "reject"
  BY DEF Passed
<1>2. \A g \in {"shape", "mount", "area", "exclusion", "evidence", "tier", "ownership",
                "protocol", "capability", "busy", "identity", "freshness"} :
        Check(site, ask)[g] # "reject"
  <2>1. \A g \in {"shape", "mount", "area", "exclusion", "evidence", "tier"} :
          \E i \in 1..12 : Order[i] = g
    BY Gatekeepers
  <2>2. \A g \in {"ownership", "protocol", "capability", "busy", "identity", "freshness"} :
          \E i \in 1..12 : Order[i] = g
    BY Gatekeepers
  <2> QED BY <1>1, <2>1, <2>2
<1> QED BY <1>2 DEF Check

(* The kind of an ask says which facts it brings.                          *)
LEMMA AskFacts ==
    ASSUME NEW a \in Asks
    PROVE  /\ a.ask \in {"discover", "inspect", "recheck", "verify", "share", "prune"}
           /\ a.ask \in {"verify", "prune"} => a.settlement \in Settlements
           /\ a.ask \in {"recheck", "verify", "share", "prune"} => a.liveness \in Read
           /\ a.ask = "verify" => a.admits \in Admits /\ a.granted \in BOOLEAN
<1>1. CASE a \in Discovers \cup Inspects \cup Rechecks
  BY <1>1 DEF Discovers, Inspects, Rechecks
<1>2. CASE a \in Verifies
  BY <1>2 DEF Verifies
<1>3. CASE a \in Shares
  BY <1>3 DEF Shares
<1>4. CASE a \in Prunes
  BY <1>4 DEF Prunes
<1> QED BY <1>1, <1>2, <1>3, <1>4 DEF Asks

LEMMA NoSecondThoughts ==
    ASSUME Passed, at = 13
    PROVE  /\ ask.ask = "verify" => AdmitsDeletion(ask.admits, ask.settlement)
           /\ ask.ask = "share" => ask.shares
<1>1. OwnershipGate(ask) # "reject" /\ Capability(ask) # "reject"
  BY AllPassed
<1>2. ask.ask = "verify" => ask.settlement \in Settlements
  BY AskFacts DEF Passed
<1>3. ask.ask = "verify" => AdmitsDeletion(ask.admits, ask.settlement)
  BY <1>1, <1>2 DEF OwnershipGate, Destroys, Settlements
<1> QED BY <1>1, <1>3 DEF Capability

LEMMA PassedInit == Init => Passed
BY ObservedAssumption DEF Init, Passed

LEMMA PassedStep == Passed /\ [Next]_vars => Passed'
<1> SUFFICES ASSUME Passed, [Next]_vars PROVE Passed'
  OBVIOUS
<1>1. CASE Evaluate
  <2>1. /\ at <= 12 /\ at' = at + 1 /\ UNCHANGED <<site, ask, result>> /\ result = "asked"
        /\ Check(site, ask)[Order[at]] # "reject"
    BY <1>1, Gatekeepers DEF Evaluate, Verdict
  <2>2. \A i \in 1..12 : i < at' => Check(site, ask)[Order[i]] # "reject"
    BY <2>1 DEF Passed
  <2>3. at' > 5 => identified'
    <3>1. CASE at = 5
      <4>1. Check(site, ask)["evidence"] = EvidenceGate(site, ask)
        BY DEF Check
      <4>2. Verdict = "pass"
        BY <2>1, <3>1, <4>1, Gatekeepers DEF Verdict, EvidenceGate
      <4> QED BY <1>1, <3>1, <4>2, Gatekeepers DEF Evaluate
    <3>2. CASE at # 5
      <4>1. identified => identified'
        BY <1>1 DEF Evaluate
      <4>2. at' > 5 => at > 5
        BY <2>1, <3>2 DEF Passed
      <4> QED BY <4>1, <4>2 DEF Passed
    <3> QED BY <3>1, <3>2
  <2> QED BY <2>1, <2>2, <2>3 DEF Passed
<1>2. CASE Refuse
  BY <1>2 DEF Refuse, Passed
<1>3. CASE Conclude
  <2>1. at = 13 /\ identified /\ UNCHANGED <<site, ask, at, identified>>
    BY <1>3, Gatekeepers DEF Conclude, Passed
  <2>2. result' = "cleared"
    BY <1>3, <2>1, NoSecondThoughts DEF Conclude
  <2> QED BY <2>1, <2>2 DEF Passed
<1>4. CASE UNCHANGED vars
  BY <1>4 DEF vars, Passed
<1> QED BY <1>1, <1>2, <1>3, <1>4 DEF Next

(* The grant of a deletion and the method of a share are given to every    *)
(* ask that has passed the gates: those refusals are dead code.            *)
THEOREM GrantsAreGiven == Spec => []NoLateRefusal
<1>1. Passed => NoLateRefusal
  BY DEF Passed, NoLateRefusal
<1> QED BY PassedInit, PassedStep, <1>1, PTL DEF Spec

(* Whatever was observed of a directory and whatever is asked, what is     *)
(* cleared to be deleted, shared or pruned is safe to touch.               *)
THEOREM OnlySafeIsCleared == Spec => []ClearedIsSafe
<1>1. Passed => ClearedIsSafe
  <2> SUFFICES ASSUME Passed, result = "cleared", HasRecord(ask) PROVE ClearedIsSafe
    BY DEF ClearedIsSafe
  <2>1. at = 13
    BY DEF Passed
  <2>2. /\ site.shape = "directory" /\ site.boundary # "crossed" /\ ~site.excluded
        /\ site.area # "system" /\ site.found # "nothing" /\ ask.recorded = "same"
    BY <2>1, AllPassed DEF Shape, Mount, Area, Exclusion, EvidenceGate
  <2>3. ask.samePath /\ ask.sameIdentity
    BY <2>1, AllPassed DEF Identity
  <2>4. ask.liveness = "free"
    <3>1. ask.liveness \in Read /\ ask.ask # "discover"
      BY AskFacts DEF Passed, HasRecord
    <3> QED BY <2>1, <3>1, AllPassed DEF Busy, Read
  <2>5. ask.ask = "verify" =>
          ask.granted /\ ask.fresh /\ ask.settlement \in {"released", "landed"}
    <3>1. ask.ask = "verify" => AdmitsDeletion(ask.admits, ask.settlement)
      BY <2>1, NoSecondThoughts
    <3>2. ask.ask = "verify" => ask.granted /\ ask.fresh
      BY <2>1, AllPassed DEF Tier, Destroys, Freshness
    <3> QED BY <3>1, <3>2 DEF AdmitsDeletion, AdmitsSettlement
  <2>6. ask.ask = "prune" => ask.settlement # "kept"
    BY <2>1, AllPassed DEF OwnershipGate, Destroys, AdmitsSettlement
  <2>7. ask.ask \in {"share", "prune"} => ask.locks
    BY <2>1, AllPassed DEF ProtocolGate
  <2> QED BY <2>2, <2>3, <2>4, <2>5, <2>6, <2>7 DEF ClearedIsSafe
<1> QED BY PassedInit, PassedStep, <1>1, PTL DEF Spec

-------------------------------------------------------------------------------
(* What has been shown so far: a verdict that is no rejection of every gate *)
(* before the next one, and after a rejection nothing but gates that were   *)
(* not reached.                                                            *)
Explained ==
    /\ site \in Sites /\ ask \in Asks /\ identified \in BOOLEAN /\ result \in Results
    /\ at \in 1..13
    /\ stages \in Seq(Outcomes)
    /\ Len(stages) = IF result = "asked" THEN at - 1 ELSE 12
    /\ result \notin {"asked", "rejected"} => at = 13
    /\ result = "rejected" => at <= 12 /\ stages[at] = "reject"
    /\ \A i \in 1..Len(stages) :
         /\ i < at => stages[i] \notin {"reject", "not-reached"}
         /\ i > at => stages[i] = "not-reached"

(* A gate passes, rejects or has nothing to say.                           *)
LEMMA Verdicts ==
    ASSUME at \in 1..12
    PROVE  Verdict \in {"pass", "reject", "abstain"}
<1>1. Order[at] \in {"shape", "mount", "area", "exclusion", "evidence", "tier", "ownership",
                     "protocol", "capability", "busy", "identity", "freshness"}
  BY DEF Order
<1>2. /\ Shape(site) \in {"pass", "reject", "abstain"}
      /\ Mount(site) \in {"pass", "reject", "abstain"}
      /\ Area(site) \in {"pass", "reject", "abstain"}
      /\ Exclusion(site) \in {"pass", "reject", "abstain"}
      /\ EvidenceGate(site, ask) \in {"pass", "reject", "abstain"}
      /\ Tier(site, ask) \in {"pass", "reject", "abstain"}
  BY DEF Shape, Mount, Area, Exclusion, EvidenceGate, Tier
<1>3. /\ OwnershipGate(ask) \in {"pass", "reject", "abstain"}
      /\ ProtocolGate(ask) \in {"pass", "reject", "abstain"}
      /\ Capability(ask) \in {"pass", "reject", "abstain"}
      /\ Busy(ask) \in {"pass", "reject", "abstain"}
      /\ Identity(ask) \in {"pass", "reject", "abstain"}
      /\ Freshness(ask) \in {"pass", "reject", "abstain"}
  BY DEF OwnershipGate, ProtocolGate, Capability, Busy, Identity, Freshness
<1> QED BY <1>1, <1>2, <1>3 DEF Verdict, Check

LEMMA ExplainedInit == Init => Explained
<1> SUFFICES ASSUME Init PROVE Explained
  OBVIOUS
<1>1. stages \in Seq(Outcomes) /\ Len(stages) = 0
  <2>1. <<>> \in Seq(Outcomes) /\ Len(<<>>) = 0
    OBVIOUS
  <2> QED BY <2>1 DEF Init
<1>2. /\ site \in Sites /\ ask \in Asks /\ identified \in BOOLEAN /\ at = 1 /\ result = "asked"
  BY ObservedAssumption DEF Init
<1> QED BY <1>1, <1>2 DEF Explained, Results

LEMMA ExplainedStep == Explained /\ [Next]_vars => Explained'
<1> SUFFICES ASSUME Explained, [Next]_vars PROVE Explained'
  OBVIOUS
<1> USE Gatekeepers
<1>1. CASE Evaluate
  <2>1. /\ at \in 1..12 /\ at' = at + 1 /\ UNCHANGED <<site, ask, result>> /\ result = "asked"
        /\ stages' = Append(stages, Verdict) /\ identified' \in BOOLEAN
    BY <1>1 DEF Evaluate, Explained
  <2>2. Verdict \in {"pass", "abstain"}
    BY <1>1, <2>1, Verdicts DEF Evaluate
  <2>3. stages \in Seq(Outcomes) /\ Len(stages) = at - 1 /\ Verdict \in Outcomes
    BY <2>1, <2>2 DEF Explained, Outcomes
  <2>4. /\ stages' \in Seq(Outcomes) /\ Len(stages') = at
        /\ stages'[at] = Verdict /\ \A i \in 1..at - 1 : stages'[i] = stages[i]
    BY SMTT(30), <2>1, <2>3
  <2>5. \A i \in 1..at : stages'[i] \notin {"reject", "not-reached"}
    BY <2>1, <2>2, <2>3, <2>4 DEF Explained
  <2> QED BY <2>1, <2>4, <2>5 DEF Explained
<1>2. CASE Refuse
  <2>1. /\ at \in 1..12 /\ UNCHANGED <<site, ask, at, identified>> /\ result' = "rejected"
        /\ stages' = Append(stages, "reject") \o NotReached
        /\ stages \in Seq(Outcomes) /\ Len(stages) = at - 1
    BY <1>2 DEF Refuse, Explained
  <2>2. /\ NotReached \in Seq(Outcomes) /\ Len(NotReached) = 12 - at
        /\ \A i \in 1..12 - at : NotReached[i] = "not-reached"
    BY <2>1 DEF NotReached, Outcomes
  <2>3. /\ Append(stages, "reject") \in Seq(Outcomes) /\ Len(Append(stages, "reject")) = at
        /\ Append(stages, "reject")[at] = "reject"
        /\ \A i \in 1..at - 1 : Append(stages, "reject")[i] = stages[i]
    BY <2>1 DEF Outcomes
  <2>4. /\ stages' \in Seq(Outcomes) /\ Len(stages') = 12 /\ stages'[at] = "reject"
        /\ \A i \in 1..at - 1 : stages'[i] = stages[i]
        /\ \A i \in at + 1..12 : stages'[i] = "not-reached"
    BY <2>1, <2>2, <2>3
  <2> QED BY <2>1, <2>4 DEF Explained, Results
<1>3. CASE Conclude
  <2>1. /\ at = 13 /\ UNCHANGED <<site, ask, at, stages, identified>> /\ Len(stages) = 12
        /\ result' \in Results \ {"asked", "rejected"}
    BY <1>3 DEF Conclude, Explained, Results
  <2> QED BY <2>1 DEF Explained
<1>4. CASE UNCHANGED vars
  BY <1>4 DEF vars, Explained
<1> QED BY <1>1, <1>2, <1>3, <1>4 DEF Next

(* The run through the gates keeps its types.                              *)
THEOREM InspectionTypeCorrect == Spec => []TypeOK
<1>1. Explained => TypeOK
  BY Gatekeepers DEF Explained, TypeOK
<1> QED BY ExplainedInit, ExplainedStep, <1>1, PTL DEF Spec

(* For every site and ask, an explanation shows one rejection exactly when  *)
(* the run is rejected, and every gate after it as one not reached.        *)
THEOREM ExplanationsAgree == Spec => []ExplanationAgrees
<1>1. Explained => ExplanationAgrees
  <2> SUFFICES ASSUME Explained PROVE ExplanationAgrees
    OBVIOUS
  <2>1. \A i \in 1..Len(stages) : stages[i] = "reject" <=> (result = "rejected" /\ i = at)
    BY DEF Explained
  <2>2. result = "rejected" => at \in 1..Len(stages)
    BY DEF Explained
  <2>3. result = "rejected" => \A j \in 1..Len(stages) : stages[j] = "not-reached" <=> j > at
    BY DEF Explained
  <2> QED BY <2>1, <2>2, <2>3 DEF ExplanationAgrees
<1> QED BY ExplainedInit, ExplainedStep, <1>1, PTL DEF Spec

-------------------------------------------------------------------------------
(* The two commands that delete.                                           *)

Endings == {"rejected", "would-delete", "deleted", "failed"}
Contents == {"old", "new", "unreadable", "unmeasured"}
Standings == {"released", "landed", "active", "kept"}
Sights == [place : Directories, identity : {0, 1, 2}, contents : Contents, standing : Standings]
Numbered(s) == Len(s) \in Nat /\ DOMAIN s = 1..Len(s)

CommandTypes ==
    /\ command \in Invocations
    /\ there \in [Directories -> [identity : {0, 1, 2}, contents : Contents]]
    /\ standing \in [Directories -> Standings]
    /\ position \in Nat /\ position > 0
    /\ candidates \in Seq(Sights) /\ plan \in Seq(Sights) /\ Numbered(chosen)
    /\ preview \in Seq(Endings) /\ outcomes \in Seq(Endings)

(* Where a command is.                                                     *)
Steps ==
    \/ step \in {"begin", "done"}
    \/ command.name = "clean" /\ step \in {"choose", "plan", "preview", "ask", "apply"}
    \/ command.name = "auto"
       /\ step \in {"let-go", "measure", "apply", "prune", "share", "log"}

(* What is seen is what was asked for, and nothing is removed by a command *)
(* that only shows, or before the plan is carried out.                     *)
Wanted == \A i \in DOMAIN candidates : candidates[i].place \in command.wanted
Carried ==
    /\ deleted # {} => Executes /\ step \in {"apply", "prune", "share", "log", "done"}
    /\ "would-delete" \in Seqs!ToSet(outcomes) => ~Executes
    /\ step = "begin" => outcomes = <<>> /\ plan = <<>>

(* A cleaning plans the chosen, one by one; a place in the preview and one *)
(* in the results is of that place in the plan.                            *)
Previewed == Len(preview) = Len(plan) /\ ~Failed(preview)
Cleans == command.name = "clean" =>
    /\ step \in {"begin", "choose", "plan"} => preview = <<>> /\ plan = <<>>
    /\ step \in {"begin", "choose", "plan", "preview", "ask"} => outcomes = <<>>
    /\ step \in {"begin", "choose", "plan", "ask"} => position = 1
    /\ step \in {"preview", "ask", "apply"} => Len(plan) = Len(chosen)
    /\ \A i \in DOMAIN plan : /\ i \in DOMAIN chosen /\ Id(plan[i]) = chosen[i]
                              /\ plan[i].place \in command.wanted
    /\ step = "preview" => Len(preview) = position - 1 /\ position <= Len(plan) + 1
    /\ step = "apply" => Len(outcomes) = position - 1 /\ position <= Len(plan) + 1
    /\ step = "ask" => Previewed
    /\ step = "apply" /\ Executes /\ ~command.yes => Previewed
    /\ \A r \in deleted : \E i \in DOMAIN outcomes :
         outcomes[i] = "deleted" /\ i \in DOMAIN chosen /\ r.id = chosen[i]
    /\ \A i \in DOMAIN outcomes : outcomes[i] = "deleted" =>
         i \in DOMAIN chosen /\ \E r \in deleted : r.id = chosen[i]
    /\ halved # {} => "failed" \in Seqs!ToSet(outcomes)

(* An automatic run plans what it found let go, each in the directory it   *)
(* was found in.                                                           *)
Automatic == command.name = "auto" =>
    /\ chosen \in Seq(Sights)
    /\ \A i \in DOMAIN chosen : Lets(chosen[i].standing) /\ chosen[i].place \in command.wanted
    /\ \A k \in DOMAIN plan : \E i \in DOMAIN chosen :
          chosen[i].place = plan[k].place /\ chosen[i].identity = plan[k].identity
    /\ halved # {} => "failed" \in Seqs!ToSet(outcomes) \/ halved \cap remaining # {}

CommandInv ==
    /\ CommandTypes /\ Steps /\ Wanted /\ Carried /\ Cleans /\ Automatic
    /\ DeletedAsShown /\ ExitTells

(* Different numbers can be put in order.                                  *)
LEMMA Sorting ==
    ASSUME NEW n \in Nat, NEW s \in [1..n -> Nat], \A i, j \in 1..n : s[i] = s[j] => i = j
    PROVE  \E p \in [1..n -> 1..n] :
              /\ \A i, j \in 1..n : p[i] = p[j] => i = j
              /\ \A i, j \in 1..n : i < j => s[p[i]] < s[p[j]]
<1> DEFINE Less(i) == {j \in 1..n : s[j] <= s[i]}
           rank == [i \in 1..n |-> Cardinality(Less(i))]
<1>1. IsFiniteSet(1..n) /\ Cardinality(1..n) = n
  BY FS_Interval
<1>2. ASSUME NEW i \in 1..n PROVE IsFiniteSet(Less(i)) /\ Cardinality(Less(i)) \in 1..n
  <2>1. IsFiniteSet(Less(i)) /\ Cardinality(Less(i)) <= n
    BY <1>1, FS_Subset
  <2>2. i \in Less(i)
    OBVIOUS
  <2>3. Cardinality(Less(i)) \in Nat /\ Cardinality(Less(i)) # 0
    BY <2>1, <2>2, FS_CardinalityType, FS_EmptySet
  <2> QED BY <2>1, <2>3
<1>3. ASSUME NEW i \in 1..n, NEW j \in 1..n, s[i] < s[j] PROVE rank[i] < rank[j]
  <2>1. Less(i) \subseteq Less(j) /\ j \in Less(j) /\ j \notin Less(i)
    BY <1>3
  <2>2. /\ Cardinality(Less(i)) <= Cardinality(Less(j))
        /\ Cardinality(Less(i)) # Cardinality(Less(j))
    <3>1. \A A, B : IsFiniteSet(B) /\ A \in SUBSET B /\ A # B =>
              Cardinality(A) <= Cardinality(B) /\ Cardinality(A) # Cardinality(B)
      BY FS_Subset
    <3>2. IsFiniteSet(Less(j)) /\ Less(i) \in SUBSET Less(j) /\ Less(i) # Less(j)
      BY <1>2, <2>1
    <3> HIDE DEF Less
    <3> QED BY <3>1, <3>2
  <2> HIDE DEF Less
  <2>3. Cardinality(Less(i)) \in 1..n /\ Cardinality(Less(j)) \in 1..n
    BY <1>2
  <2> QED BY <2>2, <2>3
<1>4. rank \in [1..n -> 1..n]
  BY <1>2
<1> HIDE DEF rank
<1>5. \A i, j \in 1..n : rank[i] = rank[j] => i = j
  <2> SUFFICES ASSUME NEW i \in 1..n, NEW j \in 1..n, rank[i] = rank[j], i # j PROVE FALSE
    OBVIOUS
  <2>1. s[i] < s[j] \/ s[j] < s[i]
    BY s[i] # s[j]
  <2>2. rank[i] \in Int /\ rank[j] \in Int
    BY <1>4
  <2> QED BY <2>1, <2>2, <1>3
<1>6. rank \in Injection(1..n, 1..n)
  BY <1>4, <1>5 DEF Injection, IsInjective
<1>7. rank \in Surjection(1..n, 1..n)
  BY <1>1, <1>6, FS_Injection
<1>8. \A r \in 1..n : \E i \in 1..n : rank[i] = r
  BY <1>7 DEF Surjection
<1> DEFINE p == [r \in 1..n |-> CHOOSE i \in 1..n : rank[i] = r]
<1>9. \A r \in 1..n : p[r] \in 1..n /\ rank[p[r]] = r
  BY <1>8
<1>10. p \in [1..n -> 1..n]
  BY <1>9
<1> HIDE DEF p
<1>11. \A i, j \in 1..n : p[i] = p[j] => i = j
  BY <1>9
<1>12. ASSUME NEW i \in 1..n, NEW j \in 1..n, i < j PROVE s[p[i]] < s[p[j]]
  <2>1. s[p[i]] \in Nat /\ s[p[j]] \in Nat /\ p[i] \in 1..n /\ p[j] \in 1..n
    BY <1>10
  <2>2. p[i] # p[j]
    BY <1>11, <1>12
  <2>3. s[p[i]] # s[p[j]]
    BY <2>1, <2>2
  <2>4. ~(s[p[j]] < s[p[i]])
    BY <1>3, <1>9, <1>12, <2>1
  <2> QED BY <2>1, <2>3, <2>4
<1> QED BY <1>10, <1>11, <1>12

(* Candidates of different places can be put in the order of those.        *)
LEMMA Ordered ==
    ASSUME NEW S, IsFiniteSet(S), \A c \in S : c.place \in Nat,
           \A c, e \in S : c.place = e.place => c = e
    PROVE  InOrder(S) \in [1..Cardinality(S) -> S] /\ Cardinality(S) \in Nat
<1> DEFINE n == Cardinality(S)
<1>1. n \in Nat /\ ExistsBijection(1..n, S)
  BY FS_CardinalityType
<1>2. PICK f \in Bijection(1..n, S) : TRUE
  BY <1>1 DEF ExistsBijection
<1>3. f \in [1..n -> S] /\ \A i, j \in 1..n : f[i] = f[j] => i = j
  BY <1>2 DEF Bijection, Injection, IsInjective
<1> DEFINE s == [i \in 1..n |-> f[i].place]
<1> HIDE DEF n
<1>4. s \in [1..n -> Nat] /\ \A i, j \in 1..n : s[i] = s[j] => i = j
  BY <1>3
<1>5. PICK p \in [1..n -> 1..n] :
              /\ \A i, j \in 1..n : p[i] = p[j] => i = j
              /\ \A i, j \in 1..n : i < j => s[p[i]] < s[p[j]]
  <2> HIDE DEF s
  <2> QED BY <1>1, <1>4, Sorting
<1> DEFINE q == [i \in 1..n |-> f[p[i]]]
<1>6. q \in [1..n -> S] /\ \A i, j \in 1..n : i # j => q[i] # q[j]
  BY <1>3, <1>5
<1>7. \A i, j \in DOMAIN q : i < j => q[i].place < q[j].place
  BY <1>5
<1>8. q \in Seqs!SetToSeqs(S)
  <2> HIDE DEF q
  <2>1. Seqs!SetToSeqs(S) = {g \in [1..n -> S] : \A i, j \in 1..n : i # j => g[i] # g[j]}
    BY Zenon DEF Seqs!SetToSeqs, Seqs!Cardinality, Cardinality, n
  <2> QED BY <1>6, <2>1
<1>9. InOrder(S) \in Seqs!SetToSeqs(S)
  <2> HIDE DEF q
  <2> QED BY <1>7, <1>8 DEF InOrder
<1>10. Seqs!SetToSeqs(S) \subseteq [1..n -> S]
  BY Zenon DEF Seqs!SetToSeqs, Seqs!Cardinality, Cardinality, n
<1> QED BY <1>1, <1>9, <1>10 DEF n

(* A list holds what was seen in the places it is of.                      *)
LEMMA Lists ==
    ASSUME CommandTypes, NEW places \in SUBSET Directories,
           NEW contents \in [Directories -> Contents]
    PROVE  /\ Listed(places, contents) \in Seq(Sights)
           /\ \A i \in DOMAIN Listed(places, contents) :
                Listed(places, contents)[i].place \in places
<1> DEFINE D == {e \in places : there[e].identity # 0}
           S == {Seen(d, contents[d]) : d \in D}
           f == [d \in D |-> Seen(d, contents[d])]
<1>1. ASSUME NEW d \in Directories
      PROVE Seen(d, contents[d]) \in Sights /\ Seen(d, contents[d]).place = d
  BY DEF Seen, Sights, CommandTypes
<1>2. IsFiniteSet(D)
  BY CommandsAssumption, FS_Subset
<1>3. f \in Surjection(D, S)
  BY DEF Surjection
<1>4. IsFiniteSet(S)
  <2> HIDE DEF f, S, D
  <2> QED BY <1>2, <1>3, FS_Surjection
<1>5. S \in SUBSET Sights /\ \A c \in S : c.place \in places
  BY <1>1
<1>6. \A c \in S : c.place \in Nat
  BY <1>5, CommandsAssumption
<1>7. \A c, e \in S : c.place = e.place => c = e
  BY <1>1
<1>8. Listed(places, contents) = InOrder(S)
  BY DEF Listed
<1> HIDE DEF S
<1>9. InOrder(S) \in [1..Cardinality(S) -> S] /\ Cardinality(S) \in Nat
  BY <1>4, <1>6, <1>7, Ordered
<1> QED BY <1>5, <1>8, <1>9

LEMMA CommandStarts == ASSUME CommandInit PROVE CommandInv
<1>1. CommandTypes
  BY DEF CommandInit, CommandTypes, Contents, Standings, Numbered
<1>2. Steps /\ Wanted /\ Carried
  BY DEF CommandInit, Steps, Wanted, Carried, Seqs!ToSet
<1>3. Cleans
  BY DEF CommandInit, Cleans, Previewed
<1>4. Automatic
  BY DEF CommandInit, Automatic
<1> QED BY <1>1, <1>2, <1>3, <1>4 DEF CommandInv, CommandInit, DeletedAsShown, ExitTells

(* Nothing is removed before anything is carried out.                      *)
LEMMA Early ==
    ASSUME CommandInv, command.name = "clean",
           step \in {"begin", "choose", "plan", "preview", "ask"}
    PROVE  deleted = {} /\ halved = {}
<1>1. outcomes = <<>>
  BY DEF CommandInv, Cleans
<1> QED BY <1>1 DEF CommandInv, Cleans, Seqs!ToSet

LEMMA RefuseKeeps == ASSUME CommandInv, RefuseCommand PROVE CommandInv'
<1>1. step = "begin" /\ step' = "done" /\ exit' = 1
  BY DEF RefuseCommand, Exit
<1>2. UNCHANGED <<command, there, standing, deleted, halved, candidates, chosen, position, plan,
                  preview, outcomes, remaining>>
  BY DEF RefuseCommand, Rest, world
<1>3. CommandTypes'
  BY <1>2 DEF CommandInv, CommandTypes, Numbered
<1>4. Steps' /\ Wanted' /\ Carried'
  BY <1>1, <1>2 DEF CommandInv, Steps, Wanted, Carried, Executes
<1>5. Cleans'
  BY <1>1, <1>2 DEF CommandInv, Cleans
<1>6. Automatic'
  BY <1>2 DEF CommandInv, Automatic
<1>7. DeletedAsShown' /\ ExitTells'
  BY <1>1, <1>2 DEF CommandInv, DeletedAsShown, ExitTells, Carried
<1> QED BY <1>3, <1>4, <1>5, <1>6, <1>7 DEF CommandInv

LEMMA DiscoverKeeps == ASSUME CommandInv, Discover PROVE CommandInv'
<1>1. /\ step = "begin" /\ command.name = "clean" /\ step' \in {"choose", "done"}
      /\ candidates' = Listed(command.wanted, [d \in Directories |-> there[d].contents])
  BY DEF Discover, Exit, Goes
<1>2. UNCHANGED <<command, there, standing, deleted, halved, chosen, position, plan, preview,
                  outcomes, remaining>>
  BY DEF Discover, Rest, world
<1>3. /\ candidates' \in Seq(Sights)
      /\ \A i \in DOMAIN candidates' : candidates'[i].place \in command.wanted
  <2>1. command.wanted \in SUBSET Directories
    BY CommandsAssumption DEF CommandInv, CommandTypes
  <2>2. [d \in Directories |-> there[d].contents] \in [Directories -> Contents]
    BY DEF CommandInv, CommandTypes
  <2> QED BY <1>1, <2>1, <2>2, Lists DEF CommandInv
<1>4. CommandTypes'
  BY <1>2, <1>3 DEF CommandInv, CommandTypes, Numbered
<1>5. Steps' /\ Wanted' /\ Carried'
  BY <1>1, <1>2, <1>3, Early DEF CommandInv, Steps, Wanted, Carried, Executes
<1>6. Cleans'
  BY <1>1, <1>2 DEF CommandInv, Cleans
<1>7. Automatic'
  BY <1>1, <1>2 DEF Automatic
<1>8. DeletedAsShown' /\ ExitTells'
  BY <1>1, <1>2, Early DEF DeletedAsShown, ExitTells
<1> QED BY <1>4, <1>5, <1>6, <1>7, <1>8 DEF CommandInv

LEMMA ChooseKeeps == ASSUME CommandInv, Choose PROVE CommandInv'
<1>1. step = "choose" /\ step' \in {"plan", "done"} /\ command.name = "clean"
  BY DEF Choose, Exit, Goes, CommandInv, Steps
<1>2. UNCHANGED <<command, there, standing, deleted, halved, candidates, position, plan, preview,
                  outcomes, remaining>>
  BY DEF Choose, Rest, world
<1>3. Numbered(chosen)'
  <2>1. CASE chosen' = command.given
    <3>1. command.given \in Seq({command.given[k] : k \in DOMAIN command.given})
      BY CommandsAssumption DEF CommandInv, CommandTypes
    <3> QED BY <2>1, <3>1 DEF Numbered
  <2>2. CASE UNCHANGED chosen
    BY <2>2 DEF CommandInv, CommandTypes, Numbered
  <2>3. ASSUME NEW picked \in SUBSET Seqs!ToSet(candidates),
               chosen' = [i \in 1..Cardinality(picked) |-> Id(InOrder(picked)[i])]
        PROVE  Numbered(chosen)'
    <3> DEFINE f == [i \in 1..Len(candidates) |-> candidates[i]]
    <3>1. candidates \in Seq(Sights)
      BY DEF CommandInv, CommandTypes
    <3>2. f \in Surjection(1..Len(candidates), Seqs!ToSet(candidates))
      BY <3>1 DEF Surjection, Seqs!ToSet
    <3>3. IsFiniteSet(1..Len(candidates))
      BY <3>1, FS_Interval
    <3>4. IsFiniteSet(Seqs!ToSet(candidates))
      BY <3>2, <3>3, FS_Surjection
    <3>5. Cardinality(picked) \in Nat
      BY <3>4, FS_Subset, FS_CardinalityType
    <3> QED BY <2>3, <3>5 DEF Numbered
  <2> QED BY <2>1, <2>2, <2>3 DEF Choose
<1>4. CommandTypes'
  BY <1>2, <1>3 DEF CommandInv, CommandTypes
<1>5. Steps' /\ Wanted' /\ Carried'
  BY <1>1, <1>2, Early DEF CommandInv, Steps, Wanted, Carried, Executes
<1>6. Cleans'
  BY <1>1, <1>2, Early DEF CommandInv, Cleans
<1>7. Automatic'
  BY <1>1, <1>2 DEF Automatic
<1>8. DeletedAsShown' /\ ExitTells'
  BY <1>1, <1>2, Early DEF DeletedAsShown, ExitTells
<1> QED BY <1>4, <1>5, <1>6, <1>7, <1>8 DEF CommandInv

LEMMA PlanKeeps == ASSUME CommandInv, Plan PROVE CommandInv'
<1>1. step = "plan" /\ step' \in {"apply", "preview", "done"} /\ command.name = "clean"
  BY DEF Plan, Exit, Goes, CommandInv, Steps
<1>2. UNCHANGED <<command, there, standing, deleted, halved, candidates, chosen, position, preview,
                  outcomes, remaining>>
  BY DEF Plan, Rest, world
<1>3. step' = "apply" => ~Executes \/ command.yes
  BY DEF Plan, Exit, Goes
<1>4. step' = "done" => exit' = 1
  BY DEF Plan, Exit, Goes
<1>5. plan = <<>> /\ preview = <<>> /\ outcomes = <<>> /\ position = 1
  BY <1>1 DEF CommandInv, Cleans
<1>6. /\ plan' \in Seq(Sights)
      /\ plan' # plan \/ step' # "done" => Len(plan') = Len(chosen)
      /\ \A i \in DOMAIN plan' : /\ i \in DOMAIN chosen /\ Id(plan'[i]) = chosen[i]
                                 /\ plan'[i].place \in command.wanted
  <2>1. CASE UNCHANGED plan /\ step' = "done"
    BY <1>5, <2>1
  <2>2. CASE Plannable(candidates, chosen) /\ plan' = Planned(candidates, chosen)
    <3> DEFINE spot(i) == CHOOSE k \in DOMAIN candidates : Id(candidates[k]) = chosen[i]
    <3>1. ASSUME NEW i \in DOMAIN chosen
          PROVE  spot(i) \in DOMAIN candidates /\ Id(candidates[spot(i)]) = chosen[i]
      BY <2>2 DEF Plannable
    <3>2. plan' = [i \in DOMAIN chosen |-> candidates[spot(i)]]
      BY <2>2 DEF Planned
    <3> HIDE DEF spot
    <3>3. candidates \in Seq(Sights) /\ Len(chosen) \in Nat /\ DOMAIN chosen = 1..Len(chosen)
      BY DEF CommandInv, CommandTypes, Numbered
    <3>4. \A k \in DOMAIN candidates :
            candidates[k] \in Sights /\ candidates[k].place \in command.wanted
      BY <3>3 DEF CommandInv, Wanted
    <3>5. \A i \in DOMAIN chosen : plan'[i] \in Sights
      BY <3>1, <3>2, <3>4
    <3>6. plan' \in Seq(Sights) /\ Len(plan') = Len(chosen) /\ DOMAIN plan' = DOMAIN chosen
      BY <3>2, <3>3, <3>5
    <3> QED BY <3>1, <3>2, <3>4, <3>6
  <2> QED BY <2>1, <2>2 DEF Plan, Exit
<1>7. CommandTypes'
  BY <1>2, <1>6 DEF CommandInv, CommandTypes, Numbered
<1>8. Steps' /\ Wanted' /\ Carried'
  BY <1>1, <1>2, Early DEF CommandInv, Steps, Wanted, Carried, Executes
<1>9. Cleans'
  BY <1>1, <1>2, <1>3, <1>5, <1>6, Early DEF CommandInv, Cleans, Executes
<1>10. Automatic'
  BY <1>1, <1>2 DEF Automatic
<1>11. DeletedAsShown' /\ ExitTells'
  BY <1>1, <1>2, <1>4, Early DEF DeletedAsShown, ExitTells
<1> QED BY <1>7, <1>8, <1>9, <1>10, <1>11 DEF CommandInv

LEMMA ConfirmKeeps == ASSUME CommandInv, Confirm PROVE CommandInv'
<1>1. step = "ask" /\ step' \in {"apply", "done"} /\ command.name = "clean"
  BY DEF Confirm, Exit, Goes, CommandInv, Steps
<1>2. UNCHANGED <<command, there, standing, deleted, halved, candidates, chosen, position, plan,
                  preview, outcomes, remaining>>
  BY DEF Confirm, Rest, world
<1>3. CommandTypes'
  BY <1>2 DEF CommandInv, CommandTypes, Numbered
<1>4. Steps' /\ Wanted' /\ Carried'
  BY <1>1, <1>2, Early DEF CommandInv, Steps, Wanted, Carried, Executes
<1>5. Cleans'
  BY <1>1, <1>2, Early DEF CommandInv, CommandTypes, Cleans, Executes, Previewed
<1>6. Automatic'
  BY <1>1, <1>2 DEF Automatic
<1>7. DeletedAsShown' /\ ExitTells'
  BY <1>1, <1>2, Early DEF DeletedAsShown, ExitTells
<1> QED BY <1>3, <1>4, <1>5, <1>6, <1>7 DEF CommandInv

(* A sequence with one more element.                                       *)
LEMMA OneMore ==
    ASSUME NEW S, NEW results \in Seq(S), NEW r \in S
    PROVE  LET more == Append(results, r) IN
           /\ more \in Seq(S) /\ Len(more) = Len(results) + 1
           /\ DOMAIN results = 1..Len(results) /\ DOMAIN more = 1..(Len(results) + 1)
           /\ \A i \in DOMAIN results : more[i] = results[i]
           /\ more[Len(results) + 1] = r
           /\ Seqs!ToSet(more) = Seqs!ToSet(results) \cup {r}
<1>1. DOMAIN results = 1..Len(results) /\ Len(results) \in Nat
  OBVIOUS
<1> DEFINE more == Append(results, r)
<1>2. /\ more \in Seq(S) /\ Len(more) = Len(results) + 1
      /\ DOMAIN more = 1..(Len(results) + 1)
      /\ \A i \in DOMAIN results : more[i] = results[i]
      /\ more[Len(results) + 1] = r
  BY <1>1
<1> HIDE DEF more
<1>3. Seqs!ToSet(more) = Seqs!ToSet(results) \cup {r}
  BY <1>1, <1>2 DEF Seqs!ToSet
<1> QED BY <1>1, <1>2, <1>3 DEF more

(* One candidate in a preview: nothing is touched, and what fails is shown.*)
LEMMA PreviewOneKeeps ==
    ASSUME CommandInv, Each("preview"), Settle(plan[position], "dry-run", preview),
           UNCHANGED <<command, standing, candidates, chosen, plan, outcomes, remaining>>
    PROVE  CommandInv'
<1>1. /\ step = "preview" /\ step' = "preview" /\ position <= Len(plan) /\ position' = position + 1
      /\ command.name = "clean"
  BY DEF Each, Goes, CommandInv, Steps
<1>2. UNCHANGED <<there, deleted, halved>> /\ \E r \in Endings : preview' = Append(preview, r)
  BY DEF Settle, Endings
<1>3. preview \in Seq(Endings) /\ plan \in Seq(Sights) /\ position \in Nat
  BY DEF CommandInv, CommandTypes
<1>4. preview' \in Seq(Endings) /\ Len(preview') = Len(preview) + 1
  BY <1>2, <1>3
<1>5. CommandTypes'
  BY <1>1, <1>2, <1>4 DEF CommandInv, CommandTypes, Numbered
<1>6. Steps' /\ Wanted' /\ Carried'
  BY <1>1, <1>2, Early DEF CommandInv, Steps, Wanted, Carried, Executes
<1>7. Cleans'
  BY <1>1, <1>2, <1>3, <1>4, Early DEF CommandInv, Cleans
<1>8. Automatic'
  BY <1>1 DEF Automatic
<1>9. DeletedAsShown' /\ ExitTells'
  BY <1>1, <1>2, Early DEF DeletedAsShown, ExitTells
<1> QED BY <1>5, <1>6, <1>7, <1>8, <1>9 DEF CommandInv

LEMMA PreviewKeeps == ASSUME CommandInv, Preview PROVE CommandInv'
<1>1. UNCHANGED <<command, standing, candidates, chosen, plan, outcomes, remaining>>
  BY DEF Preview
<1>2. CASE Each("preview") /\ Settle(plan[position], "dry-run", preview)
  BY <1>1, <1>2, PreviewOneKeeps
<1>3. CASE /\ Past("preview") /\ UNCHANGED <<preview, there, deleted, halved>>
           /\ IF Failed(preview) THEN Exit(1) ELSE Goes("ask")
  <2>1. /\ step = "preview" /\ position > Len(plan) /\ position' = 1 /\ command.name = "clean"
    BY <1>3 DEF Past, CommandInv, Steps
  <2>2. \/ step' = "done" /\ exit' = 1
        \/ step' = "ask" /\ ~Failed(preview)
    BY <1>3 DEF Exit, Goes
  <2>3. Len(preview) = Len(plan)
    <3>1. Len(preview) = position - 1 /\ position <= Len(plan) + 1
      BY <2>1 DEF CommandInv, Cleans
    <3>2. position \in Nat /\ plan \in Seq(Sights) /\ Len(plan) \in Nat
      BY DEF CommandInv, CommandTypes
    <3> QED BY <2>1, <3>1, <3>2
  <2>4. CommandTypes'
    BY <1>1, <1>3, <2>1 DEF CommandInv, CommandTypes, Numbered
  <2>5. Steps' /\ Wanted' /\ Carried'
    BY <1>1, <1>3, <2>1, <2>2, Early DEF CommandInv, Steps, Wanted, Carried, Executes
  <2>6. Cleans'
    BY <1>1, <1>3, <2>1, <2>2, <2>3, Early DEF CommandInv, Cleans, Previewed, Failed
  <2>7. Automatic'
    BY <1>1, <2>1 DEF Automatic
  <2>8. DeletedAsShown' /\ ExitTells'
    BY <1>3, <2>1, <2>2, Early DEF DeletedAsShown, ExitTells
  <2> QED BY <2>4, <2>5, <2>6, <2>7, <2>8 DEF CommandInv
<1> QED BY <1>2, <1>3 DEF Preview

-------------------------------------------------------------------------------
(* What is removed in the place of a candidate is that candidate, with its *)
(* owner and its builds as they are.                                       *)
Fresh(c, r) ==
    /\ r.id = Id(c) /\ r.id.place = c.place /\ r.id.identity = c.identity
    /\ TierAt[r.id.place] \in command.tiers /\ Lets(r.standing) /\ ~r.busy

LEMMA Settled ==
    ASSUME CommandInv, NEW c \in Sights, Settle(c, command.mode, outcomes)
    PROVE  /\ there' \in [Directories -> [identity : {0, 1, 2}, contents : Contents]]
           /\ \E ending \in Endings :
                /\ outcomes' = Append(outcomes, ending)
                /\ ending = "would-delete" => ~Executes
                /\ ending = "deleted" =>
                     Executes /\ \E r : Fresh(c, r) /\ deleted' = deleted \cup {r}
                /\ ending # "deleted" => UNCHANGED deleted
                /\ ending # "failed" => UNCHANGED halved
<1>1. /\ there \in [Directories -> [identity : {0, 1, 2}, contents : Contents]]
      /\ c.place \in Directories
  BY DEF CommandInv, CommandTypes, Sights
<1>2. CASE UNCHANGED <<there, deleted, halved>> /\ outcomes' = Append(outcomes, "rejected")
  BY <1>1, <1>2 DEF Endings
<1>3. CASE /\ UNCHANGED <<there, deleted, halved>> /\ outcomes' = Append(outcomes, "would-delete")
           /\ command.mode = "dry-run"
  BY <1>1, <1>3 DEF Endings, Executes
<1>4. CASE /\ Passes(c) /\ command.mode = "execute" /\ outcomes' = Append(outcomes, "deleted")
           /\ there' = [there EXCEPT ![c.place].identity = 0]
           /\ deleted' = deleted \cup {[id |-> Id(Seen(c.place, there[c.place].contents)),
                                        standing |-> standing[c.place], busy |-> c.place \in busy]}
           /\ UNCHANGED halved
  <2>1. there' \in [Directories -> [identity : {0, 1, 2}, contents : Contents]]
    BY <1>1, <1>4
  <2> DEFINE r == [id |-> Id(Seen(c.place, there[c.place].contents)),
                   standing |-> standing[c.place], busy |-> c.place \in busy]
  <2>2. /\ r.id = Id(Seen(c.place, there[c.place].contents)) /\ r.standing = standing[c.place]
        /\ r.busy = (c.place \in busy)
    OBVIOUS
  <2>3. r.id = Id(c) /\ r.id.place = c.place /\ r.id.identity = c.identity
    BY <1>4, <2>2 DEF Id, Seen, Passes
  <2>4. Fresh(c, r)
    BY <1>4, <2>2, <2>3 DEF Fresh, Passes
  <2> HIDE DEF r
  <2>5. deleted' = deleted \cup {r}
    BY <1>4 DEF r
  <2> QED BY <1>4, <2>1, <2>4, <2>5 DEF Endings, Executes
<1>5. CASE /\ command.mode = "execute" /\ outcomes' = Append(outcomes, "failed")
           /\ there' = [there EXCEPT ![c.place].contents = "new"] /\ UNCHANGED deleted
  <2>1. there' \in [Directories -> [identity : {0, 1, 2}, contents : Contents]]
    BY <1>1, <1>5 DEF Contents
  <2> QED BY <1>5, <2>1 DEF Endings
<1> QED BY <1>2, <1>3, <1>4, <1>5 DEF Settle

LEMMA ApplyOneKeeps ==
    ASSUME CommandInv, Each("apply"), Settle(plan[position], command.mode, outcomes),
           UNCHANGED <<command, standing, busy, candidates, chosen, plan, preview, remaining>>
    PROVE  CommandInv'
<1>1. step = "apply" /\ step' = "apply" /\ position <= Len(plan) /\ position' = position + 1
  BY DEF Each, Goes
<1>2. plan \in Seq(Sights) /\ position \in 1..Len(plan) /\ outcomes \in Seq(Endings)
  BY <1>1 DEF CommandInv, CommandTypes
<1> DEFINE c == plan[position]
<1>3. c \in Sights
  BY <1>2
<1> HIDE DEF c
<1>4. Settle(c, command.mode, outcomes)
  BY DEF c
<1>5. PICK ending \in Endings :
         /\ outcomes' = Append(outcomes, ending)
         /\ ending = "would-delete" => ~Executes
         /\ ending = "deleted" => Executes /\ \E r : Fresh(c, r) /\ deleted' = deleted \cup {r}
         /\ ending # "deleted" => UNCHANGED deleted
         /\ ending # "failed" => UNCHANGED halved
  BY <1>3, <1>4, Settled
<1>6. there' \in [Directories -> [identity : {0, 1, 2}, contents : Contents]]
  BY <1>3, <1>4, Settled
<1>7. /\ outcomes' \in Seq(Endings) /\ Len(outcomes') = Len(outcomes) + 1
      /\ DOMAIN outcomes = 1..Len(outcomes) /\ DOMAIN outcomes' = 1..(Len(outcomes) + 1)
      /\ \A i \in DOMAIN outcomes : outcomes'[i] = outcomes[i]
      /\ outcomes'[Len(outcomes) + 1] = ending
      /\ Seqs!ToSet(outcomes') = Seqs!ToSet(outcomes) \cup {ending}
  BY <1>2, <1>5, OneMore
<1>8. CommandTypes'
  BY <1>1, <1>6, <1>7 DEF CommandInv, CommandTypes, Numbered
<1>9. Steps' /\ Wanted'
  BY <1>1 DEF CommandInv, Steps, Wanted
<1>10. Carried'
  BY <1>1, <1>5, <1>7 DEF CommandInv, Carried, Executes
<1>11. command.name = "clean" =>
         /\ position \in DOMAIN chosen /\ Id(c) = chosen[position]
         /\ c.place \in command.wanted /\ Len(outcomes) + 1 = position
  BY <1>1, <1>2 DEF c, CommandInv, Cleans
<1>12. ASSUME command.name = "clean"
       PROVE  /\ \A r \in deleted' : \E i \in DOMAIN outcomes' :
                   outcomes'[i] = "deleted" /\ i \in DOMAIN chosen /\ r.id = chosen[i]
              /\ \A i \in DOMAIN outcomes' : outcomes'[i] = "deleted" =>
                   i \in DOMAIN chosen /\ \E r \in deleted' : r.id = chosen[i]
  <2>1. /\ \A r \in deleted : \E i \in DOMAIN outcomes :
             outcomes[i] = "deleted" /\ i \in DOMAIN chosen /\ r.id = chosen[i]
        /\ \A i \in DOMAIN outcomes : outcomes[i] = "deleted" =>
             i \in DOMAIN chosen /\ \E r \in deleted : r.id = chosen[i]
    BY <1>12 DEF CommandInv, Cleans
  <2>2. DOMAIN outcomes' = DOMAIN outcomes \cup {position} /\ position \notin DOMAIN outcomes
    BY <1>2, <1>7, <1>11, <1>12
  <2>3. outcomes'[position] = ending
    BY <1>7, <1>11, <1>12
  <2>4. CASE ending = "deleted"
    <3>1. PICK r : Fresh(c, r) /\ deleted' = deleted \cup {r}
      BY <1>5, <2>4
    <3>2. r.id = chosen[position] /\ position \in DOMAIN chosen
      BY <1>11, <1>12, <3>1 DEF Fresh
    <3> QED BY <1>7, <2>1, <2>2, <2>3, <2>4, <3>1, <3>2
  <2>5. CASE ending # "deleted"
    BY <1>5, <1>7, <2>1, <2>2, <2>3, <2>5
  <2> QED BY <2>4, <2>5
<1>13. halved' # {} => halved # {} \/ ending = "failed"
  BY <1>5
<1>14. Cleans'
  <2> SUFFICES ASSUME command.name = "clean" PROVE Cleans'
    BY DEF Cleans
  <2>1. Cleans
    BY DEF CommandInv
  <2>2. Len(outcomes') = position' - 1 /\ position' <= Len(plan) + 1
    BY <1>1, <1>2, <1>7, <1>11
  <2>3. halved' # {} => "failed" \in Seqs!ToSet(outcomes')
    BY <1>7, <1>13, <2>1 DEF Cleans
  <2>4. Executes /\ ~command.yes => Previewed'
    BY <1>1, <2>1 DEF Cleans, Previewed
  <2> QED BY <1>1, <1>12, <2>1, <2>2, <2>3, <2>4 DEF Cleans, Executes
<1>15. Automatic'
  <2>1. CASE ending = "failed"
    BY <1>7, <2>1 DEF CommandInv, Automatic
  <2>2. CASE ending # "failed"
    <3>1. UNCHANGED halved
      BY <1>5, <2>2
    <3> QED BY <1>7, <3>1 DEF CommandInv, Automatic
  <2> QED BY <2>1, <2>2
<1>16. DeletedAsShown'
  <2>1. CASE ending # "deleted"
    BY <1>5, <2>1 DEF CommandInv, DeletedAsShown, Executes
  <2>2. CASE ending = "deleted"
    <3>1. PICK r : Fresh(c, r) /\ deleted' = deleted \cup {r} /\ Executes
      BY <1>5, <2>2
    <3>2. command.name = "clean" =>
             /\ r.id.place \in command.wanted /\ r.id \in Seqs!ToSet(chosen)
             /\ ~command.yes => Len(preview) = Len(plan) /\ ~Failed(preview)
      BY <1>1, <1>11, <3>1 DEF Fresh, CommandInv, Cleans, Previewed, Seqs!ToSet
    <3>3. command.name = "auto" =>
             /\ r.id.place \in command.wanted
             /\ \E i \in DOMAIN chosen :
                  /\ chosen[i].place = r.id.place /\ chosen[i].identity = r.id.identity
                  /\ Lets(chosen[i].standing)
      BY <1>2, <3>1 DEF Fresh, CommandInv, Automatic, c
    <3>4. command.name \in {"clean", "auto"}
      BY <1>1 DEF CommandInv, Steps
    <3>5. TierAt[r.id.place] \in command.tiers /\ Lets(r.standing) /\ ~r.busy
      BY <3>1 DEF Fresh
    <3>6. DeletedAsShown
      BY DEF CommandInv
    <3> QED BY <3>1, <3>2, <3>3, <3>4, <3>5, <3>6 DEF DeletedAsShown, Executes
  <2> QED BY <2>1, <2>2
<1>17. ExitTells'
  BY <1>1 DEF ExitTells
<1> QED BY <1>8, <1>9, <1>10, <1>14, <1>15, <1>16, <1>17 DEF CommandInv

(* A cleaning of which nothing failed deleted all that was chosen, or      *)
(* nothing, and left nothing half removed.                                 *)
LEMMA NothingFailed ==
    ASSUME CommandInv, step = "apply", position > Len(plan), command.name = "clean",
           ~Failed(outcomes)
    PROVE  halved = {} /\ (deleted # {} => Seqs!ToSet(chosen) = {r.id : r \in deleted})
<1>1. \A i \in DOMAIN outcomes : outcomes[i] \in {"deleted", "would-delete"}
  <2>1. outcomes \in Seq(Endings)
    BY DEF CommandInv, CommandTypes
  <2>2. \A i \in DOMAIN outcomes : outcomes[i] \in Endings
    BY <2>1
  <2>3. \A i \in DOMAIN outcomes : outcomes[i] \in Seqs!ToSet(outcomes)
    BY DEF Seqs!ToSet
  <2>4. "rejected" \notin Seqs!ToSet(outcomes) /\ "failed" \notin Seqs!ToSet(outcomes)
    BY DEF Failed
  <2> QED BY <2>2, <2>3, <2>4 DEF Endings
<1>2. halved = {}
  BY <1>1 DEF CommandInv, Cleans, Seqs!ToSet
<1>3. ASSUME deleted # {} PROVE \A i \in DOMAIN outcomes : outcomes[i] = "deleted"
  BY <1>1, <1>3 DEF CommandInv, Carried, Seqs!ToSet
<1>4. DOMAIN outcomes = DOMAIN chosen
  <2>1. Len(outcomes) = position - 1 /\ position <= Len(plan) + 1 /\ Len(plan) = Len(chosen)
    BY DEF CommandInv, Cleans
  <2>2. /\ outcomes \in Seq(Endings) /\ position \in Nat /\ Len(plan) \in Nat
        /\ DOMAIN chosen = 1..Len(chosen)
    BY DEF CommandInv, CommandTypes, Numbered
  <2>3. Len(outcomes) = Len(chosen)
    BY <2>1, <2>2
  <2> QED BY <2>2, <2>3
<1>5. /\ \A r \in deleted : \E i \in DOMAIN outcomes :
           outcomes[i] = "deleted" /\ i \in DOMAIN chosen /\ r.id = chosen[i]
      /\ \A i \in DOMAIN outcomes : outcomes[i] = "deleted" =>
           i \in DOMAIN chosen /\ \E r \in deleted : r.id = chosen[i]
  BY DEF CommandInv, Cleans
<1> QED BY <1>2, <1>3, <1>4, <1>5 DEF Seqs!ToSet

LEMMA ApplyKeeps == ASSUME CommandInv, Apply PROVE CommandInv'
<1>1. UNCHANGED <<command, standing, busy, candidates, chosen, plan, preview, remaining>>
  BY DEF Apply
<1>2. CASE Each("apply") /\ Settle(plan[position], command.mode, outcomes)
  BY <1>1, <1>2, ApplyOneKeeps
<1>3. CASE /\ Past("apply") /\ UNCHANGED <<outcomes, there, deleted, halved>>
           /\ IF command.name = "auto" THEN Goes("prune")
              ELSE Exit(IF Failed(outcomes) THEN 1 ELSE 0)
  <2>1. step = "apply" /\ position > Len(plan) /\ position' = 1
    BY <1>3 DEF Past
  <2>2. CASE command.name = "auto"
    <3>1. step' = "prune"
      BY <1>3, <2>2 DEF Goes
    <3>2. CommandTypes' /\ Steps' /\ Wanted' /\ Carried'
      BY <1>1, <1>3, <2>1, <2>2, <3>1
      DEF CommandInv, CommandTypes, Numbered, Steps, Wanted, Carried, Executes
    <3>3. Cleans' /\ Automatic'
      BY <1>1, <1>3, <2>2, <3>1 DEF CommandInv, Cleans, Automatic
    <3>4. DeletedAsShown' /\ ExitTells'
      BY <1>1, <1>3, <3>1 DEF CommandInv, DeletedAsShown, ExitTells, Executes
    <3> QED BY <3>2, <3>3, <3>4 DEF CommandInv
  <2>3. CASE command.name # "auto"
    <3>1. step' = "done" /\ exit' = (IF Failed(outcomes) THEN 1 ELSE 0)
      BY <1>3, <2>3 DEF Exit
    <3>2. command.name = "clean"
      BY <2>1, <2>3 DEF CommandInv, Steps
    <3>3. CommandTypes' /\ Steps' /\ Wanted' /\ Carried'
      BY <1>1, <1>3, <2>1, <3>1
      DEF CommandInv, CommandTypes, Numbered, Steps, Wanted, Carried, Executes
    <3>4. Cleans' /\ Automatic'
      BY <1>1, <1>3, <3>1, <3>2 DEF CommandInv, Cleans, Automatic
    <3>5. DeletedAsShown'
      BY <1>1, <1>3 DEF CommandInv, DeletedAsShown, Executes
    <3>6. ExitTells'
      BY <1>1, <1>3, <2>1, <3>1, <3>2, NothingFailed DEF ExitTells
    <3> QED BY <3>3, <3>4, <3>5, <3>6 DEF CommandInv
  <2> QED BY <2>2, <2>3
<1> QED BY <1>2, <1>3 DEF Apply

LEMMA SightKeeps == ASSUME CommandInv, SightAll PROVE CommandInv'
<1>1. /\ step = "begin" /\ command.name = "auto" /\ step' = "let-go"
      /\ candidates' = Listed({d \in command.wanted : TierAt[d] \in command.tiers},
                              [d \in Directories |-> "unmeasured"])
  BY DEF SightAll, Goes
<1>2. UNCHANGED <<command, there, standing, deleted, halved, chosen, position, plan, preview,
                  outcomes, remaining>>
  BY DEF SightAll, Rest, world
<1>3. /\ candidates' \in Seq(Sights)
      /\ \A i \in DOMAIN candidates' : candidates'[i].place \in command.wanted
  <2>1. {d \in command.wanted : TierAt[d] \in command.tiers} \in SUBSET Directories
    BY CommandsAssumption DEF CommandInv, CommandTypes
  <2>2. [d \in Directories |-> "unmeasured"] \in [Directories -> Contents]
    BY DEF Contents
  <2> QED BY <1>1, <2>1, <2>2, Lists DEF CommandInv
<1>4. CommandTypes'
  BY <1>2, <1>3 DEF CommandInv, CommandTypes, Numbered
<1>5. Steps' /\ Wanted' /\ Carried'
  BY <1>1, <1>2, <1>3 DEF CommandInv, Steps, Wanted, Carried, Executes
<1>6. Cleans' /\ Automatic'
  BY <1>1, <1>2 DEF CommandInv, Cleans, Automatic
<1>7. DeletedAsShown' /\ ExitTells'
  BY <1>1, <1>2 DEF CommandInv, DeletedAsShown, ExitTells, Executes
<1> QED BY <1>4, <1>5, <1>6, <1>7 DEF CommandInv

LEMMA PartitionKeeps == ASSUME CommandInv, Partition PROVE CommandInv'
<1>1. step = "let-go" /\ command.name = "auto" /\ step' \in {"let-go", "measure"}
  BY DEF Partition, Goes, CommandInv, Steps
<1>2. UNCHANGED <<command, there, standing, deleted, halved, candidates, plan, preview, outcomes>>
  BY DEF Partition, Rest, world
<1>3. deleted = {} /\ position \in Nat /\ candidates \in Seq(Sights) /\ chosen \in Seq(Sights)
  BY <1>1 DEF CommandInv, Carried, CommandTypes, Automatic
<1>4. CASE position > Len(candidates)
  <2>1. position' = 1 /\ UNCHANGED <<chosen, remaining>>
    BY <1>4 DEF Partition
  <2>2. CommandTypes' /\ Steps' /\ Wanted' /\ Carried'
    BY <1>1, <1>2, <2>1
    DEF CommandInv, CommandTypes, Numbered, Steps, Wanted, Carried, Executes
  <2>3. Cleans' /\ Automatic'
    BY <1>1, <1>2, <2>1 DEF CommandInv, Cleans, Automatic
  <2>4. DeletedAsShown' /\ ExitTells'
    BY <1>1, <1>2, <1>3 DEF DeletedAsShown, ExitTells
  <2> QED BY <2>2, <2>3, <2>4 DEF CommandInv
<1>5. CASE ~(position > Len(candidates))
  <2> DEFINE c == candidates[position]
  <2>1. /\ position' = position + 1
        /\ \/ LetsGo(c) /\ chosen' = Append(chosen, c) /\ UNCHANGED remaining
           \/ remaining' = remaining \cup {c.place} /\ UNCHANGED chosen
    BY <1>5 DEF Partition
  <2>2. position \in DOMAIN candidates /\ c \in Sights /\ c.place \in command.wanted
    BY <1>3, <1>5 DEF CommandInv, CommandTypes, Wanted
  <2> HIDE DEF c
  <2>3. /\ chosen' \in Seq(Sights)
        /\ \A i \in DOMAIN chosen : i \in DOMAIN chosen' /\ chosen'[i] = chosen[i]
        /\ \A i \in DOMAIN chosen' : i \in DOMAIN chosen \/ (LetsGo(c) /\ chosen'[i] = c)
    <3>1. CASE UNCHANGED chosen
      BY <1>3, <3>1
    <3>2. CASE LetsGo(c) /\ chosen' = Append(chosen, c)
      <4>1. /\ Append(chosen, c) \in Seq(Sights) /\ DOMAIN chosen = 1..Len(chosen)
            /\ DOMAIN Append(chosen, c) = 1..(Len(chosen) + 1)
            /\ \A i \in DOMAIN chosen : Append(chosen, c)[i] = chosen[i]
            /\ Append(chosen, c)[Len(chosen) + 1] = c
        BY <1>3, <2>2, OneMore
      <4>2. Len(chosen) \in Nat
        BY <1>3
      <4>3. 1..(Len(chosen) + 1) = 1..Len(chosen) \cup {Len(chosen) + 1}
        BY <4>2
      <4> QED BY <3>2, <4>1, <4>3
    <3> QED BY <2>1, <3>1, <3>2
  <2>4. LetsGo(c) => Lets(c.standing)
    BY DEF LetsGo
  <2>5. Numbered(chosen)'
    BY <2>3 DEF Numbered
  <2>6. CommandTypes' /\ Steps' /\ Wanted' /\ Carried'
    BY <1>1, <1>2, <2>1, <2>5 DEF CommandInv, CommandTypes, Steps, Wanted, Carried, Executes
  <2>7. halved \cap remaining # {} => halved' \cap remaining' # {}
    BY <1>2, <2>1
  <2>8. Automatic'
    <3>1. \A i \in DOMAIN chosen' : Lets(chosen'[i].standing) /\ chosen'[i].place \in command.wanted
      BY <1>1, <2>2, <2>3, <2>4 DEF CommandInv, Automatic
    <3>2. \A k \in DOMAIN plan : \E i \in DOMAIN chosen' :
             chosen'[i].place = plan[k].place /\ chosen'[i].identity = plan[k].identity
      BY <1>1, <2>3 DEF CommandInv, Automatic
    <3> QED BY <1>1, <1>2, <2>3, <2>7, <3>1, <3>2 DEF CommandInv, Automatic
  <2>9. Cleans'
    BY <1>1, <1>2 DEF Cleans
  <2>10. DeletedAsShown' /\ ExitTells'
    BY <1>1, <1>2, <1>3 DEF DeletedAsShown, ExitTells
  <2> QED BY <2>6, <2>8, <2>9, <2>10 DEF CommandInv
<1> QED BY <1>4, <1>5

LEMMA ReapKeeps == ASSUME CommandInv, Reap PROVE CommandInv'
<1>1. step = "measure" /\ command.name = "auto" /\ step' \in {"measure", "apply"}
  BY DEF Reap, Goes, CommandInv, Steps
<1>2. UNCHANGED <<command, there, standing, deleted, halved, candidates, chosen, preview,
                  remaining>>
  BY DEF Reap, Rest, world
<1>3. /\ deleted = {} /\ position \in Nat /\ position > 0 /\ chosen \in Seq(Sights)
      /\ plan \in Seq(Sights) /\ outcomes \in Seq(Endings)
  BY <1>1 DEF CommandInv, Carried, CommandTypes, Automatic
<1>4. /\ position' \in Nat /\ position' > 0 /\ plan' \in Seq(Sights) /\ outcomes' \in Seq(Endings)
      /\ "failed" \in Seqs!ToSet(outcomes) => "failed" \in Seqs!ToSet(outcomes')
      /\ "would-delete" \in Seqs!ToSet(outcomes') => "would-delete" \in Seqs!ToSet(outcomes)
      /\ \A k \in DOMAIN plan' : \E i \in DOMAIN chosen :
           chosen[i].place = plan'[k].place /\ chosen[i].identity = plan'[k].identity
  <2>1. \A k \in DOMAIN plan : \E i \in DOMAIN chosen :
           chosen[i].place = plan[k].place /\ chosen[i].identity = plan[k].identity
    BY <1>1 DEF CommandInv, Automatic
  <2>2. CASE position > Len(chosen)
    BY <1>3, <2>1, <2>2 DEF Reap
  <2>3. CASE ~(position > Len(chosen))
    <3> DEFINE c == chosen[position]
               now == there[c.place]
               more == [c EXCEPT !.contents = now.contents]
    <3>1. position' = position + 1 /\ position \in DOMAIN chosen
      BY <1>3, <2>3 DEF Reap
    <3>2. c \in Sights
      BY <1>3, <3>1
    <3>3. more \in Sights /\ more.place = c.place /\ more.identity = c.identity
      BY <3>2 DEF Sights, CommandInv, CommandTypes
    <3>4. CASE outcomes' = Append(outcomes, "rejected") /\ UNCHANGED plan
      <4>1. /\ outcomes' \in Seq(Endings)
            /\ Seqs!ToSet(outcomes') = Seqs!ToSet(outcomes) \cup {"rejected"}
        BY <1>3, <3>4, OneMore DEF Endings
      <4> QED BY <1>3, <2>1, <3>1, <3>4, <4>1
    <3>5. CASE plan' = Append(plan, more) /\ UNCHANGED outcomes
      <4> HIDE DEF more
      <4>1. /\ plan' \in Seq(Sights) /\ DOMAIN plan = 1..Len(plan)
            /\ DOMAIN plan' = 1..(Len(plan) + 1)
            /\ \A i \in DOMAIN plan : plan'[i] = plan[i]
            /\ plan'[Len(plan) + 1] = more
        BY <1>3, <3>3, <3>5, OneMore
      <4>2. DOMAIN plan' = DOMAIN plan \cup {Len(plan) + 1}
        BY <1>3, <4>1
      <4>3. \A k \in DOMAIN plan' : \E i \in DOMAIN chosen :
               chosen[i].place = plan'[k].place /\ chosen[i].identity = plan'[k].identity
        <5> SUFFICES ASSUME NEW k \in DOMAIN plan'
                     PROVE  \E i \in DOMAIN chosen : /\ chosen[i].place = plan'[k].place
                                                     /\ chosen[i].identity = plan'[k].identity
          OBVIOUS
        <5>1. CASE k \in DOMAIN plan
          BY <2>1, <4>1, <5>1
        <5>2. CASE k = Len(plan) + 1
          BY <3>1, <3>3, <4>1, <5>2
        <5> QED BY <4>2, <5>1, <5>2
      <4> QED BY <1>3, <3>1, <3>5, <4>1, <4>3
    <3> QED BY <2>3, <3>4, <3>5 DEF Reap
  <2> QED BY <2>2, <2>3
<1>5. CommandTypes' /\ Steps' /\ Wanted' /\ Carried'
  BY <1>1, <1>2, <1>3, <1>4
  DEF CommandInv, CommandTypes, Numbered, Steps, Wanted, Carried, Executes
<1>6. Cleans'
  BY <1>1, <1>2 DEF Cleans
<1>7. Automatic'
  BY <1>1, <1>2, <1>4 DEF CommandInv, Automatic
<1>8. DeletedAsShown' /\ ExitTells'
  BY <1>1, <1>2, <1>3 DEF DeletedAsShown, ExitTells
<1> QED BY <1>5, <1>6, <1>7, <1>8 DEF CommandInv

LEMMA PassKeeps == ASSUME CommandInv, PruneRest \/ ShareRest PROVE CommandInv'
<1>1. step \in {"prune", "share"} /\ step' \in {"share", "log"} /\ command.name = "auto"
  BY DEF PruneRest, ShareRest, Pass, Goes, CommandInv, Steps
<1>2. UNCHANGED <<command, there, standing, deleted, candidates, chosen, position, plan, preview,
                  outcomes, remaining>>
  BY DEF PruneRest, ShareRest, Pass, world
<1>3. UNCHANGED halved \/ \E d \in remaining : halved' = halved \cup {d}
  BY DEF PruneRest, ShareRest, Pass
<1>4. halved' # {} => halved # {} \/ halved' \cap remaining # {}
  BY <1>3
<1>5. halved \cap remaining # {} => halved' \cap remaining # {}
  BY <1>3
<1>6. CommandTypes' /\ Steps' /\ Wanted' /\ Carried'
  BY <1>1, <1>2 DEF CommandInv, CommandTypes, Numbered, Steps, Wanted, Carried, Executes
<1>7. Cleans' /\ Automatic'
  BY <1>1, <1>2, <1>4, <1>5 DEF CommandInv, Cleans, Automatic
<1>8. DeletedAsShown' /\ ExitTells'
  BY <1>1, <1>2 DEF CommandInv, DeletedAsShown, ExitTells, Executes
<1> QED BY <1>6, <1>7, <1>8 DEF CommandInv

LEMMA LogKeeps == ASSUME CommandInv, Log PROVE CommandInv'
<1>1. step = "log" /\ step' = "done" /\ command.name = "auto"
  BY DEF Log, Exit, CommandInv, Steps
<1>2. UNCHANGED <<command, there, standing, deleted, halved, candidates, chosen, position, plan,
                  preview, outcomes, remaining>>
  BY DEF Log, Rest, world
<1>3. exit' = 0 => ~FailedToDelete(outcomes) /\ halved \cap remaining = {}
  BY DEF Log, Exit
<1>4. CommandTypes' /\ Steps' /\ Wanted' /\ Carried'
  BY <1>1, <1>2 DEF CommandInv, CommandTypes, Numbered, Steps, Wanted, Carried, Executes
<1>5. Cleans' /\ Automatic'
  BY <1>1, <1>2 DEF CommandInv, Cleans, Automatic
<1>6. DeletedAsShown'
  BY <1>1, <1>2 DEF CommandInv, DeletedAsShown, Executes
<1>7. ExitTells'
  BY <1>1, <1>2, <1>3 DEF CommandInv, Automatic, FailedToDelete, ExitTells
<1> QED BY <1>4, <1>5, <1>6, <1>7 DEF CommandInv

LEMMA OthersKeep ==
    ASSUME CommandInv, NEW d \in Directories, Build(d) \/ Finish(d) \/ Claim(d) \/ Renew(d)
    PROVE  CommandInv'
<1>1. UNCHANGED <<command, step, candidates, chosen, position, plan, preview, outcomes, remaining,
                  exit, deleted, halved>>
  BY DEF Build, Finish, Claim, Renew, Others
<1>2. step # "done"
  BY DEF Build, Finish, Claim, Renew, Others
<1>3. there \in [Directories -> [identity : {0, 1, 2}, contents : Contents]]
  BY DEF CommandInv, CommandTypes
<1>4. there' \in [Directories -> [identity : {0, 1, 2}, contents : Contents]]
  <2>1. CASE UNCHANGED there
    BY <1>3, <2>1
  <2>2. CASE there' = [there EXCEPT ![d].contents = "new"]
    BY <1>3, <2>2 DEF Contents
  <2>3. CASE there' = [there EXCEPT ![d] = [identity |-> 2, contents |-> "old"]]
    BY <1>3, <2>3 DEF Contents
  <2>4. CASE there' = [there EXCEPT ![d].identity = 0]
    BY <1>3, <2>4
  <2> QED BY <2>1, <2>2, <2>3, <2>4 DEF Build, Finish, Claim, Renew
<1>5. standing' \in [Directories -> Standings]
  BY DEF Build, Finish, Claim, Renew, CommandInv, CommandTypes, Standings
<1>6. CommandTypes' /\ Steps' /\ Wanted' /\ Carried'
  BY <1>1, <1>4, <1>5 DEF CommandInv, CommandTypes, Numbered, Steps, Wanted, Carried, Executes
<1>7. Cleans' /\ Automatic'
  BY <1>1 DEF CommandInv, Cleans, Automatic, Executes, Previewed
<1>8. DeletedAsShown' /\ ExitTells'
  BY <1>1, <1>2 DEF CommandInv, DeletedAsShown, ExitTells, Executes
<1> QED BY <1>6, <1>7, <1>8 DEF CommandInv

(* Of every command, whatever it wants, however many directories there are *)
(* and however often the world changes, the invariant holds: what was shown*)
(* and chosen stays tied to what is planned, what is planned to its results*)
(* and the results to what is gone (cli/main.rs: clean; cli/auto.rs: run). *)
THEOREM CommandsInvariant == CommandSpec => []CommandInv
<1>1. CommandInit => CommandInv
  BY CommandStarts
<1>2. CommandInv /\ [CommandNext]_commands => CommandInv'
  <2> SUFFICES ASSUME CommandInv, [CommandNext]_commands PROVE CommandInv'
    OBVIOUS
  <2>1. CASE RefuseCommand
    BY <2>1, RefuseKeeps
  <2>2. CASE Discover
    BY <2>2, DiscoverKeeps
  <2>3. CASE Choose
    BY <2>3, ChooseKeeps
  <2>4. CASE Plan
    BY <2>4, PlanKeeps
  <2>5. CASE Preview
    BY <2>5, PreviewKeeps
  <2>6. CASE Confirm
    BY <2>6, ConfirmKeeps
  <2>7. CASE Apply
    BY <2>7, ApplyKeeps
  <2>8. CASE SightAll
    BY <2>8, SightKeeps
  <2>9. CASE Partition
    BY <2>9, PartitionKeeps
  <2>10. CASE Reap
    BY <2>10, ReapKeeps
  <2>11. CASE PruneRest \/ ShareRest
    BY <2>11, PassKeeps
  <2>12. CASE Log
    BY <2>12, LogKeeps
  <2>13. CASE \E d \in Directories : Build(d) \/ Finish(d) \/ Claim(d) \/ Renew(d)
    BY <2>13, OthersKeep
  <2>14. CASE UNCHANGED commands
    <3>1. UNCHANGED <<command, there, standing, busy, step, candidates, chosen, position, plan,
                      preview, outcomes, remaining, exit, deleted, halved>>
      BY <2>14 DEF commands, world
    <3>2. CommandTypes' /\ Steps' /\ Wanted' /\ Carried'
      BY <3>1 DEF CommandInv, CommandTypes, Numbered, Steps, Wanted, Carried, Executes
    <3>3. Cleans' /\ Automatic' /\ DeletedAsShown' /\ ExitTells'
      BY <3>1 DEF CommandInv, Cleans, Automatic, Executes, Previewed, DeletedAsShown, ExitTells
    <3> QED BY <3>2, <3>3 DEF CommandInv
  <2> QED BY <2>1, <2>2, <2>3, <2>4, <2>5, <2>6, <2>7, <2>8, <2>9, <2>10, <2>11, <2>12, <2>13,
             <2>14 DEF CommandNext
<1> QED BY <1>1, <1>2, PTL DEF CommandSpec

(* Whatever the two commands delete is what was shown, of an owner that has*)
(* let go, with nobody at work (cli/main.rs: clean; cli/auto.rs: run).     *)
THEOREM OnlyTheShownIsDeleted == CommandSpec => []DeletedAsShown
<1>1. CommandInv => DeletedAsShown
  BY DEF CommandInv
<1> QED BY <1>1, CommandsInvariant, PTL

(* A success means that nothing was left half removed, and that a cleaning *)
(* deleted all that was chosen or nothing (cli/main.rs: clean, auto).      *)
THEOREM SuccessIsWhole == CommandSpec => []ExitTells
<1>1. CommandInv => ExitTells
  BY DEF CommandInv
<1> QED BY <1>1, CommandsInvariant, PTL

-------------------------------------------------------------------------------
(* Survey: what the visits of a scan are to each other, and to what is found. *)

(* A visit is of a directory of its walk; what is admitted was listed, where  *)
(* it is not inside of anything.                                             *)
Walked(v) ==
    /\ v = <<v[1], v[2]>> /\ v[1] \in roots /\ v[2] \in Paths \ disk.links /\ Below(v[1], v[2])
    /\ visits[v] = [step |-> visits[v].step, region |-> visits[v].region,
                    admitted |-> visits[v].admitted, own |-> visits[v].own,
                    tally |-> visits[v].tally]
    /\ visits[v].admitted \in BOOLEAN
    /\ visits[v].admitted =>
         /\ visits[v].region = "open" /\ visits[v].step # "waiting" /\ ~Excluded(v[2])
         /\ request.descent = "measure"
    /\ visits[v].step = "listed" => ~Excluded(v[2])

(* v is above w in one walk.                                                 *)
Above(v, w) == v[1] = w[1] /\ Below(v[2], w[2]) /\ v # w

(* What is visited was reached from above, and is inside of what is above.    *)
Reached(v, w) ==
    Above(v, w) =>
      /\ visits[v].step # "waiting"
      /\ (request.descent = "measure" /\ (visits[v].admitted \/ visits[v].region = "inside"))
           => visits[w].region = "inside"

(* A candidate was admitted where it lies; one that is only sighted has       *)
(* nothing below it visited.                                                *)
FoundAt(c, v) ==
    /\ v[2] = c.path /\ visits[v].step # "waiting" /\ ~Excluded(c.path)
    /\ IF request.descent = "measure" THEN visits[v].admitted
       ELSE \A w \in DOMAIN visits : ~Above(v, w)

SurveyInv ==
    /\ request \in Requests /\ pending \in Seq(Paths)
    /\ roots \subseteq Paths \ disk.links
    /\ \A r, s \in roots : Below(r, s) => r = s
    /\ \A v \in DOMAIN visits : Walked(v)
    /\ \A v, w \in DOMAIN visits : Reached(v, w)
    /\ \A c \in found : \E v \in DOMAIN visits : FoundAt(c, v)
    /\ pending # <<>> => found = {} /\ \A v \in DOMAIN visits : visits[v].step = "waiting"
                                        /\ v = <<v[1], v[1]>>

-------------------------------------------------------------------------------
(* Paths and what lies below them.                                          *)
LEMMA PathsAreSequences == \E S : Paths \subseteq Seq(S)
<1> DEFINE S == UNION {{p[i] : i \in DOMAIN p} : p \in Paths}
<1> SUFFICES ASSUME NEW p \in Paths PROVE p \in Seq(S)
    OBVIOUS
<1>1. p \in Seq({p[i] : i \in DOMAIN p})
    BY SurveyAssumption
<1>2. {p[i] : i \in DOMAIN p} \subseteq S
    OBVIOUS
<1> HIDE DEF S
<1> QED  BY <1>1, <1>2

(* Below is to be continued by.                                             *)
LEMMA BelowContinues ==
    ASSUME NEW p \in Paths, NEW q \in Paths
    PROVE  /\ Len(p) \in Nat /\ DOMAIN p = 1..Len(p)
           /\ Below(p, q) <=> (Len(p) <= Len(q) /\ \A i \in 1..Len(p) : q[i] = p[i])
<1>1. PICK S : Paths \subseteq Seq(S)
    BY PathsAreSequences
<1>2. p \in Seq(S) /\ q \in Seq(S)
    BY <1>1
<1>3. CASE Len(p) <= Len(q)
  <2>1. /\ SubSeq(q, 1, Len(p)) \in Seq(S) /\ Len(SubSeq(q, 1, Len(p))) = Len(p)
        /\ \A i \in 1..Len(p) : SubSeq(q, 1, Len(p))[i] = q[i]
    BY <1>2, <1>3
  <2> QED  BY <2>1, <1>2, <1>3 DEF Below
<1> QED  BY <1>2, <1>3 DEF Below

LEMMA BelowIsAnOrder ==
    ASSUME NEW p \in Paths, NEW q \in Paths, NEW r \in Paths
    PROVE  /\ Below(p, p)
           /\ Below(p, q) /\ Below(q, r) => Below(p, r)
           /\ Below(p, r) /\ Below(q, r) => Below(p, q) \/ Below(q, p)
           /\ Below(p, q) /\ Len(p) = Len(q) => p = q
<1>1. \A s, t \in Paths :
        /\ Len(s) \in Nat /\ DOMAIN s = 1..Len(s)
        /\ Below(s, t) <=> (Len(s) <= Len(t) /\ \A i \in 1..Len(s) : t[i] = s[i])
    BY BelowContinues
<1>2. Below(p, p)
    BY <1>1
<1>3. Below(p, q) /\ Below(q, r) => Below(p, r)
    BY <1>1
<1>4. Below(p, r) /\ Below(q, r) => Below(p, q) \/ Below(q, p)
    BY <1>1
<1>5. Below(p, q) /\ Len(p) = Len(q) => p = q
  <2>1. PICK S : Paths \subseteq Seq(S)
    BY PathsAreSequences
  <2> QED  BY <1>1, <2>1
<1> QED  BY <1>2, <1>3, <1>4, <1>5

(* What lies above a child lies above its parent, or is the child.           *)
LEMMA AboveAChild ==
    ASSUME NEW p \in Paths, NEW c \in Children(p), NEW q \in Paths, Below(q, c)
    PROVE  q = c \/ Below(q, p)
<1>1. c \in Paths /\ Len(c) = Len(p) + 1 /\ Below(p, c)
    BY DEF Children
<1>2. Len(p) \in Nat /\ Len(q) \in Nat
    BY BelowContinues
<1>3. Below(q, p) \/ Below(p, q)
    BY <1>1, BelowIsAnOrder
<1>4. CASE Below(p, q) /\ ~Below(q, p)
  <2>1. Len(p) <= Len(q) /\ Len(q) <= Len(c)
    BY <1>1, <1>4, BelowContinues
  <2>2. Len(q) # Len(p)
    BY <1>4, BelowIsAnOrder
  <2>3. Len(q) = Len(c)
    BY <1>1, <1>2, <2>1, <2>2
  <2> QED  BY <1>1, <2>3, BelowIsAnOrder
<1> QED  BY <1>3, <1>4

-------------------------------------------------------------------------------
(* A visit that comes to its end is where it was.                            *)
LEMMA EndingKeeps ==
    ASSUME SurveyInv, UNCHANGED <<disk, request, roots>>,
           NEW v \in DOMAIN visits, NEW tally, Ended(v, tally)
    PROVE  /\ DOMAIN visits' = DOMAIN visits /\ visits'[v].step = "done"
           /\ \A w \in DOMAIN visits :
                /\ visits'[w].admitted = visits[w].admitted
                /\ visits[w].step # "waiting" => visits'[w].step # "waiting"
           /\ (\A w \in DOMAIN visits : Walked(w))'
           /\ (\A u, w \in DOMAIN visits : Reached(u, w))'
<1>1. \A w \in DOMAIN visits : Walked(w)
    BY DEF SurveyInv
<1>2. \A u, w \in DOMAIN visits : Reached(u, w)
    BY DEF SurveyInv
<1>3. visits' = [visits EXCEPT ![v].step = "done", ![v].tally = tally]
    BY DEF Ended
<1>4. /\ DOMAIN visits' = DOMAIN visits
      /\ \A w \in DOMAIN visits : w # v => visits'[w] = visits[w]
      /\ visits'[v] = [step |-> "done", region |-> visits[v].region,
                       admitted |-> visits[v].admitted, own |-> visits[v].own, tally |-> tally]
  <2>1. visits[v] = [step |-> visits[v].step, region |-> visits[v].region,
                     admitted |-> visits[v].admitted, own |-> visits[v].own,
                     tally |-> visits[v].tally]
    BY <1>1 DEF Walked
  <2>2. DOMAIN visits' = DOMAIN visits /\ \A w \in DOMAIN visits : w # v => visits'[w] = visits[w]
    BY <1>3
  <2>3. visits'[v] = [[visits[v] EXCEPT !.step = "done"] EXCEPT !.tally = tally]
    BY <1>3
  <2> QED  BY <2>1, <2>2, <2>3
<1>5. \A w \in DOMAIN visits :
        /\ visits'[w].region = visits[w].region /\ visits'[w].admitted = visits[w].admitted
        /\ visits'[w].step = IF w = v THEN "done" ELSE visits[w].step
    BY <1>4
<1>6. (\A w \in DOMAIN visits : Walked(w))'
  <2> SUFFICES ASSUME NEW w \in DOMAIN visits PROVE Walked(w)'
    BY <1>4
  <2>1. Walked(w)
    BY <1>1
  <2>2. Excluded(w[2])' <=> Excluded(w[2])
    BY DEF Excluded
  <2>3. visits'[w] = [step |-> visits'[w].step, region |-> visits'[w].region,
                      admitted |-> visits'[w].admitted, own |-> visits'[w].own,
                      tally |-> visits'[w].tally]
    BY <1>4, <2>1 DEF Walked
  <2> QED  BY <1>5, <2>1, <2>2, <2>3 DEF Walked
<1>7. (\A u, w \in DOMAIN visits : Reached(u, w))'
    BY <1>2, <1>4, <1>5 DEF Reached, Above
<1> QED  BY <1>4, <1>5, <1>6, <1>7

(* A directory that is listed is followed by some of its children, which      *)
(* nobody has come to before.                                               *)
LEMMA ListingKeeps ==
    ASSUME SurveyInv, pending = <<>>, UNCHANGED <<disk, request, pending, roots>>,
           NEW v \in DOMAIN visits, visits[v].step = "waiting", ~Excluded(v[2]),
           visits'[v] = [step |-> "listed", region |-> visits[v].region,
                         admitted |-> visits'[v].admitted, own |-> visits'[v].own,
                         tally |-> visits'[v].tally],
           visits'[v].admitted \in BOOLEAN,
           visits'[v].admitted => visits[v].region = "open" /\ request.descent = "measure",
           NEW region,
           (request.descent = "measure" /\ (visits'[v].admitted \/ visits[v].region = "inside"))
              => region = "inside",
           NEW K \in SUBSET {<<v[1], c>> : c \in SameVolume(v[2])},
           DOMAIN visits' = DOMAIN visits \cup K,
           \A w \in DOMAIN visits : w # v => visits'[w] = visits[w],
           \A k \in K \ DOMAIN visits : visits'[k] = Visit(region)
    PROVE  /\ (\A w \in DOMAIN visits : Walked(w))'
           /\ (\A u, w \in DOMAIN visits : Reached(u, w))'
           /\ \A c \in found : (\E u \in DOMAIN visits : FoundAt(c, u))'
<1> DEFINE D == DOMAIN visits
<1>1. /\ \A w \in D : Walked(w)
      /\ \A u, w \in D : Reached(u, w)
      /\ \A c \in found : \E u \in D : FoundAt(c, u)
    BY DEF SurveyInv
<1>2. /\ Walked(v) /\ v = <<v[1], v[2]>> /\ v[1] \in roots /\ v[2] \in Paths /\ v[1] \in Paths
      /\ Below(v[1], v[2])
    BY <1>1 DEF Walked, SurveyInv
<1>3. ASSUME NEW k \in K
      PROVE  /\ k = <<v[1], k[2]>> /\ k[1] = v[1] /\ k[2] \in Paths \ disk.links
             /\ k[2] \in Children(v[2]) /\ Below(v[2], k[2]) /\ Len(k[2]) = Len(v[2]) + 1
    BY <1>3 DEF SameVolume, Children
<1>4. \A w \in D : ~Above(v, w)
    BY <1>1 DEF Reached
<1>5. ASSUME NEW k \in K, NEW w \in D PROVE k # w /\ ~Above(k, w)
  <2>1. w[2] \in Paths /\ w[1] \in Paths
    BY <1>1, <1>5 DEF Walked, SurveyInv
  <2>2. Below(k[2], w[2]) => Below(v[2], w[2])
    BY <1>2, <1>3, <1>5, <2>1, BelowIsAnOrder
  <2>3. Len(v[2]) \in Nat /\ Len(k[2]) = Len(v[2]) + 1
    BY <1>2, <1>3, <1>5, BelowContinues
  <2>4. k[2] # v[2] /\ ~Below(k[2], v[2])
    BY <1>2, <1>3, <1>5, <2>3, BelowContinues
  <2>5. Below(k[2], k[2])
    BY <1>3, <1>5, BelowIsAnOrder
  <2>6. ASSUME k[1] = w[1], Below(k[2], w[2]) PROVE FALSE
    BY <1>3, <1>4, <1>5, <2>2, <2>4, <2>6 DEF Above
  <2> QED  BY <2>5, <2>6 DEF Above
<1>6. ASSUME NEW k \in K, NEW m \in K PROVE ~Above(k, m)
    BY <1>2, <1>3, <1>6, BelowIsAnOrder DEF Above
<1>7. ASSUME NEW k \in K, NEW w \in D, Above(w, k) PROVE w = v \/ Above(w, v)
  <2>1. w[2] \in Paths /\ w = <<w[1], w[2]>>
    BY <1>1, <1>7 DEF Walked
  <2>2. w[1] = v[1] /\ (w[2] = k[2] \/ Below(w[2], v[2]))
    BY <1>2, <1>3, <1>7, <2>1, AboveAChild DEF Above
  <2>3. w[2] # k[2]
    BY <1>3, <1>7, <2>1, <2>2 DEF Above
  <2> QED  BY <2>2, <2>3 DEF Above
<1>8. /\ DOMAIN visits' = D \cup K
      /\ \A w \in D : w # v => visits'[w] = visits[w]
      /\ \A k \in K : visits'[k] = Visit(region)
    BY <1>5
<1>9. /\ visits'[v].step = "listed" /\ visits'[v].region = visits[v].region
      /\ \A k \in K : /\ visits'[k].step = "waiting" /\ visits'[k].region = region
                      /\ visits'[k].admitted = FALSE
                      /\ visits'[k] = [step |-> visits'[k].step, region |-> visits'[k].region,
                                       admitted |-> visits'[k].admitted, own |-> visits'[k].own,
                                       tally |-> visits'[k].tally]
  <2>1. /\ visits'[v].step = "listed" /\ visits'[v].region = visits[v].region
    OBVIOUS
  <2>2. \E e : Visit(region) = [step |-> "waiting", region |-> region, admitted |-> FALSE,
                               own |-> e, tally |-> e]
    BY DEF Visit
  <2>3. PICK e : Visit(region) = [step |-> "waiting", region |-> region, admitted |-> FALSE,
                                 own |-> e, tally |-> e]
    BY <2>2
  <2>4. ASSUME NEW k \in K
        PROVE  visits'[k] = [step |-> "waiting", region |-> region, admitted |-> FALSE,
                             own |-> e, tally |-> e]
    BY <1>8, <2>3, <2>4
  <2> QED  BY <2>1, <2>4
<1>10. \A p : Excluded(p)' <=> Excluded(p)
    BY DEF Excluded
<1>11. ASSUME NEW w \in D \cup K PROVE Walked(w)'
  <2>1. CASE w \in K
    <3>1. Below(v[1], w[2])
        BY <1>2, <1>3, <2>1, BelowIsAnOrder
    <3> QED  BY <1>2, <1>3, <1>9, <2>1, <3>1 DEF Walked
  <2>2. CASE w = v
    <3>1. visits'[v] = [step |-> visits'[v].step, region |-> visits'[v].region,
                        admitted |-> visits'[v].admitted, own |-> visits'[v].own,
                        tally |-> visits'[v].tally]
        BY <1>9
    <3> QED  BY <1>2, <1>9, <1>10, <2>2, <3>1 DEF Walked
  <2>3. CASE w \in D /\ w # v
    BY <1>1, <1>8, <1>10, <2>3 DEF Walked
  <2> QED  BY <1>11, <2>1, <2>2, <2>3
<1>12. ASSUME NEW u \in D \cup K, NEW w \in D \cup K PROVE Reached(u, w)'
  <2> SUFFICES ASSUME Above(u, w)
               PROVE  /\ visits'[u].step # "waiting"
                      /\ (request.descent = "measure"
                            /\ (visits'[u].admitted \/ visits'[u].region = "inside"))
                           => visits'[w].region = "inside"
    BY DEF Reached, Above
  <2>1. u \in D
    BY <1>5, <1>6, <1>12
  <2>2. CASE w \in D
    <3>1. u # v
        BY <1>4, <2>2
    <3>2. Reached(u, w)
        BY <1>1, <2>1, <2>2
    <3> QED  BY <1>8, <1>9, <2>1, <2>2, <3>1, <3>2 DEF Reached
  <2>3. CASE w \in K
    <3>1. CASE u = v
        BY <1>9, <2>3, <3>1
    <3>2. CASE u # v
      <4>1. Reached(u, v) /\ Above(u, v)
          BY <1>1, <1>7, <2>1, <2>3, <3>2
      <4> QED  BY <1>8, <1>9, <2>1, <2>3, <3>2, <4>1 DEF Reached
    <3> QED  BY <3>1, <3>2
  <2> QED  BY <1>12, <2>2, <2>3
<1>13. ASSUME NEW c \in found PROVE (\E u \in DOMAIN visits : FoundAt(c, u))'
  <2>1. PICK u \in D : FoundAt(c, u)
    BY <1>1, <1>13
  <2>2. u # v /\ visits'[u] = visits[u]
    BY <1>8, <2>1 DEF FoundAt
  <2>3. ASSUME request.descent # "measure", NEW w \in D \cup K PROVE ~Above(u, w)
    BY <1>7, <2>1, <2>2, <2>3 DEF FoundAt
  <2>4. FoundAt(c, u)'
    BY <1>8, <1>10, <2>1, <2>2, <2>3 DEF FoundAt, Above
  <2> QED  BY <1>8, <2>4
<1> QED  BY <1>8, <1>11, <1>12, <1>13

-------------------------------------------------------------------------------
(* What keeps the visits and the candidates keeps the rest.                  *)
LEMMA VisitsKeep ==
    ASSUME SurveyInv, pending = <<>>, UNCHANGED <<disk, request, pending, roots>>,
           (\A w \in DOMAIN visits : Walked(w))',
           (\A u, w \in DOMAIN visits : Reached(u, w))',
           (\A c \in found : \E u \in DOMAIN visits : FoundAt(c, u))'
    PROVE  SurveyInv'
<1>1. /\ request' \in Requests /\ pending' \in Seq(Paths)
      /\ roots' \subseteq Paths \ disk'.links
      /\ \A r, s \in roots' : Below(r, s) => r = s
    BY DEF SurveyInv
<1>2. pending' = <<>>
    OBVIOUS
<1> QED  BY <1>1, <1>2 DEF SurveyInv

(* A visit that has begun is of a walk that has: every root was accepted.    *)
LEMMA BegunIsAccepted ==
    ASSUME SurveyInv, NEW v \in DOMAIN visits, visits[v].step # "waiting"
    PROVE  pending = <<>>
BY DEF SurveyInv

LEMMA SurveyBegins == SurveyInit => SurveyInv
<1> SUFFICES ASSUME SurveyInit PROVE SurveyInv
    OBVIOUS
<1>1. request \in Requests /\ pending \in Seq(Paths) /\ roots = {} /\ visits = <<>> /\ found = {}
    BY SurveyAssumption DEF SurveyInit
<1>2. DOMAIN visits = {}
    BY <1>1
<1> QED  BY <1>1, <1>2 DEF SurveyInv

(* The roots that are walked lie apart, and no walk has begun.               *)
LEMMA AcceptKeeps == ASSUME SurveyInv, Accept PROVE SurveyInv'
<1> DEFINE p == Head(pending)
<1>1. /\ pending # <<>> /\ pending' = Tail(pending)
      /\ UNCHANGED <<disk, request, found>>
      /\ \/ UNCHANGED <<roots, visits>>
         \/ /\ p \notin disk.links /\ ~\E r \in roots : Below(r, p)
            /\ roots' = {r \in roots : ~Below(p, r)} \cup {p}
            /\ visits' = [v \in {<<r, r>> : r \in roots'} |-> Visit("root")]
    BY DEF Accept
<1>2. /\ request \in Requests /\ pending \in Seq(Paths) /\ roots \subseteq Paths \ disk.links
      /\ \A r, s \in roots : Below(r, s) => r = s
      /\ \A v \in DOMAIN visits : Walked(v)
      /\ \A v, w \in DOMAIN visits : Reached(v, w)
      /\ found = {}
      /\ \A v \in DOMAIN visits : visits[v].step = "waiting" /\ v = <<v[1], v[1]>>
    BY <1>1 DEF SurveyInv
<1>3. p \in Paths /\ pending' \in Seq(Paths)
    BY <1>1, <1>2
<1>4. \A q : Excluded(q)' <=> Excluded(q)
    BY <1>1 DEF Excluded
<1>5. CASE UNCHANGED <<roots, visits>>
  <2>1. (\A v \in DOMAIN visits : Walked(v))'
    BY <1>1, <1>2, <1>4, <1>5 DEF Walked
  <2>2. (\A v, w \in DOMAIN visits : Reached(v, w))'
    BY <1>1, <1>2, <1>5 DEF Reached, Above
  <2> QED  BY <1>1, <1>2, <1>3, <1>5, <2>1, <2>2 DEF SurveyInv
<1>6. CASE /\ p \notin disk.links /\ ~\E r \in roots : Below(r, p)
           /\ roots' = {r \in roots : ~Below(p, r)} \cup {p}
           /\ visits' = [v \in {<<r, r>> : r \in roots'} |-> Visit("root")]
  <2> HIDE DEF p
  <2>1. roots' \subseteq Paths \ disk'.links
    BY <1>1, <1>2, <1>3, <1>6
  <2>2. \A r, s \in roots' : Below(r, s) => r = s
    BY <1>2, <1>6
  <2>3. \E e : Visit("root") = [step |-> "waiting", region |-> "root", admitted |-> FALSE,
                               own |-> e, tally |-> e]
    BY DEF Visit
  <2>4. PICK e : Visit("root") = [step |-> "waiting", region |-> "root", admitted |-> FALSE,
                                 own |-> e, tally |-> e]
    BY <2>3
  <2>5. /\ DOMAIN visits' = {<<r, r>> : r \in roots'}
        /\ \A v \in DOMAIN visits' :
             visits'[v] = [step |-> "waiting", region |-> "root", admitted |-> FALSE,
                           own |-> e, tally |-> e]
    BY <1>6, <2>4
  <2>6. ASSUME NEW v \in DOMAIN visits'
        PROVE  /\ v = <<v[1], v[2]>> /\ v[1] = v[2] /\ v[1] \in roots'
               /\ v[2] \in Paths \ disk'.links
               /\ Below(v[1], v[2]) /\ v = <<v[1], v[1]>>
    BY <2>1, <2>5, <2>6, BelowIsAnOrder
  <2>7. (\A v \in DOMAIN visits : Walked(v))'
    <3> SUFFICES ASSUME NEW v \in DOMAIN visits' PROVE Walked(v)'
        OBVIOUS
    <3>1. /\ visits'[v].step = "waiting" /\ visits'[v].admitted = FALSE
          /\ visits'[v] = [step |-> visits'[v].step, region |-> visits'[v].region,
                           admitted |-> visits'[v].admitted, own |-> visits'[v].own,
                           tally |-> visits'[v].tally]
        BY <2>5
    <3> QED  BY <2>6, <3>1 DEF Walked
  <2>8. (\A v, w \in DOMAIN visits : Reached(v, w))'
    <3> SUFFICES ASSUME NEW v \in DOMAIN visits', NEW w \in DOMAIN visits' PROVE ~Above(v, w)
        BY DEF Reached, Above
    <3> QED  BY <2>2, <2>6 DEF Above
  <2>9. found' = {} /\ \A v \in DOMAIN visits' : visits'[v].step = "waiting"
    BY <1>1, <1>2, <2>5
  <2> QED  BY <1>1, <1>2, <1>3, <2>1, <2>2, <2>6, <2>7, <2>8, <2>9 DEF SurveyInv
<1> QED  BY <1>1, <1>5, <1>6

(* The candidates stay where they were found when a visit ends.              *)
LEMMA FoundStays ==
    ASSUME SurveyInv, UNCHANGED <<disk, request, roots>>,
           NEW v \in DOMAIN visits, NEW tally, Ended(v, tally),
           NEW c \in found
    PROVE  (\E u \in DOMAIN visits : FoundAt(c, u))'
<1>1. PICK u \in DOMAIN visits : FoundAt(c, u)
    BY DEF SurveyInv
<1>2. /\ DOMAIN visits' = DOMAIN visits
      /\ \A w \in DOMAIN visits :
           /\ visits'[w].admitted = visits[w].admitted
           /\ visits[w].step # "waiting" => visits'[w].step # "waiting"
    BY EndingKeeps
<1>3. FoundAt(c, u)'
    BY <1>1, <1>2 DEF FoundAt, Above, Excluded
<1> QED  BY <1>2, <1>3

LEMMA PassByKeeps == ASSUME SurveyInv, PassBy PROVE SurveyInv'
<1>1. UNCHANGED <<disk, request, pending, roots, found>> /\ pending = <<>>
    BY DEF PassBy
<1>2. PICK v \in DOMAIN visits : Ended(v, EmptyTally(request.measure))
    BY DEF PassBy
<1>3. (\A c \in found : \E u \in DOMAIN visits : FoundAt(c, u))'
    BY <1>1, <1>2, FoundStays
<1> QED  BY <1>1, <1>2, <1>3, EndingKeeps, VisitsKeep

LEMMA FailToListKeeps == ASSUME SurveyInv, FailToList PROVE SurveyInv'
<1>1. UNCHANGED <<disk, request, pending, roots, found>> /\ pending = <<>>
    BY DEF FailToList
<1>2. PICK v \in DOMAIN visits : Ended(v, FailedTally(request.measure))
    BY DEF FailToList
<1>3. (\A c \in found : \E u \in DOMAIN visits : FoundAt(c, u))'
    BY <1>1, <1>2, FoundStays
<1> QED  BY <1>1, <1>2, <1>3, EndingKeeps, VisitsKeep

(* A candidate that is summed up was admitted, and has its sum.              *)
LEMMA SumUpKeeps == ASSUME SurveyInv, SumUp PROVE SurveyInv'
<1>1. UNCHANGED <<disk, request, pending, roots>>
    BY DEF SumUp
<1>2. PICK v \in DOMAIN visits : \E tally :
        /\ visits[v].step = "listed" /\ Ended(v, tally)
        /\ \A c \in found' : c \in found \/ (visits[v].admitted /\ c = CandidateAt(v[2], tally))
    BY DEF SumUp
<1>3. PICK tally :
        /\ visits[v].step = "listed" /\ Ended(v, tally)
        /\ \A c \in found' : c \in found \/ (visits[v].admitted /\ c = CandidateAt(v[2], tally))
    BY <1>2
<1>4. pending = <<>>
    BY <1>3, BegunIsAccepted
<1>5. /\ DOMAIN visits' = DOMAIN visits /\ visits'[v].step = "done"
      /\ visits'[v].admitted = visits[v].admitted
    BY <1>1, <1>3, EndingKeeps
<1>6. Walked(v)
    BY DEF SurveyInv
<1>7. ASSUME NEW c \in found' PROVE (\E u \in DOMAIN visits : FoundAt(c, u))'
  <2>1. CASE c \in found
    BY <1>1, <1>3, <2>1, FoundStays
  <2>2. CASE visits[v].admitted /\ c = CandidateAt(v[2], tally)
    <3>1. c.path = v[2]
        BY <2>2 DEF CandidateAt
    <3>2. FoundAt(c, v)'
        BY <1>1, <1>5, <1>6, <2>2, <3>1 DEF FoundAt, Walked, Excluded
    <3> QED  BY <1>5, <3>2
  <2> QED  BY <1>3, <1>7, <2>1, <2>2
<1> QED  BY <1>1, <1>3, <1>4, <1>7, EndingKeeps, VisitsKeep

LEMMA MeasuredKeeps ==
    ASSUME SurveyInv, pending = <<>>, UNCHANGED <<disk, request, pending, roots>>,
           NEW v \in DOMAIN visits, visits[v].step = "waiting", ~Excluded(v[2]),
           request.descent = "measure", NEW lost, Measured(v, lost)
    PROVE  SurveyInv'
<1> DEFINE admitted == AdmitsCandidate(v[2], visits[v].region)
           region == IF admitted \/ visits[v].region = "inside" THEN "inside" ELSE "open"
           K == {<<v[1], c>> : c \in Descended(v)}
<1>1. \E sum : /\ found' = found
               /\ visits' = [w \in DOMAIN visits \cup K |->
                    IF w = v THEN [visits[v] EXCEPT !.step = "listed", !.own = sum,
                                                    !.admitted = admitted]
                    ELSE IF w \in DOMAIN visits THEN visits[w] ELSE Visit(region)]
    BY DEF Measured
<1>2. PICK sum : /\ found' = found
                 /\ visits' = [w \in DOMAIN visits \cup K |->
                      IF w = v THEN [visits[v] EXCEPT !.step = "listed", !.own = sum,
                                                      !.admitted = admitted]
                      ELSE IF w \in DOMAIN visits THEN visits[w] ELSE Visit(region)]
    BY <1>1
<1>3. admitted \in BOOLEAN /\ (admitted => visits[v].region = "open")
    BY DEF AdmitsCandidate
<1>4. K \in SUBSET {<<v[1], c>> : c \in SameVolume(v[2])}
    BY DEF Descended
<1>5. visits[v] = [step |-> visits[v].step, region |-> visits[v].region,
                   admitted |-> visits[v].admitted, own |-> visits[v].own,
                   tally |-> visits[v].tally]
    BY DEF SurveyInv, Walked
<1>6. (admitted \/ visits[v].region = "inside") => region = "inside"
    OBVIOUS
<1> HIDE DEF admitted, region, K
<1>7. visits'[v] = [step |-> "listed", region |-> visits[v].region, admitted |-> admitted,
                    own |-> sum, tally |-> visits[v].tally]
  <2>1. visits'[v] = [[[visits[v] EXCEPT !.step = "listed"] EXCEPT !.own = sum]
                        EXCEPT !.admitted = admitted]
    BY <1>2
  <2> QED  BY <1>5, <2>1
<1>8. /\ DOMAIN visits' = DOMAIN visits \cup K
      /\ \A w \in DOMAIN visits : w # v => visits'[w] = visits[w]
      /\ \A k \in K \ DOMAIN visits : visits'[k] = Visit(region)
    BY <1>2
<1>9. /\ (\A w \in DOMAIN visits : Walked(w))'
      /\ (\A u, w \in DOMAIN visits : Reached(u, w))'
      /\ \A c \in found : (\E u \in DOMAIN visits : FoundAt(c, u))'
  <2>1. visits'[v].admitted \in BOOLEAN /\ (visits'[v].admitted => visits[v].region = "open")
    BY <1>3, <1>7
  <2>2. visits'[v].admitted \/ visits[v].region = "inside" => region = "inside"
    BY <1>6, <1>7
  <2>3. visits'[v] = [step |-> "listed", region |-> visits[v].region,
                      admitted |-> visits'[v].admitted, own |-> visits'[v].own,
                      tally |-> visits'[v].tally]
    BY <1>7
  <2> QED  BY <1>4, <1>8, <2>1, <2>2, <2>3, ListingKeeps
<1>10. (\A c \in found : \E u \in DOMAIN visits : FoundAt(c, u))'
    BY <1>2, <1>9
<1> QED  BY <1>9, <1>10, VisitsKeep

(* A candidate that is sighted has nothing below it, as it is not listed.    *)
LEMMA SightingKeeps ==
    ASSUME SurveyInv, pending = <<>>, UNCHANGED <<disk, request, pending, roots>>,
           NEW v \in DOMAIN visits, visits[v].step = "waiting", ~Excluded(v[2]),
           request.descent # "measure", Sight(v)
    PROVE  SurveyInv'
<1> DEFINE admitted == AdmitsCandidate(v[2], visits[v].region)
           K == {<<v[1], c>> : c \in Descended(v)}
<1>1. /\ found' = IF admitted THEN found \cup {CandidateAt(v[2], EmptyTally("logical"))} ELSE found
      /\ \/ Ended(v, EmptyTally(request.measure))
         \/ /\ ~admitted
            /\ visits' = [w \in DOMAIN visits \cup K |->
                 IF w = v THEN [visits[v] EXCEPT !.step = "listed"]
                 ELSE IF w \in DOMAIN visits THEN visits[w] ELSE Visit("open")]
    BY DEF Sight
<1>2. K \in SUBSET {<<v[1], c>> : c \in SameVolume(v[2])}
    BY DEF Descended
<1>3. /\ visits[v] = [step |-> visits[v].step, region |-> visits[v].region,
                      admitted |-> visits[v].admitted, own |-> visits[v].own,
                      tally |-> visits[v].tally]
      /\ visits[v].admitted = FALSE
    BY DEF SurveyInv, Walked
<1>4. \A w \in DOMAIN visits : ~Above(v, w)
    BY DEF SurveyInv, Reached
<1> HIDE DEF admitted, K
<1>5. CASE Ended(v, EmptyTally(request.measure))
  <2>1. /\ DOMAIN visits' = DOMAIN visits /\ visits'[v].step = "done"
    BY <1>5, EndingKeeps
  <2>2. ASSUME NEW c \in found' PROVE (\E u \in DOMAIN visits : FoundAt(c, u))'
    <3>1. CASE c \in found
        BY <1>5, <3>1, FoundStays
    <3>2. CASE c = CandidateAt(v[2], EmptyTally("logical"))
      <4>1. c.path = v[2]
          BY <3>2 DEF CandidateAt
      <4>2. FoundAt(c, v)'
          BY <1>4, <2>1, <4>1 DEF FoundAt, Above, Excluded
      <4> QED  BY <2>1, <4>2
    <3> QED  BY <1>1, <2>2, <3>1, <3>2
  <2> QED  BY <1>5, <2>2, EndingKeeps, VisitsKeep
<1>6. CASE /\ ~admitted
           /\ visits' = [w \in DOMAIN visits \cup K |->
                IF w = v THEN [visits[v] EXCEPT !.step = "listed"]
                ELSE IF w \in DOMAIN visits THEN visits[w] ELSE Visit("open")]
  <2>1. /\ visits'[v] = [step |-> "listed", region |-> visits[v].region,
                         admitted |-> visits'[v].admitted, own |-> visits'[v].own,
                         tally |-> visits'[v].tally]
        /\ visits'[v].admitted = FALSE
    <3>1. visits'[v] = [visits[v] EXCEPT !.step = "listed"]
        BY <1>6
    <3> QED  BY <1>3, <3>1
  <2>2. /\ DOMAIN visits' = DOMAIN visits \cup K
        /\ \A w \in DOMAIN visits : w # v => visits'[w] = visits[w]
        /\ \A k \in K \ DOMAIN visits : visits'[k] = Visit("open")
    BY <1>6
  <2>3. /\ (\A w \in DOMAIN visits : Walked(w))'
        /\ (\A u, w \in DOMAIN visits : Reached(u, w))'
        /\ \A c \in found : (\E u \in DOMAIN visits : FoundAt(c, u))'
    BY <1>2, <2>1, <2>2, ListingKeeps
  <2>4. (\A c \in found : \E u \in DOMAIN visits : FoundAt(c, u))'
    BY <1>1, <1>6, <2>3
  <2> QED  BY <2>3, <2>4, VisitsKeep
<1> QED  BY <1>1, <1>5, <1>6

LEMMA WalkKeeps == ASSUME SurveyInv, Walk PROVE SurveyInv'
<1>1. pending = <<>> /\ UNCHANGED <<disk, request, pending, roots>>
    BY DEF Walk
<1>2. PICK v \in DOMAIN visits :
        /\ visits[v].step = "waiting" /\ ~Excluded(v[2])
        /\ IF request.descent = "measure" THEN \E lost : Measured(v, lost) ELSE Sight(v)
    BY DEF Walk
<1>3. CASE request.descent = "measure"
    BY <1>1, <1>2, <1>3, MeasuredKeeps
<1>4. CASE request.descent # "measure"
    BY <1>1, <1>2, <1>4, SightingKeeps
<1> QED  BY <1>3, <1>4

LEMMA RestingKeeps ==
    ASSUME SurveyInv, UNCHANGED <<disk, request, pending, roots, visits, found>> PROVE SurveyInv'
<1>1. (\A v \in DOMAIN visits : Walked(v))'
    BY DEF SurveyInv, Walked, Excluded
<1>2. (\A v, w \in DOMAIN visits : Reached(v, w))'
    BY DEF SurveyInv, Reached, Above
<1>3. (\A c \in found : \E v \in DOMAIN visits : FoundAt(c, v))'
    BY DEF SurveyInv, FoundAt, Above, Excluded
<1> QED  BY <1>1, <1>2, <1>3 DEF SurveyInv

(* Of two walks' paths that are in line with each other one is of the other's *)
(* walk: the roots lie apart.  Then neither is admitted inside of the other. *)
LEMMA SurveyInvImpliesApart == SurveyInv => CandidatesLieApart
<1> SUFFICES ASSUME SurveyInv, NEW c \in found
             PROVE  /\ \A e \in found : Below(c.path, e.path) => c.path = e.path
                    /\ ~Excluded(c.path) /\ c.path \notin disk.links
    BY DEF CandidatesLieApart
<1>1. PICK v \in DOMAIN visits : FoundAt(c, v)
    BY DEF SurveyInv
<1>2. Walked(v)
    BY DEF SurveyInv
<1>3. ~Excluded(c.path) /\ c.path \notin disk.links
    BY <1>1, <1>2 DEF FoundAt, Walked
<1>4. ASSUME NEW e \in found, Below(c.path, e.path), c.path # e.path PROVE FALSE
  <2>1. PICK w \in DOMAIN visits : FoundAt(e, w)
    BY DEF SurveyInv
  <2>2. Walked(w)
    BY DEF SurveyInv
  <2>3. /\ v[1] \in Paths /\ v[2] \in Paths /\ w[1] \in Paths /\ w[2] \in Paths
        /\ v[1] \in roots /\ w[1] \in roots
        /\ Below(v[1], v[2]) /\ Below(v[2], w[2]) /\ Below(w[1], w[2]) /\ v[2] # w[2]
    BY <1>1, <1>2, <1>4, <2>1, <2>2 DEF Walked, FoundAt, SurveyInv
  <2>4. Below(v[1], w[2])
    BY <2>3, BelowIsAnOrder
  <2>5. Below(v[1], w[1]) \/ Below(w[1], v[1])
    BY <2>3, <2>4, BelowIsAnOrder
  <2>6. v[1] = w[1]
    BY <2>3, <2>5 DEF SurveyInv
  <2>7. Above(v, w) /\ Reached(v, w)
    BY <2>3, <2>6 DEF Above, SurveyInv
  <2> QED  BY <1>1, <2>1, <2>2, <2>7 DEF FoundAt, Reached, Walked
<1> QED  BY <1>3, <1>4

(* However the roots lie and in whatever order the directories are walked,   *)
(* what is visited was reached from above, and is inside of what was found   *)
(* above it (scan.rs: scan, walk, visit).                                   *)
THEOREM SurveyInvariant == SurveySpec => []SurveyInv
<1>1. SurveyInit => SurveyInv
    BY SurveyBegins
<1>2. SurveyInv /\ [SurveyNext]_survey => SurveyInv'
  <2> SUFFICES ASSUME SurveyInv, [SurveyNext]_survey PROVE SurveyInv'
    OBVIOUS
  <2>1. CASE Accept
    BY <2>1, AcceptKeeps
  <2>2. CASE PassBy
    BY <2>2, PassByKeeps
  <2>3. CASE FailToList
    BY <2>3, FailToListKeeps
  <2>4. CASE Walk
    BY <2>4, WalkKeeps
  <2>5. CASE SumUp
    BY <2>5, SumUpKeeps
  <2>6. CASE Report
    BY <2>6, RestingKeeps DEF Report
  <2>7. CASE UNCHANGED survey
    BY <2>7, RestingKeeps DEF survey
  <2> QED  BY <2>1, <2>2, <2>3, <2>4, <2>5, <2>6, <2>7 DEF SurveyNext
<1> QED  BY <1>1, <1>2, PTL DEF SurveySpec

(* The candidates of a scan lie apart from each other, from what is excluded *)
(* and from what a link leads to.                                            *)
THEOREM CandidatesAreApart == SurveySpec => []CandidatesLieApart
BY SurveyInvariant, SurveyInvImpliesApart, PTL

-------------------------------------------------------------------------------
(* Sums.                                                                   *)
Weights(f) == IsFiniteSet(DOMAIN f) /\ \A k \in DOMAIN f : f[k] \in Nat

LEMMA ImageIsFinite ==
    ASSUME NEW f, IsFiniteSet(DOMAIN f)
    PROVE  IsFiniteSet({f[k] : k \in DOMAIN f})
<1> DEFINE K == DOMAIN f
           T == {f[k] : k \in K}
           g == [k \in K |-> f[k]]
<1>1. g \in [K -> T] /\ \A t \in T : \E k \in K : g[k] = t
    OBVIOUS
<1>2. g \in Surjection(K, T)
    BY <1>1 DEF Surjection
<1> HIDE DEF K, T, g
<1>3. IsFiniteSet(K)
    BY DEF K
<1>4. IsFiniteSet(T)
    BY <1>2, <1>3, FS_Surjection
<1> QED  BY <1>4 DEF T, K

LEMMA UnitIs ==
    ASSUME NEW f, NEW u
    PROVE  u \in Units(f) <=> \E k \in DOMAIN f : \E i \in 1..f[k] : u = <<k, i>>
BY DEF Units

LEMMA UnitsAreFinite ==
    ASSUME NEW f, Weights(f)
    PROVE  IsFiniteSet(Units(f)) /\ Total(f) \in Nat
<1> DEFINE g == [k \in DOMAIN f |-> {k} \X (1..f[k])]
<1>1. \A k \in DOMAIN f : IsFiniteSet(g[k])
  <2> SUFFICES ASSUME NEW k \in DOMAIN f PROVE IsFiniteSet({k} \X (1..f[k]))
    OBVIOUS
  <2>1. f[k] \in Int /\ 1 \in Int
    BY DEF Weights
  <2>2. IsFiniteSet({k}) /\ IsFiniteSet(1..f[k])
    BY <2>1, FS_Singleton, FS_Interval
  <2> QED  BY <2>2, FS_Product
<1>2. Units(f) = UNION {g[k] : k \in DOMAIN g} /\ DOMAIN g = DOMAIN f
    BY DEF Units
<1> HIDE DEF g
<1>3. IsFiniteSet({g[k] : k \in DOMAIN g})
    BY <1>2, ImageIsFinite DEF Weights
<1>4. IsFiniteSet(Units(f))
    BY <1>1, <1>2, <1>3, FS_UNION
<1> QED  BY <1>4, FS_CardinalityType DEF Total

(* Sets that lie apart have together as many elements as they have each.    *)
LEMMA CountOfUnion ==
    ASSUME NEW D, IsFiniteSet(DOMAIN D), \A k \in DOMAIN D : IsFiniteSet(D[k]),
           \A j, k \in DOMAIN D : j # k => D[j] \cap D[k] = {}
    PROVE  /\ IsFiniteSet(UNION {D[k] : k \in DOMAIN D})
           /\ Cardinality(UNION {D[k] : k \in DOMAIN D})
                = Total([k \in DOMAIN D |-> Cardinality(D[k])])
<1> DEFINE K == DOMAIN D
           U == UNION {D[k] : k \in K}
           f == [k \in K |-> Cardinality(D[k])]
           g == [k \in K |-> CHOOSE b \in Bijection(1..f[k], D[k]) : TRUE]
           h == [u \in Units(f) |-> g[u[1]][u[2]]]
<1>1. \A k \in K : /\ f[k] \in Nat
                   /\ g[k] \in Bijection(1..f[k], D[k])
    BY FS_CardinalityType, Fun_ExistsBij
<1>2. DOMAIN f = K /\ IsFiniteSet(K)
    OBVIOUS
<1> HIDE DEF K, f, g
<1>3. IsFiniteSet(Units(f))
    BY <1>1, <1>2, UnitsAreFinite DEF Weights
<1>4. \A k \in K : /\ g[k] \in [1..f[k] -> D[k]]
                   /\ \A i, j \in 1..f[k] : g[k][i] = g[k][j] => i = j
                   /\ \A d \in D[k] : \E i \in 1..f[k] : g[k][i] = d
    BY <1>1 DEF Bijection, Injection, Surjection, IsInjective
<1>5. \A u \in Units(f) : /\ u = <<u[1], u[2]>> /\ u[1] \in K /\ u[2] \in 1..f[u[1]]
    BY <1>2, UnitIs
<1>6. \A k \in K : \A i \in 1..f[k] : <<k, i>> \in Units(f)
    BY <1>2, UnitIs
<1>71. \A u \in Units(f) : h[u] = g[u[1]][u[2]] /\ h[u] \in D[u[1]]
  <2> SUFFICES ASSUME NEW u \in Units(f) PROVE g[u[1]][u[2]] \in D[u[1]]
    OBVIOUS
  <2>1. u[1] \in K /\ u[2] \in 1..f[u[1]]
    BY <1>5
  <2>2. g[u[1]] \in [1..f[u[1]] -> D[u[1]]]
    BY <1>4, <2>1
  <2> QED  BY <2>1, <2>2
<1>7. h \in [Units(f) -> U]
  <2>1. \A u \in Units(f) : h[u] \in U
    BY <1>5, <1>71
  <2> QED  BY <2>1
<1>72. \A j, k \in K : j # k => D[j] \cap D[k] = {}
    BY DEF K
<1>8. \A u, w \in Units(f) : h[u] = h[w] => u = w
  <2> HIDE DEF h
  <2> SUFFICES ASSUME NEW u \in Units(f), NEW w \in Units(f), h[u] = h[w] PROVE u = w
    OBVIOUS
  <2>1. h[u] \in D[u[1]] /\ h[u] \in D[w[1]] /\ u[1] \in K /\ w[1] \in K
    BY <1>5, <1>71
  <2>2. u[1] = w[1]
    BY <1>72, <2>1
  <2>3. u[2] = w[2]
    BY <1>4, <1>5, <1>71, <2>2
  <2> QED  BY <1>5, <2>2, <2>3
<1>9. \A d \in U : \E u \in Units(f) : h[u] = d
  <2> SUFFICES ASSUME NEW k \in K, NEW d \in D[k] PROVE \E u \in Units(f) : h[u] = d
    OBVIOUS
  <2>1. PICK i \in 1..f[k] : g[k][i] = d
    BY <1>4
  <2>2. <<k, i>> \in Units(f) /\ h[<<k, i>>] = d
    BY <1>6, <2>1
  <2> QED  BY <2>2
<1> HIDE DEF h, U
<1>10. h \in Bijection(Units(f), U)
    BY <1>7, <1>8, <1>9 DEF Bijection, Injection, Surjection, IsInjective
<1>11. ExistsBijection(Units(f), U)
    BY <1>10, Fun_ExistsBij
<1>12. IsFiniteSet(U) /\ Cardinality(U) = Cardinality(Units(f))
    BY <1>3, <1>11, FS_Bijection
<1> QED  BY <1>12 DEF U, K, f, Total

LEMMA TotalGrows ==
    ASSUME NEW f, NEW g, Weights(f), Weights(g), DOMAIN f \subseteq DOMAIN g,
           \A k \in DOMAIN f : f[k] <= g[k]
    PROVE  Total(f) <= Total(g)
<1>1. Units(f) \subseteq Units(g)
  <2> SUFFICES ASSUME NEW k \in DOMAIN f, NEW i \in 1..f[k] PROVE <<k, i>> \in Units(g)
    BY UnitIs
  <2>1. i \in 1..g[k]
    BY DEF Weights
  <2> QED  BY <2>1, UnitIs
<1> QED  BY <1>1, UnitsAreFinite, FS_Subset DEF Total

LEMMA TotalOfOne ==
    ASSUME NEW k, NEW n \in Nat
    PROVE  Total([x \in {k} |-> n]) = n
<1> DEFINE f == [x \in {k} |-> n]
<1>1. Units(f) = {k} \X (1..n)
    BY DEF Units
<1>2. IsFiniteSet({k}) /\ Cardinality({k}) = 1
    BY FS_Singleton
<1>3. IsFiniteSet(1..n) /\ Cardinality(1..n) = n
    BY FS_Interval
<1>4. Cardinality({k} \X (1..n)) = 1 * n
    BY <1>2, <1>3, FS_Product
<1>5. 1 * n = n
    OBVIOUS
<1> QED  BY <1>1, <1>4, <1>5, Zenon DEF Total

(* What is one for each counts them.                                       *)
LEMMA TotalOfOnes ==
    ASSUME NEW K, IsFiniteSet(K)
    PROVE  Total([k \in K |-> 1]) = Cardinality(K)
<1> DEFINE f == [k \in K |-> 1]
<1>1. Units(f) = K \X {1}
  <2>1. 1..1 = {1}
    OBVIOUS
  <2> QED  BY <2>1 DEF Units
<1>2. IsFiniteSet({1}) /\ Cardinality({1}) = 1 /\ Cardinality(K) \in Nat
    BY FS_Singleton, FS_CardinalityType
<1>3. Cardinality(K \X {1}) = Cardinality(K) * 1
    BY <1>2, FS_Product
<1>4. Cardinality(K \X {1}) = Cardinality(K)
    BY <1>2, <1>3
<1> QED  BY <1>1, <1>4 DEF Total

LEMMA PartOfTotal ==
    ASSUME NEW f, Weights(f), NEW k \in DOMAIN f
    PROVE  f[k] <= Total(f)
<1> DEFINE g == [x \in {k} |-> f[k]]
<1>1. f[k] \in Nat
    BY DEF Weights
<1>2. IsFiniteSet({k})
    BY FS_Singleton
<1>3. Weights(g) /\ DOMAIN g \subseteq DOMAIN f /\ \A x \in DOMAIN g : g[x] <= f[x]
    BY <1>1, <1>2 DEF Weights
<1>4. Total(g) = f[k]
    BY <1>1, TotalOfOne
<1> HIDE DEF g
<1> QED  BY <1>3, <1>4, TotalGrows

(* A sum is nothing when there is nothing in it.                            *)
LEMMA TotalIsNothing ==
    ASSUME NEW f, Weights(f)
    PROVE  Total(f) = 0 <=> \A k \in DOMAIN f : f[k] = 0
<1>1. ASSUME Total(f) = 0, NEW k \in DOMAIN f PROVE f[k] = 0
    BY <1>1, PartOfTotal DEF Weights
<1>2. ASSUME \A k \in DOMAIN f : f[k] = 0 PROVE Total(f) = 0
  <2>1. Units(f) = {}
    BY <1>2, UnitIs
  <2> QED  BY <2>1, FS_EmptySet DEF Total
<1> QED  BY <1>1, <1>2

LEMMA TotalOfSums ==
    ASSUME NEW f, NEW g, Weights(f), Weights(g), DOMAIN f = DOMAIN g
    PROVE  Total([k \in DOMAIN f |-> f[k] + g[k]]) = Total(f) + Total(g)
<1> DEFINE s == [k \in DOMAIN f |-> f[k] + g[k]]
           V == Units(s) \ Units(f)
           h == [u \in Units(g) |-> <<u[1], f[u[1]] + u[2]>>]
<1> SUFFICES Total(s) = Total(f) + Total(g)
    OBVIOUS
<1>1. \A k \in DOMAIN f : f[k] \in Nat /\ g[k] \in Nat
    BY DEF Weights
<1>2. DOMAIN s = DOMAIN f /\ \A k \in DOMAIN f : s[k] = f[k] + g[k]
    OBVIOUS
<1>3. Weights(s)
    BY <1>1 DEF Weights
<1> HIDE DEF s
<1>4. \A u \in Units(g) : u = <<u[1], u[2]>> /\ u[1] \in DOMAIN f /\ u[2] \in 1..g[u[1]]
    BY UnitIs
<1>5. Units(f) \subseteq Units(s)
  <2> SUFFICES ASSUME NEW k \in DOMAIN f, NEW i \in 1..f[k] PROVE <<k, i>> \in Units(s)
    BY UnitIs
  <2>1. i \in 1..s[k]
    BY <1>1, <1>2
  <2> QED  BY <1>2, <2>1, UnitIs
<1>6. h \in [Units(g) -> V]
  <2> SUFFICES ASSUME NEW u \in Units(g) PROVE h[u] \in V
    OBVIOUS
  <2>1. f[u[1]] + u[2] \in 1..s[u[1]] /\ f[u[1]] + u[2] \notin 1..f[u[1]]
    BY <1>1, <1>2, <1>4
  <2>2. h[u] = <<u[1], f[u[1]] + u[2]>>
    OBVIOUS
  <2>3. h[u] \in Units(s)
    BY <1>2, <1>4, <2>1, <2>2, UnitIs
  <2>4. h[u] \notin Units(f)
    BY <2>1, <2>2, UnitIs
  <2> QED  BY <2>3, <2>4
<1>7. \A u, w \in Units(g) : h[u] = h[w] => u = w
  <2> SUFFICES ASSUME NEW u \in Units(g), NEW w \in Units(g), h[u] = h[w] PROVE u = w
    OBVIOUS
  <2>1. u[1] = w[1] /\ f[u[1]] + u[2] = f[w[1]] + w[2]
    OBVIOUS
  <2>2. u[2] = w[2]
    BY <1>1, <1>4, <2>1
  <2> QED  BY <1>4, <2>1, <2>2
<1>8. \A v \in V : \E u \in Units(g) : h[u] = v
  <2> SUFFICES ASSUME NEW v \in V PROVE \E u \in Units(g) : h[u] = v
    OBVIOUS
  <2>0. PICK k \in DOMAIN f : \E j \in 1..s[k] : v = <<k, j>>
    BY <1>2, UnitIs
  <2>1. PICK i \in 1..s[k] : v = <<k, i>>
    BY <2>0
  <2>2. i \notin 1..f[k]
    BY <2>1, UnitIs
  <2>3. i - f[k] \in 1..g[k] /\ f[k] + (i - f[k]) = i
    BY <1>1, <1>2, <2>1, <2>2
  <2>4. <<k, i - f[k]>> \in Units(g)
    BY <2>3, UnitIs
  <2>5. h[<<k, i - f[k]>>] = v
    BY <2>1, <2>3, <2>4
  <2> QED  BY <2>4, <2>5
<1> HIDE DEF h, V
<1>9. h \in Bijection(Units(g), V)
    BY <1>6, <1>7, <1>8 DEF Bijection, Injection, Surjection, IsInjective
<1>10. ExistsBijection(Units(g), V)
    BY <1>9, Fun_ExistsBij
<1>11. /\ IsFiniteSet(Units(f)) /\ IsFiniteSet(Units(g)) /\ IsFiniteSet(Units(s))
       /\ Total(f) \in Nat /\ Total(g) \in Nat /\ Total(s) \in Nat
    BY <1>3, UnitsAreFinite
<1>12. Cardinality(V) = Cardinality(Units(g))
    BY <1>10, <1>11, FS_Bijection
<1>13. Cardinality(V) = Cardinality(Units(s)) - Cardinality(Units(s) \cap Units(f))
    BY <1>11, FS_Difference DEF V
<1>14. Units(s) \cap Units(f) = Units(f)
    BY <1>5
<1>15. Total(g) = Total(s) - Total(f)
    BY <1>12, <1>13, <1>14, Zenon DEF Total
<1>16. Total(f) \in Nat /\ Total(g) \in Nat /\ Total(s) \in Nat
    BY <1>11
<1> QED  BY <1>15, <1>16

(* A sum over everything is the sum over the parts of their sums.            *)
LEMMA TotalOfParts ==
    ASSUME NEW f, Weights(f), NEW N, IsFiniteSet(DOMAIN N),
           \A k \in DOMAIN N : N[k] \subseteq DOMAIN f,
           \A j, k \in DOMAIN N : j # k => N[j] \cap N[k] = {}
    PROVE  Total([k \in DOMAIN N |-> Total([n \in N[k] |-> f[n]])])
             = Total([n \in UNION {N[k] : k \in DOMAIN N} |-> f[n]])
<1> DEFINE K == DOMAIN N
           U == UNION {N[k] : k \in K}
           part(k) == [n \in N[k] |-> f[n]]
           D == [k \in K |-> Units(part(k))]
           all == [n \in U |-> f[n]]
<1>1. \A k \in K : Weights(part(k))
  <2> SUFFICES ASSUME NEW k \in K PROVE Weights(part(k))
    OBVIOUS
  <2>1. IsFiniteSet(N[k])
    BY FS_Subset DEF Weights
  <2> QED  BY <2>1 DEF Weights
<1>2. \A k \in K : \A u : u \in D[k] <=> \E n \in N[k] : \E i \in 1..f[n] : u = <<n, i>>
  <2> SUFFICES ASSUME NEW k \in K, NEW u
               PROVE  u \in Units(part(k)) <=> \E n \in N[k] : \E i \in 1..f[n] : u = <<n, i>>
    OBVIOUS
  <2>1. DOMAIN part(k) = N[k] /\ \A n \in N[k] : part(k)[n] = f[n]
    OBVIOUS
  <2> HIDE DEF part
  <2> QED  BY <2>1, UnitIs
<1>3. \A u : u \in Units(all) <=> \E n \in U : \E i \in 1..f[n] : u = <<n, i>>
  <2>1. DOMAIN all = U /\ \A n \in U : all[n] = f[n]
    OBVIOUS
  <2> HIDE DEF all
  <2> QED  BY <2>1, UnitIs
<1>4. \A k \in K : IsFiniteSet(D[k]) /\ Cardinality(D[k]) = Total(part(k))
    BY <1>1, UnitsAreFinite DEF Total
<1>5. DOMAIN D = K
    OBVIOUS
<1> HIDE DEF D
<1>6. \A j, k \in K : j # k => D[j] \cap D[k] = {}
    BY <1>2
<1>7. UNION {D[k] : k \in DOMAIN D} = Units(all)
    BY <1>2, <1>3, <1>5
<1>8. Cardinality(UNION {D[k] : k \in DOMAIN D}) = Total([k \in DOMAIN D |-> Cardinality(D[k])])
    BY <1>4, <1>5, <1>6, CountOfUnion
<1>9. [k \in DOMAIN D |-> Cardinality(D[k])] = [k \in K |-> Total(part(k))]
    BY <1>4, <1>5
<1> QED  BY <1>7, <1>8, <1>9 DEF Total

(* A sum is over as many as there are, whatever these are called.            *)
LEMMA TotalRenamed ==
    ASSUME NEW f, NEW g, Weights(f), NEW e \in Bijection(DOMAIN f, DOMAIN g),
           \A k \in DOMAIN f : g[e[k]] = f[k]
    PROVE  Total(f) = Total(g)
<1> DEFINE h == [u \in Units(f) |-> <<e[u[1]], u[2]>>]
<1>1. /\ \A k \in DOMAIN f : e[k] \in DOMAIN g
      /\ \A j, k \in DOMAIN f : e[j] = e[k] => j = k
      /\ \A m \in DOMAIN g : \E k \in DOMAIN f : e[k] = m
    BY DEF Bijection, Injection, Surjection, IsInjective
<1>2. \A u \in Units(f) : u = <<u[1], u[2]>> /\ u[1] \in DOMAIN f /\ u[2] \in 1..f[u[1]]
    BY UnitIs
<1>3. h \in [Units(f) -> Units(g)]
  <2> SUFFICES ASSUME NEW u \in Units(f) PROVE h[u] \in Units(g)
    OBVIOUS
  <2>1. u[1] \in DOMAIN f /\ u[2] \in 1..f[u[1]]
    BY <1>2
  <2>2. e[u[1]] \in DOMAIN g /\ u[2] \in 1..g[e[u[1]]]
    BY <1>1, <2>1
  <2> QED  BY <2>2, UnitIs
<1>4. \A u, w \in Units(f) : h[u] = h[w] => u = w
  <2> SUFFICES ASSUME NEW u \in Units(f), NEW w \in Units(f), h[u] = h[w] PROVE u = w
    OBVIOUS
  <2>1. e[u[1]] = e[w[1]] /\ u[2] = w[2]
    OBVIOUS
  <2> QED  BY <1>1, <1>2, <2>1
<1>5. \A v \in Units(g) : \E u \in Units(f) : h[u] = v
  <2> SUFFICES ASSUME NEW v \in Units(g) PROVE \E u \in Units(f) : h[u] = v
    OBVIOUS
  <2>0. PICK m \in DOMAIN g : \E j \in 1..g[m] : v = <<m, j>>
    BY UnitIs
  <2>1. PICK i \in 1..g[m] : v = <<m, i>>
    BY <2>0
  <2>2. PICK k \in DOMAIN f : e[k] = m
    BY <1>1
  <2>3. <<k, i>> \in Units(f)
    BY <2>1, <2>2, UnitIs
  <2> QED  BY <2>1, <2>2, <2>3
<1> HIDE DEF h
<1>6. h \in Bijection(Units(f), Units(g))
    BY <1>3, <1>4, <1>5 DEF Bijection, Injection, Surjection, IsInjective
<1>7. ExistsBijection(Units(f), Units(g))
    BY <1>6, Fun_ExistsBij
<1> QED  BY <1>7, UnitsAreFinite, FS_Bijection DEF Total

-------------------------------------------------------------------------------
(* What stops at a limit may stop there more than once.                     *)
LEMMA SaturatedSums ==
    ASSUME NEW f, Weights(f)
    PROVE  Saturated(Total([k \in DOMAIN f |-> Saturated(f[k])])) = Saturated(Total(f))
<1> DEFINE g == [k \in DOMAIN f |-> Saturated(f[k])]
<1> SUFFICES Saturated(Total(g)) = Saturated(Total(f))
    OBVIOUS
<1>1. MaxBytes \in Nat
    BY TalliesAssumption
<1>2. /\ DOMAIN g = DOMAIN f
      /\ \A k \in DOMAIN f : /\ f[k] \in Nat /\ g[k] \in Nat
                             /\ g[k] = IF f[k] > MaxBytes THEN MaxBytes ELSE f[k]
    BY <1>1 DEF Saturated, Weights
<1>3. Weights(g)
    BY <1>2 DEF Weights
<1>4. Total(f) \in Nat /\ Total(g) \in Nat
    BY <1>3, UnitsAreFinite
<1>5. CASE \E k \in DOMAIN f : f[k] > MaxBytes
  <2>1. PICK k \in DOMAIN f : f[k] > MaxBytes
    BY <1>5
  <2>2. f[k] <= Total(f) /\ g[k] <= Total(g)
    BY <1>2, <1>3, PartOfTotal
  <2> HIDE DEF g
  <2>3. Total(f) > MaxBytes /\ Total(g) >= MaxBytes
    BY <1>1, <1>2, <1>4, <2>1, <2>2
  <2> QED  BY <1>1, <1>4, <2>3 DEF Saturated
<1>6. CASE ~\E k \in DOMAIN f : f[k] > MaxBytes
  <2>1. Units(g) = Units(f)
    BY <1>2, <1>6 DEF Units
  <2> QED  BY <2>1 DEF Total
<1> QED  BY <1>5, <1>6

LEMMA SaturatedSum ==
    ASSUME NEW m \in Nat, NEW n \in Nat
    PROVE  /\ Saturated(n) \in Nat /\ Saturated(n) <= n
           /\ Saturated(Saturated(m) + n) = Saturated(m + n)
BY TalliesAssumption DEF Saturated

(* The sum over two parts is that of the parts.                              *)
LEMMA TotalOfTwo ==
    ASSUME NEW f, Weights(f), NEW A, NEW B, DOMAIN f = A \cup B, A \cap B = {}
    PROVE  Total(f) = Total([a \in A |-> f[a]]) + Total([b \in B |-> f[b]])
<1> DEFINE g == [a \in A |-> f[a]]
           h == [b \in B |-> f[b]]
<1> SUFFICES Total(f) = Total(g) + Total(h)
    OBVIOUS
<1>1. IsFiniteSet(A) /\ IsFiniteSet(B)
    BY FS_Subset DEF Weights
<1>2. DOMAIN g = A /\ DOMAIN h = B /\ \A a \in A : g[a] = f[a] /\ \A b \in B : h[b] = f[b]
    OBVIOUS
<1>3. Weights(g) /\ Weights(h)
    BY <1>1 DEF Weights
<1>4. \A u : /\ u \in Units(f) <=> \E k \in A \cup B : \E i \in 1..f[k] : u = <<k, i>>
             /\ u \in Units(g) <=> \E k \in A : \E i \in 1..f[k] : u = <<k, i>>
             /\ u \in Units(h) <=> \E k \in B : \E i \in 1..f[k] : u = <<k, i>>
  <2>1. /\ DOMAIN g = A /\ \A a \in A : g[a] = f[a]
        /\ DOMAIN h = B /\ \A b \in B : h[b] = f[b]
    OBVIOUS
  <2> HIDE DEF g, h
  <2> QED  BY <2>1, UnitIs
<1> HIDE DEF g, h
<1>5. Units(f) = Units(g) \cup Units(h) /\ Units(g) \cap Units(h) = {}
  <2>1. Units(f) = Units(g) \cup Units(h)
    BY <1>4
  <2>2. Units(g) \cap Units(h) = {}
    BY <1>4
  <2> QED  BY <2>1, <2>2
<1>6. /\ IsFiniteSet(Units(g)) /\ IsFiniteSet(Units(h))
      /\ Total(f) \in Nat /\ Total(g) \in Nat /\ Total(h) \in Nat
    BY <1>3, UnitsAreFinite
<1>7. Cardinality(Units(g) \cup Units(h))
        = Cardinality(Units(g)) + Cardinality(Units(h)) - Cardinality(Units(g) \cap Units(h))
    BY <1>6, FS_Union
<1>8. Cardinality(Units(g) \cap Units(h)) = 0
    BY <1>5, FS_EmptySet
<1>9. Total(f) = Total(g) + Total(h) - 0
    BY <1>5, <1>7, <1>8, Zenon DEF Total
<1> QED  BY <1>6, <1>9

-------------------------------------------------------------------------------
(* What is counted exactly.                                                *)
Held(n) == Occupied(disk.inodeOf[n])
Inodes(N) == {disk.inodeOf[n] : n \in N}
Alone(N) == {n \in N : Cardinality(NamesOf(disk.inodeOf[n])) <= 1}
Shared(N) == {disk.inodeOf[n] : n \in N \ Alone(N)}
SeenOf(N, i) == {n \in N : disk.inodeOf[n] = i}
SaidOf(N, i) == [allocation |-> Occupied(i), links |-> Cardinality(NamesOf(i)),
                 seen |-> Cardinality(SeenOf(N, i))]

Exact(N, L, M) ==
    [measure |-> "allocated", logical |-> Saturated(Cardinality(N) + Cardinality(L)),
     unlinked |-> Saturated(Total([n \in Alone(N) |-> Held(n)])),
     linked |-> [i \in Shared(N) |-> SaidOf(N, i)],
     contents |-> {<<"file", n, 1, disk.inodeOf[n]>> : n \in N} \cup {<<"link", l>> : l \in L},
     markers |-> M, failures |-> 0]

LEMMA NamesAreFinite ==
    ASSUME NEW N, N \subseteq FileNames
    PROVE  /\ IsFiniteSet(N) /\ Cardinality(N) \in Nat
           /\ \A i : /\ IsFiniteSet(NamesOf(i)) /\ Cardinality(NamesOf(i)) \in Nat
                     /\ IsFiniteSet(SeenOf(N, i)) /\ Cardinality(SeenOf(N, i)) \in Nat
<1>1. \A S : S \subseteq FileNames => IsFiniteSet(S) /\ Cardinality(S) \in Nat
    BY SurveyAssumption, FS_Subset, FS_CardinalityType
<1>2. \A i : NamesOf(i) \subseteq FileNames /\ SeenOf(N, i) \subseteq FileNames
    BY DEF NamesOf, SeenOf
<1> QED  BY <1>1, <1>2

LEMMA HeldIsCounted ==
    ASSUME disk \in Disks
    PROVE  \A n \in FileNames : Held(n) \in Nat
BY SurveyAssumption, FS_CardinalityType DEF Held, Occupied

LEMMA CountedIs ==
    ASSUME NEW N, N \subseteq FileNames, NEW L, NEW M
    PROVE  Counted("allocated", Files(N), L, M, 0) = Exact(N, L, M)
<1> DEFINE F == Files(N)
           single == {n \in N : F[n].links <= 1}
           namesOf(i) == {n \in N \ single : F[n].inode = i}
           any(i) == F[CHOOSE n \in namesOf(i) : TRUE]
           linked == [i \in {F[n].inode : n \in N \ single} |->
                        [allocation |-> any(i).allocation, links |-> any(i).links,
                         seen |-> Cardinality(namesOf(i))]]
<1>1. /\ DOMAIN F = N
      /\ \A n \in N : /\ F[n].len = 1 /\ F[n].inode = disk.inodeOf[n] /\ F[n].allocation = Held(n)
                      /\ F[n].links = Cardinality(NamesOf(disk.inodeOf[n]))
    BY DEF Files, FileOf, Held
<1>2. Counted("allocated", F, L, M, 0) =
        [measure |-> "allocated",
         logical |-> Saturated(Total([n \in DOMAIN F |-> F[n].len]) + Cardinality(L)),
         unlinked |-> Saturated(Total([n \in single |-> F[n].allocation])),
         linked |-> linked, contents |-> ContentsOf(F, L), markers |-> M, failures |-> 0]
    BY <1>1 DEF Counted
<1> HIDE DEF F
<1>3. [n \in DOMAIN F |-> F[n].len] = [n \in N |-> 1]
    BY <1>1
<1>4. Total([n \in DOMAIN F |-> F[n].len]) = Cardinality(N)
    BY <1>3, TotalOfOnes, NamesAreFinite
<1>5. single = Alone(N)
    BY <1>1 DEF Alone
<1>6. [n \in single |-> F[n].allocation] = [n \in Alone(N) |-> Held(n)]
    BY <1>1, <1>5
<1>7. ContentsOf(F, L)
        = {<<"file", n, 1, disk.inodeOf[n]>> : n \in N} \cup {<<"link", l>> : l \in L}
    BY <1>1 DEF ContentsOf
<1>8. linked = [i \in Shared(N) |-> SaidOf(N, i)]
  <2>1. {F[n].inode : n \in N \ single} = Shared(N)
    BY <1>1, <1>5 DEF Shared
  <2>2. ASSUME NEW i \in Shared(N)
        PROVE  /\ any(i).allocation = Occupied(i) /\ any(i).links = Cardinality(NamesOf(i))
               /\ namesOf(i) = SeenOf(N, i)
    <3>1. namesOf(i) = SeenOf(N, i)
        BY <1>1, <1>5, <2>2 DEF SeenOf, Shared, Alone
    <3>2. \E n \in namesOf(i) : TRUE
        BY <1>1, <1>5, <2>2 DEF Shared
    <3>3. (CHOOSE n \in namesOf(i) : TRUE) \in namesOf(i)
        BY <3>2
    <3> DEFINE m == CHOOSE n \in namesOf(i) : TRUE
    <3>4. m \in N /\ F[m].inode = i
        BY <3>3
    <3> HIDE DEF m
    <3>5. F[m].allocation = Occupied(i) /\ F[m].links = Cardinality(NamesOf(i))
        BY <1>1, <3>4 DEF Held
    <3> QED  BY <3>1, <3>5 DEF m
  <2>3. ASSUME NEW i \in Shared(N)
        PROVE  [allocation |-> any(i).allocation, links |-> any(i).links,
                seen |-> Cardinality(namesOf(i))] = SaidOf(N, i)
    BY <2>2 DEF SaidOf
  <2> HIDE DEF any, namesOf, single
  <2> QED  BY <2>1, <2>3
<1> HIDE DEF linked, single
<1> QED  BY <1>2, <1>4, <1>6, <1>7, <1>8 DEF Exact, F

LEMMA MaxOfOne == ASSUME NEW x \in Int PROVE Sets!Max({x}) = x
BY DEF Sets!Max

(* An inode of which the same was said wherever it was seen.                *)
LEMMA OneInodeIs ==
    ASSUME NEW said, NEW k0 \in DOMAIN said, NEW a \in Int, NEW l \in Int,
           \A k \in DOMAIN said : said[k].allocation = a /\ said[k].links = l
    PROVE  OneInode(said) = [allocation |-> a, links |-> l,
                             seen |-> Total([k \in DOMAIN said |-> said[k].seen])]
<1>1. {said[k].allocation : k \in DOMAIN said} = {a} /\ {said[k].links : k \in DOMAIN said} = {l}
    OBVIOUS
<1>2. Sets!Max({a}) = a /\ Sets!Max({l}) = l
    BY MaxOfOne
<1> QED  BY <1>1, <1>2 DEF OneInode

(* What was counted of parts that lie apart is what is counted of all.       *)
Parts(t, N, L, M) ==
    /\ IsFiniteSet(DOMAIN t) /\ DOMAIN N = DOMAIN t /\ DOMAIN L = DOMAIN t /\ DOMAIN M = DOMAIN t
    /\ \A k \in DOMAIN t : /\ t[k] = Exact(N[k], L[k], M[k])
                           /\ N[k] \subseteq FileNames /\ L[k] \subseteq Paths
    /\ \A j, k \in DOMAIN t : j # k => N[j] \cap N[k] = {} /\ L[j] \cap L[k] = {}

LEMMA MergedLogical ==
    ASSUME NEW t, NEW N, NEW L, NEW M, Parts(t, N, L, M)
    PROVE  Saturated(Total([k \in DOMAIN t |-> t[k].logical]))
             = Saturated(Cardinality(UNION {N[k] : k \in DOMAIN t})
                           + Cardinality(UNION {L[k] : k \in DOMAIN t}))
<1> DEFINE K == DOMAIN t
           f == [k \in K |-> Cardinality(N[k])]
           g == [k \in K |-> Cardinality(L[k])]
           s == [k \in K |-> f[k] + g[k]]
<1>1. \A k \in K : IsFiniteSet(N[k]) /\ IsFiniteSet(L[k])
    BY SurveyAssumption, FS_Subset DEF Parts
<1>2. \A k \in K : f[k] \in Nat /\ g[k] \in Nat /\ s[k] \in Nat
    BY <1>1, FS_CardinalityType
<1>3. Weights(f) /\ Weights(g) /\ Weights(s) /\ DOMAIN f = K /\ DOMAIN g = K /\ DOMAIN s = K
    BY <1>2 DEF Weights, Parts
<1>4. [k \in K |-> t[k].logical] = [k \in DOMAIN s |-> Saturated(s[k])]
  <2>1. \A k \in K : t[k].logical = Saturated(s[k])
    <3> SUFFICES ASSUME NEW k \in K
                 PROVE  t[k].logical = Saturated(Cardinality(N[k]) + Cardinality(L[k]))
        OBVIOUS
    <3>1. t[k] = Exact(N[k], L[k], M[k])
        BY DEF Parts
    <3> QED  BY <3>1 DEF Exact
  <2> HIDE DEF s
  <2> QED  BY <1>3, <2>1
<1>5. Total(f) = Cardinality(UNION {N[k] : k \in K})
  <2>1. DOMAIN N = K /\ \A j, k \in K : j # k => N[j] \cap N[k] = {}
    BY DEF Parts
  <2>2. IsFiniteSet(K)
    BY DEF Parts
  <2> QED  BY <1>1, <2>1, <2>2, CountOfUnion
<1>6. Total(g) = Cardinality(UNION {L[k] : k \in K})
  <2>1. DOMAIN L = K /\ \A j, k \in K : j # k => L[j] \cap L[k] = {}
    BY DEF Parts
  <2>2. IsFiniteSet(K)
    BY DEF Parts
  <2> QED  BY <1>1, <2>1, <2>2, CountOfUnion
<1>7. Total(s) = Total(f) + Total(g)
  <2> HIDE DEF f, g, K
  <2>1. s = [k \in DOMAIN f |-> f[k] + g[k]]
    BY <1>3
  <2> HIDE DEF s
  <2>2. Total([k \in DOMAIN f |-> f[k] + g[k]]) = Total(f) + Total(g)
    BY <1>3, TotalOfSums
  <2> QED  BY <2>1, <2>2
<1>8. Saturated(Total([k \in DOMAIN s |-> Saturated(s[k])])) = Saturated(Total(s))
  <2> HIDE DEF s
  <2> QED  BY <1>3, SaturatedSums
<1> HIDE DEF f, g, s
<1> QED  BY <1>4, <1>5, <1>6, <1>7, <1>8

LEMMA MergedUnlinked ==
    ASSUME disk \in Disks, NEW t, NEW N, NEW L, NEW M, Parts(t, N, L, M)
    PROVE  Saturated(Total([k \in DOMAIN t |-> t[k].unlinked]))
             = Saturated(Total([n \in Alone(UNION {N[k] : k \in DOMAIN t}) |-> Held(n)]))
<1> DEFINE K == DOMAIN t
           U == UNION {N[k] : k \in K}
           H == [n \in FileNames |-> Held(n)]
           A == [k \in K |-> Alone(N[k])]
           s == [k \in K |-> Total([n \in A[k] |-> H[n]])]
<1>1. Weights(H) /\ DOMAIN H = FileNames
    BY HeldIsCounted, SurveyAssumption DEF Weights
<1>2. \A k \in K : N[k] \subseteq FileNames /\ A[k] = Alone(N[k]) /\ A[k] \subseteq N[k]
    BY DEF Parts, Alone
<1>3. \A k \in K : [n \in A[k] |-> H[n]] = [n \in Alone(N[k]) |-> Held(n)]
    BY <1>2
<1>4. \A k \in K : Weights([n \in A[k] |-> H[n]])
  <2> SUFFICES ASSUME NEW k \in K PROVE Weights([n \in A[k] |-> H[n]])
    OBVIOUS
  <2> HIDE DEF A, H
  <2>1. IsFiniteSet(A[k]) /\ A[k] \subseteq FileNames
    BY <1>2, SurveyAssumption, FS_Subset
  <2> QED  BY <1>1, <2>1 DEF Weights
<1>5. \A k \in K : s[k] \in Nat
    BY <1>4, UnitsAreFinite
<1>6. IsFiniteSet(K) /\ \A j, k \in K : j # k => N[j] \cap N[k] = {}
    BY DEF Parts
<1>7. Weights(s) /\ DOMAIN s = K
    BY <1>5, <1>6 DEF Weights
<1>8. [k \in K |-> t[k].unlinked] = [k \in DOMAIN s |-> Saturated(s[k])]
  <2>1. \A k \in K : t[k].unlinked = Saturated(s[k])
    <3> SUFFICES ASSUME NEW k \in K PROVE t[k].unlinked = Saturated(Total([n \in A[k] |-> H[n]]))
        OBVIOUS
    <3>1. t[k] = Exact(N[k], L[k], M[k])
        BY DEF Parts
    <3>2. t[k].unlinked = Saturated(Total([n \in Alone(N[k]) |-> Held(n)]))
        BY <3>1 DEF Exact
    <3> HIDE DEF A, H, K
    <3> QED  BY <3>2, <1>3
  <2> HIDE DEF s
  <2> QED  BY <1>7, <2>1
<1>9. Saturated(Total([k \in DOMAIN s |-> Saturated(s[k])])) = Saturated(Total(s))
  <2> HIDE DEF s
  <2> QED  BY <1>7, SaturatedSums
<1>10. UNION {A[k] : k \in K} = Alone(U) /\ DOMAIN A = K
    BY DEF Alone
<1>11. Total(s) = Total([n \in UNION {A[k] : k \in K} |-> H[n]])
  <2>1. /\ DOMAIN A = K /\ \A k \in K : A[k] \subseteq DOMAIN H
        /\ \A j, k \in K : j # k => A[j] \cap A[k] = {}
    BY <1>1, <1>2, <1>6
  <2> HIDE DEF A, H, K
  <2>2. Total([k \in DOMAIN A |-> Total([n \in A[k] |-> H[n]])])
          = Total([n \in UNION {A[k] : k \in DOMAIN A} |-> H[n]])
    BY <1>1, <1>6, <2>1, TotalOfParts
  <2> QED  BY <2>1, <2>2
<1>12. [n \in UNION {A[k] : k \in K} |-> H[n]] = [n \in Alone(U) |-> Held(n)]
  <2>1. Alone(U) \subseteq FileNames
    BY <1>2 DEF Alone
  <2> QED  BY <1>10, <2>1
<1> HIDE DEF A, H, s
<1> QED  BY <1>8, <1>9, <1>11, <1>12

LEMMA MergedLinked ==
    ASSUME disk \in Disks, NEW t, NEW N, NEW L, NEW M, Parts(t, N, L, M)
    PROVE  [i \in UNION {DOMAIN t[k].linked : k \in DOMAIN t} |->
              OneInode([k \in {m \in DOMAIN t : i \in DOMAIN t[m].linked} |-> t[k].linked[i]])]
             = [i \in Shared(UNION {N[k] : k \in DOMAIN t}) |->
                  SaidOf(UNION {N[k] : k \in DOMAIN t}, i)]
<1> DEFINE K == DOMAIN t
           U == UNION {N[k] : k \in K}
           within(i) == {m \in K : i \in DOMAIN t[m].linked}
           said(i) == [k \in within(i) |-> t[k].linked[i]]
<1>1. \A k \in K : N[k] \subseteq FileNames
    BY DEF Parts
<1>2. \A k \in K : t[k].linked = [i \in Shared(N[k]) |-> SaidOf(N[k], i)]
  <2> SUFFICES ASSUME NEW k \in K PROVE t[k].linked = [i \in Shared(N[k]) |-> SaidOf(N[k], i)]
    OBVIOUS
  <2>1. t[k] = Exact(N[k], L[k], M[k])
    BY DEF Parts
  <2> QED  BY <2>1 DEF Exact
<1>3. \A k \in K : DOMAIN t[k].linked = Shared(N[k])
    BY <1>2
<1>4. UNION {DOMAIN t[k].linked : k \in K} = Shared(U)
  <2>1. UNION {Shared(N[k]) : k \in K} = Shared(U)
    BY DEF Shared, Alone
  <2> QED  BY <1>3, <2>1
<1>5. ASSUME NEW i \in Shared(U)
      PROVE  OneInode(said(i)) = SaidOf(U, i)
  <2> DEFINE W == within(i)
             a == Occupied(i)
             l == Cardinality(NamesOf(i))
             D == [k \in W |-> SeenOf(N[k], i)]
  <2>1. W = {k \in K : i \in Shared(N[k])} /\ W \subseteq K
    BY <1>3
  <2>2. \A k \in W : t[k].linked[i] = SaidOf(N[k], i)
    BY <1>2, <2>1
  <2>3. a \in Int /\ l \in Int
    <3>1. PICK n \in FileNames : i = disk.inodeOf[n]
        BY <1>1, <1>5 DEF Shared
    <3>2. Held(n) \in Nat
        BY HeldIsCounted
    <3>3. Cardinality(NamesOf(i)) \in Nat
        BY NamesAreFinite
    <3> QED  BY <3>1, <3>2, <3>3 DEF Held
  <2>4. \A k \in W : /\ said(i)[k].allocation = a /\ said(i)[k].links = l
                     /\ said(i)[k].seen = Cardinality(D[k])
    <3> SUFFICES ASSUME NEW k \in W
                 PROVE  /\ said(i)[k].allocation = a /\ said(i)[k].links = l
                        /\ said(i)[k].seen = Cardinality(SeenOf(N[k], i))
        OBVIOUS
    <3>1. said(i)[k] = t[k].linked[i]
        OBVIOUS
    <3>2. said(i)[k] = SaidOf(N[k], i)
        BY <2>2, <3>1
    <3> HIDE DEF said, W
    <3> QED  BY <3>2 DEF SaidOf
  <2>5. \E k \in W : TRUE
    BY <1>5, <2>1 DEF Shared, Alone
  <2>6. DOMAIN said(i) = W
    OBVIOUS
  <2>7. UNION {D[k] : k \in W} = SeenOf(U, i)
    <3>1. SeenOf(U, i) = UNION {SeenOf(N[k], i) : k \in K}
        BY DEF SeenOf
    <3>2. \A k \in K : SeenOf(N[k], i) # {} => k \in W
        BY <1>5, <2>1 DEF SeenOf, Shared, Alone
    <3>3. \A k \in W : D[k] = SeenOf(N[k], i)
        OBVIOUS
    <3> HIDE DEF D, W
    <3> QED  BY <2>1, <3>1, <3>2, <3>3
  <2>8. Cardinality(UNION {D[k] : k \in W}) = Total([k \in W |-> Cardinality(D[k])])
    <3>1. IsFiniteSet(W)
        BY <2>1, FS_Subset DEF Parts
    <3>2. \A k \in W : IsFiniteSet(D[k])
        BY <1>1, <2>1, NamesAreFinite
    <3>3. \A j, k \in W : j # k => D[j] \cap D[k] = {}
        BY <2>1 DEF Parts, SeenOf
    <3>4. DOMAIN D = W
        OBVIOUS
    <3> HIDE DEF D, W
    <3> QED  BY <3>1, <3>2, <3>3, <3>4, CountOfUnion
  <2>9. [k \in W |-> said(i)[k].seen] = [k \in W |-> Cardinality(D[k])]
    BY <2>4
  <2> HIDE DEF W, D, a, l
  <2>10. OneInode(said(i)) = [allocation |-> a, links |-> l,
                              seen |-> Total([k \in W |-> said(i)[k].seen])]
    <3> HIDE DEF said
    <3> QED  BY <2>3, <2>4, <2>5, <2>6, OneInodeIs
  <2> HIDE DEF said
  <2>11. Total([k \in W |-> said(i)[k].seen]) = Cardinality(SeenOf(U, i))
    BY <2>7, <2>8, <2>9
  <2> QED  BY <2>10, <2>11 DEF SaidOf, a, l
<1> HIDE DEF U
<1>6. [i \in Shared(U) |-> OneInode(said(i))] = [i \in Shared(U) |-> SaidOf(U, i)]
    BY <1>5
<1> QED  BY <1>4, <1>6 DEF U

LEMMA ExactMerged ==
    ASSUME disk \in Disks, NEW t, NEW N, NEW L, NEW M, Parts(t, N, L, M)
    PROVE  MergedAll("allocated", t)
             = Exact(UNION {N[k] : k \in DOMAIN t}, UNION {L[k] : k \in DOMAIN t},
                     UNION {M[k] : k \in DOMAIN t})
<1> DEFINE K == DOMAIN t
           U == UNION {N[k] : k \in K}
           V == UNION {L[k] : k \in K}
           X == UNION {M[k] : k \in K}
<1>1. \A k \in K : /\ t[k].measure = "allocated" /\ t[k].failures = 0 /\ t[k].markers = M[k]
                   /\ t[k].contents = {<<"file", n, 1, disk.inodeOf[n]>> : n \in N[k]}
                                        \cup {<<"link", l>> : l \in L[k]}
  <2> SUFFICES ASSUME NEW k \in K
               PROVE  /\ t[k].measure = "allocated" /\ t[k].failures = 0 /\ t[k].markers = M[k]
                      /\ t[k].contents = {<<"file", n, 1, disk.inodeOf[n]>> : n \in N[k]}
                                        \cup {<<"link", l>> : l \in L[k]}
    OBVIOUS
  <2>1. t[k] = Exact(N[k], L[k], M[k])
    BY DEF Parts
  <2> QED  BY <2>1 DEF Exact
<1>2. UNION {t[k].contents : k \in K}
        = {<<"file", n, 1, disk.inodeOf[n]>> : n \in U} \cup {<<"link", l>> : l \in V}
  <2>1. UNION {t[k].contents : k \in K}
          = UNION {{<<"file", n, 1, disk.inodeOf[n]>> : n \in N[k]}
                                        \cup {<<"link", l>> : l \in L[k]} : k \in K}
    BY <1>1
  <2> QED  BY <2>1
<1>3. UNION {t[k].markers : k \in K} = X
    BY <1>1
<1>4. Total([k \in K |-> t[k].failures]) = 0
  <2>1. Weights([k \in K |-> t[k].failures])
    BY <1>1 DEF Weights, Parts
  <2>2. \A k \in DOMAIN [j \in K |-> t[j].failures] : [j \in K |-> t[j].failures][k] = 0
    BY <1>1
  <2> QED  BY <2>1, <2>2, TotalIsNothing
<1>5. Saturated(Total([k \in K |-> t[k].logical])) = Saturated(Cardinality(U) + Cardinality(V))
    BY MergedLogical
<1>6. Saturated(Total([k \in K |-> t[k].unlinked]))
        = Saturated(Total([n \in Alone(U) |-> Held(n)]))
    BY MergedUnlinked
<1>7. [i \in UNION {DOMAIN t[k].linked : k \in K} |->
         OneInode([k \in {m \in K : i \in DOMAIN t[m].linked} |-> t[k].linked[i]])]
        = [i \in Shared(U) |-> SaidOf(U, i)]
    BY MergedLinked
<1>8. MergedAll("allocated", t) =
        [measure |-> "allocated",
         logical |-> Saturated(Total([k \in K |-> t[k].logical])),
         unlinked |-> Saturated(Total([k \in K |-> t[k].unlinked])),
         linked |-> [i \in UNION {DOMAIN t[k].linked : k \in K} |->
           OneInode([k \in {m \in K : i \in DOMAIN t[m].linked} |-> t[k].linked[i]])],
         contents |-> UNION {t[k].contents : k \in K}, markers |-> UNION {t[k].markers : k \in K},
         failures |-> Total([k \in K |-> t[k].failures])]
    BY <1>1 DEF MergedAll
<1> HIDE DEF K, U, V, X
<1>9. MergedAll("allocated", t) = Exact(U, V, X)
    BY <1>2, <1>3, <1>4, <1>5, <1>6, <1>7, <1>8, Zenon DEF Exact
<1> QED  BY <1>9 DEF K, U, V, X

-------------------------------------------------------------------------------
(* What is used, and what goes when it goes.                                *)
LEMMA InodesAreFinite ==
    ASSUME disk \in Disks, NEW I, I \subseteq Inodes(FileNames)
    PROVE  /\ IsFiniteSet(I) /\ \A i \in I : Occupied(i) \in Nat
           /\ Weights([i \in I |-> Occupied(i)])
           /\ BytesOf(I) \in Nat
<1> DEFINE f == [n \in FileNames |-> disk.inodeOf[n]]
<1>1. {f[n] : n \in DOMAIN f} = Inodes(FileNames) /\ DOMAIN f = FileNames
    BY DEF Inodes
<1> HIDE DEF f
<1>2. IsFiniteSet(Inodes(FileNames))
    BY <1>1, SurveyAssumption, ImageIsFinite
<1>3. IsFiniteSet(I)
    BY <1>2, FS_Subset
<1>4. \A i \in I : Occupied(i) \in Nat
    BY HeldIsCounted DEF Inodes, Held
<1>5. Weights([i \in I |-> Occupied(i)])
    BY <1>3, <1>4 DEF Weights
<1> QED  BY <1>3, <1>4, <1>5, UnitsAreFinite DEF BytesOf

LEMMA BytesOfTwo ==
    ASSUME disk \in Disks, NEW I, NEW J, I \cup J \subseteq Inodes(FileNames), I \cap J = {}
    PROVE  BytesOf(I \cup J) = BytesOf(I) + BytesOf(J)
<1> DEFINE f == [i \in I \cup J |-> Occupied(i)]
<1>1. Weights(f) /\ DOMAIN f = I \cup J
    BY InodesAreFinite
<1>2. [i \in I |-> f[i]] = [i \in I |-> Occupied(i)]
    OBVIOUS
<1>3. [i \in J |-> f[i]] = [i \in J |-> Occupied(i)]
    OBVIOUS
<1>4. Total(f) = BytesOf(I \cup J)
    BY DEF BytesOf
<1> HIDE DEF f
<1>5. Total(f) = Total([i \in I |-> f[i]]) + Total([i \in J |-> f[i]])
    BY <1>1, TotalOfTwo
<1> QED  BY <1>2, <1>3, <1>4, <1>5 DEF BytesOf

LEMMA BytesGrow ==
    ASSUME disk \in Disks, NEW J, J \subseteq Inodes(FileNames), NEW I, I \subseteq J
    PROVE  BytesOf(I) <= BytesOf(J)
<1> DEFINE f == [i \in I |-> Occupied(i)]
           g == [i \in J |-> Occupied(i)]
<1>1. Weights(f) /\ Weights(g)
    BY InodesAreFinite
<1>2. DOMAIN f \subseteq DOMAIN g /\ \A i \in DOMAIN f : f[i] = g[i] /\ f[i] \in Nat
    BY <1>1 DEF Weights
<1>3. Total(f) <= Total(g)
  <2> HIDE DEF f, g
  <2>1. \A i \in DOMAIN f : f[i] <= g[i]
    BY <1>2
  <2> QED  BY <1>1, <1>2, <2>1, TotalGrows
<1> QED  BY <1>3 DEF BytesOf

LEMMA BytesOfAlone ==
    ASSUME disk \in Disks, NEW N, N \subseteq FileNames
    PROVE  Total([n \in Alone(N) |-> Held(n)]) = BytesOf(Inodes(Alone(N)))
<1> DEFINE A == Alone(N)
           f == [n \in A |-> Held(n)]
           g == [i \in Inodes(A) |-> Occupied(i)]
           e == [n \in A |-> disk.inodeOf[n]]
<1>1. A \subseteq FileNames /\ Inodes(A) \subseteq Inodes(FileNames)
    BY DEF Alone, Inodes
<1>2. IsFiniteSet(A) /\ \A n \in A : Held(n) \in Nat
    BY <1>1, NamesAreFinite, HeldIsCounted
<1>3. Weights(f)
    BY <1>2 DEF Weights
<1>4. ASSUME NEW m \in A, NEW n \in A, disk.inodeOf[m] = disk.inodeOf[n] PROVE m = n
  <2> DEFINE S == NamesOf(disk.inodeOf[m])
  <2>1. m \in S /\ n \in S
    BY <1>1, <1>4 DEF NamesOf
  <2>2. IsFiniteSet(S) /\ Cardinality(S) \in Nat /\ Cardinality(S) <= 1
    BY <1>4, NamesAreFinite DEF Alone
  <2> HIDE DEF S
  <2>3. Cardinality(S) # 0
    BY <2>1, <2>2, FS_EmptySet
  <2>4. Cardinality(S) = 1
    BY <2>2, <2>3
  <2>5. \E x : S = {x}
    BY <2>2, <2>4, FS_Singleton
  <2> QED  BY <2>1, <2>5
<1>5. e \in [DOMAIN f -> DOMAIN g] /\ \A i \in DOMAIN g : \E n \in DOMAIN f : e[n] = i
    BY DEF Inodes
<1>6. \A m, n \in DOMAIN f : e[m] = e[n] => m = n
    BY <1>4
<1>7. \A n \in DOMAIN f : g[e[n]] = f[n]
    BY DEF Held, Inodes
<1> SUFFICES Total(f) = Total(g)
    BY DEF BytesOf
<1> HIDE DEF e, f, g
<1>8. e \in Bijection(DOMAIN f, DOMAIN g)
    BY <1>5, <1>6 DEF Bijection, Injection, Surjection, IsInjective
<1> QED  BY <1>3, <1>7, <1>8, TotalRenamed

LEMMA UsageOfExact ==
    ASSUME disk \in Disks, NEW N, N \subseteq FileNames, NEW L, NEW M
    PROVE  UsageOf(Exact(N, L, M)) =
             [logical |-> Saturated(Cardinality(N) + Cardinality(L)), failures |-> 0,
              allocation |->
                [state |-> "measured", allocated |-> Saturated(BytesOf(Inodes(N))),
                 reclaimable |-> Saturated(BytesOf({i \in Inodes(N) : NamesOf(i) \subseteq N}))]]
<1> DEFINE A == Inodes(Alone(N))
           S == Shared(N)
           linked == [i \in S |-> SaidOf(N, i)]
           W == {i \in S : NamesOf(i) \subseteq N}
           R == {i \in Inodes(N) : NamesOf(i) \subseteq N}
<1>1. /\ Inodes(N) = A \cup S /\ A \cap S = {} /\ A \cup S \subseteq Inodes(FileNames)
      /\ W \subseteq S
    BY DEF Inodes, Shared, Alone
<1>2. R = A \cup W
  <2>1. ASSUME NEW i \in A PROVE NamesOf(i) \subseteq N
    <3>1. PICK n \in Alone(N) : i = disk.inodeOf[n]
        BY <2>1 DEF Inodes
    <3>2. n \in NamesOf(i) /\ n \in N
        BY <3>1 DEF Alone, NamesOf
    <3>3. IsFiniteSet(NamesOf(i)) /\ Cardinality(NamesOf(i)) \in Nat /\ Cardinality(NamesOf(i)) <= 1
        BY <3>1, NamesAreFinite DEF Alone
    <3>4. Cardinality(NamesOf(i)) # 0
        BY <3>2, <3>3, FS_EmptySet
    <3>5. Cardinality(NamesOf(i)) = 1
        BY <3>3, <3>4
    <3>6. \E x : NamesOf(i) = {x}
        BY <3>3, <3>5, FS_Singleton
    <3> QED  BY <3>2, <3>6
  <2> HIDE DEF A, S
  <2> QED  BY <1>1, <2>1
<1>3. \A i \in S : linked[i].allocation = Occupied(i)
    BY DEF SaidOf
<1>4. {i \in S : linked[i].seen >= linked[i].links} = W
  <2> SUFFICES ASSUME NEW i \in S
               PROVE  Cardinality(SeenOf(N, i)) >= Cardinality(NamesOf(i)) <=> NamesOf(i) \subseteq N
    BY DEF SaidOf
  <2>1. SeenOf(N, i) \subseteq NamesOf(i) /\ (SeenOf(N, i) = NamesOf(i) <=> NamesOf(i) \subseteq N)
    BY DEF SeenOf, NamesOf
  <2>2. /\ IsFiniteSet(NamesOf(i)) /\ Cardinality(NamesOf(i)) \in Nat
        /\ Cardinality(SeenOf(N, i)) \in Nat
    BY NamesAreFinite
  <2>3. /\ Cardinality(SeenOf(N, i)) <= Cardinality(NamesOf(i))
        /\ Cardinality(NamesOf(i)) = Cardinality(SeenOf(N, i)) => NamesOf(i) = SeenOf(N, i)
    BY <2>1, <2>2, FS_Subset
  <2>4. CASE Cardinality(SeenOf(N, i)) >= Cardinality(NamesOf(i))
    BY <2>1, <2>2, <2>3, <2>4
  <2>5. CASE NamesOf(i) \subseteq N
    BY <2>1, <2>2, <2>5
  <2> QED  BY <2>4, <2>5
<1>5. DOMAIN linked = S
    OBVIOUS
<1> HIDE DEF linked
<1>6. ASSUME NEW I, I \subseteq S PROVE AllocationOf(linked, I) = BytesOf(I)
  <2>1. [i \in I |-> linked[i].allocation] = [i \in I |-> Occupied(i)]
    BY <1>3, <1>6
  <2> QED  BY <2>1 DEF AllocationOf, BytesOf
<1> DEFINE held == Total([n \in Alone(N) |-> Held(n)])
<1>7. held = BytesOf(A)
    BY BytesOfAlone
<1>8. BytesOf(A) \in Nat /\ BytesOf(S) \in Nat /\ BytesOf(W) \in Nat
    BY <1>1, InodesAreFinite
<1>9. BytesOf(Inodes(N)) = BytesOf(A) + BytesOf(S)
    BY <1>1, BytesOfTwo
<1>10. BytesOf(R) = BytesOf(A) + BytesOf(W)
  <2>1. A \cup W \subseteq Inodes(FileNames) /\ A \cap W = {}
    BY <1>1
  <2> HIDE DEF A, W, R
  <2> QED  BY <1>2, <2>1, BytesOfTwo
<1> DEFINE t == Exact(N, L, M)
<1>11. /\ t.linked = linked /\ t.unlinked = Saturated(held) /\ t.measure = "allocated"
       /\ t.logical = Saturated(Cardinality(N) + Cardinality(L)) /\ t.failures = 0
    BY DEF Exact, linked
<1> HIDE DEF t, held, A, S, W, R
<1>12. Saturated(t.unlinked + AllocationOf(t.linked, DOMAIN t.linked)) = Saturated(BytesOf(Inodes(N)))
  <2>1. AllocationOf(t.linked, DOMAIN t.linked) = BytesOf(S)
    BY <1>5, <1>6, <1>11
  <2>2. Saturated(Saturated(BytesOf(A)) + BytesOf(S)) = Saturated(BytesOf(A) + BytesOf(S))
    BY <1>8, SaturatedSum
  <2> QED  BY <1>7, <1>9, <1>11, <2>1, <2>2
<1>13. Saturated(t.unlinked + AllocationOf(t.linked, W)) = Saturated(BytesOf(R))
  <2>1. AllocationOf(t.linked, W) = BytesOf(W)
    BY <1>1, <1>6, <1>11
  <2>2. Saturated(Saturated(BytesOf(A)) + BytesOf(W)) = Saturated(BytesOf(A) + BytesOf(W))
    BY <1>8, SaturatedSum
  <2> QED  BY <1>7, <1>10, <1>11, <2>1, <2>2
<1>14. {i \in DOMAIN t.linked : t.linked[i].seen >= t.linked[i].links} = W
    BY <1>4, <1>5, <1>11
<1>15. UsageOf(t) =
         [logical |-> t.logical, failures |-> t.failures,
          allocation |->
            [state |-> "measured",
             allocated |-> Saturated(t.unlinked + AllocationOf(t.linked, DOMAIN t.linked)),
             reclaimable |-> Saturated(t.unlinked + AllocationOf(t.linked, W))]]
    BY <1>11, <1>14 DEF UsageOf
<1> QED  BY <1>11, <1>12, <1>13, <1>15 DEF t, R

(* What only names below some directories were counted of is freed with      *)
(* these.                                                                   *)
BlocksOf(I) == UNION {disk.blocksOf[i] : i \in I}
PairsOf(I) == UNION {{i} \X disk.blocksOf[i] : i \in I}

LEMMA BlocksAreFinite ==
    ASSUME disk \in Disks, NEW I, I \subseteq Inodes(FileNames)
    PROVE  /\ \A i \in I : IsFiniteSet(disk.blocksOf[i])
           /\ IsFiniteSet(BlocksOf(I)) /\ IsFiniteSet(PairsOf(I))
<1>1. \A i \in I : IsFiniteSet(disk.blocksOf[i])
    BY SurveyAssumption DEF Inodes
<1>2. IsFiniteSet(I)
    BY InodesAreFinite
<1> DEFINE blocks == [i \in I |-> disk.blocksOf[i]]
           pairs == [i \in I |-> {i} \X disk.blocksOf[i]]
<1>3. \A S \in {blocks[i] : i \in DOMAIN blocks} : IsFiniteSet(S)
    BY <1>1
<1>4. \A S \in {pairs[i] : i \in DOMAIN pairs} : IsFiniteSet(S)
  <2>1. \A i \in I : IsFiniteSet({i})
    BY FS_Singleton
  <2>2. \A i \in I : IsFiniteSet({i} \X disk.blocksOf[i])
    BY <1>1, <2>1, FS_Product
  <2> QED  BY <2>2
<1>5. /\ BlocksOf(I) = UNION {blocks[i] : i \in DOMAIN blocks}
      /\ PairsOf(I) = UNION {pairs[i] : i \in DOMAIN pairs}
      /\ DOMAIN blocks = I /\ DOMAIN pairs = I
    BY DEF BlocksOf, PairsOf
<1> HIDE DEF blocks, pairs
<1>6. IsFiniteSet({blocks[i] : i \in DOMAIN blocks}) /\ IsFiniteSet({pairs[i] : i \in DOMAIN pairs})
    BY <1>2, <1>5, ImageIsFinite
<1> QED  BY <1>1, <1>3, <1>4, <1>5, <1>6, FS_UNION

(* Inodes hold no more blocks than there are pairs of one and a block.      *)
LEMMA BytesArePairs ==
    ASSUME disk \in Disks, NEW I, I \subseteq Inodes(FileNames)
    PROVE  BytesOf(I) <= Cardinality(PairsOf(I))
<1> DEFINE f == [i \in I |-> Occupied(i)]
           g == [i \in I |-> CHOOSE e : e \in Bijection(1..f[i], disk.blocksOf[i])]
           h == [u \in Units(f) |-> <<u[1], g[u[1]][u[2]]>>]
<1>1. ASSUME NEW i \in I PROVE g[i] \in Bijection(1..f[i], disk.blocksOf[i])
  <2>1. IsFiniteSet(disk.blocksOf[i])
    BY BlocksAreFinite
  <2>2. \E e : e \in Bijection(1..Cardinality(disk.blocksOf[i]), disk.blocksOf[i])
    BY <2>1, FS_CardinalityType, FS_NatBijection, Fun_ExistsBijSymmetric DEF ExistsBijection
  <2> QED  BY <2>2 DEF Occupied
<1>2. \A u : u \in Units(f) <=> \E i \in I : \E k \in 1..f[i] : u = <<i, k>>
    BY DEF Units
<1>3. \A p : p \in PairsOf(I) <=> \E i \in I : \E b \in disk.blocksOf[i] : p = <<i, b>>
    BY DEF PairsOf
<1>4. \A i \in I : /\ \A k \in 1..f[i] : g[i][k] \in disk.blocksOf[i]
                   /\ \A k, l \in 1..f[i] : g[i][k] = g[i][l] => k = l
    BY <1>1 DEF Bijection, Injection, IsInjective
<1> HIDE DEF f, g
<1>5. ASSUME NEW u \in Units(f) PROVE h[u] \in PairsOf(I)
    BY <1>2, <1>3, <1>4, <1>5
<1>6. ASSUME NEW u \in Units(f), NEW v \in Units(f), h[u] = h[v] PROVE u = v
    BY <1>2, <1>4, <1>6
<1>7. h \in Injection(Units(f), PairsOf(I))
  <2>1. h \in [Units(f) -> PairsOf(I)] /\ \A u, v \in Units(f) : h[u] = h[v] => u = v
    BY <1>5, <1>6
  <2> HIDE DEF h
  <2> QED  BY <2>1 DEF Injection, IsInjective
<1>8. Cardinality(Units(f)) <= Cardinality(PairsOf(I))
    BY <1>7, BlocksAreFinite, FS_Injection
<1> QED  BY <1>8 DEF f, BytesOf, Total

LEMMA UnnamedAreInodes ==
    /\ AllInodes = Inodes(FileNames)
    /\ \A gone : Unnamed(gone) \subseteq Inodes(FileNames)
BY DEF AllInodes, Inodes, Unnamed

LEMMA FreedIsNat ==
    ASSUME disk \in Disks, NEW gone
    PROVE  Freed(gone) \in Nat /\ SharedBy(gone) \in Nat
<1> DEFINE I == Unnamed(gone)
           J == AllInodes \ I
           Q == UNION {{i} \X BlocksShared(i) : i \in I}
<1>1. IsFiniteSet(BlocksOf(I)) /\ IsFiniteSet(PairsOf(I))
    BY UnnamedAreInodes, BlocksAreFinite
<1>2. Freed(gone) = Cardinality(BlocksOf(I) \ BlocksOf(J)) /\ SharedBy(gone) = Cardinality(Q)
    BY DEF Freed, SharedBy, BlocksOf
<1>3. Q \subseteq PairsOf(I)
    BY DEF PairsOf, BlocksShared
<1> HIDE DEF I, J, Q
<1>4. IsFiniteSet(BlocksOf(I) \ BlocksOf(J)) /\ IsFiniteSet(Q)
    BY <1>1, <1>3, FS_Subset
<1> QED  BY <1>2, <1>4, FS_CardinalityType

(* Inodes hold the blocks that go with them and those that they share.      *)
LEMMA FreedButShared ==
    ASSUME disk \in Disks, NEW gone
    PROVE  BytesOf(Unnamed(gone)) <= Freed(gone) + SharedBy(gone)
<1> DEFINE I == Unnamed(gone)
           J == AllInodes \ I
           Q == UNION {{i} \X BlocksShared(i) : i \in I}
           O == PairsOf(I) \ Q
           F == BlocksOf(I) \ BlocksOf(J)
           h == [p \in O |-> p[2]]
<1>1. /\ IsFiniteSet(BlocksOf(I)) /\ IsFiniteSet(PairsOf(I))
      /\ BytesOf(I) <= Cardinality(PairsOf(I)) /\ BytesOf(I) \in Nat
    BY UnnamedAreInodes, BlocksAreFinite, BytesArePairs, InodesAreFinite
<1>2. Freed(gone) = Cardinality(F) /\ SharedBy(gone) = Cardinality(Q)
    BY DEF Freed, SharedBy, BlocksOf
<1>3. Q \subseteq PairsOf(I)
    BY DEF PairsOf, BlocksShared
<1>4. \A p \in O : \E i \in I : /\ p = <<i, p[2]>> /\ p[2] \in disk.blocksOf[i]
                             /\ \A j \in AllInodes \ {i} : p[2] \notin disk.blocksOf[j]
    BY DEF PairsOf, BlocksShared
<1>5. I \subseteq AllInodes
    BY UnnamedAreInodes
<1>6. \A p \in O : p[2] \in F
  <2> HIDE DEF I, O
  <2> QED  BY <1>4, <1>5 DEF BlocksOf
<1>7. \A p, q \in O : p[2] = q[2] => p = q
  <2> HIDE DEF I, O
  <2> QED  BY <1>4, <1>5
<1> HIDE DEF I, Q, F
<1>8. h \in Injection(O, F)
  <2> HIDE DEF O
  <2>1. h \in [O -> F] /\ \A p, q \in O : h[p] = h[q] => p = q
    BY <1>6, <1>7
  <2> HIDE DEF h
  <2> QED  BY <2>1 DEF Injection, IsInjective
<1>9. IsFiniteSet(F) /\ IsFiniteSet(Q) /\ IsFiniteSet(O)
    BY <1>1, <1>3, FS_Subset DEF F
<1>10. Cardinality(O) <= Cardinality(F)
    BY <1>8, <1>9, FS_Injection
<1>11. PairsOf(I) = O \cup Q /\ O \cap Q = {}
    BY <1>3
<1>12. Cardinality(O \cup Q) = Cardinality(O) + Cardinality(Q) - Cardinality(O \cap Q)
    BY <1>9, FS_Union
<1>13. /\ Cardinality(O \cap Q) = 0
       /\ Cardinality(O) \in Nat /\ Cardinality(Q) \in Nat /\ Cardinality(F) \in Nat
    BY <1>9, <1>11, FS_EmptySet, FS_CardinalityType
<1>14. Cardinality(PairsOf(I)) = Cardinality(O) + Cardinality(Q)
  <2> HIDE DEF O
  <2> QED  BY <1>11, <1>12, <1>13
<1> HIDE DEF O
<1>15. BytesOf(I) <= Cardinality(F) + Cardinality(Q)
    BY <1>1, <1>10, <1>13, <1>14
<1> QED  BY <1>2, <1>15 DEF I

LEMMA ExactIsFreed ==
    ASSUME disk \in Disks, NEW N, N \subseteq FileNames, NEW L, NEW M, NEW gone,
           \A n \in N : \E p \in gone : Below(p, disk.dirOf[n])
    PROVE  Reclaimable(UsageOf(Exact(N, L, M))) <= Freed(gone) + SharedBy(gone)
<1> DEFINE I == Unnamed(gone)
           R == {i \in Inodes(N) : NamesOf(i) \subseteq N}
           u == UsageOf(Exact(N, L, M))
<1>1. R \subseteq I /\ I \subseteq Inodes(FileNames)
    BY DEF Inodes, Unnamed, AllInodes
<1>2. /\ BytesOf(I) <= Freed(gone) + SharedBy(gone)
      /\ Freed(gone) \in Nat /\ SharedBy(gone) \in Nat
    BY FreedButShared, FreedIsNat
<1>3. u.failures = 0 /\ u.allocation.state = "measured"
      /\ u.allocation.reclaimable = Saturated(BytesOf(R))
    BY UsageOfExact
<1> HIDE DEF I, R, u
<1>4. Reclaimable(u) = Saturated(BytesOf(R))
    BY <1>3 DEF Reclaimable
<1>5. BytesOf(R) \in Nat /\ BytesOf(I) \in Nat
    BY <1>1, InodesAreFinite
<1>6. BytesOf(R) <= BytesOf(I)
    BY <1>1, BytesGrow
<1>7. Saturated(BytesOf(R)) <= BytesOf(R) /\ Saturated(BytesOf(R)) \in Nat
    BY <1>5, SaturatedSum
<1> QED  BY <1>2, <1>4, <1>5, <1>6, <1>7 DEF u

(* What every tally is, whatever could not be read.                          *)
TallyOK(m, t) ==
    /\ t.measure = m /\ t.unlinked \in Nat /\ t.failures \in Nat
    /\ DOMAIN t.linked \subseteq Inodes(FileNames)
    /\ \A i \in DOMAIN t.linked : t.linked[i].allocation = Occupied(i)

LEMMA CountedOK ==
    ASSUME disk \in Disks, NEW m \in Measures, NEW N, N \subseteq FileNames, NEW L, NEW M,
           NEW lost \in Nat
    PROVE  TallyOK(m, Counted(m, Files(N), L, M, lost))
           /\ Counted(m, Files(N), L, M, lost).failures = lost
<1> DEFINE F == Files(N)
           sized == IF m = "allocated" THEN N ELSE {}
           single == {n \in sized : F[n].links <= 1}
           namesOf(i) == {n \in sized \ single : F[n].inode = i}
           any(i) == F[CHOOSE n \in namesOf(i) : TRUE]
           linked == [i \in {F[n].inode : n \in sized \ single} |->
                        [allocation |-> any(i).allocation, links |-> any(i).links,
                         seen |-> Cardinality(namesOf(i))]]
           held == [n \in single |-> F[n].allocation]
           t == Counted(m, F, L, M, lost)
<1>1. /\ DOMAIN F = N
      /\ \A n \in N : /\ F[n].inode = disk.inodeOf[n] /\ F[n].allocation = Held(n)
    BY DEF Files, FileOf, Held
<1>2. /\ t.measure = m /\ t.failures = lost /\ t.unlinked = Saturated(Total(held))
      /\ t.linked = linked
    BY <1>1 DEF Counted
<1> HIDE DEF F, t
<1>3. sized \subseteq N /\ single \subseteq N
    OBVIOUS
<1> HIDE DEF sized
<1>4. Weights(held)
  <2>1. IsFiniteSet(single)
    BY <1>3, NamesAreFinite
  <2>2. \A n \in single : F[n].allocation \in Nat
    BY <1>1, <1>3, HeldIsCounted
  <2> HIDE DEF single
  <2> QED  BY <2>1, <2>2 DEF Weights
<1>5. Saturated(Total(held)) \in Nat
  <2> HIDE DEF held
  <2> QED  BY <1>4, UnitsAreFinite, SaturatedSum
<1>6. DOMAIN linked \subseteq Inodes(FileNames)
    BY <1>1, <1>3 DEF Inodes
<1>7. \A i \in DOMAIN linked : linked[i].allocation = Occupied(i)
  <2> SUFFICES ASSUME NEW i \in {F[n].inode : n \in sized \ single}
               PROVE  any(i).allocation = Occupied(i)
    OBVIOUS
  <2> DEFINE n == CHOOSE n \in namesOf(i) : TRUE
  <2>1. \E k \in namesOf(i) : TRUE
    OBVIOUS
  <2>2. n \in namesOf(i)
    BY <2>1
  <2>3. n \in N /\ F[n].inode = i
    BY <1>3, <2>2
  <2> HIDE DEF n
  <2>4. F[n].allocation = Occupied(i)
    BY <1>1, <2>3 DEF Held
  <2> QED  BY <2>4 DEF n
<1> HIDE DEF linked, held
<1> QED  BY <1>2, <1>5, <1>6, <1>7 DEF TallyOK, t, F

LEMMA MergedOK ==
    ASSUME disk \in Disks, NEW m \in Measures, NEW t, IsFiniteSet(DOMAIN t),
           \A k \in DOMAIN t : TallyOK(m, t[k])
    PROVE  /\ TallyOK(m, MergedAll(m, t))
           /\ MergedAll(m, t).failures = 0 <=> \A k \in DOMAIN t : t[k].failures = 0
<1> DEFINE K == DOMAIN t
           f == [k \in K |-> t[k].failures]
           g == [k \in K |-> t[k].unlinked]
           within(i) == {k \in K : i \in DOMAIN t[k].linked}
           said(i) == [k \in within(i) |-> t[k].linked[i]]
           linked == [i \in UNION {DOMAIN t[k].linked : k \in K} |-> OneInode(said(i))]
           s == MergedAll(m, t)
<1>1. \A k \in K : /\ t[k].measure = m /\ t[k].unlinked \in Nat /\ t[k].failures \in Nat
                   /\ DOMAIN t[k].linked \subseteq Inodes(FileNames)
                   /\ \A i \in DOMAIN t[k].linked : t[k].linked[i].allocation = Occupied(i)
    BY DEF TallyOK
<1>2. Weights(f) /\ Weights(g)
    BY <1>1 DEF Weights
<1>3. Total(f) \in Nat /\ Total(g) \in Nat
    BY <1>2, UnitsAreFinite
<1>4. Total(f) = 0 <=> \A k \in K : t[k].failures = 0
  <2>1. DOMAIN f = K /\ \A k \in K : f[k] = t[k].failures
    OBVIOUS
  <2> HIDE DEF f
  <2> QED  BY <1>2, <2>1, TotalIsNothing
<1>5. /\ s.measure = IF \A k \in K : t[k].measure = "allocated" THEN m ELSE "logical"
      /\ s.unlinked = Saturated(Total(g)) /\ s.failures = Total(f) /\ s.linked = linked
    BY DEF MergedAll
<1>6. s.measure = m
    BY <1>1, <1>5 DEF Measures
<1>7. Saturated(Total(g)) \in Nat
    BY <1>3, SaturatedSum
<1>8. DOMAIN linked \subseteq Inodes(FileNames)
    BY <1>1
<1>9. ASSUME NEW i \in DOMAIN linked PROVE linked[i].allocation = Occupied(i)
  <2>1. PICK k \in K : i \in DOMAIN t[k].linked
    BY <1>9
  <2>2. {said(i)[j].allocation : j \in DOMAIN said(i)} = {Occupied(i)}
    BY <1>1, <2>1
  <2>3. Occupied(i) \in Nat
    BY <1>8, InodesAreFinite
  <2>4. linked[i] = OneInode(said(i))
    OBVIOUS
  <2> HIDE DEF said, linked
  <2>5. OneInode(said(i)).allocation = Sets!Max({said(i)[j].allocation : j \in DOMAIN said(i)})
    BY DEF OneInode
  <2>6. Sets!Max({Occupied(i)}) = Occupied(i)
    BY <2>3, MaxOfOne
  <2> QED  BY <2>2, <2>4, <2>5, <2>6
<1> HIDE DEF linked, f, g, s
<1> QED  BY <1>3, <1>4, <1>5, <1>6, <1>7, <1>8, <1>9 DEF TallyOK, s

LEMMA UsageOK ==
    ASSUME disk \in Disks, NEW m \in Measures, NEW t, TallyOK(m, t)
    PROVE  /\ UsageOf(t).failures = t.failures /\ UsageOf(t).allocation.allocated \in Nat
           /\ m = "logical" \/ t.failures # 0 => Reclaimable(UsageOf(t)) = -1
<1> DEFINE all == AllocationOf(t.linked, DOMAIN t.linked)
           u == UsageOf(t)
<1>1. all \in Nat
  <2>1. [i \in DOMAIN t.linked |-> t.linked[i].allocation]
          = [i \in DOMAIN t.linked |-> Occupied(i)]
    BY DEF TallyOK
  <2>2. all = BytesOf(DOMAIN t.linked)
    BY <2>1 DEF AllocationOf, BytesOf
  <2> QED  BY <2>2, InodesAreFinite DEF TallyOK
<1>2. /\ u.failures = t.failures
      /\ u.allocation = IF t.measure = "logical" THEN Unmeasured
                        ELSE [state |-> "measured", allocated |-> Saturated(t.unlinked + all),
                              reclaimable |-> u.allocation.reclaimable]
    BY DEF UsageOf
<1>3. t.unlinked + all \in Nat
    BY <1>1 DEF TallyOK
<1>4. Saturated(t.unlinked + all) \in Nat
    BY <1>3, SaturatedSum
<1> HIDE DEF all, u
<1>5. u.allocation.allocated \in Nat
    BY <1>2, <1>4 DEF Unmeasured
<1>6. m = "logical" => u.allocation.state = "unmeasured"
    BY <1>2 DEF TallyOK, Unmeasured
<1>7. t.failures # 0 => u.failures > 0
    BY <1>2 DEF TallyOK
<1>8. m = "logical" \/ t.failures # 0 => Reclaimable(u) = -1
    BY <1>6, <1>7 DEF Reclaimable, Unknown
<1> QED  BY <1>2, <1>5, <1>8 DEF u

-------------------------------------------------------------------------------
(* How far a walk goes, and what there is to count on its way.               *)
Extent(p) ==
    {q \in Paths : /\ Below(p, q)
                   /\ \A s \in Paths : Below(p, s) /\ Below(s, q) =>
                        /\ s \notin disk.links /\ ~Excluded(s)
                        /\ disk.volumeOf[s] = disk.volumeOf[p]}
NamesAt(S) == {n \in FileNames : disk.dirOf[n] \in S}
LinksAt(S) == UNION {LinksIn(q) : q \in S}
Whole(p) == Exact(NamesAt(Extent(p)), LinksAt(Extent(p)), Extent(p) \cap WithOwner)

LEMMA ChildBetween ==
    ASSUME NEW p \in Paths, NEW q \in Paths, Below(p, q), p # q
    PROVE  \E c \in Children(p) : Below(c, q)
<1> DEFINE n == Len(p) + 1
           c == SubSeq(q, 1, n)
<1>1. PICK S : Paths \subseteq Seq(S)
    BY PathsAreSequences
<1>2. p \in Seq(S) /\ q \in Seq(S)
    BY <1>1
<1>3. Len(p) \in Nat /\ Len(q) \in Nat /\ Len(p) <= Len(q) /\ Len(p) # Len(q)
    BY <1>2, BelowIsAnOrder, BelowContinues
<1>4. n \in 1..Len(q)
    BY <1>3
<1>5. c \in Paths
    BY <1>4, SurveyAssumption
<1> HIDE DEF n
<1>6. Len(c) = n /\ \A i \in 1..n : c[i] = q[i]
    BY <1>2, <1>4
<1> HIDE DEF c
<1>7. Below(c, q)
    BY <1>3, <1>4, <1>5, <1>6, BelowContinues
<1>8. Below(p, c)
  <2>1. \A i \in 1..Len(p) : c[i] = p[i]
    BY <1>3, <1>6, BelowContinues DEF n
  <2> QED  BY <1>3, <1>5, <1>6, <2>1, BelowContinues DEF n
<1> QED  BY <1>5, <1>6, <1>7, <1>8 DEF Children, n

LEMMA ExtentOfNone ==
    ASSUME NEW p \in Paths, Excluded(p) \/ p \in disk.links
    PROVE  Extent(p) = {}
BY BelowIsAnOrder DEF Extent

(* A walk goes to a directory and as far as it does below each child of its  *)
(* volume.                                                                  *)
LEMMA ExtentIs ==
    ASSUME NEW p \in Paths, p \notin disk.links, ~Excluded(p)
    PROVE  Extent(p) = {p} \cup UNION {Extent(c) : c \in SameVolume(p)}
<1>1. \A c \in SameVolume(p) : /\ c \in Children(p) /\ c \in Paths /\ Below(p, c)
                               /\ disk.volumeOf[c] = disk.volumeOf[p]
    BY DEF SameVolume, Children
<1>2. p \in Extent(p)
  <2>1. ASSUME NEW s \in Paths, Below(p, s), Below(s, p) PROVE s = p
    BY <2>1, BelowIsAnOrder, BelowContinues
  <2> QED  BY <2>1, BelowIsAnOrder DEF Extent
<1>3. ASSUME NEW q \in Extent(p), q # p PROVE \E c \in SameVolume(p) : q \in Extent(c)
  <2>1. /\ q \in Paths /\ Below(p, q)
        /\ \A s \in Paths : Below(p, s) /\ Below(s, q) =>
             s \notin disk.links /\ ~Excluded(s) /\ disk.volumeOf[s] = disk.volumeOf[p]
    BY <1>3 DEF Extent
  <2>2. PICK c \in Children(p) : Below(c, q)
    BY <1>3, <2>1, ChildBetween
  <2>3. c \in Paths /\ Below(p, c)
    BY DEF Children
  <2>4. c \notin disk.links /\ disk.volumeOf[c] = disk.volumeOf[p]
    BY <2>1, <2>2, <2>3
  <2>5. ASSUME NEW s \in Paths, Below(c, s) PROVE Below(p, s)
    BY <2>3, <2>5, BelowIsAnOrder
  <2>6. q \in Extent(c)
    BY <2>1, <2>2, <2>4, <2>5 DEF Extent
  <2> QED  BY <2>4, <2>6 DEF SameVolume
<1>4. ASSUME NEW c \in SameVolume(p), NEW q \in Extent(c) PROVE q \in Extent(p)
  <2>1. /\ q \in Paths /\ Below(c, q)
        /\ \A s \in Paths : Below(c, s) /\ Below(s, q) =>
             s \notin disk.links /\ ~Excluded(s) /\ disk.volumeOf[s] = disk.volumeOf[c]
    BY DEF Extent
  <2>2. Below(p, q)
    BY <1>1, <2>1, BelowIsAnOrder
  <2>3. ASSUME NEW s \in Paths, Below(p, s), Below(s, q)
        PROVE  s = p \/ Below(c, s)
    <3>1. Below(s, c) \/ Below(c, s)
        BY <1>1, <2>1, <2>3, BelowIsAnOrder
    <3>2. CASE Below(s, c)
      <4>1. s = c \/ Below(s, p)
          BY <1>1, <2>3, <3>2, AboveAChild
      <4>2. Below(s, p) => s = p
          BY <2>3, BelowIsAnOrder, BelowContinues
      <4> QED  BY <1>1, <4>1, <4>2, BelowIsAnOrder
    <3> QED  BY <3>1, <3>2
  <2> QED  BY <1>1, <2>1, <2>2, <2>3 DEF Extent
<1> QED  BY <1>2, <1>3, <1>4

LEMMA ExtentsApart ==
    ASSUME NEW p \in Paths, NEW q \in Paths, ~Below(p, q), ~Below(q, p)
    PROVE  Extent(p) \cap Extent(q) = {}
BY BelowIsAnOrder DEF Extent

LEMMA ChildrenApart ==
    ASSUME NEW p \in Paths, NEW c \in Children(p)
    PROVE  /\ p \notin Extent(c)
           /\ \A d \in Children(p) : c # d => ~Below(c, d) /\ Extent(c) \cap Extent(d) = {}
<1>1. c \in Paths /\ Len(c) = Len(p) + 1 /\ Below(p, c)
    BY DEF Children
<1>2. Len(p) \in Nat
    BY BelowContinues
<1>3. ~Below(c, p)
    BY <1>1, <1>2, BelowContinues
<1>4. ASSUME NEW d \in Children(p), c # d PROVE ~Below(c, d) /\ ~Below(d, c)
  <2>1. d \in Paths /\ Len(d) = Len(p) + 1
    BY DEF Children
  <2> QED  BY <1>1, <1>4, <2>1, BelowIsAnOrder
<1>5. \A d \in Children(p) : d \in Paths
    BY DEF Children
<1> QED  BY <1>1, <1>3, <1>4, <1>5, ExtentsApart DEF Extent

LEMMA PartsApart ==
    ASSUME NEW S \in SUBSET Paths, NEW T \in SUBSET Paths, S \cap T = {}
    PROVE  NamesAt(S) \cap NamesAt(T) = {} /\ LinksAt(S) \cap LinksAt(T) = {}
<1>1. NamesAt(S) \cap NamesAt(T) = {}
    BY DEF NamesAt
<1>2. ASSUME NEW p \in S, NEW q \in T, NEW l \in Children(p), l \in Children(q) PROVE FALSE
  <2>1. /\ l \in Paths /\ Below(p, l) /\ Below(q, l) /\ Len(l) = Len(p) + 1 /\ Len(l) = Len(q) + 1
    BY <1>2 DEF Children
  <2>2. Len(p) \in Nat /\ Len(q) \in Nat
    BY BelowContinues
  <2>3. Len(p) = Len(q)
    BY <2>1, <2>2
  <2>4. Below(p, q) \/ Below(q, p)
    BY <2>1, BelowIsAnOrder
  <2>5. p = q
    BY <2>3, <2>4, BelowIsAnOrder
  <2> QED  BY <2>5
<1>3. LinksAt(S) \cap LinksAt(T) = {}
    BY <1>2 DEF LinksAt, LinksIn
<1> QED  BY <1>1, <1>3

(* Directories that lie apart are counted together as each is counted.       *)
LEMMA WholesMerged ==
    ASSUME disk \in Disks, NEW t, IsFiniteSet(DOMAIN t), NEW X, DOMAIN X = DOMAIN t,
           \A k \in DOMAIN t : /\ X[k] \in SUBSET Paths
                               /\ t[k] = Exact(NamesAt(X[k]), LinksAt(X[k]), X[k] \cap WithOwner),
           \A j, k \in DOMAIN t : j # k => X[j] \cap X[k] = {},
           NEW Y, Y = UNION {X[k] : k \in DOMAIN t}
    PROVE  MergedAll("allocated", t) = Exact(NamesAt(Y), LinksAt(Y), Y \cap WithOwner)
<1> DEFINE K == DOMAIN t
           N == [k \in K |-> NamesAt(X[k])]
           L == [k \in K |-> LinksAt(X[k])]
           M == [k \in K |-> X[k] \cap WithOwner]
<1>1. /\ DOMAIN N = K /\ DOMAIN L = K /\ DOMAIN M = K
      /\ \A k \in K : /\ N[k] = NamesAt(X[k]) /\ L[k] = LinksAt(X[k]) /\ M[k] = X[k] \cap WithOwner
    OBVIOUS
<1>2. /\ UNION {N[k] : k \in K} = NamesAt(Y) /\ UNION {L[k] : k \in K} = LinksAt(Y)
      /\ UNION {M[k] : k \in K} = Y \cap WithOwner
  <2>1. UNION {N[k] : k \in K} = NamesAt(Y)
    BY DEF NamesAt
  <2>2. UNION {L[k] : k \in K} = LinksAt(Y)
    BY DEF LinksAt
  <2>3. UNION {M[k] : k \in K} = Y \cap WithOwner
    OBVIOUS
  <2> QED  BY <2>1, <2>2, <2>3
<1> HIDE DEF N, L, M
<1>3. ASSUME NEW j \in K, NEW k \in K, j # k PROVE N[j] \cap N[k] = {} /\ L[j] \cap L[k] = {}
  <2>1. X[j] \in SUBSET Paths /\ X[k] \in SUBSET Paths /\ X[j] \cap X[k] = {}
    BY <1>3
  <2>2. NamesAt(X[j]) \cap NamesAt(X[k]) = {} /\ LinksAt(X[j]) \cap LinksAt(X[k]) = {}
    BY <2>1, PartsApart
  <2> QED  BY <1>1, <2>2
<1>4. \A k \in K : N[k] \subseteq FileNames /\ L[k] \subseteq Paths
    BY <1>1 DEF NamesAt, LinksAt, LinksIn, Children
<1>5. ASSUME NEW k \in K PROVE t[k] = Exact(N[k], L[k], M[k])
  <2>1. t[k] = Exact(NamesAt(X[k]), LinksAt(X[k]), X[k] \cap WithOwner)
    OBVIOUS
  <2>2. N[k] = NamesAt(X[k]) /\ L[k] = LinksAt(X[k]) /\ M[k] = X[k] \cap WithOwner
    BY <1>1
  <2> QED  BY <2>1, <2>2
<1>6. Parts(t, N, L, M)
    BY <1>1, <1>3, <1>4, <1>5 DEF Parts
<1>7. MergedAll("allocated", t)
        = Exact(UNION {N[k] : k \in K}, UNION {L[k] : k \in K}, UNION {M[k] : k \in K})
    BY <1>6, ExactMerged, SMTT(30)
<1> QED  BY <1>2, <1>7

-------------------------------------------------------------------------------
(* What is known of a directory: its own, once it is listed, and everything  *)
(* below it, once it is done. What could not be read leaves its trace.       *)
Directly(p) == Exact(NamesAt({p}), LinksAt({p}), {p} \cap WithOwner)

Summed(v) ==
    /\ TallyOK(request.measure, visits[v].own) /\ TallyOK(request.measure, visits[v].tally)
    /\ request.measure = "allocated" =>
         /\ visits[v].step = "listed" =>
              /\ \A c \in SameVolume(v[2]) : <<v[1], c>> \in DOMAIN visits
              /\ visits[v].own.failures = 0 => visits[v].own = Directly(v[2])
         /\ visits[v].step = "done" /\ visits[v].tally.failures = 0
              => visits[v].tally = Whole(v[2])

(* A candidate has what was known of it, and its directory is done with.     *)
FoundWith(c, t) ==
    /\ TallyOK(request.measure, t) /\ c = CandidateAt(c.path, t)
    /\ request.measure = "allocated" /\ t.failures = 0 => t = Whole(c.path)

FoundWhole(c) ==
    /\ \E t : FoundWith(c, t)
    /\ \A w \in DOMAIN visits : w[2] = c.path => visits[w].step = "done"

SumsInv ==
    /\ disk \in Disks
    /\ \A v \in DOMAIN visits : Summed(v)
    /\ \A c \in found : FoundWhole(c)
    /\ \A c, e \in found : c.path = e.path => c = e

LEMMA WholeStays ==
    ASSUME UNCHANGED <<disk, request>>, NEW p
    PROVE  Whole(p)' = Whole(p)
BY DEF Whole, Exact, NamesAt, LinksAt, LinksIn, Extent, Alone, Shared, SaidOf, SeenOf, Held,
       Occupied, NamesOf, Excluded, Children

LEMMA DirectlyStays ==
    ASSUME UNCHANGED <<disk, request>>, NEW p
    PROVE  Directly(p)' = Directly(p)
BY DEF Directly, Exact, NamesAt, LinksAt, LinksIn, Alone, Shared, SaidOf, SeenOf, Held,
       Occupied, NamesOf, Children

LEMMA OKStays ==
    ASSUME UNCHANGED <<disk, request>>, NEW t
    PROVE  TallyOK(request.measure, t)' <=> TallyOK(request.measure, t)
BY DEF TallyOK, Inodes, Occupied

LEMMA CandidateStays ==
    ASSUME UNCHANGED <<disk, request>>, NEW p, NEW t
    PROVE  CandidateAt(p, t)' = CandidateAt(p, t)
BY DEF CandidateAt, ListingOf, SameVolume, Children

LEMMA FoundWithStays ==
    ASSUME UNCHANGED <<disk, request>>, NEW c, NEW t, FoundWith(c, t)
    PROVE  FoundWith(c, t)'
<1>1. TallyOK(request.measure, t)' <=> TallyOK(request.measure, t)
    BY OKStays
<1>2. CandidateAt(c.path, t)' = CandidateAt(c.path, t)
    BY CandidateStays
<1>3. Whole(c.path)' = Whole(c.path)
    BY WholeStays
<1> QED  BY <1>1, <1>2, <1>3 DEF FoundWith

LEMMA OneVisit ==
    ASSUME SurveyInv, NEW v \in DOMAIN visits, NEW w \in DOMAIN visits, v[2] = w[2]
    PROVE  v = w
<1>1. Walked(v) /\ Walked(w)
    BY DEF SurveyInv
<1>2. /\ v[1] \in Paths /\ w[1] \in Paths /\ v[2] \in Paths
      /\ Below(v[1], v[2]) /\ Below(w[1], v[2]) /\ v[1] \in roots /\ w[1] \in roots
    BY <1>1 DEF Walked, SurveyInv
<1>3. Below(v[1], w[1]) \/ Below(w[1], v[1])
    BY <1>2, BelowIsAnOrder
<1>4. v[1] = w[1]
    BY <1>2, <1>3 DEF SurveyInv
<1> QED  BY <1>1, <1>4 DEF Walked

EachOnce == \A v, w \in DOMAIN visits : v[2] = w[2] => v = w

LEMMA VisitsOnce == SurveyInv => EachOnce
BY OneVisit DEF EachOnce

LEMMA RequestIs ==
    ASSUME SurveyInv
    PROVE  /\ request.measure \in Measures /\ request.excludes \subseteq Paths
           /\ request.descent = "measure" => request.only = "any"
           /\ request.measure = "allocated" => request.descent = "measure"
BY SurveyAssumption DEF SurveyInv

LEMMA NothingCounted ==
    ASSUME disk \in Disks, NEW m \in Measures
    PROVE  /\ TallyOK(m, EmptyTally(m)) /\ TallyOK(m, FailedTally(m)) /\ FailedTally(m).failures = 1
           /\ m = "allocated" => EmptyTally(m) = Exact({}, {}, {})
<1>1. Files({}) = [n \in {} |-> {}]
    BY DEF Files
<1>2. /\ EmptyTally(m) = Counted(m, Files({}), {}, {}, 0)
      /\ FailedTally(m) = Counted(m, Files({}), {}, {}, 1)
    BY <1>1 DEF EmptyTally, FailedTally
<1> QED  BY <1>2, CountedOK, CountedIs

LEMMA WholeOfNone ==
    ASSUME NEW p, Extent(p) = {}
    PROVE  Whole(p) = Exact({}, {}, {})
<1>1. NamesAt({}) = {} /\ LinksAt({}) = {} /\ {} \cap WithOwner = {}
    BY DEF NamesAt, LinksAt
<1> QED  BY <1>1 DEF Whole

LEMMA VisitIs ==
    ASSUME NEW region
    PROVE  /\ Visit(region).step = "waiting"
           /\ Visit(region).own = EmptyTally(request.measure)
           /\ Visit(region).tally = EmptyTally(request.measure)
BY DEF Visit

LEMMA EndingSums ==
    ASSUME SurveyInv, SumsInv, UNCHANGED <<disk, request, roots>>,
           NEW v \in DOMAIN visits, NEW tally, Ended(v, tally), TallyOK(request.measure, tally),
           request.measure = "allocated" /\ tally.failures = 0 => tally = Whole(v[2])
    PROVE  /\ (\A w \in DOMAIN visits : Summed(w))'
           /\ \A c \in found : FoundWhole(c)'
<1>1. /\ DOMAIN visits' = DOMAIN visits
      /\ \A w \in DOMAIN visits : w # v => visits'[w] = visits[w]
      /\ visits'[v].step = "done" /\ visits'[v].own = visits[v].own /\ visits'[v].tally = tally
  <2>1. visits[v] = [step |-> visits[v].step, region |-> visits[v].region,
                     admitted |-> visits[v].admitted, own |-> visits[v].own,
                     tally |-> visits[v].tally]
    BY DEF SurveyInv, Walked
  <2>2. DOMAIN visits' = DOMAIN visits /\ \A w \in DOMAIN visits : w # v => visits'[w] = visits[w]
    BY DEF Ended
  <2>3. visits'[v] = [[visits[v] EXCEPT !.step = "done"] EXCEPT !.tally = tally]
    BY DEF Ended
  <2> QED  BY <2>1, <2>2, <2>3
<1>2. ASSUME NEW w \in DOMAIN visits PROVE Summed(w)'
  <2>1. Summed(w)
    BY DEF SumsInv
  <2>2. \A t : TallyOK(request.measure, t)' <=> TallyOK(request.measure, t)
    BY OKStays
  <2>3. \A p : Whole(p)' = Whole(p) /\ Directly(p)' = Directly(p) /\ SameVolume(p)' = SameVolume(p)
    BY WholeStays, DirectlyStays DEF SameVolume
  <2> QED  BY <1>1, <2>1, <2>2, <2>3 DEF Summed
<1>3. ASSUME NEW c \in found PROVE FoundWhole(c)'
  <2>1. FoundWhole(c)
    BY DEF SumsInv
  <2>2. \A t : FoundWith(c, t) => FoundWith(c, t)'
    BY FoundWithStays
  <2> QED  BY <1>1, <2>1, <2>2 DEF FoundWhole
<1> QED  BY <1>1, <1>2, <1>3

LEMMA ListingSums ==
    ASSUME SurveyInv, SurveyInv', SumsInv, UNCHANGED <<disk, request, found>>,
           NEW v \in DOMAIN visits, visits[v].step = "waiting",
           visits'[v].step = "listed", visits'[v].tally = visits[v].tally,
           TallyOK(request.measure, visits'[v].own),
           NEW K \in SUBSET {<<v[1], c>> : c \in SameVolume(v[2])},
           request.measure = "allocated" =>
             /\ K = {<<v[1], c>> : c \in SameVolume(v[2])}
             /\ visits'[v].own.failures = 0 => visits'[v].own = Directly(v[2]),
           DOMAIN visits' = DOMAIN visits \cup K,
           \A w \in DOMAIN visits : w # v => visits'[w] = visits[w],
           NEW region, \A k \in K \ DOMAIN visits : visits'[k] = Visit(region)
    PROVE  SumsInv'
<1>1. \A t : TallyOK(request.measure, t)' <=> TallyOK(request.measure, t)
    BY OKStays
<1>2. \A p : Whole(p)' = Whole(p) /\ Directly(p)' = Directly(p) /\ SameVolume(p)' = SameVolume(p)
    BY WholeStays, DirectlyStays DEF SameVolume
<1>3. ASSUME NEW w \in DOMAIN visits' PROVE Summed(w)'
  <2>1. CASE w = v
    <3>1. Summed(v)
        BY DEF SumsInv
    <3> QED  BY <1>1, <1>2, <2>1, <3>1 DEF Summed
  <2>2. CASE w \in DOMAIN visits /\ w # v
    <3>1. Summed(w)
        BY <2>2 DEF SumsInv
    <3>2. visits'[w] = visits[w]
        BY <2>2
    <3> QED  BY <1>1, <1>2, <2>2, <3>1, <3>2 DEF Summed
  <2>3. CASE w \in K \ DOMAIN visits
    <3>1. /\ visits'[w].step = "waiting" /\ visits'[w].own = EmptyTally(request.measure)
          /\ visits'[w].tally = EmptyTally(request.measure)
        BY <2>3, VisitIs
    <3>2. TallyOK(request.measure, EmptyTally(request.measure))
        BY NothingCounted, RequestIs DEF SumsInv
    <3> QED  BY <1>1, <3>1, <3>2 DEF Summed
  <2> QED  BY <1>3, <2>1, <2>2, <2>3
<1>4. ASSUME NEW c \in found PROVE FoundWhole(c)'
  <2>1. FoundWhole(c)
    BY DEF SumsInv
  <2>2. \E t : FoundWith(c, t)'
    BY <2>1, FoundWithStays DEF FoundWhole
  <2>3. PICK u \in DOMAIN visits : FoundAt(c, u)
    BY DEF SurveyInv
  <2>4. u[2] = c.path /\ visits[u].step = "done"
    BY <2>1, <2>3 DEF FoundAt, FoundWhole
  <2>5. ASSUME NEW w \in DOMAIN visits', w[2] = c.path PROVE visits'[w].step = "done"
    <3>0. EachOnce'
        BY VisitsOnce, PTL
    <3>1. w = u
        BY <2>4, <2>5, <3>0 DEF EachOnce
    <3>2. u # v /\ visits'[u] = visits[u]
        BY <2>4
    <3> QED  BY <2>4, <3>1, <3>2
  <2> QED  BY <2>2, <2>5 DEF FoundWhole
<1>5. disk' \in Disks /\ \A c, e \in found' : c.path = e.path => c = e
    BY DEF SumsInv
<1> QED  BY <1>3, <1>4, <1>5 DEF SumsInv

LEMMA SumsBegin == SurveyInit => SumsInv
<1> SUFFICES ASSUME SurveyInit PROVE SumsInv
    OBVIOUS
<1>1. disk \in Disks /\ found = {} /\ visits = <<>>
    BY DEF SurveyInit
<1>2. DOMAIN visits = {}
    BY <1>1
<1> QED  BY <1>1, <1>2 DEF SumsInv

LEMMA RestingSums ==
    ASSUME SumsInv, UNCHANGED <<disk, request, visits, found>>
    PROVE  SumsInv'
<1>1. \A t : TallyOK(request.measure, t)' <=> TallyOK(request.measure, t)
    BY OKStays
<1>2. \A p : Whole(p)' = Whole(p) /\ Directly(p)' = Directly(p) /\ SameVolume(p)' = SameVolume(p)
    BY WholeStays, DirectlyStays DEF SameVolume
<1>3. ASSUME NEW w \in DOMAIN visits PROVE Summed(w)'
  <2>1. Summed(w)
    BY DEF SumsInv
  <2> QED  BY <1>1, <1>2, <2>1 DEF Summed
<1>4. ASSUME NEW c \in found PROVE FoundWhole(c)'
  <2>1. FoundWhole(c)
    BY DEF SumsInv
  <2>2. \A t : FoundWith(c, t) => FoundWith(c, t)'
    BY FoundWithStays
  <2> QED  BY <2>1, <2>2 DEF FoundWhole
<1> QED  BY <1>3, <1>4 DEF SumsInv

LEMMA AcceptSums == ASSUME SurveyInv, SumsInv, Accept PROVE SumsInv'
<1>1. UNCHANGED <<disk, request, found>> /\ pending # <<>>
    BY DEF Accept
<1>2. found = {}
    BY <1>1 DEF SurveyInv
<1>3. CASE visits' = visits
    BY <1>1, <1>3, RestingSums
<1>4. CASE visits' = [v \in {<<r, r>> : r \in roots'} |-> Visit("root")]
  <2>1. /\ TallyOK(request.measure, EmptyTally(request.measure))
    BY NothingCounted, RequestIs DEF SumsInv
  <2>2. \A v \in DOMAIN visits' : /\ visits'[v].step = "waiting"
                                  /\ visits'[v].own = EmptyTally(request.measure)
                                  /\ visits'[v].tally = EmptyTally(request.measure)
    BY <1>4, VisitIs
  <2>3. \A t : TallyOK(request.measure, t)' <=> TallyOK(request.measure, t)
    BY <1>1, OKStays
  <2>4. ASSUME NEW v \in DOMAIN visits' PROVE Summed(v)'
    BY <2>1, <2>2, <2>3 DEF Summed
  <2> QED  BY <1>1, <1>2, <2>4 DEF SumsInv
<1> QED  BY <1>3, <1>4 DEF Accept

LEMMA PassBySums == ASSUME SurveyInv, SumsInv, PassBy PROVE SumsInv'
<1>1. UNCHANGED <<disk, request, roots, found>>
    BY DEF PassBy
<1>2. PICK v \in DOMAIN visits :
        /\ Ended(v, EmptyTally(request.measure))
        /\ Excluded(v[2]) \/ request.descent # "measure"
    BY DEF PassBy
<1>3. disk \in Disks /\ request.measure \in Measures /\ v[2] \in Paths
    BY RequestIs DEF SumsInv, SurveyInv, Walked
<1>4. request.measure = "allocated" => EmptyTally(request.measure) = Whole(v[2])
  <2> SUFFICES ASSUME request.measure = "allocated" PROVE EmptyTally("allocated") = Whole(v[2])
    OBVIOUS
  <2>1. Excluded(v[2])
    BY <1>2, RequestIs
  <2> QED  BY <1>3, <2>1, ExtentOfNone, WholeOfNone, NothingCounted DEF Measures
<1>5. TallyOK(request.measure, EmptyTally(request.measure))
    BY <1>3, NothingCounted
<1>6. /\ (\A w \in DOMAIN visits : Summed(w))'
      /\ \A c \in found : FoundWhole(c)'
    BY <1>1, <1>2, <1>4, <1>5, EndingSums
<1> QED  BY <1>1, <1>6 DEF SumsInv

LEMMA FailToListSums == ASSUME SurveyInv, SumsInv, FailToList PROVE SumsInv'
<1>1. UNCHANGED <<disk, request, roots, found>>
    BY DEF FailToList
<1>2. PICK v \in DOMAIN visits : Ended(v, FailedTally(request.measure))
    BY DEF FailToList
<1>3. /\ TallyOK(request.measure, FailedTally(request.measure))
      /\ FailedTally(request.measure).failures # 0
    BY NothingCounted, RequestIs DEF SumsInv
<1>4. /\ (\A w \in DOMAIN visits : Summed(w))'
      /\ \A c \in found : FoundWhole(c)'
    BY <1>1, <1>2, <1>3, EndingSums
<1> QED  BY <1>1, <1>4 DEF SumsInv

(* What is below a directory that is listed, and what it comes to.           *)
Lower(v) == {<<v[1], c>> : c \in SameVolume(v[2])} \cap DOMAIN visits
Parted(v) == [w \in Lower(v) \cup {v} |-> IF w = v THEN visits[v].own ELSE visits[w].tally]

LEMMA LowerIs ==
    ASSUME SurveyInv, NEW v \in DOMAIN visits
    PROVE  /\ IsFiniteSet(Lower(v) \cup {v}) /\ v \notin Lower(v) /\ v[2] \in Paths
           /\ \A w \in Lower(v) : w = <<v[1], w[2]>> /\ w[2] \in SameVolume(v[2])
<1>1. v[2] \in Paths
    BY DEF SurveyInv, Walked
<1> DEFINE f == [c \in Paths |-> <<v[1], c>>]
<1>2. SameVolume(v[2]) \subseteq Children(v[2]) /\ Children(v[2]) \subseteq Paths
    BY DEF SameVolume, Children
<1>3. DOMAIN f = Paths /\ Lower(v) \subseteq {f[c] : c \in DOMAIN f}
    BY <1>2 DEF Lower
<1> HIDE DEF f
<1>4. IsFiniteSet({f[c] : c \in DOMAIN f})
    BY <1>3, ImageIsFinite, SurveyAssumption
<1>5. IsFiniteSet(Lower(v))
    BY <1>3, <1>4, FS_Subset
<1>6. IsFiniteSet(Lower(v) \cup {v})
    BY <1>5, FS_AddElement
<1>7. \A w \in Lower(v) : w = <<v[1], w[2]>> /\ w[2] \in SameVolume(v[2])
    BY DEF Lower
<1>8. v[2] \notin Children(v[2])
    BY <1>1, BelowContinues DEF Children
<1>9. v \notin Lower(v)
    BY <1>2, <1>7, <1>8
<1> QED  BY <1>1, <1>6, <1>7, <1>9

LEMMA SumIsWhole ==
    ASSUME SurveyInv, SumsInv, NEW v \in DOMAIN visits, visits[v].step = "listed",
           \A w \in Lower(v) : visits[w].step = "done"
    PROVE  /\ TallyOK(request.measure, MergedAll(request.measure, Parted(v)))
           /\ (request.measure = "allocated" /\ MergedAll(request.measure, Parted(v)).failures = 0)
                => MergedAll(request.measure, Parted(v)) = Whole(v[2])
<1> DEFINE t == Parted(v)
           p == v[2]
<1>1. /\ DOMAIN t = Lower(v) \cup {v} /\ t[v] = visits[v].own
      /\ \A w \in Lower(v) : t[w] = visits[w].tally
    BY LowerIs DEF Parted
<1>2. disk \in Disks /\ request.measure \in Measures /\ IsFiniteSet(DOMAIN t)
    BY <1>1, RequestIs, LowerIs DEF SumsInv
<1>3. \A w \in DOMAIN t : w \in DOMAIN visits /\ Summed(w)
    BY <1>1 DEF SumsInv, Lower
<1>4. \A w \in DOMAIN t : TallyOK(request.measure, t[w])
    BY <1>1, <1>3 DEF Summed
<1> HIDE DEF t
<1>5. /\ TallyOK(request.measure, MergedAll(request.measure, t))
      /\ MergedAll(request.measure, t).failures = 0 => \A w \in DOMAIN t : t[w].failures = 0
    BY <1>2, <1>4, MergedOK
<1>6. ASSUME request.measure = "allocated", \A w \in DOMAIN t : t[w].failures = 0
      PROVE  MergedAll("allocated", t) = Whole(p)
  <2> DEFINE X == [w \in DOMAIN t |-> IF w = v THEN {p} ELSE Extent(w[2])]
  <2>1. p \in Paths /\ p \notin disk.links /\ ~Excluded(p) /\ v = <<v[1], p>>
    BY DEF SurveyInv, Walked
  <2>2. Lower(v) = {<<v[1], c>> : c \in SameVolume(p)}
    BY <1>1, <1>3, <1>6 DEF Summed, Lower
  <2>3. DOMAIN X = DOMAIN t /\ X[v] = {p} /\ \A w \in Lower(v) : X[w] = Extent(w[2])
    BY <1>1, LowerIs
  <2> HIDE DEF X
  <2>4. t[v] = Exact(NamesAt(X[v]), LinksAt(X[v]), X[v] \cap WithOwner)
    BY <1>1, <1>3, <1>6, <2>3 DEF Summed, Directly
  <2>5. ASSUME NEW w \in Lower(v)
        PROVE  t[w] = Exact(NamesAt(X[w]), LinksAt(X[w]), X[w] \cap WithOwner)
    <3>1. Summed(w) /\ visits[w].step = "done" /\ visits[w].tally.failures = 0
        BY <1>1, <1>3, <1>6, <2>5
    <3>2. t[w] = Whole(w[2])
        BY <1>1, <1>6, <3>1 DEF Summed
    <3> QED  BY <2>3, <3>2 DEF Whole
  <2>6. \A w \in DOMAIN t : X[w] \in SUBSET Paths
    BY <1>1, <2>1, <2>3 DEF Extent
  <2>7. ASSUME NEW w \in Lower(v) PROVE X[w] \cap X[v] = {}
    <3>1. w[2] \in Children(p)
        BY LowerIs DEF SameVolume
    <3> QED  BY <2>1, <2>3, <3>1, ChildrenApart
  <2>8. ASSUME NEW u \in Lower(v), NEW w \in Lower(v), u # w PROVE X[u] \cap X[w] = {}
    <3>1. /\ u = <<v[1], u[2]>> /\ u[2] \in SameVolume(p)
          /\ w = <<v[1], w[2]>> /\ w[2] \in SameVolume(p)
        BY LowerIs
    <3>2. u[2] \in Children(p) /\ w[2] \in Children(p)
        BY <3>1 DEF SameVolume
    <3>3. u[2] # w[2]
        BY <2>8, <3>1
    <3> QED  BY <2>1, <2>3, <3>2, <3>3, ChildrenApart
  <2>9. UNION {X[w] : w \in DOMAIN t} = Extent(p)
    <3>1. Extent(p) = {p} \cup UNION {Extent(c) : c \in SameVolume(p)}
        BY <2>1, ExtentIs
    <3>2. UNION {X[w] : w \in Lower(v)} = UNION {Extent(c) : c \in SameVolume(p)}
      <4>1. \A c \in SameVolume(p) : <<v[1], c>> \in Lower(v) /\ X[<<v[1], c>>] = Extent(c)
          BY <2>2, <2>3
      <4>2. \A w \in Lower(v) : w[2] \in SameVolume(p) /\ X[w] = Extent(w[2])
          BY <2>3, LowerIs
      <4>3. ASSUME NEW w \in Lower(v), NEW q \in X[w] PROVE \E c \in SameVolume(p) : q \in Extent(c)
          BY <4>2
      <4>4. ASSUME NEW c \in SameVolume(p), NEW q \in Extent(c) PROVE \E w \in Lower(v) : q \in X[w]
          BY <4>1
      <4> QED  BY <4>3, <4>4
    <3>3. UNION {X[w] : w \in DOMAIN t} = X[v] \cup UNION {X[w] : w \in Lower(v)}
        BY <1>1
    <3> QED  BY <2>3, <3>1, <3>2, <3>3
  <2>10. \A w \in DOMAIN t : t[w] = Exact(NamesAt(X[w]), LinksAt(X[w]), X[w] \cap WithOwner)
    BY <1>1, <2>4, <2>5
  <2>11. \A j, k \in DOMAIN t : j # k => X[j] \cap X[k] = {}
    BY <1>1, <2>7, <2>8
  <2>12. MergedAll("allocated", t)
           = Exact(NamesAt(Extent(p)), LinksAt(Extent(p)), Extent(p) \cap WithOwner)
    BY <1>2, <2>3, <2>6, <2>9, <2>10, <2>11, WholesMerged
  <2> QED  BY <2>12 DEF Whole
<1> QED  BY <1>5, <1>6 DEF t

LEMMA SumUpSums == ASSUME SurveyInv, SumsInv, SumUp PROVE SumsInv'
<1>1. UNCHANGED <<disk, request, roots>>
    BY DEF SumUp
<1>2. PICK v \in DOMAIN visits :
        /\ visits[v].step = "listed" /\ \A w \in Lower(v) : visits[w].step = "done"
        /\ Ended(v, MergedAll(request.measure, Parted(v)))
        /\ found' = found \/ found' = found \cup {CandidateAt(v[2], MergedAll(request.measure, Parted(v)))}
    BY DEF SumUp, Lower, Parted
<1>0. PICK tally : tally = MergedAll(request.measure, Parted(v))
    OBVIOUS
<1>e. PICK e : e = CandidateAt(v[2], tally)
    OBVIOUS
<1>3. /\ TallyOK(request.measure, tally)
      /\ request.measure = "allocated" /\ tally.failures = 0 => tally = Whole(v[2])
    BY <1>0, <1>2, SumIsWhole
<1>4. Ended(v, tally) /\ (found' = found \/ found' = found \cup {e})
    BY <1>0, <1>2, <1>e
<1>5. /\ (\A w \in DOMAIN visits : Summed(w))'
      /\ \A c \in found : FoundWhole(c)'
    BY <1>1, <1>3, <1>4, EndingSums
<1>6. e.path = v[2]
    BY <1>e DEF CandidateAt
<1>7. FoundWhole(e)'
  <2>1. FoundWith(e, tally)
    BY <1>3, <1>6, <1>e DEF FoundWith
  <2>2. FoundWith(e, tally)'
    BY <1>1, <2>1, FoundWithStays
  <2>3. DOMAIN visits' = DOMAIN visits /\ visits'[v].step = "done"
    BY <1>1, <1>4, EndingKeeps
  <2>4. ASSUME NEW w \in DOMAIN visits, w[2] = e.path PROVE w = v
    BY <1>6, <2>4, OneVisit
  <2> QED  BY <2>2, <2>3, <2>4 DEF FoundWhole
<1>8. \A c \in found : c.path # e.path
    BY <1>2, <1>6 DEF SumsInv, FoundWhole
<1>9. \A c, d \in found' : c.path = d.path => c = d
    BY <1>4, <1>8 DEF SumsInv
<1> QED  BY <1>1, <1>4, <1>5, <1>7, <1>9 DEF SumsInv

LEMMA MeasuredSums ==
    ASSUME SurveyInv, SurveyInv', SumsInv, UNCHANGED <<disk, request>>,
           NEW v \in DOMAIN visits, visits[v].step = "waiting", request.descent = "measure",
           NEW lost \in SUBSET NamesIn(v[2]), Measured(v, lost)
    PROVE  SumsInv'
<1> DEFINE p == v[2]
           own_ == Counted(request.measure, Files(NamesIn(p) \ lost), LinksIn(p),
                           {p} \cap WithOwner, Cardinality(lost))
           region == IF AdmitsCandidate(p, visits[v].region) \/ visits[v].region = "inside"
                     THEN "inside" ELSE "open"
           K == {<<v[1], c>> : c \in Descended(v)}
<1>1. /\ found' = found
      /\ visits' = [w \in DOMAIN visits \cup K |->
                      IF w = v THEN [visits[v] EXCEPT !.step = "listed", !.own = own_,
                                       !.admitted = AdmitsCandidate(p, visits[v].region)]
                      ELSE IF w \in DOMAIN visits THEN visits[w] ELSE Visit(region)]
    BY DEF Measured
<1>2. NamesIn(p) \subseteq FileNames /\ lost \subseteq FileNames
    BY DEF NamesIn
<1>3. IsFiniteSet(lost) /\ Cardinality(lost) \in Nat
    BY <1>2, NamesAreFinite
<1>4. disk \in Disks /\ request.measure \in Measures
    BY RequestIs DEF SumsInv
<1>5. TallyOK(request.measure, own_) /\ own_.failures = Cardinality(lost)
    BY <1>2, <1>3, <1>4, CountedOK
<1>6. request.measure = "allocated" /\ own_.failures = 0 => own_ = Directly(p)
  <2> SUFFICES ASSUME request.measure = "allocated", Cardinality(lost) = 0 PROVE own_ = Directly(p)
    BY <1>5
  <2>1. lost = {}
    BY <1>3, FS_EmptySet
  <2>2. own_ = Counted("allocated", Files(NamesIn(p)), LinksIn(p), {p} \cap WithOwner, 0)
    BY <2>1, FS_EmptySet
  <2>3. NamesAt({p}) = NamesIn(p) /\ LinksAt({p}) = LinksIn(p)
    BY DEF NamesAt, LinksAt, NamesIn
  <2> HIDE DEF own_
  <2> QED  BY <1>2, <2>2, <2>3, CountedIs DEF Directly
<1>7. K = {<<v[1], c>> : c \in SameVolume(p)}
    BY RequestIs DEF Descended
<1> HIDE DEF own_, region, K
<1>8. /\ visits'[v].step = "listed" /\ visits'[v].own = own_ /\ visits'[v].tally = visits[v].tally
  <2>1. visits[v] = [step |-> visits[v].step, region |-> visits[v].region,
                     admitted |-> visits[v].admitted, own |-> visits[v].own,
                     tally |-> visits[v].tally]
    BY DEF SurveyInv, Walked
  <2>2. visits'[v] = [[[visits[v] EXCEPT !.step = "listed"] EXCEPT !.own = own_]
                        EXCEPT !.admitted = AdmitsCandidate(p, visits[v].region)]
    BY <1>1
  <2> QED  BY <2>1, <2>2
<1>9. /\ DOMAIN visits' = DOMAIN visits \cup K
      /\ \A w \in DOMAIN visits : w # v => visits'[w] = visits[w]
      /\ \A k \in K \ DOMAIN visits : visits'[k] = Visit(region)
    BY <1>1
<1>10. TallyOK(request.measure, visits'[v].own)
    BY <1>5, <1>8
<1>11. request.measure = "allocated" =>
         /\ K = {<<v[1], c>> : c \in SameVolume(v[2])}
         /\ visits'[v].own.failures = 0 => visits'[v].own = Directly(v[2])
    BY <1>6, <1>7, <1>8
<1>12. K \in SUBSET {<<v[1], c>> : c \in SameVolume(v[2])}
    BY <1>7
<1> HIDE DEF p
<1> QED  BY <1>1, <1>8, <1>9, <1>10, <1>11, <1>12, ListingSums

LEMMA SightSums ==
    ASSUME SurveyInv, SurveyInv', SumsInv, UNCHANGED <<disk, request, roots>>,
           NEW v \in DOMAIN visits, visits[v].step = "waiting", request.descent # "measure",
           Sight(v)
    PROVE  SumsInv'
<1> DEFINE K == {<<v[1], c>> : c \in Descended(v)}
<1>e. PICK e : e = CandidateAt(v[2], EmptyTally("logical"))
    OBVIOUS
<1>1. /\ request.measure = "logical" /\ disk \in Disks
    BY RequestIs DEF SumsInv, Measures
<1>2. TallyOK("logical", EmptyTally("logical"))
    BY <1>1, NothingCounted DEF Measures
<1>3. \/ /\ Ended(v, EmptyTally("logical"))
         /\ found' = found \/ found' = found \cup {e}
      \/ /\ found' = found
         /\ visits' = [w \in DOMAIN visits \cup K |->
              IF w = v THEN [visits[v] EXCEPT !.step = "listed"]
              ELSE IF w \in DOMAIN visits THEN visits[w] ELSE Visit("open")]
    BY <1>1, <1>e DEF Sight
<1>4. e.path = v[2]
    BY <1>e DEF CandidateAt
<1>5. CASE Ended(v, EmptyTally("logical")) /\ (found' = found \/ found' = found \cup {e})
  <2>1. /\ (\A w \in DOMAIN visits : Summed(w))'
        /\ \A c \in found : FoundWhole(c)'
    BY <1>1, <1>2, <1>5, EndingSums
  <2>2. FoundWhole(e)'
    <3>1. FoundWith(e, EmptyTally("logical"))
        BY <1>1, <1>2, <1>4, <1>e DEF FoundWith
    <3>2. FoundWith(e, EmptyTally("logical"))'
        BY <3>1, FoundWithStays
    <3>3. DOMAIN visits' = DOMAIN visits /\ visits'[v].step = "done"
        BY <1>5, EndingKeeps
    <3>4. ASSUME NEW w \in DOMAIN visits, w[2] = e.path PROVE w = v
        BY <1>4, <3>4, OneVisit
    <3> QED  BY <3>2, <3>3, <3>4 DEF FoundWhole
  <2>3. \A c \in found : c.path # e.path
    BY <1>4 DEF SumsInv, FoundWhole
  <2>4. \A c, d \in found' : c.path = d.path => c = d
    BY <1>5, <2>3 DEF SumsInv
  <2> QED  BY <1>1, <1>5, <2>1, <2>2, <2>4 DEF SumsInv
<1>6. CASE /\ found' = found
           /\ visits' = [w \in DOMAIN visits \cup K |->
                IF w = v THEN [visits[v] EXCEPT !.step = "listed"]
                ELSE IF w \in DOMAIN visits THEN visits[w] ELSE Visit("open")]
  <2>1. K \in SUBSET {<<v[1], c>> : c \in SameVolume(v[2])}
    BY DEF Descended
  <2> HIDE DEF K
  <2>2. /\ visits'[v].step = "listed" /\ visits'[v].own = visits[v].own
        /\ visits'[v].tally = visits[v].tally
    <3>1. visits[v] = [step |-> visits[v].step, region |-> visits[v].region,
                       admitted |-> visits[v].admitted, own |-> visits[v].own,
                       tally |-> visits[v].tally]
        BY DEF SurveyInv, Walked
    <3>2. visits'[v] = [visits[v] EXCEPT !.step = "listed"]
        BY <1>6
    <3> QED  BY <3>1, <3>2
  <2>3. /\ DOMAIN visits' = DOMAIN visits \cup K
        /\ \A w \in DOMAIN visits : w # v => visits'[w] = visits[w]
        /\ \A k \in K \ DOMAIN visits : visits'[k] = Visit("open")
    BY <1>6
  <2>4. TallyOK(request.measure, visits[v].own)
    BY DEF SumsInv, Summed
  <2> QED  BY <1>1, <1>6, <2>1, <2>2, <2>3, <2>4, ListingSums
<1> QED  BY <1>3, <1>5, <1>6

LEMMA WalkSums == ASSUME SurveyInv, SurveyInv', SumsInv, Walk PROVE SumsInv'
<1>1. UNCHANGED <<disk, request, roots>>
    BY DEF Walk
<1>2. PICK v \in DOMAIN visits :
        /\ visits[v].step = "waiting"
        /\ IF request.descent = "measure"
           THEN \E lost \in SUBSET NamesIn(v[2]) : Measured(v, lost) ELSE Sight(v)
    BY DEF Walk
<1>3. CASE request.descent = "measure"
    BY <1>1, <1>2, <1>3, MeasuredSums
<1>4. CASE request.descent # "measure"
    BY <1>1, <1>2, <1>4, SightSums
<1> QED  BY <1>3, <1>4

(* What a scan knows of a directory is what there is below it, unless         *)
(* something could not be read (scan.rs: visit, finish).                     *)
THEOREM SumsInvariant == SurveySpec => []SumsInv
<1>1. SurveyInit => SumsInv
    BY SumsBegin
<1>2. SurveyInv /\ SurveyInv' /\ SumsInv /\ [SurveyNext]_survey => SumsInv'
  <2> SUFFICES ASSUME SurveyInv, SurveyInv', SumsInv, [SurveyNext]_survey PROVE SumsInv'
    OBVIOUS
  <2>1. CASE Accept
    BY <2>1, AcceptSums
  <2>2. CASE PassBy
    BY <2>2, PassBySums
  <2>3. CASE FailToList
    BY <2>3, FailToListSums
  <2>4. CASE Walk
    BY <2>4, WalkSums
  <2>5. CASE SumUp
    BY <2>5, SumUpSums
  <2>6. CASE Report
    BY <2>6, RestingSums DEF Report
  <2>7. CASE UNCHANGED survey
    BY <2>7, RestingSums DEF survey
  <2> QED  BY <2>1, <2>2, <2>3, <2>4, <2>5, <2>6, <2>7 DEF SurveyNext
<1> QED  BY <1>1, <1>2, SurveyInvariant, PTL DEF SurveySpec

-------------------------------------------------------------------------------
(* What was scanned goes when it is deleted.                                *)
LEMMA ScannedIsFreed ==
    ASSUME SurveyInv, SumsInv, NEW c \in found
    PROVE  /\ c.path \in Paths
           /\ Reclaimable(c.usage) <= Freed({c.path}) + SharedBy({c.path})
<1>1. PICK v \in DOMAIN visits : FoundAt(c, v)
    BY DEF SurveyInv
<1>2. c.path \in Paths
    BY <1>1 DEF FoundAt, SurveyInv, Walked
<1>3. disk \in Disks /\ request.measure \in Measures
    BY RequestIs DEF SumsInv
<1>4. PICK t : FoundWith(c, t)
    BY DEF SumsInv, FoundWhole
<1>5. c.usage = UsageOf(t) /\ TallyOK(request.measure, t)
    BY <1>4 DEF FoundWith, CandidateAt
<1>6. Freed({c.path}) \in Nat /\ SharedBy({c.path}) \in Nat
    BY <1>3, FreedIsNat
<1>7. CASE request.measure = "logical" \/ t.failures # 0
  <2>1. Reclaimable(UsageOf(t)) = -1
    BY <1>3, <1>5, <1>7, UsageOK
  <2> QED  BY <1>2, <1>5, <1>6, <2>1
<1>8. CASE request.measure = "allocated" /\ t.failures = 0
  <2> DEFINE N == NamesAt(Extent(c.path))
  <2>1. t = Whole(c.path)
    BY <1>4, <1>8 DEF FoundWith
  <2>2. N \subseteq FileNames /\ \A n \in N : \E p \in {c.path} : Below(p, disk.dirOf[n])
    BY DEF NamesAt, Extent
  <2> HIDE DEF N
  <2>3. Reclaimable(UsageOf(Exact(N, LinksAt(Extent(c.path)), Extent(c.path) \cap WithOwner)))
          <= Freed({c.path}) + SharedBy({c.path})
    BY <1>3, <2>2, ExactIsFreed
  <2> QED  BY <1>2, <1>5, <2>1, <2>3 DEF Whole, N
<1> QED  BY <1>3, <1>7, <1>8 DEF Measures

-------------------------------------------------------------------------------
(* What is measured again before it is deleted.                             *)
Inward(p) == {q \in Under(p) : \A l \in disk.links \ {q} : ~(Below(p, l) /\ Below(l, q))}

LEMMA StrictlyIs ==
    ASSUME disk \in Disks, NEW p, NEW kind
    PROVE  /\ TallyOK("allocated", Strictly(p, kind))
           /\ Strictly(p, kind).failures = 0 =>
                /\ p \notin disk.links
                /\ \A q \in Inward(p) \ disk.links : disk.volumeOf[q] = disk.volumeOf[p]
                /\ Strictly(p, kind)
                     = Exact(NamesAt(Inward(p) \ disk.links), Inward(p) \cap disk.links, {})
<1> DEFINE walked == Inward(p) \ disk.links
           N == UNION {NamesIn(q) : q \in walked}
           t == Strictly(p, kind)
           exact == Counted("allocated", Files(N), Inward(p) \cap disk.links, {}, 0)
<1>1. \/ t = FailedTally("allocated")
      \/ /\ t = exact /\ p \notin disk.links
         /\ \A q \in walked : disk.volumeOf[q] = disk.volumeOf[p]
    BY DEF Strictly, Inward
<1>2. N = NamesAt(walked) /\ N \subseteq FileNames
    BY DEF NamesAt, NamesIn
<1> HIDE DEF t, N, walked
<1>3. "allocated" \in Measures
    BY DEF Measures
<1>4. exact = Exact(N, Inward(p) \cap disk.links, {}) /\ TallyOK("allocated", exact)
    BY <1>2, <1>3, CountedIs, CountedOK
<1>5. TallyOK("allocated", FailedTally("allocated")) /\ FailedTally("allocated").failures = 1
    BY <1>3, NothingCounted
<1> HIDE DEF exact
<1> QED  BY <1>1, <1>2, <1>4, <1>5 DEF t, walked

LEMMA ParentIs ==
    ASSUME NEW p \in Paths, NEW l \in Paths, Below(p, l), p # l
    PROVE  \E q \in Paths : l \in Children(q) /\ Below(p, q)
<1>1. PICK S : Paths \subseteq Seq(S)
    BY PathsAreSequences
<1>2. p \in Seq(S) /\ l \in Seq(S)
    BY <1>1
<1>3. Len(p) \in Nat /\ Len(l) \in Nat /\ Len(p) <= Len(l) /\ Len(p) # Len(l)
    BY <1>2, BelowIsAnOrder, BelowContinues
<1>4. CASE Len(l) = Len(p) + 1
    BY <1>4, BelowIsAnOrder DEF Children
<1>5. CASE Len(l) # Len(p) + 1
  <2> DEFINE n == Len(l) - 1
             q == SubSeq(l, 1, n)
  <2>1. n \in 1..Len(l) /\ Len(p) <= n /\ Len(l) = n + 1
    BY <1>3, <1>5
  <2>2. q \in Paths
    BY <2>1, SurveyAssumption
  <2> HIDE DEF n
  <2>3. Len(q) = n /\ \A i \in 1..n : q[i] = l[i]
    BY <1>2, <2>1
  <2> HIDE DEF q
  <2>4. Below(q, l)
    BY <1>3, <2>1, <2>2, <2>3, BelowContinues
  <2>5. Below(p, q)
    <3>1. \A i \in 1..Len(p) : q[i] = p[i]
        BY <1>3, <2>1, <2>3, BelowContinues
    <3> QED  BY <2>1, <2>2, <2>3, <3>1, BelowContinues
  <2>6. l \in Children(q)
    BY <2>1, <2>3, <2>4 DEF Children
  <2> QED  BY <2>2, <2>5, <2>6
<1> QED  BY <1>4, <1>5

(* What is measured again is what was scanned, where nothing is excluded.    *)
LEMMA InwardIs ==
    ASSUME disk \in Disks, request.excludes \subseteq Paths,
           NEW p \in Paths, p \notin disk.links, ~Excluded(p),
           \A e \in request.excludes : ~Below(p, e),
           \A q \in Inward(p) \ disk.links : disk.volumeOf[q] = disk.volumeOf[p]
    PROVE  /\ Inward(p) \ disk.links = Extent(p)
           /\ Inward(p) \cap disk.links = LinksAt(Extent(p))
<1>1. \A q : q \in Inward(p) <=>
         /\ q \in Paths /\ Below(p, q)
         /\ \A l \in disk.links \ {q} : ~(Below(p, l) /\ Below(l, q))
    BY DEF Inward, Under
<1>2. disk.links \subseteq Paths
    BY SurveyAssumption
<1>3. ASSUME NEW s \in Paths, Below(p, s) PROVE ~Excluded(s)
  <2>1. ASSUME NEW e \in request.excludes, Below(e, s) PROVE FALSE
    <3>1. Below(p, e) \/ Below(e, p)
        BY <1>3, <2>1, BelowIsAnOrder
    <3> QED  BY <3>1 DEF Excluded
  <2> QED  BY <2>1 DEF Excluded
<1>4. ASSUME NEW q \in Inward(p) \ disk.links PROVE q \in Extent(p)
  <2>1. q \in Paths /\ Below(p, q) /\ \A l \in disk.links : ~(Below(p, l) /\ Below(l, q))
    BY <1>1
  <2>2. ASSUME NEW s \in Paths, Below(p, s), Below(s, q)
        PROVE  s \notin disk.links /\ ~Excluded(s) /\ disk.volumeOf[s] = disk.volumeOf[p]
    <3>1. s \notin disk.links
        BY <2>1, <2>2
    <3>2. \A l \in disk.links : Below(l, s) => Below(l, q)
        BY <1>2, <2>1, <2>2, BelowIsAnOrder
    <3>3. s \in Inward(p)
        BY <1>1, <2>1, <2>2, <3>2
    <3> QED  BY <1>3, <2>2, <3>1, <3>3
  <2> QED  BY <2>1, <2>2 DEF Extent
<1>5. ASSUME NEW q \in Extent(p) PROVE q \in Inward(p) \ disk.links
  <2>1. q \in Paths /\ Below(p, q)
    BY DEF Extent
  <2>2. q \notin disk.links
    BY <2>1, BelowIsAnOrder DEF Extent
  <2>3. \A l \in disk.links : ~(Below(p, l) /\ Below(l, q))
    BY <1>2 DEF Extent
  <2> QED  BY <1>1, <2>1, <2>2, <2>3
<1>6. Inward(p) \ disk.links = Extent(p)
    BY <1>4, <1>5
<1>7. ASSUME NEW l \in Inward(p) \cap disk.links PROVE l \in LinksAt(Extent(p))
  <2>1. /\ l \in Paths /\ Below(p, l) /\ p # l
        /\ \A m \in disk.links \ {l} : ~(Below(p, m) /\ Below(m, l))
    BY <1>1
  <2>2. PICK q \in Paths : l \in Children(q) /\ Below(p, q)
    BY <2>1, ParentIs
  <2>3. Below(q, l) /\ ~Below(l, q)
    BY <2>1, <2>2, ChildrenApart, BelowContinues DEF Children
  <2>4. \A m \in disk.links : Below(m, q) => m # l /\ Below(m, l)
    BY <1>2, <2>1, <2>3, BelowIsAnOrder
  <2>5. q \notin disk.links
    BY <2>1, <2>2, <2>3
  <2>6. q \in Inward(p)
    BY <1>1, <2>1, <2>2, <2>4
  <2> QED  BY <1>6, <2>2, <2>5, <2>6 DEF LinksAt, LinksIn
<1>8. ASSUME NEW l \in LinksAt(Extent(p)) PROVE l \in Inward(p) \cap disk.links
  <2>1. PICK q \in Extent(p) : l \in Children(q) /\ l \in disk.links
    BY DEF LinksAt, LinksIn
  <2>2. q \in Paths /\ Below(p, q) /\ l \in Paths /\ Below(q, l)
    BY <2>1 DEF Extent, Children
  <2>3. Below(p, l)
    BY <2>2, BelowIsAnOrder
  <2>4. ASSUME NEW m \in disk.links, m # l, Below(p, m), Below(m, l) PROVE FALSE
    <3>1. m \in Paths /\ Below(m, q)
        BY <1>2, <2>1, <2>2, <2>4, AboveAChild
    <3> QED  BY <2>4, <3>1 DEF Extent
  <2> QED  BY <1>1, <2>1, <2>2, <2>3, <2>4
<1> QED  BY <1>6, <1>7, <1>8

LEMMA AgainTheSame ==
    ASSUME SurveyInv, SumsInv, NEW c \in found, request.measure = "allocated",
           c.usage.failures = 0, Strictly(c.path, c.kind).failures = 0,
           \A e \in request.excludes : ~Below(c.path, e)
    PROVE  CandidateId(1, c.path, c.kind, Strictly(c.path, c.kind))
             = <<1, c.path, c.kind, c.usage, c.contents>>
<1>1. c.path \in Paths /\ ~Excluded(c.path) /\ c.path \notin disk.links
    BY ScannedIsFreed, SurveyInvImpliesApart DEF CandidatesLieApart
<1>2. disk \in Disks /\ request.excludes \subseteq Paths
    BY RequestIs DEF SumsInv
<1>3. PICK t : FoundWith(c, t)
    BY DEF SumsInv, FoundWhole
<1>4. c.usage = UsageOf(t) /\ c.contents = t.contents /\ TallyOK("allocated", t)
    BY <1>3 DEF FoundWith, CandidateAt
<1>5. t = Whole(c.path)
  <2>1. t.failures = 0
    BY <1>2, <1>4, UsageOK DEF Measures
  <2> QED  BY <1>3, <2>1 DEF FoundWith
<1> DEFINE again == Strictly(c.path, c.kind)
           N == NamesAt(Extent(c.path))
           L == LinksAt(Extent(c.path))
           M == Extent(c.path) \cap WithOwner
<1>6. again = Exact(NamesAt(Inward(c.path) \ disk.links), Inward(c.path) \cap disk.links, {})
      /\ \A q \in Inward(c.path) \ disk.links : disk.volumeOf[q] = disk.volumeOf[c.path]
    BY <1>2, StrictlyIs
<1>7. /\ Inward(c.path) \ disk.links = Extent(c.path)
      /\ Inward(c.path) \cap disk.links = LinksAt(Extent(c.path))
    BY <1>1, <1>2, <1>6, InwardIs
<1>8. again = Exact(N, L, {}) /\ t = Exact(N, L, M) /\ N \subseteq FileNames
    BY <1>5, <1>6, <1>7 DEF Whole, NamesAt
<1> HIDE DEF again, N, L, M
<1>9. UsageOf(again) = UsageOf(t)
  <2>1. UsageOf(Exact(N, L, {})) = UsageOf(Exact(N, L, M))
    BY <1>2, <1>8, UsageOfExact
  <2> QED  BY <1>8, <2>1
<1>10. again.contents = t.contents
    BY <1>8 DEF Exact
<1> QED  BY <1>4, <1>9, <1>10 DEF CandidateId, again

(* What is selected together goes together when it is deleted.               *)
LEMMA FoundIsFinite ==
    ASSUME SurveyInv, SumsInv
    PROVE  IsFiniteSet(found)
<1> DEFINE f == [c \in found |-> c.path]
<1>1. \A c \in found : c.path \in Paths
    BY ScannedIsFreed
<1>2. f \in Injection(found, Paths)
    BY <1>1 DEF Injection, IsInjective, SumsInv
<1> QED  BY <1>2, FS_Injection, SurveyAssumption

LEMMA SelectedIsFreed ==
    ASSUME SurveyInv, SumsInv, NEW selected \in SUBSET found
    PROVE  LET paths == {c.path : c \in selected} IN
           Reclaimable(Selected(selected)) <= Freed(paths) + SharedBy(paths)
<1> DEFINE t == [c \in selected |-> Strictly(c.path, c.kind)]
           gone == {c.path : c \in selected}
<1>1. disk \in Disks /\ "allocated" \in Measures
    BY DEF SumsInv, Measures
<1>2. DOMAIN t = selected /\ \A c \in selected : t[c] = Strictly(c.path, c.kind)
    OBVIOUS
<1>3. IsFiniteSet(selected)
    BY FoundIsFinite, FS_Subset
<1>4. \A c \in selected : TallyOK("allocated", t[c])
    BY <1>1, <1>2, StrictlyIs
<1>5. Selected(selected) = UsageOf(MergedAll("allocated", t))
    BY DEF Selected
<1>6. Freed(gone) \in Nat /\ SharedBy(gone) \in Nat
    BY <1>1, FreedIsNat
<1> HIDE DEF t
<1>7. /\ TallyOK("allocated", MergedAll("allocated", t))
      /\ MergedAll("allocated", t).failures = 0 => \A c \in selected : t[c].failures = 0
    BY <1>1, <1>2, <1>3, <1>4, MergedOK
<1>8. CASE MergedAll("allocated", t).failures # 0
  <2>1. Reclaimable(Selected(selected)) = -1
    BY <1>1, <1>5, <1>7, <1>8, UsageOK
  <2> QED  BY <1>6, <2>1
<1>9. CASE MergedAll("allocated", t).failures = 0
  <2> DEFINE N == [c \in selected |-> NamesAt(Inward(c.path) \ disk.links)]
             L == [c \in selected |-> Inward(c.path) \cap disk.links]
             M == [c \in selected |-> {}]
  <2>1. /\ DOMAIN N = selected /\ DOMAIN L = selected /\ DOMAIN M = selected
        /\ \A c \in selected : /\ N[c] = NamesAt(Inward(c.path) \ disk.links)
                             /\ L[c] = Inward(c.path) \cap disk.links /\ M[c] = {}
    OBVIOUS
  <2> HIDE DEF N, L, M
  <2>2. \A q, p : q \in Inward(p) => q \in Paths /\ Below(p, q)
    BY DEF Inward, Under
  <2>3. ASSUME NEW c \in selected
        PROVE  /\ t[c] = Exact(N[c], L[c], M[c]) /\ N[c] \subseteq FileNames
               /\ L[c] \subseteq Paths
    <3>1. Strictly(c.path, c.kind).failures = 0
        BY <1>2, <1>7, <1>9
    <3>2. Strictly(c.path, c.kind)
            = Exact(NamesAt(Inward(c.path) \ disk.links), Inward(c.path) \cap disk.links, {})
        BY <1>1, <3>1, StrictlyIs
    <3>3. t[c] = Exact(N[c], L[c], M[c])
        BY <1>2, <2>1, <3>2
    <3> QED  BY <2>1, <2>2, <3>3 DEF NamesAt
  <2>4. ASSUME NEW c \in selected, NEW d \in selected, c # d
        PROVE  N[c] \cap N[d] = {} /\ L[c] \cap L[d] = {}
    <3>1. c.path \in Paths /\ d.path \in Paths /\ c.path # d.path
        BY <2>4, ScannedIsFreed DEF SumsInv
    <3>2. ~Below(c.path, d.path) /\ ~Below(d.path, c.path)
        BY <3>1, SurveyInvImpliesApart DEF CandidatesLieApart
    <3>3. Inward(c.path) \cap Inward(d.path) = {}
        BY <2>2, <3>1, <3>2, BelowIsAnOrder
    <3> QED  BY <2>1, <3>3 DEF NamesAt
  <2>5. Parts(t, N, L, M)
    BY <1>2, <1>3, <2>1, <2>3, <2>4 DEF Parts
  <2> DEFINE NN == UNION {N[c] : c \in selected}
             LL == UNION {L[c] : c \in selected}
             MM == UNION {M[c] : c \in selected}
  <2>6. MergedAll("allocated", t) = Exact(NN, LL, MM)
    BY <1>1, <1>2, <2>5, ExactMerged
  <2>7. NN \subseteq FileNames
    BY <2>3
  <2>8. ASSUME NEW n \in NN PROVE \E p \in gone : Below(p, disk.dirOf[n])
    <3>1. PICK c \in selected : n \in N[c]
        OBVIOUS
    <3>2. disk.dirOf[n] \in Inward(c.path)
        BY <2>1, <3>1 DEF NamesAt
    <3> QED  BY <2>2, <3>2
  <2> HIDE DEF NN, LL, MM, gone
  <2>9. Reclaimable(UsageOf(Exact(NN, LL, MM))) <= Freed(gone) + SharedBy(gone)
    BY <1>1, <2>7, <2>8, ExactIsFreed
  <2> QED  BY <1>5, <2>6, <2>9 DEF gone
<1> QED  BY <1>8, <1>9

(* What is said to be reclaimed is freed when it is deleted, whatever the    *)
(* order of the walk, and what is measured again is what was shown.          *)
THEOREM ReclaimableGoes == SurveySpec => []ReclaimableIsFreed
<1>1. SurveyInv /\ SumsInv => ReclaimableIsFreed
  <2> SUFFICES ASSUME SurveyInv, SumsInv PROVE ReclaimableIsFreed
    OBVIOUS
  <2> QED  BY ScannedIsFreed, SelectedIsFreed, AgainTheSame DEF ReclaimableIsFreed
<1> QED  BY <1>1, SurveyInvariant, SumsInvariant, PTL

-------------------------------------------------------------------------------
(* Every root that was asked for is still to come, or below one that is      *)
(* walked, if it is not excluded or told of as an error.                     *)
Asked == {request.roots[i] : i \in DOMAIN request.roots}

RootsInv ==
    /\ counts = [directories |-> counts.directories, files |-> counts.files,
                 links |-> counts.links, mounts |-> counts.mounts, errors |-> counts.errors]
    /\ counts.errors \in Nat
    /\ \A r \in roots : <<r, r>> \in DOMAIN visits /\ r \in Asked /\ ~Excluded(r)
    /\ \A i \in DOMAIN pending : pending[i] \in Asked
    /\ \A a \in Asked :
         \/ \E i \in DOMAIN pending : pending[i] = a
         \/ a \in disk.links /\ counts.errors > 0
         \/ Excluded(a) \/ \E r \in roots : Below(r, a)

LEMMA RootsBegin == SurveyInit => RootsInv
<1> SUFFICES ASSUME SurveyInit PROVE RootsInv
    OBVIOUS
<1>1. /\ pending = request.roots /\ roots = {}
      /\ counts = [directories |-> 0, files |-> 0, links |-> 0, mounts |-> 0, errors |-> 0]
    BY DEF SurveyInit
<1> QED  BY <1>1 DEF RootsInv, Asked

LEMMA AskedArePaths ==
    ASSUME SurveyInv
    PROVE  Asked \subseteq Paths
<1>1. request.roots \in Seq(Paths)
    BY SurveyAssumption DEF SurveyInv
<1> QED  BY <1>1 DEF Asked

LEMMA AcceptRoots == ASSUME SurveyInv, RootsInv, Accept PROVE RootsInv'
<1> DEFINE p == Head(pending)
<1>1. /\ UNCHANGED <<disk, request>> /\ pending # <<>> /\ pending' = Tail(pending)
    BY DEF Accept
<1>2. pending \in Seq(Paths)
    BY DEF SurveyInv
<1>3. /\ p = pending[1] /\ 1 \in DOMAIN pending /\ p \in Paths
      /\ \A i \in DOMAIN pending' : i + 1 \in DOMAIN pending /\ pending'[i] = pending[i + 1]
      /\ \A i \in DOMAIN pending : i = 1 \/ (i - 1 \in DOMAIN pending' /\ pending'[i - 1] = pending[i])
    BY <1>1, <1>2
<1>4. Asked' = Asked /\ \A a : Excluded(a)' <=> Excluded(a)
    BY <1>1 DEF Asked, Excluded
<1>5. p \in Asked
    BY <1>3 DEF RootsInv
<1> HIDE DEF p
<1>6. \/ /\ p \in disk.links /\ counts' = [counts EXCEPT !.errors = @ + 1]
         /\ UNCHANGED <<roots, visits>>
      \/ /\ Excluded(p) \/ \E r \in roots : Below(r, p)
         /\ UNCHANGED <<roots, visits, counts>>
      \/ /\ roots' = {r \in roots : ~Below(p, r)} \cup {p} /\ ~Excluded(p)
         /\ visits' = [v \in {<<r, r>> : r \in roots'} |-> Visit("root")]
         /\ counts' = counts
    BY DEF Accept, p
<1>7. /\ counts' = [directories |-> counts'.directories, files |-> counts'.files,
                    links |-> counts'.links, mounts |-> counts'.mounts, errors |-> counts'.errors]
      /\ counts'.errors \in Nat /\ counts'.errors >= counts.errors
      /\ p \in disk.links => counts'.errors > 0 \/ counts' = counts
  <2>1. CASE counts' = counts
    BY <2>1 DEF RootsInv
  <2>2. CASE counts' = [counts EXCEPT !.errors = @ + 1]
    BY <2>2 DEF RootsInv
  <2> QED  BY <1>6, <2>1, <2>2
<1>8. \A r \in roots' : <<r, r>> \in DOMAIN visits' /\ r \in Asked /\ ~Excluded(r)
    BY <1>5, <1>6 DEF RootsInv
<1>9. \A i \in DOMAIN pending' : pending'[i] \in Asked
    BY <1>3 DEF RootsInv
<1>10. \A a \in Paths : (\E r \in roots : Below(r, a)) => \E r \in roots' : Below(r, a)
  <2>1. roots \subseteq Paths
    BY DEF SurveyInv
  <2> QED  BY <1>3, <1>6, <2>1, BelowIsAnOrder
<1>11. \/ p \in disk.links /\ counts'.errors > 0
       \/ Excluded(p) \/ \E r \in roots' : Below(r, p)
  <2>1. CASE p \in disk.links /\ counts' = [counts EXCEPT !.errors = @ + 1]
    <3>1. counts'.errors = counts.errors + 1
        BY <2>1 DEF RootsInv
    <3> QED  BY <2>1, <3>1 DEF RootsInv
  <2>2. CASE p \in roots'
    BY <1>3, <2>2, BelowIsAnOrder
  <2> QED  BY <1>3, <1>6, <1>10, <2>1, <2>2
<1>12. ASSUME NEW a \in Asked
       PROVE  \/ \E i \in DOMAIN pending' : pending'[i] = a
              \/ a \in disk.links /\ counts'.errors > 0
              \/ Excluded(a) \/ \E r \in roots' : Below(r, a)
  <2>1. a \in Paths
    BY AskedArePaths
  <2>2. \/ \E i \in DOMAIN pending : pending[i] = a
        \/ a \in disk.links /\ counts.errors > 0
        \/ Excluded(a) \/ \E r \in roots : Below(r, a)
    BY DEF RootsInv
  <2>3. CASE \E i \in DOMAIN pending : pending[i] = a
    BY <1>3, <1>11, <2>3
  <2>4. CASE a \in disk.links /\ counts.errors > 0
    BY <1>7, <2>4 DEF RootsInv
  <2>5. CASE Excluded(a) \/ \E r \in roots : Below(r, a)
    BY <1>10, <2>1, <2>5
  <2> QED  BY <2>2, <2>3, <2>4, <2>5
<1> QED  BY <1>1, <1>4, <1>7, <1>8, <1>9, <1>12 DEF RootsInv

(* What the other actions do to it.                                          *)
LEMMA StayingRoots ==
    ASSUME RootsInv, UNCHANGED <<disk, request, pending, roots>>,
           DOMAIN visits \subseteq DOMAIN visits',
           counts' = [directories |-> counts'.directories, files |-> counts'.files,
                      links |-> counts'.links, mounts |-> counts'.mounts,
                      errors |-> counts'.errors],
           counts'.errors \in Nat, counts'.errors >= counts.errors
    PROVE  RootsInv'
<1>1. Asked' = Asked /\ \A a : Excluded(a)' <=> Excluded(a)
    BY DEF Asked, Excluded
<1> QED  BY <1>1 DEF RootsInv

LEMMA CountedRoots ==
    ASSUME RootsInv
    PROVE  /\ counts' = counts =>
                /\ counts' = [directories |-> counts'.directories, files |-> counts'.files,
                              links |-> counts'.links, mounts |-> counts'.mounts,
                              errors |-> counts'.errors]
                /\ counts'.errors \in Nat /\ counts'.errors >= counts.errors
           /\ counts' = [counts EXCEPT !.errors = @ + 1] =>
                /\ counts' = [directories |-> counts'.directories, files |-> counts'.files,
                              links |-> counts'.links, mounts |-> counts'.mounts,
                              errors |-> counts'.errors]
                /\ counts'.errors \in Nat /\ counts'.errors >= counts.errors
BY DEF RootsInv

LEMMA WalkRoots == ASSUME RootsInv, Walk PROVE RootsInv'
<1>1. UNCHANGED <<disk, request, pending, roots>>
    BY DEF Walk
<1>2. \E v \in DOMAIN visits : \E lost \in SUBSET NamesIn(v[2]) :
        /\ Measured(v, lost) \/ Sight(v)
        /\ counts' = [counts EXCEPT
             !.directories = @ + 1,
             !.files = @ + Cardinality(NamesIn(v[2]) \ lost),
             !.links = @ + Cardinality(LinksIn(v[2])),
             !.mounts = @ + Cardinality(Children(v[2]) \ (SameVolume(v[2]) \cup disk.links)),
             !.errors = @ + Cardinality(lost)]
    BY DEF Walk
<1>3. PICK v \in DOMAIN visits : \E lost \in SUBSET NamesIn(v[2]) :
        /\ Measured(v, lost) \/ Sight(v)
        /\ counts' = [counts EXCEPT
             !.directories = @ + 1,
             !.files = @ + Cardinality(NamesIn(v[2]) \ lost),
             !.links = @ + Cardinality(LinksIn(v[2])),
             !.mounts = @ + Cardinality(Children(v[2]) \ (SameVolume(v[2]) \cup disk.links)),
             !.errors = @ + Cardinality(lost)]
    BY <1>2
<1>4. PICK lost \in SUBSET NamesIn(v[2]) :
        /\ Measured(v, lost) \/ Sight(v)
        /\ counts' = [counts EXCEPT
             !.directories = @ + 1,
             !.files = @ + Cardinality(NamesIn(v[2]) \ lost),
             !.links = @ + Cardinality(LinksIn(v[2])),
             !.mounts = @ + Cardinality(Children(v[2]) \ (SameVolume(v[2]) \cup disk.links)),
             !.errors = @ + Cardinality(lost)]
    BY <1>3
<1>5. DOMAIN visits \subseteq DOMAIN visits'
    BY <1>4 DEF Measured, Sight, Ended
<1>6. Cardinality(lost) \in Nat
  <2>1. lost \subseteq FileNames
    BY DEF NamesIn
  <2> QED  BY <2>1, NamesAreFinite
<1>7. /\ counts' = [directories |-> counts'.directories, files |-> counts'.files,
                    links |-> counts'.links, mounts |-> counts'.mounts, errors |-> counts'.errors]
      /\ counts'.errors = counts.errors + Cardinality(lost)
  <2> DEFINE a == counts.directories + 1
             b == counts.files + Cardinality(NamesIn(v[2]) \ lost)
             c == counts.links + Cardinality(LinksIn(v[2]))
             d == counts.mounts
                    + Cardinality(Children(v[2]) \ (SameVolume(v[2]) \cup disk.links))
             e == counts.errors + Cardinality(lost)
  <2>1. counts = [directories |-> counts.directories, files |-> counts.files,
                  links |-> counts.links, mounts |-> counts.mounts, errors |-> counts.errors]
    BY DEF RootsInv
  <2>2. counts' = [counts EXCEPT !.directories = a, !.files = b, !.links = c,
                                 !.mounts = d, !.errors = e]
    BY <1>4
  <2> HIDE DEF a, b, c, d, e
  <2>3. counts' = [directories |-> a, files |-> b, links |-> c, mounts |-> d, errors |-> e]
    BY <2>1, <2>2
  <2> QED  BY <2>3 DEF e
<1>8. counts.errors \in Nat
    BY DEF RootsInv
<1> QED  BY <1>1, <1>5, <1>6, <1>7, <1>8, StayingRoots

(* A root that was asked for is walked, or below one that is (scan.rs:       *)
(* roots, scan).                                                             *)
THEOREM RootsAreWalked == SurveySpec => []RootsInv
<1>1. SurveyInit => RootsInv
    BY RootsBegin
<1>2. SurveyInv /\ RootsInv /\ [SurveyNext]_survey => RootsInv'
  <2> SUFFICES ASSUME SurveyInv, RootsInv, [SurveyNext]_survey PROVE RootsInv'
    OBVIOUS
  <2>1. CASE Accept
    BY <2>1, AcceptRoots
  <2>2. CASE PassBy
    <3>1. DOMAIN visits' = DOMAIN visits
        BY <2>2 DEF PassBy, Ended
    <3>2. UNCHANGED <<disk, request, pending, roots, counts>>
        BY <2>2 DEF PassBy
    <3> QED  BY <3>1, <3>2, CountedRoots, StayingRoots
  <2>3. CASE FailToList
    <3>1. DOMAIN visits' = DOMAIN visits
        BY <2>3 DEF FailToList, Ended
    <3>2. /\ UNCHANGED <<disk, request, pending, roots>>
          /\ counts' = [counts EXCEPT !.errors = @ + 1]
        BY <2>3 DEF FailToList
    <3> QED  BY <3>1, <3>2, CountedRoots, StayingRoots
  <2>4. CASE Walk
    BY <2>4, WalkRoots
  <2>5. CASE SumUp
    <3>1. DOMAIN visits' = DOMAIN visits
        BY <2>5 DEF SumUp, Ended
    <3>2. UNCHANGED <<disk, request, pending, roots, counts>>
        BY <2>5 DEF SumUp
    <3> QED  BY <3>1, <3>2, CountedRoots, StayingRoots
  <2>6. CASE Report \/ UNCHANGED survey
    <3>1. UNCHANGED <<disk, request, pending, roots, counts, visits>>
        BY <2>6 DEF Report, survey
    <3> QED  BY <3>1, CountedRoots, StayingRoots
  <2> QED  BY <2>1, <2>2, <2>3, <2>4, <2>5, <2>6 DEF SurveyNext
<1> QED  BY <1>1, <1>2, SurveyInvariant, PTL DEF SurveySpec

-------------------------------------------------------------------------------
(* What a report says of a volume.                                           *)
LEMMA MaxOfTwo ==
    ASSUME NEW m \in Nat, NEW n \in Nat, Sets!Max({m, n}) = 0
    PROVE  m = 0 /\ n = 0
<1>1. \E x \in {m, n} : \A y \in {m, n} : x >= y
    OBVIOUS
<1>2. \A y \in {m, n} : Sets!Max({m, n}) >= y
    BY <1>1 DEF Sets!Max
<1> QED  BY <1>2

LEMMA ReconciledIs ==
    ASSUME NEW used \in Nat, NEW measured \in Nat
    PROVE  /\ Reconciled(used, measured).used = used
           /\ Reconciled(used, measured).measured = measured
           /\ Reconciled(used, measured).attributed + Reconciled(used, measured).unattributed = used
BY DEF Reconciled, SaturatedSub

(* The outermost of the roots that were asked for, and what lies below them   *)
(* on one volume.                                                           *)
Outermost == {r \in Asked : \A s \in Asked : Below(s, r) => s = r}
Reachable(d) ==
    {q \in Paths : \E r \in Outermost :
       /\ Below(r, q)
       /\ \A s \in Paths : Below(r, s) /\ Below(s, q) =>
            s \notin disk.links /\ ~Excluded(s) /\ disk.volumeOf[s] = d}
RootsOf(d) == {r \in roots : disk.volumeOf[r] = d}
TalliesOf(S) == [r \in S |-> visits[<<r, r>>].tally]
Together(S) == UNION {Extent(r) : r \in S}

LEMMA RootsAreOutermost ==
    ASSUME SurveyInv, RootsInv, pending = <<>>, counts.errors = 0
    PROVE  /\ roots \subseteq Outermost
           /\ \A r \in Outermost : r \in roots \/ r \in disk.links \/ Excluded(r)
<1>1. \A a \in Asked : a \in Paths /\ (Excluded(a) \/ \E r \in roots : Below(r, a))
    BY AskedArePaths DEF RootsInv
<1>2. roots \subseteq Asked /\ \A r \in roots : r \in Paths /\ ~Excluded(r)
    BY DEF RootsInv, SurveyInv
<1>3. ASSUME NEW r \in roots, NEW a \in Asked, Below(a, r) PROVE a = r
  <2>1. ~Excluded(a)
    <3>1. ASSUME NEW e \in request.excludes, Below(e, a) PROVE FALSE
        BY <1>1, <1>2, <1>3, <3>1, RequestIs, BelowIsAnOrder DEF Excluded
    <3> QED  BY <3>1 DEF Excluded
  <2>2. PICK s \in roots : Below(s, a)
    BY <1>1, <2>1
  <2>3. Below(s, r)
    BY <1>1, <1>2, <1>3, <2>2, BelowIsAnOrder
  <2>4. s = r
    BY <2>3 DEF SurveyInv
  <2>5. Len(a) <= Len(r) /\ Len(r) <= Len(a) /\ Len(a) \in Nat /\ Len(r) \in Nat
    BY <1>1, <1>2, <1>3, <2>2, <2>4, BelowContinues
  <2> QED  BY <1>1, <1>2, <1>3, <2>5, BelowIsAnOrder
<1>4. ASSUME NEW r \in Outermost, ~Excluded(r) PROVE r \in roots
  <2>1. PICK s \in roots : Below(s, r)
    BY <1>1, <1>4 DEF Outermost
  <2> QED  BY <1>2, <2>1 DEF Outermost
<1> QED  BY <1>2, <1>3, <1>4 DEF Outermost

LEMMA ReachableIs ==
    ASSUME SurveyInv, RootsInv, pending = <<>>, counts.errors = 0, NEW d
    PROVE  Reachable(d) = Together(RootsOf(d))
<1>1. ASSUME NEW q \in Reachable(d) PROVE \E r \in RootsOf(d) : q \in Extent(r)
  <2>1. PICK r \in Outermost :
          /\ q \in Paths /\ Below(r, q)
          /\ \A s \in Paths : Below(r, s) /\ Below(s, q) =>
               s \notin disk.links /\ ~Excluded(s) /\ disk.volumeOf[s] = d
    BY DEF Reachable
  <2>2. r \in Paths
    BY AskedArePaths DEF Outermost
  <2>3. r \notin disk.links /\ ~Excluded(r) /\ disk.volumeOf[r] = d
    BY <2>1, <2>2, BelowIsAnOrder
  <2>4. r \in RootsOf(d)
    BY <2>3, RootsAreOutermost DEF RootsOf
  <2> QED  BY <2>1, <2>3, <2>4 DEF Extent
<1>2. ASSUME NEW r \in RootsOf(d), NEW q \in Extent(r) PROVE q \in Reachable(d)
  <2>1. r \in Outermost /\ disk.volumeOf[r] = d
    BY RootsAreOutermost DEF RootsOf
  <2> QED  BY <2>1 DEF Extent, Reachable
<1> QED  BY <1>1, <1>2 DEF Together

LEMMA RootsAreSummed ==
    ASSUME SurveyInv, SumsInv, RootsInv, \A v \in DOMAIN visits : visits[v].step = "done",
           NEW S \in SUBSET roots
    PROVE  /\ IsFiniteSet(S) /\ DOMAIN TalliesOf(S) = S
           /\ \A r \in S : TallyOK(request.measure, TalliesOf(S)[r])
           /\ request.measure = "allocated" /\ (\A r \in S : TalliesOf(S)[r].failures = 0)
                => MergedAll("allocated", TalliesOf(S))
                     = Exact(NamesAt(Together(S)), LinksAt(Together(S)), Together(S) \cap WithOwner)
<1> DEFINE t == TalliesOf(S)
<1>1. S \subseteq Paths /\ disk \in Disks
    BY DEF SurveyInv, SumsInv
<1>2. IsFiniteSet(S)
    BY <1>1, FS_Subset, SurveyAssumption
<1>3. DOMAIN t = S /\ \A r \in S : t[r] = visits[<<r, r>>].tally
    BY DEF TalliesOf
<1>4. \A r \in S : Summed(<<r, r>>) /\ visits[<<r, r>>].step = "done"
    BY DEF RootsInv, SumsInv
<1> HIDE DEF t
<1>5. \A r \in S : TallyOK(request.measure, t[r])
    BY <1>3, <1>4 DEF Summed
<1>6. ASSUME request.measure = "allocated", \A r \in S : t[r].failures = 0
      PROVE  MergedAll("allocated", t)
               = Exact(NamesAt(Together(S)), LinksAt(Together(S)), Together(S) \cap WithOwner)
  <2> DEFINE X == [r \in S |-> Extent(r)]
             Y == Together(S)
  <2>1. DOMAIN X = S /\ \A r \in S : X[r] = Extent(r)
    OBVIOUS
  <2>2. UNION {X[r] : r \in DOMAIN t} = Y
    BY <1>3, <2>1 DEF Together
  <2> HIDE DEF X, Y
  <2>3. ASSUME NEW r \in S
        PROVE  /\ X[r] \in SUBSET Paths
               /\ t[r] = Exact(NamesAt(X[r]), LinksAt(X[r]), X[r] \cap WithOwner)
    <3>1. t[r] = Whole(<<r, r>>[2])
        BY <1>3, <1>4, <1>6 DEF Summed
    <3>2. t[r] = Exact(NamesAt(Extent(r)), LinksAt(Extent(r)), Extent(r) \cap WithOwner)
        BY <3>1 DEF Whole
    <3>3. Extent(r) \subseteq Paths
        BY DEF Extent
    <3> QED  BY <2>1, <3>2, <3>3
  <2>4. ASSUME NEW r \in S, NEW s \in S, r # s PROVE X[r] \cap X[s] = {}
    <3>1. ~Below(r, s) /\ ~Below(s, r) /\ r \in Paths /\ s \in Paths
        BY <1>1, <2>4 DEF SurveyInv
    <3> QED  BY <2>1, <3>1, ExtentsApart
  <2>5. DOMAIN X = DOMAIN t /\ IsFiniteSet(DOMAIN t)
    BY <1>2, <1>3, <2>1
  <2>6. \A r \in DOMAIN t :
          /\ X[r] \in SUBSET Paths
          /\ t[r] = Exact(NamesAt(X[r]), LinksAt(X[r]), X[r] \cap WithOwner)
    BY <1>3, <2>3
  <2>7. \A r, s \in DOMAIN t : r # s => X[r] \cap X[s] = {}
    BY <1>3, <2>4
  <2>8. MergedAll("allocated", t) = Exact(NamesAt(Y), LinksAt(Y), Y \cap WithOwner)
    BY ONLY <1>1, <2>2, <2>5, <2>6, <2>7, WholesMerged
  <2> QED  BY <2>8 DEF Y
<1> QED  BY <1>2, <1>3, <1>5, <1>6 DEF t

(* What a report says of a volume when nothing went wrong.                   *)
LEMMA VolumeIs ==
    ASSUME SurveyInv, SumsInv, RootsInv, pending = <<>>,
           \A v \in DOMAIN visits : visits[v].step = "done", NEW d
    PROVE  LET measured == UsageOf(MergedAll(request.measure, TalliesOf(RootsOf(d)))).allocation.allocated
               missing == UsageOf(MergedAll(request.measure, TalliesOf(roots))).failures IN
           /\ measured \in Nat /\ missing \in Nat
           /\ request.measure = "allocated" /\ missing = 0 /\ counts.errors = 0
                => measured = Saturated(BytesOf(Inodes(NamesAt(Reachable(d)))))
<1>1. disk \in Disks /\ request.measure \in Measures
    BY RequestIs DEF SumsInv
<1>2. RootsOf(d) \in SUBSET roots
    BY DEF RootsOf
<1>3. PICK t : t = TalliesOf(RootsOf(d))
    OBVIOUS
<1>4. PICK all : all = TalliesOf(roots)
    OBVIOUS
<1>5. /\ DOMAIN t = RootsOf(d) /\ IsFiniteSet(DOMAIN t)
      /\ \A r \in RootsOf(d) : TallyOK(request.measure, t[r])
      /\ request.measure = "allocated" /\ (\A r \in RootsOf(d) : t[r].failures = 0)
           => MergedAll("allocated", t)
                = Exact(NamesAt(Together(RootsOf(d))), LinksAt(Together(RootsOf(d))),
                        Together(RootsOf(d)) \cap WithOwner)
    BY <1>2, <1>3, RootsAreSummed
<1>6. /\ DOMAIN all = roots /\ IsFiniteSet(DOMAIN all)
      /\ \A r \in roots : TallyOK(request.measure, all[r])
    BY <1>4, RootsAreSummed
<1>7. TallyOK(request.measure, MergedAll(request.measure, t))
    BY <1>1, <1>5, MergedOK
<1>8. /\ TallyOK(request.measure, MergedAll(request.measure, all))
      /\ MergedAll(request.measure, all).failures = 0 => \A r \in roots : all[r].failures = 0
    BY <1>1, <1>6, MergedOK
<1>9. /\ UsageOf(MergedAll(request.measure, t)).allocation.allocated \in Nat
      /\ UsageOf(MergedAll(request.measure, all)).failures
           = MergedAll(request.measure, all).failures
    BY <1>1, <1>7, <1>8, UsageOK
<1>10. MergedAll(request.measure, all).failures \in Nat
    BY <1>8 DEF TallyOK
<1>11. ASSUME request.measure = "allocated", MergedAll(request.measure, all).failures = 0,
              counts.errors = 0
       PROVE  UsageOf(MergedAll("allocated", t)).allocation.allocated
                = Saturated(BytesOf(Inodes(NamesAt(Reachable(d)))))
  <2> DEFINE Y == Reachable(d)
  <2>1. \A r \in RootsOf(d) : t[r] = all[r]
    BY <1>3, <1>4 DEF TalliesOf, RootsOf
  <2>2. \A r \in RootsOf(d) : t[r].failures = 0
    BY <1>2, <1>8, <1>11, <2>1
  <2>3. Y = Together(RootsOf(d))
    BY <1>11, ReachableIs
  <2> HIDE DEF Y
  <2>4. MergedAll("allocated", t) = Exact(NamesAt(Y), LinksAt(Y), Y \cap WithOwner)
    BY <1>5, <1>11, <2>2, <2>3
  <2>5. NamesAt(Y) \subseteq FileNames
    BY DEF NamesAt
  <2>6. \A N, L, M : N \subseteq FileNames =>
          UsageOf(Exact(N, L, M)).allocation.allocated = Saturated(BytesOf(Inodes(N)))
    <3> SUFFICES ASSUME NEW N, NEW L, NEW M, N \subseteq FileNames
                 PROVE  UsageOf(Exact(N, L, M)).allocation.allocated
                          = Saturated(BytesOf(Inodes(N)))
        OBVIOUS
    <3> DEFINE R == {i \in Inodes(N) : NamesOf(i) \subseteq N}
    <3>1. UsageOf(Exact(N, L, M)) =
            [logical |-> Saturated(Cardinality(N) + Cardinality(L)), failures |-> 0,
             allocation |->
               [state |-> "measured", allocated |-> Saturated(BytesOf(Inodes(N))),
                reclaimable |-> Saturated(BytesOf(R))]]
        BY <1>1, UsageOfExact
    <3> HIDE DEF R
    <3> QED  BY <3>1
  <2> QED  BY <2>4, <2>5, <2>6 DEF Y
<1> QED  BY <1>3, <1>4, <1>9, <1>10, <1>11

SaidOnce ==
    report.state = "done" =>
      \A d \in DOMAIN report.volumes :
        /\ report.volumes[d].attributed + report.volumes[d].unattributed = report.volumes[d].used
        /\ request.measure = "allocated" /\ report.usage.failures = 0
             => report.volumes[d].measured
                  = Saturated(BytesOf(Inodes(NamesAt(Reachable(d)))))

LEMMA OnceIsSaid == OverlapsCountedOnce <=> SaidOnce
BY DEF SaidOnce, OverlapsCountedOnce, Inodes, NamesAt, Reachable, Outermost, Asked

LEMMA StayingBytes ==
    ASSUME UNCHANGED <<disk, request>>, NEW d
    PROVE  BytesOf(Inodes(NamesAt(Reachable(d))))' = BytesOf(Inodes(NamesAt(Reachable(d))))
BY DEF BytesOf, Inodes, NamesAt, Reachable, Outermost, Asked, Excluded, Occupied

LEMMA ReportsOnce == ASSUME SurveyInv, SumsInv, RootsInv, Report PROVE OverlapsCountedOnce'
<1> DEFINE total == UsageOf(MergedAll(request.measure, TalliesOf(roots)))
           of(d) == UsageOf(MergedAll(request.measure, TalliesOf(RootsOf(d)))).allocation.allocated
<1>1. /\ UNCHANGED <<disk, request>> /\ pending = <<>>
      /\ \A v \in DOMAIN visits : visits[v].step = "done"
    BY DEF Report
<1>2. report' = [state |-> "done",
                 usage |-> [total EXCEPT !.failures = Sets!Max({@, counts.errors})],
                 volumes |-> [d \in {disk.volumeOf[r] : r \in roots} |->
                                Reconciled(disk.used[d], of(d))]]
    BY DEF Report, TalliesOf, RootsOf
<1>3. total.failures \in Nat
    BY <1>1, VolumeIs
<1>4. report'.usage.failures = Sets!Max({total.failures, counts.errors})
  <2>1. total = [logical |-> total.logical, failures |-> total.failures,
                 allocation |-> total.allocation]
    BY DEF UsageOf
  <2> HIDE DEF total
  <2>2. report'.usage = [total EXCEPT !.failures = Sets!Max({total.failures, counts.errors})]
    BY <1>2
  <2> QED  BY <2>1, <2>2
<1>5. /\ DOMAIN report'.volumes = {disk.volumeOf[r] : r \in roots}
      /\ \A d \in DOMAIN report'.volumes :
           report'.volumes[d] = Reconciled(disk.used[d], of(d))
    BY <1>2
<1>6. ASSUME NEW d \in DOMAIN report'.volumes
      PROVE  /\ report'.volumes[d].attributed + report'.volumes[d].unattributed
                  = report'.volumes[d].used
             /\ request.measure = "allocated" /\ report'.usage.failures = 0
                  => report'.volumes[d].measured
                       = Saturated(BytesOf(Inodes(NamesAt(Reachable(d)))))
  <2>1. disk.used[d] \in Nat
    <3>1. PICK r \in roots : d = disk.volumeOf[r]
        BY <1>5
    <3>2. r \in Paths
        BY DEF SurveyInv
    <3> QED  BY <3>1, <3>2, SurveyAssumption DEF SumsInv
  <2>2. /\ of(d) \in Nat
        /\ request.measure = "allocated" /\ total.failures = 0 /\ counts.errors = 0
             => of(d) = Saturated(BytesOf(Inodes(NamesAt(Reachable(d)))))
    BY <1>1, VolumeIs
  <2>3. report'.volumes[d] = Reconciled(disk.used[d], of(d))
    BY <1>5
  <2> HIDE DEF total, of
  <2>4. report'.usage.failures = 0 => total.failures = 0 /\ counts.errors = 0
    BY <1>3, <1>4, MaxOfTwo DEF RootsInv
  <2> QED  BY <2>1, <2>2, <2>3, <2>4, ReconciledIs
<1> HIDE DEF total, of
<1>7. SaidOnce'
  <2>1. \A d : BytesOf(Inodes(NamesAt(Reachable(d))))' = BytesOf(Inodes(NamesAt(Reachable(d))))
    BY <1>1, StayingBytes
  <2> QED  BY <1>1, <1>6, <2>1 DEF SaidOnce
<1>8. SaidOnce' => OverlapsCountedOnce'
    BY OnceIsSaid, PTL
<1> QED  BY <1>7, <1>8

LEMMA RestingOnce ==
    ASSUME OverlapsCountedOnce, UNCHANGED <<disk, request, report>>
    PROVE  OverlapsCountedOnce'
<1>1. SaidOnce
    BY OnceIsSaid
<1>2. \A d : BytesOf(Inodes(NamesAt(Reachable(d))))' = BytesOf(Inodes(NamesAt(Reachable(d))))
    BY StayingBytes
<1>3. SaidOnce'
    BY <1>1, <1>2 DEF SaidOnce
<1>4. SaidOnce' => OverlapsCountedOnce'
    BY OnceIsSaid, PTL
<1> QED  BY <1>3, <1>4

(* The bytes that are found of a volume are those below the outermost of the *)
(* roots on it, each inode once (scan.rs: roots; measure.rs: merge).          *)
THEOREM RootsCountOnce == SurveySpec => []OverlapsCountedOnce
<1>1. SurveyInit => OverlapsCountedOnce
    BY DEF SurveyInit, OverlapsCountedOnce
<1>2. SurveyInv /\ SumsInv /\ RootsInv /\ OverlapsCountedOnce /\ [SurveyNext]_survey
        => OverlapsCountedOnce'
  <2> SUFFICES ASSUME SurveyInv, SumsInv, RootsInv, OverlapsCountedOnce, [SurveyNext]_survey
               PROVE  OverlapsCountedOnce'
    OBVIOUS
  <2>1. CASE Report
    BY <2>1, ReportsOnce
  <2>2. CASE Accept \/ PassBy \/ FailToList \/ Walk \/ SumUp \/ UNCHANGED survey
    <3>1. UNCHANGED <<disk, request, report>>
        BY <2>2 DEF Accept, PassBy, FailToList, Walk, SumUp, survey
    <3> QED  BY <3>1, RestingOnce
  <2> QED  BY <2>1, <2>2 DEF SurveyNext
<1> QED  BY <1>1, <1>2, SurveyInvariant, SumsInvariant, RootsAreWalked, PTL DEF SurveySpec

-------------------------------------------------------------------------------
(* The areas of a host.                                                    *)

(* A location whose names are a sequence, of whatever letters.                *)
Sequenced(l) == l.names \in Seq({l.names[i] : i \in DOMAIN l.names})
(* What a sequence holds.                                                     *)
Holds(s, S) == s \in Seq(S) /\ S = {s[i] : i \in DOMAIN s}

LEMMA HeldTogether ==
    ASSUME NEW s, NEW t, NEW S, NEW T, Holds(s, S), Holds(t, T)
    PROVE  Holds(s \o t, S \cup T)
<1>1. /\ s \in Seq(S) /\ Len(s) \in Nat /\ DOMAIN s = 1..Len(s)
      /\ t \in Seq(T) /\ Len(t) \in Nat /\ DOMAIN t = 1..Len(t)
      /\ S = {s[i] : i \in 1..Len(s)} /\ T = {t[i] : i \in 1..Len(t)}
  BY DEF Holds
<1>2. s \in Seq(S \cup T) /\ t \in Seq(S \cup T)
  BY <1>1, SeqDef
<1>3. /\ s \o t \in Seq(S \cup T) /\ DOMAIN (s \o t) = 1..(Len(s) + Len(t))
      /\ \A i \in 1..(Len(s) + Len(t)) : (s \o t)[i] = IF i <= Len(s) THEN s[i] ELSE t[i - Len(s)]
  BY <1>2, ConcatProperties
<1>4. ASSUME NEW x \in S PROVE \E i \in DOMAIN (s \o t) : (s \o t)[i] = x
  <2>1. PICK i \in 1..Len(s) : x = s[i]
    BY <1>1
  <2>2. i \in 1..(Len(s) + Len(t)) /\ i <= Len(s)
    BY <1>1
  <2> QED BY <1>3, <2>1, <2>2
<1>5. ASSUME NEW x \in T PROVE \E i \in DOMAIN (s \o t) : (s \o t)[i] = x
  <2>1. PICK i \in 1..Len(t) : x = t[i]
    BY <1>1
  <2>2. /\ i + Len(s) \in 1..(Len(s) + Len(t)) /\ ~(i + Len(s) <= Len(s))
        /\ (i + Len(s)) - Len(s) = i
    BY <1>1
  <2> QED BY <1>3, <2>1, <2>2
<1>6. \A i \in DOMAIN (s \o t) : (s \o t)[i] \in S \cup T
  BY <1>1, <1>3
<1> QED BY <1>3, <1>4, <1>5, <1>6 DEF Holds

LEMMA HeldAlone ==
    /\ Holds(<<>>, {})
    /\ \A a : Holds(<<a>>, {a})
    /\ \A a, b : Holds(<<a, b>>, {a, b})
    /\ \A a, b, c : Holds(<<a, b, c>>, {a, b, c})
    /\ \A a, b, c, d : Holds(<<a, b, c, d>>, {a, b, c, d})
<1>1. Holds(<<>>, {})
  BY DEF Holds
<1>2. ASSUME NEW a PROVE Holds(<<a>>, {a})
  BY DEF Holds
<1>3. ASSUME NEW a, NEW b PROVE Holds(<<a, b>>, {a, b})
  BY DEF Holds
<1>4. ASSUME NEW a, NEW b, NEW c PROVE Holds(<<a, b, c>>, {a, b, c})
  BY DEF Holds
<1>5. ASSUME NEW a, NEW b, NEW c, NEW d PROVE Holds(<<a, b, c, d>>, {a, b, c, d})
  BY DEF Holds
<1> QED BY <1>1, <1>2, <1>3, <1>4, <1>5

LEMMA ThreeAreHeld ==
    ASSUME NEW a, NEW b, NEW c PROVE Holds(<<a, b, c>>, {a, b, c})
BY HeldAlone

LEMMA FoldedTwice ==
    ASSUME NEW name, NEW case
    PROVE  P!Folded(P!Folded(name, case), case) = P!Folded(name, case)
<1> DEFINE F == P!Folded(name, case)
           L(x) == IF x \in DOMAIN P!Lowercase THEN P!Lowercase[x] ELSE x
<1>1. CASE case = "sensitive"
  BY <1>1 DEF P!Folded
<1>2. CASE case # "sensitive"
  <2>1. \A x : L(x) \notin DOMAIN P!Lowercase
    <3>1. DOMAIN P!Lowercase = {"A", "Users", "Library", "AppData"}
      BY DEF P!Lowercase
    <3>2. \A x \in DOMAIN P!Lowercase : P!Lowercase[x] \in {"a", "users", "library", "appdata"}
      BY DEF P!Lowercase
    <3>3. /\ "a" \notin {"A", "Users", "Library", "AppData"}
          /\ "users" \notin {"A", "Users", "Library", "AppData"}
          /\ "library" \notin {"A", "Users", "Library", "AppData"}
          /\ "appdata" \notin {"A", "Users", "Library", "AppData"}
      OBVIOUS
    <3> QED BY <3>1, <3>2, <3>3
  <2>2. F = [i \in DOMAIN name |-> L(name[i])]
    BY <1>2 DEF P!Folded
  <2>3. P!Folded(F, case) = [i \in DOMAIN F |-> L(F[i])]
    BY <1>2 DEF P!Folded
  <2> HIDE DEF F, L
  <2>4. DOMAIN F = DOMAIN name /\ \A i \in DOMAIN F : F[i] \notin DOMAIN P!Lowercase
    BY <2>1, <2>2
  <2>5. \A i \in DOMAIN F : L(F[i]) = F[i]
    BY <2>4 DEF L
  <2>6. P!Folded(F, case) = [i \in DOMAIN F |-> F[i]]
    BY <2>3, <2>5
  <2> USE DEF F
  <2> QED BY <2>2, <2>6
<1> QED BY <1>1, <1>2

LEMMA SequencedMeans ==
    ASSUME NEW l, Sequenced(l)
    PROVE  Len(l.names) \in Nat /\ DOMAIN l.names = 1..Len(l.names)
BY DEF Sequenced

LEMMA SequencedIs ==
    ASSUME NEW l, NEW S, l.names \in Seq(S)
    PROVE  Sequenced(l)
<1> DEFINE names == l.names
           N == {names[i] : i \in DOMAIN names}
<1>1. names \in Seq(S) /\ Len(names) \in Nat /\ DOMAIN names = 1..Len(names)
  OBVIOUS
<1> HIDE DEF names
<1>2. names \in [1..Len(names) -> N]
  BY <1>1
<1> HIDE DEF N
<1>3. names \in Seq(N)
  BY <1>1, <1>2, SeqDef
<1> QED BY <1>3 DEF names, N, Sequenced

(* What contains a location, name by name.                                    *)
LEMMA ContainsMeans ==
    ASSUME NEW l, NEW m, NEW case, Sequenced(l), Sequenced(m)
    PROVE  P!Contains(l, m, case) <=>
             /\ l.syntax = m.syntax /\ P!SameRoot(l.root, m.root, case)
             /\ Len(l.names) <= Len(m.names)
             /\ \A i \in 1..Len(l.names) : P!Folded(l.names[i], case) = P!Folded(m.names[i], case)
BY SequencedMeans DEF P!Contains

LEMMA IntervalEnds == \A a, b \in Nat : 1..a = 1..b => a = b
<1> SUFFICES ASSUME NEW a \in Nat, NEW b \in Nat, 1..a = 1..b PROVE a <= b /\ b <= a
  OBVIOUS
<1>1. a # 0 => a \in 1..b
  OBVIOUS
<1>2. b # 0 => b \in 1..a
  OBVIOUS
<1> QED BY <1>1, <1>2

(* A location as it is folded.                                                *)
LEMMA FoldedPlace ==
    ASSUME NEW l, l = [syntax |-> l.syntax, root |-> l.root, names |-> l.names], Sequenced(l),
           NEW case
    PROVE  LET folded == [l EXCEPT !.names = P!FoldedAll(@, case)]
           IN /\ folded.syntax = l.syntax /\ folded.root = l.root
              /\ Sequenced(folded) /\ Len(folded.names) = Len(l.names)
              /\ \A i \in 1..Len(l.names) : P!Folded(folded.names[i], case) = P!Folded(l.names[i], case)
<1> DEFINE names == l.names
           F == P!FoldedAll(names, case)
           S == {P!Folded(names[i], case) : i \in 1..Len(names)}
<1>1. Len(names) \in Nat /\ DOMAIN names = 1..Len(names)
  BY SequencedMeans
<1>2. F = [i \in 1..Len(names) |-> P!Folded(names[i], case)]
  BY <1>1 DEF P!FoldedAll
<1>3. [l EXCEPT !.names = P!FoldedAll(@, case)] = [syntax |-> l.syntax, root |-> l.root, names |-> F]
  BY <1>1
<1> HIDE DEF F, names
<1>4. F \in [1..Len(names) -> S]
  BY <1>2
<1> HIDE DEF S
<1>5. F \in Seq(S)
  BY <1>1, <1>4, SeqDef
<1>6. Len(F) = Len(names)
  <2>1. DOMAIN F = 1..Len(F) /\ Len(F) \in Nat
    BY <1>5, LenProperties
  <2>2. DOMAIN F = 1..Len(names) /\ Len(names) \in Nat
    BY <1>1, <1>4
  <2> QED BY <2>1, <2>2, IntervalEnds
<1>7. \A i \in 1..Len(names) : P!Folded(F[i], case) = P!Folded(names[i], case)
  BY <1>2, FoldedTwice
<1>8. Sequenced([syntax |-> l.syntax, root |-> l.root, names |-> F])
  BY <1>5, SequencedIs
<1> QED BY <1>3, <1>6, <1>7, <1>8 DEF names

(* What a rule reaches.                                                       *)
LEMMA ReachMeans ==
    ASSUME NEW r, NEW l, NEW case, Sequenced(r.anchor), Sequenced(l)
    PROVE  LET n == Len(r.anchor.names)
               holds == P!Contains(r.anchor, l, case)
           IN /\ P!Reaches(r, l, case) => holds
              /\ r.reach = "subtree" => (P!Reaches(r, l, case) <=> holds)
              /\ r.reach = "exact" => (P!Reaches(r, l, case) <=> holds /\ Len(l.names) = n)
              /\ r.reach = "each-child" => (P!Reaches(r, l, case) <=> holds /\ Len(l.names) = n + 1)
              /\ r.reach = "each-child-subtree" =>
                   (P!Reaches(r, l, case) <=>
                      /\ holds /\ Len(l.names) >= n + 2
                      /\ P!Folded(l.names[n + 2], case) = P!Folded(r.named, case))
<1> DEFINE n == Len(r.anchor.names)
           names == l.names
           N == {names[i] : i \in DOMAIN names}
           rest == P!Below(r.anchor, l)
<1>1. /\ n \in Nat /\ Len(names) \in Nat /\ names \in Seq(N)
      /\ P!Contains(r.anchor, l, case) => n <= Len(names)
      /\ rest = SubSeq(names, n + 1, Len(names))
  BY SequencedMeans, ContainsMeans DEF Sequenced, P!Below
<1>2. P!Reaches(r, l, case) =>  P!Contains(r.anchor, l, case)
  BY DEF P!Reaches
<1> SUFFICES ASSUME P!Contains(r.anchor, l, case)
             PROVE  /\ r.reach = "subtree" => P!Reaches(r, l, case)
                    /\ r.reach = "exact" => (P!Reaches(r, l, case) <=> Len(names) = n)
                    /\ r.reach = "each-child" => (P!Reaches(r, l, case) <=> Len(names) = n + 1)
                    /\ r.reach = "each-child-subtree" =>
                         (P!Reaches(r, l, case) <=>
                            /\ Len(names) >= n + 2
                            /\ P!Folded(names[n + 2], case) = P!Folded(r.named, case))
  BY <1>2
<1>3. Len(rest) = Len(names) - n /\ (rest = <<>> <=> Len(names) = n) /\ (Len(names) >= n + 2 => rest[2] = names[n + 2])
  <2>1. n + 1 \in 1..(Len(names) + 1) /\ Len(names) \in n..Len(names)
    BY <1>1
  <2> HIDE DEF n, names, rest, N
  <2>2. /\ rest \in Seq(N) /\ Len(rest) = Len(names) - n
        /\ \A i \in 1..(Len(names) - n) : rest[i] = names[n + i]
    BY <1>1, <2>1, SubSeqProperties
  <2>3. rest = <<>> <=> Len(rest) = 0
    BY <2>2, EmptySeq
  <2> QED BY <1>1, <2>2, <2>3
<1> HIDE DEF n, names
<1>4. P!Reaches(r, l, case) <=>
        CASE r.reach = "subtree" -> TRUE
          [] r.reach = "exact" -> rest = <<>>
          [] r.reach = "each-child" -> Len(rest) = 1
          [] r.reach = "each-child-subtree" ->
               Len(rest) >= 2 /\ P!Folded(rest[2], case) = P!Folded(r.named, case)
  BY DEF P!Reaches
<1> HIDE DEF rest
<1>5. CASE r.reach = "subtree"
  BY <1>4, <1>5
<1>6. CASE r.reach = "exact"
  BY <1>3, <1>4, <1>6
<1>7. CASE r.reach = "each-child"
  BY <1>1, <1>3, <1>4, <1>7
<1>8. CASE r.reach = "each-child-subtree"
  <2>1. Len(rest) >= 2 <=> Len(names) >= n + 2
    BY <1>1, <1>3
  <2>2. ASSUME Len(names) >= n + 2
        PROVE  P!Folded(rest[2], case) = P!Folded(names[n + 2], case)
    <3>1. rest[2] = names[n + 2]
      BY <1>3, <2>2
    <3> QED BY <3>1
  <2>3. P!Reaches(r, l, case) <=> Len(rest) >= 2 /\ P!Folded(rest[2], case) = P!Folded(r.named, case)
    BY <1>4, <1>8
  <2> QED BY <1>8, <2>1, <2>2, <2>3
<1>9. CASE r.reach \notin {"subtree", "exact", "each-child", "each-child-subtree"}
  BY <1>9
<1> QED BY <1>5, <1>6, <1>7, <1>8, <1>9

(* Where a location can be.                                                   *)
Rooted(l) == Sequenced(l) /\ l.root.kind \in {"unix", "drive", "unc"}

LEMMA RootsAlike ==
    ASSUME NEW r, NEW s, NEW t, NEW case,
           {r.kind, s.kind, t.kind} \subseteq {"unix", "drive", "unc"}
    PROVE  /\ P!SameRoot(r, r, case)
           /\ P!SameRoot(r, s, case) => P!SameRoot(s, r, case)
           /\ P!SameRoot(r, s, case) /\ P!SameRoot(s, t, case) => P!SameRoot(r, t, case)
<1> DEFINE Alike(a, b) ==
             /\ a.kind = b.kind
             /\ a.kind = "drive" => a.letter = b.letter
             /\ a.kind = "unc" => /\ P!Folded(a.server, "insensitive") = P!Folded(b.server, "insensitive")
                                  /\ P!Folded(a.share, case) = P!Folded(b.share, case)
<1>1. ASSUME NEW a, NEW b, {a.kind, b.kind} \subseteq {"unix", "drive", "unc"}
      PROVE  P!SameRoot(a, b, case) <=> Alike(a, b)
  <2>1. CASE a.kind # b.kind
    BY <2>1 DEF P!SameRoot
  <2>2. CASE a.kind = "unix" /\ b.kind = "unix"
    BY <2>2 DEF P!SameRoot
  <2>3. CASE a.kind = "drive" /\ b.kind = "drive"
    BY <2>3 DEF P!SameRoot
  <2>4. CASE a.kind = "unc" /\ b.kind = "unc"
    BY <2>4 DEF P!SameRoot
  <2> QED BY <1>1, <2>1, <2>2, <2>3, <2>4
<1>2. /\ P!SameRoot(r, r, case) <=> Alike(r, r)
      /\ P!SameRoot(r, s, case) <=> Alike(r, s)
      /\ P!SameRoot(s, r, case) <=> Alike(s, r)
      /\ P!SameRoot(s, t, case) <=> Alike(s, t)
      /\ P!SameRoot(r, t, case) <=> Alike(r, t)
  <2> HIDE DEF Alike
  <2> QED BY <1>1
<1> QED BY <1>2

LEMMA ContainsOrder ==
    ASSUME NEW a, NEW b, NEW c, NEW case, Rooted(a), Rooted(b), Rooted(c)
    PROVE  /\ P!Contains(a, a, case)
           /\ P!Contains(a, b, case) /\ P!Contains(b, c, case) => P!Contains(a, c, case)
           /\ P!Contains(a, b, case) /\ Len(a.names) = Len(b.names) => P!Contains(b, a, case)
           /\ P!Contains(a, c, case) /\ P!Contains(b, c, case) /\ Len(a.names) <= Len(b.names) =>
                P!Contains(a, b, case)
<1> DEFINE Within(x, y) ==
             /\ x.syntax = y.syntax /\ P!SameRoot(x.root, y.root, case)
             /\ Len(x.names) <= Len(y.names)
             /\ \A i \in 1..Len(x.names) : P!Folded(x.names[i], case) = P!Folded(y.names[i], case)
<1>1. /\ Sequenced(a) /\ Sequenced(b) /\ Sequenced(c)
      /\ Len(a.names) \in Nat /\ Len(b.names) \in Nat /\ Len(c.names) \in Nat
      /\ {a.root.kind, b.root.kind, c.root.kind} \subseteq {"unix", "drive", "unc"}
  BY SequencedMeans DEF Rooted
<1>2. \A x, y \in {a, b, c} : P!Contains(x, y, case) <=> Within(x, y)
  <2> SUFFICES ASSUME NEW x \in {a, b, c}, NEW y \in {a, b, c}
               PROVE  P!Contains(x, y, case) <=> Within(x, y)
    OBVIOUS
  <2>1. Sequenced(x) /\ Sequenced(y)
    BY <1>1
  <2> QED BY <2>1, ContainsMeans
<1>3. /\ P!SameRoot(a.root, a.root, case)
      /\ P!SameRoot(a.root, b.root, case) => P!SameRoot(b.root, a.root, case)
      /\ P!SameRoot(a.root, b.root, case) /\ P!SameRoot(b.root, c.root, case) => P!SameRoot(a.root, c.root, case)
  BY <1>1, RootsAlike
<1>4. P!SameRoot(b.root, c.root, case) => P!SameRoot(c.root, b.root, case)
  BY <1>1, RootsAlike
<1>5. P!SameRoot(a.root, c.root, case) /\ P!SameRoot(c.root, b.root, case) => P!SameRoot(a.root, b.root, case)
  BY <1>1, RootsAlike
<1>6. Within(a, a)
  BY <1>1, <1>3
<1>7. Within(a, b) /\ Within(b, c) => Within(a, c)
  BY <1>1, <1>3
<1>8. Within(a, b) /\ Len(a.names) = Len(b.names) => Within(b, a)
  BY <1>1, <1>3
<1>9. Within(a, c) /\ Within(b, c) /\ Len(a.names) <= Len(b.names) => Within(a, b)
  BY <1>1, <1>4, <1>5
<1> HIDE DEF Within
<1> QED BY <1>2, <1>6, <1>7, <1>8, <1>9

(* The parts of it, by name.                                                 *)
LEMMA ContainsThrough ==
    ASSUME NEW a, NEW b, NEW c, NEW case, Rooted(a), Rooted(b), Rooted(c),
           P!Contains(a, b, case), P!Contains(b, c, case)
    PROVE  P!Contains(a, c, case)
BY ContainsOrder

LEMMA ContainsBoth ==
    ASSUME NEW a, NEW b, NEW c, NEW case, Rooted(a), Rooted(b), Rooted(c),
           P!Contains(a, c, case), P!Contains(b, c, case), Len(a.names) <= Len(b.names)
    PROVE  P!Contains(a, b, case)
BY ContainsOrder

Reachings == {"subtree", "exact", "each-child", "each-child-subtree"}

(* What is said of a location is said of it however it is spelled.            *)
LEMMA SpelledAlike ==
    ASSUME NEW l, NEW f, NEW m, NEW case, Sequenced(l), Sequenced(f), Sequenced(m),
           f.syntax = l.syntax, f.root = l.root, Len(f.names) = Len(l.names),
           \A i \in 1..Len(l.names) : P!Folded(f.names[i], case) = P!Folded(l.names[i], case)
    PROVE  /\ P!Contains(m, f, case) <=> P!Contains(m, l, case)
           /\ P!Contains(f, m, case) <=> P!Contains(l, m, case)
           /\ \A r : r.anchor = m /\ r.reach \in Reachings =>
                 (P!Reaches(r, f, case) <=> P!Reaches(r, l, case))
<1>1. Len(l.names) \in Nat /\ Len(m.names) \in Nat
  BY SequencedMeans
<1>2. P!Contains(m, f, case) <=> P!Contains(m, l, case)
  <2>1. Len(m.names) <= Len(l.names) => 1..Len(m.names) \subseteq 1..Len(l.names)
    BY <1>1
  <2> QED BY <2>1, ContainsMeans
<1>3. P!Contains(f, m, case) <=> P!Contains(l, m, case)
  BY ContainsMeans
<1>4. ASSUME NEW r, r.anchor = m, r.reach \in Reachings
      PROVE  P!Reaches(r, f, case) <=> P!Reaches(r, l, case)
  <2> DEFINE n == Len(m.names)
  <2>1. Len(l.names) >= n + 2 => P!Folded(f.names[n + 2], case) = P!Folded(l.names[n + 2], case)
    BY <1>1
  <2>2. CASE r.reach = "each-child-subtree"
    <3>1. P!Reaches(r, f, case) <=>
            /\ P!Contains(m, f, case) /\ Len(f.names) >= n + 2
            /\ P!Folded(f.names[n + 2], case) = P!Folded(r.named, case)
      BY <1>4, <2>2, ReachMeans
    <3>2. P!Reaches(r, l, case) <=>
            /\ P!Contains(m, l, case) /\ Len(l.names) >= n + 2
            /\ P!Folded(l.names[n + 2], case) = P!Folded(r.named, case)
      BY <1>4, <2>2, ReachMeans
    <3> QED BY <1>2, <2>1, <3>1, <3>2
  <2>3. CASE r.reach = "subtree"
    BY <1>2, <1>4, <2>3, ReachMeans
  <2>4. CASE r.reach = "exact"
    BY <1>2, <1>4, <2>4, ReachMeans
  <2>5. CASE r.reach = "each-child"
    BY <1>2, <1>4, <2>5, ReachMeans
  <2> QED BY <1>4, <2>2, <2>3, <2>4, <2>5 DEF Reachings
<1> QED BY <1>2, <1>3, <1>4

LEMMA LeastExists == ASSUME NEW S, S \subseteq Nat, S # {} PROVE \E n \in S : \A m \in S : n <= m
<1>1. PICK n \in S : \A m \in S : ~(<<m, n>> \in OpToRel(<, Nat))
  BY NatLessThanWellFounded, WFMin
<1>2. \A m \in S : ~(m < n)
  BY <1>1 DEF OpToRel
<1> QED BY <1>2

(* The area of a location, by the rules that reach it.                        *)
LEMMA AreaMeans ==
    ASSUME NEW p, NEW R, NEW l, Holds(p.rules, R)
    PROVE  /\ \/ l.syntax # p.syntax \/ l.names = <<>>
              \/ P!Contains(l, p.cwd, p.case) \/ P!Contains(l, p.exe, p.case)
              => P!AreaOf(p, l) = "system"
           /\ \/ P!AreaOf(p, l) = "system"
              \/ P!AreaOf(p, l) = "open" /\ \A r \in R : ~P!Reaches(r, l, p.case)
              \/ \E r \in R : P!Reaches(r, l, p.case) /\ P!AreaOf(p, l) = r.area
<1> DEFINE reaching == {i \in DOMAIN p.rules : P!Reaches(p.rules[i], l, p.case)}
           first == CHOOSE i \in reaching : \A j \in reaching : i <= j
<1>1. CASE \/ l.syntax # p.syntax \/ l.names = <<>>
           \/ P!Contains(l, p.cwd, p.case) \/ P!Contains(l, p.exe, p.case)
  BY <1>1 DEF P!AreaOf
<1>2. CASE ~(\/ l.syntax # p.syntax \/ l.names = <<>>
             \/ P!Contains(l, p.cwd, p.case) \/ P!Contains(l, p.exe, p.case))
  <2>1. P!AreaOf(p, l) = IF reaching = {} THEN "open" ELSE p.rules[first].area
    BY <1>2 DEF P!AreaOf
  <2>2. R = {p.rules[i] : i \in DOMAIN p.rules} /\ DOMAIN p.rules \subseteq Nat
    BY DEF Holds
  <2>3. CASE reaching = {}
    BY <1>2, <2>1, <2>2, <2>3
  <2>4. CASE reaching # {}
    <3>1. first \in reaching
      <4>1. reaching \subseteq Nat
        BY <2>2
      <4> HIDE DEF reaching
      <4> QED BY <2>4, <4>1, LeastExists
    <3>2. p.rules[first] \in R /\ P!Reaches(p.rules[first], l, p.case)
      <4> HIDE DEF first
      <4> QED BY <2>2, <3>1
    <3> HIDE DEF first, reaching
    <3> QED BY <1>2, <2>1, <2>4, <3>2
  <2> QED BY <2>3, <2>4
<1> QED BY <1>1, <1>2

LEMMA AreaAsSpelled ==
    ASSUME NEW p, NEW R, NEW l, NEW f, Holds(p.rules, R), Sequenced(l), Sequenced(f),
           Sequenced(p.cwd), Sequenced(p.exe),
           \A r \in R : Sequenced(r.anchor) /\ r.reach \in Reachings,
           f.syntax = l.syntax, f.root = l.root, Len(f.names) = Len(l.names),
           \A i \in 1..Len(l.names) : P!Folded(f.names[i], p.case) = P!Folded(l.names[i], p.case)
    PROVE  P!AreaOf(p, f) = P!AreaOf(p, l)
<1> DEFINE reaching(m) == {i \in DOMAIN p.rules : P!Reaches(p.rules[i], m, p.case)}
<1>1. \A i \in DOMAIN p.rules : p.rules[i] \in R
  BY DEF Holds
<1>2. reaching(f) = reaching(l)
  <2>1. \A i \in DOMAIN p.rules : P!Reaches(p.rules[i], f, p.case) <=> P!Reaches(p.rules[i], l, p.case)
    BY <1>1, SpelledAlike
  <2> QED BY <2>1
<1>3. /\ P!Contains(f, p.cwd, p.case) <=> P!Contains(l, p.cwd, p.case)
      /\ P!Contains(f, p.exe, p.case) <=> P!Contains(l, p.exe, p.case)
  BY SpelledAlike
<1>4. f.names = <<>> <=> l.names = <<>>
  BY EmptySeq DEF Sequenced
<1> DEFINE Out(m, s) ==
             IF \/ m.syntax # p.syntax \/ m.names = <<>>
                \/ P!Contains(m, p.cwd, p.case) \/ P!Contains(m, p.exe, p.case)
             THEN "system"
             ELSE IF s = {} THEN "open"
             ELSE p.rules[CHOOSE i \in s : \A j \in s : i <= j].area
<1>5. P!AreaOf(p, f) = Out(f, reaching(f)) /\ P!AreaOf(p, l) = Out(l, reaching(l))
  BY DEF P!AreaOf
<1> HIDE DEF reaching
<1>6. Out(f, reaching(f)) = Out(l, reaching(l))
  BY <1>2, <1>3, <1>4
<1> QED BY <1>5, <1>6

-------------------------------------------------------------------------------
(* A host, its home and the directory of the homes.                           *)
CaseAt(host) == P!CaseOf(host.platform)
HasHome(host) == host.home # P!Nowhere
HasUsers(host) == Users(host) # P!Nowhere

LEMMA LocationIs ==
    ASSUME NEW platform, NEW l \in Locations(platform)
    PROVE  /\ Rooted(l) /\ l.syntax = P!SyntaxOf(platform) /\ l # P!Nowhere
           /\ l = [syntax |-> l.syntax, root |-> l.root, names |-> l.names]
           /\ platform # "windows" => l.root = P!UnixRoot
<1>1. /\ l.syntax = P!SyntaxOf(platform) /\ l.names \in Seq(Seq(STRING))
      /\ l = [syntax |-> l.syntax, root |-> l.root, names |-> l.names]
      /\ platform # "windows" => l.root = P!UnixRoot
      /\ platform = "windows" => l.root.kind \in {"drive", "unc"}
  BY DEF Locations
<1>2. P!UnixRoot.kind = "unix"
  BY DEF P!UnixRoot
<1>3. l # P!Nowhere
  BY <1>1 DEF P!Nowhere, P!At, P!SyntaxOf
<1> QED BY <1>1, <1>2, <1>3, SequencedIs DEF Rooted

LEMMA HostIs ==
    ASSUME NEW host, IsHost(host)
    PROVE  /\ host.platform \in {"macos", "linux", "windows"}
           /\ Rooted(host.cwd) /\ host.cwd.syntax = P!SyntaxOf(host.platform)
           /\ Rooted(host.exe) /\ host.exe.syntax = P!SyntaxOf(host.platform)
           /\ \A l \in {host.home, host.temp, host.cache} :
                l # P!Nowhere => l \in Locations(host.platform)
           /\ Len(host.programs) \in Nat
           /\ host.programs \in [1..Len(host.programs) -> Locations(host.platform)]
<1>1. host.platform \in {"macos", "linux", "windows"}
  BY DEF IsHost, P!Platforms
<1>2. host.cwd \in Locations(host.platform) /\ host.exe \in Locations(host.platform)
  BY DEF IsHost
<1>3. \A l \in {host.home, host.temp, host.cache} :
        l # P!Nowhere => l \in Locations(host.platform)
  BY DEF IsHost
<1>4. host.programs \in Seq(Locations(host.platform))
  BY DEF IsHost
<1>5. /\ Len(host.programs) \in Nat
      /\ host.programs \in [1..Len(host.programs) -> Locations(host.platform)]
  <2> DEFINE here == Locations(host.platform)
  <2>1. host.programs \in Seq(here)
    BY <1>4
  <2> HIDE DEF here
  <2>2. Len(host.programs) \in Nat /\ host.programs \in [1..Len(host.programs) -> here]
    BY <2>1
  <2> QED BY <2>2 DEF here
<1> QED BY <1>1, <1>2, <1>3, <1>5, LocationIs

(* Where the homes of a host are.                                             *)
LEMMA UsersAre ==
    ASSUME NEW host, IsHost(host)
    PROVE  LET users == Users(host)
               case == CaseAt(host)
           IN /\ HasHome(host) => /\ Rooted(host.home) /\ host.home.syntax = P!SyntaxOf(host.platform)
                                 /\ Len(host.home.names) \in 1..2
              /\ HasUsers(host) => /\ Rooted(users) /\ users.syntax = P!SyntaxOf(host.platform)
                                  /\ Len(users.names) \in 0..1
              /\ host.platform # "windows" => HasUsers(host) /\ Len(users.names) = 1
              /\ host.platform = "windows" => (HasUsers(host) <=> HasHome(host))
              /\ HasHome(host) =>
                   \/ /\ Len(host.home.names) = Len(users.names) + 1
                      /\ P!Contains(users, host.home, case)
                   \/ /\ host.platform # "windows" /\ Len(host.home.names) = 1
                      /\ ~P!Contains(users, host.home, case)
<1> DEFINE users == Users(host)
           home == host.home
           case == CaseAt(host)
<1>1. HasHome(host) => home \in Locations(host.platform)
  BY HostIs DEF HasHome
<1>2. HasHome(host) => /\ Rooted(home) /\ home.syntax = P!SyntaxOf(host.platform)
                       /\ home = [syntax |-> home.syntax, root |-> home.root, names |-> home.names]
                       /\ home.names \in Seq(Seq(STRING))
  BY <1>1, LocationIs DEF Locations
<1>3. HasHome(host) =>
        \/ Len(home.names) = 1 /\ ~P!SamePlace(users, home, case)
        \/ Len(home.names) = 2 /\ P!Contains(users, home, case)
  BY DEF IsHost, HomeIsAtHome, HasHome, CaseAt
<1>4. CASE host.platform # "windows"
  <2>1. users = [syntax |-> "unix", root |-> [kind |-> "unix"], names |-> <<UsersName(host.platform)>>]
    BY <1>4 DEF Users, P!At, P!UnixRoot
  <2>2. /\ users.names = <<UsersName(host.platform)>> /\ Len(users.names) = 1
        /\ users.syntax = "unix" /\ users.root.kind = "unix"
        /\ P!SyntaxOf(host.platform) = "unix"
    BY <1>4, <2>1 DEF P!SyntaxOf
  <2>3. users.names \in Seq({UsersName(host.platform)})
    BY <2>2
  <2>4. Rooted(users) /\ HasUsers(host)
    <3>1. P!Nowhere.syntax = "none"
      BY DEF P!Nowhere, P!At
    <3> HIDE DEF users
    <3> QED BY <2>2, <2>3, <3>1, SequencedIs DEF Rooted, HasUsers, users
  <2>5. ASSUME HasHome(host), Len(home.names) = 1, P!Contains(users, home, case)
        PROVE  P!SamePlace(users, home, case)
    <3>1. SubSeq(home.names, 2, 1) = <<>>
      <4> DEFINE names == home.names
      <4>1. names \in Seq(Seq(STRING))
        BY <1>2, <2>5
      <4> HIDE DEF names
      <4> QED BY <4>1
    <3>2. P!Below(users, home) = <<>>
      BY <2>2, <2>5, <3>1 DEF P!Below
    <3> QED BY <2>5, <3>2 DEF P!SamePlace
  <2> QED BY <1>2, <1>3, <1>4, <2>2, <2>4, <2>5
<1>5. CASE host.platform = "windows" /\ ~HasHome(host)
  BY <1>5 DEF Users, HasHome, HasUsers
<1>6. CASE host.platform = "windows" /\ HasHome(host)
  <2> DEFINE n == Len(home.names)
  <2>1. users = [home EXCEPT !.names = SubSeq(@, 1, n - 1)]
    BY <1>6 DEF Users, HasHome, P!Parent
  <2>2. users = [syntax |-> home.syntax, root |-> home.root, names |-> SubSeq(home.names, 1, n - 1)]
    BY <1>2, <1>6, <2>1
  <2>3. /\ SubSeq(home.names, 1, n - 1) \in Seq(Seq(STRING))
        /\ Len(SubSeq(home.names, 1, n - 1)) = n - 1 /\ n \in 1..2
        /\ \A i \in 1..(n - 1) : SubSeq(home.names, 1, n - 1)[i] = home.names[i]
    <3> DEFINE names == home.names
               Names == Seq(STRING)
    <3>1. names \in Seq(Names) /\ n = Len(names) /\ n \in 1..2
      BY <1>2, <1>3, <1>6
    <3> HIDE DEF names, n, Names
    <3>2. /\ SubSeq(names, 1, n - 1) \in Seq(Names) /\ Len(SubSeq(names, 1, n - 1)) = n - 1
          /\ \A i \in 1..(n - 1) : SubSeq(names, 1, n - 1)[i] = names[i]
      BY <3>1
    <3> QED BY <3>1, <3>2 DEF names, n, Names
  <2>4. Rooted(users) /\ HasUsers(host) /\ Len(users.names) = n - 1 /\ users.syntax = home.syntax
    <3>1. P!Nowhere.syntax = "none" /\ home.syntax = "windows"
      BY <1>2, <1>6 DEF P!Nowhere, P!At, P!SyntaxOf
    <3>2. users.names \in Seq(Seq(STRING)) /\ users.root.kind \in {"unix", "drive", "unc"}
      BY <1>2, <1>6, <2>2, <2>3 DEF Rooted
    <3>3. Sequenced(users)
      BY <3>2, SequencedIs
    <3>4. users.syntax = home.syntax /\ Len(users.names) = n - 1
      BY <2>2, <2>3
    <3> HIDE DEF users
    <3> QED BY <3>1, <3>2, <3>3, <3>4 DEF Rooted, HasUsers, users
  <2>5. P!Contains(users, home, case)
    <3>1. P!SameRoot(home.root, home.root, case)
      BY <1>2, <1>6, RootsAlike DEF Rooted
    <3>2. Sequenced(users) /\ Sequenced(home)
      BY <1>2, <1>6, <2>4 DEF Rooted
    <3>3. /\ users.syntax = home.syntax /\ users.root = home.root /\ Len(users.names) <= n
          /\ \A i \in 1..Len(users.names) : users.names[i] = home.names[i]
      BY <2>2, <2>3, <2>4
    <3> HIDE DEF users, home
    <3> QED BY <3>1, <3>2, <3>3, ContainsMeans
  <2> QED BY <1>2, <1>6, <2>3, <2>4, <2>5
<1> QED BY <1>4, <1>5, <1>6

(* The home, the directory of the homes and the homes in it.                  *)
Homely(host, l) ==
    \/ /\ HasHome(host) /\ P!Contains(host.home, l, CaseAt(host))
       /\ Len(l.names) = Len(host.home.names)
    \/ /\ HasUsers(host) /\ P!Contains(Users(host), l, CaseAt(host))
       /\ Len(l.names) \in {Len(Users(host).names), Len(Users(host).names) + 1}

LEMMA NotBelowHome ==
    ASSUME NEW host, IsHost(host), NEW l, Rooted(l), Homely(host, l), NEW a, Rooted(a),
           HasHome(host), P!Contains(host.home, a, CaseAt(host)),
           Len(a.names) > Len(host.home.names)
    PROVE  ~P!Contains(a, l, CaseAt(host))
<1> DEFINE users == Users(host)
           home == host.home
           case == CaseAt(host)
<1> SUFFICES ASSUME P!Contains(a, l, case) PROVE FALSE
  OBVIOUS
<1>1. /\ Rooted(home) /\ Len(home.names) \in 1..2
      /\ HasUsers(host) => Rooted(users) /\ Len(users.names) \in 0..1
      /\ \/ Len(home.names) = Len(users.names) + 1
         \/ /\ HasUsers(host) /\ Len(users.names) = 1 /\ Len(home.names) = 1
            /\ ~P!Contains(users, home, case)
  BY UsersAre
<1>2. Len(a.names) <= Len(l.names) /\ Len(a.names) \in Nat /\ Len(l.names) \in Nat
  BY ContainsMeans, SequencedMeans DEF Rooted
<1>3. P!Contains(home, l, case)
  BY <1>1, ContainsOrder
<1>5. ~(/\ HasHome(host) /\ P!Contains(home, l, case) /\ Len(l.names) = Len(home.names))
  BY <1>1, <1>2
<1>6. /\ HasUsers(host) /\ P!Contains(users, l, case)
      /\ Len(l.names) \in {Len(users.names), Len(users.names) + 1}
  BY <1>5 DEF Homely
<1> HIDE DEF users, home, case
<1>7. Len(users.names) = 1 /\ Len(home.names) = 1 /\ ~P!Contains(users, home, case)
  <2>1. Len(l.names) >= Len(home.names) + 1
    BY <1>1, <1>2 DEF home
  <2>2. Len(home.names) # Len(users.names) + 1
    BY <1>1, <1>6, <2>1
  <2> QED BY <1>1, <2>2
<1>8. P!Contains(users, home, case)
  <2>1. Rooted(users) /\ Rooted(home)
    BY <1>1, <1>6
  <2>2. /\ P!Contains(users, l, case) /\ P!Contains(home, l, case)
        /\ Len(users.names) <= Len(home.names)
    BY <1>3, <1>6, <1>7
  <2> QED BY <2>1, <2>2, ContainsBoth
<1> QED BY <1>7, <1>8

LEMMA NotBeside ==
    ASSUME NEW host, IsHost(host), NEW l, Rooted(l), Homely(host, l), NEW a, Rooted(a),
           a # P!Nowhere, LiesBesideHomes(host, a)
    PROVE  ~P!Contains(a, l, CaseAt(host))
<1> DEFINE users == Users(host)
           home == host.home
           case == CaseAt(host)
<1> SUFFICES ASSUME P!Contains(a, l, case) PROVE FALSE
  OBVIOUS
<1>1. /\ HasHome(host) => Rooted(home) /\ Len(home.names) \in Nat
      /\ HasUsers(host) => Rooted(users) /\ Len(users.names) \in Nat
  BY UsersAre
<1>2. /\ Len(a.names) <= Len(l.names) /\ Len(a.names) \in Nat /\ Len(l.names) \in Nat
  BY ContainsMeans, SequencedMeans DEF Rooted
<1>3. /\ ~P!Contains(a, home, case) /\ ~P!Contains(a, users, case)
      /\ P!Contains(users, a, case) => Len(a.names) >= Len(users.names) + 2
  BY DEF LiesBesideHomes, CaseAt
<1>4. CASE HasHome(host) /\ P!Contains(home, l, case) /\ Len(l.names) = Len(home.names)
  BY <1>1, <1>2, <1>3, <1>4, ContainsOrder
<1>5. CASE /\ HasUsers(host) /\ P!Contains(users, l, case)
           /\ Len(l.names) \in {Len(users.names), Len(users.names) + 1}
  <2>1. CASE Len(a.names) <= Len(users.names)
    <3>1. P!Contains(a, users, case)
      BY <1>1, <1>5, <2>1, ContainsOrder
    <3> QED BY <1>3, <3>1
  <2>2. CASE Len(a.names) > Len(users.names)
    <3>1. P!Contains(users, a, case)
      BY <1>1, <1>2, <1>5, <2>2, ContainsOrder
    <3> QED BY <1>1, <1>2, <1>3, <1>5, <3>1
  <2> QED BY <1>1, <1>2, <2>1, <2>2
<1> QED BY <1>4, <1>5 DEF Homely

LEMMA NotElsewhere ==
    ASSUME NEW host, IsHost(host), host.platform # "windows", NEW l, Rooted(l), Homely(host, l),
           NEW a, Rooted(a), Len(a.names) >= 2, ~P!Contains(Users(host), a, CaseAt(host))
    PROVE  ~P!Contains(a, l, CaseAt(host))
<1> DEFINE users == Users(host)
           home == host.home
           case == CaseAt(host)
<1> SUFFICES ASSUME P!Contains(a, l, case) PROVE FALSE
  OBVIOUS
<1>1. /\ HasUsers(host) /\ Rooted(users) /\ Len(users.names) = 1
      /\ HasHome(host) =>
           /\ Rooted(home)
           /\ (Len(home.names) = 2 /\ P!Contains(users, home, case)) \/ Len(home.names) = 1
  BY UsersAre
<1>2. /\ Len(a.names) <= Len(l.names) /\ Len(a.names) \in Nat /\ Len(l.names) \in Nat
  BY ContainsMeans, SequencedMeans DEF Rooted
<1>3. P!Contains(users, l, case)
  <2>1. CASE HasHome(host) /\ P!Contains(home, l, case) /\ Len(l.names) = Len(home.names)
    <3>1. Len(home.names) = 2 /\ P!Contains(users, home, case)
      <4>1. Len(l.names) >= 2
        BY <1>2
      <4>2. Len(home.names) # 1
        <5> DEFINE n == Len(home.names)
                   m == Len(l.names)
        <5>1. n = m /\ m >= 2
          BY <2>1, <4>1
        <5> HIDE DEF n, m
        <5>2. n # 1
          BY <5>1
        <5> QED BY <5>2 DEF n
      <4> QED BY <1>1, <2>1, <4>2
    <3>2. Rooted(users) /\ Rooted(home) /\ P!Contains(home, l, case)
      BY <1>1, <2>1
    <3> QED BY <3>1, <3>2, ContainsThrough
  <2> QED BY <2>1 DEF Homely
<1>4. P!Contains(users, a, case)
  <2>1. Rooted(users) /\ Len(users.names) <= Len(a.names)
    BY <1>1, <1>2
  <2> QED BY <1>3, <2>1, ContainsBoth
<1> QED BY <1>4

(* A rule that is written for a host, and leaves the homes to those of homes. *)
Proper(host, r) ==
    /\ Rooted(r.anchor) /\ r.anchor.syntax = P!SyntaxOf(host.platform)
    /\ r.reach \in Reachings /\ r.area \in {"app", "system"}
    /\ r.area = "app" =>
         \A l : Rooted(l) /\ Homely(host, l) => ~P!Reaches(r, l, CaseAt(host))

LEMMA ProperRules ==
    ASSUME NEW host, IsHost(host), NEW a, Rooted(a), a.syntax = P!SyntaxOf(host.platform)
    PROVE  /\ Proper(host, P!System(a))
           /\ \A why : Proper(host, P!Exactly(why, a)) /\ Proper(host, P!EachChild(why, a))
           /\ (\A l : Rooted(l) /\ Homely(host, l) => ~P!Contains(a, l, CaseAt(host)))
                => Proper(host, P!App(a))
           /\ HasUsers(host) /\ a = Users(host) => \A name : Proper(host, P!AppInEach(a, name))
<1>1. Proper(host, P!System(a))
  BY DEF Proper, P!System, P!Rule, Reachings
<1>2. ASSUME NEW why PROVE Proper(host, P!Exactly(why, a)) /\ Proper(host, P!EachChild(why, a))
  BY DEF Proper, P!Exactly, P!EachChild, P!Rule, Reachings
<1>3. ASSUME \A l : Rooted(l) /\ Homely(host, l) => ~P!Contains(a, l, CaseAt(host))
      PROVE  Proper(host, P!App(a))
  <2>1. P!App(a).anchor = a /\ P!App(a).reach = "subtree" /\ P!App(a).area = "app"
    BY DEF P!App, P!Rule
  <2>2. ASSUME NEW l, Rooted(l), Homely(host, l) PROVE ~P!Reaches(P!App(a), l, CaseAt(host))
    BY <1>3, <2>1, <2>2, ReachMeans DEF Rooted
  <2> QED BY <2>1, <2>2 DEF Proper, Reachings
<1>4. ASSUME HasUsers(host), a = Users(host), NEW name PROVE Proper(host, P!AppInEach(a, name))
  <2> DEFINE r == P!AppInEach(a, name)
  <2>1. r.anchor = a /\ r.reach = "each-child-subtree" /\ r.area = "app" /\ r.named = name
    BY DEF P!AppInEach, P!App, P!Rule
  <2> HIDE DEF r
  <2>2. ASSUME NEW l, Rooted(l), Homely(host, l), P!Reaches(r, l, CaseAt(host)) PROVE FALSE
    <3>1. Len(l.names) >= Len(a.names) + 2 /\ Len(l.names) \in Nat /\ Len(a.names) \in Nat
      BY <2>1, <2>2, ReachMeans, SequencedMeans DEF Rooted
    <3>2. HasHome(host) => Len(host.home.names) <= Len(a.names) + 1
      <4>1. HasHome(host) => \/ Len(host.home.names) = Len(Users(host).names) + 1
                             \/ Len(host.home.names) = 1
        BY UsersAre
      <4>2. Len(Users(host).names) = Len(a.names)
        BY <1>4
      <4>3. Len(a.names) \in Nat
        BY <3>1
      <4> DEFINE n == Len(host.home.names)
                 m == Len(a.names)
      <4>4. HasHome(host) => n = m + 1 \/ n = 1
        BY <4>1, <4>2
      <4>5. m \in Nat
        BY <4>3
      <4> HIDE DEF n, m
      <4>6. HasHome(host) => n <= m + 1
        BY <4>4, <4>5 DEF HasHome
      <4> QED BY <4>6 DEF n, m
    <3>3. \/ HasHome(host) /\ Len(l.names) = Len(host.home.names)
          \/ Len(l.names) \in {Len(a.names), Len(a.names) + 1}
      BY <1>4, <2>2 DEF Homely
    <3> QED BY <3>1, <3>2, <3>3
  <2> QED BY <2>1, <2>2 DEF Proper, Reachings, r
<1> QED BY <1>1, <1>2, <1>3, <1>4

-------------------------------------------------------------------------------
(* The rules of each table, and what they are.                                *)
LEMMA JoinIs ==
    ASSUME NEW l, Rooted(l), l = [syntax |-> l.syntax, root |-> l.root, names |-> l.names],
           NEW name, NEW case
    PROVE  LET j == P!Join(l, name)
           IN /\ Rooted(j) /\ j.syntax = l.syntax /\ P!Contains(l, j, case)
              /\ Len(j.names) > Len(l.names) /\ Len(j.names) \in Nat /\ Len(l.names) \in Nat
              /\ j = [syntax |-> j.syntax, root |-> j.root, names |-> j.names]
<1> DEFINE names == l.names
           N == {names[i] : i \in DOMAIN names} \cup {name}
           longer == Append(names, name)
           j == [syntax |-> l.syntax, root |-> l.root, names |-> longer]
<1>1. P!Join(l, name) = j
  BY DEF P!Join
<1>2. names \in Seq(N) /\ Len(names) \in Nat
  <2>1. names \in Seq({names[i] : i \in DOMAIN names})
    BY DEF Rooted, Sequenced
  <2> HIDE DEF names
  <2> QED BY <2>1, SeqDef
<1>3. /\ longer \in Seq(N) /\ Len(longer) = Len(names) + 1
      /\ \A i \in 1..Len(names) : longer[i] = names[i]
  <2>1. name \in N
    OBVIOUS
  <2> HIDE DEF names, N
  <2> QED BY <1>2, <2>1, AppendProperties
<1> HIDE DEF longer
<1>4. j.names \in Seq(N) /\ j.syntax = l.syntax /\ j.root = l.root /\ j.names = longer
  BY <1>3
<1>5. Rooted(j)
  BY <1>4, SequencedIs DEF Rooted
<1>6. P!SameRoot(l.root, l.root, case)
  BY RootsAlike DEF Rooted
<1>7. P!Contains(l, j, case)
  <2>1. Sequenced(l) /\ Sequenced(j)
    BY <1>5 DEF Rooted
  <2>2. Len(names) <= Len(longer) /\ Len(longer) > Len(names) /\ Len(longer) \in Nat
    <3> HIDE DEF names
    <3> QED BY <1>2, <1>3
  <2> HIDE DEF j
  <2> QED BY <1>3, <1>4, <1>6, <2>1, <2>2, ContainsMeans
<1>8. Len(j.names) > Len(l.names) /\ Len(j.names) \in Nat /\ Len(l.names) \in Nat
  <2>1. Len(longer) > Len(names) /\ Len(longer) \in Nat
    <3> HIDE DEF names
    <3> QED BY <1>2, <1>3
  <2> QED BY <1>2, <1>4, <2>1
<1>9. j = [syntax |-> j.syntax, root |-> j.root, names |-> j.names]
  OBVIOUS
<1> HIDE DEF j
<1> QED BY <1>1, <1>4, <1>5, <1>7, <1>8, <1>9

LEMMA UnixIs ==
    ASSUME NEW S, NEW words \in Seq(S)
    PROVE  LET l == P!Unix(words)
           IN /\ Rooted(l) /\ l.syntax = "unix" /\ l # P!Nowhere /\ l.root = P!UnixRoot
              /\ Len(l.names) = Len(words) /\ Len(words) \in Nat
              /\ \A i \in 1..Len(words) : l.names[i] = <<words[i]>>
<1> DEFINE names == [i \in DOMAIN words |-> <<words[i]>>]
           N == {<<words[i]>> : i \in DOMAIN words}
           l == P!Unix(words)
<1>1. l = [syntax |-> "unix", root |-> P!UnixRoot, names |-> names]
  BY DEF P!Unix, P!At
<1>2. Len(words) \in Nat /\ DOMAIN words = 1..Len(words)
  OBVIOUS
<1>3. names \in [1..Len(words) -> N]
  BY <1>2
<1>4. \A i \in 1..Len(words) : names[i] = <<words[i]>>
  BY <1>2
<1> HIDE DEF names, N
<1>5. names \in Seq(N)
  <2> DEFINE n == Len(words)
  <2>1. n \in Nat /\ names \in [1..n -> N]
    BY ONLY <1>2, <1>3, Zenon
  <2> HIDE DEF n
  <2> QED BY ONLY <2>1, SeqDef
<1>6. Len(names) = Len(words)
  <2>1. DOMAIN names = 1..Len(names) /\ Len(names) \in Nat
    BY <1>5, LenProperties
  <2>2. DOMAIN names = 1..Len(words)
    BY <1>3
  <2> QED BY <1>2, <2>1, <2>2, IntervalEnds
<1>7. l.names = names /\ l.syntax = "unix" /\ l.root = P!UnixRoot
  BY <1>1
<1>8. P!Nowhere.syntax = "none" /\ P!UnixRoot.kind = "unix"
  BY DEF P!Nowhere, P!At, P!UnixRoot
<1> HIDE DEF l
<1>9. Sequenced(l)
  BY <1>5, <1>7, SequencedIs
<1>10. Rooted(l) /\ l # P!Nowhere
  BY <1>7, <1>8, <1>9 DEF Rooted
<1> QED BY <1>2, <1>4, <1>6, <1>7, <1>10 DEF l

(* What lies elsewhere than the homes, by its first name.                     *)
LEMMA ElsewhereIs ==
    ASSUME NEW host, IsHost(host), host.platform # "windows", NEW S, NEW words \in Seq(S),
           Len(words) >= 2, words[1] \in {"private", "var"}
    PROVE  Proper(host, P!App(P!Unix(words)))
<1> DEFINE a == P!Unix(words)
           users == Users(host)
           case == CaseAt(host)
<1>1. /\ Rooted(a) /\ a.syntax = "unix" /\ Len(a.names) >= 2 /\ a.names[1] = <<words[1]>>
  <2>1. 1 \in 1..Len(words)
    OBVIOUS
  <2> QED BY <2>1, UnixIs
<1>2. users.names = <<UsersName(host.platform)>> /\ Rooted(users)
  <2>1. Rooted(users)
    BY UsersAre
  <2> QED BY <2>1 DEF Users, P!At
<1>3. UsersName(host.platform) \in {<<"home">>, <<"Users">>}
  BY DEF UsersName
<1>4. \A w \in {"private", "var"} : P!Folded(<<w>>, case)[1] = w
  <2>1. DOMAIN P!Lowercase = {"A", "Users", "Library", "AppData"}
    BY DEF P!Lowercase
  <2> QED BY <2>1 DEF P!Folded
<1>5. \A w \in {"home", "Users"} : P!Folded(<<w>>, case)[1] \in {"home", "Users", "users"}
  <2>1. P!Lowercase["Users"] = "users" /\ DOMAIN P!Lowercase = {"A", "Users", "Library", "AppData"}
    BY DEF P!Lowercase
  <2> QED BY <2>1 DEF P!Folded
<1>6. ~P!Contains(users, a, case)
  <2> SUFFICES ASSUME P!Contains(users, a, case) PROVE FALSE
    OBVIOUS
  <2>1. 1 \in 1..Len(users.names) /\ users.names[1] = UsersName(host.platform)
    BY <1>2
  <2>2. P!Folded(users.names[1], case) = P!Folded(a.names[1], case)
    <3> HIDE DEF users, a, case
    <3> QED BY <1>1, <1>2, <2>1, ContainsMeans DEF Rooted
  <2>3. P!Folded(a.names[1], case)[1] \in {"private", "var"}
    <3> HIDE DEF a, case
    <3> QED BY <1>1, <1>4
  <2>4. P!Folded(users.names[1], case)[1] \in {"home", "Users", "users"}
    <3> HIDE DEF users, case
    <3> QED BY <1>3, <1>5, <2>1
  <2> HIDE DEF users, a, case
  <2> QED BY <2>2, <2>3, <2>4
<1>7. \A l : Rooted(l) /\ Homely(host, l) => ~P!Contains(a, l, case)
  <2> HIDE DEF a
  <2> QED BY <1>1, <1>6, NotElsewhere
<1>8. P!SyntaxOf(host.platform) = "unix"
  BY DEF P!SyntaxOf
<1> HIDE DEF a
<1> QED BY <1>1, <1>7, <1>8, ProperRules DEF a

(* A table is of proper rules, and has those of the homes.                    *)
Serves(host, R) ==
    /\ \A r \in R : Proper(host, r)
    /\ HasHome(host) => P!Exactly("profile", host.home) \in R
    /\ HasUsers(host) =>
         /\ P!Exactly("users", Users(host)) \in R /\ P!EachChild("profile", Users(host)) \in R
         /\ P!AppInEach(Users(host), KeptName(host.platform)) \in R

LEMMA HeldIf ==
    ASSUME NEW l, NEW r PROVE Holds(P!If(l, <<r>>), IF l = P!Nowhere THEN {} ELSE {r})
BY HeldAlone DEF P!If

(* The rules that tables share.                                               *)
LEMMA SharedRules ==
    ASSUME NEW host, IsHost(host)
    PROVE  /\ HasHome(host) =>
                /\ Proper(host, P!Exactly("profile", host.home))
                /\ \A name : Proper(host, P!App(P!Join(host.home, name)))
                /\ \A n, m : Proper(host, P!App(P!Join(P!Join(host.home, n), m)))
           /\ HasUsers(host) =>
                /\ Proper(host, P!Exactly("users", Users(host)))
                /\ Proper(host, P!EachChild("profile", Users(host)))
                /\ \A name : Proper(host, P!AppInEach(Users(host), name))
           /\ host.platform # "windows" =>
                \A l \in {host.cache, TempOf(host)} :
                   Rooted(l) /\ l.syntax = "unix" /\ l # P!Nowhere => Proper(host, P!App(l))
<1> DEFINE home == host.home
           users == Users(host)
           case == CaseAt(host)
<1>1. HasHome(host) => /\ Rooted(home) /\ home.syntax = P!SyntaxOf(host.platform)
                       /\ home = [syntax |-> home.syntax, root |-> home.root, names |-> home.names]
  BY HostIs, LocationIs DEF HasHome
<1>2. ASSUME HasHome(host), NEW j, Rooted(j), j.syntax = home.syntax, P!Contains(home, j, case),
             Len(j.names) > Len(home.names)
      PROVE  Proper(host, P!App(j))
  <2>1. \A l : Rooted(l) /\ Homely(host, l) => ~P!Contains(j, l, case)
    BY <1>2, NotBelowHome
  <2> QED BY <1>1, <1>2, <2>1, ProperRules
<1>3. ASSUME HasHome(host), NEW name PROVE Proper(host, P!App(P!Join(home, name)))
  <2> HIDE DEF home
  <2> QED BY <1>1, <1>2, <1>3, JoinIs
<1>4. ASSUME HasHome(host), NEW n, NEW m PROVE Proper(host, P!App(P!Join(P!Join(home, n), m)))
  <2> DEFINE j == P!Join(home, n)
             k == P!Join(j, m)
  <2>1. /\ Rooted(j) /\ j.syntax = home.syntax /\ P!Contains(home, j, case)
        /\ Len(j.names) > Len(home.names) /\ Len(j.names) \in Nat /\ Len(home.names) \in Nat
        /\ j = [syntax |-> j.syntax, root |-> j.root, names |-> j.names]
    <3> HIDE DEF home
    <3> QED BY <1>1, <1>4, JoinIs
  <2> HIDE DEF j
  <2>2. /\ Rooted(k) /\ k.syntax = j.syntax /\ P!Contains(j, k, case)
        /\ Len(k.names) > Len(j.names) /\ Len(k.names) \in Nat
    BY <2>1, JoinIs
  <2> HIDE DEF k
  <2>3. P!Contains(home, k, case)
    BY <1>1, <1>4, <2>1, <2>2, ContainsThrough
  <2>4. Len(k.names) > Len(home.names)
    <3> DEFINE x == Len(k.names)
               y == Len(j.names)
               z == Len(home.names)
    <3>1. x \in Nat /\ y \in Nat /\ z \in Nat /\ x > y /\ y > z
      BY <2>1, <2>2
    <3> HIDE DEF x, y, z
    <3>2. x > z
      BY <3>1
    <3> QED BY <3>2 DEF x, z
  <2> QED BY <1>2, <1>4, <2>1, <2>2, <2>3, <2>4 DEF j, k
<1>5. HasUsers(host) => Rooted(users) /\ users.syntax = P!SyntaxOf(host.platform)
  BY UsersAre
<1>6. ASSUME host.platform # "windows", NEW l \in {host.cache, TempOf(host)},
             Rooted(l), l.syntax = "unix", l # P!Nowhere
      PROVE  Proper(host, P!App(l))
  <2>1. LiesBesideHomes(host, l)
    BY <1>6 DEF IsHost
  <2>2. \A m : Rooted(m) /\ Homely(host, m) => ~P!Contains(l, m, case)
    BY <1>6, <2>1, NotBeside
  <2>3. l.syntax = P!SyntaxOf(host.platform)
    BY <1>6 DEF P!SyntaxOf
  <2> QED BY <1>6, <2>2, <2>3, ProperRules
<1>7. HasHome(host) => Proper(host, P!Exactly("profile", host.home))
  BY <1>1, ProperRules
<1>8. HasUsers(host) =>
        /\ Proper(host, P!Exactly("users", users)) /\ Proper(host, P!EachChild("profile", users))
        /\ \A name : Proper(host, P!AppInEach(users, name))
  BY <1>5, ProperRules
<1> QED BY <1>3, <1>4, <1>6, <1>7, <1>8

LEMMA UnixRules ==
    ASSUME NEW host, IsHost(host), host.platform # "windows"
    PROVE  /\ \A w : Proper(host, P!System(P!Unix(<<w>>)))
           /\ \A w, why : /\ Proper(host, P!Exactly(why, P!Unix(<<w>>)))
                         /\ Proper(host, P!EachChild(why, P!Unix(<<w>>)))
           /\ Users(host) = P!Unix(<<IF host.platform = "linux" THEN "home" ELSE "Users">>)
<1>1. \A w : Rooted(P!Unix(<<w>>)) /\ P!Unix(<<w>>).syntax = "unix"
  <2> TAKE w
  <2>1. <<w>> \in Seq({w})
    OBVIOUS
  <2> QED BY <2>1, UnixIs
<1>2. P!SyntaxOf(host.platform) = "unix"
  BY DEF P!SyntaxOf
<1>3. \A w : [i \in DOMAIN <<w>> |-> <<<<w>>[i]>>] = <<<<w>>>>
  OBVIOUS
<1>4. Users(host) = P!Unix(<<IF host.platform = "linux" THEN "home" ELSE "Users">>)
  BY <1>3 DEF Users, UsersName, P!Unix, P!At
<1> QED BY <1>1, <1>2, <1>4, ProperRules

LEMMA MacRules ==
    ASSUME NEW host, IsHost(host), host.platform = "macos"
    PROVE  \E R : Holds(P!Table(host.platform, host), R) /\ Serves(host, R)
<1> DEFINE U(words) == P!Unix(words)
           home == host.home
           A == IF host.temp = P!Nowhere THEN {} ELSE {P!App(host.temp)}
           B == {P!App(U(<<"private", "var", "folders">>)), P!App(U(<<"private", "tmp">>)),
                 P!App(U(<<"private", "var", "tmp">>))}
           C == IF home = P!Nowhere THEN {} ELSE {P!App(P!Join(home, <<"Library">>))}
           D == {P!AppInEach(U(<<"Users">>), <<"Library">>)}
           E == {P!System(U(<<"Library">>)), P!System(U(<<"usr">>)), P!System(U(<<"private">>))}
           F == {P!Exactly("volume", U(<<"Volumes">>)), P!EachChild("volume", U(<<"Volumes">>)),
                 P!Exactly("users", U(<<"Users">>)), P!EachChild("profile", U(<<"Users">>))}
           G == IF home = P!Nowhere THEN {} ELSE {P!Exactly("profile", home)}
<1>1. /\ Holds(P!If(host.temp, <<P!App(host.temp)>>), A)
      /\ Holds(P!If(home, <<P!App(P!Join(home, <<"Library">>))>>), C)
      /\ Holds(P!If(home, <<P!Exactly("profile", home)>>), G)
  BY HeldIf
<1>2. /\ Holds(<<P!App(U(<<"private", "var", "folders">>)), P!App(U(<<"private", "tmp">>)),
                 P!App(U(<<"private", "var", "tmp">>))>>, B)
      /\ Holds(<<P!AppInEach(U(<<"Users">>), <<"Library">>)>>, D)
      /\ Holds(<<P!Exactly("volume", U(<<"Volumes">>)), P!EachChild("volume", U(<<"Volumes">>)),
                 P!Exactly("users", U(<<"Users">>)), P!EachChild("profile", U(<<"Users">>))>>, F)
  <2>1. Holds(<<P!App(U(<<"private", "var", "folders">>)), P!App(U(<<"private", "tmp">>)),
                P!App(U(<<"private", "var", "tmp">>))>>, B)
    BY ThreeAreHeld
  <2>2. Holds(<<P!AppInEach(U(<<"Users">>), <<"Library">>)>>, D)
    BY HeldAlone
  <2>3. Holds(<<P!Exactly("volume", U(<<"Volumes">>)), P!EachChild("volume", U(<<"Volumes">>)),
                P!Exactly("users", U(<<"Users">>)), P!EachChild("profile", U(<<"Users">>))>>, F)
    BY HeldAlone
  <2> QED BY <2>1, <2>2, <2>3
<1>3. Holds(P!Each(<<"Library", "usr", "private">>, P!System), E)
  <2>1. P!Each(<<"Library", "usr", "private">>, P!System)
          = <<P!System(U(<<"Library">>)), P!System(U(<<"usr">>)), P!System(U(<<"private">>))>>
    BY DEF P!Each
  <2>2. Holds(<<P!System(U(<<"Library">>)), P!System(U(<<"usr">>)), P!System(U(<<"private">>))>>, E)
    BY ThreeAreHeld
  <2> QED BY ONLY <2>1, <2>2
<1> DEFINE a == P!If(host.temp, <<P!App(host.temp)>>)
           b == <<P!App(U(<<"private", "var", "folders">>)), P!App(U(<<"private", "tmp">>)),
                  P!App(U(<<"private", "var", "tmp">>))>>
           c == P!If(home, <<P!App(P!Join(home, <<"Library">>))>>)
           d == <<P!AppInEach(U(<<"Users">>), <<"Library">>)>>
           e == P!Each(<<"Library", "usr", "private">>, P!System)
           f == <<P!Exactly("volume", U(<<"Volumes">>)), P!EachChild("volume", U(<<"Volumes">>)),
                  P!Exactly("users", U(<<"Users">>)), P!EachChild("profile", U(<<"Users">>))>>
           g == P!If(home, <<P!Exactly("profile", home)>>)
           R == A \cup B \cup C \cup D \cup E \cup F \cup G
<1>4. P!Table(host.platform, host) = a \o b \o c \o d \o e \o f \o g
  BY DEF P!Table, P!MacTable
<1>5. Holds(a \o b \o c \o d \o e \o f \o g, R)
  <2>1. /\ Holds(a, A) /\ Holds(b, B) /\ Holds(c, C) /\ Holds(d, D) /\ Holds(e, E)
        /\ Holds(f, F) /\ Holds(g, G)
    BY <1>1, <1>2, <1>3
  <2> HIDE DEF a, b, c, d, e, f, g, A, B, C, D, E, F, G
  <2>2. Holds(a \o b, A \cup B)
    BY <2>1, HeldTogether
  <2>3. Holds(a \o b \o c, A \cup B \cup C)
    BY <2>1, <2>2, HeldTogether
  <2>4. Holds(a \o b \o c \o d, A \cup B \cup C \cup D)
    BY <2>1, <2>3, HeldTogether
  <2>5. Holds(a \o b \o c \o d \o e, A \cup B \cup C \cup D \cup E)
    BY <2>1, <2>4, HeldTogether
  <2>6. Holds(a \o b \o c \o d \o e \o f, A \cup B \cup C \cup D \cup E \cup F)
    BY <2>1, <2>5, HeldTogether
  <2> QED BY <2>1, <2>6, HeldTogether
<1>6. \A r \in A : Proper(host, r)
  <2> SUFFICES ASSUME host.temp # P!Nowhere PROVE Proper(host, P!App(host.temp))
    OBVIOUS
  <2>1. host.temp \in Locations(host.platform)
    BY HostIs
  <2>2. Rooted(host.temp) /\ host.temp.syntax = "unix"
    BY <2>1, LocationIs DEF P!SyntaxOf
  <2> QED BY <2>2, SharedRules DEF TempOf
<1>7. \A r \in B : Proper(host, r)
  <2>1. ASSUME NEW S, NEW words \in Seq(S), Len(words) >= 2, words[1] = "private"
        PROVE  Proper(host, P!App(U(words)))
    BY <2>1, ElsewhereIs
  <2> DEFINE S == {"private", "var", "tmp", "folders"}
  <2>2. Proper(host, P!App(U(<<"private", "var", "folders">>)))
    <3> DEFINE w == <<"private", "var", "folders">>
    <3>1. w \in Seq(S) /\ Len(w) >= 2 /\ w[1] = "private"
      OBVIOUS
    <3> HIDE DEF w, S
    <3>2. Proper(host, P!App(U(w)))
      BY <2>1, <3>1
    <3> QED BY <3>2 DEF w
  <2>3. Proper(host, P!App(U(<<"private", "tmp">>)))
    <3> DEFINE w == <<"private", "tmp">>
    <3>1. w \in Seq(S) /\ Len(w) >= 2 /\ w[1] = "private"
      OBVIOUS
    <3> HIDE DEF w, S
    <3>2. Proper(host, P!App(U(w)))
      BY <2>1, <3>1
    <3> QED BY <3>2 DEF w
  <2>4. Proper(host, P!App(U(<<"private", "var", "tmp">>)))
    <3> DEFINE w == <<"private", "var", "tmp">>
    <3>1. w \in Seq(S) /\ Len(w) >= 2 /\ w[1] = "private"
      OBVIOUS
    <3> HIDE DEF w, S
    <3>2. Proper(host, P!App(U(w)))
      BY <2>1, <3>1
    <3> QED BY <3>2 DEF w
  <2> HIDE DEF U
  <2> QED BY <2>2, <2>3, <2>4
<1>8. HasUsers(host) /\ Users(host) = U(<<"Users">>) /\ KeptName(host.platform) = <<"Library">>
  BY UsersAre, UnixRules DEF KeptName
<1>9. \A r \in C \cup D \cup G : Proper(host, r)
  <2>1. home # P!Nowhere => HasHome(host)
    BY DEF HasHome
  <2>2. \A r \in C \cup G : Proper(host, r)
    BY <2>1, SharedRules
  <2>3. \A r \in D : Proper(host, r)
    BY <1>8, SharedRules
  <2> QED BY <2>2, <2>3
<1>10. \A r \in E \cup F : Proper(host, r)
  BY UnixRules
<1>11. Serves(host, R)
  <2>1. \A r \in R : Proper(host, r)
    <3> HIDE DEF A, B, C, D, E, F, G
    <3> QED BY <1>6, <1>7, <1>9, <1>10
  <2>2. HasHome(host) => P!Exactly("profile", home) \in G
    BY DEF HasHome
  <2>3. /\ P!Exactly("users", Users(host)) \in F /\ P!EachChild("profile", Users(host)) \in F
        /\ P!AppInEach(Users(host), KeptName(host.platform)) \in D
    BY <1>8
  <2> HIDE DEF A, B, C, D, E, F, G
  <2> QED BY <2>1, <2>2, <2>3 DEF Serves
<1> QED BY <1>4, <1>5, <1>11

LEMMA LinuxRules ==
    ASSUME NEW host, IsHost(host), host.platform = "linux"
    PROVE  \E R : Holds(P!Table(host.platform, host), R) /\ Serves(host, R)
<1> DEFINE U(words) == P!Unix(words)
           home == host.home
           A == IF host.cache = P!Nowhere THEN {} ELSE {P!App(host.cache)}
           B == IF home = P!Nowhere \/ host.cache # P!Nowhere THEN {}
                ELSE {P!App(P!Join(home, <<".cache">>))}
           C == IF home = P!Nowhere THEN {}
                ELSE {P!App(P!Join(P!Join(home, <<".local">>), <<"share">>))}
           D == {P!AppInEach(U(<<"home">>), <<".cache">>), P!App(U(<<"var", "tmp">>)),
                 P!App(TempOf(host))}
           E == {P!System(U(<<"usr">>)), P!System(U(<<"var">>)), P!System(U(<<"etc">>))}
           F == {P!Exactly("users", U(<<"home">>)), P!EachChild("profile", U(<<"home">>)),
                 P!Exactly("profile", U(<<"root">>))}
           G == IF home = P!Nowhere THEN {} ELSE {P!Exactly("profile", home)}
           a == P!If(host.cache, <<P!App(host.cache)>>)
           b == P!If(home, IF host.cache = P!Nowhere THEN <<P!App(P!Join(home, <<".cache">>))>>
                           ELSE <<>>)
           c == P!If(home, <<P!App(P!Join(P!Join(home, <<".local">>), <<"share">>))>>)
           d == <<P!AppInEach(U(<<"home">>), <<".cache">>), P!App(U(<<"var", "tmp">>)),
                  P!App(TempOf(host))>>
           e == P!Each(<<"usr", "var", "etc">>, P!System)
           f == <<P!Exactly("users", U(<<"home">>)), P!EachChild("profile", U(<<"home">>)),
                  P!Exactly("profile", U(<<"root">>))>>
           g == P!If(home, <<P!Exactly("profile", home)>>)
           R == A \cup B \cup C \cup D \cup E \cup F \cup G
<1>1. Holds(a, A) /\ Holds(c, C) /\ Holds(g, G)
  BY HeldIf
<1>2. Holds(d, D) /\ Holds(f, F)
  <2>1. Holds(d, D)
    BY ThreeAreHeld
  <2>2. Holds(f, F)
    BY ThreeAreHeld
  <2> QED BY <2>1, <2>2
<1>3. Holds(e, E)
  <2>1. e = <<P!System(U(<<"usr">>)), P!System(U(<<"var">>)), P!System(U(<<"etc">>))>>
    BY DEF P!Each
  <2>2. Holds(<<P!System(U(<<"usr">>)), P!System(U(<<"var">>)), P!System(U(<<"etc">>))>>, E)
    BY ThreeAreHeld
  <2> QED BY ONLY <2>1, <2>2
<1>4. Holds(b, B)
  BY HeldAlone DEF P!If
<1>5. P!Table(host.platform, host) = a \o b \o c \o d \o e \o f \o g
  BY DEF P!Table, P!LinuxTable, TempOf
<1>6. Holds(a \o b \o c \o d \o e \o f \o g, R)
  <2>1. /\ Holds(a, A) /\ Holds(b, B) /\ Holds(c, C) /\ Holds(d, D) /\ Holds(e, E)
        /\ Holds(f, F) /\ Holds(g, G)
    BY <1>1, <1>2, <1>3, <1>4
  <2> HIDE DEF a, b, c, d, e, f, g, A, B, C, D, E, F, G
  <2>2. Holds(a \o b, A \cup B)
    BY <2>1, HeldTogether
  <2>3. Holds(a \o b \o c, A \cup B \cup C)
    BY <2>1, <2>2, HeldTogether
  <2>4. Holds(a \o b \o c \o d, A \cup B \cup C \cup D)
    BY <2>1, <2>3, HeldTogether
  <2>5. Holds(a \o b \o c \o d \o e, A \cup B \cup C \cup D \cup E)
    BY <2>1, <2>4, HeldTogether
  <2>6. Holds(a \o b \o c \o d \o e \o f, A \cup B \cup C \cup D \cup E \cup F)
    BY <2>1, <2>5, HeldTogether
  <2> QED BY <2>1, <2>6, HeldTogether
<1>7. \A l \in {host.cache, host.temp} : l # P!Nowhere => Rooted(l) /\ l.syntax = "unix"
  <2> SUFFICES ASSUME NEW l \in {host.cache, host.temp}, l # P!Nowhere
               PROVE  Rooted(l) /\ l.syntax = "unix"
    OBVIOUS
  <2>1. l \in Locations(host.platform)
    BY HostIs
  <2> QED BY <2>1, LocationIs DEF P!SyntaxOf
<1>8. Proper(host, P!App(TempOf(host)))
  <2>1. CASE host.temp = P!Nowhere
    <3> DEFINE w == <<"tmp">>
    <3>1. w \in Seq({"tmp"})
      OBVIOUS
    <3>2. TempOf(host) = U(w)
      BY <2>1 DEF TempOf
    <3> HIDE DEF w
    <3>3. Rooted(U(w)) /\ U(w).syntax = "unix" /\ U(w) # P!Nowhere
      BY <3>1, UnixIs
    <3> HIDE DEF U
    <3> QED BY <3>2, <3>3, SharedRules
  <2>2. CASE host.temp # P!Nowhere
    BY <1>7, <2>2, SharedRules DEF TempOf
  <2> QED BY <2>1, <2>2
<1>9. Proper(host, P!App(U(<<"var", "tmp">>)))
  <2> DEFINE w == <<"var", "tmp">>
  <2>1. w \in Seq({"var", "tmp"}) /\ Len(w) >= 2 /\ w[1] = "var"
    OBVIOUS
  <2> HIDE DEF w
  <2>2. Proper(host, P!App(P!Unix(w)))
    BY <2>1, ElsewhereIs
  <2> QED BY <2>2 DEF w
<1>10. HasUsers(host) /\ Users(host) = U(<<"home">>) /\ KeptName(host.platform) = <<".cache">>
  BY UsersAre, UnixRules DEF KeptName
<1>11. \A r \in R : Proper(host, r)
  <2>1. home # P!Nowhere => HasHome(host)
    BY DEF HasHome
  <2>2. \A r \in A : Proper(host, r)
    BY <1>7, SharedRules
  <2>3. \A r \in B \cup C \cup G : Proper(host, r)
    BY <2>1, SharedRules
  <2>4. Proper(host, P!AppInEach(U(<<"home">>), <<".cache">>))
    BY <1>10, SharedRules
  <2>5. \A r \in D : Proper(host, r)
    BY <1>8, <1>9, <2>4
  <2>6. \A r \in E \cup F : Proper(host, r)
    BY UnixRules
  <2> HIDE DEF A, B, C, D, E, F, G
  <2> QED BY <2>2, <2>3, <2>5, <2>6
<1>12. Serves(host, R)
  <2>1. HasHome(host) => P!Exactly("profile", home) \in G
    BY DEF HasHome
  <2>2. /\ P!Exactly("users", Users(host)) \in F /\ P!EachChild("profile", Users(host)) \in F
        /\ P!AppInEach(Users(host), KeptName(host.platform)) \in D
    BY <1>10
  <2> HIDE DEF A, B, C, D, E, F, G
  <2> QED BY <1>11, <2>1, <2>2 DEF Serves
<1> QED BY <1>5, <1>6, <1>12

LEMMA WindowsRules ==
    ASSUME NEW host, IsHost(host), host.platform = "windows"
    PROVE  \E R : Holds(P!Table(host.platform, host), R) /\ Serves(host, R)
<1> DEFINE home == host.home
           users == Users(host)
           programs == host.programs
           A == IF home = P!Nowhere THEN {} ELSE {P!App(P!Join(home, <<"AppData">>))}
           B == IF users = P!Nowhere THEN {} ELSE {P!AppInEach(users, <<"AppData">>)}
           C == {P!System(programs[i]) : i \in 1..Len(programs)}
           D == IF home = P!Nowhere THEN {} ELSE {P!Exactly("profile", home)}
           E == IF users = P!Nowhere THEN {}
                ELSE {P!Exactly("users", users), P!EachChild("profile", users)}
           a == P!If(home, <<P!App(P!Join(home, <<"AppData">>))>>)
           b == P!If(users, <<P!AppInEach(users, <<"AppData">>)>>)
           c == [i \in DOMAIN programs |-> P!System(programs[i])]
           d == P!If(home, <<P!Exactly("profile", home)>>)
           e == P!If(users, <<P!Exactly("users", users), P!EachChild("profile", users)>>)
           R == A \cup B \cup C \cup D \cup E
<1>1. Holds(a, A) /\ Holds(b, B) /\ Holds(d, D)
  BY HeldIf
<1>2. Holds(e, E)
  BY HeldAlone DEF P!If
<1>3. Holds(c, C)
  <2>1. Len(programs) \in Nat /\ programs \in [1..Len(programs) -> Locations(host.platform)]
    BY HostIs
  <2>2. c = [i \in 1..Len(programs) |-> P!System(programs[i])]
    BY <2>1
  <2>3. c \in [1..Len(programs) -> C] /\ C = {c[i] : i \in DOMAIN c}
    <3> HIDE DEF programs
    <3> QED BY <2>2
  <2> HIDE DEF c, C
  <2>4. c \in Seq(C)
    BY <2>1, <2>3, SeqDef
  <2> QED BY <2>3, <2>4 DEF Holds
<1>4. P!Table(host.platform, host) = a \o b \o c \o d \o e
  <2> DEFINE u == IF home = P!Nowhere \/ home.names = <<>> THEN P!Nowhere ELSE P!Parent(home)
  <2>1. u = users
    <3>1. HasHome(host) => Len(home.names) \in 1..2
      BY UsersAre
    <3>2. HasHome(host) => home.names # <<>>
      <4>1. Len(<<>>) = 0
        OBVIOUS
      <4> QED BY <3>1, <4>1
    <3> QED BY <3>2 DEF Users, HasHome
  <2>2. P!Table(host.platform, host) =
          P!If(home, <<P!App(P!Join(home, <<"AppData">>))>>)
            \o P!If(u, <<P!AppInEach(u, <<"AppData">>)>>) \o c
            \o P!If(home, <<P!Exactly("profile", home)>>)
            \o P!If(u, <<P!Exactly("users", u), P!EachChild("profile", u)>>)
    BY DEF P!Table, P!WindowsTable
  <2> HIDE DEF u, users
  <2> QED BY <2>1, <2>2
<1>5. Holds(a \o b \o c \o d \o e, R)
  <2>1. Holds(a, A) /\ Holds(b, B) /\ Holds(c, C) /\ Holds(d, D) /\ Holds(e, E)
    BY <1>1, <1>2, <1>3
  <2> HIDE DEF a, b, c, d, e, A, B, C, D, E
  <2>2. Holds(a \o b, A \cup B)
    BY <2>1, HeldTogether
  <2>3. Holds(a \o b \o c, A \cup B \cup C)
    BY <2>1, <2>2, HeldTogether
  <2>4. Holds(a \o b \o c \o d, A \cup B \cup C \cup D)
    BY <2>1, <2>3, HeldTogether
  <2> QED BY <2>1, <2>4, HeldTogether
<1>6. \A r \in R : Proper(host, r)
  <2>1. (home # P!Nowhere => HasHome(host)) /\ (users # P!Nowhere => HasUsers(host))
    BY DEF HasHome, HasUsers
  <2>2. \A r \in A \cup D : Proper(host, r)
    BY <2>1, SharedRules
  <2>3. \A r \in B \cup E : Proper(host, r)
    BY <2>1, SharedRules
  <2>4. \A r \in C : Proper(host, r)
    <3> SUFFICES ASSUME NEW i \in 1..Len(programs) PROVE Proper(host, P!System(programs[i]))
      OBVIOUS
    <3>1. programs[i] \in Locations(host.platform)
      BY HostIs
    <3> QED BY <3>1, LocationIs, ProperRules
  <2> HIDE DEF A, B, C, D, E
  <2> QED BY <2>2, <2>3, <2>4
<1>7. Serves(host, R)
  <2>1. HasHome(host) => P!Exactly("profile", home) \in D
    BY DEF HasHome
  <2>2. KeptName(host.platform) = <<"AppData">>
    BY DEF KeptName
  <2>3. HasUsers(host) =>
          /\ P!Exactly("users", users) \in E /\ P!EachChild("profile", users) \in E
          /\ P!AppInEach(users, <<"AppData">>) \in B
    BY DEF HasUsers
  <2> HIDE DEF A, B, C, D, E
  <2> QED BY <1>6, <2>1, <2>2, <2>3 DEF Serves
<1> QED BY <1>4, <1>5, <1>7

LEMMA RulesOf ==
    ASSUME NEW host, IsHost(host)
    PROVE  /\ \E R : Holds(ProtectionOf(host).rules, R) /\ Serves(host, R)
           /\ ProtectionOf(host).syntax = P!SyntaxOf(host.platform)
           /\ ProtectionOf(host).case = CaseAt(host)
           /\ ProtectionOf(host).cwd = host.cwd /\ ProtectionOf(host).exe = host.exe
<1>1. ProtectionOf(host) =
        [syntax |-> P!SyntaxOf(host.platform), case |-> CaseAt(host),
         cwd |-> host.cwd, exe |-> host.exe, rules |-> P!Table(host.platform, host)]
  BY DEF ProtectionOf, P!Detected, P!Protection, CaseAt
<1>2. \E R : Holds(P!Table(host.platform, host), R) /\ Serves(host, R)
  BY HostIs, MacRules, LinuxRules, WindowsRules
<1> QED BY <1>1, <1>2

(* Homes are the system's, before they are an application's.                  *)
LEMMA HomesAreTheSystems ==
    ASSUME NEW host, IsHost(host), NEW l, Rooted(l), Homely(host, l)
    PROVE  P!AreaOf(ProtectionOf(host), l) = "system"
<1> DEFINE p == ProtectionOf(host)
           case == CaseAt(host)
           users == Users(host)
           home == host.home
<1>1. PICK R : Holds(p.rules, R) /\ Serves(host, R)
  BY RulesOf
<1>2. p.case = case
  BY RulesOf
<1>3. \E r \in R : P!Reaches(r, l, case)
  <2>1. CASE HasHome(host) /\ P!Contains(home, l, case) /\ Len(l.names) = Len(home.names)
    <3> DEFINE r == P!Exactly("profile", home)
    <3>1. r \in R /\ r.anchor = home /\ r.reach = "exact"
      BY <1>1, <2>1 DEF Serves, P!Exactly, P!Rule
    <3>2. Sequenced(home) /\ Sequenced(l)
      BY <2>1, UsersAre DEF Rooted
    <3> HIDE DEF r
    <3>3. P!Reaches(r, l, case)
      BY <2>1, <3>1, <3>2, ReachMeans
    <3> QED BY <3>1, <3>3
  <2>2. CASE HasUsers(host) /\ P!Contains(users, l, case) /\ Len(l.names) = Len(users.names)
    <3> DEFINE r == P!Exactly("users", users)
    <3>1. r \in R /\ r.anchor = users /\ r.reach = "exact"
      BY <1>1, <2>2 DEF Serves, P!Exactly, P!Rule
    <3>2. Sequenced(users) /\ Sequenced(l)
      BY <2>2, UsersAre DEF Rooted
    <3> HIDE DEF r
    <3>3. P!Reaches(r, l, case)
      BY <2>2, <3>1, <3>2, ReachMeans
    <3> QED BY <3>1, <3>3
  <2>3. CASE HasUsers(host) /\ P!Contains(users, l, case) /\ Len(l.names) = Len(users.names) + 1
    <3> DEFINE r == P!EachChild("profile", users)
    <3>1. r \in R /\ r.anchor = users /\ r.reach = "each-child"
      BY <1>1, <2>3 DEF Serves, P!EachChild, P!Rule
    <3>2. Sequenced(users) /\ Sequenced(l)
      BY <2>3, UsersAre DEF Rooted
    <3> HIDE DEF r
    <3>3. P!Reaches(r, l, case)
      BY <2>3, <3>1, <3>2, ReachMeans
    <3> QED BY <3>1, <3>3
  <2> QED BY <2>1, <2>2, <2>3 DEF Homely
<1>4. \A r \in R : P!Reaches(r, l, case) => r.area = "system"
  BY <1>1 DEF Serves, Proper
<1> QED BY <1>1, <1>2, <1>3, <1>4, AreaMeans

(* What an application keeps in a home is not open.                           *)
LEMMA KeptIsNotOpen ==
    ASSUME NEW host, IsHost(host), NEW l, Rooted(l), l.syntax = P!SyntaxOf(host.platform),
           KeptInHome(host, l)
    PROVE  P!AreaOf(ProtectionOf(host), l) # "open"
<1> DEFINE p == ProtectionOf(host)
           case == CaseAt(host)
           users == Users(host)
           r == P!AppInEach(users, KeptName(host.platform))
<1>1. PICK R : Holds(p.rules, R) /\ Serves(host, R)
  BY RulesOf
<1>2. p.case = case
  BY RulesOf
<1>3. /\ P!Contains(users, l, case) /\ Len(l.names) >= Len(users.names) + 2
      /\ P!Folded(l.names[Len(users.names) + 2], case) = P!Folded(KeptName(host.platform), case)
  BY DEF KeptInHome, CaseAt
<1>4. HasUsers(host)
  <2>1. users.syntax = l.syntax
    BY <1>3 DEF P!Contains
  <2>2. P!SyntaxOf(host.platform) # P!Nowhere.syntax
    BY DEF P!SyntaxOf, P!Nowhere, P!At
  <2> QED BY <2>1, <2>2 DEF HasUsers
<1>5. r \in R /\ r.anchor = users /\ r.reach = "each-child-subtree" /\ r.named = KeptName(host.platform)
  BY <1>1, <1>4 DEF Serves, P!AppInEach, P!App, P!Rule
<1>6. Sequenced(users) /\ Sequenced(l)
  BY <1>4, UsersAre DEF Rooted
<1>7. P!Reaches(r, l, case)
  <2> HIDE DEF r, users, case
  <2> QED BY <1>3, <1>5, <1>6, ReachMeans
<1>8. \A s \in R : s.area # "open"
  BY <1>1 DEF Serves, Proper
<1> HIDE DEF r
<1> QED BY <1>1, <1>2, <1>5, <1>7, <1>8, AreaMeans

LEMMA AdmittedMeans ==
    ASSUME NEW host, NEW place, NEW listing, AdmittedAt(host, place, listing)
    PROVE  /\ P!AreaOf(ProtectionOf(host), place) # "system"
           /\ P!AreaOf(ProtectionOf(host), place) = "app" => Found(listing) = "declared"
<1> DEFINE seen == [shape |-> "directory", boundary |-> "same",
                    area |-> P!AreaOf(ProtectionOf(host), place),
                    found |-> Found(listing), excluded |-> FALSE]
           discover == [ask |-> "discover"]
<1>1. \A i \in 1..Len(Order) : Check(seen, discover)[Order[i]] # "reject"
  BY DEF AdmittedAt, Admitted
<1>2. 3 \in 1..Len(Order) /\ Order[3] = "area"
  BY DEF Order
<1>3. Check(seen, discover).area = Area(seen)
  BY DEF Check
<1>4. Area(seen) # "reject"
  BY <1>1, <1>2, <1>3
<1> QED BY <1>4 DEF Area

(* What a scan admits, on any host and at any place, contains neither the     *)
(* working directory nor this program nor a home; and the rest of AreasHold   *)
(* (core/area.rs, table.rs, artifact.rs, gate.rs).                            *)
THEOREM AreasAreHeld == AreasSpec => []AreasHold
<1>1. AreasInit => sighting \in Sightings
  BY DEF AreasInit
<1>2. sighting \in Sightings /\ [FALSE]_sighting => (sighting \in Sightings)'
  OBVIOUS
<1>3. ASSUME sighting \in Sightings PROVE AreasHold
  <2> DEFINE host == sighting.host
             place == sighting.place
             listing == sighting.listing
             case == P!CaseOf(host.platform)
             folded == [place EXCEPT !.names = P!FoldedAll(@, case)]
             p == ProtectionOf(host)
  <2>1. IsHost(host) /\ place \in Locations(host.platform)
    BY <1>3, AreasAssumption
  <2>2. /\ Rooted(place) /\ place.syntax = P!SyntaxOf(host.platform)
        /\ place = [syntax |-> place.syntax, root |-> place.root, names |-> place.names]
    BY <2>1, LocationIs
  <2>3. PICK R : Holds(p.rules, R) /\ Serves(host, R)
    <3> HIDE DEF host
    <3> QED BY <2>1, RulesOf
  <2>4. /\ p.syntax = P!SyntaxOf(host.platform) /\ p.case = case
        /\ p.cwd = host.cwd /\ p.exe = host.exe
    <3> HIDE DEF host
    <3> QED BY <2>1, RulesOf DEF CaseAt
  <2>5. /\ Rooted(host.cwd) /\ host.cwd.syntax = p.syntax
        /\ Rooted(host.exe) /\ host.exe.syntax = p.syntax
    <3> HIDE DEF host, p
    <3> QED BY <2>1, <2>4, HostIs
  <2>6. P!WellWritten(p)
    <3>1. \A i \in DOMAIN p.rules : p.rules[i] \in R
      BY <2>3 DEF Holds
    <3>2. \A r \in R : r.anchor.syntax = p.syntax
      BY <2>3, <2>4 DEF Serves, Proper
    <3> HIDE DEF p, host
    <3> QED BY <2>4, <2>5, <3>1, <3>2 DEF P!WellWritten
  <2>7. /\ folded.syntax = place.syntax /\ folded.root = place.root /\ Sequenced(folded)
        /\ Len(folded.names) = Len(place.names)
        /\ \A i \in 1..Len(place.names) : P!Folded(folded.names[i], case) = P!Folded(place.names[i], case)
    <3> HIDE DEF place, case
    <3> QED BY <2>2, FoldedPlace DEF Rooted
  <2>8. Rooted(folded)
    BY <2>2, <2>7 DEF Rooted
  <2>9. P!AreaOf(p, folded) = P!AreaOf(p, place)
    <3>1. \A r \in R : Sequenced(r.anchor) /\ r.reach \in Reachings
      BY <2>3 DEF Serves, Proper, Rooted
    <3>2. Sequenced(place) /\ Sequenced(p.cwd) /\ Sequenced(p.exe)
      BY <2>2, <2>4, <2>5 DEF Rooted
    <3> HIDE DEF p, place, folded, case
    <3>3. Holds(p.rules, R) /\ p.case = case
      BY <2>3, <2>4
    <3> QED BY <2>7, <3>1, <3>2, <3>3, AreaAsSpelled
  <2>10. AdmittedAt(host, place, listing) <=> AdmittedAt(host, folded, listing)
    <3> HIDE DEF host, place, folded, listing
    <3> QED BY <2>9 DEF AdmittedAt, p
  <2>11. ASSUME AdmittedAt(host, place, listing)
         PROVE  /\ \A l \in {host.cwd, host.exe, host.home} : ~P!Contains(folded, l, case)
                /\ ~(/\ P!Contains(Users(host), folded, case)
                     /\ Len(place.names) = Len(Users(host).names) + 1)
                /\ KeptInHome(host, folded) => Found(listing) = "declared"
    <3>1. /\ P!AreaOf(p, folded) # "system"
          /\ P!AreaOf(p, folded) = "app" => Found(listing) = "declared"
      <4> HIDE DEF host, place, folded, listing, p
      <4> QED BY <2>9, <2>11, AdmittedMeans DEF p
    <3>2. /\ folded.syntax = p.syntax /\ folded.names # <<>>
          /\ ~P!Contains(folded, host.cwd, case) /\ ~P!Contains(folded, host.exe, case)
      <4> HIDE DEF host, place, folded, listing, p, case
      <4> QED BY <2>3, <2>4, <3>1, AreaMeans
    <3>3. ~Homely(host, folded)
      <4> HIDE DEF host, place, folded, listing
      <4> QED BY <2>1, <2>8, <3>1, HomesAreTheSystems DEF p
    <3>4. \A l : P!Contains(l, folded, case) \/ P!Contains(folded, l, case) => l # P!Nowhere
      <4>1. folded.syntax # P!Nowhere.syntax
        BY <2>2, <2>7 DEF P!SyntaxOf, P!Nowhere, P!At
      <4> HIDE DEF folded, case
      <4> QED BY <4>1 DEF P!Contains
    <3>5. ASSUME P!Contains(folded, host.home, case) PROVE FALSE
      <4> DEFINE home == host.home
                 users == Users(host)
                 n == Len(folded.names)
                 m == Len(home.names)
                 k == Len(users.names)
      <4>1. HasHome(host)
        BY <3>4, <3>5 DEF HasHome
      <4>2. /\ Rooted(home) /\ m \in 1..2
            /\ \/ m = k + 1 /\ P!Contains(users, home, case)
               \/ m = 1
            /\ HasUsers(host) => Rooted(users) /\ k \in 0..1
            /\ host.platform # "windows" => HasUsers(host)
            /\ host.platform = "windows" => (HasUsers(host) <=> HasHome(host))
        <5> HIDE DEF host, folded, home
        <5> QED BY <2>1, <4>1, UsersAre DEF CaseAt, home
      <4>3. n \in Nat /\ n <= m /\ n # 0
        <5>1. n <= m /\ n \in Nat
          <6> HIDE DEF host, folded, case
          <6> QED BY <2>8, <3>5, <4>2, ContainsMeans, SequencedMeans DEF Rooted
        <5>2. n = 0 => folded.names = <<>>
          BY <2>7, EmptySeq DEF Sequenced
        <5> QED BY <3>2, <5>1, <5>2
      <4>4. CASE n = m
        <5>1. P!Contains(home, folded, case)
          <6> HIDE DEF host, folded, case
          <6> QED BY <2>8, <3>5, <4>2, <4>4, ContainsOrder
        <5> QED BY <3>3, <4>1, <4>4, <5>1 DEF Homely, CaseAt
      <4>5. CASE n # m
        <5>1. n = 1 /\ m = 2
          <6> HIDE DEF n, m
          <6> QED BY <4>2, <4>3, <4>5
        <5>2. k = 1 /\ P!Contains(users, home, case) /\ HasUsers(host) /\ Rooted(users)
          <6>1. HasUsers(host) /\ k \in 0..1
            <7> HIDE DEF host, k
            <7> QED BY <4>1, <4>2
          <6> HIDE DEF n, m, k
          <6> QED BY <4>2, <5>1, <6>1
        <5>3. P!Contains(users, folded, case)
          <6> HIDE DEF host, folded, case, users, home
          <6> QED BY <2>8, <3>5, <4>2, <5>1, <5>2, ContainsBoth DEF home
        <5>4. n = k
          BY <5>1, <5>2
        <5> QED BY <3>3, <5>2, <5>3, <5>4 DEF Homely, CaseAt
      <4> QED BY <4>4, <4>5
    <3>6. ASSUME P!Contains(Users(host), folded, case), Len(place.names) = Len(Users(host).names) + 1
          PROVE  FALSE
      BY <2>7, <3>3, <3>4, <3>6 DEF Homely, HasUsers, CaseAt
    <3>7. ASSUME KeptInHome(host, folded) PROVE Found(listing) = "declared"
      <4>1. P!AreaOf(p, folded) # "open"
        <5> HIDE DEF host, folded
        <5> QED BY <2>1, <2>2, <2>7, <2>8, <3>7, KeptIsNotOpen DEF p
      <4>2. P!AreaOf(p, folded) \in {"open", "app", "system"}
        <5>1. \A r \in R : r.area \in {"app", "system"}
          BY <2>3 DEF Serves, Proper
        <5> HIDE DEF p, folded
        <5> QED BY <2>3, <5>1, AreaMeans
      <4> QED BY <3>1, <4>1, <4>2
    <3> QED BY <3>2, <3>5, <3>6, <3>7
  <2> QED BY <2>6, <2>10, <2>11 DEF AreasHold
<1> QED BY <1>1, <1>2, <1>3, PTL DEF AreasSpec
===============================================================================
