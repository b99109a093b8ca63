------------------------------- MODULE Inspection -------------------------------
(***************************************************************************)
(* One ask on its way through the gates: the pipeline that stops at the    *)
(* first rejection, the clearance that is given out at its end, and the    *)
(* stages that an explanation shows of it (core/src/gate.rs).              *)
(***************************************************************************)
EXTENDS Gates

CONSTANT Observed    \* the sites that are asked about

ASSUME ObservedAssumption == Observed \subseteq Sites

VARIABLES
    site, ask,
    at,          \* the gate that is next, in Order
    stages,      \* the outcome shown for each gate
    identified,  \* whether the evidence gate has said what it is
    result

vars == <<site, ask, at, stages, identified, result>>

Outcomes == {"pass", "abstain", "reject", "not-reached"}
Results == {"asked", "cleared", "rejected", "evidence-lost", "owned", "cannot-share"}

TypeOK ==
    /\ site \in Sites
    /\ ask \in Asks
    /\ at \in 1..Len(Order) + 1
    /\ stages \in Seq(Outcomes)
    /\ Len(stages) = IF result = "asked" THEN at - 1 ELSE Len(Order)
    /\ identified \in BOOLEAN
    /\ result \in Results

Init ==
    /\ site \in Observed
    /\ ask \in Asks
    /\ at = 1
    /\ stages = <<>>
    /\ identified = FALSE
    /\ result = "asked"

Verdict == Check(site, ask)[Order[at]]

(* The gates after the one that is next.                                   *)
NotReached == [i \in 1..Len(Order) - at |-> "not-reached"]

(* The first gate that rejects ends the run.                               *)
Refuse ==
    /\ result = "asked" /\ at <= Len(Order)
    /\ Verdict = "reject"
    /\ stages' = Append(stages, "reject") \o NotReached
    /\ result' = "rejected"
    /\ UNCHANGED <<site, ask, at, identified>>

Evaluate ==
    /\ result = "asked" /\ at <= Len(Order)
    /\ Verdict # "reject"
    /\ stages' = Append(stages, Verdict)
    /\ at' = at + 1
    /\ identified' = (identified \/ (Order[at] = "evidence" /\ Verdict = "pass"))
    /\ UNCHANGED <<site, ask, result>>

(* Past every gate, a clearance still asks what the gates have asked.      *)
Conclude ==
    /\ result = "asked" /\ at > Len(Order)
    /\ result' =
         CASE ~identified -> "evidence-lost"
           [] identified /\ ask.ask = "verify" ->
                IF AdmitsDeletion(ask.admits, ask.settlement) THEN "cleared" ELSE "owned"
           [] identified /\ ask.ask = "share" ->
                IF ask.shares THEN "cleared" ELSE "cannot-share"
           [] OTHER -> "cleared"
    /\ UNCHANGED <<site, ask, at, stages, identified>>

Next == Evaluate \/ Refuse \/ Conclude

Spec == Init /\ [][Next]_vars

-------------------------------------------------------------------------------
(* Nothing is cleared to be touched unless it is a directory of this       *)
(* volume outside every exclusion, at the recorded path with the recorded  *)
(* identity and kind, and its locks were read as free.  To delete it takes *)
(* a settled owner and the recorded contents as well; to prune it, that    *)
(* nobody keeps it.                                                        *)
ClearedIsSafe ==
    result = "cleared" /\ HasRecord(ask) =>
      /\ site.shape = "directory" /\ site.boundary # "crossed" /\ ~site.excluded
      /\ site.area # "system" /\ site.found # "nothing"
      /\ ask.recorded = "same" /\ ask.samePath /\ ask.sameIdentity
      /\ ask.liveness = "free"
      /\ ask.ask = "verify" =>
           ask.granted /\ ask.fresh /\ ask.settlement \in {"released", "landed"}
      /\ ask.ask = "prune" => ask.settlement # "kept"
      /\ ask.ask \in {"share", "prune"} => ask.locks

(* What a clearance asks again never refuses what has passed the gates.    *)
NoLateRefusal == result \notin {"evidence-lost", "owned", "cannot-share"}

(* An explanation agrees with the run: it shows a rejection when the run   *)
(* is rejected, one and no more, and says of the gates after it that they  *)
(* were not reached.                                                       *)
ExplanationAgrees ==
    LET rejects == {i \in 1..Len(stages) : stages[i] = "reject"} IN
    /\ (rejects # {}) <=> (result = "rejected")
    /\ \A i \in rejects : \A j \in 1..Len(stages) :
         (stages[j] = "not-reached") <=> (j > i)
===============================================================================
