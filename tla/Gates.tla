--------------------------------- MODULE Gates ---------------------------------
(***************************************************************************)
(* The twelve gates every candidate passes before anything is done to it   *)
(* (core/src/gate.rs).  A site is what was observed of the directory, an   *)
(* ask is what the caller wants with it and the facts it brings.  A gate   *)
(* passes, abstains when the ask does not concern it, or rejects.          *)
(***************************************************************************)
EXTENDS Ownership, Sequences

Order == <<"shape", "mount", "area", "exclusion", "evidence", "tier",
           "ownership", "protocol", "capability", "busy", "identity",
           "freshness">>

Sites == [shape : {"directory", "link", "file"},
          boundary : {"no-parent", "same", "unreported", "crossed"},
          area : {"open", "app", "system"},
          found : {"declared", "inferred", "nothing"},  \* how it is identified
          excluded : BOOLEAN]

Read == {"free", "held", "unknown"}     \* what the locks were read as
Recorded == {"same", "other-kind", "other-provenance"}

Discovers == [ask : {"discover"}]
Inspects == [ask : {"inspect"}, granted : BOOLEAN, admits : Admits,
             settlement : Settlements \cup {"unread"},
             liveness : Read \cup {"unread"}]
Rechecks == [ask : {"recheck"}, granted : BOOLEAN, admits : Admits,
             settlement : Settlements, liveness : Read,
             recorded : Recorded, samePath : BOOLEAN, sameIdentity : BOOLEAN]
Verifies == [ask : {"verify"}, granted : BOOLEAN, admits : Admits,
             settlement : Settlements, liveness : Read,
             recorded : Recorded, samePath : BOOLEAN, sameIdentity : BOOLEAN,
             fresh : BOOLEAN]           \* the contents are as recorded
Shares == [ask : {"share"}, liveness : Read, shares : BOOLEAN,
           locks : BOOLEAN,             \* its kind has a lock protocol
           recorded : Recorded, samePath : BOOLEAN, sameIdentity : BOOLEAN]
Prunes == [ask : {"prune"}, settlement : Settlements, liveness : Read,
           locks : BOOLEAN,
           recorded : Recorded, samePath : BOOLEAN, sameIdentity : BOOLEAN]

Asks == Discovers \cup Inspects \cup Rechecks \cup Verifies \cup Shares \cup Prunes

Destroys(ask) == ask.ask \in {"inspect", "recheck", "verify"}
HasRecord(ask) == ask.ask \in {"recheck", "verify", "share", "prune"}

-------------------------------------------------------------------------------
Shape(site) == IF site.shape = "directory" THEN "pass" ELSE "reject"

Mount(site) ==
    CASE site.boundary = "no-parent" -> "abstain"
      [] site.boundary = "crossed" -> "reject"
      [] OTHER -> "pass"

(* Space owned by an application admits only what declares itself.         *)
Area(site) ==
    IF \/ site.area = "system"
       \/ site.area = "app" /\ site.found # "declared"
    THEN "reject" ELSE "pass"

Exclusion(site) == IF site.excluded THEN "reject" ELSE "pass"

EvidenceGate(site, ask) ==
    IF \/ site.found = "nothing"
       \/ HasRecord(ask) /\ ask.recorded # "same"
    THEN "reject" ELSE "pass"

Tier(site, ask) ==
    IF ~Destroys(ask) THEN "abstain"
    ELSE IF site.found # "nothing" /\ ask.granted THEN "pass" ELSE "reject"

(* Deleting needs a settled artifact whatever the mandate, pruning one     *)
(* that nobody keeps.                                                      *)
OwnershipGate(ask) ==
    IF ask.ask \in {"discover", "share"} THEN "abstain"
    ELSE IF ask.settlement = "unread" THEN "abstain"
    ELSE IF IF Destroys(ask) THEN AdmitsDeletion(ask.admits, ask.settlement)
                             ELSE AdmitsSettlement("unkept", ask.settlement)
         THEN "pass" ELSE "reject"

ProtocolGate(ask) ==
    IF ask.ask \notin {"share", "prune"} THEN "abstain"
    ELSE IF ask.locks THEN "pass" ELSE "reject"

Capability(ask) ==
    IF ask.ask # "share" THEN "abstain"
    ELSE IF ask.shares THEN "pass" ELSE "reject"

(* Mutant: a lock whose state cannot be read is taken for free.            *)
BusyUnlessHeld(ask) ==
    IF ask.ask = "discover" THEN "abstain"
    ELSE IF ask.liveness = "unread" THEN "abstain"
    ELSE IF ask.liveness # "held" THEN "pass" ELSE "reject"

Busy(ask) ==
    IF ask.ask = "discover" THEN "abstain"
    ELSE IF ask.liveness = "unread" THEN "abstain"
    ELSE IF ask.liveness = "free" THEN "pass" ELSE "reject"

Identity(ask) ==
    IF ~HasRecord(ask) THEN "abstain"
    ELSE IF ask.samePath /\ ask.sameIdentity THEN "pass" ELSE "reject"

(* The id that was recorded is derived again from what is there now.       *)
Freshness(ask) ==
    IF ask.ask # "verify" THEN "abstain"
    ELSE IF ask.samePath /\ ask.sameIdentity /\ ask.fresh THEN "pass" ELSE "reject"

Check(site, ask) ==
    [shape |-> Shape(site), mount |-> Mount(site), area |-> Area(site),
     exclusion |-> Exclusion(site), evidence |-> EvidenceGate(site, ask),
     tier |-> Tier(site, ask), ownership |-> OwnershipGate(ask),
     protocol |-> ProtocolGate(ask), capability |-> Capability(ask),
     busy |-> Busy(ask), identity |-> Identity(ask), freshness |-> Freshness(ask)]

(* The pipeline stops at the first gate that rejects.                      *)
Admitted(site, ask) ==
    \A i \in 1..Len(Order) : Check(site, ask)[Order[i]] # "reject"
===============================================================================
