-------------------------------- MODULE Claims --------------------------------
(***************************************************************************)
(* The claims on one directory as they come and go: markers on or above it *)
(* and inside it, in a worktree of any state.  Each step changes one       *)
(* marker, as an owner, a tool or a person does.                           *)
(***************************************************************************)
EXTENDS Ownership, FiniteSets

CONSTANTS
    MaxOwn,      \* how many markers lie on the directory and above it
    MaxNested    \* how many lie inside it

VARIABLES own, nested, worktree

claims == <<own, nested, worktree>>

ClaimsTypeOK ==
    /\ own \subseteq Markers
    /\ nested \subseteq Markers
    /\ worktree \in Worktrees

ClaimsInit == own = {} /\ nested = {} /\ worktree \in Worktrees

(* An owner declares itself on the directory or above it, or inside it.    *)
Declare ==
    \E m \in Markers :
        \/ /\ Cardinality(own) < MaxOwn
           /\ own' = own \cup {m}
           /\ UNCHANGED <<nested, worktree>>
        \/ /\ Cardinality(nested) < MaxNested
           /\ nested' = nested \cup {m}
           /\ UNCHANGED <<own, worktree>>

(* Mutant: whatever a marker says of being kept is taken over unread.      *)
AlteredUnparsed(markers) ==
    UNION {{(markers \ {m}) \cup {[m EXCEPT !.keep = k]} :
               k \in {"kept", "released", "unread"}} : m \in markers}

(* A marker is rewritten, or its lock or the path it is keyed to changes.  *)
Altered(markers) ==
    UNION {{(markers \ {m}) \cup {n} : n \in
              {[m EXCEPT !.keep = k] : k \in {"kept", "released"}}
                \cup {[m EXCEPT !.lock = l] : l \in LockStates}
                \cup {[m EXCEPT !.key = k] : k \in Keys}} : m \in markers}

Alter ==
    \/ own' \in Altered(own) /\ UNCHANGED <<nested, worktree>>
    \/ nested' \in Altered(nested) /\ UNCHANGED <<own, worktree>>

(* A marker is removed.                                                    *)
Withdraw ==
    \/ \E m \in own : own' = own \ {m} /\ UNCHANGED <<nested, worktree>>
    \/ \E m \in nested : nested' = nested \ {m} /\ UNCHANGED <<own, worktree>>

ClaimsNext == Declare \/ Alter \/ Withdraw

ClaimsSpec == ClaimsInit /\ [][ClaimsNext]_claims

-------------------------------------------------------------------------------
Settlement == SettlementOf(own, nested, worktree)

(* Deletion needs everybody's consent: every marker on, above and inside   *)
(* the directory has been let go, and without a marker of its own the      *)
(* worktree has too, whatever the mandate asks for.                        *)
DeletionNeedsAll ==
    \A admits \in Admits :
        Deletable(admits, own, nested, worktree) =>
            /\ \A m \in own \cup nested : MarkerSettlement(m) = "released"
            /\ own = {} => /\ worktree.kind # "none"
                           /\ WorktreeSettlement(worktree) \in {"released", "landed"}

(* A lock nobody can be seen to have let go protects: it is held, or its   *)
(* file was removed or cannot be read.                                     *)
UnprovenLockProtects ==
    (\E m \in own \cup nested : m.lock # "free") => Protects(Settlement)

(* A marker inside protects and never releases (docs/usage.md): when one   *)
(* appears or goes and nothing else changes, protection moves with it.     *)
NestedNeverReleases ==
    [][UNCHANGED <<own, worktree>> =>
         /\ nested \subseteq nested' => Rank[Settlement] <= Rank[Settlement']
         /\ nested' \subseteq nested => Rank[Settlement'] <= Rank[Settlement]]_claims
===============================================================================
