------------------------------- MODULE Ownership -------------------------------
(***************************************************************************)
(* Whose an artifact is: owner markers on it, above it and inside it, and  *)
(* the git worktree around it, resolved into one settlement, and what a    *)
(* caller's mandate admits of it.  Pure operators (core/src/ownership.rs).  *)
(***************************************************************************)
EXTENDS Naturals

Settlements == {"released", "landed", "active", "kept", "unclaimed"}

Rank == [s \in Settlements |->
    CASE s = "released"  -> 0
      [] s = "landed"    -> 1
      [] s = "unclaimed" -> 2
      [] s = "active"    -> 3
      [] s = "kept"      -> 4]

-------------------------------------------------------------------------------
(* Owner markers: `owner.json` next to an `owner.lock`.                    *)

LockStates == {"held", "free", "missing", "unreadable"}
Keys == {"unkeyed", "present", "gone", "unknown"}

Markers == [keep : {"kept", "released"}, lock : LockStates,
            role : {"scratch", "cache"}, key : Keys]

(* Mutant: a lock file that was removed counts as let go.                  *)
MarkerSettlementLax(m) ==
    IF m.keep = "kept" THEN "kept"
    ELSE IF m.lock \in {"free", "missing"} /\ (m.role = "scratch" \/ m.key = "gone")
         THEN "released" ELSE "active"

MarkerSettlement(m) ==
    IF m.keep = "kept" THEN "kept"
    ELSE IF m.lock = "free" /\ (m.role = "scratch" \/ m.key = "gone")
         THEN "released" ELSE "active"

-------------------------------------------------------------------------------
(* Git worktrees.  A branch is named by the state of its upstream.         *)

Heads == {"no-upstream", "tracking", "upstream-gone", "detached"}
Landings == {"no-default-branch", "no-own-work", "contained", "not-contained"}

Evidence == [sameIdentity : BOOLEAN, sameDigest : BOOLEAN,
             monitor : LockStates, writers : LockStates]

Worktrees ==
    [kind : {"none", "primary", "unreadable", "orphaned"}]
      \cup [kind : {"linked"}, changes : {"clean", "dirty"}, head : Heads,
            landing : Landings]
      \cup [kind : {"released"}, evidence : Evidence]

EvidenceSettlement(e) ==
    IF e.sameIdentity /\ e.sameDigest /\ e.monitor = "held" /\ e.writers = "free"
    THEN "released" ELSE "active"

HasLanded(w) ==
    /\ w.changes = "clean"
    /\ \/ w.head = "upstream-gone"
       \/ w.landing = "contained"
       \/ w.head = "detached" /\ w.landing = "no-own-work"

WorktreeSettlement(w) ==
    CASE w.kind = "released" -> EvidenceSettlement(w.evidence)
      [] w.kind = "orphaned" -> "released"
      [] w.kind = "linked" -> IF HasLanded(w) THEN "landed" ELSE "active"
      [] w.kind \in {"primary", "unreadable"} -> "active"

-------------------------------------------------------------------------------
(* Resolution.  `own` are the markers on the directory and above it,       *)
(* `nested` those inside it.                                               *)

Protects(s) == s \in {"active", "kept"}

(* The strongest claim; nothing at all is unclaimed.                       *)
Strongest(S) ==
    IF S = {} THEN "unclaimed"
    ELSE CHOOSE s \in S : \A t \in S : Rank[t] <= Rank[s]

SettlementsOf(markers) == {MarkerSettlement(m) : m \in markers}

Around(w) == IF w.kind = "none" THEN {} ELSE {WorktreeSettlement(w)}

Holders(nested) == {m \in nested : Protects(MarkerSettlement(m))}

(* Mutant: a marker inside takes part like the directory's own.            *)
SettlementOfAll(own, nested, worktree) ==
    IF own \cup nested # {} THEN Strongest(SettlementsOf(own \cup nested))
    ELSE Strongest(Around(worktree))

(* Own markers outweigh the worktree; a marker inside only ever adds its   *)
(* protection.                                                             *)
SettlementOf(own, nested, worktree) ==
    Strongest(SettlementsOf(Holders(nested))
                \cup (IF own # {} THEN SettlementsOf(own) ELSE Around(worktree)))

-------------------------------------------------------------------------------
(* Mandates.                                                               *)

Admits == {"anything", "settled", "unkept"}

AdmitsSettlement(admits, s) ==
    \/ admits = "anything"
    \/ admits = "settled" /\ s \in {"released", "landed"}
    \/ admits = "unkept" /\ s # "kept"

(* Mutant: a wide mandate deletes whatever it admits.                      *)
AdmitsDeletionAsAsked(admits, s) == AdmitsSettlement(admits, s)

(* Whatever the mandate, only what was let go is deleted.                  *)
AdmitsDeletion(admits, s) ==
    AdmitsSettlement("settled", s) /\ AdmitsSettlement(admits, s)

Deletable(admits, own, nested, worktree) ==
    AdmitsDeletion(admits, SettlementOf(own, nested, worktree))
===============================================================================
