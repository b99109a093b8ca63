------------------------------- MODULE SharePlan -------------------------------
(***************************************************************************)
(* Which files are shared with which (core/share.rs): files of one length  *)
(* on one volume are a group, a fingerprint splits it, one member is kept  *)
(* and every other one is paired with it.  A record is a file as it was    *)
(* observed; cluster 0 is one the filesystem does not tell.                *)
(***************************************************************************)
EXTENDS Integers, FiniteSets

Minimum == 2     \* the length, in units of 32 KiB, from which files count

MethodOf(filesystem) ==
    CASE filesystem = "apfs" -> "clone-and-swap"
      [] filesystem \in {"btrfs", "xfs"} -> "dedupe-range"
      [] filesystem = "other" -> "unsupported"

Replaces(method) == method = "clone-and-swap"

(* Files that share their blocks; one whose cluster is unknown stands alone. *)
Family(r) == IF r.cluster = 0 THEN <<"alone", r.file>> ELSE <<"cluster", r.cluster>>
Families(records) == {Family(r) : r \in records}

(* What a file cannot have replaced without somebody noticing: its names,   *)
(* the system's trust in a program, flags and an ACL.                       *)
Fixed(r) ==
    /\ Replaces(r.method)
    /\ r.links > 1 \/ r.mode = "executable" \/ r.extras \in {"special", "unobserved"}

(* Mutant: files that already share their blocks are shared once more.      *)
PairAgain(kept, other) ==
    LET replaced == Replaces(other.method) IN
    CASE kept.file = other.file \/ kept.volume # other.volume \/ kept.len # other.len
         \/ other.owner # "caller" -> "refused"
      [] replaced /\ (other.links > 1 \/ other.mode = "executable") -> "refused"
      [] replaced /\ (kept.extras # other.extras \/ Fixed(other)) -> "refused"
      [] OTHER -> "share"

(* The gates of a pair, in their order: the first that does not pass says   *)
(* what becomes of it.                                                      *)
Pair(kept, other) ==
    LET replaced == Replaces(other.method) IN
    CASE kept.file = other.file /\ kept.volume = other.volume -> "refused"
      [] kept.volume # other.volume \/ kept.len # other.len -> "refused"
      [] kept.cluster = other.cluster /\ kept.cluster # 0 -> "already-shared"
      [] other.owner # "caller" -> "refused"
      [] replaced /\ (other.links > 1 \/ other.mode = "executable") -> "refused"
      [] replaced /\ (\/ {kept.extras, other.extras} \cap {"special", "unobserved"} # {}
                      \/ kept.extras # other.extras) -> "refused"
      [] OTHER -> "share"

-------------------------------------------------------------------------------
(* Groups worth reading: long enough, and not yet one family.               *)
Groups(records) ==
    {group \in {{r \in records : <<r.volume, r.len>> = <<s.volume, s.len>>} : s \in records} :
        /\ \A r \in group : r.len >= Minimum
        /\ Cardinality(Families(group)) > 1}

(* A file whose fingerprint could not be taken is in no group.              *)
Split(group, print) ==
    {part \in {{r \in group : print[r] = print[s]} :
                  s \in {t \in group : print[t] # "unread"}} :
        Cardinality(Families(part)) > 1}

FamilySize(group, r) == Cardinality({s \in group : Family(s) = Family(r)})

(* r is kept rather than s: its family is the larger one, or it cannot be   *)
(* replaced, or it comes first by location.                                 *)
Preferred(group, r, s) ==
    LET sizes == <<FamilySize(group, r), FamilySize(group, s)>> IN
    \/ sizes[1] > sizes[2]
    \/ sizes[1] = sizes[2] /\ Fixed(r) /\ ~Fixed(s)
    \/ sizes[1] = sizes[2] /\ (Fixed(r) <=> Fixed(s)) /\ r.place <= s.place

Keeper(group) == CHOOSE r \in group : \A s \in group : Preferred(group, r, s)

Plan(groups) ==
    UNION {LET kept == Keeper(group) IN
           {[kept |-> kept, other |-> r, pairing |-> Pair(kept, r)] : r \in group \ {kept}} :
              group \in groups}

(* A failure that says the files were changed, which is nobody's fault.     *)
Overtaken(failure) == failure \in {"keeper-changed", "duplicate-changed", "content-differs"}

-------------------------------------------------------------------------------
(* The files after every pair has been shared, where the filesystem tells.  *)
AllShared(records, pairs) ==
    {IF \E p \in pairs : p.other = r /\ p.pairing = "share"
     THEN [r EXCEPT !.cluster =
              (CHOOSE p \in pairs : p.other = r /\ p.pairing = "share").kept.cluster]
     ELSE r : r \in records}

(* What is planned for files of which this was read, by place.               *)
Planned(records, print) ==
    Plan(UNION {Split(g, [r \in g |-> print[r.place]]) : g \in Groups(records)})

(* Files as they are observed, each at a place of its own, on volumes that    *)
(* share in one way and tell the cluster of every file, as APFS does.        *)
Observed(records) ==
    /\ IsFiniteSet(records)
    /\ records \subseteq [place : Nat, file : Nat, volume : Nat, len : Nat, method : STRING,
                          links : Nat, owner : STRING, mode : STRING, extras : STRING,
                          cluster : Nat \ {0}]
    /\ \A r, s \in records : r.place = s.place => r = s
    /\ \A r, s \in records : r.volume = s.volume =>
          /\ Replaces(r.method) <=> Replaces(s.method)
          /\ r.file = s.file => r.cluster = s.cluster
===============================================================================
