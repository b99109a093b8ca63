--------------------------------- MODULE Dedupe ---------------------------------
(***************************************************************************)
(* The command that shares what is equal (cli/dedupe.rs: Pool::share, run), *)
(* on files that nobody writes meanwhile: everything is read and planned,   *)
(* every pair of the plan is shared, and the command may be given again.    *)
(* How one pair is shared among writers is Sharing's business.              *)
(***************************************************************************)
EXTENDS SharePlan

CONSTANT Observations    \* the files there may be, and what is read at each place

ASSUME DedupeAssumption == \A o \in Observations : Observed(o.files)

VARIABLES observed, prints, ran

dedupe == <<observed, prints, ran>>

DedupeInit ==
    /\ \E o \in Observations : observed = o.files /\ prints = o.prints
    /\ ran = FALSE

Run ==
    /\ observed' = AllShared(observed, Planned(observed, prints)) /\ ran' = TRUE
    /\ UNCHANGED prints

DedupeSpec == DedupeInit /\ [][Run]_dedupe

-------------------------------------------------------------------------------
(* What has been shared is not shared again: after a run the plan has        *)
(* nothing to share, and no plan pairs files that were not read as equal     *)
(* (share.rs: groups, split, keeper, plan).                                  *)
SharingConverges ==
    LET planned == Planned(observed, prints)
    IN /\ ran => \A p \in planned : p.pairing # "share"
       /\ \A p \in planned : prints[p.kept.place] = prints[p.other.place]
===============================================================================
