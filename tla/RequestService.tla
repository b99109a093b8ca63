---------------------------- MODULE RequestService ----------------------------
(***************************************************************************)
(* What the run station promises to whoever asks for a cleanup, with no    *)
(* lock, no flag file and no process in sight.  A request is answered by   *)
(* a sweep that begins after it was made; one sweep answers every request  *)
(* that is waiting when it begins, and only one sweep is under way.  A     *)
(* process that fails or dies takes the requests of its sweep with it and  *)
(* may leave the waiting ones to whoever asks next.                        *)
(***************************************************************************)
EXTENDS Naturals

CONSTANT Requests

VARIABLE status

States ==
    {"unasked", "waiting", "stranded", "sweeping", "answered", "failed"}

TypeOK == status \in [Requests -> States]

In(state) == {r \in Requests : status[r] = state}

Init == status = [r \in Requests |-> "unasked"]

Ask(r) ==
    /\ status[r] = "unasked"
    /\ status' = [status EXCEPT ![r] = "waiting"]

Begin ==
    /\ In("sweeping") = {}
    /\ In("waiting") \cup In("stranded") # {}
    /\ status' = [r \in Requests |->
                    IF status[r] \in {"waiting", "stranded"}
                    THEN "sweeping" ELSE status[r]]

Finish ==
    /\ In("sweeping") # {}
    /\ status' = [r \in Requests |->
                    IF status[r] = "sweeping" THEN "answered" ELSE status[r]]

(* A failure strands what is waiting; when the failing process was the one *)
(* sweeping, its requests fail with it.                                    *)
Fail(sweeper) ==
    status' = [r \in Requests |->
                 CASE status[r] = "waiting" -> "stranded"
                   [] status[r] = "sweeping" /\ sweeper -> "failed"
                   [] OTHER -> status[r]]

Next ==
    \/ \E r \in Requests : Ask(r)
    \/ Begin
    \/ Finish
    \/ \E sweeper \in BOOLEAN : Fail(sweeper)

Spec == Init /\ [][Next]_status

-------------------------------------------------------------------------------
(* Every request is answered, unless a process failed on the way: a hook   *)
(* or a manual `auto --execute` is never silently dropped by coalescing.   *)
Answered ==
    \A r \in Requests :
        status[r] = "waiting" ~> status[r] \in {"answered", "failed", "stranded"}

(* A request a dead process left behind is swept up by the next request    *)
(* that gets answered: the flag it left is still up.                       *)
Rescued ==
    \A r, q \in Requests :
        (status[r] = "stranded" /\ status[q] = "waiting")
            ~> (status[r] # "stranded" \/ status[q] = "stranded")
===============================================================================
