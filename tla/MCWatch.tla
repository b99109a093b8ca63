-------------------------------- MODULE MCWatch --------------------------------
(* Instances of the session for TLC.                                       *)
EXTENDS Watch

CONSTANTS c1, c2, r1, r2

(* One cache, and two caches of two repositories.                          *)
OneCache == [c \in {c1} |-> r1]
TwoRepositories == [c \in {c1, c2} |-> IF c = c1 THEN r1 ELSE r2]
===============================================================================
