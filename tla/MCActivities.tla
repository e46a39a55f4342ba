---------------------------- MODULE MCActivities ----------------------------
(* Activities for TLC: one run of any kind by anyone and one that a service asks
   for and waits for; requests and tables are interchangeable. *)
EXTENDS Activities, TLC

MCKinds == [r \in Runs |-> IF r = "r1" THEN {"single", "plain", "tools", "orchestration"} ELSE {"single"}]
MCCallers == [r \in Runs |-> IF r = "r1" THEN {"user", "service"} ELSE {"service"}]
Symmetry == Permutations(Actors)
=============================================================================
