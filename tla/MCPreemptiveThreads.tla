------------------------ MODULE MCPreemptiveThreads ------------------------
(* Priorities for the instances of PreemptiveThreads that TLC checks.      *)
EXTENDS PreemptiveThreads

MCEqual == [f \in Threads |-> 0]
MCOneHigh == [f \in Threads |-> IF f = CHOOSE g \in Threads : TRUE THEN 1 ELSE 0]
=============================================================================
