--------------------------- MODULE MCServiceManager ---------------------------
(* Instances of ServiceManager for TLC. *)
EXTENDS ServiceManager, TLC

CONSTANT c2

PolicyNo        == [s \in Service |-> "no"]
PolicyAlways    == [s \in Service |-> "always"]
PolicyOnFailure == [s \in Service |-> "on-failure"]

\* Of the two goroutines one does everything, the other one nothing but stop.
OnlyStops  == op'[c2] \in {"none", "stop"}
MCSpec     == Init /\ [][Next /\ OnlyStops]_vars
MCLiveSpec == MCSpec /\ Fairness

\* Processes are interchangeable.
Symmetry == Permutations(Proc)
=============================================================================
