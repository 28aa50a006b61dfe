----------------------------- MODULE MCJobRunner -----------------------------
(* Instances of JobRunner for TLC. *)
EXTENDS JobRunner

MCFaultSets == {{"crash"}, {"crash", "write", "log"}}

\* Where writes fail the two goroutines ask for one key.
OneKey == "write" \in faults => UNCHANGED key
MCSpec == Init /\ [][Next /\ OneKey]_vars /\ Fairness
=============================================================================
