------------------------------ MODULE MCAutostart ------------------------------
(* Autostart over every graph of three services whose lists have up to two    *)
(* entries, each of which names one of them or a service that is not there.   *)
EXTENDS Autostart

CONSTANTS a, b, c, absent

MCInput    == <<a, b, c>>
MCName     == {a, b, c, absent}
MCDepLists == UNION {[1..n -> MCName] : n \in 0..2}
=============================================================================
