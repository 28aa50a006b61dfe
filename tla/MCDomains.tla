------------------------------- MODULE MCDomains -------------------------------
(* The instance of DomainBinding and LocalCA for TLC.  The two share no        *)
(* variable here (each has its own view of the rows), so a behaviour moves one *)
(* of them and the other one stays in its initial state.  Where requests       *)
(* overlap there is no project: the hosts file and the table domains are what  *)
(* is looked at then.                                                          *)
EXTENDS DomainBinding, LocalCA, TLC

CONSTANTS h1, H1, b1, h2   \* one name typed plainly, in capitals, after a blank; another name

VARIABLE part

domainsVars == <<vars, caVars, part>>

MCLower == [h \in Host |-> IF h = H1 THEN h1 ELSE h]
MCFold  == [h \in Host |-> IF h \in {H1, b1} THEN h1 ELSE h]

MCOverlaps  == {{"overlap", "write", "crash"}, {"overlap", "edit", "crash"}, {"overlap", "spelling", "crash"}}
MCFaultSets == MCOverlaps \cup {{"edit"}, {"crash"}, {"exit"}, {"api"}, {"spelling"}, {"write"}}

\* Where requests come one at a time and statements fail, one domain is enough.
OneDomain == faults = {"write"} => \A d, e \in Dom : dom'[d].st # "new" /\ dom'[e].st # "new" => d = e

\* With requests that overlap, the other name is somebody else's.
DomainsInit ==
  /\ Init /\ CAInit /\ part \in {"bindings", "hosts", "ca"}
  /\ part = "hosts" <=> faults \in MCOverlaps
  /\ part = "hosts" => hosts = [l \in Line |-> IF l = h2 THEN "foreign" ELSE "none"]
  /\ part = "ca" => faults = {"crash"} /\ hosts = Blank

DomainsNext ==
  \/ part = "bindings" /\ Next /\ OneDomain /\ UNCHANGED <<caVars, part>>
  \/ part = "hosts" /\ Next /\ UNCHANGED proj /\ UNCHANGED <<caVars, part>>
  \/ part = "ca" /\ CANext /\ UNCHANGED <<vars, part>>

DomainsSpec == DomainsInit /\ [][DomainsNext]_domainsVars

Symmetry == Permutations(Port) \cup Permutations(Caller)
=============================================================================
