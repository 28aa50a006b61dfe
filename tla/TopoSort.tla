------------------------------- MODULE TopoSort -------------------------------
(***************************************************************************)
(* topoSortNodes of internal/domain/service/topo.go: Kahn's algorithm over *)
(* the DependsOn lists of the autostart services, one action per turn of   *)
(* its main loop.  A list may name a service twice, name its own service,  *)
(* or name one that is not among the nodes.                                *)
(***************************************************************************)
EXTENDS Naturals, Sequences, FiniteSets

CONSTANTS
  Input,     \* the service IDs, in the order of the slice
  Name,      \* the IDs a DependsOn list may name
  DepLists   \* the DependsOn lists a service may have

Node == {Input[i] : i \in 1..Len(Input)}

ASSUME InputAssumption ==
  /\ Input \in Seq(Node)
  /\ \A i, j \in 1..Len(Input) : Input[i] = Input[j] => i = j
ASSUME DepsAssumption == DepLists \subseteq Seq(Name)

VARIABLES
  deps,       \* n.DependsOn of every node
  inDegree,   \* edges into a node from nodes that are not in order yet
  queue,
  order,
  result      \* sorting, ok, cycle

topoVars == <<deps, inDegree, queue, order, result>>

Elements(s) == {s[i] : i \in DOMAIN s}

\* The positions of n.DependsOn that name a member of S: duplicates count twice.
Edges(n, S) == {i \in DOMAIN deps[n] : deps[n][i] \in S}

Degree(n) == Cardinality(Edges(n, Node))

\* The members of S listed in input order: the one such sequence.
Listed(S) ==
  {s \in [1..Cardinality(S) -> S] :
     /\ Elements(s) = S
     /\ \A i, j \in DOMAIN s, k, l \in DOMAIN Input : i < j /\ s[i] = Input[k] /\ s[j] = Input[l] => k < l}

\* dependents[id]: the nodes with an edge from id.
Dependents(id) == {n \in Node : Edges(n, {id}) # {}}

\* The nodes that lost their last edge with id.
Freed(id, left) == {n \in Dependents(id) : left[n] = 0}

\* present, inDegree and the seed of the queue.
TopoInit ==
  /\ deps \in [Node -> DepLists]
  /\ inDegree = [n \in Node |-> Degree(n)]
  /\ queue \in Listed({n \in Node : inDegree[n] = 0})
  /\ order = <<>>
  /\ result = "sorting"

\* One turn of the loop: the head of the queue goes to the order, each edge out
\* of it is taken off, and a node that loses its last edge is queued.
Take ==
  /\ result = "sorting"
  /\ queue # <<>>
  /\ LET id == Head(queue)
         left == [n \in Node |-> inDegree[n] - Cardinality(Edges(n, {id}))]
     IN  /\ order' = Append(order, id)
         /\ inDegree' = left
         /\ \E freed \in Listed(Freed(id, left)) : queue' = Tail(queue) \o freed
  /\ UNCHANGED <<deps, result>>

FinishUnchecked ==                         \* mutant of Finish
  /\ result = "sorting" /\ queue = <<>>
  /\ result' = "ok"
  /\ UNCHANGED <<deps, inDegree, queue, order>>

\* The queue is empty: every node was ordered, or the others are stuck.
Finish ==
  /\ result = "sorting"
  /\ queue = <<>>
  /\ result' = IF Len(order) = Len(Input) THEN "ok" ELSE "cycle"
  /\ UNCHANGED <<deps, inDegree, queue, order>>

TopoNext == Take \/ Finish

\* The services the error names.
Stuck == {n \in Node : inDegree[n] > 0}

TopoTypeOK ==
  /\ deps \in [Node -> DepLists]
  /\ inDegree \in [Node -> Nat]
  /\ queue \in Seq(Node)
  /\ order \in Seq(Node)
  /\ result \in {"sorting", "ok", "cycle"}

-----------------------------------------------------------------------------
(* Properties.                                                                *)

DependsOn(n) == Elements(deps[n])

\* The reference definition of a cycle: a nonempty set of services each of
\* which depends on a member of the set.
Knot(R)  == R # {} /\ \A n \in R : DependsOn(n) \cap R # {}
Acyclic  == \A R \in SUBSET Node : ~Knot(R)

\* The sort succeeds exactly on the graphs without a cycle, with every service
\* in the order; otherwise the services the error names form a knot, and all of
\* those in cycles are among them.
ResultIsRight ==
  /\ result = "ok" => Acyclic /\ Elements(order) = Node
  /\ result = "cycle" =>
       /\ Knot(Stuck)
       /\ \A R \in SUBSET Node : Knot(R) => R \subseteq Stuck
=============================================================================
