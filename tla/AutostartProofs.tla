---------------------------- MODULE AutostartProofs ----------------------------
(***************************************************************************)
(* Theorems about the sort and the pass of Autostart for any services,     *)
(* with any lists of dependencies, duplicates, absent names and            *)
(* dependencies on themselves included.                                    *)
(***************************************************************************)
EXTENDS Autostart, FiniteSetTheorems, TLAPS

USE InputAssumption, DepsAssumption, CancelAssumption

-----------------------------------------------------------------------------
(* Sequences as the sort uses them                                            *)

\* No member of s comes twice.
NoRepeats(s) == \A i, j \in DOMAIN s : s[i] = s[j] => i = j

LEMMA HeadAndTail ==
  ASSUME NEW S, NEW s \in Seq(S), s # <<>>
  PROVE  /\ Head(s) \in S /\ Tail(s) \in Seq(S)
         /\ Elements(s) = {Head(s)} \cup Elements(Tail(s))
         /\ NoRepeats(s) => NoRepeats(Tail(s)) /\ Head(s) \notin Elements(Tail(s))
<1>1. /\ Len(s) \in Nat /\ Len(s) >= 1 /\ DOMAIN s = 1..Len(s) /\ Head(s) = s[1] /\ Head(s) \in S
      /\ Tail(s) \in Seq(S) /\ DOMAIN Tail(s) = 1..(Len(s) - 1)
      /\ \A i \in 1..(Len(s) - 1) : Tail(s)[i] = s[i + 1]
  OBVIOUS
<1>2. Elements(s) \subseteq {Head(s)} \cup Elements(Tail(s))
  <2> SUFFICES ASSUME NEW i \in 1..Len(s), i # 1 PROVE s[i] \in Elements(Tail(s))
    BY <1>1 DEF Elements
  <2>1. i - 1 \in 1..(Len(s) - 1) /\ Tail(s)[i - 1] = s[i]
    BY <1>1
  <2> QED BY <1>1, <2>1 DEF Elements
<1>3. {Head(s)} \cup Elements(Tail(s)) \subseteq Elements(s)
  BY <1>1 DEF Elements
<1>4. ASSUME NoRepeats(s) PROVE NoRepeats(Tail(s))
  BY <1>1, <1>4 DEF NoRepeats
<1>5. ASSUME NoRepeats(s) PROVE Head(s) \notin Elements(Tail(s))
  BY <1>1, <1>5 DEF NoRepeats, Elements
<1> QED BY <1>1, <1>2, <1>3, <1>4, <1>5

LEMMA AppendOne ==
  ASSUME NEW S, NEW s \in Seq(S), NEW x \in S
  PROVE  /\ Append(s, x) \in Seq(S) /\ Len(Append(s, x)) = Len(s) + 1
         /\ \A i \in DOMAIN s : Append(s, x)[i] = s[i]
         /\ Append(s, x)[Len(s) + 1] = x
         /\ DOMAIN Append(s, x) = DOMAIN s \cup {Len(s) + 1}
         /\ Elements(Append(s, x)) = Elements(s) \cup {x}
         /\ NoRepeats(s) /\ x \notin Elements(s) => NoRepeats(Append(s, x))
<1>1. /\ Append(s, x) \in Seq(S) /\ Len(Append(s, x)) = Len(s) + 1 /\ Len(s) \in Nat
      /\ DOMAIN s = 1..Len(s) /\ DOMAIN Append(s, x) = 1..(Len(s) + 1)
      /\ \A i \in 1..Len(s) : Append(s, x)[i] = s[i]
      /\ Append(s, x)[Len(s) + 1] = x
  OBVIOUS
<1>2. DOMAIN Append(s, x) = DOMAIN s \cup {Len(s) + 1}
  BY <1>1
<1>3. Elements(Append(s, x)) = Elements(s) \cup {x}
  BY <1>1, <1>2 DEF Elements
<1>4. ASSUME NoRepeats(s), x \notin Elements(s) PROVE NoRepeats(Append(s, x))
  BY <1>1, <1>2, <1>4 DEF NoRepeats, Elements
<1> QED BY <1>1, <1>2, <1>3, <1>4

LEMMA Concatenated ==
  ASSUME NEW S, NEW s \in Seq(S), NEW t \in Seq(S)
  PROVE  /\ s \o t \in Seq(S)
         /\ Elements(s \o t) = Elements(s) \cup Elements(t)
         /\ NoRepeats(s) /\ NoRepeats(t) /\ Elements(s) \cap Elements(t) = {} => NoRepeats(s \o t)
<1>1. /\ s \o t \in Seq(S) /\ Len(s) \in Nat /\ Len(t) \in Nat
      /\ DOMAIN s = 1..Len(s) /\ DOMAIN t = 1..Len(t) /\ DOMAIN (s \o t) = 1..(Len(s) + Len(t))
      /\ \A i \in 1..Len(s) : (s \o t)[i] = s[i]
      /\ \A i \in 1..Len(t) : (s \o t)[Len(s) + i] = t[i]
  OBVIOUS
<1>2. \A i \in 1..(Len(s) + Len(t)) :
        i \in 1..Len(s) \/ (i - Len(s) \in 1..Len(t) /\ i = Len(s) + (i - Len(s)))
  BY <1>1
<1>3. \A i \in 1..(Len(s) + Len(t)) :
        \/ i \in 1..Len(s) /\ (s \o t)[i] = s[i]
        \/ i - Len(s) \in 1..Len(t) /\ (s \o t)[i] = t[i - Len(s)]
  BY <1>1, <1>2
<1>4. Elements(s \o t) \subseteq Elements(s) \cup Elements(t)
  BY <1>1, <1>3 DEF Elements
<1>5. Elements(s) \subseteq Elements(s \o t)
  BY <1>1 DEF Elements
<1>6. Elements(t) \subseteq Elements(s \o t)
  <2> SUFFICES ASSUME NEW i \in 1..Len(t) PROVE t[i] \in Elements(s \o t)
    BY <1>1 DEF Elements
  <2>1. Len(s) + i \in 1..(Len(s) + Len(t))
    BY <1>1
  <2>2. (s \o t)[Len(s) + i] = t[i]
    BY <1>1
  <2> QED BY <1>1, <2>1, <2>2 DEF Elements
<1>7. ASSUME NoRepeats(s), NoRepeats(t), Elements(s) \cap Elements(t) = {} PROVE NoRepeats(s \o t)
  <2>1. \A i \in 1..Len(s), j \in 1..Len(t) : s[i] # t[j]
    <3>1. \A i \in 1..Len(s), j \in 1..Len(t) : s[i] \in Elements(s) /\ t[j] \in Elements(t)
      BY <1>1 DEF Elements
    <3> QED BY <1>7, <3>1
  <2> SUFFICES ASSUME NEW i \in 1..(Len(s) + Len(t)), NEW j \in 1..(Len(s) + Len(t)), (s \o t)[i] = (s \o t)[j]
               PROVE  i = j
    BY <1>1 DEF NoRepeats
  <2>2. CASE i \in 1..Len(s) /\ j \in 1..Len(s)
    BY <1>1, <1>7, <2>2 DEF NoRepeats
  <2>3. CASE i \notin 1..Len(s) /\ j \notin 1..Len(s)
    <3>1. t[i - Len(s)] = t[j - Len(s)] /\ i - Len(s) \in 1..Len(t) /\ j - Len(s) \in 1..Len(t)
      BY <1>3, <2>3
    <3>2. i - Len(s) = j - Len(s)
      BY <1>1, <1>7, <3>1 DEF NoRepeats
    <3> QED BY <1>1, <3>2
  <2>4. CASE ~(i \in 1..Len(s) <=> j \in 1..Len(s))
    BY <1>3, <2>1, <2>4
  <2> QED BY <2>2, <2>3, <2>4
<1> QED BY <1>1, <1>4, <1>5, <1>6, <1>7

LEMMA NodesAreFinite == IsFiniteSet(Node) /\ Cardinality(Node) = Len(Input) /\ Len(Input) \in Nat
<1>1. /\ Len(Input) \in Nat /\ DOMAIN Input = 1..Len(Input) /\ Input \in [1..Len(Input) -> Node]
  OBVIOUS
<1>2. Input \in Surjection(1..Len(Input), Node)
  BY <1>1 DEF Surjection, Node
<1>3. Input \in Injection(1..Len(Input), Node)
  BY <1>1 DEF Injection, IsInjective
<1>4. IsFiniteSet(1..Len(Input)) /\ Cardinality(1..Len(Input)) = Len(Input)
  BY <1>1, FS_Interval
<1> QED BY <1>1, <1>2, <1>3, <1>4, FS_Surjection

\* The listing of a set of nodes.
LEMMA ListingType ==
  ASSUME NEW S \in SUBSET Node, NEW s \in Listed(S)
  PROVE  s \in Seq(Node) /\ Elements(s) = S /\ NoRepeats(s)
<1>1. IsFiniteSet(S) /\ Cardinality(S) \in Nat
  BY NodesAreFinite, FS_Subset, FS_CardinalityType
<1>2. s \in [1..Cardinality(S) -> S] /\ Elements(s) = S
  BY DEF Listed
<1>3. s \in Seq(Node)
  BY <1>1, <1>2
<1>4. ASSUME NEW i \in DOMAIN s, NEW j \in DOMAIN s, s[i] = s[j], i < j PROVE FALSE
  <2>1. PICK k \in DOMAIN Input : s[i] = Input[k]
    BY <1>2 DEF Node
  <2>2. \A x, y \in DOMAIN s, m, n \in DOMAIN Input : x < y /\ s[x] = Input[m] /\ s[y] = Input[n] => m < n
    BY DEF Listed
  <2>3. k < k
    BY <1>4, <2>1, <2>2
  <2>4. k \in Nat
    OBVIOUS
  <2> QED BY <2>3, <2>4
<1>5. NoRepeats(s)
  <2>1. \A i \in DOMAIN s : i \in Nat
    BY <1>1, <1>2
  <2> QED BY <1>4, <2>1 DEF NoRepeats
<1> QED BY <1>2, <1>3, <1>5

-----------------------------------------------------------------------------
(* The sort                                                                   *)

LEMMA EdgesCount ==
  ASSUME deps \in [Node -> DepLists], NEW n \in Node, NEW S
  PROVE  /\ IsFiniteSet(Edges(n, S)) /\ Cardinality(Edges(n, S)) \in Nat
         /\ Cardinality(Edges(n, S)) = 0 <=> DependsOn(n) \cap S = {}
<1>1. deps[n] \in Seq(Name) /\ DOMAIN deps[n] = 1..Len(deps[n]) /\ Len(deps[n]) \in Nat
  OBVIOUS
<1>2. IsFiniteSet(Edges(n, S))
  <2>1. IsFiniteSet(1..Len(deps[n])) /\ Edges(n, S) \in SUBSET (1..Len(deps[n]))
    BY <1>1, FS_Interval DEF Edges
  <2> QED BY <2>1, FS_Subset
<1>3. Cardinality(Edges(n, S)) = 0 <=> Edges(n, S) = {}
  BY <1>2, FS_EmptySet
<1>4. Edges(n, S) = {} <=> DependsOn(n) \cap S = {}
  BY DEF Edges, DependsOn, Elements
<1> QED BY <1>2, <1>3, <1>4, FS_CardinalityType

\* A node leaves S: its edges are the ones taken off.
LEMMA EdgesTakenOff ==
  ASSUME deps \in [Node -> DepLists], NEW n \in Node, NEW S, NEW x \in S
  PROVE  Cardinality(Edges(n, S \ {x})) = Cardinality(Edges(n, S)) - Cardinality(Edges(n, {x}))
<1>1. /\ Edges(n, S \ {x}) = Edges(n, S) \ Edges(n, {x})
      /\ Edges(n, S) \cap Edges(n, {x}) = Edges(n, {x})
  BY DEF Edges
<1>2. IsFiniteSet(Edges(n, S))
  BY EdgesCount
<1>3. Cardinality(Edges(n, S) \ Edges(n, {x}))
        = Cardinality(Edges(n, S)) - Cardinality(Edges(n, S) \cap Edges(n, {x}))
  BY <1>2, FS_Difference
<1> QED BY <1>1, <1>3

Done    == Elements(order)
Waiting == Elements(queue)

\* inDegree counts the edges from nodes that are not in order yet.
DegreeCounts == \A n \in Node : inDegree[n] = Cardinality(Edges(n, Node \ Done))

\* Who has no such edge is in order or in the queue, in one place.
ZeroIsListed == \A n \in Node : inDegree[n] = 0 <=> n \in Done \cup Waiting
ListedOnce   == NoRepeats(order) /\ NoRepeats(queue) /\ Done \cap Waiting = {}

\* A node comes after all nodes it depends on.
DepsBefore == \A i \in DOMAIN order : \A d \in DependsOn(order[i]) \cap Node :
                \E j \in DOMAIN order : j < i /\ order[j] = d

\* No member of a knot gets into the order.
KnotsWait == \A R \in SUBSET Node : Knot(R) => R \cap Done = {}

Ended == result # "sorting" => queue = <<>> /\ (result = "ok" <=> Len(order) = Len(Input))

TopoInv == TopoTypeOK /\ DegreeCounts /\ ZeroIsListed /\ ListedOnce /\ DepsBefore /\ KnotsWait /\ Ended

LEMMA TopoInitInv == TopoInit => TopoInv
<1> SUFFICES ASSUME TopoInit PROVE TopoInv
  OBVIOUS
<1>1. deps \in [Node -> DepLists] /\ order = <<>> /\ result = "sorting"
  BY DEF TopoInit
<1>2. Done = {}
  BY <1>1 DEF Done, Elements
<1>3. inDegree \in [Node -> Nat] /\ DegreeCounts
  <2>1. \A n \in Node : inDegree[n] = Cardinality(Edges(n, Node))
    BY DEF TopoInit, Degree
  <2>2. \A n \in Node : Cardinality(Edges(n, Node)) \in Nat
    BY <1>1, EdgesCount
  <2>3. inDegree = [n \in Node |-> Cardinality(Edges(n, Node))]
    BY DEF TopoInit, Degree
  <2>4. Node \ Done = Node
    BY <1>2
  <2> QED BY <2>1, <2>2, <2>3, <2>4 DEF DegreeCounts
<1>4. /\ queue \in Seq(Node) /\ NoRepeats(queue)
      /\ Waiting = {n \in Node : inDegree[n] = 0}
  BY ListingType DEF TopoInit, Waiting
<1>5. ZeroIsListed /\ ListedOnce
  BY <1>1, <1>2, <1>4 DEF ZeroIsListed, ListedOnce, NoRepeats
<1>6. DepsBefore /\ KnotsWait /\ Ended
  BY <1>1, <1>2 DEF DepsBefore, KnotsWait, Ended
<1> QED BY <1>1, <1>3, <1>4, <1>5, <1>6 DEF TopoInv, TopoTypeOK

LEMMA TakeInv ==
  ASSUME TopoInv, Take
  PROVE  TopoInv'
<1>t. /\ deps \in [Node -> DepLists] /\ inDegree \in [Node -> Nat]
      /\ queue \in Seq(Node) /\ order \in Seq(Node) /\ result = "sorting" /\ queue # <<>>
  BY DEF TopoInv, TopoTypeOK, Take
<1>1. PICK id, left, freed :
        /\ id = Head(queue)
        /\ left = [n \in Node |-> inDegree[n] - Cardinality(Edges(n, {id}))]
        /\ freed \in Listed(Freed(id, left))
        /\ order' = Append(order, id) /\ inDegree' = left /\ queue' = Tail(queue) \o freed
        /\ deps' = deps /\ result' = result
  BY DEF Take
<1>2. /\ id \in Node /\ id \in Waiting /\ id \notin Done
      /\ Tail(queue) \in Seq(Node) /\ Waiting = {id} \cup Elements(Tail(queue))
      /\ NoRepeats(Tail(queue)) /\ id \notin Elements(Tail(queue))
  BY <1>t, <1>1, HeadAndTail DEF TopoInv, ListedOnce, Waiting
<1>3. /\ order' \in Seq(Node) /\ Len(order') = Len(order) + 1 /\ NoRepeats(order')
      /\ Done' = Done \cup {id} /\ DOMAIN order' = DOMAIN order \cup {Len(order) + 1}
      /\ order'[Len(order) + 1] = id /\ \A i \in DOMAIN order : order'[i] = order[i]
  BY <1>t, <1>1, <1>2, AppendOne DEF Done, TopoInv, ListedOnce
<1>4. \A n \in Node : left[n] = Cardinality(Edges(n, Node \ (Done \cup {id})))
  <2> SUFFICES ASSUME NEW n \in Node PROVE left[n] = Cardinality(Edges(n, Node \ (Done \cup {id})))
    OBVIOUS
  <2>1. left[n] = Cardinality(Edges(n, Node \ Done)) - Cardinality(Edges(n, {id}))
    BY <1>1 DEF TopoInv, DegreeCounts
  <2>2. (Node \ Done) \ {id} = Node \ (Done \cup {id}) /\ id \in Node \ Done
    BY <1>2
  <2> QED BY <1>t, <2>1, <2>2, EdgesTakenOff
<1>5. inDegree' \in [Node -> Nat] /\ DegreeCounts'
  <2>1. \A n \in Node : left[n] \in Nat
    BY <1>t, <1>4, EdgesCount
  <2>2. \A n \in Node : Edges(n, Node \ Done)' = Edges(n, Node \ (Done \cup {id}))
    BY <1>1, <1>3 DEF Edges
  <2> QED BY <1>1, <1>4, <2>1, <2>2 DEF DegreeCounts
<1>6. Freed(id, left) \in SUBSET Node
  BY DEF Freed, Dependents
<1>7. freed \in Seq(Node) /\ Elements(freed) = Freed(id, left) /\ NoRepeats(freed)
  BY <1>1, <1>6, ListingType
<1>8. \A n \in Node : n \in Freed(id, left) <=> (inDegree[n] # 0 /\ left[n] = 0)
  <2> SUFFICES ASSUME NEW n \in Node, left[n] = 0
               PROVE  Edges(n, {id}) # {} <=> inDegree[n] # 0
    BY DEF Freed, Dependents
  <2>1. left[n] = inDegree[n] - Cardinality(Edges(n, {id})) /\ inDegree[n] \in Nat
    BY <1>t, <1>1
  <2>2. IsFiniteSet(Edges(n, {id})) /\ Cardinality(Edges(n, {id})) \in Nat
    BY <1>t, EdgesCount
  <2>3. Cardinality(Edges(n, {id})) = 0 <=> Edges(n, {id}) = {}
    BY <2>2, FS_EmptySet
  <2>4. inDegree[n] = 0 <=> Cardinality(Edges(n, {id})) = 0
    BY <2>1, <2>2
  <2> QED BY <2>3, <2>4
<1>9. \A n \in Node : inDegree[n] = 0 => left[n] = 0
  <2> SUFFICES ASSUME NEW n \in Node, inDegree[n] = 0 PROVE left[n] = 0
    OBVIOUS
  <2>1. left[n] = 0 - Cardinality(Edges(n, {id})) /\ Cardinality(Edges(n, {id})) \in Nat
    BY <1>t, <1>1, EdgesCount
  <2>2. left[n] \in Nat
    BY <1>t, <1>4, EdgesCount
  <2> QED BY <2>1, <2>2
<1>10. /\ queue' \in Seq(Node) /\ NoRepeats(queue')
       /\ Waiting' = (Waiting \ {id}) \cup Freed(id, left)
  <2>1. Elements(Tail(queue)) \cap Elements(freed) = {}
    <3> SUFFICES ASSUME NEW n \in Elements(Tail(queue)), n \in Elements(freed) PROVE FALSE
      OBVIOUS
    <3>1. n \in Node /\ n \in Waiting
      BY <1>2, <1>6, <1>7
    <3> QED BY <1>7, <1>8, <3>1 DEF TopoInv, ZeroIsListed
  <2>2. Elements(Tail(queue)) = Waiting \ {id}
    BY <1>2
  <2>3. /\ Tail(queue) \o freed \in Seq(Node) /\ NoRepeats(Tail(queue) \o freed)
        /\ Elements(Tail(queue) \o freed) = Elements(Tail(queue)) \cup Elements(freed)
    <3>1. PICK tail \in Seq(Node) : tail = Tail(queue)
      BY <1>2
    <3>2. NoRepeats(tail) /\ Elements(tail) \cap Elements(freed) = {}
      BY <1>2, <2>1, <3>1
    <3>3. freed \in Seq(Node) /\ NoRepeats(freed)
      BY <1>7
    <3>4. /\ tail \o freed \in Seq(Node) /\ NoRepeats(tail \o freed)
          /\ Elements(tail \o freed) = Elements(tail) \cup Elements(freed)
      BY <3>2, <3>3, Concatenated
    <3> QED BY <3>1, <3>4
  <2> QED BY <1>1, <1>7, <2>2, <2>3 DEF Waiting
<1>11. ZeroIsListed'
  <2>1. \A n \in Node : left[n] = 0 <=> n \in Done \cup Waiting \cup Freed(id, left)
    BY <1>8, <1>9 DEF TopoInv, ZeroIsListed
  <2> QED BY <1>1, <1>2, <1>3, <1>10, <2>1 DEF ZeroIsListed
<1>12. ListedOnce'
  <2>1. Done \cap Waiting = {}
    BY DEF TopoInv, ListedOnce
  <2>2. \A n \in Freed(id, left) : n \notin Done \cup Waiting
    BY <1>6, <1>8 DEF TopoInv, ZeroIsListed
  <2> QED BY <1>2, <1>3, <1>10, <2>1, <2>2 DEF ListedOnce
<1>13. DependsOn(id) \cap (Node \ Done) = {}
  <2>1. inDegree[id] = 0
    BY <1>2 DEF TopoInv, ZeroIsListed
  <2> QED BY <1>t, <1>2, <2>1, EdgesCount DEF TopoInv, DegreeCounts
<1>14. \A n : DependsOn(n)' = DependsOn(n)
  BY <1>1 DEF DependsOn, Elements
<1>15. DepsBefore'
  <2> SUFFICES ASSUME NEW i \in DOMAIN order', NEW d \in DependsOn(order'[i]) \cap Node
               PROVE  \E j \in DOMAIN order' : j < i /\ order'[j] = d
    BY <1>14 DEF DepsBefore
  <2>1. CASE i \in DOMAIN order
    <3>1. PICK j \in DOMAIN order : j < i /\ order[j] = d
      BY <1>3, <2>1 DEF TopoInv, DepsBefore
    <3> QED BY <1>3, <3>1
  <2>2. CASE i = Len(order) + 1
    <3>1. d \in Done
      BY <1>3, <1>13, <2>2
    <3>2. PICK j \in DOMAIN order : order[j] = d
      BY <3>1 DEF Done, Elements
    <3>3. j < i
      BY <1>t, <2>2
    <3> QED BY <1>3, <3>2, <3>3
  <2> QED BY <1>3, <2>1, <2>2
<1>16. KnotsWait'
  <2> SUFFICES ASSUME NEW R \in SUBSET Node, R # {}, \A n \in R : DependsOn(n) \cap R # {}
               PROVE  R \cap Done' = {}
    BY <1>14 DEF KnotsWait, Knot
  <2>1. R \cap Done = {}
    BY DEF TopoInv, KnotsWait, Knot
  <2>2. id \notin R
    BY <1>13, <2>1
  <2> QED BY <1>3, <2>1, <2>2
<1>17. Ended'
  BY <1>t, <1>1 DEF Ended
<1> QED BY <1>t, <1>1, <1>3, <1>5, <1>10, <1>11, <1>12, <1>15, <1>16, <1>17 DEF TopoInv, TopoTypeOK

LEMMA TopoStay ==
  ASSUME TopoInv, UNCHANGED <<deps, inDegree, queue, order>>, result' = result \/ Finish
  PROVE  TopoInv'
<1>1. TopoTypeOK'
  BY DEF TopoInv, TopoTypeOK, Finish
<1>2. DegreeCounts' /\ ZeroIsListed' /\ ListedOnce'
  BY DEF TopoInv, DegreeCounts, ZeroIsListed, ListedOnce, Edges, Done, Waiting, Elements, NoRepeats
<1>3. DepsBefore' /\ KnotsWait'
  <2>1. Done' = Done /\ \A n : DependsOn(n)' = DependsOn(n)
    BY DEF Done, DependsOn, Elements
  <2>2. DepsBefore'
    BY <2>1 DEF TopoInv, DepsBefore
  <2>3. KnotsWait'
    BY <2>1 DEF TopoInv, KnotsWait, Knot
  <2> QED BY <2>2, <2>3
<1>4. Ended'
  BY DEF TopoInv, Ended, Finish
<1> QED BY <1>1, <1>2, <1>3, <1>4 DEF TopoInv

\* All nodes are in the order exactly when it is as long as the input.
LEMMA OrderIsWhole ==
  ASSUME TopoInv
  PROVE  /\ Done \subseteq Node
         /\ Len(order) = Len(Input) <=> Done = Node
<1>1. /\ order \in Seq(Node) /\ Len(order) \in Nat /\ DOMAIN order = 1..Len(order)
      /\ order \in [1..Len(order) -> Node] /\ NoRepeats(order)
  BY DEF TopoInv, TopoTypeOK, ListedOnce
<1>2. Done \subseteq Node /\ order \in Surjection(1..Len(order), Done)
  BY <1>1 DEF Done, Elements, Surjection
<1>3. order \in Injection(1..Len(order), Done)
  BY <1>1, <1>2 DEF NoRepeats, Injection, IsInjective, Surjection
<1>4. IsFiniteSet(1..Len(order)) /\ Cardinality(1..Len(order)) = Len(order)
  <2>1. \A n \in Nat : IsFiniteSet(1..n) /\ Cardinality(1..n) = n
    BY FS_Interval
  <2> QED BY <1>1, <2>1
<1>5. IsFiniteSet(Done) /\ Cardinality(Done) = Len(order)
  BY <1>2, <1>3, <1>4, FS_Surjection
<1> QED BY <1>2, <1>5, NodesAreFinite, FS_Subset

LEMMA ResultHolds == TopoInv => ResultIsRight
<1> SUFFICES ASSUME TopoInv PROVE ResultIsRight
  OBVIOUS
<1>1. Done \subseteq Node /\ (Len(order) = Len(Input) <=> Done = Node)
  BY OrderIsWhole
<1>2. ASSUME result = "ok" PROVE Acyclic /\ Elements(order) = Node
  <2>1. Done = Node
    BY <1>1, <1>2 DEF TopoInv, Ended
  <2> QED BY <2>1 DEF TopoInv, KnotsWait, Acyclic, Knot, Done
<1>3. ASSUME result = "cycle"
      PROVE  Knot(Stuck) /\ \A R \in SUBSET Node : Knot(R) => R \subseteq Stuck
  <2>1. Done # Node /\ Waiting = {}
    BY <1>1, <1>3 DEF TopoInv, Ended, Waiting, Elements
  <2>2. Stuck = Node \ Done
    <3>1. \A n \in Node : inDegree[n] \in Nat /\ (inDegree[n] = 0 <=> n \in Done)
      BY <2>1 DEF TopoInv, TopoTypeOK, ZeroIsListed
    <3> QED BY <3>1 DEF Stuck
  <2>3. ASSUME NEW n \in Stuck PROVE DependsOn(n) \cap Stuck # {}
    <3>1. n \in Node /\ inDegree[n] # 0
      BY DEF Stuck
    <3>2. inDegree[n] = Cardinality(Edges(n, Stuck))
      BY <2>2, <3>1 DEF TopoInv, DegreeCounts
    <3> QED BY <3>1, <3>2, EdgesCount DEF TopoInv, TopoTypeOK
  <2>4. Knot(Stuck)
    BY <1>1, <2>1, <2>2, <2>3 DEF Knot
  <2>5. \A R \in SUBSET Node : Knot(R) => R \subseteq Stuck
    BY <2>2 DEF TopoInv, KnotsWait
  <2> QED BY <2>4, <2>5
<1> QED BY <1>2, <1>3 DEF ResultIsRight

-----------------------------------------------------------------------------
(* The pass                                                                   *)

PassType ==
  /\ phase \in {"sort", "loop", "spawn", "health", "done", "cycle", "canceled"}
  /\ next \in Nat \ {0}
  /\ visit \in [Node -> {"none", "skipped", "failed", "started"}]

\* Nothing is visited before the sort has succeeded, or where there is no service.
SortComesFirst ==
  /\ phase \in {"sort", "cycle"} => next = 1 /\ \A n \in Node : visit[n] = "none"
  /\ phase \in {"loop", "spawn", "health", "canceled"} => result = "ok"
  /\ phase = "done" => result = "ok" \/ Node = {}

\* The service at hand is one of the order; under its health check it is started.
AtHand ==
  /\ phase \in {"spawn", "health"} => next \in DOMAIN order
  /\ phase = "health" => visit[order[next]] = "started"

\* The loop has dealt with the services up to the one at hand, and with no other.
DealtWith == \A i \in DOMAIN order : i < next =>
               \/ visit[order[i]] \in {"skipped", "failed"}
               \/ visit[order[i]] = "started" /\ order[i] \in settled
Untouched == \A i \in DOMAIN order :
               visit[order[i]] # "none" => i < next \/ (i = next /\ phase = "health")

PassInv ==
  /\ TopoInv /\ PassType /\ SortComesFirst /\ AtHand /\ DealtWith /\ Untouched
  /\ phase # "sort" /\ Node # {} => result # "sorting"

LEMMA InitPass == Init => PassInv
<1> SUFFICES ASSUME Init PROVE PassInv
  OBVIOUS
<1>1. TopoInv /\ order = <<>>
  BY TopoInitInv DEF Init, TopoInit
<1> QED BY <1>1 DEF Init, PassInv, PassType, SortComesFirst, AtHand, DealtWith, Untouched

LEMMA OrderFacts ==
  ASSUME TopoInv
  PROVE  /\ DOMAIN order = 1..Len(order) /\ Len(order) \in Nat
         /\ \A i \in DOMAIN order : order[i] \in Node
         /\ \A i, j \in DOMAIN order : order[i] = order[j] => i = j
BY DEF TopoInv, TopoTypeOK, ListedOnce, NoRepeats

LEMMA SortPass ==
  ASSUME PassInv, Sort
  PROVE  PassInv'
<1>1. TopoInv'
  BY TakeInv, TopoStay DEF PassInv, Sort, TopoNext, Finish
<1>2. PassType' /\ SortComesFirst' /\ phase = "sort" /\ phase' = "sort" /\ next' = 1
  BY DEF PassInv, PassType, SortComesFirst, Sort, autoVars
<1>3. \A i \in DOMAIN order' : ~(i < next') /\ visit'[order'[i]] = "none"
  <2>1. order' \in Seq(Node)
    BY <1>1 DEF TopoInv, TopoTypeOK
  <2>2. DOMAIN order' = 1..Len(order') /\ \A i \in DOMAIN order' : order'[i] \in Node
    BY <2>1
  <2>3. \A n \in Node : visit'[n] = "none"
    BY <1>2 DEF SortComesFirst
  <2> QED BY <1>2, <2>2, <2>3
<1>4. AtHand' /\ Untouched'
  BY <1>2, <1>3 DEF AtHand, Untouched
<1>5. DealtWith'
  BY <1>3 DEF DealtWith
<1> QED BY <1>1, <1>2, <1>4, <1>5 DEF PassInv

\* A step of the loop at service n = order[next]: it is visited, or passed, or both.
LEMMA LoopPass ==
  ASSUME PassInv, LoopHead \/ StartOne \/ HealthCheck
  PROVE  PassInv'
<1>t. /\ TopoInv /\ PassType /\ UNCHANGED topoVars /\ result = "ok"
      /\ phase \in {"loop", "spawn", "health"}
  BY DEF PassInv, LoopHead, StartOne, HealthCheck, SortComesFirst
<1>0. TopoInv'
  BY <1>t, TopoStay DEF topoVars
<1>o. /\ DOMAIN order = 1..Len(order) /\ Len(order) \in Nat /\ order' = order /\ result' = result
      /\ \A i \in DOMAIN order : order[i] \in Node
      /\ \A i, j \in DOMAIN order : order[i] = order[j] => i = j
  BY <1>t, OrderFacts DEF topoVars
<1>1. CASE next' = next /\ visit' = visit /\ settled' = settled /\ phase = "loop"
           /\ phase' \in {"done", "canceled", "spawn"} /\ (phase' = "spawn" => next <= Len(order))
  BY <1>t, <1>0, <1>o, <1>1
  DEF PassInv, PassType, SortComesFirst, AtHand, DealtWith, Untouched
<1>2. CASE /\ next \in DOMAIN order /\ next' = next + 1 /\ phase \in {"loop", "spawn"} /\ phase' = "loop"
           /\ \E r \in {"skipped", "failed"} : visit' = [visit EXCEPT ![order[next]] = r]
           /\ settled' = settled
  <2>1. /\ visit'[order[next]] \in {"skipped", "failed"}
        /\ \A i \in DOMAIN order : i # next => visit'[order[i]] = visit[order[i]]
        /\ visit' \in [Node -> {"none", "skipped", "failed", "started"}]
    BY <1>t, <1>o, <1>2 DEF PassType
  <2>2. PassType' /\ SortComesFirst' /\ AtHand'
    BY <1>t, <1>o, <1>2, <2>1 DEF PassType, SortComesFirst, AtHand
  <2>3. DealtWith'
    BY <1>t, <1>o, <1>2, <2>1 DEF PassInv, PassType, DealtWith
  <2>4. Untouched'
    BY <1>t, <1>o, <1>2, <2>1 DEF PassInv, PassType, Untouched
  <2> QED BY <1>t, <1>0, <1>o, <2>2, <2>3, <2>4 DEF PassInv
<1>3. CASE /\ next \in DOMAIN order /\ next' = next /\ phase = "spawn" /\ phase' = "health"
           /\ visit' = [visit EXCEPT ![order[next]] = "started"] /\ settled' = settled
  <2>1. /\ visit'[order[next]] = "started"
        /\ \A i \in DOMAIN order : i # next => visit'[order[i]] = visit[order[i]]
        /\ visit' \in [Node -> {"none", "skipped", "failed", "started"}]
    BY <1>t, <1>o, <1>3 DEF PassType
  <2>2. PassType' /\ SortComesFirst' /\ AtHand'
    BY <1>t, <1>o, <1>3, <2>1 DEF PassType, SortComesFirst, AtHand
  <2>3. DealtWith'
    BY <1>t, <1>o, <1>3, <2>1 DEF PassInv, PassType, DealtWith
  <2>4. Untouched'
    BY <1>t, <1>o, <1>3, <2>1 DEF PassInv, PassType, Untouched
  <2> QED BY <1>t, <1>0, <1>o, <2>2, <2>3, <2>4 DEF PassInv
<1>4. CASE /\ next \in DOMAIN order /\ next' = next + 1 /\ phase = "health" /\ phase' = "loop"
           /\ visit' = visit /\ settled' = settled \cup {order[next]}
  <2>1. visit[order[next]] = "started"
    BY <1>4 DEF PassInv, AtHand
  <2>2. PassType' /\ SortComesFirst' /\ AtHand'
    BY <1>t, <1>o, <1>4 DEF PassType, SortComesFirst, AtHand
  <2>3. DealtWith'
    BY <1>t, <1>o, <1>4, <2>1 DEF PassInv, PassType, DealtWith
  <2>4. Untouched'
    BY <1>t, <1>o, <1>4 DEF PassInv, PassType, Untouched
  <2> QED BY <1>t, <1>0, <1>o, <2>2, <2>3, <2>4 DEF PassInv
<1>5. CASE LoopHead
  <2>1. next <= Len(order) => next \in DOMAIN order
    BY <1>t, <1>o DEF PassType
  <2> QED BY <1>1, <1>2, <1>5, <2>1 DEF LoopHead, Current
<1>6. CASE StartOne
  BY <1>2, <1>3, <1>6 DEF StartOne, Current, PassInv, AtHand
<1>7. CASE HealthCheck
  BY <1>4, <1>7 DEF HealthCheck, Current, PassInv, AtHand
<1> QED BY <1>5, <1>6, <1>7

LEMMA NextPass == PassInv /\ [Next]_vars => PassInv'
<1> SUFFICES ASSUME PassInv, [Next]_vars PROVE PassInv'
  OBVIOUS
<1>1. CASE Sorted
  <2>1. /\ TopoInv' /\ order' = order /\ result' = result /\ result \in {"ok", "cycle"}
        /\ phase = "sort" /\ phase' = (IF result = "ok" THEN "loop" ELSE "cycle")
        /\ next' = next /\ visit' = visit /\ settled' = settled
    BY <1>1, TopoStay DEF Sorted, topoVars, PassInv, TopoInv, TopoTypeOK
  <2>2. next = 1 /\ (\A n \in Node : visit[n] = "none") /\ PassType'
    BY <1>1, <2>1 DEF PassInv, SortComesFirst, PassType
  <2>3. SortComesFirst' /\ AtHand'
    BY <2>1, <2>2 DEF SortComesFirst, AtHand
  <2>4. DealtWith' /\ Untouched'
    BY <2>1, <2>2 DEF PassInv, DealtWith, Untouched
  <2> QED BY <2>1, <2>2, <2>3, <2>4 DEF PassInv
<1>2. CASE Down \/ Up \/ Cancel \/ UNCHANGED vars
  <2>1. UNCHANGED <<topoVars, phase, next, visit, settled>>
    BY <1>2 DEF Down, Up, Cancel, vars, autoVars
  <2>2. TopoInv'
    BY <2>1, TopoStay DEF PassInv, topoVars
  <2> QED BY <2>1, <2>2
      DEF topoVars, PassInv, PassType, SortComesFirst, AtHand, DealtWith, Untouched
<1> QED BY <1>1, <1>2, SortPass, LoopPass DEF Next, Pass

\* The sort succeeds exactly on the graphs without a cycle, with every service in the
\* order; otherwise the services the error names are those that can never start.
THEOREM ResultIsRightTheorem == Spec => []ResultIsRight
<1>1. PassInv => ResultIsRight
  BY ResultHolds DEF PassInv
<1> QED BY <1>1, InitPass, NextPass, PTL DEF Spec

\* A service is started only when each autostart service it depends on has been dealt
\* with before it, whatever goes down and comes up again meanwhile.
THEOREM DependenciesFirstTheorem == Spec => []DependenciesFirst
<1>1. PassInv => DependenciesFirst
  <2> SUFFICES ASSUME PassInv, NEW n \in Node, visit[n] = "started", NEW d \in DependsOn(n) \cap Node
               PROVE  visit[d] \in {"skipped", "failed"} \/ (visit[d] = "started" /\ d \in settled)
    BY DEF DependenciesFirst
  <2>1. result = "ok"
    BY DEF PassInv, PassType, SortComesFirst
  <2>2. Done = Node
    BY <2>1, OrderIsWhole DEF PassInv, TopoInv, Ended
  <2>3. PICK i \in DOMAIN order : order[i] = n
    BY <2>2 DEF Done, Elements
  <2>4. PICK j \in DOMAIN order : j < i /\ order[j] = d
    BY <2>3 DEF PassInv, TopoInv, DepsBefore
  <2>5. i \in Nat /\ j \in Nat /\ next \in Nat
    BY OrderFacts DEF PassInv, PassType
  <2>6. i <= next
    BY <2>3, <2>5 DEF PassInv, Untouched
  <2>7. j < next
    BY <2>4, <2>5, <2>6
  <2> QED BY <2>4, <2>7 DEF PassInv, DealtWith
<1> QED BY <1>1, InitPass, NextPass, PTL DEF Spec

\* With a dependency cycle anywhere the pass starts nothing at all.
THEOREM NothingStartsOnCycleTheorem == Spec => []NothingStartsOnCycle
<1>1. PassInv => NothingStartsOnCycle
  <2> SUFFICES ASSUME PassInv, ~Acyclic, NEW n \in Node PROVE visit[n] = "none"
    BY DEF NothingStartsOnCycle
  <2>1. result # "ok"
    BY ResultHolds DEF PassInv, ResultIsRight
  <2> QED BY <2>1 DEF PassInv, PassType, SortComesFirst
<1> QED BY <1>1, InitPass, NextPass, PTL DEF Spec
=============================================================================
