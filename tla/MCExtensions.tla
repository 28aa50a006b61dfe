----------------------------- MODULE MCExtensions -----------------------------
(* Instances of Extensions for TLC: two extensions of different names. *)
EXTENDS Extensions, TLC

CONSTANTS e1, e2, python, ruby, node

MCKind   == {python, ruby, node}
MCNameOf == [e \in Ext |-> IF e = e1 THEN python ELSE ruby]

Symmetry == Permutations(Admin)
=============================================================================
