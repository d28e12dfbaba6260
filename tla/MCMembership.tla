---------------------------- MODULE MCMembership ----------------------------
(***************************************************************************)
(* Two virtual nodes for each of three nodes on a ring of eight positions; *)
(* of the keys one sits on a position and one wraps around.                *)
(***************************************************************************)
EXTENDS Membership

CONSTANTS n1, n2, n3

Nodes3 == {n1, n2, n3}
Pos3 == [n \in Nodes3 |-> CASE n = n1 -> {0, 4} [] n = n2 -> {1, 2} [] n = n3 -> {3, 6}]
Keys3 == {1, 7}
=============================================================================
