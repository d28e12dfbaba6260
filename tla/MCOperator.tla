----------------------------- MODULE MCOperator -----------------------------
(* Two values for each part of a spec.  They are interchangeable, so one   *)
(* first spec stands for all.                                              *)
EXTENDS Operator

CONSTANTS c1, c2, p1, p2, s1, s2

MCConfig == {c1, c2}
MCPods == {p1, p2}
MCClaim == {s1, s2}
MCFirst == {[config |-> c1, pods |-> p1, claim |-> s1]}
=============================================================================
