----------------------------- MODULE MCBMCServer -----------------------------
(* Instances of BMCServer for TLC.                                         *)
EXTENDS BMCServer

CONSTANTS n1, n2, n3

Serials == [n \in Nodes |-> CASE n = n1 -> "s1" [] n = n2 -> "s2" [] OTHER -> "s3"]

=============================================================================
