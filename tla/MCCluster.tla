------------------------------ MODULE MCCluster ------------------------------
(* Small clusters: nodes n1 and n2, of which n1 has a TPM.                  *)
EXTENDS Cluster

CONSTANTS n1, n2

TwoSerials == [n \in {n1, n2} |-> IF n = n1 THEN "s1" ELSE "s2"]
NoSerials == [n \in {n1, n2} |-> ""]
OneSerial == [n \in {n1} |-> "s1"]
=============================================================================
