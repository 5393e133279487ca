---------------------------- MODULE MCRMCPPlus ----------------------------
(* Instances of RMCPPlus for TLC.                                          *)
EXTENDS RMCPPlus, TLC

CONSTANTS alice, bob, carol, dave

\* bob was given a wrong password, carol an unknown user.
MCUserName == [c \in Consoles |-> IF c = carol THEN "unknown" ELSE "cybozu"]

MCPassword == [c \in Consoles |-> IF c = bob THEN "wrong" ELSE "cybozu"]

\* alice and dave were given the same, and session IDs of a kind are all alike.
Alike == Permutations({alice, dave}) \cup Permutations(Reusable) \cup Permutations(Ids \ Reusable)

=============================================================================
