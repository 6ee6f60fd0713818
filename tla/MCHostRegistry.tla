--------------------------- MODULE MCHostRegistry ---------------------------
(* Instances of HostRegistry for TLC. *)
EXTENDS HostRegistry

CONSTANTS parent, child, box, l1, l2, c1, c2, c3

(* A docker container's host and the host of its parent, on one loop. *)
FamilyDependsOn == [h \in Hosts |-> IF h = child THEN {parent} ELSE {}]
OneLoop == [c \in Clients |-> l1]

(* One host that moves between two loops, a client on each. *)
NoDependencies == [h \in Hosts |-> {}]
TwoLoops == [c \in Clients |-> IF c = c1 THEN l1 ELSE l2]
=============================================================================
