--------------------------- MODULE MCHopTransport ---------------------------
(* What a host's connections are made of, for TLC, in two scenes of one    *)
(* run.                                                                    *)
(*   tunnels      the chain of hops (src/otto/host/transport.py)           *)
(*   connections  the connection manager (src/otto/host/connections.py)    *)
EXTENDS HopTransport, Connections, TLC

CONSTANTS t1, t2, t3, nc

VARIABLE scene

MCInit == Init /\ ConnInit /\ scene \in {"tunnels", "connections"}

MCNext ==
    /\ UNCHANGED scene
    /\ \/ scene = "tunnels" /\ Next /\ UNCHANGED connVars
       \/ scene = "connections" /\ ConnNext /\ UNCHANGED vars

MCSpec == MCInit /\ [][MCNext]_<<vars, connVars, scene>>

(* Two tasks that do the same in both modules. *)
Alike == Permutations({t1, t2})

(* Nobody waits in vain, neither for a lock of the chain, whose waits only *)
(* go up, nor of the manager, whose holders can go on, nor for the end of  *)
(* a line, which drains or is gone.                                        *)
NobodyWaitsInVain == WaitsGoUp /\ WaitsAreServed

(* Every variable of the modules keeps its type.                           *)
MCTypeOK == TypeOK /\ ConnTypeOK
=============================================================================
