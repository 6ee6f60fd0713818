---------------------------- MODULE LoopPromise ----------------------------
(***************************************************************************)
(* What one event loop's cleanup promises, without saying how: hosts are   *)
(* kept while somebody holds the loop, the last holder to leave starts a   *)
(* cleanup, nobody enters during it, and it ends with no host left.  What  *)
(* a registry, generations, a sweep and a deadline do for it is            *)
(* HostRegistry's business.                                                *)
(***************************************************************************)
CONSTANTS Hosts, Clients

VARIABLES
    phase,    \* "open", "closing", "shut" once its runner closed it, "gone"
    holders,  \* the clients that hold the loop
    hosts     \* the hosts connected on the loop

vars == <<phase, holders, hosts>>

Init ==
    /\ phase = "open"
    /\ holders = {}
    /\ hosts = {}

(* A host connects or disconnects, whatever the cleanup is doing. *)
Connect(h) ==
    /\ phase # "gone"
    /\ hosts' = hosts \cup {h}
    /\ UNCHANGED <<phase, holders>>

Disconnect(gone) ==
    /\ hosts' = hosts \ gone
    /\ UNCHANGED <<phase, holders>>

Enter(c) ==
    /\ phase = "open"
    /\ c \notin holders
    /\ holders' = holders \cup {c}
    /\ UNCHANGED <<phase, hosts>>

(* The last to leave an open loop starts the cleanup. *)
Leave(c) ==
    /\ phase # "gone"
    /\ c \in holders
    /\ holders' = holders \ {c}
    /\ phase' = IF phase = "open" /\ holders = {c} THEN "closing" ELSE phase
    /\ UNCHANGED hosts

(* A cleanup on request needs an unheld loop; a runner's needs nothing.    *)
(* Either way it is one cleanup at a time, of an open loop.                *)
Clean ==
    /\ phase = "open"
    /\ phase' = "closing"
    /\ UNCHANGED <<holders, hosts>>

(* A cleanup ends with no host left, and admits everyone who waited, or    *)
(* nobody when the runner shut the loop down.                              *)
Reopen(admitted) ==
    /\ phase = "closing"
    /\ holders = {}
    /\ phase' = "open"
    /\ holders' = admitted
    /\ hosts' = {}

Shut ==
    /\ phase = "closing"
    /\ phase' = "shut"
    /\ hosts' = {}
    /\ UNCHANGED holders

Vanish ==
    /\ phase \in {"open", "shut"}
    /\ phase' = "gone"
    /\ UNCHANGED <<holders, hosts>>

Next ==
    \/ \E h \in Hosts : Connect(h)
    \/ \E gone \in SUBSET Hosts : Disconnect(gone)
    \/ \E c \in Clients : Enter(c) \/ Leave(c)
    \/ Clean
    \/ \E admitted \in SUBSET Clients : Reopen(admitted)
    \/ Shut
    \/ Vanish

Spec == Init /\ [][Next]_vars

=============================================================================
