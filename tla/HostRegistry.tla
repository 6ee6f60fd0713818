---------------------------- MODULE HostRegistry ----------------------------
(***************************************************************************)
(* The per-event-loop host registry of src/otto/invocation.py and the half *)
(* of a host that talks to it (src/otto/host/host.py).                     *)
(*                                                                         *)
(* A host registers with the loop that claims it.  Cleanup boundaries      *)
(* count who still needs the loop's hosts; the release that brings the     *)
(* count to zero drains the registry: it closes every record, dependents   *)
(* first, under a deadline, abandons what is left and only then lets the   *)
(* waiting acquisitions in.                                                *)
(*                                                                         *)
(* One action is one stretch of code between two awaits: asyncio runs the  *)
(* tasks of a loop one at a time, so nothing interleaves inside it.        *)
(***************************************************************************)
EXTENDS Naturals, FiniteSets

CONSTANTS
    Hosts,      \* the host objects
    Loops,      \* the event loops
    Clients,    \* tasks that acquire and release cleanup boundaries
    Users,      \* tasks that call host.close() themselves
    DependsOn,  \* DependsOn[h]: the hosts h must close before
    LoopOf,     \* LoopOf[c]: the loop client c runs on
    NoLoop,     \* the owner of a host nobody claimed
    NoClient,   \* the caller of sweep_unheld or shut_down
    MaxGen      \* bound on connection epochs: no claim or rebuild beyond it

ASSUME NoneAssumption ==
    NoLoop \notin Loops /\ NoClient \notin Clients /\ Loops \cap Users = {}
ASSUME LoopOfAssumption == LoopOf \in [Clients -> Loops]
ASSUME DependsOnAssumption == DependsOn \in [Hosts -> SUBSET Hosts]
ASSUME MaxGenAssumption == MaxGen \in Nat
ASSUME ClientsAssumption == IsFiniteSet(Clients)

VARIABLES
    owner,    \* owner[h]: _owner_loop
    served,   \* served[h]: _served_loop
    gen,      \* gen[h]: _generation
    mgr,      \* mgr[h]: the epoch at which h's connection managers were built
    closing,  \* the host closes that are running, sweep's and users'
    dead,     \* the loops that have closed
    records,  \* records[l][h]: the epoch h is registered at on l, 0 for none
    rstate,   \* rstate[l]: the registry's state, "none" while there is none
    held,     \* held[l]: the boundaries held on l
    waiters,  \* waiters[l]: the clients queued for the end of l's drain
    client,   \* client[c]: where client c is
    drain,    \* drain[l]: the drain in progress on l
    inflight, \* inflight[l][h]: the close task the sweep spawned for h
    poked     \* poked[l]: the sweep of l has a reason to recompute

hostVars == <<owner, served, gen, mgr, closing>>
registryVars == <<records, rstate, held, waiters>>
drainVars == <<drain, inflight, poked>>
vars == <<hostVars, dead, registryVars, client, drainVars>>

ClientStates == {"idle", "waiting", "leaving", "granted", "refused",
                 "holding", "draining"}
TaskStates == {"none", "pending", "running", "finished", "failed", "cancelled"}
DrainPhases == {"none", "sweeping", "returned", "died", "cutting"}

NoTask == [gen |-> 0, st |-> "none"]
As(task, st) == [gen |-> task.gen, st |-> st]
NoDrain == [phase |-> "none", by |-> NoClient, shut |-> FALSE]

In(d, phase) == [phase |-> phase, by |-> d.by, shut |-> d.shut]

(* One running host.close(): the epoch, managers and owner it captured     *)
(* before its first await, and who awaits it: the sweep of a loop or a     *)
(* user.  It is "working" until its last step on the managers (the hop     *)
(* transport's close), then "spent".                                       *)
CloseRecord ==
    [host: Hosts, gen: Nat, mgr: Nat, owner: Loops \cup {NoLoop},
     by: Loops \cup Users, phase: {"working", "spent"}]

TypeOK ==
    /\ owner \in [Hosts -> Loops \cup {NoLoop}]
    /\ served \in [Hosts -> Loops \cup {NoLoop}]
    /\ gen \in [Hosts -> Nat]
    /\ mgr \in [Hosts -> Nat]
    /\ closing \subseteq CloseRecord
    /\ dead \subseteq Loops
    /\ records \in [Loops -> [Hosts -> Nat]]
    /\ rstate \in [Loops -> {"none", "open", "draining", "shut"}]
    /\ held \in [Loops -> Nat]
    /\ waiters \in [Loops -> SUBSET Clients]
    /\ client \in [Clients -> ClientStates]
    /\ drain \in [Loops -> [phase: DrainPhases, by: Clients \cup {NoClient},
                            shut: BOOLEAN]]
    /\ inflight \in [Loops -> [Hosts -> [gen: Nat, st: TaskStates]]]
    /\ poked \in [Loops -> BOOLEAN]

Init ==
    /\ owner = [h \in Hosts |-> NoLoop]
    /\ served = [h \in Hosts |-> NoLoop]
    /\ gen = [h \in Hosts |-> 0]
    /\ mgr = [h \in Hosts |-> 0]
    /\ closing = {}
    /\ dead = {}
    /\ records = [l \in Loops |-> [h \in Hosts |-> 0]]
    /\ rstate = [l \in Loops |-> "none"]
    /\ held = [l \in Loops |-> 0]
    /\ waiters = [l \in Loops |-> {}]
    /\ client = [c \in Clients |-> "idle"]
    /\ drain = [l \in Loops |-> NoDrain]
    /\ inflight = [l \in Loops |-> [h \in Hosts |-> NoTask]]
    /\ poked = [l \in Loops |-> FALSE]

----------------------------------------------------------------------------
(* The registry's bookkeeping. *)

(* Wrong variants of a definition, like the next one, stand before it: a   *)
(* property that matters must notice the difference.                       *)
NeverLooksAgain(l) == TRUE

Idle(l) == \A h \in Hosts : records[l][h] = 0
Pruned(l) == dead \ {l}

(* poke: wake the running drain, if there is one.                          *)
Poke(l) == poked' = [poked EXCEPT ![l] = rstate[l] = "draining"]

(* Wrong: a registration during a drain does not wake it. *)
RegisterQuietly(l, h, g) ==
    /\ records' = [k \in Loops |->
          IF k \in Pruned(l) THEN [x \in Hosts |-> 0]
          ELSE IF k = l THEN [records[k] EXCEPT ![h] = g]
          ELSE records[k]]
    /\ rstate' = [k \in Loops |->
          IF k \in Pruned(l) THEN "none"
          ELSE IF k = l /\ rstate[k] = "none" THEN "open"
          ELSE rstate[k]]
    /\ held' = [k \in Loops |-> IF k \in Pruned(l) THEN 0 ELSE held[k]]
    /\ UNCHANGED poked

(* register: prune the closed loops' registries, make this loop's if there *)
(* is none, and replace h's record; the poke wakes a running drain.        *)
Register(l, h, g) ==
    /\ records' = [k \in Loops |->
          IF k \in Pruned(l) THEN [x \in Hosts |-> 0]
          ELSE IF k = l THEN [records[k] EXCEPT ![h] = g]
          ELSE records[k]]
    /\ rstate' = [k \in Loops |->
          IF k \in Pruned(l) THEN "none"
          ELSE IF k = l /\ rstate[k] = "none" THEN "open"
          ELSE rstate[k]]
    /\ held' = [k \in Loops |-> IF k \in Pruned(l) THEN 0 ELSE held[k]]
    /\ Poke(l)

(* unregister: h's record on l goes only if it still carries epoch g.      *)
Unregister(l, h, g) ==
    IF records[l][h] = g /\ g # 0
    THEN records' = [records EXCEPT ![l][h] = 0] /\ Poke(l)
    ELSE UNCHANGED <<records, poked>>

(* _acquirable: prune, refuse a shut or closed loop, make the registry.    *)
Acquirable(l) == l \notin dead /\ rstate[l] # "shut"

Prune(l, newState, newHeld) ==
    /\ records' = [k \in Loops |->
          IF k \in Pruned(l) THEN [x \in Hosts |-> 0] ELSE records[k]]
    /\ rstate' = [k \in Loops |->
          IF k \in Pruned(l) THEN "none"
          ELSE IF k = l THEN newState ELSE rstate[k]]
    /\ held' = [k \in Loops |->
          IF k \in Pruned(l) THEN 0
          ELSE IF k = l THEN newHeld ELSE held[k]]

----------------------------------------------------------------------------
(* The host: claiming a loop, rebuilding, closing. *)

(* _claim_loop by a task of l.  An owner that closed is released first, a  *)
(* host whose managers last served another loop is rebuilt, then l owns    *)
(* the host at a new epoch.  (A live other owner raises HostLoopError and  *)
(* the present owner changes nothing: neither is a step.)                  *)
ClaimLoop(h, l) ==
    LET rebuilt == served[h] \notin {NoLoop, l}
        g == IF rebuilt THEN gen[h] + 2 ELSE gen[h] + 1
    IN  /\ l \notin dead
        /\ owner[h] = NoLoop \/ owner[h] \in dead
        /\ gen[h] < MaxGen
        /\ owner' = [owner EXCEPT ![h] = l]
        /\ served' = [served EXCEPT ![h] = l]
        /\ gen' = [gen EXCEPT ![h] = g]
        /\ mgr' = [mgr EXCEPT ![h] = IF rebuilt THEN gen[h] + 1 ELSE @]
        /\ Register(l, h, g)
        /\ UNCHANGED <<closing, dead, waiters, client, drain, inflight>>

(* rebuild_connections: a new epoch and new managers; a live owner keeps   *)
(* the host and its record moves to the new epoch.                         *)
RebuildConnections(h) ==
    LET g == gen[h] + 1
        live == owner[h] # NoLoop /\ owner[h] \notin dead
    IN  /\ gen[h] < MaxGen
        /\ gen' = [gen EXCEPT ![h] = g]
        /\ mgr' = [mgr EXCEPT ![h] = g]
        /\ served' = [served EXCEPT ![h] = IF live THEN owner[h] ELSE NoLoop]
        /\ IF live THEN Register(owner[h], h, g)
                   ELSE UNCHANGED <<records, rstate, held, poked>>
        /\ UNCHANGED <<owner, closing, dead, waiters, client, drain, inflight>>

NewClose(h, by) ==
    [host |-> h, gen |-> gen[h], mgr |-> mgr[h], owner |-> owner[h],
     by |-> by, phase |-> "working"]

(* host.close() called by a user, up to its first await.  (Closing a host  *)
(* nobody owns finds nothing open: it never waits and changes nothing.)    *)
CloseByUser(u, h) ==
    /\ \A z \in closing : z.by # u
    /\ owner[h] \in Loops \ dead
    /\ closing' = closing \cup {NewClose(h, u)}
    /\ UNCHANGED <<owner, served, gen, mgr, dead, registryVars, client, drainVars>>

(* host.close() of a host whose loop closed: _drop_dead_connections        *)
(* releases the owner and rebuilds, with no I/O.                           *)
CloseOnDeadLoop(h) ==
    /\ owner[h] \in dead
    /\ owner' = [owner EXCEPT ![h] = NoLoop]
    /\ served' = [served EXCEPT ![h] = NoLoop]
    /\ gen' = [gen EXCEPT ![h] = @ + 1]
    /\ mgr' = [mgr EXCEPT ![h] = gen[h] + 1]
    /\ Unregister(owner[h], h, gen[h])
    /\ UNCHANGED <<closing, dead, rstate, held, waiters, client, drain, inflight>>

(* The last step of a close on the managers it captured. *)
CloseWorks(z) ==
    /\ z.phase = "working"
    /\ closing' = (closing \ {z}) \cup {[z EXCEPT !.phase = "spent"]}
    /\ UNCHANGED <<owner, served, gen, mgr, dead, registryVars, client, drainVars>>

(* The end of a close.  host.close()'s finally clears the owner and        *)
(* unregisters only at the captured epoch.  A cancellation stops the chain *)
(* of steps early.  When the sweep awaits it, _close_one records how it    *)
(* ended; a close that was not cancelled removes its own record and pokes. *)
CloseEnds(z, outcome) ==
    LET h == z.host
        current == gen[h] = z.gen
        bySweep == z.by \in Loops
        mine == bySweep /\ inflight[z.by][h].st = "running"
                        /\ inflight[z.by][h].gen = z.gen
        removes == bySweep /\ outcome # "cancelled"
        gone(l) == \/ l = z.owner /\ current /\ records[l][h] = z.gen
                   \/ l = z.by /\ removes /\ records[l][h] = z.gen
    IN  /\ outcome # "cancelled" => z.phase = "spent"
        /\ closing' = closing \ {z}
        /\ owner' = IF current THEN [owner EXCEPT ![h] = NoLoop] ELSE owner
        /\ records' = [l \in Loops |->
              IF gone(l) THEN [records[l] EXCEPT ![h] = 0] ELSE records[l]]
        /\ poked' = [l \in Loops |->
              \/ poked[l]
              \/ rstate[l] = "draining" /\ (gone(l) \/ (l = z.by /\ removes))]
        /\ inflight' = IF mine THEN [inflight EXCEPT ![z.by][h] = As(@, outcome)]
                               ELSE inflight
        /\ UNCHANGED <<served, gen, mgr, dead, rstate, held, waiters, client, drain>>

----------------------------------------------------------------------------
(* The drain: one sweep task per loop, its close tasks, and its caller. *)

StartDrain(l, by, shut) ==
    /\ drain' = [drain EXCEPT ![l] =
          [phase |-> "sweeping", by |-> by, shut |-> shut]]
    /\ poked' = [poked EXCEPT ![l] = TRUE]

Outstanding(l, h) == inflight[l][h].st \in {"pending", "running"}
Done(l, h) == inflight[l][h].st \in {"finished", "failed", "cancelled"}

(* Wrong: an ended close drops its host's record, even a newer one. *)
DropsReplaced(l, h) ==
    IF Done(l, h) \/ (~Outstanding(l, h) /\ owner[h] # l) THEN 0 ELSE records[l][h]

(* What a recompute of the sweep keeps: a close that cancelled itself is a *)
(* failed close, and a record whose host l does not own needs no close.    *)
KeptTask(l, h) == IF Done(l, h) THEN NoTask ELSE inflight[l][h]
KeptRecord(l, h) ==
    IF \/ inflight[l][h].st = "cancelled" /\ records[l][h] = inflight[l][h].gen
       \/ ~Outstanding(l, h) /\ owner[h] # l
    THEN 0 ELSE records[l][h]

(* Wrong: no order. *)
ReadyInAnyOrder(l) ==
    {h \in Hosts : KeptRecord(l, h) # 0 /\ ~Outstanding(l, h)}

(* The records the sweep may close now: no close of theirs runs and no     *)
(* other record depends on them.  With nothing running and nothing ready,  *)
(* a dependency cycle: all of them.                                        *)
Ready(l) ==
    LET kept == {h \in Hosts : KeptRecord(l, h) # 0}
        unstarted == {h \in kept : ~Outstanding(l, h)}
        depended == {h \in Hosts : \E d \in kept : d # h /\ h \in DependsOn[d]}
    IN  IF unstarted \ depended = {} /\ ~\E h \in Hosts : Outstanding(l, h)
        THEN unstarted
        ELSE unstarted \ depended

(* One turn of _sweep's loop, from its wake-up to its next wait, or to its *)
(* return when nothing is registered and nothing runs.                     *)
SweepTurn(l) ==
    /\ drain[l].phase = "sweeping"
    /\ poked[l] \/ \E h \in Hosts : Done(l, h)
    /\ records' = [records EXCEPT ![l] = [h \in Hosts |-> KeptRecord(l, h)]]
    /\ inflight' = [inflight EXCEPT ![l] = [h \in Hosts |->
          IF h \in Ready(l) THEN [gen |-> KeptRecord(l, h), st |-> "pending"]
                            ELSE KeptTask(l, h)]]
    /\ poked' = [poked EXCEPT ![l] = FALSE]
    /\ drain' = [drain EXCEPT ![l] = In(@,
          IF \E h \in Hosts : KeptRecord(l, h) # 0 \/ Outstanding(l, h)
          THEN "sweeping" ELSE "returned")]
    /\ UNCHANGED <<hostVars, dead, rstate, held, waiters, client>>

(* The first step of a close task: a record that was replaced or removed   *)
(* meanwhile is not closed; the sweep closes the replacement on its own.   *)
CloseStarts(l, h) ==
    /\ inflight[l][h].st = "pending"
    /\ IF records[l][h] = inflight[l][h].gen
       THEN /\ closing' = closing \cup {NewClose(h, l)}
            /\ inflight' = [inflight EXCEPT ![l][h] = As(@, "running")]
       ELSE /\ inflight' = [inflight EXCEPT ![l][h] = As(@, "finished")]
            /\ UNCHANGED closing
    /\ UNCHANGED <<owner, served, gen, mgr, dead, registryVars, client, drain, poked>>

(* The sweep task is cancelled from outside, or fails. *)
SweepDies(l) ==
    /\ drain[l].phase = "sweeping"
    /\ drain' = [drain EXCEPT ![l] = In(@, "died")]
    /\ UNCHANGED <<hostVars, dead, registryVars, client, inflight, poked>>

(* _end_drain, then _forget_if_idle unless a runner shut the loop down:    *)
(* the registry reopens (or is shut), every waiter that is not already     *)
(* leaving is admitted and counted (or refused), the caller moves on.      *)
EndDrain(l) ==
    LET admitted == {c \in waiters[l] : client[c] = "waiting"}
        shut == drain[l].shut
        count == IF shut THEN held[l] ELSE held[l] + Cardinality(admitted)
    IN  /\ rstate' = [rstate EXCEPT ![l] =
              IF shut THEN "shut" ELSE IF count = 0 THEN "none" ELSE "open"]
        /\ held' = [held EXCEPT ![l] = count]
        /\ waiters' = [waiters EXCEPT ![l] = {}]
        /\ client' = [c \in Clients |->
              IF c \in admitted THEN IF shut THEN "refused" ELSE "granted"
              ELSE IF c = drain[l].by THEN "idle"
              ELSE client[c]]
        /\ drain' = [drain EXCEPT ![l] = NoDrain]
        /\ inflight' = [inflight EXCEPT ![l] = [h \in Hosts |-> NoTask]]
        /\ poked' = [poked EXCEPT ![l] = FALSE]

(* Wrong: a close that still runs is trusted to finish. *)
TrustsRunningCloses(l, h) ==
    IF inflight[l][h].st = "running" THEN 0 ELSE records[l][h]

(* _abandon_outstanding: every record, and every close cut short whose     *)
(* record is gone, at its own epoch.  A host abandons only when that epoch *)
(* is still its own and no other loop owns it; then it drops its managers  *)
(* and moves to a new epoch, unowned.                                      *)
AbandonAt(l, h) ==
    IF records[l][h] # 0 THEN records[l][h]
    ELSE IF drain[l].phase = "cutting"
            /\ inflight[l][h].st \in {"running", "failed", "cancelled"}
         THEN inflight[l][h].gen ELSE 0
Abandoned(l) ==
    {h \in Hosts : /\ AbandonAt(l, h) # 0
                   /\ AbandonAt(l, h) = gen[h]
                   /\ owner[h] \in {NoLoop, l}}

AbandonOutstanding(l) ==
    /\ owner' = [h \in Hosts |-> IF h \in Abandoned(l) THEN NoLoop ELSE owner[h]]
    /\ served' = [h \in Hosts |-> IF h \in Abandoned(l) THEN NoLoop ELSE served[h]]
    /\ gen' = [h \in Hosts |-> IF h \in Abandoned(l) THEN gen[h] + 1 ELSE gen[h]]
    /\ mgr' = [h \in Hosts |-> IF h \in Abandoned(l) THEN gen[h] + 1 ELSE mgr[h]]
    /\ records' = [records EXCEPT ![l] = [h \in Hosts |-> 0]]
    /\ UNCHANGED <<closing, dead>>

(* The drain ends with nothing registered: nobody is abandoned. *)
EndClean(l) ==
    /\ drain[l].phase = "returned"
    /\ Idle(l)
    /\ EndDrain(l)
    /\ UNCHANGED <<hostVars, dead, records>>

(* A host registered after the sweep returned and time is left: sweep on.  *)
SweepAgain(l) ==
    /\ drain[l].phase = "returned"
    /\ ~Idle(l)
    /\ drain' = [drain EXCEPT ![l] = In(@, "sweeping")]
    /\ poked' = [poked EXCEPT ![l] = TRUE]
    /\ UNCHANGED <<hostVars, dead, registryVars, client, inflight>>

(* Wrong: no deadline. *)
NoDeadline(l) ==
    drain[l].phase = "died" \/ (drain[l].phase = "returned" /\ ~Idle(l))

(* The drain has expired: the deadline passed, a second cancel or an       *)
(* interrupt cut it short, or the sweep died.  (A first cancel of the      *)
(* caller changes only what it raises once the drain is over.)  A sweep    *)
(* that returned has expired only if a record is left.                     *)
Expired(l) ==
    \/ drain[l].phase \in {"sweeping", "died"}
    \/ drain[l].phase = "returned" /\ ~Idle(l)

StillRuns(l) ==
    drain[l].phase = "sweeping" \/ \E h \in Hosts : Outstanding(l, h)

(* _cut_short: the sweep and its closes are cancelled.  A close that had   *)
(* not started never does; the others get the graces to finish.  A close   *)
(* that ended before the cut is not one the expiry interrupted.            *)
CutShort(l) ==
    /\ Expired(l)
    /\ StillRuns(l)
    /\ drain' = [drain EXCEPT ![l] = In(@, "cutting")]
    /\ inflight' = [inflight EXCEPT ![l] = [h \in Hosts |->
          CASE inflight[l][h].st = "pending" -> As(inflight[l][h], "cancelled")
            [] inflight[l][h].st = "running" -> inflight[l][h]
            [] OTHER -> NoTask]]
    /\ UNCHANGED <<hostVars, dead, registryVars, client, poked>>

(* The graces are over (or there was nothing to cancel): abandon what is   *)
(* outstanding and end the drain, in one step with no await.               *)
EndAbandoning(l) ==
    /\ drain[l].phase = "cutting" \/ (Expired(l) /\ ~StillRuns(l))
    /\ AbandonOutstanding(l)
    /\ EndDrain(l)

----------------------------------------------------------------------------
(* Cleanup boundaries. *)

(* acquire_boundary, and acquire_boundary_waiting on a loop that is open.  *)
Acquire(c) ==
    LET l == LoopOf[c] IN
    /\ client[c] = "idle"
    /\ Acquirable(l)
    /\ rstate[l] # "draining"
    /\ Prune(l, "open", held[l] + 1)
    /\ client' = [client EXCEPT ![c] = "holding"]
    /\ UNCHANGED <<hostVars, dead, waiters, drainVars>>

(* acquire_boundary_waiting on a draining loop. *)
Queue(c) ==
    LET l == LoopOf[c] IN
    /\ client[c] = "idle"
    /\ Acquirable(l)
    /\ rstate[l] = "draining"
    /\ Prune(l, "draining", held[l])
    /\ waiters' = [waiters EXCEPT ![l] = @ \cup {c}]
    /\ client' = [client EXCEPT ![c] = "waiting"]
    /\ UNCHANGED <<hostVars, dead, drainVars>>

(* Wrong: a waiter cancelled after its grant leaves without releasing it. *)
CancelKeepsGrant(c) ==
    /\ client[c] \in {"waiting", "granted"}
    /\ client' = [client EXCEPT ![c] = "leaving"]
    /\ UNCHANGED <<hostVars, dead, registryVars, drainVars>>

(* A waiter is cancelled before it was admitted: its future is cancelled   *)
(* at once, its task leaves the queue when it next runs.                   *)
CancelWaiter(c) ==
    /\ client[c] = "waiting"
    /\ client' = [client EXCEPT ![c] = "leaving"]
    /\ UNCHANGED <<hostVars, dead, registryVars, drainVars>>

LeaveQueue(c) ==
    /\ client[c] = "leaving"
    /\ waiters' = [waiters EXCEPT ![LoopOf[c]] = @ \ {c}]
    /\ client' = [client EXCEPT ![c] = "idle"]
    /\ UNCHANGED <<hostVars, dead, records, rstate, held, drainVars>>

(* Wrong: a refused waiter goes on as if it were admitted. *)
RefusedHolds(c) ==
    /\ client[c] \in {"granted", "refused"}
    /\ client' = [client EXCEPT ![c] = "holding"]
    /\ UNCHANGED <<hostVars, dead, registryVars, drainVars>>

(* An admitted waiter runs: it holds its boundary, or raises the refusal.  *)
WaiterResumes(c) ==
    /\ client[c] \in {"granted", "refused"}
    /\ client' = [client EXCEPT ![c] = IF @ = "granted" THEN "holding" ELSE "idle"]
    /\ UNCHANGED <<hostVars, dead, registryVars, drainVars>>

(* Boundary.release.  The count drops first; the last release of an open   *)
(* loop drains it.  A waiter cancelled after its grant releases the same   *)
(* way before it raises.                                                   *)
Release(c) ==
    LET l == LoopOf[c]
        last == held[l] = 1 /\ rstate[l] = "open"
    IN  /\ client[c] \in {"holding", "granted"}
        /\ l \notin dead
        /\ held' = [held EXCEPT ![l] = @ - 1]
        /\ client' = [client EXCEPT ![c] = IF last THEN "draining" ELSE "idle"]
        /\ IF last
           THEN /\ rstate' = [rstate EXCEPT ![l] = "draining"]
                /\ StartDrain(l, c, FALSE)
           ELSE UNCHANGED <<rstate, drain, poked>>
        /\ UNCHANGED <<hostVars, dead, records, waiters, inflight>>

(* OttoContext.sweep_loop: refused while a boundary holds the loop.        *)
SweepUnheld(l) ==
    /\ l \notin dead
    /\ rstate[l] = "open"
    /\ held[l] = 0
    /\ rstate' = [rstate EXCEPT ![l] = "draining"]
    /\ StartDrain(l, NoClient, FALSE)
    /\ UNCHANGED <<hostVars, dead, records, held, waiters, client, inflight>>

(* A runner shuts its loop down before it closes it, whatever the count.   *)
ShutDown(l) ==
    /\ l \notin dead
    /\ rstate[l] \in {"none", "open"}
    /\ Prune(l, "draining", held[l])
    /\ StartDrain(l, NoClient, TRUE)
    /\ UNCHANGED <<hostVars, dead, waiters, client, inflight>>

(* The loop closes once none of its tasks runs.  A boundary may still be   *)
(* held, and a host still registered: nobody released or swept them.       *)
LoopCloses(l) ==
    /\ l \notin dead
    /\ drain[l] = NoDrain
    /\ \A z \in closing : z.by # l /\ z.owner # l
    /\ \A c \in Clients : LoopOf[c] = l => client[c] \in {"idle", "holding"}
    /\ dead' = dead \cup {l}
    /\ UNCHANGED <<hostVars, registryVars, client, drainVars>>

(* abandon_closed_loops: the backstop after the test session. *)
AbandonClosedLoops ==
    LET left == {h \in Hosts : \E l \in dead :
                    owner[h] = l /\ records[l][h] = gen[h]}
    IN  /\ \E l \in dead : rstate[l] # "none"
        /\ owner' = [h \in Hosts |-> IF h \in left THEN NoLoop ELSE owner[h]]
        /\ served' = [h \in Hosts |-> IF h \in left THEN NoLoop ELSE served[h]]
        /\ gen' = [h \in Hosts |-> IF h \in left THEN gen[h] + 1 ELSE gen[h]]
        /\ mgr' = [h \in Hosts |-> IF h \in left THEN gen[h] + 1 ELSE mgr[h]]
        /\ records' = [l \in Loops |->
              IF l \in dead THEN [h \in Hosts |-> 0] ELSE records[l]]
        /\ rstate' = [l \in Loops |-> IF l \in dead THEN "none" ELSE rstate[l]]
        /\ held' = [l \in Loops |-> IF l \in dead THEN 0 ELSE held[l]]
        /\ UNCHANGED <<closing, dead, waiters, client, drainVars>>

----------------------------------------------------------------------------
HostStep ==
    \/ \E h \in Hosts, l \in Loops : ClaimLoop(h, l)
    \/ \E h \in Hosts : RebuildConnections(h)
    \/ \E h \in Hosts : CloseOnDeadLoop(h)
    \/ \E h \in Hosts, u \in Users : CloseByUser(u, h)
    \/ \E z \in closing : CloseWorks(z)
    \/ \E z \in closing, o \in {"finished", "failed", "cancelled"} : CloseEnds(z, o)

DrainStep ==
    \E l \in Loops :
        \/ SweepTurn(l)
        \/ \E h \in Hosts : CloseStarts(l, h)
        \/ SweepDies(l)
        \/ EndClean(l)
        \/ SweepAgain(l)
        \/ CutShort(l)
        \/ EndAbandoning(l)

BoundaryStep ==
    \/ \E c \in Clients :
          \/ Acquire(c)
          \/ Queue(c)
          \/ CancelWaiter(c)
          \/ LeaveQueue(c)
          \/ WaiterResumes(c)
          \/ Release(c)
    \/ \E l \in Loops : SweepUnheld(l) \/ ShutDown(l) \/ LoopCloses(l)
    \/ AbandonClosedLoops

Next == HostStep \/ DrainStep \/ BoundaryStep

Spec == Init /\ [][Next]_vars

----------------------------------------------------------------------------
(* Properties. *)

Holders(l) == {c \in Clients : LoopOf[c] = l /\ client[c] \in {"holding", "granted"}}

(* The count is exactly the boundaries acquired or granted and not yet     *)
(* released, through every cancelled wait, grant and release: a count too  *)
(* high never sweeps, one too low closes hosts in use.                     *)
HeldCountsHolders ==
    \A l \in Loops \ dead : held[l] = Cardinality(Holders(l))

(* While the last release of a loop closes its hosts nobody holds it: no   *)
(* acquisition enters mid-drain, admitted waiters come after its end.      *)
NobodyHoldsADrainingLoop ==
    \A l \in Loops : drain[l] # NoDrain /\ ~drain[l].shut => Holders(l) = {}

(* The registry of a live loop is exact: it holds a host if and only if    *)
(* the loop owns it, at the host's present epoch.  So no connection is     *)
(* owned by a loop whose cleanup cannot find it, through any order of      *)
(* claims, rebuilds, closes that resume late, and abandonments.            *)
RegistryIsExact ==
    /\ \A l \in Loops \ dead, h \in Hosts :
          records[l][h] # 0 => owner[h] = l /\ records[l][h] = gen[h]
    /\ \A h \in Hosts :
          owner[h] \in Loops \ dead => records[owner[h]][h] # 0

(* No wait is without its cause.  A waiting client is queued on a loop     *)
(* that drains, and a draining one runs its loop's drain.  A sweep that    *)
(* sleeps has a close to wait for, which really runs, and every host it    *)
(* has not started must close after another that is still registered: no   *)
(* register, unregister or end of a close goes past it.                    *)
Asleep(l) ==
    drain[l].phase = "sweeping" /\ ~poked[l] /\ \A h \in Hosts : ~Done(l, h)

EveryWaitHasACause ==
    /\ \A c \in Clients :
          /\ client[c] = "waiting" =>
                c \in waiters[LoopOf[c]] /\ drain[LoopOf[c]] # NoDrain
          /\ client[c] = "draining" => drain[LoopOf[c]].by = c
    /\ \A l \in Loops : Asleep(l) =>
          /\ \E h \in Hosts : Outstanding(l, h)
          /\ \A h \in Hosts : records[l][h] # 0 /\ ~Outstanding(l, h) =>
                \E d \in Hosts : d # h /\ h \in DependsOn[d] /\ records[l][d] # 0
    /\ \A l \in Loops, h \in Hosts : inflight[l][h].st = "running" =>
          \E z \in closing :
              z.host = h /\ z.by = l /\ z.gen = inflight[l][h].gen

(* A sweep's close that outlives its drain was abandoned: the host has     *)
(* other managers and another epoch by the time anyone is admitted, so the *)
(* close cannot touch what they connect.                                   *)
AbandonedClosesAreStale ==
    \A z \in closing :
        z.by \in Loops /\ drain[z.by] = NoDrain =>
            mgr[z.host] # z.mgr /\ gen[z.host] # z.gen

(* "A close that was started at one generation never changes host state at *)
(* a later one, so a close still running after a reconnect cannot touch    *)
(* the new connection" (host.py:1436): a close still working on a host     *)
(* that was claimed since works on other managers.                         *)
StaleCloseHasNoAuthority ==
    \A z \in closing :
        z.phase = "working" /\ owner[z.host] # NoLoop /\ gen[z.host] # z.gen =>
            mgr[z.host] # z.mgr

(* The sweep starts a host's close only when no host that must close       *)
(* before it is still registered or still being closed.                    *)
DependentsCloseFirst ==
    [][\A l \in Loops, h \in Hosts :
          inflight[l][h].st # "pending" /\ inflight'[l][h].st = "pending" =>
              \A d \in Hosts : h \in DependsOn[d] /\ d # h =>
                  records'[l][d] = 0 /\ inflight'[l][d].st = "none"]_vars

(* Each loop keeps LoopPromise: nobody enters while its hosts close, the   *)
(* last release starts the closing, and a drain that ends leaves the loop  *)
(* no host, whatever was claimed before or during it, however it ended.    *)
LoopPhase(l) ==
    IF l \in dead THEN "gone"
    ELSE IF drain[l] # NoDrain THEN "closing"
    ELSE IF rstate[l] = "shut" THEN "shut" ELSE "open"

Promise(l) == INSTANCE LoopPromise WITH
    phase <- LoopPhase(l),
    holders <- Holders(l),
    hosts <- {h \in Hosts : owner[h] = l}

PromiseKept ==
    /\ \A l \in Loops : Promise(l)!Init
    /\ [][\A l \in Loops : [Promise(l)!Next]_(Promise(l)!vars)]_vars

(* The strengthening that makes the invariants above inductive.            *)

(* A running close never outruns its host: its epoch is at most the host's *)
(* present one, and while it is the present one nobody but the owner the   *)
(* close captured can own the host.                                        *)
ClosesAreBehind ==
    \A z \in closing :
        /\ z.gen <= gen[z.host]
        /\ z.gen = gen[z.host] => owner[z.host] \in {z.owner, NoLoop}
        /\ z.gen # 0
        /\ z.owner \in Loops \ dead
        /\ z.by \in Loops => z.by = z.owner

(* A close task belongs to a drain, at an epoch its host has reached, and  *)
(* once it cancelled itself its record is gone or replaced.                *)
TasksMatchDrains ==
    \A l \in Loops :
        /\ rstate[l] = "draining" <=> drain[l] # NoDrain
        /\ drain[l].phase = "none" => drain[l] = NoDrain
        /\ l \in dead => drain[l] = NoDrain
        /\ \A h \in Hosts :
              /\ drain[l] = NoDrain => inflight[l][h] = NoTask
              /\ inflight[l][h].st # "none" =>
                    inflight[l][h].gen # 0 /\ inflight[l][h].gen <= gen[h]
              /\ inflight[l][h].st = "cancelled" /\ drain[l].phase # "cutting" =>
                    records[l][h] # inflight[l][h].gen

(* Clients wait in their own loop's queue, and a drain's caller waits for  *)
(* that drain.                                                             *)
ClientsMatchLoops ==
    \A l \in Loops :
        /\ \A c \in waiters[l] : LoopOf[c] = l
        /\ drain[l].by \in Clients =>
              LoopOf[drain[l].by] = l /\ client[drain[l].by] = "draining"

IInv ==
    /\ TypeOK
    /\ RegistryIsExact
    /\ ClosesAreBehind
    /\ TasksMatchDrains
    /\ ClientsMatchLoops
    /\ HeldCountsHolders
    /\ NobodyHoldsADrainingLoop

(* What asyncio and the deadline guarantee: a runnable task runs, a        *)
(* deadline passes, the graces end.  Closes themselves may never end.      *)
Fairness ==
    /\ \A l \in Loops :
          /\ WF_vars(SweepTurn(l))
          /\ WF_vars(EndClean(l))
          /\ WF_vars(CutShort(l))
          /\ WF_vars(EndAbandoning(l))
    /\ \A c \in Clients : WF_vars(WaiterResumes(c)) /\ WF_vars(LeaveQueue(c))

FairSpec == Spec /\ Fairness

(* Every wait for a drain ends, in an admission, a refusal or the waiter's *)
(* own departure, even when a close never returns.                         *)
WaitEnds == \A c \in Clients :
    client[c] = "waiting" ~> client[c] \in {"holding", "idle"}

(* Every release returns: the drain it runs ends.                          *)
ReleaseReturns == \A c \in Clients : client[c] = "draining" ~> client[c] # "draining"

(* Neither hangs behind a drain, on either side of it.                     *)
DrainsLetGo == WaitEnds /\ ReleaseReturns

=============================================================================
