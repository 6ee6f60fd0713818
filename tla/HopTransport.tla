---------------------------- MODULE HopTransport ----------------------------
(***************************************************************************)
(* A chain of SshHopTransport objects (src/otto/host/transport.py), linked *)
(* by RemoteHost._build_hop_transport: the tunnel of a level rides on the  *)
(* tunnel of the next one, and level 1 is the transport a host's           *)
(* connection manager owns.  Tasks of one event loop open tunnels, forward *)
(* ports and close the chain; everything is built by awaits that a close   *)
(* may overtake.  One action is one stretch between two awaits.            *)
(***************************************************************************)
EXTENDS Naturals, FiniteSets

CONSTANTS
    Tasks,     \* tasks that use the transport
    NoTask,    \* the holder of a free lock
    Dests,     \* destinations of port forwards
    NoDest,    \* what a task forwards to when it only wants the tunnel
    Depth,     \* length of the chain
    MaxCloses  \* bound on the calls of close()

ASSUME TasksAssumption == NoTask \notin Tasks /\ NoDest \notin Dests
ASSUME DestsAssumption == IsFiniteSet(Dests)
ASSUME DepthAssumption == Depth \in Nat \ {0}
ASSUME MaxClosesAssumption == MaxCloses \in Nat

Levels == 1..Depth

VARIABLES
    gen,       \* gen[l]: _generation
    conn,      \* conn[l]: a tunnel is stored in _conn
    fwd,       \* the destinations with a stored listener
    holder,    \* holder[l]: who holds l's _conn_lock; holder[0]: the _forward_lock
    at,        \* at[t]: what task t waits for
    level,     \* level[t]: on which level (0: for the forward)
    rec,       \* rec[t][l]: the generation t recorded on l
    dest,      \* dest[t]: what t forwards to
    open,      \* open[l]: the connections opened on l and not closed
    listening, \* the listeners opened and not closed
    used,      \* somebody called in since the last close began
    stray,     \* the cascade of that close, or of a call it overtook, stopped early
    closes     \* how many closes began

resources == <<gen, conn, open>>
forwards == <<fwd, listening>>
place == <<at, level, rec>>
history == <<used, stray, closes>>
vars == <<resources, forwards, holder, place, dest, history>>

Unrecorded == [l \in Levels |-> 0]

TypeOK ==
    /\ gen \in [Levels -> Nat]
    /\ conn \in [Levels -> BOOLEAN]
    /\ fwd \subseteq Dests
    /\ holder \in [0..Depth -> Tasks \cup {NoTask}]
    /\ at \in [Tasks -> {"idle", "lock", "dial", "undo", "closing"}]
    /\ level \in [Tasks -> 0..Depth]
    /\ rec \in [Tasks -> [Levels -> Nat]]
    /\ dest \in [Tasks -> Dests \cup {NoDest}]
    /\ open \in [Levels -> Nat]
    /\ listening \in Nat
    /\ used \in BOOLEAN /\ stray \in BOOLEAN
    /\ closes \in 0..MaxCloses

Init ==
    /\ gen = [l \in Levels |-> 0]
    /\ conn = [l \in Levels |-> FALSE]
    /\ fwd = {}
    /\ holder = [l \in 0..Depth |-> NoTask]
    /\ at = [t \in Tasks |-> "idle"]
    /\ level = [t \in Tasks |-> 0]
    /\ rec = [t \in Tasks |-> Unrecorded]
    /\ dest = [t \in Tasks |-> NoDest]
    /\ open = [l \in Levels |-> 0]
    /\ listening = 0
    /\ used = FALSE /\ stray = FALSE
    /\ closes = 0

----------------------------------------------------------------------------
(* asyncio.Lock: a newcomer waits behind those who already wait.  Which of *)
(* them is next is left open.                                              *)
Contended(l) ==
    holder[l] # NoTask \/ \E o \in Tasks : at[o] = "lock" /\ level[o] = l

Goes(t, where, l, recorded) ==
    /\ at' = [at EXCEPT ![t] = where]
    /\ level' = [level EXCEPT ![t] = l]
    /\ rec' = [rec EXCEPT ![t] = recorded]

Released(t) == [l \in 0..Depth |-> IF holder[l] = t THEN NoTask ELSE holder[l]]

(* The call returns or raises, through every `async with` it is in. *)
Leaves(t) ==
    /\ Goes(t, "idle", 0, Unrecorded)
    /\ dest' = [dest EXCEPT ![t] = NoDest]
    /\ holder' = Released(t)

(* The rest of the call, to its next await, once get_tunnel has a tunnel   *)
(* on level 1: it was asked for, or forward_port takes its lock, looks for *)
(* a listener again and binds one.                                         *)
HasTunnel(t, d, recorded) ==
    IF d = NoDest \/ (~Contended(0) /\ d \in fwd)
    THEN Leaves(t)
    ELSE /\ Goes(t, IF Contended(0) THEN "lock" ELSE "dial", 0, recorded)
         /\ dest' = [dest EXCEPT ![t] = d]
         /\ holder' = IF Contended(0) THEN Released(t)
                                      ELSE [Released(t) EXCEPT ![0] = t]

(* get_tunnel from level l up the chain, to the first await: it stops at a *)
(* level that has its tunnel, where it dials the level before it, at a     *)
(* contended lock, or at the end of the chain.  `mine' is the lock just    *)
(* taken.  The generation is recorded before the lock.                     *)
Stops(l) == conn[l] \/ Contended(l) \/ l = Depth

Descend(t, l, mine, recorded) ==
    LET span == {k \in l..Depth : \A j \in l..Depth : j < k => ~Stops(j)}
        wanted == {k \in span : ~conn[k]}
        blocked == {k \in wanted : Contended(k)}
        now == [k \in Levels |-> IF k \in wanted THEN gen[k] ELSE recorded[k]]
    IN  /\ holder' = [k \in 0..Depth |->
              IF k \in mine \cup (wanted \ blocked) THEN t ELSE holder[k]]
        /\ \/ \E k \in blocked : Goes(t, "lock", k, now)
           \/ /\ blocked = {}
              /\ \/ \E k \in span : conn[k] /\ Goes(t, "dial", k - 1, now)
                 \/ wanted = l..Depth /\ Goes(t, "dial", Depth, now)

(* get_tunnel (d = NoDest) or forward_port begins.  Both record level 1's  *)
(* generation in their first stretch, so one record serves both.           *)
Call(t, d) ==
    LET recorded == [Unrecorded EXCEPT ![1] = gen[1]]
    IN  /\ at[t] = "idle"
        /\ used' = TRUE
        /\ IF d \in fwd THEN Leaves(t)
           ELSE IF conn[1] THEN HasTunnel(t, d, recorded)
           ELSE Descend(t, 1, {}, recorded) /\ dest' = [dest EXCEPT ![t] = d]
        /\ UNCHANGED <<resources, forwards, stray, closes>>

(* Wrong: the generation is recorded once the lock is held; and: nobody    *)
(* looks for the tunnel again.                                             *)
RecordsInsideLock(t) ==
    LET l == level[t] IN
    /\ at[t] = "lock"
    /\ holder[l] = NoTask
    /\ IF l = 0
       THEN IF dest[t] \in fwd THEN Leaves(t)
            ELSE /\ Goes(t, "dial", 0, rec[t])
                 /\ holder' = [holder EXCEPT ![0] = t]
                 /\ UNCHANGED dest
       ELSE IF conn[l]
       THEN IF l = 1 THEN HasTunnel(t, dest[t], rec[t])
            ELSE Goes(t, "dial", l - 1, rec[t]) /\ UNCHANGED <<holder, dest>>
       ELSE Descend(t, l + 1, {l}, [rec[t] EXCEPT ![l] = gen[l]]) /\ UNCHANGED dest
    /\ UNCHANGED <<resources, forwards, history>>

NoSecondLook(t) ==
    LET l == level[t] IN
    /\ at[t] = "lock"
    /\ holder[l] = NoTask
    /\ IF l = 0
       THEN /\ Goes(t, "dial", 0, rec[t])
            /\ holder' = [holder EXCEPT ![0] = t]
            /\ UNCHANGED dest
       ELSE Descend(t, l + 1, {l}, rec[t]) /\ UNCHANGED dest
    /\ UNCHANGED <<resources, forwards, history>>

(* A task that waited for a lock gets it, looks again whether the tunnel   *)
(* (the listener) exists by now, and goes on.                              *)
TakesLock(t) ==
    LET l == level[t] IN
    /\ at[t] = "lock"
    /\ holder[l] = NoTask
    /\ IF l = 0
       THEN IF dest[t] \in fwd THEN Leaves(t)
            ELSE /\ Goes(t, "dial", 0, rec[t])
                 /\ holder' = [holder EXCEPT ![0] = t]
                 /\ UNCHANGED dest
       ELSE IF conn[l]
       THEN IF l = 1 THEN HasTunnel(t, dest[t], rec[t])
            ELSE Goes(t, "dial", l - 1, rec[t]) /\ UNCHANGED <<holder, dest>>
       ELSE Descend(t, l + 1, {l}, rec[t]) /\ UNCHANGED dest
    /\ UNCHANGED <<resources, forwards, history>>

(* The handshake of level l succeeds (one that was over when its parent's  *)
(* tunnel closed still does).  Overtaken by a close, its tunnel is torn    *)
(* down: it is closed at once, then its end is awaited.  Otherwise it is   *)
(* stored and the level before is dialled through it.                      *)
Dialled(t) ==
    LET l == level[t] IN
    /\ at[t] = "dial"
    /\ l # 0
    /\ IF rec[t][l] # gen[l]
       THEN /\ Goes(t, "undo", l, rec[t])
            /\ UNCHANGED <<conn, open, holder, dest>>
       ELSE /\ conn' = [conn EXCEPT ![l] = TRUE]
            /\ open' = [open EXCEPT ![l] = @ + 1]
            /\ IF l = 1
               THEN HasTunnel(t, dest[t], rec[t])
               ELSE /\ Goes(t, "dial", l - 1, rec[t])
                    /\ holder' = [holder EXCEPT ![l] = NoTask]
                    /\ UNCHANGED dest
    /\ UNCHANGED <<gen, forwards, history>>

(* The listener is bound.  Overtaken by a close, it is closed again. *)
Bound(t) ==
    /\ at[t] = "dial"
    /\ level[t] = 0
    /\ IF rec[t][1] = gen[1]
       THEN fwd' = fwd \cup {dest[t]} /\ listening' = listening + 1
       ELSE UNCHANGED forwards
    /\ Leaves(t)
    /\ UNCHANGED <<resources, history>>

----------------------------------------------------------------------------
(* close() from level k up the chain, to its first await: the generation   *)
(* ends, and a stored tunnel is taken and closed; the wait for its end     *)
(* comes before the parent's close.                                        *)
EndLevels(t, k) ==
    LET span == {l \in k..Depth : \A j \in k..Depth : j < l => ~conn[j]}
        hit == {l \in span : conn[l]}
    IN  /\ gen' = [l \in Levels |-> IF l \in span THEN gen[l] + 1 ELSE gen[l]]
        /\ conn' = [l \in Levels |-> conn[l] /\ l \notin hit]
        /\ open' = [l \in Levels |-> IF l \in hit THEN open[l] - 1 ELSE open[l]]
        /\ \/ hit = {} /\ Leaves(t)
           \/ \E l \in hit : Goes(t, "closing", l, rec[t]) /\ UNCHANGED <<holder, dest>>

Close(t) ==
    /\ at[t] = "idle"
    /\ closes < MaxCloses
    /\ closes' = closes + 1
    /\ used' = FALSE /\ stray' = FALSE
    /\ fwd' = {}
    /\ listening' = listening - Cardinality(fwd)
    /\ EndLevels(t, 1)

(* The torn-down tunnel has ended: the cascade goes on with the parent.    *)
(* For a call a close overtook, the end of it is HopTransportTornDownError.*)
TornDown(t) ==
    /\ at[t] \in {"undo", "closing"}
    /\ EndLevels(t, level[t] + 1)
    /\ UNCHANGED <<forwards, history>>

(* What t waits for fails, or t is cancelled there.  Nothing goes on: not  *)
(* the parent's close either, after a teardown that raised or a handshake  *)
(* that failed on a level whose generation was over.                       *)
Fails(t) ==
    LET l == level[t] IN
    /\ at[t] # "idle"
    /\ Leaves(t)
    /\ stray' = \/ stray
                \/ at[t] \in {"undo", "closing"} /\ l < Depth
                \/ /\ at[t] = "dial" /\ l < Depth
                   /\ \E k \in 1..l : rec[t][k] # gen[k]
    /\ UNCHANGED <<resources, forwards, used, closes>>

(* Wrong: the listener is closed but stays cached. *)
UnforwardKeepsEntry(d) ==
    /\ d \in fwd
    /\ \A t \in Tasks : dest[t] # d
    /\ listening' = listening - 1
    /\ UNCHANGED <<resources, fwd, holder, place, dest, history>>

(* unforward_port, by the transfer that owns the destination's port. *)
Unforward(d) ==
    /\ d \in fwd
    /\ \A t \in Tasks : dest[t] # d
    /\ fwd' = fwd \ {d}
    /\ listening' = listening - 1
    /\ UNCHANGED <<resources, holder, place, dest, history>>

Next ==
    \/ \E t \in Tasks :
          \/ \E d \in Dests \cup {NoDest} : Call(t, d)
          \/ TakesLock(t)
          \/ Dialled(t)
          \/ Bound(t)
          \/ Close(t)
          \/ TornDown(t)
          \/ Fails(t)
    \/ \E d \in Dests : Unforward(d)

Spec == Init /\ [][Next]_vars

----------------------------------------------------------------------------
(* Properties. *)

(* Every connection and every listener that is open is the one its         *)
(* transport stores, so a close can find it: no race of two callers, and   *)
(* no close that overtakes a handshake or a bind, opens a second one that  *)
(* nobody holds.                                                           *)
OpenIsStored ==
    /\ \A l \in Levels : open[l] = IF conn[l] THEN 1 ELSE 0
    /\ listening = Cardinality(fwd)

(* Once everybody has left and nobody called since the last close began,   *)
(* nothing is open: what a close overtook is released by the call that     *)
(* built it, up the whole chain, unless a failure stopped the cascade.     *)
Quiet == \A t \in Tasks : at[t] = "idle"

NothingOutlivesClose ==
    Quiet /\ closes > 0 /\ ~used =>
        /\ ~conn[1] /\ fwd = {}
        /\ ~stray => \A l \in Levels : ~conn[l]

(* Nobody waits for somebody who waits for it: who holds a lock is in the  *)
(* middle of a call, and if it waits itself, then for the lock of a level  *)
(* further up the chain, never for the forward lock, inside which nobody   *)
(* waits for a lock.  So a close, a failure or a cancellation anywhere     *)
(* leaves no lock behind and no two calls lock each other out.             *)
WaitsGoUp ==
    \A t \in Tasks : at[t] = "lock" =>
        LET o == holder[level[t]] IN
        o # NoTask => /\ at[o] # "idle"
                      /\ at[o] = "lock" => 0 < level[t] /\ level[t] < level[o]

(* The strengthening that makes OpenIsStored inductive: a task in a        *)
(* handshake holds the lock of its level and of those below, none of which *)
(* has a tunnel, and a task that binds a listener holds the forward lock   *)
(* and knows there is none.                                                *)
Reserved(t) ==
    IF at[t] = "dial" THEN 1..level[t]
    ELSE IF at[t] = "lock" THEN {k \in Levels : k < level[t]} ELSE {}

HoldsItsLocks(t) ==
    /\ \A k \in Reserved(t) : holder[k] = t /\ ~conn[k]
    /\ at[t] \in {"dial", "lock"} /\ level[t] = 0 => dest[t] \in Dests
    /\ at[t] = "dial" /\ level[t] = 0 => holder[0] = t /\ dest[t] \notin fwd

IInv ==
    /\ TypeOK
    /\ OpenIsStored
    /\ \A t \in Tasks : HoldsItsLocks(t)

(* "What close ends is the current GENERATION of resources" (transport.py: *)
(* close): a tunnel stored by a caller of the next generation still has    *)
(* the parent tunnel it was dialled through.                               *)
NextGenerationStands == \A l \in Levels : conn[l] /\ l < Depth => conn[l + 1]

=============================================================================
