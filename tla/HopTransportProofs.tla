------------------------- MODULE HopTransportProofs -------------------------
(***************************************************************************)
(* Proofs that whatever a chain of hop transports has open is stored in    *)
(* it, and that a close ends all of it, for any number of tasks,           *)
(* destinations, levels and closes.                                        *)
(***************************************************************************)
EXTENDS HopTransport, FiniteSetTheorems, TLAPS

(* What a step of task t shares with every other: the others stay where    *)
(* they are and keep their locks, and t goes to a place of the right type. *)
OthersStay(t) ==
    /\ \A o \in Tasks \ {t} : at'[o] = at[o] /\ level'[o] = level[o] /\ dest'[o] = dest[o]
    /\ \A k \in 0..Depth : holder[k] # t /\ holder[k] # NoTask => holder'[k] = holder[k]

PlaceTyped ==
    /\ at' \in [Tasks -> {"idle", "lock", "dial", "undo", "closing"}]
    /\ level' \in [Tasks -> 0..Depth]
    /\ rec' \in [Tasks -> [Levels -> Nat]]
    /\ dest' \in [Tasks -> Dests \cup {NoDest}]
    /\ holder' \in [0..Depth -> Tasks \cup {NoTask}]

(* The others keep holding their locks if t stays off their levels.        *)
LEMMA OthersHold ==
  ASSUME IInv, NEW t \in Tasks, OthersStay(t),
         \A k \in Levels : conn'[k] => conn[k] \/ holder[k] = t,
         \A d \in fwd' : d \in fwd \/ holder[0] = t
  PROVE \A o \in Tasks \ {t} : HoldsItsLocks(o)'
  <1> SUFFICES ASSUME NEW o \in Tasks \ {t} PROVE HoldsItsLocks(o)'
    OBVIOUS
  <1>1. at'[o] = at[o] /\ level'[o] = level[o] /\ dest'[o] = dest[o]
    BY DEF OthersStay
  <1>2. HoldsItsLocks(o) /\ o # NoTask /\ o # t
    BY TasksAssumption DEF IInv
  <1>3. level[o] \in 0..Depth /\ at[o] \in {"idle", "lock", "dial", "undo", "closing"}
    BY DEF IInv, TypeOK
  <1>4. Reserved(o)' = Reserved(o)
    BY <1>1 DEF Reserved
  <1>5. \A k \in Reserved(o) : k \in Levels
    BY <1>3, DepthAssumption DEF Reserved, Levels
  <1>6. \A k \in Reserved(o) : holder'[k] = o /\ ~conn'[k]
    <2> SUFFICES ASSUME NEW k \in Reserved(o) PROVE holder'[k] = o /\ ~conn'[k]
      OBVIOUS
    <2>1. holder[k] = o /\ ~conn[k]
      BY <1>2 DEF HoldsItsLocks
    <2>2. k \in Levels /\ k \in 0..Depth
      BY <1>5, DepthAssumption DEF Levels
    <2> QED BY <1>2, <2>1, <2>2 DEF OthersStay
  <1>7. at[o] = "dial" /\ level[o] = 0 => holder'[0] = o /\ dest[o] \notin fwd'
    <2> SUFFICES ASSUME at[o] = "dial", level[o] = 0
                 PROVE holder'[0] = o /\ dest[o] \notin fwd'
      OBVIOUS
    <2>1. holder[0] = o /\ dest[o] \notin fwd
      BY <1>2 DEF HoldsItsLocks
    <2>2. 0 \in 0..Depth
      BY DepthAssumption
    <2> QED BY <1>2, <2>1, <2>2 DEF OthersStay
  <1> QED
    BY <1>1, <1>2, <1>4, <1>6, <1>7 DEF HoldsItsLocks

(* Where t goes.                                                           *)
LEMMA GoesTyped ==
  ASSUME TypeOK, NEW t \in Tasks,
         NEW where \in {"idle", "lock", "dial", "undo", "closing"},
         NEW l \in 0..Depth, NEW recorded \in [Levels -> Nat],
         Goes(t, where, l, recorded)
  PROVE /\ at' \in [Tasks -> {"idle", "lock", "dial", "undo", "closing"}]
        /\ level' \in [Tasks -> 0..Depth]
        /\ rec' \in [Tasks -> [Levels -> Nat]]
        /\ at'[t] = where /\ level'[t] = l
        /\ \A o \in Tasks \ {t} : at'[o] = at[o] /\ level'[o] = level[o]
  BY DEF Goes, TypeOK

LEMMA ReleasedLocks ==
  ASSUME TypeOK, NEW t \in Tasks
  PROVE /\ Released(t) \in [0..Depth -> Tasks \cup {NoTask}]
        /\ \A k \in 0..Depth : holder[k] # t => Released(t)[k] = holder[k]
  BY DEF Released, TypeOK

(* A task that has left holds nothing.                                     *)
LEMMA LeavesHolds ==
  ASSUME TypeOK, NEW t \in Tasks, Leaves(t)
  PROVE OthersStay(t) /\ PlaceTyped /\ HoldsItsLocks(t)'
  <1>1. Unrecorded \in [Levels -> Nat] /\ 0 \in 0..Depth
    BY DepthAssumption DEF Unrecorded
  <1>2. Goes(t, "idle", 0, Unrecorded) /\ holder' = Released(t)
        /\ dest' = [dest EXCEPT ![t] = NoDest]
    BY DEF Leaves
  <1>3. /\ at' \in [Tasks -> {"idle", "lock", "dial", "undo", "closing"}]
        /\ level' \in [Tasks -> 0..Depth]
        /\ rec' \in [Tasks -> [Levels -> Nat]]
        /\ at'[t] = "idle" /\ level'[t] = 0
        /\ \A o \in Tasks \ {t} : at'[o] = at[o] /\ level'[o] = level[o]
    BY <1>1, <1>2, GoesTyped
  <1>4. /\ dest' \in [Tasks -> Dests \cup {NoDest}]
        /\ \A o \in Tasks \ {t} : dest'[o] = dest[o]
    BY <1>2 DEF TypeOK
  <1>5. OthersStay(t) /\ PlaceTyped
    BY <1>2, <1>3, <1>4, ReleasedLocks DEF OthersStay, PlaceTyped
  <1>6. HoldsItsLocks(t)'
    BY <1>3 DEF HoldsItsLocks, Reserved
  <1> QED BY <1>5, <1>6

(* A task that has its tunnel holds the forward lock or nothing.           *)
LEMMA HasTunnelHolds ==
  ASSUME TypeOK, NEW t \in Tasks, NEW d \in Dests \cup {NoDest},
         NEW recorded \in [Levels -> Nat], HasTunnel(t, d, recorded), fwd' = fwd
  PROVE OthersStay(t) /\ PlaceTyped /\ HoldsItsLocks(t)'
  <1>1. CASE d = NoDest \/ (~Contended(0) /\ d \in fwd)
    BY <1>1, LeavesHolds DEF HasTunnel
  <1>2. CASE ~(d = NoDest \/ (~Contended(0) /\ d \in fwd))
    <2> DEFINE where == IF Contended(0) THEN "lock" ELSE "dial"
    <2>1. /\ Goes(t, where, 0, recorded)
          /\ dest' = [dest EXCEPT ![t] = d]
          /\ holder' = IF Contended(0) THEN Released(t)
                                       ELSE [Released(t) EXCEPT ![0] = t]
      BY <1>2 DEF HasTunnel
    <2>2. /\ where \in {"idle", "lock", "dial", "undo", "closing"}
          /\ where = "lock" \/ where = "dial"
          /\ 0 \in 0..Depth
      BY DepthAssumption
    <2>3. where = "dial" => ~Contended(0)
      OBVIOUS
    <2> HIDE DEF where
    <2>4. /\ at' \in [Tasks -> {"idle", "lock", "dial", "undo", "closing"}]
          /\ level' \in [Tasks -> 0..Depth]
          /\ rec' \in [Tasks -> [Levels -> Nat]]
          /\ at'[t] = where /\ level'[t] = 0
          /\ \A o \in Tasks \ {t} : at'[o] = at[o] /\ level'[o] = level[o]
      BY <2>1, <2>2, GoesTyped
    <2>5. /\ dest' \in [Tasks -> Dests \cup {NoDest}]
          /\ dest'[t] = d /\ d \in Dests
          /\ \A o \in Tasks \ {t} : dest'[o] = dest[o]
      BY <1>2, <2>1 DEF TypeOK
    <2>6. /\ holder' \in [0..Depth -> Tasks \cup {NoTask}]
          /\ \A k \in 0..Depth : holder[k] # t /\ holder[k] # NoTask => holder'[k] = holder[k]
          /\ where = "dial" => holder'[0] = t
      <3>1. CASE Contended(0)
        BY <2>1, <2>3, <3>1, ReleasedLocks
      <3>2. CASE ~Contended(0)
        <4>1. holder' = [Released(t) EXCEPT ![0] = t] /\ holder[0] = NoTask
          BY <2>1, <3>2 DEF Contended
        <4> QED BY <2>2, <4>1, ReleasedLocks
      <3> QED BY <3>1, <3>2
    <2>7. where = "dial" => d \notin fwd'
      BY <1>2, <2>3
    <2>8. Reserved(t)' = {}
      BY <2>2, <2>4 DEF Reserved, Levels
    <2> QED
      BY <2>4, <2>5, <2>6, <2>7, <2>8 DEF OthersStay, PlaceTyped, HoldsItsLocks
  <1> QED BY <1>1, <1>2

(* A task on its way up the chain from level l holds the locks below l and *)
(* takes those it passes, none of which has a tunnel.                      *)
LEMMA DescendHolds ==
  ASSUME IInv, NEW t \in Tasks, NEW l \in 1..(Depth + 1),
         NEW mine, mine \subseteq Levels,
         \A k \in mine : holder[k] = NoTask,
         \A k \in Levels : k < l => (k \in mine \/ holder[k] = t) /\ ~conn[k],
         l = 1 => ~conn[1],
         NEW recorded \in [Levels -> Nat],
         Descend(t, l, mine, recorded), conn' = conn,
         dest' \in [Tasks -> Dests \cup {NoDest}],
         \A o \in Tasks \ {t} : dest'[o] = dest[o]
  PROVE OthersStay(t) /\ PlaceTyped /\ HoldsItsLocks(t)'
  <1> DEFINE
        span == {k \in l..Depth : \A j \in l..Depth : j < k => ~Stops(j)}
        wanted == {k \in span : ~conn[k]}
        blocked == {k \in wanted : Contended(k)}
        now == [k \in Levels |-> IF k \in wanted THEN gen[k] ELSE recorded[k]]
        passed == mine \cup (wanted \ blocked)
  <1>1. /\ holder' = [k \in 0..Depth |-> IF k \in passed THEN t ELSE holder[k]]
        /\ \/ \E k \in blocked : Goes(t, "lock", k, now)
           \/ blocked = {} /\ \E k \in span : conn[k] /\ Goes(t, "dial", k - 1, now)
           \/ blocked = {} /\ wanted = l..Depth /\ Goes(t, "dial", Depth, now)
    BY DEF Descend
  <1>2. TypeOK /\ now \in [Levels -> Nat]
    BY DEF IInv, TypeOK
  <1>3. l \in Nat /\ l >= 1 /\ Depth \in Nat /\ Depth >= 1
    BY DepthAssumption
  <1>4. \A k \in passed : k \in Levels /\ k \in 0..Depth /\ holder[k] = NoTask
    BY <1>3 DEF Levels, Contended
  <1>5. /\ holder' \in [0..Depth -> Tasks \cup {NoTask}]
        /\ \A k \in 0..Depth : holder[k] # t /\ holder[k] # NoTask => holder'[k] = holder[k]
    BY <1>1, <1>2, <1>4 DEF TypeOK
  (* The levels from l to j are passed if none of them stops the task.     *)
  <1>6. \A j \in span : \A i \in l..Depth : i < j => i \in passed /\ ~conn[i]
    BY <1>3 DEF Stops
  <1>7. \A k \in Levels : k < l \/ k \in passed => holder'[k] = t
    <2> SUFFICES ASSUME NEW k \in Levels, k < l \/ k \in passed PROVE holder'[k] = t
      OBVIOUS
    <2>1. k \in 0..Depth
      BY <1>3 DEF Levels
    <2> QED BY <1>1, <2>1
  (* It stops at level m: everything below is passed and has no tunnel.    *)
  <1>8. PICK m \in 1..Depth, where \in {"lock", "dial"} :
          /\ Goes(t, where, m, now)
          /\ \A i \in l..Depth : i < m => i \in passed /\ ~conn[i]
          /\ where = "dial" /\ m \in l..Depth => m \in passed /\ ~conn[m]
    <2>1. CASE \E k \in blocked : Goes(t, "lock", k, now)
      BY <1>3, <1>6, <2>1
    <2>2. CASE blocked = {} /\ \E k \in span : conn[k] /\ Goes(t, "dial", k - 1, now)
      <3>1. PICK k \in span : conn[k] /\ Goes(t, "dial", k - 1, now)
        BY <2>2
      <3>2. k \in Nat /\ k >= l /\ k <= Depth /\ k # 1
        BY <1>3, <3>1
      <3>3. k - 1 \in 1..Depth /\ k - 1 < k
        BY <1>3, <3>2
      <3>4. \A i \in l..Depth : i < k => i \in passed /\ ~conn[i]
        BY <1>6, <3>1
      <3>5. \A i \in l..Depth : i < k - 1 => i \in passed /\ ~conn[i]
        BY <1>3, <3>2, <3>4
      <3> HIDE DEF passed, now, span
      <3> QED BY <3>1, <3>3, <3>4, <3>5
    <2>3. CASE blocked = {} /\ wanted = l..Depth /\ Goes(t, "dial", Depth, now)
      BY <1>3, <2>3
    <2> QED BY <1>1, <2>1, <2>2, <2>3
  <1> HIDE DEF now
  <1>9. /\ where \in {"idle", "lock", "dial", "undo", "closing"}
        /\ m \in 0..Depth
    BY <1>3
  <1>10. /\ at' \in [Tasks -> {"idle", "lock", "dial", "undo", "closing"}]
         /\ level' \in [Tasks -> 0..Depth]
         /\ rec' \in [Tasks -> [Levels -> Nat]]
         /\ at'[t] = where /\ level'[t] = m
         /\ \A o \in Tasks \ {t} : at'[o] = at[o] /\ level'[o] = level[o]
    BY <1>2, <1>8, <1>9, GoesTyped
  <1>11. OthersStay(t) /\ PlaceTyped
    BY <1>5, <1>10 DEF OthersStay, PlaceTyped
  <1> HIDE DEF passed
  <1>12. \A k \in Reserved(t)' : holder'[k] = t /\ ~conn'[k]
    <2> SUFFICES ASSUME NEW k \in Reserved(t)' PROVE holder'[k] = t /\ ~conn'[k]
      OBVIOUS
    <2>1. k \in Levels /\ (k < m \/ (where = "dial" /\ k = m))
      BY <1>3, <1>8, <1>10 DEF Reserved, Levels
    <2>2. k \in Nat /\ k >= 1 /\ k <= Depth
      BY <1>3, <2>1 DEF Levels
    <2>3. CASE k < l
      BY <1>7, <2>1, <2>3
    <2>4. CASE k >= l
      <3>1. k \in l..Depth
        BY <1>3, <2>2, <2>4
      <3>2. k \in passed /\ ~conn[k]
        BY <1>8, <2>1, <3>1
      <3> QED BY <1>7, <2>1, <3>2
    <2> QED BY <1>3, <2>2, <2>3, <2>4
  <1>13. level'[t] # 0
    BY <1>8, <1>10
  <1> QED BY <1>11, <1>12, <1>13 DEF HoldsItsLocks

----------------------------------------------------------------------------
(* The parts of IInv' every step of a task shares.                         *)
DataTyped ==
    /\ gen' \in [Levels -> Nat]
    /\ conn' \in [Levels -> BOOLEAN]
    /\ fwd' \subseteq Dests
    /\ open' \in [Levels -> Nat]
    /\ listening' \in Nat
    /\ used' \in BOOLEAN /\ stray' \in BOOLEAN
    /\ closes' \in 0..MaxCloses

LEMMA Assemble ==
  ASSUME IInv, NEW t \in Tasks, OthersStay(t), PlaceTyped, HoldsItsLocks(t)',
         \A k \in Levels : conn'[k] => conn[k] \/ holder[k] = t,
         \A d \in fwd' : d \in fwd \/ holder[0] = t,
         DataTyped, OpenIsStored'
  PROVE IInv'
  <1>1. \A o \in Tasks \ {t} : HoldsItsLocks(o)'
    BY OthersHold
  <1>2. TypeOK'
    BY DEF PlaceTyped, DataTyped, TypeOK
  <1> QED BY <1>1, <1>2 DEF IInv

(* A step that leaves tunnels and listeners alone.                         *)
LEMMA AssembleUnchanged ==
  ASSUME IInv, NEW t \in Tasks, OthersStay(t), PlaceTyped, HoldsItsLocks(t)',
         UNCHANGED <<gen, conn, open, fwd, listening>>,
         used' \in BOOLEAN, stray' \in BOOLEAN, closes' = closes
  PROVE IInv'
  <1>1. DataTyped
    BY DEF IInv, TypeOK, DataTyped
  <1>2. OpenIsStored'
    BY DEF IInv, OpenIsStored
  <1>3. /\ \A k \in Levels : conn'[k] => conn[k] \/ holder[k] = t
        /\ \A d \in fwd' : d \in fwd \/ holder[0] = t
    OBVIOUS
  <1> QED BY <1>1, <1>2, <1>3, Assemble

LEMMA CallKeeps ==
  ASSUME IInv, NEW t \in Tasks, NEW d \in Dests \cup {NoDest}, Call(t, d)
  PROVE IInv'
  <1> DEFINE recorded == [Unrecorded EXCEPT ![1] = gen[1]]
  <1>1. /\ IF d \in fwd THEN Leaves(t)
           ELSE IF conn[1] THEN HasTunnel(t, d, recorded)
           ELSE Descend(t, 1, {}, recorded) /\ dest' = [dest EXCEPT ![t] = d]
        /\ UNCHANGED <<gen, conn, open, fwd, listening, stray, closes>>
        /\ used' = TRUE
    BY DEF Call, resources, forwards
  <1>2. recorded \in [Levels -> Nat] /\ TypeOK
    BY DepthAssumption DEF IInv, TypeOK, Unrecorded, Levels
  <1> HIDE DEF recorded
  <1>3. OthersStay(t) /\ PlaceTyped /\ HoldsItsLocks(t)'
    <2>1. CASE d \in fwd
      BY <1>1, <1>2, <2>1, LeavesHolds
    <2>2. CASE d \notin fwd /\ conn[1]
      BY <1>1, <1>2, <2>2, HasTunnelHolds
    <2>3. CASE d \notin fwd /\ ~conn[1]
      <3>1. Descend(t, 1, {}, recorded) /\ dest' = [dest EXCEPT ![t] = d] /\ conn' = conn
        BY <1>1, <2>3
      <3>2. /\ dest' \in [Tasks -> Dests \cup {NoDest}]
            /\ \A o \in Tasks \ {t} : dest'[o] = dest[o]
        BY <1>2, <3>1 DEF TypeOK
      <3>3. 1 \in 1..(Depth + 1) /\ {} \subseteq Levels /\ \A k \in Levels : ~(k < 1)
        BY DepthAssumption DEF Levels
      <3> QED BY <1>2, <2>3, <3>1, <3>2, <3>3, DescendHolds
    <2> QED BY <2>1, <2>2, <2>3
  <1>4. used' \in BOOLEAN /\ stray' \in BOOLEAN
    BY <1>1, <1>2 DEF TypeOK
  <1> QED BY <1>1, <1>3, <1>4, AssembleUnchanged

LEMMA TakesLockKeeps ==
  ASSUME IInv, NEW t \in Tasks, TakesLock(t)
  PROVE IInv'
  <1> DEFINE l == level[t]
  <1>1. /\ at[t] = "lock"
        /\ holder[l] = NoTask
        /\ IF l = 0
           THEN IF dest[t] \in fwd THEN Leaves(t)
                ELSE /\ Goes(t, "dial", 0, rec[t])
                     /\ holder' = [holder EXCEPT ![0] = t]
                     /\ UNCHANGED dest
           ELSE IF conn[l]
           THEN IF l = 1 THEN HasTunnel(t, dest[t], rec[t])
                ELSE Goes(t, "dial", l - 1, rec[t]) /\ UNCHANGED <<holder, dest>>
           ELSE Descend(t, l + 1, {l}, rec[t]) /\ UNCHANGED dest
        /\ UNCHANGED <<gen, conn, open, fwd, listening, used, stray, closes>>
    BY DEF TakesLock, resources, forwards, history
  <1>2. /\ TypeOK /\ HoldsItsLocks(t)
        /\ rec[t] \in [Levels -> Nat]
        /\ dest[t] \in Dests \cup {NoDest}
        /\ l \in 0..Depth /\ Depth \in Nat
    BY DepthAssumption DEF IInv, TypeOK
  <1>3. \A k \in Levels : k < l => holder[k] = t /\ ~conn[k]
    BY <1>1, <1>2 DEF HoldsItsLocks, Reserved
  <1> HIDE DEF l
  <1>4. OthersStay(t) /\ PlaceTyped /\ HoldsItsLocks(t)'
    <2>1. CASE l = 0 /\ dest[t] \in fwd
      BY <1>1, <1>2, <2>1, LeavesHolds
    <2>2. CASE l = 0 /\ dest[t] \notin fwd
      <3>1. Goes(t, "dial", 0, rec[t]) /\ holder' = [holder EXCEPT ![0] = t] /\ dest' = dest
        BY <1>1, <2>2
      <3>2. 0 \in 0..Depth /\ holder[0] = NoTask
        BY <1>1, <1>2, <2>2
      <3>3. dest[t] \in Dests
        BY <1>1, <1>2, <2>2 DEF HoldsItsLocks, l
      <3>4. /\ at' \in [Tasks -> {"idle", "lock", "dial", "undo", "closing"}]
            /\ level' \in [Tasks -> 0..Depth]
            /\ rec' \in [Tasks -> [Levels -> Nat]]
            /\ at'[t] = "dial" /\ level'[t] = 0
            /\ \A o \in Tasks \ {t} : at'[o] = at[o] /\ level'[o] = level[o]
        BY <1>2, <3>1, <3>2, GoesTyped
      <3>5. /\ holder' \in [0..Depth -> Tasks \cup {NoTask}]
            /\ holder'[0] = t
            /\ \A k \in 0..Depth : holder[k] # t /\ holder[k] # NoTask => holder'[k] = holder[k]
        BY <1>2, <3>1, <3>2 DEF TypeOK
      <3>6. Reserved(t)' = {}
        BY <3>4 DEF Reserved
      <3>7. OthersStay(t) /\ PlaceTyped
        BY <1>2, <3>1, <3>4, <3>5 DEF OthersStay, PlaceTyped, TypeOK
      <3>8. fwd' = fwd
        BY <1>1
      <3> QED BY <2>2, <3>1, <3>3, <3>4, <3>5, <3>6, <3>7, <3>8 DEF HoldsItsLocks
    <2>3. CASE l = 1 /\ conn[l]
      BY <1>1, <1>2, <2>3, HasTunnelHolds
    <2>4. CASE l # 0 /\ l # 1 /\ conn[l]
      <3>1. Goes(t, "dial", l - 1, rec[t]) /\ holder' = holder /\ dest' = dest /\ conn' = conn
        BY <1>1, <2>4
      <3>2. l - 1 \in 0..Depth /\ l - 1 # 0
        BY <1>2, <2>4
      <3>3. /\ at' \in [Tasks -> {"idle", "lock", "dial", "undo", "closing"}]
            /\ level' \in [Tasks -> 0..Depth]
            /\ rec' \in [Tasks -> [Levels -> Nat]]
            /\ at'[t] = "dial" /\ level'[t] = l - 1
            /\ \A o \in Tasks \ {t} : at'[o] = at[o] /\ level'[o] = level[o]
        BY <1>2, <3>1, <3>2, GoesTyped
      <3>4. OthersStay(t) /\ PlaceTyped
        BY <1>2, <3>1, <3>3 DEF OthersStay, PlaceTyped, TypeOK
      <3>5. \A k \in Reserved(t)' : k \in Levels /\ k < l
        BY <1>2, <3>2, <3>3 DEF Reserved, Levels
      <3> QED BY <1>3, <3>1, <3>2, <3>3, <3>4, <3>5 DEF HoldsItsLocks
    <2>5. CASE l # 0 /\ ~conn[l]
      <3>1. Descend(t, l + 1, {l}, rec[t]) /\ dest' = dest /\ conn' = conn
        BY <1>1, <2>5
      <3>2. l + 1 \in 1..(Depth + 1) /\ {l} \subseteq Levels /\ l + 1 # 1
        BY <1>2, <2>5 DEF Levels
      <3>3. \A k \in Levels : k < l + 1 => (k \in {l} \/ holder[k] = t) /\ ~conn[k]
        BY <1>2, <1>3, <2>5 DEF Levels
      <3>4. dest' \in [Tasks -> Dests \cup {NoDest}] /\ \A o \in Tasks \ {t} : dest'[o] = dest[o]
        BY <1>2, <3>1 DEF TypeOK
      <3>5. \A k \in {l} : holder[k] = NoTask
        BY <1>1
      <3> QED BY <1>2, <3>1, <3>2, <3>3, <3>4, <3>5, DescendHolds
    <2> QED BY <2>1, <2>2, <2>3, <2>4, <2>5
  <1>5. used' \in BOOLEAN /\ stray' \in BOOLEAN
    BY <1>1, <1>2 DEF TypeOK
  <1> QED BY <1>1, <1>4, <1>5, AssembleUnchanged

LEMMA DialledKeeps ==
  ASSUME IInv, NEW t \in Tasks, Dialled(t)
  PROVE IInv'
  <1> DEFINE l == level[t]
  <1>1. /\ at[t] = "dial" /\ l # 0
        /\ IF rec[t][l] # gen[l]
           THEN /\ Goes(t, "undo", l, rec[t])
                /\ UNCHANGED <<conn, open, holder, dest>>
           ELSE /\ conn' = [conn EXCEPT ![l] = TRUE]
                /\ open' = [open EXCEPT ![l] = @ + 1]
                /\ IF l = 1
                   THEN HasTunnel(t, dest[t], rec[t])
                   ELSE /\ Goes(t, "dial", l - 1, rec[t])
                        /\ holder' = [holder EXCEPT ![l] = NoTask]
                        /\ UNCHANGED dest
        /\ UNCHANGED <<gen, fwd, listening, used, stray, closes>>
    BY DEF Dialled, forwards, history
  <1>2. /\ TypeOK /\ OpenIsStored /\ HoldsItsLocks(t)
        /\ rec[t] \in [Levels -> Nat]
        /\ dest[t] \in Dests \cup {NoDest}
        /\ l \in 0..Depth /\ Depth \in Nat
    BY DepthAssumption DEF IInv, TypeOK
  <1>3. \A k \in 1..l : holder[k] = t /\ ~conn[k]
    BY <1>1, <1>2 DEF HoldsItsLocks, Reserved
  <1> HIDE DEF l
  <1>4. l \in Levels /\ holder[l] = t /\ ~conn[l] /\ open[l] = 0
    BY <1>1, <1>2, <1>3 DEF OpenIsStored, Levels
  <1>5. CASE rec[t][l] # gen[l]
    <2>1. Goes(t, "undo", l, rec[t]) /\ UNCHANGED <<conn, open, holder, dest>>
      BY <1>1, <1>5
    <2>2. /\ at' \in [Tasks -> {"idle", "lock", "dial", "undo", "closing"}]
          /\ level' \in [Tasks -> 0..Depth]
          /\ rec' \in [Tasks -> [Levels -> Nat]]
          /\ at'[t] = "undo" /\ level'[t] = l
          /\ \A o \in Tasks \ {t} : at'[o] = at[o] /\ level'[o] = level[o]
      BY <1>2, <2>1, GoesTyped
    <2>3. OthersStay(t) /\ PlaceTyped
      BY <1>2, <2>1, <2>2 DEF OthersStay, PlaceTyped, TypeOK
    <2>4. HoldsItsLocks(t)'
      BY <2>2 DEF HoldsItsLocks, Reserved
    <2>5. used' \in BOOLEAN /\ stray' \in BOOLEAN
      BY <1>1, <1>2 DEF TypeOK
    <2> QED BY <1>1, <2>1, <2>3, <2>4, <2>5, AssembleUnchanged
  <1>6. CASE rec[t][l] = gen[l]
    <2>1. /\ conn' = [conn EXCEPT ![l] = TRUE]
          /\ open' = [open EXCEPT ![l] = @ + 1]
          /\ fwd' = fwd
      BY <1>1, <1>6
    <2>2. DataTyped
      BY <1>1, <1>2, <1>4, <2>1 DEF TypeOK, DataTyped
    <2>3. OpenIsStored'
      <3>1. \A k \in Levels : open'[k] = IF conn'[k] THEN 1 ELSE 0
        BY <1>2, <1>4, <2>1 DEF TypeOK, OpenIsStored
      <3> QED BY <1>1, <1>2, <3>1 DEF OpenIsStored
    <2>4. \A k \in Levels : conn'[k] => conn[k] \/ holder[k] = t
      BY <1>2, <1>4, <2>1 DEF TypeOK
    <2>5. OthersStay(t) /\ PlaceTyped /\ HoldsItsLocks(t)'
      <3>1. CASE l = 1
        BY <1>1, <1>2, <1>6, <2>1, <3>1, HasTunnelHolds
      <3>2. CASE l # 1
        <4>1. Goes(t, "dial", l - 1, rec[t]) /\ holder' = [holder EXCEPT ![l] = NoTask] /\ dest' = dest
          BY <1>1, <1>6, <3>2
        <4>2. l - 1 \in 0..Depth /\ l - 1 # 0 /\ l \in 0..Depth
          BY <1>1, <1>2, <3>2
        <4>3. /\ at' \in [Tasks -> {"idle", "lock", "dial", "undo", "closing"}]
              /\ level' \in [Tasks -> 0..Depth]
              /\ rec' \in [Tasks -> [Levels -> Nat]]
              /\ at'[t] = "dial" /\ level'[t] = l - 1
              /\ \A o \in Tasks \ {t} : at'[o] = at[o] /\ level'[o] = level[o]
          BY <1>2, <4>1, <4>2, GoesTyped
        <4>4. /\ holder' \in [0..Depth -> Tasks \cup {NoTask}]
              /\ \A k \in 0..Depth : k # l => holder'[k] = holder[k]
          BY <1>2, <4>1 DEF TypeOK
        <4>5. OthersStay(t) /\ PlaceTyped
          BY <1>2, <1>4, <4>1, <4>3, <4>4 DEF OthersStay, PlaceTyped, TypeOK
        <4>6. \A k \in Reserved(t)' : k \in Levels /\ k \in 0..Depth /\ k \in 1..l /\ k # l
          BY <1>2, <4>2, <4>3 DEF Reserved, Levels
        <4>7. \A k \in Reserved(t)' : holder'[k] = t /\ ~conn'[k]
          BY <1>2, <1>3, <2>1, <4>4, <4>6 DEF TypeOK
        <4> QED BY <4>2, <4>3, <4>5, <4>7 DEF HoldsItsLocks
      <3> QED BY <3>1, <3>2
    <2>6. \A d \in fwd' : d \in fwd \/ holder[0] = t
      BY <2>1
    <2> QED BY <2>2, <2>3, <2>4, <2>5, <2>6, Assemble
  <1> QED BY <1>5, <1>6

(* Cardinalities of the set of stored listeners.                           *)
LEMMA ForwardsCount ==
  ASSUME TypeOK
  PROVE /\ Cardinality(fwd) \in Nat
        /\ Cardinality({}) = 0
        /\ \A d \in Dests \ fwd : Cardinality(fwd \cup {d}) = Cardinality(fwd) + 1
        /\ \A d \in fwd : Cardinality(fwd \ {d}) = Cardinality(fwd) - 1
  <1>1. IsFiniteSet(fwd)
    BY DestsAssumption, FS_Subset DEF TypeOK
  <1>2. \A d : IsFiniteSet(fwd \cup {d})
    BY <1>1, FS_AddElement
  <1> QED BY <1>1, <1>2, FS_CardinalityType, FS_EmptySet, FS_AddElement, FS_RemoveElement

LEMMA BoundKeeps ==
  ASSUME IInv, NEW t \in Tasks, Bound(t)
  PROVE IInv'
  <1>1. /\ at[t] = "dial" /\ level[t] = 0
        /\ \/ fwd' = fwd \cup {dest[t]} /\ listening' = listening + 1
           \/ fwd' = fwd /\ listening' = listening
        /\ Leaves(t)
        /\ UNCHANGED <<gen, conn, open, used, stray, closes>>
    BY DEF Bound, resources, forwards, history
  <1>2. TypeOK /\ OpenIsStored /\ HoldsItsLocks(t)
    BY DEF IInv
  <1>3. holder[0] = t /\ dest[t] \notin fwd /\ dest[t] \in Dests
    BY <1>1, <1>2 DEF HoldsItsLocks
  <1>4. OthersStay(t) /\ PlaceTyped /\ HoldsItsLocks(t)'
    BY <1>1, <1>2, LeavesHolds
  <1>5. listening' = Cardinality(fwd')
    BY <1>1, <1>2, <1>3, ForwardsCount DEF OpenIsStored
  <1>6. OpenIsStored'
    BY <1>1, <1>2, <1>5 DEF OpenIsStored
  <1>7. DataTyped
    BY <1>1, <1>2, <1>3 DEF TypeOK, DataTyped
  <1>8. /\ \A k \in Levels : conn'[k] => conn[k] \/ holder[k] = t
        /\ \A d \in fwd' : d \in fwd \/ holder[0] = t
    BY <1>1, <1>3
  <1> QED BY <1>4, <1>6, <1>7, <1>8, Assemble

(* What a close takes from a level it also closes.                         *)
LEMMA EndLevelsKeeps ==
  ASSUME IInv, NEW t \in Tasks, NEW k \in 1..(Depth + 1), EndLevels(t, k)
  PROVE /\ OthersStay(t) /\ PlaceTyped /\ HoldsItsLocks(t)'
        /\ gen' \in [Levels -> Nat]
        /\ conn' \in [Levels -> BOOLEAN]
        /\ open' \in [Levels -> Nat]
        /\ \A l \in Levels : open'[l] = IF conn'[l] THEN 1 ELSE 0
        /\ \A l \in Levels : conn'[l] => conn[l]
  <1> DEFINE span == {l \in k..Depth : \A j \in k..Depth : j < l => ~conn[j]}
             hit == {l \in span : conn[l]}
  <1>1. /\ gen' = [l \in Levels |-> IF l \in span THEN gen[l] + 1 ELSE gen[l]]
        /\ conn' = [l \in Levels |-> conn[l] /\ l \notin hit]
        /\ open' = [l \in Levels |-> IF l \in hit THEN open[l] - 1 ELSE open[l]]
        /\ \/ hit = {} /\ Leaves(t)
           \/ \E l \in hit : Goes(t, "closing", l, rec[t]) /\ UNCHANGED <<holder, dest>>
    BY DEF EndLevels
  <1>2. TypeOK /\ OpenIsStored /\ rec[t] \in [Levels -> Nat]
    BY DEF IInv, TypeOK
  <1>3. \A l \in hit : l \in Levels /\ l \in 0..Depth /\ conn[l]
    BY DepthAssumption DEF Levels
  <1> HIDE DEF hit, span
  <1>4. gen' \in [Levels -> Nat]
    BY <1>1, <1>2 DEF TypeOK
  <1>5. conn' \in [Levels -> BOOLEAN] /\ \A l \in Levels : conn'[l] => conn[l]
    BY <1>1, <1>2, Zenon DEF TypeOK
  <1>6. /\ open' \in [Levels -> Nat]
        /\ \A l \in Levels : open'[l] = IF conn'[l] THEN 1 ELSE 0
    <2>1. \A l \in Levels : /\ open[l] = IF conn[l] THEN 1 ELSE 0
                            /\ conn'[l] <=> conn[l] /\ l \notin hit
                            /\ open'[l] = IF l \in hit THEN open[l] - 1 ELSE open[l]
      BY <1>1, <1>2, Zenon DEF OpenIsStored
    <2>2. \A l \in Levels : open'[l] = IF conn'[l] THEN 1 ELSE 0
      BY <1>3, <2>1
    <2>3. DOMAIN open' = Levels /\ open' = [l \in Levels |-> open'[l]]
      BY <1>1
    <2> QED BY <2>2, <2>3
  <1>7. OthersStay(t) /\ PlaceTyped /\ HoldsItsLocks(t)'
    <2>1. CASE Leaves(t)
      BY <1>2, <2>1, LeavesHolds
    <2>2. CASE \E l \in hit : Goes(t, "closing", l, rec[t]) /\ UNCHANGED <<holder, dest>>
      <3>1. PICK l \in hit : Goes(t, "closing", l, rec[t]) /\ UNCHANGED <<holder, dest>>
        BY <2>2
      <3>2. /\ at' \in [Tasks -> {"idle", "lock", "dial", "undo", "closing"}]
            /\ level' \in [Tasks -> 0..Depth]
            /\ rec' \in [Tasks -> [Levels -> Nat]]
            /\ at'[t] = "closing" /\ level'[t] = l
            /\ \A o \in Tasks \ {t} : at'[o] = at[o] /\ level'[o] = level[o]
        BY <1>2, <1>3, <3>1, GoesTyped
      <3>3. OthersStay(t) /\ PlaceTyped
        BY <1>2, <3>1, <3>2 DEF OthersStay, PlaceTyped, TypeOK
      <3> QED BY <3>2, <3>3 DEF HoldsItsLocks, Reserved
    <2> QED BY <1>1, <2>1, <2>2
  <1> QED BY <1>4, <1>5, <1>6, <1>7

LEMMA CloseKeeps ==
  ASSUME IInv, NEW t \in Tasks, Close(t)
  PROVE IInv'
  <1>1. /\ closes < MaxCloses /\ closes' = closes + 1
        /\ used' = FALSE /\ stray' = FALSE
        /\ fwd' = {} /\ listening' = listening - Cardinality(fwd)
        /\ EndLevels(t, 1)
    BY DEF Close
  <1>2. TypeOK /\ listening = Cardinality(fwd)
    BY DEF IInv, OpenIsStored
  <1>3. 1 \in 1..(Depth + 1)
    BY DepthAssumption
  <1>4. /\ OthersStay(t) /\ PlaceTyped /\ HoldsItsLocks(t)'
        /\ gen' \in [Levels -> Nat]
        /\ conn' \in [Levels -> BOOLEAN]
        /\ open' \in [Levels -> Nat]
        /\ \A l \in Levels : open'[l] = IF conn'[l] THEN 1 ELSE 0
        /\ \A l \in Levels : conn'[l] => conn[l]
    BY <1>1, <1>3, EndLevelsKeeps
  <1>5. listening' = 0 /\ listening' = Cardinality(fwd')
    BY <1>1, <1>2, ForwardsCount
  <1>6. closes' \in 0..MaxCloses
    BY <1>1, <1>2, MaxClosesAssumption DEF TypeOK
  <1>7. DataTyped
    <2>1. fwd' \subseteq Dests /\ used' \in BOOLEAN /\ stray' \in BOOLEAN
      BY <1>1
    <2>2. listening' \in Nat
      BY <1>5
    <2> QED BY <1>4, <1>6, <2>1, <2>2, Zenon DEF DataTyped
  <1>8. OpenIsStored'
    BY <1>4, <1>5 DEF OpenIsStored
  <1>9. \A d \in fwd' : d \in fwd \/ holder[0] = t
    BY <1>1
  <1> QED BY <1>4, <1>7, <1>8, <1>9, Assemble

LEMMA TornDownKeeps ==
  ASSUME IInv, NEW t \in Tasks, TornDown(t)
  PROVE IInv'
  <1>1. EndLevels(t, level[t] + 1)
        /\ UNCHANGED <<fwd, listening, used, stray, closes>>
    BY DEF TornDown, forwards, history
  <1>2. TypeOK /\ OpenIsStored
    BY DEF IInv
  <1>3. level[t] + 1 \in 1..(Depth + 1)
    BY <1>2, DepthAssumption DEF TypeOK
  <1>4. /\ OthersStay(t) /\ PlaceTyped /\ HoldsItsLocks(t)'
        /\ gen' \in [Levels -> Nat]
        /\ conn' \in [Levels -> BOOLEAN]
        /\ open' \in [Levels -> Nat]
        /\ \A l \in Levels : open'[l] = IF conn'[l] THEN 1 ELSE 0
        /\ \A l \in Levels : conn'[l] => conn[l]
    BY <1>1, <1>3, EndLevelsKeeps
  <1>5. DataTyped
    BY <1>1, <1>2, <1>4 DEF TypeOK, DataTyped
  <1>6. OpenIsStored'
    BY <1>1, <1>2, <1>4 DEF OpenIsStored
  <1>7. \A d \in fwd' : d \in fwd \/ holder[0] = t
    BY <1>1
  <1> QED BY <1>4, <1>5, <1>6, <1>7, Assemble

LEMMA FailsKeeps ==
  ASSUME IInv, NEW t \in Tasks, Fails(t)
  PROVE IInv'
  <1>1. Leaves(t) /\ UNCHANGED <<gen, conn, open, fwd, listening, used, closes>>
    BY DEF Fails, resources, forwards
  <1>2. TypeOK
    BY DEF IInv
  <1>3. stray' \in BOOLEAN
    BY DEF Fails
  <1>4. used' \in BOOLEAN
    BY <1>1, <1>2 DEF TypeOK
  <1>5. OthersStay(t) /\ PlaceTyped /\ HoldsItsLocks(t)'
    BY <1>1, <1>2, LeavesHolds
  <1> QED BY <1>1, <1>3, <1>4, <1>5, AssembleUnchanged

LEMMA UnforwardKeeps ==
  ASSUME IInv, NEW d \in Dests, Unforward(d)
  PROVE IInv'
  <1>1. /\ d \in fwd /\ fwd' = fwd \ {d} /\ listening' = listening - 1
        /\ UNCHANGED <<gen, conn, open, holder, at, level, rec, dest, used, stray, closes>>
    BY DEF Unforward, resources, place, history
  <1>2. TypeOK /\ OpenIsStored
    BY DEF IInv
  <1>3. IsFiniteSet(fwd) /\ IsFiniteSet(fwd')
    BY <1>1, <1>2, DestsAssumption, FS_Subset DEF TypeOK
  <1>4. listening' = Cardinality(fwd')
    BY <1>1, <1>2, ForwardsCount DEF OpenIsStored
  <1>5. listening' \in Nat
    BY <1>3, <1>4, FS_CardinalityType
  <1>6. TypeOK'
    BY <1>1, <1>2, <1>5 DEF TypeOK
  <1>7. OpenIsStored'
    BY <1>1, <1>2, <1>4 DEF OpenIsStored
  <1>8. \A t \in Tasks : HoldsItsLocks(t)'
    <2> SUFFICES ASSUME NEW t \in Tasks PROVE HoldsItsLocks(t)'
      OBVIOUS
    <2>1. HoldsItsLocks(t)
      BY DEF IInv
    <2> QED BY <1>1, <2>1 DEF HoldsItsLocks, Reserved
  <1> QED BY <1>6, <1>7, <1>8 DEF IInv

----------------------------------------------------------------------------
LEMMA InitIInv == Init => IInv
  <1> SUFFICES ASSUME Init PROVE IInv
    OBVIOUS
  <1>1. TypeOK
    <2>1. 0 \in 0..Depth /\ 0 \in 0..MaxCloses
      BY DepthAssumption, MaxClosesAssumption
    <2> QED BY <2>1 DEF Init, TypeOK, Unrecorded
  <1>2. OpenIsStored
    BY FS_EmptySet DEF Init, OpenIsStored
  <1>3. \A t \in Tasks : HoldsItsLocks(t)
    BY DEF Init, HoldsItsLocks, Reserved
  <1> QED BY <1>1, <1>2, <1>3 DEF IInv

LEMMA StutterKeeps ==
  ASSUME IInv, UNCHANGED vars
  PROVE IInv'
  <1>1. UNCHANGED <<gen, conn, open, fwd, listening, holder, at, level, rec, dest,
                    used, stray, closes>>
    BY DEF vars, resources, forwards, place, history
  <1>2. TypeOK' /\ OpenIsStored'
    BY <1>1 DEF IInv, TypeOK, OpenIsStored
  <1>3. \A t \in Tasks : HoldsItsLocks(t)'
    BY <1>1 DEF IInv, HoldsItsLocks, Reserved
  <1> QED BY <1>2, <1>3 DEF IInv

(* IInv is inductive: whatever a task or a close does between two awaits,  *)
(* every handshake holds its level's lock and the locks below, none of     *)
(* which has a tunnel, and every bind the forward lock (get_tunnel,        *)
(* forward_port, close, unforward_port).                                   *)
THEOREM Invariance == Spec => []IInv
  <1>1. IInv /\ [Next]_vars => IInv'
    <2> SUFFICES ASSUME IInv, [Next]_vars PROVE IInv'
      OBVIOUS
    <2>1. ASSUME NEW t \in Tasks, NEW d \in Dests \cup {NoDest}, Call(t, d)
          PROVE IInv'
      BY <2>1, CallKeeps
    <2>2. ASSUME NEW t \in Tasks, TakesLock(t) PROVE IInv'
      BY <2>2, TakesLockKeeps
    <2>3. ASSUME NEW t \in Tasks, Dialled(t) PROVE IInv'
      BY <2>3, DialledKeeps
    <2>4. ASSUME NEW t \in Tasks, Bound(t) PROVE IInv'
      BY <2>4, BoundKeeps
    <2>5. ASSUME NEW t \in Tasks, Close(t) PROVE IInv'
      BY <2>5, CloseKeeps
    <2>6. ASSUME NEW t \in Tasks, TornDown(t) PROVE IInv'
      BY <2>6, TornDownKeeps
    <2>7. ASSUME NEW t \in Tasks, Fails(t) PROVE IInv'
      BY <2>7, FailsKeeps
    <2>8. ASSUME NEW d \in Dests, Unforward(d) PROVE IInv'
      BY <2>8, UnforwardKeeps
    <2>9. CASE UNCHANGED vars
      BY <2>9, StutterKeeps
    <2> QED
      BY <2>1, <2>2, <2>3, <2>4, <2>5, <2>6, <2>7, <2>8, <2>9 DEF Next
  <1> QED BY <1>1, InitIInv, PTL DEF Spec

(* Every variable keeps its type.                                          *)
THEOREM TypeCorrect == Spec => []TypeOK
  <1>1. IInv => TypeOK
    BY DEF IInv
  <1> QED BY <1>1, Invariance, PTL

(* No race of callers and no close that overtakes a handshake or a bind    *)
(* leaves a connection or a listener open that its transport does not      *)
(* store: the double checks and the generation checks of get_tunnel and    *)
(* forward_port are enough, on a chain of any length.                      *)
THEOREM OpenIsAlwaysStored == Spec => []OpenIsStored
  <1>1. IInv => OpenIsStored
    BY DEF IInv
  <1> QED BY <1>1, Invariance, PTL

----------------------------------------------------------------------------
(* What a close that nobody called after still owes. *)

Closed == closes > 0 /\ ~used

(* A call records a generation of level 1 that is not to come.             *)
RecordsAreOfThePast == \A t \in Tasks : rec[t][1] \in 0..gen[1]

(* What is torn down is a tunnel.                                          *)
TearsAreOfLevels == \A t \in Tasks : at[t] \in {"undo", "closing"} => level[t] # 0

(* The close overtook every call that is still under way,                  *)
CallsAreOvertaken ==
    Closed => \A t \in Tasks : at[t] \in {"lock", "dial"} => rec[t][1] # gen[1]

(* took what level 1 stored,                                               *)
FirstIsTaken == Closed => ~conn[1] /\ fwd = {}

(* and whoever tears a tunnel down, or will because its call is overtaken, *)
(* comes to every tunnel above it.                                         *)
Comes(t, m) == at[t] \in {"undo", "closing", "dial"} /\ level[t] \in 1..m - 1

CloseGoesOn ==
    Closed /\ ~stray => \A m \in Levels : conn[m] => \E t \in Tasks : Comes(t, m)

CloseInv ==
    /\ RecordsAreOfThePast /\ TearsAreOfLevels
    /\ CallsAreOvertaken /\ FirstIsTaken /\ CloseGoesOn

LEMMA TheLowest ==
  ASSUME NEW S \in SUBSET Nat, S # {}
  PROVE  \E i \in S : \A j \in S : i <= j
  <1> DEFINE R == OpToRel(<, Nat)
  <1>1. PICK i \in S : \A j \in S : ~(<<j, i>> \in R)
    <2>1. IsWellFoundedOn(R, Nat)
      BY NatLessThanWellFounded
    <2> HIDE DEF R
    <2> QED BY <2>1, WFMin
  <1>2. ASSUME NEW j \in S, j < i PROVE FALSE
    BY <1>1, <1>2 DEF OpToRel
  <1> QED BY <1>2

(* Where the others are, and where t goes.                                 *)
Stay(t) == \A o \in Tasks \ {t} : at'[o] = at[o] /\ level'[o] = level[o] /\ rec'[o] = rec[o]

LEMMA GoesThere ==
  ASSUME TypeOK, NEW t \in Tasks, NEW where, NEW l, NEW recorded, Goes(t, where, l, recorded)
  PROVE  Stay(t) /\ at'[t] = where /\ level'[t] = l /\ rec'[t] = recorded
  BY DEF Goes, TypeOK, Stay

LEMMA LeavesThere ==
  ASSUME TypeOK, NEW t \in Tasks, Leaves(t)
  PROVE  Stay(t) /\ at'[t] = "idle" /\ rec'[t][1] = 0
  <1>1. 1 \in Levels
    BY DepthAssumption DEF Levels
  <1> QED BY <1>1, GoesThere DEF Leaves, Unrecorded

LEMMA HasTunnelThere ==
  ASSUME TypeOK, NEW t \in Tasks, NEW d, NEW recorded, HasTunnel(t, d, recorded)
  PROVE  /\ Stay(t)
         /\ \/ at'[t] = "idle" /\ rec'[t][1] = 0
            \/ at'[t] \in {"lock", "dial"} /\ rec'[t] = recorded
  <1>1. CASE Leaves(t)
    BY <1>1, LeavesThere
  <1>2. CASE Goes(t, IF Contended(0) THEN "lock" ELSE "dial", 0, recorded)
    <2> DEFINE where == IF Contended(0) THEN "lock" ELSE "dial"
    <2>1. where \in {"lock", "dial"} /\ Goes(t, where, 0, recorded)
      BY <1>2
    <2> HIDE DEF where
    <2> QED BY <2>1, GoesThere
  <1> QED BY <1>1, <1>2 DEF HasTunnel

(* On the way up, what was recorded of level 1 is kept.                    *)
LEMMA DescendThere ==
  ASSUME TypeOK, NEW t \in Tasks, NEW l \in 1..(Depth + 1), NEW mine, NEW recorded,
         Descend(t, l, mine, recorded)
  PROVE  /\ Stay(t) /\ at'[t] \in {"lock", "dial"}
         /\ rec'[t][1] = recorded[1] \/ (l = 1 /\ rec'[t][1] = gen[1])
  <1> DEFINE
        span == {k \in l..Depth : \A j \in l..Depth : j < k => ~Stops(j)}
        wanted == {k \in span : ~conn[k]}
        blocked == {k \in wanted : Contended(k)}
        now == [k \in Levels |-> IF k \in wanted THEN gen[k] ELSE recorded[k]]
  <1>1. \E where \in {"lock", "dial"} : \E k : Goes(t, where, k, now)
    BY DEF Descend
  <1>2. now[1] = recorded[1] \/ (l = 1 /\ now[1] = gen[1])
    BY DepthAssumption DEF Levels
  <1> HIDE DEF now
  <1> QED BY <1>1, <1>2, GoesThere

(* A close that goes on from level k comes to what is left above it.       *)
LEMMA EndLevelsThere ==
  ASSUME TypeOK, NEW t \in Tasks, NEW k \in 1..(Depth + 1), EndLevels(t, k)
  PROVE  /\ Stay(t)
         /\ (at'[t] = "idle" /\ rec'[t][1] = 0) \/ (at'[t] = "closing" /\ rec'[t] = rec[t])
         /\ at'[t] = "closing" => level'[t] # 0
         /\ gen'[1] = IF k = 1 THEN gen[1] + 1 ELSE gen[1]
         /\ k = 1 => ~conn'[1]
         /\ \A m \in Levels : conn'[m] => conn[m] /\ (m >= k => Comes(t, m)')
  <1> DEFINE span == {l \in k..Depth : \A j \in k..Depth : j < l => ~conn[j]}
             hit == {l \in span : conn[l]}
  <1>1. /\ gen' = [l \in Levels |-> IF l \in span THEN gen[l] + 1 ELSE gen[l]]
        /\ conn' = [l \in Levels |-> conn[l] /\ l \notin hit]
        /\ \/ hit = {} /\ Leaves(t)
           \/ \E l \in hit : Goes(t, "closing", l, rec[t])
    BY DEF EndLevels
  <1>2. 1 \in Levels /\ Depth \in Nat /\ Depth >= 1 /\ k \in Nat /\ k >= 1
    BY DepthAssumption DEF Levels
  <1>3. (1 \in span <=> k = 1) /\ (k = 1 => (1 \in hit <=> conn[1]))
    BY <1>2
  <1>4. \A m \in Levels : conn'[m] => conn[m] /\ m \notin hit
    BY <1>1, Zenon
  <1>5. ASSUME NEW m \in Levels, conn'[m], m >= k
        PROVE  hit # {} /\ \A l \in hit : l \in 1..m - 1
    <2>1. conn[m] /\ m \notin hit /\ m \in k..Depth
      BY <1>2, <1>4, <1>5 DEF Levels
    <2>2. PICK i \in {j \in k..Depth : conn[j]} : \A j \in {j \in k..Depth : conn[j]} : i <= j
      <3>1. {j \in k..Depth : conn[j]} # {} /\ {j \in k..Depth : conn[j]} \subseteq Nat
        BY <1>2, <2>1
      <3> QED BY <3>1, TheLowest
    <2>3. i \in hit
      BY <1>2, <2>2
    <2>4. \A l \in hit : l \in 1..m - 1
      BY <1>2, <2>1
    <2> QED BY <2>3, <2>4
  <1>6. gen'[1] = IF k = 1 THEN gen[1] + 1 ELSE gen[1]
    BY <1>1, <1>2, <1>3
  <1>7. k = 1 => ~conn'[1]
    BY <1>1, <1>2, <1>3, Zenon
  <1>8. \A l \in hit : l # 0
    BY <1>2
  <1> HIDE DEF hit, span
  <1>9. CASE hit = {} /\ Leaves(t)
    BY <1>4, <1>5, <1>6, <1>7, <1>9, LeavesThere
  <1>10. CASE \E l \in hit : Goes(t, "closing", l, rec[t])
    <2>1. PICK l \in hit : Goes(t, "closing", l, rec[t])
      BY <1>10
    <2>2. Stay(t) /\ at'[t] = "closing" /\ level'[t] = l /\ rec'[t] = rec[t]
      BY <2>1, GoesThere
    <2>3. \A m \in Levels : conn'[m] => conn[m] /\ (m >= k => Comes(t, m)')
      BY <1>4, <1>5, <2>1, <2>2 DEF Comes
    <2> QED BY <1>6, <1>7, <1>8, <2>1, <2>2, <2>3
  <1> QED BY <1>1, <1>9, <1>10

----------------------------------------------------------------------------
(* A step of a task that stores and closes nothing.                        *)
LEMMA StepOwes ==
  ASSUME CloseInv, NEW t \in Tasks, Stay(t), UNCHANGED <<gen, conn, used, closes>>,
         Closed => fwd' = fwd, stray => stray',
         rec'[t][1] \in 0..gen[1],
         at'[t] \in {"undo", "closing"} => level'[t] # 0,
         Closed /\ at'[t] \in {"lock", "dial"} => rec'[t][1] # gen[1],
         Closed /\ ~stray' => \A m \in Levels : conn[m] /\ Comes(t, m) => Comes(t, m)'
  PROVE  CloseInv'
  <1>1. RecordsAreOfThePast' /\ TearsAreOfLevels' /\ FirstIsTaken'
    BY DEF CloseInv, RecordsAreOfThePast, TearsAreOfLevels, FirstIsTaken, Closed, Stay
  <1>2. CallsAreOvertaken'
    BY DEF CloseInv, CallsAreOvertaken, Closed, Stay
  <1>3. CloseGoesOn'
    <2> SUFFICES ASSUME Closed, ~stray', NEW m \in Levels, conn[m]
                 PROVE  \E o \in Tasks : Comes(o, m)'
      BY DEF CloseGoesOn, Closed
    <2>1. PICK o \in Tasks : Comes(o, m)
      BY DEF CloseInv, CloseGoesOn
    <2> QED BY <2>1 DEF Stay, Comes
  <1> QED BY <1>1, <1>2, <1>3 DEF CloseInv

LEMMA CallOwes ==
  ASSUME TypeOK, CloseInv, NEW t \in Tasks, NEW d, Call(t, d)
  PROVE  CloseInv'
  <1> DEFINE recorded == [Unrecorded EXCEPT ![1] = gen[1]]
  <1>1. /\ IF d \in fwd THEN Leaves(t)
           ELSE IF conn[1] THEN HasTunnel(t, d, recorded)
           ELSE Descend(t, 1, {}, recorded)
        /\ gen' = gen /\ used'
    BY DEF Call, resources
  <1>2. recorded[1] = gen[1] /\ gen[1] \in Nat /\ 1 \in 1..(Depth + 1)
    BY DepthAssumption DEF TypeOK, Unrecorded, Levels
  <1> HIDE DEF recorded
  <1>3. Stay(t) /\ rec'[t][1] \in {0, gen[1]} /\ at'[t] \in {"idle", "lock", "dial"}
    BY <1>1, <1>2, LeavesThere, HasTunnelThere, DescendThere
  <1>4. RecordsAreOfThePast' /\ TearsAreOfLevels'
    BY <1>1, <1>2, <1>3 DEF CloseInv, RecordsAreOfThePast, TearsAreOfLevels, Stay
  <1> QED BY <1>1, <1>4 DEF CloseInv, CallsAreOvertaken, FirstIsTaken, CloseGoesOn, Closed

LEMMA TakesLockOwes ==
  ASSUME TypeOK, CloseInv, NEW t \in Tasks, TakesLock(t)
  PROVE  CloseInv'
  <1> DEFINE l == level[t]
  <1>1. /\ at[t] = "lock"
        /\ \/ Leaves(t)
           \/ Goes(t, "dial", 0, rec[t])
           \/ HasTunnel(t, dest[t], rec[t])
           \/ Goes(t, "dial", l - 1, rec[t])
           \/ l # 0 /\ Descend(t, l + 1, {l}, rec[t])
        /\ UNCHANGED <<gen, conn, fwd, used, stray, closes>>
    BY DEF TakesLock, resources, forwards, history
  <1>2. l \in 0..Depth /\ Depth \in Nat /\ gen[1] \in Nat
    BY DepthAssumption DEF TypeOK, Levels
  <1>3. /\ Stay(t) /\ at'[t] \in {"idle", "lock", "dial"}
        /\ rec'[t][1] = rec[t][1] \/ (at'[t] = "idle" /\ rec'[t][1] = 0)
    <2>1. CASE Leaves(t)
      BY <2>1, LeavesThere
    <2>2. CASE Goes(t, "dial", 0, rec[t]) \/ Goes(t, "dial", l - 1, rec[t])
      BY <2>2, GoesThere
    <2>3. CASE HasTunnel(t, dest[t], rec[t])
      BY <2>3, HasTunnelThere
    <2>4. CASE l # 0 /\ Descend(t, l + 1, {l}, rec[t])
      <3>1. l + 1 \in 1..(Depth + 1) /\ l + 1 # 1
        BY <1>2, <2>4
      <3> QED BY <2>4, <3>1, DescendThere
    <2> QED BY <1>1, <2>1, <2>2, <2>3, <2>4
  <1>4. rec[t][1] \in 0..gen[1] /\ (Closed => rec[t][1] # gen[1])
    BY <1>1 DEF CloseInv, RecordsAreOfThePast, CallsAreOvertaken
  <1>5. \A m : ~Comes(t, m)
    BY <1>1 DEF Comes
  <1> QED BY <1>1, <1>2, <1>3, <1>4, <1>5, StepOwes

(* A tunnel that is stored after the close is dialled through next.        *)
LEMMA DialledOwes ==
  ASSUME TypeOK, CloseInv, NEW t \in Tasks, Dialled(t)
  PROVE  CloseInv'
  <1> DEFINE l == level[t]
  <1>1. /\ at[t] = "dial" /\ l # 0
        /\ UNCHANGED <<gen, fwd, used, stray, closes>>
    BY DEF Dialled, forwards, history
  <1>2. l \in 1..Depth /\ Depth \in Nat /\ gen[1] \in Nat
    BY <1>1, DepthAssumption DEF TypeOK, Levels
  <1>3. rec[t][1] \in 0..gen[1] /\ (Closed => rec[t][1] # gen[1])
    BY <1>1 DEF CloseInv, RecordsAreOfThePast, CallsAreOvertaken
  <1>4. CASE rec[t][l] # gen[l]
    <2>1. conn' = conn /\ Stay(t) /\ at'[t] = "undo" /\ level'[t] = l /\ rec'[t] = rec[t]
      BY <1>4, GoesThere DEF Dialled
    <2>2. \A m : Comes(t, m) => Comes(t, m)'
      BY <2>1 DEF Comes
    <2> QED BY <1>1, <1>2, <1>3, <2>1, <2>2, StepOwes
  <1>5. CASE rec[t][l] = gen[l]
    <2>1. /\ conn' = [conn EXCEPT ![l] = TRUE]
          /\ IF l = 1 THEN HasTunnel(t, dest[t], rec[t]) ELSE Goes(t, "dial", l - 1, rec[t])
      BY <1>5 DEF Dialled
    <2>2. Closed => l # 1
      BY <1>3, <1>5
    <2>3. /\ Stay(t)
          /\ (at'[t] = "idle" /\ rec'[t][1] = 0) \/ (at'[t] \in {"lock", "dial"} /\ rec'[t] = rec[t])
      BY <2>1, HasTunnelThere, GoesThere
    <2>4. /\ RecordsAreOfThePast' /\ TearsAreOfLevels'
      BY <1>1, <1>2, <1>3, <2>3 DEF CloseInv, RecordsAreOfThePast, TearsAreOfLevels, Stay
    <2>5. CallsAreOvertaken'
      BY <1>1, <1>3, <2>3 DEF CloseInv, CallsAreOvertaken, Closed, Stay
    <2>6. FirstIsTaken'
      BY <1>1, <1>2, <2>1, <2>2 DEF CloseInv, FirstIsTaken, Closed, TypeOK, Levels
    <2>7. CloseGoesOn'
      <3> SUFFICES ASSUME Closed, ~stray, NEW m \in Levels, conn'[m]
                   PROVE  \E o \in Tasks : Comes(o, m)'
        BY <1>1 DEF CloseGoesOn, Closed
      <3>1. at'[t] = "dial" /\ level'[t] = l - 1 /\ l - 1 \in 1..l - 1
        BY <1>2, <2>1, <2>2, GoesThere
      <3>2. CASE m = l
        BY <3>1, <3>2 DEF Comes
      <3>3. CASE m # l
        <4>1. conn[m]
          BY <2>1, <3>3 DEF TypeOK
        <4>2. PICK o \in Tasks : Comes(o, m)
          BY <4>1 DEF CloseInv, CloseGoesOn
        <4>3. CASE o = t
          <5>1. m \in Nat /\ l <= m - 1
            BY <1>2, <4>2, <4>3 DEF Comes, Levels
          <5>2. l - 1 \in 1..m - 1
            BY <1>2, <3>1, <5>1
          <5> QED BY <3>1, <5>2 DEF Comes
        <4>4. CASE o # t
          BY <2>3, <4>2, <4>4 DEF Comes, Stay
        <4> QED BY <4>3, <4>4
      <3> QED BY <3>2, <3>3
    <2> QED BY <2>4, <2>5, <2>6, <2>7 DEF CloseInv
  <1> QED BY <1>4, <1>5

LEMMA BoundOwes ==
  ASSUME TypeOK, CloseInv, NEW t \in Tasks, Bound(t)
  PROVE  CloseInv'
  <1>1. /\ at[t] = "dial" /\ level[t] = 0 /\ Leaves(t)
        /\ rec[t][1] # gen[1] => fwd' = fwd
        /\ UNCHANGED <<gen, conn, used, stray, closes>>
    BY DEF Bound, resources, forwards, history
  <1>2. Closed => fwd' = fwd
    BY <1>1 DEF CloseInv, CallsAreOvertaken
  <1>3. Stay(t) /\ at'[t] = "idle" /\ rec'[t][1] \in 0..gen[1]
    <2>1. gen[1] \in Nat
      BY DepthAssumption DEF TypeOK, Levels
    <2> QED BY <1>1, <2>1, LeavesThere
  <1>4. \A m : ~Comes(t, m)
    BY <1>1 DEF Comes
  <1> QED BY <1>1, <1>2, <1>3, <1>4, StepOwes

(* A close overtakes everybody, and comes to all that is left.             *)
LEMMA CloseOwes ==
  ASSUME TypeOK, CloseInv, NEW t \in Tasks, Close(t)
  PROVE  CloseInv'
  <1>1. EndLevels(t, 1) /\ fwd' = {} /\ at[t] = "idle"
    BY DEF Close
  <1>2. 1 \in 1..(Depth + 1) /\ gen[1] \in Nat /\ \A m \in Levels : m >= 1
    BY DepthAssumption DEF TypeOK, Levels
  <1>3. /\ Stay(t)
        /\ (at'[t] = "idle" /\ rec'[t][1] = 0) \/ (at'[t] = "closing" /\ rec'[t] = rec[t])
        /\ at'[t] = "closing" => level'[t] # 0
        /\ gen'[1] = gen[1] + 1
        /\ ~conn'[1]
        /\ \A m \in Levels : conn'[m] => Comes(t, m)'
    BY <1>1, <1>2, EndLevelsThere
  <1>4. \A o \in Tasks : rec'[o][1] \in 0..gen[1]
    BY <1>2, <1>3 DEF CloseInv, RecordsAreOfThePast, Stay
  <1>5. RecordsAreOfThePast' /\ CallsAreOvertaken'
    BY <1>2, <1>3, <1>4 DEF RecordsAreOfThePast, CallsAreOvertaken
  <1>6. TearsAreOfLevels' /\ FirstIsTaken' /\ CloseGoesOn'
    BY <1>1, <1>3 DEF CloseInv, TearsAreOfLevels, FirstIsTaken, CloseGoesOn, Stay
  <1> QED BY <1>5, <1>6 DEF CloseInv

(* A tear-down takes over from itself.                                     *)
LEMMA TornDownOwes ==
  ASSUME TypeOK, CloseInv, NEW t \in Tasks, TornDown(t)
  PROVE  CloseInv'
  <1> DEFINE k == level[t] + 1
  <1>1. /\ at[t] \in {"undo", "closing"} /\ EndLevels(t, k)
        /\ UNCHANGED <<fwd, used, stray, closes>>
    BY DEF TornDown, forwards, history
  <1>2. k \in 1..(Depth + 1) /\ k # 1 /\ level[t] \in Nat /\ gen[1] \in Nat
    BY <1>1, DepthAssumption DEF CloseInv, TearsAreOfLevels, TypeOK, Levels
  <1>3. /\ Stay(t)
        /\ (at'[t] = "idle" /\ rec'[t][1] = 0) \/ (at'[t] = "closing" /\ rec'[t] = rec[t])
        /\ at'[t] = "closing" => level'[t] # 0
        /\ gen'[1] = gen[1]
        /\ \A m \in Levels : conn'[m] => conn[m] /\ (m >= k => Comes(t, m)')
    <2> HIDE DEF k
    <2> QED BY <1>1, <1>2, EndLevelsThere
  <1>4. RecordsAreOfThePast' /\ TearsAreOfLevels' /\ CallsAreOvertaken'
    BY <1>1, <1>2, <1>3
    DEF CloseInv, RecordsAreOfThePast, TearsAreOfLevels, CallsAreOvertaken, Closed, Stay
  <1>5. FirstIsTaken'
    <2>1. 1 \in Levels
      BY DepthAssumption DEF Levels
    <2> QED BY <1>1, <1>3, <2>1 DEF CloseInv, FirstIsTaken, Closed
  <1>6. CloseGoesOn'
    <2> SUFFICES ASSUME Closed, ~stray, NEW m \in Levels, conn'[m]
                 PROVE  \E o \in Tasks : Comes(o, m)'
      BY <1>1 DEF CloseGoesOn, Closed
    <2>1. PICK o \in Tasks : Comes(o, m)
      BY <1>3 DEF CloseInv, CloseGoesOn
    <2>2. CASE o = t
      <3>1. m >= k
        BY <1>2, <2>1, <2>2 DEF Comes, Levels
      <3> QED BY <1>3, <3>1
    <2>3. CASE o # t
      BY <1>3, <2>1, <2>3 DEF Comes, Stay
    <2> QED BY <2>2, <2>3
  <1> QED BY <1>4, <1>5, <1>6 DEF CloseInv

(* A failure that stops a cascade is noted.                                *)
LEMMA FailsOwes ==
  ASSUME TypeOK, CloseInv, NEW t \in Tasks, Fails(t)
  PROVE  CloseInv'
  <1> DEFINE l == level[t]
  <1>1. /\ Leaves(t) /\ UNCHANGED <<gen, conn, fwd, used, closes>>
        /\ stray' = \/ stray
                    \/ at[t] \in {"undo", "closing"} /\ l < Depth
                    \/ /\ at[t] = "dial" /\ l < Depth
                       /\ \E k \in 1..l : rec[t][k] # gen[k]
    BY DEF Fails, resources, forwards
  <1>2. l \in Nat /\ Depth \in Nat /\ gen[1] \in Nat
    BY DepthAssumption DEF TypeOK, Levels
  <1>3. Stay(t) /\ at'[t] = "idle" /\ rec'[t][1] \in 0..gen[1]
    BY <1>1, <1>2, LeavesThere
  <1>4. ASSUME Closed, ~stray', NEW m \in Levels PROVE ~Comes(t, m)
    <2>1. SUFFICES ASSUME Comes(t, m) PROVE FALSE
      OBVIOUS
    <2>2. l < Depth /\ 1 \in 1..l
      BY <1>2, <2>1 DEF Comes, Levels
    <2>3. at[t] = "dial"
      BY <1>1, <1>4, <2>1, <2>2 DEF Comes
    <2>4. rec[t][1] # gen[1]
      BY <1>4, <2>3 DEF CloseInv, CallsAreOvertaken
    <2> QED BY <1>1, <1>4, <2>2, <2>3, <2>4
  <1>5. stray => stray'
    BY <1>1
  <1> QED BY <1>1, <1>3, <1>4, <1>5, StepOwes

LEMMA CloseStep == TypeOK /\ CloseInv /\ [Next]_vars => CloseInv'
  <1> SUFFICES ASSUME TypeOK, CloseInv, [Next]_vars PROVE CloseInv'
    OBVIOUS
  <1>1. ASSUME NEW d \in Dests, Unforward(d) PROVE CloseInv'
    <2>1. d \in fwd /\ UNCHANGED <<gen, conn, at, level, rec, used, stray, closes>>
          /\ fwd' = fwd \ {d}
      BY <1>1 DEF Unforward, resources, place, history
    <2> QED BY <2>1
        DEF CloseInv, RecordsAreOfThePast, TearsAreOfLevels, CallsAreOvertaken, FirstIsTaken,
            CloseGoesOn, Comes, Closed
  <1>2. CASE UNCHANGED vars
    BY <1>2
    DEF vars, resources, forwards, place, history, CloseInv, RecordsAreOfThePast,
        TearsAreOfLevels, CallsAreOvertaken, FirstIsTaken, CloseGoesOn, Comes, Closed
  <1> QED
    BY <1>1, <1>2, CallOwes, TakesLockOwes, DialledOwes, BoundOwes, CloseOwes, TornDownOwes,
       FailsOwes DEF Next

(* Once everybody has left and nobody called since the last close began,   *)
(* nothing is open on a chain of any length, whatever the close overtook,  *)
(* unless a failure stopped its cascade; the owned level and its listeners *)
(* are gone even then (close, _tear_down, get_tunnel).                     *)
THEOREM CloseEndsAll == Spec => []NothingOutlivesClose
  <1>1. Init => CloseInv
    <2> SUFFICES ASSUME Init PROVE CloseInv
      OBVIOUS
    <2>1. \A t \in Tasks : rec[t][1] = 0 /\ at[t] = "idle"
      BY DepthAssumption DEF Init, Unrecorded, Levels
    <2>2. gen[1] = 0 /\ ~Closed
      BY DepthAssumption DEF Init, Levels, Closed
    <2> QED BY <2>1, <2>2
        DEF CloseInv, RecordsAreOfThePast, TearsAreOfLevels, CallsAreOvertaken, FirstIsTaken,
            CloseGoesOn
  <1>2. CloseInv => NothingOutlivesClose
    BY DEF CloseInv, FirstIsTaken, CloseGoesOn, Comes, NothingOutlivesClose, Quiet, Closed
  <1>3. Spec => []CloseInv
    BY <1>1, CloseStep, TypeCorrect, PTL DEF Spec
  <1> QED BY <1>2, <1>3, PTL

----------------------------------------------------------------------------
(* Waits go up the chain. *)

(* Who holds a lock is in a call; waiting for a lock it holds only those   *)
(* of levels below, never the forward lock, and dialling a level only that *)
(* level's and those below, or the forward lock alone.                     *)
HoldsBelow(t) ==
    \A k \in 0..Depth : holder[k] = t =>
        /\ at[t] # "idle"
        /\ at[t] = "lock" => 0 < k /\ k < level[t]
        /\ at[t] = "dial" => IF level[t] = 0 THEN k = 0 ELSE 0 < k /\ k <= level[t]

LocksInv == \A t \in Tasks : HoldsBelow(t)

(* A step of t takes locks for t only.                                     *)
TakesOnly(t) == \A k \in 0..Depth : holder'[k] \in {holder[k], t, NoTask}

LEMMA OthersStillBelow ==
  ASSUME LocksInv, NEW t \in Tasks, Stay(t), TakesOnly(t), HoldsBelow(t)'
  PROVE  LocksInv'
  <1> SUFFICES ASSUME NEW o \in Tasks \ {t} PROVE HoldsBelow(o)'
    BY DEF LocksInv
  <1>1. at'[o] = at[o] /\ level'[o] = level[o] /\ HoldsBelow(o) /\ o # NoTask /\ o # t
    BY TasksAssumption DEF Stay, LocksInv
  <1>2. \A k \in 0..Depth : holder'[k] = o => holder[k] = o
    BY <1>1 DEF TakesOnly
  <1> QED BY <1>1, <1>2 DEF HoldsBelow

LEMMA LeavesBelow ==
  ASSUME TypeOK, NEW t \in Tasks, Leaves(t)
  PROVE  Stay(t) /\ TakesOnly(t) /\ HoldsBelow(t)'
  <1>1. \A k \in 0..Depth : holder'[k] = IF holder[k] = t THEN NoTask ELSE holder[k]
    BY DEF Leaves, Released
  <1>2. \A k \in 0..Depth : holder'[k] # t
    BY <1>1, TasksAssumption
  <1> QED BY <1>1, <1>2, LeavesThere DEF TakesOnly, HoldsBelow

(* The tunnel's locks are free before the forward lock is asked for.       *)
LEMMA HasTunnelBelow ==
  ASSUME TypeOK, NEW t \in Tasks, NEW d, NEW recorded, HasTunnel(t, d, recorded)
  PROVE  Stay(t) /\ TakesOnly(t) /\ HoldsBelow(t)'
  <1>1. CASE Leaves(t)
    BY <1>1, LeavesBelow
  <1>2. CASE /\ Goes(t, IF Contended(0) THEN "lock" ELSE "dial", 0, recorded)
             /\ holder' = IF Contended(0) THEN Released(t) ELSE [Released(t) EXCEPT ![0] = t]
    <2>1. \A k \in 0..Depth : Released(t)[k] = IF holder[k] = t THEN NoTask ELSE holder[k]
      BY DEF Released
    <2>2. CASE Contended(0)
      <3>1. Goes(t, "lock", 0, recorded) /\ holder' = Released(t)
        BY <1>2, <2>2
      <3>2. Stay(t) /\ at'[t] = "lock" /\ level'[t] = 0
        BY <3>1, GoesThere
      <3>3. \A k \in 0..Depth : holder'[k] # t /\ holder'[k] \in {holder[k], NoTask}
        BY <2>1, <3>1, TasksAssumption
      <3> QED BY <3>2, <3>3 DEF TakesOnly, HoldsBelow
    <2>3. CASE ~Contended(0)
      <3>1. Goes(t, "dial", 0, recorded) /\ holder' = [Released(t) EXCEPT ![0] = t]
        BY <1>2, <2>3
      <3>2. Stay(t) /\ at'[t] = "dial" /\ level'[t] = 0
        BY <3>1, GoesThere
      <3>3. \A k \in 0..Depth : holder'[k] = IF k = 0 THEN t ELSE Released(t)[k]
        BY <3>1 DEF Released
      <3>4. \A k \in 0..Depth : /\ holder'[k] \in {holder[k], t, NoTask}
                                /\ holder'[k] = t => k = 0
        BY <2>1, <3>3, TasksAssumption
      <3> QED BY <3>2, <3>4 DEF TakesOnly, HoldsBelow
    <2> QED BY <2>2, <2>3
  <1> QED BY <1>1, <1>2 DEF HasTunnel

(* On its way up, a task takes the locks it passes and stops above them.   *)
LEMMA DescendBelow ==
  ASSUME TypeOK, NEW t \in Tasks, NEW l \in 1..(Depth + 1), NEW mine,
         \A k \in mine : 0 < k /\ k < l,
         \A k \in 0..Depth : holder[k] = t => 0 < k /\ k < l,
         l = 1 => ~conn[1],
         NEW recorded, Descend(t, l, mine, recorded)
  PROVE  Stay(t) /\ TakesOnly(t) /\ HoldsBelow(t)'
  <1> DEFINE
        span == {k \in l..Depth : \A j \in l..Depth : j < k => ~Stops(j)}
        wanted == {k \in span : ~conn[k]}
        blocked == {k \in wanted : Contended(k)}
        now == [k \in Levels |-> IF k \in wanted THEN gen[k] ELSE recorded[k]]
  <1>1. /\ holder' = [k \in 0..Depth |-> IF k \in mine \cup (wanted \ blocked) THEN t ELSE holder[k]]
        /\ \/ \E k \in blocked : Goes(t, "lock", k, now)
           \/ \E k \in span : conn[k] /\ Goes(t, "dial", k - 1, now)
           \/ Goes(t, "dial", Depth, now)
    BY DEF Descend
  <1>2. l \in Nat /\ l >= 1 /\ Depth \in Nat /\ Depth >= 1
    BY DepthAssumption
  <1>3. TakesOnly(t)
    BY <1>1 DEF TakesOnly
  <1>4. \A j \in 0..Depth : holder'[j] = t => 0 < j /\ (j < l \/ j \in wanted \ blocked)
    BY <1>1, <1>2
  <1>5. \A j \in wanted \ blocked : j \in l..Depth
    OBVIOUS
  <1>6. ASSUME NEW k \in span, Stops(k), NEW j \in span PROVE j <= k
    BY <1>2, <1>6
  <1>7. CASE \E k \in blocked : Goes(t, "lock", k, now)
    <2>1. PICK k \in blocked : Goes(t, "lock", k, now)
      BY <1>7
    <2>2. Stay(t) /\ at'[t] = "lock" /\ level'[t] = k
      <3> HIDE DEF now, blocked
      <3> QED BY <2>1, GoesThere
    <2>3. k \in l..Depth /\ k \in span /\ Stops(k)
      BY <2>1 DEF Stops
    <2>4. \A j \in wanted \ blocked : j < k
      <3> SUFFICES ASSUME NEW j \in wanted \ blocked PROVE j < k
        OBVIOUS
      <3>1. j # k /\ j \in span /\ j \in l..Depth
        BY <2>1
      <3>2. j <= k
        BY <1>6, <2>3, <3>1
      <3> QED BY <1>2, <2>3, <3>1, <3>2
    <2>5. \A j \in 0..Depth : holder'[j] = t => 0 < j /\ j < k
      <3> HIDE DEF wanted, blocked
      <3> QED BY <1>2, <1>4, <2>3, <2>4
    <2> QED BY <1>3, <2>2, <2>5 DEF HoldsBelow
  <1>8. CASE \E k \in span : conn[k] /\ Goes(t, "dial", k - 1, now)
    <2>1. PICK k \in span : conn[k] /\ Goes(t, "dial", k - 1, now)
      BY <1>8
    <2>2. Stay(t) /\ at'[t] = "dial" /\ level'[t] = k - 1
      <3> HIDE DEF now, span
      <3> QED BY <2>1, GoesThere
    <2>3. k \in l..Depth /\ Stops(k) /\ k # 1
      BY <1>2, <2>1 DEF Stops
    <2>4. \A j \in wanted : j < k
      <3> SUFFICES ASSUME NEW j \in wanted PROVE j < k
        OBVIOUS
      <3>1. j # k /\ j \in span /\ j \in l..Depth
        BY <2>1
      <3>2. j <= k
        BY <1>6, <2>1, <2>3, <3>1
      <3> QED BY <1>2, <2>3, <3>1, <3>2
    <2>5. \A j \in 0..Depth : holder'[j] = t => 0 < j /\ j <= k - 1
      <3> HIDE DEF wanted, blocked
      <3> QED BY <1>2, <1>4, <2>3, <2>4
    <2>6. k - 1 # 0
      BY <1>2, <2>3
    <2> QED BY <1>3, <2>2, <2>5, <2>6 DEF HoldsBelow
  <1>9. CASE Goes(t, "dial", Depth, now)
    <2>1. Stay(t) /\ at'[t] = "dial" /\ level'[t] = Depth
      <3> HIDE DEF now
      <3> QED BY <1>9, GoesThere
    <2>2. \A j \in 0..Depth : holder'[j] = t => 0 < j /\ j <= Depth
      <3> HIDE DEF wanted, blocked
      <3> QED BY <1>2, <1>4
    <2> QED BY <1>2, <1>3, <2>1, <2>2 DEF HoldsBelow
  <1> QED BY <1>1, <1>7, <1>8, <1>9

LEMMA CallBelow ==
  ASSUME TypeOK, LocksInv, NEW t \in Tasks, NEW d, Call(t, d)
  PROVE  LocksInv'
  <1> DEFINE recorded == [Unrecorded EXCEPT ![1] = gen[1]]
  <1>1. /\ IF d \in fwd THEN Leaves(t)
           ELSE IF conn[1] THEN HasTunnel(t, d, recorded)
           ELSE Descend(t, 1, {}, recorded)
        /\ at[t] = "idle"
    BY DEF Call
  <1> HIDE DEF recorded
  <1>2. \A k \in 0..Depth : holder[k] # t
    BY <1>1 DEF LocksInv, HoldsBelow
  <1>3. Stay(t) /\ TakesOnly(t) /\ HoldsBelow(t)'
    <2>1. CASE d \notin fwd /\ ~conn[1]
      <3>1. 1 \in 1..(Depth + 1) /\ Descend(t, 1, {}, recorded)
        BY <1>1, <2>1, DepthAssumption
      <3> QED BY <1>2, <2>1, <3>1, DescendBelow
    <2> QED BY <1>1, <2>1, LeavesBelow, HasTunnelBelow
  <1> QED BY <1>3, OthersStillBelow

LEMMA TakesLockBelow ==
  ASSUME TypeOK, LocksInv, NEW t \in Tasks, TakesLock(t)
  PROVE  LocksInv'
  <1> DEFINE l == level[t]
  <1>1. /\ at[t] = "lock" /\ holder[l] = NoTask
        /\ IF l = 0
           THEN IF dest[t] \in fwd THEN Leaves(t)
                ELSE Goes(t, "dial", 0, rec[t]) /\ holder' = [holder EXCEPT ![0] = t]
           ELSE IF conn[l]
           THEN IF l = 1 THEN HasTunnel(t, dest[t], rec[t])
                ELSE Goes(t, "dial", l - 1, rec[t]) /\ holder' = holder
           ELSE Descend(t, l + 1, {l}, rec[t])
    BY DEF TakesLock
  <1>2. l \in 0..Depth /\ Depth \in Nat
    BY DepthAssumption DEF TypeOK
  <1>3. \A k \in 0..Depth : holder[k] = t => 0 < k /\ k < l
    BY <1>1 DEF LocksInv, HoldsBelow
  <1> HIDE DEF l
  <1>4. Stay(t) /\ TakesOnly(t) /\ HoldsBelow(t)'
    <2>1. CASE l = 0 /\ dest[t] \notin fwd
      <3>1. Stay(t) /\ at'[t] = "dial" /\ level'[t] = 0
        BY <1>1, <2>1, GoesThere
      <3>2. \A k \in 0..Depth : holder'[k] = IF k = 0 THEN t ELSE holder[k]
        BY <1>1, <2>1 DEF TypeOK
      <3>3. \A k \in 0..Depth : holder'[k] = t => k = 0
        BY <1>2, <1>3, <2>1, <3>2
      <3> QED BY <3>1, <3>2, <3>3 DEF TakesOnly, HoldsBelow
    <2>2. CASE l # 0 /\ conn[l] /\ l # 1
      <3>1. Goes(t, "dial", l - 1, rec[t]) /\ holder' = holder
        BY <1>1, <2>2
      <3>2. Stay(t) /\ at'[t] = "dial" /\ level'[t] = l - 1
        BY <3>1, GoesThere
      <3>3. \A k \in 0..Depth : holder'[k] = t => 0 < k /\ k <= l - 1
        BY <1>2, <1>3, <3>1
      <3>4. l - 1 # 0
        BY <1>2, <2>2
      <3> QED BY <3>1, <3>2, <3>3, <3>4 DEF TakesOnly, HoldsBelow
    <2>3. CASE l # 0 /\ ~conn[l]
      <3>1. Descend(t, l + 1, {l}, rec[t])
        BY <1>1, <2>3
      <3>2. l + 1 \in 1..(Depth + 1) /\ l + 1 # 1 /\ \A k \in {l} : 0 < k /\ k < l + 1
        BY <1>2, <2>3
      <3>3. \A k \in 0..Depth : holder[k] = t => 0 < k /\ k < l + 1
        BY <1>2, <1>3
      <3> QED BY <3>1, <3>2, <3>3, DescendBelow
    <2> QED BY <1>1, <2>1, <2>2, <2>3, LeavesBelow, HasTunnelBelow
  <1> QED BY <1>4, OthersStillBelow

LEMMA DialledBelow ==
  ASSUME TypeOK, LocksInv, NEW t \in Tasks, Dialled(t)
  PROVE  LocksInv'
  <1> DEFINE l == level[t]
  <1>1. /\ at[t] = "dial" /\ l # 0
        /\ \/ Goes(t, "undo", l, rec[t]) /\ holder' = holder
           \/ l = 1 /\ HasTunnel(t, dest[t], rec[t])
           \/ /\ l # 1
              /\ Goes(t, "dial", l - 1, rec[t])
              /\ holder' = [holder EXCEPT ![l] = NoTask]
    BY DEF Dialled
  <1>2. l \in 1..Depth /\ Depth \in Nat
    BY <1>1, DepthAssumption DEF TypeOK
  <1>3. \A k \in 0..Depth : holder[k] = t => 0 < k /\ k <= l
    BY <1>1 DEF LocksInv, HoldsBelow
  <1> HIDE DEF l
  <1>4. CASE Goes(t, "undo", l, rec[t]) /\ holder' = holder
    <2>1. Stay(t) /\ at'[t] = "undo"
      BY <1>4, GoesThere
    <2>2. TakesOnly(t) /\ HoldsBelow(t)'
      BY <1>4, <2>1 DEF TakesOnly, HoldsBelow
    <2> QED BY <2>1, <2>2, OthersStillBelow
  <1>5. CASE HasTunnel(t, dest[t], rec[t])
    BY <1>5, HasTunnelBelow, OthersStillBelow
  <1>6. CASE l # 1 /\ Goes(t, "dial", l - 1, rec[t]) /\ holder' = [holder EXCEPT ![l] = NoTask]
    <2>1. Stay(t) /\ at'[t] = "dial" /\ level'[t] = l - 1
      BY <1>6, GoesThere
    <2>2. \A k \in 0..Depth : holder'[k] = IF k = l THEN NoTask ELSE holder[k]
      BY <1>6 DEF TypeOK
    <2>3. l - 1 # 0 /\ \A k \in 0..Depth : holder'[k] = t => 0 < k /\ k <= l - 1
      BY <1>2, <1>3, <1>6, <2>2, TasksAssumption
    <2>4. TakesOnly(t) /\ HoldsBelow(t)'
      BY <2>1, <2>2, <2>3 DEF TakesOnly, HoldsBelow
    <2> QED BY <2>1, <2>4, OthersStillBelow
  <1> QED BY <1>1, <1>4, <1>5, <1>6

(* A close, at any level of its cascade, takes no lock.                    *)
LEMMA EndLevelsBelow ==
  ASSUME TypeOK, LocksInv, NEW t \in Tasks, NEW k, EndLevels(t, k)
  PROVE  LocksInv'
  <1>1. CASE Leaves(t)
    BY <1>1, LeavesBelow, OthersStillBelow
  <1>2. CASE (\E l : Goes(t, "closing", l, rec[t])) /\ holder' = holder
    <2>1. Stay(t) /\ at'[t] = "closing"
      BY <1>2, GoesThere
    <2>2. TakesOnly(t) /\ HoldsBelow(t)'
      BY <1>2, <2>1 DEF TakesOnly, HoldsBelow
    <2> QED BY <2>1, <2>2, OthersStillBelow
  <1> QED BY <1>1, <1>2 DEF EndLevels

LEMMA LocksStep == TypeOK /\ LocksInv /\ [Next]_vars => LocksInv'
  <1> SUFFICES ASSUME TypeOK, LocksInv, [Next]_vars PROVE LocksInv'
    OBVIOUS
  <1>1. ASSUME NEW t \in Tasks, Close(t) \/ TornDown(t) PROVE LocksInv'
    BY <1>1, EndLevelsBelow DEF Close, TornDown
  <1>2. ASSUME NEW t \in Tasks, Bound(t) \/ Fails(t) PROVE LocksInv'
    BY <1>2, LeavesBelow, OthersStillBelow DEF Bound, Fails
  <1>3. ASSUME NEW d \in Dests, Unforward(d) PROVE LocksInv'
    BY <1>3 DEF Unforward, place, LocksInv, HoldsBelow
  <1>4. CASE UNCHANGED vars
    BY <1>4 DEF vars, place, LocksInv, HoldsBelow
  <1> QED BY <1>1, <1>2, <1>3, <1>4, CallBelow, TakesLockBelow, DialledBelow DEF Next

LEMMA LocksInvariance == Spec => []LocksInv
  <1>1. Init => LocksInv
    BY TasksAssumption DEF Init, LocksInv, HoldsBelow
  <1> QED BY <1>1, LocksStep, TypeCorrect, PTL DEF Spec

(* Nobody waits for somebody who waits for it: every wait for a held lock  *)
(* is for a call under way, and a chain of waits goes up the levels; the   *)
(* forward lock is never waited for inside a tunnel's lock, nor a tunnel's *)
(* inside it (get_tunnel, forward_port).                                   *)
THEOREM WaitsAlwaysGoUp == Spec => []WaitsGoUp
  <1>1. TypeOK /\ LocksInv => WaitsGoUp
    BY DEF TypeOK, LocksInv, HoldsBelow, WaitsGoUp
  <1> QED BY <1>1, LocksInvariance, TypeCorrect, PTL

(* Who can go on: a call in a handshake, a bind or a teardown, which ends  *)
(* or fails; or one whose lock is free.                                    *)
GoesOn(t) ==
    \/ at[t] \in {"dial", "undo", "closing"}
    \/ at[t] = "lock" /\ holder[level[t]] = NoTask

LEMMA TheHighestGoesOn ==
  ASSUME TypeOK, WaitsGoUp, NEW t \in Tasks, at[t] # "idle"
  PROVE  \E o \in Tasks : GoesOn(o)
  <1> SUFFICES ASSUME \A o \in Tasks : ~GoesOn(o) PROVE FALSE
    OBVIOUS
  <1> DEFINE waiters == {o \in Tasks : at[o] = "lock"}
             room == {Depth - level[o] : o \in waiters}
  <1>1. \A o \in Tasks : level[o] \in 0..Depth /\ Depth \in Nat
    BY DepthAssumption DEF TypeOK
  <1>2. t \in waiters /\ room \in SUBSET Nat /\ room # {}
    <2>1. at[t] = "lock"
      BY DEF GoesOn, TypeOK
    <2>2. \A o \in waiters : Depth - level[o] \in Nat
      BY <1>1
    <2> QED BY <2>1, <2>2
  <1>3. PICK i \in room : \A j \in room : i <= j
    <2> HIDE DEF room
    <2> QED BY <1>2, TheLowest
  <1>4. PICK o \in waiters : i = Depth - level[o]
    BY <1>3
  <1>5. PICK h \in Tasks : h = holder[level[o]]
    BY <1>1, <1>4 DEF GoesOn, TypeOK
  <1>6. h \in waiters /\ level[o] < level[h]
    BY <1>4, <1>5, TasksAssumption DEF GoesOn, WaitsGoUp, TypeOK
  <1>7. i <= Depth - level[h]
    BY <1>3, <1>6
  <1> QED BY <1>1, <1>4, <1>6, <1>7

(* The locks of a chain of any length never come to a standstill: as long  *)
(* as somebody is in a call, somebody can go on, whatever tasks call,      *)
(* forward, close, fail or are cancelled.                                  *)
THEOREM NoStandstill == Spec => [](Quiet \/ \E o \in Tasks : GoesOn(o))
  <1>1. TypeOK /\ WaitsGoUp => Quiet \/ \E o \in Tasks : GoesOn(o)
    BY TheHighestGoesOn DEF Quiet
  <1> QED BY <1>1, WaitsAlwaysGoUp, TypeCorrect, PTL

=============================================================================
