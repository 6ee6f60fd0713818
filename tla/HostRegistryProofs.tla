------------------------- MODULE HostRegistryProofs -------------------------
(***************************************************************************)
(* Proofs that HostRegistry's safety properties hold for every set of      *)
(* hosts, loops, clients and users, every dependency relation and every    *)
(* bound on epochs.  IInv is inductive; each action has a lemma.  On it    *)
(* rest the refinement of LoopPromise, and StaleInv: why a close that      *)
(* outlives its drain is stale, and in which order a sweep closes hosts.   *)
(***************************************************************************)
EXTENDS HostRegistry, FiniteSetTheorems, WellFoundedInduction, TLAPS

LEMMA InitInv == Init => IInv
<1> SUFFICES ASSUME Init PROVE IInv
    OBVIOUS
<1> USE DEF Init
<1>1. TypeOK
    BY NoneAssumption DEF TypeOK, NoDrain, NoTask, ClientStates, TaskStates, DrainPhases
<1>2. RegistryIsExact
    BY NoneAssumption DEF RegistryIsExact
<1>3. ClosesAreBehind
    BY DEF ClosesAreBehind
<1>4. TasksMatchDrains
    BY DEF TasksMatchDrains, NoDrain, NoTask
<1>5. ClientsMatchLoops
    BY NoneAssumption DEF ClientsMatchLoops, NoDrain
<1>6. HeldCountsHolders
  <2>1. \A l \in Loops : Holders(l) = {}
    BY DEF Holders
  <2> QED
    BY <2>1, FS_EmptySet DEF HeldCountsHolders
<1>7. NobodyHoldsADrainingLoop
    BY DEF NobodyHoldsADrainingLoop
<1> QED
    BY <1>1, <1>2, <1>3, <1>4, <1>5, <1>6, <1>7 DEF IInv

----------------------------------------------------------------------------
(* Frames: a step that leaves one half of the state alone keeps the parts  *)
(* of IInv that speak of it.                                               *)

HostHalf == RegistryIsExact /\ ClosesAreBehind /\ TasksMatchDrains
ClientHalf == ClientsMatchLoops /\ HeldCountsHolders /\ NobodyHoldsADrainingLoop

LEMMA HostFrame ==
    ASSUME HostHalf, UNCHANGED <<hostVars, dead, records, rstate, drain, inflight>>
    PROVE  HostHalf'
<1> USE DEF HostHalf, hostVars
<1>1. RegistryIsExact'
    BY DEF RegistryIsExact
<1>2. ClosesAreBehind'
    BY DEF ClosesAreBehind
<1>3. TasksMatchDrains'
    BY DEF TasksMatchDrains
<1> QED
    BY <1>1, <1>2, <1>3

(* The counts of closed loops may be pruned: they are not counted. *)
LEMMA ClientFrame ==
    ASSUME ClientHalf, UNCHANGED <<dead, waiters, client>>,
           \A l \in Loops \ dead : held'[l] = held[l],
           \A l \in Loops : drain'[l].by = drain[l].by,
           \A l \in Loops : drain'[l].shut = drain[l].shut,
           \A l \in Loops : drain'[l] = NoDrain <=> drain[l] = NoDrain
    PROVE  ClientHalf'
<1> USE DEF ClientHalf
<1>1. \A l \in Loops : Holders(l)' = Holders(l)
    BY DEF Holders
<1>2. ClientsMatchLoops'
    BY DEF ClientsMatchLoops
<1>3. HeldCountsHolders'
    BY <1>1 DEF HeldCountsHolders
<1>4. NobodyHoldsADrainingLoop'
    BY <1>1 DEF NobodyHoldsADrainingLoop
<1> QED
    BY <1>2, <1>3, <1>4

(* Updating one cell of a table of tables, the shape of records and        *)
(* inflight, keeps its type and every other cell.                          *)
LEMMA CellUpdate ==
    ASSUME NEW T, NEW f \in [Loops -> [Hosts -> T]],
           NEW l \in Loops, NEW h \in Hosts, NEW v \in T
    PROVE  /\ [f EXCEPT ![l][h] = v] \in [Loops -> [Hosts -> T]]
           /\ \A k \in Loops, x \in Hosts :
                 [f EXCEPT ![l][h] = v][k][x] = IF k = l /\ x = h THEN v ELSE f[k][x]
OBVIOUS

LEMMA RegisterFacts ==
    ASSUME TypeOK, NEW l \in Loops, NEW h \in Hosts, NEW g \in Nat, Register(l, h, g)
    PROVE  /\ records' \in [Loops -> [Hosts -> Nat]]
           /\ rstate' \in [Loops -> {"none", "open", "draining", "shut"}]
           /\ held' \in [Loops -> Nat]
           /\ poked' \in [Loops -> BOOLEAN]
           /\ \A k \in Loops \ dead : held'[k] = held[k]
           /\ \A k \in Loops \ dead, x \in Hosts :
                 records'[k][x] = IF k = l /\ x = h THEN g ELSE records[k][x]
           /\ \A k \in Loops, x \in Hosts :
                 \/ records'[k][x] = records[k][x]
                 \/ records'[k][x] = 0
                 \/ records'[k][x] = g /\ x = h
           /\ (\A k \in dead : rstate[k] # "draining") =>
                 \A k \in Loops : rstate'[k] = "draining" <=> rstate[k] = "draining"
BY DEF TypeOK, Register, Poke, Pruned

----------------------------------------------------------------------------
(* The host's own steps. *)

(* What a new epoch does to every part of IInv: h moves to epoch g, and    *)
(* either a live loop registers it there or no live loop owns it.          *)
LEMMA NewEpoch ==
    ASSUME IInv, NEW h \in Hosts, NEW g \in Nat, g > gen[h],
           gen' = [gen EXCEPT ![h] = g],
           served' \in [Hosts -> Loops \cup {NoLoop}],
           mgr' \in [Hosts -> Nat],
           UNCHANGED <<closing, dead, waiters, client, drain, inflight>>,
           \/ /\ UNCHANGED <<records, rstate, held, poked, owner>>
              /\ owner[h] \notin Loops \ dead
           \/ \E l \in Loops \ dead :
                 /\ Register(l, h, g)
                 /\ owner' = [owner EXCEPT ![h] = l]
                 /\ owner[h] \in {l, NoLoop} \cup dead
    PROVE  IInv'
<1> USE DEF IInv
<1>0. gen[h] \in Nat /\ \A x \in Hosts : gen[x] <= gen'[x]
    BY DEF TypeOK
<1>1. CASE /\ UNCHANGED <<records, rstate, held, poked, owner>>
           /\ owner[h] \notin Loops \ dead
  <2>1. TypeOK'
    BY <1>0, <1>1 DEF TypeOK
  <2>2. RegistryIsExact'
    BY <1>1, NoneAssumption DEF TypeOK, RegistryIsExact
  <2>3. ClosesAreBehind'
    BY <1>0, <1>1 DEF TypeOK, ClosesAreBehind, CloseRecord
  <2>4. TasksMatchDrains'
    BY <1>0, <1>1 DEF TasksMatchDrains, TypeOK
  <2>5. ClientHalf'
    BY <1>1, ClientFrame DEF ClientHalf
  <2> QED
    BY <2>1, <2>2, <2>3, <2>4, <2>5 DEF ClientHalf
<1>2. ASSUME NEW l \in Loops \ dead, Register(l, h, g),
             owner' = [owner EXCEPT ![h] = l],
             owner[h] \in {l, NoLoop} \cup dead
      PROVE  IInv'
  <2> USE <1>0, <1>2
  <2>0. /\ records' \in [Loops -> [Hosts -> Nat]]
        /\ rstate' \in [Loops -> {"none", "open", "draining", "shut"}]
        /\ held' \in [Loops -> Nat]
        /\ poked' \in [Loops -> BOOLEAN]
        /\ \A k \in Loops \ dead : held'[k] = held[k]
        /\ \A k \in Loops \ dead, x \in Hosts :
              records'[k][x] = IF k = l /\ x = h THEN g ELSE records[k][x]
        /\ \A k \in Loops, x \in Hosts :
              \/ records'[k][x] = records[k][x]
              \/ records'[k][x] = 0
              \/ records'[k][x] = g /\ x = h
        /\ (\A k \in dead : rstate[k] # "draining") =>
              \A k \in Loops : rstate'[k] = "draining" <=> rstate[k] = "draining"
    BY RegisterFacts
  <2>1. TypeOK'
    BY <2>0 DEF TypeOK
  <2>2. RegistryIsExact'
    BY <2>0, NoneAssumption DEF TypeOK, RegistryIsExact
  <2>3. ClosesAreBehind'
    BY DEF TypeOK, ClosesAreBehind, CloseRecord
  <2>4. TasksMatchDrains'
    <3>1. \A k \in dead : rstate[k] # "draining"
      BY DEF TasksMatchDrains, TypeOK
    <3> QED
      BY <2>0, <3>1 DEF TasksMatchDrains, TypeOK
  <2>5. ClientHalf'
    BY <2>0, ClientFrame DEF ClientHalf
  <2> QED
    BY <2>1, <2>2, <2>3, <2>4, <2>5 DEF ClientHalf
<1> QED
    BY <1>1, <1>2

LEMMA ClaimLoopInv ==
    ASSUME IInv, NEW h \in Hosts, NEW l \in Loops, ClaimLoop(h, l)
    PROVE  IInv'
<1> DEFINE g == IF served[h] \notin {NoLoop, l} THEN gen[h] + 2 ELSE gen[h] + 1
<1>1. /\ g \in Nat /\ g > gen[h]
      /\ gen' = [gen EXCEPT ![h] = g]
      /\ owner' = [owner EXCEPT ![h] = l]
      /\ l \in Loops \ dead
      /\ owner[h] \in {l, NoLoop} \cup dead
      /\ Register(l, h, g)
      /\ served' \in [Hosts -> Loops \cup {NoLoop}]
      /\ mgr' \in [Hosts -> Nat]
      /\ UNCHANGED <<closing, dead, waiters, client, drain, inflight>>
    BY DEF ClaimLoop, IInv, TypeOK
<1> HIDE DEF g
<1> QED
    BY <1>1, NewEpoch

LEMMA RebuildInv ==
    ASSUME IInv, NEW h \in Hosts, RebuildConnections(h) PROVE IInv'
<1> DEFINE g == gen[h] + 1
<1>0. /\ g \in Nat /\ g > gen[h]
      /\ gen' = [gen EXCEPT ![h] = g]
      /\ served' \in [Hosts -> Loops \cup {NoLoop}]
      /\ mgr' \in [Hosts -> Nat]
      /\ UNCHANGED <<owner, closing, dead, waiters, client, drain, inflight>>
    BY DEF RebuildConnections, IInv, TypeOK
<1>1. CASE owner[h] # NoLoop /\ owner[h] \notin dead
  <2>1. owner[h] \in Loops \ dead /\ Register(owner[h], h, g)
    BY <1>1 DEF RebuildConnections, IInv, TypeOK
  <2>2. owner' = [owner EXCEPT ![h] = owner[h]]
    BY <1>0 DEF IInv, TypeOK
  <2> HIDE DEF g
  <2> QED
    BY <1>0, <2>1, <2>2, NewEpoch
<1>2. CASE ~(owner[h] # NoLoop /\ owner[h] \notin dead)
  <2>1. UNCHANGED <<records, rstate, held, poked>> /\ owner[h] \notin Loops \ dead
    BY <1>2, NoneAssumption DEF RebuildConnections
  <2> HIDE DEF g
  <2> QED
    BY <1>0, <2>1, NewEpoch
<1> QED
    BY <1>1, <1>2

LEMMA CloseByUserInv ==
    ASSUME IInv, NEW u \in Users, NEW h \in Hosts, CloseByUser(u, h) PROVE IInv'
<1> USE DEF IInv, CloseByUser, hostVars, registryVars, drainVars
<1>1. TypeOK'
    BY DEF TypeOK, NewClose, CloseRecord
<1>2. RegistryIsExact' /\ TasksMatchDrains'
    BY DEF RegistryIsExact, TasksMatchDrains
<1>3. ClosesAreBehind'
  <2>1. gen[h] # 0
    BY NoneAssumption DEF RegistryIsExact, TypeOK
  <2> QED
    BY <2>1, NoneAssumption DEF ClosesAreBehind, NewClose, TypeOK
<1>4. ClientHalf'
    BY ClientFrame DEF ClientHalf
<1> QED
    BY <1>1, <1>2, <1>3, <1>4 DEF ClientHalf

LEMMA CloseOnDeadLoopInv ==
    ASSUME IInv, NEW h \in Hosts, CloseOnDeadLoop(h) PROVE IInv'
<1> USE DEF IInv
<1>0. /\ owner[h] \in dead /\ owner[h] \in Loops
      /\ owner' = [owner EXCEPT ![h] = NoLoop]
      /\ served' = [served EXCEPT ![h] = NoLoop]
      /\ gen' = [gen EXCEPT ![h] = gen[h] + 1]
      /\ mgr' = [mgr EXCEPT ![h] = gen[h] + 1]
      /\ poked' \in [Loops -> BOOLEAN]
      /\ UNCHANGED <<closing, dead, rstate, held, waiters, client, drain, inflight>>
    BY NoneAssumption DEF TypeOK, CloseOnDeadLoop, Unregister, Poke
<1>a. /\ records' \in [Loops -> [Hosts -> Nat]]
      /\ \A k \in Loops, x \in Hosts :
            records'[k][x] = records[k][x] \/ (k \in dead /\ records'[k][x] = 0)
  <2>1. CASE records' = records
    BY <2>1 DEF TypeOK
  <2>2. CASE records' = [records EXCEPT ![owner[h]][h] = 0]
    BY <1>0, <2>2, CellUpdate DEF TypeOK
  <2> QED
    BY <2>1, <2>2 DEF CloseOnDeadLoop, Unregister
<1>1. TypeOK'
    BY <1>0, <1>a DEF TypeOK
<1>2. RegistryIsExact'
    BY <1>0, <1>a, NoneAssumption DEF RegistryIsExact, TypeOK
<1>3. ClosesAreBehind'
    BY <1>0 DEF ClosesAreBehind, TypeOK, CloseRecord
<1>4. TasksMatchDrains'
  <2>1. \A x \in Hosts : gen[x] <= gen'[x]
    BY <1>0 DEF TypeOK
  <2> QED
    BY <1>0, <1>a, <2>1 DEF TasksMatchDrains, TypeOK
<1>5. ClientHalf'
    BY <1>0, ClientFrame DEF ClientHalf
<1> QED
    BY <1>1, <1>2, <1>3, <1>4, <1>5 DEF ClientHalf

LEMMA CloseWorksInv ==
    ASSUME IInv, NEW z \in closing, CloseWorks(z) PROVE IInv'
<1> USE DEF IInv, CloseWorks, registryVars, drainVars
<1>1. TypeOK'
    BY DEF TypeOK, CloseRecord
<1>2. RegistryIsExact' /\ TasksMatchDrains'
    BY DEF RegistryIsExact, TasksMatchDrains
<1>3. ClosesAreBehind'
    BY DEF ClosesAreBehind, TypeOK, CloseRecord
<1>4. ClientHalf'
    BY ClientFrame DEF ClientHalf
<1> QED
    BY <1>1, <1>2, <1>3, <1>4 DEF ClientHalf

LEMMA CloseEndsInv ==
    ASSUME IInv, NEW z \in closing,
           NEW o \in {"finished", "failed", "cancelled"}, CloseEnds(z, o)
    PROVE  IInv'
<1> DEFINE h == z.host
           current == gen[h] = z.gen
           removes == z.by \in Loops /\ o # "cancelled"
           gone(l) == \/ l = z.owner /\ current /\ records[l][h] = z.gen
                      \/ l = z.by /\ removes /\ records[l][h] = z.gen
<1> USE DEF IInv
<1>0. /\ h \in Hosts /\ z.gen \in Nat /\ z.gen # 0 /\ z.gen <= gen[h]
      /\ z.owner \in Loops \ dead
      /\ current => owner[h] \in {z.owner, NoLoop}
      /\ z.by \in Loops => z.by = z.owner
    BY DEF TypeOK, CloseRecord, ClosesAreBehind
<1>a. /\ closing' = closing \ {z}
      /\ owner' = IF current THEN [owner EXCEPT ![h] = NoLoop] ELSE owner
      /\ records' = [l \in Loops |->
            IF gone(l) THEN [records[l] EXCEPT ![h] = 0] ELSE records[l]]
      /\ UNCHANGED <<served, gen, mgr, dead, rstate, held, waiters, client, drain>>
      /\ poked' \in [Loops -> BOOLEAN]
    BY DEF CloseEnds, TypeOK
<1>b. \/ inflight' = inflight
      \/ /\ z.by \in Loops
         /\ inflight[z.by][h].gen = z.gen
         /\ inflight[z.by][h].st = "running"
         /\ inflight' = [inflight EXCEPT ![z.by][h] = [gen |-> z.gen, st |-> o]]
    BY DEF CloseEnds, As
<1>1. TypeOK'
  <2>1. inflight' \in [Loops -> [Hosts -> [gen: Nat, st: TaskStates]]]
    <3>1. [gen |-> z.gen, st |-> o] \in [gen: Nat, st: TaskStates]
      BY <1>0 DEF TaskStates
    <3>2. CASE inflight' = inflight
      BY <3>2 DEF TypeOK
    <3>3. CASE /\ z.by \in Loops
               /\ inflight' = [inflight EXCEPT ![z.by][h] = [gen |-> z.gen, st |-> o]]
      BY <1>0, <3>1, <3>3, CellUpdate DEF TypeOK
    <3> QED
      BY <1>b, <3>2, <3>3
  <2> QED
    BY <1>0, <1>a, <2>1 DEF TypeOK
<1>2. RegistryIsExact'
  <2>1. \A l \in Loops \ dead, x \in Hosts :
            records'[l][x] # 0 =>
                x # h \/ ~current
    BY <1>0, <1>a, NoneAssumption DEF RegistryIsExact, TypeOK
  <2>2. ~current => \A l \in Loops \ dead : ~gone(l)
    BY <1>0 DEF RegistryIsExact, TypeOK
  <2> QED
    BY <1>0, <1>a, <2>1, <2>2, NoneAssumption DEF RegistryIsExact, TypeOK
<1>3. ClosesAreBehind'
    BY <1>0, <1>a DEF ClosesAreBehind, TypeOK, CloseRecord
<1>4. TasksMatchDrains'
  <2>1. \A l \in Loops, x \in Hosts : records'[l][x] \in {records[l][x], 0}
    BY <1>0, <1>a DEF TypeOK
  <2>2. z.by \in Loops => records'[z.by][h] # z.gen
    BY <1>0, <1>a DEF RegistryIsExact, TypeOK
  <2>3. CASE inflight' = inflight
    BY <1>a, <2>1, <2>3 DEF TasksMatchDrains, TypeOK
  <2>4. CASE inflight' # inflight
    <3>1. \A l \in Loops, x \in Hosts :
              \/ inflight'[l][x] = inflight[l][x]
              \/ /\ l = z.by /\ x = h
                 /\ inflight[l][x].st = "running"
                 /\ inflight'[l][x].gen = inflight[l][x].gen
                 /\ inflight'[l][x].gen = z.gen
      BY <1>0, <1>b, <2>4 DEF TypeOK
    <3>2. \A l \in Loops, x \in Hosts :
              inflight[l][x].st = "running" => drain[l] # NoDrain
      BY DEF TasksMatchDrains, NoTask
    <3> QED
      BY <1>0, <1>a, <2>1, <2>2, <3>1, <3>2 DEF TasksMatchDrains, TypeOK
  <2> QED
    BY <2>3, <2>4
<1>5. ClientHalf'
    BY <1>a, ClientFrame DEF ClientHalf
<1> QED
    BY <1>1, <1>2, <1>3, <1>4, <1>5 DEF ClientHalf

----------------------------------------------------------------------------
(* The drain's steps. *)

(* A step that only moves a running drain to another phase. *)
LEMMA DrainFacts ==
    ASSUME TypeOK, NEW l \in Loops, NEW p \in DrainPhases \ {"none"},
           drain[l].phase # "none", drain' = [drain EXCEPT ![l] = In(drain[l], p)]
    PROVE  /\ drain' \in [Loops -> [phase: DrainPhases, by: Clients \cup {NoClient},
                                    shut: BOOLEAN]]
           /\ \A k \in Loops : drain'[k].by = drain[k].by
           /\ \A k \in Loops : drain'[k].shut = drain[k].shut
           /\ \A k \in Loops : drain'[k] = NoDrain <=> drain[k] = NoDrain
           /\ drain'[l].phase = p
           /\ \A k \in Loops : k # l => drain'[k] = drain[k]
<1>1. In(drain[l], p) \in [phase: DrainPhases, by: Clients \cup {NoClient}, shut: BOOLEAN]
    BY DEF TypeOK, In
<1>2. /\ drain'[l] = In(drain[l], p)
      /\ \A k \in Loops : k # l => drain'[k] = drain[k]
    BY DEF TypeOK
<1>3. /\ drain'[l].by = drain[l].by /\ drain'[l].shut = drain[l].shut
      /\ drain'[l].phase = p
    BY <1>2 DEF In
<1>4. drain'[l] # NoDrain /\ drain[l] # NoDrain
    BY <1>3 DEF NoDrain
<1>5. drain' \in [Loops -> [phase: DrainPhases, by: Clients \cup {NoClient}, shut: BOOLEAN]]
    BY <1>1 DEF TypeOK
<1> QED
    BY <1>2, <1>3, <1>4, <1>5

LEMMA SweepTurnInv ==
    ASSUME IInv, NEW l \in Loops, SweepTurn(l) PROVE IInv'
<1> USE DEF IInv
<1> DEFINE p == IF \E h \in Hosts : KeptRecord(l, h) # 0 \/ Outstanding(l, h)
                THEN "sweeping" ELSE "returned"
<1>0. /\ drain[l].phase = "sweeping"
      /\ records' = [records EXCEPT ![l] = [h \in Hosts |-> KeptRecord(l, h)]]
      /\ inflight' = [inflight EXCEPT ![l] = [h \in Hosts |->
            IF h \in Ready(l) THEN [gen |-> KeptRecord(l, h), st |-> "pending"]
                              ELSE KeptTask(l, h)]]
      /\ poked' = [poked EXCEPT ![l] = FALSE]
      /\ drain' = [drain EXCEPT ![l] = In(drain[l], p)]
    BY DEF SweepTurn
<1>i. UNCHANGED <<owner, served, gen, mgr, closing, dead, rstate, held, waiters, client>>
    BY DEF SweepTurn, hostVars
<1>a. p \in DrainPhases \ {"none"} /\ drain[l].phase # "none"
    BY <1>0 DEF DrainPhases
<1> HIDE DEF p
<1>b. /\ drain' \in [Loops -> [phase: DrainPhases, by: Clients \cup {NoClient},
                                shut: BOOLEAN]]
      /\ \A k \in Loops : drain'[k].by = drain[k].by
      /\ \A k \in Loops : drain'[k].shut = drain[k].shut
      /\ \A k \in Loops : drain'[k] = NoDrain <=> drain[k] = NoDrain
      /\ drain'[l].phase = p
      /\ \A k \in Loops : k # l => drain'[k] = drain[k]
    BY <1>0, <1>a, DrainFacts
<1>c. drain[l] # NoDrain /\ l \notin dead
    BY <1>0 DEF TasksMatchDrains, NoDrain
<1>d. \A h \in Hosts :
          /\ KeptRecord(l, h) \in Nat
          /\ KeptRecord(l, h) = records[l][h] \/ KeptRecord(l, h) = 0
    BY DEF KeptRecord, TypeOK
<1>e. \A h \in Hosts : owner[h] = l => KeptRecord(l, h) = records[l][h]
    BY <1>0, <1>c DEF KeptRecord, TasksMatchDrains, RegistryIsExact
<1>f. \A h \in Ready(l) : h \in Hosts /\ KeptRecord(l, h) # 0
    BY DEF Ready
<1>g. \A h \in Hosts :
          \/ inflight'[l][h].st = "pending" /\ inflight'[l][h].gen # 0
             /\ inflight'[l][h].gen <= gen[h]
          \/ inflight'[l][h] = NoTask
          \/ inflight'[l][h] = inflight[l][h] /\ inflight'[l][h].st # "cancelled"
  <2> TAKE h \in Hosts
  <2>1. CASE h \in Ready(l)
    <3>1. inflight'[l][h] = [gen |-> KeptRecord(l, h), st |-> "pending"]
      BY <1>0, <2>1 DEF TypeOK
    <3>2. KeptRecord(l, h) # 0 /\ KeptRecord(l, h) <= gen[h]
      BY <1>c, <1>d, <1>f, <2>1 DEF RegistryIsExact, TypeOK
    <3> QED
      BY <3>1, <3>2
  <2>2. CASE h \notin Ready(l)
    <3>1. inflight'[l][h] = KeptTask(l, h)
      BY <1>0, <2>2 DEF TypeOK
    <3> QED
      BY <3>1 DEF KeptTask, Done
  <2> QED
    BY <2>1, <2>2
<1>h. inflight' \in [Loops -> [Hosts -> [gen: Nat, st: TaskStates]]]
  <2>1. \A h \in Hosts : KeptTask(l, h) \in [gen: Nat, st: TaskStates]
    BY DEF KeptTask, NoTask, TypeOK, TaskStates
  <2>2. \A h \in Hosts :
            [gen |-> KeptRecord(l, h), st |-> "pending"] \in [gen: Nat, st: TaskStates]
    BY <1>d DEF TaskStates
  <2> QED
    BY <1>0, <2>1, <2>2 DEF TypeOK
<1>1. TypeOK'
    BY <1>0, <1>i, <1>b, <1>d, <1>h DEF TypeOK
<1>2. RegistryIsExact'
    BY <1>0, <1>i, <1>c, <1>d, <1>e DEF RegistryIsExact, TypeOK
<1>3. ClosesAreBehind'
    BY <1>i DEF ClosesAreBehind
<1>4. TasksMatchDrains'
  <2>1. \A k \in Loops : k # l => inflight'[k] = inflight[k] /\ records'[k] = records[k]
    BY <1>0 DEF TypeOK
  <2>2. \A h \in Hosts : inflight'[l][h].st # "cancelled"
    BY <1>g DEF NoTask
  <2>3. drain'[l].phase # "none"
    BY <1>a, <1>b
  <2> QED
    BY <1>i, <1>b, <1>c, <1>g, <2>1, <2>2, <2>3 DEF TasksMatchDrains, NoTask
<1>5. ClientHalf'
    BY <1>i, <1>b, ClientFrame DEF ClientHalf
<1> QED
    BY <1>1, <1>2, <1>3, <1>4, <1>5 DEF ClientHalf

(* A step that only moves a running drain to a phase before the cut. *)
LEMMA PhaseInv ==
    ASSUME IInv, NEW l \in Loops, NEW p \in DrainPhases \ {"none"},
           drain[l].phase \notin {"none", "cutting"},
           drain' = [drain EXCEPT ![l] = In(drain[l], p)],
           poked' \in [Loops -> BOOLEAN],
           UNCHANGED <<owner, served, gen, mgr, closing, dead, records, rstate, held,
                       waiters, client, inflight>>
    PROVE  IInv'
<1> USE DEF IInv
<1>a. /\ drain' \in [Loops -> [phase: DrainPhases, by: Clients \cup {NoClient},
                                shut: BOOLEAN]]
      /\ \A k \in Loops : drain'[k].by = drain[k].by
      /\ \A k \in Loops : drain'[k].shut = drain[k].shut
      /\ \A k \in Loops : drain'[k] = NoDrain <=> drain[k] = NoDrain
      /\ drain'[l].phase = p
      /\ \A k \in Loops : k # l => drain'[k] = drain[k]
    BY DrainFacts
<1>1. TypeOK'
    BY <1>a DEF TypeOK
<1>2. RegistryIsExact'
    BY DEF RegistryIsExact
<1>3. ClosesAreBehind'
    BY DEF ClosesAreBehind
<1>4. TasksMatchDrains'
  <2>1. drain'[l].phase # "none"
    BY <1>a
  <2> QED
    BY <1>a, <2>1 DEF TasksMatchDrains
<1>5. ClientHalf'
    BY <1>a, ClientFrame DEF ClientHalf
<1> QED
    BY <1>1, <1>2, <1>3, <1>4, <1>5 DEF ClientHalf

LEMMA CloseStartsInv ==
    ASSUME IInv, NEW l \in Loops, NEW h \in Hosts, CloseStarts(l, h) PROVE IInv'
<1> USE DEF IInv
<1> DEFINE current == records[l][h] = inflight[l][h].gen
           task == As(inflight[l][h], IF current THEN "running" ELSE "finished")
<1>0. /\ inflight[l][h].st = "pending"
      /\ closing' = IF current THEN closing \cup {NewClose(h, l)} ELSE closing
      /\ inflight' = [inflight EXCEPT ![l][h] = task]
    BY DEF CloseStarts, As
<1>i. UNCHANGED <<owner, served, gen, mgr, dead, records, rstate, held, waiters,
                  client, drain, poked>>
    BY DEF CloseStarts, registryVars
<1>a. drain[l] # NoDrain /\ l \notin dead /\ inflight[l][h].gen # 0
    BY <1>0 DEF TasksMatchDrains, NoTask
<1>b. current => owner[h] = l /\ gen[h] # 0
    BY <1>a DEF RegistryIsExact, TypeOK
<1>c. /\ task \in [gen: Nat, st: TaskStates]
      /\ task.gen = inflight[l][h].gen
      /\ task.st \in {"running", "finished"}
    BY DEF As, TaskStates, TypeOK
<1>d. NewClose(h, l) \in CloseRecord
    BY DEF NewClose, CloseRecord, TypeOK
<1> HIDE DEF task
<1>e. /\ inflight' \in [Loops -> [Hosts -> [gen: Nat, st: TaskStates]]]
      /\ \A k \in Loops, x \in Hosts :
            inflight'[k][x] = IF k = l /\ x = h THEN task ELSE inflight[k][x]
    BY <1>0, <1>c, CellUpdate DEF TypeOK
<1>1. TypeOK'
    BY <1>0, <1>i, <1>d, <1>e DEF TypeOK
<1>2. RegistryIsExact'
    BY <1>i DEF RegistryIsExact
<1>3. ClosesAreBehind'
    BY <1>0, <1>i, <1>a, <1>b DEF ClosesAreBehind, NewClose, TypeOK
<1>4. TasksMatchDrains'
    BY <1>0, <1>i, <1>a, <1>c, <1>e DEF TasksMatchDrains
<1>5. ClientHalf'
    BY <1>i, ClientFrame DEF ClientHalf
<1> QED
    BY <1>1, <1>2, <1>3, <1>4, <1>5 DEF ClientHalf

LEMMA SweepDiesInv ==
    ASSUME IInv, NEW l \in Loops, SweepDies(l) PROVE IInv'
<1> USE DEF IInv
<1>0. /\ drain[l].phase = "sweeping"
      /\ drain' = [drain EXCEPT ![l] = In(drain[l], "died")]
      /\ "died" \in DrainPhases \ {"none"}
      /\ poked' \in [Loops -> BOOLEAN]
    BY DEF SweepDies, DrainPhases, TypeOK
<1>i. UNCHANGED <<owner, served, gen, mgr, closing, dead, records, rstate, held,
                  waiters, client, inflight>>
    BY DEF SweepDies, hostVars, registryVars
<1> QED
    BY <1>0, <1>i, PhaseInv

LEMMA SweepAgainInv ==
    ASSUME IInv, NEW l \in Loops, SweepAgain(l) PROVE IInv'
<1> USE DEF IInv
<1>0. /\ drain[l].phase = "returned"
      /\ drain' = [drain EXCEPT ![l] = In(drain[l], "sweeping")]
      /\ "sweeping" \in DrainPhases \ {"none"}
      /\ poked' \in [Loops -> BOOLEAN]
    BY DEF SweepAgain, DrainPhases, TypeOK
<1>i. UNCHANGED <<owner, served, gen, mgr, closing, dead, records, rstate, held,
                  waiters, client, inflight>>
    BY DEF SweepAgain, hostVars, registryVars
<1> QED
    BY <1>0, <1>i, PhaseInv

LEMMA CutShortInv ==
    ASSUME IInv, NEW l \in Loops, CutShort(l) PROVE IInv'
<1> USE DEF IInv
<1>0. /\ drain[l].phase # "none"
      /\ drain' = [drain EXCEPT ![l] = In(drain[l], "cutting")]
      /\ "cutting" \in DrainPhases \ {"none"}
    BY DEF CutShort, Expired, DrainPhases
<1>i. UNCHANGED <<owner, served, gen, mgr, closing, dead, records, rstate, held,
                  waiters, client, poked>>
    BY DEF CutShort, hostVars, registryVars
<1>a. /\ drain' \in [Loops -> [phase: DrainPhases, by: Clients \cup {NoClient},
                                shut: BOOLEAN]]
      /\ \A k \in Loops : drain'[k].by = drain[k].by
      /\ \A k \in Loops : drain'[k].shut = drain[k].shut
      /\ \A k \in Loops : drain'[k] = NoDrain <=> drain[k] = NoDrain
      /\ drain'[l].phase = "cutting"
      /\ \A k \in Loops : k # l => drain'[k] = drain[k]
    BY <1>0, DrainFacts
<1>b. /\ \A x \in Hosts :
            \/ inflight'[l][x] = NoTask
            \/ inflight'[l][x] = inflight[l][x] /\ inflight[l][x].st = "running"
            \/ /\ inflight'[l][x] = As(inflight[l][x], "cancelled")
               /\ inflight[l][x].st = "pending"
      /\ \A k \in Loops : k # l => inflight'[k] = inflight[k]
    BY DEF CutShort, TypeOK
<1>c. inflight' \in [Loops -> [Hosts -> [gen: Nat, st: TaskStates]]]
  <2>1. \A x \in Hosts :
          (CASE inflight[l][x].st = "pending" -> As(inflight[l][x], "cancelled")
             [] inflight[l][x].st = "running" -> inflight[l][x]
             [] OTHER -> NoTask) \in [gen: Nat, st: TaskStates]
    BY DEF As, NoTask, TypeOK, TaskStates
  <2> QED
    BY <2>1 DEF CutShort, TypeOK
<1>1. TypeOK'
    BY <1>i, <1>a, <1>c DEF TypeOK
<1>2. RegistryIsExact'
    BY <1>i DEF RegistryIsExact
<1>3. ClosesAreBehind'
    BY <1>i DEF ClosesAreBehind
<1>4. TasksMatchDrains'
  <2>1. \A x \in Hosts : inflight'[l][x].st # "none" =>
            inflight'[l][x].gen # 0 /\ inflight'[l][x].gen <= gen[x]
    <3> TAKE x \in Hosts
    <3>1. inflight[l][x].st # "none" =>
              inflight[l][x].gen # 0 /\ inflight[l][x].gen <= gen[x]
      BY DEF TasksMatchDrains
    <3>2. \/ inflight'[l][x].st = "none"
          \/ /\ inflight'[l][x].gen = inflight[l][x].gen
             /\ inflight[l][x].st # "none"
      <4>1. CASE inflight'[l][x] = NoTask
        BY <4>1 DEF NoTask
      <4>2. CASE inflight'[l][x] = inflight[l][x] /\ inflight[l][x].st = "running"
        BY <4>2
      <4>3. CASE /\ inflight'[l][x] = As(inflight[l][x], "cancelled")
                 /\ inflight[l][x].st = "pending"
        BY <4>3 DEF As
      <4> QED
        BY <1>b, <4>1, <4>2, <4>3
    <3> QED
      BY <3>1, <3>2
  <2>2. drain[l] # NoDrain
    BY <1>0 DEF NoDrain
  <2> QED
    BY <1>i, <1>a, <1>b, <2>1, <2>2 DEF TasksMatchDrains
<1>5. ClientHalf'
    BY <1>i, <1>a, ClientFrame DEF ClientHalf
<1> QED
    BY <1>1, <1>2, <1>3, <1>4, <1>5 DEF ClientHalf

(* What the end of a drain does to clients and counts.  The admitted       *)
(* waiters become the holders, all of them on the drained loop.            *)
LEMMA EndDrainFacts ==
    ASSUME IInv, NEW l \in Loops, drain[l] # NoDrain, EndDrain(l), dead' = dead
    PROVE  /\ ClientHalf'
           /\ rstate' \in [Loops -> {"none", "open", "draining", "shut"}]
           /\ held' \in [Loops -> Nat]
           /\ waiters' \in [Loops -> SUBSET Clients]
           /\ client' \in [Clients -> ClientStates]
           /\ poked' \in [Loops -> BOOLEAN]
           /\ drain' = [drain EXCEPT ![l] = NoDrain]
           /\ inflight' = [inflight EXCEPT ![l] = [h \in Hosts |-> NoTask]]
           /\ rstate'[l] # "draining"
           /\ \A k \in Loops : k # l => rstate'[k] = rstate[k]
<1> USE DEF IInv
<1> DEFINE admitted == {c \in waiters[l] : client[c] = "waiting"}
           shut == drain[l].shut
           count == IF shut THEN held[l] ELSE held[l] + Cardinality(admitted)
<1>0. /\ rstate' = [rstate EXCEPT ![l] =
            IF shut THEN "shut" ELSE IF count = 0 THEN "none" ELSE "open"]
      /\ held' = [held EXCEPT ![l] = count]
      /\ waiters' = [waiters EXCEPT ![l] = {}]
      /\ client' = [c \in Clients |->
            IF c \in admitted THEN IF shut THEN "refused" ELSE "granted"
            ELSE IF c = drain[l].by THEN "idle" ELSE client[c]]
      /\ drain' = [drain EXCEPT ![l] = NoDrain]
      /\ inflight' = [inflight EXCEPT ![l] = [h \in Hosts |-> NoTask]]
      /\ poked' = [poked EXCEPT ![l] = FALSE]
    BY DEF EndDrain
<1>a. /\ admitted \subseteq Clients
      /\ \A c \in admitted : LoopOf[c] = l /\ client[c] = "waiting"
      /\ l \notin dead
    BY DEF ClientsMatchLoops, TasksMatchDrains, TypeOK
<1>b. IsFiniteSet(admitted) /\ Cardinality(admitted) \in Nat
    BY <1>a, ClientsAssumption, FS_Subset, FS_CardinalityType
<1>c. drain[l].by \in Clients => client[drain[l].by] = "draining" /\ LoopOf[drain[l].by] = l
    BY DEF ClientsMatchLoops
<1> HIDE DEF admitted
<1>d. count \in Nat
    BY <1>b DEF TypeOK
<1>e. \A k \in Loops : k # l \/ shut => Holders(k)' = Holders(k)
    BY <1>0, <1>a, <1>c DEF Holders, TypeOK
<1>f. ~shut => Holders(l)' = Holders(l) \cup admitted /\ Holders(l) \cap admitted = {}
    BY <1>0, <1>a, <1>c DEF Holders, TypeOK
<1>g. count = Cardinality(Holders(l)')
  <2>1. IsFiniteSet(Holders(l)) /\ held[l] = Cardinality(Holders(l))
    BY <1>a, ClientsAssumption, FS_Subset DEF Holders, HeldCountsHolders
  <2>2. CASE shut
    BY <1>e, <2>1, <2>2
  <2>3. CASE ~shut
    <3>1. Cardinality(Holders(l) \cup admitted) =
              Cardinality(Holders(l)) + Cardinality(admitted) - Cardinality({})
      BY <1>b, <1>f, <2>1, <2>3, FS_Union
    <3>2. Holders(l)' = Holders(l) \cup admitted
      BY <1>f, <2>3
    <3>3. count = Cardinality(Holders(l)) + Cardinality(admitted)
      BY <2>1, <2>3
    <3>4. Cardinality(Holders(l)) \in Nat /\ Cardinality({}) = 0
      BY <2>1, FS_EmptySet, FS_CardinalityType
    <3>5. count = Cardinality(Holders(l) \cup admitted)
      BY <1>b, <3>1, <3>3, <3>4
    <3> QED
      BY <3>2, <3>5
  <2> QED
    BY <2>2, <2>3
<1> HIDE DEF count
<1>1. ClientsMatchLoops'
  <2>1. \A k \in Loops : drain'[k].by \in Clients => k # l /\ drain'[k] = drain[k]
    BY <1>0, NoneAssumption DEF NoDrain, TypeOK
  <2>2. \A k \in Loops : drain[k].by \in Clients /\ k # l =>
            client'[drain[k].by] = client[drain[k].by]
    BY <1>0, <1>a, <1>c DEF ClientsMatchLoops, TypeOK
  <2>3. \A k \in Loops : waiters'[k] = waiters[k] \/ waiters'[k] = {}
    BY <1>0 DEF TypeOK
  <2> QED
    BY <2>1, <2>2, <2>3 DEF ClientsMatchLoops
<1>2. HeldCountsHolders'
  <2>1. held'[l] = count /\ \A k \in Loops : k # l => held'[k] = held[k]
    BY <1>0 DEF TypeOK
  <2> QED
    BY <1>e, <1>g, <2>1 DEF HeldCountsHolders
<1>3. NobodyHoldsADrainingLoop'
  <2>1. drain'[l] = NoDrain /\ \A k \in Loops : k # l => drain'[k] = drain[k]
    BY <1>0 DEF TypeOK
  <2> QED
    BY <1>e, <2>1 DEF NobodyHoldsADrainingLoop
<1>4. client' \in [Clients -> ClientStates]
    BY <1>0 DEF TypeOK, ClientStates
<1>5. /\ rstate' \in [Loops -> {"none", "open", "draining", "shut"}]
      /\ held' \in [Loops -> Nat]
      /\ waiters' \in [Loops -> SUBSET Clients]
      /\ poked' \in [Loops -> BOOLEAN]
      /\ rstate'[l] # "draining"
      /\ \A k \in Loops : k # l => rstate'[k] = rstate[k]
    BY <1>0, <1>d DEF TypeOK
<1> QED
    BY <1>0, <1>1, <1>2, <1>3, <1>4, <1>5 DEF ClientHalf

(* The ended drain leaves no task, and the other loops' tasks as they were. *)
LEMMA EndDrainTasks ==
    ASSUME IInv, NEW l \in Loops, dead' = dead,
           drain' = [drain EXCEPT ![l] = NoDrain],
           inflight' = [inflight EXCEPT ![l] = [h \in Hosts |-> NoTask]],
           rstate'[l] # "draining",
           \A k \in Loops : k # l => rstate'[k] = rstate[k],
           \A k \in Loops : k # l => records'[k] = records[k],
           gen' \in [Hosts -> Nat], \A h \in Hosts : gen[h] <= gen'[h]
    PROVE  /\ TasksMatchDrains'
           /\ drain' \in [Loops -> [phase: DrainPhases, by: Clients \cup {NoClient},
                                    shut: BOOLEAN]]
           /\ inflight' \in [Loops -> [Hosts -> [gen: Nat, st: TaskStates]]]
<1> USE DEF IInv
<1>1. /\ drain'[l] = NoDrain
      /\ \A h \in Hosts : inflight'[l][h] = NoTask
      /\ \A k \in Loops : k # l => drain'[k] = drain[k] /\ inflight'[k] = inflight[k]
    BY DEF TypeOK
<1>2. NoTask \in [gen: Nat, st: TaskStates] /\ NoTask.st = "none"
    BY DEF NoTask, TaskStates
<1>3. NoDrain \in [phase: DrainPhases, by: Clients \cup {NoClient}, shut: BOOLEAN]
    BY DEF NoDrain, DrainPhases
<1>4. TasksMatchDrains'
  <2>1. \A k \in Loops, h \in Hosts : inflight[k][h].gen <= gen[h] =>
            inflight[k][h].gen <= gen'[h]
    BY DEF TypeOK
  <2> QED
    BY <1>1, <1>2, <2>1 DEF TasksMatchDrains
<1> QED
    BY <1>2, <1>3, <1>4 DEF TypeOK

LEMMA EndCleanInv ==
    ASSUME IInv, NEW l \in Loops, EndClean(l) PROVE IInv'
<1> USE DEF IInv
<1>0. /\ UNCHANGED <<owner, served, gen, mgr, closing, dead, records>>
      /\ EndDrain(l) /\ drain[l] # NoDrain
    BY DEF EndClean, hostVars, NoDrain
<1>a. /\ ClientHalf'
      /\ rstate' \in [Loops -> {"none", "open", "draining", "shut"}]
      /\ held' \in [Loops -> Nat]
      /\ waiters' \in [Loops -> SUBSET Clients]
      /\ client' \in [Clients -> ClientStates]
      /\ poked' \in [Loops -> BOOLEAN]
      /\ drain' = [drain EXCEPT ![l] = NoDrain]
      /\ inflight' = [inflight EXCEPT ![l] = [h \in Hosts |-> NoTask]]
      /\ rstate'[l] # "draining"
      /\ \A k \in Loops : k # l => rstate'[k] = rstate[k]
    BY <1>0, EndDrainFacts
<1>b. gen' \in [Hosts -> Nat] /\ \A h \in Hosts : gen[h] <= gen'[h]
    BY <1>0 DEF TypeOK
<1>c. /\ TasksMatchDrains'
      /\ drain' \in [Loops -> [phase: DrainPhases, by: Clients \cup {NoClient},
                               shut: BOOLEAN]]
      /\ inflight' \in [Loops -> [Hosts -> [gen: Nat, st: TaskStates]]]
    BY <1>0, <1>a, <1>b, EndDrainTasks
<1>1. TypeOK'
    BY <1>0, <1>a, <1>c DEF TypeOK
<1>2. RegistryIsExact' /\ ClosesAreBehind'
    BY <1>0 DEF RegistryIsExact, ClosesAreBehind
<1> QED
    BY <1>a, <1>c, <1>1, <1>2 DEF ClientHalf

LEMMA EndAbandoningInv ==
    ASSUME IInv, NEW l \in Loops, EndAbandoning(l) PROVE IInv'
<1> USE DEF IInv
<1>0. EndDrain(l) /\ AbandonOutstanding(l) /\ drain[l] # NoDrain
  <2>1. drain[l].phase # "none"
    BY DEF EndAbandoning, Expired
  <2> QED
    BY <2>1 DEF EndAbandoning, NoDrain
<1>i. UNCHANGED <<closing, dead>>
    BY <1>0 DEF AbandonOutstanding
<1>a. /\ ClientHalf'
      /\ rstate' \in [Loops -> {"none", "open", "draining", "shut"}]
      /\ held' \in [Loops -> Nat]
      /\ waiters' \in [Loops -> SUBSET Clients]
      /\ client' \in [Clients -> ClientStates]
      /\ poked' \in [Loops -> BOOLEAN]
      /\ drain' = [drain EXCEPT ![l] = NoDrain]
      /\ inflight' = [inflight EXCEPT ![l] = [h \in Hosts |-> NoTask]]
      /\ rstate'[l] # "draining"
      /\ \A k \in Loops : k # l => rstate'[k] = rstate[k]
    BY <1>0, <1>i, EndDrainFacts
<1>b. /\ owner' \in [Hosts -> Loops \cup {NoLoop}]
      /\ served' \in [Hosts -> Loops \cup {NoLoop}]
      /\ gen' \in [Hosts -> Nat]
      /\ mgr' \in [Hosts -> Nat]
      /\ records' \in [Loops -> [Hosts -> Nat]]
    BY <1>0 DEF AbandonOutstanding, TypeOK
<1>c. \A h \in Hosts :
          /\ h \in Abandoned(l) => owner'[h] = NoLoop /\ gen'[h] = gen[h] + 1
          /\ h \notin Abandoned(l) => owner'[h] = owner[h] /\ gen'[h] = gen[h]
          /\ gen[h] <= gen'[h]
    BY <1>0 DEF AbandonOutstanding, TypeOK
<1>d. /\ \A h \in Hosts : records'[l][h] = 0
      /\ \A k \in Loops : k # l => records'[k] = records[k]
    BY <1>0 DEF AbandonOutstanding, TypeOK
<1>e. l \notin dead
    BY <1>0 DEF TasksMatchDrains
<1>f. \A h \in Hosts : owner[h] = l => h \in Abandoned(l)
    BY <1>e DEF RegistryIsExact, Abandoned, AbandonAt
<1>g. \A h \in Abandoned(l) : owner[h] \in {NoLoop, l}
    BY DEF Abandoned
<1>h. /\ TasksMatchDrains'
      /\ drain' \in [Loops -> [phase: DrainPhases, by: Clients \cup {NoClient},
                               shut: BOOLEAN]]
      /\ inflight' \in [Loops -> [Hosts -> [gen: Nat, st: TaskStates]]]
    BY <1>0, <1>i, <1>a, <1>b, <1>c, <1>d, EndDrainTasks
<1>1. TypeOK'
    BY <1>i, <1>a, <1>b, <1>h DEF TypeOK
<1>2. RegistryIsExact'
  <2>1. \A k \in Loops \ dead, h \in Hosts : records'[k][h] # 0 =>
            k # l /\ records[k][h] # 0 /\ owner[h] = k /\ h \notin Abandoned(l)
    BY <1>d, <1>g, NoneAssumption DEF RegistryIsExact
  <2>2. \A k \in Loops \ dead, h \in Hosts : records'[k][h] # 0 =>
            owner'[h] = k /\ records'[k][h] = gen'[h]
    BY <1>c, <1>d, <2>1 DEF RegistryIsExact
  <2>3. \A h \in Hosts : owner'[h] \in Loops \ dead =>
            owner'[h] = owner[h] /\ owner[h] # l
    BY <1>c, <1>f, NoneAssumption
  <2>4. \A h \in Hosts : owner'[h] \in Loops \ dead => records'[owner'[h]][h] # 0
    BY <1>d, <2>3 DEF RegistryIsExact
  <2> QED
    BY <1>i, <2>2, <2>4 DEF RegistryIsExact
<1>3. ClosesAreBehind'
    BY <1>i, <1>b, <1>c DEF ClosesAreBehind, TypeOK, CloseRecord
<1> QED
    BY <1>a, <1>h, <1>1, <1>2, <1>3 DEF ClientHalf

----------------------------------------------------------------------------
(* The boundaries' steps. *)

(* Pruning closed loops, and starting the drain of a live one, keep the    *)
(* host half.                                                              *)
LEMMA BoundaryFrame ==
    ASSUME HostHalf, UNCHANGED <<owner, gen, closing, dead, inflight>>,
           \A k \in Loops \ dead : records'[k] = records[k],
           \A k \in Loops, h \in Hosts :
              records'[k][h] = records[k][h] \/ records'[k][h] = 0,
           \A k \in Loops :
              \/ /\ drain'[k] = drain[k]
                 /\ rstate'[k] = "draining" <=> rstate[k] = "draining"
              \/ /\ k \notin dead
                 /\ rstate'[k] = "draining" /\ drain'[k].phase = "sweeping"
                 /\ rstate[k] # "draining"
    PROVE  HostHalf'
<1> USE DEF HostHalf
<1>1. RegistryIsExact'
    BY DEF RegistryIsExact
<1>2. ClosesAreBehind'
    BY DEF ClosesAreBehind
<1>3. TasksMatchDrains'
  <2>1. \A k \in Loops :
            \/ /\ drain'[k] = drain[k]
               /\ rstate'[k] = "draining" <=> rstate[k] = "draining"
            \/ /\ k \notin dead
               /\ rstate'[k] = "draining"
               /\ drain'[k].phase = "sweeping" /\ drain'[k] # NoDrain
               /\ \A h \in Hosts : inflight[k][h].st = "none"
    <3>1. \A k \in Loops, h \in Hosts :
              rstate[k] # "draining" => inflight[k][h].st = "none"
      BY DEF TasksMatchDrains, NoTask
    <3>2. \A k \in Loops : drain'[k].phase = "sweeping" => drain'[k] # NoDrain
      BY DEF NoDrain
    <3> QED
      BY <3>1, <3>2
  <2>2. \A k \in Loops :
            /\ rstate'[k] = "draining" <=> drain'[k] # NoDrain
            /\ drain'[k].phase = "none" => drain'[k] = NoDrain
            /\ k \in dead => drain'[k] = NoDrain
    BY <2>1 DEF TasksMatchDrains
  <2>3. \A k \in Loops, h \in Hosts :
            /\ drain'[k] = NoDrain => inflight[k][h] = NoTask
            /\ inflight[k][h].st # "none" =>
                  inflight[k][h].gen # 0 /\ inflight[k][h].gen <= gen[h]
    BY <2>1 DEF TasksMatchDrains
  <2>4. \A k \in Loops, h \in Hosts :
            inflight[k][h].st = "cancelled" /\ drain'[k].phase # "cutting" =>
                records[k][h] # inflight[k][h].gen
    <3> SUFFICES ASSUME NEW k \in Loops, NEW h \in Hosts,
                        inflight[k][h].st = "cancelled", drain'[k].phase # "cutting"
                 PROVE  records[k][h] # inflight[k][h].gen
      OBVIOUS
    <3>0. \/ drain'[k] = drain[k]
          \/ \A x \in Hosts : inflight[k][x].st = "none"
      BY <2>1
    <3>1. drain'[k] = drain[k]
      BY <3>0
    <3> QED
      BY <3>1 DEF TasksMatchDrains
  <2>5. \A k \in Loops, h \in Hosts :
            inflight[k][h].st = "cancelled" /\ drain'[k].phase # "cutting" =>
                records'[k][h] # inflight[k][h].gen
    <3> SUFFICES ASSUME NEW k \in Loops, NEW h \in Hosts,
                        inflight[k][h].st = "cancelled", drain'[k].phase # "cutting"
                 PROVE  records'[k][h] # inflight[k][h].gen
      OBVIOUS
    <3> QED
      BY <2>3, <2>4
  <2> QED
    BY <2>2, <2>3, <2>5 DEF TasksMatchDrains
<1> QED
    BY <1>1, <1>2, <1>3

LEMMA PruneFacts ==
    ASSUME TypeOK, TasksMatchDrains, NEW l \in Loops \ dead, NEW n \in Nat,
           NEW s \in {"none", "open", "draining", "shut"}, Prune(l, s, n)
    PROVE  /\ records' \in [Loops -> [Hosts -> Nat]]
           /\ rstate' \in [Loops -> {"none", "open", "draining", "shut"}]
           /\ held' \in [Loops -> Nat]
           /\ \A k \in Loops \ dead : records'[k] = records[k]
           /\ \A k \in Loops, h \in Hosts :
                 records'[k][h] = records[k][h] \/ records'[k][h] = 0
           /\ held'[l] = n
           /\ \A k \in Loops \ dead : k # l => held'[k] = held[k]
           /\ rstate'[l] = s
           /\ \A k \in Loops : k # l =>
                 (rstate'[k] = "draining" <=> rstate[k] = "draining")
BY DEF TypeOK, TasksMatchDrains, Prune, Pruned

(* Who holds a loop after one client moved to another state. *)
LEMMA OneClientMoves ==
    ASSUME TypeOK, NEW c \in Clients, NEW v, client' = [client EXCEPT ![c] = v]
    PROVE  /\ \A k \in Loops : IsFiniteSet(Holders(k)) /\ Cardinality(Holders(k)) \in Nat
           /\ \A k \in Loops : k # LoopOf[c] => Holders(k)' = Holders(k)
           /\ v \in {"holding", "granted"} =>
                 Holders(LoopOf[c])' = Holders(LoopOf[c]) \cup {c}
           /\ v \notin {"holding", "granted"} =>
                 Holders(LoopOf[c])' = Holders(LoopOf[c]) \ {c}
<1>1. \A k \in Loops : IsFiniteSet(Holders(k)) /\ Cardinality(Holders(k)) \in Nat
    BY ClientsAssumption, FS_Subset, FS_CardinalityType DEF Holders
<1>2. \A d \in Clients : client'[d] = IF d = c THEN v ELSE client[d]
    BY DEF TypeOK
<1> QED
    BY <1>1, <1>2 DEF Holders

(* A client that neither starts nor stops holding its loop. *)
LEMMA SameHoldersInv ==
    ASSUME IInv, NEW c \in Clients, NEW v \in ClientStates,
           client' = [client EXCEPT ![c] = v],
           v \in {"holding", "granted"} <=> client[c] \in {"holding", "granted"},
           client[c] # "draining",
           waiters' \in [Loops -> SUBSET Clients],
           \A k \in Loops : \A d \in waiters'[k] : LoopOf[d] = k,
           UNCHANGED <<dead, drain>>,
           \A k \in Loops \ dead : held'[k] = held[k]
    PROVE  ClientHalf' /\ client' \in [Clients -> ClientStates]
<1> USE DEF IInv
<1>0. client' \in [Clients -> ClientStates]
    BY DEF TypeOK
<1>1. \A k \in Loops : Holders(k)' = Holders(k)
    BY DEF Holders, TypeOK
<1>2. ClientsMatchLoops'
    BY DEF ClientsMatchLoops, TypeOK
<1>3. HeldCountsHolders'
    BY <1>1 DEF HeldCountsHolders
<1>4. NobodyHoldsADrainingLoop'
    BY <1>1 DEF NobodyHoldsADrainingLoop
<1> QED
    BY <1>0, <1>2, <1>3, <1>4 DEF ClientHalf

LEMMA CancelWaiterInv ==
    ASSUME IInv, NEW c \in Clients, CancelWaiter(c) PROVE IInv'
<1> USE DEF IInv
<1>0. client' = [client EXCEPT ![c] = "leaving"] /\ client[c] = "waiting"
    BY DEF CancelWaiter
<1>i. UNCHANGED <<owner, served, gen, mgr, closing, dead, records, rstate, held,
                  waiters, drain, inflight, poked>>
    BY DEF CancelWaiter, hostVars, registryVars, drainVars
<1>1. ClientHalf' /\ client' \in [Clients -> ClientStates]
    BY <1>0, <1>i, SameHoldersInv DEF ClientStates, TypeOK, ClientsMatchLoops
<1>2. HostHalf'
    BY <1>i, HostFrame DEF HostHalf, hostVars
<1>3. TypeOK'
    BY <1>i, <1>1 DEF TypeOK
<1> QED
    BY <1>1, <1>2, <1>3 DEF HostHalf, ClientHalf

LEMMA LeaveQueueInv ==
    ASSUME IInv, NEW c \in Clients, LeaveQueue(c) PROVE IInv'
<1> USE DEF IInv
<1>0. /\ client' = [client EXCEPT ![c] = "idle"] /\ client[c] = "leaving"
      /\ waiters' \in [Loops -> SUBSET Clients]
      /\ \A k \in Loops : \A d \in waiters'[k] : LoopOf[d] = k
    BY DEF LeaveQueue, TypeOK, ClientsMatchLoops
<1>i. UNCHANGED <<owner, served, gen, mgr, closing, dead, records, rstate, held,
                  drain, inflight, poked>>
    BY DEF LeaveQueue, hostVars, drainVars
<1>1. ClientHalf' /\ client' \in [Clients -> ClientStates]
    BY <1>0, <1>i, SameHoldersInv DEF ClientStates
<1>2. HostHalf'
    BY <1>i, HostFrame DEF HostHalf, hostVars
<1>3. TypeOK'
    BY <1>0, <1>i, <1>1 DEF TypeOK
<1> QED
    BY <1>1, <1>2, <1>3 DEF HostHalf, ClientHalf

LEMMA WaiterResumesInv ==
    ASSUME IInv, NEW c \in Clients, WaiterResumes(c) PROVE IInv'
<1> USE DEF IInv
<1> DEFINE v == IF client[c] = "granted" THEN "holding" ELSE "idle"
<1>0. /\ client[c] \in {"granted", "refused"}
      /\ client' = [client EXCEPT ![c] = v]
      /\ v \in ClientStates
      /\ v \in {"holding", "granted"} <=> client[c] \in {"holding", "granted"}
    BY DEF WaiterResumes, ClientStates
<1>i. UNCHANGED <<owner, served, gen, mgr, closing, dead, records, rstate, held,
                  waiters, drain, inflight, poked>>
    BY DEF WaiterResumes, hostVars, registryVars, drainVars
<1> HIDE DEF v
<1>1. ClientHalf' /\ client' \in [Clients -> ClientStates]
    BY <1>0, <1>i, SameHoldersInv DEF TypeOK, ClientsMatchLoops
<1>2. HostHalf'
    BY <1>i, HostFrame DEF HostHalf, hostVars
<1>3. TypeOK'
    BY <1>i, <1>1 DEF TypeOK
<1> QED
    BY <1>1, <1>2, <1>3 DEF HostHalf, ClientHalf


LEMMA AcquireInv ==
    ASSUME IInv, NEW c \in Clients, Acquire(c) PROVE IInv'
<1> USE DEF IInv
<1> DEFINE l == LoopOf[c]
<1>0. /\ l \in Loops \ dead /\ client[c] = "idle"
      /\ rstate[l] # "draining"
      /\ client' = [client EXCEPT ![c] = "holding"]
      /\ Prune(l, "open", held[l] + 1)
  <2>1. l \in Loops
    BY LoopOfAssumption
  <2> QED
    BY <2>1, Zenon DEF Acquire, Acquirable
<1>k. held[l] + 1 \in Nat
    BY <1>0 DEF TypeOK
<1>j. drain[l] = NoDrain
    BY <1>0 DEF TasksMatchDrains
<1>i. UNCHANGED <<owner, served, gen, mgr, closing, dead, waiters, drain, inflight, poked>>
    BY DEF Acquire, hostVars, drainVars
<1>a. /\ records' \in [Loops -> [Hosts -> Nat]]
      /\ rstate' \in [Loops -> {"none", "open", "draining", "shut"}]
      /\ held' \in [Loops -> Nat]
      /\ \A k \in Loops \ dead : records'[k] = records[k]
      /\ \A k \in Loops, h \in Hosts :
            records'[k][h] = records[k][h] \/ records'[k][h] = 0
      /\ held'[l] = held[l] + 1
      /\ \A k \in Loops \ dead : k # l => held'[k] = held[k]
      /\ rstate'[l] = "open"
      /\ \A k \in Loops : k # l =>
            (rstate'[k] = "draining" <=> rstate[k] = "draining")
    BY <1>0, <1>k, PruneFacts
<1>b. /\ \A k \in Loops : IsFiniteSet(Holders(k)) /\ Cardinality(Holders(k)) \in Nat
      /\ \A k \in Loops : k # l => Holders(k)' = Holders(k)
      /\ Holders(l)' = Holders(l) \cup {c}
    BY <1>0, OneClientMoves
<1>c. c \notin Holders(l)
    BY <1>0 DEF Holders
<1> HIDE DEF l
<1>1. TypeOK'
    BY <1>0, <1>i, <1>a DEF TypeOK, ClientStates
<1>2. HostHalf'
    BY <1>0, <1>i, <1>a, BoundaryFrame DEF HostHalf
<1>3. ClientsMatchLoops'
    BY <1>0, <1>i DEF ClientsMatchLoops, TypeOK
<1>4. HeldCountsHolders'
  <2>1. Cardinality(Holders(l) \cup {c}) = Cardinality(Holders(l)) + 1
    BY <1>0, <1>b, <1>c, FS_AddElement
  <2>2. held'[l] = Cardinality(Holders(l)')
    BY <1>0, <1>a, <1>b, <2>1 DEF HeldCountsHolders
  <2> QED
    BY <1>i, <1>a, <1>b, <2>2 DEF HeldCountsHolders
<1>5. NobodyHoldsADrainingLoop'
    BY <1>i, <1>j, <1>b DEF NobodyHoldsADrainingLoop
<1> QED
    BY <1>1, <1>2, <1>3, <1>4, <1>5 DEF HostHalf

LEMMA QueueInv ==
    ASSUME IInv, NEW c \in Clients, Queue(c) PROVE IInv'
<1> USE DEF IInv
<1> DEFINE l == LoopOf[c]
<1>0. /\ l \in Loops \ dead /\ client[c] = "idle"
      /\ rstate[l] = "draining"
      /\ Prune(l, "draining", held[l]) /\ held[l] \in Nat
      /\ client' = [client EXCEPT ![c] = "waiting"]
      /\ waiters' = [waiters EXCEPT ![l] = waiters[l] \cup {c}]
    BY LoopOfAssumption DEF Queue, Acquirable, TypeOK
<1>i. UNCHANGED <<owner, served, gen, mgr, closing, dead, drain, inflight, poked>>
    BY DEF Queue, hostVars, drainVars
<1>a. /\ records' \in [Loops -> [Hosts -> Nat]]
      /\ rstate' \in [Loops -> {"none", "open", "draining", "shut"}]
      /\ held' \in [Loops -> Nat]
      /\ \A k \in Loops \ dead : records'[k] = records[k]
      /\ \A k \in Loops, h \in Hosts :
            records'[k][h] = records[k][h] \/ records'[k][h] = 0
      /\ held'[l] = held[l]
      /\ \A k \in Loops \ dead : k # l => held'[k] = held[k]
      /\ rstate'[l] = "draining"
      /\ \A k \in Loops : k # l =>
            (rstate'[k] = "draining" <=> rstate[k] = "draining")
    BY <1>0, PruneFacts
<1>b. /\ waiters' \in [Loops -> SUBSET Clients]
      /\ \A k \in Loops : \A d \in waiters'[k] : LoopOf[d] = k
    BY <1>0 DEF TypeOK, ClientsMatchLoops
<1> HIDE DEF l
<1>1. ClientHalf' /\ client' \in [Clients -> ClientStates]
    BY <1>0, <1>i, <1>a, <1>b, SameHoldersInv DEF ClientStates
<1>2. HostHalf'
    BY <1>0, <1>i, <1>a, BoundaryFrame DEF HostHalf
<1>3. TypeOK'
    BY <1>i, <1>a, <1>b, <1>1 DEF TypeOK
<1> QED
    BY <1>1, <1>2, <1>3 DEF HostHalf, ClientHalf

(* Starting the drain of a loop that has none. *)
LEMMA StartDrainFacts ==
    ASSUME TypeOK, NEW l \in Loops, NEW by \in Clients \cup {NoClient},
           NEW s \in BOOLEAN, StartDrain(l, by, s)
    PROVE  /\ drain' \in [Loops -> [phase: DrainPhases, by: Clients \cup {NoClient},
                                    shut: BOOLEAN]]
           /\ poked' \in [Loops -> BOOLEAN]
           /\ drain'[l].phase = "sweeping"
           /\ drain'[l].by = by /\ drain'[l].shut = s
           /\ \A k \in Loops : k # l => drain'[k] = drain[k]
<1>1. [phase |-> "sweeping", by |-> by, shut |-> s]
        \in [phase: DrainPhases, by: Clients \cup {NoClient}, shut: BOOLEAN]
    BY DEF DrainPhases
<1> QED
    BY <1>1 DEF StartDrain, TypeOK

LEMMA ReleaseInv ==
    ASSUME IInv, NEW c \in Clients, Release(c) PROVE IInv'
<1> USE DEF IInv
<1> DEFINE l == LoopOf[c]
           last == held[l] = 1 /\ rstate[l] = "open"
           v == IF last THEN "draining" ELSE "idle"
<1>0. /\ l \in Loops \ dead /\ client[c] \in {"holding", "granted"}
      /\ held' = [held EXCEPT ![l] = held[l] - 1]
      /\ client' = [client EXCEPT ![c] = v]
      /\ v \in ClientStates \ {"holding", "granted"}
      /\ last => v = "draining"
    BY LoopOfAssumption DEF Release, ClientStates
<1>i. UNCHANGED <<owner, served, gen, mgr, closing, dead, records, waiters, inflight>>
    BY DEF Release, hostVars
<1>a. \/ /\ ~last /\ UNCHANGED <<rstate, drain, poked>>
      \/ /\ last /\ StartDrain(l, c, FALSE)
         /\ rstate' = [rstate EXCEPT ![l] = "draining"]
         /\ rstate[l] # "draining"
    BY DEF Release
<1>b. /\ \A k \in Loops : IsFiniteSet(Holders(k)) /\ Cardinality(Holders(k)) \in Nat
      /\ \A k \in Loops : k # l => Holders(k)' = Holders(k)
      /\ Holders(l)' = Holders(l) \ {c}
    BY <1>0, OneClientMoves
<1>c. c \in Holders(l)
    BY <1>0 DEF Holders
<1>d. /\ held[l] \in Nat \ {0}
      /\ held'[l] = held[l] - 1 /\ held'[l] = Cardinality(Holders(l)')
      /\ \A k \in Loops : k # l => held'[k] = held[k]
  <2>1. held[l] = Cardinality(Holders(l)) /\ held[l] # 0
    BY <1>0, <1>b, <1>c, FS_EmptySet DEF HeldCountsHolders
  <2>2. Cardinality(Holders(l) \ {c}) = Cardinality(Holders(l)) - 1
    BY <1>0, <1>b, <1>c, FS_RemoveElement
  <2> QED
    BY <1>0, <1>b, <2>1, <2>2 DEF TypeOK
<1>e. last => Holders(l)' = {}
  <2>1. IsFiniteSet(Holders(l)')
    BY <1>0, <1>b, FS_RemoveElement
  <2>2. last => Cardinality(Holders(l)') = 0
    BY <1>d
  <2> QED
    BY <2>1, <2>2, FS_EmptySet
<1> HIDE DEF l, last, v
<1>f. /\ drain' \in [Loops -> [phase: DrainPhases, by: Clients \cup {NoClient},
                               shut: BOOLEAN]]
      /\ poked' \in [Loops -> BOOLEAN]
      /\ last => drain'[l].phase = "sweeping" /\ drain'[l].by = c
      /\ \A k \in Loops : k # l \/ ~last => drain'[k] = drain[k]
  <2>1. CASE ~last
    BY <1>a, <2>1 DEF TypeOK
  <2>2. CASE last
    BY <1>0, <1>a, <2>2, StartDrainFacts
  <2> QED
    BY <2>1, <2>2
<1>g. /\ rstate' \in [Loops -> {"none", "open", "draining", "shut"}]
      /\ last => rstate'[l] = "draining" /\ rstate[l] # "draining"
      /\ \A k \in Loops : k # l \/ ~last => rstate'[k] = rstate[k]
    BY <1>0, <1>a DEF TypeOK
<1>h. held' \in [Loops -> Nat]
  <2>1. held[l] - 1 \in Nat
    BY <1>d
  <2> QED
    BY <1>0, <2>1 DEF TypeOK
<1>j. client' \in [Clients -> ClientStates]
    BY <1>0 DEF TypeOK
<1>1. TypeOK'
    BY <1>i, <1>f, <1>g, <1>h, <1>j DEF TypeOK
<1>2. HostHalf'
    BY <1>0, <1>i, <1>f, <1>g, BoundaryFrame DEF HostHalf
<1>3. ClientsMatchLoops'
  <2>1. \A k \in Loops : drain[k].by \in Clients => drain[k].by # c
    BY <1>0 DEF ClientsMatchLoops
  <2>2. client'[c] = v /\ \A d \in Clients : d # c => client'[d] = client[d]
    BY <1>0 DEF TypeOK
  <2>3. LoopOf[c] = l
    BY DEF l
  <2> QED
    BY <1>0, <1>i, <1>f, <2>1, <2>2, <2>3 DEF ClientsMatchLoops
<1>4. HeldCountsHolders'
    BY <1>i, <1>b, <1>d DEF HeldCountsHolders
<1>5. NobodyHoldsADrainingLoop'
    BY <1>b, <1>e, <1>f DEF NobodyHoldsADrainingLoop
<1> QED
    BY <1>1, <1>2, <1>3, <1>4, <1>5 DEF HostHalf

(* A drain no client waits for: sweep_unheld's, which found the loop       *)
(* unheld, or a runner's.                                                  *)
LEMMA UnownedDrainInv ==
    ASSUME IInv, NEW l \in Loops \ dead,
           drain' \in [Loops -> [phase: DrainPhases, by: Clients \cup {NoClient},
                                 shut: BOOLEAN]],
           poked' \in [Loops -> BOOLEAN],
           drain'[l].phase = "sweeping", drain'[l].by = NoClient,
           \A k \in Loops : k # l => drain'[k] = drain[k],
           drain'[l].shut \/ held[l] = 0,
           rstate[l] # "draining", rstate'[l] = "draining",
           rstate' \in [Loops -> {"none", "open", "draining", "shut"}],
           \A k \in Loops : k # l =>
              (rstate'[k] = "draining" <=> rstate[k] = "draining"),
           records' \in [Loops -> [Hosts -> Nat]],
           \A k \in Loops \ dead : records'[k] = records[k],
           \A k \in Loops, h \in Hosts :
              records'[k][h] = records[k][h] \/ records'[k][h] = 0,
           held' \in [Loops -> Nat],
           \A k \in Loops \ dead : held'[k] = held[k],
           UNCHANGED <<owner, served, gen, mgr, closing, dead, waiters, client, inflight>>
    PROVE  IInv'
<1> USE DEF IInv
<1>b. \A k \in Loops : Holders(k)' = Holders(k)
    BY DEF Holders
<1>c. held[l] = 0 => Holders(l) = {}
    BY ClientsAssumption, FS_Subset, FS_EmptySet DEF HeldCountsHolders, Holders
<1>1. TypeOK'
    BY DEF TypeOK
<1>2. HostHalf'
    BY BoundaryFrame DEF HostHalf
<1>3. ClientsMatchLoops'
  <2>1. \A k \in Loops : drain'[k].by \in Clients => drain'[k] = drain[k]
    BY NoneAssumption
  <2> QED
    BY <2>1 DEF ClientsMatchLoops
<1>4. HeldCountsHolders'
    BY <1>b DEF HeldCountsHolders
<1>5. NobodyHoldsADrainingLoop'
    BY <1>b, <1>c DEF NobodyHoldsADrainingLoop
<1> QED
    BY <1>1, <1>2, <1>3, <1>4, <1>5 DEF HostHalf

LEMMA SweepUnheldInv ==
    ASSUME IInv, NEW l \in Loops, SweepUnheld(l) PROVE IInv'
<1>1. /\ l \notin dead /\ rstate[l] # "draining" /\ held[l] = 0
      /\ StartDrain(l, NoClient, FALSE)
      /\ rstate' = [rstate EXCEPT ![l] = "draining"]
    BY DEF SweepUnheld
<1>2. UNCHANGED <<owner, served, gen, mgr, closing, dead, records, held, waiters,
                  client, inflight>>
    BY DEF SweepUnheld, hostVars
<1>3. /\ rstate' \in [Loops -> {"none", "open", "draining", "shut"}]
      /\ rstate'[l] = "draining"
      /\ \A k \in Loops : k # l => rstate'[k] = rstate[k]
      /\ records' \in [Loops -> [Hosts -> Nat]]
      /\ held' \in [Loops -> Nat]
    BY <1>1, <1>2 DEF IInv, TypeOK
<1>5. /\ drain' \in [Loops -> [phase: DrainPhases, by: Clients \cup {NoClient},
                               shut: BOOLEAN]]
      /\ poked' \in [Loops -> BOOLEAN]
      /\ drain'[l].phase = "sweeping"
      /\ drain'[l].by = NoClient /\ drain'[l].shut = FALSE
      /\ \A k \in Loops : k # l => drain'[k] = drain[k]
    BY <1>1, StartDrainFacts DEF IInv
<1> QED
    BY <1>1, <1>2, <1>3, <1>5, UnownedDrainInv

LEMMA ShutDownInv ==
    ASSUME IInv, NEW l \in Loops, ShutDown(l) PROVE IInv'
<1>1. /\ l \in Loops \ dead /\ rstate[l] # "draining" /\ held[l] \in Nat
      /\ StartDrain(l, NoClient, TRUE)
      /\ Prune(l, "draining", held[l])
    BY DEF ShutDown, IInv, TypeOK
<1>2. UNCHANGED <<owner, served, gen, mgr, closing, dead, waiters, client, inflight>>
    BY DEF ShutDown, hostVars
<1>3. /\ records' \in [Loops -> [Hosts -> Nat]]
      /\ rstate' \in [Loops -> {"none", "open", "draining", "shut"}]
      /\ held' \in [Loops -> Nat]
      /\ \A k \in Loops \ dead : records'[k] = records[k]
      /\ \A k \in Loops, h \in Hosts :
            records'[k][h] = records[k][h] \/ records'[k][h] = 0
      /\ held'[l] = held[l]
      /\ \A k \in Loops \ dead : k # l => held'[k] = held[k]
      /\ rstate'[l] = "draining"
      /\ \A k \in Loops : k # l =>
            (rstate'[k] = "draining" <=> rstate[k] = "draining")
    BY <1>1, PruneFacts DEF IInv
<1>4. \A k \in Loops \ dead : held'[k] = held[k]
    BY <1>3
<1>5. /\ drain' \in [Loops -> [phase: DrainPhases, by: Clients \cup {NoClient},
                               shut: BOOLEAN]]
      /\ poked' \in [Loops -> BOOLEAN]
      /\ drain'[l].phase = "sweeping"
      /\ drain'[l].by = NoClient /\ drain'[l].shut = TRUE
      /\ \A k \in Loops : k # l => drain'[k] = drain[k]
    BY <1>1, StartDrainFacts DEF IInv
<1> QED
    BY <1>1, <1>2, <1>3, <1>4, <1>5, UnownedDrainInv

LEMMA LoopClosesInv ==
    ASSUME IInv, NEW l \in Loops, LoopCloses(l) PROVE IInv'
<1> USE DEF IInv
<1>0. /\ drain[l] = NoDrain /\ dead' = dead \cup {l}
      /\ \A z \in closing : z.owner # l
    BY DEF LoopCloses
<1>i. UNCHANGED <<owner, served, gen, mgr, closing, records, rstate, held, waiters,
                  client, drain, inflight, poked>>
    BY DEF LoopCloses, hostVars, registryVars, drainVars
<1>1. TypeOK'
    BY <1>0, <1>i DEF TypeOK
<1>2. RegistryIsExact' /\ ClosesAreBehind' /\ TasksMatchDrains'
    BY <1>0, <1>i DEF RegistryIsExact, ClosesAreBehind, TasksMatchDrains
<1>3. \A k \in Loops : Holders(k)' = Holders(k)
    BY <1>i DEF Holders
<1>4. ClientsMatchLoops' /\ HeldCountsHolders' /\ NobodyHoldsADrainingLoop'
    BY <1>0, <1>i, <1>3
       DEF ClientsMatchLoops, HeldCountsHolders, NobodyHoldsADrainingLoop
<1> QED
    BY <1>1, <1>2, <1>4

LEMMA AbandonClosedLoopsInv ==
    ASSUME IInv, AbandonClosedLoops PROVE IInv'
<1> USE DEF IInv
<1> DEFINE left == {h \in Hosts : \E l \in dead :
                       owner[h] = l /\ records[l][h] = gen[h]}
<1>0. /\ owner' = [h \in Hosts |-> IF h \in left THEN NoLoop ELSE owner[h]]
      /\ served' = [h \in Hosts |-> IF h \in left THEN NoLoop ELSE served[h]]
      /\ gen' = [h \in Hosts |-> IF h \in left THEN gen[h] + 1 ELSE gen[h]]
      /\ mgr' = [h \in Hosts |-> IF h \in left THEN gen[h] + 1 ELSE mgr[h]]
      /\ records' = [l \in Loops |->
            IF l \in dead THEN [h \in Hosts |-> 0] ELSE records[l]]
      /\ rstate' = [l \in Loops |-> IF l \in dead THEN "none" ELSE rstate[l]]
      /\ held' = [l \in Loops |-> IF l \in dead THEN 0 ELSE held[l]]
    BY DEF AbandonClosedLoops
<1>i. UNCHANGED <<closing, dead, waiters, client, drain, inflight, poked>>
    BY DEF AbandonClosedLoops, drainVars
<1>a. \A h \in left : owner[h] \in dead
    OBVIOUS
<1> HIDE DEF left
<1>b. \A h \in Hosts :
          /\ gen'[h] \in Nat /\ gen[h] <= gen'[h]
          /\ h \in left => gen'[h] = gen[h] + 1 /\ owner'[h] = NoLoop
          /\ h \notin left => gen'[h] = gen[h] /\ owner'[h] = owner[h]
    BY <1>0 DEF TypeOK
<1>c. /\ \A k \in Loops \ dead : records'[k] = records[k] /\ held'[k] = held[k]
      /\ \A k \in dead, h \in Hosts : records'[k][h] = 0
    BY <1>0 DEF TypeOK
<1>1. TypeOK'
    BY <1>0, <1>i DEF TypeOK
<1>2. RegistryIsExact'
  <2>1. \A k \in Loops \ dead, h \in Hosts : records'[k][h] # 0 =>
            owner'[h] = k /\ records'[k][h] = gen'[h]
    BY <1>a, <1>b, <1>c DEF RegistryIsExact
  <2>2. \A h \in Hosts : owner'[h] \in Loops \ dead => records'[owner'[h]][h] # 0
    BY <1>b, <1>c, NoneAssumption DEF RegistryIsExact
  <2> QED
    BY <1>i, <2>1, <2>2 DEF RegistryIsExact
<1>3. ClosesAreBehind'
    BY <1>i, <1>b DEF ClosesAreBehind, TypeOK, CloseRecord
<1>4. TasksMatchDrains'
  <2>1. \A k \in Loops : rstate'[k] = "draining" <=> rstate[k] = "draining"
    BY <1>0 DEF TypeOK, TasksMatchDrains
  <2>2. \A k \in Loops, h \in Hosts : inflight[k][h].gen <= gen[h] =>
            inflight[k][h].gen <= gen'[h]
    BY <1>b DEF TypeOK
  <2>3. \A k \in Loops, h \in Hosts : records'[k][h] \in {records[k][h], 0}
    BY <1>c
  <2> QED
    BY <1>i, <2>1, <2>2, <2>3 DEF TasksMatchDrains
<1>5. ClientHalf'
    BY <1>i, <1>c, ClientFrame DEF ClientHalf
<1> QED
    BY <1>1, <1>2, <1>3, <1>4, <1>5 DEF ClientHalf


----------------------------------------------------------------------------
LEMMA StutterInv ==
    ASSUME IInv, UNCHANGED vars PROVE IInv'
<1> USE DEF IInv
<1>0. UNCHANGED <<owner, served, gen, mgr, closing, dead, records, rstate, held,
                  waiters, client, drain, inflight, poked>>
    BY DEF vars, hostVars, registryVars, drainVars
<1>1. TypeOK'
    BY <1>0 DEF TypeOK
<1>2. HostHalf'
    BY <1>0, HostFrame DEF HostHalf, hostVars
<1>3. ClientHalf'
    BY <1>0, ClientFrame DEF ClientHalf
<1> QED
    BY <1>1, <1>2, <1>3 DEF HostHalf, ClientHalf

LEMMA InductiveStep == IInv /\ [Next]_vars => IInv'
<1> SUFFICES ASSUME IInv, [Next]_vars PROVE IInv'
    OBVIOUS
<1>1. CASE HostStep
    BY <1>1, ClaimLoopInv, RebuildInv, CloseOnDeadLoopInv, CloseByUserInv,
       CloseWorksInv, CloseEndsInv DEF HostStep
<1>2. CASE DrainStep
    BY <1>2, SweepTurnInv, CloseStartsInv, SweepDiesInv, EndCleanInv,
       SweepAgainInv, CutShortInv, EndAbandoningInv DEF DrainStep
<1>3. CASE BoundaryStep
    BY <1>3, AcquireInv, QueueInv, CancelWaiterInv, LeaveQueueInv, WaiterResumesInv,
       ReleaseInv, SweepUnheldInv, ShutDownInv, LoopClosesInv, AbandonClosedLoopsInv
       DEF BoundaryStep
<1>4. CASE UNCHANGED vars
    BY <1>4, StutterInv
<1> QED
    BY <1>1, <1>2, <1>3, <1>4 DEF Next

(* IInv is an invariant: it holds initially and every step keeps it. *)
THEOREM Invariance == Spec => []IInv
    BY InitInv, InductiveStep, PTL DEF Spec

(* The type invariant holds of every behaviour. *)
THEOREM TypeCorrect == Spec => []TypeOK
<1>1. IInv => TypeOK
    BY DEF IInv
<1> QED
    BY <1>1, Invariance, PTL

(* A live loop's registry holds exactly the hosts the loop owns, at their  *)
(* present epochs, whatever resumes late.                                  *)
THEOREM RegistryAlwaysExact == Spec => []RegistryIsExact
<1>1. IInv => RegistryIsExact
    BY DEF IInv
<1> QED
    BY <1>1, Invariance, PTL

(* A live loop's count is the number of boundaries that hold it.           *)
THEOREM HeldAlwaysCountsHolders == Spec => []HeldCountsHolders
<1>1. IInv => HeldCountsHolders
    BY DEF IInv
<1> QED
    BY <1>1, Invariance, PTL

(* No boundary holds a loop while its last release closes the hosts.       *)
THEOREM DrainsAreNeverHeld == Spec => []NobodyHoldsADrainingLoop
<1>1. IInv => NobodyHoldsADrainingLoop
    BY DEF IInv
<1> QED
    BY <1>1, Invariance, PTL

----------------------------------------------------------------------------
(* The registry keeps LoopPromise: every step is, on every loop, one of    *)
(* the promise's or leaves all it speaks of alone.                         *)

Owned(l) == {h \in Hosts : owner[h] = l}

(* A loop without a registry is held by nobody.                            *)
UnmadeIsUnheld == \A l \in Loops \ dead : rstate[l] = "none" => held[l] = 0

(* What a host does concerns no boundary.                                  *)
LEMMA HostStepFacts ==
    ASSUME IInv, HostStep
    PROVE  /\ UNCHANGED <<dead, client, drain, waiters>>
           /\ \A k \in Loops \ dead :
                 /\ held'[k] = held[k]
                 /\ \/ rstate'[k] = rstate[k]
                    \/ rstate[k] = "none" /\ rstate'[k] = "open"
           /\ \/ \A h \in Hosts : owner'[h] \in {owner[h], NoLoop}
              \/ \E h \in Hosts, l \in Loops \ dead : owner' = [owner EXCEPT ![h] = l]
<1> USE DEF IInv, TypeOK
<1>r. ASSUME NEW l \in Loops, NEW h \in Hosts, NEW g, Register(l, h, g)
      PROVE  \A k \in Loops \ dead :
                /\ held'[k] = held[k]
                /\ \/ rstate'[k] = rstate[k]
                   \/ rstate[k] = "none" /\ rstate'[k] = "open"
    BY <1>r DEF Register, Pruned
<1>1. ASSUME NEW h \in Hosts, NEW l \in Loops, ClaimLoop(h, l)
      PROVE  /\ UNCHANGED <<dead, client, drain, waiters>>
             /\ l \notin dead /\ owner' = [owner EXCEPT ![h] = l]
             /\ \E g : Register(l, h, g)
    BY <1>1 DEF ClaimLoop
<1>2. ASSUME NEW h \in Hosts, RebuildConnections(h)
      PROVE  /\ UNCHANGED <<dead, client, drain, waiters, owner>>
             /\ \/ UNCHANGED <<rstate, held>>
                \/ owner[h] \in Loops /\ \E g : Register(owner[h], h, g)
    BY <1>2 DEF RebuildConnections
<1>3. ASSUME NEW h \in Hosts, CloseOnDeadLoop(h)
      PROVE  /\ UNCHANGED <<dead, client, drain, waiters, rstate, held>>
             /\ \A x \in Hosts : owner'[x] \in {owner[x], NoLoop}
    BY <1>3 DEF CloseOnDeadLoop
<1>4. ASSUME NEW z \in closing, NEW o \in {"finished", "failed", "cancelled"}, CloseEnds(z, o)
      PROVE  /\ UNCHANGED <<dead, client, drain, waiters, rstate, held>>
             /\ \A x \in Hosts : owner'[x] \in {owner[x], NoLoop}
    BY <1>4 DEF CloseEnds, CloseRecord
<1>5. ASSUME \/ \E h \in Hosts, u \in Users : CloseByUser(u, h)
             \/ \E z \in closing : CloseWorks(z)
      PROVE  /\ UNCHANGED <<dead, client, drain, waiters, rstate, held, owner>>
    BY <1>5 DEF CloseByUser, CloseWorks, registryVars, drainVars
<1> HIDE DEF IInv, TypeOK
<1>6. CASE \E h \in Hosts, l \in Loops : ClaimLoop(h, l)
    BY <1>6, <1>1, <1>r
<1>7. CASE \E h \in Hosts : RebuildConnections(h)
    BY <1>7, <1>2, <1>r
<1>8. CASE \/ \E h \in Hosts : CloseOnDeadLoop(h)
           \/ \E z \in closing, o \in {"finished", "failed", "cancelled"} : CloseEnds(z, o)
    BY <1>8, <1>3, <1>4
<1> QED
    BY <1>5, <1>6, <1>7, <1>8 DEF HostStep

(* A turn of a sweep, before the drain ends, concerns neither boundaries   *)
(* nor owners.                                                             *)
LEMMA SweepStepFacts ==
    ASSUME IInv, NEW l \in Loops,
           \/ SweepTurn(l) \/ (\E h \in Hosts : CloseStarts(l, h)) \/ SweepDies(l)
           \/ SweepAgain(l) \/ CutShort(l)
    PROVE  /\ UNCHANGED <<dead, client, waiters, rstate, held, owner>>
           /\ \A k \in Loops : drain'[k] = NoDrain <=> drain[k] = NoDrain
<1> USE DEF IInv
<1>1. ASSUME NEW p \in DrainPhases \ {"none"}, drain[l].phase # "none",
             drain' = [drain EXCEPT ![l] = In(drain[l], p)]
      PROVE  \A k \in Loops : drain'[k] = NoDrain <=> drain[k] = NoDrain
    BY <1>1, DrainFacts
<1>2. CASE SweepTurn(l)
  <2> DEFINE p == IF \E h \in Hosts : KeptRecord(l, h) # 0 \/ Outstanding(l, h)
                  THEN "sweeping" ELSE "returned"
  <2>1. /\ p \in DrainPhases \ {"none"} /\ drain[l].phase # "none"
        /\ drain' = [drain EXCEPT ![l] = In(drain[l], p)]
    BY <1>2 DEF SweepTurn, DrainPhases
  <2> HIDE DEF p
  <2> QED
    BY <1>1, <1>2, <2>1 DEF SweepTurn, hostVars
<1>3. CASE \E h \in Hosts : CloseStarts(l, h)
    BY <1>3 DEF CloseStarts, registryVars
<1>4. CASE SweepDies(l)
    BY <1>1, <1>4 DEF SweepDies, DrainPhases, hostVars, registryVars
<1>5. CASE SweepAgain(l)
    BY <1>1, <1>5 DEF SweepAgain, DrainPhases, hostVars, registryVars
<1>6. CASE CutShort(l)
    BY <1>1, <1>6 DEF CutShort, Expired, DrainPhases, hostVars, registryVars
<1> QED
    BY <1>2, <1>3, <1>4, <1>5, <1>6

LEMMA UnmadeStep ==
    ASSUME IInv, UnmadeIsUnheld, [Next]_vars PROVE UnmadeIsUnheld'
<1> USE DEF UnmadeIsUnheld
<1>1. CASE HostStep
    BY <1>1, HostStepFacts
<1>2. CASE DrainStep
  <2> SUFFICES ASSUME NEW l \in Loops, EndClean(l) \/ EndAbandoning(l)
               PROVE  UnmadeIsUnheld'
    BY <1>2, SweepStepFacts DEF DrainStep
  <2>1. EndDrain(l) /\ dead' = dead
    BY DEF EndClean, EndAbandoning, AbandonOutstanding
  <2> QED
    BY <2>1 DEF EndDrain, IInv, TypeOK
<1>3. CASE BoundaryStep
  <2>1. ASSUME NEW c \in Clients, Acquire(c) \/ Queue(c) PROVE UnmadeIsUnheld'
    <3>1. LoopOf[c] \in Loops \ dead /\ dead' = dead
      BY <2>1, LoopOfAssumption DEF Acquire, Queue, Acquirable
    <3>2. PICK s, n : s \in {"open", "draining"} /\ Prune(LoopOf[c], s, n)
      BY <2>1 DEF Acquire, Queue
    <3>3. \A k \in Loops \ dead :
              k # LoopOf[c] => rstate'[k] = rstate[k] /\ held'[k] = held[k]
      BY <3>1, <3>2 DEF Prune, Pruned
    <3>4. rstate'[LoopOf[c]] # "none"
      BY <3>1, <3>2 DEF Prune, Pruned
    <3> QED
      BY <3>1, <3>3, <3>4
  <2>2. ASSUME NEW c \in Clients, CancelWaiter(c) \/ LeaveQueue(c) \/ WaiterResumes(c)
        PROVE  UnmadeIsUnheld'
    BY <2>2 DEF CancelWaiter, LeaveQueue, WaiterResumes, registryVars
  <2>3. ASSUME NEW c \in Clients, Release(c) PROVE UnmadeIsUnheld'
    <3>1. /\ LoopOf[c] \in Loops /\ IsFiniteSet(Holders(LoopOf[c]))
          /\ c \in Holders(LoopOf[c])
      BY <2>3, LoopOfAssumption, ClientsAssumption, FS_Subset DEF Release, Holders
    <3>2. held[LoopOf[c]] # 0
      BY <2>3, <3>1, FS_EmptySet DEF IInv, HeldCountsHolders, Release
    <3> QED
      BY <2>3, <3>1, <3>2 DEF Release, IInv, TypeOK
  <2>4. ASSUME NEW l \in Loops, SweepUnheld(l) \/ ShutDown(l) \/ LoopCloses(l)
        PROVE  UnmadeIsUnheld'
    BY <2>4 DEF SweepUnheld, ShutDown, LoopCloses, Prune, Pruned, registryVars, IInv, TypeOK
  <2>5. ASSUME AbandonClosedLoops PROVE UnmadeIsUnheld'
    BY <2>5 DEF AbandonClosedLoops, IInv, TypeOK
  <2> QED
    BY <1>3, <2>1, <2>2, <2>3, <2>4, <2>5 DEF BoundaryStep
<1>4. CASE UNCHANGED vars
    BY <1>4 DEF vars, registryVars
<1> QED
    BY <1>1, <1>2, <1>3, <1>4 DEF Next

(* A step that leaves a loop's phase and holders alone, and at most claims *)
(* a host for it or takes hosts from it.                                   *)
LEMMA HostsComeAndGo ==
    ASSUME NEW l \in Loops, LoopPhase(l)' = LoopPhase(l), Holders(l)' = Holders(l),
           owner \in [Hosts -> Loops \cup {NoLoop}],
           owner' \in [Hosts -> Loops \cup {NoLoop}],
           \/ \A h \in Hosts : owner'[h] = l => owner[h] = l
           \/ /\ l \notin dead
              /\ \E h \in Hosts : owner' = [owner EXCEPT ![h] = l]
    PROVE  [Promise(l)!Next]_(Promise(l)!vars)
<1>1. CASE \A h \in Hosts : owner'[h] = l => owner[h] = l
  <2>1. PICK gone \in SUBSET Hosts : Owned(l)' = Owned(l) \ gone
    <3>1. Owned(l)' = Owned(l) \ (Owned(l) \ Owned(l)') /\ Owned(l) \ Owned(l)' \in SUBSET Hosts
      BY <1>1 DEF Owned
    <3> QED
      BY <3>1
  <2>2. Promise(l)!Disconnect(gone)
    BY <2>1 DEF Promise!Disconnect, Owned
  <2>3. \E g \in SUBSET Hosts : Promise(l)!Disconnect(g)
    BY <2>1, <2>2
  <2>4. Promise(l)!Next
    BY <2>3 DEF Promise!Next
  <2> QED
    BY <2>4
<1>2. CASE /\ l \notin dead
           /\ \E h \in Hosts : owner' = [owner EXCEPT ![h] = l]
  <2>1. PICK h \in Hosts : owner' = [owner EXCEPT ![h] = l]
    BY <1>2
  <2>2. Owned(l)' = Owned(l) \cup {h}
    BY <2>1 DEF Owned
  <2>3. LoopPhase(l) # "gone"
    BY <1>2 DEF LoopPhase
  <2>4. Promise(l)!Connect(h)
    BY <2>2, <2>3 DEF Promise!Connect, Owned
  <2> QED
    BY <2>4 DEF Promise!Next
<1> QED
  BY <1>1, <1>2

(* A loop's phase and its holders depend on these alone.                   *)
LEMMA SamePhase ==
    ASSUME IInv, NEW l \in Loops, UNCHANGED dead,
           l \notin dead =>
              /\ drain'[l] = NoDrain <=> drain[l] = NoDrain
              /\ rstate'[l] = "shut" <=> rstate[l] = "shut"
    PROVE  LoopPhase(l)' = LoopPhase(l)
BY DEF LoopPhase

LEMMA SameHolders ==
    ASSUME NEW l \in Loops,
           \A c \in Clients : LoopOf[c] = l =>
              (client'[c] \in {"holding", "granted"} <=> client[c] \in {"holding", "granted"})
    PROVE  Holders(l)' = Holders(l)
BY DEF Holders

LEMMA NothingHappens ==
    ASSUME NEW l \in Loops, LoopPhase(l)' = LoopPhase(l), Holders(l)' = Holders(l),
           owner' = owner
    PROVE  [Promise(l)!Next]_(Promise(l)!vars)
BY DEF Promise!vars

(* A drain that ends keeps the promise: nobody held the loop, every host   *)
(* of its own is closed or abandoned, and who waited is admitted.          *)
LEMMA EndDrainPromise ==
    ASSUME IInv, IInv', NEW l \in Loops, NEW k \in Loops,
           drain[l] # NoDrain, EndDrain(l), dead' = dead,
           \A h \in Hosts : owner'[h] \in {owner[h], NoLoop} /\ owner'[h] # l,
           \A h \in Hosts : owner[h] # l => owner'[h] = owner[h]
    PROVE  [Promise(k)!Next]_(Promise(k)!vars)
<1> USE DEF IInv
<1> DEFINE admitted == {c \in waiters[l] : client[c] = "waiting"}
           shut == drain[l].shut
<1>1. /\ drain'[l] = NoDrain /\ \A j \in Loops : j # l => drain'[j] = drain[j]
      /\ \A j \in Loops : j # l => rstate'[j] = rstate[j]
      /\ (rstate'[l] = "shut") <=> shut
      /\ \A c \in Clients : client'[c] =
            IF c \in admitted THEN IF shut THEN "refused" ELSE "granted"
            ELSE IF c = drain[l].by THEN "idle" ELSE client[c]
    BY DEF EndDrain, TypeOK
<1>2. /\ admitted \subseteq Clients
      /\ \A c \in admitted : LoopOf[c] = l /\ client[c] = "waiting"
      /\ l \notin dead
    BY DEF ClientsMatchLoops, TasksMatchDrains, TypeOK
<1>3. drain[l].by \in Clients => client[drain[l].by] = "draining" /\ LoopOf[drain[l].by] = l
    BY DEF ClientsMatchLoops
<1> HIDE DEF admitted
<1>4. k # l \/ shut => Holders(k)' = Holders(k)
    BY <1>1, <1>2, <1>3 DEF Holders
<1>5. ~shut => Holders(l) = {} /\ Holders(l)' = admitted
  <2>1. ~shut => Holders(l) = {}
    BY DEF NobodyHoldsADrainingLoop
  <2> QED
    BY <1>1, <1>2, <1>3, <2>1 DEF Holders
<1>6. CASE k # l
  <2>1. LoopPhase(k)' = LoopPhase(k)
    BY <1>1, <1>6 DEF LoopPhase
  <2>2. owner \in [Hosts -> Loops \cup {NoLoop}] /\ owner' \in [Hosts -> Loops \cup {NoLoop}]
    BY DEF TypeOK
  <2>3. \A h \in Hosts : owner'[h] = k => owner[h] = k
    BY NoneAssumption
  <2> QED
    BY <1>4, <1>6, <2>1, <2>2, <2>3, HostsComeAndGo
<1>7. CASE k = l
  <2>1. LoopPhase(l) = "closing" /\ Owned(l)' = {}
    BY <1>2 DEF LoopPhase, Owned
  <2>2. CASE shut
    <3>1. LoopPhase(l)' = "shut"
      BY <1>1, <1>2, <2>2 DEF LoopPhase
    <3>2. Promise(l)!Shut
      BY <1>4, <1>7, <2>1, <2>2, <3>1 DEF Promise!Shut, Owned
    <3> QED
      BY <1>7, <3>2 DEF Promise!Next
  <2>3. CASE ~shut
    <3>1. LoopPhase(l)' = "open"
      BY <1>1, <1>2, <2>3 DEF LoopPhase
    <3>2. PICK a \in SUBSET Clients : a = admitted
      BY <1>2
    <3>3. Promise(l)!Reopen(a)
      BY <1>5, <2>1, <2>3, <3>1, <3>2 DEF Promise!Reopen, Owned
    <3>4. Promise(l)!Next
      BY <3>3 DEF Promise!Next
    <3> QED
      BY <1>7, <3>4
  <2> QED
    BY <2>2, <2>3
<1> QED
  BY <1>6, <1>7

LEMMA HostStepPromise ==
    ASSUME IInv, IInv', HostStep, NEW k \in Loops
    PROVE  [Promise(k)!Next]_(Promise(k)!vars)
<1>1. /\ UNCHANGED <<dead, client, drain, waiters>>
      /\ \A j \in Loops \ dead : \/ rstate'[j] = rstate[j]
                                 \/ rstate[j] = "none" /\ rstate'[j] = "open"
      /\ \/ \A h \in Hosts : owner'[h] \in {owner[h], NoLoop}
         \/ \E h \in Hosts, l \in Loops \ dead : owner' = [owner EXCEPT ![h] = l]
    BY HostStepFacts
<1>2. LoopPhase(k)' = LoopPhase(k)
    BY <1>1, SamePhase
<1>3. Holders(k)' = Holders(k)
    BY <1>1, SameHolders
<1>4. owner \in [Hosts -> Loops \cup {NoLoop}] /\ owner' \in [Hosts -> Loops \cup {NoLoop}]
    BY DEF IInv, TypeOK
<1>5. \/ \A h \in Hosts : owner'[h] = k => owner[h] = k
      \/ k \notin dead /\ \E h \in Hosts : owner' = [owner EXCEPT ![h] = k]
  <2>1. CASE \A h \in Hosts : owner'[h] \in {owner[h], NoLoop}
    BY <2>1, NoneAssumption
  <2>2. CASE \E h \in Hosts, l \in Loops \ dead : owner' = [owner EXCEPT ![h] = l]
    BY <1>4, <2>2
  <2> QED
    BY <1>1, <2>1, <2>2
<1> QED
  BY <1>2, <1>3, <1>4, <1>5, HostsComeAndGo

LEMMA DrainStepPromise ==
    ASSUME IInv, IInv', DrainStep, NEW k \in Loops
    PROVE  [Promise(k)!Next]_(Promise(k)!vars)
<1> USE DEF IInv
<1>1. ASSUME NEW l \in Loops,
             \/ SweepTurn(l) \/ (\E h \in Hosts : CloseStarts(l, h)) \/ SweepDies(l)
             \/ SweepAgain(l) \/ CutShort(l)
      PROVE  [Promise(k)!Next]_(Promise(k)!vars)
  <2>1. /\ UNCHANGED <<dead, client, waiters, rstate, held, owner>>
        /\ \A j \in Loops : drain'[j] = NoDrain <=> drain[j] = NoDrain
    BY <1>1, SweepStepFacts
  <2>2. LoopPhase(k)' = LoopPhase(k) /\ Holders(k)' = Holders(k)
    BY <2>1, SamePhase, SameHolders
  <2> QED
    BY <2>1, <2>2, NothingHappens
<1>2. ASSUME NEW l \in Loops, EndClean(l)
      PROVE  [Promise(k)!Next]_(Promise(k)!vars)
  <2>1. EndDrain(l) /\ UNCHANGED <<owner, dead>> /\ drain[l] # NoDrain
    BY <1>2 DEF EndClean, hostVars, NoDrain
  <2>2. l \notin dead
    BY <2>1 DEF TasksMatchDrains
  <2>3. \A h \in Hosts : owner[h] # l
    BY <1>2, <2>2 DEF EndClean, Idle, RegistryIsExact
  <2> QED
    BY <2>1, <2>3, EndDrainPromise
<1>3. ASSUME NEW l \in Loops, EndAbandoning(l)
      PROVE  [Promise(k)!Next]_(Promise(k)!vars)
  <2>1. EndDrain(l) /\ AbandonOutstanding(l) /\ drain[l] # NoDrain
    <3>1. drain[l].phase # "none"
      BY <1>3 DEF EndAbandoning, Expired
    <3> QED
      BY <1>3, <3>1 DEF EndAbandoning, NoDrain
  <2>2. l \notin dead /\ dead' = dead
    BY <2>1 DEF TasksMatchDrains, AbandonOutstanding
  <2>3. \A h \in Hosts : owner'[h] = IF h \in Abandoned(l) THEN NoLoop ELSE owner[h]
    BY <2>1 DEF AbandonOutstanding
  <2>4. \A h \in Hosts : owner[h] = l => h \in Abandoned(l)
    BY <2>2 DEF RegistryIsExact, Abandoned, AbandonAt
  <2>5. \A h \in Abandoned(l) : owner[h] \in {NoLoop, l}
    BY DEF Abandoned
  <2>6. /\ \A h \in Hosts : owner'[h] \in {owner[h], NoLoop} /\ owner'[h] # l
        /\ \A h \in Hosts : owner[h] # l => owner'[h] = owner[h]
    BY <2>3, <2>4, <2>5, NoneAssumption
  <2> QED
    BY <2>1, <2>2, <2>6, EndDrainPromise
<1> QED
  BY <1>1, <1>2, <1>3 DEF DrainStep

LEMMA AcquirePromise ==
    ASSUME IInv, NEW c \in Clients, Acquire(c), NEW k \in Loops
    PROVE  [Promise(k)!Next]_(Promise(k)!vars)
<1> USE DEF IInv
<1>1. /\ LoopOf[c] \in Loops \ dead /\ client[c] = "idle"
      /\ rstate[LoopOf[c]] \notin {"shut", "draining"}
      /\ client' = [client EXCEPT ![c] = "holding"]
      /\ Prune(LoopOf[c], "open", held[LoopOf[c]] + 1)
      /\ UNCHANGED <<owner, dead, drain>>
    BY LoopOfAssumption DEF Acquire, Acquirable, hostVars, drainVars
<1>2. /\ rstate'[LoopOf[c]] = "open"
      /\ \A j \in Loops \ dead : j # LoopOf[c] => rstate'[j] = rstate[j]
    BY <1>1 DEF Prune, Pruned
<1>3. /\ \A j \in Loops : j # LoopOf[c] => Holders(j)' = Holders(j)
      /\ Holders(LoopOf[c])' = Holders(LoopOf[c]) \cup {c}
    BY <1>1, OneClientMoves
<1>4. LoopPhase(k)' = LoopPhase(k)
    BY <1>1, <1>2, SamePhase
<1>5. CASE k # LoopOf[c]
    BY <1>1, <1>3, <1>4, <1>5, NothingHappens
<1>6. CASE k = LoopOf[c]
  <2>1. LoopPhase(k) = "open"
    BY <1>1, <1>6 DEF LoopPhase, TasksMatchDrains
  <2>2. c \notin Holders(k)
    BY <1>1 DEF Holders
  <2>3. Promise(k)!Enter(c)
    BY <1>1, <1>3, <1>4, <1>6, <2>1, <2>2 DEF Promise!Enter
  <2> QED
    BY <2>3 DEF Promise!Next
<1> QED
  BY <1>5, <1>6

(* The count drops to zero exactly when the last holder leaves.            *)
LEMMA ReleasePromise ==
    ASSUME IInv, UnmadeIsUnheld, NEW c \in Clients, Release(c), NEW k \in Loops
    PROVE  [Promise(k)!Next]_(Promise(k)!vars)
<1> USE DEF IInv
<1> DEFINE l == LoopOf[c]
           last == held[l] = 1 /\ rstate[l] = "open"
           v == IF last THEN "draining" ELSE "idle"
<1>1. /\ l \in Loops \ dead /\ client[c] \in {"holding", "granted"}
      /\ client' = [client EXCEPT ![c] = v] /\ v \notin {"holding", "granted"}
      /\ UNCHANGED <<owner, dead>>
      /\ \/ last /\ StartDrain(l, c, FALSE) /\ rstate' = [rstate EXCEPT ![l] = "draining"]
         \/ ~last /\ UNCHANGED <<rstate, drain>>
    BY LoopOfAssumption DEF Release, hostVars
<1>2. /\ \A j \in Loops : IsFiniteSet(Holders(j)) /\ Cardinality(Holders(j)) \in Nat
      /\ \A j \in Loops : j # l => Holders(j)' = Holders(j)
      /\ Holders(l)' = Holders(l) \ {c}
    BY <1>1, OneClientMoves
<1>3. c \in Holders(l)
    BY <1>1 DEF Holders
<1>4. held[l] = 1 <=> Holders(l) = {c}
  <2>1. held[l] = Cardinality(Holders(l))
    BY <1>1 DEF HeldCountsHolders
  <2>2. Cardinality(Holders(l) \ {c}) = Cardinality(Holders(l)) - 1
        /\ IsFiniteSet(Holders(l) \ {c})
    BY <1>1, <1>2, <1>3, FS_RemoveElement
  <2>3. held[l] = 1 <=> Holders(l) \ {c} = {}
    BY <1>1, <1>2, <2>1, <2>2, FS_EmptySet
  <2> QED
    BY <1>3, <2>3
<1>5. held[l] # 0
    BY <1>1, <1>2, <1>3, FS_EmptySet DEF HeldCountsHolders
<1>6. CASE k # l
  <2>1. drain'[k] = drain[k] /\ rstate'[k] = rstate[k]
    BY <1>1, <1>6 DEF StartDrain, TypeOK
  <2>2. LoopPhase(k)' = LoopPhase(k)
    BY <1>1, <2>1, SamePhase
  <2> QED
    BY <1>1, <1>2, <1>6, <2>2, NothingHappens
<1>7. CASE k = l
  <2>1. LoopPhase(l) = "open" <=> rstate[l] = "open"
    BY <1>1, <1>5 DEF LoopPhase, TasksMatchDrains, UnmadeIsUnheld, TypeOK
  <2>2. last => drain'[l] # NoDrain
    BY <1>1 DEF StartDrain, NoDrain, TypeOK
  <2>3. last => LoopPhase(l)' = "closing"
    BY <1>1, <2>2 DEF LoopPhase
  <2>4. ~last => LoopPhase(l)' = LoopPhase(l)
    BY <1>1 DEF LoopPhase
  <2>5. LoopPhase(l) # "gone"
    BY <1>1, <2>1 DEF LoopPhase
  <2>6. LoopPhase(l)' = IF LoopPhase(l) = "open" /\ Holders(l) = {c} THEN "closing"
                        ELSE LoopPhase(l)
    BY <1>4, <2>1, <2>3, <2>4
  <2>7. Promise(k)!Leave(c)
    BY <1>1, <1>2, <1>3, <1>7, <2>5, <2>6 DEF Promise!Leave
  <2> QED
    BY <2>7 DEF Promise!Next
<1> QED
  BY <1>6, <1>7

(* A drain that starts is a cleanup of an open loop.                       *)
LEMMA CleanPromise ==
    ASSUME IInv, NEW l \in Loops, SweepUnheld(l) \/ ShutDown(l), NEW k \in Loops
    PROVE  [Promise(k)!Next]_(Promise(k)!vars)
<1> USE DEF IInv
<1>1. /\ l \notin dead /\ rstate[l] \in {"none", "open"}
      /\ UNCHANGED <<owner, dead, client>>
      /\ \E s \in BOOLEAN : StartDrain(l, NoClient, s)
      /\ \A j \in Loops \ dead : j # l => rstate'[j] = rstate[j]
  <2>1. CASE SweepUnheld(l)
    BY <2>1 DEF SweepUnheld, hostVars, TypeOK
  <2>2. CASE ShutDown(l)
    BY <2>2 DEF ShutDown, Prune, Pruned, hostVars, TypeOK
  <2> QED
    BY <2>1, <2>2
<1>2. drain'[l] # NoDrain /\ \A j \in Loops : j # l => drain'[j] = drain[j]
    BY <1>1 DEF StartDrain, NoDrain, TypeOK
<1>3. Holders(k)' = Holders(k)
    BY <1>1, SameHolders
<1>4. CASE k # l
  <2>1. LoopPhase(k)' = LoopPhase(k)
    BY <1>1, <1>2, <1>4, SamePhase
  <2> QED
    BY <1>1, <1>3, <2>1, NothingHappens
<1>5. CASE k = l
  <2>1. LoopPhase(l) = "open" /\ LoopPhase(l)' = "closing"
    BY <1>1, <1>2 DEF LoopPhase, TasksMatchDrains
  <2>2. Promise(k)!Clean
    BY <1>1, <1>3, <1>5, <2>1 DEF Promise!Clean
  <2> QED
    BY <2>2 DEF Promise!Next
<1> QED
  BY <1>4, <1>5

LEMMA BoundaryStepPromise ==
    ASSUME IInv, IInv', UnmadeIsUnheld, BoundaryStep, NEW k \in Loops
    PROVE  [Promise(k)!Next]_(Promise(k)!vars)
<1> USE DEF IInv
<1>1. ASSUME NEW c \in Clients, Queue(c) PROVE [Promise(k)!Next]_(Promise(k)!vars)
  <2>1. /\ LoopOf[c] \in Loops \ dead
        /\ client[c] = "idle" /\ client' = [client EXCEPT ![c] = "waiting"]
        /\ rstate[LoopOf[c]] = "draining" /\ Prune(LoopOf[c], "draining", held[LoopOf[c]])
        /\ UNCHANGED <<owner, dead, drain>>
    BY <1>1, LoopOfAssumption DEF Queue, Acquirable, hostVars, drainVars
  <2>2. \A j \in Loops \ dead : rstate'[j] = rstate[j]
    BY <2>1 DEF Prune, Pruned
  <2>3. LoopPhase(k)' = LoopPhase(k)
    BY <2>1, <2>2, SamePhase
  <2>4. Holders(k)' = Holders(k)
    BY <2>1, SameHolders DEF TypeOK
  <2> QED
    BY <2>1, <2>3, <2>4, NothingHappens
<1>2. ASSUME NEW c \in Clients, CancelWaiter(c) \/ LeaveQueue(c) \/ WaiterResumes(c)
      PROVE  [Promise(k)!Next]_(Promise(k)!vars)
  <2>1. /\ UNCHANGED <<owner, dead, drain, rstate>>
        /\ \A d \in Clients :
              client'[d] \in {"holding", "granted"} <=> client[d] \in {"holding", "granted"}
    BY <1>2 DEF CancelWaiter, LeaveQueue, WaiterResumes, hostVars, registryVars, drainVars, TypeOK
  <2>2. LoopPhase(k)' = LoopPhase(k) /\ Holders(k)' = Holders(k)
    BY <2>1, SamePhase, SameHolders
  <2> QED
    BY <2>1, <2>2, NothingHappens
<1>3. ASSUME NEW l \in Loops, LoopCloses(l) PROVE [Promise(k)!Next]_(Promise(k)!vars)
  <2>1. /\ l \notin dead /\ drain[l] = NoDrain /\ dead' = dead \cup {l}
        /\ UNCHANGED <<owner, client, drain, rstate>>
    BY <1>3 DEF LoopCloses, hostVars, registryVars, drainVars
  <2>2. Holders(k)' = Holders(k)
    BY <2>1, SameHolders
  <2>3. CASE k # l
    <3>1. LoopPhase(k)' = LoopPhase(k)
      BY <2>1, <2>3 DEF LoopPhase
    <3> QED
      BY <2>1, <2>2, <3>1, NothingHappens
  <2>4. CASE k = l
    <3>1. LoopPhase(k) \in {"open", "shut"} /\ LoopPhase(k)' = "gone"
      BY <2>1, <2>4 DEF LoopPhase
    <3>2. Promise(k)!Vanish
      BY <2>1, <2>2, <3>1 DEF Promise!Vanish
    <3> QED
      BY <3>2 DEF Promise!Next
  <2> QED
    BY <2>3, <2>4
<1>4. ASSUME AbandonClosedLoops PROVE [Promise(k)!Next]_(Promise(k)!vars)
  <2>1. /\ UNCHANGED <<dead, client, drain>>
        /\ \A j \in Loops \ dead : rstate'[j] = rstate[j]
        /\ \A h \in Hosts : owner'[h] \in {owner[h], NoLoop}
    BY <1>4 DEF AbandonClosedLoops, drainVars
  <2>2. LoopPhase(k)' = LoopPhase(k) /\ Holders(k)' = Holders(k)
    BY <2>1, SamePhase, SameHolders
  <2>3. owner \in [Hosts -> Loops \cup {NoLoop}] /\ owner' \in [Hosts -> Loops \cup {NoLoop}]
    BY DEF TypeOK
  <2> QED
    BY <2>1, <2>2, <2>3, HostsComeAndGo, NoneAssumption
<1> QED
  BY <1>1, <1>2, <1>3, <1>4, AcquirePromise, ReleasePromise, CleanPromise DEF BoundaryStep

LEMMA PromiseStep ==
    ASSUME IInv, IInv', UnmadeIsUnheld, [Next]_vars
    PROVE  \A k \in Loops : [Promise(k)!Next]_(Promise(k)!vars)
<1> TAKE k \in Loops
<1>1. CASE UNCHANGED vars
  <2>1. UNCHANGED <<owner, dead, client, drain, rstate>>
    BY <1>1 DEF vars, hostVars, registryVars, drainVars
  <2>2. LoopPhase(k)' = LoopPhase(k) /\ Holders(k)' = Holders(k)
    BY <2>1, SamePhase, SameHolders
  <2> QED
    BY <2>1, <2>2, NothingHappens
<1> QED
  BY <1>1, HostStepPromise, DrainStepPromise, BoundaryStepPromise DEF Next

LEMMA PromiseStarts == Init => UnmadeIsUnheld /\ \A l \in Loops : Promise(l)!Init
<1> SUFFICES ASSUME Init, NEW l \in Loops PROVE UnmadeIsUnheld /\ Promise(l)!Init
    BY DEF UnmadeIsUnheld
<1>1. UnmadeIsUnheld
    BY DEF Init, UnmadeIsUnheld
<1>2. LoopPhase(l) = "open"
    BY DEF Init, LoopPhase
<1>3. Holders(l) = {}
    BY DEF Init, Holders
<1>4. {h \in Hosts : owner[h] = l} = {}
    BY NoneAssumption DEF Init
<1> QED
    BY <1>1, <1>2, <1>3, <1>4 DEF Promise!Init

(* The registry implements LoopPromise on each of its loops: for any hosts,*)
(* clients and loops, nobody enters a loop while its hosts close, the last *)
(* release starts the closing, and a drain that ends, however it ends,     *)
(* leaves the loop no host.                                                *)
THEOREM PromiseIsKept == Spec => PromiseKept
<1>1. IInv /\ UnmadeIsUnheld /\ [Next]_vars => UnmadeIsUnheld'
    BY UnmadeStep
<1>2. Spec => []UnmadeIsUnheld
    BY <1>1, PromiseStarts, Invariance, PTL DEF Spec
<1>3. IInv /\ IInv' /\ UnmadeIsUnheld /\ [Next]_vars
        => [\A l \in Loops : [Promise(l)!Next]_(Promise(l)!vars)]_vars
    BY PromiseStep
<1>4. Spec => \A l \in Loops : Promise(l)!Init
    BY PromiseStarts DEF Spec
<1>5. Spec => [][\A l \in Loops : [Promise(l)!Next]_(Promise(l)!vars)]_vars
    BY <1>2, <1>3, Invariance, PTL DEF Spec
<1> QED
    BY <1>4, <1>5, PTL DEF PromiseKept

----------------------------------------------------------------------------
(* Why a close that outlives its drain is stale.                           *)

(* Managers are of an epoch reached, and a close has no later ones than    *)
(* its host.                                                               *)
MgrsAreBehind ==
    /\ \A h \in Hosts : mgr[h] <= gen[h]
    /\ \A z \in closing : z.mgr <= mgr[z.host]

(* A sweep's close of the present epoch is the one its drain waits for.    *)
SweepClosesRun ==
    \A z \in closing :
        z.by \in Loops /\ z.gen = gen[z.host] =>
            inflight[z.by][z.host] = [gen |-> z.gen, st |-> "running"]

(* There is one at a time.                                                 *)
OneSweepClose ==
    \A y, z \in closing :
        /\ y.by \in Loops /\ y.by = z.by /\ y.host = z.host
        /\ y.gen = gen[y.host] /\ z.gen = gen[z.host]
        => y = z

ReturnedIsDone ==
    \A l \in Loops : drain[l].phase = "returned" => \A h \in Hosts : ~Outstanding(l, h)

(* Where nobody but the sweep closes hosts, a close whose managers are     *)
(* still its host's holds the host, and is registered.                     *)
ClosesKeepTheirHost ==
    \A z \in closing :
        z.mgr = mgr[z.host] => z.gen = gen[z.host] /\ owner[z.host] = z.owner

OutstandingAreRecorded ==
    \A l \in Loops, h \in Hosts : Outstanding(l, h) => records[l][h] # 0

StaleInv ==
    /\ MgrsAreBehind /\ SweepClosesRun /\ OneSweepClose /\ ReturnedIsDone
    /\ Users = {} => ClosesKeepTheirHost /\ OutstandingAreRecorded

(* An outstanding close is one of a live loop's drain.                     *)
LEMMA OutstandingLives ==
    ASSUME IInv, NEW l \in Loops, NEW h \in Hosts, Outstanding(l, h)
    PROVE  drain[l] # NoDrain /\ l \notin dead /\ inflight[l][h] # NoTask
BY DEF IInv, TasksMatchDrains, Outstanding, NoTask

(* A step of the boundaries, or of the drain alone. *)
LEMMA StaleFrame ==
    ASSUME StaleInv, UNCHANGED <<gen, mgr, owner, closing, inflight>>,
           \A l \in Loops, h \in Hosts : Outstanding(l, h) => records'[l][h] = records[l][h],
           \A l \in Loops : drain'[l].phase = "returned" => drain[l].phase = "returned"
    PROVE  StaleInv'
BY DEF StaleInv, MgrsAreBehind, SweepClosesRun, OneSweepClose, ReturnedIsDone,
       ClosesKeepTheirHost, OutstandingAreRecorded, Outstanding

(* Hosts move to new epochs, with new managers or unowned before.          *)
NewEpochs ==
    \A h \in Hosts :
        \/ gen'[h] = gen[h] /\ mgr'[h] = mgr[h] /\ owner'[h] = owner[h]
        \/ gen'[h] > gen[h] /\ mgr'[h] > gen[h] /\ mgr'[h] <= gen'[h]
        \/ gen'[h] > gen[h] /\ mgr'[h] = mgr[h] /\ owner[h] \in dead \cup {NoLoop}

LEMMA EpochsKeepCloses ==
    ASSUME IInv, TypeOK', StaleInv, NewEpochs, closing' = closing
    PROVE  /\ MgrsAreBehind'
           /\ \A z \in closing : z.gen = gen'[z.host] =>
                 z.gen = gen[z.host] /\ mgr'[z.host] = mgr[z.host]
           /\ Users = {} => ClosesKeepTheirHost'
<1> USE DEF StaleInv
<1>0. /\ gen \in [Hosts -> Nat] /\ gen' \in [Hosts -> Nat]
      /\ mgr \in [Hosts -> Nat] /\ mgr' \in [Hosts -> Nat]
      /\ \A h \in Hosts : mgr[h] <= gen[h]
    BY DEF IInv, TypeOK, MgrsAreBehind
<1>1. \A h \in Hosts : mgr'[h] <= gen'[h] /\ mgr[h] <= mgr'[h] /\ gen[h] <= gen'[h]
    BY <1>0 DEF NewEpochs
<1>2. \A z \in closing : /\ z.host \in Hosts /\ z.gen \in Nat /\ z.mgr \in Nat
                         /\ z.mgr <= mgr[z.host] /\ z.gen <= gen[z.host]
                         /\ z.owner \in Loops \ dead
    BY DEF IInv, TypeOK, CloseRecord, MgrsAreBehind, ClosesAreBehind
<1>3. MgrsAreBehind'
    BY <1>0, <1>1, <1>2 DEF MgrsAreBehind
<1>4. \A z \in closing : z.gen = gen'[z.host] =>
          z.gen = gen[z.host] /\ mgr'[z.host] = mgr[z.host]
    BY <1>0, <1>2 DEF NewEpochs
<1>5. ASSUME Users = {}, NEW z \in closing, z.mgr = mgr'[z.host]
      PROVE  z.gen = gen'[z.host] /\ owner'[z.host] = z.owner
  <2>1. mgr[z.host] = mgr'[z.host]
    BY <1>0, <1>1, <1>2, <1>5
  <2>2. z.gen = gen[z.host] /\ owner[z.host] = z.owner
    BY <1>5, <2>1 DEF ClosesKeepTheirHost
  <2>3. owner[z.host] \notin dead \cup {NoLoop}
    BY <1>2, <2>2, NoneAssumption
  <2> QED
    BY <1>0, <1>2, <2>1, <2>2, <2>3 DEF NewEpochs
<1> QED
  BY <1>3, <1>4, <1>5 DEF ClosesKeepTheirHost

(* A step of hosts that disturbs no drain. *)
LEMMA EpochsStale ==
    ASSUME IInv, TypeOK', StaleInv, NewEpochs, UNCHANGED <<closing, inflight, drain>>,
           \A l \in Loops, h \in Hosts : Outstanding(l, h) /\ records[l][h] # 0 => records'[l][h] # 0
    PROVE  StaleInv'
<1>1. /\ MgrsAreBehind'
      /\ \A z \in closing : z.gen = gen'[z.host] => z.gen = gen[z.host]
      /\ Users = {} => ClosesKeepTheirHost'
    BY EpochsKeepCloses
<1>2. SweepClosesRun' /\ OneSweepClose' /\ ReturnedIsDone'
    BY <1>1 DEF StaleInv, SweepClosesRun, OneSweepClose, ReturnedIsDone, Outstanding
<1>3. Users = {} => OutstandingAreRecorded'
    BY DEF StaleInv, OutstandingAreRecorded, Outstanding
<1> QED
  BY <1>1, <1>2, <1>3 DEF StaleInv

LEMMA HostEpochsStale ==
    ASSUME IInv, IInv', StaleInv,
           \/ \E h \in Hosts, l \in Loops : ClaimLoop(h, l)
           \/ \E h \in Hosts : RebuildConnections(h) \/ CloseOnDeadLoop(h)
           \/ AbandonClosedLoops
    PROVE  StaleInv'
<1>0. /\ TypeOK /\ TypeOK' /\ \A h \in Hosts : mgr[h] <= gen[h]
      /\ \A l \in Loops, h \in Hosts : Outstanding(l, h) => l \notin dead
    BY OutstandingLives DEF IInv, StaleInv, MgrsAreBehind
<1>r. ASSUME NEW k \in Loops, NEW x \in Hosts, NEW g \in Nat, g # 0, Register(k, x, g)
      PROVE  \A l \in Loops \ dead, h \in Hosts : records[l][h] # 0 => records'[l][h] # 0
    BY <1>0, <1>r DEF Register, Pruned, TypeOK
<1>1. CASE \E h \in Hosts, l \in Loops : ClaimLoop(h, l)
  <2>1. PICK h \in Hosts, l \in Loops : ClaimLoop(h, l)
    BY <1>1
  <2>2. /\ owner[h] \in dead \cup {NoLoop}
        /\ owner' = [owner EXCEPT ![h] = l]
        /\ \/ gen' = [gen EXCEPT ![h] = @ + 1] /\ mgr' = mgr
           \/ gen' = [gen EXCEPT ![h] = @ + 2] /\ mgr' = [mgr EXCEPT ![h] = gen[h] + 1]
        /\ UNCHANGED <<closing, inflight, drain>>
    BY <1>0, <2>1 DEF ClaimLoop, TypeOK
  <2>3. NewEpochs
    BY <1>0, <2>2 DEF NewEpochs, TypeOK
  <2>4. \E g \in Nat : g # 0 /\ Register(l, h, g)
    BY <1>0, <2>1 DEF ClaimLoop, TypeOK
  <2> QED
    BY <1>0, <1>r, <2>2, <2>3, <2>4, EpochsStale
<1>2. CASE \E h \in Hosts : RebuildConnections(h)
  <2>1. PICK h \in Hosts : RebuildConnections(h)
    BY <1>2
  <2>2. /\ gen' = [gen EXCEPT ![h] = gen[h] + 1] /\ mgr' = [mgr EXCEPT ![h] = gen[h] + 1]
        /\ UNCHANGED <<owner, closing, inflight, drain>>
        /\ \/ records' = records
           \/ owner[h] \in Loops /\ Register(owner[h], h, gen[h] + 1)
    BY <1>0, <2>1 DEF RebuildConnections, TypeOK
  <2>3. NewEpochs
    BY <1>0, <2>2 DEF NewEpochs, TypeOK
  <2>4. \A l \in Loops \ dead, x \in Hosts : records[l][x] # 0 => records'[l][x] # 0
    BY <1>0, <1>r, <2>2 DEF TypeOK
  <2> QED
    BY <1>0, <2>2, <2>3, <2>4, EpochsStale
<1>3. CASE \E h \in Hosts : CloseOnDeadLoop(h)
  <2>1. PICK h \in Hosts : CloseOnDeadLoop(h)
    BY <1>3
  <2>2. /\ gen' = [gen EXCEPT ![h] = gen[h] + 1] /\ mgr' = [mgr EXCEPT ![h] = gen[h] + 1]
        /\ owner[h] \in dead /\ owner' = [owner EXCEPT ![h] = NoLoop]
        /\ UNCHANGED <<closing, inflight, drain>>
        /\ Unregister(owner[h], h, gen[h])
    BY <2>1 DEF CloseOnDeadLoop
  <2>3. NewEpochs
    BY <1>0, <2>2 DEF NewEpochs, TypeOK
  <2>4. \A l \in Loops \ dead, x \in Hosts : records'[l][x] = records[l][x]
    BY <1>0, <2>2 DEF Unregister, TypeOK
  <2> QED
    BY <1>0, <2>2, <2>3, <2>4, EpochsStale
<1>4. CASE AbandonClosedLoops
  <2>1. /\ UNCHANGED <<closing, inflight, drain>>
        /\ \A l \in Loops \ dead, x \in Hosts : records'[l][x] = records[l][x]
    BY <1>0, <1>4 DEF AbandonClosedLoops, drainVars
  <2>2. NewEpochs
    BY <1>0, <1>4 DEF NewEpochs, TypeOK, AbandonClosedLoops
  <2> QED
    BY <1>0, <2>1, <2>2, EpochsStale
<1> QED
  BY <1>1, <1>2, <1>3, <1>4

(* A close that starts is its host's and its drain's; a user's is neither. *)
LEMMA CloseBeginsStale ==
    ASSUME IInv, StaleInv,
           \/ \E h \in Hosts, u \in Users : CloseByUser(u, h)
           \/ \E l \in Loops, h \in Hosts : CloseStarts(l, h)
    PROVE  StaleInv'
<1> USE DEF StaleInv, IInv
<1>1. ASSUME NEW h \in Hosts, NEW u \in Users, CloseByUser(u, h) PROVE StaleInv'
  <2>1. /\ closing' = closing \cup {NewClose(h, u)} /\ u \notin Loops
        /\ UNCHANGED <<gen, mgr, owner, inflight, records, drain>>
    BY <1>1, NoneAssumption DEF CloseByUser, registryVars, drainVars
  <2>2. NewClose(h, u).by = u /\ NewClose(h, u).mgr = mgr[h] /\ NewClose(h, u).host = h
    BY DEF NewClose
  <2> HIDE DEF NewClose
  <2>3. MgrsAreBehind' /\ SweepClosesRun' /\ OneSweepClose' /\ ReturnedIsDone'
    BY <2>1, <2>2 DEF MgrsAreBehind, SweepClosesRun, OneSweepClose, ReturnedIsDone, Outstanding, TypeOK
  <2> QED
    BY <2>3
<1>2. ASSUME NEW l \in Loops, NEW h \in Hosts, CloseStarts(l, h) PROVE StaleInv'
  <2> DEFINE z == NewClose(h, l)
             current == records[l][h] = inflight[l][h].gen
             task == As(inflight[l][h], IF current THEN "running" ELSE "finished")
  <2>1. /\ inflight[l][h].st = "pending"
        /\ closing' = IF current THEN closing \cup {z} ELSE closing
        /\ inflight' = [inflight EXCEPT ![l][h] = task]
        /\ UNCHANGED <<gen, mgr, owner, records, drain>>
    BY <1>2 DEF CloseStarts, As, registryVars
  <2>2. l \notin dead /\ inflight[l][h].gen # 0
    BY <2>1 DEF TasksMatchDrains, NoTask
  <2>3. current => inflight[l][h].gen = gen[h]
    BY <2>2 DEF RegistryIsExact
  <2>4. /\ z.by = l /\ z.host = h /\ z.gen = gen[h] /\ z.mgr = mgr[h] /\ z.owner = owner[h]
        /\ task.gen = inflight[l][h].gen
        /\ task.st = IF current THEN "running" ELSE "finished"
    BY DEF NewClose, As
  <2>5. current => task = [gen |-> z.gen, st |-> "running"]
    BY <2>3 DEF NewClose, As
  <2>6. \A y \in closing : y.by = l /\ y.host = h => y.gen # gen[h]
    <3> SUFFICES ASSUME NEW y \in closing, y.by = l, y.host = h, y.gen = gen[h]
                 PROVE  FALSE
      OBVIOUS
    <3>1. inflight[l][h] = [gen |-> y.gen, st |-> "running"]
      BY DEF SweepClosesRun
    <3> QED
      BY <2>1, <3>1
  <2>7. task \in [gen: Nat, st: TaskStates]
    BY DEF As, TaskStates, TypeOK
  <2> HIDE DEF z, current, task
  <2>8. \A k \in Loops, x \in Hosts :
            inflight'[k][x] = IF k = l /\ x = h THEN task ELSE inflight[k][x]
    BY <2>1, <2>7, CellUpdate DEF TypeOK
  <2>9. \A y \in closing : y.host \in Hosts
    BY DEF TypeOK, CloseRecord
  <2>10. MgrsAreBehind'
    BY <2>1, <2>4 DEF MgrsAreBehind, TypeOK
  <2>11. SweepClosesRun'
    BY <2>1, <2>4, <2>5, <2>6, <2>8, <2>9 DEF SweepClosesRun
  <2>12. OneSweepClose'
    BY <2>1, <2>4, <2>6 DEF OneSweepClose
  <2>13. ReturnedIsDone'
    BY <2>1, <2>8 DEF ReturnedIsDone, Outstanding
  <2>14. Users = {} => ClosesKeepTheirHost' /\ OutstandingAreRecorded'
    <3>1. Users = {} => ClosesKeepTheirHost'
      BY <2>1, <2>4 DEF ClosesKeepTheirHost
    <3>2. Users = {} => OutstandingAreRecorded'
      BY <2>1, <2>8 DEF OutstandingAreRecorded, Outstanding
    <3> QED
      BY <3>1, <3>2
  <2> QED
    BY <2>10, <2>11, <2>12, <2>13, <2>14
<1> QED
  BY <1>1, <1>2

LEMMA CloseWorksStale ==
    ASSUME IInv, StaleInv, NEW z \in closing, CloseWorks(z) PROVE StaleInv'
<1> USE DEF StaleInv, IInv
<1> DEFINE s == [z EXCEPT !.phase = "spent"]
<1>1. /\ closing' = (closing \ {z}) \cup {s}
      /\ UNCHANGED <<gen, mgr, owner, inflight, records, drain>>
    BY DEF CloseWorks, registryVars, drainVars
<1>2. /\ s.host = z.host /\ s.gen = z.gen /\ s.mgr = z.mgr /\ s.owner = z.owner /\ s.by = z.by
    BY DEF TypeOK, CloseRecord
<1> HIDE DEF s
<1>3. MgrsAreBehind' /\ SweepClosesRun' /\ ReturnedIsDone'
    BY <1>1, <1>2 DEF MgrsAreBehind, SweepClosesRun, ReturnedIsDone, Outstanding
<1>4. OneSweepClose'
    BY <1>1, <1>2 DEF OneSweepClose
<1>5. Users = {} => ClosesKeepTheirHost' /\ OutstandingAreRecorded'
    BY <1>1, <1>2 DEF ClosesKeepTheirHost, OutstandingAreRecorded, Outstanding
<1> QED
  BY <1>3, <1>4, <1>5

(* A close that ends leaves its drain nothing to wait for.                 *)
LEMMA CloseEndsStale ==
    ASSUME IInv, StaleInv, NEW z \in closing,
           NEW o \in {"finished", "failed", "cancelled"}, CloseEnds(z, o)
    PROVE  StaleInv'
<1> USE DEF StaleInv, IInv
<1> DEFINE h == z.host
           current == gen[h] = z.gen
           mine == z.by \in Loops /\ inflight[z.by][h].st = "running"
                   /\ inflight[z.by][h].gen = z.gen
           gone(l) == \/ l = z.owner /\ current /\ records[l][h] = z.gen
                      \/ l = z.by /\ z.by \in Loops /\ o # "cancelled" /\ records[l][h] = z.gen
           task == [gen |-> z.gen, st |-> o]
<1>0. /\ h \in Hosts /\ z.gen \in Nat /\ z.gen # 0
      /\ z.owner \in Loops \ dead /\ (z.by \in Loops => z.by = z.owner)
      /\ z.by \in Loops \cup Users
    BY DEF TypeOK, CloseRecord, ClosesAreBehind
<1>1. /\ closing' = closing \ {z}
      /\ owner' = IF current THEN [owner EXCEPT ![h] = NoLoop] ELSE owner
      /\ records' = [l \in Loops |->
            IF gone(l) THEN [records[l] EXCEPT ![h] = 0] ELSE records[l]]
      /\ inflight' = IF mine THEN [inflight EXCEPT ![z.by][h] = task] ELSE inflight
      /\ UNCHANGED <<gen, mgr, drain>>
    BY DEF CloseEnds, As
<1>2. \A y \in closing : y.host \in Hosts
    BY DEF TypeOK, CloseRecord
<1>3. task \in [gen: Nat, st: TaskStates] /\ task.st = o
    BY <1>0 DEF TaskStates
<1> HIDE DEF task, h
<1>4. \A k \in Loops, x \in Hosts :
          inflight'[k][x] = IF mine /\ k = z.by /\ x = h THEN task ELSE inflight[k][x]
  <2>1. CASE mine
    <3>1. z.by \in Loops /\ inflight' = [inflight EXCEPT ![z.by][h] = task]
      BY <1>1, <2>1
    <3>2. h \in Hosts
      BY <1>0 DEF h
    <3>3. \A k \in Loops, x \in Hosts :
              inflight'[k][x] = IF k = z.by /\ x = h THEN task ELSE inflight[k][x]
      BY <1>3, <3>1, <3>2, CellUpdate DEF TypeOK
    <3> QED
      BY <2>1, <3>3
  <2>2. CASE ~mine
    BY <1>1, <2>2
  <2> QED
    BY <2>1, <2>2
<1>5. z.by \in Loops /\ current => mine
  <2> SUFFICES ASSUME z.by \in Loops, current PROVE mine
    OBVIOUS
  <2>1. inflight[z.by][h] = [gen |-> z.gen, st |-> "running"]
    BY DEF SweepClosesRun, h
  <2> QED
    BY <2>1
<1>6. MgrsAreBehind'
    BY <1>1 DEF MgrsAreBehind
<1>7. OneSweepClose'
    BY <1>1 DEF OneSweepClose
<1>8. SweepClosesRun'
  <2> SUFFICES ASSUME NEW y \in closing, y # z, y.by \in Loops, y.gen = gen[y.host]
               PROVE  inflight'[y.by][y.host] = [gen |-> y.gen, st |-> "running"]
    BY <1>1 DEF SweepClosesRun
  <2>1. inflight[y.by][y.host] = [gen |-> y.gen, st |-> "running"]
    BY DEF SweepClosesRun
  <2>2. ~(mine /\ y.by = z.by /\ y.host = h)
    BY <2>1 DEF OneSweepClose, h
  <2> QED
    BY <1>2, <1>4, <2>1, <2>2
<1>9. \A k \in Loops, x \in Hosts : Outstanding(k, x)' => Outstanding(k, x)
    BY <1>3, <1>4 DEF Outstanding
<1>10. ReturnedIsDone'
    BY <1>1, <1>9 DEF ReturnedIsDone
<1>11. ASSUME Users = {} PROVE ClosesKeepTheirHost'
  <2> SUFFICES ASSUME NEW y \in closing, y # z, y.mgr = mgr[y.host]
               PROVE  y.gen = gen[y.host] /\ owner'[y.host] = y.owner
    BY <1>1 DEF ClosesKeepTheirHost
  <2>1. y.gen = gen[y.host] /\ owner[y.host] = y.owner
    BY <1>11 DEF ClosesKeepTheirHost
  <2>2. /\ y.by \in Loops /\ y.by = y.owner /\ z.by \in Loops /\ z.by = z.owner
    BY <1>0, <1>11 DEF TypeOK, CloseRecord, ClosesAreBehind
  <2>3. y.owner \in Loops /\ (current => owner[h] \in {z.owner, NoLoop})
    BY <2>2 DEF ClosesAreBehind, h
  <2>4. ~(current /\ y.host = h)
    BY <2>1, <2>2, <2>3, NoneAssumption DEF OneSweepClose, h
  <2> QED
    BY <1>0, <1>1, <1>2, <2>1, <2>4 DEF TypeOK
<1>12. ASSUME Users = {} PROVE OutstandingAreRecorded'
  <2> SUFFICES ASSUME NEW k \in Loops, NEW x \in Hosts, Outstanding(k, x)'
               PROVE  records'[k][x] # 0
    BY DEF OutstandingAreRecorded
  <2>1. records[k][x] # 0
    BY <1>9, <1>12 DEF OutstandingAreRecorded
  <2>2. z.by \in Loops /\ z.by = z.owner
    BY <1>0, <1>12
  <2>3. gone(k) /\ x = h => k = z.by /\ current
    BY <1>0, <2>1, <2>2 DEF RegistryIsExact
  <2>4. ~(gone(k) /\ x = h)
    BY <1>3, <1>4, <1>5, <2>2, <2>3 DEF Outstanding
  <2> QED
    BY <1>1, <2>1, <2>4 DEF TypeOK
<1> QED
  BY <1>6, <1>7, <1>8, <1>10, <1>11, <1>12

(* A turn of the sweep starts closes of hosts that have none, and returns  *)
(* when there is none.                                                     *)
LEMMA SweepTurnTasks ==
    ASSUME IInv, NEW l \in Loops, SweepTurn(l)
    PROVE  /\ UNCHANGED <<gen, mgr, owner, closing>>
           /\ \A k \in Loops : k # l =>
                 inflight'[k] = inflight[k] /\ records'[k] = records[k] /\ drain'[k] = drain[k]
           /\ \A h \in Hosts :
                 /\ records'[l][h] = KeptRecord(l, h)
                 /\ h \in Ready(l) => /\ ~Outstanding(l, h) /\ KeptRecord(l, h) # 0
                                      /\ inflight'[l][h].st = "pending"
                 /\ h \notin Ready(l) => inflight'[l][h] = KeptTask(l, h)
           /\ drain'[l].phase = "returned" =>
                 \A h \in Hosts : KeptRecord(l, h) = 0 /\ ~Outstanding(l, h)
<1> USE DEF IInv, TypeOK
<1>1. \A h \in Hosts : inflight'[l][h] =
          IF h \in Ready(l) THEN [gen |-> KeptRecord(l, h), st |-> "pending"] ELSE KeptTask(l, h)
    BY DEF SweepTurn
<1>2. \A h \in Ready(l) : h \in Hosts /\ KeptRecord(l, h) # 0 /\ ~Outstanding(l, h)
    BY DEF Ready
<1>3. /\ UNCHANGED <<gen, mgr, owner, closing>>
      /\ \A k \in Loops : k # l => inflight'[k] = inflight[k] /\ records'[k] = records[k]
      /\ \A h \in Hosts : records'[l][h] = KeptRecord(l, h)
    BY DEF SweepTurn, hostVars
<1>4. /\ \A k \in Loops : k # l => drain'[k] = drain[k]
      /\ drain'[l] = In(drain[l],
            IF \E h \in Hosts : KeptRecord(l, h) # 0 \/ Outstanding(l, h)
            THEN "sweeping" ELSE "returned")
    BY DEF SweepTurn
<1>5. drain'[l].phase = "returned" =>
          \A h \in Hosts : KeptRecord(l, h) = 0 /\ ~Outstanding(l, h)
    BY <1>4 DEF In
<1>6. ASSUME NEW h \in Hosts, h \in Ready(l) PROVE inflight'[l][h].st = "pending"
  <2>1. inflight'[l][h] = [gen |-> KeptRecord(l, h), st |-> "pending"]
    BY <1>1, <1>6
  <2> QED
    BY <2>1
<1> QED
  BY <1>1, <1>2, <1>3, <1>4, <1>5, <1>6

LEMMA SweepTurnStale ==
    ASSUME IInv, StaleInv, NEW l \in Loops, SweepTurn(l) PROVE StaleInv'
<1> USE DEF StaleInv
<1>1. /\ UNCHANGED <<gen, mgr, owner, closing>>
      /\ \A k \in Loops : k # l =>
            inflight'[k] = inflight[k] /\ records'[k] = records[k] /\ drain'[k] = drain[k]
      /\ \A h \in Hosts :
            /\ records'[l][h] = KeptRecord(l, h)
            /\ h \in Ready(l) => /\ ~Outstanding(l, h) /\ KeptRecord(l, h) # 0
                                 /\ inflight'[l][h].st = "pending"
            /\ h \notin Ready(l) => inflight'[l][h] = KeptTask(l, h)
      /\ drain'[l].phase = "returned" =>
            \A h \in Hosts : KeptRecord(l, h) = 0 /\ ~Outstanding(l, h)
    BY SweepTurnTasks
<1>2. \A h \in Hosts : Outstanding(l, h) =>
          inflight'[l][h] = inflight[l][h] /\ records'[l][h] = records[l][h]
    BY <1>1 DEF KeptTask, KeptRecord, Done, Outstanding
<1>3. \A h \in Hosts : Outstanding(l, h)' => Outstanding(l, h) \/ KeptRecord(l, h) # 0
    BY <1>1 DEF KeptTask, Outstanding, NoTask
<1>4. \A k \in Loops, h \in Hosts : k # l =>
          (Outstanding(k, h)' <=> Outstanding(k, h))
    BY <1>1 DEF Outstanding
<1>5. MgrsAreBehind' /\ OneSweepClose' /\ (Users = {} => ClosesKeepTheirHost')
    BY <1>1 DEF MgrsAreBehind, OneSweepClose, ClosesKeepTheirHost
<1>6. SweepClosesRun'
  <2> SUFFICES ASSUME NEW z \in closing, z.by \in Loops, z.gen = gen[z.host]
               PROVE  inflight'[z.by][z.host] = [gen |-> z.gen, st |-> "running"]
    BY <1>1 DEF SweepClosesRun
  <2>1. inflight[z.by][z.host] = [gen |-> z.gen, st |-> "running"] /\ z.host \in Hosts
    BY DEF SweepClosesRun, IInv, TypeOK, CloseRecord
  <2>2. Outstanding(z.by, z.host)
    BY <2>1 DEF Outstanding
  <2> QED
    BY <1>1, <1>2, <2>1, <2>2
<1>7. ReturnedIsDone'
    BY <1>1, <1>3, <1>4 DEF ReturnedIsDone
<1>8. Users = {} => OutstandingAreRecorded'
    BY <1>1, <1>2, <1>3, <1>4 DEF OutstandingAreRecorded
<1> QED
  BY <1>5, <1>6, <1>7, <1>8

LEMMA CutShortStale ==
    ASSUME IInv, StaleInv, NEW l \in Loops, CutShort(l) PROVE StaleInv'
<1> USE DEF StaleInv
<1>1. /\ UNCHANGED <<gen, mgr, owner, closing, records>>
      /\ \A k \in Loops : k # l => inflight'[k] = inflight[k] /\ drain'[k] = drain[k]
      /\ drain'[l].phase = "cutting"
    BY DEF CutShort, hostVars, registryVars, In, IInv, TypeOK
<1>2. \A x \in Hosts :
          \/ inflight'[l][x] = NoTask
          \/ inflight'[l][x] = inflight[l][x] /\ inflight[l][x].st = "running"
          \/ inflight'[l][x] = As(inflight[l][x], "cancelled")
    BY DEF CutShort, IInv, TypeOK
<1>3. \A x \in Hosts : inflight[l][x].st = "running" => inflight'[l][x] = inflight[l][x]
    BY DEF CutShort, IInv, TypeOK
<1>4. \A k \in Loops, x \in Hosts : Outstanding(k, x)' => Outstanding(k, x)
  <2> SUFFICES ASSUME NEW k \in Loops, NEW x \in Hosts,
                      inflight'[k][x].st \in {"pending", "running"}
               PROVE  inflight'[k][x] = inflight[k][x]
    BY DEF Outstanding
  <2>1. /\ NoTask.st \notin {"pending", "running"}
        /\ As(inflight[l][x], "cancelled").st \notin {"pending", "running"}
    BY DEF NoTask, As
  <2> QED
    BY <1>1, <1>2, <2>1
<1>5. MgrsAreBehind' /\ OneSweepClose' /\ (Users = {} => ClosesKeepTheirHost')
    BY <1>1 DEF MgrsAreBehind, OneSweepClose, ClosesKeepTheirHost
<1>6. SweepClosesRun'
  <2> SUFFICES ASSUME NEW z \in closing, z.by \in Loops, z.gen = gen[z.host]
               PROVE  inflight'[z.by][z.host] = [gen |-> z.gen, st |-> "running"]
    BY <1>1 DEF SweepClosesRun
  <2>1. inflight[z.by][z.host] = [gen |-> z.gen, st |-> "running"] /\ z.host \in Hosts
    BY DEF SweepClosesRun, IInv, TypeOK, CloseRecord
  <2>2. inflight[z.by][z.host].st = "running"
    BY <2>1
  <2> QED
    BY <1>1, <1>3, <2>1, <2>2
<1>7. ReturnedIsDone'
    BY <1>1, <1>4 DEF ReturnedIsDone
<1>8. Users = {} => OutstandingAreRecorded'
    BY <1>1, <1>4 DEF OutstandingAreRecorded
<1> QED
  BY <1>5, <1>6, <1>7, <1>8

(* Past the end of a drain no close of its sweep is at the present epoch.  *)
LEMMA DrainEndsStale ==
    ASSUME IInv, TypeOK', StaleInv, NEW l \in Loops, EndDrain(l),
           NewEpochs, closing' = closing,
           \A z \in closing : z.by = l => z.gen # gen'[z.host],
           \A k \in Loops : k # l => records'[k] = records[k]
    PROVE  StaleInv'
<1> USE DEF StaleInv
<1>1. /\ MgrsAreBehind'
      /\ \A z \in closing : z.gen = gen'[z.host] => z.gen = gen[z.host]
      /\ Users = {} => ClosesKeepTheirHost'
    BY EpochsKeepCloses
<1>2. /\ drain'[l] = NoDrain /\ \A h \in Hosts : inflight'[l][h] = NoTask
      /\ \A k \in Loops : k # l => drain'[k] = drain[k] /\ inflight'[k] = inflight[k]
    BY DEF EndDrain, IInv, TypeOK
<1>3. SweepClosesRun' /\ OneSweepClose'
    BY <1>1, <1>2 DEF SweepClosesRun, OneSweepClose
<1>4. ReturnedIsDone'
    BY <1>2 DEF ReturnedIsDone, Outstanding, NoDrain
<1>5. Users = {} => OutstandingAreRecorded'
    BY <1>2 DEF OutstandingAreRecorded, Outstanding, NoTask
<1> QED
  BY <1>1, <1>3, <1>4, <1>5

(* A drain that returned waits for no close; one that is cut abandons the  *)
(* host of each, which then is at another epoch with other managers.       *)
LEMMA EndDrainStale ==
    ASSUME IInv, IInv', StaleInv, NEW l \in Loops, EndClean(l) \/ EndAbandoning(l)
    PROVE  StaleInv'
<1> USE DEF StaleInv, IInv
<1>1. \A z \in closing : /\ z.host \in Hosts
                         /\ z.by = l /\ z.gen = gen[z.host] =>
                               /\ inflight[l][z.host] = [gen |-> z.gen, st |-> "running"]
                               /\ Outstanding(l, z.host)
  <2> TAKE z \in closing
  <2>1. z.host \in Hosts
    BY DEF TypeOK, CloseRecord
  <2>2. z.by = l /\ z.gen = gen[z.host] =>
            inflight[l][z.host] = [gen |-> z.gen, st |-> "running"]
    BY DEF SweepClosesRun
  <2> QED
    BY <2>1, <2>2 DEF Outstanding
<1>2. CASE EndClean(l)
  <2>1. EndDrain(l) /\ UNCHANGED <<gen, mgr, owner, closing, records>>
    BY <1>2 DEF EndClean, hostVars
  <2>2. \A z \in closing : z.by = l => z.gen # gen[z.host]
    BY <1>1, <1>2 DEF EndClean, ReturnedIsDone
  <2> QED
    BY <2>1, <2>2, DrainEndsStale DEF NewEpochs
<1>3. CASE EndAbandoning(l)
  <2>1. EndDrain(l) /\ AbandonOutstanding(l) /\ closing' = closing
    BY <1>3 DEF EndAbandoning, AbandonOutstanding
  <2>2. \A h \in Hosts :
            /\ h \in Abandoned(l) => gen'[h] = gen[h] + 1 /\ mgr'[h] = gen[h] + 1
            /\ h \notin Abandoned(l) => UNCHANGED <<gen[h], mgr[h], owner[h]>>
    BY <2>1 DEF AbandonOutstanding, TypeOK
  <2>3. NewEpochs
    BY <2>2 DEF NewEpochs, TypeOK
  <2>4. ASSUME NEW z \in closing, z.by = l, z.gen = gen[z.host]
        PROVE  z.host \in Abandoned(l)
    <3>1. /\ inflight[l][z.host] = [gen |-> z.gen, st |-> "running"] /\ z.host \in Hosts
          /\ Outstanding(l, z.host)
      BY <1>1, <2>4
    <3>2. drain[l].phase = "cutting" /\ l \notin dead
      BY <1>3, <3>1, OutstandingLives DEF EndAbandoning, StillRuns
    <3>3. z.gen # 0 /\ owner[z.host] \in {l, NoLoop}
      BY <2>4 DEF ClosesAreBehind
    <3>4. records[l][z.host] # 0 => records[l][z.host] = gen[z.host]
      BY <3>1, <3>2 DEF RegistryIsExact
    <3>5. AbandonAt(l, z.host) = gen[z.host]
      <4>1. CASE records[l][z.host] # 0
        BY <3>4, <4>1 DEF AbandonAt
      <4>2. CASE records[l][z.host] = 0
        BY <2>4, <3>1, <3>2, <4>2 DEF AbandonAt
      <4> QED
        BY <4>1, <4>2
    <3> QED
      BY <2>4, <3>1, <3>3, <3>5 DEF Abandoned
  <2>5. ASSUME NEW z \in closing, z.by = l PROVE z.gen # gen'[z.host]
    <3>1. z.host \in Hosts /\ z.gen \in Nat /\ z.gen <= gen[z.host] /\ gen[z.host] \in Nat
      BY DEF TypeOK, CloseRecord, ClosesAreBehind
    <3>2. CASE z.host \in Abandoned(l)
      BY <2>2, <3>1, <3>2
    <3>3. CASE z.host \notin Abandoned(l)
      BY <2>2, <2>4, <2>5, <3>1, <3>3
    <3> QED
      BY <3>2, <3>3
  <2>6. \A k \in Loops : k # l => records'[k] = records[k]
    BY <2>1 DEF AbandonOutstanding, TypeOK
  <2> QED
    BY <2>1, <2>3, <2>5, <2>6, DrainEndsStale
<1> QED
  BY <1>2, <1>3

LEMMA StaleStep ==
    ASSUME IInv, IInv', StaleInv, [Next]_vars PROVE StaleInv'
<1> USE DEF IInv
<1>1. CASE HostStep
    BY <1>1, HostEpochsStale, CloseBeginsStale, CloseWorksStale, CloseEndsStale DEF HostStep
<1>2. ASSUME NEW l \in Loops, SweepDies(l) \/ SweepAgain(l) PROVE StaleInv'
  <2>1. /\ UNCHANGED <<gen, mgr, owner, closing, inflight, records>>
        /\ \A k \in Loops : k # l => drain'[k] = drain[k]
        /\ drain'[l].phase # "returned"
    BY <1>2 DEF SweepDies, SweepAgain, In, hostVars, registryVars, TypeOK
  <2>2. \A k \in Loops : drain'[k].phase = "returned" => drain[k].phase = "returned"
    BY <2>1
  <2> QED
    BY <2>1, <2>2, StaleFrame
<1>3. CASE DrainStep
    BY <1>2, <1>3, SweepTurnStale, CloseBeginsStale, CutShortStale, EndDrainStale DEF DrainStep
<1>4. ASSUME NEW c \in Clients, Acquire(c) \/ Queue(c) PROVE StaleInv'
  <2>1. /\ UNCHANGED <<gen, mgr, owner, closing, inflight, drain>>
        /\ \E s, n : Prune(LoopOf[c], s, n)
    BY <1>4 DEF Acquire, Queue, hostVars, drainVars
  <2>2. \A k \in Loops, h \in Hosts : Outstanding(k, h) => records'[k][h] = records[k][h]
    BY <2>1, OutstandingLives DEF Prune, Pruned
  <2> QED
    BY <2>1, <2>2, StaleFrame
<1>5. ASSUME NEW c \in Clients, CancelWaiter(c) \/ LeaveQueue(c) \/ WaiterResumes(c)
      PROVE  StaleInv'
  <2>1. UNCHANGED <<gen, mgr, owner, closing, inflight, drain, records>>
    BY <1>5 DEF CancelWaiter, LeaveQueue, WaiterResumes, hostVars, registryVars, drainVars
  <2> QED
    BY <2>1, StaleFrame
<1>6. ASSUME NEW l \in Loops, NEW by, NEW s, StartDrain(l, by, s)
      PROVE  \A k \in Loops : drain'[k].phase = "returned" => drain[k].phase = "returned"
  <2>1. /\ drain'[l] = [phase |-> "sweeping", by |-> by, shut |-> s]
        /\ \A k \in Loops : k # l => drain'[k] = drain[k]
    BY <1>6 DEF StartDrain, TypeOK
  <2>2. drain'[l].phase = "sweeping"
    BY <2>1
  <2> QED
    BY <2>1, <2>2
<1>7. ASSUME NEW c \in Clients, Release(c) PROVE StaleInv'
  <2>1. /\ UNCHANGED <<gen, mgr, owner, closing, inflight, records>>
        /\ \/ drain' = drain
           \/ LoopOf[c] \in Loops /\ StartDrain(LoopOf[c], c, FALSE)
    BY <1>7, LoopOfAssumption DEF Release, hostVars
  <2> QED
    BY <1>6, <2>1, StaleFrame
<1>8. ASSUME NEW l \in Loops, SweepUnheld(l) PROVE StaleInv'
  <2>1. /\ UNCHANGED <<gen, mgr, owner, closing, inflight, records>>
        /\ StartDrain(l, NoClient, FALSE)
    BY <1>8 DEF SweepUnheld, hostVars
  <2> QED
    BY <1>6, <2>1, StaleFrame
<1>9. ASSUME NEW l \in Loops, ShutDown(l) PROVE StaleInv'
  <2>1. /\ UNCHANGED <<gen, mgr, owner, closing, inflight>>
        /\ StartDrain(l, NoClient, TRUE) /\ \E s, n : Prune(l, s, n)
    BY <1>9 DEF ShutDown, hostVars
  <2>2. \A k \in Loops, h \in Hosts : Outstanding(k, h) => records'[k][h] = records[k][h]
    BY <2>1, OutstandingLives DEF Prune, Pruned
  <2> QED
    BY <1>6, <2>1, <2>2, StaleFrame
<1>10. ASSUME NEW l \in Loops, LoopCloses(l) PROVE StaleInv'
  <2>1. UNCHANGED <<gen, mgr, owner, closing, inflight, records, drain>>
    BY <1>10 DEF LoopCloses, hostVars, registryVars, drainVars
  <2> QED
    BY <2>1, StaleFrame
<1>11. CASE BoundaryStep
    BY <1>4, <1>5, <1>7, <1>8, <1>9, <1>10, <1>11, HostEpochsStale DEF BoundaryStep
<1>12. CASE UNCHANGED vars
  <2>1. UNCHANGED <<gen, mgr, owner, closing, inflight, records, drain>>
    BY <1>12 DEF vars, hostVars, registryVars, drainVars
  <2> QED
    BY <2>1, StaleFrame
<1> QED
  BY <1>1, <1>3, <1>11, <1>12 DEF Next

LEMMA StaleInvariance == Spec => []StaleInv
<1>1. Init => StaleInv
    BY DEF Init, StaleInv, MgrsAreBehind, SweepClosesRun, OneSweepClose, ReturnedIsDone,
           NoDrain, ClosesKeepTheirHost, OutstandingAreRecorded, Outstanding, NoTask
<1>2. IInv /\ IInv' /\ StaleInv /\ [Next]_vars => StaleInv'
    BY StaleStep
<1> QED
    BY <1>1, <1>2, Invariance, PTL DEF Spec

LEMMA StaleEpochs ==
    ASSUME IInv, StaleInv, NEW z \in closing, z.by \in Loops, drain[z.by] = NoDrain
    PROVE  gen[z.host] # z.gen
<1>1. z.host \in Hosts
    BY DEF IInv, TypeOK, CloseRecord
<1>2. inflight[z.by][z.host].st = "none"
    BY <1>1 DEF IInv, TasksMatchDrains, NoTask
<1> SUFFICES ASSUME gen[z.host] = z.gen PROVE FALSE
    OBVIOUS
<1>3. inflight[z.by][z.host] = [gen |-> z.gen, st |-> "running"]
    BY DEF StaleInv, SweepClosesRun
<1> QED
    BY <1>2, <1>3

(* A close that outlives the drain that started it has no authority over   *)
(* its host any more, whoever else closes, claims or rebuilds hosts: its   *)
(* end clears no owner and no record of the host's present epoch.          *)
THEOREM OutlivedClosesHaveNoClaim ==
    Spec => [](\A z \in closing :
                  z.by \in Loops /\ drain[z.by] = NoDrain => gen[z.host] # z.gen)
<1>1. IInv /\ StaleInv =>
          \A z \in closing : z.by \in Loops /\ drain[z.by] = NoDrain => gen[z.host] # z.gen
    BY StaleEpochs
<1> QED
    BY <1>1, Invariance, StaleInvariance, PTL

(* Where only sweeps close hosts, it has none of the managers its host     *)
(* uses either.  (With a user who closes hosts too it may: the user's      *)
(* close frees the host under the sweep's, and the next claim keeps the    *)
(* managers.)                                                              *)
THEOREM AbandonedAreStale ==
    ASSUME Users = {}
    PROVE  Spec => []AbandonedClosesAreStale
<1>1. IInv /\ StaleInv => AbandonedClosesAreStale
    BY StaleEpochs DEF AbandonedClosesAreStale, StaleInv, ClosesKeepTheirHost
<1> QED
    BY <1>1, Invariance, StaleInvariance, PTL

(* The rule that a close of an earlier epoch cannot touch the connections  *)
(* of a later one breaks only by two closes that overlap, one of them a    *)
(* user's: where only sweeps close hosts it holds at every moment, not     *)
(* only once the sweep is over.                                            *)
THEOREM OnlyUsersCloseAcrossEpochs ==
    ASSUME Users = {}
    PROVE  Spec => []StaleCloseHasNoAuthority
<1>1. StaleInv => StaleCloseHasNoAuthority
    BY DEF StaleCloseHasNoAuthority, StaleInv, ClosesKeepTheirHost
<1> QED
    BY <1>1, StaleInvariance, PTL

----------------------------------------------------------------------------
(* The order of the closes. *)

(* No host must close before itself, however indirectly.                   *)
NoCycle ==
    \E rank \in [Hosts -> Nat] :
        \A d \in Hosts : \A h \in DependsOn[d] : d # h => rank[d] < rank[h]

(* A nonempty set of numbers has a least one.                              *)
LEMMA LeastNumber ==
    ASSUME NEW S \in SUBSET Nat, S # {}
    PROVE  \E n \in S : \A m \in S : n <= m
<1> DEFINE R == OpToRel(<, Nat)
<1>1. IsWellFoundedOn(R, Nat)
    BY NatLessThanWellFounded
<1>2. PICK n \in S : \A m \in S : <<m, n>> \notin R
  <2> HIDE DEF R
  <2> QED
    BY <1>1, WFMin
<1>3. \A m \in S : ~(m < n)
  <2> SUFFICES ASSUME NEW m \in S, m < n PROVE FALSE
    OBVIOUS
  <2>1. <<m, n>> \in R
    BY DEF OpToRel
  <2> QED
    BY <1>2, <2>1
<1> QED
    BY <1>3

(* Without a cycle the sweep is never at its wit's end: what it starts has *)
(* no dependent registered.                                                *)
LEMMA ReadyIsUndepended ==
    ASSUME NoCycle, NEW l, NEW h \in Ready(l), NEW d \in Hosts, h \in DependsOn[d], d # h
    PROVE  KeptRecord(l, d) = 0
<1> DEFINE kept == {x \in Hosts : KeptRecord(l, x) # 0}
           unstarted == {x \in kept : ~Outstanding(l, x)}
           depended == {x \in Hosts : \E y \in kept : y # x /\ x \in DependsOn[y]}
<1>1. \/ h \in unstarted \ depended
      \/ unstarted \ depended = {} /\ unstarted = kept /\ h \in kept
    BY DEF Ready
<1>2. h \in Hosts
    BY DEF Ready
<1> HIDE DEF unstarted
<1>3. CASE h \notin depended
    BY <1>2, <1>3
<1>4. CASE unstarted \ depended = {} /\ unstarted = kept /\ h \in kept
  <2>1. PICK rank \in [Hosts -> Nat] :
            \A y \in Hosts : \A x \in DependsOn[y] : y # x => rank[y] < rank[x]
    BY DEF NoCycle
  <2> DEFINE S == {rank[x] : x \in kept}
  <2>2. S \in SUBSET Nat /\ S # {}
    BY <1>4
  <2>3. PICK n \in S : \A m \in S : n <= m
    <3> HIDE DEF S
    <3> QED
      BY <2>2, LeastNumber
  <2>4. PICK x \in kept : n = rank[x]
    BY <2>3
  <2>5. x \in depended
    BY <1>4, <2>4
  <2>6. PICK y \in kept : y # x /\ x \in DependsOn[y]
    BY <2>5
  <2>7. rank[y] < rank[x] /\ rank[y] \in Nat /\ rank[x] \in Nat
    BY <2>1, <2>4, <2>6
  <2>8. n <= rank[y]
    BY <2>3, <2>6
  <2> QED
    BY <2>4, <2>7, <2>8
<1> QED
    BY <1>1, <1>3, <1>4

(* Only a turn of the sweep puts a close forward.                          *)
LEMMA OnlySweepStarts ==
    ASSUME IInv, [Next]_vars, NEW l \in Loops, NEW h \in Hosts,
           inflight[l][h].st # "pending", inflight'[l][h].st = "pending"
    PROVE  SweepTurn(l)
<1> USE DEF IInv, TypeOK
<1>1. inflight' # inflight
    OBVIOUS
<1>2. ~HostStep
  <2> SUFFICES ASSUME NEW z \in closing, NEW o \in {"finished", "failed", "cancelled"},
                      CloseEnds(z, o)
               PROVE  FALSE
    BY <1>1 DEF HostStep, ClaimLoop, RebuildConnections, CloseOnDeadLoop, CloseByUser,
                CloseWorks, drainVars
  <2>1. z.by \in Loops /\ inflight' = [inflight EXCEPT ![z.by][z.host] = As(@, o)]
    BY <1>1 DEF CloseEnds
  <2>2. inflight'[l][h] = inflight[l][h] \/ inflight'[l][h] = As(inflight[l][h], o)
    BY <2>1
  <2> QED
    BY <2>2 DEF As
<1>3. ~BoundaryStep
    BY <1>1 DEF BoundaryStep, Acquire, Queue, CancelWaiter, LeaveQueue, WaiterResumes, Release,
                SweepUnheld, ShutDown, LoopCloses, AbandonClosedLoops, drainVars
<1>4. PICK k \in Loops :
          \/ SweepTurn(k)
          \/ \E x \in Hosts : CloseStarts(k, x)
          \/ CutShort(k)
          \/ EndClean(k)
          \/ EndAbandoning(k)
    BY <1>1, <1>2, <1>3 DEF Next, vars, DrainStep, SweepDies, SweepAgain, drainVars
<1>5. CASE SweepTurn(k)
    BY <1>5, SweepTurnTasks
<1>6. ASSUME NEW x \in Hosts, CloseStarts(k, x) PROVE FALSE
  <2>1. inflight'[l][h] \in {inflight[l][h], As(inflight[l][h], "running"),
                             As(inflight[l][h], "finished")}
    <3>1. \/ inflight' = [inflight EXCEPT ![k][x] = As(inflight[k][x], "running")]
          \/ inflight' = [inflight EXCEPT ![k][x] = As(inflight[k][x], "finished")]
      BY <1>6 DEF CloseStarts
    <3>2. ASSUME NEW t, inflight' = [inflight EXCEPT ![k][x] = t]
          PROVE  inflight'[l][h] = IF l = k /\ h = x THEN t ELSE inflight[l][h]
      BY <3>2
    <3> QED
      BY <3>1, <3>2
  <2> QED
    BY <2>1 DEF As
<1>7. CASE CutShort(k)
  <2>1. inflight'[l][h] \in {inflight[l][h], As(inflight[l][h], "cancelled"), NoTask}
    BY <1>7 DEF CutShort
  <2> QED
    BY <2>1 DEF As, NoTask
<1>8. CASE EndClean(k) \/ EndAbandoning(k)
  <2>1. inflight'[l][h] \in {inflight[l][h], NoTask}
    <3>1. inflight' = [inflight EXCEPT ![k] = [y \in Hosts |-> NoTask]]
      BY <1>8 DEF EndClean, EndAbandoning, EndDrain
    <3> QED
      BY <3>1
  <2> QED
    BY <2>1 DEF NoTask
<1> QED
    BY <1>4, <1>5, <1>6, <1>7, <1>8

LEMMA StartsInOrder ==
    ASSUME Users = {}, NoCycle, IInv, StaleInv, [Next]_vars,
           NEW l \in Loops, NEW h \in Hosts,
           inflight[l][h].st # "pending", inflight'[l][h].st = "pending",
           NEW d \in Hosts, h \in DependsOn[d], d # h
    PROVE  records'[l][d] = 0 /\ inflight'[l][d].st = "none"
<1>1. SweepTurn(l)
    BY OnlySweepStarts
<1>2. h \in Ready(l)
  <2> SUFFICES ASSUME h \notin Ready(l) PROVE FALSE
    OBVIOUS
  <2>1. inflight'[l][h] = KeptTask(l, h)
    BY <1>1, SweepTurnTasks
  <2> QED
    BY <2>1 DEF KeptTask, NoTask
<1>3. KeptRecord(l, d) = 0
    BY <1>2, ReadyIsUndepended
<1>4. d \notin Ready(l) /\ records'[l][d] = 0 /\ inflight'[l][d] = KeptTask(l, d)
    BY <1>1, <1>3, SweepTurnTasks
<1>5. ~Outstanding(l, d)
  <2> SUFFICES ASSUME Outstanding(l, d) PROVE FALSE
    OBVIOUS
  <2>1. records[l][d] # 0
    BY DEF StaleInv, OutstandingAreRecorded
  <2> QED
    BY <1>3, <2>1 DEF KeptRecord, Outstanding
<1>6. inflight[l][d].st \in TaskStates
    BY DEF IInv, TypeOK
<1>7. KeptTask(l, d).st = "none"
    BY <1>5, <1>6 DEF KeptTask, Done, Outstanding, NoTask, TaskStates
<1> QED
    BY <1>4, <1>7

(* Where only sweeps close hosts and no host must close before itself, a   *)
(* sweep starts a host's close only when every host that must close before *)
(* it is unregistered and closed, through any claims and rebuilds during   *)
(* the drain.  (In a cycle the sweep closes them all at once; a user who   *)
(* closes the dependent meanwhile unregisters it under the sweep's close.) *)
THEOREM DependentsAlwaysCloseFirst ==
    ASSUME Users = {}, NoCycle
    PROVE  Spec => DependentsCloseFirst
<1> DEFINE Step ==
        \A l \in Loops, h \in Hosts :
            inflight[l][h].st # "pending" /\ inflight'[l][h].st = "pending" =>
                \A d \in Hosts : h \in DependsOn[d] /\ d # h =>
                    records'[l][d] = 0 /\ inflight'[l][d].st = "none"
<1>1. IInv /\ StaleInv /\ [Next]_vars => Step
    BY StartsInOrder
<1>2. Spec => [][Step]_vars
  <2> HIDE DEF Step
  <2> QED
    BY <1>1, Invariance, StaleInvariance, PTL DEF Spec
<1> QED
    BY <1>2, PTL DEF DependentsCloseFirst

----------------------------------------------------------------------------
(* Every wait has its cause: the clients', the sweeps' and the close tasks'.*)

ClientsWaitRightly ==
    \A c \in Clients :
        /\ client[c] = "waiting" =>
              c \in waiters[LoopOf[c]] /\ drain[LoopOf[c]] # NoDrain
        /\ client[c] = "draining" => drain[LoopOf[c]].by = c

(* A sweep that sleeps waits for a close; what it has not started waits    *)
(* for a host that is registered.                                          *)
SweepsSleepRightly ==
    \A l \in Loops : Asleep(l) =>
        /\ \E h \in Hosts : Outstanding(l, h)
        /\ \A h \in Hosts : records[l][h] # 0 /\ ~Outstanding(l, h) =>
              \E d \in Hosts : d # h /\ h \in DependsOn[d] /\ records[l][d] # 0

RunningAreClosing ==
    \A l \in Loops, h \in Hosts : inflight[l][h].st = "running" =>
        \E z \in closing : z.host = h /\ z.by = l /\ z.gen = inflight[l][h].gen

LEMMA CausesAre ==
    EveryWaitHasACause <=> ClientsWaitRightly /\ SweepsSleepRightly /\ RunningAreClosing
BY DEF EveryWaitHasACause, ClientsWaitRightly, SweepsSleepRightly, RunningAreClosing

(* The clients.  A step that starts no wait and ends no drain.             *)
LEMMA ClientsGoOn ==
    ASSUME ClientsWaitRightly,
           \A l \in Loops : drain[l] # NoDrain => drain'[l] # NoDrain,
           \A l \in Loops : drain'[l].by = drain[l].by,
           \A c \in Clients :
              /\ client'[c] = "waiting" =>
                    /\ client[c] = "waiting"
                    /\ c \in waiters[LoopOf[c]] => c \in waiters'[LoopOf[c]]
              /\ client'[c] = "draining" => client[c] = "draining"
    PROVE  ClientsWaitRightly'
BY LoopOfAssumption DEF ClientsWaitRightly

(* Nobody waits on a loop that does not drain, or runs its drain.          *)
LEMMA NobodyWaitsUndrained ==
    ASSUME ClientsWaitRightly, NEW c \in Clients, drain[LoopOf[c]] = NoDrain
    PROVE  client[c] \notin {"waiting", "draining"}
BY NoneAssumption DEF ClientsWaitRightly, NoDrain

(* A drain starts; a client that starts it runs it.                        *)
LEMMA StartDrainWaits ==
    ASSUME IInv, ClientsWaitRightly, NEW l \in Loops, NEW by \in Clients \cup {NoClient},
           NEW s \in BOOLEAN, drain[l] = NoDrain, StartDrain(l, by, s), UNCHANGED waiters,
           \A c \in Clients :
              /\ client'[c] = "waiting" => client[c] = "waiting"
              /\ client'[c] = "draining" =>
                    client[c] = "draining" \/ (c = by /\ LoopOf[c] = l)
    PROVE  ClientsWaitRightly'
<1>1. /\ drain'[l].phase = "sweeping" /\ drain'[l].by = by
      /\ \A k \in Loops : k # l => drain'[k] = drain[k]
    BY StartDrainFacts DEF IInv
<1>2. drain'[l] # NoDrain
    BY <1>1 DEF NoDrain
<1> SUFFICES ASSUME NEW c \in Clients
             PROVE  /\ client'[c] = "waiting" =>
                          c \in waiters'[LoopOf[c]] /\ drain'[LoopOf[c]] # NoDrain
                    /\ client'[c] = "draining" => drain'[LoopOf[c]].by = c
    BY DEF ClientsWaitRightly
<1>3. LoopOf[c] \in Loops
    BY LoopOfAssumption
<1>4. CASE LoopOf[c] = l
    BY <1>1, <1>4, NobodyWaitsUndrained
<1>5. CASE LoopOf[c] # l
    BY <1>1, <1>3, <1>5 DEF ClientsWaitRightly
<1> QED
    BY <1>4, <1>5

(* The end of a drain lets all of its clients go.                          *)
LEMMA EndDrainWaits ==
    ASSUME IInv, ClientsWaitRightly, NEW l \in Loops, EndDrain(l)
    PROVE  ClientsWaitRightly'
<1>1. /\ \A k \in Loops : k # l => drain'[k] = drain[k] /\ waiters'[k] = waiters[k]
      /\ \A c \in Clients : client'[c] \in {client[c], "refused", "granted", "idle"}
    BY DEF EndDrain, IInv, TypeOK
<1> SUFFICES ASSUME NEW c \in Clients
             PROVE  /\ client'[c] = "waiting" =>
                          c \in waiters'[LoopOf[c]] /\ drain'[LoopOf[c]] # NoDrain
                    /\ client'[c] = "draining" => drain'[LoopOf[c]].by = c
    BY DEF ClientsWaitRightly
<1>2. LoopOf[c] \in Loops
    BY LoopOfAssumption
<1>3. CASE LoopOf[c] = l
  <2>1. client[c] = "waiting" => client'[c] \in {"refused", "granted"}
    BY <1>3 DEF ClientsWaitRightly, EndDrain
  <2>2. client[c] = "draining" => client'[c] \in {"refused", "granted", "idle"}
    BY <1>3 DEF ClientsWaitRightly, EndDrain
  <2>3. client'[c] \notin {"waiting", "draining"}
    BY <1>1, <2>1, <2>2
  <2> QED
    BY <2>3
<1>4. CASE LoopOf[c] # l
    BY <1>1, <1>2, <1>4 DEF ClientsWaitRightly
<1> QED
    BY <1>3, <1>4

LEMMA DrainPhaseWaits ==
    ASSUME IInv, ClientsWaitRightly, NEW l \in Loops, NEW p \in DrainPhases \ {"none"},
           drain[l].phase # "none", drain' = [drain EXCEPT ![l] = In(drain[l], p)],
           UNCHANGED <<client, waiters>>
    PROVE  ClientsWaitRightly'
<1>1. /\ \A k \in Loops : drain'[k].by = drain[k].by
      /\ \A k \in Loops : drain'[k] = NoDrain <=> drain[k] = NoDrain
    BY DrainFacts DEF IInv
<1> QED
    BY <1>1, ClientsGoOn

LEMMA ClientsStep ==
    ASSUME IInv, ClientsWaitRightly, [Next]_vars PROVE ClientsWaitRightly'
<1> USE DEF IInv
<1>1. ASSUME UNCHANGED <<client, waiters, drain>> PROVE ClientsWaitRightly'
    BY <1>1, ClientsGoOn
<1>2. CASE HostStep
  <2>1. UNCHANGED <<client, waiters, drain>>
    BY <1>2 DEF HostStep, ClaimLoop, RebuildConnections, CloseOnDeadLoop, CloseByUser,
                CloseWorks, CloseEnds, registryVars, drainVars
  <2> QED
    BY <1>1, <2>1
<1>3. CASE DrainStep
  <2>1. PICK l \in Loops :
            \/ SweepTurn(l) \/ (\E h \in Hosts : CloseStarts(l, h)) \/ SweepDies(l)
            \/ EndClean(l) \/ SweepAgain(l) \/ CutShort(l) \/ EndAbandoning(l)
    BY <1>3 DEF DrainStep
  <2>2. CASE \E h \in Hosts : CloseStarts(l, h)
    BY <1>1, <2>2 DEF CloseStarts, registryVars
  <2>3. CASE EndClean(l) \/ EndAbandoning(l)
    BY <2>3, EndDrainWaits DEF EndClean, EndAbandoning
  <2>4. CASE SweepTurn(l) \/ SweepDies(l) \/ SweepAgain(l) \/ CutShort(l)
    <3>1. PICK p \in DrainPhases \ {"none"} : drain' = [drain EXCEPT ![l] = In(drain[l], p)]
      BY <2>4 DEF SweepTurn, SweepDies, SweepAgain, CutShort, DrainPhases
    <3>2. drain[l].phase # "none" /\ UNCHANGED <<client, waiters>>
      BY <2>4 DEF SweepTurn, SweepDies, SweepAgain, CutShort, Expired, registryVars
    <3> QED
      BY <3>1, <3>2, DrainPhaseWaits
  <2> QED
    BY <2>1, <2>2, <2>3, <2>4
<1>4. CASE BoundaryStep
  <2>1. ASSUME NEW c \in Clients, Acquire(c) \/ CancelWaiter(c) \/ WaiterResumes(c)
        PROVE  ClientsWaitRightly'
    <3>1. UNCHANGED <<waiters, drain>>
      BY <2>1 DEF Acquire, CancelWaiter, WaiterResumes, registryVars, drainVars
    <3>2. \A o \in Clients : client'[o] \in {client[o], "holding", "leaving", "idle"}
      BY <2>1 DEF Acquire, CancelWaiter, WaiterResumes, TypeOK
    <3> QED
      BY <3>1, <3>2, ClientsGoOn
  <2>2. ASSUME NEW c \in Clients, Queue(c) PROVE ClientsWaitRightly'
    <3>1. LoopOf[c] \in Loops
      BY LoopOfAssumption
    <3>2. /\ drain' = drain /\ drain[LoopOf[c]] # NoDrain
          /\ waiters' = [waiters EXCEPT ![LoopOf[c]] = @ \cup {c}]
          /\ client' = [client EXCEPT ![c] = "waiting"]
      BY <2>2, <3>1 DEF Queue, drainVars, TasksMatchDrains
    <3> QED
      BY <3>1, <3>2, LoopOfAssumption DEF ClientsWaitRightly, TypeOK
  <2>3. ASSUME NEW c \in Clients, LeaveQueue(c) PROVE ClientsWaitRightly'
    <3>1. /\ drain' = drain
          /\ waiters' = [waiters EXCEPT ![LoopOf[c]] = @ \ {c}]
          /\ client' = [client EXCEPT ![c] = "idle"]
      BY <2>3 DEF LeaveQueue, drainVars
    <3>2. /\ client'[c] = "idle" /\ \A o \in Clients : o # c => client'[o] = client[o]
          /\ \A k \in Loops : \A o \in waiters[k] : o # c => o \in waiters'[k]
      BY <3>1 DEF TypeOK
    <3>3. \A o \in Clients :
            /\ client'[o] = "waiting" =>
                  client[o] = "waiting" /\ (o \in waiters[LoopOf[o]] => o \in waiters'[LoopOf[o]])
            /\ client'[o] = "draining" => client[o] = "draining"
      BY <3>2, LoopOfAssumption
    <3> QED
      BY <3>1, <3>3, ClientsGoOn
  <2>4. ASSUME NEW c \in Clients, Release(c) PROVE ClientsWaitRightly'
    <3>1. PICK l \in Loops : l = LoopOf[c]
      BY LoopOfAssumption
    <3>2. PICK last \in BOOLEAN : last = (held[l] = 1 /\ rstate[l] = "open")
      OBVIOUS
    <3>3. client' = [client EXCEPT ![c] = IF last THEN "draining" ELSE "idle"]
      BY <2>4, <3>1, <3>2 DEF Release
    <3>4. UNCHANGED waiters
      BY <2>4 DEF Release
    <3>5. CASE last
      <4>1. StartDrain(l, c, FALSE) /\ drain[l] = NoDrain
        BY <2>4, <3>1, <3>2, <3>5 DEF Release, TasksMatchDrains
      <4>2. \A o \in Clients : o # c => client'[o] = client[o]
        BY <3>3
      <4>3. client'[c] = "draining"
        BY <3>3, <3>5 DEF TypeOK
      <4> QED
        BY <3>1, <3>4, <4>1, <4>2, <4>3, StartDrainWaits
    <3>6. CASE ~last
      <4>1. drain' = drain
        BY <2>4, <3>1, <3>2, <3>6 DEF Release
      <4>2. \A o \in Clients : client'[o] \in {client[o], "idle"}
        BY <3>3, <3>6
      <4> QED
        BY <3>4, <4>1, <4>2, ClientsGoOn
    <3> QED
      BY <3>5, <3>6
  <2>5. ASSUME NEW l \in Loops, SweepUnheld(l) \/ ShutDown(l) PROVE ClientsWaitRightly'
    <3>1. drain[l] = NoDrain /\ UNCHANGED <<client, waiters>>
      BY <2>5 DEF SweepUnheld, ShutDown, TasksMatchDrains
    <3>2. StartDrain(l, NoClient, FALSE) \/ StartDrain(l, NoClient, TRUE)
      BY <2>5 DEF SweepUnheld, ShutDown
    <3> QED
      BY <3>1, <3>2, StartDrainWaits
  <2>6. CASE AbandonClosedLoops \/ \E l \in Loops : LoopCloses(l)
    BY <1>1, <2>6 DEF AbandonClosedLoops, LoopCloses, registryVars, drainVars
  <2> QED
    BY <1>4, <2>1, <2>2, <2>3, <2>4, <2>5, <2>6 DEF BoundaryStep
<1>5. CASE UNCHANGED vars
    BY <1>1, <1>5 DEF vars, registryVars, drainVars
<1> QED
    BY <1>2, <1>3, <1>4, <1>5 DEF Next

(* The sweeps.  A step that changes no sleeping sweep's records and tasks  *)
(* wakes it or leaves it its causes.                                       *)
LEMMA SleepersSleepOn ==
    ASSUME SweepsSleepRightly,
           \A l \in Loops : Asleep(l)' =>
              /\ Asleep(l)
              /\ \A h \in Hosts : /\ records'[l][h] = records[l][h]
                                  /\ Outstanding(l, h)' <=> Outstanding(l, h)
    PROVE  SweepsSleepRightly'
BY DEF SweepsSleepRightly

LEMMA SleepersDrain ==
    ASSUME IInv, NEW l \in Loops, drain[l].phase = "sweeping"
    PROVE  rstate[l] = "draining" /\ l \notin dead
BY DEF IInv, TasksMatchDrains, NoDrain

(* A turn that does not return leaves a close running or put forward, and  *)
(* starts whatever waits for nothing.                                      *)
LEMMA SweepTurnSleeps ==
    ASSUME IInv, SweepsSleepRightly, NEW l \in Loops, SweepTurn(l)
    PROVE  SweepsSleepRightly'
<1>1. /\ \A k \in Loops : k # l =>
            inflight'[k] = inflight[k] /\ records'[k] = records[k] /\ drain'[k] = drain[k]
      /\ \A h \in Hosts :
            /\ records'[l][h] = KeptRecord(l, h)
            /\ h \in Ready(l) => /\ ~Outstanding(l, h) /\ KeptRecord(l, h) # 0
                                 /\ inflight'[l][h].st = "pending"
            /\ h \notin Ready(l) => inflight'[l][h] = KeptTask(l, h)
    BY SweepTurnTasks
<1>2. \A k \in Loops : k # l => poked'[k] = poked[k]
    BY DEF SweepTurn, IInv, TypeOK
<1>3. \A h \in Hosts : Outstanding(l, h) => Outstanding(l, h)'
    BY <1>1 DEF KeptTask, Done, Outstanding
<1>4. \A h \in Ready(l) : h \in Hosts /\ Outstanding(l, h)'
    BY <1>1 DEF Outstanding, Ready
<1> DEFINE kept == {h \in Hosts : KeptRecord(l, h) # 0}
           unstarted == {h \in kept : ~Outstanding(l, h)}
           depended == {h \in Hosts : \E d \in kept : d # h /\ h \in DependsOn[d]}
           runs == \E h \in Hosts : Outstanding(l, h)
<1>5. Ready(l) = IF unstarted \ depended = {} /\ ~runs THEN unstarted ELSE unstarted \ depended
    BY DEF Ready
<1>6. drain'[l].phase = "sweeping" => runs \/ kept # {}
  <2>1. drain'[l] = In(drain[l], IF \E h \in Hosts : KeptRecord(l, h) # 0 \/ Outstanding(l, h)
                                 THEN "sweeping" ELSE "returned")
    BY DEF SweepTurn, IInv, TypeOK
  <2> QED
    BY <2>1 DEF In
<1>7. Asleep(l)' => \E h \in Hosts : Outstanding(l, h)'
  <2> SUFFICES ASSUME Asleep(l)', ~runs PROVE \E h \in Hosts : Outstanding(l, h)'
    BY <1>3
  <2>1. kept # {} /\ unstarted = kept
    BY <1>6 DEF Asleep
  <2>2. Ready(l) # {}
    <3> HIDE DEF kept, unstarted, depended, runs
    <3> QED
      BY <1>5, <2>1
  <2> QED
    BY <1>4, <2>2
<1>8. ASSUME NEW h \in Hosts, records'[l][h] # 0, ~Outstanding(l, h)'
      PROVE  \E d \in Hosts : d # h /\ h \in DependsOn[d] /\ records'[l][d] # 0
  <2>1. h \in unstarted /\ h \notin Ready(l)
    BY <1>1, <1>3, <1>4, <1>8
  <2>2. h \in depended
    <3> HIDE DEF kept, unstarted, depended, runs
    <3> QED
      BY <1>5, <2>1
  <2>3. PICK d \in kept : d # h /\ h \in DependsOn[d]
    BY <2>2
  <2> QED
    BY <1>1, <2>3
<1> HIDE DEF kept, unstarted, depended, runs
<1>9. ASSUME NEW k \in Loops, k # l, Asleep(k)'
      PROVE  /\ Asleep(k)
             /\ \A h \in Hosts : /\ records'[k][h] = records[k][h]
                                 /\ Outstanding(k, h)' <=> Outstanding(k, h)
    BY <1>1, <1>2, <1>9 DEF Asleep, Done, Outstanding
<1>10. ASSUME NEW k \in Loops, Asleep(k)'
       PROVE  /\ \E h \in Hosts : Outstanding(k, h)'
              /\ \A h \in Hosts : records'[k][h] # 0 /\ ~Outstanding(k, h)' =>
                    \E d \in Hosts : d # h /\ h \in DependsOn[d] /\ records'[k][d] # 0
  <2>1. CASE k = l
    BY <1>7, <1>8, <1>10, <2>1
  <2>2. CASE k # l
    BY <1>9, <1>10, <2>2 DEF SweepsSleepRightly
  <2> QED
    BY <2>1, <2>2
<1> QED
    BY <1>10 DEF SweepsSleepRightly

(* A registration or its end wakes the sweep it concerns.                  *)
LEMMA RegistrySleeps ==
    ASSUME IInv, SweepsSleepRightly, UNCHANGED <<drain, inflight>>,
           NEW k \in Loops, NEW x \in Hosts, NEW g \in Nat,
           Register(k, x, g) \/ Unregister(k, x, g) \/ UNCHANGED <<records, poked>>
    PROVE  SweepsSleepRightly'
<1>1. ASSUME NEW l \in Loops, Asleep(l)'
      PROVE  /\ Asleep(l)
             /\ \A h \in Hosts : /\ records'[l][h] = records[l][h]
                                 /\ Outstanding(l, h)' <=> Outstanding(l, h)
  <2>1. /\ drain[l].phase = "sweeping" /\ ~poked'[l]
        /\ \A h \in Hosts : ~Done(l, h) /\ (Outstanding(l, h)' <=> Outstanding(l, h))
    BY <1>1 DEF Asleep, Done, Outstanding
  <2>2. rstate[l] = "draining" /\ l \notin dead
    BY <2>1, SleepersDrain
  <2>3. poked \in [Loops -> BOOLEAN] /\ records \in [Loops -> [Hosts -> Nat]]
    BY DEF IInv, TypeOK
  <2>4. Poke(k) => k # l /\ ~poked[l]
    <3> SUFFICES ASSUME Poke(k) PROVE k # l /\ ~poked[l]
      OBVIOUS
    <3>1. poked'[k] = (rstate[k] = "draining") /\ (l # k => poked'[l] = poked[l])
      BY <2>3 DEF Poke
    <3> QED
      BY <2>1, <2>2, <3>1
  <2>5. CASE Register(k, x, g)
    <3>1. Poke(k) /\ records'[l] = IF l = k THEN [records[l] EXCEPT ![x] = g] ELSE records[l]
      BY <2>2, <2>5 DEF Register, Pruned
    <3>2. records'[l] = records[l] /\ ~poked[l]
      BY <2>4, <3>1
    <3> QED
      BY <2>1, <3>2 DEF Asleep
  <2>6. CASE Unregister(k, x, g) \/ UNCHANGED <<records, poked>>
    <3>1. \/ UNCHANGED <<records, poked>>
          \/ Poke(k) /\ records' = [records EXCEPT ![k][x] = 0]
      BY <2>6 DEF Unregister
    <3>2. records'[l] = records[l] /\ ~poked[l]
      BY <2>1, <2>3, <2>4, <3>1
    <3> QED
      BY <2>1, <3>2 DEF Asleep
  <2> QED
    BY <2>5, <2>6
<1> QED
    BY <1>1, SleepersSleepOn

LEMMA CloseEndsSleeps ==
    ASSUME IInv, SweepsSleepRightly, NEW z \in closing,
           NEW o \in {"finished", "failed", "cancelled"}, CloseEnds(z, o)
    PROVE  SweepsSleepRightly'
<1>1. ASSUME NEW l \in Loops, Asleep(l)'
      PROVE  /\ Asleep(l)
             /\ \A h \in Hosts : /\ records'[l][h] = records[l][h]
                                 /\ Outstanding(l, h)' <=> Outstanding(l, h)
  <2>1. drain[l].phase = "sweeping" /\ ~poked'[l] /\ \A h \in Hosts : ~Done(l, h)'
    BY <1>1 DEF Asleep, CloseEnds
  <2>2. rstate[l] = "draining"
    BY <2>1, SleepersDrain
  <2>3. ~poked[l] /\ records'[l] = records[l]
    BY <2>1, <2>2 DEF CloseEnds, IInv, TypeOK
  <2>4. inflight'[l] = inflight[l]
    <3> SUFFICES ASSUME inflight'[l] # inflight[l] PROVE FALSE
      OBVIOUS
    <3>1. PICK x \in Hosts : x = z.host
      BY DEF IInv, TypeOK, CloseRecord
    <3>2. z.by \in Loops /\ inflight' = [inflight EXCEPT ![z.by][x] = As(@, o)]
      BY <3>1 DEF CloseEnds
    <3>3. z.by = l
      BY <3>2 DEF IInv, TypeOK
    <3>4. inflight'[l][x] = As(inflight[l][x], o)
      BY <3>2, <3>3 DEF IInv, TypeOK
    <3>5. inflight'[l][x].st = o
      BY <3>4 DEF As
    <3> QED
      BY <2>1, <3>5 DEF Done
  <2> QED
    BY <2>1, <2>3, <2>4 DEF Asleep, Done, Outstanding
<1> QED
    BY <1>1, SleepersSleepOn

(* A step of the drain's own tasks; a finished one wakes the sweep.        *)
LEMMA CloseStartsSleeps ==
    ASSUME IInv, SweepsSleepRightly, NEW l \in Loops, NEW h \in Hosts, CloseStarts(l, h)
    PROVE  SweepsSleepRightly'
<1>1. PICK s \in {"running", "finished"} :
          inflight' = [inflight EXCEPT ![l][h] = As(inflight[l][h], s)]
    BY DEF CloseStarts
<1>2. inflight[l][h].st = "pending" /\ UNCHANGED <<records, drain, poked>>
    BY DEF CloseStarts, registryVars
<1>3. PICK task : task = As(inflight[l][h], s)
    OBVIOUS
<1>4. task.st = s
    BY <1>3 DEF As
<1>5. \A k \in Loops, x \in Hosts :
          inflight'[k][x] = IF k = l /\ x = h THEN task ELSE inflight[k][x]
    BY <1>1, <1>3 DEF IInv, TypeOK
<1>6. ASSUME NEW k \in Loops, Asleep(k)'
      PROVE  /\ Asleep(k)
             /\ \A x \in Hosts : /\ records'[k][x] = records[k][x]
                                 /\ Outstanding(k, x)' <=> Outstanding(k, x)
  <2>1. \A x \in Hosts : ~Done(k, x)'
    BY <1>6 DEF Asleep
  <2>2. k = l => s = "running"
    BY <1>4, <1>5, <2>1 DEF Done
  <2>3. \A x \in Hosts : Outstanding(k, x)' <=> Outstanding(k, x)
    BY <1>2, <1>4, <1>5, <2>2 DEF Outstanding
  <2>4. \A x \in Hosts : ~Done(k, x)
    BY <1>2, <1>5, <2>1 DEF Done
  <2> QED
    BY <1>2, <1>6, <2>3, <2>4 DEF Asleep
<1> QED
    BY <1>6, SleepersSleepOn

(* A drain that starts, starts again, is cut, dies or ends has no sweep    *)
(* that sleeps.                                                            *)
LEMMA AwakeSleeps ==
    ASSUME IInv, SweepsSleepRightly, NEW l \in Loops, ~Asleep(l)',
           \A k \in Loops : k # l =>
              drain'[k] = drain[k] /\ poked'[k] = poked[k] /\ inflight'[k] = inflight[k],
           \A k \in Loops \ dead : k # l => records'[k] = records[k]
    PROVE  SweepsSleepRightly'
<1>1. ASSUME NEW k \in Loops, Asleep(k)'
      PROVE  /\ Asleep(k)
             /\ \A h \in Hosts : /\ records'[k][h] = records[k][h]
                                 /\ Outstanding(k, h)' <=> Outstanding(k, h)
  <2>1. k # l
    BY <1>1
  <2>2. Asleep(k) /\ \A h \in Hosts : Outstanding(k, h)' <=> Outstanding(k, h)
    BY <1>1, <2>1 DEF Asleep, Done, Outstanding
  <2>3. k \notin dead
    BY <2>2, SleepersDrain DEF Asleep
  <2> QED
    BY <2>1, <2>2, <2>3
<1> QED
    BY <1>1, SleepersSleepOn

(* A step of the boundaries that starts no drain.                          *)
LEMMA UndisturbedSleeps ==
    ASSUME IInv, SweepsSleepRightly, UNCHANGED <<drain, poked, inflight>>,
           \A k \in Loops \ dead : records'[k] = records[k]
    PROVE  SweepsSleepRightly'
<1>1. ASSUME NEW l \in Loops, Asleep(l)'
      PROVE  /\ Asleep(l)
             /\ \A h \in Hosts : /\ records'[l][h] = records[l][h]
                                 /\ Outstanding(l, h)' <=> Outstanding(l, h)
  <2>1. Asleep(l) /\ \A h \in Hosts : Outstanding(l, h)' <=> Outstanding(l, h)
    BY <1>1 DEF Asleep, Done, Outstanding
  <2>2. l \notin dead
    BY <2>1, SleepersDrain DEF Asleep
  <2> QED
    BY <2>1, <2>2
<1> QED
    BY <1>1, SleepersSleepOn

LEMMA StartDrainSleeps ==
    ASSUME IInv, SweepsSleepRightly, NEW l \in Loops, NEW by, NEW s, StartDrain(l, by, s),
           UNCHANGED inflight, \A k \in Loops \ dead : records'[k] = records[k]
    PROVE  SweepsSleepRightly'
<1>1. /\ poked'[l] /\ \A k \in Loops : k # l => drain'[k] = drain[k] /\ poked'[k] = poked[k]
    BY DEF StartDrain, IInv, TypeOK
<1> QED
    BY <1>1, AwakeSleeps DEF Asleep

LEMMA SleepersStep ==
    ASSUME IInv, SweepsSleepRightly, [Next]_vars PROVE SweepsSleepRightly'
<1> USE DEF IInv
<1>1. CASE HostStep
  <2>1. ASSUME NEW h \in Hosts, NEW l \in Loops, ClaimLoop(h, l) PROVE SweepsSleepRightly'
    <3>1. UNCHANGED <<drain, inflight>> /\ \E g \in Nat : Register(l, h, g)
      BY <2>1 DEF ClaimLoop, TypeOK
    <3> QED
      BY <3>1, RegistrySleeps
  <2>2. ASSUME NEW h \in Hosts, RebuildConnections(h) PROVE SweepsSleepRightly'
    <3>1. UNCHANGED <<drain, inflight>> /\ gen[h] + 1 \in Nat
      BY <2>2 DEF RebuildConnections, TypeOK
    <3>2. \/ owner[h] \in Loops /\ Register(owner[h], h, gen[h] + 1)
          \/ UNCHANGED <<records, poked>>
      BY <2>2 DEF RebuildConnections, TypeOK
    <3> QED
      BY <3>1, <3>2, RegistrySleeps, UndisturbedSleeps
  <2>3. ASSUME NEW h \in Hosts, CloseOnDeadLoop(h) PROVE SweepsSleepRightly'
    <3>1. UNCHANGED <<drain, inflight>> /\ gen[h] \in Nat /\ owner[h] \in Loops
      BY <2>3 DEF CloseOnDeadLoop, TypeOK
    <3>2. Unregister(owner[h], h, gen[h])
      BY <2>3 DEF CloseOnDeadLoop
    <3> QED
      BY <3>1, <3>2, RegistrySleeps
  <2>4. CASE \/ \E h \in Hosts, u \in Users : CloseByUser(u, h)
             \/ \E z \in closing : CloseWorks(z)
    <3>1. UNCHANGED <<drain, poked, inflight, records>>
      BY <2>4 DEF CloseByUser, CloseWorks, registryVars, drainVars
    <3> QED
      BY <3>1, UndisturbedSleeps
  <2> QED
    BY <1>1, <2>1, <2>2, <2>3, <2>4, CloseEndsSleeps DEF HostStep
<1>2. CASE DrainStep
  <2>1. ASSUME NEW l \in Loops, SweepDies(l) \/ SweepAgain(l) \/ CutShort(l)
        PROVE  SweepsSleepRightly'
    <3>1. ~Asleep(l)'
      BY <2>1 DEF SweepDies, SweepAgain, CutShort, In, Asleep, TypeOK
    <3>2. /\ UNCHANGED records
          /\ \A k \in Loops : k # l =>
                drain'[k] = drain[k] /\ poked'[k] = poked[k] /\ inflight'[k] = inflight[k]
      BY <2>1 DEF SweepDies, SweepAgain, CutShort, registryVars, TypeOK
    <3> QED
      BY <3>1, <3>2, AwakeSleeps
  <2>2. ASSUME NEW l \in Loops, EndClean(l) \/ EndAbandoning(l) PROVE SweepsSleepRightly'
    <3>1. EndDrain(l) /\ \A k \in Loops : k # l => records'[k] = records[k]
      BY <2>2 DEF EndClean, EndAbandoning, AbandonOutstanding, TypeOK
    <3>2. /\ drain'[l] = NoDrain
          /\ \A k \in Loops : k # l =>
                drain'[k] = drain[k] /\ poked'[k] = poked[k] /\ inflight'[k] = inflight[k]
      BY <3>1 DEF EndDrain, TypeOK
    <3>3. ~Asleep(l)'
      BY <3>2 DEF Asleep, NoDrain
    <3> QED
      BY <3>1, <3>2, <3>3, AwakeSleeps
  <2> QED
    BY <1>2, <2>1, <2>2, SweepTurnSleeps, CloseStartsSleeps DEF DrainStep
<1>3. CASE BoundaryStep
  <2>1. ASSUME NEW l, NEW s, NEW n, Prune(l, s, n)
        PROVE  \A k \in Loops \ dead : records'[k] = records[k]
    BY <2>1 DEF Prune, Pruned, TypeOK
  <2>2. ASSUME NEW c \in Clients,
               Acquire(c) \/ Queue(c) \/ CancelWaiter(c) \/ LeaveQueue(c) \/ WaiterResumes(c)
        PROVE  SweepsSleepRightly'
    <3>1. /\ UNCHANGED <<drain, poked, inflight>>
          /\ records' = records \/ \E s, n : Prune(LoopOf[c], s, n)
      BY <2>2 DEF Acquire, Queue, CancelWaiter, LeaveQueue, WaiterResumes, registryVars, drainVars
    <3>2. \A k \in Loops \ dead : records'[k] = records[k]
      BY <2>1, <3>1
    <3> QED
      BY <3>1, <3>2, UndisturbedSleeps
  <2>3. ASSUME NEW c \in Clients, Release(c) PROVE SweepsSleepRightly'
    <3>1. UNCHANGED <<inflight, records>> /\ LoopOf[c] \in Loops
      BY <2>3, LoopOfAssumption DEF Release
    <3>2. StartDrain(LoopOf[c], c, FALSE) \/ UNCHANGED <<drain, poked>>
      BY <2>3 DEF Release
    <3> QED
      BY <3>1, <3>2, StartDrainSleeps, UndisturbedSleeps
  <2>4. ASSUME NEW l \in Loops, SweepUnheld(l) \/ ShutDown(l) PROVE SweepsSleepRightly'
    <3>1. /\ UNCHANGED inflight
          /\ records' = records \/ \E s, n : Prune(l, s, n)
          /\ StartDrain(l, NoClient, FALSE) \/ StartDrain(l, NoClient, TRUE)
      BY <2>4 DEF SweepUnheld, ShutDown
    <3>2. \A k \in Loops \ dead : records'[k] = records[k]
      BY <2>1, <3>1
    <3> QED
      BY <3>1, <3>2, StartDrainSleeps
  <2>5. ASSUME NEW l \in Loops, LoopCloses(l) PROVE SweepsSleepRightly'
    <3>1. UNCHANGED <<drain, poked, inflight, records>>
      BY <2>5 DEF LoopCloses, registryVars, drainVars
    <3> QED
      BY <3>1, UndisturbedSleeps
  <2>6. CASE AbandonClosedLoops
    <3>1. UNCHANGED <<drain, poked, inflight>> /\ \A k \in Loops \ dead : records'[k] = records[k]
      BY <2>6 DEF AbandonClosedLoops, drainVars, TypeOK
    <3> QED
      BY <3>1, UndisturbedSleeps
  <2> QED
    BY <1>3, <2>2, <2>3, <2>4, <2>5, <2>6 DEF BoundaryStep
<1>4. CASE UNCHANGED vars
  <2>1. UNCHANGED <<drain, poked, inflight, records>>
    BY <1>4 DEF vars, registryVars, drainVars
  <2> QED
    BY <2>1, UndisturbedSleeps
<1> QED
    BY <1>1, <1>2, <1>3, <1>4 DEF Next

(* The close tasks.  No close ends or is lost, and no task begins one.     *)
LEMMA ClosesGoOn ==
    ASSUME RunningAreClosing, closing \subseteq closing',
           \A l \in Loops, h \in Hosts :
              inflight'[l][h].st = "running" => inflight'[l][h] = inflight[l][h]
    PROVE  RunningAreClosing'
<1> SUFFICES ASSUME NEW l \in Loops, NEW h \in Hosts, inflight'[l][h].st = "running"
             PROVE  \E z \in closing' : z.host = h /\ z.by = l /\ z.gen = inflight'[l][h].gen
    BY DEF RunningAreClosing
<1>1. inflight'[l][h] = inflight[l][h]
    OBVIOUS
<1>2. PICK z \in closing : z.host = h /\ z.by = l /\ z.gen = inflight[l][h].gen
    BY <1>1 DEF RunningAreClosing
<1> QED
    BY <1>1, <1>2

LEMMA CloseStartsRuns ==
    ASSUME IInv, RunningAreClosing, NEW l \in Loops, NEW h \in Hosts, CloseStarts(l, h)
    PROVE  RunningAreClosing'
<1> USE DEF IInv
<1>1. inflight[l][h].st = "pending"
    BY DEF CloseStarts
<1>2. CASE records[l][h] = inflight[l][h].gen
  <2>1. PICK task : task = As(inflight[l][h], "running")
    OBVIOUS
  <2>2. PICK z : z = NewClose(h, l)
    OBVIOUS
  <2>3. closing' = closing \cup {z} /\ inflight' = [inflight EXCEPT ![l][h] = task]
    BY <1>2, <2>1, <2>2 DEF CloseStarts
  <2>4. z.host = h /\ z.by = l /\ z.gen = gen[h] /\ task.gen = inflight[l][h].gen
    BY <2>1, <2>2 DEF NewClose, As
  <2>5. inflight[l][h].gen # 0 /\ l \notin dead
    BY <1>1 DEF TasksMatchDrains, NoTask
  <2>6. z.gen = task.gen
    BY <1>2, <2>4, <2>5 DEF RegistryIsExact
  <2>7. \A k \in Loops, x \in Hosts :
            inflight'[k][x] = IF k = l /\ x = h THEN task ELSE inflight[k][x]
    BY <2>3 DEF TypeOK
  <2> QED
    BY <2>3, <2>4, <2>6, <2>7 DEF RunningAreClosing
<1>3. CASE records[l][h] # inflight[l][h].gen
  <2>1. PICK task : task = As(inflight[l][h], "finished")
    OBVIOUS
  <2>2. closing' = closing /\ inflight' = [inflight EXCEPT ![l][h] = task]
    BY <1>3, <2>1 DEF CloseStarts
  <2>3. task.st = "finished"
    BY <2>1 DEF As
  <2>4. \A k \in Loops, x \in Hosts :
            inflight'[k][x] = IF k = l /\ x = h THEN task ELSE inflight[k][x]
    BY <2>2 DEF TypeOK
  <2> QED
    BY <2>2, <2>3, <2>4, ClosesGoOn
<1> QED
    BY <1>2, <1>3

LEMMA CloseWorksRuns ==
    ASSUME IInv, RunningAreClosing, NEW z \in closing, CloseWorks(z) PROVE RunningAreClosing'
<1>1. PICK s : s = [z EXCEPT !.phase = "spent"]
    OBVIOUS
<1>2. s.host = z.host /\ s.by = z.by /\ s.gen = z.gen
    BY <1>1 DEF IInv, TypeOK, CloseRecord
<1>3. closing' = (closing \ {z}) \cup {s} /\ UNCHANGED inflight
    BY <1>1 DEF CloseWorks, drainVars
<1> QED
    BY <1>2, <1>3 DEF RunningAreClosing

LEMMA CloseEndsRuns ==
    ASSUME IInv, RunningAreClosing, NEW z \in closing,
           NEW o \in {"finished", "failed", "cancelled"}, CloseEnds(z, o)
    PROVE  RunningAreClosing'
<1> DEFINE mine == z.by \in Loops /\ inflight[z.by][z.host].st = "running"
                   /\ inflight[z.by][z.host].gen = z.gen
<1>1. z.host \in Hosts
    BY DEF IInv, TypeOK, CloseRecord
<1>2. PICK task : task = As(inflight[z.by][z.host], o)
    OBVIOUS
<1>3. task.st = o
    BY <1>2 DEF As
<1>4. /\ closing' = closing \ {z}
      /\ inflight' = IF mine THEN [inflight EXCEPT ![z.by][z.host] = task] ELSE inflight
    BY <1>2 DEF CloseEnds
<1>5. \A k \in Loops, x \in Hosts :
          inflight'[k][x] = IF mine /\ k = z.by /\ x = z.host THEN task ELSE inflight[k][x]
    BY <1>1, <1>4 DEF IInv, TypeOK
<1> SUFFICES ASSUME NEW l \in Loops, NEW h \in Hosts, inflight'[l][h].st = "running"
             PROVE  \E y \in closing' : y.host = h /\ y.by = l /\ y.gen = inflight'[l][h].gen
    BY DEF RunningAreClosing
<1>6. ~(mine /\ l = z.by /\ h = z.host) /\ inflight'[l][h] = inflight[l][h]
    BY <1>3, <1>5
<1>7. PICK y \in closing : y.host = h /\ y.by = l /\ y.gen = inflight[l][h].gen
    BY <1>6 DEF RunningAreClosing
<1>8. y # z
    BY <1>6, <1>7
<1> QED
    BY <1>4, <1>6, <1>7, <1>8

LEMMA RunnersStep ==
    ASSUME IInv, RunningAreClosing, [Next]_vars PROVE RunningAreClosing'
<1> USE DEF IInv
<1>1. ASSUME UNCHANGED inflight, closing \subseteq closing' PROVE RunningAreClosing'
    BY <1>1, ClosesGoOn
<1>2. CASE HostStep
  <2>1. CASE \/ \E h \in Hosts, l \in Loops : ClaimLoop(h, l)
             \/ \E h \in Hosts : RebuildConnections(h) \/ CloseOnDeadLoop(h)
             \/ \E h \in Hosts, u \in Users : CloseByUser(u, h)
    BY <1>1, <2>1 DEF ClaimLoop, RebuildConnections, CloseOnDeadLoop, CloseByUser, drainVars
  <2> QED
    BY <1>2, <2>1, CloseWorksRuns, CloseEndsRuns DEF HostStep
<1>3. CASE DrainStep
  <2>1. ASSUME NEW l \in Loops, SweepTurn(l) PROVE RunningAreClosing'
    <3>1. /\ UNCHANGED closing
          /\ \A k \in Loops : k # l => inflight'[k] = inflight[k]
          /\ \A h \in Hosts :
                /\ h \in Ready(l) => inflight'[l][h].st = "pending"
                /\ h \notin Ready(l) => inflight'[l][h] = KeptTask(l, h)
      BY <2>1, SweepTurnTasks
    <3>2. \A h \in Hosts : inflight'[l][h].st = "running" => inflight'[l][h] = inflight[l][h]
      BY <3>1 DEF KeptTask, NoTask
    <3> QED
      BY <3>1, <3>2, ClosesGoOn
  <2>2. ASSUME NEW l \in Loops, CutShort(l) PROVE RunningAreClosing'
    <3>1. /\ UNCHANGED closing
          /\ \A k \in Loops : k # l => inflight'[k] = inflight[k]
          /\ \A x \in Hosts : inflight'[l][x] \in
                {inflight[l][x], As(inflight[l][x], "cancelled"), NoTask}
      BY <2>2 DEF CutShort, hostVars, TypeOK
    <3>2. \A x \in Hosts : inflight'[l][x].st = "running" => inflight'[l][x] = inflight[l][x]
      BY <3>1 DEF As, NoTask
    <3> QED
      BY <3>1, <3>2, ClosesGoOn
  <2>3. ASSUME NEW l \in Loops, EndClean(l) \/ EndAbandoning(l) PROVE RunningAreClosing'
    <3>1. /\ UNCHANGED closing
          /\ inflight' = [inflight EXCEPT ![l] = [h \in Hosts |-> NoTask]]
      BY <2>3 DEF EndClean, EndAbandoning, AbandonOutstanding, EndDrain, hostVars
    <3>2. \A k \in Loops, x \in Hosts : inflight'[k][x] \in {inflight[k][x], NoTask}
      BY <3>1 DEF TypeOK
    <3> QED
      BY <3>1, <3>2, ClosesGoOn DEF NoTask
  <2>4. ASSUME NEW l \in Loops, SweepDies(l) \/ SweepAgain(l) PROVE RunningAreClosing'
    BY <1>1, <2>4 DEF SweepDies, SweepAgain, hostVars
  <2> QED
    BY <1>3, <2>1, <2>2, <2>3, <2>4, CloseStartsRuns DEF DrainStep
<1>4. CASE BoundaryStep
  <2>1. UNCHANGED inflight /\ closing' = closing
    BY <1>4 DEF BoundaryStep, Acquire, Queue, CancelWaiter, LeaveQueue, WaiterResumes, Release,
                SweepUnheld, ShutDown, LoopCloses, AbandonClosedLoops, drainVars, hostVars
  <2> QED
    BY <1>1, <2>1
<1>5. CASE UNCHANGED vars
    BY <1>1, <1>5 DEF vars, hostVars, drainVars
<1> QED
    BY <1>2, <1>3, <1>4, <1>5 DEF Next

(* No wait is without its cause, for any hosts, loops, clients and users:  *)
(* a waiting client is in the queue of a loop that drains, a draining one  *)
(* runs its loop's drain, a sweep sleeps only while a close of its own     *)
(* really runs or is about to, and every other registered host waits for   *)
(* a dependent that is registered.  What is left to the run's liveness is  *)
(* that what can happen does.                                              *)
THEOREM WaitsAlwaysHaveACause == Spec => []EveryWaitHasACause
<1> DEFINE Causes == ClientsWaitRightly /\ SweepsSleepRightly /\ RunningAreClosing
<1>1. Init => Causes
    BY DEF Init, ClientsWaitRightly, SweepsSleepRightly, RunningAreClosing, Asleep, NoDrain, NoTask
<1>2. IInv /\ Causes /\ [Next]_vars => Causes'
    BY ClientsStep, SleepersStep, RunnersStep
<1>3. Causes => EveryWaitHasACause
    BY CausesAre
<1> QED
  <2> HIDE DEF Causes
  <2> QED
    BY <1>1, <1>2, <1>3, Invariance, PTL DEF Spec

=============================================================================
