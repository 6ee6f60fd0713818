-------------------------- MODULE ConnectionsProofs --------------------------
(***************************************************************************)
(* Proofs that the connection manager leaves no connection open but those  *)
(* the code is known to leave, for any number of callers, connections and  *)
(* closes.  ConnInv is inductive; each action has a lemma.                 *)
(***************************************************************************)
EXTENDS MCHopTransport, HopTransportProofs, SequenceTheorems, TLAPS

Places == {"rest", "locking", "stale", "dialing", "settling", "failing", "closing"}
Locks == Slots \X (0..MaxManagerCloses)

CallerRecord ==
    [at : Places, slot : Slots, outer : Slots, on : Nat, holds : SUBSET Locks, lock : Locks,
     taken : [Slots -> Nat], step : 0..Len(Order), takes : BOOLEAN]

Connection == [slot : Slots, on : 0..MaxConnections]

StoreTyped ==
    /\ cached \in [Slots -> Nat]
    /\ lockDict \in 0..MaxManagerCloses
    /\ made \in Seq(Connection)
    /\ Len(made) <= MaxConnections
    /\ up \subseteq DOMAIN made /\ left \subseteq DOMAIN made

VarsTyped == caller \in [Callers -> CallerRecord] /\ StoreTyped

(* A lock has one holder at most, of each generation of locks.             *)
LocksExclude ==
    \A t, o \in Callers : \A l \in Locks :
        l \in caller[t].holds /\ l \in caller[o].holds => t = o

(* A connection is stored, and taken, in its own slot.                     *)
IsOf(c, s) == c # 0 => c \in DOMAIN made /\ made[c].slot = s

SlotsAreTheirOwn == \A s \in Slots : IsOf(cached[s], s)

(* Only an SFTP client rides on another connection, only lines drain.      *)
ChannelsRide == \A c \in DOMAIN made : made[c].on # 0 => made[c].slot \in Channels
LinesDrain == \A c \in draining : c \in DOMAIN made /\ made[c].slot = "line"

(* Whoever opens a shared slot has its lock: the one it waits for when it  *)
(* waits, and those it needs on the way to it.                             *)
HasLock(r, s) == s \in UserSlots \/ <<s, 0>> \in r.holds

HasItsLocks(r) ==
    /\ r.at \in {"stale", "dialing", "settling"} => HasLock(r, r.slot)
    /\ r.at \in {"locking", "stale", "dialing", "settling"} /\ r.slot # r.outer =>
          r.outer \in Channels /\ r.slot = Base[r.outer] /\ HasLock(r, r.outer)
    /\ r.at = "locking" => r.lock[1] = r.slot /\ (r.slot \notin UserSlots => r.lock[2] = 0)
    /\ r.at = "stale" => r.slot = "line"

(* What is being opened is its opener's, of the slot it is for.            *)
OpensItsOwn(r) ==
    /\ r.on \in 0..Len(made)
    /\ r.at = "dialing" /\ r.slot \notin Channels => r.on = 0
    /\ r.at \in {"settling", "failing"} =>
          r.on # 0 /\ made[r.on].slot = r.slot /\ r.slot \notin Channels
    /\ r.at = "failing" => r.slot = "line"

(* While a shared slot's lock is held nobody publishes there: it is empty, *)
(* but for the dead line client its opener waits for.                      *)
LockedAreEmpty(r) ==
    \A s \in Slots \ UserSlots :
        <<s, 0>> \in r.holds =>
            cached[s] = 0 \/ (r.at = "stale" /\ r.slot = s /\ r.on = cached[s])

(* A close awaits one step of its order, the line's by whoever drains it.  *)
ClosersAwait(r) ==
    /\ \A s \in Slots : IsOf(r.taken[s], s)
    /\ r.at = "closing" =>
          /\ r.step \in 1..Len(Order) /\ r.taken[Order[r.step]] # 0
          /\ r.step = 1 /\ ~r.takes =>
                r.taken["line"] \in draining \/ r.taken["line"] \notin up

Fits(r) == HasItsLocks(r) /\ OpensItsOwn(r) /\ LockedAreEmpty(r) /\ ClosersAwait(r)

ConnInv ==
    /\ VarsTyped
    /\ LocksExclude
    /\ SlotsAreTheirOwn
    /\ ChannelsRide
    /\ LinesDrain
    /\ \A t \in Callers : Fits(caller[t])
    /\ ConnectionsAreHeld

----------------------------------------------------------------------------
(* The slots and their order. *)

LEMMA SlotFacts ==
    /\ Slots = {"ssh", "user_ssh", "sftp", "user_sftp", "ftp", "line"}
    /\ Ssh = {"ssh", "user_ssh"} /\ UserSlots = {"user_ssh", "user_sftp"}
    /\ Channels = {"sftp", "user_sftp"}
    /\ Base["sftp"] = "ssh" /\ Base["user_sftp"] = "user_ssh"
BY DEF Slots, Ssh, UserSlots, Channels, Base

LEMMA OrderFacts ==
    /\ Len(Order) = 6 /\ DOMAIN Order = 1..6
    /\ Order[1] = "line" /\ Order[2] = "user_sftp" /\ Order[3] = "user_ssh"
    /\ Order[4] = "sftp" /\ Order[5] = "ssh" /\ Order[6] = "ftp"
BY DEF Order

LEMMA OrderIsOfSlots ==
    /\ \A j \in 1..6 : Order[j] \in Slots /\ (Order[j] = "line" => j = 1)
    /\ \A s \in Slots : \E j \in 1..6 : Order[j] = s
<1>1. \A j \in 1..6 : j = 1 \/ j = 2 \/ j = 3 \/ j = 4 \/ j = 5 \/ j = 6
    OBVIOUS
<1> QED
    BY <1>1, SlotFacts, OrderFacts

LEMMA AtRestFacts ==
    /\ AtRest \in CallerRecord
    /\ AtRest.at = "rest" /\ AtRest.holds = {} /\ AtRest.on = 0
    /\ AtRest.taken = [s \in Slots |-> 0] /\ AtRest.taken = Nothing
BY SlotFacts, OrderFacts, ConnectionAssumption DEF AtRest, CallerRecord, Places, Locks, Nothing

LEMMA RestFits == ASSUME VarsTyped PROVE Fits(AtRest)
BY AtRestFacts DEF VarsTyped, StoreTyped, Fits, HasItsLocks, OpensItsOwn, LockedAreEmpty, ClosersAwait, IsOf

LEMMA RestFitsNext == ASSUME StoreTyped' PROVE Fits(AtRest)'
BY AtRestFacts DEF StoreTyped, Fits, HasItsLocks, OpensItsOwn, LockedAreEmpty, ClosersAwait, IsOf

LEMMA InitInv == ConnInit => ConnInv
<1> SUFFICES ASSUME ConnInit PROVE ConnInv
    OBVIOUS
<1> USE DEF ConnInit
<1>1. VarsTyped
    BY AtRestFacts, ConnectionAssumption DEF VarsTyped, StoreTyped, Nothing
<1>2. \A t \in Callers : caller[t] = AtRest
    OBVIOUS
<1> QED
    BY <1>1, <1>2, RestFits, AtRestFacts
    DEF ConnInv, LocksExclude, SlotsAreTheirOwn, ChannelsRide, LinesDrain, ConnectionsAreHeld,
        IsOf, Nothing

----------------------------------------------------------------------------
(* What the steps of one caller share. *)

(* Connections are only added and only end, and a drain ends with its line.*)
Grows ==
    /\ Len(made') >= Len(made)
    /\ \A c \in DOMAIN made : c \in DOMAIN made' /\ made'[c] = made[c]
    /\ \A c \in up' : c \in up \/ c \notin DOMAIN made
    /\ \A c \in draining : c \in draining' \/ c \notin up'

(* Only the holder of a shared slot's lock publishes there. *)
KeepsLocked(t) ==
    \A s \in Slots \ UserSlots :
        cached'[s] = 0 \/ cached'[s] = cached[s] \/ <<s, 0>> \in caller[t].holds

(* A new lock was free. *)
LocksFree(t, r) ==
    \A l \in r.holds : l \in caller[t].holds \/ \A o \in Callers : l \notin caller[o].holds

LEMMA OthersFit ==
    ASSUME ConnInv, NEW t \in Callers, NEW o \in Callers, o # t, caller'[o] = caller[o],
           Grows, KeepsLocked(t), StoreTyped'
    PROVE  Fits(caller[o])'
<1> DEFINE q == caller[o]
<1>1. q \in CallerRecord /\ Fits(q)
    BY DEF ConnInv, VarsTyped
<1>2. \A s \in Slots : <<s, 0>> \in Locks
    BY ConnectionAssumption DEF Locks
<1>3. \A s \in Slots \ UserSlots : <<s, 0>> \in q.holds => cached'[s] \in {0, cached[s]}
    BY <1>2 DEF ConnInv, LocksExclude, KeepsLocked
<1>4. up \subseteq DOMAIN made /\ DOMAIN made = 1..Len(made) /\ Len(made) \in Nat
    BY DEF ConnInv, VarsTyped, StoreTyped
<1>5. LockedAreEmpty(q)'
    BY <1>1, <1>3 DEF Fits, LockedAreEmpty
<1>6. HasItsLocks(q)'
    BY <1>1 DEF Fits, HasItsLocks, HasLock
<1>7. OpensItsOwn(q)'
  <2>1. /\ q.on \in 0..Len(made)
        /\ q.at = "dialing" /\ q.slot \notin Channels => q.on = 0
        /\ q.at \in {"settling", "failing"} =>
              q.on # 0 /\ made[q.on].slot = q.slot /\ q.slot \notin Channels
        /\ q.at = "failing" => q.slot = "line"
    BY <1>1 DEF Fits, OpensItsOwn
  <2>2. Len(made') \in Nat
    BY DEF Grows
  <2>3. q.on # 0 => q.on \in DOMAIN made
    BY <1>4, <2>1
  <2>4. q.on \in 0..Len(made')
    BY <1>4, <2>1, <2>2 DEF Grows
  <2> QED
    BY <2>1, <2>3, <2>4 DEF OpensItsOwn, Grows
<1>8. ClosersAwait(q)'
  <2>1. \A s \in Slots : IsOf(q.taken[s], s) /\ IsOf(q.taken[s], s)'
    BY <1>1 DEF Fits, ClosersAwait, IsOf, Grows
  <2>2. q.taken["line"] = 0 \/ q.taken["line"] \in DOMAIN made
    BY <2>1, SlotFacts DEF IsOf
  <2>3. q.taken["line"] \notin up => q.taken["line"] \notin up'
    <3>1. 0 \notin up'
      BY DEF StoreTyped
    <3> QED
      BY <2>2, <3>1 DEF Grows
  <2> QED
    BY <1>1, <2>1, <2>3 DEF Fits, ClosersAwait, Grows
<1> QED
    BY <1>5, <1>6, <1>7, <1>8 DEF Fits

HandsOf(r) ==
    CASE r.at \in {"settling", "failing"} -> {r.on}
      [] r.at = "closing" -> {r.taken[Order[j]] : j \in r.step..Len(Order)}
      [] OTHER -> {}

(* What leaves its slot or the caller's hands without ending goes where    *)
(* somebody looks for it.                                                  *)
Accounted(t, r) ==
    /\ left \subseteq left'
    /\ \A c \in up' :
          \/ cached'[made'[c].slot] = c
          \/ c \in HandsOf(r)
          \/ c \in draining' \cup left'
          \/ c \in up /\ cached[made[c].slot] # c /\ c \notin HandsOf(caller[t])

LEMMA StepKeeps ==
    ASSUME ConnInv, NEW t \in Callers, NEW r \in CallerRecord, Moves(t, r),
           Grows, KeepsLocked(t), LocksFree(t, r), Accounted(t, r),
           StoreTyped', SlotsAreTheirOwn', ChannelsRide', LinesDrain', Fits(r)'
    PROVE  ConnInv'
<1>1. /\ caller' \in [Callers -> CallerRecord]
      /\ caller'[t] = r
      /\ \A o \in Callers : o # t => caller'[o] = caller[o]
    BY DEF Moves, ConnInv, VarsTyped
<1>2. LocksExclude'
    BY <1>1 DEF ConnInv, LocksExclude, LocksFree
<1>3. \A o \in Callers : Fits(caller[o])'
  <2> SUFFICES ASSUME NEW o \in Callers PROVE Fits(caller[o])'
    OBVIOUS
  <2>1. CASE o = t
    <3>1. caller'[o] = r
      BY <1>1, <2>1
    <3> QED
      BY <3>1 DEF Fits, HasItsLocks, HasLock, OpensItsOwn, LockedAreEmpty, ClosersAwait
  <2>2. CASE o # t
    BY <1>1, <2>2, OthersFit
  <2> QED
    BY <2>1, <2>2
<1>4. ConnectionsAreHeld'
  <2> SUFFICES ASSUME NEW c \in up'
               PROVE  \/ cached'[made'[c].slot] = c
                      \/ \E o \in Callers : c \in Hands(o)'
                      \/ c \in draining' \/ c \in left'
    BY DEF ConnectionsAreHeld
  <2>1. /\ Hands(t)' = HandsOf(r) /\ Hands(t) = HandsOf(caller[t])
        /\ \A o \in Callers : o # t => Hands(o)' = Hands(o)
    BY <1>1 DEF Hands, HandsOf
  <2>2. CASE c \in up /\ cached[made[c].slot] # c /\ c \notin HandsOf(caller[t])
    <3>1. (\E o \in Callers : o # t /\ c \in Hands(o)) \/ c \in draining \/ c \in left
      BY <2>1, <2>2 DEF ConnInv, ConnectionsAreHeld
    <3> QED
      BY <2>1, <3>1 DEF Accounted, Grows
  <2> QED
    BY <2>1, <2>2 DEF Accounted
<1> QED
    BY <1>1, <1>2, <1>3, <1>4 DEF ConnInv, VarsTyped

----------------------------------------------------------------------------
(* Asking. *)

Frozen == UNCHANGED <<lockDict, made, up, draining, left>>

(* A caller on its way to r's slot, at which it has not looked yet.        *)
Seeking(t, r) ==
    /\ r \in CallerRecord
    /\ r.at \in {"rest", "locking"}
    /\ LocksFree(t, r)
    /\ r.on \in 0..Len(made)
    /\ r.slot # r.outer => r.outer \in Channels /\ r.slot = Base[r.outer] /\ HasLock(r, r.outer)
    /\ LockedAreEmpty(r)
    /\ \A s \in Slots : IsOf(r.taken[s], s)

(* A step of a caller that opens or closes nothing yet, in which only a    *)
(* dead client may leave its slot.                                         *)
LEMMA AskingStep ==
    ASSUME ConnInv, NEW t \in Callers, NEW r \in CallerRecord, Moves(t, r), Frozen,
           caller[t].at \notin {"settling", "failing", "closing"}, LocksFree(t, r),
           cached' \in [Slots -> Nat],
           \A s \in Slots : cached'[s] = cached[s] \/ (cached'[s] = 0 /\ cached[s] \notin up),
           HasItsLocks(r), OpensItsOwn(r), LockedAreEmpty(r)', r.at # "closing",
           \A s \in Slots : IsOf(r.taken[s], s)
    PROVE  ConnInv'
<1> USE DEF Frozen
<1>1. Grows
    BY DEF Grows, ConnInv, VarsTyped, StoreTyped
<1>2. KeepsLocked(t)
    BY DEF KeepsLocked
<1>3. HandsOf(caller[t]) = {}
    BY DEF HandsOf
<1>4. \A c \in up : c \in DOMAIN made /\ made[c].slot \in Slots
  <2>1. \A c \in DOMAIN made : made[c] \in Connection
    BY ElementOfSeq DEF ConnInv, VarsTyped, StoreTyped
  <2> QED
    BY <2>1 DEF Connection, ConnInv, VarsTyped, StoreTyped
<1>5. Accounted(t, r)
    BY <1>3, <1>4 DEF Accounted
<1>6. StoreTyped' /\ SlotsAreTheirOwn' /\ ChannelsRide' /\ LinesDrain'
    BY DEF ConnInv, VarsTyped, StoreTyped, SlotsAreTheirOwn, ChannelsRide, LinesDrain, IsOf
<1>7. Fits(r)'
    BY DEF Fits, HasItsLocks, HasLock, OpensItsOwn, ClosersAwait, IsOf
<1> QED
    BY <1>1, <1>2, <1>5, <1>6, <1>7, StepKeeps

LEMMA RestStep ==
    ASSUME ConnInv, NEW t \in Callers, Moves(t, AtRest), Frozen, UNCHANGED cached,
           caller[t].at \notin {"settling", "failing", "closing"}
    PROVE  ConnInv'
<1>1. PICK r \in CallerRecord : r = AtRest
    BY AtRestFacts
<1>2. Fits(r) /\ r.at = "rest" /\ r.holds = {}
    BY <1>1, RestFits, AtRestFacts DEF ConnInv
<1>3. Moves(t, r) /\ LocksFree(t, r)
    BY <1>1, <1>2 DEF LocksFree
<1>4. cached' \in [Slots -> Nat] /\ \A s \in Slots : cached'[s] = cached[s]
    BY DEF ConnInv, VarsTyped, StoreTyped
<1>5. /\ HasItsLocks(r) /\ OpensItsOwn(r) /\ LockedAreEmpty(r)'
      /\ \A s \in Slots : IsOf(r.taken[s], s)
    BY <1>2 DEF Fits, LockedAreEmpty, ClosersAwait
<1> QED
    BY <1>2, <1>3, <1>4, <1>5, AskingStep

LEMMA GainsInv ==
    ASSUME ConnInv, NEW t \in Callers, NEW r, Seeking(t, r), NEW c \in DOMAIN made,
           caller[t].at \in {"rest", "locking"}, Gains(t, r, c), Frozen, UNCHANGED cached
    PROVE  ConnInv'
<1>1. CASE r.slot = r.outer
    BY <1>1, RestStep DEF Gains
<1>2. CASE r.slot # r.outer
  <2>1. PICK q : q = [r EXCEPT !.at = "dialing", !.slot = r.outer, !.on = c]
    OBVIOUS
  <2>2. /\ q \in CallerRecord /\ q.at = "dialing" /\ q.slot = r.outer /\ q.outer = r.outer
        /\ q.on = c /\ q.holds = r.holds /\ q.taken = r.taken
    <3>1. r \in CallerRecord /\ c \in Nat
      BY DEF Seeking, ConnInv, VarsTyped, StoreTyped
    <3> QED
      BY <2>1, <3>1 DEF CallerRecord, Places
  <2>7. Moves(t, q)
    BY <1>2, <2>1 DEF Gains
  <2>3. HasItsLocks(q) /\ OpensItsOwn(q)
    BY <1>2, <2>2 DEF Seeking, HasItsLocks, HasLock, OpensItsOwn, ConnInv, VarsTyped, StoreTyped
  <2>4. LockedAreEmpty(q)' /\ LocksFree(t, q)
    BY <2>2 DEF Seeking, LockedAreEmpty, LocksFree
  <2>5. \A s \in Slots : IsOf(q.taken[s], s)
    BY <2>2 DEF Seeking
  <2>6. cached' \in [Slots -> Nat] /\ \A s \in Slots : cached'[s] = cached[s]
    BY DEF ConnInv, VarsTyped, StoreTyped
  <2> QED
    BY <2>2, <2>3, <2>4, <2>5, <2>6, <2>7, AskingStep
<1> QED
    BY <1>1, <1>2

LEMMA DialsInv ==
    ASSUME ConnInv, NEW t \in Callers, NEW r, Seeking(t, r), NEW l \in Locks,
           caller[t].at \in {"rest", "locking"},
           l[1] = r.slot, r.slot \notin UserSlots => l[2] = 0, r.slot \notin Channels,
           \A o \in Callers : l \notin caller[o].holds, ~Usable(r.slot),
           Dials(t, [r EXCEPT !.holds = @ \cup {l}]), Frozen
    PROVE  ConnInv'
<1>0. /\ cached \in [Slots -> Nat] /\ 0 \notin up /\ DOMAIN made = 1..Len(made)
      /\ Len(made) \in Nat /\ up \subseteq DOMAIN made
    BY DEF ConnInv, VarsTyped, StoreTyped
<1>1. PICK p : p = [r EXCEPT !.holds = @ \cup {l}]
    OBVIOUS
<1>2. /\ p \in CallerRecord /\ p.at = r.at /\ p.slot = r.slot /\ p.outer = r.outer
      /\ p.on = r.on /\ p.holds = r.holds \cup {l} /\ p.taken = r.taken /\ Dials(t, p)
    BY <1>1 DEF Seeking, CallerRecord
<1>3. l = <<l[1], l[2]>> /\ r.slot \in Slots
    BY <1>2 DEF Locks, CallerRecord
<1>4. LocksFree(t, p) /\ HasLock(p, p.slot) /\ (HasLock(r, r.outer) => HasLock(p, p.outer))
    BY <1>2, <1>3 DEF Seeking, LocksFree, HasLock
<1>5. \A s \in Slots \ UserSlots : <<s, 0>> \in p.holds => cached[s] = 0 \/ s = p.slot
  <2> SUFFICES ASSUME NEW s \in Slots \ UserSlots, <<s, 0>> \in p.holds, s # p.slot
               PROVE  cached[s] = 0
    OBVIOUS
  <2>1. <<s, 0>> \in r.holds
    BY <1>2
  <2> QED
    BY <2>1 DEF Seeking, LockedAreEmpty
<1>6. CASE cached[p.slot] \in up
  <2>1. PICK q : q = [p EXCEPT !.at = "stale", !.on = cached[p.slot]]
    OBVIOUS
  <2>2. /\ q \in CallerRecord /\ q.at = "stale" /\ q.slot = p.slot /\ q.outer = p.outer
        /\ q.on = cached[p.slot] /\ q.holds = p.holds /\ q.taken = p.taken
    BY <1>0, <1>2, <2>1 DEF CallerRecord, Places
  <2>3. Moves(t, q) /\ UNCHANGED cached
    BY <1>2, <1>6, <2>1 DEF Dials
  <2>4. p.slot = "line"
    BY <1>0, <1>2, <1>6 DEF Usable
  <2>5. HasItsLocks(q) /\ OpensItsOwn(q)
    BY <1>0, <1>2, <1>4, <1>6, <2>2, <2>4
    DEF Seeking, HasItsLocks, HasLock, OpensItsOwn
  <2>6. LockedAreEmpty(q)' /\ LocksFree(t, q)
    BY <1>4, <1>5, <2>2, <2>3 DEF LockedAreEmpty, LocksFree
  <2>7. \A s \in Slots : IsOf(q.taken[s], s)
    BY <1>2, <2>2 DEF Seeking
  <2>8. cached' \in [Slots -> Nat] /\ \A s \in Slots : cached'[s] = cached[s]
    BY <1>0, <2>3
  <2> QED
    BY <2>2, <2>3, <2>5, <2>6, <2>7, <2>8, AskingStep
<1>7. CASE cached[p.slot] \notin up
  <2>1. PICK q : q = [p EXCEPT !.at = "dialing", !.on = 0]
    OBVIOUS
  <2>2. /\ q \in CallerRecord /\ q.at = "dialing" /\ q.slot = p.slot /\ q.outer = p.outer
        /\ q.on = 0 /\ q.holds = p.holds /\ q.taken = p.taken
    BY <1>2, <2>1 DEF CallerRecord, Places
  <2>3. Moves(t, q) /\ cached' = [cached EXCEPT ![p.slot] = 0]
    BY <1>2, <1>7, <2>1 DEF Dials
  <2>4. /\ cached' \in [Slots -> Nat] /\ cached'[p.slot] = 0
        /\ \A s \in Slots : s # p.slot => cached'[s] = cached[s]
    BY <1>0, <1>2, <1>3, <2>3
  <2>5. HasItsLocks(q) /\ OpensItsOwn(q)
    BY <1>0, <1>2, <1>4, <2>2 DEF Seeking, HasItsLocks, HasLock, OpensItsOwn
  <2>6. LockedAreEmpty(q)' /\ LocksFree(t, q)
    BY <1>4, <1>5, <2>2, <2>4 DEF LockedAreEmpty, LocksFree
  <2>7. \A s \in Slots : IsOf(q.taken[s], s)
    BY <1>2, <2>2 DEF Seeking
  <2>8. \A s \in Slots : cached'[s] = cached[s] \/ (cached'[s] = 0 /\ cached[s] \notin up)
    BY <1>7, <2>4
  <2> QED
    BY <2>2, <2>3, <2>4, <2>5, <2>6, <2>7, <2>8, AskingStep
<1> QED
    BY <1>6, <1>7

LEMMA SeeksInv ==
    ASSUME ConnInv, NEW t \in Callers, NEW r, Seeking(t, r), r.slot \notin Channels,
           caller[t].at \in {"rest", "locking"}, Seeks(t, r), Frozen
    PROVE  ConnInv'
<1>0. PICK l : l = LockOf(r.slot)
    OBVIOUS
<1>1. /\ l \in Locks /\ l[1] = r.slot /\ (r.slot \notin UserSlots => l[2] = 0)
      /\ r.slot \in Slots
  <2>1. r.slot \in Slots
    BY DEF Seeking, CallerRecord
  <2> QED
    BY <1>0, <2>1, ConnectionAssumption DEF LockOf, Locks, ConnInv, VarsTyped, StoreTyped
<1>2. CASE Usable(r.slot)
  <2>1. PICK c : c = cached[r.slot]
    OBVIOUS
  <2>2. c \in DOMAIN made
    BY <1>1, <1>2, <2>1 DEF Usable, ConnInv, SlotsAreTheirOwn, IsOf
  <2>3. Gains(t, r, c) /\ UNCHANGED cached
    BY <1>2, <2>1 DEF Seeks
  <2> QED
    BY <2>2, <2>3, GainsInv
<1>3. CASE ~Usable(r.slot) /\ Contested(l)
  <2>1. PICK q : q = [r EXCEPT !.at = "locking", !.lock = l]
    OBVIOUS
  <2>2. r \in CallerRecord
    BY DEF Seeking
  <2>3. /\ q \in CallerRecord /\ q.at = "locking" /\ q.slot = r.slot /\ q.outer = r.outer
        /\ q.on = r.on /\ q.holds = r.holds /\ q.taken = r.taken /\ q.lock = l
    BY <1>1, <2>1, <2>2 DEF CallerRecord, Places
  <2>4. Moves(t, q) /\ UNCHANGED cached
    BY <1>0, <1>3, <2>1 DEF Seeks
  <2>5. HasItsLocks(q) /\ OpensItsOwn(q)
    BY <1>1, <2>3 DEF Seeking, HasItsLocks, HasLock, OpensItsOwn
  <2>6. LockedAreEmpty(q)' /\ LocksFree(t, q)
    BY <2>3, <2>4 DEF Seeking, LockedAreEmpty, LocksFree
  <2>7. \A s \in Slots : IsOf(q.taken[s], s)
    BY <2>3 DEF Seeking
  <2>8. cached' \in [Slots -> Nat] /\ \A s \in Slots : cached'[s] = cached[s]
    BY <2>4 DEF ConnInv, VarsTyped, StoreTyped
  <2> QED
    BY <2>3, <2>4, <2>5, <2>6, <2>7, <2>8, AskingStep
<1>4. CASE ~Usable(r.slot) /\ ~Contested(l)
  <2>1. Dials(t, [r EXCEPT !.holds = @ \cup {l}])
    BY <1>0, <1>4 DEF Seeks
  <2>2. \A o \in Callers : l \notin caller[o].holds
    BY <1>4 DEF Contested
  <2> QED
    BY <1>1, <1>4, <2>1, <2>2, DialsInv
<1> QED
    BY <1>2, <1>3, <1>4

(* An SFTP client's caller, with its own lock, looks for the connection.   *)
LEMMA SeeksBaseInv ==
    ASSUME ConnInv, NEW t \in Callers, NEW r \in CallerRecord, NEW l \in Locks,
           caller[t].at \in {"rest", "locking"}, r.at \in {"rest", "locking"},
           r.outer \in Channels, r.on \in 0..Len(made), l \in r.holds,
           LocksFree(t, r),
           \A s \in Slots \ UserSlots : <<s, 0>> \in r.holds => cached[s] = 0 \/ s = r.outer,
           l[1] = r.outer, r.outer \notin UserSlots => l[2] = 0,
           ~Usable(r.outer),
           \A s \in Slots : IsOf(r.taken[s], s), SeeksBase(t, r), Frozen
    PROVE  ConnInv'
<1>1. PICK q : q = [r EXCEPT !.slot = Base[r.outer]]
    OBVIOUS
<1>2. Base[r.outer] \in Slots \ Channels /\ r.outer \in Slots
    BY SlotFacts
<1>3. /\ q \in CallerRecord /\ q.at = r.at /\ q.slot = Base[r.outer] /\ q.outer = r.outer
      /\ q.on = r.on /\ q.holds = r.holds /\ q.taken = r.taken /\ Seeks(t, q)
    BY <1>1, <1>2 DEF CallerRecord, SeeksBase
<1>4. l = <<l[1], l[2]>>
    BY DEF Locks
<1>5. HasLock(q, q.outer)
    BY <1>3, <1>4 DEF HasLock
<1>6. LockedAreEmpty(q)
  <2>1. cached[r.outer] = 0
    BY SlotFacts DEF Usable
  <2> QED
    BY <1>3, <2>1 DEF LockedAreEmpty
<1>7. LocksFree(t, q)
    BY <1>3 DEF LocksFree
<1>8. Seeking(t, q)
    BY <1>3, <1>5, <1>6, <1>7 DEF Seeking
<1> QED
    BY <1>2, <1>3, <1>8, SeeksInv

LEMMA AskInv ==
    ASSUME ConnInv, NEW t \in Callers, NEW s \in Slots, Ask(t, s) PROVE ConnInv'
<1>0. Frozen /\ caller[t].at = "rest" /\ ~Usable(s)
    BY DEF Ask, Frozen
<1>1. PICK l : l = LockOf(s)
    OBVIOUS
<1>2. l \in Locks /\ l[1] = s /\ (s \notin UserSlots => l[2] = 0)
    BY <1>1, ConnectionAssumption DEF LockOf, Locks, ConnInv, VarsTyped, StoreTyped
<1>3. PICK r : r = [AtRest EXCEPT !.slot = s, !.outer = s, !.lock = l]
    OBVIOUS
<1>4. /\ r \in CallerRecord /\ r.at = "rest" /\ r.slot = s /\ r.outer = s /\ r.lock = l
      /\ r.on = 0 /\ r.holds = {} /\ r.taken = [x \in Slots |-> 0]
    BY <1>2, <1>3, AtRestFacts DEF CallerRecord
<1>5. \A x \in Slots : IsOf(r.taken[x], x)
    BY <1>4 DEF IsOf
<1>6. Len(made) \in Nat /\ cached \in [Slots -> Nat]
    BY DEF ConnInv, VarsTyped, StoreTyped
<1>7. CASE s \notin Channels
  <2>1. Seeks(t, r)
    BY <1>1, <1>3, <1>7 DEF Ask
  <2>2. Seeking(t, r)
    BY <1>4, <1>5, <1>6 DEF Seeking, LocksFree, LockedAreEmpty
  <2> QED
    BY <1>0, <1>4, <1>7, <2>1, <2>2, SeeksInv
<1>8. CASE s \in Channels /\ Contested(l)
  <2>1. PICK q : q = [r EXCEPT !.at = "locking"]
    OBVIOUS
  <2>2. Moves(t, q) /\ UNCHANGED cached
    BY <1>1, <1>3, <1>8, <2>1 DEF Ask
  <2>3. /\ q \in CallerRecord /\ q.at = "locking" /\ q.slot = s /\ q.outer = s /\ q.lock = l
        /\ q.on = 0 /\ q.holds = {} /\ q.taken = r.taken
    BY <1>4, <2>1 DEF CallerRecord, Places
  <2>4. HasItsLocks(q) /\ OpensItsOwn(q) /\ LockedAreEmpty(q)' /\ LocksFree(t, q)
    BY <1>2, <1>6, <2>3 DEF HasItsLocks, HasLock, OpensItsOwn, LockedAreEmpty, LocksFree
  <2>5. \A x \in Slots : IsOf(q.taken[x], x)
    BY <1>5, <2>3
  <2>6. cached' \in [Slots -> Nat] /\ \A x \in Slots : cached'[x] = cached[x]
    BY <1>6, <2>2
  <2> QED
    BY <1>0, <2>2, <2>3, <2>4, <2>5, <2>6, AskingStep
<1>9. CASE s \in Channels /\ ~Contested(l)
  <2>1. PICK q : q = [r EXCEPT !.holds = {l}]
    OBVIOUS
  <2>2. SeeksBase(t, q)
    BY <1>1, <1>3, <1>9, <2>1 DEF Ask
  <2>3. /\ q \in CallerRecord /\ q.at = "rest" /\ q.outer = s
        /\ q.on = 0 /\ q.holds = {l} /\ q.taken = r.taken
    BY <1>2, <1>4, <2>1 DEF CallerRecord
  <2>4. \A o \in Callers : l \notin caller[o].holds
    BY <1>9 DEF Contested
  <2>5. \A x \in Slots : IsOf(q.taken[x], x)
    BY <1>5, <2>3
  <2>6. LocksFree(t, q)
    BY <2>3, <2>4 DEF LocksFree
  <2>7. \A x \in Slots \ UserSlots : <<x, 0>> \in q.holds => x = q.outer
    BY <1>2, <2>3
  <2> QED
    BY <1>0, <1>2, <1>6, <1>9, <2>2, <2>3, <2>5, <2>6, <2>7, SeeksBaseInv
<1> QED
    BY <1>7, <1>8, <1>9

LEMMA GetsLockInv ==
    ASSUME ConnInv, NEW t \in Callers, GetsLock(t) PROVE ConnInv'
<1>1. PICK r : r = caller[t]
    OBVIOUS
<1>2. PICK l : l = r.lock
    OBVIOUS
<1>3. /\ Frozen /\ r.at = "locking"
      /\ \A o \in Callers : l \notin caller[o].holds
    BY <1>1, <1>2 DEF GetsLock, Frozen
<1>4. r \in CallerRecord /\ Fits(r) /\ r.slot \in Slots /\ l \in Locks
    BY <1>1, <1>2 DEF ConnInv, VarsTyped, CallerRecord
<1>5. /\ l[1] = r.slot /\ (r.slot \notin UserSlots => l[2] = 0)
      /\ (r.slot # r.outer => r.outer \in Channels /\ r.slot = Base[r.outer] /\ HasLock(r, r.outer))
      /\ r.on \in 0..Len(made) /\ LockedAreEmpty(r) /\ \A s \in Slots : IsOf(r.taken[s], s)
    BY <1>2, <1>3, <1>4 DEF Fits, HasItsLocks, OpensItsOwn, ClosersAwait
<1>6. Seeking(t, r)
    BY <1>1, <1>3, <1>4, <1>5 DEF Seeking, LocksFree
<1>7. CASE Usable(r.slot)
  <2>1. PICK c : c = cached[r.slot]
    OBVIOUS
  <2>2. c \in DOMAIN made
    BY <1>4, <1>7, <2>1 DEF Usable, ConnInv, SlotsAreTheirOwn, IsOf
  <2>3. Gains(t, r, c) /\ UNCHANGED cached
    BY <1>1, <1>7, <2>1 DEF GetsLock
  <2> QED
    BY <1>1, <1>3, <1>6, <2>2, <2>3, GainsInv
<1>8. CASE ~Usable(r.slot) /\ r.slot \in Channels
  <2>1. PICK q : q = [r EXCEPT !.holds = @ \cup {l}]
    OBVIOUS
  <2>2. SeeksBase(t, q)
    BY <1>1, <1>2, <1>8, <2>1 DEF GetsLock
  <2>3. r.outer = r.slot
    BY <1>5, <1>8, SlotFacts
  <2>4. /\ q \in CallerRecord /\ q.at = "locking" /\ q.outer = r.slot
        /\ q.on = r.on /\ q.holds = r.holds \cup {l} /\ q.taken = r.taken
    BY <1>3, <1>4, <2>1, <2>3 DEF CallerRecord
  <2>5. LocksFree(t, q)
    BY <1>1, <1>3, <2>4 DEF LocksFree
  <2>6. \A s \in Slots \ UserSlots : <<s, 0>> \in q.holds => cached[s] = 0 \/ s = q.outer
    BY <1>3, <1>5, <2>4 DEF LockedAreEmpty
  <2> QED
    BY <1>1, <1>3, <1>4, <1>5, <1>8, <2>2, <2>4, <2>5, <2>6, SeeksBaseInv
<1>9. CASE ~Usable(r.slot) /\ r.slot \notin Channels
  <2>1. Dials(t, [r EXCEPT !.holds = @ \cup {l}])
    BY <1>1, <1>2, <1>9 DEF GetsLock
  <2> QED
    BY <1>1, <1>3, <1>4, <1>5, <1>6, <1>9, <2>1, DialsInv
<1> QED
    BY <1>7, <1>8, <1>9

LEMMA StaleIsGoneInv ==
    ASSUME ConnInv, NEW t \in Callers, StaleIsGone(t) PROVE ConnInv'
<1>1. PICK r : r = caller[t]
    OBVIOUS
<1>2. r \in CallerRecord /\ Fits(r)
    BY <1>1 DEF ConnInv, VarsTyped
<1>3. Frozen /\ r.at = "stale" /\ r.on \notin up /\ cached' = [cached EXCEPT !["line"] = 0]
    BY <1>1 DEF StaleIsGone, Frozen
<1>4. PICK q : q = [r EXCEPT !.at = "dialing", !.on = 0]
    OBVIOUS
<1>5. /\ q \in CallerRecord /\ q.at = "dialing" /\ q.slot = r.slot /\ q.outer = r.outer
      /\ q.on = 0 /\ q.holds = r.holds /\ q.taken = r.taken
    BY <1>2, <1>4 DEF CallerRecord, Places
<1>6. Moves(t, q)
    BY <1>1, <1>4 DEF StaleIsGone
<1>7. r.slot = "line" /\ "line" \in Slots \ UserSlots /\ 0 \notin up /\ Len(made) \in Nat
    BY <1>2, <1>3, SlotFacts DEF Fits, HasItsLocks, ConnInv, VarsTyped, StoreTyped
<1>8. cached["line"] \notin up
    BY <1>2, <1>3, <1>7 DEF Fits, HasItsLocks, HasLock, LockedAreEmpty
<1>9. /\ cached' \in [Slots -> Nat] /\ cached'["line"] = 0
      /\ \A s \in Slots : s # "line" => cached'[s] = cached[s]
    BY <1>3, <1>7 DEF ConnInv, VarsTyped, StoreTyped
<1>10. HasItsLocks(q) /\ OpensItsOwn(q) /\ \A s \in Slots : IsOf(q.taken[s], s)
    BY <1>2, <1>3, <1>5, <1>7 DEF Fits, HasItsLocks, HasLock, OpensItsOwn, ClosersAwait
<1>11. LockedAreEmpty(q)' /\ LocksFree(t, q)
    BY <1>1, <1>2, <1>5, <1>7, <1>9 DEF Fits, LockedAreEmpty, LocksFree
<1>12. \A s \in Slots : cached'[s] = cached[s] \/ (cached'[s] = 0 /\ cached[s] \notin up)
    BY <1>8, <1>9
<1> QED
    BY <1>1, <1>3, <1>5, <1>6, <1>9, <1>10, <1>11, <1>12, AskingStep

----------------------------------------------------------------------------
(* Opening. *)

(* c is published in r's slot.                                             *)
LEMMA PublishStep ==
    ASSUME ConnInv, NEW t \in Callers, NEW r, r = caller[t], r.at \in {"dialing", "settling"},
           NEW c \in DOMAIN made', Publish(t, r, c), made'[c].slot = r.slot,
           r.at = "settling" => r.on = c,
           Grows, made' \in Seq(Connection), Len(made') <= MaxConnections,
           up' \subseteq DOMAIN made', up' \subseteq up \cup {c}, UNCHANGED <<lockDict, draining>>,
           ChannelsRide', LinesDrain'
    PROVE  ConnInv'
<1>1. r \in CallerRecord /\ Fits(r)
    BY DEF ConnInv, VarsTyped
<1>2. /\ r.slot \in Slots /\ cached \in [Slots -> Nat] /\ 0 \notin up /\ c \in Nat \ {0}
      /\ DOMAIN made' = 1..Len(made') /\ Len(made') \in Nat
      /\ up \subseteq DOMAIN made /\ left \subseteq DOMAIN made
    BY <1>1 DEF CallerRecord, ConnInv, VarsTyped, StoreTyped
<1>3. /\ cached' \in [Slots -> Nat] /\ cached'[r.slot] = c
      /\ \A s \in Slots : s # r.slot => cached'[s] = cached[s]
    BY <1>2 DEF Publish
<1>4. r.slot \notin UserSlots => <<r.slot, 0>> \in r.holds /\ cached[r.slot] = 0
    BY <1>1, <1>2 DEF Fits, HasItsLocks, HasLock, LockedAreEmpty
<1>5. left' = left \cup (IF r.slot \in UserSlots THEN {cached[r.slot]} \ {0} ELSE {})
    BY DEF Publish
<1>6. left' \subseteq DOMAIN made'
  <2>1. cached[r.slot] # 0 => cached[r.slot] \in DOMAIN made
    BY <1>2 DEF ConnInv, SlotsAreTheirOwn, IsOf
  <2> QED
    BY <1>2, <1>5, <2>1 DEF Grows
<1>7. StoreTyped'
    BY <1>3, <1>6 DEF ConnInv, VarsTyped, StoreTyped
<1>8. SlotsAreTheirOwn'
    BY <1>3 DEF ConnInv, SlotsAreTheirOwn, IsOf, Grows
<1>9. KeepsLocked(t)
    BY <1>3, <1>4 DEF KeepsLocked
<1>10. ASSUME NEW q PROVE Accounted(t, q)
  <2>1. left \subseteq left'
    BY <1>5
  <2>2. ASSUME NEW d \in up', d # c, cached'[made'[d].slot] # d, d \notin left'
        PROVE  d \in up /\ cached[made[d].slot] # d /\ d \notin HandsOf(caller[t])
    <3>1. d \in up /\ d \in DOMAIN made /\ made'[d] = made[d]
      BY <1>2, <2>2 DEF Grows
    <3>2. made[d].slot \in Slots
      <4>1. made[d] \in Connection
        BY <3>1, ElementOfSeq DEF ConnInv, VarsTyped, StoreTyped
      <4> QED
        BY <4>1 DEF Connection
    <3>3. d # 0
      BY <1>2, <3>1
    <3>4. made[d].slot = r.slot => cached[made[d].slot] # d
      BY <1>4, <1>5, <2>2, <3>3
    <3>5. made[d].slot # r.slot => cached[made[d].slot] # d
      BY <1>3, <2>2, <3>1, <3>2
    <3>6. HandsOf(caller[t]) \subseteq {c}
      BY DEF HandsOf
    <3> QED
      BY <2>2, <3>1, <3>4, <3>5, <3>6
  <2>3. cached'[made'[c].slot] = c
    BY <1>3
  <2> QED
    BY <2>1, <2>2, <2>3 DEF Accounted
<1>11. CASE r.slot = r.outer
  <2>1. PICK q \in CallerRecord : q = AtRest
    BY AtRestFacts
  <2>2. Moves(t, q)
    <3>1. PICK p : p = [r EXCEPT !.holds = Without(@, r.slot)]
      OBVIOUS
    <3>2. p.slot = r.slot /\ p.outer = r.outer /\ Gains(t, p, c)
      BY <1>1, <3>1 DEF CallerRecord, Publish
    <3> QED
      BY <1>11, <2>1, <3>2 DEF Gains
  <2>3. LocksFree(t, q)
    BY <2>1, AtRestFacts DEF LocksFree
  <2>4. Fits(q)'
    BY <1>7, <2>1, RestFitsNext
  <2> QED
    BY <1>7, <1>8, <1>9, <1>10, <2>2, <2>3, <2>4, StepKeeps
<1>12. CASE r.slot # r.outer
  <2>1. PICK p : p = [r EXCEPT !.holds = Without(@, r.slot)]
    OBVIOUS
  <2>2. /\ p \in CallerRecord /\ p.slot = r.slot /\ p.outer = r.outer /\ p.taken = r.taken
        /\ p.holds = Without(r.holds, r.slot) /\ Gains(t, p, c)
    BY <1>1, <2>1 DEF CallerRecord, Publish, Without
  <2>3. PICK q : q = [p EXCEPT !.at = "dialing", !.slot = p.outer, !.on = c]
    OBVIOUS
  <2>4. /\ q \in CallerRecord /\ q.at = "dialing" /\ q.slot = r.outer /\ q.outer = r.outer
        /\ q.on = c /\ q.holds = Without(r.holds, r.slot) /\ q.taken = r.taken
    BY <1>2, <2>2, <2>3 DEF CallerRecord, Places
  <2>5. Moves(t, q)
    BY <1>12, <2>2, <2>3 DEF Gains
  <2>6. r.outer \in Channels /\ HasLock(r, r.outer)
    BY <1>1, <1>12 DEF Fits, HasItsLocks
  <2>7. HasItsLocks(q)'
    BY <1>12, <2>4, <2>6 DEF HasItsLocks, HasLock, Without
  <2>8. OpensItsOwn(q)'
    BY <1>2, <2>4, <2>6 DEF OpensItsOwn
  <2>9. LockedAreEmpty(q)'
    BY <1>1, <1>3, <2>4 DEF Fits, LockedAreEmpty, Without
  <2>10. ClosersAwait(q)'
    BY <1>1, <2>4 DEF Fits, ClosersAwait, IsOf, Grows
  <2>11. Fits(q)'
    BY <2>7, <2>8, <2>9, <2>10 DEF Fits
  <2>12. LocksFree(t, q)
    BY <2>4 DEF LocksFree, Without
  <2> QED
    BY <1>7, <1>8, <1>9, <1>10, <2>4, <2>5, <2>11, <2>12, StepKeeps
<1> QED
    BY <1>11, <1>12

LEMMA SettlesInv ==
    ASSUME ConnInv, NEW t \in Callers, Settles(t) PROVE ConnInv'
<1>1. PICK r : r = caller[t]
    OBVIOUS
<1>2. r \in CallerRecord /\ Fits(r)
    BY <1>1 DEF ConnInv, VarsTyped
<1>3. /\ r.at = "settling" /\ Publish(t, r, r.on)
      /\ UNCHANGED <<lockDict, made, up, draining>>
    BY <1>1 DEF Settles
<1>4. r.on \in DOMAIN made /\ made[r.on].slot = r.slot
    BY <1>2, <1>3 DEF Fits, OpensItsOwn, ConnInv, VarsTyped, StoreTyped
<1>5. Grows /\ ChannelsRide' /\ LinesDrain'
    BY <1>3 DEF Grows, ConnInv, VarsTyped, StoreTyped, ChannelsRide, LinesDrain
<1>6. /\ made' \in Seq(Connection) /\ Len(made') <= MaxConnections
      /\ up' \subseteq DOMAIN made' /\ up' = up
    BY <1>3 DEF ConnInv, VarsTyped, StoreTyped
<1>7. PICK c \in DOMAIN made' : c = r.on
    BY <1>3, <1>4
<1> QED
    BY <1>1, <1>3, <1>4, <1>5, <1>6, <1>7, PublishStep

LEMMA ConnectsInv ==
    ASSUME ConnInv, NEW t \in Callers, Connects(t) PROVE ConnInv'
<1>1. PICK r : r = caller[t]
    OBVIOUS
<1>2. r \in CallerRecord /\ Fits(r)
    BY <1>1 DEF ConnInv, VarsTyped
<1>3. PICK c : c = Len(made) + 1
    OBVIOUS
<1>4. /\ r.at = "dialing" /\ c <= MaxConnections
      /\ made' = Append(made, [slot |-> r.slot, on |-> r.on])
      /\ up' = up \cup {c} /\ UNCHANGED <<lockDict, draining>>
      /\ \/ r.slot \in Ssh \cup Channels /\ Publish(t, r, c)
         \/ /\ r.slot \notin Channels
            /\ Moves(t, [r EXCEPT !.at = "settling", !.on = c])
            /\ UNCHANGED <<cached, left>>
    BY <1>1, <1>3 DEF Connects
<1>5. /\ made \in Seq(Connection) /\ Len(made) \in Nat /\ Len(made) <= MaxConnections
      /\ up \subseteq DOMAIN made /\ left \subseteq DOMAIN made /\ DOMAIN made = 1..Len(made)
      /\ cached \in [Slots -> Nat] /\ MaxConnections \in Nat
    BY ConnectionAssumption DEF ConnInv, VarsTyped, StoreTyped
<1>6. r.slot \in Slots /\ r.on \in 0..Len(made) /\ (r.slot \notin Channels => r.on = 0)
    BY <1>2, <1>4 DEF CallerRecord, Fits, OpensItsOwn
<1>7. PICK e : e = [slot |-> r.slot, on |-> r.on]
    OBVIOUS
<1>8. e \in Connection /\ e.slot = r.slot /\ e.on = r.on
    BY <1>5, <1>6, <1>7 DEF Connection
<1>9. /\ made' \in Seq(Connection) /\ Len(made') = c /\ DOMAIN made' = 1..c /\ made'[c] = e
      /\ \A d \in DOMAIN made : d \in DOMAIN made' /\ made'[d] = made[d]
      /\ \A d \in DOMAIN made' : d \in DOMAIN made \/ d = c
  <2>1. made' = Append(made, e)
    BY <1>4, <1>7
  <2> HIDE DEF Connection
  <2>2. /\ made' \in Seq(Connection) /\ Len(made') = c /\ made'[c] = e
        /\ \A d \in 1..Len(made) : made'[d] = made[d]
    BY <1>3, <1>5, <1>8, <2>1, AppendProperties
  <2> QED
    BY <1>3, <1>5, <2>2
<1>10. Grows
    BY <1>3, <1>4, <1>5, <1>9 DEF Grows
<1>11. ChannelsRide' /\ LinesDrain'
    BY <1>4, <1>5, <1>6, <1>8, <1>9 DEF ConnInv, ChannelsRide, LinesDrain
<1>12. up' \subseteq DOMAIN made' /\ c \in DOMAIN made' /\ c \in Nat /\ c # 0
    BY <1>3, <1>4, <1>5, <1>9
<1>13. CASE Publish(t, r, c)
    BY <1>1, <1>4, <1>8, <1>9, <1>10, <1>11, <1>12, <1>13, PublishStep
<1>14. CASE /\ r.slot \notin Channels
            /\ Moves(t, [r EXCEPT !.at = "settling", !.on = c])
            /\ UNCHANGED <<cached, left>>
  <2>1. PICK q : q = [r EXCEPT !.at = "settling", !.on = c]
    OBVIOUS
  <2>2. /\ q \in CallerRecord /\ q.at = "settling" /\ q.slot = r.slot /\ q.outer = r.outer
        /\ q.on = c /\ q.holds = r.holds /\ q.taken = r.taken
    BY <1>2, <1>12, <2>1 DEF CallerRecord, Places
  <2>3. HasItsLocks(q)'
    BY <1>2, <1>4, <2>2 DEF Fits, HasItsLocks, HasLock
  <2>4. OpensItsOwn(q)'
    BY <1>8, <1>9, <1>12, <1>14, <2>2 DEF OpensItsOwn
  <2>5. LockedAreEmpty(q)'
    BY <1>2, <1>4, <1>14, <2>2 DEF Fits, LockedAreEmpty
  <2>6. ClosersAwait(q)'
    BY <1>2, <1>10, <2>2 DEF Fits, ClosersAwait, IsOf, Grows
  <2>7. Fits(q)'
    BY <2>3, <2>4, <2>5, <2>6 DEF Fits
  <2>8. LocksFree(t, q) /\ KeepsLocked(t)
    BY <1>1, <1>14, <2>2 DEF LocksFree, KeepsLocked
  <2>9. Accounted(t, q)
    <3>1. HandsOf(q) = {c} /\ HandsOf(caller[t]) = {}
      BY <1>1, <1>4, <2>2 DEF HandsOf
    <3>2. \A d \in up : made'[d] = made[d]
      BY <1>5, <1>9
    <3> QED
      BY <1>4, <1>14, <3>1, <3>2 DEF Accounted
  <2>10. StoreTyped'
    BY <1>4, <1>5, <1>9, <1>12, <1>14 DEF ConnInv, VarsTyped, StoreTyped
  <2>11. SlotsAreTheirOwn'
    BY <1>9, <1>14 DEF ConnInv, SlotsAreTheirOwn, IsOf
  <2> QED
    BY <1>10, <1>11, <1>14, <2>1, <2>2, <2>7, <2>8, <2>9, <2>10, <2>11, StepKeeps
<1> QED
    BY <1>4, <1>13, <1>14

----------------------------------------------------------------------------
(* Failing. *)

(* A step after which the caller is at rest, and nothing is opened: c, or  *)
(* nothing, ends.                                                          *)
LEMMA EndsAtRest ==
    ASSUME ConnInv, NEW t \in Callers, Moves(t, AtRest), UNCHANGED <<cached, lockDict, made>>,
           up' \subseteq up, \A c \in draining : c \in draining' \/ c \notin up',
           draining' \subseteq draining, left \subseteq left', left' \subseteq DOMAIN made,
           \A c \in HandsOf(caller[t]) : c \notin up' \/ c \in left' \cup draining'
    PROVE  ConnInv'
<1>1. PICK q \in CallerRecord : q = AtRest
    BY AtRestFacts
<1>2. Grows /\ KeepsLocked(t) /\ LocksFree(t, q)
    BY <1>1, AtRestFacts DEF Grows, KeepsLocked, LocksFree, ConnInv, VarsTyped, StoreTyped
<1>3. StoreTyped' /\ SlotsAreTheirOwn' /\ ChannelsRide' /\ LinesDrain'
    BY DEF ConnInv, VarsTyped, StoreTyped, SlotsAreTheirOwn, IsOf, ChannelsRide, LinesDrain
<1>4. Fits(q)'
    BY <1>1, <1>3, RestFitsNext
<1>5. Accounted(t, q)
    BY DEF Accounted
<1> QED
    BY <1>1, <1>2, <1>3, <1>4, <1>5, StepKeeps

LEMMA BreaksInv ==
    ASSUME ConnInv, NEW t \in Callers, Breaks(t) PROVE ConnInv'
<1>1. PICK r : r = caller[t]
    OBVIOUS
<1>2. r \in CallerRecord /\ Fits(r)
    BY <1>1 DEF ConnInv, VarsTyped
<1>3. UNCHANGED <<cached, lockDict, made>> /\ r.at \in {"locking", "stale", "dialing", "settling"}
    BY <1>1 DEF Breaks
<1>4. r.at = "settling" => r.on \in DOMAIN made /\ made[r.on].slot = r.slot /\ r.slot \notin Channels
    BY <1>2 DEF Fits, OpensItsOwn, ConnInv, VarsTyped, StoreTyped
<1>5. CASE r.at = "settling" /\ r.slot = "line"
  <2>1. PICK q : q = [r EXCEPT !.at = "failing"]
    OBVIOUS
  <2>2. /\ q \in CallerRecord /\ q.at = "failing" /\ q.slot = r.slot /\ q.outer = r.outer
        /\ q.on = r.on /\ q.holds = r.holds /\ q.taken = r.taken
    BY <1>2, <2>1 DEF CallerRecord, Places
  <2>3. Moves(t, q) /\ draining' = draining \cup {r.on} /\ UNCHANGED <<up, left>>
    BY <1>1, <1>5, <2>1 DEF Breaks
  <2>4. Grows /\ KeepsLocked(t) /\ LocksFree(t, q)
    BY <1>1, <1>3, <2>2, <2>3
    DEF Grows, KeepsLocked, LocksFree, ConnInv, VarsTyped, StoreTyped
  <2>5. StoreTyped' /\ SlotsAreTheirOwn' /\ ChannelsRide'
    BY <1>3, <2>3
    DEF ConnInv, VarsTyped, StoreTyped, SlotsAreTheirOwn, IsOf, ChannelsRide
  <2>6. LinesDrain'
    BY <1>3, <1>4, <1>5, <2>3 DEF ConnInv, LinesDrain
  <2>7. HasItsLocks(q)' /\ OpensItsOwn(q)'
    BY <1>2, <1>3, <1>5, <2>2, SlotFacts DEF Fits, HasItsLocks, OpensItsOwn
  <2>8. LockedAreEmpty(q)' /\ ClosersAwait(q)'
    BY <1>2, <1>3, <1>5, <2>2 DEF Fits, LockedAreEmpty, ClosersAwait, IsOf
  <2>9. Accounted(t, q)
    BY <1>1, <1>3, <1>5, <2>2, <2>3 DEF Accounted, HandsOf
  <2>10. Fits(q)'
    BY <2>7, <2>8 DEF Fits
  <2> QED
    BY <2>2, <2>3, <2>4, <2>5, <2>6, <2>9, <2>10, StepKeeps
<1>6. CASE ~(r.at = "settling" /\ r.slot = "line")
  <2>1. /\ Moves(t, AtRest) /\ UNCHANGED draining
        /\ up' = IF r.at = "settling" /\ r.slot = "ftp" THEN up \ {r.on} ELSE up
        /\ left' = IF r.at = "settling" /\ r.slot \in Ssh THEN left \cup {r.on} ELSE left
    BY <1>1, <1>6 DEF Breaks
  <2>2. r.at = "settling" => r.slot = "ftp" \/ r.slot \in Ssh
    BY <1>2, <1>4, <1>6, SlotFacts DEF CallerRecord
  <2>3. HandsOf(r) = IF r.at = "settling" THEN {r.on} ELSE {}
    BY <1>3 DEF HandsOf
  <2>4. left' \subseteq DOMAIN made
    BY <1>4, <2>1 DEF ConnInv, VarsTyped, StoreTyped
  <2> QED
    BY <1>1, <1>3, <2>1, <2>2, <2>3, <2>4, EndsAtRest
<1> QED
    BY <1>5, <1>6

LEMMA HasFailedInv ==
    ASSUME ConnInv, NEW t \in Callers, HasFailed(t) PROVE ConnInv'
<1>1. /\ caller[t].at = "failing" /\ caller[t].on \notin up /\ Moves(t, AtRest)
      /\ UNCHANGED <<cached, lockDict, made, up, draining, left>>
    BY DEF HasFailed
<1>2. HandsOf(caller[t]) = {caller[t].on}
    BY <1>1 DEF HandsOf
<1> QED
    BY <1>1, <1>2, EndsAtRest DEF ConnInv, VarsTyped, StoreTyped

LEMMA FailingIsCutInv ==
    ASSUME ConnInv, NEW t \in Callers, FailingIsCut(t) PROVE ConnInv'
<1>1. /\ caller[t].at = "failing" /\ Moves(t, AtRest)
      /\ up' = up \ {caller[t].on} /\ draining' = draining \ {caller[t].on}
      /\ UNCHANGED <<cached, lockDict, made, left>>
    BY DEF FailingIsCut, Aborts
<1>2. HandsOf(caller[t]) = {caller[t].on}
    BY <1>1 DEF HandsOf
<1> QED
    BY <1>1, <1>2, EndsAtRest DEF ConnInv, VarsTyped, StoreTyped

(* A line drains, or has drained. *)
LEMMA StreamInv ==
    ASSUME ConnInv, (\E c \in draining : StreamReleased(c)) \/ SessionTakes PROVE ConnInv'
<1>1. /\ UNCHANGED <<caller, cached, lockDict, made, left>>
      /\ up' \subseteq up /\ (\A c \in draining : c \in draining' \/ c \notin up')
      /\ \A c \in draining' : c \in draining \/ (c = cached["line"] /\ c # 0)
    BY DEF StreamReleased, Aborts, SessionTakes, Usable
<1>2. VarsTyped' /\ LocksExclude' /\ SlotsAreTheirOwn' /\ ChannelsRide'
    BY <1>1 DEF ConnInv, VarsTyped, StoreTyped, LocksExclude, SlotsAreTheirOwn, IsOf, ChannelsRide
<1>3. LinesDrain'
    BY <1>1, SlotFacts DEF ConnInv, LinesDrain, SlotsAreTheirOwn, IsOf
<1>4. ASSUME NEW t \in Callers PROVE Fits(caller[t])'
    BY <1>1 DEF ConnInv, Fits, HasItsLocks, HasLock, OpensItsOwn, LockedAreEmpty, ClosersAwait, IsOf
<1>5. ConnectionsAreHeld'
    BY <1>1 DEF ConnInv, ConnectionsAreHeld, Hands
<1> QED
    BY <1>2, <1>3, <1>4, <1>5 DEF ConnInv

----------------------------------------------------------------------------
(* Closing. *)

LEMMA FirstStep ==
    ASSUME NEW S \in SUBSET (1..6), S # {}
    PROVE  Min(S) \in S /\ \A j \in S : Min(S) <= j
<1>1. \E n \in S : \A j \in S : n <= j
  <2>1. \A j \in S : j = 1 \/ j = 2 \/ j = 3 \/ j = 4 \/ j = 5 \/ j = 6
    OBVIOUS
  <2>2. CASE 1 \in S
    BY <2>1, <2>2
  <2>3. CASE 1 \notin S /\ 2 \in S
    BY <2>1, <2>3
  <2>4. CASE 1 \notin S /\ 2 \notin S /\ 3 \in S
    BY <2>1, <2>4
  <2>5. CASE 1 \notin S /\ 2 \notin S /\ 3 \notin S /\ 4 \in S
    BY <2>1, <2>5
  <2>6. CASE 1 \notin S /\ 2 \notin S /\ 3 \notin S /\ 4 \notin S /\ 5 \in S
    BY <2>1, <2>6
  <2>7. CASE 1 \notin S /\ 2 \notin S /\ 3 \notin S /\ 4 \notin S /\ 5 \notin S
    <3>1. \A j \in S : j = 6
      BY <2>1, <2>7
    <3>2. PICK n \in S : n = 6
      BY <3>1
    <3> QED
      BY <3>1, <3>2
  <2> QED
    BY <2>2, <2>3, <2>4, <2>5, <2>6, <2>7
<1> QED
    BY <1>1 DEF Min

(* A close releases what is due up to its next await: it comes to rest     *)
(* with all of it gone, or awaits step j with all before it gone.          *)
LEMMA ReleaseFacts ==
    ASSUME NEW t, NEW taken, NEW i \in 0..6, NEW ended, ReleasesFrom(t, taken, i, ended)
    PROVE  /\ up' \subseteq up \ ended
           /\ \/ /\ Moves(t, AtRest) /\ UNCHANGED draining
                 /\ \A k \in (i+1)..6 : taken[Order[k]] \notin up'
              \/ \E j \in (i+1)..6 :
                    /\ taken[Order[j]] \in up
                    /\ \A k \in (i+1)..(j-1) : taken[Order[k]] \notin up'
                    /\ draining' = IF Order[j] = "line" THEN draining \cup {taken[Order[j]]}
                                                       ELSE draining
                    /\ Moves(t, [AtRest EXCEPT !.at = "closing", !.taken = taken, !.step = j,
                                   !.takes = Order[j] = "line" /\ taken[Order[j]] \notin draining])
<1> DEFINE due == {j \in DOMAIN Order : j > i /\ taken[Order[j]] \in up}
           awaited == {j \in due : Order[j] \notin Channels}
           first == IF awaited = {} THEN Len(Order) + 1 ELSE Min(awaited)
           exits == {taken[Order[k]] : k \in {k \in due : k < first}}
           c == taken[Order[first]]
<1>1. /\ DOMAIN Order = 1..6 /\ Len(Order) = 6
      /\ \A k \in (i+1)..6 : taken[Order[k]] \in up => k \in due
    BY OrderFacts
<1>2. CASE awaited = {}
  <2>1. Moves(t, AtRest) /\ up' = up \ (ended \cup exits) /\ UNCHANGED draining
    BY <1>2 DEF ReleasesFrom
  <2>2. first = 7
    BY <1>1, <1>2
  <2>3. \A k \in (i+1)..6 : taken[Order[k]] \notin up'
    <3> SUFFICES ASSUME NEW k \in (i+1)..6, taken[Order[k]] \in up' PROVE FALSE
      OBVIOUS
    <3>1. k \in due /\ k < first
      BY <1>1, <2>1, <2>2
    <3>2. taken[Order[k]] \in exits
      BY <3>1
    <3> QED
      BY <2>1, <3>2
  <2> QED
    BY <2>1, <2>3
<1>3. CASE awaited # {}
  <2>1. first \in awaited
    BY <1>1, <1>3, FirstStep
  <2>2. first \in (i+1)..6 /\ taken[Order[first]] \in up
    BY <1>1, <2>1
  <2>3. /\ Moves(t, [AtRest EXCEPT !.at = "closing", !.taken = taken, !.step = first,
                        !.takes = Order[first] = "line" /\ c \notin draining])
        /\ up' = up \ (ended \cup exits
                          \cup (IF Order[first] \in Ssh THEN WithRiders(c) ELSE {}))
        /\ draining' = IF Order[first] = "line" THEN draining \cup {c} ELSE draining
    BY <1>3 DEF ReleasesFrom
  <2>4. \A k \in (i+1)..(first-1) : taken[Order[k]] \notin up'
    <3> SUFFICES ASSUME NEW k \in (i+1)..(first-1), taken[Order[k]] \in up' PROVE FALSE
      OBVIOUS
    <3>1. taken[Order[k]] \in up
      BY <2>3
    <3>2. k \in (i+1)..6 /\ k < first
      BY <2>2
    <3>3. taken[Order[k]] \in exits
      BY <1>1, <3>1, <3>2
    <3> QED
      BY <2>3, <3>3
  <2>5. up' \subseteq up \ ended
    BY <2>3
  <2> HIDE DEF first
  <2> QED
    BY <2>2, <2>3, <2>4, <2>5
<1> QED
    BY <1>2, <1>3

(* The rest of a close, of what it took.                                   *)
LEMMA ReleasesInv ==
    ASSUME ConnInv, NEW t \in Callers, NEW taken \in [Slots -> Nat], NEW i \in 0..6, NEW ended,
           \A s \in Slots : IsOf(taken[s], s),
           ReleasesFrom(t, taken, i, ended), UNCHANGED made,
           lockDict' \in 0..MaxManagerCloses,
           \/ cached' = cached
           \/ /\ cached' = Nothing
              /\ \A s \in Slots : \E k \in (i+1)..6 : cached[s] = taken[Order[k]],
           left \subseteq left', left' \subseteq DOMAIN made,
           \A c \in HandsOf(caller[t]) :
               c \in ended \cup left' \/ c \notin up \/ \E k \in (i+1)..6 : c = taken[Order[k]]
    PROVE  ConnInv'
<1>1. /\ cached \in [Slots -> Nat] /\ Nothing \in [Slots -> Nat] /\ \A s \in Slots : Nothing[s] = 0
      /\ 0 \notin up /\ up \subseteq DOMAIN made /\ up' \subseteq up \ ended
      /\ \A c \in up : made[c].slot \in Slots
  <2>1. \A c \in DOMAIN made : made[c] \in Connection
    BY ElementOfSeq DEF ConnInv, VarsTyped, StoreTyped
  <2>2. \A c \in DOMAIN made : made[c].slot \in Slots
    BY <2>1 DEF Connection
  <2>3. up' \subseteq up \ ended
    BY ReleaseFacts
  <2>4. Nothing \in [Slots -> Nat] /\ \A s \in Slots : Nothing[s] = 0
    BY DEF Nothing
  <2>5. /\ cached \in [Slots -> Nat] /\ 0 \notin up /\ up \subseteq DOMAIN made
    BY DEF ConnInv, VarsTyped, StoreTyped
  <2> QED
    BY <2>2, <2>3, <2>4, <2>5
<1>2. StoreTyped' /\ SlotsAreTheirOwn' /\ ChannelsRide' /\ KeepsLocked(t)
    BY <1>1 DEF ConnInv, VarsTyped, StoreTyped, SlotsAreTheirOwn, IsOf, ChannelsRide, KeepsLocked
<1>3. ASSUME NEW q,
             \A c \in up' : \/ c \in HandsOf(q) \cup left' \cup draining'
                            \/ \A k \in (i+1)..6 : c # taken[Order[k]]
      PROVE  Accounted(t, q)
  <2> SUFFICES ASSUME NEW c \in up'
               PROVE  \/ cached'[made'[c].slot] = c
                      \/ c \in HandsOf(q)
                      \/ c \in draining' \cup left'
                      \/ c \in up /\ cached[made[c].slot] # c /\ c \notin HandsOf(caller[t])
    BY DEF Accounted
  <2>1. CASE \A k \in (i+1)..6 : c # taken[Order[k]]
    BY <1>1, <2>1
  <2> QED
    BY <1>3, <2>1
<1>4. ASSUME Moves(t, AtRest), UNCHANGED draining,
             \A k \in (i+1)..6 : taken[Order[k]] \notin up'
      PROVE  ConnInv'
  <2>1. PICK q \in CallerRecord : q = AtRest
    BY AtRestFacts
  <2>2. Grows /\ LocksFree(t, q) /\ LinesDrain'
    BY <1>1, <1>4, <2>1, AtRestFacts
    DEF Grows, LocksFree, ConnInv, VarsTyped, StoreTyped, LinesDrain
  <2>3. Fits(q)'
    BY <1>2, <2>1, RestFitsNext
  <2>4. Accounted(t, q)
    BY <1>3, <1>4
  <2> QED
    BY <1>2, <1>4, <2>1, <2>2, <2>3, <2>4, StepKeeps
<1>5. ASSUME NEW j \in (i+1)..6, taken[Order[j]] \in up,
             \A k \in (i+1)..(j-1) : taken[Order[k]] \notin up',
             draining' = IF Order[j] = "line" THEN draining \cup {taken[Order[j]]} ELSE draining,
             Moves(t, [AtRest EXCEPT !.at = "closing", !.taken = taken, !.step = j,
                          !.takes = Order[j] = "line" /\ taken[Order[j]] \notin draining])
      PROVE  ConnInv'
  <2>1. PICK b \in BOOLEAN : b = (Order[j] = "line" /\ taken[Order[j]] \notin draining)
    OBVIOUS
  <2>2. PICK q : q = [AtRest EXCEPT !.at = "closing", !.taken = taken, !.step = j, !.takes = b]
    OBVIOUS
  <2>3. /\ q \in CallerRecord /\ q.at = "closing" /\ q.holds = {} /\ q.on = 0
        /\ q.taken = taken /\ q.step = j /\ q.takes = b
    <3>1. j \in 0..Len(Order)
      BY OrderFacts
    <3>2. PICK p \in CallerRecord : p = AtRest /\ p.holds = {} /\ p.on = 0
      BY AtRestFacts
    <3>3. q = [p EXCEPT !.at = "closing", !.taken = taken, !.step = j, !.takes = b]
      BY <2>2, <3>2
    <3> QED
      BY <3>1, <3>2, <3>3 DEF CallerRecord, Places
  <2>4. Moves(t, q)
    BY <1>5, <2>1, <2>2
  <2>5. Order[j] \in Slots /\ (Order[j] = "line" => taken[Order[j]] \in DOMAIN made)
    BY <1>1, <1>5, OrderIsOfSlots
  <2>6. Grows /\ LocksFree(t, q)
    BY <1>1, <1>5, <2>3 DEF Grows, LocksFree, ConnInv, VarsTyped, StoreTyped
  <2>7. LinesDrain'
    <3>1. Order[j] = "line" => made[taken[Order[j]]].slot = "line"
      <4>1. IsOf(taken[Order[j]], Order[j]) /\ taken[Order[j]] # 0
        BY <1>1, <1>5, <2>5
      <4> QED
        BY <4>1 DEF IsOf
    <3> QED
      BY <1>5, <2>5, <3>1 DEF ConnInv, LinesDrain
  <2>8. HasItsLocks(q)' /\ OpensItsOwn(q)' /\ LockedAreEmpty(q)'
    BY <2>3 DEF HasItsLocks, OpensItsOwn, LockedAreEmpty, ConnInv, VarsTyped, StoreTyped
  <2>9. ClosersAwait(q)'
    <3>1. q.step = 1 => taken["line"] \in draining'
      BY <1>5, <2>3, OrderFacts
    <3> QED
      BY <1>1, <1>5, <2>3, <3>1, OrderFacts DEF ClosersAwait, IsOf
  <2>10. Accounted(t, q)
    <3>1. HandsOf(q) = {taken[Order[k]] : k \in j..6}
      BY <2>3, OrderFacts DEF HandsOf
    <3>2. \A k \in (i+1)..6 : k \in j..6 \/ k \in (i+1)..(j-1)
      OBVIOUS
    <3>3. \A c \in up' : \/ c \in HandsOf(q) \cup left' \cup draining'
                         \/ \A k \in (i+1)..6 : c # taken[Order[k]]
      BY <1>5, <3>1, <3>2
    <3> QED
      BY <1>3, <3>3
  <2>11. Fits(q)'
    BY <2>8, <2>9 DEF Fits
  <2> QED
    BY <1>2, <2>3, <2>4, <2>6, <2>7, <2>10, <2>11, StepKeeps
<1>6. \/ /\ Moves(t, AtRest) /\ UNCHANGED draining
         /\ \A k \in (i+1)..6 : taken[Order[k]] \notin up'
      \/ \E j \in (i+1)..6 :
            /\ taken[Order[j]] \in up
            /\ \A k \in (i+1)..(j-1) : taken[Order[k]] \notin up'
            /\ draining' = IF Order[j] = "line" THEN draining \cup {taken[Order[j]]}
                                               ELSE draining
            /\ Moves(t, [AtRest EXCEPT !.at = "closing", !.taken = taken, !.step = j,
                           !.takes = Order[j] = "line" /\ taken[Order[j]] \notin draining])
    BY ReleaseFacts
<1> QED
    BY <1>4, <1>5, <1>6, Zenon

LEMMA ManagerClosesInv ==
    ASSUME ConnInv, NEW t \in Callers, ManagerCloses(t) PROVE ConnInv'
<1>1. PICK taken : taken = cached
    OBVIOUS
<1>2. /\ caller[t].at = "rest" /\ lockDict' \in 0..MaxManagerCloses /\ cached' = Nothing
      /\ ReleasesFrom(t, taken, 0, {}) /\ UNCHANGED <<made, left>>
    BY <1>1, ConnectionAssumption DEF ManagerCloses, ConnInv, VarsTyped, StoreTyped
<1>3. /\ taken \in [Slots -> Nat] /\ (\A s \in Slots : IsOf(taken[s], s))
      /\ left \subseteq DOMAIN made
    BY <1>1 DEF ConnInv, VarsTyped, StoreTyped, SlotsAreTheirOwn
<1>4. HandsOf(caller[t]) = {}
    BY <1>2 DEF HandsOf
<1>5. \A s \in Slots : \E k \in (0+1)..6 : cached[s] = taken[Order[k]]
    BY <1>1, OrderIsOfSlots
<1>6. PICK i \in 0..6 : i = 0
    OBVIOUS
<1> QED
    BY <1>2, <1>3, <1>4, <1>5, <1>6, ReleasesInv

LEMMA StepEndsInv ==
    ASSUME ConnInv, NEW t \in Callers, StepEnds(t) PROVE ConnInv'
<1>1. PICK r : r = caller[t]
    OBVIOUS
<1>2. PICK c : c = r.taken[Order[r.step]]
    OBVIOUS
<1>3. /\ r.at = "closing" /\ UNCHANGED <<cached, lockDict, made>>
      /\ \/ ReleasesFrom(t, r.taken, r.step, {c}) /\ UNCHANGED left
         \/ Order[r.step] = "ftp" /\ ReleasesFrom(t, r.taken, r.step, {}) /\ left' = left \cup {c}
    BY <1>1, <1>2 DEF StepEnds
<1>4. r \in CallerRecord /\ Fits(r)
    BY <1>1 DEF ConnInv, VarsTyped
<1>5. PICK taken : taken = r.taken
    OBVIOUS
<1>6. PICK i : i = r.step
    OBVIOUS
<1>7. /\ taken \in [Slots -> Nat] /\ i \in 1..6 /\ \A s \in Slots : IsOf(taken[s], s)
    BY <1>3, <1>4, <1>5, <1>6, OrderFacts DEF CallerRecord, Fits, ClosersAwait
<1>8. HandsOf(caller[t]) = {taken[Order[k]] : k \in i..6}
    BY <1>1, <1>3, <1>5, <1>6, OrderFacts DEF HandsOf
<1>9. \A d \in HandsOf(caller[t]) : d = c \/ \E k \in (i+1)..6 : d = taken[Order[k]]
  <2>1. \A k \in i..6 : k = i \/ k \in (i+1)..6
    BY <1>7
  <2> QED
    BY <1>2, <1>5, <1>6, <1>8, <2>1
<1>10. left \subseteq DOMAIN made /\ lockDict' \in 0..MaxManagerCloses
    BY <1>3 DEF ConnInv, VarsTyped, StoreTyped
<1>11. CASE ReleasesFrom(t, r.taken, r.step, {c}) /\ UNCHANGED left
  <2>1. PICK ended : ended = {c}
    OBVIOUS
  <2> QED
    BY <1>3, <1>5, <1>6, <1>7, <1>9, <1>10, <1>11, <2>1, ReleasesInv
<1>12. CASE Order[r.step] = "ftp" /\ ReleasesFrom(t, r.taken, r.step, {}) /\ left' = left \cup {c}
  <2>1. c \in DOMAIN made
    <3>1. c # 0 /\ Order[i] \in Slots
      BY <1>2, <1>3, <1>4, <1>6, <1>7, OrderIsOfSlots DEF Fits, ClosersAwait
    <3> QED
      BY <1>2, <1>5, <1>6, <1>7, <3>1 DEF IsOf
  <2>2. left' \subseteq DOMAIN made
    BY <1>10, <1>12, <2>1
  <2> QED
    BY <1>3, <1>5, <1>6, <1>7, <1>9, <1>10, <1>12, <2>2, ReleasesInv
<1> QED
    BY <1>3, <1>11, <1>12

LEMMA CloseIsCutInv ==
    ASSUME ConnInv, NEW t \in Callers, CloseIsCut(t) PROVE ConnInv'
<1>1. PICK r : r = caller[t]
    OBVIOUS
<1>2. r \in CallerRecord /\ Fits(r)
    BY <1>1 DEF ConnInv, VarsTyped
<1>3. PICK rest : rest = {r.taken[Order[j]] : j \in r.step..6} \cap up
    OBVIOUS
<1>4. /\ r.at = "closing" /\ Moves(t, AtRest) /\ UNCHANGED <<cached, lockDict, made>>
      /\ left' = left \cup {c \in rest : made[c].slot # "line"}
      /\ IF r.takes THEN /\ up' = up \ {r.taken["line"]}
                         /\ draining' = draining \ {r.taken["line"]}
                    ELSE UNCHANGED <<up, draining>>
    BY <1>1, <1>3, OrderFacts DEF CloseIsCut, Aborts
<1>5. /\ r.step \in 1..6 /\ \A s \in Slots : IsOf(r.taken[s], s)
      /\ r.step = 1 /\ ~r.takes => r.taken["line"] \in draining \/ r.taken["line"] \notin up
    BY <1>2, <1>4, OrderFacts DEF Fits, ClosersAwait
<1>6. up \subseteq DOMAIN made /\ left \subseteq DOMAIN made /\ 0 \notin up
    BY DEF ConnInv, VarsTyped, StoreTyped
<1>7. ASSUME NEW c \in HandsOf(caller[t]) PROVE c \notin up' \/ c \in left' \cup draining'
  <2>1. PICK j \in r.step..6 : c = r.taken[Order[j]]
    BY <1>1, <1>4, <1>7, OrderFacts DEF HandsOf
  <2>2. j \in 1..6 /\ Order[j] \in Slots /\ (Order[j] = "line" => j = 1 /\ r.step = 1)
    BY <1>5, <2>1, OrderIsOfSlots
  <2>3. c # 0 => made[c].slot = Order[j]
    BY <1>5, <2>1, <2>2 DEF IsOf
  <2>4. CASE Order[j] # "line"
    BY <1>3, <1>4, <1>6, <2>1, <2>3, <2>4
  <2>5. CASE Order[j] = "line"
    BY <1>4, <1>5, <2>1, <2>2, <2>5
  <2> QED
    BY <2>4, <2>5
<1>8. /\ left \subseteq left' /\ left' \subseteq DOMAIN made /\ up' \subseteq up
      /\ draining' \subseteq draining /\ \A c \in draining : c \in draining' \/ c \notin up'
    BY <1>3, <1>4, <1>6
<1> QED
    BY <1>4, <1>7, <1>8, EndsAtRest

----------------------------------------------------------------------------
LEMMA InductiveStep ==
    ASSUME ConnInv, [ConnNext]_connVars PROVE ConnInv'
<1>1. ASSUME NEW t \in Callers,
             \/ \E s \in Slots : Ask(t, s)
             \/ GetsLock(t) \/ StaleIsGone(t) \/ Connects(t) \/ Settles(t)
             \/ Breaks(t) \/ HasFailed(t) \/ FailingIsCut(t)
             \/ ManagerCloses(t) \/ StepEnds(t) \/ CloseIsCut(t)
      PROVE  ConnInv'
    BY <1>1, AskInv, GetsLockInv, StaleIsGoneInv, ConnectsInv, SettlesInv, BreaksInv,
       HasFailedInv, FailingIsCutInv, ManagerClosesInv, StepEndsInv, CloseIsCutInv
<1>2. CASE UNCHANGED connVars
    BY <1>2
    DEF connVars, ConnInv, VarsTyped, StoreTyped, LocksExclude, SlotsAreTheirOwn, IsOf,
        ChannelsRide, LinesDrain, Fits, HasItsLocks, HasLock, OpensItsOwn, LockedAreEmpty,
        ClosersAwait, ConnectionsAreHeld, Hands
<1> QED
    BY <1>1, <1>2, StreamInv DEF ConnNext

(* ConnInv is an invariant of the connection manager.                      *)
THEOREM ConnInvariance == ConnSpec => []ConnInv
    BY InitInv, InductiveStep, PTL DEF ConnSpec

(* No connection stays open with nobody to close it: it is in its slot,    *)
(* held by whoever opens or closes it, or draining, for any number of      *)
(* callers, connections and closes.  The exceptions are the named ones: an *)
(* ssh connection whose hook failed, a user's that another displaced after *)
(* a close forgot their lock, and what a cut or failed close left.         *)
THEOREM NoConnectionLeaks == ConnSpec => []ConnectionsAreHeld
<1>1. ConnInv => ConnectionsAreHeld
    BY DEF ConnInv
<1> QED
    BY <1>1, ConnInvariance, PTL

(* Callers that want the same shared connection wait for one dial: two     *)
(* never open the same slot, through any closes and cancelled calls.       *)
THEOREM SharedSlotsAreDialedOnce ==
    ConnSpec => [](\A t, o \in Callers :
        /\ caller[t].at \in {"dialing", "settling"} /\ caller[o].at \in {"dialing", "settling"}
        /\ caller[t].slot = caller[o].slot /\ caller[t].slot \notin UserSlots
        => t = o)
<1>1. ConnInv => \A t, o \in Callers :
          /\ caller[t].at \in {"dialing", "settling"} /\ caller[o].at \in {"dialing", "settling"}
          /\ caller[t].slot = caller[o].slot /\ caller[t].slot \notin UserSlots
          => t = o
  <2> SUFFICES ASSUME ConnInv, NEW t \in Callers, NEW o \in Callers,
                      caller[t].at \in {"dialing", "settling"},
                      caller[o].at \in {"dialing", "settling"},
                      caller[t].slot = caller[o].slot, caller[t].slot \notin UserSlots
               PROVE  t = o
    OBVIOUS
  <2>1. PICK l : l = <<caller[t].slot, 0>>
    OBVIOUS
  <2>2. l \in caller[t].holds /\ l \in caller[o].holds
    BY <2>1 DEF ConnInv, Fits, HasItsLocks, HasLock
  <2>3. l \in Locks
    BY <2>2 DEF ConnInv, VarsTyped, CallerRecord
  <2> QED
    BY <2>2, <2>3 DEF ConnInv, LocksExclude
<1> QED
    BY <1>1, ConnInvariance, PTL

----------------------------------------------------------------------------
(* A drain is of an open line: nobody ends what another is opening. *)

Opens(r) == r.at \in {"settling", "failing"}

(* What somebody besides an opener may know of.                            *)
Known(c) ==
    \/ c = 0 \/ c \in draining \/ made[c].on # 0
    \/ \E s \in Slots : cached[s] = c \/ \E o \in Callers : caller[o].taken[s] = c

SettlesAlone ==
    \A t \in Callers :
        caller[t].at = "settling" =>
            /\ caller[t].on \in up /\ ~Known(caller[t].on)
            /\ \A o \in Callers : o # t /\ Opens(caller[o]) => caller[o].on # caller[t].on

AloneInv == ConnInv /\ SettlesAlone /\ draining \subseteq up

LEMMA AloneStep ==
    ASSUME AloneInv, ConnInv', NEW t \in Callers, NEW r, Moves(t, r),
           \A c \in DOMAIN made : c \in DOMAIN made' /\ made'[c] = made[c],
           \A c \in up : c \in up' \/ Known(c) \/ (Opens(caller[t]) /\ c = caller[t].on),
           \A c \in draining' : c \in draining \/ Known(c) \/ (Opens(caller[t]) /\ c = caller[t].on),
           \A s \in Slots : \/ Known(cached'[s]) \/ cached'[s] \notin DOMAIN made
                            \/ Opens(caller[t]) /\ cached'[s] = caller[t].on,
           \A s \in Slots : Known(r.taken[s]),
           Opens(r) => \/ Opens(caller[t]) /\ r.on = caller[t].on
                       \/ r.on \notin DOMAIN made,
           r.at = "settling" => r.on \in up' /\ r.on \notin DOMAIN made /\ ~Known(r.on)'
    PROVE  SettlesAlone'
<1>1. /\ caller'[t] = r
      /\ \A o \in Callers : o # t => caller'[o] = caller[o]
    BY DEF Moves, AloneInv, ConnInv, VarsTyped
<1>2. \A o \in Callers : Opens(caller[o]) => caller[o].on \in DOMAIN made
    BY DEF AloneInv, ConnInv, Fits, OpensItsOwn, Opens, VarsTyped, StoreTyped
<1> SUFFICES ASSUME NEW p \in Callers, caller'[p].at = "settling"
             PROVE  /\ caller'[p].on \in up' /\ ~Known(caller[p].on)'
                    /\ \A o \in Callers : o # p /\ Opens(caller'[o]) => caller'[o].on # caller'[p].on
    BY DEF SettlesAlone, Opens
<1>3. CASE p = t
    BY <1>1, <1>2, <1>3 DEF Known
<1>4. CASE p # t
  <2>1. PICK c : c = caller[p].on
    OBVIOUS
  <2>2. /\ c \in up /\ ~Known(c) /\ c \in DOMAIN made
        /\ \A o \in Callers : o # p /\ Opens(caller[o]) => caller[o].on # c
    BY <1>1, <1>2, <1>4, <2>1 DEF AloneInv, SettlesAlone, Opens
  <2>3. ~(Opens(caller[t]) /\ c = caller[t].on)
    BY <1>4, <2>2
  <2>4. c \in up'
    BY <2>2, <2>3
  <2>5. ~Known(c)'
    <3>1. c # 0 /\ made'[c].on = 0 /\ c \notin draining'
      BY <2>2, <2>3 DEF Known
    <3>2. \A s \in Slots : cached'[s] # c
      BY <2>2, <2>3
    <3>3. \A o \in Callers, s \in Slots : caller'[o].taken[s] # c
      BY <1>1, <2>2 DEF Known
    <3> QED
      BY <3>1, <3>2, <3>3 DEF Known
  <2>6. \A o \in Callers : o # p /\ Opens(caller'[o]) => caller'[o].on # c
    BY <1>1, <2>2, <2>3
  <2>7. caller'[p] = caller[p]
    BY <1>1, <1>4
  <2> QED
    BY <2>1, <2>4, <2>5, <2>6, <2>7
<1> QED
    BY <1>3, <1>4

(* The caller goes on asking, or is served: it opens nothing.              *)
Proceeds(t, r) ==
    /\ \E q : /\ Moves(t, q) /\ ~Opens(q)
             /\ (q.taken = r.taken \/ q.taken = Nothing)
    /\ cached' \in [Slots -> Nat] /\ \A s \in Slots : cached'[s] \in {0, cached[s]}

LEMMA RestGoesOn ==
    ASSUME NEW t, NEW r, Moves(t, AtRest), UNCHANGED cached, cached \in [Slots -> Nat]
    PROVE  Proceeds(t, r)
BY AtRestFacts DEF Proceeds, Opens

LEMMA GainsGoesOn ==
    ASSUME NEW t, NEW r \in CallerRecord, NEW c, Gains(t, r, c), UNCHANGED cached,
           cached \in [Slots -> Nat]
    PROVE  Proceeds(t, r)
<1>1. PICK q : q = [r EXCEPT !.at = "dialing", !.slot = r.outer, !.on = c]
    OBVIOUS
<1>2. q.at = "dialing" /\ q.taken = r.taken
    BY <1>1 DEF CallerRecord
<1>3. CASE r.slot # r.outer
  <2>1. Moves(t, q)
    BY <1>1, <1>3 DEF Gains
  <2> QED
    BY <1>2, <2>1 DEF Proceeds, Opens
<1> QED
    BY <1>3, RestGoesOn DEF Gains

LEMMA DialsGoesOn ==
    ASSUME NEW t, NEW r \in CallerRecord, Dials(t, r), cached \in [Slots -> Nat]
    PROVE  Proceeds(t, r)
<1>1. PICK q : q = [r EXCEPT !.at = "stale", !.on = cached[r.slot]]
    OBVIOUS
<1>2. q.at = "stale" /\ q.taken = r.taken
    BY <1>1 DEF CallerRecord
<1>3. PICK p : p = [r EXCEPT !.at = "dialing", !.on = 0]
    OBVIOUS
<1>4. p.at = "dialing" /\ p.taken = r.taken
    BY <1>3 DEF CallerRecord
<1>5. (Moves(t, q) /\ UNCHANGED cached) \/ (Moves(t, p) /\ cached' = [cached EXCEPT ![r.slot] = 0])
    BY <1>1, <1>3 DEF Dials
<1>6. cached' \in [Slots -> Nat] /\ \A s \in Slots : cached'[s] \in {0, cached[s]}
    BY <1>5
<1> QED
    BY <1>2, <1>4, <1>5, <1>6 DEF Proceeds, Opens

LEMMA SeeksGoesOn ==
    ASSUME NEW t, NEW r \in CallerRecord, Seeks(t, r), cached \in [Slots -> Nat],
           lockDict \in 0..MaxManagerCloses
    PROVE  Proceeds(t, r)
<1>1. CASE Usable(r.slot)
  <2>1. PICK c : c = cached[r.slot]
    OBVIOUS
  <2> QED
    BY <1>1, <2>1, GainsGoesOn DEF Seeks
<1>2. CASE ~Usable(r.slot) /\ Contested(LockOf(r.slot))
  <2>1. PICK q : q = [r EXCEPT !.at = "locking", !.lock = LockOf(r.slot)]
    OBVIOUS
  <2>2. q.at = "locking" /\ q.taken = r.taken
    BY <2>1 DEF CallerRecord
  <2>3. Moves(t, q) /\ UNCHANGED cached
    BY <1>2, <2>1 DEF Seeks
  <2> QED
    BY <2>2, <2>3 DEF Proceeds, Opens
<1>3. CASE ~Usable(r.slot) /\ ~Contested(LockOf(r.slot))
  <2>1. PICK p : p = [r EXCEPT !.holds = @ \cup {LockOf(r.slot)}]
    OBVIOUS
  <2>2. LockOf(r.slot) \in Locks
    BY ConnectionAssumption DEF LockOf, Locks, CallerRecord
  <2>3. p \in CallerRecord /\ p.taken = r.taken
    BY <2>1, <2>2 DEF CallerRecord
  <2>4. Dials(t, p)
    BY <1>3, <2>1 DEF Seeks
  <2> QED
    BY <2>3, <2>4, DialsGoesOn DEF Proceeds
<1> QED
    BY <1>1, <1>2, <1>3

LEMMA SeeksBaseGoesOn ==
    ASSUME NEW t, NEW r \in CallerRecord, SeeksBase(t, r), r.outer \in Channels,
           cached \in [Slots -> Nat], lockDict \in 0..MaxManagerCloses
    PROVE  Proceeds(t, r)
<1>1. PICK q : q = [r EXCEPT !.slot = Base[r.outer]]
    OBVIOUS
<1>2. q \in CallerRecord /\ q.taken = r.taken
    BY <1>1, SlotFacts DEF CallerRecord
<1>3. Seeks(t, q)
    BY <1>1 DEF SeeksBase
<1>4. Proceeds(t, q)
    BY <1>2, <1>3, SeeksGoesOn
<1> QED
    BY <1>2, <1>4 DEF Proceeds

LEMMA AskGoesOn ==
    ASSUME ConnInv, NEW t \in Callers, NEW s \in Slots, Ask(t, s)
    PROVE  Proceeds(t, AtRest)
<1>1. cached \in [Slots -> Nat] /\ lockDict \in 0..MaxManagerCloses
    BY DEF ConnInv, VarsTyped, StoreTyped
<1>2. PICK l \in Locks : l = LockOf(s)
  <2>1. LockOf(s) \in Locks
    BY <1>1, ConnectionAssumption DEF LockOf, Locks
  <2> QED
    BY <2>1
<1>3. PICK r : r = [AtRest EXCEPT !.slot = s, !.outer = s, !.lock = l]
    OBVIOUS
<1>4. r \in CallerRecord /\ r.slot = s /\ r.outer = s /\ r.taken = AtRest.taken
    BY <1>3, AtRestFacts DEF CallerRecord
<1>5. CASE s \notin Channels
  <2>1. Proceeds(t, r)
    BY <1>1, <1>2, <1>3, <1>4, <1>5, SeeksGoesOn DEF Ask
  <2> QED
    BY <1>4, <2>1 DEF Proceeds
<1>6. CASE s \in Channels /\ Contested(l)
  <2>1. PICK q : q = [r EXCEPT !.at = "locking"]
    OBVIOUS
  <2>2. q.at = "locking" /\ q.taken = r.taken
    BY <1>4, <2>1 DEF CallerRecord
  <2>3. Moves(t, q) /\ UNCHANGED cached
    BY <1>2, <1>3, <1>6, <2>1 DEF Ask
  <2> QED
    BY <1>1, <1>4, <2>2, <2>3 DEF Proceeds, Opens
<1>7. CASE s \in Channels /\ ~Contested(l)
  <2>1. PICK p : p = [r EXCEPT !.holds = {l}]
    OBVIOUS
  <2>2. p \in CallerRecord /\ p.outer = s /\ p.taken = r.taken
    BY <1>4, <2>1 DEF CallerRecord
  <2>3. SeeksBase(t, p)
    BY <1>2, <1>3, <1>7, <2>1 DEF Ask
  <2>4. Proceeds(t, p)
    BY <1>1, <1>7, <2>2, <2>3, SeeksBaseGoesOn
  <2> QED
    BY <1>4, <2>2, <2>4 DEF Proceeds
<1> QED
    BY <1>5, <1>6, <1>7

LEMMA WaiterGoesOn ==
    ASSUME ConnInv, NEW t \in Callers, GetsLock(t) \/ StaleIsGone(t)
    PROVE  Proceeds(t, caller[t])
<1>1. cached \in [Slots -> Nat] /\ lockDict \in 0..MaxManagerCloses
    BY DEF ConnInv, VarsTyped, StoreTyped
<1>2. PICK r \in CallerRecord : r = caller[t] /\ Fits(r)
    BY DEF ConnInv, VarsTyped
<1>3. PICK p : p = [r EXCEPT !.holds = @ \cup {r.lock}]
    OBVIOUS
<1>4. p \in CallerRecord /\ p.taken = r.taken /\ p.outer = r.outer
    BY <1>3 DEF CallerRecord
<1>5. CASE GetsLock(t)
  <2>1. r.at = "locking"
    BY <1>2, <1>5 DEF GetsLock
  <2>2. r.slot \in Channels => r.outer = r.slot
    BY <1>2, <2>1, SlotFacts DEF Fits, HasItsLocks
  <2>3. PICK c : c = cached[r.slot]
    OBVIOUS
  <2>4. CASE Usable(r.slot)
    <3>1. Gains(t, r, c) /\ UNCHANGED cached
      BY <1>2, <1>5, <2>3, <2>4 DEF GetsLock
    <3> QED
      BY <1>1, <1>2, <3>1, GainsGoesOn
  <2>5. CASE ~Usable(r.slot) /\ r.slot \in Channels
    <3>1. SeeksBase(t, p)
      BY <1>2, <1>3, <1>5, <2>5 DEF GetsLock
    <3>2. Proceeds(t, p)
      BY <1>1, <1>4, <2>2, <2>5, <3>1, SeeksBaseGoesOn
    <3> QED
      BY <1>2, <1>4, <3>2 DEF Proceeds
  <2>6. CASE ~Usable(r.slot) /\ r.slot \notin Channels
    <3>1. Dials(t, p)
      BY <1>2, <1>3, <1>5, <2>6 DEF GetsLock
    <3>2. Proceeds(t, p)
      BY <1>1, <1>4, <3>1, DialsGoesOn
    <3> QED
      BY <1>2, <1>4, <3>2 DEF Proceeds
  <2> QED
    BY <2>4, <2>5, <2>6
<1>6. CASE StaleIsGone(t)
  <2>1. PICK q : q = [r EXCEPT !.at = "dialing", !.on = 0]
    OBVIOUS
  <2>2. q.at = "dialing" /\ q.taken = r.taken
    BY <2>1 DEF CallerRecord
  <2>3. Moves(t, q) /\ cached' = [cached EXCEPT !["line"] = 0]
    BY <1>2, <1>6, <2>1 DEF StaleIsGone
  <2>4. cached' \in [Slots -> Nat] /\ \A s \in Slots : cached'[s] \in {0, cached[s]}
    BY <1>1, <2>3
  <2> QED
    BY <1>2, <2>2, <2>3, <2>4 DEF Proceeds, Opens
<1> QED
    BY <1>5, <1>6

LEMMA OwnIsKnown ==
    ASSUME ConnInv
    PROVE  /\ \A s \in Slots : Known(cached[s])
           /\ \A o \in Callers, s \in Slots : Known(caller[o].taken[s])
           /\ \A c \in draining : Known(c)
           /\ \A s \in Slots : Known(Nothing[s])
           /\ Known(0)
BY DEF Known, Nothing

(* The asking steps. *)
LEMMA GoesOnAlone ==
    ASSUME AloneInv, ConnInv', NEW t \in Callers, NEW r, Proceeds(t, r), Frozen,
           \A s \in Slots : Known(r.taken[s])
    PROVE  AloneInv'
<1>1. PICK q : Moves(t, q) /\ ~Opens(q) /\ (q.taken = r.taken \/ q.taken = Nothing)
    BY DEF Proceeds
<1>2. \A s \in Slots : Known(q.taken[s])
    BY <1>1, OwnIsKnown DEF AloneInv
<1>3. \A s \in Slots : Known(cached'[s])
    BY OwnIsKnown DEF Proceeds, AloneInv
<1>4. UNCHANGED <<made, up, draining>>
    BY DEF Frozen
<1>5. q.at # "settling"
    BY <1>1 DEF Opens
<1>6. SettlesAlone'
    BY <1>1, <1>2, <1>3, <1>4, <1>5, AloneStep
<1> QED
    BY <1>4, <1>6 DEF AloneInv

LEMMA AskingAlone ==
    ASSUME AloneInv, ConnInv', NEW t \in Callers,
           (\E s \in Slots : Ask(t, s)) \/ GetsLock(t) \/ StaleIsGone(t)
    PROVE  AloneInv'
<1>1. CASE \E s \in Slots : Ask(t, s)
  <2>1. Proceeds(t, AtRest) /\ Frozen
    BY <1>1, AskGoesOn DEF AloneInv, Ask, Frozen
  <2>2. \A s \in Slots : Known(AtRest.taken[s])
    BY AtRestFacts DEF Known
  <2> QED
    BY <2>1, <2>2, GoesOnAlone
<1>2. CASE GetsLock(t) \/ StaleIsGone(t)
  <2>1. Proceeds(t, caller[t]) /\ Frozen
    BY <1>2, WaiterGoesOn DEF AloneInv, GetsLock, StaleIsGone, Frozen
  <2>2. \A s \in Slots : Known(caller[t].taken[s])
    BY OwnIsKnown DEF AloneInv
  <2> QED
    BY <2>1, <2>2, GoesOnAlone
<1> QED
    BY <1>1, <1>2

LEMMA PublishMoves ==
    ASSUME NEW t, NEW r \in CallerRecord, NEW c, Publish(t, r, c), cached \in [Slots -> Nat],
           c \in Nat
    PROVE  /\ \E q : /\ Moves(t, q) /\ ~Opens(q)
                    /\ (q.taken = r.taken \/ q.taken = Nothing)
           /\ cached' \in [Slots -> Nat] /\ \A s \in Slots : cached'[s] \in {c, cached[s]}
<1>1. PICK p : p = [r EXCEPT !.holds = Without(@, r.slot)]
    OBVIOUS
<1>2. p \in CallerRecord /\ p.taken = r.taken /\ Gains(t, p, c)
    BY <1>1 DEF Publish, CallerRecord, Without
<1>3. PICK q : q = [p EXCEPT !.at = "dialing", !.slot = p.outer, !.on = c]
    OBVIOUS
<1>4. q.at = "dialing" /\ q.taken = r.taken
    BY <1>2, <1>3 DEF CallerRecord
<1>5. Moves(t, q) \/ Moves(t, AtRest)
    BY <1>2, <1>3 DEF Gains
<1>6. \E x : /\ Moves(t, x) /\ ~Opens(x)
             /\ (x.taken = r.taken \/ x.taken = Nothing)
    BY <1>4, <1>5, AtRestFacts DEF Opens
<1>7. cached' \in [Slots -> Nat] /\ \A s \in Slots : cached'[s] \in {c, cached[s]}
    BY DEF Publish
<1> QED
    BY <1>6, <1>7

LEMMA OpeningAlone ==
    ASSUME AloneInv, ConnInv', NEW t \in Callers, Connects(t) \/ Settles(t)
    PROVE  AloneInv'
<1>1. PICK r \in CallerRecord : r = caller[t] /\ Fits(r)
    BY DEF AloneInv, ConnInv, VarsTyped
<1>2. /\ cached \in [Slots -> Nat] /\ Len(made) \in Nat /\ DOMAIN made = 1..Len(made)
      /\ up \subseteq DOMAIN made
    BY DEF AloneInv, ConnInv, VarsTyped, StoreTyped
<1>3. /\ \A s \in Slots : Known(cached[s]) /\ Known(r.taken[s]) /\ Known(Nothing[s])
    BY <1>1, OwnIsKnown DEF AloneInv
<1>4. CASE Settles(t)
  <2>1. Publish(t, r, r.on) /\ Opens(r) /\ UNCHANGED <<made, up, draining>> /\ r.on \in Nat
    BY <1>1, <1>4 DEF Settles, Opens, CallerRecord
  <2>2. PICK q : /\ Moves(t, q) /\ ~Opens(q)
                 /\ (q.taken = r.taken \/ q.taken = Nothing)
    BY <1>1, <1>2, <2>1, PublishMoves
  <2>3. \A s \in Slots : Known(q.taken[s])
    BY <1>3, <2>2
  <2>4. \A s \in Slots : cached'[s] = r.on \/ Known(cached'[s])
    BY <1>1, <1>2, <1>3, <2>1, PublishMoves
  <2>5. q.at # "settling"
    BY <2>2 DEF Opens
  <2>6. SettlesAlone'
    BY <1>1, <2>1, <2>2, <2>3, <2>4, <2>5, AloneStep
  <2> QED
    BY <2>1, <2>6 DEF AloneInv
<1>5. CASE Connects(t)
  <2>1. PICK c : c = Len(made) + 1
    OBVIOUS
  <2>2. PICK e : e = [slot |-> r.slot, on |-> r.on]
    OBVIOUS
  <2>3. /\ made' = Append(made, e) /\ up' = up \cup {c} /\ UNCHANGED draining
        /\ \/ Publish(t, r, c)
           \/ /\ r.slot \notin Channels /\ Moves(t, [r EXCEPT !.at = "settling", !.on = c])
              /\ UNCHANGED cached
    BY <1>1, <1>5, <2>1, <2>2 DEF Connects
  <2>4. /\ c \notin DOMAIN made /\ c \in Nat /\ c # 0 /\ made'[c] = e
        /\ \A d \in DOMAIN made : d \in DOMAIN made' /\ made'[d] = made[d]
    <3>1. made \in Seq(Connection)
      BY DEF AloneInv, ConnInv, VarsTyped, StoreTyped
    <3> HIDE DEF Connection
    <3> QED
      BY <1>2, <2>1, <2>3, <3>1
  <2>5. draining \subseteq up'
    BY <2>3 DEF AloneInv
  <2>6. CASE Publish(t, r, c)
    <3>1. PICK q : /\ Moves(t, q) /\ ~Opens(q)
                   /\ (q.taken = r.taken \/ q.taken = Nothing)
      BY <1>1, <1>2, <2>4, <2>6, PublishMoves
    <3>2. \A s \in Slots : cached'[s] = c \/ Known(cached'[s])
      BY <1>1, <1>2, <1>3, <2>4, <2>6, PublishMoves
    <3>3. \A s \in Slots : Known(q.taken[s])
      BY <1>3, <3>1
    <3>4. q.at # "settling"
      BY <3>1 DEF Opens
    <3>5. SettlesAlone'
      BY <2>3, <2>4, <3>1, <3>2, <3>3, <3>4, AloneStep
    <3> QED
      BY <2>3, <2>5, <3>5 DEF AloneInv
  <2>7. CASE /\ r.slot \notin Channels /\ Moves(t, [r EXCEPT !.at = "settling", !.on = c])
             /\ UNCHANGED cached
    <3>1. PICK q : q = [r EXCEPT !.at = "settling", !.on = c]
      OBVIOUS
    <3>2. q.at = "settling" /\ q.on = c /\ q.taken = r.taken
      BY <3>1 DEF CallerRecord
    <3>3. Moves(t, q)
      BY <2>7, <3>1
    <3>4. e.on = 0
      <4>1. r.at = "dialing"
        BY <1>1, <1>5 DEF Connects
      <4>2. r.on = 0
        BY <1>1, <2>7, <4>1 DEF Fits, OpensItsOwn
      <4> QED
        BY <2>2, <4>2
    <3>5. ~Known(q.on)'
      <4>1. c \notin draining' /\ made'[c].on = 0
        BY <2>3, <2>4, <3>4 DEF AloneInv, ConnInv, LinesDrain
      <4>2. \A s \in Slots : cached'[s] # c
        BY <2>4, <2>7 DEF AloneInv, ConnInv, SlotsAreTheirOwn, IsOf
      <4>3. \A o \in Callers, s \in Slots : caller'[o].taken[s] # c
        <5>1. \A o \in Callers : caller'[o].taken = caller[o].taken
          BY <1>1, <3>2, <3>3 DEF Moves, AloneInv, ConnInv, VarsTyped
        <5>2. \A o \in Callers, s \in Slots : caller[o].taken[s] # c
          BY <2>4 DEF AloneInv, ConnInv, Fits, ClosersAwait, IsOf
        <5> QED
          BY <5>1, <5>2
      <4> QED
        BY <2>4, <3>2, <4>1, <4>2, <4>3 DEF Known
    <3>6. \A s \in Slots : Known(q.taken[s]) /\ Known(cached'[s])
      BY <1>3, <2>7, <3>2
    <3>7. q.on \in up' /\ q.on \notin DOMAIN made
      BY <2>3, <2>4, <3>2
    <3>8. SettlesAlone'
      BY <2>3, <2>4, <3>2, <3>3, <3>5, <3>6, <3>7, AloneStep
    <3> QED
      BY <2>3, <2>5, <3>8 DEF AloneInv
  <2> QED
    BY <2>3, <2>6, <2>7
<1> QED
    BY <1>4, <1>5

LEMMA EndingAlone ==
    ASSUME AloneInv, ConnInv', NEW t \in Callers,
           Breaks(t) \/ HasFailed(t) \/ FailingIsCut(t)
    PROVE  AloneInv'
<1>1. PICK r \in CallerRecord : r = caller[t] /\ Fits(r)
    BY DEF AloneInv, ConnInv, VarsTyped
<1>2. \A s \in Slots : Known(cached[s]) /\ Known(r.taken[s]) /\ Known(Nothing[s])
    BY <1>1, OwnIsKnown DEF AloneInv
<1>3. UNCHANGED <<made, cached>>
    BY DEF Breaks, HasFailed, FailingIsCut
<1>4. PICK q : q = [r EXCEPT !.at = "failing"]
    OBVIOUS
<1>5. q.at = "failing" /\ q.on = r.on /\ q.taken = r.taken
    BY <1>4 DEF CallerRecord
<1>6. /\ Moves(t, AtRest) \/ (Moves(t, q) /\ Opens(r))
      /\ \A c \in up : c \in up' \/ (Opens(r) /\ c = r.on)
      /\ \A c \in draining' : c \in draining \/ (Opens(r) /\ c = r.on)
    BY <1>1, <1>4 DEF Breaks, HasFailed, FailingIsCut, Aborts, Opens
<1>7. PICK p \in {AtRest, q} : Moves(t, p) /\ (p = q => Opens(r))
  <2>1. AtRest # q
    BY <1>5, AtRestFacts
  <2> QED
    BY <1>6, <2>1
<1>8. /\ p.at # "settling" /\ (Opens(p) => Opens(r) /\ p.on = r.on)
      /\ \A s \in Slots : Known(p.taken[s])
    BY <1>2, <1>5, <1>7, AtRestFacts DEF Opens
<1>9. SettlesAlone'
    BY <1>1, <1>2, <1>3, <1>6, <1>7, <1>8, AloneStep
<1>10. draining' \subseteq up'
  <2>1. CASE Breaks(t)
    <3>1. CASE r.at = "settling" /\ r.slot = "line"
      BY <1>1, <2>1, <3>1 DEF Breaks, AloneInv, SettlesAlone
    <3>2. CASE r.at = "settling" /\ r.slot = "ftp"
      <4>1. made[r.on].slot = "ftp"
        BY <1>1, <3>2 DEF Fits, OpensItsOwn
      <4>2. r.on \notin draining
        BY <4>1 DEF AloneInv, ConnInv, LinesDrain
      <4> QED
        BY <1>1, <2>1, <3>2, <4>2 DEF Breaks, AloneInv
    <3>3. CASE r.at # "settling" \/ r.slot \notin {"line", "ftp"}
      BY <1>1, <2>1, <3>3 DEF Breaks, AloneInv
    <3> QED
      BY <3>1, <3>2, <3>3
  <2>2. CASE HasFailed(t) \/ FailingIsCut(t)
    BY <2>2 DEF HasFailed, FailingIsCut, Aborts, AloneInv
  <2> QED
    BY <2>1, <2>2
<1> QED
    BY <1>9, <1>10 DEF AloneInv

LEMMA StreamAlone ==
    ASSUME AloneInv, ConnInv', (\E c \in draining : StreamReleased(c)) \/ SessionTakes
    PROVE  AloneInv'
<1>1. /\ UNCHANGED <<caller, cached, made>>
      /\ \A c \in up : c \in up' \/ Known(c)
      /\ \A c \in draining' : Known(c)
      /\ draining' \subseteq up'
    BY SlotFacts DEF StreamReleased, Aborts, SessionTakes, Usable, Known, AloneInv
<1>2. SettlesAlone'
    BY <1>1 DEF AloneInv, SettlesAlone, Known, Opens
<1> QED
    BY <1>1, <1>2 DEF AloneInv

(* What a close ends besides what it awaited: connections other than lines *)
(* that it took, and what rides on them.                                   *)
LEMMA ReleaseEnds ==
    ASSUME NEW t, NEW taken, NEW i \in 0..6, NEW ended, ReleasesFrom(t, taken, i, ended), 0 \notin up
    PROVE  \A c \in up : \/ c \in up' \/ c \in ended
                        \/ (\E s \in Slots \ {"line"} : c = taken[s])
                        \/ (c \in DOMAIN made /\ made[c].on # 0)
<1> DEFINE due == {j \in DOMAIN Order : j > i /\ taken[Order[j]] \in up}
           awaited == {j \in due : Order[j] \notin Channels}
           first == IF awaited = {} THEN Len(Order) + 1 ELSE Min(awaited)
           exits == {taken[Order[k]] : k \in {k \in due : k < first}}
           d == taken[Order[first]]
<1>1. /\ DOMAIN Order = 1..6 /\ Len(Order) = 6
      /\ \A k \in 1..6 : Order[k] \in Slots
      /\ "line" \notin Channels \cup Ssh
    BY OrderFacts, OrderIsOfSlots, SlotFacts
<1>2. ASSUME NEW c \in exits PROVE \E s \in Slots \ {"line"} : c = taken[s]
  <2>1. PICK k \in due : k < first /\ c = taken[Order[k]]
    BY <1>2
  <2>2. k \notin awaited
    <3> SUFFICES ASSUME k \in awaited PROVE FALSE
      OBVIOUS
    <3>1. first \in 1..6 /\ k \in 1..6 /\ first <= k
      BY <1>1, FirstStep
    <3> HIDE DEF first
    <3> QED
      BY <2>1, <3>1
  <2>3. Order[k] \in Channels /\ Order[k] \in Slots
    BY <1>1, <2>1, <2>2
  <2> QED
    BY <1>1, <2>1, <2>3
<1>3. CASE awaited = {}
  <2>1. up' = up \ (ended \cup exits)
    BY <1>3 DEF ReleasesFrom
  <2> HIDE DEF exits
  <2> QED
    BY <1>2, <2>1
<1>4. CASE awaited # {}
  <2>1. up' = up \ (ended \cup exits
                     \cup (IF Order[first] \in Ssh THEN WithRiders(d) ELSE {}))
    BY <1>4 DEF ReleasesFrom
  <2>2. first \in awaited
    BY <1>1, <1>4, FirstStep
  <2>3. Order[first] \in Slots /\ d \in up
    BY <1>1, <2>2
  <2>4. \A c \in WithRiders(d) : c = d \/ (c \in DOMAIN made /\ made[c].on # 0)
    BY <2>3 DEF WithRiders
  <2>5. Order[first] \in Ssh => Order[first] \in Slots \ {"line"}
    BY <1>1, <2>3
  <2> HIDE DEF exits, first
  <2> QED
    BY <1>2, <2>1, <2>4, <2>5
<1> QED
    BY <1>3, <1>4

LEMMA ReleasesAlone ==
    ASSUME AloneInv, ConnInv', NEW t \in Callers, NEW taken \in [Slots -> Nat], NEW i \in 0..6,
           NEW ended, \A s \in Slots : IsOf(taken[s], s) /\ Known(taken[s]),
           \A c \in ended : Known(c) /\ c \notin draining, i = 0 => ended = {},
           ReleasesFrom(t, taken, i, ended), UNCHANGED made,
           \A s \in Slots : Known(cached'[s])
    PROVE  AloneInv'
<1>1. 0 \notin up /\ up \subseteq DOMAIN made
    BY DEF AloneInv, ConnInv, VarsTyped, StoreTyped
<1>2. \A c \in up : \/ c \in up' \/ c \in ended
                    \/ (\E s \in Slots \ {"line"} : c = taken[s])
                    \/ (c \in DOMAIN made /\ made[c].on # 0)
    BY <1>1, ReleaseEnds
<1>3. \A c \in up : c \in up' \/ Known(c)
    BY <1>2 DEF Known
<1>4. \A c \in draining : c \in up'
  <2> SUFFICES ASSUME NEW c \in draining, c \notin up' PROVE FALSE
    OBVIOUS
  <2>1. c \in up /\ c # 0 /\ made[c].slot = "line"
    BY <1>1 DEF AloneInv, ConnInv, LinesDrain
  <2>2. c \notin ended
    OBVIOUS
  <2>3. \A s \in Slots \ {"line"} : c # taken[s]
    BY <2>1 DEF IsOf
  <2>4. ~(c \in DOMAIN made /\ made[c].on # 0)
    BY <2>1, SlotFacts DEF AloneInv, ConnInv, ChannelsRide
  <2> QED
    BY <1>2, <2>1, <2>2, <2>3, <2>4
<1>5. ASSUME Moves(t, AtRest), UNCHANGED draining PROVE AloneInv'
  <2>1. PICK q : q = AtRest
    OBVIOUS
  <2>2. Moves(t, q) /\ q.at = "rest" /\ \A s \in Slots : Known(q.taken[s])
    BY <1>5, <2>1, AtRestFacts, OwnIsKnown DEF AloneInv
  <2>3. SettlesAlone'
    BY <1>3, <1>5, <2>2, AloneStep DEF Opens
  <2> QED
    BY <1>4, <1>5, <2>3 DEF AloneInv
<1>6. ASSUME NEW j \in (i+1)..6, taken[Order[j]] \in up,
             draining' = IF Order[j] = "line" THEN draining \cup {taken[Order[j]]} ELSE draining,
             Moves(t, [AtRest EXCEPT !.at = "closing", !.taken = taken, !.step = j,
                          !.takes = Order[j] = "line" /\ taken[Order[j]] \notin draining])
      PROVE  AloneInv'
  <2>1. PICK b : b = (Order[j] = "line" /\ taken[Order[j]] \notin draining)
    OBVIOUS
  <2>2. PICK q : q = [AtRest EXCEPT !.at = "closing", !.taken = taken, !.step = j, !.takes = b]
    OBVIOUS
  <2>3. q.at = "closing" /\ q.taken = taken
    <3>1. PICK p \in CallerRecord : p = AtRest
      BY AtRestFacts
    <3>2. q = [p EXCEPT !.at = "closing", !.taken = taken, !.step = j, !.takes = b]
      BY <2>2, <3>1
    <3> QED
      BY <3>1, <3>2 DEF CallerRecord
  <2>4. Moves(t, q)
    BY <1>6, <2>1, <2>2
  <2>5. Order[j] \in Slots
    BY OrderIsOfSlots
  <2>6. \A c \in draining' : c \in draining \/ Known(c)
    BY <1>6, <2>5
  <2>7. SettlesAlone'
    BY <1>3, <2>3, <2>4, <2>6, AloneStep DEF Opens
  <2>8. draining' \subseteq up'
    <3>1. CASE Order[j] # "line"
      BY <1>4, <1>6, <3>1
    <3>2. CASE Order[j] = "line"
      <4>1. taken["line"] \in up /\ taken["line"] # 0 /\ made[taken["line"]].slot = "line"
        BY <1>1, <1>6, <2>5, <3>2 DEF IsOf
      <4>2. \A s \in Slots \ {"line"} : taken["line"] # taken[s]
        BY <4>1 DEF IsOf
      <4>3. made[taken["line"]].on = 0
        BY <1>1, <4>1, SlotFacts DEF AloneInv, ConnInv, ChannelsRide
      <4>4. taken["line"] \in up'
        <5>1. j = 1
          BY <3>2, OrderIsOfSlots
        <5>2. ended = {}
          BY <5>1
        <5> QED
          BY <1>2, <4>1, <4>2, <4>3, <5>2
      <4> QED
        BY <1>4, <1>6, <3>2, <4>4
    <3> QED
      BY <3>1, <3>2
  <2> QED
    BY <2>7, <2>8 DEF AloneInv
<1>7. \/ /\ Moves(t, AtRest) /\ UNCHANGED draining
         /\ \A k \in (i+1)..6 : taken[Order[k]] \notin up'
      \/ \E j \in (i+1)..6 :
            /\ taken[Order[j]] \in up
            /\ \A k \in (i+1)..(j-1) : taken[Order[k]] \notin up'
            /\ draining' = IF Order[j] = "line" THEN draining \cup {taken[Order[j]]}
                                               ELSE draining
            /\ Moves(t, [AtRest EXCEPT !.at = "closing", !.taken = taken, !.step = j,
                           !.takes = Order[j] = "line" /\ taken[Order[j]] \notin draining])
    BY ReleaseFacts
<1> QED
    BY <1>5, <1>6, <1>7, Zenon

LEMMA ClosingAlone ==
    ASSUME AloneInv, ConnInv', NEW t \in Callers,
           ManagerCloses(t) \/ StepEnds(t) \/ CloseIsCut(t)
    PROVE  AloneInv'
<1>1. PICK r \in CallerRecord : r = caller[t] /\ Fits(r)
    BY DEF AloneInv, ConnInv, VarsTyped
<1>2. \A s \in Slots : Known(cached[s]) /\ Known(r.taken[s]) /\ Known(Nothing[s])
    BY <1>1, OwnIsKnown DEF AloneInv
<1>3. CASE ManagerCloses(t)
  <2>1. PICK taken : taken = cached
    OBVIOUS
  <2>2. PICK i \in 0..6 : i = 0
    OBVIOUS
  <2>3. ReleasesFrom(t, taken, i, {}) /\ UNCHANGED made /\ cached' = Nothing
    BY <1>3, <2>1, <2>2 DEF ManagerCloses
  <2>4. taken \in [Slots -> Nat] /\ \A s \in Slots : IsOf(taken[s], s) /\ Known(taken[s])
    BY <1>2, <2>1 DEF AloneInv, ConnInv, VarsTyped, StoreTyped, SlotsAreTheirOwn
  <2>5. \A s \in Slots : Known(cached'[s])
    BY <1>2, <2>3
  <2> QED
    BY <2>3, <2>4, <2>5, ReleasesAlone
<1>4. CASE StepEnds(t)
  <2>1. PICK taken : taken = r.taken
    OBVIOUS
  <2>2. PICK i : i = r.step
    OBVIOUS
  <2>3. PICK c : c = taken[Order[i]]
    OBVIOUS
  <2>4. /\ r.at = "closing" /\ UNCHANGED <<cached, made>> /\ (Order[i] = "line" => c \notin up)
        /\ ReleasesFrom(t, taken, i, {c}) \/ ReleasesFrom(t, taken, i, {})
    BY <1>1, <1>4, <2>1, <2>2, <2>3 DEF StepEnds
  <2>5. taken \in [Slots -> Nat] /\ \A s \in Slots : IsOf(taken[s], s) /\ Known(taken[s])
    BY <1>1, <1>2, <2>1 DEF CallerRecord, Fits, ClosersAwait
  <2>6. i \in 1..6 /\ Order[i] \in Slots /\ c # 0
    BY <1>1, <2>1, <2>2, <2>3, <2>4, OrderFacts, OrderIsOfSlots DEF Fits, ClosersAwait
  <2>7. Known(c) /\ c \notin draining
    <3>1. Known(c) /\ made[c].slot = Order[i]
      BY <2>3, <2>5, <2>6 DEF IsOf
    <3> QED
      BY <2>4, <3>1 DEF AloneInv, ConnInv, LinesDrain
  <2>8. PICK ended : ReleasesFrom(t, taken, i, ended) /\ ended \in {{c}, {}}
    BY <2>4
  <2>9. (\A d \in ended : Known(d) /\ d \notin draining) /\ i # 0
    BY <2>6, <2>7, <2>8
  <2>10. \A s \in Slots : Known(cached'[s])
    BY <1>2, <2>4
  <2>11. i \in 0..6
    BY <2>6
  <2> QED
    BY <2>4, <2>5, <2>8, <2>9, <2>10, <2>11, ReleasesAlone
<1>5. CASE CloseIsCut(t)
  <2>1. /\ Moves(t, AtRest) /\ UNCHANGED <<cached, made>>
        /\ IF r.takes THEN /\ up' = up \ {r.taken["line"]}
                           /\ draining' = draining \ {r.taken["line"]}
                      ELSE UNCHANGED <<up, draining>>
    BY <1>1, <1>5 DEF CloseIsCut, Aborts
  <2>2. /\ \A c \in up : c \in up' \/ Known(c)
        /\ \A c \in draining' : c \in draining
        /\ draining' \subseteq up'
    BY <1>2, <2>1, SlotFacts DEF AloneInv
  <2>3. PICK q : q = AtRest
    OBVIOUS
  <2>4. Moves(t, q) /\ q.at = "rest" /\ \A s \in Slots : Known(q.taken[s]) /\ Known(cached'[s])
    BY <1>2, <2>1, <2>3, AtRestFacts
  <2>5. SettlesAlone'
    BY <2>1, <2>2, <2>4, AloneStep DEF Opens
  <2> QED
    BY <2>2, <2>5 DEF AloneInv
<1> QED
    BY <1>3, <1>4, <1>5

LEMMA AloneInvariance == ConnSpec => []AloneInv
<1>1. ConnInit => AloneInv
    BY InitInv, AtRestFacts DEF ConnInit, AloneInv, SettlesAlone
<1>2. AloneInv /\ ConnInv' /\ [ConnNext]_connVars => AloneInv'
  <2> SUFFICES ASSUME AloneInv, ConnInv', [ConnNext]_connVars PROVE AloneInv'
    OBVIOUS
  <2>1. CASE UNCHANGED connVars
    BY <2>1 DEF connVars, AloneInv, SettlesAlone, Known, Opens
  <2> QED
    BY <2>1, AskingAlone, OpeningAlone, EndingAlone, StreamAlone, ClosingAlone DEF ConnNext
<1> QED
    BY <1>1, <1>2, ConnInvariance, PTL DEF ConnSpec

LEMMA TypesFollow == AloneInv => ConnTypeOK
<1> SUFFICES ASSUME AloneInv PROVE ConnTypeOK
    OBVIOUS
<1> USE DEF AloneInv, ConnInv, VarsTyped, StoreTyped
<1>1. \A c \in DOMAIN made : made[c] \in Connection
    BY ElementOfSeq
<1>2. ASSUME NEW t \in Callers
      PROVE  /\ caller[t].at \in Places /\ caller[t].slot \in Slots /\ caller[t].outer \in Slots
             /\ caller[t].on \in 0..Len(made)
             /\ caller[t].holds \cup {caller[t].lock} \subseteq Locks
             /\ caller[t].taken \in [Slots -> 0..Len(made)]
             /\ caller[t].step \in 0..Len(Order) /\ caller[t].takes \in BOOLEAN
  <2>1. caller[t] \in CallerRecord /\ Fits(caller[t])
    OBVIOUS
  <2>2. caller[t].taken \in [Slots -> 0..Len(made)]
    <3>1. caller[t].taken \in [Slots -> Nat]
      BY <2>1 DEF CallerRecord
    <3>2. \A s \in Slots : caller[t].taken[s] = 0 \/ caller[t].taken[s] \in DOMAIN made
      BY <2>1 DEF Fits, ClosersAwait, IsOf
    <3>3. DOMAIN made = 1..Len(made) /\ Len(made) \in Nat
      OBVIOUS
    <3> DEFINE f == caller[t].taken
    <3>4. f \in [Slots -> Nat] /\ \A s \in Slots : f[s] = 0 \/ f[s] \in 1..Len(made)
      BY <3>1, <3>2, <3>3
    <3> HIDE DEF f
    <3>5. \A s \in Slots : f[s] \in 0..Len(made)
      BY <3>3, <3>4
    <3>6. f \in [Slots -> 0..Len(made)]
      BY <3>4, <3>5
    <3> QED
      BY <3>6 DEF f
  <2> QED
    BY <2>1, <2>2 DEF CallerRecord, Fits, OpensItsOwn
<1>3. cached \in [Slots -> 0..Len(made)]
    BY DEF SlotsAreTheirOwn, IsOf
<1> QED
    BY <1>1, <1>2, <1>3 DEF ConnTypeOK, Places, Locks, LinesDrain, Connection

(* Every variable of the connection manager keeps its type; what drains    *)
(* is open, since nobody ends a line that another is still setting up.     *)
THEOREM ConnTypeCorrect == ConnSpec => []ConnTypeOK
    BY TypesFollow, AloneInvariance, PTL

----------------------------------------------------------------------------
(* Nobody waits in vain: who waits for a lock finds its holder at work, or *)
(* waiting one level further down, and who waits for a line finds somebody *)
(* draining it.                                                            *)

(* A caller lets go of its locks when it stops opening, and waits for      *)
(* another lock inside of an SFTP client's only.                           *)
HoldsRightly(r) ==
    /\ r.at \in {"rest", "closing"} => r.holds = {}
    /\ r.at = "locking" => \A l \in r.holds : l[1] \in Channels /\ r.slot \in Ssh

(* The line that a caller waits for drains, or is gone.                    *)
LineServed(r) ==
    /\ r.at \in {"stale", "failing"} => r.on \in draining \/ r.on \notin up
    /\ r.at = "closing" /\ r.step = 1 =>
          r.taken["line"] \in draining \/ r.taken["line"] \notin up

WaitsInv == ConnInv /\ \A t \in Callers : HoldsRightly(caller[t]) /\ LineServed(caller[t])

(* A drain ends with its line, and what is gone does not come back.        *)
LinesEnd ==
    /\ \A c \in draining : c \in draining' \/ c \notin up'
    /\ \A c \in up' : c \in up \/ c \notin DOMAIN made

Serves(t) == \E q : Moves(t, q) /\ HoldsRightly(q) /\ LineServed(q)'

LEMMA RestServes == ASSUME NEW t, Moves(t, AtRest) PROVE Serves(t)
BY AtRestFacts DEF Serves, HoldsRightly, LineServed

LEMMA OthersServed ==
    ASSUME WaitsInv, ConnInv', LinesEnd, NEW o \in Callers, caller'[o] = caller[o]
    PROVE  HoldsRightly(caller[o])' /\ LineServed(caller[o])'
<1>1. PICK q \in CallerRecord : q = caller[o] /\ Fits(q)
    BY DEF WaitsInv, ConnInv, VarsTyped
<1>2. HoldsRightly(q) /\ LineServed(q)
    BY <1>1 DEF WaitsInv
<1>3. 0 \notin up' /\ DOMAIN made = 1..Len(made) /\ Len(made) \in Nat
    BY DEF WaitsInv, ConnInv, VarsTyped, StoreTyped
<1>4. q.on = 0 \/ q.on \in DOMAIN made
    BY <1>1, <1>3 DEF Fits, OpensItsOwn
<1>5. q.taken["line"] = 0 \/ q.taken["line"] \in DOMAIN made
    BY <1>1, SlotFacts DEF Fits, ClosersAwait, IsOf
<1>6. LineServed(q)'
    BY <1>2, <1>3, <1>4, <1>5 DEF LineServed, LinesEnd
<1> QED
    BY <1>1, <1>2, <1>6 DEF HoldsRightly, LineServed

LEMMA ServedStep ==
    ASSUME WaitsInv, ConnInv', LinesEnd, NEW t \in Callers, Serves(t)
    PROVE  WaitsInv'
<1>1. PICK q : Moves(t, q) /\ HoldsRightly(q) /\ LineServed(q)'
    BY DEF Serves
<1>2. caller'[t] = q /\ \A o \in Callers : o # t => caller'[o] = caller[o]
    BY <1>1 DEF Moves, WaitsInv, ConnInv, VarsTyped
<1>3. ASSUME NEW o \in Callers PROVE HoldsRightly(caller[o])' /\ LineServed(caller[o])'
  <2>1. CASE o = t
    <3>1. caller'[o] = q
      BY <1>2, <2>1
    <3> QED
      BY <1>1, <3>1 DEF HoldsRightly, LineServed
  <2>2. CASE o # t
    BY <1>2, <2>2, OthersServed
  <2> QED
    BY <2>1, <2>2
<1> QED
    BY <1>3 DEF WaitsInv

LEMMA GainsServes ==
    ASSUME NEW t, NEW r \in CallerRecord, NEW c, Gains(t, r, c) PROVE Serves(t)
<1>1. PICK q : q = [r EXCEPT !.at = "dialing", !.slot = r.outer, !.on = c]
    OBVIOUS
<1>2. q.at = "dialing"
    BY <1>1 DEF CallerRecord
<1>3. Moves(t, AtRest) \/ Moves(t, q)
    BY <1>1 DEF Gains
<1> QED
    BY <1>2, <1>3, RestServes DEF Serves, HoldsRightly, LineServed

LEMMA DialsServes ==
    ASSUME NEW t, NEW r \in CallerRecord, Dials(t, r), ~Usable(r.slot), 0 \notin up,
           UNCHANGED <<up, draining>>
    PROVE  Serves(t)
<1>1. PICK q : q = [r EXCEPT !.at = "stale", !.on = cached[r.slot]]
    OBVIOUS
<1>2. PICK p : p = [r EXCEPT !.at = "dialing", !.on = 0]
    OBVIOUS
<1>3. q.at = "stale" /\ q.on = cached[r.slot] /\ p.at = "dialing"
    BY <1>1, <1>2 DEF CallerRecord
<1>4. CASE cached[r.slot] \in up
  <2>1. cached[r.slot] \in draining /\ Moves(t, q)
    BY <1>1, <1>4 DEF Usable, Dials
  <2> QED
    BY <1>3, <2>1 DEF Serves, HoldsRightly, LineServed
<1>5. CASE cached[r.slot] \notin up
  <2>1. Moves(t, p)
    BY <1>2, <1>5 DEF Dials
  <2> QED
    BY <1>3, <2>1 DEF Serves, HoldsRightly, LineServed
<1> QED
    BY <1>4, <1>5

LEMMA SeeksServes ==
    ASSUME ConnInv, NEW t, NEW r \in CallerRecord, Seeks(t, r), UNCHANGED <<up, draining>>,
           \A l \in r.holds : l[1] \in Channels /\ r.slot \in Ssh
    PROVE  Serves(t)
<1>1. PICK l : l = LockOf(r.slot)
    OBVIOUS
<1>2. l \in Locks /\ 0 \notin up
    BY <1>1, ConnectionAssumption
    DEF LockOf, Locks, CallerRecord, ConnInv, VarsTyped, StoreTyped
<1>3. CASE Usable(r.slot)
  <2>1. PICK c : c = cached[r.slot]
    OBVIOUS
  <2> QED
    BY <1>3, <2>1, GainsServes DEF Seeks
<1>4. CASE ~Usable(r.slot) /\ Contested(l)
  <2>1. PICK q : q = [r EXCEPT !.at = "locking", !.lock = l]
    OBVIOUS
  <2>2. q.at = "locking" /\ q.holds = r.holds /\ q.slot = r.slot
    BY <2>1 DEF CallerRecord
  <2>3. Moves(t, q)
    BY <1>1, <1>4, <2>1 DEF Seeks
  <2> QED
    BY <2>2, <2>3 DEF Serves, HoldsRightly, LineServed
<1>5. CASE ~Usable(r.slot) /\ ~Contested(l)
  <2>1. PICK p : p = [r EXCEPT !.holds = @ \cup {l}]
    OBVIOUS
  <2>2. p \in CallerRecord /\ p.slot = r.slot
    BY <1>2, <2>1 DEF CallerRecord
  <2>3. Dials(t, p)
    BY <1>1, <1>5, <2>1 DEF Seeks
  <2> QED
    BY <1>2, <1>5, <2>2, <2>3, DialsServes
<1> QED
    BY <1>3, <1>4, <1>5

LEMMA SeeksBaseServes ==
    ASSUME ConnInv, NEW t, NEW r \in CallerRecord, SeeksBase(t, r), UNCHANGED <<up, draining>>,
           r.outer \in Channels, \A l \in r.holds : l[1] \in Channels
    PROVE  Serves(t)
<1>1. PICK q : q = [r EXCEPT !.slot = Base[r.outer]]
    OBVIOUS
<1>2. q \in CallerRecord /\ q.holds = r.holds /\ q.slot \in Ssh
    BY <1>1, SlotFacts DEF CallerRecord
<1>3. Seeks(t, q)
    BY <1>1 DEF SeeksBase
<1> QED
    BY <1>2, <1>3, SeeksServes

LEMMA AskServes ==
    ASSUME ConnInv, NEW t \in Callers, NEW s \in Slots, Ask(t, s) PROVE Serves(t)
<1>1. UNCHANGED <<up, draining>>
    BY DEF Ask
<1>2. PICK l : l = LockOf(s)
    OBVIOUS
<1>3. l \in Locks /\ l[1] = s
    BY <1>2, ConnectionAssumption DEF LockOf, Locks, ConnInv, VarsTyped, StoreTyped
<1>4. PICK r : r = [AtRest EXCEPT !.slot = s, !.outer = s, !.lock = l]
    OBVIOUS
<1>5. r \in CallerRecord /\ r.outer = s /\ r.holds = {}
    BY <1>3, <1>4, AtRestFacts DEF CallerRecord
<1>6. CASE s \notin Channels
  <2>1. Seeks(t, r)
    BY <1>2, <1>4, <1>6 DEF Ask
  <2> QED
    BY <1>1, <1>5, <2>1, SeeksServes
<1>7. CASE s \in Channels /\ Contested(l)
  <2>1. PICK q : q = [r EXCEPT !.at = "locking"]
    OBVIOUS
  <2>2. q.at = "locking" /\ q.holds = {}
    BY <1>5, <2>1 DEF CallerRecord
  <2>3. Moves(t, q)
    BY <1>2, <1>4, <1>7, <2>1 DEF Ask
  <2> QED
    BY <2>2, <2>3 DEF Serves, HoldsRightly, LineServed
<1>8. CASE s \in Channels /\ ~Contested(l)
  <2>1. PICK q : q = [r EXCEPT !.holds = {l}]
    OBVIOUS
  <2>2. q \in CallerRecord /\ q.outer = s /\ q.holds = {l}
    BY <1>3, <1>5, <2>1 DEF CallerRecord
  <2>3. SeeksBase(t, q)
    BY <1>2, <1>4, <1>8, <2>1 DEF Ask
  <2> QED
    BY <1>1, <1>3, <1>8, <2>2, <2>3, SeeksBaseServes
<1> QED
    BY <1>6, <1>7, <1>8

LEMMA GetsLockServes ==
    ASSUME WaitsInv, NEW t \in Callers, GetsLock(t) PROVE Serves(t)
<1>1. UNCHANGED <<up, draining>> /\ 0 \notin up /\ ConnInv
    BY DEF GetsLock, WaitsInv, ConnInv, VarsTyped, StoreTyped
<1>2. PICK r \in CallerRecord : r = caller[t] /\ Fits(r) /\ HoldsRightly(r)
    BY DEF WaitsInv, ConnInv, VarsTyped
<1>3. PICK p : p = [r EXCEPT !.holds = @ \cup {r.lock}]
    OBVIOUS
<1>4. /\ p \in CallerRecord /\ p.outer = r.outer /\ p.slot = r.slot
      /\ p.holds = r.holds \cup {r.lock}
    BY <1>3 DEF CallerRecord
<1>5. r.at = "locking"
    BY <1>2 DEF GetsLock
<1>6. CASE Usable(r.slot)
  <2>1. PICK c : c = cached[r.slot]
    OBVIOUS
  <2>2. Gains(t, r, c)
    BY <1>2, <1>6, <2>1 DEF GetsLock
  <2> QED
    BY <1>2, <2>2, GainsServes
<1>7. CASE ~Usable(r.slot) /\ r.slot \in Channels
  <2>1. SeeksBase(t, p)
    BY <1>2, <1>3, <1>7 DEF GetsLock
  <2>2. r.outer = r.slot /\ r.lock[1] = r.slot
    BY <1>2, <1>5, <1>7, SlotFacts DEF Fits, HasItsLocks
  <2>3. r.holds = {}
    BY <1>2, <1>5, <1>7, SlotFacts DEF HoldsRightly
  <2> QED
    BY <1>1, <1>4, <1>7, <2>1, <2>2, <2>3, SeeksBaseServes
<1>8. CASE ~Usable(r.slot) /\ r.slot \notin Channels
  <2>1. Dials(t, p)
    BY <1>2, <1>3, <1>8 DEF GetsLock
  <2> QED
    BY <1>1, <1>4, <1>8, <2>1, DialsServes
<1> QED
    BY <1>6, <1>7, <1>8

LEMMA StaleServes ==
    ASSUME ConnInv, NEW t \in Callers, StaleIsGone(t) PROVE Serves(t)
<1>1. PICK q : q = [caller[t] EXCEPT !.at = "dialing", !.on = 0]
    OBVIOUS
<1>2. q.at = "dialing" /\ Moves(t, q)
    BY <1>1 DEF StaleIsGone, ConnInv, VarsTyped, CallerRecord
<1> QED
    BY <1>2 DEF Serves, HoldsRightly, LineServed

LEMMA PublishServes ==
    ASSUME NEW t, NEW r \in CallerRecord, NEW c, Publish(t, r, c) PROVE Serves(t)
<1>1. PICK p : p = [r EXCEPT !.holds = Without(@, r.slot)]
    OBVIOUS
<1>2. p \in CallerRecord /\ Gains(t, p, c)
    BY <1>1 DEF Publish, CallerRecord, Without
<1> QED
    BY <1>2, GainsServes

LEMMA OpeningServes ==
    ASSUME ConnInv, NEW t \in Callers, Connects(t) \/ Settles(t)
    PROVE  Serves(t) /\ LinesEnd
<1>1. PICK r \in CallerRecord : r = caller[t]
    BY DEF ConnInv, VarsTyped
<1>2. CASE Settles(t)
  <2>1. Publish(t, r, r.on) /\ UNCHANGED <<up, draining>>
    BY <1>1, <1>2 DEF Settles
  <2> QED
    BY <1>1, <2>1, PublishServes DEF LinesEnd
<1>3. CASE Connects(t)
  <2>1. PICK c : c = Len(made) + 1
    OBVIOUS
  <2>2. c \notin DOMAIN made
    BY <2>1 DEF ConnInv, VarsTyped, StoreTyped
  <2>3. PICK q : q = [r EXCEPT !.at = "settling", !.on = c]
    OBVIOUS
  <2>4. q.at = "settling"
    BY <2>3 DEF CallerRecord
  <2>5. up' = up \cup {c} /\ UNCHANGED draining /\ (Publish(t, r, c) \/ Moves(t, q))
    BY <1>1, <1>3, <2>1, <2>3 DEF Connects
  <2>6. Moves(t, q) => Serves(t)
    BY <2>4 DEF Serves, HoldsRightly, LineServed
  <2> QED
    BY <2>2, <2>5, <2>6, PublishServes DEF LinesEnd
<1> QED
    BY <1>2, <1>3

LEMMA EndingServes ==
    ASSUME ConnInv, NEW t \in Callers, Breaks(t) \/ HasFailed(t) \/ FailingIsCut(t)
    PROVE  Serves(t) /\ LinesEnd
<1>1. PICK r \in CallerRecord : r = caller[t]
    BY DEF ConnInv, VarsTyped
<1>2. PICK q : q = [r EXCEPT !.at = "failing"]
    OBVIOUS
<1>3. q.at = "failing" /\ q.on = r.on
    BY <1>2 DEF CallerRecord
<1>4. Moves(t, AtRest) \/ (Moves(t, q) /\ draining' = draining \cup {r.on})
    BY <1>1, <1>2 DEF Breaks, HasFailed, FailingIsCut
<1>5. LinesEnd
    BY DEF Breaks, HasFailed, FailingIsCut, Aborts, LinesEnd
<1>6. Moves(t, q) /\ draining' = draining \cup {r.on} => Serves(t)
    BY <1>3 DEF Serves, HoldsRightly, LineServed
<1> QED
    BY <1>4, <1>5, <1>6, RestServes

LEMMA ReleasesServe ==
    ASSUME NEW t, NEW taken, NEW i \in 0..6, NEW ended, ReleasesFrom(t, taken, i, ended)
    PROVE  Serves(t) /\ LinesEnd
<1>1. up' \subseteq up /\ draining \subseteq draining'
    BY DEF ReleasesFrom
<1>2. ASSUME NEW j \in (i+1)..6,
             draining' = IF Order[j] = "line" THEN draining \cup {taken[Order[j]]} ELSE draining,
             Moves(t, [AtRest EXCEPT !.at = "closing", !.taken = taken, !.step = j,
                          !.takes = Order[j] = "line" /\ taken[Order[j]] \notin draining])
      PROVE  Serves(t)
  <2>1. PICK b : b = (Order[j] = "line" /\ taken[Order[j]] \notin draining)
    OBVIOUS
  <2>2. PICK q : q = [AtRest EXCEPT !.at = "closing", !.taken = taken, !.step = j, !.takes = b]
    OBVIOUS
  <2>3. q.at = "closing" /\ q.taken = taken /\ q.step = j /\ q.holds = {}
    <3>1. PICK p \in CallerRecord : p = AtRest
      BY AtRestFacts
    <3>2. q = [p EXCEPT !.at = "closing", !.taken = taken, !.step = j, !.takes = b]
      BY <2>2, <3>1
    <3> QED
      BY <3>1, <3>2, AtRestFacts DEF CallerRecord
  <2>4. Moves(t, q)
    BY <1>2, <2>1, <2>2
  <2>5. j = 1 => taken["line"] \in draining'
    BY <1>2, OrderFacts
  <2> QED
    BY <2>3, <2>4, <2>5 DEF Serves, HoldsRightly, LineServed
<1>3. \/ /\ Moves(t, AtRest) /\ UNCHANGED draining
         /\ \A k \in (i+1)..6 : taken[Order[k]] \notin up'
      \/ \E j \in (i+1)..6 :
            /\ taken[Order[j]] \in up
            /\ \A k \in (i+1)..(j-1) : taken[Order[k]] \notin up'
            /\ draining' = IF Order[j] = "line" THEN draining \cup {taken[Order[j]]}
                                               ELSE draining
            /\ Moves(t, [AtRest EXCEPT !.at = "closing", !.taken = taken, !.step = j,
                           !.takes = Order[j] = "line" /\ taken[Order[j]] \notin draining])
    BY ReleaseFacts
<1>4. Serves(t)
    BY <1>2, <1>3, RestServes, Zenon
<1> QED
    BY <1>1, <1>4 DEF LinesEnd

LEMMA ClosingServes ==
    ASSUME ConnInv, NEW t \in Callers, ManagerCloses(t) \/ StepEnds(t) \/ CloseIsCut(t)
    PROVE  Serves(t) /\ LinesEnd
<1>1. PICK r \in CallerRecord : r = caller[t] /\ Fits(r)
    BY DEF ConnInv, VarsTyped
<1>2. CASE ManagerCloses(t)
  <2>1. PICK i \in 0..6 : i = 0
    OBVIOUS
  <2>2. ReleasesFrom(t, cached, i, {})
    BY <1>2, <2>1 DEF ManagerCloses
  <2> QED
    BY <2>2, ReleasesServe
<1>3. CASE StepEnds(t)
  <2>1. r.at = "closing"
    BY <1>1, <1>3 DEF StepEnds
  <2>2. r.step \in 0..6
    BY <1>1, <2>1, OrderFacts DEF Fits, ClosersAwait
  <2>3. PICK ended : ReleasesFrom(t, r.taken, r.step, ended)
    BY <1>1, <1>3 DEF StepEnds
  <2> QED
    BY <2>2, <2>3, ReleasesServe
<1>4. CASE CloseIsCut(t)
  <2>1. Moves(t, AtRest)
    BY <1>4 DEF CloseIsCut
  <2>2. LinesEnd
    BY <1>4 DEF CloseIsCut, Aborts, LinesEnd
  <2> QED
    BY <2>1, <2>2, RestServes
<1> QED
    BY <1>2, <1>3, <1>4

LEMMA StreamServes ==
    ASSUME WaitsInv, ConnInv', (\E c \in draining : StreamReleased(c)) \/ SessionTakes
    PROVE  WaitsInv'
<1>1. UNCHANGED caller
    BY DEF StreamReleased, SessionTakes
<1>2. LinesEnd
    BY DEF StreamReleased, SessionTakes, Aborts, LinesEnd
<1> QED
    BY <1>1, <1>2, OthersServed DEF WaitsInv

LEMMA ServedInvariance == ConnSpec => []WaitsInv
<1>1. ConnInit => WaitsInv
    BY InitInv, AtRestFacts DEF ConnInit, WaitsInv, HoldsRightly, LineServed
<1>2. WaitsInv /\ ConnInv' /\ [ConnNext]_connVars => WaitsInv'
  <2> SUFFICES ASSUME WaitsInv, ConnInv', [ConnNext]_connVars PROVE WaitsInv'
    OBVIOUS
  <2>1. CASE UNCHANGED connVars
    BY <2>1 DEF connVars, WaitsInv, HoldsRightly, LineServed
  <2>2. ASSUME NEW t \in Callers,
               (\E s \in Slots : Ask(t, s)) \/ GetsLock(t) \/ StaleIsGone(t)
        PROVE  WaitsInv'
    <3>1. LinesEnd
      BY <2>2 DEF Ask, GetsLock, StaleIsGone, LinesEnd
    <3>2. Serves(t)
      BY <2>2, AskServes, GetsLockServes, StaleServes DEF WaitsInv
    <3> QED
      BY <3>1, <3>2, ServedStep
  <2>3. ASSUME NEW t \in Callers,
               \/ Connects(t) \/ Settles(t) \/ Breaks(t) \/ HasFailed(t) \/ FailingIsCut(t)
               \/ ManagerCloses(t) \/ StepEnds(t) \/ CloseIsCut(t)
        PROVE  WaitsInv'
    <3>1. Serves(t) /\ LinesEnd
      BY <2>3, OpeningServes, EndingServes, ClosingServes DEF WaitsInv
    <3> QED
      BY <3>1, ServedStep
  <2> QED
    BY <2>1, <2>2, <2>3, StreamServes DEF ConnNext
<1> QED
    BY <1>1, <1>2, ConnInvariance, PTL DEF ConnSpec

LEMMA ServedFollows == WaitsInv => WaitsAreServed
<1> SUFFICES ASSUME WaitsInv, NEW t \in Callers
             PROVE  /\ caller[t].at = "locking" =>
                          \A o \in Callers : caller[t].lock \in caller[o].holds =>
                              \/ caller[o].at \in {"stale", "dialing", "settling", "failing"}
                              \/ /\ caller[o].at = "locking"
                                 /\ caller[t].lock[1] \in Channels /\ caller[o].lock[1] \in Ssh
                    /\ AwaitsLine(t) => Awaited(t) \in draining \/ Awaited(t) \notin up
    BY DEF WaitsAreServed
<1>1. ASSUME NEW o \in Callers, caller[t].at = "locking", caller[t].lock \in caller[o].holds
      PROVE  \/ caller[o].at \in {"stale", "dialing", "settling", "failing"}
             \/ /\ caller[o].at = "locking"
                /\ caller[t].lock[1] \in Channels /\ caller[o].lock[1] \in Ssh
  <2>1. PICK q \in CallerRecord : q = caller[o] /\ Fits(q) /\ HoldsRightly(q)
    BY DEF WaitsInv, ConnInv, VarsTyped
  <2>2. q.at \notin {"rest", "closing"} /\ q.at \in Places
    BY <1>1, <2>1 DEF HoldsRightly, CallerRecord
  <2>3. q.at = "locking" => caller[t].lock[1] \in Channels /\ q.lock[1] \in Ssh
    BY <1>1, <2>1 DEF HoldsRightly, Fits, HasItsLocks
  <2> QED
    BY <2>1, <2>2, <2>3 DEF Places
<1>2. ASSUME AwaitsLine(t) PROVE Awaited(t) \in draining \/ Awaited(t) \notin up
  <2>1. PICK q \in CallerRecord : q = caller[t] /\ Fits(q) /\ LineServed(q)
    BY DEF WaitsInv, ConnInv, VarsTyped
  <2>2. q.at = "closing" /\ Order[q.step] = "line" => q.step = 1
    BY <2>1, OrderFacts, OrderIsOfSlots DEF Fits, ClosersAwait
  <2> QED
    BY <1>2, <2>1, <2>2 DEF AwaitsLine, Awaited, LineServed
<1> QED
    BY <1>1, <1>2

(* No wait of the connection manager is in vain: the holder of a lock that *)
(* a caller waits for opens a connection, or waits for the lock of the     *)
(* connection its SFTP client needs, inside of which nobody waits for      *)
(* another; and a line whose end a caller waits for drains or is gone,     *)
(* however often its releases were cancelled.  For any number of callers,  *)
(* connections and closes.                                                 *)
THEOREM WaitsAreAlwaysServed == ConnSpec => []WaitsAreServed
    BY ServedInvariance, ServedFollows, PTL

(* Who can go on: a caller that opens or closes a connection, where it     *)
(* waits for the end of a line only if that drains or is gone; or one      *)
(* whose lock is free.                                                     *)
CanGoOn(t) ==
    \/ caller[t].at = "locking" /\ \A o \in Callers : caller[t].lock \notin caller[o].holds
    \/ /\ caller[t].at \notin {"rest", "locking"}
       /\ AwaitsLine(t) => Awaited(t) \in draining \/ Awaited(t) \notin up

LEMMA SomebodyCanGoOn ==
    ASSUME ConnInv, WaitsAreServed, NEW t \in Callers, caller[t].at # "rest"
    PROVE  \E o \in Callers : CanGoOn(o)
<1> SUFFICES ASSUME \A o \in Callers : ~CanGoOn(o) PROVE FALSE
    OBVIOUS
<1>1. ASSUME NEW o \in Callers, caller[o].at # "rest" PROVE caller[o].at = "locking"
    BY <1>1 DEF CanGoOn, WaitsAreServed
<1>2. ASSUME NEW o \in Callers, caller[o].at = "locking"
      PROVE  /\ caller[o].lock[1] \in Channels
             /\ \E h \in Callers : caller[h].at = "locking" /\ caller[h].lock[1] \in Ssh
  <2>1. PICK h \in Callers : caller[o].lock \in caller[h].holds
    BY <1>2 DEF CanGoOn
  <2>2. caller[h].at # "rest"
    BY <1>2, <2>1 DEF WaitsAreServed
  <2>3. caller[h].at = "locking"
    BY <1>1, <2>2
  <2> QED
    BY <1>2, <2>1, <2>3 DEF WaitsAreServed
<1>3. PICK h \in Callers : caller[h].at = "locking" /\ caller[h].lock[1] \in Ssh
    BY <1>1, <1>2
<1>4. caller[h].lock[1] \in Channels
    BY <1>2, <1>3
<1>5. \A s \in Ssh : s \notin Channels
    BY DEF Ssh, Channels, Base
<1> QED
    BY <1>3, <1>4, <1>5

(* The manager's locks never come to a standstill: as long as a caller is  *)
(* in a call, one can go on, however many callers ask for connections,     *)
(* open two at once, close, fail or are cancelled.                         *)
THEOREM SomebodyAlwaysGoesOn ==
    ConnSpec => []((\A t \in Callers : caller[t].at = "rest") \/ \E t \in Callers : CanGoOn(t))
<1>1. ConnInv /\ WaitsAreServed =>
         (\A t \in Callers : caller[t].at = "rest") \/ \E t \in Callers : CanGoOn(t)
    BY SomebodyCanGoOn
<1> QED
    BY <1>1, ConnInvariance, WaitsAreAlwaysServed, PTL

----------------------------------------------------------------------------
(* The two components side by side, as the run checks them. *)

(* In each scene one of them runs and the other waits where it began: both *)
(* specifications hold of every scene, and all that is proved of them.     *)
THEOREM BothSpecifications == MCSpec => Spec /\ ConnSpec
  <1>1. MCInit => Init /\ ConnInit
    BY DEF MCInit
  <1>2. [MCNext]_<<vars, connVars, scene>> => [Next]_vars /\ [ConnNext]_connVars
    BY DEF MCNext
  <1> QED BY <1>1, <1>2, PTL DEF MCSpec, Spec, ConnSpec

(* Every variable of both keeps its type, in every scene.                  *)
THEOREM MCTypeCorrect == MCSpec => []MCTypeOK
  <1>1. TypeOK /\ ConnTypeOK => MCTypeOK
    BY DEF MCTypeOK
  <1> QED BY <1>1, BothSpecifications, TypeCorrect, ConnTypeCorrect, PTL

(* Whoever waits, for a lock of the chain or of the manager or for the end *)
(* of a line, waits for somebody or something that can come to an end.     *)
THEOREM NobodyEverWaitsInVain == MCSpec => []NobodyWaitsInVain
  <1>1. WaitsGoUp /\ WaitsAreServed => NobodyWaitsInVain
    BY DEF NobodyWaitsInVain
  <1> QED BY <1>1, BothSpecifications, WaitsAlwaysGoUp, WaitsAreAlwaysServed, PTL

=============================================================================
