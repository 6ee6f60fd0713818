----------------------------- MODULE SessionProofs -----------------------------
(* Proofs about the sessions of a host: SessionManager, for any callers,   *)
(* names and number of sessions, and ShellSession, the commands of one     *)
(* shell, for any number of commands and probes.                           *)
EXTENDS SessionManager, ShellSession, FiniteSetTheorems, SequenceTheorems, WellFoundedInduction,
        TLAPS

----------------------------------------------------------------------------
(* The inductive invariant of the session manager. *)

(* The sessions with a transport that no close_all spoilt the books of.    *)
Sound == open \ (overtaken \cup evicted)

(* The idle sessions of the pool; none is there twice.                     *)
Idles == {pool[i] : i \in DOMAIN pool}
NoTwins == \A i, j \in DOMAIN pool : pool[i] = pool[j] => i = j

(* What the pool, its names, close_all and the notes on users tell of.     *)
Known == Idles \cup pooled \cup closing \cup told \cup other

(* Nothing is known of a session that is not built yet.                    *)
OnlyBuiltAreKnown ==
    /\ \A n \in Names : slot[n] \in 0..built
    /\ \A t \in Tasks : task[t].s \in 0..built
    /\ Known \subseteq 1..built

(* Where a caller is tells whose session it has.                           *)
CallersAreNamed ==
    \A t \in Tasks :
        /\ task[t].at \in {"waiting", "retiring", "using", "releasing"} => task[t].name # Pool
        /\ task[t].at \in Execing \cup {"discarding"} => task[t].name = Pool /\ task[t].s # None
        /\ task[t].at \in {"idle", "waiting", "building"} => task[t].s = None

(* A session that is being opened is its caller's alone.                   *)
Opens(t) == task[t].at \in {"landing", "failing"}

NewIsNobodyElses ==
    \A t \in Tasks : Opens(t) =>
        /\ task[t].s \in open
        /\ task[t].s \notin Known
        /\ \A n \in Names : slot[n] # task[t].s
        /\ \A u \in Tasks : task[u].s = task[t].s => u = t

(* One caller at a time opens under a lock; and the lock of a caller that  *)
(* met no close_all is its name's.                                         *)
OneOpenerPerLock ==
    \A t, u \in Tasks :
        /\ task[t].at \in Opening /\ task[u].at \in Opening
        /\ task[t].name = task[u].name /\ task[t].lock = task[u].lock /\ task[t].name # Pool
        => t = u

LocksAreTheNames ==
    \A t \in Tasks :
        task[t].at \in Opening \cup {"waiting"} /\ ~task[t].met /\ task[t].name # Pool =>
            task[t].lock # 0 /\ task[t].lock = locks[task[t].name]

(* Who opens while a close_all runs has met it.                            *)
ClosesAreMet ==
    closer # "idle" =>
        \A t \in Tasks : task[t].at \in Opening \cup {"waiting"} => task[t].met

(* Who opens without meeting one finds no sound session of its name, but   *)
(* the dead one it is about to close.                                      *)
OpenersFindNone ==
    \A t \in Tasks :
        /\ task[t].at \in Opening /\ ~task[t].met
        /\ task[t].name # Pool /\ slot[task[t].name] \in Sound
        => task[t].at = "retiring" /\ task[t].s = slot[task[t].name]

(* A close_all still has before it every sound session it is to close.     *)
CloserHasThem ==
    /\ closer = "idle" => closing = {}
    /\ closer = "default" =>
          /\ \E s \in closing : closing = {s}
          /\ slot[Default] \in Sound => slot[Default] \in closing
    /\ closer = "named" =>
          /\ \A n \in Names \ {Default} : slot[n] \in Sound => slot[n] \in closing
          /\ pooled \cap Sound \subseteq closing
          /\ \A s \in closing : nameOf[s] # Pool /\ slot[nameOf[s]] \in Sound => slot[nameOf[s]] = s

(* A session has one name, and if it is sound it is the one of that name.  *)
ClosedAreUnnamed == \A s \in Sessions \ open : nameOf[s] = Pool
SlotsAreNamed == \A n \in Names : slot[n] \in open => nameOf[slot[n]] = n
PooledAreUnnamed == \A s \in pooled : nameOf[s] = Pool
SoundAreTheNames == \A s \in Sound : nameOf[s] # Pool => slot[nameOf[s]] = s

(* What the pool and those who borrow of it have is registered.            *)
BorrowedAreRegistered ==
    /\ Idles \cap Sound \subseteq pooled
    /\ \A t \in Tasks :
          task[t].at \in Execing \cup {"discarding"} /\ task[t].s \in Sound => task[t].s \in pooled

(* Each pooled session is idle in one place or in one caller's hands.      *)
OneBorrower ==
    /\ NoTwins
    /\ \A t \in Tasks : task[t].at \in Execing => task[t].s \notin Idles
    /\ \A t, u \in Tasks :
          task[t].at \in Execing /\ task[u].at \in Execing /\ task[t].s = task[u].s => t = u

(* A live session runs as its login's user, but for the command it was     *)
(* switched for.                                                           *)
UsersAreKnown ==
    /\ \A s \in Idles \cap living : s \notin told \cup other
    /\ \A t \in Tasks :
          /\ ~task[t].was
          /\ task[t].at \in {"switching", "undoing"} => task[t].switched
          /\ task[t].s \in living =>
               /\ task[t].at = "switching" \/ (task[t].at = "running" /\ ~task[t].switched)
                     => task[t].s \notin told \cup other
               /\ task[t].at = "undoing" \/ (task[t].at = "running" /\ task[t].switched)
                     => task[t].s \in told

(* A sound session is in the registry, before close_all, or in hand.       *)
SoundAreHeld ==
    \A s \in Sound :
        \/ \E n \in Names : slot[n] = s
        \/ s \in pooled \cup closing
        \/ InHand(s)

ManagerInv ==
    /\ TypeOK
    /\ OnlyBuiltAreKnown /\ CallersAreNamed /\ NewIsNobodyElses
    /\ OneOpenerPerLock /\ LocksAreTheNames /\ ClosesAreMet /\ OpenersFindNone
    /\ CloserHasThem
    /\ ClosedAreUnnamed /\ SlotsAreNamed /\ PooledAreUnnamed /\ SoundAreTheNames
    /\ BorrowedAreRegistered /\ OneBorrower /\ UsersAreKnown
    /\ SoundAreHeld

----------------------------------------------------------------------------
(* What the locks and the pool come to. *)

(* There is always a lock that no caller of a name holds.                  *)
LEMMA ALockIsFree ==
  ASSUME TypeOK, NEW n
  PROVE  \E l \in Locks \ {0} : l \notin {task[u].lock : u \in {v \in Tasks : task[v].name = n}}
  <1> DEFINE V == {v \in Tasks : task[v].name = n}
             used == {task[u].lock : u \in V}
             f == [u \in V |-> task[u].lock]
             k == Cardinality(Tasks)
  <1>1. IsFiniteSet(Tasks) /\ k \in Nat
    BY NameAssumption, FS_CardinalityType
  <1>2. IsFiniteSet(V) /\ Cardinality(V) <= k /\ Cardinality(V) \in Nat
    BY <1>1, FS_Subset, FS_CardinalityType
  <1>3. f \in Surjection(V, used)
    BY DEF Surjection
  <1>4. IsFiniteSet(used) /\ Cardinality(used) <= Cardinality(V) /\ Cardinality(used) \in Nat
    <2> HIDE DEF f, V, used
    <2> QED BY <1>2, <1>3, FS_Surjection, FS_CardinalityType
  <1>5. Cardinality(1..k + 1) = k + 1
    BY <1>1, FS_Interval
  <1>6. SUFFICES ASSUME 1..k + 1 \subseteq used PROVE FALSE
    BY <1>1 DEF Locks
  <1>7. Cardinality(1..k + 1) <= Cardinality(used)
    <2> HIDE DEF used
    <2> QED BY <1>4, <1>6, FS_Subset
  <1> HIDE DEF k, used, V
  <1> QED BY <1>1, <1>2, <1>4, <1>5, <1>7

(* An idle session is popped with what is above it.                        *)
LEMMA Popping ==
  ASSUME NEW S, NEW q \in Seq(S), NEW i \in DOMAIN q
  PROVE  /\ SubSeq(q, 1, i - 1) \in Seq(S)
         /\ i \in 1..Len(q) /\ Len(q) \in Nat /\ q[i] \in S
         /\ DOMAIN SubSeq(q, 1, i - 1) = 1..i - 1
         /\ \A j \in 1..i - 1 : j \in DOMAIN q /\ j # i /\ SubSeq(q, 1, i - 1)[j] = q[j]
  <1>1. i \in 1..Len(q) /\ Len(q) \in Nat
    OBVIOUS
  <1>2. \A j \in 1..i - 1 : j \in 1..Len(q) /\ j # i /\ q[j] \in S
    BY <1>1
  <1>3. /\ SubSeq(q, 1, i - 1) \in Seq(S)
        /\ Len(SubSeq(q, 1, i - 1)) = IF 1 <= i - 1 THEN (i - 1) - 1 + 1 ELSE 0
        /\ \A j \in 1..(i - 1) - 1 + 1 : SubSeq(q, 1, i - 1)[j] = q[1 + j - 1]
    BY <1>1, <1>2, SubSeqProperties
  <1>4. Len(SubSeq(q, 1, i - 1)) = i - 1
    BY <1>1, <1>3
  <1>5. DOMAIN SubSeq(q, 1, i - 1) = 1..i - 1
    BY <1>3, <1>4, LenProperties
  <1>6. \A j \in 1..i - 1 : SubSeq(q, 1, i - 1)[j] = q[j]
    BY <1>1, <1>3
  <1> QED BY <1>1, <1>2, <1>3, <1>5, <1>6

LEMMA Pushing ==
  ASSUME NEW S, NEW q \in Seq(S), NEW x \in S
  PROVE  /\ Append(q, x) \in Seq(S)
         /\ DOMAIN Append(q, x) = DOMAIN q \cup {Len(q) + 1}
         /\ Len(q) + 1 \notin DOMAIN q
         /\ Append(q, x)[Len(q) + 1] = x
         /\ \A i \in DOMAIN q : Append(q, x)[i] = q[i]
  OBVIOUS

(* What that means for the idle sessions.                                  *)
LEMMA IdlesStay == UNCHANGED pool => Idles' = Idles /\ (NoTwins => NoTwins')
  BY DEF Idles, NoTwins

LEMMA SoundStay == UNCHANGED <<open, overtaken, evicted>> => Sound' = Sound
  BY DEF Sound

LEMMA IdlesAreSessions == TypeOK => Idles \subseteq Sessions
  BY DEF TypeOK, Idles

LEMMA IdlesArePopped ==
  ASSUME TypeOK, NEW i \in DOMAIN pool, pool' = SubSeq(pool, 1, i - 1)
  PROVE  /\ pool[i] \in Idles /\ Idles' \subseteq Idles
         /\ NoTwins => NoTwins' /\ pool[i] \notin Idles'
  <1>1. /\ DOMAIN pool' = 1..i - 1
        /\ \A j \in 1..i - 1 : j \in DOMAIN pool /\ j # i /\ pool'[j] = pool[j]
    BY Popping DEF TypeOK
  <1>2. \A x \in Idles' : \E j \in DOMAIN pool : j # i /\ x = pool[j]
    BY <1>1 DEF Idles
  <1>3. ASSUME NoTwins PROVE NoTwins' /\ pool[i] \notin Idles'
    <2>1. NoTwins'
      <3> SUFFICES ASSUME NEW j \in DOMAIN pool', NEW k \in DOMAIN pool', pool'[j] = pool'[k]
                   PROVE  j = k
        BY DEF NoTwins
      <3>1. j \in DOMAIN pool /\ k \in DOMAIN pool /\ pool[j] = pool[k]
        BY <1>1
      <3> QED BY <1>3, <3>1 DEF NoTwins
    <2>2. pool[i] \notin Idles'
      BY <1>2, <1>3 DEF NoTwins
    <2> QED BY <2>1, <2>2
  <1> QED BY <1>2, <1>3 DEF Idles

LEMMA IdlesArePushed ==
  ASSUME TypeOK, NEW x \in Sessions, pool' = Append(pool, x)
  PROVE  /\ Idles' = Idles \cup {x}
         /\ NoTwins /\ x \notin Idles => NoTwins'
  <1>1. /\ DOMAIN pool' = DOMAIN pool \cup {Len(pool) + 1}
        /\ Len(pool) + 1 \notin DOMAIN pool
        /\ pool'[Len(pool) + 1] = x
        /\ \A i \in DOMAIN pool : pool'[i] = pool[i]
    BY Pushing DEF TypeOK
  <1> QED BY <1>1 DEF Idles, NoTwins

----------------------------------------------------------------------------
(* Every step keeps the types. *)

Callers == [at : Opening \cup Execing \cup
                   {"idle", "waiting", "using", "releasing", "discarding"},
            name : Names \cup {Pool}, lock : Locks,
            s : 0..MaxSessions, tried : BOOLEAN, was : BOOLEAN,
            switched : BOOLEAN, met : BOOLEAN]

LEMMA IdleIsACaller == Idle \in Callers /\ 0 \in Locks /\ 0 \in 0..MaxSessions
  <1>1. Cardinality(Tasks) \in Nat /\ MaxSessions \in Nat /\ Default \in Names
    BY NameAssumption, FS_CardinalityType
  <1>2. 0 \in Locks /\ 0 \in 0..MaxSessions
    BY <1>1 DEF Locks
  <1> QED BY <1>1, <1>2 DEF Idle, Callers, None

(* A caller whose place and session change is a caller.                    *)
LEMMA CallersChange ==
  ASSUME NEW c \in Callers
  PROVE  /\ \A a \in Opening \cup Execing \cup
                    {"idle", "waiting", "using", "releasing", "discarding"} :
               /\ [c EXCEPT !.at = a] \in Callers
               /\ \A s \in 0..MaxSessions :
                     /\ [c EXCEPT !.at = a, !.s = s] \in Callers
                     /\ [c EXCEPT !.at = a, !.s = s, !.tried = TRUE] \in Callers
         /\ [c EXCEPT !.met = TRUE] \in Callers
  BY DEF Callers

(* What Shut does to the variables' types.                                 *)
LEMMA ShutTypes ==
  ASSUME TypeOK, NEW s, NEW D \in SUBSET Sessions, ShutAndDisplace(s, D)
  PROVE  /\ built' \in 0..MaxSessions
         /\ open' \subseteq 1..built' /\ living' \subseteq open'
         /\ told' \subseteq Sessions /\ other' \subseteq Sessions
         /\ nameOf' \in [Sessions -> Names \cup {Pool}]
         /\ overtaken' \subseteq Sessions /\ evicted' \subseteq Sessions
  BY DEF TypeOK, ShutAndDisplace

LEMMA NamedTypes == TypeOK => Named \subseteq Sessions
  <1> SUFFICES ASSUME TypeOK, NEW s \in Named PROVE s \in Sessions
    OBVIOUS
  <1>1. CASE s \in pooled
    BY <1>1 DEF TypeOK
  <1>2. CASE s \notin pooled
    <2>1. PICK n \in Names : s = slot[n] /\ s # 0
      BY <1>2 DEF Named, None
    <2> QED BY <2>1, NameAssumption DEF TypeOK, Sessions
  <1> QED BY <1>1, <1>2

LEMMA OpenAreSessions == TypeOK => open \subseteq Sessions /\ living \subseteq Sessions
  BY NameAssumption DEF TypeOK, Sessions

LEMMA ManagerTypes ==
  ASSUME TypeOK, OnlyBuiltAreKnown, CallersAreNamed, NewIsNobodyElses, [Next]_vars
  PROVE  TypeOK'
  <1>1. MaxSessions \in Nat /\ Default \in Names /\ Pool \notin Names
    BY NameAssumption
  <1>2. task \in [Tasks -> Callers]
    BY DEF TypeOK, Callers
  <1>3. Idle \in Callers /\ 0 \in Locks /\ None \in 0..MaxSessions
    BY IdleIsACaller DEF None
  <1>4. task' \in [Tasks -> Callers] =>
          (task \in [Tasks -> [at : Opening \cup Execing \cup
                                 {"idle", "waiting", "using", "releasing", "discarding"},
                           name : Names \cup {Pool}, lock : Locks,
                           s : 0..MaxSessions, tried : BOOLEAN, was : BOOLEAN,
                           switched : BOOLEAN, met : BOOLEAN]])'
    BY DEF Callers
  <1>5. ASSUME NEW t \in Tasks, NEW n \in Names, Want(t, n)
        PROVE  TypeOK'
    <2>1. CASE Alive(n)
      <3>1. [Idle EXCEPT !.at = "using", !.name = n, !.s = slot[n]] \in Callers
        BY <1>3 DEF TypeOK, Callers
      <3>2. task' \in [Tasks -> Callers]
        BY <1>2, <1>5, <2>1, <3>1 DEF Want, Finds
      <3> QED BY <1>4, <1>5, <2>1, <3>2 DEF TypeOK, Want, sessions, closeVars, historyVars
    <2>2. CASE ~Alive(n)
      <3> DEFINE used == {task[u].lock : u \in {v \in Tasks : task[v].name = n}}
                 fresh == CHOOSE l \in Locks \ {0} : l \notin used
                 mine == IF locks[n] = 0 THEN fresh ELSE locks[n]
                 after == [Idle EXCEPT !.at = "waiting", !.name = n, !.lock = mine,
                                       !.met = closer # "idle"]
      <3>1. fresh \in Locks
        BY ALockIsFree
      <3>2. mine \in Locks
        BY <3>1 DEF TypeOK
      <3>3. task' = [task EXCEPT ![t] = after] /\ locks' = [locks EXCEPT ![n] = mine]
        BY <1>5, <2>2 DEF Want
      <3> HIDE DEF mine
      <3>4. after \in Callers
        BY <1>3, <3>2 DEF Callers
      <3> HIDE DEF after
      <3>5. task' \in [Tasks -> Callers] /\ locks' \in [Names -> Locks]
        BY <1>2, <3>2, <3>3, <3>4 DEF TypeOK
      <3> QED BY <1>4, <1>5, <3>5 DEF TypeOK, Want, sessions, closeVars, historyVars
    <2> QED BY <2>1, <2>2
  <1>6. ASSUME NEW t \in Tasks, NEW user \in BOOLEAN, Exec(t, user)
        PROVE  TypeOK'
    <2>1. CASE LastAlive = {}
      <3>1. [Idle EXCEPT !.at = "building", !.name = Pool, !.switched = user,
                         !.met = closer # "idle"] \in Callers
        BY <1>3 DEF Callers, Opening
      <3>2. task' \in [Tasks -> Callers] /\ pool' \in Seq(Sessions)
        BY <1>2, <1>6, <2>1, <3>1 DEF Exec
      <3> QED BY <1>4, <1>6, <3>2 DEF TypeOK, Exec, sessions, closeVars, historyVars
    <2>2. CASE LastAlive # {}
      <3>1. PICK i \in LastAlive :
               /\ pool' = SubSeq(pool, 1, i - 1)
               /\ task' = [task EXCEPT ![t] =
                    [Idle EXCEPT !.at = IF user THEN "switching" ELSE "running", !.name = Pool,
                                 !.s = pool[i], !.was = pool[i] \in told, !.switched = user]]
        BY <1>6, <2>2 DEF Exec
      <3>2. pool' \in Seq(Sessions) /\ pool[i] \in Sessions
        BY <3>1, Popping DEF TypeOK, LastAlive
      <3>3. [Idle EXCEPT !.at = IF user THEN "switching" ELSE "running", !.name = Pool,
                         !.s = pool[i], !.was = pool[i] \in told, !.switched = user] \in Callers
        <4> DEFINE at == IF user THEN "switching" ELSE "running"
                   was == pool[i] \in told
        <4>1. at \in Execing /\ was \in BOOLEAN /\ pool[i] \in 0..MaxSessions
          BY <1>1, <3>2 DEF Execing, Sessions
        <4> HIDE DEF at, was
        <4>2. [Idle EXCEPT !.at = at, !.name = Pool, !.s = pool[i], !.was = was,
                           !.switched = user] \in Callers
          BY <1>3, <4>1 DEF Callers
        <4> QED BY <4>2 DEF at, was
      <3>4. task' \in [Tasks -> Callers]
        BY <1>2, <3>1, <3>3
      <3> QED BY <1>4, <1>6, <3>2, <3>4 DEF TypeOK, Exec, sessions, closeVars, historyVars
    <2> QED BY <2>1, <2>2
  <1>7. ASSUME NEW t \in Tasks, Acquire(t)
        PROVE  TypeOK'
    <2> DEFINE n == task[t].name
    <2>1. n \in Names /\ slot[n] \in 0..MaxSessions
      BY <1>2, <1>7 DEF TypeOK, CallersAreNamed, Acquire, Callers
    <2>2. [Idle EXCEPT !.at = "using", !.name = n, !.s = slot[n]] \in Callers
      BY <1>3, <2>1 DEF Callers
    <2>3. /\ [task[t] EXCEPT !.at = "retiring", !.s = slot[n]] \in Callers
          /\ [task[t] EXCEPT !.at = "building"] \in Callers
      BY <1>2, <2>1, CallersChange DEF Opening
    <2>4. task' \in [Tasks -> Callers]
      BY <1>2, <1>7, <2>2, <2>3 DEF Acquire, Finds, Goes
    <2> QED BY <1>4, <1>7, <2>4 DEF TypeOK, Acquire, registry, sessions, closeVars, historyVars
  <1>8. ASSUME NEW t \in Tasks, Retire(t)
        PROVE  TypeOK'
    <2>1. task' \in [Tasks -> Callers]
      BY <1>2, <1>3, <1>8, CallersChange DEF Retire, Opening
    <2> QED BY <1>4, <1>8, <2>1, ShutTypes DEF TypeOK, Retire, Shut, registry, closeVars
  <1>9. ASSUME NEW t \in Tasks, Build(t)
        PROVE  TypeOK'
    <2>1. CASE Ends(t) /\ UNCHANGED <<built, open>>
      <3>1. task' \in [Tasks -> Callers]
        BY <1>2, <1>3, <2>1 DEF Ends
      <3> QED BY <1>4, <1>9, <2>1, <3>1 DEF TypeOK, Build, registry, closeVars, historyVars
    <2>2. CASE /\ built < MaxSessions
               /\ built' = built + 1 /\ open' = open \cup {built'}
               /\ task' = [task EXCEPT ![t].at = "landing", ![t].s = built']
      <3>1. built' \in 0..MaxSessions /\ open' \subseteq 1..built'
        BY <1>1, <2>2 DEF TypeOK
      <3>2. task' \in [Tasks -> Callers]
        BY <1>2, <2>2, <3>1, CallersChange DEF Opening
      <3> QED BY <1>4, <1>9, <2>2, <3>1, <3>2 DEF TypeOK, Build, registry, closeVars, historyVars
    <2> QED BY <1>9, <2>1, <2>2 DEF Build
  <1>10. ASSUME NEW t \in Tasks, Land(t)
         PROVE  TypeOK'
    <2> DEFINE n == task[t].name
               s == task[t].s
    <2>1. s \in open /\ s \in Sessions /\ n \in Names \cup {Pool} /\ s \in 0..MaxSessions
      BY <1>1, <1>2, <1>10 DEF TypeOK, NewIsNobodyElses, Opens, Land, Callers, Sessions
    <2>2. task' \in [Tasks -> Callers]
      <3>1. CASE n = Pool
        <4> DEFINE at == IF task[t].switched THEN "switching" ELSE "running"
        <4>1. at \in Execing /\ task' = [task EXCEPT ![t].at = at]
          BY <1>10, <3>1 DEF Land, Execing
        <4> HIDE DEF at
        <4> QED BY <1>2, <4>1, CallersChange
      <3>2. CASE n # Pool
        <4>1. [Idle EXCEPT !.at = "using", !.name = n, !.s = s] \in Callers
          BY <1>3, <2>1, <3>2 DEF Callers
        <4> QED BY <1>2, <1>10, <3>2, <4>1 DEF Land, Finds
      <3> QED BY <3>1, <3>2
    <2>3. living' \subseteq open' /\ open' \subseteq 1..built' /\ built' \in 0..MaxSessions
      BY <1>10, <2>1 DEF TypeOK, Land
    <2>4. nameOf' \in [Sessions -> Names \cup {Pool}] /\ overtaken' \subseteq Sessions
      BY <1>10, <2>1 DEF TypeOK, Land
    <2>5. evicted' \subseteq Sessions
      BY <1>1, <1>10, <2>1 DEF TypeOK, Land, Sessions
    <2>6. slot' \in [Names -> 0..MaxSessions] /\ pooled' \subseteq Sessions
      BY <1>10, <2>1 DEF TypeOK, Land
    <2> QED BY <1>4, <1>10, <2>2, <2>3, <2>4, <2>5, <2>6 DEF TypeOK, Land, closeVars
  <1>11. ASSUME NEW t \in Tasks, FailLanding(t) \/ Release(t)
         PROVE  TypeOK'
    <2>1. task' \in [Tasks -> Callers]
      <3>1. PICK at \in {"failing", "releasing"} : task' = [task EXCEPT ![t].at = at]
        BY <1>11 DEF FailLanding, Release, Goes
      <3> QED BY <1>2, <3>1, CallersChange DEF Opening
    <2> QED BY <1>4, <1>11, <2>1
        DEF TypeOK, FailLanding, Release, registry, sessions, closeVars, historyVars
  <1>12. ASSUME NEW t \in Tasks, Failed(t)
         PROVE  TypeOK'
    <2>1. task' \in [Tasks -> Callers]
      <3>1. CASE Ends(t)
        BY <1>2, <1>3, <3>1 DEF Ends
      <3>2. CASE task' = [task EXCEPT ![t].at = "building", ![t].s = None, ![t].tried = TRUE]
        BY <1>2, <1>3, <3>2, CallersChange DEF Opening
      <3> QED BY <1>12, <3>1, <3>2 DEF Failed
    <2> QED BY <1>4, <1>12, <2>1, ShutTypes DEF TypeOK, Failed, Shut, registry, closeVars
  <1>13. ASSUME NEW t \in Tasks, LetBe(t)
         PROVE  TypeOK'
    <2>1. task' \in [Tasks -> Callers]
      BY <1>2, <1>3, <1>13 DEF LetBe, Ends
    <2> QED BY <1>4, <1>13, <2>1 DEF TypeOK, LetBe, registry, sessions, closeVars, historyVars
  <1>14. ASSUME NEW t \in Tasks, Released(t)
         PROVE  TypeOK'
    <2>1. task' \in [Tasks -> Callers]
      BY <1>2, <1>3, <1>14 DEF Released, Ends
    <2>2. slot' \in [Names -> 0..MaxSessions]
      BY <1>3, <1>14 DEF TypeOK, Released
    <2>3. {slot[task[t].name]} \cap open \in SUBSET Sessions
      BY OpenAreSessions
    <2> QED BY <1>4, <1>14, <2>1, <2>2, <2>3, ShutTypes DEF TypeOK, Released, closeVars
  <1>15. ASSUME NEW t \in Tasks, NEW ok, NEW as, GiveBack(t, ok, as)
         PROVE  task' \in [Tasks -> Callers] /\ pool' \in Seq(Sessions)
    <2>1. CASE Discards(t)
      BY <1>2, <2>1, CallersChange DEF TypeOK, Discards, Goes
    <2>2. CASE task[t].s \in living /\ pool' = Append(pool, task[t].s) /\ Ends(t)
      <3>1. task[t].s \in Sessions
        BY <2>2, OpenAreSessions
      <3>2. pool' \in Seq(Sessions)
        BY <2>2, <3>1, Pushing DEF TypeOK
      <3> QED BY <1>2, <1>3, <2>2, <3>2 DEF Ends
    <2> QED BY <1>15, <2>1, <2>2 DEF GiveBack
  <1>16. ASSUME NEW t \in Tasks, NEW where \in Execing, Goes(t, where), UNCHANGED pool
         PROVE  task' \in [Tasks -> Callers] /\ pool' \in Seq(Sessions)
    BY <1>2, <1>16, CallersChange DEF Goes, TypeOK
  <1>17. \A t \in Tasks : task[t].at \in Execing => task[t].s \in Sessions
    BY <1>1, <1>2 DEF CallersAreNamed, Callers, Sessions, None
  <1>18. ASSUME NEW t \in Tasks, Switch(t)
         PROVE  TypeOK'
    <2>1. task' \in [Tasks -> Callers] /\ pool' \in Seq(Sessions)
      BY <1>15, <1>16, <1>18 DEF Switch, Execing
    <2>2. told' \subseteq Sessions /\ other' \subseteq Sessions
      BY <1>17, <1>18 DEF TypeOK, Switch, Execing
    <2> QED BY <1>4, <1>18, <2>1, <2>2 DEF TypeOK, Switch, closeVars, historyVars
  <1>19. ASSUME NEW t \in Tasks, Ran(t)
         PROVE  TypeOK'
    <2>1. task' \in [Tasks -> Callers] /\ pool' \in Seq(Sessions)
      BY <1>15, <1>16, <1>19 DEF Ran, Execing
    <2> QED BY <1>4, <1>19, <2>1 DEF TypeOK, Ran, sessions, closeVars, historyVars
  <1>20. ASSUME NEW t \in Tasks, Undo(t)
         PROVE  TypeOK'
    <2>1. task' \in [Tasks -> Callers] /\ pool' \in Seq(Sessions)
      BY <1>15, <1>16, <1>20 DEF Undo, Execing
    <2>2. told' \subseteq Sessions /\ other' \subseteq Sessions
      BY <1>20 DEF TypeOK, Undo
    <2> QED BY <1>4, <1>20, <2>1, <2>2 DEF TypeOK, Undo, closeVars, historyVars
  <1>21. ASSUME NEW t \in Tasks, Discarded(t)
         PROVE  TypeOK'
    <2>1. task' \in [Tasks -> Callers]
      BY <1>2, <1>3, <1>21 DEF Discarded, Ends
    <2>2. pooled' \subseteq Sessions
      BY <1>21 DEF TypeOK, Discarded
    <2> QED BY <1>4, <1>21, <2>1, <2>2, ShutTypes DEF TypeOK, Discarded, Shut, closeVars
  <1>22. ASSUME NEW s \in Sessions, Die(s)
         PROVE  TypeOK'
    BY <1>22 DEF TypeOK, Die, registry, closeVars, historyVars
  <1>23. ASSUME NEW s \in Sessions, NamedClosed(s)
         PROVE  TypeOK'
    <2>1. slot' \in [Names -> 0..MaxSessions] /\ pooled' \subseteq Sessions
      BY <1>3, <1>23 DEF TypeOK, NamedClosed
    <2>2. closing' \subseteq Sessions
      BY <1>23 DEF TypeOK, NamedClosed
    <2> QED BY <1>23, <2>1, <2>2, ShutTypes DEF TypeOK, NamedClosed, Shut
  <1>24. ASSUME NEW now \in [Names -> 0..MaxSessions], CloseNamed(now, Named)
         PROVE  /\ closer' \in {"idle", "default", "named"} /\ closing' \subseteq Sessions
                /\ slot' \in [Names -> 0..MaxSessions] /\ pooled' \subseteq Sessions
                /\ locks' \in [Names -> Locks]
    <2>1. 1 \in Locks
      <3>1. Cardinality(Tasks) \in Nat
        BY NameAssumption, FS_CardinalityType
      <3> QED BY <3>1 DEF Locks
    <2> QED BY <1>3, <1>24, <2>1, NamedTypes DEF TypeOK, CloseNamed
  <1>25. CASE CloseAll
    <2>1. task' \in [Tasks -> Callers]
      BY <1>2, <1>25, CallersChange DEF CloseAll, Meet
    <2>2. CASE slot[Default] # None
      <3>1. slot[Default] \in Sessions
        BY <1>1, <2>2 DEF TypeOK, Sessions, None
      <3> QED BY <1>4, <1>25, <2>1, <2>2, <3>1 DEF TypeOK, CloseAll, sessions, historyVars
    <2>3. CASE slot[Default] = None
      <3>1. slot \in [Names -> 0..MaxSessions] /\ CloseNamed(slot, Named)
        BY <1>25, <2>3 DEF TypeOK, CloseAll
      <3> QED BY <1>4, <1>24, <1>25, <2>1, <3>1 DEF TypeOK, CloseAll, sessions, historyVars
    <2> QED BY <2>2, <2>3
  <1>26. CASE DefaultClosed
    <2>1. [slot EXCEPT ![Default] = None] \in [Names -> 0..MaxSessions]
      BY <1>3 DEF TypeOK
    <2>2. CloseNamed([slot EXCEPT ![Default] = None], Named)
      BY <1>26 DEF DefaultClosed
    <2> QED BY <1>24, <1>26, <2>1, <2>2, ShutTypes DEF TypeOK, DefaultClosed, Shut
  <1>27. CASE Cleared
    <2>1. slot' \in [Names -> 0..MaxSessions] /\ pooled' \subseteq Sessions
      BY <1>3, <1>27 DEF TypeOK, Cleared
    <2>2. locks' \in [Names -> Locks]
      <3>1. Cardinality(Tasks) \in Nat
        BY NameAssumption, FS_CardinalityType
      <3> QED BY <1>3, <1>27, <3>1 DEF Cleared, Locks
    <2> QED BY <1>27, <2>1, <2>2 DEF TypeOK, Cleared, sessions, historyVars
  <1>28. CASE UNCHANGED vars
    BY <1>28 DEF TypeOK, vars, registry, sessions, closeVars, historyVars
  <1> QED BY <1>5, <1>6, <1>7, <1>8, <1>9, <1>10, <1>11, <1>12, <1>13, <1>14, <1>18, <1>19, <1>20,
             <1>21, <1>22, <1>23, <1>25, <1>26, <1>27, <1>28
          DEF Next, TaskStep

----------------------------------------------------------------------------
(* What each action does to its caller's locals, and Shut to the sessions. *)

(* One caller moves, with a name and a session in hand.                    *)
Becomes(t, a, n, s) ==
    /\ \A u \in Tasks : u # t => task'[u] = task[u]
    /\ task'[t].at = a /\ task'[t].name = n /\ task'[t].s = s

Keeps(t) ==
    /\ task'[t].lock = task[t].lock /\ task'[t].met = task[t].met
    /\ task'[t].was = task[t].was /\ task'[t].switched = task[t].switched

LEMMA ShutDoes ==
  ASSUME TypeOK, NEW s, NEW D, ShutAndDisplace(s, D)
  PROVE  /\ open' = open \ {s} /\ living' = living \ {s} /\ built' = built
         /\ told' = told \ {s} /\ other' = other \ {s}
         /\ Sound' = Sound \ ({s} \cup D)
         /\ \A x \in Sessions : nameOf'[x] = IF x = s THEN Pool ELSE nameOf[x]
  BY DEF TypeOK, ShutAndDisplace, Sound

(* The fields of a caller in a new place, of one with another session, and *)
(* of one that starts anew.                                                *)
LEMMA CallerFields ==
  ASSUME TypeOK, NEW t \in Tasks
  PROVE  /\ task[t].at \in Opening \cup Execing \cup
                    {"idle", "waiting", "using", "releasing", "discarding"}
         /\ task[t].name \in Names \cup {Pool}
         /\ task[t].s \in 0..MaxSessions
         /\ \A a : task' = [task EXCEPT ![t].at = a] =>
               Becomes(t, a, task[t].name, task[t].s) /\ Keeps(t)
         /\ \A a, s : task' = [task EXCEPT ![t].at = a, ![t].s = s] =>
               Becomes(t, a, task[t].name, s) /\ Keeps(t)
         /\ \A a, s : task' = [task EXCEPT ![t].at = a, ![t].s = s, ![t].tried = TRUE] =>
               Becomes(t, a, task[t].name, s) /\ Keeps(t)
         /\ Ends(t) => Becomes(t, "idle", Default, None) /\ ~task'[t].was
         /\ \A n, s : Finds(t, n, s) => Becomes(t, "using", n, s) /\ ~task'[t].was
  <1>1. task \in [Tasks -> Callers]
    BY DEF TypeOK, Callers
  <1>2. task[t].at \in Opening \cup Execing \cup
                    {"idle", "waiting", "using", "releasing", "discarding"}
        /\ task[t].name \in Names \cup {Pool}
        /\ task[t].s \in 0..MaxSessions
    BY <1>1 DEF Callers
  <1>3. ASSUME NEW a, task' = [task EXCEPT ![t].at = a]
        PROVE  Becomes(t, a, task[t].name, task[t].s) /\ Keeps(t)
    BY <1>1, <1>3 DEF Callers, Becomes, Keeps
  <1>4. ASSUME NEW a, NEW s, task' = [task EXCEPT ![t].at = a, ![t].s = s]
        PROVE  Becomes(t, a, task[t].name, s) /\ Keeps(t)
    BY <1>1, <1>4 DEF Callers, Becomes, Keeps
  <1>5. ASSUME NEW a, NEW s, task' = [task EXCEPT ![t].at = a, ![t].s = s, ![t].tried = TRUE]
        PROVE  Becomes(t, a, task[t].name, s) /\ Keeps(t)
    BY <1>1, <1>5 DEF Callers, Becomes, Keeps
  <1>6. ASSUME Ends(t) PROVE Becomes(t, "idle", Default, None) /\ ~task'[t].was
    BY <1>1, <1>6 DEF Ends, Becomes, Idle
  <1>7. ASSUME NEW n, NEW s, Finds(t, n, s)
        PROVE  Becomes(t, "using", n, s) /\ ~task'[t].was
    BY <1>1, <1>7 DEF Finds, Becomes, Idle
  <1> QED BY <1>2, <1>3, <1>4, <1>5, <1>6, <1>7

LEMMA WantDoes ==
  ASSUME TypeOK, NEW t \in Tasks, NEW n \in Names, Want(t, n)
  PROVE  /\ task[t].at = "idle" /\ ~task'[t].was
         /\ UNCHANGED <<slot, pooled, pool, built, open, living, told, other, closer, closing,
                        nameOf, overtaken, evicted>>
         /\ \/ /\ slot[n] \in living
               /\ Becomes(t, "using", n, slot[n])
               /\ UNCHANGED locks
            \/ /\ Becomes(t, "waiting", n, None)
               /\ task'[t].met <=> closer # "idle"
               /\ task'[t].lock # 0 /\ task'[t].lock = locks'[n]
               /\ \A m \in Names : locks[m] # 0 => locks'[m] = locks[m]
  <1>1. UNCHANGED <<slot, pooled, pool, built, open, living, told, other, closer, closing,
                    nameOf, overtaken, evicted>>
    BY DEF Want, sessions, closeVars, historyVars
  <1>2. task[t].at = "idle" /\ task \in [Tasks -> Callers]
    BY DEF Want, TypeOK, Callers
  <1>3. CASE Alive(n)
    BY <1>1, <1>2, <1>3, CallerFields DEF Want, Alive
  <1>4. CASE ~Alive(n)
    <2> DEFINE used == {task[u].lock : u \in {v \in Tasks : task[v].name = n}}
               fresh == CHOOSE l \in Locks \ {0} : l \notin used
               mine == IF locks[n] = 0 THEN fresh ELSE locks[n]
    <2>1. fresh \in Locks \ {0}
      BY ALockIsFree
    <2>2. mine # 0 /\ (locks[n] # 0 => mine = locks[n])
      BY <2>1 DEF TypeOK
    <2>3. /\ locks' = [locks EXCEPT ![n] = mine]
          /\ task' = [task EXCEPT ![t] = [Idle EXCEPT !.at = "waiting", !.name = n,
                                          !.lock = mine, !.met = closer # "idle"]]
      BY <1>4 DEF Want
    <2> HIDE DEF mine
    <2>4. locks'[n] = mine /\ \A m \in Names : locks[m] # 0 => locks'[m] = locks[m]
      BY <2>2, <2>3 DEF TypeOK
    <2> DEFINE met == closer # "idle"
    <2>5. task' = [task EXCEPT ![t] = [Idle EXCEPT !.at = "waiting", !.name = n,
                                          !.lock = mine, !.met = met]]
      BY <2>3
    <2> HIDE DEF met
    <2>6. Becomes(t, "waiting", n, None) /\ task'[t].met = met /\ ~task'[t].was
          /\ task'[t].lock = mine
      BY <1>2, <2>5 DEF Idle, Becomes
    <2> QED BY <1>1, <1>2, <2>2, <2>4, <2>6 DEF met
  <1> QED BY <1>3, <1>4

LEMMA ExecDoes ==
  ASSUME TypeOK, NEW t \in Tasks, NEW user \in BOOLEAN, Exec(t, user)
  PROVE  /\ task[t].at = "idle"
         /\ UNCHANGED <<slot, pooled, locks, built, open, living, told, other, closer, closing,
                        nameOf, overtaken, evicted>>
         /\ \/ /\ Idles' = {} /\ NoTwins'
               /\ Becomes(t, "building", Pool, None) /\ ~task'[t].was
               /\ task'[t].met <=> closer # "idle"
            \/ \E s \in Idles :
               /\ s \in living /\ s # None
               /\ Idles' \subseteq Idles /\ (NoTwins => NoTwins' /\ s \notin Idles')
               /\ task'[t].was <=> s \in told
               /\ \/ Becomes(t, "switching", Pool, s) /\ task'[t].switched
                  \/ Becomes(t, "running", Pool, s) /\ ~task'[t].switched
  <1>1. UNCHANGED <<slot, pooled, locks, built, open, living, told, other, closer, closing,
                    nameOf, overtaken, evicted>>
    BY DEF Exec, sessions, closeVars, historyVars
  <1>2. task[t].at = "idle" /\ task \in [Tasks -> Callers]
    BY DEF Exec, TypeOK, Callers
  <1>3. CASE LastAlive = {}
    <2> DEFINE met == closer # "idle"
    <2>1. /\ pool' = <<>>
          /\ task' = [task EXCEPT ![t] = [Idle EXCEPT !.at = "building", !.name = Pool,
                                            !.switched = user, !.met = met]]
      BY <1>3 DEF Exec
    <2> HIDE DEF met
    <2>2. Becomes(t, "building", Pool, None) /\ task'[t].met = met /\ ~task'[t].was
      BY <1>2, <2>1 DEF Idle, Becomes
    <2>3. Idles' = {} /\ NoTwins'
      BY <2>1 DEF Idles, NoTwins
    <2> QED BY <1>1, <1>2, <2>2, <2>3 DEF met
  <1>4. CASE LastAlive # {}
    <2>1. PICK i \in LastAlive :
               /\ pool' = SubSeq(pool, 1, i - 1)
               /\ task' = [task EXCEPT ![t] =
                    [Idle EXCEPT !.at = IF user THEN "switching" ELSE "running", !.name = Pool,
                                 !.s = pool[i], !.was = pool[i] \in told, !.switched = user]]
      BY <1>4 DEF Exec
    <2>2. i \in DOMAIN pool /\ pool[i] \in living
      BY DEF LastAlive
    <2> DEFINE at == IF user THEN "switching" ELSE "running"
               was == pool[i] \in told
    <2>3. task' = [task EXCEPT ![t] = [Idle EXCEPT !.at = at, !.name = Pool,
                                 !.s = pool[i], !.was = was, !.switched = user]]
      BY <2>1
    <2> HIDE DEF at, was
    <2>4. Becomes(t, at, Pool, pool[i]) /\ task'[t].was = was /\ task'[t].switched = user
      BY <1>2, <2>3 DEF Idle, Becomes
    <2>5. /\ pool[i] \in Idles /\ Idles' \subseteq Idles
          /\ NoTwins => NoTwins' /\ pool[i] \notin Idles'
      BY <2>1, <2>2, IdlesArePopped
    <2>6. pool[i] # None
      BY <2>5, IdlesAreSessions DEF Sessions, None
    <2>7. /\ task'[t].was <=> pool[i] \in told
          /\ \/ Becomes(t, "switching", Pool, pool[i]) /\ task'[t].switched
             \/ Becomes(t, "running", Pool, pool[i]) /\ ~task'[t].switched
      BY <2>4 DEF at, was
    <2> QED BY <1>1, <1>2, <2>2, <2>5, <2>6, <2>7
  <1> QED BY <1>3, <1>4

LEMMA AcquireDoes ==
  ASSUME TypeOK, NEW t \in Tasks, Acquire(t)
  PROVE  LET n == task[t].name
         IN  /\ task[t].at = "waiting" /\ Free(n, task[t].lock)
             /\ UNCHANGED <<slot, pooled, pool, locks, built, open, living, told, other,
                            closer, closing, nameOf, overtaken, evicted>>
             /\ \/ Becomes(t, "using", n, slot[n]) /\ slot[n] \in living /\ ~task'[t].was
                \/ Becomes(t, "retiring", n, slot[n]) /\ Keeps(t) /\ slot[n] \notin living
                \/ Becomes(t, "building", n, task[t].s) /\ Keeps(t) /\ slot[n] = None
  <1>1. UNCHANGED <<slot, pooled, pool, locks, built, open, living, told, other, closer, closing,
                    nameOf, overtaken, evicted>>
    BY DEF Acquire, registry, sessions, closeVars, historyVars
  <1>2. task[t].at = "waiting" /\ Free(task[t].name, task[t].lock)
    BY DEF Acquire
  <1>3. CASE Alive(task[t].name)
    <2>1. Finds(t, task[t].name, slot[task[t].name])
      BY <1>3 DEF Acquire
    <2> QED BY <1>1, <1>2, <1>3, <2>1, CallerFields DEF Alive
  <1>4. CASE ~Alive(task[t].name) /\ slot[task[t].name] # None
    <2>1. task' = [task EXCEPT ![t].at = "retiring", ![t].s = slot[task[t].name]]
      BY <1>4 DEF Acquire
    <2> QED BY <1>1, <1>2, <1>4, <2>1, CallerFields DEF Alive
  <1>5. CASE ~Alive(task[t].name) /\ slot[task[t].name] = None
    <2>1. task' = [task EXCEPT ![t].at = "building"]
      BY <1>5 DEF Acquire, Goes
    <2> QED BY <1>1, <1>2, <1>5, <2>1, CallerFields DEF Alive
  <1> QED BY <1>3, <1>4, <1>5

(* The borrowed session goes back to the pool only if it is as it came.    *)
LEMMA GiveBackDoes ==
  ASSUME TypeOK, NEW t \in Tasks, NEW ok, NEW as, GiveBack(t, ok, as)
  PROVE  \/ /\ task[t].s \in living /\ ok /\ as = task[t].was
            /\ pool' = Append(pool, task[t].s)
            /\ Becomes(t, "idle", Default, None) /\ ~task'[t].was
         \/ /\ UNCHANGED pool
            /\ Becomes(t, "discarding", task[t].name, task[t].s) /\ Keeps(t)
  BY CallerFields DEF GiveBack, Discards, Goes

LEMMA RetireDoes ==
  ASSUME TypeOK, NEW t \in Tasks, Retire(t)
  PROVE  LET s == task[t].s
         IN  /\ task[t].at = "retiring" /\ Becomes(t, "building", task[t].name, None) /\ Keeps(t)
             /\ open' = open \ {s} /\ living' = living \ {s} /\ built' = built
             /\ told' = told \ {s} /\ other' = other \ {s} /\ Sound' = Sound \ {s}
             /\ \A x \in Sessions : nameOf'[x] = IF x = s THEN Pool ELSE nameOf[x]
             /\ UNCHANGED <<slot, pooled, pool, locks, closer, closing>>
  <1>1. Becomes(t, "building", task[t].name, None) /\ Keeps(t)
    BY CallerFields, Zenon DEF Retire
  <1> QED BY <1>1, ShutDoes DEF Retire, Shut, registry, closeVars

LEMMA BuildDoes ==
  ASSUME TypeOK, NEW t \in Tasks, Build(t)
  PROVE  /\ task[t].at = "building"
         /\ UNCHANGED <<living, told, other, slot, pooled, pool, locks, closer, closing, nameOf,
                        overtaken, evicted>>
         /\ \/ /\ built' = built + 1 /\ built' \in Sessions /\ open' = open \cup {built'}
               /\ Sound' \subseteq Sound \cup {built'}
               /\ Becomes(t, "landing", task[t].name, built') /\ Keeps(t)
            \/ /\ UNCHANGED <<built, open>> /\ Sound' = Sound
               /\ Becomes(t, "idle", Default, None) /\ ~task'[t].was
  <1>1. UNCHANGED <<living, told, other, slot, pooled, pool, locks, closer, closing, nameOf,
                    overtaken, evicted>>
    BY DEF Build, registry, closeVars, historyVars
  <1>2. CASE /\ built < MaxSessions
             /\ built' = built + 1 /\ open' = open \cup {built'}
             /\ task' = [task EXCEPT ![t].at = "landing", ![t].s = built']
    <2>1. built' \in Sessions
      BY <1>2, NameAssumption DEF TypeOK, Sessions
    <2>2. Becomes(t, "landing", task[t].name, built') /\ Keeps(t)
      BY <1>2, CallerFields
    <2> QED BY <1>1, <1>2, <2>1, <2>2 DEF Build, Sound
  <1>3. CASE Ends(t) /\ UNCHANGED <<built, open>>
    BY <1>1, <1>3, CallerFields DEF Build, Sound
  <1> QED BY <1>2, <1>3 DEF Build

LEMMA LandDoes ==
  ASSUME TypeOK, NewIsNobodyElses, NEW t \in Tasks, Land(t)
  PROVE  LET n == task[t].name
             s == task[t].s
         IN  /\ task[t].at = "landing" /\ s \in open /\ s \in Sessions
             /\ UNCHANGED <<pool, locks, built, open, told, other, closer, closing>>
             /\ living' = living \cup {s}
             /\ \A x \in Sessions : nameOf'[x] = IF x = s THEN n ELSE nameOf[x]
             /\ \/ /\ n = Pool
                   /\ pooled' = pooled \cup {s} /\ slot' = slot
                   /\ \/ Becomes(t, "switching", Pool, s) /\ Keeps(t) /\ task[t].switched
                      \/ Becomes(t, "running", Pool, s) /\ Keeps(t) /\ ~task[t].switched
                \/ /\ n \in Names /\ n # Pool
                   /\ \A m \in Names : slot'[m] = IF m = n THEN s ELSE slot[m]
                   /\ pooled' = pooled
                   /\ Becomes(t, "using", n, s) /\ ~task'[t].was
             /\ \/ ~task[t].met /\ Sound' = Sound
                \/ task[t].met /\ n = Pool /\ Sound' = Sound \ {s}
                \/ task[t].met /\ n # Pool /\ Sound' = Sound \ {s, slot[n]}
  <1> DEFINE n == task[t].name
             s == task[t].s
  <1>1. task[t].at = "landing" /\ s \in open /\ s \in Sessions /\ n \in Names \cup {Pool}
    BY CallerFields, OpenAreSessions DEF Land, NewIsNobodyElses, Opens
  <1>2. UNCHANGED <<pool, locks, built, open, told, other, closer, closing>> /\ living' = living \cup {s}
        /\ \A x \in Sessions : nameOf'[x] = IF x = s THEN n ELSE nameOf[x]
    BY <1>1 DEF Land, closeVars, TypeOK
  <1>3. CASE n = Pool
    <2>1. pooled' = pooled \cup {s} /\ slot' = slot
      BY <1>3 DEF Land
    <2> DEFINE at == IF task[t].switched THEN "switching" ELSE "running"
    <2>2. task' = [task EXCEPT ![t].at = at]
      BY <1>3 DEF Land
    <2> HIDE DEF at
    <2>3. Becomes(t, at, Pool, s) /\ Keeps(t)
      BY <1>3, <2>2, CallerFields
    <2>4. \/ Becomes(t, "switching", Pool, s) /\ Keeps(t) /\ task[t].switched
          \/ Becomes(t, "running", Pool, s) /\ Keeps(t) /\ ~task[t].switched
      BY <2>3 DEF at
    <2>5. CASE task[t].met
      BY <1>1, <1>2, <1>3, <2>1, <2>4, <2>5 DEF Land, Sound
    <2>6. CASE ~task[t].met
      BY <1>1, <1>2, <1>3, <2>1, <2>4, <2>6 DEF Land, Sound
    <2> QED BY <2>5, <2>6
  <1>4. CASE n # Pool
    <2>1. pooled' = pooled /\ \A m \in Names : slot'[m] = IF m = n THEN s ELSE slot[m]
      BY <1>1, <1>4 DEF Land, TypeOK
    <2>2. Becomes(t, "using", n, s) /\ ~task'[t].was
      BY <1>4, CallerFields DEF Land
    <2>3. CASE task[t].met
      <3>1. Sound' = Sound \ {s, slot[n]}
        BY <1>2, <1>4, <2>3 DEF Land, Sound
      <3> QED BY <1>1, <1>2, <1>4, <2>1, <2>2, <2>3, <3>1
    <2>4. CASE ~task[t].met
      <3>1. Sound' = Sound
        BY <1>2, <1>4, <2>4 DEF Land, Sound
      <3> QED BY <1>1, <1>2, <1>4, <2>1, <2>2, <2>4, <3>1
    <2> QED BY <2>3, <2>4
  <1> QED BY <1>3, <1>4

(* The actions by which only a caller moves.                               *)
LEMMA CallerMovesOn ==
  ASSUME TypeOK, NEW t \in Tasks, FailLanding(t) \/ LetBe(t) \/ Release(t)
  PROVE  /\ UNCHANGED <<slot, pooled, pool, locks, built, open, living, told, other,
                        closer, closing, nameOf, overtaken, evicted>>
         /\ \/ task[t].at = "landing" /\ Becomes(t, "failing", task[t].name, task[t].s) /\ Keeps(t)
            \/ task[t].at = "using" /\ Becomes(t, "releasing", task[t].name, task[t].s) /\ Keeps(t)
            \/ task[t].at = "using" /\ Becomes(t, "idle", Default, None) /\ ~task'[t].was
  BY CallerFields
  DEF FailLanding, LetBe, Release, Goes, registry, sessions, closeVars, historyVars

LEMMA FailedDoes ==
  ASSUME TypeOK, NEW t \in Tasks, Failed(t)
  PROVE  LET s == task[t].s
         IN  /\ task[t].at = "failing"
             /\ \/ Becomes(t, "idle", Default, None) /\ ~task'[t].was
                \/ Becomes(t, "building", task[t].name, None) /\ Keeps(t)
             /\ open' = open \ {s} /\ living' = living \ {s} /\ built' = built
             /\ told' = told \ {s} /\ other' = other \ {s} /\ Sound' = Sound \ {s}
             /\ \A x \in Sessions : nameOf'[x] = IF x = s THEN Pool ELSE nameOf[x]
             /\ UNCHANGED <<slot, pooled, pool, locks, closer, closing>>
  <1>1. \/ Becomes(t, "idle", Default, None) /\ ~task'[t].was
        \/ Becomes(t, "building", task[t].name, None) /\ Keeps(t)
    <2>1. CASE Ends(t)
      BY <2>1, CallerFields
    <2>2. CASE task' = [task EXCEPT ![t].at = "building", ![t].s = None, ![t].tried = TRUE]
      BY <2>2, CallerFields
    <2> QED BY <2>1, <2>2 DEF Failed
  <1> QED BY <1>1, ShutDoes DEF Failed, Shut, registry, closeVars

LEMMA ReleasedDoes ==
  ASSUME TypeOK, CallersAreNamed, NEW t \in Tasks, Released(t)
  PROVE  LET n == task[t].name
             s == task[t].s
         IN  /\ task[t].at = "releasing" /\ Becomes(t, "idle", Default, None) /\ ~task'[t].was
             /\ n \in Names
             /\ open' = open \ {s} /\ living' = living \ {s} /\ built' = built
             /\ told' = told \ {s} /\ other' = other \ {s} /\ Sound' = Sound \ {s, slot[n]}
             /\ \A x \in Sessions : nameOf'[x] = IF x = s THEN Pool ELSE nameOf[x]
             /\ \A m \in Names : slot'[m] = IF m = n THEN None ELSE slot[m]
             /\ UNCHANGED <<pooled, pool, locks, closer, closing>>
  <1> DEFINE n == task[t].name
             s == task[t].s
             D == {slot[n]} \cap open
  <1>1. task[t].at = "releasing" /\ Becomes(t, "idle", Default, None) /\ ~task'[t].was /\ n \in Names
    BY CallerFields DEF Released, CallersAreNamed
  <1>2. ShutAndDisplace(s, D)
    BY DEF Released
  <1>3. /\ open' = open \ {s} /\ living' = living \ {s} /\ built' = built
        /\ told' = told \ {s} /\ other' = other \ {s} /\ Sound' = Sound \ ({s} \cup D)
        /\ \A x \in Sessions : nameOf'[x] = IF x = s THEN Pool ELSE nameOf[x]
    BY <1>2, ShutDoes
  <1>4. Sound' = Sound \ {s, slot[n]}
    BY <1>3 DEF Sound
  <1>5. \A m \in Names : slot'[m] = IF m = n THEN None ELSE slot[m]
    BY <1>1 DEF Released, TypeOK
  <1> QED BY <1>1, <1>3, <1>4, <1>5 DEF Released, closeVars

LEMMA DiscardedDoes ==
  ASSUME TypeOK, NEW t \in Tasks, Discarded(t)
  PROVE  LET s == task[t].s
         IN  /\ task[t].at = "discarding" /\ Becomes(t, "idle", Default, None) /\ ~task'[t].was
             /\ open' = open \ {s} /\ living' = living \ {s} /\ built' = built
             /\ told' = told \ {s} /\ other' = other \ {s} /\ Sound' = Sound \ {s}
             /\ \A x \in Sessions : nameOf'[x] = IF x = s THEN Pool ELSE nameOf[x]
             /\ pooled' = pooled \ {s}
             /\ UNCHANGED <<slot, pool, locks, closer, closing>>
  <1>1. Becomes(t, "idle", Default, None) /\ ~task'[t].was
    BY CallerFields, Zenon DEF Discarded
  <1> QED BY <1>1, ShutDoes DEF Discarded, Shut, closeVars

(* A borrower goes on, or gives its session back.                          *)
LEMMA BorrowerDoes ==
  ASSUME TypeOK, NEW t \in Tasks, Switch(t) \/ Ran(t) \/ Undo(t)
  PROVE  LET s == task[t].s
         IN  /\ task[t].at \in Execing
             /\ UNCHANGED <<slot, pooled, locks, built, open, living, closer, closing, nameOf,
                            overtaken, evicted>>
             /\ told' \in {told, told \cup {s}, told \ {s}}
             /\ other' \in {other, other \cup {s}, other \ {s}}
             /\ \/ /\ task[t].at = "switching" /\ Becomes(t, "running", task[t].name, s) /\ Keeps(t)
                   /\ UNCHANGED pool /\ s \in told'
                \/ /\ task[t].at = "running" /\ task[t].switched
                   /\ Becomes(t, "undoing", task[t].name, s) /\ Keeps(t)
                   /\ UNCHANGED pool /\ told' = told /\ other' = other
                \/ /\ Becomes(t, "discarding", task[t].name, s) /\ Keeps(t)
                   /\ UNCHANGED pool
                \/ /\ s \in living /\ pool' = Append(pool, s)
                   /\ Becomes(t, "idle", Default, None) /\ ~task'[t].was
                   /\ \/ /\ task[t].at = "running" /\ ~task[t].switched
                         /\ told' = told /\ other' = other
                      \/ /\ task[t].at = "undoing"
                         /\ \/ s \notin told' /\ s \notin other'
                            \/ told' = told /\ ((s \in told) = task[t].was)
  <1> DEFINE s == task[t].s
  <1>1. UNCHANGED <<slot, pooled, locks, built, open, living, closer, closing, nameOf,
                    overtaken, evicted>>
    BY DEF Switch, Ran, Undo, sessions, closeVars, historyVars
  <1>2. CASE Switch(t)
    <2>1. CASE /\ s \in living
               /\ told' = told \cup {s} /\ other' = other \cup {s}
               /\ Goes(t, "running") /\ UNCHANGED pool
      <3>1. Becomes(t, "running", task[t].name, s) /\ Keeps(t)
        BY <2>1, CallerFields DEF Goes
      <3> QED BY <1>1, <1>2, <2>1, <3>1 DEF Switch, Execing
    <2>2. CASE /\ other' \in {other, other \cup {s}}
               /\ GiveBack(t, FALSE, s \in told)
               /\ UNCHANGED told
      <3>1. UNCHANGED pool /\ Becomes(t, "discarding", task[t].name, s) /\ Keeps(t)
        BY <2>2, GiveBackDoes
      <3> QED BY <1>1, <1>2, <2>2, <3>1 DEF Switch, Execing
    <2> QED BY <1>2, <2>1, <2>2 DEF Switch
  <1>3. CASE Ran(t)
    <2>1. told' = told /\ other' = other
      BY <1>3 DEF Ran, sessions
    <2>2. CASE task[t].switched
      <3>1. UNCHANGED pool /\ Becomes(t, "undoing", task[t].name, s) /\ Keeps(t)
        BY <1>3, <2>2, CallerFields DEF Ran, Goes
      <3> QED BY <1>1, <1>3, <2>1, <2>2, <3>1 DEF Ran, Execing
    <2>3. CASE ~task[t].switched
      <3>1. \/ /\ s \in living /\ pool' = Append(pool, s)
               /\ Becomes(t, "idle", Default, None) /\ ~task'[t].was
            \/ UNCHANGED pool /\ Becomes(t, "discarding", task[t].name, s) /\ Keeps(t)
        BY <1>3, <2>3, GiveBackDoes DEF Ran
      <3> QED BY <1>1, <1>3, <2>1, <2>3, <3>1 DEF Ran, Execing
    <2> QED BY <2>2, <2>3
  <1>4. CASE Undo(t)
    <2>1. CASE /\ s \in living
               /\ told' = told \ {s} /\ other' = other \ {s}
               /\ GiveBack(t, TRUE, FALSE)
      <3>1. \/ /\ s \in living /\ pool' = Append(pool, s)
               /\ Becomes(t, "idle", Default, None) /\ ~task'[t].was
            \/ UNCHANGED pool /\ Becomes(t, "discarding", task[t].name, s) /\ Keeps(t)
        BY <2>1, GiveBackDoes
      <3> QED BY <1>1, <1>4, <2>1, <3>1 DEF Undo, Execing
    <2>2. CASE /\ other' \in {other, other \ {s}}
               /\ GiveBack(t, TRUE, s \in told)
               /\ UNCHANGED told
      <3>1. \/ /\ s \in living /\ pool' = Append(pool, s) /\ (s \in told) = task[t].was
               /\ Becomes(t, "idle", Default, None) /\ ~task'[t].was
            \/ UNCHANGED pool /\ Becomes(t, "discarding", task[t].name, s) /\ Keeps(t)
        BY <2>2, GiveBackDoes
      <3> QED BY <1>1, <1>4, <2>2, <3>1 DEF Undo, Execing
    <2> QED BY <1>4, <2>1, <2>2 DEF Undo
  <1> QED BY <1>2, <1>3, <1>4

----------------------------------------------------------------------------
(* What close_all does. *)

LEMMA CloseAllDoes ==
  ASSUME TypeOK, CloseAll
  PROVE  /\ closer = "idle"
         /\ UNCHANGED <<slot, pooled, pool, built, open, living, told, other, nameOf,
                        overtaken, evicted>>
         /\ \A t \in Tasks :
               /\ task'[t].at = task[t].at /\ task'[t].name = task[t].name
               /\ task'[t].s = task[t].s /\ task'[t].lock = task[t].lock
               /\ task'[t].was = task[t].was /\ task'[t].switched = task[t].switched
               /\ task[t].at \in Opening \cup {"waiting"} => task'[t].met
         /\ \/ /\ slot[Default] # None /\ closer' = "default" /\ closing' = {slot[Default]}
               /\ locks' = locks
            \/ slot[Default] = None /\ closer' = "named" /\ closing' = Named
            \/ slot[Default] = None /\ closer' = "idle" /\ closing' = {}
  <1>1. \A t \in Tasks :
               /\ task'[t].at = task[t].at /\ task'[t].name = task[t].name
               /\ task'[t].s = task[t].s /\ task'[t].lock = task[t].lock
               /\ task'[t].was = task[t].was /\ task'[t].switched = task[t].switched
               /\ task[t].at \in Opening \cup {"waiting"} => task'[t].met
    <2>1. task \in [Tasks -> Callers] /\ Meet
      BY DEF TypeOK, Callers, CloseAll
    <2> QED BY <2>1 DEF Meet, Callers
  <1>2. CASE slot[Default] # None
    BY <1>1, <1>2 DEF CloseAll, sessions, historyVars
  <1>3. CASE slot[Default] = None
    BY <1>1, <1>3 DEF CloseAll, CloseNamed, sessions, historyVars
  <1> QED BY <1>2, <1>3

LEMMA DefaultClosedDoes ==
  ASSUME TypeOK, CloserHasThem, DefaultClosed
  PROVE  /\ closer = "default" /\ UNCHANGED <<task, pool, pooled>>
         /\ \E s \in closing :
               /\ closing = {s}
               /\ open' = open \ {s} /\ living' = living \ {s} /\ built' = built
               /\ told' = told \ {s} /\ other' = other \ {s} /\ Sound' = Sound \ {s}
               /\ \A x \in Sessions : nameOf'[x] = IF x = s THEN Pool ELSE nameOf[x]
         /\ \A m \in Names : slot'[m] = IF m = Default THEN None ELSE slot[m]
         /\ \/ closer' = "named" /\ closing' = Named
            \/ closer' = "idle" /\ closing' = {}
  <1>1. closer = "default" /\ UNCHANGED <<task, pool, pooled>>
    BY DEF DefaultClosed, CloseNamed
  <1>2. PICK s \in closing : Shut(s)
    BY DEF DefaultClosed
  <1>3. closing = {s}
    BY <1>1 DEF CloserHasThem
  <1>4. \A m \in Names : slot'[m] = IF m = Default THEN None ELSE slot[m]
    BY DEF DefaultClosed, CloseNamed, TypeOK
  <1>5. \/ closer' = "named" /\ closing' = Named
        \/ closer' = "idle" /\ closing' = {}
    BY DEF DefaultClosed, CloseNamed
  <1> QED BY <1>1, <1>2, <1>3, <1>4, <1>5, ShutDoes DEF Shut

LEMMA NamedClosedDoes ==
  ASSUME TypeOK, NEW s \in Sessions, NamedClosed(s)
  PROVE  /\ closer = "named" /\ s \in closing /\ closing' = closing \ {s}
         /\ UNCHANGED <<task, pool, locks, closer>>
         /\ open' = open \ {s} /\ living' = living \ {s} /\ built' = built
         /\ told' = told \ {s} /\ other' = other \ {s} /\ Sound' = Sound \ {s}
         /\ \A x \in Sessions : nameOf'[x] = IF x = s THEN Pool ELSE nameOf[x]
         /\ \/ nameOf[s] = Pool /\ pooled' = pooled \ {s} /\ slot' = slot
            \/ /\ nameOf[s] # Pool /\ nameOf[s] \in Names /\ pooled' = pooled
               /\ \A m \in Names : slot'[m] = IF m = nameOf[s] THEN None ELSE slot[m]
  <1>1. \/ nameOf[s] = Pool /\ pooled' = pooled \ {s} /\ slot' = slot
        \/ /\ nameOf[s] # Pool /\ nameOf[s] \in Names /\ pooled' = pooled
           /\ \A m \in Names : slot'[m] = IF m = nameOf[s] THEN None ELSE slot[m]
    BY DEF NamedClosed, TypeOK
  <1> QED BY <1>1, ShutDoes DEF NamedClosed, Shut

LEMMA ClearedDoes ==
  ASSUME TypeOK, Cleared
  PROVE  /\ closer = "named" /\ closing = {} /\ closer' = "idle" /\ closing' = {}
         /\ \A m \in Names : slot'[m] = IF m = Default THEN slot[m] ELSE None
         /\ pooled' = {}
         /\ UNCHANGED <<task, pool, built, open, living, told, other, nameOf, overtaken, evicted>>
  BY DEF Cleared, sessions, historyVars

LEMMA DieDoes ==
  ASSUME NEW s \in Sessions, Die(s)
  PROVE  /\ living' = living \ {s}
         /\ UNCHANGED <<task, slot, pooled, pool, locks, built, open, told, other, closer, closing,
                        nameOf, overtaken, evicted>>
  BY DEF Die, registry, closeVars, historyVars

----------------------------------------------------------------------------
(* Every step keeps the invariant. *)

(* A caller is named after what it has in hand.                            *)
LEMMA CallersStayNamed ==
  ASSUME TypeOK, CallersAreNamed, NewIsNobodyElses, CloserHasThem, [Next]_vars
  PROVE  CallersAreNamed'
  <1> USE DEF CallersAreNamed, Becomes, Opening, Execing, None
  <1>1. ASSUME NEW t \in Tasks, NEW n \in Names, Want(t, n)
        PROVE  CallersAreNamed'
    BY <1>1, WantDoes, NameAssumption
  <1>2. ASSUME NEW t \in Tasks, NEW user \in BOOLEAN, Exec(t, user)
        PROVE  CallersAreNamed'
    BY <1>2, ExecDoes
  <1>3. ASSUME NEW t \in Tasks, Acquire(t)
        PROVE  CallersAreNamed'
    BY <1>3, AcquireDoes
  <1>4. ASSUME NEW t \in Tasks, Retire(t)
        PROVE  CallersAreNamed'
    BY <1>4, RetireDoes
  <1>5. ASSUME NEW t \in Tasks, Build(t)
        PROVE  CallersAreNamed'
    BY <1>5, BuildDoes
  <1>6. ASSUME NEW t \in Tasks, Land(t)
        PROVE  CallersAreNamed'
    <2>1. task[t].s # 0
      BY <1>6, LandDoes, NameAssumption DEF Sessions
    <2> QED BY <1>6, <2>1, LandDoes
  <1>7. ASSUME NEW t \in Tasks, FailLanding(t) \/ LetBe(t) \/ Release(t)
        PROVE  CallersAreNamed'
    BY <1>7, CallerMovesOn
  <1>8. ASSUME NEW t \in Tasks, Failed(t)
        PROVE  CallersAreNamed'
    BY <1>8, FailedDoes
  <1>9. ASSUME NEW t \in Tasks, Released(t)
        PROVE  CallersAreNamed'
    BY <1>9, ReleasedDoes
  <1>10. ASSUME NEW t \in Tasks, Switch(t) \/ Ran(t) \/ Undo(t)
        PROVE  CallersAreNamed'
    BY <1>10, BorrowerDoes
  <1>11. ASSUME NEW t \in Tasks, Discarded(t)
        PROVE  CallersAreNamed'
    BY <1>11, DiscardedDoes
  <1>12. ASSUME NEW s \in Sessions, Die(s)
        PROVE  CallersAreNamed'
    BY <1>12, DieDoes
  <1>13. ASSUME NEW s \in Sessions, NamedClosed(s)
        PROVE  CallersAreNamed'
    BY <1>13, NamedClosedDoes
  <1>14. CASE CloseAll
    BY <1>14, CloseAllDoes
  <1>15. CASE DefaultClosed
    BY <1>15, DefaultClosedDoes
  <1>16. CASE Cleared
    BY <1>16, ClearedDoes
  <1>17. CASE UNCHANGED vars
    BY <1>17 DEF vars, registry, sessions, closeVars, historyVars
  <1> QED BY <1>1, <1>2, <1>3, <1>4, <1>5, <1>6, <1>7, <1>8, <1>9, <1>10, <1>11, <1>12, <1>13, <1>14, <1>15, <1>16, <1>17
          DEF Next, TaskStep

(* A session comes into a slot from the caller that opened it.             *)
SlotsFollow ==
    \A n \in Names :
        \/ slot'[n] \in {slot[n], None}
        \/ \E t \in Tasks : task[t].at = "landing" /\ slot'[n] = task[t].s /\ task'[t].at = "using"

LEMMA SlotsTravel ==
  ASSUME TypeOK, NewIsNobodyElses, CallersAreNamed, CloserHasThem, [Next]_vars
  PROVE  SlotsFollow
  <1> USE DEF SlotsFollow, Becomes
  <1>1. ASSUME NEW t \in Tasks, NEW n \in Names, Want(t, n)
        PROVE  SlotsFollow
    BY <1>1, WantDoes
  <1>2. ASSUME NEW t \in Tasks, NEW user \in BOOLEAN, Exec(t, user)
        PROVE  SlotsFollow
    BY <1>2, ExecDoes
  <1>3. ASSUME NEW t \in Tasks, Acquire(t)
        PROVE  SlotsFollow
    BY <1>3, AcquireDoes
  <1>4. ASSUME NEW t \in Tasks, Retire(t)
        PROVE  SlotsFollow
    BY <1>4, RetireDoes
  <1>5. ASSUME NEW t \in Tasks, Build(t)
        PROVE  SlotsFollow
    BY <1>5, BuildDoes
  <1>6. ASSUME NEW t \in Tasks, Land(t)
        PROVE  SlotsFollow
    BY <1>6, LandDoes
  <1>7. ASSUME NEW t \in Tasks, FailLanding(t) \/ LetBe(t) \/ Release(t)
        PROVE  SlotsFollow
    BY <1>7, CallerMovesOn
  <1>8. ASSUME NEW t \in Tasks, Failed(t)
        PROVE  SlotsFollow
    BY <1>8, FailedDoes
  <1>9. ASSUME NEW t \in Tasks, Released(t)
        PROVE  SlotsFollow
    BY <1>9, ReleasedDoes
  <1>10. ASSUME NEW t \in Tasks, Switch(t) \/ Ran(t) \/ Undo(t)
        PROVE  SlotsFollow
    BY <1>10, BorrowerDoes
  <1>11. ASSUME NEW t \in Tasks, Discarded(t)
        PROVE  SlotsFollow
    BY <1>11, DiscardedDoes
  <1>12. ASSUME NEW s \in Sessions, Die(s)
        PROVE  SlotsFollow
    BY <1>12, DieDoes
  <1>13. ASSUME NEW s \in Sessions, NamedClosed(s)
        PROVE  SlotsFollow
    BY <1>13, NamedClosedDoes
  <1>14. CASE CloseAll
    BY <1>14, CloseAllDoes
  <1>15. CASE DefaultClosed
    BY <1>15, DefaultClosedDoes
  <1>16. CASE Cleared
    BY <1>16, ClearedDoes
  <1>17. CASE UNCHANGED vars
    BY <1>17 DEF vars, registry, sessions, closeVars, historyVars
  <1> QED BY <1>1, <1>2, <1>3, <1>4, <1>5, <1>6, <1>7, <1>8, <1>9, <1>10, <1>11, <1>12, <1>13, <1>14, <1>15, <1>16, <1>17
          DEF Next, TaskStep

(* One becomes known from a slot, or from the caller who opened it or who  *)
(* borrows it.                                                             *)
KnownFollow ==
    \A x \in Known' :
        \/ x \in Known
        \/ x # None /\ \E n \in Names : slot[n] = x
        \/ /\ x # None
           /\ \E t \in Tasks : /\ task[t].s = x /\ ~Opens(t)'
                             /\ task[t].at \in Execing \cup {"landing"}

LEMMA KnownTravel ==
  ASSUME TypeOK, NewIsNobodyElses, CallersAreNamed, CloserHasThem, [Next]_vars
  PROVE  KnownFollow
  <1> USE DEF KnownFollow, Known, Becomes, Opens
  <1>1. ASSUME NEW t \in Tasks, NEW n \in Names, Want(t, n)
        PROVE  KnownFollow
    BY <1>1, WantDoes, IdlesStay
  <1>2. ASSUME NEW t \in Tasks, NEW user \in BOOLEAN, Exec(t, user)
        PROVE  KnownFollow
    BY <1>2, ExecDoes
  <1>3. ASSUME NEW t \in Tasks, Acquire(t)
        PROVE  KnownFollow
    BY <1>3, AcquireDoes, IdlesStay
  <1>4. ASSUME NEW t \in Tasks, Retire(t)
        PROVE  KnownFollow
    BY <1>4, RetireDoes, IdlesStay
  <1>5. ASSUME NEW t \in Tasks, Build(t)
        PROVE  KnownFollow
    BY <1>5, BuildDoes, IdlesStay
  <1>6. ASSUME NEW t \in Tasks, Land(t)
        PROVE  KnownFollow
    <2>1. task[t].s # None /\ ~Opens(t)'
      BY <1>6, LandDoes DEF Sessions, None
    <2>2. Known' \subseteq Known \cup {task[t].s}
      BY <1>6, LandDoes, IdlesStay
    <2> QED BY <1>6, <2>1, <2>2, LandDoes
  <1>7. ASSUME NEW t \in Tasks, FailLanding(t) \/ LetBe(t) \/ Release(t)
        PROVE  KnownFollow
    BY <1>7, CallerMovesOn, IdlesStay
  <1>8. ASSUME NEW t \in Tasks, Failed(t)
        PROVE  KnownFollow
    BY <1>8, FailedDoes, IdlesStay
  <1>9. ASSUME NEW t \in Tasks, Released(t)
        PROVE  KnownFollow
    BY <1>9, ReleasedDoes, IdlesStay
  <1>10. ASSUME NEW t \in Tasks, Switch(t) \/ Ran(t) \/ Undo(t)
        PROVE  KnownFollow
    <2>1. task[t].s # None /\ ~Opens(t)' /\ task[t].at \in Execing
      BY <1>10, BorrowerDoes DEF CallersAreNamed
    <2>2. Idles' \subseteq Idles \cup {task[t].s}
      <3>1. CASE UNCHANGED pool
        BY <3>1, IdlesStay
      <3>2. CASE pool' = Append(pool, task[t].s) /\ task[t].s \in living
        BY <3>2, IdlesArePushed, OpenAreSessions
      <3> QED BY <1>10, <3>1, <3>2, BorrowerDoes
    <2>3. pooled' = pooled /\ closing' = closing
      BY <1>10, BorrowerDoes
    <2>4. told' \subseteq told \cup {task[t].s} /\ other' \subseteq other \cup {task[t].s}
      BY <1>10, BorrowerDoes
    <2>5. Known' \subseteq Known \cup {task[t].s}
      BY <2>2, <2>3, <2>4
    <2> QED BY <2>1, <2>5
  <1>11. ASSUME NEW t \in Tasks, Discarded(t)
        PROVE  KnownFollow
    BY <1>11, DiscardedDoes, IdlesStay
  <1>12. ASSUME NEW s \in Sessions, Die(s)
        PROVE  KnownFollow
    BY <1>12, DieDoes, IdlesStay
  <1>13. ASSUME NEW s \in Sessions, NamedClosed(s)
        PROVE  KnownFollow
    BY <1>13, NamedClosedDoes, IdlesStay
  <1>14. CASE CloseAll
    <2>1. Known' \subseteq Known \cup closing'
      BY <1>14, CloseAllDoes, IdlesStay
    <2>2. \A x \in closing' : x \in Known \/ (x # None /\ \E n \in Names : slot[n] = x)
      BY <1>14, CloseAllDoes, NameAssumption DEF Named
    <2> QED BY <2>1, <2>2
  <1>15. CASE DefaultClosed
    <2>1. Known' \subseteq Known \cup closing'
      BY <1>15, DefaultClosedDoes, IdlesStay
    <2>2. \A x \in closing' : x \in Known \/ (x # None /\ \E n \in Names : slot[n] = x)
      BY <1>15, DefaultClosedDoes DEF Named
    <2> QED BY <2>1, <2>2
  <1>16. CASE Cleared
    BY <1>16, ClearedDoes, IdlesStay
  <1>17. CASE UNCHANGED vars
    BY <1>17, IdlesStay DEF vars, registry, sessions, closeVars, historyVars
  <1> QED BY <1>1, <1>2, <1>3, <1>4, <1>5, <1>6, <1>7, <1>8, <1>9, <1>10, <1>11, <1>12, <1>13, <1>14, <1>15, <1>16, <1>17
          DEF Next, TaskStep

(* One comes into a caller's hands from a slot or the pool, or is new.     *)
HandsFollow ==
    \A u \in Tasks :
        \/ task'[u].s \in {task[u].s, None} /\ (Opens(u)' => Opens(u))
        \/ ~Opens(u)' /\ \E n \in Names : slot[n] = task'[u].s
        \/ ~Opens(u)' /\ task'[u].s \in Idles
        \/ task'[u].s = built + 1 /\ built' = built + 1 /\ Build(u)

LEMMA HandsTravel ==
  ASSUME TypeOK, NewIsNobodyElses, CallersAreNamed, CloserHasThem, [Next]_vars
  PROVE  HandsFollow
  <1> USE DEF HandsFollow, Becomes, Opens
  <1>1. ASSUME NEW t \in Tasks, NEW n \in Names, Want(t, n)
        PROVE  HandsFollow
    BY <1>1, WantDoes
  <1>2. ASSUME NEW t \in Tasks, NEW user \in BOOLEAN, Exec(t, user)
        PROVE  HandsFollow
    BY <1>2, ExecDoes
  <1>3. ASSUME NEW t \in Tasks, Acquire(t)
        PROVE  HandsFollow
    <2>1. task[t].name \in Names
      BY <1>3, AcquireDoes, CallerFields DEF CallersAreNamed
    <2> QED BY <1>3, <2>1, AcquireDoes
  <1>4. ASSUME NEW t \in Tasks, Retire(t)
        PROVE  HandsFollow
    BY <1>4, RetireDoes
  <1>5. ASSUME NEW t \in Tasks, Build(t)
        PROVE  HandsFollow
    BY <1>5, BuildDoes
  <1>6. ASSUME NEW t \in Tasks, Land(t)
        PROVE  HandsFollow
    BY <1>6, LandDoes
  <1>7. ASSUME NEW t \in Tasks, FailLanding(t) \/ LetBe(t) \/ Release(t)
        PROVE  HandsFollow
    BY <1>7, CallerMovesOn
  <1>8. ASSUME NEW t \in Tasks, Failed(t)
        PROVE  HandsFollow
    BY <1>8, FailedDoes
  <1>9. ASSUME NEW t \in Tasks, Released(t)
        PROVE  HandsFollow
    BY <1>9, ReleasedDoes
  <1>10. ASSUME NEW t \in Tasks, Switch(t) \/ Ran(t) \/ Undo(t)
        PROVE  HandsFollow
    BY <1>10, BorrowerDoes
  <1>11. ASSUME NEW t \in Tasks, Discarded(t)
        PROVE  HandsFollow
    BY <1>11, DiscardedDoes
  <1>12. ASSUME NEW s \in Sessions, Die(s)
        PROVE  HandsFollow
    BY <1>12, DieDoes
  <1>13. ASSUME NEW s \in Sessions, NamedClosed(s)
        PROVE  HandsFollow
    BY <1>13, NamedClosedDoes
  <1>14. CASE CloseAll
    BY <1>14, CloseAllDoes
  <1>15. CASE DefaultClosed
    BY <1>15, DefaultClosedDoes
  <1>16. CASE Cleared
    BY <1>16, ClearedDoes
  <1>17. CASE UNCHANGED vars
    BY <1>17 DEF vars, registry, sessions, closeVars, historyVars
  <1> QED BY <1>1, <1>2, <1>3, <1>4, <1>5, <1>6, <1>7, <1>8, <1>9, <1>10, <1>11, <1>12, <1>13, <1>14, <1>15, <1>16, <1>17
          DEF Next, TaskStep

LEMMA OnlyBuiltStayKnown ==
  ASSUME TypeOK, OnlyBuiltAreKnown, NewIsNobodyElses, CallersAreNamed, CloserHasThem, [Next]_vars
  PROVE  OnlyBuiltAreKnown'
  <1>1. SlotsFollow /\ KnownFollow /\ HandsFollow
    BY SlotsTravel, KnownTravel, HandsTravel
  <1>2. built \in Nat /\ built' \in {built, built + 1}
    <2>1. built \in Nat
      BY NameAssumption DEF TypeOK
    <2>2. \A s : \A D : ShutAndDisplace(s, D) => built' = built
      BY DEF ShutAndDisplace
    <2> QED BY <2>1, <2>2
        DEF Next, TaskStep, Want, Exec, Acquire, Retire, Build, Land, FailLanding, Failed, LetBe,
            Release, Released, Switch, Ran, Undo, Discarded, Die, NamedClosed, CloseAll,
            DefaultClosed, Cleared, Shut, vars, sessions
  <1>3. 0..built \subseteq 0..built' /\ 1..built \subseteq 1..built' /\ None \in 0..built'
    BY <1>2 DEF None
  <1>4. \A n \in Names : slot'[n] \in 0..built'
    BY <1>1, <1>3 DEF SlotsFollow, OnlyBuiltAreKnown
  <1>5. \A u \in Tasks : task'[u].s \in 0..built'
    <2> SUFFICES ASSUME NEW u \in Tasks PROVE task'[u].s \in 0..built'
      OBVIOUS
    <2>1. CASE task'[u].s \in {task[u].s, None}
      BY <1>3, <2>1 DEF OnlyBuiltAreKnown
    <2>2. CASE \E n \in Names : slot[n] = task'[u].s
      BY <1>3, <2>2 DEF OnlyBuiltAreKnown
    <2>3. CASE task'[u].s \in Idles
      BY <1>2, <1>3, <2>3 DEF OnlyBuiltAreKnown, Known
    <2>4. CASE task'[u].s = built + 1 /\ built' = built + 1
      BY <1>2, <2>4
    <2> QED BY <1>1, <2>1, <2>2, <2>3, <2>4 DEF HandsFollow
  <1>6. Known' \subseteq 1..built'
    <2> SUFFICES ASSUME NEW x \in Known' PROVE x \in 1..built'
      OBVIOUS
    <2>1. CASE x \in Known
      BY <1>3, <2>1 DEF OnlyBuiltAreKnown
    <2>2. CASE x # None /\ x \in 0..built
      BY <1>2, <2>2 DEF None
    <2> QED BY <1>1, <2>1, <2>2 DEF KnownFollow, OnlyBuiltAreKnown
  <1> QED BY <1>4, <1>5, <1>6 DEF OnlyBuiltAreKnown


(* A session that is being opened is closed by its caller only.            *)
OpenFollow ==
    \A u \in Tasks : Opens(u) /\ Opens(u)' => task'[u].s = task[u].s /\ task[u].s \in open'

LEMMA OpenStay ==
  ASSUME TypeOK, NewIsNobodyElses, CallersAreNamed, CloserHasThem, [Next]_vars
  PROVE  OpenFollow
  <1> USE DEF OpenFollow, Becomes, Opens, NewIsNobodyElses, Known
  <1>1. ASSUME NEW t \in Tasks, NEW n \in Names, Want(t, n)
        PROVE  OpenFollow
    BY <1>1, WantDoes
  <1>2. ASSUME NEW t \in Tasks, NEW user \in BOOLEAN, Exec(t, user)
        PROVE  OpenFollow
    BY <1>2, ExecDoes
  <1>3. ASSUME NEW t \in Tasks, Acquire(t)
        PROVE  OpenFollow
    BY <1>3, AcquireDoes
  <1>4. ASSUME NEW t \in Tasks, Retire(t)
        PROVE  OpenFollow
    BY <1>4, RetireDoes
  <1>5. ASSUME NEW t \in Tasks, Build(t)
        PROVE  OpenFollow
    BY <1>5, BuildDoes
  <1>6. ASSUME NEW t \in Tasks, Land(t)
        PROVE  OpenFollow
    BY <1>6, LandDoes
  <1>7. ASSUME NEW t \in Tasks, FailLanding(t) \/ LetBe(t) \/ Release(t)
        PROVE  OpenFollow
    BY <1>7, CallerMovesOn
  <1>8. ASSUME NEW t \in Tasks, Failed(t)
        PROVE  OpenFollow
    BY <1>8, FailedDoes
  <1>9. ASSUME NEW t \in Tasks, Released(t)
        PROVE  OpenFollow
    BY <1>9, ReleasedDoes
  <1>10. ASSUME NEW t \in Tasks, Switch(t) \/ Ran(t) \/ Undo(t)
        PROVE  OpenFollow
    BY <1>10, BorrowerDoes
  <1>11. ASSUME NEW t \in Tasks, Discarded(t)
        PROVE  OpenFollow
    BY <1>11, DiscardedDoes
  <1>12. ASSUME NEW s \in Sessions, Die(s)
        PROVE  OpenFollow
    BY <1>12, DieDoes
  <1>13. ASSUME NEW s \in Sessions, NamedClosed(s)
        PROVE  OpenFollow
    BY <1>13, NamedClosedDoes
  <1>14. CASE CloseAll
    BY <1>14, CloseAllDoes
  <1>15. CASE DefaultClosed
    BY <1>15, DefaultClosedDoes
  <1>16. CASE Cleared
    BY <1>16, ClearedDoes
  <1>17. CASE UNCHANGED vars
    BY <1>17 DEF vars, registry, sessions, closeVars, historyVars
  <1> QED BY <1>1, <1>2, <1>3, <1>4, <1>5, <1>6, <1>7, <1>8, <1>9, <1>10, <1>11, <1>12, <1>13, <1>14, <1>15, <1>16, <1>17
          DEF Next, TaskStep

LEMMA NewStaysNobodyElses ==
  ASSUME TypeOK, OnlyBuiltAreKnown, NewIsNobodyElses, CallersAreNamed, CloserHasThem, [Next]_vars
  PROVE  NewIsNobodyElses'
  <1>1. SlotsFollow /\ KnownFollow /\ HandsFollow /\ OpenFollow
    BY SlotsTravel, KnownTravel, HandsTravel, OpenStay
  <1>2. SUFFICES ASSUME NEW t \in Tasks, Opens(t)'
                 PROVE  /\ task'[t].s \in open'
                        /\ task'[t].s \notin Known'
                        /\ \A n \in Names : slot'[n] # task'[t].s
                        /\ \A u \in Tasks : task'[u].s = task'[t].s => u = t
    BY DEF NewIsNobodyElses
  <1>3. CASE Opens(t)
    <2>1. task'[t].s = task[t].s /\ task[t].s \in open'
      BY <1>1, <1>2, <1>3 DEF OpenFollow
    <2>2. /\ task[t].s # None /\ task[t].s # built + 1 /\ task[t].s \notin Known
          /\ \A n \in Names : slot[n] # task[t].s
          /\ \A u \in Tasks : task[u].s = task[t].s => u = t
      <3>1. task[t].s \in 1..built /\ built \in Nat
        BY <1>3, NameAssumption DEF NewIsNobodyElses, TypeOK
      <3> QED BY <1>3, <3>1 DEF NewIsNobodyElses, None
    <2>3. task[t].s \notin Idles
      BY <2>2 DEF Known
    <2>4. \A n \in Names : slot'[n] # task[t].s
      BY <1>1, <1>2, <2>2 DEF SlotsFollow, Opens
    <2>5. task[t].s \notin Known'
      BY <1>1, <1>2, <2>2 DEF KnownFollow
    <2>6. \A u \in Tasks : task'[u].s = task[t].s => u = t
      BY <1>1, <2>2, <2>3 DEF HandsFollow
    <2> QED BY <2>1, <2>4, <2>5, <2>6
  <1>4. CASE ~Opens(t)
    <2>1. task'[t].s = built + 1 /\ built' = built + 1 /\ Build(t)
      BY <1>1, <1>2, <1>4 DEF HandsFollow
    <2>2. built \in Nat /\ built + 1 \notin 0..built /\ built + 1 \notin 1..built
      BY NameAssumption DEF TypeOK
    <2>3. /\ built + 1 \in open' /\ task[t].s = None
          /\ \A u \in Tasks : u # t => task'[u] = task[u]
      BY <1>2, <2>1, <2>2, BuildDoes DEF Becomes, Opens, CallersAreNamed
    <2>4. /\ Known' = Known /\ slot' = slot
      BY <2>1, BuildDoes, IdlesStay DEF Known
    <2> QED BY <2>1, <2>2, <2>3, <2>4 DEF OnlyBuiltAreKnown
  <1> QED BY <1>3, <1>4


(* A lock is free before another caller opens under it.                    *)
LEMMA OneOpenerStays ==
  ASSUME TypeOK, NewIsNobodyElses, CallersAreNamed, OneOpenerPerLock, CloserHasThem, [Next]_vars
  PROVE  OneOpenerPerLock'
  <1> USE DEF OneOpenerPerLock, Becomes, Keeps, Opening, Execing
  <1>1. ASSUME NEW t \in Tasks, NEW n \in Names, Want(t, n)
        PROVE  OneOpenerPerLock'
    BY <1>1, WantDoes
  <1>2. ASSUME NEW t \in Tasks, NEW user \in BOOLEAN, Exec(t, user)
        PROVE  OneOpenerPerLock'
    BY <1>2, ExecDoes
  <1>3. ASSUME NEW t \in Tasks, Acquire(t)
        PROVE  OneOpenerPerLock'
    BY <1>3, AcquireDoes DEF Free
  <1>4. ASSUME NEW t \in Tasks, Retire(t)
        PROVE  OneOpenerPerLock'
    BY <1>4, RetireDoes
  <1>5. ASSUME NEW t \in Tasks, Build(t)
        PROVE  OneOpenerPerLock'
    BY <1>5, BuildDoes
  <1>6. ASSUME NEW t \in Tasks, Land(t)
        PROVE  OneOpenerPerLock'
    BY <1>6, LandDoes
  <1>7. ASSUME NEW t \in Tasks, FailLanding(t) \/ LetBe(t) \/ Release(t)
        PROVE  OneOpenerPerLock'
    BY <1>7, CallerMovesOn
  <1>8. ASSUME NEW t \in Tasks, Failed(t)
        PROVE  OneOpenerPerLock'
    BY <1>8, FailedDoes
  <1>9. ASSUME NEW t \in Tasks, Released(t)
        PROVE  OneOpenerPerLock'
    BY <1>9, ReleasedDoes
  <1>10. ASSUME NEW t \in Tasks, Switch(t) \/ Ran(t) \/ Undo(t)
        PROVE  OneOpenerPerLock'
    BY <1>10, BorrowerDoes
  <1>11. ASSUME NEW t \in Tasks, Discarded(t)
        PROVE  OneOpenerPerLock'
    BY <1>11, DiscardedDoes
  <1>12. ASSUME NEW s \in Sessions, Die(s)
        PROVE  OneOpenerPerLock'
    BY <1>12, DieDoes
  <1>13. ASSUME NEW s \in Sessions, NamedClosed(s)
        PROVE  OneOpenerPerLock'
    BY <1>13, NamedClosedDoes
  <1>14. CASE CloseAll
    BY <1>14, CloseAllDoes
  <1>15. CASE DefaultClosed
    BY <1>15, DefaultClosedDoes
  <1>16. CASE Cleared
    BY <1>16, ClearedDoes
  <1>17. CASE UNCHANGED vars
    BY <1>17 DEF vars, registry, sessions, closeVars, historyVars
  <1> QED BY <1>1, <1>2, <1>3, <1>4, <1>5, <1>6, <1>7, <1>8, <1>9, <1>10, <1>11, <1>12, <1>13, <1>14, <1>15, <1>16, <1>17
          DEF Next, TaskStep

(* A name keeps its lock until a close, which its callers meet.            *)
LEMMA LocksStayTheNames ==
  ASSUME TypeOK, NewIsNobodyElses, CallersAreNamed, LocksAreTheNames, ClosesAreMet, CloserHasThem, [Next]_vars
  PROVE  LocksAreTheNames'
  <1> USE DEF LocksAreTheNames, ClosesAreMet, Becomes, Keeps, Opening, Execing
  <1>1. ASSUME NEW t \in Tasks, NEW n \in Names, Want(t, n)
        PROVE  LocksAreTheNames'
    <2>1. \A u \in Tasks : task[u].name \in Names \cup {Pool}
      BY CallerFields
    <2> QED BY <1>1, <2>1, WantDoes
  <1>2. ASSUME NEW t \in Tasks, NEW user \in BOOLEAN, Exec(t, user)
        PROVE  LocksAreTheNames'
    BY <1>2, ExecDoes
  <1>3. ASSUME NEW t \in Tasks, Acquire(t)
        PROVE  LocksAreTheNames'
    BY <1>3, AcquireDoes
  <1>4. ASSUME NEW t \in Tasks, Retire(t)
        PROVE  LocksAreTheNames'
    BY <1>4, RetireDoes
  <1>5. ASSUME NEW t \in Tasks, Build(t)
        PROVE  LocksAreTheNames'
    BY <1>5, BuildDoes
  <1>6. ASSUME NEW t \in Tasks, Land(t)
        PROVE  LocksAreTheNames'
    BY <1>6, LandDoes
  <1>7. ASSUME NEW t \in Tasks, FailLanding(t) \/ LetBe(t) \/ Release(t)
        PROVE  LocksAreTheNames'
    BY <1>7, CallerMovesOn
  <1>8. ASSUME NEW t \in Tasks, Failed(t)
        PROVE  LocksAreTheNames'
    BY <1>8, FailedDoes
  <1>9. ASSUME NEW t \in Tasks, Released(t)
        PROVE  LocksAreTheNames'
    BY <1>9, ReleasedDoes
  <1>10. ASSUME NEW t \in Tasks, Switch(t) \/ Ran(t) \/ Undo(t)
        PROVE  LocksAreTheNames'
    BY <1>10, BorrowerDoes
  <1>11. ASSUME NEW t \in Tasks, Discarded(t)
        PROVE  LocksAreTheNames'
    BY <1>11, DiscardedDoes
  <1>12. ASSUME NEW s \in Sessions, Die(s)
        PROVE  LocksAreTheNames'
    BY <1>12, DieDoes
  <1>13. ASSUME NEW s \in Sessions, NamedClosed(s)
        PROVE  LocksAreTheNames'
    BY <1>13, NamedClosedDoes
  <1>14. CASE CloseAll
    BY <1>14, CloseAllDoes
  <1>15. CASE DefaultClosed
    BY <1>15, DefaultClosedDoes
  <1>16. CASE Cleared
    BY <1>16, ClearedDoes
  <1>17. CASE UNCHANGED vars
    BY <1>17 DEF vars, registry, sessions, closeVars, historyVars
  <1> QED BY <1>1, <1>2, <1>3, <1>4, <1>5, <1>6, <1>7, <1>8, <1>9, <1>10, <1>11, <1>12, <1>13, <1>14, <1>15, <1>16, <1>17
          DEF Next, TaskStep

(* A close is met by whoever comes while it runs.                          *)
LEMMA ClosesStayMet ==
  ASSUME TypeOK, NewIsNobodyElses, CallersAreNamed, ClosesAreMet, CloserHasThem, [Next]_vars
  PROVE  ClosesAreMet'
  <1> USE DEF ClosesAreMet, Becomes, Keeps, Opening, Execing
  <1>1. ASSUME NEW t \in Tasks, NEW n \in Names, Want(t, n)
        PROVE  ClosesAreMet'
    BY <1>1, WantDoes
  <1>2. ASSUME NEW t \in Tasks, NEW user \in BOOLEAN, Exec(t, user)
        PROVE  ClosesAreMet'
    BY <1>2, ExecDoes
  <1>3. ASSUME NEW t \in Tasks, Acquire(t)
        PROVE  ClosesAreMet'
    BY <1>3, AcquireDoes
  <1>4. ASSUME NEW t \in Tasks, Retire(t)
        PROVE  ClosesAreMet'
    BY <1>4, RetireDoes
  <1>5. ASSUME NEW t \in Tasks, Build(t)
        PROVE  ClosesAreMet'
    BY <1>5, BuildDoes
  <1>6. ASSUME NEW t \in Tasks, Land(t)
        PROVE  ClosesAreMet'
    BY <1>6, LandDoes
  <1>7. ASSUME NEW t \in Tasks, FailLanding(t) \/ LetBe(t) \/ Release(t)
        PROVE  ClosesAreMet'
    BY <1>7, CallerMovesOn
  <1>8. ASSUME NEW t \in Tasks, Failed(t)
        PROVE  ClosesAreMet'
    BY <1>8, FailedDoes
  <1>9. ASSUME NEW t \in Tasks, Released(t)
        PROVE  ClosesAreMet'
    BY <1>9, ReleasedDoes
  <1>10. ASSUME NEW t \in Tasks, Switch(t) \/ Ran(t) \/ Undo(t)
        PROVE  ClosesAreMet'
    BY <1>10, BorrowerDoes
  <1>11. ASSUME NEW t \in Tasks, Discarded(t)
        PROVE  ClosesAreMet'
    BY <1>11, DiscardedDoes
  <1>12. ASSUME NEW s \in Sessions, Die(s)
        PROVE  ClosesAreMet'
    BY <1>12, DieDoes
  <1>13. ASSUME NEW s \in Sessions, NamedClosed(s)
        PROVE  ClosesAreMet'
    BY <1>13, NamedClosedDoes
  <1>14. CASE CloseAll
    BY <1>14, CloseAllDoes
  <1>15. CASE DefaultClosed
    BY <1>15, DefaultClosedDoes
  <1>16. CASE Cleared
    BY <1>16, ClearedDoes
  <1>17. CASE UNCHANGED vars
    BY <1>17 DEF vars, registry, sessions, closeVars, historyVars
  <1> QED BY <1>1, <1>2, <1>3, <1>4, <1>5, <1>6, <1>7, <1>8, <1>9, <1>10, <1>11, <1>12, <1>13, <1>14, <1>15, <1>16, <1>17
          DEF Next, TaskStep

(* Where the sets of sessions lie.                                         *)
LEMMA Places ==
  ManagerInv => /\ Sound \subseteq open /\ open \subseteq Sessions /\ living \subseteq open
                /\ Idles \subseteq Sessions /\ pooled \subseteq Sessions /\ closing \subseteq Sessions
                /\ None \notin Sessions /\ None \notin Sound
  <1> SUFFICES ASSUME ManagerInv PROVE TypeOK /\ open \subseteq Sessions /\ Idles \subseteq Sessions
                                       /\ None \notin Sessions
    BY DEF TypeOK, Sound
  <1>1. TypeOK
    BY DEF ManagerInv
  <1> QED BY <1>1, OpenAreSessions, IdlesAreSessions DEF Sessions, None

(* And the next ones.                                                      *)
LEMMA PlacesNext == TypeOK' => Sound' \subseteq open' /\ open' \subseteq Sessions /\ None \notin Sound'
  <1> SUFFICES ASSUME TypeOK' PROVE open' \subseteq Sessions
    BY DEF Sound, Sessions, None
  <1> QED BY NameAssumption DEF TypeOK, Sessions

(* Whoever lands a session is the only one to know of it.                  *)
LEMMA LandingIsNew ==
  ASSUME ManagerInv, NEW t \in Tasks, Opens(t)
  PROVE  /\ task[t].s \in open
         /\ task[t].s \notin Idles /\ task[t].s \notin pooled /\ task[t].s \notin closing
         /\ task[t].s \notin told /\ task[t].s \notin other
         /\ \A n \in Names : slot[n] # task[t].s
         /\ \A u \in Tasks : u # t => task[u].s # task[t].s
  BY DEF ManagerInv, NewIsNobodyElses, Known

(* Nobody knows of a session before it is built.                           *)
LEMMA NextIsNew ==
  ASSUME ManagerInv
  PROVE  /\ built + 1 \notin open /\ built + 1 \notin Idles /\ built + 1 \notin pooled
         /\ built + 1 \notin closing /\ built + 1 # None
         /\ \A n \in Names : slot[n] # built + 1
         /\ \A u \in Tasks : task[u].s # built + 1
  <1>1. /\ built \in Nat /\ open \subseteq 1..built /\ Known \subseteq 1..built
        /\ \A n \in Names : slot[n] \in 0..built
        /\ \A u \in Tasks : task[u].s \in 0..built
    BY NameAssumption DEF ManagerInv, TypeOK, OnlyBuiltAreKnown
  <1>2. built + 1 \notin 0..built /\ built + 1 \notin 1..built /\ built + 1 # 0
    BY <1>1
  <1> QED BY <1>1, <1>2 DEF Known, None


(* A closed session is forgotten.                                          *)
LEMMA ClosedStayUnnamed ==
  ASSUME ManagerInv, [Next]_vars
  PROVE  ClosedAreUnnamed'
  <1>0. /\ TypeOK /\ OnlyBuiltAreKnown /\ CallersAreNamed /\ NewIsNobodyElses
        /\ OneOpenerPerLock /\ LocksAreTheNames /\ ClosesAreMet /\ OpenersFindNone
        /\ CloserHasThem
        /\ ClosedAreUnnamed /\ SlotsAreNamed /\ PooledAreUnnamed /\ SoundAreTheNames
        /\ BorrowedAreRegistered /\ OneBorrower /\ UsersAreKnown
    BY DEF ManagerInv
  <1> USE DEF ClosedAreUnnamed
  <1>1. ASSUME NEW t \in Tasks, NEW n \in Names, Want(t, n)
        PROVE  ClosedAreUnnamed'
    BY <1>0, <1>1, WantDoes
  <1>2. ASSUME NEW t \in Tasks, NEW user \in BOOLEAN, Exec(t, user)
        PROVE  ClosedAreUnnamed'
    BY <1>0, <1>2, ExecDoes
  <1>3. ASSUME NEW t \in Tasks, Acquire(t)
        PROVE  ClosedAreUnnamed'
    BY <1>0, <1>3, AcquireDoes
  <1>4. ASSUME NEW t \in Tasks, Retire(t)
        PROVE  ClosedAreUnnamed'
    BY <1>0, <1>4, RetireDoes
  <1>5. ASSUME NEW t \in Tasks, Build(t)
        PROVE  ClosedAreUnnamed'
    BY <1>0, <1>5, BuildDoes
  <1>6. ASSUME NEW t \in Tasks, Land(t)
        PROVE  ClosedAreUnnamed'
    BY <1>0, <1>6, LandDoes
  <1>7. ASSUME NEW t \in Tasks, FailLanding(t) \/ LetBe(t) \/ Release(t)
        PROVE  ClosedAreUnnamed'
    BY <1>0, <1>7, CallerMovesOn
  <1>8. ASSUME NEW t \in Tasks, Failed(t)
        PROVE  ClosedAreUnnamed'
    BY <1>0, <1>8, FailedDoes
  <1>9. ASSUME NEW t \in Tasks, Released(t)
        PROVE  ClosedAreUnnamed'
    BY <1>0, <1>9, ReleasedDoes
  <1>10. ASSUME NEW t \in Tasks, Switch(t) \/ Ran(t) \/ Undo(t)
        PROVE  ClosedAreUnnamed'
    BY <1>0, <1>10, BorrowerDoes
  <1>11. ASSUME NEW t \in Tasks, Discarded(t)
        PROVE  ClosedAreUnnamed'
    BY <1>0, <1>11, DiscardedDoes
  <1>12. ASSUME NEW s \in Sessions, Die(s)
        PROVE  ClosedAreUnnamed'
    BY <1>0, <1>12, DieDoes
  <1>13. ASSUME NEW s \in Sessions, NamedClosed(s)
        PROVE  ClosedAreUnnamed'
    BY <1>0, <1>13, NamedClosedDoes
  <1>14. CASE CloseAll
    BY <1>0, <1>14, CloseAllDoes
  <1>15. CASE DefaultClosed
    BY <1>0, <1>15, DefaultClosedDoes
  <1>16. CASE Cleared
    BY <1>0, <1>16, ClearedDoes
  <1>17. CASE UNCHANGED vars
    BY <1>0, <1>17 DEF vars, registry, sessions, closeVars, historyVars
  <1> QED BY <1>1, <1>2, <1>3, <1>4, <1>5, <1>6, <1>7, <1>8, <1>9, <1>10, <1>11, <1>12, <1>13, <1>14, <1>15, <1>16, <1>17
          DEF Next, TaskStep

(* What a slot has was stored under its name.                              *)
LEMMA SlotsStayNamed ==
  ASSUME ManagerInv, [Next]_vars
  PROVE  SlotsAreNamed'
  <1>0. /\ TypeOK /\ OnlyBuiltAreKnown /\ CallersAreNamed /\ NewIsNobodyElses
        /\ OneOpenerPerLock /\ LocksAreTheNames /\ ClosesAreMet /\ OpenersFindNone
        /\ CloserHasThem
        /\ ClosedAreUnnamed /\ SlotsAreNamed /\ PooledAreUnnamed /\ SoundAreTheNames
        /\ BorrowedAreRegistered /\ OneBorrower /\ UsersAreKnown
    BY DEF ManagerInv
  <1> USE DEF SlotsAreNamed
  <1>1. ASSUME NEW t \in Tasks, NEW n \in Names, Want(t, n)
        PROVE  SlotsAreNamed'
    BY <1>0, <1>1, WantDoes
  <1>2. ASSUME NEW t \in Tasks, NEW user \in BOOLEAN, Exec(t, user)
        PROVE  SlotsAreNamed'
    BY <1>0, <1>2, ExecDoes
  <1>3. ASSUME NEW t \in Tasks, Acquire(t)
        PROVE  SlotsAreNamed'
    BY <1>0, <1>3, AcquireDoes
  <1>4. ASSUME NEW t \in Tasks, Retire(t)
        PROVE  SlotsAreNamed'
    BY <1>0, Places, <1>4, RetireDoes
  <1>5. ASSUME NEW t \in Tasks, Build(t)
        PROVE  SlotsAreNamed'
    BY <1>0, <1>5, BuildDoes, NextIsNew
  <1>6. ASSUME NEW t \in Tasks, Land(t)
        PROVE  SlotsAreNamed'
    BY <1>0, Places, <1>6, LandDoes, LandingIsNew DEF Opens
  <1>7. ASSUME NEW t \in Tasks, FailLanding(t) \/ LetBe(t) \/ Release(t)
        PROVE  SlotsAreNamed'
    BY <1>0, <1>7, CallerMovesOn
  <1>8. ASSUME NEW t \in Tasks, Failed(t)
        PROVE  SlotsAreNamed'
    BY <1>0, Places, <1>8, FailedDoes
  <1>9. ASSUME NEW t \in Tasks, Released(t)
        PROVE  SlotsAreNamed'
    BY <1>0, Places, <1>9, ReleasedDoes
  <1>10. ASSUME NEW t \in Tasks, Switch(t) \/ Ran(t) \/ Undo(t)
        PROVE  SlotsAreNamed'
    BY <1>0, <1>10, BorrowerDoes
  <1>11. ASSUME NEW t \in Tasks, Discarded(t)
        PROVE  SlotsAreNamed'
    BY <1>0, Places, <1>11, DiscardedDoes
  <1>12. ASSUME NEW s \in Sessions, Die(s)
        PROVE  SlotsAreNamed'
    BY <1>0, <1>12, DieDoes
  <1>13. ASSUME NEW s \in Sessions, NamedClosed(s)
        PROVE  SlotsAreNamed'
    BY <1>0, Places, <1>13, NamedClosedDoes
  <1>14. CASE CloseAll
    BY <1>0, <1>14, CloseAllDoes
  <1>15. CASE DefaultClosed
    BY <1>0, Places, <1>15, DefaultClosedDoes
  <1>16. CASE Cleared
    BY <1>0, Places, <1>16, ClearedDoes
  <1>17. CASE UNCHANGED vars
    BY <1>0, <1>17 DEF vars, registry, sessions, closeVars, historyVars
  <1> QED BY <1>1, <1>2, <1>3, <1>4, <1>5, <1>6, <1>7, <1>8, <1>9, <1>10, <1>11, <1>12, <1>13, <1>14, <1>15, <1>16, <1>17
          DEF Next, TaskStep

(* What the pool registered was not.                                       *)
LEMMA PooledStayUnnamed ==
  ASSUME ManagerInv, [Next]_vars
  PROVE  PooledAreUnnamed'
  <1>0. /\ TypeOK /\ OnlyBuiltAreKnown /\ CallersAreNamed /\ NewIsNobodyElses
        /\ OneOpenerPerLock /\ LocksAreTheNames /\ ClosesAreMet /\ OpenersFindNone
        /\ CloserHasThem
        /\ ClosedAreUnnamed /\ SlotsAreNamed /\ PooledAreUnnamed /\ SoundAreTheNames
        /\ BorrowedAreRegistered /\ OneBorrower /\ UsersAreKnown
    BY DEF ManagerInv
  <1> USE DEF PooledAreUnnamed
  <1>1. ASSUME NEW t \in Tasks, NEW n \in Names, Want(t, n)
        PROVE  PooledAreUnnamed'
    BY <1>0, <1>1, WantDoes
  <1>2. ASSUME NEW t \in Tasks, NEW user \in BOOLEAN, Exec(t, user)
        PROVE  PooledAreUnnamed'
    BY <1>0, <1>2, ExecDoes
  <1>3. ASSUME NEW t \in Tasks, Acquire(t)
        PROVE  PooledAreUnnamed'
    BY <1>0, <1>3, AcquireDoes
  <1>4. ASSUME NEW t \in Tasks, Retire(t)
        PROVE  PooledAreUnnamed'
    BY <1>0, Places, <1>4, RetireDoes
  <1>5. ASSUME NEW t \in Tasks, Build(t)
        PROVE  PooledAreUnnamed'
    BY <1>0, <1>5, BuildDoes, NextIsNew
  <1>6. ASSUME NEW t \in Tasks, Land(t)
        PROVE  PooledAreUnnamed'
    BY <1>0, Places, <1>6, LandDoes, LandingIsNew DEF Opens
  <1>7. ASSUME NEW t \in Tasks, FailLanding(t) \/ LetBe(t) \/ Release(t)
        PROVE  PooledAreUnnamed'
    BY <1>0, <1>7, CallerMovesOn
  <1>8. ASSUME NEW t \in Tasks, Failed(t)
        PROVE  PooledAreUnnamed'
    BY <1>0, Places, <1>8, FailedDoes
  <1>9. ASSUME NEW t \in Tasks, Released(t)
        PROVE  PooledAreUnnamed'
    BY <1>0, Places, <1>9, ReleasedDoes
  <1>10. ASSUME NEW t \in Tasks, Switch(t) \/ Ran(t) \/ Undo(t)
        PROVE  PooledAreUnnamed'
    BY <1>0, <1>10, BorrowerDoes
  <1>11. ASSUME NEW t \in Tasks, Discarded(t)
        PROVE  PooledAreUnnamed'
    BY <1>0, Places, <1>11, DiscardedDoes
  <1>12. ASSUME NEW s \in Sessions, Die(s)
        PROVE  PooledAreUnnamed'
    BY <1>0, <1>12, DieDoes
  <1>13. ASSUME NEW s \in Sessions, NamedClosed(s)
        PROVE  PooledAreUnnamed'
    BY <1>0, Places, <1>13, NamedClosedDoes
  <1>14. CASE CloseAll
    BY <1>0, <1>14, CloseAllDoes
  <1>15. CASE DefaultClosed
    BY <1>0, Places, <1>15, DefaultClosedDoes
  <1>16. CASE Cleared
    BY <1>0, <1>16, ClearedDoes
  <1>17. CASE UNCHANGED vars
    BY <1>0, <1>17 DEF vars, registry, sessions, closeVars, historyVars
  <1> QED BY <1>1, <1>2, <1>3, <1>4, <1>5, <1>6, <1>7, <1>8, <1>9, <1>10, <1>11, <1>12, <1>13, <1>14, <1>15, <1>16, <1>17
          DEF Next, TaskStep

(* A sound session comes into a slot from a caller that met no close.      *)
LandsUnmet(t, n, s) ==
    /\ task[t].at = "landing" /\ ~task[t].met /\ task[t].name = n /\ task[t].s = s
    /\ task'[t].at \in Execing \cup {"using"}

SoundSlotsFollow ==
    \A n \in Names : slot'[n] \in Sound' =>
        \/ slot'[n] = slot[n] /\ slot[n] \in Sound
        \/ n # Pool /\ \E t \in Tasks : LandsUnmet(t, n, slot'[n])

LEMMA SlotsFollowSoundly ==
  ASSUME ManagerInv, [Next]_vars
  PROVE  SoundSlotsFollow
  <1>0. /\ TypeOK /\ OnlyBuiltAreKnown /\ CallersAreNamed /\ NewIsNobodyElses
        /\ OneOpenerPerLock /\ LocksAreTheNames /\ ClosesAreMet /\ OpenersFindNone
        /\ CloserHasThem
        /\ ClosedAreUnnamed /\ SlotsAreNamed /\ PooledAreUnnamed /\ SoundAreTheNames
        /\ BorrowedAreRegistered /\ OneBorrower /\ UsersAreKnown
    BY DEF ManagerInv
  <1> USE DEF SoundSlotsFollow, LandsUnmet, Becomes, Execing
  <1>1. ASSUME NEW t \in Tasks, NEW n \in Names, Want(t, n)
        PROVE  SoundSlotsFollow
    BY <1>0, <1>1, WantDoes, SoundStay
  <1>2. ASSUME NEW t \in Tasks, NEW user \in BOOLEAN, Exec(t, user)
        PROVE  SoundSlotsFollow
    BY <1>0, <1>2, ExecDoes, SoundStay
  <1>3. ASSUME NEW t \in Tasks, Acquire(t)
        PROVE  SoundSlotsFollow
    BY <1>0, <1>3, AcquireDoes, SoundStay
  <1>4. ASSUME NEW t \in Tasks, Retire(t)
        PROVE  SoundSlotsFollow
    BY <1>0, <1>4, RetireDoes
  <1>5. ASSUME NEW t \in Tasks, Build(t)
        PROVE  SoundSlotsFollow
    BY <1>0, <1>5, BuildDoes, NextIsNew
  <1>6. ASSUME NEW t \in Tasks, Land(t)
        PROVE  SoundSlotsFollow
    BY <1>0, <1>6, LandDoes, LandingIsNew DEF Opens
  <1>7. ASSUME NEW t \in Tasks, FailLanding(t) \/ LetBe(t) \/ Release(t)
        PROVE  SoundSlotsFollow
    BY <1>0, <1>7, CallerMovesOn, SoundStay
  <1>8. ASSUME NEW t \in Tasks, Failed(t)
        PROVE  SoundSlotsFollow
    BY <1>0, <1>8, FailedDoes
  <1>9. ASSUME NEW t \in Tasks, Released(t)
        PROVE  SoundSlotsFollow
    BY <1>0, Places, <1>9, ReleasedDoes
  <1>10. ASSUME NEW t \in Tasks, Switch(t) \/ Ran(t) \/ Undo(t)
        PROVE  SoundSlotsFollow
    BY <1>0, <1>10, BorrowerDoes, SoundStay
  <1>11. ASSUME NEW t \in Tasks, Discarded(t)
        PROVE  SoundSlotsFollow
    BY <1>0, <1>11, DiscardedDoes
  <1>12. ASSUME NEW s \in Sessions, Die(s)
        PROVE  SoundSlotsFollow
    BY <1>12, DieDoes, SoundStay
  <1>13. ASSUME NEW s \in Sessions, NamedClosed(s)
        PROVE  SoundSlotsFollow
    BY <1>0, Places, <1>13, NamedClosedDoes
  <1>14. CASE CloseAll
    BY <1>0, <1>14, CloseAllDoes, SoundStay
  <1>15. CASE DefaultClosed
    BY <1>0, Places, <1>15, DefaultClosedDoes
  <1>16. CASE Cleared
    BY <1>0, Places, <1>16, ClearedDoes, SoundStay
  <1>17. CASE UNCHANGED vars
    BY <1>17, SoundStay DEF vars, registry, sessions, closeVars, historyVars
  <1> QED BY <1>1, <1>2, <1>3, <1>4, <1>5, <1>6, <1>7, <1>8, <1>9, <1>10, <1>11, <1>12, <1>13, <1>14, <1>15, <1>16, <1>17
          DEF Next, TaskStep

(* And so into the pool's registry.                                        *)
SoundPooledFollow ==
    \A x \in pooled' : x \in Sound' =>
        \/ x \in pooled /\ x \in Sound
        \/ \E t \in Tasks : LandsUnmet(t, Pool, x)

LEMMA PooledFollowSoundly ==
  ASSUME ManagerInv, [Next]_vars
  PROVE  SoundPooledFollow
  <1>0. /\ TypeOK /\ OnlyBuiltAreKnown /\ CallersAreNamed /\ NewIsNobodyElses
        /\ OneOpenerPerLock /\ LocksAreTheNames /\ ClosesAreMet /\ OpenersFindNone
        /\ CloserHasThem
        /\ ClosedAreUnnamed /\ SlotsAreNamed /\ PooledAreUnnamed /\ SoundAreTheNames
        /\ BorrowedAreRegistered /\ OneBorrower /\ UsersAreKnown
    BY DEF ManagerInv
  <1> USE DEF SoundPooledFollow, LandsUnmet, Becomes, Execing
  <1>1. ASSUME NEW t \in Tasks, NEW n \in Names, Want(t, n)
        PROVE  SoundPooledFollow
    BY <1>0, <1>1, WantDoes, SoundStay
  <1>2. ASSUME NEW t \in Tasks, NEW user \in BOOLEAN, Exec(t, user)
        PROVE  SoundPooledFollow
    BY <1>0, <1>2, ExecDoes, SoundStay
  <1>3. ASSUME NEW t \in Tasks, Acquire(t)
        PROVE  SoundPooledFollow
    BY <1>0, <1>3, AcquireDoes, SoundStay
  <1>4. ASSUME NEW t \in Tasks, Retire(t)
        PROVE  SoundPooledFollow
    BY <1>0, <1>4, RetireDoes
  <1>5. ASSUME NEW t \in Tasks, Build(t)
        PROVE  SoundPooledFollow
    BY <1>0, <1>5, BuildDoes, NextIsNew
  <1>6. ASSUME NEW t \in Tasks, Land(t)
        PROVE  SoundPooledFollow
    BY <1>0, <1>6, LandDoes, LandingIsNew DEF Opens
  <1>7. ASSUME NEW t \in Tasks, FailLanding(t) \/ LetBe(t) \/ Release(t)
        PROVE  SoundPooledFollow
    BY <1>0, <1>7, CallerMovesOn, SoundStay
  <1>8. ASSUME NEW t \in Tasks, Failed(t)
        PROVE  SoundPooledFollow
    BY <1>0, <1>8, FailedDoes
  <1>9. ASSUME NEW t \in Tasks, Released(t)
        PROVE  SoundPooledFollow
    BY <1>0, <1>9, ReleasedDoes
  <1>10. ASSUME NEW t \in Tasks, Switch(t) \/ Ran(t) \/ Undo(t)
        PROVE  SoundPooledFollow
    BY <1>0, <1>10, BorrowerDoes, SoundStay
  <1>11. ASSUME NEW t \in Tasks, Discarded(t)
        PROVE  SoundPooledFollow
    BY <1>0, <1>11, DiscardedDoes
  <1>12. ASSUME NEW s \in Sessions, Die(s)
        PROVE  SoundPooledFollow
    BY <1>12, DieDoes, SoundStay
  <1>13. ASSUME NEW s \in Sessions, NamedClosed(s)
        PROVE  SoundPooledFollow
    BY <1>0, <1>13, NamedClosedDoes
  <1>14. CASE CloseAll
    BY <1>0, <1>14, CloseAllDoes, SoundStay
  <1>15. CASE DefaultClosed
    BY <1>0, <1>15, DefaultClosedDoes
  <1>16. CASE Cleared
    BY <1>0, <1>16, ClearedDoes
  <1>17. CASE UNCHANGED vars
    BY <1>17, SoundStay DEF vars, registry, sessions, closeVars, historyVars
  <1> QED BY <1>1, <1>2, <1>3, <1>4, <1>5, <1>6, <1>7, <1>8, <1>9, <1>10, <1>11, <1>12, <1>13, <1>14, <1>15, <1>16, <1>17
          DEF Next, TaskStep

(* A session is given a name where it lands, and it goes when it is closed.*)
NamesFollow ==
    \A x \in Sessions :
        \/ nameOf'[x] = nameOf[x]
        \/ nameOf'[x] = Pool /\ x \notin Sound'
        \/ \E t \in Tasks : /\ task[t].at = "landing" /\ task[t].s = x /\ task[t].name = nameOf'[x]
                            /\ nameOf'[x] \in Names => slot'[nameOf'[x]] = x

LEMMA NamesTravel ==
  ASSUME ManagerInv, [Next]_vars
  PROVE  NamesFollow
  <1>0. /\ TypeOK /\ OnlyBuiltAreKnown /\ CallersAreNamed /\ NewIsNobodyElses
        /\ OneOpenerPerLock /\ LocksAreTheNames /\ ClosesAreMet /\ OpenersFindNone
        /\ CloserHasThem
        /\ ClosedAreUnnamed /\ SlotsAreNamed /\ PooledAreUnnamed /\ SoundAreTheNames
        /\ BorrowedAreRegistered /\ OneBorrower /\ UsersAreKnown
    BY DEF ManagerInv
  <1> USE DEF NamesFollow
  <1>1. ASSUME NEW t \in Tasks, NEW n \in Names, Want(t, n)
        PROVE  NamesFollow
    BY <1>0, <1>1, WantDoes
  <1>2. ASSUME NEW t \in Tasks, NEW user \in BOOLEAN, Exec(t, user)
        PROVE  NamesFollow
    BY <1>0, <1>2, ExecDoes
  <1>3. ASSUME NEW t \in Tasks, Acquire(t)
        PROVE  NamesFollow
    BY <1>0, <1>3, AcquireDoes
  <1>4. ASSUME NEW t \in Tasks, Retire(t)
        PROVE  NamesFollow
    BY <1>0, <1>4, RetireDoes
  <1>5. ASSUME NEW t \in Tasks, Build(t)
        PROVE  NamesFollow
    BY <1>0, <1>5, BuildDoes
  <1>6. ASSUME NEW t \in Tasks, Land(t)
        PROVE  NamesFollow
    BY <1>0, <1>6, LandDoes, LandingIsNew, NameAssumption DEF Opens
  <1>7. ASSUME NEW t \in Tasks, FailLanding(t) \/ LetBe(t) \/ Release(t)
        PROVE  NamesFollow
    BY <1>0, <1>7, CallerMovesOn
  <1>8. ASSUME NEW t \in Tasks, Failed(t)
        PROVE  NamesFollow
    BY <1>0, <1>8, FailedDoes
  <1>9. ASSUME NEW t \in Tasks, Released(t)
        PROVE  NamesFollow
    BY <1>0, <1>9, ReleasedDoes
  <1>10. ASSUME NEW t \in Tasks, Switch(t) \/ Ran(t) \/ Undo(t)
        PROVE  NamesFollow
    BY <1>0, <1>10, BorrowerDoes
  <1>11. ASSUME NEW t \in Tasks, Discarded(t)
        PROVE  NamesFollow
    BY <1>0, <1>11, DiscardedDoes
  <1>12. ASSUME NEW s \in Sessions, Die(s)
        PROVE  NamesFollow
    BY <1>12, DieDoes
  <1>13. ASSUME NEW s \in Sessions, NamedClosed(s)
        PROVE  NamesFollow
    BY <1>0, <1>13, NamedClosedDoes
  <1>14. CASE CloseAll
    BY <1>0, <1>14, CloseAllDoes
  <1>15. CASE DefaultClosed
    BY <1>0, <1>15, DefaultClosedDoes
  <1>16. CASE Cleared
    BY <1>0, <1>16, ClearedDoes
  <1>17. CASE UNCHANGED vars
    BY <1>17 DEF vars, registry, sessions, closeVars, historyVars
  <1> QED BY <1>1, <1>2, <1>3, <1>4, <1>5, <1>6, <1>7, <1>8, <1>9, <1>10, <1>11, <1>12, <1>13, <1>14, <1>15, <1>16, <1>17
          DEF Next, TaskStep

(* How a close goes on.                                                    *)
CloserFollows ==
    \/ closer' = closer /\ closing' = closing
    \/ /\ closer = "named" /\ closer' = "named" /\ closing' \subseteq closing
       /\ \A x \in closing : x \in closing' \/ x \notin Sound'
    \/ closer = "idle" /\ closer' = "default" /\ closing' = {slot[Default]} /\ slot' = slot
    \/ /\ closer # "named" /\ closer' = "named" /\ closing' = Named /\ pooled' = pooled
       /\ \A n \in Names \ {Default} : slot'[n] = slot[n]
    \/ closer' = "idle" /\ closing' = {}

LEMMA CloserTravels ==
  ASSUME ManagerInv, [Next]_vars
  PROVE  CloserFollows
  <1>0. /\ TypeOK /\ OnlyBuiltAreKnown /\ CallersAreNamed /\ NewIsNobodyElses
        /\ OneOpenerPerLock /\ LocksAreTheNames /\ ClosesAreMet /\ OpenersFindNone
        /\ CloserHasThem
        /\ ClosedAreUnnamed /\ SlotsAreNamed /\ PooledAreUnnamed /\ SoundAreTheNames
        /\ BorrowedAreRegistered /\ OneBorrower /\ UsersAreKnown
    BY DEF ManagerInv
  <1> USE DEF CloserFollows
  <1>1. ASSUME NEW t \in Tasks, NEW n \in Names, Want(t, n)
        PROVE  CloserFollows
    BY <1>0, <1>1, WantDoes
  <1>2. ASSUME NEW t \in Tasks, NEW user \in BOOLEAN, Exec(t, user)
        PROVE  CloserFollows
    BY <1>0, <1>2, ExecDoes
  <1>3. ASSUME NEW t \in Tasks, Acquire(t)
        PROVE  CloserFollows
    BY <1>0, <1>3, AcquireDoes
  <1>4. ASSUME NEW t \in Tasks, Retire(t)
        PROVE  CloserFollows
    BY <1>0, <1>4, RetireDoes
  <1>5. ASSUME NEW t \in Tasks, Build(t)
        PROVE  CloserFollows
    BY <1>0, <1>5, BuildDoes
  <1>6. ASSUME NEW t \in Tasks, Land(t)
        PROVE  CloserFollows
    BY <1>0, <1>6, LandDoes
  <1>7. ASSUME NEW t \in Tasks, FailLanding(t) \/ LetBe(t) \/ Release(t)
        PROVE  CloserFollows
    BY <1>0, <1>7, CallerMovesOn
  <1>8. ASSUME NEW t \in Tasks, Failed(t)
        PROVE  CloserFollows
    BY <1>0, <1>8, FailedDoes
  <1>9. ASSUME NEW t \in Tasks, Released(t)
        PROVE  CloserFollows
    BY <1>0, <1>9, ReleasedDoes
  <1>10. ASSUME NEW t \in Tasks, Switch(t) \/ Ran(t) \/ Undo(t)
        PROVE  CloserFollows
    BY <1>0, <1>10, BorrowerDoes
  <1>11. ASSUME NEW t \in Tasks, Discarded(t)
        PROVE  CloserFollows
    BY <1>0, <1>11, DiscardedDoes
  <1>12. ASSUME NEW s \in Sessions, Die(s)
        PROVE  CloserFollows
    BY <1>12, DieDoes
  <1>13. ASSUME NEW s \in Sessions, NamedClosed(s)
        PROVE  CloserFollows
    BY <1>0, <1>13, NamedClosedDoes
  <1>14. CASE CloseAll
    BY <1>0, <1>14, CloseAllDoes
  <1>15. CASE DefaultClosed
    BY <1>0, <1>15, DefaultClosedDoes
  <1>16. CASE Cleared
    BY <1>0, <1>16, ClearedDoes
  <1>17. CASE UNCHANGED vars
    BY <1>17 DEF vars, registry, sessions, closeVars, historyVars
  <1> QED BY <1>1, <1>2, <1>3, <1>4, <1>5, <1>6, <1>7, <1>8, <1>9, <1>10, <1>11, <1>12, <1>13, <1>14, <1>15, <1>16, <1>17
          DEF Next, TaskStep

(* Who opens without having met a close did so before, or finds no live    *)
(* session under the lock; what it retires is no longer sound.             *)
OpenersFollow ==
    \A u \in Tasks : task'[u].at \in Opening /\ ~task'[u].met /\ task'[u].name # Pool =>
        \/ Acquire(u)
        \/ /\ task[u].at \in Opening /\ ~task[u].met /\ task'[u].name = task[u].name
           /\ \/ task'[u].at = task[u].at /\ task'[u].s = task[u].s
              \/ task[u].at = "retiring" /\ task[u].s \notin Sound'
              \/ task[u].at \in {"building", "landing", "failing"}

LEMMA OpenersTravel ==
  ASSUME ManagerInv, [Next]_vars
  PROVE  OpenersFollow
  <1>0. /\ TypeOK /\ OnlyBuiltAreKnown /\ CallersAreNamed /\ NewIsNobodyElses
        /\ OneOpenerPerLock /\ LocksAreTheNames /\ ClosesAreMet /\ OpenersFindNone
        /\ CloserHasThem
        /\ ClosedAreUnnamed /\ SlotsAreNamed /\ PooledAreUnnamed /\ SoundAreTheNames
        /\ BorrowedAreRegistered /\ OneBorrower /\ UsersAreKnown
    BY DEF ManagerInv
  <1> USE DEF OpenersFollow, Becomes, Keeps, Opening, Execing
  <1>1. ASSUME NEW t \in Tasks, NEW n \in Names, Want(t, n)
        PROVE  OpenersFollow
    BY <1>0, <1>1, WantDoes
  <1>2. ASSUME NEW t \in Tasks, NEW user \in BOOLEAN, Exec(t, user)
        PROVE  OpenersFollow
    BY <1>0, <1>2, ExecDoes
  <1>3. ASSUME NEW t \in Tasks, Acquire(t)
        PROVE  OpenersFollow
    BY <1>0, <1>3, AcquireDoes
  <1>4. ASSUME NEW t \in Tasks, Retire(t)
        PROVE  OpenersFollow
    BY <1>0, <1>4, RetireDoes
  <1>5. ASSUME NEW t \in Tasks, Build(t)
        PROVE  OpenersFollow
    BY <1>0, <1>5, BuildDoes
  <1>6. ASSUME NEW t \in Tasks, Land(t)
        PROVE  OpenersFollow
    BY <1>0, <1>6, LandDoes
  <1>7. ASSUME NEW t \in Tasks, FailLanding(t) \/ LetBe(t) \/ Release(t)
        PROVE  OpenersFollow
    BY <1>0, <1>7, CallerMovesOn
  <1>8. ASSUME NEW t \in Tasks, Failed(t)
        PROVE  OpenersFollow
    BY <1>0, <1>8, FailedDoes
  <1>9. ASSUME NEW t \in Tasks, Released(t)
        PROVE  OpenersFollow
    BY <1>0, <1>9, ReleasedDoes
  <1>10. ASSUME NEW t \in Tasks, Switch(t) \/ Ran(t) \/ Undo(t)
        PROVE  OpenersFollow
    BY <1>0, <1>10, BorrowerDoes
  <1>11. ASSUME NEW t \in Tasks, Discarded(t)
        PROVE  OpenersFollow
    BY <1>0, <1>11, DiscardedDoes
  <1>12. ASSUME NEW s \in Sessions, Die(s)
        PROVE  OpenersFollow
    BY <1>12, DieDoes
  <1>13. ASSUME NEW s \in Sessions, NamedClosed(s)
        PROVE  OpenersFollow
    BY <1>0, <1>13, NamedClosedDoes
  <1>14. CASE CloseAll
    BY <1>0, <1>14, CloseAllDoes
  <1>15. CASE DefaultClosed
    BY <1>0, <1>15, DefaultClosedDoes
  <1>16. CASE Cleared
    BY <1>0, <1>16, ClearedDoes
  <1>17. CASE UNCHANGED vars
    BY <1>17 DEF vars, registry, sessions, closeVars, historyVars
  <1> QED BY <1>1, <1>2, <1>3, <1>4, <1>5, <1>6, <1>7, <1>8, <1>9, <1>10, <1>11, <1>12, <1>13, <1>14, <1>15, <1>16, <1>17
          DEF Next, TaskStep

(* A borrower keeps its session, or it gives it back as it was before.     *)
LEMMA BorrowerEnds ==
  ASSUME ManagerInv, NEW t \in Tasks, Switch(t) \/ Ran(t) \/ Undo(t)
  PROVE  LET s == task[t].s
         IN  /\ task[t].at \in Execing /\ s \in Sessions /\ s \notin Idles
             /\ UNCHANGED <<slot, pooled, locks, built, open, living, closer, closing, nameOf,
                            overtaken, evicted>>
             /\ \A u \in Tasks : u # t => task'[u] = task[u]
             /\ \A x : x # s => (x \in told' => x \in told) /\ (x \in other' => x \in other)
             /\ ~task'[t].was
             /\ \/ /\ Idles' = Idles /\ NoTwins'
                   /\ task'[t].s = s /\ task'[t].at \in Execing \cup {"discarding"}
                   /\ task'[t].at \in Execing /\ s \in living => s \in told'
                   /\ task'[t].at # "switching"
                   /\ task'[t].at \in Execing => task'[t].switched
                \/ /\ Idles' = Idles \cup {s} /\ NoTwins'
                   /\ task'[t].s = None /\ task'[t].at = "idle"
                   /\ s \notin told' /\ s \notin other'
  <1> DEFINE s == task[t].s
  <1>0. TypeOK /\ CallersAreNamed /\ OneBorrower /\ UsersAreKnown
    BY DEF ManagerInv
  <1>1. task[t].at \in Execing /\ s \notin Idles /\ NoTwins /\ s # None /\ ~task[t].was
    BY <1>0, BorrowerDoes DEF OneBorrower, CallersAreNamed, UsersAreKnown
  <1>2. s \in Sessions
    <2>1. s \in 0..MaxSessions
      BY <1>0, CallerFields
    <2> HIDE DEF s
    <2> QED BY <1>1, <2>1, NameAssumption DEF Sessions, None
  <1>3. /\ UNCHANGED <<slot, pooled, locks, built, open, living, closer, closing, nameOf,
                       overtaken, evicted>>
        /\ \A u \in Tasks : u # t => task'[u] = task[u]
        /\ \A x : x # s => (x \in told' => x \in told) /\ (x \in other' => x \in other)
    BY <1>0, BorrowerDoes DEF Becomes
  <1>4. CASE task[t].at = "switching" /\ Becomes(t, "running", task[t].name, s) /\ Keeps(t)
             /\ UNCHANGED pool /\ s \in told'
    BY <1>0, <1>1, <1>2, <1>3, <1>4, IdlesStay DEF Becomes, Keeps, Execing, UsersAreKnown
  <1>5. CASE task[t].at = "running" /\ task[t].switched
             /\ Becomes(t, "undoing", task[t].name, s) /\ Keeps(t)
             /\ UNCHANGED pool /\ told' = told
    <2>1. s \in living => s \in told'
      BY <1>0, <1>5 DEF UsersAreKnown
    <2> QED BY <1>1, <1>2, <1>3, <1>5, <2>1, IdlesStay DEF Becomes, Keeps, Execing
  <1>6. CASE Becomes(t, "discarding", task[t].name, s) /\ Keeps(t) /\ UNCHANGED pool
    BY <1>1, <1>2, <1>3, <1>6, IdlesStay DEF Becomes, Keeps, Execing
  <1>7. CASE /\ s \in living /\ pool' = Append(pool, s)
             /\ Becomes(t, "idle", Default, None) /\ ~task'[t].was
             /\ \/ /\ task[t].at = "running" /\ ~task[t].switched
                   /\ told' = told /\ other' = other
                \/ /\ task[t].at = "undoing"
                   /\ \/ s \notin told' /\ s \notin other'
                      \/ told' = told /\ ((s \in told) = task[t].was)
    <2>1. Idles' = Idles \cup {s} /\ NoTwins'
      BY <1>0, <1>1, <1>2, <1>7, IdlesArePushed
    <2>2. s \notin told' /\ s \notin other'
      <3>1. CASE task[t].at = "running" /\ ~task[t].switched /\ told' = told /\ other' = other
        BY <1>0, <1>7, <3>1 DEF UsersAreKnown
      <3>2. CASE task[t].at = "undoing"
        BY <1>0, <1>1, <1>7, <3>2 DEF UsersAreKnown
      <3> QED BY <1>7, <3>1, <3>2
    <2> QED BY <1>1, <1>2, <1>3, <1>7, <2>1, <2>2 DEF Becomes
  <1> QED BY <1>0, <1>4, <1>5, <1>6, <1>7, BorrowerDoes


(* Pooled sessions stay registered.                                        *)
LEMMA BorrowedStayRegistered ==
  ASSUME ManagerInv, [Next]_vars
  PROVE  BorrowedAreRegistered'
  <1>0. /\ TypeOK /\ OnlyBuiltAreKnown /\ CallersAreNamed /\ NewIsNobodyElses
        /\ OneOpenerPerLock /\ LocksAreTheNames /\ ClosesAreMet /\ OpenersFindNone
        /\ CloserHasThem
        /\ ClosedAreUnnamed /\ SlotsAreNamed /\ PooledAreUnnamed /\ SoundAreTheNames
        /\ BorrowedAreRegistered /\ OneBorrower /\ UsersAreKnown
    BY DEF ManagerInv
  <1> USE DEF BorrowedAreRegistered, Becomes, Keeps, Execing
  <1>1. ASSUME NEW t \in Tasks, NEW n \in Names, Want(t, n)
        PROVE  BorrowedAreRegistered'
    BY <1>0, <1>1, WantDoes, IdlesStay, SoundStay
  <1>2. ASSUME NEW t \in Tasks, NEW user \in BOOLEAN, Exec(t, user)
        PROVE  BorrowedAreRegistered'
    BY <1>0, <1>2, ExecDoes, SoundStay
  <1>3. ASSUME NEW t \in Tasks, Acquire(t)
        PROVE  BorrowedAreRegistered'
    BY <1>0, <1>3, AcquireDoes, IdlesStay, SoundStay
  <1>4. ASSUME NEW t \in Tasks, Retire(t)
        PROVE  BorrowedAreRegistered'
    BY <1>0, <1>4, RetireDoes, IdlesStay
  <1>5. ASSUME NEW t \in Tasks, Build(t)
        PROVE  BorrowedAreRegistered'
    BY <1>0, <1>5, BuildDoes, NextIsNew, IdlesStay
  <1>6. ASSUME NEW t \in Tasks, Land(t)
        PROVE  BorrowedAreRegistered'
    BY <1>0, <1>6, LandDoes, LandingIsNew, IdlesStay DEF Opens
  <1>7. ASSUME NEW t \in Tasks, FailLanding(t) \/ LetBe(t) \/ Release(t)
        PROVE  BorrowedAreRegistered'
    BY <1>0, <1>7, CallerMovesOn, IdlesStay, SoundStay
  <1>8. ASSUME NEW t \in Tasks, Failed(t)
        PROVE  BorrowedAreRegistered'
    BY <1>0, <1>8, FailedDoes, IdlesStay
  <1>9. ASSUME NEW t \in Tasks, Released(t)
        PROVE  BorrowedAreRegistered'
    BY <1>0, <1>9, ReleasedDoes, IdlesStay
  <1>10. ASSUME NEW t \in Tasks, Switch(t) \/ Ran(t) \/ Undo(t)
        PROVE  BorrowedAreRegistered'
    BY <1>0, <1>10, BorrowerEnds, SoundStay
  <1>11. ASSUME NEW t \in Tasks, Discarded(t)
        PROVE  BorrowedAreRegistered'
    BY <1>0, <1>11, DiscardedDoes, IdlesStay
  <1>12. ASSUME NEW s \in Sessions, Die(s)
        PROVE  BorrowedAreRegistered'
    BY <1>0, <1>12, DieDoes, IdlesStay, SoundStay
  <1>13. ASSUME NEW s \in Sessions, NamedClosed(s)
        PROVE  BorrowedAreRegistered'
    BY <1>0, <1>13, NamedClosedDoes, IdlesStay
  <1>14. CASE CloseAll
    BY <1>0, <1>14, CloseAllDoes, IdlesStay, SoundStay
  <1>15. CASE DefaultClosed
    BY <1>0, <1>15, DefaultClosedDoes, IdlesStay
  <1>16. CASE Cleared
    BY <1>0, <1>16, ClearedDoes, IdlesStay, SoundStay DEF CloserHasThem
  <1>17. CASE UNCHANGED vars
    BY <1>0, <1>17, IdlesStay, SoundStay DEF vars, registry, sessions, closeVars, historyVars
  <1> QED BY <1>1, <1>2, <1>3, <1>4, <1>5, <1>6, <1>7, <1>8, <1>9, <1>10, <1>11, <1>12, <1>13, <1>14, <1>15, <1>16, <1>17
          DEF Next, TaskStep

(* A pooled session has one borrower.                                      *)
LEMMA OneBorrowerStays ==
  ASSUME ManagerInv, [Next]_vars
  PROVE  OneBorrower'
  <1>0. /\ TypeOK /\ OnlyBuiltAreKnown /\ CallersAreNamed /\ NewIsNobodyElses
        /\ OneOpenerPerLock /\ LocksAreTheNames /\ ClosesAreMet /\ OpenersFindNone
        /\ CloserHasThem
        /\ ClosedAreUnnamed /\ SlotsAreNamed /\ PooledAreUnnamed /\ SoundAreTheNames
        /\ BorrowedAreRegistered /\ OneBorrower /\ UsersAreKnown
    BY DEF ManagerInv
  <1> USE DEF OneBorrower, Becomes, Keeps, Execing
  <1>1. ASSUME NEW t \in Tasks, NEW n \in Names, Want(t, n)
        PROVE  OneBorrower'
    BY <1>0, <1>1, WantDoes, IdlesStay
  <1>2. ASSUME NEW t \in Tasks, NEW user \in BOOLEAN, Exec(t, user)
        PROVE  OneBorrower'
    BY <1>0, <1>2, ExecDoes
  <1>3. ASSUME NEW t \in Tasks, Acquire(t)
        PROVE  OneBorrower'
    BY <1>0, <1>3, AcquireDoes, IdlesStay
  <1>4. ASSUME NEW t \in Tasks, Retire(t)
        PROVE  OneBorrower'
    BY <1>0, <1>4, RetireDoes, IdlesStay
  <1>5. ASSUME NEW t \in Tasks, Build(t)
        PROVE  OneBorrower'
    BY <1>0, <1>5, BuildDoes, IdlesStay
  <1>6. ASSUME NEW t \in Tasks, Land(t)
        PROVE  OneBorrower'
    BY <1>0, <1>6, LandDoes, LandingIsNew, IdlesStay DEF Opens
  <1>7. ASSUME NEW t \in Tasks, FailLanding(t) \/ LetBe(t) \/ Release(t)
        PROVE  OneBorrower'
    BY <1>0, <1>7, CallerMovesOn, IdlesStay
  <1>8. ASSUME NEW t \in Tasks, Failed(t)
        PROVE  OneBorrower'
    BY <1>0, <1>8, FailedDoes, IdlesStay
  <1>9. ASSUME NEW t \in Tasks, Released(t)
        PROVE  OneBorrower'
    BY <1>0, <1>9, ReleasedDoes, IdlesStay
  <1>10. ASSUME NEW t \in Tasks, Switch(t) \/ Ran(t) \/ Undo(t)
        PROVE  OneBorrower'
    BY <1>0, <1>10, BorrowerEnds
  <1>11. ASSUME NEW t \in Tasks, Discarded(t)
        PROVE  OneBorrower'
    BY <1>0, <1>11, DiscardedDoes, IdlesStay
  <1>12. ASSUME NEW s \in Sessions, Die(s)
        PROVE  OneBorrower'
    BY <1>0, <1>12, DieDoes, IdlesStay
  <1>13. ASSUME NEW s \in Sessions, NamedClosed(s)
        PROVE  OneBorrower'
    BY <1>0, <1>13, NamedClosedDoes, IdlesStay
  <1>14. CASE CloseAll
    BY <1>0, <1>14, CloseAllDoes, IdlesStay
  <1>15. CASE DefaultClosed
    BY <1>0, <1>15, DefaultClosedDoes, IdlesStay
  <1>16. CASE Cleared
    BY <1>0, <1>16, ClearedDoes, IdlesStay
  <1>17. CASE UNCHANGED vars
    BY <1>0, <1>17, IdlesStay DEF vars, registry, sessions, closeVars, historyVars
  <1> QED BY <1>1, <1>2, <1>3, <1>4, <1>5, <1>6, <1>7, <1>8, <1>9, <1>10, <1>11, <1>12, <1>13, <1>14, <1>15, <1>16, <1>17
          DEF Next, TaskStep

(* It is known which session runs as whom.                                 *)
LEMMA UsersStayKnown ==
  ASSUME ManagerInv, [Next]_vars
  PROVE  UsersAreKnown'
  <1>0. /\ TypeOK /\ OnlyBuiltAreKnown /\ CallersAreNamed /\ NewIsNobodyElses
        /\ OneOpenerPerLock /\ LocksAreTheNames /\ ClosesAreMet /\ OpenersFindNone
        /\ CloserHasThem
        /\ ClosedAreUnnamed /\ SlotsAreNamed /\ PooledAreUnnamed /\ SoundAreTheNames
        /\ BorrowedAreRegistered /\ OneBorrower /\ UsersAreKnown
    BY DEF ManagerInv
  <1> USE DEF UsersAreKnown, Becomes, Keeps
  <1>1. ASSUME NEW t \in Tasks, NEW n \in Names, Want(t, n)
        PROVE  UsersAreKnown'
    BY <1>0, <1>1, WantDoes, IdlesStay
  <1>2. ASSUME NEW t \in Tasks, NEW user \in BOOLEAN, Exec(t, user)
        PROVE  UsersAreKnown'
    BY <1>0, <1>2, ExecDoes
  <1>3. ASSUME NEW t \in Tasks, Acquire(t)
        PROVE  UsersAreKnown'
    BY <1>0, <1>3, AcquireDoes, IdlesStay
  <1>4. ASSUME NEW t \in Tasks, Retire(t)
        PROVE  UsersAreKnown'
    BY <1>0, <1>4, RetireDoes, IdlesStay
  <1>5. ASSUME NEW t \in Tasks, Build(t)
        PROVE  UsersAreKnown'
    BY <1>0, <1>5, BuildDoes, IdlesStay
  <1>6. ASSUME NEW t \in Tasks, Land(t)
        PROVE  UsersAreKnown'
    <2>1. \A x \in Idles' \cap living' : x \notin told' \cup other'
      BY <1>0, <1>0, <1>6, LandDoes, LandingIsNew, IdlesStay DEF Opens
    <2>2. ASSUME NEW u \in Tasks, u # t
          PROVE  task'[u] = task[u] /\ (task[u].s \in living' <=> task[u].s \in living)
                 /\ told' = told /\ other' = other
      BY <1>0, <1>0, <1>6, <2>2, LandDoes, LandingIsNew DEF Opens
    <2>3. task[t].s \notin told' /\ task[t].s \notin other'
      BY <1>0, <1>0, <1>6, LandDoes, LandingIsNew DEF Opens
    <2>4. /\ ~task'[t].was /\ task'[t].s = task[t].s
          /\ task'[t].at # "undoing" /\ (task'[t].at = "running" => ~task'[t].switched)
          /\ task'[t].at = "switching" => task'[t].switched
      BY <1>0, <1>0, <1>6, LandDoes
    <2> SUFFICES ASSUME NEW u \in Tasks
                 PROVE  (/\ ~task[u].was
                         /\ task[u].at \in {"switching", "undoing"} => task[u].switched
                         /\ task[u].s \in living =>
                              /\ task[u].at = "switching" \/ (task[u].at = "running" /\ ~task[u].switched)
                                    => task[u].s \notin told \cup other
                              /\ task[u].at = "undoing" \/ (task[u].at = "running" /\ task[u].switched)
                                    => task[u].s \in told)'
      BY <2>1
    <2>5. CASE u = t
      BY <2>3, <2>4, <2>5
    <2>6. CASE u # t
      BY <1>0, <1>0, <1>0, <2>2, <2>6
    <2> QED BY <2>5, <2>6
  <1>7. ASSUME NEW t \in Tasks, FailLanding(t) \/ LetBe(t) \/ Release(t)
        PROVE  UsersAreKnown'
    BY <1>0, <1>7, CallerMovesOn, IdlesStay
  <1>8. ASSUME NEW t \in Tasks, Failed(t)
        PROVE  UsersAreKnown'
    BY <1>0, <1>8, FailedDoes, IdlesStay
  <1>9. ASSUME NEW t \in Tasks, Released(t)
        PROVE  UsersAreKnown'
    BY <1>0, <1>9, ReleasedDoes, IdlesStay
  <1>10. ASSUME NEW t \in Tasks, Switch(t) \/ Ran(t) \/ Undo(t)
        PROVE  UsersAreKnown'
    <2>1. \A x \in Idles' \cap living' : x \notin told' \cup other'
      BY <1>0, <1>0, <1>10, BorrowerEnds
    <2>2. ASSUME NEW u \in Tasks, u # t
          PROVE  /\ task'[u] = task[u] /\ living' = living
                 /\ task[u].at \in Execing => task[u].s # task[t].s
      BY <1>0, <1>0, <1>10, <2>2, BorrowerEnds DEF OneBorrower
    <2>3. \A x : x # task[t].s => (x \in told' => x \in told) /\ (x \in other' => x \in other)
      BY <1>10, BorrowerEnds
    <2> SUFFICES ASSUME NEW u \in Tasks
                 PROVE  (/\ ~task[u].was
                         /\ task[u].at \in {"switching", "undoing"} => task[u].switched
                         /\ task[u].s \in living =>
                              /\ task[u].at = "switching" \/ (task[u].at = "running" /\ ~task[u].switched)
                                    => task[u].s \notin told \cup other
                              /\ task[u].at = "undoing" \/ (task[u].at = "running" /\ task[u].switched)
                                    => task[u].s \in told)'
      BY <2>1
    <2>4. CASE u = t
      BY <1>10, <2>4, BorrowerEnds DEF Execing
    <2>5. CASE u # t
      <3>1. task'[u] = task[u] /\ living' = living
        BY <2>2, <2>5
      <3>2. CASE task[u].at \in Execing
        <4>1. task[u].s # task[t].s
          BY <2>2, <2>5, <3>2
        <4>2. (task[u].s \in told' => task[u].s \in told) /\ (task[u].s \in other' => task[u].s \in other)
          BY <2>3, <4>1
        <4>3. task[u].s \in told => task[u].s \in told'
          BY <1>0, <1>0, <1>10, <4>1, BorrowerDoes
        <4> QED BY <1>0, <3>1, <4>2, <4>3
      <3>3. CASE task[u].at \notin Execing
        BY <1>0, <1>0, <1>0, <3>1, <3>3 DEF Execing
      <3> QED BY <3>2, <3>3
    <2> QED BY <2>4, <2>5
  <1>11. ASSUME NEW t \in Tasks, Discarded(t)
        PROVE  UsersAreKnown'
    BY <1>0, <1>11, DiscardedDoes, IdlesStay
  <1>12. ASSUME NEW s \in Sessions, Die(s)
        PROVE  UsersAreKnown'
    BY <1>0, <1>12, DieDoes, IdlesStay
  <1>13. ASSUME NEW s \in Sessions, NamedClosed(s)
        PROVE  UsersAreKnown'
    BY <1>0, <1>13, NamedClosedDoes, IdlesStay
  <1>14. CASE CloseAll
    BY <1>0, <1>14, CloseAllDoes, IdlesStay
  <1>15. CASE DefaultClosed
    BY <1>0, <1>15, DefaultClosedDoes, IdlesStay
  <1>16. CASE Cleared
    BY <1>0, <1>16, ClearedDoes, IdlesStay
  <1>17. CASE UNCHANGED vars
    BY <1>0, <1>17, IdlesStay DEF vars, registry, sessions, closeVars, historyVars
  <1> QED BY <1>1, <1>2, <1>3, <1>4, <1>5, <1>6, <1>7, <1>8, <1>9, <1>10, <1>11, <1>12, <1>13, <1>14, <1>15, <1>16, <1>17
          DEF Next, TaskStep

(* A sound session was one before, or is built and in its caller's hands.  *)
SoundIsBuilt ==
    \A x \in Sound' :
        \/ x \in Sound
        \/ x \notin open /\ \E t \in Tasks : task'[t].s = x /\ task'[t].at = "landing"

LEMMA SoundGrows ==
  ASSUME ManagerInv, [Next]_vars
  PROVE  SoundIsBuilt
  <1>0. /\ TypeOK /\ OnlyBuiltAreKnown /\ CallersAreNamed /\ NewIsNobodyElses
        /\ OneOpenerPerLock /\ LocksAreTheNames /\ ClosesAreMet /\ OpenersFindNone
        /\ CloserHasThem
        /\ ClosedAreUnnamed /\ SlotsAreNamed /\ PooledAreUnnamed /\ SoundAreTheNames
        /\ BorrowedAreRegistered /\ OneBorrower /\ UsersAreKnown
    BY DEF ManagerInv
  <1> USE DEF SoundIsBuilt, Becomes
  <1>1. ASSUME NEW t \in Tasks, NEW n \in Names, Want(t, n)
        PROVE  SoundIsBuilt
    BY <1>0, <1>1, WantDoes, SoundStay
  <1>2. ASSUME NEW t \in Tasks, NEW user \in BOOLEAN, Exec(t, user)
        PROVE  SoundIsBuilt
    BY <1>0, <1>2, ExecDoes, SoundStay
  <1>3. ASSUME NEW t \in Tasks, Acquire(t)
        PROVE  SoundIsBuilt
    BY <1>0, <1>3, AcquireDoes, SoundStay
  <1>4. ASSUME NEW t \in Tasks, Retire(t)
        PROVE  SoundIsBuilt
    BY <1>0, <1>4, RetireDoes
  <1>5. ASSUME NEW t \in Tasks, Build(t)
        PROVE  SoundIsBuilt
    BY <1>0, <1>5, BuildDoes, NextIsNew
  <1>6. ASSUME NEW t \in Tasks, Land(t)
        PROVE  SoundIsBuilt
    BY <1>0, <1>6, LandDoes
  <1>7. ASSUME NEW t \in Tasks, FailLanding(t) \/ LetBe(t) \/ Release(t)
        PROVE  SoundIsBuilt
    BY <1>0, <1>7, CallerMovesOn, SoundStay
  <1>8. ASSUME NEW t \in Tasks, Failed(t)
        PROVE  SoundIsBuilt
    BY <1>0, <1>8, FailedDoes
  <1>9. ASSUME NEW t \in Tasks, Released(t)
        PROVE  SoundIsBuilt
    BY <1>0, <1>9, ReleasedDoes
  <1>10. ASSUME NEW t \in Tasks, Switch(t) \/ Ran(t) \/ Undo(t)
        PROVE  SoundIsBuilt
    BY <1>0, <1>10, BorrowerDoes, SoundStay
  <1>11. ASSUME NEW t \in Tasks, Discarded(t)
        PROVE  SoundIsBuilt
    BY <1>0, <1>11, DiscardedDoes
  <1>12. ASSUME NEW s \in Sessions, Die(s)
        PROVE  SoundIsBuilt
    BY <1>12, DieDoes, SoundStay
  <1>13. ASSUME NEW s \in Sessions, NamedClosed(s)
        PROVE  SoundIsBuilt
    BY <1>0, <1>13, NamedClosedDoes
  <1>14. CASE CloseAll
    BY <1>0, <1>14, CloseAllDoes, SoundStay
  <1>15. CASE DefaultClosed
    BY <1>0, <1>15, DefaultClosedDoes
  <1>16. CASE Cleared
    BY <1>0, <1>16, ClearedDoes, SoundStay
  <1>17. CASE UNCHANGED vars
    BY <1>17, SoundStay DEF vars, registry, sessions, closeVars, historyVars
  <1> QED BY <1>1, <1>2, <1>3, <1>4, <1>5, <1>6, <1>7, <1>8, <1>9, <1>10, <1>11, <1>12, <1>13, <1>14, <1>15, <1>16, <1>17
          DEF Next, TaskStep

(* A sound session stays registered and before its close_all.              *)
RegistryKept ==
    /\ \A n \in Names : slot[n] \in Sound' => slot'[n] = slot[n]
    /\ pooled \cap Sound' \subseteq pooled'
    /\ closing \cap Sound' \subseteq closing'

LEMMA RegistryKeeps ==
  ASSUME ManagerInv, [Next]_vars
  PROVE  RegistryKept
  <1>0. /\ TypeOK /\ OnlyBuiltAreKnown /\ CallersAreNamed /\ NewIsNobodyElses
        /\ OneOpenerPerLock /\ LocksAreTheNames /\ ClosesAreMet /\ OpenersFindNone
        /\ CloserHasThem
        /\ ClosedAreUnnamed /\ SlotsAreNamed /\ PooledAreUnnamed /\ SoundAreTheNames
        /\ BorrowedAreRegistered /\ OneBorrower /\ UsersAreKnown
    BY DEF ManagerInv
  <1> USE DEF RegistryKept
  <1>1. ASSUME NEW t \in Tasks, NEW n \in Names, Want(t, n)
        PROVE  RegistryKept
    BY <1>0, <1>1, WantDoes
  <1>2. ASSUME NEW t \in Tasks, NEW user \in BOOLEAN, Exec(t, user)
        PROVE  RegistryKept
    BY <1>0, <1>2, ExecDoes
  <1>3. ASSUME NEW t \in Tasks, Acquire(t)
        PROVE  RegistryKept
    BY <1>0, <1>3, AcquireDoes
  <1>4. ASSUME NEW t \in Tasks, Retire(t)
        PROVE  RegistryKept
    BY <1>0, <1>4, RetireDoes
  <1>5. ASSUME NEW t \in Tasks, Build(t)
        PROVE  RegistryKept
    BY <1>0, <1>5, BuildDoes
  <1>6. ASSUME NEW t \in Tasks, Land(t)
        PROVE  RegistryKept
    <2>1. ASSUME task[t].name # Pool, ~task[t].met, slot[task[t].name] \in Sound PROVE FALSE
      BY <1>0, <1>0, <1>6, <2>1, LandDoes DEF OpenersFindNone, Opening
    <2>2. ASSUME NEW n \in Names, slot[n] \in Sound' PROVE slot'[n] = slot[n]
      <3>1. CASE n = task[t].name /\ n # Pool
        BY <1>0, <1>0, <1>6, <2>1, <2>2, <3>1, LandDoes
      <3>2. CASE n # task[t].name \/ n = Pool
        BY <1>0, <1>0, <1>6, <3>2, LandDoes
      <3> QED BY <3>1, <3>2
    <2>3. pooled \subseteq pooled' /\ closing' = closing
      BY <1>0, <1>0, <1>6, LandDoes
    <2> QED BY <2>2, <2>3
  <1>7. ASSUME NEW t \in Tasks, FailLanding(t) \/ LetBe(t) \/ Release(t)
        PROVE  RegistryKept
    BY <1>0, <1>7, CallerMovesOn
  <1>8. ASSUME NEW t \in Tasks, Failed(t)
        PROVE  RegistryKept
    BY <1>0, <1>8, FailedDoes
  <1>9. ASSUME NEW t \in Tasks, Released(t)
        PROVE  RegistryKept
    BY <1>0, <1>9, ReleasedDoes
  <1>10. ASSUME NEW t \in Tasks, Switch(t) \/ Ran(t) \/ Undo(t)
        PROVE  RegistryKept
    BY <1>0, <1>10, BorrowerDoes
  <1>11. ASSUME NEW t \in Tasks, Discarded(t)
        PROVE  RegistryKept
    BY <1>0, <1>11, DiscardedDoes
  <1>12. ASSUME NEW s \in Sessions, Die(s)
        PROVE  RegistryKept
    BY <1>12, DieDoes
  <1>13. ASSUME NEW s \in Sessions, NamedClosed(s)
        PROVE  RegistryKept
    BY <1>0, <1>13, NamedClosedDoes DEF CloserHasThem
  <1>14. CASE CloseAll
    BY <1>0, <1>14, CloseAllDoes DEF CloserHasThem
  <1>15. CASE DefaultClosed
    BY <1>0, <1>15, DefaultClosedDoes DEF CloserHasThem
  <1>16. CASE Cleared
    BY <1>0, <1>16, ClearedDoes, SoundStay DEF CloserHasThem
  <1>17. CASE UNCHANGED vars
    BY <1>17 DEF vars, registry, sessions, closeVars, historyVars
  <1> QED BY <1>1, <1>2, <1>3, <1>4, <1>5, <1>6, <1>7, <1>8, <1>9, <1>10, <1>11, <1>12, <1>13, <1>14, <1>15, <1>16, <1>17
          DEF Next, TaskStep

(* Who has one in hand keeps it there or leaves it registered.             *)
HandsKept ==
    \A u \in Tasks : task[u].at # "using" /\ task[u].s \in Sound' =>
        \/ task'[u].at # "using" /\ task'[u].s = task[u].s
        \/ task[u].s \in pooled'
        \/ \E n \in Names : slot'[n] = task[u].s

LEMMA HandsKeep ==
  ASSUME ManagerInv, [Next]_vars
  PROVE  HandsKept
  <1>0. /\ TypeOK /\ OnlyBuiltAreKnown /\ CallersAreNamed /\ NewIsNobodyElses
        /\ OneOpenerPerLock /\ LocksAreTheNames /\ ClosesAreMet /\ OpenersFindNone
        /\ CloserHasThem
        /\ ClosedAreUnnamed /\ SlotsAreNamed /\ PooledAreUnnamed /\ SoundAreTheNames
        /\ BorrowedAreRegistered /\ OneBorrower /\ UsersAreKnown
    BY DEF ManagerInv
  <1> USE DEF HandsKept, Becomes, CallersAreNamed
  <1>1. ASSUME NEW t \in Tasks, NEW n \in Names, Want(t, n)
        PROVE  HandsKept
    BY <1>0, Places, <1>1, WantDoes, SoundStay
  <1>2. ASSUME NEW t \in Tasks, NEW user \in BOOLEAN, Exec(t, user)
        PROVE  HandsKept
    BY <1>0, Places, <1>2, ExecDoes, SoundStay
  <1>3. ASSUME NEW t \in Tasks, Acquire(t)
        PROVE  HandsKept
    BY <1>0, Places, <1>3, AcquireDoes, SoundStay
  <1>4. ASSUME NEW t \in Tasks, Retire(t)
        PROVE  HandsKept
    BY <1>0, <1>4, RetireDoes
  <1>5. ASSUME NEW t \in Tasks, Build(t)
        PROVE  HandsKept
    BY <1>0, Places, <1>5, BuildDoes
  <1>6. ASSUME NEW t \in Tasks, Land(t)
        PROVE  HandsKept
    BY <1>0, <1>6, LandDoes
  <1>7. ASSUME NEW t \in Tasks, FailLanding(t) \/ LetBe(t) \/ Release(t)
        PROVE  HandsKept
    BY <1>0, <1>7, CallerMovesOn
  <1>8. ASSUME NEW t \in Tasks, Failed(t)
        PROVE  HandsKept
    BY <1>0, <1>8, FailedDoes
  <1>9. ASSUME NEW t \in Tasks, Released(t)
        PROVE  HandsKept
    BY <1>0, <1>9, ReleasedDoes
  <1>10. ASSUME NEW t \in Tasks, Switch(t) \/ Ran(t) \/ Undo(t)
        PROVE  HandsKept
    BY <1>0, <1>10, BorrowerEnds, SoundStay DEF BorrowedAreRegistered
  <1>11. ASSUME NEW t \in Tasks, Discarded(t)
        PROVE  HandsKept
    BY <1>0, <1>11, DiscardedDoes
  <1>12. ASSUME NEW s \in Sessions, Die(s)
        PROVE  HandsKept
    BY <1>12, DieDoes
  <1>13. ASSUME NEW s \in Sessions, NamedClosed(s)
        PROVE  HandsKept
    BY <1>0, <1>13, NamedClosedDoes
  <1>14. CASE CloseAll
    BY <1>0, <1>14, CloseAllDoes
  <1>15. CASE DefaultClosed
    BY <1>0, <1>15, DefaultClosedDoes
  <1>16. CASE Cleared
    BY <1>0, <1>16, ClearedDoes
  <1>17. CASE UNCHANGED vars
    BY <1>17 DEF vars, registry, sessions, closeVars, historyVars
  <1> QED BY <1>1, <1>2, <1>3, <1>4, <1>5, <1>6, <1>7, <1>8, <1>9, <1>10, <1>11, <1>12, <1>13, <1>14, <1>15, <1>16, <1>17
          DEF Next, TaskStep

LEMMA OpenersStillFindNone ==
  ASSUME ManagerInv, TypeOK', [Next]_vars
  PROVE  OpenersFindNone'
  <1>0. /\ TypeOK /\ OneOpenerPerLock /\ LocksAreTheNames /\ OpenersFindNone
        /\ SoundSlotsFollow /\ OpenersFollow
    BY SlotsFollowSoundly, OpenersTravel DEF ManagerInv
  <1> SUFFICES ASSUME NEW t \in Tasks, task'[t].at \in Opening, ~task'[t].met,
                      task'[t].name # Pool, slot'[task'[t].name] \in Sound'
               PROVE  task'[t].at = "retiring" /\ task'[t].s = slot'[task'[t].name]
    BY DEF OpenersFindNone
  <1> DEFINE n == task'[t].name
  <1>1. n \in Names
    BY DEF TypeOK
  <1>2. CASE Acquire(t)
    <2>1. /\ n = task[t].name /\ slot' = slot
          /\ \/ task'[t].at = "retiring" /\ task'[t].s = slot[n]
             \/ slot[n] = None
      BY <1>0, <1>2, AcquireDoes DEF Becomes, Opening
    <2> QED BY <2>1, PlacesNext
  <1>3. CASE /\ task[t].at \in Opening /\ ~task[t].met /\ n = task[t].name
             /\ \/ task'[t].at = task[t].at /\ task'[t].s = task[t].s
                \/ task[t].at = "retiring" /\ task[t].s \notin Sound'
                \/ task[t].at \in {"building", "landing", "failing"}
    <2>1. CASE slot'[n] = slot[n] /\ slot[n] \in Sound
      <3>1. task[t].at = "retiring" /\ task[t].s = slot[n]
        BY <1>0, <1>3, <2>1 DEF OpenersFindNone
      <3> QED BY <1>3, <2>1, <3>1
    <2>2. ASSUME NEW u \in Tasks, LandsUnmet(u, n, slot'[n])
          PROVE  FALSE
      <3>1. task[u].at \in Opening /\ ~task[u].met /\ task[u].name = n
        BY <2>2 DEF LandsUnmet, Opening
      <3>2. task[u].lock = locks[n] /\ task[t].lock = locks[n]
        BY <1>0, <1>3, <3>1 DEF LocksAreTheNames
      <3>3. t = u
        BY <1>0, <1>3, <3>1, <3>2 DEF OneOpenerPerLock
      <3> QED BY <2>2, <3>3 DEF LandsUnmet, Opening, Execing
    <2> QED BY <1>0, <1>1, <2>1, <2>2 DEF SoundSlotsFollow
  <1> QED BY <1>0, <1>2, <1>3 DEF OpenersFollow

LEMMA CloserStillHasThem ==
  ASSUME ManagerInv, TypeOK', ClosedAreUnnamed', SlotsAreNamed', PooledAreUnnamed', [Next]_vars
  PROVE  CloserHasThem'
  <1>0. /\ TypeOK /\ ClosesAreMet /\ CloserHasThem /\ SoundSlotsFollow /\ SoundPooledFollow
        /\ NamesFollow /\ CloserFollows
    BY SlotsFollowSoundly, PooledFollowSoundly, NamesTravel, CloserTravels DEF ManagerInv
  <1>1. ASSUME closer # "idle"
        PROVE  /\ \A n \in Names : slot'[n] \in Sound' => slot'[n] = slot[n] /\ slot[n] \in Sound
               /\ \A x \in pooled' : x \in Sound' => x \in pooled /\ x \in Sound
    BY <1>0, <1>1 DEF ClosesAreMet, LandsUnmet, Opening, SoundSlotsFollow, SoundPooledFollow
  <1>2. ASSUME closer = "named", closer' = "named", closing' \subseteq closing,
               \A x \in closing : x \in closing' \/ x \notin Sound'
        PROVE  CloserHasThem'
    <2>1. /\ \A n \in Names \ {Default} : slot[n] \in Sound => slot[n] \in closing
          /\ pooled \cap Sound \subseteq closing
          /\ \A s \in closing : nameOf[s] # Pool /\ slot[nameOf[s]] \in Sound => slot[nameOf[s]] = s
      BY <1>0, <1>2 DEF CloserHasThem
    <2>2. \A n \in Names \ {Default} : slot'[n] \in Sound' => slot'[n] \in closing'
      BY <1>1, <1>2, <2>1
    <2>3. pooled' \cap Sound' \subseteq closing'
      BY <1>1, <1>2, <2>1
    <2>4. ASSUME NEW s \in closing', nameOf'[s] # Pool, slot'[nameOf'[s]] \in Sound'
          PROVE  slot'[nameOf'[s]] = s
      <3>1. s \in closing /\ s \in Sessions /\ nameOf'[s] \in Names
        BY <1>2, <2>4 DEF TypeOK
      <3>2. slot'[nameOf'[s]] = slot[nameOf'[s]] /\ slot[nameOf'[s]] \in Sound
        BY <1>1, <1>2, <2>4, <3>1
      <3>3. CASE nameOf'[s] = nameOf[s]
        BY <2>1, <2>4, <3>1, <3>2, <3>3
      <3>4. ASSUME NEW t \in Tasks, task[t].at = "landing", task[t].s = s
            PROVE  FALSE
        BY <3>1, <3>4, LandingIsNew DEF Opens
      <3> QED BY <1>0, <2>4, <3>1, <3>3, <3>4 DEF NamesFollow
    <2> QED BY <1>2, <2>2, <2>3, <2>4 DEF CloserHasThem
  <1>3. CASE closer' = closer /\ closing' = closing
    <2>1. CASE closer = "named"
      BY <1>2, <1>3, <2>1
    <2>2. CASE closer = "default"
      BY <1>0, <1>1, <1>3, <2>2, NameAssumption DEF CloserHasThem
    <2>3. CASE closer = "idle"
      BY <1>0, <1>3, <2>3 DEF CloserHasThem
    <2> QED BY <1>0, <2>1, <2>2, <2>3 DEF TypeOK
  <1>4. CASE closer = "idle" /\ closer' = "default" /\ closing' = {slot[Default]} /\ slot' = slot
    BY <1>4 DEF CloserHasThem
  <1>5. CASE /\ closer # "named" /\ closer' = "named" /\ closing' = Named /\ pooled' = pooled
             /\ \A n \in Names \ {Default} : slot'[n] = slot[n]
    <2>1. None \notin Sound' /\ open' \subseteq Sessions
      BY PlacesNext
    <2>2. \A n \in Names \ {Default} : slot'[n] \in Sound' => slot'[n] \in closing'
      BY <1>5, <2>1 DEF Named
    <2>3. pooled' \cap Sound' \subseteq closing'
      BY <1>5, <2>1 DEF Named
    <2>4. ASSUME NEW s \in closing', nameOf'[s] # Pool, slot'[nameOf'[s]] \in Sound'
          PROVE  slot'[nameOf'[s]] = s
      <3>1. s \in Sessions /\ s \notin pooled'
        BY <1>5, <2>4 DEF TypeOK, PooledAreUnnamed
      <3>2. PICK n \in Names : slot'[n] = s
        BY <1>5, <3>1 DEF Named
      <3>3. s \in open'
        BY <2>4, <3>1 DEF ClosedAreUnnamed
      <3> QED BY <3>2, <3>3 DEF SlotsAreNamed
    <2> QED BY <1>5, <2>2, <2>3, <2>4 DEF CloserHasThem
  <1>6. CASE closer' = "idle" /\ closing' = {}
    BY <1>6 DEF CloserHasThem
  <1> QED BY <1>0, <1>2, <1>3, <1>4, <1>5, <1>6 DEF CloserFollows

LEMMA SoundStayTheNames ==
  ASSUME ManagerInv, TypeOK', [Next]_vars
  PROVE  SoundAreTheNames'
  <1>0. /\ TypeOK /\ SoundAreTheNames /\ ClosedAreUnnamed
        /\ NamesFollow /\ SoundIsBuilt /\ RegistryKept
    BY NamesTravel, SoundGrows, RegistryKeeps DEF ManagerInv
  <1> SUFFICES ASSUME NEW x \in Sound', nameOf'[x] # Pool
               PROVE  slot'[nameOf'[x]] = x
    BY DEF SoundAreTheNames
  <1>1. x \in Sessions /\ nameOf'[x] \in Names
    BY PlacesNext DEF TypeOK
  <1>2. CASE nameOf'[x] = nameOf[x]
    <2>1. x \in Sound
      BY <1>0, <1>1, <1>2 DEF SoundIsBuilt, ClosedAreUnnamed
    <2>2. slot[nameOf[x]] = x
      BY <1>0, <1>2, <2>1 DEF SoundAreTheNames
    <2> QED BY <1>0, <1>1, <1>2, <2>2 DEF RegistryKept
  <1> QED BY <1>0, <1>1, <1>2 DEF NamesFollow

LEMMA SoundStayHeld ==
  ASSUME ManagerInv, [Next]_vars
  PROVE  SoundAreHeld'
  <1>0. SoundAreHeld /\ SoundIsBuilt /\ RegistryKept /\ HandsKept
    BY SoundGrows, RegistryKeeps, HandsKeep DEF ManagerInv
  <1> SUFFICES ASSUME NEW x \in Sound'
               PROVE  (\/ \E n \in Names : slot[n] = x
                       \/ x \in pooled \cup closing
                       \/ InHand(x))'
    BY DEF SoundAreHeld
  <1>1. CASE x \in Sound
    <2>1. CASE \E n \in Names : slot[n] = x
      BY <1>0, <2>1 DEF RegistryKept
    <2>2. CASE x \in pooled \cup closing
      BY <1>0, <2>2 DEF RegistryKept
    <2>3. CASE InHand(x)
      BY <1>0, <2>3 DEF HandsKept, InHand
    <2> QED BY <1>0, <1>1, <2>1, <2>2, <2>3 DEF SoundAreHeld
  <1>2. CASE x \notin Sound
    BY <1>0, <1>2 DEF SoundIsBuilt, InHand
  <1> QED BY <1>1, <1>2

----------------------------------------------------------------------------
(* The theorems of the session manager. *)

LEMMA ManagerInit == Init => ManagerInv
  <1> SUFFICES ASSUME Init PROVE ManagerInv
    OBVIOUS
  <1>1. /\ Default \in Names /\ Pool \notin Names /\ MaxSessions \in Nat
        /\ Cardinality(Tasks) \in Nat
    BY NameAssumption, FS_CardinalityType
  <1>2. \A t \in Tasks : /\ task[t] = Idle /\ task[t].at = "idle" /\ task[t].s = 0
                         /\ task[t].name = Default /\ ~task[t].was
    BY DEF Init, Idle, None
  <1>3. TypeOK
    <2>1. task \in [Tasks -> Callers]
      BY <1>2, IdleIsACaller DEF Init
    <2>2. locks \in [Names -> Locks]
      BY <1>1 DEF Init, Locks
    <2>3. slot \in [Names -> 0..MaxSessions] /\ built \in 0..MaxSessions
      BY <1>1 DEF Init, None
    <2>4. pool \in Seq(Sessions) /\ nameOf \in [Sessions -> Names \cup {Pool}]
      BY DEF Init
    <2> QED BY <2>1, <2>2, <2>3, <2>4 DEF TypeOK, Callers, Init
  <1>4. Idles = {} /\ NoTwins /\ Known = {} /\ Sound = {}
    BY DEF Init, Idles, NoTwins, Known, Sound
  <1>5. OnlyBuiltAreKnown
    BY <1>2, <1>4 DEF Init, OnlyBuiltAreKnown, None
  <1>6. CallersAreNamed /\ NewIsNobodyElses /\ OneOpenerPerLock /\ LocksAreTheNames /\ OpenersFindNone
    BY <1>2
    DEF CallersAreNamed, NewIsNobodyElses, Opens, OneOpenerPerLock, LocksAreTheNames,
        OpenersFindNone, Opening, Execing, None
  <1>7. /\ ClosesAreMet /\ CloserHasThem /\ ClosedAreUnnamed /\ SlotsAreNamed
        /\ PooledAreUnnamed /\ SoundAreTheNames
    BY <1>4
    DEF Init, ClosesAreMet, CloserHasThem, ClosedAreUnnamed, SlotsAreNamed, PooledAreUnnamed,
        SoundAreTheNames
  <1>8. BorrowedAreRegistered /\ OneBorrower /\ UsersAreKnown /\ SoundAreHeld
    BY <1>2, <1>4
    DEF BorrowedAreRegistered, OneBorrower, UsersAreKnown, SoundAreHeld, Execing
  <1> QED BY <1>3, <1>5, <1>6, <1>7, <1>8 DEF ManagerInv

LEMMA ManagerStep == ManagerInv /\ [Next]_vars => ManagerInv'
  <1> SUFFICES ASSUME ManagerInv, [Next]_vars PROVE ManagerInv'
    OBVIOUS
  <1>1. /\ TypeOK /\ OnlyBuiltAreKnown /\ CallersAreNamed /\ NewIsNobodyElses
        /\ OneOpenerPerLock /\ LocksAreTheNames /\ ClosesAreMet /\ CloserHasThem
    BY DEF ManagerInv
  <1>2. TypeOK'
    BY <1>1, ManagerTypes
  <1>3. OnlyBuiltAreKnown' /\ CallersAreNamed' /\ NewIsNobodyElses'
    BY <1>1, OnlyBuiltStayKnown, CallersStayNamed, NewStaysNobodyElses
  <1>4. OneOpenerPerLock' /\ LocksAreTheNames' /\ ClosesAreMet'
    BY <1>1, OneOpenerStays, LocksStayTheNames, ClosesStayMet
  <1>5. ClosedAreUnnamed' /\ SlotsAreNamed' /\ PooledAreUnnamed'
    BY ClosedStayUnnamed, SlotsStayNamed, PooledStayUnnamed
  <1>6. OpenersFindNone' /\ CloserHasThem' /\ SoundAreTheNames'
    BY <1>2, <1>5, OpenersStillFindNone, CloserStillHasThem, SoundStayTheNames
  <1>7. BorrowedAreRegistered' /\ OneBorrower' /\ UsersAreKnown' /\ SoundAreHeld'
    BY BorrowedStayRegistered, OneBorrowerStays, UsersStayKnown, SoundStayHeld
  <1> QED BY <1>2, <1>3, <1>4, <1>5, <1>6, <1>7 DEF ManagerInv

(* The invariant of the session manager's books, for any callers, names    *)
(* and number of sessions.                                                 *)
THEOREM ManagerInvariant == Spec => []ManagerInv
  BY ManagerInit, ManagerStep, PTL DEF Spec

(* The manager's books keep their types.                                   *)
THEOREM ManagerTypeCorrect == Spec => []TypeOK
  <1>1. ManagerInv => TypeOK
    BY DEF ManagerInv
  <1> QED BY <1>1, ManagerInvariant, PTL

(* No session leaks: whatever callers open, share, borrow, close and fail  *)
(* at, and wherever close_all runs between, each session with a transport  *)
(* is registered, about to be closed or in a caller's hands, but for those *)
(* that a close_all overtook.                                              *)
THEOREM NoSessionLeaks == Spec => []SessionsAreHeld
  <1>1. ManagerInv => SessionsAreHeld
    BY DEF ManagerInv, SoundAreHeld, SessionsAreHeld, Sound
  <1> QED BY <1>1, ManagerInvariant, PTL

(* Callers of one name share one session: _ensure_session and open_session *)
(* never leave two live ones under a name, with the same exceptions.       *)
THEOREM OneSessionEach == Spec => []OneSessionPerName
  <1>1. ManagerInv => OneSessionPerName
    <2>1. ManagerInv => living \subseteq open
      BY DEF ManagerInv, TypeOK
    <2> QED BY <2>1 DEF ManagerInv, SoundAreTheNames, OneSessionPerName, Sound
  <1> QED BY <1>1, ManagerInvariant, PTL

(* What exec borrows runs as the login's user and is nobody else's,        *)
(* whatever became of the switches and undos before.                       *)
THEOREM PoolLendsAsLoggedIn == Spec => []BorrowedAsLoggedIn
  <1>1. ManagerInv => BorrowedAsLoggedIn
    <2> SUFFICES ASSUME ManagerInv PROVE BorrowedAsLoggedIn
      OBVIOUS
    <2>1. NoTwins /\ \A i \in DOMAIN pool : pool[i] \in Idles
      BY DEF ManagerInv, OneBorrower, Idles
    <2> QED BY <2>1 DEF ManagerInv, OneBorrower, UsersAreKnown, NoTwins, BorrowedAsLoggedIn
  <1> QED BY <1>1, ManagerInvariant, PTL

----------------------------------------------------------------------------
(* The inductive invariant of one session. *)

(* The session's own book-keeping can be relied upon.                      *)
Trusted == alive /\ ~torn /\ ~misled /\ ~parked

(* A probe that was sent before the last command was typed.                *)
Older(m, c) == m.kind = "probe" /\ m.of < c

UpTo(m, c) == m.of <= c /\ (m.kind = "command" => m.of = c)

(* What is on its way to the caller is at most one end marker, of the last *)
(* command c, in the lines t, as the running command r, or in the stream s:*)
(* and no probe of that command's is ahead of it.                          *)
Ordered(c, t, r, s) ==
    /\ r \in {NoCommand, c}
    /\ \A i \in 1..Len(t) : UpTo(t[i], c)
    /\ \A i \in 1..Len(s) : UpTo(s[i], c)
    /\ \A j \in 1..Len(s) : s[j].kind = "command" =>
          r = NoCommand /\ \A i \in 1..j - 1 : Older(s[i], c)
    /\ r # NoCommand => \A i \in 1..Len(s) : Older(s[i], c)
    /\ \A j \in 1..Len(t) : t[j].kind = "command" =>
          /\ r = NoCommand
          /\ \A i \in 1..j - 1 : Older(t[i], c)
          /\ \A i \in 1..Len(s) : Older(s[i], c)

(* Nothing but probes is on its way.                                       *)
Quiet(t, r, s) ==
    /\ r = NoCommand
    /\ \A i \in 1..Len(t) : t[i].kind = "probe"
    /\ \A i \in 1..Len(s) : s[i].kind = "probe"

OneMarkerAhead == Trusted => Ordered(cmd, typed, running, stream)
QuietBetweenCalls == Trusted /\ pc = "idle" /\ ~needs => Quiet(typed, running, stream)

(* A command that waits for its recovery is one of those the bound allows. *)
RoomForTheCommand ==
    pc \in {"settling", "probing"} /\ mending = "preflight" => cmd < MaxCommands

(* In a session that died under a call, the call is one that should not    *)
(* have been made.                                                         *)
DeadIsParked == pc # "idle" /\ ~alive => parked

ShellInv ==
    /\ ShellTypeOK
    /\ OneMarkerAhead
    /\ QuietBetweenCalls
    /\ RoomForTheCommand
    /\ DeadIsParked
    /\ AnswersItsOwn

----------------------------------------------------------------------------
(* The pipeline of the far side. *)

LEMMA LinesAreTyped ==
  ASSUME NEW m \in Lines
  PROVE  m.kind \in {"command", "probe"} /\ m.of \in 0..MaxCommands
  BY DEF Lines

LEMMA ASmallest ==
  ASSUME NEW S \in SUBSET Nat, S # {}
  PROVE  \E i \in S : \A j \in S : i <= j
  <1> DEFINE R == OpToRel(<, Nat)
  <1>1. IsWellFoundedOn(R, Nat)
    BY NatLessThanWellFounded
  <1>2. PICK i \in S : \A j \in S : ~(<<j, i>> \in R)
    <2> HIDE DEF R
    <2> QED BY <1>1, WFMin
  <1>3. \A j \in S : ~(j < i)
    <2> SUFFICES ASSUME NEW j \in S, j < i PROVE FALSE
      OBVIOUS
    <2>1. <<j, i>> \in R
      BY DEF OpToRel
    <2> QED BY <2>1, <1>2
  <1> QED BY <1>3

(* The types of the three places of the pipeline.                          *)
Pipe(c, t, r, s) ==
    c \in 0..MaxCommands /\ t \in Seq(Lines) /\ r \in 0..MaxCommands /\ s \in Seq(Lines)

(* The shell reads a line.                                                 *)
LEMMA ReadingALine ==
  ASSUME NEW c, NEW t, NEW r, NEW s, Pipe(c, t, r, s), r = NoCommand, t # <<>>
  PROVE  LET r2 == IF Head(t).kind = "probe" THEN r ELSE Head(t).of
             s2 == IF Head(t).kind = "probe" THEN Append(s, Head(t)) ELSE s
         IN  /\ Pipe(c, Tail(t), r2, s2)
             /\ Ordered(c, t, r, s) => Ordered(c, Tail(t), r2, s2)
             /\ Quiet(t, r, s) => Quiet(Tail(t), r2, s2)
  <1> DEFINE m == Head(t)
             rest == Tail(t)
             r2 == IF m.kind = "probe" THEN r ELSE m.of
             s2 == IF m.kind = "probe" THEN Append(s, m) ELSE s
  <1>1. m = t[1] /\ m \in Lines /\ rest \in Seq(Lines) /\ Len(t) > 0
        /\ Len(rest) = Len(t) - 1 /\ \A i \in 1..Len(rest) : rest[i] = t[i + 1] /\ i + 1 \in 1..Len(t)
    BY DEF Pipe
  <1>2. m.kind \in {"command", "probe"} /\ m.of \in 0..MaxCommands
    BY <1>1, LinesAreTyped
  <1>3. s \in Seq(Lines) /\ c \in 0..MaxCommands /\ Len(s) \in Nat /\ Len(t) \in Nat
    BY DEF Pipe
  <1>4. Append(s, m) \in Seq(Lines) /\ Len(Append(s, m)) = Len(s) + 1
        /\ Append(s, m)[Len(s) + 1] = m /\ \A i \in 1..Len(s) : Append(s, m)[i] = s[i]
    BY <1>1, <1>3
  <1>5. Pipe(c, rest, r2, s2)
    BY <1>1, <1>2, <1>3, <1>4 DEF Pipe
  <1>6. ASSUME Ordered(c, t, r, s) PROVE Ordered(c, rest, r2, s2)
    <2>1. CASE m.kind = "probe"
      <3>1. \A i \in 1..Len(s2) : s2[i] = IF i = Len(s) + 1 THEN m ELSE s[i]
        BY <1>3, <1>4, <2>1
      <3>2. r2 = NoCommand /\ UpTo(m, c) /\ Len(s2) = Len(s) + 1
        BY <1>1, <1>3, <1>4, <1>6, <2>1 DEF Ordered
      <3>3. \A j \in 1..Len(rest) : rest[j].kind = "command" => Older(m, c)
        BY <1>1, <1>3, <1>6 DEF Ordered
      <3> HIDE DEF m, rest, r2, s2
      <3>4. \A i \in 1..Len(s2) : UpTo(s2[i], c)
        BY <1>3, <1>6, <3>1, <3>2 DEF Ordered
      <3>5. \A j \in 1..Len(s2) : s2[j].kind = "command" =>
               r2 = NoCommand /\ \A i \in 1..j - 1 : Older(s2[i], c)
        BY <1>3, <1>6, <2>1, <3>1, <3>2 DEF Ordered
      <3>6. \A j \in 1..Len(rest) : rest[j].kind = "command" =>
               /\ r2 = NoCommand
               /\ \A i \in 1..j - 1 : Older(rest[i], c)
               /\ \A i \in 1..Len(s2) : Older(s2[i], c)
        <4> SUFFICES ASSUME NEW j \in 1..Len(rest), rest[j].kind = "command"
                     PROVE  /\ \A i \in 1..j - 1 : Older(rest[i], c)
                            /\ \A i \in 1..Len(s2) : Older(s2[i], c)
          BY <3>2
        <4>1. t[j + 1].kind = "command" /\ j + 1 \in 1..Len(t)
          BY <1>1
        <4>2. \A i \in 1..Len(s) : Older(s[i], c)
          BY <1>6, <4>1 DEF Ordered
        <4>3. \A i \in 1..j : Older(t[i], c)
          BY <1>1, <1>3, <1>6, <4>1 DEF Ordered
        <4>4. \A i \in 1..j - 1 : Older(rest[i], c)
          <5> SUFFICES ASSUME NEW i \in 1..j - 1 PROVE Older(rest[i], c)
            OBVIOUS
          <5>1. i \in 1..Len(rest) /\ i + 1 \in 1..j
            BY <1>1, <1>3
          <5> QED BY <1>1, <4>3, <5>1
        <4> QED BY <1>3, <3>1, <3>2, <3>3, <4>2, <4>4
      <3>7. \A i \in 1..Len(rest) : UpTo(rest[i], c)
        BY <1>1, <1>6 DEF Ordered
      <3> QED BY <3>2, <3>4, <3>5, <3>6, <3>7 DEF Ordered
    <2>2. CASE m.kind = "command"
      <3>1. r2 = m.of /\ s2 = s /\ UpTo(m, c)
        BY <1>1, <1>6, <2>2 DEF Ordered
      <3>2. r2 = c /\ \A i \in 1..Len(s) : Older(s[i], c)
        BY <1>1, <1>3, <1>6, <2>2, <3>1 DEF Ordered, UpTo
      <3>3. \A i \in 1..Len(rest) : UpTo(rest[i], c) /\ rest[i].kind # "command"
        BY <1>1, <1>3, <1>6, <2>2 DEF Ordered, Older
      <3> HIDE DEF m, rest, r2, s2
      <3>4. \A j \in 1..Len(s) : s[j].kind # "command"
        BY <3>2 DEF Older
      <3> QED BY <1>6, <3>1, <3>2, <3>3, <3>4 DEF Ordered
    <2> QED BY <1>2, <2>1, <2>2
  <1>7. ASSUME Quiet(t, r, s) PROVE Quiet(rest, r2, s2)
    <2>1. m.kind = "probe"
      BY <1>1, <1>3, <1>7 DEF Quiet
    <2>2. \A i \in 1..Len(s2) : s2[i] = IF i = Len(s) + 1 THEN m ELSE s[i]
      BY <1>3, <1>4, <2>1
    <2> QED BY <1>1, <1>3, <1>4, <1>7, <2>1, <2>2 DEF Quiet
  <1> QED BY <1>5, <1>6, <1>7

(* The command ends.                                                       *)
LEMMA EndingACommand ==
  ASSUME NEW c, NEW t, NEW r, NEW s, Pipe(c, t, r, s), r # NoCommand
  PROVE  /\ Pipe(c, t, NoCommand, Append(s, Command(r)))
         /\ Ordered(c, t, r, s) => Ordered(c, t, NoCommand, Append(s, Command(r)))
         /\ ~Quiet(t, r, s)
  <1> DEFINE m == Command(r)
             s2 == Append(s, m)
  <1>1. m \in Lines /\ m.kind = "command" /\ m.of = r /\ s \in Seq(Lines) /\ Len(s) \in Nat
        /\ c \in 0..MaxCommands /\ t \in Seq(Lines)
    BY DEF Pipe, Command, Lines
  <1>2. s2 \in Seq(Lines) /\ Len(s2) = Len(s) + 1
        /\ \A i \in 1..Len(s2) : s2[i] = IF i = Len(s) + 1 THEN m ELSE s[i]
    <2> HIDE DEF m
    <2> QED BY <1>1
  <1>3. Pipe(c, t, NoCommand, s2)
    BY <1>1, <1>2, CommandAssumption DEF Pipe, NoCommand
  <1>4. ASSUME Ordered(c, t, r, s) PROVE Ordered(c, t, NoCommand, s2)
    <2>1. r = c /\ UpTo(m, c)
      BY <1>1, <1>4 DEF Ordered, UpTo
    <2>2. \A i \in 1..Len(s) : Older(s[i], c) /\ s[i].kind # "command"
      BY <1>4 DEF Ordered, Older
    <2>3. \A j \in 1..Len(t) : t[j].kind # "command"
      BY <1>4 DEF Ordered
    <2> HIDE DEF m, s2
    <2>4. \A i \in 1..Len(s2) : UpTo(s2[i], c)
      BY <1>1, <1>2, <1>4, <2>1 DEF Ordered
    <2>5. ASSUME NEW j \in 1..Len(s2), s2[j].kind = "command", NEW i \in 1..j - 1
          PROVE  Older(s2[i], c)
      <3>1. i \in 1..Len(s) /\ i \in 1..Len(s2) /\ i # Len(s) + 1
        BY <1>1, <1>2
      <3>2. s2[i] = s[i]
        BY <1>2, <3>1
      <3> QED BY <2>2, <3>1, <3>2
    <2> QED BY <1>4, <2>3, <2>4, <2>5 DEF Ordered
  <1> QED BY <1>3, <1>4 DEF Quiet

(* A line is taken from the terminal by the command.                       *)
LEMMA TakingAProbe ==
  ASSUME NEW c, NEW t, NEW r, NEW s, Pipe(c, t, r, s), t # <<>>
  PROVE  /\ Pipe(c, Tail(t), r, s)
         /\ Ordered(c, t, r, s) => Ordered(c, Tail(t), r, s)
         /\ Quiet(t, r, s) => Quiet(Tail(t), r, s)
  <1>1. Tail(t) \in Seq(Lines) /\ Len(t) \in Nat /\ Len(Tail(t)) = Len(t) - 1
        /\ \A i \in 1..Len(Tail(t)) : Tail(t)[i] = t[i + 1] /\ i + 1 \in 1..Len(t)
    BY DEF Pipe
  <1>2. ASSUME Ordered(c, t, r, s) PROVE Ordered(c, Tail(t), r, s)
    <2>1. \A j \in 1..Len(Tail(t)) : Tail(t)[j].kind = "command" =>
               /\ r = NoCommand
               /\ \A i \in 1..j - 1 : Older(Tail(t)[i], c)
               /\ \A i \in 1..Len(s) : Older(s[i], c)
      BY <1>1, <1>2 DEF Ordered
    <2>2. \A i \in 1..Len(Tail(t)) : UpTo(Tail(t)[i], c)
      BY <1>1, <1>2 DEF Ordered
    <2> QED BY <1>2, <2>1, <2>2 DEF Ordered
  <1> QED BY <1>1, <1>2 DEF Pipe, Quiet

(* A marker is read from the stream: an end marker is the last of its kind.*)
LEMMA ReadingAMarker ==
  ASSUME NEW c, NEW t, NEW r, NEW s, Pipe(c, t, r, s), s # <<>>
  PROVE  /\ Pipe(c, t, r, Tail(s))
         /\ Head(s) \in Lines
         /\ Ordered(c, t, r, s) => Ordered(c, t, r, Tail(s))
         /\ Ordered(c, t, r, s) /\ Head(s).kind = "command" =>
               Head(s).of = c /\ Quiet(t, r, Tail(s))
  <1>1. Tail(s) \in Seq(Lines) /\ Len(s) \in Nat /\ Len(Tail(s)) = Len(s) - 1 /\ Len(s) > 0
        /\ Head(s) = s[1] /\ Head(s) \in Lines /\ Len(t) \in Nat
        /\ \A i \in 1..Len(Tail(s)) : Tail(s)[i] = s[i + 1] /\ i + 1 \in 1..Len(s)
    BY DEF Pipe
  <1>2. ASSUME Ordered(c, t, r, s) PROVE Ordered(c, t, r, Tail(s))
    <2>1. \A j \in 1..Len(Tail(s)) : Tail(s)[j].kind = "command" =>
             r = NoCommand /\ \A i \in 1..j - 1 : Older(Tail(s)[i], c)
      BY <1>1, <1>2 DEF Ordered
    <2>2. \A i \in 1..Len(Tail(s)) : UpTo(Tail(s)[i], c)
      BY <1>1, <1>2 DEF Ordered
    <2>3. (\A i \in 1..Len(s) : Older(s[i], c)) => \A i \in 1..Len(Tail(s)) : Older(Tail(s)[i], c)
      BY <1>1
    <2> QED BY <1>2, <2>1, <2>2, <2>3 DEF Ordered
  <1>3. ASSUME Ordered(c, t, r, s), Head(s).kind = "command"
        PROVE  Head(s).of = c /\ Quiet(t, r, Tail(s))
    <2>1. UpTo(s[1], c) /\ r = NoCommand /\ s[1].kind # "probe"
      BY <1>1, <1>3 DEF Ordered
    <2>2. \A i \in 1..Len(s) : i # 1 => s[i].kind # "command"
      BY <1>1, <1>3, <2>1 DEF Ordered, Older
    <2>3. \A i \in 1..Len(t) : t[i].kind # "command"
      BY <1>1, <1>3, <2>1 DEF Ordered, Older
    <2>4. \A i \in 1..Len(Tail(s)) : Tail(s)[i].kind = "probe"
      BY <1>1, <2>2, LinesAreTyped
    <2>5. \A i \in 1..Len(t) : t[i].kind = "probe"
      BY <1>1, <2>3, LinesAreTyped DEF Pipe
    <2> QED BY <1>1, <1>3, <2>1, <2>4, <2>5 DEF Quiet, UpTo
  <1> QED BY <1>1, <1>2, <1>3 DEF Pipe

(* A probe is typed.                                                       *)
LEMMA TypingAProbe ==
  ASSUME NEW c, NEW t, NEW r, NEW s, Pipe(c, t, r, s)
  PROVE  /\ Pipe(c, Append(t, Probe(c)), r, s)
         /\ Ordered(c, t, r, s) => Ordered(c, Append(t, Probe(c)), r, s)
  <1> DEFINE m == Probe(c)
             rest == Append(t, m)
  <1>1. m \in Lines /\ m.kind = "probe" /\ m.of = c /\ t \in Seq(Lines) /\ Len(t) \in Nat
        /\ c \in 0..MaxCommands
    BY DEF Pipe, Probe, Lines
  <1>2. rest \in Seq(Lines) /\ Len(rest) = Len(t) + 1
        /\ \A i \in 1..Len(rest) : rest[i] = IF i = Len(t) + 1 THEN m ELSE t[i]
    <2> HIDE DEF m
    <2> QED BY <1>1
  <1> HIDE DEF m, rest
  <1>3. ASSUME Ordered(c, t, r, s) PROVE Ordered(c, rest, r, s)
    <2>1. \A i \in 1..Len(rest) : UpTo(rest[i], c)
      BY <1>1, <1>2, <1>3 DEF Ordered, UpTo
    <2>2. \A j \in 1..Len(rest) : rest[j].kind = "command" =>
               /\ r = NoCommand
               /\ \A i \in 1..j - 1 : Older(rest[i], c)
               /\ \A i \in 1..Len(s) : Older(s[i], c)
      <3> SUFFICES ASSUME NEW j \in 1..Len(rest), rest[j].kind = "command"
                   PROVE  /\ r = NoCommand
                          /\ \A i \in 1..j - 1 : Older(rest[i], c)
                          /\ \A i \in 1..Len(s) : Older(s[i], c)
        OBVIOUS
      <3>1. j \in 1..Len(t) /\ t[j].kind = "command"
        BY <1>1, <1>2
      <3> QED BY <1>1, <1>2, <1>3, <3>1 DEF Ordered
    <2> QED BY <1>3, <2>1, <2>2 DEF Ordered
  <1> QED BY <1>2, <1>3 DEF Pipe, m, rest

(* A command is typed into a quiet session.                                *)
LEMMA TypingACommand ==
  ASSUME NEW c, NEW t, NEW r, NEW s, Pipe(c, t, r, s), c + 1 \in 0..MaxCommands
  PROVE  /\ Pipe(c + 1, Append(t, Command(c + 1)), r, s)
         /\ Ordered(c, t, r, s) /\ Quiet(t, r, s) =>
               Ordered(c + 1, Append(t, Command(c + 1)), r, s)
  <1> DEFINE m == Command(c + 1)
             rest == Append(t, m)
  <1>1. m \in Lines /\ m.kind = "command" /\ m.of = c + 1 /\ t \in Seq(Lines) /\ Len(t) \in Nat
        /\ c \in 0..MaxCommands /\ s \in Seq(Lines) /\ Len(s) \in Nat
    BY DEF Pipe, Command, Lines
  <1>2. rest \in Seq(Lines) /\ Len(rest) = Len(t) + 1
        /\ \A i \in 1..Len(rest) : rest[i] = IF i = Len(t) + 1 THEN m ELSE t[i]
    <2> HIDE DEF m
    <2> QED BY <1>1
  <1>3. (\A i \in 1..Len(t) : t[i] \in Lines) /\ \A i \in 1..Len(s) : s[i] \in Lines
    BY <1>1
  <1> HIDE DEF m, rest
  <1>4. ASSUME Ordered(c, t, r, s), Quiet(t, r, s) PROVE Ordered(c + 1, rest, r, s)
    <2>1. \A i \in 1..Len(t) : Older(t[i], c + 1) /\ t[i].kind = "probe"
      BY <1>1, <1>3, <1>4, LinesAreTyped DEF Ordered, Quiet, UpTo, Older
    <2>2. \A i \in 1..Len(s) : Older(s[i], c + 1) /\ s[i].kind = "probe"
      BY <1>1, <1>3, <1>4, LinesAreTyped DEF Ordered, Quiet, UpTo, Older
    <2>3. \A i \in 1..Len(t) : UpTo(t[i], c + 1)
      BY <1>1, <1>3, <2>1, LinesAreTyped DEF Older, UpTo
    <2>4. \A i \in 1..Len(s) : UpTo(s[i], c + 1)
      BY <1>1, <1>3, <2>2, LinesAreTyped DEF Older, UpTo
    <2>5. ASSUME NEW i \in 1..Len(rest) PROVE UpTo(rest[i], c + 1)
      <3>1. rest[i] = IF i = Len(t) + 1 THEN m ELSE t[i]
        BY <1>2
      <3>2. CASE i = Len(t) + 1
        BY <1>1, <3>1, <3>2 DEF UpTo
      <3>3. CASE i # Len(t) + 1
        <4>1. i \in 1..Len(t)
          BY <1>1, <1>2, <3>3
        <4> QED BY <2>3, <3>1, <3>3, <4>1
      <3> QED BY <3>2, <3>3
    <2>6. ASSUME NEW j \in 1..Len(rest), NEW i \in 1..j - 1 PROVE Older(rest[i], c + 1)
      <3>1. i \in 1..Len(t) /\ i \in 1..Len(rest) /\ i # Len(t) + 1
        BY <1>1, <1>2
      <3>2. rest[i] = t[i]
        BY <1>2, <3>1
      <3> QED BY <2>1, <3>1, <3>2
    <2>7. r = NoCommand
      BY <1>4 DEF Quiet
    <2> QED BY <2>2, <2>4, <2>5, <2>6, <2>7 DEF Ordered
  <1> QED BY <1>1, <1>2, <1>4 DEF Pipe, m, rest

(* The terminal drops the lines it holds, a command dies: what is left is  *)
(* still in order.                                                         *)
LEMMA Dropping ==
  ASSUME NEW c, NEW t, NEW r, NEW s, Pipe(c, t, r, s)
  PROVE  /\ Pipe(c, <<>>, r, s) /\ Pipe(c, t, NoCommand, s)
         /\ Ordered(c, t, r, s) => Ordered(c, <<>>, r, s) /\ Ordered(c, t, NoCommand, s)
         /\ Quiet(t, r, s) => Quiet(<<>>, r, s)
  <1>1. <<>> \in Seq(Lines) /\ Len(<<>>) = 0 /\ NoCommand \in 0..MaxCommands
    BY CommandAssumption DEF NoCommand
  <1>2. Ordered(c, t, r, s) => Ordered(c, <<>>, r, s)
    BY <1>1 DEF Ordered
  <1>3. Ordered(c, t, r, s) => Ordered(c, t, NoCommand, s)
    BY DEF Ordered
  <1> QED BY <1>1, <1>2, <1>3 DEF Pipe, Quiet

LEMMA Interrupting ==
  ASSUME Interrupt, Pipe(cmd, typed, running, stream)
  PROVE  /\ Pipe(cmd, typed', running', stream')
         /\ Ordered(cmd, typed, running, stream) => Ordered(cmd, typed', running', stream')
  <1>1. PICK t \in {typed, <<>>} : typed' = t
    BY DEF Interrupt
  <1>2. /\ Pipe(cmd, t, running, stream)
        /\ Ordered(cmd, typed, running, stream) => Ordered(cmd, t, running, stream)
    BY <1>1, Dropping
  <1>3. CASE running' = NoCommand /\ UNCHANGED stream
    BY <1>1, <1>2, <1>3, Dropping
  <1>4. CASE /\ running # NoCommand
             /\ running' = NoCommand
             /\ stream' = Append(stream, Command(running))
    BY <1>1, <1>2, <1>4, EndingACommand
  <1>5. CASE UNCHANGED <<running, stream>>
    BY <1>1, <1>2, <1>5
  <1> QED BY <1>3, <1>4, <1>5 DEF Interrupt

(* The first reply in the stream: if it is to a probe of the last command, *)
(* the shell is quiet once all before it is dropped.                       *)
LEMMA TakingAReply ==
  ASSUME Pipe(cmd, typed, running, stream), Replies # {}
  PROVE  /\ First(Replies) \in 1..Len(stream)
         /\ Pipe(cmd, typed, running, After(First(Replies)))
         /\ Ordered(cmd, typed, running, stream) /\ stream[First(Replies)].of = cmd =>
               /\ Ordered(cmd, typed, running, After(First(Replies)))
               /\ Quiet(typed, running, After(First(Replies)))
  <1> DEFINE k == First(Replies)
             s2 == After(k)
  <1>1. stream \in Seq(Lines) /\ Len(stream) \in Nat /\ DOMAIN stream = 1..Len(stream)
        /\ typed \in Seq(Lines) /\ cmd \in 0..MaxCommands
    BY DEF Pipe
  <1>2. Replies \in SUBSET Nat
    BY <1>1 DEF Replies
  <1>3. \E i \in Replies : \A j \in Replies : i <= j
    BY <1>2, ASmallest
  <1>4. k \in Replies
    BY <1>3 DEF First
  <1>5. k \in 1..Len(stream) /\ stream[k].kind = "probe"
    BY <1>1, <1>4 DEF Replies
  <1> HIDE DEF k
  <1>6. s2 \in Seq(Lines) /\ Len(s2) = Len(stream) - k
        /\ \A i \in 1..Len(s2) : s2[i] = stream[i + k] /\ i + k \in 1..Len(stream)
    <2>1. /\ After(k) \in Seq(Lines)
          /\ Len(After(k)) = IF k + 1 <= Len(stream) THEN Len(stream) - (k + 1) + 1 ELSE 0
          /\ \A i \in 1..Len(stream) - (k + 1) + 1 : After(k)[i] = stream[(k + 1) + i - 1]
      BY <1>1, <1>5, SubSeqProperties DEF After
    <2>2. After(k) = s2
      OBVIOUS
    <2> HIDE DEF s2
    <2>3. Len(s2) = Len(stream) - k
      <3>1. PICK n \in Nat : n = Len(stream)
        BY <1>1
      <3>2. k \in 1..n
        BY <1>5, <3>1
      <3>3. Len(After(k)) = IF k + 1 <= n THEN n - (k + 1) + 1 ELSE 0
        BY <2>1, <3>1
      <3>4. Len(After(k)) = n - k
        BY <3>2, <3>3
      <3> QED BY <2>2, <3>1, <3>4
    <2>4. ASSUME NEW i \in 1..Len(s2)
          PROVE  s2[i] = stream[i + k] /\ i + k \in 1..Len(stream)
      <3>1. i \in 1..Len(stream) - (k + 1) + 1 /\ (k + 1) + i - 1 = i + k /\ i + k \in 1..Len(stream)
        BY <1>1, <1>5, <2>3
      <3> QED BY <2>1, <2>2, <3>1
    <2> QED BY <2>1, <2>2, <2>3, <2>4
  <1> HIDE DEF s2
  <1>7. ASSUME Ordered(cmd, typed, running, stream), stream[k].of = cmd
        PROVE  Ordered(cmd, typed, running, s2) /\ Quiet(typed, running, s2)
    <2>1. ~Older(stream[k], cmd)
      BY <1>1, <1>7 DEF Older
    <2>2. running = NoCommand
      BY <1>5, <1>7, <2>1 DEF Ordered
    <2>3. \A j \in 1..Len(typed) : typed[j].kind # "command"
      BY <1>5, <1>7, <2>1 DEF Ordered
    <2>4. \A j \in 1..Len(stream) : j > k => stream[j].kind # "command"
      BY <1>1, <1>5, <1>7, <2>1 DEF Ordered
    <2>5. \A i \in 1..Len(s2) : s2[i].kind # "command" /\ UpTo(s2[i], cmd)
      BY <1>1, <1>5, <1>6, <1>7, <2>4 DEF Ordered
    <2>6. \A j \in 1..Len(typed) : typed[j].kind = "probe"
      BY <1>1, <2>3, LinesAreTyped
    <2>7. \A j \in 1..Len(s2) : s2[j].kind = "probe"
      BY <1>6, <2>5, LinesAreTyped
    <2> QED BY <1>7, <2>2, <2>3, <2>5, <2>6, <2>7 DEF Ordered, Quiet
  <1> QED BY <1>5, <1>6, <1>7 DEF Pipe, k, s2

----------------------------------------------------------------------------
(* Every step keeps the types. *)

LEMMA ShellTypes ==
  ASSUME ShellTypeOK, RoomForTheCommand, [ShellNext]_lineVars
  PROVE  ShellTypeOK'
  <1> USE DEF NoCommand
  <1>1. Pipe(cmd, typed, running, stream)
    BY DEF ShellTypeOK, Pipe
  <1>2. MaxCommands \in Nat /\ MaxProbes \in Nat /\ MaxProbes # 0
    BY CommandAssumption
  <1>3. 0 \in 0..MaxProbes /\ 0 \in 0..Raised /\ TimedOut \in 0..Raised /\ Raised \in 0..Raised
    BY <1>2 DEF TimedOut, Raised
  <1>4. Pipe(cmd, typed, running, stream)' /\ answer' \in 0..Raised /\ probes' \in 0..MaxProbes
        => ShellTypeOK'
    <2> SUFFICES ASSUME Pipe(cmd, typed, running, stream)', answer' \in 0..Raised,
                        probes' \in 0..MaxProbes
                 PROVE  ShellTypeOK'
      OBVIOUS
    <2>1. /\ cmd' \in 0..MaxCommands /\ typed' \in Seq(Lines)
          /\ running' \in 0..MaxCommands /\ stream' \in Seq(Lines)
      BY DEF Pipe
    <2>2. /\ pc' \in {"idle", "reading", "settling", "probing"}
          /\ mending' \in {"timeout", "preflight"}
          /\ alive' \in BOOLEAN /\ needs' \in BOOLEAN
          /\ torn' \in BOOLEAN /\ misled' \in BOOLEAN /\ parked' \in BOOLEAN
      <3> USE DEF ShellTypeOK, lineVars, sessionVars, shellVars, shellHistory
      <3>1. CASE Shell
        BY <3>1, Zenon DEF Shell, ShellReads, CommandEnds, CommandTakes
      <3>2. CASE Session
        BY <3>2, Zenon DEF Session, ReadLine, SendProbe, Confirm, GoOn, Write
      <3>3. CASE Run \/ TimesOut
        BY <3>3, Zenon DEF Run, TimesOut, Recover, Write
      <3>4. CASE Cancelled \/ ConnectionLost
        BY <3>4, Zenon DEF Cancelled, ConnectionLost
      <3>5. CASE GiveUp \/ Replaced
        BY <3>5, Zenon DEF GiveUp, GoOn, Write, Replaced
      <3>6. CASE UNCHANGED lineVars
        BY <3>6, Zenon
      <3> QED BY <3>1, <3>2, <3>3, <3>4, <3>5, <3>6, Zenon DEF ShellNext
    <2> QED BY <2>1, <2>2, Zenon DEF ShellTypeOK
  <1> SUFFICES Pipe(cmd, typed, running, stream)' /\ answer' \in 0..Raised /\ probes' \in 0..MaxProbes
    BY <1>4
  <1> USE DEF ShellTypeOK
  <1>5. CASE ShellReads
    BY <1>1, <1>5, ReadingALine DEF ShellReads, sessionVars
  <1>6. CASE CommandEnds
    BY <1>1, <1>6, EndingACommand DEF CommandEnds, sessionVars
  <1>7. CASE CommandTakes
    BY <1>1, <1>7, TakingAProbe DEF CommandTakes, sessionVars
  <1>8. CASE ReadLine
    BY <1>1, <1>2, <1>8, ReadingAMarker, LinesAreTyped DEF ReadLine, Raised
  <1>9. CASE SendProbe
    BY <1>1, <1>2, <1>9, TypingAProbe DEF SendProbe
  <1>10. ASSUME GoOn, cmd < MaxCommands \/ mending = "timeout", NEW s \in Seq(Lines)
         PROVE  Pipe(cmd', typed', running, s) /\ answer' \in 0..Raised
    <2>1. Pipe(cmd, typed, running, s)
      BY <1>1, <1>10 DEF Pipe
    <2>2. CASE mending = "timeout"
      BY <1>3, <1>10, <2>1, <2>2 DEF GoOn
    <2>3. CASE mending # "timeout"
      <3>1. cmd + 1 \in 0..MaxCommands
        BY <1>2, <1>10, <2>3
      <3>2. Pipe(cmd + 1, Append(typed, Command(cmd + 1)), running, s)
        BY <2>1, <3>1, TypingACommand
      <3> QED BY <1>3, <1>10, <2>3, <3>2 DEF GoOn, Write
    <2> QED BY <2>2, <2>3
  <1>11. CASE Confirm
    <2>1. stream' \in Seq(Lines)
      BY <1>1, <1>11, TakingAReply DEF Confirm, Pipe
    <2>2. GoOn /\ (cmd < MaxCommands \/ mending = "timeout")
      BY <1>11 DEF Confirm, RoomForTheCommand
    <2> QED BY <1>10, <1>11, <2>1, <2>2 DEF Confirm
  <1>12. CASE Run
    <2>1. CASE needs
      BY <1>1, <1>3, <1>12, <2>1, Interrupting DEF Run, Recover
    <2>2. CASE ~needs
      <3>1. cmd + 1 \in 0..MaxCommands
        BY <1>2, <1>12 DEF Run
      <3>2. Pipe(cmd + 1, Append(typed, Command(cmd + 1)), running, stream)
        BY <1>1, <3>1, TypingACommand
      <3> QED BY <1>3, <1>12, <2>2, <3>2 DEF Run, Write
    <2> QED BY <2>1, <2>2
  <1>13. CASE TimesOut
    BY <1>1, <1>3, <1>13, Interrupting DEF TimesOut, Recover
  <1>14. CASE Cancelled \/ ConnectionLost
    BY <1>1, <1>3, <1>14 DEF Cancelled, ConnectionLost, shellVars
  <1>15. CASE GiveUp
    <2>1. GoOn /\ (cmd < MaxCommands \/ mending = "timeout")
      BY <1>15 DEF GiveUp, RoomForTheCommand
    <2> QED BY <1>10, <1>15, <2>1 DEF GiveUp
  <1>16. CASE Replaced
    BY <1>1, <1>2, <1>3, <1>16 DEF Replaced, Pipe
  <1>17. CASE UNCHANGED lineVars
    BY <1>1, <1>17 DEF lineVars, sessionVars, shellVars
  <1> QED BY <1>5, <1>6, <1>7, <1>8, <1>9, <1>11, <1>12, <1>13, <1>14, <1>15, <1>16, <1>17
          DEF ShellNext, Shell, Session

----------------------------------------------------------------------------
(* Every step keeps the rest. *)

LEMMA ShellInitInv == ShellInit => ShellInv
  <1> SUFFICES ASSUME ShellInit PROVE ShellInv
    OBVIOUS
  <1>1. ShellTypeOK
    <2>1. /\ typed \in Seq(Lines) /\ stream \in Seq(Lines) /\ cmd \in 0..MaxCommands
          /\ running \in 0..MaxCommands /\ answer \in 0..Raised /\ probes \in 0..MaxProbes
      BY CommandAssumption DEF ShellInit, NoCommand, Raised
    <2> QED BY <2>1, Zenon DEF ShellInit, ShellTypeOK
  <1>2. Ordered(0, <<>>, 0, <<>>) /\ Quiet(<<>>, 0, <<>>)
    BY DEF Ordered, Quiet, NoCommand
  <1> QED BY <1>1, <1>2, CommandAssumption
          DEF ShellInit, ShellInv, OneMarkerAhead, QuietBetweenCalls, RoomForTheCommand,
              DeadIsParked, AnswersItsOwn, NoCommand, Commands

(* What the control of a call comes to.                                    *)
LEMMA RoomIsKept ==
  ASSUME ShellTypeOK, RoomForTheCommand, [ShellNext]_lineVars
  PROVE  RoomForTheCommand'
  <1> USE DEF RoomForTheCommand
  <1>1. CASE Shell \/ UNCHANGED lineVars
    BY <1>1 DEF Shell, ShellReads, CommandEnds, CommandTakes, lineVars, sessionVars
  <1>2. CASE Session
    BY <1>2 DEF Session, ReadLine, SendProbe, Confirm, GoOn, Write
  <1>3. CASE Run \/ TimesOut
    BY <1>3 DEF Run, TimesOut, Recover, Write
  <1>4. CASE Cancelled \/ ConnectionLost \/ GiveUp \/ Replaced
    BY <1>4 DEF Cancelled, ConnectionLost, GiveUp, GoOn, Write, Replaced
  <1> QED BY <1>1, <1>2, <1>3, <1>4 DEF ShellNext

LEMMA ParkedIsKept ==
  ASSUME ShellTypeOK, DeadIsParked, [ShellNext]_lineVars
  PROVE  DeadIsParked'
  <1> USE DEF DeadIsParked, ShellTypeOK
  <1>1. CASE Shell \/ UNCHANGED lineVars
    BY <1>1, Zenon DEF Shell, ShellReads, CommandEnds, CommandTakes, lineVars, sessionVars, shellHistory
  <1>2. CASE ReadLine \/ SendProbe
    BY <1>2, Zenon DEF ReadLine, SendProbe, shellHistory
  <1>3. CASE Confirm
    BY <1>3, Zenon DEF Confirm, GoOn, Write
  <1>4. CASE Run \/ TimesOut
    BY <1>4, Zenon DEF Run, TimesOut, Recover, Write, shellHistory
  <1>5. CASE Cancelled \/ ConnectionLost \/ Replaced
    BY <1>5, Zenon DEF Cancelled, ConnectionLost, Replaced
  <1>6. CASE GiveUp
    BY <1>6, Zenon DEF GiveUp, GoOn, Write
  <1> QED BY <1>1, <1>2, <1>3, <1>4, <1>5, <1>6 DEF ShellNext, Session

LEMMA OrderIsKept ==
  ASSUME ShellInv, [ShellNext]_lineVars
  PROVE  OneMarkerAhead' /\ QuietBetweenCalls'
  <1> DEFINE Here == Ordered(cmd, typed, running, stream)
             Still == Quiet(typed, running, stream)
  <1>1. Pipe(cmd, typed, running, stream)
    BY DEF ShellInv, ShellTypeOK, Pipe
  <1>2. /\ Trusted => Here
        /\ Trusted /\ pc = "idle" /\ ~needs => Still
    BY DEF ShellInv, OneMarkerAhead, QuietBetweenCalls
  <1>3. SUFFICES ASSUME Trusted'
                 PROVE  /\ Here'
                        /\ pc' = "idle" /\ ~needs' => Still'
    BY DEF OneMarkerAhead, QuietBetweenCalls
  <1> USE DEF Trusted
  <1>4. CASE ShellReads
    <2>1. Trusted
      BY <1>3, <1>4 DEF ShellReads, sessionVars, shellHistory
    <2> QED BY <1>1, <1>2, <1>4, <2>1, ReadingALine DEF ShellReads, sessionVars
  <1>5. CASE CommandEnds
    <2>1. Trusted
      BY <1>3, <1>5 DEF CommandEnds, sessionVars, shellHistory
    <2> QED BY <1>1, <1>2, <1>5, <2>1, EndingACommand DEF CommandEnds, sessionVars
  <1>6. CASE CommandTakes
    <2>1. Trusted
      BY <1>3, <1>6 DEF CommandTakes, sessionVars, shellHistory
    <2> QED BY <1>1, <1>2, <1>6, <2>1, TakingAProbe DEF CommandTakes, sessionVars
  <1>7. CASE ReadLine
    <2>1. Here
      BY <1>2, <1>3, <1>7 DEF ReadLine, shellHistory
    <2> QED BY <1>1, <1>7, <2>1, ReadingAMarker DEF ReadLine
  <1>8. CASE SendProbe
    <2>1. Here
      BY <1>2, <1>3, <1>8 DEF SendProbe, shellHistory
    <2> QED BY <1>1, <1>8, <2>1, TypingAProbe DEF SendProbe
  <1>9. CASE Confirm
    <2>1. Here /\ stream[First(Replies)].of = cmd
      BY <1>2, <1>3, <1>9 DEF Confirm
    <2>2. /\ Pipe(cmd, typed, running, stream')
          /\ Ordered(cmd, typed, running, stream')
          /\ Quiet(typed, running, stream')
      BY <1>1, <1>9, <2>1, TakingAReply DEF Confirm
    <2>3. CASE mending = "timeout"
      BY <1>9, <2>2, <2>3 DEF Confirm, GoOn
    <2>4. CASE mending # "timeout"
      <3>1. cmd + 1 \in 0..MaxCommands
        BY <1>9, <2>4, CommandAssumption DEF ShellInv, ShellTypeOK, Confirm, RoomForTheCommand
      <3>2. Ordered(cmd + 1, Append(typed, Command(cmd + 1)), running, stream')
        BY <2>2, <3>1, TypingACommand
      <3> QED BY <1>9, <2>4, <3>2 DEF Confirm, GoOn, Write
    <2> QED BY <2>3, <2>4
  <1>10. CASE Run
    <2>1. Trusted /\ pc = "idle" /\ pc' # "idle"
      BY <1>3, <1>10 DEF Run, shellHistory, Recover, Write
    <2>2. CASE needs
      BY <1>1, <1>2, <1>10, <2>1, <2>2, Interrupting DEF Run, Recover
    <2>3. CASE ~needs
      <3>1. cmd + 1 \in 0..MaxCommands
        BY <1>10, CommandAssumption DEF ShellInv, ShellTypeOK, Run
      <3>2. Ordered(cmd + 1, Append(typed, Command(cmd + 1)), running, stream)
        BY <1>1, <1>2, <2>1, <2>3, <3>1, TypingACommand
      <3> QED BY <1>10, <2>1, <2>3, <3>2 DEF Run, Write
    <2> QED BY <2>2, <2>3
  <1>11. CASE TimesOut
    <2>1. Here /\ pc' # "idle"
      BY <1>2, <1>3, <1>11 DEF TimesOut, Recover, shellHistory
    <2> QED BY <1>1, <1>11, <2>1, Interrupting DEF TimesOut, Recover
  <1>12. CASE Cancelled
    <2>1. Trusted /\ needs' = TRUE
      BY <1>3, <1>12 DEF Cancelled
    <2> QED BY <1>2, <1>12, <2>1 DEF Cancelled, shellVars
  <1>13. CASE ConnectionLost \/ GiveUp
    BY <1>3, <1>13 DEF ConnectionLost, GiveUp
  <1>14. CASE Replaced
    <2>1. Len(<<>>) = 0
      OBVIOUS
    <2>2. Ordered(cmd', <<>>, NoCommand, <<>>) /\ Quiet(<<>>, NoCommand, <<>>)
      BY <2>1 DEF Ordered, Quiet
    <2> QED BY <1>14, <2>2 DEF Replaced
  <1>15. CASE UNCHANGED lineVars
    BY <1>2, <1>3, <1>15 DEF lineVars, sessionVars, shellVars, shellHistory
  <1> QED BY <1>4, <1>5, <1>6, <1>7, <1>8, <1>9, <1>10, <1>11, <1>12, <1>13, <1>14, <1>15
          DEF ShellNext, Shell, Session

LEMMA AnswersAreKept ==
  ASSUME ShellInv, [ShellNext]_lineVars
  PROVE  AnswersItsOwn'
  <1>1. AnswersItsOwn /\ ShellTypeOK
    BY DEF ShellInv
  <1>2. MaxCommands \in Nat /\ TimedOut \notin Commands /\ Raised \notin Commands
        /\ NoCommand \notin Commands
    BY CommandAssumption DEF TimedOut, Raised, Commands, NoCommand
  <1> USE DEF AnswersItsOwn
  <1>3. CASE Shell \/ UNCHANGED lineVars
    BY <1>1, <1>3, Zenon
    DEF Shell, ShellReads, CommandEnds, CommandTakes, lineVars, sessionVars, shellHistory
  <1>4. CASE ReadLine
    <2>1. CASE Head(stream).kind = "command"
      <3>1. ~(torn \/ misled \/ parked) => Trusted
        BY <1>1, <1>4 DEF Trusted, ReadLine, ShellInv, DeadIsParked
      <3>2. ~(torn \/ misled \/ parked) => Head(stream).of = cmd
        BY <1>4, <2>1, <3>1, ReadingAMarker
           DEF ShellInv, ShellTypeOK, OneMarkerAhead, Pipe, ReadLine
      <3>3. answer' = Head(stream).of /\ UNCHANGED <<cmd, torn, misled, parked>>
        BY <1>4, <2>1 DEF ReadLine, shellHistory
      <3> QED BY <3>2, <3>3
    <2>2. CASE Head(stream).kind # "command"
      BY <1>4, <2>2 DEF ReadLine
    <2> QED BY <2>1, <2>2
  <1>5. CASE SendProbe \/ Run \/ TimesOut
    BY <1>5 DEF SendProbe, Run, TimesOut, Recover, Write
  <1>6. CASE Confirm \/ GiveUp
    BY <1>2, <1>6 DEF Confirm, GiveUp, GoOn, Write
  <1>7. CASE Cancelled \/ ConnectionLost \/ Replaced
    BY <1>2, <1>7 DEF Cancelled, ConnectionLost, Replaced
  <1> QED BY <1>3, <1>4, <1>5, <1>6, <1>7 DEF ShellNext, Session

----------------------------------------------------------------------------
(* Theorems. *)

(* The inductive invariant: between the caller and the shell there is at   *)
(* most one end marker, it is the last command's, and a reply to a probe of*)
(* that command's leaves none behind it; for any number of commands and    *)
(* probes.                                                                 *)
THEOREM ShellInvariant == ShellSpec => []ShellInv
  <1>1. ShellInv /\ [ShellNext]_lineVars => ShellInv'
    BY ShellTypes, RoomIsKept, ParkedIsKept, OrderIsKept, AnswersAreKept DEF ShellInv
  <1> QED BY <1>1, ShellInitInv, PTL DEF ShellSpec

(* Every variable of the session and of the far side keeps its type.       *)
THEOREM ShellTypeCorrect == ShellSpec => []ShellTypeOK
  <1>1. ShellInv => ShellTypeOK
    BY DEF ShellInv
  <1> QED BY <1>1, ShellInvariant, PTL

(* A call of run_cmd never returns another command's output, whatever      *)
(* timed out or was cancelled before it, but in the three cases the        *)
(* property names.                                                         *)
THEOREM CallsAnswerTheirOwn == ShellSpec => []AnswersItsOwn
  <1>1. ShellInv => AnswersItsOwn
    BY DEF ShellInv
  <1> QED BY <1>1, ShellInvariant, PTL
(* A session into which a command was typed after a failed recovery is     *)
(* dead, and stays so until another takes its place.                       *)
ParkedIsDead == parked => ~alive

LEMMA ParkedStaysDead == ParkedIsDead /\ [ShellNext]_lineVars => ParkedIsDead'
  BY DEF ParkedIsDead, ShellNext, Shell, Session, ShellReads, CommandEnds, CommandTakes, ReadLine,
         SendProbe, Confirm, Run, TimesOut, Cancelled, ConnectionLost, GiveUp, Replaced,
         sessionVars, shellVars, shellHistory, lineVars

(* Where the rule that a cancelled recovery leaves its mark breaks, and    *)
(* nowhere else: only the recovery that precedes a command, cancelled,     *)
(* leaves a session alive and unmarked whose shell is not at its prompt.   *)
THEOREM OnlyATornRecoveryIsUnmarked == ShellSpec => [](torn \/ MarkedForRecovery)
  <1>1. ShellInit => ParkedIsDead
    BY DEF ShellInit, ParkedIsDead
  <1>2. ShellSpec => []ParkedIsDead
    BY <1>1, ParkedStaysDead, PTL DEF ShellSpec
  <1>3. ShellInv /\ ParkedIsDead => torn \/ MarkedForRecovery
    BY DEF ShellInv, ShellTypeOK, QuietBetweenCalls, Trusted, Quiet, ParkedIsDead, MarkedForRecovery
  <1> QED BY <1>2, <1>3, ShellInvariant, PTL

=============================================================================
