---------------------------- MODULE LinkImpairProofs ---------------------------
(* Proofs about LinkImpair, the impairments of a link and their timers,    *)
(* for any selectors, placements, calls and failures.                      *)
EXTENDS MCFarSide, SessionProofs, FiniteSetTheorems, SequenceTheorems, TLAPS

----------------------------------------------------------------------------
(* The inductive invariant of the impairments. *)

Forward == {"cancelling", "reading", "changing", "arming"}
Back == {"unwinding", "restoring"}
Busy == {"reading", "changing", "arming"}

(* Only a scoped root has anything under it, and a selector has one band.  *)
WellFormed(T) ==
    /\ T \in Trees
    /\ T.root # "scoped" => T = Bare(T.root, T.level)
    /\ T.root # "whole" => T.level = 0
    /\ \A b, c \in Bands : T.filter[b] = T.filter[c] /\ T.filter[b] # NoSelector => b = c

Orders == [do : {"whole", "root", "leaf", "filter", "delete filter", "delete leaf", "delete root"},
             band : Bands, scope : Scopes, level : Levels]

TreesAreWellFormed ==
    /\ \A p \in Devices : WellFormed(tree[p])
    /\ commands \in Seq(Orders)
    /\ entries \in Seq([place : Devices, tree : Trees])

(* The placements are taken in turn, and registered as they are read.      *)
CallShape ==
    /\ phase = "idle" \/ op.kind = "repair" => entries = <<>>
    /\ phase \in Back => op.kind = "impair" /\ entries # <<>>
    /\ phase \in Forward =>
          /\ op.first <= place
          /\ op.kind = "impair" =>
                /\ Len(entries) = place - op.first + (IF phase \in {"changing", "arming"} THEN 1 ELSE 0)
                /\ \A i \in DOMAIN entries : entries[i].place = op.first + i - 1
    /\ phase = "arming" => Arms
    /\ phase = "restoring" => place = Last(entries).place

(* What is registered is what a call may change.                           *)
Changeable(E) ==
    /\ WellFormed(E) /\ ReadAs(E) = E
    /\ Kind(E) # "foreign"
    /\ op.scope # NoSelector => Kind(E) # "whole"
    /\ op.scope = NoSelector => Kind(E) # "scoped"

EntriesAreChangeable == \A i \in DOMAIN entries : Changeable(entries[i].tree)

(* A call at work meets no timer of its own.                               *)
OwnAreGone ==
    /\ phase \in Busy /\ place \notin unscanned =>
          \A t \in timers : ~Own(t) /\ ~(Everything /\ t.place = place)
    /\ phase = "restoring" /\ place \notin unscanned => \A t \in timers : ~Own(t)

OneTimerEach ==
    \A t, u \in timers :
        t.place \notin unscanned /\ t.place = u.place /\ t.scope = u.scope => t = u

IdleAreWhole == \A t \in timers : t.idle => t.scope = NoSelector

(* A timer that waits for an impairment nobody lost track of.              *)
Waits(t) == t.at = "sleep" /\ ~t.idle /\ t.place \notin unscanned \cup botched \cup wiped

(* It finds what it was launched with, but while that is being put back.   *)
WaitersFindTheirs ==
    \A t \in timers : Waits(t) =>
        /\ ~t.stale
        /\ IF t.scope = NoSelector THEN tree[t.place].root = "whole"
           ELSE \/ tree[t.place].filter[t.band] = t.scope
                \/ phase = "restoring" /\ place = t.place

(* What is registered for the rollback has it too, unless it is the call's.*)
EntriesKnowWaiters ==
    \A i \in DOMAIN entries : \A t \in timers :
        Waits(t) /\ t.place = entries[i].place /\ t.scope # op.scope =>
            t.scope # NoSelector /\ entries[i].tree.filter[t.band] = t.scope

(* No command of a call is about another's impairment.                     *)
Harmless(c, t) ==
    /\ c.do \notin {"whole", "delete root"}
    /\ c.do \in {"filter", "delete filter"} => c.band # t.band

ChangesAreHarmless ==
    phase = "changing" =>
        \A t \in timers : Waits(t) /\ t.place = place =>
            t.scope # NoSelector /\ \A i \in DOMAIN commands : Harmless(commands[i], t)

(* A selector goes to the band its timer will clear.                       *)
OwnBand == BandFor(Last(entries).tree, op.scope)

SelectorHasItsBand ==
    phase \in {"changing", "arming"} /\ op.kind = "impair" /\ op.scope # NoSelector /\ op.level # 0 =>
        /\ OwnBand \in Bands
        /\ \A b \in Bands : tree[place].filter[b] = op.scope => b = OwnBand
        /\ phase = "changing" => \A i \in DOMAIN commands :
              /\ commands[i].do \in {"root", "leaf", "filter"}
              /\ commands[i].do = "filter" => commands[i].band = OwnBand /\ commands[i].scope = op.scope

(* No other call adds a filter.                                            *)
OnlyTheyFilter ==
    phase = "changing" /\ ~(op.kind = "impair" /\ op.scope # NoSelector /\ op.level # 0) =>
        \A i \in DOMAIN commands : commands[i].do # "filter"

(* A timer is launched for what is there.                                  *)
ArmedIsThere ==
    phase = "arming" /\ place \notin unscanned \cup botched \cup wiped /\ op.level # 0 =>
        IF op.scope = NoSelector THEN tree[place].root = "whole"
        ELSE tree[place].filter[OwnBand] = op.scope

(* What a restoration has put back after k commands.                       *)
PutBack(E, k) ==
    LET bands == SetToSeq(Filtered(E))
    IN  CASE Kind(E) = "whole" -> E
          [] Kind(E) = "scoped" /\ k > 1 ->
                [root |-> "scoped", level |-> 0,
                 leaf |-> [b \in Bands |->
                    IF \E i \in DOMAIN bands : bands[i] = b /\ 2 * i + 1 <= k THEN E.leaf[b] ELSE 0],
                 filter |-> [b \in Bands |->
                    IF \E i \in DOMAIN bands : bands[i] = b /\ 2 * i + 2 <= k THEN E.filter[b]
                    ELSE NoSelector]]
          [] OTHER -> Clean

RestoredTo(k) ==
    LET E == Last(entries).tree
        T == tree[place]
        bands == SetToSeq(Filtered(E))
    IN  /\ Len(commands) = Len(Restore(E)) - k
        /\ \A i \in DOMAIN commands : commands[i] = Restore(E)[k + i]
        /\ k > 0 => \A b \in Bands : T.filter[b] \in {NoSelector, E.filter[b]}
        /\ k > 0 /\ ~disturbed => T = PutBack(E, k)
        /\ \A t \in timers : Waits(t) /\ t.place = place =>
              /\ k = 0 => T.filter[t.band] = t.scope
              /\ k > 1 => T.root = "scoped"
              /\ \A i \in DOMAIN bands : bands[i] = t.band /\ 2 * i + 2 <= k => T.filter[t.band] = t.scope

RestoresInTurn ==
    phase = "restoring" => \E k \in 0..Len(Restore(Last(entries).tree)) : RestoredTo(k)

(* What a call did not register is as it found it.                         *)
Touched == {entries[i].place : i \in DOMAIN entries}

CallKnowsBefore ==
    ~disturbed /\ op.kind = "impair" =>
        /\ phase # "idle" => \A i \in DOMAIN entries : entries[i].tree = ReadAs(before[entries[i].place])
        /\ phase \in Forward =>
              \A p \in Devices \ Touched : ReadAs(tree[p]) = ReadAs(before[p])
        /\ phase \in Back =>
              \A p \in Devices \ (Touched \cup botched) : ReadAs(tree[p]) = ReadAs(before[p])

(* What a call has done with is as asked.                                  *)
LevelAsked(p) ==
    IF op.scope = NoSelector
    THEN (IF Kind(tree[p]) = "whole" THEN tree[p].level ELSE 0) = op.level
    ELSE {sl \in SelectorLevels(tree[p]) : sl[1] = op.scope} =
         (IF op.level = 0 THEN {} ELSE {<<op.scope, op.level>>})

TimersAsked(p) ==
    p \notin unscanned =>
        {t.stale : t \in {u \in timers : u.place = p /\ u.scope = op.scope}} =
        (IF Arms THEN {FALSE} ELSE {})

DoneSoFar ==
    ~disturbed /\ op.kind = "impair" =>
        /\ phase \in Forward =>
              \A p \in Devices : op.first <= p /\ p < place => LevelAsked(p) /\ TimersAsked(p)
        /\ phase = "arming" => LevelAsked(place)

LinkInv ==
    /\ LinkTypeOK /\ TreesAreWellFormed /\ CallShape /\ EntriesAreChangeable
    /\ OwnAreGone /\ OneTimerEach /\ IdleAreWhole
    /\ WaitersFindTheirs /\ EntriesKnowWaiters /\ ChangesAreHarmless
    /\ SelectorHasItsBand /\ OnlyTheyFilter /\ ArmedIsThere
    /\ RestoresInTurn
    /\ CallKnowsBefore /\ DoneSoFar
    /\ NoHalfImpairment /\ ImpairedAsAsked

----------------------------------------------------------------------------
(* Bands and the trees they hang in. *)

LEMMA BandFacts ==
    /\ Cardinality(Selectors) \in Nat /\ Cardinality(Selectors) > 0
    /\ Bands \subseteq Nat /\ 1 \in Bands
    /\ IsFiniteSet(Bands) /\ Cardinality(Bands) = Cardinality(Selectors)
<1>1. Cardinality(Selectors) \in Nat /\ Cardinality(Selectors) # 0
    BY LinkAssumption, FS_CardinalityType, FS_EmptySet
<1>2. IsFiniteSet(1..Cardinality(Selectors)) /\ Cardinality(1..Cardinality(Selectors)) = Cardinality(Selectors)
    BY <1>1, FS_Interval
<1>3. 1..Cardinality(Selectors) \subseteq Nat /\ 1 \in 1..Cardinality(Selectors)
    BY <1>1
<1> QED
    BY <1>1, <1>2, <1>3 DEF Bands

LEMMA TheLowest ==
    ASSUME NEW S \in SUBSET Nat, S # {}
    PROVE  \E i \in S : \A j \in S : i <= j
<1> DEFINE R == OpToRel(<, Nat)
<1>1. PICK i \in S : \A j \in S : ~(<<j, i>> \in R)
  <2>1. IsWellFoundedOn(R, Nat)
    BY NatLessThanWellFounded
  <2> HIDE DEF R
  <2> QED
    BY <2>1, WFMin
<1>2. ASSUME NEW j \in S, j < i PROVE FALSE
    BY <1>1, <1>2 DEF OpToRel
<1> QED
    BY <1>2

(* A set of bands as a list has each of them once.                         *)
LEMMA BandsInTurn ==
    ASSUME NEW S \in SUBSET Bands
    PROVE  /\ Cardinality(S) \in Nat
           /\ SetToSeq(S) \in [1..Cardinality(S) -> S]
           /\ Len(SetToSeq(S)) = Cardinality(S)
           /\ \A i, j \in DOMAIN SetToSeq(S) : SetToSeq(S)[i] = SetToSeq(S)[j] => i = j
           /\ \A b \in S : \E i \in DOMAIN SetToSeq(S) : SetToSeq(S)[i] = b
<1> DEFINE n == Cardinality(S)
           q == SetToSeq(S)
<1>1. IsFiniteSet(S) /\ n \in Nat /\ ExistsBijection(1..n, S)
    BY BandFacts, FS_Subset, FS_CardinalityType
<1>2. \E f \in [1..n -> S] : IsInjective(f)
    BY <1>1 DEF ExistsBijection, Bijection, Injection
<1>3. q \in [1..n -> S] /\ IsInjective(q)
    BY <1>2 DEF SetToSeq
<1>4. q \in Injection(1..n, S) /\ IsFiniteSet(1..n) /\ Cardinality(1..n) = n
    BY <1>1, <1>3, FS_Interval DEF Injection
<1>5. q \in Surjection(1..n, S)
    BY <1>1, <1>4, FS_Injection
<1> HIDE DEF q, n
<1>6. q \in Seq(S) /\ Len(q) = n /\ DOMAIN q = 1..n
    BY <1>1, <1>3
<1>7. \A b \in S : \E i \in DOMAIN q : q[i] = b
    BY <1>5, <1>6 DEF Surjection
<1>8. \A i, j \in DOMAIN q : q[i] = q[j] => i = j
    BY <1>3 DEF IsInjective
<1> QED
    BY <1>1, <1>3, <1>6, <1>7, <1>8 DEF q, n

LEMMA ScopeFacts ==
    /\ NoSelector \in Scopes /\ NoSelector \notin Selectors /\ Selectors \subseteq Scopes
    /\ \A s \in Scopes : s # NoSelector => s \in Selectors
    /\ 0 \in Levels /\ Levels \subseteq Nat
    /\ 1 \in Devices /\ Placements \in Devices /\ Devices \subseteq Nat
    BY LinkAssumption DEF Scopes, Levels, Devices

LEMMA BareFacts ==
    ASSUME NEW root \in {"none", "whole", "scoped"}, NEW level \in Levels
    PROVE  /\ Bare(root, level) \in Trees
           /\ Bare(root, level).root = root /\ Bare(root, level).level = level
           /\ \A b \in Bands : Bare(root, level).leaf[b] = 0 /\ Bare(root, level).filter[b] = NoSelector
    BY ScopeFacts DEF Bare, Trees

LEMMA BareIsWellFormed ==
    ASSUME NEW root \in {"none", "whole", "scoped"}, NEW level \in Levels,
           root # "whole" => level = 0
    PROVE  WellFormed(Bare(root, level))
    BY BareFacts DEF WellFormed

LEMMA CleanFacts ==
    /\ WellFormed(Clean) /\ Clean \in Trees /\ Clean.root = "none" /\ Clean.level = 0
    /\ Filtered(Clean) = {} /\ Leaves(Clean) = {}
    /\ \A b \in Bands : Clean.leaf[b] = 0 /\ Clean.filter[b] = NoSelector
    /\ Kind(Clean) = "clean" /\ ReadAs(Clean) = Clean
<1>1. WellFormed(Clean) /\ Clean \in Trees /\ Clean.root = "none" /\ Clean.level = 0
      /\ \A b \in Bands : Clean.leaf[b] = 0 /\ Clean.filter[b] = NoSelector
    BY BareFacts, BareIsWellFormed, ScopeFacts DEF Clean
<1>2. Kind(Clean) = "clean"
    BY <1>1 DEF Kind
<1> QED
    BY <1>1, <1>2 DEF ReadAs, Filtered, Leaves

(* What a tree reads as.                                                   *)
LEMMA KindFacts ==
    ASSUME NEW T, WellFormed(T)
    PROVE  /\ Kind(T) \in {"clean", "whole", "scoped", "foreign"}
           /\ Kind(T) = "whole" <=> T.root = "whole"
           /\ Kind(T) = "scoped" => T.root = "scoped" /\ Leaves(T) = Filtered(T) /\ Leaves(T) # {}
           /\ Kind(T) = "clean" => Filtered(T) = {} /\ Leaves(T) = {}
           /\ Filtered(T) # {} => T.root = "scoped" /\ Kind(T) \in {"scoped", "foreign"}
           /\ Kind(T) # "clean" => ReadAs(T) = T
           /\ Kind(T) = "clean" => ReadAs(T) = Clean
<1>1. T.root \in {"none", "whole", "scoped"} /\ T.level \in Levels
    BY DEF WellFormed, Trees
<1>2. T.root # "scoped" => Filtered(T) = {} /\ Leaves(T) = {}
    BY <1>1, BareFacts DEF WellFormed, Filtered, Leaves
<1>3. CASE T.root = "none"
    BY <1>2, <1>3 DEF Kind, ReadAs
<1>4. CASE T.root = "whole"
    BY <1>2, <1>4 DEF Kind, ReadAs
<1>5. CASE T.root = "scoped"
  <2>1. CASE Leaves(T) \cup Filtered(T) = {}
    <3>1. Kind(T) = "clean"
      BY <1>5, <2>1 DEF Kind
    <3> QED
      BY <1>5, <2>1, <3>1 DEF ReadAs
  <2>2. CASE Leaves(T) \cup Filtered(T) # {} /\ Leaves(T) = Filtered(T)
    <3>1. Kind(T) = "scoped"
      BY <1>5, <2>2 DEF Kind
    <3> QED
      BY <1>5, <2>2, <3>1 DEF ReadAs
  <2>3. CASE Leaves(T) # Filtered(T)
    <3>1. Kind(T) = "foreign"
      BY <1>5, <2>3 DEF Kind
    <3> QED
      BY <1>5, <2>3, <3>1 DEF ReadAs
  <2> QED
    BY <2>1, <2>2, <2>3
<1> QED
    BY <1>1, <1>3, <1>4, <1>5

LEMMA ReadIsWellFormed ==
    ASSUME NEW T, WellFormed(T)
    PROVE  /\ WellFormed(ReadAs(T)) /\ ReadAs(ReadAs(T)) = ReadAs(T)
           /\ Kind(ReadAs(T)) = Kind(T)
           /\ \A b \in Bands : T.filter[b] = ReadAs(T).filter[b]
<1>1. CASE Kind(T) # "clean"
    BY <1>1, KindFacts
<1>2. CASE Kind(T) = "clean"
  <2>1. ReadAs(T) = Clean /\ Filtered(T) = {}
    BY <1>2, KindFacts
  <2> QED
    BY <1>2, <2>1, CleanFacts DEF Filtered
<1> QED
    BY <1>1, <1>2

----------------------------------------------------------------------------
(* Orders. *)

LEMMA EffectIsWellFormed ==
    ASSUME NEW T, WellFormed(T), NEW c \in Orders,
           c.do = "filter" /\ c.scope # NoSelector =>
               \A b \in Bands : T.filter[b] = c.scope => b = c.band
    PROVE  WellFormed(Effect(T, c))
<1>1. /\ T \in Trees /\ c.band \in Bands /\ c.scope \in Scopes /\ c.level \in Levels
      /\ T.root \in {"none", "whole", "scoped"} /\ T.level \in Levels
      /\ T.leaf \in [Bands -> Levels] /\ T.filter \in [Bands -> Scopes]
    BY DEF WellFormed, Trees, Orders
<1>2. CASE c.do = "whole"
    BY <1>1, <1>2, BareIsWellFormed DEF Effect
<1>3. CASE c.do = "root"
    BY <1>1, <1>3, BareIsWellFormed, ScopeFacts DEF Effect
<1>4. CASE c.do = "leaf"
  <2>1. CASE T.root = "scoped"
    <3>1. PICK U : U = [T EXCEPT !.leaf[c.band] = c.level]
      OBVIOUS
    <3>2. U \in Trees /\ U.root = "scoped" /\ U.level = T.level /\ U.filter = T.filter
      BY <1>1, <2>1, <3>1 DEF Trees
    <3>3. Effect(T, c) = U
      BY <1>4, <2>1, <3>1 DEF Effect
    <3> QED
      BY <2>1, <3>2, <3>3 DEF WellFormed
  <2> QED
    BY <1>4, <2>1 DEF Effect
<1>5. CASE c.do = "filter"
  <2>1. CASE T.root = "scoped"
    <3>1. PICK U : U = [T EXCEPT !.filter[c.band] = c.scope]
      OBVIOUS
    <3>2. /\ U \in Trees /\ U.root = "scoped" /\ U.level = T.level
          /\ \A b \in Bands : U.filter[b] = IF b = c.band THEN c.scope ELSE T.filter[b]
      BY <1>1, <2>1, <3>1 DEF Trees
    <3>3. Effect(T, c) = U
      BY <1>5, <2>1, <3>1 DEF Effect
    <3>4. \A b, d \in Bands : U.filter[b] = U.filter[d] /\ U.filter[b] # NoSelector => b = d
      BY <1>5, <3>2 DEF WellFormed
    <3> QED
      BY <2>1, <3>2, <3>3, <3>4 DEF WellFormed
  <2> QED
    BY <1>5, <2>1 DEF Effect
<1>6. CASE c.do = "delete filter"
  <2>1. PICK U : U = [T EXCEPT !.filter[c.band] = NoSelector]
    OBVIOUS
  <2>2. /\ U \in Trees /\ U.root = T.root /\ U.level = T.level /\ U.leaf = T.leaf
        /\ \A b \in Bands : U.filter[b] = IF b = c.band THEN NoSelector ELSE T.filter[b]
    BY <1>1, <2>1, ScopeFacts DEF Trees
  <2>3. Effect(T, c) = U
    BY <1>6, <2>1 DEF Effect
  <2>4. T.root # "scoped" => U = T
    <3> SUFFICES ASSUME T.root # "scoped" PROVE U = T
      OBVIOUS
    <3>1. T.filter[c.band] = NoSelector
      BY <1>1, BareFacts DEF WellFormed
    <3> QED
      BY <1>1, <2>1, <3>1 DEF Trees
  <2> QED
    BY <2>2, <2>3, <2>4 DEF WellFormed
<1>7. CASE c.do = "delete leaf"
  <2>1. PICK U : U = [T EXCEPT !.leaf[c.band] = 0]
    OBVIOUS
  <2>2. /\ U \in Trees /\ U.root = T.root /\ U.level = T.level /\ U.filter = T.filter
    BY <1>1, <2>1, ScopeFacts DEF Trees
  <2>3. Effect(T, c) = U
    BY <1>7, <2>1 DEF Effect
  <2>4. T.root # "scoped" => U = T
    <3> SUFFICES ASSUME T.root # "scoped" PROVE U = T
      OBVIOUS
    <3>1. T.leaf[c.band] = 0
      BY <1>1, BareFacts DEF WellFormed
    <3> QED
      BY <1>1, <2>1, <3>1 DEF Trees
  <2> QED
    BY <2>2, <2>3, <2>4 DEF WellFormed
<1>8. CASE c.do = "delete root"
    BY <1>8, CleanFacts DEF Effect
<1> QED
    BY <1>2, <1>3, <1>4, <1>5, <1>6, <1>7, <1>8 DEF Orders

(* What a command does to the root and the filters.                        *)
LEMMA EffectOnFilters ==
    ASSUME NEW T, WellFormed(T), NEW c \in Orders
    PROVE  LET U == Effect(T, c)
           IN  /\ c.do \in {"leaf", "delete leaf", "filter", "delete filter"} => U.root = T.root
               /\ c.do = "root" => U.root = "scoped"
               /\ c.do \in {"leaf", "delete leaf"} => U.filter = T.filter
               /\ c.do = "root" /\ T.root = "scoped" => U = T
               /\ c.do = "filter" /\ T.root = "scoped" =>
                     \A b \in Bands : U.filter[b] = IF b = c.band THEN c.scope ELSE T.filter[b]
               /\ c.do = "filter" /\ T.root # "scoped" => U = T
               /\ c.do = "delete filter" =>
                     \A b \in Bands : U.filter[b] = IF b = c.band THEN NoSelector ELSE T.filter[b]
               /\ c.do \in {"whole", "delete root"} \/ (c.do = "root" /\ T.root # "scoped") =>
                     \A b \in Bands : U.filter[b] = NoSelector
<1>1. /\ c.band \in Bands /\ c.scope \in Scopes /\ c.level \in Levels
      /\ T = [root |-> T.root, level |-> T.level, leaf |-> T.leaf, filter |-> T.filter]
      /\ T.leaf \in [Bands -> Levels] /\ T.filter \in [Bands -> Scopes]
    BY DEF WellFormed, Trees, Orders
<1>2. CASE c.do = "whole"
    BY <1>1, <1>2, BareFacts DEF Effect
<1>3. CASE c.do = "root"
    BY <1>1, <1>3, BareFacts, ScopeFacts DEF Effect
<1>4. CASE c.do = "leaf"
    BY <1>1, <1>4 DEF Effect
<1>5. CASE c.do = "filter"
    BY <1>1, <1>5 DEF Effect
<1>6. CASE c.do = "delete filter"
    BY <1>1, <1>6 DEF Effect
<1>7. CASE c.do = "delete leaf"
    BY <1>1, <1>7 DEF Effect
<1>8. CASE c.do = "delete root"
    BY <1>8, CleanFacts DEF Effect
<1> QED
    BY <1>2, <1>3, <1>4, <1>5, <1>6, <1>7, <1>8 DEF Orders

Follows(T, c, U) ==
    /\ c.do \in {"leaf", "delete leaf", "filter", "delete filter"} => U.root = T.root
    /\ c.do = "root" => U.root = "scoped"
    /\ c.do \in {"leaf", "delete leaf"} => U.filter = T.filter
    /\ c.do = "root" /\ T.root = "scoped" => U = T
    /\ c.do = "filter" /\ T.root = "scoped" =>
          \A b \in Bands : U.filter[b] = IF b = c.band THEN c.scope ELSE T.filter[b]
    /\ c.do = "filter" /\ T.root # "scoped" => U = T
    /\ c.do = "delete filter" =>
          \A b \in Bands : U.filter[b] = IF b = c.band THEN NoSelector ELSE T.filter[b]
    /\ c.do \in {"whole", "delete root"} \/ (c.do = "root" /\ T.root # "scoped") =>
          \A b \in Bands : U.filter[b] = NoSelector

LEMMA EffectFollows ==
    ASSUME NEW T, WellFormed(T), NEW c \in Orders
    PROVE  Follows(T, c, Effect(T, c))
    BY EffectOnFilters DEF Follows

LEMMA WholeIsCommand ==
    ASSUME NEW l \in Levels
    PROVE  /\ Whole(l) \in Orders /\ Whole(l).do = "whole" /\ Whole(l).level = l
           /\ Whole(l).scope = NoSelector
    BY BandFacts, ScopeFacts DEF Orders, Tc, Whole

LEMMA LeafIsCommand ==
    ASSUME NEW b \in Bands, NEW s \in Scopes, NEW l \in Levels
    PROVE  /\ Leaf(b, s, l) \in Orders /\ Leaf(b, s, l).do = "leaf"
           /\ Leaf(b, s, l).band = b /\ Leaf(b, s, l).scope = s /\ Leaf(b, s, l).level = l
    BY DEF Orders, Tc, Leaf

LEMMA FilterIsCommand ==
    ASSUME NEW b \in Bands, NEW s \in Scopes
    PROVE  /\ Filter(b, s) \in Orders /\ Filter(b, s).do = "filter"
           /\ Filter(b, s).band = b /\ Filter(b, s).scope = s
    BY ScopeFacts DEF Orders, Tc, Filter

LEMMA DeleteIsCommand ==
    ASSUME NEW b \in Bands
    PROVE  /\ DeleteFilter(b) \in Orders /\ DeleteFilter(b).do = "delete filter"
           /\ DeleteFilter(b).band = b
           /\ DeleteLeaf(b) \in Orders /\ DeleteLeaf(b).do = "delete leaf" /\ DeleteLeaf(b).band = b
    BY ScopeFacts DEF Orders, Tc, DeleteFilter, DeleteLeaf

LEMMA RootIsCommand ==
    /\ Root \in Orders /\ Root.do = "root"
    /\ DeleteRoot \in Orders /\ DeleteRoot.do = "delete root"
    BY BandFacts, ScopeFacts DEF Orders, Tc, Root, DeleteRoot

(* A selector has a band of its own, or there is a free one for it.        *)
LEMMA BandForFacts ==
    ASSUME NEW T, WellFormed(T), ReadAs(T) = T, Kind(T) \in {"clean", "scoped"}, NEW s \in Selectors
    PROVE  /\ BandFor(T, s) \in Bands
           /\ BandsOf(T, s) # {} => T.filter[BandFor(T, s)] = s /\ BandsOf(T, s) = {BandFor(T, s)}
           /\ BandsOf(T, s) = {} => T.filter[BandFor(T, s)] = NoSelector
<1> DEFINE free == Bands \ Leaves(T)
<1>1. s # NoSelector /\ T.filter \in [Bands -> Scopes]
    BY ScopeFacts DEF WellFormed, Trees
<1>2. CASE BandsOf(T, s) # {}
  <2>1. BandFor(T, s) \in BandsOf(T, s)
    BY <1>2 DEF BandFor
  <2> QED
    BY <1>1, <1>2, <2>1 DEF BandsOf, WellFormed
<1>3. CASE BandsOf(T, s) = {}
  <2>1. Leaves(T) = Filtered(T)
    BY KindFacts
  <2>2. free # {}
    <3> SUFFICES ASSUME free = {} PROVE FALSE
      OBVIOUS
    <3>1. \A b \in Bands : T.filter[b] \in Selectors \ {s}
      BY <1>1, <1>3, <2>1, ScopeFacts DEF Filtered, BandsOf
    <3>2. T.filter \in [Bands -> Selectors \ {s}]
      BY <1>1, <3>1
    <3>3. /\ IsFiniteSet(Selectors \ {s})
          /\ Cardinality(Selectors \ {s}) = Cardinality(Selectors) - 1
      BY LinkAssumption, FS_RemoveElement
    <3>4. Cardinality(Selectors \ {s}) < Cardinality(Bands)
      BY <3>3, BandFacts
    <3>5. \E b, c \in Bands : b # c /\ T.filter[b] = T.filter[c]
      <4>1. PICK f, V : f = T.filter /\ V = Selectors \ {s}
        OBVIOUS
      <4>2. /\ f \in [Bands -> V] /\ IsFiniteSet(V) /\ IsFiniteSet(Bands)
            /\ Cardinality(V) < Cardinality(Bands)
        BY <3>2, <3>3, <3>4, <4>1, BandFacts
      <4>3. \E b, c \in Bands : b # c /\ f[b] = f[c]
        BY <4>2, FS_PigeonHole
      <4> QED
        BY <4>1, <4>3
    <3> QED
      BY <1>1, <3>1, <3>5, ScopeFacts DEF WellFormed
  <2>3. \E b \in free : \A c \in free : b <= c
    <3>1. free \in SUBSET Nat
      BY BandFacts
    <3> QED
      BY <2>2, <3>1, TheLowest
  <2>4. BandFor(T, s) \in free
    BY <1>3, <2>3 DEF BandFor
  <2> QED
    BY <1>3, <2>1, <2>4 DEF Filtered
<1> QED
    BY <1>2, <1>3

----------------------------------------------------------------------------
(* The lists of commands. *)

LEMMA ShortLists ==
    ASSUME NEW S, NEW c \in S, NEW d \in S
    PROVE  /\ <<c>> \in Seq(S) /\ Len(<<c>>) = 1 /\ DOMAIN <<c>> = {1} /\ <<c>>[1] = c
           /\ <<c, d>> \in Seq(S) /\ Len(<<c, d>>) = 2 /\ DOMAIN <<c, d>> = {1, 2}
           /\ <<c, d>>[1] = c /\ <<c, d>>[2] = d
    OBVIOUS

LEMMA ClearSelectorFacts ==
    ASSUME NEW T, WellFormed(T), ReadAs(T) = T, Kind(T) \in {"clean", "scoped"}, NEW s \in Selectors
    PROVE  LET q == ClearSelector(T, s)
           IN  /\ q \in Seq(Orders)
               /\ \A i \in DOMAIN q :
                     /\ q[i].do \in {"delete root", "delete filter", "delete leaf"}
                     /\ q[i].do = "delete root" => BandsOf(T, s) # {} /\ Cardinality(Filtered(T)) = 1
                     /\ q[i].do = "delete filter" => BandsOf(T, s) # {} /\ q[i].band = BandFor(T, s)
<1> DEFINE q == ClearSelector(T, s)
           b == BandFor(T, s)
<1>1. b \in Bands
    BY BandForFacts
<1>2. CASE BandsOf(T, s) = {}
    BY <1>2 DEF ClearSelector
<1>3. CASE BandsOf(T, s) # {} /\ Cardinality(Filtered(T)) = 1
  <2>1. q = <<DeleteRoot>>
    BY <1>3 DEF ClearSelector
  <2>2. DeleteRoot \in Orders /\ DeleteRoot.do = "delete root"
    BY RootIsCommand
  <2> HIDE DEF q
  <2>3. q \in Seq(Orders) /\ DOMAIN q = {1} /\ q[1] = DeleteRoot
    BY <2>1, <2>2, ShortLists
  <2> QED
    BY <1>3, <2>2, <2>3 DEF q
<1>4. CASE BandsOf(T, s) # {} /\ Cardinality(Filtered(T)) # 1
  <2>1. q = <<DeleteFilter(b), DeleteLeaf(b)>>
    BY <1>4 DEF ClearSelector
  <2>2. /\ DeleteFilter(b) \in Orders /\ DeleteFilter(b).do = "delete filter" /\ DeleteFilter(b).band = b
        /\ DeleteLeaf(b) \in Orders /\ DeleteLeaf(b).do = "delete leaf"
    BY <1>1, DeleteIsCommand
  <2> HIDE DEF q, b
  <2>3. q \in Seq(Orders) /\ \A i \in DOMAIN q : q[i] \in {DeleteFilter(b), DeleteLeaf(b)}
    <3>1. PICK c, d : c = DeleteFilter(b) /\ d = DeleteLeaf(b)
      OBVIOUS
    <3>2. c \in Orders /\ d \in Orders /\ q = <<c, d>>
      BY <2>1, <2>2, <3>1
    <3>3. q \in Seq(Orders) /\ \A i \in DOMAIN q : q[i] \in {c, d}
      BY <3>2, ShortLists
    <3> QED
      BY <3>1, <3>3
  <2>4. \A i \in DOMAIN q : /\ q[i].do \in {"delete filter", "delete leaf"}
                            /\ q[i].do = "delete filter" => q[i].band = b
    BY <2>2, <2>3
  <2> QED
    BY <1>4, <2>3, <2>4 DEF q, b
<1> QED
    BY <1>2, <1>3, <1>4

LEMMA ApplySelectorFacts ==
    ASSUME NEW T, WellFormed(T), ReadAs(T) = T, Kind(T) \in {"clean", "scoped"}, NEW s \in Selectors,
           NEW l \in Levels, l # 0
    PROVE  LET q == ApplySelector(T, s, l)
           IN  /\ q \in Seq(Orders)
               /\ \A i \in DOMAIN q :
                     /\ q[i].do \in {"root", "leaf", "filter"}
                     /\ q[i].do = "filter" =>
                           BandsOf(T, s) = {} /\ q[i].band = BandFor(T, s) /\ q[i].scope = s
<1> DEFINE b == BandFor(T, s)
           q == ApplySelector(T, s, l)
           r == IF Kind(T) = "clean" THEN <<Root>> ELSE <<>>
           f == IF BandsOf(T, s) = {} THEN <<Filter(b, s)>> ELSE <<>>
<1>1. b \in Bands /\ s \in Scopes
    BY BandForFacts, ScopeFacts
<1>2. /\ Root \in Orders /\ Root.do = "root"
      /\ Leaf(b, s, l) \in Orders /\ Leaf(b, s, l).do = "leaf"
      /\ Filter(b, s) \in Orders /\ Filter(b, s).do = "filter"
      /\ Filter(b, s).band = b /\ Filter(b, s).scope = s
  <2>1. Leaf(b, s, l) \in Orders /\ Leaf(b, s, l).do = "leaf"
    BY <1>1, LeafIsCommand
  <2>2. /\ Filter(b, s) \in Orders /\ Filter(b, s).do = "filter"
        /\ Filter(b, s).band = b /\ Filter(b, s).scope = s
    BY <1>1, FilterIsCommand
  <2> QED
    BY <2>1, <2>2, RootIsCommand
<1>3. q = r \o <<Leaf(b, s, l)>> \o f
    BY DEF ApplySelector
<1>4. /\ r \in Seq(Orders) /\ f \in Seq(Orders)
      /\ r = <<>> \/ r = <<Root>>
      /\ f = <<>> \/ f = <<Filter(b, s)>>
      /\ BandsOf(T, s) # {} => f = <<>>
    BY <1>2
<1> HIDE DEF b, q, r, f
<1>5. /\ q \in Seq(Orders)
      /\ \A i \in DOMAIN q : q[i] \in {Root, Leaf(b, s, l)} \/ (f # <<>> /\ q[i] = Filter(b, s))
    BY <1>2, <1>3, <1>4
<1>6. \A i \in DOMAIN q :
         /\ q[i].do \in {"root", "leaf", "filter"}
         /\ q[i].do = "filter" => f # <<>> /\ q[i] = Filter(b, s)
    BY <1>2, <1>5
<1> QED
    BY <1>2, <1>4, <1>5, <1>6 DEF q, b

(* What a call commands for its selector leaves the others' alone.         *)
LEMMA OthersAreLeftAlone ==
    ASSUME NEW T, WellFormed(T), ReadAs(T) = T, Kind(T) \in {"clean", "scoped"}, NEW s \in Selectors,
           NEW l \in Levels, NEW t, t.band \in Bands, t.scope \in Selectors, t.scope # s,
           T.filter[t.band] = t.scope
    PROVE  /\ \A i \in DOMAIN ClearSelector(T, s) : Harmless(ClearSelector(T, s)[i], t)
           /\ \A i \in DOMAIN ApplySelector(T, s, l) : Harmless(ApplySelector(T, s, l)[i], t)
<1> DEFINE b == BandFor(T, s)
<1>1. /\ b \in Bands /\ b # t.band
      /\ BandsOf(T, s) # {} => T.filter[b] = s
    BY BandForFacts, ScopeFacts
<1>2. BandsOf(T, s) # {} => Cardinality(Filtered(T)) # 1
  <2> SUFFICES ASSUME BandsOf(T, s) # {}, Cardinality(Filtered(T)) = 1 PROVE FALSE
    OBVIOUS
  <2>1. b \in Filtered(T) /\ t.band \in Filtered(T) /\ Filtered(T) \in SUBSET Bands
    BY <1>1, ScopeFacts DEF Filtered
  <2>2. IsFiniteSet(Filtered(T))
    BY <2>1, BandFacts, FS_Subset
  <2>3. \E x : Filtered(T) = {x}
    BY <2>2, FS_Singleton
  <2> HIDE DEF b
  <2> QED
    BY <1>1, <2>1, <2>3
<1> HIDE DEF b
<1>3. \A i \in DOMAIN ClearSelector(T, s) : Harmless(ClearSelector(T, s)[i], t)
    BY <1>1, <1>2, ClearSelectorFacts DEF Harmless, b
<1>4. CASE l = 0
  <2>1. ApplySelector(T, s, l) = ClearSelector(T, s)
    BY <1>4 DEF ApplySelector
  <2> QED
    BY <1>3, <2>1
<1>5. CASE l # 0
  <2>1. \A i \in DOMAIN ApplySelector(T, s, l) : Harmless(ApplySelector(T, s, l)[i], t)
    <3>1. \A i \in DOMAIN ApplySelector(T, s, l) :
             /\ ApplySelector(T, s, l)[i].do \in {"root", "leaf", "filter"}
             /\ ApplySelector(T, s, l)[i].do = "filter" => ApplySelector(T, s, l)[i].band = b
      BY <1>5, ApplySelectorFacts DEF b
    <3> QED
      BY <1>1, <3>1 DEF Harmless
  <2> QED
    BY <1>3, <2>1
<1> QED
    BY <1>4, <1>5

(* What a restoration commands.                                            *)
LEMMA RestoreFacts ==
    ASSUME NEW E, Changeable(E)
    PROVE  LET R == Restore(E)
               bands == SetToSeq(Filtered(E))
           IN  /\ R \in Seq(Orders) /\ Len(R) > 0
               /\ Kind(E) = "whole" => R = <<Whole(E.level)>>
               /\ Kind(E) = "clean" => R = <<DeleteRoot>>
               /\ Kind(E) = "scoped" =>
                     /\ Len(R) = 2 + 2 * Len(bands) /\ R[1] = DeleteRoot /\ R[2] = Root
                     /\ \A j \in 3..Len(R) : \E i \in DOMAIN bands :
                           \/ j = 2 * i + 1 /\ R[j] = Leaf(bands[i], E.filter[bands[i]], E.leaf[bands[i]])
                           \/ j = 2 * i + 2 /\ R[j] = Filter(bands[i], E.filter[bands[i]])
<1> DEFINE bands == SetToSeq(Filtered(E))
           n == Len(bands)
           rebuilt == [i \in 1..2 * n |-> Rebuild(E, bands, i)]
           R == Restore(E)
<1>1. /\ WellFormed(E) /\ E.filter \in [Bands -> Scopes] /\ E.leaf \in [Bands -> Levels]
      /\ E.level \in Levels /\ Kind(E) \in {"clean", "whole", "scoped"}
    BY KindFacts DEF Changeable, WellFormed, Trees
<1>2. n \in Nat /\ bands \in [1..n -> Filtered(E)] /\ DOMAIN bands = 1..n
  <2>1. Filtered(E) \in SUBSET Bands
    BY DEF Filtered
  <2> QED
    BY <2>1, BandsInTurn
<1>3. CASE Kind(E) = "whole"
  <2>1. R = <<Whole(E.level)>>
    BY <1>3 DEF Restore
  <2>2. Whole(E.level) \in Orders
    BY <1>1, WholeIsCommand
  <2> HIDE DEF R
  <2>3. R \in Seq(Orders) /\ Len(R) = 1
    BY <2>1, <2>2, ShortLists
  <2> QED
    BY <1>3, <2>1, <2>3 DEF R
<1>4. CASE Kind(E) = "clean"
  <2>1. R = <<DeleteRoot>>
    BY <1>4 DEF Restore
  <2> HIDE DEF R
  <2>2. R \in Seq(Orders) /\ Len(R) = 1
    BY <2>1, RootIsCommand, ShortLists
  <2> QED
    BY <1>4, <2>1, <2>2 DEF R
<1>5. CASE Kind(E) = "scoped"
  <2>1. R = <<DeleteRoot, Root>> \o rebuilt
    BY <1>5 DEF Restore
  <2> HIDE DEF bands, n
  <2>2. \A i \in 1..2 * n : \E k \in 1..n :
          \/ i = 2 * k - 1 /\ i % 2 = 1 /\ (i + 1) \div 2 = k
          \/ i = 2 * k /\ i % 2 = 0 /\ (i + 1) \div 2 = k
    <3> SUFFICES ASSUME NEW i \in 1..2 * n
                 PROVE  \E k \in 1..n : \/ i = 2 * k - 1 /\ i % 2 = 1 /\ (i + 1) \div 2 = k
                                        \/ i = 2 * k /\ i % 2 = 0 /\ (i + 1) \div 2 = k
      OBVIOUS
    <3>1. (i + 1) \div 2 \in 1..n
      BY <1>2
    <3> QED
      BY <1>2, <3>1
  <2>3. \A i \in 1..2 * n : \E k \in 1..n :
          \/ i = 2 * k - 1 /\ rebuilt[i] = Leaf(bands[k], E.filter[bands[k]], E.leaf[bands[k]])
          \/ i = 2 * k /\ rebuilt[i] = Filter(bands[k], E.filter[bands[k]])
    BY <2>2 DEF Rebuild
  <2>4. \A k \in 1..n : bands[k] \in Bands
    BY <1>2 DEF Filtered
  <2>5. \A k \in 1..n : /\ Leaf(bands[k], E.filter[bands[k]], E.leaf[bands[k]]) \in Orders
                        /\ Filter(bands[k], E.filter[bands[k]]) \in Orders
    BY <1>1, <2>4, LeafIsCommand, FilterIsCommand
  <2>6. rebuilt \in Seq(Orders) /\ Len(rebuilt) = 2 * n
    <3>1. \A i \in 1..2 * n : rebuilt[i] \in Orders
      BY <2>3, <2>5
    <3> QED
      BY <1>2, <3>1
  <2> HIDE DEF rebuilt, R
  <2>7. /\ R \in Seq(Orders) /\ Len(R) = 2 + 2 * n /\ R[1] = DeleteRoot /\ R[2] = Root
        /\ \A j \in 3..Len(R) : j - 2 \in 1..2 * n /\ R[j] = rebuilt[j - 2]
    <3>1. DeleteRoot \in Orders /\ Root \in Orders
      BY RootIsCommand
    <3>2. PICK h : h = <<DeleteRoot, Root>>
      OBVIOUS
    <3>3. h \in Seq(Orders) /\ Len(h) = 2 /\ h[1] = DeleteRoot /\ h[2] = Root
      BY <3>1, <3>2, ShortLists
    <3>4. R = h \o rebuilt
      BY <2>1, <3>2
    <3>5. /\ R \in Seq(Orders) /\ Len(R) = 2 + 2 * n
          /\ \A j \in 1..Len(R) : R[j] = IF j <= 2 THEN h[j] ELSE rebuilt[j - 2]
      <4>1. PICK r : r = rebuilt
        OBVIOUS
      <4>2. r \in Seq(Orders) /\ Len(r) = 2 * n /\ R = h \o r
        BY <2>6, <3>4, <4>1
      <4>3. /\ h \o r \in Seq(Orders) /\ Len(h \o r) = Len(h) + Len(r)
            /\ \A j \in 1..Len(h) + Len(r) :
                  (h \o r)[j] = IF j <= Len(h) THEN h[j] ELSE r[j - Len(h)]
        BY <3>3, <4>2, ConcatProperties
      <4> QED
        BY <3>3, <4>1, <4>2, <4>3
    <3>6. 1 \in 1..Len(R) /\ 2 \in 1..Len(R)
      BY <1>2, <3>5
    <3>7. R[1] = DeleteRoot /\ R[2] = Root
      BY <3>3, <3>5, <3>6
    <3>8. ASSUME NEW j \in 3..Len(R) PROVE j - 2 \in 1..2 * n /\ R[j] = rebuilt[j - 2]
      <4>1. j \in 1..Len(R) /\ ~(j <= 2) /\ j - 2 \in 1..2 * n
        BY <1>2, <3>5
      <4> QED BY <3>5, <4>1
    <3> QED
      BY <3>5, <3>7, <3>8
  <2>8. \A j \in 3..Len(R) : \E k \in 1..n :
           \/ j = 2 * k + 1 /\ R[j] = Leaf(bands[k], E.filter[bands[k]], E.leaf[bands[k]])
           \/ j = 2 * k + 2 /\ R[j] = Filter(bands[k], E.filter[bands[k]])
    <3> SUFFICES ASSUME NEW j \in 3..Len(R)
                 PROVE  \E k \in 1..n :
                           \/ j = 2 * k + 1 /\ R[j] = Leaf(bands[k], E.filter[bands[k]], E.leaf[bands[k]])
                           \/ j = 2 * k + 2 /\ R[j] = Filter(bands[k], E.filter[bands[k]])
      OBVIOUS
    <3>1. j - 2 \in 1..2 * n /\ R[j] = rebuilt[j - 2]
      BY <2>7
    <3>2. PICK k \in 1..n :
             \/ j - 2 = 2 * k - 1 /\ rebuilt[j - 2] = Leaf(bands[k], E.filter[bands[k]], E.leaf[bands[k]])
             \/ j - 2 = 2 * k /\ rebuilt[j - 2] = Filter(bands[k], E.filter[bands[k]])
      BY <2>3, <3>1
    <3> QED
      BY <1>2, <2>7, <3>1, <3>2
  <2> QED
    BY <1>2, <1>5, <2>7, <2>8 DEF R, bands, n
<1> QED
    BY <1>1, <1>3, <1>4, <1>5
(* A restoration that is not disturbed puts back what it read, step by step. *)
LEMMA PutBackStep ==
    ASSUME NEW E, Changeable(E), NEW k \in Nat, k < Len(Restore(E)), NEW T,
           k > 0 => T = PutBack(E, k)
    PROVE  Effect(T, Restore(E)[k + 1]) = PutBack(E, k + 1)
<1> DEFINE bands == SetToSeq(Filtered(E))
           R == Restore(E)
<1>1. /\ WellFormed(E) /\ E.filter \in [Bands -> Scopes] /\ E.leaf \in [Bands -> Levels]
      /\ E.level \in Levels /\ Kind(E) \in {"clean", "whole", "scoped"}
    BY KindFacts DEF Changeable, WellFormed, Trees
<1>2. CASE Kind(E) = "whole"
  <2>1. E.root = "whole" /\ E = Bare("whole", E.level)
    BY <1>1, <1>2, KindFacts DEF WellFormed
  <2>2. R = <<Whole(E.level)>>
    BY <1>2, RestoreFacts
  <2>3. k = 0 /\ R[k + 1] = Whole(E.level)
    BY <2>2
  <2>4. Effect(T, Whole(E.level)) = Bare("whole", E.level)
    BY <1>1, WholeIsCommand DEF Effect
  <2>5. PutBack(E, k + 1) = E
    BY <1>2 DEF PutBack
  <2> HIDE DEF R
  <2> QED
    BY <2>1, <2>3, <2>4, <2>5 DEF R
<1>3. CASE Kind(E) = "clean"
  <2>1. R = <<DeleteRoot>>
    BY <1>3, RestoreFacts
  <2>2. k = 0 /\ R[k + 1] = DeleteRoot
    BY <2>1
  <2>3. Effect(T, DeleteRoot) = Clean
    BY RootIsCommand DEF Effect
  <2>4. PutBack(E, k + 1) = Clean
    BY <1>3 DEF PutBack
  <2> HIDE DEF R
  <2> QED
    BY <2>2, <2>3, <2>4 DEF R
<1>4. CASE Kind(E) = "scoped"
  <2>1. /\ Len(R) = 2 + 2 * Len(bands) /\ R[1] = DeleteRoot /\ R[2] = Root
        /\ \A j \in 3..Len(R) : \E i \in DOMAIN bands :
              \/ j = 2 * i + 1 /\ R[j] = Leaf(bands[i], E.filter[bands[i]], E.leaf[bands[i]])
              \/ j = 2 * i + 2 /\ R[j] = Filter(bands[i], E.filter[bands[i]])
    BY <1>4, RestoreFacts
  <2>2. /\ Len(bands) \in Nat /\ DOMAIN bands = 1..Len(bands)
        /\ \A i \in DOMAIN bands : bands[i] \in Bands
        /\ \A i, j \in DOMAIN bands : bands[i] = bands[j] => i = j
    <3>1. Filtered(E) \in SUBSET Bands
      BY DEF Filtered
    <3> QED
      BY <3>1, BandsInTurn
  <2>3. \A m \in Nat : PutBack(E, m) =
           IF m > 1
           THEN [root |-> "scoped", level |-> 0,
                 leaf |-> [b \in Bands |->
                    IF \E i \in DOMAIN bands : bands[i] = b /\ 2 * i + 1 <= m THEN E.leaf[b] ELSE 0],
                 filter |-> [b \in Bands |->
                    IF \E i \in DOMAIN bands : bands[i] = b /\ 2 * i + 2 <= m THEN E.filter[b]
                    ELSE NoSelector]]
           ELSE Clean
    BY <1>4 DEF PutBack
  <2> HIDE DEF R, bands
  <2>4. CASE k = 0
    <3>1. Effect(T, DeleteRoot) = Clean
      BY RootIsCommand DEF Effect
    <3> QED
      BY <2>1, <2>3, <2>4, <3>1 DEF R
  <2>5. CASE k = 1
    <3>1. T = Clean
      BY <2>3, <2>5
    <3>2. Effect(T, Root) = Bare("scoped", 0)
      BY <3>1, CleanFacts, RootIsCommand DEF Effect
    <3>3. PutBack(E, 2) = Bare("scoped", 0)
      <4>1. \A i \in DOMAIN bands : ~(2 * i + 1 <= 2) /\ ~(2 * i + 2 <= 2)
        BY <2>2
      <4> QED
        BY <2>3, <4>1 DEF Bare
    <3> QED
      BY <2>1, <2>5, <3>2, <3>3 DEF R
  <2>6. CASE k > 1
    <3> DEFINE U == PutBack(E, k + 1)
    <3>1. PICK i \in DOMAIN bands :
             \/ k + 1 = 2 * i + 1 /\ R[k + 1] = Leaf(bands[i], E.filter[bands[i]], E.leaf[bands[i]])
             \/ k + 1 = 2 * i + 2 /\ R[k + 1] = Filter(bands[i], E.filter[bands[i]])
      <4>1. k + 1 \in 3..Len(R)
        BY <2>1, <2>2, <2>6 DEF R
      <4> QED
        BY <2>1, <4>1
    <3> DEFINE leaves(m) == [b \in Bands |->
                    IF \E j \in DOMAIN bands : bands[j] = b /\ 2 * j + 1 <= m THEN E.leaf[b] ELSE 0]
               filters(m) == [b \in Bands |->
                    IF \E j \in DOMAIN bands : bands[j] = b /\ 2 * j + 2 <= m THEN E.filter[b]
                    ELSE NoSelector]
               lv == leaves(k)
               fl == filters(k)
               lw == leaves(k + 1)
               fw == filters(k + 1)
    <3>a. /\ T = [root |-> "scoped", level |-> 0, leaf |-> lv, filter |-> fl]
          /\ U = [root |-> "scoped", level |-> 0, leaf |-> lw, filter |-> fw]
      <4>1. k > 1 /\ k + 1 > 1 /\ k + 1 \in Nat
        BY <2>6
      <4>2. T = PutBack(E, k)
        BY <4>1
      <4> QED
        BY <2>3, <4>1, <4>2
    <3>b. /\ lv = leaves(k) /\ fl = filters(k) /\ lw = leaves(k + 1) /\ fw = filters(k + 1)
      OBVIOUS
    <3> HIDE DEF lv, fl, lw, fw
    <3>2. /\ T = [root |-> "scoped", level |-> 0, leaf |-> lv, filter |-> fl]
          /\ U = [root |-> "scoped", level |-> 0, leaf |-> lw, filter |-> fw]
          /\ lv = leaves(k) /\ fl = filters(k) /\ lw = leaves(k + 1) /\ fw = filters(k + 1)
      BY <3>a, <3>b
    <3> HIDE DEF U
    <3>3. bands[i] \in Bands
      BY <2>2
    <3>4. CASE k + 1 = 2 * i + 1 /\ R[k + 1] = Leaf(bands[i], E.filter[bands[i]], E.leaf[bands[i]])
      <4>1. PICK c : c = R[k + 1]
        OBVIOUS
      <4>2. c.do = "leaf" /\ c.band = bands[i] /\ c.level = E.leaf[bands[i]]
        <5>1. E.filter[bands[i]] \in Scopes /\ E.leaf[bands[i]] \in Levels
          BY <1>1, <3>3
        <5> QED
          BY <3>3, <3>4, <4>1, <5>1, LeafIsCommand
      <4>3. Effect(T, c) = [T EXCEPT !.leaf[bands[i]] = E.leaf[bands[i]]]
        BY <3>2, <4>2 DEF Effect
      <4>4. fw = fl
        <5>1. \A j \in DOMAIN bands : 2 * j + 2 <= k + 1 <=> 2 * j + 2 <= k
          BY <2>2, <3>4
        <5> QED
          BY <3>2, <5>1
      <4>5. lw = [lv EXCEPT ![bands[i]] = E.leaf[bands[i]]]
        <5>1. \A j \in DOMAIN bands : 2 * j + 1 <= k + 1 <=> (2 * j + 1 <= k \/ j = i)
          BY <2>2, <3>4
        <5>2. \A b \in Bands : lw[b] = IF b = bands[i] THEN E.leaf[b] ELSE lv[b]
          BY <2>2, <3>2, <5>1
        <5> QED
          BY <3>2, <3>3, <5>2
      <4>6. Effect(T, c) = U
        BY <3>2, <4>3, <4>4, <4>5
      <4> QED
        BY <4>1, <4>6 DEF U, R
    <3>5. CASE k + 1 = 2 * i + 2 /\ R[k + 1] = Filter(bands[i], E.filter[bands[i]])
      <4>1. PICK c : c = R[k + 1]
        OBVIOUS
      <4>2. c.do = "filter" /\ c.band = bands[i] /\ c.scope = E.filter[bands[i]]
        <5>1. E.filter[bands[i]] \in Scopes
          BY <1>1, <3>3
        <5> QED
          BY <3>3, <3>5, <4>1, <5>1, FilterIsCommand
      <4>3. Effect(T, c) = [T EXCEPT !.filter[bands[i]] = E.filter[bands[i]]]
        BY <3>2, <4>2 DEF Effect
      <4>4. lw = lv
        <5>1. \A j \in DOMAIN bands : 2 * j + 1 <= k + 1 <=> 2 * j + 1 <= k
          BY <2>2, <3>5
        <5> QED
          BY <3>2, <5>1
      <4>5. fw = [fl EXCEPT ![bands[i]] = E.filter[bands[i]]]
        <5>1. \A j \in DOMAIN bands : 2 * j + 2 <= k + 1 <=> (2 * j + 2 <= k \/ j = i)
          BY <2>2, <3>5
        <5>2. \A b \in Bands : fw[b] = IF b = bands[i] THEN E.filter[b] ELSE fl[b]
          BY <2>2, <3>2, <5>1
        <5> QED
          BY <3>2, <3>3, <5>2
      <4>6. Effect(T, c) = U
        BY <3>2, <4>3, <4>4, <4>5
      <4> QED
        BY <4>1, <4>6 DEF U, R
    <3> QED
      BY <3>1, <3>4, <3>5
  <2> QED
    BY <2>4, <2>5, <2>6
<1> QED
    BY <1>1, <1>2, <1>3, <1>4

LEMMA PutBackWhole ==
    ASSUME NEW E, Changeable(E)
    PROVE  PutBack(E, Len(Restore(E))) = E
<1> DEFINE bands == SetToSeq(Filtered(E))
           m == Len(Restore(E))
<1>1. WellFormed(E) /\ E \in Trees /\ ReadAs(E) = E /\ Kind(E) \in {"clean", "whole", "scoped"}
    BY KindFacts DEF Changeable, WellFormed
<1>2. CASE Kind(E) = "whole"
    BY <1>2 DEF PutBack
<1>3. CASE Kind(E) = "clean"
  <2>1. E = Clean
    BY <1>1, <1>3, KindFacts
  <2>2. PutBack(E, m) = Clean
    BY <1>3 DEF PutBack
  <2> QED
    BY <2>1, <2>2
<1>4. CASE Kind(E) = "scoped"
  <2>1. m = 2 + 2 * Len(bands)
    BY <1>4, RestoreFacts
  <2>2. /\ Len(bands) \in Nat /\ DOMAIN bands = 1..Len(bands)
        /\ \A i \in DOMAIN bands : bands[i] \in Filtered(E)
        /\ \A b \in Filtered(E) : \E i \in DOMAIN bands : bands[i] = b
    <3>1. Filtered(E) \in SUBSET Bands
      BY DEF Filtered
    <3> QED
      BY <3>1, BandsInTurn
  <2>3. PutBack(E, m) =
            [root |-> "scoped", level |-> 0,
             leaf |-> [b \in Bands |->
                IF \E i \in DOMAIN bands : bands[i] = b /\ 2 * i + 1 <= m THEN E.leaf[b] ELSE 0],
             filter |-> [b \in Bands |->
                IF \E i \in DOMAIN bands : bands[i] = b /\ 2 * i + 2 <= m THEN E.filter[b]
                ELSE NoSelector]]
    <3>1. m > 1
      BY <2>1, <2>2
    <3> QED
      BY <1>4, <3>1 DEF PutBack
  <2> HIDE DEF m, bands
  <2>4. \A i \in DOMAIN bands : 2 * i + 1 <= m /\ 2 * i + 2 <= m
    BY <2>1, <2>2
  <2>5. E.root = "scoped" /\ E.level = 0 /\ Leaves(E) = Filtered(E)
    BY <1>1, <1>4, KindFacts DEF WellFormed
  <2>6. \A b \in Bands : (\E i \in DOMAIN bands : bands[i] = b) <=> b \in Filtered(E)
    BY <2>2
  <2>7. \A b \in Bands : /\ b \notin Filtered(E) => E.filter[b] = NoSelector /\ E.leaf[b] = 0
    BY <2>5 DEF Filtered, Leaves
  <2>8. E.leaf = [b \in Bands |->
                IF \E i \in DOMAIN bands : bands[i] = b /\ 2 * i + 1 <= m THEN E.leaf[b] ELSE 0]
    BY <1>1, <2>4, <2>6, <2>7 DEF Trees
  <2>9. E.filter = [b \in Bands |->
                IF \E i \in DOMAIN bands : bands[i] = b /\ 2 * i + 2 <= m THEN E.filter[b]
                ELSE NoSelector]
    BY <1>1, <2>4, <2>6, <2>7 DEF Trees
  <2>10. E = [root |-> E.root, level |-> E.level, leaf |-> E.leaf, filter |-> E.filter]
    BY <1>1 DEF Trees
  <2> QED
    BY <2>3, <2>5, <2>8, <2>9, <2>10 DEF m
<1> QED
    BY <1>1, <1>2, <1>3, <1>4
----------------------------------------------------------------------------
(* What the invariant says at a glance. *)

LEMMA OpFacts ==
    ASSUME op \in Ops
    PROVE  /\ op.kind \in {"impair", "repair"} /\ op.scope \in Scopes /\ op.level \in Levels
           /\ op.expire \in BOOLEAN
           /\ op.first \in Devices /\ op.last \in Devices /\ op.first <= op.last
           /\ op.kind = "repair" => op.level = 0 /\ ~op.expire
<1>1. CASE op \in [kind : {"impair"}, scope : Scopes, level : Levels, expire : BOOLEAN,
                   first : Devices, last : Devices] /\ op.first <= op.last
    BY <1>1
<1>2. CASE op \in [kind : {"repair"}, scope : Scopes, level : {0}, expire : {FALSE},
                   first : {1}, last : {Placements}]
  <2>1. 1 <= Placements
    BY LinkAssumption
  <2> QED
    BY <1>2, <2>1, ScopeFacts
<1> QED
    BY <1>1, <1>2 DEF Ops

LEMMA LastFacts ==
    ASSUME NEW S, NEW q \in Seq(S), q # <<>>
    PROVE  /\ Len(q) \in Nat /\ Len(q) > 0 /\ Len(q) \in DOMAIN q
           /\ Last(q) = q[Len(q)] /\ Last(q) \in S
           /\ Front(q) \in Seq(S) /\ Len(Front(q)) = Len(q) - 1
           /\ \A i \in DOMAIN Front(q) : i \in DOMAIN q /\ Front(q)[i] = q[i]
           /\ \A i \in DOMAIN q : i = Len(q) \/ i \in DOMAIN Front(q)
           /\ Front(q) = <<>> <=> Len(q) = 1
<1>1. Len(q) \in Nat /\ Len(q) > 0 /\ DOMAIN q = 1..Len(q)
    BY EmptySeq, LenProperties
<1>2. /\ Front(q) \in Seq(S) /\ Len(Front(q)) = Len(q) - 1
      /\ \A i \in 1..Len(q) - 1 : Front(q)[i] = q[i]
  <2>1. Front(q) = SubSeq(q, 1, Len(q) - 1)
    BY DEF Front
  <2>2. /\ 1 \in 1..Len(q) + 1 /\ Len(q) - 1 \in 1 - 1..Len(q)
    BY <1>1
  <2> QED
    BY <1>1, <2>1, <2>2
<1>3. DOMAIN Front(q) = 1..Len(q) - 1
    BY <1>1, <1>2, LenProperties
<1>4. Front(q) = <<>> <=> Len(q) = 1
    BY <1>1, <1>2, EmptySeq
<1> QED
    BY <1>1, <1>2, <1>3, <1>4 DEF Last

LEMMA TailFacts ==
    ASSUME NEW S, NEW q \in Seq(S), q # <<>>
    PROVE  /\ Len(q) \in Nat /\ Len(q) > 0 /\ 1 \in DOMAIN q /\ Head(q) = q[1] /\ Head(q) \in S
           /\ Tail(q) \in Seq(S) /\ Len(Tail(q)) = Len(q) - 1
           /\ \A i \in DOMAIN Tail(q) : i \in Nat /\ i + 1 \in DOMAIN q /\ Tail(q)[i] = q[i + 1]
<1>1. Len(q) \in Nat /\ Len(q) > 0 /\ DOMAIN q = 1..Len(q)
    BY EmptySeq, LenProperties
<1>2. /\ Tail(q) \in Seq(S) /\ Len(Tail(q)) = Len(q) - 1
      /\ \A i \in 1..Len(q) - 1 : Tail(q)[i] = q[i + 1]
    BY <1>1, HeadTailProperties
<1>3. DOMAIN Tail(q) = 1..Len(q) - 1
    BY <1>1, <1>2, LenProperties
<1> QED
    BY <1>1, <1>2, <1>3

LEMMA EntryFacts ==
    ASSUME LinkInv
    PROVE  /\ entries \in Seq([place : Devices, tree : Trees])
           /\ Len(entries) \in Nat /\ DOMAIN entries = 1..Len(entries)
           /\ \A i \in DOMAIN entries : /\ entries[i].place \in Devices /\ entries[i].tree \in Trees
                                        /\ Changeable(entries[i].tree)
           /\ entries # <<>> =>
                 /\ Len(entries) > 0 /\ Len(entries) \in DOMAIN entries
                 /\ Last(entries) = entries[Len(entries)]
                 /\ Last(entries).place \in Devices /\ Last(entries).place \in Touched
                 /\ Changeable(Last(entries).tree)
<1>1. entries \in Seq([place : Devices, tree : Trees])
    BY DEF LinkInv, TreesAreWellFormed
<1>2. Len(entries) \in Nat /\ DOMAIN entries = 1..Len(entries)
    BY <1>1, LenProperties
<1>3. \A i \in DOMAIN entries : entries[i] \in [place : Devices, tree : Trees]
    BY <1>1, <1>2, ElementOfSeq
<1>4. \A i \in DOMAIN entries : /\ entries[i].place \in Devices /\ entries[i].tree \in Trees
                                /\ Changeable(entries[i].tree)
    BY <1>3 DEF LinkInv, EntriesAreChangeable
<1>5. entries # <<>> =>
         /\ Len(entries) > 0 /\ Len(entries) \in DOMAIN entries /\ Last(entries) = entries[Len(entries)]
    BY <1>1, LastFacts
<1>6. entries # <<>> => Last(entries).place \in Touched
    BY <1>5 DEF Touched
<1> QED
    BY <1>1, <1>2, <1>4, <1>5, <1>6

(* A call at work on a placement has it registered.                        *)
LEMMA PlaceIsTouched ==
    ASSUME LinkInv, op.kind = "impair", phase \in {"changing", "arming", "restoring"}
    PROVE  place \in Touched /\ entries # <<>> /\ Last(entries).place = place
<1>1. place \in Nat /\ op.first \in Nat
    BY OpFacts, ScopeFacts DEF LinkInv, LinkTypeOK
<1>2. CASE phase = "restoring"
    BY <1>2, EntryFacts DEF LinkInv, CallShape, Back
<1>3. CASE phase \in {"changing", "arming"}
  <2>1. /\ Len(entries) = place - op.first + 1 /\ op.first <= place
        /\ \A i \in DOMAIN entries : entries[i].place = op.first + i - 1
    BY <1>3 DEF LinkInv, CallShape, Forward
  <2>2. Len(entries) \in Nat /\ Len(entries) > 0 /\ DOMAIN entries = 1..Len(entries)
    BY <1>1, <2>1, EntryFacts
  <2>3. entries # <<>>
    <3>1. <<>> \in Seq([place : Devices, tree : Trees]) /\ Len(<<>>) = 0
      OBVIOUS
    <3> QED
      BY <2>2, <3>1
  <2>4. entries[Len(entries)].place = place
    BY <1>1, <2>1, <2>2
  <2> QED
    BY <2>3, <2>4, EntryFacts
<1> QED
    BY <1>2, <1>3

(* What restoring knows of the placement it is at.                         *)
LEMMA RestoringFacts ==
    ASSUME LinkInv, phase = "restoring"
    PROVE  /\ op.kind = "impair" /\ entries # <<>> /\ place = Last(entries).place
           /\ Changeable(Last(entries).tree)
           /\ \A t \in timers : Waits(t) /\ t.place = place =>
                 /\ t.scope # op.scope /\ t.scope # NoSelector /\ t.scope \in Selectors
                 /\ Last(entries).tree.filter[t.band] = t.scope
<1>1. op.kind = "impair" /\ entries # <<>> /\ place = Last(entries).place
    BY DEF LinkInv, CallShape, Back
<1>2. Changeable(Last(entries).tree)
    BY <1>1, EntryFacts
<1>3. ASSUME NEW t \in timers, Waits(t), t.place = place
      PROVE  /\ t.scope # op.scope /\ t.scope # NoSelector /\ t.scope \in Selectors
             /\ Last(entries).tree.filter[t.band] = t.scope
  <2>1. t.scope # op.scope
    BY <1>3 DEF LinkInv, OwnAreGone, Own, Waits
  <2>2. Len(entries) \in DOMAIN entries /\ Last(entries) = entries[Len(entries)]
    BY <1>1, EntryFacts
  <2>3. t.scope # NoSelector /\ Last(entries).tree.filter[t.band] = t.scope
    BY <1>1, <1>3, <2>1, <2>2 DEF LinkInv, EntriesKnowWaiters
  <2>4. t.scope \in Selectors
    BY <2>3, ScopeFacts DEF LinkInv, LinkTypeOK, Timers
  <2> QED
    BY <2>1, <2>3, <2>4
<1> QED
    BY <1>1, <1>2, <1>3
(* A command that adds a filter adds it where its selector belongs.        *)
LEMMA HeadIsFine ==
    ASSUME LinkInv, phase \in {"changing", "restoring"}, commands # <<>>
    PROVE  /\ Head(commands) \in Orders /\ WellFormed(tree[place])
           /\ WellFormed(Effect(tree[place], Head(commands)))
<1> DEFINE c == Head(commands)
           T == tree[place]
<1>1. c \in Orders /\ c = commands[1] /\ 1 \in DOMAIN commands
    BY TailFacts DEF LinkInv, TreesAreWellFormed
<1>2. place \in Devices /\ WellFormed(T)
    BY DEF LinkInv, LinkTypeOK, TreesAreWellFormed
<1>3. c.do = "filter" /\ c.scope # NoSelector => \A b \in Bands : T.filter[b] = c.scope => b = c.band
  <2> SUFFICES ASSUME c.do = "filter", c.scope # NoSelector
               PROVE  \A b \in Bands : T.filter[b] = c.scope => b = c.band
    OBVIOUS
  <2>1. CASE phase = "changing"
    <3>1. op.kind = "impair" /\ op.scope # NoSelector /\ op.level # 0
      BY <1>1, <2>1 DEF LinkInv, OnlyTheyFilter
    <3> QED
      BY <1>1, <2>1, <3>1 DEF LinkInv, SelectorHasItsBand
  <2>2. CASE phase = "restoring"
    <3> DEFINE E == Last(entries).tree
               bands == SetToSeq(Filtered(E))
    <3>1. PICK k \in 0..Len(Restore(E)) : RestoredTo(k)
      BY <2>2 DEF LinkInv, RestoresInTurn
    <3>2. Changeable(E)
      BY <2>2, RestoringFacts
    <3>3. /\ WellFormed(E) /\ E.filter \in [Bands -> Scopes] /\ E.leaf \in [Bands -> Levels]
          /\ E.level \in Levels /\ Kind(E) \in {"clean", "whole", "scoped"}
      BY <3>2, KindFacts DEF Changeable, WellFormed, Trees
    <3>4. /\ c = Restore(E)[k + 1] /\ Len(commands) = Len(Restore(E)) - k
          /\ k > 0 => \A b \in Bands : T.filter[b] \in {NoSelector, E.filter[b]}
      BY <1>1, <3>1 DEF RestoredTo
    <3>5. Len(commands) \in Nat /\ Len(commands) > 0 /\ Len(Restore(E)) \in Nat /\ Len(Restore(E)) > 0
      BY <3>2, TailFacts, RestoreFacts DEF LinkInv, TreesAreWellFormed
    <3>6. Kind(E) = "scoped" /\ k > 1
      <4> HIDE DEF E, c
      <4>1. Whole(E.level).do # "filter" /\ DeleteRoot.do # "filter" /\ Root.do # "filter"
        BY <3>3, WholeIsCommand, RootIsCommand
      <4>2. CASE Kind(E) = "whole"
        <5>1. Restore(E) = <<Whole(E.level)>>
          BY <3>2, <4>2, RestoreFacts
        <5>2. Len(Restore(E)) = 1 /\ Restore(E)[1] = Whole(E.level)
          BY <5>1
        <5> QED
          BY <3>4, <3>5, <4>1, <5>2
      <4>3. CASE Kind(E) = "clean"
        <5>1. Restore(E) = <<DeleteRoot>>
          BY <3>2, <4>3, RestoreFacts
        <5>2. Len(Restore(E)) = 1 /\ Restore(E)[1] = DeleteRoot
          BY <5>1
        <5> QED
          BY <3>4, <3>5, <4>1, <5>2
      <4>4. CASE Kind(E) = "scoped"
        <5>1. Restore(E)[1] = DeleteRoot /\ Restore(E)[2] = Root
          BY <3>2, <4>4, RestoreFacts
        <5>2. k # 0 /\ k # 1
          BY <3>4, <4>1, <5>1
        <5> QED
          BY <4>4, <5>2
      <4> QED
        BY <3>3, <4>2, <4>3, <4>4
    <3>7. PICK i \in DOMAIN bands :
             \/ k + 1 = 2 * i + 1 /\ c = Leaf(bands[i], E.filter[bands[i]], E.leaf[bands[i]])
             \/ k + 1 = 2 * i + 2 /\ c = Filter(bands[i], E.filter[bands[i]])
      <4>1. k + 1 \in 3..Len(Restore(E))
        BY <3>4, <3>5, <3>6
      <4> HIDE DEF E, c
      <4> QED
        BY <3>2, <3>4, <3>6, <4>1, RestoreFacts
    <3>8. bands[i] \in Bands
      <4>1. Filtered(E) \in SUBSET Bands
        BY DEF Filtered
      <4> HIDE DEF E
      <4> QED
        BY <4>1, BandsInTurn
    <3> HIDE DEF E, bands, c, T
    <3>9. c.band = bands[i] /\ c.scope = E.filter[bands[i]]
      <4>1. E.filter[bands[i]] \in Scopes /\ E.leaf[bands[i]] \in Levels
        BY <3>3, <3>8
      <4>2. Leaf(bands[i], E.filter[bands[i]], E.leaf[bands[i]]).do = "leaf"
        BY <3>8, <4>1, LeafIsCommand
      <4>3. c = Filter(bands[i], E.filter[bands[i]])
        BY <3>7, <4>2
      <4> QED
        BY <3>8, <4>1, <4>3, FilterIsCommand
    <3>10. \A b \in Bands : T.filter[b] = c.scope => E.filter[b] = E.filter[bands[i]]
      BY <3>4, <3>6, <3>9
    <3> QED
      BY <3>3, <3>8, <3>9, <3>10 DEF WellFormed
  <2> QED
    BY <2>1, <2>2
<1> HIDE DEF c, T
<1>4. WellFormed(Effect(T, c))
    BY <1>1, <1>2, <1>3, EffectIsWellFormed
<1> QED
    BY <1>1, <1>2, <1>4 DEF c, T

----------------------------------------------------------------------------
(* What holds again after a step, however it came about. *)

LEMMA OnlyAtWork ==
    ASSUME phase' \in {"idle", "cancelling", "unwinding"}
    PROVE  /\ OwnAreGone' /\ ChangesAreHarmless' /\ SelectorHasItsBand' /\ OnlyTheyFilter'
           /\ ArmedIsThere' /\ RestoresInTurn'
    BY DEF OwnAreGone, ChangesAreHarmless, SelectorHasItsBand, OnlyTheyFilter, ArmedIsThere,
           RestoresInTurn, Busy

LEMMA FewerTimers ==
    ASSUME LinkInv, timers' \subseteq timers, unscanned \subseteq unscanned',
           botched \subseteq botched', wiped \subseteq wiped'
    PROVE  /\ OneTimerEach' /\ IdleAreWhole'
           /\ \A t \in timers' : t \in timers /\ (Waits(t)' => Waits(t))
    BY DEF LinkInv, OneTimerEach, IdleAreWhole, Waits

LEMMA WaitersStillFindTheirs ==
    ASSUME LinkInv, timers' \subseteq timers, tree' = tree, unscanned \subseteq unscanned',
           botched \subseteq botched', wiped \subseteq wiped',
           phase = "restoring" => place \in botched' \/ (phase' = "restoring" /\ place' = place)
    PROVE  WaitersFindTheirs'
<1> SUFFICES ASSUME NEW t \in timers', Waits(t)'
             PROVE  /\ ~t.stale
                    /\ IF t.scope = NoSelector THEN tree[t.place].root = "whole"
                       ELSE \/ tree[t.place].filter[t.band] = t.scope
                            \/ phase' = "restoring" /\ place' = t.place
    BY DEF WaitersFindTheirs
<1>1. t \in timers /\ Waits(t) /\ t.place \notin botched'
    BY FewerTimers DEF Waits
<1> QED
    BY <1>1 DEF LinkInv, WaitersFindTheirs

(* Entries that are fewer, of a call that has fewer timers to meet.        *)
LEMMA EntriesStillKnow ==
    ASSUME LinkInv, timers' \subseteq timers, unscanned \subseteq unscanned',
           botched \subseteq botched', wiped \subseteq wiped', op' = op,
           \A i \in DOMAIN entries' : i \in DOMAIN entries /\ entries'[i] = entries[i]
    PROVE  EntriesKnowWaiters' /\ EntriesAreChangeable'
<1>1. EntriesKnowWaiters'
  <2> SUFFICES ASSUME NEW i \in DOMAIN entries', NEW t \in timers', Waits(t)',
                      t.place = entries'[i].place, t.scope # op'.scope
               PROVE  t.scope # NoSelector /\ entries'[i].tree.filter[t.band] = t.scope
    BY DEF EntriesKnowWaiters
  <2>1. t \in timers /\ Waits(t)
    BY FewerTimers
  <2> QED
    BY <2>1 DEF LinkInv, EntriesKnowWaiters
<1>2. EntriesAreChangeable'
    BY DEF LinkInv, EntriesAreChangeable, Changeable
<1> QED
    BY <1>1, <1>2

LEMMA NoEntries ==
    ASSUME entries' = <<>>
    PROVE  EntriesKnowWaiters' /\ EntriesAreChangeable'
    BY DEF EntriesKnowWaiters, EntriesAreChangeable
----------------------------------------------------------------------------
(* A command of the call, and the timer it launches. *)

(* A command meets timers that are not its call's, so it stales none that  *)
(* still counts.                                                           *)
LEMMA RunsFacts ==
    ASSUME LinkInv, phase \in {"changing", "restoring"}, commands # <<>>, Runs(Head(commands)),
           unscanned' = unscanned, botched' = botched, wiped' = wiped
    PROVE  /\ timers' \in SUBSET Timers
           /\ \A u \in timers' : \E t \in timers : /\ u.place = t.place /\ u.scope = t.scope
                                                   /\ u.idle = t.idle
           /\ OneTimerEach' /\ IdleAreWhole'
           /\ \A u \in timers' : Waits(u)' => u \in timers /\ Waits(u)
           /\ \A p \in Nat : p # place =>
                 {u \in timers' : u.place = p} = {t \in timers : t.place = p}
<1> DEFINE c == Head(commands)
           sets(t) == /\ c.do \in {"whole", "leaf"} /\ c.scope = op.scope
                      /\ t.place = place /\ t.scope = op.scope
           as(t) == IF sets(t) THEN [t EXCEPT !.stale = TRUE] ELSE t
<1>1. timers' = {as(t) : t \in timers} /\ timers \in SUBSET Timers
    BY DEF Runs, LinkInv, LinkTypeOK
<1>2. ASSUME NEW t \in timers
      PROVE  /\ as(t) \in Timers /\ as(t).place = t.place /\ as(t).scope = t.scope
             /\ as(t).idle = t.idle /\ as(t).at = t.at
             /\ as(t) # t => t.place = place /\ t.scope = op.scope
  <2>1. t \in Timers
    BY <1>1
  <2>2. CASE sets(t)
    <3>1. as(t) = [t EXCEPT !.stale = TRUE]
      BY <2>2
    <3>2. PICK u : u = [t EXCEPT !.stale = TRUE]
      OBVIOUS
    <3>3. /\ u \in Timers /\ u.place = t.place /\ u.scope = t.scope /\ u.idle = t.idle /\ u.at = t.at
      BY <2>1, <3>2 DEF Timers
    <3>4. t.place = place /\ t.scope = op.scope
      BY <2>2
    <3> HIDE DEF as
    <3> QED
      BY <3>1, <3>2, <3>3, <3>4
  <2>3. CASE ~sets(t)
    BY <2>1, <2>3
  <2> QED
    BY <2>2, <2>3
<1> HIDE DEF as
<1>3. \A u \in timers' : \E t \in timers : u = as(t)
    BY <1>1
<1>4. timers' \in SUBSET Timers
    BY <1>2, <1>3
<1>5. \A u \in timers' : \E t \in timers : u.place = t.place /\ u.scope = t.scope /\ u.idle = t.idle
    BY <1>2, <1>3
<1>6. OneTimerEach'
  <2> SUFFICES ASSUME NEW u \in timers', NEW v \in timers', u.place \notin unscanned',
                      u.place = v.place, u.scope = v.scope
               PROVE  u = v
    BY DEF OneTimerEach
  <2>1. PICK t \in timers : u = as(t)
    BY <1>3
  <2>2. PICK w \in timers : v = as(w)
    BY <1>3
  <2>a. t.place = u.place /\ t.scope = u.scope
    BY <1>2, <2>1
  <2>b. w.place = v.place /\ w.scope = v.scope
    BY <1>2, <2>2
  <2>3. t = w
    BY <2>a, <2>b DEF LinkInv, OneTimerEach
  <2> QED
    BY <2>1, <2>2, <2>3
<1>7. IdleAreWhole'
    BY <1>5 DEF LinkInv, IdleAreWhole
<1>8. ASSUME NEW u \in timers', Waits(u)' PROVE u \in timers /\ Waits(u)
  <2>1. PICK t \in timers : u = as(t)
    BY <1>3
  <2>2. u.at = t.at /\ u.idle = t.idle /\ u.place = t.place
    BY <1>2, <2>1
  <2>3. Waits(t)
    BY <1>8, <2>2 DEF Waits
  <2>4. ~(t.place = place /\ t.scope = op.scope)
    BY <2>3 DEF LinkInv, OwnAreGone, Own, Busy, Waits
  <2>5. u = t
    BY <1>2, <2>1, <2>4
  <2> QED
    BY <2>3, <2>5
<1>9. ASSUME NEW p \in Nat, p # place
      PROVE  {u \in timers' : u.place = p} = {t \in timers : t.place = p}
  <2>1. ASSUME NEW t \in timers, t.place = p PROVE t \in timers'
    <3>1. as(t) = t
      BY <1>2, <1>9, <2>1
    <3> QED
      BY <1>1, <3>1
  <2>2. ASSUME NEW u \in timers', u.place = p PROVE u \in timers
    <3>1. PICK t \in timers : u = as(t)
      BY <1>3
    <3>2. as(t) = t
      BY <1>2, <1>9, <2>2, <3>1
    <3> QED
      BY <3>1, <3>2
  <2> QED
    BY <2>1, <2>2
<1> QED
    BY <1>4, <1>5, <1>6, <1>7, <1>8, <1>9

(* A command leaves what timers wait for.                                  *)
LEMMA RunsSparesWaiters ==
    ASSUME LinkInv, phase \in {"changing", "restoring"}, commands # <<>>, Runs(Head(commands)),
           unscanned' = unscanned, botched' = botched, wiped' = wiped,
           phase = "restoring" => phase' = "restoring" /\ place' = place
    PROVE  /\ \A p \in Devices : WellFormed(tree[p])'
           /\ tree' \in [Devices -> Trees]
           /\ \A p \in Devices : p # place => tree'[p] = tree[p]
           /\ tree'[place] = Effect(tree[place], Head(commands))
           /\ WaitersFindTheirs'
<1> DEFINE c == Head(commands)
           T == tree[place]
           U == Effect(T, c)
<1>1. tree' = [tree EXCEPT ![place] = U] /\ tree \in [Devices -> Trees] /\ place \in Devices
    BY DEF Runs, LinkInv, LinkTypeOK
<1>2. WellFormed(U) /\ WellFormed(T) /\ c \in Orders
    BY HeadIsFine
<1> HIDE DEF U
<1>3. U \in Trees
    BY <1>2 DEF WellFormed
<1>4. tree' \in [Devices -> Trees] /\ tree'[place] = U /\ \A p \in Devices : p # place => tree'[p] = tree[p]
    BY <1>1, <1>3
<1>5. ASSUME NEW p \in Devices PROVE WellFormed(tree'[p])
    BY <1>2, <1>4 DEF LinkInv, TreesAreWellFormed
<1>6. WaitersFindTheirs'
  <2> SUFFICES ASSUME NEW t \in timers', Waits(t)'
               PROVE  /\ ~t.stale
                      /\ IF t.scope = NoSelector THEN tree'[t.place].root = "whole"
                         ELSE \/ tree'[t.place].filter[t.band] = t.scope
                              \/ phase' = "restoring" /\ place' = t.place
    BY DEF WaitersFindTheirs
  <2>1. t \in timers /\ Waits(t) /\ t \in Timers
    BY RunsFacts
  <2>2. t.place \in Devices /\ t.band \in Bands /\ t.scope \in Scopes
    BY <2>1 DEF Timers
  <2>3. /\ ~t.stale
        /\ IF t.scope = NoSelector THEN tree[t.place].root = "whole"
           ELSE \/ tree[t.place].filter[t.band] = t.scope
                \/ phase = "restoring" /\ place = t.place
    BY <2>1 DEF LinkInv, WaitersFindTheirs
  <2>4. CASE t.place # place
    BY <1>4, <2>2, <2>3, <2>4
  <2>5. CASE t.place = place /\ phase = "restoring"
    <3>1. t.scope # NoSelector
      BY <2>1, <2>5, RestoringFacts
    <3> QED
      BY <2>3, <2>5, <3>1
  <2>6. CASE t.place = place /\ phase = "changing"
    <3>1. t.scope # NoSelector /\ T.filter[t.band] = t.scope
      BY <2>1, <2>3, <2>6 DEF LinkInv, ChangesAreHarmless
    <3>2. Harmless(c, t)
      <4>1. c = commands[1] /\ 1 \in DOMAIN commands
        BY TailFacts DEF LinkInv, TreesAreWellFormed
      <4> QED
        BY <2>1, <2>6, <4>1 DEF LinkInv, ChangesAreHarmless
    <3>3. T.root = "scoped"
      <4>1. t.band \in Filtered(T)
        BY <2>2, <3>1 DEF Filtered
      <4> QED
        BY <1>2, <4>1, KindFacts
    <3>4. c.do \in {"root", "leaf", "filter", "delete filter", "delete leaf"}
      BY <1>2, <3>2 DEF Harmless, Orders
    <3>5. U.filter[t.band] = T.filter[t.band]
      <4> HIDE DEF T, c
      <4>1. CASE c.do = "root"
        BY <1>2, <3>3, <4>1, EffectOnFilters DEF U
      <4>2. CASE c.do \in {"leaf", "delete leaf"}
        BY <1>2, <4>2, EffectOnFilters DEF U
      <4>3. CASE c.do = "filter"
        <5>1. \A b \in Bands : U.filter[b] = IF b = c.band THEN c.scope ELSE T.filter[b]
          BY <1>2, <3>3, <4>3, EffectOnFilters DEF U
        <5> QED
          BY <2>2, <3>2, <4>3, <5>1 DEF Harmless
      <4>4. CASE c.do = "delete filter"
        <5>1. \A b \in Bands : U.filter[b] = IF b = c.band THEN NoSelector ELSE T.filter[b]
          BY <1>2, <4>4, EffectOnFilters DEF U
        <5> QED
          BY <2>2, <3>2, <4>4, <5>1 DEF Harmless
      <4> QED
        BY <3>4, <4>1, <4>2, <4>3, <4>4
    <3> QED
      BY <1>4, <2>3, <2>6, <3>1, <3>5
  <2> QED
    BY <2>4, <2>5, <2>6
<1>7. \A p \in Devices : WellFormed(tree[p])'
    BY <1>5
<1> QED
    BY <1>4, <1>6, <1>7 DEF U

(* The timer a call launches is the only one of its own.                   *)
LEMMA LaunchFacts ==
    ASSUME LinkInv, phase = "arming", timers' = Launched, tree' = tree, op' = op,
           unscanned' = unscanned, botched' = botched, wiped' = wiped
    PROVE  /\ timers' \in SUBSET Timers
           /\ OneTimerEach' /\ IdleAreWhole' /\ WaitersFindTheirs'
           /\ (\A i \in DOMAIN entries' : i \in DOMAIN entries /\ entries'[i] = entries[i]) =>
                 EntriesKnowWaiters'
           /\ \A p \in Devices : p # place =>
                 {u \in timers' : u.place = p} = {t \in timers : t.place = p}
           /\ place \notin unscanned =>
                 /\ {u \in timers' : u.place = place /\ u.scope = op.scope} # {}
                 /\ \A u \in timers' : u.place = place /\ u.scope = op.scope => ~u.stale
<1> DEFINE band == IF op.scope = NoSelector THEN 1 ELSE BandFor(Last(entries).tree, op.scope)
           idle == op.level = 0
           new == [place |-> place, scope |-> op.scope, at |-> "sleep", stale |-> FALSE,
                   idle |-> idle, band |-> band]
<1>1. timers' = timers \cup {new} /\ timers \in SUBSET Timers /\ place \in Devices
    BY DEF Launched, LinkInv, LinkTypeOK
<1>2. op.scope \in Scopes /\ op.level \in Levels /\ Arms
    BY OpFacts DEF LinkInv, LinkTypeOK, CallShape
<1>3. band \in Bands /\ (op.scope # NoSelector => band = OwnBand)
  <2>1. CASE op.scope = NoSelector
    BY <2>1, BandFacts
  <2>2. CASE op.scope # NoSelector
    BY <1>2, <2>2 DEF Arms, OwnBand, LinkInv, SelectorHasItsBand
  <2> QED
    BY <2>1, <2>2
<1>4. idle \in BOOLEAN
    OBVIOUS
<1> HIDE DEF band, idle
<1>5. /\ new \in Timers /\ new.place = place /\ new.scope = op.scope /\ new.at = "sleep"
      /\ new.stale = FALSE /\ new.idle = idle /\ new.band = band
    BY <1>1, <1>2, <1>3, <1>4 DEF Timers
<1> HIDE DEF new
<1>6. place \notin unscanned => \A t \in timers : ~(t.place = place /\ t.scope = op.scope)
    BY DEF LinkInv, OwnAreGone, Own, Busy
<1>7. OneTimerEach'
  <2> SUFFICES ASSUME NEW t \in timers', NEW u \in timers', t.place \notin unscanned,
                      t.place = u.place, t.scope = u.scope
               PROVE  t = u
    BY DEF OneTimerEach
  <2> QED
    BY <1>1, <1>5, <1>6 DEF LinkInv, OneTimerEach
<1>8. IdleAreWhole'
  <2>1. new.idle => new.scope = NoSelector
    BY <1>2, <1>5 DEF Arms, idle
  <2> QED
    BY <1>1, <2>1 DEF LinkInv, IdleAreWhole
<1>9. \A t \in timers' : Waits(t)' <=> Waits(t)
    BY DEF Waits
<1>10. WaitersFindTheirs'
  <2> SUFFICES ASSUME NEW t \in timers', Waits(t)'
               PROVE  /\ ~t.stale
                      /\ IF t.scope = NoSelector THEN tree[t.place].root = "whole"
                         ELSE \/ tree[t.place].filter[t.band] = t.scope
                              \/ phase' = "restoring" /\ place' = t.place
    BY DEF WaitersFindTheirs
  <2>1. Waits(t)
    BY <1>9
  <2>2. CASE t \in timers
    BY <2>1, <2>2 DEF LinkInv, WaitersFindTheirs
  <2>3. CASE t = new
    <3>1. place \notin unscanned \cup botched \cup wiped /\ op.level # 0
      BY <1>5, <2>1, <2>3 DEF Waits, idle
    <3>2. IF op.scope = NoSelector THEN tree[place].root = "whole"
          ELSE tree[place].filter[OwnBand] = op.scope
      BY <3>1 DEF LinkInv, ArmedIsThere
    <3> QED
      BY <1>3, <1>5, <2>3, <3>2
  <2> QED
    BY <1>1, <2>2, <2>3
<1>11. ASSUME \A i \in DOMAIN entries' : i \in DOMAIN entries /\ entries'[i] = entries[i]
       PROVE  EntriesKnowWaiters'
  <2> SUFFICES ASSUME NEW i \in DOMAIN entries', NEW t \in timers', Waits(t)',
                      t.place = entries'[i].place, t.scope # op.scope
               PROVE  t.scope # NoSelector /\ entries'[i].tree.filter[t.band] = t.scope
    BY DEF EntriesKnowWaiters
  <2>1. t \in timers /\ Waits(t)
    BY <1>1, <1>5, <1>9
  <2> QED
    BY <1>11, <2>1 DEF LinkInv, EntriesKnowWaiters
<1>12. \A p \in Devices : p # place => {u \in timers' : u.place = p} = {t \in timers : t.place = p}
    BY <1>1, <1>5
<1>13. ASSUME place \notin unscanned
       PROVE  /\ {u \in timers' : u.place = place /\ u.scope = op.scope} # {}
              /\ \A u \in timers' : u.place = place /\ u.scope = op.scope => ~u.stale
    BY <1>1, <1>5, <1>6, <1>13
<1>14. timers' \in SUBSET Timers
    BY <1>1, <1>5
<1> QED
    BY <1>7, <1>8, <1>10, <1>11, <1>12, <1>13, <1>14
----------------------------------------------------------------------------
(* How a call ends, or goes on to the next placement. *)

LEMMA AskedStays ==
    ASSUME NEW p, op' = op, tree'[p] = tree[p], unscanned \subseteq unscanned',
           {u \in timers' : u.place = p} = {t \in timers : t.place = p}
    PROVE  (LevelAsked(p) => LevelAsked(p)') /\ (TimersAsked(p) => TimersAsked(p)')
<1>1. LevelAsked(p) => LevelAsked(p)'
    BY DEF LevelAsked
<1>2. {u \in timers' : u.place = p /\ u.scope = op.scope} = {t \in timers : t.place = p /\ t.scope = op.scope}
  <2>1. \A u : u \in {v \in timers' : v.place = p} <=> u \in {t \in timers : t.place = p}
    OBVIOUS
  <2> QED
    BY <2>1
<1>3. Arms' <=> Arms
    BY DEF Arms
<1>4. TimersAsked(p) => TimersAsked(p)'
  <2> SUFFICES ASSUME TimersAsked(p), p \notin unscanned'
               PROVE  {t.stale : t \in {u \in timers' : u.place = p /\ u.scope = op'.scope}} =
                      (IF Arms' THEN {FALSE} ELSE {})
    BY DEF TimersAsked
  <2>1. p \notin unscanned
    OBVIOUS
  <2>2. {t.stale : t \in {u \in timers : u.place = p /\ u.scope = op.scope}} =
        (IF Arms THEN {FALSE} ELSE {})
    BY <2>1 DEF TimersAsked
  <2> QED
    BY <1>2, <1>3, <2>2
<1> QED
    BY <1>1, <1>4

LEMMA FailsFacts ==
    ASSUME LinkInv, phase \in Forward, Fails, entries' = entries, op' = op, before' = before,
           disturbed' = disturbed, botched' = botched,
           op.kind = "impair" => \A p \in Devices \ Touched : tree'[p] = tree[p]
    PROVE  /\ phase' \in {"idle", "unwinding"} /\ place' = place /\ verdict' \in {"none", "done", "failed"}
           /\ commands' = <<>>
           /\ CallShape' /\ EntriesAreChangeable'
           /\ CallKnowsBefore' /\ DoneSoFar' /\ NoHalfImpairment' /\ ImpairedAsAsked'
<1>1. /\ commands' = <<>> /\ place' = place
      /\ \/ op.kind = "impair" /\ entries # <<>> /\ phase' = "unwinding" /\ verdict' = verdict
         \/ ~(op.kind = "impair" /\ entries # <<>>) /\ phase' = "idle" /\ verdict' = "failed"
    BY DEF Fails
<1>2. op.kind = "repair" => entries = <<>>
    BY DEF LinkInv, CallShape
<1>3. op.kind \in {"impair", "repair"}
    BY OpFacts DEF LinkInv, LinkTypeOK
<1>4. phase' = "idle" => entries = <<>>
    BY <1>1, <1>2, <1>3
<1>5. CallShape'
    BY <1>1, <1>2, <1>4 DEF CallShape, Forward, Back
<1>6. EntriesAreChangeable'
    BY DEF LinkInv, EntriesAreChangeable, Changeable
<1>7. Touched' = Touched
    BY DEF Touched
<1>8. ASSUME ~disturbed, op.kind = "impair"
      PROVE  /\ \A i \in DOMAIN entries : entries[i].tree = ReadAs(before[entries[i].place])
             /\ \A p \in Devices \ Touched : ReadAs(tree'[p]) = ReadAs(before[p])
  <2>1. phase # "idle"
    BY DEF Forward
  <2>2. /\ \A i \in DOMAIN entries : entries[i].tree = ReadAs(before[entries[i].place])
        /\ \A p \in Devices \ Touched : ReadAs(tree[p]) = ReadAs(before[p])
    BY <1>8, <2>1 DEF LinkInv, CallKnowsBefore
  <2> QED
    BY <1>8, <2>2
<1>9. CallKnowsBefore'
  <2> SUFFICES ASSUME ~disturbed, op.kind = "impair"
               PROVE  /\ \A i \in DOMAIN entries : entries[i].tree = ReadAs(before[entries[i].place])
                      /\ \A p \in Devices \ (Touched \cup botched) : ReadAs(tree'[p]) = ReadAs(before[p])
    BY <1>1, <1>7 DEF CallKnowsBefore, Forward
  <2> QED
    BY <1>8
<1>10. DoneSoFar'
    BY <1>1 DEF DoneSoFar, Forward
<1>11. NoHalfImpairment'
  <2> SUFFICES ASSUME phase' = "idle", op.kind = "impair", ~disturbed, NEW p \in Devices
               PROVE  ReadAs(tree'[p]) = ReadAs(before[p])
    BY DEF NoHalfImpairment
  <2>1. Touched = {}
    BY <1>4 DEF Touched
  <2> QED
    BY <1>8, <2>1
<1>12. ImpairedAsAsked'
    BY <1>1 DEF ImpairedAsAsked
<1>13. phase' \in {"idle", "unwinding"} /\ verdict' \in {"none", "done", "failed"}
    BY <1>1 DEF LinkInv, LinkTypeOK
<1> QED
    BY <1>1, <1>5, <1>6, <1>9, <1>10, <1>11, <1>12, <1>13

LEMMA AdvanceFacts ==
    ASSUME LinkInv, phase \in {"reading", "changing", "arming"}, Advance, op' = op, tree' = tree,
           before' = before, disturbed' = disturbed, unscanned' = unscanned, botched' = botched,
           op.kind = "impair" => phase \in {"changing", "arming"},
           \A p \in Devices : p # place =>
               {u \in timers' : u.place = p} = {t \in timers : t.place = p},
           op.kind = "impair" /\ ~disturbed =>
               /\ LevelAsked(place)
               /\ place \notin unscanned =>
                     {t.stale : t \in {u \in timers' : u.place = place /\ u.scope = op.scope}} =
                     (IF Arms THEN {FALSE} ELSE {})
    PROVE  /\ phase' \in {"idle", "cancelling"} /\ place' \in Devices
           /\ verdict' \in {"none", "done", "failed"}
           /\ entries' \in Seq([place : Devices, tree : Trees]) /\ Len(entries') <= Placements
           /\ \A i \in DOMAIN entries' : i \in DOMAIN entries /\ entries'[i] = entries[i]
           /\ CallShape' /\ EntriesAreChangeable'
           /\ CallKnowsBefore' /\ DoneSoFar' /\ NoHalfImpairment' /\ ImpairedAsAsked'
<1>1. \/ place < op.last /\ place' = place + 1 /\ phase' = "cancelling" /\ entries' = entries /\ verdict' = verdict
      \/ ~(place < op.last) /\ phase' = "idle" /\ verdict' = "done" /\ entries' = <<>> /\ place' = place
    BY DEF Advance
<1>2. /\ place \in Devices /\ op.first \in Devices /\ op.last \in Devices /\ op.kind \in {"impair", "repair"}
      /\ Len(entries) \in Nat /\ Len(entries) <= Placements
    BY OpFacts, EntryFacts DEF LinkInv, LinkTypeOK
<1>3. place \in Nat /\ op.first \in Nat /\ op.last \in Nat
    BY <1>2, ScopeFacts
<1>4. place' \in Devices /\ phase' \in {"idle", "cancelling"} /\ verdict' \in {"none", "done", "failed"}
    BY <1>1, <1>2, LinkAssumption DEF Devices, LinkInv, LinkTypeOK
<1>5. /\ entries' \in Seq([place : Devices, tree : Trees]) /\ Len(entries') <= Placements
      /\ \A i \in DOMAIN entries' : i \in DOMAIN entries /\ entries'[i] = entries[i]
  <2>1. CASE entries' = entries
    BY <1>2, <2>1, EntryFacts
  <2>2. CASE entries' = <<>>
    <3>1. Len(<<>>) = 0 /\ <<>> \in Seq([place : Devices, tree : Trees]) /\ DOMAIN <<>> = {}
      OBVIOUS
    <3> QED
      BY <2>2, <3>1, LinkAssumption
  <2> QED
    BY <1>1, <2>1, <2>2
<1>6. EntriesAreChangeable'
    BY <1>5 DEF LinkInv, EntriesAreChangeable, Changeable
<1>7. /\ op.first <= place
      /\ op.kind = "impair" =>
            /\ Len(entries) = place - op.first + 1
            /\ \A i \in DOMAIN entries : entries[i].place = op.first + i - 1
  <2>1. phase \in Forward
    BY DEF Forward
  <2> QED
    BY <2>1 DEF LinkInv, CallShape
<1>8. op.kind = "repair" => entries = <<>>
    BY DEF LinkInv, CallShape
<1>9. CallShape'
  <2>1. CASE phase' = "idle"
    BY <1>1, <2>1 DEF CallShape, Forward, Back
  <2>2. CASE phase' = "cancelling"
    <3>1. place' = place + 1 /\ entries' = entries
      BY <1>1, <2>2
    <3>2. op'.first <= place'
      BY <1>3, <1>7, <3>1
    <3>3. op.kind = "impair" => Len(entries) = (place + 1) - op.first + 0
      BY <1>3, <1>7
    <3>4. op'.kind = "repair" => entries' = <<>>
      BY <1>8, <3>1
    <3> QED
      BY <1>7, <2>2, <3>1, <3>2, <3>3, <3>4 DEF CallShape, Forward, Back
  <2> QED
    BY <1>4, <2>1, <2>2
<1>10. CallKnowsBefore'
  <2> SUFFICES ASSUME ~disturbed, op.kind = "impair", phase' = "cancelling"
               PROVE  /\ \A i \in DOMAIN entries' : entries'[i].tree = ReadAs(before[entries'[i].place])
                      /\ \A p \in Devices \ Touched' : ReadAs(tree[p]) = ReadAs(before[p])
    BY <1>4 DEF CallKnowsBefore, Forward, Back
  <2>1. phase # "idle" /\ phase \in Forward /\ entries' = entries /\ Touched' = Touched
    BY <1>1 DEF Forward, Touched
  <2> QED
    BY <2>1 DEF LinkInv, CallKnowsBefore
<1>11. ASSUME op.kind = "impair", ~disturbed, NEW p \in Devices, op.first <= p, p <= place
       PROVE  LevelAsked(p)' /\ TimersAsked(p)'
  <2>1. CASE p = place
    <3>1. LevelAsked(p)'
      BY <1>11, <2>1 DEF LevelAsked
    <3>2. Arms' <=> Arms
      BY DEF Arms
    <3>3. TimersAsked(p)'
      BY <1>11, <2>1, <3>2 DEF TimersAsked
    <3> QED
      BY <3>1, <3>3
  <2>2. CASE p # place
    <3>1. p < place
      BY <1>3, <1>11, <2>2, ScopeFacts
    <3>2. LevelAsked(p) /\ TimersAsked(p)
      BY <1>11, <3>1 DEF LinkInv, DoneSoFar, Forward
    <3> QED
      BY <1>11, <2>2, <3>2, AskedStays
  <2> QED
    BY <2>1, <2>2
<1>12. DoneSoFar'
  <2> SUFFICES ASSUME ~disturbed, op.kind = "impair", phase' = "cancelling",
                      NEW p \in Devices, op.first <= p, p < place'
               PROVE  LevelAsked(p)' /\ TimersAsked(p)'
    BY <1>4 DEF DoneSoFar, Forward
  <2>1. p <= place
    BY <1>1, <1>3, ScopeFacts
  <2> QED
    BY <1>11, <2>1
<1>13. NoHalfImpairment'
    BY <1>1 DEF NoHalfImpairment
<1>14. ImpairedAsAsked'
  <2> SUFFICES ASSUME phase' = "idle", op.kind = "impair", ~disturbed, NEW p \in op.first..op.last
               PROVE  LevelAsked(p)' /\ TimersAsked(p)'
    BY DEF ImpairedAsAsked, LevelAsked, TimersAsked
  <2>1. p \in Devices /\ op.first <= p /\ p <= place
    BY <1>1, <1>2, <1>3, LinkAssumption DEF Devices
  <2> QED
    BY <1>11, <2>1
<1> QED
    BY <1>4, <1>5, <1>6, <1>9, <1>10, <1>12, <1>13, <1>14
----------------------------------------------------------------------------
(* The steps. *)

LEMMA InitHolds == LinkInit => LinkInv
<1> SUFFICES ASSUME LinkInit PROVE LinkInv
    OBVIOUS
<1>1. tree \in [Devices -> Trees] /\ \A p \in Devices : tree[p] = Clean
    BY CleanFacts DEF LinkInit
<1>2. op \in Ops
    BY ScopeFacts DEF LinkInit, Ops
<1>3. LinkTypeOK
  <2>1. Len(entries) = 0
    BY DEF LinkInit
  <2>2. 1 \in Devices /\ 0 \in 0..MaxCalls /\ 0 \in 0..MaxLinkFaults /\ 0 <= Placements
    BY ScopeFacts, LinkAssumption
  <2>3. disturbed \in BOOLEAN
    BY DEF LinkInit
  <2> QED
    BY <1>1, <1>2, <2>1, <2>2, <2>3 DEF LinkInit, LinkTypeOK
<1>4. TreesAreWellFormed
    BY <1>1, CleanFacts DEF LinkInit, TreesAreWellFormed
<1>5. CallShape /\ EntriesAreChangeable
    BY DEF LinkInit, CallShape, EntriesAreChangeable, Forward, Back
<1>6. OwnAreGone /\ OneTimerEach /\ IdleAreWhole /\ WaitersFindTheirs /\ EntriesKnowWaiters
      /\ ChangesAreHarmless
    BY DEF LinkInit, OwnAreGone, OneTimerEach, IdleAreWhole, WaitersFindTheirs, EntriesKnowWaiters,
           ChangesAreHarmless, Busy
<1>7. SelectorHasItsBand /\ OnlyTheyFilter /\ ArmedIsThere /\ RestoresInTurn
    BY DEF LinkInit, SelectorHasItsBand, OnlyTheyFilter, ArmedIsThere, RestoresInTurn
<1>8. CallKnowsBefore /\ DoneSoFar /\ NoHalfImpairment /\ ImpairedAsAsked
    BY DEF LinkInit, CallKnowsBefore, DoneSoFar, NoHalfImpairment, ImpairedAsAsked
<1> QED
    BY <1>3, <1>4, <1>5, <1>6, <1>7, <1>8 DEF LinkInv

LEMMA BeginKeeps ==
    ASSUME LinkInv, NEW o \in Ops, Begin(o)
    PROVE  LinkInv'
<1>1. /\ phase = "idle" /\ calls < MaxCalls /\ calls' = calls + 1
      /\ op' = o /\ phase' = "cancelling" /\ place' = o.first
      /\ commands' = <<>> /\ entries' = <<>> /\ verdict' = "none"
      /\ before' = tree /\ disturbed' = FALSE
      /\ tree' = tree /\ timers' = timers /\ linkFaults' = linkFaults /\ botched' = botched
      /\ unscanned' = unscanned /\ wiped' = wiped
    BY DEF Begin
<1>2. /\ o.first \in Devices /\ o.kind \in {"impair", "repair"}
  <2>1. op' \in Ops
    BY <1>1
  <2> QED
    BY <1>1, ScopeFacts DEF Ops
<1>3. LinkTypeOK'
  <2>1. Len(<<>>) = 0 /\ Len(<<>>) <= Placements
    BY LinkAssumption
  <2>2. calls + 1 \in 0..MaxCalls
    BY <1>1, LinkAssumption DEF LinkInv, LinkTypeOK
  <2> QED
    BY <1>1, <1>2, <2>1, <2>2 DEF LinkInv, LinkTypeOK
<1>4. TreesAreWellFormed'
    BY <1>1 DEF LinkInv, TreesAreWellFormed
<1>5. CallShape'
  <2>1. o.first \in Nat
    BY <1>2, ScopeFacts
  <2>2. Len(<<>>) = o.first - o.first + 0 /\ DOMAIN <<>> = {}
    BY <2>1
  <2> QED
    BY <1>1, <2>1, <2>2 DEF CallShape, Forward, Back
<1>6. OneTimerEach' /\ IdleAreWhole' /\ WaitersFindTheirs'
    BY <1>1, FewerTimers, WaitersStillFindTheirs
<1>7. EntriesKnowWaiters' /\ EntriesAreChangeable'
    BY <1>1, NoEntries
<1>8. /\ OwnAreGone' /\ ChangesAreHarmless' /\ SelectorHasItsBand' /\ OnlyTheyFilter'
      /\ ArmedIsThere' /\ RestoresInTurn'
    BY <1>1, OnlyAtWork
<1>9. CallKnowsBefore'
    BY <1>1 DEF CallKnowsBefore, Back
<1>10. DoneSoFar'
  <2>1. ASSUME NEW p \in Devices PROVE ~(o.first <= p /\ p < o.first)
    <3>1. p \in Nat /\ o.first \in Nat
      BY <1>2, ScopeFacts
    <3> QED
      BY <3>1
  <2> QED
    BY <1>1, <2>1 DEF DoneSoFar
<1>11. NoHalfImpairment' /\ ImpairedAsAsked'
    BY <1>1 DEF NoHalfImpairment, ImpairedAsAsked
<1> QED
    BY <1>3, <1>4, <1>5, <1>6, <1>7, <1>8, <1>9, <1>10, <1>11 DEF LinkInv

LEMMA CancelTimersKeeps ==
    ASSUME LinkInv, CancelTimers
    PROVE  LinkInv'
<1>1. /\ phase = "cancelling" /\ phase' = "reading"
      /\ tree' = tree /\ op' = op /\ place' = place /\ commands' = commands /\ entries' = entries
      /\ verdict' = verdict /\ calls' = calls /\ before' = before /\ disturbed' = disturbed
      /\ botched' = botched /\ wiped' = wiped
    BY DEF CancelTimers
<1>2. \/ /\ timers' = {t \in timers : ~Own(t) /\ ~(Everything /\ t.place = place)}
         /\ linkFaults' = linkFaults /\ unscanned' = unscanned
      \/ /\ linkFaults < MaxLinkFaults /\ linkFaults' = linkFaults + 1
         /\ unscanned' = unscanned \cup {place} /\ timers' = timers
    BY DEF CancelTimers
<1>3. timers' \subseteq timers /\ unscanned \subseteq unscanned' /\ linkFaults' \in 0..MaxLinkFaults
      /\ place \in Devices
    BY <1>2, LinkAssumption DEF LinkInv, LinkTypeOK
<1>4. LinkTypeOK'
    BY <1>1, <1>2, <1>3 DEF LinkInv, LinkTypeOK
<1>5. TreesAreWellFormed'
    BY <1>1 DEF LinkInv, TreesAreWellFormed
<1>6. CallShape'
    BY <1>1 DEF LinkInv, CallShape, Forward, Back
<1>7. OneTimerEach' /\ IdleAreWhole' /\ WaitersFindTheirs' /\ EntriesKnowWaiters' /\ EntriesAreChangeable'
    BY <1>1, <1>3, FewerTimers, WaitersStillFindTheirs, EntriesStillKnow
<1>8. OwnAreGone'
  <2> SUFFICES ASSUME place \notin unscanned', NEW t \in timers'
               PROVE  ~Own(t) /\ ~(Everything /\ t.place = place)
    BY <1>1 DEF OwnAreGone, Own, Everything
  <2> QED
    BY <1>2
<1>9. /\ ChangesAreHarmless' /\ SelectorHasItsBand' /\ OnlyTheyFilter' /\ ArmedIsThere' /\ RestoresInTurn'
    BY <1>1 DEF ChangesAreHarmless, SelectorHasItsBand, OnlyTheyFilter, ArmedIsThere, RestoresInTurn
<1>10. CallKnowsBefore'
    BY <1>1 DEF LinkInv, CallKnowsBefore, Touched, Forward, Back
<1>11. DoneSoFar'
  <2> SUFFICES ASSUME ~disturbed, op.kind = "impair", NEW p \in Devices, op.first <= p, p < place
               PROVE  LevelAsked(p)' /\ TimersAsked(p)'
    BY <1>1 DEF DoneSoFar
  <2>1. LevelAsked(p) /\ TimersAsked(p)
    BY <1>1 DEF LinkInv, DoneSoFar, Forward
  <2>2. p # place
    BY <1>3, ScopeFacts
  <2>3. {u \in timers' : u.place = p} = {t \in timers : t.place = p}
  <3>1. op.kind # "repair"
      OBVIOUS
    <3>2. \A t \in timers : t.place = p => t \in timers'
      BY <1>2, <2>2, <3>1 DEF Own, Everything
    <3> QED
      BY <1>3, <3>2
  <2> QED
    BY <1>1, <1>3, <2>1, <2>3, AskedStays
<1>12. NoHalfImpairment' /\ ImpairedAsAsked'
    BY <1>1 DEF NoHalfImpairment, ImpairedAsAsked
<1> QED
    BY <1>4, <1>5, <1>6, <1>7, <1>8, <1>9, <1>10, <1>11, <1>12 DEF LinkInv

LEMMA UnwindKeeps ==
    ASSUME LinkInv, Unwind
    PROVE  LinkInv'
<1> DEFINE E == Last(entries).tree
           p == Last(entries).place
<1>1. /\ phase = "unwinding" /\ phase' = "restoring" /\ place' = p
      /\ \/ /\ timers' = {t \in timers : ~(t.place = p /\ t.scope = op.scope)}
            /\ unscanned' = unscanned
         \/ unscanned' = unscanned \cup {p} /\ timers' = timers
      /\ commands' = Restore(E)
      /\ tree' = tree /\ op' = op /\ entries' = entries /\ verdict' = verdict /\ calls' = calls
      /\ linkFaults' = linkFaults /\ before' = before /\ disturbed' = disturbed
      /\ botched' = botched /\ wiped' = wiped
    BY DEF Unwind
<1>2. op.kind = "impair" /\ entries # <<>>
    BY <1>1 DEF LinkInv, CallShape, Back
<1>3. p \in Devices /\ Changeable(E) /\ Len(entries) \in DOMAIN entries /\ Last(entries) = entries[Len(entries)]
    BY <1>2, EntryFacts
<1>4. Restore(E) \in Seq(Orders) /\ Len(Restore(E)) \in Nat
  <2>1. Restore(E) \in Seq(Orders)
    BY <1>3, RestoreFacts
  <2> QED
    BY <2>1, LenProperties
<1>5. timers' \subseteq timers /\ unscanned \subseteq unscanned'
    BY <1>1
<1>6. LinkTypeOK'
    BY <1>1, <1>3, <1>5 DEF LinkInv, LinkTypeOK
<1>7. TreesAreWellFormed'
    BY <1>1, <1>4 DEF LinkInv, TreesAreWellFormed
<1>8. CallShape'
    BY <1>1, <1>2 DEF CallShape, Forward, Back
<1>9. OneTimerEach' /\ IdleAreWhole' /\ WaitersFindTheirs' /\ EntriesKnowWaiters' /\ EntriesAreChangeable'
    BY <1>1, <1>5, FewerTimers, WaitersStillFindTheirs, EntriesStillKnow
<1>10. OwnAreGone'
  <2> SUFFICES ASSUME p \notin unscanned', NEW t \in timers'
               PROVE  ~(t.place = p /\ t.scope = op.scope)
    BY <1>1, <1>2 DEF OwnAreGone, Own, Everything
  <2> QED
    BY <1>1
<1>11. /\ ChangesAreHarmless' /\ SelectorHasItsBand' /\ OnlyTheyFilter' /\ ArmedIsThere'
    BY <1>1 DEF ChangesAreHarmless, SelectorHasItsBand, OnlyTheyFilter, ArmedIsThere
<1>12. RestoresInTurn'
  <2>1. ASSUME NEW t \in timers', Waits(t)', t.place = p
        PROVE  tree[p].filter[t.band] = t.scope
    <3>1. t \in timers /\ Waits(t) /\ t.scope # op.scope
      <4>1. t \in timers /\ Waits(t) /\ p \notin unscanned'
        BY <1>1, <2>1, <1>5, FewerTimers DEF Waits
      <4> QED BY <1>1, <2>1, <4>1
    <3>2. t.scope # NoSelector
      BY <1>3, <2>1, <3>1 DEF LinkInv, EntriesKnowWaiters
    <3> QED
      BY <1>1, <2>1, <3>1, <3>2 DEF LinkInv, WaitersFindTheirs
  <2>2. RestoredTo(0)'
    <3>1. Last(entries').tree = E /\ tree'[place'] = tree[p]
      BY <1>1
    <3>2. Len(commands') = Len(Restore(E)) - 0 /\ \A i \in DOMAIN commands' : commands'[i] = Restore(E)[0 + i]
      <4>1. \A i \in 1..Len(Restore(E)) : 0 + i = i
        BY <1>4
      <4>2. DOMAIN Restore(E) = 1..Len(Restore(E))
        BY <1>4, LenProperties
      <4> HIDE DEF E
      <4> QED
        BY <1>1, <1>4, <4>1, <4>2
    <3>3. \A i \in DOMAIN SetToSeq(Filtered(E)) : ~(2 * i + 2 <= 0)
      <4>1. Filtered(E) \in SUBSET Bands
        BY DEF Filtered
      <4>2. DOMAIN SetToSeq(Filtered(E)) \subseteq Nat
        <5> HIDE DEF E
        <5> QED
          BY <4>1, BandsInTurn
      <4> HIDE DEF E
      <4> QED
        BY <4>2
    <3> HIDE DEF E, p
    <3> QED
      BY <1>1, <2>1, <3>1, <3>2, <3>3 DEF RestoredTo
  <2> QED
    BY <1>1, <1>4, <2>2 DEF RestoresInTurn
<1>13. CallKnowsBefore'
    BY <1>1 DEF LinkInv, CallKnowsBefore, Touched, Forward, Back
<1>14. DoneSoFar' /\ NoHalfImpairment' /\ ImpairedAsAsked'
    BY <1>1 DEF DoneSoFar, NoHalfImpairment, ImpairedAsAsked, Forward
<1> QED
    BY <1>6, <1>7, <1>8, <1>9, <1>10, <1>11, <1>12, <1>13, <1>14 DEF LinkInv
(* What the rollback has left of the entries.                              *)
LEMMA NextEntryFacts ==
    ASSUME LinkInv, phase \in Back, NextEntry, timers' = timers, tree' = tree, op' = op,
           place' = place, calls' = calls, linkFaults' = linkFaults, before' = before,
           disturbed' = disturbed, botched \subseteq botched', botched' \subseteq Devices,
           unscanned' = unscanned, wiped' = wiped,
           op.kind = "impair" /\ ~disturbed =>
               LET E == Last(entries)
               IN  E.place \in botched' \/ ReadAs(tree[E.place]) = E.tree
    PROVE  /\ LinkTypeOK' /\ TreesAreWellFormed' /\ CallShape' /\ EntriesAreChangeable'
           /\ OwnAreGone' /\ OneTimerEach' /\ IdleAreWhole' /\ EntriesKnowWaiters'
           /\ ChangesAreHarmless' /\ SelectorHasItsBand' /\ OnlyTheyFilter' /\ ArmedIsThere'
           /\ RestoresInTurn' /\ CallKnowsBefore' /\ DoneSoFar'
           /\ NoHalfImpairment' /\ ImpairedAsAsked'
<1> DEFINE S == [place : Devices, tree : Trees]
<1>1. /\ op.kind = "impair" /\ entries # <<>> /\ entries \in Seq(S) /\ Len(entries) <= Placements
    BY EntryFacts DEF LinkInv, CallShape, LinkTypeOK
<1>2. /\ entries' = Front(entries) /\ commands' = <<>>
      /\ \/ Len(entries) > 1 /\ phase' = "unwinding" /\ verdict' = verdict
         \/ ~(Len(entries) > 1) /\ phase' = "idle" /\ verdict' = "failed"
    BY DEF NextEntry
<1>3. /\ Len(entries) \in Nat /\ Len(entries) > 0 /\ Last(entries) = entries[Len(entries)]
      /\ entries' \in Seq(S) /\ Len(entries') = Len(entries) - 1
      /\ \A i \in DOMAIN entries' : i \in DOMAIN entries /\ entries'[i] = entries[i]
      /\ \A i \in DOMAIN entries : i = Len(entries) \/ i \in DOMAIN entries'
      /\ entries' = <<>> <=> Len(entries) = 1
  <2> HIDE DEF S
  <2> QED
    BY <1>1, <1>2, LastFacts
<1>4. phase' \in {"idle", "unwinding"} /\ (phase' = "idle" <=> entries' = <<>>)
    BY <1>2, <1>3
<1>5. LinkTypeOK'
  <2>1. Len(entries') <= Placements
    BY <1>1, <1>3, LinkAssumption
  <2>2. verdict' \in {"none", "done", "failed"}
    BY <1>2 DEF LinkInv, LinkTypeOK
  <2> QED
    BY <1>4, <2>1, <2>2 DEF LinkInv, LinkTypeOK
<1>6. TreesAreWellFormed'
  <2>1. <<>> \in Seq(Orders)
    OBVIOUS
  <2> QED
    BY <1>2, <1>3, <2>1 DEF LinkInv, TreesAreWellFormed
<1>7. CallShape'
    BY <1>1, <1>4 DEF CallShape, Forward, Back
<1>8. OneTimerEach' /\ IdleAreWhole' /\ EntriesKnowWaiters' /\ EntriesAreChangeable'
    BY <1>3, FewerTimers, EntriesStillKnow
<1>9. /\ OwnAreGone' /\ ChangesAreHarmless' /\ SelectorHasItsBand' /\ OnlyTheyFilter'
      /\ ArmedIsThere' /\ RestoresInTurn'
    BY <1>4, OnlyAtWork
<1>10. ASSUME ~disturbed
       PROVE  /\ \A i \in DOMAIN entries' : entries'[i].tree = ReadAs(before[entries'[i].place])
              /\ \A p \in Devices \ (Touched' \cup botched') : ReadAs(tree[p]) = ReadAs(before[p])
  <2>1. /\ \A i \in DOMAIN entries : entries[i].tree = ReadAs(before[entries[i].place])
        /\ \A p \in Devices \ (Touched \cup botched) : ReadAs(tree[p]) = ReadAs(before[p])
    BY <1>1, <1>10 DEF LinkInv, CallKnowsBefore, Back
  <2>2. ASSUME NEW p \in Devices, p \notin Touched', p \notin botched'
        PROVE  ReadAs(tree[p]) = ReadAs(before[p])
    <3>1. CASE p \notin Touched
      BY <2>1, <2>2, <3>1
    <3>2. CASE p \in Touched
      <4>1. PICK i \in DOMAIN entries : p = entries[i].place
        BY <3>2 DEF Touched
      <4>2. i \notin DOMAIN entries'
        BY <1>3, <2>2, <4>1 DEF Touched
      <4>3. p = Last(entries).place /\ Last(entries).tree = ReadAs(before[p])
        BY <1>3, <2>1, <4>1, <4>2
      <4> QED
        BY <1>1, <1>10, <2>2, <4>3
    <3> QED
      BY <3>1, <3>2
  <2> QED
    BY <1>3, <2>1, <2>2
<1>11. CallKnowsBefore'
    BY <1>4, <1>10 DEF CallKnowsBefore, Forward
<1>12. NoHalfImpairment'
  <2> SUFFICES ASSUME phase' = "idle", ~disturbed, NEW p \in Devices, p \notin botched'
               PROVE  ReadAs(tree[p]) = ReadAs(before[p])
    BY DEF NoHalfImpairment
  <2>1. Touched' = {}
    BY <1>4 DEF Touched
  <2> QED
    BY <1>10, <2>1
<1>13. DoneSoFar' /\ ImpairedAsAsked'
    BY <1>2 DEF DoneSoFar, ImpairedAsAsked, Forward
<1> QED
    BY <1>5, <1>6, <1>7, <1>8, <1>9, <1>11, <1>12, <1>13

LEMMA RestoredKeeps ==
    ASSUME LinkInv, Restored
    PROVE  LinkInv'
<1> DEFINE E == Last(entries).tree
           bands == SetToSeq(Filtered(E))
<1>1. /\ phase = "restoring" /\ commands = <<>> /\ NextEntry
      /\ tree' = tree /\ timers' = timers /\ op' = op /\ place' = place /\ calls' = calls
      /\ linkFaults' = linkFaults /\ before' = before /\ disturbed' = disturbed
      /\ botched' = botched /\ unscanned' = unscanned /\ wiped' = wiped
    BY DEF Restored, linkHistory
<1>2. PICK k \in 0..Len(Restore(E)) : RestoredTo(k)
    BY <1>1 DEF LinkInv, RestoresInTurn
<1>3. Changeable(E) /\ place = Last(entries).place
    BY <1>1, RestoringFacts
<1>4. k = Len(Restore(E)) /\ k > 0
  <2>1. Restore(E) \in Seq(Orders) /\ Len(Restore(E)) > 0
    BY <1>3, RestoreFacts
  <2>2. Len(commands) = Len(Restore(E)) - k
    BY <1>2 DEF RestoredTo
  <2>3. Len(commands) = 0 /\ Len(Restore(E)) \in Nat
    BY <1>1, <2>1, LenProperties
  <2> HIDE DEF E
  <2> QED
    BY <2>1, <2>2, <2>3
<1>5. ~disturbed => tree[place] = E
  <2>1. ~disturbed => tree[place] = PutBack(E, k)
    BY <1>2, <1>4 DEF RestoredTo
  <2> HIDE DEF E
  <2> QED
    BY <1>3, <1>4, <2>1, PutBackWhole
<1>6. ~disturbed => ReadAs(tree[place]) = E
    BY <1>3, <1>5 DEF Changeable
<1>7. ASSUME NEW t \in timers, Waits(t), t.place = place, t.scope # NoSelector
      PROVE  tree[place].filter[t.band] = t.scope
  <2>1. E.filter[t.band] = t.scope
    BY <1>1, <1>7, RestoringFacts
  <2>2. t.band \in Bands
    BY DEF LinkInv, LinkTypeOK, Timers
  <2>3. t.band \in Filtered(E)
    BY <1>7, <2>1, <2>2 DEF Filtered
  <2>4. Kind(E) = "scoped"
    <3> HIDE DEF E
    <3> QED
      BY <1>3, <2>3, KindFacts DEF Changeable
  <2>5. PICK i \in DOMAIN bands : bands[i] = t.band
    <3>1. Filtered(E) \in SUBSET Bands
      BY DEF Filtered
    <3> QED
      BY <2>3, <3>1, BandsInTurn
  <2>6. 2 * i + 2 <= k
    <3>1. k = 2 + 2 * Len(bands)
      BY <1>3, <1>4, <2>4, RestoreFacts
    <3>2. Len(bands) \in Nat /\ i \in 1..Len(bands)
      <4>1. Filtered(E) \in SUBSET Bands
        BY DEF Filtered
      <4> QED
        BY <4>1, BandsInTurn
    <3> HIDE DEF E, bands
    <3> QED
      BY <3>1, <3>2
  <2> QED
    BY <1>2, <1>7, <2>5, <2>6 DEF RestoredTo
<1>8. WaitersFindTheirs'
  <2> SUFFICES ASSUME NEW t \in timers, Waits(t)
               PROVE  /\ ~t.stale
                      /\ IF t.scope = NoSelector THEN tree[t.place].root = "whole"
                         ELSE tree[t.place].filter[t.band] = t.scope
    BY <1>1 DEF WaitersFindTheirs, Waits
  <2> QED
    BY <1>7 DEF LinkInv, WaitersFindTheirs
<1>9. botched' \subseteq Devices /\ phase \in Back
    BY <1>1 DEF LinkInv, LinkTypeOK, Back
<1>10. /\ LinkTypeOK' /\ TreesAreWellFormed' /\ CallShape' /\ EntriesAreChangeable'
       /\ OwnAreGone' /\ OneTimerEach' /\ IdleAreWhole' /\ EntriesKnowWaiters'
       /\ ChangesAreHarmless' /\ SelectorHasItsBand' /\ OnlyTheyFilter' /\ ArmedIsThere'
       /\ RestoresInTurn' /\ CallKnowsBefore' /\ DoneSoFar'
       /\ NoHalfImpairment' /\ ImpairedAsAsked'
    BY <1>1, <1>3, <1>6, <1>9, NextEntryFacts
<1> QED
    BY <1>8, <1>10 DEF LinkInv

LEMMA NotRestoredKeeps ==
    ASSUME LinkInv, NotRestored
    PROVE  LinkInv'
<1>1. /\ phase \in Back /\ NextEntry
      /\ tree' = tree /\ timers' = timers /\ op' = op /\ place' = place /\ calls' = calls
      /\ linkFaults' = linkFaults /\ before' = before /\ disturbed' = disturbed
      /\ botched' = botched \cup {Last(entries).place} /\ unscanned' = unscanned /\ wiped' = wiped
    BY DEF NotRestored, Back
<1>2. entries # <<>>
    BY <1>1 DEF LinkInv, CallShape
<1>3. Last(entries).place \in Devices /\ botched' \subseteq Devices
    BY <1>1, <1>2, EntryFacts DEF LinkInv, LinkTypeOK
<1>4. phase = "restoring" => place \in botched'
    BY <1>1, RestoringFacts
<1>5. WaitersFindTheirs'
    BY <1>1, <1>4, WaitersStillFindTheirs
<1>6. /\ LinkTypeOK' /\ TreesAreWellFormed' /\ CallShape' /\ EntriesAreChangeable'
      /\ OwnAreGone' /\ OneTimerEach' /\ IdleAreWhole' /\ EntriesKnowWaiters'
      /\ ChangesAreHarmless' /\ SelectorHasItsBand' /\ OnlyTheyFilter' /\ ArmedIsThere'
      /\ RestoresInTurn' /\ CallKnowsBefore' /\ DoneSoFar'
      /\ NoHalfImpairment' /\ ImpairedAsAsked'
    BY <1>1, <1>3, NextEntryFacts
<1> QED
    BY <1>5, <1>6 DEF LinkInv

LEMMA CutShortKeeps ==
    ASSUME LinkInv, CutShort
    PROVE  LinkInv'
<1>1. /\ phase \in Back /\ phase' = "idle" /\ verdict' = "failed" /\ commands' = <<>> /\ entries' = <<>>
      /\ botched' = botched \cup Touched
      /\ tree' = tree /\ timers' = timers /\ op' = op /\ place' = place /\ calls' = calls
      /\ linkFaults' = linkFaults /\ before' = before /\ disturbed' = disturbed
      /\ unscanned' = unscanned /\ wiped' = wiped
    BY DEF CutShort, Back, Touched
<1>2. op.kind = "impair" /\ Touched \subseteq Devices
    BY <1>1, EntryFacts DEF LinkInv, CallShape, Touched
<1>3. phase = "restoring" => place \in botched'
    BY <1>1, <1>2, PlaceIsTouched
<1>4. LinkTypeOK'
  <2>1. Len(<<>>) <= Placements
    BY LinkAssumption
  <2> QED
    BY <1>1, <1>2, <2>1 DEF LinkInv, LinkTypeOK
<1>5. TreesAreWellFormed'
    BY <1>1 DEF LinkInv, TreesAreWellFormed
<1>6. CallShape'
    BY <1>1 DEF CallShape, Forward, Back
<1>7. OneTimerEach' /\ IdleAreWhole' /\ WaitersFindTheirs' /\ EntriesKnowWaiters' /\ EntriesAreChangeable'
    BY <1>1, <1>3, FewerTimers, WaitersStillFindTheirs, NoEntries
<1>8. /\ OwnAreGone' /\ ChangesAreHarmless' /\ SelectorHasItsBand' /\ OnlyTheyFilter'
      /\ ArmedIsThere' /\ RestoresInTurn'
    BY <1>1, OnlyAtWork
<1>9. CallKnowsBefore' /\ DoneSoFar' /\ ImpairedAsAsked'
    BY <1>1 DEF CallKnowsBefore, DoneSoFar, ImpairedAsAsked, Forward, Back
<1>10. NoHalfImpairment'
  <2> SUFFICES ASSUME ~disturbed, NEW p \in Devices, p \notin botched'
               PROVE  ReadAs(tree[p]) = ReadAs(before[p])
    BY <1>1 DEF NoHalfImpairment
  <2> QED
    BY <1>1, <1>2 DEF LinkInv, CallKnowsBefore
<1> QED
    BY <1>4, <1>5, <1>6, <1>7, <1>8, <1>9, <1>10 DEF LinkInv
(* What a call may change, and the timers that wait there.                 *)
LEMMA ReadFacts ==
    ASSUME LinkInv, phase = "reading", NEW T, T = ReadAs(tree[place]), ~Refused(T)
    PROVE  /\ T \in Trees /\ WellFormed(T) /\ ReadAs(T) = T /\ Kind(T) # "foreign"
           /\ op.scope # NoSelector => op.scope \in Selectors /\ Kind(T) \in {"clean", "scoped"}
           /\ op.kind = "impair" /\ op.scope = NoSelector => Kind(T) # "scoped"
           /\ \A b \in Bands : tree[place].filter[b] = T.filter[b]
           /\ \A t \in timers : Waits(t) /\ t.place = place =>
                 /\ t.scope # op.scope /\ op.scope # NoSelector /\ t.scope # NoSelector
                 /\ t.scope \in Selectors /\ t.band \in Bands /\ T.filter[t.band] = t.scope
<1>1. /\ WellFormed(tree[place]) /\ place \in Devices /\ op.scope \in Scopes
      /\ op.kind \in {"impair", "repair"}
    BY OpFacts DEF LinkInv, TreesAreWellFormed, LinkTypeOK
<1>2. /\ WellFormed(T) /\ ReadAs(T) = T /\ Kind(T) = Kind(tree[place])
      /\ \A b \in Bands : tree[place].filter[b] = T.filter[b]
    BY <1>1, ReadIsWellFormed
<1>3. /\ T \in Trees /\ Kind(T) \in {"clean", "whole", "scoped"}
      /\ op.scope # NoSelector => Kind(T) # "whole"
      /\ op.kind = "impair" /\ op.scope = NoSelector => Kind(T) # "scoped"
    BY <1>2, KindFacts DEF Refused, WellFormed
<1>4. ASSUME NEW t \in timers, Waits(t), t.place = place
      PROVE  /\ t.scope # op.scope /\ op.scope # NoSelector /\ t.scope # NoSelector
             /\ t.scope \in Selectors /\ t.band \in Bands /\ T.filter[t.band] = t.scope
  <2>1. t.band \in Bands /\ t.scope \in Scopes
    BY DEF LinkInv, LinkTypeOK, Timers
  <2>2. ~Own(t) /\ ~(Everything /\ t.place = place)
    BY <1>4 DEF LinkInv, OwnAreGone, Busy, Waits
  <2>3. t.scope # op.scope /\ ~(op.kind = "repair" /\ op.scope = NoSelector)
    BY <1>4, <2>2 DEF Own, Everything
  <2>4. IF t.scope = NoSelector THEN tree[place].root = "whole" ELSE tree[place].filter[t.band] = t.scope
    BY <1>4 DEF LinkInv, WaitersFindTheirs
  <2>5. t.scope # NoSelector
    <3> SUFFICES ASSUME t.scope = NoSelector PROVE FALSE
      OBVIOUS
    <3>1. Kind(T) = "whole"
      BY <1>1, <1>2, <2>4, KindFacts
    <3> QED
      BY <1>3, <2>3, <3>1
  <2>6. T.filter[t.band] = t.scope
    BY <1>2, <2>1, <2>4, <2>5
  <2>7. op.scope # NoSelector
    <3> SUFFICES ASSUME op.scope = NoSelector PROVE FALSE
      OBVIOUS
    <3>1. t.band \in Filtered(T)
      BY <2>1, <2>5, <2>6 DEF Filtered
    <3>2. Kind(T) \in {"scoped", "foreign"}
      BY <1>2, <3>1, KindFacts
    <3> QED
      BY <1>1, <1>3, <2>3, <3>2
  <2> QED
    BY <2>1, <2>3, <2>5, <2>6, <2>7, ScopeFacts
<1> QED
    BY <1>1, <1>2, <1>3, <1>4, ScopeFacts

(* What a call for the whole link commands adds no filter.                 *)
LEMMA WholeCommands ==
    ASSUME NEW l \in Levels
    PROVE  /\ ApplyOrClear(l) \in Seq(Orders) /\ <<DeleteRoot>> \in Seq(Orders)
           /\ \A i \in DOMAIN ApplyOrClear(l) : ApplyOrClear(l)[i].do \in {"whole", "delete root"}
           /\ \A i \in DOMAIN <<DeleteRoot>> : <<DeleteRoot>>[i].do = "delete root"
<1>1. PICK c, d : c = DeleteRoot /\ d = Whole(l)
    OBVIOUS
<1>2. /\ c \in Orders /\ c.do = "delete root" /\ d \in Orders /\ d.do = "whole"
    BY <1>1, RootIsCommand, WholeIsCommand
<1>3. PICK q, r : q = <<c>> /\ r = <<d>>
    OBVIOUS
<1>4. /\ q \in Seq(Orders) /\ DOMAIN q = {1} /\ q[1] = c
      /\ r \in Seq(Orders) /\ DOMAIN r = {1} /\ r[1] = d
    BY <1>2, <1>3, ShortLists
<1>5. ApplyOrClear(l) = q \/ ApplyOrClear(l) = r
    BY <1>1, <1>3 DEF ApplyOrClear
<1>6. <<DeleteRoot>> = q
    BY <1>1, <1>3
<1> QED
    BY <1>2, <1>4, <1>5, <1>6

(* An impairment registers what it found before it changes it.             *)
LEMMA RegisterKeeps ==
    ASSUME LinkInv, phase = "reading", op.kind = "impair",
           NEW T, T = ReadAs(tree[place]), ~Refused(T),
           entries' = Append(entries, Entry(T)), phase' = "changing", place' = place,
           commands' = (IF op.scope = NoSelector THEN ApplyOrClear(op.level)
                        ELSE ApplySelector(T, op.scope, op.level)),
           verdict' = verdict, tree' = tree, timers' = timers, op' = op, calls' = calls,
           linkFaults' = linkFaults, linkHistory' = linkHistory
    PROVE  LinkInv'
<1> DEFINE S == [place : Devices, tree : Trees]
           n == Len(entries)
<1>1. /\ before' = before /\ disturbed' = disturbed /\ botched' = botched
      /\ unscanned' = unscanned /\ wiped' = wiped
    BY DEF linkHistory
<1>2. /\ T \in Trees /\ WellFormed(T) /\ ReadAs(T) = T /\ Kind(T) # "foreign"
      /\ op.scope # NoSelector => op.scope \in Selectors /\ Kind(T) \in {"clean", "scoped"}
      /\ op.scope = NoSelector => Kind(T) # "scoped"
      /\ \A b \in Bands : tree[place].filter[b] = T.filter[b]
    BY ReadFacts
<1>3. ASSUME NEW t \in timers, Waits(t), t.place = place
      PROVE  /\ t.scope # op.scope /\ op.scope # NoSelector /\ t.scope # NoSelector
             /\ t.scope \in Selectors /\ t.band \in Bands /\ T.filter[t.band] = t.scope
    BY <1>3, ReadFacts
<1>4. place \in Devices /\ op.first \in Devices /\ op.scope \in Scopes /\ op.level \in Levels /\ place \in Nat
      /\ op.first \in Nat /\ place <= Placements /\ op.first >= 1 /\ Placements \in Nat
    BY OpFacts, ScopeFacts, LinkAssumption DEF LinkInv, LinkTypeOK, Devices
<1>5. /\ op.first <= place /\ n = place - op.first
      /\ \A i \in DOMAIN entries : entries[i].place = op.first + i - 1
  <2>1. phase \in Forward /\ phase \notin {"changing", "arming"}
    BY DEF Forward
  <2>2. /\ op.first <= place /\ n = place - op.first + 0
        /\ \A i \in DOMAIN entries : entries[i].place = op.first + i - 1
    BY <2>1 DEF LinkInv, CallShape
  <2> HIDE DEF n
  <2> QED
    BY <1>4, <2>2
<1>6. /\ entries \in Seq(S) /\ n \in Nat /\ DOMAIN entries = 1..n
    BY EntryFacts
<1>7. /\ entries' \in Seq(S) /\ Len(entries') = n + 1 /\ DOMAIN entries' = 1..(n + 1)
      /\ \A i \in 1..n : entries'[i] = entries[i]
      /\ entries'[n + 1] = Entry(T) /\ Last(entries') = Entry(T)
  <2>1. Entry(T) \in S
    BY <1>2, <1>4 DEF Entry
  <2> HIDE DEF S
  <2>2. /\ entries' \in Seq(S) /\ Len(entries') = n + 1
        /\ \A i \in 1..n : entries'[i] = entries[i]
        /\ entries'[n + 1] = Entry(T)
    BY <1>6, <2>1, AppendProperties
  <2> QED
    BY <1>6, <2>2, LenProperties DEF Last
<1> HIDE DEF S, n
<1>8. Entry(T).place = place /\ Entry(T).tree = T
    BY DEF Entry
<1>9. entries' # <<>>
    BY <1>6, <1>7, EmptySeq
<1>10. LinkInv'
  <2>1. /\ commands' \in Seq(Orders)
        /\ op.scope # NoSelector /\ op.level # 0 =>
              \A i \in DOMAIN commands' :
                 /\ commands'[i].do \in {"root", "leaf", "filter"}
                 /\ commands'[i].do = "filter" =>
                       commands'[i].band = BandFor(T, op.scope) /\ commands'[i].scope = op.scope
        /\ ~(op.scope # NoSelector /\ op.level # 0) =>
              \A i \in DOMAIN commands' : commands'[i].do # "filter"
    <3>1. CASE op.scope = NoSelector
      <4>1. commands' = ApplyOrClear(op.level)
        BY <3>1
      <4> QED
        BY <1>4, <3>1, <4>1, WholeCommands
    <3>2. CASE op.scope # NoSelector /\ op.level = 0
      <4>1. commands' = ClearSelector(T, op.scope)
        BY <3>2 DEF ApplySelector
      <4> QED
        BY <1>2, <3>2, <4>1, ClearSelectorFacts
    <3>3. CASE op.scope # NoSelector /\ op.level # 0
      <4>1. commands' = ApplySelector(T, op.scope, op.level)
        BY <3>3
      <4> QED
        BY <1>2, <1>4, <3>3, <4>1, ApplySelectorFacts
    <3> QED
      BY <3>1, <3>2, <3>3
  <2>2. LinkTypeOK'
    <3>1. n + 1 <= Placements
      BY <1>4, <1>5
    <3> QED
      BY <1>1, <1>7, <3>1 DEF LinkInv, LinkTypeOK
  <2>3. TreesAreWellFormed'
    BY <1>7, <2>1 DEF LinkInv, TreesAreWellFormed, S
  <2>4. CallShape'
    <3>1. Len(entries') = place - op.first + 1
      BY <1>4, <1>5, <1>7
    <3>2. ASSUME NEW i \in DOMAIN entries' PROVE entries'[i].place = op.first + i - 1
      <4>1. CASE i \in 1..n
        BY <1>5, <1>6, <1>7, <4>1
      <4>2. CASE i = n + 1
        BY <1>4, <1>5, <1>7, <1>8, <4>2
      <4> QED
        BY <1>6, <1>7, <4>1, <4>2
    <3> QED
      BY <1>5, <1>9, <3>1, <3>2 DEF CallShape, Forward, Back
  <2>5. EntriesAreChangeable'
    <3>1. Changeable(T)'
      BY <1>2 DEF Changeable
    <3>2. \A i \in 1..n : Changeable(entries[i].tree)'
      BY <1>6 DEF LinkInv, EntriesAreChangeable, Changeable
    <3> QED
      BY <1>6, <1>7, <1>8, <3>1, <3>2 DEF EntriesAreChangeable, Changeable
  <2>6. OwnAreGone'
    BY <1>1 DEF LinkInv, OwnAreGone, Own, Everything, Busy
  <2>7. OneTimerEach' /\ IdleAreWhole' /\ WaitersFindTheirs'
    BY <1>1, FewerTimers, WaitersStillFindTheirs
  <2>8. EntriesKnowWaiters'
    <3> SUFFICES ASSUME NEW i \in DOMAIN entries', NEW t \in timers, Waits(t),
                        t.place = entries'[i].place, t.scope # op.scope
                 PROVE  t.scope # NoSelector /\ entries'[i].tree.filter[t.band] = t.scope
      BY <1>1 DEF EntriesKnowWaiters, Waits
    <3>1. CASE i \in 1..n
      BY <1>6, <1>7, <3>1 DEF LinkInv, EntriesKnowWaiters
    <3>2. CASE i = n + 1
      BY <1>3, <1>7, <1>8, <3>2
    <3> QED
      BY <1>6, <1>7, <3>1, <3>2
  <2>9. ChangesAreHarmless'
    <3> SUFFICES ASSUME NEW t \in timers, Waits(t), t.place = place
                 PROVE  t.scope # NoSelector /\ \A i \in DOMAIN commands' : Harmless(commands'[i], t)
      BY <1>1 DEF ChangesAreHarmless, Waits, Harmless
    <3>1. /\ t.scope # op.scope /\ op.scope # NoSelector /\ t.scope # NoSelector
          /\ t.scope \in Selectors /\ t.band \in Bands /\ T.filter[t.band] = t.scope
      BY <1>3
    <3>2. commands' = ApplySelector(T, op.scope, op.level)
      BY <3>1
    <3> QED
      BY <1>2, <1>4, <3>1, <3>2, OthersAreLeftAlone
  <2>10. SelectorHasItsBand'
    <3> SUFFICES ASSUME op.scope # NoSelector, op.level # 0
                 PROVE  /\ BandFor(T, op.scope) \in Bands
                        /\ \A b \in Bands : tree[place].filter[b] = op.scope => b = BandFor(T, op.scope)
                        /\ \A i \in DOMAIN commands' :
                              /\ commands'[i].do \in {"root", "leaf", "filter"}
                              /\ commands'[i].do = "filter" =>
                                    commands'[i].band = BandFor(T, op.scope) /\ commands'[i].scope = op.scope
      BY <1>7, <1>8 DEF SelectorHasItsBand, OwnBand
    <3>1. /\ BandFor(T, op.scope) \in Bands
          /\ BandsOf(T, op.scope) # {} => BandsOf(T, op.scope) = {BandFor(T, op.scope)}
      BY <1>2, BandForFacts
    <3>2. \A b \in Bands : tree[place].filter[b] = op.scope => b \in BandsOf(T, op.scope)
      BY <1>2 DEF BandsOf
    <3> QED
      BY <2>1, <3>1, <3>2
  <2>11. OnlyTheyFilter'
    BY <2>1 DEF OnlyTheyFilter
  <2>12. ArmedIsThere' /\ RestoresInTurn' /\ NoHalfImpairment' /\ ImpairedAsAsked'
    BY DEF ArmedIsThere, RestoresInTurn, NoHalfImpairment, ImpairedAsAsked
  <2>13. CallKnowsBefore'
    <3> SUFFICES ASSUME ~disturbed
                 PROVE  /\ \A i \in DOMAIN entries' : entries'[i].tree = ReadAs(before[entries'[i].place])
                        /\ \A p \in Devices \ Touched' : ReadAs(tree[p]) = ReadAs(before[p])
      BY <1>1 DEF CallKnowsBefore, Forward, Back
    <3>1. /\ \A i \in DOMAIN entries : entries[i].tree = ReadAs(before[entries[i].place])
          /\ \A p \in Devices \ Touched : ReadAs(tree[p]) = ReadAs(before[p])
      BY DEF LinkInv, CallKnowsBefore, Forward
    <3>2. place \notin Touched
      <4> SUFFICES ASSUME NEW i \in DOMAIN entries, entries[i].place = place PROVE FALSE
        BY DEF Touched
      <4>1. place = op.first + i - 1
        BY <1>5
      <4> QED
        BY <1>4, <1>5, <1>6, <4>1
    <3>3. T = ReadAs(before[place])
      BY <1>4, <3>1, <3>2
    <3>4. Touched \subseteq Touched'
      BY <1>6, <1>7 DEF Touched
    <3> QED
      BY <1>6, <1>7, <1>8, <3>1, <3>3, <3>4
  <2>14. DoneSoFar'
    <3> SUFFICES ASSUME ~disturbed, NEW p \in Devices, op.first <= p, p < place
                 PROVE  LevelAsked(p)' /\ TimersAsked(p)'
      BY <1>1 DEF DoneSoFar
    <3>1. LevelAsked(p) /\ TimersAsked(p)
      BY DEF LinkInv, DoneSoFar, Forward
    <3> QED
      BY <1>1, <3>1, AskedStays
  <2> QED
    BY <2>2, <2>3, <2>4, <2>5, <2>6, <2>7, <2>8, <2>9, <2>10, <2>11, <2>12, <2>13, <2>14 DEF LinkInv
<1> QED
    BY <1>10
(* A call that fails, or goes on, with its trees and timers as they are.   *)
LEMMA FailsKeeps ==
    ASSUME LinkInv, phase \in Forward, Fails, entries' = entries, op' = op, tree' = tree,
           timers' = timers, calls' = calls, linkFaults' \in 0..MaxLinkFaults,
           linkHistory' = linkHistory
    PROVE  LinkInv'
<1>1. /\ before' = before /\ disturbed' = disturbed /\ botched' = botched
      /\ unscanned' = unscanned /\ wiped' = wiped
    BY DEF linkHistory
<1>2. /\ phase' \in {"idle", "unwinding"} /\ place' = place /\ verdict' \in {"none", "done", "failed"}
      /\ commands' = <<>>
      /\ CallShape' /\ EntriesAreChangeable'
      /\ CallKnowsBefore' /\ DoneSoFar' /\ NoHalfImpairment' /\ ImpairedAsAsked'
    BY <1>1, FailsFacts
<1>3. LinkTypeOK'
    BY <1>1, <1>2 DEF LinkInv, LinkTypeOK
<1>4. TreesAreWellFormed'
    BY <1>2 DEF LinkInv, TreesAreWellFormed
<1>5. phase # "restoring"
    BY DEF Forward
<1>6. OneTimerEach' /\ IdleAreWhole' /\ WaitersFindTheirs' /\ EntriesKnowWaiters'
    BY <1>1, <1>5, FewerTimers, WaitersStillFindTheirs, EntriesStillKnow
<1>7. /\ OwnAreGone' /\ ChangesAreHarmless' /\ SelectorHasItsBand' /\ OnlyTheyFilter'
      /\ ArmedIsThere' /\ RestoresInTurn'
    BY <1>2, OnlyAtWork
<1> QED
    BY <1>2, <1>3, <1>4, <1>6, <1>7 DEF LinkInv

LEMMA AdvanceKeeps ==
    ASSUME LinkInv, phase \in {"reading", "changing"}, Advance, op' = op, tree' = tree,
           timers' = timers, calls' = calls, linkFaults' = linkFaults, linkHistory' = linkHistory,
           commands' \in Seq(Orders),
           op.kind = "impair" => phase = "changing" /\ ~Arms,
           op.kind = "impair" /\ ~disturbed => LevelAsked(place)
    PROVE  LinkInv'
<1>1. /\ before' = before /\ disturbed' = disturbed /\ botched' = botched
      /\ unscanned' = unscanned /\ wiped' = wiped
    BY DEF linkHistory
<1>2. op.kind = "impair" /\ ~disturbed =>
          /\ LevelAsked(place)
          /\ place \notin unscanned =>
                {t.stale : t \in {u \in timers' : u.place = place /\ u.scope = op.scope}} =
                (IF Arms THEN {FALSE} ELSE {})
  <2> SUFFICES ASSUME op.kind = "impair", place \notin unscanned
               PROVE  {t.stale : t \in {u \in timers : u.place = place /\ u.scope = op.scope}} = {}
    OBVIOUS
  <2>1. \A t \in timers : ~(t.place = place /\ t.scope = op.scope)
    BY DEF LinkInv, OwnAreGone, Own, Busy
  <2> QED
    BY <2>1
<1>3. /\ phase' \in {"idle", "cancelling"} /\ place' \in Devices
      /\ verdict' \in {"none", "done", "failed"}
      /\ entries' \in Seq([place : Devices, tree : Trees]) /\ Len(entries') <= Placements
      /\ \A i \in DOMAIN entries' : i \in DOMAIN entries /\ entries'[i] = entries[i]
      /\ CallShape' /\ EntriesAreChangeable'
      /\ CallKnowsBefore' /\ DoneSoFar' /\ NoHalfImpairment' /\ ImpairedAsAsked'
    BY <1>1, <1>2, AdvanceFacts
<1>4. LinkTypeOK'
    BY <1>1, <1>3 DEF LinkInv, LinkTypeOK
<1>5. TreesAreWellFormed'
    BY <1>3 DEF LinkInv, TreesAreWellFormed
<1>6. OneTimerEach' /\ IdleAreWhole' /\ WaitersFindTheirs' /\ EntriesKnowWaiters'
    BY <1>1, <1>3, FewerTimers, WaitersStillFindTheirs, EntriesStillKnow
<1>7. /\ OwnAreGone' /\ ChangesAreHarmless' /\ SelectorHasItsBand' /\ OnlyTheyFilter'
      /\ ArmedIsThere' /\ RestoresInTurn'
    BY <1>3, OnlyAtWork
<1> QED
    BY <1>3, <1>4, <1>5, <1>6, <1>7 DEF LinkInv

(* A repair clears its selector, or everything once no timer is left.      *)
LEMMA ClearKeeps ==
    ASSUME LinkInv, phase = "reading", op.kind = "repair",
           NEW T, T = ReadAs(tree[place]), ~Refused(T),
           commands' = (IF op.scope # NoSelector THEN ClearSelector(T, op.scope)
                        ELSE IF T = Clean THEN <<>> ELSE <<DeleteRoot>>),
           IF commands' = <<>> THEN Advance
           ELSE phase' = "changing" /\ UNCHANGED <<place, entries, verdict>>,
           tree' = tree, timers' = timers, op' = op, calls' = calls,
           linkFaults' = linkFaults, linkHistory' = linkHistory
    PROVE  LinkInv'
<1>1. /\ before' = before /\ disturbed' = disturbed /\ botched' = botched
      /\ unscanned' = unscanned /\ wiped' = wiped
    BY DEF linkHistory
<1>2. /\ T \in Trees /\ WellFormed(T) /\ ReadAs(T) = T /\ Kind(T) # "foreign"
      /\ op.scope # NoSelector => op.scope \in Selectors /\ Kind(T) \in {"clean", "scoped"}
    BY ReadFacts
<1>3. ASSUME NEW t \in timers, Waits(t), t.place = place
      PROVE  /\ t.scope # op.scope /\ op.scope # NoSelector /\ t.scope # NoSelector
             /\ t.scope \in Selectors /\ t.band \in Bands /\ T.filter[t.band] = t.scope
    BY <1>3, ReadFacts
<1>4. entries = <<>>
    BY DEF LinkInv, CallShape
<1>5. commands' \in Seq(Orders) /\ \A i \in DOMAIN commands' : commands'[i].do # "filter"
  <2>1. CASE op.scope # NoSelector
    <3>1. commands' = ClearSelector(T, op.scope)
      BY <2>1
    <3> QED
      BY <1>2, <2>1, <3>1, ClearSelectorFacts
  <2>2. CASE op.scope = NoSelector /\ T = Clean
    <3>1. commands' = <<>>
      BY <2>2
    <3>2. <<>> \in Seq(Orders) /\ DOMAIN <<>> = {}
      OBVIOUS
    <3> QED
      BY <3>1, <3>2, Zenon
  <2>3. CASE op.scope = NoSelector /\ T # Clean
    <3>1. commands' = <<DeleteRoot>>
      BY <2>3
    <3>2. 0 \in Levels
      BY ScopeFacts
    <3> QED
      BY <3>1, <3>2, WholeCommands
  <2> QED
    BY <2>1, <2>2, <2>3
<1>6. CASE commands' = <<>>
  <2>1. Advance
    BY <1>6
  <2> QED
    BY <1>5, <2>1, AdvanceKeeps
<1>7. CASE commands' # <<>>
  <2>1. phase' = "changing" /\ place' = place /\ entries' = entries /\ verdict' = verdict
    BY <1>7
  <2>2. LinkTypeOK'
    BY <1>1, <2>1 DEF LinkInv, LinkTypeOK
  <2>3. TreesAreWellFormed'
    BY <1>5, <2>1 DEF LinkInv, TreesAreWellFormed
  <2>4. CallShape'
    BY <1>4, <2>1 DEF LinkInv, CallShape, Forward, Back
  <2>5. OneTimerEach' /\ IdleAreWhole' /\ WaitersFindTheirs' /\ EntriesKnowWaiters' /\ EntriesAreChangeable'
    BY <1>1, <2>1, FewerTimers, WaitersStillFindTheirs, EntriesStillKnow
  <2>6. OwnAreGone'
    BY <1>1, <2>1 DEF LinkInv, OwnAreGone, Own, Everything, Busy
  <2>7. ChangesAreHarmless'
    <3> SUFFICES ASSUME NEW t \in timers, Waits(t), t.place = place
                 PROVE  t.scope # NoSelector /\ \A i \in DOMAIN commands' : Harmless(commands'[i], t)
      BY <1>1, <2>1 DEF ChangesAreHarmless, Waits, Harmless
    <3>1. /\ t.scope # op.scope /\ op.scope # NoSelector /\ t.scope # NoSelector
          /\ t.scope \in Selectors /\ t.band \in Bands /\ T.filter[t.band] = t.scope
      BY <1>3
    <3>2. commands' = ClearSelector(T, op.scope) /\ 0 \in Levels
      BY <3>1, ScopeFacts
    <3> QED
      BY <1>2, <3>1, <3>2, OthersAreLeftAlone
  <2>8. SelectorHasItsBand' /\ OnlyTheyFilter' /\ ArmedIsThere' /\ RestoresInTurn'
    BY <1>5, <2>1 DEF SelectorHasItsBand, OnlyTheyFilter, ArmedIsThere, RestoresInTurn
  <2>9. CallKnowsBefore' /\ DoneSoFar' /\ NoHalfImpairment' /\ ImpairedAsAsked'
    BY <2>1 DEF CallKnowsBefore, DoneSoFar, NoHalfImpairment, ImpairedAsAsked
  <2> QED
    BY <2>2, <2>3, <2>4, <2>5, <2>6, <2>7, <2>8, <2>9 DEF LinkInv
<1> QED
    BY <1>6, <1>7

LEMMA ReadStateKeeps ==
    ASSUME LinkInv, ReadState
    PROVE  LinkInv'
<1>1. PICK T : T = ReadAs(tree[place])
    OBVIOUS
<1>2. /\ phase = "reading" /\ tree' = tree /\ timers' = timers /\ op' = op /\ calls' = calls
      /\ linkFaults' = linkFaults /\ linkHistory' = linkHistory
    BY DEF ReadState
<1>3. \/ entries' = entries /\ Fails
      \/ /\ ~Refused(T) /\ op.kind = "impair" /\ entries' = Append(entries, Entry(T))
         /\ commands' = (IF op.scope = NoSelector THEN ApplyOrClear(op.level)
                         ELSE ApplySelector(T, op.scope, op.level))
         /\ phase' = "changing" /\ place' = place /\ verdict' = verdict
      \/ /\ ~Refused(T) /\ op.kind = "repair"
         /\ commands' = (IF op.scope # NoSelector THEN ClearSelector(T, op.scope)
                         ELSE IF T = Clean THEN <<>> ELSE <<DeleteRoot>>)
         /\ IF commands' = <<>> THEN Advance
            ELSE phase' = "changing" /\ UNCHANGED <<place, entries, verdict>>
    BY <1>1 DEF ReadState
<1>4. CASE entries' = entries /\ Fails
  <2>1. phase \in Forward /\ linkFaults' \in 0..MaxLinkFaults
    BY <1>2 DEF Forward, LinkInv, LinkTypeOK
  <2> QED
    BY <1>2, <1>4, <2>1, FailsKeeps
<1>5. CASE /\ ~Refused(T) /\ op.kind = "impair" /\ entries' = Append(entries, Entry(T))
           /\ commands' = (IF op.scope = NoSelector THEN ApplyOrClear(op.level)
                           ELSE ApplySelector(T, op.scope, op.level))
           /\ phase' = "changing" /\ place' = place /\ verdict' = verdict
    BY <1>1, <1>2, <1>5, RegisterKeeps
<1>6. CASE /\ ~Refused(T) /\ op.kind = "repair"
           /\ commands' = (IF op.scope # NoSelector THEN ClearSelector(T, op.scope)
                           ELSE IF T = Clean THEN <<>> ELSE <<DeleteRoot>>)
           /\ IF commands' = <<>> THEN Advance
              ELSE phase' = "changing" /\ UNCHANGED <<place, entries, verdict>>
    BY <1>1, <1>2, <1>6, ClearKeeps
<1> QED
    BY <1>3, <1>4, <1>5, <1>6
(* What is verified is what was asked.                                     *)
LEMMA ExpectedIsAsked ==
    ASSUME LinkInv, phase = "changing", op.kind = "impair", Expected
    PROVE  /\ LevelAsked(place)
           /\ op.scope = NoSelector /\ op.level # 0 => tree[place].root = "whole"
           /\ op.scope # NoSelector /\ op.level # 0 => tree[place].filter[OwnBand] = op.scope
<1> DEFINE T == tree[place]
<1>1. WellFormed(T)
    BY DEF LinkInv, TreesAreWellFormed, LinkTypeOK
<1>2. CASE op.scope = NoSelector
  <2>1. op.level = (IF Kind(T) = "whole" THEN T.level ELSE 0)
    BY <1>2 DEF Expected
  <2>2. op.level # 0 => T.root = "whole"
    <3> HIDE DEF T
    <3> QED
      BY <1>1, <2>1, KindFacts
  <2> QED
    BY <1>2, <2>1, <2>2 DEF LevelAsked
<1>3. CASE op.scope # NoSelector
  <2> DEFINE others == {sl \in SelectorLevels(Last(entries).tree) : sl[1] # op.scope}
             mine == IF op.level = 0 THEN {} ELSE {<<op.scope, op.level>>}
  <2>1. SelectorLevels(T) = others \cup mine
    BY <1>3 DEF Expected
  <2>2. \A sl \in mine : sl[1] = op.scope
    OBVIOUS
  <2>3. {sl \in SelectorLevels(T) : sl[1] = op.scope} = mine
    <3> HIDE DEF mine, T
    <3> QED
      BY <2>1, <2>2
  <2>4. LevelAsked(place)
    BY <1>3, <2>3 DEF LevelAsked
  <2>5. ASSUME op.level # 0 PROVE T.filter[OwnBand] = op.scope
    <3>1. <<op.scope, op.level>> \in SelectorLevels(T)
      BY <2>1, <2>5
    <3>2. PICK b \in Bands : T.filter[b] = op.scope
      BY <3>1 DEF SelectorLevels, Filtered
    <3>3. b = OwnBand
      BY <1>3, <2>5, <3>2 DEF LinkInv, SelectorHasItsBand
    <3> QED
      BY <3>2, <3>3
  <2> QED
    BY <1>3, <2>4, <2>5
<1> QED
    BY <1>2, <1>3

LEMMA VerifyKeeps ==
    ASSUME LinkInv, Verify
    PROVE  LinkInv'
<1>1. /\ phase = "changing" /\ tree' = tree /\ timers' = timers /\ op' = op /\ calls' = calls
      /\ linkFaults' = linkFaults /\ linkHistory' = linkHistory
    BY DEF Verify
<1>2. /\ before' = before /\ disturbed' = disturbed /\ botched' = botched
      /\ unscanned' = unscanned /\ wiped' = wiped
    BY <1>1 DEF linkHistory
<1>3. \/ Expected /\ Arms /\ phase' = "arming" /\ place' = place /\ entries' = entries
         /\ verdict' = verdict /\ commands' = commands
      \/ Expected /\ ~Arms /\ Advance /\ commands' = commands
      \/ entries' = entries /\ Fails
    BY DEF Verify
<1>4. CASE Expected /\ Arms /\ phase' = "arming" /\ place' = place /\ entries' = entries
           /\ verdict' = verdict /\ commands' = commands
  <2>1. op.kind = "impair"
    BY <1>4 DEF Arms
  <2>2. /\ LevelAsked(place)
        /\ op.scope = NoSelector /\ op.level # 0 => tree[place].root = "whole"
        /\ op.scope # NoSelector /\ op.level # 0 => tree[place].filter[OwnBand] = op.scope
    BY <1>1, <1>4, <2>1, ExpectedIsAsked
  <2>3. LinkTypeOK'
    BY <1>1, <1>2, <1>4 DEF LinkInv, LinkTypeOK
  <2>4. TreesAreWellFormed'
    BY <1>1, <1>4 DEF LinkInv, TreesAreWellFormed
  <2>5. CallShape'
    BY <1>1, <1>4 DEF LinkInv, CallShape, Forward, Back, Arms
  <2>6. OneTimerEach' /\ IdleAreWhole' /\ WaitersFindTheirs' /\ EntriesKnowWaiters' /\ EntriesAreChangeable'
    BY <1>1, <1>2, <1>4, FewerTimers, WaitersStillFindTheirs, EntriesStillKnow
  <2>7. OwnAreGone'
    BY <1>1, <1>2, <1>4 DEF LinkInv, OwnAreGone, Own, Everything, Busy
  <2>8. ChangesAreHarmless' /\ OnlyTheyFilter' /\ RestoresInTurn'
    BY <1>4 DEF ChangesAreHarmless, OnlyTheyFilter, RestoresInTurn
  <2>9. SelectorHasItsBand'
    BY <1>1, <1>4 DEF LinkInv, SelectorHasItsBand, OwnBand
  <2>10. ArmedIsThere'
    BY <1>1, <1>4, <2>2 DEF ArmedIsThere, OwnBand
  <2>11. CallKnowsBefore'
    BY <1>1, <1>2, <1>4 DEF LinkInv, CallKnowsBefore, Touched, Forward, Back
  <2>12. DoneSoFar'
    <3>1. ASSUME ~disturbed, NEW p \in Devices, op.first <= p, p < place
          PROVE  LevelAsked(p)' /\ TimersAsked(p)'
      <4>1. LevelAsked(p) /\ TimersAsked(p)
        BY <1>1, <2>1, <3>1 DEF LinkInv, DoneSoFar, Forward
      <4> QED
        BY <1>1, <1>2, <4>1, AskedStays
    <3>2. LevelAsked(place)'
      BY <1>1, <1>4, <2>2 DEF LevelAsked
    <3> QED
      BY <1>1, <1>2, <1>4, <3>1, <3>2 DEF DoneSoFar
  <2>13. NoHalfImpairment' /\ ImpairedAsAsked'
    BY <1>4 DEF NoHalfImpairment, ImpairedAsAsked
  <2> QED
    BY <2>3, <2>4, <2>5, <2>6, <2>7, <2>8, <2>9, <2>10, <2>11, <2>12, <2>13 DEF LinkInv
<1>5. CASE Expected /\ ~Arms /\ Advance /\ commands' = commands
  <2>1. op.kind = "impair" => LevelAsked(place)
    BY <1>1, <1>5, ExpectedIsAsked
  <2>2. commands' \in Seq(Orders)
    BY <1>5 DEF LinkInv, TreesAreWellFormed
  <2> QED
    BY <1>1, <1>5, <2>1, <2>2, AdvanceKeeps
<1>6. CASE entries' = entries /\ Fails
  <2>1. phase \in Forward /\ linkFaults' \in 0..MaxLinkFaults
    BY <1>1 DEF Forward, LinkInv, LinkTypeOK
  <2> QED
    BY <1>1, <1>6, <2>1, FailsKeeps
<1> QED
    BY <1>3, <1>4, <1>5, <1>6

LEMMA ArmKeeps ==
    ASSUME LinkInv, Arm
    PROVE  LinkInv'
<1>1. /\ phase = "arming" /\ timers' = Launched /\ Advance
      /\ tree' = tree /\ op' = op /\ commands' = commands /\ calls' = calls
      /\ linkFaults' = linkFaults /\ before' = before /\ disturbed' = disturbed
      /\ botched' = botched /\ unscanned' = unscanned /\ wiped' = wiped
    BY DEF Arm, linkHistory
<1>2. /\ timers' \in SUBSET Timers
      /\ OneTimerEach' /\ IdleAreWhole' /\ WaitersFindTheirs'
      /\ (\A i \in DOMAIN entries' : i \in DOMAIN entries /\ entries'[i] = entries[i]) =>
            EntriesKnowWaiters'
      /\ \A p \in Devices : p # place =>
            {u \in timers' : u.place = p} = {t \in timers : t.place = p}
      /\ place \notin unscanned =>
            /\ {u \in timers' : u.place = place /\ u.scope = op.scope} # {}
            /\ \A u \in timers' : u.place = place /\ u.scope = op.scope => ~u.stale
    BY <1>1, LaunchFacts
<1>3. Arms
    BY <1>1 DEF LinkInv, CallShape
<1>4. op.kind = "impair" /\ ~disturbed =>
          /\ LevelAsked(place)
          /\ place \notin unscanned =>
                {t.stale : t \in {u \in timers' : u.place = place /\ u.scope = op.scope}} =
                (IF Arms THEN {FALSE} ELSE {})
  <2>1. op.kind = "impair" /\ ~disturbed => LevelAsked(place)
    BY <1>1 DEF LinkInv, DoneSoFar
  <2>2. ASSUME place \notin unscanned
        PROVE  {t.stale : t \in {u \in timers' : u.place = place /\ u.scope = op.scope}} = {FALSE}
    <3> DEFINE own == {u \in timers' : u.place = place /\ u.scope = op.scope}
    <3>1. own # {} /\ \A u \in own : u \in Timers /\ ~u.stale
      BY <1>2, <2>2
    <3> HIDE DEF own
    <3>2. \A u \in own : u.stale = FALSE
      BY <3>1 DEF Timers
    <3>3. {t.stale : t \in own} = {FALSE}
      BY <3>1, <3>2
    <3> QED
      BY <3>3 DEF own
  <2> QED
    BY <1>3, <2>1, <2>2
<1>5. /\ phase' \in {"idle", "cancelling"} /\ place' \in Devices
      /\ verdict' \in {"none", "done", "failed"}
      /\ entries' \in Seq([place : Devices, tree : Trees]) /\ Len(entries') <= Placements
      /\ \A i \in DOMAIN entries' : i \in DOMAIN entries /\ entries'[i] = entries[i]
      /\ CallShape' /\ EntriesAreChangeable'
      /\ CallKnowsBefore' /\ DoneSoFar' /\ NoHalfImpairment' /\ ImpairedAsAsked'
    BY <1>1, <1>2, <1>4, AdvanceFacts
<1>6. LinkTypeOK'
    BY <1>1, <1>2, <1>5 DEF LinkInv, LinkTypeOK
<1>7. TreesAreWellFormed'
    BY <1>1, <1>5 DEF LinkInv, TreesAreWellFormed
<1>8. /\ OwnAreGone' /\ ChangesAreHarmless' /\ SelectorHasItsBand' /\ OnlyTheyFilter'
      /\ ArmedIsThere' /\ RestoresInTurn'
    BY <1>5, OnlyAtWork
<1> QED
    BY <1>2, <1>5, <1>6, <1>7, <1>8 DEF LinkInv

LEMMA BreaksKeeps ==
    ASSUME LinkInv, Breaks
    PROVE  LinkInv'
<1>1. /\ phase \in Forward /\ phase \in {"cancelling", "reading", "changing", "arming"}
      /\ linkFaults < MaxLinkFaults /\ linkFaults' = linkFaults + 1
      /\ entries' = entries /\ Fails
      /\ op' = op /\ calls' = calls /\ before' = before /\ disturbed' = disturbed
      /\ botched' = botched /\ unscanned' = unscanned /\ wiped' = wiped
    BY DEF Breaks, Forward
<1>2. \/ tree' = tree /\ timers' = timers
      \/ phase = "changing" /\ commands # <<>> /\ Runs(Head(commands))
      \/ phase = "arming" /\ timers' = Launched /\ tree' = tree
    BY DEF Breaks
<1>3. linkFaults' \in 0..MaxLinkFaults
    BY <1>1, LinkAssumption DEF LinkInv, LinkTypeOK
<1>4. CASE tree' = tree /\ timers' = timers
  <2>1. linkHistory' = linkHistory
    BY <1>1 DEF linkHistory
  <2> QED
    BY <1>1, <1>3, <1>4, <2>1, FailsKeeps
<1>5. ASSUME op.kind = "impair" => \A p \in Devices \ Touched : tree'[p] = tree[p],
             tree' \in [Devices -> Trees], \A p \in Devices : WellFormed(tree[p])',
             timers' \in SUBSET Timers, OneTimerEach', IdleAreWhole', WaitersFindTheirs',
             EntriesKnowWaiters'
      PROVE  LinkInv'
  <2>1. /\ phase' \in {"idle", "unwinding"} /\ place' = place /\ verdict' \in {"none", "done", "failed"}
        /\ commands' = <<>>
        /\ CallShape' /\ EntriesAreChangeable'
        /\ CallKnowsBefore' /\ DoneSoFar' /\ NoHalfImpairment' /\ ImpairedAsAsked'
    BY <1>1, <1>5, FailsFacts
  <2>2. LinkTypeOK'
    BY <1>1, <1>3, <1>5, <2>1 DEF LinkInv, LinkTypeOK
  <2>3. TreesAreWellFormed'
    BY <1>1, <1>5, <2>1 DEF LinkInv, TreesAreWellFormed
  <2>4. /\ OwnAreGone' /\ ChangesAreHarmless' /\ SelectorHasItsBand' /\ OnlyTheyFilter'
        /\ ArmedIsThere' /\ RestoresInTurn'
    BY <2>1, OnlyAtWork
  <2> QED
    BY <1>5, <2>1, <2>2, <2>3, <2>4 DEF LinkInv
<1>6. CASE phase = "changing" /\ commands # <<>> /\ Runs(Head(commands))
  <2>1. /\ timers' \in SUBSET Timers /\ OneTimerEach' /\ IdleAreWhole'
        /\ \A u \in timers' : Waits(u)' => u \in timers /\ Waits(u)
    BY <1>1, <1>6, RunsFacts
  <2>2. /\ \A p \in Devices : WellFormed(tree[p])'
        /\ tree' \in [Devices -> Trees]
        /\ \A p \in Devices : p # place => tree'[p] = tree[p]
        /\ WaitersFindTheirs'
    BY <1>1, <1>6, RunsSparesWaiters
  <2>3. op.kind = "impair" => \A p \in Devices \ Touched : tree'[p] = tree[p]
    BY <1>6, <2>2, PlaceIsTouched
  <2>4. EntriesKnowWaiters'
    BY <1>1, <2>1 DEF LinkInv, EntriesKnowWaiters
  <2> QED
    BY <1>5, <2>1, <2>2, <2>3, <2>4
<1>7. CASE phase = "arming" /\ timers' = Launched /\ tree' = tree
  <2>1. /\ timers' \in SUBSET Timers
        /\ OneTimerEach' /\ IdleAreWhole' /\ WaitersFindTheirs' /\ EntriesKnowWaiters'
    BY <1>1, <1>7, LaunchFacts
  <2>2. tree' \in [Devices -> Trees] /\ \A p \in Devices : WellFormed(tree[p])'
    BY <1>7 DEF LinkInv, LinkTypeOK, TreesAreWellFormed
  <2> QED
    BY <1>5, <1>7, <2>1, <2>2
<1> QED
    BY <1>2, <1>4, <1>6, <1>7
(* The command a restoration has come to after k of them.                  *)
PutsBack(c, E, bands, k) ==
    /\ k = 0 => c.do \in {"whole", "delete root"}
    /\ k = 1 => c.do = "root"
    /\ k > 1 => \E i \in DOMAIN bands :
          \/ k = 2 * i /\ c.do = "leaf"
          \/ k = 2 * i + 1 /\ c.do = "filter" /\ c.band = bands[i] /\ c.scope = E.filter[bands[i]]

LEMMA PutsBackFacts ==
    ASSUME NEW c, NEW E, NEW bands
    PROVE  /\ c.do \in {"whole", "delete root"} => PutsBack(c, E, bands, 0)
           /\ c.do = "root" => PutsBack(c, E, bands, 1)
           /\ \A k \in Nat : \A i \in DOMAIN bands :
                 k > 1 /\ k = 2 * i /\ c.do = "leaf" => PutsBack(c, E, bands, k)
           /\ \A k \in Nat : \A i \in DOMAIN bands :
                 k > 1 /\ k = 2 * i + 1 /\ c.do = "filter" /\ c.band = bands[i] /\ c.scope = E.filter[bands[i]]
                 => PutsBack(c, E, bands, k)
<1>1. c.do \in {"whole", "delete root"} => PutsBack(c, E, bands, 0)
  <2>1. 0 # 1 /\ ~(0 > 1)
    OBVIOUS
  <2> QED
    BY <2>1, Zenon DEF PutsBack
<1>2. c.do = "root" => PutsBack(c, E, bands, 1)
  <2>1. 1 # 0 /\ ~(1 > 1)
    OBVIOUS
  <2> QED
    BY <2>1, Zenon DEF PutsBack
<1>3. ASSUME NEW k \in Nat, NEW i \in DOMAIN bands, k > 1, k = 2 * i, c.do = "leaf"
      PROVE  PutsBack(c, E, bands, k)
    BY <1>3 DEF PutsBack
<1>4. ASSUME NEW k \in Nat, NEW i \in DOMAIN bands, k > 1, k = 2 * i + 1, c.do = "filter",
             c.band = bands[i], c.scope = E.filter[bands[i]]
      PROVE  PutsBack(c, E, bands, k)
    BY <1>4 DEF PutsBack
<1> QED
    BY <1>1, <1>2, <1>3, <1>4

LEMMA RestoreHead ==
    ASSUME LinkInv, phase = "restoring", commands # <<>>, NEW E, E = Last(entries).tree,
           NEW bands, bands = SetToSeq(Filtered(E)),
           NEW k \in 0..Len(Restore(E)), RestoredTo(k), NEW c, c = Head(commands)
    PROVE  /\ k \in Nat /\ k < Len(Restore(E)) /\ Len(Restore(E)) \in Nat /\ c = Restore(E)[k + 1]
           /\ DOMAIN bands \subseteq Nat /\ \A i \in DOMAIN bands : i > 0 /\ bands[i] \in Bands
           /\ \A i, j \in DOMAIN bands : bands[i] = bands[j] => i = j
           /\ PutsBack(c, E, bands, k)
<1>1. Changeable(E)
    BY RestoringFacts
<1>2. /\ WellFormed(E) /\ E.filter \in [Bands -> Scopes] /\ E.leaf \in [Bands -> Levels]
      /\ E.level \in Levels /\ Kind(E) \in {"clean", "whole", "scoped"}
    BY <1>1, KindFacts DEF Changeable, WellFormed, Trees
<1>3. Filtered(E) \in SUBSET Bands
    BY DEF Filtered
<1>4. /\ Len(bands) \in Nat /\ DOMAIN bands = 1..Len(bands)
      /\ \A i \in DOMAIN bands : bands[i] \in Bands
      /\ \A i, j \in DOMAIN bands : bands[i] = bands[j] => i = j
    BY <1>3, BandsInTurn
<1>5. /\ Len(commands) = Len(Restore(E)) - k
      /\ \A i \in DOMAIN commands : commands[i] = Restore(E)[k + i]
    BY DEF RestoredTo
<1>6. /\ Len(commands) \in Nat /\ Len(commands) > 0 /\ c = commands[1] /\ 1 \in DOMAIN commands
    BY TailFacts DEF LinkInv, TreesAreWellFormed
<1>7. Restore(E) \in Seq(Orders) /\ Len(Restore(E)) \in Nat
  <2>1. Restore(E) \in Seq(Orders)
    BY <1>1, RestoreFacts
  <2> QED
    BY <2>1, LenProperties
<1>8. k \in Nat /\ k < Len(Restore(E)) /\ c = Restore(E)[k + 1]
    BY <1>5, <1>6, <1>7
<1>a. DOMAIN bands \subseteq Nat /\ \A i \in DOMAIN bands : i > 0
    BY <1>4
<1> SUFFICES PutsBack(c, E, bands, k)
    BY <1>4, <1>7, <1>8, <1>a
<1>9. CASE Kind(E) = "whole"
  <2>1. Restore(E) = <<Whole(E.level)>>
    BY <1>1, <1>9, RestoreFacts
  <2>2. Len(Restore(E)) = 1 /\ Restore(E)[1] = Whole(E.level)
    BY <2>1
  <2>3. k = 0
    BY <1>8, <2>2
  <2>4. c = Whole(E.level)
    BY <1>8, <2>2, <2>3
  <2>5. c.do = "whole"
    BY <1>2, <2>4, WholeIsCommand
  <2> QED
    BY <1>9, <2>2, <2>3, <2>5, PutsBackFacts
<1>10. CASE Kind(E) = "clean"
  <2>1. Restore(E) = <<DeleteRoot>>
    BY <1>1, <1>10, RestoreFacts
  <2>2. Len(Restore(E)) = 1 /\ Restore(E)[1] = DeleteRoot
    BY <2>1
  <2>3. k = 0
    BY <1>8, <2>2
  <2>4. c = DeleteRoot
    BY <1>8, <2>2, <2>3
  <2> QED
    BY <1>10, <2>2, <2>3, <2>4, RootIsCommand, PutsBackFacts
<1>11. CASE Kind(E) = "scoped"
  <2>1. Restore(E)[1] = DeleteRoot /\ Restore(E)[2] = Root
    BY <1>1, <1>11, RestoreFacts
  <2>2. CASE k = 0
    <3>1. c = DeleteRoot
      BY <1>8, <2>1, <2>2
    <3> QED
      BY <2>2, <3>1, RootIsCommand, PutsBackFacts
  <2>3. CASE k = 1
    <3>1. c = Root
      BY <1>8, <2>1, <2>3
    <3> QED
      BY <2>3, <3>1, RootIsCommand, PutsBackFacts
  <2>4. CASE k > 1
    <3>1. PICK i \in DOMAIN bands :
             \/ k + 1 = 2 * i + 1 /\ c = Leaf(bands[i], E.filter[bands[i]], E.leaf[bands[i]])
             \/ k + 1 = 2 * i + 2 /\ c = Filter(bands[i], E.filter[bands[i]])
      <4>1. k + 1 \in 3..Len(Restore(E))
        BY <1>7, <1>8, <2>4
      <4> QED
        BY <1>1, <1>8, <1>11, <4>1, RestoreFacts
    <3>2. bands[i] \in Bands /\ E.filter[bands[i]] \in Scopes /\ E.leaf[bands[i]] \in Levels /\ i \in Nat
      BY <1>2, <1>4
    <3>3. CASE k + 1 = 2 * i + 1 /\ c = Leaf(bands[i], E.filter[bands[i]], E.leaf[bands[i]])
      <4>1. c.do = "leaf"
        BY <3>2, <3>3, LeafIsCommand
      <4>2. k = 2 * i
        BY <1>8, <3>2, <3>3
      <4> QED
        BY <1>8, <2>4, <4>1, <4>2, PutsBackFacts
    <3>4. CASE k + 1 = 2 * i + 2 /\ c = Filter(bands[i], E.filter[bands[i]])
      <4>1. c.do = "filter" /\ c.band = bands[i] /\ c.scope = E.filter[bands[i]]
        BY <3>2, <3>4, FilterIsCommand
      <4>2. k = 2 * i + 1
        BY <1>8, <3>2, <3>4
      <4> QED
        BY <1>8, <2>4, <4>1, <4>2, PutsBackFacts
    <3> QED
      BY <3>1, <3>3, <3>4
  <2> QED
    BY <1>8, <2>2, <2>3, <2>4
<1> QED
    BY <1>2, <1>9, <1>10, <1>11

LEMMA RestoreGoesOn ==
    ASSUME LinkInv, phase = "restoring", commands # <<>>, Runs(Head(commands)),
           commands' = Tail(commands), phase' = phase, place' = place, entries' = entries,
           unscanned' = unscanned, botched' = botched, wiped' = wiped, disturbed' = disturbed
    PROVE  RestoresInTurn'
<1>1. PICK E, bands, c, T, U : /\ E = Last(entries).tree /\ bands = SetToSeq(Filtered(E))
                               /\ c = Head(commands) /\ T = tree[place] /\ U = Effect(T, c)
    OBVIOUS
<1>2. PICK k \in 0..Len(Restore(E)) : RestoredTo(k)
    BY <1>1 DEF LinkInv, RestoresInTurn
<1>3. /\ k \in Nat /\ k < Len(Restore(E)) /\ Len(Restore(E)) \in Nat /\ c = Restore(E)[k + 1]
      /\ DOMAIN bands \subseteq Nat /\ \A i \in DOMAIN bands : i > 0 /\ bands[i] \in Bands
      /\ \A i, j \in DOMAIN bands : bands[i] = bands[j] => i = j
      /\ PutsBack(c, E, bands, k)
    BY <1>1, <1>2, RestoreHead
<1>a. /\ k = 0 => c.do \in {"whole", "delete root"}
      /\ k = 1 => c.do = "root"
      /\ k > 1 => \E i \in DOMAIN bands :
            \/ k = 2 * i /\ c.do = "leaf"
            \/ k = 2 * i + 1 /\ c.do = "filter" /\ c.band = bands[i] /\ c.scope = E.filter[bands[i]]
  <2>1. PutsBack(c, E, bands, k)
    BY <1>3
  <2> QED
    BY <2>1 DEF PutsBack
<1>4. /\ Len(commands) = Len(Restore(E)) - k
      /\ \A i \in DOMAIN commands : commands[i] = Restore(E)[k + i]
      /\ k > 0 => \A b \in Bands : T.filter[b] \in {NoSelector, E.filter[b]}
      /\ k > 0 /\ ~disturbed => T = PutBack(E, k)
      /\ \A t \in timers : Waits(t) /\ t.place = place =>
            /\ k = 0 => T.filter[t.band] = t.scope
            /\ k > 1 => T.root = "scoped"
            /\ \A i \in DOMAIN bands : bands[i] = t.band /\ 2 * i + 2 <= k => T.filter[t.band] = t.scope
    BY <1>1, <1>2 DEF RestoredTo
<1>5. /\ WellFormed(T) /\ c \in Orders /\ tree'[place] = U /\ Changeable(E)
    BY <1>1, HeadIsFine, RunsSparesWaiters, RestoringFacts
<1>6. /\ c.do \in {"leaf", "delete leaf", "filter", "delete filter"} => U.root = T.root
      /\ c.do = "root" => U.root = "scoped"
      /\ c.do \in {"leaf", "delete leaf"} => U.filter = T.filter
      /\ c.do = "root" /\ T.root = "scoped" => U = T
      /\ c.do = "filter" /\ T.root = "scoped" =>
            \A b \in Bands : U.filter[b] = IF b = c.band THEN c.scope ELSE T.filter[b]
      /\ c.do = "filter" /\ T.root # "scoped" => U = T
      /\ c.do \in {"whole", "delete root"} \/ (c.do = "root" /\ T.root # "scoped") =>
            \A b \in Bands : U.filter[b] = NoSelector
  <2>1. U = Effect(T, c)
    BY <1>1
  <2>2. Follows(T, c, U)
    BY <1>5, <2>1, EffectFollows
  <2> QED
    BY <2>2 DEF Follows
<1>7. /\ Len(commands') = Len(Restore(E)) - (k + 1)
      /\ \A i \in DOMAIN commands' : commands'[i] = Restore(E)[(k + 1) + i]
  <2>1. /\ commands \in Seq(Orders)
        /\ Len(commands') = Len(commands) - 1 /\ Len(commands) \in Nat
        /\ \A i \in DOMAIN commands' : i \in Nat /\ i + 1 \in DOMAIN commands /\ commands'[i] = commands[i + 1]
    BY TailFacts DEF LinkInv, TreesAreWellFormed
  <2>2. \A i \in DOMAIN commands' : k + (i + 1) = (k + 1) + i
    BY <1>3, <2>1
  <2>3. \A i \in DOMAIN commands' : commands'[i] = Restore(E)[k + (i + 1)]
    BY <1>4, <2>1
  <2> QED
    BY <1>3, <1>4, <2>1, <2>2, <2>3
<1>8. \A b \in Bands : U.filter[b] \in {NoSelector, E.filter[b]}
  <2>1. CASE k = 0
    BY <1>a, <1>6, <2>1
  <2>2. CASE k = 1
    <3>1. c.do = "root"
      BY <1>a, <2>2
    <3> QED
      BY <1>4, <1>6, <2>2, <3>1
  <2>3. CASE k > 1
    <3>1. \A b \in Bands : T.filter[b] \in {NoSelector, E.filter[b]}
      BY <1>4, <2>3
    <3>2. PICK i \in DOMAIN bands :
             \/ c.do = "leaf"
             \/ c.do = "filter" /\ c.band = bands[i] /\ c.scope = E.filter[bands[i]]
      BY <1>a, <2>3
    <3> QED
      BY <1>6, <3>1, <3>2
  <2> QED
    BY <1>3, <2>1, <2>2, <2>3
<1>9. ~disturbed => U = PutBack(E, k + 1)
  <2>1. U = Effect(T, c)
    BY <1>1
  <2>2. ~disturbed => Effect(T, Restore(E)[k + 1]) = PutBack(E, k + 1)
    <3> SUFFICES ASSUME ~disturbed
                 PROVE  Effect(T, Restore(E)[k + 1]) = PutBack(E, k + 1)
      OBVIOUS
    <3>1. k \in Nat /\ k < Len(Restore(E))
      BY <1>3
    <3>2. k > 0 => T = PutBack(E, k)
      BY <1>4
    <3>3. Changeable(E)
      BY <1>5
    <3> QED
      BY <3>1, <3>2, <3>3, PutBackStep
  <2> QED
    BY <1>3, <2>1, <2>2
<1>10. ASSUME NEW t \in timers, Waits(t), t.place = place
       PROVE  /\ k + 1 > 1 => U.root = "scoped"
              /\ \A i \in DOMAIN bands : bands[i] = t.band /\ 2 * i + 2 <= k + 1 => U.filter[t.band] = t.scope
  <2>1. t.band \in Bands /\ E.filter[t.band] = t.scope
    BY <1>1, <1>10, RestoringFacts DEF LinkInv, LinkTypeOK, Timers
  <2>2. CASE k = 0
    BY <1>3, <2>2
  <2>3. CASE k = 1
    <3>1. c.do = "root"
      BY <1>a, <2>3
    <3>2. \A i \in DOMAIN bands : ~(2 * i + 2 <= k + 1)
      BY <1>3, <2>3
    <3> QED
      BY <1>6, <3>1, <3>2
  <2>4. CASE k > 1
    <3>1. T.root = "scoped"
      BY <1>4, <1>10, <2>4
    <3>2. PICK j \in DOMAIN bands :
             \/ k = 2 * j /\ c.do = "leaf"
             \/ k = 2 * j + 1 /\ c.do = "filter" /\ c.band = bands[j] /\ c.scope = E.filter[bands[j]]
      BY <1>a, <2>4
    <3>3. U.root = "scoped"
      BY <1>6, <3>1, <3>2
    <3>4. ASSUME NEW i \in DOMAIN bands, bands[i] = t.band, 2 * i + 2 <= k + 1
          PROVE  U.filter[t.band] = t.scope
      <4>1. CASE k = 2 * j /\ c.do = "leaf"
        <5>1. 2 * i + 2 <= k
          BY <1>3, <3>4, <4>1
        <5> QED
          BY <1>4, <1>6, <1>10, <3>4, <4>1, <5>1
      <4>2. CASE k = 2 * j + 1 /\ c.do = "filter" /\ c.band = bands[j] /\ c.scope = E.filter[bands[j]]
        <5>1. \A b \in Bands : U.filter[b] = IF b = c.band THEN c.scope ELSE T.filter[b]
          BY <1>6, <3>1, <4>2
        <5>2. CASE t.band = c.band
          BY <2>1, <4>2, <5>1, <5>2
        <5>3. CASE t.band # c.band
          <6>1. i # j
            BY <3>4, <4>2, <5>3
          <6>2. 2 * i + 2 <= k
            BY <1>3, <3>4, <4>2, <6>1
          <6> QED
            BY <1>4, <1>10, <2>1, <3>4, <5>1, <5>3, <6>2
        <5> QED
          BY <5>2, <5>3
      <4> QED
        BY <3>2, <4>1, <4>2
    <3> QED
      BY <3>3, <3>4
  <2> QED
    BY <1>3, <2>2, <2>3, <2>4
<1>11. \A t \in timers' : Waits(t)' => t \in timers /\ Waits(t)
    BY RunsFacts
<1>12. RestoredTo(k + 1)'
  <2>1. Last(entries').tree = E /\ tree'[place'] = U /\ bands = SetToSeq(Filtered(E))
    BY <1>1, <1>5
  <2>2. k + 1 > 0 /\ k + 1 # 0
    BY <1>3
  <2>3. \A t \in timers' : Waits(t)' /\ t.place = place =>
              /\ k + 1 > 1 => U.root = "scoped"
              /\ \A i \in DOMAIN bands : bands[i] = t.band /\ 2 * i + 2 <= k + 1 => U.filter[t.band] = t.scope
    BY <1>10, <1>11
  <2> QED
    BY <1>7, <1>8, <1>9, <2>1, <2>2, <2>3 DEF RestoredTo
<1>13. k + 1 \in 0..Len(Restore(E))
    BY <1>3
<1>14. Last(entries').tree = E
    BY <1>1
<1> QED
    BY <1>12, <1>13, <1>14 DEF RestoresInTurn

LEMMA ChangeKeeps ==
    ASSUME LinkInv, Change
    PROVE  LinkInv'
<1>1. PICK c, T, U : c = Head(commands) /\ T = tree[place] /\ U = Effect(T, c)
    OBVIOUS
<1>2. /\ phase \in {"changing", "restoring"} /\ commands # <<>> /\ Runs(Head(commands))
      /\ commands' = Tail(commands) /\ op' = op /\ phase' = phase /\ place' = place
      /\ entries' = entries /\ verdict' = verdict /\ calls' = calls /\ linkFaults' = linkFaults
      /\ before' = before /\ disturbed' = disturbed /\ botched' = botched
      /\ unscanned' = unscanned /\ wiped' = wiped
    BY DEF Change
<1>3. /\ timers' \in SUBSET Timers
      /\ \A u \in timers' : \E t \in timers : /\ u.place = t.place /\ u.scope = t.scope
                                              /\ u.idle = t.idle
      /\ OneTimerEach' /\ IdleAreWhole'
      /\ \A u \in timers' : Waits(u)' => u \in timers /\ Waits(u)
      /\ \A p \in Nat : p # place => {u \in timers' : u.place = p} = {t \in timers : t.place = p}
    BY <1>2, RunsFacts
<1>4. /\ \A p \in Devices : WellFormed(tree[p])'
      /\ tree' \in [Devices -> Trees]
      /\ \A p \in Devices : p # place => tree'[p] = tree[p]
      /\ tree'[place] = U /\ WaitersFindTheirs'
    BY <1>1, <1>2, RunsSparesWaiters
<1>5. /\ c \in Orders /\ c = commands[1] /\ 1 \in DOMAIN commands /\ commands' \in Seq(Orders)
      /\ \A i \in DOMAIN commands' : i + 1 \in DOMAIN commands /\ commands'[i] = commands[i + 1]
    BY <1>1, <1>2, TailFacts DEF LinkInv, TreesAreWellFormed
<1>6. LinkTypeOK'
    BY <1>2, <1>3, <1>4 DEF LinkInv, LinkTypeOK
<1>7. TreesAreWellFormed'
    BY <1>2, <1>4, <1>5 DEF LinkInv, TreesAreWellFormed
<1>8. CallShape'
    BY <1>2 DEF LinkInv, CallShape, Forward, Back
<1>9. EntriesAreChangeable'
    BY <1>2 DEF LinkInv, EntriesAreChangeable, Changeable
<1>10. OwnAreGone'
  <2>1. phase' \in Busy /\ place' \notin unscanned' =>
          \A t \in timers' : ~Own(t)' /\ ~(Everything' /\ t.place = place')
    BY <1>2, <1>3 DEF LinkInv, OwnAreGone, Own, Everything, Busy
  <2>2. phase' = "restoring" /\ place' \notin unscanned' =>
          \A t \in timers' : ~Own(t)'
    BY <1>2, <1>3 DEF LinkInv, OwnAreGone, Own
  <2> QED
    BY <2>1, <2>2 DEF OwnAreGone
<1>11. EntriesKnowWaiters'
    BY <1>2, <1>3 DEF LinkInv, EntriesKnowWaiters
<1>12. ChangesAreHarmless'
  <2> SUFFICES ASSUME phase = "changing", NEW t \in timers', Waits(t)', t.place = place
               PROVE  t.scope # NoSelector /\ \A i \in DOMAIN commands' : Harmless(commands'[i], t)
    BY <1>2 DEF ChangesAreHarmless, Harmless
  <2>1. t \in timers /\ Waits(t)
    BY <1>3
  <2>2. t.scope # NoSelector /\ \A i \in DOMAIN commands : Harmless(commands[i], t)
    BY <2>1 DEF LinkInv, ChangesAreHarmless
  <2> QED
    BY <1>5, <2>2
<1>13. SelectorHasItsBand'
  <2> SUFFICES ASSUME phase = "changing", op.kind = "impair", op.scope # NoSelector, op.level # 0
               PROVE  /\ OwnBand \in Bands
                      /\ \A b \in Bands : U.filter[b] = op.scope => b = OwnBand
                      /\ \A i \in DOMAIN commands' :
                            /\ commands'[i].do \in {"root", "leaf", "filter"}
                            /\ commands'[i].do = "filter" =>
                                  commands'[i].band = OwnBand /\ commands'[i].scope = op.scope
    BY <1>2, <1>4 DEF SelectorHasItsBand, OwnBand
  <2>1. /\ OwnBand \in Bands
        /\ \A b \in Bands : T.filter[b] = op.scope => b = OwnBand
        /\ \A i \in DOMAIN commands :
              /\ commands[i].do \in {"root", "leaf", "filter"}
              /\ commands[i].do = "filter" => commands[i].band = OwnBand /\ commands[i].scope = op.scope
    BY <1>1 DEF LinkInv, SelectorHasItsBand
  <2>2. Follows(T, c, U)
    <3>1. WellFormed(T) /\ U = Effect(T, c)
      BY <1>1, <1>2, HeadIsFine
    <3> QED
      BY <1>5, <3>1, EffectFollows
  <2>3. \A b \in Bands : U.filter[b] = op.scope => b = OwnBand
    <3>1. CASE c.do = "root"
      BY <2>1, <2>2, <3>1 DEF Follows
    <3>2. CASE c.do = "leaf"
      BY <2>1, <2>2, <3>2 DEF Follows
    <3>3. CASE c.do = "filter" /\ c.band = OwnBand
      <4>1. CASE T.root = "scoped"
        <5>1. \A b \in Bands : U.filter[b] = IF b = c.band THEN c.scope ELSE T.filter[b]
          BY <2>2, <3>3, <4>1 DEF Follows
        <5> QED
          BY <2>1, <3>3, <5>1
      <4>2. CASE T.root # "scoped"
        BY <2>1, <2>2, <3>3, <4>2 DEF Follows
      <4> QED
        BY <4>1, <4>2
    <3> QED
      BY <1>5, <2>1, <3>1, <3>2, <3>3
  <2> QED
    BY <1>5, <2>1, <2>3
<1>14. OnlyTheyFilter'
    BY <1>2, <1>5 DEF LinkInv, OnlyTheyFilter
<1>15. ArmedIsThere'
    BY <1>2 DEF ArmedIsThere
<1>16. RestoresInTurn'
  <2>1. CASE phase = "restoring"
    BY <1>2, <2>1, RestoreGoesOn
  <2>2. CASE phase = "changing"
    BY <1>2, <2>2 DEF RestoresInTurn
  <2> QED
    BY <1>2, <2>1, <2>2
<1>17. CallKnowsBefore'
  <2>1. Touched' = Touched
    BY <1>2 DEF Touched
  <2>2. op.kind = "impair" => \A p \in Devices \ Touched : tree'[p] = tree[p]
    BY <1>2, <1>4, PlaceIsTouched
  <2> QED
    BY <1>2, <2>1, <2>2 DEF LinkInv, CallKnowsBefore
<1>18. DoneSoFar'
  <2> SUFFICES ASSUME phase = "changing", op.kind = "impair", ~disturbed,
                      NEW p \in Devices, op.first <= p, p < place
               PROVE  LevelAsked(p)' /\ TimersAsked(p)'
    BY <1>2 DEF DoneSoFar, Forward
  <2>1. LevelAsked(p) /\ TimersAsked(p)
    BY DEF LinkInv, DoneSoFar, Forward
  <2>2. p \in Nat /\ p # place
    <3>1. p \in Nat /\ place \in Nat
      BY ScopeFacts DEF LinkInv, LinkTypeOK
    <3> QED
      BY <3>1
  <2> QED
    BY <1>2, <1>3, <1>4, <2>1, <2>2, AskedStays
<1>19. NoHalfImpairment' /\ ImpairedAsAsked'
    BY <1>2 DEF NoHalfImpairment, ImpairedAsAsked
<1> QED
    BY <1>3, <1>4, <1>6, <1>7, <1>8, <1>9, <1>10, <1>11, <1>12, <1>13, <1>14, <1>15, <1>16, <1>17,
       <1>18, <1>19 DEF LinkInv
----------------------------------------------------------------------------
(* A timer's step. *)

(* What a step of a timer does to a tree.                                  *)
Steps(t, T, U) ==
    \/ /\ t.at = "sleep" /\ t.scope # NoSelector /\ T.filter[t.band] # NoSelector /\ U.root = T.root
       /\ \A b \in Bands : U.filter[b] = IF b = t.band THEN NoSelector ELSE T.filter[b]
    \/ U.root = T.root /\ U.filter = T.filter
    \/ U = Clean /\ (t.at = "root" \/ (t.at = "sleep" /\ t.scope = NoSelector))

LEMMA TimerStepOnTree ==
    ASSUME LinkInv, NEW t \in timers, TimerStep(t)
    PROVE  /\ t.place \in Devices /\ tree' \in [Devices -> Trees]
           /\ \A p \in Devices : p # t.place => tree'[p] = tree[p]
           /\ WellFormed(tree[t.place]) /\ WellFormed(tree'[t.place])
           /\ Steps(t, tree[t.place], tree'[t.place])
<1>1. PICK T, p, b : T = tree[t.place] /\ p = t.place /\ b = t.band
    OBVIOUS
<1>2. /\ t \in Timers /\ p \in Devices /\ b \in Bands /\ tree \in [Devices -> Trees] /\ WellFormed(T)
    BY <1>1 DEF LinkInv, LinkTypeOK, TreesAreWellFormed, Timers
<1>3. \/ /\ t.at = "sleep" /\ t.scope # NoSelector /\ T.filter[b] # NoSelector
         /\ tree' = [tree EXCEPT ![p] = Effect(@, DeleteFilter(b))]
      \/ tree' = [tree EXCEPT ![p] = Effect(@, DeleteLeaf(b))]
      \/ tree' = tree
      \/ /\ t.at = "root" \/ (t.at = "sleep" /\ t.scope = NoSelector)
         /\ tree' = [tree EXCEPT ![p] = Effect(@, DeleteRoot)]
    BY <1>1 DEF TimerStep
<1>4. PICK cf, cl, cr : cf = DeleteFilter(b) /\ cl = DeleteLeaf(b) /\ cr = DeleteRoot
    OBVIOUS
<1>5. /\ cf \in Orders /\ cf.do = "delete filter" /\ cf.band = b
      /\ cl \in Orders /\ cl.do = "delete leaf" /\ cr \in Orders /\ cr.do = "delete root"
    BY <1>2, <1>4, DeleteIsCommand, RootIsCommand
<1>6. ASSUME NEW c \in {cf, cl, cr}
      PROVE  /\ WellFormed(Effect(T, c)) /\ Effect(T, c) \in Trees /\ Follows(T, c, Effect(T, c))
  <2>1. c \in Orders /\ c.do # "filter"
    BY <1>5
  <2>2. WellFormed(Effect(T, c)) /\ Follows(T, c, Effect(T, c))
    BY <1>2, <2>1, EffectIsWellFormed, EffectFollows
  <2> QED
    BY <2>2 DEF WellFormed
<1>7. CASE tree' = tree
  <2>1. tree'[p] = T
    BY <1>1, <1>7
  <2>2. Steps(t, T, T)
    BY DEF Steps
  <2> QED
    BY <1>1, <1>2, <1>7, <2>2
<1>8. ASSUME NEW c \in {cf, cl, cr}, tree' = [tree EXCEPT ![p] = Effect(@, c)], Steps(t, T, Effect(T, c))
      PROVE  /\ t.place \in Devices /\ tree' \in [Devices -> Trees]
             /\ \A q \in Devices : q # t.place => tree'[q] = tree[q]
             /\ WellFormed(tree[t.place]) /\ WellFormed(tree'[t.place])
             /\ Steps(t, tree[t.place], tree'[t.place])
  <2>1. PICK U : U = Effect(T, c)
    OBVIOUS
  <2>2. U \in Trees /\ WellFormed(U) /\ Steps(t, T, U)
    BY <1>6, <1>8, <2>1
  <2>3. tree' = [tree EXCEPT ![p] = U]
    BY <1>1, <1>8, <2>1
  <2> QED
    BY <1>1, <1>2, <2>2, <2>3
<1>9. CASE /\ t.at = "sleep" /\ t.scope # NoSelector /\ T.filter[b] # NoSelector
           /\ tree' = [tree EXCEPT ![p] = Effect(@, DeleteFilter(b))]
  <2>1. PICK U : U = Effect(T, cf)
    OBVIOUS
  <2>2. Follows(T, cf, U)
    BY <1>6, <2>1
  <2>3. U.root = T.root
    BY <1>5, <2>2 DEF Follows
  <2>4. \A d \in Bands : U.filter[d] = IF d = b THEN NoSelector ELSE T.filter[d]
    BY <1>5, <2>2 DEF Follows
  <2>5. Steps(t, T, U)
    BY <1>1, <1>9, <2>3, <2>4 DEF Steps
  <2> QED
    BY <1>4, <1>8, <1>9, <2>1, <2>5
<1>10. CASE tree' = [tree EXCEPT ![p] = Effect(@, DeleteLeaf(b))]
  <2>1. Follows(T, cl, Effect(T, cl))
    BY <1>6
  <2>2. Steps(t, T, Effect(T, cl))
    BY <1>5, <2>1 DEF Steps, Follows
  <2> QED
    BY <1>4, <1>8, <1>10, <2>2
<1>11. CASE /\ t.at = "root" \/ (t.at = "sleep" /\ t.scope = NoSelector)
            /\ tree' = [tree EXCEPT ![p] = Effect(@, DeleteRoot)]
  <2>1. Effect(T, cr) = Clean
    BY <1>5 DEF Effect
  <2>2. Steps(t, T, Effect(T, cr))
    BY <1>11, <2>1 DEF Steps
  <2> QED
    BY <1>4, <1>8, <1>11, <2>2
<1> QED
    BY <1>3, <1>7, <1>9, <1>10, <1>11

LEMMA TimerStepOnTimers ==
    ASSUME LinkInv, NEW t \in timers, TimerStep(t)
    PROVE  /\ timers' \in SUBSET Timers
           /\ \A u \in timers' :
                 \/ u \in timers /\ u # t
                 \/ u.place = t.place /\ u.scope = t.scope /\ u.idle = t.idle /\ u.at # "sleep" /\ t \notin timers'
           /\ \A u, v \in timers' : u \notin timers \ {t} /\ v \notin timers \ {t} => u = v
           /\ \A u \in timers' : Waits(u)' => u \in timers /\ u # t /\ Waits(u)
<1>1. t \in Timers /\ timers \in SUBSET Timers
    BY DEF LinkInv, LinkTypeOK
<1>2. \/ \E where \in {"leaf", "check", "root"} :
            /\ timers' = (timers \ {t}) \cup {[t EXCEPT !.at = where]}
            /\ t.at # where
      \/ timers' = timers \ {t}
    BY DEF TimerStep
<1>3. unscanned' = unscanned /\ botched' = botched /\ wiped \subseteq wiped'
    BY DEF TimerStep
<1>4. CASE timers' = timers \ {t}
    BY <1>1, <1>3, <1>4 DEF Waits
<1>5. CASE \E where \in {"leaf", "check", "root"} :
            /\ timers' = (timers \ {t}) \cup {[t EXCEPT !.at = where]}
            /\ t.at # where
  <2>1. PICK where \in {"leaf", "check", "root"} :
            /\ timers' = (timers \ {t}) \cup {[t EXCEPT !.at = where]}
            /\ t.at # where
    BY <1>5
  <2>2. PICK v : v = [t EXCEPT !.at = where]
    OBVIOUS
  <2>3. v \in Timers /\ v.place = t.place /\ v.scope = t.scope /\ v.idle = t.idle /\ v.at = where
    BY <1>1, <2>2 DEF Timers
  <2>4. timers' = (timers \ {t}) \cup {v} /\ v # t /\ v.at # "sleep"
    BY <2>1, <2>2, <2>3
  <2> QED
    BY <1>1, <1>3, <2>3, <2>4 DEF Waits
<1> QED
    BY <1>2, <1>4, <1>5

(* A timer that deletes a root others wait under is known to have.         *)
LEMMA WipesAreKnown ==
    ASSUME LinkInv, NEW t \in timers, TimerStep(t), tree'[t.place] = Clean,
           tree[t.place] # Clean, t.place \notin wiped'
    PROVE  /\ ~(phase = "restoring" /\ place = t.place)
           /\ ReadAs(tree[t.place]) # Clean => t.at # "root" /\ tree[t.place].root # "scoped"
<1>1. wiped' = IF WipesOthers(t) THEN wiped \cup {t.place} ELSE wiped
    BY DEF TimerStep
<1>2. ~WipesOthers(t)
    BY <1>1
<1> QED
    BY <1>2 DEF WipesOthers

(* A waiter's own filter is the one in its band, also while it is put back.*)
LEMMA WaiterOwnsItsFilter ==
    ASSUME LinkInv, NEW t \in timers, Waits(t), t.scope # NoSelector,
           tree[t.place].filter[t.band] # NoSelector
    PROVE  tree[t.place].filter[t.band] = t.scope
<1>1. \/ tree[t.place].filter[t.band] = t.scope
      \/ phase = "restoring" /\ place = t.place
    BY DEF LinkInv, WaitersFindTheirs
<1>2. CASE phase = "restoring" /\ place = t.place
  <2>1. PICK E : E = Last(entries).tree
    OBVIOUS
  <2>2. PICK k \in 0..Len(Restore(E)) : RestoredTo(k)
    BY <1>2, <2>1 DEF LinkInv, RestoresInTurn
  <2>3. /\ k > 0 => \A b \in Bands : tree[place].filter[b] \in {NoSelector, E.filter[b]}
        /\ k = 0 => tree[place].filter[t.band] = t.scope
    BY <1>2, <2>1, <2>2 DEF RestoredTo
  <2>4. t.band \in Bands /\ E.filter[t.band] = t.scope
    BY <1>2, <2>1, RestoringFacts DEF LinkInv, LinkTypeOK, Timers
  <2>5. k = 0 \/ k > 0
    <3>1. Len(Restore(E)) \in Nat
      <4>1. Restore(E) \in Seq(Orders)
        BY <1>2, <2>1, RestoringFacts, RestoreFacts
      <4> QED
        BY <4>1, LenProperties
    <3> QED
      BY <3>1
  <2> QED
    BY <1>2, <2>3, <2>4, <2>5
<1> QED
    BY <1>1, <1>2

(* A timer's step leaves what the others wait for.                         *)
LEMMA TimerSpares ==
    ASSUME LinkInv, NEW t \in timers, TimerStep(t), NEW u \in timers, u # t, Waits(u), Waits(u)',
           u.place = t.place
    PROVE  /\ u.scope = NoSelector /\ tree[t.place].root = "whole" => tree'[t.place].root = "whole"
           /\ u.scope # NoSelector /\ tree[t.place].filter[u.band] = u.scope =>
                 tree'[t.place].filter[u.band] = u.scope
           /\ phase = "restoring" /\ place = t.place => tree'[t.place].root = tree[t.place].root
<1>1. PICK T, U : T = tree[t.place] /\ U = tree'[t.place]
    OBVIOUS
<1>2. /\ WellFormed(T) /\ WellFormed(U) /\ Steps(t, T, U)
    BY <1>1, TimerStepOnTree
<1>3. /\ t.band \in Bands /\ u.band \in Bands
    BY DEF LinkInv, LinkTypeOK, Timers
<1>4. u.scope # t.scope /\ t.place \notin unscanned \cup botched \cup wiped /\ t.place \notin wiped'
    BY DEF LinkInv, OneTimerEach, Waits
<1>5. CASE /\ t.at = "sleep" /\ t.scope # NoSelector /\ T.filter[t.band] # NoSelector /\ U.root = T.root
           /\ \A b \in Bands : U.filter[b] = IF b = t.band THEN NoSelector ELSE T.filter[b]
  <2>1. Waits(t)
    BY <1>4, <1>5 DEF LinkInv, IdleAreWhole, Waits
  <2>2. T.filter[t.band] = t.scope
    BY <1>1, <1>5, <2>1, WaiterOwnsItsFilter
  <2> QED
    BY <1>1, <1>3, <1>4, <1>5, <2>2
<1>6. CASE U.root = T.root /\ U.filter = T.filter
    BY <1>1, <1>6
<1>7. CASE U = Clean /\ (t.at = "root" \/ (t.at = "sleep" /\ t.scope = NoSelector))
  <2>1. CASE T = Clean
    BY <1>1, <1>7, <2>1
  <2>2. CASE T # Clean
    <3>1. /\ ~(phase = "restoring" /\ place = t.place)
          /\ ReadAs(T) # Clean => t.at # "root" /\ T.root # "scoped"
      BY <1>1, <1>4, <1>7, <2>2, WipesAreKnown
    <3>2. ~(u.scope = NoSelector /\ T.root = "whole")
      <4> SUFFICES ASSUME u.scope = NoSelector, T.root = "whole" PROVE FALSE
        OBVIOUS
      <4>1. Kind(T) = "whole" /\ ReadAs(T) = T
        BY <1>2, KindFacts
      <4>2. t.at = "sleep" /\ t.scope = NoSelector
        BY <1>7, <2>2, <3>1, <4>1
      <4> QED
        BY <1>4, <4>2
    <3>3. ~(u.scope # NoSelector /\ T.filter[u.band] = u.scope)
      <4> SUFFICES ASSUME u.scope # NoSelector, T.filter[u.band] = u.scope PROVE FALSE
        OBVIOUS
      <4>1. u.band \in Filtered(T)
        BY <1>3 DEF Filtered
      <4>2. T.root = "scoped" /\ Kind(T) \in {"scoped", "foreign"}
        BY <1>2, <4>1, KindFacts
      <4>3. ReadAs(T) = T
        BY <1>2, <4>2, KindFacts
      <4> QED
        BY <2>2, <3>1, <4>2, <4>3
    <3> QED
      BY <1>1, <3>1, <3>2, <3>3
  <2> QED
    BY <2>1, <2>2
<1> QED
    BY <1>2, <1>5, <1>6, <1>7 DEF Steps

LEMMA TimerStepKeeps ==
    ASSUME LinkInv, NEW t \in timers, TimerStep(t)
    PROVE  LinkInv'
<1>1. /\ disturbed' = TRUE /\ op' = op /\ phase' = phase /\ place' = place /\ commands' = commands
      /\ entries' = entries /\ verdict' = verdict /\ calls' = calls /\ linkFaults' = linkFaults
      /\ before' = before /\ botched' = botched /\ unscanned' = unscanned
      /\ wiped \subseteq wiped' /\ wiped' \subseteq wiped \cup {t.place}
    BY DEF TimerStep, callState
<1>2. PICK T, U : T = tree[t.place] /\ U = tree'[t.place]
    OBVIOUS
<1>3. /\ t.place \in Devices /\ tree' \in [Devices -> Trees]
      /\ \A p \in Devices : p # t.place => tree'[p] = tree[p]
      /\ WellFormed(T) /\ WellFormed(U) /\ Steps(t, T, U)
    BY <1>2, TimerStepOnTree
<1>4. /\ timers' \in SUBSET Timers
      /\ \A u \in timers' :
            \/ u \in timers /\ u # t
            \/ u.place = t.place /\ u.scope = t.scope /\ u.idle = t.idle /\ u.at # "sleep" /\ t \notin timers'
      /\ \A u, v \in timers' : u \notin timers \ {t} /\ v \notin timers \ {t} => u = v
      /\ \A u \in timers' : Waits(u)' => u \in timers /\ u # t /\ Waits(u)
    BY TimerStepOnTimers
<1>5. \A u \in timers' : \E v \in timers : u.place = v.place /\ u.scope = v.scope /\ u.idle = v.idle
    BY <1>4
<1>6. \A b \in Bands : U.filter[b] \in {NoSelector, T.filter[b]}
    BY <1>3, CleanFacts DEF Steps
<1>7. LinkTypeOK'
    BY <1>1, <1>3, <1>4 DEF LinkInv, LinkTypeOK
<1>8. TreesAreWellFormed'
    BY <1>1, <1>2, <1>3 DEF LinkInv, TreesAreWellFormed
<1>9. CallShape' /\ EntriesAreChangeable' /\ OnlyTheyFilter'
    BY <1>1 DEF LinkInv, CallShape, EntriesAreChangeable, Changeable, OnlyTheyFilter, Arms
<1>10. OwnAreGone' /\ IdleAreWhole'
    BY <1>1, <1>5 DEF LinkInv, OwnAreGone, IdleAreWhole, Own, Everything
<1>11. OneTimerEach'
  <2> SUFFICES ASSUME NEW u \in timers', NEW v \in timers', u.place \notin unscanned,
                      u.place = v.place, u.scope = v.scope
               PROVE  u = v
    BY <1>1 DEF OneTimerEach
  <2>1. \A x, y \in timers : x.place \notin unscanned /\ x.place = y.place /\ x.scope = y.scope => x = y
    BY DEF LinkInv, OneTimerEach
  <2>2. CASE u \in timers \ {t} /\ v \in timers \ {t}
    BY <2>1, <2>2
  <2>3. CASE u \in timers \ {t} /\ v \notin timers \ {t}
    <3>1. v.place = t.place /\ v.scope = t.scope
      BY <1>4, <2>3
    <3> QED
      BY <2>1, <2>3, <3>1
  <2>4. CASE u \notin timers \ {t} /\ v \in timers \ {t}
    <3>1. u.place = t.place /\ u.scope = t.scope
      BY <1>4, <2>4
    <3> QED
      BY <2>1, <2>4, <3>1
  <2>5. CASE u \notin timers \ {t} /\ v \notin timers \ {t}
    BY <1>4, <2>5
  <2> QED
    BY <2>2, <2>3, <2>4, <2>5
<1>12. WaitersFindTheirs'
  <2> SUFFICES ASSUME NEW u \in timers', Waits(u)'
               PROVE  /\ ~u.stale
                      /\ IF u.scope = NoSelector THEN tree'[u.place].root = "whole"
                         ELSE \/ tree'[u.place].filter[u.band] = u.scope
                              \/ phase' = "restoring" /\ place' = u.place
    BY DEF WaitersFindTheirs
  <2>1. u \in timers /\ u # t /\ Waits(u)
    BY <1>4
  <2>2. /\ ~u.stale
        /\ IF u.scope = NoSelector THEN tree[u.place].root = "whole"
           ELSE \/ tree[u.place].filter[u.band] = u.scope
                \/ phase = "restoring" /\ place = u.place
    BY <2>1 DEF LinkInv, WaitersFindTheirs
  <2>3. CASE u.place # t.place
    <3>1. u.place \in Devices
      BY <2>1 DEF LinkInv, LinkTypeOK, Timers
    <3> QED
      BY <1>1, <1>3, <2>2, <2>3, <3>1
  <2>4. CASE u.place = t.place
    <3>1. /\ u.scope = NoSelector /\ T.root = "whole" => U.root = "whole"
          /\ u.scope # NoSelector /\ T.filter[u.band] = u.scope => U.filter[u.band] = u.scope
      BY <1>2, <2>1, <2>4, TimerSpares
    <3> QED
      BY <1>1, <1>2, <2>2, <2>4, <3>1
  <2> QED
    BY <2>3, <2>4
<1>13. EntriesKnowWaiters' /\ ChangesAreHarmless'
    BY <1>1, <1>4 DEF LinkInv, EntriesKnowWaiters, ChangesAreHarmless, Harmless
<1>14. SelectorHasItsBand'
  <2> SUFFICES ASSUME phase \in {"changing", "arming"}, op.kind = "impair", op.scope # NoSelector,
                      op.level # 0
               PROVE  /\ OwnBand \in Bands
                      /\ \A b \in Bands : tree'[place].filter[b] = op.scope => b = OwnBand
                      /\ phase = "changing" => \A i \in DOMAIN commands :
                            /\ commands[i].do \in {"root", "leaf", "filter"}
                            /\ commands[i].do = "filter" =>
                                  commands[i].band = OwnBand /\ commands[i].scope = op.scope
    BY <1>1 DEF SelectorHasItsBand, OwnBand
  <2>1. /\ OwnBand \in Bands
        /\ \A b \in Bands : tree[place].filter[b] = op.scope => b = OwnBand
        /\ phase = "changing" => \A i \in DOMAIN commands :
              /\ commands[i].do \in {"root", "leaf", "filter"}
              /\ commands[i].do = "filter" => commands[i].band = OwnBand /\ commands[i].scope = op.scope
    BY DEF LinkInv, SelectorHasItsBand
  <2>2. \A b \in Bands : tree'[place].filter[b] = op.scope => tree[place].filter[b] = op.scope
    <3>1. place \in Devices
      BY DEF LinkInv, LinkTypeOK
    <3> QED
      BY <1>2, <1>3, <1>6, <3>1
  <2> QED
    BY <2>1, <2>2
<1>15. ArmedIsThere'
  <2> SUFFICES ASSUME phase = "arming", place \notin unscanned \cup botched \cup wiped', op.level # 0
               PROVE  IF op.scope = NoSelector THEN tree'[place].root = "whole"
                      ELSE tree'[place].filter[OwnBand] = op.scope
    BY <1>1 DEF ArmedIsThere, OwnBand
  <2>1. IF op.scope = NoSelector THEN tree[place].root = "whole"
        ELSE tree[place].filter[OwnBand] = op.scope
    BY <1>1 DEF LinkInv, ArmedIsThere
  <2>2. place \in Devices /\ op.kind = "impair" /\ (op.scope # NoSelector => OwnBand \in Bands)
    BY DEF LinkInv, LinkTypeOK, CallShape, Arms, SelectorHasItsBand
  <2>3. CASE place # t.place
    BY <1>3, <2>1, <2>2, <2>3
  <2>4. CASE place = t.place
    <3>1. t.scope # op.scope
      BY <2>4 DEF LinkInv, OwnAreGone, Own, Busy
    <3>2. CASE /\ t.at = "sleep" /\ t.scope # NoSelector /\ T.filter[t.band] # NoSelector /\ U.root = T.root
               /\ \A b \in Bands : U.filter[b] = IF b = t.band THEN NoSelector ELSE T.filter[b]
      <4>1. Waits(t)
        BY <1>1, <2>4, <3>2 DEF LinkInv, IdleAreWhole, Waits
      <4>2. T.filter[t.band] = t.scope
        BY <1>2, <3>2, <4>1, WaiterOwnsItsFilter
      <4> QED
        BY <1>2, <2>1, <2>2, <2>4, <3>1, <3>2, <4>2
    <3>3. CASE U.root = T.root /\ U.filter = T.filter
      BY <1>2, <2>1, <2>4, <3>3
    <3>4. CASE U = Clean /\ (t.at = "root" \/ (t.at = "sleep" /\ t.scope = NoSelector))
      <4>1. CASE T = Clean
        BY <1>2, <2>1, <2>4, <3>4, <4>1
      <4>2. CASE T # Clean
        <5>1. ReadAs(T) # Clean => t.at # "root" /\ T.root # "scoped"
          BY <1>2, <2>4, <3>4, <4>2, WipesAreKnown
        <5>2. CASE op.scope = NoSelector
          <6>1. Kind(T) = "whole" /\ ReadAs(T) = T
            BY <1>2, <1>3, <2>1, <2>4, <5>2, KindFacts
          <6> QED
            BY <3>1, <3>4, <4>2, <5>1, <5>2, <6>1
        <5>3. CASE op.scope # NoSelector
          <6>1. OwnBand \in Filtered(T)
            BY <1>2, <2>1, <2>2, <2>4, <5>3 DEF Filtered
          <6>2. T.root = "scoped" /\ Kind(T) \in {"scoped", "foreign"}
            BY <1>3, <6>1, KindFacts
          <6>3. ReadAs(T) = T
            BY <1>3, <6>2, KindFacts
          <6> QED
            BY <4>2, <5>1, <6>2, <6>3
        <5> QED
          BY <5>2, <5>3
      <4> QED
        BY <4>1, <4>2
    <3> QED
      BY <1>3, <3>2, <3>3, <3>4 DEF Steps
  <2> QED
    BY <2>3, <2>4
<1>16. RestoresInTurn'
  <2> SUFFICES ASSUME phase = "restoring" PROVE RestoresInTurn'
    BY <1>1 DEF RestoresInTurn
  <2>1. PICK E, bands : E = Last(entries).tree /\ bands = SetToSeq(Filtered(E))
    OBVIOUS
  <2>2. PICK k \in 0..Len(Restore(E)) : RestoredTo(k)
    BY <2>1 DEF LinkInv, RestoresInTurn
  <2>3. place \in Devices
    BY DEF LinkInv, LinkTypeOK
  <2>4. /\ Len(commands) = Len(Restore(E)) - k
        /\ \A i \in DOMAIN commands : commands[i] = Restore(E)[k + i]
        /\ k > 0 => \A b \in Bands : tree[place].filter[b] \in {NoSelector, E.filter[b]}
        /\ \A u \in timers : Waits(u) /\ u.place = place =>
              /\ k = 0 => tree[place].filter[u.band] = u.scope
              /\ k > 1 => tree[place].root = "scoped"
              /\ \A i \in DOMAIN bands :
                    bands[i] = u.band /\ 2 * i + 2 <= k => tree[place].filter[u.band] = u.scope
    BY <2>1, <2>2 DEF RestoredTo
  <2>5. \A b \in Bands : tree'[place].filter[b] \in {NoSelector, tree[place].filter[b]}
    BY <1>2, <1>3, <1>6, <2>3
  <2>6. ASSUME NEW u \in timers', Waits(u)', u.place = place
        PROVE  /\ u \in timers /\ Waits(u)
               /\ tree[place].filter[u.band] = u.scope => tree'[place].filter[u.band] = u.scope
               /\ tree[place].root = "scoped" => tree'[place].root = "scoped"
    <3>1. u \in timers /\ u # t /\ Waits(u)
      BY <1>4, <2>6
    <3>2. u.scope # NoSelector
      BY <2>6, <3>1, RestoringFacts
    <3>3. CASE place # t.place
      BY <1>3, <2>3, <3>1, <3>3
    <3>4. CASE place = t.place
      BY <2>6, <3>1, <3>2, <3>4, TimerSpares
    <3> QED
      BY <3>1, <3>3, <3>4
  <2>7. k > 0 => \A b \in Bands : tree'[place].filter[b] \in {NoSelector, E.filter[b]}
    BY <2>4, <2>5
  <2>8. \A u \in timers' : Waits(u)' /\ u.place = place =>
              /\ k = 0 => tree'[place].filter[u.band] = u.scope
              /\ k > 1 => tree'[place].root = "scoped"
              /\ \A i \in DOMAIN bands :
                    bands[i] = u.band /\ 2 * i + 2 <= k => tree'[place].filter[u.band] = u.scope
    BY <2>4, <2>6
  <2>9. RestoredTo(k)'
    BY <1>1, <2>1, <2>4, <2>7, <2>8 DEF RestoredTo
  <2> QED
    BY <1>1, <2>1, <2>2, <2>9 DEF RestoresInTurn
<1>17. CallKnowsBefore' /\ DoneSoFar' /\ NoHalfImpairment' /\ ImpairedAsAsked'
    BY <1>1 DEF CallKnowsBefore, DoneSoFar, NoHalfImpairment, ImpairedAsAsked
<1> QED
    BY <1>7, <1>8, <1>9, <1>10, <1>11, <1>12, <1>13, <1>14, <1>15, <1>16, <1>17 DEF LinkInv
----------------------------------------------------------------------------
(* The invariant, and what it says. *)

LEMMA LinkStutterKeeps ==
    ASSUME LinkInv, UNCHANGED linkVars
    PROVE  LinkInv'
<1>1. /\ tree' = tree /\ timers' = timers /\ op' = op /\ phase' = phase /\ place' = place
      /\ commands' = commands /\ entries' = entries /\ verdict' = verdict /\ calls' = calls
      /\ linkFaults' = linkFaults /\ before' = before /\ disturbed' = disturbed
      /\ botched' = botched /\ unscanned' = unscanned /\ wiped' = wiped
    BY DEF linkVars, callState, linkHistory
<1>2. /\ LinkTypeOK' /\ TreesAreWellFormed' /\ CallShape' /\ EntriesAreChangeable'
    BY <1>1 DEF LinkInv, LinkTypeOK, TreesAreWellFormed, CallShape, EntriesAreChangeable, Changeable,
                Arms
<1>3. OwnAreGone' /\ OneTimerEach' /\ IdleAreWhole' /\ OnlyTheyFilter'
    BY <1>1 DEF LinkInv, OwnAreGone, OneTimerEach, IdleAreWhole, OnlyTheyFilter, Own, Everything
<1>4. WaitersFindTheirs' /\ EntriesKnowWaiters' /\ ChangesAreHarmless'
    BY <1>1 DEF LinkInv, WaitersFindTheirs, EntriesKnowWaiters, ChangesAreHarmless, Waits, Harmless
<1>5. SelectorHasItsBand' /\ ArmedIsThere'
    BY <1>1 DEF LinkInv, SelectorHasItsBand, ArmedIsThere, OwnBand
<1>6. RestoresInTurn'
    BY <1>1 DEF LinkInv, RestoresInTurn, RestoredTo, Waits
<1>7. CallKnowsBefore' /\ DoneSoFar'
    BY <1>1 DEF LinkInv, CallKnowsBefore, Touched, DoneSoFar, LevelAsked, TimersAsked, Arms
<1>8. NoHalfImpairment' /\ ImpairedAsAsked'
    BY <1>1 DEF LinkInv, NoHalfImpairment, ImpairedAsAsked, Arms
<1> QED
    BY <1>2, <1>3, <1>4, <1>5, <1>6, <1>7, <1>8 DEF LinkInv

LEMMA LinkStepKeeps == LinkInv /\ [LinkNext]_linkVars => LinkInv'
<1> SUFFICES ASSUME LinkInv, [LinkNext]_linkVars
             PROVE  LinkInv'
    OBVIOUS
<1>1. CASE \E o \in Ops : Begin(o)
    BY <1>1, BeginKeeps
<1>2. CASE CancelTimers
    BY <1>2, CancelTimersKeeps
<1>3. CASE ReadState
    BY <1>3, ReadStateKeeps
<1>4. CASE Change
    BY <1>4, ChangeKeeps
<1>5. CASE Verify
    BY <1>5, VerifyKeeps
<1>6. CASE Arm
    BY <1>6, ArmKeeps
<1>7. CASE Breaks
    BY <1>7, BreaksKeeps
<1>8. CASE Unwind
    BY <1>8, UnwindKeeps
<1>9. CASE Restored
    BY <1>9, RestoredKeeps
<1>10. CASE NotRestored
    BY <1>10, NotRestoredKeeps
<1>11. CASE CutShort
    BY <1>11, CutShortKeeps
<1>12. CASE \E t \in timers : TimerStep(t)
    BY <1>12, TimerStepKeeps
<1>13. CASE UNCHANGED linkVars
    BY <1>13, LinkStutterKeeps
<1> QED
    BY <1>1, <1>2, <1>3, <1>4, <1>5, <1>6, <1>7, <1>8, <1>9, <1>10, <1>11, <1>12, <1>13
    DEF LinkNext, CallOnLink

LEMMA LinkSafe == LinkSpec => []LinkInv
    BY InitHolds, LinkStepKeeps, PTL DEF LinkSpec

LEMMA WaitersAreSafe == LinkInv => TimerClearsItsOwn
<1> SUFFICES ASSUME LinkInv, NEW t \in timers, t.at = "sleep", ~t.idle,
                    t.place \notin unscanned \cup botched \cup wiped
             PROVE  LET T == tree[t.place]
                    IN  IF t.scope = NoSelector
                        THEN Kind(T) = "clean" \/ (Kind(T) = "whole" /\ ~t.stale)
                        ELSE \/ T.filter[t.band] = NoSelector
                             \/ T.filter[t.band] = t.scope /\ ~t.stale
    BY DEF TimerClearsItsOwn
<1>1. Waits(t)
    BY DEF Waits
<1>2. ~t.stale /\ (t.scope = NoSelector => tree[t.place].root = "whole")
    BY <1>1 DEF LinkInv, WaitersFindTheirs
<1>3. WellFormed(tree[t.place])
    BY DEF LinkInv, LinkTypeOK, TreesAreWellFormed, Timers
<1>4. CASE t.scope = NoSelector
    BY <1>2, <1>3, <1>4, KindFacts
<1>5. CASE t.scope # NoSelector
    BY <1>1, <1>2, <1>5, WaiterOwnsItsFilter
<1> QED
    BY <1>4, <1>5

(* Type correctness of the calls, the trees and the timers of a link.      *)
THEOREM LinkTypeCorrect == LinkSpec => []LinkTypeOK
<1>1. LinkInv => LinkTypeOK
    BY DEF LinkInv
<1> QED
    BY <1>1, LinkSafe, PTL

(* impair_link leaves no half-impairment: a call that fails or is          *)
(* interrupted, however far it came and whatever the number of placements  *)
(* and selectors, has put back what it found on every placement; but for   *)
(* those its rollback gave up, and while no timer ran.                     *)
THEOREM FailuresLeaveNothing == LinkSpec => []NoHalfImpairment
<1>1. LinkInv => NoHalfImpairment
    BY DEF LinkInv
<1> QED
    BY <1>1, LinkSafe, PTL

(* A timer that waits clears the impairment it was launched with or        *)
(* nothing: no later call, no other selector and no rollback puts another  *)
(* under its band; but where timers could not be listed, a rollback was    *)
(* broken off, or a timer deleted a root that was in use.                  *)
THEOREM TimersKeepToTheirOwn == LinkSpec => []TimerClearsItsOwn
    BY LinkSafe, WaitersAreSafe, PTL

(* An impair_link that returns has set what it was asked for on each       *)
(* placement, and left the one timer that clears it, or none.              *)
THEOREM DoneIsAsAsked == LinkSpec => []ImpairedAsAsked
<1>1. LinkInv => ImpairedAsAsked
    BY DEF LinkInv
<1> QED
    BY <1>1, LinkSafe, PTL

(* Where the rule breaks that no timer of a whole-link impairment meets    *)
(* port-scoped ones, and nowhere else: such a timer is idle, launched over *)
(* a device that had nothing to clear, or is among those excused above.    *)
THEOREM OnlyIdleTimersMeetSelectors ==
    LinkSpec => [](\A t \in timers : t.at = "sleep" /\ t.scope = NoSelector /\ ~t.idle
                                     /\ t.place \notin unscanned \cup botched \cup wiped =>
                       Kind(tree[t.place]) # "scoped")
<1>1. TimerClearsItsOwn =>
          \A t \in timers : t.at = "sleep" /\ t.scope = NoSelector /\ ~t.idle
                            /\ t.place \notin unscanned \cup botched \cup wiped =>
              Kind(tree[t.place]) # "scoped"
    BY DEF TimerClearsItsOwn
<1> QED
    BY <1>1, TimersKeepToTheirOwn, PTL

----------------------------------------------------------------------------
(* The far side as a whole, as the run checks it. *)

(* In each scene one component runs and the others wait where they began:  *)
(* every scene is a behaviour of the three, and all that is proved of the  *)
(* sessions, the shell and the link holds in it.                           *)
THEOREM AllSpecifications == MCSpec => Spec /\ ShellSpec /\ LinkSpec
  <1>1. MCInit => Init /\ ShellInit /\ LinkInit
    BY DEF MCInit
  <1>2. [MCNext]_<<vars, lineVars, linkVars, scene>> =>
           [Next]_vars /\ [ShellNext]_lineVars /\ [LinkNext]_linkVars
    BY DEF MCNext
  <1> QED BY <1>1, <1>2, PTL DEF MCSpec, Spec, ShellSpec, LinkSpec

(* Every variable of the three keeps its type, in every scene.             *)
THEOREM MCTypeCorrect == MCSpec => []MCTypeOK
  <1>1. TypeOK /\ ShellTypeOK /\ LinkTypeOK => MCTypeOK
    BY DEF MCTypeOK
  <1> QED BY <1>1, AllSpecifications, ManagerTypeCorrect, ShellTypeCorrect, LinkTypeCorrect, PTL

=============================================================================
