----------------------------- MODULE LinkImpair -----------------------------
(***************************************************************************)
(* impair_link and repair_link of src/otto/link/manage.py.                 *)
(*                                                                         *)
(* An impairment is a queueing discipline of a network device on each of a *)
(* link's placements: one for all its traffic, or a tree with a band and a *)
(* filter for each port selector.  Nothing else records it: a call reads   *)
(* the device, changes it command by command, reads it again, and launches *)
(* a process that clears it when it expires.  These timers run on their    *)
(* own, script line by script line, whatever a call does meanwhile.  A     *)
(* call that fails or is interrupted restores what it read.                *)
(*                                                                         *)
(* Abstracted: of the parameters one, so that merging takes the new level; *)
(* a selector's filters are one, and selectors do not collide; otto's own  *)
(* discipline is the only one; one call runs at a time.                    *)
(***************************************************************************)
EXTENDS Naturals, SequencesExt

CONSTANTS
    Selectors,
    NoSelector,     \* a whole-link call; a band without a filter
    Placements,     \* a link's placements are 1..Placements
    MaxLevel,       \* levels of the impairment; 0 is none
    MaxCalls,       \* bound on the calls
    MaxLinkFaults   \* bound on failing commands and interruptions

ASSUME LinkAssumption ==
    /\ IsFiniteSet(Selectors) /\ Selectors # {} /\ NoSelector \notin Selectors
    /\ Placements \in Nat \ {0}
    /\ MaxLevel \in Nat /\ MaxCalls \in Nat /\ MaxLinkFaults \in Nat

VARIABLES
    tree,       \* the discipline of each placement
    timers,     \* the processes that wait, or run their script
    op,         \* the call: its kind, selector, level and expire
    phase,      \* what it awaits
    place,      \* the placement it is at
    commands,   \* the commands it has left to run there
    entries,    \* rollback_entries
    verdict,    \* how the last call ended
    calls,
    linkFaults,
    before,     \* history: what each placement was when the call began
    disturbed,  \* history: a timer ran since the call began
    botched,    \* history: placements a rollback did not restore
    unscanned,  \* history: placements whose timers a call could not list
    wiped       \* history: placements where a timer deleted other impairments too

callState == <<op, phase, place, commands, entries, verdict, calls>>
linkHistory == <<before, disturbed, botched, unscanned, wiped>>
linkVars == <<tree, timers, callState, linkFaults, linkHistory>>

Devices == 1..Placements
Levels == 0..MaxLevel
Bands == 1..Cardinality(Selectors)
Scopes == Selectors \cup {NoSelector}

Trees == [root : {"none", "whole", "scoped"}, level : Levels,
          leaf : [Bands -> Levels], filter : [Bands -> Scopes]]
Bare(root, level) == [root |-> root, level |-> level, leaf |-> [b \in Bands |-> 0],
                      filter |-> [b \in Bands |-> NoSelector]]
Clean == Bare("none", 0)

(* An impairment may keep to one end's placement.                          *)
Ops == {o \in [kind : {"impair"}, scope : Scopes, level : Levels, expire : BOOLEAN,
               first : Devices, last : Devices] : o.first <= o.last}
       \cup [kind : {"repair"}, scope : Scopes, level : {0}, expire : {FALSE},
             first : {1}, last : {Placements}]
(* A timer is idle that was launched with nothing to clear, and stale once *)
(* what it would clear was set again.                                      *)
Timers == [place : Devices, scope : Scopes, band : Bands,
           at : {"sleep", "leaf", "check", "root"}, idle : BOOLEAN, stale : BOOLEAN]

LinkTypeOK ==
    /\ tree \in [Devices -> Trees]
    /\ timers \subseteq Timers
    /\ op \in Ops
    /\ phase \in {"idle", "cancelling", "reading", "changing", "arming",
                  "unwinding", "restoring"}
    /\ place \in Devices
    /\ Len(entries) <= Placements
    /\ verdict \in {"none", "done", "failed"}
    /\ calls \in 0..MaxCalls
    /\ linkFaults \in 0..MaxLinkFaults
    /\ before \in [Devices -> Trees]
    /\ disturbed \in BOOLEAN
    /\ botched \subseteq Devices /\ unscanned \subseteq Devices /\ wiped \subseteq Devices

LinkInit ==
    /\ tree = [p \in Devices |-> Clean]
    /\ timers = {}
    /\ op = [kind |-> "repair", scope |-> NoSelector, level |-> 0, expire |-> FALSE,
             first |-> 1, last |-> Placements]
    /\ phase = "idle" /\ place = 1 /\ commands = <<>> /\ entries = <<>>
    /\ verdict = "none" /\ calls = 0 /\ linkFaults = 0
    /\ before = tree
    /\ disturbed = FALSE /\ botched = {} /\ unscanned = {} /\ wiped = {}

----------------------------------------------------------------------------
(* What a tree reads as, and the commands that change it. *)

Leaves(T) == {b \in Bands : T.leaf[b] # 0}
Filtered(T) == {b \in Bands : T.filter[b] # NoSelector}

Kind(T) ==
    CASE T.root = "none" \/ (T.root = "scoped" /\ Leaves(T) \cup Filtered(T) = {}) -> "clean"
      [] T.root = "whole" -> "whole"
      [] T.root = "scoped" /\ Leaves(T) = Filtered(T) /\ Leaves(T) # {} -> "scoped"
      [] OTHER -> "foreign"

ReadAs(T) == IF Kind(T) = "clean" THEN Clean ELSE T
SelectorLevels(T) == {<<T.filter[b], T.leaf[b]>> : b \in Filtered(T)}
BandsOf(T, s) == {b \in Bands : T.filter[b] = s}
(* The band of a selector, or the lowest free one.                         *)
BandFor(T, s) ==
    LET free == Bands \ Leaves(T)
    IN  IF BandsOf(T, s) # {} THEN CHOOSE b \in BandsOf(T, s) : TRUE
        ELSE CHOOSE b \in free : \A c \in free : b <= c

Tc(do, band, scope, level) ==
    [do |-> do, band |-> band, scope |-> scope, level |-> level]
Whole(l) == Tc("whole", 1, NoSelector, l)
Root == Tc("root", 1, NoSelector, 0)
Leaf(b, s, l) == Tc("leaf", b, s, l)
Filter(b, s) == Tc("filter", b, s, 0)
DeleteFilter(b) == Tc("delete filter", b, NoSelector, 0)
DeleteLeaf(b) == Tc("delete leaf", b, NoSelector, 0)
DeleteRoot == Tc("delete root", 1, NoSelector, 0)

(* A command that finds no tree to change fails, which nobody looks at.    *)
Effect(T, c) ==
    CASE c.do = "whole" -> Bare("whole", c.level)
      [] c.do = "root" /\ T.root # "scoped" -> Bare("scoped", 0)
      [] c.do = "leaf" /\ T.root = "scoped" -> [T EXCEPT !.leaf[c.band] = c.level]
      [] c.do = "filter" /\ T.root = "scoped" -> [T EXCEPT !.filter[c.band] = c.scope]
      [] c.do = "delete filter" -> [T EXCEPT !.filter[c.band] = NoSelector]
      [] c.do = "delete leaf" -> [T EXCEPT !.leaf[c.band] = 0]
      [] c.do = "delete root" -> Clean
      [] OTHER -> T

(* The commands of _apply_or_clear, of a selector's removal, of            *)
(* _apply_selector and of _restore_state.                                  *)
ApplyOrClear(l) == IF l = 0 THEN <<DeleteRoot>> ELSE <<Whole(l)>>

ClearSelector(T, s) ==
    IF BandsOf(T, s) = {} THEN <<>>
    ELSE IF Cardinality(Filtered(T)) = 1 THEN <<DeleteRoot>>
    ELSE <<DeleteFilter(BandFor(T, s)), DeleteLeaf(BandFor(T, s))>>

ApplySelector(T, s, l) ==
    LET b == BandFor(T, s)
    IN  IF l = 0 THEN ClearSelector(T, s)
        ELSE (IF Kind(T) = "clean" THEN <<Root>> ELSE <<>>)
             \o <<Leaf(b, s, l)>>
             \o (IF BandsOf(T, s) = {} THEN <<Filter(b, s)>> ELSE <<>>)

(* The i-th command that builds the bands of a list anew, each in two.     *)
Rebuild(T, bands, i) ==
    LET b == bands[(i + 1) \div 2]
    IN  IF i % 2 = 1 THEN Leaf(b, T.filter[b], T.leaf[b]) ELSE Filter(b, T.filter[b])

Restore(T) ==
    LET bands == SetToSeq(Filtered(T))
        rebuilt == [i \in 1..2 * Len(bands) |-> Rebuild(T, bands, i)]
    IN  CASE Kind(T) = "whole" -> <<Whole(T.level)>>
          [] Kind(T) = "scoped" -> <<DeleteRoot, Root>> \o rebuilt
          [] OTHER -> <<DeleteRoot>>

----------------------------------------------------------------------------
(* A call. *)

Begin(o) ==
    /\ phase = "idle" /\ calls < MaxCalls
    /\ calls' = calls + 1
    /\ op' = o /\ phase' = "cancelling" /\ place' = o.first
    /\ commands' = <<>> /\ entries' = <<>> /\ verdict' = "none"
    /\ before' = tree /\ disturbed' = FALSE
    /\ UNCHANGED <<tree, timers, linkFaults, botched, unscanned, wiped>>

Advance ==
    IF place < op.last
    THEN place' = place + 1 /\ phase' = "cancelling" /\ UNCHANGED <<entries, verdict>>
    ELSE phase' = "idle" /\ verdict' = "done" /\ entries' = <<>> /\ UNCHANGED place

(* An impairment rolls back what it registered; a repair does not.         *)
Fails ==
    /\ commands' = <<>>
    /\ IF op.kind = "impair" /\ entries' # <<>>
       THEN phase' = "unwinding" /\ UNCHANGED verdict
       ELSE phase' = "idle" /\ verdict' = "failed"
    /\ UNCHANGED place

Own(t) == t.place = place /\ t.scope = op.scope
Everything == op.kind = "repair" /\ op.scope = NoSelector

(* Wrong: only to make room for a timer of its own.                        *)
CancelTimersReplaced ==
    /\ phase = "cancelling"
    /\ phase' = "reading"
    /\ timers' = {t \in timers : ~(Own(t) /\ op.expire) /\ ~(Everything /\ t.place = place)}
    /\ UNCHANGED <<tree, op, place, commands, entries, verdict, calls, linkFaults, linkHistory>>

(* _cancel_timers: only the call's own, but all of them for a bare repair. *)
(* A host that cannot be reached has none.                                 *)
CancelTimers ==
    /\ phase = "cancelling"
    /\ phase' = "reading"
    /\ \/ /\ timers' = {t \in timers : ~Own(t) /\ ~(Everything /\ t.place = place)}
          /\ UNCHANGED <<linkFaults, unscanned>>
       \/ /\ linkFaults < MaxLinkFaults
          /\ linkFaults' = linkFaults + 1
          /\ unscanned' = unscanned \cup {place}
          /\ UNCHANGED timers
    /\ UNCHANGED <<tree, op, place, commands, entries, verdict, calls,
                   before, disturbed, botched, wiped>>

Refused(T) ==
    \/ Kind(T) = "foreign"
    \/ op.scope # NoSelector /\ Kind(T) = "whole"
    \/ op.kind = "impair" /\ op.scope = NoSelector /\ Kind(T) = "scoped"

(* Between the two commands of a read a timer may take a band down.        *)
Misreads == \E t \in timers : t.place = place /\ t.at \in {"sleep", "leaf"}

Entry(T) == [place |-> place, tree |-> T]

(* The state is read, and refused or changed; what an impairment finds is  *)
(* registered for the rollback first.  A repair that finds nothing to      *)
(* clear goes on.                                                          *)
ReadState ==
    LET T == ReadAs(tree[place])
        asked == IF op.scope = NoSelector THEN ApplyOrClear(op.level)
                 ELSE ApplySelector(T, op.scope, op.level)
        clears == IF op.scope # NoSelector THEN ClearSelector(T, op.scope)
                  ELSE IF T = Clean THEN <<>> ELSE <<DeleteRoot>>
    IN  /\ phase = "reading"
        /\ \/ (Refused(T) \/ Misreads) /\ UNCHANGED entries /\ Fails
           \/ /\ ~Refused(T) /\ op.kind = "impair"
              /\ entries' = Append(entries, Entry(T))
              /\ commands' = asked
              /\ phase' = "changing"
              /\ UNCHANGED <<place, verdict>>
           \/ /\ ~Refused(T) /\ op.kind = "repair"
              /\ commands' = clears
              /\ IF clears = <<>> THEN Advance
                 ELSE phase' = "changing" /\ UNCHANGED <<place, entries, verdict>>
        /\ UNCHANGED <<tree, timers, op, calls, linkFaults, linkHistory>>

(* A command runs; it may set anew what a timer waits to clear.            *)
Runs(c) ==
    LET sets(t) == /\ c.do \in {"whole", "leaf"} /\ c.scope = op.scope
                   /\ t.place = place /\ t.scope = op.scope
    IN  /\ tree' = [tree EXCEPT ![place] = Effect(@, c)]
        /\ timers' = {IF sets(t) THEN [t EXCEPT !.stale = TRUE] ELSE t : t \in timers}

Change ==
    /\ phase \in {"changing", "restoring"} /\ commands # <<>>
    /\ Runs(Head(commands))
    /\ commands' = Tail(commands)
    /\ UNCHANGED <<op, phase, place, entries, verdict, calls, linkFaults,
                   before, disturbed, botched, unscanned, wiped>>

(* The state is what the call asked for, and otherwise as it was.          *)
Expected ==
    LET T == tree[place]
        was == SelectorLevels(Last(entries).tree)
        others == {sl \in was : sl[1] # op.scope}
        mine == IF op.level = 0 THEN {} ELSE {<<op.scope, op.level>>}
    IN  CASE op.kind = "repair" /\ op.scope = NoSelector -> Kind(T) = "clean"
          [] op.kind = "repair" /\ op.scope # NoSelector ->
                BandsOf(T, op.scope) = {} /\ Kind(T) \in {"clean", "scoped"}
          [] op.kind = "impair" /\ op.scope = NoSelector ->
                op.level = (IF Kind(T) = "whole" THEN T.level ELSE 0)
          [] OTHER -> /\ Kind(T) = "scoped" \/ (Kind(T) = "clean" /\ others \cup mine = {})
                      /\ SelectorLevels(T) = others \cup mine

Arms == op.kind = "impair" /\ op.expire /\ ~(op.scope # NoSelector /\ op.level = 0)

Verify ==
    /\ phase = "changing" /\ commands = <<>>
    /\ \/ /\ Expected
          /\ IF Arms THEN phase' = "arming" /\ UNCHANGED <<place, entries, verdict>>
             ELSE Advance
          /\ UNCHANGED commands
       \/ (~Expected \/ Misreads) /\ UNCHANGED entries /\ Fails
    /\ UNCHANGED <<tree, timers, op, calls, linkFaults, linkHistory>>

Launched == timers \cup {[place |-> place, scope |-> op.scope, at |-> "sleep", stale |-> FALSE,
                          idle |-> op.level = 0,
                          band |-> IF op.scope = NoSelector THEN 1
                                   ELSE BandFor(Last(entries).tree, op.scope)]}

Arm ==
    /\ phase = "arming"
    /\ timers' = Launched
    /\ Advance
    /\ UNCHANGED <<tree, op, commands, calls, linkFaults, linkHistory>>

(* Wrong: a placement is registered once it is verified.                   *)
BreaksUnregistered ==
    /\ phase \in {"cancelling", "reading", "changing", "arming"}
    /\ linkFaults < MaxLinkFaults
    /\ linkFaults' = linkFaults + 1
    /\ entries' = IF phase = "changing" /\ op.kind = "impair" THEN Front(entries) ELSE entries
    /\ Fails
    /\ UNCHANGED <<tree, timers, op, calls, linkHistory>>

(* A host cannot be reached, or an interruption lands: the command that    *)
(* was under way took effect or did not.                                   *)
Breaks ==
    /\ phase \in {"cancelling", "reading", "changing", "arming"}
    /\ linkFaults < MaxLinkFaults
    /\ linkFaults' = linkFaults + 1
    /\ UNCHANGED entries /\ Fails
    /\ \/ UNCHANGED <<tree, timers>>
       \/ phase = "changing" /\ commands # <<>> /\ Runs(Head(commands))
       \/ phase = "arming" /\ timers' = Launched /\ UNCHANGED tree
    /\ UNCHANGED <<op, calls, before, disturbed, botched, unscanned, wiped>>

----------------------------------------------------------------------------
(* _rollback. *)

(* Wrong: the timer the call launched stays.                               *)
UnwindLeavingTimer ==
    /\ phase = "unwinding"
    /\ place' = Last(entries).place
    /\ phase' = "restoring"
    /\ commands' = Restore(Last(entries).tree)
    /\ UNCHANGED <<timers, tree, op, entries, verdict, calls, linkFaults, linkHistory>>

(* The last placement first: its timer goes before its tree comes back; as *)
(* ever, a host that cannot be reached has none, and keeps what it has.    *)
Unwind ==
    LET p == Last(entries).place
        own == {t \in timers : t.place = p /\ t.scope = op.scope}
    IN  /\ phase = "unwinding"
        /\ place' = p
        /\ \/ timers' = timers \ own /\ UNCHANGED unscanned
           \/ own # {} /\ unscanned' = unscanned \cup {p} /\ UNCHANGED timers
        /\ phase' = "restoring"
        /\ commands' = Restore(Last(entries).tree)
        /\ UNCHANGED <<tree, op, entries, verdict, calls, linkFaults,
                       before, disturbed, botched, wiped>>

NextEntry ==
    /\ entries' = Front(entries)
    /\ commands' = <<>>
    /\ IF Len(entries) > 1
       THEN phase' = "unwinding" /\ UNCHANGED verdict
       ELSE phase' = "idle" /\ verdict' = "failed"

Restored ==
    /\ phase = "restoring" /\ commands = <<>>
    /\ NextEntry
    /\ UNCHANGED <<tree, timers, op, place, calls, linkFaults, linkHistory>>

(* A placement that cannot be restored does not keep the others from it.   *)
NotRestored ==
    /\ phase \in {"unwinding", "restoring"}
    /\ NextEntry
    /\ botched' = botched \cup {Last(entries).place}
    /\ UNCHANGED <<tree, timers, op, place, calls, linkFaults, before, disturbed, unscanned, wiped>>

(* An interruption's deadline cuts the whole rollback short.               *)
CutShort ==
    /\ phase \in {"unwinding", "restoring"}
    /\ phase' = "idle" /\ verdict' = "failed" /\ commands' = <<>> /\ entries' = <<>>
    /\ botched' = botched \cup {entries[i].place : i \in DOMAIN entries}
    /\ UNCHANGED <<tree, timers, op, place, calls, linkFaults, before, disturbed, unscanned, wiped>>

----------------------------------------------------------------------------
(* A timer: its script goes on while its commands succeed. *)

(* A timer's step deletes a root with other impairments under it, or with  *)
(* those a rollback is putting back.                                       *)
WipesOthers(t) ==
    LET T == tree[t.place]
    IN  /\ T # Clean /\ tree'[t.place] = Clean
        /\ \/ ReadAs(T) # Clean /\ (t.at = "root" \/ T.root = "scoped")
           \/ phase = "restoring" /\ place = t.place

TimerStep(t) ==
    LET T == tree[t.place]
        on(where) == timers' = (timers \ {t}) \cup {[t EXCEPT !.at = where]}
        ends == timers' = timers \ {t}
        runs(c) == tree' = [tree EXCEPT ![t.place] = Effect(@, c)]
    IN  /\ t \in timers
        /\ disturbed' = TRUE
        /\ \/ /\ t.at = "sleep" /\ t.scope # NoSelector
              /\ IF T.filter[t.band] # NoSelector
                 THEN runs(DeleteFilter(t.band)) /\ on("leaf")
                 ELSE ends /\ UNCHANGED tree
           \/ /\ t.at = "leaf"
              /\ IF T.leaf[t.band] # 0
                 THEN runs(DeleteLeaf(t.band)) /\ on("check")
                 ELSE ends /\ UNCHANGED tree
           \/ /\ t.at = "check"
              /\ IF Filtered(T) = {} THEN on("root") ELSE ends
              /\ UNCHANGED tree
           \/ /\ t.at = "root" \/ (t.at = "sleep" /\ t.scope = NoSelector)
              /\ runs(DeleteRoot) /\ ends
        /\ wiped' = IF WipesOthers(t) THEN wiped \cup {t.place} ELSE wiped
        /\ UNCHANGED <<callState, linkFaults, before, botched, unscanned>>

CallOnLink ==
    \/ \E o \in Ops : Begin(o)
    \/ CancelTimers \/ ReadState \/ Change \/ Verify \/ Arm \/ Breaks
    \/ Unwind \/ Restored \/ NotRestored \/ CutShort

LinkNext == CallOnLink \/ \E t \in timers : TimerStep(t)

LinkSpec == LinkInit /\ [][LinkNext]_linkVars

----------------------------------------------------------------------------
(* Properties. *)

(* No half-impairments: a call that fails, or is interrupted, leaves every *)
(* placement as it found it, however far it came; unless the rollback was  *)
(* itself broken off, or a timer ran meanwhile.                            *)
NoHalfImpairment ==
    phase = "idle" /\ verdict = "failed" /\ op.kind = "impair" /\ ~disturbed =>
        \A p \in Devices \ botched : ReadAs(tree[p]) = ReadAs(before[p])

(* A timer that waits will clear nothing but the impairment it was         *)
(* launched with: no later call's, no other selector's that has its band,  *)
(* and nothing a rollback restored; but for placements whose timers a call *)
(* could not list, a rollback did not restore or a timer wiped, and for a  *)
(* timer launched when there was no impairment to clear.                   *)
TimerClearsItsOwn ==
    \A t \in timers : t.at = "sleep" /\ ~t.idle
                      /\ t.place \notin unscanned \cup botched \cup wiped =>
        LET T == tree[t.place]
        IN  IF t.scope = NoSelector
            THEN Kind(T) = "clean" \/ (Kind(T) = "whole" /\ ~t.stale)
            ELSE \/ T.filter[t.band] = NoSelector
                 \/ T.filter[t.band] = t.scope /\ ~t.stale

(* A call that succeeds has set every placement, and the timers that will  *)
(* clear it are the ones it asked for.                                     *)
ImpairedAsAsked ==
    phase = "idle" /\ verdict = "done" /\ op.kind = "impair" /\ ~disturbed =>
        \A p \in op.first..op.last :
            /\ IF op.scope = NoSelector
               THEN (IF Kind(tree[p]) = "whole" THEN tree[p].level ELSE 0) = op.level
               ELSE {sl \in SelectorLevels(tree[p]) : sl[1] = op.scope} =
                    (IF op.level = 0 THEN {} ELSE {<<op.scope, op.level>>})
            /\ p \notin unscanned =>
                  {t.stale : t \in {u \in timers : u.place = p /\ u.scope = op.scope}} =
                  (IF Arms THEN {FALSE} ELSE {})

(* "Scoped state can't hold v1 timers, exclusivity guarantees it": no timer*)
(* of a whole-link impairment waits on a device with port-scoped ones.     *)
WholeTimersFindNoScoped ==
    \A t \in timers : t.at = "sleep" /\ t.scope = NoSelector
                      /\ t.place \notin unscanned \cup botched =>
        Kind(tree[t.place]) # "scoped"

=============================================================================
