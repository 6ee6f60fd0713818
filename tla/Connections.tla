----------------------------- MODULE Connections -----------------------------
(***************************************************************************)
(* ConnectionManager of src/otto/host/connections.py: one cached           *)
(* connection of each kind, opened on demand, and close(), which takes     *)
(* them all and releases them one by one.                                  *)
(*                                                                         *)
(* Opening awaits a dial, and for most kinds a login or a hook; whoever    *)
(* opens has the lock of the slot and publishes at the end.  close() takes *)
(* no lock, and forgets the locks of the per-user slots.  A telnet or      *)
(* console client ("line") is also closed by the shell session built on    *)
(* it: the first to take its stream drains and releases it, any other      *)
(* closer waits (src/otto/host/telnet.py: _StreamHolder).                  *)
(*                                                                         *)
(* The host is reached directly; what a hop adds is HopTransport's.  One   *)
(* user, besides the login's, has connections of its own.                  *)
(***************************************************************************)
EXTENDS Naturals, Sequences, FiniteSetsExt

CONSTANTS
    Callers,        \* tasks of the host's loop
    MaxConnections, \* bound on the connections opened
    MaxManagerCloses

ASSUME ConnectionAssumption == MaxConnections \in Nat /\ MaxManagerCloses \in Nat

VARIABLES
    caller,    \* what each caller awaits, and its locals
    cached,    \* the connection in each slot; 0 is None
    lockDict,  \* which _user_locks is in use: it is replaced by each close
    made,      \* the connections opened so far: their slot, and what they ride on
    up,        \* those that are open
    draining,  \* line clients whose stream a closer took and did not release yet
    left       \* history: connections that a known gap left to nobody

connVars == <<caller, cached, lockDict, made, up, draining, left>>

Ssh == {"ssh", "user_ssh"}
Base == [sftp |-> "ssh", user_sftp |-> "user_ssh"]
Channels == DOMAIN Base
UserSlots == {"user_ssh", "user_sftp"}
Slots == Ssh \cup Channels \cup {"ftp", "line"}

(* The order of close().  An SFTP client's exit is not awaited. *)
Order == <<"line", "user_sftp", "user_ssh", "sftp", "ssh", "ftp">>

Nothing == [s \in Slots |-> 0]
AtRest == [at |-> "rest", slot |-> "ssh", outer |-> "ssh", on |-> 0, holds |-> {},
           lock |-> <<"ssh", 0>>, taken |-> Nothing, step |-> 0, takes |-> FALSE]

ConnTypeOK ==
    /\ \A t \in Callers :
          /\ caller[t].at \in {"rest", "locking", "stale", "dialing", "settling",
                               "failing", "closing"}
          /\ caller[t].slot \in Slots /\ caller[t].outer \in Slots
          /\ caller[t].on \in 0..Len(made)
          /\ caller[t].holds \cup {caller[t].lock} \subseteq Slots \X (0..MaxManagerCloses)
          /\ caller[t].taken \in [Slots -> 0..Len(made)]
          /\ caller[t].step \in 0..Len(Order) /\ caller[t].takes \in BOOLEAN
    /\ cached \in [Slots -> 0..Len(made)]
    /\ lockDict \in 0..MaxManagerCloses
    /\ Len(made) <= MaxConnections
    /\ \A c \in DOMAIN made : made[c] \in [slot : Slots, on : 0..MaxConnections]
    /\ draining \subseteq up /\ up \subseteq DOMAIN made /\ left \subseteq DOMAIN made

ConnInit ==
    /\ caller = [t \in Callers |-> AtRest]
    /\ cached = Nothing
    /\ lockDict = 0
    /\ made = <<>>
    /\ up = {} /\ draining = {} /\ left = {}

----------------------------------------------------------------------------
LockOf(s) == <<s, IF s \in UserSlots THEN lockDict ELSE 0>>
Without(holds, s) == {l \in holds : l[1] # s}
Contested(l) ==
    \E t \in Callers : l \in caller[t].holds \/ (caller[t].at = "locking" /\ caller[t].lock = l)

(* A line client is looked at again before it is handed out, the other     *)
(* connections are not.                                                    *)
Usable(s) == cached[s] # 0 /\ (s = "line" => cached[s] \in up \ draining)

(* A connection's end takes what rides on it along. *)
WithRiders(c) == {c} \cup {d \in DOMAIN made : made[d].on = c}

Moves(t, r) == caller' = [caller EXCEPT ![t] = r]

(* The caller has r's slot: what it asked for, or what its SFTP client,    *)
(* which it starts next, rides on.                                         *)
Gains(t, r, c) ==
    Moves(t, IF r.slot = r.outer THEN AtRest
             ELSE [r EXCEPT !.at = "dialing", !.slot = r.outer, !.on = c])

(* With the lock of r's slot, and no usable connection there: a line       *)
(* client that somebody releases is waited for.                            *)
Dials(t, r) ==
    IF cached[r.slot] \in up
    THEN Moves(t, [r EXCEPT !.at = "stale", !.on = cached[r.slot]]) /\ UNCHANGED cached
    ELSE /\ Moves(t, [r EXCEPT !.at = "dialing", !.on = 0])
         /\ cached' = [cached EXCEPT ![r.slot] = 0]

(* ssh, ssh_as, ftp, telnet, console, to the first await. *)
Seeks(t, r) ==
    IF Usable(r.slot) THEN Gains(t, r, cached[r.slot]) /\ UNCHANGED cached
    ELSE IF Contested(LockOf(r.slot))
    THEN Moves(t, [r EXCEPT !.at = "locking", !.lock = LockOf(r.slot)]) /\ UNCHANGED cached
    ELSE Dials(t, [r EXCEPT !.holds = @ \cup {LockOf(r.slot)}])

(* sftp and sftp_as look for their connection inside their own lock.       *)
SeeksBase(t, r) == Seeks(t, [r EXCEPT !.slot = Base[r.outer]])

Ask(t, s) ==
    LET r == [AtRest EXCEPT !.slot = s, !.outer = s, !.lock = LockOf(s)] IN
    /\ caller[t].at = "rest"
    /\ ~Usable(s)
    /\ IF s \notin Channels THEN Seeks(t, r)
       ELSE IF Contested(LockOf(s))
       THEN Moves(t, [r EXCEPT !.at = "locking"]) /\ UNCHANGED cached
       ELSE SeeksBase(t, [r EXCEPT !.holds = {LockOf(s)}])
    /\ UNCHANGED <<lockDict, made, up, draining, left>>

(* Wrong: nobody looks at the slot again. *)
LockWithoutLook(t) ==
    LET r == caller[t]
        locked == [r EXCEPT !.holds = @ \cup {r.lock}]
    IN  /\ r.at = "locking"
        /\ \A o \in Callers : r.lock \notin caller[o].holds
        /\ IF r.slot \in Channels THEN SeeksBase(t, locked) ELSE Dials(t, locked)
        /\ UNCHANGED <<lockDict, made, up, draining, left>>

(* It gets the lock, and looks again.                                      *)
GetsLock(t) ==
    LET r == caller[t]
        locked == [r EXCEPT !.holds = @ \cup {r.lock}]
    IN  /\ r.at = "locking"
        /\ \A o \in Callers : r.lock \notin caller[o].holds
        /\ IF Usable(r.slot) THEN Gains(t, r, cached[r.slot]) /\ UNCHANGED cached
           ELSE IF r.slot \in Channels THEN SeeksBase(t, locked)
           ELSE Dials(t, locked)
        /\ UNCHANGED <<lockDict, made, up, draining, left>>

(* The dead line client is gone; its slot is cleared.                      *)
StaleIsGone(t) ==
    /\ caller[t].at = "stale" /\ caller[t].on \notin up
    /\ Moves(t, [caller[t] EXCEPT !.at = "dialing", !.on = 0])
    /\ cached' = [cached EXCEPT !["line"] = 0]
    /\ UNCHANGED <<lockDict, made, up, draining, left>>

(* The connection is published.  One that is there already loses its       *)
(* place, which happens to a user's, whose lock a close has forgotten.     *)
Publish(t, r, c) ==
    /\ cached' = [cached EXCEPT ![r.slot] = c]
    /\ Gains(t, [r EXCEPT !.holds = Without(@, r.slot)], c)
    /\ left' = left \cup (IF r.slot \in UserSlots THEN {cached[r.slot]} \ {0} ELSE {})

(* The dial succeeds; an SFTP client's only while what it rides on is      *)
(* there.  Next is a login, or the options' forwards and hook if there are *)
(* any; none of that for SFTP.                                             *)
Connects(t) ==
    LET r == caller[t]
        c == Len(made) + 1
    IN  /\ r.at = "dialing"
        /\ r.slot \in Channels => r.on \in up
        /\ c <= MaxConnections
        /\ made' = Append(made, [slot |-> r.slot, on |-> r.on])
        /\ up' = up \cup {c}
        /\ \/ r.slot \in Ssh \cup Channels /\ Publish(t, r, c)
           \/ /\ r.slot \notin Channels
              /\ Moves(t, [r EXCEPT !.at = "settling", !.on = c])
              /\ UNCHANGED <<cached, left>>
        /\ UNCHANGED <<lockDict, draining>>

Settles(t) ==
    LET r == caller[t] IN
    /\ r.at = "settling"
    /\ Publish(t, r, r.on)
    /\ UNCHANGED <<lockDict, made, up, draining>>

----------------------------------------------------------------------------
(* A call fails, or is cancelled, where it waits.  A half-built line is    *)
(* released first, an FTP client closed at once.  An ssh connection whose  *)
(* hook failed is nobody's.                                                *)
Breaks(t) ==
    LET r == caller[t] IN
    /\ r.at \in {"locking", "stale", "dialing", "settling"}
    /\ IF r.at = "settling" /\ r.slot = "line"
       THEN /\ Moves(t, [r EXCEPT !.at = "failing"])
            /\ draining' = draining \cup {r.on}
            /\ UNCHANGED <<up, left>>
       ELSE /\ Moves(t, AtRest)
            /\ up' = IF r.at = "settling" /\ r.slot = "ftp" THEN up \ {r.on} ELSE up
            /\ left' = IF r.at = "settling" /\ r.slot \in Ssh THEN left \cup {r.on} ELSE left
            /\ UNCHANGED draining
    /\ UNCHANGED <<cached, lockDict, made>>

(* The half-built line is gone, and the call raises. *)
HasFailed(t) ==
    /\ caller[t].at = "failing" /\ caller[t].on \notin up
    /\ Moves(t, AtRest)
    /\ UNCHANGED <<cached, lockDict, made, up, draining, left>>

(* Wrong: a cancelled release just lets go of the stream it took. *)
LetsGo(c) == draining' = draining \ {c} /\ UNCHANGED up

(* A cancelled release aborts the stream it took. *)
Aborts(c) == up' = up \ {c} /\ draining' = draining \ {c}

FailingIsCut(t) ==
    /\ caller[t].at = "failing"
    /\ Moves(t, AtRest)
    /\ Aborts(caller[t].on)
    /\ UNCHANGED <<cached, lockDict, made, left>>

(* A taken stream is drained and released, or its deadline aborts it.      *)
StreamReleased(c) ==
    /\ c \in draining
    /\ Aborts(c)
    /\ UNCHANGED <<caller, cached, lockDict, made, left>>

(* The shell session on a line closes it; the manager's slot keeps it.     *)
SessionTakes ==
    /\ Usable("line")
    /\ draining' = draining \cup {cached["line"]}
    /\ UNCHANGED <<caller, cached, lockDict, made, up, left>>

----------------------------------------------------------------------------
(* close(), from step i of its order to the next await, with `ended' the   *)
(* connections that went so far.  An ssh connection is closed before its   *)
(* end is awaited; FTP is told to quit first.                              *)
ReleasesFrom(t, taken, i, ended) ==
    LET due == {j \in DOMAIN Order : j > i /\ taken[Order[j]] \in up}
        awaited == {j \in due : Order[j] \notin Channels}
        j == IF awaited = {} THEN Len(Order) + 1 ELSE Min(awaited)
        exits == {taken[Order[k]] : k \in {k \in due : k < j}}
        c == taken[Order[j]]
    IN  IF awaited = {}
        THEN /\ Moves(t, AtRest)
             /\ up' = up \ (ended \cup exits)
             /\ UNCHANGED draining
        ELSE /\ Moves(t, [AtRest EXCEPT !.at = "closing", !.taken = taken, !.step = j,
                             !.takes = Order[j] = "line" /\ c \notin draining])
             /\ up' = up \ (ended \cup exits
                              \cup (IF Order[j] \in Ssh THEN WithRiders(c) ELSE {}))
             /\ draining' = IF Order[j] = "line" THEN draining \cup {c} ELSE draining

ManagerCloses(t) ==
    /\ caller[t].at = "rest"
    /\ lockDict < MaxManagerCloses
    /\ lockDict' = lockDict + 1
    /\ cached' = Nothing
    /\ ReleasesFrom(t, cached, 0, {})
    /\ UNCHANGED <<made, left>>

(* The awaited step ends.  A failing one is logged and the next begins: an *)
(* FTP client that could not quit stays open.                              *)
StepEnds(t) ==
    LET r == caller[t]
        c == r.taken[Order[r.step]]
    IN  /\ r.at = "closing"
        /\ Order[r.step] = "line" => c \notin up
        /\ \/ /\ ReleasesFrom(t, r.taken, r.step, {c})
              /\ UNCHANGED left
           \/ /\ Order[r.step] = "ftp"
              /\ ReleasesFrom(t, r.taken, r.step, {})
              /\ left' = left \cup {c}
        /\ UNCHANGED <<cached, lockDict, made>>

(* The close is cancelled: it aborts the line it releases and leaves what  *)
(* it took and did not come to.                                            *)
CloseIsCut(t) ==
    LET r == caller[t]
        rest == {r.taken[Order[j]] : j \in r.step..Len(Order)} \cap up
    IN  /\ r.at = "closing"
        /\ Moves(t, AtRest)
        /\ IF r.takes THEN Aborts(r.taken["line"]) ELSE UNCHANGED <<up, draining>>
        /\ left' = left \cup {c \in rest : made[c].slot # "line"}
        /\ UNCHANGED <<cached, lockDict, made>>

ConnNext ==
    \/ \E t \in Callers :
          \/ \E s \in Slots : Ask(t, s)
          \/ GetsLock(t) \/ StaleIsGone(t) \/ Connects(t) \/ Settles(t)
          \/ Breaks(t) \/ HasFailed(t) \/ FailingIsCut(t)
          \/ ManagerCloses(t) \/ StepEnds(t) \/ CloseIsCut(t)
    \/ \E c \in draining : StreamReleased(c)
    \/ SessionTakes

ConnSpec == ConnInit /\ [][ConnNext]_connVars

----------------------------------------------------------------------------
(* Properties. *)

Hands(t) ==
    CASE caller[t].at \in {"settling", "failing"} -> {caller[t].on}
      [] caller[t].at = "closing" ->
            {caller[t].taken[Order[j]] : j \in caller[t].step..Len(Order)}
      [] OTHER -> {}

(* No connection leaks: each one that is open is in its slot, where a      *)
(* close finds it, or in the hands of who opens or closes it, or drains.   *)
(* Left out, by name: an ssh connection whose hook failed, a user's that   *)
(* another displaced because a close forgot the lock between them, and     *)
(* what a close took and did not release because it was cancelled or FTP   *)
(* did not quit.  A line is never left.                                    *)
ConnectionsAreHeld ==
    \A c \in up : \/ cached[made[c].slot] = c
                  \/ \E t \in Callers : c \in Hands(t)
                  \/ c \in draining
                  \/ c \in left

(* Every wait has somebody who ends it: who holds a lock that is waited    *)
(* for dials, logs in or releases, or has an SFTP client's lock and waits  *)
(* for its connection's, which nobody waits inside of; and who waits for   *)
(* the end of a line that another took finds it draining or gone, however  *)
(* often its releases were cancelled.                                      *)
AwaitsLine(t) ==
    \/ caller[t].at \in {"stale", "failing"}
    \/ caller[t].at = "closing" /\ Order[caller[t].step] = "line"
Awaited(t) == IF caller[t].at = "closing" THEN caller[t].taken["line"] ELSE caller[t].on

WaitsAreServed ==
    \A t \in Callers :
        /\ caller[t].at = "locking" =>
              \A o \in Callers : caller[t].lock \in caller[o].holds =>
                  \/ caller[o].at \in {"stale", "dialing", "settling", "failing"}
                  \/ /\ caller[o].at = "locking"
                     /\ caller[t].lock[1] \in Channels /\ caller[o].lock[1] \in Ssh
        /\ AwaitsLine(t) => Awaited(t) \in draining \/ Awaited(t) \notin up

=============================================================================
