--------------------------- MODULE SessionManager ---------------------------
(***************************************************************************)
(* SessionManager of src/otto/host/session.py: the default session of a    *)
(* host, its named ones, and the pool of those that exec borrows.          *)
(*                                                                         *)
(* A session is opened under the lock of its name, by a handshake, the     *)
(* login's hops and a setup hook, each of which may fail or be cancelled.  *)
(* An exec borrows an idle session, may switch its user for the one        *)
(* command, and gives it back.  close_all takes no lock.                   *)
(***************************************************************************)
EXTENDS Naturals, Sequences, FiniteSets

CONSTANTS
    Tasks,        \* callers
    Names,        \* names of sessions, the default one's among them
    Default,
    Pool,         \* stands for the exec pool's names, each used once
    MaxSessions   \* bound on the sessions built

ASSUME NameAssumption ==
    Default \in Names /\ Pool \notin Names /\ MaxSessions \in Nat /\ IsFiniteSet(Tasks)

Sessions == 1..MaxSessions
None == 0
Idle == [at |-> "idle", name |-> Default, lock |-> 0, s |-> None, tried |-> FALSE,
         was |-> FALSE, switched |-> FALSE, met |-> FALSE]

VARIABLES
    task,         \* what each caller awaits, and its locals
    slot,         \* _session and _named_sessions: the session of a name
    pooled,       \* the names of the pool's sessions in _named_sessions
    pool,         \* _exec_pool
    locks,        \* _named_session_locks: which lock is a name's now; 0 is none
    built,        \* sessions built so far
    open,         \* sessions with a transport
    living,        \* sessions whose _alive is set
    told,         \* sessions whose current_user is not the login's
    other,        \* sessions whose shell runs as another user
    closer,       \* what close_all awaits
    closing,      \* the sessions it has to close
    nameOf,       \* history: the name each session was stored under
    overtaken,    \* history: sessions opened while a close_all ran
    evicted       \* history: sessions an overtaken one, or an older one's close, displaced

registry == <<slot, pooled, pool, locks>>
sessions == <<built, open, living, told, other>>
closeVars == <<closer, closing>>
historyVars == <<nameOf, overtaken, evicted>>
vars == <<task, registry, sessions, closeVars, historyVars>>

Locks == 0..Cardinality(Tasks) + 1
Opening == {"retiring", "building", "landing", "failing"}
Execing == {"switching", "running", "undoing"}

TypeOK ==
    /\ task \in [Tasks -> [at : Opening \cup Execing \cup
                                 {"idle", "waiting", "using", "releasing", "discarding"},
                           name : Names \cup {Pool}, lock : Locks,
                           s : 0..MaxSessions, tried : BOOLEAN, was : BOOLEAN,
                           switched : BOOLEAN, met : BOOLEAN]]
    /\ slot \in [Names -> 0..MaxSessions]
    /\ pooled \subseteq Sessions
    /\ pool \in Seq(Sessions)
    /\ locks \in [Names -> Locks]
    /\ built \in 0..MaxSessions
    /\ open \subseteq 1..built /\ living \subseteq open
    /\ told \subseteq Sessions /\ other \subseteq Sessions
    /\ closer \in {"idle", "default", "named"}
    /\ closing \subseteq Sessions
    /\ nameOf \in [Sessions -> Names \cup {Pool}]
    /\ overtaken \subseteq Sessions /\ evicted \subseteq Sessions

Init ==
    /\ task = [t \in Tasks |-> Idle]
    /\ slot = [n \in Names |-> None]
    /\ pooled = {} /\ pool = <<>>
    /\ locks = [n \in Names |-> IF n = Default THEN 1 ELSE 0]
    /\ built = 0 /\ open = {} /\ living = {} /\ told = {} /\ other = {}
    /\ closer = "idle" /\ closing = {}
    /\ nameOf = [s \in Sessions |-> Pool]
    /\ overtaken = {} /\ evicted = {}

Alive(n) == slot[n] \in living
Goes(t, where) == task' = [task EXCEPT ![t].at = where]
Finds(t, n, s) == task' = [task EXCEPT ![t] = [Idle EXCEPT !.at = "using", !.name = n, !.s = s]]
Ends(t) == task' = [task EXCEPT ![t] = Idle]

(* Wrong: its flag stays as it was.                                        *)
ShutStillAlive(s, displaced) ==
    /\ open' = open \ {s}
    /\ told' = told \ {s} /\ other' = other \ {s}
    /\ nameOf' = [nameOf EXCEPT ![s] = Pool]
    /\ overtaken' = overtaken \ {s}
    /\ evicted' = (evicted \cup displaced) \ {s}
    /\ UNCHANGED <<built, living>>

(* A session is closed, and nothing is kept of it; another may be displaced.*)
ShutAndDisplace(s, displaced) ==
    /\ open' = open \ {s} /\ living' = living \ {s}
    /\ told' = told \ {s} /\ other' = other \ {s}
    /\ nameOf' = [nameOf EXCEPT ![s] = Pool]
    /\ overtaken' = overtaken \ {s}
    /\ evicted' = (evicted \cup displaced) \ {s}
    /\ UNCHANGED built
Shut(s) == ShutAndDisplace(s, {})

----------------------------------------------------------------------------
(* _ensure_session and open_session. *)

(* The live session is taken without the lock; else the name's lock is     *)
(* asked for, and made when the name has none.                             *)
Want(t, n) ==
    /\ task[t].at = "idle"
    /\ IF Alive(n)
       THEN Finds(t, n, slot[n]) /\ UNCHANGED locks
       ELSE LET used == {task[u].lock : u \in {v \in Tasks : task[v].name = n}}
                fresh == CHOOSE l \in Locks \ {0} : l \notin used
                mine == IF locks[n] = 0 THEN fresh ELSE locks[n]
            IN  /\ locks' = [locks EXCEPT ![n] = mine]
                /\ task' = [task EXCEPT ![t] = [Idle EXCEPT !.at = "waiting", !.name = n,
                                                !.lock = mine, !.met = closer # "idle"]]
    /\ UNCHANGED <<slot, pooled, pool, sessions, closeVars, historyVars>>

Free(n, l) == \A u \in Tasks : ~(task[u].name = n /\ task[u].lock = l /\ task[u].at \in Opening)

(* Wrong: without the lock.                                                *)
AcquireUnlocked(t) ==
    LET n == task[t].name
    IN  /\ task[t].at = "waiting"
        /\ IF Alive(n) THEN Finds(t, n, slot[n])
           ELSE IF slot[n] # None
                THEN task' = [task EXCEPT ![t].at = "retiring", ![t].s = slot[n]]
                ELSE Goes(t, "building")
        /\ UNCHANGED <<registry, sessions, closeVars, historyVars>>

(* The lock is acquired and the session looked for again; a dead one is    *)
(* closed first.                                                           *)
Acquire(t) ==
    LET n == task[t].name
    IN  /\ task[t].at = "waiting" /\ Free(n, task[t].lock)
        /\ IF Alive(n) THEN Finds(t, n, slot[n])
           ELSE IF slot[n] # None
                THEN task' = [task EXCEPT ![t].at = "retiring", ![t].s = slot[n]]
                ELSE Goes(t, "building")
        /\ UNCHANGED <<registry, sessions, closeVars, historyVars>>

Retire(t) ==
    /\ task[t].at = "retiring"
    /\ Shut(task[t].s)
    /\ task' = [task EXCEPT ![t].at = "building", ![t].s = None]
    /\ UNCHANGED <<registry, closeVars>>

(* The transport is open; or it is not, and its own code cleaned up.       *)
Build(t) ==
    /\ task[t].at = "building"
    /\ \/ /\ built < MaxSessions
          /\ built' = built + 1 /\ open' = open \cup {built'}
          /\ task' = [task EXCEPT ![t].at = "landing", ![t].s = built']
       \/ Ends(t) /\ UNCHANGED <<built, open>>
    /\ UNCHANGED <<living, told, other, registry, closeVars, historyVars>>

(* Handshake, hops and hook are through: the session is stored.            *)
Land(t) ==
    LET n == task[t].name
        s == task[t].s
    IN  /\ task[t].at = "landing"
        /\ living' = living \cup {s}
        /\ nameOf' = [nameOf EXCEPT ![s] = n]
        /\ IF task[t].met
           THEN /\ overtaken' = overtaken \cup {s}
                /\ evicted' = evicted \cup (IF n = Pool THEN {} ELSE {slot[n]} \cap open)
           ELSE UNCHANGED <<overtaken, evicted>>
        /\ IF n = Pool
           THEN pooled' = pooled \cup {s} /\ UNCHANGED slot
           ELSE slot' = [slot EXCEPT ![n] = s] /\ UNCHANGED pooled
        /\ IF n = Pool
           THEN task' = [task EXCEPT ![t].at = IF task[t].switched THEN "switching" ELSE "running"]
           ELSE Finds(t, n, s)
        /\ UNCHANGED <<pool, locks, built, open, told, other, closeVars>>

(* Wrong: only the handshake closes what it failed on.                     *)
FailLandingLeaving(t) ==
    /\ task[t].at = "landing"
    /\ Goes(t, "failing") \/ Ends(t)
    /\ UNCHANGED <<registry, sessions, closeVars, historyVars>>

(* One of them fails or the caller is cancelled: the session is closed.    *)
FailLanding(t) ==
    /\ task[t].at = "landing"
    /\ Goes(t, "failing")
    /\ UNCHANGED <<registry, sessions, closeVars, historyVars>>

(* The failure is raised; the default session's first handshake is retried.*)
Failed(t) ==
    /\ task[t].at = "failing"
    /\ Shut(task[t].s)
    /\ \/ Ends(t)
       \/ /\ task[t].name = Default /\ ~task[t].tried
          /\ task' = [task EXCEPT ![t].at = "building", ![t].s = None, ![t].tried = TRUE]
    /\ UNCHANGED <<registry, closeVars>>

(* A caller lets its session be, or closes it when it has a name of its    *)
(* own; the name goes out of the registry with whatever it stands for.     *)
LetBe(t) ==
    /\ task[t].at = "using"
    /\ Ends(t)
    /\ UNCHANGED <<registry, sessions, closeVars, historyVars>>

Release(t) ==
    /\ task[t].at = "using" /\ task[t].name # Default
    /\ Goes(t, "releasing")
    /\ UNCHANGED <<registry, sessions, closeVars, historyVars>>

Released(t) ==
    LET n == task[t].name
        s == task[t].s
    IN  /\ task[t].at = "releasing"
        /\ ShutAndDisplace(s, {slot[n]} \cap open)
        /\ slot' = [slot EXCEPT ![n] = None]
        /\ Ends(t)
        /\ UNCHANGED <<pooled, pool, locks, closeVars>>

(* A shell or its transport dies, or a recovery gives it up.               *)
Die(s) ==
    /\ s \in living
    /\ living' = living \ {s}
    /\ UNCHANGED <<task, registry, built, open, told, other, closeVars, historyVars>>

----------------------------------------------------------------------------
(* _exec_pooled. *)

LastAlive == {i \in DOMAIN pool : pool[i] \in living /\ \A j \in i + 1..Len(pool) : pool[j] \notin living}

(* An idle session is popped, with the dead ones above it; or one is       *)
(* opened.  With a user, the switch comes next.                            *)
Exec(t, user) ==
    /\ task[t].at = "idle"
    /\ IF LastAlive = {}
       THEN /\ pool' = <<>>
            /\ task' = [task EXCEPT ![t] = [Idle EXCEPT !.at = "building", !.name = Pool,
                                            !.switched = user, !.met = closer # "idle"]]
       ELSE \E i \in LastAlive :
               /\ pool' = SubSeq(pool, 1, i - 1)
               /\ task' = [task EXCEPT ![t] =
                    [Idle EXCEPT !.at = IF user THEN "switching" ELSE "running", !.name = Pool,
                                 !.s = pool[i], !.was = pool[i] \in told, !.switched = user]]
    /\ UNCHANGED <<slot, pooled, locks, sessions, closeVars, historyVars>>

Discards(t) == Goes(t, "discarding") /\ UNCHANGED pool

(* The finally: back to the pool, or closed.                               *)
(* Wrong: a live session goes back.                                        *)
GiveBackLive(t, ok, as) ==
    LET s == task[t].s
    IN  IF s \in living
        THEN pool' = Append(pool, s) /\ Ends(t)
        ELSE Discards(t)

GiveBack(t, ok, as) ==
    LET s == task[t].s
    IN  IF s \in living /\ ok /\ as = task[t].was
        THEN pool' = Append(pool, s) /\ Ends(t)
        ELSE Discards(t)

(* The switch ends, fails or is cancelled on its way.                      *)
Switch(t) ==
    LET s == task[t].s
    IN  /\ task[t].at = "switching"
        /\ \/ /\ s \in living
              /\ told' = told \cup {s} /\ other' = other \cup {s}
              /\ Goes(t, "running") /\ UNCHANGED pool
           \/ /\ other' \in {other, other \cup {s}}
              /\ GiveBack(t, FALSE, s \in told)
              /\ UNCHANGED told
        /\ UNCHANGED <<built, open, living, slot, pooled, locks, closeVars, historyVars>>

(* The command ends, whatever its end; a switch is undone, shielded.       *)
Ran(t) ==
    LET s == task[t].s
    IN  /\ task[t].at = "running"
        /\ IF task[t].switched
           THEN Goes(t, "undoing") /\ UNCHANGED pool
           ELSE GiveBack(t, TRUE, s \in told)
        /\ UNCHANGED <<sessions, slot, pooled, locks, closeVars, historyVars>>

(* The undo is through; or it fails, or its deadline cuts it, on its way.  *)
Undo(t) ==
    LET s == task[t].s
    IN  /\ task[t].at = "undoing"
        /\ \/ /\ s \in living
              /\ told' = told \ {s} /\ other' = other \ {s}
              /\ GiveBack(t, TRUE, FALSE)
           \/ /\ other' \in {other, other \ {s}}
              /\ GiveBack(t, TRUE, s \in told)
              /\ UNCHANGED told
        /\ UNCHANGED <<built, open, living, slot, pooled, locks, closeVars, historyVars>>

Discarded(t) ==
    LET s == task[t].s
    IN  /\ task[t].at = "discarding"
        /\ Shut(s)
        /\ pooled' = pooled \ {s}
        /\ Ends(t)
        /\ UNCHANGED <<slot, pool, locks, closeVars>>

----------------------------------------------------------------------------
(* close_all. *)

(* Whoever is opening a session meets this close.                          *)
Meet == task' = [t \in Tasks |->
                   IF task[t].at \in Opening \cup {"waiting"} THEN [task[t] EXCEPT !.met = TRUE]
                   ELSE task[t]]

Named == ({slot[n] : n \in Names \ {Default}} \cup pooled) \ {None}

(* The sessions of the registry as it is now; and what follows the last.   *)
CloseNamed(now, named) ==
    IF named # {}
    THEN /\ closer' = "named" /\ closing' = named
         /\ slot' = now
         /\ UNCHANGED <<pooled, locks>>
    ELSE /\ closer' = "idle" /\ closing' = {}
         /\ slot' = now
         /\ pooled' = pooled
         /\ locks' = [n \in Names |-> IF n = Default THEN 1 ELSE 0]

CloseAll ==
    /\ closer = "idle"
    /\ built > 0
    /\ Meet
    /\ IF slot[Default] # None
       THEN /\ closer' = "default" /\ closing' = {slot[Default]}
            /\ UNCHANGED <<slot, pooled, locks>>
       ELSE CloseNamed(slot, Named)
    /\ UNCHANGED <<pool, sessions, historyVars>>

(* The default session is closed, and whatever the slot has now is dropped.*)
DefaultClosed ==
    /\ closer = "default"
    /\ \E s \in closing : Shut(s)
    /\ CloseNamed([slot EXCEPT ![Default] = None], Named)
    /\ UNCHANGED <<task, pool>>

(* A named one is; its name goes out with whatever it stands for.          *)
NamedClosed(s) ==
    /\ closer = "named" /\ s \in closing
    /\ Shut(s)
    /\ closing' = closing \ {s}
    /\ IF nameOf[s] = Pool
       THEN pooled' = pooled \ {s} /\ UNCHANGED slot
       ELSE slot' = [slot EXCEPT ![nameOf[s]] = None] /\ UNCHANGED pooled
    /\ UNCHANGED <<task, pool, locks, closer>>

(* The last is, and the registry is cleared.                               *)
Cleared ==
    /\ closer = "named" /\ closing = {}
    /\ closer' = "idle"
    /\ slot' = [n \in Names |-> IF n = Default THEN slot[n] ELSE None]
    /\ pooled' = {}
    /\ locks' = [n \in Names |-> IF n = Default THEN 1 ELSE 0]
    /\ UNCHANGED <<task, pool, sessions, closing, historyVars>>

----------------------------------------------------------------------------
TaskStep(t) ==
    \/ \E n \in Names : Want(t, n)
    \/ \E user \in BOOLEAN : Exec(t, user)
    \/ Acquire(t) \/ Retire(t) \/ Build(t) \/ Land(t) \/ FailLanding(t) \/ Failed(t)
    \/ LetBe(t) \/ Release(t) \/ Released(t)
    \/ Switch(t) \/ Ran(t) \/ Undo(t) \/ Discarded(t)

Next ==
    \/ \E t \in Tasks : TaskStep(t)
    \/ \E s \in Sessions : Die(s) \/ NamedClosed(s)
    \/ CloseAll \/ DefaultClosed \/ Cleared

Spec == Init /\ [][Next]_vars

----------------------------------------------------------------------------
(* Properties. *)

InHand(s) == \E t \in Tasks : task[t].s = s /\ task[t].at # "using"

(* No session leaks: each one with a transport is in the registry, where   *)
(* the next close_all finds it, or in the hands of whoever opens, borrows  *)
(* or closes it; but for one that was opened while a close_all ran or that *)
(* such a one displaced, and one whose name its predecessor's close took.  *)
SessionsAreHeld ==
    \A s \in open :
        \/ \E n \in Names : slot[n] = s
        \/ s \in pooled \cup closing
        \/ InHand(s)
        \/ s \in overtaken \cup evicted

(* Callers of one name share one session: there are never two live ones,   *)
(* with the same exceptions.                                               *)
OneSessionPerName ==
    \A s1, s2 \in living \ (overtaken \cup evicted) :
        nameOf[s1] = nameOf[s2] /\ nameOf[s1] # Pool => s1 = s2

(* What an exec can borrow runs as the login's user, whatever became of    *)
(* the switches and undos before, and nobody else has it: each idle        *)
(* session is in the pool once, and a borrowed one in one caller's hands.  *)
BorrowedAsLoggedIn ==
    /\ \A i \in DOMAIN pool : pool[i] \in living =>
          /\ pool[i] \notin other \cup told
          /\ \A j \in DOMAIN pool : pool[j] = pool[i] => i = j
          /\ \A t \in Tasks : task[t].at \in Execing => task[t].s # pool[i]
    /\ \A t, u \in Tasks : task[t].at \in Execing /\ task[u].at \in Execing
                           /\ task[t].s = task[u].s => t = u

=============================================================================
