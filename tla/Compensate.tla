----------------------------- MODULE Compensate -----------------------------
(***************************************************************************)
(* compensate of src/otto/lifecycle.py: a rollback that runs to its end    *)
(* although its caller is cancelled.                                       *)
(*                                                                         *)
(* The caller awaits the work through a shield.  A cancellation is held    *)
(* and starts a deadline; the caller may also have set a timeout, counted  *)
(* from the call.  The module goes down to asyncio's callbacks, because    *)
(* the news of the work's end reaches the caller some callbacks late: the  *)
(* shield's wrapper, the waiter of asyncio.wait, then the caller's task.   *)
(* A module with work of its own extends this one.                         *)
(***************************************************************************)
EXTENDS Naturals, Sequences

CONSTANTS
    Deadline,    \* ticks from the first held cancellation
    Timeout,     \* ticks from the call, when the caller sets a timeout
    MaxClock,    \* bound on the ticks of a call
    MaxCancels   \* bound on the cancellations of a call

ASSUME BoundsAssumption ==
    /\ Deadline \in Nat /\ Timeout \in Nat /\ MaxCancels \in Nat
    /\ MaxClock \in Nat /\ Deadline + Timeout <= MaxClock

VARIABLES
    call,        \* where compensate is
    work,        \* the task: running, or how it ended
    asked,       \* the task was cancelled and did not end yet
    ready,       \* the loop's callbacks about this call, in order
    woken,       \* the shield's wrapper has the task's outcome
    cancelling,  \* the caller's cancellation is about to be delivered
    held,        \* a cancellation is held
    expiry,      \* the timeout's future: none, pending or set
    clock,       \* ticks since the call
    deadlineAt,  \* when the deadline's timer fires, or Never
    outcome,     \* how the call ended
    cancels,     \* history: how often the caller was cancelled
    heldAt,      \* history: when the first was held
    shutdown     \* history: the whole loop was cancelled

callVars == <<call, work, asked, ready, woken, cancelling, held, expiry, clock,
              deadlineAt, outcome, cancels, heldAt, shutdown>>

Never == MaxClock + Deadline + 1
Ends == {"result", "error", "cancelled"}

CallTypeOK ==
    /\ call \in {"idle", "waiting", "joining", "done"}
    /\ work \in Ends \cup {"running"}
    /\ asked \in BOOLEAN
    /\ ready \in Seq({"shield", "waiter", "join", "caller"})
    /\ woken \in BOOLEAN
    /\ cancelling \in BOOLEAN
    /\ held \in BOOLEAN
    /\ expiry \in {"none", "pending", "set"}
    /\ clock \in 0..MaxClock
    /\ deadlineAt \in 0..Never
    /\ outcome \in Ends \cup {"none"}
    /\ cancels \in 0..MaxCancels
    /\ heldAt \in 0..Never
    /\ shutdown \in BOOLEAN

CallInit ==
    /\ call = "idle"
    /\ work = "result" /\ asked = FALSE
    /\ ready = <<>> /\ woken = FALSE
    /\ cancelling = FALSE /\ held = FALSE
    /\ expiry = "none"
    /\ clock = 0 /\ deadlineAt = Never
    /\ outcome = "none"
    /\ cancels = 0 /\ heldAt = Never /\ shutdown = FALSE

(* The call: the task is made, the timeout's timer runs if there is one.   *)
Start(bounded) ==
    /\ call = "idle"
    /\ call' = "waiting"
    /\ work' = "running" /\ asked' = FALSE
    /\ ready' = <<>> /\ woken' = FALSE
    /\ cancelling' = FALSE /\ held' = FALSE
    /\ expiry' = IF bounded THEN "pending" ELSE "none"
    /\ clock' = 0 /\ deadlineAt' = Never
    /\ outcome' = "none"
    /\ cancels' = 0 /\ heldAt' = Never /\ shutdown' = FALSE

(* The caller goes on with the outcome; nothing of the call is left.       *)
Leave ==
    /\ call = "done"
    /\ call' = "idle"
    /\ work' = "result" /\ asked' = FALSE
    /\ ready' = <<>> /\ woken' = FALSE
    /\ cancelling' = FALSE /\ held' = FALSE
    /\ expiry' = "none"
    /\ clock' = 0 /\ deadlineAt' = Never
    /\ outcome' = "none"
    /\ cancels' = 0 /\ heldAt' = Never /\ shutdown' = FALSE

Active == call \in {"waiting", "joining"}

Queued(c) == \E i \in DOMAIN ready : ready[i] = c
Scheduled(c) == IF Queued(c) THEN ready ELSE Append(ready, c)

----------------------------------------------------------------------------
(* What happens to the call. *)

(* The task ends: as it likes, and as cancelled only if it was asked.      *)
WorkEnds(how) ==
    /\ Active /\ work = "running"
    /\ how = "cancelled" => asked
    /\ work' = how
    /\ asked' = FALSE
    /\ ready' = Append(ready, IF call = "waiting" THEN "shield" ELSE "join")
    /\ UNCHANGED <<call, woken, cancelling, held, expiry, clock, deadlineAt, outcome,
                   cancels, heldAt, shutdown>>

(* The caller is cancelled.  It awaits the wrapper or asyncio.wait, which  *)
(* end at once, or the join, which passes the cancellation on to the task  *)
(* and ends with it.                                                       *)
Cancel ==
    /\ Active
    /\ cancels < MaxCancels
    /\ cancels' = cancels + 1
    /\ cancelling' = TRUE
    /\ ready' = IF call = "waiting" THEN Scheduled("caller") ELSE ready
    /\ asked' = (asked \/ (call = "joining" /\ work = "running"))
    /\ UNCHANGED <<call, work, woken, held, expiry, clock, deadlineAt, outcome,
                   heldAt, shutdown>>

(* The loop shuts down: every task is cancelled, the caller's and the work.*)
CancelAll ==
    /\ Active
    /\ cancels < MaxCancels
    /\ cancels' = cancels + 1
    /\ cancelling' = TRUE
    /\ ready' = IF call = "waiting" THEN Scheduled("caller") ELSE ready
    /\ asked' = (work = "running")
    /\ shutdown' = TRUE
    /\ UNCHANGED <<call, work, woken, held, expiry, clock, deadlineAt, outcome, heldAt>>

(* The timers, which run in the turn they are due.                         *)
DeadlineDue == deadlineAt <= clock
TimeoutDue == expiry = "pending" /\ Timeout <= clock

Tick ==
    /\ Active /\ ~DeadlineDue /\ ~TimeoutDue
    /\ clock < MaxClock
    /\ clock' = clock + 1
    /\ UNCHANGED <<call, work, asked, ready, woken, cancelling, held, expiry,
                   deadlineAt, outcome, cancels, heldAt, shutdown>>

DeadlineFires ==
    /\ Active /\ DeadlineDue
    /\ deadlineAt' = Never
    /\ asked' = (work = "running")
    /\ UNCHANGED <<call, work, ready, woken, cancelling, held, expiry, clock, outcome,
                   cancels, heldAt, shutdown>>

(* _mark_expired: the timeout only signals.                                *)
TimeoutFires ==
    /\ Active /\ TimeoutDue
    /\ expiry' = "set"
    /\ ready' = IF call = "waiting" THEN Append(ready, "waiter") ELSE ready
    /\ UNCHANGED <<call, work, asked, woken, cancelling, held, clock, deadlineAt,
                   outcome, cancels, heldAt, shutdown>>

----------------------------------------------------------------------------
(* The loop's callbacks. *)

(* The wrapper copies the outcome, unless a cancellation took it.          *)
ShieldCallback ==
    /\ Active /\ ready # <<>> /\ Head(ready) = "shield"
    /\ IF cancelling
       THEN ready' = Tail(ready) /\ UNCHANGED woken
       ELSE /\ woken' = TRUE
            /\ ready' = Append(Tail(ready), IF expiry = "none" THEN "caller" ELSE "waiter")
    /\ UNCHANGED <<call, work, asked, cancelling, held, expiry, clock, deadlineAt,
                   outcome, cancels, heldAt, shutdown>>

(* asyncio.wait's waiter and gather's future pass the news on.             *)
PassOn ==
    /\ Active /\ ready # <<>> /\ Head(ready) \in {"waiter", "join"}
    /\ ready' = IF Queued("caller") THEN Tail(ready) ELSE Append(Tail(ready), "caller")
    /\ UNCHANGED <<call, work, asked, woken, cancelling, held, expiry, clock, deadlineAt,
                   outcome, cancels, heldAt, shutdown>>

----------------------------------------------------------------------------
(* The caller's turns. *)

Turn(where) == call = where /\ ready # <<>> /\ Head(ready) = "caller"

(* The call is over; both timers are cancelled with it.                    *)
Return(how, holding) ==
    /\ call' = "done"
    /\ outcome' = IF holding THEN "cancelled" ELSE how
    /\ held' = holding
    /\ ready' = <<>> /\ woken' = FALSE /\ cancelling' = FALSE
    /\ deadlineAt' = Never
    /\ UNCHANGED <<work, asked, expiry, clock, cancels, shutdown>>

(* The first cancellation is held and starts the deadline.                 *)
(* Wrong: every one restarts it.                                           *)
HoldRestarting ==
    /\ held' = TRUE
    /\ heldAt' = IF held THEN heldAt ELSE clock
    /\ deadlineAt' = clock + Deadline

Hold ==
    /\ held' = TRUE
    /\ heldAt' = IF held THEN heldAt ELSE clock
    /\ deadlineAt' = IF held THEN deadlineAt ELSE clock + Deadline

(* Wrong: a round over finished work waits for a news that came already.   *)
NextRoundWaits ==
    /\ cancelling' = FALSE
    /\ woken' = (work # "running")
    /\ ready' = IF expiry = "set" THEN <<"waiter">> ELSE <<>>
    /\ UNCHANGED <<call, work, asked, expiry, clock, outcome, cancels, shutdown>>

(* Another round of the shielded wait.  Finished work needs no shield:     *)
(* the plain await of it returns at once, asyncio.wait a callback later.   *)
NextRound ==
    /\ cancelling' = FALSE
    /\ woken' = (work # "running")
    /\ ready' = IF work # "running" \/ expiry = "set" THEN <<"waiter">> ELSE <<>>
    /\ UNCHANGED <<call, work, asked, expiry, clock, outcome, cancels, shutdown>>

(* The wait was cancelled.  If the work itself was, that ends the call.    *)
CallerCancelled ==
    /\ Turn("waiting")
    /\ cancelling
    /\ \/ /\ work = "cancelled"
          /\ Return("cancelled", held)
          /\ UNCHANGED heldAt
       \/ /\ work \in {"result", "error"} /\ expiry = "none"
          /\ Return(work, TRUE)
          /\ heldAt' = IF held THEN heldAt ELSE clock
       \/ /\ work # "cancelled"
          /\ work = "running" \/ expiry # "none"
          /\ Hold
          /\ NextRound

(* The work's end, or the timeout, woke the caller.  The task is asked,    *)
(* not the wrapper, whether anything is left to abandon; what is abandoned *)
(* is cancelled and joined.                                                *)
(* Wrong: the wrapper is asked.                                            *)
CallerWakesTrusting ==
    /\ Turn("waiting")
    /\ ~cancelling
    /\ IF woken
       THEN Return(work, held)
       ELSE /\ call' = "joining"
            /\ asked' = (work = "running")
            /\ ready' = IF work = "running" THEN <<>> ELSE <<"join">>
            /\ woken' = FALSE
            /\ UNCHANGED <<work, cancelling, held, expiry, clock, deadlineAt, outcome,
                           cancels, shutdown>>
    /\ UNCHANGED heldAt

CallerWakes ==
    /\ Turn("waiting")
    /\ ~cancelling
    /\ IF work # "running"
       THEN Return(work, held)
       ELSE /\ call' = "joining"
            /\ asked' = TRUE
            /\ ready' = <<>>
            /\ woken' = FALSE
            /\ UNCHANGED <<work, cancelling, held, expiry, clock, deadlineAt, outcome,
                           cancels, shutdown>>
    /\ UNCHANGED heldAt

(* The join ends; a cancellation that met it is held like any other.       *)
(* Wrong: it is not.                                                       *)
JoinForgets ==
    /\ Turn("joining")
    /\ Return("none", held)
    /\ UNCHANGED heldAt

JoinEnds ==
    /\ Turn("joining")
    /\ Return("none", held \/ cancelling)
    /\ heldAt' = IF held \/ ~cancelling THEN heldAt ELSE clock

LoopStep ==
    \/ ShieldCallback \/ PassOn
    \/ CallerCancelled \/ CallerWakes \/ JoinEnds
    \/ DeadlineFires \/ TimeoutFires

(* Everything but the work and the call itself.                            *)
CallStep == LoopStep \/ Cancel \/ CancelAll \/ Tick

CallNext ==
    \/ Leave \/ \E bounded \in BOOLEAN : Start(bounded)
    \/ \E how \in Ends : WorkEnds(how)
    \/ CallStep

CallSpec == CallInit /\ [][CallNext]_callVars

----------------------------------------------------------------------------
(* Properties. *)

(* The caller is told it was cancelled exactly when it was: no held        *)
(* cancellation is lost to a result, a late failure or an expiry, and      *)
(* neither bound makes up one for a caller nobody cancelled.  Otherwise it *)
(* gets the work's own end, or nothing of work that the timeout stopped.   *)
(* In each case the work is over: nothing outlives the call.               *)
CallerGetsItsOwn ==
    call = "done" =>
        /\ work # "running"
        /\ (outcome = "cancelled") = (cancels > 0)
        /\ outcome \in {"result", "error"} => outcome = work
        /\ outcome = "none" => expiry = "set"

(* A tie goes to the work: nothing that has ended is reported abandoned,   *)
(* however far behind the callbacks are.                                   *)
TieGoesToTheWork ==
    [][/\ call = "waiting" /\ call' = "joining" => work = "running"
       /\ call = "waiting" /\ call' = "done" /\ cancels = 0 => outcome' = work]_callVars

(* The work is cancelled only by a bound that is due: the deadline since   *)
(* the first held cancellation, the timeout since the call; and a second   *)
(* cancellation does not give it more time.                                *)
BoundsAreKept ==
    Active /\ ~shutdown =>
        /\ asked => heldAt + Deadline <= clock \/ (expiry = "set" /\ call = "joining")
        /\ work = "running" /\ heldAt + Deadline < clock => asked

(* No news is lost between the callbacks: while the work is over, a        *)
(* cancellation is to be delivered or the timeout is set, a callback is    *)
(* queued that leads to the caller; and a caller that joins the work has   *)
(* asked it to end, or the end is on its way.                              *)
NewsIsOnItsWay ==
    /\ call = "waiting" /\ (work # "running" \/ expiry = "set") => ready # <<>>
    /\ call = "waiting" /\ cancelling => Queued("caller")
    /\ call = "joining" => (work = "running" /\ asked) \/ ready # <<>>

=============================================================================
