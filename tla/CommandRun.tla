----------------------------- MODULE CommandRun -----------------------------
(***************************************************************************)
(* run_command and _CommandRun of src/otto/lifecycle.py: one command body  *)
(* under the two-stage interrupt policy.                                   *)
(*                                                                         *)
(* The command's main coroutine waits for the body, then releases the      *)
(* loop's cleanup boundary (HostRegistry's Release) and waits for that.    *)
(* Each wait races the force event.  The first signal cancels the body and *)
(* starts a deadline; a second signal, or the deadline, sets the event.    *)
(* Afterwards asyncio.run cancels what is left, waits for it and closes    *)
(* the loop.  An embedder may cancel the main task itself.                 *)
(***************************************************************************)
EXTENDS Naturals

CONSTANTS
    Signals,     \* the signals the command handles
    NoSignal,    \* no signal arrived yet
    MaxSignals,  \* bound on the signals delivered
    MaxCancels   \* bound on the embedder's cancellations

ASSUME SignalsAssumption == NoSignal \notin Signals
ASSUME BoundsAssumption == MaxSignals \in Nat /\ MaxCancels \in Nat

VARIABLES
    pc,          \* what the main coroutine waits for
    interrupted, \* the first signal
    force,       \* the force event is set
    forced,      \* the run abandoned what it waited for
    armed,       \* the teardown deadline is running
    expired,     \* it has passed
    asked,       \* the body was cancelled
    body,        \* "running", or how it ended
    bodyError,   \* what to raise once the cleanup is over
    release,     \* the release of the boundary, in a task of its own
    cancelling,  \* the embedder's cancellation is about to be delivered
    outcome,     \* how _main ended
    hooks,       \* the force-exit hooks ran
    signalled,   \* how many signals were delivered
    cancels      \* how many times the embedder cancelled

stageVars == <<forced, bodyError, release, outcome>>
signalVars == <<interrupted, force, armed, expired, signalled>>
vars == <<pc, stageVars, signalVars, asked, body, cancelling, hooks, cancels>>

Ends == {"result", "cancelled", "error"}
Outcomes == {"none", "result", "cancelled", "error", "interrupted", "failed"}

TypeOK ==
    /\ pc \in {"body", "joining", "release", "finalizing", "exited"}
    /\ interrupted \in Signals \cup {NoSignal}
    /\ force \in BOOLEAN /\ forced \in BOOLEAN
    /\ armed \in BOOLEAN /\ expired \in BOOLEAN
    /\ asked \in BOOLEAN
    /\ body \in Ends \cup {"running"}
    /\ bodyError \in {"none", "cancelled", "error"}
    /\ release \in {"none", "running", "ended", "failed"}
    /\ cancelling \in BOOLEAN
    /\ outcome \in Outcomes
    /\ hooks \in BOOLEAN
    /\ signalled \in 0..MaxSignals
    /\ cancels \in 0..MaxCancels

(* acquire_boundary, the handlers and the body task come before any await. *)
Init ==
    /\ pc = "body"
    /\ interrupted = NoSignal
    /\ force = FALSE /\ forced = FALSE
    /\ armed = FALSE /\ expired = FALSE
    /\ asked = FALSE
    /\ body = "running"
    /\ bodyError = "none"
    /\ release = "none"
    /\ cancelling = FALSE
    /\ outcome = "none"
    /\ hooks = FALSE
    /\ signalled = 0
    /\ cancels = 0

(* The handlers are installed and the deadline is not yet cancelled. *)
InMain == pc \in {"body", "joining", "release"}

----------------------------------------------------------------------------
(* What happens to the command. *)

(* Wrong variants of a definition stand before it: a property that matters *)
(* must notice the difference.  Of OnSignal: the first signal starts no    *)
(* deadline; it does not cancel the body.                                  *)
OnSignalWithoutDeadline(s) ==
    /\ InMain
    /\ signalled < MaxSignals
    /\ signalled' = signalled + 1
    /\ interrupted' = IF interrupted = NoSignal THEN s ELSE interrupted
    /\ asked' = TRUE
    /\ force' = (force \/ interrupted # NoSignal)
    /\ UNCHANGED <<pc, stageVars, armed, expired, body, cancelling, hooks, cancels>>

OnSignalSparesBody(s) ==
    /\ InMain
    /\ signalled < MaxSignals
    /\ signalled' = signalled + 1
    /\ interrupted' = IF interrupted = NoSignal THEN s ELSE interrupted
    /\ armed' = TRUE
    /\ force' = (force \/ interrupted # NoSignal)
    /\ UNCHANGED <<pc, stageVars, asked, expired, body, cancelling, hooks, cancels>>

(* _on_signal, a loop callback. *)
OnSignal(s) ==
    /\ InMain
    /\ signalled < MaxSignals
    /\ signalled' = signalled + 1
    /\ IF interrupted = NoSignal
       THEN /\ interrupted' = s
            /\ asked' = TRUE
            /\ armed' = TRUE
            /\ UNCHANGED force
       ELSE /\ force' = TRUE
            /\ UNCHANGED <<interrupted, asked, armed>>
    /\ UNCHANGED <<pc, stageVars, expired, body, cancelling, hooks, cancels>>

DeadlineExpires ==
    /\ InMain
    /\ armed
    /\ force' = TRUE
    /\ armed' = FALSE
    /\ expired' = TRUE
    /\ UNCHANGED <<pc, stageVars, interrupted, signalled, asked, body, cancelling,
                   hooks, cancels>>

(* An embedder cancels the task that runs _main. *)
EmbedderCancels ==
    /\ InMain
    /\ cancels < MaxCancels
    /\ cancels' = cancels + 1
    /\ cancelling' = TRUE
    /\ UNCHANGED <<pc, stageVars, signalVars, asked, body, hooks>>

(* The body may end at any time, whether it was cancelled or not; once     *)
(* cancelled it may still return or raise something else.                  *)
BodyEnds(how) ==
    /\ body = "running"
    /\ body' = how
    /\ UNCHANGED <<pc, stageVars, signalVars, asked, cancelling, hooks, cancels>>

(* Boundary.release returns, or raises a defect of the sweep. *)
ReleaseEnds(how) ==
    /\ release = "running"
    /\ release' = how
    /\ UNCHANGED <<pc, forced, bodyError, outcome, signalVars, asked, body,
                   cancelling, hooks, cancels>>

----------------------------------------------------------------------------
(* The main coroutine. *)

(* Wrong: a force event beats work that ended in the same turn.            *)
RaceForceFirst(work) ==
    IF cancelling THEN "cancelled"
    ELSE IF force THEN "abandoned"
    ELSE work

(* _race_force: a cancellation of the waiter comes first, then the work it *)
(* waited for, then the force event.                                       *)
Race(work) ==
    IF cancelling THEN "cancelled"
    ELSE IF work # "running" THEN work
    ELSE "abandoned"

RaceIsOver(work) == cancelling \/ work # "running" \/ force

(* _main's finally and its last lines: the deadline is cancelled, the      *)
(* handlers go, and what escapes is decided: an exception of the release,  *)
(* the body's own, the interruption, or nothing.  asyncio.run then cancels *)
(* whatever still runs.                                                    *)
Leave(escaping, err) ==
    /\ pc' = "finalizing"
    /\ armed' = FALSE
    /\ asked' = TRUE
    /\ outcome' =
          IF escaping # "none" THEN escaping
          ELSE IF err # "none" THEN err
          ELSE IF interrupted # NoSignal THEN "interrupted" ELSE "result"

StartRelease ==
    /\ pc' = "release"
    /\ release' = "running"
    /\ UNCHANGED <<forced, outcome, armed, asked>>

(* Wrong: an outside cancellation does not join the body before the        *)
(* cleanup; a body that raised skips the cleanup.                          *)
NoJoin ==
    LET raised == Race(body)
        err == IF raised = "error" THEN "error" ELSE "none"
    IN  /\ pc = "body"
        /\ RaceIsOver(body)
        /\ cancelling' = FALSE
        /\ bodyError' = err
        /\ IF raised = "abandoned"
           THEN forced' = TRUE /\ Leave("none", err) /\ UNCHANGED release
           ELSE StartRelease
        /\ UNCHANGED <<interrupted, force, expired, signalled, body, hooks, cancels>>

ErrorSkipsRelease ==
    LET raised == Race(body)
        err == IF raised = "error" THEN "error" ELSE "none"
    IN  /\ pc = "body"
        /\ RaceIsOver(body)
        /\ cancelling' = FALSE
        /\ bodyError' = err
        /\ IF raised \in {"abandoned", "error"}
           THEN forced' = (raised = "abandoned") /\ Leave("none", err) /\ UNCHANGED release
           ELSE StartRelease
        /\ UNCHANGED <<interrupted, force, expired, signalled, body, hooks, cancels>>

(* The wait for the body ends. *)
BodyStageEnds ==
    LET raised == Race(body)
        err == IF raised = "error" THEN "error" ELSE "none"
    IN  /\ pc = "body"
        /\ RaceIsOver(body)
        /\ cancelling' = FALSE
        /\ IF raised = "cancelled" /\ interrupted = NoSignal
           THEN \* not our signal: bound and join the body, then clean up
                /\ pc' = "joining"
                /\ bodyError' = "cancelled"
                /\ armed' = TRUE
                /\ asked' = TRUE
                /\ UNCHANGED <<forced, release, outcome>>
           ELSE /\ bodyError' = err
                /\ IF raised = "abandoned"
                   THEN forced' = TRUE /\ Leave("none", err) /\ UNCHANGED release
                   ELSE StartRelease
        /\ UNCHANGED <<interrupted, force, expired, signalled, body, hooks, cancels>>

(* The wait for the body an embedder's cancellation stopped: whatever it   *)
(* raises is dropped, the cancellation wins.                               *)
JoinEnds ==
    /\ pc = "joining"
    /\ RaceIsOver(body)
    /\ cancelling' = FALSE
    /\ IF Race(body) = "abandoned"
       THEN forced' = TRUE /\ Leave("none", bodyError) /\ UNCHANGED release
       ELSE StartRelease
    /\ UNCHANGED <<bodyError, interrupted, force, expired, signalled, body, hooks, cancels>>

(* Wrong: the abandonment of the release escapes. *)
AbandonEscapes ==
    LET raised == Race(release)
    IN  /\ pc = "release"
        /\ RaceIsOver(release)
        /\ cancelling' = FALSE
        /\ forced' = (raised = "abandoned")
        /\ Leave(IF raised # "ended" THEN raised ELSE "none", bodyError)
        /\ UNCHANGED <<bodyError, release, interrupted, force, expired, signalled,
                       body, hooks, cancels>>

(* The wait for the release ends.  A cancellation of this wait leaves the  *)
(* release running, for asyncio.run to cancel and wait for.                *)
ReleaseStageEnds ==
    LET raised == Race(release)
    IN  /\ pc = "release"
        /\ RaceIsOver(release)
        /\ cancelling' = FALSE
        /\ forced' = (raised = "abandoned")
        /\ Leave(IF raised \in {"cancelled", "failed"} THEN raised ELSE "none", bodyError)
        /\ UNCHANGED <<bodyError, release, interrupted, force, expired, signalled,
                       body, hooks, cancels>>

(* asyncio.run has waited for the tasks it cancelled and closes the loop;  *)
(* run_command runs the force-exit hooks of a forced interruption and      *)
(* exits with 128 + the first signal.                                      *)
Exit ==
    /\ pc = "finalizing"
    /\ body # "running" /\ release # "running"
    /\ pc' = "exited"
    /\ hooks' = (outcome = "interrupted" /\ forced)
    /\ UNCHANGED <<stageVars, signalVars, asked, body, cancelling, cancels>>

MainStep == BodyStageEnds \/ JoinEnds \/ ReleaseStageEnds \/ Exit

Next ==
    \/ \E s \in Signals : OnSignal(s)
    \/ DeadlineExpires
    \/ EmbedderCancels
    \/ \E how \in Ends : BodyEnds(how)
    \/ \E how \in {"ended", "failed"} : ReleaseEnds(how)
    \/ MainStep

Spec == Init /\ [][Next]_vars

(* asyncio polls the wait races.  The body and the release may hang:       *)
(* nothing is assumed of them.                                             *)
FairSpec == Spec /\ WF_vars(BodyStageEnds \/ JoinEnds \/ ReleaseStageEnds)

----------------------------------------------------------------------------
(* Properties. *)

(* What is given up is unfinished, and was given its time: a command       *)
(* abandons a body or a cleanup only while it runs, also when it ends in   *)
(* the turn of the force, and only after a second signal or once the       *)
(* deadline passed; one signal, or one cancellation, never costs it.       *)
NoEarlyAbandon ==
    [][forced' /\ ~forced =>
          /\ IF pc = "release" THEN release = "running" ELSE body = "running"
          /\ signalled >= 2 \/ expired]_vars

(* The sweep follows the body's unwind: the boundary is released only once *)
(* the body has ended, unless an embedder cancels on top of a signal or of *)
(* its own earlier cancellation.                                           *)
SweepFollowsBody ==
    release # "none" /\ body = "running" =>
        cancels >= 2 \/ (cancels >= 1 /\ signalled >= 1)

(* However the body ended, a command that was not forced exits only after  *)
(* its release ran to an end: no error or cancellation path skips it.      *)
CleanupUnlessForced ==
    pc = "exited" /\ ~forced => release \in {"ended", "failed"}

(* "A second signal, or that deadline expiring, abandons it: ... the       *)
(* registered force-exit hooks run once the loop has closed, and the       *)
(* process raises SystemExit(128 + signum)" (docs/architecture/            *)
(* lifecycle.md:229): an interrupted command that abandoned its cleanup    *)
(* exits that way.                                                         *)
ForcedExitRunsHooks ==
    pc = "exited" /\ forced /\ interrupted # NoSignal =>
        hooks /\ outcome = "interrupted"

(* A command that was told to stop, by a signal or from outside, is never  *)
(* left to a body or a release that may hang: until its main coroutine     *)
(* leaves, the body has been asked to end, and the deadline runs or the    *)
(* waits are already to be abandoned.                                      *)
StopIsBounded ==
    InMain /\ (interrupted # NoSignal \/ pc = "joining") => asked /\ (armed \/ force)

(* The strengthening that makes the invariants above inductive.            *)

(* The force event has its two causes, and only it abandons anything.      *)
ForceHasACause ==
    /\ interrupted # NoSignal => signalled >= 1
    /\ force => signalled >= 2 \/ expired

(* What each stage knows of the embedder and of the release.               *)
StagesMatch ==
    /\ cancelling => cancels >= 1
    /\ pc = "joining" /\ body = "running" => cancels >= 1
    /\ pc = "joining" /\ body = "running" /\ cancelling => cancels >= 2
    /\ pc = "release" => release # "none"
    /\ pc \in {"finalizing", "exited"} /\ ~forced => release # "none"
    /\ pc = "exited" => release # "running"

IInv ==
    /\ TypeOK
    /\ ForceHasACause
    /\ StagesMatch
    /\ SweepFollowsBody
    /\ CleanupUnlessForced

(* Timers fire, so an interrupted command, or one an embedder stopped,     *)
(* leaves its main coroutine even when body and release never end.         *)
BoundedExit ==
    WF_vars(DeadlineExpires) =>
        ((interrupted # NoSignal \/ pc = "joining") ~> ~InMain)

(* When a body ends once it is cancelled, and the release ends too, an     *)
(* interrupted command exits even if no timer ever fires: the signal       *)
(* itself reaches the body.                                                *)
SignalStopsBody ==
    /\ WF_vars(asked /\ \E how \in Ends : BodyEnds(how))
    /\ WF_vars(\E how \in {"ended", "failed"} : ReleaseEnds(how))
    /\ WF_vars(Exit)
    => (interrupted # NoSignal ~> pc = "exited")

=============================================================================
