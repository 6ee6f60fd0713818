------------------------------ MODULE SyncPhase ------------------------------
(***************************************************************************)
(* sync_phase and SyncPhaseGuard of src/otto/lifecycle.py: the two-stage   *)
(* interrupt policy of a synchronous phase, which has no loop to cancel.   *)
(*                                                                         *)
(* The first signal raises into the phase and starts a deadline; a second  *)
(* one, or the deadline, makes a watchdog thread end the process.  The     *)
(* watchdog hears of signals through a pipe that two writers fill: the     *)
(* Python handlers, which a wedged main thread never runs, and the         *)
(* interpreter, as long as the pipe is its wakeup descriptor, which a      *)
(* nested event loop takes away and does not give back.                    *)
(***************************************************************************)
EXTENDS Naturals, Sequences

CONSTANTS
    Signals,     \* the signals of the phase: SIGINT and SIGTERM
    Foreign,     \* signals that are somebody else's
    NoSignal,
    Bound,       \* the deadline, in ticks
    MaxSignals,  \* bound on the signals of the phase
    MaxLoops,    \* bound on the nested loops that are open at once
    MaxPipe      \* foreign signals arrive while fewer bytes are unread

ASSUME SignalsAssumption == Signals \cap Foreign = {} /\ NoSignal \notin Signals
(* A signal number is below every letter's code. *)
ASSUME BytesAssumption == {"A", "F", "C"} \cap (Signals \cup Foreign) = {}
ASSUME PhaseAssumption ==
    /\ Bound \in Nat \ {0}
    /\ MaxSignals \in Nat /\ MaxLoops \in Nat /\ MaxPipe \in Nat

VARIABLES
    main,        \* where the main thread is: in the phase, or leaving it
    interrupted, \* interrupted_signum, the handler's record
    tripped,     \* signals that arrived and whose handler did not run yet
    fd,          \* who the interpreter's wakeup descriptor belongs to
    owns,        \* _owns_wakeup_fd, what the guard believes of that
    loops,       \* nested loops that added signal handlers
    pipe,        \* the unread bytes
    watch,       \* the watchdog thread
    byHandler,   \* deliveries it counted, by channel
    byWakeup,
    first,       \* first_signum, the first signal number it read
    armed,       \* its deadline runs
    elapsed,     \* ticks since then
    code,        \* the signal its exit code names
    delivered,   \* history: the signals of the phase that arrived
    arrivals,    \* history: how many times
    again        \* history: a second one came on a live channel

mainVars == <<main, loops>>
guardVars == <<interrupted, tripped, fd, owns>>
watchVars == <<watch, byHandler, byWakeup, first, armed, elapsed, code>>
history == <<delivered, arrivals, again>>
phaseVars == <<mainVars, guardVars, pipe, watchVars, history>>

Bytes == {"A", "F", "C"} \cup Signals \cup Foreign

PhaseTypeOK ==
    /\ main \in {"phase", "closed", "restored", "left"}
    /\ interrupted \in Signals \cup {NoSignal}
    /\ tripped \subseteq Signals
    /\ fd \in {"none", "guard", "loop"}
    /\ owns \in BOOLEAN
    /\ loops \in 0..MaxLoops
    /\ pipe \in Seq(Bytes)
    /\ watch \in {"watching", "forcing", "retired", "exited"}
    /\ byHandler \in 0..2 /\ byWakeup \in 0..2
    /\ first \in Signals \cup {NoSignal}
    /\ armed \in BOOLEAN
    /\ elapsed \in 0..Bound
    /\ code \in Signals \cup {NoSignal}
    /\ delivered \subseteq Signals
    /\ arrivals \in 0..MaxSignals
    /\ again \in BOOLEAN

(* _start: the watchdog waits before any handler is installed; the wakeup  *)
(* descriptor is claimed unless somebody, here a loop around the phase,    *)
(* has it.                                                                 *)
PhaseInit ==
    /\ main = "phase"
    /\ interrupted = NoSignal
    /\ tripped = {}
    /\ loops \in {0, 1} \cap 0..MaxLoops
    /\ fd = IF loops = 0 THEN "guard" ELSE "loop"
    /\ owns = (loops = 0)
    /\ pipe = <<>>
    /\ watch = "watching"
    /\ byHandler = 0 /\ byWakeup = 0
    /\ first = NoSignal
    /\ armed = FALSE /\ elapsed = 0
    /\ code = NoSignal
    /\ delivered = {} /\ arrivals = 0 /\ again = FALSE

Alive == watch # "exited"

(* _closed is set before anything else when the phase ends.                *)
Closed == main # "phase"

----------------------------------------------------------------------------
(* Signals arrive. *)

(* A signal trips its handler, whose run is the main thread's business,    *)
(* and the interpreter writes its number to the wakeup descriptor.         *)
Deliver(s) ==
    /\ Alive
    /\ main \in {"phase", "closed"}
    /\ arrivals < MaxSignals
    /\ tripped' = tripped \cup {s}
    /\ pipe' = IF fd = "guard" THEN Append(pipe, s) ELSE pipe
    /\ delivered' = delivered \cup {s}
    /\ arrivals' = arrivals + 1
    /\ again' = (again \/ (arrivals >= 1 /\ fd = "guard"))
    /\ UNCHANGED <<mainVars, interrupted, fd, owns, watchVars>>

(* A signal that is not the phase's: a resized terminal, an alarm; or one  *)
(* of the phase's once the prior handlers are back.                        *)
DeliverOther(s) ==
    /\ Alive
    /\ s \in Foreign \/ main = "restored"
    /\ fd = "guard"
    /\ Len(pipe) < MaxPipe
    /\ pipe' = Append(pipe, s)
    /\ UNCHANGED <<mainVars, guardVars, watchVars, history>>

----------------------------------------------------------------------------
(* The main thread.  It runs the tripped handlers before it does anything  *)
(* else in Python; between two of its steps it may be wedged for ever.     *)
(* The interpreter orders the handlers by signal number; here any may come *)
(* first.                                                                  *)

(* _reclaim_wakeup_fd: nobody's is taken back, with the byte the           *)
(* interpreter would have written; somebody's is left alone.               *)
(* Wrong: no byte is written; the descriptor is seized.                    *)
ReclaimUnseeded(s) ==
    /\ fd' = IF fd = "none" THEN "guard" ELSE fd
    /\ owns' = (fd' = "guard")
    /\ pipe' = Append(pipe, "A")

ReclaimSeizes(s) ==
    /\ fd' = "guard"
    /\ owns' = TRUE
    /\ pipe' = IF fd # "guard" THEN pipe \o <<s, "A">> ELSE Append(pipe, "A")

Reclaim(s) ==
    /\ fd' = IF fd = "none" THEN "guard" ELSE fd
    /\ owns' = (fd' = "guard")
    /\ pipe' = IF fd = "none" THEN pipe \o <<s, "A">> ELSE Append(pipe, "A")

(* _on_signal: the first arms the watchdog and raises into the phase, a    *)
(* second asks it to force, and after the phase it is dropped.             *)
Handle(s) ==
    /\ Alive
    /\ s \in tripped
    /\ tripped' = tripped \ {s}
    /\ again' = (again \/ (~Closed /\ interrupted # NoSignal))
    /\ IF Closed
       THEN UNCHANGED <<interrupted, fd, owns, pipe>>
       ELSE IF interrupted = NoSignal
       THEN interrupted' = s /\ Reclaim(s)
       ELSE pipe' = Append(pipe, "F") /\ UNCHANGED <<interrupted, fd, owns>>
    /\ UNCHANGED <<mainVars, watchVars, delivered, arrivals>>

(* A nested loop adds a signal handler of its own, which takes the wakeup  *)
(* descriptor; when it closes it leaves nobody as owner, whoever it was.   *)
LoopTakes ==
    /\ Alive /\ main = "phase" /\ tripped = {}
    /\ loops < MaxLoops
    /\ loops' = loops + 1
    /\ fd' = "loop"
    /\ UNCHANGED <<main, interrupted, tripped, owns, pipe, watchVars, history>>

LoopCloses ==
    /\ Alive /\ main = "phase" /\ tripped = {}
    /\ loops > 0
    /\ loops' = loops - 1
    /\ fd' = "none"
    /\ UNCHANGED <<main, interrupted, tripped, owns, pipe, watchVars, history>>

(* sync_phase's finally: the guard stops listening, the prior handlers are *)
(* back, the watchdog is retired.                                          *)
StopListening ==
    /\ Alive /\ main = "phase" /\ tripped = {}
    /\ main' = "closed"
    /\ UNCHANGED <<loops, guardVars, pipe, watchVars, history>>

RestoreHandlers ==
    /\ Alive /\ main = "closed" /\ tripped = {}
    /\ main' = "restored"
    /\ UNCHANGED <<loops, guardVars, pipe, watchVars, history>>

(* _close: the descriptor is released if it is still the guard's, and a    *)
(* last byte tells the watchdog.                                           *)
Close ==
    /\ Alive /\ main = "restored"
    /\ main' = "left"
    /\ fd' = IF owns /\ fd = "guard" THEN "none" ELSE fd
    /\ owns' = FALSE
    /\ pipe' = Append(pipe, "C")
    /\ UNCHANGED <<loops, interrupted, tripped, watchVars, history>>

----------------------------------------------------------------------------
(* The watchdog thread, _watch. *)

Most(m, n) == IF m > n THEN m ELSE n

(* The exit code names the handler's record, or the first number read when *)
(* no handler ran.                                                         *)
ForceExit(firstRead) ==
    /\ watch' = "forcing"
    /\ code' = IF interrupted # NoSignal THEN interrupted ELSE firstRead

Retire == watch' = "retired" /\ UNCHANGED code

(* One counted delivery: the second forces, the first starts the deadline. *)
(* Wrong: the third forces; the channels are added up.                     *)
CountLate(h, w) ==
    /\ byHandler' = h /\ byWakeup' = w
    /\ IF Most(h, w) > 2
       THEN ForceExit(first') /\ UNCHANGED <<armed, elapsed>>
       ELSE armed' = TRUE /\ UNCHANGED <<watch, code, elapsed>>

CountAdding(h, w) ==
    /\ byHandler' = h /\ byWakeup' = w
    /\ IF h + w >= 2
       THEN ForceExit(first') /\ UNCHANGED <<armed, elapsed>>
       ELSE armed' = TRUE /\ UNCHANGED <<watch, code, elapsed>>

Count(h, w) ==
    /\ byHandler' = h /\ byWakeup' = w
    /\ IF Most(h, w) >= 2
       THEN ForceExit(first') /\ UNCHANGED <<armed, elapsed>>
       ELSE armed' = TRUE /\ UNCHANGED <<watch, code, elapsed>>

(* A byte that is not the phase's changes nothing.                         *)
(* Wrong: it restarts the wait, and with it the deadline.                  *)
SkipRetimed ==
    /\ elapsed' = 0
    /\ UNCHANGED <<watch, byHandler, byWakeup, first, armed, code>>

Skip == UNCHANGED <<watch, byHandler, byWakeup, first, armed, elapsed, code>>

(* The watchdog reads a byte before its deadline.  The last byte is read   *)
(* only when the guard is closed.                                          *)
ReadPipe ==
    /\ watch = "watching"
    /\ pipe # <<>> /\ elapsed < Bound
    /\ pipe' = Tail(pipe)
    /\ LET byte == Head(pipe) IN
       \/ Closed /\ Retire /\ UNCHANGED <<byHandler, byWakeup, first, armed, elapsed>>
       \/ /\ ~Closed /\ byte \in {"A", "F"}
          /\ UNCHANGED first
          /\ Count(byHandler + 1, byWakeup)
       \/ /\ ~Closed /\ byte \in Signals
          /\ first' = IF first = NoSignal THEN byte ELSE first
          /\ Count(byHandler, byWakeup + 1)
       \/ ~Closed /\ byte \in Foreign /\ Skip
    /\ UNCHANGED <<mainVars, guardVars, history>>

(* Its deadline passes. *)
PhaseTick ==
    /\ watch = "watching"
    /\ armed /\ elapsed < Bound
    /\ elapsed' = elapsed + 1
    /\ UNCHANGED <<mainVars, guardVars, pipe, watch, byHandler, byWakeup, first,
                   armed, code, history>>

Expire ==
    /\ watch = "watching"
    /\ elapsed = Bound
    /\ IF Closed THEN Retire ELSE ForceExit(first)
    /\ UNCHANGED <<mainVars, guardVars, pipe, byHandler, byWakeup, first, armed,
                   elapsed, history>>

(* The hooks and the listener's flush are behind it: os._exit.             *)
Exit ==
    /\ watch = "forcing"
    /\ watch' = "exited"
    /\ UNCHANGED <<mainVars, guardVars, pipe, byHandler, byWakeup, first, armed,
                   elapsed, code, history>>

WatchStep == ReadPipe \/ Expire \/ Exit

PhaseNext ==
    \/ \E s \in Signals : Deliver(s) \/ Handle(s)
    \/ \E s \in Signals \cup Foreign : DeliverOther(s)
    \/ LoopTakes \/ LoopCloses
    \/ StopListening \/ RestoreHandlers \/ Close
    \/ WatchStep \/ PhaseTick

PhaseSpec == PhaseInit /\ [][PhaseNext]_phaseVars

(* The watchdog is a thread of its own and nothing on its way blocks.      *)
(* Nothing is assumed of the main thread, which may be wedged.             *)
FairPhaseSpec == PhaseSpec /\ WF_phaseVars(WatchStep)

----------------------------------------------------------------------------
(* Properties. *)

(* The process is ended by force only for a second signal of the phase or  *)
(* once the deadline passed since the first: two reports of one signal,    *)
(* the seeded one and foreign signals never add up to that (_watch).       *)
ForcedOnlyWhenAsked ==
    watch \in {"forcing", "exited"} => arrivals >= 2 \/ elapsed = Bound

(* The exit code always names a signal that arrived: the guess SIGINT at   *)
(* the end of _watch is never needed, whichever channel went silent.       *)
ExitNamesADelivered ==
    watch \in {"forcing", "exited"} => code \in delivered

(* A forced end is one that was asked for, and says by whom.               *)
ForcesRightly == ForcedOnlyWhenAsked /\ ExitNamesADelivered

(* The guard never takes the wakeup descriptor from a loop that has it,    *)
(* neither to arm nor to close, and never leaves its pipe behind as the    *)
(* interpreter's descriptor (_reclaim_wakeup_fd, _close).                  *)
DescriptorIsLent ==
    [][/\ fd = "loop" /\ fd' # "loop" => loops' < loops
       /\ main' = "left" => fd' # "guard"]_phaseVars

(* Nothing the watchdog must hear of is lost on its way: while it watches  *)
(* an open phase, a signal whose handler ran has armed the deadline or is  *)
(* unread in the pipe, and of a second one, on a live channel, that        *)
(* channel has counted two or has the rest unread, whoever took the        *)
(* descriptor meanwhile.                                                   *)
Unread(bytes) == {i \in DOMAIN pipe : pipe[i] \in bytes}
TwoReports(counted, bytes) ==
    \/ counted = 1 /\ Unread(bytes) # {}
    \/ \E i, j \in Unread(bytes) : i # j

SignalsReachTheWatchdog ==
    watch = "watching" /\ ~Closed =>
        /\ interrupted # NoSignal => armed \/ Unread({"A"}) # {}
        /\ again => TwoReports(byHandler, {"A", "F"}) \/ TwoReports(byWakeup, Signals)

(* A second signal whose handler ran, or that arrived while the guard held *)
(* the descriptor, ends the process although no timer fires and the main   *)
(* thread does nothing more, unless the phase ends first.                  *)
SecondSignalForces == again ~> (watch = "exited" \/ Closed)

(* Once a signal armed the guard the phase ends or the process does,       *)
(* however many foreign signals keep the watchdog awake, and whoever took  *)
(* the descriptor meanwhile.                                               *)
BoundedPhase ==
    WF_phaseVars(PhaseTick) => (interrupted # NoSignal ~> (watch = "exited" \/ Closed))

=============================================================================
