---------------------------- MODULE ShellSession ----------------------------
(***************************************************************************)
(* ShellSession of src/otto/host/session.py: commands in one remote shell, *)
(* told apart by markers in its output.                                    *)
(*                                                                         *)
(* The markers belong to the session, not to the command: what keeps one   *)
(* command's output out of the next one's result is that an interrupted    *)
(* command is stopped, and the shell probed, before the next is typed.  A  *)
(* command may time out or be cancelled, and so may that recovery.         *)
(*                                                                         *)
(* The far side is a terminal with a line queue, the shell, and the stream *)
(* of its output, of which only the markers are kept: the end of a         *)
(* command, after all its output, and the reply to a probe.                *)
(***************************************************************************)
EXTENDS Naturals, Sequences

CONSTANTS
    MaxCommands,  \* bound on the commands of a session
    MaxProbes     \* the probes that fit a recovery's deadline

ASSUME CommandAssumption == MaxCommands \in Nat /\ MaxProbes \in Nat \ {0}

VARIABLES
    pc,        \* what the one caller awaits
    mending,   \* the recovery that runs: of a timeout, or before a command
    cmd,       \* the last command typed
    answer,    \* what the last call returned or raised
    alive, needs,  \* _alive, _needs_recovery
    probes,    \* probes of the recovery that runs
    typed,     \* lines the shell did not read yet
    running,   \* the command the shell runs
    stream,    \* markers the session did not read yet
    torn,      \* history: a recovery before a command was cancelled
    misled,    \* history: a recovery took the reply to an older probe
    parked     \* history: a command was typed after its recovery failed

sessionVars == <<pc, mending, cmd, answer, alive, needs, probes>>
shellVars == <<typed, running, stream>>
shellHistory == <<torn, misled, parked>>
lineVars == <<sessionVars, shellVars, shellHistory>>

NoCommand == 0
Commands == 1..MaxCommands
TimedOut == MaxCommands + 1
Raised == MaxCommands + 2

(* A probe is marked with the last command typed before it.                *)
Command(c) == [kind |-> "command", of |-> c]
Probe(c) == [kind |-> "probe", of |-> c]
Lines == [kind : {"command", "probe"}, of : 0..MaxCommands]

ShellTypeOK ==
    /\ pc \in {"idle", "reading", "settling", "probing"}
    /\ mending \in {"timeout", "preflight"}
    /\ cmd \in 0..MaxCommands
    /\ answer \in 0..Raised
    /\ alive \in BOOLEAN /\ needs \in BOOLEAN
    /\ probes \in 0..MaxProbes
    /\ typed \in Seq(Lines) /\ stream \in Seq(Lines)
    /\ running \in 0..MaxCommands
    /\ torn \in BOOLEAN /\ misled \in BOOLEAN /\ parked \in BOOLEAN

(* The session after its handshake.                                        *)
ShellInit ==
    /\ pc = "idle" /\ mending = "timeout"
    /\ cmd = NoCommand /\ answer = NoCommand
    /\ alive = TRUE /\ needs = FALSE /\ probes = 0
    /\ typed = <<>> /\ running = NoCommand /\ stream = <<>>
    /\ torn = FALSE /\ misled = FALSE /\ parked = FALSE

----------------------------------------------------------------------------
(* The far side. *)

ShellReads ==
    /\ running = NoCommand /\ typed # <<>>
    /\ typed' = Tail(typed)
    /\ IF Head(typed).kind = "probe"
       THEN stream' = Append(stream, Head(typed)) /\ UNCHANGED running
       ELSE running' = Head(typed).of /\ UNCHANGED stream
    /\ UNCHANGED <<sessionVars, shellHistory>>

CommandEnds ==
    /\ running # NoCommand
    /\ running' = NoCommand
    /\ stream' = Append(stream, Command(running))
    /\ UNCHANGED <<typed, sessionVars, shellHistory>>

(* A command that reads its input takes a probe that was meant for the     *)
(* shell.                                                                  *)
CommandTakes ==
    /\ running # NoCommand /\ typed # <<>> /\ Head(typed).kind = "probe"
    /\ typed' = Tail(typed)
    /\ UNCHANGED <<running, stream, sessionVars, shellHistory>>

(* Control-C: the command dies, with or without its end marker, or takes   *)
(* no notice; the terminal may drop the lines it holds.                    *)
Interrupt ==
    /\ typed' \in {typed, <<>>}
    /\ \/ running' = NoCommand /\ UNCHANGED stream
       \/ /\ running # NoCommand
          /\ running' = NoCommand
          /\ stream' = Append(stream, Command(running))
       \/ UNCHANGED <<running, stream>>

----------------------------------------------------------------------------
(* run_cmd. *)

(* The framed command is written, and its output awaited.                  *)
Write ==
    /\ pc' = "reading"
    /\ cmd' = cmd + 1
    /\ answer' = NoCommand

(* _recover_session starts.                                                *)
Recover(what) ==
    /\ Interrupt
    /\ pc' = "settling"
    /\ mending' = what
    /\ probes' = 0

(* A call, of a caller that asked first whether the session is alive; a    *)
(* session that needs it is recovered before the command is written.       *)
Run ==
    /\ pc = "idle" /\ alive /\ cmd < MaxCommands
    /\ needs' = FALSE
    /\ IF needs
       THEN Recover("preflight") /\ UNCHANGED <<cmd, answer>>
       ELSE /\ Write
            /\ typed' = Append(typed, Command(cmd + 1))
            /\ UNCHANGED <<mending, probes, running, stream>>
    /\ UNCHANGED <<alive, shellHistory>>

(* The read loop passes lines until it meets an end marker.                *)
ReadLine ==
    /\ pc = "reading" /\ stream # <<>>
    /\ stream' = Tail(stream)
    /\ IF Head(stream).kind = "command"
       THEN pc' = "idle" /\ answer' = Head(stream).of
       ELSE UNCHANGED <<pc, answer>>
    /\ UNCHANGED <<mending, cmd, alive, needs, probes, typed, running, shellHistory>>

(* wait_for's timeout, or a password that was refused.                     *)
TimesOut ==
    /\ pc = "reading"
    /\ Recover("timeout")
    /\ UNCHANGED <<cmd, answer, alive, needs, shellHistory>>

(* Wrong: the recovery after a timeout leaves no mark when it is cancelled.*)
CancelledUnmarked ==
    /\ pc # "idle"
    /\ pc' = "idle"
    /\ answer' = Raised
    /\ needs' = (pc = "reading" \/ needs)
    /\ torn' = (torn \/ (pc # "reading" /\ mending = "preflight"))
    /\ UNCHANGED <<mending, cmd, alive, probes, shellVars, misled, parked>>

(* The caller is cancelled.  A command, and the recovery after its timeout,*)
(* leave the mark for the next call; the recovery before a command, whose  *)
(* mark is already taken off, does not.                                    *)
Cancelled ==
    /\ pc # "idle"
    /\ pc' = "idle"
    /\ answer' = Raised
    /\ IF pc # "reading" /\ mending = "preflight"
       THEN torn' = TRUE /\ UNCHANGED needs
       ELSE needs' = TRUE /\ UNCHANGED torn
    /\ UNCHANGED <<mending, cmd, alive, probes, shellVars, misled, parked>>

(* The transport drops, which a read or a write finds.                     *)
ConnectionLost ==
    /\ pc # "idle"
    /\ pc' = "idle"
    /\ answer' = Raised
    /\ alive' = FALSE
    /\ UNCHANGED <<mending, cmd, needs, probes, shellVars, shellHistory>>

----------------------------------------------------------------------------
(* _confirm_recovered. *)

(* confirm_live types a probe, again whenever a reply fails to come.       *)
SendProbe ==
    /\ pc \in {"settling", "probing"}
    /\ probes < MaxProbes
    /\ probes' = probes + 1
    /\ pc' = "probing"
    /\ typed' = Append(typed, Probe(cmd))
    /\ UNCHANGED <<mending, cmd, answer, alive, needs, running, stream, shellHistory>>

Replies == {i \in DOMAIN stream : stream[i].kind = "probe"}
First(is) == CHOOSE i \in is : \A j \in is : i <= j
After(i) == SubSeq(stream, i + 1, Len(stream))

(* The call goes on once its recovery is over: a timeout is reported, a    *)
(* command is written.                                                     *)
GoOn ==
    IF mending = "timeout"
    THEN pc' = "idle" /\ answer' = TimedOut /\ UNCHANGED <<cmd, typed>>
    ELSE Write /\ typed' = Append(typed, Command(cmd + 1))

(* A reply is read, and all that came before it is dropped.                *)
Confirm ==
    /\ pc = "probing" /\ Replies # {}
    /\ stream' = After(First(Replies))
    /\ GoOn
    /\ misled' = (misled \/ stream[First(Replies)].of # cmd)
    /\ UNCHANGED <<mending, alive, needs, probes, running, torn, parked>>

(* Wrong: the deadline waits for a probe more than fits it.                *)
GiveUpLate ==
    /\ pc = "probing" /\ Replies = {} /\ probes > MaxProbes
    /\ alive' = FALSE
    /\ GoOn
    /\ parked' = (mending = "preflight")
    /\ UNCHANGED <<mending, needs, probes, running, stream, torn, misled>>

(* The deadline passes: the session is dead.  A command that waited for    *)
(* its recovery is written all the same.                                   *)
GiveUp ==
    /\ pc = "probing" /\ Replies = {}
    /\ alive' = FALSE
    /\ GoOn
    /\ parked' = (mending = "preflight")
    /\ UNCHANGED <<mending, needs, probes, running, stream, torn, misled>>

(* A dead session's place is taken by a new one, with markers of its own.  *)
Replaced ==
    /\ pc = "idle" /\ ~alive
    /\ alive' = TRUE /\ needs' = FALSE
    /\ typed' = <<>> /\ running' = NoCommand /\ stream' = <<>>
    /\ torn' = FALSE /\ misled' = FALSE /\ parked' = FALSE
    /\ answer' = NoCommand /\ probes' = 0
    /\ UNCHANGED <<pc, mending, cmd>>

Shell == ShellReads \/ CommandEnds \/ CommandTakes
Session == ReadLine \/ SendProbe \/ Confirm

ShellNext ==
    \/ Shell \/ Session
    \/ Run \/ TimesOut \/ Cancelled \/ ConnectionLost
    \/ GiveUp \/ Replaced

ShellSpec == ShellInit /\ [][ShellNext]_lineVars

(* Every command has a timeout and every recovery a deadline.              *)
ShellFairness ==
    /\ WF_lineVars(pc = "reading" /\ (ReadLine \/ TimesOut))
    /\ WF_lineVars(SendProbe) /\ WF_lineVars(Confirm \/ GiveUp)

FairShellSpec == ShellSpec /\ ShellFairness

----------------------------------------------------------------------------
(* Properties. *)

(* A call never returns another command's output, timeouts, cancellations  *)
(* and doubled probes notwithstanding: except after a recovery before a    *)
(* command was itself cancelled or failed, or trusted a reply that an      *)
(* earlier recovery had left unread.                                       *)
AnswersItsOwn ==
    pc = "idle" /\ answer \in Commands => answer = cmd \/ torn \/ misled \/ parked

(* A call ends, whatever the far side does.                                *)
CallEnds == pc # "idle" ~> pc = "idle"

(* "A cancellation landing mid-recovery leaves the shell mid-command, so   *)
(* it is marked for recovery on next use, as a cancelled command is":      *)
(* between calls, a session that is alive and not so marked has a shell at *)
(* its prompt, with no command's output left to read.                      *)
MarkedForRecovery ==
    pc = "idle" /\ alive /\ ~needs /\ ~misled =>
        /\ running = NoCommand
        /\ \A i \in DOMAIN typed : typed[i].kind = "probe"
        /\ \A i \in DOMAIN stream : stream[i].kind = "probe"

=============================================================================
