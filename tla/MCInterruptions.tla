--------------------------- MODULE MCInterruptions ---------------------------
(* What an interruption must not leave half done, for TLC: the phases and  *)
(* compensating actions of src/otto/lifecycle.py, and add_tunnel, in four  *)
(* scenes of one run.                                                      *)
(*   phase         a synchronous phase is signalled                        *)
(*   removal       two adds of one tunnel, and removals                    *)
(*   cancellation  one add, whose rollback is cancelled                    *)
(*   cleanup       a second caller of compensate: the cleanup of an        *)
(*                 interrupted transfer, one command with a timeout        *)
(*                 (src/otto/host/transfer/shell.py:1729)                  *)
EXTENDS SyncPhase, TunnelAdd

CONSTANTS SIGINT, SIGTERM, SIGWINCH, a1, a2, h1, h2

(* One process on each of two hosts, the further one first.                *)
OneWay == <<h2, h1>>

VARIABLE scene

MCInit ==
    /\ PhaseInit /\ Init
    /\ scene \in {"phase", "removal", "cancellation", "cleanup"}
    /\ scene # "phase" => loops = 0

Cleanup ==
    \/ Start(TRUE)
    \/ \E how \in Ends : WorkEnds(how)
    \/ CallStep

(* The adds are alike: the first to enter is a1.                           *)
FirstIsA1 == pc'[a2] # "idle" => pc'[a1] # "idle"

NobodyIsCancelled ==
    cancels' = 0 /\ reason' = "failed" /\ \A a \in Adders : pc'[a] # "cancelled"

MCNext ==
    /\ UNCHANGED scene
    /\ \/ scene = "phase" /\ PhaseNext /\ UNCHANGED vars
       \/ scene = "removal" /\ Next /\ FirstIsA1 /\ NobodyIsCancelled /\ UNCHANGED phaseVars
       \/ scene = "cancellation" /\ Next /\ removal' = "idle" /\ pc'[a2] = "idle"
                                 /\ UNCHANGED phaseVars
       \/ scene = "cleanup" /\ Cleanup /\ UNCHANGED <<tunnelVars, phaseVars>>

MCSpec ==
    /\ MCInit /\ [][MCNext]_<<phaseVars, vars, scene>>
    /\ Fairness /\ WF_phaseVars(WatchStep)

(* No word is lost on its way: what the watchdog must hear of is counted   *)
(* or unread, and whoever waits in a call of compensate is to be woken.    *)
NoWordIsLost == SignalsReachTheWatchdog /\ NewsIsOnItsWay

(* Every variable of the modules keeps its type.                           *)
MCTypeOK == PhaseTypeOK /\ TypeOK
=============================================================================
