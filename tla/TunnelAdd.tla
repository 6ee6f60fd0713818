------------------------------ MODULE TunnelAdd ------------------------------
(***************************************************************************)
(* add_tunnel, remove_tunnel and remove_all_tunnels of                     *)
(* src/otto/tunnel/manage.py: a tunnel is a chain of processes on several  *)
(* hosts, and those processes are its only record.                         *)
(*                                                                         *)
(* Adds of one tunnel run one at a time, under the lock of its id.  An add *)
(* looks for the tunnel, launches the processes of its plan, scans for     *)
(* them, and on any failure or cancellation kills, by the tunnel's id,     *)
(* what it finds on the hosts; that rollback runs under Compensate.  A     *)
(* removal takes no lock.  Hosts answer, fail or time out.                 *)
(***************************************************************************)
EXTENDS Compensate

CONSTANTS
    Adders,      \* calls of add_tunnel for one and the same tunnel
    NoAdder,
    Hosts,       \* the hosts of the chain
    Plan,        \* the hosts of the processes, in the order of their launch
    MaxFaults    \* bound on failing hosts and dying processes

ASSUME AdderAssumption == NoAdder \notin Adders
ASSUME PlanAssumption == Plan \in Seq(Hosts) /\ Plan # <<>> /\ MaxFaults \in Nat

VARIABLES
    lock,        \* the add that holds the lock of the tunnel's id
    pc,          \* where each add is
    alive,       \* the processes of the tunnel: <<add that launched it, its place>>
    next,        \* the place in the plan the add has come to
    scanned,     \* hosts whose scan is over, in the scan that runs
    seen,        \* the processes that scan saw
    retried,     \* the second verification runs
    reason,      \* what the rollback's caller raises
    removal,     \* a removal: idle, scan or kill
    rscanned, rfound,
    faults,
    flying,      \* history: a launch that timed out and may still arrive
    late,        \* history: processes that so arrived
    blind,       \* history: adds that could not scan each host for the tunnel
    missed,      \* history: <<add, host>> its rollback could not scan or kill on
    torn,        \* history: adds whose rollback a bound cut short
    robbed       \* history: adds whose rollback killed another, successful add's process

addVars == <<lock, pc, next, scanned, seen, retried, reason>>
removeVars == <<removal, rscanned, rfound>>
historyVars == <<flying, late, blind, missed, torn, robbed>>
tunnelVars == <<addVars, alive, removeVars, faults, historyVars>>

vars == <<tunnelVars, callVars>>

Places == DOMAIN Plan
Processes == Adders \X Places
On(h) == {p \in alive : Plan[p[2]] = h}
SeenPlaces == {p[2] : p \in seen}

TypeOK ==
    /\ lock \in Adders \cup {NoAdder}
    /\ pc \in [Adders -> {"idle", "checking", "launching", "verifying", "rolling",
                          "added", "failed", "cancelled"}]
    /\ alive \subseteq Processes
    /\ next \in 1..Len(Plan) + 1
    /\ scanned \subseteq Hosts
    /\ seen \subseteq Processes
    /\ retried \in BOOLEAN
    /\ reason \in {"failed", "cancelled"}
    /\ removal \in {"idle", "scan", "kill"}
    /\ rscanned \subseteq Hosts /\ rfound \subseteq Processes
    /\ faults \in 0..MaxFaults
    /\ flying \subseteq Processes /\ late \subseteq Processes
    /\ blind \subseteq Adders
    /\ missed \subseteq Adders \X Hosts
    /\ torn \subseteq Adders /\ robbed \subseteq Adders
    /\ CallTypeOK

Init ==
    /\ lock = NoAdder
    /\ pc = [a \in Adders |-> "idle"]
    /\ alive = {}
    /\ next = 1
    /\ scanned = {} /\ seen = {}
    /\ retried = FALSE
    /\ reason = "failed"
    /\ removal = "idle" /\ rscanned = {} /\ rfound = {}
    /\ faults = 0
    /\ flying = {} /\ late = {} /\ blind = {}
    /\ missed = {} /\ torn = {} /\ robbed = {}
    /\ CallInit

Fault == faults < MaxFaults /\ faults' = faults + 1
NoFault == UNCHANGED faults

----------------------------------------------------------------------------
(* What an add does between two awaits. *)

BeginScan == scanned' = {} /\ seen' = {}

(* Wrong: release() follows the work, in no finally.                       *)
EndHolding(a, how) ==
    /\ pc' = [pc EXCEPT ![a] = how]
    /\ lock' = IF how = "added" THEN NoAdder ELSE lock
    /\ next' = 1 /\ retried' = FALSE /\ reason' = "failed"
    /\ BeginScan

(* The add ends; the lock is released whatever its end.                    *)
End(a, how) ==
    /\ pc' = [pc EXCEPT ![a] = how]
    /\ lock' = NoAdder
    /\ next' = 1 /\ retried' = FALSE /\ reason' = "failed"
    /\ BeginScan

(* except BaseException: the rollback starts.                              *)
RollBack(a, why) ==
    /\ pc' = [pc EXCEPT ![a] = "rolling"]
    /\ reason' = why
    /\ BeginScan
    /\ Start(FALSE)
    /\ UNCHANGED <<lock, next, retried>>

(* The lock is acquired and discover_tunnels starts.                       *)
Enter(a) ==
    /\ pc[a] = "idle"
    /\ lock = NoAdder
    /\ lock' = a
    /\ pc' = [pc EXCEPT ![a] = "checking"]
    /\ next' = 1 /\ retried' = FALSE
    /\ BeginScan
    /\ UNCHANGED <<reason, alive, removeVars, faults, historyVars, callVars>>

(* _scan_hosts, one host of it: the host lists the processes, or cannot be *)
(* reached, which no caller here distinguishes from none.                  *)
Scan(a, h) ==
    /\ lock = a /\ pc[a] \in {"checking", "verifying"}
    /\ h \notin scanned
    /\ scanned' = scanned \cup {h}
    /\ \/ /\ seen' = seen \cup On(h)
          /\ NoFault
          /\ UNCHANGED blind
       \/ /\ Fault
          /\ blind' = IF pc[a] = "checking" THEN blind \cup {a} ELSE blind
          /\ UNCHANGED seen
    /\ UNCHANGED <<lock, pc, next, retried, reason, alive, removeVars, flying, late,
                   missed, torn, robbed, callVars>>

(* Wrong: the launches begin whatever was found.                           *)
CheckedNothing(a) ==
    /\ lock = a /\ pc[a] = "checking"
    /\ \/ End(a, "cancelled")
       \/ /\ scanned = Hosts
          /\ pc' = [pc EXCEPT ![a] = "launching"]
          /\ UNCHANGED <<lock, next, scanned, seen, retried, reason>>
    /\ UNCHANGED <<alive, removeVars, faults, historyVars, callVars>>

(* _check_conflicts and what follows it: the tunnel exists, a tool or a    *)
(* port is missing, the caller is cancelled, or the launches begin.        *)
Checked(a) ==
    /\ lock = a /\ pc[a] = "checking"
    /\ \/ /\ scanned = Hosts
          /\ End(a, "failed")
       \/ End(a, "cancelled")
       \/ /\ scanned = Hosts /\ seen = {}
          /\ pc' = [pc EXCEPT ![a] = "launching"]
          /\ UNCHANGED <<lock, next, scanned, seen, retried, reason>>
    /\ UNCHANGED <<alive, removeVars, faults, historyVars, callVars>>

(* One launch is acknowledged, and after the last one the tunnel is        *)
(* verified.  Where another process has the place, the new one may be      *)
(* unable to bind, and exits.                                              *)
Launch(a) ==
    /\ lock = a /\ pc[a] = "launching"
    /\ \/ alive' = alive \cup {<<a, next>>}
       \/ (\E p \in alive : p[2] = next) /\ UNCHANGED alive
    /\ next' = next + 1
    /\ IF next = Len(Plan)
       THEN pc' = [pc EXCEPT ![a] = "verifying"] /\ BeginScan
       ELSE UNCHANGED <<pc, scanned, seen>>
    /\ UNCHANGED <<lock, retried, reason, removeVars, faults, historyVars, callVars>>

(* Wrong: only a launch that was acknowledged is rolled back.              *)
LaunchFailsAcked(a) ==
    /\ lock = a /\ pc[a] = "launching"
    /\ \/ UNCHANGED <<alive, flying>>
       \/ alive' = alive \cup {<<a, next>>} /\ UNCHANGED flying
       \/ flying' = flying \cup {<<a, next>>} /\ UNCHANGED alive
    /\ \E why \in {"failed", "cancelled"} :
          IF next > 1 THEN RollBack(a, why)
          ELSE End(a, why) /\ UNCHANGED callVars
    /\ UNCHANGED <<removeVars, faults, late, blind, missed, torn, robbed>>

(* A launch fails, times out or is cancelled: the process is there, or is  *)
(* not, or the command still travels.                                      *)
LaunchFails(a) ==
    /\ lock = a /\ pc[a] = "launching"
    /\ \/ UNCHANGED <<alive, flying>>
       \/ alive' = alive \cup {<<a, next>>} /\ UNCHANGED flying
       \/ flying' = flying \cup {<<a, next>>} /\ UNCHANGED alive
    /\ \E why \in {"failed", "cancelled"} : RollBack(a, why)
    /\ UNCHANGED <<removeVars, faults, late, blind, missed, torn, robbed>>

(* The verification ends: all were seen; or not, and it is repeated once,  *)
(* or the add fails; or the caller is cancelled.                           *)
Verified(a) ==
    /\ lock = a /\ pc[a] = "verifying"
    /\ \/ /\ scanned = Hosts /\ SeenPlaces = Places
          /\ End(a, "added")
          /\ UNCHANGED callVars
       \/ /\ scanned = Hosts /\ SeenPlaces # Places /\ ~retried
          /\ retried' = TRUE
          /\ BeginScan
          /\ UNCHANGED <<lock, pc, next, reason, callVars>>
       \/ /\ scanned = Hosts /\ SeenPlaces # Places /\ retried
          /\ RollBack(a, "failed")
       \/ RollBack(a, "cancelled")
    /\ UNCHANGED <<alive, removeVars, faults, historyVars>>

----------------------------------------------------------------------------
(* _kill_tunnel_on, the work of the rollback: all hosts are scanned, then  *)
(* what was seen is killed host by host.  A host that fails is passed over.*)

Working(a) == lock = a /\ pc[a] = "rolling" /\ call # "done" /\ work = "running"

RollbackScan(a, h) ==
    /\ Working(a) /\ h \notin scanned
    /\ scanned' = scanned \cup {h}
    /\ \/ seen' = seen \cup On(h) /\ NoFault /\ UNCHANGED missed
       \/ Fault /\ missed' = missed \cup {<<a, h>>} /\ UNCHANGED seen
    /\ UNCHANGED <<lock, pc, next, retried, reason, alive, removeVars, flying, late,
                   blind, torn, robbed, callVars>>

RollbackKill(a, h) ==
    LET found == {p \in seen : Plan[p[2]] = h}
    IN  /\ Working(a) /\ scanned = Hosts /\ found # {}
        /\ seen' = seen \ found
        /\ \/ /\ alive' = alive \ found
              /\ robbed' = IF \E p \in found \cap alive : pc[p[1]] = "added"
                           THEN robbed \cup {a} ELSE robbed
              /\ NoFault /\ UNCHANGED missed
           \/ /\ Fault
              /\ missed' = missed \cup {<<a, h>>}
              /\ UNCHANGED <<alive, robbed>>
        /\ UNCHANGED <<lock, pc, next, scanned, retried, reason, removeVars, flying,
                       late, blind, torn, callVars>>

(* The work is through, or ends where its cancellation met it.             *)
RollbackEnds(a) ==
    /\ Working(a)
    /\ \/ scanned = Hosts /\ seen = {} /\ WorkEnds("result") /\ UNCHANGED torn
       \/ asked /\ WorkEnds("cancelled") /\ torn' = torn \cup {a}
    /\ UNCHANGED <<addVars, alive, removeVars, faults, flying, late, blind, missed, robbed>>

(* compensate returned or raised: the add raises.                          *)
RolledBack(a) ==
    /\ lock = a /\ pc[a] = "rolling" /\ call = "done"
    /\ End(a, IF outcome = "cancelled" THEN "cancelled" ELSE reason)
    /\ Leave
    /\ UNCHANGED <<alive, removeVars, faults, historyVars>>

----------------------------------------------------------------------------
(* _reap, the removal of the tunnel: what the scan of a host saw is killed.*)

RemoveBegins ==
    /\ removal = "idle"
    /\ alive # {}
    /\ removal' = "scan" /\ rscanned' = {} /\ rfound' = {}
    /\ UNCHANGED <<addVars, alive, faults, historyVars, callVars>>

RemoveScan(h) ==
    /\ removal = "scan" /\ h \notin rscanned
    /\ rscanned' = rscanned \cup {h}
    /\ \/ rfound' = rfound \cup On(h) /\ NoFault
       \/ Fault /\ UNCHANGED rfound
    /\ removal' = IF rscanned' = Hosts THEN "kill" ELSE "scan"
    /\ UNCHANGED <<addVars, alive, historyVars, callVars>>

RemoveKill(h) ==
    LET found == {p \in rfound : Plan[p[2]] = h}
    IN  /\ removal = "kill" /\ found # {}
        /\ rfound' = rfound \ found
        /\ alive' = alive \ found \/ UNCHANGED alive
        /\ IF alive' = alive THEN Fault ELSE NoFault
        /\ UNCHANGED <<addVars, removal, rscanned, historyVars, callVars>>

RemoveEnds ==
    /\ removal = "kill" /\ rfound = {}
    /\ removal' = "idle" /\ rscanned' = {}
    /\ UNCHANGED <<addVars, alive, rfound, faults, historyVars, callVars>>

(* The hosts: a process dies, a launch that timed out arrives after all.   *)
ProcessDies(p) ==
    /\ p \in alive
    /\ Fault
    /\ alive' = alive \ {p}
    /\ UNCHANGED <<addVars, removeVars, historyVars, callVars>>

LaunchArrives(p) ==
    /\ p \in flying
    /\ flying' = flying \ {p}
    /\ alive' = alive \cup {p}
    /\ late' = late \cup {p}
    /\ UNCHANGED <<addVars, removeVars, faults, blind, missed, torn, robbed, callVars>>

----------------------------------------------------------------------------
AddStep(a) ==
    \/ \E h \in Hosts : Scan(a, h) \/ RollbackScan(a, h) \/ RollbackKill(a, h)
    \/ Checked(a) \/ Launch(a) \/ LaunchFails(a) \/ Verified(a)
    \/ RollbackEnds(a) \/ RolledBack(a)

Compensating == CallStep /\ UNCHANGED tunnelVars

RemoveStep == RemoveBegins \/ RemoveEnds \/ \E h \in Hosts : RemoveScan(h) \/ RemoveKill(h)

Next ==
    \/ \E a \in Adders : Enter(a) \/ AddStep(a)
    \/ Compensating
    \/ RemoveStep
    \/ \E p \in Processes : ProcessDies(p) \/ LaunchArrives(p)

Spec == Init /\ [][Next]_vars

(* Each command to a host has a timeout, and asyncio runs what is ready.   *)
Fairness ==
    /\ \A a \in Adders : WF_vars(AddStep(a))
    /\ WF_vars(LoopStep /\ UNCHANGED tunnelVars)

----------------------------------------------------------------------------
(* Properties. *)

(* No half-tunnels survive a failed add: a process that an add launched    *)
(* and that lives on after it failed was on a host the rollback could not  *)
(* reach, or met a bound of the rollback, or arrived after its own launch  *)
(* had been given up.                                                      *)
NoHalfTunnel ==
    \A p \in alive : pc[p[1]] \in {"failed", "cancelled"} =>
        \/ <<p[1], Plan[p[2]]>> \in missed
        \/ p[1] \in torn
        \/ p \in late

(* Rollbacks kill by the tunnel's id, which is shared: none kills what a   *)
(* successful add built, unless the scan for conflicts missed a host.      *)
WinnerStands == robbed \subseteq blind

(* Every add that has the lock ends and leaves it, also when hosts fail    *)
(* and its rollback is interrupted: an add waiting for the lock is not     *)
(* blocked for ever.                                                       *)
AddEnds == lock # NoAdder ~> lock = NoAdder

=============================================================================
