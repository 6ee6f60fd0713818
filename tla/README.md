# Formal models of otto

otto drives lab hosts over SSH, telnet, serial consoles and containers from
asyncio code.  What is hard in it is not any single protocol but ownership:
which event loop owns a host's connections, who closes them, in which order,
and what happens when a signal, a deadline, a cancellation or a reconnect gets
in between.  This project models that part of the program in TLA+, checks it
with TLC and proves its main invariants with TLAPS.

Paths below are relative to the package, `src/src/otto/`.

## Inventory

| Component | State it keeps | Operations | What is hard | What makes it correct |
|---|---|---|---|---|
| Host registry, cleanup boundaries (`invocation.py`) | per loop: records by host, `open`/`draining`/`shut`, held count, waiters | register, unregister, acquire, acquire waiting, release, sweep, shut down, abandon closed loops | the drain awaits dozens of closes while hosts register, close, reconnect; it is cancelled, dies, or runs out of time | registry and ownership agree; count equals holders; nobody enters a drain; every wait ends |
| A host's claim on its loop (`host/host.py`) | owner loop, last served loop, generation | claim, rebuild, close, abandon | closes of an old generation end after a new claim | an old close has no authority over the new generation |
| Command lifecycle (`lifecycle.py`) | first signal, force event, deadline, body task, body error | signal, deadline, race, release, exit | signals, deadline and embedder cancellation in any order around two waits | cleanup unless forced, after the body, in bounded time |
| Sync phase (`lifecycle.py`) | wake-up descriptor, signal count, deadline | start, wake, force, close | two delivery channels, a watchdog thread | the second signal or the deadline always forces |
| Compensation (`lifecycle.py`) | shielded task, held cancellation, two timers | run a rollback | ties between the end of the work and an expiry | work is never torn, a cancellation is never lost |
| SSH hop transports (`host/transport.py`, `host/remote_host.py`) | tunnel, listeners, generation, two locks, parent | get_tunnel, forward_port, unforward_port, close | a close overtakes a handshake or a bind; the cascade over parents | nothing is open that nobody can close |
| Connection manager (`host/connections.py`) | cached ssh, sftp, ftp, telnet, console, per-user slots | open on demand, close | slots are stored after an await; the close takes and clears | as for transports |
| Shell sessions (`host/session.py`) | default, named and pooled sessions, locks | ensure, run with timeout and recovery, expect, close | concurrent creation, one retry, recovery after a timeout | one default session; a timed-out command's output never answers the next |
| Tunnels (`tunnel/manage.py`) | processes on several hosts | add with rollback, reap, remove | failure and interruption half-way | all of a tunnel or none of it |
| Link impairments (`link/manage.py`) | rules on interfaces, timers | impair, repair, expire | a timer or a rollback meets a newer impairment | the newest impairment stands |
| Project orchestration (`project/orchestrator.py`) | results by project | walk, combine | one loop of one task, in dependency order or backwards; an interruption is the command lifecycle's | every applicable project once, in order; the first failure stops the walk unless its spec goes on |
| Run context, suite runner loops (`run_context.py`, `suite/loops.py`) | open context | open, sweep, shut down | they are the registry's clients | through the registry |
| Transfers, host families, monitor, reservations, docker, coverage, CLI, configuration, completion, logging | data | parse, render, call tools | mostly I/O and data | unit tests |

How they interact: a command (`run_command`) or a context acquires a boundary
of its loop.  A host that connects claims the running loop and registers.  The
release of the last boundary drains: it calls `host.close()` on every record,
which closes sessions, connections and, last, the hop transport, which
cascades to its parents.  A signal cancels the command's body, then the
release runs; a second one abandons it.  Before there is a loop, and between
loops, a sync phase has its own two-stage policy.  A host's session manager
opens shells over its connections; tunnels and impairments are made by typing
commands into those shells, and undone under `compensate` when a signal
cancels the call.

`PROJECT.json` lists every component with its status, and under `hazards` what
can go wrong in this code that a test would hardly reach, with the property
that watches it.

## Plan

Done, in this order: the registry with the host's half of it, the command
lifecycle, the hop transports; then the sync phase, compensation and, on top of
it, the adds of a tunnel; the shell session and its manager; the impairments of
a link; the connection manager.

Proved after that, in the order of the section on proofs below: every safety
property the passing runs check, the type invariants of the composed runs among
them; then that nobody waits in vain, which is what safety can say of the
liveness properties; then how far each finding reaches.

To come: the connection manager's hops, that they close last, over
`HopTransport`.

The walk of the projects in dependency order was planned and dropped: it is one
loop of one task over data nobody else changes.

## Modules

An action is one stretch of code between two awaits.  asyncio runs the tasks
of a loop one at a time, so nothing interleaves inside a stretch; every await
is a point where any other action may come first.

**`HostRegistry`** models `_Registry` and everything in `invocation.py` that
changes one, and `_claim_loop`, `rebuild_connections`, `close`,
`_abandon_registration` of a host.  `records`, `rstate`, `held`, `waiters` are
the registry's fields; `owner`, `served`, `gen` the host's; `mgr` is the epoch
in which the host's connection managers were built, which stands for their
identity.  `closing` is the set of running `host.close()` calls with what each
captured before its first await.  `drain`, `inflight` and `poked` are the
locals of `_drain` and `_sweep`.  `HostStep`, `DrainStep` and `BoundaryStep`
group the actions.  A close may hang for ever, fail, or cancel itself; the
sweep may die.  The first cancellation of a drain's caller is not a state: it
changes only what the caller raises in the end.  A user closes only hosts a
live loop owns; closing another finds nothing open.

**`LoopPromise`** says what one loop's cleanup promises without registries,
epochs or deadlines: the last holder to leave starts a cleanup, nobody enters
during it, it ends with no host left.  `HostRegistry` states `PromiseKept`:
each loop, seen through the mapping of `Promise(l)`, starts and moves as
`LoopPromise` does.  Its initial predicate and its steps are quantified over
the loops.

**`CommandRun`** models `_CommandRun` and `run_command`.  `pc` is what the
main coroutine awaits; `Race` and `RaceIsOver` are `_race_force`; `Leave` is
the `finally` and the last lines of `_main`.  The body and the release are
opaque: they end when and as they like, or never.  The release is
`HostRegistry`'s `Release`.  Handlers are installed in `Init`: a command nested
in a sync phase, which installs none, is left to `SyncPhase`.

**`HopTransport`** models a chain of `SshHopTransport`s.  Level 1 is the one a
host's connection manager uses, level l + 1 is l's parent.  `at`, `level` and
`rec` are the place of a task and the generations it recorded; `Descend` is
the walk of nested `get_tunnel` calls to its first await; `EndLevels` the walk
of nested `close` calls.  `open` and `listening` count what was really opened
and not closed, apart from what is stored.  Which of several waiters gets a
lock next is left open, although asyncio's lock is first come, first served.
A connection does not die by itself.  `used` and `stray` are history
variables: somebody called in since the last close, and its cascade was cut
by a failure.

**`SyncPhase`** models `sync_phase` and `SyncPhaseGuard`: the main thread, the
interpreter's signal machinery and the watchdog thread.  `pipe` is the socket
pair with its two writers; `tripped` are signals whose Python handler did not
run yet; `fd` is the interpreter's wakeup descriptor, which nested loops take
(`LoopAdds`) and, like asyncio, drop without restoring.  The watchdog reads
byte by byte and counts each channel by itself.  `arrivals`, `delivered` and
`again` are histories.  Phases without handlers (a nested one, another thread)
do nothing and are left out.  Offering for the descriptor is one step, though
the code sets it and then gives it back to its owner in two statements: a signal
in between only adds, to the guard's pipe, the byte of a delivery that did
happen, which the counts allow for.  What it costs the owner, one wake-up, is
conceded in the docstring of `_claim_wakeup_fd` and is not modelled.

**`Compensate`** models `compensate` and `_shielded_or_expired` down to the
callbacks of asyncio: `ready` holds the loop's callbacks about this call in
their order, because the end of the work reaches the caller through the
shield's wrapper, the waiter, then the caller's own task, and an expiry or a
cancellation may come between any two.  The order in which the timers of one
tick fire is left open.  A module with work of its own extends it.

**`TunnelAdd`** models `add_tunnel`, `remove_tunnel` and `remove_all_tunnels`
for one tunnel id.  A tunnel is the set `alive` of its processes and nothing
else, as in the code.  An add goes through conflict scan, launches in the order
of `Plan`, and a verifying scan with one retry; its rollback is `Compensate`'s
work, scans and kills by id.  Hosts fail or time out (`MaxFaults`); a launch
that timed out may arrive later.  The histories say what excuses a leftover:
`missed` (a host the rollback could not scan or kill on), `torn` (a bound cut
it short), `late` (a launch that arrived after it was given up), and `blind`
(the conflict scan missed a host, so the add built over another's tunnel).

**`Connections`** models `ConnectionManager`: `cached` are its slots (ssh, sftp,
ftp, one line, and one user's ssh and sftp), `caller` what each task awaits,
`up` the connections really open.  An opener holds the lock of its slot from
the second look to the publication; an SFTP client looks for its connection
inside its own lock.  Telnet and console clients have the same shape and are
one slot: whoever takes such a client's stream first drains and releases it,
everybody else waits (`_StreamHolder`).  `ReleasesFrom` is `close()` from one
await to the next.  `left` is a history of the gaps the code has: an ssh
connection whose post-connect hook failed, a user's connection displaced
because `close()` forgot the lock it was dialled under, what a cancelled close
took.  The host is reached directly; what rides on a hop ends with the hop.

**`ShellSession`** models the commands of one session against its far side: a
terminal that queues typed lines, a shell that runs them one by one, and the
stream of output, of which only end-of-command markers and replies to probes
are kept.  Markers belong to the session, so a marker does not name its
command: `AnswersItsOwn` compares with what the model, not the session, knows.
A command may time out or be cancelled, and so may the recovery of either.
`torn`, `misled` and `parked` are the three ways in which the code trusts a
shell it should not: a cancelled preflight recovery, the late reply to an older
probe, and `run_cmd`, which types its command also after a preflight recovery
that failed.

**`SessionManager`** models the default session, the named ones and the pool
`exec` borrows from: creation under the lock of a name with one retry, the
handshake, hops and setup hook, each of which fails or is cancelled; a switch
of user for one command and its undo; `HostSession.close`; `close_all`, which
takes no lock.  `other` are the sessions whose shell really runs as another
user, `told` those whose object says so.  A close is not cancelled.
`close_all` assumes nobody opens a session while it runs; what one does that is
opened all the same is excused by name (`overtaken`, and `evicted` for those it
displaces).

**`LinkImpair`** models `impair_link` and `repair_link` command by command:
read, merge, cancel timers, change, read back, launch a timer, and the
rollback that puts back what was read.  `tree` is the queueing discipline of
each placement, the only record there is; `Kind` is what
`parse_scoped_outputs` takes a tree for, half-changed ones being foreign.  A
timer is a process that sleeps and then runs its script line by line whatever
the calls do.  Abstracted: one parameter instead of several, one filter per
selector, no two selectors with one band, no disciplines but otto's, one call
at a time.  Histories keep out by name what the docstring of `_rollback`
accepts (`disturbed`: a timer ran during the call), a rollback that was broken
off (`botched`), timers a call or its rollback could not list (`unscanned`), a whole-link timer
over a clean device (`idle`), and a timer that deletes a root with others'
impairments under it, or one a rollback is building anew (`wiped`).

The MC modules declare the model values and the small instances.
`MCHopTransport`, `MCInterruptions` and `MCFarSide` put several components
into one run, in scenes: the first state picks a scene, the other components
stand still. The scenes differ in which of a component's actions and inputs
they allow, never in the actions. Proofs are in modules of their own:
`HostRegistryProofs`, `CommandRunProofs`, `HopTransportProofs`,
`SyncPhaseProofs`, `TunnelAddProofs` (of `Compensate` too), `SessionProofs` (of
`SessionManager` and `ShellSession`), `ConnectionsProofs`, `LinkImpairProofs`.
Definitions marked "Wrong" are what a
plausible bug would make of the definition after them; each property is known
to fail under one of them.

## Runs

| Run | Instance | What it shows |
|---|---|---|
| `registry_family` | 2 dependent hosts, 1 loop, 2 clients, epochs to 2 | types; a close the sweep gave up on is stale for good; dependents close first, also when records are replaced during the sweep; every wait has somebody under way who ends it |
| `registry_two_loops` | 1 host, 2 loops, a client on each, 1 user, epochs to 2 | registry and ownership agree, the count is exact, across loop changes, closed loops, user closes |
| `registry_boundaries` | 1 host, 1 loop, 3 clients, epochs to 2, fair | `LoopPromise` is kept, so nobody holds a draining loop; waits and releases end |
| `registry_stale_close` | 1 host, 1 loop, users | finding, below |
| `command` | 2 signals, 3 deliveries, 2 cancellations, fair | cleanup unless forced, in order; nothing abandoned early, nor once it is over; a bounded exit |
| `command_forced_hooks` | 2 signals, 2 deliveries | finding, below |
| `transport` | 3 tasks, 2 levels, 1 destination, 2 closes | nothing is open that is not stored; nothing a close overtook survives; nobody waits for a lock in vain, or for a line that does not end |
| `transport_generation` | 2 tasks, 2 levels, 2 closes | finding, below |
| `interruptions`, scene phase | 2 signals and a foreign one, 3 arrivals, 2 nested loops, deadline of 2 ticks, fair | no force without a second signal or the deadline; the exit names a signal that came; a second signal or the deadline always forces; a nested loop keeps the descriptor it took; each signal is on a channel until the watchdog knows of it |
| `interruptions`, scenes removal and cancellation | 2 adds of one tunnel of 2 processes with removals; 1 add cancelled twice; 1 fault, fair | no half tunnel; a failed add kills nothing a successful one built; the lock is always left |
| `interruptions`, scene cleanup | one call with a timeout, 2 cancellations, both bounds 1 tick | no cancellation lost or made up, ties go to the work, both bounds kept; no news is lost between two callbacks |
| `far_side`, scenes names and pool | 2 callers, 2 names, 3 sessions, `close_all` | no session leaks, one per name, a borrowed one runs as the login's user |
| `far_side`, scene shell | 3 commands, 2 probes a recovery, fair | no command gets another's output; a call ends |
| `far_side`, scenes one end and both ends | 2 placements, 2 selectors, levels to 2, 3 calls, 1 fault | a failed call leaves what it found, a successful one what it was asked; a timer clears only its own |
| `session_cancelled_recovery` | 2 commands, 1 probe a recovery | finding, below |
| `link_whole_timer` | 1 placement, 1 selector, 2 calls | finding, below |

Bounds. `MaxGen` = 2 lets a host be claimed, be closed or abandoned, and be
claimed again or rebuilt, which is what it takes for an old close to meet a
new epoch; abandonment goes beyond the bound. Three clients are a caller of a
drain, a waiter that is admitted and one that leaves. Three signals are a
first, a forcing one and one too many; two cancellations are one in each of
two waits. Three tasks on a transport are one that dials, one that queues and
one that closes; two closes can overlap. Three connections are two of one slot
and one that rides on either; the run is symmetric in two of its tasks. A
phase with three arrivals has a first signal, a forcing one and one the
watchdog is still to read; a deadline of two ticks can pass between any two.
Two adds are one that builds and one that meets the tunnel, half built, whole
or dying; one process on each of two hosts is the least tunnel that can be
half there. Two probes are one and one resent, whose replies can cross; the
third command is the one that meets what the first two left. Three calls on a
link are one that launches a timer, one that replaces the impairment, one that
meets the outcome; the scene of both ends stops after two, without timers from
before. Three sessions are one lost, its retry and the next; `far_side` is
symmetric in its two callers, who do nothing in the scene its one liveness
property is about, so that the symmetry hides none of its counterexamples.
Deadlock is
checked only in `transport`: the others really stop (every loop closed, every
epoch, session, command or call used, the phase or the command over).

Fairness.  In the registry, the sweep's turns, the end of a drain, its expiry
and a resumed waiter are weakly fair: asyncio runs what is runnable and timers
fire.  `host.close()` is not: the claims hold although closes may hang.  In the
command, the main coroutine's races are polled; `BoundedExit` assumes that the
deadline fires and nothing of body or release, `SignalStopsBody` the opposite:
a body and a release that end once asked, and no timer.

In a sync phase only the watchdog is fair: the main thread may be wedged for
ever, which is what the phase's deadline is for.  `SecondSignalForces` assumes
no more; `BoundedPhase` adds that time passes.  An add's own steps are fair,
because every command on a host has a timeout, and so are the loop's callbacks;
its caller's cancellations, faults and removals are not.  In a session a read
ends or times out, and probes are sent until one is answered or the deadline
passes; the shell may never answer.

`AbandonedClosesAreStale` is checked without users: with them the first
finding breaks it too.

## Findings

* `registry_stale_close`.  Two closes of one host overlap.  The faster clears
  the owner; the host is claimed again on the same loop, which bumps the
  generation but keeps the connection managers; the slower close goes on with
  the managers it captured, up to their hop's close.  `host/host.py:1436` says
  a close of an earlier generation cannot touch the new connection.
* `command_forced_hooks`.  The body fails, a signal abandons the release: the
  body's error is raised, no force-exit hook runs, the exit code is not
  128 + signal, although `docs/architecture/lifecycle.md:229` promises both.
  A unit test pins the precedence of the body's error.
* `transport_generation`.  Between the two halves of a `close()` a new caller
  dials through the parent's old tunnel, which the second half closes.  The
  docstring of `close` (`host/transport.py:319`) says a later call builds a
  fresh tunnel and a close ends its own generation.

* `session_cancelled_recovery`.  A cancelled command marks its session for
  recovery; the next command takes the mark off before that recovery, which is
  cancelled too: the session is alive, unmarked, and its shell still runs the
  first command.  `host/session.py:1066` states the rule that breaks.
* `link_whole_timer`.  A whole-link impairment whose parameters come to nothing
  launches its expire timer all the same, over a clean device.  A port-scoped
  impairment is then accepted, does not cancel that timer, and loses its root
  to it; `link/manage.py:721` says exclusivity rules this out.

One more disagreement is kept out of `NothingOutlivesClose` by name: a call
that a close overtook reopens the parent's tunnel and, if its own handshake
then fails, leaves it open; so does a teardown in `close()` that raises.

## Proofs

TLC checks the instances above; TLAPS checks the following for every value of
the constants.  Hardly an invariant below is inductive as the runs state it.
Each proof module names the strengthening and has a lemma for each action, with
a step for each conjunct the action can disturb.

Liveness itself is out of the prover's reach.  Its safety half is not: whoever
waits has, in every reachable state, somebody or something under way that ends
the wait.  `EveryWaitHasACause`, `NobodyWaitsInVain` (`WaitsGoUp` for the
chain's locks, `WaitsAreServed` for the manager's) and `NoWordIsLost`
(`SignalsReachTheWatchdog` for a phase, `NewsIsOnItsWay` for a call of
`compensate`) say so, as the runs check it; they fail where a lost wake-up or a
lock left behind would show.  `StopIsBounded`, a timer not started, is proved
only: TLC checks `BoundedExit`, which rests on it.  For the two components with locks, deadlock
freedom follows for any number of tasks and any depth of the chain
(`NoStandstill`, `SomebodyAlwaysGoesOn`): as long as anybody is in a call,
somebody can go on.

Where a run finds the code at odds with its documentation, a theorem says how
far that goes: `OnlyABodysErrorHidesTheForce`, `OnlyATornRecoveryIsUnmarked`,
`OnlyUsersCloseAcrossEpochs`, `OnlyIdleTimersMeetSelectors`.  (For
`transport_generation` there is none: the state has no trace of the close that
a caller of the next generation dialled through.)

**`HostRegistryProofs`**: for every finite set of clients and any hosts, loops,
users, dependencies and bound, `IInv` is inductive and gives `TypeOK`,
`RegistryIsExact`, `HeldCountsHolders` and `NobodyHoldsADrainingLoop`.
`RegistryIsExact` needs `ClosesAreBehind` (a running close captured an epoch
its host reached, and while that is the present one only the captured owner
can own the host) and `TasksMatchDrains` (a close task carries an epoch its
host reached, and one that cancelled itself lost its record).
`HeldCountsHolders` and `NobodyHoldsADrainingLoop` need each other and
`ClientsMatchLoops` (a waiter waits on its own loop and a drain's caller is
draining), so that a drain ends by admitting exactly the waiters it counts.

`PromiseIsKept` is the refinement: initially and in every step each loop, seen
through the mapping, does what `LoopPromise` allows or nothing it speaks of,
action by action; it adds to `IInv` that a registry not made yet is not held.

`AbandonedAreStale` needs `StaleInv`: a sweep's close of the present epoch is
the one its drain waits for, there is one at a time, and its managers are no
newer than its host's.  Without assumptions it gives `OutlivedClosesHaveNoClaim`:
what outlives its drain is of an earlier epoch.  That it has none of the host's
managers either, and `DependentsAlwaysCloseFirst`, are proved where
`Users = {}`: a user's close frees and unregisters the host under the sweep's
(the first finding), so with users both are false.  The order of closes assumes
`NoCycle` too: in a cycle of dependencies the sweep closes all at once.  The
argument is that whoever the sweep starts has no registered dependent, since in
a set of hosts without cycles one of least rank is ready.

`WaitsAlwaysHaveACause` has three parts, each inductive given `IInv`: clients
wait rightly, a sleeping sweep has a close to wait for and nothing else ready,
and a task that runs has its close.  `OnlyUsersCloseAcrossEpochs`: without
users the rule of the first finding holds at every moment, by `StaleInv`.

**`CommandRunProofs`**: `IInv` of `CommandRun` for any set of signals and any
bounds, and from it `SweepFollowsBody`, `CleanupUnlessForced` and, of its steps
(`AbandonStep`), `NoEarlyAbandon`: a step that gives up has a second signal or
the deadline behind it, and what it gives up still runs, also when that ends in
the turn of the force.  The strengthening says why the force event is set
(`ForceHasACause`) and what each stage knows of embedder and release
(`StagesMatch`).  `StopsAreBounded` is inductive as it stands.
`OnlyABodysErrorHidesTheForce` (from `ForcedLeave`): a forced command that was
interrupted runs its hooks and exits with the signal, unless it raises what its
body had raised, or an outside cancellation of it.

**`HopTransportProofs`**: any tasks, any depth of the chain, any finite set of
destinations.  `OpenIsStored` rests on `HoldsItsLocks`, which is what the
double checks are for: a task in a handshake holds the lock of its level and of
every level below, none of which has a tunnel, and a task that binds a listener
holds the forward lock and knows its destination has none.  So whoever stores
finds the place empty, and a close, which takes no lock, only empties it.
`NothingOutlivesClose` rests on `CloseInv`, about what a close that nobody
called after still owes: it overtook every call under way
(`CallsAreOvertaken`), took what level 1 stored (`FirstIsTaken`), and every
tunnel further up is still to be met by somebody who tears down, or will
because its call is overtaken (`CloseGoesOn`).  `WaitsGoUp` rests on
`HoldsBelow`: who waits at a level holds locks of lower levels only, who dials
there its own level's too, and only who binds the forward lock.  `NoStandstill` follows from
it: of those who wait, one furthest up waits for a free lock, or for somebody
who does not wait.

**`SyncPhaseProofs`**: any sets of signals, deadline, arrivals and nested loops.
`ForcesRightly` is two claims.  `ForcedOnlyWhenAsked` needs `OneArrivalCountsOnce`: while one signal has
arrived, each channel reports it once at most, be it a Python handler still to
run, a byte in the pipe or a count, and reclaiming the descriptor repeats only
what the interpreter could not write; and `CountsHaveACause`.
`ExitNamesADelivered` needs `NamesDelivered`, that nothing on either channel
names a signal that did not come.  `DescriptorIsLent` follows from
`GuardKnows`.  `WatchdogHears` needs `WordIsOut`, which says of each channel
alone, also before a second signal, what it has counted or has still to read.

**`TunnelAddProofs`**, first `Compensate`, for any bounds: `CallInv` gives
`CallerGetsItsOwn`, `BoundsAreKept` and `TieGoesToTheWork`.  It adds that the
caller is scheduled for a reason (`WakesHaveACause`), that a cancellation is on
its way or held until it is reported (`CancellationIsKept`), and that the
deadline runs from the first one until it meets work that ended or was asked to
(`DeadlineRuns`).  `NewsAlwaysArrives` adds that a joining caller is outside the
shield (`JoinsOutsideTheShield`).  Then `TunnelAdd`, for any adds, hosts and plan:
`NoHalfTunnel` needs `RollbackTracks` (a process is excused, seen by the
rollback, or on a host still to be scanned) and `LaunchesAreOwned`;
`WinnerStands` needs `ConflictsAreSeen`, and `WorkersHoldTheLock`, so that no
add succeeds while another scans.  `RollbackIsACall`: seen from its rollback, every behaviour of
`TunnelAdd` is one of `Compensate`, so what holds of the call holds of the
rollback.  The module ends with the composed specification of `interruptions`:
its behaviours are behaviours of `SyncPhase` and of `Compensate`
(`PhaseAndCall`), so `WordsAlwaysArrive`; and `MCTypeCorrect` gives its types,
by an invariant that asks of a cleanup's call only what holds of every call.

**`SessionProofs`**, `SessionManager`, for any callers, names and number of
sessions: `ManagerInv` gives `SessionsAreHeld`, `OneSessionPerName` and
`BorrowedAsLoggedIn`.  Its subject are the sound sessions, those with a
transport that no `close_all` spoilt.  Conjuncts say who may open under which
lock (`OneOpenerPerLock`, `LocksAreTheNames`), that an opener finds no sound
session under its name (`OpenersFindNone`), that a running `close_all` still has
before it all it is to close (`CloserHasThem`, `ClosesAreMet`), that a session
has one name (`SoundAreTheNames`), and for the pool that a session is idle in
one place or in one caller's hands, as the login's user (`OneBorrower`,
`UsersAreKnown`).  `ShellSession`, for any number of commands and probes:
`ShellInv` gives `AnswersItsOwn`.  While the session can be relied upon there
is at most one end marker between the caller and the shell, the last command's,
and no probe of that command ahead of it (`OneMarkerAhead`); between calls
there are only probes (`QuietBetweenCalls`), which is also why only a cancelled recovery before a
command breaks the rule of the fourth finding (`OnlyATornRecoveryIsUnmarked`).

**`ConnectionsProofs`**, any callers, connections and closes: `ConnInv` gives
`ConnectionsAreHeld` and that two tasks never dial one shared slot at a time
(`SharedSlotsAreDialedOnce`).  A lock excludes (`LocksExclude`), an opener has
the locks on its way (`HasItsLocks`), under a lock the slot is empty but for
the dead line being replaced (`LockedAreEmpty`), and a close awaits what it took
(`ClosersAwait`).  The type invariant is the harder one: that only an open line
drains needs `SettlesAlone`, that nobody else knows a connection in setup.
`WaitsAreAlwaysServed` adds that a caller lets go of its locks when it stops
opening, waits inside of an SFTP client's only (`HoldsRightly`), and finds the
line it waits for draining or gone (`LineServed`).  `BothSpecifications`,
`MCTypeCorrect` and `NobodyEverWaitsInVain` are about the composed specification
of `transport`.

**`LinkImpairProofs`**, any selectors, placements, levels, calls and failures:
`LinkInv` gives `NoHalfImpairment`, `TimerClearsItsOwn` and `ImpairedAsAsked`.
A timer that waits finds what it was launched with, but while a rollback
rebuilds it (`WaitersFindTheirs`); so does what is registered for the rollback
(`EntriesKnowWaiters`), no pending command touches another's band
(`ChangesAreHarmless`), and a call's selector goes to the band its timer will
clear (`SelectorHasItsBand`, `ArmedIsThere`).  A rollback's tree is, command by
command, a prefix of the rebuilding (`RestoresInTurn`, with `PutBack` saying
which), and what is registered is what the call found (`CallKnowsBefore`); what
a call has done with is as asked (`DoneSoFar`).  Trying to prove
`TimerClearsItsOwn` showed that the model's histories had left out a case of
four calls, one more than the run has: a timer that checked for filters before
a rollback and deletes the root in the middle of it.  The code does that, as
the docstring of `_rollback` concedes; `wiped` now names it.
`AllSpecifications` and `MCTypeCorrect` are about the composed specification of
`far_side`.

The assumptions are those the modules name: `NoLoop`, `NoClient`, `NoSignal`,
`NoTask`, `NoDest`, `NoSelector`, `Pool` and the like are not among the things
they stand apart from; clients, callers, destinations and selectors are finitely
many where something is counted; a chain, a link and a tunnel have at least one
level, placement and process, a recovery one probe; users are not loops; the
bytes the handlers and the guard write are no signals; the clock's cap leaves
room for both bounds of a call; all bounds are naturals.

Only model-checked: all liveness (`DrainsLetGo`, which is `WaitEnds` and `ReleaseReturns`; `BoundedExit`,
`SignalStopsBody`, `SecondSignalForces`, `BoundedPhase`, `AddEnds`,
`CallEnds`), which with fairness and `ENABLED` is out of the prover's reach.

## Not modelled

* Of the connection manager: that its hops close last, forwarding for
  transfers, the choice of credentials and addresses.
* Of sessions: `send`, `expect`, frames and app shells, one-shot SSH channels,
  a named session used directly after it died.
* Of tunnels and links: choosing ports, resolving endpoints and placements, the
  checks that only read, the parsing of listings.
* File transfers: their retries and port reservations are shell I/O of one
  task; only that their cleanup runs under `compensate` is in a scene.
* Project orchestration, run contexts, monitor, reservations, plug-in registry,
  configuration, completion, coverage, suites, wrappers of external tools: they
  transform data, call tools, or are clients of what is modelled, and have no
  state machine worth checking beyond their tests.
* The contents of connections, commands and transfers; log messages.
