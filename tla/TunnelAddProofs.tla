---------------------------- MODULE TunnelAddProofs ----------------------------
(* Proofs about Compensate, and about TunnelAdd, whose rollback runs under *)
(* it: the inductive invariants and what follows.                          *)
EXTENDS MCInterruptions, SyncPhaseProofs, SequenceTheorems, TLAPS

----------------------------------------------------------------------------
(* The inductive invariant of compensate. *)

(* The caller is scheduled only for a reason: it was cancelled, the work   *)
(* ended, or its timeout passed; and it joins only for the timeout, and    *)
(* hears of the join only when the work is over.                           *)
WakesHaveACause ==
    /\ call = "waiting" /\ ready # <<>> => cancelling \/ work # "running" \/ expiry = "set"
    /\ call = "joining" => expiry = "set" /\ (work = "running" => ready = <<>>)

(* A cancellation is on its way or held, and a caller nobody cancelled     *)
(* neither holds one nor has its work cut short.                           *)
CancellationIsKept ==
    /\ Active => ((cancels > 0) <=> (held \/ cancelling))
    /\ call = "waiting" /\ (asked \/ work = "cancelled") => cancels > 0

(* The deadline runs from the first held cancellation until it fires, and  *)
(* it fires on work that ended or is now asked to.                         *)
DeadlineRuns ==
    Active =>
        /\ ~held => heldAt = Never /\ deadlineAt = Never
        /\ held => /\ heldAt <= clock
                   /\ \/ deadlineAt = heldAt + Deadline
                      \/ deadlineAt = Never /\ (asked \/ work # "running")

CallInv ==
    /\ CallTypeOK
    /\ WakesHaveACause
    /\ CancellationIsKept
    /\ DeadlineRuns
    /\ CallerGetsItsOwn
    /\ BoundsAreKept

----------------------------------------------------------------------------
(* The inductive invariant of add_tunnel. *)

Busy == {"checking", "launching", "verifying", "rolling"}
AddStates == {"idle", "added", "failed", "cancelled"} \cup Busy

(* Whoever is at work on the tunnel has its lock.                          *)
WorkersHoldTheLock == \A a \in Adders : pc[a] \in Busy => lock = a

(* An add that launched nothing has no process, and a launch still         *)
(* travels only for an add that gave it up.                                *)
LaunchesAreOwned ==
    /\ \A p \in alive \cup flying : pc[p[1]] \notin {"idle", "checking"}
    /\ \A p \in flying : pc[p[1]] \in {"rolling", "failed", "cancelled"}
    /\ \A a \in Adders : pc[a] \in {"checking", "launching"} => next \in Places

(* What a process escapes a rollback by.                                   *)
Excused(p) ==
    \/ <<p[1], Plan[p[2]]>> \in missed
    \/ p[1] \in torn
    \/ p \in late

(* A rollback that runs still has to scan a process's host, or saw the     *)
(* process; one that is over left only what is excused.                    *)
RollbackTracks ==
    \A p \in alive : pc[p[1]] = "rolling" =>
        \/ Excused(p)
        \/ work = "running" /\ (Plan[p[2]] \notin scanned \/ p \in seen)

(* A scan for conflicts sees what a successful add built on the hosts it   *)
(* reached; past it there is nothing of a successful add.                  *)
ConflictsAreSeen ==
    \A a \in Adders \ blind : \A p \in alive : pc[p[1]] = "added" =>
        /\ pc[a] = "checking" => Plan[p[2]] \notin scanned \/ p \in seen
        /\ pc[a] \notin {"launching", "verifying", "rolling"}

AddInv ==
    /\ TypeOK
    /\ CallInv
    /\ WorkersHoldTheLock
    /\ LaunchesAreOwned
    /\ RollbackTracks
    /\ ConflictsAreSeen
    /\ NoHalfTunnel
    /\ WinnerStands

----------------------------------------------------------------------------
(* compensate: the initial states and, one lemma each, its actions. *)

Callbacks == {"shield", "waiter", "join", "caller"}

LEMMA CallInitInv == CallInit => CallInv
  <1> SUFFICES ASSUME CallInit PROVE CallInv
    OBVIOUS
  <1>1. ready \in Seq(Callbacks) /\ Never \in 0..Never /\ 0 \in 0..MaxClock /\ 0 \in 0..Never
        /\ 0 \in 0..MaxCancels
    BY BoundsAssumption DEF CallInit, Never
  <1>2. CallTypeOK
    BY <1>1, Zenon DEF CallInit, CallTypeOK, Callbacks, Ends
  <1> QED
    BY <1>2
    DEF CallInit, CallInv, WakesHaveACause, CancellationIsKept, DeadlineRuns, CallerGetsItsOwn,
        BoundsAreKept, Active

(* A call that begins, or that is over and left, has nothing of an earlier *)
(* one.                                                                    *)
LEMMA StartStep ==
  ASSUME CallInv, NEW bounded \in BOOLEAN, Start(bounded) PROVE CallInv'
  <1>1. /\ call' = "waiting" /\ work' = "running" /\ asked' = FALSE
        /\ ready' = <<>> /\ woken' = FALSE /\ cancelling' = FALSE /\ held' = FALSE
        /\ expiry' \in {"pending", "none"}
        /\ clock' = 0 /\ deadlineAt' = Never /\ outcome' = "none"
        /\ cancels' = 0 /\ heldAt' = Never /\ shutdown' = FALSE
    BY DEF Start
  <1>2. ready' \in Seq(Callbacks) /\ Never \in Nat /\ Never + Deadline > 0
        /\ Never \in 0..Never /\ 0 \in 0..MaxClock /\ 0 \in 0..MaxCancels
    BY <1>1, BoundsAssumption DEF Never
  <1>3. CallTypeOK'
    BY <1>1, <1>2, Zenon DEF CallTypeOK, Callbacks, Ends, Never
  <1> QED
    BY <1>1, <1>2, <1>3, BoundsAssumption
    DEF CallInv, WakesHaveACause, CancellationIsKept, DeadlineRuns, CallerGetsItsOwn,
        BoundsAreKept, Active

LEMMA LeaveStep ==
  ASSUME CallInv, Leave PROVE CallInv'
  <1>1. /\ call' = "idle" /\ work' = "result" /\ asked' = FALSE
        /\ ready' = <<>> /\ woken' = FALSE /\ cancelling' = FALSE /\ held' = FALSE
        /\ expiry' = "none"
        /\ clock' = 0 /\ deadlineAt' = Never /\ outcome' = "none"
        /\ cancels' = 0 /\ heldAt' = Never /\ shutdown' = FALSE
    BY DEF Leave
  <1>2. ready' \in Seq(Callbacks) /\ Never \in Nat
        /\ Never \in 0..Never /\ 0 \in 0..MaxClock /\ 0 \in 0..MaxCancels
    BY <1>1, BoundsAssumption DEF Never
  <1>3. CallTypeOK'
    BY <1>1, <1>2, Zenon DEF CallTypeOK, Callbacks, Ends, Never
  <1> QED
    BY <1>1, <1>3
    DEF CallInv, WakesHaveACause, CancellationIsKept, DeadlineRuns, CallerGetsItsOwn,
        BoundsAreKept, Active

LEMMA WorkEndsStep ==
  ASSUME CallInv, NEW how \in Ends, WorkEnds(how) PROVE CallInv'
  <1>1. /\ UNCHANGED <<call, woken, cancelling, held, expiry, clock, deadlineAt, outcome,
                       cancels, heldAt, shutdown>>
        /\ Active /\ work = "running" /\ work' = how /\ asked' = FALSE
        /\ how # "running" /\ (how = "cancelled" => asked)
        /\ ready' \in Seq(Callbacks) /\ how \in Ends
    BY DEF WorkEnds, CallInv, CallTypeOK, Callbacks, Ends
  <1>2. CallTypeOK'
    BY <1>1, Zenon DEF CallInv, CallTypeOK, Callbacks, Never
  <1> QED
    BY <1>1, <1>2
    DEF CallInv, WakesHaveACause, CancellationIsKept, DeadlineRuns, CallerGetsItsOwn,
        BoundsAreKept, Active

LEMMA ScheduledKeepsType ==
  ASSUME CallTypeOK, NEW c \in Callbacks
  PROVE  Scheduled(c) \in Seq(Callbacks)
  BY DEF CallTypeOK, Scheduled, Callbacks

LEMMA CancelStep ==
  ASSUME CallInv, Cancel \/ CancelAll PROVE CallInv'
  <1>1. /\ UNCHANGED <<call, work, woken, held, expiry, clock, deadlineAt, outcome, heldAt>>
        /\ Active /\ cancels < MaxCancels /\ cancels' = cancels + 1 /\ cancelling' = TRUE
        /\ asked' \in BOOLEAN /\ shutdown' \in BOOLEAN
        /\ ready' \in Seq(Callbacks)
        /\ call = "joining" => ready' = ready
    BY ScheduledKeepsType DEF Cancel, CancelAll, CallInv, CallTypeOK, Callbacks, Active
  <1>2. /\ ~shutdown' => /\ asked => asked'
                         /\ asked' => asked \/ call = "joining"
                         /\ ~shutdown
        /\ asked /\ work = "running" => asked'
    BY DEF Cancel, CancelAll, CallInv, CallTypeOK
  <1>3. CallTypeOK'
    <2>1. cancels' \in 0..MaxCancels
      BY <1>1, BoundsAssumption DEF CallInv, CallTypeOK
    <2> QED BY <1>1, <2>1, Zenon DEF CallInv, CallTypeOK, Callbacks, Never
  <1>4. WakesHaveACause' /\ CancellationIsKept'
    BY <1>1 DEF CallInv, CallTypeOK, WakesHaveACause, CancellationIsKept, Active
  <1>5. DeadlineRuns' /\ CallerGetsItsOwn' /\ BoundsAreKept'
    BY <1>1, <1>2
    DEF CallInv, WakesHaveACause, DeadlineRuns, CallerGetsItsOwn, BoundsAreKept, Active
  <1> QED BY <1>3, <1>4, <1>5 DEF CallInv

LEMMA ClockStep ==
  ASSUME CallInv, Tick PROVE CallInv'
  <1>1. /\ UNCHANGED <<call, work, asked, ready, woken, cancelling, held, expiry, deadlineAt,
                       outcome, cancels, heldAt, shutdown>>
        /\ Active /\ clock \in 0..MaxClock /\ clock < MaxClock /\ clock' = clock + 1
        /\ ~(deadlineAt <= clock) /\ deadlineAt \in 0..Never /\ heldAt \in 0..Never
        /\ Never \in Nat /\ MaxClock < Never /\ MaxClock \in Nat /\ Deadline \in Nat
    BY BoundsAssumption DEF Tick, DeadlineDue, CallInv, CallTypeOK, Never
  <1>2. CallTypeOK'
    BY <1>1 DEF CallInv, CallTypeOK
  <1>3. WakesHaveACause' /\ CancellationIsKept' /\ CallerGetsItsOwn'
    BY <1>1 DEF CallInv, WakesHaveACause, CancellationIsKept, CallerGetsItsOwn, Active
  <1>4. DeadlineRuns'
    BY <1>1 DEF CallInv, DeadlineRuns, Active
  <1>5. BoundsAreKept'
    BY <1>1 DEF CallInv, CallTypeOK, DeadlineRuns, BoundsAreKept, Active
  <1> QED BY <1>2, <1>3, <1>4, <1>5 DEF CallInv

LEMMA DeadlineFiresStep ==
  ASSUME CallInv, DeadlineFires PROVE CallInv'
  <1>1. /\ UNCHANGED <<call, work, ready, woken, cancelling, held, expiry, clock, outcome,
                       cancels, heldAt, shutdown>>
        /\ Active /\ deadlineAt <= clock /\ deadlineAt' = Never /\ asked' = (work = "running")
        /\ clock < Never /\ Never \in Nat /\ deadlineAt \in 0..Never
    BY BoundsAssumption DEF DeadlineFires, DeadlineDue, CallInv, CallTypeOK, Never
  <1>2. held /\ deadlineAt = heldAt + Deadline
    BY <1>1, BoundsAssumption DEF CallInv, CallTypeOK, DeadlineRuns
  <1>3. CallTypeOK'
    BY <1>1 DEF CallInv, CallTypeOK
  <1>4. WakesHaveACause' /\ CallerGetsItsOwn' /\ DeadlineRuns'
    BY <1>1, <1>2 DEF CallInv, WakesHaveACause, DeadlineRuns, CallerGetsItsOwn, Active
  <1>5. CancellationIsKept' /\ BoundsAreKept'
    BY <1>1, <1>2 DEF CallInv, CancellationIsKept, BoundsAreKept, Active
  <1> QED BY <1>3, <1>4, <1>5 DEF CallInv

LEMMA TimeoutFiresStep ==
  ASSUME CallInv, TimeoutFires PROVE CallInv'
  <1>1. /\ UNCHANGED <<call, work, asked, woken, cancelling, held, clock, deadlineAt,
                       outcome, cancels, heldAt, shutdown>>
        /\ Active /\ expiry' = "set"
        /\ ready' \in Seq(Callbacks)
        /\ call = "joining" => ready' = ready
    BY DEF TimeoutFires, CallInv, CallTypeOK, Callbacks, Active
  <1>2. CallTypeOK'
    BY <1>1 DEF CallInv, CallTypeOK, Callbacks
  <1>3. WakesHaveACause' /\ CancellationIsKept' /\ CallerGetsItsOwn'
    BY <1>1 DEF CallInv, WakesHaveACause, CancellationIsKept, CallerGetsItsOwn, Active
  <1>4. DeadlineRuns' /\ BoundsAreKept'
    BY <1>1 DEF CallInv, DeadlineRuns, BoundsAreKept, Active
  <1> QED BY <1>2, <1>3, <1>4 DEF CallInv

(* The loop's callbacks pass the news on; that there is any has a reason.  *)
LEMMA CallbackStep ==
  ASSUME CallInv, ShieldCallback \/ PassOn PROVE CallInv'
  <1>1. /\ UNCHANGED <<call, work, asked, cancelling, held, expiry, clock, deadlineAt,
                       outcome, cancels, heldAt, shutdown>>
        /\ Active /\ ready # <<>> /\ woken' \in BOOLEAN
    BY DEF ShieldCallback, PassOn, CallInv, CallTypeOK
  <1>2. ready' \in Seq(Callbacks)
    <2>1. Tail(ready) \in Seq(Callbacks)
      BY <1>1 DEF CallInv, CallTypeOK, Callbacks
    <2> QED BY <2>1 DEF ShieldCallback, PassOn, Callbacks
  <1>3. CallTypeOK'
    BY <1>1, <1>2, Zenon DEF CallInv, CallTypeOK, Callbacks, Never
  <1>4. WakesHaveACause' /\ CancellationIsKept' /\ CallerGetsItsOwn'
    BY <1>1 DEF CallInv, WakesHaveACause, CancellationIsKept, CallerGetsItsOwn, Active
  <1>5. DeadlineRuns' /\ BoundsAreKept'
    BY <1>1 DEF CallInv, DeadlineRuns, BoundsAreKept, Active
  <1> QED BY <1>3, <1>4, <1>5 DEF CallInv

(* How a call ends. *)
LEMMA ReturnStep ==
  ASSUME CallInv, Active, NEW how \in Ends \cup {"none"}, NEW holding \in BOOLEAN,
         Return(how, holding),
         work # "running",
         holding <=> cancels > 0,
         ~holding => how # "cancelled",
         how \in {"result", "error"} => how = work,
         how = "none" => expiry = "set",
         heldAt' \in 0..Never
  PROVE  CallInv'
  <1>1. /\ call' = "done" /\ held' = holding /\ woken' = FALSE /\ cancelling' = FALSE
        /\ outcome' = (IF holding THEN "cancelled" ELSE how)
        /\ ready' = <<>> /\ deadlineAt' = Never
        /\ UNCHANGED <<work, asked, expiry, clock, cancels, shutdown>>
    BY DEF Return
  <1>2. outcome' \in Ends \cup {"none"} /\ ready' \in Seq(Callbacks) /\ Never \in 0..Never
    BY <1>1, BoundsAssumption DEF Ends, Never
  <1>3. CallTypeOK'
    BY <1>1, <1>2, Zenon DEF CallInv, CallTypeOK, Callbacks, Never
  <1>4. CallerGetsItsOwn'
    BY <1>1 DEF CallerGetsItsOwn, Ends
  <1> QED
    BY <1>1, <1>3, <1>4
    DEF CallInv, WakesHaveACause, CancellationIsKept, DeadlineRuns, BoundsAreKept, Active

LEMMA CallerCancelledStep ==
  ASSUME CallInv, CallerCancelled PROVE CallInv'
  <1>1. call = "waiting" /\ cancelling /\ Active
    BY DEF CallerCancelled, Turn, Active
  <1>2. /\ cancels > 0 /\ clock \in 0..MaxClock /\ heldAt \in 0..Never /\ held \in BOOLEAN
        /\ work \in Ends \cup {"running"} /\ clock + Deadline \in 0..Never /\ clock \in 0..Never
        /\ MaxClock < Never /\ Never \in Nat /\ Deadline \in Nat
    BY <1>1, BoundsAssumption DEF CallInv, CallTypeOK, CancellationIsKept, Never
  <1>3. CASE work = "cancelled" /\ Return("cancelled", held) /\ UNCHANGED heldAt
    <2>1. /\ call' = "done" /\ outcome' = "cancelled" /\ held' = held
          /\ woken' = FALSE /\ cancelling' = FALSE /\ ready' = <<>> /\ deadlineAt' = Never
          /\ UNCHANGED <<work, asked, expiry, clock, cancels, shutdown, heldAt>>
      BY <1>3 DEF Return
    <2>2. ready' \in Seq(Callbacks) /\ Never \in 0..Never /\ outcome' \in Ends
      BY <2>1, <1>2 DEF Ends
    <2>3. CallTypeOK'
      BY <2>1, <2>2, Zenon DEF CallInv, CallTypeOK, Callbacks, Never
    <2>4. CallerGetsItsOwn'
      BY <1>2, <1>3, <2>1 DEF CallerGetsItsOwn
    <2> QED
      BY <2>1, <2>3, <2>4
      DEF CallInv, WakesHaveACause, CancellationIsKept, DeadlineRuns, BoundsAreKept, Active
  <1>4. CASE /\ work \in {"result", "error"} /\ expiry = "none"
             /\ Return(work, TRUE)
             /\ heldAt' = IF held THEN heldAt ELSE clock
    <2>1. heldAt' \in 0..Never
      BY <1>2, <1>4
    <2> QED BY <1>1, <1>2, <1>4, <2>1, ReturnStep DEF Ends
  <1>5. CASE work # "cancelled" /\ (work = "running" \/ expiry # "none") /\ Hold /\ NextRound
    <2>1. /\ held' = TRUE /\ cancelling' = FALSE /\ woken' = (work # "running")
          /\ heldAt' = (IF held THEN heldAt ELSE clock)
          /\ deadlineAt' = (IF held THEN deadlineAt ELSE clock + Deadline)
          /\ ready' = (IF work # "running" \/ expiry = "set" THEN <<"waiter">> ELSE <<>>)
          /\ UNCHANGED <<call, work, asked, expiry, clock, outcome, cancels, shutdown>>
      BY <1>5 DEF Hold, NextRound
    <2>2. /\ heldAt' \in 0..Never /\ deadlineAt' \in 0..Never
          /\ ready' \in Seq(Callbacks) /\ woken' \in BOOLEAN
      <3>1. heldAt' \in 0..Never /\ deadlineAt' \in 0..Never
        BY <1>2, <2>1 DEF CallInv, CallTypeOK
      <3>2. ready' \in Seq(Callbacks)
        <4>1. <<>> \in Seq(Callbacks) /\ <<"waiter">> \in Seq(Callbacks)
          BY DEF Callbacks
        <4> QED BY <2>1, <4>1
      <3> QED BY <2>1, <3>1, <3>2, Zenon
    <2>3. CallTypeOK'
      BY <2>1, <2>2, Zenon DEF CallInv, CallTypeOK, Callbacks, Never
    <2>4. WakesHaveACause' /\ CancellationIsKept' /\ CallerGetsItsOwn'
      BY <1>1, <1>2, <2>1
      DEF CallInv, WakesHaveACause, CancellationIsKept, CallerGetsItsOwn, Active
    <2>5. DeadlineRuns'
      BY <1>1, <1>2, <2>1 DEF CallInv, CallTypeOK, DeadlineRuns, Active
    <2>6. BoundsAreKept'
      BY <1>1, <1>2, <2>1 DEF CallInv, CallTypeOK, DeadlineRuns, BoundsAreKept, Active
    <2> QED BY <2>3, <2>4, <2>5, <2>6 DEF CallInv
  <1> QED BY <1>3, <1>4, <1>5 DEF CallerCancelled

LEMMA CallerWakesStep ==
  ASSUME CallInv, CallerWakes PROVE CallInv'
  <1>1. call = "waiting" /\ ~cancelling /\ Active /\ UNCHANGED heldAt /\ ready # <<>>
    BY DEF CallerWakes, Turn, Active
  <1>2. /\ cancels > 0 <=> held
        /\ heldAt \in 0..Never /\ held \in BOOLEAN
        /\ work = "cancelled" => cancels > 0
        /\ work \in Ends \cup {"running"}
    BY <1>1 DEF CallInv, CallTypeOK, CancellationIsKept
  <1>3. CASE work # "running"
    <2>1. Return(work, held)
      BY <1>3 DEF CallerWakes
    <2> QED BY <1>1, <1>2, <1>3, <2>1, ReturnStep DEF Ends
  <1>4. CASE work = "running"
    <2>1. /\ call' = "joining" /\ asked' = TRUE /\ ready' = <<>> /\ woken' = FALSE
          /\ UNCHANGED <<work, cancelling, held, expiry, clock, deadlineAt, outcome, cancels,
                         shutdown, heldAt>>
      BY <1>4 DEF CallerWakes
    <2>2. expiry = "set" /\ ready' \in Seq(Callbacks)
      BY <1>1, <1>4, <2>1 DEF CallInv, WakesHaveACause
    <2>3. CallTypeOK'
      BY <2>1, <2>2, Zenon DEF CallInv, CallTypeOK, Callbacks, Never
    <2>4. WakesHaveACause' /\ CancellationIsKept' /\ CallerGetsItsOwn'
      BY <1>1, <2>1, <2>2
      DEF CallInv, WakesHaveACause, CancellationIsKept, CallerGetsItsOwn, Active
    <2>5. DeadlineRuns' /\ BoundsAreKept'
      BY <1>1, <2>1, <2>2 DEF CallInv, DeadlineRuns, BoundsAreKept, Active
    <2> QED BY <2>3, <2>4, <2>5 DEF CallInv
  <1> QED BY <1>3, <1>4

LEMMA JoinEndsStep ==
  ASSUME CallInv, JoinEnds PROVE CallInv'
  <1>1. /\ call = "joining" /\ ready # <<>> /\ Active
        /\ Return("none", held \/ cancelling)
        /\ heldAt' = IF held \/ ~cancelling THEN heldAt ELSE clock
    BY DEF JoinEnds, Turn, Active
  <1>2. work # "running" /\ expiry = "set"
    BY <1>1 DEF CallInv, WakesHaveACause
  <1>3. (held \/ cancelling <=> cancels > 0) /\ (held \/ cancelling) \in BOOLEAN
    BY <1>1 DEF CallInv, CancellationIsKept
  <1>4. heldAt' \in 0..Never
    BY <1>1, BoundsAssumption DEF CallInv, CallTypeOK, Never
  <1> QED BY <1>1, <1>2, <1>3, <1>4, ReturnStep

----------------------------------------------------------------------------
(* compensate: the results. *)

LEMMA CallStepStep ==
  ASSUME CallInv, CallStep PROVE CallInv'
  BY CancelStep, ClockStep, DeadlineFiresStep, TimeoutFiresStep, CallbackStep,
     CallerCancelledStep, CallerWakesStep, JoinEndsStep
  DEF CallStep, LoopStep

LEMMA CallInvStep == CallInv /\ [CallNext]_callVars => CallInv'
  <1> SUFFICES ASSUME CallInv, [CallNext]_callVars PROVE CallInv'
    OBVIOUS
  <1>1. ASSUME NEW bounded \in BOOLEAN, Start(bounded) PROVE CallInv'
    BY <1>1, StartStep
  <1>2. CASE Leave
    BY <1>2, LeaveStep
  <1>3. ASSUME NEW how \in Ends, WorkEnds(how) PROVE CallInv'
    BY <1>3, WorkEndsStep
  <1>4. CASE CallStep
    BY <1>4, CallStepStep
  <1>5. CASE UNCHANGED callVars
    BY <1>5
    DEF callVars, CallInv, CallTypeOK, WakesHaveACause, CancellationIsKept, DeadlineRuns,
        CallerGetsItsOwn, BoundsAreKept, Active
  <1> QED BY <1>1, <1>2, <1>3, <1>4, <1>5 DEF CallNext

(* The inductive invariant of a call of compensate, for every deadline,    *)
(* timeout and number of cancellations.                                    *)
THEOREM CallInvariant == CallSpec => []CallInv
  BY CallInitInv, CallInvStep, PTL DEF CallSpec

(* The caller of compensate is told it was cancelled exactly when it was,  *)
(* and otherwise gets the work's own end; nothing outlives the call.       *)
THEOREM AlwaysGetsItsOwn == CallSpec => []CallerGetsItsOwn
  <1>1. CallInv => CallerGetsItsOwn
    BY DEF CallInv
  <1> QED BY <1>1, CallInvariant, PTL

(* The work of compensate is cancelled only by a bound that is due, and by *)
(* a due deadline always.                                                  *)
THEOREM AlwaysKeepsBounds == CallSpec => []BoundsAreKept
  <1>1. CallInv => BoundsAreKept
    BY DEF CallInv
  <1> QED BY <1>1, CallInvariant, PTL

LEMMA TieStep ==
  ASSUME CallInv, [CallNext]_callVars
  PROVE  /\ call = "waiting" /\ call' = "joining" => work = "running"
         /\ call = "waiting" /\ call' = "done" /\ cancels = 0 => outcome' = work
  <1>1. CASE CallerCancelled
    <2>1. cancels > 0 /\ call' # "joining"
      BY <1>1
      DEF CallerCancelled, Turn, Return, Hold, NextRound, CallInv, CancellationIsKept, Active
    <2> QED BY <2>1
  <1>2. CASE CallerWakes
    <2>1. cancels = 0 => ~held
      BY <1>2 DEF CallerWakes, Turn, CallInv, CancellationIsKept, Active
    <2> QED BY <1>2, <2>1 DEF CallerWakes, Turn, Return
  <1>3. CASE ~CallerCancelled /\ ~CallerWakes
    <2>1. call = "waiting" => call' = "waiting"
      BY <1>3
      DEF CallNext, CallStep, LoopStep, Leave, Start, WorkEnds, ShieldCallback, PassOn, JoinEnds,
          Turn, DeadlineFires, TimeoutFires, Cancel, CancelAll, Tick, callVars
    <2> QED BY <2>1
  <1> QED BY <1>1, <1>2, <1>3

(* A tie between the work's end and a bound goes to the work: the caller   *)
(* never abandons work that has ended, nor reports it as anything else.    *)
THEOREM TiesGoToTheWork == CallSpec => TieGoesToTheWork
  BY CallInvariant, TieStep, PTL DEF CallSpec, TieGoesToTheWork

----------------------------------------------------------------------------
(* compensate: the news of the work's end reaches the caller.              *)

(* What a queue of callbacks has in it when one is added, and when its     *)
(* head is taken.                                                          *)
Has(q, c) == \E i \in DOMAIN q : q[i] = c

LEMMA AppendHas ==
  ASSUME NEW s \in Seq(Callbacks), NEW e \in Callbacks, NEW q, q = Append(s, e)
  PROVE  /\ q \in Seq(Callbacks) /\ q # <<>> /\ Has(q, e)
         /\ \A c : Has(s, c) => Has(q, c)
         /\ \A c : Has(q, c) => c = e \/ Has(s, c)
  <1>1. /\ q \in Seq(Callbacks) /\ Len(s) \in Nat
        /\ DOMAIN q = DOMAIN s \cup {Len(s) + 1}
        /\ \A i \in DOMAIN s : q[i] = s[i]
        /\ q[Len(s) + 1] = e
    OBVIOUS
  <1>2. Has(q, e)
    BY <1>1, Zenon DEF Has
  <1>3. \A c : Has(s, c) => Has(q, c)
    BY <1>1 DEF Has
  <1>4. \A c : Has(q, c) => c = e \/ Has(s, c)
    BY <1>1 DEF Has
  <1>5. q # <<>>
    OBVIOUS
  <1> QED BY <1>1, <1>2, <1>3, <1>4, <1>5

LEMMA TailHas ==
  ASSUME NEW s \in Seq(Callbacks), s # <<>>, NEW q, q = Tail(s)
  PROVE  /\ q \in Seq(Callbacks) /\ Has(s, Head(s))
         /\ \A c : Head(s) # c /\ Has(s, c) => Has(q, c)
         /\ \A c : Has(q, c) => Has(s, c)
  <1>1. /\ q \in Seq(Callbacks) /\ Len(s) \in Nat \ {0}
        /\ DOMAIN s = 1..Len(s) /\ DOMAIN q = 1..(Len(s) - 1)
        /\ \A i \in 1..(Len(s) - 1) : q[i] = s[i + 1]
        /\ Head(s) = s[1]
    OBVIOUS
  <1>2. Has(s, Head(s))
    <2>1. 1 \in DOMAIN s
      BY <1>1
    <2> QED BY <1>1, <2>1, Zenon DEF Has
  <1>3. ASSUME NEW c, Head(s) # c, Has(s, c) PROVE Has(q, c)
    <2>1. PICK i \in DOMAIN s : s[i] = c
      BY <1>3 DEF Has
    <2>2. i # 1 /\ i - 1 \in DOMAIN q
      BY <1>1, <1>3, <2>1
    <2>3. q[i - 1] = c
      BY <1>1, <2>1, <2>2
    <2> QED BY <2>2, <2>3 DEF Has
  <1>4. ASSUME NEW c, Has(q, c) PROVE Has(s, c)
    <2>1. PICK i \in DOMAIN q : q[i] = c
      BY <1>4 DEF Has
    <2>2. i + 1 \in DOMAIN s /\ s[i + 1] = c
      BY <1>1, <2>1
    <2> QED BY <2>2 DEF Has
  <1> QED BY <1>1, <1>2, <1>3, <1>4

LEMMA QueuedHas ==
    /\ \A c : Queued(c) <=> Has(ready, c)
    /\ \A c : Queued(c)' <=> Has(ready', c)
  BY DEF Queued, Has

(* A caller that joins the work is outside the shield: no callback of the  *)
(* wrapper is left.                                                        *)
JoinsOutsideTheShield == call = "joining" => ~Queued("shield")

NewsInv == NewsIsOnItsWay /\ JoinsOutsideTheShield

LEMMA NewsOfTheWork ==
  ASSUME CallInv, NewsInv, NEW how \in Ends, WorkEnds(how) PROVE NewsInv'
  <1>1. /\ Active /\ UNCHANGED <<call, cancelling, expiry>>
        /\ ready' = Append(ready, IF call = "waiting" THEN "shield" ELSE "join")
        /\ ready \in Seq(Callbacks)
    BY DEF WorkEnds, CallInv, CallTypeOK, Callbacks
  <1>2. CASE call = "waiting"
    <2>1. ready' = Append(ready, "shield") /\ "shield" \in Callbacks
      BY <1>1, <1>2 DEF Callbacks
    <2>2. ready' # <<>> /\ (Queued("caller") => Queued("caller")')
      BY <1>1, <2>1, AppendHas, QueuedHas
    <2> QED BY <1>1, <1>2, <2>2 DEF NewsInv, NewsIsOnItsWay, JoinsOutsideTheShield
  <1>3. CASE call = "joining"
    <2>1. ready' = Append(ready, "join") /\ "join" \in Callbacks /\ "join" # "shield"
      BY <1>1, <1>3 DEF Callbacks
    <2>2. ready' # <<>> /\ (~Queued("shield") => ~Queued("shield")')
      BY <1>1, <2>1, AppendHas, QueuedHas
    <2> QED BY <1>1, <1>3, <2>2 DEF NewsInv, NewsIsOnItsWay, JoinsOutsideTheShield
  <1> QED BY <1>1, <1>2, <1>3 DEF Active

LEMMA NewsOfACancellation ==
  ASSUME CallInv, NewsInv, Cancel \/ CancelAll PROVE NewsInv'
  <1>1. /\ Active /\ UNCHANGED <<call, work, expiry>> /\ ready \in Seq(Callbacks)
        /\ ready' = IF call = "waiting" THEN Scheduled("caller") ELSE ready
    BY DEF Cancel, CancelAll, CallInv, CallTypeOK, Callbacks
  <1>2. CASE call = "waiting"
    <2>1. "caller" \in Callbacks /\ ready' = Scheduled("caller")
      BY <1>1, <1>2 DEF Callbacks
    <2>2. Queued("caller")'
      <3>1. CASE Queued("caller")
        BY <2>1, <3>1 DEF Scheduled, Queued
      <3>2. CASE ~Queued("caller")
        <4>1. ready' = Append(ready, "caller")
          BY <2>1, <3>2 DEF Scheduled
        <4> QED BY <1>1, <2>1, <4>1, AppendHas, QueuedHas
      <3> QED BY <3>1, <3>2
    <2>3. ready' # <<>>
      BY <2>2 DEF Queued
    <2> QED BY <1>1, <1>2, <2>2, <2>3 DEF NewsInv, NewsIsOnItsWay, JoinsOutsideTheShield
  <1>3. CASE call = "joining"
    <2>1. ready' = ready /\ (work = "running" /\ asked => asked')
      BY <1>1, <1>3 DEF Cancel, CancelAll
    <2>2. call' = "joining" /\ work' = work
      BY <1>1, <1>3
    <2> QED BY <1>3, <2>1, <2>2 DEF NewsInv, NewsIsOnItsWay, JoinsOutsideTheShield, Queued
  <1> QED BY <1>1, <1>2, <1>3 DEF Active

LEMMA NewsOfTheTimers ==
  ASSUME CallInv, NewsInv, Tick \/ DeadlineFires \/ TimeoutFires PROVE NewsInv'
  <1>1. CASE Tick \/ DeadlineFires
    <2>1. UNCHANGED <<call, work, ready, cancelling, expiry>>
      BY <1>1 DEF Tick, DeadlineFires
    <2>2. work = "running" /\ asked => asked'
      BY <1>1, Zenon DEF Tick, DeadlineFires
    <2> QED BY <2>1, <2>2 DEF NewsInv, NewsIsOnItsWay, JoinsOutsideTheShield, Queued
  <1>2. CASE TimeoutFires
    <2>1. /\ Active /\ UNCHANGED <<call, work, asked, cancelling>> /\ ready \in Seq(Callbacks)
          /\ ready' = IF call = "waiting" THEN Append(ready, "waiter") ELSE ready
      BY <1>2 DEF TimeoutFires, CallInv, CallTypeOK, Callbacks
    <2>2. CASE call = "waiting"
      <3>1. ready' = Append(ready, "waiter") /\ "waiter" \in Callbacks
        BY <2>1, <2>2 DEF Callbacks
      <3>2. ready' # <<>> /\ (Queued("caller") => Queued("caller")')
        BY <2>1, <3>1, AppendHas, QueuedHas
      <3> QED BY <2>1, <2>2, <3>2 DEF NewsInv, NewsIsOnItsWay, JoinsOutsideTheShield
    <2>3. CASE call = "joining"
      BY <2>1, <2>3 DEF NewsInv, NewsIsOnItsWay, JoinsOutsideTheShield, Queued
    <2> QED BY <2>1, <2>2, <2>3 DEF Active
  <1> QED BY <1>1, <1>2

(* Each callback hands the news to the next one, and the last of them to   *)
(* the caller.                                                             *)
LEMMA NewsIsPassedOn ==
  ASSUME CallInv, NewsInv, ShieldCallback \/ PassOn PROVE NewsInv'
  <1>1. /\ Active /\ UNCHANGED <<call, work, asked, cancelling, expiry>>
        /\ ready \in Seq(Callbacks) /\ ready # <<>>
        /\ {"shield", "waiter", "join", "caller"} = Callbacks
    BY DEF ShieldCallback, PassOn, CallInv, CallTypeOK, Callbacks
  <1>2. Tail(ready) \in Seq(Callbacks)
    BY <1>1, TailHas
  <1>3. CASE ShieldCallback
    <2>1. Head(ready) = "shield" /\ Queued("shield")
      BY <1>1, <1>3, TailHas, QueuedHas DEF ShieldCallback
    <2>2. call = "waiting"
      BY <1>1, <2>1 DEF NewsInv, JoinsOutsideTheShield, Active
    <2>3. CASE cancelling
      <3>1. ready' = Tail(ready) /\ Queued("caller")
        BY <1>3, <2>2, <2>3 DEF ShieldCallback, NewsInv, NewsIsOnItsWay
      <3>2. Queued("caller")'
        BY <1>1, <2>1, <3>1, TailHas, QueuedHas
      <3>3. ready' # <<>>
        BY <3>2 DEF Queued
      <3> QED BY <1>1, <2>2, <3>2, <3>3 DEF NewsInv, NewsIsOnItsWay, JoinsOutsideTheShield
    <2>4. CASE ~cancelling
      <3>1. PICK c \in Callbacks : ready' = Append(Tail(ready), c)
        BY <1>1, <1>3, <2>4 DEF ShieldCallback
      <3>2. ready' # <<>>
        BY <1>2, <3>1, AppendHas
      <3> QED BY <1>1, <2>2, <2>4, <3>2 DEF NewsInv, NewsIsOnItsWay, JoinsOutsideTheShield
    <2> QED BY <2>3, <2>4
  <1>4. CASE PassOn
    <2>1. Head(ready) # "caller" /\ "caller" \in Callbacks /\ "caller" # "shield"
          /\ ready' = IF Queued("caller") THEN Tail(ready) ELSE Append(Tail(ready), "caller")
      BY <1>4 DEF PassOn, Callbacks
    <2>2. Queued("caller")' /\ (~Queued("shield") => ~Queued("shield")')
      <3>1. CASE Queued("caller")
        <4>1. ready' = Tail(ready)
          BY <2>1, <3>1
        <4> QED BY <1>1, <2>1, <3>1, <4>1, TailHas, QueuedHas
      <3>2. CASE ~Queued("caller")
        <4>1. ready' = Append(Tail(ready), "caller")
          BY <2>1, <3>2
        <4>2. /\ Has(ready', "caller")
              /\ \A c : Has(ready', c) => c = "caller" \/ Has(Tail(ready), c)
          BY <1>2, <2>1, <4>1, AppendHas
        <4>3. \A c : Has(Tail(ready), c) => Has(ready, c)
          BY <1>1, TailHas
        <4> QED BY <2>1, <4>2, <4>3, QueuedHas
      <3> QED BY <3>1, <3>2
    <2>3. ready' # <<>>
      BY <2>2 DEF Queued
    <2> QED BY <1>1, <2>2, <2>3 DEF NewsInv, NewsIsOnItsWay, JoinsOutsideTheShield
  <1> QED BY <1>3, <1>4

LEMMA NewsOfATurn ==
  ASSUME CallInv, NewsInv, CallerCancelled \/ CallerWakes \/ JoinEnds PROVE NewsInv'
  <1>1. CASE \E how, holding : Return(how, holding)
    BY <1>1 DEF Return, NewsInv, NewsIsOnItsWay, JoinsOutsideTheShield
  <1>2. CASE CallerCancelled /\ NextRound
    <2>1. /\ call' = "waiting" /\ ~cancelling' /\ UNCHANGED <<work, expiry>>
          /\ ready' = IF work # "running" \/ expiry = "set" THEN <<"waiter">> ELSE <<>>
      BY <1>2 DEF CallerCancelled, Turn, NextRound
    <2> QED BY <2>1 DEF NewsInv, NewsIsOnItsWay, JoinsOutsideTheShield
  <1>3. CASE CallerWakes /\ work = "running"
    <2>1. call' = "joining" /\ asked' /\ work' = "running" /\ ready' = <<>>
      BY <1>3 DEF CallerWakes
    <2> QED BY <2>1 DEF NewsInv, NewsIsOnItsWay, JoinsOutsideTheShield, Queued
  <1> QED BY <1>1, <1>2, <1>3 DEF CallerCancelled, CallerWakes, JoinEnds

LEMMA NewsStep == CallInv /\ NewsInv /\ [CallNext]_callVars => NewsInv'
  <1> SUFFICES ASSUME CallInv, NewsInv, [CallNext]_callVars PROVE NewsInv'
    OBVIOUS
  <1>1. ASSUME NEW bounded \in BOOLEAN, Start(bounded) PROVE NewsInv'
    <2>1. call' = "waiting" /\ work' = "running" /\ cancelling' = FALSE /\ expiry' # "set"
      BY <1>1 DEF Start
    <2> QED BY <2>1 DEF NewsInv, NewsIsOnItsWay, JoinsOutsideTheShield
  <1>2. CASE Leave
    BY <1>2 DEF Leave, NewsInv, NewsIsOnItsWay, JoinsOutsideTheShield
  <1>3. ASSUME NEW how \in Ends, WorkEnds(how) PROVE NewsInv'
    BY <1>3, NewsOfTheWork
  <1>4. CASE CallStep
    BY <1>4, NewsOfACancellation, NewsOfTheTimers, NewsIsPassedOn, NewsOfATurn
    DEF CallStep, LoopStep
  <1>5. CASE UNCHANGED callVars
    BY <1>5 DEF callVars, NewsInv, NewsIsOnItsWay, JoinsOutsideTheShield, Queued
  <1> QED BY <1>1, <1>2, <1>3, <1>4, <1>5 DEF CallNext

(* No news is lost on the way to the caller of compensate: when the work   *)
(* is over, the timeout is set or a cancellation is to be delivered, a     *)
(* callback is queued that leads to the caller, through every order of     *)
(* ends, timers, cancellations and late callbacks.  It is the safety half  *)
(* of CallEnds: the caller never waits for nothing.                        *)
THEOREM NewsAlwaysArrives == CallSpec => []NewsIsOnItsWay
  <1>1. CallInit => NewsInv
    BY DEF CallInit, NewsInv, NewsIsOnItsWay, JoinsOutsideTheShield
  <1>2. NewsInv => NewsIsOnItsWay
    BY DEF NewsInv
  <1> QED BY <1>1, <1>2, CallInvariant, NewsStep, PTL DEF CallSpec

----------------------------------------------------------------------------
(* add_tunnel uses compensate as it is: the detailed specification         *)
(* implements the one of the call.                                         *)

LEMMA AddStepsAreCalls == [Next]_vars => [CallNext]_callVars
  <1> SUFFICES ASSUME [Next]_vars PROVE [CallNext]_callVars
    OBVIOUS
  <1>0. FALSE \in BOOLEAN /\ "result" \in Ends /\ "cancelled" \in Ends
    BY DEF Ends
  <1>1. ASSUME NEW a \in Adders, NEW h \in Hosts, Scan(a, h) \/ RollbackScan(a, h) \/ RollbackKill(a, h)
        PROVE  UNCHANGED callVars
    BY <1>1 DEF Scan, RollbackScan, RollbackKill
  <1>2. ASSUME NEW a \in Adders, Enter(a) \/ Checked(a) \/ Launch(a)
        PROVE  UNCHANGED callVars
    BY <1>2 DEF Enter, Checked, Launch
  <1>3. ASSUME NEW a \in Adders, LaunchFails(a) \/ Verified(a)
        PROVE  UNCHANGED callVars \/ Start(FALSE)
    BY <1>3 DEF LaunchFails, Verified, RollBack
  <1>4. ASSUME NEW a \in Adders, RollbackEnds(a)
        PROVE  WorkEnds("result") \/ WorkEnds("cancelled")
    BY <1>4 DEF RollbackEnds
  <1>5. ASSUME NEW a \in Adders, RolledBack(a) PROVE Leave
    BY <1>5 DEF RolledBack
  <1>6. CASE Compensating
    BY <1>6 DEF Compensating, CallNext
  <1>7. CASE RemoveStep
    BY <1>7 DEF RemoveStep, RemoveBegins, RemoveEnds, RemoveScan, RemoveKill
  <1>8. ASSUME NEW p \in Processes, ProcessDies(p) \/ LaunchArrives(p)
        PROVE  UNCHANGED callVars
    BY <1>8 DEF ProcessDies, LaunchArrives
  <1>9. CASE UNCHANGED vars
    BY <1>9 DEF vars
  <1> QED
    BY <1>0, <1>1, <1>2, <1>3, <1>4, <1>5, <1>6, <1>7, <1>8, <1>9 DEF Next, AddStep, CallNext

(* Every behaviour of add_tunnel is, seen from the rollback, a behaviour   *)
(* of compensate: what is proved of the call holds of the rollback.        *)
THEOREM RollbackIsACall == Spec => CallSpec
  <1>1. Init => CallInit
    BY DEF Init
  <1> QED BY <1>1, AddStepsAreCalls, PTL DEF Spec, CallSpec

----------------------------------------------------------------------------
(* add_tunnel: the initial states and, one lemma each, its actions.        *)

LEMMA AddInitInv == Init => AddInv
  <1> SUFFICES ASSUME Init PROVE AddInv
    OBVIOUS
  <1>1. CallInv
    BY CallInitInv DEF Init
  <1>2. 1 \in 1..Len(Plan) + 1 /\ 0 \in 0..MaxFaults
    BY PlanAssumption
  <1>3. TypeOK
    BY <1>1, <1>2, Zenon DEF Init, TypeOK, CallInv
  <1> QED
    BY <1>1, <1>3
    DEF Init, AddInv, WorkersHoldTheLock, LaunchesAreOwned, RollbackTracks, ConflictsAreSeen,
        NoHalfTunnel, WinnerStands, Busy

(* What the type invariant gives the proofs below.                         *)
LEMMA AddTypes ==
  ASSUME TypeOK
  PROVE  /\ pc \in [Adders -> AddStates]
         /\ alive \subseteq Processes /\ flying \subseteq Processes /\ seen \subseteq Processes
         /\ \A p \in Processes : p[1] \in Adders /\ p[2] \in Places /\ Plan[p[2]] \in Hosts
         /\ Len(Plan) \in Nat \ {0} /\ Places = 1..Len(Plan)
         /\ next \in 1..Len(Plan) + 1 /\ 1 \in 1..Len(Plan) + 1
         /\ faults \in 0..MaxFaults /\ MaxFaults \in Nat
  <1>1. Len(Plan) \in Nat \ {0} /\ Places = 1..Len(Plan) /\ \A i \in Places : Plan[i] \in Hosts
    BY PlanAssumption DEF Places
  <1>2. \A p \in Processes : p[1] \in Adders /\ p[2] \in Places
    BY DEF Processes
  <1>3. pc \in [Adders -> AddStates]
    BY DEF TypeOK, AddStates, Busy
  <1>4. /\ next \in 1..Len(Plan) + 1 /\ 1 \in 1..Len(Plan) + 1
        /\ faults \in 0..MaxFaults /\ MaxFaults \in Nat
    BY <1>1, PlanAssumption DEF TypeOK
  <1> QED BY <1>1, <1>2, <1>3, <1>4 DEF TypeOK

(* The type of the variables that most steps change.                       *)
LEMMA AddTypesNext ==
  ASSUME TypeOK, CallTypeOK',
         lock' \in Adders \cup {NoAdder}, pc' \in [Adders -> AddStates],
         alive' \subseteq Processes, next' \in 1..Len(Plan) + 1, scanned' \subseteq Hosts,
         seen' \subseteq Processes, retried' \in BOOLEAN, reason' \in {"failed", "cancelled"},
         faults' \in 0..MaxFaults, flying' \subseteq Processes,
         missed' \subseteq Adders \X Hosts, blind' \subseteq Adders, torn' \subseteq Adders,
         robbed' \subseteq Adders, UNCHANGED <<removal, rscanned, rfound, late>>
  PROVE  TypeOK'
  <1>1. pc' \in [Adders -> {"idle", "checking", "launching", "verifying", "rolling",
                            "added", "failed", "cancelled"}]
    BY DEF AddStates, Busy
  <1> QED BY <1>1, Zenon DEF TypeOK

(* The processes that live are as they were, and nobody begins or ends:    *)
(* then only the call may go on.                                           *)
LEMMA CallGoesOn ==
  ASSUME AddInv, CallInv', UNCHANGED tunnelVars, work' = work PROVE AddInv'
  <1>1. CallTypeOK'
    BY DEF CallInv
  <1> QED
    BY <1>1, Zenon
    DEF AddInv, tunnelVars, addVars, removeVars, historyVars, TypeOK, WorkersHoldTheLock,
        LaunchesAreOwned, RollbackTracks, ConflictsAreSeen, NoHalfTunnel, WinnerStands, Excused

LEMMA EnterStep ==
  ASSUME AddInv, CallInv', NEW a \in Adders, Enter(a) PROVE AddInv'
  <1>1. /\ pc[a] = "idle" /\ lock = NoAdder /\ lock' = a
        /\ pc' = [pc EXCEPT ![a] = "checking"]
        /\ next' = 1 /\ retried' = FALSE /\ scanned' = {} /\ seen' = {}
        /\ UNCHANGED <<reason, alive, removal, rscanned, rfound, faults, flying, late, blind,
                       missed, torn, robbed, work>>
    BY DEF Enter, BeginScan, removeVars, historyVars, callVars
  <1>2. \A b \in Adders : pc[b] \notin Busy
    BY <1>1, AdderAssumption DEF AddInv, WorkersHoldTheLock
  <1>3. /\ pc \in [Adders -> AddStates]
        /\ alive \subseteq Processes /\ flying \subseteq Processes
        /\ \A p \in Processes : p[1] \in Adders
    BY AddTypes DEF AddInv
  <1>4. /\ pc'[a] = "checking" /\ pc' \in [Adders -> AddStates]
        /\ \A b \in Adders : b # a => pc'[b] = pc[b]
    BY <1>1, <1>3 DEF AddStates, Busy
  <1>5. TypeOK'
    <2>1. TypeOK /\ CallTypeOK' /\ next' \in 1..Len(Plan) + 1
      BY <1>1, AddTypes DEF AddInv, CallInv
    <2>2. /\ scanned' \subseteq Hosts /\ seen' \subseteq Processes /\ retried' \in BOOLEAN
          /\ lock' \in Adders \cup {NoAdder}
      BY <1>1
    <2> QED BY <1>1, <1>3, <1>4, <2>1, <2>2, AddTypesNext DEF TypeOK
  <1>6. WorkersHoldTheLock' /\ LaunchesAreOwned'
    <2>1. next' \in Places
      BY <1>1, AddTypes DEF AddInv
    <2> QED
      BY <1>1, <1>2, <1>3, <1>4, <2>1 DEF AddInv, WorkersHoldTheLock, LaunchesAreOwned, Busy
  <1>7. RollbackTracks' /\ NoHalfTunnel' /\ WinnerStands'
    BY <1>1, <1>2, <1>3, <1>4
    DEF AddInv, RollbackTracks, NoHalfTunnel, WinnerStands, Excused, Busy
  <1>8. ConflictsAreSeen'
    BY <1>1, <1>2, <1>3, <1>4 DEF AddInv, ConflictsAreSeen, Busy
  <1> QED BY <1>5, <1>6, <1>7, <1>8 DEF AddInv

(* The add that has the lock moves on: nobody else is at work.             *)
LEMMA HolderMoves ==
  ASSUME AddInv, NEW a \in Adders, lock = a, NEW state \in AddStates,
         pc' = [pc EXCEPT ![a] = state]
  PROVE  /\ pc' \in [Adders -> AddStates]
         /\ pc'[a] = state
         /\ \A b \in Adders : b # a => pc'[b] = pc[b] /\ pc[b] \notin Busy
         /\ \A p \in alive \cup flying : p[1] \in Adders
  BY AddTypes DEF AddInv, WorkersHoldTheLock

(* The end of an add: nobody is at work on the tunnel after it.            *)
LEMMA EndStep ==
  ASSUME AddInv, CallInv', NEW a \in Adders, lock = a,
         NEW how \in {"added", "failed", "cancelled"}, End(a, how),
         UNCHANGED <<alive, removeVars, faults, historyVars>>,
         how = "added" => \A p \in flying : p[1] # a,
         how # "added" => \A p \in alive : p[1] = a => Excused(p)
  PROVE  AddInv'
  <1>1. /\ pc' = [pc EXCEPT ![a] = how] /\ lock' = NoAdder
        /\ next' = 1 /\ retried' = FALSE /\ reason' = "failed" /\ scanned' = {} /\ seen' = {}
        /\ UNCHANGED <<alive, removal, rscanned, rfound, faults, flying, late, blind, missed,
                       torn, robbed>>
        /\ how \in AddStates /\ how \notin Busy /\ how \notin {"idle", "rolling", "checking"}
    BY DEF End, BeginScan, removeVars, historyVars, AddStates, Busy
  <1>2. /\ pc' \in [Adders -> AddStates] /\ pc'[a] = how
        /\ \A b \in Adders : b # a => pc'[b] = pc[b] /\ pc[b] \notin Busy
        /\ \A p \in alive \cup flying : p[1] \in Adders
    BY <1>1, HolderMoves
  <1>3. TypeOK'
    <2>1. TypeOK /\ CallTypeOK' /\ next' \in 1..Len(Plan) + 1 /\ faults' \in 0..MaxFaults
      BY <1>1, AddTypes DEF AddInv, CallInv
    <2>2. /\ scanned' \subseteq Hosts /\ seen' \subseteq Processes /\ retried' \in BOOLEAN
          /\ lock' \in Adders \cup {NoAdder} /\ reason' \in {"failed", "cancelled"}
      BY <1>1
    <2> QED BY <1>1, <1>2, <2>1, <2>2, AddTypesNext DEF TypeOK
  <1>4. \A b \in Adders : pc'[b] \notin Busy
    BY <1>1, <1>2
  <1>5. WorkersHoldTheLock' /\ RollbackTracks' /\ ConflictsAreSeen'
    BY <1>1, <1>2, <1>4
    DEF AddInv, WorkersHoldTheLock, RollbackTracks, ConflictsAreSeen, Busy
  <1>6. LaunchesAreOwned'
    BY <1>1, <1>2, <1>4 DEF AddInv, LaunchesAreOwned, Busy
  <1>7. NoHalfTunnel' /\ WinnerStands'
    BY <1>1, <1>2 DEF AddInv, NoHalfTunnel, WinnerStands, Excused
  <1> QED BY <1>3, <1>5, <1>6, <1>7 DEF AddInv

(* The start of a rollback.  What a launch leaves behind is the add's own. *)
LEMMA RollBackStep ==
  ASSUME AddInv, CallInv', NEW a \in Adders, lock = a, pc[a] \in {"launching", "verifying"},
         NEW why \in {"failed", "cancelled"}, RollBack(a, why),
         UNCHANGED <<removeVars, faults, late, blind, missed, torn, robbed>>,
         \/ UNCHANGED <<alive, flying>>
         \/ next \in Places /\ alive' = alive \cup {<<a, next>>} /\ UNCHANGED flying
         \/ next \in Places /\ flying' = flying \cup {<<a, next>>} /\ UNCHANGED alive
  PROVE  AddInv'
  <1>1. /\ pc' = [pc EXCEPT ![a] = "rolling"]
        /\ reason' = why /\ scanned' = {} /\ seen' = {} /\ work' = "running"
        /\ UNCHANGED <<lock, next, retried, removal, rscanned, rfound, faults, late, blind,
                       missed, torn, robbed>>
        /\ "rolling" \in AddStates
    BY DEF RollBack, BeginScan, Start, removeVars, AddStates, Busy
  <1>2. /\ pc' \in [Adders -> AddStates] /\ pc'[a] = "rolling"
        /\ \A b \in Adders : b # a => pc'[b] = pc[b] /\ pc[b] \notin Busy
        /\ \A p \in alive \cup flying : p[1] \in Adders
    BY <1>1, HolderMoves
  <1>3. /\ \A p \in alive' : p \in alive \/ p[1] = a
        /\ \A p \in flying' : p \in flying \/ p[1] = a
        /\ alive' \subseteq Processes /\ flying' \subseteq Processes
        /\ \A p \in alive' \cup flying' : p[1] \in Adders
    <2>1. next \in Places => <<a, next>> \in Processes /\ <<a, next>>[1] = a
      BY DEF Processes
    <2>2. alive \subseteq Processes /\ flying \subseteq Processes /\ \A p \in Processes : p[1] \in Adders
      BY AddTypes DEF AddInv
    <2> QED BY <2>1, <2>2, Zenon
  <1>4. TypeOK'
    <2>1. TypeOK /\ CallTypeOK' /\ next' \in 1..Len(Plan) + 1 /\ faults' \in 0..MaxFaults
      BY <1>1, AddTypes DEF AddInv, CallInv
    <2>2. scanned' \subseteq Hosts /\ seen' \subseteq Processes
      BY <1>1
    <2> QED BY <1>1, <1>2, <1>3, <2>1, <2>2, AddTypesNext DEF TypeOK
  <1>5. WorkersHoldTheLock' /\ RollbackTracks'
    BY <1>1, <1>2, <1>3 DEF AddInv, WorkersHoldTheLock, RollbackTracks, Busy
  <1>6. LaunchesAreOwned'
    BY <1>1, <1>2, <1>3 DEF AddInv, LaunchesAreOwned, Busy
  <1>7. ConflictsAreSeen'
    <2> SUFFICES ASSUME NEW b \in Adders \ blind', NEW p \in alive', pc'[p[1]] = "added"
                 PROVE  pc'[b] \notin Busy
      BY DEF ConflictsAreSeen, Busy
    <2>1. p \in alive /\ pc[p[1]] = "added"
      BY <1>2, <1>3 DEF Busy
    <2>2. a \in blind
      BY <2>1 DEF AddInv, ConflictsAreSeen
    <2> QED BY <1>1, <1>2, <2>2
  <1>8. NoHalfTunnel' /\ WinnerStands'
    BY <1>1, <1>2, <1>3 DEF AddInv, NoHalfTunnel, WinnerStands, Busy
  <1> QED BY <1>4, <1>5, <1>6, <1>7, <1>8 DEF AddInv

LEMMA ScanStep ==
  ASSUME AddInv, CallInv', NEW a \in Adders, NEW h \in Hosts, Scan(a, h) PROVE AddInv'
  <1>1. /\ lock = a /\ pc[a] \in {"checking", "verifying"}
        /\ scanned' = scanned \cup {h}
        /\ UNCHANGED <<lock, pc, next, retried, reason, alive, removal, rscanned, rfound, flying,
                       late, missed, torn, robbed, work>>
    BY DEF Scan, removeVars, callVars
  <1>2. \/ seen' = seen \cup On(h) /\ faults' = faults /\ blind' = blind
        \/ /\ faults < MaxFaults /\ faults' = faults + 1 /\ seen' = seen
           /\ blind' = IF pc[a] = "checking" THEN blind \cup {a} ELSE blind
    BY Zenon DEF Scan, Fault, NoFault
  <1>3. /\ seen \subseteq seen' /\ blind \subseteq blind' /\ blind' \subseteq Adders
        /\ pc[a] = "checking" => a \in blind' \/ seen' = seen \cup On(h)
        /\ seen' \subseteq Processes /\ faults' \in 0..MaxFaults
    BY <1>2, AddTypes DEF AddInv, TypeOK, On
  <1>4. TypeOK'
    <2>1. TypeOK /\ CallTypeOK' /\ next' \in 1..Len(Plan) + 1 /\ pc' \in [Adders -> AddStates]
      BY <1>1, AddTypes DEF AddInv, CallInv
    <2>2. scanned' \subseteq Hosts
      BY <1>1, <2>1 DEF TypeOK
    <2> QED BY <1>1, <1>3, <2>1, <2>2, AddTypesNext DEF TypeOK
  <1>5. \A b \in Adders : b # a => pc[b] \notin Busy
    BY <1>1 DEF AddInv, WorkersHoldTheLock
  <1>6. \A p \in alive : p[1] \in Adders /\ pc[p[1]] # "rolling"
    BY <1>1, <1>5, AddTypes DEF AddInv, Busy
  <1>7. WorkersHoldTheLock' /\ LaunchesAreOwned' /\ RollbackTracks'
    BY <1>1, <1>6 DEF AddInv, WorkersHoldTheLock, LaunchesAreOwned, RollbackTracks
  <1>8. ConflictsAreSeen'
    BY <1>1, <1>3, <1>5 DEF AddInv, ConflictsAreSeen, On, Busy
  <1>9. NoHalfTunnel' /\ WinnerStands'
    BY <1>1, <1>3 DEF AddInv, NoHalfTunnel, WinnerStands
  <1> QED BY <1>4, <1>7, <1>8, <1>9 DEF AddInv

LEMMA CheckedStep ==
  ASSUME AddInv, CallInv', NEW a \in Adders, Checked(a) PROVE AddInv'
  <1>1. /\ lock = a /\ pc[a] = "checking"
        /\ UNCHANGED <<alive, removeVars, faults, historyVars>>
    BY DEF Checked
  <1>2. ASSUME NEW how \in {"failed", "cancelled"}, End(a, how) PROVE AddInv'
    <2>1. \A p \in alive : p[1] # a
      BY <1>1 DEF AddInv, LaunchesAreOwned
    <2> QED BY <1>1, <1>2, <2>1, EndStep
  <1>3. CASE /\ scanned = Hosts /\ seen = {}
             /\ pc' = [pc EXCEPT ![a] = "launching"]
             /\ UNCHANGED <<lock, next, scanned, seen, retried, reason>>
    <2>1. "launching" \in AddStates
      BY DEF AddStates, Busy
    <2>2. /\ pc' \in [Adders -> AddStates] /\ pc'[a] = "launching"
          /\ \A b \in Adders : b # a => pc'[b] = pc[b] /\ pc[b] \notin Busy
          /\ \A p \in alive \cup flying : p[1] \in Adders
      BY <1>1, <1>3, <2>1, HolderMoves
    <2>3. UNCHANGED <<alive, removal, rscanned, rfound, faults, flying, late, blind, missed,
                      torn, robbed>>
      BY <1>1 DEF removeVars, historyVars
    <2>4. TypeOK'
      <3>1. TypeOK /\ CallTypeOK' /\ next' \in 1..Len(Plan) + 1
        BY <1>3, AddTypes DEF AddInv, CallInv
      <3> QED BY <1>3, <2>2, <2>3, <3>1, AddTypesNext DEF TypeOK
    <2>5. next' \in Places
      BY <1>1, <1>3 DEF AddInv, LaunchesAreOwned
    <2>6. WorkersHoldTheLock' /\ RollbackTracks'
      BY <1>1, <1>3, <2>2, <2>3 DEF AddInv, WorkersHoldTheLock, RollbackTracks, Busy
    <2>7. LaunchesAreOwned'
      BY <1>1, <1>3, <2>2, <2>3, <2>5 DEF AddInv, LaunchesAreOwned, Busy
    <2>8. ConflictsAreSeen'
      <3> SUFFICES ASSUME NEW p \in alive, pc[p[1]] = "added", a \notin blind PROVE FALSE
        BY <2>2, <2>3 DEF ConflictsAreSeen, Busy
      <3>1. Plan[p[2]] \notin scanned \/ p \in seen
        BY <1>1 DEF AddInv, ConflictsAreSeen
      <3> QED BY <1>3, <3>1, AddTypes DEF AddInv
    <2>9. NoHalfTunnel' /\ WinnerStands'
      BY <2>2, <2>3 DEF AddInv, NoHalfTunnel, WinnerStands
    <2> QED BY <2>4, <2>6, <2>7, <2>8, <2>9 DEF AddInv
  <1> QED BY <1>2, <1>3 DEF Checked

LEMMA LaunchStep ==
  ASSUME AddInv, CallInv', NEW a \in Adders, Launch(a) PROVE AddInv'
  <1>1. /\ lock = a /\ pc[a] = "launching" /\ next \in Places /\ next' = next + 1
        /\ UNCHANGED <<lock, retried, reason, removal, rscanned, rfound, faults, flying, late,
                       blind, missed, torn, robbed, work>>
    BY DEF Launch, removeVars, historyVars, callVars, AddInv, LaunchesAreOwned
  <1>2. /\ \A p \in alive' : p \in alive \/ p[1] = a
        /\ alive' \subseteq Processes
        /\ \A p \in alive' \cup flying : p[1] \in Adders
    <2>1. <<a, next>> \in Processes /\ <<a, next>>[1] = a
      BY <1>1 DEF Processes
    <2>2. alive' = alive \cup {<<a, next>>} \/ alive' = alive
      BY DEF Launch
    <2>3. alive \subseteq Processes /\ flying \subseteq Processes /\ \A p \in Processes : p[1] \in Adders
      BY AddTypes DEF AddInv
    <2> QED BY <2>1, <2>2, <2>3, Zenon
  <1>3. \/ next = Len(Plan) /\ pc' = [pc EXCEPT ![a] = "verifying"] /\ scanned' = {} /\ seen' = {}
        \/ /\ next # Len(Plan) /\ pc' = pc
           /\ scanned' = scanned /\ seen' = seen
    BY Zenon DEF Launch, BeginScan
  <1>4. /\ pc' \in [Adders -> AddStates]
        /\ pc'[a] = "verifying" \/ (pc'[a] = "launching" /\ next' \in Places)
        /\ \A b \in Adders : b # a => pc'[b] = pc[b] /\ pc[b] \notin Busy
    <2>1. "verifying" \in AddStates
      BY DEF AddStates, Busy
    <2>2. pc \in [Adders -> AddStates] /\ \A b \in Adders : b # a => pc[b] \notin Busy
      BY <1>1, AddTypes DEF AddInv, WorkersHoldTheLock
    <2>3. next # Len(Plan) => next + 1 \in Places
      BY <1>1, AddTypes DEF AddInv
    <2> QED BY <1>1, <1>3, <2>1, <2>2, <2>3
  <1>5. TypeOK'
    <2>1. TypeOK /\ CallTypeOK' /\ next' \in 1..Len(Plan) + 1
      BY <1>1, AddTypes DEF AddInv, CallInv
    <2>2. scanned' \subseteq Hosts /\ seen' \subseteq Processes
      BY <1>3 DEF AddInv, TypeOK
    <2> QED BY <1>1, <1>2, <1>4, <2>1, <2>2, AddTypesNext DEF TypeOK
  <1>6. WorkersHoldTheLock' /\ RollbackTracks'
    BY <1>1, <1>2, <1>4 DEF AddInv, WorkersHoldTheLock, RollbackTracks, Busy
  <1>7. LaunchesAreOwned'
    BY <1>1, <1>2, <1>4 DEF AddInv, LaunchesAreOwned, Busy
  <1>8. ConflictsAreSeen'
    <2> SUFFICES ASSUME NEW p \in alive', pc'[p[1]] = "added", a \notin blind PROVE FALSE
      BY <1>1, <1>4 DEF ConflictsAreSeen, Busy
    <2>1. p \in alive /\ pc[p[1]] = "added"
      BY <1>2, <1>4
    <2> QED BY <1>1, <2>1 DEF AddInv, ConflictsAreSeen
  <1>9. NoHalfTunnel' /\ WinnerStands'
    BY <1>1, <1>2, <1>4 DEF AddInv, NoHalfTunnel, WinnerStands
  <1> QED BY <1>5, <1>6, <1>7, <1>8, <1>9 DEF AddInv

LEMMA LaunchFailsStep ==
  ASSUME AddInv, CallInv', NEW a \in Adders, LaunchFails(a) PROVE AddInv'
  <1>1. lock = a /\ pc[a] = "launching" /\ next \in Places
    BY DEF LaunchFails, AddInv, LaunchesAreOwned
  <1>2. PICK why \in {"failed", "cancelled"} : RollBack(a, why)
    BY DEF LaunchFails
  <1>3. UNCHANGED <<removeVars, faults, late, blind, missed, torn, robbed>>
    BY DEF LaunchFails
  <1> QED BY <1>1, <1>2, <1>3, RollBackStep DEF LaunchFails

LEMMA VerifiedStep ==
  ASSUME AddInv, CallInv', NEW a \in Adders, Verified(a) PROVE AddInv'
  <1>1. /\ lock = a /\ pc[a] = "verifying"
        /\ UNCHANGED <<alive, removeVars, faults, historyVars>>
    BY DEF Verified
  <1>2. CASE End(a, "added")
    <2>1. \A p \in flying : p[1] # a
      BY <1>1 DEF AddInv, LaunchesAreOwned
    <2> QED BY <1>1, <1>2, <2>1, EndStep
  <1>3. CASE /\ retried' = TRUE /\ BeginScan
             /\ UNCHANGED <<lock, pc, next, reason, callVars>>
    <2>1. /\ scanned' = {} /\ seen' = {}
          /\ UNCHANGED <<alive, removal, rscanned, rfound, faults, flying, late, blind, missed,
                         torn, robbed, work>>
      BY <1>1, <1>3 DEF BeginScan, removeVars, historyVars, callVars
    <2>2. \A p \in alive : p[1] \in Adders /\ pc[p[1]] # "rolling"
      BY <1>1, AddTypes DEF AddInv, WorkersHoldTheLock, Busy
    <2>3. TypeOK'
      <3>1. TypeOK /\ CallTypeOK' /\ next' \in 1..Len(Plan) + 1 /\ pc' \in [Adders -> AddStates]
        BY <1>3, AddTypes DEF AddInv, CallInv
      <3> QED BY <1>3, <2>1, <3>1, AddTypesNext DEF TypeOK
    <2>4. WorkersHoldTheLock' /\ LaunchesAreOwned' /\ RollbackTracks'
      BY <1>3, <2>1, <2>2 DEF AddInv, WorkersHoldTheLock, LaunchesAreOwned, RollbackTracks
    <2>5. ConflictsAreSeen' /\ NoHalfTunnel' /\ WinnerStands'
      BY <1>3, <2>1 DEF AddInv, ConflictsAreSeen, NoHalfTunnel, WinnerStands
    <2> QED BY <2>3, <2>4, <2>5 DEF AddInv
  <1>4. ASSUME NEW why \in {"failed", "cancelled"}, RollBack(a, why) PROVE AddInv'
    <2>1. UNCHANGED <<removeVars, faults, late, blind, missed, torn, robbed, alive, flying>>
      BY <1>1 DEF historyVars
    <2> QED BY <1>1, <1>4, <2>1, RollBackStep
  <1> QED BY <1>2, <1>3, <1>4 DEF Verified

(* The work of the rollback: what it passes over is excused, what it sees  *)
(* it kills, and it is through when nothing is left to scan or to kill.    *)
LEMMA RollbackScanStep ==
  ASSUME AddInv, CallInv', NEW a \in Adders, NEW h \in Hosts, RollbackScan(a, h) PROVE AddInv'
  <1>1. /\ lock = a /\ pc[a] = "rolling" /\ work = "running"
        /\ scanned' = scanned \cup {h}
        /\ UNCHANGED <<lock, pc, next, retried, reason, alive, removal, rscanned, rfound, flying,
                       late, blind, torn, robbed, work>>
    BY DEF RollbackScan, Working, removeVars, callVars
  <1>2. \/ seen' = seen \cup On(h) /\ faults' = faults /\ missed' = missed
        \/ /\ faults < MaxFaults /\ faults' = faults + 1 /\ seen' = seen
           /\ missed' = missed \cup {<<a, h>>}
    BY Zenon DEF RollbackScan, Fault, NoFault
  <1>3. /\ seen \subseteq seen' /\ missed \subseteq missed' /\ missed' \subseteq Adders \X Hosts
        /\ seen' = seen \cup On(h) \/ <<a, h>> \in missed'
        /\ seen' \subseteq Processes /\ faults' \in 0..MaxFaults
    BY <1>2, AddTypes DEF AddInv, TypeOK, On
  <1>4. TypeOK'
    <2>1. TypeOK /\ CallTypeOK' /\ next' \in 1..Len(Plan) + 1 /\ pc' \in [Adders -> AddStates]
      BY <1>1, AddTypes DEF AddInv, CallInv
    <2>2. scanned' \subseteq Hosts
      BY <1>1, <2>1 DEF TypeOK
    <2> QED BY <1>1, <1>3, <2>1, <2>2, AddTypesNext DEF TypeOK
  <1>5. \A p \in alive : p[1] \in Adders /\ (pc[p[1]] = "rolling" => p[1] = a)
    BY <1>1, AddTypes DEF AddInv, WorkersHoldTheLock, Busy
  <1>6. RollbackTracks'
    <2> SUFFICES ASSUME NEW p \in alive, pc[p[1]] = "rolling"
                 PROVE  Excused(p)' \/ Plan[p[2]] \notin scanned' \/ p \in seen'
      BY <1>1 DEF RollbackTracks
    <2>1. CASE Excused(p)
      BY <1>1, <1>3, <2>1 DEF Excused
    <2>2. CASE Plan[p[2]] \notin scanned \/ p \in seen
      BY <1>1, <1>3, <1>5, <2>2 DEF Excused, On
    <2> QED BY <2>1, <2>2 DEF AddInv, RollbackTracks
  <1>7. WorkersHoldTheLock' /\ LaunchesAreOwned'
    BY <1>1 DEF AddInv, WorkersHoldTheLock, LaunchesAreOwned
  <1>8. ConflictsAreSeen'
    BY <1>1 DEF AddInv, ConflictsAreSeen, WorkersHoldTheLock, Busy
  <1>9. NoHalfTunnel' /\ WinnerStands'
    BY <1>1, <1>3 DEF AddInv, NoHalfTunnel, WinnerStands
  <1> QED BY <1>4, <1>6, <1>7, <1>8, <1>9 DEF AddInv

LEMMA RollbackKillStep ==
  ASSUME AddInv, CallInv', NEW a \in Adders, NEW h \in Hosts, RollbackKill(a, h) PROVE AddInv'
  <1> DEFINE found == {p \in seen : Plan[p[2]] = h}
  <1>1. /\ lock = a /\ pc[a] = "rolling" /\ work = "running"
        /\ seen' = seen \ found
        /\ UNCHANGED <<lock, pc, next, scanned, retried, reason, removal, rscanned, rfound, flying,
                       late, blind, torn, work>>
    BY DEF RollbackKill, Working, removeVars, callVars
  <1>2. \/ /\ alive' = alive \ found
           /\ robbed' = IF \E p \in found \cap alive : pc[p[1]] = "added"
                        THEN robbed \cup {a} ELSE robbed
           /\ faults' = faults /\ missed' = missed
        \/ /\ faults < MaxFaults /\ faults' = faults + 1
           /\ missed' = missed \cup {<<a, h>>} /\ alive' = alive /\ robbed' = robbed
    BY Zenon DEF RollbackKill, Fault, NoFault
  <1>3. /\ alive' \subseteq alive /\ missed \subseteq missed' /\ missed' \subseteq Adders \X Hosts
        /\ alive' = alive \ found \/ <<a, h>> \in missed'
        /\ robbed \subseteq robbed' /\ robbed' \subseteq robbed \cup {a}
        /\ faults' \in 0..MaxFaults
    BY <1>2, AddTypes DEF AddInv, TypeOK
  <1>4. robbed' \subseteq blind
    <2>1. (\E p \in alive : pc[p[1]] = "added") => a \in blind
      BY <1>1 DEF AddInv, ConflictsAreSeen
    <2> QED BY <1>2, <2>1 DEF AddInv, WinnerStands
  <1>5. TypeOK'
    <2>1. TypeOK /\ CallTypeOK' /\ next' \in 1..Len(Plan) + 1 /\ pc' \in [Adders -> AddStates]
      BY <1>1, AddTypes DEF AddInv, CallInv
    <2>2. seen' \subseteq Processes /\ alive' \subseteq Processes /\ robbed' \subseteq Adders
      BY <1>1, <1>3, <2>1 DEF TypeOK
    <2> QED BY <1>1, <1>3, <2>1, <2>2, AddTypesNext DEF TypeOK
  <1>6. \A p \in alive : p[1] \in Adders /\ (pc[p[1]] = "rolling" => p[1] = a)
    BY <1>1, AddTypes DEF AddInv, WorkersHoldTheLock, Busy
  <1>7. RollbackTracks'
    <2> SUFFICES ASSUME NEW p \in alive', pc[p[1]] = "rolling"
                 PROVE  Excused(p)' \/ Plan[p[2]] \notin scanned' \/ p \in seen'
      BY <1>1 DEF RollbackTracks
    <2>1. CASE Excused(p)
      BY <1>1, <1>3, <2>1 DEF Excused
    <2>2. CASE Plan[p[2]] \notin scanned \/ p \in seen
      BY <1>1, <1>3, <1>6, <2>2 DEF Excused
    <2> QED BY <1>3, <2>1, <2>2 DEF AddInv, RollbackTracks
  <1>8. WorkersHoldTheLock' /\ LaunchesAreOwned'
    BY <1>1, <1>3 DEF AddInv, WorkersHoldTheLock, LaunchesAreOwned
  <1>9. ConflictsAreSeen'
    BY <1>1, <1>3 DEF AddInv, ConflictsAreSeen, WorkersHoldTheLock, Busy
  <1>10. NoHalfTunnel' /\ WinnerStands'
    BY <1>1, <1>3, <1>4 DEF AddInv, NoHalfTunnel, WinnerStands
  <1> QED BY <1>5, <1>7, <1>8, <1>9, <1>10 DEF AddInv

LEMMA RollbackEndsStep ==
  ASSUME AddInv, CallInv', NEW a \in Adders, RollbackEnds(a) PROVE AddInv'
  <1>1. /\ lock = a /\ pc[a] = "rolling"
        /\ UNCHANGED <<lock, pc, next, scanned, seen, retried, reason, alive, removal, rscanned,
                       rfound, faults, flying, late, blind, missed, robbed>>
        /\ \/ scanned = Hosts /\ seen = {} /\ torn' = torn
           \/ torn' = torn \cup {a}
    BY DEF RollbackEnds, Working, addVars, removeVars
  <1>2. TypeOK'
    <2>1. /\ TypeOK /\ CallTypeOK' /\ next' \in 1..Len(Plan) + 1 /\ pc' \in [Adders -> AddStates]
          /\ alive' \subseteq Processes /\ seen' \subseteq Processes /\ flying' \subseteq Processes
          /\ faults' \in 0..MaxFaults
      BY <1>1, AddTypes DEF AddInv, CallInv
    <2>2. torn' \subseteq Adders
      BY <1>1, <2>1 DEF TypeOK
    <2> QED BY <1>1, <2>1, <2>2, AddTypesNext DEF TypeOK
  <1>3. \A p \in alive : /\ p[1] \in Adders /\ Plan[p[2]] \in Hosts
                         /\ pc[p[1]] = "rolling" => p[1] = a
    BY <1>1, AddTypes DEF AddInv, WorkersHoldTheLock, Busy
  <1>4. RollbackTracks'
    <2> SUFFICES ASSUME NEW p \in alive, pc[p[1]] = "rolling" PROVE Excused(p)'
      BY <1>1 DEF RollbackTracks
    <2>1. CASE Excused(p)
      BY <1>1, <2>1 DEF Excused
    <2>2. CASE p[1] \in torn'
      BY <2>2 DEF Excused
    <2>3. CASE scanned = Hosts /\ seen = {}
      <3>1. Excused(p)
        BY <1>3, <2>3 DEF AddInv, RollbackTracks
      <3> QED BY <2>1, <3>1
    <2>4. torn' = torn \cup {a} => p[1] \in torn'
      BY <1>3
    <2> QED BY <1>1, <2>2, <2>3, <2>4
  <1>5. WorkersHoldTheLock' /\ LaunchesAreOwned' /\ ConflictsAreSeen' /\ NoHalfTunnel' /\ WinnerStands'
    BY <1>1
    DEF AddInv, WorkersHoldTheLock, LaunchesAreOwned, ConflictsAreSeen, NoHalfTunnel, WinnerStands
  <1> QED BY <1>2, <1>4, <1>5 DEF AddInv

LEMMA RolledBackStep ==
  ASSUME AddInv, CallInv', NEW a \in Adders, RolledBack(a) PROVE AddInv'
  <1> DEFINE how == IF outcome = "cancelled" THEN "cancelled" ELSE reason
  <1>1. /\ lock = a /\ pc[a] = "rolling" /\ call = "done"
        /\ End(a, how)
        /\ UNCHANGED <<alive, removeVars, faults, historyVars>>
        /\ how \in {"failed", "cancelled"}
    BY DEF RolledBack, AddInv, TypeOK
  <1>2. work # "running"
    BY <1>1 DEF AddInv, CallInv, CallerGetsItsOwn
  <1>3. \A p \in alive : p[1] = a => Excused(p)
    BY <1>1, <1>2 DEF AddInv, RollbackTracks
  <1> HIDE DEF how
  <1> QED BY <1>1, <1>3, EndStep

(* A removal, a process that dies: fewer processes live, or as many.       *)
LEMMA FewerLive ==
  ASSUME AddInv, CallInv', alive' \subseteq alive, TypeOK',
         UNCHANGED <<addVars, historyVars, work>>
  PROVE  AddInv'
  <1>1. UNCHANGED <<lock, pc, next, scanned, seen, retried, reason, flying, late, blind, missed,
                    torn, robbed, work>>
    BY DEF addVars, historyVars
  <1> QED
    BY <1>1
    DEF AddInv, WorkersHoldTheLock, LaunchesAreOwned, RollbackTracks, ConflictsAreSeen,
        NoHalfTunnel, WinnerStands, Excused

LEMMA RemovalStep ==
  ASSUME AddInv, CallInv', RemoveStep PROVE AddInv'
  <1>1. UNCHANGED <<addVars, historyVars, work>> /\ alive' \subseteq alive
    BY DEF RemoveStep, RemoveBegins, RemoveScan, RemoveKill, RemoveEnds, callVars
  <1>2. TypeOK /\ CallTypeOK' /\ UNCHANGED <<lock, pc, next, scanned, seen, retried, reason,
                                             flying, late, blind, missed, torn, robbed>>
    BY <1>1 DEF addVars, historyVars, AddInv, CallInv
  <1>3. faults' \in 0..MaxFaults
    BY <1>2, AddTypes
    DEF RemoveStep, RemoveBegins, RemoveScan, RemoveKill, RemoveEnds, Fault, NoFault
  <1>4. removal' \in {"idle", "scan", "kill"} /\ rscanned' \subseteq Hosts /\ rfound' \subseteq Processes
    BY <1>2, AddTypes
    DEF RemoveStep, RemoveBegins, RemoveScan, RemoveKill, RemoveEnds, TypeOK, On
  <1>5. TypeOK'
    BY <1>1, <1>2, <1>3, <1>4, Zenon DEF TypeOK
  <1> QED BY <1>1, <1>5, FewerLive

LEMMA ProcessDiesStep ==
  ASSUME AddInv, CallInv', NEW p \in Processes, ProcessDies(p) PROVE AddInv'
  <1>1. /\ UNCHANGED <<addVars, removeVars, historyVars, work>> /\ alive' \subseteq alive
        /\ faults < MaxFaults /\ faults' = faults + 1
    BY DEF ProcessDies, Fault, callVars
  <1>2. TypeOK'
    <2>1. /\ TypeOK /\ CallTypeOK' /\ next' \in 1..Len(Plan) + 1 /\ pc' \in [Adders -> AddStates]
          /\ alive' \subseteq Processes /\ seen' \subseteq Processes /\ flying' \subseteq Processes
          /\ faults' \in 0..MaxFaults
      BY <1>1, AddTypes DEF AddInv, CallInv, addVars, historyVars
    <2> QED BY <1>1, <2>1, AddTypesNext DEF TypeOK, addVars, removeVars, historyVars
  <1> QED BY <1>1, <1>2, FewerLive

(* A launch that arrives after all was given up by an add that failed or   *)
(* is on its way to.                                                       *)
LEMMA LaunchArrivesStep ==
  ASSUME AddInv, CallInv', NEW p \in Processes, LaunchArrives(p) PROVE AddInv'
  <1>1. /\ p \in flying /\ flying' = flying \ {p} /\ alive' = alive \cup {p} /\ late' = late \cup {p}
        /\ UNCHANGED <<lock, pc, next, scanned, seen, retried, reason, removal, rscanned, rfound,
                       faults, blind, missed, torn, robbed, work>>
    BY DEF LaunchArrives, addVars, removeVars, callVars
  <1>2. pc[p[1]] \in {"rolling", "failed", "cancelled"}
    BY <1>1 DEF AddInv, LaunchesAreOwned
  <1>3. TypeOK'
    BY <1>1, Zenon DEF AddInv, TypeOK, CallInv
  <1>4. WorkersHoldTheLock' /\ LaunchesAreOwned'
    BY <1>1 DEF AddInv, WorkersHoldTheLock, LaunchesAreOwned
  <1>5. RollbackTracks' /\ NoHalfTunnel'
    BY <1>1 DEF AddInv, RollbackTracks, NoHalfTunnel, Excused
  <1>6. ConflictsAreSeen' /\ WinnerStands'
    BY <1>1, <1>2 DEF AddInv, ConflictsAreSeen, WinnerStands
  <1> QED BY <1>3, <1>4, <1>5, <1>6 DEF AddInv

----------------------------------------------------------------------------
(* add_tunnel: the results. *)

LEMMA AddInvStep == AddInv /\ [Next]_vars => AddInv'
  <1> SUFFICES ASSUME AddInv, [Next]_vars PROVE AddInv'
    OBVIOUS
  <1>1. CallInv'
    BY AddStepsAreCalls, CallInvStep DEF AddInv
  <1>2. ASSUME NEW a \in Adders, Enter(a) \/ AddStep(a) PROVE AddInv'
    BY <1>1, <1>2, EnterStep, ScanStep, CheckedStep, LaunchStep, LaunchFailsStep, VerifiedStep,
       RollbackScanStep, RollbackKillStep, RollbackEndsStep, RolledBackStep
    DEF AddStep
  <1>3. CASE Compensating
    <2>1. work' = work
      BY <1>3
      DEF Compensating, CallStep, LoopStep, ShieldCallback, PassOn, CallerCancelled, CallerWakes,
          JoinEnds, DeadlineFires, TimeoutFires, Cancel, CancelAll, Tick, Return, NextRound
    <2> QED BY <1>1, <1>3, <2>1, CallGoesOn DEF Compensating
  <1>4. CASE RemoveStep
    BY <1>1, <1>4, RemovalStep
  <1>5. ASSUME NEW p \in Processes, ProcessDies(p) \/ LaunchArrives(p) PROVE AddInv'
    BY <1>1, <1>5, ProcessDiesStep, LaunchArrivesStep
  <1>6. CASE UNCHANGED vars
    BY <1>1, <1>6, CallGoesOn DEF vars, callVars
  <1> QED BY <1>2, <1>3, <1>4, <1>5, <1>6 DEF Next

(* The inductive invariant of add_tunnel, for any adds, hosts, plan and    *)
(* number of faults.                                                       *)
THEOREM AddInvariant == Spec => []AddInv
  BY AddInitInv, AddInvStep, PTL DEF Spec

(* Every variable of the adds, the removal and the rollback keeps its type.*)
THEOREM AddTypeCorrect == Spec => []TypeOK
  <1>1. AddInv => TypeOK
    BY DEF AddInv
  <1> QED BY <1>1, AddInvariant, PTL

(* What a failed add of a tunnel leaves running was on a host its rollback *)
(* could not reach, met a bound of the rollback, or arrived after its own  *)
(* launch had been given up.                                               *)
THEOREM NeverHalfATunnel == Spec => []NoHalfTunnel
  <1>1. AddInv => NoHalfTunnel
    BY DEF AddInv
  <1> QED BY <1>1, AddInvariant, PTL

(* No rollback kills what a successful add built, unless its own scan for  *)
(* conflicts missed a host.                                                *)
THEOREM WinnersStand == Spec => []WinnerStands
  <1>1. AddInv => WinnerStands
    BY DEF AddInv
  <1> QED BY <1>1, AddInvariant, PTL

----------------------------------------------------------------------------
(* Phases, adds and a second caller of compensate, as the run checks them. *)

(* In every scene what runs is a phase and a call of compensate, or one of *)
(* them while the other waits where it began.                              *)
THEOREM PhaseAndCall == MCSpec => PhaseSpec /\ CallSpec
  <1>1. MCInit => PhaseInit /\ CallInit
    BY DEF MCInit, Init
  <1>2. [MCNext]_<<phaseVars, vars, scene>> => [PhaseNext]_phaseVars
    BY DEF MCNext
  <1>3. [MCNext]_<<phaseVars, vars, scene>> => [CallNext]_callVars
    <2>1. [Next]_vars => [CallNext]_callVars
      BY AddStepsAreCalls
    <2>2. Cleanup => CallNext
      BY DEF Cleanup, CallNext
    <2> QED BY <2>1, <2>2 DEF MCNext, vars
  <1> QED BY <1>1, <1>2, <1>3, PTL DEF MCSpec, PhaseSpec, CallSpec

(* A cleanup calls compensate where no add does: the adds stay where they  *)
(* began, and only what holds of every call holds.                         *)
ScenesInv == TypeOK /\ CallInv /\ (scene # "cleanup" => AddInv)

LEMMA ScenesStep == ScenesInv /\ [MCNext]_<<phaseVars, vars, scene>> => ScenesInv'
  <1> SUFFICES ASSUME ScenesInv, [MCNext]_<<phaseVars, vars, scene>> PROVE ScenesInv'
    OBVIOUS
  <1>1. scene' = scene
    BY DEF MCNext
  <1>2. CASE scene = "cleanup" /\ Cleanup /\ UNCHANGED tunnelVars
    <2>1. CallInv'
      BY <1>2, CallInvStep DEF ScenesInv, Cleanup, CallNext
    <2>2. TypeOK'
      BY <1>2, <2>1
      DEF ScenesInv, TypeOK, CallInv, tunnelVars, addVars, removeVars, historyVars
    <2> QED BY <1>1, <1>2, <2>1, <2>2 DEF ScenesInv
  <1>3. CASE scene = "cleanup" /\ UNCHANGED vars
    <2>1. CallInv'
      BY <1>3, CallInvStep DEF ScenesInv, vars
    <2>2. TypeOK'
      BY <1>3, <2>1
      DEF ScenesInv, TypeOK, CallInv, vars, tunnelVars, addVars, removeVars, historyVars
    <2> QED BY <1>1, <1>3, <2>1, <2>2 DEF ScenesInv
  <1>4. CASE scene # "cleanup" /\ [Next]_vars
    <2>1. AddInv'
      BY <1>4, AddInvStep DEF ScenesInv
    <2> QED BY <2>1 DEF ScenesInv, AddInv
  <1> QED BY <1>1, <1>2, <1>3, <1>4 DEF MCNext

(* Every variable keeps its type in every scene: of the phase, of the adds *)
(* and the removal, and of the call, whoever makes it.                     *)
THEOREM MCTypeCorrect == MCSpec => []MCTypeOK
  <1>1. MCInit => ScenesInv
    BY AddInitInv DEF MCInit, ScenesInv, AddInv
  <1>2. MCSpec => []ScenesInv
    BY <1>1, ScenesStep, PTL DEF MCSpec
  <1>3. ScenesInv /\ PhaseTypeOK => MCTypeOK
    BY DEF ScenesInv, MCTypeOK
  <1> QED BY <1>2, <1>3, PhaseAndCall, PhaseTypeCorrect, PTL

(* No word is lost: of a signal, on its way to the watchdog, or of an end, *)
(* a bound or a cancellation, on its way to a call of compensate.          *)
THEOREM WordsAlwaysArrive == MCSpec => []NoWordIsLost
  <1>1. SignalsReachTheWatchdog /\ NewsIsOnItsWay => NoWordIsLost
    BY DEF NoWordIsLost
  <1> QED BY <1>1, PhaseAndCall, WatchdogHears, NewsAlwaysArrives, PTL

=============================================================================
