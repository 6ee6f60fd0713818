-------------------------- MODULE CommandRunProofs --------------------------
(* Proofs about CommandRun: its inductive invariant and what follows. *)
EXTENDS CommandRun, TLAPS

(* Every initial state satisfies the inductive invariant. *)
LEMMA InitIInv == Init => IInv
  <1> SUFFICES ASSUME Init PROVE IInv
    OBVIOUS
  <1>1. TypeOK
    <2>1. 0 \in 0..MaxSignals /\ 0 \in 0..MaxCancels
      BY BoundsAssumption
    <2> QED BY <2>1, Zenon DEF Init, TypeOK, Ends, Outcomes
  <1> QED BY <1>1
  DEF Init, IInv, ForceHasACause, StagesMatch,
      SweepFollowsBody, CleanupUnlessForced

(* What happens to the command, one action at a time. *)
LEMMA OnSignalStep ==
  ASSUME IInv, NEW s \in Signals, OnSignal(s) PROVE IInv'
  <1>1. /\ InMain
        /\ signalled < MaxSignals
        /\ signalled' = signalled + 1
        /\ UNCHANGED <<pc, stageVars, expired, body, cancelling, hooks, cancels>>
    BY DEF OnSignal
  <1>2. CASE interrupted = NoSignal
    <2>1. interrupted' = s /\ asked' = TRUE /\ armed' = TRUE /\ UNCHANGED force
      BY <1>2 DEF OnSignal
    <2> QED
      BY <1>1, <2>1, BoundsAssumption
      DEF InMain, stageVars, IInv, TypeOK, ForceHasACause, StagesMatch,
          SweepFollowsBody, CleanupUnlessForced
  <1>3. CASE interrupted # NoSignal
    <2>1. force' = TRUE /\ UNCHANGED <<interrupted, asked, armed>>
      BY <1>3 DEF OnSignal
    <2> QED
      BY <1>1, <1>3, <2>1, BoundsAssumption
      DEF InMain, stageVars, IInv, TypeOK, ForceHasACause, StagesMatch,
          SweepFollowsBody, CleanupUnlessForced
  <1> QED BY <1>2, <1>3

LEMMA DeadlineStep ==
  ASSUME IInv, DeadlineExpires PROVE IInv'
  <1>1. /\ InMain
        /\ force' = TRUE /\ armed' = FALSE /\ expired' = TRUE
        /\ UNCHANGED <<pc, interrupted, signalled, asked, body, cancelling, hooks, cancels>>
        /\ UNCHANGED <<forced, bodyError, release, outcome>>
    BY DEF DeadlineExpires, stageVars
  <1>2. TypeOK'
    BY <1>1 DEF IInv, TypeOK
  <1>3. expired' = TRUE
    BY <1>1
  <1>4. ForceHasACause'
    BY <1>1, <1>3 DEF IInv, ForceHasACause
  <1>5. StagesMatch' /\ SweepFollowsBody' /\ CleanupUnlessForced'
    BY <1>1 DEF InMain, IInv, StagesMatch, SweepFollowsBody, CleanupUnlessForced
  <1> QED BY <1>2, <1>4, <1>5 DEF IInv

LEMMA EmbedderStep ==
  ASSUME IInv, EmbedderCancels PROVE IInv'
  BY BoundsAssumption
  DEF EmbedderCancels, InMain, stageVars, signalVars, IInv, TypeOK, ForceHasACause,
      StagesMatch, SweepFollowsBody, CleanupUnlessForced

LEMMA BodyEndsStep ==
  ASSUME IInv, NEW how \in Ends, BodyEnds(how) PROVE IInv'
  BY BoundsAssumption
  DEF BodyEnds, stageVars, signalVars, IInv, TypeOK, ForceHasACause, StagesMatch,
      SweepFollowsBody, CleanupUnlessForced, Ends

LEMMA ReleaseEndsStep ==
  ASSUME IInv, NEW how \in {"ended", "failed"}, ReleaseEnds(how) PROVE IInv'
  BY BoundsAssumption
  DEF ReleaseEnds, signalVars, IInv, TypeOK, ForceHasACause, StagesMatch,
      SweepFollowsBody, CleanupUnlessForced

(* A race that abandons its work was forced. *)
LEMMA AbandonedIsForced ==
  ASSUME NEW work, RaceIsOver(work), Race(work) = "abandoned", work # "abandoned"
  PROVE force /\ ~cancelling /\ work = "running"
  BY DEF RaceIsOver, Race

(* Work whose wait ended without an abandonment has ended, unless the      *)
(* waiter itself was cancelled.                                            *)
LEMMA RaceResult ==
  ASSUME NEW work, Race(work) # "abandoned", ~cancelling
  PROVE work # "running" /\ Race(work) = work
  BY DEF Race

(* The three stages of the main coroutine. *)
LEMMA BodyStageStep ==
  ASSUME IInv, BodyStageEnds PROVE IInv'
  <1> DEFINE raised == Race(body)
             err == IF raised = "error" THEN "error" ELSE "none"
  <1>1. /\ pc = "body"
        /\ cancelling' = FALSE
        /\ UNCHANGED <<interrupted, force, expired, signalled, body, hooks, cancels>>
    BY DEF BodyStageEnds
  <1>2. body # "abandoned"
    BY DEF IInv, TypeOK, Ends
  <1>3. CASE raised = "cancelled" /\ interrupted = NoSignal
    <2>1. /\ pc' = "joining" /\ bodyError' = "cancelled" /\ armed' = TRUE
          /\ asked' = TRUE /\ UNCHANGED <<forced, release, outcome>>
      BY <1>3 DEF BodyStageEnds
    <2>2. cancelling \/ body # "running"
      BY <1>3 DEF Race
    <2>3. CASE cancelling
      BY <1>1, <2>1, <2>3, BoundsAssumption
      DEF IInv, TypeOK, ForceHasACause, StagesMatch,
          SweepFollowsBody, CleanupUnlessForced
    <2>4. CASE ~cancelling
      BY <1>1, <2>1, <2>2, <2>4, BoundsAssumption
      DEF IInv, TypeOK, ForceHasACause, StagesMatch,
          SweepFollowsBody, CleanupUnlessForced
    <2> QED BY <2>3, <2>4
  <1>4. CASE ~(raised = "cancelled" /\ interrupted = NoSignal) /\ raised = "abandoned"
    <2>1. force
      BY <1>2, <1>4, AbandonedIsForced DEF BodyStageEnds
    <2>2. /\ bodyError' = err /\ forced' = TRUE /\ Leave("none", err)
          /\ UNCHANGED release
      BY <1>4 DEF BodyStageEnds
    <2>3. err = "none" /\ outcome' \in Outcomes
      BY <1>4, <2>2 DEF Leave, Outcomes
    <2> QED
      BY <1>1, <2>1, <2>2, <2>3, BoundsAssumption
      DEF Leave, IInv, TypeOK, ForceHasACause, StagesMatch,
          SweepFollowsBody, CleanupUnlessForced
  <1>5. CASE ~(raised = "cancelled" /\ interrupted = NoSignal) /\ raised # "abandoned"
    <2>1. bodyError' = err /\ StartRelease
      BY <1>5 DEF BodyStageEnds
    <2>2. body = "running" => cancels >= 1 /\ signalled >= 1
      BY <1>5 DEF Race, IInv, StagesMatch, ForceHasACause
    <2>3. err \in {"none", "cancelled", "error"}
      OBVIOUS
    <2> QED
      BY <1>1, <2>1, <2>2, <2>3, BoundsAssumption
      DEF StartRelease, IInv, TypeOK, ForceHasACause, StagesMatch,
          SweepFollowsBody, CleanupUnlessForced
  <1> QED BY <1>3, <1>4, <1>5

LEMMA JoinStep ==
  ASSUME IInv, JoinEnds PROVE IInv'
  <1>1. /\ pc = "joining"
        /\ cancelling' = FALSE
        /\ UNCHANGED <<bodyError, interrupted, force, expired, signalled, body,
                       hooks, cancels>>
    BY DEF JoinEnds
  <1>2. body # "abandoned"
    BY DEF IInv, TypeOK, Ends
  <1>3. CASE Race(body) = "abandoned"
    <2>1. force
      BY <1>2, <1>3, AbandonedIsForced DEF JoinEnds
    <2>2. forced' = TRUE /\ Leave("none", bodyError) /\ UNCHANGED release
      BY <1>3 DEF JoinEnds
    <2>3. outcome' \in Outcomes
      BY <2>2 DEF Leave, Outcomes, IInv, TypeOK
    <2> QED
      BY <1>1, <2>1, <2>2, <2>3, BoundsAssumption
      DEF Leave, IInv, TypeOK, ForceHasACause, StagesMatch,
          SweepFollowsBody, CleanupUnlessForced
  <1>4. CASE Race(body) # "abandoned"
    <2>1. StartRelease
      BY <1>4 DEF JoinEnds
    <2>2. body = "running" => cancels >= 2
      BY <1>1, <1>4 DEF Race, IInv, StagesMatch
    <2> QED
      BY <1>1, <2>1, <2>2, BoundsAssumption
      DEF StartRelease, IInv, TypeOK, ForceHasACause, StagesMatch,
          SweepFollowsBody, CleanupUnlessForced
  <1> QED BY <1>3, <1>4

LEMMA ReleaseStageStep ==
  ASSUME IInv, ReleaseStageEnds PROVE IInv'
  <1> DEFINE raised == Race(release)
             escaping == IF raised \in {"cancelled", "failed"} THEN raised ELSE "none"
  <1>1. /\ pc = "release"
        /\ cancelling' = FALSE
        /\ forced' = (raised = "abandoned")
        /\ Leave(escaping, bodyError)
        /\ UNCHANGED <<bodyError, release, interrupted, force, expired, signalled,
                       body, hooks, cancels>>
    BY DEF ReleaseStageEnds
  <1>2. forced' => force
    <2>1. release # "abandoned"
      BY DEF IInv, TypeOK
    <2> QED BY <1>1, <2>1, AbandonedIsForced DEF ReleaseStageEnds
  <1>3. outcome' \in Outcomes
    BY <1>1 DEF Leave, Outcomes, IInv, TypeOK
  <1>4. release # "none"
    BY <1>1 DEF IInv, StagesMatch
  <1>5. pc' = "finalizing" /\ armed' = FALSE /\ asked' = TRUE
    BY <1>1 DEF Leave
  <1>6. forced' \in BOOLEAN
    BY <1>1
  <1> HIDE DEF raised, escaping
  <1> QED
    BY <1>1, <1>2, <1>3, <1>4, <1>5, <1>6, BoundsAssumption
    DEF IInv, TypeOK, ForceHasACause, StagesMatch,
        SweepFollowsBody, CleanupUnlessForced

LEMMA ExitStep ==
  ASSUME IInv, Exit PROVE IInv'
  BY BoundsAssumption
  DEF Exit, stageVars, signalVars, IInv, TypeOK, ForceHasACause, StagesMatch,
      SweepFollowsBody, CleanupUnlessForced

LEMMA StutterStep ==
  ASSUME IInv, UNCHANGED vars PROVE IInv'
  BY DEF vars, stageVars, signalVars, IInv, TypeOK, ForceHasACause, StagesMatch,
         SweepFollowsBody, CleanupUnlessForced

(* The inductive invariant holds in every reachable state. *)
THEOREM Invariance == Spec => []IInv
<1>1. IInv /\ [Next]_vars => IInv'
  BY OnSignalStep, DeadlineStep, EmbedderStep, BodyEndsStep, ReleaseEndsStep,
     BodyStageStep, JoinStep, ReleaseStageStep, ExitStep, StutterStep
  DEF Next, MainStep
<1> QED BY InitIInv, <1>1, PTL DEF Spec

(* Every variable keeps its type, however often the command is interrupted *)
(* within the bounds.                                                      *)
THEOREM TypeCorrect == Spec => []TypeOK
<1>1. IInv => TypeOK
  BY DEF IInv
<1> QED BY Invariance, <1>1, PTL

(* Whoever sets forced found unfinished work and the force event, which    *)
(* has its cause.                                                          *)
LEMMA AbandonStep ==
  ASSUME IInv, [Next]_vars, forced', ~forced
  PROVE  /\ IF pc = "release" THEN release = "running" ELSE body = "running"
         /\ signalled >= 2 \/ expired
  <1>1. BodyStageEnds \/ JoinEnds \/ ReleaseStageEnds
    BY DEF Next, MainStep, OnSignal, DeadlineExpires, EmbedderCancels, BodyEnds,
           ReleaseEnds, Exit, vars, stageVars
  <1>2. body # "abandoned" /\ release # "abandoned"
    BY DEF IInv, TypeOK, Ends
  <1>3. CASE BodyStageEnds \/ JoinEnds
    <2>1. Race(body) = "abandoned" /\ RaceIsOver(body) /\ pc # "release"
      BY <1>3 DEF BodyStageEnds, JoinEnds, StartRelease
    <2> QED BY <1>2, <2>1, AbandonedIsForced DEF IInv, ForceHasACause
  <1>4. CASE ReleaseStageEnds
    <2>1. Race(release) = "abandoned" /\ RaceIsOver(release) /\ pc = "release"
      BY <1>4 DEF ReleaseStageEnds
    <2> QED BY <1>2, <2>1, AbandonedIsForced DEF IInv, ForceHasACause
  <1> QED BY <1>1, <1>3, <1>4

(* For any set of signals and any number of interruptions: what is         *)
(* abandoned is unfinished, and only after a second signal or the          *)
(* deadline.                                                               *)
THEOREM NeverAbandonsEarly == Spec => NoEarlyAbandon
<1>1. IInv /\ [Next]_vars =>
        [forced' /\ ~forced =>
            /\ IF pc = "release" THEN release = "running" ELSE body = "running"
            /\ signalled >= 2 \/ expired]_vars
  BY AbandonStep
<1> QED BY Invariance, <1>1, PTL DEF Spec, NoEarlyAbandon

(* The boundary is released only after the body's unwind, but for an       *)
(* embedder that cancels a run that is already being stopped.              *)
THEOREM SweepsAfterBody == Spec => []SweepFollowsBody
<1>1. IInv => SweepFollowsBody
  BY DEF IInv
<1> QED BY Invariance, <1>1, PTL

(* A command that was not forced exits with its release run to an end.     *)
THEOREM AlwaysCleansUp == Spec => []CleanupUnlessForced
<1>1. IInv => CleanupUnlessForced
  BY DEF IInv
<1> QED BY Invariance, <1>1, PTL

(* What was told to stop stays bounded, step by step: the stages of the    *)
(* main coroutine keep the deadline and the force event until it leaves.   *)
LEMMA BoundedStep ==
  ASSUME StopIsBounded, [Next]_vars PROVE StopIsBounded'
  <1>1. ASSUME NEW s \in Signals, OnSignal(s) PROVE StopIsBounded'
    BY <1>1, SignalsAssumption DEF OnSignal, InMain, StopIsBounded, stageVars
  <1>2. CASE DeadlineExpires
    BY <1>2 DEF DeadlineExpires, InMain, StopIsBounded, stageVars
  <1>3. CASE EmbedderCancels
    BY <1>3 DEF EmbedderCancels, InMain, StopIsBounded, stageVars, signalVars
  <1>4. ASSUME NEW how \in Ends, BodyEnds(how) PROVE StopIsBounded'
    BY <1>4 DEF BodyEnds, InMain, StopIsBounded, stageVars, signalVars
  <1>5. ASSUME NEW how \in {"ended", "failed"}, ReleaseEnds(how) PROVE StopIsBounded'
    BY <1>5 DEF ReleaseEnds, InMain, StopIsBounded, signalVars
  <1>6. CASE BodyStageEnds
    <2>1. /\ InMain /\ UNCHANGED <<interrupted, force>>
          /\ \/ pc' = "joining" /\ armed' = TRUE /\ asked' = TRUE
             \/ pc' = "finalizing"
             \/ pc' = "release" /\ UNCHANGED <<armed, asked>>
      BY <1>6 DEF BodyStageEnds, InMain, Leave, StartRelease
    <2> QED BY <2>1 DEF InMain, StopIsBounded
  <1>7. CASE JoinEnds
    BY <1>7 DEF JoinEnds, InMain, Leave, StartRelease, StopIsBounded
  <1>8. CASE ReleaseStageEnds
    BY <1>8 DEF ReleaseStageEnds, InMain, Leave, StopIsBounded
  <1>9. CASE Exit
    BY <1>9 DEF Exit, InMain, StopIsBounded
  <1>10. CASE UNCHANGED vars
    BY <1>10 DEF vars, stageVars, signalVars, InMain, StopIsBounded
  <1> QED
    BY <1>1, <1>2, <1>3, <1>4, <1>5, <1>6, <1>7, <1>8, <1>9, <1>10 DEF Next, MainStep

(* The safety half of BoundedExit and SignalStopsBody: from the first      *)
(* signal or outside cancellation until the main coroutine leaves, the     *)
(* body has been asked to end and a bound is ahead or has passed.          *)
THEOREM StopsAreBounded == Spec => []StopIsBounded
<1>1. Init => StopIsBounded
  BY DEF Init, InMain, StopIsBounded
<1> QED BY <1>1, BoundedStep, PTL DEF Spec

(* How a command that was forced leaves: with the interruption, or, if its *)
(* body had failed or had been cancelled from outside, with that.          *)
ForcedLeave ==
    /\ pc \in {"body", "joining", "release"} => ~forced
    /\ pc \in {"finalizing", "exited"} /\ forced =>
          /\ bodyError # "none" => outcome = bodyError
          /\ bodyError = "none" /\ interrupted # NoSignal => outcome = "interrupted"
    /\ pc = "exited" => hooks = (outcome = "interrupted" /\ forced)

LEMMA ForcedLeaveStep ==
  ASSUME TypeOK, ForcedLeave, [Next]_vars PROVE ForcedLeave'
  <1>1. ASSUME NEW s \in Signals, OnSignal(s) PROVE ForcedLeave'
    BY <1>1 DEF OnSignal, InMain, ForcedLeave, stageVars
  <1>2. CASE DeadlineExpires \/ EmbedderCancels
    BY <1>2 DEF DeadlineExpires, EmbedderCancels, InMain, ForcedLeave, stageVars, signalVars
  <1>3. ASSUME NEW how \in Ends, BodyEnds(how) PROVE ForcedLeave'
    BY <1>3 DEF BodyEnds, ForcedLeave, stageVars, signalVars
  <1>4. ASSUME NEW how \in {"ended", "failed"}, ReleaseEnds(how) PROVE ForcedLeave'
    BY <1>4 DEF ReleaseEnds, ForcedLeave, signalVars
  <1>5. CASE BodyStageEnds
    <2>1. CASE Race(body) = "cancelled" /\ interrupted = NoSignal
      BY <1>5, <2>1 DEF BodyStageEnds, ForcedLeave
    <2>2. CASE Race(body) = "abandoned"
      BY <1>5, <2>2 DEF BodyStageEnds, Leave, ForcedLeave
    <2>3. CASE Race(body) # "abandoned" /\ ~(Race(body) = "cancelled" /\ interrupted = NoSignal)
      BY <1>5, <2>3 DEF BodyStageEnds, StartRelease, ForcedLeave
    <2> QED BY <2>1, <2>2, <2>3
  <1>6. CASE JoinEnds
    <2>1. CASE Race(body) = "abandoned"
      BY <1>6, <2>1 DEF JoinEnds, Leave, ForcedLeave
    <2>2. CASE Race(body) # "abandoned"
      BY <1>6, <2>2 DEF JoinEnds, StartRelease, ForcedLeave
    <2> QED BY <2>1, <2>2
  <1>7. CASE ReleaseStageEnds
    BY <1>7 DEF ReleaseStageEnds, Leave, ForcedLeave
  <1>8. CASE Exit
    BY <1>8 DEF Exit, ForcedLeave, stageVars, signalVars
  <1>9. CASE UNCHANGED vars
    BY <1>9 DEF vars, stageVars, signalVars, ForcedLeave
  <1> QED BY <1>1, <1>2, <1>3, <1>4, <1>5, <1>6, <1>7, <1>8, <1>9 DEF Next, MainStep

(* Where the promise of the force-exit hooks breaks, and nowhere else: an  *)
(* interrupted command that abandoned its cleanup runs them and exits with *)
(* the signal, unless its body had raised something of its own (or had     *)
(* been cancelled from outside), which is then what it raises.             *)
THEOREM OnlyABodysErrorHidesTheForce ==
  Spec => [](pc = "exited" /\ forced /\ interrupted # NoSignal =>
                ForcedExitRunsHooks \/ (bodyError # "none" /\ outcome = bodyError))
<1>1. Init => ForcedLeave
  BY DEF Init, ForcedLeave
<1>2. Spec => []ForcedLeave
  BY <1>1, ForcedLeaveStep, TypeCorrect, PTL DEF Spec
<1>3. ForcedLeave => (pc = "exited" /\ forced /\ interrupted # NoSignal =>
                        ForcedExitRunsHooks \/ (bodyError # "none" /\ outcome = bodyError))
  BY DEF ForcedLeave, ForcedExitRunsHooks
<1> QED BY <1>2, <1>3, PTL

=============================================================================
