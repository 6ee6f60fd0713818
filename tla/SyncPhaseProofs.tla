---------------------------- MODULE SyncPhaseProofs ----------------------------
(* Proofs about SyncPhase: its inductive invariant and what follows. *)
EXTENDS SyncPhase, SequenceTheorems, TLAPS

----------------------------------------------------------------------------
(* The inductive invariant. *)

AtMostOne(S) == \A i, j \in S : i = j
HandlerBytes == {"A", "F"}

(* Whatever names a signal names one that arrived.                         *)
NamesDelivered ==
    /\ tripped \subseteq delivered
    /\ interrupted # NoSignal => interrupted \in delivered
    /\ first # NoSignal => first \in delivered
    /\ main = "phase" => \A i \in Unread(Signals) : pipe[i] \in delivered

(* Whatever was counted, or starts a deadline, was reported by somebody.   *)
CountsHaveACause ==
    /\ byHandler > 0 => interrupted # NoSignal
    /\ byWakeup > 0 => first # NoSignal
    /\ Unread(HandlerBytes) # {} => interrupted # NoSignal
    /\ armed => byHandler > 0 \/ byWakeup > 0
    /\ elapsed > 0 => armed
    /\ watch = "watching" => byHandler <= 1 /\ byWakeup <= 1

(* A signal that arrived once is reported at most once on each channel:    *)
(* the handler did not run yet, or its byte is in the pipe, or was counted;*)
(* and the reclaim repeats only what the interpreter could not write.      *)
OneArrivalCountsOnce ==
    /\ arrivals = 0 => delivered = {}
    /\ arrivals = 1 => \A s, t \in delivered : s = t
    /\ main = "phase" /\ arrivals <= 1 =>
          /\ tripped # {} => interrupted = NoSignal
          /\ AtMostOne(Unread(HandlerBytes)) /\ AtMostOne(Unread(Signals))
          /\ byHandler > 0 => Unread(HandlerBytes) = {}
          /\ byWakeup > 0 => Unread(Signals) = {}
          /\ tripped # {} /\ fd # "guard" => Unread(Signals) = {} /\ byWakeup = 0

(* The guard knows when it has the descriptor, and leaves without it.      *)
GuardKnows ==
    /\ fd = "guard" => owns
    /\ main = "left" => fd # "guard"

PhaseInv ==
    /\ PhaseTypeOK
    /\ NamesDelivered
    /\ CountsHaveACause
    /\ OneArrivalCountsOnce
    /\ GuardKnows
    /\ ForcedOnlyWhenAsked
    /\ ExitNamesADelivered

----------------------------------------------------------------------------
(* The pipe. *)

(* A byte that is appended is the only new one.                            *)
LEMMA ByteArrives ==
  ASSUME pipe \in Seq(Bytes), NEW b \in Bytes, pipe' = Append(pipe, b)
  PROVE  /\ pipe' \in Seq(Bytes)
         /\ \A S : Unread(S)' = IF b \in S THEN Unread(S) \cup {Len(pipe) + 1} ELSE Unread(S)
         /\ \A i \in DOMAIN pipe : pipe'[i] = pipe[i]
         /\ pipe'[Len(pipe) + 1] = b
         /\ Len(pipe) + 1 \notin DOMAIN pipe
  <1>1. /\ pipe' \in Seq(Bytes)
        /\ DOMAIN pipe' = DOMAIN pipe \cup {Len(pipe) + 1}
        /\ Len(pipe) + 1 \notin DOMAIN pipe
        /\ \A i \in DOMAIN pipe : pipe'[i] = pipe[i]
        /\ pipe'[Len(pipe) + 1] = b
    OBVIOUS
  <1> QED BY <1>1, Zenon DEF Unread

(* Reading the first byte leaves the others, one place nearer.             *)
LEMMA ByteIsRead ==
  ASSUME pipe \in Seq(Bytes), pipe # <<>>, pipe' = Tail(pipe)
  PROVE  /\ pipe' \in Seq(Bytes)
         /\ 1 \in DOMAIN pipe /\ Head(pipe) = pipe[1] /\ Head(pipe) \in Bytes
         /\ \A i \in DOMAIN pipe' : /\ i \in Nat
                                    /\ i + 1 \in DOMAIN pipe
                                    /\ i + 1 # 1
                                    /\ pipe'[i] = pipe[i + 1]
  OBVIOUS

(* What that means for the bytes of one kind.                              *)
LEMMA ReadingKeepsUnread ==
  ASSUME pipe \in Seq(Bytes), pipe # <<>>, pipe' = Tail(pipe), NEW S
  PROVE  /\ Unread(S)' # {} => Unread(S) # {}
         /\ AtMostOne(Unread(S)) => AtMostOne(Unread(S)')
         /\ AtMostOne(Unread(S)) /\ Head(pipe) \in S => Unread(S)' = {}
         /\ Head(pipe) \in S => Unread(S) # {}
         /\ \A i \in Unread(S)' : i + 1 \in Unread(S) /\ pipe'[i] = pipe[i + 1]
  <1>1. \A i \in Unread(S)' : i + 1 \in Unread(S) /\ i + 1 # 1 /\ i \in Nat /\ pipe'[i] = pipe[i + 1]
    BY ByteIsRead DEF Unread
  <1>2. Head(pipe) \in S => 1 \in Unread(S)
    BY ByteIsRead DEF Unread
  <1>3. ASSUME AtMostOne(Unread(S)) PROVE AtMostOne(Unread(S)')
    <2> SUFFICES ASSUME NEW i \in Unread(S)', NEW j \in Unread(S)' PROVE i = j
      BY DEF AtMostOne
    <2>1. i + 1 = j + 1
      BY <1>1, <1>3 DEF AtMostOne
    <2> QED BY <1>1, <2>1
  <1>4. ASSUME AtMostOne(Unread(S)), Head(pipe) \in S PROVE Unread(S)' = {}
    <2>1. \A i \in Unread(S)' : i + 1 = 1
      BY <1>1, <1>2, <1>4 DEF AtMostOne
    <2> QED BY <1>1, <2>1
  <1> QED BY <1>1, <1>2, <1>3, <1>4

(* Appending a byte that is not of the kind leaves the kind alone; one of  *)
(* the kind is its first if there was none.                                *)
LEMMA ArrivalKeepsUnread ==
  ASSUME pipe \in Seq(Bytes), NEW b \in Bytes, pipe' = Append(pipe, b), NEW S
  PROVE  /\ b \notin S => Unread(S)' = Unread(S)
         /\ Unread(S) = {} => AtMostOne(Unread(S)')
         /\ Unread(S)' # {} => Unread(S) # {} \/ b \in S
         /\ \A i \in Unread(S)' :
              (i \in Unread(S) /\ pipe'[i] = pipe[i]) \/ (b \in S /\ pipe'[i] = b)
  <1>1. Unread(S)' = IF b \in S THEN Unread(S) \cup {Len(pipe) + 1} ELSE Unread(S)
    BY ByteArrives, Zenon
  <1>2. /\ \A i \in Unread(S) : pipe'[i] = pipe[i]
        /\ pipe'[Len(pipe) + 1] = b
    BY ByteArrives DEF Unread
  <1>3. Unread(S) = {} => AtMostOne(Unread(S)')
    BY <1>1 DEF AtMostOne
  <1> QED BY <1>1, <1>2, <1>3

----------------------------------------------------------------------------
(* The invariant holds initially. *)

LEMMA PhaseInitInv == PhaseInit => PhaseInv
  <1> SUFFICES ASSUME PhaseInit PROVE PhaseInv
    OBVIOUS
  <1>1. PhaseTypeOK
    <2>1. pipe \in Seq(Bytes)
      BY DEF PhaseInit
    <2>2. loops \in 0..MaxLoops /\ 0 \in 0..Bound /\ 0 \in 0..MaxSignals /\ 0 \in 0..2
      BY PhaseAssumption DEF PhaseInit
    <2>3. owns \in BOOLEAN /\ fd \in {"none", "guard", "loop"}
      BY Zenon DEF PhaseInit
    <2> QED BY <2>1, <2>2, <2>3, Zenon DEF PhaseInit, PhaseTypeOK
  <1>2. \A S : Unread(S) = {}
    BY DEF PhaseInit, Unread
  <1>3. NamesDelivered /\ CountsHaveACause /\ OneArrivalCountsOnce
    BY <1>2 DEF PhaseInit, NamesDelivered, CountsHaveACause, OneArrivalCountsOnce, AtMostOne
  <1>4. GuardKnows /\ ForcedOnlyWhenAsked /\ ExitNamesADelivered
    BY DEF PhaseInit, GuardKnows, ForcedOnlyWhenAsked, ExitNamesADelivered
  <1> QED BY <1>1, <1>3, <1>4 DEF PhaseInv

----------------------------------------------------------------------------
(* One lemma per action: it preserves the invariant. *)

LEMMA DeliverStep ==
  ASSUME PhaseInv, NEW s \in Signals, Deliver(s) PROVE PhaseInv'
  <1>0. /\ main' = main /\ loops' = loops
        /\ main \in {"phase", "closed"} /\ arrivals < MaxSignals
        /\ tripped' = tripped \cup {s} /\ delivered' = delivered \cup {s}
        /\ arrivals' = arrivals + 1
        /\ again' \in BOOLEAN
        /\ UNCHANGED <<interrupted, fd, owns, watch, byHandler, byWakeup, first, armed,
                       elapsed, code>>
        /\ pipe' = IF fd = "guard" THEN Append(pipe, s) ELSE pipe
    BY DEF Deliver, mainVars, watchVars, PhaseInv, PhaseTypeOK
  <1>1. pipe \in Seq(Bytes) /\ s \in Bytes /\ s \notin HandlerBytes
    BY BytesAssumption DEF PhaseInv, PhaseTypeOK, Bytes, HandlerBytes
  <1>2. pipe' \in Seq(Bytes)
    BY <1>0, <1>1, ByteArrives
  <1>3. Unread(HandlerBytes)' = Unread(HandlerBytes)
    BY <1>0, <1>1, ArrivalKeepsUnread DEF Unread
  <1>4. /\ Unread(Signals) = {} => AtMostOne(Unread(Signals)')
        /\ fd # "guard" => Unread(Signals)' = Unread(Signals)
        /\ \A i \in Unread(Signals)' : (i \in Unread(Signals) /\ pipe'[i] = pipe[i]) \/ pipe'[i] = s
    <2>1. CASE fd = "guard"
      BY <1>0, <1>1, <2>1, ArrivalKeepsUnread, Zenon
    <2>2. CASE fd # "guard"
      BY <1>0, <2>2 DEF Unread, AtMostOne
    <2> QED BY <2>1, <2>2
  <1>5. PhaseTypeOK'
    BY <1>0, <1>2, PhaseAssumption DEF PhaseInv, PhaseTypeOK
  <1>6. NamesDelivered' /\ CountsHaveACause'
    BY <1>0, <1>3, <1>4 DEF PhaseInv, NamesDelivered, CountsHaveACause
  <1>7. OneArrivalCountsOnce'
    BY <1>0, <1>3, <1>4, SignalsAssumption
    DEF PhaseInv, PhaseTypeOK, OneArrivalCountsOnce, NamesDelivered, CountsHaveACause, AtMostOne
  <1>8. GuardKnows' /\ ForcedOnlyWhenAsked' /\ ExitNamesADelivered'
    BY <1>0 DEF PhaseInv, PhaseTypeOK, GuardKnows, ForcedOnlyWhenAsked, ExitNamesADelivered
  <1> QED BY <1>5, <1>6, <1>7, <1>8 DEF PhaseInv

LEMMA DeliverOtherStep ==
  ASSUME PhaseInv, NEW s \in Signals \cup Foreign, DeliverOther(s) PROVE PhaseInv'
  <1>0. /\ UNCHANGED <<main, loops, interrupted, tripped, fd, owns, watch, byHandler,
                       byWakeup, first, armed, elapsed, code, delivered, arrivals, again>>
        /\ s \in Foreign \/ main = "restored"
        /\ pipe' = Append(pipe, s)
    BY DEF DeliverOther, mainVars, guardVars, watchVars, history
  <1>1. pipe \in Seq(Bytes) /\ s \in Bytes /\ s \notin HandlerBytes
    BY BytesAssumption DEF PhaseInv, PhaseTypeOK, Bytes, HandlerBytes
  <1>2. pipe' \in Seq(Bytes)
    BY <1>0, <1>1, ByteArrives
  <1>3. Unread(HandlerBytes)' = Unread(HandlerBytes)
    BY <1>0, <1>1, ArrivalKeepsUnread
  <1>4. main = "phase" => /\ Unread(Signals)' = Unread(Signals)
                          /\ \A i \in Unread(Signals) : pipe'[i] = pipe[i]
    BY <1>0, <1>1, ByteArrives, SignalsAssumption DEF Unread
  <1>5. PhaseTypeOK'
    BY <1>0, <1>2 DEF PhaseInv, PhaseTypeOK
  <1>6. NamesDelivered' /\ CountsHaveACause'
    BY <1>0, <1>3, <1>4 DEF PhaseInv, NamesDelivered, CountsHaveACause
  <1>7. OneArrivalCountsOnce'
    BY <1>0, <1>3, <1>4 DEF PhaseInv, OneArrivalCountsOnce
  <1>8. GuardKnows' /\ ForcedOnlyWhenAsked' /\ ExitNamesADelivered'
    BY <1>0 DEF PhaseInv, GuardKnows, ForcedOnlyWhenAsked, ExitNamesADelivered
  <1> QED BY <1>5, <1>6, <1>7, <1>8 DEF PhaseInv

(* The reclaim writes for the interpreter only what the interpreter could  *)
(* not write itself.                                                       *)
LEMMA HandleStep ==
  ASSUME PhaseInv, NEW s \in Signals, Handle(s) PROVE PhaseInv'
  <1>0. /\ UNCHANGED <<main, loops, watch, byHandler, byWakeup, first, armed, elapsed, code,
                       delivered, arrivals>>
        /\ s \in tripped /\ tripped' = tripped \ {s}
        /\ again' \in BOOLEAN
    BY DEF Handle, mainVars, watchVars
  <1>1. /\ pipe \in Seq(Bytes) /\ s \in Bytes /\ "A" \in Bytes /\ "F" \in Bytes
        /\ s \notin HandlerBytes /\ "A" \notin Signals /\ "F" \notin Signals
        /\ s # NoSignal /\ s \in delivered
    BY <1>0, BytesAssumption, SignalsAssumption
    DEF PhaseInv, PhaseTypeOK, NamesDelivered, Bytes, HandlerBytes
  <1>2. CASE Closed
    <2>1. UNCHANGED <<interrupted, fd, owns, pipe>>
      BY <1>2 DEF Handle
    <2>2. main # "phase" /\ UNCHANGED <<Unread(HandlerBytes), Unread(Signals)>>
      BY <1>2, <2>1 DEF Closed, Unread
    <2> QED
      BY <1>0, <2>1, <2>2
      DEF PhaseInv, PhaseTypeOK, NamesDelivered, CountsHaveACause, OneArrivalCountsOnce,
          GuardKnows, ForcedOnlyWhenAsked, ExitNamesADelivered
  <1>3. CASE ~Closed /\ interrupted = NoSignal
    <2>1. interrupted' = s /\ Reclaim(s) /\ main = "phase"
      BY <1>3 DEF Handle, Closed
    <2>2. Unread(HandlerBytes) = {}
      BY <1>3 DEF PhaseInv, CountsHaveACause
    <2>3. /\ pipe' \in Seq(Bytes)
          /\ AtMostOne(Unread(HandlerBytes)')
          /\ \A i \in Unread(Signals)' : (i \in Unread(Signals) /\ pipe'[i] = pipe[i]) \/ pipe'[i] = s
          /\ fd # "none" => Unread(Signals)' = Unread(Signals)
          /\ Unread(Signals) = {} => AtMostOne(Unread(Signals)')
      <3>1. CASE fd # "none"
        <4>1. pipe' = Append(pipe, "A")
          BY <2>1, <3>1 DEF Reclaim
        <4>2. /\ pipe' \in Seq(Bytes)
              /\ Unread(Signals)' = Unread(Signals)
              /\ \A i \in Unread(Signals) : pipe'[i] = pipe[i]
          BY <1>1, <4>1, ByteArrives DEF Unread
        <4>3. AtMostOne(Unread(HandlerBytes)')
          BY <1>1, <2>2, <4>1, ArrivalKeepsUnread
        <4> QED BY <3>1, <4>2, <4>3 DEF AtMostOne
      <3>2. CASE fd = "none"
        <4>1. pipe' = pipe \o <<s, "A">>
          BY <2>1, <3>2 DEF Reclaim
        <4>2. /\ pipe' \in Seq(Bytes)
              /\ DOMAIN pipe' = DOMAIN pipe \cup {Len(pipe) + 1, Len(pipe) + 2}
              /\ \A i \in DOMAIN pipe : pipe'[i] = pipe[i]
              /\ pipe'[Len(pipe) + 1] = s /\ pipe'[Len(pipe) + 2] = "A"
          <5>1. /\ <<s, "A">> \in Seq(Bytes) /\ Len(<<s, "A">>) = 2
                /\ <<s, "A">>[1] = s /\ <<s, "A">>[2] = "A"
            BY <1>1
          <5>2. pipe' \in Seq(Bytes) /\ Len(pipe') = Len(pipe) + 2
            BY <1>1, <4>1, <5>1, ConcatProperties
          <5>3. /\ \A i \in 1..Len(pipe) : pipe'[i] = pipe[i]
                /\ pipe'[Len(pipe) + 1] = s /\ pipe'[Len(pipe) + 2] = "A"
            BY <1>1, <4>1, <5>1, ConcatProperties
          <5> QED BY <1>1, <5>2, <5>3
        <4>3. Unread(HandlerBytes)' = {Len(pipe) + 2}
          BY <1>1, <2>2, <4>2 DEF Unread, HandlerBytes
        <4>4. Unread(Signals)' = Unread(Signals) \cup {Len(pipe) + 1}
          BY <1>1, <4>2 DEF Unread
        <4>5. \A i \in Unread(Signals) : pipe'[i] = pipe[i]
          BY <4>2 DEF Unread
        <4> QED BY <3>2, <4>2, <4>3, <4>4, <4>5 DEF AtMostOne
      <3> QED BY <3>1, <3>2
    <2>4. fd' = (IF fd = "none" THEN "guard" ELSE fd) /\ owns' = (fd' = "guard")
      BY <2>1 DEF Reclaim
    <2>5. PhaseTypeOK' /\ GuardKnows'
      BY <1>0, <1>1, <2>1, <2>3, <2>4 DEF PhaseInv, PhaseTypeOK, GuardKnows
    <2>6. NamesDelivered' /\ CountsHaveACause'
      BY <1>0, <1>1, <1>3, <2>1, <2>3 DEF PhaseInv, NamesDelivered, CountsHaveACause
    <2>7. OneArrivalCountsOnce'
      <3>1. CASE arrivals <= 1
        <4>1. arrivals = 1 /\ \A t \in delivered : t = s
          <5>1. arrivals = 0 \/ arrivals = 1
            BY <3>1 DEF PhaseInv, PhaseTypeOK
          <5> QED BY <1>1, <5>1 DEF PhaseInv, OneArrivalCountsOnce
        <4>2. tripped' = {}
          BY <1>0, <4>1 DEF PhaseInv, NamesDelivered
        <4>3. fd # "guard" => Unread(Signals) = {} /\ byWakeup = 0
          BY <1>0, <2>1, <3>1 DEF PhaseInv, OneArrivalCountsOnce
        <4>4. ~(byHandler > 0)
          BY <1>3 DEF PhaseInv, CountsHaveACause
        <4>5. AtMostOne(Unread(Signals)')
          BY <2>1, <2>3, <3>1, <4>3 DEF PhaseInv, OneArrivalCountsOnce
        <4>6. byWakeup > 0 => Unread(Signals)' = {}
          BY <2>1, <2>3, <3>1, <4>3 DEF PhaseInv, PhaseTypeOK, OneArrivalCountsOnce
        <4> QED
          BY <1>0, <2>1, <2>3, <4>1, <4>2, <4>4, <4>5, <4>6
          DEF PhaseInv, OneArrivalCountsOnce
      <3>2. CASE ~(arrivals <= 1)
        BY <1>0, <3>2 DEF PhaseInv, PhaseTypeOK, OneArrivalCountsOnce
      <3> QED BY <3>1, <3>2
    <2>8. ForcedOnlyWhenAsked' /\ ExitNamesADelivered'
      BY <1>0 DEF PhaseInv, ForcedOnlyWhenAsked, ExitNamesADelivered
    <2> QED BY <2>5, <2>6, <2>7, <2>8 DEF PhaseInv
  <1>4. CASE ~Closed /\ interrupted # NoSignal
    <2>1. pipe' = Append(pipe, "F") /\ UNCHANGED <<interrupted, fd, owns>> /\ main = "phase"
      BY <1>4 DEF Handle, Closed
    <2>2. ~(arrivals <= 1)
      <3>1. arrivals <= 1 => arrivals = 0 \/ arrivals = 1
        BY DEF PhaseInv, PhaseTypeOK
      <3> QED BY <1>0, <1>4, <2>1, <3>1 DEF PhaseInv, OneArrivalCountsOnce
    <2>3. /\ pipe' \in Seq(Bytes)
          /\ Unread(Signals)' = Unread(Signals)
          /\ \A i \in Unread(Signals) : pipe'[i] = pipe[i]
      BY <1>1, <2>1, ByteArrives DEF Unread
    <2>4. PhaseTypeOK' /\ GuardKnows'
      BY <1>0, <2>1, <2>3 DEF PhaseInv, PhaseTypeOK, GuardKnows
    <2>5. NamesDelivered' /\ CountsHaveACause'
      BY <1>0, <1>4, <2>1, <2>3 DEF PhaseInv, NamesDelivered, CountsHaveACause
    <2>6. OneArrivalCountsOnce'
      BY <1>0, <2>2 DEF PhaseInv, PhaseTypeOK, OneArrivalCountsOnce
    <2>7. ForcedOnlyWhenAsked' /\ ExitNamesADelivered'
      BY <1>0 DEF PhaseInv, ForcedOnlyWhenAsked, ExitNamesADelivered
    <2> QED BY <2>4, <2>5, <2>6, <2>7 DEF PhaseInv
  <1> QED BY <1>2, <1>3, <1>4

(* The steps that touch neither the pipe nor the watchdog. *)
LEMMA MainThreadStep ==
  ASSUME PhaseInv, LoopTakes \/ LoopCloses \/ StopListening \/ RestoreHandlers
  PROVE  PhaseInv'
  <1>0. /\ UNCHANGED <<interrupted, tripped, owns, pipe, watch, byHandler, byWakeup, first,
                       armed, elapsed, code, delivered, arrivals, again>>
        /\ tripped = {}
        /\ loops' \in 0..MaxLoops
        /\ fd' = fd \/ fd' \in {"none", "loop"}
        /\ main' \in {"phase", "closed", "restored"}
        /\ main' = "phase" => main = "phase"
    BY PhaseAssumption
    DEF LoopTakes, LoopCloses, StopListening, RestoreHandlers, PhaseInv, PhaseTypeOK,
        guardVars, watchVars, history
  <1>1. UNCHANGED <<Unread(HandlerBytes), Unread(Signals)>>
    BY <1>0 DEF Unread
  <1>2. PhaseTypeOK'
    BY <1>0 DEF PhaseInv, PhaseTypeOK
  <1>3. NamesDelivered' /\ CountsHaveACause' /\ OneArrivalCountsOnce'
    BY <1>0, <1>1 DEF PhaseInv, NamesDelivered, CountsHaveACause, OneArrivalCountsOnce
  <1>4. GuardKnows' /\ ForcedOnlyWhenAsked' /\ ExitNamesADelivered'
    BY <1>0 DEF PhaseInv, GuardKnows, ForcedOnlyWhenAsked, ExitNamesADelivered
  <1> QED BY <1>2, <1>3, <1>4 DEF PhaseInv

LEMMA CloseStep ==
  ASSUME PhaseInv, Close PROVE PhaseInv'
  <1>0. /\ UNCHANGED <<loops, interrupted, tripped, watch, byHandler, byWakeup, first, armed,
                       elapsed, code, delivered, arrivals, again>>
        /\ main' = "left" /\ owns' = FALSE
        /\ fd' = IF owns /\ fd = "guard" THEN "none" ELSE fd
        /\ pipe' = Append(pipe, "C")
    BY DEF Close, watchVars, history
  <1>1. pipe \in Seq(Bytes) /\ "C" \in Bytes /\ "C" \notin HandlerBytes
    BY DEF PhaseInv, PhaseTypeOK, Bytes, HandlerBytes
  <1>2. pipe' \in Seq(Bytes) /\ Unread(HandlerBytes)' = Unread(HandlerBytes)
    BY <1>0, <1>1, ByteArrives
  <1>3. PhaseTypeOK'
    BY <1>0, <1>2 DEF PhaseInv, PhaseTypeOK
  <1>4. NamesDelivered' /\ CountsHaveACause' /\ OneArrivalCountsOnce'
    BY <1>0, <1>2 DEF PhaseInv, NamesDelivered, CountsHaveACause, OneArrivalCountsOnce
  <1>5. GuardKnows' /\ ForcedOnlyWhenAsked' /\ ExitNamesADelivered'
    BY <1>0 DEF PhaseInv, PhaseTypeOK, GuardKnows, ForcedOnlyWhenAsked, ExitNamesADelivered
  <1> QED BY <1>3, <1>4, <1>5 DEF PhaseInv

----------------------------------------------------------------------------
(* The watchdog. *)

(* What it is about to force has a cause, and its code names a delivery.   *)
LEMMA ForceIsAsked ==
  ASSUME PhaseInv, watch = "watching", main = "phase", NEW n, ForceExit(n),
         n # NoSignal => n \in delivered,
         interrupted # NoSignal \/ n # NoSignal,
         arrivals >= 2 \/ elapsed' = Bound,
         UNCHANGED <<interrupted, arrivals, delivered>>
  PROVE  /\ watch' = "forcing" /\ code' \in delivered /\ code' \in Signals
         /\ ForcedOnlyWhenAsked' /\ ExitNamesADelivered'
  <1>1. watch' = "forcing" /\ code' = (IF interrupted # NoSignal THEN interrupted ELSE n)
    BY DEF ForceExit
  <1>2. code' \in delivered /\ delivered \subseteq Signals
    BY <1>1 DEF PhaseInv, NamesDelivered, PhaseTypeOK
  <1> QED BY <1>1, <1>2 DEF ForcedOnlyWhenAsked, ExitNamesADelivered

LEMMA RetireStep ==
  ASSUME PhaseInv, main # "phase", Retire, pipe' = pipe \/ (pipe # <<>> /\ pipe' = Tail(pipe)),
         UNCHANGED <<main, loops, interrupted, tripped, fd, owns, byHandler, byWakeup, first,
                     armed, elapsed, delivered, arrivals, again>>
  PROVE  PhaseInv'
  <1>0. watch' = "retired" /\ code' = code /\ pipe \in Seq(Bytes)
    BY DEF Retire, PhaseInv, PhaseTypeOK
  <1>1. pipe' \in Seq(Bytes) /\ (Unread(HandlerBytes)' # {} => Unread(HandlerBytes) # {})
    <2>1. CASE pipe' = pipe
      BY <1>0, <2>1 DEF Unread
    <2>2. CASE pipe # <<>> /\ pipe' = Tail(pipe)
      BY <1>0, <2>2, ByteIsRead, ReadingKeepsUnread
    <2> QED BY <2>1, <2>2
  <1>2. PhaseTypeOK'
    BY <1>0, <1>1 DEF PhaseInv, PhaseTypeOK
  <1>3. NamesDelivered' /\ CountsHaveACause' /\ OneArrivalCountsOnce'
    BY <1>0, <1>1 DEF PhaseInv, NamesDelivered, CountsHaveACause, OneArrivalCountsOnce
  <1>4. GuardKnows' /\ ForcedOnlyWhenAsked' /\ ExitNamesADelivered'
    BY <1>0 DEF PhaseInv, GuardKnows, ForcedOnlyWhenAsked, ExitNamesADelivered
  <1> QED BY <1>2, <1>3, <1>4 DEF PhaseInv

(* A counted byte.  One arrival counts at most once on each channel, so a  *)
(* count of two is two arrivals.                                           *)
LEMMA CountStep ==
  ASSUME PhaseInv, watch = "watching", main = "phase", pipe # <<>>, pipe' = Tail(pipe),
         Count(byHandler', byWakeup'),
         UNCHANGED <<main, loops, interrupted, tripped, fd, owns, delivered, arrivals, again>>,
         \/ /\ Head(pipe) \in HandlerBytes
            /\ byHandler' = byHandler + 1 /\ byWakeup' = byWakeup /\ first' = first
         \/ /\ Head(pipe) \in Signals
            /\ byHandler' = byHandler /\ byWakeup' = byWakeup + 1
            /\ first' = IF first = NoSignal THEN Head(pipe) ELSE first
  PROVE  PhaseInv'
  <1>1. pipe \in Seq(Bytes) /\ byHandler \in 0..1 /\ byWakeup \in 0..1
    BY DEF PhaseInv, PhaseTypeOK, CountsHaveACause
  <1>2. pipe' \in Seq(Bytes) /\ Head(pipe) = pipe[1] /\ 1 \in DOMAIN pipe
    BY <1>1, ByteIsRead
  <1>3. Head(pipe) \in Signals => Head(pipe) \in delivered /\ Head(pipe) # NoSignal
    BY <1>2, SignalsAssumption DEF PhaseInv, NamesDelivered, Unread
  <1>4. Head(pipe) \in HandlerBytes => interrupted # NoSignal
    BY <1>1, ReadingKeepsUnread DEF PhaseInv, CountsHaveACause
  <1>5. /\ first' \in Signals \cup {NoSignal}
        /\ first' # NoSignal => first' \in delivered
        /\ byWakeup' > 0 => first' # NoSignal
        /\ byHandler' > 0 => interrupted # NoSignal
        /\ byHandler' > 0 \/ byWakeup' > 0
    BY <1>1, <1>3, <1>4
    DEF PhaseInv, PhaseTypeOK, NamesDelivered, CountsHaveACause
  <1>6. /\ \A i \in Unread(Signals)' : pipe'[i] \in delivered
        /\ Unread(HandlerBytes)' # {} => interrupted # NoSignal
    BY <1>1, ReadingKeepsUnread DEF PhaseInv, NamesDelivered, CountsHaveACause
  <1>7. ASSUME arrivals <= 1
        PROVE  /\ AtMostOne(Unread(HandlerBytes)') /\ AtMostOne(Unread(Signals)')
               /\ byHandler' > 0 => Unread(HandlerBytes)' = {}
               /\ byWakeup' > 0 => Unread(Signals)' = {}
               /\ byHandler' <= 1 /\ byWakeup' <= 1
               /\ tripped # {} /\ fd # "guard" => Unread(Signals)' = {} /\ byWakeup' = 0
    <2>1. /\ AtMostOne(Unread(HandlerBytes)) /\ AtMostOne(Unread(Signals))
          /\ byHandler > 0 => Unread(HandlerBytes) = {}
          /\ byWakeup > 0 => Unread(Signals) = {}
          /\ tripped # {} /\ fd # "guard" => Unread(Signals) = {} /\ byWakeup = 0
      BY <1>7 DEF PhaseInv, OneArrivalCountsOnce
    <2>2. /\ Head(pipe) \in HandlerBytes => Unread(HandlerBytes)' = {} /\ byHandler = 0
          /\ Unread(HandlerBytes)' # {} => Unread(HandlerBytes) # {}
          /\ AtMostOne(Unread(HandlerBytes)')
      BY <1>1, <2>1, ReadingKeepsUnread
    <2>3. /\ Head(pipe) \in Signals => /\ Unread(Signals)' = {} /\ byWakeup = 0
                                       /\ Unread(Signals) # {}
          /\ Unread(Signals)' # {} => Unread(Signals) # {}
          /\ AtMostOne(Unread(Signals)')
      BY <1>1, <2>1, ReadingKeepsUnread
    <2> QED BY <1>1, <2>1, <2>2, <2>3
  <1>8. OneArrivalCountsOnce'
    BY <1>7 DEF PhaseInv, OneArrivalCountsOnce
  <1>9. CASE Most(byHandler', byWakeup') >= 2
    <2>1. ForceExit(first') /\ UNCHANGED <<armed, elapsed>>
      BY <1>9 DEF Count
    <2>2. ~(arrivals <= 1)
      BY <1>1, <1>7, <1>9 DEF Most
    <2>3. arrivals >= 2
      BY <2>2 DEF PhaseInv, PhaseTypeOK
    <2>4. interrupted # NoSignal \/ first' # NoSignal
      BY <1>5
    <2>5. /\ watch' = "forcing" /\ code' \in delivered /\ code' \in Signals
          /\ ForcedOnlyWhenAsked' /\ ExitNamesADelivered'
      <3>1. watch' = "forcing" /\ code' = (IF interrupted # NoSignal THEN interrupted ELSE first')
        BY <2>1 DEF ForceExit
      <3>2. code' \in delivered /\ delivered \subseteq Signals
        BY <1>5, <2>4, <3>1 DEF PhaseInv, NamesDelivered, PhaseTypeOK
      <3> QED BY <2>3, <3>1, <3>2 DEF ForcedOnlyWhenAsked, ExitNamesADelivered
    <2>6. PhaseTypeOK'
      BY <1>1, <1>2, <1>5, <2>1, <2>5 DEF PhaseInv, PhaseTypeOK
    <2>7. NamesDelivered' /\ CountsHaveACause'
      BY <1>5, <1>6, <2>1, <2>5 DEF PhaseInv, NamesDelivered, CountsHaveACause
    <2> QED BY <1>8, <2>5, <2>6, <2>7 DEF PhaseInv, GuardKnows
  <1>10. CASE ~(Most(byHandler', byWakeup') >= 2)
    <2>1. armed' = TRUE /\ UNCHANGED <<watch, code, elapsed>>
      BY <1>10 DEF Count
    <2>2. byHandler' <= 1 /\ byWakeup' <= 1
      BY <1>1, <1>10 DEF Most
    <2>3. PhaseTypeOK'
      BY <1>1, <1>2, <1>5, <2>1 DEF PhaseInv, PhaseTypeOK
    <2>4. NamesDelivered' /\ CountsHaveACause'
      BY <1>5, <1>6, <2>1, <2>2 DEF PhaseInv, NamesDelivered, CountsHaveACause
    <2>5. GuardKnows' /\ ForcedOnlyWhenAsked' /\ ExitNamesADelivered'
      BY <2>1 DEF PhaseInv, GuardKnows, ForcedOnlyWhenAsked, ExitNamesADelivered
    <2> QED BY <1>8, <2>3, <2>4, <2>5 DEF PhaseInv
  <1> QED BY <1>9, <1>10

(* A foreign byte changes nothing. *)
LEMMA SkipStep ==
  ASSUME PhaseInv, pipe # <<>>, pipe' = Tail(pipe), Skip,
         UNCHANGED <<main, loops, interrupted, tripped, fd, owns, delivered, arrivals, again>>
  PROVE  PhaseInv'
  <1>1. pipe \in Seq(Bytes) /\ UNCHANGED <<watch, byHandler, byWakeup, first, armed, elapsed, code>>
    BY DEF PhaseInv, PhaseTypeOK, Skip
  <1>2. PhaseTypeOK'
    BY <1>1, ByteIsRead DEF PhaseInv, PhaseTypeOK
  <1>3. /\ Unread(HandlerBytes)' # {} => Unread(HandlerBytes) # {}
        /\ AtMostOne(Unread(HandlerBytes)) => AtMostOne(Unread(HandlerBytes)')
    BY <1>1, ReadingKeepsUnread
  <1>4. /\ Unread(Signals)' # {} => Unread(Signals) # {}
        /\ AtMostOne(Unread(Signals)) => AtMostOne(Unread(Signals)')
        /\ \A i \in Unread(Signals)' : i + 1 \in Unread(Signals) /\ pipe'[i] = pipe[i + 1]
    BY <1>1, ReadingKeepsUnread
  <1>5. NamesDelivered' /\ CountsHaveACause'
    BY <1>1, <1>3, <1>4 DEF PhaseInv, NamesDelivered, CountsHaveACause
  <1>6. OneArrivalCountsOnce'
    BY <1>1, <1>3, <1>4 DEF PhaseInv, OneArrivalCountsOnce
  <1>7. GuardKnows' /\ ForcedOnlyWhenAsked' /\ ExitNamesADelivered'
    BY <1>1 DEF PhaseInv, GuardKnows, ForcedOnlyWhenAsked, ExitNamesADelivered
  <1> QED BY <1>2, <1>5, <1>6, <1>7 DEF PhaseInv

LEMMA ReadPipeStep ==
  ASSUME PhaseInv, ReadPipe PROVE PhaseInv'
  <1>1. /\ watch = "watching" /\ pipe # <<>> /\ pipe' = Tail(pipe)
        /\ UNCHANGED <<main, loops, interrupted, tripped, fd, owns, delivered, arrivals, again>>
    BY DEF ReadPipe, mainVars, guardVars, history
  <1>2. CASE Closed /\ Retire /\ UNCHANGED <<byHandler, byWakeup, first, armed, elapsed>>
    BY <1>1, <1>2, RetireStep DEF Closed
  <1>3. CASE /\ ~Closed /\ Head(pipe) \in {"A", "F"}
             /\ UNCHANGED first /\ Count(byHandler + 1, byWakeup)
    <2>1. byHandler' = byHandler + 1 /\ byWakeup' = byWakeup
      BY <1>3 DEF Count
    <2> QED BY <1>1, <1>3, <2>1, CountStep DEF Closed, HandlerBytes
  <1>4. CASE /\ ~Closed /\ Head(pipe) \in Signals
             /\ first' = IF first = NoSignal THEN Head(pipe) ELSE first
             /\ Count(byHandler, byWakeup + 1)
    <2>1. byHandler' = byHandler /\ byWakeup' = byWakeup + 1
      BY <1>4 DEF Count
    <2> QED BY <1>1, <1>4, <2>1, CountStep DEF Closed
  <1>5. CASE ~Closed /\ Head(pipe) \in Foreign /\ Skip
    BY <1>1, <1>5, SkipStep
  <1> QED BY <1>2, <1>3, <1>4, <1>5 DEF ReadPipe

LEMMA TickStep ==
  ASSUME PhaseInv, PhaseTick PROVE PhaseInv'
  <1>1. /\ UNCHANGED <<main, loops, interrupted, tripped, fd, owns, pipe, watch, byHandler,
                       byWakeup, first, armed, code, delivered, arrivals, again>>
        /\ watch = "watching" /\ armed /\ elapsed' \in 0..Bound /\ Unread(Signals)' = Unread(Signals)
        /\ Unread(HandlerBytes)' = Unread(HandlerBytes)
    BY PhaseAssumption
    DEF PhaseTick, mainVars, guardVars, history, PhaseInv, PhaseTypeOK, Unread
  <1>2. PhaseTypeOK'
    BY <1>1 DEF PhaseInv, PhaseTypeOK
  <1>3. NamesDelivered' /\ CountsHaveACause' /\ OneArrivalCountsOnce'
    BY <1>1 DEF PhaseInv, NamesDelivered, CountsHaveACause, OneArrivalCountsOnce
  <1> QED
    BY <1>1, <1>2, <1>3 DEF PhaseInv, GuardKnows, ForcedOnlyWhenAsked, ExitNamesADelivered

LEMMA ExpireStep ==
  ASSUME PhaseInv, Expire PROVE PhaseInv'
  <1>1. /\ UNCHANGED <<main, loops, interrupted, tripped, fd, owns, pipe, byHandler,
                       byWakeup, first, armed, elapsed, delivered, arrivals, again>>
        /\ watch = "watching" /\ elapsed = Bound
        /\ UNCHANGED <<Unread(Signals), Unread(HandlerBytes)>>
    BY DEF Expire, mainVars, guardVars, history, Unread
  <1>2. CASE Closed
    <2>1. Retire
      BY <1>2 DEF Expire
    <2> QED BY <1>1, <1>2, <2>1, RetireStep DEF Closed
  <1>3. CASE ~Closed
    <2>1. ForceExit(first) /\ main = "phase"
      BY <1>3 DEF Expire, Closed
    <2>2. armed /\ (interrupted # NoSignal \/ first # NoSignal)
      BY <1>1, PhaseAssumption DEF PhaseInv, CountsHaveACause
    <2>3. first # NoSignal => first \in delivered
      BY DEF PhaseInv, NamesDelivered
    <2>4. /\ watch' = "forcing" /\ code' \in delivered /\ code' \in Signals
          /\ ForcedOnlyWhenAsked' /\ ExitNamesADelivered'
      BY <1>1, <2>1, <2>2, <2>3, ForceIsAsked
    <2>5. PhaseTypeOK'
      BY <1>1, <2>4 DEF PhaseInv, PhaseTypeOK
    <2>6. NamesDelivered' /\ CountsHaveACause' /\ OneArrivalCountsOnce'
      BY <1>1, <2>4 DEF PhaseInv, NamesDelivered, CountsHaveACause, OneArrivalCountsOnce
    <2> QED BY <1>1, <2>4, <2>5, <2>6 DEF PhaseInv, GuardKnows
  <1> QED BY <1>2, <1>3

LEMMA ExitStep ==
  ASSUME PhaseInv, Exit PROVE PhaseInv'
  <1>1. /\ UNCHANGED <<main, loops, interrupted, tripped, fd, owns, pipe, byHandler,
                       byWakeup, first, armed, elapsed, code, delivered, arrivals, again>>
        /\ watch = "forcing" /\ watch' = "exited"
        /\ UNCHANGED <<Unread(Signals), Unread(HandlerBytes)>>
    BY DEF Exit, mainVars, guardVars, history, Unread
  <1>2. PhaseTypeOK'
    BY <1>1 DEF PhaseInv, PhaseTypeOK
  <1>3. NamesDelivered' /\ CountsHaveACause' /\ OneArrivalCountsOnce'
    BY <1>1 DEF PhaseInv, NamesDelivered, CountsHaveACause, OneArrivalCountsOnce
  <1> QED
    BY <1>1, <1>2, <1>3 DEF PhaseInv, GuardKnows, ForcedOnlyWhenAsked, ExitNamesADelivered

----------------------------------------------------------------------------
(* The results. *)

LEMMA PhaseStutters ==
  ASSUME PhaseInv, UNCHANGED phaseVars PROVE PhaseInv'
  <1>1. /\ UNCHANGED <<main, loops, interrupted, tripped, fd, owns, pipe, watch, byHandler,
                       byWakeup, first, armed, elapsed, code, delivered, arrivals, again>>
        /\ UNCHANGED <<Unread(Signals), Unread(HandlerBytes)>>
    BY DEF phaseVars, mainVars, guardVars, watchVars, history, Unread
  <1>2. PhaseTypeOK'
    BY <1>1 DEF PhaseInv, PhaseTypeOK
  <1>3. NamesDelivered' /\ CountsHaveACause' /\ OneArrivalCountsOnce'
    BY <1>1 DEF PhaseInv, NamesDelivered, CountsHaveACause, OneArrivalCountsOnce
  <1> QED
    BY <1>1, <1>2, <1>3 DEF PhaseInv, GuardKnows, ForcedOnlyWhenAsked, ExitNamesADelivered

LEMMA PhaseStep == PhaseInv /\ [PhaseNext]_phaseVars => PhaseInv'
  <1> SUFFICES ASSUME PhaseInv, [PhaseNext]_phaseVars PROVE PhaseInv'
    OBVIOUS
  <1>1. ASSUME NEW s \in Signals, Deliver(s) \/ Handle(s) PROVE PhaseInv'
    BY <1>1, DeliverStep, HandleStep
  <1>2. ASSUME NEW s \in Signals \cup Foreign, DeliverOther(s) PROVE PhaseInv'
    BY <1>2, DeliverOtherStep
  <1>3. CASE LoopTakes \/ LoopCloses \/ StopListening \/ RestoreHandlers
    BY <1>3, MainThreadStep
  <1>4. CASE Close
    BY <1>4, CloseStep
  <1>5. CASE WatchStep
    BY <1>5, ReadPipeStep, ExpireStep, ExitStep DEF WatchStep
  <1>6. CASE PhaseTick
    BY <1>6, TickStep
  <1>7. CASE UNCHANGED phaseVars
    BY <1>7, PhaseStutters
  <1> QED BY <1>1, <1>2, <1>3, <1>4, <1>5, <1>6, <1>7 DEF PhaseNext

(* The inductive invariant holds in every state of a phase, for every set  *)
(* of signals, every deadline and any number of nested loops.              *)
THEOREM PhaseInvariant == PhaseSpec => []PhaseInv
  BY PhaseInitInv, PhaseStep, PTL DEF PhaseSpec

(* Every variable of a phase and its watchdog keeps its type.              *)
THEOREM PhaseTypeCorrect == PhaseSpec => []PhaseTypeOK
  <1>1. PhaseInv => PhaseTypeOK
    BY DEF PhaseInv
  <1> QED BY <1>1, PhaseInvariant, PTL

(* _watch ends the process by force only for a second signal of the phase  *)
(* or past the deadline of the first: two reports of one signal and        *)
(* foreign signals never add up to that.  And the exit code names a signal *)
(* that arrived; the guess at the end of _watch is never needed.           *)
THEOREM AlwaysForcesRightly == PhaseSpec => []ForcesRightly
  <1>1. PhaseInv => ForcesRightly
    BY DEF PhaseInv, ForcesRightly
  <1> QED BY <1>1, PhaseInvariant, PTL

(* One step of the phase leaves a loop's descriptor to the loop, and a     *)
(* phase that is left does not keep the descriptor.                        *)
LEMMA LendingStep ==
  ASSUME PhaseInv, PhaseInv', [PhaseNext]_phaseVars
  PROVE  /\ fd = "loop" /\ fd' # "loop" => loops' < loops
         /\ main' = "left" => fd' # "guard"
  <1>1. main' = "left" => fd' # "guard"
    BY DEF PhaseInv, GuardKnows
  <1>2. fd = "loop" /\ fd' # "loop" => LoopCloses
    BY DEF PhaseNext, Deliver, Handle, Reclaim, DeliverOther, LoopTakes, StopListening,
           RestoreHandlers, Close, WatchStep, ReadPipe, Expire, Exit, PhaseTick, phaseVars,
           guardVars
  <1>3. LoopCloses => loops' < loops
    BY DEF LoopCloses, PhaseInv, PhaseTypeOK
  <1> QED BY <1>1, <1>2, <1>3

(* The guard never takes the wakeup descriptor from a loop that has it,    *)
(* and never leaves its own pipe behind (_reclaim_wakeup_fd, _close).      *)
THEOREM LendsTheDescriptor == PhaseSpec => DescriptorIsLent
  BY PhaseInvariant, LendingStep, PTL DEF PhaseSpec, DescriptorIsLent

----------------------------------------------------------------------------
(* What the watchdog must hear of reaches it. *)

(* Bytes that are written stay unread until they are read, in their order. *)
LEMMA WrittenIsUnread ==
  ASSUME pipe \in Seq(Bytes), NEW b \in Bytes, pipe' = Append(pipe, b), NEW S
  PROVE  /\ Unread(S) \subseteq Unread(S)'
         /\ b \in S => \E i \in Unread(S)' : i \notin Unread(S)
  <1>1. Unread(S)' = IF b \in S THEN Unread(S) \cup {Len(pipe) + 1} ELSE Unread(S)
    BY ByteArrives, Zenon
  <1>2. Len(pipe) + 1 \notin Unread(S)
    BY ByteArrives, Zenon DEF Unread
  <1> QED BY <1>1, <1>2

LEMMA ReadingLeavesTheOthers ==
  ASSUME pipe \in Seq(Bytes), pipe # <<>>, pipe' = Tail(pipe), NEW S
  PROVE  /\ Head(pipe) \notin S /\ Unread(S) # {} => Unread(S)' # {}
         /\ Head(pipe) \notin S /\ (\E i, j \in Unread(S) : i # j)
              => \E i, j \in Unread(S)' : i # j
         /\ (\E i, j \in Unread(S) : i # j) => Unread(S)' # {}
  <1>1. \A i \in Unread(S) : i # 1 => i \in Nat /\ i - 1 \in Unread(S)'
    BY DEF Unread
  <1>2. Head(pipe) \notin S => 1 \notin Unread(S)
    BY ByteIsRead DEF Unread
  <1>3. ASSUME Head(pipe) \notin S, NEW i \in Unread(S), NEW j \in Unread(S), i # j
        PROVE  \E k, l \in Unread(S)' : k # l
    <2>1. i - 1 \in Unread(S)' /\ j - 1 \in Unread(S)' /\ i \in Nat /\ j \in Nat
      BY <1>1, <1>2, <1>3
    <2>2. i - 1 # j - 1
      BY <1>3, <2>1
    <2> QED BY <2>1, <2>2
  <1>4. ASSUME NEW i \in Unread(S), NEW j \in Unread(S), i # j PROVE Unread(S)' # {}
    <2>1. i # 1 \/ j # 1
      BY <1>4
    <2> QED BY <1>1, <2>1
  <1> QED BY <1>1, <1>2, <1>3, <1>4

(* Each channel keeps word of what it carried: the handlers' channel once  *)
(* one ran, the interpreter's as long as the descriptor is the guard's.    *)
WordIsOut ==
    watch = "watching" /\ main = "phase" =>
        /\ interrupted # NoSignal => armed \/ Unread({"A"}) # {}
        /\ interrupted # NoSignal => byHandler = 1 \/ Unread(HandlerBytes) # {}
        /\ arrivals >= 1 /\ fd = "guard" => byWakeup = 1 \/ Unread(Signals) # {}
        /\ again => TwoReports(byHandler, HandlerBytes) \/ TwoReports(byWakeup, Signals)

LEMMA WordOfADelivery ==
  ASSUME PhaseInv, WordIsOut, NEW s \in Signals, Deliver(s) PROVE WordIsOut'
  <1> SUFFICES ASSUME watch' = "watching", main' = "phase" PROVE WordIsOut'
    BY DEF WordIsOut
  <1>0. /\ UNCHANGED <<main, watch, interrupted, armed, byHandler, byWakeup, fd>>
        /\ arrivals' = arrivals + 1 /\ arrivals \in Nat
        /\ again' = (again \/ (arrivals >= 1 /\ fd = "guard"))
        /\ pipe' = IF fd = "guard" THEN Append(pipe, s) ELSE pipe
        /\ pipe \in Seq(Bytes) /\ s \in Bytes
    BY PhaseAssumption DEF Deliver, mainVars, watchVars, PhaseInv, PhaseTypeOK, Bytes
  <1>1. CASE fd = "guard"
    <2>1. pipe' = Append(pipe, s)
      BY <1>0, <1>1
    <2>2. \A S : Unread(S) \subseteq Unread(S)'
      BY <1>0, <2>1, WrittenIsUnread, Zenon
    <2>3. Unread(Signals)' # {}
      BY <1>0, <2>1, WrittenIsUnread
    <2>4. arrivals >= 1 => TwoReports(byWakeup, Signals)'
      <3>1. arrivals >= 1 => byWakeup = 1 \/ Unread(Signals) # {}
        BY <1>0, <1>1 DEF WordIsOut
      <3>2. \A n : n = 1 \/ Unread(Signals) # {} => TwoReports(n, Signals)'
        BY <1>0, <2>1, <2>2, <2>3, WrittenIsUnread, Zenon DEF TwoReports
      <3> QED BY <1>0, <3>1, <3>2 DEF TwoReports
    <2>5. again => TwoReports(byHandler, HandlerBytes)' \/ TwoReports(byWakeup, Signals)'
      BY <1>0, <2>2 DEF WordIsOut, TwoReports
    <2> QED BY <1>0, <2>2, <2>3, <2>4, <2>5, Zenon DEF WordIsOut
  <1>2. CASE fd # "guard"
    <2>1. pipe' = pipe /\ (again' <=> again)
      BY <1>0, <1>2
    <2>2. \A S : Unread(S)' = Unread(S)
      BY <2>1 DEF Unread
    <2> QED BY <1>0, <1>2, <2>1, <2>2 DEF WordIsOut, TwoReports
  <1> QED BY <1>1, <1>2

(* The reclaim seeds the interpreter's channel with the signal it missed.  *)
LEMMA WordOfAHandler ==
  ASSUME PhaseInv, WordIsOut, NEW s \in Signals, Handle(s) PROVE WordIsOut'
  <1> SUFFICES ASSUME watch' = "watching", main' = "phase" PROVE WordIsOut'
    BY DEF WordIsOut
  <1>0. /\ UNCHANGED <<main, watch, armed, byHandler, byWakeup, arrivals>>
        /\ ~Closed /\ again' = (again \/ interrupted # NoSignal)
        /\ pipe \in Seq(Bytes) /\ s \in Bytes /\ "A" \in Bytes /\ "F" \in Bytes
        /\ "A" \in HandlerBytes /\ "F" \in HandlerBytes
    BY DEF Handle, mainVars, watchVars, PhaseInv, PhaseTypeOK, Bytes, Closed, HandlerBytes
  <1>1. CASE interrupted = NoSignal
    <2>1. /\ interrupted' = s /\ (again' <=> again)
          /\ fd' = IF fd = "none" THEN "guard" ELSE fd
          /\ pipe' = IF fd = "none" THEN pipe \o <<s, "A">> ELSE Append(pipe, "A")
      BY <1>0, <1>1 DEF Handle, Reclaim, Closed
    <2>2. /\ \A S : Unread(S) \subseteq Unread(S)'
          /\ Unread({"A"})' # {} /\ Unread(HandlerBytes)' # {}
      <3>1. DOMAIN pipe \subseteq DOMAIN pipe' /\ \A i \in DOMAIN pipe : pipe'[i] = pipe[i]
        BY <1>0, <2>1
      <3>2. \E i \in DOMAIN pipe' : pipe'[i] = "A"
        <4>1. CASE fd = "none"
          <5>1. Len(pipe) + 2 \in DOMAIN pipe' /\ pipe'[Len(pipe) + 2] = "A"
            BY <1>0, <2>1, <4>1
          <5> QED BY <5>1
        <4>2. CASE fd # "none"
          <5>1. Len(pipe) + 1 \in DOMAIN pipe' /\ pipe'[Len(pipe) + 1] = "A"
            BY <1>0, <2>1, <4>2
          <5> QED BY <5>1
        <4> QED BY <4>1, <4>2
      <3> QED BY <1>0, <3>1, <3>2 DEF Unread
    <2>3. fd = "none" => Unread(Signals)' # {}
      <3>1. fd = "none" => Len(pipe) + 1 \in DOMAIN pipe' /\ pipe'[Len(pipe) + 1] = s
        BY <1>0, <2>1
      <3> QED BY <3>1 DEF Unread
    <2> QED BY <1>0, <2>1, <2>2, <2>3 DEF WordIsOut, TwoReports
  <1>2. CASE interrupted # NoSignal
    <2>1. /\ pipe' = Append(pipe, "F") /\ UNCHANGED <<interrupted, fd>>
      BY <1>0, <1>2 DEF Handle, Closed
    <2>2. \A S : Unread(S) \subseteq Unread(S)'
      BY <1>0, <2>1, WrittenIsUnread, Zenon
    <2>3. byHandler = 1 \/ Unread(HandlerBytes) # {}
      BY <1>0, <1>2 DEF WordIsOut
    <2>4. TwoReports(byHandler, HandlerBytes)'
      <3>1. \E i \in Unread(HandlerBytes)' : i \notin Unread(HandlerBytes)
        BY <1>0, <2>1, WrittenIsUnread
      <3> QED BY <1>0, <2>2, <2>3, <3>1 DEF TwoReports
    <2> QED BY <1>0, <2>1, <2>2, <2>4 DEF WordIsOut
  <1> QED BY <1>1, <1>2

(* What the watchdog reads it counts; the rest stays for it.               *)
LEMMA WordIsRead ==
  ASSUME PhaseInv, WordIsOut, ReadPipe PROVE WordIsOut'
  <1> SUFFICES ASSUME watch' = "watching", main' = "phase" PROVE WordIsOut'
    BY DEF WordIsOut
  <1>0. /\ UNCHANGED <<main, interrupted, fd, arrivals, again>>
        /\ watch = "watching" /\ ~Closed /\ pipe # <<>> /\ pipe' = Tail(pipe)
        /\ pipe \in Seq(Bytes) /\ byHandler \in 0..1 /\ byWakeup \in 0..1
    BY DEF ReadPipe, mainVars, guardVars, history, Closed, PhaseInv, PhaseTypeOK,
           CountsHaveACause
  <1>1. \A S : /\ Head(pipe) \notin S /\ Unread(S) # {} => Unread(S)' # {}
               /\ Head(pipe) \notin S /\ (\E i, j \in Unread(S) : i # j)
                    => \E i, j \in Unread(S)' : i # j
               /\ (\E i, j \in Unread(S) : i # j) => Unread(S)' # {}
    BY <1>0, ReadingLeavesTheOthers, Zenon
  <1>2. /\ "A" \notin Signals /\ "F" \notin Signals /\ HandlerBytes \cap Signals = {}
        /\ HandlerBytes \cap Foreign = {} /\ Signals \cap Foreign = {}
        /\ {"A"} \subseteq HandlerBytes
    BY BytesAssumption, SignalsAssumption DEF HandlerBytes
  <1>3. watch = "watching" /\ main = "phase"
    BY <1>0 DEF Closed
  <1>4. /\ interrupted # NoSignal => armed \/ Unread({"A"}) # {}
        /\ interrupted # NoSignal => byHandler = 1 \/ Unread(HandlerBytes) # {}
        /\ arrivals >= 1 /\ fd = "guard" => byWakeup = 1 \/ Unread(Signals) # {}
        /\ again => TwoReports(byHandler, HandlerBytes) \/ TwoReports(byWakeup, Signals)
    BY <1>3 DEF WordIsOut
  <1>5. CASE Head(pipe) \in HandlerBytes /\ Count(byHandler + 1, byWakeup)
    <2>1. /\ byHandler' = byHandler + 1 /\ byWakeup' = byWakeup
          /\ armed' = TRUE /\ byHandler' < 2
      BY <1>0, <1>5 DEF Count, ForceExit, Most
    <2>2. byHandler' = 1 /\ byHandler = 0
      BY <1>0, <2>1
    <2>3. Head(pipe) \notin Signals
      BY <1>2, <1>5
    <2>4. arrivals >= 1 /\ fd = "guard" => byWakeup' = 1 \/ Unread(Signals)' # {}
      BY <1>1, <1>4, <2>1, <2>3
    <2>5. TwoReports(byHandler, HandlerBytes) => TwoReports(byHandler, HandlerBytes)'
      BY <1>1, <2>2 DEF TwoReports
    <2>6. TwoReports(byWakeup, Signals) => TwoReports(byWakeup, Signals)'
      BY <1>1, <2>1, <2>3 DEF TwoReports
    <2> QED BY <1>0, <1>4, <2>1, <2>2, <2>4, <2>5, <2>6 DEF WordIsOut
  <1>6. CASE Head(pipe) \in Signals /\ Count(byHandler, byWakeup + 1)
    <2>1. /\ byHandler' = byHandler /\ byWakeup' = byWakeup + 1
          /\ armed' = TRUE /\ byWakeup' < 2
      BY <1>0, <1>6 DEF Count, ForceExit, Most
    <2>2. byWakeup' = 1 /\ byWakeup = 0
      BY <1>0, <2>1
    <2>3. Head(pipe) \notin HandlerBytes
      BY <1>2, <1>6
    <2>4. interrupted # NoSignal => byHandler' = 1 \/ Unread(HandlerBytes)' # {}
      BY <1>1, <1>4, <2>1, <2>3
    <2>5. TwoReports(byWakeup, Signals) => TwoReports(byWakeup, Signals)'
      BY <1>1, <2>2 DEF TwoReports
    <2>6. TwoReports(byHandler, HandlerBytes) => TwoReports(byHandler, HandlerBytes)'
      BY <1>1, <2>1, <2>3 DEF TwoReports
    <2> QED BY <1>0, <1>4, <2>1, <2>2, <2>4, <2>5, <2>6 DEF WordIsOut
  <1>7. CASE Head(pipe) \in Foreign /\ Skip
    <2>1. UNCHANGED <<armed, byHandler, byWakeup>>
      BY <1>7 DEF Skip
    <2>2. Head(pipe) \notin Signals /\ Head(pipe) \notin HandlerBytes /\ Head(pipe) \notin {"A"}
      BY <1>2, <1>7
    <2>3. /\ Unread({"A"}) # {} => Unread({"A"})' # {}
          /\ Unread(HandlerBytes) # {} => Unread(HandlerBytes)' # {}
          /\ Unread(Signals) # {} => Unread(Signals)' # {}
      BY <1>1, <2>2
    <2>4. /\ TwoReports(byWakeup, Signals) => TwoReports(byWakeup, Signals)'
          /\ TwoReports(byHandler, HandlerBytes) => TwoReports(byHandler, HandlerBytes)'
      BY <1>1, <2>1, <2>2 DEF TwoReports
    <2> QED BY <1>0, <1>4, <2>1, <2>3, <2>4 DEF WordIsOut
  <1> QED BY <1>0, <1>5, <1>6, <1>7 DEF ReadPipe, HandlerBytes

LEMMA WordStep == PhaseInv /\ WordIsOut /\ [PhaseNext]_phaseVars => WordIsOut'
  <1> SUFFICES ASSUME PhaseInv, WordIsOut, [PhaseNext]_phaseVars PROVE WordIsOut'
    OBVIOUS
  <1>1. ASSUME NEW s \in Signals, Deliver(s) \/ Handle(s) PROVE WordIsOut'
    BY <1>1, WordOfADelivery, WordOfAHandler
  <1>2. ASSUME NEW s \in Signals \cup Foreign, DeliverOther(s) PROVE WordIsOut'
    <2>1. /\ UNCHANGED <<main, watch, interrupted, armed, byHandler, byWakeup, fd, arrivals, again>>
          /\ pipe' = Append(pipe, s) /\ pipe \in Seq(Bytes) /\ s \in Bytes
      BY <1>2
      DEF DeliverOther, mainVars, guardVars, watchVars, history, PhaseInv, PhaseTypeOK, Bytes
    <2>2. \A S : Unread(S) \subseteq Unread(S)'
      BY <2>1, WrittenIsUnread, Zenon
    <2> QED BY <2>1, <2>2 DEF WordIsOut, TwoReports
  <1>3. CASE LoopTakes \/ LoopCloses \/ PhaseTick \/ UNCHANGED phaseVars
    <2>1. /\ UNCHANGED <<main, watch, interrupted, armed, byHandler, byWakeup, pipe, arrivals, again>>
          /\ fd' = "guard" => fd = "guard"
      BY <1>3
      DEF LoopTakes, LoopCloses, PhaseTick, phaseVars, mainVars, guardVars, watchVars, history
    <2>2. \A S : Unread(S)' = Unread(S)
      BY <2>1 DEF Unread
    <2> QED BY <2>1, <2>2 DEF WordIsOut, TwoReports
  <1>4. CASE StopListening \/ RestoreHandlers \/ Close
    BY <1>4 DEF StopListening, RestoreHandlers, Close, WordIsOut
  <1>5. CASE ReadPipe
    BY <1>5, WordIsRead
  <1>6. CASE Expire \/ Exit
    BY <1>6 DEF Expire, Exit, ForceExit, Retire, WordIsOut
  <1> QED BY <1>1, <1>2, <1>3, <1>4, <1>5, <1>6 DEF PhaseNext, WatchStep

(* Nothing the watchdog must hear of is lost on its way, whoever took the  *)
(* wakeup descriptor meanwhile: a signal whose handler ran armed the       *)
(* deadline or is unread, and a second one on a live channel is counted    *)
(* with the first, or what is missing of the two is unread.  It is the     *)
(* safety half of SecondSignalForces and BoundedPhase.                     *)
THEOREM WatchdogHears == PhaseSpec => []SignalsReachTheWatchdog
  <1>1. PhaseInit => WordIsOut
    BY DEF PhaseInit, WordIsOut
  <1>2. WordIsOut => SignalsReachTheWatchdog
    BY DEF WordIsOut, SignalsReachTheWatchdog, Closed, HandlerBytes
  <1> QED BY <1>1, <1>2, PhaseInvariant, WordStep, PTL DEF PhaseSpec

=============================================================================
