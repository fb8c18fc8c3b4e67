------------------------ MODULE DiagnosticCollector_proofs ------------------------
(* Proofs about DiagnosticCollector: no loss goes uncounted, no failure    *)
(* unreported, the timeline stays ordered, and what is kept stays within   *)
(* the limits, for any limits and sessions.  The sum of the events' sizes  *)
(* is a fold; it is reasoned about by way of its running totals.           *)
EXTENDS DiagnosticCollector, SharedLemmas, TLAPS

(* The types the proofs need: all but that of retainedBytes.               *)
Typed ==
  /\ events \in Seq(StoredEvents) /\ sequence \in Nat
  /\ dropped \in Nat /\ failures \in Nat
  /\ now \in Nat /\ monotonic \in BOOLEAN
  /\ pc \in [Sessions -> {"idle", "capture", "failing", "after"}]
  /\ before \in [Sessions -> Nat]
  /\ errors \in [Sessions -> Seq(Nat \X Nat)]
  /\ errorsDropped \in [Sessions -> Nat]
  /\ captures \in Nat /\ lost \in [Sessions -> Nat]
  /\ report \in [events : Seq(StoredEvents), at : Nat]

(* dropFront keeps the rest of the events in their order.                  *)
LEMMA KeptEvents ==
  ASSUME events \in Seq(StoredEvents), NEW k \in 0..Len(events)
  PROVE  /\ Kept(k) \in Seq(StoredEvents)
         /\ Len(Kept(k)) = Len(events) - k
         /\ \A i \in 1..(Len(events) - k) : Kept(k)[i] = events[k + i]
  <1>1. \A i \in (k + 1)..Len(events) : events[i] \in StoredEvents
    BY ElementOfSeq
  <1>2. Len(events) \in Nat
    BY LenProperties
  <1> QED BY <1>1, <1>2, SubSeqProperties DEF Kept

(* An event stored after k others were dropped.                            *)
LEMMA StoredEvent ==
  ASSUME events \in Seq(StoredEvents), NEW k \in 0..Len(events),
         NEW e \in StoredEvents
  PROVE  LET q == Append(Kept(k), e)
         IN  /\ q \in Seq(StoredEvents)
             /\ Len(q) = Len(events) - k + 1
             /\ \A i \in 1..(Len(events) - k) : q[i] = events[k + i]
             /\ q[Len(q)] = e
  <1>1. /\ Kept(k) \in Seq(StoredEvents)
        /\ Len(Kept(k)) = Len(events) - k
        /\ \A i \in 1..(Len(events) - k) : Kept(k)[i] = events[k + i]
    BY KeptEvents
  <1> QED BY <1>1, AppendProperties, LenProperties

(* A step on events: k of them leave at the front, n are added.            *)
Shift(k, n) ==
  /\ Len(events') = Len(events) - k + n
  /\ \A i \in 1..(Len(events) - k) : events'[i] = events[k + i]

LEMMA LoseShifts ==
  ASSUME Typed, NEW k \in 0..Len(events), NEW more \in Nat, Lose(k, more)
  PROVE  /\ Shift(k, 0)
         /\ events' \in Seq(StoredEvents) /\ dropped' = dropped + k + more
  <1>1. events' = Kept(k) /\ dropped' = dropped + k + more
    BY DEF Lose
  <1>2. /\ events' \in Seq(StoredEvents)
        /\ Len(events') = Len(events) - k
        /\ \A i \in 1..(Len(events) - k) : events'[i] = events[k + i]
    BY <1>1, KeptEvents DEF Typed
  <1>3. Len(events) \in Nat
    BY LenProperties DEF Typed
  <1>4. Shift(k, 0)
    BY <1>2, <1>3 DEF Shift
  <1> QED BY <1>1, <1>2, <1>4

LEMMA ExpireShifts ==
  ASSUME Typed, NEW more \in Nat, Expire(more)
  PROVE  \E k \in 0..Len(events) :
           /\ Shift(k, 0) /\ Expires(k)
           /\ events' \in Seq(StoredEvents) /\ dropped' = dropped + k + more
  BY LoseShifts DEF Expire

(* A capture that throws has dropped nothing, or events at the front.      *)
LEMMA ThrowShifts ==
  ASSUME Typed, NEW s \in Sessions, CaptureThrows(s)
  PROVE  /\ \E k \in 0..Len(events) :
              /\ Shift(k, 0)
              /\ events' \in Seq(StoredEvents) /\ dropped' = dropped + k
         /\ sequence' \in {sequence, sequence + 1}
  <1>0. Len(events) \in Nat /\ dropped \in Nat
    BY LenProperties DEF Typed
  <1>1. CASE UNCHANGED <<store, dropped>>
    <2>1. Shift(0, 0) /\ events' \in Seq(StoredEvents) /\ dropped' = dropped + 0
      BY <1>0, <1>1 DEF Shift, store, Typed
    <2> QED BY <1>0, <1>1, <2>1 DEF store
  <1>2. CASE Expire(0) /\ sequence' \in {sequence, sequence + 1}
    <2>1. PICK k \in 0..Len(events) :
            /\ Shift(k, 0)
            /\ events' \in Seq(StoredEvents) /\ dropped' = dropped + k + 0
      BY <1>2, ExpireShifts
    <2> QED BY <1>0, <1>2, <2>1
  <1>3. ASSUME NEW k \in 0..Len(events), Lose(k, 0), sequence' = sequence + 1
        PROVE  /\ \E j \in 0..Len(events) :
                    /\ Shift(j, 0)
                    /\ events' \in Seq(StoredEvents) /\ dropped' = dropped + j
               /\ sequence' \in {sequence, sequence + 1}
    <2>1. Shift(k, 0) /\ events' \in Seq(StoredEvents) /\ dropped' = dropped + k + 0
      BY <1>3, LoseShifts
    <2> QED BY <1>0, <1>3, <2>1
  <1> QED BY <1>1, <1>2, <1>3 DEF CaptureThrows

LEMMA CaptureShifts ==
  ASSUME Typed, NEW s \in Sessions, NEW full \in Sizes, NEW bare \in Sizes,
         Capture(s, full, bare)
  PROVE  \E k \in 0..Len(events) :
           /\ Shift(k, 1) /\ dropped' = dropped + k
           /\ events' \in Seq(StoredEvents)
           /\ events'[Len(events')].seq = sequence + 1
           /\ events'[Len(events')].time = now
  <1> DEFINE bytes == Stored(full, bare)
             e == [seq |-> sequence', time |-> now, bytes |-> bytes]
  <1>1. e \in StoredEvents /\ sequence' = sequence + 1
    BY LimitsAssumption DEF Capture, Captured, Stored, StoredEvents, Typed
  <1>2. PICK k \in 0..Len(events) :
          events' = Append(Kept(k), e) /\ dropped' = dropped + k
    BY DEF Capture
  <1> HIDE DEF e
  <1>3. /\ events' \in Seq(StoredEvents)
        /\ Len(events') = Len(events) - k + 1
        /\ \A i \in 1..(Len(events) - k) : events'[i] = events[k + i]
        /\ events'[Len(events')] = e
    BY <1>1, <1>2, StoredEvent DEF Typed
  <1>4. Shift(k, 1)
    BY <1>3 DEF Shift
  <1>5. e.seq = sequence + 1 /\ e.time = now
    BY <1>1 DEF e
  <1> QED BY <1>2, <1>3, <1>4, <1>5

-------------------------------------------------------------------------------
LEMMA InitTyped == Init => Typed
  BY EmptySeq DEF Init, Typed, StoredEvents

LEMMA NextTyped ==
  ASSUME Typed, [Next]_vars
  PROVE  Typed'
  <1> USE DEF Typed
  <1>1. CASE Snapshot
    <2>1. events' \in Seq(StoredEvents) /\ dropped' \in Nat
      BY <1>1, ExpireShifts DEF Snapshot
    <2> QED BY <1>1, <2>1 DEF Snapshot, session, clock
  <1>2. CASE Tick
    BY <1>2 DEF Tick, store, session, LimitsAssumption
  <1>3. ASSUME NEW s \in Sessions, ReadBefore(s) PROVE Typed'
    BY <1>3 DEF ReadBefore, Goto, store, clock
  <1>4. ASSUME NEW s \in Sessions, NEW full \in Sizes, NEW bare \in Sizes,
               Capture(s, full, bare)
        PROVE  Typed'
    <2>1. events' \in Seq(StoredEvents) /\ dropped' \in Nat
      BY <1>4, CaptureShifts
    <2> QED BY <1>4, <2>1 DEF Capture, Captured, Goto, session, clock
  <1>5. ASSUME NEW s \in Sessions, NEW full \in Sizes, NEW bare \in Sizes,
               CaptureOversize(s, full, bare)
        PROVE  Typed'
    <2>1. events' \in Seq(StoredEvents) /\ dropped' \in Nat
      BY <1>5, ExpireShifts DEF CaptureOversize
    <2>2. Captured(s)
      BY <1>5 DEF CaptureOversize
    <2> QED BY <2>1, <2>2 DEF Captured, Goto, session, clock
  <1>6. ASSUME NEW s \in Sessions, CaptureThrows(s) PROVE Typed'
    <2>1. events' \in Seq(StoredEvents) /\ dropped' \in Nat /\ sequence' \in Nat
      <3>1. PICK k \in 0..Len(events) :
              events' \in Seq(StoredEvents) /\ dropped' = dropped + k
        BY <1>6, ThrowShifts
      <3>2. sequence' \in {sequence, sequence + 1}
        BY <1>6, ThrowShifts
      <3> QED BY <3>1, <3>2
    <2> QED BY <1>6, <2>1 DEF CaptureThrows, Goto, session, clock
  <1>7. ASSUME NEW s \in Sessions, CountFailure(s) PROVE Typed'
    BY <1>7 DEF CountFailure, Goto, store, session, clock
  <1>8. ASSUME NEW s \in Sessions, ReadAfter(s) PROVE Typed'
    <2>1. Append(errors[s], <<before[s], failures>>) \in Seq(Nat \X Nat)
      BY AppendProperties
    <2>2. errors' \in [Sessions -> Seq(Nat \X Nat)]
      BY <1>8, <2>1 DEF ReadAfter
    <2>3. errorsDropped' \in [Sessions -> Nat]
      BY <1>8 DEF ReadAfter
    <2> QED BY <1>8, <2>2, <2>3 DEF ReadAfter, Goto, store, clock
  <1>9. CASE UNCHANGED vars
    BY <1>9 DEF vars, store, session, clock
  <1> QED
    BY <1>1, <1>2, <1>3, <1>4, <1>5, <1>6, <1>7, <1>8, <1>9 DEF Next, Step

LEMMA AlwaysTyped == Spec => []Typed
  BY InitTyped, NextTyped, PTL DEF Spec

-------------------------------------------------------------------------------
(* A session enters or leaves the handler of capture.                      *)
LEMMA FailingSet ==
  ASSUME Typed
  PROVE  /\ IsFiniteSet(Failing) /\ Cardinality(Failing) \in Nat
         /\ \A s \in Sessions \ Failing :
              Cardinality(Failing \cup {s}) = Cardinality(Failing) + 1
         /\ \A s \in Failing : Cardinality(Failing \ {s}) = Cardinality(Failing) - 1
  <1>1. IsFiniteSet(Failing)
    BY SessionsAssumption, FS_Subset DEF Failing
  <1>2. Cardinality(Failing) \in Nat
    BY <1>1, FS_CardinalityType
  <1>3. ASSUME NEW s \in Sessions \ Failing
        PROVE  Cardinality(Failing \cup {s}) = Cardinality(Failing) + 1
    BY <1>1, FS_AddElement
  <1>4. ASSUME NEW s \in Failing
        PROVE  Cardinality(Failing \ {s}) = Cardinality(Failing) - 1
    BY <1>1, FS_RemoveElement
  <1> QED BY <1>1, <1>2, <1>3, <1>4

LEMMA InitAccounted == Init => LossAccounted
  <1> SUFFICES ASSUME Init PROVE LossAccounted
    OBVIOUS
  <1>1. Failing = {}
    BY DEF Init, Failing
  <1> QED BY <1>1, EmptySeq, FS_EmptySet DEF Init, LossAccounted

LEMMA NextAccounted ==
  ASSUME Typed, LossAccounted, [Next]_vars
  PROVE  LossAccounted'
  <1> USE DEF LossAccounted
  <1>0. /\ Len(events) \in Nat /\ dropped \in Nat /\ failures \in Nat
        /\ captures \in Nat /\ Cardinality(Failing) \in Nat
    BY FailingSet, LenProperties DEF Typed
  <1>1. CASE Snapshot
    <2>0. PICK k \in 0..Len(events) : Shift(k, 0) /\ dropped' = dropped + k + 0
      BY <1>1, ExpireShifts DEF Snapshot
    <2>1. Len(events') = Len(events) - k /\ dropped' = dropped + k
      BY <2>0, <1>0 DEF Shift
    <2>2. Failing' = Failing /\ UNCHANGED <<captures, failures>>
      BY <1>1 DEF Snapshot, Failing
    <2> QED BY <1>0, <2>1, <2>2
  <1>2. CASE Tick
    BY <1>2 DEF Tick, store, Failing
  <1>3. ASSUME NEW s \in Sessions, ReadBefore(s) \/ ReadAfter(s)
        PROVE  LossAccounted'
    <2>1. Failing' = Failing
      BY <1>3 DEF ReadBefore, ReadAfter, Goto, Failing, Typed
    <2>2. UNCHANGED <<events, dropped, failures, captures>>
      BY <1>3 DEF ReadBefore, ReadAfter, store
    <2> QED BY <2>1, <2>2
  <1>4. ASSUME NEW s \in Sessions, NEW full \in Sizes, NEW bare \in Sizes,
               Capture(s, full, bare)
        PROVE  LossAccounted'
    <2>1. PICK k \in 0..Len(events) :
            Len(events') = Len(events) - k + 1 /\ dropped' = dropped + k
      BY <1>4, <1>0, CaptureShifts DEF Shift
    <2>2. Failing' = Failing /\ failures' = failures /\ captures' = captures + 1
      BY <1>4 DEF Capture, Captured, Goto, Failing, Typed
    <2> QED BY <1>0, <2>1, <2>2
  <1>5. ASSUME NEW s \in Sessions, NEW full \in Sizes, NEW bare \in Sizes,
               CaptureOversize(s, full, bare)
        PROVE  LossAccounted'
    <2>1. Captured(s) /\ Expire(1)
      BY <1>5 DEF CaptureOversize
    <2>0. PICK k \in 0..Len(events) : Shift(k, 0) /\ dropped' = dropped + k + 1
      BY <2>1, ExpireShifts
    <2>2. Len(events') = Len(events) - k /\ dropped' = dropped + k + 1
      BY <2>0, <1>0 DEF Shift
    <2>3. Failing' = Failing /\ failures' = failures /\ captures' = captures + 1
      BY <2>1 DEF Captured, Goto, Failing, Typed
    <2> QED BY <1>0, <2>2, <2>3
  <1>6. ASSUME NEW s \in Sessions, CaptureThrows(s) PROVE LossAccounted'
    <2>1. PICK k \in 0..Len(events) :
            Len(events') = Len(events) - k /\ dropped' = dropped + k
      BY <1>0, <1>6, ThrowShifts DEF Shift
    <2>2. Failing' = Failing \cup {s} /\ s \notin Failing
      BY <1>6 DEF CaptureThrows, Goto, Failing, Typed
    <2>3. Cardinality(Failing') = Cardinality(Failing) + 1
      BY <2>2, FailingSet
    <2>4. failures' = failures /\ captures' = captures + 1
      BY <1>6 DEF CaptureThrows
    <2> QED BY <1>0, <2>1, <2>3, <2>4
  <1>7. ASSUME NEW s \in Sessions, CountFailure(s) PROVE LossAccounted'
    <2>1. Failing' = Failing \ {s} /\ s \in Failing
      BY <1>7 DEF CountFailure, Goto, Failing, Typed
    <2>2. Cardinality(Failing') = Cardinality(Failing) - 1
      BY <2>1, FailingSet
    <2>3. failures' = failures + 1 /\ UNCHANGED <<events, dropped, captures>>
      BY <1>7 DEF CountFailure, store
    <2> QED BY <1>0, <2>2, <2>3
  <1>8. CASE UNCHANGED vars
    BY <1>8 DEF vars, store, Failing
  <1> QED BY <1>1, <1>2, <1>3, <1>4, <1>5, <1>6, <1>7, <1>8 DEF Next, Step

(* Whatever the limits, the host's clock and the interleaving: captured    *)
(* events are kept or counted as lost (capture, expire, dropFront).        *)
THEOREM EveryLossCounted == Spec => []LossAccounted
  BY InitAccounted, NextAccounted, AlwaysTyped, PTL DEF Spec

-------------------------------------------------------------------------------
(* What a session owes: a failed capture that it has not reported yet is   *)
(* the one in progress, and once counted it shows against `before`.        *)
Settled(s) == Len(errors[s]) + errorsDropped[s] >= lost[s]
Owes(s)    == Len(errors[s]) + errorsDropped[s] + 1 >= lost[s]

Owed ==
  \A s \in Sessions :
    /\ before[s] <= failures
    /\ pc[s] \in {"idle", "capture"} => Settled(s)
    /\ pc[s] = "failing" => Owes(s)
    /\ pc[s] = "after" => Settled(s) \/ (Owes(s) /\ failures > before[s])

LEMMA InitOwed == Init => Owed
  BY EmptySeq DEF Init, Owed, Settled

LEMMA NextOwed ==
  ASSUME Typed, Owed, [Next]_vars
  PROVE  Owed'
  <1> DEFINE Ok(t) ==
        /\ before[t] <= failures
        /\ pc[t] \in {"idle", "capture"} => Settled(t)
        /\ pc[t] = "failing" => Owes(t)
        /\ pc[t] = "after" => Settled(t) \/ (Owes(t) /\ failures > before[t])
  <1>0. \A t \in Sessions : /\ Ok(t) /\ before[t] \in Nat /\ failures \in Nat
                            /\ Len(errors[t]) \in Nat /\ errorsDropped[t] \in Nat
                            /\ lost[t] \in Nat
    BY LenProperties DEF Owed, Typed
  <1>1. CASE Snapshot \/ Tick \/ UNCHANGED vars
    <2>1. UNCHANGED <<pc, before, errors, errorsDropped, lost, failures>>
      BY <1>1 DEF Snapshot, Tick, vars, session
    <2> QED BY <2>1, <1>0 DEF Owed, Settled, Owes
  <1>2. ASSUME NEW s \in Sessions, ReadBefore(s) PROVE Owed'
    <2>1. UNCHANGED <<errors, errorsDropped, lost, failures>>
      BY <1>2 DEF ReadBefore
    <2>2. /\ pc[s] = "idle" /\ pc'[s] = "capture" /\ before'[s] = failures
          /\ \A t \in Sessions \ {s} : pc'[t] = pc[t] /\ before'[t] = before[t]
      BY <1>2 DEF ReadBefore, Goto, Typed
    <2>3. Ok(s)'
      BY <2>1, <2>2, <1>0 DEF Settled
    <2>4. \A t \in Sessions \ {s} : Ok(t)'
      BY <2>1, <2>2, <1>0 DEF Settled, Owes
    <2> QED BY <2>3, <2>4 DEF Owed
  <1>3. ASSUME NEW s \in Sessions, Captured(s) PROVE Owed'
    <2>1. UNCHANGED <<before, errors, errorsDropped, lost, failures>>
      BY <1>3 DEF Captured, session
    <2>2. /\ pc[s] = "capture" /\ pc'[s] = "after"
          /\ \A t \in Sessions \ {s} : pc'[t] = pc[t]
      BY <1>3 DEF Captured, Goto, Typed
    <2>3. Ok(s)'
      BY <2>1, <2>2, <1>0 DEF Settled
    <2>4. \A t \in Sessions \ {s} : Ok(t)'
      BY <2>1, <2>2, <1>0 DEF Settled, Owes
    <2> QED BY <2>3, <2>4 DEF Owed
  <1>4. ASSUME NEW s \in Sessions, CaptureThrows(s) PROVE Owed'
    <2>1. UNCHANGED <<before, errors, errorsDropped, failures>>
      BY <1>4 DEF CaptureThrows, session
    <2>2. /\ pc[s] = "capture" /\ pc'[s] = "failing" /\ lost'[s] = lost[s] + 1
          /\ \A t \in Sessions \ {s} : pc'[t] = pc[t] /\ lost'[t] = lost[t]
      BY <1>4 DEF CaptureThrows, Goto, Typed
    <2>3. Ok(s)'
      BY <2>1, <2>2, <1>0 DEF Settled, Owes
    <2>4. \A t \in Sessions \ {s} : Ok(t)'
      BY <2>1, <2>2, <1>0 DEF Settled, Owes
    <2> QED BY <2>3, <2>4 DEF Owed
  <1>5. ASSUME NEW s \in Sessions, CountFailure(s) PROVE Owed'
    <2>1. UNCHANGED <<before, errors, errorsDropped, lost>> /\ failures' = failures + 1
      BY <1>5 DEF CountFailure, session
    <2>2. /\ pc[s] = "failing" /\ pc'[s] = "after"
          /\ \A t \in Sessions \ {s} : pc'[t] = pc[t]
      BY <1>5 DEF CountFailure, Goto, Typed
    <2>3. Ok(s)'
      BY <2>1, <2>2, <1>0 DEF Owes
    <2>4. \A t \in Sessions \ {s} : Ok(t)'
      BY <2>1, <2>2, <1>0 DEF Settled, Owes
    <2> QED BY <2>3, <2>4 DEF Owed
  <1>6. ASSUME NEW s \in Sessions, ReadAfter(s) PROVE Owed'
    <2>1. UNCHANGED <<before, lost, failures>>
      BY <1>6 DEF ReadAfter
    <2>2. /\ pc[s] = "after" /\ pc'[s] = "idle"
          /\ \A t \in Sessions \ {s} : /\ pc'[t] = pc[t]
                                       /\ errors'[t] = errors[t]
                                       /\ errorsDropped'[t] = errorsDropped[t]
      BY <1>6 DEF ReadAfter, Goto, Typed
    <2>3. CASE failures = before[s]
      <3>1. UNCHANGED <<errors, errorsDropped>>
        BY <1>6, <2>3, <1>0 DEF ReadAfter
      <3> QED BY <2>1, <2>2, <2>3, <3>1, <1>0 DEF Owed, Settled, Owes
    <2>4. CASE failures > before[s]
      <3>1. Len(errors'[s]) + errorsDropped'[s] = Len(errors[s]) + errorsDropped[s] + 1
        <4>1. CASE Len(errors[s]) < MaxErrors
          <5>1. errors'[s] = Append(errors[s], <<before[s], failures>>)
            BY <1>6, <2>4, <4>1, <1>0, LimitsAssumption DEF ReadAfter, Typed
          <5>2. errorsDropped' = errorsDropped
            BY <1>6, <2>4, <4>1, <1>0, LimitsAssumption DEF ReadAfter
          <5>3. Len(errors'[s]) = Len(errors[s]) + 1
            BY <5>1, AppendProperties DEF Typed
          <5> QED BY <5>2, <5>3, <1>0
        <4>2. CASE Len(errors[s]) >= MaxErrors
          <5>1. errors' = errors
            BY <1>6, <2>4, <4>2, <1>0, LimitsAssumption DEF ReadAfter
          <5>2. errorsDropped' = [errorsDropped EXCEPT ![s] = @ + 1]
            BY <1>6, <2>4, <4>2, <1>0, LimitsAssumption DEF ReadAfter
          <5>3. errorsDropped'[s] = errorsDropped[s] + 1
            BY <5>2 DEF Typed
          <5>4. Len(errors[s]) \in Nat /\ errorsDropped[s] \in Nat
            BY <1>0
          <5>5. errors'[s] = errors[s]
            BY <5>1
          <5> QED BY <5>3, <5>4, <5>5
        <4> QED BY <4>1, <4>2, <1>0, LimitsAssumption
      <3>2. Len(errors[s]) + errorsDropped[s] + 1 >= lost[s]
        BY <2>2, <1>0 DEF Settled, Owes
      <3>3. Ok(s)'
        BY <2>1, <2>2, <3>1, <3>2, <1>0 DEF Settled
      <3>4. \A t \in Sessions \ {s} : Ok(t)'
        BY <2>1, <2>2, <1>0 DEF Settled, Owes
      <3> QED BY <3>3, <3>4 DEF Owed
    <2> QED BY <2>3, <2>4, <1>0
  <1> QED
    BY <1>1, <1>2, <1>3, <1>4, <1>5, <1>6
    DEF Next, Step, Capture, CaptureOversize

(* A session whose capture failed always comes to list or count it, though *)
(* the counter it compares is shared and raised outside the mutex          *)
(* (captureTelemetry, the handler of capture).                             *)
THEOREM EveryFailureReported == Spec => []FailureReported
  <1>1. Owed => FailureReported
    BY DEF Owed, FailureReported, Settled
  <1> QED BY <1>1, InitOwed, NextOwed, AlwaysTyped, PTL DEF Spec

-------------------------------------------------------------------------------
(* The events are numbered and dated by what is past.                      *)
Past(e)  == e.seq <= sequence /\ (monotonic => e.time <= now)
Ordered  == (\A i \in DOMAIN events : Past(events[i])) /\ TimelineOrdered
Reported == \A i \in DOMAIN report.events :
              monotonic => report.at - report.events[i].time <= Retention

LEMMA EventFields ==
  ASSUME Typed
  PROVE  /\ Len(events) \in Nat /\ DOMAIN events = 1..Len(events)
         /\ \A i \in 1..Len(events) : events[i].seq \in Nat /\ events[i].time \in Nat
  <1>1. Len(events) \in Nat /\ DOMAIN events = 1..Len(events)
    BY LenProperties DEF Typed
  <1>2. \A i \in 1..Len(events) : events[i] \in StoredEvents
    BY ElementOfSeq DEF Typed
  <1> QED BY <1>1, <1>2 DEF StoredEvents

LEMMA InitOrdered == Init => Ordered /\ Reported
  BY EmptySeq DEF Init, Ordered, Reported, TimelineOrdered

(* Dropping at the front leaves the order as it is.                        *)
LEMMA ShiftOrdered ==
  ASSUME Typed, Typed', Ordered, NEW k \in 0..Len(events), Shift(k, 0),
         sequence' >= sequence, UNCHANGED clock
  PROVE  Ordered'
  <1>0. /\ Len(events) \in Nat /\ DOMAIN events = 1..Len(events)
        /\ \A i \in 1..Len(events) : events[i].seq \in Nat /\ events[i].time \in Nat
    BY EventFields
  <1>1. Len(events') = Len(events) - k /\ DOMAIN events' = 1..(Len(events) - k)
    BY <1>0, LenProperties DEF Shift, Typed
  <1>2. \A i \in DOMAIN events' : events'[i] = events[k + i] /\ k + i \in DOMAIN events
    BY <1>0, <1>1 DEF Shift
  <1>3. \A i \in DOMAIN events' : Past(events[i])'
    <2> TAKE i \in DOMAIN events'
    <2>1. Past(events[k + i]) /\ k + i \in 1..Len(events)
      BY <1>0, <1>2 DEF Ordered
    <2>2. sequence \in Nat /\ sequence' \in Nat /\ events[k + i].seq \in Nat
      BY <1>0, <2>1 DEF Typed
    <2> QED BY <1>2, <2>1, <2>2 DEF Past, clock
  <1>4. TimelineOrdered'
    <2> SUFFICES ASSUME NEW i \in DOMAIN events', NEW j \in DOMAIN events', i < j
                 PROVE  /\ events'[i].seq < events'[j].seq
                        /\ monotonic => events'[i].time <= events'[j].time
      BY DEF TimelineOrdered, clock
    <2>1. k + i < k + j
      BY <1>1
    <2> QED BY <1>2, <2>1 DEF Ordered, TimelineOrdered
  <1> QED BY <1>3, <1>4 DEF Ordered

(* An event stored behind them is newer than all.                          *)
LEMMA StoreOrdered ==
  ASSUME Typed, Typed', Ordered, NEW k \in 0..Len(events), Shift(k, 1),
         events'[Len(events')].seq = sequence', events'[Len(events')].time = now,
         sequence' = sequence + 1, UNCHANGED clock
  PROVE  Ordered'
  <1>0. /\ Len(events) \in Nat /\ DOMAIN events = 1..Len(events)
        /\ \A i \in 1..Len(events) : events[i].seq \in Nat /\ events[i].time \in Nat
    BY EventFields
  <1>1. Len(events') = Len(events) - k + 1 /\ DOMAIN events' = 1..(Len(events) - k + 1)
    BY <1>0, LenProperties DEF Shift, Typed
  <1>2. \A i \in 1..(Len(events) - k) :
          events'[i] = events[k + i] /\ k + i \in DOMAIN events
    BY <1>0 DEF Shift
  <1>3. \A i \in 1..(Len(events) - k) : Past(events'[i])
    BY <1>2 DEF Ordered
  <1>4. \A i \in 1..(Len(events) - k) :
          /\ events'[i].seq < sequence'
          /\ monotonic => events'[i].time <= now
    <2> TAKE i \in 1..(Len(events) - k)
    <2>1. sequence \in Nat /\ events'[i].seq \in Nat
      BY <1>0, <1>2 DEF Typed
    <2> QED BY <1>3, <2>1 DEF Past
  <1>5. \A i \in DOMAIN events' : Past(events[i])'
    <2> TAKE i \in DOMAIN events'
    <2>1. CASE i = Len(events')
      BY <2>1 DEF Past, Typed, clock
    <2>2. CASE i # Len(events')
      <3>1. i \in 1..(Len(events) - k)
        BY <1>0, <1>1, <2>2
      <3>2. sequence \in Nat /\ events'[i].seq \in Nat
        BY <1>0, <1>2, <3>1 DEF Typed
      <3> QED BY <1>4, <3>1, <3>2 DEF Past, clock
    <2> QED BY <2>1, <2>2
  <1>6. TimelineOrdered'
    <2> SUFFICES ASSUME NEW i \in DOMAIN events', NEW j \in DOMAIN events', i < j
                 PROVE  /\ events'[i].seq < events'[j].seq
                        /\ monotonic => events'[i].time <= events'[j].time
      BY DEF TimelineOrdered, clock
    <2>1. i \in 1..(Len(events) - k)
      BY <1>0, <1>1
    <2>2. CASE j = Len(events')
      BY <1>4, <2>1, <2>2
    <2>3. CASE j # Len(events')
      <3>1. j \in 1..(Len(events) - k) /\ k + i < k + j
        BY <1>0, <1>1, <2>1, <2>3
      <3> QED BY <1>2, <2>1, <3>1 DEF Ordered, TimelineOrdered
    <2> QED BY <2>2, <2>3
  <1> QED BY <1>5, <1>6 DEF Ordered

LEMMA NextOrdered ==
  ASSUME Typed, Typed', Ordered, [Next]_vars
  PROVE  Ordered'
  <1>0. sequence \in Nat /\ now \in Nat
    BY DEF Typed
  <1>1. CASE Snapshot
    <2>1. PICK k \in 0..Len(events) : Shift(k, 0)
      BY <1>1, ExpireShifts DEF Snapshot
    <2> QED BY <1>0, <1>1, <2>1, ShiftOrdered DEF Snapshot
  <1>2. CASE Tick
    <2>1. UNCHANGED <<events, sequence>> /\ (monotonic' => monotonic /\ now' >= now)
      BY <1>0, <1>2, LimitsAssumption DEF Tick, store
    <2>2. \A i \in DOMAIN events : Past(events[i])'
      <3> TAKE i \in DOMAIN events
      <3>1. Past(events[i]) /\ events[i].time \in Nat /\ now' \in Nat
        BY EventFields DEF Ordered, Typed
      <3> QED BY <1>0, <2>1, <3>1 DEF Past
    <2> QED BY <2>1, <2>2 DEF Ordered, TimelineOrdered
  <1>3. ASSUME NEW s \in Sessions, ReadBefore(s) \/ ReadAfter(s) \/ CountFailure(s)
        PROVE  Ordered'
    <2>1. UNCHANGED <<events, sequence, clock>>
      BY <1>3 DEF ReadBefore, ReadAfter, CountFailure, store
    <2> QED BY <2>1 DEF Ordered, TimelineOrdered, Past, clock
  <1>4. ASSUME NEW s \in Sessions, NEW full \in Sizes, NEW bare \in Sizes,
               Capture(s, full, bare)
        PROVE  Ordered'
    <2>1. PICK k \in 0..Len(events) :
            /\ Shift(k, 1)
            /\ events'[Len(events')].seq = sequence + 1
            /\ events'[Len(events')].time = now
      BY <1>4, CaptureShifts
    <2>2. sequence' = sequence + 1 /\ UNCHANGED clock
      BY <1>4 DEF Capture, Captured
    <2> QED BY <2>1, <2>2, StoreOrdered
  <1>5. ASSUME NEW s \in Sessions, NEW full \in Sizes, NEW bare \in Sizes,
               CaptureOversize(s, full, bare)
        PROVE  Ordered'
    <2>1. Captured(s) /\ Expire(1)
      BY <1>5 DEF CaptureOversize
    <2>2. PICK k \in 0..Len(events) : Shift(k, 0)
      BY <2>1, ExpireShifts
    <2>3. sequence' >= sequence /\ UNCHANGED clock
      BY <1>0, <2>1 DEF Captured
    <2> QED BY <2>2, <2>3, ShiftOrdered
  <1>6. ASSUME NEW s \in Sessions, CaptureThrows(s) PROVE Ordered'
    <2>1. PICK k \in 0..Len(events) : Shift(k, 0)
      BY <1>6, ThrowShifts
    <2>2. sequence' \in {sequence, sequence + 1} /\ UNCHANGED clock
      <3>1. UNCHANGED clock
        BY <1>6 DEF CaptureThrows
      <3> QED BY <1>6, <3>1, ThrowShifts
    <2>3. sequence' >= sequence
      BY <1>0, <2>2
    <2> QED BY <2>1, <2>2, <2>3, ShiftOrdered
  <1>7. CASE UNCHANGED vars
    BY <1>7 DEF vars, store, Ordered, TimelineOrdered, Past, clock
  <1> QED BY <1>1, <1>2, <1>3, <1>4, <1>5, <1>6, <1>7 DEF Next, Step

(* The events left after expire are fresh, because the first of them is    *)
(* and none is older than the first.                                       *)
LEMMA NextReported ==
  ASSUME Typed, Typed', Ordered, Reported, [Next]_vars
  PROVE  Reported'
  <1>0. /\ Len(events) \in Nat /\ DOMAIN events = 1..Len(events) /\ now \in Nat
        /\ \A i \in 1..Len(events) : events[i].seq \in Nat /\ events[i].time \in Nat
    BY EventFields DEF Typed
  <1>1. CASE Snapshot
    <2>1. PICK k \in 0..Len(events) : Shift(k, 0) /\ Expires(k)
      BY <1>1, ExpireShifts DEF Snapshot
    <2>2. Len(events') = Len(events) - k /\ DOMAIN events' = 1..(Len(events) - k)
      BY <1>0, <2>1, LenProperties DEF Shift, Typed
    <2> SUFFICES ASSUME NEW i \in DOMAIN events', monotonic
                 PROVE  now - events'[i].time <= Retention
      BY <1>1 DEF Snapshot, Reported, clock
    <2>3. events'[i] = events[k + i] /\ k + 1 \in DOMAIN events /\ k + i \in DOMAIN events
      BY <1>0, <2>1, <2>2 DEF Shift
    <2>4. ~Old(events[k + 1])
      BY <1>0, <2>1, <2>3 DEF Expires
    <2>5. events[k + 1].time <= now
      BY <2>3 DEF Ordered, Past
    <2>6. now - events[k + 1].time <= Retention
      BY <1>0, <2>3, <2>4, <2>5, LimitsAssumption DEF Old
    <2>7. events[k + 1].time <= events[k + i].time
      <3>1. CASE i = 1
        BY <1>0, <2>3, <3>1
      <3>2. CASE i # 1
        <4>1. k + 1 < k + i
          BY <1>0, <2>2, <3>2
        <4> QED BY <2>3, <4>1 DEF Ordered, TimelineOrdered
      <3> QED BY <3>1, <3>2
    <2> QED BY <1>0, <2>3, <2>6, <2>7, LimitsAssumption
  <1>2. CASE ~Snapshot
    <2>1. report' = report /\ (monotonic' => monotonic)
      <3>1. CASE Tick
        BY <3>1 DEF Tick
      <3>2. ASSUME NEW s \in Sessions, Step(s)
            PROVE  report' = report /\ UNCHANGED clock
        BY <3>2 DEF Step, ReadBefore, Capture, CaptureOversize, Captured,
                    CaptureThrows, CountFailure, ReadAfter
      <3>3. CASE UNCHANGED vars
        BY <3>3 DEF vars, clock
      <3> QED BY <1>2, <3>1, <3>2, <3>3 DEF Next, clock
    <2> QED BY <2>1 DEF Reported
  <1> QED BY <1>1, <1>2

(* The timeline of the collector is in the order of the captures.          *)
THEOREM TimelineStaysOrdered == Spec => []TimelineOrdered
  <1>1. Ordered => TimelineOrdered
    BY DEF Ordered
  <1> QED BY <1>1, InitOrdered, NextOrdered, AlwaysTyped, PTL DEF Spec

(* A snapshot holds no event that is past its retention time.              *)
THEOREM ReportsAreFresh == Spec => []ReportFresh
  <1>1. Reported => ReportFresh
    BY DEF Reported, ReportFresh
  <1> QED
    BY <1>1, InitOrdered, NextOrdered, NextReported, AlwaysTyped, PTL DEF Spec

(* The timeline that snapshots show is in order and within the retention   *)
(* time.                                                                   *)
THEOREM TimelineStaysHonest == Spec => []TimelineHonest
  BY TimelineStaysOrdered, ReportsAreFresh, PTL DEF TimelineHonest

-------------------------------------------------------------------------------
(* The bytes of some events, by their running totals.                      *)
Totals(R, q) ==
  R[0] = 0 /\ \A m \in 1..Len(q) : R[m] = R[m - 1] + q[m].bytes

LEMMA TotalsExist ==
  ASSUME NEW q \in Seq(StoredEvents)
  PROVE  \E R \in [0..Len(q) -> Nat] : Totals(R, q) /\ Bytes(q) = R[Len(q)]
  <1> DEFINE n == Len(q)
             F == [p \in Nat \X (1..n) |-> p[1] + q[p[2]].bytes]
             Rule(h) == [t \in SUBSET (1..n) |->
                           IF t = {} THEN 0 ELSE h[t \ {Max(t)}] + q[Max(t)].bytes]
             iter == CHOOSE h : h = Rule(h)
             R == [m \in 0..n |-> iter[1..m]]
  <1>1. n \in Nat /\ DOMAIN q = 1..n /\ \A i \in 1..n : q[i].bytes \in Nat
    <2>1. Len(q) \in Nat /\ DOMAIN q = 1..Len(q)
      BY LenProperties
    <2>2. \A i \in 1..Len(q) : q[i] \in StoredEvents
      BY ElementOfSeq
    <2> QED BY <2>1, <2>2 DEF StoredEvents
  <1>2. F \in [Nat \X (1..n) -> Nat]
    <2>1. \A p \in Nat \X (1..n) : p[1] + q[p[2]].bytes \in Nat
      <3> HIDE DEF n
      <3> QED BY <1>1
    <2> HIDE DEF n
    <2> QED BY <2>1
  <1>3. Bytes(q) = iter[1..n]
    BY <1>1 DEF Bytes, FoldLeft, MapThenFoldSet
  <1>4. PICK g \in [SUBSET (1..n) -> Nat] : IsFold(g, 0, n, F)
    <2> HIDE DEF n, F
    <2> QED BY <1>1, <1>2, FoldExists
  <1>5. g = Rule(g)
    <2>1. ASSUME NEW t \in SUBSET (1..n), t # {}
          PROVE  g[t] = g[t \ {Max(t)}] + q[Max(t)].bytes
      <3>1. Max(t) \in 1..n /\ g[t \ {Max(t)}] \in Nat
        <4> HIDE DEF n
        <4> QED BY <1>1, <2>1, MaxInside
      <3> HIDE DEF n
      <3> QED BY <1>4, <2>1, <3>1 DEF IsFold
    <2> HIDE DEF n, F
    <2> QED BY <1>4, <2>1 DEF IsFold
  <1>6. iter = Rule(iter)
    <2> HIDE DEF Rule
    <2> QED BY <1>5
  <1>7. iter[{}] = 0 /\ \A m \in 1..n : iter[1..m] = iter[1..(m - 1)] + q[m].bytes
    <2> HIDE DEF n, iter
    <2>1. {} \in SUBSET (1..n) /\ \A m \in 1..n : 1..m \in SUBSET (1..n)
      BY <1>1
    <2>2. \A t \in SUBSET (1..n) :
            iter[t] = IF t = {} THEN 0 ELSE iter[t \ {Max(t)}] + q[Max(t)].bytes
      BY <1>6, Zenon
    <2>3. \A m \in 1..n : m \in Nat \ {0}
      BY <1>1
    <2> QED BY <2>1, <2>2, <2>3, IntervalStep
  <1>8. \A m \in 0..n : iter[1..m] \in Nat
    <2>1. FoldsBy(iter, Nat, 0, n, F)
      <3> HIDE DEF iter
      <3> QED BY <1>7 DEF FoldsBy
    <2> HIDE DEF n, F, iter
    <2> QED BY <1>1, <1>2, <2>1, FoldStays
  <1>9. R \in [0..n -> Nat]
    <2> HIDE DEF n, iter
    <2> QED BY <1>8
  <1>10. Totals(R, q) /\ Bytes(q) = R[n]
    <2>1. 1..0 = {}
      OBVIOUS
    <2> HIDE DEF n, iter
    <2>2. R[0] = iter[1..0] /\ R[n] = iter[1..n]
      BY <1>1
    <2>3. \A m \in 1..n : R[m] = R[m - 1] + q[m].bytes
      BY <1>1, <1>7
    <2> QED BY <1>3, <1>7, <2>1, <2>2, <2>3 DEF Totals, n
  <1> HIDE DEF R
  <1> QED BY <1>9, <1>10

(* Any running totals end at the bytes.                                    *)
LEMMA TotalsEnd ==
  ASSUME NEW q \in Seq(StoredEvents), NEW R \in [0..Len(q) -> Int], Totals(R, q)
  PROVE  Bytes(q) = R[Len(q)]
  <1>1. Len(q) \in Nat
    BY LenProperties
  <1>2. PICK P \in [0..Len(q) -> Nat] : Totals(P, q) /\ Bytes(q) = P[Len(q)]
    BY TotalsExist
  <1> DEFINE T == {m \in Nat : m <= Len(q) => P[m] = R[m]}
  <1>3. 0 \in T
    BY <1>1, <1>2 DEF Totals
  <1>4. ASSUME NEW m \in Nat, m \in T PROVE m + 1 \in T
    <2> SUFFICES ASSUME m + 1 <= Len(q) PROVE P[m + 1] = R[m + 1]
      OBVIOUS
    <2>1. m + 1 \in 1..Len(q) /\ (m + 1) - 1 = m /\ P[m] = R[m]
      BY <1>1, <1>4
    <2> QED BY <1>2, <2>1 DEF Totals
  <1>5. Nat \subseteq T
    <2> HIDE DEF T
    <2> QED BY <1>3, <1>4, SetInduction
  <1> QED BY <1>1, <1>2, <1>5

(* One more event adds its bytes, and the bytes of all are those of the    *)
(* first k and those of the rest.                                          *)
LEMMA BytesAppend ==
  ASSUME NEW q \in Seq(StoredEvents), NEW e \in StoredEvents
  PROVE  Bytes(Append(q, e)) = Bytes(q) + e.bytes
  <1> DEFINE n == Len(q)
             r == Append(q, e)
  <1>1. n \in Nat
    BY LenProperties
  <1>2. PICK P \in [0..n -> Nat] : Totals(P, q) /\ Bytes(q) = P[n]
    BY TotalsExist
  <1>3. /\ r \in Seq(StoredEvents) /\ Len(r) = n + 1
        /\ (\A i \in 1..n : r[i] = q[i]) /\ r[n + 1] = e
    BY AppendProperties
  <1>4. e.bytes \in Nat
    BY DEF StoredEvents
  <1> DEFINE R == [m \in 0..(n + 1) |-> IF m = n + 1 THEN P[n] + e.bytes ELSE P[m]]
  <1> HIDE DEF n, r
  <1>5. R \in [0..(n + 1) -> Int]
    BY <1>1, <1>2, <1>4
  <1>6. R[0] = P[0] /\ R[n + 1] = P[n] + e.bytes /\ \A m \in 0..n : R[m] = P[m]
    BY <1>1
  <1> HIDE DEF R
  <1>7. Totals(R, r)
    <2> SUFFICES ASSUME NEW m \in 1..(n + 1) PROVE R[m] = R[m - 1] + r[m].bytes
      BY <1>2, <1>3, <1>6 DEF Totals
    <2>1. CASE m = n + 1
      BY <1>1, <1>3, <1>6, <2>1
    <2>2. CASE m # n + 1
      <3>1. m \in 1..n /\ m \in 0..n /\ m - 1 \in 0..n
        BY <1>1, <2>2
      <3>2. P[m] = P[m - 1] + q[m].bytes
        BY <1>2, <3>1 DEF Totals, n
      <3> QED BY <1>3, <1>6, <3>1, <3>2
    <2> QED BY <2>1, <2>2
  <1>8. Bytes(r) = R[n + 1]
    BY <1>3, <1>5, <1>7, TotalsEnd
  <1> QED BY <1>2, <1>6, <1>8 DEF r

LEMMA BytesParted ==
  ASSUME NEW q \in Seq(StoredEvents), NEW k \in 0..Len(q)
  PROVE  /\ Bytes(q) \in Nat /\ Bytes(SubSeq(q, 1, k)) \in Nat
         /\ Bytes(q) = Bytes(SubSeq(q, 1, k)) + Bytes(SubSeq(q, k + 1, Len(q)))
  <1> DEFINE n == Len(q)
             front == SubSeq(q, 1, k)
             rest == SubSeq(q, k + 1, n)
  <1>1. n \in Nat /\ k \in 0..n /\ \A i \in 1..n : q[i] \in StoredEvents
    BY LenProperties, ElementOfSeq
  <1>2. PICK P \in [0..n -> Nat] : Totals(P, q) /\ Bytes(q) = P[n]
    BY TotalsExist
  <1>3. /\ front \in Seq(StoredEvents) /\ Len(front) = k
        /\ \A i \in 1..k : front[i] = q[i]
    BY <1>1, SubSeqProperties
  <1>4. /\ rest \in Seq(StoredEvents) /\ Len(rest) = n - k
        /\ \A i \in 1..(n - k) : rest[i] = q[k + i]
    BY <1>1, SubSeqProperties
  <1>5. P[0] = 0 /\ \A m \in 1..n : P[m] = P[m - 1] + q[m].bytes
    BY <1>2 DEF Totals
  <1> HIDE DEF n, front, rest
  <1> DEFINE R == [m \in 0..k |-> P[m]]
             S == [m \in 0..(n - k) |-> P[k + m] - P[k]]
  <1>6. Bytes(front) = P[k]
    <2>1. R \in [0..k -> Int] /\ R[k] = P[k]
      BY <1>1, <1>2
    <2>2. Totals(R, front)
      <3>1. R[0] = P[0] /\ \A m \in 0..k : R[m] = P[m]
        BY <1>1
      <3>2. \A m \in 1..k : m \in 1..n /\ m \in 0..k /\ m - 1 \in 0..k
        BY <1>1
      <3> HIDE DEF R
      <3> QED BY <1>3, <1>5, <3>1, <3>2 DEF Totals
    <2> HIDE DEF R
    <2> QED BY <1>3, <2>1, <2>2, TotalsEnd
  <1>7. Bytes(rest) = P[n] - P[k]
    <2>1. S \in [0..(n - k) -> Int] /\ S[n - k] = P[n] - P[k]
      BY <1>1, <1>2
    <2>2. Totals(S, rest)
      <3>1. S[0] = 0
        BY <1>1, <1>2
      <3>2. ASSUME NEW m \in 1..(n - k) PROVE S[m] = S[m - 1] + rest[m].bytes
        <4>1. /\ k + m \in 1..n /\ (k + m) - 1 = k + (m - 1) /\ m - 1 \in 0..(n - k) /\ m \in 0..(n - k)
              /\ k + m \in 0..n /\ k + (m - 1) \in 0..n /\ k \in 0..n
          BY <1>1
        <4>2. P[k + m] = P[k + (m - 1)] + rest[m].bytes
          BY <1>4, <1>5, <4>1
        <4>3. S[m] = P[k + m] - P[k] /\ S[m - 1] = P[k + (m - 1)] - P[k]
          BY <4>1
        <4>4. P[k + m] \in Nat /\ P[k + (m - 1)] \in Nat /\ P[k] \in Nat /\ rest[m].bytes \in Nat
          BY <1>1, <1>2, <1>4, <4>1 DEF StoredEvents
        <4> HIDE DEF S
        <4> QED BY <4>2, <4>3, <4>4
      <3> HIDE DEF S
      <3> QED BY <1>4, <3>1, <3>2 DEF Totals
    <2> HIDE DEF S
    <2> QED BY <1>4, <2>1, <2>2, TotalsEnd
  <1>8. P[n] \in Nat /\ P[k] \in Nat
    BY <1>1, <1>2
  <1> QED BY <1>2, <1>6, <1>7, <1>8 DEF front, rest, n

-------------------------------------------------------------------------------
(* The running total follows the events, and both stay in their limits.    *)
Bounded == retainedBytes = Bytes(events) /\ retainedBytes <= MemoryBytes /\ Len(events) <= EventCount

(* With the first k events gone, what is held is the bytes of the rest.    *)
LEMMA HeldIsKept ==
  ASSUME Typed, Bounded, NEW k \in 0..Len(events)
  PROVE  /\ Held(k) = Bytes(Kept(k)) /\ Held(k) \in Nat /\ Held(k) <= MemoryBytes
         /\ Len(Kept(k)) = Len(events) - k /\ Kept(k) \in Seq(StoredEvents)
         /\ k = Len(events) => Held(k) = 0
  <1>1. /\ Bytes(events) \in Nat /\ Bytes(SubSeq(events, 1, k)) \in Nat
        /\ Bytes(events) = Bytes(SubSeq(events, 1, k)) + Bytes(Kept(k))
    BY BytesParted DEF Typed, Kept
  <1>2. Kept(k) \in Seq(StoredEvents) /\ Len(Kept(k)) = Len(events) - k
    BY KeptEvents DEF Typed
  <1>3. Bytes(Kept(k)) \in Nat
    <2>1. 0 \in 0..Len(Kept(k))
      BY <1>2, LenProperties
    <2> QED BY <1>2, <2>1, BytesParted
  <1>4. Held(k) = Bytes(Kept(k))
    BY <1>1, <1>3 DEF Held, Bounded
  <1>5. k = Len(events) => SubSeq(events, 1, k) = events
    <2> SUFFICES ASSUME k = Len(events) PROVE SubSeq(events, 1, Len(events)) = events
      OBVIOUS
    <2> QED BY LenProperties, SubSeqProperties DEF Typed
  <1>6. k = Len(events) => Held(k) = 0
    <2> SUFFICES ASSUME k = Len(events) PROVE Held(k) = 0
      OBVIOUS
    <2>1. Held(k) = Bytes(events) - Bytes(events)
      BY <1>5 DEF Held, Bounded
    <2> QED BY <1>1, <2>1
  <1> QED BY <1>1, <1>2, <1>3, <1>4, <1>6, LimitsAssumption DEF Held, Bounded

LEMMA LoseBounded ==
  ASSUME Typed, Bounded, NEW k \in 0..Len(events), NEW more, Lose(k, more)
  PROVE  Bounded'
  <1>1. events' = Kept(k) /\ retainedBytes' = Held(k)
    BY DEF Lose
  <1>2. Len(events) \in Nat /\ k \in Nat
    BY LenProperties DEF Typed
  <1> QED BY <1>1, <1>2, HeldIsKept, LimitsAssumption DEF Bounded

LEMMA CaptureBounded ==
  ASSUME Typed, Bounded, NEW s \in Sessions, NEW full \in Sizes, NEW bare \in Sizes,
         Capture(s, full, bare)
  PROVE  Bounded'
  <1> DEFINE bytes == Stored(full, bare)
             e == [seq |-> sequence', time |-> now, bytes |-> bytes]
  <1>1. PICK k \in 0..Len(events) :
          MakesRoom(k, bytes) /\ events' = Append(Kept(k), e) /\ retainedBytes' = Held(k) + bytes
    BY DEF Capture
  <1>2. bytes \in Nat /\ bytes <= EventBytes /\ e \in StoredEvents /\ e.bytes = bytes
    BY LimitsAssumption DEF Capture, Captured, Stored, StoredEvents, Typed
  <1>3. Len(events) \in Nat
    BY LenProperties DEF Typed
  <1> HIDE DEF bytes, e
  <1>4. ~Full(k, bytes)
    BY <1>1 DEF MakesRoom
  <1>5. /\ Held(k) = Bytes(Kept(k)) /\ Held(k) \in Nat
        /\ Len(Kept(k)) = Len(events) - k /\ Kept(k) \in Seq(StoredEvents)
        /\ k = Len(events) => Held(k) = 0
    BY HeldIsKept
  <1>6. /\ Len(events') = Len(events) - k + 1
        /\ Bytes(events') = Held(k) + bytes
    BY <1>1, <1>2, <1>5, AppendProperties, BytesAppend
  <1>7. Len(events) - k + 1 <= EventCount /\ Held(k) + bytes <= MemoryBytes
    <2>1. CASE k = Len(events)
      BY <1>2, <1>3, <1>5, <2>1, LimitsAssumption
    <2>2. CASE k # Len(events)
      <3>1. k < Len(events)
        BY <1>3, <2>2
      <3>2. ~(Len(events) - k >= EventCount) /\ ~(Held(k) + bytes > MemoryBytes)
        BY <1>4, <3>1 DEF Full
      <3> QED BY <1>2, <1>3, <1>5, <3>2, LimitsAssumption
    <2> QED BY <2>1, <2>2
  <1>8. Bounded' = (retainedBytes' = Bytes(events') /\ retainedBytes' <= MemoryBytes /\ Len(events') <= EventCount)
    BY DEF Bounded
  <1> QED BY <1>1, <1>6, <1>7, <1>8

LEMMA InitBounded == Init => Bounded
  <1> SUFFICES ASSUME Init PROVE Bounded
    OBVIOUS
  <1>1. events = <<>> /\ <<>> \in Seq(StoredEvents) /\ Len(<<>>) = 0 /\ retainedBytes = 0
    BY EmptySeq DEF Init
  <1>2. Bytes(<<>>) = 0
    <2>1. PICK R \in [0..Len(<<>>) -> Nat] : Totals(R, <<>>) /\ Bytes(<<>>) = R[Len(<<>>)]
      BY <1>1, TotalsExist
    <2> QED BY <1>1, <2>1 DEF Totals
  <1> QED BY <1>1, <1>2, LimitsAssumption DEF Bounded

LEMMA NextBounded ==
  ASSUME Typed, Bounded, [Next]_vars
  PROVE  Bounded'
  <1>1. ASSUME UNCHANGED store PROVE Bounded'
    BY <1>1 DEF store, Bounded
  <1>2. ASSUME NEW more, Expire(more) PROVE Bounded'
    BY <1>2, LoseBounded DEF Expire
  <1>3. CASE Snapshot
    BY <1>2, <1>3 DEF Snapshot
  <1>4. CASE Tick \/ UNCHANGED vars
    BY <1>1, <1>4 DEF Tick, vars
  <1>5. ASSUME NEW s \in Sessions, Step(s) PROVE Bounded'
    <2>1. CASE ReadBefore(s) \/ CountFailure(s) \/ ReadAfter(s)
      BY <1>1, <2>1 DEF ReadBefore, CountFailure, ReadAfter
    <2>2. CASE CaptureThrows(s)
      BY <1>1, <1>2, <2>2, LoseBounded DEF CaptureThrows
    <2>3. ASSUME NEW full \in Sizes, NEW bare \in Sizes, CaptureOversize(s, full, bare)
          PROVE  Bounded'
      BY <1>2, <2>3 DEF CaptureOversize
    <2> QED BY <1>5, <2>1, <2>2, <2>3, CaptureBounded DEF Step
  <1> QED BY <1>3, <1>4, <1>5 DEF Next

(* The collector never keeps more events or bytes than its limits allow,   *)
(* and the running total it decides by is the sum of the events' sizes,    *)
(* whatever events expire, are evicted or fail to be stored (capture,      *)
(* dropFront, expire).                                                     *)
THEOREM QueueStaysSound == Spec => []QueueSound
  <1>1. Typed /\ Bounded => QueueSound
    <2> SUFFICES ASSUME Typed, Bounded PROVE QueueSound
      OBVIOUS
    <2>1. retainedBytes \in Nat
      <3>1. 0 \in 0..Len(events)
        BY LenProperties DEF Typed
      <3> QED BY <3>1, BytesParted DEF Typed, Bounded
    <2> QED BY <2>1 DEF Typed, Bounded, QueueSound, TypeOK, MemoryBounded
  <1> QED BY <1>1, InitBounded, NextBounded, AlwaysTyped, PTL DEF Spec
===============================================================================
