--------------------------- MODULE DiagnosticCollector ---------------------------
(***************************************************************************)
(* The developer diagnostics: Collector (Diagnostics.cpp), a bounded store *)
(* of recent events shared by all sessions of a host, and the way a        *)
(* session finds out that one of its events was lost: captureTelemetry     *)
(* (NativeExecutionBindings.cpp) reads the failure counter before and      *)
(* after a capture.                                                        *)
(*                                                                         *)
(* A capture, a snapshot and a reading of the counters each hold the       *)
(* collector's mutex and are one step; only the failure counter is raised  *)
(* after the mutex was released.  Events are a sequence number, a time and *)
(* a size; the statistics of redacted and truncated fields are left out.   *)
(***************************************************************************)
EXTENDS Integers, Sequences, FiniteSets, SequencesExt

CONSTANTS
  Sessions,       \* those that share the collector
  EventCount,     \* limits_.eventCount
  EventBytes,     \* limits_.eventBytes
  MemoryBytes,    \* limits_.memoryBytes
  Retention,      \* limits_.retentionMilliseconds
  MaxErrors,      \* the losses a session lists (32); more are only counted
  Sizes,          \* the sizes events have, without and with their evidence
  MaxTime,        \* bound: the last time of the clock
  MaxCaptures     \* bound: the captures of a run

ASSUME LimitsAssumption ==
  /\ EventCount \in Nat \ {0} /\ EventBytes \in Nat \ {0}
  /\ MemoryBytes \in Nat /\ MemoryBytes >= EventBytes
  /\ Retention \in Nat \ {0} /\ MaxErrors \in Nat
  /\ Sizes \subseteq Nat \ {0}
  /\ MaxTime \in Nat /\ MaxCaptures \in Nat
ASSUME SessionsAssumption == IsFiniteSet(Sessions)

VARIABLES
  events, retainedBytes, sequence,  \* what the collector keeps
  dropped, failures,                \* what it lost
  now, monotonic,                   \* the clock; it has never stepped back
  pc, before,                       \* per session: progress, first reading
  errors, errorsDropped,            \* per session: the losses it reports
  captures, lost,                   \* history: captures done, and those of a
                                    \* session that failed
  report                            \* the last snapshot: its events and time

store   == <<events, retainedBytes, sequence>>
clock   == <<now, monotonic>>
session == <<before, errors, errorsDropped>>
vars    == <<store, dropped, failures, clock, pc, session, captures, lost, report>>

StoredEvents == [seq : Nat, time : Nat, bytes : Nat]

(* TypeOK: the types; the running total of the bytes kept does not wrap.  *)
TypeOK ==
  /\ events \in Seq(StoredEvents)
  /\ retainedBytes \in Nat /\ sequence \in Nat
  /\ dropped \in Nat /\ failures \in Nat
  /\ now \in Nat /\ monotonic \in BOOLEAN
  /\ pc \in [Sessions -> {"idle", "capture", "failing", "after"}]
  /\ before \in [Sessions -> Nat]
  /\ errors \in [Sessions -> Seq(Nat \X Nat)]
  /\ errorsDropped \in [Sessions -> Nat]
  /\ captures \in Nat /\ lost \in [Sessions -> Nat]
  /\ report \in [events : Seq(StoredEvents), at : Nat]

Init ==
  /\ events = <<>> /\ retainedBytes = 0 /\ sequence = 0
  /\ dropped = 0 /\ failures = 0 /\ now = 0 /\ monotonic = TRUE
  /\ pc = [s \in Sessions |-> "idle"]
  /\ before = [s \in Sessions |-> 0]
  /\ errors = [s \in Sessions |-> <<>>]
  /\ errorsDropped = [s \in Sessions |-> 0]
  /\ captures = 0 /\ lost = [s \in Sessions |-> 0]
  /\ report = [events |-> <<>>, at |-> 0]

-------------------------------------------------------------------------------
Bytes(q) == FoldLeft(LAMBDA sum, e : sum + e.bytes, 0, q)

(* dropFront, k times: the events left and the bytes then held.            *)
Kept(k) == SubSeq(events, k + 1, Len(events))

Held(k) == retainedBytes - Bytes(SubSeq(events, 1, k))

Old(e) == now >= e.time /\ now - e.time > Retention

(* expire drops k events: the old ones at the front, up to one that is not.*)
Expires(k) ==
  /\ \A i \in 1..k : Old(events[i])
  /\ k < Len(events) => ~Old(events[k + 1])

\* Mutant: only the number of events is bounded.
Full_CountOnly(k, bytes) == k < Len(events) /\ Len(events) - k >= EventCount
(* With k events dropped there is still no room for an event of that size. *)
Full(k, bytes) ==
  /\ k < Len(events)
  /\ \/ Len(events) - k >= EventCount
     \/ Held(k) + bytes > MemoryBytes

(* capture drops k events, expired or evicted, before one of that size fits*)
MakesRoom(k, bytes) ==
  \E x \in 0..k :
    Expires(x) /\ (\A j \in x..(k - 1) : Full(j, bytes)) /\ ~Full(k, bytes)

-------------------------------------------------------------------------------
(* captureTelemetry: health, capture, health.                              *)

Goto(s, stage) == pc' = [pc EXCEPT ![s] = stage]

ReadBefore(s) ==
  /\ pc[s] = "idle" /\ captures < MaxCaptures
  /\ before' = [before EXCEPT ![s] = failures]
  /\ Goto(s, "capture")
  /\ UNCHANGED <<store, dropped, failures, clock, errors, errorsDropped,
                 captures, lost, report>>

(* The evidence of an event that is too large is left out.                 *)
Stored(full, bare) == IF full > EventBytes THEN bare ELSE full

Captured(s) ==
  /\ pc[s] = "capture" /\ Goto(s, "after")
  /\ captures' = captures + 1 /\ sequence' = sequence + 1
  /\ UNCHANGED <<failures, clock, session, lost, report>>

Capture(s, full, bare) ==
  LET bytes == Stored(full, bare)
  IN  /\ Captured(s) /\ bytes <= EventBytes
      /\ \E k \in 0..Len(events) :
           /\ MakesRoom(k, bytes)
           /\ events' = Append(Kept(k),
                          [seq |-> sequence', time |-> now, bytes |-> bytes])
           /\ retainedBytes' = Held(k) + bytes /\ dropped' = dropped + k

(* k events leave at the front, more are never stored.                     *)
Lose(k, more) ==
  events' = Kept(k) /\ retainedBytes' = Held(k) /\ dropped' = dropped + k + more

Expire(more) == \E k \in 0..Len(events) : Expires(k) /\ Lose(k, more)

\* Mutant: an event that is too large vanishes uncounted.
CaptureOversize_Silent(s, full, bare) ==
  Captured(s) /\ Stored(full, bare) > EventBytes /\ Expire(0)
(* Too large even without its evidence: the event itself is dropped.       *)
CaptureOversize(s, full, bare) ==
  Captured(s) /\ Stored(full, bare) > EventBytes /\ Expire(1)

(* The clock, the retention backend or an allocation throws, before or     *)
(* after events expired, the event was numbered and room was made for it.  *)
CaptureThrows(s) ==
  /\ pc[s] = "capture" /\ Goto(s, "failing")
  /\ captures' = captures + 1
  /\ lost' = [lost EXCEPT ![s] = @ + 1]
  /\ \/ UNCHANGED <<store, dropped>>
     \/ /\ Expire(0)
        /\ sequence' \in {sequence, sequence + 1}
     \/ /\ \E bytes \in Sizes, k \in 0..Len(events) :
             bytes <= EventBytes /\ MakesRoom(k, bytes) /\ Lose(k, 0)
        /\ sequence' = sequence + 1
  /\ UNCHANGED <<failures, clock, session, report>>

(* The handler of capture runs after the mutex was released.               *)
CountFailure(s) ==
  /\ pc[s] = "failing" /\ Goto(s, "after")
  /\ failures' = failures + 1
  /\ UNCHANGED <<store, dropped, clock, session, captures, lost, report>>

\* Mutant: a loss beyond the listed ones is not counted.
ReadAfter_Forgets(s) ==
  /\ pc[s] = "after" /\ Goto(s, "idle")
  /\ errors' = IF failures > before[s] /\ Len(errors[s]) < MaxErrors
               THEN [errors EXCEPT ![s] = Append(@, <<before[s], failures>>)]
               ELSE errors
  /\ UNCHANGED <<store, dropped, failures, clock, before, errorsDropped,
                 captures, lost, report>>
ReadAfter(s) ==
  /\ pc[s] = "after" /\ Goto(s, "idle")
  /\ \/ failures = before[s] /\ UNCHANGED <<errors, errorsDropped>>
     \/ /\ failures > before[s] /\ Len(errors[s]) < MaxErrors
        /\ errors' = [errors EXCEPT ![s] = Append(@, <<before[s], failures>>)]
        /\ UNCHANGED errorsDropped
     \/ /\ failures > before[s] /\ Len(errors[s]) >= MaxErrors
        /\ errorsDropped' = [errorsDropped EXCEPT ![s] = @ + 1]
        /\ UNCHANGED errors
  /\ UNCHANGED <<store, dropped, failures, clock, before, captures, lost, report>>

\* Mutant: only a capture expires events.
Snapshot_KeepsOld ==
  /\ report' = [events |-> events, at |-> now]
  /\ UNCHANGED <<store, dropped, failures, clock, pc, session, captures, lost>>
(* snapshot, by any thread of the host.                                    *)
Snapshot ==
  /\ Expire(0)
  /\ report' = [events |-> events', at |-> now]
  /\ UNCHANGED <<sequence, failures, clock, pc, session, captures, lost>>

Tick ==
  /\ now' \in 0..MaxTime /\ monotonic' = (monotonic /\ now <= now')
  /\ UNCHANGED <<store, dropped, failures, pc, session, captures, lost, report>>

Step(s) ==
  \/ ReadBefore(s) \/ CaptureThrows(s) \/ CountFailure(s) \/ ReadAfter(s)
  \/ \E full \in Sizes, bare \in Sizes :
       bare <= full /\ (Capture(s, full, bare) \/ CaptureOversize(s, full, bare))

Next == Snapshot \/ Tick \/ \E s \in Sessions : Step(s)

Spec == Init /\ [][Next]_vars

-------------------------------------------------------------------------------
Failing == {s \in Sessions : pc[s] = "failing"}

(* LossAccounted: every captured event is kept, dropped or failed: the     *)
(* counters a snapshot reports explain every gap, except for failures      *)
(* whose handler has not run yet.                                          *)
LossAccounted ==
  captures = Len(events) + dropped + failures + Cardinality(Failing)

(* MemoryBounded: the events kept never exceed the limits, and the running *)
(* total that enforces them does not drift from the sizes of the events.   *)
MemoryBounded ==
  /\ Len(events) <= EventCount
  /\ retainedBytes = Bytes(events) /\ retainedBytes <= MemoryBytes

(* TimelineOrdered: the timeline is in the order of the sequence numbers   *)
(* and, while the clock is monotonic, of the times, which expire relies on.   *)
TimelineOrdered ==
  \A i, j \in DOMAIN events : i < j =>
    /\ events[i].seq < events[j].seq
    /\ monotonic => events[i].time <= events[j].time

(* ReportFresh: with a monotonic clock a snapshot holds no event older     *)
(* than the retention time.                                                *)
ReportFresh ==
  monotonic => \A i \in DOMAIN report.events :
                 report.at - report.events[i].time <= Retention

(* FailureReported: a session whose capture failed lists or counts a loss, *)
(* although the failure is counted outside the mutex and other sessions    *)
(* raise the same counter.                                                 *)
FailureReported ==
  \A s \in Sessions : pc[s] = "idle" =>
    Len(errors[s]) + errorsDropped[s] >= lost[s]

(* QueueSound: the state has its types, and the events kept stay within    *)
(* the limits.                                                             *)
QueueSound == TypeOK /\ MemoryBounded

(* TimelineHonest: what a snapshot shows is in order and not too old.      *)
TimelineHonest == TimelineOrdered /\ ReportFresh
===============================================================================
