------------------------------- MODULE AuditStore -------------------------------
(***************************************************************************)
(* The business audit file: BaseAuditSink (BaseAuditBindings.cpp).  Each   *)
(* session has a sink of its own; all of them share one file.  The file is *)
(* a list of snapshots: a line repeats a whole audit chain with the whole  *)
(* diagnostic chain its events refer to.  persistChain reads and checks    *)
(* all lines, appends one and rewrites the file; a mutex of the process    *)
(* (persistenceMutex) covers that, other processes are kept out only while *)
(* the file is open for writing.                                           *)
(*                                                                         *)
(* A sink is used by one session at a time, so its own mutex is not        *)
(* modelled.  The byte limits of the registry and of the file are counted  *)
(* in diagnostic chains and in lines.                                      *)
(***************************************************************************)
EXTENDS Integers, Sequences, FiniteSets, SequencesExt, Functions

CONSTANTS
  Layouts,    \* who shares the file, see Layout
  AllSinks, Processes, Requests, Chains,
  Nobody      \* no sink

(* Which sinks share the file, the process of each, the request its        *)
(* session serves (it determines the root of the diagnostic chain), its    *)
(* audit chain (request, target and second), the capacity of a registry    *)
(* (64 chains) and of the file (rawDocumentBytes), the events a session    *)
(* tries to record (a bound) and what may go wrong.                        *)
Layout(l) ==
  /\ l.sinks \subseteq AllSinks
  /\ l.processOf \in [l.sinks -> Processes]
  /\ l.requestOf \in [l.sinks -> Requests]
  /\ l.chainOf \in [l.sinks -> Chains]
  /\ l.maxChains \in Nat /\ l.maxLines \in Nat /\ l.maxEvents \in Nat
  /\ l.faults \subseteq {"io", "torn", "crash"}

ASSUME LayoutsAssumption == \A l \in Layouts : Layout(l)
ASSUME NobodyAssumption == Nobody \notin AllSinks
\* A request is a digest of fixed length, a sink an object of a process.
ASSUME FiniteAssumption == IsFiniteSet(Requests) /\ IsFiniteSet(AllSinks)

VARIABLES
  layout,                 \* chosen at the start, never changed
  pc, own, registry,      \* per sink: progress, the session's diagnostic
                          \* chain, and the chains the sink has registered
  count, mem, proposal,   \* per sink: events tried, recorded, being recorded
  next, failed,           \* per sink: the file it writes; sinks refused once
  lock,                   \* per process: the sink inside persistenceMutex
  stored, torn, writer    \* the file, its last line cut off, who has it open

session == <<own, count, mem, proposal, failed>>
file    == <<stored, torn, writer>>
vars    == <<layout, pc, session, registry, next, lock, file>>

Sinks     == layout.sinks
ProcessOf == layout.processOf
RequestOf == layout.requestOf
ChainOf   == layout.chainOf
MaxChains == layout.maxChains
MaxLines  == layout.maxLines
MaxEvents == layout.maxEvents
Faults    == layout.faults

(* A diagnostic envelope: one every session of the request derives alike,  *)
(* or one of this session (its failures, its times).  A chain starts with  *)
(* the plan; <<>> is a chain that is not registered.                       *)
Envelopes == (Sinks \cup Requests) \X Nat
Events    == [by : Sinks, n : Nat, envelope : Envelopes]
Lines     == [chain : Chains, events : Seq(Events),
              request : Requests, diagnostics : Seq(Envelopes)]

Unregistered == [r \in Requests |-> <<>>]

Init ==
  /\ layout \in Layouts
  /\ pc = [s \in Sinks |-> "idle"]
  /\ own = [s \in Sinks |-> << <<RequestOf[s], 0>> >>]
  /\ registry = [s \in Sinks |-> Unregistered]
  /\ count = [s \in Sinks |-> 0]
  /\ mem = [s \in Sinks |-> <<>>] /\ proposal = [s \in Sinks |-> <<>>]
  /\ next = [s \in Sinks |-> <<>>]
  /\ failed = {}
  /\ lock = [p \in Processes |-> Nobody]
  /\ stored = <<>> /\ torn = FALSE /\ writer = Nobody

-------------------------------------------------------------------------------
(* retainDiagnosticChain, decodeSnapshot, requireAppendOnly                *)

Registered(reg) == {r \in Requests : reg[r] # <<>>}

\* Mutant: a chain that is registered already counts against the capacity.
Retains_Twice(reg, r, chain) ==
  Cardinality(Registered(reg)) < MaxChains /\ IsPrefix(reg[r], chain)
(* A registered chain may only grow; a new one needs room.                 *)
Retains(reg, r, chain) ==
  /\ IsPrefix(reg[r], chain)
  /\ reg[r] = <<>> => Cardinality(Registered(reg)) < MaxChains

Comparable(a, b) == IsPrefix(a, b) \/ IsPrefix(b, a)

(* The lines follow each other: of a diagnostic chain one is a prefix of   *)
(* the other, an audit chain never loses or changes an event.              *)
Consistent(reg, lines) ==
  /\ \A i \in DOMAIN lines :
       Comparable(lines[i].diagnostics, reg[lines[i].request])
  /\ \A i \in DOMAIN lines : \A j \in i..Len(lines) :
       /\ lines[i].request = lines[j].request =>
            Comparable(lines[i].diagnostics, lines[j].diagnostics)
       /\ lines[i].chain = lines[j].chain =>
            IsPrefix(lines[i].events, lines[j].events)

Named(reg, lines) == Registered(reg) \cup {lines[i].request : i \in DOMAIN lines}

(* All lines are accepted one after the other.                             *)
Decodes(reg, lines) ==
  Consistent(reg, lines) /\ Cardinality(Named(reg, lines)) <= MaxChains

(* How many lines are accepted before the first that is not.               *)
Accepted(reg) ==
  CHOOSE k \in 0..Len(stored) :
    /\ Decodes(reg, SubSeq(stored, 1, k))
    /\ k < Len(stored) => ~Decodes(reg, SubSeq(stored, 1, k + 1))

Longest(S) == CHOOSE c \in S : \A d \in S : Len(d) <= Len(c)

\* Mutant: the chain stored last replaces the registered one.
Absorbed_Latest(reg) ==
  [r \in Requests |->
     LET S == {j \in 1..Accepted(reg) : stored[j].request = r}
     IN  IF S = {} THEN reg[r]
         ELSE stored[CHOOSE i \in S : \A j \in S : j <= i].diagnostics]
(* The registry after the accepted lines: they are kept also when a later  *)
(* line is refused.                                                        *)
Absorbed(reg) ==
  [r \in Requests |->
     Longest({reg[r]} \cup {stored[i].diagnostics :
                            i \in {j \in 1..Accepted(reg) : stored[j].request = r}})]

\* Mutant: lines that cannot be parsed are skipped.
Readable_SkippingDamage(reg) == Accepted(reg) = Len(stored)
Readable(reg) == Accepted(reg) = Len(stored) /\ ~torn

Latest(lines, c) ==
  LET S == {i \in DOMAIN lines : lines[i].chain = c}
  IN  IF S = {} THEN <<>> ELSE lines[CHOOSE i \in S : \A j \in S : j <= i].events

AppendOnly(s) == IsPrefix(Latest(stored, ChainOf[s]), proposal[s])

-------------------------------------------------------------------------------
(* One event of a session: auditPhase registers the diagnostic chain, then *)
(* persistChain and readChain.                                             *)

Goto(s, stage) == pc' = [pc EXCEPT ![s] = stage]

(* The record is over; its proposal and its copy of the file are gone.     *)
Done(s) ==
  /\ Goto(s, "idle")
  /\ proposal' = [proposal EXCEPT ![s] = <<>>] /\ next' = [next EXCEPT ![s] = <<>>]

Unlock(s) ==
  lock' = [lock EXCEPT ![ProcessOf[s]] = IF @ = s THEN Nobody ELSE @]

\* Mutant: a failure leaves persistenceMutex locked.
Fail_Locked(s) ==
  /\ Done(s) /\ failed' = failed \cup {s}
  /\ UNCHANGED <<own, count, mem, lock>>
Fail(s) ==
  /\ Done(s) /\ failed' = failed \cup {s} /\ Unlock(s)
  /\ UNCHANGED <<own, count, mem>>

Io == "io" \in Faults

Record(s, by) ==
  /\ pc[s] = "idle" /\ count[s] < MaxEvents
  /\ count' = [count EXCEPT ![s] = @ + 1]
  /\ own' \in {own, [own EXCEPT ![s] = Append(@, <<by, Len(@)>>)]}
  /\ LET event == [by |-> s, n |-> count'[s], envelope |-> Last(own'[s])]
     IN  IF Retains(registry[s], RequestOf[s], own'[s])
         THEN /\ registry' = [registry EXCEPT ![s][RequestOf[s]] = own'[s]]
              /\ proposal' = [proposal EXCEPT ![s] = Append(mem[s], event)]
              /\ Goto(s, "persist") /\ UNCHANGED failed
         ELSE /\ failed' = failed \cup {s}
              /\ UNCHANGED <<pc, registry, proposal>>
  /\ UNCHANGED <<mem, next, lock, file>>

Snapshot(s, reg) ==
  [chain |-> ChainOf[s], events |-> proposal[s],
   request |-> RequestOf[s], diagnostics |-> reg[RequestOf[s]]]

\* Mutant: each sink has a mutex of its own.
Enter_OwnMutex(s) == pc[s] = "persist"
Enter(s) == pc[s] = "persist" /\ lock[ProcessOf[s]] = Nobody

(* The file is read and checked inside the mutex.                          *)
ReadExisting(s) ==
  /\ Enter(s)
  /\ registry' = [registry EXCEPT ![s] = Absorbed(@)]
  /\ \/ /\ Readable(registry[s]) /\ AppendOnly(s) /\ Len(stored) < MaxLines
        /\ next' = [next EXCEPT ![s] = Append(stored, Snapshot(s, registry'[s]))]
        /\ lock' = [lock EXCEPT ![ProcessOf[s]] = s]
        /\ Goto(s, "open") /\ UNCHANGED session
     \/ ~(Readable(registry[s]) /\ AppendOnly(s) /\ Len(stored) < MaxLines) /\ Fail(s)
  /\ UNCHANGED file

(* The file is there and cannot be read: nothing is learned from it.       *)
ReadFails(s) ==
  /\ Io /\ pc[s] \in {"persist", "confirm"} /\ lock[ProcessOf[s]] = Nobody
  /\ Fail(s) /\ UNCHANGED <<registry, file>>

(* CREATE_ALWAYS empties the file; two writers exclude each other.         *)
OpenFile(s) ==
  /\ pc[s] = "open"
  /\ \/ /\ writer = Nobody
        /\ stored' = <<>> /\ torn' = FALSE /\ writer' = s
        /\ Goto(s, "write") /\ UNCHANGED <<session, next, lock>>
     \/ (Io \/ writer # Nobody) /\ Fail(s) /\ UNCHANGED file
  /\ UNCHANGED registry

(* A write that fails may have stored any part; what follows the last      *)
(* complete line makes the file unreadable.                                *)
PartlyWritten(s) ==
  /\ torn' \in BOOLEAN
  /\ \E k \in 0..(Len(next[s]) - 1) : stored' = SubSeq(next[s], 1, k)

WriteFile(s) ==
  /\ pc[s] = "write" /\ writer' = Nobody
  /\ \/ stored' = next[s] /\ UNCHANGED torn /\ Goto(s, "readback")
        /\ UNCHANGED <<session, next, lock>>
     \/ Io /\ stored' = next[s] /\ UNCHANGED torn /\ Fail(s)
     \/ "torn" \in Faults /\ PartlyWritten(s) /\ Fail(s)
  /\ UNCHANGED registry

Readback(s) ==
  /\ pc[s] = "readback"
  /\ \/ /\ stored = next[s] /\ ~torn
        /\ Goto(s, "confirm") /\ Unlock(s) /\ UNCHANGED <<session, next>>
     \/ (Io \/ stored # next[s] \/ torn) /\ Fail(s)
  /\ UNCHANGED <<registry, file>>

(* readChain must return what was persisted; only then is it recorded.     *)
Confirm(s) ==
  /\ pc[s] = "confirm" /\ lock[ProcessOf[s]] = Nobody
  /\ registry' = [registry EXCEPT ![s] = Absorbed(@)]
  /\ LET same == Readable(registry[s]) /\ Latest(stored, ChainOf[s]) = proposal[s]
     IN  \/ /\ same /\ mem' = [mem EXCEPT ![s] = proposal[s]]
            /\ Done(s) /\ UNCHANGED <<own, count, failed, lock>>
         \/ ~same /\ Fail(s)
  /\ UNCHANGED file

(* A process dies with all its sinks; its write may be partial.            *)
Crash(p) ==
  /\ "crash" \in Faults
  /\ \E s \in Sinks : ProcessOf[s] = p /\ pc[s] # "dead"
  /\ pc' = [s \in Sinks |-> IF ProcessOf[s] = p THEN "dead" ELSE pc[s]]
  /\ lock' = [lock EXCEPT ![p] = Nobody]
  /\ IF writer # Nobody /\ ProcessOf[writer] = p
     THEN PartlyWritten(writer) /\ writer' = Nobody
     ELSE UNCHANGED file
  /\ UNCHANGED <<session, registry, next>>

Step(s) ==
  \/ ReadExisting(s) \/ ReadFails(s) \/ OpenFile(s) \/ WriteFile(s)
  \/ Readback(s) \/ Confirm(s)

Next ==
  /\ \/ \E s \in Sinks : Step(s) \/ \E by \in {s, RequestOf[s]} : Record(s, by)
     \/ \E p \in Processes : Crash(p)
  /\ UNCHANGED layout

Spec == Init /\ [][Next]_vars

(* A sink that may go on does; a session records finitely many events, so  *)
(* the mutex, which need not be fair, is free for good in the end.         *)
FairSpec ==
  Spec /\ \A s \in AllSinks : WF_vars(s \in Sinks /\ Step(s) /\ UNCHANGED layout)

-------------------------------------------------------------------------------
(* TypeOK: the types of the state and the two capacities the code checks   *)
(* (retainDiagnosticChain, persistChain).                                  *)
TypeOK ==
  /\ layout \in Layouts
  /\ pc \in [Sinks -> {"idle", "persist", "open", "write", "readback",
                       "confirm", "dead"}]
  /\ own \in [Sinks -> Seq(Envelopes)]
  /\ registry \in [Sinks -> [Requests -> Seq(Envelopes)]]
  /\ \A s \in Sinks : Cardinality(Registered(registry[s])) <= MaxChains
  /\ count \in [Sinks -> 0..MaxEvents]
  /\ mem \in [Sinks -> Seq(Events)] /\ proposal \in [Sinks -> Seq(Events)]
  /\ next \in [Sinks -> Seq(Lines)]
  /\ failed \subseteq Sinks
  /\ lock \in [Processes -> Sinks \cup {Nobody}]
  /\ stored \in Seq(Lines) /\ Len(stored) <= MaxLines
  /\ torn \in BOOLEAN /\ writer \in Sinks \cup {Nobody}

OneProcess == \A s, t \in Sinks : ProcessOf[s] = ProcessOf[t]

(* HistoryReadable: whatever processes do to each other and wherever a     *)
(* write stops, the complete lines of the file are a history that a new    *)
(* sink accepts (decodeSnapshot, requireAppendOnly): no two contradict     *)
(* each other and they fit its registry.                                   *)
HistoryReadable == Decodes(Unregistered, stored)

(* EventsResolve: each stored event refers to a diagnostic stored in its   *)
(* own line, although the line takes the diagnostics from the sink's       *)
(* registry and not from the session (persistChain, `linked`).             *)
EventsResolve ==
  \A i \in DOMAIN stored : \A e \in Range(stored[i].events) :
    e.envelope \in Range(stored[i].diagnostics)

(* AcknowledgedKept: with one process and no torn write, an event that was *)
(* confirmed to a session stays in the file, although every other session  *)
(* rewrites the whole file.                                                *)
AcknowledgedKept ==
  OneProcess /\ Faults \subseteq {"io"} /\ writer = Nobody =>
    \A s \in Sinks : IsPrefix(mem[s], Latest(stored, ChainOf[s]))

(* TornIsFrozen: within one process a file that ends in a cut-off line is  *)
(* never written again and confirms nothing: it is not taken for an empty  *)
(* or a shorter history.                                                   *)
TornIsFrozen ==
  [][OneProcess /\ torn => UNCHANGED <<stored, torn, mem>>]_vars

(* HealthyNeverRefused: sessions of different requests and chains that     *)
(* share a file within its capacity do not refuse each other's events: a   *)
(* session that has not failed yet fails in its own broken write, because  *)
(* another one tore the file, or when such a write lost its line before it *)
(* was read again.                                                         *)
Healthy ==
  /\ OneProcess /\ "io" \notin Faults
  /\ IsInjective(RequestOf) /\ IsInjective(ChainOf)
  /\ Cardinality(Requests) <= MaxChains
  /\ Cardinality(Sinks) * MaxEvents <= MaxLines
HealthyNeverRefused ==
  [][Healthy /\ ~torn =>
       \A s \in failed' \ failed : pc[s] \in {"write", "confirm"}]_vars

(* RecordsReturn: no record waits for ever, whatever fails inside the      *)
(* mutex.                                                                  *)
Recording(s) == s \in Sinks /\ pc[s] \notin {"idle", "dead"}
RecordsReturn == \A s \in AllSinks : Recording(s) ~> ~Recording(s)

(* StoreSound: the sinks keep to their capacities, and the complete lines  *)
(* of the file are a history that a new sink accepts, each event of which  *)
(* resolves.                                                               *)
StoreSound == TypeOK /\ HistoryReadable /\ EventsResolve
===============================================================================
