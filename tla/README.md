# A TLA+ verification of Aeostara for Windows

Aeostara diagnoses one JSON configuration file against adopted rules and, when a plan is
approved, repairs it: it backs the file up, changes it, verifies the result, and restores the
original bytes when anything fails. Every phase is recorded in a durable audit file. This
directory models the parts of that system that keep state, checks them with TLC on small
instances, and proves the most important results with TLAPS for every instance.

All definitions are translated from the code under `src/`; `PROJECT.json` names the lines of
each one. Where the code and its documents disagree the model follows the code, and a run shows
the disagreement.

Contents: [inventory](#1-the-system), [modules](#2-modules-and-their-correspondence-to-the-code),
[runs](#3-runs-bounds-and-what-they-show), [fairness](#4-fairness), [proofs](#5-proofs),
[disagreements](#6-disagreements-between-code-and-documents),
[limits](#7-what-is-only-model-checked-and-what-is-not-modelled), [plan](#8-plan).

## 1. The system

Paths are relative to `src/src/AeostaraCore` unless they say otherwise.

| Component | State | Operations | What makes it correct |
| --- | --- | --- | --- |
| Recovery session (`NativeExecutionBindings.cpp`) | owner thread, lease, backup, execution progress, `mutation`, verification, audit chain in memory, the sticky `failure` | prepareExecution, executeStep / applyMutation, verify, complete, rollback, destruction, authorizeAtomicPersistence | the target is changed only while the original is recoverable; a claim (healed, restored) is true of the bytes; a failure is final |
| Audit sink (`BaseAuditBindings.cpp`) | registry of diagnostic chains per sink; one file shared by all sessions | persistChain, readChain | confirmed events stay, refer to stored diagnostics, and the file is never contradictory |
| File system and lease (`FileSystem.cpp`) | open handles by path key | read, write, exclusive create, identity, lease | one writer of a leased target |
| Backup provider (`BackupManager.cpp`, `RollbackManager.cpp`) | backup files | createBackup, restoreBackup | a backup equals the original |
| Configuration adapter (`JsonConfigAdapter.cpp`) | the target file | applyOperations | the approved result or an error |
| Atomic publication (`WindowsAtomicFileSystem.cpp`) | a one-target capability, a staging file, a process mutex | publish | the target is whole, a receipt stays true, an outcome is honest |
| Healing engine, request binding (`HealingEngine.cpp`, `NativeRequestBinding.cpp`) | one request's results | heal, healSemantic | the session's outcome is passed on unchanged; an empty plan mutates nothing |
| Policy gate (`BasePolicyGate.cpp`) | none | evaluate | only the exact bound plan is allowed |
| Diagnostic collector (`../AeostaraDiagnostics/Diagnostics.cpp`) | bounded queue of events, loss counters | capture, snapshot, health | no silent loss, bounded memory |
| Diagnostic export (same file) | a staging directory | exportDiagnosticBundle | the destination is a whole pair or untouched |
| Diagnostic chains (same file), ASH binding (`AshBinding.cpp`) | bounded set of retained chains | make, link, validate, resolve | parents precede children, nothing follows a terminal |
| ASH semantic mapping (`SemanticMapping.cpp`) | none: a pure projection to a nine-bit state | project, classify, plan | the planned operations reach a stable state |
| Drift, planning, policy, verification (`DriftAnalyzer.cpp`, `RepairPlanner.cpp`, `PolicyEvaluator.cpp`, `Verification.cpp`, `Invariant*.cpp`) | none: the older advisory path | analyze, plan, evaluate | a plan removes the drift it was made for |
| JSON pointers, codec, contracts, document bindings | none | parse, print, compare | data |
| Legacy audit trail (`AuditTrail.cpp`) | a file of JSON lines | record | one line per event; confirmed events stay, damage is left alone |
| Command line (`../AeostaraCLI`) | none | parse, print | exit codes |

### Interaction

The healing engine binds a request to the target, asks the semantic environment for a plan and,
when there is one, runs a session. A host may also use the pieces of the older path one by one: a
lease, the configuration adapter, the planner, the policy, the backup and the rollback manager, the
legacy trail. An ASH binding provider answers the calls of several threads and retains the
diagnostic chains it hands references to.

A host builds a session from a captured request and passes it its own file system, backup
provider, adapter, policy gate, audit sink and diagnostic collector. The session calls all of
them synchronously, under its own recursive mutex. Nothing in the core starts a thread; the
concurrency is that of a host which runs several sessions in threads, and of several processes on
one machine. What they share:

- **the target file**: leased by an open handle that excludes other writers;
- **the audit file**: every session of every process may name the same one. A mutex of the
  process covers a record; nothing covers two processes but the sharing mode while the file is
  open for writing;
- **the published audit file**: a completed session can replace the audit file by a copy, under a
  second mutex of the process which is *not* the one of the audit sink;
- **the collector**: one object for all sessions of a host, with one mutex and one atomic counter;
- **the legacy audit trail**: rewritten as a whole under a mutex of the process;
- **a provider's retained chains**: one mutex per provider, held for one chain at a time;
- **the export destination**: no lock at all;
- **snapshots and diagnostic chains** are values: a host holds copies and may edit them.

### What is hard here

Failing host calls in the middle of a call, also after their effect; exceptions that are no
`std::exception`; death of the process between or inside the writes of target, backup and audit
file; a foreign thread that calls a session it does not own; files changed by other processes
between a measurement and its use; several sessions that rewrite one audit file; counters read in
two steps; budgets that several threads use up; values a host keeps, edits and hands back; rules
that are applied twice and must agree; texts that are compared in place of what they mean.
There are no timeouts, no messages and no retry loops, except the backup's and the
staging file's eight attempts at a free name. The hazards are listed at their lines in
`PROJECT.json` under `hazards`, with the properties that watch them.

## 2. Modules and their correspondence to the code

| Module | Models | Checked by | Proofs |
| --- | --- | --- | --- |
| `HealSession` | the recovery session with its environment | `MCHealSession` | `HealSession_proofs` |
| `HealContract` | what a session promises the owner of a document | as a property of `HealSession` | refinement, in `HealSession_proofs` |
| `HealEngine` | one command of the engine, its binding and its exit | `MCSemanticHost` | `HealEngine_proofs` |
| `AshSemantics`, `AdoptedDefinitions` | the semantic environment as pure operators; the definitions the program is pinned to | `MCSemanticHost` | lemmas in `HealEngine_proofs` |
| `CommandLine` | arguments to command, results to exit code | `MCSemanticHost` | |
| `AshBinding` | binding providers called by several threads | `MCSemanticHost` | `HealEngine_proofs` |
| `AuditStore` | the audit sinks of several sessions and processes on one file | `MCAuditStore` | `AuditStore_proofs` |
| `AtomicPublish` | capabilities and publication of the audit file, beside the sink | `MCAtomicPublish` | `AtomicPublish_proofs` |
| `DiagnosticCollector` | the collector and how sessions detect lost events | `MCDiagnosticCollector` | `DiagnosticCollector_proofs` |
| `DiagnosticReport` | what of an event gets into a report | `MCDiagnosticExport` | `DiagnosticExport_proofs` |
| `DiagnosticExport` | the export of a report to a destination | `MCDiagnosticExport` | `DiagnosticExport_proofs` |
| `DiagnosticChains` | the chains callers make, append to, edit and check | `MCDiagnosticExport` | `DiagnosticExport_proofs` |
| `SurfaceSession` | clients that repair one plain document; files, leases, backups, legacy trail | `MCSurface` | `SurfaceSession_proofs` |
| `SurfaceRepair`, `JsonDocuments`, `JsonNumbers` | drift, plan, policy, verification; paths; numbers, as pure operators | `MCSurface` | lemmas in `SurfaceSession_proofs` |

`SharedLemmas` models nothing: it holds the facts about natural numbers, sequences, prefixes and
folds that the proofs of several components cite.

Two idioms occur throughout the pure modules. An intermediate result that is used several times is
the one element of a set (`\E p \in {Plan(...)}` or `CHOOSE` over such a set), which TLC evaluates
once. A Boolean field of a request or context (`complete`, `bound`, `sealed`) stands for a group of
identity and hash checks that have one outcome.

Mutated definitions stand before the definition they are a mutation of, under a comment that
starts with "Mutant:". They are no part of a specification; with one of them in place of the
original a property has to fail, which shows that the property says something of the code.

### HealSession

`pc` is the point the call in progress has reached: `idle` between calls, the name of a host call
(`lease`, `observe`, `gate`, `backup`, `apply`, `readback`, `restore`, ...), or the audit event
being recorded (`STARTED`, `SUCCEEDED`, `HEALED`, ...). One action is one call to the host with
the bookkeeping the code does next to it.

| Variables | Code |
| --- | --- |
| `op`, `thr`, `upto` | the public call, its thread, the number of operations it is to have applied |
| `owner`, `auditBound`, `leased`, `ctx`, `backed` | `state_->ownerThread`, the bound audit identity, `lease`, the issued context, the backup receipt |
| `executed`, `armed`, `mutation`, `verification`, `rolled` | the state members of the same names (`rolled`: `rollback` is set) |
| `complete`, `failure` | `state_->complete`, `state_->failure` |
| `mem`, `wrote` | `state_->auditChain`; whether the write in progress happened |
| `durable`, `auditState` | this session's events in the audit file; whether the file is sound, replaced (`moved`), cut off behind a whole event (`cut`) or within one (`torn`) |
| `target`, `backup`, `alive` | the files and the process |

| Actions | Code |
| --- | --- |
| `CallPrepare` ... `ConfirmBackup` | `prepareExecution`, phase by phase; `RecallPrepare` is a second call |
| `CallExecute`, `ConfirmStarted`, `Apply`, `Readback`, `ConfirmSucceeded` | `executeOperations` behind executeStep and applyMutation |
| `CallVerify`, `ConfirmVerify`, `CallComplete`, `ConfirmHealed` | `verify`, `complete` |
| `Fail`, `AuthoriseRestore`, `RestoreBackup`, `ConfirmRestored`, `ConfirmRollback`, `ConfirmFailed` | `failAndRestore`, `restoreAuthorized` |
| `AuditWrite`, `CutOff`, `Commit`, `AuditThrows`, `AuditFails`, `AuditFailsNonstandard` | `auditPhase`, its write, which empties the file first, and which handler its exceptions reach |
| `Destroy`, `Release` | the destructor, which restores an armed recovery |
| `Crash`, `Tamper` | the environment |

The target is a number: the original with that many operations applied, or garbage. Contents of
plans, receipts and contexts are not represented: a caller passes the right one or is rejected,
which changes nothing. The `Faults` constant chooses what the environment may do: `host` (a call
throws or lies, with or without its effect), `nonstd` (it throws something that is no
`std::exception`), `torn` (an audit write is cut off: when it fails or the process dies in it, the
file keeps any first part of the chain), `tamper` (other processes change files), `crash`.

### HealContract

Three variables: the document, whether a verified backup and a record of the start are stored
(`cover`), and the verdict. A document is written only when covered, the verdict is given once and
is true, and the document is left alone after it. The refinement mapping is in `HealSession`
(`Contract`): the document is `target`; `cover` is an original in `backup` with `STARTED` in
`durable`; the verdict is computed from `complete`, `failure` and `mutation`. As a covered document
stays covered, the refinement is stated for environments without `torn` and `tamper`; what holds with
`torn` is `MutationIsRecoverable`, `DurableAppendOnly`, `RestorationIsTrue` and `VerdictIsSingle`.

### AuditStore

A layout, fixed by the initial state, says which sinks share the file, in which processes, and how
large registry and file are. Each session has a sink (`Sinks`). `Record` proposes the next event with a diagnostic envelope;
`Enter` takes `persistenceMutex` of the sink's process; `ReadExisting`, `OpenFile`, `WriteFile`,
`Readback` and `Confirm` are the steps of `persistChain` and `readChain`. The file is a sequence
of lines; a line repeats the whole audit chain and the whole diagnostic chain. `Decodes` is the
check of a whole file (`decodeSnapshot`), `Retains` the registry's capacity rule
(`retainDiagnosticChain`), `AppendOnly` is `requireAppendOnly`. An envelope is one that every
session of the request derives alike, or one of the session itself.

### AtomicPublish

`Complete` and `Authorize` are the end of a session and `authorizeAtomicPersistence`; `Call` through
`Cleanup` are the steps of `publish`. `home` is the process of each session, chosen once. A file is
its identity and its lines; a rename gives it a new identity (identities are not reused). `SinkRead`
and `SinkWrite` are the audit sink, reduced to what matters here: it rewrites the file in place from
a copy it read.

### DiagnosticCollector

A capture, a snapshot and a reading of the counters each hold the collector's mutex and are one
action. `captureTelemetry` of a session is three: `ReadBefore`, the capture, `ReadAfter`; a capture
that throws is followed by `CountFailure`, because the handler runs after the lock is released.
`monotonic` remembers whether the clock has ever stepped back. Sequence numbers, times and sizes of
events are kept; their contents are not. Numbers are unbounded: 2^64 captures do not happen.

### DiagnosticExport

One action per file call of `exportDiagnosticBundle`. The writer may be the host's own and may
report success for what it did not write. Another program may create a *directory* of the
destination's name at any time, which makes the rename fail. A foreign *file* is not modelled:
whether Windows lets a renamed directory replace a file depends on its version.

### HealEngine, AshSemantics, AdoptedDefinitions, CommandLine

A behaviour is one command. `ParseArguments` is `Main.cpp` and `CommandParser`; `CaptureTarget` and
`BindRequest` are `bindCapturedNativeTarget`, which an SDK host calls before the engine; `Validate`,
`Diff`, `HealRefused`, `Heal` are the entries of `HealingEngine`; `ObserveUnchanged`,
`RecordUnchanged`, `RecheckUnchanged` are the three phases of a heal whose plan is empty;
`RunSession` is the recovery session, as one step that ends as `HealContract` allows; `Report` is
`CLIRunner`. `EditTarget`, another process, comes between any two of them: it writes the file in
place or replaces it by another, equal or not, so identity, version and content change separately.

`AshSemantics` is `SemanticMapping.cpp`: `Project` (evidence of document, claims and evaluator to a
mapping status and a state), `Classify`, `AnalyzeProjection`, `InvariantsPass` and `PlanAnalysis`,
each a ladder in the order of the code's early returns, because that order decides between BLOCKED,
FAILED and AMBIGUOUS. A state of nine bits is the set of the bits that are 1, exclusive or is the
symmetric difference. `AdoptedDefinitions` holds the code words, the catalog, both profiles, the
fallback registry and the policy rule as the embedded documents state them.

### AshBinding

A call (`EvaluateAdmissibility` ... `PlanArtifactEmission`) computes its answer from the provider's
immutable bindings, and with it the chains it has to retain. `RetainDiagnosticChain` stores one of
them under the provider's mutex or, when the count or the bytes are used up, ends the call with a
failure; `Return` hands the reference out. Chains of other threads get in between. `Expansion`,
`Walk` and `Generated` are the generation of a materialization plan, which collects the chains of
the operations it is made of.

### SurfaceSession, SurfaceRepair, JsonDocuments, JsonNumbers

A client observes, plans, asks the policy, backs up (`StoreBackup`, `CheckBackup`: `createBackup` and
its attempts), applies (`applyRepair` reads the file again, then writes), verifies, and rolls back
(`restoreBackup`) when that fails. A scenario says whether clients share a file system object or a
spelling of the path, and which of them take the lease. A write without a lease is two steps, an
open that cuts the file off and the bytes, with the mutex of the object held. `held` is the lease
table of `DefaultFileSystem`, `opened` the handles whose sharing mode excludes others, across
processes too.

A record of the legacy trail (`ReadTrail` ... `CheckTrail`) holds the mutex of the process over four
file calls, each of which may throw where the scenario has `faults`. `OpenTrail` empties the file;
`TrailCut` is what a failed write or a crash leaves of it: any first part, whole or ending within a
record, or nothing where the trail has no `room` under the size limit, which `writeHandle` checks on
the open handle. `WriteTrail` completes the write, stores something else without an error, or throws
and gives both mutexes back. `lost` is a history of what such writes removed.

`SurfaceRepair` is `DriftAnalyzer`, `RepairPlanner`, the invariant parser, `PolicyEvaluator` and
`Verification` over flattened documents; `JsonDocuments` is `JsonPath` with its quirks (an index past
the end pads an array, a part that is no index is skipped at an array, names with dots);
`JsonNumbers` is the canonical number and the comparison of two. `Numerals` are the indices as they are
written by the program. `isArrayIndex` also takes zeros in front; names of digits like `01` do not
occur in `Names`, a restriction of the documents modelled.

### DiagnosticReport, DiagnosticChains

`DiagnosticReport` follows one event: `Capture` cleans its evidence and its error chain (depth,
items, members, listed keys and sentences) and counts what it leaves out, `Tamper` is a host that
edits the snapshot, `MakeDiagnosticExport` cleans the document again, from its root and by another rule. Depths
are the code's own; the lengths of lists are scaled.

`DiagnosticChains` has the factories `MakeDiagnosticBundle`, `AppendDiagnosticBundle` and
`MakeAshDiagnosticBundle`, which check the chain they are given, and callers that start and extend
chains from any copy they kept (`Start`, `Extend`) or edit one (`Forge`, `ExtendForeign`). Digests are the values they are taken of.

## 3. Runs, bounds and what they show

States are distinct states. Deadlock is not checked: sessions, calls, commands and clocks come to
an end in every model.

| Run | Instance | States | Shows |
| --- | --- | --- | --- |
| `session_faults` | 1 thread, 3 operations; host faults, crashes; `FairSpec` | 5 200 | the session implements `HealContract`, every call returns, every armed recovery is settled |
| `session_damage` | 2 threads, 2 operations; every fault but nonstandard exceptions | 332 000 | what the session claims survives writes that are cut off and changes by other processes |
| `session_nonstandard` | 1 thread, 2 operations; every fault but changes by other processes | 1 370 000 | a changed target stays recoverable and its start on record, stored events are not rewritten: also when a handler is missing, the process dies, or a later audit write is cut off |
| `semantic_host` | 1 command of the program or of an SDK host, 2 edits by others; or 2 threads, 2 providers, 2 calls; `HostSpec` | 148 000 | a success is true when it is decided, only the bound target is touched, the adopted policy leaves one recovery, a terminal lifecycle stays terminal; references resolve, plans can be emitted; every command ends |
| `audit_shared` | 5 layouts: 1 or 2 processes, 1 request or several, registry and file too small or exactly full; failing calls, partial writes, crashes; `FairSpec` | 78 000 | confirmed events stay and resolve, no contradictory history, a cut-off file is never written again, unrelated sessions do not refuse each other, every record leaves the mutex |
| `publish_shared` | 2 publishers, in 1 process or in 2, one appends and one rewrites, and the sink; host faults, crashes; `FairSpec` | 70 000 | whole file, lasting receipts, honest outcomes, no unreported staging file, one effect per capability, mutex always released |
| `collector_shared` | 2 sessions, clock may step back, every limit reached | 1 600 000 | every loss counted, memory bounded, every failure reported, timeline in order, snapshots fresh |
| `export_race` | 3 exports, a foreign directory, host faults, crashes; or 1 event from capture to report; or 4 chains and 2 edited ones; `HostSpec` | 125 000 | whole pair, first one stays, failures say where their files are, every export returns; a report says what was captured, and nothing else; what validates as a chain is one |
| `surface` | 2 clients in every placement of processes, spellings and leases, faults, crashes; 105 pairs of documents and rules; 160 numerals; 3 clients that record, in 1 process or in 2, with room for all or for two, faults, crashes; `Spec` | 173 000 | leases isolate, the original stays on disk, a verified repair is stable, policy and verification agree; only a write that failed, was refused or died loses a confirmed event of the legacy trail, a cut-off trail is left alone; every client ends |
| `restored_not_healed`, `failure_not_healed`, `terminal_is_terminal` | the smallest instances that show it | | a disagreement each, see section 6 |

One run asks everything of a component that one instance can show; components that share no state
(the engine and the providers, exports, reports and chains) are checked as alternative behaviours
of one run. Several parts of one idea are named separately and checked as their conjunction:

| Property of a run | Its parts |
| --- | --- |
| `EverythingSettles` | `CallReturns`, `MutationResolves` |
| `StoreSound` | `TypeOK`, `HistoryReadable`, `EventsResolve` |
| `QueueSound`, `TimelineHonest` | `TypeOK`, `MemoryBounded`; `TimelineOrdered`, `ReportFresh` |
| `OneRecovery` | `TypeOK`, `TargetIsUnique`, `HealsCodewords`, `HealedIsDirect` |
| `RetentionSound`, `PlansSound` | `ProviderTypeOK`, `ReferencesResolve`, `RetentionBounded`; `PlansEmit`, `GenerationStable` |
| `HostFinishes` | `CommandEnds` (with `ExitTruthful`), `CallsReturn` |
| `ExportSound` | `PairWhole`, `CompleteStays`, `FailureLocates` |
| `ReportClean`, `ReportFaithful` | `ReportTypeOK`, `NothingLeaks`; `ExportRepeatsCapture`, `ExportSettles`, `LossSaid` |
| `ChainsSound` | `MadeAccepted`, `StagesAdvance`, `ReferencesResolve` |
| `PublicationSound` | `WholeFile`, `UsedOnce`, `HonestOutcome`, `StagingAccounted` |
| `FilesGuarded` | `LeaseIsolates`, `OriginalKept`, `RestoredIsObserved` |
| `RepairSound`, `TextFaithful` | `RepairedIsStable`, `PolicyPredicts`, `DriftAgrees`; `PathsRoundTrip`, `NumbersExact` |
| `TrailSound` | `TrailKept`, `DamageStays` |

A property that holds only under a condition says so itself: `WholeFile` and `ReceiptKept` speak of
the states before the sink wrote and before another process published, `TimelineHonest` of a clock
that has not stepped back so far, `LeaseIsolates` and `RestoredIsObserved` of clients that hold a lease,
`TrailKept` and `DamageStays` of clients of one process, between its writes. `MutationIsRecoverable`
and `DurableAppendOnly` speak of files no other process changes. The session's own writes may be cut
off: such a write can take `STARTED` out of the file while the target is changed, because every later
event empties the file first, and the property says that nothing else does. The backup is there in
any case.

### Why the bounds are enough

- **Operations** (`N`). An operation is applied at once or step by step; with two there is one in
  the middle of an execution, with three one that is neither first nor last.
- **Threads.** A session serializes its calls and only compares the caller with the owner, so two
  threads show everything a thread can do to a session.
- **`MaxTrail`** stops new executions and optional verifications once the chain is that long. It
  leaves room for the longest regular run (12 events and one more for each further execution), a
  repeated verification and the restoration's records.
- **Audit file**: `FileLayouts` holds three sessions of one process with a registry that is too
  small for their two requests; two processes that record one audit chain; two unrelated sessions
  that fill registry and file exactly. Three lines are enough for a line of one session between two
  of another; two events per session occur where a chain has to be extended.
- **Commands** (`semantic_host`): every single departure from a correct request (30) for a codeword,
  the zero state and a state off the code, every codeword and its neighbour in the other coset,
  both profiles, malformed documents, registries, and every shape of argument list. `MaxEdits` is 2:
  an edit and its undoing, or a replacement and an edit.
- **Providers**: two threads, two providers, two calls each way (`MaxCalls`), and budgets of 10
  chains and 13 bytes in units scaled so that either is reached first; the code's are 64 chains and
  16 MiB.
- **Publications**: `Operation` holds an append and a rewrite, the only kinds the audit target has;
  `Placements` puts the two sessions in one process or in two, so that the mutex is shared in one
  half of the states and not in the other; a publisher may repeat its call any number of times, and
  `used` counts its effects.
- **Collector**: `EventCount`, `EventBytes`, `MemoryBytes`, `Retention` and `MaxErrors` are all small
  enough to be hit separately and together; `Sizes` has a size on each side of each limit.
- **Exports**: two race; the third arrives when the race is decided. Reports: lists of 2 items and 3
  members, 2 causes, at the real depths 4 and 16, with events one level and one item past each.
  Chains: `MaxChains` 4 is two extensions of each of two copies; `MaxForeign` 2 an edit and what is
  made of it.
- **Trail**: three clients, so that a record can fail between two confirmed ones, or after two; with
  room for two the third record is the first that does not fit.
- **Surface**: two clients are enough for a lease and its violator; `MaxAttempts` is 2 (8 in the
  code), a first attempt and a last; the arrays reach index 10, where byte order and numeric order
  part; numbers have up to 3 digits (`MaxDigits`, 1024 in the code) so that a canonical form can get
  too long, and all four signs, fractions and exponents around them; `MaxWritten` 2 and
  `MaxEffective` 3 (4096 and 5120) are reached too, and `Scale` makes every value an integer.

## 4. Fairness

- `HealSession!FairSpec`: weak fairness of `Step`, because a host call returns or throws and the code
  then goes on; strong fairness of each `Destroy(t)`, because the session is an object that its
  owner destroys in the end, and which is not destroyed while one of its calls runs. There
  is no fairness of the calls, the crash or the environment.
- `AuditStore!FairSpec`: weak fairness of the steps of each sink. A record that waits for the mutex
  is not assumed to get it before the others; it can only starve if others record for ever, which
  the bound on events excludes and a host that ends also excludes.
- `AtomicPublish!FairSpec`, `DiagnosticExport!FairSpec`: weak fairness of the steps of a call in
  progress; a call that waits for the mutex is not assumed to get it. `CallsReturn` of
  `AtomicPublish` says that the mutex is free again and again.
- `HealEngine!Spec`: weak fairness of the steps of the running command; edits are not fair.
  `AshBinding`: weak fairness of what each thread still has to retain and to return; new calls are
  not fair. `MCSemanticHost!HostSpec` states both for the behaviours of the run.
- `SurfaceSession!Spec`: weak fairness of each client's next step. A client that is refused a mutex or
  a handle waits or fails as the code does; nothing is assumed of crashes.

`MutationResolves` excepts a process that dies; that destruction itself abandons no recovery is its
first conjunct.

## 5. Proofs

tlapm checks every theorem for every value of the constants that satisfies the `ASSUME`s of the
module. Most of these assumptions only say what kind of value a constant is; theorems with a stronger
hypothesis state it themselves. Four say something of the definitions the program is pinned to by
their hashes, and TLC evaluates them on those definitions: `LinearAssumption` and `ApartAssumption`
(the code words are a linear code, and none leads from one recognized state to another),
`RulesAssumption` (the rules lead to the zero state) and `ProfilesAssumption` (the adopted profiles
declare the same status for each defect). `PartsAssumption` gives every list an index per item the
retention rule keeps, and indices are no keys; `TamperingsAssumption` says that what a host writes into a
snapshot is a tree. A tree of JSON values has finitely many nodes, wherever it comes from (`IsDocument`).
`EventsAssumption` says of an event what its types say (`Diagnostics.h`): its errors are objects with a
kind, a code and a list of causes that starts at the first index and has no gaps; its outcome is one of
the six; its operation is a hash or "unavailable". Nothing is said of its evidence, or of how deep and
how long its lists of errors are.

The surface repair assumes what text and the parser guarantee. `NamesAssumption`: strings are told apart,
and the empty one is among them. `NumeralsAssumption`: so are numerals, which are not empty and have no
dot. `DottedAssumption`: a string with a dot has at least two parts without one and sorts after its
beginning. `DocumentsAssumption`: a parsed document is a tree whose arrays have an element per index.
`NumbersAssumption`: a lexeme has digits before its point, and `Scale` is large enough to make the
values of accepted lexemes whole. `LimitsAssumption`: a coefficient has no more digits than the
effective exponent allows (1024 and 5120 in the code). Names, documents, rules and numbers are otherwise
arbitrary: names may be empty, hold dots or look like indices.

| Theorem | States | Hypothesis |
| --- | --- | --- |
| `HealSession_proofs!TypeCorrect` | `[]TypeOK` | |
| `...!FailureSettles` | a kept failure leaves no recovery pending | |
| `...!RollbackIsInert` | `executeRollback` never restores anything itself | |
| `...!StoredEventsStay` | no stored event is rewritten, and only a write that is cut off removes one | no changes by others, as the property says |
| `...!MutationStaysRecoverable` | a changed target always has its backup, and its start on record unless a later write of the session was cut off | no changes by others, as the property says |
| `...!TrailNeverBehind` | the file is the chain in memory, or that and one unconfirmed event, or after a write that was cut off a beginning of it | no changes by others, as the property says |
| `...!TargetStaysLeased` | a pending or failed recovery keeps the lease | no nonstandard exceptions |
| `...!RestorationIsTrue` | a claimed restoration has happened | no nonstandard exceptions; for the claim on record no changes by others, as the property says |
| `...!FailureStaysFinal` | after a kept failure no claim changes and the held target is not written | |
| `...!HealedStaysExpected` | the completing step leaves the approved result and HEALED on record | |
| `...!VerdictIsSingle` | never both healed and failed, in memory or on record | no nonstandard exceptions, no changes by others, one calling thread |
| `...!SessionImplementsContract` | `HealSession` implements `HealContract` | only host faults and crashes, no write cut off |
| `HealEngine_proofs!PlanIsOpen` | a plan is for an open lifecycle; empty only in the catalog | |
| `...!OnlyOneRecovery` | the policy leaves one recovery; its target is unique in its orbit | |
| `...!MappingIsDeclared` | `project()` does what every adopted profile declares | |
| `...!RetentionStays` | references of a provider resolve, within its budgets | |
| `...!PlansStaySound` | a generated plan can be emitted and normalizes its seed | |
| `...!SuccessHolds`, `...!OnlyAuthorisedSteps`, `...!TerminalHolds` | success is true when decided; only the bound target is touched; a terminal lifecycle stays terminal | |
| `AuditStore_proofs!StoredHistory` | capacities kept; the file is a history that decodes; its events resolve | |
| `...!ConfirmedIsKept` | confirmed events stay | one process and no cut-off write, as the property says |
| `...!CutOffIsFrozen` | a cut-off file is never written again | one process, as the property says |
| `...!SessionsDoNotMeet` | unrelated sessions do not refuse each other | enough room, as the property says |
| `AtomicPublish_proofs!TypeCorrect`, `...!FileAlwaysWhole`, `...!OneEffect`, `...!OutcomesHonest`, `...!StagingReported`, together `...!PublicationStaysSound` | types; whole file, one effect, honest outcomes | |
| `...!ReceiptsStay` | a confirmed append is not undone by its own process | |
| `DiagnosticCollector_proofs!EveryLossCounted`, `...!EveryFailureReported` | every captured event is kept or counted; every failed capture is reported by its session | |
| `...!QueueStaysSound` | types; events kept within their limits, by number and bytes | |
| `...!TimelineStaysOrdered`, `...!ReportsAreFresh`, together `...!TimelineStaysHonest` | order and freshness | |
| `DiagnosticExport_proofs!TypeCorrect`, `...!PairAlwaysWhole`, `...!CompletedStays`, `...!FailureAlwaysLocates`, together `...!ExportStaysSound` | the destination is whole, the winner stays, failures are located | |
| `...!ChainsStaySound` | what factories make is accepted, accepted chains run forwards, references resolve | |
| `...!ReportsAreClean` | a report is a tree of listed keys and values | |
| `...!ReportsStayFaithful` | a report repeats the snapshot, is settled, and lacks nothing that was not counted | the clock writes the known form, for the first part, as the property says |
| `SurfaceSession_proofs!DriftIsDetected` | `hasDrift` and `analyze` agree on finite documents | |
| `...!LeasesIsolate`, `...!OriginalStays`, `...!RestorationsExact`, together `...!FilesStayGuarded` | leases, backups and restorations | |
| `...!PolicyDecides` | what the policy found of the desired document decides about the file | |
| `...!RepairsAreFinished` | after a repair confirmed under a lease another plan is empty, and the rules hold | |
| `...!RepairsStaySound` | all of `RepairSound`: besides that, undesired keys of a confirmed repair keep their values, and the quick check for drift agrees with the analysis | undesired keys: no root member without a name, as the property says |
| `...!DocumentsComeBack`, `...!TextStaysFaithful` | a document is got back from its flattened form; canonical numbers are exact | regular documents, as the property says; digits and exponents within the code's limits |
| `...!TrailStays`, `...!DamageIsLeft`, together `...!TrailStaysSound` | a confirmed event of the legacy trail is lost only by a write that failed, was refused or died; a trail cut off within a record is left as it is | one process, as the property says |

`Untampered` excludes other processes that change the files: somebody who deletes the backup makes
any promise about it false. What the session does to its own files is not excluded, but for
`SessionImplementsContract`, where a record of the start that its own later write cuts off would
uncover the document. `VerdictIsSingle` needs one thread because a foreign thread's
`prepareExecution` fails a completed session (section 6).

**The arguments.** None of the invariants is inductive by itself.

- *Session.* `Order` says which parts of the state can be set at which point of a call (a context
  only with a backup, an armed recovery only with a context, what holds at each stage of a
  restoration). Without it `FailureSettlesRecovery` breaks in states that combine a kept failure
  with the middle of an execution. `Recoverable` extends it by what the audit file holds: the
  memory is a prefix of the file, at most one event behind, unless a write was cut off; `STARTED` is in
  memory from the moment `armed` is set, so that every later write brings it back, and in a file that
  is sound. `Leased` ties the lease to `armed` and `mutation`. `Restored` follows a restoration
  from the compared backup to the record of it, `Final` says what a kept failure and a completion
  exclude from the file. `Truth` and `Started` add, for the refinement, what the verdict depends on: a
  `PASSED` verification that has not been followed by a write implies the approved target.
- *Session, claims.* `FailureStaysFinal` needs that a kept failure excludes a pending recovery;
  `HealedStaysExpected` that the kept verification belongs to the last write, because `complete()`
  does not look at the target again.
- *Refinement.* Initial states map to `Init` of the contract. Steps are grouped by what they do to
  `target`, `backup`, `durable` and the three flags behind the verdict; most of them stutter, the
  remaining ones are `Arm`, `Write` or `Conclude`.
- *Engine.* The facts about a plan hold of the request, which a command does not change; the target
  does change. So the invariant (`Files`, `PlanCarried`, `Witnessed`, `Judged`) carries what the plan
  said from the point where it was made to the point where the file is compared with it again.
  `ScenariosAssumption` asks that a registry has an entry of least rank, so that the fallback is an
  entry of it.
- *One recovery.* `RecoveryInv` adds to that invariant the types and what a command has claimed. By
  linearity two recognized states of one orbit differ by a code word, so they are the same.
  `TypeOK` needs that `ParseCommand`, a fold over the arguments, returns a record of its type.
- *Provider.* The chains of one call are retained one at a time between those of other threads, so
  the invariant is about what is still to be done: what a running call will give is already retained
  or in its list (`Working`), what is handed out is retained (`Given`), and both budgets count what
  is there (`Stored`). A plan ends where it says because each transition of `Walk` is a code word.
- *Audit store.* `StoreInv` says that every file or copy of a file that exists anywhere is a history
  a new sink accepts (`Good`), that what a sink registered resolves what it recorded (`Registers`),
  and who is inside the mutex (`Locked`). `KeptInv` carries `AcknowledgedKept` through a rewrite: while the
  file is open, the copy in the writer's memory has what was confirmed. `TornInv` says that a
  cut-off file is in nobody's hands. For `HealthyNeverRefused` the invariant ties each line to the one sink
  that wrote it and to the events of its session (`Wrote`, `Owned`), so that no other session can
  find an event of its own missing or a foreign chain under its request.
- *Publication.* A rename gives the file a new identity, which makes every measurement taken before it
  out of date. Between a measurement and its rename a publisher holds `publicationMutex` of its
  process, so within a process no other rename comes in between; from that follow `ReceiptKept` and,
  with the identity in the capability, `UsedOnce`.
- *Surface.* `Exclusive` says that a leased file has no other writer, in the table or by a handle; the
  local invariant of a client says what it has compared: its backup with its observation before it
  writes, the file with its observation after a restoration. `RepairsAreFinished` follows from the last
  comparison, because the lease lasts until it is released.
- *Repair.* That undesired keys stay cannot be said of one action: `set` passes over parts, replaces nulls
  and what is below its target, and only the verification notices. So the argument goes back from the end.
  A document a plan left behind with the desired keys in it shows that every action went straight to the
  node its key spells (`AllStraight`): had one been passed over at an array, the array would still be there
  (containers are never removed by what was planned) and the key would not. A straight action changes
  only leaves it was meant for and nulls above them (`Remains`). What is left is how nodes are spelled:
  several leaves may spell one key and the last one visited counts (`VisitsOrder`); actions add only leaves
  without dots in their names, and these are visited before the others (`UncleanLater`). `RepairInv` carries the result from
  the application of a plan through the write to the verification, and says that every content of a file
  or backup is a document.
- *Paths.* The keys of a flattened document come back in the order of their bytes, so arrays are padded
  with nulls before their elements arrive, and "10" comes before "2". The invariant of the fold is
  `Partial`: every node is one of the document, with its value or a null that holds the place of an array's
  element. A path of the document never throws on such a part and leaves one (`DescendRight`,
  `AssignRight`), and keeps the leaves that are there (`SetRight`). With all leaves a part is the whole,
  because each node has a leaf below it (`LeafBelow`).
- *Numbers.* A canonical form shows at each decimal place the digit the lexeme has there (`StandsFor`),
  and has no zero in front or at the end but one before the point (`Normal`), so two forms that show the
  same are the same (`SameForm`). Values are folds over digits; by induction over the places, zeros in front
  do not matter (`LeadingZeros`) and the first place that differs decides (`FirstDecides`), which is what
  the comparison looks at.
- *Trail.* Of clients with one file system object only one is in `record`, and what it is about to
  write holds all that was confirmed and not lost before (`TrailHeld`): nothing is confirmed between
  its reading and its write. A write that fails or dies counts what is missing from what it left. A
  client that is about to empty the trail has found it whole, so a damaged one is nobody's to write.
- *Collector.* Lengths and counters are tracked by one lemma on dropping events at the front
  (`KeptEvents`, `Shift`). `Owed` is the inductive form of `FailureReported`: a session in the
  handler owes one report, and one that has been counted sees `failures > before`. `Ordered` adds to
  `TimelineOrdered` that no event is newer than the counters. The bytes of the queue are a fold over
  it, which a lemma turns into a running total that dropping and adding an event change by its size.
- *Chains.* An identity is the value a digest is taken of, so it spells the diagnostic and, through the
  identity of its parent, the chain before it (`Spelled`). Two accepted chains with one diagnostic in
  common are therefore the same up to it (`SameTrail`), by induction over the distance from the root.
- *Reports.* `ReportInv` says that a snapshot is a tree from capture on, also after edits. Cleaning keeps
  a node only with all its ancestors, under listed keys and with listed values (`CheckedIs`), and that survives taking
  the evidence out (`Frame`), cleaning both by their own rules and grafting them together again.
  For `ReportsStayFaithful` the invariant adds that no node of a report would be counted by another
  cleaning (`Clear`). A node is counted because of its key, its value or its depth, which it keeps
  (`KeptStays`), and what is cut only makes room in front of the nodes that stay. So no path is dropped
  for its place either, and the number of nodes tells them all to be there, because documents are finite.
  A captured document is clear as well (`DocumentClear`): it is put together from clear ones, and each
  level adds one to the depth (`Reads`), which ends at 13 of 16, errors in errors included. The other way
  round, a count of zero says that no node was cut (`ShownWhole`, `ReportedWhole`): a node that is not
  reached has a first ancestor that is not, and that one was counted. For an error this needs that its
  causes have no gaps, since what is counted is their number and what is cut is those behind the limit.
- *Export.* `Placed` says a call past its rename owns the destination; `OwnPair`, a part of
  `TypeOK`, that files already checked are whole.
- *Induction.* The induction theorems of the library take an operator as parameter, which the provers
  cannot supply. `SetInduction` states induction for a subset of the naturals; a fold is described by the
  function of its intermediate results (`IsFold`, `FoldExists`), and what each step preserves the result has
  (`FoldStays`). Both are cited like any other fact.

## 6. Disagreements between code and documents

Each has a run in which TLC finds the documented statement violated; the findings in `PROJECT.json`
quote the lines.

1. `restored_not_healed`: `failAndRestore` has no `catch (...)` around the terminal record. When the
   host throws something that is no `std::exception` there, the session keeps no failure and accepts
   calls again: `complete()` relies on the verification kept from before and records HEALED over the
   restored original. By the same escape a failed restoration does not stop the session permanently,
   as SDK_GUIDE says it does.
2. `failure_not_healed`: `RESULT/HEALED` is written before it is confirmed. When the confirmation
   fails the session restores the original and reports failure, and the audit file keeps HEALED.
3. `terminal_is_terminal`: `prepareExecution` called by a foreign thread turns a completed session
   into a failed one; the other entry points reject the thread and change nothing.

Observations that contradict no document, or that the documents disclaim:

- A session that repeats a request on the same audit file can be refused, because its diagnostic
  chain is shorter than its predecessor's.
- A publication is not serialized with the audit sink of its own process, so each can overwrite the
  other's lines (the header of `WindowsAtomicFileSystem` disclaims only a cross-process
  compare-and-swap).
- A session reports a lost event of its own when another session's capture failed between its two
  readings of the shared counter.
- The policy gate's own failure is kept without a terminal record.
- The usage text promises exit code 0 for a diff without drift; built without an environment, `diff`
  always fails.
- Under the claims profile no repair is ever verified: the claims are the evidence of the state
  before, and `verify` projects the written document together with them.
- Plans are sorted by the bytes of their paths, so an array of more than ten elements is extended in
  an order that `set` refuses; the repair is rolled back.
- `JsonPath::set` overwrites a value when a part that is no index stands at an array; only the
  verification notices. A `null` that has to become an object loses its key.
- `unflatten` does not give back an array that stands right in an array: `set` pads the outer one with
  nulls, and a null becomes an object whatever the next part is. `{"a":[[1]]}` comes back with an object in
  the array. `Regular` excludes such documents; its first version did not, and the proof found them.
- A desired element behind the end of an array pads it with nulls, and a null spelled like a key of a root
  member without a name hides that key: of `{"":{"a":[1]}}` repaired to `{"a":[{},2]}` the key `a.0`
  reads null. The verification accepts it, because nobody desired the key.
- A repair that was allowed in spite of a violated rule about a desired key is always rolled back.
- A canonical number can have more digits than the parser takes back (1024); a file repaired to it
  cannot be read, and the repair is rolled back.
- Clients without a lease lose updates; two processes, or a write that fails or dies, lose events of
  the legacy trail (the comment at `AuditTrail.cpp:51` promises only that a damaged line is not passed
  over, which `DamageStays` checks). A trail cut at the end of a line is extended as if nothing had been
  in it. The record that would make the trail longer than the size limit empties it without any fault:
  `writeFile` opens the file with CREATE_ALWAYS before `writeHandle` refuses the content, where the
  audit sink of the sessions compares sizes first (`BaseAuditBindings.cpp:107`).
- Every later audit event of a session empties the file that has `STARTED` before it writes it again.
  A crash or a failure there leaves a changed target with its backup, but without the record.
- A host clock that writes times in another form than the report knows makes every export throw.
- A plain diagnostic appended to an ASH chain returns normally, and every consumer refuses the chain
  from then on. Validation does not recompute digests.
- The retention of the lean profile drops null evidence without counting it, and truncations made by
  the export itself are not reported, only its redactions.

## 7. What is only model-checked, and what is not modelled

Only model-checked:

- all liveness (`EverythingSettles`, `RecordsReturn`, `HostFinishes` with `ExitTruthful`, `ClientsEnd`,
  both `CallsReturn`): outside the prover's reach;
- the three properties that section 6 shows violated.

Abstractions a reader should know:

- A failing allocation is a host fault where the code handles it like one (`capture`); elsewhere it
  is left out.
- Hashes are taken to be injective, file identities to be unique and never reused.
- A mutex is acquired in any order; a crash frees what its process held and closes its files.
- The file system keeps a completed write. Power loss is outside the code's promises.
- Consecutive reads of the target that have to agree are one step of `HealEngine`: an edit between
  them is either seen or undone.
- In `HealEngine` the recovery session is one step, bounded by the contract that `HealSession`
  implements; another process cannot edit the target while it is leased.

Not modelled, with the reason:

- **Contracts**: constructors that check immutable values and conversions to text. What of their
  checks decides between outcomes is a guard in the modules that use them.
- **Document bindings**: captures and comparisons of documents with their hashes, no state; their
  outcomes are steps of `HealSession` and `HealEngine`.
- **Version**: a constant.
- **JSON text, Markdown, printed output**: reading and writing text is data. Numbers are the exception,
  because the equality of documents rests on their canonical form.
- **Publication of a backup**: the same function on a file nobody else opens; and the diagnostic
  chains a `WindowsAtomicFileSystem` keeps.
- **The pointer walk of `applyOperations`**: pointers of semantic documents name one of nine slots, and
  `HealSession` lets the call fail after any part of its write.
- **The policy gate's comparison** of the request with the captured policy, field by field: its three
  outcomes are in `HealSession`, the rule in `AshSemantics`.
- **The file of invariants**: its parsing; expressions and their evaluation are modelled.

## 8. Plan

Done, in this order: the session with its contract, the audit store, publication, collector and
export; then the target lease and the surface repair, the ASH semantics with the engine and the
command line, the binding providers, reports and chains; the proofs of publication, engine,
surface session and the remaining invariants of the session; and those of the audit store, the legacy
trail, the providers, the adopted policy and mapping, the queue, chains and reports; last those of the
surface repair, its paths and its numbers. Every safety property that a passing run checks is stated by a
theorem.

What could still be added:

1. Publication of the backup and its retained chains, in `AtomicPublish`.
2. `HealSession` in place of the one step `RunSession`, for two sessions of two processes on one
   target; `SurfaceSession` has the lease, `HealSession` the phases.
