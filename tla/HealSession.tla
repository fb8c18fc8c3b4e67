------------------------------ MODULE HealSession ------------------------------
(***************************************************************************)
(* The strict recovery session: NativeExecutionSession                     *)
(* (NativeExecutionBindings.cpp).  One session owns one request: it leases *)
(* the target, records its phases in a durable audit file, takes a verified*)
(* backup, applies the approved operations, verifies the result and either *)
(* completes or restores the original bytes.                               *)
(*                                                                         *)
(* Every public call holds the session's recursive mutex, so one call is   *)
(* in progress at a time; `pc` is the point that call has reached and each *)
(* action is one call to the host (file system, adapter, backup provider,  *)
(* audit sink) with the bookkeeping the code does next to it.  Between two *)
(* actions other processes may act and the process may die.  Calls the     *)
(* code refuses without changing anything (reject) are stuttering steps.   *)
(***************************************************************************)
EXTENDS Integers, Sequences, SequencesExt

CONSTANTS
  Threads,    \* the threads that call the session
  Nobody,     \* no thread
  N,          \* the number of operations of the approved plan
  MaxTrail,   \* bound: no execution or optional verification is started once
              \* the audit chain is this long
  Faults      \* which classes of fault the environment produces, see below

(***************************************************************************)
(* "host"   a host call throws, returns false or misbehaves, possibly      *)
(*          after its effect and possibly after part of a target write     *)
(* "nonstd" a host call throws something that is no std::exception         *)
(* "torn"   an audit write is cut off: it empties the file first, so only  *)
(*          the beginning of the chain is stored                           *)
(* "tamper" another process changes the backup, the audit file, or the     *)
(*          target while it is not leased                                  *)
(* "crash"  the process dies between two steps                             *)
(***************************************************************************)
FaultKinds == {"host", "nonstd", "torn", "tamper", "crash"}

ASSUME ThreadsAssumption == Nobody \notin Threads
ASSUME NAssumption == N \in Nat \ {0}
ASSUME BoundAssumption == MaxTrail \in Nat
ASSUME FaultsAssumption == Faults \subseteq FaultKinds

(* The target holds the original with the first k operations applied (0 is *)
(* the original, N the approved result) or bytes that are none of these.   *)
Garbage == -1
Docs == {Garbage} \cup 0..N

(* The audit events, named by their type or, for EXECUTE and RESULT, by    *)
(* their detail: STARTED, SUCCEEDED; HEALED, FAILED.                       *)
AuditStages ==
  {"OBSERVE", "NORMALIZE", "PROJECT", "DIAGNOSE", "CLASSIFY", "PLAN",
   "POLICY_GATE", "BACKUP", "STARTED", "SUCCEEDED", "VERIFY", "HEALED",
   "ROLLBACK", "FAILED"}
HostStages ==
  {"plan", "lease", "observe", "gate", "backup", "apply", "readback",
   "fail", "restore", "rewrite", "restored"}
Stages == AuditStages \cup HostStages \cup {"idle", "gone"}

VARIABLES
  pc, op, thr, upto,                        \* the call in progress
  owner, auditBound, leased, ctx, backed,   \* what prepareExecution acquired
  executed, armed, mutation, verification, rolled,
  complete, failure,                        \* the two final flags
  mem, wrote,                               \* audit chain in memory; write done
  durable, auditState,                      \* this chain in the audit file
  target, backup, alive

call      == <<op, thr, upto>>
authority == <<owner, auditBound, leased, ctx, backed>>
recovery  == <<executed, armed, mutation, verification, rolled>>
verdict   == <<complete, failure>>
trail     == <<mem, wrote, durable, auditState>>
world     == <<target, backup, alive>>
vars      == <<pc, call, authority, recovery, verdict, trail, world>>

FlagsOK ==
  /\ auditBound \in BOOLEAN /\ leased \in BOOLEAN
  /\ ctx \in BOOLEAN /\ backed \in BOOLEAN
  /\ armed \in BOOLEAN /\ rolled \in BOOLEAN
  /\ complete \in BOOLEAN /\ failure \in BOOLEAN
  /\ wrote \in BOOLEAN /\ alive \in BOOLEAN

ValuesOK ==
  /\ pc \in Stages
  /\ op \in {"none", "call", "complete", "destroy"}
  /\ thr \in Threads \cup {Nobody}
  /\ upto \in 0..N
  /\ owner \in Threads \cup {Nobody}
  /\ executed \in 0..N
  /\ mutation \in {"NOT_STARTED", "MAY_HAVE_MUTATED", "MUTATED",
                   "VERIFIED_RESTORED", "RESTORE_FAILED"}
  /\ verification \in {"NONE", "PASSED", "FAILED"}
  /\ mem \in Seq(AuditStages) /\ durable \in Seq(AuditStages)
  /\ auditState \in {"sound", "cut", "torn", "moved"}
  /\ target \in Docs
  /\ backup \in {"absent", "original", "damaged"}

TypeOK == FlagsOK /\ ValuesOK

Init ==
  /\ pc = "idle" /\ op = "none" /\ thr = Nobody /\ upto = 0
  /\ owner = Nobody
  /\ auditBound = FALSE /\ leased = FALSE /\ ctx = FALSE /\ backed = FALSE
  /\ executed = 0 /\ armed = FALSE /\ mutation = "NOT_STARTED"
  /\ verification = "NONE" /\ rolled = FALSE
  /\ complete = FALSE /\ failure = FALSE
  /\ mem = <<>> /\ wrote = FALSE /\ durable = <<>> /\ auditState = "sound"
  /\ target = 0 /\ backup = "absent" /\ alive = TRUE

-------------------------------------------------------------------------------
(* Control flow of a call.                                                 *)

Enter(o, t, n, stage) == op' = o /\ thr' = t /\ upto' = n /\ pc' = stage
Goto(stage)           == pc' = stage /\ UNCHANGED call
(* A destructor that has restored goes on to destroy the session's state.  *)
Return ==
  /\ pc' = IF op = "destroy" THEN "gone" ELSE "idle"
  /\ op' = "none" /\ thr' = Nobody /\ upto' = 0

Host == "host" \in Faults

(* checkTarget: the lease is held, the audit file is the bound one, the    *)
(* backup holds the original and, before any operation ran, so does the    *)
(* target.  A leased target cannot change identity.                        *)
CheckTarget(originalRequired) ==
  /\ leased
  /\ auditState # "moved"
  /\ originalRequired => target = 0
  /\ backed => backup = "original"

\* Mutant: a kept failure does not end the session.
Accepted_AfterFailure(t) ==
  /\ pc = "idle" /\ alive
  /\ ctx /\ owner = t
(* A call that passes the sticky-failure return and checkContext.          *)
Accepted(t) ==
  /\ pc = "idle" /\ alive
  /\ ~failure /\ ctx /\ owner = t

-------------------------------------------------------------------------------
(* The audit file: as a complete write left it ("sound"), or not the bound *)
(* one any more ("moved"), or as a write left it that was cut off, behind a*)
(* whole event ("cut") or within one ("torn", which no one can decode).    *)

(* auditPhase: persistChain rewrites the file with the whole chain plus one*)
(* event, readChain must return exactly that, and the file must still be   *)
(* the bound one; only then is the event part of the chain in memory.  A   *)
(* chain whose file is ahead of memory (an unconfirmed write) refuses every*)
(* later event: each event is unique, so it would rewrite a stored one.  A *)
(* file that lost whole events refuses nothing: the next write stores all. *)

\* Mutant: the stored events are not compared with the new chain.
CanPersist_Overwrites == auditState # "torn"
CanPersist == auditState # "torn" /\ IsPrefix(durable, mem)

AuditWrite ==
  /\ pc \in AuditStages /\ ~wrote /\ CanPersist
  /\ durable' = Append(mem, pc) /\ wrote' = TRUE
  /\ auditState' = (IF auditState = "moved" THEN "moved" ELSE "sound")
  /\ UNCHANGED <<mem, pc, call, authority, recovery, verdict, world>>

(* The file is emptied before it is written: a write that fails or dies    *)
(* keeps any first part of the chain, and loses stored events with it.     *)
CutOff ==
  /\ "torn" \in Faults
  /\ pc \in AuditStages /\ ~wrote /\ CanPersist
  /\ \E k \in 0..Len(mem) : durable' = SubSeq(mem, 1, k)
  /\ auditState' \in (IF auditState = "moved" THEN {"moved"} ELSE {"cut", "torn"})

Confirmed == wrote /\ auditState = "sound" /\ durable = Append(mem, pc)
Commit(stage) ==
  /\ pc = stage /\ Confirmed
  /\ mem' = durable /\ wrote' = FALSE
  /\ UNCHANGED <<durable, auditState>>

(* auditPhase throws: before, during or after the write.                   *)
AuditThrows ==
  /\ pc \in AuditStages
  /\ \/ /\ Host \/ (IF wrote THEN ~Confirmed ELSE ~CanPersist)
        /\ UNCHANGED <<durable, auditState>>
     \/ CutOff
  /\ wrote' = FALSE
  /\ UNCHANGED <<mem, authority, world>>

\* Mutant: a recording failure before the mutation does not stop it.
AuditFails_Proceeds ==
  /\ AuditThrows
  /\ IF pc = "FAILED"
     THEN failure' = TRUE /\ Return
     ELSE failure' = failure /\ Goto(IF pc = "STARTED" THEN "apply" ELSE "FAILED")
  /\ UNCHANGED <<complete, recovery>>
(* What the code does with a std::exception out of auditPhase: the owning  *)
(* operation fails and restores; a lost ROLLBACK or FAILED record is only  *)
(* a secondary failure.                                                    *)
AuditFails ==
  /\ AuditThrows
  /\ IF pc = "FAILED"
     THEN failure' = TRUE /\ Return
     ELSE failure' = failure /\ Goto(IF pc = "ROLLBACK" THEN "FAILED" ELSE "fail")
  /\ UNCHANGED <<complete, recovery>>

(* Anything else that is thrown: complete() and failAndRestore() have no   *)
(* catch (...), so it leaves the call and no failure is kept, unless the   *)
(* failure arose inside the try block of a caller that has one and fails   *)
(* once more; restoreAuthorized() turns a verified restoration into a      *)
(* failed one.                                                             *)
AuditFailsNonstandard ==
  /\ "nonstd" \in Faults
  /\ AuditThrows
  /\ IF pc \in {"HEALED", "FAILED"}
     THEN /\ Return \/ (pc = "FAILED" /\ op # "destroy" /\ Goto("fail"))
          /\ UNCHANGED mutation
     ELSE IF pc = "ROLLBACK"
          THEN Goto("FAILED") /\ mutation' = "RESTORE_FAILED"
          ELSE Goto("fail") /\ UNCHANGED mutation
  /\ UNCHANGED <<verdict, executed, armed, verification, rolled>>

-------------------------------------------------------------------------------
(* prepareExecution                                                        *)

CallPrepare(t) ==
  /\ pc = "idle" /\ alive /\ ~failure /\ ~ctx
  /\ Enter("call", t, 0, "plan")
  /\ UNCHANGED <<authority, recovery, verdict, trail, world>>

(* A second prepareExecution re-checks the context inside the try block: a *)
(* foreign thread or a failed check is handled like any other failure.     *)
RecallPrepare(t) ==
  /\ pc = "idle" /\ alive /\ ~failure /\ ctx
  /\ \/ owner # t
     \/ ~complete /\ (Host \/ ~CheckTarget(executed = 0))
  /\ Enter("call", t, 0, "fail")
  /\ UNCHANGED <<authority, recovery, verdict, trail, world>>

(* planCaptured fails: the failure is kept, nothing is recorded.           *)
PlanRejected ==
  /\ pc = "plan"
  /\ failure' = TRUE /\ Return
  /\ UNCHANGED <<complete, authority, recovery, trail, world>>

(* A plan without operations belongs to the read-only path.                *)
PlanEmpty ==
  /\ pc = "plan"
  /\ Goto("fail")
  /\ UNCHANGED <<authority, recovery, verdict, trail, world>>

(* A preparation repeated after a failure that was not kept has an owner   *)
(* already.  At the latest its first audit event is refused: the sink has  *)
(* seen the diagnostic chain grow past the one a new plan starts with.     *)
PlanAccepted ==
  /\ pc = "plan"
  /\ owner' = thr
  /\ \/ owner = Nobody /\ auditBound' = TRUE /\ Goto("lease") /\ UNCHANGED leased
     \/ /\ Host /\ auditBound' \in BOOLEAN /\ Goto("fail") /\ UNCHANGED leased
     \/ /\ owner # Nobody /\ auditBound' = TRUE
        /\ leased' \in BOOLEAN /\ Goto("fail")
  /\ UNCHANGED <<ctx, backed, recovery, verdict, trail, world>>

(* Another holder, or an identity that changes meanwhile, fails the        *)
(* preparation.                                                            *)
AcquireLease ==
  /\ pc = "lease"
  /\ \/ leased' = TRUE /\ Goto("observe")
     \/ leased' \in BOOLEAN /\ Goto("fail")
  /\ UNCHANGED <<owner, auditBound, ctx, backed, recovery, verdict, trail, world>>

(* The leased bytes, version and identity against the captured ones.       *)
Observe ==
  /\ pc = "observe"
  /\ \/ target = 0 /\ Goto("OBSERVE")
     \/ Goto("fail")
  /\ UNCHANGED <<authority, recovery, verdict, trail, world>>

AfterPhase ==
  [OBSERVE |-> "NORMALIZE", NORMALIZE |-> "PROJECT", PROJECT |-> "DIAGNOSE",
   DIAGNOSE |-> "CLASSIFY", CLASSIFY |-> "PLAN", PLAN |-> "gate",
   POLICY_GATE |-> "backup"]

ConfirmPhase ==
  \E stage \in DOMAIN AfterPhase :
    /\ Commit(stage) /\ Goto(AfterPhase[stage])
    /\ UNCHANGED <<authority, recovery, verdict, world>>

(* The session's own gate returns its failure without a FAILED record; a   *)
(* refusal of the host's gate goes through failAndRestore.                 *)
Gate ==
  /\ pc = "gate"
  /\ \/ Goto("POLICY_GATE") /\ UNCHANGED failure
     \/ Goto("fail") /\ UNCHANGED failure
     \/ Return /\ failure' = TRUE
  /\ UNCHANGED <<complete, authority, recovery, trail, world>>

(* createBackup, read back and compared, with checkTarget before and after.*)
(* A failing provider may leave a file behind.                             *)
TakeBackup ==
  /\ pc = "backup"
  /\ \/ CheckTarget(TRUE) /\ backup' = "original" /\ backed' = TRUE /\ Goto("BACKUP")
     \/ ~CheckTarget(TRUE) /\ UNCHANGED <<backup, backed>> /\ Goto("fail")
     \/ /\ Host /\ Goto("fail")
        /\ backup' \in {backup, "original", "damaged"} /\ (backed' = TRUE \/ UNCHANGED backed)
  /\ UNCHANGED <<owner, auditBound, leased, ctx, recovery, verdict, trail, target, alive>>

ConfirmBackup ==
  /\ Commit("BACKUP") /\ ctx' = TRUE /\ Return
  /\ UNCHANGED <<owner, auditBound, leased, backed, recovery, verdict, world>>

-------------------------------------------------------------------------------
(* executeStep asks for all operations, applyMutation for the next one.    *)

\* Mutant: the remaining operations are not counted.
CallExecute_PastThePlan(t, n) ==
  /\ Accepted(t) /\ ~complete
  /\ n = 1 \/ (n = N /\ executed = 0)
  /\ Enter("call", t, executed + n, "STARTED")
  /\ UNCHANGED <<authority, recovery, verdict, trail, world>>
CallExecute(t, n) ==
  /\ Accepted(t) /\ ~complete
  /\ executed + n <= N /\ Len(mem) < MaxTrail
  /\ n = 1 \/ (n = N /\ executed = 0)
  /\ LET ready == CheckTarget(executed = 0) /\ target = executed
     IN  \/ ready /\ Enter("call", t, executed + n, "STARTED")
         \/ (Host \/ ~ready) /\ Enter("call", t, executed + n, "fail")
  /\ UNCHANGED <<authority, recovery, verdict, trail, world>>

ConfirmStarted ==
  /\ Commit("STARTED") /\ Goto("apply")
  /\ armed' = TRUE /\ mutation' = "MAY_HAVE_MUTATED"
  /\ UNCHANGED <<executed, verification, rolled, authority, verdict, world>>

(* The adapter; when it fails, part of its write may have been done.       *)
Apply ==
  /\ pc = "apply"
  /\ \/ target' = upto /\ Goto("readback")
     \/ /\ Host
        /\ target' \in {Garbage} \cup executed..upto
        /\ Goto("readback") \/ Goto("fail")
  /\ UNCHANGED <<authority, recovery, verdict, trail, backup, alive>>

Readback ==
  /\ pc = "readback"
  /\ \/ /\ target = upto /\ Goto("SUCCEEDED")
        /\ executed' = upto /\ mutation' = "MUTATED"
     \/ /\ Host \/ target # upto
        /\ Goto("fail") /\ UNCHANGED <<executed, mutation>>
  /\ UNCHANGED <<armed, verification, rolled, authority, verdict, trail, world>>

ConfirmSucceeded ==
  /\ Commit("SUCCEEDED") /\ Return
  /\ UNCHANGED <<authority, recovery, verdict, world>>

-------------------------------------------------------------------------------
(* verify and complete                                                     *)

(* verify on its own, or from complete when nothing was verified yet.  The *)
(* verdict is kept before it is recorded.                                  *)
CallVerify(t, o) ==
  /\ Accepted(t) /\ ~complete
  /\ ~rolled /\ executed = N
  /\ IF o = "call" THEN Len(mem) < MaxTrail ELSE verification = "NONE"
  /\ \/ /\ CheckTarget(FALSE) /\ Enter(o, t, 0, "VERIFY")
        /\ verification' \in {"FAILED"} \cup (IF target = N THEN {"PASSED"} ELSE {})
     \/ /\ Host \/ ~CheckTarget(FALSE)
        /\ Enter(o, t, 0, "fail") /\ UNCHANGED verification
  /\ UNCHANGED <<executed, armed, mutation, rolled, authority, verdict, trail, world>>

\* Mutant: the verdict of the verification is not looked at.
ConfirmVerify_AnyVerdict ==
  /\ Commit("VERIFY")
  /\ IF op = "complete" THEN Goto("HEALED") ELSE Return
  /\ UNCHANGED <<authority, recovery, verdict, world>>
ConfirmVerify ==
  /\ Commit("VERIFY")
  /\ IF verification = "FAILED" THEN Goto("fail")
     ELSE IF op = "complete" THEN Goto("HEALED") ELSE Return
  /\ UNCHANGED <<authority, recovery, verdict, world>>

(* complete with a kept verdict: the target is not read again.             *)
CallComplete(t) ==
  /\ Accepted(t) /\ ~complete
  /\ verification # "NONE"
  /\ Enter("complete", t, 0, IF verification = "PASSED" THEN "HEALED" ELSE "fail")
  /\ UNCHANGED <<authority, recovery, verdict, trail, world>>

ConfirmHealed ==
  /\ Commit("HEALED") /\ Return
  /\ complete' = TRUE /\ armed' = FALSE /\ leased' = FALSE
  /\ UNCHANGED <<failure, executed, mutation, verification, rolled,
                 owner, auditBound, ctx, backed, world>>

-------------------------------------------------------------------------------
(* failAndRestore and restoreAuthorized                                    *)

Fail ==
  /\ pc = "fail"
  /\ \/ armed /\ Goto("restore") /\ UNCHANGED failure
     \/ ~armed /\ auditBound /\ Goto("FAILED") /\ UNCHANGED failure
     \/ ~armed /\ ~auditBound /\ Return /\ failure' = TRUE
  /\ UNCHANGED <<complete, authority, recovery, trail, world>>

(* The bytes at the time of the failure are hashed first; a host that      *)
(* throws something nonstandard here ends the call before any restoration. *)
FailEscapes ==
  /\ pc = "fail" /\ "nonstd" \in Faults
  /\ leased /\ owner = thr
  /\ Return
  /\ UNCHANGED <<authority, recovery, verdict, trail, world>>

MayRestore == ctx /\ backed /\ owner = thr /\ CheckTarget(FALSE)

\* Mutant: a failed restoration leaves the mutation state as it was.
RestoreFailed_Forgotten == UNCHANGED mutation /\ Goto("FAILED")
RestoreFailed == mutation' = "RESTORE_FAILED" /\ Goto("FAILED")

AuthoriseRestore ==
  /\ pc = "restore"
  /\ \/ MayRestore /\ Goto("rewrite") /\ UNCHANGED mutation
     \/ (Host \/ ~MayRestore) /\ RestoreFailed
  /\ UNCHANGED <<executed, armed, verification, rolled, authority, verdict, trail, world>>

(* restoreBackup copies whatever the backup file holds by now; a provider  *)
(* may fail half-way, or claim what it did not do.                         *)
RestoreBackup ==
  /\ pc = "rewrite"
  /\ \/ /\ target' = (IF backup = "original" THEN 0 ELSE Garbage)
        /\ Goto("restored") /\ UNCHANGED mutation
     \/ /\ Host /\ target' \in {target, 0, Garbage}
        /\ RestoreFailed \/ (Goto("restored") /\ UNCHANGED mutation)
  /\ UNCHANGED <<executed, armed, verification, rolled, authority, verdict,
                 trail, backup, alive>>

\* Mutant: restoreBackup's answer is believed without reading the target.
ConfirmRestored_Unread ==
  /\ pc = "restored"
  /\ mutation' = "VERIFIED_RESTORED" /\ armed' = FALSE /\ rolled' = TRUE
  /\ Goto("ROLLBACK")
  /\ UNCHANGED <<executed, verification, authority, verdict, trail, world>>
(* The target is read back and compared; the restored document may also    *)
(* fail the plan's safety predicates.                                      *)
ConfirmRestored ==
  /\ pc = "restored"
  /\ \/ /\ target = 0
        /\ mutation' = "VERIFIED_RESTORED" /\ armed' = FALSE /\ rolled' = TRUE
        /\ Goto("ROLLBACK")
     \/ RestoreFailed /\ UNCHANGED <<armed, rolled>>
  /\ UNCHANGED <<executed, verification, authority, verdict, trail, world>>

ConfirmRollback ==
  /\ Commit("ROLLBACK") /\ Goto("FAILED")
  /\ UNCHANGED <<authority, recovery, verdict, world>>

\* Mutant: a failed session gives the target back.
ConfirmFailed_Releases ==
  /\ Commit("FAILED") /\ failure' = TRUE /\ Return /\ leased' = FALSE
  /\ UNCHANGED <<complete, owner, auditBound, ctx, backed, recovery, world>>
ConfirmFailed ==
  /\ Commit("FAILED") /\ failure' = TRUE /\ Return
  /\ UNCHANGED <<complete, authority, recovery, world>>

(* When executeRollback would restore: a failure is kept, recovery is still*)
(* armed and no restoration has failed.  It is never so, see below.        *)
RollbackWouldRestore ==
  failure /\ mutation # "RESTORE_FAILED" /\ verification = "FAILED" /\ backed /\ ~rolled /\ armed

-------------------------------------------------------------------------------
(* Destruction, and the environment.                                       *)

\* Mutant: destruction does not restore.
Destroy_Abandons(t) ==
  /\ pc = "idle" /\ alive /\ Goto("gone")
  /\ UNCHANGED <<authority, recovery, verdict, trail, world>>
Destroy(t) ==
  /\ pc = "idle" /\ alive
  /\ IF armed /\ ~complete /\ ~failure
     THEN Enter("destroy", t, 0, "fail")
     ELSE Goto("gone")
  /\ UNCHANGED <<authority, recovery, verdict, trail, world>>

Release ==
  /\ pc = "gone" /\ alive
  /\ alive' = FALSE /\ leased' = FALSE
  /\ UNCHANGED <<pc, call, owner, auditBound, ctx, backed, recovery, verdict,
                 trail, target, backup>>

(* The process dies; a write in progress may be partial.                   *)
Crash ==
  /\ "crash" \in Faults /\ alive
  /\ alive' = FALSE /\ leased' = FALSE /\ Enter("none", Nobody, 0, "gone")
  /\ target' \in {target} \cup (IF pc \in {"apply", "rewrite"} THEN {Garbage} ELSE {})
  /\ CutOff \/ UNCHANGED <<durable, auditState>>
  /\ UNCHANGED <<owner, auditBound, ctx, backed, recovery, verdict, mem, wrote, backup>>

DamageBackup ==
  /\ backup = "original" /\ backup' = "damaged"
  /\ UNCHANGED <<trail, target>>
(* Another process replaces the audit file, or overwrites it in place with *)
(* an older copy (a lost update).                                          *)
ReplaceAudit ==
  /\ auditBound /\ auditState # "moved"
  /\ auditState' = "moved" /\ durable' = <<>>
  /\ UNCHANGED <<mem, wrote, target, backup>>
LoseEvents ==
  /\ \E k \in 0..(Len(durable) - 1) : durable' = SubSeq(durable, 1, k)
  /\ UNCHANGED <<mem, wrote, auditState, target, backup>>
(* The lease keeps other writers out, so only an unleased target changes.  *)
EditTarget ==
  /\ ~leased /\ target # Garbage /\ target' = Garbage
  /\ UNCHANGED <<trail, backup>>
Tamper ==
  /\ "tamper" \in Faults
  /\ DamageBackup \/ ReplaceAudit \/ LoseEvents \/ EditTarget
  /\ UNCHANGED <<pc, call, authority, recovery, verdict, alive>>

-------------------------------------------------------------------------------
Calls ==
  \E t \in Threads :
    \/ CallPrepare(t) \/ RecallPrepare(t)
    \/ \E n \in 1..N : CallExecute(t, n)
    \/ \E o \in {"call", "complete"} : CallVerify(t, o)
    \/ CallComplete(t) \/ Destroy(t)

(* The steps of a call in progress.                                        *)
Step ==
  \/ PlanRejected \/ PlanEmpty \/ PlanAccepted \/ AcquireLease \/ Observe
  \/ ConfirmPhase \/ Gate \/ TakeBackup \/ ConfirmBackup
  \/ ConfirmStarted \/ Apply \/ Readback \/ ConfirmSucceeded
  \/ ConfirmVerify \/ ConfirmHealed
  \/ Fail \/ FailEscapes \/ AuthoriseRestore \/ RestoreBackup \/ ConfirmRestored
  \/ ConfirmRollback \/ ConfirmFailed
  \/ AuditWrite \/ AuditFails \/ AuditFailsNonstandard
  \/ Release

Next == Calls \/ Step \/ Crash \/ Tamper

Spec == Init /\ [][Next]_vars

(* A call never waits for another: host calls return or throw, so a call in*)
(* progress goes on.  The owner does not keep a session for ever: whenever *)
(* no call is in progress it may destroy it, and in the end it does.       *)
FairSpec ==
  /\ Spec
  /\ WF_vars(Step)
  /\ \A t \in Threads : SF_vars(Destroy(t))

-------------------------------------------------------------------------------
(* What the session promises.                                              *)

(* No other process interferes with the files.                             *)
Untampered == "tamper" \notin Faults

(* MutationIsRecoverable: whenever the target differs from the original,   *)
(* also after the process died, the backup file holds the original, and the*)
(* audit file says that an execution started unless a later write of the   *)
(* session itself was cut off and took that record with it; when the       *)
(* adapter is called the record is there in any case (auditPhase before    *)
(* armed and applyOperations, the verified backup before the context).     *)
MutationIsRecoverable ==
  Untampered =>
    /\ target # 0 =>
         backup = "original" /\ (auditState = "sound" => Contains(durable, "STARTED"))
    /\ pc = "apply" => backup = "original" /\ Contains(durable, "STARTED")

(* LeaseHeld: while recovery is pending, and after a restoration failed,   *)
(* the session keeps its exclusive lease until it is destroyed.            *)
LeaseHeld ==
  alive /\ (armed \/ mutation = "RESTORE_FAILED") => leased

(* RestoredIsOriginal: the session and its audit file claim a restoration  *)
(* only while the target is byte for byte the original.                    *)
RestoredIsOriginal ==
  /\ mutation = "VERIFIED_RESTORED" /\ leased => target = 0
  /\ Untampered /\ Contains(durable, "ROLLBACK") => target = 0

(* HealedIsExpected: the step that completes the session leaves a verified,*)
(* approved result in the target and HEALED last in the audit file,        *)
(* although complete() relies on a verification of an earlier call.        *)
HealedIsExpected ==
  [][complete' # complete =>
       /\ target' = N /\ mutation' = "MUTATED" /\ ~rolled'
       /\ verification' = "PASSED" /\ Last(durable') = "HEALED"]_vars

(* FailureIsFinal: after a kept failure no call changes what the session   *)
(* claims, and none writes the target it still holds.                      *)
FailureIsFinal ==
  [][failure => /\ failure' /\ mutation' = mutation /\ complete' = complete
                /\ leased => target' = target]_vars

(* FailureSettlesRecovery: when a failure is kept, the recovery it called  *)
(* for is over: done, not needed, or failed for good.                      *)
FailureSettlesRecovery ==
  failure => ~armed \/ mutation = "RESTORE_FAILED"

(* TrailMatches: the audit file is at most one, unconfirmed, event ahead of*)
(* the chain in memory, and behind it only after a write that was cut off  *)
(* (auditPhase commits after readback).                                    *)
TrailMatches ==
  Untampered =>
    \/ durable = mem
    \/ \E e \in AuditStages : durable = Append(mem, e)
    \/ auditState # "sound" /\ IsPrefix(durable, mem)

(* DurableAppendOnly: no step of the session rewrites a stored event       *)
(* (requireAppendOnly), whatever failed before, and only a write that is   *)
(* cut off removes one: what it leaves is a beginning of the chain.        *)
DurableAppendOnly ==
  [][Untampered => \/ IsPrefix(durable, durable')
                   \/ auditState' # "sound" /\ IsPrefix(durable', mem)]_vars

(* OneVerdict: with one calling thread a session never both heals and      *)
(* fails, in memory or in its audit file.                                  *)
OneVerdict ==
  /\ ~(complete /\ failure)
  /\ ~(Contains(durable, "HEALED") /\ Contains(durable, "FAILED"))

(* CallReturns: every call returns, whatever the host does.                *)
CallReturns == pc \notin {"idle", "gone"} ~> pc \in {"idle", "gone"}

(* MutationResolves: an armed recovery ends: completed, restored, or       *)
(* recorded as failed.  The destructor sees to it when no call does; only  *)
(* a process that dies leaves it open.                                     *)
Resolved == ~armed \/ mutation = "RESTORE_FAILED"
MutationResolves ==
  /\ [](pc = "gone" /\ alive => Resolved)
  /\ armed ~> Resolved \/ ~alive

-------------------------------------------------------------------------------
(* The session implements HealContract, with any number of threads, while  *)
(* the host only fails with standard exceptions, no audit write is cut off *)
(* and nobody else touches the files.  A completed session that a foreign  *)
(* thread makes fail afterwards still counts as healed.                    *)

SessionVerdict ==
  IF complete THEN "healed"
  ELSE IF ~failure THEN "open"
  ELSE IF mutation = "VERIFIED_RESTORED" THEN "restored"
  ELSE IF mutation = "RESTORE_FAILED" THEN "stuck"
  ELSE "rejected"

Covered == backup = "original" /\ Contains(durable, "STARTED")

Contract == INSTANCE HealContract WITH
  Original <- 0, Approved <- N, doc <- target, cover <- Covered,
  verdict <- SessionVerdict

(* ImplementsContract: writes are covered, the verdict is final and true,  *)
(* and the document is left alone after it.                                *)
ImplementsContract == Contract!Spec

-------------------------------------------------------------------------------
(* What the documents say and the code does not keep.                      *)

(* RestoredIsNotHealed: a restoration never implies HEALED (the mapping    *)
(* contract): a session that restored the original does not complete.      *)
RestoredIsNotHealed == complete => mutation # "VERIFIED_RESTORED"

(* FailureIsNotHealed: no success is recorded for a session that failed.   *)
FailureIsNotHealed == failure => ~Contains(durable, "HEALED")

(* TerminalIsTerminal: a completed session stays completed (the mapping    *)
(* contract), whichever thread calls it next.                              *)
TerminalIsTerminal == complete => ~failure

(* EverythingSettles: every call returns, and every recovery that was      *)
(* armed is settled.                                                       *)
EverythingSettles == CallReturns /\ MutationResolves
===============================================================================
