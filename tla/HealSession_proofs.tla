-------------------------- MODULE HealSession_proofs ---------------------------
(***************************************************************************)
(* Theorems about HealSession, for any number of threads and operations.   *)
(*                                                                         *)
(* Order says where a call can be, given what the session holds and has    *)
(* claimed; it is inductive under every class of fault.  Recoverable,      *)
(* Leased, Truth and Started build on it, each under the assumption on     *)
(* Faults that its theorem states.  A proof that a step preserves one of   *)
(* them has a case for each action; the truth values of the flags are      *)
(* typed apart (FlagsOK) because no prover takes both parts of TypeOK.     *)
(***************************************************************************)
EXTENDS HealSession, SequenceTheorems, TLAPS

USE NAssumption

-------------------------------------------------------------------------------
(* Types.                                                                  *)

(* The phases of the preparation follow each other and end at the gate or  *)
(* the backup.                                                             *)
LEMMA PhaseOrder ==
  \A stage \in DOMAIN AfterPhase :
    /\ stage \in {"OBSERVE", "NORMALIZE", "PROJECT", "DIAGNOSE", "CLASSIFY", "PLAN",
                  "POLICY_GATE"}
    /\ AfterPhase[stage] \in {"NORMALIZE", "PROJECT", "DIAGNOSE", "CLASSIFY",
                              "PLAN", "gate", "backup"}
BY DEF AfterPhase

(* A lost update leaves a sequence of audit events.                        *)
LEMMA PrefixType ==
  ASSUME NEW S, NEW s \in Seq(S), NEW k \in 0..(Len(s) - 1)
  PROVE  SubSeq(s, 1, k) \in Seq(S)
<1>1. \A i \in 1..k : s[i] \in S
  OBVIOUS
<1>2. QED
  BY <1>1, SubSeqProperties

(* A write that is cut off stores a beginning of the chain in memory and   *)
(* leaves a file that is not as a complete write leaves it.                *)
LEMMA CutOffShape ==
  ASSUME mem \in Seq(AuditStages), CutOff
  PROVE  /\ durable' \in Seq(AuditStages) /\ IsPrefix(durable', mem)
         /\ auditState' \in {"cut", "torn", "moved"} /\ pc \in AuditStages
<1>1. PICK k \in 0..Len(mem) : durable' = SubSeq(mem, 1, k)
  BY DEF CutOff
<1>2. /\ durable' \in Seq(AuditStages) /\ Len(durable') = k
      /\ \A i \in 1..k : durable'[i] = mem[i]
  <2>1. \A i \in 1..k : mem[i] \in AuditStages
    OBVIOUS
  <2>2. QED
    BY <1>1, <2>1, SubSeqProperties
<1>3. IsPrefix(durable', mem)
  BY <1>2 DEF IsPrefix
<1>4. QED
  BY <1>2, <1>3 DEF CutOff

(* A recording that throws changes nothing in the audit file, or cuts off. *)
LEMMA ThrowsShape ==
  ASSUME ValuesOK, AuditThrows
  PROVE  /\ pc \in AuditStages /\ ~wrote' /\ UNCHANGED <<mem, authority, world>>
         /\ \/ UNCHANGED <<durable, auditState>>
            \/ /\ "torn" \in Faults
               /\ durable' \in Seq(AuditStages) /\ IsPrefix(durable', mem)
               /\ auditState' \in {"cut", "torn", "moved"}
<1>1. mem \in Seq(AuditStages)
  BY DEF ValuesOK
<1>2. QED
  BY <1>1, CutOffShape DEF AuditThrows, CutOff

LEMMA FlagsStep ==
  ASSUME FlagsOK, [Next]_vars PROVE FlagsOK'
<1> USE DEF FlagsOK, Enter, Goto, Return,
            call, authority, recovery, verdict, trail, world
<1>1. ASSUME NEW t \in Threads, CallPrepare(t) PROVE FlagsOK'
  BY <1>1 DEF CallPrepare
<1>2. ASSUME NEW t \in Threads, RecallPrepare(t) PROVE FlagsOK'
  BY <1>2 DEF RecallPrepare
<1>3. ASSUME NEW t \in Threads, NEW n \in 1..N, CallExecute(t, n) PROVE FlagsOK'
  BY <1>3 DEF CallExecute
<1>4. ASSUME NEW t \in Threads, NEW o \in {"call", "complete"}, CallVerify(t, o)
      PROVE  FlagsOK'
  BY <1>4 DEF CallVerify
<1>5. ASSUME NEW t \in Threads, CallComplete(t) PROVE FlagsOK'
  BY <1>5 DEF CallComplete
<1>6. ASSUME NEW t \in Threads, Destroy(t) PROVE FlagsOK'
  BY <1>6 DEF Destroy
<1>7. CASE PlanRejected \/ PlanEmpty
  BY <1>7 DEF PlanRejected, PlanEmpty
<1>8. CASE PlanAccepted
  BY <1>8 DEF PlanAccepted
<1>9. CASE AcquireLease \/ Observe
  BY <1>9 DEF AcquireLease, Observe
<1>10. CASE ConfirmPhase
  BY <1>10 DEF ConfirmPhase, Commit
<1>11. CASE Gate
  <2>1. failure' = failure \/ failure' = TRUE
    BY <1>11 DEF Gate
  <2>2. UNCHANGED <<complete, authority, recovery, trail, world>>
    BY <1>11 DEF Gate
  <2>3. QED
    BY <2>1, <2>2
<1>12. CASE TakeBackup
  <2>1. backed' = backed \/ backed' = TRUE
    BY <1>12 DEF TakeBackup
  <2>2. UNCHANGED <<owner, auditBound, leased, ctx, recovery, verdict, trail, target, alive>>
    BY <1>12 DEF TakeBackup
  <2>3. QED
    BY <2>1, <2>2
<1>13. CASE ConfirmBackup
  BY <1>13 DEF ConfirmBackup, Commit
<1>14. CASE ConfirmStarted
  BY <1>14 DEF ConfirmStarted, Commit
<1>15. CASE Apply \/ Readback
  BY <1>15 DEF Apply, Readback
<1>16. CASE ConfirmSucceeded
  BY <1>16 DEF ConfirmSucceeded, Commit
<1>17. CASE ConfirmVerify
  BY <1>17 DEF ConfirmVerify, Commit
<1>18. CASE ConfirmHealed
  BY <1>18 DEF ConfirmHealed, Commit
<1>19. CASE Fail \/ FailEscapes
  BY <1>19 DEF Fail, FailEscapes
<1>20. CASE AuthoriseRestore \/ RestoreBackup
  BY <1>20 DEF AuthoriseRestore, RestoreBackup, RestoreFailed
<1>21. CASE ConfirmRestored
  BY <1>21 DEF ConfirmRestored, RestoreFailed
<1>22. CASE ConfirmRollback \/ ConfirmFailed
  BY <1>22 DEF ConfirmRollback, ConfirmFailed, Commit
<1>23. CASE AuditWrite
  BY <1>23 DEF AuditWrite
<1>24. CASE AuditFails
  BY <1>24 DEF AuditFails, AuditThrows
<1>25. CASE AuditFailsNonstandard
  BY <1>25 DEF AuditFailsNonstandard, AuditThrows
<1>26. CASE Release \/ Crash
  BY <1>26 DEF Release, Crash
<1>27. CASE Tamper
  <2>1. UNCHANGED <<pc, call, authority, recovery, verdict, alive>>
    BY <1>27 DEF Tamper
  <2>2. wrote' = wrote
    BY <1>27 DEF Tamper, DamageBackup, ReplaceAudit, LoseEvents, EditTarget
  <2>3. QED
    BY <2>1, <2>2
<1>28. CASE UNCHANGED vars
  BY <1>28 DEF vars
<1>29. QED
  BY <1>1, <1>2, <1>3, <1>4, <1>5, <1>6, <1>7, <1>8, <1>9, <1>10, <1>11, <1>12,
     <1>13, <1>14, <1>15, <1>16, <1>17, <1>18, <1>19, <1>20, <1>21, <1>22, <1>23, <1>24,
     <1>25, <1>26, <1>27, <1>28
     DEF Next, Calls, Step

LEMMA ValuesStep ==
  ASSUME ValuesOK, [Next]_vars PROVE ValuesOK'
<1> USE DEF ValuesOK, Stages, HostStages, AuditStages, Docs, Enter, Goto, Return,
            call, authority, recovery, verdict, trail, world
<1>1. ASSUME NEW t \in Threads, CallPrepare(t) PROVE ValuesOK'
  BY <1>1 DEF CallPrepare
<1>2. ASSUME NEW t \in Threads, RecallPrepare(t) PROVE ValuesOK'
  BY <1>2 DEF RecallPrepare
<1>3. ASSUME NEW t \in Threads, NEW n \in 1..N, CallExecute(t, n)
      PROVE  ValuesOK'
  BY <1>3 DEF CallExecute
<1>4. ASSUME NEW t \in Threads, NEW o \in {"call", "complete"}, CallVerify(t, o)
      PROVE  ValuesOK'
  <2>1. verification' \in {"NONE", "PASSED", "FAILED"}
    BY <1>4 DEF CallVerify
  <2>2. pc' \in Stages /\ op' = o /\ thr' = t /\ upto' = 0
    BY <1>4 DEF CallVerify
  <2>3. UNCHANGED <<owner, executed, mutation, trail, world>>
    BY <1>4 DEF CallVerify
  <2>4. QED
    BY <1>4, <2>1, <2>2, <2>3
<1>5. ASSUME NEW t \in Threads, CallComplete(t) PROVE ValuesOK'
  BY <1>5 DEF CallComplete
<1>6. ASSUME NEW t \in Threads, Destroy(t) PROVE ValuesOK'
  BY <1>6 DEF Destroy
<1>7. CASE PlanRejected \/ PlanEmpty
  BY <1>7 DEF PlanRejected, PlanEmpty
<1>8. CASE PlanAccepted
  BY <1>8 DEF PlanAccepted
<1>9. CASE AcquireLease \/ Observe
  BY <1>9 DEF AcquireLease, Observe
<1>10. CASE ConfirmPhase
  BY <1>10, PhaseOrder DEF ConfirmPhase, Commit, Confirmed
<1>11. CASE Gate
  <2>1. pc' \in Stages
    BY <1>11 DEF Gate
  <2>2. QED
    BY <1>11, <2>1 DEF Gate
<1>12. CASE TakeBackup
  <2>1. backup' \in {"absent", "original", "damaged"} /\ pc' \in Stages
    BY <1>12 DEF TakeBackup
  <2>2. UNCHANGED <<call, owner, recovery, trail, target>>
    BY <1>12 DEF TakeBackup
  <2>3. QED
    BY <2>1, <2>2
<1>13. CASE ConfirmBackup
  BY <1>13 DEF ConfirmBackup, Commit, Confirmed
<1>14. CASE ConfirmStarted
  BY <1>14 DEF ConfirmStarted, Commit, Confirmed
<1>15. CASE Apply \/ Readback
  BY <1>15 DEF Apply, Readback
<1>16. CASE ConfirmSucceeded
  BY <1>16 DEF ConfirmSucceeded, Commit, Confirmed
<1>17. CASE ConfirmVerify
  BY <1>17 DEF ConfirmVerify, Commit, Confirmed
<1>18. CASE ConfirmHealed
  BY <1>18 DEF ConfirmHealed, Commit, Confirmed
<1>19. CASE Fail \/ FailEscapes
  BY <1>19 DEF Fail, FailEscapes
<1>20. CASE AuthoriseRestore \/ RestoreBackup
  BY <1>20 DEF AuthoriseRestore, RestoreBackup, RestoreFailed
<1>21. CASE ConfirmRestored
  BY <1>21 DEF ConfirmRestored, RestoreFailed
<1>22. CASE ConfirmRollback \/ ConfirmFailed
  BY <1>22 DEF ConfirmRollback, ConfirmFailed, Commit, Confirmed
<1>23. CASE AuditWrite
  BY <1>23 DEF AuditWrite
<1>24. CASE AuditFails
  <2>1. /\ pc' \in Stages /\ op' \in {op, "none"} /\ thr' \in {thr, Nobody} /\ upto' \in {upto, 0}
    BY <1>24 DEF AuditFails
  <2>2. UNCHANGED <<mem, authority, recovery, world>> /\ durable' \in Seq(AuditStages)
        /\ auditState' \in {"sound", "cut", "torn", "moved"}
    BY <1>24, ThrowsShape DEF AuditFails
  <2>3. QED
    BY <2>1, <2>2
<1>25. CASE AuditFailsNonstandard
  <2>1. /\ pc' \in Stages /\ op' \in {op, "none"} /\ thr' \in {thr, Nobody} /\ upto' \in {upto, 0}
        /\ mutation' \in {mutation, "RESTORE_FAILED"}
    BY <1>25 DEF AuditFailsNonstandard
  <2>2. UNCHANGED <<mem, authority, executed, verification, world>>
        /\ durable' \in Seq(AuditStages)
        /\ auditState' \in {"sound", "cut", "torn", "moved"}
    BY <1>25, ThrowsShape DEF AuditFailsNonstandard
  <2>3. QED
    BY <2>1, <2>2
<1>26. CASE Release \/ Crash
  <2>1. CASE Release
    BY <2>1 DEF Release
  <2>2. CASE Crash
    <3>1. /\ durable' \in Seq(AuditStages)
          /\ auditState' \in {"sound", "cut", "torn", "moved"}
      BY <2>2, CutOffShape DEF Crash
    <3>2. QED
      BY <2>2, <3>1 DEF Crash
  <2>3. QED
    BY <1>26, <2>1, <2>2
<1>27. CASE Tamper
  <2>1. UNCHANGED <<pc, call, authority, recovery, verdict, alive>>
    BY <1>27 DEF Tamper
  <2>2. CASE LoseEvents
    <3>1. PICK k \in 0..(Len(durable) - 1) : durable' = SubSeq(durable, 1, k)
      BY <2>2 DEF LoseEvents
    <3>2. durable' \in Seq(AuditStages)
      BY <3>1, PrefixType
    <3>3. QED
      BY <2>1, <2>2, <3>2 DEF LoseEvents
  <2>3. CASE DamageBackup
    BY <2>1, <2>3 DEF DamageBackup
  <2>4. CASE ReplaceAudit
    BY <2>1, <2>4 DEF ReplaceAudit
  <2>5. CASE EditTarget
    BY <2>1, <2>5 DEF EditTarget
  <2>6. QED
    BY <1>27, <2>2, <2>3, <2>4, <2>5 DEF Tamper
<1>28. CASE UNCHANGED vars
  BY <1>28 DEF vars
<1>29. QED
  BY <1>1, <1>2, <1>3, <1>4, <1>5, <1>6, <1>7, <1>8, <1>9, <1>10, <1>11, <1>12,
     <1>13, <1>14, <1>15, <1>16, <1>17, <1>18, <1>19, <1>20, <1>21, <1>22, <1>23, <1>24,
     <1>25, <1>26, <1>27, <1>28
     DEF Next, Calls, Step

LEMMA TypeInit == Init => TypeOK
<1>1. Init => FlagsOK
  BY DEF Init, FlagsOK
<1>2. Init => ValuesOK
  BY DEF Init, ValuesOK, Stages, HostStages, Docs
<1>3. QED
  BY <1>1, <1>2 DEF TypeOK

LEMMA TypeStep == ASSUME TypeOK, [Next]_vars PROVE TypeOK'
BY FlagsStep, ValuesStep DEF TypeOK

(* TypeCorrect: the state keeps its type whatever the host, the            *)
(* environment and the callers do.                                         *)
THEOREM TypeCorrect == Spec => []TypeOK
BY TypeInit, TypeStep, PTL DEF Spec

-------------------------------------------------------------------------------
(* The order of a session: where a call can be, given what the session     *)
(* holds and has claimed.  It holds under every class of fault.            *)

Preparing ==
  {"plan", "lease", "observe", "OBSERVE", "NORMALIZE", "PROJECT", "DIAGNOSE",
   "CLASSIFY", "PLAN", "gate", "POLICY_GATE", "backup", "BACKUP"}
Executing  == {"STARTED", "apply", "readback", "SUCCEEDED"}
Verifying  == {"VERIFY", "HEALED"}
Recovering == {"restore", "rewrite", "restored"}

Settled == ~armed \/ mutation = "RESTORE_FAILED"

Order ==
  /\ pc \notin {"idle", "gone"} => ~failure
  /\ pc \in Preparing => ~ctx
  /\ pc \in Executing \cup Verifying => ctx /\ ~complete
  /\ armed => ctx /\ ~complete
  /\ pc \in Recovering \cup (Executing \ {"STARTED"}) => armed
  /\ pc = "ROLLBACK" => ~armed /\ mutation = "VERIFIED_RESTORED"
  /\ pc = "FAILED" \/ failure => Settled
  /\ ~ctx => mutation = "NOT_STARTED" /\ verification = "NONE"

(* What makes a mutation recoverable.                                      *)
Recoverable ==
  /\ ~ctx => target = 0
  /\ ctx \/ pc = "BACKUP" => backup = "original"
  /\ armed \/ target # 0 \/ mutation # "NOT_STARTED" =>
       /\ Contains(mem, "STARTED")
       /\ auditState = "sound" => Contains(durable, "STARTED")
  /\ pc = "apply" => Contains(durable, "STARTED")

(* Without nonstandard exceptions a failed restoration is the end, and     *)
(* whoever may write the target or has written it holds the lease.         *)
Leased ==
  /\ mutation = "RESTORE_FAILED" => failure \/ pc \in {"FAILED", "gone"}
  /\ alive /\ (armed \/ mutation = "RESTORE_FAILED" \/ pc \in Executing) => leased

(* What makes the verdict true.                                            *)
Truth ==
  /\ ~armed /\ ~complete => target = 0 /\ mutation \in {"NOT_STARTED", "VERIFIED_RESTORED"}
  /\ complete => target # 0
  /\ pc = "VERIFY" => verification # "NONE"
  /\ pc \in Executing => verification # "PASSED"
  /\ pc = "HEALED" => verification = "PASSED"
  /\ verification = "PASSED" => executed = N
  /\ /\ verification = "PASSED" /\ ~failure /\ ~complete
     /\ pc \in {"idle"} \cup Verifying
     => target = N

LEMMA OrderInit == Init => Order
BY DEF Init, Order, Settled, Preparing, Executing, Verifying, Recovering

LEMMA OrderStep ==
  ASSUME TypeOK, Order, [Next]_vars PROVE Order'
<1> USE DEF Order, Settled, Preparing, Executing, Verifying, Recovering, Enter, Goto, Return,
            call, authority, recovery, verdict, trail, world
<1>1. ASSUME NEW t \in Threads, CallPrepare(t) PROVE Order'
  BY <1>1 DEF CallPrepare
<1>2. ASSUME NEW t \in Threads, RecallPrepare(t) PROVE Order'
  BY <1>2 DEF RecallPrepare
<1>3. ASSUME NEW t \in Threads, NEW n \in 1..N, CallExecute(t, n) PROVE Order'
  BY <1>3 DEF CallExecute, Accepted
<1>4. ASSUME NEW t \in Threads, NEW o \in {"call", "complete"}, CallVerify(t, o)
      PROVE  Order'
  BY <1>4 DEF CallVerify, Accepted
<1>5. ASSUME NEW t \in Threads, CallComplete(t) PROVE Order'
  BY <1>5 DEF CallComplete, Accepted
<1>6. ASSUME NEW t \in Threads, Destroy(t) PROVE Order'
  BY <1>6 DEF Destroy
<1>7. CASE PlanRejected \/ PlanEmpty
  BY <1>7 DEF PlanRejected, PlanEmpty
<1>8. CASE PlanAccepted
  BY <1>8 DEF PlanAccepted
<1>9. CASE AcquireLease \/ Observe
  BY <1>9 DEF AcquireLease, Observe
<1>10. CASE ConfirmPhase
  <2>1. PICK stage \in DOMAIN AfterPhase :
             Commit(stage) /\ Goto(AfterPhase[stage])
             /\ UNCHANGED <<authority, recovery, verdict, world>>
    BY <1>10 DEF ConfirmPhase
  <2>2. pc \in Preparing /\ pc' \in Preparing \ {"BACKUP"}
    BY <2>1, PhaseOrder DEF Commit
  <2>3. QED
    BY <2>1, <2>2 DEF Commit
<1>11. CASE Gate
  BY <1>11 DEF Gate
<1>12. CASE TakeBackup
  BY <1>12 DEF TakeBackup
<1>13. CASE ConfirmBackup
  BY <1>13 DEF ConfirmBackup, Commit
<1>14. CASE ConfirmStarted
  BY <1>14 DEF ConfirmStarted, Commit
<1>15. CASE Apply \/ Readback
  BY <1>15 DEF Apply, Readback
<1>16. CASE ConfirmSucceeded
  BY <1>16 DEF ConfirmSucceeded, Commit
<1>17. CASE ConfirmVerify
  BY <1>17 DEF ConfirmVerify, Commit
<1>18. CASE ConfirmHealed
  BY <1>18 DEF ConfirmHealed, Commit
<1>19. CASE Fail \/ FailEscapes
  BY <1>19 DEF Fail, FailEscapes
<1>20. CASE AuthoriseRestore \/ RestoreBackup
  BY <1>20 DEF AuthoriseRestore, RestoreBackup, RestoreFailed
<1>21. CASE ConfirmRestored
  BY <1>21 DEF ConfirmRestored, RestoreFailed
<1>22. CASE ConfirmRollback \/ ConfirmFailed
  BY <1>22 DEF ConfirmRollback, ConfirmFailed, Commit
<1>23. CASE AuditWrite
  BY <1>23 DEF AuditWrite
<1>24. CASE AuditFails
  <2>1. ~failure /\ UNCHANGED <<ctx, armed, mutation, verification, complete>>
    BY <1>24 DEF AuditFails, AuditThrows, AuditStages
  <2>2. CASE pc = "FAILED"
    BY <1>24, <2>1, <2>2 DEF AuditFails
  <2>3. CASE pc # "FAILED"
    <3>1. ~failure' /\ pc' = (IF pc = "ROLLBACK" THEN "FAILED" ELSE "fail")
      BY <1>24, <2>1, <2>3 DEF AuditFails
    <3>2. QED
      BY <2>1, <3>1
  <2>4. QED
    BY <2>2, <2>3
<1>25. CASE AuditFailsNonstandard
  <2>1. ~failure /\ UNCHANGED <<ctx, armed, verification, verdict>>
    BY <1>25 DEF AuditFailsNonstandard, AuditThrows, AuditStages
  <2>2. CASE pc = "ROLLBACK"
    <3>1. pc' = "FAILED" /\ mutation' = "RESTORE_FAILED"
      BY <1>25, <2>2 DEF AuditFailsNonstandard
    <3>2. QED
      BY <2>1, <2>2, <3>1
  <2>3. CASE pc # "ROLLBACK"
    <3>1. pc' \in {"idle", "gone", "fail"} /\ mutation' = mutation
      BY <1>25, <2>3 DEF AuditFailsNonstandard
    <3>2. QED
      BY <2>1, <3>1
  <2>4. QED
    BY <2>2, <2>3
<1>26. CASE Release \/ Crash
  BY <1>26 DEF Release, Crash
<1>27. CASE Tamper
  BY <1>27 DEF Tamper
<1>28. CASE UNCHANGED vars
  BY <1>28 DEF vars
<1>29. QED
  BY <1>1, <1>2, <1>3, <1>4, <1>5, <1>6, <1>7, <1>8, <1>9, <1>10, <1>11, <1>12,
     <1>13, <1>14, <1>15, <1>16, <1>17, <1>18, <1>19, <1>20, <1>21, <1>22, <1>23, <1>24,
     <1>25, <1>26, <1>27, <1>28
     DEF Next, Calls, Step

LEMMA OrderInvariant == Spec => [](TypeOK /\ Order)
<1>1. TypeOK /\ Order /\ [Next]_vars => (TypeOK /\ Order)'
  BY TypeStep, OrderStep
<1>2. QED
  BY TypeInit, OrderInit, <1>1, PTL DEF Spec

(* FailureSettles: no kept failure leaves a recovery pending, under every  *)
(* class of fault.                                                         *)
THEOREM FailureSettles == Spec => []FailureSettlesRecovery
<1>1. Order => FailureSettlesRecovery
  BY DEF Order, Settled, FailureSettlesRecovery
<1>2. QED
  BY <1>1, OrderInvariant, PTL

(* RollbackIsInert: executeRollback never restores anything: it returns    *)
(* the receipt of a restoration that failAndRestore has made, or a failure.*)
THEOREM RollbackIsInert == Spec => []~RollbackWouldRestore
<1>1. FailureSettlesRecovery => ~RollbackWouldRestore
  BY DEF FailureSettlesRecovery, RollbackWouldRestore
<1>2. QED
  BY <1>1, FailureSettles, PTL

-------------------------------------------------------------------------------
(* The audit file.                                                         *)

LEMMA PrefixAppend ==
  ASSUME NEW S, NEW s \in Seq(S), NEW u \in Seq(S), NEW e \in S, IsPrefix(s, u)
  PROVE  IsPrefix(s, Append(u, e))
BY DEF IsPrefix

LEMMA PrefixReflexive == ASSUME NEW S, NEW s \in Seq(S) PROVE IsPrefix(s, s)
BY DEF IsPrefix

LEMMA PrefixContains ==
  ASSUME NEW S, NEW s \in Seq(S), NEW u \in Seq(S), NEW e,
         IsPrefix(s, u), Contains(s, e)
  PROVE  Contains(u, e)
BY DEF IsPrefix, Contains

LEMMA AppendContains ==
  ASSUME NEW S, NEW s \in Seq(S), NEW e \in S
  PROVE  Contains(Append(s, e), e)
<1>1. Append(s, e)[Len(s) + 1] = e /\ Len(s) + 1 \in 1..Len(Append(s, e))
  OBVIOUS
<1>2. QED
  BY <1>1 DEF Contains

LEMMA AppendKeeps ==
  ASSUME NEW S, NEW s \in Seq(S), NEW e \in S, NEW f, Contains(s, f)
  PROVE  Contains(Append(s, e), f)
<1>1. PICK i \in 1..Len(s) : s[i] = f
  BY DEF Contains
<1>2. Append(s, e)[i] = f /\ i \in 1..Len(Append(s, e))
  BY <1>1
<1>3. QED
  BY <1>2 DEF Contains

(* Without tampering only auditPhase writes the audit file, whole or cut   *)
(* off; any other step leaves it and keeps the chain in memory or confirms *)
(* the stored one.                                                         *)
CutsOff ==
  /\ "torn" \in Faults /\ pc \in AuditStages
  /\ mem' = mem /\ durable' \in Seq(AuditStages) /\ IsPrefix(durable', mem)
  /\ auditState' # "sound"
Stores ==
  AuditWrite \/ CutsOff \/ (UNCHANGED <<durable, auditState>> /\ mem' \in {mem, durable})

LEMMA OnlyAuditStores ==
  ASSUME "tamper" \notin Faults, TypeOK, [Next]_vars PROVE Stores
<1> USE DEF trail, Stores
<1>1. ASSUME NEW t \in Threads, CallPrepare(t) PROVE Stores
  BY <1>1 DEF CallPrepare
<1>2. ASSUME NEW t \in Threads, RecallPrepare(t) PROVE Stores
  BY <1>2 DEF RecallPrepare
<1>3. ASSUME NEW t \in Threads, NEW n \in 1..N, CallExecute(t, n) PROVE Stores
  BY <1>3 DEF CallExecute, Accepted
<1>4. ASSUME NEW t \in Threads, NEW o \in {"call", "complete"}, CallVerify(t, o)
      PROVE  Stores
  BY <1>4 DEF CallVerify, Accepted
<1>5. ASSUME NEW t \in Threads, CallComplete(t) PROVE Stores
  BY <1>5 DEF CallComplete, Accepted
<1>6. ASSUME NEW t \in Threads, Destroy(t) PROVE Stores
  BY <1>6 DEF Destroy
<1>7. CASE PlanRejected \/ PlanEmpty
  BY <1>7 DEF PlanRejected, PlanEmpty
<1>8. CASE PlanAccepted
  BY <1>8 DEF PlanAccepted
<1>9. CASE AcquireLease \/ Observe
  BY <1>9 DEF AcquireLease, Observe
<1>10. CASE ConfirmPhase
  BY <1>10 DEF ConfirmPhase, Commit
<1>11. CASE Gate
  BY <1>11 DEF Gate
<1>12. CASE TakeBackup
  BY <1>12 DEF TakeBackup
<1>13. CASE ConfirmBackup
  BY <1>13 DEF ConfirmBackup, Commit
<1>14. CASE ConfirmStarted
  BY <1>14 DEF ConfirmStarted, Commit
<1>15. CASE Apply \/ Readback
  BY <1>15 DEF Apply, Readback
<1>16. CASE ConfirmSucceeded
  BY <1>16 DEF ConfirmSucceeded, Commit
<1>17. CASE ConfirmVerify
  BY <1>17 DEF ConfirmVerify, Commit
<1>18. CASE ConfirmHealed
  BY <1>18 DEF ConfirmHealed, Commit
<1>19. CASE Fail \/ FailEscapes
  BY <1>19 DEF Fail, FailEscapes
<1>20. CASE AuthoriseRestore \/ RestoreBackup
  BY <1>20 DEF AuthoriseRestore, RestoreBackup, RestoreFailed
<1>21. CASE ConfirmRestored
  BY <1>21 DEF ConfirmRestored, RestoreFailed
<1>22. CASE ConfirmRollback \/ ConfirmFailed
  BY <1>22 DEF ConfirmRollback, ConfirmFailed, Commit
<1>23. CASE AuditWrite
  BY <1>23 DEF AuditWrite
<1>24. CASE AuditFails
  BY <1>24, ThrowsShape DEF AuditFails, CutsOff, TypeOK
<1>25. CASE AuditFailsNonstandard
  BY <1>25, ThrowsShape DEF AuditFailsNonstandard, CutsOff, TypeOK
<1>26. CASE Release \/ Crash
  BY <1>26, CutOffShape DEF Release, Crash, CutOff, CutsOff, TypeOK, ValuesOK
<1>27. CASE Tamper
  BY <1>27 DEF Tamper
<1>28. CASE UNCHANGED vars
  BY <1>28 DEF vars
<1>29. QED
  BY <1>1, <1>2, <1>3, <1>4, <1>5, <1>6, <1>7, <1>8, <1>9, <1>10, <1>11, <1>12,
     <1>13, <1>14, <1>15, <1>16, <1>17, <1>18, <1>19, <1>20, <1>21, <1>22, <1>23, <1>24,
     <1>25, <1>26, <1>27, <1>28
     DEF Next, Calls, Step

(* What is stored stays stored, and in place, unless a write is cut off.   *)
LEMMA StoredGrows ==
  ASSUME Untampered, TypeOK, [Next]_vars
  PROVE  \/ IsPrefix(durable, durable')
         \/ auditState' # "sound" /\ IsPrefix(durable', mem)
<1>1. CASE durable' = durable
  BY <1>1, PrefixReflexive DEF TypeOK, ValuesOK
<1>2. CASE AuditWrite
  BY <1>2, PrefixAppend DEF AuditWrite, CanPersist, TypeOK, ValuesOK
<1>3. QED
  BY <1>1, <1>2, OnlyAuditStores DEF Untampered, Stores, CutsOff

(* StoredEventsStay: no step of the session rewrites an event once stored, *)
(* its failures and restorations included, and only a write that is cut off*)
(* removes one.                                                            *)
THEOREM StoredEventsStay == Spec => DurableAppendOnly
<1>1. TypeOK /\ [Next]_vars =>
        [Untampered => \/ IsPrefix(durable, durable')
                       \/ auditState' # "sound" /\ IsPrefix(durable', mem)]_vars
  BY StoredGrows
<1>2. QED
  BY <1>1, TypeCorrect, PTL DEF Spec, DurableAppendOnly

(* TrailNeverBehind: the audit file holds the chain in memory, or that and *)
(* one event whose storing was not confirmed (auditPhase), or, after a     *)
(* write that was cut off, a beginning of it.                              *)
THEOREM TrailNeverBehind == Spec => []TrailMatches
<1>1. Init => TrailMatches
  BY DEF Init, TrailMatches
<1>2. TypeOK /\ TrailMatches /\ [Next]_vars => TrailMatches'
  <2>. SUFFICES ASSUME Untampered, TypeOK, TrailMatches, [Next]_vars PROVE TrailMatches'
    BY DEF TrailMatches, Untampered
  <2>1. CASE AuditWrite
    BY <2>1 DEF AuditWrite, TrailMatches
  <2>2. CASE UNCHANGED <<durable, auditState>> /\ mem' \in {mem, durable}
    BY <2>2 DEF TrailMatches
  <2>3. CASE CutsOff
    BY <2>3 DEF CutsOff, TrailMatches
  <2>. QED
    BY <2>1, <2>2, <2>3, OnlyAuditStores DEF Untampered, Stores
<1>. QED
  BY <1>1, <1>2, TypeCorrect, PTL DEF Spec

-------------------------------------------------------------------------------
(* Recoverability and the lease.                                           *)

LEMMA RecoverableInit == Init => Recoverable
BY DEF Init, Recoverable

LEMMA RecoverableStep ==
  ASSUME Untampered, TypeOK, Order, Recoverable, [Next]_vars PROVE Recoverable'
<1>0. "tamper" \notin Faults
  BY DEF Untampered
<1> USE DEF Recoverable, Order, Preparing, Executing, Recovering, Enter, Goto, Return,
            call, authority, recovery, verdict, trail, world
<1>1. ASSUME NEW t \in Threads, CallPrepare(t) PROVE Recoverable'
  BY <1>0, <1>1 DEF CallPrepare
<1>2. ASSUME NEW t \in Threads, RecallPrepare(t) PROVE Recoverable'
  BY <1>0, <1>2 DEF RecallPrepare
<1>3. ASSUME NEW t \in Threads, NEW n \in 1..N, CallExecute(t, n)
      PROVE  Recoverable'
  BY <1>0, <1>3 DEF CallExecute, Accepted
<1>4. ASSUME NEW t \in Threads, NEW o \in {"call", "complete"}, CallVerify(t, o)
      PROVE  Recoverable'
  BY <1>0, <1>4 DEF CallVerify, Accepted
<1>5. ASSUME NEW t \in Threads, CallComplete(t) PROVE Recoverable'
  BY <1>0, <1>5 DEF CallComplete, Accepted
<1>6. ASSUME NEW t \in Threads, Destroy(t) PROVE Recoverable'
  BY <1>0, <1>6 DEF Destroy
<1>7. CASE PlanRejected \/ PlanEmpty
  BY <1>0, <1>7 DEF PlanRejected, PlanEmpty
<1>8. CASE PlanAccepted
  BY <1>0, <1>8 DEF PlanAccepted
<1>9. CASE AcquireLease \/ Observe
  BY <1>0, <1>9 DEF AcquireLease, Observe
<1>10. CASE ConfirmPhase
  <2>1. PICK stage \in DOMAIN AfterPhase :
             Commit(stage) /\ Goto(AfterPhase[stage])
             /\ UNCHANGED <<authority, recovery, verdict, world>>
    BY <1>10 DEF ConfirmPhase
  <2>2. pc \in Preparing /\ pc' \in Preparing \ {"BACKUP"}
    BY <2>1, PhaseOrder DEF Commit
  <2>3. QED
    BY <2>1, <2>2 DEF Commit, Confirmed
<1>11. CASE Gate
  BY <1>0, <1>11 DEF Gate
<1>12. CASE TakeBackup
  BY <1>0, <1>12 DEF TakeBackup
<1>13. CASE ConfirmBackup
  BY <1>0, <1>13 DEF ConfirmBackup, Commit, Confirmed
<1>14. CASE ConfirmStarted
  <2>1. Contains(durable, "STARTED")
    BY <1>14, AppendContains DEF ConfirmStarted, Commit, Confirmed, TypeOK, ValuesOK, AuditStages
  <2>2. QED
    BY <1>14, <2>1 DEF ConfirmStarted, Commit
<1>15. CASE Apply \/ Readback
  BY <1>0, <1>15 DEF Apply, Readback
<1>16. CASE ConfirmSucceeded
  BY <1>0, <1>16 DEF ConfirmSucceeded, Commit, Confirmed
<1>17. CASE ConfirmVerify
  BY <1>0, <1>17 DEF ConfirmVerify, Commit, Confirmed
<1>18. CASE ConfirmHealed
  BY <1>0, <1>18 DEF ConfirmHealed, Commit, Confirmed
<1>19. CASE Fail \/ FailEscapes
  BY <1>0, <1>19 DEF Fail, FailEscapes
<1>20. CASE AuthoriseRestore \/ RestoreBackup
  BY <1>0, <1>20 DEF AuthoriseRestore, RestoreBackup, RestoreFailed
<1>21. CASE ConfirmRestored
  BY <1>0, <1>21 DEF ConfirmRestored, RestoreFailed
<1>22. CASE ConfirmRollback \/ ConfirmFailed
  BY <1>0, <1>22 DEF ConfirmRollback, ConfirmFailed, Commit, Confirmed
<1>23. CASE AuditWrite
  <2>1. Contains(mem, "STARTED") => Contains(durable', "STARTED")
    BY <1>23, AppendKeeps DEF AuditWrite, TypeOK, ValuesOK
  <2>2. pc # "apply"
    BY <1>23 DEF AuditWrite, AuditStages
  <2>3. QED
    BY <1>23, <2>1, <2>2 DEF AuditWrite
<1>24. CASE AuditFails
  <2>1. /\ UNCHANGED <<mem, authority, recovery, world>>
        /\ UNCHANGED <<durable, auditState>> \/ auditState' # "sound"
    BY <1>24, ThrowsShape DEF AuditFails, TypeOK
  <2>2. pc' \in {"idle", "gone", "fail", "FAILED"}
    BY <1>24 DEF AuditFails
  <2>3. QED
    BY <2>1, <2>2
<1>25. CASE AuditFailsNonstandard
  <2>1. /\ UNCHANGED <<mem, authority, armed, world>>
        /\ UNCHANGED <<durable, auditState>> \/ auditState' # "sound"
    BY <1>25, ThrowsShape DEF AuditFailsNonstandard, TypeOK
  <2>2. /\ pc' \in {"idle", "gone", "fail", "FAILED"}
        /\ mutation' = mutation \/ (pc = "ROLLBACK" /\ mutation' = "RESTORE_FAILED")
    BY <1>25 DEF AuditFailsNonstandard
  <2>3. pc = "ROLLBACK" => mutation # "NOT_STARTED"
    OBVIOUS
  <2>4. QED
    BY <2>1, <2>2, <2>3
<1>26. CASE Release \/ Crash
  <2>1. /\ UNCHANGED <<mem, ctx, armed, mutation, backup>>
        /\ UNCHANGED <<durable, auditState>> \/ auditState' # "sound"
    BY <1>26, CutOffShape DEF Release, Crash, TypeOK, ValuesOK
  <2>2. pc' = "gone" /\ (target' = target \/ pc \in {"apply", "rewrite"})
    BY <1>26 DEF Release, Crash
  <2>3. QED
    BY <2>1, <2>2
<1>27. CASE Tamper
  BY <1>0, <1>27 DEF Tamper
<1>28. CASE UNCHANGED vars
  BY <1>0, <1>28 DEF vars
<1>29. QED
  BY <1>1, <1>2, <1>3, <1>4, <1>5, <1>6, <1>7, <1>8, <1>9, <1>10, <1>11, <1>12,
     <1>13, <1>14, <1>15, <1>16, <1>17, <1>18, <1>19, <1>20, <1>21, <1>22, <1>23, <1>24,
     <1>25, <1>26, <1>27, <1>28
     DEF Next, Calls, Step

LEMMA LeasedInit == Init => Leased
BY DEF Init, Leased, Executing

LEMMA LeasedStep ==
  ASSUME "nonstd" \notin Faults, TypeOK, Order, Leased, [Next]_vars PROVE Leased'
<1> USE DEF Leased, Order, Preparing, Executing, Verifying, Recovering, Enter, Goto, Return,
            call, authority, recovery, verdict, trail, world
<1>1. ASSUME NEW t \in Threads, CallPrepare(t) PROVE Leased'
  BY <1>1 DEF CallPrepare
<1>2. ASSUME NEW t \in Threads, RecallPrepare(t) PROVE Leased'
  BY <1>2 DEF RecallPrepare
<1>3. ASSUME NEW t \in Threads, NEW n \in 1..N, CallExecute(t, n) PROVE Leased'
  BY <1>3 DEF CallExecute, Accepted, CheckTarget
<1>4. ASSUME NEW t \in Threads, NEW o \in {"call", "complete"}, CallVerify(t, o)
      PROVE  Leased'
  BY <1>4 DEF CallVerify, Accepted
<1>5. ASSUME NEW t \in Threads, CallComplete(t) PROVE Leased'
  BY <1>5 DEF CallComplete, Accepted
<1>6. ASSUME NEW t \in Threads, Destroy(t) PROVE Leased'
  BY <1>6 DEF Destroy
<1>7. CASE PlanRejected \/ PlanEmpty
  BY <1>7 DEF PlanRejected, PlanEmpty
<1>8. CASE PlanAccepted
  BY <1>8 DEF PlanAccepted
<1>9. CASE AcquireLease \/ Observe
  BY <1>9 DEF AcquireLease, Observe
<1>10. CASE ConfirmPhase
  <2>1. PICK stage \in DOMAIN AfterPhase :
             Commit(stage) /\ Goto(AfterPhase[stage])
             /\ UNCHANGED <<authority, recovery, verdict, world>>
    BY <1>10 DEF ConfirmPhase
  <2>2. pc \in Preparing /\ pc' \in Preparing \ {"BACKUP"}
    BY <2>1, PhaseOrder DEF Commit
  <2>3. QED
    BY <2>1, <2>2 DEF Commit
<1>11. CASE Gate
  BY <1>11 DEF Gate
<1>12. CASE TakeBackup
  BY <1>12 DEF TakeBackup
<1>13. CASE ConfirmBackup
  BY <1>13 DEF ConfirmBackup, Commit
<1>14. CASE ConfirmStarted
  BY <1>14 DEF ConfirmStarted, Commit
<1>15. CASE Apply \/ Readback
  BY <1>15 DEF Apply, Readback
<1>16. CASE ConfirmSucceeded
  BY <1>16 DEF ConfirmSucceeded, Commit
<1>17. CASE ConfirmVerify
  BY <1>17 DEF ConfirmVerify, Commit
<1>18. CASE ConfirmHealed
  BY <1>18 DEF ConfirmHealed, Commit
<1>19. CASE Fail \/ FailEscapes
  BY <1>19 DEF Fail, FailEscapes
<1>20. CASE AuthoriseRestore \/ RestoreBackup
  BY <1>20 DEF AuthoriseRestore, RestoreBackup, RestoreFailed
<1>21. CASE ConfirmRestored
  BY <1>21 DEF ConfirmRestored, RestoreFailed
<1>22. CASE ConfirmRollback \/ ConfirmFailed
  BY <1>22 DEF ConfirmRollback, ConfirmFailed, Commit
<1>23. CASE AuditWrite
  BY <1>23 DEF AuditWrite
<1>24. CASE AuditFails
  <2>1. ~failure /\ pc # "gone" /\ UNCHANGED <<leased, armed, mutation, alive>>
    BY <1>24 DEF AuditFails, AuditThrows, AuditStages
  <2>2. CASE pc = "FAILED"
    <3>1. failure' /\ pc' \notin Executing
      BY <1>24, <2>2 DEF AuditFails
    <3>2. QED
      BY <2>1, <3>1
  <2>3. CASE pc # "FAILED"
    <3>1. pc' \in {"FAILED", "fail"}
      BY <1>24, <2>3 DEF AuditFails
    <3>2. QED
      BY <2>1, <2>3, <3>1
  <2>4. QED
    BY <2>2, <2>3
<1>25. CASE AuditFailsNonstandard
  BY <1>25 DEF AuditFailsNonstandard, AuditThrows
<1>26. CASE Release \/ Crash
  BY <1>26 DEF Release, Crash
<1>27. CASE Tamper
  BY <1>27 DEF Tamper
<1>28. CASE UNCHANGED vars
  BY <1>28 DEF vars
<1>29. QED
  BY <1>1, <1>2, <1>3, <1>4, <1>5, <1>6, <1>7, <1>8, <1>9, <1>10, <1>11, <1>12,
     <1>13, <1>14, <1>15, <1>16, <1>17, <1>18, <1>19, <1>20, <1>21, <1>22, <1>23, <1>24,
     <1>25, <1>26, <1>27, <1>28
     DEF Next, Calls, Step

(* MutationStaysRecoverable: at every moment, also after the process died, *)
(* a target that differs from the original has its original in the backup  *)
(* file, whatever the host did and wherever a write was cut off; and its   *)
(* execution is on record, when the adapter is called and as long as no    *)
(* later write of the session itself is cut off.                           *)
THEOREM MutationStaysRecoverable == Spec => []MutationIsRecoverable
<1>1. CASE Untampered
  <2>1. Order /\ Recoverable => MutationIsRecoverable
    BY DEF Order, Recoverable, MutationIsRecoverable, Executing
  <2>2. TypeOK /\ Order /\ Recoverable /\ [Next]_vars => Recoverable'
    BY <1>1, RecoverableStep
  <2>3. QED
    BY <2>1, <2>2, RecoverableInit, OrderInvariant, PTL DEF Spec
<1>2. CASE ~Untampered
  <2>1. MutationIsRecoverable
    BY <1>2 DEF MutationIsRecoverable
  <2>2. QED
    BY <2>1, PTL
<1>3. QED
  BY <1>1, <1>2

(* TargetStaysLeased: the lease outlives every pending or failed recovery, *)
(* unless the host throws a nonstandard exception.                         *)
THEOREM TargetStaysLeased ==
  ASSUME "nonstd" \notin Faults PROVE Spec => []LeaseHeld
<1>1. Leased => LeaseHeld
  BY DEF Leased, LeaseHeld
<1>2. TypeOK /\ Order /\ Leased /\ [Next]_vars => Leased'
  BY LeasedStep
<1>3. QED
  BY <1>1, <1>2, LeasedInit, OrderInvariant, PTL DEF Spec

-------------------------------------------------------------------------------
(* The session implements its contract.                                    *)

LEMMA TruthInit == Init => Truth
BY DEF Init, Truth, Executing, Verifying

LEMMA TruthStep ==
  ASSUME "nonstd" \notin Faults, "tamper" \notin Faults, TypeOK, Order, Truth, [Next]_vars
  PROVE  Truth'
<1>0. "nonstd" \notin Faults /\ "tamper" \notin Faults
  OBVIOUS
<1> USE DEF Truth, Order, Preparing, Executing, Verifying, Recovering, Enter, Goto, Return,
            call, authority, recovery, verdict, trail, world
<1>1. ASSUME NEW t \in Threads, CallPrepare(t) PROVE Truth'
  BY <1>0, <1>1 DEF CallPrepare
<1>2. ASSUME NEW t \in Threads, RecallPrepare(t) PROVE Truth'
  BY <1>0, <1>2 DEF RecallPrepare
<1>3. ASSUME NEW t \in Threads, NEW n \in 1..N, CallExecute(t, n) PROVE Truth'
  BY <1>0, <1>3 DEF CallExecute, Accepted
<1>4. ASSUME NEW t \in Threads, NEW o \in {"call", "complete"}, CallVerify(t, o)
      PROVE  Truth'
  BY <1>0, <1>4 DEF CallVerify, Accepted, CheckTarget
<1>5. ASSUME NEW t \in Threads, CallComplete(t) PROVE Truth'
  BY <1>0, <1>5 DEF CallComplete, Accepted
<1>6. ASSUME NEW t \in Threads, Destroy(t) PROVE Truth'
  BY <1>0, <1>6 DEF Destroy
<1>7. CASE PlanRejected \/ PlanEmpty
  BY <1>0, <1>7 DEF PlanRejected, PlanEmpty
<1>8. CASE PlanAccepted
  BY <1>0, <1>8 DEF PlanAccepted
<1>9. CASE AcquireLease \/ Observe
  BY <1>0, <1>9 DEF AcquireLease, Observe
<1>10. CASE ConfirmPhase
  <2>1. PICK stage \in DOMAIN AfterPhase :
             Commit(stage) /\ Goto(AfterPhase[stage])
             /\ UNCHANGED <<authority, recovery, verdict, world>>
    BY <1>10 DEF ConfirmPhase
  <2>2. pc \in Preparing /\ pc' \in Preparing \ {"BACKUP"}
    BY <2>1, PhaseOrder DEF Commit
  <2>3. QED
    BY <2>1, <2>2 DEF Commit
<1>11. CASE Gate
  BY <1>0, <1>11 DEF Gate
<1>12. CASE TakeBackup
  BY <1>0, <1>12 DEF TakeBackup
<1>13. CASE ConfirmBackup
  BY <1>0, <1>13 DEF ConfirmBackup, Commit
<1>14. CASE ConfirmStarted
  BY <1>0, <1>14 DEF ConfirmStarted, Commit
<1>15. CASE Apply \/ Readback
  BY <1>0, <1>15 DEF Apply, Readback
<1>16. CASE ConfirmSucceeded
  BY <1>0, <1>16 DEF ConfirmSucceeded, Commit
<1>17. CASE ConfirmVerify
  <2>1. verification = "PASSED" \/ verification = "FAILED"
    BY <1>17 DEF ConfirmVerify, Commit, TypeOK, ValuesOK
  <2>2. UNCHANGED <<authority, recovery, verdict, world>> /\ pc = "VERIFY"
    BY <1>17 DEF ConfirmVerify, Commit
  <2>3. pc' = "HEALED" => verification = "PASSED"
    BY <1>17, <2>1 DEF ConfirmVerify
  <2>4. pc' \in {"fail", "HEALED", "idle", "gone"}
    BY <1>17 DEF ConfirmVerify
  <2>5. QED
    BY <2>2, <2>3, <2>4
<1>18. CASE ConfirmHealed
  BY <1>0, <1>18 DEF ConfirmHealed, Commit
<1>19. CASE Fail \/ FailEscapes
  BY <1>0, <1>19 DEF Fail, FailEscapes
<1>20. CASE AuthoriseRestore \/ RestoreBackup
  BY <1>0, <1>20 DEF AuthoriseRestore, RestoreBackup, RestoreFailed
<1>21. CASE ConfirmRestored
  BY <1>0, <1>21 DEF ConfirmRestored, RestoreFailed
<1>22. CASE ConfirmRollback \/ ConfirmFailed
  BY <1>0, <1>22 DEF ConfirmRollback, ConfirmFailed, Commit
<1>23. CASE AuditWrite
  BY <1>0, <1>23 DEF AuditWrite
<1>24. CASE AuditFails
  BY <1>0, <1>24 DEF AuditFails, AuditThrows
<1>25. CASE AuditFailsNonstandard
  BY <1>0, <1>25 DEF AuditFailsNonstandard, AuditThrows
<1>26. CASE Release \/ Crash
  BY <1>0, <1>26 DEF Release, Crash
<1>27. CASE Tamper
  BY <1>0, <1>27 DEF Tamper
<1>28. CASE UNCHANGED vars
  BY <1>0, <1>28 DEF vars
<1>29. QED
  BY <1>1, <1>2, <1>3, <1>4, <1>5, <1>6, <1>7, <1>8, <1>9, <1>10, <1>11, <1>12,
     <1>13, <1>14, <1>15, <1>16, <1>17, <1>18, <1>19, <1>20, <1>21, <1>22, <1>23, <1>24,
     <1>25, <1>26, <1>27, <1>28
     DEF Next, Calls, Step

(* An execution is on record only after a complete preparation.            *)
Started == Contains(durable, "STARTED") \/ Contains(mem, "STARTED") => ctx

LEMMA AppendContainsOnly ==
  ASSUME NEW S, NEW s \in Seq(S), NEW e \in S, NEW f, Contains(Append(s, e), f)
  PROVE  Contains(s, f) \/ e = f
BY DEF Contains

LEMMA StartedInit == Init => Started
BY DEF Init, Started, Contains

LEMMA StartedStep ==
  ASSUME "tamper" \notin Faults, TypeOK, Order, Started, [Next]_vars PROVE Started'
<1> USE DEF Started, Order, Preparing, Executing, Verifying, Recovering, Enter, Goto, Return,
            call, authority, recovery, verdict, trail, world
<1>1. ASSUME NEW t \in Threads, CallPrepare(t) PROVE Started'
  BY <1>1 DEF CallPrepare
<1>2. ASSUME NEW t \in Threads, RecallPrepare(t) PROVE Started'
  BY <1>2 DEF RecallPrepare
<1>3. ASSUME NEW t \in Threads, NEW n \in 1..N, CallExecute(t, n) PROVE Started'
  BY <1>3 DEF CallExecute, Accepted
<1>4. ASSUME NEW t \in Threads, NEW o \in {"call", "complete"}, CallVerify(t, o)
      PROVE  Started'
  BY <1>4 DEF CallVerify, Accepted
<1>5. ASSUME NEW t \in Threads, CallComplete(t) PROVE Started'
  BY <1>5 DEF CallComplete, Accepted
<1>6. ASSUME NEW t \in Threads, Destroy(t) PROVE Started'
  BY <1>6 DEF Destroy
<1>7. CASE PlanRejected \/ PlanEmpty
  BY <1>7 DEF PlanRejected, PlanEmpty
<1>8. CASE PlanAccepted
  BY <1>8 DEF PlanAccepted
<1>9. CASE AcquireLease \/ Observe
  BY <1>9 DEF AcquireLease, Observe
<1>10. CASE ConfirmPhase
  <2>1. PICK stage \in DOMAIN AfterPhase :
             Commit(stage) /\ Goto(AfterPhase[stage])
             /\ UNCHANGED <<authority, recovery, verdict, world>>
    BY <1>10 DEF ConfirmPhase
  <2>2. pc \in Preparing /\ pc' \in Preparing \ {"BACKUP"}
    BY <2>1, PhaseOrder DEF Commit
  <2>3. QED
    BY <2>1, <2>2 DEF Commit
<1>11. CASE Gate
  BY <1>11 DEF Gate
<1>12. CASE TakeBackup
  BY <1>12 DEF TakeBackup
<1>13. CASE ConfirmBackup
  BY <1>13 DEF ConfirmBackup, Commit
<1>14. CASE ConfirmStarted
  BY <1>14 DEF ConfirmStarted, Commit
<1>15. CASE Apply \/ Readback
  BY <1>15 DEF Apply, Readback
<1>16. CASE ConfirmSucceeded
  BY <1>16 DEF ConfirmSucceeded, Commit
<1>17. CASE ConfirmVerify
  BY <1>17 DEF ConfirmVerify, Commit
<1>18. CASE ConfirmHealed
  BY <1>18 DEF ConfirmHealed, Commit
<1>19. CASE Fail \/ FailEscapes
  BY <1>19 DEF Fail, FailEscapes
<1>20. CASE AuthoriseRestore \/ RestoreBackup
  BY <1>20 DEF AuthoriseRestore, RestoreBackup, RestoreFailed
<1>21. CASE ConfirmRestored
  BY <1>21 DEF ConfirmRestored, RestoreFailed
<1>22. CASE ConfirmRollback \/ ConfirmFailed
  BY <1>22 DEF ConfirmRollback, ConfirmFailed, Commit
<1>23. CASE AuditWrite
  BY <1>23, AppendContainsOnly DEF AuditWrite, TypeOK, ValuesOK
<1>24. CASE AuditFails
  <2>1. Contains(durable', "STARTED") => Contains(durable, "STARTED") \/ Contains(mem, "STARTED")
    BY <1>24, ThrowsShape, PrefixContains DEF AuditFails, TypeOK, ValuesOK
  <2>2. UNCHANGED <<mem, ctx>>
    BY <1>24 DEF AuditFails, AuditThrows
  <2>3. QED
    BY <2>1, <2>2
<1>25. CASE AuditFailsNonstandard
  <2>1. Contains(durable', "STARTED") => Contains(durable, "STARTED") \/ Contains(mem, "STARTED")
    BY <1>25, ThrowsShape, PrefixContains DEF AuditFailsNonstandard, TypeOK, ValuesOK
  <2>2. UNCHANGED <<mem, ctx>>
    BY <1>25 DEF AuditFailsNonstandard, AuditThrows
  <2>3. QED
    BY <2>1, <2>2
<1>26. CASE Release \/ Crash
  <2>1. Contains(durable', "STARTED") => Contains(durable, "STARTED") \/ Contains(mem, "STARTED")
    BY <1>26, CutOffShape, PrefixContains DEF Release, Crash, TypeOK, ValuesOK
  <2>2. UNCHANGED <<mem, ctx>>
    BY <1>26 DEF Release, Crash
  <2>3. QED
    BY <2>1, <2>2
<1>27. CASE Tamper
  BY <1>27 DEF Tamper
<1>28. CASE UNCHANGED vars
  BY <1>28 DEF vars
<1>29. QED
  BY <1>1, <1>2, <1>3, <1>4, <1>5, <1>6, <1>7, <1>8, <1>9, <1>10, <1>11, <1>12,
     <1>13, <1>14, <1>15, <1>16, <1>17, <1>18, <1>19, <1>20, <1>21, <1>22, <1>23, <1>24,
     <1>25, <1>26, <1>27, <1>28
     DEF Next, Calls, Step

(* If no write is cut off, nothing but a complete write is in the file.    *)
LEMMA SoundStep ==
  ASSUME Faults \subseteq {"host", "crash"}, TypeOK, auditState = "sound", [Next]_vars
  PROVE  auditState' = "sound"
<1>1. "torn" \notin Faults /\ "tamper" \notin Faults
  OBVIOUS
<1>2. QED
  BY <1>1, OnlyAuditStores DEF Stores, CutsOff, AuditWrite

LEMMA ContractInit == Init => Contract!Init
BY DEF Init, Contract!Init, Covered, SessionVerdict

LEMMA ContractStep ==
  ASSUME Faults \subseteq {"host", "crash"},
         TypeOK, Order, Recoverable, Truth, Started, auditState = "sound", [Next]_vars
  PROVE  [Contract!Next]_(Contract!vars)
<1> DEFINE Files == <<target, backup, durable>>
<1>0. "nonstd" \notin Faults /\ "torn" \notin Faults /\ "tamper" \notin Faults
  OBVIOUS
<1>1. TypeOK'
  BY TypeStep
(* What a step can mean to the contract.                                   *)
<1>2. ASSUME UNCHANGED <<Files, verdict>>, ~failure \/ mutation' = mutation
      PROVE  UNCHANGED Contract!vars
  BY <1>2 DEF Contract!vars, Covered, SessionVerdict, verdict
<1>3. ASSUME UNCHANGED <<Files, complete, mutation>>, ~failure, failure', Settled
      PROVE  [Contract!Next]_(Contract!vars)
  <2>1. CASE complete
    BY <1>3, <2>1 DEF Contract!vars, Covered, SessionVerdict
  <2>2. CASE ~complete
    <3>1. mutation # "NOT_STARTED" => Covered
      BY DEF Order, Recoverable, Covered
    <3>2. SessionVerdict = "open" /\ UNCHANGED <<target, Covered>>
      BY <1>3, <2>2 DEF SessionVerdict, Covered
    <3>3. SessionVerdict' = IF mutation = "VERIFIED_RESTORED" THEN "restored"
                            ELSE IF mutation = "RESTORE_FAILED" THEN "stuck"
                            ELSE "rejected"
      BY <1>3, <2>2 DEF SessionVerdict
    <3>4. mutation # "RESTORE_FAILED" =>
             target = 0 /\ mutation \in {"NOT_STARTED", "VERIFIED_RESTORED"}
      BY <1>3, <2>2 DEF Settled, Truth
    <3>5. QED
      BY <3>1, <3>2, <3>3, <3>4
         DEF Contract!Next, Contract!Conclude, Contract!Verdicts, Contract!Truthful
  <2>3. QED
    BY <2>1, <2>2
<1>4. ASSUME UNCHANGED <<durable, backup, verdict>>, armed, ~failure
      PROVE  [Contract!Next]_(Contract!vars)
  <2>1. ~complete /\ Covered
    BY <1>4 DEF Order, Recoverable, Covered
  <2>2. SessionVerdict = "open" /\ UNCHANGED <<Covered, SessionVerdict>>
    BY <1>4, <2>1 DEF SessionVerdict, Covered, verdict
  <2>3. QED
    BY <1>1, <2>1, <2>2 DEF Contract!Next, Contract!Write, TypeOK, ValuesOK
<1> USE DEF Enter, Goto, Return, call, authority, recovery, verdict, trail, world
<1>5. CASE Calls
  <2>1. UNCHANGED <<Files, verdict, mutation>>
    BY <1>5 DEF Calls, CallPrepare, RecallPrepare, CallExecute, CallVerify,
                CallComplete, Destroy
  <2>2. QED
    BY <2>1, <1>2
<1>6. CASE PlanRejected \/ Gate
  <2>1. ~failure /\ Settled
    BY <1>6 DEF PlanRejected, Gate, Order, Preparing, Settled
  <2>2. UNCHANGED <<Files, complete, mutation>> /\ (failure' \/ failure' = failure)
    BY <1>6 DEF PlanRejected, Gate
  <2>3. QED
    BY <2>1, <2>2, <1>2, <1>3
<1>7. CASE PlanEmpty \/ PlanAccepted \/ AcquireLease \/ Observe
  <2>1. UNCHANGED <<Files, verdict, mutation>>
    BY <1>7 DEF PlanEmpty, PlanAccepted, AcquireLease, Observe
  <2>2. QED
    BY <2>1, <1>2
<1>8. CASE TakeBackup
  <2>1. ~Covered /\ ~Covered'
    BY <1>8 DEF TakeBackup, Order, Preparing, Started, Covered
  <2>2. UNCHANGED <<target, SessionVerdict>>
    BY <1>8 DEF TakeBackup, SessionVerdict
  <2>3. QED
    BY <2>1, <2>2 DEF Contract!vars, Covered
<1>9. CASE ConfirmPhase \/ ConfirmBackup \/ ConfirmSucceeded \/ ConfirmVerify
           \/ ConfirmRollback
  <2>1. UNCHANGED <<Files, verdict, mutation>>
    BY <1>9 DEF ConfirmPhase, ConfirmBackup, ConfirmSucceeded, ConfirmVerify,
                ConfirmRollback, Commit
  <2>2. QED
    BY <2>1, <1>2
<1>10. CASE ConfirmStarted \/ Readback \/ AuthoriseRestore \/ ConfirmRestored
  <2>1. UNCHANGED <<Files, verdict>>
    BY <1>10 DEF ConfirmStarted, Readback, AuthoriseRestore, ConfirmRestored,
                 RestoreFailed, Commit
  <2>2. ~failure
    BY <1>10 DEF ConfirmStarted, Readback, AuthoriseRestore, ConfirmRestored,
                 Commit, Order
  <2>3. QED
    BY <2>1, <2>2, <1>2
<1>11. CASE Apply \/ RestoreBackup
  <2>1. UNCHANGED <<durable, backup, verdict>>
    BY <1>11 DEF Apply, RestoreBackup
  <2>2. armed /\ ~failure
    BY <1>11 DEF Apply, RestoreBackup, Order, Executing, Recovering
  <2>3. QED
    BY <2>1, <2>2, <1>4
<1>12. CASE ConfirmHealed
  <2>1. ~complete /\ ~failure /\ target = N /\ complete' /\ UNCHANGED Files
    BY <1>12 DEF ConfirmHealed, Commit, Order, Verifying, Truth
  <2>2. Covered /\ SessionVerdict = "open" /\ SessionVerdict' = "healed"
        /\ UNCHANGED <<target, Covered>>
    BY <2>1 DEF Order, Recoverable, Covered, SessionVerdict
  <2>3. QED
    BY <2>1, <2>2
       DEF Contract!Next, Contract!Conclude, Contract!Verdicts, Contract!Truthful
<1>13. CASE Fail
  <2>1. ~failure /\ UNCHANGED <<Files, complete, mutation>>
    BY <1>13 DEF Fail, Order
  <2>2. failure' = failure \/ (failure' /\ Settled)
    BY <1>13 DEF Fail, Settled
  <2>3. QED
    BY <2>1, <2>2, <1>2, <1>3
<1>14. CASE ConfirmFailed
  <2>1. ~failure /\ Settled /\ failure' /\ UNCHANGED <<Files, complete, mutation>>
    BY <1>14 DEF ConfirmFailed, Commit, Order
  <2>2. QED
    BY <2>1, <1>3
<1>15. CASE AuditFails
  <2>1. ~failure /\ UNCHANGED <<Files, complete, mutation>>
    BY <1>0, <1>15 DEF AuditFails, AuditThrows, CutOff, Order, AuditStages
  <2>2. failure' = failure \/ (failure' /\ Settled)
    BY <1>15 DEF AuditFails, Order
  <2>3. QED
    BY <2>1, <2>2, <1>2, <1>3
<1>16. CASE AuditWrite
  <2>1. UNCHANGED <<target, SessionVerdict, backup>>
    BY <1>16 DEF AuditWrite, SessionVerdict
  <2>2. Covered => Covered'
    <3>1. durable \in Seq(AuditStages) /\ durable' \in Seq(AuditStages)
      BY <1>1 DEF TypeOK, ValuesOK
    <3>2. IsPrefix(durable, durable')
      BY <1>16, PrefixAppend DEF AuditWrite, CanPersist, TypeOK, ValuesOK
    <3>3. QED
      BY <2>1, <3>1, <3>2, PrefixContains DEF Covered
  <2>3. ~failure
    BY <1>16 DEF AuditWrite, Order, AuditStages
  <2>4. complete => Covered
    BY DEF Truth, Order, Recoverable, Covered
  <2>5. QED
    BY <2>1, <2>2, <2>3, <2>4
       DEF Contract!Next, Contract!Arm, Contract!vars, SessionVerdict, Covered
<1>17. CASE AuditFailsNonstandard \/ FailEscapes \/ Tamper
  BY <1>0, <1>17 DEF AuditFailsNonstandard, FailEscapes, Tamper
<1>18. CASE Release
  <2>1. UNCHANGED <<Files, verdict, mutation>>
    BY <1>18 DEF Release
  <2>2. QED
    BY <2>1, <1>2
<1>19. CASE Crash
  <2>1. UNCHANGED <<durable, backup, verdict, mutation>>
    BY <1>0, <1>19 DEF Crash, CutOff
  <2>2. target' = target \/ (armed /\ ~failure)
    BY <1>19 DEF Crash, Order, Executing, Recovering
  <2>3. QED
    BY <2>1, <2>2, <1>2, <1>4
<1>20. CASE UNCHANGED vars
  <2>1. UNCHANGED <<Files, verdict, mutation>>
    BY <1>20 DEF vars
  <2>2. QED
    BY <2>1, <1>2
<1>21. QED
  BY <1>5, <1>6, <1>7, <1>8, <1>9, <1>10, <1>11, <1>12, <1>13, <1>14, <1>15, <1>16,
     <1>17, <1>18, <1>19, <1>20 DEF Next, Step

(* SessionImplementsContract: while the host fails only with standard      *)
(* exceptions, no audit write is cut off and nobody else touches the files,*)
(* a session of any plan, driven by any number of threads and killed at any*)
(* point outside a write of the audit file, writes only covered documents  *)
(* and gives one verdict, which is true and final.                         *)
THEOREM SessionImplementsContract ==
  ASSUME Faults \subseteq {"host", "crash"} PROVE Spec => ImplementsContract
<1> DEFINE Inv == TypeOK /\ Order /\ Recoverable /\ Truth /\ Started /\ auditState = "sound"
<1>1. Untampered /\ "tamper" \notin Faults /\ "nonstd" \notin Faults
  BY DEF Untampered
<1>2. Init => Inv
  BY TypeInit, OrderInit, RecoverableInit, TruthInit, StartedInit DEF Init
<1>3. Inv /\ [Next]_vars => Inv'
  BY <1>1, TypeStep, OrderStep, RecoverableStep, TruthStep, StartedStep, SoundStep
<1>4. Inv /\ [Next]_vars => [Contract!Next]_(Contract!vars)
  BY ContractStep
<1>5. QED
  BY <1>2, <1>3, <1>4, ContractInit, PTL DEF Spec, ImplementsContract, Contract!Spec
-------------------------------------------------------------------------------
(* The restoration a session claims has happened.                          *)

(* A claim of restoration, in the session or on record, is the last thing  *)
(* a session does: it is disarmed, incomplete, and failing or at its end.  *)
Restored ==
  \/ mutation = "VERIFIED_RESTORED"
  \/ Contains(durable, "ROLLBACK") \/ Contains(mem, "ROLLBACK")
  => /\ mutation = "VERIFIED_RESTORED" /\ ~armed /\ ~complete
     /\ failure \/ pc \in {"ROLLBACK", "FAILED", "gone"}

LEMMA RestoredInit == Init => Restored
BY DEF Init, Restored, Contains

(* After the claim no call is accepted.                                    *)
LEMMA RestoredStep ==
  ASSUME "nonstd" \notin Faults, "tamper" \notin Faults, TypeOK, Order, Restored, [Next]_vars
  PROVE  Restored'
<1>0. "nonstd" \notin Faults /\ "tamper" \notin Faults
  OBVIOUS
<1> USE DEF Restored, Order, Preparing, Executing, Verifying, Recovering, Enter, Goto, Return,
            call, authority, recovery, verdict, trail, world
<1>1. ASSUME NEW t \in Threads, CallPrepare(t) PROVE Restored'
  BY <1>0, <1>1 DEF CallPrepare
<1>2. ASSUME NEW t \in Threads, RecallPrepare(t) PROVE Restored'
  BY <1>0, <1>2 DEF RecallPrepare
<1>3. ASSUME NEW t \in Threads, NEW n \in 1..N, CallExecute(t, n) PROVE Restored'
  BY <1>0, <1>3 DEF CallExecute, Accepted
<1>4. ASSUME NEW t \in Threads, NEW o \in {"call", "complete"}, CallVerify(t, o)
      PROVE  Restored'
  BY <1>0, <1>4 DEF CallVerify, Accepted
<1>5. ASSUME NEW t \in Threads, CallComplete(t) PROVE Restored'
  BY <1>0, <1>5 DEF CallComplete, Accepted
<1>6. ASSUME NEW t \in Threads, Destroy(t) PROVE Restored'
  BY <1>0, <1>6 DEF Destroy
<1>7. CASE PlanRejected \/ PlanEmpty
  BY <1>0, <1>7 DEF PlanRejected, PlanEmpty
<1>8. CASE PlanAccepted
  BY <1>0, <1>8 DEF PlanAccepted
<1>9. CASE AcquireLease \/ Observe
  BY <1>0, <1>9 DEF AcquireLease, Observe
<1>10. CASE ConfirmPhase
  <2>1. PICK stage \in DOMAIN AfterPhase :
             Commit(stage) /\ Goto(AfterPhase[stage])
             /\ UNCHANGED <<authority, recovery, verdict, world>>
    BY <1>0, <1>10 DEF ConfirmPhase
  <2>2. pc \in Preparing /\ pc' \in Preparing \ {"BACKUP"}
    BY <2>1, PhaseOrder DEF Commit
  <2>3. QED
    BY <2>1, <2>2 DEF Commit
<1>11. CASE Gate
  BY <1>0, <1>11 DEF Gate
<1>12. CASE TakeBackup
  BY <1>0, <1>12 DEF TakeBackup
<1>13. CASE ConfirmBackup
  BY <1>0, <1>13 DEF ConfirmBackup, Commit
<1>14. CASE ConfirmStarted
  BY <1>0, <1>14 DEF ConfirmStarted, Commit
<1>15. CASE Apply \/ Readback
  BY <1>0, <1>15 DEF Apply, Readback
<1>16. CASE ConfirmSucceeded
  BY <1>0, <1>16 DEF ConfirmSucceeded, Commit
<1>17. CASE ConfirmVerify
  BY <1>0, <1>17 DEF ConfirmVerify, Commit
<1>18. CASE ConfirmHealed
  BY <1>0, <1>18 DEF ConfirmHealed, Commit
<1>19. CASE Fail \/ FailEscapes
  BY <1>0, <1>19 DEF Fail, FailEscapes
<1>20. CASE AuthoriseRestore \/ RestoreBackup
  BY <1>0, <1>20 DEF AuthoriseRestore, RestoreBackup, RestoreFailed
<1>21. CASE ConfirmRestored
  BY <1>0, <1>21 DEF ConfirmRestored, RestoreFailed
<1>22. CASE ConfirmRollback \/ ConfirmFailed
  BY <1>0, <1>22 DEF ConfirmRollback, ConfirmFailed, Commit
<1>23. CASE AuditWrite
  BY <1>0, <1>23, AppendContainsOnly DEF AuditWrite, TypeOK, ValuesOK
<1>24. CASE AuditFails
  <2>1. /\ UNCHANGED <<armed, mutation, complete, mem>> /\ pc \notin {"idle", "gone"}
        /\ \A e : Contains(durable', e) => Contains(durable, e) \/ Contains(mem, e)
    BY <1>24, ThrowsShape, PrefixContains DEF AuditFails, AuditStages, TypeOK, ValuesOK
  <2>2. CASE pc = "FAILED"
    BY <2>1, <2>2, <1>24 DEF AuditFails
  <2>3. CASE pc = "ROLLBACK"
    BY <2>1, <2>3, <1>24 DEF AuditFails
  <2>4. CASE pc \notin {"FAILED", "ROLLBACK"}
    BY <2>1, <2>4, <1>24 DEF AuditFails
  <2>5. QED
    BY <2>2, <2>3, <2>4
<1>25. CASE AuditFailsNonstandard
  BY <1>0, <1>25 DEF AuditFailsNonstandard, AuditThrows
<1>26. CASE Release \/ Crash
  <2>1. /\ UNCHANGED <<armed, mutation, complete, mem>> /\ pc' = "gone"
        /\ \A e : Contains(durable', e) => Contains(durable, e) \/ Contains(mem, e)
    BY <1>26, CutOffShape, PrefixContains DEF Release, Crash, TypeOK, ValuesOK
  <2>2. QED
    BY <2>1
<1>27. CASE Tamper
  BY <1>0, <1>27 DEF Tamper
<1>28. CASE UNCHANGED vars
  BY <1>0, <1>28 DEF vars
<1>29. QED
  BY <1>1, <1>2, <1>3, <1>4, <1>5, <1>6, <1>7, <1>8, <1>9, <1>10, <1>11, <1>12,
     <1>13, <1>14, <1>15, <1>16, <1>17, <1>18, <1>19, <1>20, <1>21, <1>22, <1>23, <1>24,
     <1>25, <1>26, <1>27, <1>28
     DEF Next, Calls, Step

(* A verified restoration disarms the session; while the lease is held the *)
(* target stays as it was restored, whatever else happens to the files.    *)
Held ==
  mutation = "VERIFIED_RESTORED" => ~armed /\ (leased => target = 0)

LEMMA HeldInit == Init => Held
BY DEF Init, Held

LEMMA HeldStep ==
  ASSUME TypeOK, Order, Held, [Next]_vars
  PROVE  Held'
<1> USE DEF Held, Order, Preparing, Executing, Verifying, Recovering, Enter, Goto, Return,
            call, authority, recovery, verdict, trail, world
<1>1. ASSUME NEW t \in Threads, CallPrepare(t)
      PROVE  Held'
  BY <1>1 DEF CallPrepare
<1>2. ASSUME NEW t \in Threads, RecallPrepare(t)
      PROVE  Held'
  BY <1>2 DEF RecallPrepare
<1>3. ASSUME NEW t \in Threads, NEW n \in 1..N, CallExecute(t, n)
      PROVE  Held'
  BY <1>3 DEF CallExecute, Accepted
<1>4. ASSUME NEW t \in Threads, NEW o \in {"call", "complete"}, CallVerify(t, o)
      PROVE  Held'
  BY <1>4 DEF CallVerify, Accepted
<1>5. ASSUME NEW t \in Threads, CallComplete(t)
      PROVE  Held'
  BY <1>5 DEF CallComplete, Accepted
<1>6. ASSUME NEW t \in Threads, Destroy(t)
      PROVE  Held'
  BY <1>6 DEF Destroy
<1>7. CASE PlanRejected \/ PlanEmpty
  BY <1>7 DEF PlanRejected, PlanEmpty
<1>8. CASE PlanAccepted
  BY <1>8 DEF PlanAccepted
<1>9. CASE AcquireLease \/ Observe
  BY <1>9 DEF AcquireLease, Observe
<1>10. CASE ConfirmPhase
  <2>1. PICK stage \in DOMAIN AfterPhase :
             Commit(stage) /\ Goto(AfterPhase[stage])
             /\ UNCHANGED <<authority, recovery, verdict, world>>
    BY <1>10 DEF ConfirmPhase
  <2>2. pc \in Preparing /\ pc' \in Preparing \ {"BACKUP"}
    BY <2>1, PhaseOrder DEF Commit
  <2>3. QED
    BY <2>1, <2>2 DEF Commit
<1>11. CASE Gate
  BY <1>11 DEF Gate
<1>12. CASE TakeBackup
  BY <1>12 DEF TakeBackup
<1>13. CASE ConfirmBackup
  BY <1>13 DEF ConfirmBackup, Commit
<1>14. CASE ConfirmStarted
  BY <1>14 DEF ConfirmStarted, Commit
<1>15. CASE Apply \/ Readback
  BY <1>15 DEF Apply, Readback
<1>16. CASE ConfirmSucceeded
  BY <1>16 DEF ConfirmSucceeded, Commit
<1>17. CASE ConfirmVerify
  BY <1>17 DEF ConfirmVerify, Commit
<1>18. CASE ConfirmHealed
  BY <1>18 DEF ConfirmHealed, Commit
<1>19. CASE Fail \/ FailEscapes
  BY <1>19 DEF Fail, FailEscapes
<1>20. CASE AuthoriseRestore \/ RestoreBackup
  BY <1>20 DEF AuthoriseRestore, RestoreBackup, RestoreFailed
<1>21. CASE ConfirmRestored
  BY <1>21 DEF ConfirmRestored, RestoreFailed
<1>22. CASE ConfirmRollback \/ ConfirmFailed
  BY <1>22 DEF ConfirmRollback, ConfirmFailed, Commit
<1>23. CASE AuditWrite
  BY <1>23 DEF AuditWrite
<1>24. CASE AuditFails
  <2>1. /\ UNCHANGED <<authority, recovery, complete, world>>
    BY <1>24 DEF AuditFails, AuditThrows
  <2>2. QED
    BY <2>1
<1>25. CASE AuditFailsNonstandard
  <2>1. UNCHANGED <<armed, authority, world>>
    BY <1>25 DEF AuditFailsNonstandard, AuditThrows
  <2>2. mutation' \in {mutation, "RESTORE_FAILED"}
    BY <1>25 DEF AuditFailsNonstandard
  <2>3. QED
    BY <2>1, <2>2
<1>26. CASE Release \/ Crash
  BY <1>26 DEF Release, Crash
<1>27. CASE Tamper
  BY <1>27 DEF Tamper, DamageBackup, ReplaceAudit, LoseEvents, EditTarget
<1>28. CASE UNCHANGED vars
  BY <1>28 DEF vars
<1>29. QED
  BY <1>1, <1>2, <1>3, <1>4, <1>5, <1>6, <1>7, <1>8, <1>9, <1>10, <1>11, <1>12,
     <1>13, <1>14, <1>15, <1>16, <1>17, <1>18, <1>19, <1>20, <1>21, <1>22, <1>23, <1>24,
     <1>25, <1>26, <1>27, <1>28
     DEF Next, Calls, Step

(* RestorationIsTrue: the session claims a restoration only while the      *)
(* target it holds is the original again (restoreAuthorized), and its      *)
(* audit file, if nobody else touches it, only while the target is the     *)
(* original, wherever its writes were cut off; unless the host throws a    *)
(* nonstandard exception.                                                  *)
THEOREM RestorationIsTrue ==
  ASSUME "nonstd" \notin Faults PROVE Spec => []RestoredIsOriginal
<1>1. CASE Untampered
  <2> DEFINE Inv == TypeOK /\ Order /\ Truth /\ Restored
  <2>0. "tamper" \notin Faults
    BY <1>1 DEF Untampered
  <2>1. Init => Inv
    BY TypeInit, OrderInit, TruthInit, RestoredInit
  <2>2. Inv /\ [Next]_vars => Inv'
    BY <2>0, TypeStep, OrderStep, TruthStep, RestoredStep
  <2>3. Inv => RestoredIsOriginal
    BY DEF Restored, Truth, RestoredIsOriginal
  <2>4. QED
    BY <2>1, <2>2, <2>3, PTL DEF Spec
<1>2. CASE ~Untampered
  <2>1. TypeOK /\ Order /\ Held /\ [Next]_vars => Held'
    BY HeldStep
  <2>2. Held => RestoredIsOriginal
    BY <1>2 DEF Held, RestoredIsOriginal
  <2>3. QED
    BY <2>1, <2>2, HeldInit, OrderInvariant, PTL DEF Spec
<1>3. QED
  BY <1>1, <1>2
-------------------------------------------------------------------------------
(* One verdict.                                                            *)

(* Whoever calls a session is its owner.  A completed session accepts      *)
(* nothing more, and a recorded failure is the last thing one records.     *)
Final ==
  /\ pc \notin {"idle", "gone"} => thr \in Threads
  /\ ctx \/ pc \in Preparing \ {"plan"} => owner \in Threads
  /\ complete => ctx /\ ~failure /\ pc \in {"idle", "gone"}
  /\ Contains(mem, "HEALED") => complete
  /\ Contains(durable, "FAILED") \/ Contains(mem, "FAILED") => failure \/ pc \in {"FAILED", "gone"}
  /\ ~(Contains(durable, "HEALED") /\ Contains(durable, "FAILED"))

LEMMA FinalInit == Init => Final
BY DEF Init, Final, Contains, Preparing

(* Only the confirmed HEALED record brings that event into memory.         *)
LEMMA CommitKeeps ==
  ASSUME TypeOK, NEW stage \in AuditStages \ {"HEALED"}, Commit(stage)
  PROVE  mem' = durable /\ durable' = durable /\ (Contains(mem', "HEALED") => Contains(mem, "HEALED"))
<1>1. mem' = durable /\ durable' = durable /\ durable = Append(mem, stage)
  BY DEF Commit, Confirmed
<1>2. mem \in Seq(AuditStages)
  BY DEF TypeOK, ValuesOK
<1>. QED
  BY <1>1, <1>2, AppendContainsOnly

(* No step of a session with one caller gives a second verdict.            *)
LEMMA FinalStep ==
  ASSUME "nonstd" \notin Faults, "tamper" \notin Faults, \A t, u \in Threads : t = u,
         TypeOK, Order, Final, [Next]_vars
  PROVE  Final'
<1>0. "nonstd" \notin Faults /\ "tamper" \notin Faults
  OBVIOUS
<1> USE DEF Final, Order, Preparing, Executing, Verifying, Recovering, Enter, Goto, Return,
            call, authority, recovery, verdict, trail, world
<1>1. ASSUME NEW t \in Threads, CallPrepare(t) PROVE Final'
  BY <1>0, <1>1 DEF CallPrepare
<1>2. ASSUME NEW t \in Threads, RecallPrepare(t) PROVE Final'
  BY <1>0, <1>2 DEF RecallPrepare
<1>3. ASSUME NEW t \in Threads, NEW n \in 1..N, CallExecute(t, n) PROVE Final'
  BY <1>0, <1>3 DEF CallExecute, Accepted
<1>4. ASSUME NEW t \in Threads, NEW o \in {"call", "complete"}, CallVerify(t, o)
      PROVE  Final'
  BY <1>0, <1>4 DEF CallVerify, Accepted
<1>5. ASSUME NEW t \in Threads, CallComplete(t) PROVE Final'
  BY <1>0, <1>5 DEF CallComplete, Accepted
<1>6. ASSUME NEW t \in Threads, Destroy(t) PROVE Final'
  BY <1>0, <1>6 DEF Destroy
<1>7. CASE PlanRejected \/ PlanEmpty
  BY <1>0, <1>7 DEF PlanRejected, PlanEmpty
<1>8. CASE PlanAccepted
  BY <1>0, <1>8 DEF PlanAccepted
<1>9. CASE AcquireLease \/ Observe
  BY <1>0, <1>9 DEF AcquireLease, Observe
<1>10. CASE ConfirmPhase
  <2>1. PICK stage \in DOMAIN AfterPhase :
             Commit(stage) /\ Goto(AfterPhase[stage])
             /\ UNCHANGED <<authority, recovery, verdict, world>>
    BY <1>0, <1>10 DEF ConfirmPhase
  <2>2. pc \in Preparing /\ pc' \in Preparing \ {"BACKUP"}
    BY <2>1, PhaseOrder DEF Commit
  <2>3. QED
    <3>1. stage \in AuditStages \ {"HEALED"}
      BY <2>1 DEF AfterPhase, AuditStages
    <3>2. mem' = durable /\ durable' = durable /\ (Contains(mem', "HEALED") => Contains(mem, "HEALED"))
      BY <2>1, <3>1, CommitKeeps
    <3>3. pc \in Preparing \ {"plan"} /\ pc \notin {"idle", "gone", "FAILED"}
      BY <2>1, <2>2, <3>1 DEF Commit, AuditStages
    <3>4. UNCHANGED <<thr, owner, ctx, failure, complete>>
      BY <2>1
    <3>5. QED
      BY <2>2, <3>2, <3>3, <3>4
<1>11. CASE Gate
  BY <1>0, <1>11 DEF Gate
<1>12. CASE TakeBackup
  BY <1>0, <1>12 DEF TakeBackup
<1>13. CASE ConfirmBackup
  <2>1. mem' = durable /\ durable' = durable /\ (Contains(mem', "HEALED") => Contains(mem, "HEALED"))
    BY <1>13, CommitKeeps DEF ConfirmBackup, AuditStages
  <2>. QED
    BY <1>0, <1>13, <2>1 DEF ConfirmBackup, Commit
<1>14. CASE ConfirmStarted
  <2>1. mem' = durable /\ durable' = durable /\ (Contains(mem', "HEALED") => Contains(mem, "HEALED"))
    BY <1>14, CommitKeeps DEF ConfirmStarted, AuditStages
  <2>. QED
    BY <1>0, <1>14, <2>1 DEF ConfirmStarted, Commit
<1>15. CASE Apply \/ Readback
  BY <1>0, <1>15 DEF Apply, Readback
<1>16. CASE ConfirmSucceeded
  <2>1. mem' = durable /\ durable' = durable /\ (Contains(mem', "HEALED") => Contains(mem, "HEALED"))
    BY <1>16, CommitKeeps DEF ConfirmSucceeded, AuditStages
  <2>. QED
    BY <1>0, <1>16, <2>1 DEF ConfirmSucceeded, Commit
<1>17. CASE ConfirmVerify
  <2>1. mem' = durable /\ durable' = durable /\ (Contains(mem', "HEALED") => Contains(mem, "HEALED"))
    BY <1>17, CommitKeeps DEF ConfirmVerify, AuditStages
  <2>. QED
    BY <1>0, <1>17, <2>1 DEF ConfirmVerify, Commit
<1>18. CASE ConfirmHealed
  BY <1>0, <1>18 DEF ConfirmHealed, Commit
<1>19. CASE Fail \/ FailEscapes
  BY <1>0, <1>19 DEF Fail, FailEscapes
<1>20. CASE AuthoriseRestore \/ RestoreBackup
  BY <1>0, <1>20 DEF AuthoriseRestore, RestoreBackup, RestoreFailed
<1>21. CASE ConfirmRestored
  BY <1>0, <1>21 DEF ConfirmRestored, RestoreFailed
<1>22. CASE ConfirmRollback \/ ConfirmFailed
  <2>1. mem' = durable /\ durable' = durable /\ (Contains(mem', "HEALED") => Contains(mem, "HEALED"))
    BY <1>22, CommitKeeps DEF ConfirmRollback, ConfirmFailed, AuditStages
  <2>. QED
    BY <1>0, <1>22, <2>1 DEF ConfirmRollback, ConfirmFailed, Commit
<1>23. CASE AuditWrite
  <2>1. durable' = Append(mem, pc) /\ mem' = mem /\ pc \in AuditStages /\ mem \in Seq(AuditStages)
    BY <1>23 DEF AuditWrite, TypeOK, ValuesOK
  <2>2. \A e : Contains(durable', e) => Contains(mem, e) \/ e = pc
    BY <2>1, AppendContainsOnly
  <2>3. pc \notin {"idle", "gone"} /\ ~failure /\ ~complete
    BY <2>1 DEF AuditStages
  <2>4. Contains(durable', "FAILED") => pc = "FAILED"
    BY <2>1, <2>2, <2>3
  <2>5. Contains(durable', "HEALED") => pc = "HEALED"
    BY <2>1, <2>2, <2>3
  <2>. QED
    BY <1>23, <2>1, <2>3, <2>4, <2>5 DEF AuditWrite
<1>24. CASE AuditFails
  <2>0. pc \notin {"idle", "gone"} /\ ~failure /\ ~complete
    BY <1>24 DEF AuditFails, AuditThrows, AuditStages
  <2>a. /\ UNCHANGED <<owner, ctx, complete, mem>> /\ thr' \in {thr, Nobody}
        /\ \/ durable' = durable
           \/ \A e : Contains(durable', e) => Contains(mem, e)
    BY <1>24, ThrowsShape, PrefixContains DEF AuditFails, TypeOK, ValuesOK
  <2>b. ~(Contains(durable', "HEALED") /\ Contains(durable', "FAILED"))
    BY <2>0, <2>a
  <2>c. Contains(durable', "FAILED") \/ Contains(mem', "FAILED") => failure \/ pc \in {"FAILED", "gone"}
    BY <2>0, <2>a
  <2>1. /\ UNCHANGED <<owner, ctx, complete, mem>> /\ thr' \in {thr, Nobody}
        /\ ~(Contains(durable', "HEALED") /\ Contains(durable', "FAILED"))
        /\ Contains(durable', "FAILED") \/ Contains(mem', "FAILED") =>
             failure \/ pc \in {"FAILED", "gone"}
        /\ pc \notin {"idle", "gone"} /\ ~failure /\ ~complete
    BY <2>0, <2>a, <2>b, <2>c
  <2>2. CASE pc = "FAILED"
    BY <2>1, <2>2, <1>24 DEF AuditFails
  <2>3. CASE pc = "ROLLBACK"
    BY <2>1, <2>3, <1>24 DEF AuditFails
  <2>4. CASE pc \notin {"FAILED", "ROLLBACK"}
    BY <2>1, <2>4, <1>24 DEF AuditFails
  <2>5. QED
    BY <2>2, <2>3, <2>4
<1>25. CASE AuditFailsNonstandard
  BY <1>0, <1>25 DEF AuditFailsNonstandard, AuditThrows
<1>26. CASE Release \/ Crash
  <2>1. CASE Release
    BY <1>0, <2>1 DEF Release
  <2>2. CASE Crash
    <3>1. \/ durable' = durable
          \/ ~complete /\ \A e : Contains(durable', e) => Contains(mem, e)
      BY <2>2, CutOffShape, PrefixContains DEF Crash, AuditStages, TypeOK, ValuesOK
    <3>2. ~(Contains(durable', "HEALED") /\ Contains(durable', "FAILED"))
      BY <3>1
    <3>3. UNCHANGED <<mem, owner, ctx, complete, failure>> /\ pc' = "gone"
      BY <2>2 DEF Crash
    <3>4. QED
      BY <3>2, <3>3
  <2>3. QED
    BY <1>26, <2>1, <2>2
<1>27. CASE Tamper
  BY <1>0, <1>27 DEF Tamper
<1>28. CASE UNCHANGED vars
  BY <1>0, <1>28 DEF vars
<1>29. QED
  BY <1>1, <1>2, <1>3, <1>4, <1>5, <1>6, <1>7, <1>8, <1>9, <1>10, <1>11, <1>12,
     <1>13, <1>14, <1>15, <1>16, <1>17, <1>18, <1>19, <1>20, <1>21, <1>22, <1>23, <1>24,
     <1>25, <1>26, <1>27, <1>28
     DEF Next, Calls, Step

(* VerdictIsSingle: a session that one thread calls never both heals and   *)
(* fails, in memory or in its audit file, if hosts throw standard          *)
(* exceptions and nobody else touches the files, wherever its own writes   *)
(* are cut off (complete, failAndRestore).                                 *)
THEOREM VerdictIsSingle ==
  ASSUME "nonstd" \notin Faults, "tamper" \notin Faults, \A t, u \in Threads : t = u
  PROVE  Spec => []OneVerdict
<1> DEFINE Inv == TypeOK /\ Order /\ Final
<1>1. Init => Inv
  BY TypeInit, OrderInit, FinalInit
<1>2. Inv /\ [Next]_vars => Inv'
  BY TypeStep, OrderStep, FinalStep
<1>3. Inv => OneVerdict
  BY DEF Final, OneVerdict
<1>4. QED
  BY <1>1, <1>2, <1>3, PTL DEF Spec

-------------------------------------------------------------------------------
(* The final claims of a session.                                          *)

(* FailureStaysFinal: a kept failure ends the session: no step changes what*)
(* it claims, and only others write the target, once it is given back      *)
(* (the sticky-failure return of each call), under every class of fault.   *)
THEOREM FailureStaysFinal == Spec => FailureIsFinal
<1>1. ASSUME Order, [Next]_vars
      PROVE  [failure => /\ failure' /\ mutation' = mutation /\ complete' = complete
                         /\ leased => target' = target]_vars
  <2> SUFFICES ASSUME failure
               PROVE  /\ failure' /\ mutation' = mutation /\ complete' = complete
                      /\ leased => target' = target
    OBVIOUS
  <2> USE DEF recovery, verdict, world, trail
  <2>1. pc \in {"idle", "gone"}
    BY <1>1 DEF Order
  <2>2. ASSUME Calls
        PROVE  UNCHANGED <<failure, mutation, complete, target>>
    BY <2>2 DEF Calls, CallPrepare, RecallPrepare, CallExecute, CallVerify, CallComplete,
                Accepted, Destroy
  <2>3. ASSUME Step
        PROVE  UNCHANGED <<failure, mutation, complete, target>>
    <3>1. ~ConfirmPhase
      BY <2>1, PhaseOrder DEF ConfirmPhase, Commit
    <3>2. ~(PlanRejected \/ PlanEmpty \/ PlanAccepted \/ AcquireLease \/ Observe
            \/ Gate \/ TakeBackup \/ Apply \/ Readback \/ Fail \/ FailEscapes
            \/ AuthoriseRestore \/ RestoreBackup \/ ConfirmRestored)
      BY <2>1 DEF PlanRejected, PlanEmpty, PlanAccepted, AcquireLease, Observe, Gate,
                  TakeBackup, Apply, Readback, Fail, FailEscapes, AuthoriseRestore,
                  RestoreBackup, ConfirmRestored
    <3>3. ~(ConfirmBackup \/ ConfirmStarted \/ ConfirmSucceeded \/ ConfirmVerify
            \/ ConfirmHealed \/ ConfirmRollback \/ ConfirmFailed)
      BY <2>1 DEF Commit, ConfirmBackup, ConfirmStarted, ConfirmSucceeded, ConfirmVerify,
                  ConfirmHealed, ConfirmRollback, ConfirmFailed
    <3>4. ~(AuditWrite \/ AuditFails \/ AuditFailsNonstandard)
      BY <2>1 DEF AuditWrite, AuditFails, AuditFailsNonstandard, AuditThrows, AuditStages
    <3>5. Release
      BY <2>3, <3>1, <3>2, <3>3, <3>4 DEF Step
    <3>6. QED
      BY <3>5 DEF Release
  <2>4. ASSUME Crash
        PROVE  UNCHANGED <<failure, mutation, complete, target>>
    BY <2>1, <2>4 DEF Crash
  <2>5. ASSUME Tamper
        PROVE  /\ UNCHANGED <<failure, mutation, complete>>
               /\ leased => target' = target
    BY <2>5 DEF Tamper, DamageBackup, ReplaceAudit, LoseEvents, EditTarget
  <2>6. CASE UNCHANGED vars
    BY <2>6 DEF vars
  <2>7. QED
    BY <1>1, <2>2, <2>3, <2>4, <2>5, <2>6 DEF Next
<1>2. QED
  BY <1>1, OrderInvariant, PTL DEF Spec, FailureIsFinal

(* What a verdict of verify stands on until complete() uses it: all        *)
(* operations are executed, the recovery is armed, so the lease is held and*)
(* nobody else writes the target; after a restoration no call is accepted. *)
Expected ==
  /\ pc # "gone" => alive
  /\ rolled => failure \/ pc \in {"ROLLBACK", "FAILED", "gone"}
  /\ ~ctx => executed = 0
  /\ pc \in {"STARTED", "apply", "readback"} => executed < upto
  /\ pc \in Executing => verification # "PASSED"
  /\ pc \in Verifying => verification # "NONE" /\ executed = N
  /\ pc = "HEALED" => verification = "PASSED"
  /\ verification = "PASSED" => executed = N
  /\ executed = N /\ ~failure /\ ~complete /\ pc \in {"idle", "SUCCEEDED"} \cup Verifying
       => armed /\ mutation = "MUTATED"
  /\ verification = "PASSED" /\ ~failure /\ ~complete /\ pc \in {"idle"} \cup Verifying
       => target = N

LEMMA ExpectedInit == Init => Expected
BY DEF Init, Expected, Executing, Verifying

LEMMA ExpectedStep ==
  ASSUME "nonstd" \notin Faults, TypeOK, Order, Leased, Expected, [Next]_vars
  PROVE  Expected'
<1>0. "nonstd" \notin Faults /\ N # 0 /\ executed \in 0..N /\ upto \in 0..N
  BY DEF TypeOK, ValuesOK
<1> USE DEF Expected, Leased, Order, Preparing, Executing, Verifying, Recovering, Enter, Goto, Return,
            call, authority, recovery, verdict, trail, world
<1>1. ASSUME NEW t \in Threads, CallPrepare(t)
      PROVE  Expected'
  BY <1>0, <1>1 DEF CallPrepare
<1>2. ASSUME NEW t \in Threads, RecallPrepare(t)
      PROVE  Expected'
  BY <1>0, <1>2 DEF RecallPrepare
<1>3. ASSUME NEW t \in Threads, NEW n \in 1..N, CallExecute(t, n)
      PROVE  Expected'
  BY <1>0, <1>3 DEF CallExecute, Accepted
<1>4. ASSUME NEW t \in Threads, NEW o \in {"call", "complete"}, CallVerify(t, o)
      PROVE  Expected'
  BY <1>0, <1>4 DEF CallVerify, Accepted
<1>5. ASSUME NEW t \in Threads, CallComplete(t)
      PROVE  Expected'
  BY <1>0, <1>5 DEF CallComplete, Accepted
<1>6. ASSUME NEW t \in Threads, Destroy(t)
      PROVE  Expected'
  BY <1>0, <1>6 DEF Destroy
<1>7. CASE PlanRejected \/ PlanEmpty
  BY <1>0, <1>7 DEF PlanRejected, PlanEmpty
<1>8. CASE PlanAccepted
  BY <1>0, <1>8 DEF PlanAccepted
<1>9. CASE AcquireLease \/ Observe
  BY <1>0, <1>9 DEF AcquireLease, Observe
<1>10. CASE ConfirmPhase
  <2>1. PICK stage \in DOMAIN AfterPhase :
             Commit(stage) /\ Goto(AfterPhase[stage])
             /\ UNCHANGED <<authority, recovery, verdict, world>>
    BY <1>10 DEF ConfirmPhase
  <2>2. pc \in Preparing /\ pc' \in Preparing \ {"BACKUP"}
    BY <2>1, PhaseOrder DEF Commit
  <2>3. QED
    BY <2>1, <2>2 DEF Commit
<1>11. CASE Gate
  BY <1>0, <1>11 DEF Gate
<1>12. CASE TakeBackup
  BY <1>0, <1>12 DEF TakeBackup
<1>13. CASE ConfirmBackup
  BY <1>0, <1>13 DEF ConfirmBackup, Commit
<1>14. CASE ConfirmStarted
  BY <1>0, <1>14 DEF ConfirmStarted, Commit
<1>15. CASE Apply \/ Readback
  BY <1>0, <1>15 DEF Apply, Readback
<1>16. CASE ConfirmSucceeded
  BY <1>0, <1>16 DEF ConfirmSucceeded, Commit
<1>17. CASE ConfirmVerify
  <2>1. /\ pc \in Verifying => verification # "NONE"
        /\ verification \in {"NONE", "PASSED", "FAILED"} /\ pc = "VERIFY"
    BY <1>17 DEF ConfirmVerify, Commit, TypeOK, ValuesOK
  <2>2. UNCHANGED <<authority, recovery, verdict, world>>
    BY <1>17 DEF ConfirmVerify
  <2>3. pc' = "HEALED" => verification # "FAILED"
    BY <1>17 DEF ConfirmVerify
  <2>4. pc' \in {"fail", "HEALED", "idle", "gone"}
    BY <1>17 DEF ConfirmVerify
  <2>5. QED
    BY <2>1, <2>2, <2>3, <2>4
<1>18. CASE ConfirmHealed
  BY <1>0, <1>18 DEF ConfirmHealed, Commit
<1>19. CASE Fail \/ FailEscapes
  BY <1>0, <1>19 DEF Fail, FailEscapes
<1>20. CASE AuthoriseRestore \/ RestoreBackup
  BY <1>0, <1>20 DEF AuthoriseRestore, RestoreBackup, RestoreFailed
<1>21. CASE ConfirmRestored
  BY <1>0, <1>21 DEF ConfirmRestored, RestoreFailed
<1>22. CASE ConfirmRollback \/ ConfirmFailed
  BY <1>0, <1>22 DEF ConfirmRollback, ConfirmFailed, Commit
<1>23. CASE AuditWrite
  BY <1>0, <1>23 DEF AuditWrite
<1>24. CASE AuditFails
  <2>1. /\ UNCHANGED <<authority, recovery, complete, world>>
        /\ pc \notin {"idle", "gone"} /\ ~failure
    BY <1>24 DEF AuditFails, AuditThrows, AuditStages
  <2>2. CASE pc = "FAILED"
    BY <2>1, <2>2, <1>24 DEF AuditFails
  <2>3. CASE pc = "ROLLBACK"
    BY <2>1, <2>3, <1>24 DEF AuditFails
  <2>4. CASE pc \notin {"FAILED", "ROLLBACK"}
    BY <2>1, <2>4, <1>24 DEF AuditFails
  <2>5. QED
    BY <2>2, <2>3, <2>4
<1>25. CASE AuditFailsNonstandard
  BY <1>0, <1>25 DEF AuditFailsNonstandard, AuditThrows, AuditStages
<1>26. CASE Release \/ Crash
  BY <1>0, <1>26 DEF Release, Crash
<1>27. CASE Tamper
  BY <1>0, <1>27 DEF Tamper, DamageBackup, ReplaceAudit, LoseEvents, EditTarget
<1>28. CASE UNCHANGED vars
  BY <1>0, <1>28 DEF vars
<1>29. QED
  BY <1>1, <1>2, <1>3, <1>4, <1>5, <1>6, <1>7, <1>8, <1>9, <1>10, <1>11, <1>12,
     <1>13, <1>14, <1>15, <1>16, <1>17, <1>18, <1>19, <1>20, <1>21, <1>22, <1>23, <1>24,
     <1>25, <1>26, <1>27, <1>28
     DEF Next, Calls, Step

(* HealedStaysExpected: the step that completes a session leaves the       *)
(* approved result, verified, in the target and HEALED last in its audit   *)
(* file, although complete() does not read the target again; unless the    *)
(* host throws a nonstandard exception.                                    *)
THEOREM HealedStaysExpected ==
  ASSUME "nonstd" \notin Faults PROVE Spec => HealedIsExpected
<1> DEFINE Inv == TypeOK /\ Order /\ Leased /\ Expected
<1>1. Init => Inv
  BY TypeInit, OrderInit, LeasedInit, ExpectedInit
<1>2. Inv /\ [Next]_vars => Inv'
  BY TypeStep, OrderStep, LeasedStep, ExpectedStep
<1>3. ASSUME Inv, [Next]_vars
      PROVE  [complete' # complete =>
                /\ target' = N /\ mutation' = "MUTATED" /\ ~rolled'
                /\ verification' = "PASSED" /\ Last(durable') = "HEALED"]_vars
  <2> SUFFICES ASSUME complete' # complete
               PROVE  /\ target' = N /\ mutation' = "MUTATED" /\ ~rolled'
                      /\ verification' = "PASSED" /\ Last(durable') = "HEALED"
    OBVIOUS
  <2>1. ConfirmHealed
    <3> USE DEF recovery, verdict
    <3>1. ~Calls
      BY DEF Calls, CallPrepare, RecallPrepare, CallExecute, CallVerify, CallComplete, Destroy
    <3>2. ~(PlanRejected \/ PlanEmpty \/ PlanAccepted \/ AcquireLease \/ Observe
            \/ ConfirmPhase \/ Gate \/ TakeBackup \/ Apply \/ Readback \/ Fail \/ FailEscapes
            \/ AuthoriseRestore \/ RestoreBackup \/ ConfirmRestored)
      BY DEF PlanRejected, PlanEmpty, PlanAccepted, AcquireLease, Observe, ConfirmPhase, Gate,
             TakeBackup, Apply, Readback, Fail, FailEscapes, AuthoriseRestore,
             RestoreBackup, ConfirmRestored
    <3>3. ~(ConfirmBackup \/ ConfirmStarted \/ ConfirmSucceeded \/ ConfirmVerify
            \/ ConfirmRollback \/ ConfirmFailed \/ AuditWrite \/ AuditFails
            \/ AuditFailsNonstandard \/ Release \/ Crash \/ Tamper)
      BY DEF ConfirmBackup, ConfirmStarted, ConfirmSucceeded, ConfirmVerify, ConfirmRollback,
             ConfirmFailed, AuditWrite, AuditFails, AuditFailsNonstandard, Release, Crash,
             Tamper
    <3>4. ~UNCHANGED vars
      BY DEF vars
    <3>5. QED
      BY <1>3, <3>1, <3>2, <3>3, <3>4 DEF Next, Step
  <2>2. /\ pc = "HEALED" /\ durable' = Append(mem, pc)
        /\ UNCHANGED <<mutation, rolled, verification, target>>
    BY <2>1 DEF ConfirmHealed, Commit, Confirmed, world
  <2>3. /\ verification = "PASSED" /\ executed = N /\ ~failure /\ ~complete
        /\ target = N /\ mutation = "MUTATED" /\ ~rolled
    BY <1>3, <2>2 DEF Order, Expected, Verifying
  <2>4. Last(durable') = "HEALED"
    <3>1. mem \in Seq(AuditStages) /\ "HEALED" \in AuditStages
      BY <1>3 DEF TypeOK, ValuesOK, AuditStages
    <3>2. QED
      BY <2>2, <3>1 DEF Last
  <2>5. QED
    BY <2>2, <2>3, <2>4
<1>4. QED
  BY <1>1, <1>2, <1>3, PTL DEF Spec, HealedIsExpected
===============================================================================
