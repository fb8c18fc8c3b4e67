--------------------------- MODULE AtomicPublish_proofs ---------------------------
(***************************************************************************)
(* Proofs about AtomicPublish, for any publishers, processes, placements   *)
(* and faults.                                                             *)
(*                                                                         *)
(* The argument.  A capability names an identity of the file that its      *)
(* session knows, and a rename gives the file an identity nobody knows     *)
(* (Identities), so one rename outdates every capability issued so far.    *)
(* The mutex of a process excludes a second publication there (TypeOK), so *)
(* as long as only this process publishes, what was validated stays valid  *)
(* up to the rename (Undisturbed).  Progress says what a call has done at  *)
(* each of its points.                                                     *)
(***************************************************************************)
EXTENDS AtomicPublish, TLAPS

Before == {"validate", "stage", "write", "revalidate", "rename"}
Staged == {"stage", "write", "revalidate", "rename"}

Identities ==
  /\ file.id = lastID /\ lastID >= 1
  /\ \A p \in Publishers :
       /\ bound[p] <= lastID /\ cap[p].id <= bound[p]
       /\ pc[p] \in Staged => cap[p].id >= 1
       /\ used[p] <= 1
       /\ used[p] = 1 => bound[p] >= 1 /\ bound[p] < lastID /\ pc[p] \notin Staged

(* What a capability replaces is part of what it puts in its place.        *)
Capabilities ==
  \A p \in Publishers : cap[p] # None =>
    /\ cap[p].id >= 1
    /\ \A x \in Publishers : Contains(cap[p].before, x) => Contains(cap[p].after, x)
    /\ Operation[p] = "Append" => Contains(cap[p].after, p)

Progress ==
  \A p \in Publishers :
    /\ pc[p] \in Before => ~renamed[p] /\ outcome[p] = "NONE"
    /\ pc[p] \in Before \cup {"readback"} => cap[p] # None
    /\ pc[p] \in {"validate", "stage", "readback"} => stage[p] = Nobody
    /\ pc[p] \in {"revalidate", "rename"} => stage[p] = cap[p].after
    /\ pc[p] = "readback" => renamed[p] /\ outcome[p] = "NONE"
    /\ pc[p] = "cleanup" =>
         /\ outcome[p] \in {"NOT_STARTED", "MAY_HAVE_MUTATED"}
         /\ outcome[p] = "NOT_STARTED" => ~renamed[p]

(* Only the process of p has published, and the sink has written nothing.  *)
Alone(p) == written = 0 /\ \A q \in Publishers : used[q] > 0 => home[q] = home[p]

Undisturbed == \A p \in Publishers : pc[p] \in Staged /\ Alone(p) => Valid(p)

IInv ==
  /\ TypeOK /\ Identities /\ Capabilities /\ Progress /\ Undisturbed
  /\ WholeFile /\ ReceiptKept /\ HonestOutcome /\ StagingAccounted

LEMMA Typing ==
  ASSUME TypeOK, NEW p \in Publishers
  PROVE  /\ file = [id |-> file.id, lines |-> file.lines]
         /\ file.lines \in Lines /\ file.id \in Nat /\ lastID \in Nat
         /\ cap[p].before \in Lines /\ cap[p].after \in Lines /\ cap[p].id \in Nat
         /\ bound[p] \in Nat /\ used[p] \in Nat /\ home[p] \in Processes
  BY PublishersAssumption DEF TypeOK

LEMMA InitInv == Init => IInv
  <1> SUFFICES ASSUME Init PROVE IInv
    OBVIOUS
  <1>1. <<>> \in Lines
    BY DEF Lines
  <1>2. TypeOK
    BY <1>1, PublishersAssumption DEF Init, TypeOK, None
  <1>3. Identities /\ Capabilities /\ Progress
    BY DEF Init, Identities, Capabilities, Progress, None, Before, Staged
  <1>4. Undisturbed /\ WholeFile /\ ReceiptKept /\ HonestOutcome /\ StagingAccounted
    BY DEF Init, Undisturbed, Staged, WholeFile, ReceiptKept, HonestOutcome, StagingAccounted
  <1> QED BY <1>2, <1>3, <1>4 DEF IInv

(* What a session appends, and what was there, is in the longer file.      *)
LEMMA Appended ==
  ASSUME NEW s \in Lines, NEW p \in Publishers
  PROVE  /\ Append(s, p) \in Lines
         /\ Contains(Append(s, p), p)
         /\ \A x : Contains(s, x) => Contains(Append(s, p), x)
  <1>1. Append(s, p) \in Lines
    BY DEF Lines
  <1>2. /\ Len(Append(s, p)) = Len(s) + 1 /\ Len(s) \in Nat
        /\ Append(s, p)[Len(s) + 1] = p
        /\ \A i \in 1..Len(s) : Append(s, p)[i] = s[i]
    BY DEF Lines
  <1>3. Contains(Append(s, p), p)
    BY <1>2 DEF Contains
  <1>4. ASSUME NEW x, Contains(s, x)
        PROVE  Contains(Append(s, p), x)
    <2>1. PICK i \in 1..Len(s) : s[i] = x
      BY <1>4 DEF Contains
    <2>2. i \in 1..Len(Append(s, p)) /\ Append(s, p)[i] = x
      BY <1>2, <2>1
    <2> QED BY <2>2 DEF Contains
  <1> QED BY <1>1, <1>3, <1>4

(* The first k lines of a file are a file; all of them are the file.       *)
LEMMA Prefixed ==
  ASSUME NEW s \in Lines, NEW k \in 0..Len(s)
  PROVE  SubSeq(s, 1, k) \in Lines /\ (k = Len(s) => SubSeq(s, 1, k) = s)
  BY DEF Lines

-------------------------------------------------------------------------------
(* The session.                                                            *)

LEMMA CompleteInv == ASSUME IInv, NEW p \in Publishers, Complete(p) PROVE IInv'
  <1> USE DEF IInv
  <1>1. /\ UNCHANGED <<place, home, cap, pc, lock, stage, answer, history, sink>>
        /\ bound' = [bound EXCEPT ![p] = file.id] /\ bound[p] = 0 /\ pc[p] = "idle"
    BY DEF Complete
  <1>2. TypeOK'
    BY <1>1, Typing DEF TypeOK, place, answer, history, sink
  <1>3. Identities'
    BY <1>1, Typing DEF Identities, TypeOK, place, history, Staged
  <1>4. Capabilities' /\ Progress'
    BY <1>1 DEF Capabilities, Progress, answer, history
  <1>5. Undisturbed'
    BY <1>1 DEF Undisturbed, Alone, Valid, place, history, sink
  <1>6. WholeFile' /\ ReceiptKept' /\ HonestOutcome' /\ StagingAccounted'
    BY <1>1 DEF WholeFile, ReceiptKept, HonestOutcome, StagingAccounted, place, answer, history, sink
  <1> QED BY <1>2, <1>3, <1>4, <1>5, <1>6

LEMMA AuthorizeInv == ASSUME IInv, NEW p \in Publishers, Authorize(p) PROVE IInv'
  <1> USE DEF IInv
  <1> DEFINE issued ==
        [id |-> bound[p], before |-> file.lines,
         after |-> IF Operation[p] = "Append" THEN Append(file.lines, p) ELSE file.lines]
  <1>1. /\ UNCHANGED <<place, session, pc, lock, stage, answer, history, sink>>
        /\ cap' = [cap EXCEPT ![p] = issued]
        /\ pc[p] = "idle" /\ bound[p] = file.id
    BY DEF Authorize
  <1>2. /\ issued.id = bound[p] /\ issued.before = file.lines /\ issued.id >= 1
        /\ issued \in [id : Nat, before : Lines, after : Lines]
        /\ \A x \in Publishers : Contains(issued.before, x) => Contains(issued.after, x)
        /\ Operation[p] = "Append" => Contains(issued.after, p)
    BY <1>1, Typing, Appended DEF Identities
  <1> HIDE DEF issued
  <1>3. /\ cap'[p] = issued
        /\ \A q \in Publishers \ {p} : cap'[q] = cap[q]
    BY <1>1 DEF TypeOK
  <1>4. used[p] = 0
    BY <1>1, Typing DEF Identities
  <1>5. TypeOK'
    BY <1>1, <1>2 DEF TypeOK, place, session, answer, history, sink
  <1>6. Identities'
    BY <1>1, <1>2, <1>3, Typing DEF Identities, place, session, history, Staged
  <1>7. Capabilities'
    BY <1>2, <1>3 DEF Capabilities
  <1>8. Progress'
    BY <1>1, <1>3 DEF Progress, Before, answer, history
  <1>9. Undisturbed'
    BY <1>1, <1>3 DEF Undisturbed, Staged, Alone, Valid, place, session, history, sink
  <1>10. WholeFile'
    BY <1>1, <1>3, <1>4 DEF WholeFile, place, history, sink
  <1>11. ReceiptKept' /\ HonestOutcome' /\ StagingAccounted'
    BY <1>1 DEF ReceiptKept, HonestOutcome, StagingAccounted, place, session, answer, history, sink
  <1> QED BY <1>5, <1>6, <1>7, <1>8, <1>9, <1>10, <1>11

-------------------------------------------------------------------------------
(* A call.                                                                 *)

(* A step of a call that does not replace the file.  It becomes staged     *)
(* only where the capability is valid, and confirmed only where the file   *)
(* is what the capability asks for.                                        *)
LEMMA QuietInv ==
  ASSUME IInv, NEW p \in Publishers,
         UNCHANGED <<place, session, cap, used, sink>>,
         \A q \in Publishers \ {p} : pc'[q] = pc[q] /\ outcome'[q] = outcome[q],
         pc'[p] \in Staged => pc[p] \in Staged \/ (Valid(p) /\ cap[p] # None),
         outcome'[p] = "RECEIPT" =>
           outcome[p] = "RECEIPT" \/ (file.lines = cap[p].after /\ cap[p] # None)
  PROVE  Identities' /\ Capabilities' /\ Undisturbed' /\ WholeFile' /\ ReceiptKept'
  <1> USE DEF IInv
  <1>1. Identities'
    BY Typing DEF Identities, Capabilities, Valid, place, session
  <1>2. Capabilities'
    BY DEF Capabilities
  <1>3. Undisturbed'
    BY DEF Undisturbed, Alone, Valid, place, session, sink
  <1>4. WholeFile' /\ ReceiptKept'
    BY DEF WholeFile, ReceiptKept, Capabilities, place, session, sink
  <1> QED BY <1>1, <1>2, <1>3, <1>4

LEMMA CallInv == ASSUME IInv, NEW p \in Publishers, Call(p) PROVE IInv'
  <1> USE DEF IInv
  <1>1. /\ UNCHANGED <<place, session, cap, orphan, used, sink>>
        /\ pc[p] = "idle" /\ cap[p] # None /\ lock[home[p]] = Nobody
        /\ lock' = [lock EXCEPT ![home[p]] = p]
        /\ outcome' = [outcome EXCEPT ![p] = "NONE"]
        /\ renamed' = [renamed EXCEPT ![p] = FALSE]
        /\ stage' = [stage EXCEPT ![p] = Nobody]
        /\ pc' = [pc EXCEPT ![p] = "validate"]
    BY DEF Call, Enter, Goto
  <1>2. TypeOK'
    BY <1>1, Typing, PublishersAssumption DEF TypeOK, place, session, sink
  <1>3. Identities' /\ Capabilities' /\ Undisturbed' /\ WholeFile' /\ ReceiptKept'
    BY <1>1, QuietInv DEF TypeOK, Staged
  <1>4. Progress'
    BY <1>1 DEF Progress, TypeOK, Before
  <1>5. HonestOutcome' /\ StagingAccounted'
    BY <1>1 DEF HonestOutcome, StagingAccounted, TypeOK
  <1> QED BY <1>2, <1>3, <1>4, <1>5

(* A call that returns; what it leaves on the disk it has reported.        *)
LEMMA ReturnInv ==
  ASSUME IInv, NEW p \in Publishers, NEW result \in {"RECEIPT", "NOT_STARTED", "MAY_HAVE_MUTATED"},
         pc[p] \notin {"idle", "dead"}, Return(p, result),
         UNCHANGED <<place, session, cap, history, sink>>,
         \A q \in Publishers \ {p} : stage'[q] = stage[q] /\ orphan'[q] = orphan[q],
         stage' \in [Publishers -> Lines \cup {Nobody}], orphan' \in [Publishers -> BOOLEAN],
         stage'[p] # Nobody => orphan'[p],
         result = "NOT_STARTED" => ~renamed[p],
         result = "RECEIPT" => renamed[p] /\ file.lines = cap[p].after /\ cap[p] # None
  PROVE  IInv'
  <1> USE DEF IInv
  <1>1. /\ pc' = [pc EXCEPT ![p] = "idle"] /\ outcome' = [outcome EXCEPT ![p] = result]
        /\ lock' = [lock EXCEPT ![home[p]] = Nobody]
    BY DEF Return, Goto
  <1>2. /\ pc'[p] = "idle" /\ \A q \in Publishers \ {p} : pc'[q] = pc[q]
        /\ outcome'[p] = result /\ \A q \in Publishers \ {p} : outcome'[q] = outcome[q]
    BY <1>1 DEF TypeOK
  <1>3. TypeOK'
    <2>1. ASSUME NEW q \in Publishers, pc'[q] \notin {"idle", "dead"}
          PROVE  lock'[home'[q]] = q
      <3>1. q # p /\ lock[home[q]] = q /\ lock[home[p]] = p
        BY <1>2, <2>1 DEF TypeOK
      <3> QED BY <1>1, <3>1, Typing DEF TypeOK, session
    <2>2. /\ lock' \in [Processes -> Publishers \cup {Nobody}]
          /\ pc' \in [Publishers -> {"idle", "validate", "stage", "write", "revalidate",
                                     "rename", "readback", "cleanup", "dead"}]
          /\ outcome' \in [Publishers -> {"NONE", "RECEIPT", "NOT_STARTED", "MAY_HAVE_MUTATED"}]
      BY <1>1 DEF TypeOK
    <2> QED BY <2>1, <2>2 DEF TypeOK, place, session, history, sink
  <1>4. Identities' /\ Capabilities' /\ Undisturbed' /\ WholeFile' /\ ReceiptKept'
    BY <1>2, QuietInv DEF Staged, history
  <1>5. Progress'
    BY <1>2 DEF Progress, Before, history
  <1>6. HonestOutcome' /\ StagingAccounted'
    BY <1>2 DEF HonestOutcome, StagingAccounted, history
  <1> QED BY <1>3, <1>4, <1>5, <1>6

(* A call that goes on without changing the file; a failure goes to its    *)
(* clean-up.                                                               *)
LEMMA ProceedInv ==
  ASSUME IInv, NEW p \in Publishers, NEW step \in Staged \cup {"cleanup"},
         pc[p] \in Before, Goto(p, step),
         UNCHANGED <<place, session, cap, lock, orphan, history, sink>>,
         stage' \in [Publishers -> Lines \cup {Nobody}],
         \A q \in Publishers \ {p} : stage'[q] = stage[q],
         outcome' = IF step = "cleanup" THEN [outcome EXCEPT ![p] = "NOT_STARTED"] ELSE outcome,
         step \in Staged => pc[p] \in Staged \/ Valid(p),
         step = "stage" => stage'[p] = Nobody,
         step \in {"revalidate", "rename"} => stage'[p] = cap[p].after
  PROVE  IInv'
  <1> USE DEF IInv
  <1>1. pc' = [pc EXCEPT ![p] = step]
    BY DEF Goto
  <1>2. /\ pc'[p] = step /\ \A q \in Publishers \ {p} : pc'[q] = pc[q]
        /\ step # "cleanup" => outcome'[p] = "NONE"
        /\ step = "cleanup" => outcome'[p] = "NOT_STARTED"
        /\ \A q \in Publishers \ {p} : outcome'[q] = outcome[q]
        /\ step \notin {"idle", "dead", "validate", "readback"}
        /\ pc[p] \notin {"idle", "dead"} /\ cap[p] # None /\ ~renamed[p]
    BY <1>1 DEF TypeOK, Progress, Before, Staged
  <1>3. TypeOK'
    <2>1. ASSUME NEW q \in Publishers, pc'[q] \notin {"idle", "dead"}
          PROVE  lock'[home'[q]] = q
      BY <1>2, <2>1 DEF TypeOK, session
    <2>2. /\ pc' \in [Publishers -> {"idle", "validate", "stage", "write", "revalidate",
                                     "rename", "readback", "cleanup", "dead"}]
          /\ outcome' \in [Publishers -> {"NONE", "RECEIPT", "NOT_STARTED", "MAY_HAVE_MUTATED"}]
      BY <1>1 DEF TypeOK, Staged
    <2> QED BY <2>1, <2>2 DEF TypeOK, place, session, history, sink
  <1>4. Identities' /\ Capabilities' /\ Undisturbed' /\ WholeFile' /\ ReceiptKept'
    BY <1>2, QuietInv DEF history
  <1>5. Progress'
    BY <1>2 DEF Progress, Before, history
  <1>6. HonestOutcome' /\ StagingAccounted'
    BY <1>2 DEF HonestOutcome, StagingAccounted, history
  <1> QED BY <1>3, <1>4, <1>5, <1>6

LEMMA StageInv ==
  ASSUME IInv, NEW p \in Publishers,
         Validate(p) \/ CreateStage(p) \/ WriteStage(p) \/ Revalidate(p)
  PROVE  IInv'
  <1> USE DEF IInv, Before, Staged
  <1>0. stage' = stage => /\ stage' \in [Publishers -> Lines \cup {Nobody}]
                         /\ \A q \in Publishers \ {p} : stage'[q] = stage[q]
    BY DEF TypeOK
  <1>1. CASE Validate(p)
    <2>1. pc[p] = "validate" /\ UNCHANGED <<place, session, cap, stage, orphan, history, sink>>
          /\ stage[p] = Nobody /\ ~renamed[p]
      BY <1>1 DEF Validate, Progress
    <2>2. CASE Valid(p) /\ Goto(p, "stage") /\ UNCHANGED <<lock, outcome>>
      BY <1>0, <2>1, <2>2, ProceedInv
    <2>3. CASE Return(p, "NOT_STARTED")
      BY <1>0, <2>1, <2>3, ReturnInv DEF TypeOK
    <2> QED BY <1>1, <2>2, <2>3 DEF Validate
  <1>2. CASE CreateStage(p)
    <2>1. pc[p] = "stage" /\ UNCHANGED <<place, session, cap, orphan, history, sink>>
          /\ stage[p] = Nobody /\ ~renamed[p]
      BY <1>2 DEF CreateStage, Progress
    <2>2. CASE stage' = [stage EXCEPT ![p] = <<>>] /\ Goto(p, "write") /\ UNCHANGED <<lock, outcome>>
      <3>1. /\ stage' \in [Publishers -> Lines \cup {Nobody}]
            /\ \A q \in Publishers \ {p} : stage'[q] = stage[q]
        BY <2>2 DEF TypeOK, Lines
      <3> QED BY <2>1, <2>2, <3>1, ProceedInv
    <2>3. CASE Return(p, "NOT_STARTED") /\ UNCHANGED stage
      BY <1>0, <2>1, <2>3, ReturnInv DEF TypeOK
    <2> QED BY <1>2, <2>2, <2>3 DEF CreateStage
  <1>3. CASE WriteStage(p)
    <2>1. pc[p] = "write" /\ UNCHANGED <<place, session, cap, lock, orphan, history, sink>>
      BY <1>3 DEF WriteStage
    <2>2. PICK k \in 0..Len(cap[p].after) :
            /\ stage' = [stage EXCEPT ![p] = SubSeq(cap[p].after, 1, k)]
            /\ \/ k = Len(cap[p].after) /\ Goto(p, "revalidate") /\ UNCHANGED outcome
               \/ Host /\ Fail(p, "NOT_STARTED")
      BY <1>3 DEF WriteStage
    <2>3. /\ SubSeq(cap[p].after, 1, k) \in Lines
          /\ k = Len(cap[p].after) => SubSeq(cap[p].after, 1, k) = cap[p].after
      BY Typing, Prefixed
    <2>4. /\ stage' \in [Publishers -> Lines \cup {Nobody}]
          /\ stage'[p] = SubSeq(cap[p].after, 1, k)
          /\ \A q \in Publishers \ {p} : stage'[q] = stage[q]
      BY <2>2, <2>3 DEF TypeOK
    <2>5. CASE k = Len(cap[p].after) /\ Goto(p, "revalidate") /\ UNCHANGED outcome
      BY <2>1, <2>3, <2>4, <2>5, ProceedInv
    <2>6. CASE Fail(p, "NOT_STARTED")
      BY <2>1, <2>4, <2>6, ProceedInv DEF Fail
    <2> QED BY <2>2, <2>5, <2>6
  <1>4. CASE Revalidate(p)
    <2>1. pc[p] = "revalidate" /\ stage[p] = cap[p].after
          /\ UNCHANGED <<place, session, cap, lock, stage, orphan, history, sink>>
      BY <1>4 DEF Revalidate, Progress
    <2>2. CASE Goto(p, "rename") /\ UNCHANGED outcome
      BY <1>0, <2>1, <2>2, ProceedInv
    <2>3. CASE Fail(p, "NOT_STARTED")
      BY <1>0, <2>1, <2>3, ProceedInv DEF Fail
    <2> QED BY <1>4, <2>2, <2>3 DEF Revalidate
  <1> QED BY <1>1, <1>2, <1>3, <1>4

(* The staging file replaces the target; the call knows of it or not.      *)
LEMMA ReplaceInv ==
  ASSUME IInv, NEW p \in Publishers, pc[p] = "rename", Replace(p),
         UNCHANGED <<session, cap, lock, orphan, sink>>,
         \/ Goto(p, "readback") /\ UNCHANGED outcome
         \/ Fail(p, "MAY_HAVE_MUTATED")
  PROVE  IInv'
  <1> USE DEF IInv
  <1>1. /\ stage[p] = cap[p].after /\ cap[p] # None /\ outcome[p] = "NONE"
        /\ cap[p].id >= 1 /\ used[p] = 0
    BY Typing DEF Progress, Identities, Before, Staged
  <1>2. /\ file' = [id |-> lastID + 1, lines |-> cap[p].after]
        /\ file'.id = lastID + 1 /\ file'.lines = cap[p].after /\ lastID' = lastID + 1
        /\ stage' \in [Publishers -> Lines \cup {Nobody}] /\ stage'[p] = Nobody
        /\ renamed' \in [Publishers -> BOOLEAN] /\ renamed'[p] = TRUE
        /\ used' \in [Publishers -> Nat] /\ used'[p] = 1
        /\ \A q \in Publishers \ {p} :
              stage'[q] = stage[q] /\ renamed'[q] = renamed[q] /\ used'[q] = used[q]
    BY <1>1, Typing DEF Replace, TypeOK
  <1>3. /\ pc'[p] \in {"readback", "cleanup"}
        /\ outcome'[p] = IF pc'[p] = "readback" THEN "NONE" ELSE "MAY_HAVE_MUTATED"
        /\ pc' \in [Publishers -> {"idle", "validate", "stage", "write", "revalidate",
                                   "rename", "readback", "cleanup", "dead"}]
        /\ outcome' \in [Publishers -> {"NONE", "RECEIPT", "NOT_STARTED", "MAY_HAVE_MUTATED"}]
        /\ \A q \in Publishers \ {p} : pc'[q] = pc[q] /\ outcome'[q] = outcome[q]
    BY <1>1 DEF Goto, Fail, TypeOK
  <1>4. TypeOK'
    <2>1. ASSUME NEW q \in Publishers, pc'[q] \notin {"idle", "dead"}
          PROVE  lock'[home'[q]] = q
      BY <1>3, <2>1 DEF TypeOK, session
    <2>2. file' \in [id : Nat, lines : Lines] /\ lastID' \in Nat
      BY <1>2, Typing
    <2> QED BY <1>2, <1>3, <2>1, <2>2 DEF TypeOK, session, sink
  <1>5. Identities'
    <2>1. bound[p] >= 1 /\ bound[p] <= lastID
      BY <1>1, Typing DEF Identities
    <2> QED BY <1>2, <1>3, <2>1, Typing DEF Identities, Staged, session
  <1>6. Capabilities'
    BY DEF Capabilities
  <1>7. Progress'
    BY <1>1, <1>2, <1>3 DEF Progress, Before
  (* Another call that is staged is of another process.                    *)
  <1>8. Undisturbed'
    <2> SUFFICES ASSUME NEW q \in Publishers, pc'[q] \in Staged, Alone(q)'
                 PROVE  FALSE
      BY DEF Undisturbed
    <2>1. q # p /\ pc[q] = pc'[q]
      BY <1>3 DEF Staged
    <2>2. home[p] = home[q]
      BY <1>2 DEF Alone, session
    <2>3. lock[home[p]] = p /\ lock[home[q]] = q
      BY <2>1 DEF TypeOK, Staged
    <2> QED BY <2>1, <2>2, <2>3
  <1>9. WholeFile'
    BY <1>2 DEF WholeFile, sink
  (* What was confirmed before is still in the file that was validated.    *)
  <1>10. ReceiptKept'
    <2> SUFFICES ASSUME NEW q \in Publishers, outcome'[q] = "RECEIPT", Operation[q] = "Append",
                        written' = 0,
                        \A r \in Publishers : used'[r] > 0 => home'[r] = home'[q]
                 PROVE  Contains(file'.lines, q)
      BY DEF ReceiptKept
    <2>1. q # p /\ outcome[q] = "RECEIPT"
      BY <1>3
    <2>2. \A r \in Publishers : used[r] > 0 => home[r] = home[q]
      <3> SUFFICES ASSUME NEW r \in Publishers, used[r] > 0 PROVE home[r] = home[q]
        OBVIOUS
      <3>1. r # p
        BY <1>1
      <3> QED BY <1>2, <3>1 DEF session
    <2>3. written = 0 /\ home[p] = home[q]
      BY <1>2 DEF session, sink
    <2>4. Contains(file.lines, q)
      BY <2>1, <2>2, <2>3 DEF ReceiptKept
    <2>5. Valid(p)
      BY <2>2, <2>3 DEF Undisturbed, Staged, Alone
    <2> QED BY <1>1, <1>2, <2>4, <2>5 DEF Capabilities, Valid
  <1>11. HonestOutcome' /\ StagingAccounted'
    BY <1>2, <1>3 DEF HonestOutcome, StagingAccounted
  <1> QED BY <1>4, <1>5, <1>6, <1>7, <1>8, <1>9, <1>10, <1>11

LEMMA RenameInv == ASSUME IInv, NEW p \in Publishers, Rename(p) PROVE IInv'
  <1> USE DEF IInv
  <1>1. pc[p] = "rename" /\ UNCHANGED <<session, cap, lock, orphan, sink>>
    BY DEF Rename
  <1>2. CASE Replace(p) /\ Goto(p, "readback") /\ UNCHANGED outcome
    BY <1>1, <1>2, ReplaceInv
  <1>3. CASE Replace(p) /\ Fail(p, "MAY_HAVE_MUTATED")
    BY <1>1, <1>3, ReplaceInv
  <1>4. CASE UNCHANGED <<place, stage, history>> /\ Fail(p, "MAY_HAVE_MUTATED")
    <2>1. /\ pc' \in [Publishers -> {"idle", "validate", "stage", "write", "revalidate",
                                     "rename", "readback", "cleanup", "dead"}]
          /\ outcome' \in [Publishers -> {"NONE", "RECEIPT", "NOT_STARTED", "MAY_HAVE_MUTATED"}]
          /\ pc'[p] = "cleanup" /\ outcome'[p] = "MAY_HAVE_MUTATED"
          /\ \A q \in Publishers \ {p} : pc'[q] = pc[q] /\ outcome'[q] = outcome[q]
      BY <1>4 DEF Fail, Goto, TypeOK
    <2>2. ASSUME NEW q \in Publishers, pc'[q] \notin {"idle", "dead"}
          PROVE  lock'[home'[q]] = q
      BY <1>1, <2>1, <2>2 DEF TypeOK, session
    <2>3. TypeOK'
      BY <1>1, <1>4, <2>1, <2>2 DEF TypeOK, place, session, history, sink
    <2>4. Identities' /\ Capabilities' /\ Undisturbed' /\ WholeFile' /\ ReceiptKept'
      BY <1>1, <1>4, <2>1, QuietInv DEF Staged, history
    <2>5. Progress' /\ HonestOutcome' /\ StagingAccounted'
      BY <1>1, <1>4, <2>1 DEF Progress, HonestOutcome, StagingAccounted, Before, history
    <2> QED BY <2>3, <2>4, <2>5
  <1> QED BY <1>2, <1>3, <1>4 DEF Rename

LEMMA EndInv == ASSUME IInv, NEW p \in Publishers, Readback(p) \/ Cleanup(p) PROVE IInv'
  <1> USE DEF IInv
  <1>1. CASE Readback(p)
    <2>1. /\ pc[p] = "readback" /\ UNCHANGED <<place, session, cap, stage, orphan, history, sink>>
          /\ stage[p] = Nobody /\ renamed[p] /\ cap[p] # None
      BY <1>1 DEF Readback, Progress
    <2>2. CASE file.lines = cap[p].after /\ Return(p, "RECEIPT")
      BY <2>1, <2>2, ReturnInv DEF TypeOK
    <2>3. CASE Return(p, "MAY_HAVE_MUTATED")
      BY <2>1, <2>3, ReturnInv DEF TypeOK
    <2> QED BY <1>1, <2>2, <2>3 DEF Readback
  <1>2. CASE Cleanup(p)
    <2>1. /\ pc[p] = "cleanup" /\ UNCHANGED <<place, session, cap, history, sink>>
          /\ Return(p, outcome[p])
          /\ outcome[p] \in {"NOT_STARTED", "MAY_HAVE_MUTATED"}
          /\ outcome[p] = "NOT_STARTED" => ~renamed[p]
      BY <1>2 DEF Cleanup, Progress
    <2>2. CASE stage' = [stage EXCEPT ![p] = Nobody] /\ UNCHANGED orphan
      BY <2>1, <2>2, ReturnInv DEF TypeOK
    <2>3. CASE orphan' = [orphan EXCEPT ![p] = TRUE] /\ UNCHANGED stage
      BY <2>1, <2>3, ReturnInv DEF TypeOK
    <2> QED BY <1>2, <2>2, <2>3 DEF Cleanup
  <1> QED BY <1>1, <1>2

-------------------------------------------------------------------------------
(* The environment.                                                        *)

LEMMA CrashInv == ASSUME IInv, NEW x \in Processes, Crash(x) PROVE IInv'
  <1> USE DEF IInv
  <1>1. /\ UNCHANGED <<place, session, cap, stage, answer, history, sink>>
        /\ pc' = [p \in Publishers |-> IF home[p] = x THEN "dead" ELSE pc[p]]
        /\ lock' = [lock EXCEPT ![x] = Nobody]
    BY DEF Crash
  <1>2. \A p \in Publishers : pc'[p] = "dead" \/ (pc'[p] = pc[p] /\ home[p] # x)
    BY <1>1
  <1>3. TypeOK'
    <2>1. ASSUME NEW p \in Publishers, pc'[p] \notin {"idle", "dead"}
          PROVE  lock'[home'[p]] = p
      BY <1>1, <1>2, <2>1, Typing DEF TypeOK, session
    <2>2. pc' \in [Publishers -> {"idle", "validate", "stage", "write", "revalidate",
                                 "rename", "readback", "cleanup", "dead"}]
      BY <1>1 DEF TypeOK
    <2>3. lock' \in [Processes -> Publishers \cup {Nobody}]
      BY <1>1 DEF TypeOK
    <2> QED BY <1>1, <2>1, <2>2, <2>3 DEF TypeOK, place, session, answer, history, sink
  <1>4. Identities' /\ Capabilities' /\ Undisturbed'
    BY <1>1, <1>2 DEF Identities, Capabilities, Undisturbed, Alone, Valid, Staged, place, session, history, sink
  <1>5. Progress' /\ HonestOutcome' /\ StagingAccounted'
    BY <1>1, <1>2 DEF Progress, HonestOutcome, StagingAccounted, Before, answer, history
  <1>6. WholeFile' /\ ReceiptKept'
    BY <1>1 DEF WholeFile, ReceiptKept, place, session, answer, history, sink
  <1> QED BY <1>3, <1>4, <1>5, <1>6

LEMMA SinkInv == ASSUME IInv, SinkRead \/ SinkWrite PROVE IInv'
  <1> USE DEF IInv
  <1>1. /\ UNCHANGED <<lastID, session, cap, pc, lock, stage, answer, history>>
        /\ file'.id = file.id
        /\ (UNCHANGED <<file, written>>) \/ written' > 0
    <2>1. CASE SinkRead
      BY <2>1 DEF SinkRead, place
    <2>2. CASE SinkWrite
      BY <2>2, PublishersAssumption DEF SinkWrite, TypeOK
    <2> QED BY <2>1, <2>2
  <1>2. TypeOK'
    <2>1. file' \in [id : Nat, lines : Lines] /\ copy' \in Lines \cup {Nobody} /\ written' \in Nat
      <3>1. CASE SinkRead
        <4>1. Append(file.lines, Sink) \in Lines
          BY DEF TypeOK, Lines
        <4> QED BY <3>1, <4>1 DEF SinkRead, TypeOK, place
      <3>2. CASE SinkWrite
        BY <3>2 DEF SinkWrite, TypeOK
      <3> QED BY <3>1, <3>2
    <2> QED BY <1>1, <2>1 DEF TypeOK, session, answer, history
  <1>3. Identities' /\ Capabilities' /\ Progress'
    BY <1>1 DEF Identities, Capabilities, Progress, session, answer, history
  <1>4. Undisturbed' /\ WholeFile' /\ ReceiptKept'
    BY <1>1 DEF Undisturbed, Alone, Valid, WholeFile, ReceiptKept, session, answer, history
  <1>5. HonestOutcome' /\ StagingAccounted'
    BY <1>1 DEF HonestOutcome, StagingAccounted, answer, history
  <1> QED BY <1>2, <1>3, <1>4, <1>5

-------------------------------------------------------------------------------
LEMMA NextInv == IInv /\ [Next]_vars => IInv'
  <1> SUFFICES ASSUME IInv, [Next]_vars PROVE IInv'
    OBVIOUS
  <1>1. CASE UNCHANGED vars
    <2>1. UNCHANGED <<file, lastID, home, bound, cap, pc, lock, stage, outcome, orphan, renamed,
                      used, copy, written>>
      BY <1>1 DEF vars, place, session, answer, history, sink
    <2> QED BY <2>1 DEF IInv, TypeOK, Identities, Capabilities, Progress, Undisturbed, Alone, Valid,
                        WholeFile, ReceiptKept, HonestOutcome, StagingAccounted
  <1>2. CASE \E p \in Publishers : Complete(p) \/ Authorize(p) \/ Call(p) \/ Step(p)
    BY <1>2, CompleteInv, AuthorizeInv, CallInv, StageInv, RenameInv, EndInv DEF Step
  <1>3. CASE \E x \in Processes : Crash(x)
    BY <1>3, CrashInv
  <1>4. CASE SinkRead \/ SinkWrite
    BY <1>4, SinkInv
  <1> QED BY <1>1, <1>2, <1>3, <1>4 DEF Next

LEMMA AlwaysInv == Spec => []IInv
  BY InitInv, NextInv, PTL DEF Spec

(* Every reachable state has its types, and a publication in progress      *)
(* holds the mutex of its process (publicationMutex).                      *)
THEOREM TypeCorrect == Spec => []TypeOK
  <1>1. IInv => TypeOK
    BY DEF IInv
  <1> QED BY <1>1, AlwaysInv, PTL

(* Until the sink writes, the file is the first one or exactly what one    *)
(* capability asked for, whichever calls fail or die (publish).            *)
THEOREM FileAlwaysWhole == Spec => []WholeFile
  <1>1. IInv => WholeFile
    BY DEF IInv
  <1> QED BY <1>1, AlwaysInv, PTL

(* A confirmed append stays in the file as long as only its own process    *)
(* publishes (publicationMutex, validateCapability before the rename).     *)
THEOREM ReceiptsStay == Spec => []ReceiptKept
  <1>1. IInv => ReceiptKept
    BY DEF IInv
  <1> QED BY <1>1, AlwaysInv, PTL

(* A session replaces the file at most once, however often it is asked for *)
(* a capability and however its calls are interleaved with others          *)
(* (authorizeAtomicPersistence, validateCapability).                       *)
THEOREM OneEffect == Spec => []UsedOnce
  <1>1. IInv => UsedOnce
    BY DEF IInv, Identities, UsedOnce
  <1> QED BY <1>1, AlwaysInv, PTL

(* A call says NOT_STARTED only if it did not replace the file, and gives  *)
(* a receipt only if it did.                                               *)
THEOREM OutcomesHonest == Spec => []HonestOutcome
  <1>1. IInv => HonestOutcome
    BY DEF IInv
  <1> QED BY <1>1, AlwaysInv, PTL

(* A call that returned has left no staging file it did not report.        *)
THEOREM StagingReported == Spec => []StagingAccounted
  <1>1. IInv => StagingAccounted
    BY DEF IInv
  <1> QED BY <1>1, AlwaysInv, PTL

(* Together: publications by any number of sessions and processes are      *)
(* sound.                                                                  *)
THEOREM PublicationStaysSound == Spec => []PublicationSound
  BY FileAlwaysWhole, OneEffect, OutcomesHonest, StagingReported, PTL
     DEF PublicationSound
===============================================================================
