------------------------------ MODULE AtomicPublish ------------------------------
(***************************************************************************)
(* Atomic publication of the audit file: a completed session measures the  *)
(* file and issues one capability (authorizeAtomicPersistence,             *)
(* NativeExecutionBindings.cpp); WindowsAtomicFileSystem::publish then     *)
(* replaces the file by a staging file it renames over it, if the file is  *)
(* still the one that was measured.  A mutex of the process                *)
(* (publicationMutex) covers one publication.                              *)
(*                                                                         *)
(* The audit sink (BaseAuditBindings.cpp) rewrites the same file in place, *)
(* under a mutex of its own.  What else the capability binds (carrier,     *)
(* backup, receipts) does not change here: a check of it that fails is a   *)
(* host fault.  A file is its identity and its lines.                      *)
(***************************************************************************)
EXTENDS Integers, Sequences, SequencesExt

CONSTANTS
  Publishers, Processes,             \* completed sessions; processes
  Placements,                        \* of the sessions in the processes
  Operation,                         \* of a capability: "Append" or "Write"
  Nobody,                            \* no publisher
  Sink,                              \* writes lines too, unless MaxLines = 0
  MaxLines,                          \* bound: the lines the sink writes
  Faults                             \* "host", "crash"

ASSUME PublishersAssumption ==
  /\ Nobody \notin Publishers /\ Sink \notin Publishers
  /\ Placements \subseteq [Publishers -> Processes]
  /\ Operation \in [Publishers -> {"Append", "Write"}]
ASSUME BoundsAssumption ==
  MaxLines \in Nat /\ Faults \subseteq {"host", "crash"}

VARIABLES
  file, lastID,     \* the audit file [id, lines]; the newest identity
  home, bound, cap, \* per publisher: process; identity it knows; capability
  pc, lock, stage,  \* progress; mutex per process; staging file
  outcome, orphan,  \* what the last call returned; staging file left behind
  renamed, used,    \* history: this call, and any call, replaced the file
  copy, written     \* the sink: the lines it will write; how many it wrote

place   == <<file, lastID>>
session == <<home, bound>>
answer  == <<outcome, orphan>>
history == <<renamed, used>>
sink    == <<copy, written>>
vars    == <<place, session, cap, pc, lock, stage, answer, history, sink>>

Lines == Seq(Publishers \cup {Sink})
None  == [id |-> 0, before |-> <<>>, after |-> <<>>]

(* TypeOK: the types, and a publication in progress holds the mutex.       *)
TypeOK ==
  /\ file \in [id : Nat, lines : Lines] /\ lastID \in Nat
  /\ home \in Placements /\ bound \in [Publishers -> Nat]
  /\ cap \in [Publishers -> [id : Nat, before : Lines, after : Lines]]
  /\ pc \in [Publishers -> {"idle", "validate", "stage", "write", "revalidate",
                            "rename", "readback", "cleanup", "dead"}]
  /\ lock \in [Processes -> Publishers \cup {Nobody}]
  /\ stage \in [Publishers -> Lines \cup {Nobody}]
  /\ outcome \in [Publishers -> {"NONE", "RECEIPT", "NOT_STARTED", "MAY_HAVE_MUTATED"}]
  /\ orphan \in [Publishers -> BOOLEAN] /\ renamed \in [Publishers -> BOOLEAN]
  /\ used \in [Publishers -> Nat]
  /\ copy \in Lines \cup {Nobody} /\ written \in Nat
  /\ \A p \in Publishers : pc[p] \notin {"idle", "dead"} => lock[home[p]] = p

Init ==
  /\ file = [id |-> 1, lines |-> <<>>] /\ lastID = 1
  /\ home \in Placements /\ bound = [p \in Publishers |-> 0]
  /\ cap = [p \in Publishers |-> None]
  /\ pc = [p \in Publishers |-> "idle"]
  /\ lock = [q \in Processes |-> Nobody]
  /\ stage = [p \in Publishers |-> Nobody]
  /\ outcome = [p \in Publishers |-> "NONE"]
  /\ orphan = [p \in Publishers |-> FALSE]
  /\ renamed = [p \in Publishers |-> FALSE]
  /\ used = [p \in Publishers |-> 0]
  /\ copy = Nobody /\ written = 0

-------------------------------------------------------------------------------
(* The session completes and knows the file it recorded in; later it may   *)
(* issue a capability, as often as it is asked.                            *)
Complete(p) ==
  /\ pc[p] = "idle" /\ bound[p] = 0
  /\ bound' = [bound EXCEPT ![p] = file.id]
  /\ UNCHANGED <<place, home, cap, pc, lock, stage, answer, history, sink>>

Authorize(p) ==
  /\ pc[p] = "idle" /\ bound[p] = file.id
  /\ cap' = [cap EXCEPT ![p] =
       [id |-> bound[p], before |-> file.lines,
        after |-> IF Operation[p] = "Append" THEN Append(file.lines, p)
                  ELSE file.lines]]
  /\ UNCHANGED <<place, session, pc, lock, stage, answer, history, sink>>

-------------------------------------------------------------------------------
(* publish                                                                 *)

Goto(p, step) == pc' = [pc EXCEPT ![p] = step]
Host == "host" \in Faults

(* validateCapability                                                      *)
Valid(p) == file.id = cap[p].id /\ file.lines = cap[p].before

\* Mutant: only the mutex of the object is taken, not that of the process.
Enter_Unserialised(p) == TRUE
Enter(p) == lock[home[p]] = Nobody

Call(p) ==
  /\ pc[p] = "idle" /\ cap[p] # None /\ Enter(p)
  /\ lock' = [lock EXCEPT ![home[p]] = p]
  /\ outcome' = [outcome EXCEPT ![p] = "NONE"]
  /\ renamed' = [renamed EXCEPT ![p] = FALSE]
  /\ stage' = [stage EXCEPT ![p] = Nobody]
  /\ Goto(p, "validate")
  /\ UNCHANGED <<place, session, cap, orphan, used, sink>>

Return(p, result) ==
  /\ outcome' = [outcome EXCEPT ![p] = result]
  /\ lock' = [lock EXCEPT ![home[p]] = Nobody]
  /\ Goto(p, "idle")

Validate(p) ==
  /\ pc[p] = "validate"
  /\ \/ Valid(p) /\ Goto(p, "stage") /\ UNCHANGED <<lock, outcome>>
     \/ (Host \/ ~Valid(p)) /\ Return(p, "NOT_STARTED")
  /\ UNCHANGED <<place, session, cap, stage, orphan, history, sink>>

CreateStage(p) ==
  /\ pc[p] = "stage"
  /\ \/ /\ stage' = [stage EXCEPT ![p] = <<>>]
        /\ Goto(p, "write") /\ UNCHANGED <<lock, outcome>>
     \/ Host /\ Return(p, "NOT_STARTED") /\ UNCHANGED stage
  /\ UNCHANGED <<place, session, cap, orphan, history, sink>>

(* A failure is what the call will return after the clean-up.              *)
Fail(p, result) ==
  outcome' = [outcome EXCEPT ![p] = result] /\ Goto(p, "cleanup")

(* Written, flushed and read back; a failing write leaves any part.        *)
WriteStage(p) ==
  /\ pc[p] = "write"
  /\ \E k \in 0..Len(cap[p].after) :
       /\ stage' = [stage EXCEPT ![p] = SubSeq(cap[p].after, 1, k)]
       /\ \/ k = Len(cap[p].after) /\ Goto(p, "revalidate") /\ UNCHANGED outcome
          \/ Host /\ Fail(p, "NOT_STARTED")
  /\ UNCHANGED <<place, session, cap, lock, orphan, history, sink>>

Revalidate(p) ==
  /\ pc[p] = "revalidate"
  /\ \/ Valid(p) /\ Goto(p, "rename") /\ UNCHANGED outcome
     \/ (Host \/ ~Valid(p)) /\ Fail(p, "NOT_STARTED")
  /\ UNCHANGED <<place, session, cap, lock, stage, orphan, history, sink>>

(* The staging file takes the place of the target, with its own identity.  *)
Replace(p) ==
  /\ file' = [id |-> lastID + 1, lines |-> stage[p]] /\ lastID' = lastID + 1
  /\ stage' = [stage EXCEPT ![p] = Nobody]
  /\ renamed' = [renamed EXCEPT ![p] = TRUE]
  /\ used' = [used EXCEPT ![p] = @ + 1]

\* Mutant: a failing rename is reported like a refused one.
Rename_NotAttempted(p) ==
  /\ pc[p] = "rename"
  /\ \/ Replace(p) /\ Goto(p, "readback") /\ UNCHANGED outcome
     \/ Host /\ UNCHANGED <<place, stage, history>> /\ Fail(p, "NOT_STARTED")
     \/ Host /\ Replace(p) /\ Fail(p, "NOT_STARTED")
  /\ UNCHANGED <<session, cap, lock, orphan, sink>>
\* Mutant: a failing rename is tried again.
Rename_Retries(p) ==
  /\ pc[p] = "rename"
  /\ \/ Replace(p) /\ Goto(p, "readback")
     \/ Host /\ UNCHANGED <<place, stage, history>> /\ Goto(p, "revalidate")
  /\ UNCHANGED <<session, cap, lock, outcome, orphan, sink>>
(* MoveFileEx: an error may be reported after the effect.                  *)
Rename(p) ==
  /\ pc[p] = "rename"
  /\ \/ Replace(p) /\ Goto(p, "readback") /\ UNCHANGED outcome
     \/ Host /\ UNCHANGED <<place, stage, history>> /\ Fail(p, "MAY_HAVE_MUTATED")
     \/ Host /\ Replace(p) /\ Fail(p, "MAY_HAVE_MUTATED")
  /\ UNCHANGED <<session, cap, lock, orphan, sink>>

Readback(p) ==
  /\ pc[p] = "readback"
  /\ \/ file.lines = cap[p].after /\ Return(p, "RECEIPT")
     \/ (Host \/ file.lines # cap[p].after) /\ Return(p, "MAY_HAVE_MUTATED")
  /\ UNCHANGED <<place, session, cap, stage, orphan, history, sink>>

(* The staging file is deleted; if that fails, the failure says so.        *)
Cleanup(p) ==
  /\ pc[p] = "cleanup"
  /\ \/ /\ stage[p] # Nobody
        /\ stage' = [stage EXCEPT ![p] = Nobody] /\ UNCHANGED orphan
     \/ (Host \/ stage[p] = Nobody)
        /\ orphan' = [orphan EXCEPT ![p] = TRUE] /\ UNCHANGED stage
  /\ Return(p, outcome[p])
  /\ UNCHANGED <<place, session, cap, history, sink>>

Crash(q) ==
  /\ "crash" \in Faults
  /\ \E p \in Publishers : home[p] = q /\ pc[p] # "dead"
  /\ pc' = [p \in Publishers |-> IF home[p] = q THEN "dead" ELSE pc[p]]
  /\ lock' = [lock EXCEPT ![q] = Nobody]
  /\ UNCHANGED <<place, session, cap, stage, answer, history, sink>>

(* persistChain of the audit sink: it reads the file and later rewrites it *)
(* in place.                                                               *)
SinkRead ==
  /\ copy = Nobody /\ written < MaxLines
  /\ copy' = Append(file.lines, Sink)
  /\ UNCHANGED <<place, session, cap, pc, lock, stage, answer, history, written>>

SinkWrite ==
  /\ copy # Nobody
  /\ file' = [file EXCEPT !.lines = copy]
  /\ copy' = Nobody /\ written' = written + 1
  /\ UNCHANGED <<lastID, session, cap, pc, lock, stage, answer, history>>

Step(p) ==
  \/ Validate(p) \/ CreateStage(p) \/ WriteStage(p) \/ Revalidate(p)
  \/ Rename(p) \/ Readback(p) \/ Cleanup(p)

Next ==
  \/ \E p \in Publishers : Complete(p) \/ Authorize(p) \/ Call(p) \/ Step(p)
  \/ \E q \in Processes : Crash(q)
  \/ SinkRead \/ SinkWrite

Spec == Init /\ [][Next]_vars

(* A call in progress goes on; one that waits for the mutex need not.      *)
FairSpec == Spec /\ \A p \in Publishers : WF_vars(Step(p))

-------------------------------------------------------------------------------
(* WholeFile: until the sink writes, the file is untouched or holds exactly*)
(* the authorised bytes of one publication, whatever fails or dies         *)
(* meanwhile.                                                              *)
WholeFile ==
  written = 0 =>
    \/ file = [id |-> 1, lines |-> <<>>]
    \/ \E p \in Publishers : used[p] > 0 /\ file.lines = cap[p].after

(* ReceiptKept: a publication that was confirmed is not undone by another  *)
(* one of its process (the sink and other processes aside).                *)
ReceiptKept ==
  \A p \in Publishers :
    /\ outcome[p] = "RECEIPT" /\ Operation[p] = "Append"
    /\ written = 0
    /\ \A q \in Publishers : used[q] > 0 => home[q] = home[p]
    => Contains(file.lines, p)

(* UsedOnce: a session replaces the file at most once, however often its   *)
(* capability is issued and its call repeated after a failure.             *)
UsedOnce == \A p \in Publishers : used[p] <= 1

(* HonestOutcome: a call that returns says NOT_STARTED only if it did not  *)
(* replace the file, and gives a receipt only if it did.                   *)
HonestOutcome ==
  \A p \in Publishers : pc[p] = "idle" =>
    /\ outcome[p] = "NOT_STARTED" => ~renamed[p]
    /\ outcome[p] = "RECEIPT" => renamed[p]

(* StagingAccounted: a call that returned has left no staging file it did  *)
(* not report.                                                             *)
StagingAccounted ==
  \A p \in Publishers : pc[p] = "idle" /\ stage[p] # Nobody => orphan[p]

(* CallsReturn: no publication keeps the mutex of its process for ever, so *)
(* the next one is let in, whatever fails while it is held.                *)
CallsReturn == \A q \in Processes : []<>(lock[q] = Nobody)

(* PublicationSound: a publication replaces the file whole and at most     *)
(* once, and what its call says of the file and of the staging file is     *)
(* true.                                                                   *)
PublicationSound == WholeFile /\ UsedOnce /\ HonestOutcome /\ StagingAccounted
===============================================================================
