----------------------------- MODULE SurfaceSession ----------------------------
(***************************************************************************)
(* Clients of the library that repair one plain document: each takes a     *)
(* write lease or not, observes, plans, backs up, applies, verifies and    *)
(* rolls back, and records an event in the legacy audit trail.  The files  *)
(* are those of FileSystem.cpp: within a process a mutex orders the calls, *)
(* across processes only the sharing modes of the handles do, and a write  *)
(* cuts the file off before it fills it.                                   *)
(***************************************************************************)
EXTENDS SurfaceRepair

CONSTANTS
  Clients,      \* threads, each with a file system object and a spelling of the path
  Scenarios,    \* the documents, rules, processes and faults of a behaviour
  MaxAttempts,  \* the names createBackup tries (8 in the code)
  Scale         \* no canonical number has more digits after the point

ASSUME ClientsAssumption == IsFiniteSet(Clients) /\ "none" \notin Clients
ASSUME PlacesAssumption  ==
  \A s \in Scenarios : /\ DOMAIN s.fs = Clients /\ DOMAIN s.desired = Clients
                       /\ s.at \in [Clients -> {"start", "record", "done"}]
                       /\ s.room \in Nat

(* Documents are what the parser returns.                                  *)
ASSUME DocumentsAssumption ==
  \A s \in Scenarios : IsDocument(s.document) /\ \A c \in Clients : IsDocument(s.desired[c])

(* Numbers are lexemes, whole when multiplied by 10^Scale.                 *)
ASSUME NumbersAssumption ==
  /\ Scale \in Nat
  /\ \A s \in Scenarios : \A l \in s.numbers :
       IsLexeme(l) /\ (Canonical(l) # Refused => l.exp - Len(l.frac) + Scale >= 0)

VARIABLES
  scenario,
  file,      \* the target's content
  backups,   \* the contents of the backup files, by name
  held,      \* the leases: file system object, path key, owner
  busy,      \* the client in a write of each file system object, or "none"
  opened,    \* the clients that hold a write handle without a lease
  trail,     \* the audit trail: whole or not, and its events
  recording, \* the client in JsonLinesAuditTrail::record of each process
  acked,     \* the events whose record() returned
  lost,      \* history: those that a write which failed or died removed
  pc, mem

vars == <<scenario, file, backups, held, busy, opened, trail, recording, acked, lost, pc, mem>>

Whole(doc) == [whole |-> TRUE, doc |-> doc]
Torn       == [whole |-> FALSE, doc |-> (<<>> :> Null)]

Fs(c)      == scenario.fs[c]
Leases(c)  == scenario.leases[c]
Desired(c) == Flatten(scenario.desired[c])

(* What a client remembers: what it observed, its plan, the violations,    *)
(* the attempts and the name of its backup, its preimage, the content it   *)
(* is to write, and its outcome.                                           *)
Fresh == [observed |-> Torn, plan |-> <<>>, violations |-> {}, attempts |-> 0,
          backup |-> 0, preimage |-> Torn, output |-> Torn, trail |-> <<>>, outcome |-> "none"]

Init ==
  /\ scenario \in Scenarios
  /\ file = Whole(scenario.document)
  /\ backups = <<>> /\ held = {} /\ opened = {}
  /\ busy = [p \in Range(scenario.fs) |-> "none"]
  /\ recording = [p \in Range(scenario.fs) |-> "none"]
  /\ trail = [whole |-> TRUE, events |-> <<>>] /\ acked = {} /\ lost = {}
  /\ pc = scenario.at
  /\ mem = [c \in Clients |-> Fresh]

-------------------------------------------------------------------------------
(* Steps of a client.                                                      *)

Goto(c, label) == pc' = [pc EXCEPT ![c] = label]
Ends(c, outcome) ==
  /\ Goto(c, "release")
  /\ mem' = [mem EXCEPT ![c].outcome = outcome]

(* The device may store something else without an error.                   *)
Stored(content) == {content} \cup (IF scenario.faults THEN {Torn} ELSE {})

audit == <<trail, recording, acked, lost>>

(* A call that takes the mutex waits for a write of another thread.        *)
Free(c) == busy[Fs(c)] = "none"

LeaseOf(c) == {l \in held : l.fs = Fs(c) /\ l.key = scenario.key[c]}

(* CreateFileW for writing that shares reading only fails while another    *)
(* write handle is open, in whatever process and by whatever spelling.     *)
CanOpen(c) == held = {} /\ opened = {}

-------------------------------------------------------------------------------
(* Leases.                                                                 *)

(* A second lease by the same key is refused with none, any other throws.  *)
AcquireWriteLease(c) ==
  /\ pc[c] = "start" /\ Leases(c) /\ Free(c)
  /\ IF CanOpen(c)
     THEN /\ held' = held \cup {[fs |-> Fs(c), key |-> scenario.key[c], owner |-> c]}
          /\ Goto(c, "observe") /\ UNCHANGED mem
     ELSE Ends(c, "refused") /\ UNCHANGED held
  /\ UNCHANGED <<scenario, file, backups, busy, opened, audit>>

StartUnleased(c) ==
  /\ pc[c] = "start" /\ ~Leases(c)
  /\ Goto(c, "observe")
  /\ UNCHANGED <<scenario, file, backups, held, busy, opened, audit, mem>>

Release(c) ==
  /\ pc[c] = "release" /\ Free(c)
  /\ held' = {l \in held : l.owner # c}
  /\ Goto(c, IF c \in scenario.audited THEN "record" ELSE "done")
  /\ UNCHANGED <<scenario, file, backups, busy, opened, audit, mem>>

-------------------------------------------------------------------------------
(* Observing and planning: nothing shared is read after the file.          *)

Planned(c, plan, violations) ==
  IF plan = <<>> THEN Ends(c, "clean")
  ELSE IF ~Allowed(violations) THEN Ends(c, "blocked")
  ELSE /\ Goto(c, "backup")
       /\ mem' = [mem EXCEPT ![c].observed = file, ![c].plan = plan,
                             ![c].violations = violations]

Observe(c) ==
  /\ pc[c] = "observe" /\ Free(c)
  /\ IF ~file.whole \/ ~Evaluable(scenario.rules) THEN Ends(c, "failed")
     ELSE \E observed \in {Flatten(file.doc)}, desired \in {Desired(c)} :
            \E plan \in {CreatePlan(Drift(observed, desired))},
               violations \in {Violations(scenario.rules, observed, desired)} :
              Planned(c, plan, violations)
  /\ UNCHANGED <<scenario, file, backups, held, busy, opened, audit>>

-------------------------------------------------------------------------------
(* The backup: read the target, write it to a new name, read both again.   *)

ReadPreimage(c) ==
  /\ pc[c] = "backup" /\ Free(c)
  /\ mem' = [mem EXCEPT ![c].preimage = file]
  /\ Goto(c, "store")
  /\ UNCHANGED <<scenario, file, backups, held, busy, opened, audit>>

(* writeFileExclusive: the name may be taken, the file may read back       *)
(* differently, and a failing call throws; what was written stays behind.  *)
StoreBackup(c) ==
  /\ pc[c] = "store"
  /\ IF mem[c].attempts = MaxAttempts THEN Ends(c, "failed") /\ UNCHANGED backups
     ELSE \/ /\ \E stored \in Stored(mem[c].preimage) : backups' = Append(backups, stored)
             /\ mem' = [mem EXCEPT ![c].attempts = @ + 1, ![c].backup = Len(backups')]
             /\ Goto(c, "check")
          \/ /\ scenario.faults
             /\ backups' \in {backups, Append(backups, Torn)}
             /\ mem' = [mem EXCEPT ![c].attempts = @ + 1] /\ UNCHANGED pc
          \/ /\ scenario.faults
             /\ backups' = Append(backups, Torn)
             /\ Ends(c, "failed")
  /\ UNCHANGED <<scenario, file, held, busy, opened, audit>>

CheckBackup(c) ==
  /\ pc[c] = "check" /\ Free(c)
  /\ IF backups[mem[c].backup] = mem[c].preimage /\ file = mem[c].preimage
     THEN Goto(c, "apply") /\ UNCHANGED mem
     ELSE Ends(c, "failed")
  /\ UNCHANGED <<scenario, file, backups, held, busy, opened, audit>>

-------------------------------------------------------------------------------
(* Writing.                                                                *)

(* Mutant: any thread writes through the handle of a lease.                *)
MayWrite_AnyThread(c) == LeaseOf(c) # {} \/ CanOpen(c)

(* writeFile by a key that is leased goes through the lease's handle, for  *)
(* its owner only; otherwise the file is opened and emptied.               *)
MayWrite(c) ==
  IF LeaseOf(c) # {} THEN \A l \in LeaseOf(c) : l.owner = c ELSE CanOpen(c)

BeginWrite(c, label) ==
  /\ busy' = [busy EXCEPT ![Fs(c)] = c]
  /\ opened' = IF LeaseOf(c) = {} THEN opened \cup {c} ELSE opened
  /\ file' = Torn
  /\ Goto(c, label)

EndWrite(c) ==
  /\ busy' = [busy EXCEPT ![Fs(c)] = "none"]
  /\ opened' = opened \ {c}

(* A number is written out in full; one with too many digits is refused by *)
(* the parser that reads it back.                                          *)
Readable(doc) ==
  \A n \in DOMAIN doc : doc[n].kind = "number" => Len(doc[n].whole \o doc[n].frac) <= MaxDigits
Dumped(doc) == [whole |-> Readable(doc), doc |-> doc]

(* applyRepair reads the document again and checks each preimage.          *)
ReadAndApply(c) ==
  /\ pc[c] = "apply" /\ Free(c)
  /\ IF ~file.whole THEN Ends(c, "failed")
     ELSE \E applied \in {Apply(file.doc, mem[c].plan)} :
            IF ~applied.ok THEN Ends(c, "failed")
            ELSE /\ mem' = [mem EXCEPT ![c].output = Dumped(applied.doc)]
                 /\ Goto(c, "open")
  /\ UNCHANGED <<scenario, file, backups, held, busy, opened, audit>>

OpenTarget(c) ==
  /\ pc[c] = "open" /\ Free(c)
  /\ IF MayWrite(c) THEN BeginWrite(c, "write") /\ UNCHANGED mem
     ELSE Ends(c, "failed") /\ UNCHANGED <<busy, opened, file>>
  /\ UNCHANGED <<scenario, backups, held, audit>>

WriteTarget(c) ==
  /\ pc[c] = "write"
  /\ EndWrite(c)
  /\ \/ file' \in Stored(mem[c].output) /\ Goto(c, "verify")
     \/ scenario.faults /\ UNCHANGED file /\ Goto(c, "rollback")
  /\ UNCHANGED <<scenario, backups, held, audit, mem>>

Verify(c) ==
  /\ pc[c] = "verify" /\ Free(c)
  /\ \E flat \in {Flatten(file.doc)}, desired \in {Desired(c)} :
       IF file.whole /\ Verified(flat, desired, scenario.rules)
       THEN Ends(c, "repaired")
       ELSE Goto(c, "rollback") /\ UNCHANGED mem
  /\ UNCHANGED <<scenario, file, backups, held, busy, opened, audit>>

-------------------------------------------------------------------------------
(* Rolling back.                                                           *)

OpenForRollback(c) ==
  /\ pc[c] = "rollback" /\ Free(c)
  /\ IF MayWrite(c) THEN BeginWrite(c, "restore") /\ UNCHANGED mem
     ELSE Ends(c, "stuck") /\ UNCHANGED <<busy, opened, file>>
  /\ UNCHANGED <<scenario, backups, held, audit>>

RestoreBackup(c) ==
  /\ pc[c] = "restore"
  /\ EndWrite(c)
  /\ \/ file' \in Stored(backups[mem[c].backup]) /\ Goto(c, "confirm") /\ UNCHANGED mem
     \/ scenario.faults /\ UNCHANGED file /\ Ends(c, "stuck")
  /\ UNCHANGED <<scenario, backups, held, audit>>

ConfirmRollback(c) ==
  /\ pc[c] = "confirm" /\ Free(c)
  /\ Ends(c, IF file = backups[mem[c].backup] THEN "restored" ELSE "stuck")
  /\ UNCHANGED <<scenario, file, backups, held, busy, opened, audit>>

-------------------------------------------------------------------------------
(* The audit trail.  record() holds a mutex of the process.  Its call ends *)
(* without the event being confirmed when a file call throws, or when the  *)
(* trail does not parse or does not read back as it was to be written.     *)

(* Mutant: without the mutex of the process.                               *)
MayRecord_Unlocked(c) == pc[c] = "record"

MayRecord(c) == pc[c] = "record" /\ recording[Fs(c)] = "none"

EndRecord(c) ==
  /\ recording' = [recording EXCEPT ![Fs(c)] = "none"]
  /\ Goto(c, "done")

ReadTrail(c) ==
  /\ MayRecord(c) /\ Free(c)
  /\ \/ /\ trail.whole
        /\ recording' = [recording EXCEPT ![Fs(c)] = c]
        /\ mem' = [mem EXCEPT ![c].trail = Append(trail.events, c)]
        /\ Goto(c, "record open")
     \/ /\ ~trail.whole \/ scenario.faults
        /\ EndRecord(c) /\ UNCHANGED mem
  /\ UNCHANGED <<scenario, file, backups, held, busy, opened, trail, acked, lost>>

(* The file is emptied when it is opened, and filled from its beginning:   *)
(* any first part of the new trail, cut behind an event or within one, is  *)
(* what others see of the write, what it leaves if it fails or the process *)
(* dies.  A trail beyond the size limit is refused when the file is empty. *)
TrailFits(c) == Len(mem[c].trail) <= scenario.room
TrailCut(c)  ==
  IF TrailFits(c)
  THEN {cut \in [whole : BOOLEAN, events : Prefixes(mem[c].trail)] :
          cut.whole \/ cut.events # mem[c].trail}
  ELSE {[whole |-> TRUE, events |-> <<>>]}

OpenTrail(c) ==
  /\ pc[c] = "record open" /\ Free(c)
  /\ \/ /\ \A d \in Clients : pc[d] # "record write"
        /\ busy' = [busy EXCEPT ![Fs(c)] = c]
        /\ trail' \in TrailCut(c)
        /\ Goto(c, "record write") /\ UNCHANGED recording
     \/ /\ scenario.faults \/ \E d \in Clients : pc[d] = "record write"
        /\ EndRecord(c) /\ UNCHANGED <<trail, busy>>
  /\ UNCHANGED <<scenario, file, backups, held, opened, acked, lost, mem>>

(* The confirmed events that are not in the file any more.                 *)
Loses == lost' = lost \cup (acked \ Range(trail.events))

(* Mutant: a failing write keeps the mutex of the process.                 *)
WriteTrail_KeepsMutex(c) ==
  /\ pc[c] = "record write"
  /\ busy' = [busy EXCEPT ![Fs(c)] = "none"]
  /\ \/ /\ TrailFits(c)
        /\ trail' = [whole |-> TRUE, events |-> mem[c].trail]
        /\ Goto(c, "record check") /\ UNCHANGED lost
     \/ /\ scenario.faults \/ ~TrailFits(c)
        /\ Loses /\ Goto(c, "done") /\ UNCHANGED trail
  /\ UNCHANGED <<scenario, file, backups, held, opened, recording, acked, mem>>

WriteTrail(c) ==
  /\ pc[c] = "record write"
  /\ busy' = [busy EXCEPT ![Fs(c)] = "none"]
  /\ \/ /\ TrailFits(c)
        /\ trail' = [whole |-> TRUE, events |-> mem[c].trail]
        /\ Goto(c, "record check") /\ UNCHANGED <<recording, lost>>
     \/ /\ scenario.faults /\ TrailFits(c)
        /\ Loses /\ Goto(c, "record check") /\ UNCHANGED <<trail, recording>>
     \/ /\ scenario.faults \/ ~TrailFits(c)
        /\ Loses /\ EndRecord(c) /\ UNCHANGED trail
  /\ UNCHANGED <<scenario, file, backups, held, opened, acked, mem>>

CheckTrail(c) ==
  /\ pc[c] = "record check" /\ Free(c)
  /\ \/ acked' = IF trail = [whole |-> TRUE, events |-> mem[c].trail] THEN acked \cup {c} ELSE acked
     \/ scenario.faults /\ UNCHANGED acked
  /\ EndRecord(c)
  /\ UNCHANGED <<scenario, file, backups, held, busy, opened, trail, lost, mem>>

-------------------------------------------------------------------------------
(* A process dies: its handles are closed, its files stay as they are.     *)

Crash(p) ==
  /\ scenario.crash
  /\ \E c \in Clients : Fs(c) = p /\ pc[c] \notin {"done", "dead"}
  /\ pc' = [c \in Clients |-> IF Fs(c) = p THEN "dead" ELSE pc[c]]
  /\ held' = {l \in held : l.fs # p}
  /\ opened' = {c \in opened : Fs(c) # p}
  /\ busy' = [busy EXCEPT ![p] = "none"]
  /\ recording' = [recording EXCEPT ![p] = "none"]
  /\ IF \E c \in Clients : Fs(c) = p /\ pc[c] = "record write" THEN Loses ELSE UNCHANGED lost
  /\ UNCHANGED <<scenario, file, backups, trail, acked, mem>>

ClientStep(c) ==
  \/ AcquireWriteLease(c) \/ StartUnleased(c) \/ Release(c) \/ Observe(c)
  \/ ReadPreimage(c) \/ StoreBackup(c) \/ CheckBackup(c)
  \/ ReadAndApply(c) \/ OpenTarget(c) \/ WriteTarget(c) \/ Verify(c)
  \/ OpenForRollback(c) \/ RestoreBackup(c) \/ ConfirmRollback(c)
  \/ ReadTrail(c) \/ OpenTrail(c) \/ WriteTrail(c) \/ CheckTrail(c)

Next == (\E c \in Clients : ClientStep(c)) \/ (\E p \in Range(scenario.fs) : Crash(p))

(* Every thread is scheduled; as each takes a bounded number of steps, one *)
(* that waits for a mutex gets it when the others have ended.              *)
Spec == Init /\ [][Next]_vars /\ \A c \in Clients : WF_vars(ClientStep(c))

-------------------------------------------------------------------------------
(* Properties.                                                             *)

Writing  == {"write", "restore", "record write"}
TryingTo == {"backup", "store", "check", "apply", "open"}

(* The mutex of a file system object is held exactly during the writes of  *)
(* its clients, the handles of writeFile are open only during a write, and *)
(* no client is in two calls.                                              *)
TypeOK ==
  /\ scenario \in Scenarios
  /\ file.whole \in BOOLEAN /\ trail.whole \in BOOLEAN
  /\ \A l \in held : l.owner \in Clients /\ pc[l.owner] \notin {"start", "done", "dead"}
  /\ \A p \in DOMAIN busy, c \in Clients : busy[p] = c <=> Fs(c) = p /\ pc[c] \in Writing
  /\ \A c \in opened : pc[c] \in {"write", "restore"}
  /\ acked \subseteq Clients /\ lost \subseteq acked
  /\ \A c \in Clients : mem[c].attempts \in 0..MaxAttempts

(* What a client with a lease observed is what it overwrites: from its     *)
(* observation to its first write nobody else changes the file, not a      *)
(* thread that uses its file system object, not another process, not by    *)
(* another spelling of the path (FileSystem.cpp acquireWriteLease).        *)
LeaseIsolates ==
  \A c \in Clients : Leases(c) /\ pc[c] \in TryingTo => file = mem[c].observed

(* The document as it was is on disk at all times, in its place or in a    *)
(* backup: whatever fails, dies or interferes, with or without leases,     *)
(* no client writes before createBackup confirmed a copy of what it read.  *)
OriginalKept == Whole(scenario.document) \in {file} \cup Range(backups)

(* A client that holds the lease and reports a restoration has put back    *)
(* what it observed, although it never compared the file with that         *)
(* (RollbackManager.cpp, BackupManager.cpp restoreBackup).                 *)
RestoredIsObserved ==
  \A c \in Clients : Leases(c) /\ pc[c] = "release" /\ mem[c].outcome = "restored"
                      => file = mem[c].observed

(* A repair that was verified under a lease is finished and conservative:  *)
(* a second plan for the same file is empty, the rules hold, and what only *)
(* the observed document had is still there (RepairPlanner.cpp "do not     *)
(* remove keys"), except for a null that had to become an object: every    *)
(* node, and every key of the flattened form unless the document has an    *)
(* unnamed member.  The members of that are spelled like those of the      *)
(* document, and the nulls that pad an array can hide them.                *)
RepairedIsStable ==
  \A c \in Clients : Leases(c) /\ pc[c] = "release" /\ mem[c].outcome = "repaired" =>
    \E observed \in {mem[c].observed.doc} :
      \E before \in {Flatten(observed)}, after \in {Flatten(file.doc)} :
        /\ CreatePlan(Drift(after, Desired(c))) = <<>>
        /\ \A r \in scenario.rules : EvaluateExpression(r.expression, after)
        /\ \A n \in DOMAIN observed :
             observed[n] # Null /\ PathOf(observed, n) \notin DOMAIN Desired(c) =>
               n \in DOMAIN file.doc /\ file.doc[n] = observed[n]
        /\ <<"">> \notin DOMAIN observed =>
             \A k \in DOMAIN before \ DOMAIN Desired(c) :
               before[k] # Null => k \in DOMAIN after /\ after[k] = before[k]

(* What the policy found of the desired document decides about the file:   *)
(* without violations, reaching the desired values is enough to pass       *)
(* verification; a repair that was allowed in spite of a violation is only *)
(* ever confirmed when the rule is about a key that is not desired         *)
(* (PolicyEvaluator.cpp evaluate, Verification.cpp).                       *)
PolicyPredicts ==
  \A c \in Clients :
    /\ pc[c] = "verify" /\ file.whole /\ mem[c].violations = {} =>
         \E flat \in {Flatten(file.doc)} :
           DesiredReached(flat, Desired(c)) => Verified(flat, Desired(c), scenario.rules)
    /\ mem[c].outcome = "repaired" =>
         \A r \in mem[c].violations : ParseExpression(r.expression).key \notin DOMAIN Desired(c)

(* The quick check and the analysis agree on whether there is drift        *)
(* (DriftAnalyzer.cpp hasDrift, analyze).                                  *)
DriftAgrees ==
  \A c \in Clients : pc[c] = "observe" /\ file.whole =>
    \E flat \in {Flatten(file.doc)} : HasDrift(flat, Desired(c)) <=> Drift(flat, Desired(c)) # {}

(* A document is got back from its flattened form, whatever the order of   *)
(* its paths, unless names hold dots or look like indices or an array is   *)
(* right in an array (JsonPath.cpp flatten, unflatten).                    *)
PathsRoundTrip ==
  pc = scenario.at => \A doc \in {scenario.document} \cup Range(scenario.desired) :
    Regular(doc) => \E back \in {Unflatten(Flatten(doc))} : back.ok /\ back.doc = doc

(* Numbers are exact: of two lexemes the canonical forms are equal when    *)
(* the values are, and compare as the values do; a canonical form parses   *)
(* back to itself unless it has more digits than the parser takes          *)
(* (Json.cpp canonical_number, compare_number).                            *)
NumbersExact ==
  \A l, m \in scenario.numbers :
    \E a \in {Canonical(l)}, b \in {Canonical(m)} :
      a # Refused /\ b # Refused =>
        LET x == Scaled(l, Scale)
            y == Scaled(m, Scale)
        IN /\ a = b <=> x = y
           /\ Compare(a, b) = (IF x < y THEN -1 ELSE IF x = y THEN 0 ELSE 1)
           /\ Canonical([neg |-> a.neg, whole |-> a.whole, frac |-> a.frac, exp |-> 0])
                \in {a} \cup (IF Len(a.whole \o a.frac) > MaxDigits THEN {Refused} ELSE {})

OneProcess == Cardinality(Range(scenario.fs)) = 1
AtRest     == \A c \in Clients : pc[c] # "record write"

(* Clients of one process do not lose each other's events: what record()   *)
(* confirmed is in the trail from then on, however the records of several  *)
(* threads meet (AuditTrail.cpp auditMutex), unless a write failed, was    *)
(* refused for its size or died with the process: it had emptied the file  *)
(* (FileSystem.cpp CREATE_ALWAYS).  Only those writes lose, and two        *)
(* processes lose more.                                                    *)
TrailKept == OneProcess /\ AtRest => acked \subseteq Range(trail.events) \cup lost

(* A trail cut off within a record stays as it is: no client writes over   *)
(* it or confirms an event in it (AuditTrail.cpp "corruption, not          *)
(* permission to hide history or start over").                             *)
DamageStays == [][OneProcess /\ AtRest /\ ~trail.whole => UNCHANGED <<trail, acked>>]_vars

(* The trail keeps what was confirmed, and damage stays visible.           *)
TrailSound == []TrailKept /\ DamageStays

(* Every client comes to its end: no mutex is kept.                        *)
ClientsEnd == \A c \in Clients : <>(pc[c] \in {"done", "dead"})

(* A lease isolates, the original stays on disk, and a restoration that a  *)
(* client with a lease reports has put back what it observed.              *)
FilesGuarded == LeaseIsolates /\ OriginalKept /\ RestoredIsObserved

(* Analysis, policy and verification agree on what a repair has to reach.  *)
RepairSound == RepairedIsStable /\ PolicyPredicts /\ DriftAgrees

(* Paths name places and canonical numbers are values.                     *)
TextFaithful == PathsRoundTrip /\ NumbersExact
===============================================================================
