---------------------------- MODULE DiagnosticReport ---------------------------
(***************************************************************************)
(* What a diagnostic report may say (Diagnostics.cpp): an event is cleaned *)
(* when it is captured, the snapshot that holds it is the host's to keep   *)
(* or to edit, and the report cleans it once more, by another rule.        *)
(*                                                                         *)
(* A document maps its nodes, the sequences of parts (keys and indices)    *)
(* that lead to them, to what is there: "object", "array", a word of the   *)
(* code's own, or the kind of a value.  The lists' lengths are scaled to   *)
(* Widths; the depths are the code's.                                      *)
(***************************************************************************)
EXTENDS Naturals, Sequences, FiniteSets, SequencesExt, FiniteSetsExt, Functions

CONSTANTS
  Parts,      \* what nodes are made of, keys and indices
  Indices,    \* the parts that are array indices, in order
  Rank,       \* the order of the keys that occur in evidence
  Widths,     \* "items", "members" of evidence, "causes" of an error
  RawEvents,  \* the events the host captures
  Tamperings  \* what a host that edits a snapshot writes: parts and documents

VARIABLES
  raw, profile,  \* the event, and the profile of its collector
  snapshot,      \* the document, or <<>> before it is taken
  loss,          \* counted by the capture
  tampered,      \* the host has edited the snapshot
  report         \* "none", "refused", or the document of the report

reportVars == <<raw, profile, snapshot, loss, tampered, report>>

-------------------------------------------------------------------------------
(* Documents.                                                              *)

Containers == {"object", "array"}

(* What has something below it is a container.                             *)
IsTree(doc) ==
  \A n \in DOMAIN doc \ {<<>>} : Front(n) \in DOMAIN doc /\ doc[Front(n)] \in Containers

IsDocument(doc) == DOMAIN doc \subseteq Seq(Parts) /\ IsFiniteSet(DOMAIN doc) /\ IsTree(doc)

TamperingsAssumption ==
  \A t \in Tamperings : t.node \in Seq(Parts) /\ IsDocument(t.value)
ASSUME TamperingsAssumption

Leaf(value) == [node \in {<<>>} |-> value]

Under(parts, kind) ==
  [node \in {<<>>} \cup UNION {{<<k>> \o n : n \in DOMAIN parts[k]} : k \in DOMAIN parts} |->
     IF node = <<>> THEN kind ELSE parts[Head(node)][Tail(node)]]

Place(index) == CHOOSE i \in 1..Len(Indices) : Indices[i] = index

Fields(record) == Under(record, "object")
Elements(q) == Under([k \in {Indices[i] : i \in DOMAIN q} |-> q[Place(k)]], "array")

At(doc, node) ==
  [n \in {SubSeq(m, Len(node) + 1, Len(m)) : m \in {d \in DOMAIN doc : IsPrefix(node, d)}} |->
     doc[node \o n]]

(* doc with the documents of a function from nodes in those nodes' places. *)
Graft(doc, at) ==
  LET within(n) == {s \in DOMAIN at : IsPrefix(s, n)} IN
  [n \in {m \in DOMAIN doc : within(m) = {}}
           \cup UNION {{s \o m : m \in DOMAIN at[s]} : s \in DOMAIN at} |->
     IF within(n) = {} THEN doc[n]
     ELSE LET s == CHOOSE s \in within(n) : TRUE IN at[s][SubSeq(n, Len(s) + 1, Len(n))]]

-------------------------------------------------------------------------------
(* The lists of the code.  "word" stands for the vocabulary's words,       *)
(* "phase" for the phases, "reason" for the fixed sentences.               *)

SafeKeys ==
  {"bytes", "count", "durationMilliseconds", "sourceHash", "targetHash", "beforeHash", "afterHash",
   "backupHash", "state", "targetState", "state_vector", "stateClass", "recoveryCategory",
   "admissibility", "normalization", "compatible", "available", "allowed", "verified", "restored",
   "mutationMayHaveOccurred", "step", "sourceCount", "documentCount", "policyHash", "planHash",
   "witnessHash", "profileHash", "registryHash"}

ReportKeys ==
  {"schema", "sdkVersion", "profile", "sessionID", "buildContext", "compilerVersion", "pointerBits",
   "sourceCommit", "processID", "osMajor", "osMinor", "osBuild", "osArchitecture",
   "osVersionUnavailableReason", "sourceDirty", "hostSourceCommit", "sourceCommitUnavailableReason",
   "environmentUnavailableReason", "captureStartUtc", "captureEndUtc", "events", "incidents", "loss",
   "rawMessagesUnavailableReason", "bundleID", "eventID", "operationID", "sequence", "utc",
   "monotonicMilliseconds", "component", "phase", "outcome", "objectHash",
   "objectHashUnavailableReason", "ruleReferenceHashes", "primaryError", "secondaryErrors",
   "evidence", "evidenceUnavailableReason", "incidentID", "triggerPhase", "affectedObjectHash",
   "expectedContract", "observedOutcome", "timelineEventIDs", "causeStatus", "coverageGap", "kind",
   "nativeCode", "nativeCodeUnavailableReason", "messageUnavailableReason", "causes", "dropped",
   "truncated", "redacted", "captureFailures", "exportFailures", "exportFailuresUnavailableReason",
   "exportRedactions"}

(* There are as many indices as a list may have items, and the code's own  *)
(* keys are among the parts.                                               *)
PartsAssumption ==
  /\ Widths \in [items : Nat, members : Nat, causes : Nat]
  /\ Indices \in Seq(Parts) /\ Len(Indices) >= 1
  /\ Len(Indices) >= Widths.items /\ Len(Indices) >= Widths.causes
  /\ \A i, j \in 1..Len(Indices) : Indices[i] = Indices[j] => i = j
  /\ ReportKeys \subseteq Parts /\ Range(Indices) \cap ReportKeys = {}
ASSUME PartsAssumption

(* Errors are objects, each with a kind, a code and the list of its        *)
(* causes, from the first.                                                 *)
IsError(doc) ==
  /\ IsDocument(doc)
  /\ \A n \in DOMAIN doc :
       IF Len(n) % 2 = 0
       THEN /\ doc[n] = "object"
            /\ n # <<>> =>
                 /\ Last(n) \in Range(Indices)
                 /\ \A i \in 1..Place(Last(n)) : Append(Front(n), Indices[i]) \in DOMAIN doc
       ELSE \/ Last(n) = "kind" /\ doc[n] = "error kind"
            \/ Last(n) = "nativeCode" /\ doc[n] \in {"null", "int"}
            \/ Last(n) = "causes" /\ doc[n] = "array"

Outcomes == {"STARTED", "PASSED", "BLOCKED", "FAILED", "RESTORED", "RECOVERY_FAILED"}

EventsAssumption ==
  \A e \in RawEvents :
    /\ e.operation \in {"hash", "unavailable"} /\ e.outcome \in Outcomes /\ e.rules \in Nat
    /\ IsDocument(e.evidence) /\ e.evidence \in [DOMAIN e.evidence -> Range(e.evidence)]
    /\ IsError(e.error)
    /\ e.secondary \in Seq(Range(e.secondary)) /\ \A s \in Range(e.secondary) : IsError(s)
ASSUME EventsAssumption

Incidental == {"FAILED", "BLOCKED", "RECOVERY_FAILED"}

Literals ==
  {"aeostara.diagnostics/1", "sdk version", "LEAN", "DEVELOPMENT", "AeostaraCore", "unavailable",
   "UNKNOWN", "reason", "word", "phase", "error kind"} \cup Outcomes

(* A report's lists may have 4096 items: as many as a collector has events,*)
(* and more than anything here.                                            *)
Unlimited == 0

EvidenceRule ==
  [depth |-> 4, items |-> Widths.items, members |-> Widths.members, keys |-> SafeKeys,
   leaves |-> {"null", "bool", "int", "hash", "word"}]

(* Mutant: a report is read less deep than it is written.                  *)
ReportRule_Shallow ==
  [depth |-> 12, items |-> Unlimited, members |-> Unlimited, keys |-> ReportKeys,
   leaves |-> {"null", "bool", "int", "count", "hash", "commit", "utc"} \cup Literals]

ReportRule ==
  [depth |-> 16, items |-> Unlimited, members |-> Unlimited, keys |-> ReportKeys,
   leaves |-> {"null", "bool", "int", "count", "hash", "commit", "utc"} \cup Literals]

-------------------------------------------------------------------------------
(* Cleaning a document by a rule.                                          *)

Children(doc, node) == {n \in DOMAIN doc : Len(n) = Len(node) + 1 /\ IsPrefix(node, n)}

Earlier(doc, node) ==
  {n \in Children(doc, Front(node)) :
     IF doc[Front(node)] = "array" THEN Place(Last(n)) < Place(Last(node))
                                   ELSE Rank[Last(n)] < Rank[Last(node)]}

Within(doc, rule, node) ==
  LET limit == IF doc[Front(node)] = "array" THEN rule.items ELSE rule.members
  IN  limit = Unlimited \/ Cardinality(Earlier(doc, node)) < limit

Allowed(doc, rule, node) == doc[Front(node)] = "array" \/ Last(node) \in rule.keys

(* The nodes the cleaning comes to: no ancestor of them is cut off.        *)
Visited(doc, rule) ==
  {node \in DOMAIN doc : \A i \in 1..Len(node) :
     LET n == SubSeq(node, 1, i)
     IN  i <= rule.depth + 1 /\ Within(doc, rule, n) /\ Allowed(doc, rule, n)}

Admitted(doc, rule, node) == doc[node] \in Containers \cup rule.leaves

Shown(doc, rule) ==
  [node \in Visited(doc, rule) |->
     IF Len(node) <= rule.depth /\ Admitted(doc, rule, node) THEN doc[node] ELSE "null"]

Redactions(doc, rule) ==
  LET seen == {n \in Visited(doc, rule) : Len(n) <= rule.depth}
  IN  Cardinality({n \in seen : ~Admitted(doc, rule, n)})
        + Cardinality({n \in UNION {Children(doc, m) : m \in seen} :
                         Within(doc, rule, n) /\ ~Allowed(doc, rule, n)})

Truncations(doc, rule) ==
  LET visited == Visited(doc, rule) IN
  Cardinality({n \in visited : \/ Len(n) > rule.depth
                               \/ \E m \in Children(doc, n) : ~Within(doc, rule, m)})

-------------------------------------------------------------------------------
(* Errors: a node with an even number of parts is an error, the causes of  *)
(* an error are in its "causes".                                           *)

ErrorDepth == 4

Nesting(node) == Len(node) \div 2

Reported(error) ==
  {n \in DOMAIN error : /\ Nesting(n) <= ErrorDepth
                        /\ \A i \in 1..Nesting(n) : Place(n[2 * i]) <= Widths.causes}

ErrorsIn(error) == {n \in Reported(error) : Len(n) % 2 = 0}

SafeError(error) ==
  LET reasons(n) ==
        [messageUnavailableReason |-> "reason",
         nativeCodeUnavailableReason |->
           IF error[Append(n, "nativeCode")] = "null" THEN "reason" ELSE "null"]
  IN  [m \in Reported(error) \cup UNION {{Append(n, k) : k \in DOMAIN reasons(n)} : n \in ErrorsIn(error)} |->
         IF m \in DOMAIN error THEN error[m] ELSE reasons(Front(m))[Last(m)]]

ErrorCuts(error) ==
  Cardinality({n \in ErrorsIn(error) :
                 LET causes == Cardinality(Children(error, Append(n, "causes")))
                 IN  (Nesting(n) = ErrorDepth /\ causes > 0) \/ causes > Widths.causes})

-------------------------------------------------------------------------------
(* Capturing an event and taking a snapshot of it.                         *)

Retained(evidence) ==
  IF profile = "LEAN" THEN Leaf("object") ELSE Shown(evidence, EvidenceRule)

Empty(evidence) == DOMAIN evidence = {<<>>} /\ evidence[<<>>] \in Containers \cup {"null"}

RetentionLoss(evidence) ==
  IF profile = "LEAN"
  THEN [redacted |-> IF Empty(evidence) THEN 0 ELSE 1, truncated |-> 0]
  ELSE [redacted  |-> Redactions(evidence, EvidenceRule),
        truncated |-> Truncations(evidence, EvidenceRule)]

FirstErrors == SubSeq(raw.secondary, 1, Min({Len(raw.secondary), Widths.causes}))

PrimaryError == IF raw.failed THEN SafeError(raw.error) ELSE Leaf("null")
SecondaryErrors == Elements([i \in DOMAIN FirstErrors |-> SafeError(FirstErrors[i])])
ObjectHash == IF raw.object = "hash" THEN "hash" ELSE "null"

Loss(bulky) ==
  LET cut == RetentionLoss(raw.evidence)
      secondary == FoldLeft(LAMBDA n, e : n + ErrorCuts(e), 0, FirstErrors)
      one(P) == IF P THEN 1 ELSE 0
  IN  [redacted  |-> cut.redacted,
       truncated |-> cut.truncated + one(raw.rules > Widths.items) + secondary
                       + one(Len(raw.secondary) > Widths.causes)
                       + (IF raw.failed THEN ErrorCuts(raw.error) ELSE 0) + one(bulky)]

EventFields(bulky) ==
  [eventID |-> Leaf("hash"), operationID |-> Leaf(raw.operation), sequence |-> Leaf("count"),
   utc |-> Leaf(raw.utc), monotonicMilliseconds |-> Leaf("count"),
   component |-> Leaf("AeostaraCore"), phase |-> Leaf("phase"), outcome |-> Leaf(raw.outcome),
   objectHash |-> Leaf(ObjectHash),
   objectHashUnavailableReason |-> Leaf(IF raw.object = "hash" THEN "null" ELSE "reason"),
   ruleReferenceHashes |-> Elements([i \in 1..Min({raw.rules, Widths.items}) |-> Leaf("hash")]),
   primaryError |-> PrimaryError, secondaryErrors |-> SecondaryErrors,
   evidence |-> IF bulky THEN Leaf("object") ELSE Retained(raw.evidence),
   evidenceUnavailableReason |-> Leaf("reason")]

Event(bulky) ==
  Fields(Restrict(EventFields(bulky),
                  DOMAIN EventFields(bulky) \ (IF bulky THEN {} ELSE {"evidenceUnavailableReason"})))

Incident ==
  Fields([incidentID |-> Leaf("hash"), triggerPhase |-> Leaf("phase"),
          affectedObjectHash |-> Leaf(ObjectHash), expectedContract |-> Leaf("reason"),
          observedOutcome |-> Leaf(raw.outcome), timelineEventIDs |-> Elements(<<Leaf("hash")>>),
          primaryError |-> PrimaryError, secondaryErrors |-> SecondaryErrors,
          causeStatus |-> Leaf("UNKNOWN"), coverageGap |-> Leaf("reason")])

LossFields ==
  Fields([dropped |-> Leaf("count"), truncated |-> Leaf("count"), redacted |-> Leaf("count"),
          captureFailures |-> Leaf("count"), exportFailures |-> Leaf("null"),
          exportFailuresUnavailableReason |-> Leaf("reason")])

(* What the host calls its commit is kept if a report may say it.          *)
BuildContext ==
  Fields([compilerVersion |-> Leaf("int"), pointerBits |-> Leaf("count"), processID |-> Leaf("count"),
          osVersionUnavailableReason |-> Leaf("null"), sourceCommit |-> Leaf("null"),
          sourceCommitUnavailableReason |-> Leaf("reason"), sourceDirty |-> Leaf("null"),
          osArchitecture |-> Leaf("count"), osMajor |-> Leaf("count"), osMinor |-> Leaf("count"),
          osBuild |-> Leaf("count"), hostSourceCommit |-> Shown(Leaf(raw.commit), ReportRule)])

Document(bulky) ==
  Fields([schema |-> Leaf("aeostara.diagnostics/1"), sdkVersion |-> Leaf("sdk version"),
          profile |-> Leaf(profile), sessionID |-> Leaf("hash"), buildContext |-> BuildContext,
          captureStartUtc |-> Leaf(raw.utc), captureEndUtc |-> Leaf(raw.utc),
          events |-> Elements(<<Event(bulky)>>),
          incidents |-> Elements(IF raw.outcome \in Incidental THEN <<Incident>> ELSE <<>>),
          loss |-> LossFields, rawMessagesUnavailableReason |-> Leaf("reason"),
          bundleID |-> Leaf("hash")])

-------------------------------------------------------------------------------
(* Making a report.  Evidence is cleaned by its own rule, from its own     *)
(* depth, wherever it is; the rest by the report's rule.                   *)

EvidenceIn(doc) ==
  {n \in DOMAIN doc \ {<<>>} : Last(n) = "evidence" /\ \A i \in 1..Len(n) - 1 : n[i] # "evidence"}

Frame(doc) == Graft(doc, [n \in EvidenceIn(doc) |-> Leaf("null")])

(* Mutant: evidence is checked by the rule of the report.                  *)
Checked_ByOneRule(doc) == Shown(doc, [ReportRule EXCEPT !.keys = @ \cup SafeKeys])

Checked(doc) ==
  LET frame == Shown(Frame(doc), ReportRule)
  IN  Graft(frame, [n \in EvidenceIn(doc) \cap DOMAIN frame |-> Shown(At(doc, n), EvidenceRule)])

CheckedRedactions(doc) ==
  Redactions(Frame(doc), ReportRule)
    + MapThenSumSet(LAMBDA n : Redactions(At(doc, n), EvidenceRule),
                    EvidenceIn(doc) \cap Visited(Frame(doc), ReportRule))

(* What the text version of the report reads; anything else there throws.  *)
IsText(doc, node) ==
  node \in DOMAIN doc /\ doc[node] \in {"hash", "commit", "utc"} \cup Literals
HasTexts(doc, node, keys) == \A k \in keys : IsText(doc, Append(node, k))

Supported(doc) == <<"schema">> \in DOMAIN doc /\ doc[<<"schema">>] = "aeostara.diagnostics/1"

Rendered(doc) ==
  /\ HasTexts(doc, <<>>, {"bundleID", "profile"})
  /\ \A list \in {<<"incidents">>, <<"events">>} : list \in DOMAIN doc /\ doc[list] = "array"
  /\ \A i \in Children(doc, <<"incidents">>) :
       /\ HasTexts(doc, i, {"incidentID", "triggerPhase", "observedOutcome"})
       /\ Append(i, "timelineEventIDs") \in DOMAIN doc
  /\ \A e \in Children(doc, <<"events">>) :
       /\ HasTexts(doc, e, {"utc", "phase", "outcome", "eventID"})
       /\ Append(e, "sequence") \in DOMAIN doc /\ doc[Append(e, "sequence")] \in {"int", "count"}

-------------------------------------------------------------------------------
(* A behaviour: capture, edit the snapshot or not, make the report.        *)

ReportInit ==
  /\ raw \in RawEvents /\ profile \in {"LEAN", "DEVELOPMENT"}
  /\ snapshot = <<>> /\ loss = [redacted |-> 0, truncated |-> 0]
  /\ tampered = FALSE /\ report = [made |-> "no"]

(* bulky: the cleaned event is longer than the limit, and is kept without  *)
(* its evidence.                                                           *)
Capture(bulky) ==
  /\ snapshot = <<>>
  /\ snapshot' = Document(bulky) /\ loss' = Loss(bulky)
  /\ UNCHANGED <<raw, profile, tampered, report>>

(* The snapshot is a value in the host's hands.                            *)
Tamper(node, value) ==
  /\ snapshot # <<>> /\ ~tampered /\ report.made = "no"
  /\ Front(node) \in DOMAIN snapshot /\ snapshot[Front(node)] \in Containers
  /\ snapshot' = Graft(Restrict(snapshot, {n \in DOMAIN snapshot : ~IsPrefix(node, n)}),
                       [n \in {node} |-> value])
  /\ tampered' = TRUE
  /\ UNCHANGED <<raw, profile, loss, report>>

MakeDiagnosticExport(fits) ==
  /\ snapshot # <<>> /\ report.made = "no"
  /\ \E doc \in {Checked(snapshot)} :
       report' = IF ~Supported(snapshot) \/ ~Rendered(doc) THEN [made |-> "refused"]
                 ELSE IF ~fits THEN [made |-> "oversized"]
                 ELSE [made |-> "yes", document |-> doc, redactions |-> CheckedRedactions(snapshot)]
  /\ UNCHANGED <<raw, profile, snapshot, loss, tampered>>

ReportNext ==
  \/ \E bulky \in BOOLEAN : Capture(bulky)
  \/ \E t \in Tamperings : Tamper(t.node, t.value)
  \/ \E fits \in BOOLEAN : MakeDiagnosticExport(fits)

ReportSpec == ReportInit /\ [][ReportNext]_reportVars

-------------------------------------------------------------------------------

(* The types; and documents are trees, however they have been cut.         *)
ReportTypeOK ==
  /\ raw \in RawEvents /\ profile \in {"LEAN", "DEVELOPMENT"} /\ tampered \in BOOLEAN
  /\ loss.redacted \in Nat /\ loss.truncated \in Nat
  /\ report.made \in {"no", "refused", "oversized", "yes"}
  /\ IsTree(snapshot)
  /\ report.made = "yes" => IsTree(report.document)

(* A report carries no free text and no key that is not listed, whatever   *)
(* was captured and however the host edited the snapshot; evidence in it   *)
(* keeps to its own lists, so that neither rule makes up for the other.    *)
NothingLeaks ==
  report.made = "yes" =>
    LET doc == report.document
        evidence(n) == \E i \in 1..Len(n) - 1 : n[i] = "evidence"
        rule(n) == IF evidence(n) THEN EvidenceRule ELSE ReportRule
    IN  \A n \in DOMAIN doc :
          /\ doc[n] \in Containers \cup (IF evidence(n) \/ (n # <<>> /\ Last(n) = "evidence")
                                         THEN EvidenceRule.leaves ELSE ReportRule.leaves)
          /\ n # <<>> /\ doc[Front(n)] = "object" => Last(n) \in rule(n).keys
          /\ Len(n) <= ReportRule.depth + EvidenceRule.depth + 2

(* The report of a snapshot nobody edited repeats it: what the collector   *)
(* puts in a document, however deep its errors, passes the second rule,    *)
(* and the report claims no redaction of its own.  (The clock must write   *)
(* the times in the one form that the report knows.)                       *)
ExportRepeatsCapture ==
  ~tampered /\ raw.utc = "utc" =>
    /\ report.made # "refused"
    /\ report.made = "yes" => report.document = snapshot /\ report.redactions = 0

(* Reading a report back and making a report of it changes nothing more.   *)
ExportSettles ==
  report.made = "yes" =>
    Checked(report.document) = report.document /\ CheckedRedactions(report.document) = 0

(* What a capture leaves out of the event's evidence and errors it counts: *)
(* if nothing is counted, the document has all that they hold.             *)
LossSaid ==
  snapshot # <<>> /\ ~tampered /\ loss = [redacted |-> 0, truncated |-> 0] =>
    LET event == <<"events", Indices[1]>>
        has(node, doc) == \A n \in DOMAIN doc : snapshot[event \o node \o n] = doc[n]
    IN  /\ Empty(raw.evidence) \/ At(snapshot, event \o <<"evidence">>) = raw.evidence
        /\ raw.failed => has(<<"primaryError">>, raw.error)
        /\ \A i \in DOMAIN raw.secondary : has(<<"secondaryErrors", Indices[i]>>, raw.secondary[i])
        /\ Cardinality(Children(snapshot, event \o <<"ruleReferenceHashes">>)) = raw.rules

(* A report is a tree of listed keys and values.                           *)
ReportClean == ReportTypeOK /\ NothingLeaks

(* A report repeats the snapshot, is settled, and nothing is missing in it *)
(* that was not counted.                                                   *)
ReportFaithful == ExportRepeatsCapture /\ ExportSettles /\ LossSaid
===============================================================================
