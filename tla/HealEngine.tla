------------------------------- MODULE HealEngine ------------------------------
(***************************************************************************)
(* One command of the healing engine from its start to its exit:           *)
(* HealingEngine.cpp, the request binding an SDK host calls before it      *)
(* (NativeRequestBinding.cpp) and the command line program around it.      *)
(* Other processes edit or replace the target between any two steps.       *)
(*                                                                         *)
(* Consecutive reads of the target that must agree with each other are one *)
(* step: an edit between them is either seen, which is an edit before the  *)
(* step, or undone, which is none.  The recovery session is one step that  *)
(* ends as HealContract allows; HealSession shows how it keeps that.       *)
(***************************************************************************)
EXTENDS AshSemantics, CommandLine

CONSTANTS
  Scenarios,   \* the host, files and arguments a command can meet
  Edited,      \* the documents other processes write
  MaxEdits     \* bound: the number of edits and replacements

VARIABLES
  scenario,  \* the host, its arguments and files; never changes
  request,   \* the complete semantic input in the desired file
  bound,     \* the file and version the submission was bound to
  target,    \* the target file: its content, identity and version
  pc, command,
  seen,      \* the content and identity the running command has read
  result,    \* verdict, code of the failure, state of the mutation
  recorded,  \* an audit chain with the RESULT event is stored
  exit,      \* the exit code, or -1
  edits

inputs == <<scenario, request, bound>>
vars   == <<inputs, target, pc, command, seen, result, recorded, exit, edits>>

(* The environment of an engine that was built without one.                *)
NoEnvironment == [profile |-> [sources |-> {}], evaluator |-> "none", registry |-> {}]

Verdicts == {"none", "thrown", "failed", "valid", "drift", "planned", "unchanged", "healed"}
Mutations == {"NOT_STARTED", "MUTATED", "VERIFIED_RESTORED", "RESTORE_FAILED"}
Codes == {"", "AMBIGUOUS", "BLOCKED", "FAILED", "STALE_STATE", "POLICY_REJECTED",
          "STORAGE_FAILURE", "VERIFICATION_FAILED", "RESTORATION_FAILED"}

Documents == [carrier : {"array", "malformed"}, bits : [Dimensions -> Evidence]]

(* A scenario's files hold documents, claims and words, and the entries of *)
(* its fallback registry have an order: of any of them one comes first.    *)
ASSUME ScenariosAssumption ==
  \A s \in Scenarios :
    /\ s.document \in Documents /\ s.request.observed \in Documents
    /\ s.request.claims \in [Dimensions -> Evidence]
    /\ s.request.path.words \in Seq(States)
    /\ {"observed", "claims", "path"} \subseteq DOMAIN s.request
    /\ s.host \in {"sdk", "cli"} /\ s.args \in Seq(STRING)
    /\ s.command \in Commands \cup {"none"}
    /\ s.desired \in {"semantic", "surface", "unreadable"}
    /\ \A entries \in SUBSET s.env.registry :
         entries # {} => \E f \in entries : \A g \in entries : f.rank <= g.rank
ASSUME EditsAssumption == MaxEdits \in Nat /\ Edited \subseteq Documents

(* The adopted profiles read the observed document, some also the claims,  *)
(* and declare the same status for each defect of the evidence.            *)
ASSUME ProfilesAssumption ==
  \A s \in Scenarios :
    s.env # NoEnvironment =>
      /\ "observed" \in s.env.profile.sources
      /\ s.env.profile.sources \subseteq {"observed", "claims"}
      /\ s.env.evaluator \in {"exact", "unsupported"}
      /\ s.env.profile.declares = [absent |-> "BLOCKED", nonbinary |-> "FAILED",
                                   unsupported |-> "BLOCKED", disagreement |-> "AMBIGUOUS"]

Failed(code, mutation) == [verdict |-> "failed", code |-> code, mutation |-> mutation]
Succeeded(verdict, mutation) == [verdict |-> verdict, code |-> "", mutation |-> mutation]
Unread == [id |-> 0]
Seen == [document |-> target.document, id |-> target.id]

Init ==
  /\ scenario \in Scenarios
  /\ request = scenario.request
  /\ bound = [id |-> 0, version |-> 0]
  /\ target = [document |-> scenario.document, id |-> 1, version |-> 1]
  /\ pc = "start" /\ command = scenario.command
  /\ seen = Unread
  /\ result = Succeeded("none", "NOT_STARTED")
  /\ recorded = FALSE /\ exit = -1 /\ edits = 0

-------------------------------------------------------------------------------
(* Hosts.                                                                  *)

Finish(r) == result' = r /\ pc' = "done"

(* The program: help and usage errors end it before an engine exists.      *)
ParseArguments ==
  /\ pc = "start" /\ scenario.host = "cli"
  /\ LET parsed == ParseCommand(scenario.args) IN
       IF parsed \in Commands
       THEN command' = parsed /\ pc' = "command" /\ UNCHANGED exit
       ELSE /\ command' = parsed /\ pc' = "exit"
            /\ exit' = IF parsed = "help" THEN 0 ELSE 2
  /\ UNCHANGED <<inputs, target, seen, result, recorded, edits>>

(* bindCapturedNativeTarget: the first reads of the target.                *)
CaptureTarget ==
  /\ pc = "start" /\ scenario.host = "sdk"
  /\ seen' = Seen
  /\ bound' = [id |-> target.id, version |-> target.version]
  /\ pc' = "captured"
  /\ UNCHANGED <<scenario, request, target, command, result, recorded, exit, edits>>

(* The second reads must agree; then the request is bound to what was read,*)
(* with the operations, witness and target it came with.                   *)
BindRequest ==
  /\ pc = "captured"
  /\ IF bound = [id |-> target.id, version |-> target.version]
     THEN /\ request' = [request EXCEPT !.observed = seen.document]
          /\ pc' = "command" /\ seen' = Unread /\ UNCHANGED result
     ELSE Finish(Failed("STALE_STATE", "NOT_STARTED")) /\ UNCHANGED <<request, seen>>
  /\ UNCHANGED <<scenario, bound, target, command, recorded, exit, edits>>

Report ==
  /\ pc = "done"
  /\ pc' = "exit"
  /\ exit' = IF scenario.host = "cli" THEN ExitCode(result.verdict, result.code) ELSE exit
  /\ UNCHANGED <<inputs, target, command, seen, result, recorded, edits>>

-------------------------------------------------------------------------------
(* The engine.  `desired` says what the desired file holds: a semantic     *)
(* request, a plain document, or nothing that can be read.                 *)

Environment == scenario.env
Stale == target.document # request.observed

(* validate without a request reports surface differences.                 *)
ValidateSurface ==
  CASE scenario.desired = "unreadable" -> Failed("FAILED", "NOT_STARTED")
    [] scenario.desired = "surface" ->
         Succeeded(IF scenario.differs THEN "drift" ELSE "valid", "NOT_STARTED")

ValidateSemantic ==
  LET a == Analyze(Environment, request) IN
    IF Environment = NoEnvironment THEN Failed("BLOCKED", "NOT_STARTED")
    ELSE IF Stale THEN Failed("FAILED", "NOT_STARTED")
    ELSE IF ~a.ok THEN Failed(a.code, "NOT_STARTED")
    ELSE IF ~InvariantsPass(request, "LIFECYCLE_SUCCESS_POSTCONDITION", a.state, {})
    THEN Failed("BLOCKED", "NOT_STARTED")
    ELSE Succeeded(IF a.class = "STABLE" THEN "valid" ELSE "drift", "NOT_STARTED")

Validate ==
  /\ pc = "command" /\ command = "validate"
  /\ Finish(IF scenario.desired = "semantic" THEN ValidateSemantic ELSE ValidateSurface)
  /\ UNCHANGED <<inputs, target, command, seen, recorded, exit, edits>>

(* diff lets exceptions of the surface files pass, and never returns       *)
(* without a failure unless a semantic plan exists.                        *)
DiffSemantic ==
  LET p == Plan(Environment, request) IN
    IF Environment = NoEnvironment THEN Failed("BLOCKED", "NOT_STARTED")
    ELSE IF Stale THEN Failed("FAILED", "NOT_STARTED")
    ELSE IF ~p.ok THEN Failed(p.code, "NOT_STARTED")
    ELSE Succeeded("planned", "NOT_STARTED")

Diff ==
  /\ pc = "command" /\ command = "diff"
  /\ Finish(CASE scenario.desired = "unreadable" -> Succeeded("thrown", "NOT_STARTED")
              [] scenario.desired = "surface" -> Failed("BLOCKED", "NOT_STARTED")
              [] scenario.desired = "semantic" -> DiffSemantic)
  /\ UNCHANGED <<inputs, target, command, seen, recorded, exit, edits>>

(* heal without a request, an environment or an audit path changes nothing.*)
HealRefused ==
  CASE scenario.desired = "unreadable" -> "FAILED"
    [] scenario.desired = "surface" -> "BLOCKED"
    [] scenario.desired = "semantic" ->
         IF Environment = NoEnvironment THEN "BLOCKED"
         ELSE IF ~scenario.audited THEN "FAILED" ELSE ""

Heal ==
  /\ pc = "command" /\ command = "heal"
  /\ IF HealRefused # "" THEN Finish(Failed(HealRefused, "NOT_STARTED"))
     ELSE \E p \in {Plan(Environment, request)} :
       IF ~p.ok THEN Finish(Failed(p.code, "NOT_STARTED"))
       ELSE pc' = (IF p.ops = {} THEN "observe" ELSE "session") /\ UNCHANGED result
  /\ UNCHANGED <<inputs, target, command, seen, recorded, exit, edits>>

-------------------------------------------------------------------------------
(* The read-only lifecycle of a plan without operations.                   *)

ObserveUnchanged ==
  /\ pc = "observe"
  /\ IF Stale THEN Finish(Failed("FAILED", "NOT_STARTED")) /\ UNCHANGED seen
     ELSE seen' = Seen /\ pc' = "record" /\ UNCHANGED result
  /\ UNCHANGED <<inputs, target, command, recorded, exit, edits>>

(* The audit sink may refuse or fail, before or after its write.           *)
(* Mutant: a record that failed is tried again without end.                *)
RecordUnchanged_Retries ==
  /\ pc = "record"
  /\ \/ recorded' = TRUE /\ pc' = "recheck"
     \/ recorded' \in BOOLEAN /\ UNCHANGED pc
  /\ UNCHANGED <<inputs, target, command, seen, result, exit, edits>>

RecordUnchanged ==
  /\ pc = "record"
  /\ \/ recorded' = TRUE /\ pc' = "recheck" /\ UNCHANGED result
     \/ /\ recorded' \in BOOLEAN
        /\ \E code \in {"FAILED", "STORAGE_FAILURE"} : Finish(Failed(code, "NOT_STARTED"))
  /\ UNCHANGED <<inputs, target, command, seen, exit, edits>>

(* The chain is read back, and the target must be what was observed.       *)
(* Mutant: the target is not read again.                                   *)
RecheckUnchanged_Trusting ==
  /\ pc = "recheck"
  /\ Finish(Succeeded("unchanged", "NOT_STARTED"))
  /\ UNCHANGED <<inputs, target, command, seen, recorded, exit, edits>>

RecheckUnchanged ==
  /\ pc = "recheck"
  /\ \/ Seen = seen /\ Finish(Succeeded("unchanged", "NOT_STARTED"))
     \/ Finish(Failed("FAILED", "NOT_STARTED"))
  /\ UNCHANGED <<inputs, target, command, seen, recorded, exit, edits>>

-------------------------------------------------------------------------------
(* The recovery session (NativeExecutionSession::run).                     *)

(* The session plans again and leases the target; it goes on only if the   *)
(* target is the file, version and content the submission was bound to.    *)
(* Mutant: identity and version are not compared.                          *)
Fresh_ContentOnly == ~Stale

Fresh == ~Stale /\ bound = [id |-> target.id, version |-> target.version]

(* verify() projects the written document with the claims of the request.  *)
VerifiesAs(document, state) ==
  LET p == Project(Environment, [request EXCEPT !.observed = document]) IN
    p.ok /\ p.state = state /\ state \in Catalog

RunSession ==
  /\ pc = "session"
  /\ \E p \in {Plan(Environment, request)} :
     \E expected \in {ExpectedDocument(request.observed, p.ops)} :
     LET Leave(document) ==
           target' = [target EXCEPT !.document = document, !.version = @ + 1]
     IN \/ /\ \E code \in Codes \ {""} : Finish(Failed(code, "NOT_STARTED"))
           /\ UNCHANGED <<target, recorded>>
        \/ /\ Fresh
           /\ Leave(target.document) /\ recorded' \in BOOLEAN
           /\ \E code \in Codes \ {""} : Finish(Failed(code, "VERIFIED_RESTORED"))
        \/ /\ Fresh
           /\ \E document \in {expected, [expected EXCEPT !.carrier = "malformed"]} :
                Leave(document)
           /\ recorded' \in BOOLEAN
           /\ \E code \in Codes \ {""} : Finish(Failed(code, "RESTORE_FAILED"))
        \/ /\ Fresh
           /\ VerifiesAs(expected, p.analysis.target)
           /\ InvariantsPass(request, "LIFECYCLE_SUCCESS_POSTCONDITION", p.analysis.target, p.ops)
           /\ Leave(expected) /\ recorded' = TRUE
           /\ Finish(Succeeded("healed", "MUTATED"))
  /\ UNCHANGED <<inputs, command, seen, exit, edits>>

-------------------------------------------------------------------------------
(* Other processes.                                                        *)

(* A write in place gives a new version, a replacement also a new identity.*)
EditTarget ==
  /\ pc # "exit" /\ edits < MaxEdits
  /\ edits' = edits + 1
  /\ \E document \in Edited, id \in {target.id, target.id + 1} :
       target' = [document |-> document, id |-> id, version |-> target.version + 1]
  /\ UNCHANGED <<inputs, pc, command, seen, result, recorded, exit>>

EngineStep ==
  \/ ParseArguments \/ CaptureTarget \/ BindRequest \/ Report
  \/ Validate \/ Diff \/ Heal
  \/ ObserveUnchanged \/ RecordUnchanged \/ RecheckUnchanged
  \/ RunSession

Next == EngineStep \/ EditTarget

(* The host runs its command to the end; others may do nothing.            *)
Spec == Init /\ [][Next]_vars /\ WF_vars(EngineStep)

-------------------------------------------------------------------------------
(* Properties.                                                             *)

(* The variables have their types.                                         *)
TypeOK ==
  /\ target.document \in Documents /\ target.id \in Nat /\ target.version \in Nat
  /\ request.observed \in Documents
  /\ bound \in [id : Nat, version : Nat]
  /\ pc \in {"start", "captured", "command", "observe", "record", "recheck",
             "session", "done", "exit"}
  /\ command \in Commands \cup {"help", "invalid", "none"}
  /\ seen \in {Unread} \cup [document : Documents, id : Nat]
  /\ result \in [verdict : Verdicts, code : Codes, mutation : Mutations]
  /\ recorded \in BOOLEAN /\ exit \in -1..2 /\ edits \in 0..MaxEdits

(* At most one recognized state can be reached from any state, so the      *)
(* target of a repair does not depend on the witness the host selected     *)
(* (SemanticMapping.cpp:391): with one bit of one codeword wrong it would. *)
TargetIsUnique ==
  \A s, t \in Orbit(StateOf(target.document)) \cap Catalog : s = t

(* A success is true of the target at the moment it is decided, whatever   *)
(* was written to it since the request was made: the target is recognized  *)
(* valid, it is what the plan of this request leads to, and an audit chain *)
(* says so.                                                                *)
SuccessIsCurrent ==
  [][LET p == Plan(Environment, request) IN
     result'.verdict \in {"unchanged", "healed"} /\ result.verdict = "none" =>
       /\ StateOf(target'.document) \in Catalog
       /\ target'.document = ExpectedDocument(request.observed, p.ops)
       /\ recorded']_vars

(* The engine touches the target only for a request that was bound to this *)
(* very file, version and content, that selected a verified witness, and   *)
(* whose lifecycle is open; and never a document recognized as valid.      *)
OnlyAuthorised ==
  [][EngineStep /\ target' # target =>
       /\ target.document = request.observed
       /\ bound = [id |-> target.id, version |-> target.version]
       /\ request.path.status = "selected" /\ ~request.halt /\ ~request.contained
       /\ StateOf(target.document) \notin Catalog]_vars

(* Of all recoveries the adopted policy leaves one: a verified repair has  *)
(* led from a codeword to the zero state.                                  *)
HealsCodewords ==
  result.verdict = "healed" =>
    /\ StateOf(request.observed) \in Codewords
    /\ Plan(Environment, request).analysis.target = {}

(* No repair is verified under the claims profile: the claims of a request *)
(* are the evidence of the state before, and verify() projects the written *)
(* document together with them (NativeExecutionBindings.cpp:404).          *)
HealedIsDirect == result.verdict = "healed" => "claims" \notin scenario.env.profile.sources

(* project() does not read what a profile declares for absent, nonbinary,  *)
(* unsupported and disagreeing evidence, but does what it says: the worst  *)
(* of the declared statuses (AdoptedSemanticDefinitions.inc:44).           *)
MappingAsDeclared ==
  LET profile  == Environment.profile
      found    == UNION {Sources(Environment, request, d) : d \in Dimensions}
      defects  == (found \ Bits)
                  \cup {"disagreement" : d \in {d \in Dimensions :
                                  Bits \subseteq Sources(Environment, request, d)}}
                  \cup (IF Environment.evaluator = "exact" THEN {} ELSE {"unsupported"})
  IN /\ Environment # NoEnvironment /\ request.observed.carrier = "array"
     /\ found \cap {"unproven", "tampered"} = {}
     => Mapping(Environment, request) = Worst({profile.declares[x] : x \in defects})

(* A halted or contained lifecycle ends every command without a verdict of *)
(* health, a plan or a session.                                            *)
TerminalStaysTerminal ==
  request.halt \/ request.contained =>
    /\ pc # "session"
    /\ scenario.desired = "semantic" =>
         result.verdict \notin {"valid", "planned", "unchanged", "healed"}

(* The program exits with 0 only for help and for a validate that found no *)
(* difference between two plain documents: built without an environment,   *)
(* it accepts no semantic request, and diff and heal always fail.          *)
ExitTruthful ==
  exit = 0 => \/ command = "help"
              \/ command = "validate" /\ scenario.desired = "surface" /\ ~scenario.differs

(* Every command comes to its end, with an exit code that is true.         *)
CommandEnds == <>[](pc = "exit" /\ ExitTruthful)

(* The adopted policy leaves one recovery: to the only target there is,    *)
(* from a codeword to the zero state, and never verified by the claims of  *)
(* the request.                                                            *)
OneRecovery == TypeOK /\ TargetIsUnique /\ HealsCodewords /\ HealedIsDirect
===============================================================================
