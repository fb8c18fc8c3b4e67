---------------------------- MODULE HealEngine_proofs ---------------------------
(***************************************************************************)
(* Proofs about one command of the healing engine, for every code, catalog *)
(* and policy and for every scenario.  First what a plan is worth: the     *)
(* early returns of analyze() and plan() leave only open lifecycles, and   *)
(* tell the documents that need no repair from those that do.  Then an     *)
(* invariant that carries the plan from the step that made it to the step  *)
(* that acts on it, while the target is edited in between; another that a  *)
(* command starts one recovery; that a mapping is what its profile         *)
(* declares; and, of the provider a command is bound to, that what it      *)
(* hands out it has retained, and what its plans contain.                  *)
(***************************************************************************)
EXTENDS HealEngine, AshBinding, SharedLemmas, TLAPS

-------------------------------------------------------------------------------
(* Lemmas about the semantic environment.                                  *)

(* The value bound by way of a set of one element is that element.         *)
LEMMA AnalyzeIs ==
  ASSUME NEW env, NEW in
  PROVE  Analyze(env, in) = AnalyzeProjection(env, in, Project(env, in))
BY DEF Analyze

(* Likewise for a plan.                                                    *)
LEMMA PlanIs ==
  ASSUME NEW env, NEW in
  PROVE  Plan(env, in) = PlanAnalysis(in, Analyze(env, in))
BY DEF Plan

(* An operation is planned exactly for the bits that differ.               *)
LEMMA NothingToInvert ==
  ASSUME NEW s \in States, NEW t \in States, InverseOperations(s, t) = {}
  PROVE  s = t
BY DEF InverseOperations, Xor, States

(* An analysis is of the observed document, and a selected witness of it   *)
(* leads to a state of the catalog.                                        *)
LEMMA AnalysisHolds ==
  ASSUME NEW env, NEW in, Analyze(env, in).ok
  PROVE  /\ Analyze(env, in) = Analysis(env, in, StateOf(in.observed))
         /\ in.path.status = "selected" => WitnessHolds(StateOf(in.observed), in.path)
<1>. DEFINE p == Project(env, in)
<1>1. p.ok /\ AnalyzeProjection(env, in, p) = Analysis(env, in, p.state)
      /\ (in.path.status = "selected" => WitnessHolds(p.state, in.path))
  <2>. HIDE DEF p
  <2>. QED  BY AnalyzeIs DEF AnalyzeProjection, Fault, p
<1>2. p = [ok |-> TRUE, state |-> StateOf(in.observed)]
  BY <1>1 DEF Project, Fault
<1>3. p.state = StateOf(in.observed)
  BY <1>2
<1>. HIDE DEF p
<1>4. Analyze(env, in) = Analysis(env, in, StateOf(in.observed))
  BY <1>1, <1>3, AnalyzeIs DEF p
<1>. QED  BY <1>1, <1>3, <1>4

(* Only an open lifecycle has a recovery that a plan can be made for, and  *)
(* none is needed exactly in the states of the catalog.                    *)
LEMMA RecoveryHolds ==
  ASSUME NEW env, NEW in, NEW s,
         Analysis(env, in, s).recovery \in Repairs \cup {"NO_ACTION"}
  PROVE  /\ ~in.halt /\ ~in.contained
         /\ Analysis(env, in, s).recovery = "NO_ACTION" <=> s \in Catalog
         /\ Analysis(env, in, s).class = "DEGRADED" => Candidates(env, s) # {}
<1>. DEFINE known == in.path.status = "selected"
            fallback == Candidates(env, s) # {}
            class == Classify(s, in, known, fallback)
<1>1. /\ Analysis(env, in, s).recovery = Escalated(RecoveryForClass(class), in)
      /\ Analysis(env, in, s).class = class
  BY DEF Analysis
<1>2. RecoveryForClass(class) \in Repairs \cup {"NO_ACTION"}
      /\ Escalated(RecoveryForClass(class), in) = RecoveryForClass(class)
  BY <1>1 DEF Escalated, Repairs
<1>3. class \in {"STABLE", "UNSTABLE", "CORRECTABLE", "DEGRADED", "CONTAINED", "FAILED", "SAFE_HALT"}
  BY DEF Classify, Admissibility
<1>4. class \notin {"CONTAINED", "SAFE_HALT"}
  BY <1>2, <1>3 DEF RecoveryForClass, Repairs
<1>5. ~in.halt /\ ~in.contained
  BY <1>4 DEF Classify
<1>6. RecoveryForClass(class) = "NO_ACTION" <=> class = "STABLE"
  BY <1>2, <1>3 DEF RecoveryForClass
<1>7. class = "STABLE" <=> s \in Catalog
  BY <1>5 DEF Classify, Admissibility
<1>8. class = "DEGRADED" => fallback
  BY <1>5 DEF Classify, Admissibility
<1>. QED  BY <1>1, <1>2, <1>5, <1>6, <1>7, <1>8

(* The first of some fallback entries is one of them.                      *)
LEMMA FirstHolds ==
  ASSUME NEW entries, \E f \in entries : \A g \in entries : f.rank <= g.rank
  PROVE  First(entries) \in entries
BY DEF First

(* What a plan with operations has passed: the checks of the submission    *)
(* and a rule that asks for a selected witness.                            *)
LEMMA AuthorizedHolds ==
  ASSUME NEW in, NEW a, NEW ops, Authorize(in, a, ops).ok
  PROVE  Authorize(in, a, ops) = Planned(a, ops) /\ a.witness
BY DEF Authorize, Fault, RuleAllows

(* The plan of a scenario, whose fallback registry has an order.           *)
Ordered(env) ==
  \A entries \in SUBSET env.registry :
    entries # {} => \E f \in entries : \A g \in entries : f.rank <= g.rank

(* A plan is only made for an open lifecycle.  One without operations is   *)
(* for a document that is in the catalog, one with operations for another  *)
(* and with a verified witness (SemanticEnvironment::plan).                *)
THEOREM PlanIsOpen ==
  ASSUME NEW env, NEW in, Ordered(env), Plan(env, in).ok
  PROVE  /\ ~in.halt /\ ~in.contained
         /\ Plan(env, in).ops = {} => StateOf(in.observed) \in Catalog
         /\ Plan(env, in).ops # {} => /\ StateOf(in.observed) \notin Catalog
                                     /\ in.path.status = "selected"
<1>. DEFINE a == Analyze(env, in)
            s == StateOf(in.observed)
            ops == InverseOperations(a.state, a.target)
<1>1. Plan(env, in) = PlanAnalysis(in, a)
  BY PlanIs
<1>2. a.ok
  BY <1>1 DEF PlanAnalysis
<1>3. a = Analysis(env, in, s) /\ (in.path.status = "selected" => WitnessHolds(s, in.path))
  BY <1>2, AnalysisHolds
<1>4. a.state = s /\ a.witness = (in.path.status = "selected")
  BY <1>3 DEF Analysis
<1>5. a.recovery \in Repairs \cup {"NO_ACTION"}
  BY <1>1, <1>2 DEF PlanAnalysis, Fault
<1>6. /\ ~in.halt /\ ~in.contained
      /\ a.recovery = "NO_ACTION" <=> s \in Catalog
      /\ a.class = "DEGRADED" => Candidates(env, s) # {}
  BY <1>3, <1>5, RecoveryHolds
<1>7. CASE a.recovery = "NO_ACTION"
  <2>1. Plan(env, in).ops = {}
    BY <1>1, <1>2, <1>7 DEF PlanAnalysis, Planned, Fault
  <2>. QED  BY <2>1, <1>6, <1>7
<1>8. CASE a.recovery # "NO_ACTION"
  <2>1. Plan(env, in) = PlanRepair(in, a, ops) /\ a.target # NoState
    BY <1>1, <1>2, <1>8 DEF PlanAnalysis, Fault, TargetSelected
  <2>2. ops # {} => Plan(env, in) = Authorize(in, a, ops)
    BY <2>1 DEF PlanRepair, Fault
  <2>3. ops # {} => Plan(env, in).ops = ops /\ a.witness
    BY <2>2, AuthorizedHolds DEF Planned
  <2>4. ASSUME ops = {} PROVE s \in Catalog
    <3>0. a.target \in Catalog => s = a.target
      <4>1. s \in States
        BY DEF StateOf, States
      <4>2. InverseOperations(s, a.target) = {}
        BY <2>4, <1>4
      <4>. HIDE DEF s, a
      <4>. QED  BY <4>1, <4>2, CatalogAssumption, NothingToInvert
    <3>1. CASE a.class = "DEGRADED"
      <4>1. Candidates(env, s) \subseteq {f \in env.registry : f.candidate \in Catalog}
        BY DEF Candidates
      <4>2. First(Candidates(env, s)) \in Candidates(env, s)
        BY <1>6, <3>1, <4>1, FirstHolds DEF Ordered
      <4>3. a.target = First(Candidates(env, s)).candidate
        BY <1>3, <3>1 DEF Analysis
      <4>4. a.target \in Catalog
        BY <4>1, <4>2, <4>3
      <4>. QED  BY <4>4, <3>0
    <3>2. CASE a.class # "DEGRADED"
      <4>1. a.target = in.path.target /\ in.path.status = "selected"
        BY <1>3, <2>1, <3>2 DEF Analysis
      <4>2. a.target \in Catalog
        BY <4>1, <1>3 DEF WitnessHolds
      <4>. QED  BY <4>2, <3>0
    <3>. QED  BY <3>1, <3>2
  <2>5. ops # {}
    BY <2>4, <1>6, <1>8
  <2>. QED  BY <2>3, <2>5, <1>4, <1>6, <1>8
<1>. QED  BY <1>7, <1>8

-------------------------------------------------------------------------------
(* The inductive invariant.                                                *)

(* The files have their shapes; what a command works on is a document.     *)
Files ==
  /\ scenario \in Scenarios
  /\ target = [document |-> target.document, id |-> target.id, version |-> target.version]
  /\ pc \in {"start", "captured"} => target.document \in Documents
  /\ pc = "captured" => seen.document \in Documents
  /\ "observed" \in DOMAIN request /\ request.observed \in Documents

(* A command that goes on with a plan has one, of the kind it goes on with.*)
PlanCarried ==
  LET p == Plan(Environment, request) IN
    /\ pc \in {"observe", "record", "recheck"} => p.ok /\ p.ops = {}
    /\ pc = "session" => p.ok /\ p.ops # {}

(* What is checked again is what was observed and what is recorded.        *)
Witnessed ==
  /\ pc \in {"record", "recheck"} => seen.document = request.observed
  /\ pc = "recheck" => recorded

(* Only a command at its end has a verdict, a good one only for an open    *)
(* lifecycle; documents without a request can be valid in any.             *)
Judged ==
  /\ pc \notin {"done", "exit"} => result.verdict = "none"
  /\ \/ result.verdict \in {"planned", "unchanged", "healed"}
     \/ result.verdict = "valid" /\ scenario.desired = "semantic"
     => ~request.halt /\ ~request.contained

IInv == Files /\ PlanCarried /\ Witnessed /\ Judged

-------------------------------------------------------------------------------
(* Lemmas about the steps.                                                 *)

(* A plan of this scenario is one PlanIsOpen speaks of.                    *)
LEMMA PlanOfScenario ==
  ASSUME Files, Plan(Environment, request).ok
  PROVE  /\ ~request.halt /\ ~request.contained
         /\ Plan(Environment, request).ops = {} => StateOf(request.observed) \in Catalog
         /\ Plan(Environment, request).ops # {} =>
              StateOf(request.observed) \notin Catalog /\ request.path.status = "selected"
<1>1. Ordered(Environment)
  BY ScenariosAssumption DEF Files, Environment, Ordered
<1>. QED  BY <1>1, PlanIsOpen

(* Without operations nothing is expected to change.                       *)
LEMMA NothingExpected ==
  ASSUME NEW document \in Documents
  PROVE  ExpectedDocument(document, {}) = document
BY DEF ExpectedDocument, Documents

(* A document that verifies as a state of the catalog is in it.            *)
LEMMA VerifiedHolds ==
  ASSUME NEW document, NEW state, "observed" \in DOMAIN request, VerifiesAs(document, state)
  PROVE  StateOf(document) \in Catalog
<1>. DEFINE in == [request EXCEPT !.observed = document]
<1>1. Project(Environment, in).ok => Project(Environment, in).state = StateOf(in.observed)
  BY DEF Project, Fault
<1>2. in.observed = document
  OBVIOUS
<1>3. Project(Environment, in).ok /\ Project(Environment, in).state \in Catalog
  BY DEF VerifiesAs
<1>. QED  BY <1>1, <1>2, <1>3

(* validate calls a document valid only for an open lifecycle.             *)
LEMMA ValidIsOpen ==
  ASSUME ValidateSemantic.verdict = "valid"
  PROVE  ~request.halt /\ ~request.contained
<1>. DEFINE a == Analyze(Environment, request)
<1>1. a.ok /\ a.class = "STABLE"
  <2>. HIDE DEF a
  <2>. QED  BY DEF ValidateSemantic, Failed, Succeeded, a
<1>2. a.class = Classify(StateOf(request.observed), request, request.path.status = "selected",
                         Candidates(Environment, StateOf(request.observed)) # {})
  <2>1. a = Analysis(Environment, request, StateOf(request.observed))
    BY <1>1, AnalysisHolds
  <2>. HIDE DEF a
  <2>. QED  BY <2>1 DEF Analysis
<1>. HIDE DEF a
<1>. QED  BY <1>1, <1>2 DEF Classify

-------------------------------------------------------------------------------
(* The invariant holds at the start and after every step.                  *)

LEMMA InitInvariant == Init => IInv
<1>. SUFFICES ASSUME Init PROVE IInv
  OBVIOUS
<1>1. Files
  BY ScenariosAssumption DEF Init, Files
<1>2. PlanCarried /\ Witnessed
  BY DEF Init, PlanCarried, Witnessed
<1>3. Judged
  BY DEF Init, Judged, Succeeded
<1>. QED  BY <1>1, <1>2, <1>3 DEF IInv

LEMMA StepInvariant == IInv /\ [Next]_vars => IInv'
<1>. SUFFICES ASSUME IInv, [Next]_vars PROVE IInv'
  OBVIOUS
<1>. USE DEF IInv
<1>1. CASE ParseArguments
  <2>1. Files'
    BY <1>1 DEF ParseArguments, Files, inputs
  <2>2. PlanCarried' /\ Witnessed'
    BY <1>1 DEF ParseArguments, PlanCarried, Witnessed
  <2>3. Judged'
    BY <1>1 DEF ParseArguments, Judged, inputs
  <2>. QED  BY <2>1, <2>2, <2>3
<1>2. CASE CaptureTarget
  <2>1. Files'
    BY <1>2 DEF CaptureTarget, Files, Seen
  <2>2. PlanCarried' /\ Witnessed'
    BY <1>2 DEF CaptureTarget, PlanCarried, Witnessed
  <2>3. Judged'
    BY <1>2 DEF CaptureTarget, Judged
  <2>. QED  BY <2>1, <2>2, <2>3
<1>3. CASE BindRequest
  <2>1. Files'
    BY <1>3 DEF BindRequest, Files, Finish
  <2>2. PlanCarried' /\ Witnessed'
    BY <1>3 DEF BindRequest, PlanCarried, Witnessed, Finish
  <2>3. Judged'
    BY <1>3 DEF BindRequest, Judged, Finish, Failed
  <2>. QED  BY <2>1, <2>2, <2>3
<1>4. CASE Report
  <2>1. Files'
    BY <1>4 DEF Report, Files, inputs
  <2>2. PlanCarried' /\ Witnessed'
    BY <1>4 DEF Report, PlanCarried, Witnessed
  <2>3. Judged'
    BY <1>4 DEF Report, Judged, inputs
  <2>. QED  BY <2>1, <2>2, <2>3
<1>5. CASE Validate
  <2>1. Files'
    BY <1>5 DEF Validate, Files, inputs, Finish
  <2>2. PlanCarried' /\ Witnessed'
    BY <1>5 DEF Validate, PlanCarried, Witnessed, Finish
  <2>3. ValidateSemantic.verdict \in {"failed", "valid", "drift"}
    BY DEF ValidateSemantic, Failed, Succeeded
  <2>4. scenario.desired # "semantic" => ValidateSurface.verdict \in {"failed", "valid", "drift"}
    BY ScenariosAssumption DEF ValidateSurface, Failed, Succeeded, Files
  <2>5. CASE scenario.desired = "semantic"
    <3>1. result' = ValidateSemantic /\ pc' = "done" /\ UNCHANGED inputs
      BY <1>5, <2>5 DEF Validate, Finish
    <3>. QED  BY <3>1, <2>1, <2>2, <2>3, <2>5, ValidIsOpen DEF Judged, inputs
  <2>6. CASE scenario.desired # "semantic"
    <3>1. result' = ValidateSurface /\ pc' = "done" /\ UNCHANGED inputs
      BY <1>5, <2>6 DEF Validate, Finish
    <3>. QED  BY <3>1, <2>1, <2>2, <2>4, <2>6 DEF Judged, inputs
  <2>. QED  BY <2>1, <2>2, <2>5, <2>6
<1>6. CASE Diff
  <2>1. Files'
    BY <1>6 DEF Diff, Files, inputs, Finish
  <2>2. PlanCarried' /\ Witnessed'
    BY <1>6 DEF Diff, PlanCarried, Witnessed, Finish
  <2>3. result'.verdict \in {"failed", "thrown", "planned"}
    BY <1>6, ScenariosAssumption DEF Diff, DiffSemantic, Finish, Failed, Succeeded, Files
  <2>4. result'.verdict = "planned" => Plan(Environment, request).ok
    BY <1>6, ScenariosAssumption DEF Diff, DiffSemantic, Finish, Failed, Succeeded, Files
  <2>. QED  BY <2>1, <2>2, <2>3, <2>4, <1>6, PlanOfScenario DEF Judged, Diff, inputs, Finish
<1>7. CASE Heal
  <2>1. Files'
    BY <1>7 DEF Heal, Files, inputs, Finish
  <2>2. PlanCarried' /\ Witnessed'
    BY <1>7 DEF Heal, PlanCarried, Witnessed, inputs, Environment, Finish
  <2>3. Judged'
    <3>1. \/ result'.verdict = "failed"
          \/ result' = result /\ pc = "command"
      <4>1. \A code, mutation : Failed(code, mutation).verdict = "failed"
        BY DEF Failed
      <4>. QED  BY <1>7, <4>1 DEF Heal, Finish
    <3>. QED  BY <3>1, <1>7 DEF Judged, Heal, inputs, Finish
  <2>. QED  BY <2>1, <2>2, <2>3
<1>8. CASE ObserveUnchanged
  <2>1. Files'
    BY <1>8 DEF ObserveUnchanged, Files, inputs, Finish
  <2>2. PlanCarried' /\ Witnessed'
    BY <1>8 DEF ObserveUnchanged, PlanCarried, Witnessed, inputs, Environment, Finish, Stale, Seen
  <2>3. Judged'
    BY <1>8 DEF ObserveUnchanged, Judged, inputs, Finish, Failed
  <2>. QED  BY <2>1, <2>2, <2>3
<1>9. CASE RecordUnchanged
  <2>1. Files'
    BY <1>9 DEF RecordUnchanged, Files, inputs, Finish
  <2>2. PlanCarried' /\ Witnessed'
    BY <1>9 DEF RecordUnchanged, PlanCarried, Witnessed, inputs, Environment, Finish
  <2>3. Judged'
    BY <1>9 DEF RecordUnchanged, Judged, inputs, Finish, Failed
  <2>. QED  BY <2>1, <2>2, <2>3
<1>10. CASE RecheckUnchanged
  <2>1. Files'
    BY <1>10 DEF RecheckUnchanged, Files, inputs, Finish
  <2>2. PlanCarried' /\ Witnessed'
    BY <1>10 DEF RecheckUnchanged, PlanCarried, Witnessed, Finish
  <2>3. ~request.halt /\ ~request.contained
    BY <1>10, PlanOfScenario DEF RecheckUnchanged, PlanCarried
  <2>4. Judged'
    BY <1>10, <2>3 DEF RecheckUnchanged, Judged, inputs, Finish
  <2>. QED  BY <2>1, <2>2, <2>4
<1>11. CASE RunSession
  <2>1. Files'
    BY <1>11 DEF RunSession, Files, inputs, Finish
  <2>2. PlanCarried' /\ Witnessed'
    BY <1>11 DEF RunSession, PlanCarried, Witnessed, Finish
  <2>3. ~request.halt /\ ~request.contained
    BY <1>11, PlanOfScenario DEF RunSession, PlanCarried
  <2>4. Judged'
    BY <1>11, <2>3 DEF RunSession, Judged, inputs, Finish
  <2>. QED  BY <2>1, <2>2, <2>4
<1>12. CASE EditTarget
  <2>1. Files'
    BY <1>12, EditsAssumption DEF EditTarget, Files, inputs
  <2>2. PlanCarried' /\ Witnessed'
    BY <1>12 DEF EditTarget, PlanCarried, Witnessed, inputs, Environment
  <2>3. Judged'
    BY <1>12 DEF EditTarget, Judged, inputs
  <2>. QED  BY <2>1, <2>2, <2>3
<1>13. CASE UNCHANGED vars
  BY <1>13 DEF vars, inputs, Files, PlanCarried, Witnessed, Judged, Environment
<1>. QED  BY <1>1, <1>2, <1>3, <1>4, <1>5, <1>6, <1>7, <1>8, <1>9, <1>10, <1>11, <1>12,
             <1>13 DEF Next, EngineStep

-------------------------------------------------------------------------------
(* The theorems.                                                           *)

(* The invariant holds in every reachable state.                           *)
LEMMA Invariant == Spec => []IInv
<1>1. Init => IInv
  BY InitInvariant
<1>2. IInv /\ [Next]_vars => IInv'
  BY StepInvariant
<1>. QED  BY <1>1, <1>2, PTL DEF Spec

(* No command of a halted or contained lifecycle comes to a session, a     *)
(* plan or a verdict of health (HealingEngine.cpp, SemanticMapping.cpp).   *)
THEOREM TerminalHolds == Spec => []TerminalStaysTerminal
<1>1. IInv => TerminalStaysTerminal
  <2>. SUFFICES ASSUME IInv, request.halt \/ request.contained PROVE
         /\ pc # "session"
         /\ scenario.desired = "semantic" =>
              result.verdict \notin {"valid", "planned", "unchanged", "healed"}
    BY DEF TerminalStaysTerminal
  <2>1. pc # "session"
    BY PlanOfScenario DEF IInv, PlanCarried
  <2>2. scenario.desired = "semantic" =>
          result.verdict \notin {"valid", "planned", "unchanged", "healed"}
    BY DEF IInv, Judged
  <2>. QED  BY <2>1, <2>2
<1>. QED  BY <1>1, Invariant, PTL

(* A step that decides for success is the last one of the read-only        *)
(* lifecycle or a session that verified its own work.                      *)
LEMMA DecidedBy ==
  ASSUME IInv, [Next]_vars, result.verdict = "none",
         result'.verdict \in {"unchanged", "healed"}
  PROVE  (RecheckUnchanged /\ Seen = seen) \/ RunSession
<1>. USE DEF Finish
<1>1. \A code, mutation : Failed(code, mutation).verdict = "failed"
  BY DEF Failed
<1>2. ~ParseArguments /\ ~CaptureTarget /\ ~BindRequest /\ ~Report
  BY <1>1 DEF ParseArguments, CaptureTarget, BindRequest, Report
<1>3. ~Validate
  <2>1. ValidateSemantic.verdict \in {"failed", "valid", "drift"}
    BY DEF ValidateSemantic, Failed, Succeeded
  <2>2. scenario.desired # "semantic" => ValidateSurface.verdict \in {"failed", "valid", "drift"}
    BY ScenariosAssumption DEF ValidateSurface, Failed, Succeeded, IInv, Files
  <2>. QED  BY <2>1, <2>2 DEF Validate
<1>4. ~Diff
  <2>1. DiffSemantic.verdict \in {"failed", "planned"}
    BY DEF DiffSemantic, Failed, Succeeded
  <2>2. Failed("BLOCKED", "NOT_STARTED").verdict = "failed"
        /\ Succeeded("thrown", "NOT_STARTED").verdict = "thrown"
    BY DEF Failed, Succeeded
  <2>3. scenario.desired \in {"semantic", "surface", "unreadable"}
    BY ScenariosAssumption DEF IInv, Files
  <2>. QED  BY <2>1, <2>2, <2>3 DEF Diff
<1>5. ~Heal /\ ~ObserveUnchanged /\ ~RecordUnchanged
  BY <1>1 DEF Heal, ObserveUnchanged, RecordUnchanged
<1>6. ~EditTarget /\ ~UNCHANGED vars
  BY DEF EditTarget, vars
<1>7. RecheckUnchanged => Seen = seen
  BY <1>1 DEF RecheckUnchanged
<1>. QED  BY <1>2, <1>3, <1>4, <1>5, <1>6, <1>7 DEF Next, EngineStep

(* A success is true of the target when it is decided, whatever was        *)
(* written to it before (HealingEngine.cpp:149, NativeExecutionSession).   *)
THEOREM SuccessHolds == Spec => SuccessIsCurrent
<1>. DEFINE p == Plan(Environment, request)
            Current == /\ StateOf(target'.document) \in Catalog
                       /\ target'.document = ExpectedDocument(request.observed, p.ops)
                       /\ recorded'
            Decided == /\ result'.verdict \in {"unchanged", "healed"}
                       /\ result.verdict = "none"
<1>1. ASSUME IInv, [Next]_vars, Decided PROVE Current
  <2>1. CASE RecheckUnchanged /\ Seen = seen
    <3>1. target' = target /\ recorded' /\ target.document = request.observed
      BY <1>1, <2>1 DEF RecheckUnchanged, IInv, Witnessed, Seen
    <3>2. p.ok /\ p.ops = {} /\ request.observed \in Documents
      BY <1>1, <2>1 DEF RecheckUnchanged, IInv, PlanCarried, Files
    <3>3. StateOf(request.observed) \in Catalog
      BY <1>1, <3>2, PlanOfScenario DEF IInv
    <3>. QED  BY <3>1, <3>2, <3>3, NothingExpected
  <2>2. CASE RunSession
    <3>. DEFINE expected == ExpectedDocument(request.observed, p.ops)
    <3>1. /\ VerifiesAs(expected, p.analysis.target)
          /\ target' = [target EXCEPT !.document = expected, !.version = @ + 1]
          /\ recorded' = TRUE
      <4>1. \A code, mutation : Failed(code, mutation).verdict = "failed"
        BY DEF Failed
      <4>2. result'.verdict # "failed"
        BY <1>1
      <4>3. \A code, mutation : ~Finish(Failed(code, mutation))
        BY <4>1, <4>2 DEF Finish
      <4>. HIDE DEF p, expected
      <4>. QED  BY <2>2, <4>3 DEF RunSession, p, expected
    <3>2. target'.document = expected
      BY <1>1, <3>1 DEF IInv, Files
    <3>. QED  BY <1>1, <3>1, <3>2, VerifiedHolds DEF IInv, Files
  <2>. QED  BY <1>1, <2>1, <2>2, DecidedBy
<1>2. IInv /\ [Next]_vars => [Decided => Current]_vars
  BY <1>1
<1>. QED  BY <1>2, Invariant, PTL DEF Spec, SuccessIsCurrent

(* The engine changes only the very file, version and content a request    *)
(* was bound to, for an open lifecycle, with a selected witness, and no    *)
(* document that is recognized as valid (NativeRequestBinding.cpp:14).     *)
THEOREM OnlyAuthorisedSteps == Spec => OnlyAuthorised
<1>. DEFINE Authorised == /\ target.document = request.observed
                          /\ bound = [id |-> target.id, version |-> target.version]
                          /\ request.path.status = "selected"
                          /\ ~request.halt /\ ~request.contained
                          /\ StateOf(target.document) \notin Catalog
<1>1. ASSUME IInv, EngineStep, target' # target PROVE Authorised
  <2>1. RunSession
    BY <1>1 DEF EngineStep, ParseArguments, CaptureTarget, BindRequest, Report, Validate, Diff,
      Heal, ObserveUnchanged, RecordUnchanged, RecheckUnchanged
  <2>2. Fresh
    BY <1>1, <2>1 DEF RunSession
  <2>3. Plan(Environment, request).ok /\ Plan(Environment, request).ops # {}
    BY <1>1, <2>1 DEF RunSession, IInv, PlanCarried
  <2>. QED  BY <1>1, <2>2, <2>3, PlanOfScenario DEF IInv, Fresh, Stale
<1>2. IInv /\ [Next]_vars => [EngineStep /\ target' # target => Authorised]_vars
  BY <1>1
<1>. QED  BY <1>2, Invariant, PTL DEF Spec, OnlyAuthorised

-------------------------------------------------------------------------------
(* The code: exclusive or, and what words of the code make of a state.     *)

LEMMA XorAlgebra ==
  ASSUME NEW s, NEW t, NEW u
  PROVE  /\ Xor(s, {}) = s /\ Xor(s, s) = {} /\ Xor(s, t) = Xor(t, s)
         /\ Xor(Xor(s, t), u) = Xor(s, Xor(t, u))
         /\ Xor(Xor(s, t), Xor(s, u)) = Xor(t, u)
BY DEF Xor

(* A codeword keeps a state in its orbit, and two recognized states of one *)
(* orbit are the same.                                                     *)
LEMMA OrbitClosed ==
  ASSUME NEW s, NEW t \in Orbit(s), NEW c \in Codewords
  PROVE  Xor(t, c) \in Orbit(s)
<1>1. PICK d \in Codewords : t = Xor(s, d)
  BY DEF Orbit
<1>2. Xor(t, c) = Xor(s, Xor(d, c))
  BY <1>1, XorAlgebra
<1>. QED  BY <1>2, LinearAssumption DEF Orbit

LEMMA OrbitOwn ==
  ASSUME NEW s
  PROVE  s \in Orbit(s)
BY XorAlgebra, LinearAssumption DEF Orbit

LEMMA OrbitApart ==
  ASSUME NEW s, NEW t \in Orbit(s) \cap Catalog, NEW u \in Orbit(s) \cap Catalog
  PROVE  t = u
<1>1. PICK c \in Codewords : t = Xor(s, c)
  BY DEF Orbit
<1>2. PICK d \in Codewords : u = Xor(s, d)
  BY DEF Orbit
<1>3. Xor(t, u) = Xor(c, d)
  BY <1>1, <1>2, XorAlgebra
<1>. QED  BY <1>3, LinearAssumption, ApartAssumption

(* What a sequence of codewords composes a state to lies in its orbit.     *)
LEMMA ComposedInOrbit ==
  ASSUME NEW s, NEW words, words \in Seq(Range(words)), Range(words) \subseteq Codewords
  PROVE  Compose(s, words) \in Orbit(s)
<1>. DEFINE n == Len(words)
            V == Orbit(s)
            F == [p \in V \X (1..n) |-> Xor(p[1], words[p[2]])]
            Step(h) == [t \in SUBSET (1..n) |->
                          IF t = {} THEN s ELSE Xor(h[t \ {Max(t)}], words[Max(t)])]
            iter == CHOOSE h : h = Step(h)
<1>1. n \in Nat /\ DOMAIN words = 1..n /\ \A i \in 1..n : words[i] \in Codewords
  <2>1. n \in Nat /\ DOMAIN words = 1..n /\ \A i \in 1..n : words[i] \in Range(words)
    BY LenProperties, ElementOfSeq
  <2>. QED  BY <2>1
<1>2. F \in [V \X (1..n) -> V] /\ s \in V
  <2>1. \A p \in V \X (1..n) : p[1] \in V /\ p[2] \in 1..n
    OBVIOUS
  <2>2. \A p \in V \X (1..n) : Xor(p[1], words[p[2]]) \in V
    <3>. HIDE DEF V, n
    <3>. QED  BY <1>1, <2>1, OrbitClosed DEF V
  <2>3. s \in V
    BY OrbitOwn
  <2>. HIDE DEF V, n
  <2>. QED  BY <2>2, <2>3
<1>3. Compose(s, words) = iter[1..n]
  BY <1>1 DEF Compose, FoldLeft, MapThenFoldSet
<1>4. PICK g \in [SUBSET (1..n) -> V] : IsFold(g, s, n, F)
  <2>1. n \in Nat
    BY <1>1
  <2>. HIDE DEF n, F, V
  <2>. QED  BY <1>2, <2>1, FoldExists
<1>5. g = Step(g)
  <2>1. ASSUME NEW t \in SUBSET (1..n), t # {}
        PROVE  g[t] = Xor(g[t \ {Max(t)}], words[Max(t)])
    <3>1. Max(t) \in 1..n /\ g[t \ {Max(t)}] \in V
      <4>. HIDE DEF n, V
      <4>. QED  BY <1>1, <2>1, MaxInside
    <3>. HIDE DEF V, n
    <3>. QED  BY <1>4, <2>1, <3>1 DEF IsFold
  <2>. HIDE DEF V, n, F
  <2>. QED  BY <1>4, <2>1 DEF IsFold
<1>6. iter = Step(iter)
  <2>. HIDE DEF Step
  <2>. QED  BY <1>5
<1>7. iter[{}] = s /\ \A m \in 1..n : iter[1..m] = Xor(iter[1..(m - 1)], words[m])
  <2>. HIDE DEF n, iter
  <2>1. {} \in SUBSET (1..n) /\ \A m \in 1..n : 1..m \in SUBSET (1..n)
    BY <1>1
  <2>2. \A t \in SUBSET (1..n) :
          iter[t] = IF t = {} THEN s ELSE Xor(iter[t \ {Max(t)}], words[Max(t)])
    BY <1>6, Zenon
  <2>3. \A m \in 1..n : m \in Nat \ {0}
    BY <1>1
  <2>. QED  BY <2>1, <2>2, <2>3, IntervalStep
<1>8. FoldsBy(iter, V, s, n, F)
  <2>. HIDE DEF iter, V
  <2>. QED  BY <1>7 DEF FoldsBy
<1>9. n \in Nat /\ n \in 0..n
  BY <1>1
<1>10. iter[1..n] \in V
  <2>. HIDE DEF n, F, V, iter
  <2>. QED  BY <1>2, <1>8, <1>9, FoldStays
<1>. QED  BY <1>3, <1>10

-------------------------------------------------------------------------------
(* The ASH binding provider.  Answers have a shape: the chains they retain,*)
(* an outcome and, if any, a plan that carries what it refers to and ends  *)
(* in the recognized state of its seed's orbit.                            *)

ChainKinds == {"admissibility", "diagnosis", "codeword", "realm", "transition", "topology",
               "axiom", "generation", "emission"}
Chains == [kind : ChainKinds, state : States, word : States, n : 0..8]
Outcomes == {"ok", "BLOCKED", "FAILED", "AMBIGUOUS"}

PlanHolds(plan) ==
  /\ plan.seed \in States
  /\ plan.chains \in Seq(Chains) /\ plan.references \subseteq Range(plan.chains)
  /\ plan.transformed = plan.normalized /\ plan.normalized \in Orbit(plan.seed) \cap Catalog

AnswerHolds(a) ==
  /\ a = [chains |-> a.chains, outcome |-> a.outcome, plan |-> a.plan]
  /\ a.chains \in Seq(Chains) /\ a.outcome \in Outcomes
  /\ a.plan = NoPlan \/ PlanHolds(a.plan)

LEMMA ChainHolds ==
  ASSUME NEW kind \in ChainKinds, NEW s \in States, NEW word \in Codewords \cup {{}}, NEW n \in 0..8
  PROVE  Chain(kind, s, word, n) \in Chains
BY CodeAssumption DEF Chain, Chains, States

(* A call that fails, and one that retains some chains.                    *)
LEMMA FailHolds ==
  ASSUME NEW code \in Outcomes
  PROVE  AnswerHolds(Fails(code)) /\ Fails(code).chains = <<>> /\ Fails(code).outcome = code
<1>1. <<>> \in Seq(Chains)
  BY EmptySeq
<1>. QED  BY <1>1 DEF AnswerHolds, Fails, Answer

LEMMA GiveHolds ==
  ASSUME NEW chains \in Seq(Chains), NEW outcome \in Outcomes
  PROVE  /\ AnswerHolds(Answer(chains, outcome))
         /\ Answer(chains, outcome).outcome = outcome
         /\ Answer(chains, outcome).chains = chains
BY DEF AnswerHolds, Answer

LEMMA OneChain ==
  ASSUME NEW c \in Chains
  PROVE  <<c>> \in Seq(Chains) /\ Len(<<c>>) = 1 /\ <<c>>[1] = c
OBVIOUS

(* What an analysis may end with.                                          *)
LEMMA AnalysisCode ==
  ASSUME NEW env, NEW in, ~Analyze(env, in).ok
  PROVE  Analyze(env, in).code \in Outcomes \ {"ok"}
<1>. DEFINE p == Project(env, in)
<1>1. Mapping(env, in) \in {"MAPPED", "BLOCKED", "FAILED", "AMBIGUOUS"}
  BY DEF Mapping, Worst
<1>2. ~p.ok => p.code \in Outcomes \ {"ok"}
  BY <1>1 DEF Project, Fault, Outcomes
<1>3. Analyze(env, in) = AnalyzeProjection(env, in, p)
  BY AnalyzeIs
<1>. HIDE DEF p
<1>4. Analysis(env, in, p.state).ok
  BY DEF Analysis
<1>. QED  BY <1>2, <1>3, <1>4 DEF AnalyzeProjection, Fault, Outcomes

LEMMA ContextHolds ==
  ASSUME NEW s
  PROVE  ContextOutcome(s) \in Outcomes
<1>. DEFINE a == Analyze(bindings.env, bindings.request)
<1>1. ~a.ok => a.code \in Outcomes
  BY AnalysisCode
<1>. HIDE DEF a
<1>. QED  BY <1>1 DEF ContextOutcome, Outcomes, a

LEMMA RealmHolds ==
  ASSUME NEW s
  PROVE  /\ AnswerHolds(Realm(s)) /\ Realm(s).plan = NoPlan
         /\ Realm(s).outcome = "ok" <=> s \in Catalog
         /\ s \in Catalog => /\ Len(Realm(s).chains) = 1
                             /\ Realm(s).chains = <<Chain("realm", s, {}, 0)>>
<1>1. CASE s \in Catalog
  <2>1. Chain("realm", s, {}, 0) \in Chains
    BY <1>1, CatalogAssumption, ChainHolds DEF ChainKinds
  <2>. QED  BY <1>1, <2>1, OneChain, GiveHolds DEF Realm, Gives, Outcomes, Answer
<1>2. CASE s \notin Catalog
  BY <1>2, FailHolds DEF Realm, Outcomes, Fails, Answer
<1>. QED  BY <1>1, <1>2

LEMMA TransitionHolds ==
  ASSUME NEW registry, NEW s, NEW id
  PROVE  /\ AnswerHolds(Transition(registry, s, id))
         /\ Transition(registry, s, id).outcome = "ok" =>
              s \in Catalog /\ Transition(registry, s, id).chains[1].word \in Codewords
<1>1. ASSUME NEW t, s \in Catalog, t.word \in Codewords
      PROVE  /\ AnswerHolds(Gives(<<Chain("transition", s, t.word, 0)>>))
             /\ Gives(<<Chain("transition", s, t.word, 0)>>).chains[1].word = t.word
  <2>1. Chain("transition", s, t.word, 0) \in Chains
    BY <1>1, CatalogAssumption, ChainHolds DEF ChainKinds
  <2>2. Chain("transition", s, t.word, 0).word = t.word
    BY DEF Chain
  <2>3. /\ AnswerHolds(Gives(<<Chain("transition", s, t.word, 0)>>))
        /\ Gives(<<Chain("transition", s, t.word, 0)>>).chains = <<Chain("transition", s, t.word, 0)>>
    BY <2>1, OneChain, GiveHolds DEF Gives, Outcomes
  <2>. QED  BY <2>2, <2>3
<1>2. \A code \in {"BLOCKED", "FAILED"} :
        AnswerHolds(Fails(code)) /\ Fails(code).outcome # "ok"
  BY FailHolds DEF Outcomes
<1>. DEFINE entries == {t \in registry : t.id = id}
            first   == CHOOSE t \in entries : TRUE
            given   == Gives(<<Chain("transition", s, first.word, 0)>>)
<1>3. Transition(registry, s, id) \in {Fails("BLOCKED"), Fails("FAILED")}
      \/ (s \in Catalog /\ first.word \in Codewords /\ Transition(registry, s, id) = given)
  BY DEF Transition
<1>. HIDE DEF first
<1>4. s \in Catalog /\ first.word \in Codewords =>
        AnswerHolds(given) /\ given.chains[1].word = first.word
  BY <1>1
<1>. HIDE DEF given
<1>. QED  BY <1>2, <1>3, <1>4

LEMMA TopologyHolds ==
  ASSUME NEW s, NEW depth
  PROVE  AnswerHolds(Topology(s, depth))
<1>1. \A code \in {"BLOCKED", "FAILED"} : AnswerHolds(Fails(code))
  BY FailHolds DEF Outcomes
<1>2. CASE Topology(s, depth) \in {Fails("BLOCKED"), Fails("FAILED")}
  BY <1>1, <1>2
<1>3. CASE s \in Catalog /\ depth \in 0..8 /\ Topology(s, depth) = Gives(<<Chain("topology", s, {}, depth)>>)
  <2>1. Chain("topology", s, {}, depth) \in Chains
    BY <1>3, CatalogAssumption, ChainHolds DEF ChainKinds
  <2>2. AnswerHolds(Gives(<<Chain("topology", s, {}, depth)>>))
    BY <2>1, OneChain, GiveHolds DEF Gives, Outcomes
  <2>. QED  BY <1>3, <2>2
<1>. QED  BY <1>2, <1>3 DEF Topology

LEMMA AxiomsHold ==
  ASSUME NEW s \in States, NEW subject
  PROVE  AnswerHolds(Axioms(s, subject))
<1>1. \A code \in {"BLOCKED", "FAILED"} : AnswerHolds(Fails(code))
  BY FailHolds DEF Outcomes
<1>2. [i \in 1..5 |-> Chain("axiom", s, {}, i)] \in Seq(Chains)
  <2>1. \A i \in 1..5 : Chain("axiom", s, {}, i) \in Chains
    BY ChainHolds DEF ChainKinds
  <2>. QED  BY <2>1
<1>. QED  BY <1>1, <1>2, GiveHolds DEF Axioms, Gives, Outcomes

(* The transitions of a generation, one after the other: as each starts in *)
(* a recognized state and follows a codeword, they do not leave the orbit. *)
Walks(s) == [outcome : Outcomes, state : Orbit(s), chains : Seq(Chains)]

Taken(registry, acc, id) ==
  IF acc.outcome # "ok" THEN acc
  ELSE IF Cardinality({t \in registry : t.id = id}) > 1
  THEN [acc EXCEPT !.outcome = "FAILED"]
  ELSE LET a == Transition(registry, acc.state, id) IN
       IF a.outcome # "ok" THEN [acc EXCEPT !.outcome = a.outcome]
       ELSE [outcome |-> "ok", state |-> Xor(acc.state, a.chains[1].word),
             chains |-> acc.chains \o a.chains]

LEMMA TakenHolds ==
  ASSUME NEW s, NEW registry, NEW acc \in Walks(s), NEW id
  PROVE  Taken(registry, acc, id) \in Walks(s)
<1>. DEFINE a == Transition(registry, acc.state, id)
<1>1. AnswerHolds(a) /\ (a.outcome = "ok" => a.chains[1].word \in Codewords)
  BY TransitionHolds
<1>. HIDE DEF a
<1>2. a.chains \in Seq(Chains) /\ a.outcome \in Outcomes
  BY <1>1 DEF AnswerHolds
<1>3. acc.state \in Orbit(s) /\ acc.chains \in Seq(Chains)
      /\ acc = [outcome |-> acc.outcome, state |-> acc.state, chains |-> acc.chains]
  BY DEF Walks
<1>4. acc.chains \o a.chains \in Seq(Chains)
  BY <1>2, <1>3, ConcatProperties
<1>5. a.outcome = "ok" => Xor(acc.state, a.chains[1].word) \in Orbit(s)
  BY <1>1, <1>3, OrbitClosed
<1>6. [acc EXCEPT !.outcome = "FAILED"] \in Walks(s) /\ [acc EXCEPT !.outcome = a.outcome] \in Walks(s)
  BY <1>2 DEF Walks, Outcomes
<1>7. a.outcome = "ok" =>
        [outcome |-> "ok", state |-> Xor(acc.state, a.chains[1].word),
         chains |-> acc.chains \o a.chains] \in Walks(s)
  BY <1>4, <1>5 DEF Walks, Outcomes
<1>. QED  BY <1>6, <1>7 DEF Taken, a

LEMMA WalkHolds ==
  ASSUME NEW s, NEW registry, NEW ids, ids \in Seq(Range(ids))
  PROVE  Walk(registry, s, ids) \in Walks(s)
<1>. DEFINE n == Len(ids)
            V == Walks(s)
            base == [outcome |-> "ok", state |-> s, chains |-> <<>>]
            F == [p \in V \X (1..n) |-> Taken(registry, p[1], ids[p[2]])]
            Step(h) == [t \in SUBSET (1..n) |->
                          IF t = {} THEN base
                          ELSE Taken(registry, h[t \ {Max(t)}], ids[Max(t)])]
            iter == CHOOSE h : h = Step(h)
<1>1. n \in Nat /\ DOMAIN ids = 1..n
  BY LenProperties
<1>2. F \in [V \X (1..n) -> V] /\ base \in V
  <2>1. \A p \in V \X (1..n) : Taken(registry, p[1], ids[p[2]]) \in V
    <3>1. \A p \in V \X (1..n) : p[1] \in Walks(s)
      OBVIOUS
    <3>. QED  BY <3>1, TakenHolds
  <2>2. base \in V
    BY OrbitOwn, EmptySeq DEF Walks, Outcomes
  <2>. HIDE DEF V, n, base
  <2>. QED  BY <2>1, <2>2
<1>3. Walk(registry, s, ids) = iter[1..n]
  BY <1>1 DEF Walk, Taken, FoldLeft, MapThenFoldSet
<1>4. PICK g \in [SUBSET (1..n) -> V] : IsFold(g, base, n, F)
  <2>1. n \in Nat
    BY <1>1
  <2>. HIDE DEF n, F, V, base
  <2>. QED  BY <1>2, <2>1, FoldExists
<1>5. g = Step(g)
  <2>1. ASSUME NEW t \in SUBSET (1..n), t # {}
        PROVE  g[t] = Taken(registry, g[t \ {Max(t)}], ids[Max(t)])
    <3>1. Max(t) \in 1..n /\ g[t \ {Max(t)}] \in V
      <4>. HIDE DEF n, V
      <4>. QED  BY <1>1, <2>1, MaxInside
    <3>. HIDE DEF V, n, base
    <3>. QED  BY <1>4, <2>1, <3>1 DEF IsFold
  <2>. HIDE DEF V, n, F, base
  <2>. QED  BY <1>4, <2>1 DEF IsFold
<1>6. iter = Step(iter)
  <2>. HIDE DEF Step
  <2>. QED  BY <1>5
<1>7. iter[{}] = base /\ \A m \in 1..n : iter[1..m] = Taken(registry, iter[1..(m - 1)], ids[m])
  <2>. HIDE DEF n, iter, base
  <2>1. {} \in SUBSET (1..n) /\ \A m \in 1..n : 1..m \in SUBSET (1..n)
    BY <1>1
  <2>2. \A t \in SUBSET (1..n) :
          iter[t] = IF t = {} THEN base ELSE Taken(registry, iter[t \ {Max(t)}], ids[Max(t)])
    BY <1>6, Zenon
  <2>3. \A m \in 1..n : m \in Nat \ {0}
    BY <1>1
  <2>. QED  BY <2>1, <2>2, <2>3, IntervalStep
<1>8. FoldsBy(iter, V, base, n, F)
  <2>. HIDE DEF iter, V, base
  <2>. QED  BY <1>7 DEF FoldsBy
<1>9. n \in Nat /\ n \in 0..n
  BY <1>1
<1>10. iter[1..n] \in V
  <2>. HIDE DEF n, F, V, iter, base
  <2>. QED  BY <1>2, <1>8, <1>9, FoldStays
<1>. QED  BY <1>3, <1>10

LEMMA OrbitStates ==
  ASSUME NEW s \in States
  PROVE  Orbit(s) \subseteq States
BY CodeAssumption DEF Orbit, Xor, States

(* What the helpers return when all has gone well starts with the chain of *)
(* a recognized state that the transitions lead to.                        *)
Expanded(n, e) ==
  /\ e.outcome \in Outcomes /\ e.chains \in Seq(Chains)
  /\ e.outcome = "ok" => e.state \in Orbit(n) \cap Catalog /\ Len(e.chains) >= 1

LEMMA ExpansionHolds ==
  ASSUME NEW n \in Catalog, NEW walk \in Walks(n), NEW g
  PROVE  Expanded(n, Expansion(walk, g))
<1>. DEFINE realm == Realm(walk.state)
            topology == Topology(walk.state, g.depth)
            axioms == Axioms(walk.state, g.subject)
            parts == <<realm, topology, axioms>>
            bad == SelectInSeq(parts, LAMBDA a : a.outcome # "ok")
            Part(outcome) == [outcome |-> outcome, state |-> walk.state,
                              chains |-> IF bad = 1 THEN <<>> ELSE parts[1].chains]
            all == [outcome |-> "ok", state |-> walk.state,
                    chains |-> realm.chains \o walk.chains \o topology.chains \o axioms.chains]
<1>1. /\ walk.state \in Orbit(n) /\ walk.state \in States /\ walk.chains \in Seq(Chains)
      /\ walk.outcome \in Outcomes
  BY CatalogAssumption, OrbitStates DEF Walks
<1>2. /\ AnswerHolds(realm) /\ AnswerHolds(topology) /\ AnswerHolds(axioms)
      /\ realm.outcome = "ok" => walk.state \in Catalog /\ Len(realm.chains) = 1
  BY <1>1, RealmHolds, TopologyHolds, AxiomsHold
<1>. DEFINE failed == {i \in 1..Len(parts) : parts[i].outcome # "ok"}
<1>3. /\ bad = 0 => realm.outcome = "ok" /\ topology.outcome = "ok" /\ axioms.outcome = "ok"
      /\ bad # 0 => bad \in 1..3 /\ bad \in failed
  <2>. HIDE DEF realm, topology, axioms
  <2>1. Len(parts) = 3 /\ parts[1] = realm /\ parts[2] = topology /\ parts[3] = axioms
    OBVIOUS
  <2>2. failed \in SUBSET Nat /\ 0 \notin failed /\ failed \subseteq 1..3
    BY <2>1
  <2>3. bad = IF failed # {} THEN Min(failed) ELSE 0
    BY DEF SelectInSeq
  <2>4. failed # {} => Min(failed) \in failed
    <3>. HIDE DEF failed
    <3>. QED  BY <2>2, MinHolds
  <2>5. failed = {} => realm.outcome = "ok" /\ topology.outcome = "ok" /\ axioms.outcome = "ok"
    BY <2>1
  <2>. HIDE DEF failed, bad
  <2>. QED  BY <2>2, <2>3, <2>4, <2>5
<1>4. bad # 0 => parts[bad].outcome \in Outcomes /\ parts[bad].outcome # "ok"
  <2>. HIDE DEF realm, topology, axioms, bad
  <2>1. \A i \in 1..3 : parts[i] \in {realm, topology, axioms}
    OBVIOUS
  <2>2. bad # 0 => parts[bad].outcome # "ok"
    BY <1>3
  <2>. HIDE DEF parts
  <2>. QED  BY <1>2, <1>3, <2>1, <2>2 DEF AnswerHolds
<1>5. realm.chains \in Seq(Chains) /\ topology.chains \in Seq(Chains) /\ axioms.chains \in Seq(Chains)
  <2>. HIDE DEF realm, topology, axioms
  <2>. QED  BY <1>2 DEF AnswerHolds
<1>6. \A outcome : /\ Part(outcome).outcome = outcome /\ Part(outcome).chains \in Seq(Chains)
  <2>. HIDE DEF realm, topology, axioms, bad
  <2>1. parts[1].chains \in Seq(Chains)
    BY <1>5
  <2>. HIDE DEF parts
  <2>. QED  BY <2>1, EmptySeq
<1>7. realm.outcome = "ok" =>
        /\ all.outcome = "ok" /\ all.state = walk.state
        /\ all.chains \in Seq(Chains) /\ Len(all.chains) >= 1
  <2>. HIDE DEF realm, topology, axioms
  <2>1. /\ realm.chains \o walk.chains \in Seq(Chains)
        /\ Len(realm.chains \o walk.chains) = Len(realm.chains) + Len(walk.chains)
    BY <1>1, <1>5, ConcatProperties
  <2>2. /\ realm.chains \o walk.chains \o topology.chains \in Seq(Chains)
        /\ Len(realm.chains \o walk.chains \o topology.chains)
             = Len(realm.chains) + Len(walk.chains) + Len(topology.chains)
    BY <2>1, <1>5, ConcatProperties
  <2>3. /\ all.chains \in Seq(Chains)
        /\ Len(all.chains)
             = Len(realm.chains) + Len(walk.chains) + Len(topology.chains) + Len(axioms.chains)
    BY <2>2, <1>5, ConcatProperties
  <2>4. \A q \in Seq(Chains) : Len(q) \in Nat
    BY LenProperties
  <2>. HIDE DEF all
  <2>5. realm.outcome = "ok" => Len(all.chains) >= 1
    <3>1. Len(walk.chains) \in Nat /\ Len(topology.chains) \in Nat /\ Len(axioms.chains) \in Nat
      BY <1>1, <1>5, <2>4
    <3>2. realm.outcome = "ok" => Len(realm.chains) = 1
      BY <1>2
    <3>3. \A i, j, k \in Nat : 1 + i + j + k >= 1
      OBVIOUS
    <3>. QED  BY <2>3, <3>1, <3>2, <3>3
  <2>. QED  BY <2>3, <2>5 DEF all
<1>8. Expansion(walk, g)
        = IF walk.outcome # "ok" THEN [walk EXCEPT !.chains = <<>>]
          ELSE IF bad # 0 THEN Part(parts[bad].outcome)
          ELSE IF ~g.covered THEN Part("FAILED") ELSE all
  <2>1. realm.chains = parts[1].chains /\ topology.chains = parts[2].chains
        /\ axioms.chains = parts[3].chains
    <3>. HIDE DEF realm, topology, axioms
    <3>. QED  OBVIOUS
  <2>. QED  BY <2>1 DEF Expansion, bad
<1>9. walk.outcome # "ok" => Expanded(n, [walk EXCEPT !.chains = <<>>])
  BY EmptySeq DEF Expanded, Walks
<1>. HIDE DEF bad, parts, all, Part, realm, topology, axioms
<1>10. bad # 0 => Expanded(n, Part(parts[bad].outcome))
  BY <1>3, <1>4, <1>6 DEF Expanded
<1>11. Expanded(n, Part("FAILED"))
  BY <1>6 DEF Expanded, Outcomes
<1>12. bad = 0 => Expanded(n, all)
  BY <1>1, <1>2, <1>3, <1>7 DEF Expanded, Outcomes
<1>. QED  BY <1>8, <1>9, <1>10, <1>11, <1>12

(* A generation that succeeds: its plan carries the chains it refers to    *)
(* and ends where the seed was normalized to.                              *)
LEMMA GeneratedHolds ==
  ASSUME NEW s \in States, NEW n \in Orbit(s) \cap Catalog, NEW e,
         Expanded(n, e), e.outcome = "ok"
  PROVE  AnswerHolds(Generated(s, n, e))
<1>. DEFINE own == Chain("generation", s, {}, 0)
            realm == Realm(n).chains
            middle == <<e.chains[1], own>>
            chains == realm \o middle \o Tail(e.chains)
            refs == Range(realm) \cup Range(e.chains) \cup {own}
            plan == [seed |-> s, normalized |-> n, transformed |-> e.state,
                     references |-> refs, chains |-> chains]
<1>1. own \in Chains
  BY ChainHolds DEF ChainKinds
<1>2. realm \in Seq(Chains)
  BY RealmHolds DEF AnswerHolds
<1>3. /\ e.chains \in Seq(Chains) /\ e.chains # <<>> /\ Len(e.chains) >= 1
      /\ e.state \in Orbit(n) \cap Catalog
  BY EmptySeq DEF Expanded
<1>4. /\ e.chains[1] \in Chains /\ e.chains[1] = Head(e.chains)
      /\ Tail(e.chains) \in Seq(Chains)
      /\ Range(e.chains) = {e.chains[1]} \cup Range(Tail(e.chains))
  <2>1. Head(e.chains) = e.chains[1]
    BY <1>3
  <2>. QED  BY <1>3, <2>1, HeadTailProperties, RangeOfTail
<1>5. middle \in Seq(Chains) /\ Range(middle) = {e.chains[1], own}
  <2>. HIDE DEF own
  <2>1. DOMAIN middle = 1..2 /\ middle[1] = e.chains[1] /\ middle[2] = own
    OBVIOUS
  <2>2. middle \in Seq(Chains)
    BY <1>1, <1>4
  <2>. HIDE DEF middle
  <2>3. 1 \in DOMAIN middle /\ 2 \in DOMAIN middle /\ \A i \in DOMAIN middle : i = 1 \/ i = 2
    BY <2>1
  <2>. QED  BY <2>1, <2>2, <2>3 DEF Range
<1>. HIDE DEF own, realm, middle
<1>6. realm \o middle \in Seq(Chains) /\ Range(realm \o middle) = Range(realm) \cup Range(middle)
  BY <1>2, <1>5, ConcatProperties, RangeOfConcat
<1>7. chains \in Seq(Chains) /\ Range(chains) = Range(realm \o middle) \cup Range(Tail(e.chains))
  <2>. DEFINE first == realm \o middle
              rest == Tail(e.chains)
  <2>1. first \in Seq(Chains) /\ rest \in Seq(Chains)
    BY <1>4, <1>6
  <2>. HIDE DEF first, rest
  <2>2. first \o rest \in Seq(Chains) /\ Range(first \o rest) = Range(first) \cup Range(rest)
    BY <2>1, ConcatProperties, RangeOfConcat
  <2>. QED  BY <2>2 DEF first, rest
<1>8. refs \subseteq Range(chains)
  <2>. HIDE DEF chains
  <2>. QED  BY <1>4, <1>5, <1>6, <1>7
<1>9. e.state = n
  BY <1>3, OrbitOwn, OrbitApart
<1>10. PlanHolds(plan)
  <2>. HIDE DEF refs, chains
  <2>. QED  BY <1>7, <1>8, <1>9 DEF PlanHolds
<1>11. Generated(s, n, e) = [chains |-> chains, outcome |-> "ok", plan |-> plan]
  BY DEF Generated, own, realm, middle
<1>. HIDE DEF chains, refs, plan
<1>. QED  BY <1>7, <1>10, <1>11 DEF AnswerHolds, Outcomes

LEMMA GenerationHolds ==
  ASSUME bindings \in Bindings, NEW s \in States
  PROVE  AnswerHolds(Generation(s))
<1>. DEFINE g == bindings.generation
            n == Normalized(s, g)
            walk == Walk(g.registry, n, g.sequence)
            e == Expansion(walk, g)
            cut == Answer(Realm(n).chains \o e.chains, e.outcome)
<1>1. \A code \in {"BLOCKED", "FAILED"} : AnswerHolds(Fails(code))
  BY FailHolds DEF Outcomes
<1>2. /\ g.sequence \in Seq(Range(g.sequence))
      /\ g.normalization \in Seq(Range(g.normalization))
  BY BindingsAssumption
<1>3. ASSUME n \in Catalog,
             ~\E i \in DOMAIN g.normalization :
                s \notin Catalog /\ g.normalization[i] \notin Codewords
      PROVE  AnswerHolds(IF e.outcome = "ok" THEN Generated(s, n, e) ELSE cut)
  <2>1. n \in Orbit(s)
    <3>1. CASE s \in Catalog
      BY <3>1, OrbitOwn DEF Normalized
    <3>2. CASE s \notin Catalog
      <4>1. Range(g.normalization) \subseteq Codewords
        BY <1>3, <3>2 DEF Range
      <4>2. n = Compose(s, g.normalization)
        BY <3>2 DEF Normalized
      <4>. HIDE DEF n, g
      <4>. QED  BY <1>2, <4>1, <4>2, ComposedInOrbit
    <3>. QED  BY <3>1, <3>2
  <2>2. walk \in Walks(n)
    BY <1>2, WalkHolds
  <2>. HIDE DEF walk, n, g
  <2>3. Expanded(n, e)
    BY <1>3, <2>2, ExpansionHolds
  <2>. HIDE DEF e
  <2>4. CASE e.outcome = "ok"
    BY <1>3, <2>1, <2>3, <2>4, GeneratedHolds
  <2>5. CASE e.outcome # "ok"
    <3>1. Realm(n).chains \in Seq(Chains) /\ e.chains \in Seq(Chains) /\ e.outcome \in Outcomes
      BY <2>3, RealmHolds DEF AnswerHolds, Expanded
    <3>2. Realm(n).chains \o e.chains \in Seq(Chains)
      BY <3>1, ConcatProperties
    <3>3. AnswerHolds(cut)
      BY <3>1, <3>2, GiveHolds
    <3>. QED  BY <2>5, <3>3
  <2>. QED  BY <2>4, <2>5
<1>4. Generation(s) \in {Fails("BLOCKED"), Fails("FAILED")}
      \/ /\ n \in Catalog
         /\ ~\E i \in DOMAIN g.normalization : s \notin Catalog /\ g.normalization[i] \notin Codewords
         /\ Generation(s) = IF e.outcome = "ok" THEN Generated(s, n, e) ELSE cut
  <2>1. (CHOOSE a \in {IF x.outcome = "ok" THEN Generated(s, n, x)
                       ELSE Answer(Realm(n).chains \o x.chains, x.outcome) :
                       x \in {Expansion(w, g) : w \in {walk}}} : TRUE)
        = IF e.outcome = "ok" THEN Generated(s, n, e) ELSE cut
    <3>. HIDE DEF walk, n, g
    <3>. QED  OBVIOUS
  <2>. QED  BY <2>1 DEF Generation
<1>. HIDE DEF n, e, g, cut
<1>. QED  BY <1>1, <1>3, <1>4

LEMMA EmissionHolds ==
  ASSUME NEW plan, PlanHolds(plan)
  PROVE  AnswerHolds(Emission(plan)) /\ Emission(plan).outcome = "ok"
<1>1. Chain("emission", plan.seed, {}, 0) \in Chains
  BY ChainHolds DEF PlanHolds, ChainKinds
<1>2. Append(plan.chains, Chain("emission", plan.seed, {}, 0)) \in Seq(Chains)
  BY <1>1, AppendProperties DEF PlanHolds
<1>. QED  BY <1>2, GiveHolds DEF Emission, PlanHolds, Gives, Outcomes

(* Every operation a provider offers gives such an answer.                 *)
LEMMA OperationsHold ==
  ASSUME bindings \in Bindings, NEW s \in bindings.subjects, NEW p, NEW word, NEW output,
         NEW reference, NEW registry, NEW id, NEW depth, NEW subject
  PROVE  /\ s \in States
         /\ AnswerHolds(Admit(s)) /\ AnswerHolds(Diagnosis(s)) /\ AnswerHolds(Classification(s))
         /\ AnswerHolds(Transformation(p, s, word, output, reference))
         /\ AnswerHolds(Realm(s)) /\ AnswerHolds(Generation(s))
         /\ AnswerHolds(IF Halted THEN Fails("BLOCKED") ELSE Transition(registry, s, id))
         /\ AnswerHolds(Topology(s, depth)) /\ AnswerHolds(Axioms(s, subject))
<1>1. s \in States
  BY BindingsAssumption
<1>2. AnswerHolds(Fails("BLOCKED")) /\ AnswerHolds(Fails("FAILED"))
  BY FailHolds DEF Outcomes
<1>3. AnswerHolds(Admit(s))
  <2>1. Chain("admissibility", s, {}, 0) \in Chains
    BY <1>1, ChainHolds DEF ChainKinds
  <2>. QED  BY <2>1, OneChain, GiveHolds DEF Admit, Gives, Outcomes
<1>4. AnswerHolds(Diagnosis(s)) /\ AnswerHolds(Classification(s))
  <2>1. Chain("diagnosis", s, {}, 0) \in Chains
    BY <1>1, ChainHolds DEF ChainKinds
  <2>2. <<>> \in Seq(Chains)
    BY EmptySeq
  <2>. QED  BY <2>1, <2>2, OneChain, GiveHolds, ContextHolds DEF Diagnosis, Classification
<1>5. AnswerHolds(Transformation(p, s, word, output, reference))
  <2>1. ASSUME word \in Codewords
        PROVE  AnswerHolds(Gives(<<Chain("codeword", s, word, 0)>>))
    <3>1. Chain("codeword", s, word, 0) \in Chains
      BY <1>1, <2>1, ChainHolds DEF ChainKinds
    <3>. QED  BY <3>1, OneChain, GiveHolds DEF Gives, Outcomes
  <2>. QED  BY <1>2, <2>1 DEF Transformation
<1>. QED  BY <1>1, <1>2, <1>3, <1>4, <1>5, RealmHolds, GenerationHolds, TransitionHolds,
             TopologyHolds, AxiomsHold

-------------------------------------------------------------------------------
(* The chains a provider retains, counted in the units of their bytes.     *)
Units(S) == {unit \in S \X (1..3) : unit[2] <= Bytes(unit[1])}

(* One more chain adds its bytes.                                          *)
LEMMA UnitsAdd ==
  ASSUME NEW S, IsFiniteSet(S), IsFiniteSet(Units(S)), NEW c, c \notin S
  PROVE  /\ IsFiniteSet(Units(S \cup {c}))
         /\ Cardinality(Units(S \cup {c})) = Cardinality(Units(S)) + Bytes(c)
<1>1. Cardinality(Units(S)) \in Nat
  BY FS_CardinalityType
<1>2. \A i \in 1..3 : <<c, i>> \notin Units(S)
  BY DEF Units
<1>. DEFINE first  == Units(S) \cup {<<c, 1>>}
            second == first \cup {<<c, 2>>}
            third  == second \cup {<<c, 3>>}
<1>3. /\ IsFiniteSet(first) /\ Cardinality(first) = Cardinality(Units(S)) + 1
  BY <1>2, FS_AddElement
<1>4. <<c, 2>> \notin first /\ <<c, 3>> \notin second
  BY <1>2
<1>5. IsFiniteSet(second) /\ Cardinality(second) = Cardinality(first) + 1
  <2>. HIDE DEF first
  <2>. QED  BY <1>3, <1>4, FS_AddElement
<1>6. IsFiniteSet(third) /\ Cardinality(third) = Cardinality(second) + 1
  <2>. HIDE DEF second
  <2>. QED  BY <1>4, <1>5, FS_AddElement
<1>7. CASE Bytes(c) = 1
  <2>1. Units(S \cup {c}) = first
    BY <1>7 DEF Units
  <2>. QED  BY <1>1, <1>3, <1>7, <2>1
<1>8. CASE Bytes(c) = 3
  <2>1. Units(S \cup {c}) = third
    <3>1. \A unit : unit \in {c} \X (1..3) <=> unit \in {<<c, 1>>, <<c, 2>>, <<c, 3>>}
      OBVIOUS
    <3>2. \A unit \in {c} \X (1..3) : unit[2] <= Bytes(unit[1])
      BY <1>8
    <3>. QED  BY <3>1, <3>2 DEF Units
  <2>. HIDE DEF first, second, third
  <2>. QED  BY <1>1, <1>3, <1>5, <1>6, <1>8, <2>1
<1>. QED  BY <1>7, <1>8 DEF Bytes

(* The inductive invariant: a provider retains chains within its budgets,  *)
(* what is handed out is retained, and a call that goes well gives only    *)
(* what is retained or still to be retained.  It has as conjuncts what     *)
(* each thread has begun, because the chains of one call are retained one  *)
(* by one among those of the others.                                       *)
Stored ==
  /\ DOMAIN retained = Providers
  /\ \A p \in Providers :
       /\ retained[p] \subseteq Chains
       /\ IsFiniteSet(retained[p]) /\ IsFiniteSet(Units(retained[p]))
       /\ Cardinality(retained[p]) <= MaxChains
       /\ Cardinality(Units(retained[p])) <= MaxBytes

Given == \A r \in handed : r.provider \in Providers /\ r.chain \in retained[r.provider]

JobHolds(j) ==
  /\ j = [provider |-> j.provider, op |-> j.op, todo |-> j.todo, gives |-> j.gives,
          plan |-> j.plan, outcome |-> j.outcome]
  /\ j.todo \in Seq(Chains)
  /\ j.provider \in Providers \cup {"none"} /\ (j.todo # <<>> => j.provider \in Providers)
  /\ j.plan = NoPlan \/ PlanHolds(j.plan)
  /\ j.outcome \in Outcomes \cup {"none"}
  /\ j.outcome = "ok" =>
       j.provider \in Providers /\ j.gives \subseteq retained[j.provider] \cup Range(j.todo)

Working == DOMAIN job = Threads /\ \A t \in Threads : JobHolds(job[t])

ProviderInv ==
  /\ bindings \in Bindings /\ calls \in 0..MaxCalls
  /\ Stored /\ Given /\ Working
  /\ \A plan \in plans : PlanHolds(plan)

LEMMA ProviderStarts == ProviderInit => ProviderInv
<1>. SUFFICES ASSUME ProviderInit PROVE ProviderInv
  OBVIOUS
<1>1. Stored
  <2>1. Units({}) = {}
    BY DEF Units
  <2>. QED  BY <2>1, FS_EmptySet, BudgetAssumption DEF ProviderInit, Stored
<1>2. Working
  <2>1. <<>> \in Seq(Chains)
    BY EmptySeq
  <2>. QED  BY <2>1 DEF ProviderInit, Working, JobHolds, Idle
<1>. QED  BY <1>1, <1>2, BudgetAssumption DEF ProviderInit, ProviderInv, Given

(* A call begins with an answer that holds.                                *)
LEMMA BeginHolds ==
  ASSUME ProviderInv, NEW t \in Threads, NEW p \in Providers, NEW op, NEW a,
         AnswerHolds(a), calls < MaxCalls, Begin(t, p, op, a)
  PROVE  ProviderInv'
<1>. DEFINE j == [provider |-> p, op |-> op, todo |-> a.chains, gives |-> Range(a.chains),
                  plan |-> a.plan, outcome |-> a.outcome]
<1>1. /\ job' = [job EXCEPT ![t] = j] /\ calls' = calls + 1
      /\ UNCHANGED <<bindings, retained, handed, plans>>
  BY DEF Begin
<1>2. JobHolds(j)'
  <2>1. UNCHANGED retained
    BY <1>1
  <2>. QED  BY <2>1 DEF JobHolds, AnswerHolds, PlanHolds, Chains, States, Outcomes, Orbit, NoPlan,
                NoState, ChainKinds
<1>3. \A i \in Threads : JobHolds(job[i])'
  <2>. HIDE DEF j
  <2>1. ASSUME NEW i \in Threads PROVE JobHolds(job[i])'
    <3>1. CASE i = t
      <4>1. job'[i] = j
        BY <1>1, <3>1 DEF ProviderInv, Working
      <4>. QED  BY <1>2, <4>1 DEF JobHolds
    <3>2. CASE i # t
      <4>1. job'[i] = job[i] /\ retained' = retained
        BY <1>1, <3>2 DEF ProviderInv, Working
      <4>. QED  BY <4>1 DEF JobHolds, ProviderInv, Working
    <3>. QED  BY <3>1, <3>2
  <2>. QED  BY <2>1
<1>4. Working'
  BY <1>1, <1>3 DEF Working, ProviderInv
<1>5. calls' \in 0..MaxCalls
  BY <1>1, BudgetAssumption DEF ProviderInv
<1>. QED  BY <1>1, <1>4, <1>5 DEF ProviderInv, Stored, Given

LEMMA CallHolds ==
  ASSUME ProviderInv, NEW t \in Threads, Call(t)
  PROVE  ProviderInv'
<1>1. PICK p \in Providers :
         \/ EvaluateAdmissibility(t, p) \/ DiagnoseState(t, p) \/ ClassifyState(t, p)
         \/ ApplyCodewordTransformation(t, p) \/ ResolveRealmIdentity(t, p)
         \/ ResolveTransition(t, p) \/ GenerateTopology(t, p) \/ EvaluateAxioms(t, p)
         \/ GenerateMaterializationPlan(t, p) \/ PlanArtifactEmission(t, p)
  BY DEF Call
<1>2. calls < MaxCalls /\ bindings \in Bindings
  BY DEF Call, ProviderInv
<1>3. \E op, a : AnswerHolds(a) /\ Begin(t, p, op, a)
  <2>1. CASE EvaluateAdmissibility(t, p)
    BY <1>2, <2>1, OperationsHold DEF EvaluateAdmissibility
  <2>2. CASE DiagnoseState(t, p)
    BY <1>2, <2>2, OperationsHold DEF DiagnoseState
  <2>3. CASE ClassifyState(t, p)
    BY <1>2, <2>3, OperationsHold DEF ClassifyState
  <2>4. CASE ApplyCodewordTransformation(t, p)
    BY <1>2, <2>4, OperationsHold DEF ApplyCodewordTransformation
  <2>5. CASE ResolveRealmIdentity(t, p)
    BY <1>2, <2>5, OperationsHold DEF ResolveRealmIdentity
  <2>6. CASE ResolveTransition(t, p)
    BY <1>2, <2>6, OperationsHold DEF ResolveTransition
  <2>7. CASE GenerateTopology(t, p)
    BY <1>2, <2>7, OperationsHold DEF GenerateTopology
  <2>8. CASE EvaluateAxioms(t, p)
    BY <1>2, <2>8, OperationsHold DEF EvaluateAxioms
  <2>9. CASE GenerateMaterializationPlan(t, p)
    BY <1>2, <2>9, OperationsHold DEF GenerateMaterializationPlan
  <2>10. CASE PlanArtifactEmission(t, p)
    BY <2>10, EmissionHolds DEF PlanArtifactEmission, ProviderInv
  <2>. QED  BY <1>1, <2>1, <2>2, <2>3, <2>4, <2>5, <2>6, <2>7, <2>8, <2>9, <2>10
<1>. QED  BY <1>2, <1>3, BeginHolds

(* One chain retained: it is paid for, or the provider has it, or the call *)
(* fails and gives nothing.                                                *)
LEMMA RetainHolds ==
  ASSUME ProviderInv, NEW t \in Threads, RetainDiagnosticChain(t)
  PROVE  ProviderInv'
<1>. DEFINE p == job[t].provider
            c == Head(job[t].todo)
            rest == Tail(job[t].todo)
<1>1. /\ JobHolds(job[t]) /\ job[t].todo # <<>> /\ p \in Providers
      /\ c \in Chains /\ rest \in Seq(Chains)
      /\ Range(job[t].todo) = {c} \cup Range(rest)
  <2>1. JobHolds(job[t]) /\ job[t].todo # <<>>
    BY DEF RetainDiagnosticChain, ProviderInv, Working
  <2>. QED  BY <2>1, RangeOfTail, HeadTailProperties DEF JobHolds
<1>2. UNCHANGED <<bindings, handed, plans, calls>>
  BY DEF RetainDiagnosticChain
<1>3. CASE c \in retained[p] \/ Affordable(p, c)
  <2>1. /\ retained' = [retained EXCEPT ![p] = @ \cup {c}]
        /\ job' = [job EXCEPT ![t].todo = rest]
    BY <1>3 DEF RetainDiagnosticChain
  <2>2. /\ DOMAIN retained' = Providers
        /\ \A q \in Providers :
             retained'[q] = IF q = p THEN retained[p] \cup {c} ELSE retained[q]
    BY <1>1, <2>1 DEF ProviderInv, Stored
  <2>. HIDE DEF p, c, rest
  <2>3. Stored'
    <3>1. ASSUME NEW q \in Providers
          PROVE  /\ retained'[q] \subseteq Chains
                 /\ IsFiniteSet(retained'[q]) /\ IsFiniteSet(Units(retained'[q]))
                 /\ Cardinality(retained'[q]) <= MaxChains
                 /\ Cardinality(Units(retained'[q])) <= MaxBytes
      <4>1. CASE q # p \/ c \in retained[p]
        <5>1. retained'[q] = retained[q]
          BY <2>2, <4>1
        <5>. QED  BY <5>1 DEF ProviderInv, Stored
      <4>2. CASE q = p /\ c \notin retained[p]
        <5>1. retained'[q] = retained[p] \cup {c}
          BY <2>2, <4>2
        <5>2. /\ retained[p] \subseteq Chains
              /\ IsFiniteSet(retained[p]) /\ IsFiniteSet(Units(retained[p]))
          BY <1>1 DEF ProviderInv, Stored
        <5>3. Cardinality(retained[p]) < MaxChains /\ Bytes(c) + Cardinality(Units(retained[p])) <= MaxBytes
          BY <1>3, <4>2 DEF Affordable, RetainedBytes, Units
        <5>4. /\ IsFiniteSet(retained[p] \cup {c})
              /\ Cardinality(retained[p] \cup {c}) = Cardinality(retained[p]) + 1
          BY <4>2, <5>2, FS_AddElement
        <5>5. /\ IsFiniteSet(Units(retained[p] \cup {c}))
              /\ Cardinality(Units(retained[p] \cup {c})) = Cardinality(Units(retained[p])) + Bytes(c)
          BY <4>2, <5>2, UnitsAdd
        <5>6. /\ Cardinality(retained[p]) \in Nat /\ Cardinality(Units(retained[p])) \in Nat
              /\ Bytes(c) \in Nat
          BY <5>2, FS_CardinalityType DEF Bytes
        <5>. QED  BY <1>1, <5>1, <5>2, <5>3, <5>4, <5>5, <5>6, BudgetAssumption
      <4>. QED  BY <4>1, <4>2
    <3>. QED  BY <2>2, <3>1 DEF Stored
  <2>4. Given'
    BY <1>2, <2>2 DEF ProviderInv, Given
  <2>5. Working'
    <3>1. ASSUME NEW i \in Threads PROVE JobHolds(job[i])'
      <4>1. JobHolds(job[i])
        BY DEF ProviderInv, Working
      <4>2. CASE i # t
        <5>1. job'[i] = job[i]
          BY <2>1, <4>2 DEF ProviderInv, Working
        <5>. QED  BY <2>2, <4>1, <5>1 DEF JobHolds
      <4>3. CASE i = t
        <5>1. job'[i] = [job[t] EXCEPT !.todo = rest]
          BY <2>1, <4>3 DEF ProviderInv, Working
        <5>2. job'[i] = [provider |-> p, op |-> job[t].op, todo |-> rest, gives |-> job[t].gives,
                         plan |-> job[t].plan, outcome |-> job[t].outcome]
          BY <1>1, <5>1 DEF JobHolds, p
        <5>3. job[t].outcome = "ok" => job[t].gives \subseteq retained'[p] \cup Range(rest)
          BY <1>1, <2>2 DEF JobHolds, p
        <5>. QED  BY <1>1, <5>2, <5>3 DEF JobHolds
      <4>. QED  BY <4>2, <4>3
    <3>2. DOMAIN job' = Threads
      BY <2>1 DEF ProviderInv, Working
    <3>. QED  BY <3>1, <3>2 DEF Working
  <2>. QED  BY <1>2, <2>3, <2>4, <2>5 DEF ProviderInv
<1>4. CASE ~(c \in retained[p] \/ Affordable(p, c))
  <2>1. /\ job' = [job EXCEPT ![t].todo = <<>>, ![t].outcome = "FAILED"]
        /\ UNCHANGED retained
    BY <1>4 DEF RetainDiagnosticChain
  <2>2. Working'
    <3>1. ASSUME NEW i \in Threads PROVE JobHolds(job[i])'
      <4>1. JobHolds(job[i])
        BY DEF ProviderInv, Working
      <4>2. CASE i # t
        <5>1. job'[i] = job[i]
          BY <2>1, <4>2 DEF ProviderInv, Working
        <5>. QED  BY <2>1, <4>1, <5>1 DEF JobHolds
      <4>3. CASE i = t
        <5>1. job'[i] = [job[t] EXCEPT !.todo = <<>>, !.outcome = "FAILED"]
          BY <2>1, <4>3 DEF ProviderInv, Working
        <5>2. job'[i] = [provider |-> p, op |-> job[t].op, todo |-> <<>>, gives |-> job[t].gives,
                         plan |-> job[t].plan, outcome |-> "FAILED"]
          BY <1>1, <5>1 DEF JobHolds, p
        <5>. QED  BY <1>1, <5>2, EmptySeq DEF JobHolds, Outcomes
      <4>. QED  BY <4>2, <4>3
    <3>2. DOMAIN job' = Threads
      BY <2>1 DEF ProviderInv, Working
    <3>. QED  BY <3>1, <3>2 DEF Working
  <2>. QED  BY <1>2, <2>1, <2>2 DEF ProviderInv, Stored, Given
<1>. QED  BY <1>3, <1>4

LEMMA ReturnHolds ==
  ASSUME ProviderInv, NEW t \in Threads, Return(t)
  PROVE  ProviderInv'
<1>1. /\ job[t].todo = <<>> /\ job' = [job EXCEPT ![t] = Idle]
      /\ UNCHANGED <<bindings, retained, calls>> /\ JobHolds(job[t])
  BY DEF Return, ProviderInv, Working
<1>2. Working'
  <2>1. JobHolds(Idle)'
    BY EmptySeq DEF JobHolds, Idle
  <2>. QED  BY <1>1, <2>1 DEF ProviderInv, Working, JobHolds
<1>3. Given' /\ \A plan \in plans' : PlanHolds(plan)
  <2>1. CASE job[t].outcome = "ok"
    <3>1. /\ handed' = handed \cup [provider : {job[t].provider}, chain : job[t].gives]
          /\ plans' = plans \cup ({job[t].plan} \ {NoPlan})
      BY <2>1 DEF Return
    <3>2. Range(<<>>) = {}
      BY DEF Range
    <3>3. job[t].provider \in Providers /\ job[t].gives \subseteq retained[job[t].provider]
      BY <1>1, <2>1, <3>2 DEF JobHolds
    <3>. QED  BY <1>1, <3>1, <3>3 DEF ProviderInv, Given, JobHolds
  <2>2. CASE job[t].outcome # "ok"
    BY <1>1, <2>2 DEF Return, ProviderInv, Given
  <2>. QED  BY <2>1, <2>2
<1>4. (\A plan \in plans : PlanHolds(plan))'
  BY <1>3 DEF PlanHolds
<1>. QED  BY <1>1, <1>2, <1>3, <1>4 DEF ProviderInv, Stored

LEMMA ProviderHolds == ProviderSpec => []ProviderInv
<1>1. ProviderInv /\ [ProviderNext]_providerVars => ProviderInv'
  <2>. SUFFICES ASSUME ProviderInv, [ProviderNext]_providerVars PROVE ProviderInv'
    OBVIOUS
  <2>1. CASE UNCHANGED providerVars
    BY <2>1 DEF providerVars, ProviderInv, Stored, Given, Working, JobHolds
  <2>. QED  BY <2>1, CallHolds, RetainHolds, ReturnHolds DEF ProviderNext
<1>. QED  BY <1>1, ProviderStarts, PTL DEF ProviderSpec

(* Every reference a provider has handed out stays resolvable and its two  *)
(* budgets are kept, for every number of threads and providers, every      *)
(* budget and every order in which their calls retain chains               *)
(* (retainDiagnosticChain, AshBinding.cpp:91).                             *)
THEOREM RetentionStays == ProviderSpec => []RetentionSound
<1>1. ProviderInv => RetentionSound
  <2>. SUFFICES ASSUME ProviderInv PROVE RetentionSound
    OBVIOUS
  <2>1. ReferencesResolve
    BY DEF ProviderInv, Given, ReferencesResolve, Resolves
  <2>2. RetentionBounded
    BY DEF ProviderInv, Stored, RetentionBounded, RetainedBytes, Units
  <2>3. ProviderTypeOK
    BY DEF ProviderInv, Stored, Given, Working, JobHolds, ProviderTypeOK, Chains, Outcomes
  <2>. QED  BY <2>1, <2>2, <2>3 DEF RetentionSound
<1>. QED  BY <1>1, ProviderHolds, PTL

(* Every plan a generation returns carries the chains it refers to, so that*)
(* any provider can emit it, and ends in the recognized state its seed was *)
(* normalized to: for every linear code that keeps the recognized states   *)
(* apart (AshBinding.cpp, generateMaterializationPlan).                    *)
THEOREM PlansStaySound == ProviderSpec => []PlansSound
<1>1. ProviderInv => PlansSound
  BY EmissionHolds DEF ProviderInv, PlanHolds, PlansSound, PlansEmit, GenerationStable
<1>. QED  BY <1>1, ProviderHolds, PTL

-------------------------------------------------------------------------------
(* The one recovery.  A plan with operations inverts what a verified       *)
(* witness names, and a rule of the adopted bundle has that target.        *)

LEMMA PlanOfOperations ==
  ASSUME NEW env, NEW in, in.path.words \in Seq(States), Plan(env, in).ok, Plan(env, in).ops # {}
  PROVE  /\ Project(env, in).ok
         /\ Plan(env, in).ops =
              InverseOperations(StateOf(in.observed), Plan(env, in).analysis.target)
         /\ Plan(env, in).analysis.target = {}
         /\ StateOf(in.observed) \in Codewords
<1>. DEFINE a == Analyze(env, in)
            s == StateOf(in.observed)
            ops == InverseOperations(a.state, a.target)
            class == Classify(s, in, in.path.status = "selected", Candidates(env, s) # {})
<1>1. Plan(env, in) = PlanAnalysis(in, a)
  BY PlanIs
<1>2. a.ok
  BY <1>1 DEF PlanAnalysis
<1>3. a = Analysis(env, in, s) /\ (in.path.status = "selected" => WitnessHolds(s, in.path))
  BY <1>2, AnalysisHolds
<1>4. a.recovery # "NO_ACTION"
  BY <1>1, <1>2 DEF PlanAnalysis, Planned, Fault
<1>5. Plan(env, in) = PlanRepair(in, a, ops)
  BY <1>1, <1>2, <1>4 DEF PlanAnalysis, Fault
<1>6. Plan(env, in) = Authorize(in, a, ops)
  <2>. HIDE DEF a, ops
  <2>. QED  BY <1>5 DEF PlanRepair, Fault, Planned
<1>7. Plan(env, in) = Planned(a, ops) /\ RuleAllows(a, ops)
  <2>. HIDE DEF a, ops
  <2>. QED  BY <1>6 DEF Authorize, Fault
<1>8. /\ Plan(env, in).analysis = a /\ Plan(env, in).ops = ops
      /\ a.witness /\ a.target = {}
  <2>. HIDE DEF a, ops
  <2>. QED  BY <1>7, RulesAssumption DEF Planned, RuleAllows
<1>9. /\ a.state = s /\ a.witness = (in.path.status = "selected") /\ a.class = class
      /\ a.target = IF class = "DEGRADED" THEN First(Candidates(env, s)).candidate
                    ELSE IF in.path.status = "selected" THEN in.path.target ELSE NoState
  <2>. HIDE DEF a
  <2>. QED  BY <1>3 DEF Analysis
<1>10. WitnessHolds(s, in.path) /\ in.path.status = "selected"
  BY <1>3, <1>8, <1>9
<1>11. in.path.target \in Orbit(s) \cap Catalog
  <2>. DEFINE words == in.path.words
  <2>1. words \in Seq(States) /\ \A i \in 1..Len(words) : words[i] \in Codewords
    BY <1>10 DEF WitnessHolds
  <2>. HIDE DEF words
  <2>2. Range(words) \subseteq Codewords /\ words \in Seq(Range(words))
    BY <2>1 DEF Range
  <2>3. Compose(s, words) \in Orbit(s)
    BY <2>2, ComposedInOrbit
  <2>4. Compose(s, words) = in.path.target /\ in.path.target \in Catalog
    BY <1>10 DEF WitnessHolds, words
  <2>. QED  BY <2>3, <2>4
<1>12. class # "DEGRADED"
  <2>1. Admissibility(s) # "TRANSFORMATION_INCOMPATIBLE"
    BY <1>11 DEF Admissibility
  <2>. QED  BY <2>1 DEF Classify, Admissibility
<1>13. {} \in Orbit(s)
  BY <1>8, <1>9, <1>10, <1>11, <1>12
<1>14. s \in Codewords
  <2>1. PICK c \in Codewords : Xor(s, c) = {}
    BY <1>13 DEF Orbit
  <2>. HIDE DEF s
  <2>2. s = c
    BY <2>1 DEF Xor
  <2>. QED  BY <2>2
<1>15. Project(env, in).ok
  <2>. DEFINE p == Project(env, in)
  <2>1. p.ok \/ a = p
    <3>. HIDE DEF p
    <3>. QED  BY AnalyzeIs DEF AnalyzeProjection, p
  <2>. QED  BY <1>2, <2>1
<1>. HIDE DEF a, s, ops
<1>. QED  BY <1>8, <1>9, <1>14, <1>15 DEF a, s, ops

(* What a plan that fails fails with, and what its operations write.       *)
LEMMA PlanTyped ==
  ASSUME NEW env, NEW in
  PROVE  /\ ~Plan(env, in).ok => Plan(env, in).code \in Codes \ {""}
         /\ Plan(env, in).ok => \A o \in Plan(env, in).ops : o.to \in Bits
<1>. DEFINE a == Analyze(env, in)
            ops == InverseOperations(a.state, a.target)
<1>1. Plan(env, in) = PlanAnalysis(in, a)
  BY PlanIs
<1>2. ~a.ok => a.code \in Codes \ {""}
  BY AnalysisCode DEF Outcomes, Codes
<1>3. \A o \in ops : o.to \in Bits
  BY DEF InverseOperations, BitOf, Bits
<1>4. \A phase, code : Fault(phase, code).ok = FALSE /\ Fault(phase, code).code = code
  BY DEF Fault
<1>5. \A o : Planned(a, o).ok = TRUE /\ Planned(a, o).ops = o
  BY DEF Planned
<1>6. \/ Plan(env, in) = a /\ ~a.ok
      \/ Plan(env, in) \in {Planned(a, {}), Planned(a, ops)}
      \/ \E phase \in {"PLAN", "POLICY"}, code \in {"BLOCKED", "FAILED"} : Plan(env, in) = Fault(phase, code)
  <2>. HIDE DEF a
  <2>. QED  BY <1>1 DEF PlanAnalysis, PlanRepair, Authorize
<1>7. CASE Plan(env, in) = a /\ ~a.ok
  <2>. HIDE DEF a, ops
  <2>. QED  BY <1>2, <1>7
<1>8. CASE Plan(env, in) \in {Planned(a, {}), Planned(a, ops)}
  <2>. HIDE DEF a, ops
  <2>1. Plan(env, in).ok = TRUE /\ Plan(env, in).ops \in {{}, ops}
    BY <1>5, <1>8
  <2>. QED  BY <1>3, <2>1
<1>9. ASSUME NEW phase, NEW code \in {"BLOCKED", "FAILED"}, Plan(env, in) = Fault(phase, code)
      PROVE  ~Plan(env, in).ok /\ Plan(env, in).code \in Codes \ {""}
  BY <1>4, <1>9 DEF Codes
<1>. HIDE DEF a, ops
<1>. QED  BY <1>6, <1>7, <1>8, <1>9

(* The document a session leaves is one.                                   *)
LEMMA ExpectedTyped ==
  ASSUME NEW document \in Documents, NEW ops, \A o \in ops : o.to \in Bits
  PROVE  /\ ExpectedDocument(document, ops) \in Documents
         /\ [ExpectedDocument(document, ops) EXCEPT !.carrier = "malformed"] \in Documents
<1>. DEFINE bits == [d \in Dimensions |-> IF \E o \in ops : o.slot = d
                                          THEN (CHOOSE o \in ops : o.slot = d).to
                                          ELSE document.bits[d]]
<1>1. bits \in [Dimensions -> Evidence]
  <2>1. ASSUME NEW d \in Dimensions, \E o \in ops : o.slot = d
        PROVE  (CHOOSE o \in ops : o.slot = d).to \in Bits
    BY <2>1
  <2>. QED  BY <2>1 DEF Documents, Evidence
<1>2. ExpectedDocument(document, ops) = [carrier |-> document.carrier, bits |-> bits]
  BY DEF ExpectedDocument, Documents
<1>. HIDE DEF bits
<1>. QED  BY <1>1, <1>2 DEF Documents

(* A document written by operations no longer agrees with the claims of a  *)
(* request whose document agreed with them.                                *)
LEMMA ClaimsDisagree ==
  ASSUME NEW env, NEW in, NEW goal \in States,
         in.observed \in Documents, in.claims \in [Dimensions -> Evidence],
         {"observed", "claims"} \subseteq DOMAIN in, {"observed", "claims"} \subseteq env.profile.sources,
         env.profile.sources \subseteq {"observed", "claims"},
         InverseOperations(StateOf(in.observed), goal) # {}, Project(env, in).ok
  PROVE  LET ops == InverseOperations(StateOf(in.observed), goal) IN
           ~Project(env, [in EXCEPT !.observed = ExpectedDocument(in.observed, ops)]).ok
<1>. DEFINE s == StateOf(in.observed)
            ops == InverseOperations(s, goal)
            expected == ExpectedDocument(in.observed, ops)
            after == [in EXCEPT !.observed = expected]
<1>1. PICK d \in Dimensions : d \in Xor(s, goal)
  BY DEF InverseOperations, Xor, StateOf, States
<1>2. \A i : Sources(env, i, d) = {i.observed.bits[d], i.claims[d]}
  BY DEF Sources
<1>3. /\ in.observed.bits[d] \in Evidence /\ in.claims[d] \in Evidence
  BY DEF Documents
<1>4. in.observed.bits[d] \in Bits /\ in.claims[d] = in.observed.bits[d]
  <2>1. Mapping(env, in) = "MAPPED"
    BY DEF Project, Fault
  <2>2. {"FAILED", "BLOCKED", "AMBIGUOUS"} \cap Marks(env, in, d) = {}
    BY <2>1 DEF Mapping, Worst
  <2>3. /\ Sources(env, in, d) \cap {"nonbinary", "tampered", "absent", "unproven"} = {}
        /\ ~(Bits \subseteq Sources(env, in, d))
    BY <2>2 DEF Marks
  <2>4. Sources(env, in, d) = {in.observed.bits[d], in.claims[d]}
    BY <1>2
  <2>5. in.observed.bits[d] \in Bits /\ in.claims[d] \in Bits
    BY <1>3, <2>3, <2>4 DEF Evidence, Bits
  <2>. QED  BY <2>3, <2>4, <2>5 DEF Bits
<1>5. expected.bits[d] = BitOf(goal, d)
  <2>1. /\ [slot |-> d, from |-> BitOf(s, d), to |-> BitOf(goal, d)] \in ops
        /\ \A o \in ops : o.slot = d => o.to = BitOf(goal, d)
    BY <1>1 DEF InverseOperations
  <2>2. expected.bits = [e \in Dimensions |-> IF \E o \in ops : o.slot = e
                                              THEN (CHOOSE o \in ops : o.slot = e).to
                                              ELSE in.observed.bits[e]]
    BY DEF ExpectedDocument, Documents
  <2>. HIDE DEF ops, expected
  <2>. QED  BY <2>1, <2>2
<1>6. BitOf(goal, d) \in Bits /\ BitOf(goal, d) # in.observed.bits[d]
  BY <1>1, <1>4 DEF BitOf, Bits, Xor, StateOf
<1>7. Sources(env, after, d) = Bits
  <2>1. after.observed = expected /\ after.claims = in.claims
    OBVIOUS
  <2>. HIDE DEF after, expected
  <2>. QED  BY <1>2, <1>4, <1>5, <1>6, <2>1 DEF Bits
<1>8. "AMBIGUOUS" \in Marks(env, after, d)
  <2>. HIDE DEF after
  <2>. QED  BY <1>7 DEF Marks
<1>9. Mapping(env, after) # "MAPPED"
  <2>. HIDE DEF after
  <2>. QED  BY <1>8 DEF Mapping, Worst
<1>. HIDE DEF after
<1>. QED  BY <1>9 DEF Project, Fault, after

(* The arguments name a command, ask for help or are no call.              *)
LEMMA ParseTyped ==
  ASSUME NEW args \in Seq(STRING)
  PROVE  ParseCommand(args) \in Commands \cup {"help", "invalid"}
<1>. DEFINE rest == Tail(args)
            n == Len(rest)
            V == [status : {"open", "help", "invalid"}, given : SUBSET Options,
                  pending : Options \cup {""}]
            base == [status |-> "open", given |-> {}, pending |-> ""]
            F == [p \in V \X (1..n) |-> TakeArgument(p[1], rest[p[2]])]
            Step(h) == [t \in SUBSET (1..n) |->
                          IF t = {} THEN base ELSE TakeArgument(h[t \ {Max(t)}], rest[Max(t)])]
            iter == CHOOSE h : h = Step(h)
<1>1. CASE args = <<>>
  BY <1>1 DEF ParseCommand
<1>2. CASE args # <<>>
  <2>1. rest \in Seq(STRING) /\ n \in Nat /\ DOMAIN rest = 1..n /\ \A i \in 1..n : rest[i] \in STRING
    BY <1>2, HeadTailProperties, LenProperties
  <2>2. base \in V
    OBVIOUS
  <2>3. \A acc \in V, arg \in STRING : TakeArgument(acc, arg) \in V
    BY DEF TakeArgument, Options
  <2>4. F \in [V \X (1..n) -> V]
    <3>1. \A p \in V \X (1..n) : TakeArgument(p[1], rest[p[2]]) \in V
      <4>. HIDE DEF V, n, rest
      <4>. QED  BY <2>1, <2>3
    <3>. HIDE DEF V, n, rest
    <3>. QED  BY <3>1
  <2>5. FoldLeft(TakeArgument, base, rest) = iter[1..n]
    BY <2>1 DEF FoldLeft, MapThenFoldSet
  <2>6. PICK g \in [SUBSET (1..n) -> V] : IsFold(g, base, n, F)
    <3>. HIDE DEF n, F, V, base
    <3>. QED  BY <2>1, <2>2, <2>4, FoldExists
  <2>7. g = Step(g)
    <3>1. ASSUME NEW t \in SUBSET (1..n), t # {}
          PROVE  g[t] = TakeArgument(g[t \ {Max(t)}], rest[Max(t)])
      <4>1. Max(t) \in 1..n /\ g[t \ {Max(t)}] \in V
        <5>. HIDE DEF n, V
        <5>. QED  BY <2>1, <3>1, MaxInside
      <4>. HIDE DEF V, n, base
      <4>. QED  BY <2>6, <3>1, <4>1 DEF IsFold
    <3>. HIDE DEF V, n, F, base
    <3>. QED  BY <2>6, <3>1 DEF IsFold
  <2>8. iter = Step(iter)
    <3>. HIDE DEF Step
    <3>. QED  BY <2>7
  <2>9. iter[{}] = base /\ \A m \in 1..n : iter[1..m] = TakeArgument(iter[1..(m - 1)], rest[m])
    <3>. HIDE DEF n, iter, base
    <3>0. n \in Nat
      BY <2>1
    <3>. HIDE DEF rest, V, F
    <3>1. {} \in SUBSET (1..n) /\ \A m \in 1..n : 1..m \in SUBSET (1..n)
      BY <3>0
    <3>2. \A t \in SUBSET (1..n) :
            iter[t] = IF t = {} THEN base ELSE TakeArgument(iter[t \ {Max(t)}], rest[Max(t)])
      BY <2>8, Zenon
    <3>3. \A m \in 1..n : m \in Nat \ {0}
      BY <3>0
    <3>. QED  BY <3>1, <3>2, <3>3, IntervalStep
  <2>10. FoldsBy(iter, V, base, n, F)
    <3>. HIDE DEF iter, V, base
    <3>. QED  BY <2>9 DEF FoldsBy
  <2>11. iter[1..n] \in V
    <3>. HIDE DEF n, F, V, iter, base, rest
    <3>1. n \in 0..n
      BY <2>1
    <3>. QED  BY <2>1, <2>2, <2>4, <2>10, <3>1, FoldStays
  <2>12. FoldLeft(TakeArgument, base, rest).status \in {"open", "help", "invalid"}
    BY <2>5, <2>11
  <2>. QED  BY <1>2, <2>12 DEF ParseCommand
<1>. QED  BY <1>1, <1>2

-------------------------------------------------------------------------------
(* The variables keep their types, and a success stays one of the adopted  *)
(* policy: the request it was decided for does not change any more.        *)

Claimed ==
  /\ {"observed", "claims", "path"} \subseteq DOMAIN request
  /\ request.claims \in [Dimensions -> Evidence] /\ request.path.words \in Seq(States)

Ended == pc = "done" => result.verdict # "none"

RecoveryInv == IInv /\ TypeOK /\ Claimed /\ Ended /\ HealsCodewords /\ HealedIsDirect

(* The results a command can have, with and without a failure.             *)
LEMMA ResultTyped ==
  /\ \A code \in Codes, mutation \in Mutations :
       Failed(code, mutation) \in [verdict : Verdicts, code : Codes, mutation : Mutations]
  /\ \A verdict \in Verdicts, mutation \in Mutations :
       Succeeded(verdict, mutation) \in [verdict : Verdicts, code : Codes, mutation : Mutations]
  /\ \A code, mutation : Failed(code, mutation).verdict = "failed"
  /\ \A verdict, mutation : Succeeded(verdict, mutation).verdict = verdict
BY DEF Failed, Succeeded, Verdicts, Codes

(* Every command without a session decides for a result of its type.       *)
LEMMA DecidedTyped ==
  ASSUME RecoveryInv, Validate \/ Diff \/ (Heal /\ result' # result)
  PROVE  /\ result' \in [verdict : Verdicts, code : Codes, mutation : Mutations]
         /\ result'.verdict \in {"failed", "thrown", "valid", "drift", "planned"}
<1>. DEFINE a == Analyze(Environment, request)
            p == Plan(Environment, request)
            Good(r) == /\ r \in [verdict : Verdicts, code : Codes, mutation : Mutations]
                       /\ r.verdict \in {"failed", "thrown", "valid", "drift", "planned"}
<1>1. /\ ~a.ok => a.code \in {"BLOCKED", "FAILED", "AMBIGUOUS"}
      /\ ~p.ok => p.code \in Codes
  BY AnalysisCode, PlanTyped DEF Outcomes
<1>2. \A code \in Codes : Good(Failed(code, "NOT_STARTED"))
  BY ResultTyped DEF Mutations
<1>3. \A verdict \in {"thrown", "valid", "drift", "planned"} : Good(Succeeded(verdict, "NOT_STARTED"))
  BY ResultTyped DEF Mutations, Verdicts
<1>4. {"BLOCKED", "FAILED", "AMBIGUOUS"} \subseteq Codes
  BY DEF Codes
<1>5. scenario.desired \in {"semantic", "surface", "unreadable"}
  BY ScenariosAssumption DEF RecoveryInv, IInv, Files
<1>. HIDE DEF a, p, Good
<1>6. CASE Validate
  <2>1. Good(ValidateSemantic)
    BY <1>1, <1>2, <1>3, <1>4 DEF ValidateSemantic, a
  <2>2. scenario.desired # "semantic" => Good(ValidateSurface)
    BY <1>2, <1>3, <1>4, <1>5 DEF ValidateSurface
  <2>. QED  BY <1>6, <2>1, <2>2 DEF Validate, Finish, Good
<1>7. CASE Diff
  <2>1. Good(DiffSemantic)
    BY <1>1, <1>2, <1>3, <1>4 DEF DiffSemantic, p
  <2>2. Good(result')
    BY <1>2, <1>3, <1>4, <1>5, <1>7, <2>1 DEF Diff, Finish
  <2>. QED  BY <2>2 DEF Good
<1>8. CASE Heal /\ result' # result
  <2>1. HealRefused \in {"FAILED", "BLOCKED", ""}
    BY <1>5 DEF HealRefused
  <2>2. \/ result' = Failed(HealRefused, "NOT_STARTED") /\ HealRefused # ""
        \/ result' = Failed(p.code, "NOT_STARTED") /\ ~p.ok
    BY <1>8 DEF Heal, Finish, p
  <2>3. Good(result')
    BY <1>1, <1>2, <1>4, <2>1, <2>2
  <2>. QED  BY <2>3 DEF Good
<1>. QED  BY <1>6, <1>7, <1>8

(* A session that heals has inverted a codeword, under a profile that does *)
(* not read the claims.                                                    *)
LEMMA HealingHolds ==
  ASSUME RecoveryInv, RunSession
  PROVE  /\ result' \in [verdict : Verdicts, code : Codes, mutation : Mutations]
         /\ result'.verdict \in {"failed", "healed"} /\ recorded' \in BOOLEAN
         /\ target'.document \in Documents /\ target'.id = target.id
         /\ target'.version \in {target.version, target.version + 1}
         /\ HealsCodewords' /\ HealedIsDirect'
<1>. DEFINE p == Plan(Environment, request)
            expected == ExpectedDocument(request.observed, p.ops)
<1>1. p.ok /\ p.ops # {} /\ request.observed \in Documents
  BY DEF RecoveryInv, IInv, PlanCarried, Files, RunSession
<1>2. \A o \in p.ops : o.to \in Bits
  BY <1>1, PlanTyped
<1>3. expected \in Documents /\ [expected EXCEPT !.carrier = "malformed"] \in Documents
  <2>. HIDE DEF p
  <2>. QED  BY <1>1, <1>2, ExpectedTyped
<1>4. target = [document |-> target.document, id |-> target.id, version |-> target.version]
      /\ target.document \in Documents
  BY DEF RecoveryInv, IInv, Files, TypeOK
<1>5. UNCHANGED <<scenario, request>>
  BY DEF RunSession, inputs
<1>6. \/ /\ \E code \in Codes, mutation \in Mutations : result' = Failed(code, mutation)
         /\ \/ UNCHANGED <<target, recorded>>
            \/ /\ recorded' \in BOOLEAN
               /\ \E document \in {target.document, expected, [expected EXCEPT !.carrier = "malformed"]} :
                    target' = [target EXCEPT !.document = document, !.version = @ + 1]
      \/ /\ VerifiesAs(expected, p.analysis.target) /\ recorded' = TRUE
         /\ target' = [target EXCEPT !.document = expected, !.version = @ + 1]
         /\ result' = Succeeded("healed", "MUTATED")
  <2>. HIDE DEF p, expected
  <2>. QED  BY DEF RunSession, Finish, Mutations, p, expected
<1>7. recorded \in BOOLEAN
  BY DEF RecoveryInv, TypeOK
<1>. HIDE DEF expected
<1>8. CASE \E code \in Codes, mutation \in Mutations : result' = Failed(code, mutation)
  <2>1. result' \in [verdict : Verdicts, code : Codes, mutation : Mutations]
        /\ result'.verdict = "failed"
    BY <1>8, ResultTyped
  <2>2. result' # Succeeded("healed", "MUTATED")
    BY <2>1, ResultTyped
  <2>3. \/ UNCHANGED <<target, recorded>>
        \/ /\ recorded' \in BOOLEAN
           /\ \E document \in Documents :
                target' = [target EXCEPT !.document = document, !.version = @ + 1]
    BY <1>3, <1>4, <1>6, <2>2
  <2>4. /\ recorded' \in BOOLEAN
        /\ target'.document \in Documents /\ target'.id = target.id
        /\ target'.version \in {target.version, target.version + 1}
    BY <1>4, <1>7, <2>3
  <2>. QED  BY <2>1, <2>4 DEF HealsCodewords, HealedIsDirect
<1>9. CASE /\ VerifiesAs(expected, p.analysis.target) /\ recorded' = TRUE
           /\ target' = [target EXCEPT !.document = expected, !.version = @ + 1]
           /\ result' = Succeeded("healed", "MUTATED")
  <2>1. /\ result' \in [verdict : Verdicts, code : Codes, mutation : Mutations]
        /\ result'.verdict = "healed"
    BY <1>9, ResultTyped DEF Verdicts, Mutations
  <2>2. /\ target'.document \in Documents /\ target'.id = target.id
        /\ target'.version = target.version + 1
    BY <1>3, <1>4, <1>9
  <2>3. /\ Project(Environment, request).ok
        /\ p.ops = InverseOperations(StateOf(request.observed), p.analysis.target)
        /\ p.analysis.target = {} /\ StateOf(request.observed) \in Codewords
    BY <1>1, PlanOfOperations DEF RecoveryInv, Claimed
  <2>4. HealsCodewords'
    BY <1>5, <2>3 DEF HealsCodewords, Environment
  <2>5. HealedIsDirect'
    <3>. SUFFICES ASSUME "claims" \in scenario.env.profile.sources PROVE FALSE
      BY <1>5 DEF HealedIsDirect
    <3>1. Environment # NoEnvironment /\ Environment = scenario.env
      BY DEF NoEnvironment, Environment
    <3>2. /\ {"observed", "claims"} \subseteq Environment.profile.sources
          /\ Environment.profile.sources \subseteq {"observed", "claims"}
      BY <3>1, ProfilesAssumption DEF RecoveryInv, IInv, Files
    <3>3. {} \in States
      BY DEF States
    <3>4. ~Project(Environment, [request EXCEPT !.observed = expected]).ok
      <4>. HIDE DEF p
      <4>. QED  BY <1>1, <2>3, <3>2, <3>3, ClaimsDisagree DEF RecoveryInv, Claimed, expected
    <3>. QED  BY <1>9, <3>4 DEF VerifiesAs
  <2>. QED  BY <1>9, <2>1, <2>2, <2>4, <2>5
<1>. QED  BY <1>6, <1>8, <1>9

(* A step that decides for no success, or for nothing, keeps what was said *)
(* of one.                                                                 *)
LEMMA NoNewSuccess ==
  ASSUME RecoveryInv,
         \/ result'.verdict # "healed"
         \/ UNCHANGED <<scenario, request, result>>
  PROVE  HealsCodewords' /\ HealedIsDirect'
BY DEF RecoveryInv, HealsCodewords, HealedIsDirect, Environment

LEMMA RecoveryStarts == Init => RecoveryInv
<1>. SUFFICES ASSUME Init PROVE RecoveryInv
  OBVIOUS
<1>1. IInv
  BY InitInvariant
<1>2. Claimed /\ target.document \in Documents /\ request.observed \in Documents
      /\ command \in Commands \cup {"none"}
  BY ScenariosAssumption DEF Init, Claimed
<1>3. /\ result \in [verdict : Verdicts, code : Codes, mutation : Mutations]
      /\ result.verdict = "none" /\ Ended
  BY ResultTyped DEF Init, Ended, Verdicts, Mutations, Succeeded
<1>4. TypeOK
  <2>1. bound \in [id : Nat, version : Nat] /\ target.id \in Nat /\ target.version \in Nat
    BY DEF Init
  <2>2. seen \in {Unread} /\ recorded \in BOOLEAN
    BY DEF Init
  <2>3. exit \in -1..2 /\ edits \in 0..MaxEdits /\ pc = "start"
    BY EditsAssumption DEF Init
  <2>. QED  BY <1>2, <1>3, <2>1, <2>2, <2>3 DEF TypeOK
<1>. QED  BY <1>1, <1>2, <1>3, <1>4 DEF RecoveryInv, HealsCodewords, HealedIsDirect

LEMMA RecoveryStep == RecoveryInv /\ [Next]_vars => RecoveryInv'
<1>. SUFFICES ASSUME RecoveryInv, [Next]_vars PROVE RecoveryInv'
  OBVIOUS
<1>0. IInv' /\ TypeOK /\ Claimed /\ Ended
  BY StepInvariant DEF RecoveryInv
<1>. DEFINE Results == [verdict : Verdicts, code : Codes, mutation : Mutations]
<1>1. CASE ParseArguments
  <2>1. scenario.args \in Seq(STRING)
    BY ScenariosAssumption DEF RecoveryInv, IInv, Files
  <2>2. command' \in Commands \cup {"help", "invalid"} /\ exit' \in -1..2
        /\ pc' \in {"command", "exit"}
    BY <1>0, <1>1, <2>1, ParseTyped DEF ParseArguments, TypeOK
  <2>3. TypeOK'
    BY <1>0, <1>1, <2>2 DEF ParseArguments, TypeOK, inputs
  <2>. QED  BY <1>0, <1>1, <2>2, <2>3, NoNewSuccess DEF ParseArguments, inputs, RecoveryInv, Claimed, Ended
<1>2. CASE CaptureTarget
  <2>1. TypeOK'
    BY <1>0, <1>2 DEF CaptureTarget, TypeOK, Seen
  <2>. QED  BY <1>0, <1>2, <2>1, NoNewSuccess DEF CaptureTarget, RecoveryInv, Claimed, Ended
<1>3. CASE BindRequest
  <2>1. result.verdict = "none" /\ seen.document \in Documents
    BY <1>3 DEF BindRequest, RecoveryInv, IInv, Judged, Files
  <2>2. \/ /\ request' = [request EXCEPT !.observed = seen.document]
           /\ pc' = "command" /\ seen' = Unread /\ UNCHANGED result
        \/ /\ result' = Failed("STALE_STATE", "NOT_STARTED") /\ pc' = "done"
           /\ UNCHANGED <<request, seen>>
    BY <1>3 DEF BindRequest, Finish
  <2>3. Failed("STALE_STATE", "NOT_STARTED") \in Results
        /\ Failed("STALE_STATE", "NOT_STARTED").verdict = "failed"
    <3>1. "STALE_STATE" \in Codes /\ "NOT_STARTED" \in Mutations
      BY DEF Codes, Mutations
    <3>. QED  BY <3>1, ResultTyped
  <2>4. Claimed' /\ request'.observed \in Documents
    BY <1>0, <2>1, <2>2 DEF Claimed, TypeOK
  <2>5. result' \in Results /\ result'.verdict \in {"none", "failed"} /\ Ended'
    BY <1>0, <2>1, <2>2, <2>3 DEF TypeOK, Ended
  <2>6. TypeOK'
    BY <1>0, <1>3, <2>2, <2>4, <2>5 DEF BindRequest, TypeOK
  <2>. QED  BY <1>0, <2>4, <2>5, <2>6, NoNewSuccess DEF RecoveryInv
<1>4. CASE Report
  <2>1. result.verdict \in Verdicts \ {"none"}
    BY <1>0, <1>4 DEF Report, TypeOK, Ended
  <2>2. ExitCode(result.verdict, result.code) \in 0..2
    BY <2>1 DEF ExitCode, FailureExitCode, Verdicts
  <2>3. exit' \in -1..2
    BY <1>0, <1>4, <2>2 DEF Report, TypeOK
  <2>4. TypeOK'
    BY <1>0, <1>4, <2>3 DEF Report, TypeOK, inputs
  <2>. QED  BY <1>0, <1>4, <2>4, NoNewSuccess DEF Report, inputs, RecoveryInv, Claimed, Ended
<1>5. CASE Validate \/ Diff
  <2>1. result' \in Results /\ result'.verdict \in {"failed", "thrown", "valid", "drift", "planned"}
    <3>1. Validate \/ Diff \/ (Heal /\ result' # result)
      BY <1>5
    <3>. QED  BY <3>1, DecidedTyped
  <2>2. /\ pc' = "done"
        /\ UNCHANGED <<scenario, request, bound, target, command, seen, recorded, exit, edits>>
    BY <1>5 DEF Validate, Diff, Finish, inputs
  <2>3. TypeOK'
    BY <1>0, <2>1, <2>2 DEF TypeOK
  <2>4. Claimed' /\ Ended'
    BY <1>0, <2>1, <2>2 DEF Claimed, Ended
  <2>. QED  BY <1>0, <2>1, <2>3, <2>4, NoNewSuccess DEF RecoveryInv
<1>6. CASE Heal
  <2>1. UNCHANGED <<scenario, request, bound, target, command, seen, recorded, exit, edits>>
    BY <1>6 DEF Heal, inputs
  <2>2. \/ result' = result /\ pc' \in {"observe", "session"}
        \/ pc' = "done"
    BY <1>6 DEF Heal, Finish
  <2>3. CASE result' # result
    <3>1. result' \in Results /\ result'.verdict \in {"failed", "thrown", "valid", "drift", "planned"}
      BY <1>6, <2>3, DecidedTyped
    <3>2. TypeOK' /\ Claimed' /\ Ended'
      BY <1>0, <2>1, <2>2, <3>1 DEF TypeOK, Claimed, Ended
    <3>. QED  BY <1>0, <3>1, <3>2, NoNewSuccess DEF RecoveryInv
  <2>4. CASE result' = result
    <3>1. pc' # "done"
      <4>1. result.verdict = "none"
        BY <1>6 DEF Heal, RecoveryInv, IInv, Judged
      <4>2. \A code : Failed(code, "NOT_STARTED").verdict = "failed"
        BY ResultTyped
      <4>. QED  BY <1>6, <2>4, <4>1, <4>2 DEF Heal, Finish
    <3>2. TypeOK' /\ Claimed' /\ Ended'
      BY <1>0, <2>1, <2>2, <2>4, <3>1 DEF TypeOK, Claimed, Ended
    <3>. QED  BY <1>0, <2>1, <2>4, <3>2, NoNewSuccess DEF RecoveryInv
  <2>. QED  BY <2>3, <2>4
<1>7. CASE ObserveUnchanged \/ RecordUnchanged \/ RecheckUnchanged
  <2>1. /\ UNCHANGED <<scenario, request, bound, target, command, exit, edits>>
        /\ seen' \in {seen, Seen} /\ recorded' \in BOOLEAN
        /\ \/ UNCHANGED result /\ pc' \in {"record", "recheck"}
           \/ /\ pc' = "done"
              /\ \/ \E code \in {"FAILED", "STORAGE_FAILURE"} : result' = Failed(code, "NOT_STARTED")
                 \/ result' = Succeeded("unchanged", "NOT_STARTED")
    <3>1. recorded \in BOOLEAN
      BY <1>0 DEF TypeOK
    <3>2. CASE ObserveUnchanged
      BY <3>1, <3>2 DEF ObserveUnchanged, Finish, inputs
    <3>3. CASE RecordUnchanged
      BY <3>1, <3>3 DEF RecordUnchanged, Finish, inputs
    <3>4. CASE RecheckUnchanged
      BY <3>1, <3>4 DEF RecheckUnchanged, Finish, inputs
    <3>. QED  BY <1>7, <3>2, <3>3, <3>4
  <2>2. Seen \in [document : Documents, id : Nat]
    BY <1>0 DEF TypeOK, Seen
  <2>3. /\ \A code \in {"FAILED", "STORAGE_FAILURE"} :
             Failed(code, "NOT_STARTED") \in Results /\ Failed(code, "NOT_STARTED").verdict = "failed"
        /\ Succeeded("unchanged", "NOT_STARTED") \in Results
        /\ Succeeded("unchanged", "NOT_STARTED").verdict = "unchanged"
    <3>1. /\ {"FAILED", "STORAGE_FAILURE"} \subseteq Codes /\ "NOT_STARTED" \in Mutations
          /\ "unchanged" \in Verdicts
      BY DEF Codes, Mutations, Verdicts
    <3>. QED  BY <3>1, ResultTyped
  <2>4. /\ result' \in Results /\ Ended'
        /\ UNCHANGED result \/ result'.verdict # "healed"
    <3>. HIDE DEF Results
    <3>1. result \in Results
      BY <1>0 DEF TypeOK, Results
    <3>. QED  BY <2>1, <2>3, <3>1 DEF Ended
  <2>5. TypeOK' /\ Claimed'
    BY <1>0, <2>1, <2>2, <2>4 DEF TypeOK, Claimed
  <2>. QED  BY <1>0, <2>1, <2>4, <2>5, NoNewSuccess DEF RecoveryInv
<1>8. CASE RunSession
  <2>1. /\ UNCHANGED <<scenario, request, bound, command, seen, exit, edits>> /\ pc' = "done"
    BY <1>8 DEF RunSession, Finish, inputs
  <2>2. /\ result' \in Results /\ result'.verdict \in {"failed", "healed"} /\ recorded' \in BOOLEAN
        /\ target'.document \in Documents /\ target'.id = target.id
        /\ target'.version \in {target.version, target.version + 1}
        /\ HealsCodewords' /\ HealedIsDirect'
    BY <1>8, HealingHolds
  <2>3. TypeOK'
    BY <1>0, <2>1, <2>2 DEF TypeOK
  <2>4. Claimed' /\ Ended'
    BY <1>0, <2>1, <2>2 DEF Claimed, Ended
  <2>. QED  BY <1>0, <2>2, <2>3, <2>4 DEF RecoveryInv
<1>9. CASE EditTarget
  <2>1. TypeOK'
    BY <1>0, <1>9, EditsAssumption DEF EditTarget, TypeOK, inputs
  <2>. QED  BY <1>0, <1>9, <2>1, NoNewSuccess DEF EditTarget, inputs, RecoveryInv, Claimed, Ended
<1>10. CASE UNCHANGED vars
  <2>1. TypeOK' /\ Claimed' /\ Ended'
    BY <1>0, <1>10 DEF vars, inputs, TypeOK, Claimed, Ended
  <2>. QED  BY <1>0, <1>10, <2>1, NoNewSuccess DEF vars, inputs, RecoveryInv
<1>. QED  BY <1>1, <1>2, <1>3, <1>4, <1>5, <1>6, <1>7, <1>8, <1>9, <1>10 DEF Next, EngineStep

(* The adopted policy leaves one recovery: to the only recognized state of *)
(* the orbit, from a codeword to the zero state, and never under a profile *)
(* that reads the claims (SemanticMapping.cpp:391,                         *)
(* NativeExecutionBindings.cpp:404).                                       *)
THEOREM OnlyOneRecovery == Spec => []OneRecovery
<1>1. RecoveryInv => OneRecovery
  <2>1. TargetIsUnique
    BY OrbitApart DEF TargetIsUnique
  <2>. QED  BY <2>1 DEF RecoveryInv, OneRecovery
<1>. QED  BY <1>1, RecoveryStarts, RecoveryStep, PTL DEF Spec

(* project() does what every adopted profile declares for each defect of   *)
(* the evidence, although it never reads the declarations                  *)
(* (AdoptedSemanticDefinitions.inc:44).                                    *)
THEOREM MappingIsDeclared == Spec => []MappingAsDeclared
<1>1. RecoveryInv => MappingAsDeclared
  <2>. DEFINE profile  == Environment.profile
              Of(d)    == Sources(Environment, request, d)
              found    == UNION {Of(d) : d \in Dimensions}
              disagree == {d \in Dimensions : Bits \subseteq Of(d)}
              defects  == (found \ Bits) \cup {"disagreement" : d \in disagree}
                          \cup (IF Environment.evaluator = "exact" THEN {} ELSE {"unsupported"})
              declared == {profile.declares[x] : x \in defects}
              marks    == UNION {Marks(Environment, request, d) : d \in Dimensions}
  <2>. SUFFICES ASSUME RecoveryInv, Environment # NoEnvironment, request.observed.carrier = "array",
                       found \cap {"unproven", "tampered"} = {}
                PROVE  Worst(marks) = Worst(declared)
    BY DEF MappingAsDeclared, Mapping
  <2>1. /\ profile.sources \subseteq {"observed", "claims"}
        /\ Environment.evaluator \in {"exact", "unsupported"}
        /\ profile.declares = [absent |-> "BLOCKED", nonbinary |-> "FAILED",
                               unsupported |-> "BLOCKED", disagreement |-> "AMBIGUOUS"]
    BY ProfilesAssumption DEF RecoveryInv, IInv, Files, Environment
  <2>2. \A d \in Dimensions : Of(d) \subseteq Evidence \ {"unproven", "tampered"}
    <3>1. ASSUME NEW d \in Dimensions PROVE Of(d) \subseteq Evidence
      <4>1. request.observed.bits[d] \in Evidence /\ request.claims[d] \in Evidence
        BY DEF RecoveryInv, Claimed, TypeOK, Documents
      <4>. QED  BY <2>1, <4>1 DEF Sources
    <3>2. \A d \in Dimensions : Of(d) \subseteq found
      OBVIOUS
    <3>. HIDE DEF found, Of
    <3>. QED  BY <3>1, <3>2
  <2>3. \A d \in Dimensions :
          Marks(Environment, request, d) =
            {"MAPPED"}
            \cup (IF Environment.evaluator = "unsupported" THEN {"BLOCKED"} ELSE {})
            \cup (IF "nonbinary" \in Of(d) THEN {"FAILED"} ELSE {})
            \cup (IF "absent" \in Of(d) THEN {"BLOCKED"} ELSE {})
            \cup (IF Bits \subseteq Of(d) THEN {"AMBIGUOUS"} ELSE {})
    <3>1. \A d \in Dimensions :
            /\ Of(d) \cap {"nonbinary", "tampered"} # {} <=> "nonbinary" \in Of(d)
            /\ Of(d) \cap {"absent", "unproven"} # {} <=> "absent" \in Of(d)
      <4>. HIDE DEF Of
      <4>. QED  BY <2>2
    <3>. QED  BY <3>1 DEF Marks
  <2>4. /\ "FAILED" \in marks <=> "nonbinary" \in found
        /\ "BLOCKED" \in marks <=> "absent" \in found \/ Environment.evaluator = "unsupported"
        /\ "AMBIGUOUS" \in marks <=> disagree # {}
    <3>. HIDE DEF Of
    <3>1. PICK d \in Dimensions : TRUE
      BY DimensionsAssumption
    <3>2. \A code : code \in marks <=> \E e \in Dimensions : code \in Marks(Environment, request, e)
      OBVIOUS
    <3>. HIDE DEF marks
    <3>3. "FAILED" \in marks <=> "nonbinary" \in found
      BY <2>3, <3>2
    <3>4. "BLOCKED" \in marks <=> "absent" \in found \/ Environment.evaluator = "unsupported"
      BY <2>3, <3>1, <3>2
    <3>5. "AMBIGUOUS" \in marks <=> disagree # {}
      BY <2>3, <3>2
    <3>. QED  BY <3>3, <3>4, <3>5
  <2>5. found \ Bits \subseteq {"absent", "nonbinary"}
    <3>. HIDE DEF Of
    <3>. QED  BY <2>2 DEF Evidence, Bits
  <2>6. /\ "nonbinary" \in defects <=> "nonbinary" \in found
        /\ "absent" \in defects <=> "absent" \in found
        /\ "unsupported" \in defects <=> Environment.evaluator = "unsupported"
        /\ "disagreement" \in defects <=> disagree # {}
        /\ defects \subseteq {"absent", "nonbinary", "unsupported", "disagreement"}
    <3>. HIDE DEF found, disagree
    <3>. QED  BY <2>1, <2>5 DEF Bits
  <2>7. /\ "FAILED" \in declared <=> "nonbinary" \in defects
        /\ "BLOCKED" \in declared <=> "absent" \in defects \/ "unsupported" \in defects
        /\ "AMBIGUOUS" \in declared <=> "disagreement" \in defects
    <3>. HIDE DEF defects, profile
    <3>. QED  BY <2>1, <2>6
  <2>. HIDE DEF marks, declared, found, disagree, defects
  <2>. QED  BY <2>4, <2>6, <2>7 DEF Worst
<1>. QED  BY <1>1, RecoveryStarts, RecoveryStep, PTL DEF Spec
===============================================================================
