------------------------------ MODULE AshSemantics -----------------------------
(***************************************************************************)
(* The semantic environment (SemanticMapping.cpp): how a complete request  *)
(* is projected to a state of nine bits, how the state is diagnosed and    *)
(* classified, and when a repair plan exists and is authorized.            *)
(*                                                                         *)
(* A state is the set of the dimensions whose bit is 1.  A request `in` is *)
(* a record; fields that stand for a group of identity and hash checks     *)
(* with one outcome are Booleans (`complete`, `bound`, `sealed`).  Faults  *)
(* carry the phase and the code the program returns.  Ladders of IF keep   *)
(* the order of the early returns, which decides between BLOCKED and       *)
(* FAILED when several checks fail.  An intermediate result that is used   *)
(* often is the one element of a set, which TLC evaluates once.            *)
(***************************************************************************)
EXTENDS Integers, Sequences, FiniteSets, SequencesExt

CONSTANTS
  Dimensions,  \* the coordinates of a state
  Codewords,   \* the code C
  Catalog,     \* the recognized valid states K
  Rules        \* the rules of the adopted policy bundle

States  == SUBSET Dimensions
NoState == {-1}

ASSUME DimensionsAssumption == Dimensions \subseteq Nat /\ Dimensions # {}
ASSUME CodeAssumption == Codewords \subseteq States
ASSUME CatalogAssumption == Catalog \subseteq States
(* The adopted rules lead to the zero state.                               *)
ASSUME RulesAssumption == \A r \in Rules : r.target = {}

-------------------------------------------------------------------------------
(* States and the code.                                                    *)

Xor(s, t) == (s \ t) \cup (t \ s)

Orbit(s) == {Xor(s, c) : c \in Codewords}

(* The code is linear, and no codeword joins two recognized states.        *)
ASSUME LinearAssumption ==
  {} \in Codewords /\ \A c, d \in Codewords : Xor(c, d) \in Codewords
ASSUME ApartAssumption == \A s, t \in Catalog : Xor(s, t) \in Codewords => s = t

Compose(s, words) == FoldLeft(Xor, s, words)

Admissibility(s) ==
  IF s \in Catalog THEN "VALID"
  ELSE IF Orbit(s) \cap Catalog # {} THEN "TRANSFORMATION_COMPATIBLE"
  ELSE "TRANSFORMATION_INCOMPATIBLE"

-------------------------------------------------------------------------------
(* Projection.  The evidence a source holds about one dimension: a bit; or *)
(* no value; a value that is no bit; a claim whose source, provenance or   *)
(* kind is unavailable; a claim whose metadata or binding is wrong.        *)

Bits     == {"0", "1"}
Evidence == Bits \cup {"absent", "nonbinary", "unproven", "tampered"}

Worst(statuses) ==
  IF "FAILED" \in statuses THEN "FAILED"
  ELSE IF "BLOCKED" \in statuses THEN "BLOCKED"
  ELSE IF "AMBIGUOUS" \in statuses THEN "AMBIGUOUS" ELSE "MAPPED"

(* What a piece of evidence says, over all the sources the profile binds.  *)
Sources(env, in, d) ==
  {IF source = "observed" THEN in.observed.bits[d] ELSE in.claims[d] :
     source \in env.profile.sources}

(* Mutant: absent evidence fails the projection.                           *)
Marks_AbsentFails(env, in, d) ==
  LET evidence == Sources(env, in, d) IN
    {"MAPPED"}
    \cup (IF evidence \cap {"nonbinary", "tampered", "absent"} # {} THEN {"FAILED"} ELSE {})
    \cup (IF Bits \subseteq evidence THEN {"AMBIGUOUS"} ELSE {})

Marks(env, in, d) ==
  LET evidence == Sources(env, in, d) IN
    {"MAPPED"}
    \cup (IF in.observed.carrier = "malformed" THEN {"FAILED"} ELSE {})
    \cup (IF env.evaluator = "unsupported" THEN {"BLOCKED"} ELSE {})
    \cup (IF evidence \cap {"nonbinary", "tampered"} # {} THEN {"FAILED"} ELSE {})
    \cup (IF evidence \cap {"absent", "unproven"} # {} THEN {"BLOCKED"} ELSE {})
    \cup (IF Bits \subseteq evidence THEN {"AMBIGUOUS"} ELSE {})

Mapping(env, in) == Worst(UNION {Marks(env, in, d) : d \in Dimensions})

StateOf(document) == {d \in Dimensions : document.bits[d] = "1"}

Fault(phase, code) == [ok |-> FALSE, phase |-> phase, code |-> code]

Project(env, in) ==
  IF ~in.complete THEN Fault("PROJECT", "BLOCKED")
  ELSE IF ~in.bound THEN Fault("PROJECT", "FAILED")
  ELSE IF Mapping(env, in) # "MAPPED" THEN Fault("PROJECT", Mapping(env, in))
  ELSE [ok |-> TRUE, state |-> StateOf(in.observed)]

-------------------------------------------------------------------------------
(* Classification.                                                         *)

RecoveryForClass(class) ==
  CASE class = "STABLE" -> "NO_ACTION"
    [] class = "UNSTABLE" -> "NORMALIZE_STATE"
    [] class = "CORRECTABLE" -> "APPLY_CORRECTION"
    [] class = "DEGRADED" -> "FALLBACK_REQUIRED"
    [] class = "CONTAINED" -> "CONTAINMENT_REQUIRED"
    [] class = "FAILED" -> "ESCALATION_REQUIRED"
    [] class = "SAFE_HALT" -> "TERMINAL_NO_RECOVERY"

(* Mutant: a contained lifecycle is classified by its state.               *)
Classify_HaltOnly(s, in, known, fallback) ==
  IF in.halt THEN "SAFE_HALT"
  ELSE IF Admissibility(s) = "VALID" THEN "STABLE"
  ELSE IF known THEN "CORRECTABLE" ELSE "CONTAINED"

Classify(s, in, known, fallback) ==
  IF in.halt THEN "SAFE_HALT"
  ELSE IF in.contained THEN "CONTAINED"
  ELSE CASE Admissibility(s) = "VALID" -> "STABLE"
         [] Admissibility(s) = "TRANSFORMATION_COMPATIBLE" ->
              IF known THEN "CORRECTABLE" ELSE "UNSTABLE"
         [] Admissibility(s) = "TRANSFORMATION_INCOMPATIBLE" ->
              IF fallback THEN "DEGRADED" ELSE "FAILED"

(* The recovery of a blocked category: a breached containment and an       *)
(* unreachable authority are terminal.                                     *)
Escalated(category, in) ==
  IF \/ category = "CONTAINMENT_REQUIRED" /\ in.breached
     \/ category = "ESCALATION_REQUIRED" /\ ~in.reachable
  THEN "TERMINAL_NO_RECOVERY" ELSE category

(* A selected witness names the projected state, the adopted definitions   *)
(* and its own content (sealed), and leads by codewords to a valid target. *)
WitnessHolds(s, path) ==
  /\ path.sealed /\ path.source = s
  /\ path.target \in Catalog
  /\ Len(path.words) \in 1..16
  /\ \A i \in 1..Len(path.words) : path.words[i] \in Codewords
  /\ Compose(s, path.words) = path.target

Unselected(path) == path.words = <<>> /\ path.target = NoState

(* The registered entries that may stand in for an incompatible state, and *)
(* the one of the lowest rank.                                             *)
Candidates(env, s) ==
  IF Admissibility(s) = "TRANSFORMATION_INCOMPATIBLE"
  THEN {f \in env.registry : f.candidate \in Catalog} ELSE {}

First(entries) == CHOOSE f \in entries : \A g \in entries : f.rank <= g.rank

Analysis(env, in, s) ==
  LET known  == in.path.status = "selected"
      class  == Classify(s, in, known, Candidates(env, s) # {})
  IN [ok |-> TRUE, state |-> s, class |-> class,
      recovery |-> Escalated(RecoveryForClass(class), in),
      witness |-> known,
      target |-> IF class = "DEGRADED" THEN First(Candidates(env, s)).candidate
                 ELSE IF known THEN in.path.target ELSE NoState]

AnalyzeProjection(env, in, p) ==
    IF ~p.ok THEN p
    ELSE IF in.path.status = "selected" /\ ~WitnessHolds(p.state, in.path)
    THEN Fault("CLASSIFY", "FAILED")
    ELSE IF in.path.status = "not_selected" /\ ~Unselected(in.path)
    THEN Fault("CLASSIFY", "FAILED")
    ELSE IF /\ in.path.status = "undecided" /\ ~in.halt /\ ~in.contained
            /\ Admissibility(p.state) = "TRANSFORMATION_COMPATIBLE"
    THEN Fault("CLASSIFY", "BLOCKED")
    ELSE Analysis(env, in, p.state)

Analyze(env, in) ==
  CHOOSE r \in {AnalyzeProjection(env, in, p) : p \in {Project(env, in)}} : TRUE

-------------------------------------------------------------------------------
(* Invariants of the request.  A predicate whose evidence is unavailable   *)
(* fails the evaluation whatever its role; a violated one only if it is    *)
(* mandatory and has the role asked for.                                   *)

(* The tests on a document that projects to s and the planned operations;  *)
(* `unequal` is a comparison with a member no operation touches that fails.*)
Holds(predicate, s, ops) ==
  CASE predicate.test = "pointers" -> \A o \in ops : o.slot \in predicate.slots
    [] predicate.test = "array" -> TRUE
    [] predicate.test = "in_catalog" -> s \in Catalog
    [] predicate.test \in {"unequal", "unavailable"} -> FALSE

InvariantsPass(in, role, s, ops) ==
  \A p \in in.predicates :
    /\ p.test # "unavailable"
    /\ p.role = role /\ p.mandatory => Holds(p, s, ops)

-------------------------------------------------------------------------------
(* Planning and policy.                                                    *)

BitOf(s, d) == IF d \in s THEN "1" ELSE "0"

(* The inverse rule: one replacement per differing slot, with the old bit. *)
InverseOperations(s, target) ==
  {[slot |-> d, from |-> BitOf(s, d), to |-> BitOf(target, d)] : d \in Xor(s, target)}

ExpectedDocument(document, ops) ==
  [document EXCEPT !.bits =
     [d \in Dimensions |-> IF \E o \in ops : o.slot = d
                           THEN (CHOOSE o \in ops : o.slot = d).to
                           ELSE document.bits[d]]]

(* The host must have selected this target and named the inverse rule.     *)
TargetSelected(in, target) ==
  /\ target # NoState
  /\ in.selected = target
  /\ in.realized

(* The submitted plan and request: bound to this request's snapshot,       *)
(* definitions and identities (sealed), with exactly the calculated        *)
(* operations, target and category.                                        *)
SubmissionMatches(in, a, ops) ==
  /\ in.submitted.sealed
  /\ in.submitted.ops = ops
  /\ in.submitted.target = a.target
  /\ in.submitted.category = a.recovery

(* Mutant: a rule allows any target.                                       *)
RuleAllows_AnyTarget(a, ops) ==
  \E r \in Rules : /\ r.category = a.recovery
                   /\ \A o \in ops : o.slot \in r.slots
                   /\ a.witness

RuleAllows(a, ops) ==
  \E r \in Rules : /\ r.category = a.recovery
                   /\ r.target = a.target
                   /\ \A o \in ops : o.slot \in r.slots
                   /\ a.witness

Planned(a, ops) == [ok |-> TRUE, analysis |-> a, ops |-> ops]

Authorize(in, a, ops) ==
  IF in.bundle = "missing" THEN Fault("POLICY", "BLOCKED")
  ELSE IF in.bundle = "corrupt" THEN Fault("POLICY", "FAILED")
  ELSE IF ~in.submitted.present \/ in.bundle = "foreign"
  THEN Fault("POLICY", "BLOCKED")
  ELSE IF ~SubmissionMatches(in, a, ops) THEN Fault("POLICY", "FAILED")
  ELSE IF ~RuleAllows(a, ops) THEN Fault("POLICY", "BLOCKED")
  ELSE Planned(a, ops)

Repairs == {"NORMALIZE_STATE", "APPLY_CORRECTION", "FALLBACK_REQUIRED"}

PlanRepair(in, a, ops) ==
    IF \/ ~InvariantsPass(in, "MUTATION_PRECONDITION", a.state, ops)
       \/ ~InvariantsPass(in, "LIFECYCLE_SUCCESS_POSTCONDITION", a.target, ops)
    THEN Fault("PLAN", "BLOCKED")
    ELSE IF ops = {} THEN Planned(a, ops)
    ELSE Authorize(in, a, ops)

PlanAnalysis(in, a) ==
    IF ~a.ok THEN a
    ELSE IF a.recovery = "NO_ACTION"
    THEN IF InvariantsPass(in, "LIFECYCLE_SUCCESS_POSTCONDITION", a.state, {})
         THEN Planned(a, {}) ELSE Fault("PLAN", "BLOCKED")
    ELSE IF a.recovery \notin Repairs \/ ~TargetSelected(in, a.target)
    THEN Fault("PLAN", "BLOCKED")
    ELSE CHOOSE r \in {PlanRepair(in, a, ops) :
                         ops \in {InverseOperations(a.state, a.target)}} : TRUE

Plan(env, in) == CHOOSE r \in {PlanAnalysis(in, a) : a \in {Analyze(env, in)}} : TRUE
===============================================================================
