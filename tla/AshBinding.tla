------------------------------- MODULE AshBinding ------------------------------
(***************************************************************************)
(* The ASH binding provider (AshBinding.cpp): the operations a host offers *)
(* on states, and the diagnostic chains a provider retains so that every   *)
(* reference it has handed out can be resolved.                            *)
(*                                                                         *)
(* A call computes its answer from its arguments and the provider's        *)
(* immutable bindings, and retains chains one at a time under the mutex,   *)
(* so calls of other threads come in between and may use up the retention  *)
(* budget.  A chain is named by the evidence its identity is the hash of.  *)
(***************************************************************************)
EXTENDS AshSemantics

CONSTANTS
  Threads, Providers,
  Bindings,    \* the immutable bindings a provider may be built with
  MaxChains,   \* the chains a provider retains at most (64 in the code)
  MaxBytes,    \* and their bytes (16 MiB in the code)
  MaxCalls     \* bound: the number of calls made

ASSUME BudgetAssumption == MaxChains \in Nat /\ MaxBytes \in Nat /\ MaxCalls \in Nat
ASSUME BindingsAssumption ==
  \A b \in Bindings :
    /\ b.subjects \subseteq States
    /\ b.generation.sequence \in Seq(Range(b.generation.sequence))
    /\ b.generation.normalization \in Seq(Range(b.generation.normalization))

VARIABLES
  bindings,    \* of every provider of this host; never changes
  retained,    \* the chains each provider retains
  handed,      \* the references handed out, with the provider
  plans,       \* the generation plans returned
  job,         \* what each thread has still to retain, and its answer
  calls

providerVars == <<bindings, retained, handed, plans, job, calls>>

Chain(kind, s, word, n) == [kind |-> kind, state |-> s, word |-> word, n |-> n]
Bytes(chain) == IF chain.kind \in {"generation", "emission"} THEN 3 ELSE 1

NoPlan == [seed |-> NoState, normalized |-> NoState, transformed |-> NoState,
           references |-> {}, chains |-> <<>>]

(* A job: the provider, the operation, the chains still to be retained,    *)
(* the references and the plan its answer carries, and its outcome.        *)
Idle == [provider |-> "none", op |-> "idle", todo |-> <<>>, gives |-> {},
         plan |-> NoPlan, outcome |-> "none"]

ProviderInit ==
  /\ bindings \in Bindings
  /\ retained = [p \in Providers |-> {}]
  /\ handed = {} /\ plans = {}
  /\ job = [t \in Threads |-> Idle]
  /\ calls = 0

-------------------------------------------------------------------------------
(* Answers: chains to retain in order, then a result or a failure.         *)

Answer(chains, outcome) ==
  [chains |-> chains, outcome |-> outcome, plan |-> NoPlan]
Gives(chains) == Answer(chains, "ok")
Fails(code)   == Answer(<<>>, code)

(* A provider whose bindings name a halted lifecycle refuses transitions   *)
(* and generation.                                                         *)
Halted == bindings.context /\ bindings.request.halt

Admit(s) == Gives(<<Chain("admissibility", s, {}, 0)>>)

(* The recovery category comes from the complete request, and its state    *)
(* must be the diagnosed one.                                              *)
ContextOutcome(s) ==
  LET a == Analyze(bindings.env, bindings.request) IN
    IF ~bindings.context THEN "BLOCKED"
    ELSE IF ~a.ok THEN a.code
    ELSE IF a.state # s THEN "FAILED" ELSE "ok"

(* The chain is retained before the request is looked at.                  *)
Diagnosis(s) == Answer(<<Chain("diagnosis", s, {}, 0)>>, ContextOutcome(s))

Classification(s) == Answer(<<>>, ContextOutcome(s))

(* resolveDiagnosticChain.                                                 *)
Resolves(p, chain) == chain \in retained[p]

Transformation(p, s, word, output, reference) ==
  IF Halted \/ ~Resolves(p, reference) THEN Fails("BLOCKED")
  ELSE IF word \notin Codewords \/ output # Xor(s, word) THEN Fails("FAILED")
  ELSE Gives(<<Chain("codeword", s, word, 0)>>)

Realm(s) ==
  IF s \in Catalog THEN Gives(<<Chain("realm", s, {}, 0)>>) ELSE Fails("BLOCKED")

(* Transitions are looked up by identity; the applicability conditions of  *)
(* a registered transition may be undefined.                               *)
Transition(registry, s, id) ==
  LET entries == {t \in registry : t.id = id} IN
    IF s \notin Catalog \/ entries = {} THEN Fails("BLOCKED")
    ELSE IF Cardinality(entries) > 1 THEN Fails("FAILED")
    ELSE LET t == CHOOSE t \in entries : TRUE IN
         IF ~t.defined THEN Fails("BLOCKED")
         ELSE IF t.word \notin Codewords THEN Fails("FAILED")
         ELSE Gives(<<Chain("transition", s, t.word, 0)>>)

(* A topology of depth zero has no edge and cannot be expressed.           *)
Topology(s, depth) ==
  IF s \notin Catalog THEN Fails("BLOCKED")
  ELSE IF depth \notin 0..8 THEN Fails("FAILED")
  ELSE IF depth = 0 THEN Fails("BLOCKED")
  ELSE Gives(<<Chain("topology", s, {}, depth)>>)

Axioms(s, subject) ==
  IF subject = NoState THEN Fails("BLOCKED")
  ELSE IF subject # s THEN Fails("FAILED")
  ELSE Gives([i \in 1..5 |-> Chain("axiom", s, {}, i)])

-------------------------------------------------------------------------------
(* Generation: normalize the seed by its witness, take the transitions one *)
(* after the other, expand and measure the state they lead to.  Helpers    *)
(* with stores of their own do the transitions, the topology and the       *)
(* axioms; this provider retains their chains only when all has succeeded. *)

Walk(registry, s, ids) ==
  FoldLeft(LAMBDA acc, id :
             IF acc.outcome # "ok" THEN acc
             ELSE IF Cardinality({t \in registry : t.id = id}) > 1
             THEN [acc EXCEPT !.outcome = "FAILED"]
             ELSE LET a == Transition(registry, acc.state, id) IN
                  IF a.outcome # "ok" THEN [acc EXCEPT !.outcome = a.outcome]
                  ELSE [outcome |-> "ok", state |-> Xor(acc.state, a.chains[1].word),
                        chains |-> acc.chains \o a.chains],
           [outcome |-> "ok", state |-> s, chains |-> <<>>], ids)

Normalized(s, g) == IF s \in Catalog THEN s ELSE Compose(s, g.normalization)

(* What the helpers make of the state the transitions lead to.             *)
Expansion(walk, g) ==
  LET parts == <<Realm(walk.state), Topology(walk.state, g.depth), Axioms(walk.state, g.subject)>>
      bad   == SelectInSeq(parts, LAMBDA a : a.outcome # "ok")
      Part(outcome) == [outcome |-> outcome, state |-> walk.state,
                        chains |-> IF bad = 1 THEN <<>> ELSE parts[1].chains]
  IN IF walk.outcome # "ok" THEN [walk EXCEPT !.chains = <<>>]
     ELSE IF bad # 0 THEN Part(parts[bad].outcome)
     ELSE IF ~g.covered THEN Part("FAILED")
     ELSE [outcome |-> "ok", state |-> walk.state,
           chains |-> parts[1].chains \o walk.chains \o parts[2].chains \o parts[3].chains]

(* Mutant: the chains of the realm are left out of the plan.               *)
Generated_OwnRealmOnly(s, n, e) ==
  LET own == Chain("generation", s, {}, 0)
      chains == <<e.chains[1], own>> \o Tail(e.chains)
  IN [chains |-> chains, outcome |-> "ok",
      plan |-> [seed |-> s, normalized |-> n, transformed |-> e.state,
                references |-> Range(Realm(n).chains) \cup Range(chains),
                chains |-> Tail(chains)]]

Generated(s, n, e) ==
  LET own    == Chain("generation", s, {}, 0)
      chains == Realm(n).chains \o <<e.chains[1], own>> \o Tail(e.chains)
  IN [chains |-> chains, outcome |-> "ok",
      plan |-> [seed |-> s, normalized |-> n, transformed |-> e.state,
                references |-> Range(Realm(n).chains) \cup Range(e.chains) \cup {own},
                chains |-> chains]]

Generation(s) ==
  LET g == bindings.generation
      n == Normalized(s, g)
  IN IF Halted \/ ~g.complete THEN Fails("BLOCKED")
     ELSE IF ~g.sealed \/ g.seed # s THEN Fails("FAILED")
     ELSE IF s \notin Catalog /\ g.normalization = <<>> THEN Fails("BLOCKED")
     ELSE IF n \notin Catalog \/ \E i \in DOMAIN g.normalization :
               s \notin Catalog /\ g.normalization[i] \notin Codewords
     THEN Fails("FAILED")
     ELSE CHOOSE a \in {IF e.outcome = "ok" THEN Generated(s, n, e)
                        ELSE Answer(Realm(n).chains \o e.chains, e.outcome) :
                        e \in {Expansion(w, g) : w \in {Walk(g.registry, n, g.sequence)}}} : TRUE

(* Emission checks that the plan carries the chains its references name,   *)
(* retains them all and adds its own.                                      *)
Emission(plan) ==
  IF ~(plan.references \subseteq Range(plan.chains)) THEN Fails("FAILED")
  ELSE Gives(Append(plan.chains, Chain("emission", plan.seed, {}, 0)))

-------------------------------------------------------------------------------
(* Calls.                                                                  *)

Begin(t, p, op, answer) ==
  /\ calls' = calls + 1
  /\ \E a \in {answer} :
       job' = [job EXCEPT ![t] = [provider |-> p, op |-> op, todo |-> a.chains,
                                  gives |-> Range(a.chains), plan |-> a.plan,
                                  outcome |-> a.outcome]]
  /\ UNCHANGED <<bindings, retained, handed, plans>>

EvaluateAdmissibility(t, p) ==
  \E s \in bindings.subjects : Begin(t, p, "admissibility", Admit(s))

DiagnoseState(t, p) ==
  \E s \in bindings.subjects : Begin(t, p, "diagnose", Diagnosis(s))

ClassifyState(t, p) ==
  \E s \in bindings.subjects : Begin(t, p, "classify", Classification(s))

ApplyCodewordTransformation(t, p) ==
  \E s \in bindings.subjects, output \in bindings.subjects, word \in bindings.words,
     r \in handed :
    Begin(t, p, "transform", Transformation(p, s, word, output, r.chain))

ResolveRealmIdentity(t, p) ==
  \E s \in bindings.subjects : Begin(t, p, "realm", Realm(s))

ResolveTransition(t, p) ==
  \E s \in bindings.subjects, e \in bindings.registry :
    Begin(t, p, "transition",
          IF Halted THEN Fails("BLOCKED") ELSE Transition(bindings.registry, s, e.id))

GenerateTopology(t, p) ==
  \E s \in bindings.subjects : Begin(t, p, "topology", Topology(s, bindings.depth))

EvaluateAxioms(t, p) ==
  \E s \in bindings.subjects : Begin(t, p, "axioms", Axioms(s, bindings.subject))

GenerateMaterializationPlan(t, p) ==
  \E s \in bindings.subjects : Begin(t, p, "generate", Generation(s))

PlanArtifactEmission(t, p) ==
  \E plan \in plans : Begin(t, p, "emit", Emission(plan))

(* retainDiagnosticChain: a chain that is retained already costs nothing;  *)
(* a chain over the budget fails the call, and what is retained stays.     *)
RetainedBytes(p) ==
  Cardinality({unit \in retained[p] \X (1..3) : unit[2] <= Bytes(unit[1])})

Affordable(p, chain) ==
  /\ Cardinality(retained[p]) < MaxChains
  /\ Bytes(chain) + RetainedBytes(p) <= MaxBytes

(* Mutant: a full store drops its older chains.                            *)
RetainDiagnosticChain_Evicts(t) ==
  /\ job[t].todo # <<>>
  /\ LET p == job[t].provider
         c == Head(job[t].todo)
     IN retained' = [retained EXCEPT ![p] = IF Affordable(p, c) THEN @ \cup {c} ELSE {c}]
  /\ job' = [job EXCEPT ![t].todo = Tail(@)]
  /\ UNCHANGED <<bindings, handed, plans, calls>>

RetainDiagnosticChain(t) ==
  /\ job[t].todo # <<>>
  /\ LET p == job[t].provider
         c == Head(job[t].todo)
     IN IF c \in retained[p] \/ Affordable(p, c)
        THEN /\ retained' = [retained EXCEPT ![p] = @ \cup {c}]
             /\ job' = [job EXCEPT ![t].todo = Tail(@)]
        ELSE /\ job' = [job EXCEPT ![t].todo = <<>>, ![t].outcome = "FAILED"]
             /\ UNCHANGED retained
  /\ UNCHANGED <<bindings, handed, plans, calls>>

Return(t) ==
  /\ job[t] # Idle /\ job[t].todo = <<>>
  /\ job' = [job EXCEPT ![t] = Idle]
  /\ IF job[t].outcome = "ok"
     THEN /\ handed' = handed \cup [provider : {job[t].provider}, chain : job[t].gives]
          /\ plans' = plans \cup ({job[t].plan} \ {NoPlan})
     ELSE UNCHANGED <<handed, plans>>
  /\ UNCHANGED <<bindings, retained, calls>>

Call(t) ==
  /\ job[t] = Idle /\ calls < MaxCalls
  /\ \E p \in Providers :
      \/ EvaluateAdmissibility(t, p) \/ DiagnoseState(t, p) \/ ClassifyState(t, p)
      \/ ApplyCodewordTransformation(t, p) \/ ResolveRealmIdentity(t, p)
      \/ ResolveTransition(t, p) \/ GenerateTopology(t, p) \/ EvaluateAxioms(t, p)
      \/ GenerateMaterializationPlan(t, p) \/ PlanArtifactEmission(t, p)

ProviderNext ==
  \E t \in Threads : Call(t) \/ RetainDiagnosticChain(t) \/ Return(t)

(* The threads of a host finish the calls they have begun.                 *)
ProviderFairness ==
  \A t \in Threads : WF_providerVars(RetainDiagnosticChain(t) \/ Return(t))
ProviderSpec == ProviderInit /\ [][ProviderNext]_providerVars /\ ProviderFairness

-------------------------------------------------------------------------------
(* Properties.                                                             *)

(* The variables have their types; a job that failed gives no plan later.  *)
ProviderTypeOK ==
  /\ \A p \in Providers : \A c \in retained[p] :
       c.state \in States /\ c.word \in States /\ c.n \in 0..8
  /\ \A r \in handed : r.provider \in Providers
  /\ \A t \in Threads : /\ job[t].provider \in Providers \cup {"none"}
                        /\ job[t].outcome \in {"none", "ok", "BLOCKED", "FAILED", "AMBIGUOUS"}
  /\ calls \in 0..MaxCalls

(* Every reference a provider has handed out resolves to a chain that      *)
(* provider retains, whatever later calls of any thread failed for lack of *)
(* budget (AshBinding.cpp:91, "existing references remain resolvable").    *)
ReferencesResolve == \A r \in handed : Resolves(r.provider, r.chain)

(* Retention stays within its two budgets although several threads retain. *)
RetentionBounded ==
  \A p \in Providers : /\ Cardinality(retained[p]) <= MaxChains
                       /\ RetainedBytes(p) <= MaxBytes

(* Two recognized states are never joined by a codeword, so a generation   *)
(* whose transitions lead anywhere else is refused on the way: a plan ends *)
(* in the state the seed was normalized to, which lies in the orbit of the *)
(* seed.                                                                   *)
GenerationStable ==
  \A plan \in plans :
    plan.transformed = plan.normalized /\ plan.normalized \in Orbit(plan.seed) \cap Catalog

(* A returned plan carries every chain its parts refer to, so that any     *)
(* provider, also one that has retained nothing, can emit it.              *)
PlansEmit == \A plan \in plans : Emission(plan).outcome = "ok"

(* Every call returns: no thread stays in one.                             *)
CallsReturn == \A t \in Threads : []<>(job[t] = Idle)

(* What a provider retains stays within its budgets and keeps every        *)
(* reference it has handed out resolvable.                                 *)
RetentionSound == ProviderTypeOK /\ ReferencesResolve /\ RetentionBounded

(* A returned plan can be emitted and ends where its generation must.      *)
PlansSound == PlansEmit /\ GenerationStable
===============================================================================
