----------------------------- MODULE MCSemanticHost ----------------------------
(***************************************************************************)
(* Small instances for TLC of what an SDK host runs on the adopted         *)
(* definitions: one command of the healing engine, or calls of an ASH      *)
(* binding provider.  The two share no state; a behaviour is of one or the *)
(* other.                                                                  *)
(***************************************************************************)
EXTENDS HealEngine, AshBinding, AdoptedDefinitions

CONSTANTS t1, t2, p1, p2

TwoThreads == {t1, t2}
TwoProviders == {p1, p2}

-------------------------------------------------------------------------------
(* Documents and requests.                                                 *)

Seed == {0, 1, 2, 3}
Doc(s) == [carrier |-> "array", bits |-> [d \in Coordinates |-> BitOf(s, d)]]
Short  == [Doc({}) EXCEPT !.bits[8] = "absent"]
Null   == [Doc({0}) EXCEPT !.bits[3] = "nonbinary"]
Long   == [Doc({}) EXCEPT !.carrier = "malformed"]

EditedDocuments == {Doc({}), Doc(Seed)}

Targets(s) == Orbit(s) \cap Catalog
WordTo(s, t) == Xor(s, t)

Path(status, s, t, words) ==
  [status |-> status, source |-> s, target |-> t, words |-> words, sealed |-> TRUE]
NoPath == Path("not_selected", {}, NoState, <<>>)
(* The witness of one codeword, and a detour by another.                   *)
Witness(s) ==
  IF Targets(s) = {} THEN NoPath
  ELSE LET t == CHOOSE t \in Targets(s) : TRUE IN Path("selected", s, t, <<WordTo(s, t)>>)
Detour(s) ==
  IF Targets(s) = {} THEN NoPath
  ELSE LET t == CHOOSE t \in Targets(s) : TRUE
           c == {0, 2, 5, 7} IN
       Path("selected", s, t, <<c, Xor(c, WordTo(s, t))>>)

Predicate(role, test) ==
  [role |-> role, mandatory |-> TRUE, test |-> test, slots |-> 0..8]
AdoptedPredicates ==
  {Predicate("MUTATION_PRECONDITION", "array"), Predicate("MUTATION_PRECONDITION", "pointers")}

Goal(s) == IF Targets(s) = {} THEN {} ELSE CHOOSE t \in Targets(s) : TRUE

Base(s) ==
  [complete |-> TRUE, bound |-> TRUE, observed |-> Doc(s),
   claims |-> Doc(s).bits,
   halt |-> FALSE, contained |-> FALSE, breached |-> FALSE, reachable |-> TRUE,
   path |-> IF s \in Catalog THEN NoPath ELSE Witness(s),
   predicates |-> AdoptedPredicates,
   selected |-> Goal(s), realized |-> TRUE, bundle |-> "adopted",
   submitted |-> [present |-> TRUE, sealed |-> TRUE,
                  ops |-> InverseOperations(s, Goal(s)), target |-> Goal(s),
                  category |-> IF Targets(s) = {} THEN "FALLBACK_REQUIRED"
                               ELSE "APPLY_CORRECTION"]]

(* One departure at a time from the base request.                          *)
Variants(s) ==
  LET b == Base(s) IN
    {b, [b EXCEPT !.complete = FALSE], [b EXCEPT !.bound = FALSE],
     [b EXCEPT !.claims[2] = "unproven"], [b EXCEPT !.claims[2] = "tampered"],
     [b EXCEPT !.claims[0] = IF b.claims[0] = "0" THEN "1" ELSE "0"],
     [b EXCEPT !.halt = TRUE], [b EXCEPT !.contained = TRUE],
     [b EXCEPT !.contained = TRUE, !.breached = TRUE], [b EXCEPT !.reachable = FALSE],
     [b EXCEPT !.path = NoPath], [b EXCEPT !.path = Detour(s)],
     [b EXCEPT !.path.status = "undecided"], [b EXCEPT !.path.status = "not_selected"],
     [b EXCEPT !.path = Path("selected", s, {8}, <<WordTo(s, {})>>)],
     [b EXCEPT !.path.source = {1}], [b EXCEPT !.path.sealed = FALSE],
     [b EXCEPT !.selected = {8}], [b EXCEPT !.realized = FALSE],
     [b EXCEPT !.bundle = "missing"], [b EXCEPT !.bundle = "corrupt"],
     [b EXCEPT !.bundle = "foreign"], [b EXCEPT !.submitted.present = FALSE],
     [b EXCEPT !.submitted.sealed = FALSE], [b EXCEPT !.submitted.ops = {}],
     [b EXCEPT !.submitted.category = "NORMALIZE_STATE"],
     [b EXCEPT !.predicates = @ \cup {Predicate("LIFECYCLE_SUCCESS_POSTCONDITION", "in_catalog")}],
     [b EXCEPT !.predicates = @ \cup {Predicate("MUTATION_PRECONDITION", "unequal")}],
     [b EXCEPT !.predicates = @ \cup {Predicate("LIFECYCLE_SUCCESS_POSTCONDITION", "unequal")}],
     [b EXCEPT !.predicates = @ \cup {Predicate("DIAGNOSTIC_ONLY", "unequal")}],
     [b EXCEPT !.predicates = @ \cup {Predicate("DIAGNOSTIC_ONLY", "unavailable")}]}

Env(profile, registry) ==
  [profile |-> profile, evaluator |-> "exact", registry |-> registry]
Direct == Env(DirectProfile, FallbackRegistry)
Claims == Env(ClaimsProfile, FallbackRegistry)

-------------------------------------------------------------------------------
(* Scenarios.                                                              *)

Sdk(name, document, in, env) ==
  [host |-> "sdk", args |-> <<>>, command |-> name, desired |-> "semantic",
   differs |-> FALSE, audited |-> TRUE, env |-> env, document |-> document, request |-> in]

Cli(args, desired, differs) ==
  [host |-> "cli", args |-> args, command |-> "none", desired |-> desired,
   differs |-> differs, audited |-> TRUE, env |-> NoEnvironment,
   document |-> Doc({}), request |-> Base({})]

ArgumentLists ==
  {<<>>, <<"--help">>, <<"path">>}
  \cup {<<c, "path", "--desired", "path">> : c \in Commands}
  \cup {<<"heal", "--desired", "--help", "path">>, <<"heal", "path", "--desired">>,
        <<"diff", "--desired", "path", "--config", "path", "path">>,
        <<"validate", "path", "--desired", "path", "--audit", "path", "--help">>,
        <<"validate", "--desired", "path">>}

(* Every codeword and its neighbour in the other recognized coset.         *)
Compatible == CanonicalCode \cup {Xor(c, {8}) : c \in CanonicalCode}

HostScenarios ==
  UNION {{Sdk("heal", Doc(s), in, Direct) : in \in Variants(s)} : s \in {{}, Seed, {0}}}
  \cup {Sdk("heal", Doc(Seed), in, Claims) : in \in Variants(Seed)}
  \cup {Sdk("heal", Doc({}), in, Direct) : in \in Variants(Seed)}
  \cup {Sdk("heal", Doc(s), Base(s), Direct) : s \in Compatible}
  \cup {Sdk("heal", d, Base({}), Direct) : d \in {Short, Null, Long}}
  \cup {Sdk("heal", Doc({0}), Base({0}), Env(DirectProfile, r)) :
          r \in {{}, {[rank |-> 1, candidate |-> {4}], [rank |-> 2, candidate |-> {8}]}}}
  \cup {Sdk("heal", Doc({}), Base({}), [Direct EXCEPT !.evaluator = "unsupported"]),
        Sdk("heal", Doc({0}), [Base({0}) EXCEPT !.reachable = FALSE], Env(DirectProfile, {})),
        [Sdk("heal", Doc({}), Base({}), Direct) EXCEPT !.audited = FALSE]}
  \cup {Sdk(c, Doc(Seed), in, Direct) : in \in Variants(Seed), c \in {"validate", "diff"}}
  \cup {Sdk(c, Doc({}), Base({}), env) : c \in Commands, env \in {Direct, NoEnvironment}}
  \cup {Cli(a, "surface", x) : a \in ArgumentLists, x \in BOOLEAN}
  \cup {Cli(a, d, FALSE) : a \in ArgumentLists, d \in {"semantic", "unreadable"}}

-------------------------------------------------------------------------------
(* Bindings of a provider.                                                 *)

Entry(id, word, defined) == [id |-> id, word |-> word, defined |-> defined]
GenerationContext ==
  [complete |-> TRUE, sealed |-> TRUE, seed |-> Seed, normalization |-> <<Seed>>,
   registry |-> {Entry("stay", {}, TRUE), Entry("move", {4, 5, 6, 7}, TRUE)},
   sequence |-> <<"stay">>, depth |-> 1, subject |-> {}, covered |-> TRUE]

Binding(in, g) ==
  [env |-> Direct, context |-> TRUE, request |-> in, generation |-> g,
   subjects |-> {Seed, {}}, words |-> {Seed, {1}}, registry |-> g.registry,
   depth |-> 1, subject |-> {}]

(* Faults of generation meet the seed only.                                *)
Faulty(g) == [Binding(Base({}), g) EXCEPT !.subjects = {Seed}, !.words = {Seed}]

HostBindings ==
  LET g == GenerationContext IN
    {Binding(Base(Seed), g),
     [Binding(Base(Seed), g) EXCEPT !.context = FALSE, !.depth = 0, !.subject = NoState],
     Binding([Base(Seed) EXCEPT !.halt = TRUE], g),
     Faulty([g EXCEPT !.sequence = <<"stay", "move">>]),
     Faulty([g EXCEPT !.sequence = <<"gone">>, !.registry = @ \cup {Entry("stay", Seed, FALSE)}]),
     Faulty([g EXCEPT !.sequence = <<"jump">>, !.subject = {8},
                      !.registry = @ \cup {Entry("jump", {8}, TRUE)}]),
     Faulty([g EXCEPT !.normalization = <<{1}>>]),
     Faulty([g EXCEPT !.normalization = <<>>]),
     Faulty([g EXCEPT !.depth = 9]),
     Faulty([g EXCEPT !.subject = {8}]),
     Faulty([g EXCEPT !.covered = FALSE])}

-------------------------------------------------------------------------------
(* One or the other.                                                       *)

EngineOff ==
  /\ scenario = Cli(<<>>, "surface", FALSE) /\ request = scenario.request
  /\ bound = [id |-> 0, version |-> 0]
  /\ target = [document |-> scenario.document, id |-> 1, version |-> 1]
  /\ pc = "exit" /\ command = "none" /\ seen = Unread
  /\ result = Succeeded("none", "NOT_STARTED") /\ recorded = FALSE
  /\ exit = -1 /\ edits = 0

ProviderOff ==
  /\ bindings = Binding(Base(Seed), GenerationContext)
  /\ retained = [p \in Providers |-> {}] /\ handed = {} /\ plans = {}
  /\ job = [t \in Threads |-> Idle] /\ calls = MaxCalls

HostInit ==
  \/ Init /\ ProviderOff
  \/ EngineOff /\ ProviderInit

HostNext ==
  \/ Next /\ UNCHANGED providerVars
  \/ ProviderNext /\ UNCHANGED vars

HostSpec ==
  /\ HostInit /\ [][HostNext]_<<vars, providerVars>>
  /\ WF_vars(EngineStep /\ UNCHANGED providerVars)
  /\ \A t \in Threads :
       WF_providerVars((RetainDiagnosticChain(t) \/ Return(t)) /\ UNCHANGED vars)

(* Every command ends, and every call of a provider returns.               *)
HostFinishes == CommandEnds /\ CallsReturn
===============================================================================
