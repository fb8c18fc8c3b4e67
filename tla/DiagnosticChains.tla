---------------------------- MODULE DiagnosticChains ---------------------------
(***************************************************************************)
(* Diagnostic chains (Diagnostics.cpp): the factories that start a chain   *)
(* and append to one, and the checks a chain passes before it is used.  A  *)
(* chain is a JSON value: every caller has a copy, may append to a copy    *)
(* that another has already appended to, and may have edited it.           *)
(*                                                                         *)
(* A value that may be missing is a sequence of at most one element.  The  *)
(* digests that identify diagnostics and chains are what they are taken    *)
(* of: digests of different values differ.                                 *)
(***************************************************************************)
EXTENDS Naturals, Sequences, FiniteSets, SequencesExt

CONSTANTS
  Contents,   \* the arguments the factories are called with
  MaxChains,  \* bound: bundles made and chains edited
  MaxForeign  \* bound: chains edited, and made from such

VARIABLES
  bundles,    \* made from nothing but bundles: chain, reference and the
              \* factories used, "ash", "plain" or "both"
  foreign     \* chains edited by a host, and made from such

chainVars == <<bundles, foreign>>

Stages       == <<"DETECTION", "CLASSIFICATION", "RECOVERY", "ESCALATION", "TERMINAL">>
Kinds        == {"STATE_VALIDITY", "RECOVERY", "FALLBACK", "CONTAINMENT", "SAFE_HALT"}
Dispositions == {"RESOLVED", "PENDING", "BLOCKED", "ESCALATED", "TERMINAL"}
Severities   == {"INFO", "WARNING", "ERROR", "CRITICAL"}
Families     == {"ASH-STATE", "ASH-CODEWORD", "ASH-ADMISSIBILITY", "ASH-CLASSIFICATION",
                 "ASH-RECOVERY", "ASH-FALLBACK", "ASH-CONTAINMENT", "ASH-HALT"}

StageRank(stage) == CHOOSE i \in 1..Len(Stages) : Stages[i] = stage

(* The contract of an envelope.  A rule has the family that its identity   *)
(* spells ("other" if it is none of Families) and the one it states.       *)
BaseKinds ==
  Kinds \cup {"POLICY", "BACKUP", "EXECUTION", "VERIFICATION", "ROLLBACK", "AUDIT", "MAPPING", "JSON_SEMANTICS"}
MeetsContract(c) ==
  c.kind \in BaseKinds /\ c.severity \in Severities /\ c.rules # <<>> /\ c.sources # {}

Identities(rules) == [i \in DOMAIN rules |-> rules[i].identity]

-------------------------------------------------------------------------------
(* The checks.                                                             *)

ValidChain(chain) ==
  LET entry == chain.diagnostics
  IN  /\ entry # <<>> /\ entry[1].id = chain.root /\ entry[1].parent = <<>>
      /\ \A i, j \in DOMAIN entry : entry[i].id = entry[j].id => i = j
      /\ \A i \in DOMAIN entry : entry[i].chain = chain.id
      /\ \A i \in 2..Len(entry) : entry[i].parent = <<entry[i - 1].id>>

Successor(ash, previous) ==
  IF previous = <<>> THEN ash.stage \notin {"ESCALATION", "TERMINAL"}
  ELSE /\ previous[1].stage # "TERMINAL"
       /\ StageRank(ash.stage) >= StageRank(previous[1].stage)
       /\ ash.stage = "ESCALATION" => previous[1].stage \in {"RECOVERY", "CLASSIFICATION"}
       /\ ash.stage = "TERMINAL" => previous[1].stage \in {"ESCALATION", "RECOVERY"}

(* The ASH diagnostic in an envelope repeats it and follows the previous   *)
(* one.  explained: it has a subject, a summary of one line, the message   *)
(* of the envelope, and notes, none of them empty.                         *)
ValidAsh(ash, envelope, root, previous) ==
  /\ ash.kind \in Kinds /\ ash.disposition \in Dispositions /\ ash.stage \in ToSet(Stages)
  /\ ash.explained
  /\ ash.kind = envelope.kind /\ ash.severity = envelope.severity
  /\ ash.parent = envelope.parent /\ ash.root = <<root>>
  /\ \A i \in DOMAIN envelope.rules :
       /\ envelope.rules[i].identity \in Families
       /\ envelope.rules[i].family = envelope.rules[i].identity
       /\ envelope.rules[i].source \in envelope.sources
  /\ envelope.rules # <<>> /\ ash.rules = Identities(envelope.rules)
  /\ Successor(ash, previous)
  /\ ash.stage = "TERMINAL" => ash.disposition = "TERMINAL"

AllAsh(chain) ==
  LET entry == chain.diagnostics IN
  \A i \in DOMAIN entry :
    /\ entry[i].ash # <<>>
    /\ ValidAsh(entry[i].ash[1], entry[i], chain.root, IF i = 1 THEN <<>> ELSE entry[i - 1].ash)

ValidDiagnosticChain(chain, requireCanonicalAsh) ==
  /\ ValidChain(chain)
  /\ \/ /\ ~requireCanonicalAsh
        /\ \A i \in DOMAIN chain.diagnostics : chain.diagnostics[i].ash = <<>>
     \/ AllAsh(chain)

ReferenceResolves(chain, reference) ==
  /\ chain.id = reference.chain
  /\ \E i \in DOMAIN chain.diagnostics :
       LET envelope == chain.diagnostics[i]
       IN  envelope.id = reference.id /\ envelope.kind = reference.kind /\ envelope.rules = reference.rules

-------------------------------------------------------------------------------
(* The factories.  Each yields the bundles of a call that returns: one, or *)
(* none when it throws.                                                    *)

Bundle(envelope, chain) ==
  [chain |-> chain,
   reference |-> [id |-> envelope.id, chain |-> chain.id, kind |-> envelope.kind, rules |-> envelope.rules]]

Envelope(c, ash, id, chain, parent) ==
  [id |-> id, chain |-> chain, parent |-> parent, kind |-> c.kind, severity |-> c.severity,
   rules |-> c.rules, sources |-> c.sources, evidence |-> c.evidence, ash |-> ash]

MakeDiagnosticBundle(c, ash) ==
  IF ~MeetsContract(c) THEN {}
  ELSE LET id       == [diagnostic |-> [content |-> c, ash |-> ash]]
           envelope == Envelope(c, ash, id, [chain |-> id], <<>>)
       IN  {Bundle(envelope, [id |-> [chain |-> id], root |-> id, diagnostics |-> <<envelope>>])}

(* Mutant: an identity is taken without the chain before.                  *)
AppendDiagnosticBundle_Unseeded(original, c, ash) ==
  IF ~ValidChain(original) \/ ~MeetsContract(c) THEN {}
  ELSE LET id       == [diagnostic |-> [content |-> c, ash |-> ash]]
           envelope == Envelope(c, ash, id, original.id, <<Last(original.diagnostics).id>>)
           chain    == [original EXCEPT !.diagnostics = Append(@, envelope)]
       IN  IF ValidChain(chain) THEN {Bundle(envelope, chain)} ELSE {}

AppendDiagnosticBundle(original, c, ash) ==
  IF ~ValidChain(original) \/ ~MeetsContract(c) THEN {}
  ELSE LET id       == [diagnostic |-> [after |-> original, content |-> c, ash |-> ash]]
           envelope == Envelope(c, ash, id, original.id, <<Last(original.diagnostics).id>>)
           chain    == [original EXCEPT !.diagnostics = Append(@, envelope)]
       IN  IF ValidChain(chain) THEN {Bundle(envelope, chain)} ELSE {}

AshOf(c, parent, root) ==
  [kind |-> c.kind, severity |-> c.severity, stage |-> c.stage, disposition |-> c.disposition,
   explained |-> c.explained, parent |-> parent, root |-> root, rules |-> Identities(c.rules)]

(* A root's ASH diagnostic refers to itself: the reference is put in after *)
(* the identity has been taken without it.                                 *)
WithAsh(bundle, ash) ==
  [bundle EXCEPT !.chain.diagnostics[Len(bundle.chain.diagnostics)].ash = <<ash>>]

MakeAshDiagnosticBundle(original, c) ==
  LET appends  == original # <<>>
      ash      == AshOf(c, IF appends THEN <<Last(original[1].diagnostics).id>> ELSE <<>>,
                           IF appends THEN <<original[1].root>> ELSE <<>>)
      previous == IF appends THEN Last(original[1].diagnostics).ash ELSE <<>>
      based    == IF ~appends THEN MakeDiagnosticBundle(c, <<ash>>)
                  ELSE IF ValidChain(original[1]) /\ AllAsh(original[1])
                  THEN AppendDiagnosticBundle(original[1], c, <<ash>>) ELSE {}
      final(b) == [ash EXCEPT !.root = <<b.chain.root>>]
  IN  {b \in {WithAsh(d, final(d)) : d \in based} :
         /\ ValidAsh(final(b), Last(b.chain.diagnostics), b.chain.root, previous)
         /\ ValidChain(b.chain)}

-------------------------------------------------------------------------------
(* Callers, each with a chain that some call has returned.                 *)

Room == Cardinality(bundles) + Cardinality(foreign) < MaxChains

Add(made, used, how) ==
  bundles' = bundles \cup {[chain |-> b.chain, reference |-> b.reference,
                            made |-> IF used \in {how, "none"} THEN how ELSE "both"] : b \in made}

Start(c) ==
  /\ Room
  /\ \/ \E made \in {MakeDiagnosticBundle(c, <<>>)} : Add(made, "none", "plain")
     \/ \E made \in {MakeAshDiagnosticBundle(<<>>, c)} : Add(made, "none", "ash")
  /\ UNCHANGED foreign

Extend(b, c) ==
  /\ Room
  /\ \/ \E made \in {AppendDiagnosticBundle(b.chain, c, <<>>)} : Add(made, b.made, "plain")
     \/ \E made \in {MakeAshDiagnosticBundle(<<b.chain>>, c)} : Add(made, b.made, "ash")
  /\ UNCHANGED foreign

(* A host edits its copy of a chain.                                       *)
Edited(chain) ==
  LET n == Len(chain.diagnostics) IN
  {[chain EXCEPT !.diagnostics = Tail(@)],
   [chain EXCEPT !.diagnostics = Append(@, @[1])],
   [chain EXCEPT !.diagnostics = Reverse(@)],
   [chain EXCEPT !.root = chain.diagnostics[n].id],
   [chain EXCEPT !.diagnostics[n].kind = "SAFE_HALT"]}
  \cup (IF chain.diagnostics[n].ash = <<>> THEN {}
        ELSE {[chain EXCEPT !.diagnostics[n].ash[1].stage = stage] : stage \in ToSet(Stages) \cup {"OTHER"}})

Forge(b) ==
  /\ Room /\ Cardinality(foreign) < MaxForeign
  /\ \E chain \in Edited(b.chain) \ {d.chain : d \in bundles} : foreign' = foreign \cup {chain}
  /\ UNCHANGED bundles

ExtendForeign(chain, c) ==
  /\ Room /\ Cardinality(foreign) < MaxForeign
  /\ \E made \in {AppendDiagnosticBundle(chain, c, <<>>) \cup MakeAshDiagnosticBundle(<<chain>>, c)} :
       foreign' = foreign \cup {b.chain : b \in made}
  /\ UNCHANGED bundles

ChainsInit == bundles = {} /\ foreign = {}

ChainsNext ==
  \/ \E c \in Contents : Start(c)
  \/ \E b \in bundles : Forge(b) \/ \E c \in Contents : Extend(b, c)
  \/ \E chain \in foreign, c \in Contents : ExtendForeign(chain, c)

ChainsSpec == ChainsInit /\ [][ChainsNext]_chainVars

-------------------------------------------------------------------------------

(* What the factories make passes the check every consumer runs on it, as  *)
(* an ASH chain when all its diagnostics are ASH diagnostics.  A caller    *)
(* that mixes the two factories gets a chain that no consumer accepts.     *)
MadeAccepted ==
  \A b \in bundles :
    /\ ValidDiagnosticChain(b.chain, TRUE) <=> b.made = "ash"
    /\ ValidDiagnosticChain(b.chain, FALSE) <=> b.made # "both"

(* A chain that is accepted as an ASH chain tells one story forwards, also *)
(* when a host has edited it: its stages never go back, it escalates at    *)
(* most once, on something, and nothing follows its one terminal entry.    *)
StagesAdvance ==
  \A chain \in foreign \cup {b.chain : b \in bundles} :
    ValidDiagnosticChain(chain, TRUE) =>
      LET stage(i) == chain.diagnostics[i].ash[1].stage
          last == Len(chain.diagnostics)
      IN  /\ \A i, j \in 1..last : i < j => StageRank(stage(i)) <= StageRank(stage(j))
          /\ \A i, j \in 1..last : i # j /\ stage(i) = "ESCALATION" => stage(j) # "ESCALATION"
          /\ \A i \in 1..last : stage(i) = "TERMINAL" => i = last /\ i > 1

(* A reference resolves in the chain it came with and in what is appended  *)
(* to that chain, and nowhere else: not in another chain that was started  *)
(* by the same root, nor where the same content was appended elsewhere.    *)
ReferencesResolve ==
  \A b, d \in bundles :
    ReferenceResolves(d.chain, b.reference) <=>
      b.chain.id = d.chain.id /\ IsPrefix(b.chain.diagnostics, d.chain.diagnostics)

(* What is made is accepted, what is accepted tells one story forwards,    *)
(* and references resolve where they belong.                               *)
ChainsSound == MadeAccepted /\ StagesAdvance /\ ReferencesResolve
===============================================================================
