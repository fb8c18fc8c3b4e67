------------------------------ MODULE SurfaceRepair ----------------------------
(***************************************************************************)
(* The repair of plain documents, as pure functions: drift between two     *)
(* flattened documents (DriftAnalyzer.cpp), the plan (RepairPlanner.cpp),  *)
(* the invariants it is held against (InvariantParser.cpp,                 *)
(* PolicyEvaluator.cpp), its application (JsonConfigAdapter.cpp) and the   *)
(* verification (Verification.cpp).                                        *)
(***************************************************************************)
EXTENDS JsonDocuments, JsonNumbers

CONSTANT Literals  \* the words that parse as JSON, mapped to their values

-------------------------------------------------------------------------------
(* Drift and plan.                                                         *)

DriftEvent(key, type, from, to) == [key |-> key, type |-> type, from |-> from, to |-> to]

Drift(observed, desired) ==
  {DriftEvent(k, "KeyAdded", Null, desired[k]) : k \in DOMAIN desired \ DOMAIN observed}
  \cup {DriftEvent(k, "ValueChanged", observed[k], desired[k]) :
          k \in {k \in DOMAIN desired \cap DOMAIN observed : observed[k] # desired[k]}}
  \cup {DriftEvent(k, "KeyRemoved", observed[k], Null) : k \in DOMAIN observed \ DOMAIN desired}

HasDrift(observed, desired) ==
  \/ Cardinality(DOMAIN observed) # Cardinality(DOMAIN desired)
  \/ \E k \in DOMAIN desired : k \notin DOMAIN observed \/ observed[k] # desired[k]

(* In the order of the keys; what only the observed document has is kept.  *)
CreatePlan(drift) ==
  LET actions == {[key |-> d.key, add |-> d.type = "KeyAdded", from |-> d.from, to |-> d.to] :
                    d \in {d \in drift : d.type # "KeyRemoved"}}
  IN Ordered(actions, LAMBDA a, b : Precedes(a.key, b.key))

-------------------------------------------------------------------------------
(* Invariants.  An expression is a sequence of words; the first operator   *)
(* of this list that occurs in it splits it, and there may be none.        *)

Operators == <<"!=", ">=", "<=", "==", ">", "<">>
Occurring(expression) == {i \in 1..Len(Operators) : Contains(expression, Operators[i])}

(* parseValue: what is no JSON is a bare string.                           *)
Value(words) ==
  IF words = <<>> THEN Null
  ELSE IF Len(words) = 1 /\ words[1] \in DOMAIN Literals THEN Literals[words[1]]
  ELSE [kind |-> "string", text |-> words]

ParseExpression(expression) ==
  LET op == Operators[Min(Occurring(expression))]
      at == SelectInSeq(expression, LAMBDA word : word = op)
  IN [key |-> SubSeq(expression, 1, at - 1), op |-> op,
      expected |-> Value(SubSeq(expression, at + 1, Len(expression)))]

(* The sign an ordering comparison has for numbers, or for strings; other  *)
(* pairs have none.                                                        *)
Ordering(a, b) ==
  IF a.kind = "number" /\ b.kind = "number" THEN {Compare(a, b)}
  ELSE IF a.kind = "string" /\ b.kind = "string"
  THEN {IF a.text = b.text THEN 0 ELSE IF Precedes(a.text, b.text) THEN -1 ELSE 1} ELSE {}

Signs == [o \in {">", "<", ">=", "<="} |->
            CASE o = ">" -> {1} [] o = "<" -> {-1} [] o = ">=" -> {0, 1} [] o = "<=" -> {-1, 0}]

Satisfies(actual, op, expected) ==
  CASE op = "==" -> actual = expected
    [] op = "!=" -> actual # expected
    [] op \in DOMAIN Signs -> Ordering(actual, expected) \cap Signs[op] # {}

(* A key that is not there satisfies nothing.                              *)
EvaluateExpression(expression, flat) ==
  LET p == ParseExpression(expression)
  IN p.key \in DOMAIN flat /\ Satisfies(flat[p.key], p.op, p.expected)

(* An expression without an operator throws where it is evaluated.         *)
Evaluable(rules) == \A r \in rules : Occurring(r.expression) # {}

(* The policy looks at the desired document only.                          *)
Violations(rules, observed, desired) ==
  {r \in rules : ~EvaluateExpression(r.expression, desired)}

Allowed(violations) ==
  \A r \in violations : r.autoRemediate \/ r.severity \in {"low", "medium"}

-------------------------------------------------------------------------------
(* Applying a plan to a document, action by action, and verifying what was *)
(* written.                                                                *)

Applicable(doc, action) ==
  IF action.add THEN ~Exists(doc, action.key)
  ELSE Exists(doc, action.key) /\ Get(doc, action.key) = action.from

Apply(doc, plan) ==
  FoldLeft(LAMBDA before, action :
             CHOOSE after \in {IF ~acc.ok \/ ~Applicable(acc.doc, action) THEN Thrown(acc)
                               ELSE [Set(acc.doc, action.key, action.to) EXCEPT !.at = <<>>] :
                                 acc \in {before}} : TRUE,
           [doc |-> doc, at |-> <<>>, ok |-> TRUE], plan)

(* Mutant: the values are not compared.                                    *)
DesiredReached_KeysOnly(flat, desired) == DOMAIN desired \subseteq DOMAIN flat

DesiredReached(flat, desired) ==
  \A k \in DOMAIN desired : k \in DOMAIN flat /\ flat[k] = desired[k]

Verified(flat, desired, rules) ==
  /\ DesiredReached(flat, desired)
  /\ \A r \in rules : EvaluateExpression(r.expression, flat)
===============================================================================
