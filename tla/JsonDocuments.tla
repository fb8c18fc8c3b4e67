------------------------------ MODULE JsonDocuments ----------------------------
(***************************************************************************)
(* Documents addressed by dot-separated paths (JsonPath.cpp).  A document  *)
(* maps its nodes, the sequences of member names and array indices that    *)
(* lead to them, to values; a container's node has the kind of container.  *)
(* A dot path is the sequence of the parts between its dots; <<>> is the   *)
(* empty string.  Nothing tells a dot inside a name from one between names.*)
(***************************************************************************)
EXTENDS Naturals, Sequences, FiniteSets, SequencesExt, FiniteSetsExt, Functions

CONSTANTS
  Names,     \* the names that occur, in the order of their bytes
  Numerals,  \* the numeral of i at i + 1
  Dotted     \* the names with a dot in them, mapped to their parts

Null   == [kind |-> "null"]
Object == [kind |-> "object"]
Array  == [kind |-> "array"]
Containers == {Object, Array}

(* The indices are the numerals, without zeros in front: names of digits   *)
(* like "01", which the code takes for indices too, are not in Names.      *)
Rank(name) == CHOOSE i \in 1..Len(Names) : Names[i] = name
IsIndex(part) == \E i \in 1..Len(Numerals) : Numerals[i] = part
IndexOf(part) == (CHOOSE i \in 1..Len(Numerals) : Numerals[i] = part) - 1

(* Names and numerals are told apart by their places.  A numeral is not    *)
(* empty and has no dot; a name with a dot in it comes after its beginning.*)
ASSUME NamesAssumption ==
  /\ Names \in Seq(Range(Names)) /\ "" \in Range(Names)
  /\ \A i, j \in 1..Len(Names) : Names[i] = Names[j] => i = j
ASSUME NumeralsAssumption ==
  /\ Numerals \in Seq(Range(Names) \ ({""} \cup DOMAIN Dotted))
  /\ \A i, j \in 1..Len(Numerals) : Numerals[i] = Numerals[j] => i = j
ASSUME DottedAssumption ==
  \A name \in DOMAIN Dotted :
    /\ name # "" /\ Dotted[name] \in Seq(Range(Names) \ DOMAIN Dotted)
    /\ Len(Dotted[name]) > 1 /\ Rank(Head(Dotted[name])) < Rank(name)

(* The order of the strings that the parts spell.                          *)
Precedes(s, t) ==
  LET differ == {i \in 1..Min({Len(s), Len(t)}) : s[i] # t[i]} IN
    IF differ = {} THEN Len(s) < Len(t)
    ELSE Rank(s[Min(differ)]) < Rank(t[Min(differ)])

(* The elements of a set in a strict order.                                *)
Ordered(S, Before(_, _)) ==
  CHOOSE q \in {[i \in 1..Cardinality(T) |->
                   CHOOSE x \in T : Cardinality({y \in T : Before(y, x)}) = i - 1] : T \in {S}} :
    TRUE

Split(path) == FoldLeft(LAMBDA parts, part : IF part = "" THEN parts ELSE Append(parts, part),
                        <<>>, path)

Children(doc, node) == {n \in DOMAIN doc : Len(n) = Len(node) + 1 /\ IsPrefix(node, n)}

(* A tree with an element per index in its arrays.                         *)
IsDocument(doc) ==
  /\ doc \in [DOMAIN doc -> Range(doc)] /\ IsFiniteSet(DOMAIN doc) /\ <<>> \in DOMAIN doc
  /\ \A n \in DOMAIN doc : n \in Seq(Range(Names))
  /\ \A n \in DOMAIN doc \ {<<>>} : Front(n) \in DOMAIN doc /\ doc[Front(n)] \in Containers
  /\ \A n \in DOMAIN doc : doc[n] = Array =>
       \E length \in 0..Len(Numerals) : Children(doc, n) = {Append(n, Numerals[i]) : i \in 1..length}

-------------------------------------------------------------------------------
(* Reading.  The nodes a path leads to: one or none.                       *)

Child(doc, node, part) ==
  IF doc[node] = Object \/ (doc[node] = Array /\ IsIndex(part))
  THEN {Append(node, part)} \cap DOMAIN doc ELSE {}

Located(doc, path) ==
  FoldLeft(LAMBDA nodes, part : UNION {Child(doc, n, part) : n \in nodes},
           {<<>>}, Split(path))

Exists(doc, path) == Located(doc, path) # {}
Get(doc, path) == IF Exists(doc, path) THEN doc[CHOOSE n \in Located(doc, path) : TRUE] ELSE Null

-------------------------------------------------------------------------------
(* Writing.  An intermediate result is the document, the node reached and  *)
(* whether all is well: using a name on a scalar or an array throws.       *)

Replace(doc, node, value) ==
  [n \in {n \in DOMAIN doc : ~IsPrefix(node, n)} \cup {node} |-> IF n = node THEN value ELSE doc[n]]

Extended(doc, nodes, value) ==
  [n \in DOMAIN doc \cup nodes |-> IF n \in DOMAIN doc THEN doc[n] ELSE value]

(* Nulls up to the index, as push_back adds them.                          *)
Padded(doc, node, index) ==
  Extended(doc, {Append(node, Numerals[i + 1]) : i \in Cardinality(Children(doc, node))..index}, Null)

(* operator[]: a null becomes an object, another scalar or an array throws.*)
Named(doc, node) ==
  IF doc[node] = Null THEN {Replace(doc, node, Object)}
  ELSE IF doc[node] = Object THEN {doc} ELSE {}

Thrown(acc) == [acc EXCEPT !.ok = FALSE]

(* One part before the last.  At an array, a part that is no index is      *)
(* passed over.                                                            *)
Descend(acc, part, next) ==
  LET at     == acc.at
      new    == IF IsIndex(next) THEN Array ELSE Object
      create == acc.doc[at] # Array /\ Child(acc.doc, at, part) = {}
      named  == {IF create THEN Extended(d, {Append(at, part)}, new) ELSE d :
                   d \in Named(acc.doc, at)}
  IN IF acc.doc[at] = Array
     THEN IF IsIndex(part)
          THEN [acc EXCEPT !.doc = Padded(@, at, IndexOf(part)), !.at = Append(@, part)]
          ELSE acc
     ELSE IF named = {} THEN Thrown(acc)
     ELSE [acc EXCEPT !.doc = CHOOSE d \in named : TRUE, !.at = Append(@, part)]

Assign(acc, part, value) ==
  LET at   == acc.at
      kind == acc.doc[at]
  IN IF kind = Array /\ IsIndex(part)
     THEN [acc EXCEPT !.doc = Replace(Padded(@, at, IndexOf(part)), Append(at, part), value)]
     ELSE IF kind # Array /\ Named(acc.doc, at) # {}
     THEN [acc EXCEPT !.doc =
             Replace(CHOOSE d \in Named(acc.doc, at) : TRUE, Append(at, part), value)]
     ELSE Thrown(acc)

Set(doc, path, value) ==
  LET parts == Split(path)
      start == [doc |-> doc, at |-> <<>>, ok |-> TRUE]
      down  == FoldLeft(LAMBDA acc, i : IF acc.ok THEN Descend(acc, parts[i], parts[i + 1]) ELSE acc,
                        start, [i \in 1..(Len(parts) - 1) |-> i])
  IN IF parts = <<>> THEN start
     ELSE IF ~down.ok THEN down ELSE Assign(down, Last(parts), value)

-------------------------------------------------------------------------------
(* Flattening: the scalars by the path that spells their node.  Of two     *)
(* nodes that are spelled alike the one visited later counts.              *)

Parts(name) == IF name \in DOMAIN Dotted THEN Dotted[name] ELSE <<name>>

PathOf(doc, node) ==
  FoldLeft(LAMBDA path, i :
             LET inArray == doc[SubSeq(node, 1, i - 1)] = Array IN
               IF path # <<>> \/ inArray THEN (IF path = <<>> THEN <<"">> ELSE path) \o Parts(node[i])
               ELSE IF node[i] = "" THEN <<>> ELSE Parts(node[i]),
           <<>>, [i \in 1..Len(node) |-> i])

(* Members are visited in the order of their names, elements by index.     *)
VisitedBefore(doc, m, n) ==
  LET i == Min({i \in 1..Min({Len(m), Len(n)}) : m[i] # n[i]}) IN
    IF doc[SubSeq(m, 1, i - 1)] = Array THEN IndexOf(m[i]) < IndexOf(n[i])
    ELSE Rank(m[i]) < Rank(n[i])

Flatten(doc) ==
  LET leaves   == {n \in DOMAIN doc \ {<<>>} : doc[n] \notin Containers}
      At(path) == {n \in leaves : PathOf(doc, n) = path}
      Final(nodes) == CHOOSE n \in nodes : \A m \in nodes \ {n} : VisitedBefore(doc, m, n)
  IN [path \in {PathOf(doc, n) : n \in leaves} |-> doc[Final(At(path))]]

Unflatten(flat) ==
  FoldLeft(LAMBDA acc, path : IF acc.ok
             THEN LET next == Set(acc.doc, path, flat[path])
                  IN [next EXCEPT !.at = <<>>]
             ELSE acc,
           [doc |-> [n \in {<<>>} |-> Object], at |-> <<>>, ok |-> TRUE],
           Ordered(DOMAIN flat, Precedes))

(* A document that its flattened form says everything of.  An array right  *)
(* in an array is not said: set pads the outer one with nulls, and a null  *)
(* becomes an object whatever the next part is.                            *)
Regular(doc) ==
  /\ doc[<<>>] = Object
  /\ \A n \in DOMAIN doc : Range(n) \cap ({""} \cup DOMAIN Dotted) = {}
  /\ \A n \in DOMAIN doc \ {<<>>} : doc[n] \in Containers => Children(doc, n) # {}
  /\ \A n \in DOMAIN doc : doc[n] = Object => \A m \in Children(doc, n) : ~IsIndex(Last(m))
  /\ \A n \in DOMAIN doc \ {<<>>} : doc[n] = Array => doc[Front(n)] = Object
===============================================================================
